----------------------------- MODULE BuilderOps -----------------------------
(***************************************************************************)
(* pkg/topologybuilder: the slice graph that Build makes of a spec, and    *)
(* what BuildModifyFromExisting makes of a spec and a persisted model.     *)
(* Both work on a graph of their own and return it only when every step    *)
(* succeeded.  The GraphML the model is persisted in reads back as the     *)
(* same elements and edges in the same order.                              *)
(*                                                                         *)
(* A spec has sequences of                                                 *)
(*   nodes       [name, site, components]                                  *)
(*   facilities  [name, site, ports], switches [name, site, nPorts]        *)
(*   networks    [name, type, interfaces, from], type "" to be inferred,   *)
(*               from the interface that a port mirror copies              *)
(* and an interface of a network is                                        *)
(*   [node, facility, component, port, name, vlan, subs]                   *)
(* with NoName for what is not given: it is named by its component and the *)
(* port of it, or by its own name.  The third way, by its place among all  *)
(* interfaces of the node, is left out.                                    *)
(***************************************************************************)
EXTENDS TopologyOps, FiniteSetsExt

NamesOf(records) == {records[k].name : k \in DOMAIN records}

-----------------------------------------------------------------------------
(* Interfaces that a spec names.                                           *)

\* The port of a component with an index: ports are added in the order of
\* their labels and keep it.
PortsOfComponent(G, c, port) ==
  LET labels == PortLabels(TypeOf(G, c))
  IN  {i \in InterfaceList(G, c) :
         port \in 0..(Len(labels) - 1) /\ NameOf(G, i) = NameOf(G, c) \o <<labels[port + 1]>>}

\* resolveNodeInterface
ResolveOnNode(G, n, ref) ==
  IF ref.component # NoName
  THEN UNION {PortsOfComponent(G, c, ref.port) :
                c \in {c \in Components(G, n) : NameOf(G, c) \in {ref.component, NameOf(G, n) \o ref.component}}}
  ELSE {i \in InterfaceList(G, n) : NameOf(G, i) = ref.name}

\* resolveNetworkInterface: none is an error.
Resolve(G, spec, ref) ==
  LET owners == IF ref.facility # NoName
                THEN {n \in Named(G, "NetworkNode", ref.facility) : ref.facility \in NamesOf(spec.facilities)}
                ELSE {n \in Named(G, "NetworkNode", ref.node) : ref.node \in NamesOf(spec.nodes)}
  IN  UNION {ResolveOnNode(G, n, ref) : n \in owners}

-----------------------------------------------------------------------------
(* Elements that a spec adds.                                              *)

AddSpecNode(r, node) ==
  LET added == AddNodeTo(r, [name |-> node.name, type |-> "VM", site |-> node.site, id |-> NoID,
                             image |-> TRUE, mgmtIP |-> FALSE])
      component(q, c) ==
        AddComponentTo(q, ChooseID(NoID, <<"node", node.name>>),
          [name |-> c.name, kind |-> c.kind, id |-> NoID, nsID |-> NoID,
           portID |-> [l \in {"p1", "p2"} |-> NoID]])
  IN  InTurn(component, added, node.components)

AddSpecFacility(r, facility) ==
  AddFacilityTo(r, [name |-> facility.name, type |-> "VLAN", site |-> facility.site, id |-> NoID,
                    nsID |-> NoID, ports |-> [k \in DOMAIN facility.ports |-> [name |-> facility.ports[k], id |-> NoID]]])

AddSpecSwitch(r, switch) ==
  AddSwitchTo(r, [name |-> switch.name, type |-> "P4", site |-> switch.site, id |-> NoID,
                  nsID |-> NoID, nPorts |-> switch.nPorts])

\* Labels and sub-interfaces of an interface about to be connected.
Prepare(r, i, ref) ==
  LET sub(q, s) == AddChildInterfaceTo(q, i, [name |-> s.name, vlan |-> s.vlan, id |-> NoID])
  IN  InTurn(sub, SetLabelsOn(r, i, ref.vlan), ref.subs)

\* inferL2ServiceType without an explicit route; "" is an error.
InferServiceType(G, ifs) ==
  LET sites      == {SiteOfInterface(G, ifs[k]) : k \in DOMAIN ifs}
      ofType(t)  == {k \in DOMAIN ifs : TypeOf(G, ifs[k]) = t}
      facilities == Cardinality(ofType("FacilityPort"))
  IN  CASE Cardinality(sites) <= 1 -> "L2Bridge"
        [] Cardinality(sites) = 2 /\ facilities = 1 /\ ofType("SharedPort") = {} -> "L2PTP"
        [] Cardinality(sites) = 2 /\ (facilities # 1 \/ ofType("SharedPort") # {}) /\ Len(ifs) >= 2 -> "L2STS"
        [] OTHER -> ""

\* addNetwork for the interfaces of the spec in turn, then the service.
AddSpecNetwork(r, spec, network) ==
  LET step(q, ref) ==
        LET found == Resolve(q.r.graph, spec, ref)
        IN  IF ~q.r.ok \/ found = {} THEN [q EXCEPT !.r.ok = FALSE]
            ELSE LET i == AnyOf(found, NoID) IN [r |-> Prepare(q.r, i, ref), ifs |-> Append(q.ifs, i)]
      service(q) ==
        LET type == IF network.type # "" THEN network.type ELSE InferServiceType(q.r.graph, q.ifs)
        IN  IF ~q.r.ok \/ type = "" THEN [q.r EXCEPT !.ok = FALSE]
            ELSE AddServiceTo(q.r, NoID, [name |-> network.name, type |-> type, site |-> NoSite, id |-> NoID,
                                          mirror |-> NoName, badGateway |-> FALSE], q.ifs)
  IN  service(InTurn(step, [r |-> r, ifs |-> << >>], network.interfaces))

\* addNetwork for a port mirror: the first interface is where it copies to.
AddSpecMirror(r, spec, network) ==
  LET refs    == network.interfaces
      to      == IF refs = << >> THEN {} ELSE Resolve(r.graph, spec, refs[1])
      sources == Named(r.graph, "ConnectionPoint", network.from)
  IN  IF ~r.ok \/ to = {} \/ sources = {} THEN [r EXCEPT !.ok = FALSE]
      ELSE LET i == AnyOf(to, NoID)
           IN  AddPortMirrorTo(SetLabelsOn(r, i, refs[1].vlan),
                 [name |-> network.name, site |-> NoSite, id |-> NoID], i, AnyOf(sources, NoID))

AddNetwork(r, spec, network) ==
  IF network.type = "PortMirror" THEN AddSpecMirror(r, spec, network) ELSE AddSpecNetwork(r, spec, network)

BuildFrom(spec) ==
  LET network(q, n) == AddNetwork(q, spec, n)
      nodes      == InTurn(AddSpecNode, Ok(NewGraph), spec.nodes)
      facilities == InTurn(AddSpecFacility, nodes, spec.facilities)
      switches   == InTurn(AddSpecSwitch, facilities, spec.switches)
  IN  InTurn(network, switches, spec.networks)

-----------------------------------------------------------------------------
(* Modify.                                                                 *)

\* Faulty variant: the node goes while its interfaces are attached.
DropNodeAttached(G, n) == RemoveSubtree(G, n)

\* A dropped node: each of its interfaces is disconnected from every service,
\* then it is removed.
DropNodeFrom(G, n) ==
  LET detach(pair, H) ==
        LET attached == Attachments(H, pair[1], pair[2])
        IN  IF attached = {} THEN H ELSE DeletePorts(H, {AnyOf(attached, NoID)})
  IN  RemoveSubtree(FoldSet(detach, G, Services(G) \X InterfaceList(G, n)), n)

NodeNames(spec) == NamesOf(spec.nodes) \cup NamesOf(spec.facilities) \cup NamesOf(spec.switches)

\* Faulty variant: the services of nodes and components are dropped as well.
DropAllServices(G, spec) ==
  LET gone == {s \in Services(G) : NameOf(G, s) \notin NamesOf(spec.networks)}
      drop(s, H) == RemoveService(H, s)
  IN  Ok(FoldSet(drop, G, gone))

\* Services of the slice that the spec does not name, removed by name.
DropServices(G, spec) ==
  LET gone == {s \in SliceNetworkServices(G) : NameOf(G, s) \notin NamesOf(spec.networks)}
      drop(s, r) ==
        LET found == Named(r.graph, "NetworkService", NameOf(G, s))
        IN  IF found = {} THEN [r EXCEPT !.ok = FALSE] ELSE [r EXCEPT !.graph = RemoveService(@, AnyOf(found, NoID))]
  IN  FoldSet(drop, Ok(G), gone)

\* Faulty variant: what is already attached is connected again.
ConnectAll(r, spec, s, network) ==
  LET connect(q, ref) ==
        LET found == Resolve(q.graph, spec, ref)
            i     == AnyOf(found, NoID)
        IN  IF ~q.ok \/ found = {} THEN [q EXCEPT !.ok = FALSE]
            ELSE ConnectTo(Prepare(q, i, ref), s, i)
  IN  InTurn(connect, r, network.interfaces)

\* The interfaces of a network that is kept and that are not attached to it.
ConnectMissing(r, spec, s, network) ==
  LET ports == Interfaces(r.graph, s)
      connect(q, ref) ==
        LET found == Resolve(q.graph, spec, ref)
            i     == AnyOf(found, NoID)
        IN  IF ~q.ok \/ found = {} THEN [q EXCEPT !.ok = FALSE]
            ELSE IF ServicePortPeers(q.graph, i) \cap ports # {} THEN q
            ELSE ConnectTo(Prepare(q, i, ref), s, i)
  IN  InTurn(connect, r, network.interfaces)

\* What exists by name is taken as it is; what does not is added.
ModifyFrom(spec, model) ==
  LET dropNode(n, G) == DropNodeFrom(G, n)
      new(q, element) == Named(q.graph, "NetworkNode", element.name) = {}
      node(q, n)      == IF new(q, n) THEN AddSpecNode(q, n) ELSE q
      facility(q, f)  == IF new(q, f) THEN AddSpecFacility(q, f) ELSE q
      switch(q, w)    == IF new(q, w) THEN AddSpecSwitch(q, w) ELSE q
      network(q, n)   ==
        LET found == Named(q.graph, "NetworkService", n.name)
        IN  IF found = {} THEN AddNetwork(q, spec, n)
            ELSE IF n.type = "PortMirror" THEN q
            ELSE ConnectMissing(q, spec, AnyOf(found, NoID), n)
      dropped  == FoldSet(dropNode, model, {n \in NetworkNodes(model) : NameOf(model, n) \notin NodeNames(spec)})
      services == DropServices(dropped, spec)
      nodes    == InTurn(node, services, spec.nodes)
      others   == InTurn(switch, InTurn(facility, nodes, spec.facilities), spec.switches)
  IN  InTurn(network, others, spec.networks)

=============================================================================
