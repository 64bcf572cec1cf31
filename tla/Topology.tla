------------------------------ MODULE Topology ------------------------------
(***************************************************************************)
(* A topology.Topology under a sequence of builder calls, in any order and *)
(* with any of the option records of the instance, failing calls included: *)
(* a call that fails leaves whatever its error path leaves behind.         *)
(*                                                                         *)
(* Callers hold facades (Node, NetworkService, Interface), which are       *)
(* nothing but IDs.  A caller is known by the option records it passes to  *)
(* each builder method and by its liberties, what it does beyond the       *)
(* discipline of topologybuilder:                                          *)
(*   "stale"   pass a facade of an interface that has been removed, itself *)
(*             or with its node                                            *)
(*   "peer"    connect ServicePorts, by Peer or by ConnectInterface        *)
(*   "attached" remove nodes and components that are still attached        *)
(*   "owned"   remove services that belong to a node or a component        *)
(*   "links"   remove the Links that ConnectInterface made                 *)
(***************************************************************************)
EXTENDS BuilderOps

CONSTANTS
  Callers,     \* name of a caller -> what it passes, see Opts
  MaxAttach,   \* bound on the interfaces of one AddNetworkService or AddLink
  MaxWords     \* bound on the name of an interface that is connected: the
               \* ServicePort made for it gets a longer one

\* The option records of each builder method, the labels for SetLabels, and a
\* bound on the elements of the graph (the code has none).
Opts ==
  {"nodes", "components", "services", "nodeServices", "facilities", "switches", "mirrors", "links",
   "ports", "children", "vlans", "liberties", "maxElements"}

ASSUME CallersAssumption ==
  \A c \in DOMAIN Callers :
    /\ DOMAIN Callers[c] = Opts
    /\ Callers[c].liberties \subseteq {"stale", "peer", "attached", "owned", "links"}
    /\ Callers[c].maxElements \in Nat

\* The names that a caller gives to nodes, and to services that AddNetworkService
\* makes for it, its own and those of facilities and switches.
NamesOfNodes(opts)    == {o.name : o \in opts.nodes \cup opts.facilities \cup opts.switches}
NamesOfServices(opts) ==
  {o.name : o \in opts.services \cup opts.nodeServices \cup opts.mirrors}
  \cup {o.name \o <<"ns">> : o \in opts.facilities \cup opts.switches}

\* The name of the service of a component of a node with that name.
ComponentService(node, o) ==
  node \o o.name \o <<"l2", IF o.kind = "FPGA" THEN "P4" ELSE "OVS">>

\* The discipline of topologybuilder: no liberties, no ports that look like
\* those ConnectInterface makes, no ID for a service, which is then that of its
\* name, and no name for two services.
KeepsDiscipline(opts) ==
  /\ opts.liberties = {}
  /\ \A p \in opts.ports : p.type # "ServicePort"
  /\ \A o \in opts.services \cup opts.nodeServices \cup opts.mirrors : o.id = NoID
  /\ \A o \in opts.components \cup opts.facilities \cup opts.switches : o.nsID = NoID
  /\ \A node \in NamesOfNodes(opts), o \in opts.components :
       /\ ComponentService(node, o) \notin NamesOfServices(opts)
       /\ \A other \in NamesOfNodes(opts), p \in opts.components :
            ComponentService(node, o) = ComponentService(other, p) => node = other /\ o.name = p.name

\* The IDs that a caller supplies for elements.
IDsGiven(opts) ==
  {o.id : o \in UNION {opts.nodes, opts.components, opts.services, opts.nodeServices, opts.facilities,
                      opts.switches, opts.mirrors, opts.links, opts.ports, opts.children}}
  \cup {o.nsID : o \in opts.components \cup opts.facilities \cup opts.switches}
  \cup (UNION {{o.portID[l] : l \in {"p1", "p2"}} : o \in opts.components})
  \cup (UNION {{o.ports[k].id : k \in DOMAIN o.ports} : o \in opts.facilities})

\* The ID of a facade of an interface that was removed.
Stale == <<"stale">>

ASSUME IDsAssumption == \A c \in DOMAIN Callers : Stale \notin IDsGiven(Callers[c])
ASSUME PortsAssumption ==
  \A c \in DOMAIN Callers :
    /\ \A o \in Callers[c].facilities : \E n \in 0..Len(o.ports) : DOMAIN o.ports = 1..n
    /\ \A o \in Callers[c].switches : o.nPorts \in Nat
ASSUME BoundsAssumption == {MaxAttach, MaxWords} \subseteq Nat

VARIABLES
  g,       \* the slice graph
  caller   \* who builds it

vars == <<g, caller>>

The == Callers[caller]

-----------------------------------------------------------------------------
(* What callers pass.                                                      *)

\* The interfaces callers find below the nodes of the slice, by peering also
\* those of its services, and the ones they still hold a facade of.
Found ==
  LET listed == UNION {InterfaceList(g, n) : n \in NetworkNodes(g)}
  IN  listed \cup UNION {ChildInterfaces(g, i) : i \in listed}

ServicePorts == {i \in UNION {Interfaces(g, s) : s \in Services(g)} : TypeOf(g, i) = "ServicePort"}

Connectable ==
  LET held == IF "stale" \in The.liberties THEN Ports(g) \cup {Stale} ELSE Found
  IN  {i \in (held \ ServicePorts) \cup (IF "peer" \in The.liberties THEN ServicePorts ELSE {}) :
         Len(NameOf(g, i)) <= MaxWords}

InterfaceLists == UNION {[1..k -> Connectable] : k \in 0..MaxAttach}

NodeInterfacePeers(n) == UNION {ServicePortPeers(g, i) : i \in InterfaceList(g, n)}

\* The effect of a builder call, within the bound.
Becomes(r) ==
  /\ Cardinality(Ids(r.graph)) <= The.maxElements
  /\ g' = r.graph

-----------------------------------------------------------------------------
(* Calls that build.                                                       *)

AddNode(o) == Becomes(AddNodeTo(Ok(g), o))

AddComponent(n, o) == Becomes(AddComponentTo(Ok(g), n, o))

AddNetworkService(o, ifs) == Becomes(AddServiceTo(Ok(g), NoID, o, ifs))

\* Node.AddNetworkService
AddNodeService(n, o, ifs) == Becomes(AddServiceTo(Ok(g), n, o, ifs))

AddFacility(o) == Becomes(AddFacilityTo(Ok(g), o))

AddSwitch(o) == Becomes(AddSwitchTo(Ok(g), o))

AddPortMirrorService(o, to) ==
  \E source \in Named(g, "ConnectionPoint", o.from) : Becomes(AddPortMirrorTo(Ok(g), o, to, source))

AddLink(o, ifs) == Becomes(AddLinkTo(Ok(g), o, ifs))

AddInterface(s, p) == Becomes(AddInterfaceTo(Ok(g), s, p))

AddChildInterface(i, c) == Becomes(AddChildInterfaceTo(Ok(g), i, c))

ConnectInterface(s, i) == Becomes(ConnectTo(Ok(g), s, i))

\* NetworkService.Peer: the first interface of the other service.
Peer(s, other) ==
  /\ "peer" \in The.liberties
  /\ \E i \in Interfaces(g, other) \cap Connectable : Becomes(ConnectTo(Ok(g), s, i))

SetLabels(i, vlan) == Becomes(SetLabelsOn(Ok(g), i, vlan))

Build ==
  \/ \E o \in The.nodes : AddNode(o)
  \/ \E n \in NetworkNodes(g), o \in The.components : AddComponent(n, o)
  \/ \E o \in The.services, ifs \in InterfaceLists : AddNetworkService(o, ifs)
  \/ \E n \in NetworkNodes(g), o \in The.nodeServices, ifs \in InterfaceLists : AddNodeService(n, o, ifs)
  \/ \E o \in The.facilities : AddFacility(o)
  \/ \E o \in The.switches : AddSwitch(o)
  \/ \E o \in The.mirrors, to \in Connectable : AddPortMirrorService(o, to)
  \/ \E o \in The.links, ifs \in InterfaceLists : AddLink(o, ifs)
  \/ \E s \in Services(g), p \in The.ports : AddInterface(s, p)
  \/ \E i \in Ports(g), c \in The.children : AddChildInterface(i, c)
  \/ \E s \in Services(g), i \in Connectable : ConnectInterface(s, i)
  \/ \E s, other \in Services(g) : Peer(s, other)
  \/ \E i \in Ports(g), vlan \in The.vlans : SetLabels(i, vlan)

-----------------------------------------------------------------------------
(* Calls that remove.                                                      *)

DisconnectInterface(s, i) ==
  \E p \in Attachments(g, s, i) : g' = DeletePorts(g, {p})

RemoveNode(n) ==
  /\ "attached" \in The.liberties \/ NodeInterfacePeers(n) = {}
  /\ g' = RemoveSubtree(g, n)

RemoveComponent(c) ==
  /\ \/ "attached" \in The.liberties
     \/ \A s \in Children(g, c, "NetworkService") : \A i \in Interfaces(g, s) : ServicePortPeers(g, i) = {}
  /\ g' = RemoveSubtree(g, c)

\* RemoveNetworkService takes a name and removes a service with that name;
\* disciplined callers take the name from SliceNetworkServices.
RemoveNetworkService(name) ==
  /\ \/ "owned" \in The.liberties
     \/ name \in {NameOf(g, s) : s \in SliceNetworkServices(g)}
  /\ \E s \in Named(g, "NetworkService", name) : g' = RemoveService(g, s)

\* RemoveLink, likewise; the Links of ConnectInterface have incoming edges.
RemoveLink(name) ==
  /\ \/ "links" \in The.liberties
     \/ \A l \in Named(g, "Link", name) : Incoming(g, l, "connects") = {}
  /\ \E l \in Named(g, "Link", name) : g' = Delete(g, {l})

\* BuildModifyFromExisting drops a node.
DropNode(n) == g' = DropNodeFrom(g, n)

Remove ==
  \/ \E s \in Services(g), i \in Ports(g) : DisconnectInterface(s, i)
  \/ \E n \in NetworkNodes(g) : RemoveNode(n) \/ DropNode(n)
  \/ \E n \in NetworkNodes(g) : \E c \in Components(g, n) : RemoveComponent(c)
  \/ \E s \in Services(g) : RemoveNetworkService(NameOf(g, s))
  \/ \E l \in Links(g) : RemoveLink(NameOf(g, l))

-----------------------------------------------------------------------------
Init == g = NewGraph /\ caller \in DOMAIN Callers
Next == (Build \/ Remove) /\ UNCHANGED caller
Spec == Init /\ [][Next]_vars

-----------------------------------------------------------------------------
(* Properties.                                                             *)

\* The edges of a FIM graph: who has what, and what connects to what.
EdgeShapes ==
  {<<"has", "NetworkNode", "Component">>, <<"has", "NetworkNode", "NetworkService">>,
   <<"has", "Component", "NetworkService">>, <<"connects", "NetworkService", "ConnectionPoint">>,
   <<"connects", "ConnectionPoint", "ConnectionPoint">>, <<"connects", "ConnectionPoint", "Link">>,
   <<"connects", "Link", "ConnectionPoint">>}

\* Elements are of the four kinds that have names and types, and edges join
\* elements that exist and that may be joined.
TypeOK ==
  /\ \A n \in Ids(g) :
       /\ DOMAIN g.nodes[n] = {"class", "name", "type", "site", "vlan"}
       /\ g.nodes[n].class \in {"NetworkNode", "Component", "NetworkService", "ConnectionPoint", "Link"}
  /\ \A e \in g.edges :
       /\ {e.source, e.target} \subseteq Ids(g)
       /\ <<e.class, g.nodes[e.source].class, g.nodes[e.target].class>> \in EdgeShapes

Owners(n) ==
  Incoming(g, n, "has") \cup
  IF n \in Ports(g) THEN Incoming(g, n, "connects") \ Links(g) ELSE {}

\* Nothing has two owners, whatever IDs collide and whichever call fails half
\* way.  parentService, parentNodeName and siteOfInterface take the first
\* incoming neighbour (facades.go:602, validate.go:123): they are right only
\* if there is no second.
OwnersAreUnique == \A n \in Ids(g) : Cardinality(Owners(n)) <= 1

\* Every ServicePort has exactly one peer, the interface it attaches: "The
\* orchestrator rejects a modify unless every ServicePort has exactly one
\* peer" (builder_modify_roundtrip_test.go:81).
OnePeer ==
  \A p \in Ports(g) : TypeOf(g, p) = "ServicePort" => Cardinality(GetPeers(g, p)) = 1

\* The port is below a service, or below a port that is.
Belongs(i) == \E owner \in Owners(i) : owner \in Services(g) \/ Owners(owner) # {}

ServicePortsAttach(interfaces) ==
  \A s \in Services(g) : \A p \in Interfaces(g, s) :
    TypeOf(g, p) = "ServicePort" => \A i \in GetPeers(g, p) \cap interfaces : Belongs(i)

SubInterfaces == {i \in Ports(g) : TypeOf(g, i) = "SubInterface"}

\* A ServicePort of a service attaches a port that still belongs to something:
\* dropping nodes leaves "no dangling service port or link [...] behind on a
\* kept service" (builder.go:44), sub-interfaces apart.
NoDanglingServicePort == ServicePortsAttach(Ports(g) \ SubInterfaces)

\* Lookup by name finds the one element with that name.  Node looks among the
\* nodes; NetworkService and RemoveNetworkService take the first of all services
\* with the name, those of nodes, switches and components included, while only
\* the names of the slice's own are checked (topology.go:262, 283, 361, 437).
\* That no other service is found rests on the discipline of the caller: the ID
\* of a service follows from its name, and the names that components give theirs
\* are not given to others.
LookupsAreUnambiguous ==
  /\ \A n, m \in NetworkNodes(g) : NameOf(g, n) = NameOf(g, m) => n = m
  /\ \A s, t \in Services(g) : NameOf(g, s) = NameOf(g, t) => s = t

Unchanged(r) == r.ok \/ r.graph = g

\* A call that adds one element, or one attachment, is all or nothing: when a
\* later step of it fails, what the earlier steps added is gone and nothing
\* else is (facades.go:288-298, 341-360, 455-458, topology.go:250-256).
FailedCallChangesNothing ==
  /\ \A s \in Services(g), i \in Connectable : Unchanged(ConnectTo(Ok(g), s, i))
  /\ \A s \in Services(g) \cup {Stale}, p \in The.ports : Unchanged(AddInterfaceTo(Ok(g), s, p))
  /\ \A i \in Ports(g), c \in The.children : Unchanged(AddChildInterfaceTo(Ok(g), i, c))
  /\ \A o \in The.links, ifs \in InterfaceLists : Unchanged(AddLinkTo(Ok(g), o, ifs))

\* Disconnecting is the inverse of connecting: it finds the ServicePort and the
\* Link that ConnectInterface made, and no others (facades.go:365).
DisconnectUndoesConnect ==
  \A s \in Services(g), i \in Connectable :
    LET r == ConnectTo(Ok(g), s, i)
    IN  r.ok => \E p \in Ports(r.graph) : Attachments(r.graph, s, i) = {p} /\ DeletePorts(r.graph, {p}) = g

Extends(G, H) ==
  /\ Ids(H) \subseteq Ids(G) /\ H.edges \subseteq G.edges
  /\ \A n \in Ids(H) : [G.nodes[n] EXCEPT !.vlan = NoVLAN] = [H.nodes[n] EXCEPT !.vlan = NoVLAN]

\* A call that builds never takes away or alters what was there before it: the
\* deletions on its error paths hit only what the call itself added
\* (topology.go:129, 141, 252, 428; facades.go:113-142).
BuildKeepsExisting == [][~Remove => Extends(g', g)]_vars

=============================================================================
