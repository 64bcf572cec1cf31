---------------------------- MODULE TopologyOps ----------------------------
(***************************************************************************)
(* pkg/topology: what every builder method does to the slice graph.  Each  *)
(* method is an operator from a result (graph, ok so far) and its options  *)
(* to a result; the order of the Graph calls, the early returns and the    *)
(* deletions after an error are those of the code.                         *)
(*                                                                         *)
(* IDs are tuples.  A derived ID (ids.go: a name-based UUID of a namespace *)
(* and name parts) is the tuple of what it is derived from, so two derived *)
(* IDs are equal exactly when they are derived from the same parts; random *)
(* UUIDs are <<"random", k>>; IDs the caller supplies are <<"given", x>>.  *)
(* Names are tuples of words; joining with "-" is concatenation.           *)
(*                                                                         *)
(* Where the code takes the first match in insertion order, the operators  *)
(* return the set of matches and the callers pick any of them.             *)
(***************************************************************************)
EXTENDS SliceGraph, Integers, Sequences, FiniteSets, Functions

NoID   == << >>
NoName == << >>
NoSite == ""
NoVLAN == ""

-----------------------------------------------------------------------------
(* Elements.                                                               *)

Element(class, name, type) ==
  [class |-> class, name |-> name, type |-> type, site |-> NoSite, vlan |-> NoVLAN]

\* facadeProps: a handle whose node is gone reads as empty properties.
NameOf(G, id) == IF id \in Ids(G) THEN G.nodes[id].name ELSE NoName
TypeOf(G, id) == IF id \in Ids(G) THEN G.nodes[id].type ELSE ""
VLANOf(G, id) == IF id \in Ids(G) THEN G.nodes[id].vlan ELSE NoVLAN

OfClass(G, class) == {n \in Ids(G) : G.nodes[n].class = class}
NetworkNodes(G)   == OfClass(G, "NetworkNode")
Services(G)       == OfClass(G, "NetworkService")
Links(G)          == OfClass(G, "Link")
Ports(G)          == OfClass(G, "ConnectionPoint")

Named(G, class, name) == {n \in OfClass(G, class) : G.nodes[n].name = name}

Children(G, n, class)  == Outgoing(G, n, "has") \cap OfClass(G, class)
Components(G, n)       == Children(G, n, "Component")
\* NetworkService.Interfaces
Interfaces(G, s)       == Outgoing(G, s, "connects") \cap Ports(G)
\* Interface.ChildInterfaces
ChildInterfaces(G, i)  == {c \in Outgoing(G, i, "connects") \cap Ports(G) : TypeOf(G, c) = "SubInterface"}
ParentServices(G, i)   == Incoming(G, i, "connects") \cap Services(G)

\* Node.InterfaceList: the ports of the node's own services and of those of
\* its components; sub-interfaces are not in it.
InterfaceList(G, n) ==
  UNION {Interfaces(G, s) : s \in UNION {Children(G, o, "NetworkService") : o \in {n} \cup Components(G, n)}}

\* Interface.GetPeers without and with a type filter.
GetPeers(G, i) ==
  ((UNION {Incoming(G, l, "connects") : l \in Outgoing(G, i, "connects") \cap Links(G)}) \cap Ports(G)) \ {i}
ServicePortPeers(G, i) == {p \in GetPeers(G, i) : TypeOf(G, p) = "ServicePort"}

\* Topology.SliceNetworkServices: no owner.
SliceNetworkServices(G) == {s \in Services(G) : Incoming(G, s, "has") = {}}

TopLevelNameExists(G, name) ==
  \E n \in Named(G, "NetworkNode", name) \cup Named(G, "NetworkService", name) \cup Named(G, "Link", name) :
    Incoming(G, n, "has") = {}

\* The results of f for the elements of s in turn, from r.
InTurn(f(_, _), r, s) ==
  LET after[k \in 0..Len(s)] == IF k = 0 THEN r ELSE f(after[k - 1], s[k])
  IN  after[Len(s)]

AnyOf(S, default) == IF S = {} THEN default ELSE CHOOSE x \in S : TRUE

\* The name of the NetworkNode above a component interface, empty for every
\* other interface.
ParentNodeName(G, i) ==
  LET components == (UNION {Incoming(G, s, "has") : s \in ParentServices(G, i)}) \cap OfClass(G, "Component")
      owners     == (UNION {Incoming(G, c, "has") : c \in components}) \cap NetworkNodes(G)
  IN  AnyOf({NameOf(G, n) : n \in owners}, NoName)

\* siteOfInterface: a sub-interface is where its parent is; another port is
\* where its service is, or else the node that owns the service.
SiteOfInterface(G, i) ==
  LET parents  == IF TypeOf(G, i) = "SubInterface" THEN Incoming(G, i, "connects") \cap Ports(G) ELSE {}
      port     == AnyOf(parents, i)
      services == ParentServices(G, port)
      owners   == UNION {Incoming(G, s, "has") : s \in services}
      nodes    == (owners \cup UNION {Incoming(G, o, "has") : o \in owners}) \cap NetworkNodes(G)
      sited    == {G.nodes[s].site : s \in services} \ {NoSite}
  IN  IF sited # {} THEN AnyOf(sited, NoSite) ELSE AnyOf({G.nodes[n].site : n \in nodes}, NoSite)

-----------------------------------------------------------------------------
(* IDs.                                                                    *)

ChooseID(provided, derived) == IF provided = NoID THEN derived ELSE provided

\* ensureID: a random UUID, of no element and in no ID derived from it.
RandomID(G) ==
  LET free(k) == \A id \in Ids(G) : id # <<"random", k>> /\ (Len(id) >= 3 => id[3] # <<"random", k>>)
  IN  <<"random", CHOOSE k \in 1..(2 * Cardinality(Ids(G)) + 1) : free(k) /\ \A j \in 1..(k - 1) : ~free(j)>>

ServicePortID(G, s, i) == <<"interface", NameOf(G, s), i>>
LinkID(G, s, i)        == <<"link", NameOf(G, s), i, "link">>

-----------------------------------------------------------------------------
(* Ports and connections.                                                  *)

\* NetworkService.AddInterface; p: name, type, id.
AddInterfaceTo(r, s, p) ==
  LET id   == ChooseID(p.id, <<"interface", NameOf(r.graph, s), p.name>>)
      port == NewNode(r, id, Element("ConnectionPoint", p.name, p.type))
  IN  NewEdgeOr(port, "connects", s, id, {id})

\* Interface.AddChildInterface; c: name, vlan, id.
AddChildInterfaceTo(r, i, c) ==
  LET G     == r.graph
      id    == ChooseID(c.id, <<"interface", NameOf(G, i), c.name>>)
      legal == /\ TypeOf(G, i) = "DedicatedPort"
               /\ c.vlan # NoVLAN
               /\ \A other \in ChildInterfaces(G, i) : VLANOf(G, other) # c.vlan
      child == NewNode(Require(r, legal), id,
                       [Element("ConnectionPoint", c.name, "SubInterface") EXCEPT !.vlan = c.vlan])
  IN  NewEdgeOr(child, "connects", i, id, {id})

\* NetworkService.ConnectInterface: a ServicePort under s and a Link between
\* it and the interface.
ConnectTo(r, s, i) ==
  LET G      == r.graph
      sp     == ServicePortID(G, s, i)
      link   == LinkID(G, s, i)
      prefix == IF ParentNodeName(G, i) # NoName THEN ParentNodeName(G, i) ELSE NameOf(G, s)
      name   == prefix \o NameOf(G, i)
      type   == IF TypeOf(G, i) = "SharedPort" THEN "L2Path" ELSE "Patch"
      r1 == NewNode(r, sp, Element("ConnectionPoint", name, "ServicePort"))
      r2 == NewNodeOr(r1, link, Element("Link", name \o <<"link">>, type), {sp})
      r3 == NewEdgeOr(r2, "connects", s, sp, {sp, link})
      r4 == NewEdgeOr(r3, "connects", i, link, {sp, link})
  IN  NewEdgeOr(r4, "connects", sp, link, {sp, link})

\* Faulty variants (see README, "Mutants").
DeletePortsOnly(G, S) == Delete(G, S)

\* deleteLinksIncidentTo, for each port of S, and the ports.
DeletePorts(G, S) ==
  Delete(G, S \cup ((UNION {Outgoing(G, p, "connects") : p \in S}) \cap Links(G)))

\* The ServicePorts by which DisconnectInterface finds that i is attached to s.
Attachments(G, s, i) == {p \in ServicePortPeers(G, i) : s \in ParentServices(G, p)}

\* Interface.SetLabels, for the VLAN.
SetLabelsOn(r, i, vlan) ==
  IF vlan = NoVLAN THEN r
  ELSE IF i \in Ids(r.graph) THEN [r EXCEPT !.graph.nodes[i].vlan = vlan]
  ELSE [r EXCEPT !.ok = FALSE]

-----------------------------------------------------------------------------
(* Network services.                                                       *)

ServiceTypes == {"P4", "OVS", "VLAN", "MPLS", "L2Path", "L2STS", "L2PTP", "L2Multisite", "L2Bridge",
  "FABNetv4", "FABNetv6", "FABNetv4Ext", "FABNetv6Ext", "L3VPN", "PortMirror"}

\* networkServiceConstraints: zero, or no types, means no limit.
NetworkServiceConstraints ==
  [t \in ServiceTypes |->
    [min        |-> IF t \in {"L2STS", "L2PTP"} THEN 2 ELSE 1,
     max        |-> CASE t \in {"L2Path", "L2PTP"} -> 2 [] t = "PortMirror" -> 1 [] OTHER -> 0,
     maxSites   |-> CASE t \in {"L2Path", "L2STS", "L2PTP"} -> 2 [] t \in {"L2Multisite", "L3VPN"} -> 0 [] OTHER -> 1,
     exactSites |-> IF t \in {"L2STS", "L2PTP"} THEN 2 ELSE 0,
     types      |-> IF t = "L2PTP" THEN {"DedicatedPort", "FacilityPort", "SubInterface"} ELSE {}]]

\* validateNetworkServiceOpts; o: name, type, site, id, mirror, badGateway.
ValidService(G, parent, o, ifs) ==
  LET limit == NetworkServiceConstraints[o.type]
      sites == ({SiteOfInterface(G, i) : i \in Range(ifs)} \cup {o.site}) \ {NoSite}
  IN  /\ parent = NoID => ~TopLevelNameExists(G, o.name)
      /\ o.type = "PortMirror" => o.mirror # NoName /\ o.site # NoSite
      /\ parent = NoID => Len(ifs) >= limit.min
      /\ limit.max > 0 => Len(ifs) <= limit.max
      /\ limit.types # {} => \A i \in Range(ifs) : TypeOf(G, i) \in limit.types
      /\ limit.maxSites > 0 => Cardinality(sites) <= limit.maxSites
      /\ limit.exactSites > 0 /\ ifs # << >> => Cardinality(sites) = limit.exactSites
      /\ ~o.badGateway

\* addNetworkService, top-level (parent = NoID) or owned by a node.
AddServiceTo(r, parent, o, ifs) ==
  LET id      == ChooseID(o.id, <<"service", o.name>>)
      site    == IF o.site = NoSite /\ NetworkServiceConstraints[o.type].maxSites = 1 /\ ifs # << >>
                 THEN SiteOfInterface(r.graph, ifs[1]) ELSE o.site
      service == NewNode(Require(r, ValidService(r.graph, parent, o, ifs)), id,
                         [Element("NetworkService", o.name, o.type) EXCEPT !.site = site])
      owned   == IF parent = NoID THEN service
                 ELSE NewEdgeOr(service, "has", parent, id, {id})
      connect(q, i) == OrDelete(q, ConnectTo(q, id, i), {id})
  IN  InTurn(connect, owned, ifs)

\* Faulty variant: the service ports stay.
RemoveServiceAndLinks(G, s) ==
  Delete(G, {s} \cup ((UNION {Outgoing(G, p, "connects") : p \in Interfaces(G, s)}) \cap Links(G)))

\* RemoveNetworkService, once the service is found.
RemoveService(G, s) == Delete(DeletePorts(G, Interfaces(G, s)), {s})

-----------------------------------------------------------------------------
(* Nodes and components.                                                   *)

\* validateNodeOpts; o: name, type, site, id, image, mgmtIP.
ValidNode(G, o) ==
  /\ ~TopLevelNameExists(G, o.name)
  /\ o.type \in {"VM", "Server", "Container"} => o.site # NoSite
  /\ o.type \in {"Switch", "NAS", "Facility"} => ~o.image
  /\ o.type = "Facility" => ~o.mgmtIP

AddNodeTo(r, o) ==
  NewNode(Require(r, ValidNode(r.graph, o)), ChooseID(o.id, <<"node", o.name>>),
          [Element("NetworkNode", o.name, o.type) EXCEPT !.site = o.site])

\* The catalog: the port labels of each kind of component.
PortLabels(kind) ==
  CASE kind = "SharedNIC" -> <<"p1">>
    [] kind \in {"SmartNIC", "FPGA"} -> <<"p1", "p2">>
    [] OTHER -> << >>

\* Node.AddComponent; o: name, kind, id, nsID, portID (from label to an ID).
AddComponentTo(r, n, o) ==
  LET parent    == NameOf(r.graph, n)
      labels    == PortLabels(o.kind)
      id        == ChooseID(o.id, <<"component", parent, o.name>>)
      svc       == ChooseID(o.nsID, <<"service", parent, o.name, "nsl2">>)
      svcType   == IF o.kind = "FPGA" THEN "P4" ELSE "OVS"
      portType  == IF o.kind = "SharedNIC" THEN "SharedPort" ELSE "DedicatedPort"
      isNew     == \A c \in Components(r.graph, n) : NameOf(r.graph, c) # o.name
      component == NewNode(Require(r, isNew), id, Element("Component", o.name, o.kind))
      owned     == NewEdgeOr(component, "has", n, id, {id})
      service   == NewNodeOr(owned, svc,
                     Element("NetworkService", parent \o o.name \o <<"l2", svcType>>, svcType), {id})
      placed    == NewEdgeOr(service, "has", id, svc, {id})
      addPort(q, label) ==
        LET pid  == ChooseID(o.portID[label], RandomID(q.graph))
            port == NewNode(q, pid, Element("ConnectionPoint", o.name \o <<label>>, portType))
        IN  OrDelete(q, NewEdge(port, "connects", svc, pid), {id})
  IN  IF labels = << >> THEN owned ELSE InTurn(addPort, placed, labels)

\* AddFacility and AddSwitch: a node, its internal service, its ports in turn.
\* o: name, type (of the service), site, id, nsID.
AddNodeWithPorts(r, nodeType, o, ports) ==
  LET id      == ChooseID(o.id, <<"node", o.name>>)
      ns      == o.name \o <<"ns">>
      svc     == ChooseID(o.nsID, <<"service", ns>>)
      node    == AddNodeTo(r, [name |-> o.name, type |-> nodeType, site |-> o.site, id |-> o.id,
                               image |-> FALSE, mgmtIP |-> FALSE])
      addService(q) == OrDelete(q, AddServiceTo(q, id,
                         [name |-> ns, type |-> o.type, site |-> o.site, id |-> o.nsID,
                          mirror |-> NoName, badGateway |-> FALSE], << >>), {id})
      addPort(q, port) == OrDelete(q, AddInterfaceTo(q, svc, port), {id})
  IN  InTurn(addPort, addService(node), ports)

\* o.ports: the caller's ports, or none for the one default port.
AddFacilityTo(r, o) ==
  LET ports == IF o.ports = << >> THEN <<[name |-> o.name \o <<"int">>, id |-> NoID]>> ELSE o.ports
  IN  AddNodeWithPorts(r, "Facility", o,
        [k \in DOMAIN ports |-> [name |-> ports[k].name, type |-> "FacilityPort", id |-> ports[k].id]])

\* o.nPorts: the number of ports, p1, p2, ...
PortName == <<<<"p1">>, <<"p2">>, <<"p3">>, <<"p4">>, <<"p5">>, <<"p6">>, <<"p7">>, <<"p8">>>>

\* Faulty variant: the ID of the service of a switch follows from that of the switch.
AddSwitchServiceByNode(r, o) ==
  LET nPorts == IF o.nPorts = 0 THEN 8 ELSE o.nPorts
  IN  AddNodeWithPorts(r, "Switch", [o EXCEPT !.nsID = <<"service", o.name, <<"ns">>>>],
        [k \in 1..nPorts |-> [name |-> PortName[k], type |-> "DedicatedPort", id |-> NoID]])

AddSwitchTo(r, o) ==
  LET nPorts == IF o.nPorts = 0 THEN 8 ELSE o.nPorts
  IN  AddNodeWithPorts(r, "Switch", o,
        [k \in 1..nPorts |-> [name |-> PortName[k], type |-> "DedicatedPort", id |-> NoID]])

\* deleteDescendants follows "has" edges: components and services, and the
\* services of components.
Descendants(G, n) ==
  LET children == Outgoing(G, n, "has")
  IN  children \cup UNION {Outgoing(G, c, "has") : c \in children}

\* RemoveNode and RemoveComponent, once the element is found.
RemoveSubtree(G, n) == Delete(G, Descendants(G, n) \cup {n})

-----------------------------------------------------------------------------
(* Port mirrors and links.                                                 *)

\* AddPortMirrorService; o: name, site, id; source is a port with the name
\* the caller gave.
AddPortMirrorTo(r, o, to, source) ==
  LET site == IF o.site = NoSite THEN SiteOfInterface(r.graph, to) ELSE o.site
      from == SiteOfInterface(r.graph, source)
  IN  AddServiceTo(Require(r, from = NoSite \/ site = NoSite \/ from = site), NoID,
        [name |-> o.name, type |-> "PortMirror", site |-> site, id |-> o.id,
         mirror |-> NameOf(r.graph, source), badGateway |-> FALSE], <<to>>)

\* AddLink; o: name, type, id.
AddLinkTo(r, o, ifs) ==
  LET id    == ChooseID(o.id, <<"link", o.name>>)
      legal == /\ ~TopLevelNameExists(r.graph, o.name)
               /\ o.type \in {"Patch", "L1Path"} => Len(ifs) = 2
      link == NewNode(Require(r, legal), id, Element("Link", o.name, o.type))
      connect(q, i) == NewEdgeOr(q, "connects", id, i, {id})
  IN  InTurn(connect, link, ifs)

=============================================================================
