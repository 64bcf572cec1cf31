--------------------------- MODULE SharedTopology ---------------------------
(***************************************************************************)
(* One topology.Topology under the calls of several goroutines.  The graph *)
(* locks each of its own calls, a builder method is a sequence of them:    *)
(* what it reads may be stale when it writes, and its writes interleave    *)
(* with those of other methods, with their error paths and with removals.  *)
(*                                                                         *)
(* A goroutine is the graph calls it still has to make (todo).  Reading    *)
(* calls replace themselves by what follows from what they read; a call    *)
(* that fails puts the deletions of its error path in the place of all     *)
(* that was left.  Reads of what cannot change under a method (names,      *)
(* types, sites, owners) are made together with the next step.             *)
(***************************************************************************)
EXTENDS TopologyOps, SequencesExt

CONSTANTS
  Goroutines,
  Start,     \* the graph before the calls
  Calls,     \* the calls that goroutines make
  MaxCalls   \* bound on the calls made, all in all

ASSUME GoroutinesAssumption == IsFiniteSet(Goroutines)
ASSUME MaxCallsAssumption == MaxCalls \in Nat

\* The ID that AddNode and AddNetworkService derive from a name.
TopLevelID(class, name) == <<IF class = "NetworkNode" THEN "node" ELSE "service", name>>

TopLevel == {"NetworkNode", "NetworkService"}

\* Derived IDs begin with a word for what they are IDs of, and two kinds of
\* IDs are never the same.
ClassOf ==
  [node |-> "NetworkNode", service |-> "NetworkService", interface |-> "ConnectionPoint", link |-> "Link"]

\* The slice has been built with derived IDs: what has no owner has the ID of
\* its name, a service with the ID of a name has that name, and nothing has one
\* that is derived for something else.
ASSUME StartAssumption ==
  /\ Start = [nodes |-> Start.nodes, edges |-> Start.edges]
  /\ Start.nodes = [n \in Ids(Start) |-> Start.nodes[n]]
  /\ IsFiniteSet(Ids(Start))
  /\ \A n \in Ids(Start) :
       /\ {"class", "name", "type"} \subseteq DOMAIN Start.nodes[n]
       /\ Start.nodes[n].class \in TopLevel /\ Incoming(Start, n, "has") = {}
            => n = TopLevelID(Start.nodes[n].class, Start.nodes[n].name)
       /\ n = TopLevelID("NetworkService", n[2]) => Start.nodes[n].name = n[2]
       /\ n[1] \in DOMAIN ClassOf => Start.nodes[n].class = ClassOf[n[1]]
  /\ \A e \in Start.edges :
       /\ {e.source, e.target} \subseteq Ids(Start)
       /\ e.class = "has" => Start.nodes[e.source].class \in {"NetworkNode", "Component"}

\* The interfaces that a call attaches, the service it attaches them to, and
\* whether it does so by port p.
InterfacesOf(c) ==
  IF c.op = "ConnectInterface" THEN {c.interface}
  ELSE IF c.op = "AddNetworkService" THEN {c.interfaces[k] : k \in DOMAIN c.interfaces} ELSE {}
ServiceOf(c) == IF c.op = "ConnectInterface" THEN c.service ELSE TopLevelID("NetworkService", c.name)

\* The name of a service while it is there; one that is gone has no name.
ServiceName(s) == IF s \in Ids(Start) THEN NameOf(Start, s) ELSE s[2]
Attaches(c, p) ==
  /\ p[1] = "interface" /\ p[3] \in InterfacesOf(c)
  /\ p[2] \in {ServiceName(ServiceOf(c)), NoName}

\* The IDs that AddChildInterface derives.
IsChildID(n) == n[1] = "interface" /\ \E c \in Calls : c.op = "AddChildInterface" /\ n[3] = c.name

\* Ports carry labels; the sub-interfaces of a port differ in their VLANs, no
\* service connects to one, and their IDs are no others'; ports that attach
\* something have no local name.
ASSUME PortsAssumption ==
  /\ \A p \in Ports(Start) :
       /\ "labels" \in DOMAIN Start.nodes[p]
       /\ \A c, d \in ChildInterfaces(Start, p) :
            Start.nodes[c].labels["VLAN"] = Start.nodes[d].labels["VLAN"] => c = d
       /\ IsChildID(p) => TypeOf(Start, p) = "SubInterface"
       /\ (\E c \in Calls : Attaches(c, p)) => Start.nodes[p].labels["LocalName"] = ""
  /\ \A s \in Services(Start) : \A p \in Outgoing(Start, s, "connects") : ~IsChildID(p)

\* Labels are set on interfaces, which also get the sub-interfaces; interfaces
\* are given in a list; the name of a sub-interface is not an ID.
ASSUME CallsAssumption ==
  \A c \in Calls :
    /\ c.op \in {"AddNode", "AddNetworkService", "ConnectInterface", "DisconnectInterface",
                 "RemoveNetworkService", "SetLabels", "AddChildInterface"}
    /\ c.op \in {"SetLabels", "AddChildInterface"} =>
         /\ c.interface[1] \notin {"node", "service", "link"}
         /\ c.interface \in Ids(Start) => c.interface \in Ports(Start)
    /\ c.op = "AddNetworkService" => \E n \in 0..Len(c.interfaces) : DOMAIN c.interfaces = 1..n
    /\ c.op = "AddChildInterface" => \A d \in Calls : c.name \notin InterfacesOf(d)

VARIABLES
  g,         \* the slice graph, whose ports carry labels
  running,   \* goroutine -> its call and the graph calls left
  calls,     \* how many calls have been made
  overlaps,  \* pairs of calls that were running at the same time
  asked      \* port and label -> what the last SetLabels that succeeded set

vars == <<g, running, calls, overlaps, asked>>

LabelNames == {"VLAN", "MAC", "LocalName"}
NoLabels   == [l \in LabelNames |-> ""]

Port(name, type, labels) ==
  [class |-> "ConnectionPoint", name |-> name, type |-> type, labels |-> labels]
Other(class, name, type) == [class |-> class, name |-> name, type |-> type]

LabelsOf(G, i) == G.nodes[i].labels

-----------------------------------------------------------------------------
(* The graph calls of a method; undo is what is deleted when one fails.    *)

AddNodeCall(id, node, undo)          == [do |-> "AddNode", id |-> id, node |-> node, undo |-> undo]
AddEdgeCall(source, target, undo)    == [do |-> "AddEdge", source |-> source, target |-> target, undo |-> undo]
DeleteNodeCall(id)                   == [do |-> "DeleteNode", id |-> id]
DeleteAll(ids)                       == [k \in DOMAIN ids |-> DeleteNodeCall(ids[k])]

\* Faulty variants (see README, "Mutants").
NodeIDByCount(G, c) == <<"node", c.name, Cardinality(Ids(G))>>
AttachmentIDsByCount(G, s, i) ==
  [port |-> <<"interface", <<ToString(Cardinality(Ids(G)))>>, i>>,
   link |-> <<"link", <<ToString(Cardinality(Ids(G)))>>, i, "link">>]
MergeIntoNothing(base, overlay) == overlay
VLANIsFreeByLocalName(G, i, vlan) == \A sub \in ChildInterfaces(G, i) : LabelsOf(G, sub)["LocalName"] # vlan

\* mergeLabels: what the overlay sets replaces what is there.
MergeLabels(base, overlay) == [l \in LabelNames |-> IF overlay[l] # "" THEN overlay[l] ELSE base[l]]

AttachmentIDs(G, s, i) == [port |-> ServicePortID(G, s, i), link |-> LinkID(G, s, i)]

\* ConnectInterface, once it has read the names the IDs are derived from.
ConnectCalls(G, s, i, undo) ==
  LET sp   == AttachmentIDs(G, s, i).port
      link == AttachmentIDs(G, s, i).link
  IN  <<AddNodeCall(sp, Port(NameOf(G, i), "ServicePort", NoLabels), undo),
        AddNodeCall(link, Other("Link", NameOf(G, i), "Patch"), <<sp>> \o undo),
        AddEdgeCall(s, sp, <<sp, link>> \o undo),
        AddEdgeCall(i, link, <<sp, link>> \o undo),
        AddEdgeCall(sp, link, <<sp, link>> \o undo)>>

NodeID(G, c) == <<"node", c.name>>

VLANIsFree(G, i, vlan) == \A sub \in ChildInterfaces(G, i) : LabelsOf(G, sub)["VLAN"] # vlan

\* What a method does first.
FirstCalls(c) ==
  CASE c.op = "AddNode" -> <<[do |-> "CheckName", call |-> c]>>
    [] c.op = "AddNetworkService" -> <<[do |-> "CheckName", call |-> c]>>
    [] c.op = "ConnectInterface" -> <<[do |-> "Connect", service |-> c.service, interface |-> c.interface, undo |-> << >>]>>
    [] c.op = "DisconnectInterface" -> <<[do |-> "FindPeers", service |-> c.service, interface |-> c.interface]>>
    [] c.op = "RemoveNetworkService" -> <<[do |-> "FindService", name |-> c.name]>>
    [] c.op = "SetLabels" -> <<[do |-> "ReadLabels", interface |-> c.interface, labels |-> c.labels]>>
    [] c.op = "AddChildInterface" -> <<[do |-> "CheckVLAN", call |-> c]>>

\* The graph calls that follow from a read of G, each with a choice where the
\* order of several elements is open; no choice is an error.
Follows(G, r) ==
  CASE r.do = "CheckName" ->
         IF TopLevelNameExists(G, r.call.name) THEN {}
         ELSE IF r.call.op = "AddNode"
         THEN {<<AddNodeCall(NodeID(G, r.call), Other("NetworkNode", r.call.name, "VM"), << >>)>>}
         ELSE LET id == <<"service", r.call.name>>
              IN  {<<AddNodeCall(id, Other("NetworkService", r.call.name, "L2Multisite"), << >>)>> \o
                   [k \in DOMAIN r.call.interfaces |->
                      [do |-> "Connect", service |-> id, interface |-> r.call.interfaces[k], undo |-> <<id>>]]}
    [] r.do = "Connect" -> {ConnectCalls(G, r.service, r.interface, r.undo)}
    [] r.do = "FindPeers" ->
         {[k \in DOMAIN links |-> [do |-> "ReadPeers", service |-> r.service, interface |-> r.interface, link |-> links[k]]] :
            links \in SetToSeqs(Outgoing(G, r.interface, "connects") \cap Links(G)) \ {<< >>}}
    [] r.do = "ReadPeers" ->
         {[k \in DOMAIN peers |-> [do |-> "CheckParent", service |-> r.service, port |-> peers[k]]] :
            peers \in SetToSeqs({p \in Incoming(G, r.link, "connects") \cap Ports(G) :
                                   p # r.interface /\ TypeOf(G, p) = "ServicePort"})}
    [] r.do = "CheckParent" ->
         IF r.service \in ParentServices(G, r.port)
         THEN {<<[do |-> "ListLinks", port |-> r.port]>>} ELSE {<< >>}
    [] r.do = "ListLinks" ->
         {DeleteAll(SetToSeq(Outgoing(G, r.port, "connects") \cap Links(G))) \o <<DeleteNodeCall(r.port)>>}
    [] r.do = "FindService" ->
         {<<[do |-> "ListPorts", service |-> s]>> : s \in Named(G, "NetworkService", r.name)}
    [] r.do = "ListPorts" ->
         {[k \in DOMAIN ports |-> [do |-> "ListLinks", port |-> ports[k]]] \o
            <<DeleteNodeCall(r.service)>> : ports \in SetToSeqs(Interfaces(G, r.service))}
    [] r.do = "ReadLabels" ->
         IF r.interface \notin Ids(G) THEN {}
         ELSE {<<[do |-> "UpdateNode", id |-> r.interface,
                  node |-> [G.nodes[r.interface] EXCEPT !.labels = MergeLabels(@, r.labels)]]>>}
    [] r.do = "CheckVLAN" ->
         IF TypeOf(G, r.call.interface) = "DedicatedPort" /\ VLANIsFree(G, r.call.interface, r.call.vlan)
         THEN {<<[do |-> "ReadParent", call |-> r.call]>>} ELSE {}
    [] r.do = "ReadParent" ->
         LET i  == r.call.interface
             id == <<"interface", NameOf(G, i), r.call.name>>
         IN  IF i \notin Ids(G) THEN {}
             ELSE {<<AddNodeCall(id, Port(r.call.name, "SubInterface",
                       [NoLabels EXCEPT !["VLAN"] = r.call.vlan, !["LocalName"] = LabelsOf(G, i)["LocalName"]]), << >>),
                     AddEdgeCall(i, id, <<id>>)>>}

Reads == {"CheckName", "Connect", "FindPeers", "ReadPeers", "CheckParent", "ListLinks", "FindService", "ListPorts",
          "ReadLabels", "CheckVLAN", "ReadParent"}

-----------------------------------------------------------------------------
(* Steps of a goroutine.                                                   *)

Idle(t)  == running[t].call.op = "none"
NoCall   == [call |-> [op |-> "none"], todo |-> << >>]
First(t) == Head(running[t].todo)

\* The goroutine goes on with todo, or with the deletions of its error path.
GoesOn(t, todo) == running' = [running EXCEPT ![t].todo = todo]
Fails(t, undo)  == running' = [running EXCEPT ![t].todo = DeleteAll(undo)]

Call(t, c) ==
  /\ Idle(t) /\ calls < MaxCalls
  /\ c.op \in {"ConnectInterface", "DisconnectInterface"} => c.service \in Services(g)
  /\ calls' = calls + 1
  /\ running' = [running EXCEPT ![t] = [call |-> c, todo |-> FirstCalls(c)]]
  /\ overlaps' = overlaps \cup {{c, running[u].call} : u \in {u \in Goroutines : ~Idle(u)}}
  /\ UNCHANGED <<g, asked>>

\* A call that reads, and decides.  DisconnectInterface reads the peers of all
\* links before it checks one (ReadPeers), and ends with the first ServicePort
\* that is the service's (CheckParent).
Read(t) ==
  /\ running[t].todo # << >> /\ First(t).do \in Reads
  /\ LET rest == Tail(running[t].todo)
         next == Follows(g, First(t))
     IN  \/ next = {} /\ Fails(t, << >>)
         \/ \E found \in next : GoesOn(t, CASE First(t).do = "ReadPeers" -> rest \o found
                                          [] First(t).do = "CheckParent" /\ found # << >> -> found
                                          [] OTHER -> found \o rest)
  /\ UNCHANGED <<g, calls, overlaps, asked>>

\* Graph.AddNode and Graph.AddEdge
Add(t) ==
  /\ running[t].todo # << >> /\ First(t).do \in {"AddNode", "AddEdge"}
  /\ LET call == First(t)
         r    == IF call.do = "AddNode" THEN NewNode(Ok(g), call.id, call.node)
                 ELSE NewEdge(Ok(g), "connects", call.source, call.target)
     IN  /\ g' = r.graph
         /\ IF r.ok THEN GoesOn(t, Tail(running[t].todo)) ELSE Fails(t, call.undo)
         /\ asked' = IF r.ok /\ call.do = "AddNode" /\ call.id \in DOMAIN asked
                     THEN [asked EXCEPT ![call.id] = call.node.labels] ELSE asked
  /\ UNCHANGED <<calls, overlaps>>

DeleteNode(t) ==
  /\ running[t].todo # << >> /\ First(t).do = "DeleteNode"
  /\ g' = Delete(g, {First(t).id})
  /\ GoesOn(t, Tail(running[t].todo))
  /\ UNCHANGED <<calls, overlaps, asked>>

UpdateNode(t) ==
  /\ running[t].todo # << >> /\ First(t).do = "UpdateNode"
  /\ IF First(t).id \in Ids(g)
     THEN /\ g' = [g EXCEPT !.nodes[First(t).id] = First(t).node]
          /\ asked' = [asked EXCEPT ![First(t).id] =
                       [l \in LabelNames |-> IF running[t].call.labels[l] = "" THEN @[l] ELSE running[t].call.labels[l]]]
          /\ GoesOn(t, Tail(running[t].todo))
     ELSE Fails(t, << >>) /\ UNCHANGED <<g, asked>>
  /\ UNCHANGED <<calls, overlaps>>

Return(t) ==
  /\ ~Idle(t) /\ running[t].todo = << >>
  /\ running' = [running EXCEPT ![t] = NoCall]
  /\ UNCHANGED <<g, calls, overlaps, asked>>

Init ==
  /\ g = Start
  /\ running = [t \in Goroutines |-> NoCall]
  /\ calls = 0 /\ overlaps = {}
  /\ asked = [i \in Ports(Start) |-> LabelsOf(Start, i)]

Next ==
  \E t \in Goroutines :
    (\E c \in Calls : Call(t, c)) \/ Read(t) \/ Add(t) \/ DeleteNode(t) \/ UpdateNode(t) \/ Return(t)

Spec == Init /\ [][Next]_vars

-----------------------------------------------------------------------------
(* Properties.                                                             *)

\* The check that a name is free and the AddNode that takes it are separate
\* (topology.go:437, 98): two goroutines may both find the name free.  Of one
\* class they cannot both take it, because the ID follows from the name.
NamesStayUnique ==
  \A class \in {"NetworkNode", "NetworkService"} : \A n, m \in OfClass(g, class) :
    Incoming(g, n, "has") = {} /\ Incoming(g, m, "has") = {} /\ NameOf(g, n) = NameOf(g, m) => n = m

Quiet == \A t \in Goroutines : Idle(t)

\* Two calls that must not run at the same time: a service is removed, or an
\* interface disconnected from it, while it is being attached, or a service is
\* attached by others while it is being added.
Tears(c, d) ==
  \/ c.op \in {"RemoveNetworkService", "DisconnectInterface"} /\ d.op \in {"AddNetworkService", "ConnectInterface"}
  \/ c.op = "AddNetworkService" /\ d.op = "ConnectInterface"

Overlapped(c, d) == {c, d} \in overlaps

\* Attachments are all or nothing also among goroutines: once all have returned
\* every ServicePort has its service, its link and its one peer, every link two
\* ends, and no interface is on a service twice, unless calls overlapped of which one tears what the other builds.
\* Any others may overlap: connecting twice, disconnecting and removing twice
\* (facades.go:341-360, 365-374, topology.go:360).
AttachmentsAreWhole ==
  Quiet /\ (\A c, d \in Calls : Tears(c, d) => ~Overlapped(c, d)) =>
    /\ \A p \in Ports(g) : TypeOf(g, p) = "ServicePort" =>
         /\ Cardinality(ParentServices(g, p)) = 1
         /\ Cardinality(Outgoing(g, p, "connects") \cap Links(g)) = 1
         /\ Cardinality(GetPeers(g, p)) = 1
    /\ \A l \in Links(g) : Cardinality(Incoming(g, l, "connects")) = 2
    /\ \A s \in Services(g), i \in Ports(g) : Cardinality(Attachments(g, s, i)) <= 1

\* Two calls that must not run at the same time: labels are set on a port on
\* which the other sets labels, or by which the other attaches an interface.
Forgets(c, d) ==
  /\ c.op = "SetLabels"
  /\ \/ d.op = "SetLabels" /\ c.interface = d.interface
     \/ Attaches(d, c.interface)

SetTogether(i) == \E c, d \in Calls : Overlapped(c, d) /\ Forgets(c, d) /\ c.interface = i

\* SetLabels merges into what it has read (facades.go:408-418): a port has the
\* labels that calls have set, and no others, unless two calls on that very port
\* have overlapped, both setting labels or one adding the port; removing it, or
\* whatever happens to other ports, loses nothing.  The local name, which a port
\* is generated with, stays whatever overlaps, if callers do not set it.
LabelsLostOnlyByOverlap ==
  \A i \in Ids(g) \cap DOMAIN asked :
    /\ LabelsOf(g, i) = asked[i] \/ SetTogether(i)
    /\ (\A c \in Calls : c.op = "SetLabels" => c.labels["LocalName"] = "")
         => LabelsOf(g, i)["LocalName"] = asked[i]["LocalName"]

SameParent(c, d) == c.op = "AddChildInterface" /\ d.op = "AddChildInterface" /\ c.interface = d.interface

AddedTogether(i) == \E c, d \in Calls : Overlapped(c, d) /\ SameParent(c, d) /\ c.interface = i

\* SetLabels does not look at the VLANs of other sub-interfaces (facades.go:404).
SetsLabelsOfChild(c) ==
  c.op = "SetLabels" /\ (IsChildID(c.interface) \/ TypeOf(Start, c.interface) = "SubInterface")

\* Two sub-interfaces of a port have one VLAN only if they were added at the
\* same time (facades.go:433-458), or if labels of sub-interfaces are set.
VLANsClashOnlyByOverlap ==
  \A i \in Ports(g) :
    \/ \A c, d \in ChildInterfaces(g, i) : LabelsOf(g, c)["VLAN"] = LabelsOf(g, d)["VLAN"] => c = d
    \/ AddedTogether(i)
    \/ \E c \in Calls : SetsLabelsOfChild(c)

=============================================================================
