------------------------ MODULE SharedTopologyProofs ------------------------
(***************************************************************************)
(* Proofs about SharedTopology, for any number of goroutines, any slice    *)
(* that was built with derived IDs, and any number of calls.               *)
(***************************************************************************)
EXTENDS SharedTopology, SequenceTheorems, FiniteSetTheorems, FunctionTheorems, TLAPS

-----------------------------------------------------------------------------
(* The inductive invariant: the graph.                                     *)

\* What owns something: no call of a goroutine adds or removes one.
OwnersAtStart == {e.source : e \in {x \in Start.edges : x.class = "has"}}

\* An ID is always that of one class.
Kind(n) == IF n[1] \in DOMAIN ClassOf THEN ClassOf[n[1]] ELSE Start.nodes[n].class

\* What is, or becomes, a sub-interface.
IsChild(n) == IsChildID(n) \/ TypeOf(Start, n) = "SubInterface"

\* The node of n has the class of its ID; sub-interfaces are those with the IDs
\* of some, and services have the names that ports are derived from.
IsNode(n, node) ==
  /\ {"class", "type"} \subseteq DOMAIN node
  /\ node.class = Kind(n)
  /\ node.class = "ConnectionPoint" => "labels" \in DOMAIN node
  /\ IsChildID(n) => node.type = "SubInterface"
  /\ node.type = "SubInterface" => IsChild(n)
  /\ node.class = "NetworkService" => node.name = ServiceName(n)

HasNamedID(n, node) == node.class \in TopLevel => n = TopLevelID(node.class, node.name)

\* Nothing loses its owner, what has none has the ID of its name, no service is
\* connected to a sub-interface, and none of the start goes.
GraphInv ==
  /\ g = [nodes |-> g.nodes, edges |-> g.edges]
  /\ g.nodes = [n \in Ids(g) |-> g.nodes[n]]
  /\ IsFiniteSet(Ids(g))
  /\ \A n \in Ids(g) : /\ IsNode(n, g.nodes[n])
                       /\ HasNamedID(n, g.nodes[n]) \/ Incoming(g, n, "has") # {}
                       /\ n \in Ids(Start) \/ n[1] \in DOMAIN ClassOf
  /\ \A e \in g.edges :
       /\ e.source \in Ids(g) /\ e.target \in Ids(g)
       /\ e.class = "has" => e.source \in OwnersAtStart
       /\ e.class = "connects" /\ Kind(e.source) = "NetworkService" => ~IsChildID(e.target)
  /\ OwnersAtStart \subseteq Ids(g)
  /\ \A n \in Ids(Start) : IsChildID(n) => n \in Ids(g)

-----------------------------------------------------------------------------
(* What goroutines still have to do.                                       *)

\* What may be deleted, but for a sub-interface by the call that has added it:
\* no owner.
Deletable(n) == n \notin OwnersAtStart /\ ~IsChildID(n)

Harmless(ids) == \E S : ids \in Seq(S) /\ \A n \in S : Deletable(n)

\* A graph call, or a read, of a call that neither sets labels nor adds a
\* sub-interface.
Safe(c, x) ==
  \/ /\ x.do = "AddNode"
     /\ x.id[1] \in DOMAIN ClassOf /\ IsNode(x.id, x.node) /\ HasNamedID(x.id, x.node) /\ ~IsChildID(x.id)
     /\ x.node.class = "ConnectionPoint" => Attaches(c, x.id) /\ x.node.labels = NoLabels
     /\ Harmless(x.undo)
  \/ /\ x.do = "AddEdge"
     /\ ~IsChildID(x.target) /\ (Kind(x.source) = "NetworkService" \/ Kind(x.target) = "Link")
     /\ Harmless(x.undo)
  \/ x.do = "DeleteNode" /\ Deletable(x.id)
  \/ x.do = "CheckName" /\ x.call = c /\ c.op \in {"AddNode", "AddNetworkService"}
  \/ /\ x.do = "Connect"
     /\ x.interface \in InterfacesOf(c) /\ x.service = ServiceOf(c) /\ Kind(x.service) = "NetworkService"
     /\ Harmless(x.undo)
  \/ x.do \in {"FindPeers", "ReadPeers", "FindService"}
  \/ x.do \in {"CheckParent", "ListLinks"} /\ Deletable(x.port)
  \/ x.do = "ListPorts" /\ Deletable(x.service) /\ Kind(x.service) = "NetworkService"

IsTodo(c, todo) == \E S : todo \in Seq(S) /\ \A x \in S : Safe(c, x)

\* SetLabels: a read and an update, of a node that is like that of the graph.
ReadLabelsOf(c)    == <<[do |-> "ReadLabels", interface |-> c.interface, labels |-> c.labels]>>
UpdateOf(c, node)  == <<[do |-> "UpdateNode", id |-> c.interface, node |-> node]>>

IsLabelsTodo(c, todo) ==
  todo \in {<< >>, ReadLabelsOf(c)} \/ \E node : IsNode(c.interface, node) /\ todo = UpdateOf(c, node)

\* AddChildInterface: two reads, two additions, and an error path.
CheckVLANOf(c)      == <<[do |-> "CheckVLAN", call |-> c]>>
ReadParentOf(c)     == <<[do |-> "ReadParent", call |-> c]>>
AddOf(c, id, node)  == <<AddNodeCall(id, node, << >>), AddEdgeCall(c.interface, id, <<id>>)>>
JoinOf(c, id)       == <<AddEdgeCall(c.interface, id, <<id>>)>>
RemoveOf(id)        == <<DeleteNodeCall(id)>>

IsChildTodo(c, todo) ==
  \/ todo \in {<< >>, CheckVLANOf(c), ReadParentOf(c)}
  \/ \E id : /\ IsChildID(id)
             /\ \/ todo \in {JoinOf(c, id), RemoveOf(id)}
                \/ \E node : /\ todo = AddOf(c, id, node)
                             /\ IsNode(id, node) /\ node.labels["VLAN"] = c.vlan

Fits(c, todo) ==
  IF c.op = "SetLabels" THEN IsLabelsTodo(c, todo)
  ELSE IF c.op = "AddChildInterface" THEN IsChildTodo(c, todo) ELSE IsTodo(c, todo)

TodoInv ==
  /\ running = [t \in Goroutines |-> running[t]]
  /\ \A t \in Goroutines :
       /\ running[t] = [call |-> running[t].call, todo |-> running[t].todo]
       /\ IF Idle(t) THEN running[t].todo = << >> ELSE running[t].call \in Calls
       /\ Fits(running[t].call, running[t].todo)

\* Calls that run at the same time are known to.
OverlapsInv ==
  \A t, u \in Goroutines : t # u /\ ~Idle(t) /\ ~Idle(u) => {running[t].call, running[u].call} \in overlaps

-----------------------------------------------------------------------------
(* Sub-interfaces and labels.                                              *)

\* The sub-interface id is there, and goroutine t alone adds or removes it.
Makes(t, id) ==
  /\ running[t].call.op = "AddChildInterface"
  /\ running[t].todo \in {JoinOf(running[t].call, id), RemoveOf(id)}

MadeInv ==
  \A t \in Goroutines : \A id : Makes(t, id) =>
    /\ IsChildID(id) /\ id \in Ids(g) \ Ids(Start)
    /\ \A u \in Goroutines \ {t} : ~Makes(u, id)

ChildrenDiffer(G, i) ==
  \A c, d \in ChildInterfaces(G, i) : LabelsOf(G, c)["VLAN"] = LabelsOf(G, d)["VLAN"] => c = d

\* The VLAN of the call has been found free, and its sub-interface is still to
\* be added.
Checked(c, todo) ==
  c.op = "AddChildInterface" /\ todo # << >> /\ Head(todo).do \in {"ReadParent", "AddNode", "AddEdge"}

VLANsInv ==
  /\ \A t \in Goroutines : \A id :
       Makes(t, id) /\ running[t].todo = JoinOf(running[t].call, id)
         => LabelsOf(g, id)["VLAN"] = running[t].call.vlan
  /\ \A i \in Ports(g) :
       \/ AddedTogether(i)
       \/ /\ ChildrenDiffer(g, i)
          /\ \A t \in Goroutines :
               LET c == running[t].call
               IN  Checked(c, running[t].todo) /\ c.interface = i => VLANIsFree(g, i, c.vlan)

\* What is written is what was asked for, unless it is known to be too late.
LabelsInv ==
  /\ asked = [i \in Ports(Start) |-> asked[i]]
  /\ \A i \in Ids(g) \cap Ports(Start) : LabelsOf(g, i) = asked[i] \/ SetTogether(i)
  /\ \A t \in Goroutines : \A i \in Ports(Start) : \A node :
       LET c == running[t].call
       IN  c.op = "SetLabels" /\ running[t].todo = UpdateOf(c, node) /\ c.interface = i
             => SetTogether(i) \/ i \notin Ids(g) \/ node.labels = MergeLabels(asked[i], c.labels)

NoLocalNames == \A c \in Calls : c.op = "SetLabels" => c.labels["LocalName"] = ""

LocalNamesInv ==
  \A i \in Ports(Start) :
    LET name == LabelsOf(Start, i)["LocalName"]
    IN  /\ asked[i]["LocalName"] = name
        /\ i \in Ids(g) => LabelsOf(g, i)["LocalName"] = name
        /\ \A t \in Goroutines : \A node :
             /\ running[t].call.op = "SetLabels" /\ running[t].call.interface = i
             /\ running[t].todo = UpdateOf(running[t].call, node)
             => node.labels["LocalName"] = name

IndInv ==
  /\ GraphInv /\ TodoInv /\ OverlapsInv /\ MadeInv /\ LabelsInv
  /\ (\A c \in Calls : ~SetsLabelsOfChild(c)) => VLANsInv
  /\ NoLocalNames => LocalNamesInv

-----------------------------------------------------------------------------
(* IDs.                                                                    *)

\* What the start has is of the class of its ID.
LEMMA KindOfStart == ASSUME NEW n \in Ids(Start) PROVE Start.nodes[n].class = Kind(n)
BY StartAssumption DEF Kind

\* Derived IDs are of the class they are derived for.
LEMMA KindOfDerived ==
  ASSUME NEW n
  PROVE  /\ n[1] = "node" => Kind(n) = "NetworkNode"
         /\ n[1] = "service" => Kind(n) = "NetworkService"
         /\ n[1] = "interface" => Kind(n) = "ConnectionPoint"
         /\ n[1] = "link" => Kind(n) = "Link"
BY DEF Kind, ClassOf

\* Owners are nodes and components.
LEMMA OwnersAreNodes ==
  ASSUME NEW o \in OwnersAtStart
  PROVE  o \in Ids(Start) /\ Kind(o) \in {"NetworkNode", "Component"}
BY StartAssumption, KindOfStart DEF OwnersAtStart

\* A service with the ID of a name has that name, at the start and later.
LEMMA NamedService == ASSUME NEW name PROVE ServiceName(<<"service", name>>) = name
<1> DEFINE id == <<"service", name>>
<1>1. id = TopLevelID("NetworkService", id[2]) /\ id[2] = name
  BY DEF TopLevelID
<1> HIDE DEF id
<1>2. ServiceName(id) = name
  BY <1>1, StartAssumption DEF ServiceName, NameOf
<1>3. QED
  BY <1>2 DEF id

\* Sub-interfaces are ports, and own nothing.
LEMMA ChildrenArePorts ==
  ASSUME NEW n, IsChildID(n)
  PROVE  n[1] = "interface" /\ Kind(n) = "ConnectionPoint" /\ n \notin OwnersAtStart
BY KindOfDerived, OwnersAreNodes DEF IsChildID

\* No sub-interface has the ID of a port that attaches something.
LEMMA AttachmentsAreNoChildren ==
  ASSUME NEW c \in Calls, NEW n, Attaches(c, n)
  PROVE  ~IsChildID(n)
BY CallsAssumption DEF Attaches, IsChildID

\* A call may delete the services and links it has added, and the ports it
\* attaches something by.
LEMMA AddedIsDeletable ==
  ASSUME NEW c \in Calls, NEW n, n[1] \in {"service", "link"} \/ Attaches(c, n)
  PROVE  Deletable(n)
<1>1. n[1] \in {"service", "link", "interface"}
  BY DEF Attaches
<1>2. n \notin OwnersAtStart
  BY <1>1, KindOfDerived, OwnersAreNodes
<1>3. CASE Attaches(c, n)
  BY <1>2, <1>3, AttachmentsAreNoChildren DEF Deletable
<1>4. CASE n[1] \in {"service", "link"}
  BY <1>2, <1>4, ChildrenArePorts DEF Deletable
<1>5. QED
  BY <1>3, <1>4

\* The interfaces that get labels and sub-interfaces are ports, if they are there.
LEMMA InterfacesArePorts ==
  ASSUME GraphInv, NEW c \in Calls, c.op \in {"SetLabels", "AddChildInterface"}, c.interface \in Ids(g)
  PROVE  Kind(c.interface) = "ConnectionPoint"
<1>1. CASE c.interface[1] \in DOMAIN ClassOf
  BY <1>1, CallsAssumption DEF Kind, ClassOf
<1>2. CASE c.interface[1] \notin DOMAIN ClassOf
  <2>1. c.interface \in Ids(Start)
    BY <1>2 DEF GraphInv
  <2>2. QED
    BY <2>1, CallsAssumption, KindOfStart DEF Ports, OfClass
<1>3. QED
  BY <1>1, <1>2

-----------------------------------------------------------------------------
(* Lists of graph calls.                                                   *)

\* Lists of safe calls: of any length, of one or none, joined, and what is left
\* of one.
LEMMA TodoList ==
  ASSUME NEW c, NEW n \in Nat, NEW s, s = [k \in 1..n |-> s[k]], \A k \in 1..n : Safe(c, s[k])
  PROVE  IsTodo(c, s)
<1> DEFINE S == {s[k] : k \in 1..n}
<1>1. s \in [1..n -> S]
  OBVIOUS
<1>2. s \in Seq(S)
  BY <1>1, SeqDef
<1>3. \A x \in S : Safe(c, x)
  OBVIOUS
<1> HIDE DEF S
<1>4. QED
  BY <1>2, <1>3 DEF IsTodo

\* A list of one safe call.
LEMMA TodoOne == ASSUME NEW c, NEW x, Safe(c, x) PROVE IsTodo(c, <<x>>)
<1> DEFINE s == <<x>>
<1>1. s = [k \in 1..1 |-> s[k]] /\ \A k \in 1..1 : s[k] = x
  OBVIOUS
<1> HIDE DEF s
<1>2. \A k \in 1..1 : Safe(c, s[k])
  BY <1>1
<1>3. IsTodo(c, s)
  BY <1>1, <1>2, TodoList
<1>4. QED
  BY <1>3 DEF s

\* A list of none.
LEMMA TodoNone == ASSUME NEW c PROVE IsTodo(c, << >>)
<1> DEFINE S == {}
<1>1. << >> \in Seq(S) /\ \A y \in S : Safe(c, y)
  OBVIOUS
<1> HIDE DEF S
<1>2. QED
  BY <1>1 DEF IsTodo

\* Two lists of safe calls, one after the other.
LEMMA TodoConcat == ASSUME NEW c, NEW s, NEW t, IsTodo(c, s), IsTodo(c, t) PROVE IsTodo(c, s \o t)
<1>1. PICK S : s \in Seq(S) /\ \A x \in S : Safe(c, x)
  BY DEF IsTodo
<1>2. PICK T : t \in Seq(T) /\ \A x \in T : Safe(c, x)
  BY DEF IsTodo
<1>3. s \in Seq(S \cup T) /\ t \in Seq(S \cup T)
  BY <1>1, <1>2, SeqMonotonic
<1>4. s \o t \in Seq(S \cup T)
  BY <1>3, ConcatProperties
<1>5. \A x \in S \cup T : Safe(c, x)
  BY <1>1, <1>2
<1>6. QED
  BY <1>4, <1>5, Zenon DEF IsTodo

\* A list of safe calls, taken from the front.
LEMMA TodoRest == ASSUME NEW c, NEW s, IsTodo(c, s), s # << >> PROVE Safe(c, Head(s)) /\ IsTodo(c, Tail(s))
<1>1. PICK S : s \in Seq(S) /\ \A x \in S : Safe(c, x)
  BY DEF IsTodo
<1>2. Head(s) \in S /\ Tail(s) \in Seq(S)
  BY <1>1, HeadTailProperties
<1>3. QED
  BY <1>1, <1>2, Zenon DEF IsTodo

\* Lists of IDs that may be deleted.
LEMMA HarmlessConcat == ASSUME NEW s, NEW t, Harmless(s), Harmless(t) PROVE Harmless(s \o t)
<1>1. PICK S : s \in Seq(S) /\ \A n \in S : Deletable(n)
  BY DEF Harmless
<1>2. PICK T : t \in Seq(T) /\ \A n \in T : Deletable(n)
  BY DEF Harmless
<1>3. s \in Seq(S \cup T) /\ t \in Seq(S \cup T)
  BY <1>1, <1>2, SeqMonotonic
<1>4. s \o t \in Seq(S \cup T)
  BY <1>3, ConcatProperties
<1>5. \A n \in S \cup T : Deletable(n)
  BY <1>1, <1>2
<1>6. QED
  BY <1>4, <1>5, Zenon DEF Harmless

\* A list may be deleted if each ID in it may.
LEMMA HarmlessSeq ==
  ASSUME NEW S, NEW s \in Seq(S), \A n \in S : Deletable(n)
  PROVE  Harmless(s)
BY Zenon DEF Harmless

\* Nothing to delete does no harm.
LEMMA NoneIsHarmless == Harmless(<< >>)
<1> DEFINE S == {}
<1>1. << >> \in Seq(S) /\ \A n \in S : Deletable(n)
  OBVIOUS
<1> HIDE DEF S
<1>2. QED
  BY <1>1, HarmlessSeq

\* An error path deletes only what it may.
LEMMA DeleteAllIsSafe == ASSUME NEW c, NEW ids, Harmless(ids) PROVE IsTodo(c, DeleteAll(ids))
<1>1. PICK S : ids \in Seq(S) /\ \A n \in S : Deletable(n)
  BY DEF Harmless
<1>2. /\ Len(ids) \in Nat /\ DOMAIN ids = 1..Len(ids)
      /\ \A k \in 1..Len(ids) : ids[k] \in S
  BY <1>1
<1> DEFINE s == DeleteAll(ids)
<1>3. s = [k \in 1..Len(ids) |-> DeleteNodeCall(ids[k])]
  BY <1>2 DEF DeleteAll
<1>4. ASSUME NEW k \in 1..Len(ids) PROVE Safe(c, s[k])
  <2>1. s[k] = [do |-> "DeleteNode", id |-> ids[k]]
    BY <1>3 DEF DeleteNodeCall
  <2>2. Deletable(ids[k])
    BY <1>1, <1>2
  <2>3. QED
    BY <2>1, <2>2 DEF Safe
<1>5. s = [k \in 1..Len(ids) |-> s[k]]
  BY <1>3
<1> HIDE DEF s
<1>6. IsTodo(c, s)
  BY <1>2, <1>4, <1>5, TodoList
<1>7. QED
  BY <1>6 DEF s

\* A finite set can be listed, in some order and in all orders.
LEMMA Listing ==
  ASSUME NEW S, IsFiniteSet(S)
  PROVE  /\ SetToSeq(S) \in Seq(S)
         /\ \A s \in SetToSeqs(S) : s \in Seq(S) /\ Len(s) \in Nat /\ DOMAIN s = 1..Len(s)
<1> DEFINE n == Cardinality(S)
<1>1. n \in Nat
  BY FS_CardinalityType
<1>2. IsFiniteSet(1..n) /\ Cardinality(1..n) = n
  BY <1>1, FS_Interval
<1>3. ExistsBijection(1..n, S)
  BY <1>2, FS_SameCardinalityBij
<1>4. \E f \in [1..n -> S] : IsInjective(f)
  BY <1>3 DEF ExistsBijection, Bijection, Injection
<1>5. SetToSeq(S) \in [1..n -> S]
  BY <1>4 DEF SetToSeq
<1> HIDE DEF n
<1>6. [1..n -> S] \subseteq Seq(S)
  BY <1>1, SeqDef
<1>7. SetToSeqs(S) \subseteq [1..n -> S]
  BY DEF SetToSeqs, n
<1>8. QED
  BY <1>1, <1>5, <1>6, <1>7, LenProperties

-----------------------------------------------------------------------------
(* Reading calls.                                                          *)

\* The class of what is in the graph is that of its ID.
LEMMA KindOfElement ==
  ASSUME GraphInv, NEW n \in Ids(g)
  PROVE  /\ g.nodes[n].class = Kind(n)
         /\ n \in Ports(g) <=> Kind(n) = "ConnectionPoint"
         /\ n \in Services(g) <=> Kind(n) = "NetworkService"
         /\ n \in Links(g) <=> Kind(n) = "Link"
BY DEF GraphInv, IsNode, Ports, Services, Links, OfClass

\* Services, links and the ports that are no sub-interfaces may be removed.
LEMMA FoundIsDeletable ==
  ASSUME GraphInv, NEW n \in Ports(g) \cup Links(g) \cup Services(g),
         n \in Ports(g) => ~IsChildID(n)
  PROVE  Deletable(n)
<1>1. n \in Ids(g)
  BY DEF Ports, Links, Services, OfClass
<1>2. Kind(n) \in {"ConnectionPoint", "Link", "NetworkService"}
  BY <1>1, KindOfElement
<1>3. ~IsChildID(n)
  BY <1>1, KindOfElement, ChildrenArePorts
<1>4. QED
  BY <1>2, <1>3, OwnersAreNodes DEF Deletable

\* Attaching an interface adds derived IDs, and takes back no others.
LEMMA ConnectIsSafe ==
  ASSUME GraphInv, NEW c \in Calls, NEW s, s = ServiceOf(c), NEW i \in InterfacesOf(c), NEW undo,
         Kind(s) = "NetworkService", Harmless(undo)
  PROVE  IsTodo(c, ConnectCalls(g, s, i, undo))
<1> DEFINE sp    == AttachmentIDs(g, s, i).port
           link  == AttachmentIDs(g, s, i).link
           port  == Port(NameOf(g, i), "ServicePort", NoLabels)
           other == Other("Link", NameOf(g, i), "Patch")
           x1    == AddNodeCall(sp, port, undo)
           x2    == AddNodeCall(link, other, <<sp>> \o undo)
           x3    == AddEdgeCall(s, sp, <<sp, link>> \o undo)
           x4    == AddEdgeCall(i, link, <<sp, link>> \o undo)
           x5    == AddEdgeCall(sp, link, <<sp, link>> \o undo)
           list  == ConnectCalls(g, s, i, undo)
<1>0. NameOf(g, s) \in {ServiceName(s), NoName}
  BY DEF NameOf, GraphInv, IsNode
<1>1. /\ sp[1] = "interface" /\ Attaches(c, sp) /\ link[1] = "link"
      /\ sp = <<"interface", NameOf(g, s), i>>
  BY <1>0 DEF AttachmentIDs, ServicePortID, LinkID, Attaches
<1> HIDE DEF sp, link
<1>2. Deletable(sp) /\ Deletable(link)
  BY <1>1, AddedIsDeletable
<1>3. Harmless(<<sp>>) /\ Harmless(<<sp, link>>)
  <2> DEFINE S == {sp, link}
  <2>1. <<sp>> \in Seq(S) /\ <<sp, link>> \in Seq(S) /\ \A n \in S : Deletable(n)
    BY <1>2
  <2> HIDE DEF S
  <2>2. QED
    BY <2>1, HarmlessSeq
<1>4. Harmless(<<sp>> \o undo) /\ Harmless(<<sp, link>> \o undo)
  BY <1>3, HarmlessConcat
<1>5. ~IsChildID(sp) /\ ~IsChildID(link) /\ Kind(sp) = "ConnectionPoint" /\ Kind(link) = "Link"
  BY <1>1, <1>2, KindOfDerived DEF Deletable
<1>6. /\ port.class = "ConnectionPoint" /\ port.type = "ServicePort" /\ port.labels = NoLabels
      /\ {"class", "type", "labels"} \subseteq DOMAIN port
  BY DEF Port
<1>7. other.class = "Link" /\ other.type = "Patch" /\ {"class", "type"} \subseteq DOMAIN other
  BY DEF Other
<1> HIDE DEF port, other
<1>8. IsNode(sp, port) /\ HasNamedID(sp, port)
  BY <1>5, <1>6 DEF IsNode, HasNamedID, TopLevel
<1>9. IsNode(link, other) /\ HasNamedID(link, other)
  BY <1>5, <1>7 DEF IsNode, HasNamedID, TopLevel
<1>10. Safe(c, x1)
  BY <1>1, <1>5, <1>6, <1>8 DEF AddNodeCall, Safe, ClassOf
<1>11. Safe(c, x2)
  BY <1>1, <1>4, <1>5, <1>7, <1>9 DEF AddNodeCall, Safe, ClassOf
<1>12. Safe(c, x3) /\ Safe(c, x4) /\ Safe(c, x5)
  BY <1>4, <1>5 DEF AddEdgeCall, Safe
<1>13. list = <<x1, x2, x3, x4, x5>>
  BY DEF ConnectCalls, sp, link, port, other
<1> HIDE DEF x1, x2, x3, x4, x5, list
<1>14. list = [k \in 1..5 |-> list[k]] /\ \A k \in 1..5 : list[k] \in {x1, x2, x3, x4, x5}
  BY <1>13
<1>15. \A k \in 1..5 : Safe(c, list[k])
  BY <1>10, <1>11, <1>12, <1>14
<1>16. IsTodo(c, list)
  BY <1>14, <1>15, TodoList
<1>17. QED
  BY <1>16 DEF list

\* What follows from a read is safe, whatever the read finds.
LEMMA FollowsIsSafe ==
  ASSUME GraphInv, NEW c \in Calls, NEW x, Safe(c, x), x.do \in Reads, NEW found \in Follows(g, x)
  PROVE  IsTodo(c, found)
<1>0. /\ \A S : S \subseteq Ids(g) => IsFiniteSet(S)
      /\ Ports(g) \subseteq Ids(g) /\ Links(g) \subseteq Ids(g) /\ Services(g) \subseteq Ids(g)
  BY FS_Subset DEF GraphInv, Ports, Links, Services, OfClass
<1>r. x.do \in {"CheckParent", "ListLinks"} => Deletable(x.port)
  BY DEF Safe
<1>1. CASE x.do = "CheckName" /\ x.call.op = "AddNode"
  <2> DEFINE node == Other("NetworkNode", c.name, "VM")
             id   == NodeID(g, c)
             call == AddNodeCall(id, node, << >>)
  <2>1. x.call = c
    BY <1>1 DEF Safe
  <2>2. found = <<call>>
    BY <1>1, <2>1 DEF Follows
  <2>3. /\ node.class = "NetworkNode" /\ node.name = c.name /\ node.type = "VM"
        /\ {"class", "type"} \subseteq DOMAIN node
    BY DEF Other
  <2>4. id[1] = "node" /\ id = TopLevelID("NetworkNode", c.name)
    BY DEF NodeID, TopLevelID
  <2>5. Kind(id) = "NetworkNode" /\ ~IsChildID(id)
    BY <2>4, KindOfDerived, ChildrenArePorts
  <2> HIDE DEF node, id
  <2>6. IsNode(id, node) /\ HasNamedID(id, node)
    BY <2>3, <2>4, <2>5 DEF IsNode, HasNamedID
  <2>7. Safe(c, call)
    BY <2>3, <2>4, <2>5, <2>6, NoneIsHarmless DEF AddNodeCall, Safe, ClassOf
  <2> HIDE DEF call
  <2>8. QED
    BY <2>2, <2>7, TodoOne
<1>2. CASE x.do = "CheckName" /\ x.call.op # "AddNode"
  <2> DEFINE id   == <<"service", c.name>>
             node == Other("NetworkService", c.name, "L2Multisite")
             call == AddNodeCall(id, node, << >>)
             step(k) == [do |-> "Connect", service |-> id, interface |-> c.interfaces[k], undo |-> <<id>>]
             connects == [k \in DOMAIN c.interfaces |-> step(k)]
  <2>1. x.call = c /\ c.op = "AddNetworkService"
    BY <1>2 DEF Safe
  <2>2. found = <<call>> \o connects
    BY <1>2, <2>1 DEF Follows
  <2>3. /\ node.class = "NetworkService" /\ node.name = c.name /\ node.type = "L2Multisite"
        /\ {"class", "type"} \subseteq DOMAIN node
    BY DEF Other
  <2>4. id[1] = "service" /\ id = TopLevelID("NetworkService", c.name) /\ id = ServiceOf(c) /\ ServiceName(id) = c.name
    BY <2>1, NamedService DEF TopLevelID, ServiceOf
  <2>5. Kind(id) = "NetworkService" /\ ~IsChildID(id)
    BY <2>4, KindOfDerived, ChildrenArePorts
  <2> HIDE DEF node, id
  <2>6. Deletable(id)
    BY <2>4, AddedIsDeletable
  <2>7. Harmless(<<id>>)
    <3> DEFINE S == {id}
    <3>1. <<id>> \in Seq(S) /\ \A n \in S : Deletable(n)
      BY <2>6
    <3> HIDE DEF S
    <3>2. QED
      BY <3>1, HarmlessSeq
  <2>8. IsNode(id, node) /\ HasNamedID(id, node)
    BY <2>3, <2>4, <2>5 DEF IsNode, HasNamedID
  <2>9. Safe(c, call)
    BY <2>3, <2>4, <2>5, <2>8, NoneIsHarmless DEF AddNodeCall, Safe, ClassOf
  <2>10. PICK n \in Nat : DOMAIN c.interfaces = 1..n
    BY <2>1, CallsAssumption
  <2>11. \A k \in 1..n : c.interfaces[k] \in InterfacesOf(c)
    BY <2>1, <2>10 DEF InterfacesOf
  <2>12. \A k \in 1..n : Safe(c, step(k))
    BY <2>4, <2>5, <2>7, <2>11 DEF Safe
  <2>13. connects = [k \in 1..n |-> connects[k]] /\ \A k \in 1..n : connects[k] = step(k)
    BY <2>10
  <2> HIDE DEF connects, call, step
  <2>14. \A k \in 1..n : Safe(c, connects[k])
    BY <2>12, <2>13
  <2>15. IsTodo(c, connects)
    BY <2>13, <2>14, TodoList
  <2>16. IsTodo(c, <<call>>)
    BY <2>9, TodoOne
  <2>17. QED
    BY <2>2, <2>15, <2>16, TodoConcat
<1>3. CASE x.do = "Connect"
  <2>1. found = ConnectCalls(g, x.service, x.interface, x.undo)
    BY <1>3 DEF Follows
  <2>2. /\ x.interface \in InterfacesOf(c) /\ x.service = ServiceOf(c) /\ Kind(x.service) = "NetworkService"
        /\ Harmless(x.undo)
    BY <1>3 DEF Safe
  <2>3. QED
    BY <2>1, <2>2, ConnectIsSafe
<1>4. CASE x.do = "FindPeers"
  <2> DEFINE S == Outgoing(g, x.interface, "connects") \cap Links(g)
             step(l) == [do |-> "ReadPeers", service |-> x.service, interface |-> x.interface, link |-> l]
  <2>1. PICK s \in SetToSeqs(S) : found = [k \in DOMAIN s |-> step(s[k])]
    BY <1>4 DEF Follows
  <2>2. IsFiniteSet(S)
    BY <1>0
  <2> HIDE DEF S
  <2>3. Len(s) \in Nat /\ DOMAIN s = 1..Len(s)
    BY <2>2, Listing
  <2>4. \A l : Safe(c, step(l))
    BY <1>4 DEF Safe
  <2>5. found = [k \in 1..Len(s) |-> found[k]] /\ \A k \in 1..Len(s) : found[k] = step(s[k])
    BY <2>1, <2>3
  <2> HIDE DEF step
  <2>6. \A k \in 1..Len(s) : Safe(c, found[k])
    BY <2>4, <2>5
  <2>7. QED
    BY <2>3, <2>5, <2>6, TodoList
<1>5. CASE x.do = "ReadPeers"
  <2> DEFINE S == {p \in Incoming(g, x.link, "connects") \cap Ports(g) :
                     p # x.interface /\ TypeOf(g, p) = "ServicePort"}
             step(p) == [do |-> "CheckParent", service |-> x.service, port |-> p]
  <2>1. PICK s \in SetToSeqs(S) : found = [k \in DOMAIN s |-> step(s[k])]
    BY <1>5 DEF Follows
  <2>2. IsFiniteSet(S) /\ S \subseteq Ports(g) /\ \A p \in S : p \in Ids(g) /\ g.nodes[p].type = "ServicePort"
    BY <1>0 DEF TypeOf
  <2> HIDE DEF S
  <2>3. \A p \in S : ~IsChildID(p)
    BY <2>2 DEF GraphInv, IsNode
  <2>4. \A p \in S : Deletable(p)
    BY <2>2, <2>3, FoundIsDeletable
  <2>5. s \in Seq(S) /\ Len(s) \in Nat /\ DOMAIN s = 1..Len(s)
    BY <2>2, Listing
  <2>6. \A p \in S : Safe(c, step(p))
    BY <1>5, <2>4 DEF Safe
  <2>7. found = [k \in 1..Len(s) |-> found[k]] /\ \A k \in 1..Len(s) : found[k] = step(s[k])
    BY <2>1, <2>5
  <2> HIDE DEF step
  <2>8. \A k \in 1..Len(s) : Safe(c, found[k])
    BY <2>5, <2>6, <2>7
  <2>9. QED
    BY <2>5, <2>7, <2>8, TodoList
<1>6. CASE x.do = "CheckParent"
  <2>1. Safe(c, [do |-> "ListLinks", port |-> x.port])
    BY <1>6, <1>r DEF Safe
  <2>2. found \in {<<[do |-> "ListLinks", port |-> x.port]>>, << >>}
    BY <1>6 DEF Follows
  <2>3. QED
    BY <2>1, <2>2, TodoOne, TodoNone
<1>7. CASE x.do = "ListLinks"
  <2> DEFINE S == Outgoing(g, x.port, "connects") \cap Links(g)
  <2>1. found = DeleteAll(SetToSeq(S)) \o <<DeleteNodeCall(x.port)>>
    BY <1>7 DEF Follows
  <2>2. IsFiniteSet(S) /\ S \subseteq Links(g)
    BY <1>0
  <2> HIDE DEF S
  <2>3. \A l \in S : Deletable(l)
    <3>1. \A l \in S : ~IsChildID(l)
      BY <1>0, <2>2, KindOfElement, ChildrenArePorts
    <3>2. QED
      BY <2>2, <3>1, FoundIsDeletable
  <2>4. Harmless(SetToSeq(S))
    BY <2>2, <2>3, Listing, HarmlessSeq
  <2>5. IsTodo(c, DeleteAll(SetToSeq(S)))
    BY <2>4, DeleteAllIsSafe
  <2>6. Safe(c, DeleteNodeCall(x.port))
    BY <1>7, <1>r DEF DeleteNodeCall, Safe
  <2>7. IsTodo(c, <<DeleteNodeCall(x.port)>>)
    BY <2>6, TodoOne
  <2>8. QED
    BY <2>1, <2>5, <2>7, TodoConcat
<1>8. CASE x.do = "FindService"
  <2>1. PICK s \in Named(g, "NetworkService", x.name) : found = <<[do |-> "ListPorts", service |-> s]>>
    BY <1>8 DEF Follows
  <2>2. s \in Services(g) /\ s \in Ids(g)
    BY <1>0 DEF Named, Services
  <2>3. Kind(s) = "NetworkService" /\ s \notin Ports(g)
    BY <2>2, KindOfElement
  <2>4. Deletable(s)
    BY <2>2, <2>3, FoundIsDeletable
  <2>5. Safe(c, [do |-> "ListPorts", service |-> s])
    BY <1>8, <2>3, <2>4 DEF Safe
  <2>6. QED
    BY <2>1, <2>5, TodoOne
<1>9. CASE x.do = "ListPorts"
  <2> DEFINE S == Interfaces(g, x.service)
             step(p) == [do |-> "ListLinks", port |-> p]
  <2>1. PICK s \in SetToSeqs(S) :
          found = [k \in DOMAIN s |-> step(s[k])] \o <<DeleteNodeCall(x.service)>>
    BY <1>9 DEF Follows
  <2> DEFINE list == [k \in DOMAIN s |-> step(s[k])]
  <2>2. IsFiniteSet(S) /\ S \subseteq Ports(g)
    BY <1>0 DEF Interfaces
  <2>3. Kind(x.service) = "NetworkService" /\ Deletable(x.service)
    BY <1>9 DEF Safe
  <2>4. \A p \in S : ~IsChildID(p)
    <3> SUFFICES ASSUME NEW p \in S PROVE ~IsChildID(p)
      OBVIOUS
    <3>1. PICK e \in g.edges : e.source = x.service /\ e.class = "connects" /\ e.target = p
      BY DEF Interfaces, Outgoing
    <3>2. QED
      BY <2>3, <3>1 DEF GraphInv
  <2> HIDE DEF S
  <2>5. \A p \in S : Deletable(p)
    BY <2>2, <2>4, FoundIsDeletable
  <2>6. s \in Seq(S) /\ Len(s) \in Nat /\ DOMAIN s = 1..Len(s)
    BY <2>2, Listing
  <2>7. \A p \in S : Safe(c, step(p))
    BY <1>9, <2>5 DEF Safe
  <2>8. list = [k \in 1..Len(s) |-> list[k]] /\ \A k \in 1..Len(s) : list[k] = step(s[k])
    BY <2>6
  <2> HIDE DEF step
  <2>9. found = list \o <<DeleteNodeCall(x.service)>>
    BY <2>1
  <2> HIDE DEF list
  <2>10. \A k \in 1..Len(s) : Safe(c, list[k])
    BY <2>6, <2>7, <2>8
  <2>11. IsTodo(c, list)
    BY <2>6, <2>8, <2>10, TodoList
  <2>12. Safe(c, DeleteNodeCall(x.service))
    BY <2>3 DEF DeleteNodeCall, Safe
  <2>13. IsTodo(c, <<DeleteNodeCall(x.service)>>)
    BY <2>12, TodoOne
  <2>14. QED
    BY <2>9, <2>11, <2>13, TodoConcat
<1>10. x.do \notin {"ReadLabels", "CheckVLAN", "ReadParent"}
  BY DEF Safe
<1>11. QED
  BY <1>1, <1>2, <1>3, <1>4, <1>5, <1>6, <1>7, <1>8, <1>9, <1>10 DEF Reads

-----------------------------------------------------------------------------
(* What is left of a call.                                                 *)

\* What is left of SetLabels, by its first step.
LEMMA LabelsForms ==
  ASSUME NEW c, NEW todo, IsLabelsTodo(c, todo), todo # << >>
  PROVE  /\ Head(todo).do \in {"ReadLabels", "UpdateNode"}
         /\ Head(todo).do = "ReadLabels" => todo = ReadLabelsOf(c)
         /\ Head(todo).do = "UpdateNode" => \E node : IsNode(c.interface, node) /\ todo = UpdateOf(c, node)
BY DEF IsLabelsTodo, ReadLabelsOf, UpdateOf

\* The steps of SetLabels.
LEMMA LabelsSteps ==
  ASSUME NEW c, NEW node
  PROVE  /\ Head(ReadLabelsOf(c)) = [do |-> "ReadLabels", interface |-> c.interface, labels |-> c.labels]
         /\ Head(UpdateOf(c, node)) = [do |-> "UpdateNode", id |-> c.interface, node |-> node]
         /\ Tail(ReadLabelsOf(c)) = << >> /\ Tail(UpdateOf(c, node)) = << >>
         /\ ReadLabelsOf(c) # << >> /\ UpdateOf(c, node) # << >> /\ ReadLabelsOf(c) # UpdateOf(c, node)
         /\ \A n : UpdateOf(c, n) = UpdateOf(c, node) => n = node
BY DEF ReadLabelsOf, UpdateOf

\* The steps of AddChildInterface.
LEMMA ChildSteps ==
  ASSUME NEW c, NEW id, NEW node
  PROVE  /\ Head(CheckVLANOf(c)) = [do |-> "CheckVLAN", call |-> c] /\ Tail(CheckVLANOf(c)) = << >>
         /\ Head(ReadParentOf(c)) = [do |-> "ReadParent", call |-> c] /\ Tail(ReadParentOf(c)) = << >>
         /\ Head(AddOf(c, id, node)) = AddNodeCall(id, node, << >>) /\ Tail(AddOf(c, id, node)) = JoinOf(c, id)
         /\ Head(JoinOf(c, id)) = AddEdgeCall(c.interface, id, <<id>>) /\ Tail(JoinOf(c, id)) = << >>
         /\ Head(RemoveOf(id)) = DeleteNodeCall(id) /\ Tail(RemoveOf(id)) = << >>
         /\ CheckVLANOf(c) # << >> /\ ReadParentOf(c) # << >> /\ AddOf(c, id, node) # << >>
         /\ JoinOf(c, id) # << >> /\ RemoveOf(id) # << >>
BY DEF CheckVLANOf, ReadParentOf, AddOf, JoinOf, RemoveOf

\* What is done by each of them.
LEMMA StepNames ==
  ASSUME NEW id, NEW node, NEW undo, NEW source
  PROVE  /\ AddNodeCall(id, node, undo).do = "AddNode" /\ AddNodeCall(id, node, undo).id = id
         /\ AddNodeCall(id, node, undo).node = node /\ AddNodeCall(id, node, undo).undo = undo
         /\ AddEdgeCall(source, id, undo).do = "AddEdge" /\ AddEdgeCall(source, id, undo).source = source
         /\ AddEdgeCall(source, id, undo).target = id /\ AddEdgeCall(source, id, undo).undo = undo
         /\ DeleteNodeCall(id).do = "DeleteNode" /\ DeleteNodeCall(id).id = id
BY DEF AddNodeCall, AddEdgeCall, DeleteNodeCall

\* What is left of AddChildInterface, by its first step.
LEMMA ChildForms ==
  ASSUME NEW c, NEW todo, IsChildTodo(c, todo), todo # << >>
  PROVE  /\ Head(todo).do \in {"CheckVLAN", "ReadParent", "AddNode", "AddEdge", "DeleteNode"}
         /\ Head(todo).do = "CheckVLAN" => todo = CheckVLANOf(c)
         /\ Head(todo).do = "ReadParent" => todo = ReadParentOf(c)
         /\ Head(todo).do = "AddNode" => \E id, node : /\ IsChildID(id) /\ todo = AddOf(c, id, node)
                                                       /\ IsNode(id, node) /\ node.labels["VLAN"] = c.vlan
         /\ Head(todo).do = "AddEdge" => \E id : IsChildID(id) /\ todo = JoinOf(c, id)
         /\ Head(todo).do = "DeleteNode" => \E id : IsChildID(id) /\ todo = RemoveOf(id)
<1>1. CASE todo \in {CheckVLANOf(c), ReadParentOf(c)}
  BY <1>1 DEF CheckVLANOf, ReadParentOf
<1>2. CASE \E id : IsChildID(id) /\ todo \in {JoinOf(c, id), RemoveOf(id)}
  <2>1. PICK id : IsChildID(id) /\ todo \in {JoinOf(c, id), RemoveOf(id)}
    BY <1>2
  <2>2. \/ todo = JoinOf(c, id) /\ Head(todo).do = "AddEdge"
        \/ todo = RemoveOf(id) /\ Head(todo).do = "DeleteNode"
    BY <2>1 DEF JoinOf, RemoveOf, AddEdgeCall, DeleteNodeCall
  <2>3. QED
    BY <2>1, <2>2
<1>3. CASE \E id, node : /\ IsChildID(id) /\ todo = AddOf(c, id, node)
                         /\ IsNode(id, node) /\ node.labels["VLAN"] = c.vlan
  <2>1. PICK id, node : /\ IsChildID(id) /\ todo = AddOf(c, id, node)
                        /\ IsNode(id, node) /\ node.labels["VLAN"] = c.vlan
    BY <1>3
  <2>2. Head(todo).do = "AddNode"
    BY <2>1 DEF AddOf, AddNodeCall
  <2>3. QED
    BY <2>1, <2>2
<1>4. QED
  BY <1>1, <1>2, <1>3 DEF IsChildTodo

\* Nothing is left of either call but for one thing, which tells what it is about.
LEMMA FormsDiffer ==
  ASSUME NEW c, NEW id, NEW other
  PROVE  /\ JoinOf(c, id) = JoinOf(c, other) => id = other
         /\ RemoveOf(id) = RemoveOf(other) => id = other
         /\ JoinOf(c, id) # RemoveOf(other)
BY DEF JoinOf, RemoveOf, AddEdgeCall, DeleteNodeCall

\* What a method begins with fits it: interfaces are connected to services.
LEMMA FirstCallsFit ==
  ASSUME NEW c \in Calls, c.op = "ConnectInterface" => Kind(c.service) = "NetworkService"
  PROVE  Fits(c, FirstCalls(c))
<1>1. CASE c.op = "SetLabels"
  BY <1>1 DEF FirstCalls, Fits, IsLabelsTodo, ReadLabelsOf
<1>2. CASE c.op = "AddChildInterface"
  BY <1>2 DEF FirstCalls, Fits, IsChildTodo, CheckVLANOf
<1>3. ASSUME NEW x, FirstCalls(c) = <<x>>, Safe(c, x), c.op \notin {"SetLabels", "AddChildInterface"}
      PROVE  Fits(c, FirstCalls(c))
  BY <1>3, TodoOne DEF Fits
<1> DEFINE check   == [do |-> "CheckName", call |-> c]
           connect == [do |-> "Connect", service |-> c.service, interface |-> c.interface, undo |-> << >>]
           find    == [do |-> "FindPeers", service |-> c.service, interface |-> c.interface]
           named   == [do |-> "FindService", name |-> c.name]
<1>4. CASE c.op \in {"AddNode", "AddNetworkService"}
  <2>1. FirstCalls(c) = <<check>> /\ Safe(c, check)
    BY <1>4 DEF FirstCalls, Safe
  <2>2. QED
    BY <1>3, <1>4, <2>1
<1>5. CASE c.op = "DisconnectInterface"
  <2>1. FirstCalls(c) = <<find>> /\ Safe(c, find)
    BY <1>5 DEF FirstCalls, Safe
  <2>2. QED
    BY <1>3, <1>5, <2>1
<1>6. CASE c.op = "RemoveNetworkService"
  <2>1. FirstCalls(c) = <<named>> /\ Safe(c, named)
    BY <1>6 DEF FirstCalls, Safe
  <2>2. QED
    BY <1>3, <1>6, <2>1
<1>7. CASE c.op = "ConnectInterface"
  <2>1. c.interface \in InterfacesOf(c) /\ c.service = ServiceOf(c)
    BY <1>7 DEF InterfacesOf, ServiceOf
  <2>2. FirstCalls(c) = <<connect>> /\ Safe(c, connect)
    BY <1>7, <2>1, NoneIsHarmless DEF FirstCalls, Safe
  <2>3. QED
    BY <1>3, <1>7, <2>2
<1>8. QED
  BY <1>1, <1>2, <1>4, <1>5, <1>6, <1>7, CallsAssumption

-----------------------------------------------------------------------------
(* What a step must keep.                                                  *)

\* Goroutine t goes on with todo of call c, and no other goroutine moves.
Turned(t, c, todo) ==
  /\ running' = [u \in Goroutines |-> running'[u]]
  /\ running'[t] = [call |-> c, todo |-> todo]
  /\ \A u \in Goroutines \ {t} : running'[u] = running[u]

LEMMA GoesOnTurns ==
  ASSUME TodoInv, NEW t \in Goroutines, NEW todo, GoesOn(t, todo)
  PROVE  Turned(t, running[t].call, todo)
<1>1. running = [u \in Goroutines |-> running[u]] /\ running' = [running EXCEPT ![t].todo = todo]
  BY DEF TodoInv, GoesOn
<1>2. /\ running' = [u \in Goroutines |-> running'[u]]
      /\ \A u \in Goroutines : u # t => running'[u] = running[u]
      /\ running'[t] = [running[t] EXCEPT !.todo = todo]
  BY <1>1
<1>3. running[t] = [call |-> running[t].call, todo |-> running[t].todo]
  BY DEF TodoInv
<1>4. running'[t] = [call |-> running[t].call, todo |-> todo]
  BY <1>2, <1>3
<1>5. QED
  BY <1>2, <1>4 DEF Turned

\* A goroutine begins or ends a call.
LEMMA BeginsTurns ==
  ASSUME TodoInv, NEW t \in Goroutines, NEW c, NEW todo,
         running' = [running EXCEPT ![t] = [call |-> c, todo |-> todo]]
  PROVE  Turned(t, c, todo)
<1>1. running = [u \in Goroutines |-> running[u]]
  BY DEF TodoInv
<1>2. QED
  BY <1>1 DEF Turned

\* Whoever goes on with what fits its call leaves all with what fits theirs.
LEMMA TodoKept ==
  ASSUME TodoInv, NEW t \in Goroutines, NEW c, NEW todo, Turned(t, c, todo), Fits(c, todo),
         IF c.op = "none" THEN todo = << >> ELSE c \in Calls
  PROVE  TodoInv'
<1>1. ASSUME NEW u \in Goroutines
      PROVE  /\ running'[u] = [call |-> running'[u].call, todo |-> running'[u].todo]
             /\ IF running'[u].call.op = "none" THEN running'[u].todo = << >> ELSE running'[u].call \in Calls
             /\ Fits(running'[u].call, running'[u].todo)
  <2>1. CASE u = t
    <3>1. running'[u].call = c /\ running'[u].todo = todo
      BY <2>1 DEF Turned
    <3>2. QED
      BY <2>1, <3>1 DEF Turned
  <2>2. CASE u # t
    BY <2>2 DEF Turned, TodoInv, Idle
  <2>3. QED
    BY <2>1, <2>2
<1>2. running' = [u \in Goroutines |-> running'[u]]
  BY DEF Turned
<1>3. QED
  BY <1>1, <1>2 DEF TodoInv, Idle

\* Calls are known to overlap from the moment on that the second begins.
LEMMA OverlapsKept ==
  ASSUME OverlapsInv, NEW t \in Goroutines, NEW c, NEW todo, Turned(t, c, todo),
         overlaps \subseteq overlaps',
         \/ c.op = "none"
         \/ c = running[t].call
         \/ \A u \in Goroutines \ {t} : ~Idle(u) => {c, running[u].call} \in overlaps'
  PROVE  OverlapsInv'
<1>1. running'[t].call = c
  BY DEF Turned
<1>2. \A u \in Goroutines \ {t} : ~Idle(u) /\ c.op # "none" => {c, running[u].call} \in overlaps'
  BY DEF OverlapsInv, Idle
<1>3. \A u, v \in Goroutines : {running'[u].call, running'[v].call} = {running'[v].call, running'[u].call}
  OBVIOUS
<1>4. QED
  BY <1>1, <1>2, <1>3 DEF OverlapsInv, Turned, Idle

\* What is known to overlap stays known.
LEMMA TogetherStays ==
  ASSUME overlaps \subseteq overlaps', NEW i
  PROVE  (SetTogether(i) => SetTogether(i)') /\ (AddedTogether(i) => AddedTogether(i)')
BY DEF SetTogether, AddedTogether, Overlapped

\* A sub-interface stays with the goroutine that makes it.
LEMMA MadeKept ==
  ASSUME MadeInv, NEW t \in Goroutines, NEW c, NEW todo, Turned(t, c, todo),
         \A u \in Goroutines \ {t} : \A id : Makes(u, id) => id \in Ids(g'),
         \A id : c.op = "AddChildInterface" /\ todo \in {JoinOf(c, id), RemoveOf(id)} =>
           /\ IsChildID(id) /\ id \in Ids(g') \ Ids(Start)
           /\ \A u \in Goroutines \ {t} : ~Makes(u, id)
  PROVE  MadeInv'
<1>1. running'[t].call = c /\ running'[t].todo = todo
  BY DEF Turned
<1>2. \A u \in Goroutines \ {t} : \A id : Makes(u, id)' <=> Makes(u, id)
  BY DEF Turned, Makes
<1>3. \A id : Makes(t, id)' <=> c.op = "AddChildInterface" /\ todo \in {JoinOf(c, id), RemoveOf(id)}
  BY <1>1 DEF Makes
<1>4. ASSUME NEW u \in Goroutines, NEW id, Makes(u, id)'
      PROVE  /\ IsChildID(id) /\ id \in Ids(g') \ Ids(Start)
             /\ \A v \in Goroutines \ {u} : ~Makes(v, id)'
  <2>1. CASE u = t
    BY <1>2, <1>3, <1>4, <2>1
  <2>2. CASE u # t
    <3>1. Makes(u, id) /\ running'[u] = running[u]
      BY <1>2, <1>4, <2>2 DEF Turned
    <3>2. ~Makes(t, id)'
      BY <1>3, <2>2, <3>1
    <3>3. QED
      BY <1>2, <2>2, <3>1, <3>2 DEF MadeInv
  <2>3. QED
    BY <2>1, <2>2
<1>5. QED
  BY <1>4 DEF MadeInv

\* What is about to be joined has the VLAN that the call gave it.
LEMMA JoinsKept ==
  ASSUME VLANsInv, NEW t \in Goroutines, NEW c, NEW todo, Turned(t, c, todo),
         \A u \in Goroutines \ {t} : \A id : Makes(u, id) => LabelsOf(g', id)["VLAN"] = LabelsOf(g, id)["VLAN"],
         \A id : c.op = "AddChildInterface" /\ todo = JoinOf(c, id) => LabelsOf(g', id)["VLAN"] = c.vlan,
         NEW u \in Goroutines, NEW id, Makes(u, id)', running'[u].todo = JoinOf(running'[u].call, id)
  PROVE  LabelsOf(g', id)["VLAN"] = running'[u].call.vlan
<1>1. CASE u = t
  BY <1>1 DEF Turned, Makes
<1>2. CASE u # t
  BY <1>2 DEF Turned, Makes, VLANsInv
<1>3. QED
  BY <1>1, <1>2

\* The sub-interfaces of a port keep to their VLANs while none is added, and
\* who has found a VLAN free finds it free still.
LEMMA PortsKept ==
  ASSUME VLANsInv, NEW t \in Goroutines, NEW c, NEW todo, Turned(t, c, todo), overlaps \subseteq overlaps',
         NEW i \in Ports(g'), ~AddedTogether(i)',
         \/ ChildInterfaces(g', i) = {}
         \/ /\ i \in Ports(g)
            /\ \A k \in ChildInterfaces(g', i) :
                 k \in ChildInterfaces(g, i) /\ LabelsOf(g', k)["VLAN"] = LabelsOf(g, k)["VLAN"],
         Checked(c, todo) => \/ VLANIsFree(g', c.interface, c.vlan)
                             \/ Checked(running[t].call, running[t].todo) /\ c = running[t].call
  PROVE  /\ ChildrenDiffer(g', i)
         /\ \A u \in Goroutines : Checked(running'[u].call, running'[u].todo) /\ running'[u].call.interface = i
                                    => VLANIsFree(g', i, running'[u].call.vlan)
<1>1. running'[t].call = c /\ running'[t].todo = todo
  BY DEF Turned
<1>2. CASE ChildInterfaces(g', i) = {}
  BY <1>2 DEF ChildrenDiffer, VLANIsFree
<1>3. CASE /\ i \in Ports(g)
           /\ \A k \in ChildInterfaces(g', i) :
                k \in ChildInterfaces(g, i) /\ LabelsOf(g', k)["VLAN"] = LabelsOf(g, k)["VLAN"]
  <2>1. ~AddedTogether(i)
    BY TogetherStays
  <2>2. /\ ChildrenDiffer(g, i)
        /\ \A u \in Goroutines : Checked(running[u].call, running[u].todo) /\ running[u].call.interface = i
                                   => VLANIsFree(g, i, running[u].call.vlan)
    BY <1>3, <2>1 DEF VLANsInv
  <2>3. ChildrenDiffer(g', i)
    BY <1>3, <2>2 DEF ChildrenDiffer
  <2>4. \A vlan : VLANIsFree(g, i, vlan) => VLANIsFree(g', i, vlan)
    BY <1>3 DEF VLANIsFree
  <2>5. ASSUME NEW u \in Goroutines, Checked(running'[u].call, running'[u].todo),
               running'[u].call.interface = i
        PROVE  VLANIsFree(g', i, running'[u].call.vlan)
    <3>1. CASE u = t
      BY <1>1, <2>2, <2>4, <2>5, <3>1
    <3>2. CASE u # t
      BY <2>2, <2>4, <2>5, <3>2 DEF Turned
    <3>3. QED
      BY <3>1, <3>2
  <2>6. QED
    BY <2>3, <2>5
<1>4. QED
  BY <1>2, <1>3

\* Both, for a step that gives no port another sub-interface.
LEMMA VLANsKept ==
  ASSUME VLANsInv, NEW t \in Goroutines, NEW c, NEW todo, Turned(t, c, todo), overlaps \subseteq overlaps',
         \A u \in Goroutines \ {t} : \A id : Makes(u, id) => LabelsOf(g', id)["VLAN"] = LabelsOf(g, id)["VLAN"],
         \A id : c.op = "AddChildInterface" /\ todo = JoinOf(c, id) => LabelsOf(g', id)["VLAN"] = c.vlan,
         \A i \in Ports(g') :
           \/ ChildInterfaces(g', i) = {}
           \/ /\ i \in Ports(g)
              /\ \A k \in ChildInterfaces(g', i) :
                   k \in ChildInterfaces(g, i) /\ LabelsOf(g', k)["VLAN"] = LabelsOf(g, k)["VLAN"],
         Checked(c, todo) => \/ VLANIsFree(g', c.interface, c.vlan)
                             \/ Checked(running[t].call, running[t].todo) /\ c = running[t].call
  PROVE  VLANsInv'
<1>1. \A u \in Goroutines : \A id : Makes(u, id)' /\ running'[u].todo = JoinOf(running'[u].call, id)
                                  => LabelsOf(g', id)["VLAN"] = running'[u].call.vlan
  BY JoinsKept
<1>2. \A i \in Ports(g') : ~AddedTogether(i)' =>
        /\ ChildrenDiffer(g', i)
        /\ \A u \in Goroutines : Checked(running'[u].call, running'[u].todo) /\ running'[u].call.interface = i
                                   => VLANIsFree(g', i, running'[u].call.vlan)
  BY PortsKept
<1>3. QED
  BY <1>1, <1>2 DEF VLANsInv

\* Labels stay what was asked for, and what others are about to write stays right
\* or is known to be too late.
LEMMA LabelsKept ==
  ASSUME LabelsInv, NEW t \in Goroutines, NEW c, NEW todo, Turned(t, c, todo), overlaps \subseteq overlaps',
         asked' = [i \in Ports(Start) |-> asked'[i]],
         \A i \in Ids(g') \cap Ports(Start) :
           \/ i \in Ids(g) /\ LabelsOf(g', i) = LabelsOf(g, i) /\ asked'[i] = asked[i]
           \/ LabelsOf(g', i) = asked'[i]
           \/ SetTogether(i)',
         \A u \in Goroutines \ {t} : \A i \in Ids(g') \cap Ports(Start) :
           running[u].call.op = "SetLabels" /\ running[u].call.interface = i /\ ~SetTogether(i)'
             => i \in Ids(g) /\ asked'[i] = asked[i],
         \A i \in Ids(g') \cap Ports(Start) : \A node :
           c.op = "SetLabels" /\ todo = UpdateOf(c, node) /\ c.interface = i
             => SetTogether(i)' \/ node.labels = MergeLabels(asked'[i], c.labels)
  PROVE  LabelsInv'
<1>1. running'[t].call = c /\ running'[t].todo = todo
  BY DEF Turned
<1>2. \A i : SetTogether(i) => SetTogether(i)'
  BY TogetherStays
<1>3. \A i \in Ids(g') \cap Ports(Start) : LabelsOf(g', i) = asked'[i] \/ SetTogether(i)'
  BY <1>2 DEF LabelsInv
<1>4. ASSUME NEW u \in Goroutines, NEW node, NEW i \in Ports(Start), running'[u].call.op = "SetLabels",
             running'[u].todo = UpdateOf(running'[u].call, node), running'[u].call.interface = i
      PROVE  SetTogether(i)' \/ i \notin Ids(g') \/ node.labels = MergeLabels(asked'[i], running'[u].call.labels)
  <2>1. CASE u = t
    BY <1>1, <1>4, <2>1
  <2>2. CASE u # t
    <3>1. running'[u] = running[u]
      BY <2>2 DEF Turned
    <3>2. SetTogether(i) \/ i \notin Ids(g) \/ node.labels = MergeLabels(asked[i], running[u].call.labels)
      BY <1>4, <3>1 DEF LabelsInv
    <3>3. QED
      BY <1>2, <1>4, <2>2, <3>1, <3>2
  <2>3. QED
    BY <2>1, <2>2
<1>5. QED
  BY <1>3, <1>4 DEF LabelsInv

\* Local names stay.
LEMMA LocalNamesKept ==
  ASSUME LocalNamesInv, NEW t \in Goroutines, NEW c, NEW todo, Turned(t, c, todo),
         \A i \in Ports(Start) :
           LET name == LabelsOf(Start, i)["LocalName"]
           IN  /\ asked'[i]["LocalName"] = name
               /\ i \in Ids(g') => LabelsOf(g', i)["LocalName"] = name
               /\ \A node : c.op = "SetLabels" /\ c.interface = i /\ todo = UpdateOf(c, node)
                              => node.labels["LocalName"] = name
  PROVE  LocalNamesInv'
<1>1. running'[t].call = c /\ running'[t].todo = todo
  BY DEF Turned
<1>2. ASSUME NEW i \in Ports(Start), NEW u \in Goroutines, NEW node, running'[u].call.op = "SetLabels",
             running'[u].call.interface = i, running'[u].todo = UpdateOf(running'[u].call, node)
      PROVE  node.labels["LocalName"] = LabelsOf(Start, i)["LocalName"]
  <2>1. CASE u = t
    BY <1>1, <1>2, <2>1
  <2>2. CASE u # t
    BY <1>2, <2>2 DEF Turned, LocalNamesInv
  <2>3. QED
    BY <2>1, <2>2
<1>3. QED
  BY <1>2 DEF LocalNamesInv

-----------------------------------------------------------------------------
(* Steps that leave the graph.                                             *)

\* What a goroutine runs.
LEMMA Running ==
  ASSUME TodoInv, NEW t \in Goroutines, running[t].todo # << >>
  PROVE  /\ running[t].call \in Calls /\ running[t].call.op # "none"
         /\ Fits(running[t].call, running[t].todo)
BY CallsAssumption DEF TodoInv, Idle

\* A goroutine that reads, begins or ends keeps the invariant if what it goes on
\* with follows from the graph as it is.
LEMMA QuietStep ==
  ASSUME IndInv, NEW t \in Goroutines, NEW c, NEW todo, Turned(t, c, todo),
         UNCHANGED <<g, asked>>, overlaps \subseteq overlaps',
         IF c.op = "none" THEN todo = << >> ELSE c \in Calls,
         \/ c.op = "none"
         \/ c = running[t].call
         \/ \A u \in Goroutines \ {t} : ~Idle(u) => {c, running[u].call} \in overlaps',
         Fits(c, todo),
         \A id : c.op = "AddChildInterface" /\ todo \in {JoinOf(c, id), RemoveOf(id)} =>
           Makes(t, id) /\ todo # JoinOf(c, id),
         Checked(c, todo) => \/ VLANIsFree(g, c.interface, c.vlan)
                             \/ Checked(running[t].call, running[t].todo) /\ c = running[t].call,
         \A i \in Ports(Start) : \A node : c.op = "SetLabels" /\ todo = UpdateOf(c, node) /\ c.interface = i =>
           i \in Ids(g) /\ node.labels = MergeLabels(LabelsOf(g, i), c.labels)
  PROVE  IndInv'
<1>1. GraphInv /\ TodoInv /\ OverlapsInv /\ MadeInv /\ LabelsInv
  BY DEF IndInv
<1>2. g' = g /\ asked' = asked
  OBVIOUS
<1>3. GraphInv'
  BY <1>1, <1>2 DEF GraphInv, Ids, Incoming
<1>4. TodoInv' /\ OverlapsInv'
  BY <1>1, TodoKept, OverlapsKept
<1>5. MadeInv'
  <2>1. \A u \in Goroutines \ {t} : \A id : Makes(u, id) => id \in Ids(g')
    BY <1>1, <1>2 DEF MadeInv
  <2>2. \A id : c.op = "AddChildInterface" /\ todo \in {JoinOf(c, id), RemoveOf(id)} =>
          /\ IsChildID(id) /\ id \in Ids(g') \ Ids(Start)
          /\ \A u \in Goroutines \ {t} : ~Makes(u, id)
    BY <1>1, <1>2 DEF MadeInv
  <2>3. QED
    BY <1>1, <2>1, <2>2, MadeKept
<1>6. LabelsInv'
  <2>1. asked' = [i \in Ports(Start) |-> asked'[i]]
    BY <1>1, <1>2 DEF LabelsInv
  <2>2. \A i \in Ids(g') \cap Ports(Start) : \A node :
          c.op = "SetLabels" /\ todo = UpdateOf(c, node) /\ c.interface = i
            => SetTogether(i)' \/ node.labels = MergeLabels(asked'[i], c.labels)
    BY <1>1, <1>2, TogetherStays DEF LabelsInv
  <2>3. /\ \A i \in Ids(g') \cap Ports(Start) :
             \/ i \in Ids(g) /\ LabelsOf(g', i) = LabelsOf(g, i) /\ asked'[i] = asked[i]
             \/ LabelsOf(g', i) = asked'[i]
             \/ SetTogether(i)'
        /\ \A u \in Goroutines \ {t} : \A i \in Ids(g') \cap Ports(Start) :
             running[u].call.op = "SetLabels" /\ running[u].call.interface = i /\ ~SetTogether(i)'
               => i \in Ids(g) /\ asked'[i] = asked[i]
    BY <1>2
  <2>4. QED
    BY <1>1, <2>1, <2>2, <2>3, LabelsKept
<1>7. ASSUME \A d \in Calls : ~SetsLabelsOfChild(d) PROVE VLANsInv'
  <2>1. VLANsInv
    BY <1>7 DEF IndInv
  <2>2. \A i \in Ports(g') :
          /\ i \in Ports(g)
          /\ \A k \in ChildInterfaces(g', i) :
               k \in ChildInterfaces(g, i) /\ LabelsOf(g', k)["VLAN"] = LabelsOf(g, k)["VLAN"]
    BY <1>2
  <2>3. \A u \in Goroutines \ {t} : \A id : Makes(u, id) => LabelsOf(g', id)["VLAN"] = LabelsOf(g, id)["VLAN"]
    BY <1>2
  <2>4. \A id : c.op = "AddChildInterface" /\ todo = JoinOf(c, id) => LabelsOf(g', id)["VLAN"] = c.vlan
    OBVIOUS
  <2>5. Checked(c, todo) => \/ VLANIsFree(g', c.interface, c.vlan)
                            \/ Checked(running[t].call, running[t].todo) /\ c = running[t].call
    BY <1>2
  <2>6. QED
    BY <2>1, <2>2, <2>3, <2>4, <2>5, VLANsKept
<1>8. ASSUME NoLocalNames PROVE LocalNamesInv'
  <2>1. LocalNamesInv
    BY <1>8 DEF IndInv
  <2>2. c.op = "SetLabels" => c.labels["LocalName"] = ""
    BY <1>8 DEF NoLocalNames
  <2>3. ASSUME NEW i \in Ports(Start), NEW node, c.op = "SetLabels", c.interface = i, todo = UpdateOf(c, node)
        PROVE  node.labels["LocalName"] = LabelsOf(Start, i)["LocalName"]
    <3>1. i \in Ids(g) /\ node.labels = MergeLabels(LabelsOf(g, i), c.labels)
      BY <2>3
    <3>2. node.labels["LocalName"] = LabelsOf(g, i)["LocalName"]
      BY <2>2, <2>3, <3>1 DEF MergeLabels, LabelNames
    <3>3. QED
      BY <2>1, <3>1, <3>2 DEF LocalNamesInv
  <2>4. \A i \in Ports(Start) :
          /\ asked'[i]["LocalName"] = LabelsOf(Start, i)["LocalName"]
          /\ i \in Ids(g') => LabelsOf(g', i)["LocalName"] = LabelsOf(Start, i)["LocalName"]
    BY <1>2, <2>1 DEF LocalNamesInv
  <2>5. QED
    BY <2>1, <2>3, <2>4, LocalNamesKept
<1>9. QED
  BY <1>3, <1>4, <1>5, <1>6, <1>7, <1>8 DEF IndInv

-----------------------------------------------------------------------------
(* Steps that change the graph: what each call of the graph does.          *)

\* An ID that is free gets a node, and nothing else changes.
LEMMA NodeAdded ==
  ASSUME GraphInv, NEW id, NEW node, id \notin Ids(g), g' = NewNode(Ok(g), id, node).graph
  PROVE  /\ Ids(g') = Ids(g) \cup {id} /\ g'.edges = g.edges
         /\ g'.nodes[id] = node /\ \A n \in Ids(g) : g'.nodes[n] = g.nodes[n]
         /\ g' = [nodes |-> g'.nodes, edges |-> g'.edges]
         /\ g'.nodes = [n \in Ids(g') |-> g'.nodes[n]]
<1> DEFINE M == [n \in Ids(g) \cup {id} |-> IF n = id THEN node ELSE g.nodes[n]]
<1>1. g' = [nodes |-> M, edges |-> g.edges]
  <2>1. PICK N, E : g = [nodes |-> N, edges |-> E]
    BY DEF GraphInv
  <2>2. NewNode(Ok(g), id, node) = [Ok(g) EXCEPT !.graph.nodes = M]
    BY DEF NewNode, Ok
  <2> HIDE DEF M
  <2>3. [Ok(g) EXCEPT !.graph.nodes = M].graph = [nodes |-> M, edges |-> E]
    BY <2>1 DEF Ok
  <2>4. QED
    BY <2>1, <2>2, <2>3
<1>2. QED
  BY <1>1 DEF Ids

\* A call that fails changes nothing.
LEMMA NothingAdded ==
  ASSUME NEW id, NEW node, NEW source, NEW target
  PROVE  /\ NewNode(Ok(g), id, node).ok <=> id \notin Ids(g)
         /\ id \in Ids(g) => NewNode(Ok(g), id, node).graph = g
         /\ NewEdge(Ok(g), "connects", source, target).ok <=> {source, target} \subseteq Ids(g)
         /\ ~({source, target} \subseteq Ids(g)) => NewEdge(Ok(g), "connects", source, target).graph = g
<1> DEFINE M == [n \in Ids(g) \cup {id} |-> IF n = id THEN node ELSE g.nodes[n]]
           e == [class |-> "connects", source |-> source, target |-> target]
           yes == TRUE
           no == FALSE
           r == [graph |-> g, ok |-> yes]
<1>1. Ok(g) = r /\ r.ok = yes /\ r.graph = g
  BY DEF Ok
<1>2. [r EXCEPT !.ok = no].ok = no /\ [r EXCEPT !.ok = no].graph = g
  <2> HIDE DEF yes, no
  <2>1. QED
    OBVIOUS
<1>3. [r EXCEPT !.graph.nodes = M].ok = yes /\ [r EXCEPT !.graph.edges = @ \cup {e}].ok = yes
  <2> HIDE DEF yes, M, e
  <2>1. QED
    OBVIOUS
<1>4. NewNode(r, id, node) = IF id \in Ids(g) THEN [r EXCEPT !.ok = no] ELSE [r EXCEPT !.graph.nodes = M]
  BY <1>1 DEF NewNode
<1>5. NewEdge(r, "connects", source, target)
        = IF {source, target} \subseteq Ids(g) THEN [r EXCEPT !.graph.edges = @ \cup {e}] ELSE [r EXCEPT !.ok = no]
  BY <1>1 DEF NewEdge
<1>6. yes = TRUE /\ no = FALSE
  OBVIOUS
<1> HIDE DEF M, e, yes, no, r
<1>7. QED
  BY <1>1, <1>2, <1>3, <1>4, <1>5, <1>6

\* Two elements get an edge, and nothing else changes.
LEMMA EdgeAdded ==
  ASSUME GraphInv, NEW source \in Ids(g), NEW target \in Ids(g), g' = NewEdge(Ok(g), "connects", source, target).graph
  PROVE  /\ g'.nodes = g.nodes /\ Ids(g') = Ids(g)
         /\ g'.edges = g.edges \cup {[class |-> "connects", source |-> source, target |-> target]}
         /\ g' = [nodes |-> g'.nodes, edges |-> g'.edges]
<1> DEFINE e == [class |-> "connects", source |-> source, target |-> target]
<1>1. g' = [nodes |-> g.nodes, edges |-> g.edges \cup {e}]
  <2>1. PICK N, E : g = [nodes |-> N, edges |-> E]
    BY DEF GraphInv
  <2>2. NewEdge(Ok(g), "connects", source, target) = [Ok(g) EXCEPT !.graph.edges = @ \cup {e}]
    BY DEF NewEdge, Ok
  <2> HIDE DEF e
  <2>3. [Ok(g) EXCEPT !.graph.edges = @ \cup {e}].graph = [nodes |-> N, edges |-> E \cup {e}]
    BY <2>1 DEF Ok
  <2>4. QED
    BY <2>1, <2>2, <2>3
<1>2. QED
  BY <1>1 DEF Ids

\* An element goes with its edges.
LEMMA NodeDeleted ==
  ASSUME NEW id, g' = Delete(g, {id})
  PROVE  /\ Ids(g') = Ids(g) \ {id} /\ \A n \in Ids(g') : g'.nodes[n] = g.nodes[n]
         /\ g'.edges = {e \in g.edges : e.source # id /\ e.target # id}
         /\ g' = [nodes |-> g'.nodes, edges |-> g'.edges]
         /\ g'.nodes = [n \in Ids(g') |-> g'.nodes[n]]
BY DEF Delete, Ids

\* An element gets another node.
LEMMA NodeUpdated ==
  ASSUME GraphInv, NEW id \in Ids(g), NEW node, g' = [g EXCEPT !.nodes[id] = node]
  PROVE  /\ Ids(g') = Ids(g) /\ g'.edges = g.edges
         /\ \A n \in Ids(g) : g'.nodes[n] = IF n = id THEN node ELSE g.nodes[n]
         /\ g' = [nodes |-> g'.nodes, edges |-> g'.edges]
         /\ g'.nodes = [n \in Ids(g') |-> g'.nodes[n]]
<1>1. g' = [nodes |-> [g.nodes EXCEPT ![id] = node], edges |-> g.edges]
  <2>1. PICK N, E : g = [nodes |-> N, edges |-> E]
    BY DEF GraphInv
  <2>2. QED
    BY <2>1
<1>2. g.nodes = [n \in Ids(g) |-> g.nodes[n]]
  BY DEF GraphInv
<1>3. QED
  BY <1>1, <1>2 DEF Ids

\* Elements that are added have IDs of their class.
LEMMA AddNodeKeeps ==
  ASSUME GraphInv, NEW id, NEW node, id \notin Ids(g), id[1] \in DOMAIN ClassOf,
         IsNode(id, node), HasNamedID(id, node), g' = NewNode(Ok(g), id, node).graph
  PROVE  GraphInv'
<1>1. /\ Ids(g') = Ids(g) \cup {id} /\ g'.edges = g.edges
      /\ g'.nodes[id] = node /\ \A n \in Ids(g) : g'.nodes[n] = g.nodes[n]
      /\ g' = [nodes |-> g'.nodes, edges |-> g'.edges]
      /\ g'.nodes = [n \in Ids(g') |-> g'.nodes[n]]
  BY NodeAdded
<1>2. IsFiniteSet(Ids(g'))
  BY <1>1, FS_AddElement DEF GraphInv
<1>3. \A n : Incoming(g', n, "has") = Incoming(g, n, "has")
  BY <1>1 DEF Incoming
<1>4. \A n \in Ids(g') : /\ IsNode(n, g'.nodes[n])
                         /\ HasNamedID(n, g'.nodes[n]) \/ Incoming(g', n, "has") # {}
                         /\ n \in Ids(Start) \/ n[1] \in DOMAIN ClassOf
  BY <1>1, <1>3 DEF GraphInv
<1>5. QED
  BY <1>1, <1>2, <1>4 DEF GraphInv, Ids, Incoming

\* No goroutine gives anything an owner, or connects a service to a
\* sub-interface.
LEMMA AddEdgeKeeps ==
  ASSUME GraphInv, NEW source \in Ids(g), NEW target \in Ids(g),
         Kind(source) = "NetworkService" => ~IsChildID(target),
         g' = NewEdge(Ok(g), "connects", source, target).graph
  PROVE  GraphInv'
<1> DEFINE e == [class |-> "connects", source |-> source, target |-> target]
<1>1. /\ g'.nodes = g.nodes /\ Ids(g') = Ids(g) /\ g'.edges = g.edges \cup {e}
      /\ g' = [nodes |-> g'.nodes, edges |-> g'.edges]
  BY EdgeAdded
<1>2. \A n : Incoming(g', n, "has") = Incoming(g, n, "has")
  BY <1>1 DEF Incoming
<1>3. \A f \in g'.edges :
        /\ f.source \in Ids(g') /\ f.target \in Ids(g')
        /\ f.class = "has" => f.source \in OwnersAtStart
        /\ f.class = "connects" /\ Kind(f.source) = "NetworkService" => ~IsChildID(f.target)
  BY <1>1 DEF GraphInv
<1>4. QED
  BY <1>1, <1>2, <1>3 DEF GraphInv, Ids, Incoming

\* What is deleted owns nothing, so nothing loses its owner.
LEMMA DeleteKeeps ==
  ASSUME GraphInv, NEW id, id \notin OwnersAtStart, IsChildID(id) => id \notin Ids(Start), g' = Delete(g, {id})
  PROVE  GraphInv'
<1>1. /\ Ids(g') = Ids(g) \ {id} /\ \A n \in Ids(g') : g'.nodes[n] = g.nodes[n]
      /\ g'.edges = {e \in g.edges : e.source # id /\ e.target # id}
      /\ g' = [nodes |-> g'.nodes, edges |-> g'.edges]
      /\ g'.nodes = [n \in Ids(g') |-> g'.nodes[n]]
  BY NodeDeleted
<1>2. IsFiniteSet(Ids(g'))
  BY <1>1, FS_Subset DEF GraphInv
<1>3. \A n \in Ids(g') : Incoming(g', n, "has") = Incoming(g, n, "has")
  <2> SUFFICES ASSUME NEW n \in Ids(g') PROVE Incoming(g', n, "has") = Incoming(g, n, "has")
    OBVIOUS
  <2>1. {e \in g'.edges : e.target = n /\ e.class = "has"} = {e \in g.edges : e.target = n /\ e.class = "has"}
    <3>1. \A e \in g.edges : e.class = "has" => e.source # id
      BY DEF GraphInv
    <3>2. n # id
      BY <1>1
    <3>3. QED
      BY <1>1, <3>1, <3>2
  <2>2. QED
    BY <2>1 DEF Incoming
<1>4. \A n \in Ids(g') : /\ IsNode(n, g'.nodes[n])
                         /\ HasNamedID(n, g'.nodes[n]) \/ Incoming(g', n, "has") # {}
                         /\ n \in Ids(Start) \/ n[1] \in DOMAIN ClassOf
  BY <1>1, <1>3 DEF GraphInv
<1>5. QED
  BY <1>1, <1>2, <1>4 DEF GraphInv, Ids, Incoming

\* Graph.UpdateNode, with a node that was read some time before: it is that of
\* an interface.
LEMMA UpdateKeeps ==
  ASSUME GraphInv, NEW id \in Ids(g), NEW node, IsNode(id, node), HasNamedID(id, node),
         g' = [g EXCEPT !.nodes[id] = node]
  PROVE  GraphInv'
<1>1. /\ Ids(g') = Ids(g) /\ g'.edges = g.edges
      /\ \A n \in Ids(g) : g'.nodes[n] = IF n = id THEN node ELSE g.nodes[n]
      /\ g' = [nodes |-> g'.nodes, edges |-> g'.edges]
      /\ g'.nodes = [n \in Ids(g') |-> g'.nodes[n]]
  BY NodeUpdated
<1>2. \A n : Incoming(g', n, "has") = Incoming(g, n, "has")
  BY <1>1 DEF Incoming
<1>3. QED
  BY <1>1, <1>2 DEF GraphInv, Ids, Incoming

-----------------------------------------------------------------------------
(* Steps that change the graph: what they keep.                            *)

\* No port gets another sub-interface, and none of its sub-interfaces changes.
LEMMA NoOtherChildren ==
  ASSUME GraphInv, GraphInv',
         \A e \in g'.edges : e \in g.edges \/ Kind(e.source) # "ConnectionPoint" \/ Kind(e.target) # "ConnectionPoint",
         \A k \in Ids(g') \cap Ids(g) : g'.nodes[k].type = "SubInterface" => g'.nodes[k] = g.nodes[k]
  PROVE  \A i \in Ports(g') :
           \/ ChildInterfaces(g', i) = {}
           \/ /\ i \in Ports(g)
              /\ \A k \in ChildInterfaces(g', i) :
                   k \in ChildInterfaces(g, i) /\ LabelsOf(g', k)["VLAN"] = LabelsOf(g, k)["VLAN"]
<1> SUFFICES ASSUME NEW i \in Ports(g'), NEW k \in ChildInterfaces(g', i)
             PROVE  /\ i \in Ports(g) /\ k \in ChildInterfaces(g, i)
                    /\ LabelsOf(g', k)["VLAN"] = LabelsOf(g, k)["VLAN"]
  OBVIOUS
<1>1. /\ i \in Ids(g') /\ g'.nodes[i].class = "ConnectionPoint"
      /\ k \in Ids(g') /\ g'.nodes[k].class = "ConnectionPoint" /\ g'.nodes[k].type = "SubInterface"
  BY DEF ChildInterfaces, Ports, OfClass, TypeOf
<1>2. Kind(i) = "ConnectionPoint" /\ Kind(k) = "ConnectionPoint"
  BY <1>1 DEF GraphInv, IsNode
<1>3. PICK e \in g'.edges : e.source = i /\ e.target = k /\ e.class = "connects"
  BY DEF ChildInterfaces, Outgoing
<1>4. e \in g.edges /\ i \in Ids(g) /\ k \in Ids(g)
  BY <1>2, <1>3 DEF GraphInv
<1>5. i \in Ports(g) /\ k \in Ports(g)
  BY <1>2, <1>4, KindOfElement
<1>6. g'.nodes[k] = g.nodes[k]
  BY <1>1, <1>4
<1>7. QED
  BY <1>1, <1>3, <1>4, <1>5, <1>6 DEF ChildInterfaces, Outgoing, TypeOf, LabelsOf

\* A port is attached while labels are set on it: the two calls overlap.
LEMMA AttachedTogether ==
  ASSUME TodoInv, OverlapsInv, NEW t \in Goroutines, NEW u \in Goroutines \ {t},
         ~Idle(t), ~Idle(u), running[u].call.op = "SetLabels",
         NEW i, running[u].call.interface = i, Attaches(running[t].call, i)
  PROVE  SetTogether(i)
<1>1. running[t].call \in Calls /\ running[u].call \in Calls
  BY DEF TodoInv
<1>2. Overlapped(running[u].call, running[t].call)
  BY DEF OverlapsInv, Overlapped
<1>3. Forgets(running[u].call, running[t].call)
  BY DEF Forgets
<1>4. QED
  BY <1>1, <1>2, <1>3 DEF SetTogether

\* A goroutine that neither sets labels nor adds a sub-interface: what it adds,
\* it adds with the labels of the start, and what it deletes, it may.
LEMMA OtherStep ==
  ASSUME IndInv, GraphInv', NEW t \in Goroutines, NEW todo, running[t].todo # << >>,
         running[t].call.op \notin {"SetLabels", "AddChildInterface"}, IsTodo(running[t].call, todo),
         GoesOn(t, todo), UNCHANGED overlaps,
         \A e \in g'.edges : e \in g.edges \/ Kind(e.source) # "ConnectionPoint" \/ Kind(e.target) # "ConnectionPoint",
         \A n \in Ids(g') \cap Ids(g) : g'.nodes[n] = g.nodes[n],
         \A n \in Ids(g) \ Ids(g') : Deletable(n),
         asked' = [i \in Ports(Start) |-> asked'[i]],
         \A i \in Ports(Start) :
           \/ asked'[i] = asked[i] /\ (i \in Ids(g') => i \in Ids(g))
           \/ i \notin Ids(g) /\ LabelsOf(g', i) = NoLabels /\ asked'[i] = NoLabels /\ Attaches(running[t].call, i)
  PROVE  IndInv'
<1> DEFINE c == running[t].call
<1>1. GraphInv /\ TodoInv /\ OverlapsInv /\ MadeInv /\ LabelsInv
  BY DEF IndInv
<1>2. Turned(t, c, todo)
  BY <1>1, GoesOnTurns
<1>3. c \in Calls /\ c.op # "none" /\ ~Idle(t)
  BY <1>1, Running DEF Idle
<1>4. TodoInv' /\ OverlapsInv'
  <2>1. Fits(c, todo)
    BY DEF Fits
  <2>2. QED
    BY <1>1, <1>2, <1>3, <2>1, TodoKept, OverlapsKept
<1>5. \A u \in Goroutines \ {t} : \A id : Makes(u, id) => id \in Ids(g') \cap Ids(g)
  BY <1>1 DEF MadeInv, Deletable
<1>6. MadeInv'
  BY <1>1, <1>2, <1>5, MadeKept
<1>7. LabelsInv'
  <2>1. \A i \in Ids(g') \cap Ports(Start) :
          \/ i \in Ids(g) /\ LabelsOf(g', i) = LabelsOf(g, i) /\ asked'[i] = asked[i]
          \/ LabelsOf(g', i) = asked'[i]
    BY DEF LabelsOf
  <2>2. ASSUME NEW u \in Goroutines \ {t}, NEW i \in Ids(g') \cap Ports(Start),
               running[u].call.op = "SetLabels", running[u].call.interface = i, ~SetTogether(i)'
        PROVE  i \in Ids(g) /\ asked'[i] = asked[i]
    <3>1. CASE Attaches(c, i)
      <4>1. ~Idle(u)
        BY <2>2 DEF Idle
      <4>2. SetTogether(i)
        BY <1>1, <1>3, <2>2, <3>1, <4>1, AttachedTogether
      <4>3. QED
        BY <2>2, <4>2, TogetherStays
    <3>2. CASE ~Attaches(c, i)
      BY <3>2
    <3>3. QED
      BY <3>1, <3>2
  <2>3. QED
    BY <1>1, <1>2, <2>1, <2>2, LabelsKept
<1>8. ASSUME \A d \in Calls : ~SetsLabelsOfChild(d) PROVE VLANsInv'
  <2>1. VLANsInv
    BY <1>8 DEF IndInv
  <2>2. \A u \in Goroutines \ {t} : \A id : Makes(u, id) => LabelsOf(g', id)["VLAN"] = LabelsOf(g, id)["VLAN"]
    BY <1>5 DEF LabelsOf
  <2>3. \A i \in Ports(g') :
          \/ ChildInterfaces(g', i) = {}
          \/ /\ i \in Ports(g)
             /\ \A k \in ChildInterfaces(g', i) :
                  k \in ChildInterfaces(g, i) /\ LabelsOf(g', k)["VLAN"] = LabelsOf(g, k)["VLAN"]
    BY <1>1, NoOtherChildren
  <2>4. ~Checked(c, todo)
    BY DEF Checked
  <2>5. QED
    BY <1>2, <2>1, <2>2, <2>3, <2>4, VLANsKept
<1>9. ASSUME NoLocalNames PROVE LocalNamesInv'
  <2>1. LocalNamesInv
    BY <1>9 DEF IndInv
  <2>2. ASSUME NEW i \in Ports(Start)
        PROVE  /\ asked'[i]["LocalName"] = LabelsOf(Start, i)["LocalName"]
               /\ i \in Ids(g') => LabelsOf(g', i)["LocalName"] = LabelsOf(Start, i)["LocalName"]
    <3>1. CASE asked'[i] = asked[i] /\ (i \in Ids(g') => i \in Ids(g))
      BY <2>1, <3>1 DEF LocalNamesInv, LabelsOf
    <3>2. CASE i \notin Ids(g) /\ LabelsOf(g', i) = NoLabels /\ asked'[i] = NoLabels /\ Attaches(c, i)
      BY <1>3, <3>2, PortsAssumption DEF NoLabels, LabelNames, LabelsOf
    <3>3. QED
      BY <3>1, <3>2
  <2>3. QED
    BY <1>2, <2>1, <2>2, LocalNamesKept
<1>10. QED
  BY <1>4, <1>6, <1>7, <1>8, <1>9 DEF IndInv

\* Sub-interfaces are no ports of the start while a goroutine adds or removes
\* them, so their comings and goings leave the labels that were asked for.
LEMMA LabelsStay ==
  ASSUME IndInv, NEW t \in Goroutines, NEW todo, running[t].call.op = "AddChildInterface",
         GoesOn(t, todo), UNCHANGED <<overlaps, asked>>,
         \A n \in Ids(Start) : n \in Ids(g') <=> n \in Ids(g),
         \A n \in Ids(g') \cap Ids(g) : g'.nodes[n] = g.nodes[n]
  PROVE  LabelsInv' /\ (NoLocalNames => LocalNamesInv')
<1>1. TodoInv /\ LabelsInv
  BY DEF IndInv
<1>2. Turned(t, running[t].call, todo)
  BY <1>1, GoesOnTurns
<1>3. Ports(Start) \subseteq Ids(Start)
  BY DEF Ports, OfClass
<1>4. \A i \in Ports(Start) :
        asked'[i] = asked[i] /\ (i \in Ids(g') <=> i \in Ids(g)) /\ (i \in Ids(g') => LabelsOf(g', i) = LabelsOf(g, i))
  BY <1>3 DEF LabelsOf
<1>5. LabelsInv'
  <2>1. asked' = [i \in Ports(Start) |-> asked'[i]]
    BY <1>1 DEF LabelsInv
  <2>2. QED
    BY <1>1, <1>2, <1>4, <2>1, LabelsKept
<1>6. ASSUME NoLocalNames PROVE LocalNamesInv'
  <2>1. LocalNamesInv
    BY <1>6 DEF IndInv
  <2>2. \A i \in Ports(Start) :
          /\ asked'[i]["LocalName"] = LabelsOf(Start, i)["LocalName"]
          /\ i \in Ids(g') => LabelsOf(g', i)["LocalName"] = LabelsOf(Start, i)["LocalName"]
    BY <1>4, <2>1 DEF LocalNamesInv
  <2>3. QED
    BY <1>2, <2>1, <2>2, LocalNamesKept
<1>7. QED
  BY <1>5, <1>6

\* AddChildInterface adds the sub-interface: its ID is free, so nobody else has
\* added it.
LEMMA ChildAdded ==
  ASSUME IndInv, NEW t \in Goroutines, running[t].call.op = "AddChildInterface",
         NEW id, NEW node, running[t].todo = AddOf(running[t].call, id, node), id \notin Ids(g),
         IsChildID(id), IsNode(id, node), node.labels["VLAN"] = running[t].call.vlan,
         g' = NewNode(Ok(g), id, node).graph, GoesOn(t, JoinOf(running[t].call, id)),
         UNCHANGED <<overlaps, asked>>
  PROVE  IndInv'
<1> DEFINE c == running[t].call
           todo == JoinOf(c, id)
<1>1. GraphInv /\ TodoInv /\ OverlapsInv /\ MadeInv
  BY DEF IndInv
<1>2. Turned(t, c, todo)
  BY <1>1, GoesOnTurns
<1>3. c \in Calls /\ c.op # "none"
  BY <1>1, ChildSteps, Running
<1>4. /\ Ids(g') = Ids(g) \cup {id} /\ g'.edges = g.edges
      /\ g'.nodes[id] = node /\ \A n \in Ids(g) : g'.nodes[n] = g.nodes[n]
  BY <1>1, NodeAdded
<1>5. id[1] \in DOMAIN ClassOf /\ HasNamedID(id, node) /\ id \notin Ids(Start)
  <2>1. id[1] = "interface" /\ Kind(id) = "ConnectionPoint"
    BY ChildrenArePorts
  <2>2. QED
    BY <1>1, <2>1 DEF GraphInv, IsNode, HasNamedID, TopLevel, ClassOf
<1>6. GraphInv'
  BY <1>1, <1>5, AddNodeKeeps
<1>7. TodoInv' /\ OverlapsInv'
  <2>1. Fits(c, todo)
    BY DEF Fits, IsChildTodo
  <2>2. QED
    BY <1>1, <1>2, <1>3, <2>1, TodoKept, OverlapsKept
<1>8. \A u \in Goroutines : \A k : Makes(u, k) => k \in Ids(g)
  BY <1>1 DEF MadeInv
<1>9. \A k : todo \in {JoinOf(c, k), RemoveOf(k)} => k = id
  BY FormsDiffer
<1>10. MadeInv'
  <2>1. \A u \in Goroutines \ {t} : \A k : Makes(u, k) => k \in Ids(g')
    BY <1>4, <1>8
  <2>2. \A k : c.op = "AddChildInterface" /\ todo \in {JoinOf(c, k), RemoveOf(k)} =>
          /\ IsChildID(k) /\ k \in Ids(g') \ Ids(Start)
          /\ \A u \in Goroutines \ {t} : ~Makes(u, k)
    BY <1>4, <1>5, <1>8, <1>9
  <2>3. QED
    BY <1>1, <1>2, <2>1, <2>2, MadeKept
<1>11. LabelsInv' /\ (NoLocalNames => LocalNamesInv')
  BY <1>4, <1>5, LabelsStay
<1>12. ASSUME \A d \in Calls : ~SetsLabelsOfChild(d) PROVE VLANsInv'
  <2>1. VLANsInv
    BY <1>12 DEF IndInv
  <2>2. \A u \in Goroutines \ {t} : \A k : Makes(u, k) => LabelsOf(g', k)["VLAN"] = LabelsOf(g, k)["VLAN"]
    BY <1>4, <1>8 DEF LabelsOf
  <2>3. \A k : todo = JoinOf(c, k) => LabelsOf(g', k)["VLAN"] = c.vlan
    BY <1>4, <1>9 DEF LabelsOf
  <2>4. \A i \in Ports(g') :
          \/ ChildInterfaces(g', i) = {}
          \/ /\ i \in Ports(g)
             /\ \A k \in ChildInterfaces(g', i) :
                  k \in ChildInterfaces(g, i) /\ LabelsOf(g', k)["VLAN"] = LabelsOf(g, k)["VLAN"]
    BY <1>1, <1>4, <1>6, NoOtherChildren
  <2>5. Checked(c, running[t].todo)
    BY DEF Checked, AddOf, AddNodeCall
  <2>6. QED
    BY <1>2, <2>1, <2>2, <2>3, <2>4, <2>5, VLANsKept
<1>13. QED
  BY <1>6, <1>7, <1>10, <1>11, <1>12 DEF IndInv

\* AddChildInterface joins the sub-interface to its port: its VLAN is still that
\* of no other, or others add sub-interfaces to the port.
LEMMA ChildJoined ==
  ASSUME IndInv, NEW t \in Goroutines, running[t].call.op = "AddChildInterface",
         NEW id, running[t].todo = JoinOf(running[t].call, id),
         running[t].call.interface \in Ids(g), id \in Ids(g),
         g' = NewEdge(Ok(g), "connects", running[t].call.interface, id).graph, GoesOn(t, << >>),
         UNCHANGED <<overlaps, asked>>
  PROVE  IndInv'
<1> DEFINE c == running[t].call
           i == c.interface
           e == [class |-> "connects", source |-> i, target |-> id]
<1>1. GraphInv /\ TodoInv /\ OverlapsInv /\ MadeInv
  BY DEF IndInv
<1>2. Turned(t, c, << >>)
  BY <1>1, GoesOnTurns
<1>3. c \in Calls /\ c.op # "none"
  BY <1>1, ChildSteps, Running
<1>4. Ids(g') = Ids(g) /\ g'.nodes = g.nodes /\ g'.edges = g.edges \cup {e}
  BY <1>1, EdgeAdded
<1>5. Kind(i) = "ConnectionPoint"
  BY <1>1, <1>3, InterfacesArePorts
<1>6. GraphInv'
  BY <1>1, <1>5, AddEdgeKeeps
<1>7. TodoInv' /\ OverlapsInv'
  <2>1. Fits(c, << >>)
    BY DEF Fits, IsChildTodo
  <2>2. QED
    BY <1>1, <1>2, <1>3, <2>1, TodoKept, OverlapsKept
<1>8. \A k : << >> \notin {JoinOf(c, k), RemoveOf(k)}
  BY ChildSteps
<1>9. MadeInv'
  <2>1. \A u \in Goroutines \ {t} : \A k : Makes(u, k) => k \in Ids(g')
    BY <1>1, <1>4 DEF MadeInv
  <2>2. QED
    BY <1>1, <1>2, <1>8, <2>1, MadeKept
<1>10. LabelsInv' /\ (NoLocalNames => LocalNamesInv')
  BY <1>4, LabelsStay
<1>11. ASSUME \A d \in Calls : ~SetsLabelsOfChild(d) PROVE VLANsInv'
  <2>1. VLANsInv
    BY <1>11 DEF IndInv
  <2>2. \A k : LabelsOf(g', k) = LabelsOf(g, k)
    BY <1>4 DEF LabelsOf
  <2>3. \A u \in Goroutines : \A k : Makes(u, k)' /\ running'[u].todo = JoinOf(running'[u].call, k)
                                      => LabelsOf(g', k)["VLAN"] = running'[u].call.vlan
    BY <1>2, <1>8, <2>1, <2>2, JoinsKept
  <2>4. Ports(g') = Ports(g) /\ \A k : TypeOf(g', k) = TypeOf(g, k)
    BY <1>4 DEF Ports, OfClass, TypeOf
  <2>5. /\ \A p : p # i => Outgoing(g', p, "connects") = Outgoing(g, p, "connects")
        /\ Outgoing(g', i, "connects") \subseteq Outgoing(g, i, "connects") \cup {id}
    <3>1. e.source = i /\ e.target = id
      OBVIOUS
    <3> HIDE DEF e
    <3>2. QED
      BY <1>4, <3>1 DEF Outgoing
  <2>6. ~Checked(c, << >>)
    BY DEF Checked
  <2>7. ASSUME NEW p \in Ports(g'), ~AddedTogether(p)'
        PROVE  /\ ChildrenDiffer(g', p)
               /\ \A u \in Goroutines : Checked(running'[u].call, running'[u].todo) /\ running'[u].call.interface = p
                                          => VLANIsFree(g', p, running'[u].call.vlan)
    <3>1. CASE p # i
      <4>1. p \in Ports(g) /\ ChildInterfaces(g', p) = ChildInterfaces(g, p)
        BY <2>4, <2>5, <3>1 DEF ChildInterfaces
      <4>2. QED
        BY <1>2, <2>1, <2>2, <2>6, <2>7, <4>1, PortsKept
    <3>2. CASE p = i
      <4>1. Checked(c, running[t].todo)
        BY DEF Checked, JoinOf, AddEdgeCall
      <4>2. ChildrenDiffer(g, i) /\ VLANIsFree(g, i, c.vlan)
        BY <2>1, <2>4, <2>7, <3>2, <4>1, TogetherStays DEF VLANsInv
      <4>3. LabelsOf(g, id)["VLAN"] = c.vlan
        BY <2>1 DEF VLANsInv, Makes
      <4>4. ChildInterfaces(g', i) \subseteq ChildInterfaces(g, i) \cup {id}
        BY <2>4, <2>5 DEF ChildInterfaces
      <4>5. ChildrenDiffer(g', i)
        BY <2>2, <4>2, <4>3, <4>4 DEF ChildrenDiffer, VLANIsFree
      <4>6. ASSUME NEW u \in Goroutines, Checked(running'[u].call, running'[u].todo), running'[u].call.interface = i
            PROVE  FALSE
        <5>1. u # t
          BY <1>2, <2>6, <4>6 DEF Turned
        <5>2. running'[u] = running[u]
          BY <1>2, <5>1 DEF Turned
        <5>3. running[u].call.op = "AddChildInterface" /\ running[u].call.interface = i /\ ~Idle(u) /\ ~Idle(t)
          BY <1>3, <4>6, <5>2 DEF Checked, Idle
        <5>4. running[u].call \in Calls /\ Overlapped(c, running[u].call)
          BY <1>1, <5>1, <5>3 DEF TodoInv, OverlapsInv, Overlapped
        <5>5. AddedTogether(i)
          BY <1>3, <5>3, <5>4 DEF AddedTogether, SameParent
        <5>6. QED
          BY <2>7, <3>2, <5>5, TogetherStays
      <4>7. QED
        BY <3>2, <4>5, <4>6
    <3>3. QED
      BY <3>1, <3>2
  <2>8. QED
    BY <2>3, <2>7 DEF VLANsInv
<1>12. QED
  BY <1>6, <1>7, <1>9, <1>10, <1>11 DEF IndInv

\* AddChildInterface takes its sub-interface back when it cannot join it.
LEMMA ChildRemoved ==
  ASSUME IndInv, NEW t \in Goroutines, running[t].call.op = "AddChildInterface",
         NEW id, running[t].todo = RemoveOf(id), g' = Delete(g, {id}), GoesOn(t, << >>),
         UNCHANGED <<overlaps, asked>>
  PROVE  IndInv'
<1> DEFINE c == running[t].call
<1>1. GraphInv /\ TodoInv /\ OverlapsInv /\ MadeInv
  BY DEF IndInv
<1>2. Turned(t, c, << >>)
  BY <1>1, GoesOnTurns
<1>3. c \in Calls /\ c.op # "none"
  BY <1>1, ChildSteps, Running
<1>4. /\ Ids(g') = Ids(g) \ {id} /\ \A n \in Ids(g') : g'.nodes[n] = g.nodes[n]
      /\ g'.edges = {e \in g.edges : e.source # id /\ e.target # id}
  BY NodeDeleted
<1>5. /\ IsChildID(id) /\ id \notin Ids(Start)
      /\ \A u \in Goroutines \ {t} : ~Makes(u, id)
  BY <1>1 DEF MadeInv, Makes
<1>6. GraphInv'
  BY <1>1, <1>5, ChildrenArePorts, DeleteKeeps
<1>7. TodoInv' /\ OverlapsInv'
  <2>1. Fits(c, << >>)
    BY DEF Fits, IsChildTodo
  <2>2. QED
    BY <1>1, <1>2, <1>3, <2>1, TodoKept, OverlapsKept
<1>8. \A k : << >> \notin {JoinOf(c, k), RemoveOf(k)}
  BY ChildSteps
<1>9. \A u \in Goroutines \ {t} : \A k : Makes(u, k) => k \in Ids(g') /\ k \in Ids(g)
  BY <1>1, <1>4, <1>5 DEF MadeInv
<1>10. MadeInv'
  BY <1>1, <1>2, <1>8, <1>9, MadeKept
<1>11. LabelsInv' /\ (NoLocalNames => LocalNamesInv')
  BY <1>4, <1>5, LabelsStay
<1>12. ASSUME \A d \in Calls : ~SetsLabelsOfChild(d) PROVE VLANsInv'
  <2>1. VLANsInv
    BY <1>12 DEF IndInv
  <2>2. \A u \in Goroutines \ {t} : \A k : Makes(u, k) => LabelsOf(g', k)["VLAN"] = LabelsOf(g, k)["VLAN"]
    BY <1>4, <1>9 DEF LabelsOf
  <2>3. \A i \in Ports(g') :
          \/ ChildInterfaces(g', i) = {}
          \/ /\ i \in Ports(g)
             /\ \A k \in ChildInterfaces(g', i) :
                  k \in ChildInterfaces(g, i) /\ LabelsOf(g', k)["VLAN"] = LabelsOf(g, k)["VLAN"]
    BY <1>1, <1>4, <1>6, NoOtherChildren
  <2>4. ~Checked(c, << >>)
    BY DEF Checked
  <2>5. QED
    BY <1>2, <1>8, <2>1, <2>2, <2>3, <2>4, VLANsKept
<1>13. QED
  BY <1>6, <1>7, <1>10, <1>11, <1>12 DEF IndInv

\* Labels are set on the same port by two goroutines: the calls overlap.
LEMMA UpdatedTogether ==
  ASSUME TodoInv, OverlapsInv, NEW t \in Goroutines, NEW u \in Goroutines \ {t},
         running[t].call.op = "SetLabels", running[u].call.op = "SetLabels",
         NEW i, running[t].call.interface = i, running[u].call.interface = i
  PROVE  SetTogether(i)
<1>1. ~Idle(t) /\ ~Idle(u)
  BY DEF Idle
<1>2. running[t].call \in Calls /\ running[u].call \in Calls
  BY <1>1 DEF TodoInv
<1>3. Overlapped(running[t].call, running[u].call)
  BY <1>1 DEF OverlapsInv, Overlapped
<1>4. Forgets(running[t].call, running[u].call)
  BY DEF Forgets
<1>5. QED
  BY <1>2, <1>3, <1>4 DEF SetTogether

\* SetLabels writes the labels it has merged.
LEMMA LabelsUpdated ==
  ASSUME IndInv, NEW t \in Goroutines, running[t].call.op = "SetLabels",
         NEW i, running[t].call.interface = i, i \in Ids(g),
         NEW node, running[t].todo = UpdateOf(running[t].call, node), IsNode(i, node),
         g' = [g EXCEPT !.nodes[i] = node], GoesOn(t, << >>), UNCHANGED overlaps,
         asked' = [asked EXCEPT ![i] = MergeLabels(asked[i], running[t].call.labels)]
  PROVE  IndInv'
<1> DEFINE c == running[t].call
<1>1. GraphInv /\ TodoInv /\ OverlapsInv /\ MadeInv /\ LabelsInv
  BY DEF IndInv
<1>2. Turned(t, c, << >>)
  BY <1>1, GoesOnTurns
<1>3. c \in Calls /\ c.op # "none"
  BY <1>1, LabelsSteps, Running
<1>4. /\ Ids(g') = Ids(g) /\ g'.edges = g.edges
      /\ \A n \in Ids(g) : g'.nodes[n] = IF n = i THEN node ELSE g.nodes[n]
  BY <1>1, NodeUpdated
<1>5. Kind(i) = "ConnectionPoint"
  BY <1>1, <1>3, InterfacesArePorts
<1>6. GraphInv'
  <2>1. HasNamedID(i, node)
    BY <1>5 DEF IsNode, HasNamedID, TopLevel
  <2>2. QED
    BY <1>1, <2>1, UpdateKeeps
<1>7. TodoInv' /\ OverlapsInv'
  <2>1. Fits(c, << >>)
    BY DEF Fits, IsLabelsTodo
  <2>2. QED
    BY <1>1, <1>2, <1>3, <2>1, TodoKept, OverlapsKept
<1>8. \A n : << >> # UpdateOf(c, n)
  BY LabelsSteps
<1>9. MadeInv'
  <2>1. \A u \in Goroutines \ {t} : \A k : Makes(u, k) => k \in Ids(g')
    BY <1>1, <1>4 DEF MadeInv
  <2>2. QED
    BY <1>1, <1>2, <2>1, MadeKept
<1>10. /\ asked = [p \in Ports(Start) |-> asked[p]] /\ asked' = [p \in Ports(Start) |-> asked'[p]]
       /\ \A p \in Ports(Start) : asked'[p] = IF p = i THEN MergeLabels(asked[p], c.labels) ELSE asked[p]
  BY <1>1 DEF LabelsInv
<1>11. LabelsInv'
  <2>1. \A p \in Ids(g') \cap Ports(Start) :
          \/ p \in Ids(g) /\ LabelsOf(g', p) = LabelsOf(g, p) /\ asked'[p] = asked[p]
          \/ LabelsOf(g', p) = asked'[p]
          \/ SetTogether(p)'
    <3> SUFFICES ASSUME NEW p \in Ids(g') \cap Ports(Start)
                 PROVE  \/ p \in Ids(g) /\ LabelsOf(g', p) = LabelsOf(g, p) /\ asked'[p] = asked[p]
                        \/ LabelsOf(g', p) = asked'[p]
                        \/ SetTogether(p)'
      OBVIOUS
    <3>1. CASE p # i
      BY <1>4, <1>10, <3>1 DEF LabelsOf
    <3>2. CASE p = i
      <4>1. SetTogether(p) \/ node.labels = MergeLabels(asked[p], c.labels)
        BY <1>1, <3>2 DEF LabelsInv
      <4>2. LabelsOf(g', p) = node.labels
        BY <1>4, <3>2 DEF LabelsOf
      <4>3. QED
        BY <1>10, <3>2, <4>1, <4>2, TogetherStays
    <3>3. QED
      BY <3>1, <3>2
  <2>2. ASSUME NEW u \in Goroutines \ {t}, NEW p \in Ids(g') \cap Ports(Start),
               running[u].call.op = "SetLabels", running[u].call.interface = p, ~SetTogether(p)'
        PROVE  p \in Ids(g) /\ asked'[p] = asked[p]
    <3>1. p # i
      BY <1>1, <2>2, UpdatedTogether, TogetherStays
    <3>2. QED
      BY <1>4, <1>10, <3>1
  <2>3. QED
    BY <1>1, <1>2, <1>8, <1>10, <2>1, <2>2, LabelsKept
<1>12. ASSUME \A d \in Calls : ~SetsLabelsOfChild(d) PROVE VLANsInv'
  <2>1. VLANsInv
    BY <1>12 DEF IndInv
  <2>2. ~IsChild(i)
    BY <1>3, <1>12 DEF SetsLabelsOfChild, IsChild
  <2>3. node.type # "SubInterface"
    BY <2>2 DEF IsNode
  <2>4. \A u \in Goroutines \ {t} : \A k : Makes(u, k) => LabelsOf(g', k)["VLAN"] = LabelsOf(g, k)["VLAN"]
    <3>1. \A u \in Goroutines \ {t} : \A k : Makes(u, k) => k \in Ids(g) /\ k # i
      BY <1>1, <2>2 DEF MadeInv, IsChild
    <3>2. QED
      BY <1>4, <3>1 DEF LabelsOf
  <2>5. \A p \in Ports(g') :
          \/ ChildInterfaces(g', p) = {}
          \/ /\ p \in Ports(g)
             /\ \A k \in ChildInterfaces(g', p) :
                  k \in ChildInterfaces(g, p) /\ LabelsOf(g', k)["VLAN"] = LabelsOf(g, k)["VLAN"]
    BY <1>1, <1>4, <1>6, <2>3, NoOtherChildren
  <2>6. ~Checked(c, << >>)
    BY DEF Checked
  <2>7. QED
    BY <1>2, <2>1, <2>4, <2>5, <2>6, VLANsKept
<1>13. ASSUME NoLocalNames PROVE LocalNamesInv'
  <2>1. LocalNamesInv
    BY <1>13 DEF IndInv
  <2>2. \A b : MergeLabels(b, c.labels)["LocalName"] = b["LocalName"]
    BY <1>3, <1>13 DEF NoLocalNames, MergeLabels, LabelNames
  <2>3. ASSUME NEW p \in Ports(Start)
        PROVE  /\ asked'[p]["LocalName"] = LabelsOf(Start, p)["LocalName"]
               /\ p \in Ids(g') => LabelsOf(g', p)["LocalName"] = LabelsOf(Start, p)["LocalName"]
    <3>1. asked'[p]["LocalName"] = asked[p]["LocalName"]
      BY <1>10, <2>2
    <3>2. CASE p # i
      BY <1>4, <2>1, <3>1, <3>2 DEF LocalNamesInv, LabelsOf
    <3>3. CASE p = i
      <4>1. node.labels["LocalName"] = LabelsOf(Start, p)["LocalName"]
        BY <2>1, <3>3 DEF LocalNamesInv
      <4>2. LabelsOf(g', p) = node.labels
        BY <1>4, <3>3 DEF LabelsOf
      <4>3. QED
        BY <2>1, <3>1, <4>1, <4>2 DEF LocalNamesInv
    <3>4. QED
      BY <3>2, <3>3
  <2>4. QED
    BY <1>2, <1>8, <2>1, <2>3, LocalNamesKept
<1>14. QED
  BY <1>6, <1>7, <1>9, <1>11, <1>12, <1>13 DEF IndInv

-----------------------------------------------------------------------------
(* The actions.                                                            *)

\* An error path that deletes nothing, and one that deletes one element.
LEMMA Deletions == ASSUME NEW id PROVE DeleteAll(<< >>) = << >> /\ DeleteAll(<<id>>) = RemoveOf(id)
BY DEF DeleteAll, RemoveOf

\* A goroutine comes to the end of its call.
LEMMA EndStep ==
  ASSUME IndInv, NEW t \in Goroutines, running[t].todo # << >>, GoesOn(t, << >>), UNCHANGED <<g, overlaps, asked>>
  PROVE  IndInv'
<1> DEFINE c == running[t].call
<1>1. TodoInv
  BY DEF IndInv
<1>2. Turned(t, c, << >>) /\ c \in Calls /\ c.op # "none"
  BY <1>1, GoesOnTurns, Running
<1>3. Fits(c, << >>)
  BY TodoNone DEF Fits, IsLabelsTodo, IsChildTodo
<1>4. \A id : << >> \notin {JoinOf(c, id), RemoveOf(id)}
  BY DEF JoinOf, RemoveOf
<1>5. \A node : << >> # UpdateOf(c, node)
  BY DEF UpdateOf
<1>6. ~Checked(c, << >>)
  BY DEF Checked
<1>7. QED
  BY <1>2, <1>3, <1>4, <1>5, <1>6, QuietStep

\* A goroutine that neither sets labels nor adds a sub-interface goes on with
\* safe calls.
LEMMA OtherQuietStep ==
  ASSUME IndInv, NEW t \in Goroutines, NEW todo, running[t].todo # << >>,
         running[t].call.op \notin {"SetLabels", "AddChildInterface"}, IsTodo(running[t].call, todo),
         GoesOn(t, todo), UNCHANGED <<g, overlaps, asked>>
  PROVE  IndInv'
<1> DEFINE c == running[t].call
<1>1. TodoInv
  BY DEF IndInv
<1>2. Turned(t, c, todo) /\ c \in Calls /\ c.op # "none"
  BY <1>1, GoesOnTurns, Running
<1>3. Fits(c, todo) /\ ~Checked(c, todo)
  BY DEF Fits, Checked
<1>4. QED
  BY <1>2, <1>3, QuietStep

\* A call begins.
LEMMA CallKeeps ==
  ASSUME IndInv, NEW t \in Goroutines, NEW c \in Calls, Call(t, c)
  PROVE  IndInv'
<1>1. GraphInv /\ TodoInv
  BY DEF IndInv
<1>2. Turned(t, c, FirstCalls(c))
  BY <1>1, BeginsTurns DEF Call
<1>3. c.op # "none"
  BY CallsAssumption
<1>4. c.op = "ConnectInterface" => Kind(c.service) = "NetworkService"
  BY <1>1, KindOfElement DEF Call, Services, OfClass
<1>5. Fits(c, FirstCalls(c))
  BY <1>4, FirstCallsFit
<1>6. overlaps \subseteq overlaps' /\ \A u \in Goroutines \ {t} : ~Idle(u) => {c, running[u].call} \in overlaps'
  BY DEF Call
<1>7. \A id : c.op = "AddChildInterface" => FirstCalls(c) \notin {JoinOf(c, id), RemoveOf(id)}
  BY DEF FirstCalls, JoinOf, RemoveOf, AddEdgeCall, DeleteNodeCall
<1>8. ~Checked(c, FirstCalls(c))
  <2>1. c.op = "AddChildInterface" => FirstCalls(c) = CheckVLANOf(c)
    BY DEF FirstCalls, CheckVLANOf
  <2>2. Head(CheckVLANOf(c)).do = "CheckVLAN"
    BY DEF CheckVLANOf
  <2>3. QED
    BY <2>1, <2>2 DEF Checked
<1>9. \A node : c.op = "SetLabels" => FirstCalls(c) # UpdateOf(c, node)
  <2>1. c.op = "SetLabels" => FirstCalls(c) = ReadLabelsOf(c)
    BY DEF FirstCalls, ReadLabelsOf
  <2>2. QED
    BY <2>1, LabelsSteps
<1>10. UNCHANGED <<g, asked>>
  BY DEF Call
<1>11. QED
  BY <1>2, <1>3, <1>5, <1>6, <1>7, <1>8, <1>9, <1>10, QuietStep

\* SetLabels reads the labels that are there.
LEMMA LabelsRead ==
  ASSUME IndInv, NEW t \in Goroutines, running[t].call.op = "SetLabels",
         running[t].todo = ReadLabelsOf(running[t].call),
         NEW found \in Follows(g, First(t)), GoesOn(t, found), UNCHANGED <<g, overlaps, asked>>
  PROVE  IndInv'
<1> DEFINE c == running[t].call
           i == c.interface
           node == [g.nodes[i] EXCEPT !.labels = MergeLabels(@, c.labels)]
<1>1. GraphInv /\ TodoInv
  BY DEF IndInv
<1>2. Turned(t, c, found) /\ c \in Calls /\ c.op # "none"
  BY <1>1, GoesOnTurns, LabelsSteps, Running
<1>3. First(t) = [do |-> "ReadLabels", interface |-> i, labels |-> c.labels]
  BY DEF First, ReadLabelsOf
<1>4. i \in Ids(g) /\ found = UpdateOf(c, node)
  BY <1>3 DEF Follows, UpdateOf
<1>5. Kind(i) = "ConnectionPoint"
  BY <1>1, <1>2, <1>4, InterfacesArePorts
<1>6. IsNode(i, g.nodes[i]) /\ "labels" \in DOMAIN g.nodes[i]
  BY <1>1, <1>4, <1>5 DEF GraphInv, IsNode
<1>7. /\ DOMAIN node = DOMAIN g.nodes[i] /\ node.labels = MergeLabels(g.nodes[i].labels, c.labels)
      /\ {"class", "type"} \subseteq DOMAIN g.nodes[i]
      /\ node.class = g.nodes[i].class /\ node.type = g.nodes[i].type
  BY <1>6 DEF IsNode
<1> HIDE DEF node
<1>8. IsNode(i, node)
  BY <1>5, <1>6, <1>7 DEF IsNode
<1>9. Fits(c, found)
  BY <1>4, <1>8 DEF Fits, IsLabelsTodo
<1>10. \A n : found = UpdateOf(c, n) => n = node
  BY <1>4, LabelsSteps
<1>11. ~Checked(c, found)
  BY DEF Checked
<1>12. node.labels = MergeLabels(LabelsOf(g, i), c.labels)
  BY <1>7 DEF LabelsOf
<1>13. QED
  BY <1>2, <1>4, <1>9, <1>10, <1>11, <1>12, QuietStep

\* AddChildInterface finds its VLAN free.
LEMMA VLANChecked ==
  ASSUME IndInv, NEW t \in Goroutines, running[t].call.op = "AddChildInterface",
         running[t].todo = CheckVLANOf(running[t].call),
         NEW found \in Follows(g, First(t)), GoesOn(t, found), UNCHANGED <<g, overlaps, asked>>
  PROVE  IndInv'
<1> DEFINE c == running[t].call
<1>1. TodoInv
  BY DEF IndInv
<1>2. Turned(t, c, found) /\ c \in Calls /\ c.op # "none"
  BY <1>1, GoesOnTurns, Running DEF CheckVLANOf
<1>3. First(t) = [do |-> "CheckVLAN", call |-> c]
  BY DEF First, CheckVLANOf
<1>4. VLANIsFree(g, c.interface, c.vlan) /\ found = ReadParentOf(c)
  BY <1>3 DEF Follows, ReadParentOf
<1>5. Fits(c, found)
  BY <1>4 DEF Fits, IsChildTodo
<1>6. \A id : found \notin {JoinOf(c, id), RemoveOf(id)}
  BY <1>4 DEF ReadParentOf, JoinOf, RemoveOf, AddEdgeCall, DeleteNodeCall
<1>7. QED
  BY <1>2, <1>4, <1>5, <1>6, QuietStep

\* AddChildInterface reads the name and the labels of its port.
LEMMA ParentRead ==
  ASSUME IndInv, NEW t \in Goroutines, running[t].call.op = "AddChildInterface",
         running[t].todo = ReadParentOf(running[t].call),
         NEW found \in Follows(g, First(t)), GoesOn(t, found), UNCHANGED <<g, overlaps, asked>>
  PROVE  IndInv'
<1> DEFINE c      == running[t].call
           id     == <<"interface", NameOf(g, c.interface), c.name>>
           labels == [NoLabels EXCEPT !["VLAN"] = c.vlan, !["LocalName"] = LabelsOf(g, c.interface)["LocalName"]]
           node   == Port(c.name, "SubInterface", labels)
<1>1. TodoInv
  BY DEF IndInv
<1>2. Turned(t, c, found) /\ c \in Calls /\ c.op # "none"
  BY <1>1, GoesOnTurns, Running DEF ReadParentOf
<1>3. First(t) = [do |-> "ReadParent", call |-> c]
  BY DEF First, ReadParentOf
<1>4. found = AddOf(c, id, node)
  BY <1>3 DEF Follows, AddOf
<1>5. IsChildID(id)
  BY <1>2 DEF IsChildID
<1>6. labels["VLAN"] = c.vlan
  BY DEF NoLabels, LabelNames
<1> HIDE DEF labels
<1>7. node.labels["VLAN"] = c.vlan /\ node.class = "ConnectionPoint" /\ node.type = "SubInterface"
      /\ {"class", "type", "labels"} \subseteq DOMAIN node
  BY <1>6 DEF Port
<1> HIDE DEF node, id
<1>8. IsNode(id, node)
  BY <1>5, <1>7, ChildrenArePorts DEF IsNode, IsChild
<1>9. Fits(c, found)
  BY <1>4, <1>5, <1>7, <1>8 DEF Fits, IsChildTodo
<1>10. Head(found).do = "AddNode"
  BY <1>4 DEF AddOf, AddNodeCall
<1>11. \A k : found \notin {JoinOf(c, k), RemoveOf(k)}
  BY <1>10 DEF JoinOf, RemoveOf, AddEdgeCall, DeleteNodeCall
<1>12. Checked(c, running[t].todo)
  BY DEF Checked, ReadParentOf
<1>13. QED
  BY <1>2, <1>9, <1>11, <1>12, QuietStep

\* What is left after a list of graph calls, when nothing is.
LEMMA NothingMore ==
  ASSUME NEW x, NEW y, NEW rest, rest = << >>
  PROVE  <<x>> \o rest = <<x>> /\ <<x, y>> \o rest = <<x, y>>
<1> DEFINE S == {x, y}
           one == <<x>>
           two == <<x, y>>
<1>1. one \in Seq(S) /\ two \in Seq(S)
  OBVIOUS
<1> HIDE DEF S, one, two
<1>2. one \o << >> = one /\ two \o << >> = two
  BY <1>1, ConcatEmptySeq
<1>3. QED
  BY <1>2 DEF one, two

\* What a goroutine runs that neither sets labels nor adds a sub-interface.
LEMMA OtherFirst ==
  ASSUME TodoInv, NEW t \in Goroutines, running[t].todo # << >>,
         running[t].call.op \notin {"SetLabels", "AddChildInterface"}
  PROVE  Safe(running[t].call, First(t)) /\ IsTodo(running[t].call, Tail(running[t].todo))
<1>1. IsTodo(running[t].call, running[t].todo)
  BY Running DEF Fits
<1>2. QED
  BY <1>1, TodoRest DEF First

\* Graph calls that read.
LEMMA ReadKeeps ==
  ASSUME IndInv, NEW t \in Goroutines, Read(t)
  PROVE  IndInv'
<1> DEFINE c == running[t].call
           todo == running[t].todo
<1>0. TodoInv /\ GraphInv
  BY DEF IndInv
<1>1. todo # << >> /\ First(t).do \in Reads /\ UNCHANGED <<g, overlaps, asked>> /\ Fits(c, todo) /\ c \in Calls
  BY <1>0, Running DEF Read
<1>2. CASE Fails(t, << >>)
  BY <1>1, <1>2, Deletions, EndStep DEF Fails, GoesOn
<1>3. ASSUME NEW found \in Follows(g, First(t)), NEW next, GoesOn(t, next),
             next = CASE First(t).do = "ReadPeers" -> Tail(todo) \o found
                      [] First(t).do = "CheckParent" /\ found # << >> -> found
                      [] OTHER -> found \o Tail(todo)
      PROVE  IndInv'
  <2>0. First(t).do \notin {"ReadPeers", "CheckParent"} => next = found \o Tail(todo)
    BY <1>3
  <2>1. CASE c.op \notin {"SetLabels", "AddChildInterface"}
    <3>1. Safe(c, First(t)) /\ IsTodo(c, Tail(todo))
      BY <1>0, <1>1, <2>1, OtherFirst
    <3>2. IsTodo(c, found)
      BY <1>0, <1>1, <3>1, FollowsIsSafe
    <3>3. next \in {Tail(todo) \o found, found, found \o Tail(todo)}
      BY <1>3
    <3>4. IsTodo(c, next)
      BY <3>1, <3>2, <3>3, TodoConcat
    <3>5. QED
      BY <1>1, <1>3, <2>1, <3>4, OtherQuietStep
  <2>2. CASE c.op = "SetLabels"
    <3>1. todo = ReadLabelsOf(c)
      BY <1>1, <2>2, LabelsForms DEF Fits, First, Reads
    <3>2. First(t) = [do |-> "ReadLabels", interface |-> c.interface, labels |-> c.labels] /\ Tail(todo) = << >>
      BY <3>1 DEF First, ReadLabelsOf
    <3>3. PICK node : found = UpdateOf(c, node)
      BY <3>2 DEF Follows, UpdateOf
    <3>4. next = found \o Tail(todo)
      BY <2>0, <3>2
    <3>5. next = found
      BY <3>2, <3>3, <3>4, NothingMore DEF UpdateOf
    <3>6. QED
      BY <1>1, <1>3, <2>2, <3>1, <3>5, LabelsRead
  <2>3. CASE c.op = "AddChildInterface"
    <3>1. todo \in {CheckVLANOf(c), ReadParentOf(c)}
      BY <1>1, <2>3, ChildForms DEF Fits, First, Reads
    <3>2. CASE todo = CheckVLANOf(c)
      <4>1. First(t) = [do |-> "CheckVLAN", call |-> c] /\ Tail(todo) = << >>
        BY <3>2 DEF First, CheckVLANOf
      <4>2. found = ReadParentOf(c)
        BY <4>1 DEF Follows, ReadParentOf
      <4>3. next = found \o Tail(todo)
        BY <2>0, <4>1
      <4>4. next = found
        BY <4>1, <4>2, <4>3, NothingMore DEF ReadParentOf
      <4>5. QED
        BY <1>1, <1>3, <2>3, <3>2, <4>4, VLANChecked
    <3>3. CASE todo = ReadParentOf(c)
      <4>1. First(t) = [do |-> "ReadParent", call |-> c] /\ Tail(todo) = << >>
        BY <3>3 DEF First, ReadParentOf
      <4>2. PICK id, node : found = AddOf(c, id, node)
        BY <4>1 DEF Follows, AddOf
      <4>3. next = found \o Tail(todo)
        BY <2>0, <4>1
      <4>4. next = found
        BY <4>1, <4>2, <4>3, NothingMore DEF AddOf
      <4>5. QED
        BY <1>1, <1>3, <2>3, <3>3, <4>4, ParentRead
    <3>4. QED
      BY <3>1, <3>2, <3>3
  <2>4. QED
    BY <2>1, <2>2, <2>3
<1>4. QED
  BY <1>2, <1>3 DEF Read

\* Graph.AddNode of a goroutine that adds no sub-interface.
LEMMA OtherAddsNode ==
  ASSUME IndInv, NEW t \in Goroutines, Add(t), First(t).do = "AddNode",
         running[t].call.op \notin {"SetLabels", "AddChildInterface"}
  PROVE  IndInv'
<1> DEFINE c    == running[t].call
           rest == Tail(running[t].todo)
           x    == First(t)
<1>1. TodoInv /\ GraphInv /\ LabelsInv /\ running[t].todo # << >>
  BY DEF IndInv, Add
<1>2. Safe(c, x) /\ IsTodo(c, rest) /\ c \in Calls
  BY <1>1, OtherFirst, Running
<1>3. /\ x.id[1] \in DOMAIN ClassOf /\ IsNode(x.id, x.node) /\ HasNamedID(x.id, x.node) /\ ~IsChildID(x.id)
      /\ x.node.class = "ConnectionPoint" => Attaches(c, x.id) /\ x.node.labels = NoLabels
      /\ Harmless(x.undo)
  BY <1>2 DEF Safe
<1>4. /\ g' = NewNode(Ok(g), x.id, x.node).graph /\ UNCHANGED overlaps
      /\ IF NewNode(Ok(g), x.id, x.node).ok THEN GoesOn(t, rest) ELSE Fails(t, x.undo)
      /\ asked' = IF NewNode(Ok(g), x.id, x.node).ok /\ x.id \in DOMAIN asked
                  THEN [asked EXCEPT ![x.id] = x.node.labels] ELSE asked
  BY DEF Add
<1>5. CASE x.id \in Ids(g)
  <2>1. g' = g /\ asked' = asked /\ Fails(t, x.undo)
    BY <1>4, <1>5, NothingAdded
  <2>2. IsTodo(c, DeleteAll(x.undo))
    BY <1>3, DeleteAllIsSafe
  <2>3. QED
    BY <1>1, <1>4, <2>1, <2>2, OtherQuietStep DEF Fails, GoesOn
<1>6. CASE x.id \notin Ids(g)
  <2>1. /\ Ids(g') = Ids(g) \cup {x.id} /\ g'.edges = g.edges
        /\ g'.nodes[x.id] = x.node /\ \A n \in Ids(g) : g'.nodes[n] = g.nodes[n]
    BY <1>1, <1>4, <1>6, NodeAdded
  <2>2. GraphInv'
    BY <1>1, <1>3, <1>4, <1>6, AddNodeKeeps
  <2>3. GoesOn(t, rest) /\ asked' = IF x.id \in DOMAIN asked THEN [asked EXCEPT ![x.id] = x.node.labels] ELSE asked
    BY <1>4, <1>6, NothingAdded
  <2>4. asked = [i \in Ports(Start) |-> asked[i]]
    BY <1>1 DEF LabelsInv
  <2>5. /\ asked' = [i \in Ports(Start) |-> asked'[i]]
        /\ \A i \in Ports(Start) : asked'[i] = IF i = x.id THEN x.node.labels ELSE asked[i]
    BY <2>3, <2>4
  <2>6. x.id \in Ports(Start) => Attaches(c, x.id) /\ x.node.labels = NoLabels
    <3>1. x.id \in Ports(Start) => Kind(x.id) = "ConnectionPoint"
      BY KindOfStart DEF Ports, OfClass
    <3>2. QED
      BY <1>3, <3>1 DEF IsNode
  <2>7. \A i \in Ports(Start) :
          \/ asked'[i] = asked[i] /\ (i \in Ids(g') => i \in Ids(g))
          \/ i \notin Ids(g) /\ LabelsOf(g', i) = NoLabels /\ asked'[i] = NoLabels /\ Attaches(c, i)
    BY <1>6, <2>1, <2>5, <2>6 DEF LabelsOf
  <2>8. QED
    BY <1>1, <1>2, <1>4, <2>1, <2>2, <2>3, <2>5, <2>7, OtherStep
<1>7. QED
  BY <1>5, <1>6

\* Graph.AddEdge of one.
LEMMA OtherAddsEdge ==
  ASSUME IndInv, NEW t \in Goroutines, Add(t), First(t).do = "AddEdge",
         running[t].call.op \notin {"SetLabels", "AddChildInterface"}
  PROVE  IndInv'
<1> DEFINE c    == running[t].call
           rest == Tail(running[t].todo)
           x    == First(t)
           e    == [class |-> "connects", source |-> x.source, target |-> x.target]
<1>1. TodoInv /\ GraphInv /\ LabelsInv /\ running[t].todo # << >>
  BY DEF IndInv, Add
<1>2. Safe(c, x) /\ IsTodo(c, rest) /\ c \in Calls
  BY <1>1, OtherFirst, Running
<1>3. /\ ~IsChildID(x.target) /\ (Kind(x.source) = "NetworkService" \/ Kind(x.target) = "Link")
      /\ Harmless(x.undo)
  BY <1>2 DEF Safe
<1>4. /\ g' = NewEdge(Ok(g), "connects", x.source, x.target).graph /\ UNCHANGED <<overlaps, asked>>
      /\ IF NewEdge(Ok(g), "connects", x.source, x.target).ok THEN GoesOn(t, rest) ELSE Fails(t, x.undo)
  BY DEF Add
<1>5. CASE ~({x.source, x.target} \subseteq Ids(g))
  <2>1. g' = g /\ Fails(t, x.undo)
    BY <1>4, <1>5, NothingAdded
  <2>2. IsTodo(c, DeleteAll(x.undo))
    BY <1>3, DeleteAllIsSafe
  <2>3. QED
    BY <1>1, <1>4, <2>1, <2>2, OtherQuietStep DEF Fails, GoesOn
<1>6. CASE {x.source, x.target} \subseteq Ids(g)
  <2>1. x.source \in Ids(g) /\ x.target \in Ids(g) /\ GoesOn(t, rest)
    BY <1>4, <1>6, NothingAdded
  <2>2. g'.nodes = g.nodes /\ Ids(g') = Ids(g) /\ g'.edges = g.edges \cup {e}
    BY <1>1, <1>4, <2>1, EdgeAdded
  <2>3. GraphInv'
    BY <1>1, <1>3, <1>4, <2>1, AddEdgeKeeps
  <2>4. \A f \in g'.edges : f \in g.edges \/ Kind(f.source) # "ConnectionPoint" \/ Kind(f.target) # "ConnectionPoint"
    BY <1>3, <2>2
  <2>5. asked' = [i \in Ports(Start) |-> asked'[i]]
    BY <1>1, <1>4 DEF LabelsInv
  <2>6. QED
    BY <1>1, <1>2, <1>4, <2>1, <2>2, <2>3, <2>4, <2>5, OtherStep
<1>7. QED
  BY <1>5, <1>6

\* Graph.AddNode and Graph.AddEdge of AddChildInterface.
LEMMA ChildAdds ==
  ASSUME IndInv, NEW t \in Goroutines, Add(t), running[t].call.op = "AddChildInterface"
  PROVE  IndInv'
<1> DEFINE c    == running[t].call
           todo == running[t].todo
           x    == First(t)
<1>1. TodoInv /\ GraphInv /\ MadeInv /\ LabelsInv /\ todo # << >>
  BY DEF IndInv, Add
<1>2. IsChildTodo(c, todo)
  BY <1>1, Running DEF Fits
<1>3. CASE x.do = "AddNode"
  <2>1. PICK id, node : /\ IsChildID(id) /\ todo = AddOf(c, id, node)
                        /\ IsNode(id, node) /\ node.labels["VLAN"] = c.vlan
    BY <1>1, <1>2, <1>3, ChildForms DEF First
  <2>2. x = AddNodeCall(id, node, << >>) /\ Tail(todo) = JoinOf(c, id)
    BY <2>1 DEF First, AddOf, JoinOf
  <2>3. x.id = id /\ x.node = node /\ x.undo = << >>
    BY <2>2 DEF AddNodeCall
  <2>4. /\ g' = NewNode(Ok(g), id, node).graph /\ UNCHANGED overlaps
        /\ IF NewNode(Ok(g), id, node).ok THEN GoesOn(t, JoinOf(c, id)) ELSE Fails(t, << >>)
        /\ asked' = IF NewNode(Ok(g), id, node).ok /\ id \in DOMAIN asked
                    THEN [asked EXCEPT ![id] = node.labels] ELSE asked
    BY <1>3, <2>2, <2>3 DEF Add
  <2>5. CASE id \in Ids(g)
    <3>1. g' = g /\ asked' = asked /\ Fails(t, << >>)
      BY <2>4, <2>5, NothingAdded
    <3>2. QED
      BY <1>1, <2>4, <3>1, Deletions, EndStep DEF Fails, GoesOn
  <2>6. CASE id \notin Ids(g)
    <3>1. id \notin Ids(Start)
      BY <1>1, <2>1, <2>6 DEF GraphInv
    <3>2. DOMAIN asked = Ports(Start) /\ id \notin Ports(Start)
      BY <1>1, <3>1 DEF LabelsInv, Ports, OfClass
    <3>3. asked' = asked /\ GoesOn(t, JoinOf(c, id))
      BY <2>4, <2>6, <3>2, NothingAdded
    <3>4. QED
      BY <2>1, <2>4, <2>6, <3>3, ChildAdded
  <2>7. QED
    BY <2>5, <2>6
<1>4. CASE x.do = "AddEdge"
  <2>1. PICK id : todo = JoinOf(c, id)
    BY <1>1, <1>2, <1>4, ChildForms DEF First
  <2>2. x = AddEdgeCall(c.interface, id, <<id>>) /\ Tail(todo) = << >>
    BY <2>1 DEF First, JoinOf
  <2>3. x.source = c.interface /\ x.target = id /\ x.undo = <<id>>
    BY <2>2 DEF AddEdgeCall
  <2>4. /\ g' = NewEdge(Ok(g), "connects", c.interface, id).graph /\ UNCHANGED <<overlaps, asked>>
        /\ IF NewEdge(Ok(g), "connects", c.interface, id).ok THEN GoesOn(t, << >>) ELSE Fails(t, <<id>>)
    BY <1>4, <2>2, <2>3 DEF Add
  <2>5. CASE {c.interface, id} \subseteq Ids(g)
    <3>1. GoesOn(t, << >>) /\ c.interface \in Ids(g) /\ id \in Ids(g)
      BY <2>4, <2>5, NothingAdded
    <3>2. QED
      BY <2>1, <2>4, <3>1, ChildJoined
  <2>6. CASE ~({c.interface, id} \subseteq Ids(g))
    <3>1. g' = g /\ GoesOn(t, RemoveOf(id))
      BY <2>4, <2>6, NothingAdded, Deletions DEF Fails, GoesOn
    <3>2. Turned(t, c, RemoveOf(id)) /\ c \in Calls /\ c.op # "none"
      BY <1>1, <3>1, GoesOnTurns, Running
    <3>3. Makes(t, id) /\ IsChildID(id)
      BY <1>1, <2>1 DEF Makes, MadeInv
    <3>4. Fits(c, RemoveOf(id))
      BY <3>3 DEF Fits, IsChildTodo
    <3>5. ~Checked(c, RemoveOf(id))
      BY DEF Checked, RemoveOf, DeleteNodeCall
    <3>6. \A k : /\ RemoveOf(id) \in {JoinOf(c, k), RemoveOf(k)} => k = id
                 /\ RemoveOf(id) # JoinOf(c, k)
      BY FormsDiffer
    <3>7. QED
      BY <2>4, <3>1, <3>2, <3>3, <3>4, <3>5, <3>6, QuietStep
  <2>7. QED
    BY <2>5, <2>6
<1>5. QED
  BY <1>3, <1>4 DEF Add

\* Graph calls that add.
LEMMA AddKeeps ==
  ASSUME IndInv, NEW t \in Goroutines, Add(t)
  PROVE  IndInv'
<1>1. TodoInv /\ running[t].todo # << >> /\ First(t).do \in {"AddNode", "AddEdge"}
  BY DEF IndInv, Add
<1>2. running[t].call.op # "SetLabels"
  <2>1. running[t].call.op = "SetLabels" => First(t).do \in {"ReadLabels", "UpdateNode"}
    BY <1>1, Running, LabelsForms DEF Fits, First
  <2>2. QED
    BY <1>1, <2>1
<1>3. QED
  BY <1>1, <1>2, OtherAddsNode, OtherAddsEdge, ChildAdds

\* Graph.DeleteNode.
LEMMA DeleteNodeKeeps ==
  ASSUME IndInv, NEW t \in Goroutines, DeleteNode(t)
  PROVE  IndInv'
<1> DEFINE c    == running[t].call
           todo == running[t].todo
           x    == First(t)
<1>1. TodoInv /\ GraphInv /\ LabelsInv /\ todo # << >> /\ x.do = "DeleteNode"
  BY DEF IndInv, DeleteNode
<1>2. g' = Delete(g, {x.id}) /\ GoesOn(t, Tail(todo)) /\ UNCHANGED <<overlaps, asked>>
  BY DEF DeleteNode
<1>3. CASE c.op \notin {"SetLabels", "AddChildInterface"}
  <2>1. Safe(c, x) /\ IsTodo(c, Tail(todo))
    BY <1>1, <1>3, OtherFirst
  <2>2. Deletable(x.id)
    BY <1>1, <2>1 DEF Safe
  <2>3. GraphInv'
    BY <1>1, <1>2, <2>2, DeleteKeeps DEF Deletable
  <2>4. /\ Ids(g') = Ids(g) \ {x.id} /\ \A n \in Ids(g') : g'.nodes[n] = g.nodes[n]
        /\ g'.edges = {e \in g.edges : e.source # x.id /\ e.target # x.id}
    BY <1>2, NodeDeleted
  <2>5. asked' = [i \in Ports(Start) |-> asked'[i]]
    BY <1>1, <1>2 DEF LabelsInv
  <2>6. QED
    BY <1>1, <1>2, <1>3, <2>1, <2>2, <2>3, <2>4, <2>5, OtherStep
<1>4. CASE c.op = "AddChildInterface"
  <2>1. PICK id : todo = RemoveOf(id)
    BY <1>1, <1>4, Running, ChildForms DEF Fits, First
  <2>2. x.id = id /\ Tail(todo) = << >>
    BY <2>1 DEF First, RemoveOf, DeleteNodeCall
  <2>3. QED
    BY <1>2, <1>4, <2>1, <2>2, ChildRemoved
<1>5. c.op # "SetLabels"
  <2>1. c.op = "SetLabels" => x.do \in {"ReadLabels", "UpdateNode"}
    BY <1>1, Running, LabelsForms DEF Fits, First
  <2>2. QED
    BY <1>1, <2>1
<1>6. QED
  BY <1>3, <1>4, <1>5

\* Graph.UpdateNode.
LEMMA UpdateNodeKeeps ==
  ASSUME IndInv, NEW t \in Goroutines, UpdateNode(t)
  PROVE  IndInv'
<1> DEFINE c    == running[t].call
           todo == running[t].todo
           x    == First(t)
           i    == c.interface
<1>1. TodoInv /\ todo # << >> /\ x.do = "UpdateNode"
  BY DEF IndInv, UpdateNode
<1>2. c.op = "SetLabels"
  <2>1. c.op \notin {"SetLabels", "AddChildInterface"} => Safe(c, x)
    BY <1>1, OtherFirst
  <2>2. c.op = "AddChildInterface" => x.do \in {"CheckVLAN", "ReadParent", "AddNode", "AddEdge", "DeleteNode"}
    BY <1>1, Running, ChildForms DEF Fits, First
  <2>3. QED
    BY <1>1, <2>1, <2>2 DEF Safe
<1>3. PICK node : IsNode(i, node) /\ todo = UpdateOf(c, node)
  BY <1>1, <1>2, Running, LabelsForms DEF Fits, First
<1>4. x.id = i /\ x.node = node /\ Tail(todo) = << >>
  BY <1>3 DEF First, UpdateOf
<1>5. CASE i \in Ids(g)
  <2>1. /\ g' = [g EXCEPT !.nodes[i] = node] /\ GoesOn(t, << >>) /\ UNCHANGED overlaps
        /\ asked' = [asked EXCEPT ![i] = [l \in LabelNames |-> IF c.labels[l] = "" THEN @[l] ELSE c.labels[l]]]
    BY <1>4, <1>5 DEF UpdateNode
  <2>2. [l \in LabelNames |-> IF c.labels[l] = "" THEN asked[i][l] ELSE c.labels[l]] = MergeLabels(asked[i], c.labels)
    BY DEF MergeLabels
  <2>3. asked' = [asked EXCEPT ![i] = MergeLabels(asked[i], c.labels)]
    BY <2>1, <2>2
  <2>4. QED
    BY <1>2, <1>3, <1>5, <2>1, <2>3, LabelsUpdated
<1>6. CASE i \notin Ids(g)
  BY <1>1, <1>4, <1>6, Deletions, EndStep DEF UpdateNode, Fails, GoesOn
<1>7. QED
  BY <1>5, <1>6

\* A call ends.
LEMMA ReturnKeeps ==
  ASSUME IndInv, NEW t \in Goroutines, Return(t)
  PROVE  IndInv'
<1> DEFINE none == [op |-> "none"]
<1>1. TodoInv
  BY DEF IndInv
<1>2. Turned(t, none, << >>)
  BY <1>1, BeginsTurns DEF Return, NoCall
<1>3. Fits(none, << >>) /\ ~Checked(none, << >>)
  BY TodoNone DEF Fits, Checked
<1>4. UNCHANGED <<g, overlaps, asked>> /\ none.op = "none"
  BY DEF Return
<1> HIDE DEF none
<1>5. QED
  BY <1>2, <1>3, <1>4, QuietStep

\* One step per action.
LEMMA NextInv == IndInv /\ [Next]_vars => IndInv'
<1> SUFFICES ASSUME IndInv, [Next]_vars PROVE IndInv'
  OBVIOUS
<1>1. CASE UNCHANGED vars
  <2>1. GraphInv' /\ TodoInv'
    BY <1>1 DEF vars, IndInv, GraphInv, TodoInv, Idle, Ids, Incoming
  <2>2. OverlapsInv' /\ MadeInv'
    BY <1>1 DEF vars, IndInv, OverlapsInv, MadeInv, Idle, Makes, Ids
  <2>3. LabelsInv' /\ (NoLocalNames => LocalNamesInv')
    BY <1>1 DEF vars, IndInv, LabelsInv, LocalNamesInv, SetTogether, Overlapped, LabelsOf, Ids
  <2>4. ASSUME \A c \in Calls : ~SetsLabelsOfChild(c) PROVE VLANsInv'
    <3>1. g' = g /\ running' = running /\ VLANsInv
      BY <1>1, <2>4 DEF vars, IndInv
    <3>2. \A i : AddedTogether(i)' <=> AddedTogether(i)
      BY <1>1 DEF vars, AddedTogether, Overlapped
    <3>3. \A t \in Goroutines : \A id : Makes(t, id)' <=> Makes(t, id)
      BY <3>1 DEF Makes
    <3>4. QED
      BY <3>1, <3>2, <3>3 DEF VLANsInv
  <2>5. QED
    BY <2>1, <2>2, <2>3, <2>4 DEF IndInv
<1>2. QED
  BY <1>1, CallKeeps, ReadKeeps, AddKeeps, DeleteNodeKeeps, UpdateNodeKeeps, ReturnKeeps DEF Next

\* The slice at the start has been built with derived IDs, its ports carry
\* labels and its sub-interfaces differ.
LEMMA InitInv == Init => IndInv
<1> SUFFICES ASSUME Init PROVE IndInv
  OBVIOUS
<1>1. g = Start /\ asked = [i \in Ports(Start) |-> LabelsOf(Start, i)]
  BY DEF Init
<1>2. /\ running = [t \in Goroutines |-> running[t]]
      /\ \A t \in Goroutines : running[t].call = [op |-> "none"] /\ running[t].todo = << >>
      /\ \A t \in Goroutines : running[t] = [call |-> running[t].call, todo |-> running[t].todo]
      /\ \A t \in Goroutines : running[t].call.op = "none"
  BY DEF Init, NoCall
<1>3. GraphInv
  <2>1. ASSUME NEW n \in Ids(Start)
        PROVE  /\ IsNode(n, Start.nodes[n])
               /\ HasNamedID(n, Start.nodes[n]) \/ Incoming(Start, n, "has") # {}
    <3>1. TypeOf(Start, n) = Start.nodes[n].type /\ Start.nodes[n].class = Kind(n)
      BY KindOfStart DEF TypeOf
    <3>2. Kind(n) = "ConnectionPoint" => n \in Ports(Start)
      BY <3>1 DEF Ports, OfClass
    <3>3. IsChildID(n) => Start.nodes[n].type = "SubInterface"
      BY <3>1, <3>2, ChildrenArePorts, PortsAssumption
    <3>4. Start.nodes[n].class = "ConnectionPoint" => "labels" \in DOMAIN Start.nodes[n]
      BY <3>1, <3>2, PortsAssumption
    <3>5. ServiceName(n) = Start.nodes[n].name
      BY DEF ServiceName, NameOf
    <3>6. QED
      BY <3>1, <3>3, <3>4, <3>5, StartAssumption DEF IsNode, IsChild, HasNamedID
  <2>2. ASSUME NEW e \in Start.edges
        PROVE  /\ e.source \in Ids(Start) /\ e.target \in Ids(Start)
               /\ e.class = "has" => e.source \in OwnersAtStart
               /\ e.class = "connects" /\ Kind(e.source) = "NetworkService" => ~IsChildID(e.target)
    <3>1. e.source \in Ids(Start) /\ e.target \in Ids(Start)
      BY StartAssumption
    <3>2. Kind(e.source) = "NetworkService" => e.source \in Services(Start)
      BY <3>1, KindOfStart DEF Services, OfClass
    <3>3. e.class = "connects" => e.target \in Outgoing(Start, e.source, "connects")
      BY DEF Outgoing
    <3>4. QED
      BY <3>1, <3>2, <3>3, PortsAssumption DEF OwnersAtStart
  <2>3. OwnersAtStart \subseteq Ids(Start)
    BY OwnersAreNodes
  <2>4. QED
    BY <1>1, <2>1, <2>2, <2>3, StartAssumption DEF GraphInv
<1>4. TodoInv
  <2>1. \A c : c.op = "none" => Fits(c, << >>)
    BY TodoNone DEF Fits
  <2>2. QED
    BY <1>2, <2>1 DEF TodoInv, Idle
<1>5. OverlapsInv /\ MadeInv
  BY <1>2 DEF OverlapsInv, MadeInv, Makes, Idle
<1>6. LabelsInv
  BY <1>1, <1>2 DEF LabelsInv
<1>7. VLANsInv
  <2>1. \A i \in Ports(Start) : ChildrenDiffer(Start, i)
    BY PortsAssumption DEF ChildrenDiffer, LabelsOf
  <2>2. \A t \in Goroutines : ~Checked(running[t].call, running[t].todo) /\ \A id : ~Makes(t, id)
    BY <1>2 DEF Checked, Makes
  <2>3. QED
    BY <1>1, <2>1, <2>2 DEF VLANsInv
<1>8. LocalNamesInv
  BY <1>1, <1>2 DEF LocalNamesInv
<1>9. QED
  BY <1>3, <1>4, <1>5, <1>6, <1>7, <1>8 DEF IndInv

\* All that goroutines have to do, and what they know of each other, is as IndInv
\* says, whatever they do.
LEMMA Invariance == Spec => []IndInv
BY InitInv, NextInv, PTL DEF Spec

-----------------------------------------------------------------------------
(* The theorems.                                                           *)

\* Two goroutines that find a name free cannot both take it, for any number of
\* goroutines and of calls, and whatever is removed meanwhile.
THEOREM NamesUnique == Spec => []NamesStayUnique
<1>1. IndInv => NamesStayUnique
  <2> SUFFICES ASSUME IndInv, NEW class \in {"NetworkNode", "NetworkService"},
                      NEW n \in OfClass(g, class), NEW m \in OfClass(g, class),
                      Incoming(g, n, "has") = {}, Incoming(g, m, "has") = {}, NameOf(g, n) = NameOf(g, m)
               PROVE  n = m
    BY DEF NamesStayUnique
  <2>1. \A k \in {n, m} : k = TopLevelID(class, NameOf(g, k))
    BY DEF IndInv, GraphInv, HasNamedID, OfClass, NameOf, TopLevel
  <2>2. QED
    BY <2>1
<1>2. QED
  BY <1>1, Invariance, PTL

\* What SetLabels has set stays set, unless another call sets labels on that port
\* or adds that port in the meantime; the local name that a port was generated
\* with stays in any case.
THEOREM LabelsStaySet == Spec => []LabelsLostOnlyByOverlap
<1>1. IndInv => LabelsLostOnlyByOverlap
  <2> SUFFICES ASSUME IndInv PROVE LabelsLostOnlyByOverlap
    OBVIOUS
  <2>1. LabelsInv /\ (NoLocalNames => LocalNamesInv) /\ DOMAIN asked = Ports(Start)
    BY DEF IndInv, LabelsInv
  <2>2. QED
    BY <2>1 DEF LabelsLostOnlyByOverlap, LabelsInv, LocalNamesInv, NoLocalNames
<1>2. QED
  BY <1>1, Invariance, PTL

\* The check that a VLAN is free and the addition of the sub-interface are apart;
\* only additions to the same port that overlap make two sub-interfaces of one
\* VLAN, or labels that are set on a sub-interface.
THEOREM VLANsStayApart == Spec => []VLANsClashOnlyByOverlap
<1>1. IndInv => VLANsClashOnlyByOverlap
  BY DEF IndInv, VLANsClashOnlyByOverlap, VLANsInv, ChildrenDiffer
<1>2. QED
  BY <1>1, Invariance, PTL

=============================================================================
