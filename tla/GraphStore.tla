----------------------------- MODULE GraphStore -----------------------------
(***************************************************************************)
(* internal/graph: the mutex-protected property graph every topology is    *)
(* stored in, and the readers (graphml.Write, diff.NormalizeGraph) that    *)
(* take its nodes and its edges under two separate locks.                  *)
(*                                                                         *)
(* Every exported method of Graph holds g.mu from its first read of the    *)
(* graph to its return, so each is one action here.  A reader is two       *)
(* actions, Nodes() and Edges(), and any mutation may come between them.   *)
(*                                                                         *)
(* The graph keeps three structures that have to agree: the map `nodes`,   *)
(* the insertion order `order` and the edge list `edges`.                  *)
(***************************************************************************)
EXTENDS Integers, Sequences, FiniteSets

CONSTANTS
  NodeIDs,      \* the node IDs callers use
  NodeClasses,  \* classes of nodes
  EdgeClasses,  \* classes of edges
  Data,         \* the rest of a property map
  NoClass,      \* the empty class
  Readers,      \* concurrent calls of graphml.Write or diff.NormalizeGraph
  MaxEdges      \* bound on the edge list (the code has none)

ASSUME NoClassAssumption == NoClass \notin NodeClasses
ASSUME MaxEdgesAssumption == MaxEdges \in Nat

VARIABLES
  nodes,   \* g.nodes: node ID -> class and properties
  order,   \* g.order: node IDs in insertion order
  edges,   \* g.edges: directed edges in insertion order, repetition allowed
  reader   \* what each reader has copied so far

graph == <<nodes, order, edges>>
vars  == <<nodes, order, edges, reader>>

-----------------------------------------------------------------------------
\* A property map: the entry "Class", possibly empty, and everything else.
Props == [class : NodeClasses \cup {NoClass}, data : Data]
Node  == [class : NodeClasses, props : Props]
Edge  == [class : EdgeClasses, source : NodeIDs, target : NodeIDs]

\* Faulty variants (see README, "Mutants").
LateIncident(e, n)     == e.source = n
SkipLastIncident(e, n) == e.target = n
WithoutFirst(s, i)     == Tail(s)
SwapRemove(s, i) ==
  [j \in 1..(Len(s) - 1) |-> IF j = i THEN s[Len(s)] ELSE s[j]]

Incident(e, n) == e.source = n \/ e.target = n

\* The sequence s without its i-th element: append(s[:i], s[i+1:]...).
Without(s, i) == [j \in 1..(Len(s) - 1) |-> IF j < i THEN s[j] ELSE s[j + 1]]

\* The subsequence of s of the elements in S: the in-place filter loop, which
\* keeps the list it has built after i iterations.
Kept(s, S) ==
  LET kept[i \in 0..Len(s)] ==
        IF i = 0 THEN << >>
        ELSE IF s[i] \in S THEN Append(kept[i - 1], s[i]) ELSE kept[i - 1]
  IN  kept[Len(s)]

First(s, x) == CHOOSE i \in DOMAIN s : s[i] = x /\ \A j \in DOMAIN s : s[j] = x => i <= j

-----------------------------------------------------------------------------
(* Mutations.  An error return leaves the graph as it was: it is a step    *)
(* that changes nothing and needs no action.                               *)

AddNode(n, class, props) ==
  /\ class # NoClass
  /\ n \notin DOMAIN nodes
  /\ nodes' = [m \in DOMAIN nodes \cup {n} |->
                 IF m = n THEN [class |-> class, props |-> props] ELSE nodes[m]]
  /\ order' = Append(order, n)
  /\ UNCHANGED <<edges, reader>>

AddEdge(e) ==
  /\ e.source \in DOMAIN nodes
  /\ e.target \in DOMAIN nodes
  /\ Len(edges) < MaxEdges
  /\ edges' = Append(edges, e)
  /\ UNCHANGED <<nodes, order, reader>>

\* Faulty variant: an empty class is taken over.
UpdateNodeBlindly(n, props) ==
  /\ n \in DOMAIN nodes
  /\ nodes' = [nodes EXCEPT ![n] = [class |-> props.class, props |-> props]]
  /\ UNCHANGED <<order, edges, reader>>

UpdateNode(n, props) ==
  /\ n \in DOMAIN nodes
  /\ nodes' = [nodes EXCEPT ![n] =
                 [class |-> IF props.class # NoClass THEN props.class ELSE @.class,
                  props |-> props]]
  /\ UNCHANGED <<order, edges, reader>>

\* Deleting a node that does not exist changes nothing.
DeleteNode(n) ==
  /\ n \in DOMAIN nodes
  /\ nodes' = [m \in DOMAIN nodes \ {n} |-> nodes[m]]
  /\ order' = Without(order, First(order, n))
  /\ edges' = Kept(edges, {e \in Edge : ~Incident(e, n)})
  /\ UNCHANGED reader

DeleteEdge(e) ==
  /\ \E i \in DOMAIN edges : edges[i] = e
  /\ edges' = Without(edges, First(edges, e))
  /\ UNCHANGED <<nodes, order, reader>>

-----------------------------------------------------------------------------
(* A reader: Nodes(), then Edges(), then the loop that resolves both ends  *)
(* of every edge among the copied nodes and fails when one is missing.  Of *)
(* the copied nodes only the IDs matter to it.                             *)

Idle == [phase |-> "idle", ids |-> << >>]

Resolvable(ids, list) ==
  \A i \in DOMAIN list :
    /\ \E k \in DOMAIN ids : ids[k] = list[i].source
    /\ \E k \in DOMAIN ids : ids[k] = list[i].target

ReadNodes(r) ==
  /\ reader[r].phase = "idle"
  /\ reader' = [reader EXCEPT ![r] = [phase |-> "nodes", ids |-> order]]
  /\ UNCHANGED graph

ReadEdges(r) ==
  /\ reader[r].phase = "nodes"
  /\ LET ok == Resolvable(reader[r].ids, edges)
     IN  reader' = [reader EXCEPT ![r] = [phase |-> IF ok THEN "written" ELSE "failed", ids |-> << >>]]
  /\ UNCHANGED graph

Return(r) ==
  /\ reader[r].phase \in {"written", "failed"}
  /\ reader' = [reader EXCEPT ![r] = Idle]
  /\ UNCHANGED graph

-----------------------------------------------------------------------------
Init ==
  /\ nodes = [n \in {} |-> n]
  /\ order = << >>
  /\ edges = << >>
  /\ reader = [r \in Readers |-> Idle]

Mutate ==
  \/ \E n \in NodeIDs, c \in NodeClasses \cup {NoClass}, p \in Props : AddNode(n, c, p)
  \/ \E e \in Edge : AddEdge(e)
  \/ \E n \in NodeIDs, p \in Props : UpdateNode(n, p)
  \/ \E n \in NodeIDs : DeleteNode(n)
  \/ \E e \in Edge : DeleteEdge(e)

Next == Mutate \/ \E r \in Readers : ReadNodes(r) \/ ReadEdges(r) \/ Return(r)

Spec == Init /\ [][Next]_vars

-----------------------------------------------------------------------------
(* Properties.                                                             *)

\* The variables range over the code's types; DOMAIN nodes is the key set of
\* the Go map.
TypeOK ==
  /\ DOMAIN nodes \subseteq NodeIDs
  /\ nodes \in [DOMAIN nodes -> Node]
  /\ order \in Seq(NodeIDs)
  /\ edges \in Seq(Edge)
  /\ DOMAIN reader = Readers
  /\ \A r \in Readers :
       /\ reader[r].phase \in {"idle", "nodes", "written", "failed"}
       /\ reader[r].ids \in Seq(NodeIDs)

\* The insertion order lists every node of the map exactly once and nothing
\* else.  AddNode and DeleteNode change the two structures separately; if they
\* drifted apart, Nodes() would lose a node or list one twice (graph.go:60,109).
OrderListsNodes ==
  /\ \A n \in DOMAIN nodes : \E i \in DOMAIN order : order[i] = n
  /\ \A i \in DOMAIN order : order[i] \in DOMAIN nodes
  /\ \A i, j \in DOMAIN order : order[i] = order[j] => i = j

\* Both ends of every edge exist, whatever was deleted and added again in
\* between: the filter of DeleteNode leaves no incident edge behind
\* (graph.go:116).
NoDanglingEdge ==
  \A i \in DOMAIN edges : edges[i].source \in DOMAIN nodes /\ edges[i].target \in DOMAIN nodes

\* Serialization of the graph fails on a missing endpoint only if another call
\* changed the nodes between the two copies: on a quiescent graph Write and
\* NormalizeGraph always succeed (writer.go:49, normalize.go:75).
FailureMeansInterference ==
  [][\A r \in Readers :
       ReadEdges(r) /\ reader'[r].phase = "failed" => reader[r].ids # order]_vars

Precedes(s, a, b) ==
  \E i, j \in DOMAIN s : i < j /\ s[i] = a /\ s[j] = b

\* "Nodes returns graph nodes in insertion order": no call reorders the nodes
\* that survive it, and a node added later comes after all of them
\* (graph.go:161).
InsertionOrderIsStable ==
  [][\A a, b \in DOMAIN nodes' :
       /\ {a, b} \subseteq DOMAIN nodes => (Precedes(order', a, b) <=> Precedes(order, a, b))
       /\ a \in DOMAIN nodes /\ b \notin DOMAIN nodes => Precedes(order', a, b)]_vars

-----------------------------------------------------------------------------
\* The contract: a map of nodes and a bag of edges between them.
Copies(e) == {i \in DOMAIN edges : edges[i] = e}

Contract == INSTANCE GraphContract
  WITH content <- nodes, copies <- [e \in Edge |-> Cardinality(Copies(e))]

\* The three structures behave as the one map and one bag a caller sees.
ImplementsContract == Contract!Spec

=============================================================================
