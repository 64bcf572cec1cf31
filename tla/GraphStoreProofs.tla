-------------------------- MODULE GraphStoreProofs --------------------------
(***************************************************************************)
(* Proofs about GraphStore for any set of node IDs, classes, readers and   *)
(* any bound on the edge list.                                             *)
(***************************************************************************)
EXTENDS GraphStore, SetInduction, SequenceTheorems

-----------------------------------------------------------------------------
(* Sequences.                                                              *)

\* kept[n] is the list after n iterations of the filter loop.
Filters(kept, s, S) ==
  /\ kept[0] = << >>
  /\ \A n \in 1..Len(s) :
       kept[n] = IF s[n] \in S THEN Append(kept[n - 1], s[n]) ELSE kept[n - 1]
  /\ Kept(s, S) = kept[Len(s)]

\* The filter loop, iteration by iteration: the list after n iterations exists,
\* by induction on n, and holds elements of s that are in S.
LEMMA KeptUnfolds ==
  ASSUME NEW E, NEW s \in Seq(E), NEW S
  PROVE  \E kept \in [0..Len(s) -> Seq(E \cap S)] : Filters(kept, s, S)
<1> DEFINE F == Seq(E \cap S)
           Step(f, i) == IF i = 0 THEN << >>
                         ELSE IF s[i] \in S THEN Append(f[i - 1], s[i]) ELSE f[i - 1]
           Good(f, n) == f \in [0..n -> F] /\ \A i \in 0..n : f[i] = Step(f, i)
           T == {n \in Nat : n <= Len(s) => \E f : Good(f, n)}
           kept == CHOOSE f : f = [i \in 0..Len(s) |-> Step(f, i)]
<1>1. 0 \in T
  <2> DEFINE f == [i \in 0..0 |-> << >>]
  <2>1. Good(f, 0)
    OBVIOUS
  <2>2. QED
    BY <2>1
<1>2. ASSUME NEW n \in Nat, n \in T PROVE n + 1 \in T
  <2> SUFFICES ASSUME n + 1 <= Len(s) PROVE \E f : Good(f, n + 1)
    OBVIOUS
  <2>1. PICK f : Good(f, n)
    BY <1>2
  <2> DEFINE g == [i \in 0..(n + 1) |-> IF i = n + 1 THEN Step(f, n + 1) ELSE f[i]]
  <2>2. s[n + 1] \in E
    BY ElementOfSeq
  <2>3. f[n] \in F
    BY <2>1
  <2>4. Step(f, n + 1) \in F
    BY <2>2, <2>3, AppendProperties
  <2>5. g \in [0..(n + 1) -> F]
    BY <2>1, <2>4
  <2>6. ASSUME NEW i \in 0..(n + 1) PROVE g[i] = Step(g, i)
    <3>1. CASE i = n + 1
      <4>1. g[n] = f[n]
        OBVIOUS
      <4>2. QED
        BY <3>1, <4>1
    <3>2. CASE i \in 1..n
      <4>1. g[i] = f[i] /\ g[i - 1] = f[i - 1]
        BY <3>2
      <4>2. f[i] = Step(f, i)
        <5>1. i \in 0..n
          BY <3>2
        <5> HIDE DEF F, Step
        <5>2. QED
          BY <2>1, <5>1
      <4>3. QED
        BY <4>1, <4>2, <3>2
    <3>3. CASE i = 0
      <4>1. g[0] = f[0] /\ f[0] = << >>
        BY <2>1
      <4>2. QED
        BY <3>3, <4>1
    <3>4. QED
      BY <3>1, <3>2, <3>3
  <2>7. QED
    BY <2>5, <2>6
<1>3. \E f : Good(f, Len(s))
  <2>1. \A n \in Nat : n \in T
    <3> HIDE DEF T
    <3> QED BY <1>1, <1>2, NatSetInduction
  <2>2. Len(s) \in Nat
    BY LenProperties
  <2>3. Len(s) \in T
    BY <2>1, <2>2
  <2>4. QED
    BY <2>2, <2>3
<1>4. \E f : f = [i \in 0..Len(s) |-> Step(f, i)]
  BY <1>3
<1>5. kept = [i \in 0..Len(s) |-> Step(kept, i)]
  BY <1>4
<1> DEFINE U == {n \in Nat : n <= Len(s) => kept[n] \in F}
<1> HIDE DEF kept
<1>6. 0 \in U
  BY <1>5, LenProperties
<1>7. ASSUME NEW n \in Nat, n \in U PROVE n + 1 \in U
  <2> SUFFICES ASSUME n + 1 <= Len(s) PROVE kept[n + 1] \in F
    OBVIOUS
  <2>1. kept[n] \in F
    BY <1>7, LenProperties
  <2>2. kept[n + 1] = Step(kept, n + 1)
    <3>1. n + 1 \in 0..Len(s)
      BY LenProperties
    <3> HIDE DEF Step
    <3>2. QED
      BY <1>5, <3>1
  <2>3. s[n + 1] \in E
    BY ElementOfSeq
  <2>4. QED
    BY <2>1, <2>2, <2>3, AppendProperties
<1>8. \A n \in 0..Len(s) : kept[n] \in F
  <2>1. \A n \in Nat : n \in U
    <3> HIDE DEF U
    <3> QED BY <1>6, <1>7, NatSetInduction
  <2>2. QED
    BY <2>1, LenProperties
<1>9. Kept(s, S) = kept[Len(s)]
  BY DEF Kept, kept
<1>10. kept \in [0..Len(s) -> F]
  BY <1>5, <1>8
<1>11. kept[0] = << >>
  BY <1>5, LenProperties
<1>12. ASSUME NEW n \in 1..Len(s) PROVE kept[n] = Step(kept, n)
  <2>1. n \in 0..Len(s)
    BY LenProperties
  <2> HIDE DEF Step
  <2>2. QED
    BY <1>5, <2>1
<1>13. \A n \in 1..Len(s) : kept[n] = IF s[n] \in S THEN Append(kept[n - 1], s[n]) ELSE kept[n - 1]
  BY <1>12, LenProperties
<1>14. QED
  BY <1>9, <1>10, <1>11, <1>13 DEF Filters

\* The filter loop keeps what is in S, in order, and nothing else.
LEMMA KeptIsFiltered ==
  ASSUME NEW E, NEW s \in Seq(E), NEW S
  PROVE  Kept(s, S) \in Seq(E \cap S)
<1>1. PICK kept \in [0..Len(s) -> Seq(E \cap S)] : Filters(kept, s, S)
  BY KeptUnfolds
<1>2. Len(s) \in 0..Len(s)
  BY LenProperties
<1>3. QED
  BY <1>1, <1>2 DEF Filters

\* First finds an occurrence, and the earliest one.
LEMMA FirstIsFirst ==
  ASSUME NEW E, NEW s \in Seq(E), NEW x, \E i \in DOMAIN s : s[i] = x
  PROVE  /\ First(s, x) \in 1..Len(s)
         /\ s[First(s, x)] = x
         /\ \A j \in DOMAIN s : s[j] = x => First(s, x) <= j
<1> DEFINE Found == {i \in DOMAIN s : s[i] = x}
<1>1. DOMAIN s = 1..Len(s) /\ Len(s) \in Nat
  BY LenProperties
<1>2. PICK i \in Found : \A j \in Found : ~(<<j, i>> \in OpToRel(<, Nat))
  <2>1. IsWellFoundedOn(OpToRel(<, Nat), Nat)
    BY NatLessThanWellFounded
  <2>2. Found \subseteq Nat /\ Found # {}
    BY <1>1
  <2> HIDE DEF Found
  <2>3. QED
    BY <2>1, <2>2, WFMin
<1>3. i \in DOMAIN s /\ s[i] = x /\ \A j \in DOMAIN s : s[j] = x => i <= j
  <2>1. i \in Nat /\ i \in DOMAIN s /\ s[i] = x
    BY <1>1
  <2>2. ASSUME NEW j \in DOMAIN s, s[j] = x PROVE i <= j
    <3>1. j \in Nat /\ j \in Found
      BY <1>1, <2>2
    <3>2. <<j, i>> \in OpToRel(<, Nat) <=> j < i
      BY <2>1, <3>1 DEF OpToRel
    <3>3. ~(<<j, i>> \in OpToRel(<, Nat))
      BY <1>2, <3>1
    <3>4. ~(j < i)
      BY <3>2, <3>3
    <3>5. QED
      BY <2>1, <3>1, <3>4
  <2>3. QED
    BY <2>1, <2>2
<1>4. QED
  BY <1>1, <1>3 DEF First

\* What Without returns: a sequence one shorter whose elements are those of s
\* at the other positions, in the same order.
LEMMA WithoutShifts ==
  ASSUME NEW E, NEW s \in Seq(E), NEW k \in 1..Len(s)
  PROVE  /\ Without(s, k) \in Seq(E)
         /\ DOMAIN Without(s, k) = 1..(Len(s) - 1)
         /\ \A j \in 1..(Len(s) - 1) :
              Without(s, k)[j] = IF j < k THEN s[j] ELSE s[j + 1]
<1>1. Len(s) - 1 \in Nat
  BY LenProperties
<1>2. \A j \in 1..(Len(s) - 1) : s[j] \in E /\ s[j + 1] \in E
  BY ElementOfSeq, LenProperties
<1>3. Without(s, k) \in [1..(Len(s) - 1) -> E]
  BY <1>2, LenProperties DEF Without
<1>4. Without(s, k) \in Seq(E)
  BY <1>1, <1>3, SeqDef
<1>5. QED
  BY <1>3, <1>4 DEF Without

-----------------------------------------------------------------------------
(* Type correctness.                                                       *)

\* The empty store is well typed.
LEMMA InitTypeOK == Init => TypeOK
<1> SUFFICES ASSUME Init PROVE TypeOK
  OBVIOUS
<1>1. order \in Seq(NodeIDs) /\ edges \in Seq(Edge)
  BY EmptySeq DEF Init
<1>2. << >> \in Seq(NodeIDs)
  BY EmptySeq
<1>3. QED
  BY <1>1, <1>2 DEF Init, TypeOK, Idle

\* Each mutation keeps the three structures well typed.
LEMMA MutateTypeOK ==
  ASSUME TypeOK, OrderListsNodes, Mutate
  PROVE  TypeOK'
<1> USE DEF TypeOK
<1>1. ASSUME NEW n \in NodeIDs, NEW c \in NodeClasses \cup {NoClass}, NEW p \in Props,
             AddNode(n, c, p)
      PROVE  TypeOK'
  <2>1. order' \in Seq(NodeIDs)
    BY <1>1, AppendProperties DEF AddNode
  <2>2. [class |-> c, props |-> p] \in Node
    BY <1>1 DEF AddNode, Node
  <2>3. DOMAIN nodes' \subseteq NodeIDs /\ nodes' \in [DOMAIN nodes' -> Node]
    BY <1>1, <2>2 DEF AddNode
  <2>4. QED
    BY <1>1, <2>1, <2>3 DEF AddNode
<1>2. ASSUME NEW e \in Edge, AddEdge(e) PROVE TypeOK'
  BY <1>2, AppendProperties DEF AddEdge
<1>3. ASSUME NEW n \in NodeIDs, NEW p \in Props, UpdateNode(n, p) PROVE TypeOK'
  <2>1. [class |-> IF p.class # NoClass THEN p.class ELSE nodes[n].class, props |-> p] \in Node
    BY <1>3 DEF UpdateNode, Node, Props
  <2>2. QED
    BY <1>3, <2>1 DEF UpdateNode
<1>4. ASSUME NEW n \in NodeIDs, DeleteNode(n) PROVE TypeOK'
  <2>1. order' \in Seq(NodeIDs)
    BY <1>4, FirstIsFirst, WithoutShifts DEF DeleteNode, OrderListsNodes
  <2>2. edges' \in Seq(Edge)
    <3>1. edges' \in Seq(Edge \cap {e \in Edge : ~Incident(e, n)})
      BY <1>4, KeptIsFiltered DEF DeleteNode
    <3>2. QED
      BY <3>1, SeqMonotonic
  <2>3. QED
    BY <1>4, <2>1, <2>2 DEF DeleteNode
<1>5. ASSUME NEW e \in Edge, DeleteEdge(e) PROVE TypeOK'
  <2>1. edges' \in Seq(Edge)
    BY <1>5, FirstIsFirst, WithoutShifts DEF DeleteEdge
  <2>2. QED
    BY <1>5, <2>1 DEF DeleteEdge
<1>6. QED
  BY <1>1, <1>2, <1>3, <1>4, <1>5 DEF Mutate


\* A reader's step changes its own record only.
LEMMA ReadTypeOK ==
  ASSUME TypeOK, OrderListsNodes,
         NEW r \in Readers, ReadNodes(r) \/ ReadEdges(r) \/ Return(r)
  PROVE  TypeOK'
<1>1. << >> \in Seq(NodeIDs)
  BY EmptySeq
<1>2. UNCHANGED graph
  BY DEF ReadNodes, ReadEdges, Return
<1>3. CASE ReadNodes(r)
  BY <1>2, <1>3 DEF TypeOK, ReadNodes, graph
<1>4. CASE ReadEdges(r)
  BY <1>1, <1>2, <1>4 DEF TypeOK, ReadEdges, graph
<1>5. CASE Return(r)
  BY <1>1, <1>2, <1>5 DEF TypeOK, Return, Idle, graph
<1>6. QED
  BY <1>3, <1>4, <1>5

-----------------------------------------------------------------------------
(* The insertion order and the edge list follow the map.                   *)

\* Every mutation keeps the order a list of the nodes.
LEMMA MutateOrder ==
  ASSUME TypeOK, OrderListsNodes, Mutate
  PROVE  OrderListsNodes'
<1> USE DEF OrderListsNodes
<1>0. Len(order) \in Nat /\ DOMAIN order = 1..Len(order)
  BY LenProperties DEF TypeOK
<1>1. ASSUME NEW n \in NodeIDs, NEW c \in NodeClasses \cup {NoClass}, NEW p \in Props,
             AddNode(n, c, p)
      PROVE  OrderListsNodes'
  <2>1. /\ DOMAIN order' = 1..(Len(order) + 1)
        /\ order'[Len(order) + 1] = n
        /\ \A i \in 1..Len(order) : order'[i] = order[i]
    BY <1>1, AppendProperties DEF AddNode, TypeOK
  <2>2. DOMAIN nodes' = DOMAIN nodes \cup {n} /\ n \notin DOMAIN nodes
    BY <1>1 DEF AddNode
  <2>3. \A i \in DOMAIN order' : i \in DOMAIN order \/ i = Len(order) + 1
    BY <1>0, <2>1
  <2>4. QED
    BY <1>0, <2>1, <2>2, <2>3
<1>2. ASSUME NEW e \in Edge, AddEdge(e) \/ DeleteEdge(e) PROVE OrderListsNodes'
  BY <1>2 DEF AddEdge, DeleteEdge
<1>3. ASSUME NEW n \in NodeIDs, NEW p \in Props, UpdateNode(n, p) PROVE OrderListsNodes'
  BY <1>3 DEF UpdateNode, TypeOK
<1>4. ASSUME NEW n \in NodeIDs, DeleteNode(n) PROVE OrderListsNodes'
  <2> DEFINE k == First(order, n)
  <2>1. k \in 1..Len(order) /\ order[k] = n
    BY <1>4, FirstIsFirst DEF DeleteNode, TypeOK
  <2>2. /\ DOMAIN order' = 1..(Len(order) - 1)
        /\ \A j \in 1..(Len(order) - 1) : order'[j] = IF j < k THEN order[j] ELSE order[j + 1]
    BY <1>4, <2>1, WithoutShifts DEF DeleteNode, TypeOK
  <2>3. DOMAIN nodes' = DOMAIN nodes \ {n}
    BY <1>4 DEF DeleteNode
  <2> HIDE DEF k
  <2>4. ASSUME NEW m \in DOMAIN nodes' PROVE \E j \in DOMAIN order' : order'[j] = m
    <3>1. PICK i \in 1..Len(order) : order[i] = m
      BY <1>0, <2>3
    <3>2. i # k
      BY <2>1, <2>3, <3>1
    <3>3. CASE i < k
      BY <1>0, <2>1, <2>2, <3>1, <3>3
    <3>4. CASE i > k
      <4>1. i - 1 \in 1..(Len(order) - 1) /\ ~(i - 1 < k) /\ (i - 1) + 1 = i
        BY <1>0, <2>1, <3>4
      <4>2. QED
        BY <2>2, <3>1, <4>1
    <3>5. QED
      BY <1>0, <2>1, <3>2, <3>3, <3>4
  <2>5. ASSUME NEW j \in DOMAIN order'
        PROVE  \E i \in 1..Len(order) : /\ i # k
                                        /\ i = (IF j < k THEN j ELSE j + 1)
                                        /\ order'[j] = order[i]
    BY <1>0, <2>1, <2>2
  <2>6. \A j \in DOMAIN order' : order'[j] \in DOMAIN nodes'
    BY <1>0, <2>1, <2>3, <2>5
  <2>7. \A i, j \in DOMAIN order' : order'[i] = order'[j] => i = j
    BY <1>0, <2>1, <2>2, <2>5
  <2>8. QED
    BY <2>4, <2>6, <2>7
<1>5. QED
  BY <1>1, <1>2, <1>3, <1>4 DEF Mutate

\* Every mutation keeps the ends of edges.
LEMMA MutateEdges ==
  ASSUME TypeOK, NoDanglingEdge, Mutate
  PROVE  NoDanglingEdge'
<1> USE DEF NoDanglingEdge
<1>0. Len(edges) \in Nat /\ DOMAIN edges = 1..Len(edges)
  BY LenProperties DEF TypeOK
<1>1. ASSUME NEW n \in NodeIDs, NEW c \in NodeClasses \cup {NoClass}, NEW p \in Props,
             AddNode(n, c, p)
      PROVE  NoDanglingEdge'
  BY <1>1 DEF AddNode
<1>2. ASSUME NEW e \in Edge, AddEdge(e) PROVE NoDanglingEdge'
  <2>1. /\ DOMAIN edges' = 1..(Len(edges) + 1)
        /\ edges'[Len(edges) + 1] = e
        /\ \A i \in 1..Len(edges) : edges'[i] = edges[i]
    BY <1>2, AppendProperties DEF AddEdge, TypeOK
  <2>2. \A i \in DOMAIN edges' : i \in DOMAIN edges \/ i = Len(edges) + 1
    BY <1>0, <2>1
  <2>3. QED
    BY <1>0, <1>2, <2>1, <2>2 DEF AddEdge
<1>3. ASSUME NEW n \in NodeIDs, NEW p \in Props, UpdateNode(n, p) PROVE NoDanglingEdge'
  BY <1>3 DEF UpdateNode, TypeOK
<1>4. ASSUME NEW n \in NodeIDs, DeleteNode(n) PROVE NoDanglingEdge'
  <2> DEFINE Attached == {e \in Edge : {e.source, e.target} \subseteq DOMAIN nodes}
             Others == {e \in Edge : ~Incident(e, n)}
  <2>1. edges \in Seq(Attached)
    <3>1. edges \in [1..Len(edges) -> Attached]
      BY <1>0, LenProperties DEF TypeOK
    <3>2. QED
      BY <1>0, <3>1, SeqDef
  <2>2. edges' \in Seq(Attached \cap Others)
    BY <1>4, <2>1, KeptIsFiltered DEF DeleteNode
  <2>3. DOMAIN edges' = 1..Len(edges')
    BY <2>2, LenProperties
  <2>4. \A i \in DOMAIN edges' : edges'[i] \in Attached \cap Others
    BY <2>2, <2>3, ElementOfSeq
  <2>5. DOMAIN nodes' = DOMAIN nodes \ {n}
    BY <1>4 DEF DeleteNode
  <2>6. QED
    BY <2>4, <2>5 DEF Incident
<1>5. ASSUME NEW e \in Edge, DeleteEdge(e) PROVE NoDanglingEdge'
  <2> DEFINE k == First(edges, e)
  <2>1. k \in 1..Len(edges)
    BY <1>5, FirstIsFirst DEF DeleteEdge, TypeOK
  <2>2. /\ DOMAIN edges' = 1..(Len(edges) - 1)
        /\ \A j \in 1..(Len(edges) - 1) : edges'[j] = IF j < k THEN edges[j] ELSE edges[j + 1]
    BY <1>5, <2>1, WithoutShifts DEF DeleteEdge, TypeOK
  <2> HIDE DEF k
  <2>3. \A j \in 1..(Len(edges) - 1) : j \in DOMAIN edges /\ j + 1 \in DOMAIN edges
    BY <1>0
  <2>4. QED
    BY <1>5, <2>2, <2>3 DEF DeleteEdge
<1>6. QED
  BY <1>1, <1>2, <1>3, <1>4, <1>5 DEF Mutate

-----------------------------------------------------------------------------
(* The inductive invariant: DeleteNode finds the node in the insertion     *)
(* order only because the order lists every node, so type correctness and  *)
(* OrderListsNodes are proved together.                                    *)

IndInv == TypeOK /\ OrderListsNodes /\ NoDanglingEdge

\* Types, order and edges together are inductive.
LEMMA InductiveInvariant == Spec => []IndInv
<1>1. Init => IndInv
  BY InitTypeOK DEF Init, IndInv, OrderListsNodes, NoDanglingEdge
<1>2. IndInv /\ [Next]_vars => IndInv'
  <2> SUFFICES ASSUME IndInv, [Next]_vars PROVE IndInv'
    OBVIOUS
  <2>1. CASE Mutate
    BY <2>1, MutateTypeOK, MutateOrder, MutateEdges DEF IndInv
  <2>2. ASSUME NEW r \in Readers, ReadNodes(r) \/ ReadEdges(r) \/ Return(r)
        PROVE  IndInv'
    <3>1. UNCHANGED graph
      BY <2>2 DEF ReadNodes, ReadEdges, Return
    <3>2. TypeOK'
      BY <2>2, ReadTypeOK DEF IndInv
    <3>3. QED
      BY <3>1, <3>2 DEF IndInv, OrderListsNodes, NoDanglingEdge, graph
  <2>3. CASE UNCHANGED vars
    BY <2>3 DEF vars, IndInv, TypeOK, OrderListsNodes, NoDanglingEdge
  <2>4. QED
    BY <2>1, <2>2, <2>3 DEF Next
<1>3. QED
  BY <1>1, <1>2, PTL DEF Spec

\* Type correctness of the store, for any number of nodes and edges.
THEOREM TypeCorrect == Spec => []TypeOK
<1>1. IndInv => TypeOK
  BY DEF IndInv
<1>2. QED
  BY <1>1, InductiveInvariant, PTL

\* The insertion order always lists each node of the map exactly once.
THEOREM OrderCorrect == Spec => []OrderListsNodes
<1>1. IndInv => OrderListsNodes
  BY DEF IndInv
<1>2. QED
  BY <1>1, InductiveInvariant, PTL

\* No sequence of calls leaves an edge without one of its ends.
THEOREM EdgesAttached == Spec => []NoDanglingEdge
<1>1. IndInv => NoDanglingEdge
  BY DEF IndInv
<1>2. QED
  BY <1>1, InductiveInvariant, PTL

\* Write and NormalizeGraph fail on a missing endpoint only when the nodes
\* changed between the two copies.
THEOREM FailuresExplained == Spec => FailureMeansInterference
<1>1. ASSUME IndInv, NEW r \in Readers, ReadEdges(r), reader[r].ids = order
      PROVE  reader'[r].phase # "failed"
  <2>1. Resolvable(order, edges)
    BY <1>1 DEF IndInv, OrderListsNodes, NoDanglingEdge, Resolvable
  <2>2. QED
    BY <1>1, <2>1 DEF ReadEdges, IndInv, TypeOK
<1>2. IndInv => \A r \in Readers : ReadEdges(r) /\ reader'[r].phase = "failed" => reader[r].ids # order
  BY <1>1
<1>3. QED
  BY <1>2, InductiveInvariant, PTL DEF FailureMeansInterference

\* Precedes in a list that is made longer at its end.
LEMMA PrecedesAppend ==
  ASSUME NEW E, NEW s \in Seq(E), NEW x \in E, NEW a, NEW b, b # x
  PROVE  Precedes(Append(s, x), a, b) <=> Precedes(s, a, b)
<1>1. /\ Len(s) \in Nat /\ DOMAIN s = 1..Len(s)
      /\ DOMAIN Append(s, x) = 1..(Len(s) + 1)
      /\ Append(s, x)[Len(s) + 1] = x
      /\ \A i \in 1..Len(s) : Append(s, x)[i] = s[i]
  BY LenProperties, AppendProperties
<1>2. ASSUME Precedes(s, a, b) PROVE Precedes(Append(s, x), a, b)
  BY <1>1, <1>2 DEF Precedes
<1>3. ASSUME Precedes(Append(s, x), a, b) PROVE Precedes(s, a, b)
  <2>1. PICK i, j \in 1..(Len(s) + 1) : i < j /\ Append(s, x)[i] = a /\ Append(s, x)[j] = b
    BY <1>1, <1>3 DEF Precedes
  <2>2. j # Len(s) + 1
    BY <1>1, <2>1
  <2>3. i \in 1..Len(s) /\ j \in 1..Len(s)
    BY <1>1, <2>1, <2>2
  <2>4. QED
    BY <1>1, <2>1, <2>3 DEF Precedes
<1>4. QED
  BY <1>2, <1>3

\* Precedes in a list without one of its elements, of elements that are not it.
LEMMA PrecedesWithout ==
  ASSUME NEW E, NEW s \in Seq(E), NEW k \in 1..Len(s), NEW a, NEW b, a # s[k], b # s[k]
  PROVE  Precedes(Without(s, k), a, b) <=> Precedes(s, a, b)
<1> DEFINE w == Without(s, k)
           old(j) == IF j < k THEN j ELSE j + 1
           new(i) == IF i < k THEN i ELSE i - 1
<1>1. /\ Len(s) \in Nat /\ DOMAIN s = 1..Len(s) /\ k \in Nat
      /\ DOMAIN w = 1..(Len(s) - 1)
      /\ \A j \in 1..(Len(s) - 1) : w[j] = IF j < k THEN s[j] ELSE s[j + 1]
  BY LenProperties, WithoutShifts
<1> HIDE DEF w
<1>2. ASSUME Precedes(w, a, b) PROVE Precedes(s, a, b)
  <2>1. PICK i, j \in 1..(Len(s) - 1) : i < j /\ w[i] = a /\ w[j] = b
    BY <1>1, <1>2 DEF Precedes
  <2>2. old(i) \in 1..Len(s) /\ old(j) \in 1..Len(s) /\ old(i) < old(j)
    BY <1>1, <2>1
  <2>3. s[old(i)] = a /\ s[old(j)] = b
    BY <1>1, <2>1
  <2>4. QED
    BY <1>1, <2>2, <2>3 DEF Precedes
<1>3. ASSUME Precedes(s, a, b) PROVE Precedes(w, a, b)
  <2>1. PICK i, j \in 1..Len(s) : i < j /\ s[i] = a /\ s[j] = b
    BY <1>1, <1>3 DEF Precedes
  <2>2. i # k /\ j # k
    BY <2>1
  <2>3. new(i) \in 1..(Len(s) - 1) /\ new(j) \in 1..(Len(s) - 1) /\ new(i) < new(j)
    BY <1>1, <2>1, <2>2
  <2>4. w[new(i)] = a
    BY <1>1, <2>1, <2>2, <2>3
  <2>5. w[new(j)] = b
    BY <1>1, <2>1, <2>2, <2>3
  <2>6. QED
    BY <1>1, <2>3, <2>4, <2>5 DEF Precedes
<1>4. QED
  BY <1>2, <1>3 DEF w

\* "Nodes returns graph nodes in insertion order", after any sequence of calls.
THEOREM OrderIsStable == Spec => InsertionOrderIsStable
<1> DEFINE Stable(a, b) ==
             /\ {a, b} \subseteq DOMAIN nodes => (Precedes(order', a, b) <=> Precedes(order, a, b))
             /\ a \in DOMAIN nodes /\ b \notin DOMAIN nodes => Precedes(order', a, b)
<1>1. ASSUME IndInv, [Next]_vars, NEW a \in DOMAIN nodes', NEW b \in DOMAIN nodes'
      PROVE  Stable(a, b)
  <2> USE <1>1 DEF IndInv
  <2>1. ASSUME NEW n \in NodeIDs, NEW c \in NodeClasses \cup {NoClass}, NEW p \in Props,
               AddNode(n, c, p)
        PROVE  Stable(a, b)
    <3>1. order' = Append(order, n) /\ n \notin DOMAIN nodes /\ DOMAIN nodes' = DOMAIN nodes \cup {n}
      BY <2>1 DEF AddNode
    <3>2. CASE b # n
      <4>1. Precedes(order', a, b) <=> Precedes(order, a, b)
        BY <3>1, <3>2, PrecedesAppend DEF TypeOK
      <4>2. QED
        BY <3>1, <3>2, <4>1
    <3>3. CASE b = n
      <4>1. SUFFICES ASSUME a \in DOMAIN nodes PROVE Precedes(order', a, b)
        BY <3>1, <3>3
      <4>2. PICK i \in 1..Len(order) : order[i] = a
        <5>1. DOMAIN order = 1..Len(order)
          BY LenProperties DEF TypeOK
        <5>2. QED
          BY <4>1, <5>1 DEF OrderListsNodes
      <4>3. Len(order) \in Nat /\ DOMAIN order' = 1..(Len(order) + 1) /\ order'[Len(order) + 1] = n /\ order'[i] = order[i]
        BY <3>1, AppendProperties, LenProperties DEF TypeOK
      <4>4. i \in DOMAIN order' /\ Len(order) + 1 \in DOMAIN order' /\ i < Len(order) + 1
        BY <4>2, <4>3
      <4>5. QED
        BY <3>3, <4>2, <4>3, <4>4 DEF Precedes
    <3>4. QED
      BY <3>2, <3>3
  <2>2. ASSUME NEW n \in NodeIDs, DeleteNode(n) PROVE Stable(a, b)
    <3>1. order' = Without(order, First(order, n)) /\ DOMAIN nodes' = DOMAIN nodes \ {n} /\ n \in DOMAIN nodes
      BY <2>2 DEF DeleteNode
    <3>2. First(order, n) \in 1..Len(order) /\ order[First(order, n)] = n
      BY <3>1, FirstIsFirst DEF TypeOK, OrderListsNodes
    <3>3. QED
      BY <3>1, <3>2, PrecedesWithout DEF TypeOK
  <2>3. ASSUME NEW n \in NodeIDs, NEW p \in Props, UpdateNode(n, p) PROVE Stable(a, b)
    BY <2>3 DEF UpdateNode
  <2>4. ASSUME NEW e \in Edge, AddEdge(e) \/ DeleteEdge(e) PROVE Stable(a, b)
    BY <2>4 DEF AddEdge, DeleteEdge
  <2>5. ASSUME NEW r \in Readers, ReadNodes(r) \/ ReadEdges(r) \/ Return(r) PROVE Stable(a, b)
    BY <2>5 DEF ReadNodes, ReadEdges, Return, graph
  <2>6. CASE UNCHANGED vars
    BY <2>6 DEF vars
  <2>7. QED
    BY <2>1, <2>2, <2>3, <2>4, <2>5, <2>6 DEF Next, Mutate
<1>2. IndInv /\ [Next]_vars =>
        \A a, b \in DOMAIN nodes' : Stable(a, b)
  BY <1>1
<1>3. QED
  BY <1>2, InductiveInvariant, PTL DEF Spec, InsertionOrderIsStable

-----------------------------------------------------------------------------
(***************************************************************************)
(* GraphStore implements GraphContract: the map, the insertion order and   *)
(* the edge list behave as one map of nodes and one bag of edges.  Most of *)
(* the work is to count: how often an edge is in the list after an append, *)
(* after the first occurrence of one is taken out, and after the filter.   *)
(***************************************************************************)
(* Counting in a sequence.                                                 *)

Positions(s, x) == {i \in DOMAIN s : s[i] = x}
Count(s, x)     == Cardinality(Positions(s, x))

\* An edge is in finitely many places of a list.
LEMMA PositionsFinite ==
  ASSUME NEW E, NEW s \in Seq(E), NEW x
  PROVE  /\ IsFiniteSet(Positions(s, x)) /\ Count(s, x) \in Nat
         /\ Count(s, x) = 0 <=> \A i \in DOMAIN s : s[i] # x
<1>1. DOMAIN s = 1..Len(s) /\ Len(s) \in Nat
  BY LenProperties
<1>2. IsFiniteSet(DOMAIN s)
  BY <1>1, FS_Interval
<1>3. IsFiniteSet(Positions(s, x))
  BY <1>2, FS_Subset DEF Positions
<1>4. Count(s, x) \in Nat /\ (Count(s, x) = 0 <=> Positions(s, x) = {})
  BY <1>3, FS_CardinalityType, FS_EmptySet DEF Count
<1>5. QED
  BY <1>3, <1>4 DEF Positions

\* Appending an edge adds one to its count and to no other.
LEMMA CountAppend ==
  ASSUME NEW E, NEW s \in Seq(E), NEW y \in E, NEW x
  PROVE  Count(Append(s, y), x) = Count(s, x) + (IF x = y THEN 1 ELSE 0)
<1>1. /\ Len(s) \in Nat /\ DOMAIN s = 1..Len(s)
      /\ DOMAIN Append(s, y) = 1..(Len(s) + 1)
      /\ Append(s, y)[Len(s) + 1] = y
      /\ \A i \in 1..Len(s) : Append(s, y)[i] = s[i]
  BY LenProperties, AppendProperties
<1>2. DOMAIN Append(s, y) = DOMAIN s \cup {Len(s) + 1} /\ Len(s) + 1 \notin DOMAIN s
  BY <1>1
<1>3. IsFiniteSet(Positions(s, x)) /\ Count(s, x) \in Nat
  BY PositionsFinite
<1>4. CASE x = y
  <2>1. Positions(Append(s, y), x) = Positions(s, x) \cup {Len(s) + 1}
    BY <1>1, <1>2, <1>4 DEF Positions
  <2>2. Len(s) + 1 \notin Positions(s, x)
    BY <1>2 DEF Positions
  <2>3. QED
    BY <1>3, <1>4, <2>1, <2>2, FS_AddElement DEF Count
<1>5. CASE x # y
  <2>1. Positions(Append(s, y), x) = Positions(s, x)
    BY <1>1, <1>2, <1>5 DEF Positions
  <2>2. QED
    BY <1>3, <1>5, <2>1 DEF Count
<1>6. QED
  BY <1>4, <1>5

\* The positions after the k-th element is taken out are the other positions,
\* those behind it shifted by one.
LEMMA CountWithout ==
  ASSUME NEW E, NEW s \in Seq(E), NEW k \in 1..Len(s), NEW x
  PROVE  Count(Without(s, k), x) = Count(s, x) - (IF x = s[k] THEN 1 ELSE 0)
<1> DEFINE w == Without(s, k)
           rest == Positions(s, x) \ {k}
           shift == [i \in rest |-> IF i < k THEN i ELSE i - 1]
<1>1. /\ Len(s) \in Nat /\ DOMAIN s = 1..Len(s) /\ k \in Nat
      /\ DOMAIN w = 1..(Len(s) - 1)
      /\ \A j \in 1..(Len(s) - 1) : w[j] = IF j < k THEN s[j] ELSE s[j + 1]
  <2>1. Len(s) \in Nat /\ DOMAIN s = 1..Len(s) /\ k \in Nat
    BY LenProperties
  <2>2. QED
    BY <2>1, WithoutShifts
<1> HIDE DEF w
<1>2. shift \in Bijection(rest, Positions(w, x))
  <2>1. \A i \in rest : i \in 1..Len(s) /\ i # k /\ s[i] = x
    BY <1>1 DEF Positions
  <2>2. ASSUME NEW i \in rest PROVE shift[i] \in Positions(w, x)
    <3>1. shift[i] \in 1..(Len(s) - 1) /\ w[shift[i]] = s[i]
      BY <1>1, <2>1
    <3>2. QED
      BY <1>1, <2>1, <3>1 DEF Positions
  <2>3. \A i, j \in rest : shift[i] = shift[j] => i = j
    BY <1>1, <2>1
  <2>4. ASSUME NEW j \in Positions(w, x) PROVE \E i \in rest : shift[i] = j
    <3>1. j \in 1..(Len(s) - 1) /\ w[j] = x
      BY <1>1 DEF Positions
    <3>2. CASE j < k
      <4>1. j \in rest
        BY <1>1, <3>1, <3>2 DEF Positions
      <4>2. QED
        BY <3>2, <4>1
    <3>3. CASE ~(j < k)
      <4>1. j + 1 \in rest
        BY <1>1, <3>1, <3>3 DEF Positions
      <4>2. shift[j + 1] = j
        BY <1>1, <3>1, <3>3, <4>1
      <4>3. QED
        BY <4>1, <4>2
    <3>4. QED
      BY <3>2, <3>3
  <2>5. shift \in [rest -> Positions(w, x)]
    BY <2>2
  <2> HIDE DEF shift, rest
  <2>6. shift \in Injection(rest, Positions(w, x))
    BY <2>3, <2>5 DEF Injection, IsInjective
  <2>7. shift \in Surjection(rest, Positions(w, x))
    BY <2>4, <2>5 DEF Surjection
  <2>8. QED
    BY <2>6, <2>7 DEF Bijection
<1> HIDE DEF shift
<1>3. IsFiniteSet(Positions(s, x)) /\ Count(s, x) \in Nat
  BY PositionsFinite
<1>4. IsFiniteSet(rest) /\ Cardinality(rest) = IF k \in Positions(s, x) THEN Count(s, x) - 1 ELSE Count(s, x)
  BY <1>3, FS_RemoveElement DEF Count
<1>5. Cardinality(Positions(w, x)) = Cardinality(rest)
  BY <1>2, <1>4, FS_Bijection DEF ExistsBijection
<1>6. k \in Positions(s, x) <=> x = s[k]
  BY <1>1 DEF Positions
<1>7. QED
  BY <1>3, <1>4, <1>5, <1>6 DEF Count, w

\* The filter keeps every copy of what is in S and drops every other, by
\* induction over its iterations.
LEMMA CountKept ==
  ASSUME NEW E, NEW s \in Seq(E), NEW S, NEW x
  PROVE  Count(Kept(s, S), x) = IF x \in S THEN Count(s, x) ELSE 0
<1>0. Len(s) \in Nat /\ DOMAIN s = 1..Len(s) /\ \A i \in 1..Len(s) : s[i] \in E
  BY LenProperties, ElementOfSeq
<1>1. PICK kept \in [0..Len(s) -> Seq(E \cap S)] : Filters(kept, s, S)
  BY KeptUnfolds
<1>2. CASE x \notin S
  <2>1. Kept(s, S) \in Seq(E \cap S)
    BY KeptIsFiltered
  <2>2. \A i \in DOMAIN Kept(s, S) : Kept(s, S)[i] # x
    BY <1>2, <2>1, ElementOfSeq, LenProperties
  <2>3. QED
    BY <1>2, <2>1, <2>2, PositionsFinite
<1>3. CASE x \in S
  <2> DEFINE Seen(n) == {i \in 1..n : s[i] = x}
             T == {n \in Nat : n <= Len(s) => Count(kept[n], x) = Cardinality(Seen(n))}
  <2>1. 0 \in T
    <3>1. Positions(<< >>, x) = {} /\ Seen(0) = {}
      BY DEF Positions
    <3>2. QED
      BY <1>1, <3>1 DEF Count, Filters
  <2>2. ASSUME NEW n \in Nat, n \in T PROVE n + 1 \in T
    <3> SUFFICES ASSUME n + 1 <= Len(s) PROVE Count(kept[n + 1], x) = Cardinality(Seen(n + 1))
      OBVIOUS
    <3>1. Count(kept[n], x) = Cardinality(Seen(n)) /\ kept[n] \in Seq(E \cap S) /\ n + 1 \in 1..Len(s)
      BY <1>0, <1>1, <2>2
    <3>2. kept[n + 1] = IF s[n + 1] \in S THEN Append(kept[n], s[n + 1]) ELSE kept[n]
      BY <1>1, <3>1 DEF Filters
    <3>3. IsFiniteSet(Seen(n)) /\ Cardinality(Seen(n)) \in Nat
      <4>1. IsFiniteSet(1..n) /\ Seen(n) \in SUBSET (1..n)
        <5>1. 1 \in Int /\ n \in Int
          OBVIOUS
        <5>2. QED
          BY <5>1, FS_Interval
      <4>2. QED
        BY <4>1, FS_Subset, FS_CardinalityType
    <3>4. CASE s[n + 1] = x
      <4>1. Seen(n + 1) = Seen(n) \cup {n + 1} /\ n + 1 \notin Seen(n)
        BY <3>4
      <4>2. Cardinality(Seen(n + 1)) = Cardinality(Seen(n)) + 1
        BY <3>3, <4>1, FS_AddElement
      <4>3. kept[n + 1] = Append(kept[n], x) /\ x \in E \cap S
        BY <1>0, <1>3, <3>1, <3>2, <3>4
      <4>4. Count(kept[n + 1], x) = Count(kept[n], x) + 1
        BY <3>1, <4>3, CountAppend
      <4>5. QED
        BY <3>1, <4>2, <4>4
    <3>5. CASE s[n + 1] # x
      <4>1. Seen(n + 1) = Seen(n)
        BY <3>5
      <4>2. Count(kept[n + 1], x) = Count(kept[n], x)
        <5>1. CASE s[n + 1] \in S
          <6>1. s[n + 1] \in E \cap S
            BY <1>0, <3>1, <5>1
          <6>2. Count(Append(kept[n], s[n + 1]), x) = Count(kept[n], x) + 0
            BY <3>1, <3>5, <6>1, CountAppend
          <6>3. QED
            BY <3>1, <3>2, <3>3, <5>1, <6>2
        <5>2. QED
          BY <3>2, <5>1
      <4>3. QED
        BY <3>1, <4>1, <4>2
    <3>6. QED
      BY <3>4, <3>5
  <2>3. \A n \in Nat : n \in T
    <3> HIDE DEF T
    <3> QED BY <2>1, <2>2, NatSetInduction
  <2>4. Count(kept[Len(s)], x) = Cardinality(Seen(Len(s)))
    BY <1>0, <2>3
  <2>5. Seen(Len(s)) = Positions(s, x)
    BY <1>0 DEF Positions
  <2>6. QED
    BY <1>1, <1>3, <2>4, <2>5 DEF Count, Filters
<1>4. QED
  BY <1>2, <1>3

-----------------------------------------------------------------------------
(* The refinement: each mutation is the operation of the contract with the *)
(* same name, a reader's step is none.                                     *)

Bag == [e \in Edge |-> Cardinality(Copies(e))]

\* The bag of a list, by counting.
LEMMA BagCounts ==
  /\ \A e : Cardinality(Copies(e)) = Count(edges, e)
  /\ (\A e : Cardinality(Copies(e)) = Count(edges, e))'
  /\ Bag = [e \in Edge |-> Count(edges, e)] /\ Bag' = [e \in Edge |-> Count(edges', e)]
  BY DEF Bag, Copies, Count, Positions

\* Each mutation of the lists is one of the map and the bag.
LEMMA AddImplements ==
  ASSUME IndInv, NEW n \in NodeIDs, NEW c \in NodeClasses \cup {NoClass}, NEW p \in Props,
         AddNode(n, c, p)
  PROVE  Contract!Add(n, c, p) /\ c \in NodeClasses
<1>1. UNCHANGED Bag
  BY BagCounts DEF AddNode
<1>2. QED
  BY <1>1 DEF AddNode, Contract!Add, Contract!Edge, Bag, Edge

\* UpdateNode leaves the edges, and the class unless one is given.
LEMMA UpdateImplements ==
  ASSUME IndInv, NEW n \in NodeIDs, NEW p \in Props, UpdateNode(n, p)
  PROVE  Contract!Update(n, p)
<1>1. UNCHANGED Bag
  BY BagCounts DEF UpdateNode
<1> DEFINE class == IF p.class = NoClass THEN nodes[n].class ELSE p.class
<1>2. class \in NodeClasses
  BY DEF UpdateNode, IndInv, TypeOK, Node, Props
<1>3. nodes' = [nodes EXCEPT ![n] = [class |-> class, props |-> p]] /\ n \in DOMAIN nodes
  BY DEF UpdateNode
<1>4. QED
  BY <1>1, <1>2, <1>3 DEF Contract!Update, Contract!Edge, Bag, Edge

\* DeleteNode takes the incident edges out of the bag, all occurrences of them.
LEMMA RemoveImplements ==
  ASSUME IndInv, NEW n \in NodeIDs, DeleteNode(n)
  PROVE  Contract!Remove(n)
<1> DEFINE Others == {e \in Edge : ~Incident(e, n)}
<1>1. edges \in Seq(Edge) /\ edges' = Kept(edges, Others)
  BY DEF DeleteNode, IndInv, TypeOK
<1>2. ASSUME NEW e \in Edge
      PROVE  Bag'[e] = IF n \in {e.source, e.target} THEN 0 ELSE Bag[e]
  <2>1. Count(edges', e) = IF e \in Others THEN Count(edges, e) ELSE 0
    BY <1>1, CountKept
  <2>2. e \in Others <=> n \notin {e.source, e.target}
    BY DEF Incident
  <2>3. QED
    BY <2>1, <2>2, BagCounts
<1>3. Bag' = [e \in Edge |-> IF n \in {e.source, e.target} THEN 0 ELSE Bag[e]]
  BY <1>2, BagCounts
<1>4. QED
  BY <1>3 DEF DeleteNode, Contract!Remove, Contract!Edge, Bag, Edge

\* AddEdge puts one edge more into the bag.
LEMMA ConnectImplements ==
  ASSUME IndInv, NEW e \in Edge, AddEdge(e)
  PROVE  Contract!Connect(e)
<1>1. edges \in Seq(Edge) /\ edges' = Append(edges, e)
  BY DEF AddEdge, IndInv, TypeOK
<1>2. \A x \in Edge : Count(edges', x) = Count(edges, x) + (IF x = e THEN 1 ELSE 0) /\ Count(edges, x) \in Nat
  BY <1>1, CountAppend, PositionsFinite
<1>3. Bag' = [Bag EXCEPT ![e] = @ + 1]
  BY <1>2, BagCounts
<1>4. QED
  BY <1>3 DEF AddEdge, Contract!Connect, Contract!Edge, Bag, Edge

\* DeleteEdge takes out one occurrence of one edge.
LEMMA DisconnectImplements ==
  ASSUME IndInv, NEW e \in Edge, DeleteEdge(e)
  PROVE  Contract!Disconnect(e)
<1> DEFINE k == First(edges, e)
<1>1. edges \in Seq(Edge) /\ edges' = Without(edges, k)
  BY DEF DeleteEdge, IndInv, TypeOK
<1>2. k \in 1..Len(edges) /\ edges[k] = e
  BY <1>1, FirstIsFirst DEF DeleteEdge
<1> HIDE DEF k
<1>3. \A x \in Edge : Count(edges', x) = Count(edges, x) - (IF x = e THEN 1 ELSE 0) /\ Count(edges, x) \in Nat
  BY <1>1, <1>2, CountWithout, PositionsFinite
<1>4. Bag' = [Bag EXCEPT ![e] = @ - 1]
  BY <1>3, BagCounts
<1>5. Bag[e] > 0
  <2>1. Count(edges, e) # 0
    BY <1>1, PositionsFinite DEF DeleteEdge
  <2>2. QED
    BY <1>3, <2>1, BagCounts
<1>6. QED
  BY <1>4, <1>5 DEF DeleteEdge, Contract!Disconnect, Contract!Edge, Bag, Edge

\* The three structures of the graph behave as one map and one bag, for any
\* number of nodes, edges and readers.
THEOREM Implements == Spec => ImplementsContract
<1>1. Init => Contract!Init
  <2> SUFFICES ASSUME Init PROVE Contract!Init
    OBVIOUS
  <2>1. \A e : Copies(e) = {}
    BY DEF Init, Copies
  <2>2. [e \in Edge |-> Cardinality(Copies(e))] = [e \in Edge |-> 0]
    BY <2>1, FS_EmptySet
  <2>3. QED
    BY <2>2 DEF Init, Contract!Init, Contract!Edge, Edge
<1>2. IndInv /\ [Next]_vars => [Contract!Next]_Contract!vars
  <2> SUFFICES ASSUME IndInv, [Next]_vars PROVE Contract!Next \/ UNCHANGED Contract!vars
    OBVIOUS
  <2>1. ASSUME NEW n \in NodeIDs, NEW c \in NodeClasses \cup {NoClass}, NEW p \in Props,
               AddNode(n, c, p)
        PROVE  Contract!Next
    BY <2>1, AddImplements DEF Contract!Next, Contract!Props, Props
  <2>2. ASSUME NEW n \in NodeIDs, NEW p \in Props, UpdateNode(n, p) PROVE Contract!Next
    BY <2>2, UpdateImplements DEF Contract!Next, Contract!Props, Props
  <2>3. ASSUME NEW n \in NodeIDs, DeleteNode(n) PROVE Contract!Next
    BY <2>3, RemoveImplements DEF Contract!Next
  <2>4. ASSUME NEW e \in Edge, AddEdge(e) PROVE Contract!Next
    BY <2>4, ConnectImplements DEF Contract!Next, Contract!Edge, Edge
  <2>5. ASSUME NEW e \in Edge, DeleteEdge(e) PROVE Contract!Next
    BY <2>5, DisconnectImplements DEF Contract!Next, Contract!Edge, Edge
  <2>6. CASE UNCHANGED graph
    BY <2>6 DEF graph, Contract!vars, Copies
  <2>7. QED
    BY <2>1, <2>2, <2>3, <2>4, <2>5, <2>6 DEF Next, Mutate, ReadNodes, ReadEdges, Return, vars, graph
<1>3. QED
  BY <1>1, <1>2, InductiveInvariant, PTL DEF Spec, ImplementsContract, Contract!Spec

=============================================================================
