----------------------------- MODULE SliceGraph -----------------------------
(***************************************************************************)
(* The property graph of internal/graph as a value: what each call of the  *)
(* Graph API returns for a given graph.  pkg/topology builds every         *)
(* operation out of these calls.  GraphStore models the same calls with    *)
(* the lists that give nodes and edges their order; here edges are a set:  *)
(* no call of topology tells one copy of an edge from two.                 *)
(*                                                                         *)
(* A call that can fail takes and returns a result: a graph and whether    *)
(* every call so far succeeded.  A failed result passes through, which is  *)
(* the early return on error.                                              *)
(***************************************************************************)

Ids(G) == DOMAIN G.nodes

NewGraph == [nodes |-> [n \in {} |-> n], edges |-> {}]

Ok(G) == [graph |-> G, ok |-> TRUE]

Require(r, condition) == [r EXCEPT !.ok = @ /\ condition]

\* Faulty variants (see README, "Mutants").
Overwrite(r, id, node) ==
  [r EXCEPT !.graph.nodes =
     [n \in Ids(r.graph) \cup {id} |-> IF n = id THEN node ELSE r.graph.nodes[n]]]
DeleteOutgoing(G, S) ==
  [nodes |-> [n \in Ids(G) \ S |-> G.nodes[n]], edges |-> {e \in G.edges : e.source \notin S}]
OrKeep(r, next, S) == next

\* Graph.AddNode: fails when the ID is taken.
NewNode(r, id, node) ==
  IF ~r.ok \/ id \in Ids(r.graph)
  THEN [r EXCEPT !.ok = FALSE]
  ELSE [r EXCEPT !.graph.nodes =
          [n \in Ids(r.graph) \cup {id} |-> IF n = id THEN node ELSE r.graph.nodes[n]]]

\* Graph.AddEdge: fails when an end is missing.
NewEdge(r, class, source, target) ==
  IF ~r.ok \/ ~({source, target} \subseteq Ids(r.graph))
  THEN [r EXCEPT !.ok = FALSE]
  ELSE [r EXCEPT !.graph.edges =
          @ \cup {[class |-> class, source |-> source, target |-> target]}]

\* Graph.DeleteNode for every member of S: incident edges go too.
Delete(G, S) ==
  [nodes |-> [n \in Ids(G) \ S |-> G.nodes[n]],
   edges |-> {e \in G.edges : e.source \notin S /\ e.target \notin S}]

OrDeleteAlways(r, next, S) ==
  IF next.ok THEN next ELSE [next EXCEPT !.graph = Delete(@, S)]

\* `if err != nil { g.DeleteNode(...); return err }`: next is the result of a
\* call made after r; when that call is the one that failed, S is deleted.
OrDelete(r, next, S) ==
  IF ~r.ok \/ next.ok THEN next ELSE [next EXCEPT !.graph = Delete(@, S)]

NewNodeOr(r, id, node, S)             == OrDelete(r, NewNode(r, id, node), S)
NewEdgeOr(r, class, source, target, S) == OrDelete(r, NewEdge(r, class, source, target), S)

\* Graph.Neighbors along outgoing and incoming edges of a class.
Outgoing(G, n, class) == {e.target : e \in {x \in G.edges : x.source = n /\ x.class = class}}
Incoming(G, n, class) == {e.source : e \in {x \in G.edges : x.target = n /\ x.class = class}}

=============================================================================
