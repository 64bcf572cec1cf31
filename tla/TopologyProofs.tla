--------------------------- MODULE TopologyProofs ---------------------------
(***************************************************************************)
(* Proofs about Topology.  What the builder methods of pkg/topology do to  *)
(* any slice graph and with any options: each keeps what there was, well   *)
(* formed and with one owner for everything, and leaves no trace where it  *)
(* promises that.  Then the theorems, first for any callers: whatever      *)
(* options they pass, as long as no ID they supply is the one that stands  *)
(* for a stale facade, and whatever they are at liberty to do; then for    *)
(* callers that keep the discipline of topologybuilder.                    *)
(***************************************************************************)
EXTENDS Topology, SetInduction

-----------------------------------------------------------------------------
(* Graphs.                                                                 *)

Fields  == {"class", "name", "type", "site", "vlan"}
Kinds   == {"NetworkNode", "Component", "NetworkService", "ConnectionPoint", "Link"}

\* A graph is finite; no element of it has the ID of a facade gone stale.
IsGraph(G) ==
  /\ G = [nodes |-> G.nodes, edges |-> G.edges]
  /\ G.nodes = [n \in Ids(G) |-> G.nodes[n]]
  /\ IsFiniteSet(Ids(G))
  /\ Stale \notin Ids(G)

IsElement(node) == DOMAIN node = Fields /\ node.class \in Kinds

\* TypeOK of Topology, of any graph.
Shaped(G) ==
  /\ \A n \in Ids(G) : IsElement(G.nodes[n])
  /\ \A e \in G.edges :
       /\ e.source \in Ids(G) /\ e.target \in Ids(G)
       /\ <<e.class, G.nodes[e.source].class, G.nodes[e.target].class>> \in EdgeShapes

\* An edge from an owner to what it owns.
Owns(G, e) ==
  \/ e.class = "has"
  \/ /\ e.class = "connects"
     /\ G.nodes[e.target].class = "ConnectionPoint" /\ G.nodes[e.source].class # "Link"

OneOwner(G) ==
  \A e, f \in G.edges : Owns(G, e) /\ Owns(G, f) /\ e.target = f.target => e.source = f.source

Inv(G) == IsGraph(G) /\ Shaped(G) /\ OneOwner(G)

\* A result, and what a call makes of one that goes well or badly.
IsResult(r) == r = [graph |-> r.graph, ok |-> r.ok] /\ r.ok \in BOOLEAN /\ Inv(r.graph)

Grows(q, r) == IsResult(q) /\ Extends(q.graph, r.graph) /\ (q.ok => r.ok)

\* Extends and Grows are preorders.
LEMMA ExtendsReflexive == ASSUME NEW G PROVE Extends(G, G)
BY DEF Extends

\* What extends an extension extends the graph.
LEMMA ExtendsTransitive ==
  ASSUME NEW G, NEW H, NEW K, Extends(G, H), Extends(H, K)
  PROVE  Extends(G, K)
BY DEF Extends

\* The class of an element does not change.
LEMMA ExtendsClass ==
  ASSUME NEW G, NEW H, Inv(G), Inv(H), Extends(G, H), NEW n \in Ids(H)
  PROVE  n \in Ids(G) /\ G.nodes[n].class = H.nodes[n].class
<1>1. n \in Ids(G) /\ [G.nodes[n] EXCEPT !.vlan = NoVLAN] = [H.nodes[n] EXCEPT !.vlan = NoVLAN]
  BY DEF Extends
<1>2. DOMAIN G.nodes[n] = Fields /\ DOMAIN H.nodes[n] = Fields
  BY <1>1 DEF Inv, Shaped, IsElement
<1>3. [G.nodes[n] EXCEPT !.vlan = NoVLAN].class = G.nodes[n].class
  BY <1>2 DEF Fields
<1>4. [H.nodes[n] EXCEPT !.vlan = NoVLAN].class = H.nodes[n].class
  BY <1>2 DEF Fields
<1>5. QED
  BY <1>1, <1>3, <1>4

\* Calls that grow a graph, one after the other, grow it.
LEMMA GrowsTransitive ==
  ASSUME NEW q, NEW r, NEW s, Grows(q, r), Grows(r, s)
  PROVE  Grows(q, s)
BY ExtendsTransitive DEF Grows

\* To do nothing is to grow by nothing.
LEMMA GrowsReflexive == ASSUME NEW r, IsResult(r) PROVE Grows(r, r)
BY ExtendsReflexive DEF Grows

-----------------------------------------------------------------------------
(* The calls of the Graph API.                                             *)

\* The graph G with one node more, and with one edge more.
WithNode(G, id, node) ==
  [nodes |-> [n \in Ids(G) \cup {id} |-> IF n = id THEN node ELSE G.nodes[n]], edges |-> G.edges]
WithEdge(G, class, source, target) ==
  [nodes |-> G.nodes,
   edges |-> G.edges \cup {[class |-> class, source |-> source, target |-> target]}]

\* NewNode and NewEdge without EXCEPT.
LEMMA NewNodeIs ==
  ASSUME NEW r, IsResult(r), NEW id, NEW node
  PROVE  NewNode(r, id, node) =
           IF ~r.ok \/ id \in Ids(r.graph) THEN [graph |-> r.graph, ok |-> FALSE]
           ELSE [graph |-> WithNode(r.graph, id, node), ok |-> TRUE]
<1>1. PICK N, E, b : r = [graph |-> [nodes |-> N, edges |-> E], ok |-> b] /\ b \in BOOLEAN
  BY DEF IsResult, Inv, IsGraph
<1>2. /\ r.graph = [nodes |-> N, edges |-> E] /\ r.ok = b
      /\ r.graph.nodes = N /\ r.graph.edges = E
  BY <1>1
<1>3. [r EXCEPT !.ok = FALSE] = [graph |-> r.graph, ok |-> FALSE]
  <2>1. \A v : [r EXCEPT !.ok = v] = [graph |-> [nodes |-> N, edges |-> E], ok |-> v]
    BY <1>1
  <2>2. QED
    BY <1>2, <2>1, Zenon
<1> DEFINE M == [n \in Ids(r.graph) \cup {id} |-> IF n = id THEN node ELSE r.graph.nodes[n]]
<1>4. [r EXCEPT !.graph.nodes = M] = [graph |-> [nodes |-> M, edges |-> E], ok |-> b]
  <2> HIDE DEF M
  <2> QED BY <1>1
<1>5. b => b = TRUE
  BY <1>1
<1>6. NewNode(r, id, node) = IF ~b \/ id \in Ids(r.graph) THEN [r EXCEPT !.ok = FALSE]
                             ELSE [r EXCEPT !.graph.nodes = M]
  BY <1>2 DEF NewNode
<1>7. WithNode(r.graph, id, node) = [nodes |-> M, edges |-> E]
  BY <1>2 DEF WithNode
<1> HIDE DEF M
<1>8. QED
  BY <1>2, <1>3, <1>4, <1>5, <1>6, <1>7

\* NewEdge without EXCEPT.
LEMMA NewEdgeIs ==
  ASSUME NEW r, IsResult(r), NEW class, NEW source, NEW target
  PROVE  NewEdge(r, class, source, target) =
           IF ~r.ok \/ source \notin Ids(r.graph) \/ target \notin Ids(r.graph)
           THEN [graph |-> r.graph, ok |-> FALSE]
           ELSE [graph |-> WithEdge(r.graph, class, source, target), ok |-> TRUE]
<1>1. PICK N, E, b : r = [graph |-> [nodes |-> N, edges |-> E], ok |-> b] /\ b \in BOOLEAN
  BY DEF IsResult, Inv, IsGraph
<1>2. /\ r.graph = [nodes |-> N, edges |-> E] /\ r.ok = b
      /\ r.graph.nodes = N /\ r.graph.edges = E
  BY <1>1
<1>3. [r EXCEPT !.ok = FALSE] = [graph |-> r.graph, ok |-> FALSE]
  <2>1. \A v : [r EXCEPT !.ok = v] = [graph |-> [nodes |-> N, edges |-> E], ok |-> v]
    BY <1>1
  <2>2. QED
    BY <1>2, <2>1, Zenon
<1> DEFINE M == E \cup {[class |-> class, source |-> source, target |-> target]}
<1>4. [r EXCEPT !.graph.edges = @ \cup {[class |-> class, source |-> source, target |-> target]}]
        = [graph |-> [nodes |-> N, edges |-> M], ok |-> b]
  BY <1>1
<1>5. b => b = TRUE
  BY <1>1
<1>6. NewEdge(r, class, source, target) =
        IF ~b \/ ~({source, target} \subseteq Ids(r.graph)) THEN [r EXCEPT !.ok = FALSE]
        ELSE [graph |-> [nodes |-> N, edges |-> M], ok |-> b]
  BY <1>2, <1>4 DEF NewEdge
<1>7. WithEdge(r.graph, class, source, target) = [nodes |-> N, edges |-> M]
  BY <1>2 DEF WithEdge
<1> HIDE DEF M
<1>8. QED
  BY <1>2, <1>3, <1>5, <1>6, <1>7

\* A new node is below nothing, and a new edge gives its target no second
\* owner.
LEMMA WithNodeKeeps ==
  ASSUME NEW G, Inv(G), NEW id, id \notin Ids(G), id # Stale, NEW node, IsElement(node)
  PROVE  LET H == WithNode(G, id, node)
         IN  /\ Inv(H) /\ Extends(H, G)
             /\ Ids(H) = Ids(G) \cup {id} /\ H.nodes[id] = node /\ H.edges = G.edges
             /\ \A n \in Ids(G) : H.nodes[n] = G.nodes[n]
             /\ \A e \in G.edges : e.source # id /\ e.target # id
<1> DEFINE H == WithNode(G, id, node)
<1>1. /\ Ids(H) = Ids(G) \cup {id} /\ H.nodes[id] = node /\ H.edges = G.edges
      /\ \A n \in Ids(G) : H.nodes[n] = G.nodes[n]
  BY DEF WithNode, Ids
<1>2. IsGraph(H)
  <2>1. IsFiniteSet(Ids(H))
    BY <1>1, FS_AddElement DEF Inv, IsGraph
  <2>2. H = [nodes |-> H.nodes, edges |-> H.edges] /\ H.nodes = [n \in Ids(H) |-> H.nodes[n]]
    BY <1>1 DEF WithNode
  <2>3. QED
    BY <1>1, <2>1, <2>2 DEF Inv, IsGraph
<1>3. \A e \in G.edges : /\ e.source # id /\ e.target # id
                         /\ e.source \in Ids(G) /\ e.target \in Ids(G)
  BY DEF Inv, Shaped
<1> HIDE DEF H
<1>4. Shaped(H)
  BY <1>1, <1>3 DEF Inv, Shaped
<1>5. OneOwner(H)
  BY <1>1, <1>3 DEF Inv, OneOwner, Owns
<1>6. Extends(H, G)
  BY <1>1 DEF Extends
<1>7. QED
  BY <1>1, <1>2, <1>3, <1>4, <1>5, <1>6 DEF Inv, H

\* An edge may be added between elements that may be joined, and if it says who
\* owns the target, that one had no owner.
Joinable(G, class, source, target) ==
  /\ <<class, G.nodes[source].class, G.nodes[target].class>> \in EdgeShapes
  /\ \/ \A e \in G.edges : e.target = target => ~Owns(G, e)
     \/ class = "connects" /\ G.nodes[source].class = "Link"
     \/ class = "connects" /\ G.nodes[target].class = "Link"

\* A new edge between elements that it may join keeps a graph well formed.
LEMMA WithEdgeKeeps ==
  ASSUME NEW G, Inv(G), NEW source \in Ids(G), NEW target \in Ids(G), NEW class,
         Joinable(G, class, source, target)
  PROVE  LET H == WithEdge(G, class, source, target)
         IN  /\ Inv(H) /\ Extends(H, G) /\ H.nodes = G.nodes
             /\ H.edges = G.edges \cup {[class |-> class, source |-> source, target |-> target]}
<1> DEFINE H == WithEdge(G, class, source, target)
           x == [class |-> class, source |-> source, target |-> target]
<1>1. H.nodes = G.nodes /\ H.edges = G.edges \cup {x}
  BY DEF WithEdge
<1>2. IsGraph(H)
  BY <1>1 DEF Inv, IsGraph, Ids, WithEdge
<1>3. x.class = class /\ x.source = source /\ x.target = target
  OBVIOUS
<1> HIDE DEF H, x
<1>4. Shaped(H)
  BY <1>1, <1>3 DEF Inv, Shaped, Ids, Joinable
<1>5. OneOwner(H)
  <2>1. \A e : Owns(H, e) <=> Owns(G, e)
    BY <1>1 DEF Owns
  <2>2. Owns(G, x) => \A e \in G.edges : e.target = x.target => ~Owns(G, e)
    BY <1>3 DEF Joinable, Owns
  <2>3. QED
    BY <1>1, <2>1, <2>2 DEF Inv, OneOwner
<1>6. Extends(H, G)
  BY <1>1 DEF Extends, Ids
<1>7. QED
  BY <1>1, <1>2, <1>4, <1>5, <1>6 DEF Inv, H, x

\* Deletions keep a graph well formed: they take edges only.
LEMMA DeleteKeeps ==
  ASSUME NEW G, Inv(G), NEW S
  PROVE  Inv(Delete(G, S)) /\ Ids(Delete(G, S)) = Ids(G) \ S
<1> DEFINE H == Delete(G, S)
<1>1. /\ Ids(H) = Ids(G) \ S
      /\ \A n \in Ids(H) : H.nodes[n] = G.nodes[n]
      /\ H.edges = {e \in G.edges : e.source \notin S /\ e.target \notin S}
  BY DEF Delete, Ids
<1>2. IsGraph(H)
  <2>1. IsFiniteSet(Ids(H))
    BY <1>1, FS_Subset DEF Inv, IsGraph
  <2>2. H = [nodes |-> H.nodes, edges |-> H.edges] /\ H.nodes = [n \in Ids(H) |-> H.nodes[n]]
    BY <1>1 DEF Delete
  <2>3. QED
    BY <1>1, <2>1, <2>2 DEF Inv, IsGraph
<1> HIDE DEF H
<1>3. Shaped(H)
  BY <1>1 DEF Inv, Shaped
<1>4. OneOwner(H)
  <2>1. \A e \in H.edges : e \in G.edges /\ e.source \in Ids(H) /\ e.target \in Ids(H)
    BY <1>1, <1>3 DEF Shaped
  <2>2. \A e \in H.edges : Owns(H, e) <=> Owns(G, e)
    BY <1>1, <2>1 DEF Owns
  <2>3. QED
    BY <2>1, <2>2 DEF Inv, OneOwner
<1>5. QED
  BY <1>1, <1>2, <1>3, <1>4 DEF Inv, H

\* What is added to a graph is deleted without loss.
LEMMA DeleteNew ==
  ASSUME NEW G, Inv(G), NEW B, Inv(B), Extends(G, B), NEW S, S \cap Ids(B) = {}
  PROVE  Extends(Delete(G, S), B)
<1> DEFINE H == Delete(G, S)
<1>1. /\ Ids(H) = Ids(G) \ S
      /\ \A n \in Ids(H) : H.nodes[n] = G.nodes[n]
      /\ H.edges = {e \in G.edges : e.source \notin S /\ e.target \notin S}
  BY DEF Delete, Ids
<1>2. \A e \in B.edges : e \in G.edges /\ e.source \notin S /\ e.target \notin S
  BY DEF Extends, Inv, Shaped
<1> HIDE DEF H
<1>3. QED
  BY <1>1, <1>2 DEF Extends, H

\* To delete what is not there is to do nothing.
LEMMA DeleteNothing ==
  ASSUME NEW G, Inv(G), NEW S, S \cap Ids(G) = {}
  PROVE  Delete(G, S) = G
<1>1. Ids(G) \ S = Ids(G) /\ {e \in G.edges : e.source \notin S /\ e.target \notin S} = G.edges
  BY DEF Inv, Shaped
<1>2. QED
  BY <1>1 DEF Delete, Inv, IsGraph

\* The two calls keep what there was, whether they fail or not.
LEMMA NewNodeGrows ==
  ASSUME NEW r, IsResult(r), NEW id, id # Stale, NEW node, IsElement(node)
  PROVE  LET q == NewNode(r, id, node)
         IN  /\ Grows(q, r)
             /\ ~q.ok => q.graph = r.graph
             /\ q.ok => /\ r.ok /\ id \notin Ids(r.graph)
                        /\ q.graph = WithNode(r.graph, id, node)
<1> DEFINE q == NewNode(r, id, node)
<1>1. CASE ~r.ok \/ id \in Ids(r.graph)
  <2>1. q = [graph |-> r.graph, ok |-> FALSE]
    BY <1>1, NewNodeIs
  <2>2. q.graph = r.graph /\ ~q.ok /\ q = [graph |-> q.graph, ok |-> q.ok] /\ q.ok \in BOOLEAN
    BY <2>1
  <2> HIDE DEF q
  <2>3. QED
    BY <2>2, ExtendsReflexive DEF Grows, IsResult, q
<1>2. CASE r.ok /\ id \notin Ids(r.graph)
  <2> DEFINE H == WithNode(r.graph, id, node)
  <2>1. q = [graph |-> H, ok |-> TRUE]
    BY <1>2, NewNodeIs
  <2>2. q.graph = H /\ q.ok /\ q = [graph |-> q.graph, ok |-> q.ok] /\ q.ok \in BOOLEAN
    BY <2>1
  <2>3. Inv(H) /\ Extends(H, r.graph)
    BY <1>2, WithNodeKeeps DEF IsResult
  <2> HIDE DEF q, H
  <2>4. QED
    BY <1>2, <2>2, <2>3 DEF Grows, IsResult, q, H
<1>3. QED
  BY <1>1, <1>2

\* AddEdge keeps what there was, whether it fails or not.
LEMMA NewEdgeGrows ==
  ASSUME NEW r, IsResult(r), NEW class, NEW source, NEW target,
         r.ok /\ source \in Ids(r.graph) /\ target \in Ids(r.graph)
           => Joinable(r.graph, class, source, target)
  PROVE  LET q == NewEdge(r, class, source, target)
         IN  /\ Grows(q, r)
             /\ ~q.ok => q.graph = r.graph
             /\ q.ok => /\ r.ok /\ source \in Ids(r.graph) /\ target \in Ids(r.graph)
                        /\ q.graph = WithEdge(r.graph, class, source, target)
<1> DEFINE q == NewEdge(r, class, source, target)
<1>1. CASE ~r.ok \/ source \notin Ids(r.graph) \/ target \notin Ids(r.graph)
  <2>1. q = [graph |-> r.graph, ok |-> FALSE]
    BY <1>1, NewEdgeIs
  <2>2. q.graph = r.graph /\ ~q.ok /\ q = [graph |-> q.graph, ok |-> q.ok] /\ q.ok \in BOOLEAN
    BY <2>1
  <2> HIDE DEF q
  <2>3. QED
    BY <2>2, ExtendsReflexive DEF Grows, IsResult, q
<1>2. CASE r.ok /\ source \in Ids(r.graph) /\ target \in Ids(r.graph)
  <2> DEFINE H == WithEdge(r.graph, class, source, target)
  <2>1. q = [graph |-> H, ok |-> TRUE]
    BY <1>2, NewEdgeIs
  <2>2. q.graph = H /\ q.ok /\ q = [graph |-> q.graph, ok |-> q.ok] /\ q.ok \in BOOLEAN
    BY <2>1
  <2>3. Inv(H) /\ Extends(H, r.graph)
    BY <1>2, WithEdgeKeeps DEF IsResult
  <2> HIDE DEF q, H
  <2>4. QED
    BY <1>2, <2>2, <2>3 DEF Grows, IsResult, q, H
<1>3. QED
  BY <1>1, <1>2

\* An error path, of a call that fails and of one that was never reached.
LEMMA OrDeleteIs ==
  ASSUME NEW q, NEW n, IsResult(q), IsResult(n), NEW S
  PROVE  OrDelete(q, n, S) = IF ~q.ok \/ n.ok THEN n ELSE [graph |-> Delete(n.graph, S), ok |-> FALSE]
<1>1. PICK H, b : n = [graph |-> H, ok |-> b] /\ n.graph = H /\ n.ok = b
  BY DEF IsResult
<1>2. ASSUME ~n.ok PROVE [n EXCEPT !.graph = Delete(@, S)] = [graph |-> Delete(n.graph, S), ok |-> FALSE]
  <2>1. [n EXCEPT !.graph = Delete(@, S)] = [graph |-> Delete(H, S), ok |-> b]
    BY <1>1
  <2>2. b = FALSE
    BY <1>1, <1>2 DEF IsResult
  <2>3. QED
    BY <1>1, <2>1, <2>2
<1>3. QED
  BY <1>2, Zenon DEF OrDelete

\* An error path that deletes what the call has added leaves what was there
\* before the call.
LEMMA OrDeleteGrows ==
  ASSUME NEW r, NEW q, Grows(q, r), NEW n, Grows(n, q), IsResult(r),
         NEW S, q.ok => S \cap Ids(r.graph) = {}
  PROVE  LET o == OrDelete(q, n, S) IN Grows(o, r) /\ (o.ok => n.ok /\ o = n)
<1> DEFINE o == OrDelete(q, n, S)
<1>1. Grows(n, r)
  BY GrowsTransitive
<1>2. CASE ~q.ok \/ n.ok
  <2>1. o = n
    BY <1>2, OrDeleteIs DEF Grows
  <2> HIDE DEF o
  <2>2. QED
    BY <1>1, <2>1 DEF o, Grows
<1>3. CASE q.ok /\ ~n.ok
  <2>1. o = [graph |-> Delete(n.graph, S), ok |-> FALSE]
    BY <1>3, OrDeleteIs DEF Grows
  <2>2. o.graph = Delete(n.graph, S) /\ ~o.ok /\ o = [graph |-> o.graph, ok |-> o.ok] /\ o.ok \in BOOLEAN
    BY <2>1
  <2>3. Inv(o.graph)
    BY <1>1, <2>2, DeleteKeeps DEF Grows, IsResult
  <2>4. Extends(o.graph, r.graph)
    BY <1>1, <1>3, <2>2, DeleteNew DEF Grows, IsResult
  <2> HIDE DEF o
  <2>5. QED
    BY <2>2, <2>3, <2>4 DEF Grows, IsResult, o
<1>4. QED
  BY <1>2, <1>3

-----------------------------------------------------------------------------
(* Calls that connect nothing.                                             *)

\* The ID and the name of a service of a disciplined caller.
OwnName(opts, id, name) ==
  \/ name \in NamesOfServices(opts) /\ id = <<"service", name>>
  \/ \E node \in NamesOfNodes(opts), o \in opts.components :
       name = ComponentService(node, o) /\ id = <<"service", node, o.name, "nsl2">>

\* H has new elements that have the names and IDs that a disciplined caller gives
\* them, and connects nothing that was there before: what is new is no
\* ServicePort and leads to no Link, and to a port of a service only if it is
\* new, too.
Tidy(opts, H, G) ==
  /\ \A n \in Ids(H) \ Ids(G) :
       /\ H.nodes[n].class = "ConnectionPoint" => H.nodes[n].type # "ServicePort"
       /\ H.nodes[n].class = "NetworkService" => OwnName(opts, n, H.nodes[n].name)
       /\ H.nodes[n].class = "NetworkNode" =>
            /\ H.nodes[n].name \in NamesOfNodes(opts)
            /\ \A m \in NetworkNodes(H) : H.nodes[m].name = H.nodes[n].name => m = n
  /\ \A e \in H.edges \ G.edges :
       /\ H.nodes[e.target].class # "Link"
       /\ H.nodes[e.source].class = "NetworkService" => e.target \notin Ids(G)

\* An element that may be added so.
MayAdd(opts, G, id, node) ==
  /\ node.class = "ConnectionPoint" => node.type # "ServicePort"
  /\ node.class = "NetworkService" => OwnName(opts, id, node.name)
  /\ node.class = "NetworkNode" =>
       /\ node.name \in NamesOfNodes(opts)
       /\ \A m \in NetworkNodes(G) : G.nodes[m].name # node.name

\* An element keeps its class, name and type.
LEMMA ExtendsElement ==
  ASSUME NEW G, NEW H, Inv(G), Inv(H), Extends(G, H), NEW n \in Ids(H)
  PROVE  /\ n \in Ids(G) /\ G.nodes[n].class = H.nodes[n].class
         /\ G.nodes[n].name = H.nodes[n].name /\ G.nodes[n].type = H.nodes[n].type
<1>1. n \in Ids(G) /\ [G.nodes[n] EXCEPT !.vlan = NoVLAN] = [H.nodes[n] EXCEPT !.vlan = NoVLAN]
  BY DEF Extends
<1>2. IsElement(G.nodes[n]) /\ IsElement(H.nodes[n])
  BY <1>1 DEF Inv, Shaped
<1> DEFINE x == G.nodes[n]
           y == H.nodes[n]
<1> HIDE DEF x, y
<1>3. /\ {"class", "name", "type"} \subseteq DOMAIN x /\ {"class", "name", "type"} \subseteq DOMAIN y
      /\ [x EXCEPT !.vlan = NoVLAN] = [y EXCEPT !.vlan = NoVLAN]
  BY <1>1, <1>2 DEF IsElement, Fields, x, y
<1>4. x.class = y.class /\ x.name = y.name /\ x.type = y.type
  BY <1>3
<1>5. QED
  BY <1>1, <1>4 DEF x, y

\* To do nothing is tidy.
LEMMA TidyReflexive == ASSUME NEW opts, NEW G PROVE Tidy(opts, G, G)
BY DEF Tidy

\* A tidy call after another is tidy.
LEMMA TidyTransitive ==
  ASSUME NEW opts, NEW G, NEW H, NEW K, Inv(G), Inv(H), Inv(K), Extends(H, G), Extends(K, H),
         Tidy(opts, H, G), Tidy(opts, K, H)
  PROVE  Tidy(opts, K, G)
<1>0. Ids(G) \subseteq Ids(H) /\ Ids(H) \subseteq Ids(K) /\ H.edges \subseteq K.edges
  BY DEF Extends
<1>1. \A n \in Ids(H) : /\ n \in Ids(K) /\ K.nodes[n].class = H.nodes[n].class
                        /\ K.nodes[n].name = H.nodes[n].name /\ K.nodes[n].type = H.nodes[n].type
  BY ExtendsElement
<1>2. ASSUME NEW n \in Ids(K) \ Ids(G)
      PROVE  /\ K.nodes[n].class = "ConnectionPoint" => K.nodes[n].type # "ServicePort"
             /\ K.nodes[n].class = "NetworkService" => OwnName(opts, n, K.nodes[n].name)
             /\ K.nodes[n].class = "NetworkNode" => K.nodes[n].name \in NamesOfNodes(opts)
  <2>1. CASE n \in Ids(H)
    BY <1>1, <1>2, <2>1 DEF Tidy
  <2>2. CASE n \notin Ids(H)
    BY <1>2, <2>2 DEF Tidy
  <2>3. QED
    BY <2>1, <2>2
<1>3. ASSUME NEW n \in Ids(K) \ Ids(G), K.nodes[n].class = "NetworkNode",
             NEW m \in NetworkNodes(K), K.nodes[m].name = K.nodes[n].name
      PROVE  m = n
  <2>1. CASE n \notin Ids(H)
    BY <1>3, <2>1 DEF Tidy
  <2>2. CASE n \in Ids(H) /\ m \notin Ids(H)
    BY <1>3, <1>0, <2>2 DEF Tidy, NetworkNodes, OfClass
  <2>3. CASE n \in Ids(H) /\ m \in Ids(H)
    BY <1>1, <1>3, <2>3 DEF Tidy, NetworkNodes, OfClass
  <2>4. QED
    BY <2>1, <2>2, <2>3
<1>4. ASSUME NEW e \in K.edges \ G.edges
      PROVE  /\ K.nodes[e.target].class # "Link"
             /\ K.nodes[e.source].class = "NetworkService" => e.target \notin Ids(G)
  <2>1. CASE e \in H.edges
    BY <1>1, <1>4, <2>1 DEF Tidy, Inv, Shaped
  <2>2. CASE e \notin H.edges
    BY <1>0, <1>4, <2>2 DEF Tidy
  <2>3. QED
    BY <2>1, <2>2
<1>5. QED
  BY <1>2, <1>3, <1>4 DEF Tidy

\* Adding an element is, if it may be added.
LEMMA TidyNode ==
  ASSUME NEW opts, NEW b, NEW r, IsResult(b), Grows(r, b), Tidy(opts, r.graph, b.graph),
         NEW id, id # Stale, NEW node, IsElement(node),
         r.ok /\ id \notin Ids(r.graph) => MayAdd(opts, r.graph, id, node)
  PROVE  Tidy(opts, NewNode(r, id, node).graph, b.graph)
<1> DEFINE G == r.graph
           H == WithNode(G, id, node)
<1>0. Inv(G) /\ Inv(b.graph) /\ Extends(G, b.graph) /\ IsResult(r)
  BY DEF Grows, IsResult
<1>1. \/ NewNode(r, id, node).graph = G
      \/ /\ r.ok /\ id \notin Ids(G) /\ NewNode(r, id, node).graph = H
  BY <1>0, NewNodeGrows
<1>2. ASSUME r.ok, id \notin Ids(G) PROVE Tidy(opts, H, b.graph)
  <2>1. /\ Inv(H) /\ Extends(H, G)
        /\ Ids(H) = Ids(G) \cup {id} /\ H.nodes[id] = node /\ H.edges = G.edges
        /\ \A n \in Ids(G) : H.nodes[n] = G.nodes[n]
    BY <1>0, <1>2, WithNodeKeeps
  <2> HIDE DEF H
  <2>2. MayAdd(opts, G, id, node)
    BY <1>2
  <2> HIDE DEF G
  <2>3. Tidy(opts, H, G)
    BY <2>1, <2>2 DEF Tidy, MayAdd, NetworkNodes, OfClass
  <2>4. QED
    BY <1>0, <2>1, <2>3, TidyTransitive DEF G
<1>3. QED
  BY <1>1, <1>2

\* So is adding an edge, to no Link and from a service only to a port that is new.
LEMMA TidyEdge ==
  ASSUME NEW opts, NEW b, NEW r, IsResult(b), Grows(r, b), Tidy(opts, r.graph, b.graph),
         NEW class, NEW source, NEW target,
         r.ok /\ source \in Ids(r.graph) /\ target \in Ids(r.graph) =>
           /\ Joinable(r.graph, class, source, target)
           /\ r.graph.nodes[target].class # "Link"
           /\ r.graph.nodes[source].class = "NetworkService" => target \notin Ids(b.graph)
  PROVE  Tidy(opts, NewEdge(r, class, source, target).graph, b.graph)
<1> DEFINE G == r.graph
           H == WithEdge(G, class, source, target)
           x == [class |-> class, source |-> source, target |-> target]
<1>0. Inv(G) /\ Inv(b.graph) /\ Extends(G, b.graph) /\ IsResult(r)
  BY DEF Grows, IsResult
<1>1. \/ NewEdge(r, class, source, target).graph = G
      \/ /\ r.ok /\ source \in Ids(G) /\ target \in Ids(G)
         /\ NewEdge(r, class, source, target).graph = H
  BY <1>0, NewEdgeGrows
<1>2. ASSUME r.ok, source \in Ids(G), target \in Ids(G) PROVE Tidy(opts, H, b.graph)
  <2>1. H.nodes = G.nodes /\ H.edges = G.edges \cup {x}
    BY <1>0, <1>2, WithEdgeKeeps
  <2>2. x.source = source /\ x.target = target
    OBVIOUS
  <2>3. /\ G.nodes[target].class # "Link"
        /\ G.nodes[source].class = "NetworkService" => target \notin Ids(b.graph)
    BY <1>2
  <2> HIDE DEF H, x
  <2>4. QED
    BY <2>1, <2>2, <2>3 DEF Tidy, NetworkNodes, OfClass, Ids
<1>3. QED
  BY <1>1, <1>2

\* And deleting what is new after an error.
LEMMA TidyOrDelete ==
  ASSUME NEW opts, NEW b, NEW q, NEW n, IsResult(b), IsResult(q), IsResult(n),
         Extends(n.graph, b.graph), Tidy(opts, n.graph, b.graph),
         NEW S, q.ok => S \cap Ids(b.graph) = {}
  PROVE  Tidy(opts, OrDelete(q, n, S).graph, b.graph)
<1> DEFINE G == n.graph
           H == Delete(G, S)
<1>1. \/ OrDelete(q, n, S).graph = G
      \/ q.ok /\ OrDelete(q, n, S).graph = H
  BY OrDeleteIs
<1>2. /\ Ids(H) = Ids(G) \ S
      /\ \A m \in Ids(H) : H.nodes[m] = G.nodes[m]
      /\ H.edges = {e \in G.edges : e.source \notin S /\ e.target \notin S}
  BY DEF Delete, Ids
<1>3. \A e \in G.edges : e.source \in Ids(G) /\ e.target \in Ids(G)
  BY DEF IsResult, Inv, Shaped
<1> HIDE DEF H
<1>4. ASSUME q.ok PROVE Tidy(opts, H, b.graph)
  <2>1. \A e \in H.edges : H.nodes[e.source] = G.nodes[e.source] /\ H.nodes[e.target] = G.nodes[e.target]
    BY <1>2, <1>3
  <2>2. QED
    BY <1>2, <2>1 DEF Tidy, NetworkNodes, OfClass
<1>5. QED
  BY <1>1, <1>4

\* An element, or an edge, or what was there before it.
LEMMA TidyNodeOr ==
  ASSUME NEW opts, NEW b, NEW r, IsResult(b), Grows(r, b), Tidy(opts, r.graph, b.graph),
         NEW id, id # Stale, NEW node, IsElement(node),
         r.ok /\ id \notin Ids(r.graph) => MayAdd(opts, r.graph, id, node),
         NEW S, r.ok => S \cap Ids(b.graph) = {}
  PROVE  Tidy(opts, NewNodeOr(r, id, node, S).graph, b.graph)
<1> DEFINE n == NewNode(r, id, node)
<1>1. Tidy(opts, n.graph, b.graph)
  BY TidyNode
<1>2. Grows(n, r)
  BY NewNodeGrows DEF Grows
<1> HIDE DEF n
<1>3. IsResult(r) /\ IsResult(n) /\ Extends(n.graph, b.graph)
  BY <1>2, GrowsTransitive DEF Grows
<1>4. Tidy(opts, OrDelete(r, n, S).graph, b.graph)
  BY <1>1, <1>3, TidyOrDelete
<1>5. QED
  BY <1>4 DEF NewNodeOr, n

LEMMA TidyEdgeOr ==
  ASSUME NEW opts, NEW b, NEW r, IsResult(b), Grows(r, b), Tidy(opts, r.graph, b.graph),
         NEW class, NEW source, NEW target,
         r.ok /\ source \in Ids(r.graph) /\ target \in Ids(r.graph) =>
           /\ Joinable(r.graph, class, source, target)
           /\ r.graph.nodes[target].class # "Link"
           /\ r.graph.nodes[source].class = "NetworkService" => target \notin Ids(b.graph),
         NEW S, r.ok => S \cap Ids(b.graph) = {}
  PROVE  Tidy(opts, NewEdgeOr(r, class, source, target, S).graph, b.graph)
<1> DEFINE n == NewEdge(r, class, source, target)
<1>1. Tidy(opts, n.graph, b.graph)
  BY TidyEdge
<1>2. Grows(n, r)
  BY NewEdgeGrows DEF Grows
<1> HIDE DEF n
<1>3. IsResult(r) /\ IsResult(n) /\ Extends(n.graph, b.graph)
  BY <1>2, GrowsTransitive DEF Grows
<1>4. Tidy(opts, OrDelete(r, n, S).graph, b.graph)
  BY <1>1, <1>3, TidyOrDelete
<1>5. QED
  BY <1>4 DEF NewEdgeOr, n

-----------------------------------------------------------------------------
(* Calls that are all or nothing.                                          *)

\* q is what a call has made of r so far: new elements S and edges of them, or
\* nothing.
Made(q, r, S) ==
  /\ Grows(q, r)
  /\ ~q.ok => q.graph = r.graph
  /\ q.ok => S \cap Ids(r.graph) = {} /\ Delete(q.graph, S) = r.graph

\* A method that adds elements one by one: the first, another, and an edge of
\* one of them.
LEMMA MadeFirst ==
  ASSUME NEW r, IsResult(r), NEW id, id # Stale, NEW node, IsElement(node)
  PROVE  /\ Made(NewNode(r, id, node), r, {id})
         /\ NewNode(r, id, node).ok =>
              /\ r.ok /\ id \notin Ids(r.graph)
              /\ NewNode(r, id, node).graph = WithNode(r.graph, id, node)
<1> DEFINE q == NewNode(r, id, node)
<1>1. /\ Grows(q, r)
      /\ ~q.ok => q.graph = r.graph
      /\ q.ok => r.ok /\ id \notin Ids(r.graph) /\ q.graph = WithNode(r.graph, id, node)
  BY NewNodeGrows
<1>2. ASSUME id \notin Ids(r.graph)
      PROVE  Delete(WithNode(r.graph, id, node), {id}) = Delete(r.graph, {id})
  <2> DEFINE H == WithNode(r.graph, id, node)
  <2>1. /\ Ids(H) = Ids(r.graph) \cup {id} /\ H.edges = r.graph.edges
        /\ \A n \in Ids(r.graph) : H.nodes[n] = r.graph.nodes[n]
    BY <1>2, WithNodeKeeps DEF IsResult
  <2> HIDE DEF H
  <2>2. [n \in Ids(H) \ {id} |-> H.nodes[n]] = [n \in Ids(r.graph) \ {id} |-> r.graph.nodes[n]]
    BY <2>1
  <2>3. QED
    BY <2>1, <2>2 DEF Delete, H
<1>3. q.ok => Delete(r.graph, {id}) = r.graph
  BY <1>1, DeleteNothing DEF IsResult
<1> HIDE DEF q
<1>4. QED
  BY <1>1, <1>2, <1>3 DEF Made, q

\* A method adds one more element, or takes back all it has added.
LEMMA MadeNode ==
  ASSUME NEW r, IsResult(r), NEW q, NEW S, Made(q, r, S), NEW id, id # Stale, NEW node, IsElement(node)
  PROVE  /\ Made(NewNodeOr(q, id, node, S), r, S \cup {id})
         /\ NewNodeOr(q, id, node, S).ok =>
              /\ q.ok /\ id \notin Ids(q.graph)
              /\ NewNodeOr(q, id, node, S).graph = WithNode(q.graph, id, node)
<1> DEFINE n == NewNode(q, id, node)
           o == OrDelete(q, n, S)
<1>1. /\ Grows(n, q) /\ IsResult(q)
      /\ ~n.ok => n.graph = q.graph
      /\ n.ok => q.ok /\ id \notin Ids(q.graph) /\ n.graph = WithNode(q.graph, id, node)
  BY NewNodeGrows DEF Made, Grows
<1>2. o = IF ~q.ok \/ n.ok THEN n ELSE [graph |-> Delete(n.graph, S), ok |-> FALSE]
  BY <1>1, OrDeleteIs DEF Grows
<1>3. Grows(o, r) /\ (o.ok => n.ok /\ o = n)
  BY <1>1, OrDeleteGrows DEF Made
<1>4. ASSUME ~o.ok PROVE o.graph = r.graph
  <2>1. CASE ~q.ok
    BY <1>1, <1>2, <2>1 DEF Made
  <2>2. CASE q.ok
    <3>1. o.graph = Delete(n.graph, S) /\ n.graph = q.graph
      BY <1>1, <1>2, <1>4, <2>2
    <3>2. QED
      BY <2>2, <3>1 DEF Made
  <2>3. QED
    BY <2>1, <2>2
<1>5. ASSUME o.ok PROVE (S \cup {id}) \cap Ids(r.graph) = {} /\ Delete(o.graph, S \cup {id}) = r.graph
  <2> DEFINE H == WithNode(q.graph, id, node)
  <2>1. q.ok /\ id \notin Ids(q.graph) /\ o.graph = H
    BY <1>1, <1>3, <1>5
  <2>2. S \cap Ids(r.graph) = {} /\ Delete(q.graph, S) = r.graph /\ Ids(r.graph) \subseteq Ids(q.graph)
    BY <2>1 DEF Made, Grows, Extends
  <2>3. /\ Ids(H) = Ids(q.graph) \cup {id} /\ H.edges = q.graph.edges
        /\ \A m \in Ids(q.graph) : H.nodes[m] = q.graph.nodes[m]
        /\ \A e \in q.graph.edges : e.source # id /\ e.target # id
    BY <1>1, <2>1, WithNodeKeeps DEF IsResult
  <2> HIDE DEF H
  <2>4. [m \in Ids(H) \ (S \cup {id}) |-> H.nodes[m]] = [m \in Ids(q.graph) \ S |-> q.graph.nodes[m]]
    BY <2>1, <2>3
  <2>5. {e \in H.edges : e.source \notin S \cup {id} /\ e.target \notin S \cup {id}}
          = {e \in q.graph.edges : e.source \notin S /\ e.target \notin S}
    BY <2>3
  <2>6. Delete(H, S \cup {id}) = Delete(q.graph, S)
    BY <2>4, <2>5 DEF Delete
  <2>7. QED
    BY <2>1, <2>2, <2>6
<1> HIDE DEF o, n
<1>6. QED
  BY <1>1, <1>3, <1>4, <1>5 DEF Made, NewNodeOr, o, n

\* A method joins what it has added, or takes it all back.
LEMMA MadeEdge ==
  ASSUME NEW r, IsResult(r), NEW q, NEW S, Made(q, r, S), NEW class, NEW source, NEW target,
         source \in S \/ target \in S,
         q.ok /\ source \in Ids(q.graph) /\ target \in Ids(q.graph)
           => Joinable(q.graph, class, source, target)
  PROVE  /\ Made(NewEdgeOr(q, class, source, target, S), r, S)
         /\ NewEdgeOr(q, class, source, target, S).ok =>
              /\ q.ok /\ source \in Ids(q.graph) /\ target \in Ids(q.graph)
              /\ NewEdgeOr(q, class, source, target, S).graph = WithEdge(q.graph, class, source, target)
<1> DEFINE n == NewEdge(q, class, source, target)
           o == OrDelete(q, n, S)
<1>1. /\ Grows(n, q) /\ IsResult(q)
      /\ ~n.ok => n.graph = q.graph
      /\ n.ok => /\ q.ok /\ source \in Ids(q.graph) /\ target \in Ids(q.graph)
                 /\ n.graph = WithEdge(q.graph, class, source, target)
  BY NewEdgeGrows DEF Made, Grows
<1>2. o = IF ~q.ok \/ n.ok THEN n ELSE [graph |-> Delete(n.graph, S), ok |-> FALSE]
  BY <1>1, OrDeleteIs DEF Grows
<1>3. Grows(o, r) /\ (o.ok => n.ok /\ o = n)
  BY <1>1, OrDeleteGrows DEF Made
<1>4. ASSUME ~o.ok PROVE o.graph = r.graph
  <2>1. CASE ~q.ok
    BY <1>1, <1>2, <2>1 DEF Made
  <2>2. CASE q.ok
    <3>1. o.graph = Delete(n.graph, S) /\ n.graph = q.graph
      BY <1>1, <1>2, <1>4, <2>2
    <3>2. QED
      BY <2>2, <3>1 DEF Made
  <2>3. QED
    BY <2>1, <2>2
<1>5. ASSUME o.ok PROVE S \cap Ids(r.graph) = {} /\ Delete(o.graph, S) = r.graph
  <2> DEFINE H == WithEdge(q.graph, class, source, target)
  <2>1. q.ok /\ o.graph = H
    BY <1>1, <1>3, <1>5
  <2> DEFINE x == [class |-> class, source |-> source, target |-> target]
  <2>2. Delete(H, S) = Delete(q.graph, S)
    <3>1. H.nodes = q.graph.nodes /\ H.edges = q.graph.edges \cup {x}
      BY DEF WithEdge
    <3>2. x.source \in S \/ x.target \in S
      OBVIOUS
    <3> HIDE DEF x, H
    <3>3. {e \in H.edges : e.source \notin S /\ e.target \notin S}
            = {e \in q.graph.edges : e.source \notin S /\ e.target \notin S}
      BY <3>1, <3>2
    <3>4. QED
      BY <3>1, <3>3 DEF Delete, Ids
  <2> HIDE DEF H
  <2>3. QED
    BY <2>1, <2>2 DEF Made
<1> HIDE DEF o, n
<1>6. QED
  BY <1>1, <1>3, <1>4, <1>5 DEF Made, NewEdgeOr, o, n

-----------------------------------------------------------------------------
(* Ports and connections.                                                  *)

\* Elements have the fields and the class they are made with.
LEMMA ElementIs ==
  ASSUME NEW class \in Kinds, NEW name, NEW type
  PROVE  /\ IsElement(Element(class, name, type))
         /\ Element(class, name, type).class = class
BY DEF Element, IsElement, Fields

\* Derived and random IDs are not that of a stale facade.
LEMMA IDsAreNotStale ==
  /\ \A a, b : <<a, b>> # Stale
  /\ \A a, b, c : <<a, b, c>> # Stale
  /\ \A a, b, c, d : <<a, b, c, d>> # Stale
BY DEF Stale

\* A check changes nothing but whether all went well.
LEMMA RequireIs ==
  ASSUME NEW r, IsResult(r), NEW condition \in BOOLEAN
  PROVE  /\ Grows(Require(r, condition), r)
         /\ Require(r, condition).graph = r.graph
         /\ Require(r, condition).ok => condition
<1>1. PICK H, b : r = [graph |-> H, ok |-> b] /\ r.graph = H /\ r.ok = b /\ b \in BOOLEAN
  BY DEF IsResult
<1> DEFINE c == b /\ condition
<1>2. Require(r, condition) = [graph |-> H, ok |-> c]
  <2>1. \A v : [r EXCEPT !.ok = v] = [graph |-> H, ok |-> v]
    BY <1>1
  <2>2. Require(r, condition) = [r EXCEPT !.ok = r.ok /\ condition]
    BY DEF Require
  <2>3. QED
    BY <1>1, <2>1, <2>2, Zenon
<1>3. c \in BOOLEAN /\ (c => b /\ condition)
  BY <1>1
<1> HIDE DEF c
<1>4. Require(r, condition).graph = H /\ Require(r, condition).ok = c
  BY <1>2
<1>5. QED
  BY <1>1, <1>2, <1>3, <1>4, ExtendsReflexive DEF Grows, IsResult

\* An ID that AddNode has accepted was free.
LEMMA NewNodeFresh ==
  ASSUME NEW G, Inv(G), NEW id, id \notin Ids(G), id # Stale, NEW node, IsElement(node)
  PROVE  LET H == WithNode(G, id, node)
         IN  /\ id \in OfClass(H, node.class)
             /\ \A e \in H.edges : e.source # id /\ e.target # id
BY WithNodeKeeps DEF OfClass

\* What is a service, a port or a node stays one.
LEMMA ClassStays ==
  ASSUME NEW G, NEW H, Inv(G), Inv(H), Extends(G, H), NEW class, NEW n \in OfClass(H, class)
  PROVE  n \in OfClass(G, class)
BY ExtendsClass DEF OfClass

\* A port is added below a service, or nothing is.
LEMMA AddInterfaceIsAtomic ==
  ASSUME NEW r, IsResult(r), NEW s, r.ok => s \in Services(r.graph) \/ s = Stale,
         NEW p, p.id # Stale
  PROVE  LET q == AddInterfaceTo(r, s, p)
         IN  /\ \E id : Made(q, r, {id})
             /\ \A opts : p.type # "ServicePort" => Tidy(opts, q.graph, r.graph)
<1> DEFINE id   == ChooseID(p.id, <<"interface", NameOf(r.graph, s), p.name>>)
           node == Element("ConnectionPoint", p.name, p.type)
           port == NewNode(r, id, node)
<1>1. id # Stale
  BY IDsAreNotStale DEF ChooseID
<1>2. IsElement(node) /\ node.class = "ConnectionPoint"
  <2>1. "ConnectionPoint" \in Kinds
    BY DEF Kinds
  <2>2. QED
    BY <2>1, ElementIs
<1>3. AddInterfaceTo(r, s, p) = NewEdgeOr(port, "connects", s, id, {id})
  BY DEF AddInterfaceTo
<1>t. node.type = p.type
  BY DEF Element
<1> HIDE DEF id, node
<1>4. /\ Made(port, r, {id})
      /\ port.ok => r.ok /\ id \notin Ids(r.graph) /\ port.graph = WithNode(r.graph, id, node)
  BY <1>1, <1>2, MadeFirst
<1> HIDE DEF port
<1>5. ASSUME port.ok, s \in Ids(port.graph) PROVE Joinable(port.graph, "connects", s, id)
  <2>1. /\ id \in OfClass(port.graph, "ConnectionPoint")
        /\ \A e \in port.graph.edges : e.source # id /\ e.target # id
    BY <1>1, <1>2, <1>4, <1>5, NewNodeFresh DEF IsResult
  <2>2. s \in OfClass(port.graph, "NetworkService")
    <3>1. Inv(port.graph) /\ Extends(port.graph, r.graph) /\ Inv(r.graph)
      BY <1>4 DEF Made, Grows, IsResult
    <3>2. s # Stale
      BY <1>5, <3>1 DEF Inv, IsGraph
    <3>3. QED
      BY <1>4, <1>5, <3>1, <3>2, ClassStays DEF Services
  <2>3. QED
    BY <2>1, <2>2 DEF Joinable, OfClass, EdgeShapes
<1>6. id \in {id}
  OBVIOUS
<1>7. Made(NewEdgeOr(port, "connects", s, id, {id}), r, {id})
  BY <1>4, <1>5, <1>6, MadeEdge
<1>8. ASSUME NEW opts, node.type # "ServicePort"
      PROVE  Tidy(opts, NewEdgeOr(port, "connects", s, id, {id}).graph, r.graph)
  <2>1. MayAdd(opts, r.graph, id, node)
    BY <1>2, <1>8 DEF MayAdd
  <2>2. Tidy(opts, port.graph, r.graph)
    BY <1>1, <1>2, <2>1, TidyNode, TidyReflexive, GrowsReflexive DEF port
  <2>3. port.ok => port.graph.nodes[id] = node
    BY <1>4 DEF WithNode
  <2>4. QED
    BY <1>2, <1>4, <1>5, <2>2, <2>3, TidyEdgeOr DEF Made
<1>9. QED
  BY <1>3, <1>7, <1>8, <1>t

\* A sub-interface is added below a port, or nothing is.
LEMMA AddChildIsAtomic ==
  ASSUME NEW r, IsResult(r), NEW i, r.ok => i \in Ports(r.graph) \/ i = Stale,
         NEW c, c.id # Stale
  PROVE  LET q == AddChildInterfaceTo(r, i, c)
         IN  /\ \E id : Made(q, r, {id})
             /\ \A opts : Tidy(opts, q.graph, r.graph)
<1> DEFINE id    == ChooseID(c.id, <<"interface", NameOf(r.graph, i), c.name>>)
           node  == [Element("ConnectionPoint", c.name, "SubInterface") EXCEPT !.vlan = c.vlan]
           legal == /\ TypeOf(r.graph, i) = "DedicatedPort"
                    /\ c.vlan # NoVLAN
                    /\ \A other \in ChildInterfaces(r.graph, i) : VLANOf(r.graph, other) # c.vlan
           q     == Require(r, legal)
           child == NewNode(q, id, node)
<1>1. id # Stale
  BY IDsAreNotStale DEF ChooseID
<1>2. IsElement(node) /\ node.class = "ConnectionPoint" /\ node.type = "SubInterface"
  BY DEF Element, IsElement, Fields, Kinds
<1>3. AddChildInterfaceTo(r, i, c) = NewEdgeOr(child, "connects", i, id, {id})
  BY DEF AddChildInterfaceTo
<1>4. legal \in BOOLEAN
  OBVIOUS
<1> HIDE DEF id, node, legal
<1>5. Grows(q, r) /\ q.graph = r.graph
  BY <1>4, RequireIs
<1> HIDE DEF q
<1>6. /\ Made(child, q, {id})
      /\ child.ok => q.ok /\ id \notin Ids(q.graph) /\ child.graph = WithNode(q.graph, id, node)
  BY <1>1, <1>2, <1>5, MadeFirst DEF Grows
<1>7. Made(child, r, {id})
  BY <1>5, <1>6, GrowsTransitive DEF Made
<1> HIDE DEF child
<1>8. ASSUME child.ok, i \in Ids(child.graph) PROVE Joinable(child.graph, "connects", i, id)
  <2>1. /\ id \in OfClass(child.graph, "ConnectionPoint")
        /\ \A e \in child.graph.edges : e.source # id /\ e.target # id
    BY <1>1, <1>2, <1>5, <1>6, <1>8, NewNodeFresh DEF IsResult
  <2>2. i \in OfClass(child.graph, "ConnectionPoint")
    <3>1. Inv(child.graph) /\ Extends(child.graph, r.graph) /\ Inv(r.graph) /\ r.ok
      BY <1>7, <1>8 DEF Made, Grows, IsResult
    <3>2. i # Stale
      BY <1>8, <3>1 DEF Inv, IsGraph
    <3>3. QED
      BY <3>1, <3>2, ClassStays DEF Ports
  <2>3. QED
    BY <2>1, <2>2 DEF Joinable, OfClass, EdgeShapes
<1>9. id \in {id}
  OBVIOUS
<1>10. Made(NewEdgeOr(child, "connects", i, id, {id}), r, {id})
  BY <1>7, <1>8, <1>9, MadeEdge
<1>11. ASSUME NEW opts PROVE Tidy(opts, NewEdgeOr(child, "connects", i, id, {id}).graph, r.graph)
  <2>1. MayAdd(opts, q.graph, id, node)
    BY <1>2 DEF MayAdd
  <2>2. Tidy(opts, q.graph, r.graph) /\ IsResult(q)
    BY <1>5, TidyReflexive DEF Grows
  <2>3. Tidy(opts, child.graph, r.graph)
    BY <1>1, <1>2, <1>5, <2>1, <2>2, TidyNode DEF child
  <2>4. child.ok => child.graph.nodes[id] = node /\ id \notin Ids(r.graph)
    BY <1>5, <1>6 DEF WithNode
  <2>5. QED
    BY <1>2, <1>7, <1>8, <2>3, <2>4, TidyEdgeOr DEF Made
<1>12. QED
  BY <1>3, <1>10, <1>11

\* H is G and a ServicePort sp of s that attaches i by link.
Connected(H, G, s, i, sp, link) ==
  /\ {sp, link} \cap Ids(G) = {} /\ sp # link /\ s \in Ids(G) /\ i \in Ids(G)
  /\ Ids(H) = Ids(G) \cup {sp, link}
  /\ \A n \in Ids(G) : H.nodes[n] = G.nodes[n]
  /\ H.nodes[sp].class = "ConnectionPoint" /\ H.nodes[sp].type = "ServicePort"
  /\ H.nodes[link].class = "Link"
  /\ H.edges = G.edges \cup {[class |-> "connects", source |-> s, target |-> sp],
                             [class |-> "connects", source |-> i, target |-> link],
                             [class |-> "connects", source |-> sp, target |-> link]}

\* A port is attached to a service by a ServicePort and a Link, with all three
\* edges, or nothing is added.
LEMMA ConnectIsAtomic ==
  ASSUME NEW r, IsResult(r), NEW s, r.ok => s \in Services(r.graph),
         NEW i, r.ok => i \in Ports(r.graph) \/ i = Stale
  PROVE  LET q    == ConnectTo(r, s, i)
             sp   == ServicePortID(r.graph, s, i)
             link == LinkID(r.graph, s, i)
         IN  Made(q, r, {sp, link}) /\ (q.ok => r.ok /\ Connected(q.graph, r.graph, s, i, sp, link))
<1> DEFINE G      == r.graph
           sp     == ServicePortID(G, s, i)
           link   == LinkID(G, s, i)
           prefix == IF ParentNodeName(G, i) # NoName THEN ParentNodeName(G, i) ELSE NameOf(G, s)
           name   == prefix \o NameOf(G, i)
           type   == IF TypeOf(G, i) = "SharedPort" THEN "L2Path" ELSE "Patch"
           port   == Element("ConnectionPoint", name, "ServicePort")
           cable  == Element("Link", name \o <<"link">>, type)
           r1 == NewNode(r, sp, port)
           r2 == NewNodeOr(r1, link, cable, {sp})
           r3 == NewEdgeOr(r2, "connects", s, sp, {sp, link})
           r4 == NewEdgeOr(r3, "connects", i, link, {sp, link})
           r5 == NewEdgeOr(r4, "connects", sp, link, {sp, link})
<1>1. sp # Stale /\ link # Stale
  BY IDsAreNotStale DEF ServicePortID, LinkID
<1>2. /\ IsElement(port) /\ port.class = "ConnectionPoint"
      /\ IsElement(cable) /\ cable.class = "Link"
  <2>1. "ConnectionPoint" \in Kinds /\ "Link" \in Kinds
    BY DEF Kinds
  <2>2. QED
    BY <2>1, ElementIs
<1>3. ConnectTo(r, s, i) = r5
  BY DEF ConnectTo
<1> HIDE DEF sp, link, port, cable
<1>4. /\ Made(r1, r, {sp})
      /\ r1.ok => r.ok /\ sp \notin Ids(G) /\ r1.graph = WithNode(G, sp, port)
  BY <1>1, <1>2, MadeFirst
<1> HIDE DEF r1
<1>5. /\ Made(r2, r, {sp} \cup {link})
      /\ r2.ok => r1.ok /\ link \notin Ids(r1.graph) /\ r2.graph = WithNode(r1.graph, link, cable)
  BY <1>1, <1>2, <1>4, MadeNode
<1>6. {sp} \cup {link} = {sp, link}
  OBVIOUS
<1> HIDE DEF r2
<1>7. Made(r2, r, {sp, link})
  BY <1>5, <1>6
\* What is where once both elements are there.
<1>8. ASSUME r2.ok
      PROVE  /\ sp \in OfClass(r2.graph, "ConnectionPoint") /\ link \in OfClass(r2.graph, "Link")
             /\ s \in OfClass(r2.graph, "NetworkService")
             /\ i \in OfClass(r2.graph, "ConnectionPoint") \/ i \notin Ids(r2.graph)
             /\ \A e \in r2.graph.edges : e.target # sp
             /\ Inv(r2.graph)
  <2>1. /\ Inv(G) /\ Inv(r1.graph) /\ Inv(r2.graph) /\ Extends(r1.graph, G) /\ Extends(r2.graph, G)
    BY <1>4, <1>5 DEF Made, Grows, IsResult
  <2>2. /\ sp \in OfClass(r1.graph, "ConnectionPoint")
        /\ \A e \in r1.graph.edges : e.target # sp
    BY <1>1, <1>2, <1>4, <1>5, <1>8, <2>1, NewNodeFresh
  <2>3. /\ link \in OfClass(r2.graph, "Link")
        /\ Extends(r2.graph, r1.graph) /\ r2.graph.edges = r1.graph.edges
    BY <1>1, <1>2, <1>5, <1>8, <2>1, NewNodeFresh, WithNodeKeeps
  <2>4. sp \in OfClass(r2.graph, "ConnectionPoint")
    BY <2>1, <2>2, <2>3, ClassStays
  <2>5. s \in OfClass(r2.graph, "NetworkService")
    BY <1>4, <1>5, <1>8, <2>1, ClassStays DEF Services
  <2>6. i \in OfClass(r2.graph, "ConnectionPoint") \/ i \notin Ids(r2.graph)
    BY <1>4, <1>5, <1>8, <2>1, ClassStays DEF Ports, Inv, IsGraph
  <2>7. QED
    BY <2>1, <2>2, <2>3, <2>4, <2>5, <2>6
<1>9. sp \in {sp, link} /\ link \in {sp, link}
  OBVIOUS
<1>10. ASSUME r2.ok PROVE Joinable(r2.graph, "connects", s, sp)
  BY <1>8, <1>10 DEF Joinable, OfClass, EdgeShapes
<1>11. /\ Made(r3, r, {sp, link})
       /\ r3.ok => r2.ok /\ r3.graph = WithEdge(r2.graph, "connects", s, sp)
  BY <1>7, <1>9, <1>10, MadeEdge
<1> HIDE DEF r3
<1>12. ASSUME r3.ok, i \in Ids(r3.graph) PROVE Joinable(r3.graph, "connects", i, link)
  <2>1. r3.graph.nodes = r2.graph.nodes
    BY <1>11, <1>12 DEF WithEdge
  <2>2. QED
    BY <1>8, <1>11, <1>12, <2>1 DEF Joinable, OfClass, EdgeShapes, Ids
<1>13. /\ Made(r4, r, {sp, link})
       /\ r4.ok => r3.ok /\ i \in Ids(r3.graph) /\ r4.graph = WithEdge(r3.graph, "connects", i, link)
  BY <1>9, <1>11, <1>12, MadeEdge
<1> HIDE DEF r4
<1>14. ASSUME r4.ok PROVE Joinable(r4.graph, "connects", sp, link)
  <2>1. r4.graph.nodes = r2.graph.nodes /\ r2.ok
    BY <1>11, <1>13, <1>14 DEF WithEdge
  <2>2. QED
    BY <1>8, <2>1 DEF Joinable, OfClass, EdgeShapes, Ids
<1>15. /\ Made(r5, r, {sp, link})
       /\ r5.ok => r4.ok /\ r5.graph = WithEdge(r4.graph, "connects", sp, link)
  BY <1>9, <1>13, <1>14, MadeEdge
<1> HIDE DEF r4, r5
<1>16. ASSUME r5.ok PROVE r.ok /\ Connected(r5.graph, G, s, i, sp, link)
  <2>1. r.ok /\ r1.ok /\ r2.ok /\ r3.ok /\ r4.ok /\ Inv(G)
    BY <1>4, <1>5, <1>11, <1>13, <1>15, <1>16 DEF IsResult
  <2>2. /\ sp \notin Ids(G) /\ r1.graph = WithNode(G, sp, port)
        /\ link \notin Ids(r1.graph) /\ r2.graph = WithNode(r1.graph, link, cable)
    BY <1>4, <1>5, <2>1
  <2>3. /\ Ids(r1.graph) = Ids(G) \cup {sp} /\ r1.graph.nodes[sp] = port /\ r1.graph.edges = G.edges
        /\ \A n \in Ids(G) : r1.graph.nodes[n] = G.nodes[n]
    BY <1>1, <1>2, <2>1, <2>2, WithNodeKeeps
  <2>4. Inv(r1.graph)
    BY <1>4 DEF Made, Grows, IsResult
  <2>5. /\ Ids(r2.graph) = Ids(r1.graph) \cup {link} /\ r2.graph.nodes[link] = cable
        /\ r2.graph.edges = r1.graph.edges
        /\ \A n \in Ids(r1.graph) : r2.graph.nodes[n] = r1.graph.nodes[n]
    BY <1>1, <1>2, <2>2, <2>4, WithNodeKeeps
  <2>6. /\ r5.graph.nodes = r2.graph.nodes
        /\ r5.graph.edges = G.edges \cup {[class |-> "connects", source |-> s, target |-> sp],
                                          [class |-> "connects", source |-> i, target |-> link],
                                          [class |-> "connects", source |-> sp, target |-> link]}
    BY <1>11, <1>13, <1>15, <1>16, <2>1, <2>3, <2>5 DEF WithEdge
  <2>7. s \in Ids(G)
    BY <2>1 DEF Services, OfClass
  <2>8. i \in Ids(G)
    <3>1. i \in Ids(r3.graph)
      BY <1>13, <2>1
    <3>2. Stale \notin Ids(r3.graph)
      BY <1>11 DEF Made, Grows, IsResult, Inv, IsGraph
    <3>3. QED
      BY <2>1, <3>1, <3>2 DEF Ports, OfClass
  <2>9. port.type = "ServicePort"
    BY DEF port, Element
  <2>10. Ids(r5.graph) = Ids(r2.graph)
    BY <2>6 DEF Ids
  <2>11. QED
    BY <1>2, <2>1, <2>2, <2>3, <2>5, <2>6, <2>7, <2>8, <2>9, <2>10 DEF Connected
<1>17. QED
  BY <1>3, <1>15, <1>16 DEF sp, link

-----------------------------------------------------------------------------
(* Attachments.                                                            *)

IsServicePort(G, p) ==
  p \in Ids(G) /\ G.nodes[p].class = "ConnectionPoint" /\ G.nodes[p].type = "ServicePort"

Joined(G, a, b) == \E e \in G.edges : e.class = "connects" /\ e.source = a /\ e.target = b
Owned(G, n)     == \E e \in G.edges : e.class = "has" /\ e.target = n

\* A port that may be attached: all services it is on belong to somebody.
Attachable(G, i) ==
  /\ i \in Ports(G) /\ G.nodes[i].type # "ServicePort"
  /\ \A s \in Services(G) : Joined(G, s, i) => Owned(G, s)

\* It is on a service, or below another port.
OnService(G, i) == G.nodes[i].type = "SubInterface" \/ \E s \in Services(G) : Joined(G, s, i)

\* p attaches i by l and by nothing else; its ID is that of the attachment; and i
\* is still where it was when it was attached.
Attaches(G, p, l, i) ==
  /\ l \in Links(G) /\ Attachable(G, i)
  /\ Joined(G, p, l) /\ Joined(G, i, l)
  /\ \A e \in G.edges : e.target = l => e.source \in {p, i}
  /\ \A e \in G.edges : e.source = p /\ G.nodes[e.target].class = "Link" => e.target = l
  /\ \A s \in Services(G) : Joined(G, s, p) =>
       p = <<"interface", G.nodes[s].name, i>> /\ OnService(G, i)

PeersInv(G) == \A p : IsServicePort(G, p) => \E l, i : Attaches(G, p, l, i)

\* Services and nodes have the IDs and the names that the caller gives them, and
\* no two nodes have one.
NamesInv(opts, G) ==
  /\ \A s \in Services(G) : OwnName(opts, s, G.nodes[s].name)
  /\ \A n \in NetworkNodes(G) :
       /\ G.nodes[n].name \in NamesOfNodes(opts)
       /\ \A m \in NetworkNodes(G) : G.nodes[m].name = G.nodes[n].name => m = n

Neat(opts, G) == PeersInv(G) /\ NamesInv(opts, G)

\* What may be attached may still be after a tidy call.
LEMMA TidyAttachable ==
  ASSUME NEW opts, NEW G, NEW H, Inv(G), Inv(H), Extends(H, G), Tidy(opts, H, G),
         NEW i, Attachable(G, i)
  PROVE  Attachable(H, i) /\ (OnService(G, i) => OnService(H, i))
<1>0. G.edges \subseteq H.edges /\ i \in Ids(G)
  BY DEF Extends, Attachable, Ports, OfClass
<1>1. \A n \in Ids(G) : /\ n \in Ids(H) /\ H.nodes[n].class = G.nodes[n].class
                        /\ H.nodes[n].name = G.nodes[n].name /\ H.nodes[n].type = G.nodes[n].type
  BY ExtendsElement
<1>2. ASSUME NEW s \in Services(H), Joined(H, s, i) PROVE Owned(H, s)
  <2>1. PICK e \in H.edges : e.class = "connects" /\ e.source = s /\ e.target = i
    BY <1>2 DEF Joined
  <2>2. e \in G.edges
    BY <1>0, <1>2, <2>1 DEF Tidy, Services, OfClass
  <2>3. s \in Services(G) /\ Joined(G, s, i)
    BY <1>1, <1>2, <2>1, <2>2 DEF Services, OfClass, Inv, Shaped, Joined
  <2>4. QED
    BY <1>0, <2>3 DEF Attachable, Owned
<1>3. OnService(G, i) => OnService(H, i)
  BY <1>0, <1>1 DEF OnService, Services, OfClass, Joined
<1>4. QED
  BY <1>0, <1>1, <1>2, <1>3 DEF Attachable, Ports, OfClass

\* A tidy call keeps attachments and names.
LEMMA TidyKeeps ==
  ASSUME NEW opts, NEW G, NEW H, Inv(G), Inv(H), Extends(H, G), Tidy(opts, H, G), Neat(opts, G)
  PROVE  Neat(opts, H)
<1>0. G.edges \subseteq H.edges
  BY DEF Extends
<1>1. \A n \in Ids(G) : /\ n \in Ids(H) /\ H.nodes[n].class = G.nodes[n].class
                        /\ H.nodes[n].name = G.nodes[n].name /\ H.nodes[n].type = G.nodes[n].type
  BY ExtendsElement
<1>2. \A e \in G.edges : e.source \in Ids(G) /\ e.target \in Ids(G)
  BY DEF Inv, Shaped
<1>3. ASSUME NEW p, IsServicePort(H, p) PROVE \E l, i : Attaches(H, p, l, i)
  <2>1. p \in Ids(G)
    BY <1>3 DEF IsServicePort, Tidy
  <2>2. PICK l, i : Attaches(G, p, l, i)
    BY <1>1, <1>3, <2>1 DEF IsServicePort, Neat, PeersInv
  <2>3. Attachable(H, i) /\ (OnService(G, i) => OnService(H, i))
    BY <2>2, TidyAttachable DEF Attaches
  <2>4. l \in Links(H) /\ Joined(H, p, l) /\ Joined(H, i, l)
    BY <1>0, <1>1, <2>2 DEF Attaches, Joined, Links, OfClass
  <2>5. \A e \in H.edges : H.nodes[e.target].class = "Link" => e \in G.edges /\ G.nodes[e.target].class = "Link"
    BY <1>1, <1>2 DEF Tidy
  <2>6. \A e \in H.edges : e.target = l => e.source \in {p, i}
    BY <2>2, <2>4, <2>5 DEF Attaches, Links, OfClass
  <2>7. \A e \in H.edges : e.source = p /\ H.nodes[e.target].class = "Link" => e.target = l
    BY <2>2, <2>5 DEF Attaches
  <2>8. ASSUME NEW s \in Services(H), Joined(H, s, p)
        PROVE  p = <<"interface", H.nodes[s].name, i>> /\ OnService(H, i)
    <3>1. PICK e \in H.edges : e.class = "connects" /\ e.source = s /\ e.target = p
      BY <2>8 DEF Joined
    <3>2. e \in G.edges
      BY <2>1, <2>8, <3>1 DEF Tidy, Services, OfClass
    <3>3. s \in Services(G) /\ Joined(G, s, p) /\ G.nodes[s].name = H.nodes[s].name
      BY <1>1, <1>2, <2>8, <3>1, <3>2 DEF Joined, Services, OfClass
    <3>4. QED
      BY <2>2, <2>3, <3>3 DEF Attaches
  <2>9. Attaches(H, p, l, i)
    BY <2>3, <2>4, <2>6, <2>7, <2>8 DEF Attaches
  <2>10. QED
    BY <2>9
<1>4. \A s \in Services(H) : OwnName(opts, s, H.nodes[s].name)
  BY <1>1 DEF Tidy, Neat, NamesInv, Services, OfClass
<1>5. ASSUME NEW n \in NetworkNodes(H) PROVE H.nodes[n].name \in NamesOfNodes(opts)
  BY <1>1 DEF Tidy, Neat, NamesInv, NetworkNodes, OfClass
<1>6. ASSUME NEW n \in NetworkNodes(H), NEW m \in NetworkNodes(H), H.nodes[m].name = H.nodes[n].name
      PROVE  m = n
  <2>1. CASE n \in Ids(G) /\ m \in Ids(G)
    BY <1>1, <1>6, <2>1 DEF Neat, NamesInv, NetworkNodes, OfClass
  <2>2. CASE n \notin Ids(G) \/ m \notin Ids(G)
    BY <1>6, <2>2 DEF Tidy, NetworkNodes, OfClass
  <2>3. QED
    BY <2>1, <2>2
<1>7. QED
  BY <1>3, <1>4, <1>5, <1>6 DEF Neat, PeersInv, NamesInv

\* What a deletion must spare for the attachments that stay to be whole: their
\* links and interfaces, the owners of services that stay, and the services of
\* attached interfaces.
Spares(G, S) ==
  /\ \A p, l, i : IsServicePort(G, p) /\ p \notin S /\ Attaches(G, p, l, i) => l \notin S /\ i \notin S
  /\ \A e \in G.edges : e.class = "has" /\ e.source \in S => e.target \in S
  /\ \A p, l, i, s, t :
       /\ IsServicePort(G, p) /\ p \notin S /\ Attaches(G, p, l, i)
       /\ s \in Services(G) \ S /\ Joined(G, s, p)
       /\ t \in Services(G) /\ Joined(G, t, i)
       => t \notin S

\* What is left after a deletion.
LEMMA DeleteIs ==
  ASSUME NEW G, NEW S
  PROVE  LET H == Delete(G, S)
         IN  /\ Ids(H) = Ids(G) \ S
             /\ \A n \in Ids(H) : H.nodes[n] = G.nodes[n]
             /\ H.edges = {e \in G.edges : e.source \notin S /\ e.target \notin S}
BY DEF Delete, Ids

\* Such a deletion keeps attachments; names stay anyway.
LEMMA SparingKeeps ==
  ASSUME NEW opts, NEW G, Inv(G), Neat(opts, G), NEW S, Spares(G, S)
  PROVE  Neat(opts, Delete(G, S))
<1> DEFINE H == Delete(G, S)
<1>1. /\ Ids(H) = Ids(G) \ S
      /\ \A n \in Ids(H) : H.nodes[n] = G.nodes[n]
      /\ H.edges = {e \in G.edges : e.source \notin S /\ e.target \notin S}
  BY DeleteIs
<1>2. \A e \in G.edges : e.source \in Ids(G) /\ e.target \in Ids(G)
  BY DEF Inv, Shaped
<1> HIDE DEF H
<1>3. /\ \A a, b : Joined(H, a, b) => Joined(G, a, b)
      /\ \A a, b : Joined(G, a, b) /\ a \notin S /\ b \notin S => Joined(H, a, b)
  BY <1>1 DEF Joined
<1>4. \A n : Owned(G, n) /\ n \notin S => Owned(H, n)
  BY <1>1 DEF Owned, Spares
<1>5. /\ Services(H) = Services(G) \ S /\ NetworkNodes(H) = NetworkNodes(G) \ S
      /\ Links(H) = Links(G) \ S /\ Ports(H) = Ports(G) \ S
  BY <1>1 DEF Services, NetworkNodes, Links, Ports, OfClass
<1>6. ASSUME NEW i, Attachable(G, i), i \notin S PROVE Attachable(H, i)
  BY <1>1, <1>3, <1>4, <1>5, <1>6 DEF Attachable, Ports, OfClass
<1>7. ASSUME NEW p, IsServicePort(H, p) PROVE \E l, i : Attaches(H, p, l, i)
  <2>1. IsServicePort(G, p) /\ p \notin S
    BY <1>1, <1>7 DEF IsServicePort
  <2>2. PICK l, i : Attaches(G, p, l, i)
    BY <2>1 DEF Neat, PeersInv
  <2>3. l \notin S /\ i \notin S
    BY <2>1, <2>2 DEF Spares
  <2>4. Attachable(H, i) /\ l \in Links(H) /\ Joined(H, p, l) /\ Joined(H, i, l)
    BY <1>3, <1>5, <1>6, <2>1, <2>2, <2>3 DEF Attaches
  <2>5. /\ \A e \in H.edges : e.target = l => e.source \in {p, i}
        /\ \A e \in H.edges : e.source = p /\ H.nodes[e.target].class = "Link" => e.target = l
    BY <1>1, <1>2, <2>2 DEF Attaches
  <2>6. ASSUME NEW s \in Services(H), Joined(H, s, p)
        PROVE  p = <<"interface", H.nodes[s].name, i>> /\ OnService(H, i)
    <3>1. s \in Services(G) \ S /\ Joined(G, s, p) /\ H.nodes[s] = G.nodes[s]
      BY <1>1, <1>3, <1>5, <2>6 DEF Services, OfClass
    <3>2. p = <<"interface", G.nodes[s].name, i>> /\ OnService(G, i)
      BY <2>2, <3>1 DEF Attaches
    <3>3. \A t \in Services(G) : Joined(G, t, i) => t \in Services(H) /\ Joined(H, t, i)
      BY <1>3, <1>5, <2>1, <2>2, <2>3, <3>1 DEF Spares
    <3>4. H.nodes[i] = G.nodes[i]
      BY <1>1, <2>2, <2>3 DEF Attaches, Attachable, Ports, OfClass
    <3>5. QED
      BY <3>1, <3>2, <3>3, <3>4 DEF OnService
  <2>7. Attaches(H, p, l, i)
    BY <2>4, <2>5, <2>6 DEF Attaches
  <2>8. QED
    BY <2>7
<1>8. NamesInv(opts, H)
  BY <1>1, <1>5 DEF Neat, NamesInv, Services, NetworkNodes, OfClass
<1>9. QED
  BY <1>7, <1>8 DEF Neat, PeersInv, H

\* Attaching an interface that may be attached keeps all other attachments, and
\* all that may be attached.
LEMMA ConnectKeeps ==
  ASSUME NEW opts, NEW r, IsResult(r), Neat(opts, r.graph), NEW s, r.ok => s \in Services(r.graph),
         NEW i, r.ok => Attachable(r.graph, i) /\ OnService(r.graph, i)
  PROVE  LET q == ConnectTo(r, s, i)
         IN  /\ Neat(opts, q.graph)
             /\ \A j : Attachable(r.graph, j) => Attachable(q.graph, j)
             /\ \A j : Attachable(r.graph, j) /\ OnService(r.graph, j) => OnService(q.graph, j)
             /\ \A e \in q.graph.edges : e \in r.graph.edges \/ IsServicePort(q.graph, e.target)
                                           \/ q.graph.nodes[e.target].class = "Link"
<1> DEFINE q    == ConnectTo(r, s, i)
           G    == r.graph
           H    == q.graph
           sp   == ServicePortID(G, s, i)
           link == LinkID(G, s, i)
<1>1. Made(q, r, {sp, link}) /\ (q.ok => r.ok /\ Connected(H, G, s, i, sp, link))
  BY ConnectIsAtomic DEF Attachable
<1>2. Inv(G) /\ Inv(H)
  BY <1>1 DEF Made, Grows, IsResult
<1>3. sp = <<"interface", NameOf(G, s), i>>
  BY DEF ServicePortID
<1> HIDE DEF q, sp, link
<1>4. CASE ~q.ok
  BY <1>1, <1>4 DEF Made, q
<1>5. CASE q.ok
  <2>1. /\ {sp, link} \cap Ids(G) = {} /\ sp # link /\ s \in Ids(G) /\ i \in Ids(G)
        /\ Ids(H) = Ids(G) \cup {sp, link}
        /\ \A n \in Ids(G) : H.nodes[n] = G.nodes[n]
        /\ H.nodes[sp].class = "ConnectionPoint" /\ H.nodes[sp].type = "ServicePort"
        /\ H.nodes[link].class = "Link"
    BY <1>1, <1>5 DEF Connected
  <2>2. PICK x, y, z : /\ x.class = "connects" /\ x.source = s /\ x.target = sp
                       /\ y.class = "connects" /\ y.source = i /\ y.target = link
                       /\ z.class = "connects" /\ z.source = sp /\ z.target = link
                       /\ H.edges = G.edges \cup {x, y, z}
    <3> DEFINE x == [class |-> "connects", source |-> s, target |-> sp]
               y == [class |-> "connects", source |-> i, target |-> link]
               z == [class |-> "connects", source |-> sp, target |-> link]
    <3>1. /\ x.class = "connects" /\ x.source = s /\ x.target = sp
          /\ y.class = "connects" /\ y.source = i /\ y.target = link
          /\ z.class = "connects" /\ z.source = sp /\ z.target = link
      OBVIOUS
    <3>2. H.edges = G.edges \cup {x, y, z}
      BY <1>1, <1>5 DEF Connected
    <3> HIDE DEF x, y, z
    <3>3. QED
      BY <3>1, <3>2
  <2>3. \A e \in G.edges : e.source \in Ids(G) /\ e.target \in Ids(G)
    BY <1>2 DEF Inv, Shaped
  <2>4. s \in Services(G) /\ Attachable(G, i) /\ OnService(G, i)
    BY <1>1, <1>5
  <2> HIDE DEF G, H
  <2>5. G.nodes[s].class = "NetworkService" /\ G.nodes[i].class = "ConnectionPoint"
    BY <2>4 DEF Services, Attachable, Ports, OfClass
  <2>6. /\ Services(H) = Services(G) /\ NetworkNodes(H) = NetworkNodes(G)
        /\ Links(H) = Links(G) \cup {link} /\ Ports(H) = Ports(G) \cup {sp}
    BY <2>1 DEF Services, NetworkNodes, Links, Ports, OfClass
  <2>7. \A a, b : Joined(H, a, b) <=> \/ Joined(G, a, b)
                                      \/ <<a, b>> \in {<<s, sp>>, <<i, link>>, <<sp, link>>}
    BY <2>2 DEF Joined
  <2>8. \A n : Owned(G, n) => Owned(H, n)
    BY <2>2 DEF Owned
  <2>9. ASSUME NEW j, Attachable(G, j) PROVE Attachable(H, j)
    <3>1. j \in Ids(G) /\ j \in Ports(H) /\ H.nodes[j].type # "ServicePort"
      BY <2>1, <2>6, <2>9 DEF Attachable, Ports, OfClass
    <3>2. ASSUME NEW t \in Services(H), Joined(H, t, j) PROVE Owned(H, t)
      <4>1. Joined(G, t, j)
        BY <2>1, <2>7, <3>1, <3>2
      <4>2. QED
        BY <2>6, <2>8, <2>9, <4>1 DEF Attachable
    <3>3. QED
      BY <3>1, <3>2 DEF Attachable
  <2>10. ASSUME NEW j, Attachable(G, j), OnService(G, j) PROVE OnService(H, j)
    BY <2>1, <2>6, <2>7, <2>10 DEF OnService, Attachable, Ports, OfClass
  <2>11. \A e \in H.edges : \/ e \in G.edges \/ IsServicePort(H, e.target)
                            \/ H.nodes[e.target].class = "Link"
    BY <2>1, <2>2 DEF IsServicePort
  <2>12. Attaches(H, sp, link, i)
    <3>1. link \in Links(H) /\ Attachable(H, i) /\ Joined(H, sp, link) /\ Joined(H, i, link)
      BY <2>4, <2>6, <2>7, <2>9
    <3>2. /\ \A e \in H.edges : e.target = link => e.source \in {sp, i}
          /\ \A e \in H.edges : e.source = sp /\ H.nodes[e.target].class = "Link" => e.target = link
      BY <2>1, <2>2, <2>3
    <3>3. ASSUME NEW t \in Services(H), Joined(H, t, sp)
          PROVE  sp = <<"interface", H.nodes[t].name, i>> /\ OnService(H, i)
      <4>1. t = s
        BY <2>1, <2>3, <2>7, <3>3 DEF Joined
      <4>2. H.nodes[s].name = NameOf(G, s)
        BY <2>1 DEF NameOf
      <4>3. QED
        BY <1>3, <2>4, <2>10, <4>1, <4>2 DEF G
    <3>4. QED
      BY <3>1, <3>2, <3>3 DEF Attaches
  <2>13. ASSUME NEW p, IsServicePort(H, p), p # sp PROVE \E l, j : Attaches(H, p, l, j)
    <3>1. IsServicePort(G, p)
      BY <2>1, <2>13 DEF IsServicePort
    <3>2. PICK l, j : Attaches(G, p, l, j)
      BY <3>1 DEF Neat, PeersInv, G
    <3>3. l \in Ids(G) /\ p \in Ids(G) /\ i # p
      BY <2>4, <3>1, <3>2 DEF Attaches, Links, OfClass, IsServicePort, Attachable
    <3>4. l \in Links(H) /\ Attachable(H, j) /\ Joined(H, p, l) /\ Joined(H, j, l)
      BY <2>6, <2>7, <2>9, <3>2 DEF Attaches
    <3>5. \A e \in H.edges : e.target = l => e.source \in {p, j}
      BY <2>1, <2>2, <3>2, <3>3 DEF Attaches
    <3>6. \A e \in H.edges : e.source = p /\ H.nodes[e.target].class = "Link" => e.target = l
      BY <2>1, <2>2, <2>3, <2>5, <3>2, <3>3 DEF Attaches
    <3>7. ASSUME NEW t \in Services(H), Joined(H, t, p)
          PROVE  p = <<"interface", H.nodes[t].name, j>> /\ OnService(H, j)
      <4>1. Joined(G, t, p) /\ t \in Services(G) /\ t \in Ids(G)
        BY <2>1, <2>6, <2>7, <3>3, <3>7 DEF Services, OfClass
      <4>2. QED
        BY <2>1, <2>10, <3>2, <4>1 DEF Attaches
    <3>8. QED
      BY <3>4, <3>5, <3>6, <3>7 DEF Attaches
  <2>14. NamesInv(opts, H)
    BY <2>1, <2>6 DEF Neat, NamesInv, Services, NetworkNodes, OfClass, G
  <2>15. Neat(opts, H)
    BY <2>12, <2>13, <2>14 DEF Neat, PeersInv
  <2>16. QED
    BY <2>9, <2>10, <2>11, <2>15 DEF q, G, H
<1>6. QED
  BY <1>4, <1>5

-----------------------------------------------------------------------------
(* Detaching.                                                              *)

\* What joins an interface to its peers.
LEMMA PeersAre ==
  ASSUME NEW G, Inv(G), NEW i, NEW p
  PROVE  p \in GetPeers(G, i) <=> /\ p \in Ports(G) /\ p # i
                                  /\ \E l \in Links(G) : Joined(G, i, l) /\ Joined(G, p, l)
<1>1. \A a, b : b \in Outgoing(G, a, "connects") <=> Joined(G, a, b)
  BY DEF Outgoing, Joined
<1>2. \A a, b : a \in Incoming(G, b, "connects") <=> Joined(G, a, b)
  BY DEF Incoming, Joined
<1>3. QED
  BY <1>1, <1>2 DEF GetPeers

\* A ServicePort has the one peer that it attaches.
LEMMA OnePeerIs ==
  ASSUME NEW G, Inv(G), NEW p, NEW l, NEW i, Attaches(G, p, l, i), IsServicePort(G, p)
  PROVE  GetPeers(G, p) = {i}
<1>1. i \in Ports(G) /\ i # p /\ l \in Links(G) /\ Joined(G, p, l) /\ Joined(G, i, l)
  BY DEF Attaches, Attachable, IsServicePort
<1>2. i \in GetPeers(G, p)
  BY <1>1, PeersAre
<1>3. ASSUME NEW j \in GetPeers(G, p) PROVE j = i
  <2>1. PICK m \in Links(G) : Joined(G, p, m) /\ Joined(G, j, m) /\ j # p
    BY <1>3, PeersAre
  <2>2. m = l
    BY <2>1 DEF Attaches, Joined, Links, OfClass
  <2>3. QED
    BY <2>1, <2>2 DEF Attaches, Joined
<1>4. QED
  BY <1>2, <1>3

\* What DisconnectInterface finds is the one ServicePort by which the interface
\* is attached.
LEMMA AttachmentIs ==
  ASSUME NEW G, Inv(G), PeersInv(G), NEW s, NEW i, NEW p \in Attachments(G, s, i)
  PROVE  /\ IsServicePort(G, p) /\ p = <<"interface", G.nodes[s].name, i>>
         /\ s \in Services(G) /\ Joined(G, s, p)
         /\ \E l : Attaches(G, p, l, i)
<1>1. /\ p \in GetPeers(G, i) /\ TypeOf(G, p) = "ServicePort"
      /\ s \in Services(G) /\ Joined(G, s, p)
  BY DEF Attachments, ServicePortPeers, ParentServices, Incoming, Joined
<1>2. PICK m \in Links(G) : p \in Ports(G) /\ p # i /\ Joined(G, i, m) /\ Joined(G, p, m)
  BY <1>1, PeersAre
<1>3. IsServicePort(G, p)
  BY <1>1, <1>2 DEF IsServicePort, TypeOf, Ports, OfClass
<1>4. PICK l, j : Attaches(G, p, l, j)
  BY <1>3 DEF PeersInv
<1>5. m = l
  BY <1>2, <1>4 DEF Attaches, Joined, Links, OfClass
<1>6. j = i
  BY <1>2, <1>4, <1>5 DEF Attaches, Joined
<1>7. QED
  BY <1>1, <1>3, <1>4, <1>6 DEF Attaches

\* And it finds it.
LEMMA AttachmentFound ==
  ASSUME NEW G, Inv(G), NEW p, NEW l, NEW i, Attaches(G, p, l, i), IsServicePort(G, p),
         NEW s \in Services(G), Joined(G, s, p)
  PROVE  p \in Attachments(G, s, i)
<1>1. p \in Ports(G) /\ p # i /\ l \in Links(G) /\ Joined(G, p, l) /\ Joined(G, i, l)
  BY DEF Attaches, Attachable, IsServicePort, Ports, OfClass
<1>2. p \in GetPeers(G, i)
  BY <1>1, PeersAre
<1>3. s \in ParentServices(G, p)
  BY DEF ParentServices, Incoming, Joined
<1>4. QED
  BY <1>2, <1>3 DEF Attachments, ServicePortPeers, TypeOf, IsServicePort

\* The ports and links that DeletePorts takes.
Taken(G, S) == S \cup {l \in Links(G) : \E q \in S : Joined(G, q, l)}

LEMMA DeletePortsIs ==
  ASSUME NEW G, NEW S PROVE DeletePorts(G, S) = Delete(G, Taken(G, S))
<1>1. (UNION {Outgoing(G, q, "connects") : q \in S}) \cap Links(G)
        = {l \in Links(G) : \E q \in S : Joined(G, q, l)}
  BY DEF Outgoing, Joined
<1>2. QED
  BY <1>1 DEF DeletePorts, Taken

\* Elements of a class own, and are on, what their class may.
LEMMA EdgesOfClass ==
  ASSUME NEW G, Inv(G), NEW e \in G.edges
  PROVE  /\ e.class = "has" => /\ e.source \in NetworkNodes(G) \cup OfClass(G, "Component")
                               /\ e.target \in Services(G) \cup OfClass(G, "Component")
                               /\ e.target \in OfClass(G, "Component") => e.source \in NetworkNodes(G)
         /\ e.target \in Links(G) => e.class = "connects" /\ e.source \in Ports(G)
         /\ e.source \in Services(G) => e.class = "connects" /\ e.target \in Ports(G)
BY DEF Inv, Shaped, EdgeShapes, NetworkNodes, Services, Ports, Links, OfClass

\* Disconnecting keeps all other attachments.
LEMMA DisconnectKeeps ==
  ASSUME NEW opts, NEW G, Inv(G), Neat(opts, G), NEW s, NEW i, NEW p \in Attachments(G, s, i)
  PROVE  Neat(opts, DeletePorts(G, {p}))
<1> DEFINE S == Taken(G, {p})
<1>1. IsServicePort(G, p) /\ \E l : Attaches(G, p, l, i)
  BY AttachmentIs DEF Neat
<1>2. PICK l : Attaches(G, p, l, i)
  BY <1>1
<1>3. S = {p, l}
  BY <1>2 DEF Taken, Attaches, Joined, Links, OfClass
<1>4. l \in Links(G) /\ p \in Ports(G)
  BY <1>1, <1>2 DEF Attaches, IsServicePort, Ports, OfClass
<1> HIDE DEF S
<1>5. ASSUME NEW q, NEW m, NEW j, IsServicePort(G, q), q \notin S, Attaches(G, q, m, j)
      PROVE  m \notin S /\ j \notin S
  <2>1. m # l
    <3>1. Joined(G, q, m) /\ G.nodes[q].type = "ServicePort" /\ G.nodes[i].type # "ServicePort"
      BY <1>2, <1>5 DEF Attaches, Attachable, IsServicePort
    <3>2. QED
      BY <1>2, <1>3, <1>5, <3>1 DEF Attaches, Joined
  <2>2. G.nodes[j].type # "ServicePort" /\ j \in Ports(G) /\ m \in Links(G)
    BY <1>5 DEF Attaches, Attachable
  <2>3. QED
    BY <1>1, <1>3, <1>4, <2>1, <2>2 DEF IsServicePort, Ports, Links, OfClass
<1>6. \A e \in G.edges : e.class = "has" /\ e.source \in S => e.target \in S
  BY <1>3, <1>4, EdgesOfClass DEF NetworkNodes, Ports, Links, OfClass
<1>7. \A t \in Services(G) : t \notin S
  BY <1>3, <1>4 DEF Services, Ports, Links, OfClass
<1>8. Spares(G, S)
  BY <1>5, <1>6, <1>7 DEF Spares
<1>9. QED
  BY <1>8, SparingKeeps, DeletePortsIs DEF S

\* Removing a service that nobody owns, with its ports and links, keeps the
\* attachments of all others.
LEMMA RemoveServiceKeeps ==
  ASSUME NEW opts, NEW G, Inv(G), Neat(opts, G), NEW s \in Services(G), ~Owned(G, s)
  PROVE  Neat(opts, RemoveService(G, s))
<1> DEFINE I == Interfaces(G, s)
           S == Taken(G, I)
           H == Delete(G, S)
<1>1. \A i : i \in I <=> i \in Ports(G) /\ Joined(G, s, i)
  BY DEF Interfaces, Outgoing, Joined
<1> HIDE DEF I
<1>2. S \subseteq Ports(G) \cup Links(G) /\ \A n \in S : n \in I \/ n \in Links(G)
  BY <1>1 DEF Taken
<1>3. \A n \in S : n \notin Services(G) /\ n \notin NetworkNodes(G) /\ n \notin OfClass(G, "Component")
  BY <1>2 DEF Services, NetworkNodes, Ports, Links, OfClass
<1>4. ASSUME NEW p, NEW l, NEW i, IsServicePort(G, p), p \notin S, Attaches(G, p, l, i)
      PROVE  l \notin S /\ i \notin S
  <2>1. i \notin I
    BY <1>1, <1>4 DEF Attaches, Attachable
  <2>2. i \in Ports(G) /\ l \in Links(G)
    BY <1>4 DEF Attaches, Attachable
  <2>3. i \notin S
    BY <1>2, <2>1, <2>2 DEF Ports, Links, OfClass
  <2>4. p \notin I
    BY <1>4 DEF Taken
  <2>5. ASSUME l \in S PROVE FALSE
    <3>1. l \notin I
      BY <1>1, <2>2 DEF Ports, Links, OfClass
    <3>2. PICK q \in I : Joined(G, q, l)
      BY <2>5, <3>1 DEF Taken
    <3>3. q \in {p, i}
      BY <1>4, <3>2 DEF Attaches, Joined
    <3>4. QED
      BY <2>1, <2>4, <3>2, <3>3
  <2>6. QED
    BY <2>3, <2>5
<1>5. Spares(G, S)
  BY <1>3, <1>4, EdgesOfClass DEF Spares
<1> HIDE DEF S
<1>6. Neat(opts, H) /\ Inv(H)
  BY <1>5, SparingKeeps, DeleteKeeps
<1>7. /\ Ids(H) = Ids(G) \ S
      /\ \A n \in Ids(H) : H.nodes[n] = G.nodes[n]
      /\ H.edges = {e \in G.edges : e.source \notin S /\ e.target \notin S}
  BY DeleteIs
<1> HIDE DEF H
<1>8. \A i : ~Joined(H, s, i)
  <2> SUFFICES ASSUME NEW e \in H.edges, e.source = s PROVE FALSE
    BY DEF Joined
  <2>1. e \in G.edges /\ e.target \notin S
    BY <1>7
  <2>2. e.target \in I
    BY <1>1, <2>1, EdgesOfClass DEF Joined
  <2>3. QED
    BY <2>1, <2>2 DEF S, Taken
<1>9. ASSUME s \in Ids(H) PROVE s \in Services(H)
  BY <1>7, <1>9 DEF Services, OfClass
<1>10. Spares(H, {s})
  <2>1. \A p, l, i : IsServicePort(H, p) /\ Attaches(H, p, l, i) => l # s /\ i # s
    BY <1>9 DEF Attaches, Attachable, Services, Ports, Links, OfClass
  <2>2. \A e \in H.edges : e.class = "has" => e.source # s
    BY <1>6, <1>9, EdgesOfClass DEF Services, NetworkNodes, OfClass
  <2>3. QED
    BY <1>8, <2>1, <2>2 DEF Spares
<1>11. Neat(opts, Delete(H, {s}))
  BY <1>6, <1>10, SparingKeeps
<1>12. QED
  BY <1>11, DeletePortsIs DEF RemoveService, H, S, I

\* Nothing below n is attached to a service.
Detached(G, n) ==
  \A p, l, i, s, t :
    /\ IsServicePort(G, p) /\ Attaches(G, p, l, i)
    /\ s \in Services(G) /\ Joined(G, s, p)
    /\ t \in Services(G) /\ Joined(G, t, i)
    => t \notin Descendants(G, n)

\* A node or a component goes with its services, and with their owners: their
\* ports stay, and those attached elsewhere are attached still.
LEMMA SubtreeKeeps ==
  ASSUME NEW opts, NEW G, Inv(G), Neat(opts, G),
         NEW n \in NetworkNodes(G) \cup OfClass(G, "Component"), Detached(G, n)
  PROVE  Neat(opts, RemoveSubtree(G, n))
<1> DEFINE S == Descendants(G, n) \cup {n}
           Below(a, b) == \E e \in G.edges : e.class = "has" /\ e.source = a /\ e.target = b
<1>1. \A a, b : b \in Outgoing(G, a, "has") <=> Below(a, b)
  BY DEF Outgoing
<1>2. \A m : m \in S <=> \/ m = n \/ Below(n, m) \/ \E c : Below(n, c) /\ Below(c, m)
  BY <1>1 DEF Descendants
<1> HIDE DEF S
<1>3. \A a, b : Below(a, b) =>
        /\ a \in NetworkNodes(G) \cup OfClass(G, "Component")
        /\ b \in Services(G) \cup OfClass(G, "Component")
        /\ b \in OfClass(G, "Component") => a \in NetworkNodes(G)
  BY EdgesOfClass
<1>4. S \cap (Ports(G) \cup Links(G)) = {}
  BY <1>2, <1>3 DEF NetworkNodes, Services, Ports, Links, OfClass
<1>5. ASSUME NEW e \in G.edges, e.class = "has", e.source \in S PROVE e.target \in S
  <2>1. Below(e.source, e.target)
    BY <1>5
  <2>2. CASE e.source = n
    BY <1>2, <2>1, <2>2
  <2>3. CASE Below(n, e.source)
    BY <1>2, <2>1, <2>3
  <2>4. ASSUME NEW c, Below(n, c), Below(c, e.source) PROVE FALSE
    <3>1. c \in OfClass(G, "Component") /\ e.source \in OfClass(G, "Component")
      BY <1>3, <2>1, <2>4 DEF NetworkNodes, Services, OfClass
    <3>2. QED
      BY <1>3, <2>4, <3>1 DEF NetworkNodes, OfClass
  <2>5. QED
    BY <1>2, <1>5, <2>2, <2>3, <2>4
<1>6. \A t \in Services(G) : t \in S => t \in Descendants(G, n)
  BY DEF S, Services, NetworkNodes, OfClass
<1>7. Spares(G, S)
  <2>1. \A p, l, i : IsServicePort(G, p) /\ Attaches(G, p, l, i) => l \notin S /\ i \notin S
    BY <1>4 DEF Attaches, Attachable
  <2>2. QED
    BY <1>5, <1>6, <2>1 DEF Spares, Detached
<1>8. QED
  BY <1>7, SparingKeeps DEF RemoveSubtree, S

\* A Link without incoming edges attaches nothing.
LEMMA RemoveLinkKeeps ==
  ASSUME NEW opts, NEW G, Inv(G), Neat(opts, G), NEW l \in Links(G), Incoming(G, l, "connects") = {}
  PROVE  Neat(opts, Delete(G, {l}))
<1>1. \A a : ~Joined(G, a, l)
  BY DEF Incoming, Joined
<1>2. l \notin Ports(G) /\ l \notin Services(G) /\ l \notin NetworkNodes(G) /\ l \notin OfClass(G, "Component")
  BY DEF Services, NetworkNodes, Ports, Links, OfClass
<1>3. Spares(G, {l})
  BY <1>1, <1>2, EdgesOfClass DEF Spares, Attaches, Attachable
<1>4. QED
  BY <1>3, SparingKeeps

\* After a deletion there are no attachments that were not there before it.
LEMMA DeleteAttachments ==
  ASSUME NEW G, Inv(G), NEW S, NEW s, NEW i
  PROVE  Attachments(Delete(G, S), s, i) \subseteq Attachments(G, s, i) \ S
<1> DEFINE H == Delete(G, S)
<1>1. /\ Ids(H) = Ids(G) \ S
      /\ \A n \in Ids(H) : H.nodes[n] = G.nodes[n]
      /\ H.edges = {e \in G.edges : e.source \notin S /\ e.target \notin S}
  BY DeleteIs
<1>2. Inv(H)
  BY DeleteKeeps
<1> HIDE DEF H
<1>3. \A a, b : Joined(H, a, b) => Joined(G, a, b)
  BY <1>1 DEF Joined
<1>4. Services(H) = Services(G) \ S /\ Links(H) = Links(G) \ S /\ Ports(H) = Ports(G) \ S
  BY <1>1 DEF Services, Links, Ports, OfClass
<1>5. ASSUME NEW p \in Attachments(H, s, i) PROVE p \in Attachments(G, s, i) /\ p \notin S
  <2>1. /\ p \in GetPeers(H, i) /\ TypeOf(H, p) = "ServicePort"
        /\ s \in Services(H) /\ Joined(H, s, p)
    BY DEF Attachments, ServicePortPeers, ParentServices, Incoming, Joined
  <2>2. p \in Ports(H) /\ p # i /\ \E l \in Links(H) : Joined(H, i, l) /\ Joined(H, p, l)
    BY <1>2, <2>1, PeersAre
  <2>3. p \in GetPeers(G, i)
    BY <1>3, <1>4, <2>2, PeersAre
  <2>4. s \in ParentServices(G, p)
    BY <1>3, <1>4, <2>1 DEF ParentServices, Incoming, Joined
  <2>5. TypeOf(G, p) = "ServicePort"
    BY <1>1, <1>4, <2>1, <2>2 DEF TypeOf, Ports, OfClass
  <2>6. QED
    BY <1>4, <2>2, <2>3, <2>4, <2>5 DEF Attachments, ServicePortPeers
<1>6. QED
  BY <1>5 DEF H

-----------------------------------------------------------------------------
(* Services.                                                               *)

\* An interface that a caller holds is a port, or its port is gone.
Held(G, i) == i \in Ports(G) \/ i = Stale

\* A facade that could be used can be used when there is more.
LEMMA HeldStays ==
  ASSUME NEW G, NEW H, Inv(G), Inv(H), Extends(G, H), NEW i, Held(H, i)
  PROVE  Held(G, i)
BY ClassStays DEF Held, Ports

\* After an error a service goes that has no ports but ServicePorts, which stay
\* with what they attach.
LEMMA TakeBackKeeps ==
  ASSUME NEW opts, NEW G, Inv(G), Neat(opts, G), NEW s \in Services(G),
         \A e \in G.edges : e.source = s => IsServicePort(G, e.target)
  PROVE  Neat(opts, Delete(G, {s}))
<1>1. s \notin Ports(G) \cup Links(G) \cup NetworkNodes(G) \cup OfClass(G, "Component")
  BY DEF Services, NetworkNodes, Ports, Links, OfClass
<1>2. \A p, l, i : IsServicePort(G, p) /\ Attaches(G, p, l, i) => l # s /\ i # s
  BY <1>1 DEF Attaches, Attachable
<1>3. \A e \in G.edges : e.class = "has" => e.source # s
  BY <1>1, EdgesOfClass
<1>4. \A p, l, i : Attaches(G, p, l, i) => ~Joined(G, s, i)
  BY DEF Attaches, Attachable, Joined, IsServicePort
<1>5. Spares(G, {s})
  BY <1>2, <1>3, <1>4 DEF Spares
<1>6. QED
  BY <1>5, SparingKeeps

\* The service is there when all went well, and none of it when it did not go
\* well before its interfaces were connected; whatever was attached still is.
LEMMA AddServiceGrows ==
  ASSUME NEW r, IsResult(r), NEW parent, NEW o, o.id # Stale, NEW ifs, Len(ifs) \in Nat,
         parent # NoID /\ r.ok => parent \in NetworkNodes(r.graph),
         r.ok => \A k \in 1..Len(ifs) : Held(r.graph, ifs[k])
  PROVE  LET q  == AddServiceTo(r, parent, o, ifs)
             id == ChooseID(o.id, <<"service", o.name>>)
         IN  /\ Grows(q, r) /\ (q.ok => id \in Services(q.graph))
             /\ \A opts : OwnName(opts, id, o.name) /\ Len(ifs) = 0 => Tidy(opts, q.graph, r.graph)
             /\ \A opts :
                  /\ OwnName(opts, id, o.name) /\ Neat(opts, r.graph)
                  /\ r.ok => \A k \in 1..Len(ifs) : Attachable(r.graph, ifs[k]) /\ OnService(r.graph, ifs[k])
                  => Neat(opts, q.graph)
<1> DEFINE id    == ChooseID(o.id, <<"service", o.name>>)
           site  == IF o.site = NoSite /\ NetworkServiceConstraints[o.type].maxSites = 1 /\ ifs # << >>
                    THEN SiteOfInterface(r.graph, ifs[1]) ELSE o.site
           node  == [Element("NetworkService", o.name, o.type) EXCEPT !.site = site]
           valid == ValidService(r.graph, parent, o, ifs)
           asked == Require(r, valid)
           service == NewNode(asked, id, node)
           owned   == IF parent = NoID THEN service
                      ELSE NewEdgeOr(service, "has", parent, id, {id})
           connect(q, i) == OrDelete(q, ConnectTo(q, id, i), {id})
           Step(f, k) == IF k = 0 THEN owned ELSE connect(f[k - 1], ifs[k])
           n     == Len(ifs)
           after == CHOOSE f : f = [k \in 0..n |-> Step(f, k)]
           Spare(G) == \A k \in 1..Len(ifs) : Attachable(G, ifs[k]) /\ OnService(G, ifs[k])
           Given(opts) == OwnName(opts, id, o.name) /\ Neat(opts, r.graph) /\ (r.ok => Spare(r.graph))
           Better(opts, q) ==
             /\ Neat(opts, q.graph)
             /\ q.ok => Spare(q.graph) /\ \A e \in q.graph.edges : e.source = id => IsServicePort(q.graph, e.target)
           Good(q) == /\ Grows(q, r) /\ (q.ok => id \in Services(q.graph) /\ id \notin Ids(r.graph))
                      /\ \A opts : Given(opts) => Better(opts, q)
<1>1. id # Stale
  BY IDsAreNotStale DEF ChooseID
<1>2. IsElement(node) /\ node.class = "NetworkService" /\ node.name = o.name
  BY DEF Element, IsElement, Fields, Kinds
<1>3. AddServiceTo(r, parent, o, ifs) = after[n]
  BY DEF AddServiceTo, InTurn
<1>4. valid \in BOOLEAN
  BY DEF ValidService
<1> HIDE DEF id, node, valid
<1>5. Grows(asked, r) /\ asked.graph = r.graph
  BY <1>4, RequireIs
<1> HIDE DEF asked
<1>6. /\ Made(service, asked, {id})
      /\ service.ok => asked.ok /\ id \notin Ids(asked.graph) /\ service.graph = WithNode(asked.graph, id, node)
  BY <1>1, <1>2, <1>5, MadeFirst DEF Grows
<1>7. Made(service, r, {id})
  BY <1>5, <1>6, GrowsTransitive DEF Made
<1> HIDE DEF service
<1>8. ASSUME service.ok
      PROVE  /\ id \in OfClass(service.graph, "NetworkService") /\ Inv(service.graph)
             /\ \A e \in service.graph.edges : e.source # id /\ e.target # id
  BY <1>1, <1>2, <1>5, <1>6, <1>7, <1>8, NewNodeFresh DEF Made, Grows, IsResult
<1>9. ASSUME parent # NoID, service.ok PROVE Joinable(service.graph, "has", parent, id)
  <2>1. /\ parent \in OfClass(r.graph, "NetworkNode")
        /\ Extends(service.graph, r.graph) /\ Inv(r.graph)
    BY <1>7, <1>9 DEF Made, Grows, NetworkNodes, IsResult
  <2>2. parent \in OfClass(service.graph, "NetworkNode")
    BY <1>8, <1>9, <2>1, ClassStays
  <2>3. QED
    BY <1>8, <1>9, <2>2 DEF Joinable, OfClass, EdgeShapes
<1>10. /\ Grows(owned, r)
       /\ owned.ok => /\ id \in Services(owned.graph) /\ id \notin Ids(r.graph)
                      /\ \A e \in owned.graph.edges : e.source # id
  <2>1. CASE parent = NoID
    <3>1. owned = service
      BY <2>1
    <3> HIDE DEF owned
    <3>2. QED
      BY <1>5, <1>6, <1>7, <1>8, <3>1 DEF Made, Services
  <2>2. CASE parent # NoID
    <3>1. owned = NewEdgeOr(service, "has", parent, id, {id}) /\ id \in {id}
      BY <2>2
    <3>2. /\ Made(owned, r, {id})
          /\ owned.ok => service.ok /\ owned.graph = WithEdge(service.graph, "has", parent, id)
      BY <1>7, <1>9, <2>2, <3>1, MadeEdge
    <3> HIDE DEF owned
    <3>3. owned.ok => id \in Services(owned.graph)
      BY <1>8, <3>2 DEF WithEdge, Services, OfClass, Ids
    <3>4. ASSUME owned.ok, NEW e \in owned.graph.edges PROVE e.source # id
      <4>1. id \in Ids(service.graph) /\ service.graph.nodes[id].class = "NetworkService" /\ service.ok
        BY <1>8, <3>2, <3>4 DEF OfClass
      <4>2. <<"has", service.graph.nodes[parent].class, "NetworkService">> \in EdgeShapes
        BY <1>9, <2>2, <4>1 DEF Joinable
      <4>3. parent # id
        BY <4>1, <4>2 DEF EdgeShapes
      <4>4. e \in service.graph.edges \/ e = [class |-> "has", source |-> parent, target |-> id]
        BY <3>2, <3>4 DEF WithEdge
      <4>5. QED
        BY <1>8, <3>2, <3>4, <4>3, <4>4
    <3>5. QED
      BY <1>5, <1>6, <3>2, <3>3, <3>4 DEF Made
  <2>3. QED
    BY <2>1, <2>2
<1>t. ASSUME NEW opts, OwnName(opts, id, o.name) PROVE Tidy(opts, owned.graph, r.graph)
  <2>1. MayAdd(opts, asked.graph, id, node)
    BY <1>2, <1>t DEF MayAdd
  <2>2. Tidy(opts, asked.graph, r.graph) /\ IsResult(asked)
    BY <1>5, TidyReflexive DEF Grows
  <2>3. Tidy(opts, service.graph, r.graph)
    BY <1>1, <1>2, <1>5, <2>1, <2>2, TidyNode DEF service
  <2>4. CASE parent = NoID
    BY <2>3, <2>4
  <2>5. CASE parent # NoID
    <3>1. ASSUME service.ok
          PROVE  /\ Joinable(service.graph, "has", parent, id)
                 /\ service.graph.nodes[id].class # "Link"
                 /\ id \notin Ids(r.graph)
      BY <1>5, <1>6, <1>8, <1>9, <2>5, <3>1 DEF OfClass
    <3>2. Grows(service, r)
      BY <1>7 DEF Made
    <3>3. Tidy(opts, NewEdgeOr(service, "has", parent, id, {id}).graph, r.graph)
      BY <2>3, <3>1, <3>2, TidyEdgeOr
    <3>4. QED
      BY <2>5, <3>3
  <2>6. QED
    BY <2>4, <2>5
<1> HIDE DEF owned
<1>g. Good(owned)
  <2>1. ASSUME NEW opts, Given(opts) PROVE Better(opts, owned)
    <3>1. Tidy(opts, owned.graph, r.graph) /\ Inv(owned.graph) /\ Inv(r.graph) /\ Extends(owned.graph, r.graph)
      BY <1>10, <1>t, <2>1 DEF Grows, IsResult
    <3>2. Neat(opts, owned.graph)
      BY <2>1, <3>1, TidyKeeps
    <3>3. Spare(r.graph) => Spare(owned.graph)
      BY <3>1, TidyAttachable
    <3>4. QED
      BY <1>10, <2>1, <3>2, <3>3 DEF Grows
  <2> HIDE DEF Given, Better
  <2>2. QED
    BY <1>10, <2>1
<1>11. ASSUME NEW q, Good(q), NEW k \in 1..Len(ifs) PROVE Good(connect(q, ifs[k]))
  <2> DEFINE i    == ifs[k]
             next == ConnectTo(q, id, i)
             last == OrDelete(q, next, {id})
  <2> HIDE DEF Given, Better
  <2>1. IsResult(q) /\ (q.ok => r.ok /\ id \in Services(q.graph) /\ Held(q.graph, i))
    BY <1>11, HeldStays DEF Grows, IsResult
  <2> HIDE DEF i
  <2>2. Made(next, q, {ServicePortID(q.graph, id, i), LinkID(q.graph, id, i)})
    BY <2>1, ConnectIsAtomic DEF Held
  <2>c. \A opts : Neat(opts, q.graph) /\ (q.ok => Attachable(q.graph, i) /\ OnService(q.graph, i)) =>
          /\ Neat(opts, next.graph)
          /\ \A j : Attachable(q.graph, j) => Attachable(next.graph, j)
          /\ \A j : Attachable(q.graph, j) /\ OnService(q.graph, j) => OnService(next.graph, j)
          /\ \A e \in next.graph.edges : e \in q.graph.edges \/ IsServicePort(next.graph, e.target)
                                          \/ next.graph.nodes[e.target].class = "Link"
    BY <2>1, ConnectKeeps
  <2> HIDE DEF next
  <2>g. Grows(next, q)
    BY <2>2 DEF Made
  <2>3. Grows(last, r) /\ (last.ok => next.ok /\ last = next)
    BY <1>11, <2>g, OrDeleteGrows
  <2>d. ASSUME ~last.ok PROVE last.graph = q.graph \/ (q.ok /\ last.graph = Delete(q.graph, {id}))
    <3>0. IsResult(q) /\ IsResult(next)
      BY <2>1, <2>g DEF Grows
    <3>1. ASSUME NEW S PROVE OrDelete(q, next, S) =
            IF ~q.ok \/ next.ok THEN next ELSE [graph |-> Delete(next.graph, S), ok |-> FALSE]
      BY <3>0, OrDeleteIs
    <3>5. \/ last = next /\ (~q.ok \/ next.ok)
          \/ q.ok /\ ~next.ok /\ last.graph = Delete(next.graph, {id})
      BY <3>1
    <3> HIDE DEF last
    <3>2. ~next.ok
      BY <2>d, <3>5
    <3>3. next.graph = q.graph
      BY <2>2, <3>2 DEF Made
    <3>4. QED
      BY <3>2, <3>3, <3>5
  <2> HIDE DEF last
  <2>4. last.ok => id \in Services(last.graph) /\ id \notin Ids(r.graph)
    BY <1>11, <2>1, <2>g, <2>3, ClassStays DEF Grows, Services, IsResult
  <2>5. ASSUME NEW opts, Given(opts) PROVE Better(opts, last)
    <3>1. Better(opts, q)
      BY <1>11, <2>5
    <3>2. Neat(opts, q.graph) /\ (q.ok => Spare(q.graph))
      BY <3>1 DEF Better
    <3>3. q.ok => Attachable(q.graph, i) /\ OnService(q.graph, i)
      BY <3>2 DEF i
    <3>4. CASE last.ok
      <4>1. last.graph = next.graph /\ q.ok /\ Inv(last.graph) /\ Extends(last.graph, q.graph) /\ Inv(q.graph)
        BY <2>1, <2>3, <2>g, <3>4 DEF Grows, IsResult
      <4>2. /\ Neat(opts, last.graph)
            /\ \A j : Attachable(q.graph, j) => Attachable(last.graph, j)
            /\ \A j : Attachable(q.graph, j) /\ OnService(q.graph, j) => OnService(last.graph, j)
            /\ \A e \in last.graph.edges : e \in q.graph.edges \/ IsServicePort(last.graph, e.target)
                                            \/ last.graph.nodes[e.target].class = "Link"
        BY <2>c, <3>2, <3>3, <4>1
      <4>3. Spare(last.graph)
        BY <3>2, <4>1, <4>2
      <4>4. ASSUME NEW e \in last.graph.edges, e.source = id PROVE IsServicePort(last.graph, e.target)
        <5>1. last.graph.nodes[e.target].class # "Link"
          BY <2>4, <3>4, <4>1, <4>4, EdgesOfClass DEF Ports, OfClass
        <5>2. e \in q.graph.edges => IsServicePort(q.graph, e.target)
          BY <3>1, <4>1, <4>4 DEF Better
        <5>3. IsServicePort(q.graph, e.target) => IsServicePort(last.graph, e.target)
          BY <4>1, ExtendsElement DEF IsServicePort
        <5>4. QED
          BY <4>2, <4>4, <5>1, <5>2, <5>3
      <4>5. QED
        BY <4>2, <4>3, <4>4 DEF Better
    <3>5. CASE ~last.ok
      <4>1. q.ok => Neat(opts, Delete(q.graph, {id}))
        BY <2>1, <3>1, <3>2, TakeBackKeeps DEF Better, IsResult
      <4>2. Neat(opts, last.graph)
        BY <2>d, <3>2, <3>5, <4>1
      <4>3. QED
        BY <3>5, <4>2 DEF Better
    <3>6. QED
      BY <3>4, <3>5
  <2>6. QED
    BY <2>3, <2>4, <2>5 DEF last, next, i
<1> HIDE DEF connect
<1> DEFINE Unfolds(f, m) == f = [k \in 0..m |-> Step(f, k)]
<1>n. n \in Nat
  OBVIOUS
<1> HIDE DEF n
<1>12. \E f : Unfolds(f, n)
  <2> DEFINE T == {m \in 0..n : \E f : Unfolds(f, m)}
  <2>1. 0 \in T
    <3> DEFINE f == [k \in 0..0 |-> owned]
    <3>1. Unfolds(f, 0)
      OBVIOUS
    <3> HIDE DEF Unfolds, f
    <3>2. QED
      BY <1>n, <3>1
  <2>2. ASSUME NEW m \in 1..n, m - 1 \in T PROVE m \in T
    <3>1. PICK f : Unfolds(f, m - 1)
      BY <2>2
    <3> DEFINE h == [k \in 0..m |-> IF k = m THEN Step(f, m) ELSE f[k]]
    <3>2. \A k \in 0..(m - 1) : f[k] = Step(f, k) /\ h[k] = f[k]
      <4> HIDE DEF Step
      <4> QED BY <3>1
    <3>3. ASSUME NEW k \in 0..m PROVE h[k] = Step(h, k)
      <4>1. k # 0 => h[k - 1] = f[k - 1]
        BY <3>2
      <4>2. Step(h, k) = Step(f, k)
        <5> HIDE DEF h
        <5> QED BY <4>1
      <4> HIDE DEF Step
      <4>3. h[k] = Step(f, k)
        <5>1. CASE k = m
          BY <5>1
        <5>2. CASE k \in 0..(m - 1)
          BY <3>2, <5>2
        <5>3. QED
          BY <5>1, <5>2
      <4>4. QED
        BY <4>2, <4>3
    <3>4. Unfolds(h, m)
      <4> HIDE DEF Step
      <4> QED BY <3>3
    <3> HIDE DEF Unfolds, h
    <3>5. QED
      BY <1>n, <3>4
  <2>3. n \in T
    <3> HIDE DEF T
    <3>1. n \in 0..n
      BY <1>n
    <3>2. QED
      BY <1>n, <2>1, <2>2, <3>1, IntervalInduction
  <2>4. QED
    BY <2>3
<1>13. after = [k \in 0..n |-> Step(after, k)]
  <2> HIDE DEF Step
  <2> QED BY <1>12
<1> HIDE DEF after
<1>14. after[0] = owned /\ \A k \in 1..n : after[k] = connect(after[k - 1], ifs[k])
  BY <1>n, <1>13
<1>15. \A k \in 0..n : Good(after[k])
  <2> DEFINE T == {k \in 0..n : Good(after[k])}
  <2> HIDE DEF Good
  <2>1. 0 \in T
    BY <1>n, <1>g, <1>14
  <2>2. ASSUME NEW k \in 1..n, k - 1 \in T PROVE k \in T
    <3>1. k \in 1..Len(ifs)
      BY DEF n
    <3>2. QED
      BY <1>11, <1>14, <2>2, <3>1
  <2>3. \A k \in 0..n : k \in T
    <3> HIDE DEF T
    <3> QED BY <1>n, <2>1, <2>2, IntervalInduction
  <2>4. QED
    BY <2>3
<1>16. Good(after[n])
  <2> HIDE DEF Good
  <2> QED BY <1>n, <1>15
<1>17. Len(ifs) = 0 => after[n] = owned
  BY <1>14 DEF n
<1>18. QED
  BY <1>3, <1>t, <1>16, <1>17 DEF id

-----------------------------------------------------------------------------
(* Nodes, components and links.                                            *)

\* Below a component: its service and ports; what a failure leaves of them is
\* new.
LEMMA AddComponentGrows ==
  ASSUME NEW r, IsResult(r), NEW n0, r.ok => n0 \in NetworkNodes(r.graph),
         NEW o, o.id # Stale, o.nsID # Stale, \A l \in {"p1", "p2"} : o.portID[l] # Stale
  PROVE  LET q == AddComponentTo(r, n0, o)
         IN  /\ Grows(q, r)
             /\ \A opts :
                  /\ o \in opts.components /\ o.nsID = NoID
                  /\ r.ok => r.graph.nodes[n0].name \in NamesOfNodes(opts)
                  => Tidy(opts, q.graph, r.graph)
<1> DEFINE parent    == NameOf(r.graph, n0)
           labels    == PortLabels(o.kind)
           id        == ChooseID(o.id, <<"component", parent, o.name>>)
           svc       == ChooseID(o.nsID, <<"service", parent, o.name, "nsl2">>)
           svcType   == IF o.kind = "FPGA" THEN "P4" ELSE "OVS"
           portType  == IF o.kind = "SharedNIC" THEN "SharedPort" ELSE "DedicatedPort"
           isNew     == \A c \in Components(r.graph, n0) : NameOf(r.graph, c) # o.name
           compNode  == Element("Component", o.name, o.kind)
           svcNode   == Element("NetworkService", parent \o o.name \o <<"l2", svcType>>, svcType)
           portNode(label) == Element("ConnectionPoint", o.name \o <<label>>, portType)
           asked     == Require(r, isNew)
           component == NewNode(asked, id, compNode)
           owned     == NewEdgeOr(component, "has", n0, id, {id})
           svcNew    == NewNode(owned, svc, svcNode)
           service   == OrDelete(owned, svcNew, {id})
           edgeNew   == NewEdge(service, "has", id, svc)
           placed    == OrDelete(service, edgeNew, {id})
           pid(q, label)  == ChooseID(o.portID[label], RandomID(q.graph))
           port(q, label) == NewNode(q, pid(q, label), portNode(label))
           addPort(q, label) == OrDelete(q, NewEdge(port(q, label), "connects", svc, pid(q, label)), {id})
           Step(f, k) == IF k = 0 THEN placed ELSE addPort(f[k - 1], labels[k])
           n     == Len(labels)
           after == CHOOSE f : f = [k \in 0..n |-> Step(f, k)]
           Given(opts) == /\ o \in opts.components /\ o.nsID = NoID
                          /\ r.ok => r.graph.nodes[n0].name \in NamesOfNodes(opts)
           Good(q) == /\ Grows(q, r) /\ (q.ok => svc \in Services(q.graph) /\ id \notin Ids(r.graph))
                      /\ \A opts : Given(opts) => Tidy(opts, q.graph, r.graph)
<1>1. id # Stale /\ svc # Stale
  BY IDsAreNotStale DEF ChooseID
<1>2. /\ IsElement(compNode) /\ compNode.class = "Component"
      /\ IsElement(svcNode) /\ svcNode.class = "NetworkService"
      /\ \A label : IsElement(portNode(label)) /\ portNode(label).class = "ConnectionPoint"
                   /\ portNode(label).type # "ServicePort"
  BY DEF Element, IsElement, Fields, Kinds
<1>3. AddComponentTo(r, n0, o) = IF labels = << >> THEN owned ELSE after[n]
  BY DEF AddComponentTo, InTurn, NewNodeOr, NewEdgeOr
<1>4. isNew \in BOOLEAN
  OBVIOUS
<1>s. ASSUME NEW opts, Given(opts), r.ok PROVE OwnName(opts, svc, svcNode.name)
  <2>1. n0 \in Ids(r.graph) /\ parent \in NamesOfNodes(opts)
    BY <1>s DEF NetworkNodes, OfClass, NameOf
  <2>2. svc = <<"service", parent, o.name, "nsl2">>
    BY <1>s DEF ChooseID
  <2>3. svcNode.name = ComponentService(parent, o)
    BY DEF Element, ComponentService
  <2>4. QED
    BY <1>s, <2>1, <2>2, <2>3 DEF OwnName
<1>l. n \in Nat /\ \A k \in 1..n : labels[k] \in {"p1", "p2"}
  BY DEF PortLabels
<1>p. ASSUME NEW q, NEW label \in {"p1", "p2"} PROVE pid(q, label) # Stale
  BY IDsAreNotStale DEF ChooseID, RandomID
<1> HIDE DEF id, svc, isNew, compNode, svcNode, portNode, labels, pid, Given
<1>5. Grows(asked, r) /\ asked.graph = r.graph
  BY <1>4, RequireIs
<1> HIDE DEF asked
<1>6. /\ Made(component, asked, {id})
      /\ component.ok => /\ asked.ok /\ id \notin Ids(asked.graph)
                         /\ component.graph = WithNode(asked.graph, id, compNode)
  BY <1>1, <1>2, <1>5, MadeFirst DEF Grows
<1>7. Made(component, r, {id})
  BY <1>5, <1>6, GrowsTransitive DEF Made
<1>8. ASSUME component.ok
      PROVE  /\ id \in OfClass(component.graph, "Component") /\ Inv(component.graph)
             /\ \A e \in component.graph.edges : e.source # id /\ e.target # id
             /\ Joinable(component.graph, "has", n0, id)
  <2>1. /\ id \in OfClass(component.graph, "Component") /\ Inv(component.graph)
        /\ \A e \in component.graph.edges : e.source # id /\ e.target # id
    BY <1>1, <1>2, <1>5, <1>6, <1>7, <1>8, NewNodeFresh DEF Made, Grows, IsResult
  <2>2. n0 \in OfClass(component.graph, "NetworkNode")
    BY <1>7, <1>8, <2>1, ClassStays DEF Made, Grows, NetworkNodes, IsResult
  <2>3. QED
    BY <2>1, <2>2 DEF Joinable, OfClass, EdgeShapes
<1>9. id \in {id}
  OBVIOUS
<1>10. /\ Made(owned, r, {id})
       /\ owned.ok => component.ok /\ owned.graph = WithEdge(component.graph, "has", n0, id)
  BY <1>7, <1>8, <1>9, MadeEdge
<1>t. ASSUME NEW opts PROVE Tidy(opts, owned.graph, r.graph)
  <2>1. MayAdd(opts, asked.graph, id, compNode)
    BY <1>2 DEF MayAdd
  <2>2. Tidy(opts, asked.graph, r.graph) /\ IsResult(asked)
    BY <1>5, TidyReflexive DEF Grows
  <2>3. Tidy(opts, component.graph, r.graph)
    BY <1>1, <1>2, <1>5, <2>1, <2>2, TidyNode DEF component
  <2>4. component.ok => component.graph.nodes[id].class # "Link" /\ id \notin Ids(r.graph)
    BY <1>5, <1>6, <1>8 DEF OfClass
  <2>5. QED
    BY <1>7, <1>8, <2>3, <2>4, TidyEdgeOr DEF Made
<1> HIDE DEF component, owned
<1>11. owned.ok => id \in OfClass(owned.graph, "Component") /\ id \notin Ids(r.graph)
  BY <1>5, <1>6, <1>8, <1>10 DEF WithEdge, OfClass, Ids
<1>12. /\ Grows(svcNew, owned)
       /\ svcNew.ok => owned.ok /\ svc \notin Ids(owned.graph) /\ svcNew.graph = WithNode(owned.graph, svc, svcNode)
  BY <1>1, <1>2, <1>10, NewNodeGrows DEF Made, Grows
<1> HIDE DEF svcNew
<1>13. Grows(service, r) /\ (service.ok => svcNew.ok /\ service = svcNew)
  BY <1>10, <1>11, <1>12, OrDeleteGrows DEF Made
<1>u. ASSUME NEW opts, Given(opts) PROVE Tidy(opts, service.graph, r.graph)
  <2>1. Grows(owned, r)
    BY <1>10 DEF Made
  <2>2. owned.ok => MayAdd(opts, owned.graph, svc, svcNode)
    BY <1>2, <1>s, <1>u, <2>1 DEF MayAdd, Grows
  <2>3. Tidy(opts, NewNodeOr(owned, svc, svcNode, {id}).graph, r.graph)
    BY <1>1, <1>2, <1>11, <1>t, <2>1, <2>2, TidyNodeOr
  <2>4. QED
    BY <2>3 DEF NewNodeOr, svcNew
<1> HIDE DEF service
<1>14. ASSUME service.ok
       PROVE  /\ svc \in OfClass(service.graph, "NetworkService")
              /\ id \in OfClass(service.graph, "Component")
              /\ id \notin Ids(r.graph)
              /\ Joinable(service.graph, "has", id, svc)
  <2>1. /\ svc \in OfClass(service.graph, "NetworkService")
        /\ \A e \in service.graph.edges : e.source # svc /\ e.target # svc
    BY <1>1, <1>2, <1>10, <1>12, <1>13, <1>14, NewNodeFresh DEF Made, Grows, IsResult
  <2>2. id \in OfClass(service.graph, "Component")
    BY <1>11, <1>12, <1>13, <1>14, <1>10, ClassStays DEF Made, Grows, IsResult
  <2>3. QED
    BY <1>11, <1>12, <1>13, <1>14, <2>1, <2>2 DEF Joinable, OfClass, EdgeShapes
<1>15. /\ Grows(edgeNew, service)
       /\ edgeNew.ok => service.ok /\ edgeNew.graph = WithEdge(service.graph, "has", id, svc)
  BY <1>13, <1>14, NewEdgeGrows DEF Grows
<1> HIDE DEF edgeNew
<1>16. Grows(placed, r) /\ (placed.ok => edgeNew.ok /\ placed = edgeNew)
  BY <1>13, <1>14, <1>15, OrDeleteGrows
<1>v. ASSUME NEW opts, Given(opts) PROVE Tidy(opts, placed.graph, r.graph)
  <2>1. Tidy(opts, service.graph, r.graph)
    BY <1>u, <1>v
  <2>2. Tidy(opts, NewEdgeOr(service, "has", id, svc, {id}).graph, r.graph)
    BY <1>13, <1>14, <2>1, TidyEdgeOr DEF OfClass
  <2>3. QED
    BY <2>2 DEF NewEdgeOr, edgeNew
<1> HIDE DEF placed
<1>17. Good(placed)
  <2>1. ASSUME placed.ok PROVE svc \in Services(placed.graph) /\ id \notin Ids(r.graph)
    BY <1>14, <1>15, <1>16, <2>1 DEF WithEdge, Services, OfClass, Ids
  <2>2. QED
    BY <1>16, <1>v, <2>1
<1>18. ASSUME NEW q, Good(q), NEW label \in {"p1", "p2"} PROVE Good(addPort(q, label))
  <2> DEFINE x    == pid(q, label)
             new  == NewNode(q, x, portNode(label))
             edge == NewEdge(new, "connects", svc, x)
             last == OrDelete(q, edge, {id})
  <2>0. x # Stale
    BY <1>p
  <2> HIDE DEF x
  <2>1. /\ Grows(new, q) /\ IsResult(q)
        /\ new.ok => q.ok /\ x \notin Ids(q.graph) /\ new.graph = WithNode(q.graph, x, portNode(label))
    BY <1>2, <1>18, <2>0, NewNodeGrows DEF Grows
  <2> HIDE DEF new
  <2>2. ASSUME new.ok PROVE Joinable(new.graph, "connects", svc, x)
    <3>1. /\ x \in OfClass(new.graph, "ConnectionPoint")
          /\ \A e \in new.graph.edges : e.source # x /\ e.target # x
      BY <1>2, <2>0, <2>1, <2>2, NewNodeFresh DEF IsResult
    <3>2. svc \in OfClass(new.graph, "NetworkService")
      BY <1>18, <2>1, <2>2, ClassStays DEF Grows, IsResult, Services
    <3>3. QED
      BY <3>1, <3>2 DEF Joinable, OfClass, EdgeShapes
  <2>3. Grows(edge, new)
    BY <2>1, <2>2, NewEdgeGrows DEF Grows
  <2>t. ASSUME NEW opts, Given(opts) PROVE Tidy(opts, edge.graph, r.graph)
    <3>1. Tidy(opts, q.graph, r.graph) /\ Grows(q, r)
      BY <1>18, <2>t
    <3>2. MayAdd(opts, q.graph, x, portNode(label))
      BY <1>2 DEF MayAdd
    <3>3. Tidy(opts, new.graph, r.graph)
      BY <1>2, <2>0, <3>1, <3>2, TidyNode DEF new
    <3>4. new.ok => new.graph.nodes[x].class # "Link" /\ x \notin Ids(r.graph)
      <4>1. new.ok => x \notin Ids(r.graph)
        BY <2>1, <3>1 DEF Grows, Extends
      <4>2. new.ok => new.graph.nodes[x] = portNode(label)
        BY <2>1 DEF WithNode
      <4>3. QED
        BY <1>2, <4>1, <4>2
    <3>5. Grows(new, r)
      BY <2>1, <3>1, GrowsTransitive
    <3>6. QED
      BY <2>2, <3>3, <3>4, <3>5, TidyEdge
  <2> HIDE DEF edge
  <2>4. Grows(edge, q)
    BY <2>1, <2>3, GrowsTransitive
  <2>u. ASSUME NEW opts, Given(opts) PROVE Tidy(opts, last.graph, r.graph)
    <3>1. IsResult(q) /\ IsResult(edge) /\ Extends(edge.graph, r.graph)
      BY <1>18, <2>1, <2>4, GrowsTransitive DEF Grows
    <3>2. QED
      BY <1>18, <2>t, <2>u, <3>1, TidyOrDelete
  <2>5. Grows(last, r) /\ (last.ok => edge.ok /\ last = edge)
    BY <1>18, <2>4, OrDeleteGrows
  <2> HIDE DEF last
  <2>6. last.ok => svc \in Services(last.graph) /\ id \notin Ids(r.graph)
    BY <1>18, <2>4, <2>5, ClassStays DEF Grows, Services, IsResult
  <2>7. QED
    BY <2>5, <2>6, <2>u DEF last, edge, new, x
<1> HIDE DEF addPort
<1> DEFINE Unfolds(f, m) == f = [k \in 0..m |-> Step(f, k)]
<1>n. n \in Nat
  BY <1>l
<1> HIDE DEF n
<1>19. \E f : Unfolds(f, n)
  <2> DEFINE T == {m \in 0..n : \E f : Unfolds(f, m)}
  <2>1. 0 \in T
    <3> DEFINE f == [k \in 0..0 |-> placed]
    <3>1. Unfolds(f, 0)
      OBVIOUS
    <3> HIDE DEF Unfolds, f
    <3>2. QED
      BY <1>n, <3>1
  <2>2. ASSUME NEW m \in 1..n, m - 1 \in T PROVE m \in T
    <3>1. PICK f : Unfolds(f, m - 1)
      BY <2>2
    <3> DEFINE h == [k \in 0..m |-> IF k = m THEN Step(f, m) ELSE f[k]]
    <3>2. \A k \in 0..(m - 1) : f[k] = Step(f, k) /\ h[k] = f[k]
      <4> HIDE DEF Step
      <4> QED BY <3>1
    <3>3. ASSUME NEW k \in 0..m PROVE h[k] = Step(h, k)
      <4>1. k # 0 => h[k - 1] = f[k - 1]
        BY <3>2
      <4>2. Step(h, k) = Step(f, k)
        <5> HIDE DEF h
        <5> QED BY <4>1
      <4> HIDE DEF Step
      <4>3. h[k] = Step(f, k)
        <5>1. CASE k = m
          BY <5>1
        <5>2. CASE k \in 0..(m - 1)
          BY <3>2, <5>2
        <5>3. QED
          BY <5>1, <5>2
      <4>4. QED
        BY <4>2, <4>3
    <3>4. Unfolds(h, m)
      <4> HIDE DEF Step
      <4> QED BY <3>3
    <3> HIDE DEF Unfolds, h
    <3>5. QED
      BY <1>n, <3>4
  <2>3. n \in T
    <3> HIDE DEF T
    <3>1. n \in 0..n
      BY <1>n
    <3>2. QED
      BY <1>n, <2>1, <2>2, <3>1, IntervalInduction
  <2>4. QED
    BY <2>3
<1>20. after = [k \in 0..n |-> Step(after, k)]
  <2> HIDE DEF Step
  <2> QED BY <1>19
<1> HIDE DEF after
<1>21. after[0] = placed /\ \A k \in 1..n : after[k] = addPort(after[k - 1], labels[k])
  BY <1>n, <1>20
<1>22. Good(after[n])
  <2> DEFINE T == {k \in 0..n : Good(after[k])}
  <2> HIDE DEF Good
  <2>1. 0 \in T
    BY <1>n, <1>17, <1>21
  <2>2. ASSUME NEW k \in 1..n, k - 1 \in T PROVE k \in T
    <3>1. labels[k] \in {"p1", "p2"}
      BY <1>l DEF n
    <3>2. QED
      BY <1>18, <1>21, <2>2, <3>1
  <2>3. n \in T
    <3> HIDE DEF T
    <3>1. n \in 0..n
      BY <1>n
    <3>2. QED
      BY <1>n, <2>1, <2>2, <3>1, IntervalInduction
  <2>4. QED
    BY <2>3
<1>23. QED
  BY <1>3, <1>10, <1>t, <1>22 DEF Made, Given

\* Topology.AddNode, whatever it checks.
LEMMA AddNodeIs ==
  ASSUME NEW r, IsResult(r), NEW o, o.id # Stale
  PROVE  LET q  == AddNodeTo(r, o)
             id == ChooseID(o.id, <<"node", o.name>>)
         IN  /\ Grows(q, r) /\ (q.ok => id \notin Ids(r.graph) /\ id \in NetworkNodes(q.graph))
             /\ \A opts : o.name \in NamesOfNodes(opts) => Tidy(opts, q.graph, r.graph)
<1> DEFINE id    == ChooseID(o.id, <<"node", o.name>>)
           node  == [Element("NetworkNode", o.name, o.type) EXCEPT !.site = o.site]
           valid == ValidNode(r.graph, o)
           asked == Require(r, valid)
           q     == NewNode(asked, id, node)
<1>1. id # Stale
  BY IDsAreNotStale DEF ChooseID
<1>2. IsElement(node) /\ node.class = "NetworkNode" /\ node.name = o.name
  BY DEF Element, IsElement, Fields, Kinds
<1>3. AddNodeTo(r, o) = q
  BY DEF AddNodeTo
<1>4. valid \in BOOLEAN
  BY DEF ValidNode
<1>v. ASSUME valid, NEW m \in NetworkNodes(r.graph) PROVE r.graph.nodes[m].name # o.name
  <2>1. Incoming(r.graph, m, "has") = {}
    BY <1>v DEF IsResult, Inv, Shaped, EdgeShapes, Incoming, NetworkNodes, OfClass
  <2>2. QED
    BY <1>v, <2>1 DEF ValidNode, TopLevelNameExists, Named, NetworkNodes
<1> HIDE DEF id, node, valid
<1>5. Grows(asked, r) /\ asked.graph = r.graph /\ (asked.ok => valid)
  BY <1>4, RequireIs
<1> HIDE DEF asked
<1>6. /\ Grows(q, asked)
      /\ q.ok => asked.ok /\ id \notin Ids(asked.graph) /\ q.graph = WithNode(asked.graph, id, node)
  BY <1>1, <1>2, <1>5, NewNodeGrows DEF Grows
<1> HIDE DEF q
<1>7. q.ok => id \in OfClass(q.graph, "NetworkNode")
  BY <1>1, <1>2, <1>5, <1>6, NewNodeFresh DEF Grows, IsResult
<1>8. Grows(q, r)
  BY <1>5, <1>6, GrowsTransitive
<1>9. ASSUME NEW opts, o.name \in NamesOfNodes(opts) PROVE Tidy(opts, q.graph, r.graph)
  <2>1. asked.ok => MayAdd(opts, asked.graph, id, node)
    BY <1>2, <1>5, <1>9, <1>v DEF MayAdd
  <2>2. Tidy(opts, asked.graph, r.graph)
    BY <1>5, TidyReflexive
  <2>3. QED
    BY <1>1, <1>2, <1>5, <2>1, <2>2, TidyNode DEF q
<1>10. QED
  BY <1>3, <1>5, <1>6, <1>7, <1>8, <1>9 DEF NetworkNodes, id

\* Facilities and switches: their service and ports.
LEMMA AddNodeWithPortsGrows ==
  ASSUME NEW r, IsResult(r), NEW nodeType, NEW o, o.id # Stale, o.nsID # Stale,
         NEW ports, Len(ports) \in Nat, \A k \in 1..Len(ports) : ports[k].id # Stale
  PROVE  LET q == AddNodeWithPorts(r, nodeType, o, ports)
         IN  /\ Grows(q, r)
             /\ \A opts :
                  /\ o.name \in NamesOfNodes(opts) /\ o.name \o <<"ns">> \in NamesOfServices(opts)
                  /\ o.nsID = NoID /\ \A k \in 1..Len(ports) : ports[k].type # "ServicePort"
                  => Tidy(opts, q.graph, r.graph)
<1> DEFINE id   == ChooseID(o.id, <<"node", o.name>>)
           ns   == o.name \o <<"ns">>
           svc  == ChooseID(o.nsID, <<"service", ns>>)
           nodeOpts == [name |-> o.name, type |-> nodeType, site |-> o.site, id |-> o.id,
                        image |-> FALSE, mgmtIP |-> FALSE]
           svcOpts  == [name |-> ns, type |-> o.type, site |-> o.site, id |-> o.nsID,
                        mirror |-> NoName, badGateway |-> FALSE]
           node     == AddNodeTo(r, nodeOpts)
           svcNew   == AddServiceTo(node, id, svcOpts, << >>)
           service  == OrDelete(node, svcNew, {id})
           addPort(q, port) == OrDelete(q, AddInterfaceTo(q, svc, port), {id})
           Step(f, k) == IF k = 0 THEN service ELSE addPort(f[k - 1], ports[k])
           n     == Len(ports)
           after == CHOOSE f : f = [k \in 0..n |-> Step(f, k)]
           Given(opts) ==
             /\ o.name \in NamesOfNodes(opts) /\ o.name \o <<"ns">> \in NamesOfServices(opts)
             /\ o.nsID = NoID /\ \A k \in 1..Len(ports) : ports[k].type # "ServicePort"
           Good(q) == /\ Grows(q, r) /\ (q.ok => svc \in Services(q.graph) /\ id \notin Ids(r.graph))
                      /\ \A opts : Given(opts) => Tidy(opts, q.graph, r.graph)
<1>1. AddNodeWithPorts(r, nodeType, o, ports) = after[n]
  BY DEF AddNodeWithPorts, InTurn
<1>2. /\ Grows(node, r) /\ (node.ok => id \notin Ids(r.graph) /\ id \in NetworkNodes(node.graph))
      /\ \A opts : o.name \in NamesOfNodes(opts) => Tidy(opts, node.graph, r.graph)
  <2>1. nodeOpts.id = o.id /\ nodeOpts.name = o.name
    OBVIOUS
  <2> HIDE DEF nodeOpts
  <2>2. QED
    BY <2>1, AddNodeIs
<1> HIDE DEF node
<1>3. /\ Grows(svcNew, node) /\ (svcNew.ok => svc \in Services(svcNew.graph))
      /\ \A opts : OwnName(opts, svc, ns) => Tidy(opts, svcNew.graph, node.graph)
  <2>1. svcOpts.id = o.nsID /\ svcOpts.name = ns /\ Len(<< >>) = 0
    OBVIOUS
  <2> HIDE DEF svcOpts, id, ns
  <2>2. IsResult(node) /\ \A k \in 1..0 : FALSE
    BY <1>2 DEF Grows
  <2>3. Len(<< >>) \in Nat /\ \A k \in 1..Len(<< >>) : FALSE
    BY <2>1, <2>2
  <2>4. svcOpts.id # Stale /\ (node.ok => id \in NetworkNodes(node.graph))
    BY <1>2, <2>1 DEF id
  <2>5. QED
    BY <2>1, <2>2, <2>3, <2>4, AddServiceGrows DEF svc
<1>s. \A opts : Given(opts) => OwnName(opts, svc, ns)
  BY DEF OwnName, ChooseID
<1> HIDE DEF svcNew, id, svc
<1>4. Grows(service, r) /\ (service.ok => svcNew.ok /\ service = svcNew)
  BY <1>2, <1>3, OrDeleteGrows
<1>t. ASSUME NEW opts, Given(opts) PROVE Tidy(opts, service.graph, r.graph)
  <2>1. /\ IsResult(node) /\ Extends(node.graph, r.graph) /\ Tidy(opts, node.graph, r.graph)
        /\ IsResult(svcNew) /\ Extends(svcNew.graph, node.graph) /\ Tidy(opts, svcNew.graph, node.graph)
    BY <1>2, <1>3, <1>s, <1>t DEF Grows
  <2>2. Tidy(opts, svcNew.graph, r.graph) /\ Extends(svcNew.graph, r.graph)
    BY <2>1, TidyTransitive, ExtendsTransitive DEF IsResult
  <2>3. QED
    BY <1>2, <2>1, <2>2, TidyOrDelete
<1> HIDE DEF service
<1>5. Good(service)
  BY <1>2, <1>3, <1>4, <1>t DEF Grows
<1>6. ASSUME NEW q, Good(q), NEW k \in 1..Len(ports) PROVE Good(addPort(q, ports[k]))
  <2> DEFINE port == ports[k]
             next == AddInterfaceTo(q, svc, port)
             last == OrDelete(q, next, {id})
  <2> HIDE DEF Given
  <2>1. IsResult(q)
    BY <1>6 DEF Grows
  <2>2. /\ Grows(next, q)
        /\ \A opts : port.type # "ServicePort" => Tidy(opts, next.graph, q.graph)
    BY <1>6, <2>1, AddInterfaceIsAtomic DEF Made
  <2> HIDE DEF next
  <2>t. ASSUME NEW opts, Given(opts) PROVE Tidy(opts, last.graph, r.graph)
    <3>1. /\ Tidy(opts, q.graph, r.graph) /\ Extends(q.graph, r.graph)
          /\ Tidy(opts, next.graph, q.graph) /\ Extends(next.graph, q.graph) /\ IsResult(next)
      BY <1>6, <2>2, <2>t DEF Grows, Given
    <3>2. Tidy(opts, next.graph, r.graph) /\ Extends(next.graph, r.graph)
      BY <2>1, <3>1, TidyTransitive, ExtendsTransitive DEF IsResult
    <3>3. QED
      BY <1>6, <2>1, <3>1, <3>2, TidyOrDelete
  <2>3. Grows(last, r) /\ (last.ok => next.ok /\ last = next)
    BY <1>6, <2>2, OrDeleteGrows
  <2> HIDE DEF last
  <2>4. last.ok => svc \in Services(last.graph) /\ id \notin Ids(r.graph)
    BY <1>6, <2>2, <2>3, ClassStays DEF Grows, Services, IsResult
  <2>5. QED
    BY <2>3, <2>4, <2>t DEF last, next, port
<1> HIDE DEF addPort
<1> DEFINE Unfolds(f, m) == f = [k \in 0..m |-> Step(f, k)]
<1>n. n \in Nat
  OBVIOUS
<1> HIDE DEF n
<1>7. \E f : Unfolds(f, n)
  <2> DEFINE T == {m \in 0..n : \E f : Unfolds(f, m)}
  <2>1. 0 \in T
    <3> DEFINE f == [k \in 0..0 |-> service]
    <3>1. Unfolds(f, 0)
      OBVIOUS
    <3> HIDE DEF Unfolds, f
    <3>2. QED
      BY <1>n, <3>1
  <2>2. ASSUME NEW m \in 1..n, m - 1 \in T PROVE m \in T
    <3>1. PICK f : Unfolds(f, m - 1)
      BY <2>2
    <3> DEFINE h == [k \in 0..m |-> IF k = m THEN Step(f, m) ELSE f[k]]
    <3>2. \A k \in 0..(m - 1) : f[k] = Step(f, k) /\ h[k] = f[k]
      <4> HIDE DEF Step
      <4> QED BY <3>1
    <3>3. ASSUME NEW k \in 0..m PROVE h[k] = Step(h, k)
      <4>1. k # 0 => h[k - 1] = f[k - 1]
        BY <3>2
      <4>2. Step(h, k) = Step(f, k)
        <5> HIDE DEF h
        <5> QED BY <4>1
      <4> HIDE DEF Step
      <4>3. h[k] = Step(f, k)
        <5>1. CASE k = m
          BY <5>1
        <5>2. CASE k \in 0..(m - 1)
          BY <3>2, <5>2
        <5>3. QED
          BY <5>1, <5>2
      <4>4. QED
        BY <4>2, <4>3
    <3>4. Unfolds(h, m)
      <4> HIDE DEF Step
      <4> QED BY <3>3
    <3> HIDE DEF Unfolds, h
    <3>5. QED
      BY <1>n, <3>4
  <2>3. n \in T
    <3> HIDE DEF T
    <3>1. n \in 0..n
      BY <1>n
    <3>2. QED
      BY <1>n, <2>1, <2>2, <3>1, IntervalInduction
  <2>4. QED
    BY <2>3
<1>8. after = [k \in 0..n |-> Step(after, k)]
  <2> HIDE DEF Step
  <2> QED BY <1>7
<1> HIDE DEF after
<1>9. after[0] = service /\ \A k \in 1..n : after[k] = addPort(after[k - 1], ports[k])
  BY <1>n, <1>8
<1>10. Good(after[n])
  <2> DEFINE T == {k \in 0..n : Good(after[k])}
  <2> HIDE DEF Good
  <2>1. 0 \in T
    BY <1>n, <1>5, <1>9
  <2>2. ASSUME NEW k \in 1..n, k - 1 \in T PROVE k \in T
    <3>1. k \in 1..Len(ports)
      BY DEF n
    <3>2. QED
      BY <1>6, <1>9, <2>2, <3>1
  <2>3. n \in T
    <3> HIDE DEF T
    <3>1. n \in 0..n
      BY <1>n
    <3>2. QED
      BY <1>n, <2>1, <2>2, <3>1, IntervalInduction
  <2>4. QED
    BY <2>3
<1>11. QED
  BY <1>1, <1>10

\* A link with all its ends is added, or nothing is.
LEMMA AddLinkIsAtomic ==
  ASSUME NEW r, IsResult(r), NEW o, o.id # Stale, NEW ifs, Len(ifs) \in Nat,
         r.ok => \A k \in 1..Len(ifs) : Held(r.graph, ifs[k])
  PROVE  LET q == AddLinkTo(r, o, ifs)
         IN  /\ \E id : Made(q, r, {id})
             /\ \A opts : Tidy(opts, q.graph, r.graph)
<1> DEFINE id    == ChooseID(o.id, <<"link", o.name>>)
           legal == /\ ~TopLevelNameExists(r.graph, o.name)
                    /\ o.type \in {"Patch", "L1Path"} => Len(ifs) = 2
           node  == Element("Link", o.name, o.type)
           asked == Require(r, legal)
           link  == NewNode(asked, id, node)
           connect(q, i) == NewEdgeOr(q, "connects", id, i, {id})
           Step(f, k) == IF k = 0 THEN link ELSE connect(f[k - 1], ifs[k])
           n     == Len(ifs)
           after == CHOOSE f : f = [k \in 0..n |-> Step(f, k)]
           Good(q) == /\ Made(q, r, {id}) /\ (q.ok => r.ok /\ id \in Links(q.graph))
                      /\ \A opts : Tidy(opts, q.graph, r.graph)
<1>1. id # Stale
  BY IDsAreNotStale DEF ChooseID
<1>2. IsElement(node) /\ node.class = "Link"
  BY DEF Element, IsElement, Fields, Kinds
<1>3. AddLinkTo(r, o, ifs) = after[n]
  BY DEF AddLinkTo, InTurn
<1>4. legal \in BOOLEAN
  OBVIOUS
<1> HIDE DEF id, node, legal
<1>5. Grows(asked, r) /\ asked.graph = r.graph
  BY <1>4, RequireIs
<1> HIDE DEF asked
<1>6. /\ Made(link, asked, {id})
      /\ link.ok => asked.ok /\ id \notin Ids(asked.graph) /\ link.graph = WithNode(asked.graph, id, node)
  BY <1>1, <1>2, <1>5, MadeFirst DEF Grows
<1>7. Made(link, r, {id})
  BY <1>5, <1>6, GrowsTransitive DEF Made
<1>t. ASSUME NEW opts PROVE Tidy(opts, link.graph, r.graph)
  <2>1. MayAdd(opts, asked.graph, id, node)
    BY <1>2 DEF MayAdd
  <2>2. Tidy(opts, asked.graph, r.graph) /\ IsResult(asked)
    BY <1>5, TidyReflexive DEF Grows
  <2>3. QED
    BY <1>1, <1>2, <1>5, <2>1, <2>2, TidyNode DEF link
<1> HIDE DEF link
<1>8. Good(link)
  <2>1. link.ok => id \in OfClass(link.graph, "Link")
    BY <1>1, <1>2, <1>5, <1>6, NewNodeFresh DEF Grows, IsResult
  <2>2. QED
    BY <1>7, <1>t, <2>1 DEF Made, Grows, Links
<1>9. ASSUME NEW q, Good(q), NEW i, r.ok => Held(r.graph, i) PROVE Good(connect(q, i))
  <2> DEFINE last == NewEdgeOr(q, "connects", id, i, {id})
  <2>1. ASSUME q.ok, i \in Ids(q.graph) PROVE Joinable(q.graph, "connects", id, i)
    <3>1. Held(q.graph, i) /\ Inv(q.graph)
      BY <1>9, <2>1, HeldStays DEF Made, Grows, IsResult
    <3>2. i \in OfClass(q.graph, "ConnectionPoint")
      BY <2>1, <3>1 DEF Held, Inv, IsGraph, Ports
    <3>3. QED
      BY <1>9, <2>1, <3>2 DEF Joinable, OfClass, EdgeShapes, Links
  <2>t. ASSUME NEW opts PROVE Tidy(opts, last.graph, r.graph)
    <3>1. ASSUME q.ok, i \in Ids(q.graph)
          PROVE  q.graph.nodes[i].class # "Link" /\ q.graph.nodes[id].class # "NetworkService"
      BY <1>9, <2>1, <3>1 DEF Joinable, EdgeShapes, Links, OfClass
    <3>2. QED
      BY <1>9, <2>1, <3>1, TidyEdgeOr DEF Made
  <2>2. id \in {id}
    OBVIOUS
  <2>3. Made(last, r, {id}) /\ (last.ok => q.ok /\ last.graph = WithEdge(q.graph, "connects", id, i))
    BY <1>9, <2>1, <2>2, MadeEdge
  <2> HIDE DEF last
  <2>4. last.ok => r.ok /\ id \in Links(last.graph)
    BY <1>9, <2>3 DEF WithEdge, Links, OfClass, Ids
  <2>5. QED
    BY <2>3, <2>4, <2>t DEF last
<1> HIDE DEF connect
<1> DEFINE Unfolds(f, m) == f = [k \in 0..m |-> Step(f, k)]
<1>n. n \in Nat
  OBVIOUS
<1> HIDE DEF n
<1>10. \E f : Unfolds(f, n)
  <2> DEFINE T == {m \in 0..n : \E f : Unfolds(f, m)}
  <2>1. 0 \in T
    <3> DEFINE f == [k \in 0..0 |-> link]
    <3>1. Unfolds(f, 0)
      OBVIOUS
    <3> HIDE DEF Unfolds, f
    <3>2. QED
      BY <1>n, <3>1
  <2>2. ASSUME NEW m \in 1..n, m - 1 \in T PROVE m \in T
    <3>1. PICK f : Unfolds(f, m - 1)
      BY <2>2
    <3> DEFINE h == [k \in 0..m |-> IF k = m THEN Step(f, m) ELSE f[k]]
    <3>2. \A k \in 0..(m - 1) : f[k] = Step(f, k) /\ h[k] = f[k]
      <4> HIDE DEF Step
      <4> QED BY <3>1
    <3>3. ASSUME NEW k \in 0..m PROVE h[k] = Step(h, k)
      <4>1. k # 0 => h[k - 1] = f[k - 1]
        BY <3>2
      <4>2. Step(h, k) = Step(f, k)
        <5> HIDE DEF h
        <5> QED BY <4>1
      <4> HIDE DEF Step
      <4>3. h[k] = Step(f, k)
        <5>1. CASE k = m
          BY <5>1
        <5>2. CASE k \in 0..(m - 1)
          BY <3>2, <5>2
        <5>3. QED
          BY <5>1, <5>2
      <4>4. QED
        BY <4>2, <4>3
    <3>4. Unfolds(h, m)
      <4> HIDE DEF Step
      <4> QED BY <3>3
    <3> HIDE DEF Unfolds, h
    <3>5. QED
      BY <1>n, <3>4
  <2>3. n \in T
    <3> HIDE DEF T
    <3>1. n \in 0..n
      BY <1>n
    <3>2. QED
      BY <1>n, <2>1, <2>2, <3>1, IntervalInduction
  <2>4. QED
    BY <2>3
<1>11. after = [k \in 0..n |-> Step(after, k)]
  <2> HIDE DEF Step
  <2> QED BY <1>10
<1> HIDE DEF after
<1>12. after[0] = link /\ \A k \in 1..n : after[k] = connect(after[k - 1], ifs[k])
  BY <1>n, <1>11
<1>13. Good(after[n])
  <2> DEFINE T == {k \in 0..n : Good(after[k])}
  <2> HIDE DEF Good
  <2>1. 0 \in T
    BY <1>n, <1>8, <1>12
  <2>2. ASSUME NEW k \in 1..n, k - 1 \in T PROVE k \in T
    <3>1. r.ok => Held(r.graph, ifs[k])
      BY DEF n
    <3>2. QED
      BY <1>9, <1>12, <2>2, <3>1
  <2>3. n \in T
    <3> HIDE DEF T
    <3>1. n \in 0..n
      BY <1>n
    <3>2. QED
      BY <1>n, <2>1, <2>2, <3>1, IntervalInduction
  <2>4. QED
    BY <2>3
<1>14. QED
  BY <1>3, <1>13

\* Interface.SetLabels alters labels only.
LEMMA SetLabelsGrows ==
  ASSUME NEW r, IsResult(r), NEW i, NEW vlan
  PROVE  LET q == SetLabelsOn(r, i, vlan)
         IN  Grows(q, r) /\ \A opts : Tidy(opts, q.graph, r.graph)
<1>1. PICK N, E, b : r = [graph |-> [nodes |-> N, edges |-> E], ok |-> b] /\ b \in BOOLEAN
  BY DEF IsResult, Inv, IsGraph
<1>2. r.graph = [nodes |-> N, edges |-> E] /\ r.graph.nodes = N /\ r.graph.edges = E /\ r.ok = b
  BY <1>1
<1>3. CASE vlan # NoVLAN /\ i \in Ids(r.graph)
  <2> DEFINE M == [N EXCEPT ![i].vlan = vlan]
             H == [nodes |-> M, edges |-> E]
             q == [graph |-> H, ok |-> b]
  <2>1. [r EXCEPT !.graph.nodes[i].vlan = vlan] = q
    BY <1>1
  <2>2. /\ DOMAIN M = DOMAIN N
        /\ M = [n \in DOMAIN N |-> M[n]]
        /\ \A n \in DOMAIN N : n # i => M[n] = N[n]
        /\ M[i] = [N[i] EXCEPT !.vlan = vlan]
    BY <1>2, <1>3 DEF Ids
  <2>3. IsElement(N[i]) /\ i \in DOMAIN N
    BY <1>2, <1>3 DEF IsResult, Inv, Shaped, Ids
  <2>4. IsElement(M[i]) /\ M[i].class = N[i].class
    BY <2>2, <2>3 DEF IsElement, Fields
  <2>5. [M[i] EXCEPT !.vlan = NoVLAN] = [N[i] EXCEPT !.vlan = NoVLAN]
    BY <2>2, <2>3 DEF IsElement, Fields
  <2> HIDE DEF M
  <2>6. H.nodes = M /\ H.edges = E /\ H = [nodes |-> H.nodes, edges |-> H.edges] /\ Ids(H) = Ids(r.graph)
    BY <1>2, <2>2 DEF Ids
  <2>7. q.graph = H /\ q.ok = b /\ q = [graph |-> q.graph, ok |-> q.ok]
    OBVIOUS
  <2> HIDE DEF H, q
  <2>8. \A n \in Ids(r.graph) : IsElement(H.nodes[n]) /\ H.nodes[n].class = r.graph.nodes[n].class
    BY <1>2, <2>2, <2>4, <2>6 DEF IsResult, Inv, Shaped, Ids
  <2>9. IsGraph(H)
    BY <1>2, <2>2, <2>6 DEF IsGraph, IsResult, Inv, Ids
  <2>10. Shaped(H)
    BY <1>2, <2>6, <2>8 DEF Shaped, IsResult, Inv
  <2>11. OneOwner(H)
    <3>1. \A e \in H.edges : Owns(H, e) <=> Owns(r.graph, e)
      BY <1>2, <2>6, <2>8 DEF Owns, IsResult, Inv, Shaped
    <3>2. QED
      BY <1>2, <2>6, <3>1 DEF OneOwner, IsResult, Inv
  <2>12. Extends(H, r.graph)
    BY <1>2, <2>2, <2>5, <2>6 DEF Extends, Ids
  <2>13. Grows(q, r)
    BY <1>1, <1>2, <2>7, <2>9, <2>10, <2>11, <2>12 DEF Grows, IsResult, Inv
  <2>14. q.graph.edges = r.graph.edges /\ Ids(q.graph) = Ids(r.graph)
    BY <1>2, <2>6, <2>7
  <2>15. SetLabelsOn(r, i, vlan) = q
    BY <1>3, <2>1 DEF SetLabelsOn
  <2>16. QED
    BY <2>13, <2>14, <2>15 DEF Tidy
<1>4. CASE vlan = NoVLAN
  BY <1>4, GrowsReflexive, TidyReflexive DEF SetLabelsOn
<1>5. CASE vlan # NoVLAN /\ i \notin Ids(r.graph)
  <2>1. Require(r, FALSE) = [r EXCEPT !.ok = FALSE]
    BY Zenon DEF Require
  <2>2. Grows(Require(r, FALSE), r) /\ Require(r, FALSE).graph = r.graph
    BY RequireIs
  <2>3. QED
    BY <1>5, <2>1, <2>2, TidyReflexive DEF SetLabelsOn
<1>6. QED
  BY <1>3, <1>4, <1>5

-----------------------------------------------------------------------------
(* The inductive invariant.                                                *)

\* The graph is well formed, and if the caller is disciplined all that is attached
\* is attached properly.
Orderly == KeepsDiscipline(The) => Neat(The, g)

IndInv == Inv(g) /\ caller \in DOMAIN Callers /\ Orderly

-----------------------------------------------------------------------------
(* What callers pass.                                                      *)

\* A call begins with no error.
LEMMA OkIsResult == ASSUME NEW G, Inv(G) PROVE IsResult(Ok(G)) /\ Ok(G).graph = G
BY DEF IsResult, Ok

\* Interfaces that callers pass are ports, or ports no more.
LEMMA ConnectableIsHeld == \A i \in Connectable : Held(g, i)
<1>1. \A G, s : Interfaces(G, s) \subseteq Ports(G)
  BY DEF Interfaces
<1>2. \A G, i : ChildInterfaces(G, i) \subseteq Ports(G)
  BY DEF ChildInterfaces
<1>3. Found \subseteq Ports(g)
  BY <1>1, <1>2 DEF Found, InterfaceList
<1>4. ServicePorts \subseteq Ports(g)
  BY <1>1 DEF ServicePorts
<1>5. QED
  BY <1>3, <1>4 DEF Connectable, Held

\* Disciplined callers find those that may be attached.
LEMMA ConnectableIsSpare ==
  ASSUME Inv(g), The.liberties = {}
  PROVE  \A i \in Connectable : Attachable(g, i) /\ OnService(g, i)
<1> SUFFICES ASSUME NEW i \in Connectable PROVE Attachable(g, i) /\ OnService(g, i)
  OBVIOUS
<1> DEFINE listed == UNION {InterfaceList(g, n) : n \in NetworkNodes(g)}
<1>1. i \in listed \cup UNION {ChildInterfaces(g, j) : j \in listed} /\ i \notin ServicePorts
  BY DEF Connectable, Found
<1>2. \A j \in listed : j \in Ports(g) /\ \E s \in Services(g) : Joined(g, s, j) /\ Owned(g, s)
  <2> SUFFICES ASSUME NEW n, NEW j \in InterfaceList(g, n)
               PROVE  j \in Ports(g) /\ \E s \in Services(g) : Joined(g, s, j) /\ Owned(g, s)
    OBVIOUS
  <2>1. PICK o, s : s \in Children(g, o, "NetworkService") /\ j \in Interfaces(g, s)
    BY DEF InterfaceList
  <2>2. s \in Services(g) /\ Owned(g, s)
    BY <2>1 DEF Children, Outgoing, Owned, Services
  <2>3. j \in Ports(g) /\ Joined(g, s, j)
    BY <2>1 DEF Interfaces, Outgoing, Joined
  <2>4. QED
    BY <2>2, <2>3
<1> HIDE DEF listed
<1>3. \A s, t, j : j \in Ports(g) /\ Joined(g, s, j) /\ Joined(g, t, j)
                   /\ s \in Services(g) \cup Ports(g) /\ t \in Services(g) \cup Ports(g) => s = t
  BY DEF Inv, OneOwner, Owns, Joined, Services, Ports, OfClass
<1>4. CASE i \in listed
  <2>1. PICK s \in Services(g) : i \in Ports(g) /\ Joined(g, s, i) /\ Owned(g, s)
    BY <1>2, <1>4
  <2>2. i \in Interfaces(g, s)
    BY <2>1 DEF Interfaces, Outgoing, Joined
  <2>3. g.nodes[i].type # "ServicePort"
    BY <1>1, <2>1, <2>2 DEF ServicePorts, TypeOf, Ports, OfClass
  <2>4. \A t \in Services(g) : Joined(g, t, i) => Owned(g, t)
    BY <1>3, <2>1
  <2>5. QED
    BY <2>1, <2>3, <2>4 DEF Attachable, OnService
<1>5. ASSUME NEW j \in listed, i \in ChildInterfaces(g, j) PROVE Attachable(g, i) /\ OnService(g, i)
  <2>1. i \in Ports(g) /\ Joined(g, j, i) /\ g.nodes[i].type = "SubInterface"
    BY <1>5 DEF ChildInterfaces, Outgoing, Joined, TypeOf, Ports, OfClass
  <2>2. j \in Ports(g)
    BY <1>2, <1>5
  <2>3. \A t \in Services(g) : ~Joined(g, t, i)
    BY <1>3, <2>1, <2>2 DEF Services, Ports, OfClass
  <2>4. QED
    BY <2>1, <2>3 DEF Attachable, OnService
<1>6. QED
  BY <1>1, <1>4, <1>5

\* So are those they pass in lists.
LEMMA InterfaceListsAreHeld ==
  ASSUME NEW ifs \in InterfaceLists
  PROVE  Len(ifs) \in Nat /\ \A k \in 1..Len(ifs) : ifs[k] \in Connectable /\ Held(g, ifs[k])
<1>1. PICK k \in 0..MaxAttach : ifs \in [1..k -> Connectable]
  BY DEF InterfaceLists
<1>2. k \in Nat
  BY BoundsAssumption
<1>3. Len(ifs) = k
  BY <1>1, <1>2
<1>4. QED
  BY <1>1, <1>2, <1>3, ConnectableIsHeld

\* No ID that a caller supplies is that of a facade gone stale.
LEMMA GivenIDs ==
  ASSUME caller \in DOMAIN Callers
  PROVE  /\ \A o \in The.nodes \cup The.services \cup The.nodeServices \cup The.mirrors \cup The.links
                     \cup The.ports \cup The.children : o.id # Stale
         /\ \A o \in The.components : /\ o.id # Stale /\ o.nsID # Stale
                                      /\ \A l \in {"p1", "p2"} : o.portID[l] # Stale
         /\ \A o \in The.facilities : /\ o.id # Stale /\ o.nsID # Stale
                                      /\ \A k \in DOMAIN o.ports : o.ports[k].id # Stale
                                      /\ \E n \in Nat : DOMAIN o.ports = 1..n
         /\ \A o \in The.switches : o.id # Stale /\ o.nsID # Stale /\ o.nPorts \in Nat
<1>1. Stale \notin IDsGiven(The)
  BY IDsAssumption DEF The
<1>2. /\ \A o \in The.facilities : \E n \in Nat : DOMAIN o.ports = 1..n
      /\ \A o \in The.switches : o.nPorts \in Nat
  BY PortsAssumption DEF The
<1>3. \A o \in UNION {The.nodes, The.components, The.services, The.nodeServices, The.facilities,
                      The.switches, The.mirrors, The.links, The.ports, The.children} : o.id # Stale
  BY <1>1 DEF IDsGiven
<1>4. \A o \in The.components \cup The.facilities \cup The.switches : o.nsID # Stale
  BY <1>1 DEF IDsGiven
<1>5. \A o \in The.components : \A l \in {"p1", "p2"} : o.portID[l] # Stale
  <2> SUFFICES ASSUME NEW o \in The.components, NEW l \in {"p1", "p2"} PROVE o.portID[l] # Stale
    OBVIOUS
  <2>1. o.portID[l] \in {o.portID[m] : m \in {"p1", "p2"}}
    OBVIOUS
  <2>2. o.portID[l] \in UNION {{x.portID[m] : m \in {"p1", "p2"}} : x \in The.components}
    BY <2>1
  <2>3. QED
    BY <1>1, <2>2 DEF IDsGiven
<1>6. \A o \in The.facilities : \A k \in DOMAIN o.ports : o.ports[k].id # Stale
  <2> SUFFICES ASSUME NEW o \in The.facilities, NEW k \in DOMAIN o.ports PROVE o.ports[k].id # Stale
    OBVIOUS
  <2>1. o.ports[k].id \in {o.ports[j].id : j \in DOMAIN o.ports}
    OBVIOUS
  <2>2. o.ports[k].id \in UNION {{x.ports[j].id : j \in DOMAIN x.ports} : x \in The.facilities}
    BY <2>1
  <2>3. QED
    BY <1>1, <2>2 DEF IDsGiven
<1>7. QED
  BY <1>2, <1>3, <1>4, <1>5, <1>6

-----------------------------------------------------------------------------
(* Steps.                                                                  *)

\* An empty graph is well formed.
LEMMA InitInv == Init => IndInv
<1> SUFFICES ASSUME Init PROVE IndInv
  OBVIOUS
<1>1. g.nodes = [n \in {} |-> n] /\ g.edges = {} /\ Ids(g) = {}
  BY DEF Init, NewGraph, Ids
<1>2. IsGraph(g)
  BY <1>1, FS_EmptySet DEF IsGraph, Init, NewGraph
<1>3. Neat(The, g)
  BY <1>1 DEF Neat, PeersInv, NamesInv, IsServicePort, Services, NetworkNodes, OfClass
<1>4. QED
  BY <1>1, <1>2, <1>3 DEF IndInv, Orderly, Inv, Shaped, OneOwner, Init

\* A call that grows the graph, as a step.
LEMMA BecomesGrown ==
  ASSUME IndInv, NEW r, Grows(r, Ok(g)), Becomes(r)
  PROVE  Inv(g') /\ Extends(g', g)
BY OkIsResult DEF Becomes, Grows, IsResult, IndInv

\* Building keeps a graph well formed and keeps what is in it; what disciplined
\* callers build keeps attachments and names.
LEMMA BuildGrows ==
  IndInv /\ Build => Inv(g') /\ Extends(g', g) /\ (KeepsDiscipline(The) => Neat(The, g'))
<1> SUFFICES ASSUME IndInv, Build
             PROVE  Inv(g') /\ Extends(g', g) /\ (KeepsDiscipline(The) => Neat(The, g'))
  OBVIOUS
<1> DEFINE r == Ok(g)
           Kept    == KeepsDiscipline(The)
           Fine(q) == Grows(q, r) /\ (Kept => Neat(The, q.graph))
<1>0. IsResult(r) /\ r.graph = g /\ caller \in DOMAIN Callers
  BY OkIsResult DEF IndInv
<1>d. Kept => Neat(The, g) /\ The.liberties = {}
  BY DEF IndInv, Orderly, KeepsDiscipline
<1>s. ASSUME Kept PROVE \A i \in Connectable : Attachable(g, i) /\ OnService(g, i)
  BY <1>d, <1>s, ConnectableIsSpare DEF IndInv
<1> HIDE DEF r
<1>f. ASSUME NEW q, Grows(q, r), Kept => Tidy(The, q.graph, r.graph) PROVE Fine(q)
  BY <1>0, <1>d, <1>f, TidyKeeps DEF Grows, IsResult
<1> HIDE DEF Fine
<1>1. ASSUME NEW o \in The.nodes, AddNode(o) PROVE \E q : Fine(q) /\ Becomes(q)
  <2>1. o.id # Stale
    BY <1>0, GivenIDs
  <2>2. o.name \in NamesOfNodes(The)
    BY DEF NamesOfNodes
  <2>3. Fine(AddNodeTo(r, o))
    BY <1>0, <1>f, <2>1, <2>2, AddNodeIs
  <2>4. QED
    BY <1>1, <2>3 DEF AddNode, r
<1>2. ASSUME NEW n \in NetworkNodes(g), NEW o \in The.components, AddComponent(n, o)
      PROVE  \E q : Fine(q) /\ Becomes(q)
  <2>1. o.id # Stale /\ o.nsID # Stale /\ \A l \in {"p1", "p2"} : o.portID[l] # Stale
    BY <1>0, GivenIDs
  <2>2. Kept => o.nsID = NoID /\ g.nodes[n].name \in NamesOfNodes(The)
    BY <1>d DEF KeepsDiscipline, Neat, NamesInv
  <2>3. Fine(AddComponentTo(r, n, o))
    BY <1>0, <1>f, <2>1, <2>2, AddComponentGrows
  <2>4. QED
    BY <1>2, <2>3 DEF AddComponent, r
<1>3. ASSUME NEW o \in The.services, NEW ifs \in InterfaceLists, AddNetworkService(o, ifs)
      PROVE  \E q : Fine(q) /\ Becomes(q)
  <2>1. o.id # Stale /\ Len(ifs) \in Nat /\ \A k \in 1..Len(ifs) : ifs[k] \in Connectable /\ Held(g, ifs[k])
    BY <1>0, GivenIDs, InterfaceListsAreHeld
  <2>2. Kept => OwnName(The, ChooseID(o.id, <<"service", o.name>>), o.name)
    BY DEF KeepsDiscipline, OwnName, NamesOfServices, ChooseID
  <2>3. Fine(AddServiceTo(r, NoID, o, ifs))
    BY <1>0, <1>d, <1>s, <2>1, <2>2, AddServiceGrows DEF Fine
  <2>4. QED
    BY <1>3, <2>3 DEF AddNetworkService, r
<1>4. ASSUME NEW n \in NetworkNodes(g), NEW o \in The.nodeServices, NEW ifs \in InterfaceLists,
             AddNodeService(n, o, ifs)
      PROVE  \E q : Fine(q) /\ Becomes(q)
  <2>1. o.id # Stale /\ Len(ifs) \in Nat /\ \A k \in 1..Len(ifs) : ifs[k] \in Connectable /\ Held(g, ifs[k])
    BY <1>0, GivenIDs, InterfaceListsAreHeld
  <2>2. Kept => OwnName(The, ChooseID(o.id, <<"service", o.name>>), o.name)
    BY DEF KeepsDiscipline, OwnName, NamesOfServices, ChooseID
  <2>3. Fine(AddServiceTo(r, n, o, ifs))
    BY <1>0, <1>d, <1>s, <2>1, <2>2, AddServiceGrows DEF Fine
  <2>4. QED
    BY <1>4, <2>3 DEF AddNodeService, r
<1>5. ASSUME NEW o \in The.facilities, AddFacility(o) PROVE \E q : Fine(q) /\ Becomes(q)
  <2> DEFINE given == IF o.ports = << >> THEN <<[name |-> o.name \o <<"int">>, id |-> NoID]>> ELSE o.ports
             ports == [k \in DOMAIN given |->
                         [name |-> given[k].name, type |-> "FacilityPort", id |-> given[k].id]]
  <2>1. /\ o.id # Stale /\ o.nsID # Stale
        /\ \A k \in DOMAIN o.ports : o.ports[k].id # Stale
        /\ \E n \in Nat : DOMAIN o.ports = 1..n
    BY <1>0, GivenIDs
  <2>2. \A k \in DOMAIN given : given[k].id # Stale
    <3>1. NoID # Stale
      BY DEF NoID, Stale
    <3>2. QED
      BY <2>1, <3>1
  <2>3. \E n \in Nat : DOMAIN given = 1..n
    <3>1. CASE o.ports = << >>
      <4>1. DOMAIN given = 1..1
        BY <3>1
      <4>2. QED
        BY <4>1
    <3>2. CASE o.ports # << >>
      BY <2>1, <3>2
    <3>3. QED
      BY <3>1, <3>2
  <2>4. AddFacilityTo(r, o) = AddNodeWithPorts(r, "Facility", o, ports)
    BY DEF AddFacilityTo
  <2> HIDE DEF given
  <2>5. Len(ports) \in Nat /\ \A k \in 1..Len(ports) : ports[k].id # Stale /\ ports[k].type # "ServicePort"
    BY <2>2, <2>3
  <2> HIDE DEF ports
  <2>6. Kept => /\ o.name \in NamesOfNodes(The) /\ o.name \o <<"ns">> \in NamesOfServices(The)
                /\ o.nsID = NoID
    BY DEF KeepsDiscipline, NamesOfNodes, NamesOfServices
  <2>7. Fine(AddFacilityTo(r, o))
    BY <1>0, <1>f, <2>1, <2>4, <2>5, <2>6, AddNodeWithPortsGrows
  <2>8. QED
    BY <1>5, <2>7 DEF AddFacility, r
<1>6. ASSUME NEW o \in The.switches, AddSwitch(o) PROVE \E q : Fine(q) /\ Becomes(q)
  <2> DEFINE nPorts == IF o.nPorts = 0 THEN 8 ELSE o.nPorts
             ports == [k \in 1..nPorts |-> [name |-> PortName[k], type |-> "DedicatedPort", id |-> NoID]]
  <2>1. o.id # Stale /\ o.nsID # Stale /\ nPorts \in Nat
    BY <1>0, GivenIDs
  <2>2. AddSwitchTo(r, o) = AddNodeWithPorts(r, "Switch", o, ports)
    BY DEF AddSwitchTo
  <2> HIDE DEF nPorts
  <2>3. Len(ports) \in Nat /\ \A k \in 1..Len(ports) : ports[k].id # Stale /\ ports[k].type # "ServicePort"
    <3>1. NoID # Stale
      BY DEF NoID, Stale
    <3>2. QED
      BY <2>1, <3>1
  <2> HIDE DEF ports
  <2>4. Kept => /\ o.name \in NamesOfNodes(The) /\ o.name \o <<"ns">> \in NamesOfServices(The)
                /\ o.nsID = NoID
    BY DEF KeepsDiscipline, NamesOfNodes, NamesOfServices
  <2>5. Fine(AddSwitchTo(r, o))
    BY <1>0, <1>f, <2>1, <2>2, <2>3, <2>4, AddNodeWithPortsGrows
  <2>6. QED
    BY <1>6, <2>5 DEF AddSwitch, r
<1>7. ASSUME NEW o \in The.mirrors, NEW to \in Connectable, AddPortMirrorService(o, to)
      PROVE  \E q : Fine(q) /\ Becomes(q)
  <2>1. PICK source \in Named(g, "ConnectionPoint", o.from) : Becomes(AddPortMirrorTo(Ok(g), o, to, source))
    BY <1>7 DEF AddPortMirrorService
  <2> DEFINE site  == IF o.site = NoSite THEN SiteOfInterface(r.graph, to) ELSE o.site
             from  == SiteOfInterface(r.graph, source)
             near  == from = NoSite \/ site = NoSite \/ from = site
             asked == Require(r, near)
             opts  == [name |-> o.name, type |-> "PortMirror", site |-> site, id |-> o.id,
                       mirror |-> NameOf(r.graph, source), badGateway |-> FALSE]
  <2>2. AddPortMirrorTo(r, o, to, source) = AddServiceTo(asked, NoID, opts, <<to>>)
    BY DEF AddPortMirrorTo
  <2>3. opts.id = o.id /\ opts.name = o.name /\ o.id # Stale
    BY <1>0, GivenIDs
  <2>4. Len(<<to>>) = 1 /\ \A k \in 1..1 : <<to>>[k] = to
    OBVIOUS
  <2>5. Held(g, to)
    BY ConnectableIsHeld
  <2>6. near \in BOOLEAN
    OBVIOUS
  <2> HIDE DEF near, opts
  <2>7. Grows(asked, r) /\ asked.graph = g
    BY <1>0, <2>6, RequireIs
  <2> HIDE DEF asked
  <2>8. Kept => /\ OwnName(The, ChooseID(o.id, <<"service", o.name>>), o.name)
                /\ Attachable(g, to) /\ OnService(g, to)
    BY <1>s DEF KeepsDiscipline, OwnName, NamesOfServices, ChooseID
  <2> DEFINE q == AddServiceTo(asked, NoID, opts, <<to>>)
  <2>9. Grows(q, asked) /\ (Kept => Neat(The, q.graph))
    BY <1>d, <2>3, <2>4, <2>5, <2>7, <2>8, AddServiceGrows DEF Grows
  <2> HIDE DEF q
  <2>10. Fine(q)
    BY <2>7, <2>9, GrowsTransitive DEF Fine
  <2>11. QED
    BY <2>1, <2>2, <2>10 DEF r, q
<1>8. ASSUME NEW o \in The.links, NEW ifs \in InterfaceLists, AddLink(o, ifs)
      PROVE  \E q : Fine(q) /\ Becomes(q)
  <2>1. o.id # Stale /\ Len(ifs) \in Nat /\ \A k \in 1..Len(ifs) : Held(g, ifs[k])
    BY <1>0, GivenIDs, InterfaceListsAreHeld
  <2>2. Fine(AddLinkTo(r, o, ifs))
    BY <1>0, <1>f, <2>1, AddLinkIsAtomic DEF Made
  <2>3. QED
    BY <1>8, <2>2 DEF AddLink, r
<1>9. ASSUME NEW s \in Services(g), NEW p \in The.ports, AddInterface(s, p)
      PROVE  \E q : Fine(q) /\ Becomes(q)
  <2>1. p.id # Stale /\ (Kept => p.type # "ServicePort")
    BY <1>0, GivenIDs DEF KeepsDiscipline
  <2>2. Fine(AddInterfaceTo(r, s, p))
    BY <1>0, <1>f, <2>1, AddInterfaceIsAtomic DEF Made
  <2>3. QED
    BY <1>9, <2>2 DEF AddInterface, r
<1>10. ASSUME NEW i \in Ports(g), NEW c \in The.children, AddChildInterface(i, c)
       PROVE  \E q : Fine(q) /\ Becomes(q)
  <2>1. c.id # Stale
    BY <1>0, GivenIDs
  <2>2. Fine(AddChildInterfaceTo(r, i, c))
    BY <1>0, <1>f, <2>1, AddChildIsAtomic DEF Made
  <2>3. QED
    BY <1>10, <2>2 DEF AddChildInterface, r
<1>c. ASSUME NEW s \in Services(g), NEW i \in Connectable PROVE Fine(ConnectTo(r, s, i))
  <2>1. Grows(ConnectTo(r, s, i), r)
    BY <1>0, <1>c, ConnectableIsHeld, ConnectIsAtomic DEF Made, Held
  <2>2. Kept => Neat(The, ConnectTo(r, s, i).graph)
    BY <1>0, <1>d, <1>s, <1>c, ConnectKeeps
  <2>3. QED
    BY <2>1, <2>2 DEF Fine
<1>11. ASSUME NEW s \in Services(g), NEW i \in Connectable, ConnectInterface(s, i)
       PROVE  \E q : Fine(q) /\ Becomes(q)
  BY <1>11, <1>c DEF ConnectInterface, r
<1>12. ASSUME NEW s \in Services(g), NEW other \in Services(g), Peer(s, other)
       PROVE  \E q : Fine(q) /\ Becomes(q)
  BY <1>12, <1>c DEF Peer, r
<1>13. ASSUME NEW i \in Ports(g), NEW vlan \in The.vlans, SetLabels(i, vlan)
       PROVE  \E q : Fine(q) /\ Becomes(q)
  <2>1. Fine(SetLabelsOn(r, i, vlan))
    BY <1>0, <1>f, SetLabelsGrows
  <2>2. QED
    BY <1>13, <2>1 DEF SetLabels, r
<1>14. \E q : Fine(q) /\ Becomes(q)
  BY <1>1, <1>2, <1>3, <1>4, <1>5, <1>6, <1>7, <1>8, <1>9, <1>10, <1>11, <1>12, <1>13 DEF Build
<1>15. PICK q : Fine(q) /\ Becomes(q)
  BY <1>14
<1>16. g' = q.graph
  BY <1>15 DEF Becomes
<1>17. QED
  BY <1>15, <1>16, BecomesGrown DEF r, Fine

\* H is what deletions have left of G.
Less(H, G) == /\ Ids(H) \subseteq Ids(G) /\ H.edges \subseteq G.edges
              /\ \A n \in Ids(H) : H.nodes[n] = G.nodes[n]

\* When no interface of a node is attached to a service, nothing below the node is.
LEMMA DetachedWhen ==
  ASSUME NEW G, Inv(G), NEW H, Inv(H), Less(H, G), NEW n,
         \A s \in Services(G), i \in InterfaceList(G, n) : Attachments(H, s, i) = {}
  PROVE  Detached(H, n)
<1> SUFFICES ASSUME NEW p, NEW l, NEW i, NEW s, NEW t,
                    IsServicePort(H, p), Attaches(H, p, l, i),
                    s \in Services(H), Joined(H, s, p),
                    t \in Services(H), Joined(H, t, i), t \in Descendants(H, n)
             PROVE  FALSE
  BY DEF Detached
<1> DEFINE Below(a, b) == \E e \in G.edges : e.class = "has" /\ e.source = a /\ e.target = b
<1>1. Below(n, t) \/ \E c : Below(n, c) /\ Below(c, t)
  BY DEF Descendants, Outgoing, Less
<1>2. \A a, b : Below(a, b) => b \in Outgoing(G, a, "has")
  BY DEF Outgoing
<1>3. /\ t \in Services(G) /\ s \in Services(G) /\ i \in Ports(G)
      /\ t \in OfClass(G, "NetworkService")
  BY DEF Less, Services, Ports, OfClass, Attaches, Attachable
<1>4. i \in Interfaces(G, t)
  BY <1>3 DEF Interfaces, Outgoing, Joined, Less
<1>5. \E o \in {n} \cup Components(G, n) : t \in Children(G, o, "NetworkService")
  <2>1. CASE Below(n, t)
    BY <1>2, <1>3, <2>1 DEF Children
  <2>2. ASSUME NEW c, Below(n, c), Below(c, t) PROVE c \in Components(G, n) /\ t \in Children(G, c, "NetworkService")
    <3>1. c \in OfClass(G, "Component")
      BY <2>2, EdgesOfClass DEF NetworkNodes, Services, OfClass
    <3>2. QED
      BY <1>2, <1>3, <2>2, <3>1 DEF Components, Children
  <2>3. QED
    BY <1>1, <2>1, <2>2
<1>6. i \in InterfaceList(G, n)
  BY <1>4, <1>5 DEF InterfaceList
<1>7. p \in Attachments(H, s, i)
  BY AttachmentFound
<1>8. QED
  BY <1>3, <1>6, <1>7

\* Disconnecting an interface from a service, if it is attached to it.
Detach(H, s, i) ==
  IF Attachments(H, s, i) = {} THEN H ELSE DeletePorts(H, {AnyOf(Attachments(H, s, i), NoID)})

LEMMA DetachKeeps ==
  ASSUME NEW H, Inv(H), NEW s, NEW i
  PROVE  LET K == Detach(H, s, i)
         IN  /\ Inv(K) /\ Less(K, H)
             /\ \A t, j : Attachments(K, t, j) \subseteq Attachments(H, t, j)
             /\ \A opts : Neat(opts, H) => Neat(opts, K) /\ Attachments(K, s, i) = {}
<1> DEFINE K == Detach(H, s, i)
<1>1. CASE Attachments(H, s, i) = {}
  BY <1>1 DEF Less, Detach
<1>2. CASE Attachments(H, s, i) # {}
  <2> DEFINE p == AnyOf(Attachments(H, s, i), NoID)
             S == Taken(H, {p})
  <2>1. p \in Attachments(H, s, i)
    BY <1>2 DEF AnyOf
  <2>2. K = DeletePorts(H, {p})
    BY <1>2 DEF Detach
  <2> HIDE DEF p, K
  <2>3. K = Delete(H, S) /\ p \in S
    BY <2>2, DeletePortsIs DEF Taken
  <2> HIDE DEF S
  <2>4. Inv(K) /\ Less(K, H)
    <3>1. /\ Ids(K) = Ids(H) \ S
          /\ \A m \in Ids(K) : K.nodes[m] = H.nodes[m]
          /\ K.edges = {e \in H.edges : e.source \notin S /\ e.target \notin S}
      BY <2>3 DEF Delete, Ids
    <3>2. Inv(K)
      BY <2>3, DeleteKeeps
    <3>3. QED
      BY <3>1, <3>2 DEF Less
  <2>5. \A t, j : Attachments(K, t, j) \subseteq Attachments(H, t, j) \ S
    BY <2>3, DeleteAttachments
  <2>6. ASSUME NEW opts, Neat(opts, H) PROVE Neat(opts, K) /\ Attachments(K, s, i) = {}
    <3>1. Neat(opts, K)
      BY <2>1, <2>2, <2>6, DisconnectKeeps
    <3>2. \A q \in Attachments(H, s, i) : q = <<"interface", H.nodes[s].name, i>>
      BY <2>6, AttachmentIs DEF Neat
    <3>3. \A q \in Attachments(H, s, i) : q = p
      BY <2>1, <3>2
    <3>4. QED
      BY <2>3, <2>5, <3>1, <3>3
  <2>7. QED
    BY <2>4, <2>5, <2>6 DEF K
<1>3. QED
  BY <1>1, <1>2

\* Dropping a node deletes service ports, in some order, and then the node, to
\* which nothing is attached by then.
LEMMA DropNodeKeeps ==
  ASSUME NEW G, Inv(G), NEW n
  PROVE  /\ Inv(DropNodeFrom(G, n))
         /\ \A opts : Neat(opts, G) /\ n \in NetworkNodes(G) => Neat(opts, DropNodeFrom(G, n))
<1> DEFINE detach(pair, H) ==
             LET attached == Attachments(H, pair[1], pair[2])
             IN  IF attached = {} THEN H ELSE DeletePorts(H, {AnyOf(attached, NoID)})
           S == Services(G) \X InterfaceList(G, n)
           Step(f, R) == IF R = {} THEN G
                         ELSE LET x == CHOOSE y \in R : TRUE IN detach(x, f[R \ {x}])
           Unfolds(f) == f = [R \in SUBSET S |-> Step(f, R)]
           iter == CHOOSE f : Unfolds(f)
<1>1. DropNodeFrom(G, n) = RemoveSubtree(iter[S], n)
  BY DEF DropNodeFrom, FoldSet, MapThenFoldSet
<1>2. ASSUME NEW H, Inv(H), NEW pair
      PROVE  /\ Inv(detach(pair, H)) /\ Less(detach(pair, H), H)
             /\ \A t, j : Attachments(detach(pair, H), t, j) \subseteq Attachments(H, t, j)
             /\ \A opts : Neat(opts, H) =>
                  Neat(opts, detach(pair, H)) /\ Attachments(detach(pair, H), pair[1], pair[2]) = {}
  <2>1. detach(pair, H) = Detach(H, pair[1], pair[2])
    BY DEF Detach
  <2> HIDE DEF detach
  <2>2. QED
    BY <1>2, <2>1, DetachKeeps
<1> HIDE DEF detach
<1>3. IsFiniteSet(S)
  <2>1. Services(G) \subseteq Ids(G) /\ InterfaceList(G, n) \subseteq Ids(G)
    BY DEF Services, OfClass, InterfaceList, Interfaces, Ports
  <2>2. IsFiniteSet(Services(G)) /\ IsFiniteSet(InterfaceList(G, n))
    BY <2>1, FS_Subset DEF Inv, IsGraph
  <2>3. QED
    BY <2>2, FS_Product
<1>4. \E f : Unfolds(f)
  <2> DEFINE Upto(f, m) == f = [R \in SUBSET S |-> f[R]]
                           /\ \A R \in SUBSET S : Cardinality(R) <= m => f[R] = Step(f, R)
             Reached(m) == \E f : Upto(f, m)
             T == {m \in Nat : Reached(m)}
  <2>0. \A R \in SUBSET S : IsFiniteSet(R) /\ Cardinality(R) \in Nat /\ Cardinality(R) <= Cardinality(S)
    BY <1>3, FS_Subset, FS_CardinalityType
  <2>1. 0 \in T
    <3> DEFINE f0 == [R \in SUBSET S |-> G]
    <3>1. ASSUME NEW R \in SUBSET S, Cardinality(R) <= 0 PROVE f0[R] = Step(f0, R)
      <4>1. R = {}
        BY <2>0, <3>1, FS_EmptySet
      <4>2. QED
        BY <4>1
    <3>2. Upto(f0, 0)
      BY <3>1
    <3>3. QED
      BY <3>2
  <2>2. ASSUME NEW m \in T PROVE m + 1 \in T
    <3>1. m \in Nat /\ \E f : Upto(f, m)
      OBVIOUS
    <3>2. PICK f : Upto(f, m)
      BY <3>1
    <3> DEFINE h == [R \in SUBSET S |-> Step(f, R)]
    <3>3. \A R \in SUBSET S : Cardinality(R) <= m => h[R] = f[R]
      BY <3>2
    <3>4. ASSUME NEW R \in SUBSET S, Cardinality(R) <= m + 1 PROVE h[R] = Step(h, R)
      <4>1. CASE R = {}
        BY <4>1
      <4>2. CASE R # {}
        <5> DEFINE x == CHOOSE y \in R : TRUE
        <5>1. x \in R
          BY <4>2
        <5>2. R \ {x} \in SUBSET S
          OBVIOUS
        <5>3. Cardinality(R \ {x}) = Cardinality(R) - 1
          BY <5>1, <2>0, FS_RemoveElement
        <5>4. Cardinality(R \ {x}) <= m
          BY <5>3, <3>4, <3>1, <2>0
        <5>5. h[R \ {x}] = f[R \ {x}]
          BY <5>2, <5>4, <3>3
        <5>6. h[R] = detach(x, f[R \ {x}])
          BY <4>2
        <5>7. Step(h, R) = detach(x, h[R \ {x}])
          BY <4>2
        <5>8. QED
          BY <5>5, <5>6, <5>7
      <4>3. QED
        BY <4>1, <4>2
    <3>5. h = [R \in SUBSET S |-> h[R]]
      OBVIOUS
    <3>6. Upto(h, m + 1)
      BY <3>4, <3>5
    <3> HIDE DEF h, Upto
    <3>7. Reached(m + 1)
      BY <3>6
    <3>8. m + 1 \in Nat
      BY <3>1
    <3> HIDE DEF Reached
    <3>9. QED
      BY <3>7, <3>8
  <2> HIDE DEF T
  <2>3. \A m \in Nat : m \in T
    BY <2>1, <2>2, NatSetInduction
  <2>4. Cardinality(S) \in T
    BY <2>3, <1>3, FS_CardinalityType
  <2> USE DEF T
  <2>5. PICK f : Upto(f, Cardinality(S))
    BY <2>4
  <2>6. f = [R \in SUBSET S |-> Step(f, R)]
    <3>1. \A R \in SUBSET S : f[R] = Step(f, R)
      BY <2>5, <2>0
    <3>2. QED
      BY <2>5, <3>1
  <2>7. QED
    BY <2>6
<1>5. Unfolds(iter)
  BY <1>4
<1> HIDE DEF iter
<1>6. \A R \in SUBSET S : iter[R] = Step(iter, R)
  BY <1>5
<1> DEFINE Good(R) ==
             /\ Inv(iter[R]) /\ Less(iter[R], G)
             /\ \A opts : Neat(opts, G) =>
                  /\ Neat(opts, iter[R])
                  /\ \A pair \in R : Attachments(iter[R], pair[1], pair[2]) = {}
           T == {R \in SUBSET S : Good(R)}
<1>7. {} \in T
  BY <1>6 DEF Less
<1>8. ASSUME NEW R \in SUBSET S, R # {}, \A x \in R : R \ {x} \in T PROVE R \in T
  <2> DEFINE x == CHOOSE y \in R : TRUE
  <2>1. x \in R
    BY <1>8
  <2>2. iter[R] = detach(x, iter[R \ {x}])
    BY <1>6, <1>8
  <2>3. Good(R \ {x})
    BY <2>1, <1>8
  <2> DEFINE H == iter[R \ {x}]
             K == iter[R]
  <2>4. K = detach(x, H)
    BY <2>2
  <2>5. Inv(H) /\ Less(H, G)
    BY <2>3
  <2>6. ASSUME NEW opts, Neat(opts, G)
        PROVE  Neat(opts, H) /\ \A pair \in R \ {x} : Attachments(H, pair[1], pair[2]) = {}
    BY <2>3, <2>6
  <2> HIDE DEF H, K
  <2>7. /\ Inv(K) /\ Less(K, H)
        /\ \A t, j : Attachments(K, t, j) \subseteq Attachments(H, t, j)
        /\ \A opts : Neat(opts, H) => Neat(opts, K) /\ Attachments(K, x[1], x[2]) = {}
    BY <1>2, <2>4, <2>5
  <2>8. Less(K, G)
    BY <2>5, <2>7 DEF Less
  <2>9. ASSUME NEW opts, Neat(opts, G)
        PROVE  Neat(opts, K) /\ \A pair \in R : Attachments(K, pair[1], pair[2]) = {}
    BY <2>6, <2>7, <2>9
  <2>10. Good(R)
    BY <2>7, <2>8, <2>9 DEF K
  <2>11. QED
    BY <2>10
<1> HIDE DEF T
<1>9. S \in T
  <2> HIDE DEF S, Good
  <2>1. \A R \in SUBSET S : (R # {} /\ \A x \in R : R \ {x} \in T) => R \in T
    BY <1>8
  <2>2. \A R \in SUBSET S : R \in T
    BY <1>3, <1>7, <2>1, SubsetInduction
  <2>3. QED
    BY <2>2
<1> DEFINE H == iter[S]
<1>10. /\ Inv(H) /\ Less(H, G)
       /\ \A opts : Neat(opts, G) =>
            Neat(opts, H) /\ \A pair \in S : Attachments(H, pair[1], pair[2]) = {}
  BY <1>9 DEF T
<1>11. DropNodeFrom(G, n) = RemoveSubtree(H, n)
  BY <1>1
<1> HIDE DEF H
<1>12. Inv(RemoveSubtree(H, n))
  BY <1>10, DeleteKeeps DEF RemoveSubtree
<1>13. ASSUME NEW opts, Neat(opts, G), n \in NetworkNodes(G) PROVE Neat(opts, RemoveSubtree(H, n))
  <2>1. ASSUME NEW s \in Services(G), NEW i \in InterfaceList(G, n) PROVE Attachments(H, s, i) = {}
    <3>1. <<s, i>> \in S
      OBVIOUS
    <3> HIDE DEF S
    <3>2. Attachments(H, <<s, i>>[1], <<s, i>>[2]) = {}
      BY <1>10, <1>13, <3>1
    <3>3. QED
      BY <3>2
  <2>2. Detached(H, n)
    BY <1>10, <2>1, DetachedWhen
  <2>3. Neat(opts, H)
    BY <1>10, <1>13
  <2>4. CASE n \in Ids(H)
    <3>1. n \in NetworkNodes(H)
      BY <1>10, <1>13, <2>4 DEF Less, NetworkNodes, OfClass
    <3>2. QED
      BY <1>10, <2>2, <2>3, <3>1, SubtreeKeeps
  <2>5. CASE n \notin Ids(H)
    <3>1. \A e \in H.edges : e.source # n
      BY <1>10, <2>5 DEF Inv, Shaped
    <3>2. Descendants(H, n) = {}
      BY <3>1 DEF Descendants, Outgoing
    <3>3. RemoveSubtree(H, n) = Delete(H, {n})
      BY <3>2 DEF RemoveSubtree
    <3>4. QED
      BY <1>10, <2>3, <2>5, <3>3, DeleteNothing
  <2>6. QED
    BY <2>4, <2>5
<1>14. QED
  BY <1>11, <1>12, <1>13

\* A disciplined caller gives a name to one service only.
LEMMA NamesFindOne ==
  ASSUME NEW opts, KeepsDiscipline(opts), NEW name, NEW id, NEW other,
         OwnName(opts, id, name), OwnName(opts, other, name)
  PROVE  id = other
<1> DEFINE Plain(x)        == name \in NamesOfServices(opts) /\ x = <<"service", name>>
           Below(x, node, o) == name = ComponentService(node, o) /\ x = <<"service", node, o.name, "nsl2">>
<1>1. \A x : OwnName(opts, x, name) =>
        Plain(x) \/ \E node \in NamesOfNodes(opts), o \in opts.components : Below(x, node, o)
  BY DEF OwnName
<1>2. \A node \in NamesOfNodes(opts), o \in opts.components :
        /\ ComponentService(node, o) \notin NamesOfServices(opts)
        /\ \A m \in NamesOfNodes(opts), p \in opts.components :
             ComponentService(node, o) = ComponentService(m, p) => node = m /\ o.name = p.name
  BY DEF KeepsDiscipline
<1>3. CASE Plain(id) /\ Plain(other)
  BY <1>3
<1>4. ASSUME NEW node \in NamesOfNodes(opts), NEW o \in opts.components, Below(id, node, o)
      PROVE  id = other
  <2>1. ~Plain(other)
    BY <1>2, <1>4
  <2>2. PICK m \in NamesOfNodes(opts), p \in opts.components : Below(other, m, p)
    BY <1>1, <2>1
  <2>3. ComponentService(node, o) = ComponentService(m, p)
    BY <1>4, <2>2
  <2>4. node = m /\ o.name = p.name
    <3>1. \A n \in NamesOfNodes(opts), q \in opts.components :
            ComponentService(node, o) = ComponentService(n, q) => node = n /\ o.name = q.name
      BY <1>2
    <3>2. m \in NamesOfNodes(opts) /\ p \in opts.components
      BY <2>2
    <3>3. QED
      BY <2>3, <3>1, <3>2
  <2>5. QED
    BY <1>4, <2>2, <2>4
<1>5. ASSUME NEW node \in NamesOfNodes(opts), NEW o \in opts.components, Below(other, node, o), Plain(id)
      PROVE  FALSE
  BY <1>2, <1>5
<1>6. QED
  BY <1>1, <1>3, <1>4, <1>5

\* When no interface of the services of a component is attached to a service,
\* nothing below the component is.
LEMMA ComponentDetached ==
  ASSUME NEW G, Inv(G), NEW c \in OfClass(G, "Component"),
         \A s \in Children(G, c, "NetworkService") : \A i \in Interfaces(G, s) : ServicePortPeers(G, i) = {}
  PROVE  Detached(G, c)
<1> SUFFICES ASSUME NEW p, NEW l, NEW i, NEW s, NEW t,
                    IsServicePort(G, p), Attaches(G, p, l, i),
                    s \in Services(G), Joined(G, s, p),
                    t \in Services(G), Joined(G, t, i), t \in Descendants(G, c)
             PROVE  FALSE
  BY DEF Detached
<1> DEFINE Below(a, b) == \E e \in G.edges : e.class = "has" /\ e.source = a /\ e.target = b
<1>1. Below(c, t) \/ \E d : Below(c, d) /\ Below(d, t)
  BY DEF Descendants, Outgoing
<1>2. c \notin NetworkNodes(G)
  BY DEF NetworkNodes, OfClass
<1>3. \A d : Below(c, d) => ~Below(d, t)
  <2> SUFFICES ASSUME NEW d, Below(c, d), Below(d, t) PROVE FALSE
    OBVIOUS
  <2>1. d \in Services(G)
    BY <1>2, EdgesOfClass
  <2>2. d \in NetworkNodes(G) \cup OfClass(G, "Component")
    BY EdgesOfClass
  <2>3. QED
    BY <2>1, <2>2 DEF Services, NetworkNodes, OfClass
<1>4. t \in Children(G, c, "NetworkService")
  BY <1>1, <1>3 DEF Children, Outgoing, Services
<1>5. i \in Interfaces(G, t)
  BY DEF Attaches, Attachable, Interfaces, Outgoing, Joined
<1>6. p \in Attachments(G, s, i)
  BY AttachmentFound
<1>7. QED
  BY <1>4, <1>5, <1>6 DEF Attachments

\* A node goes with all that is below it; a service, with its ports and links.
\* A disciplined caller removes what nothing is attached to.
LEMMA RemoveKeeps == IndInv /\ Remove => Inv(g') /\ (KeepsDiscipline(The) => Neat(The, g'))
<1> SUFFICES ASSUME IndInv, Remove PROVE Inv(g') /\ (KeepsDiscipline(The) => Neat(The, g'))
  OBVIOUS
<1> DEFINE Kept == KeepsDiscipline(The)
<1>1. Inv(g) /\ (Kept => Neat(The, g) /\ The.liberties = {})
  BY DEF IndInv, Orderly, KeepsDiscipline
<1>2. ASSUME NEW S PROVE Inv(Delete(g, S)) /\ Inv(DeletePorts(g, S))
  BY <1>1, DeleteKeeps DEF DeletePorts
<1> DEFINE Fine == Inv(g') /\ (Kept => Neat(The, g'))
<1> HIDE DEF Kept
<1>3. ASSUME NEW s, NEW i, DisconnectInterface(s, i) PROVE Fine
  <2>1. PICK p \in Attachments(g, s, i) : g' = DeletePorts(g, {p})
    BY <1>3 DEF DisconnectInterface
  <2>2. Kept => Neat(The, DeletePorts(g, {p}))
    BY <1>1, <2>1, DisconnectKeeps
  <2>3. QED
    BY <1>2, <2>1, <2>2
<1>4. ASSUME NEW n \in NetworkNodes(g), RemoveNode(n) PROVE Fine
  <2>1. g' = RemoveSubtree(g, n)
    BY <1>4 DEF RemoveNode
  <2>2. ASSUME Kept PROVE Neat(The, RemoveSubtree(g, n))
    <3>1. \A i \in InterfaceList(g, n) : ServicePortPeers(g, i) = {}
      BY <1>1, <1>4, <2>2 DEF RemoveNode, NodeInterfacePeers
    <3>2. \A s \in Services(g), i \in InterfaceList(g, n) : Attachments(g, s, i) = {}
      BY <3>1 DEF Attachments
    <3>3. Detached(g, n)
      BY <1>1, <3>2, DetachedWhen DEF Less
    <3>4. QED
      BY <1>1, <2>2, <3>3, SubtreeKeeps
  <2>3. QED
    BY <1>2, <2>1, <2>2 DEF RemoveSubtree
<1>5. ASSUME NEW n \in NetworkNodes(g), DropNode(n) PROVE Fine
  BY <1>1, <1>5, DropNodeKeeps DEF DropNode
<1>6. ASSUME NEW n, NEW c \in Components(g, n), RemoveComponent(c) PROVE Fine
  <2>1. g' = RemoveSubtree(g, c) /\ c \in OfClass(g, "Component")
    BY <1>6 DEF RemoveComponent, Components, Children
  <2>2. ASSUME Kept PROVE Neat(The, RemoveSubtree(g, c))
    <3>1. Detached(g, c)
      BY <1>1, <1>6, <2>1, <2>2, ComponentDetached DEF RemoveComponent
    <3>2. QED
      BY <1>1, <2>1, <2>2, <3>1, SubtreeKeeps
  <2>3. QED
    BY <1>2, <2>1, <2>2 DEF RemoveSubtree
<1>7. ASSUME NEW name, RemoveNetworkService(name) PROVE Fine
  <2>1. PICK s \in Named(g, "NetworkService", name) : g' = RemoveService(g, s)
    BY <1>7 DEF RemoveNetworkService
  <2>2. Inv(g')
    BY <2>1, <1>2, DeleteKeeps DEF RemoveService
  <2>3. ASSUME Kept PROVE Neat(The, g')
    <3>1. PICK t \in SliceNetworkServices(g) : NameOf(g, t) = name
      BY <1>1, <1>7, <2>3 DEF RemoveNetworkService
    <3>2. t \in Services(g) /\ g.nodes[t].name = name /\ ~Owned(g, t)
      BY <3>1 DEF SliceNetworkServices, Services, OfClass, NameOf, Incoming, Owned
    <3>3. s \in Services(g) /\ g.nodes[s].name = name
      BY DEF Named, Services
    <3>4. OwnName(The, s, name) /\ OwnName(The, t, name)
      BY <1>1, <2>3, <3>2, <3>3 DEF Neat, NamesInv
    <3>5. s = t
      BY <2>3, <3>4, NamesFindOne DEF Kept
    <3>6. QED
      BY <1>1, <2>1, <2>3, <3>2, <3>5, RemoveServiceKeeps
  <2>4. QED
    BY <2>2, <2>3
<1>8. ASSUME NEW name, RemoveLink(name) PROVE Fine
  <2>1. PICK l \in Named(g, "Link", name) : g' = Delete(g, {l})
    BY <1>8 DEF RemoveLink
  <2>2. l \in Links(g) /\ (Kept => Incoming(g, l, "connects") = {})
    BY <1>1, <1>8, <2>1 DEF RemoveLink, Named, Links
  <2>3. Kept => Neat(The, Delete(g, {l}))
    BY <1>1, <2>2, RemoveLinkKeeps
  <2>4. QED
    BY <1>2, <2>1, <2>3
<1>9. Fine
  BY <1>3, <1>4, <1>5, <1>6, <1>7, <1>8 DEF Remove
<1>10. QED
  BY <1>9 DEF Kept

\* Building adds, removing deletes, and both keep a graph well formed, and tidy.
LEMMA NextInv == IndInv /\ [Next]_vars => IndInv'
<1> SUFFICES ASSUME IndInv, [Next]_vars PROVE IndInv'
  OBVIOUS
<1> DEFINE Fine == Inv(g') /\ (KeepsDiscipline(The) => Neat(The, g'))
<1>1. caller' = caller /\ Fine
  <2>1. CASE Build /\ UNCHANGED caller
    BY <2>1, BuildGrows
  <2>2. CASE Remove /\ UNCHANGED caller
    BY <2>2, RemoveKeeps
  <2>3. CASE UNCHANGED vars
    <3>1. g' = g /\ caller' = caller
      BY <2>3 DEF vars
    <3>2. QED
      BY <3>1 DEF IndInv, Orderly
  <2>4. QED
    BY <2>1, <2>2, <2>3 DEF Next
<1>2. The' = The
  BY <1>1 DEF The
<1>3. QED
  BY <1>1, <1>2 DEF IndInv, Orderly

\* Well-formedness is inductive.
LEMMA InductiveInvariant == Spec => []IndInv
BY InitInv, NextInv, PTL DEF Spec

-----------------------------------------------------------------------------
(* What follows.                                                           *)

\* Whatever is called with whatever options, and however the calls fail, a
\* slice graph has only elements of the kinds of FIM, and its edges join
\* elements that exist and may be joined.
THEOREM TypeCorrect == Spec => []TypeOK
<1>1. IndInv => TypeOK
  BY DEF IndInv, Inv, Shaped, IsElement, Fields, Kinds, TypeOK
<1>2. QED
  BY <1>1, InductiveInvariant, PTL

\* Nothing ever has two owners, so the first incoming neighbour that
\* parentService, parentNodeName and siteOfInterface take is the only one.
THEOREM OwnersUnique == Spec => []OwnersAreUnique
<1>1. IndInv => OwnersAreUnique
  <2> SUFFICES ASSUME IndInv, NEW n \in Ids(g) PROVE Cardinality(Owners(n)) <= 1
    BY DEF OwnersAreUnique
  <2>1. Inv(g)
    BY DEF IndInv
  <2>2. ASSUME NEW m \in Owners(n)
        PROVE  \E e \in g.edges : Owns(g, e) /\ e.source = m /\ e.target = n
    <3>1. CASE m \in Incoming(g, n, "has")
      BY <3>1 DEF Incoming, Owns
    <3>2. CASE n \in Ports(g) /\ m \in Incoming(g, n, "connects") \ Links(g)
      <4>1. PICK e \in g.edges : e.class = "connects" /\ e.source = m /\ e.target = n
        BY <3>2 DEF Incoming
      <4>2. m \in Ids(g) /\ g.nodes[m].class # "Link" /\ g.nodes[n].class = "ConnectionPoint"
        BY <2>1, <3>2, <4>1 DEF Inv, Shaped, Ports, Links, OfClass
      <4>3. QED
        BY <4>1, <4>2 DEF Owns
    <3>3. QED
      BY <3>1, <3>2 DEF Owners
  <2>3. \A m, k \in Owners(n) : m = k
    BY <2>1, <2>2 DEF Inv, OneOwner
  <2>4. CASE Owners(n) = {}
    BY <2>4, FS_EmptySet
  <2>5. CASE Owners(n) # {}
    <3>1. PICK m : m \in Owners(n)
      BY <2>5
    <3>2. Owners(n) = {m}
      BY <3>1, <2>3
    <3>3. Cardinality({m}) = 1
      BY FS_Singleton
    <3>4. QED
      BY <3>2, <3>3
  <2>6. QED
    BY <2>4, <2>5
<1>2. QED
  BY <1>1, InductiveInvariant, PTL

\* ConnectInterface, AddInterface, AddChildInterface and AddLink leave nothing
\* behind when they fail, at whichever of their steps.
THEOREM FailuresLeaveNothing == Spec => []FailedCallChangesNothing
<1>1. IndInv => FailedCallChangesNothing
  <2> SUFFICES ASSUME IndInv PROVE FailedCallChangesNothing
    OBVIOUS
  <2> DEFINE r == Ok(g)
  <2>1. IsResult(r) /\ r.graph = g /\ caller \in DOMAIN Callers
    BY OkIsResult DEF IndInv
  <2> HIDE DEF r
  <2>2. \A q, S : Made(q, r, S) => Unchanged(q)
    BY <2>1 DEF Made, Unchanged
  <2>3. ASSUME NEW s \in Services(g), NEW i \in Connectable PROVE Unchanged(ConnectTo(r, s, i))
    <3>1. \E S : Made(ConnectTo(r, s, i), r, S)
      BY <2>1, <2>3, ConnectableIsHeld, ConnectIsAtomic DEF Held
    <3>2. QED
      BY <3>1, <2>2
  <2>4. ASSUME NEW s \in Services(g) \cup {Stale}, NEW p \in The.ports
        PROVE  Unchanged(AddInterfaceTo(r, s, p))
    <3>1. p.id # Stale
      BY <2>1, GivenIDs
    <3>2. \E id : Made(AddInterfaceTo(r, s, p), r, {id})
      BY <2>1, <3>1, AddInterfaceIsAtomic
    <3>3. QED
      BY <3>2, <2>2
  <2>5. ASSUME NEW i \in Ports(g), NEW c \in The.children PROVE Unchanged(AddChildInterfaceTo(r, i, c))
    <3>1. c.id # Stale
      BY <2>1, GivenIDs
    <3>2. \E id : Made(AddChildInterfaceTo(r, i, c), r, {id})
      BY <2>1, <3>1, AddChildIsAtomic
    <3>3. QED
      BY <3>2, <2>2
  <2>6. ASSUME NEW o \in The.links, NEW ifs \in InterfaceLists PROVE Unchanged(AddLinkTo(r, o, ifs))
    <3>1. o.id # Stale /\ Len(ifs) \in Nat /\ \A k \in 1..Len(ifs) : Held(g, ifs[k])
      BY <2>1, GivenIDs, InterfaceListsAreHeld
    <3>2. \E id : Made(AddLinkTo(r, o, ifs), r, {id})
      BY <2>1, <3>1, AddLinkIsAtomic
    <3>3. QED
      BY <3>2, <2>2
  <2>7. QED
    BY <2>3, <2>4, <2>5, <2>6 DEF FailedCallChangesNothing, r
<1>2. QED
  BY <1>1, InductiveInvariant, PTL

\* A builder call takes nothing away and alters nothing but labels, whatever its
\* error paths delete.
THEOREM BuildingKeeps == Spec => BuildKeepsExisting
<1>1. IndInv /\ [Next]_vars => [~Remove => Extends(g', g)]_vars
  BY BuildGrows DEF Next
<1>2. QED
  BY <1>1, InductiveInvariant, PTL DEF Spec, BuildKeepsExisting

-----------------------------------------------------------------------------
(* What follows for callers that keep the discipline of topologybuilder.   *)

\* All attachments are proper.
LEMMA Disciplined ==
  ASSUME \A c \in DOMAIN Callers : KeepsDiscipline(Callers[c]), IndInv
  PROVE  Inv(g) /\ KeepsDiscipline(The) /\ The.liberties = {} /\ Neat(The, g)
BY DEF IndInv, Orderly, KeepsDiscipline, The

\* Every ServicePort has exactly one peer, after any calls in any order: no second
\* Link is ever made for a port, and no removal takes one end of it without the
\* other.
THEOREM PeersUnique ==
  ASSUME \A c \in DOMAIN Callers : KeepsDiscipline(Callers[c])
  PROVE  Spec => []OnePeer
<1>1. IndInv => OnePeer
  <2> SUFFICES ASSUME IndInv, NEW p \in Ports(g), TypeOf(g, p) = "ServicePort"
               PROVE  Cardinality(GetPeers(g, p)) = 1
    BY DEF OnePeer
  <2>1. Inv(g) /\ PeersInv(g) /\ IsServicePort(g, p)
    BY Disciplined DEF Neat, IsServicePort, TypeOf, Ports, OfClass
  <2>2. PICK l, i : Attaches(g, p, l, i)
    BY <2>1 DEF PeersInv
  <2>3. GetPeers(g, p) = {i}
    BY <2>1, <2>2, OnePeerIs
  <2>4. QED
    BY <2>3, FS_Singleton
<1>2. QED
  BY <1>1, InductiveInvariant, PTL

\* The interface that a ServicePort of a service attaches is still on a service,
\* sub-interfaces apart: dropping and removing nodes leaves no ServicePort behind
\* whose other end is gone.
THEOREM NothingDangles ==
  ASSUME \A c \in DOMAIN Callers : KeepsDiscipline(Callers[c])
  PROVE  Spec => []NoDanglingServicePort
<1>1. IndInv => NoDanglingServicePort
  <2> SUFFICES ASSUME IndInv, NEW s \in Services(g), NEW p \in Interfaces(g, s),
                      TypeOf(g, p) = "ServicePort",
                      NEW i \in GetPeers(g, p) \cap (Ports(g) \ SubInterfaces)
               PROVE  Belongs(i)
    BY DEF NoDanglingServicePort, ServicePortsAttach
  <2>1. Inv(g) /\ PeersInv(g)
    BY Disciplined DEF Neat
  <2>2. p \in Ports(g) /\ Joined(g, s, p)
    BY DEF Interfaces, Outgoing, Joined
  <2>3. IsServicePort(g, p)
    BY <2>2 DEF IsServicePort, TypeOf, Ports, OfClass
  <2>4. PICK l, j : Attaches(g, p, l, j)
    BY <2>1, <2>3 DEF PeersInv
  <2>5. j = i
    BY <2>1, <2>3, <2>4, OnePeerIs
  <2>6. PICK t \in Services(g) : Joined(g, t, i)
    BY <2>2, <2>4, <2>5 DEF Attaches, OnService, SubInterfaces, TypeOf, Ports, OfClass
  <2>7. t \in Incoming(g, i, "connects") /\ t \notin Links(g)
    BY <2>6 DEF Incoming, Joined, Services, Links, OfClass
  <2>8. QED
    BY <2>6, <2>7 DEF Belongs, Owners
<1>2. QED
  BY <1>1, InductiveInvariant, PTL

\* DisconnectInterface finds what ConnectInterface has made, nothing else, and
\* leaves the graph as it was before: in every graph there may be, other services
\* being attached to the same interface and other interfaces to the same service.
THEOREM DisconnectInverse ==
  ASSUME \A c \in DOMAIN Callers : KeepsDiscipline(Callers[c])
  PROVE  Spec => []DisconnectUndoesConnect
<1>1. IndInv => DisconnectUndoesConnect
  <2> SUFFICES ASSUME IndInv PROVE DisconnectUndoesConnect
    OBVIOUS
  <2> SUFFICES ASSUME NEW s \in Services(g), NEW i \in Connectable, ConnectTo(Ok(g), s, i).ok
               PROVE  LET H == ConnectTo(Ok(g), s, i).graph
                      IN  \E p \in Ports(H) : Attachments(H, s, i) = {p} /\ DeletePorts(H, {p}) = g
    BY DEF DisconnectUndoesConnect
  <2> DEFINE r    == Ok(g)
             q    == ConnectTo(r, s, i)
             H    == q.graph
             sp   == ServicePortID(g, s, i)
             link == LinkID(g, s, i)
  <2>1. Inv(g) /\ Neat(The, g) /\ Attachable(g, i) /\ OnService(g, i)
    BY Disciplined, ConnectableIsSpare
  <2>2. IsResult(r) /\ r.graph = g
    BY <2>1, OkIsResult
  <2> HIDE DEF r
  <2>3. Made(q, r, {sp, link}) /\ Connected(H, g, s, i, sp, link)
    BY <2>1, <2>2, ConnectIsAtomic DEF Attachable, r
  <2>4. Neat(The, H)
    BY <2>1, <2>2, ConnectKeeps
  <2>5. Inv(H) /\ PeersInv(H) /\ Delete(H, {sp, link}) = g
    BY <2>2, <2>3, <2>4 DEF Made, Grows, IsResult, Neat, r
  <2> HIDE DEF q, H
  <2>6. sp = <<"interface", g.nodes[s].name, i>> /\ H.nodes[s] = g.nodes[s] /\ s \in Services(H)
    BY <2>3 DEF ServicePortID, NameOf, Services, OfClass, Connected
  <2> HIDE DEF sp, link
  <2>7. /\ IsServicePort(H, sp) /\ link \in Links(H) /\ i # sp
        /\ Joined(H, s, sp) /\ Joined(H, i, link) /\ Joined(H, sp, link)
    <3>1. /\ sp \in Ids(H) /\ link \in Ids(H) /\ i # sp
          /\ H.nodes[sp].class = "ConnectionPoint" /\ H.nodes[sp].type = "ServicePort"
          /\ H.nodes[link].class = "Link"
      BY <2>3 DEF Connected
    <3>2. Joined(H, s, sp) /\ Joined(H, i, link) /\ Joined(H, sp, link)
      <4> DEFINE x == [class |-> "connects", source |-> s, target |-> sp]
                 y == [class |-> "connects", source |-> i, target |-> link]
                 z == [class |-> "connects", source |-> sp, target |-> link]
      <4>1. /\ x.class = "connects" /\ x.source = s /\ x.target = sp
            /\ y.class = "connects" /\ y.source = i /\ y.target = link
            /\ z.class = "connects" /\ z.source = sp /\ z.target = link
        OBVIOUS
      <4>2. H.edges = g.edges \cup {x, y, z}
        BY <2>3 DEF Connected
      <4> HIDE DEF x, y, z
      <4>3. QED
        BY <4>1, <4>2 DEF Joined
    <3>3. QED
      BY <3>1, <3>2 DEF IsServicePort, Links, OfClass
  <2>8. PICK l, j : Attaches(H, sp, l, j)
    BY <2>5, <2>7 DEF PeersInv
  <2>9. l = link
    BY <2>7, <2>8 DEF Attaches, Joined, Links, OfClass
  <2>10. j = i
    BY <2>7, <2>8, <2>9 DEF Attaches, Joined
  <2>11. sp \in Attachments(H, s, i)
    BY <2>5, <2>6, <2>7, <2>8, <2>10, AttachmentFound
  <2>12. \A p \in Attachments(H, s, i) : p = sp
    BY <2>5, <2>6, AttachmentIs
  <2>13. Taken(H, {sp}) = {sp, link}
    BY <2>7, <2>8, <2>9 DEF Taken, Attaches, Joined, Links, OfClass
  <2>14. DeletePorts(H, {sp}) = g
    BY <2>5, <2>13, DeletePortsIs
  <2>15. sp \in Ports(H) /\ Attachments(H, s, i) = {sp}
    BY <2>7, <2>11, <2>12 DEF IsServicePort, Ports, OfClass
  <2>16. QED
    BY <2>14, <2>15 DEF H, q, r
<1>2. QED
  BY <1>1, InductiveInvariant, PTL

\* A name finds one node of the slice, and one service, whoever owns it.
THEOREM LookupsUnambiguous ==
  ASSUME \A c \in DOMAIN Callers : KeepsDiscipline(Callers[c])
  PROVE  Spec => []LookupsAreUnambiguous
<1>1. IndInv => LookupsAreUnambiguous
  <2> SUFFICES ASSUME IndInv PROVE LookupsAreUnambiguous
    OBVIOUS
  <2>1. KeepsDiscipline(The) /\ NamesInv(The, g)
    BY Disciplined DEF Neat
  <2>2. ASSUME NEW n \in NetworkNodes(g), NEW m \in NetworkNodes(g), NameOf(g, n) = NameOf(g, m)
        PROVE  n = m
    BY <2>1, <2>2 DEF NamesInv, NameOf, NetworkNodes, OfClass
  <2>3. ASSUME NEW s \in Services(g), NEW t \in Services(g), NameOf(g, s) = NameOf(g, t)
        PROVE  s = t
    <3>1. g.nodes[s].name = g.nodes[t].name
      BY <2>3 DEF NameOf, Services, OfClass
    <3>2. QED
      BY <2>1, <3>1, NamesFindOne DEF NamesInv
  <2>4. QED
    BY <2>2, <2>3 DEF LookupsAreUnambiguous
<1>2. QED
  BY <1>1, InductiveInvariant, PTL

=============================================================================
