-------------------------------- MODULE Drift --------------------------------
(***************************************************************************)
(* pkg/diff: DiffGraphs compares an expected and an actual slice graph by  *)
(* the names of their elements.  Of several elements with one name the     *)
(* last one in the order of NormalizeGraph stands for all: the greatest    *)
(* class, then the greatest ID.  IDs are generated, so any element of that *)
(* class may be the one; a name counts as changed here when some choice    *)
(* shows a change.                                                         *)
(***************************************************************************)
EXTENDS TopologyOps

\* nodeName: an element without a name goes by its ID.
NodeName(G, n) == IF NameOf(G, n) # NoName THEN NameOf(G, n) ELSE n

NodeNamesIn(G) == {NodeName(G, n) : n \in Ids(G)}

\* The classes in the order of their strings.
ClassOrder == <<"Component", "ConnectionPoint", "Link", "NetworkNode", "NetworkService">>
Rank(G, n) == CHOOSE k \in DOMAIN ClassOrder : ClassOrder[k] = G.nodes[n].class

\* nodesByName
NodesByName(G, name) ==
  LET all == {n \in Ids(G) : NodeName(G, n) = name}
  IN  {n \in all : \A m \in all : Rank(G, m) <= Rank(G, n)}

\* diffProps: the properties that the expected element has, IDs apart.
DiffProps(expected, actual) ==
  {key \in {"type", "site", "vlan"} : expected[key] # "" /\ expected[key] # actual[key]}

EdgeSet(G) == {<<NodeName(G, e.source), e.class, NodeName(G, e.target)>> : e \in G.edges}

\* diffNormalizedGraphs
DiffGraphs(expected, actual) ==
  [addedNodes   |-> NodeNamesIn(actual) \ NodeNamesIn(expected),
   removedNodes |-> NodeNamesIn(expected) \ NodeNamesIn(actual),
   changedNodes |->
     {name \in NodeNamesIn(expected) \cap NodeNamesIn(actual) :
        \E n \in NodesByName(expected, name), m \in NodesByName(actual, name) :
          \/ expected.nodes[n].class # actual.nodes[m].class
          \/ DiffProps(expected.nodes[n], actual.nodes[m]) # {}},
   addedEdges   |-> EdgeSet(actual) \ EdgeSet(expected),
   removedEdges |-> EdgeSet(expected) \ EdgeSet(actual)]

Empty(diff) == \A part \in DOMAIN diff : diff[part] = {}

=============================================================================
