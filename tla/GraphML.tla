------------------------------- MODULE GraphML -------------------------------
(***************************************************************************)
(* internal/graphml: a slice graph as a GraphML document and back.  A      *)
(* document is what is left of it once its keys are resolved: nodes with   *)
(* their XML ID and data, edges with their ends, their label and data, in  *)
(* the order they stand in.                                                *)
(***************************************************************************)
EXTENDS Slivers, Naturals, Sequences, SequencesExt

\* A graph: its ID, its nodes in insertion order, its edges.
Graph(id, nodes, edges) == [id |-> id, nodes |-> nodes, edges |-> edges]
Node(class, id, props)  == [class |-> class, id |-> id, props |-> props]

Position(nodes, id) == CHOOSE i \in DOMAIN nodes : nodes[i].id = id

-----------------------------------------------------------------------------
(* Write.                                                                  *)

\* nodeToXML: properties that are empty are left out, and "labels" is made of
\* the class.
Data(props) == Restrict(props, {key \in DOMAIN props \ {"labels"} : props[key] # Blank})

\* The writer fails on an edge whose ends are not both among the nodes.
Write(g) ==
  [ok    |-> \A k \in DOMAIN g.edges :
               {g.edges[k].source, g.edges[k].target} \subseteq {g.nodes[i].id : i \in DOMAIN g.nodes},
   nodes |-> [i \in DOMAIN g.nodes |-> [xml |-> i, data |-> Data(g.nodes[i].props)]],
   edges |-> [k \in DOMAIN g.edges |->
                LET e == g.edges[k]
                IN  [source |-> Position(g.nodes, e.source), target |-> Position(g.nodes, e.target),
                     label |-> e.class,
                     data |-> [key \in {"Class", "label"} |-> Text(e.class)]]]]

-----------------------------------------------------------------------------
(* Read.                                                                   *)

\* Faulty variant (see README, "Mutants").
ResolveVerbatim(data) == data

\* resolveData
ResolveData(data) == Restrict(data, {key \in DOMAIN data : data[key] # None})

NodeProps(data) == LET props == ResolveData(data) IN Restrict(props, DOMAIN props \ {"labels"})

\* Faulty variant (see README, "Mutants").
ReadNodeByName(n) == LET props == NodeProps(n.data)
                     IN  Node(Get(props, "Class")[2], Get(props, "Name"), props)

ReadNode(n) == LET props == NodeProps(n.data)
               IN  Node(Get(props, "Class")[2], Get(props, "NodeID"), props)

EdgeClass(e) ==
  LET props == ResolveData(e.data)
  IN  IF Get(props, "Class") # Blank THEN Get(props, "Class")[2]
      ELSE IF e.label # "" THEN e.label ELSE Get(props, "label")[2]

IDOf(doc, xml) == IF \E n \in Range(doc.nodes) : n.xml = xml
                  THEN ReadNode(CHOOSE n \in Range(doc.nodes) : n.xml = xml).id
                  ELSE Blank

\* Every node names itself, no two have one ID, every edge has a class and
\* both its ends; the graph has the ID its first node states.
Read(doc) ==
  LET nodes == [i \in DOMAIN doc.nodes |-> ReadNode(doc.nodes[i])]
      edges == [k \in DOMAIN doc.edges |->
                  [class |-> EdgeClass(doc.edges[k]), source |-> IDOf(doc, doc.edges[k].source),
                   target |-> IDOf(doc, doc.edges[k].target)]]
  IN  [ok    |-> /\ \A i \in DOMAIN nodes : \A key \in Required \cup {"Class", "Type"} :
                      Get(nodes[i].props, key) # Blank
                 /\ \A i, j \in DOMAIN nodes : nodes[i].id = nodes[j].id => i = j
                 /\ \A k \in DOMAIN edges :
                      edges[k].class # "" /\ Blank \notin {edges[k].source, edges[k].target},
       graph |-> Graph(IF nodes = << >> THEN Blank ELSE Get(nodes[1].props, "GraphID"), nodes, edges)]

=============================================================================
