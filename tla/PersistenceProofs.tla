-------------------------- MODULE PersistenceProofs --------------------------
(***************************************************************************)
(* Proofs about Persistence, for any names, options, statements of the     *)
(* orchestrator and labels, and any number of rounds between the two.      *)
(***************************************************************************)
EXTENDS Persistence, TLAPS

-----------------------------------------------------------------------------
(* The shape of graphs and documents.                                      *)

IDs == {OwnerID, ElementID}

\* What every writer of a graph states of each of its nodes.
IsBag(props, id) ==
  /\ props = [key \in DOMAIN props |-> props[key]]
  /\ Required \cup {"Class", "Type"} \subseteq DOMAIN props
  /\ \E class \in Classes : props["Class"] = Text(class)
  /\ props["NodeID"] = id /\ id \in IDs
  /\ props["GraphID"] = Text("graph") /\ props["Type"] = Text("type")
  /\ props["Name"] # Blank /\ (id = OwnerID => props["Name"] = Text("owner"))

IsNode(n) ==
  /\ n = Node(n.class, n.id, n.props)
  /\ n.class \in Classes /\ n.props["Class"] = Text(n.class)
  /\ IsBag(n.props, n.id)

EdgeClasses == {"has", "connects"}

IsGraph(graph) ==
  /\ graph = Graph(Text("graph"), graph.nodes, graph.edges)
  /\ graph.nodes = <<graph.nodes[1], graph.nodes[2]>>
  /\ IsNode(graph.nodes[1]) /\ IsNode(graph.nodes[2])
  /\ graph.nodes[1].id # graph.nodes[2].id
  /\ graph.edges = [k \in DOMAIN graph.edges |-> graph.edges[k]]
  /\ \A k \in DOMAIN graph.edges :
       LET e == graph.edges[k]
       IN  /\ e = [class |-> e.class, source |-> e.source, target |-> e.target]
           /\ e.class \in EdgeClasses /\ {e.source, e.target} \subseteq IDs

IsXMLNode(n) ==
  /\ n = [xml |-> n.xml, data |-> n.data]
  /\ n.xml \in {1, 2}
  /\ IsBag(n.data, n.data["NodeID"])

IsDocument(doc) ==
  /\ doc = [ok |-> TRUE, nodes |-> doc.nodes, edges |-> doc.edges]
  /\ doc.nodes = <<doc.nodes[1], doc.nodes[2]>>
  /\ IsXMLNode(doc.nodes[1]) /\ IsXMLNode(doc.nodes[2])
  /\ doc.nodes[1].xml # doc.nodes[2].xml
  /\ doc.nodes[1].data["NodeID"] # doc.nodes[2].data["NodeID"]
  /\ doc.edges = [k \in DOMAIN doc.edges |-> doc.edges[k]]
  /\ \A k \in DOMAIN doc.edges :
       LET e == doc.edges[k]
       IN  /\ e = [source |-> e.source, target |-> e.target, label |-> e.label, data |-> e.data]
           /\ {e.source, e.target} \subseteq {1, 2} /\ e.label \in EdgeClasses
           /\ e.data = [key \in {"Class", "label"} |-> Text(e.label)]

\* What a program reads of the element.
ElementNode(doc) == CHOOSE k \in DOMAIN doc.nodes : doc.nodes[k].data["NodeID"] = ElementID
ElementData(doc) == doc.nodes[ElementNode(doc)].data
Loaded(doc)      == NodeProps(ElementData(doc))

-----------------------------------------------------------------------------
(* The inductive invariant.                                                *)

Nothing == Unset \cup {JSON({})}

\* What has become of a statement: it is there as it was made or as it was
\* read, or it says nothing.  Labels are added to those that were stated.
KeptLabels(said, have) ==
  \/ said \in Nothing \cup {have}
  \/ IsJSON(said) /\ IsJSON(have) /\ said[2] \subseteq have[2]

Kept(key, v, w) ==
  IF key = "Labels" THEN KeptLabels(Decoded(key, v), Decoded(key, w))
  ELSE \/ w \in {v, Decoded(key, v)}
       \/ w \in Unset /\ (v \in Unset \/ Decoded(key, v) = JSON({}))

StatementsIn(said, props) ==
  \A key \in DOMAIN said \ {"labels"} :
    /\ Kept(key, said[key], Get(props, key))
    /\ Malformed(key, Get(props, key)) => Malformed(key, said[key])

\* What nobody stated is the program's own: it reads it as it has written it.
IsOwn(key, v) ==
  /\ ~Malformed(key, v)
  /\ key # "Labels" => v \in Unset \/ Decoded(key, v) = v
  /\ key = "StitchNode" => v \notin Unset

OwnIn(said, props) ==
  \A key \in (DOMAIN props \cup {"StitchNode"}) \ DOMAIN said : IsOwn(key, Get(props, key))

\* Whose doing it is when the graph and the document differ in a property.
Differs(key) ==
  /\ key \in DOMAIN stated
  /\ \/ key \notin DOMAIN known \/ stated[key] # known[key]
     \/ stated[key] # Decoded(key, stated[key])

DriftInv ==
  \A key \in DOMAIN Element.props \ {"Labels"} :
    ~IgnoreDiffProp(key) /\ Element.props[key] \notin Unset =>
      Get(Loaded(document), key) = Element.props[key] \/ Differs(key)

SaidInv ==
  /\ stated = [key \in DOMAIN stated |-> stated[key]]
  /\ known = [key \in DOMAIN known |-> known[key]]
  /\ DOMAIN known \subseteq DOMAIN stated \ {"labels"}
  /\ DOMAIN stated \subseteq {s[1] : s \in Statements}

GraphInv == IsGraph(g) /\ StatementsIn(known, Element.props) /\ OwnIn(known, Element.props)

DocumentInv ==
  \/ document = NoDocument
  \/ /\ IsDocument(document)
     /\ StatementsIn(stated, Loaded(document)) /\ OwnIn(stated, Loaded(document))
     /\ DriftInv

IndInv == SaidInv /\ GraphInv /\ DocumentInv

-----------------------------------------------------------------------------
(* Values and property names.                                              *)

\* Words are not JSON, and two words are one if they read the same.
LEMMA Values ==
  /\ \A x : IsJSON(JSON(x)) /\ JSON(x)[2] = x /\ JSON(x) \notin Unset
  /\ \A w : ~IsJSON(Text(w)) /\ Text(w)[2] = w
  /\ \A v, w : Text(v) = Text(w) => v = w
  /\ Blank # None
BY DEF IsJSON, JSON, Text, Unset, Blank, None

\* A truth value is something, and no JSON.
LEMMA Booleans == {Text("true"), Text("false")} \cap (Unset \cup {JSON({})}) = {}
<1>1. Text("true") # JSON({}) /\ Text("false") # JSON({})
  BY Values
<1>2. Text("true") \notin Unset /\ Text("false") \notin Unset
  BY Values DEF Unset, Blank, None
<1>3. QED
  BY <1>1, <1>2

\* The tables of property names: what every class reads, and what none does.
LEMMA Tables ==
  /\ \A class \in Classes :
       /\ Required \cup {"Type", "StitchNode", "Labels"} \subseteq Reads[class]
       /\ Reads[class] \subseteq KnownProps \ {"Class", "labels"}
  /\ JSONPropertyNames \cup Structs \cup {"Class", "labels", "ImageRef", "StitchNode"} \subseteq KnownProps
  /\ Structs \subseteq JSONPropertyNames
  /\ "Labels" \in Structs
  /\ (Required \cup {"Class", "Type", "StitchNode", "labels", "ImageRef"}) \cap JSONPropertyNames = {}
<1>1. \A class \in Classes : Reads[class] \subseteq UNION Range(Reads)
  BY DEF Reads, Range
<1>2. \A class \in Classes : BaseReads \cup {"Type"} \subseteq Reads[class]
  BY DEF Reads
<1>3. \A class \in Classes : "Class" \notin Reads[class] /\ "labels" \notin Reads[class]
  BY DEF Reads, BaseReads, Required, Classes
<1>4. {"ImageRef", "Location", "MaintenanceInfo"} \subseteq Reads["NetworkNode"]
  BY DEF Reads, Classes
<1>5. {"Gateway", "ERO", "PathInfo"} \subseteq Reads["NetworkService"]
  BY DEF Reads, Classes
<1>6. "PeerLabels" \in Reads["ConnectionPoint"]
  BY DEF Reads, Classes
<1>7. {"NetworkNode", "NetworkService", "ConnectionPoint"} \subseteq Classes
  BY DEF Classes
<1>8. JSONPropertyNames \cup Structs \subseteq KnownProps
  <2>1. BaseReads \cup {"ImageRef", "Location", "MaintenanceInfo", "Gateway", "ERO", "PathInfo", "PeerLabels"}
          \subseteq UNION Range(Reads)
    BY <1>1, <1>2, <1>4, <1>5, <1>6, <1>7
  <2>2. (UNION Range(Reads)) \cup {"CapacityDelegations", "LabelDelegations"} \subseteq KnownProps
    BY DEF KnownProps
  <2>3. JSONPropertyNames \cup Structs \subseteq
          BaseReads \cup {"ImageRef", "Location", "MaintenanceInfo", "Gateway", "ERO", "PathInfo", "PeerLabels",
                          "CapacityDelegations", "LabelDelegations"}
    BY DEF JSONPropertyNames, Structs, Lists, Blobs, BaseReads
  <2>4. QED
    BY <2>1, <2>2, <2>3
<1>9. {"Class", "labels", "ImageRef", "StitchNode"} \subseteq KnownProps
  <2>1. "StitchNode" \in BaseReads
    BY DEF BaseReads
  <2>2. {"ImageRef", "StitchNode"} \subseteq UNION Range(Reads)
    BY <1>1, <1>2, <1>4, <1>7, <2>1
  <2>3. QED
    BY <2>2 DEF KnownProps
<1>10. Required \cup {"Type", "StitchNode", "Labels"} \subseteq BaseReads \cup {"Type"}
  BY DEF BaseReads
<1>11. UNION Range(Reads) \subseteq KnownProps
  BY DEF KnownProps
<1>12. Structs \subseteq JSONPropertyNames /\ "Labels" \in Structs
  BY DEF JSONPropertyNames, Structs
<1>13. (Required \cup {"Class", "Type", "StitchNode", "labels", "ImageRef"}) \cap JSONPropertyNames = {}
  BY DEF JSONPropertyNames, Structs, Lists, Blobs, Required
<1>14. QED
  BY <1>1, <1>2, <1>3, <1>8, <1>9, <1>10, <1>11, <1>12, <1>13

-----------------------------------------------------------------------------
(* What a field gets from a property.                                      *)

\* Reading what was read changes nothing more, and what can be read still can.
LEMMA DecodedTwice ==
  ASSUME NEW key, NEW v
  PROVE  /\ Decoded(key, Decoded(key, v)) = Decoded(key, v)
         /\ ~Malformed(key, v) => ~Malformed(key, Decoded(key, v))
<1>1. CASE key = "StitchNode"
  BY <1>1, Tables DEF Decoded, Malformed
<1>2. CASE key # "StitchNode" /\ key \in Structs /\ IsJSON(v)
  <2>1. Decoded(key, v) = JSON(v[2] \ {"unknown"})
    BY <1>2 DEF Decoded
  <2>2. IsJSON(Decoded(key, v)) /\ Decoded(key, v)[2] = v[2] \ {"unknown"}
    BY <2>1, Values
  <2>3. Decoded(key, Decoded(key, v)) = JSON((v[2] \ {"unknown"}) \ {"unknown"})
    BY <1>2, <2>2 DEF Decoded
  <2>4. (v[2] \ {"unknown"}) \ {"unknown"} = v[2] \ {"unknown"}
    OBVIOUS
  <2>5. QED
    BY <2>1, <2>2, <2>3, <2>4 DEF Malformed
<1>3. CASE key # "StitchNode" /\ ~(key \in Structs /\ IsJSON(v))
  <2>1. CASE v = None /\ key \in JSONPropertyNames \cup {"ImageRef"}
    <3>1. Decoded(key, v) = Blank
      BY <1>3, <2>1 DEF Decoded
    <3>2. ~IsJSON(Blank) /\ Blank # None
      BY Values DEF Blank
    <3>3. Decoded(key, Blank) = Blank
      BY <1>3, <3>2 DEF Decoded
    <3>4. QED
      BY <3>1, <3>3 DEF Malformed, Unset
  <2>2. CASE ~(v = None /\ key \in JSONPropertyNames \cup {"ImageRef"})
    <3>1. Decoded(key, v) = v
      BY <1>3, <2>2 DEF Decoded
    <3>2. QED
      BY <3>1
  <2>3. QED
    BY <2>1, <2>2
<1>4. QED
  BY <1>1, <1>2, <1>3

\* A field says nothing only if its property does, but for StitchNode, which
\* says false; and it says None only if its property does.
LEMMA DecodedUnset ==
  ASSUME NEW key, NEW v
  PROVE  /\ key # "StitchNode" => (v \in Unset <=> Decoded(key, v) \in Unset)
         /\ key = "StitchNode" => Decoded(key, v) \in {Text("true"), Text("false")}
         /\ Decoded(key, v) = None => v = None
<1>1. CASE key = "StitchNode"
  <2>1. Decoded(key, v) \in {Text("true"), Text("false")}
    BY <1>1 DEF Decoded
  <2>2. Text("true") # None /\ Text("false") # None
    BY DEF Text, None
  <2>3. QED
    BY <1>1, <2>1, <2>2
<1>2. CASE key # "StitchNode" /\ key \in Structs /\ IsJSON(v)
  <2>1. Decoded(key, v) \notin Unset
    BY <1>2, Values DEF Decoded
  <2>2. v \notin Unset
    BY <1>2, Values DEF Unset, Blank, None
  <2>3. QED
    BY <1>2, <2>1, <2>2 DEF Unset
<1>3. CASE key # "StitchNode" /\ ~(key \in Structs /\ IsJSON(v))
  BY <1>3, Values DEF Decoded, Unset
<1>4. QED
  BY <1>1, <1>2, <1>3

\* A property that no class knows is read as it is.
LEMMA DecodedPlain ==
  ASSUME NEW key, key \notin Structs \cup JSONPropertyNames \cup {"ImageRef", "StitchNode"}, NEW v
  PROVE  Decoded(key, v) = v
BY DEF Decoded

-----------------------------------------------------------------------------
(* Documents.                                                              *)

\* A property that is loaded is what the document says, unless that is None.
LEMMA LoadedProps ==
  ASSUME NEW data
  PROVE  /\ NodeProps(data) = [key \in DOMAIN NodeProps(data) |-> NodeProps(data)[key]]
         /\ DOMAIN NodeProps(data) = {key \in DOMAIN data \ {"labels"} : data[key] # None}
         /\ \A key \in DOMAIN NodeProps(data) : NodeProps(data)[key] = data[key]
BY DEF NodeProps, ResolveData, Restrict

\* A property that is written is what the graph has, unless that is empty.
LEMMA WrittenProps ==
  ASSUME NEW props
  PROVE  /\ Data(props) = [key \in DOMAIN Data(props) |-> Data(props)[key]]
         /\ DOMAIN Data(props) = {key \in DOMAIN props \ {"labels"} : props[key] # Blank}
         /\ \A key \in DOMAIN Data(props) : Data(props)[key] = props[key]
BY DEF Data, Restrict

\* What is loaded of what was written.
LEMMA ReloadedProps ==
  ASSUME NEW props
  PROVE  /\ NodeProps(Data(props)) =
              Restrict(props, {key \in DOMAIN props \ {"labels"} : props[key] \notin Unset})
         /\ \A key : Get(NodeProps(Data(props)), key) =
              IF key = "labels" \/ Get(props, key) \in Unset THEN Blank ELSE Get(props, key)
<1> DEFINE d == Data(props)
           r == NodeProps(d)
<1>1. DOMAIN d = {key \in DOMAIN props \ {"labels"} : props[key] # Blank}
  BY WrittenProps
<1>2. \A key \in DOMAIN d : d[key] = props[key]
  BY WrittenProps
<1> HIDE DEF d
<1>3. DOMAIN r = {key \in DOMAIN d \ {"labels"} : d[key] # None}
  BY LoadedProps
<1>4. \A key \in DOMAIN r : r[key] = props[key]
  BY <1>2, LoadedProps
<1>5. r = [key \in DOMAIN r |-> r[key]]
  BY LoadedProps
<1> HIDE DEF r
<1>6. DOMAIN r = {key \in DOMAIN props \ {"labels"} : props[key] \notin Unset}
  BY <1>1, <1>2, <1>3 DEF Unset
<1>7. r = Restrict(props, DOMAIN r)
  BY <1>4, <1>5 DEF Restrict
<1>8. \A key : Get(r, key) = IF key = "labels" \/ Get(props, key) \in Unset THEN Blank ELSE Get(props, key)
  BY <1>6, <1>4 DEF Get, Unset
<1>9. QED
  BY <1>6, <1>7, <1>8 DEF r, d

\* What every node states says something, but for a name that is None.
LEMMA BagValues ==
  ASSUME NEW props, NEW id, IsBag(props, id)
  PROVE  /\ \A key \in {"NodeID", "GraphID", "Class", "Type"} : props[key] \notin Unset
         /\ \A key \in {"Name", "NodeID", "GraphID", "Class", "Type"} :
              key \in DOMAIN props /\ props[key] # Blank
<1>1. \A w : w \notin {"", "None"} => Text(w) \notin Unset
  BY Values DEF Unset, Blank, None
<1>2. props["NodeID"] \in {Text("id1"), Text("id2")}
  BY DEF IsBag, IDs, OwnerID, ElementID
<1>3. \E class \in Classes : props["Class"] = Text(class)
  BY DEF IsBag
<1>4. \A class \in Classes : class \notin {"", "None"}
  BY DEF Classes
<1>5. props["GraphID"] = Text("graph") /\ props["Type"] = Text("type") /\ props["Name"] # Blank
  BY DEF IsBag
<1>6. {"Name", "NodeID", "GraphID", "Class", "Type"} \subseteq DOMAIN props
  BY DEF IsBag, Required
<1>7. props["NodeID"] \notin Unset /\ props["GraphID"] \notin Unset /\ props["Type"] \notin Unset
  BY <1>1, <1>2, <1>5
<1>8. props["Class"] \notin Unset
  BY <1>1, <1>3, <1>4
<1>9. QED
  BY <1>5, <1>6, <1>7, <1>8 DEF Unset

\* What was written says of each node what the graph says.
LEMMA WrittenBag ==
  ASSUME NEW props, NEW id, IsBag(props, id)
  PROVE  IsBag(Data(props), id)
<1>1. \A key \in Required \cup {"Class", "Type"} :
        key \in DOMAIN props /\ props[key] # Blank /\ key # "labels"
  BY BagValues DEF Required
<1>2. \A key \in Required \cup {"Class", "Type"} : key \in DOMAIN Data(props) /\ Data(props)[key] = props[key]
  BY <1>1, WrittenProps
<1>3. {"Name", "NodeID", "GraphID"} \subseteq Required
  BY DEF Required
<1>4. QED
  BY <1>2, <1>3, WrittenProps DEF IsBag

\* A node that is called something can be loaded.
LEMMA LoadedBag ==
  ASSUME NEW data, NEW id, IsBag(data, id)
  PROVE  /\ data["Name"] # None => IsBag(NodeProps(data), id)
         /\ \A key \in {"NodeID", "GraphID", "Class", "Type"} :
              key \in DOMAIN NodeProps(data) /\ NodeProps(data)[key] = data[key]
         /\ data["Name"] = None => Get(NodeProps(data), "Name") = Blank
<1>1. \A key \in {"NodeID", "GraphID", "Class", "Type"} : data[key] # None /\ key # "labels"
  BY BagValues DEF Unset
<1>2. Required \cup {"Class", "Type"} = {"Name", "NodeID", "GraphID", "Class", "Type"}
  BY DEF Required
<1>3. \A key \in {"NodeID", "GraphID", "Class", "Type"} :
        key \in DOMAIN NodeProps(data) /\ NodeProps(data)[key] = data[key]
  <2>1. {"NodeID", "GraphID", "Class", "Type"} \subseteq DOMAIN data
    BY <1>2 DEF IsBag
  <2>2. QED
    BY <1>1, <2>1, LoadedProps
<1>4. ASSUME data["Name"] # None PROVE IsBag(NodeProps(data), id)
  <2>1. "Name" \in DOMAIN NodeProps(data) /\ NodeProps(data)["Name"] = data["Name"]
    BY <1>2, <1>4, LoadedProps DEF IsBag
  <2>2. QED
    BY <1>2, <1>3, <2>1, LoadedProps DEF IsBag
<1>5. ASSUME data["Name"] = None PROVE Get(NodeProps(data), "Name") = Blank
  BY <1>5, LoadedProps DEF Get
<1>6. QED
  BY <1>3, <1>4, <1>5

\* A sequence of two.
LEMMA Pairs ==
  ASSUME NEW s
  PROVE  /\ s = <<s[1], s[2]>> => DOMAIN s = {1, 2}
         /\ s = [i \in {1, 2} |-> s[i]] => s = <<s[1], s[2]>>
OBVIOUS

\* A graph has two nodes, and finds each by its ID.
LEMMA Positions ==
  ASSUME NEW G, IsGraph(G)
  PROVE  /\ DOMAIN G.nodes = {1, 2} /\ {G.nodes[1].id, G.nodes[2].id} = IDs
         /\ \A i \in {1, 2} : Position(G.nodes, G.nodes[i].id) = i
         /\ Position(G.nodes, ElementID) \in {1, 2}
         /\ ElementOf(G) = G.nodes[Position(G.nodes, ElementID)]
         /\ ElementOf(G).id = ElementID /\ IsNode(ElementOf(G))
<1>1. DOMAIN G.nodes = {1, 2}
  BY Pairs DEF IsGraph
<1>2. \A i \in {1, 2} : Position(G.nodes, G.nodes[i].id) = i
  <2>1. \A i, j \in {1, 2} : G.nodes[i].id = G.nodes[j].id => i = j
    BY DEF IsGraph
  <2>2. \A i \in {1, 2} : \E j \in DOMAIN G.nodes : G.nodes[j].id = G.nodes[i].id
    BY <1>1
  <2>3. \A i \in {1, 2} : /\ Position(G.nodes, G.nodes[i].id) \in DOMAIN G.nodes
                          /\ G.nodes[Position(G.nodes, G.nodes[i].id)].id = G.nodes[i].id
    BY <2>2 DEF Position
  <2>4. QED
    BY <1>1, <2>1, <2>3
<1>3. {G.nodes[1].id, G.nodes[2].id} = IDs
  BY DEF IsGraph, IsNode, IsBag, IDs
<1>4. PICK i \in {1, 2} : G.nodes[i].id = ElementID
  BY <1>3 DEF IDs
<1>5. Position(G.nodes, ElementID) = i
  BY <1>2, <1>4
<1>6. IsNode(G.nodes[i])
  BY DEF IsGraph
<1>7. QED
  BY <1>1, <1>2, <1>3, <1>4, <1>5, <1>6 DEF ElementOf

\* A document has two nodes, one of them the element's.
LEMMA ElementNodes ==
  ASSUME NEW doc, IsDocument(doc)
  PROVE  /\ DOMAIN doc.nodes = {1, 2}
         /\ {doc.nodes[1].data["NodeID"], doc.nodes[2].data["NodeID"]} = IDs
         /\ ElementNode(doc) \in {1, 2}
         /\ ElementData(doc)["NodeID"] = ElementID /\ IsBag(ElementData(doc), ElementID)
         /\ \A i \in {1, 2} : doc.nodes[i].data["NodeID"] = ElementID => ElementNode(doc) = i
<1>1. DOMAIN doc.nodes = {1, 2}
  BY Pairs DEF IsDocument
<1>2. \A i \in {1, 2} : IsBag(doc.nodes[i].data, doc.nodes[i].data["NodeID"])
  BY DEF IsDocument, IsXMLNode
<1>3. {doc.nodes[1].data["NodeID"], doc.nodes[2].data["NodeID"]} = IDs
  BY <1>2 DEF IsDocument, IsBag, IDs
<1>4. PICK i \in {1, 2} : doc.nodes[i].data["NodeID"] = ElementID
  BY <1>3 DEF IDs
<1>5. ElementNode(doc) \in {1, 2} /\ doc.nodes[ElementNode(doc)].data["NodeID"] = ElementID
  BY <1>1, <1>4 DEF ElementNode
<1>6. \A j \in {1, 2} : doc.nodes[j].data["NodeID"] = ElementID => ElementNode(doc) = j
  BY <1>5 DEF IsDocument
<1>7. QED
  BY <1>1, <1>2, <1>3, <1>5, <1>6 DEF ElementData

\* A graph is written as a document of its nodes.
LEMMA WritesDocument ==
  ASSUME NEW G, IsGraph(G)
  PROVE  /\ Write(G).ok /\ IsDocument(Write(G))
         /\ \A i \in {1, 2} : /\ Write(G).nodes[i].data = Data(G.nodes[i].props)
                              /\ Write(G).nodes[i].xml = i
         /\ Loaded(Write(G)) = NodeProps(Data(ElementOf(G).props))
<1> DEFINE W == Write(G)
<1>1. DOMAIN G.nodes = {1, 2}
  BY Positions
<1>2. \A k \in DOMAIN G.edges :
        {G.edges[k].source, G.edges[k].target} \subseteq {G.nodes[i].id : i \in DOMAIN G.nodes}
  <2>1. {G.nodes[i].id : i \in DOMAIN G.nodes} = IDs
    BY <1>1, Positions
  <2>2. QED
    BY <2>1 DEF IsGraph
<1>3. /\ W = [ok |-> TRUE, nodes |-> W.nodes, edges |-> W.edges]
      /\ W.nodes = [i \in {1, 2} |-> [xml |-> i, data |-> Data(G.nodes[i].props)]]
      /\ W.edges = [k \in DOMAIN G.edges |->
                      [source |-> Position(G.nodes, G.edges[k].source),
                       target |-> Position(G.nodes, G.edges[k].target),
                       label |-> G.edges[k].class,
                       data |-> [key \in {"Class", "label"} |-> Text(G.edges[k].class)]]]
  BY <1>1, <1>2 DEF Write
<1> HIDE DEF W
<1>4. W.nodes = <<W.nodes[1], W.nodes[2]>>
  <2>1. W.nodes = [i \in {1, 2} |-> W.nodes[i]]
    BY <1>3
  <2>2. QED
    BY <2>1, Pairs
<1>5. \A i \in {1, 2} : W.nodes[i] = [xml |-> i, data |-> Data(G.nodes[i].props)]
  BY <1>3
<1>6. \A i \in {1, 2} : /\ IsBag(W.nodes[i].data, G.nodes[i].id)
                        /\ W.nodes[i].data["NodeID"] = G.nodes[i].id
  <2> TAKE i \in {1, 2}
  <2>1. IsBag(G.nodes[i].props, G.nodes[i].id)
    BY DEF IsGraph, IsNode
  <2>2. IsBag(W.nodes[i].data, G.nodes[i].id)
    BY <1>5, <2>1, WrittenBag
  <2>3. QED
    BY <2>2 DEF IsBag
<1>7. \A i \in {1, 2} : IsXMLNode(W.nodes[i])
  BY <1>5, <1>6 DEF IsXMLNode
<1>8. \A id \in IDs : Position(G.nodes, id) \in {1, 2}
  <2> TAKE id \in IDs
  <2>1. PICK i \in {1, 2} : G.nodes[i].id = id
    BY Positions
  <2>2. QED
    BY <2>1, Positions
<1>9. IsDocument(W)
  <2>1. \A k \in DOMAIN W.edges :
          LET e == W.edges[k]
          IN  /\ e = [source |-> e.source, target |-> e.target, label |-> e.label, data |-> e.data]
              /\ {e.source, e.target} \subseteq {1, 2} /\ e.label \in EdgeClasses
              /\ e.data = [key \in {"Class", "label"} |-> Text(e.label)]
    <3> SUFFICES ASSUME NEW k \in DOMAIN W.edges
                 PROVE  LET e == W.edges[k]
                        IN  /\ e = [source |-> e.source, target |-> e.target, label |-> e.label, data |-> e.data]
                            /\ {e.source, e.target} \subseteq {1, 2} /\ e.label \in EdgeClasses
                            /\ e.data = [key \in {"Class", "label"} |-> Text(e.label)]
      OBVIOUS
    <3>1. k \in DOMAIN G.edges
      BY <1>3
    <3>2. {G.edges[k].source, G.edges[k].target} \subseteq IDs /\ G.edges[k].class \in EdgeClasses
      BY <3>1 DEF IsGraph
    <3>3. W.edges[k] = [source |-> Position(G.nodes, G.edges[k].source),
                        target |-> Position(G.nodes, G.edges[k].target),
                        label |-> G.edges[k].class,
                        data |-> [key \in {"Class", "label"} |-> Text(G.edges[k].class)]]
      BY <1>3, <3>1
    <3>4. QED
      BY <1>8, <3>2, <3>3
  <2>2. W.edges = [k \in DOMAIN W.edges |-> W.edges[k]]
    BY <1>3
  <2>3. W.nodes[1].xml # W.nodes[2].xml /\ W.nodes[1].data["NodeID"] # W.nodes[2].data["NodeID"]
    BY <1>5, <1>6 DEF IsGraph
  <2>4. IsXMLNode(W.nodes[1]) /\ IsXMLNode(W.nodes[2])
    BY <1>7
  <2>5. QED
    BY <1>3, <1>4, <2>1, <2>2, <2>3, <2>4 DEF IsDocument
<1>10. Loaded(W) = NodeProps(Data(ElementOf(G).props))
  <2>1. PICK i \in {1, 2} : G.nodes[i].id = ElementID
    BY Positions DEF IDs
  <2>2. ElementOf(G) = G.nodes[i]
    BY <2>1, Positions
  <2>3. ElementNode(W) = i
    BY <1>6, <1>9, <2>1, ElementNodes
  <2>4. QED
    BY <1>5, <2>2, <2>3 DEF Loaded, ElementData
<1>11. QED
  BY <1>3, <1>5, <1>9, <1>10 DEF W

\* The ends of an edge are the nodes with their XML IDs.
LEMMA EdgeEnds ==
  ASSUME NEW doc, IsDocument(doc), NEW i \in {1, 2}
  PROVE  IDOf(doc, doc.nodes[i].xml) = doc.nodes[i].data["NodeID"]
<1>1. Range(doc.nodes) = {doc.nodes[1], doc.nodes[2]}
  BY ElementNodes DEF Range
<1>2. \A n \in Range(doc.nodes) : n.xml = doc.nodes[i].xml => n = doc.nodes[i]
  BY <1>1 DEF IsDocument
<1>3. (CHOOSE n \in Range(doc.nodes) : n.xml = doc.nodes[i].xml) = doc.nodes[i]
  BY <1>1, <1>2
<1>4. IsBag(doc.nodes[i].data, doc.nodes[i].data["NodeID"])
  BY DEF IsDocument, IsXMLNode
<1>5. ReadNode(doc.nodes[i]).id = doc.nodes[i].data["NodeID"]
  BY <1>4, LoadedBag DEF ReadNode, Node, Get
<1>6. QED
  BY <1>1, <1>3, <1>5 DEF IDOf

\* What a document is read as, edge by edge and node by node.
LEMMA ReadsEdges ==
  ASSUME NEW doc, IsDocument(doc), NEW k \in DOMAIN doc.edges
  PROVE  LET e == Read(doc).graph.edges[k]
         IN  /\ e = [class |-> doc.edges[k].label, source |-> IDOf(doc, doc.edges[k].source),
                     target |-> IDOf(doc, doc.edges[k].target)]
             /\ e.class \in EdgeClasses /\ {e.source, e.target} \subseteq IDs
<1> DEFINE x == doc.edges[k]
<1>1. /\ {x.source, x.target} \subseteq {1, 2} /\ x.label \in EdgeClasses
      /\ x.data = [key \in {"Class", "label"} |-> Text(x.label)]
  BY DEF IsDocument
<1>2. EdgeClass(x) = x.label
  <2>1. x.label \notin {"", "None"}
    BY <1>1 DEF EdgeClasses
  <2>2. Text(x.label) # None /\ Text(x.label) # Blank /\ Text(x.label)[2] = x.label
    BY <2>1, Values DEF None, Blank
  <2>3. Get(ResolveData(x.data), "Class") = Text(x.label)
    BY <1>1, <2>2 DEF ResolveData, Restrict, Get
  <2>4. QED
    BY <2>2, <2>3 DEF EdgeClass
<1>3. \A n \in {1, 2} : IDOf(doc, n) \in IDs
  <2> TAKE n \in {1, 2}
  <2>1. PICK i \in {1, 2} : doc.nodes[i].xml = n
    BY DEF IsDocument, IsXMLNode
  <2>2. QED
    BY <2>1, EdgeEnds, ElementNodes
<1>4. Read(doc).graph.edges[k] = [class |-> EdgeClass(x), source |-> IDOf(doc, x.source), target |-> IDOf(doc, x.target)]
  BY DEF Read, Graph
<1>5. QED
  BY <1>1, <1>2, <1>3, <1>4

\* A node is read with what its data says.
LEMMA ReadsNode ==
  ASSUME NEW doc, IsDocument(doc), NEW i \in {1, 2}
  PROVE  /\ Read(doc).graph.nodes[i] =
              Node(doc.nodes[i].data["Class"][2], doc.nodes[i].data["NodeID"], NodeProps(doc.nodes[i].data))
         /\ doc.nodes[i].data["Class"][2] \in Classes
         /\ doc.nodes[i].data["Class"] = Text(doc.nodes[i].data["Class"][2])
<1> DEFINE data == doc.nodes[i].data
<1>1. IsBag(data, data["NodeID"])
  BY DEF IsDocument, IsXMLNode
<1>2. Read(doc).graph.nodes[i] = ReadNode(doc.nodes[i])
  BY ElementNodes DEF Read, Graph
<1>3. Get(NodeProps(data), "Class") = data["Class"] /\ Get(NodeProps(data), "NodeID") = data["NodeID"]
  BY <1>1, LoadedBag DEF Get
<1>4. data["Class"][2] \in Classes /\ data["Class"] = Text(data["Class"][2])
  BY <1>1, Values DEF IsBag
<1>5. QED
  BY <1>2, <1>3, <1>4 DEF ReadNode

\* What can be read is a graph, the element of which has what the document says.
LEMMA ReadsGraph ==
  ASSUME NEW doc, IsDocument(doc)
  PROVE  /\ Read(doc).ok <=> \A i \in {1, 2} : doc.nodes[i].data["Name"] # None
         /\ Read(doc).ok => IsGraph(Read(doc).graph) /\ ElementOf(Read(doc).graph).props = Loaded(doc)
<1> DEFINE R == Read(doc)
           nodes == R.graph.nodes
           edges == R.graph.edges
<1>1. \A i \in {1, 2} : IsBag(doc.nodes[i].data, doc.nodes[i].data["NodeID"])
  BY DEF IsDocument, IsXMLNode
<1>2. /\ nodes = [i \in {1, 2} |-> nodes[i]] /\ DOMAIN nodes = {1, 2}
      /\ edges = [k \in DOMAIN doc.edges |-> edges[k]]
      /\ R.graph = Graph(R.graph.id, nodes, edges)
  BY ElementNodes DEF Read, Graph
<1>3. nodes = <<nodes[1], nodes[2]>>
  BY <1>2, Pairs
<1>4. \A i \in {1, 2} :
        /\ nodes[i] = Node(doc.nodes[i].data["Class"][2], doc.nodes[i].data["NodeID"],
                           NodeProps(doc.nodes[i].data))
        /\ doc.nodes[i].data["Class"][2] \in Classes
        /\ doc.nodes[i].data["Class"] = Text(doc.nodes[i].data["Class"][2])
  BY ReadsNode
<1>5. R.ok <=> /\ \A i \in DOMAIN nodes : \A key \in Required \cup {"Class", "Type"} :
                     Get(nodes[i].props, key) # Blank
               /\ \A i, j \in DOMAIN nodes : nodes[i].id = nodes[j].id => i = j
               /\ \A k \in DOMAIN edges :
                    edges[k].class # "" /\ Blank \notin {edges[k].source, edges[k].target}
  <2> DEFINE N == [i \in DOMAIN doc.nodes |-> ReadNode(doc.nodes[i])]
             E == [k \in DOMAIN doc.edges |->
                     [class |-> EdgeClass(doc.edges[k]), source |-> IDOf(doc, doc.edges[k].source),
                      target |-> IDOf(doc, doc.edges[k].target)]]
  <2>1. nodes = N /\ edges = E
    BY DEF Read, Graph
  <2>2. R.ok <=> /\ \A i \in DOMAIN N : \A key \in Required \cup {"Class", "Type"} : Get(N[i].props, key) # Blank
                 /\ \A i, j \in DOMAIN N : N[i].id = N[j].id => i = j
                 /\ \A k \in DOMAIN E : E[k].class # "" /\ Blank \notin {E[k].source, E[k].target}
    BY Zenon DEF Read
  <2> HIDE DEF N, E, nodes, edges, R
  <2>3. QED
    BY <2>1, <2>2
<1>6. R.graph.id = Get(nodes[1].props, "GraphID")
  <2>1. [i \in DOMAIN doc.nodes |-> ReadNode(doc.nodes[i])] # << >>
    BY ElementNodes
  <2>2. QED
    BY <2>1 DEF Read, Graph
<1>7. \A k \in DOMAIN edges :
        /\ edges[k] = [class |-> edges[k].class, source |-> edges[k].source, target |-> edges[k].target]
        /\ edges[k].class \in EdgeClasses /\ {edges[k].source, edges[k].target} \subseteq IDs
  <2> TAKE k \in DOMAIN edges
  <2>1. k \in DOMAIN doc.edges
    BY <1>2
  <2> DEFINE x == edges[k]
  <2>2. /\ x = [class |-> doc.edges[k].label, source |-> IDOf(doc, doc.edges[k].source),
                target |-> IDOf(doc, doc.edges[k].target)]
        /\ x.class \in EdgeClasses /\ {x.source, x.target} \subseteq IDs
    BY <2>1, ReadsEdges, Zenon
  <2> HIDE DEF x
  <2>3. x = [class |-> x.class, source |-> x.source, target |-> x.target]
    BY <2>2
  <2>4. QED
    BY <2>2, <2>3 DEF x
<1> HIDE DEF R, nodes, edges
<1>8. \A i, j \in {1, 2} : nodes[i].id = nodes[j].id => i = j
  BY <1>4 DEF Node, IsDocument
<1>9. \A k \in DOMAIN edges : edges[k].class # "" /\ Blank \notin {edges[k].source, edges[k].target}
  <2>1. "" \notin EdgeClasses
    BY DEF EdgeClasses
  <2>2. Blank \notin IDs
    BY Values DEF Blank, IDs, OwnerID, ElementID
  <2>3. QED
    BY <1>7, <2>1, <2>2
<1>10. Required \cup {"Class", "Type"} = {"Name", "NodeID", "GraphID", "Class", "Type"}
  BY DEF Required
<1>11. R.ok <=> \A i \in {1, 2} : doc.nodes[i].data["Name"] # None
  <2>1. \A i \in {1, 2} : nodes[i].props = NodeProps(doc.nodes[i].data)
    BY <1>4 DEF Node
  <2>2. ASSUME NEW i \in {1, 2}, doc.nodes[i].data["Name"] = None PROVE ~R.ok
    <3>1. Get(nodes[i].props, "Name") = Blank
      BY <1>1, <2>1, <2>2, LoadedBag
    <3>2. QED
      BY <1>2, <1>5, <1>10, <3>1
  <2>3. ASSUME \A i \in {1, 2} : doc.nodes[i].data["Name"] # None PROVE R.ok
    <3>1. \A i \in {1, 2} : \A key \in Required \cup {"Class", "Type"} : Get(nodes[i].props, key) # Blank
      <4> TAKE i \in {1, 2}
      <4>1. IsBag(nodes[i].props, doc.nodes[i].data["NodeID"])
        BY <1>1, <2>1, <2>3, LoadedBag
      <4>2. QED
        BY <1>10, <4>1, BagValues DEF Get
    <3>2. QED
      BY <1>2, <1>5, <1>8, <1>9, <3>1
  <2>4. QED
    BY <2>2, <2>3
<1>12. ASSUME R.ok PROVE IsGraph(R.graph)
  <2>1. \A i \in {1, 2} : IsNode(nodes[i])
    <3> TAKE i \in {1, 2}
    <3>1. IsBag(NodeProps(doc.nodes[i].data), doc.nodes[i].data["NodeID"])
      BY <1>1, <1>11, <1>12, LoadedBag
    <3>2. NodeProps(doc.nodes[i].data)["Class"] = doc.nodes[i].data["Class"]
      BY <1>1, LoadedBag
    <3>3. QED
      BY <1>4, <3>1, <3>2 DEF IsNode, Node
  <2>2. R.graph.id = Text("graph")
    BY <1>6, <2>1 DEF IsNode, IsBag, Get, Required
  <2>3. edges = [k \in DOMAIN edges |-> edges[k]]
    BY <1>2
  <2>4. nodes[1].id # nodes[2].id
    BY <1>8
  <2>5. R.graph.nodes = nodes /\ R.graph.edges = edges
    BY DEF nodes, edges
  <2>6. QED
    BY <1>2, <1>3, <1>7, <2>1, <2>2, <2>3, <2>4, <2>5 DEF IsGraph
<1>13. ASSUME R.ok PROVE ElementOf(R.graph).props = Loaded(doc)
  <2>1. PICK i \in {1, 2} : doc.nodes[i].data["NodeID"] = ElementID
    BY ElementNodes DEF IDs
  <2>2. nodes[i].id = ElementID /\ nodes[i].props = NodeProps(doc.nodes[i].data)
    BY <1>4, <2>1 DEF Node
  <2>3. ElementNode(doc) = i
    BY <2>1, ElementNodes
  <2>4. ElementOf(R.graph) = R.graph.nodes[i]
    <3>1. IsGraph(R.graph) /\ R.graph.nodes = nodes
      BY <1>12, <1>13 DEF nodes
    <3>2. Position(R.graph.nodes, R.graph.nodes[i].id) = i
      BY <3>1, Positions
    <3>3. QED
      BY <2>2, <3>1, <3>2 DEF ElementOf
  <2>5. R.graph.nodes = nodes
    BY DEF nodes
  <2>6. QED
    BY <2>2, <2>3, <2>4, <2>5 DEF Loaded, ElementData
<1>14. QED
  BY <1>11, <1>12, <1>13 DEF R

-----------------------------------------------------------------------------
(* What becomes of statements and of the program's own properties.         *)

\* Labels that were read: none, or those a Go struct has.
LEMMA DecodedLabels ==
  ASSUME NEW v
  PROVE  /\ IsJSON(Decoded("Labels", v)) =>
              Decoded("Labels", v) = JSON(Decoded("Labels", v)[2]) /\ "unknown" \notin Decoded("Labels", v)[2]
         /\ v \in Unset => Decoded("Labels", v) = Blank
         /\ ~Malformed("Labels", v) => v \in Unset \/ IsJSON(Decoded("Labels", v))
         /\ \A x : Decoded("Labels", JSON(x)) = JSON(x \ {"unknown"}) /\ ~Malformed("Labels", JSON(x))
<1>1. "Labels" \in Structs /\ "Labels" \in JSONPropertyNames /\ "Labels" # "StitchNode"
  BY Tables
<1>2. CASE IsJSON(v)
  <2>1. Decoded("Labels", v) = JSON(v[2] \ {"unknown"})
    BY <1>1, <1>2 DEF Decoded
  <2>2. v \notin Unset
    BY <1>2, Values DEF Unset, Blank, None
  <2>3. \A x : Decoded("Labels", JSON(x)) = JSON(x \ {"unknown"}) /\ ~Malformed("Labels", JSON(x))
    BY <1>1, Values DEF Decoded, Malformed
  <2>4. QED
    BY <2>1, <2>2, <2>3, Values
<1>3. CASE ~IsJSON(v)
  <2>1. Decoded("Labels", v) = IF v = None THEN Blank ELSE v
    BY <1>1, <1>3 DEF Decoded
  <2>2. ~IsJSON(Decoded("Labels", v))
    BY <1>3, <2>1, Values DEF Blank
  <2>3. \A x : Decoded("Labels", JSON(x)) = JSON(x \ {"unknown"}) /\ ~Malformed("Labels", JSON(x))
    BY <1>1, Values DEF Decoded, Malformed
  <2>4. QED
    BY <1>1, <1>3, <2>1, <2>2, <2>3 DEF Malformed, Unset
<1>4. QED
  BY <1>2, <1>3

\* Writing and reading drops what says nothing: no statement is lost by that.
LEMMA TrimKeeps ==
  ASSUME NEW key, NEW v, NEW w, Kept(key, v, w), NEW x, x = IF w \in Unset THEN Blank ELSE w
  PROVE  /\ Kept(key, v, x)
         /\ Malformed(key, x) => Malformed(key, w)
         /\ IsOwn(key, w) => IsOwn(key, x)
<1>1. CASE w \notin Unset
  BY <1>1
<1>2. CASE w \in Unset
  <2>1. x = Blank /\ x \in Unset
    BY <1>2 DEF Unset
  <2>2. Kept(key, v, x)
    <3>1. CASE key = "Labels"
      BY <1>2, <2>1, <3>1, DecodedLabels DEF Kept
    <3>2. CASE key # "Labels"
      <4>1. w \in {v, Decoded(key, v)} => v \in Unset
        <5>1. Text("true") \notin Unset /\ Text("false") \notin Unset
          BY Values DEF Unset, Blank, None
        <5>2. QED
          BY <1>2, <5>1, DecodedUnset
      <4>2. QED
        BY <2>1, <3>2, <4>1 DEF Kept
    <3>3. QED
      BY <3>1, <3>2
  <2>3. QED
    BY <1>2, <2>1, <2>2 DEF Malformed, IsOwn
<1>3. QED
  BY <1>1, <1>2

\* A document that is written says what the graph it was written from said.
LEMMA WritingKeeps ==
  ASSUME NEW said, NEW props, StatementsIn(said, props), OwnIn(said, props)
  PROVE  StatementsIn(said, NodeProps(Data(props))) /\ OwnIn(said, NodeProps(Data(props)))
<1> DEFINE r == NodeProps(Data(props))
<1>1. \A key : key # "labels" => Get(r, key) = IF Get(props, key) \in Unset THEN Blank ELSE Get(props, key)
  BY ReloadedProps
<1>2. DOMAIN r \subseteq DOMAIN props \ {"labels"}
  <2>1. r = Restrict(props, {key \in DOMAIN props \ {"labels"} : props[key] \notin Unset})
    BY ReloadedProps
  <2> HIDE DEF r
  <2>2. DOMAIN r = {key \in DOMAIN props \ {"labels"} : props[key] \notin Unset}
    BY <2>1 DEF Restrict
  <2>3. QED
    BY <2>2
<1> HIDE DEF r
<1>3. StatementsIn(said, r)
  BY <1>1, TrimKeeps DEF StatementsIn
<1>4. OwnIn(said, r)
  <2> SUFFICES ASSUME NEW key \in (DOMAIN r \cup {"StitchNode"}) \ DOMAIN said
               PROVE  IsOwn(key, Get(r, key))
    BY DEF OwnIn
  <2>1. IsOwn(key, Get(props, key)) /\ key # "labels"
    BY <1>2 DEF OwnIn
  <2>2. Kept(key, Get(props, key), Get(props, key))
    BY DEF Kept, KeptLabels
  <2>3. QED
    BY <1>1, <2>1, <2>2, TrimKeeps
<1>5. QED
  BY <1>3, <1>4 DEF r

\* What has just been stated is there, and nothing else has changed.
LEMMA StatingKeeps ==
  ASSUME NEW said, NEW data, NEW key, NEW v,
         StatementsIn(said, NodeProps(data)), OwnIn(said, NodeProps(data))
  PROVE  /\ StatementsIn(Put(said, key, v), NodeProps(Put(data, key, v)))
         /\ OwnIn(Put(said, key, v), NodeProps(Put(data, key, v)))
         /\ \A k : k # key => Get(NodeProps(Put(data, key, v)), k) = Get(NodeProps(data), k)
         /\ key # "labels" /\ v # None => Get(NodeProps(Put(data, key, v)), key) = v
<1> DEFINE put == Put(data, key, v)
           p == NodeProps(data)
           q == NodeProps(put)
           says == Put(said, key, v)
<1>1. /\ DOMAIN put = DOMAIN data \cup {key} /\ put[key] = v
      /\ \A k \in DOMAIN data \ {key} : put[k] = data[k]
  BY DEF Put
<1>2. /\ DOMAIN says = DOMAIN said \cup {key} /\ says[key] = v
      /\ \A k \in DOMAIN said \ {key} : says[k] = said[k]
  BY DEF Put
<1> HIDE DEF put, says
<1>3. /\ DOMAIN q = {k \in DOMAIN put \ {"labels"} : put[k] # None}
      /\ \A k \in DOMAIN q : q[k] = put[k]
  BY LoadedProps
<1>4. /\ DOMAIN p = {k \in DOMAIN data \ {"labels"} : data[k] # None}
      /\ \A k \in DOMAIN p : p[k] = data[k]
  BY LoadedProps
<1> HIDE DEF p, q
<1>5. \A k : k # key => (k \in DOMAIN q <=> k \in DOMAIN p) /\ Get(q, k) = Get(p, k)
  BY <1>1, <1>3, <1>4 DEF Get
<1>6. key # "labels" => Get(q, key) = IF v = None THEN Blank ELSE v
  BY <1>1, <1>3 DEF Get
<1>7. key # "labels" => Kept(key, v, Get(q, key)) /\ (Malformed(key, Get(q, key)) => Malformed(key, v))
  <2>1. CASE v # None
    BY <1>6, <2>1 DEF Kept, KeptLabels
  <2>2. CASE v = None
    <3>1. v \in Unset /\ Blank \in Unset
      BY <2>2 DEF Unset
    <3>2. QED
      BY <1>6, <2>2, <3>1, DecodedLabels DEF Kept, KeptLabels, Malformed, Nothing
  <2>3. QED
    BY <2>1, <2>2
<1>8. StatementsIn(says, q)
  <2> SUFFICES ASSUME NEW k \in DOMAIN says \ {"labels"}
               PROVE  /\ Kept(k, says[k], Get(q, k))
                      /\ Malformed(k, Get(q, k)) => Malformed(k, says[k])
    BY DEF StatementsIn
  <2>1. CASE k = key
    BY <1>2, <1>7, <2>1
  <2>2. CASE k # key
    <3>1. k \in DOMAIN said \ {"labels"} /\ says[k] = said[k] /\ Get(q, k) = Get(p, k)
      BY <1>2, <1>5, <2>2
    <3>2. QED
      BY <3>1 DEF StatementsIn, p
  <2>3. QED
    BY <2>1, <2>2
<1>9. OwnIn(says, q)
  <2> SUFFICES ASSUME NEW k \in (DOMAIN q \cup {"StitchNode"}) \ DOMAIN says
               PROVE  IsOwn(k, Get(q, k))
    BY DEF OwnIn
  <2>1. k # key /\ k \in (DOMAIN p \cup {"StitchNode"}) \ DOMAIN said /\ Get(q, k) = Get(p, k)
    BY <1>2, <1>5
  <2>2. QED
    BY <2>1 DEF OwnIn, p
<1>10. QED
  BY <1>5, <1>6, <1>8, <1>9 DEF p, q, put, says

\* A property that is read and written again says what it said, if its field
\* can hold that.
LEMMA RereadingKeeps ==
  ASSUME NEW key, key # "Labels", NEW v, NEW w, Kept(key, v, w), NEW x,
         x = Decoded(key, w) \/ (x = Blank /\ Decoded(key, w) \in {None, JSON({})})
  PROVE  Kept(key, v, x)
<1>1. /\ w \in {v, Decoded(key, v)} \/ (w \in Unset /\ (v \in Unset \/ Decoded(key, v) = JSON({})))
      /\ Kept(key, v, x) <=>
           x \in {v, Decoded(key, v)} \/ (x \in Unset /\ (v \in Unset \/ Decoded(key, v) = JSON({})))
  BY DEF Kept
<1>2. Decoded(key, Decoded(key, v)) = Decoded(key, v)
  BY DecodedTwice
<1>3. JSON({}) \notin Unset \cup {Text("true"), Text("false")} /\ Text("true") \notin Unset
  BY Values DEF Unset, Blank, None
<1>4. CASE x = Decoded(key, w)
  <2>1. CASE w \in {v, Decoded(key, v)}
    BY <1>1, <1>2, <1>4, <2>1
  <2>2. CASE w \in Unset /\ key # "StitchNode" /\ (v \in Unset \/ Decoded(key, v) = JSON({}))
    BY <1>1, <1>4, <2>2, DecodedUnset
  <2>3. CASE w \in Unset /\ key = "StitchNode" /\ (v \in Unset \/ Decoded(key, v) = JSON({}))
    <3>1. v \in Unset
      BY <1>3, <2>3, DecodedUnset
    <3>2. Decoded(key, v) = Text("false") /\ Decoded(key, w) = Text("false")
      BY <1>3, <2>3, <3>1 DEF Decoded
    <3>3. QED
      BY <1>1, <1>4, <3>2
  <2>4. QED
    BY <1>1, <2>1, <2>2, <2>3
<1>5. CASE x = Blank /\ Decoded(key, w) = None
  <2>1. w = None /\ x \in Unset /\ w \in Unset
    BY <1>5, DecodedUnset DEF Unset
  <2>2. w \in {v, Decoded(key, v)} => v \in Unset
    BY <2>1, DecodedUnset
  <2>3. QED
    BY <1>1, <2>1, <2>2
<1>6. CASE x = Blank /\ Decoded(key, w) = JSON({})
  <2>1. w \notin Unset /\ x \in Unset
    BY <1>3, <1>6, DecodedUnset DEF Unset
  <2>2. Decoded(key, v) = JSON({})
    BY <1>1, <1>2, <1>6, <2>1
  <2>3. QED
    BY <1>1, <2>1, <2>2
<1>7. QED
  BY <1>4, <1>5, <1>6

\* Labels that are set are added to those that were stated.
LEMMA LabellingKeeps ==
  ASSUME NEW v, NEW w, KeptLabels(Decoded("Labels", v), Decoded("Labels", w)), ~Malformed("Labels", w),
         NEW labels, labels = IF Decoded("Labels", w) # Blank THEN Decoded("Labels", w)[2] ELSE {},
         NEW new
  PROVE  KeptLabels(Decoded("Labels", v), Decoded("Labels", JSON(MergeLabels(labels, new))))
<1> DEFINE said == Decoded("Labels", v)
           had  == Decoded("Labels", w)
           have == Decoded("Labels", JSON(labels \cup new))
<1>1. have = JSON((labels \cup new) \ {"unknown"})
  BY DecodedLabels
<1>2. IsJSON(have) /\ have[2] = (labels \cup new) \ {"unknown"}
  BY <1>1, Values
<1>3. IsJSON(said) => "unknown" \notin said[2]
  BY DecodedLabels
<1>4. had \in Unset \/ IsJSON(had)
  BY DecodedLabels DEF Unset
<1>5. IsJSON(had) => labels = had[2]
  BY Values DEF Blank
<1>6. said \in Nothing \cup {had} \/ (IsJSON(said) /\ IsJSON(had) /\ said[2] \subseteq had[2])
  BY DEF KeptLabels
<1> HIDE DEF said, had, have
<1>7. said \in Nothing \/ (IsJSON(said) /\ IsJSON(had) /\ said[2] \subseteq had[2])
  BY <1>4, <1>6 DEF Nothing
<1>8. KeptLabels(said, have)
  BY <1>2, <1>3, <1>5, <1>7 DEF KeptLabels
<1>9. QED
  BY <1>8 DEF said, have, MergeLabels

-----------------------------------------------------------------------------
(* What SetLabels writes back of an interface.                             *)

Port == "ConnectionPoint"

Relabelled(props, labels) == ToProps(Port, Put(FromProps(Port, props).sliver, "Labels", JSON(labels))).props

\* The fields that are set in the sliver of an interface.
LEMMA SliverFields ==
  ASSUME NEW props
  PROVE  LET s == FromProps(Port, props).sliver
         IN  /\ \A key \in DOMAIN s : key \in Reads[Port] \/ key \notin KnownProps
             /\ \A key \in Reads[Port] \cap (DOMAIN props \cup {"StitchNode"}) :
                  key \in DOMAIN s <=> Decoded(key, Get(props, key)) # Blank
             /\ \A key \in Reads[Port] \ (DOMAIN props \cup {"StitchNode"}) : key \notin DOMAIN s
             /\ \A key : key \notin KnownProps => (key \in DOMAIN s <=> Get(props, key) \notin Unset)
             /\ \A key \in DOMAIN s : s[key] = Decoded(key, Get(props, key))
<1> DEFINE s    == FromProps(Port, props).sliver
           keys == Reads[Port] \cap (DOMAIN props \cup {"StitchNode"})
           set  == {key \in keys : Decoded(key, Get(props, key)) # Blank} \cup Opaque(props)
<1>1. s = [key \in set |-> Decoded(key, Get(props, key))]
  BY DEF FromProps
<1>2. Opaque(props) = {key \in DOMAIN props : key \notin KnownProps /\ props[key] \notin Unset}
  BY DEF Opaque
<1>3. Reads[Port] \subseteq KnownProps
  BY Tables DEF Port, Classes
<1>4. Blank \in Unset
  BY DEF Unset
<1>5. \A key : key \notin KnownProps => (key \in set <=> Get(props, key) \notin Unset)
  BY <1>2, <1>3, <1>4 DEF Get
<1>6. \A key \in set : key \in Reads[Port] \/ key \notin KnownProps
  BY <1>2
<1>7. \A key \in keys : key \in set <=> Decoded(key, Get(props, key)) # Blank
  BY <1>2, <1>3
<1>8. \A key \in Reads[Port] \ (DOMAIN props \cup {"StitchNode"}) : key \notin set
  BY <1>2, <1>3
<1> HIDE DEF set, s
<1>9. DOMAIN s = set /\ \A key \in DOMAIN s : s[key] = Decoded(key, Get(props, key))
  BY <1>1
<1>10. QED
  BY <1>5, <1>6, <1>7, <1>8, <1>9 DEF s

\* What is written for an interface: labels, its class, and what was read of
\* the properties that interfaces have and of those that nobody knows.
LEMMA RelabelledProps ==
  ASSUME NEW props, NEW labels, labels # {}
  PROVE  LET r == Relabelled(props, labels)
         IN  /\ r = [key \in DOMAIN r |-> r[key]]
             /\ DOMAIN r \cap Foreign[Port] = {}
             /\ {"Class", "Type", "Labels", "StitchNode"} \subseteq DOMAIN r
             /\ r["Class"] = Text(Port) /\ r["Labels"] = JSON(labels)
             /\ \A key : key \notin {"Class", "Labels"} \cup Foreign[Port] =>
                  LET read == Decoded(key, Get(props, key))
                  IN  Get(r, key) = read \/ (Get(r, key) = Blank /\ read \in {None, JSON({})})
             /\ \A key \in Required : Decoded(key, Get(props, key)) # Blank =>
                  key \in DOMAIN r /\ r[key] = Decoded(key, Get(props, key))
<1> DEFINE f       == FromProps(Port, props).sliver
           s       == Put(f, "Labels", JSON(labels))
           written == {key \in DOMAIN s : Written(Port, key, s[key])}
           always  == {"Class", "Type", "StitchNode"}
           r       == Relabelled(props, labels)
<1>1. r = [key \in written \cup always |->
             CASE key = "Class"                             -> Text(Port)
               [] key = "StitchNode" /\ key \notin DOMAIN s -> Text("false")
               [] key = "Type" /\ key \notin DOMAIN s       -> Blank
               [] OTHER                                     -> s[key]]
  BY DEF Relabelled, ToProps
<1>2. /\ DOMAIN s = DOMAIN f \cup {"Labels"} /\ s["Labels"] = JSON(labels)
      /\ \A key \in DOMAIN f \ {"Labels"} : s[key] = f[key]
  BY DEF Put
<1> HIDE DEF r, s, f
<1>3. DOMAIN r = written \cup always
  BY <1>1
<1>4. /\ r["Class"] = Text(Port)
      /\ "Type" \notin DOMAIN s => r["Type"] = Blank
      /\ \A key \in DOMAIN r : key # "Class" /\ key \in DOMAIN s => r[key] = s[key]
  BY <1>1
<1>5. Reads[Port] \subseteq KnownProps \ {"Class", "labels"}
      /\ Required \cup {"Type", "StitchNode", "Labels"} \subseteq Reads[Port]
      /\ {"Class", "StitchNode", "ImageRef"} \cup Structs \cup Lists \subseteq KnownProps
  BY Tables DEF Port, Classes, JSONPropertyNames
<1>6. Foreign[Port] = KnownProps \ (Reads[Port] \cup {"Class"})
  BY DEF Foreign, Port, Classes
<1>7. \A key \in DOMAIN s : key \in Reads[Port] \/ key \notin KnownProps
  BY <1>2, <1>5, SliverFields DEF f
<1>8. "Labels" \in written
  <2>1. JSON(labels) # JSON({})
    BY Values
  <2>2. "Labels" \in Structs
    BY Tables
  <2>3. QED
    BY <1>2, <2>1, <2>2 DEF Written, SaysNothing
<1>9. DOMAIN r \cap Foreign[Port] = {}
  BY <1>3, <1>5, <1>6, <1>7
<1>10. r = [key \in DOMAIN r |-> r[key]]
  <2>1. DOMAIN r = written \cup always
    BY <1>3
  <2>2. QED
    BY <1>1
<1>11. "StitchNode" \in DOMAIN f
  <2>1. Decoded("StitchNode", Get(props, "StitchNode")) # Blank
    BY DecodedUnset, Values DEF Blank
  <2>2. QED
    BY <1>5, <2>1, SliverFields DEF f
<1>12. "ImageRef" \notin Reads[Port]
  BY DEF Reads, Port, Classes, BaseReads, Required
<1>13. ASSUME NEW key, key \notin {"Class", "Labels"} \cup Foreign[Port]
       PROVE  LET read == Decoded(key, Get(props, key))
              IN  /\ Get(r, key) = read \/ (Get(r, key) = Blank /\ read \in {None, JSON({})})
                  /\ key \in Required /\ read # Blank => key \in DOMAIN r /\ r[key] = read
  <2> DEFINE read == Decoded(key, Get(props, key))
  <2>1. key \in Reads[Port] \/ key \notin KnownProps
    BY <1>6, <1>13
  <2>2. key # "ImageRef"
    BY <1>5, <1>12, <2>1
  <2>3. CASE key \in DOMAIN f
    <3>1. key \in DOMAIN s /\ s[key] = read
      BY <1>2, <1>13, <2>3, SliverFields DEF f
    <3>2. CASE Written(Port, key, read)
      <4>1. key \in DOMAIN r /\ r[key] = read
        BY <1>3, <1>4, <1>13, <3>1, <3>2
      <4>2. QED
        BY <4>1 DEF Get
    <3>3. CASE ~Written(Port, key, read)
      <4>1. key \notin AlwaysWritten /\ read = SaysNothing(key)
        BY <3>3 DEF Written
      <4>2. key \notin DOMAIN r
        BY <1>3, <1>13, <3>1, <3>3, <4>1 DEF AlwaysWritten
      <4>3. read \in {None, JSON({})}
        BY <2>2, <4>1 DEF SaysNothing
      <4>4. QED
        BY <4>1, <4>2, <4>3 DEF Get, AlwaysWritten
    <3>4. QED
      BY <3>2, <3>3
  <2>4. CASE key \notin DOMAIN f
    <3>1. key \notin DOMAIN s
      BY <1>2, <1>13, <2>4
    <3>2. Get(r, key) = Blank
      <4>1. CASE key = "Type"
        BY <1>3, <1>4, <3>1, <4>1 DEF Get
      <4>2. CASE key # "Type"
        BY <1>3, <1>11, <1>13, <2>4, <3>1, <4>2 DEF Get
      <4>3. QED
        BY <4>1, <4>2
    <3>3. read \in {Blank, None}
      <4>1. CASE key \notin KnownProps
        <5>1. Get(props, key) \in Unset
          BY <2>4, <4>1, SliverFields DEF f
        <5>2. read = Get(props, key)
          <6>1. key \notin Structs \cup JSONPropertyNames \cup {"ImageRef", "StitchNode"}
            BY <4>1, Tables
          <6>2. QED
            BY <6>1, DecodedPlain
        <5>3. QED
          BY <5>1, <5>2 DEF Unset
      <4>2. CASE key \in Reads[Port] \cap (DOMAIN props \cup {"StitchNode"})
        BY <2>4, <4>2, SliverFields DEF f
      <4>3. CASE key \in Reads[Port] \ (DOMAIN props \cup {"StitchNode"})
        <5>1. Get(props, key) = Blank /\ key # "StitchNode"
          BY <4>3 DEF Get
        <5>2. read \in Unset
          BY <5>1, DecodedUnset DEF Unset
        <5>3. QED
          BY <5>2 DEF Unset
      <4>4. QED
        BY <2>1, <4>1, <4>2, <4>3
    <3>4. key \in Required => read = Blank
      <4>1. ASSUME key \in Required PROVE read = Blank
        <5>1. key \in Reads[Port] /\ key # "StitchNode"
          BY <1>5, <4>1 DEF Required
        <5>2. CASE key \in DOMAIN props
          BY <2>4, <5>1, <5>2, SliverFields DEF f
        <5>3. CASE key \notin DOMAIN props
          <6>1. read = Get(props, key)
            BY <4>1, Tables, DecodedPlain DEF Required
          <6>2. QED
            BY <5>3, <6>1 DEF Get
        <5>4. QED
          BY <5>2, <5>3
      <4>2. QED
        BY <4>1
    <3>5. QED
      BY <3>2, <3>3, <3>4
  <2>5. QED
    BY <2>3, <2>4
<1>14. r["Labels"] = JSON(labels) /\ {"Class", "Type", "Labels", "StitchNode"} \subseteq DOMAIN r
  BY <1>2, <1>3, <1>4, <1>8
<1>15. \A key \in Required : key \notin {"Class", "Labels"} \cup Foreign[Port]
  BY <1>5, <1>6 DEF Required
<1>16. QED
  BY <1>4, <1>9, <1>10, <1>13, <1>14, <1>15 DEF r

-----------------------------------------------------------------------------
(* The invariant holds at first, and every step keeps it.                  *)

\* What is written for a new element states what every node states, and the
\* program reads it as it was set.
LEMMA NewElement ==
  ASSUME NEW class \in Classes, NEW name, name # "", NEW id \in IDs, id = OwnerID => name = "owner",
         NEW o, DOMAIN o \subseteq Reads[class] \ (Required \cup {"Type"}),
         \A key \in DOMAIN o : Decoded(key, o[key]) = o[key] /\ ~Malformed(key, o[key])
  PROVE  LET p == ToProps(class, Sliver(name, id, o)).props
         IN  IsBag(p, id) /\ p["Class"] = Text(class) /\ OwnIn(NothingStated, p)
<1> DEFINE s       == Sliver(name, id, o)
           written == {key \in DOMAIN s : Written(class, key, s[key])}
           always  == {"Class", "Type", "StitchNode"}
           p       == ToProps(class, s).props
<1>1. p = [key \in written \cup always |->
             CASE key = "Class"                             -> Text(class)
               [] key = "StitchNode" /\ key \notin DOMAIN s -> Text("false")
               [] key = "Type" /\ key \notin DOMAIN s       -> Blank
               [] OTHER                                     -> s[key]]
  BY DEF ToProps
<1>2. /\ DOMAIN s = DOMAIN o \cup Required \cup {"Type"}
      /\ s["Name"] = Text(name) /\ s["NodeID"] = id /\ s["GraphID"] = Text("graph") /\ s["Type"] = Text("type")
      /\ \A key \in DOMAIN o : s[key] = o[key]
  BY DEF Sliver, Required
<1> HIDE DEF s, p
<1>3. "Class" \notin DOMAIN s /\ "StitchNode" \notin Required \cup {"Type"}
  BY <1>2, Tables DEF Required
<1>4. DOMAIN p = written \cup always
  BY <1>1
<1>5. p = [key \in DOMAIN p |-> p[key]]
  <2>1. DOMAIN p = written \cup always
    BY <1>4
  <2>2. QED
    BY <1>1
<1>6. /\ p["Class"] = Text(class)
      /\ "StitchNode" \notin DOMAIN s => p["StitchNode"] = Text("false")
      /\ \A key \in DOMAIN p \cap DOMAIN s : p[key] = s[key]
  BY <1>1, <1>3
<1>7. Required \cup {"Class", "Type"} \subseteq DOMAIN p
  BY <1>2, <1>4 DEF Written, AlwaysWritten
<1>8. /\ p["Name"] = Text(name) /\ p["NodeID"] = id /\ p["GraphID"] = Text("graph") /\ p["Type"] = Text("type")
  BY <1>2, <1>6, <1>7 DEF Required
<1>9. IsBag(p, id)
  <2>1. Text(name) # Blank
    BY Values DEF Blank
  <2>2. QED
    BY <1>5, <1>6, <1>7, <1>8, <2>1 DEF IsBag
<1>10. OwnIn(NothingStated, p)
  <2> SUFFICES ASSUME NEW key \in DOMAIN p \cup {"StitchNode"}
               PROVE  IsOwn(key, Get(p, key))
    BY DEF OwnIn, NothingStated
  <2>1. key \in DOMAIN p /\ Get(p, key) = p[key]
    BY <1>4 DEF Get
  <2>2. Text("true") \notin Unset /\ Text("false") \notin Unset
    BY Values DEF Unset, Blank, None
  <2>3. CASE key \in DOMAIN o
    <3>1. p[key] = o[key]
      BY <1>2, <1>6, <2>1, <2>3
    <3>2. key = "StitchNode" => p[key] \in {Text("true"), Text("false")}
      BY <2>3, <3>1, DecodedUnset
    <3>3. QED
      BY <2>1, <2>2, <2>3, <3>1, <3>2 DEF IsOwn
  <2>4. CASE key = "StitchNode" /\ key \notin DOMAIN o
    <3>1. p[key] = Text("false")
      BY <1>2, <1>3, <1>6, <2>4
    <3>2. Decoded(key, p[key]) = p[key]
      BY <2>4, <3>1 DEF Decoded
    <3>3. QED
      BY <2>1, <2>2, <2>4, <3>1, <3>2, Tables DEF IsOwn, Malformed
  <2>5. CASE key \notin DOMAIN o /\ key # "StitchNode"
    <3>1. key \in Required \cup {"Class", "Type"}
      BY <1>2, <1>4, <2>1, <2>5
    <3>2. key \notin Structs \cup JSONPropertyNames \cup {"ImageRef", "StitchNode"}
      BY <2>5, <3>1, Tables DEF Required
    <3>3. QED
      BY <2>1, <2>5, <3>2, DecodedPlain DEF IsOwn, Malformed
  <2>6. QED
    BY <2>3, <2>4, <2>5
<1>11. QED
  BY <1>6, <1>9, <1>10 DEF p, s

\* What is built is a graph.
LEMMA BuildsGraph ==
  ASSUME NEW class \in Classes, NEW name \in Names, NEW o \in Options[class]
  PROVE  LET G == Built(class, name, o)
         IN  IsGraph(G) /\ OwnIn(NothingStated, ElementOf(G).props)
<1> DEFINE none  == [key \in {} |-> Blank]
           owner == ToProps(OwnerClass[class], Sliver("owner", OwnerID, none)).props
           own   == ToProps(class, Sliver(name, ElementID, o)).props
           G     == Built(class, name, o)
<1>1. OwnerClass[class] \in Classes
  BY DEF OwnerClass, Classes
<1>2. OwnerID \in IDs /\ ElementID \in IDs /\ OwnerID # ElementID
  BY Values DEF IDs, OwnerID, ElementID
<1>3. IsBag(owner, OwnerID) /\ owner["Class"] = Text(OwnerClass[class])
  BY <1>1, <1>2, NewElement
<1>4. IsBag(own, ElementID) /\ own["Class"] = Text(class) /\ OwnIn(NothingStated, own)
  <2>1. name # ""
    BY NamesAssumption
  <2>2. /\ DOMAIN o \subseteq Reads[class] \ (Required \cup {"Type"})
        /\ \A key \in DOMAIN o : Decoded(key, o[key]) = o[key] /\ ~Malformed(key, o[key])
    BY OptionsAssumption
  <2>3. QED
    BY <1>2, <2>1, <2>2, NewElement
<1>5. /\ G = Graph(Text("graph"), G.nodes, G.edges)
      /\ G.nodes = <<Node(OwnerClass[class], OwnerID, owner), Node(class, ElementID, own)>>
      /\ G.edges = IF class = "NetworkNode" THEN << >>
                   ELSE <<[class |-> EdgeOf(class), source |-> OwnerID, target |-> ElementID]>>
  BY DEF Built, Graph
<1> HIDE DEF G, owner, own
<1>6. IsNode(G.nodes[1]) /\ IsNode(G.nodes[2]) /\ G.nodes[1].id # G.nodes[2].id
  BY <1>1, <1>2, <1>3, <1>4, <1>5 DEF IsNode, Node
<1>7. G.nodes = <<G.nodes[1], G.nodes[2]>>
  BY <1>5
<1>8. /\ G.edges = [k \in DOMAIN G.edges |-> G.edges[k]]
      /\ \A k \in DOMAIN G.edges :
           LET e == G.edges[k]
           IN  /\ e = [class |-> e.class, source |-> e.source, target |-> e.target]
               /\ e.class \in EdgeClasses /\ {e.source, e.target} \subseteq IDs
  <2> DEFINE x == [class |-> EdgeOf(class), source |-> OwnerID, target |-> ElementID]
  <2>1. /\ x = [class |-> x.class, source |-> x.source, target |-> x.target]
        /\ x.class \in EdgeClasses /\ {x.source, x.target} \subseteq IDs
    BY <1>2 DEF EdgeOf, EdgeClasses
  <2> HIDE DEF x
  <2>2. CASE class = "NetworkNode"
    BY <1>5, <2>2
  <2>3. CASE class # "NetworkNode"
    <3>1. G.edges = <<x>>
      BY <1>5, <2>3 DEF x
    <3>2. QED
      BY <2>1, <3>1
  <2>4. QED
    BY <2>2, <2>3
<1>9. IsGraph(G)
  BY <1>5, <1>6, <1>7, <1>8 DEF IsGraph
<1>10. ElementOf(G).props = own
  <2>1. G.nodes[2].id = ElementID /\ G.nodes[2].props = own
    BY <1>5 DEF Node
  <2>2. Position(G.nodes, ElementID) = 2
    BY <1>9, <2>1, Positions
  <2>3. QED
    BY <2>1, <2>2 DEF ElementOf
<1>11. QED
  BY <1>4, <1>9, <1>10 DEF G

\* At first nothing is stated, and there is no document.
LEMMA InitIndInv == Init => IndInv
<1> SUFFICES ASSUME Init PROVE IndInv
  OBVIOUS
<1>1. PICK class \in Classes, name \in Names : \E o \in Options[class] : g = Built(class, name, o)
  BY DEF Init
<1>2. PICK o \in Options[class] : g = Built(class, name, o)
  BY <1>1
<1>3. IsGraph(g) /\ OwnIn(NothingStated, Element.props)
  BY <1>2, BuildsGraph DEF Element
<1>4. known = NothingStated /\ stated = NothingStated /\ document = NoDocument
  BY DEF Init
<1>5. SaidInv
  BY <1>4 DEF SaidInv, NothingStated
<1>6. GraphInv
  BY <1>3, <1>4 DEF GraphInv, StatementsIn, NothingStated
<1>7. QED
  BY <1>4, <1>5, <1>6 DEF IndInv, DocumentInv

\* A document that is submitted says what the graph has.
LEMMA SubmitKeeps == IndInv /\ Submit => IndInv'
<1> SUFFICES ASSUME IndInv, Submit PROVE IndInv'
  OBVIOUS
<1>1. /\ document' = Write(g) /\ stated' = known /\ g' = g /\ known' = known
  BY DEF Submit
<1>2. IsGraph(g) /\ StatementsIn(known, Element.props) /\ OwnIn(known, Element.props)
  BY DEF IndInv, GraphInv
<1>3. SaidInv' /\ GraphInv'
  <2>1. DOMAIN known \subseteq DOMAIN known \ {"labels"} /\ DOMAIN known \subseteq {s[1] : s \in Statements}
    BY DEF IndInv, SaidInv
  <2>2. Element' = Element
    BY <1>1 DEF Element
  <2>3. QED
    BY <1>1, <2>1, <2>2 DEF IndInv, SaidInv, GraphInv
<1>4. IsDocument(Write(g)) /\ Loaded(Write(g)) = NodeProps(Data(Element.props))
  BY <1>2, WritesDocument DEF Element
<1>5. /\ StatementsIn(stated', Loaded(document')) /\ OwnIn(stated', Loaded(document'))
  BY <1>1, <1>2, <1>4, WritingKeeps
<1>6. DriftInv'
  <2>1. \A key : Get(NodeProps(Data(Element.props)), key) =
          IF key = "labels" \/ Get(Element.props, key) \in Unset THEN Blank ELSE Get(Element.props, key)
    BY ReloadedProps
  <2>2. IgnoreDiffProp("labels")
    BY DEF IgnoreDiffProp, IgnoredDiffProps
  <2>3. Element' = Element /\ Loaded(document') = NodeProps(Data(Element.props))
    BY <1>1, <1>4 DEF Element
  <2>4. ASSUME NEW key \in DOMAIN Element.props, ~IgnoreDiffProp(key), Element.props[key] \notin Unset
        PROVE  Get(NodeProps(Data(Element.props)), key) = Element.props[key]
    BY <2>1, <2>2, <2>4 DEF Get
  <2>5. QED
    BY <2>3, <2>4 DEF DriftInv
<1>7. QED
  BY <1>1, <1>3, <1>4, <1>5, <1>6 DEF IndInv, DocumentInv

\* A document with other nodes.
LEMMA WithNodes ==
  ASSUME NEW doc, NEW ok, NEW nodes, NEW edges, NEW new, doc = [ok |-> ok, nodes |-> nodes, edges |-> edges]
  PROVE  [doc EXCEPT !.nodes = new] = [ok |-> ok, nodes |-> new, edges |-> edges]
OBVIOUS

\* What is stated is in the document, and drift where the program does not
\* know it.
LEMMA StateKeeps == IndInv /\ State => IndInv'
<1> SUFFICES ASSUME IndInv, State PROVE IndInv'
  OBVIOUS
<1>1. g' = g /\ known' = known /\ document.ok
  BY DEF State
<1> DEFINE i == ElementNode(document)
<1>2. PICK s \in Statements : /\ document' = [document EXCEPT !.nodes[i].data = Put(@, s[1], s[2])]
                              /\ stated' = Put(stated, s[1], s[2])
  BY DEF State, ElementNode
<1>3. /\ IsDocument(document) /\ StatementsIn(stated, Loaded(document)) /\ OwnIn(stated, Loaded(document))
      /\ DriftInv
  BY <1>1 DEF IndInv, DocumentInv, NoDocument
<1> DEFINE data == ElementData(document)
<1>4. s[1] \notin Required \cup {"Class", "Type"}
  BY StatementsAssumption
<1>5. /\ i \in {1, 2} /\ IsBag(data, ElementID) /\ data = document.nodes[i].data
      /\ DOMAIN document.nodes = {1, 2}
  BY <1>3, ElementNodes DEF ElementData
<1> DEFINE put == Put(data, s[1], s[2])
<1>6. IsBag(put, ElementID) /\ put["NodeID"] = ElementID
  <2>1. /\ put = [key \in DOMAIN put |-> put[key]]
        /\ DOMAIN put = DOMAIN data \cup {s[1]}
        /\ \A key \in DOMAIN data \ {s[1]} : put[key] = data[key]
    BY DEF Put
  <2> HIDE DEF put, data
  <2>2. \A key \in {"Name", "NodeID", "GraphID", "Class", "Type"} : key \in DOMAIN put /\ put[key] = data[key]
    BY <1>4, <1>5, <2>1, BagValues DEF Required
  <2>3. QED
    BY <1>5, <2>1, <2>2 DEF IsBag, Required
<1> HIDE DEF i, put
<1>7. /\ document' = [ok |-> TRUE, nodes |-> document'.nodes, edges |-> document.edges]
      /\ document'.nodes[i] = [xml |-> document.nodes[i].xml, data |-> put]
      /\ \A j \in {1, 2} \ {i} : document'.nodes[j] = document.nodes[j]
      /\ document'.nodes = [j \in {1, 2} |-> document'.nodes[j]]
  <2>1. document = [ok |-> TRUE, nodes |-> document.nodes, edges |-> document.edges]
    BY <1>3 DEF IsDocument
  <2>2. document.nodes[i] = [xml |-> document.nodes[i].xml, data |-> data]
    BY <1>3, <1>5 DEF IsDocument, IsXMLNode
  <2>3. document' = [document EXCEPT !.nodes[i].data = put]
    <3>1. Put(document.nodes[i].data, s[1], s[2]) = put
      BY <1>5 DEF put
    <3>2. QED
      BY <1>2, <3>1
  <2> HIDE DEF data
  <2>4. /\ document'.nodes = [document.nodes EXCEPT ![i].data = put]
        /\ document' = [ok |-> TRUE, nodes |-> document'.nodes, edges |-> document.edges]
    <3> DEFINE new == [document.nodes EXCEPT ![i].data = put]
    <3>1. document' = [document EXCEPT !.nodes = new]
      BY <2>3, Zenon
    <3> HIDE DEF new
    <3>2. [document EXCEPT !.nodes = new] = [ok |-> TRUE, nodes |-> new, edges |-> document.edges]
      <4> DEFINE ok    == TRUE
                 nodes == document.nodes
                 edges == document.edges
      <4>1. document = [ok |-> ok, nodes |-> nodes, edges |-> edges]
        BY <2>1
      <4> HIDE DEF ok, nodes, edges
      <4>2. [document EXCEPT !.nodes = new] = [ok |-> ok, nodes |-> new, edges |-> edges]
        BY <4>1, WithNodes
      <4>3. QED
        BY <4>2, Zenon DEF ok, edges
    <3>3. document' = [ok |-> TRUE, nodes |-> new, edges |-> document.edges]
      BY <3>1, <3>2, Zenon
    <3>4. document'.nodes = new
      BY <3>3
    <3>5. QED
      BY <3>3, <3>4, Zenon DEF new
  <2>5. QED
    BY <1>5, <2>2, <2>4
<1>8. IsDocument(document')
  <2>1. document'.nodes = <<document'.nodes[1], document'.nodes[2]>>
    BY <1>7, Pairs
  <2>2. \A j \in {1, 2} : /\ document'.nodes[j].xml = document.nodes[j].xml
                          /\ document'.nodes[j].data["NodeID"] = document.nodes[j].data["NodeID"]
    BY <1>5, <1>6, <1>7 DEF IsBag
  <2>3. \A j \in {1, 2} : IsXMLNode(document'.nodes[j])
    <3> TAKE j \in {1, 2}
    <3>1. IsXMLNode(document.nodes[j])
      BY <1>3 DEF IsDocument
    <3>2. QED
      BY <1>6, <1>7, <3>1 DEF IsXMLNode
  <2>4. document'.edges = document.edges
    BY <1>7
  <2>5. IsXMLNode(document'.nodes[1]) /\ IsXMLNode(document'.nodes[2])
    BY <2>3
  <2>6. /\ document'.nodes[1].xml # document'.nodes[2].xml
        /\ document'.nodes[1].data["NodeID"] # document'.nodes[2].data["NodeID"]
    BY <1>3, <2>2 DEF IsDocument
  <2>7. QED
    BY <1>3, <1>7, <2>1, <2>4, <2>5, <2>6 DEF IsDocument
<1>9. Loaded(document') = NodeProps(put)
  <2>1. ElementNode(document') = i
    BY <1>5, <1>6, <1>7, <1>8, ElementNodes
  <2>2. QED
    BY <1>7, <2>1 DEF Loaded, ElementData
<1>10. /\ StatementsIn(stated', NodeProps(put)) /\ OwnIn(stated', NodeProps(put))
       /\ \A key : key # s[1] => Get(NodeProps(put), key) = Get(Loaded(document), key)
       /\ s[1] # "labels" /\ s[2] # None => Get(NodeProps(put), s[1]) = s[2]
  BY <1>2, <1>3, StatingKeeps DEF put, Loaded
<1>11. /\ DOMAIN stated' = DOMAIN stated \cup {s[1]} /\ stated'[s[1]] = s[2]
       /\ \A key \in DOMAIN stated \ {s[1]} : stated'[key] = stated[key]
       /\ stated' = [key \in DOMAIN stated' |-> stated'[key]]
  BY <1>2 DEF Put
<1>12. SaidInv' /\ GraphInv' /\ Element' = Element
  BY <1>1, <1>11 DEF IndInv, SaidInv, GraphInv, Element
<1>13. DriftInv'
  <2> DEFINE p == Element.props
  <2> SUFFICES ASSUME NEW key \in DOMAIN p \ {"Labels"}, ~IgnoreDiffProp(key), p[key] \notin Unset,
                      Get(Loaded(document'), key) # p[key]
               PROVE  Differs(key)'
    BY <1>12 DEF DriftInv
  <2>1. CASE key # s[1]
    <3>1. Get(Loaded(document), key) # p[key]
      BY <1>9, <1>10, <2>1
    <3>2. Differs(key)
      BY <1>3, <3>1 DEF DriftInv
    <3>3. key \in DOMAIN stated' /\ stated'[key] = stated[key]
      BY <1>11, <2>1, <3>2 DEF Differs
    <3>4. QED
      BY <1>1, <3>2, <3>3 DEF Differs
  <2>2. CASE key = s[1]
    <3>1. key # "labels"
      BY DEF IgnoreDiffProp, IgnoredDiffProps
    <3>2. ASSUME key \in DOMAIN known, s[2] = known[key], s[2] = Decoded(key, s[2]) PROVE FALSE
      <4>1. Kept(key, s[2], p[key])
        BY <3>1, <3>2 DEF IndInv, GraphInv, StatementsIn, Get
      <4>2. p[key] = s[2]
        BY <3>2, <4>1 DEF Kept
      <4>3. s[2] # None
        BY <4>2 DEF Unset
      <4>4. QED
        BY <1>9, <1>10, <2>2, <3>1, <4>2, <4>3
    <3>3. key \in DOMAIN stated' /\ stated'[key] = s[2]
      BY <1>11, <2>2
    <3>4. QED
      BY <1>1, <3>2, <3>3 DEF Differs
  <2>3. QED
    BY <2>1, <2>2
<1>14. QED
  BY <1>8, <1>9, <1>10, <1>12, <1>13 DEF IndInv, DocumentInv

\* A document says the same in another order.
LEMMA ReorderKeeps == IndInv /\ Reorder => IndInv'
<1> SUFFICES ASSUME IndInv, Reorder PROVE IndInv'
  OBVIOUS
<1>1. /\ document' = [document EXCEPT !.nodes = Reverse(@)] /\ document.ok
      /\ g' = g /\ stated' = stated /\ known' = known
  BY DEF Reorder
<1>2. /\ IsDocument(document) /\ StatementsIn(stated, Loaded(document)) /\ OwnIn(stated, Loaded(document))
      /\ DriftInv
  BY <1>1 DEF IndInv, DocumentInv, NoDocument
<1>3. Reverse(document.nodes) = <<document.nodes[2], document.nodes[1]>>
  <2>1. \A a, b : Reverse(<<a, b>>) = <<b, a>>
    BY DEF Reverse
  <2> DEFINE a == document.nodes[1]
             b == document.nodes[2]
  <2>2. document.nodes = <<a, b>>
    BY <1>2 DEF IsDocument
  <2> HIDE DEF a, b
  <2>3. Reverse(document.nodes) = <<b, a>>
    BY <2>1, <2>2
  <2>4. QED
    BY <2>3 DEF a, b
<1>4. document' = [ok |-> TRUE, nodes |-> <<document.nodes[2], document.nodes[1]>>, edges |-> document.edges]
  BY <1>1, <1>2, <1>3 DEF IsDocument
<1>5. IsDocument(document')
  BY <1>2, <1>4 DEF IsDocument
<1>6. Loaded(document') = Loaded(document)
  <2>1. PICK i \in {1, 2} : document.nodes[i].data["NodeID"] = ElementID
    BY <1>2, ElementNodes DEF IDs
  <2>2. ElementNode(document) = i
    BY <1>2, <2>1, ElementNodes
  <2>3. document'.nodes[3 - i] = document.nodes[i]
    BY <1>4
  <2>4. ElementNode(document') = 3 - i
    <3>1. 3 - i \in {1, 2}
      OBVIOUS
    <3>2. QED
      BY <1>5, <2>1, <2>3, <3>1, ElementNodes
  <2>5. QED
    BY <2>2, <2>3, <2>4 DEF Loaded, ElementData
<1>7. SaidInv' /\ GraphInv' /\ DriftInv'
  <2>1. Element' = Element
    BY <1>1 DEF Element
  <2>2. \A key : Differs(key)' <=> Differs(key)
    BY <1>1 DEF Differs
  <2>3. QED
    BY <1>1, <1>2, <1>6, <2>1, <2>2 DEF IndInv, SaidInv, GraphInv, DriftInv
<1>8. QED
  BY <1>1, <1>2, <1>5, <1>6, <1>7 DEF IndInv, DocumentInv

\* A program that loads the document knows what was stated.
LEMMA LoadKeeps == IndInv /\ Load => IndInv'
<1> SUFFICES ASSUME IndInv, Load PROVE IndInv'
  OBVIOUS
<1>1. /\ g' = Read(document).graph /\ known' = Restrict(stated, DOMAIN stated \ {"labels"})
      /\ document' = document /\ stated' = stated /\ document.ok /\ Read(document).ok
  BY DEF Load
<1>2. /\ IsDocument(document) /\ StatementsIn(stated, Loaded(document)) /\ OwnIn(stated, Loaded(document))
  BY <1>1 DEF IndInv, DocumentInv, NoDocument
<1>3. IsGraph(g') /\ Element'.props = Loaded(document)
  BY <1>1, <1>2, ReadsGraph DEF Element
<1>4. /\ DOMAIN known' = DOMAIN stated \ {"labels"}
      /\ \A key \in DOMAIN known' : known'[key] = stated[key]
      /\ known' = [key \in DOMAIN known' |-> known'[key]]
  <2>1. known' = [key \in DOMAIN stated \ {"labels"} |-> stated[key]]
    BY <1>1 DEF Restrict
  <2>2. QED
    BY <2>1
<1>5. "labels" \notin DOMAIN Loaded(document)
  BY LoadedProps DEF Loaded
<1>6. StatementsIn(known', Loaded(document)) /\ OwnIn(known', Loaded(document))
  BY <1>2, <1>4, <1>5 DEF StatementsIn, OwnIn
<1>7. SaidInv' /\ GraphInv'
  BY <1>1, <1>3, <1>4, <1>6 DEF IndInv, SaidInv, GraphInv
<1>8. DriftInv'
  BY <1>1, <1>3 DEF DriftInv, Get
<1>9. QED
  BY <1>1, <1>2, <1>7, <1>8 DEF IndInv, DocumentInv

\* A graph whose element has other properties is a graph.
LEMMA ReplacesProps ==
  ASSUME NEW G, IsGraph(G), ElementOf(G).class = Port, NEW r, IsBag(r, ElementID), r["Class"] = Text(Port),
         NEW H, H = [G EXCEPT !.nodes[Position(G.nodes, ElementID)].props = r]
  PROVE  IsGraph(H) /\ ElementOf(H).props = r /\ ElementOf(H).class = Port
<1> DEFINE i     == Position(G.nodes, ElementID)
           id    == G.id
           nodes == G.nodes
           edges == G.edges
           new   == [nodes EXCEPT ![i].props = r]
<1>1. i \in {1, 2} /\ nodes[i].id = ElementID /\ nodes[i].class = Port /\ IsNode(nodes[i]) /\ DOMAIN nodes = {1, 2}
  BY Positions DEF ElementOf
<1>2. G = [id |-> id, nodes |-> nodes, edges |-> edges] /\ id = Text("graph")
  BY DEF IsGraph, Graph
<1>3. H = [G EXCEPT !.nodes = new]
  BY Zenon
<1> HIDE DEF id, nodes, edges, new
<1>4. H = [id |-> id, nodes |-> new, edges |-> edges]
  BY <1>2, <1>3
<1> HIDE DEF i
<1>5. /\ new[i] = Node(Port, ElementID, r)
      /\ \A j \in {1, 2} \ {i} : new[j] = nodes[j]
      /\ new = [j \in {1, 2} |-> new[j]]
  <2>1. nodes[i] = [class |-> nodes[i].class, id |-> nodes[i].id, props |-> nodes[i].props]
    BY <1>1 DEF IsNode, Node
  <2>2. QED
    BY <1>1, <2>1 DEF new, Node
<1>6. \A j \in {1, 2} : IsNode(new[j]) /\ new[j].id = nodes[j].id
  <2>1. Port \in Classes
    BY DEF Port, Classes
  <2>2. IsNode(new[i]) /\ new[i].id = nodes[i].id
    BY <1>1, <1>5, <2>1 DEF IsNode, Node
  <2>3. \A j \in {1, 2} : IsNode(nodes[j])
    BY DEF IsGraph, nodes
  <2>4. QED
    BY <1>5, <2>2, <2>3
<1>7. IsGraph(H)
  <2>1. H.nodes = new /\ H.edges = edges /\ H = Graph(Text("graph"), H.nodes, H.edges)
    BY <1>2, <1>4 DEF Graph
  <2>2. new = <<new[1], new[2]>>
    BY <1>5, Pairs
  <2>3. nodes[1].id # nodes[2].id
    BY DEF IsGraph, nodes
  <2>4. /\ edges = [k \in DOMAIN edges |-> edges[k]]
        /\ \A k \in DOMAIN edges :
             LET e == edges[k]
             IN  /\ e = [class |-> e.class, source |-> e.source, target |-> e.target]
                 /\ e.class \in EdgeClasses /\ {e.source, e.target} \subseteq IDs
    BY DEF IsGraph, edges
  <2> HIDE DEF nodes, edges, new
  <2>5. QED
    BY <1>6, <2>1, <2>2, <2>3, <2>4 DEF IsGraph
<1>8. H.nodes[i].id = ElementID /\ H.nodes[i].props = r /\ H.nodes[i].class = Port
  <2>1. H.nodes = new
    BY <1>4
  <2>2. new[i].id = ElementID /\ new[i].props = r /\ new[i].class = Port
    BY <1>5 DEF Node
  <2>3. QED
    BY <2>1, <2>2
<1>9. Position(H.nodes, ElementID) = i
  BY <1>1, <1>7, <1>8, Positions
<1>10. QED
  BY <1>7, <1>8, <1>9 DEF ElementOf

\* The program's own properties and what was stated stay as they are read.
LEMMA SetLabelsKeeps == IndInv /\ SetLabels => IndInv'
<1> SUFFICES ASSUME IndInv, SetLabels PROVE IndInv'
  OBVIOUS
<1> DEFINE p       == Element.props
           current == FromProps(Port, p)
           had     == Decoded("Labels", Get(p, "Labels"))
           labels  == IF "Labels" \in DOMAIN current.sliver THEN current.sliver["Labels"][2] ELSE {}
           foreign == Foreign[Port]
<1>1. PICK new \in LabelSets \ {{}} :
        /\ current.ok
        /\ g' = [g EXCEPT !.nodes[Position(g.nodes, ElementID)].props =
                   Relabelled(p, MergeLabels(labels, new))]
  BY DEF SetLabels, Relabelled, Port, Element
<1> DEFINE all == labels \cup new
           r   == Relabelled(p, all)
<1>2. /\ known' = Restrict(known, DOMAIN known \ foreign) /\ document' = document /\ stated' = stated
      /\ Element.class = Port
  BY DEF SetLabels, Port, Element
<1>3. /\ IsGraph(g) /\ StatementsIn(known, p) /\ OwnIn(known, p) /\ SaidInv
  BY DEF IndInv, GraphInv
<1>4. /\ IsNode(Element) /\ Element.id = ElementID /\ IsBag(p, ElementID)
  BY <1>3, Positions DEF Element, IsNode
<1>5. /\ \A key \in Reads[Port] : ~Malformed(key, Get(p, key))
      /\ \A key \in Required : Decoded(key, Get(p, key)) # Blank
  <2>1. \A key \in Reads[Port] \cap (DOMAIN p \cup {"StitchNode"}) : ~Malformed(key, Get(p, key))
    BY <1>1 DEF FromProps
  <2>2. \A key : key \notin DOMAIN p => ~Malformed(key, Get(p, key))
    BY DEF Get, Malformed, Unset
  <2>3. \A key \in Required : Decoded(key, Get(p, key)) = Get(p, key) /\ Get(p, key) # Blank
    <3> TAKE key \in Required
    <3>1. Decoded(key, Get(p, key)) = Get(p, key)
      BY Tables, DecodedPlain DEF Required
    <3>2. QED
      BY <1>4, <3>1, BagValues DEF Get, Required
  <2>4. QED
    BY <2>1, <2>2, <2>3
<1>6. labels = IF had # Blank THEN had[2] ELSE {}
  <2>1. "Labels" \in Reads[Port] /\ "Labels" \in KnownProps
    BY Tables DEF Port, Classes
  <2>2. Decoded("Labels", Blank) = Blank
    BY DecodedLabels DEF Unset
  <2>3. "Labels" \in DOMAIN current.sliver <=> had # Blank
    <3>1. CASE "Labels" \in DOMAIN p
      BY <2>1, <3>1, SliverFields
    <3>2. CASE "Labels" \notin DOMAIN p /\ "Labels" # "StitchNode"
      BY <2>1, <2>2, <3>2, SliverFields DEF Get
    <3>3. QED
      BY <3>1, <3>2
  <2>4. "Labels" \in DOMAIN current.sliver => current.sliver["Labels"] = had
    BY SliverFields
  <2>5. QED
    BY <2>3, <2>4
<1>7. g' = [g EXCEPT !.nodes[Position(g.nodes, ElementID)].props = r]
  BY <1>1 DEF MergeLabels
<1> HIDE DEF labels, current, had, p, foreign
<1>8. all # {}
  OBVIOUS
<1> HIDE DEF all
<1>9. /\ r = [key \in DOMAIN r |-> r[key]]
      /\ DOMAIN r \cap foreign = {}
      /\ {"Class", "Type", "Labels", "StitchNode"} \subseteq DOMAIN r
      /\ r["Class"] = Text(Port) /\ r["Labels"] = JSON(all)
  BY <1>8, RelabelledProps DEF foreign
<1>10. \A key : key \notin {"Class", "Labels"} \cup foreign =>
         \/ Get(r, key) = Decoded(key, Get(p, key))
         \/ Get(r, key) = Blank /\ Decoded(key, Get(p, key)) \in {None, JSON({})}
  BY <1>8, RelabelledProps DEF foreign
<1>11. \A key \in Required : key \in DOMAIN r /\ r[key] = Decoded(key, Get(p, key))
  BY <1>5, <1>8, RelabelledProps
<1> HIDE DEF r
<1>12. foreign = KnownProps \ (Reads[Port] \cup {"Class"})
  BY DEF Foreign, Port, Classes, foreign
<1>13. /\ Required \cup {"Type", "StitchNode", "Labels"} \subseteq Reads[Port]
       /\ Reads[Port] \subseteq KnownProps \ {"Class", "labels"}
  BY Tables DEF Port, Classes
<1>14. IsBag(r, ElementID)
  <2>1. \A key \in Required \cup {"Type"} : Decoded(key, Get(p, key)) = p[key] /\ key \in DOMAIN p
    <3> TAKE key \in Required \cup {"Type"}
    <3>1. Decoded(key, Get(p, key)) = Get(p, key)
      BY Tables, DecodedPlain DEF Required
    <3>2. key \in DOMAIN p
      BY <1>4 DEF IsBag
    <3>3. QED
      BY <3>1, <3>2 DEF Get
  <2>2. \A key \in Required : key \in DOMAIN r /\ r[key] = p[key]
    BY <1>11, <2>1
  <2>3. r["Type"] = Text("type")
    <3>1. "Type" \notin {"Class", "Labels"} \cup foreign
      BY <1>12, <1>13
    <3>2. p["Type"] = Text("type") /\ Text("type") \notin {None, JSON({})}
      BY <1>4, Values DEF IsBag, None
    <3>3. Get(r, "Type") = Text("type")
      BY <1>10, <2>1, <3>1, <3>2
    <3>4. QED
      BY <1>9, <3>3 DEF Get
  <2>4. Port \in Classes
    BY DEF Port, Classes
  <2>5. QED
    BY <1>4, <1>9, <2>2, <2>3, <2>4 DEF IsBag, Required
<1>15. IsGraph(g') /\ Element'.props = r
  BY <1>2, <1>3, <1>7, <1>9, <1>14, ReplacesProps DEF Element
<1>16. /\ DOMAIN known' = DOMAIN known \ foreign
       /\ \A key \in DOMAIN known' : known'[key] = known[key]
       /\ known' = [key \in DOMAIN known' |-> known'[key]]
  <2>1. known' = [key \in DOMAIN known \ foreign |-> known[key]]
    BY <1>2 DEF Restrict
  <2>2. QED
    BY <2>1
<1>17. \A key : ~Malformed(key, Get(r, key))
  <2> SUFFICES ASSUME NEW key PROVE ~Malformed(key, Get(r, key))
    OBVIOUS
  <2>1. CASE key \notin DOMAIN r
    BY <2>1 DEF Get, Malformed, Unset
  <2>2. CASE key = "Labels"
    BY <1>9, <2>2, DecodedLabels DEF Get
  <2>3. CASE key \in DOMAIN r /\ key # "Labels" /\ key \in JSONPropertyNames
    <3>1. key \notin foreign /\ key # "Class"
      BY <1>9, <2>3, Tables
    <3>2. key \in Reads[Port]
      BY <1>12, <2>3, <3>1, Tables
    <3>3. ~Malformed(key, Decoded(key, Get(p, key)))
      BY <1>5, <3>2, DecodedTwice
    <3>4. QED
      BY <1>10, <2>3, <3>1, <3>3 DEF Malformed, Unset
  <2>4. QED
    BY <2>1, <2>2, <2>3 DEF Malformed
<1>18. StatementsIn(known', r)
  <2> SUFFICES ASSUME NEW key \in DOMAIN known' \ {"labels"}
               PROVE  Kept(key, known[key], Get(r, key))
    BY <1>16, <1>17 DEF StatementsIn
  <2>1. key \notin foreign /\ Kept(key, known[key], Get(p, key)) /\ key # "Class"
    <3>1. key \in DOMAIN known \ {"labels"} /\ key \notin foreign
      BY <1>16
    <3>2. key # "Class"
      BY <1>3, <3>1, StatementsAssumption DEF SaidInv
    <3>3. QED
      BY <1>3, <3>1, <3>2 DEF StatementsIn
  <2>2. CASE key = "Labels"
    <3>1. Get(r, "Labels") = JSON(all)
      BY <1>9 DEF Get
    <3>2. KeptLabels(Decoded("Labels", known[key]), had)
      BY <2>1, <2>2 DEF Kept, had
    <3>3. ~Malformed("Labels", Get(p, "Labels"))
      BY <1>5, <1>13
    <3>4. KeptLabels(Decoded("Labels", known[key]), Decoded("Labels", JSON(MergeLabels(labels, new))))
      BY <1>6, <3>2, <3>3, LabellingKeeps DEF had
    <3>5. QED
      BY <2>2, <3>1, <3>4 DEF Kept, MergeLabels, all
  <2>3. CASE key # "Labels"
    BY <1>10, <2>1, <2>3, RereadingKeeps
  <2>4. QED
    BY <2>2, <2>3
<1>19. OwnIn(known', r)
  <2> SUFFICES ASSUME NEW key \in DOMAIN r \ DOMAIN known'
               PROVE  IsOwn(key, Get(r, key))
    BY <1>9 DEF OwnIn
  <2>1. ~Malformed(key, Get(r, key))
    BY <1>17
  <2>2. key \notin foreign
    BY <1>9
  <2>3. CASE key = "Class"
    <3>1. Decoded("Class", r["Class"]) = r["Class"]
      BY Tables, DecodedPlain
    <3>2. QED
      BY <2>1, <2>3, <3>1 DEF IsOwn, Get
  <2>4. CASE key = "Labels"
    BY <2>1, <2>4 DEF IsOwn
  <2>5. CASE key \notin {"Class", "Labels"}
    <3>1. Get(r, key) = Decoded(key, Get(p, key)) \/ Get(r, key) = Blank
      BY <1>10, <2>2, <2>5
    <3>2. key # "StitchNode" => Get(r, key) \in Unset \/ Decoded(key, Get(r, key)) = Get(r, key)
      BY <3>1, DecodedTwice DEF Unset
    <3>3. key = "StitchNode" => Get(r, key) \notin Unset /\ Decoded(key, Get(r, key)) = Get(r, key)
      <4>1. {Text("true"), Text("false")} \cap (Unset \cup {JSON({})}) = {}
        BY Booleans
      <4>2. key = "StitchNode" => Decoded(key, Get(p, key)) \in {Text("true"), Text("false")}
        BY DecodedUnset
      <4>3. key = "StitchNode" => Get(r, key) = Decoded(key, Get(p, key))
        BY <1>10, <2>2, <2>5, <4>1, <4>2 DEF Unset
      <4>4. QED
        BY <4>1, <4>2, <4>3, DecodedTwice
    <3>4. QED
      BY <2>1, <3>2, <3>3 DEF IsOwn
  <2>6. QED
    BY <2>3, <2>4, <2>5
<1>20. SaidInv' /\ GraphInv'
  BY <1>2, <1>3, <1>15, <1>16, <1>18, <1>19 DEF SaidInv, GraphInv
<1>21. ASSUME DriftInv PROVE DriftInv'
  <2> SUFFICES ASSUME NEW key \in DOMAIN r \ {"Labels"}, ~IgnoreDiffProp(key), r[key] \notin Unset,
                      Get(Loaded(document), key) # r[key]
               PROVE  Differs(key)'
    BY <1>2, <1>15 DEF DriftInv
  <2>1. key # "Class" /\ key # "labels" /\ key \notin foreign
    BY <1>9 DEF IgnoreDiffProp, IgnoredDiffProps
  <2>2. r[key] = Decoded(key, Get(p, key))
    BY <1>10, <2>1 DEF Get, Unset
  <2>3. CASE r[key] = Get(p, key)
    <3>1. key \in DOMAIN p /\ p[key] = r[key]
      BY <2>3 DEF Get, Unset
    <3>2. Differs(key)
      BY <1>21, <3>1 DEF DriftInv, p
    <3>3. QED
      BY <1>2, <1>16, <2>1, <3>2 DEF Differs
  <2>4. CASE r[key] # Get(p, key)
    <3>1. key \in DOMAIN known
      <4>1. ASSUME key \notin DOMAIN known PROVE FALSE
        <5>1. key \in DOMAIN p \cup {"StitchNode"}
          <6>1. CASE key # "StitchNode"
            <7>1. Get(p, key) \notin Unset
              BY <2>2, <6>1, DecodedUnset
            <7>2. QED
              BY <7>1 DEF Get, Unset
          <6>2. QED
            BY <6>1
        <5>2. IsOwn(key, Get(p, key))
          BY <1>3, <4>1, <5>1 DEF OwnIn
        <5>3. Get(p, key) \notin Unset
          BY <2>2, <5>2, DecodedUnset DEF IsOwn
        <5>4. QED
          BY <2>2, <2>4, <5>2, <5>3 DEF IsOwn
      <4>2. QED
        BY <4>1
    <3>2. Kept(key, known[key], Get(p, key))
      BY <1>3, <2>1, <3>1 DEF StatementsIn
    <3>3. known[key] # Decoded(key, known[key])
      <4>1. ASSUME known[key] = Decoded(key, known[key]) PROVE FALSE
        <5>1. Get(p, key) # known[key]
          BY <2>2, <2>4, <4>1
        <5>2. Get(p, key) \in Unset /\ (known[key] \in Unset \/ Decoded(key, known[key]) = JSON({}))
          BY <3>2, <4>1, <5>1 DEF Kept
        <5>3. key = "StitchNode"
          BY <2>2, <5>2, DecodedUnset
        <5>4. known[key] \in {Text("true"), Text("false")}
          BY <4>1, <5>3, DecodedUnset
        <5>5. {Text("true"), Text("false")} \cap (Unset \cup {JSON({})}) = {}
          BY Booleans
        <5>6. QED
          BY <4>1, <5>2, <5>4, <5>5
      <4>2. QED
        BY <4>1
    <3>4. key \in DOMAIN stated /\ key \in DOMAIN known' /\ known'[key] = known[key]
      BY <1>3, <1>16, <2>1, <3>1 DEF SaidInv
    <3>5. QED
      BY <1>2, <3>3, <3>4 DEF Differs
  <2>5. QED
    BY <2>3, <2>4
<1>22. DocumentInv'
  <2>1. CASE document = NoDocument
    BY <1>2, <2>1 DEF DocumentInv
  <2>2. CASE document # NoDocument
    BY <1>2, <1>21, <2>2 DEF IndInv, DocumentInv
  <2>3. QED
    BY <2>1, <2>2
<1>23. QED
  BY <1>20, <1>22 DEF IndInv

-----------------------------------------------------------------------------
(* Theorems.                                                               *)

\* The invariant holds in every state, whatever is stated, loaded, labelled
\* and submitted, and in whatever order.
LEMMA Invariance == Spec => []IndInv
<1>1. IndInv /\ [Next]_vars => IndInv'
  <2> SUFFICES ASSUME IndInv, [Next]_vars PROVE IndInv'
    OBVIOUS
  <2>1. CASE Submit
    BY <2>1, SubmitKeeps
  <2>2. CASE State
    BY <2>2, StateKeeps
  <2>3. CASE Reorder
    BY <2>3, ReorderKeeps
  <2>4. CASE Load
    BY <2>4, LoadKeeps
  <2>5. CASE SetLabels
    BY <2>5, SetLabelsKeeps
  <2>6. CASE UNCHANGED vars
    <3>1. g' = g /\ document' = document /\ stated' = stated /\ known' = known
      BY <2>6 DEF vars
    <3>2. Element' = Element /\ \A key : Differs(key)' <=> Differs(key)
      BY <3>1 DEF Element, Differs
    <3>3. SaidInv' /\ GraphInv'
      BY <3>1, <3>2 DEF IndInv, SaidInv, GraphInv
    <3>4. DriftInv => DriftInv'
      BY <3>1, <3>2 DEF DriftInv
    <3>5. DocumentInv'
      BY <3>1, <3>4 DEF IndInv, DocumentInv
    <3>6. QED
      BY <3>3, <3>5 DEF IndInv
  <2>7. QED
    BY <2>1, <2>2, <2>3, <2>4, <2>5, <2>6 DEF Next
<1>2. QED
  BY <1>1, InitIndInv, PTL DEF Spec

\* TypeOK: no round through the orchestrator adds, loses or exchanges an
\* element, and the element can be read whenever no statement is malformed
\* (pkg/topology Load and Serialize, pkg/sliver FromProps).
THEOREM TypeCorrect == Spec => []TypeOK
<1>1. IndInv => TypeOK
  <2> SUFFICES ASSUME IndInv PROVE TypeOK
    OBVIOUS
  <2>1. /\ IsGraph(g) /\ StatementsIn(known, Element.props) /\ OwnIn(known, Element.props) /\ SaidInv
    BY DEF IndInv, GraphInv
  <2>2. {n.id : n \in Range(g.nodes)} = {OwnerID, ElementID}
    <3>1. Range(g.nodes) = {g.nodes[1], g.nodes[2]}
      BY <2>1, Positions DEF Range
    <3>2. {g.nodes[1].id, g.nodes[2].id} = {OwnerID, ElementID}
      BY <2>1, Positions DEF IDs
    <3>3. QED
      BY <3>1, <3>2
  <2>3. /\ Element.class \in Classes /\ Element.props["Class"] = Text(Element.class)
        /\ IsBag(Element.props, ElementID)
    BY <2>1, Positions DEF Element, IsNode
  <2>4. ASSUME \A key \in DOMAIN known : ~Malformed(key, known[key])
        PROVE  FromProps(Element.class, Element.props).ok
    <3> DEFINE p    == Element.props
               keys == Reads[Element.class] \cap (DOMAIN p \cup {"StitchNode"})
    <3>1. Get(p, "Class") = Text(Element.class)
      BY <2>3 DEF Get, IsBag
    <3>2. \A key \in keys : ~Malformed(key, Get(p, key))
      <4> TAKE key \in keys
      <4>1. CASE key \in DOMAIN known
        BY <2>1, <2>4, <4>1 DEF StatementsIn, SaidInv
      <4>2. CASE key \notin DOMAIN known
        BY <2>1, <4>2 DEF OwnIn, IsOwn
      <4>3. QED
        BY <4>1, <4>2
    <3>3. \A key \in Required : key \in keys /\ Decoded(key, Get(p, key)) # Blank
      <4> TAKE key \in Required
      <4>1. key \in DOMAIN p /\ Get(p, key) # Blank
        BY <2>3, BagValues DEF Required, Get
      <4>2. Decoded(key, Get(p, key)) = Get(p, key)
        BY Tables, DecodedPlain DEF Required
      <4>3. QED
        BY <2>3, <4>1, <4>2, Tables
    <3> HIDE DEF p
    <3>4. Required \subseteq {key \in keys : Decoded(key, Get(p, key)) # Blank} \cup Opaque(p)
      BY <3>3
    <3>5. QED
      BY <3>1, <3>2, <3>4 DEF FromProps, p
  <2>5. ASSUME document.ok PROVE {n.data["NodeID"] : n \in Range(document.nodes)} = {OwnerID, ElementID}
    <3>1. IsDocument(document)
      BY <2>5 DEF IndInv, DocumentInv, NoDocument
    <3>2. Range(document.nodes) = {document.nodes[1], document.nodes[2]}
      BY <3>1, ElementNodes DEF Range
    <3>3. {document.nodes[1].data["NodeID"], document.nodes[2].data["NodeID"]} = {OwnerID, ElementID}
      BY <3>1, ElementNodes DEF IDs
    <3>4. QED
      BY <3>2, <3>3
  <2>6. DOMAIN stated \cup DOMAIN known \subseteq {s[1] : s \in Statements}
    BY <2>1 DEF SaidInv
  <2>7. QED
    BY <2>2, <2>3, <2>4, <2>5, <2>6 DEF TypeOK
<1>2. QED
  BY <1>1, Invariance, PTL

\* StatementsStay: what the orchestrator stated and a program has loaded stays
\* in the program's graph, through any number of SetLabels, Serialize and Load
\* (pkg/topology facades.go, pkg/topologybuilder builder.go).
THEOREM StatementsKept == Spec => []StatementsStay
<1>1. IndInv => StatementsStay
  <2> SUFFICES ASSUME IndInv, NEW key \in DOMAIN known
               PROVE  LET said == Decoded(key, known[key])
                          have == Decoded(key, Get(Element.props, key))
                      IN  \/ said \in Unset \cup {JSON({}), have}
                          \/ key = "Labels" /\ IsJSON(said) /\ IsJSON(have) /\ said[2] \subseteq have[2]
    BY DEF StatementsStay
  <2> DEFINE v == known[key]
             w == Get(Element.props, key)
  <2>1. Kept(key, v, w)
    BY DEF IndInv, GraphInv, SaidInv, StatementsIn
  <2> HIDE DEF v, w
  <2>2. CASE key = "Labels"
    BY <2>1, <2>2 DEF Kept, KeptLabels, Nothing, v, w
  <2>3. CASE key # "Labels" /\ w \in {v, Decoded(key, v)}
    <3>1. Decoded(key, w) = Decoded(key, v)
      BY <2>3, DecodedTwice
    <3>2. QED
      BY <3>1 DEF v, w
  <2>4. CASE key # "Labels" /\ w \in Unset /\ v \in Unset
    <3>1. CASE key # "StitchNode"
      BY <2>4, <3>1, DecodedUnset DEF v, w
    <3>2. CASE key = "StitchNode"
      <4>1. v # Text("true") /\ w # Text("true")
        BY <2>4, Booleans
      <4>2. Decoded(key, v) = Decoded(key, w)
        BY <3>2, <4>1 DEF Decoded
      <4>3. QED
        BY <4>2 DEF v, w
    <3>3. QED
      BY <3>1, <3>2
  <2>5. CASE Decoded(key, v) = JSON({})
    BY <2>5 DEF v
  <2>6. QED
    BY <2>1, <2>2, <2>3, <2>4, <2>5 DEF Kept
<1>2. QED
  BY <1>1, Invariance, PTL

\* ReloadIsExact: a graph whose element is not called None can always be
\* written, what is written can be read, and reading it gives the same graph
\* but for properties that say nothing (internal/graphml).
THEOREM ReloadsExactly == Spec => []ReloadIsExact
<1>1. IndInv => ReloadIsExact
  <2> SUFFICES ASSUME IndInv, Element.props["Name"] # None
               PROVE  Write(g).ok /\ Read(Write(g)).ok /\ Read(Write(g)).graph = Trimmed(g)
    BY DEF ReloadIsExact
  <2> DEFINE W == Write(g)
             R == Read(W).graph
             T == Trimmed(g)
             kept(n) == Restrict(n.props, {key \in DOMAIN n.props \ {"labels"} : n.props[key] \notin Unset})
  <2>1. IsGraph(g)
    BY DEF IndInv, GraphInv
  <2>2. /\ W.ok /\ IsDocument(W)
        /\ \A i \in {1, 2} : W.nodes[i].data = Data(g.nodes[i].props) /\ W.nodes[i].xml = i
    BY <2>1, WritesDocument
  <2>3. \A i \in {1, 2} : g.nodes[i].props["Name"] \notin Unset /\ IsNode(g.nodes[i])
    <3> SUFFICES ASSUME NEW i \in {1, 2} PROVE g.nodes[i].props["Name"] \notin Unset
      BY <2>1 DEF IsGraph
    <3>1. IsBag(g.nodes[i].props, g.nodes[i].id)
      BY <2>1 DEF IsGraph, IsNode
    <3>2. CASE g.nodes[i].id = ElementID
      <4>1. Element = g.nodes[i]
        BY <2>1, <3>2, Positions DEF Element
      <4>2. QED
        BY <3>1, <4>1 DEF IsBag, Unset
    <3>3. CASE g.nodes[i].id = OwnerID
      <4>1. Text("owner") \notin Unset
        BY Values DEF Unset, Blank, None
      <4>2. QED
        BY <3>1, <3>3, <4>1 DEF IsBag
    <3>4. QED
      BY <3>1, <3>2, <3>3 DEF IsBag, IDs
  <2>4. \A i \in {1, 2} : W.nodes[i].data["Name"] # None
    <3> TAKE i \in {1, 2}
    <3>1. "Name" \in DOMAIN g.nodes[i].props
      BY <2>3, BagValues DEF IsNode
    <3>2. Data(g.nodes[i].props)["Name"] = g.nodes[i].props["Name"]
      BY <2>3, <3>1, WrittenProps DEF Unset
    <3>3. QED
      BY <2>2, <2>3, <3>2 DEF Unset
  <2>5. Read(W).ok /\ IsGraph(R)
    BY <2>2, <2>4, ReadsGraph
  <2>6. \A i \in {1, 2} : R.nodes[i] = Node(g.nodes[i].class, g.nodes[i].id, kept(g.nodes[i]))
    <3> TAKE i \in {1, 2}
    <3> DEFINE p == g.nodes[i].props
    <3>1. IsBag(p, g.nodes[i].id) /\ p["Class"] = Text(g.nodes[i].class)
      BY <2>3 DEF IsNode
    <3>2. /\ Data(p)["Class"] = p["Class"] /\ Data(p)["NodeID"] = g.nodes[i].id
      <4>1. \A key \in {"NodeID", "Class"} : key \in DOMAIN p /\ p[key] # Blank /\ key # "labels"
        BY <3>1, BagValues
      <4>2. \A key \in {"NodeID", "Class"} : Data(p)[key] = p[key]
        BY <4>1, WrittenProps
      <4>3. p["NodeID"] = g.nodes[i].id
        BY <3>1 DEF IsBag
      <4>4. QED
        BY <4>2, <4>3
    <3>3. R.nodes[i] = Node(Data(p)["Class"][2], Data(p)["NodeID"], NodeProps(Data(p)))
      BY <2>2, ReadsNode
    <3>4. Text(g.nodes[i].class)[2] = g.nodes[i].class
      BY Values
    <3>5. NodeProps(Data(p)) = kept(g.nodes[i])
      BY ReloadedProps
    <3>6. QED
      BY <3>1, <3>2, <3>3, <3>4, <3>5
  <2>7. R.edges = g.edges
    <3>1. DOMAIN R.edges = DOMAIN g.edges /\ DOMAIN W.edges = DOMAIN g.edges
      BY DEF Read, Write, Graph
    <3>2. \A k \in DOMAIN g.edges : R.edges[k] = g.edges[k]
      <4> TAKE k \in DOMAIN g.edges
      <4> DEFINE e == g.edges[k]
      <4>1. /\ W.edges[k].label = e.class
            /\ W.edges[k].source = Position(g.nodes, e.source)
            /\ W.edges[k].target = Position(g.nodes, e.target)
        BY DEF Write
      <4>2. \A id \in IDs : IDOf(W, Position(g.nodes, id)) = id
        <5> TAKE id \in IDs
        <5>1. PICK i \in {1, 2} : g.nodes[i].id = id
          BY <2>1, Positions
        <5>2. Position(g.nodes, id) = i
          BY <2>1, <5>1, Positions
        <5>3. W.nodes[i].data["NodeID"] = id
          <6>1. IsBag(g.nodes[i].props, id)
            BY <2>3, <5>1 DEF IsNode
          <6>2. IsBag(Data(g.nodes[i].props), id)
            BY <6>1, WrittenBag
          <6>3. QED
            BY <2>2, <6>2 DEF IsBag
        <5>4. QED
          BY <2>2, <5>2, <5>3, EdgeEnds
      <4>3. e = [class |-> e.class, source |-> e.source, target |-> e.target] /\ e.source \in IDs /\ e.target \in IDs
        BY <2>1 DEF IsGraph
      <4>4. R.edges[k] = [class |-> W.edges[k].label, source |-> IDOf(W, W.edges[k].source),
                          target |-> IDOf(W, W.edges[k].target)]
        BY <2>2, <3>1, ReadsEdges, Zenon
      <4>5. QED
        BY <4>1, <4>2, <4>3, <4>4
    <3>3. R.edges = [k \in DOMAIN R.edges |-> R.edges[k]] /\ g.edges = [k \in DOMAIN g.edges |-> g.edges[k]]
      BY <2>1, <2>5 DEF IsGraph
    <3>4. QED
      BY <3>1, <3>2, <3>3
  <2>8. /\ T = [id |-> g.id, nodes |-> T.nodes, edges |-> g.edges]
        /\ T.nodes = [i \in {1, 2} |-> [g.nodes[i] EXCEPT !.props = kept(g.nodes[i])]]
    <3>1. g = [id |-> g.id, nodes |-> g.nodes, edges |-> g.edges] /\ DOMAIN g.nodes = {1, 2}
      BY <2>1, Positions DEF IsGraph, Graph
    <3>2. QED
      BY <3>1 DEF Trimmed
  <2> HIDE DEF T, R, W
  <2>9. \A i \in {1, 2} : T.nodes[i] = Node(g.nodes[i].class, g.nodes[i].id, kept(g.nodes[i]))
    <3> TAKE i \in {1, 2}
    <3>1. g.nodes[i] = [class |-> g.nodes[i].class, id |-> g.nodes[i].id, props |-> g.nodes[i].props]
      BY <2>3 DEF IsNode, Node
    <3> HIDE DEF kept
    <3>2. T.nodes[i] = [g.nodes[i] EXCEPT !.props = kept(g.nodes[i])]
      BY <2>8
    <3>3. QED
      BY <3>1, <3>2 DEF Node
  <2>10. T.nodes = [i \in {1, 2} |-> T.nodes[i]]
    BY <2>8
  <2>11. R.nodes = T.nodes
    <3>1. R.nodes = <<R.nodes[1], R.nodes[2]>>
      BY <2>5 DEF IsGraph
    <3>2. T.nodes = <<T.nodes[1], T.nodes[2]>>
      BY <2>10, Pairs
    <3> HIDE DEF kept
    <3>3. R.nodes[1] = T.nodes[1] /\ R.nodes[2] = T.nodes[2]
      BY <2>6, <2>9
    <3>4. QED
      BY <3>1, <3>2, <3>3
  <2>12. R = T
    <3>1. R = [id |-> Text("graph"), nodes |-> R.nodes, edges |-> R.edges] /\ g.id = Text("graph")
      BY <2>1, <2>5 DEF IsGraph, Graph
    <3>2. QED
      BY <2>7, <2>8, <2>11, <3>1
  <2>13. QED
    BY <2>2, <2>5, <2>12 DEF W, R, T
<1>2. QED
  BY <1>1, Invariance, PTL

\* DriftIsStated: whatever is shown as drift the orchestrator has stated since
\* the program loaded the document, or SetLabels wrote as it had read it
\* (pkg/diff HasUserIntentChanges).
THEOREM DriftIsExplained == Spec => []DriftIsStated
<1>1. IndInv => DriftIsStated
  <2> SUFFICES ASSUME IndInv, document.ok, Read(document).ok,
                      NEW key \in IntentChanges(Element, ElementOf(Read(document).graph)), key # "Labels"
               PROVE  Differs(key)
    BY DEF DriftIsStated, Differs
  <2>1. IsDocument(document) /\ DriftInv
    BY DEF IndInv, DocumentInv, NoDocument
  <2>2. ElementOf(Read(document).graph).props = Loaded(document)
    BY <2>1, ReadsGraph
  <2> DEFINE p    == Element.props
             d    == Loaded(document)
             from == NormalizeProps(p)
             to   == NormalizeProps(d)
  <2>3. key \in DOMAIN from /\ from[key] # Get(to, key)
    BY <2>2 DEF IntentChanges, DiffProps
  <2>4. key \in DOMAIN p /\ ~IgnoreDiffProp(key) /\ p[key] \notin Unset /\ from[key] = p[key]
    BY <2>3 DEF NormalizeProps, Restrict
  <2>5. Get(d, key) \notin Unset => Get(to, key) = Get(d, key)
    BY <2>4 DEF NormalizeProps, Restrict, Get, Unset
  <2>6. Get(d, key) # p[key]
    BY <2>3, <2>4, <2>5
  <2>7. QED
    BY <2>1, <2>4, <2>6 DEF DriftInv
<1>2. QED
  BY <1>1, Invariance, PTL

=============================================================================
