----------------------------- MODULE Persistence -----------------------------
(***************************************************************************)
(* A slice that outlives the program that built it.  The program builds an *)
(* element below its owner and submits the document; the orchestrator      *)
(* states what it knows (reservations, allocations, addresses, properties  *)
(* of its own) in the document it keeps and hands out; programs load that  *)
(* document, set labels, and submit it again, any number of times, while   *)
(* the orchestrator goes on.  Drift is the difference between the graph a  *)
(* program has and the document (pkg/diff).                                *)
(***************************************************************************)
EXTENDS GraphML

CONSTANTS
  Names,          \* names of the element: "None" is a word like any other
  Options,        \* class -> the option records of an element of the class
  Statements,     \* <<property, value>>: what the orchestrator may state
  LabelSets,      \* sets of labels that callers set
  MaxStatements   \* bound on the statements in one document

\* Names are not empty; an option is a value that its field can hold.
ASSUME NamesAssumption == "" \notin Names
ASSUME OptionsAssumption ==
  /\ DOMAIN Options = Classes
  /\ \A class \in Classes : \A o \in Options[class] :
       /\ DOMAIN o \subseteq Reads[class] \ (Required \cup {"Type"})
       /\ \A key \in DOMAIN o : Decoded(key, o[key]) = o[key] /\ ~Malformed(key, o[key])
ASSUME StatementsAssumption ==
  \A s \in Statements : s[1] \notin Required \cup {"Class", "Type"}
ASSUME BoundsAssumption == MaxStatements \in Nat

VARIABLES
  g,          \* the graph the program has
  document,   \* the orchestrator's document
  stated,     \* property -> what the orchestrator last stated in document
  known       \* those that g was loaded with, but for what SetLabels drops

vars == <<g, document, stated, known>>

-----------------------------------------------------------------------------
(* The slice that is built: an element and its owner.                      *)

OwnerClass ==
  [Component |-> "NetworkNode", NetworkService |-> "Component", ConnectionPoint |-> "NetworkService",
   Link |-> "ConnectionPoint", NetworkNode |-> "NetworkService"]

EdgeOf(class) == IF class \in {"ConnectionPoint", "Link"} THEN "connects" ELSE "has"

OwnerID   == Text("id1")
ElementID == Text("id2")

Sliver(name, id, o) ==
  [key \in DOMAIN o \cup Required \cup {"Type"} |->
     CASE key = "Name"    -> Text(name)    [] key = "NodeID" -> id
       [] key = "GraphID" -> Text("graph") [] key = "Type"   -> Text("type")
       [] OTHER           -> o[key]]

Built(class, name, o) ==
  LET owner   == ToProps(OwnerClass[class], Sliver("owner", OwnerID, [key \in {} |-> Blank])).props
      element == ToProps(class, Sliver(name, ElementID, o)).props
  IN  Graph(Text("graph"),
            <<Node(OwnerClass[class], OwnerID, owner), Node(class, ElementID, element)>>,
            IF class = "NetworkNode" THEN << >>
            ELSE <<[class |-> EdgeOf(class), source |-> OwnerID, target |-> ElementID]>>)

-----------------------------------------------------------------------------
(* What can happen.                                                        *)

ElementOf(graph) == graph.nodes[Position(graph.nodes, ElementID)]
NoDocument       == [ok |-> FALSE]
NothingStated    == [key \in {} |-> Blank]

\* Serialize
Submit ==
  /\ Write(g).ok
  /\ document' = Write(g)
  /\ stated' = known
  /\ UNCHANGED <<g, known>>

\* The orchestrator states a property of the element.
State ==
  /\ document.ok
  /\ \E s \in Statements :
       LET i == CHOOSE k \in DOMAIN document.nodes : document.nodes[k].data["NodeID"] = ElementID
       IN  /\ document' = [document EXCEPT !.nodes[i].data = Put(@, s[1], s[2])]
           /\ stated' = Put(stated, s[1], s[2])
           /\ Cardinality(DOMAIN stated') <= MaxStatements
  /\ UNCHANGED <<g, known>>

\* The order of the nodes in a document is the orchestrator's.
Reorder ==
  /\ document.ok
  /\ document' = [document EXCEPT !.nodes = Reverse(@)]
  /\ UNCHANGED <<g, stated, known>>

\* Load: a document that cannot be read leaves the program with what it has.
\* "labels" is made anew by whoever writes a document: it is not read.
Load ==
  /\ document.ok /\ Read(document).ok
  /\ g' = Read(document).graph
  /\ known' = Restrict(stated, DOMAIN stated \ {"labels"})
  /\ UNCHANGED <<document, stated>>

\* Faulty variant (see README, "Mutants").
MergeOver(labels, new) == new

\* mergeLabels
MergeLabels(labels, new) == labels \cup new

\* Interface.SetLabels: nothing happens for no labels, when the interface is
\* not readable, and when the result is not valid.
SetLabels ==
  /\ ElementOf(g).class = "ConnectionPoint"
  /\ \E new \in LabelSets \ {{}} :
       LET element == ElementOf(g)
           current == FromProps("ConnectionPoint", element.props)
           labels  == IF "Labels" \in DOMAIN current.sliver THEN current.sliver["Labels"][2] ELSE {}
           result  == ToProps("ConnectionPoint",
                              Put(current.sliver, "Labels", JSON(MergeLabels(labels, new))))
       IN  /\ current.ok /\ result.ok
           /\ g' = [g EXCEPT !.nodes[Position(g.nodes, ElementID)].props = result.props]
  /\ known' = Restrict(known, DOMAIN known \ Foreign["ConnectionPoint"])
  /\ UNCHANGED <<document, stated>>

Init ==
  /\ \E class \in Classes, name \in Names : \E o \in Options[class] :
       /\ ToProps(class, Sliver(name, ElementID, o)).ok
       /\ g = Built(class, name, o)
  /\ document = NoDocument
  /\ stated = NothingStated /\ known = NothingStated

Next == Submit \/ State \/ Reorder \/ Load \/ SetLabels

Spec == Init /\ [][Next]_vars

-----------------------------------------------------------------------------
(* pkg/diff: the properties of the elements of two graphs.                 *)

IgnoredDiffProps ==
  {"Class", "GraphID", "NodeID", "labels", "MgmtIp", "ReservationInfo", "CapacityAllocations",
   "LabelAllocations", "Flags", "MaintenanceInfo", "MeasurementData", "LayoutData"}

\* Properties whose name says a timestamp, a lease, a sliver or its state.
RuntimeNames == {"LeaseEnd"}

IgnoreDiffProp(key) == key \in IgnoredDiffProps \cup RuntimeNames

\* Faulty variant (see README, "Mutants").
NormalizeKeepingNone(props) ==
  Restrict(props, {key \in DOMAIN props : ~IgnoreDiffProp(key) /\ props[key] # Blank})

\* normalizeProps; JSON is compared by what it says.
NormalizeProps(props) ==
  Restrict(props, {key \in DOMAIN props : ~IgnoreDiffProp(key) /\ props[key] \notin Unset})

\* diffProps: only what the expected element states is compared.
DiffProps(expected, actual) ==
  LET from == NormalizeProps(expected)
      to   == NormalizeProps(actual)
  IN  {key \in DOMAIN from : from[key] # Get(to, key)}

\* The part of categoryForField that looks for words anywhere in the field,
\* which begins with the name of the element.
ComputedWords == {"sliver1", "AllocationConstraints"}

CategoryForField(name, key) ==
  IF {name, key} \cap ComputedWords # {} THEN "computed" ELSE "user_intent"

\* HasUserIntentChanges: the changed properties of an element that both
\* graphs have, that are shown.
IntentChanges(expected, actual) ==
  {key \in DiffProps(expected.props, actual.props) :
     CategoryForField(expected.props["Name"][2], key) = "user_intent"}

-----------------------------------------------------------------------------
(* Properties.                                                             *)

Element == ElementOf(g)

\* The graph is the one that was built, whatever it went through, and its
\* element can be read, unless the orchestrator stated something that is no JSON.
TypeOK ==
  /\ {n.id : n \in Range(g.nodes)} = {OwnerID, ElementID}
  /\ Element.class \in Classes /\ Element.props["Class"] = Text(Element.class)
  /\ (\A key \in DOMAIN known : ~Malformed(key, known[key]))
       => FromProps(Element.class, Element.props).ok
  /\ document.ok => {n.data["NodeID"] : n \in Range(document.nodes)} = {OwnerID, ElementID}
  /\ DOMAIN stated \cup DOMAIN known \subseteq {s[1] : s \in Statements}

\* A statement of the orchestrator that a program has loaded stays in its
\* graph, and with that in what it submits, however often labels are set:
\* "preserves every persisted NodeID, reservation id, and structural element"
\* (builder.go:16), "while preserving generated labels" (facades.go:403).
\* Only what SetLabels cannot hold in an InterfaceSliver goes (Foreign).
StatementsStay ==
  \A key \in DOMAIN known :
    LET said == Decoded(key, known[key])
        have == Decoded(key, Get(Element.props, key))
    IN  \/ said \in Unset \cup {JSON({}), have}
        \/ key = "Labels" /\ IsJSON(said) /\ IsJSON(have) /\ said[2] \subseteq have[2]

\* What is left of a graph when it is written and read: everything but
\* properties that say nothing.
Trimmed(graph) ==
  [graph EXCEPT !.nodes = [i \in DOMAIN graph.nodes |->
     [graph.nodes[i] EXCEPT !.props =
        Restrict(@, {key \in DOMAIN @ \ {"labels"} : @[key] \notin Unset})]]]

\* What is written can be read and is the same graph (roundtrip_test.go:21,
\* graphml/doc.go): if no element is called None.
ReloadIsExact ==
  LET r == Read(Write(g))
  IN  Element.props["Name"] # None => Write(g).ok /\ r.ok /\ r.graph = Trimmed(g)

\* Drift that is shown is the doing of the orchestrator, which has stated it
\* since the program loaded the document, or of SetLabels, which changes the
\* labels and writes other properties as it has read them: without the fields
\* that a struct does not know, and a stitch node as true or false.
DriftIsStated ==
  document.ok /\ Read(document).ok =>
    IntentChanges(Element, ElementOf(Read(document).graph)) \subseteq
      {"Labels"} \cup
        {key \in DOMAIN stated :
           \/ key \notin DOMAIN known \/ stated[key] # known[key]
           \/ stated[key] # Decoded(key, stated[key])}

=============================================================================
