--------------------------- MODULE GraphContract ---------------------------
(***************************************************************************)
(* What internal/graph promises its callers, without the insertion order   *)
(* and the lists it keeps: a finite map from node IDs to nodes and a bag   *)
(* of directed edges whose ends are in the map.  GraphStore implements it. *)
(***************************************************************************)
EXTENDS Integers

CONSTANTS NodeIDs, NodeClasses, EdgeClasses, Data, NoClass

VARIABLES
  content,   \* node ID -> class and properties
  copies     \* edge -> how often it was added

vars == <<content, copies>>

Props == [class : NodeClasses \cup {NoClass}, data : Data]
Edge  == [class : EdgeClasses, source : NodeIDs, target : NodeIDs]

Init ==
  /\ content = [n \in {} |-> n]
  /\ copies = [e \in Edge |-> 0]

Add(n, class, props) ==
  /\ n \notin DOMAIN content
  /\ content' = [m \in DOMAIN content \cup {n} |->
                   IF m = n THEN [class |-> class, props |-> props] ELSE content[m]]
  /\ UNCHANGED copies

\* Properties are replaced; the class changes only when they name one.
Update(n, props) ==
  /\ n \in DOMAIN content
  /\ \E class \in NodeClasses :
       /\ class = IF props.class = NoClass THEN content[n].class ELSE props.class
       /\ content' = [content EXCEPT ![n] = [class |-> class, props |-> props]]
  /\ UNCHANGED copies

\* A node goes together with every copy of every edge at it.
Remove(n) ==
  /\ n \in DOMAIN content
  /\ content' = [m \in DOMAIN content \ {n} |-> content[m]]
  /\ copies' = [e \in Edge |-> IF n \in {e.source, e.target} THEN 0 ELSE copies[e]]

Connect(e) ==
  /\ {e.source, e.target} \subseteq DOMAIN content
  /\ copies' = [copies EXCEPT ![e] = @ + 1]
  /\ UNCHANGED content

\* One copy goes, the others stay.
Disconnect(e) ==
  /\ copies[e] > 0
  /\ copies' = [copies EXCEPT ![e] = @ - 1]
  /\ UNCHANGED content

Next ==
  \/ \E n \in NodeIDs, c \in NodeClasses, p \in Props : Add(n, c, p)
  \/ \E n \in NodeIDs, p \in Props : Update(n, p)
  \/ \E n \in NodeIDs : Remove(n)
  \/ \E e \in Edge : Connect(e) \/ Disconnect(e)

Spec == Init /\ [][Next]_vars

=============================================================================
