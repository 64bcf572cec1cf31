------------------------------- MODULE Slivers -------------------------------
(***************************************************************************)
(* pkg/sliver: an element of a slice as a typed record (a sliver) and as   *)
(* the property bag that the graph keeps of it.                            *)
(*                                                                         *)
(* A value is a pair: <<"text", word>> or <<"json", fields>>, a JSON       *)
(* object that sets some fields.  "unknown" is a field that the Go type    *)
(* does not have, "invalid" one whose value breaks a format rule.  A       *)
(* sliver is a function on the fields it sets; fields that have the zero   *)
(* value are not in its domain.                                            *)
(***************************************************************************)
EXTENDS FiniteSets, Functions

Classes == {"NetworkNode", "NetworkService", "Component", "ConnectionPoint", "Link"}

Text(word)   == <<"text", word>>
JSON(fields) == <<"json", fields>>
IsJSON(v)    == v[1] = "json"

Blank == Text("")
None  == Text("None")   \* what Python writes for a property that is not set
Unset == {Blank, None}

Get(props, key) == IF key \in DOMAIN props THEN props[key] ELSE Blank
Put(props, key, v) == [k \in DOMAIN props \cup {key} |-> IF k = key THEN v ELSE props[k]]

-----------------------------------------------------------------------------
(* Property names.                                                         *)

Required == {"Name", "NodeID", "GraphID"}

\* Structured properties that are a Go struct, which drops what it does not
\* know, and those that take any entries.
Structs ==
  {"Capacities", "CapacityHints", "Labels", "CapacityAllocations", "LabelAllocations",
   "ReservationInfo", "StructuralInfo", "Flags", "Location", "Gateway", "ERO", "PathInfo", "PeerLabels"}
Lists == {"Tags", "NodeMap", "MaintenanceInfo"}
Blobs == {"UserData", "LayoutData", "MeasurementData"}
JSONPropertyNames == Structs \cup Lists \cup Blobs \cup {"LabelDelegations", "CapacityDelegations"}

\* The properties of every class, and those of one.
BaseReads ==
  Required \cup {"Details", "BootScript", "StitchNode", "Capacities", "CapacityHints", "Labels",
                 "CapacityAllocations", "LabelAllocations", "ReservationInfo", "StructuralInfo",
                 "Tags", "Flags", "NodeMap", "UserData", "LayoutData", "MeasurementData"}

Reads ==
  [class \in Classes |-> BaseReads \cup {"Type"} \cup
     CASE class = "NetworkNode" ->
            {"Site", "ImageRef", "MgmtIp", "AllocationConstraints", "ServiceEndpoint", "Location", "MaintenanceInfo"}
       [] class = "NetworkService" ->
            {"Layer", "Technology", "AllocationConstraints", "ControllerURL", "Site", "MirrorPort",
             "MirrorVlan", "MirrorDirection", "Gateway", "ERO", "PathInfo"}
       [] class = "Component"       -> {"Model"}
       [] class = "ConnectionPoint" -> {"PeerLabels"}
       [] class = "Link"            -> {"Layer", "Technology"}]

\* knownProps: of any class, and "labels", which only the writer makes.
KnownProps ==
  (UNION Range(Reads)) \cup {"Class", "CapacityDelegations", "LabelDelegations", "labels"}

\* What a sliver of the class neither reads nor keeps as opaque.
Foreign == [class \in Classes |-> KnownProps \ (Reads[class] \cup {"Class"})]

-----------------------------------------------------------------------------
(* FromProps.                                                              *)

\* The value a field gets from a property; Blank when it keeps its zero value.
Decoded(key, v) ==
  IF key = "StitchNode" THEN IF v = Text("true") THEN v ELSE Text("false")
  ELSE IF key \in Structs /\ IsJSON(v) THEN JSON(v[2] \ {"unknown"})
  ELSE IF v = None /\ key \in JSONPropertyNames \cup {"ImageRef"} THEN Blank
  ELSE v

\* readJSON, readJSONValue and readBlob take JSON only.
Malformed(key, v) == key \in JSONPropertyNames /\ v \notin Unset /\ ~IsJSON(v)

Opaque(props) == {key \in DOMAIN props : key \notin KnownProps /\ props[key] \notin Unset}

\* FromProps, readBase: whether it succeeds, and the sliver.
FromProps(class, props) ==
  LET keys == Reads[class] \cap (DOMAIN props \cup {"StitchNode"})
      set  == {key \in keys : Decoded(key, Get(props, key)) # Blank} \cup Opaque(props)
  IN  [ok     |-> /\ Get(props, "Class") = Text(class)
                  /\ \A key \in keys : ~Malformed(key, Get(props, key))
                  /\ Required \subseteq set,
       sliver |-> [key \in set |-> Decoded(key, Get(props, key))]]

-----------------------------------------------------------------------------
(* ToProps.                                                                *)

\* The fields of a struct that encode to something are written; a field of
\* text is not when it says None, but for those that are written unless empty.
\* Flags, ERO and PathInfo have no omitempty: they are written whenever they are
\* there.
AlwaysWritten == Required \cup {"Type", "StitchNode", "Flags", "ERO", "PathInfo"} \cup Blobs

WrittenUnlessEmpty(class) ==
  {"Layer", "MirrorDirection"} \cup {key \in {"Site"} : class = "NetworkNode"}

SaysNothing(key) ==
  IF key \in Structs \cup Lists THEN JSON({}) ELSE IF key = "ImageRef" THEN Text("untyped") ELSE None

Written(class, key, v) == key \in AlwaysWritten \cup WrittenUnlessEmpty(class) \/ v # SaysNothing(key)

\* Capacities.Validate, Labels.Validate, Tags.Validate, validateBlobSize: a field
\* is "invalid" or "long" where the code looks at its format, range or size.
ValidCapacities(fields) == "invalid" \notin fields
ValidLabels(fields)     == "invalid" \notin fields /\ ("bgp_key" \in fields => "asn" \in fields)
ValidTags(fields)       == "invalid" \notin fields
ValidBlob(fields)       == "long" \notin fields

\* validateBase; PeerLabels and the rest are not validated.
Valid(s) ==
  LET fields(key) == IF key \in DOMAIN s THEN s[key][2] ELSE {}
  IN  /\ Required \subseteq DOMAIN s
      /\ \A key \in {"Capacities", "CapacityAllocations"} : ValidCapacities(fields(key))
      /\ \A key \in {"Labels", "LabelAllocations"} : ValidLabels(fields(key))
      /\ ValidTags(fields("Tags"))
      /\ \A key \in Blobs : ValidBlob(fields(key))
      /\ "BootScript" \in DOMAIN s => s["BootScript"] # Text("long")

\* baseProps and ToProps of the class: whether it succeeds, and the properties.
ToProps(class, s) ==
  LET written == {key \in DOMAIN s : Written(class, key, s[key])}
      always  == {"Class", "Type", "StitchNode"}
  IN  [ok    |-> Valid(s),
       props |-> [key \in written \cup always |->
                    CASE key = "Class"                               -> Text(class)
                      [] key = "StitchNode" /\ key \notin DOMAIN s   -> Text("false")
                      [] key = "Type" /\ key \notin DOMAIN s         -> Blank
                      [] OTHER                                       -> s[key]]]

=============================================================================
