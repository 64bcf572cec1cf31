---------------------------- MODULE MCPersistence ----------------------------
(* The elements, statements and labels of the instance of Persistence. *)
EXTENDS Persistence, FiniteSetsExt

\* What a program may set, one value per property, "None" and a value that is
\* not valid among them.
Settable ==
  [NetworkNode |->
     {<<"Site", Text("RENC")>>, <<"Site", None>>, <<"Capacities", JSON({"core"})>>,
      <<"Capacities", JSON({"invalid"})>>, <<"ImageRef", Text("rocky")>>, <<"BootScript", Text("long")>>,
      <<"MgmtIp", Text("ip")>>, <<"UserData", JSON({})>>, <<"Tags", JSON({"tag"})>>},
   NetworkService |->
     {<<"Layer", Text("L2")>>, <<"Site", None>>, <<"Labels", JSON({"asn"})>>,
      <<"Gateway", JSON({"ipv4"})>>, <<"MirrorPort", Text("p1")>>},
   Component |-> {<<"Model", Text("ConnectX-6")>>, <<"Labels", JSON({"vlan"})>>},
   ConnectionPoint |->
     {<<"Labels", JSON({"asn"})>>, <<"Labels", JSON({"vlan"})>>},
   Link |-> {<<"Layer", Text("L2")>>}]

OptionsOf(pairs) ==
  {[key \in {p[1] : p \in s} |-> (CHOOSE p \in s : p[1] = key)[2]] : s \in kSubset(0, pairs) \cup kSubset(1, pairs)}

ProgramOptions == [class \in Classes |-> OptionsOf(Settable[class])]

\* What the orchestrator may state: values of its own, values it takes back,
\* values that the Go types do not know, do not accept or cannot parse.
OrchestratorStatements ==
  {<<"LabelAllocations", JSON({"vlan", "unknown"})>>, <<"LabelAllocations", JSON({"invalid"})>>,
   <<"CapacityDelegations", JSON({"f"})>>, <<"PeerLabels", JSON({"asn", "unknown"})>>, <<"PeerLabels", None>>,
   <<"Labels", JSON({"bgp_key"})>>, <<"Labels", JSON({"vlan", "unknown"})>>, <<"Labels", Text("list")>>,
   <<"MgmtIp", Text("ip")>>, <<"Site", Text("UKY")>>, <<"ErrorMsg", Text("failed")>>, <<"ErrorMsg", None>>,
   <<"LeaseEnd", Text("monday")>>, <<"Tags", JSON({})>>, <<"StitchNode", Text("true")>>, <<"StitchNode", None>>, <<"labels", Text("a")>>}

CallersLabels == {{"vlan"}, {"asn", "bgp_key"}, {"bgp_key"}, {"invalid"}, {}}

=============================================================================
