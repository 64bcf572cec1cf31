---------------------------- MODULE SliceBuilder ----------------------------
(***************************************************************************)
(* A slice over its life: a user submits one spec after another.  The      *)
(* first is built; every later one modifies the model that the             *)
(* orchestrator has persisted.  A spec that fails changes nothing and is   *)
(* no step.                                                                *)
(***************************************************************************)
EXTENDS BuilderOps, Drift

CONSTANTS
  Specs,    \* the specs a user submits
  MaxLeft   \* bound on the ports that are left over, see LeftOver

VARIABLES
  model,    \* the persisted model of the slice
  applied,  \* the spec that was submitted last and succeeded
  grown     \* history variable: that spec, and what earlier ones have attached

vars == <<model, applied, grown>>

NoSpec == [nodes |-> << >>, networks |-> << >>, facilities |-> << >>, switches |-> << >>]

ASSUME SpecsAssumption ==
  /\ \A spec \in Specs : DOMAIN spec = DOMAIN NoSpec
  /\ MaxLeft \in Nat

\* Ports that belong to nothing: those of nodes that have been dropped.
LeftOver(G) == {p \in Ports(G) : Incoming(G, p, "connects") = {}}

\* A network that is kept keeps the interfaces of the nodes that are kept, those
\* included that the spec takes off it: connectMissing only adds.  A port mirror
\* that is kept gets none.
Grown(spec) ==
  LET stays(m)   == SelectSeq(m.interfaces, LAMBDA ref : {ref.node, ref.facility} \cap NodeNames(spec) # {})
      missing(n, m) == IF n.type = "PortMirror" THEN << >>
                       ELSE SelectSeq(n.interfaces, LAMBDA ref : ref \notin Range(stays(m)))
      grows(n, m) == [n EXCEPT !.interfaces = stays(m) \o missing(n, m)]
      before(n)  == {m \in Range(grown.networks) : m.name = n.name}
  IN  [spec EXCEPT !.networks =
        [k \in DOMAIN @ |-> IF before(@[k]) = {} THEN @[k] ELSE grows(@[k], CHOOSE m \in before(@[k]) : TRUE)]]

\* No model is persisted yet.
Create(spec) ==
  /\ applied = NoSpec
  /\ \E r \in {BuildFrom(spec)} : r.ok /\ model' = r.graph
  /\ applied' = spec /\ grown' = spec

Submit(spec) ==
  /\ applied # NoSpec
  /\ \E r \in {ModifyFrom(spec, model)} : r.ok /\ model' = r.graph
  /\ applied' = spec /\ grown' = Grown(spec)

Init == model = NewGraph /\ applied = NoSpec /\ grown = NoSpec

Next ==
  /\ Cardinality(LeftOver(model)) <= MaxLeft
  /\ \E spec \in Specs : Create(spec) \/ Submit(spec)

Spec == Init /\ [][Next]_vars

-----------------------------------------------------------------------------
(* Properties.                                                             *)

\* The model without them.
Live == Delete(model, LeftOver(model))

\* The site and the inferred type of a network are set when it is added and
\* stay: they are left out of the comparison.
Untyped(G) == [G EXCEPT !.nodes = [n \in Ids(G) |->
  IF n \in SliceNetworkServices(G) THEN [G.nodes[n] EXCEPT !.site = NoSite, !.type = ""] ELSE G.nodes[n]]]

\* A fresh build of a spec whose networks need not keep to the limits of their
\* types, which are not checked for networks that grow or shrink: they are of a
\* type that has none, and those without interfaces are added as they are.
BuildUnlimited(spec) ==
  LET typed    == [k \in DOMAIN spec.networks |->
                     IF spec.networks[k].type = "PortMirror" THEN spec.networks[k]
                     ELSE [spec.networks[k] EXCEPT !.type = "L2Multisite"]]
      empty(n) == n.interfaces = << >>
      add(r, n) == NewNode(r, ChooseID(NoID, <<"service", n.name>>), Element("NetworkService", n.name, n.type))
  IN  InTurn(add, BuildFrom([spec EXCEPT !.networks = SelectSeq(typed, LAMBDA n : ~empty(n))]), SelectSeq(typed, empty))

\* Whatever specs came before, the model of a slice is the one a fresh build of
\* the last would give, but for the generated IDs, the sites and types of
\* networks and those ports: no attachment, network or node is missing, and none
\* is too many but the attachments that an earlier spec made and a later one
\* left out while it kept both the network and the node (builder.go:43-157).
ModifyEqualsBuild ==
  \A built \in {BuildUnlimited(grown)} : built.ok /\ Empty(DiffGraphs(Untyped(built.graph), Live))

\* Nodes and networks of the model that the spec keeps, with everything that
\* belongs to them: components, services, ports, and the attachments of kept
\* nodes to kept networks.
Kept(spec) ==
  LET nodes    == {n \in NetworkNodes(model) : NameOf(model, n) \in NodeNames(spec)}
      networks == {s \in SliceNetworkServices(model) : NameOf(model, s) \in NamesOf(spec.networks)}
      owned    == nodes \cup UNION {Descendants(model, n) : n \in nodes}
      ports    == UNION {Interfaces(model, s) : s \in owned}
      attached == {p \in UNION {Interfaces(model, s) : s \in networks} : GetPeers(model, p) \cap ports # {}}
      links    == (UNION {Outgoing(model, p, "connects") : p \in attached}) \cap Links(model)
  IN  owned \cup ports \cup networks \cup attached \cup links

\* "This preserves every persisted NodeID, reservation id, and structural
\* element (service ports, links)" (builder.go:16): of what the next spec keeps.
KeptElementsStay ==
  [][applied # NoSpec =>
       LET kept   == Kept(applied')
           bare(n) == [n EXCEPT !.vlan = NoVLAN]
       IN  /\ kept \subseteq Ids(model')
           /\ \A n \in kept : bare(model'.nodes[n]) = bare(model.nodes[n])
           /\ \A e \in model.edges : {e.source, e.target} \subseteq kept => e \in model'.edges]_vars

\* Submitting the same spec again changes nothing: no attachment is doubled,
\* no element replaced (builder_modify_roundtrip_test.go:145).
ResubmitChangesNothing == applied # NoSpec => ModifyFrom(applied, model) = Ok(model)

-----------------------------------------------------------------------------
(* What a comment in the code says and the code does not do.               *)

\* "ignoring generated IDs" (diff.go:86): two builds of one spec, each with
\* random IDs of its own, show no drift.
SameSliceNoDrift == \A built \in {BuildFrom(applied)} : Empty(DiffGraphs(built.graph, built.graph))

=============================================================================
