------------------------------ MODULE Admission ------------------------------
(***************************************************************************)
(* What a caller can know before it submits a slice: the resources of the  *)
(* testbed, decoded from its graphs or summed up by the portal (pkg/       *)
(* catalog), what ValidateResourcesSummary finds in a spec (pkg/topology-  *)
(* builder) and which permission tags it needs (pkg/permission).  Mean-    *)
(* while others take and release what the testbed has, and its sites go    *)
(* into maintenance and come back.  The testbed and the portal are         *)
(* external.                                                               *)
(*                                                                         *)
(* Cores stand for cores, RAM and disk, as in Resources.  A spec is a set  *)
(* of nodes: nothing here depends on their order.                          *)
(***************************************************************************)
EXTENDS Resources, Sequences, FiniteSets, Functions

CONSTANTS
  Sites,
  Workers,      \* worker -> [site, type, cores, stated: whether its Site is]
  Devices,      \* device -> [worker, type, model, units]
  Ports,        \* facility port -> [site, stated]
  NodeSpecs,    \* what callers may put into a spec
  Models,       \* catalog: <<type, model>> -> the names of the model
  FABlibModels, \* FABlib name -> <<type, model>>
  Flavors,      \* instance type -> cores
  Step,         \* how many cores others take or release at once
  MaxNodes      \* bound on the nodes of a spec

ASSUME TestbedAssumption ==
  /\ \A w \in DOMAIN Workers : Workers[w].site \in Sites /\ Workers[w].cores \in Nat
  /\ \A d \in DOMAIN Devices :
       Workers[Devices[d].worker].type \in ServerTypes /\ Devices[d].units \in Nat \ {0}
  /\ Sites \cap DOMAIN Workers = {}
ASSUME BoundsAssumption == Step \in Nat \ {0} /\ MaxNodes \in Nat

VARIABLES
  used,      \* of a worker: cores, of a device: units, that are allocated
  down,      \* sites in maintenance
  summary,   \* site -> the portal's summary as fetched last, or NoSummary
  spec       \* the spec the caller writes

vars == <<used, down, summary, spec>>

NoSummary == << >>

-----------------------------------------------------------------------------
(* The testbed and what describes it.                                      *)

WorkersAt(site) == {w \in DOMAIN Workers : Workers[w].site = site}
DevicesAt(site) == {d \in DOMAIN Devices : Workers[Devices[d].worker].site = site}

SiteNode(s, class, type) ==
  LET all(f(_)) == MapThenSumSet(f, WorkersAt(s))
  IN  [id |-> s, class |-> class, type |-> type, name |-> s, site |-> "", model |-> "",
       capacity |-> all(LAMBDA w : Workers[w].cores), allocated |-> all(LAMBDA w : used[w])]

WorkerNode(w) ==
  [id |-> w, class |-> "NetworkNode", type |-> Workers[w].type, name |-> w, model |-> "",
   site |-> IF Workers[w].stated THEN Workers[w].site ELSE "",
   capacity |-> Workers[w].cores, allocated |-> used[w]]

DeviceNode(d) ==
  [id |-> d, class |-> "Component", type |-> Devices[d].type, name |-> d, site |-> "",
   model |-> Devices[d].model, capacity |-> Devices[d].units, allocated |-> used[d]]

PortNode(p) ==
  [id |-> p, class |-> "ConnectionPoint", type |-> "FacilityPort", name |-> p, model |-> "",
   site |-> IF Ports[p].stated THEN Ports[p].site ELSE "", capacity |-> 0, allocated |-> 0]

Testbed(siteNodes, ports) ==
  [nodes |-> siteNodes \cup {WorkerNode(w) : w \in DOMAIN Workers}
               \cup {DeviceNode(d) : d \in DOMAIN Devices} \cup {PortNode(p) : p \in ports},
   has   |-> {<<Workers[w].site, w>> : w \in DOMAIN Workers}
               \cup {<<Devices[d].worker, d>> : d \in DOMAIN Devices} \cup {<<Ports[p].site, p>> : p \in ports}]

AdvertisedTopology == Testbed({SiteNode(s, "NetworkNode", "Site") : s \in Sites}, DOMAIN Ports)
BrokerModel        == Testbed({SiteNode(s, "CompositeNode", "Server") : s \in Sites}, {})

\* The portal's summary of a site; of one without components it may say that
\* it has none or not speak of components at all (given).
SiteSummary(s, given) ==
  LET site == SiteNode(s, "", "")
      components == SumOf({DeviceNode(d) : d \in DevicesAt(s)})
  IN  [state      |-> IF s \in down THEN "Maint" ELSE "Active",
       cores      |-> Availability(site),
       components |-> components,
       given      |-> given \/ components # << >>]

-----------------------------------------------------------------------------
(* The spec.                                                               *)

\* CapacitiesFromNode; a node spec has 0 cores when it states none.
CapacitiesFromNode(n) == IF n.cores = 0 THEN 2 ELSE n.cores

\* What the node is built with: an instance type stands for its cores.
CoresOf(n) == IF n.instance # "" /\ n.cores = 0 THEN Flavors[n.instance] ELSE CapacitiesFromNode(n)

\* ResolveFABlibModel; a component of a spec names a FABlib model or its own.
Resolved(c) == IF c.fablib # "" THEN FABlibModels[c.fablib] ELSE <<c.type, c.model>>

\* ComponentCatalog.Lookup: a model by its name or by another name of it.
Known(key) == \E m \in DOMAIN Models : m[1] = key[1] /\ key[2] \in Models[m]
ModelOf(key) == CHOOSE m \in DOMAIN Models : m[1] = key[1] /\ key[2] \in Models[m]

\* ValidateCatalog of a node.
InCatalog(n) ==
  /\ n.instance \in DOMAIN Flavors \cup {""}
  /\ \A c \in Range(n.components) :
       /\ c.fablib # "" => c.fablib \in DOMAIN FABlibModels
       /\ Known(Resolved(c))

\* The components that nodes are built with, as <<node, index>>.
ComponentsOf(nodes) == UNION {{n} \X DOMAIN n.components : n \in nodes}
Component(nc) == nc[1].components[nc[2]]

-----------------------------------------------------------------------------
(* ValidateResourcesSummary.                                               *)

Finding(severity, about, site) == [severity |-> severity, about |-> about, site |-> site]

\* resourcesComponentKey
Requested(nodes, key) == Cardinality({nc \in ComponentsOf(nodes) : Resolved(Component(nc)) = key})

\* Faulty variant (see README, "Mutants").
TooManyOfOne(wanted, limit) == wanted > limit + 1

TooMany(wanted, limit) == wanted > limit

\* Of one site the summary knows, for the nodes that are to be there.
SiteFindings(s, nodes) ==
  LET site  == summary[s]
      cores == MapThenSumSet(CapacitiesFromNode, nodes)
      keys  == {Resolved(Component(nc)) : nc \in ComponentsOf(nodes)}
      offered(key) == IF key \in DOMAIN site.components THEN site.components[key].capacity ELSE 0
      beyond(limit) == {key \in keys \cap DOMAIN site.components :
                          TooMany(Requested(nodes, key), site.components[key][limit])}
      full == TooMany(cores, site.cores.capacity)
  IN  {f \in {Finding("error", "state", s)} : site.state # "Active"}
      \cup {f \in {Finding("error", "component", s)} : site.given /\ \E key \in keys : offered(key) = 0}
      \cup IF full THEN {Finding("error", "cores", s)}
           ELSE {f \in {Finding("warning", "cores", s)} : TooMany(cores, site.cores.available)}
                \cup {f \in {Finding("error", "component", s)} : beyond("capacity") # {}}
                \cup {f \in {Finding("warning", "component", s)} : beyond("available") \ beyond("capacity") # {}}

\* Nothing is found with an empty summary; nodes without a site are passed over.
ValidateResourcesSummary ==
  LET at(s) == {n \in spec : n.site = s}
      named == {n.site : n \in spec} \ {""}
  IN  IF summary = NoSummary THEN {}
      ELSE UNION {IF s \in DOMAIN summary THEN SiteFindings(s, at(s)) ELSE {Finding("error", "site", s)} : s \in named}

-----------------------------------------------------------------------------
(* Permissions.                                                            *)

\* TagForSmartNICModel: a model it does not know takes the tag of ConnectX-6.
SmartNICTag(model) ==
  IF model \in {"ConnectX-5", "BlueField-2-ConnectX-6", "ConnectX-7-100", "ConnectX-7-400"}
  THEN model ELSE "ConnectX-6"

ComponentTags(type, model) ==
  CASE type \in {"GPU", "FPGA", "NVME", "Storage"} -> {type}
    [] type = "SmartNIC"                           -> {SmartNICTag(model)}
    [] OTHER                                       -> {}

\* Faulty variant (see README, "Mutants").
AtLimit(cores) == {t \in {"NoLimit"} : cores > 64} \cup {t \in {"NoLimitCPU"} : cores >= 2}

OverLimit(cores) == {t \in {"NoLimit"} : cores > 64} \cup {t \in {"NoLimitCPU"} : cores > 2}

\* RequiredTags of the nodes of a request.
RequiredTags(nodes) ==
  UNION {OverLimit(n.cores) \cup UNION {ComponentTags(c[1], c[2]) : c \in n.components} : n \in nodes}
    \cup {t \in {"Multisite"} : Cardinality({n.site : n \in nodes} \ {""}) > 1}

\* PermissionRequest: the spec as it stands.
PermissionRequest ==
  {[site |-> n.site, cores |-> n.cores,
    components |-> {<<c.type, c.model>> : c \in Range(n.components)}] : n \in spec}

\* The request for what Build makes of the spec.
BuiltRequest ==
  {[site |-> n.site, cores |-> CoresOf(n),
    components |-> {ModelOf(Resolved(c)) : c \in Range(n.components)}
                     \cup {t \in {<<"Storage", "NAS">>} : n.storage}] : n \in spec}

-----------------------------------------------------------------------------
(* What can happen.                                                        *)

Capacity(x) == IF x \in DOMAIN Workers THEN Workers[x].cores ELSE Devices[x].units
Amount(x)   == IF x \in DOMAIN Workers THEN Step ELSE 1

\* Others take and release.
Take    == \E x \in DOMAIN used : /\ used[x] + Amount(x) <= Capacity(x)
                                  /\ used' = [used EXCEPT ![x] = @ + Amount(x)]
                                  /\ UNCHANGED <<down, summary, spec>>
Release == \E x \in DOMAIN used : /\ used[x] >= Amount(x)
                                  /\ used' = [used EXCEPT ![x] = @ - Amount(x)]
                                  /\ UNCHANGED <<down, summary, spec>>

Maintain == \E s \in Sites : /\ down' = IF s \in down THEN down \ {s} ELSE down \cup {s}
                             /\ UNCHANGED <<used, summary, spec>>

\* GetResourcesSummary; one that fails leaves the caller with what it has.
GetResourcesSummary ==
  /\ \E given \in BOOLEAN : summary' = [s \in Sites |-> SiteSummary(s, given)]
  /\ UNCHANGED <<used, down, spec>>

\* The caller adds a node that the catalog accepts, or begins again.
AddNode ==
  /\ Cardinality(spec) < MaxNodes
  /\ \E n \in NodeSpecs \ spec : InCatalog(n) /\ spec' = spec \cup {n}
  /\ UNCHANGED <<used, down, summary>>

Discard == spec # {} /\ spec' = {} /\ UNCHANGED <<used, down, summary>>

Init ==
  /\ used = [x \in DOMAIN Workers \cup DOMAIN Devices |-> 0]
  /\ down = {} /\ summary = NoSummary /\ spec = {}

Next == Take \/ Release \/ Maintain \/ GetResourcesSummary \/ AddNode \/ Discard

Spec == Init /\ [][Next]_vars

-----------------------------------------------------------------------------
(* Properties.                                                             *)

\* Both decoders say of every site what the testbed has there, whichever of
\* its two graphs they are given, and every facility port is at its site.
DecodersAgree ==
  LET sites == {SiteRecord(SiteNode(s, "", ""), {HostRecord(WorkerNode(w), {DeviceNode(d) : d \in
                                {e \in DOMAIN Devices : Devices[e].worker = w}}) :
                             w \in {v \in WorkersAt(s) : Workers[v].type \in ServerTypes}},
                           {DeviceNode(d) : d \in DevicesAt(s)}) : s \in Sites}
  IN  /\ DecodeBrokerModel(BrokerModel) = sites
      /\ DecodeAdvertised(AdvertisedTopology) = sites
      /\ FacilityPorts(AdvertisedTopology) = {[name |-> p, site |-> Ports[p].site] : p \in DOMAIN Ports}

\* What the orchestrator can grant at all and now, site by site; devices of a
\* model are asked for under any of its names.
Wanted(s, m) ==
  Cardinality({nc \in ComponentsOf({n \in spec : n.site = s}) : ModelOf(Resolved(Component(nc))) = m})

Fits(taken(_), sites) ==
  \A s \in {n.site : n \in spec} \ {""} :
    /\ s \in sites
    /\ MapThenSumSet(CoresOf, {n \in spec : n.site = s})
         <= MapThenSumSet(LAMBDA w : Workers[w].cores - taken(w), WorkersAt(s))
    /\ \A m \in DOMAIN Models :
         Wanted(s, m) <= MapThenSumSet(LAMBDA d : Devices[d].units - taken(d),
                           {d \in DevicesAt(s) : <<Devices[d].type, Devices[d].model>> = m})

\* Specs that the check misjudges: an instance type counts as 2 cores, and a
\* model under another of its names is looked for under that name.
Misjudged ==
  \E n \in spec : \/ CoresOf(n) # CapacitiesFromNode(n)
                  \/ \E c \in Range(n.components) : Resolved(c) \notin DOMAIN Models

\* A finding that is an error, but for a site's state, will not go away whoever
\* releases what; and what finds nothing in a summary that is not stale fits
\* now, unless the summary does not speak of the components of a site
\* (resources.go:102: "Availability can change before apply").
FindingsAreRight ==
  ~Misjudged =>
    LET found == ValidateResourcesSummary
        fresh == \E given \in BOOLEAN : summary = [s \in Sites |-> SiteSummary(s, given)]
        silent == \E s \in DOMAIN summary : ~summary[s].given
    IN  /\ (\E f \in found : f.severity = "error" /\ f.about # "state") => ~Fits(LAMBDA x : 0, Sites)
        /\ found = {} /\ fresh /\ ~silent => Fits(LAMBDA x : used[x], Sites \ down)

\* The tags that are required of a spec are those that the slice built of it
\* requires (README.md:76), but for components named as in FABlib, storage, and
\* instance types, which the request does not speak of.
TagsNamed ==
  LET unnamed == UNION {UNION {ComponentTags(Resolved(c)[1], Resolved(c)[2]) :
                                 c \in {d \in Range(n.components) : d.fablib # ""}}
                          \cup {t \in {"Storage"} : n.storage}
                          \cup {t \in {"NoLimitCPU", "NoLimit"} : n.instance # ""} : n \in spec}
  IN  /\ RequiredTags(BuiltRequest) \ unnamed \subseteq RequiredTags(PermissionRequest)
      /\ RequiredTags(PermissionRequest) \subseteq RequiredTags(BuiltRequest)

=============================================================================
