# TLA+ verification of fabric-go-fim

`fabric-go-fim` is a Go SDK for FABRIC slices: it keeps a slice as a property
graph, builds and modifies that graph, compares it with what the orchestrator
has, and talks to the orchestrator with tokens it refreshes. This directory
models the parts of it that keep state or that several goroutines, processes or
peers act on, checks them with TLC on small instances, and proves what it can
with TLAPS for every instance. Every definition is a translation of the Go code;
`PROJECT.json` ("map") names the lines it stands for.

## The system

| Component | State | Operations | Behaviour that is hard |
|---|---|---|---|
| `internal/graph` property graph | `nodes` map, `order` slice, `edges` slice, one `RWMutex` | add/update/delete node, add/delete edge, copies of both | three structures that must agree; readers that lock twice |
| `internal/graphml` reader/writer | none of its own | `Read`, `Write` of a graph | writes from two copies taken at different times; words that mean "not set"; what is written must be readable |
| `pkg/sliver` | none of its own | `FromProps`, `ToProps`, validation of five kinds of slivers | values the types do not know, foreign properties, a read-modify-write through a typed record |
| `pkg/topology` builder | one graph; facades are IDs | `Add*`, `ConnectInterface`, `Peer`, `Disconnect*`, `Remove*`, `SetLabels` | multi-step calls that fail half way; IDs derived from names; lookups by name; stale facades |
| `pkg/topologybuilder` | none of its own | `Build`, `BuildModifyFromExisting` | edits the persisted model in place; order of detaching and removing |
| `pkg/diff` | none of its own | `NormalizeGraph`, `DiffGraphs` | comparison by name; failure that reads as "no change"; what is ignored, and what counts as intent |
| `pkg/auth.FileToken` | tokens in memory under a mutex, the token file | `NewFileToken`, `IDToken`, `Claims`, `ProjectID` | refresh tokens that end when used; a file rewritten in place; crashes; the lock across an HTTP exchange |
| `pkg/poller` | deadline timer, ticker, context | `WaitForSlice`, `WaitForPOA` | timeout against late answer, slow requests, a slice that goes away |
| `pkg/client`, `pkg/coreapi` | none | one HTTP exchange per call; `ListSlices` pages | offset paging over a list that changes |
| `pkg/catalog` | tables loaded once | `Generate`, `MapCapacitiesToInstance`, decoding of two graphs and of the portal's summary | two descriptions of one testbed; a summary that is stale |
| `pkg/permission` | tables | tags a request needs | the request is the spec, what is needed is for what is built |
| `pkg/userdata`, `pkg/fabtime`, `pkg/sshkeys` | none | conversions | none of their own |

How they interact: `topologybuilder` calls `topology` methods on a `Topology`;
each of these is a sequence of `graph` calls; `topology.Diff` hands two graphs to
`diff`, which copies them under the graph's lock; `Serialize` hands a graph to
`graphml`. `client` asks a `TokenSource` (`FileToken`) for a token on every
request and `poller` calls `client.GetSlice` in a loop. `PROJECT.json`
("components") lists all parts with what is modelled of each, and ("hazards")
every place where this code can go wrong in a way that is hard to test.

## Modules

* **GraphStore** is `graph.Graph`: `nodes`, `order` and `edges` are its fields,
  every exported method is one action because it holds `g.mu` throughout, and a
  reader (`graphml.Write`, `diff.NormalizeGraph`) is `ReadNodes` then
  `ReadEdges` with any mutation between them. An error return changes nothing
  and is no step. Of the nodes a reader has copied only the IDs are kept, since
  edges are resolved by ID.
* **GraphContract** is what the graph promises without its lists: a map and a
  bag. `GraphStore!ImplementsContract` is the refinement.
* **SliceGraph** is the same API as a value, for the sequential code above it: a
  call takes a *result* (a graph, and whether all calls so far succeeded) to a
  result, so that `Go`'s `if err != nil { return err }` is a failed result passing
  through. `OrDelete` is `if err != nil { DeleteNode(...); return err }`.
  Edges are a set: no call of `topology` can tell one copy of an edge from two.
* **TopologyOps** is every builder method of `pkg/topology` as such an operator,
  with its checks, ID derivation, order of graph calls and error paths. IDs are
  tuples: a derived UUID is the tuple it is derived from, so that two are equal
  exactly when the code derives the same UUID; caller-supplied and random IDs
  have their own shapes. Names are tuples of words. Where the code takes the
  first match in insertion order the operators return all matches and the
  callers take any.
* **Topology** is a state machine over one slice graph: every builder call with
  every option record its caller passes, failing calls included, in any order.
  A *caller* is a record of the options it uses and of its *liberties*, what it
  does beyond the discipline of `topologybuilder` (stale facades, peering,
  removing what is attached or owned by others). `DropNode` is the step by which
  `BuildModifyFromExisting` drops a node (`DropNodeFrom` of BuilderOps).
* **BuilderOps** is `topologybuilder`: `Build` (`BuildFrom`) and
  `BuildModifyFromExisting` (`ModifyFrom`) as operators from a spec, and a model, to
  a result, made of the operators of TopologyOps in the order of the code: drop
  nodes, drop networks, add what is new, connect what is missing. It also has
  `InferServiceType`.
* **Drift** is the comparison of two graphs by `diff.DiffGraphs`: elements go by
  name, and of several with one name the last one by class and ID stands for all.
  IDs are generated, so any of those may be last: a name counts as changed when
  some choice shows a change.
* **SliceBuilder** is a slice over its life: a user submits one spec after another,
  each modifying the model that the last one left. It composes the two. `grown` is
  history: the last spec, with the interfaces that earlier ones attached and that have
  stayed.
* **FileToken** is `auth.FileToken` with goroutines that call `IDToken`, the
  credential manager (external: accepts one refresh token at a time, may replace
  it), the token file with `os.WriteFile` as open-and-truncate then write, and
  lost responses, failed writes, crashes and restarts. A write can report an error with
  the file as it was, with part of the token in it, or with all of it (an error on close,
  or only the newline missing). `unconfirmed` is history: that the last write of a process
  was one of the last kind. The code never reads it.
* **Poller** is `WaitForSlice`/`WaitForPOA` with discrete time: a deadline timer
  that stays ready once it has fired, a ticker that keeps one tick and drops
  others, requests that take up to `MaxCall` units, and a slice that changes and
  disappears. The orchestrator serves a request some time before the answer arrives;
  a request can fail before it was served or after.
* **SliceListing** is `client.ListSlices`: a token and a request per page, an
  offset, and an orchestrator (external) whose list changes between any two
  pages: slices come anywhere in it, go, and change state, and with that match or
  no longer match what was asked for. `always`, `left` and `entered` record what
  that did to the call under way; the call never reads them.
* **SharedTopology** is one `topology.Topology` under the calls of goroutines.
  `graph.Graph` locks each of its calls, so a builder method is a *sequence* of
  graph calls: `todo` is what a goroutine still has to do. A read replaces itself
  by what follows from what it read, a failed call puts the deletions of its error
  path in place of all that was left. It uses the lookups and derived IDs of
  TopologyOps, which the sequential modules use as whole operations. No call passes
  an ID: two nodes of one name with two IDs given would both be added.
* **Slivers** is `pkg/sliver`: `FromProps`, `ToProps` and `Valid` of each class over
  property maps. A value is a word, or a JSON object that sets some fields, of
  which `unknown` stands for one that the Go type does not have and `invalid` for
  one whose value breaks a rule.
* **GraphML** is `graphml.Write` and `graphml.Read` between a graph and a document
  whose key table is resolved.
* **Persistence** is a slice that outlives its program: it is built, submitted,
  loaded, labelled (`SetLabels` reads a sliver, merges, and writes all of it back)
  and submitted again, while the orchestrator (external) states properties and
  reorders the document it keeps. `known` is what the program was told. The
  comparison of properties by `pkg/diff` is defined on it.
* **Resources** is `catalog.DecodeAdvertised` and `DecodeBrokerModel`, which describe
  one testbed from two kinds of graphs.
* **Admission** is what a caller can know before it submits: the portal's summary
  (fetched, then stale), `ValidateResourcesSummary`, `ValidateCatalog`,
  `PermissionRequest` and `RequiredTags`, against a testbed (external) that others
  take from and release to and whose sites go into maintenance. Cores stand for
  cores, RAM and disk: they are compared in the same way and one over is enough.
* **MCGraphStore, MCTopology, MCSliceBuilder, MCPoller, MCSliceListing,
  MCSharedTopology, MCPersistence, MCAdmission** give the instances their values.
* **GraphStoreProofs, TopologyProofs, SharedTopologyProofs, PersistenceProofs,
  FileTokenProofs, PollerProofs, SliceListingProofs** hold the theorems, each about the
  module it is named after (GraphStoreProofs also that it refines GraphContract), and
  **SetInduction** the induction they share (see *Proofs*).

## Runs

"pass" runs find no error; "violation" runs show what a comment says and the code
does not do.

| Run | Question | Bounds, and why they are enough |
|---|---|---|
| GraphStore | do map, order and edge list agree, implement a map and a bag, keep insertion order; does a reader fail only through interference | three nodes (the smallest number at which a removal can reorder others), two edge slots (both ends, or two copies of one edge), two node classes, one reader (readers do not touch one another) |
| Slices | does every service port have one live peer under any order of disciplined calls; does disconnecting undo connecting; does a name find one node and one service | two nodes and two networks, so that an interface is on two services and a service on two nodes; at most 13 elements. A second caller has a switch, a network with the name of the switch's service, an extra port, sub-interfaces and a port mirror within 9 elements |
| AnyCaller | do calls that fail half way leave what was there; is ownership a forest | one caller clashes IDs and names of nodes, NICs and services and one those of ports and sub-interfaces, within 7 elements, the third has all liberties within 8: enough for a service, its port, its link and the things they collide with |
| Modify | is the model of a slice the one a fresh build gives of the last spec and of what earlier ones attached; does what a spec keeps stay as it was; does a repeated spec change nothing | a bridge, a VM, a facility and a switch that stay, with any of two VMs, a second network that has one of them or leaves it off, and a port mirror: a network loses all, some or none of its members, a spec takes an interface of a kept node off a kept network, and a node comes back after it was dropped; at most three ports left over (`MaxLeft`) before the last step, so that each of the two VMs is dropped and comes back |
| Token | are refresh tokens used once; does the file follow memory; does every call return | two threads (one waits, one works), three refresh tokens (old, new, newer), token lifetimes none, short and long, a clock of 4 |
| Wait | does the wait end, on fresh state, without bursts of requests | interval 3, timeout 7 (not a multiple), requests up to 5 (miss a tick) |
| Listing | which slices can a listing miss or list twice, does it return all or an error, does it end | pages of 2, at most 4 slices and 2 changes, two requests, one of which a slice can begin or stop to match: pages that are full, short and empty, and a change in front of, at and behind the offset |
| Concurrent | which builder calls may run at the same time on one topology | three goroutines and three calls out of 14 kinds on a VM port, a switch port and two networks: every pair of calls, and every pair with a third that runs before, during or after |
| Persist | does what the orchestrator states survive loading, labelling and submitting; is what is written readable; is drift what it stated | an element of each of the five classes below its owner with at most one of 19 options, at most two of 17 statements in a document (they meet only through one property), five label sets, any number of rounds |
| Resources | do both decoders see one testbed; when is the check of a spec right; are the tags those of what is built | two sites, three hosts of the three host types and a switch, two devices of one model, hosts and ports that state their site or not; all specs of up to two of nine nodes |
| TokenWriteFails | see *Findings* | as Token, with one fault |
| FalseDrift | see *Findings* | one spec, two VMs whose NICs have one name |

Deadlock is checked except in Token (the clock is bounded), Wait (the wait
returns), Modify (`MaxLeft` ends a history) and Concurrent (`MaxCalls` does). The
goroutines of Concurrent are symmetric; it checks no liveness.

The comparison in `ModifyEqualsBuild` leaves out what the code leaves as it is by
design or by omission: the type and site of a network, which are set when it is
added; labels that a fresh build would not set; and the ports of dropped nodes,
which stay (see *Findings*). What it builds afresh is `grown`, not the last spec: an
interface of a kept node that a spec takes off a kept network stays attached, because
`connectMissing` only adds; the property says that these are all that is too many. The
fresh build does not check the limits of service types (`BuildUnlimited`), which a network
that gains or loses interfaces may have left behind, and it must succeed: the property is
never satisfied by a build that fails. The specs of Modify stay within what
`BuildModifyFromExisting` is for: they never change a node, have no sub-interfaces, and have
a mirror only together with its ends. What the code does outside this is listed under
"hazards" (`builder.go:64`, `:111`, `facades.go:305`, `topology.go:354`).

What the properties of the newer runs leave out, they name:

* `MissedAtMostLeft` and `TwiceAtMostEntered` do not say that a listing is complete.
  It is not: they bound what it misses by what happened meanwhile.
* `AttachmentsAreWhole`, `LabelsLostOnlyByOverlap` and `VLANsClashOnlyByOverlap` hold unless
  calls overlapped that the property names (`Tears`, `Forgets`, `SameParent`): these are the
  pairs that a caller must keep apart itself. All others may overlap, and the runs would show
  one that may not, of the seven methods they call: `RemoveNode`, `RemoveComponent`,
  `RemoveLink`, `AddLink` and `Peer` are not among them. `Forgets` has two parts, both about
  the one port: labels set on it twice at once, and labels set on it while a call that adds it
  is under way, which may fail and take it back, or add it anew after it was removed. A call
  that only removes the port loses nothing that is still there. The race itself does happen:
  the properties say that nothing else has its effect. `VLANsClashOnlyByOverlap` also leaves
  out callers that set labels on sub-interfaces (`SetsLabelsOfChild`), which no check of VLANs
  guards.
* `LookupsAreUnambiguous` compares all services, since `NetworkService` and
  `RemoveNetworkService` look among all. Only the names of the slice's own are checked when
  one is added, so it rests on the caller: in Slices, and in the theorem, IDs follow from
  names and no service gets the name that a component gives its own (`KeepsDiscipline`). A
  caller that names a network like the service of a NIC, or passes IDs for the services of
  two facilities of one name that both fail, can have two services of one name.
* `RefreshAccepted` and `FileMatchesMemory` except a write that reports an error although all
  of the token is in the file (`unconfirmed`): there the file is ahead of memory, and the next
  call sends the token that has been exchanged. `FileMatchesMemory` still says that it is
  ahead and never behind, and that nothing but such a write brings it there.
* `DecodersAgree` compares names, cores and components, not the state of a site
  (broker.go:39), RAM and disk.
* `StatementsStay` leaves out what an `InterfaceSliver` cannot hold (`Foreign`),
  `ReloadIsExact` the element called None, `DriftIsStated` properties that read back as
  something else than was stated (fields that no Go type has, words for true and false).
* `FindingsAreRight` leaves out instance types, models under another of their names
  and summaries that do not speak of components; `TagsNamed` components named as in
  FABlib, storage and instance types. Each exemption is something the code gets
  wrong or does not look at, listed below.

**Fairness.** Safety runs need none. In FileToken a call that holds the lock goes
on (`WF`): the exchange and the file write end; and a waiting goroutine gets the
mutex if it is released again and again (`SF`): Go's mutex hands over to a waiter
after 1 ms. Neither the clock nor a restart nor a fault is fair. In Poller the
loop goes on and time passes (`WF`); `SelectDeadline` is strongly fair because
Go's `select` chooses uniformly among ready cases, so that with slow requests, when
a tick is ready at every select, the deadline is passed over for ever only with
probability 0. In SliceListing exchanges end, well or not (`WF` of `Exchange`, which is
enabled exactly while a call is under way); the orchestrator is not fair, and
`ListingReturns` holds although its list may grow, because it grows only finitely
often (`MaxChanges`): with a list that grows by a page per page nothing ends.

## Mutants

Each property of a passing run is broken by a plausible bug: the modules define
*faulty variants* next to the definitions they vary (`Incident` that forgets one
end, `OrDelete` that keeps or always deletes, `Lock` that does not wait, a `select`
that prefers the tick). They are used by no specification; `PROJECT.json`
("mutants") says which one breaks which property.

## Proofs

TLC checks the small instances above; the theorems hold for every value of the
constants that satisfies the named assumptions. "Holds" means in every state, or
step, of `Spec`.

| Module | Theorem | What it says, and for what |
|---|---|---|
| GraphStoreProofs | `TypeCorrect`, `OrderCorrect`, `EdgesAttached` | `TypeOK`, `OrderListsNodes`, `NoDanglingEdge` hold; any IDs, classes, data and readers |
| | `FailuresExplained` | a reader fails only if the nodes changed between its two copies |
| | `OrderIsStable` | no step exchanges two nodes of the insertion order |
| | `Implements` | GraphStore implements GraphContract: map, order and edge list behave as a map and a bag |
| TopologyProofs | `TypeCorrect`, `OwnersUnique` | a slice graph has FIM's kinds of elements and edges, and nothing in it has two owners; any callers, options, IDs that collide, calls that fail half way |
| | `FailuresLeaveNothing` | the calls that promise it leave nothing behind when a step of theirs fails |
| | `BuildingKeeps` | no call that builds takes away or alters what was there |
| | `PeersUnique`, `NothingDangles` | every ServicePort has one peer, and that is on a service, sub-interfaces apart; any callers that keep the discipline (`KeepsDiscipline`), any calls in any order, those that fail included |
| | `DisconnectInverse` | for them, disconnecting restores the graph that there was before connecting |
| | `LookupsUnambiguous` | for them, a name finds one node and one service, those of components, nodes and switches included |
| SharedTopologyProofs | `NamesUnique` | no two nodes and no two services get one name; any number of goroutines and of overlapping calls, whatever is removed meanwhile |
| | `LabelsStaySet` | labels are lost only when calls overlap on that very port, two that set its labels or one that adds it; a generated local name never |
| | `VLANsStayApart` | sub-interfaces get one VLAN only from overlapping calls on their port, or from labels set on them |
| PersistenceProofs | `TypeCorrect` | the graph and the document have the elements that were built, and they can be read; any options, statements, labels and order of steps |
| | `StatementsKept` | what was stated and loaded stays, through any number of label changes, submissions and loads, but for what a sliver cannot hold |
| | `ReloadsExactly` | what is written is readable and is the same graph, if no element is called None |
| | `DriftIsExplained` | drift that is shown was stated, or set as labels, or is a property that reads back differently |
| FileTokenProofs | `TypeCorrect`, `OneCallWorks` | at most one call of a process is between `Lock` and its return; any number of processes and goroutines, all faults |
| | `RefreshIsAccepted`, `FileIsMemory` | a refresh token that was replaced is never sent, unless its replacement was lost or its write reported an error; a readable file holds what memory holds, or newer tokens of such a write; one process, any number of goroutines |
| PollerProofs | `TypeCorrect`, `NoBursts`, `OutcomeCorrect` | `TypeOK`, `RequestsAreSpaced`, `OutcomeIsRight` hold; any interval, timeout and duration of requests |
| SliceListingProofs | `TypeCorrect` | `TypeOK` holds: among others, a listing that fails returns nothing |
| | `MissesAreExplained`, `RepeatsAreExplained` | a listing misses, or repeats, at most as many slices as stopped, or began, to match in front of its offset; any page size, list and changes between pages |

**GraphStore.** The inductive invariant is `TypeOK`, `OrderListsNodes` and
`NoDanglingEdge` together. None is inductive alone: `DeleteNode` removes the *first*
occurrence of a node from `order`, which removes it from the list only because
`OrderListsNodes` says it occurs once; `AddNode` keeps occurrences unique only
because the order lists no node outside the map; edges stay attached under
`DeleteNode` because the filter keeps exactly the edges of type `Edge` that are not
incident. Lemmas on `First`, `Without` and `Kept` carry the reasoning about
sequences.

**The refinement.** The bag of edges counts, for each edge, its positions in the
list. `CountAppend`, `CountWithout` and `CountKept` say what happens to that count
when an edge is appended, when its first occurrence is cut out and the rest shifts,
and when the incident ones are filtered; a lemma per action then maps it to an
action of the contract. The steps of readers are stutters.

**Topology.** `Inv` of TopologyProofs (the graph is finite and well formed, its edges
have the shapes of FIM, everything has at most one owner) is preserved by each graph
call on its conditions (`WithNodeKeeps`, `WithEdgeKeeps`, `DeleteKeeps`), and each
builder method is one lemma: its result *grows* the graph (`Grows`) unless it removes
something. What makes the difference between "grows" and "leaves nothing" is
`OrDelete`: `Made` says that all a call has added so far hangs on the node that its
error path deletes, so deleting that restores the graph exactly
(`AddInterfaceIsAtomic`, `ConnectIsAtomic`, ...). That a second owner cannot come is
not local: `NewEdge` adds an owner only to a node that this call has just added
(`NewNodeFresh`), which needs that a failed `NewNode` stops the call. Removals are a
fold over what is to be deleted, by `SubsetInduction`.

**Disciplined callers.** A caller with liberties can give a ServicePort two peers or none, so
the invariant has a second part, `Orderly`: if the caller keeps the discipline of
`topologybuilder`, the graph is `Neat`. `PeersInv` says that to every ServicePort there are
one Link and one interface (`Attaches`), that the port's ID is the one derived from the
service's *name* and the interface, and that the interface is where it was. `NamesInv`
says that IDs and names of services and nodes are what the caller gives them; it is needed
because both the ID of a ServicePort and `RemoveNetworkService` go by name: the service
that is removed is the slice's own only if no component's service has its name
(`NamesFindOne`, and `KeepsDiscipline` asks for that). That no two services at all have one
name is `LookupsUnambiguous`.
What building keeps of it: a call that attaches nothing is `Tidy` (no new ServicePort, no
edge to an old port from a new service), and `ConnectKeeps` says that an interface below a
node can be attached with all other attachments intact. What removing keeps: a deletion
that `Spares` links and interfaces of the attachments that stay keeps them; of each way to
remove, one lemma says that it does (`DisconnectKeeps`, `RemoveServiceKeeps`, `SubtreeKeeps`,
`RemoveLinkKeeps`). For `DropNode` the fold of detachments is unfolded by `SubsetInduction`:
after it, nothing below the node is attached (`DetachedWhen`), which `SubtreeKeeps` needs,
and disconnecting *one* ServicePort per service and interface is enough because its ID
leaves room for no second (`DetachKeeps`).
The hypothesis on callers is that of the theorems, not of the model; the callers of Slices
satisfy it (`SlicesKeepDiscipline` in MCTopology, which TLC evaluates).

**SharedTopology.** A goroutine that finds a name free may add it much later. What
saves it is that the name determines the ID and `AddNode` refuses an ID twice. So
`GraphInv` says that every node and service without an owner has the ID of its name, and the
name of its ID,
and, for that to last, that nothing loses an owner: `TodoInv` says that every graph
call still to be made is `Safe` and every deletion of an error path `Harmless`, that
is, spares the owners. A slice built with explicit IDs does not satisfy
`StartAssumption`, and the property fails on it.

For labels and VLANs the invariant also says what each goroutine is doing (`Fits`: a call
that sets labels has a read or an update left, one that adds a sub-interface one of six
lists), that calls which run at once are known to overlap (`OverlapsInv`), that an added
sub-interface belongs to the one goroutine that has not joined it yet (`MadeInv`), that a
VLAN found free is free still unless another call adds to that port (`VLANsInv`), and that
what is about to be written is what was asked for unless it is known to be too late
(`LabelsInv`, `LocalNamesInv`). Owners and sub-interfaces are never deleted (`Deletable`), so
what comes and goes is ports that calls attach by; when one comes, its call *attaches* by it
(`AttachedTogether`), which needs that the ID of a service has the service's name in it
(`ServiceName`). The proof is what showed that labels are also lost on a port that a failing
`ConnectInterface` takes back, if they are set on it in between.

**Persistence.** The invariant is about what is *said*: a graph has what the program
knows was stated, but for fields that a sliver cannot hold (`StatementsIn`), and its own
options (`OwnIn`); a document has all that was stated; and what differs between the two was
stated since, or is a label (`DriftInv`). The lemmas are about the conversions: writing
drops only what says nothing, decoding twice is decoding once (`DecodedTwice`), reading what
was written gives the trimmed graph back (`ReadsGraph`), and `ToProps` of a labelled sliver
is the property map it came from but for the label and what the sliver does not know
(`RelabelledProps`). They hold of all tables and values that satisfy `Tables` and `Values`.

**FileToken.** `LockInv` (who works holds the lock, and only one does) is inductive with
`TypeOK` alone. `TokenInv` follows the token through a call: between the answer of the
credential manager and the write, the valid refresh token is in the call only; after the write
file and memory agree, or the file is ahead of memory and `unconfirmed` says so, until the
next write truncates it or a restart takes what it holds (`Follows`). It needs `Sources =
{p}`, a hypothesis of the two theorems that rest on it: processes that share a file exchange
one another's tokens (see *Findings*), so it is false for two.

**Poller.** `SpacingInv` and `FreshInv` relate the ticker to what has passed of a
request: as long as requests are shorter than the interval, the ticker's phase and
the request's time add up to it, so no tick waits when an answer arrives; what the
wait last saw is no older than that. `CreditInv` is what `NoBursts` states of the
requests beyond one per interval.

**SliceListing.** What is missed is known only at the end, so `ListingInv` speaks of every
*cut* of the list as it is now, that is, a place between two slices. `CutInv`: where no
more than the offset match in front of a cut, all of them that matched all the time are
listed, but for one for each slice that left; and as many as match there are listed and
will not be met again, but for one for each that entered. `PageAdvances` moves it by a
page, for the cuts that the page reaches (`PageIs`); `BecomesKeeps` keeps it when one slice
comes, goes or stops matching, because to every cut of the new list there is one of the
old that differs by that slice only (`Changes`), and a cut that falls back within the
offset has lost what was listed before it or counts as left. At the end the cut behind
the whole list gives the theorems. The model states a page by what is in front of a slice,
not with `SelectSeq`, of which the prover has no definition.

**Induction.** The induction theorems of the library take the property as an operator,
which no prover here instantiates; `SetInduction` has them with the property as a
*set* (of the numbers, or subsets, that have it), which is as strong and can be used.

The assumptions are the named ones of the modules, all evaluated by TLC on the
instances: `NoClassAssumption`, `MaxEdgesAssumption` (GraphStore), `CallersAssumption`,
`IDsAssumption`, `PortsAssumption`, `BoundsAssumption` (Topology), `GoroutinesAssumption`,
`MaxCallsAssumption`, `StartAssumption`, `PortsAssumption`, `CallsAssumption`
(SharedTopology), `NamesAssumption`, `OptionsAssumption`, `StatementsAssumption`,
`BoundsAssumption` (Persistence), `NobodyAssumption`, `FaultsAssumption`, `NumbersAssumption`
(FileToken), `FailedAssumption`, `TimesAssumption`, `StatesAssumption` (Poller),
`RequestsAssumption`, `SizesAssumption` (SliceListing). They say what parameters are. Only
those of SharedTopology restrict what a program may do: its slice has been built with
derived IDs and its ports labelled as `topology` does it (`StartAssumption`,
`PortsAssumption`), and its calls name elements of the right class (`CallsAssumption`). Two
theorems on FileToken and four on Topology have a hypothesis of their own, named above.

Only model-checked:

* `EveryCallReturns`, `WaitEnds`, `ListingReturns`: liveness under fairness, out of the
  provers' reach;
* SliceBuilder and Resources/Admission: what a spec means is a fold over its lists, and
  what a fold computes for every list needs induction with an operator parameter;
* `AttachmentsAreWhole` of SharedTopology: it speaks of what is there once *all* have
  returned, so an invariant would have to say for each stage of each of the attaching and
  removing methods what it still owes, and that overlapping ones agree on it.

## Findings

Places where a comment or a documented promise says what the code does not do,
with a run that shows it.

* A failed rewrite of the token file, or one that reports an error with all of the token in
  it, makes `IDToken` forget the refresh token it has just been given, although it "returns a
  valid ID token, refreshing and rewriting the token file when needed" (TokenWriteFails).
* Drift detection "ignoring generated IDs" depends on them when elements share a name,
  as the ports of NICs of one name do: two builds of one spec may differ (FalseDrift).

Met while modelling, without a run of their own; a property that would say
otherwise exempts them, or its callers do not do them:

* *Builder.* `RemoveNode` "removes a NetworkNode and its descendants"
  (topology.go:348) but follows only `has` edges: the ports of its components stay,
  and a facility or switch of that name cannot be added again, because they have
  taken the IDs derived from it. `ErrConstraintViolation` covers "connecting more
  interfaces than a service type allows" (errors.go:18), but `ConnectInterface` checks
  no limit. `AddComponent` failing on a port deletes the component and leaves its
  service, which then counts as a service of the slice (facades.go:136); so does a facility
  or switch whose port fails. A modify that
  drops a node detaches `InterfaceList`, which leaves out sub-interfaces: an attached
  one leaves "a dangling service port" (builder.go:43). A modify never takes an interface
  of a kept node off a kept network (builder.go:126), checks no limits of a network that
  grows, and finds the source of a port mirror by name also among ports that a dropped node
  has left behind: the modify succeeds where a fresh build of its spec fails. `Peer` adds a service port
  instead of "connecting their first interfaces" (facades.go:377); interfaces joined
  by `AddLink` are not found by `GetPeers`, because its edges go from the link to the
  interfaces (facades.go:474, topology.go:253).
* *Goroutines.* Two calls that add elements of different classes under one name both
  succeed; `SetLabels` on one port loses labels, sub-interfaces get one VLAN, and
  services that are removed while they are attached leave ports or links. `SetLabels` gives a
  sub-interface any VLAN, also one that another has (facades.go:404).
* *Documents.* A slice with an element called None is written and cannot be loaded,
  and an empty slice loads with an empty graph ID. Setting a label drops the
  properties of a port that its sliver does not have and the fields its structs do
  not know. A field counts as computed when a word like "sliver" is anywhere in its
  path, which begins with the element's name (normalize.go:141).
* *Resources.* The check of a spec counts a node with an instance type as 2 cores
  (resources.go:65), looks for a model under the name the spec uses although the
  catalog knows it by others, and finds nothing in a summary that does not speak of
  components. `PermissionRequest` is "for the same spec" (README.md:76) but does not
  name the tags of components named as in FABlib, of storage, and of instance types.
  The guard against components without type and model compares with `-`, and keys
  are made with `/` (advertised.go:119).
* *Tokens.* A process that ends while it rewrites the token file leaves one that
  `NewFileToken` cannot read, because `os.WriteFile` truncates it first (token.go:230);
  two processes that share a token file exchange one another's refresh tokens. After a write
  that reports an error with all of the token in the file, the running process goes on with
  the token that has been exchanged, while a restart would go on with its replacement.

## Not modelled

XML and JSON syntax and JWT parsing; name patterns (taken as satisfied); HTTP
transport, `coreapi` and the methods of `client` that are one exchange each; login
(`authcode.go`, `cliurl.go`); `userdata`, `fabtime`, `sshkeys`, which have no state and
no property beyond their tables; the tables of `catalog` and `MapCapacitiesToInstance`,
a search over one of them; the texts and severities of diagnostics.

What is external is modelled from how the code uses it: the credential manager, the
orchestrator (a list of slices, a document per slice in which it states properties),
the testbed, its two graphs and the portal's summary of it, clocks and processes. The
orchestrator of Persistence states a property of the element, never removes one, and
never changes a name, an ID, a class or a type.

## Plan

All that was to be modelled is modelled and checked, and of the safety properties those
that are about one graph, one document or one token are proved. What is left:

1. SharedTopology: `AttachmentsAreWhole`, from an invariant on what each stage of a method
   that attaches or removes owes.
2. SliceBuilder: that `ModifyFrom` keeps a graph well formed, from the lemmas of
   TopologyProofs on the operators it is made of, fold by fold.
