---------------------------- MODULE SliceListing ----------------------------
(***************************************************************************)
(* pkg/client: ListSlices fetches the slices of an orchestrator page by    *)
(* page, with an offset into a list that other callers change meanwhile:   *)
(* slices are created, deleted, and move from state to state, and with     *)
(* that into or out of what the caller asked for.  Every page takes a      *)
(* token and an exchange of its own, and either can fail.                  *)
(*                                                                         *)
(* The orchestrator is external: its slices have a fixed order, in which a *)
(* new one may come anywhere, and an ID is never used again.  IDs are the  *)
(* numbers of the slices in the order they were created in.                *)
(***************************************************************************)
EXTENDS Integers, Sequences, FiniteSets, SequencesExt

CONSTANTS
  Names,
  States,      \* the states of a slice
  Requests,    \* what callers ask for: a name or "", states or {}
  PageSize,    \* 200 in the code
  MaxSlices,   \* bound on the slices that ever exist
  MaxChanges   \* bound on the changes of the list

ASSUME RequestsAssumption == \A r \in Requests : DOMAIN r = {"name", "states"}
ASSUME SizesAssumption == PageSize \in Nat \ {0} /\ {MaxSlices, MaxChanges} \subseteq Nat

VARIABLES
  slices,   \* the orchestrator's slices in their order: id, name, state
  created,  \* how many have been created
  changes,  \* how often the list has changed
  call,     \* the call: what it asks for, where it is, offset, out, its error
  always,   \* IDs that have matched the request since the call began
  left,     \* slices that stopped matching, of those the offset had passed
  entered   \* slices that began to match in front of the offset

vars == <<slices, created, changes, call, always, left, entered>>

Matches(request, s) ==
  /\ request.name = "" \/ s.name = request.name
  /\ request.states = {} \/ s.state \in request.states

IDsOf(list) == {list[k].id : k \in DOMAIN list}

\* The IDs of what matches a request, up to position q of a list.
MatchingUpTo(list, request, q) ==
  {list[k].id : k \in {j \in DOMAIN list : j <= q /\ Matches(request, list[j])}}

Matching(list, request) == MatchingUpTo(list, request, Len(list))

\* The positions of what matches, leaving out the first skipped ones, and of the
\* others all but the first limit.
Places(list, request, skipped, limit) ==
  {k \in DOMAIN list :
     /\ Matches(request, list[k])
     /\ Cardinality(MatchingUpTo(list, request, k - 1)) \in skipped..(skipped + limit - 1)}

-----------------------------------------------------------------------------
(* The orchestrator.                                                       *)

\* The list becomes list: what that does to a listing under way.
Becomes(list) ==
  LET before == Matching(slices, call.request)
      after  == Matching(list, call.request)
      passed(l) == {l[k].id : k \in Places(l, call.request, 0, call.offset)}
  IN  /\ changes < MaxChanges
      /\ changes' = changes + 1
      /\ slices' = list
      /\ always' = always \cap after
      /\ left' = left + Cardinality(passed(slices) \ after)
      /\ entered' = entered + Cardinality(passed(list) \ before)

CreateSlice ==
  /\ created < MaxSlices
  /\ created' = created + 1
  /\ \E k \in 1..(Len(slices) + 1), name \in Names, state \in States :
       Becomes(InsertAt(slices, k, [id |-> created', name |-> name, state |-> state]))
  /\ UNCHANGED call

DeleteSlice ==
  \E k \in DOMAIN slices : Becomes(RemoveAt(slices, k)) /\ UNCHANGED <<created, call>>

SliceChangesState ==
  \E k \in DOMAIN slices : \E state \in States \ {slices[k].state} :
    Becomes([slices EXCEPT ![k].state = state]) /\ UNCHANGED <<created, call>>

-----------------------------------------------------------------------------
(* ListSlices.                                                             *)

Errors == {"ErrUnauthorized", "ErrForbidden", "ErrNotFound", "ErrBadRequest", "ErrServerError", "other"}

\* mapHTTPErr, from the status of a response that is an error, or from none.
MapHTTPErr(status) ==
  CASE status = 401 -> "ErrUnauthorized"
    [] status = 403 -> "ErrForbidden"
    [] status = 404 -> "ErrNotFound"
    [] status = 400 -> "ErrBadRequest"
    [] status = 500 -> "ErrServerError"
    [] OTHER        -> "other"

NoResponse == 0
Failures   == {400, 401, 403, 404, 500, 502, NoResponse}

ListSlices(request) ==
  /\ call.pc = "idle"
  /\ call' = [request |-> request, pc |-> "token", offset |-> 0, out |-> << >>, error |-> ""]
  /\ always' = Matching(slices, request)
  /\ left' = 0 /\ entered' = 0
  /\ UNCHANGED <<slices, created, changes>>

\* authCtx
Token ==
  /\ call.pc = "token"
  /\ \/ call' = [call EXCEPT !.pc = "request"]
     \/ call' = [call EXCEPT !.pc = "returned", !.out = << >>, !.error = "other"]
  /\ UNCHANGED <<slices, created, changes, always, left, entered>>

\* The i-th slice of a page has offset + i - 1 in front of it that match as well.
Page ==
  LET places == Places(slices, call.request, call.offset, PageSize)
  IN  [i \in 1..Cardinality(places) |->
         slices[CHOOSE k \in places :
                  Cardinality(MatchingUpTo(slices, call.request, k - 1)) = call.offset + i - 1]]

\* Faulty variants (see README, "Mutants").
LastPage(page) == Len(page) <= PageSize
NextOffsetByOut(offset, page) == offset + Len(page) - 1
RequestFailsAndRetries ==
  /\ call.pc = "request"
  /\ call' = [call EXCEPT !.pc = "token"]
  /\ UNCHANGED <<slices, created, changes, always, left, entered>>
RequestFailsWithPart ==
  /\ call.pc = "request"
  /\ call' = [call EXCEPT !.pc = "returned", !.error = "other"]
  /\ UNCHANGED <<slices, created, changes, always, left, entered>>

IsLast(page) == Len(page) < PageSize
NextOffset(offset, page) == offset + PageSize

\* The exchange succeeds: the page as it is when the orchestrator answers.
RequestPage ==
  /\ call.pc = "request"
  /\ LET appended == [call EXCEPT !.out = @ \o Page]
     IN  call' = IF IsLast(Page) THEN [appended EXCEPT !.pc = "returned"]
                 ELSE [appended EXCEPT !.pc = "token", !.offset = NextOffset(@, Page)]
  /\ UNCHANGED <<slices, created, changes, always, left, entered>>

RequestFails ==
  /\ call.pc = "request"
  /\ \E status \in Failures :
       call' = [call EXCEPT !.pc = "returned", !.out = << >>, !.error = MapHTTPErr(status)]
  /\ UNCHANGED <<slices, created, changes, always, left, entered>>

\* The caller has its answer and forgets it.
Return ==
  /\ call.pc = "returned"
  /\ call' = [call EXCEPT !.pc = "idle", !.offset = 0, !.out = << >>, !.error = ""]
  /\ always' = {} /\ left' = 0 /\ entered' = 0
  /\ UNCHANGED <<slices, created, changes>>

-----------------------------------------------------------------------------
Init ==
  /\ created \in 0..MaxSlices
  /\ \E attributes \in [1..created -> [name : Names, state : States]] :
       slices = [k \in 1..created |-> [id |-> k, name |-> attributes[k].name, state |-> attributes[k].state]]
  /\ changes = 0
  /\ \E r \in Requests : call = [request |-> r, pc |-> "idle", offset |-> 0, out |-> << >>, error |-> ""]
  /\ always = {} /\ left = 0 /\ entered = 0

Orchestrator == CreateSlice \/ DeleteSlice \/ SliceChangesState
Exchange     == Token \/ RequestPage \/ RequestFails
Next == Orchestrator \/ (\E r \in Requests : ListSlices(r)) \/ Exchange \/ Return

\* Exchanges end, well or not; nobody has to call, and the list may rest.
Spec == Init /\ [][Next]_vars /\ WF_vars(Exchange)

-----------------------------------------------------------------------------
(* Properties.                                                             *)

Slice == [id : 1..created, name : Names, state : States]

\* A call that returns an error returns no slices, and only calls that have
\* returned have one; a call that goes on has taken full pages only.
TypeOK ==
  /\ slices \in Seq(Slice) /\ created \in 0..MaxSlices
  /\ \A k, j \in DOMAIN slices : slices[k].id = slices[j].id => k = j
  /\ call \in [request : Requests, pc : {"idle", "token", "request", "returned"},
              offset : Nat, out : Seq(Slice), error : Errors \cup {""}]
  /\ call.error # "" => call.pc = "returned" /\ call.out = << >>
  /\ call.pc \in {"token", "request"} => Len(call.out) = call.offset
  /\ always \subseteq 1..created /\ {left, entered, changes} \subseteq Nat

Listed == call.pc = "returned" /\ call.error = ""

\* A slice that matched all the time is left out only because another one,
\* already listed, stopped matching and moved it over the offset: at most one
\* slice is missed for each (client.go:95-126).  A list nobody takes from is
\* listed completely.
MissedAtMostLeft == Listed => Cardinality(always \ IDsOf(call.out)) <= left

\* Likewise a slice is listed twice only because another one came in front.
TwiceAtMostEntered == Listed => Len(call.out) - Cardinality(IDsOf(call.out)) <= entered

\* Every call returns, however the list changes meanwhile (client.go:94).
ListingReturns == call.pc = "token" ~> call.pc = "returned"

=============================================================================
