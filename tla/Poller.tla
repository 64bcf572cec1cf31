------------------------------- MODULE Poller -------------------------------
(***************************************************************************)
(* poller.WaitForSlice and poller.WaitForPOA: ask for the slice (or POA),  *)
(* return when it is in a state that ends the wait, and otherwise select   *)
(* between the context, the deadline timer and the ticker.                 *)
(*                                                                         *)
(* Time is in units.  It passes while a request is out, up to MaxCall      *)
(* units, and while the loop blocks in its select: a goroutine that can go *)
(* on does so at once.  A timer that has fired stays ready; a ticker keeps *)
(* one tick and drops the next ones.  WaitForPOA is the instance whose     *)
(* only success state is "Success".                                        *)
(***************************************************************************)
EXTENDS Integers

CONSTANTS
  States,            \* what the orchestrator reports; Gone when not found
  Success, Failure,  \* successStates, failureStates
  Dead, Gone,        \* the state reported for a slice that is not found
  timeout, interval,
  MaxCall,           \* longest request
  Faults             \* "cancel": the context ends; "error": a request fails

ASSUME StatesAssumption ==
  /\ Success \cup Failure \subseteq States
  /\ Gone \notin States
ASSUME TimesAssumption ==
  timeout \in Nat /\ interval \in Nat \ {0} /\ MaxCall \in Nat
ASSUME FaultsAssumption == Faults \subseteq {"cancel", "error"}

VARIABLES
  left,       \* units until the deadline timer fires; 0: it is ready
  phase,      \* units until the next tick
  tick,       \* the ticker's channel holds a tick
  cancelled,  \* the context is done
  remote,     \* the state of the slice at the orchestrator
  pc,         \* "asked", "served", "answered", "select", or what was returned
  spent,      \* units the request has taken
  answer,     \* what the orchestrator found, then what the request returned
  age,        \* units since the slice reached its last state
  credit,     \* intervals begun and not yet asked in
  late,       \* requests made after the deadline
  slow        \* some request has taken an interval or longer

timers == <<left, phase, tick>>
vars   == <<left, phase, tick, cancelled, remote, pc, spent, answer, age, credit, late, slow>>

Failed == "request failed"

ASSUME FailedAssumption == Failed \notin States \cup {Gone}

Least(m, n) == IF m < n THEN m ELSE n

\* A slice in one of these states stays there, or disappears once it is dead.
Last == Success \cup Failure \cup {Gone}

\* One unit more than an interval and than a request.
MaxAge == interval + MaxCall + 1

-----------------------------------------------------------------------------
(* The wait.                                                               *)

\* The orchestrator looks the slice up, some time before its answer arrives.
Serve ==
  /\ pc = "asked"
  /\ answer' = remote
  /\ pc' = "served"
  /\ UNCHANGED <<timers, cancelled, remote, spent, age, credit, late, slow>>

Answer ==
  /\ pc = "served" /\ ~cancelled
  /\ pc' = "answered"
  /\ UNCHANGED <<timers, cancelled, remote, spent, answer, age, credit, late, slow>>

\* Before or after it was served; with a context that is done, it can only fail.
RequestFails ==
  /\ pc \in {"asked", "served"}
  /\ cancelled \/ "error" \in Faults
  /\ answer' = Failed
  /\ pc' = "answered"
  /\ UNCHANGED <<timers, cancelled, remote, spent, age, credit, late, slow>>

\* A slice that is not found is a dead one, if that is what is waited for.
Reported == IF answer = Gone /\ Dead \in Success THEN Dead ELSE answer

\* Faulty variant: the success states are not looked at.
ReceiveFailuresOnly ==
  /\ pc = "answered"
  /\ pc' = CASE answer \in {Failed, Gone} -> "error"
             [] answer \in Failure        -> "failure"
             [] OTHER                     -> "select"
  /\ spent' = 0
  /\ UNCHANGED <<timers, cancelled, remote, answer, age, credit, late, slow>>

Receive ==
  /\ pc = "answered"
  /\ pc' = CASE Reported \in {Failed, Gone} -> "error"
             [] Reported \in Success        -> "success"
             [] Reported \in Failure \ Success -> "failure"
             [] OTHER                       -> "select"
  /\ spent' = 0
  /\ UNCHANGED <<timers, cancelled, remote, answer, age, credit, late, slow>>

SelectDone ==
  /\ pc = "select"
  /\ cancelled
  /\ pc' = "cancelled"
  /\ UNCHANGED <<timers, cancelled, remote, spent, answer, age, credit, late, slow>>

\* Faulty variant: a tick is preferred to the deadline.
SelectDeadlineLast ==
  /\ pc = "select"
  /\ left = 0 /\ ~tick
  /\ pc' = "timeout"
  /\ UNCHANGED <<timers, cancelled, remote, spent, answer, age, credit, late, slow>>

SelectDeadline ==
  /\ pc = "select"
  /\ left = 0
  /\ pc' = "timeout"
  /\ UNCHANGED <<timers, cancelled, remote, spent, answer, age, credit, late, slow>>

Ask ==
  /\ pc' = "asked"
  /\ credit' = credit - 1
  /\ late' = IF left = 0 THEN Least(late + 1, 2) ELSE late
  /\ UNCHANGED <<left, phase, cancelled, remote, spent, answer, age, slow>>

\* Faulty variant: the tick stays.
SelectTickAgain == pc = "select" /\ tick /\ Ask /\ UNCHANGED tick

SelectTick == pc = "select" /\ tick /\ Ask /\ tick' = FALSE

Loop == Serve \/ Answer \/ RequestFails \/ Receive \/ SelectDone \/ SelectDeadline \/ SelectTick

-----------------------------------------------------------------------------
(* Time, the slice and the context.                                        *)

Blocked ==
  \/ pc \in {"asked", "served"} /\ spent < MaxCall
  \/ pc = "select" /\ ~tick /\ left # 0 /\ ~cancelled

Pass ==
  /\ Blocked
  /\ left' = IF left = 0 THEN 0 ELSE left - 1
  /\ phase' = IF phase = 1 THEN interval ELSE phase - 1
  /\ tick' = (tick \/ phase = 1)
  /\ credit' = IF phase = 1 THEN Least(credit + 1, 2) ELSE credit
  /\ spent' = IF pc = "select" THEN 0 ELSE spent + 1
  /\ slow' = (slow \/ spent' >= interval)
  /\ age' = Least(age + 1, MaxAge)
  /\ UNCHANGED <<cancelled, remote, pc, answer, late>>

Waiting == pc \in {"asked", "served", "answered", "select"}

Change(s) ==
  /\ Waiting
  /\ IF remote \in Last THEN remote = Dead /\ s = Gone ELSE s \in States
  /\ remote' = s
  /\ age' = 0
  /\ UNCHANGED <<timers, cancelled, pc, spent, answer, credit, late, slow>>

Cancel ==
  /\ Waiting
  /\ "cancel" \in Faults
  /\ cancelled' = TRUE
  /\ UNCHANGED <<timers, remote, pc, spent, answer, age, credit, late, slow>>

-----------------------------------------------------------------------------
\* The first request is made at once.
Init ==
  /\ left = timeout /\ phase = interval /\ tick = FALSE
  /\ cancelled = FALSE
  /\ remote \in States \cup {Gone}
  /\ pc = "asked" /\ spent = 0 /\ answer = Failed
  /\ age = 0 /\ credit = 0
  /\ late = IF timeout = 0 THEN 1 ELSE 0
  /\ slow = FALSE

Next == Loop \/ Pass \/ Cancel \/ \E s \in States \cup {Gone} : Change(s)

\* Requests end, time passes, and a select among ready cases chooses at random,
\* so that it does not pass the deadline over for ever.
Fairness == WF_vars(Loop) /\ WF_vars(Pass) /\ SF_vars(SelectDeadline)

Spec == Init /\ [][Next]_vars /\ Fairness

-----------------------------------------------------------------------------
(* Properties.                                                             *)

TypeOK ==
  /\ left \in 0..timeout /\ phase \in 1..interval /\ tick \in BOOLEAN
  /\ cancelled \in BOOLEAN
  /\ remote \in States \cup {Gone}
  /\ pc \in {"asked", "served", "answered", "select", "success", "failure", "error", "timeout", "cancelled"}
  /\ spent \in 0..MaxCall
  /\ answer \in States \cup {Gone, Failed}
  /\ age \in 0..MaxAge /\ credit \in -2..2 /\ late \in 0..2 /\ slow \in BOOLEAN

\* The wait ends, even of a slice that never does and with requests so slow
\* that there is a tick at every select (poller.go:59).
WaitEnds == <>~Waiting

\* What the wait returns is true of the slice: it does not time out on one that
\* has long reached its last state, since the last request began at most an
\* interval ago, unless it took longer than that (poller.go:60-66), and a wait
\* until a slice is dead fails only when a request does, never because the
\* slice is already gone (poller.go:42).
OutcomeIsRight ==
  /\ pc = "timeout" /\ remote \in Last => age <= interval \/ age <= MaxCall
  /\ pc = "error" /\ Dead \in Success => answer = Failed

\* Requests are at least an interval apart on average: after a slow request the
\* loop makes up for one tick, never for all it has missed (poller.go:65).  As
\* long as they are shorter than the interval, at most one begins after the
\* deadline, when the last tick comes with it (poller.go:63).
RequestsAreSpaced ==
  /\ credit >= 0
  /\ ~slow => late <= 1

=============================================================================
