---------------------------- MODULE PollerProofs ----------------------------
(***************************************************************************)
(* Proofs about Poller, for any timeout, any interval, requests of any     *)
(* length, any states and faults.                                          *)
(***************************************************************************)
EXTENDS Poller, TLAPS

-----------------------------------------------------------------------------
(* The inductive invariant.                                                *)

\* A request is out, or its answer has not been looked at.
Busy == pc \in {"asked", "served", "answered"}

\* Every pending tick has an interval to its credit, and the ticker has one
\* tick at most.
CreditInv == credit >= 0 /\ (tick => credit >= 1)

\* Requests that are shorter than the interval begin with the tick and end
\* before the next one: none finds a tick that came before.  Time does not pass
\* in a select with the deadline over, so after a request that began late there
\* is no tick to begin another one with.
SpacingInv ==
  ~slow => /\ pc \in {"asked", "served"} => phase = interval - spent
           /\ Busy => ~tick
           /\ tick => phase = interval
           /\ late <= 1
           /\ late = 1 => left = 0 /\ ~tick

\* How old the last state of the slice can be without the wait knowing it: no
\* older than the request, and then no older than what has passed of the
\* interval, until the tick comes.
FreshInv ==
  /\ ~Busy => spent = 0
  /\ Busy /\ ~tick => spent + phase <= interval
  /\ pc \in {"served", "answered"} /\ answer \notin Last \cup {Failed} /\ remote \in Last => age <= spent
  /\ pc = "select" => answer \notin Last \cup {Failed}
  /\ pc = "select" /\ remote \in Last /\ ~tick => age + phase <= interval
  /\ pc = "select" /\ remote \in Last /\ tick => age <= interval \/ age <= MaxCall

IndInv == TypeOK /\ CreditInv /\ SpacingInv /\ FreshInv /\ OutcomeIsRight

-----------------------------------------------------------------------------
(* Steps.                                                                  *)

\* A wait begins with a request at once, for which it needs no tick.
LEMMA InitInv == Init => IndInv
<1> SUFFICES ASSUME Init PROVE IndInv
  OBVIOUS
<1> USE TimesAssumption, StatesAssumption, FailedAssumption DEF Init
<1>1. TypeOK
  <2>1. left \in 0..timeout /\ phase \in 1..interval
    OBVIOUS
  <2>2. spent \in 0..MaxCall /\ age \in 0..MaxAge /\ credit \in -2..2 /\ late \in 0..2
    BY DEF MaxAge
  <2>3. tick \in BOOLEAN /\ cancelled \in BOOLEAN /\ slow \in BOOLEAN
    BY Zenon
  <2>4. QED
    BY <2>1, <2>2, <2>3 DEF TypeOK
<1>2. CreditInv /\ SpacingInv
  BY DEF CreditInv, SpacingInv, Busy
<1>3. FreshInv /\ OutcomeIsRight
  BY DEF FreshInv, OutcomeIsRight, Busy
<1>4. QED
  BY <1>1, <1>2, <1>3 DEF IndInv

\* Timers stay within their ranges: no request passes its limit.
LEMMA NextTypeOK ==
  ASSUME TypeOK, CreditInv, [Next]_vars
  PROVE  TypeOK'
<1>1. CASE Serve
  BY <1>1, TimesAssumption, StatesAssumption DEF Serve, TypeOK, CreditInv, timers, Least, MaxAge
<1>2. CASE Answer
  BY <1>2, TimesAssumption, StatesAssumption DEF Answer, TypeOK, CreditInv, timers, Least, MaxAge
<1>3. CASE RequestFails
  BY <1>3, TimesAssumption, StatesAssumption DEF RequestFails, TypeOK, CreditInv, timers, Least, MaxAge
<1>4. CASE Receive
  BY <1>4, TimesAssumption, StatesAssumption DEF Receive, TypeOK, CreditInv, timers, Least, MaxAge
<1>5. CASE SelectDone
  BY <1>5, TimesAssumption, StatesAssumption DEF SelectDone, TypeOK, CreditInv, timers, Least, MaxAge
<1>6. CASE SelectDeadline
  BY <1>6, TimesAssumption, StatesAssumption DEF SelectDeadline, TypeOK, CreditInv, timers, Least, MaxAge
<1>7. CASE SelectTick
  <2>1. credit' \in -2..2
    BY <1>7 DEF SelectTick, Ask, TypeOK, CreditInv
  <2>2. late' \in 0..2
    BY <1>7 DEF SelectTick, Ask, TypeOK, Least
  <2>3. QED
    BY <1>7, <2>1, <2>2 DEF SelectTick, Ask, TypeOK
<1>8. CASE Pass
  BY <1>8, TimesAssumption, StatesAssumption DEF Pass, Blocked, TypeOK, CreditInv, timers, Least, MaxAge
<1>9. CASE Cancel
  BY <1>9, TimesAssumption, StatesAssumption DEF Cancel, TypeOK, CreditInv, timers, Least, MaxAge
<1>10. ASSUME NEW s \in States \cup {Gone}, Change(s) PROVE TypeOK'
  BY <1>10, TimesAssumption, StatesAssumption DEF Change, TypeOK, CreditInv, timers, Least, MaxAge
<1>11. CASE UNCHANGED vars
  BY <1>11 DEF vars, timers, TypeOK, CreditInv, timers, Least, MaxAge
<1>12. QED
  BY <1>1, <1>2, <1>3, <1>4, <1>5, <1>6, <1>7, <1>8, <1>9, <1>10, <1>11 DEF Next, Loop

\* What a wait may ask for, at one request per interval, is never overdrawn.
LEMMA NextCreditInv ==
  ASSUME TypeOK, CreditInv, [Next]_vars
  PROVE  CreditInv'
<1>1. CASE Serve
  BY <1>1, TimesAssumption DEF Serve, TypeOK, CreditInv, timers, Least
<1>2. CASE Answer
  BY <1>2, TimesAssumption DEF Answer, TypeOK, CreditInv, timers, Least
<1>3. CASE RequestFails
  BY <1>3, TimesAssumption DEF RequestFails, TypeOK, CreditInv, timers, Least
<1>4. CASE Receive
  BY <1>4, TimesAssumption DEF Receive, TypeOK, CreditInv, timers, Least
<1>5. CASE SelectDone
  BY <1>5, TimesAssumption DEF SelectDone, TypeOK, CreditInv, timers, Least
<1>6. CASE SelectDeadline
  BY <1>6, TimesAssumption DEF SelectDeadline, TypeOK, CreditInv, timers, Least
<1>7. CASE SelectTick
  BY <1>7, TimesAssumption DEF SelectTick, Ask, TypeOK, CreditInv, timers, Least
<1>8. CASE Pass
  BY <1>8, TimesAssumption DEF Pass, Blocked, TypeOK, CreditInv, timers, Least
<1>9. CASE Cancel
  BY <1>9, TimesAssumption DEF Cancel, TypeOK, CreditInv, timers, Least
<1>10. ASSUME NEW s \in States \cup {Gone}, Change(s) PROVE CreditInv'
  BY <1>10, TimesAssumption DEF Change, TypeOK, CreditInv, timers, Least
<1>11. CASE UNCHANGED vars
  BY <1>11 DEF vars, timers, TypeOK, CreditInv, timers, Least
<1>12. QED
  BY <1>1, <1>2, <1>3, <1>4, <1>5, <1>6, <1>7, <1>8, <1>9, <1>10, <1>11 DEF Next, Loop

\* No tick waits for a request that is shorter than the interval.
LEMMA NextSpacingInv ==
  ASSUME TypeOK, SpacingInv, FreshInv, [Next]_vars
  PROVE  SpacingInv'
<1>1. CASE Serve
  BY <1>1, TimesAssumption DEF Serve, TypeOK, SpacingInv, FreshInv, Busy, timers, Least
<1>2. CASE Answer
  BY <1>2, TimesAssumption DEF Answer, TypeOK, SpacingInv, FreshInv, Busy, timers, Least
<1>3. CASE RequestFails
  BY <1>3, TimesAssumption DEF RequestFails, TypeOK, SpacingInv, FreshInv, Busy, timers, Least
<1>4. CASE Receive
  BY <1>4, TimesAssumption DEF Receive, TypeOK, SpacingInv, FreshInv, Busy, timers, Least
<1>5. CASE SelectDone
  BY <1>5, TimesAssumption DEF SelectDone, TypeOK, SpacingInv, FreshInv, Busy, timers, Least
<1>6. CASE SelectDeadline
  BY <1>6, TimesAssumption DEF SelectDeadline, TypeOK, SpacingInv, FreshInv, Busy, timers, Least
<1>7. CASE SelectTick
  BY <1>7, TimesAssumption DEF SelectTick, Ask, TypeOK, SpacingInv, FreshInv, Busy, timers, Least
<1>8. CASE Pass
  <2> SUFFICES ASSUME ~slow' PROVE SpacingInv'
    BY DEF SpacingInv
  <2>1. ~slow /\ ~(spent' >= interval)
    BY <1>8 DEF Pass, TypeOK
  <2>2. CASE pc \in {"asked", "served"}
    <3>1. spent' = spent + 1 /\ phase = interval - spent /\ phase # 1 /\ ~tick
      BY <1>8, <2>1, <2>2, TimesAssumption DEF Pass, TypeOK, SpacingInv, Busy
    <3>2. phase' = phase - 1 /\ ~tick' /\ phase' = interval - spent'
      BY <1>8, <3>1, TimesAssumption DEF Pass, TypeOK
    <3>3. UNCHANGED <<pc, late>> /\ (left = 0 => left' = 0)
      BY <1>8 DEF Pass
    <3>4. QED
      BY <2>1, <2>2, <3>2, <3>3 DEF SpacingInv, Busy
  <2>3. CASE pc = "select"
    <3>1. left # 0 /\ late <= 1 /\ late # 1 /\ ~tick /\ UNCHANGED <<pc, late>>
      BY <1>8, <2>1, <2>3 DEF Pass, Blocked, SpacingInv
    <3>2. tick' => phase' = interval
      BY <1>8, <3>1 DEF Pass
    <3>3. QED
      BY <2>3, <3>1, <3>2 DEF SpacingInv, Busy
  <2>4. QED
    BY <1>8, <2>2, <2>3 DEF Pass, Blocked
<1>9. CASE Cancel
  BY <1>9, TimesAssumption DEF Cancel, TypeOK, SpacingInv, FreshInv, Busy, timers, Least
<1>10. ASSUME NEW s \in States \cup {Gone}, Change(s) PROVE SpacingInv'
  BY <1>10, TimesAssumption DEF Change, TypeOK, SpacingInv, FreshInv, Busy, timers, Least
<1>11. CASE UNCHANGED vars
  BY <1>11 DEF vars, timers, TypeOK, SpacingInv, FreshInv, Busy, timers, Least
<1>12. QED
  BY <1>1, <1>2, <1>3, <1>4, <1>5, <1>6, <1>7, <1>8, <1>9, <1>10, <1>11 DEF Next, Loop

\* What a wait saw last is no older than an interval and a request.
LEMMA NextFreshInv ==
  ASSUME TypeOK, FreshInv, [Next]_vars
  PROVE  FreshInv'
<1>1. CASE Serve
  BY <1>1, TimesAssumption, StatesAssumption, FailedAssumption DEF Serve, TypeOK, FreshInv, Busy, Last, Reported, timers, Least, MaxAge
<1>2. CASE Answer
  BY <1>2, TimesAssumption, StatesAssumption, FailedAssumption DEF Answer, TypeOK, FreshInv, Busy, Last, Reported, timers, Least, MaxAge
<1>3. CASE RequestFails
  BY <1>3, TimesAssumption, StatesAssumption, FailedAssumption DEF RequestFails, TypeOK, FreshInv, Busy, Last, Reported, timers, Least, MaxAge
<1>4. CASE Receive
  BY <1>4, TimesAssumption, StatesAssumption, FailedAssumption DEF Receive, TypeOK, FreshInv, Busy, Last, Reported, timers, Least, MaxAge
<1>5. CASE SelectDone
  BY <1>5, TimesAssumption, StatesAssumption, FailedAssumption DEF SelectDone, TypeOK, FreshInv, Busy, Last, Reported, timers, Least, MaxAge
<1>6. CASE SelectDeadline
  BY <1>6, TimesAssumption, StatesAssumption, FailedAssumption DEF SelectDeadline, TypeOK, FreshInv, Busy, Last, Reported, timers, Least, MaxAge
<1>7. CASE SelectTick
  BY <1>7, TimesAssumption, StatesAssumption, FailedAssumption DEF SelectTick, Ask, TypeOK, FreshInv, Busy, Last, Reported, timers, Least, MaxAge
<1>8. CASE Pass
  <2>1. UNCHANGED <<pc, remote, answer>> /\ age' <= age + 1 /\ age \in Nat /\ age' \in Int /\ phase \in 1..interval /\ spent \in Nat
    BY <1>8, TimesAssumption DEF Pass, TypeOK, Least, MaxAge
  <2>2. phase # 1 => phase' = phase - 1 /\ tick' = tick
    BY <1>8 DEF Pass, TypeOK
  <2>3. phase = 1 => tick'
    BY <1>8 DEF Pass
  <2>4. CASE pc \in {"asked", "served"}
    <3>1. spent' = spent + 1
      BY <1>8, <2>4 DEF Pass
    <3>2. Busy /\ Busy'
      BY <2>1, <2>4 DEF Busy
    <3>3. ~tick' => spent' + phase' <= interval
      BY <2>1, <2>2, <2>3, <3>1, <3>2, TimesAssumption DEF FreshInv
    <3>4. QED
      BY <2>1, <2>4, <3>1, <3>2, <3>3 DEF FreshInv
  <2>5. CASE pc = "select"
    <3>1. ~tick /\ ~Busy /\ ~Busy' /\ spent' = 0
      BY <1>8, <2>1, <2>5 DEF Pass, Blocked, Busy
    <3>2. remote \in Last => age + phase <= interval
      BY <2>5, <3>1 DEF FreshInv
    <3>3. remote \in Last => (~tick' => age' + phase' <= interval) /\ (tick' => age' <= interval)
      BY <2>1, <2>2, <2>3, <3>1, <3>2, TimesAssumption
    <3>4. QED
      BY <2>1, <2>5, <3>1, <3>3 DEF FreshInv
  <2>6. QED
    BY <1>8, <2>4, <2>5 DEF Pass, Blocked
<1>9. CASE Cancel
  BY <1>9, TimesAssumption, StatesAssumption, FailedAssumption DEF Cancel, TypeOK, FreshInv, Busy, Last, Reported, timers, Least, MaxAge
<1>10. ASSUME NEW s \in States \cup {Gone}, Change(s) PROVE FreshInv'
  BY <1>10, TimesAssumption, StatesAssumption, FailedAssumption DEF Change, TypeOK, FreshInv, Busy, Last, Reported, timers, Least, MaxAge
<1>11. CASE UNCHANGED vars
  BY <1>11 DEF vars, timers, TypeOK, FreshInv, Busy, Last, Reported, timers, Least, MaxAge
<1>12. QED
  BY <1>1, <1>2, <1>3, <1>4, <1>5, <1>6, <1>7, <1>8, <1>9, <1>10, <1>11 DEF Next, Loop

\* A wait ends with what it last saw, so how it ends follows from how fresh that is.
LEMMA NextOutcomeIsRight ==
  ASSUME TypeOK, FreshInv, OutcomeIsRight, [Next]_vars
  PROVE  OutcomeIsRight'
<1>1. CASE Serve
  BY <1>1, TimesAssumption, StatesAssumption, FailedAssumption DEF Serve, TypeOK, FreshInv, OutcomeIsRight, Busy, Waiting, Last, Reported, timers
<1>2. CASE Answer
  BY <1>2, TimesAssumption, StatesAssumption, FailedAssumption DEF Answer, TypeOK, FreshInv, OutcomeIsRight, Busy, Waiting, Last, Reported, timers
<1>3. CASE RequestFails
  BY <1>3, TimesAssumption, StatesAssumption, FailedAssumption DEF RequestFails, TypeOK, FreshInv, OutcomeIsRight, Busy, Waiting, Last, Reported, timers
<1>4. CASE Receive
  BY <1>4, TimesAssumption, StatesAssumption, FailedAssumption DEF Receive, TypeOK, FreshInv, OutcomeIsRight, Busy, Waiting, Last, Reported, timers
<1>5. CASE SelectDone
  BY <1>5, TimesAssumption, StatesAssumption, FailedAssumption DEF SelectDone, TypeOK, FreshInv, OutcomeIsRight, Busy, Waiting, Last, Reported, timers
<1>6. CASE SelectDeadline
  BY <1>6, TimesAssumption, StatesAssumption, FailedAssumption DEF SelectDeadline, TypeOK, FreshInv, OutcomeIsRight, Busy, Waiting, Last, Reported, timers
<1>7. CASE SelectTick
  BY <1>7, TimesAssumption, StatesAssumption, FailedAssumption DEF SelectTick, Ask, TypeOK, FreshInv, OutcomeIsRight, Busy, Waiting, Last, Reported, timers
<1>8. CASE Pass
  BY <1>8, TimesAssumption, StatesAssumption, FailedAssumption DEF Pass, Blocked, TypeOK, FreshInv, OutcomeIsRight, Busy, Waiting, Last, Reported, timers
<1>9. CASE Cancel
  BY <1>9, TimesAssumption, StatesAssumption, FailedAssumption DEF Cancel, TypeOK, FreshInv, OutcomeIsRight, Busy, Waiting, Last, Reported, timers
<1>10. ASSUME NEW s \in States \cup {Gone}, Change(s) PROVE OutcomeIsRight'
  BY <1>10, TimesAssumption, StatesAssumption, FailedAssumption DEF Change, TypeOK, FreshInv, OutcomeIsRight, Busy, Waiting, Last, Reported, timers
<1>11. CASE UNCHANGED vars
  BY <1>11 DEF vars, timers, TypeOK, FreshInv, OutcomeIsRight, Busy, Waiting, Last, Reported, timers
<1>12. QED
  BY <1>1, <1>2, <1>3, <1>4, <1>5, <1>6, <1>7, <1>8, <1>9, <1>10, <1>11 DEF Next, Loop

-----------------------------------------------------------------------------
(* The theorems.                                                           *)

\* The five parts keep one another.
LEMMA InductiveInvariant == Spec => []IndInv
<1>1. Init => IndInv
  BY InitInv
<1>2. IndInv /\ [Next]_vars => IndInv'
  BY NextTypeOK, NextCreditInv, NextSpacingInv, NextFreshInv, NextOutcomeIsRight DEF IndInv
<1>3. QED
  BY <1>1, <1>2, PTL DEF Spec

\* Type correctness, for any timeout, interval and duration of requests.
THEOREM TypeCorrect == Spec => []TypeOK
<1>1. IndInv => TypeOK
  BY DEF IndInv
<1>2. QED
  BY <1>1, InductiveInvariant, PTL

\* Requests are an interval apart on average, and at most one begins after the
\* deadline as long as they are shorter than the interval: for any interval and
\* timeout (poller.go:63-65).
THEOREM NoBursts == Spec => []RequestsAreSpaced
<1>1. IndInv => RequestsAreSpaced
  BY DEF IndInv, CreditInv, SpacingInv, RequestsAreSpaced
<1>2. QED
  BY <1>1, InductiveInvariant, PTL

\* A wait times out on a slice that has reached its last state only when it did
\* so within the last interval, or the last request; and it never fails because a
\* slice that it awaits dead is gone (poller.go:42, 60-66).
THEOREM OutcomeCorrect == Spec => []OutcomeIsRight
<1>1. IndInv => OutcomeIsRight
  BY DEF IndInv
<1>2. QED
  BY <1>1, InductiveInvariant, PTL

=============================================================================
