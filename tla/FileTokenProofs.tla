-------------------------- MODULE FileTokenProofs --------------------------
(***************************************************************************)
(* Proofs about FileToken: for any number of processes that share the      *)
(* token file, the lock of each is held by the one call that works; for    *)
(* one process, what the file, the memory and the calls know of refresh    *)
(* tokens, for any number of goroutines, any lifetimes and any faults.     *)
(***************************************************************************)
EXTENDS FileToken, TLAPS

-----------------------------------------------------------------------------
(* The inductive invariant.                                                *)

Working == {"locked", "sent", "issued", "rejected", "received", "opened", "written"}

\* The call that works is the one that holds the lock, and calls need a
\* process to make them.
LockInv ==
  /\ \A s \in Sources, t \in Threads : call[s][t].pc \in Working <=> lock[s] = t
  /\ \A s \in Sources : ~memory[s].up => memory[s] = Down /\ \A t \in Threads : call[s][t] = Idle

\* What a call holds at each step.  The refresh tokens that calls have returned
\* are not newer than the one in memory; a call that has a new one has the
\* valid one; nothing else holds any.
CallInv(s, t) ==
  LET held == call[s][t].token
      kept == memory[s].token
  IN  /\ call[s][t].pc \in {"idle", "waiting", "locked", "rejected", "failed"} => held = NoToken
      /\ At(s, t, "answered") => held.refresh <= kept.refresh
      /\ At(s, t, "sent") => held = kept
      /\ At(s, t, "rejected") => kept.refresh # valid
      /\ At(s, t, "issued") => held.refresh = valid \/ (held.refresh = 0 /\ kept.refresh = valid)
      /\ call[s][t].pc \in {"received", "opened", "written"} => held.refresh = valid
      /\ At(s, t, "opened") => ~file.ok
      /\ At(s, t, "written") => file = Readable(held)

\* The tokens of file and memory agree, or the file is ahead after a write that
\* reported an error.
Follows(s) ==
  \/ file.token = memory[s].token
  \/ unconfirmed[s] /\ memory[s].token.refresh <= file.token.refresh

\* The file follows the memory, but for the call that has written it and not
\* yet taken over the tokens.
FileInv(s) ==
  /\ file.token.refresh <= valid /\ memory[s].token.refresh <= valid
  /\ memory[s].up /\ file.ok /\ (\A t \in Threads : ~At(s, t, "written")) => Follows(s)

TokenInv == \A s \in Sources : FileInv(s) /\ \A t \in Threads : CallInv(s, t)

IndInv == TypeOK /\ LockInv /\ TokenInv

-----------------------------------------------------------------------------
(* Steps of a call.                                                        *)

\* Goto moves one call and leaves the others alone.
LEMMA GotoEffect ==
  ASSUME TypeOK, NEW s \in Sources, NEW t \in Threads,
         NEW pc \in {"idle", "waiting", "locked", "sent", "issued", "rejected", "received",
                     "opened", "written", "answered", "failed"},
         NEW token \in TokenFile, Goto(s, t, pc, token)
  PROVE  /\ call' \in [Sources -> [Threads ->
                         [pc : {"idle", "waiting", "locked", "sent", "issued", "rejected", "received",
                                "opened", "written", "answered", "failed"},
                          token : TokenFile]]]
         /\ \A u \in Sources, v \in Threads :
              call'[u][v] = IF u = s /\ v = t THEN [pc |-> pc, token |-> token] ELSE call[u][v]
  BY DEF TypeOK, Goto

\* Release frees one lock and leaves the others alone.
LEMMA ReleaseEffect ==
  ASSUME TypeOK, NEW s \in Sources, Release(s)
  PROVE  /\ lock' \in [Sources -> Threads \cup {Nobody}]
         /\ \A u \in Sources : lock'[u] = IF u = s THEN Nobody ELSE lock[u]
  BY DEF TypeOK, Release

\* A process starts with no call at work and the file it is given.
LEMMA InitInv == Init => IndInv
<1> SUFFICES ASSUME Init PROVE IndInv
  OBVIOUS
<1>1. NoToken \in TokenFile /\ valid = 1 /\ 1 \in 1..MaxRefresh
  BY NumbersAssumption DEF Init, NoToken, TokenFile
<1>2. file \in [ok : {TRUE}, token : TokenFile] /\ file.token.refresh <= valid
  <2>1. PICK exp \in Lifetimes, refresh \in {0, 1} : file = Readable([exp |-> exp, refresh |-> refresh])
    BY DEF Init
  <2>2. [exp |-> exp, refresh |-> refresh] \in TokenFile
    BY <1>1, NumbersAssumption DEF TokenFile
  <2>3. QED
    BY <1>1, <2>1, <2>2 DEF Readable
<1>3. TypeOK
  <2>1. memory \in [Sources -> [up : BOOLEAN, token : TokenFile]]
    BY <1>1 DEF Init, Down
  <2>2. Idle \in [pc : {"idle"}, token : TokenFile]
    BY <1>1 DEF Idle
  <2>3. call \in [Sources -> [Threads ->
                    [pc : {"idle", "waiting", "locked", "sent", "issued", "rejected", "received",
                           "opened", "written", "answered", "failed"},
                     token : TokenFile]]]
    BY <2>2 DEF Init
  <2>4. QED
    <3>1. now \in 0..MaxTime /\ valid \in 1..MaxRefresh
      BY NumbersAssumption DEF Init
    <3>2. lock \in [Sources -> Threads \cup {Nobody}] /\ unconfirmed \in [Sources -> BOOLEAN]
      BY DEF Init
    <3>3. QED
      BY <1>2, <2>1, <2>3, <3>1, <3>2 DEF TypeOK
<1>4. LockInv
  BY <1>1, NobodyAssumption DEF Init, LockInv, Down, Idle, Working
<1>5. TokenInv
  <2>1. ASSUME NEW s \in Sources PROVE FileInv(s)
    BY <1>1, <1>2 DEF FileInv, Follows, Init, Down, NoToken
  <2>2. ASSUME NEW s \in Sources, NEW t \in Threads PROVE CallInv(s, t)
    BY DEF CallInv, Init, Idle, At
  <2>3. QED
    BY <2>1, <2>2 DEF TokenInv
<1>6. QED
  BY <1>3, <1>4, <1>5 DEF IndInv

-----------------------------------------------------------------------------
(* Type correctness.                                                       *)

\* Every step keeps the types.
LEMMA NextTypeOK ==
  ASSUME TypeOK, [Next]_vars
  PROVE  TypeOK'
<1>0. NoToken \in TokenFile /\ Down \in [up : BOOLEAN, token : TokenFile] /\ Unreadable \in [ok : BOOLEAN, token : TokenFile]
  BY NumbersAssumption DEF NoToken, TokenFile, Down, Unreadable
<1>1. CASE Tick
  BY <1>1, NumbersAssumption DEF Tick, TypeOK
<1>2. ASSUME NEW s \in Sources, Start(s) PROVE TypeOK'
  BY <1>2 DEF Start, TypeOK, Up
<1>3. ASSUME NEW s \in Sources, Crash(s) PROVE TypeOK'
  BY <1>0, <1>3 DEF Crash, TypeOK, Idle, Release
<1>4. ASSUME NEW s \in Sources, NEW t \in Threads,
             \/ Begin(s, t) \/ Lock(s, t) \/ Proceed(s, t) \/ LoseResponse(s, t) \/ WriteFails(s, t)
      PROVE  TypeOK'
  <2>0. memory[s].token \in TokenFile /\ call[s][t].token \in TokenFile
    BY DEF TypeOK
  <2>1. CASE Begin(s, t)
    BY <1>0, <2>1, GotoEffect DEF Begin, TypeOK
  <2>2. CASE Lock(s, t)
    BY <1>0, <2>2, GotoEffect DEF Lock, TypeOK
  <2>3. CASE ReturnCached(s, t) \/ CannotRefresh(s, t) \/ LoseResponse(s, t) \/ ReceiveRejection(s, t)
    BY <1>0, <2>0, <2>3, GotoEffect, ReleaseEffect
       DEF ReturnCached, CannotRefresh, LoseResponse, ReceiveRejection, Return, TypeOK
  <2>10. CASE WriteFails(s, t)
    <3>1. file' \in [ok : BOOLEAN, token : TokenFile] /\ unconfirmed' \in [Sources -> BOOLEAN]
      <4>1. Readable(call[s][t].token) \in [ok : BOOLEAN, token : TokenFile]
        BY <2>0 DEF Readable
      <4>2. file' \in {file, Unreadable, Readable(call[s][t].token)}
        BY <2>10 DEF WriteFails
      <4>3. unconfirmed' \in [Sources -> BOOLEAN]
        BY <2>10 DEF WriteFails, TypeOK
      <4>4. QED
        BY <1>0, <4>1, <4>2, <4>3 DEF TypeOK
    <3>2. QED
      BY <1>0, <2>10, <3>1, GotoEffect, ReleaseEffect DEF WriteFails, Return, TypeOK
  <2>4. CASE SendRefresh(s, t)
    BY <2>0, <2>4, GotoEffect DEF SendRefresh, TypeOK
  <2>11. CASE Reject(s, t)
    BY <1>0, <2>11, GotoEffect DEF Reject, TypeOK
  <2>5. CASE Issue(s, t)
    <3>1. PICK lifetime \in Lifetimes :
            LET exp == IF lifetime = 0 THEN 0 ELSE now + lifetime
            IN  \/ Goto(s, t, "issued", [exp |-> exp, refresh |-> 0]) /\ UNCHANGED valid
                \/ valid < MaxRefresh /\ valid' = valid + 1 /\ Goto(s, t, "issued", [exp |-> exp, refresh |-> valid + 1])
      BY <2>5 DEF Issue
    <3> DEFINE exp == IF lifetime = 0 THEN 0 ELSE now + lifetime
    <3>2. /\ [exp |-> exp, refresh |-> 0] \in TokenFile
          /\ valid < MaxRefresh => [exp |-> exp, refresh |-> valid + 1] \in TokenFile /\ valid + 1 \in 1..MaxRefresh
      BY NumbersAssumption DEF TokenFile, TypeOK
    <3>3. valid' \in 1..MaxRefresh
      BY <3>1, <3>2 DEF TypeOK
    <3> HIDE DEF exp
    <3>4. CASE Goto(s, t, "issued", [exp |-> exp, refresh |-> 0])
      BY <2>5, <3>2, <3>3, <3>4, GotoEffect DEF Issue, TypeOK
    <3>5. CASE valid < MaxRefresh /\ Goto(s, t, "issued", [exp |-> exp, refresh |-> valid + 1])
      BY <2>5, <3>2, <3>3, <3>5, GotoEffect DEF Issue, TypeOK
    <3>6. QED
      BY <3>1, <3>4, <3>5 DEF exp
  <2>6. CASE ReceiveTokens(s, t)
    <3>1. [call[s][t].token EXCEPT !.refresh = memory[s].token.refresh] \in TokenFile
      BY <2>0 DEF TokenFile
    <3>2. QED
      BY <2>0, <2>6, <3>1, GotoEffect DEF ReceiveTokens, TypeOK
  <2>7. CASE OpenFile(s, t)
    BY <1>0, <2>0, <2>7, GotoEffect DEF OpenFile, TypeOK
  <2>8. CASE WriteFile(s, t)
    <3>1. file' \in [ok : BOOLEAN, token : TokenFile]
      <4>1. Readable(call[s][t].token) \in [ok : BOOLEAN, token : TokenFile]
        BY <2>0 DEF Readable
      <4>2. file' = Readable(call[s][t].token) \/ file' = Unreadable
        <5> HIDE DEF Readable, Unreadable
        <5> QED BY <2>8 DEF WriteFile
      <4>3. QED
        BY <1>0, <4>1, <4>2
    <3>2. QED
      BY <2>0, <2>8, <3>1, GotoEffect DEF WriteFile, TypeOK
  <2>9. CASE ReturnRefreshed(s, t)
    <3>1. memory' \in [Sources -> [up : BOOLEAN, token : TokenFile]]
      BY <2>0, <2>9 DEF ReturnRefreshed, Up, TypeOK
    <3>2. QED
      BY <2>0, <2>9, <3>1, GotoEffect, ReleaseEffect DEF ReturnRefreshed, Return, TypeOK
  <2>12. QED
    BY <1>4, <2>1, <2>2, <2>3, <2>4, <2>5, <2>6, <2>7, <2>8, <2>9, <2>10, <2>11 DEF Proceed
<1>5. CASE UNCHANGED vars
  BY <1>5 DEF vars, TypeOK
<1>6. QED
  BY <1>1, <1>2, <1>3, <1>4, <1>5 DEF Next

-----------------------------------------------------------------------------
(* The lock.                                                               *)

\* A call that goes on within its critical section.
LEMMA WorkingLockInv ==
  ASSUME TypeOK, LockInv, NEW s \in Sources, NEW t \in Threads,
         call[s][t].pc \in Working, NEW pc \in Working, NEW token \in TokenFile,
         Goto(s, t, pc, token), UNCHANGED <<lock, memory>>
  PROVE  LockInv'
<1>1. \A u \in Sources, v \in Threads :
        call'[u][v] = IF u = s /\ v = t THEN [pc |-> pc, token |-> token] ELSE call[u][v]
  BY DEF Goto, TypeOK
<1>2. memory[s].up
  BY DEF LockInv, Working, Idle
<1>3. QED
  BY <1>1, <1>2 DEF LockInv

\* A call that returns, perhaps with new tokens in memory.
LEMMA ReturnLockInv ==
  ASSUME TypeOK, LockInv, NEW s \in Sources, NEW t \in Threads,
         call[s][t].pc \in Working, NEW pc \in {"answered", "failed"}, NEW token \in TokenFile,
         Return(s, t, pc, token),
         memory' = memory \/ \E new : memory' = [memory EXCEPT ![s] = Up(new)]
  PROVE  LockInv'
<1>1. \A u \in Sources, v \in Threads :
        call'[u][v] = IF u = s /\ v = t THEN [pc |-> pc, token |-> token] ELSE call[u][v]
  BY DEF Return, Goto, TypeOK
<1>2. \A u \in Sources : lock'[u] = IF u = s THEN Nobody ELSE lock[u]
  BY ReleaseEffect DEF Return
<1>3. memory[s].up /\ memory'[s].up /\ \A u \in Sources : u # s => memory'[u] = memory[u]
  BY DEF LockInv, Working, Idle, Up, TypeOK
<1>4. \A v \in Threads : v # t => call[s][v].pc \notin Working
  BY DEF LockInv
<1>5. \A u \in Sources, v \in Threads : call'[u][v].pc \in Working <=> lock'[u] = v
  BY <1>1, <1>2, <1>4, NobodyAssumption DEF LockInv, Working
<1>6. QED
  BY <1>1, <1>3, <1>5 DEF LockInv

\* A call that starts to work finds the lock free, and frees it when it ends.
LEMMA NextLockInv ==
  ASSUME TypeOK, LockInv, [Next]_vars
  PROVE  LockInv'
<1>0. NoToken \in TokenFile
  BY NumbersAssumption DEF NoToken, TokenFile
<1>1. CASE Tick
  BY <1>1 DEF Tick, LockInv
<1>2. ASSUME NEW s \in Sources, Start(s) PROVE LockInv'
  BY <1>2 DEF Start, LockInv, TypeOK, Up
<1>3. ASSUME NEW s \in Sources, Crash(s) PROVE LockInv'
  <2>1. /\ \A u \in Sources : lock'[u] = IF u = s THEN Nobody ELSE lock[u]
        /\ \A u \in Sources : memory'[u] = IF u = s THEN Down ELSE memory[u]
        /\ \A u \in Sources, v \in Threads : call'[u][v] = IF u = s THEN Idle ELSE call[u][v]
    BY <1>3, ReleaseEffect DEF Crash, TypeOK
  <2>2. QED
    BY <2>1, NobodyAssumption DEF LockInv, Idle, Working
<1>4. ASSUME NEW s \in Sources, NEW t \in Threads,
             \/ Begin(s, t) \/ Lock(s, t) \/ Proceed(s, t) \/ LoseResponse(s, t) \/ WriteFails(s, t)
      PROVE  LockInv'
  <2>0. memory[s].token \in TokenFile /\ call[s][t].token \in TokenFile
    BY DEF TypeOK
  <2>1. CASE Begin(s, t)
    <3>1. \A u \in Sources, v \in Threads :
            call'[u][v] = IF u = s /\ v = t THEN [pc |-> "waiting", token |-> NoToken] ELSE call[u][v]
      BY <2>1 DEF Begin, Goto, TypeOK
    <3>2. QED
      BY <2>1, <3>1 DEF Begin, LockInv, Working, At
  <2>2. CASE Lock(s, t)
    <3>1. \A u \in Sources, v \in Threads :
            call'[u][v] = IF u = s /\ v = t THEN [pc |-> "locked", token |-> NoToken] ELSE call[u][v]
      BY <2>2 DEF Lock, Goto, TypeOK
    <3>2. memory[s].up /\ memory' = memory
      BY <2>2 DEF Lock, At, LockInv, Idle
    <3>3. \A u \in Sources : lock'[u] = IF u = s THEN t ELSE lock[u]
      BY <2>2 DEF Lock, TypeOK
    <3>4. \A v \in Threads : call[s][v].pc \notin Working
      BY <2>2, NobodyAssumption DEF Lock, LockInv
    <3>5. \A u \in Sources, v \in Threads : call'[u][v].pc \in Working <=> lock'[u] = v
      BY <3>1, <3>3, <3>4 DEF LockInv, Working
    <3>6. QED
      BY <3>1, <3>2, <3>5 DEF LockInv
  <2>3. CASE ReturnCached(s, t) \/ CannotRefresh(s, t) \/ LoseResponse(s, t) \/ WriteFails(s, t) \/ ReceiveRejection(s, t)
    BY <1>0, <2>0, <2>3, ReturnLockInv
       DEF ReturnCached, CannotRefresh, LoseResponse, WriteFails, ReceiveRejection, At, Working
  <2>4. CASE ReturnRefreshed(s, t)
    BY <2>0, <2>4, ReturnLockInv DEF ReturnRefreshed, At, Working
  <2>5. CASE Issue(s, t)
    <3>1. \E token : Goto(s, t, "issued", token)
      BY <2>5 DEF Issue
    <3>2. TypeOK'
      BY <1>4, NextTypeOK DEF Next
    <3>3. call'[s][t].pc = "issued" /\ Goto(s, t, "issued", call'[s][t].token) /\ call'[s][t].token \in TokenFile
      BY <3>1, <3>2 DEF Goto, TypeOK
    <3>4. QED
      BY <2>5, <3>3, WorkingLockInv DEF Issue, At, Working
  <2>6. CASE ReceiveTokens(s, t)
    <3>1. [call[s][t].token EXCEPT !.refresh = memory[s].token.refresh] \in TokenFile
      BY <2>0 DEF TokenFile
    <3>2. QED
      BY <2>0, <2>6, <3>1, WorkingLockInv DEF ReceiveTokens, At, Working
  <2>7. CASE SendRefresh(s, t) \/ OpenFile(s, t) \/ WriteFile(s, t)
    BY <2>0, <2>7, WorkingLockInv DEF SendRefresh, OpenFile, WriteFile, At, Working
  <2>8. CASE Reject(s, t)
    BY <1>0, <2>8, WorkingLockInv DEF Reject, At, Working
  <2>9. QED
    BY <1>4, <2>1, <2>2, <2>3, <2>4, <2>5, <2>6, <2>7, <2>8 DEF Proceed
<1>5. CASE UNCHANGED vars
  BY <1>5 DEF vars, LockInv
<1>6. QED
  BY <1>1, <1>2, <1>3, <1>4, <1>5 DEF Next

-----------------------------------------------------------------------------
(* One process: what the file, the memory and the calls hold.              *)

\* A call that does not work is not disturbed by the one that does, as long as
\* the refresh token in memory gets no older.
LEMMA RestingCallInv ==
  ASSUME TypeOK, TypeOK', NEW p \in Sources, NEW v \in Threads, CallInv(p, v),
         call'[p][v] = call[p][v], call[p][v].pc \notin Working,
         memory[p].token.refresh <= memory'[p].token.refresh
  PROVE  CallInv(p, v)'
<1>1. /\ call[p][v].token \in TokenFile /\ memory[p].token \in TokenFile /\ memory'[p].token \in TokenFile
      /\ call[p][v].token.refresh \in Int /\ memory[p].token.refresh \in Int /\ memory'[p].token.refresh \in Int
  BY DEF TypeOK, TokenFile
<1>2. QED
  BY <1>1 DEF CallInv, At, Working

\* What the step of a working call to pc with token must establish for the
\* invariant to hold: the part about itself and about the file.
LEMMA WorkingTokenInv ==
  ASSUME TypeOK, TypeOK', LockInv, TokenInv, NEW p, Sources = {p},
         NEW t \in Threads, call[p][t].pc \in Working,
         NEW pc, NEW token, Goto(p, t, pc, token),
         memory[p].token.refresh <= memory'[p].token.refresh,
         call'[p][t] = [pc |-> pc, token |-> token] => CallInv(p, t)',
         file'.token.refresh <= valid' /\ memory'[p].token.refresh <= valid',
         memory'[p].up /\ file'.ok /\ pc # "written" => Follows(p)'
  PROVE  TokenInv'
<1>1. \A v \in Threads : call'[p][v] = IF v = t THEN [pc |-> pc, token |-> token] ELSE call[p][v]
  BY DEF Goto, TypeOK
<1>2. \A v \in Threads : v # t => call[p][v].pc \notin Working
  BY DEF LockInv
<1>3. ASSUME NEW v \in Threads, v # t PROVE CallInv(p, v)'
  BY <1>1, <1>2, <1>3, RestingCallInv DEF TokenInv
<1>4. FileInv(p)'
  BY <1>1 DEF FileInv, At
<1>5. QED
  BY <1>1, <1>3, <1>4 DEF TokenInv

\* Memory and file hold the newest token known to either, step by step.
LEMMA NextTokenInv ==
  ASSUME TypeOK, LockInv, TokenInv, NEW p, Sources = {p}, [Next]_vars
  PROVE  TokenInv'
<1>0. TypeOK'
  BY NextTypeOK
<1>1. CASE Tick
  BY <1>1 DEF Tick, TokenInv, CallInv, FileInv, Follows, At
<1>2. CASE Start(p)
  <2>1. memory'[p] = Up(file.token) /\ \A v \in Threads : call'[p][v] = Idle
    BY <1>2 DEF Start, LockInv, TypeOK
  <2>2. \A v \in Threads : CallInv(p, v)'
    BY <2>1 DEF CallInv, Idle, At
  <2>3. FileInv(p)'
    BY <1>2, <2>1 DEF Start, TokenInv, FileInv, Follows, Up
  <2>4. QED
    BY <2>2, <2>3 DEF TokenInv
<1>3. CASE Crash(p)
  <2>1. memory'[p] = Down /\ \A v \in Threads : call'[p][v] = Idle
    BY <1>3 DEF Crash, TypeOK
  <2>2. \A v \in Threads : CallInv(p, v)'
    BY <2>1 DEF CallInv, Idle, At
  <2>3. FileInv(p)'
    BY <1>3, <2>1, NumbersAssumption DEF Crash, TokenInv, FileInv, Down, NoToken, TypeOK
  <2>4. QED
    BY <2>2, <2>3 DEF TokenInv
<1>4. ASSUME NEW t \in Threads,
             \/ Begin(p, t) \/ Lock(p, t) \/ Proceed(p, t) \/ LoseResponse(p, t) \/ WriteFails(p, t)
      PROVE  TokenInv'
  <2> DEFINE held == call[p][t].token
             kept == memory[p].token
  <2>0. /\ held \in TokenFile /\ held.refresh \in Int /\ kept \in TokenFile /\ kept.refresh \in Int
        /\ valid \in Int /\ file.token.refresh \in Int
    BY DEF TypeOK, TokenFile
  <2>c. CallInv(p, t) /\ FileInv(p)
    BY DEF TokenInv
  <2>1. CASE Begin(p, t) \/ Lock(p, t)
    <3>1. PICK pc \in {"waiting", "locked"} :
            \A v \in Threads : call'[p][v] = IF v = t THEN [pc |-> pc, token |-> NoToken] ELSE call[p][v]
      BY <2>1 DEF Begin, Lock, Goto, TypeOK
    <3>2. UNCHANGED <<valid, file, memory, unconfirmed>> /\ ~At(p, t, "written")
      BY <2>1 DEF Begin, Lock, At
    <3>3. \A v \in Threads : CallInv(p, v)'
      BY <3>1, <3>2 DEF TokenInv, CallInv, At
    <3>4. FileInv(p)'
      BY <3>1, <3>2 DEF TokenInv, FileInv, Follows, At
    <3>5. QED
      BY <3>3, <3>4 DEF TokenInv
  <2>2. ASSUME call[p][t].pc \in Working
        PROVE  /\ memory[p].up /\ kept.refresh <= valid /\ file.token.refresh <= valid
               /\ file.ok /\ ~At(p, t, "written") => Follows(p)
    <3>1. \A v \in Threads : v # t => ~At(p, v, "written")
      BY <2>2 DEF LockInv, Working, At
    <3>2. memory[p].up
      BY <2>2 DEF LockInv, Working, Idle
    <3>3. QED
      BY <2>c, <3>1, <3>2 DEF FileInv
  <2>3. CASE ReturnCached(p, t)
    <3>1. Goto(p, t, "answered", kept) /\ UNCHANGED <<valid, file, memory, unconfirmed>> /\ At(p, t, "locked")
      BY <2>3 DEF ReturnCached, Return
    <3>2. call'[p][t] = [pc |-> "answered", token |-> kept] => CallInv(p, t)'
      BY <2>0, <3>1 DEF CallInv, At
    <3>3. QED
      BY <1>0, <2>0, <2>2, <3>1, <3>2, WorkingTokenInv DEF At, Working, Follows
  <2>4. CASE CannotRefresh(p, t) \/ LoseResponse(p, t) \/ ReceiveRejection(p, t)
                \/ (WriteFails(p, t) /\ At(p, t, "received"))
    <3>1. /\ Goto(p, t, "failed", NoToken) /\ UNCHANGED <<valid, file, memory, unconfirmed>>
          /\ call[p][t].pc \in Working \ {"written"}
      BY <2>4 DEF CannotRefresh, LoseResponse, WriteFails, ReceiveRejection, Return, At, Working
    <3>2. call'[p][t] = [pc |-> "failed", token |-> NoToken] => CallInv(p, t)'
      BY DEF CallInv, At
    <3>3. QED
      BY <1>0, <2>0, <2>2, <3>1, <3>2, WorkingTokenInv DEF At, Follows
  <2>12. CASE WriteFails(p, t) /\ At(p, t, "opened")
    <3>1. /\ Goto(p, t, "failed", NoToken) /\ UNCHANGED <<valid, memory>>
          /\ At(p, t, "opened") /\ ~file.ok /\ held.refresh = valid
          /\ file' \in {file, Unreadable, Readable(held)}
          /\ unconfirmed' = [unconfirmed EXCEPT ![p] = file' = Readable(held)]
      BY <2>12, <2>c DEF WriteFails, Return, CallInv, At
    <3>2. call'[p][t] = [pc |-> "failed", token |-> NoToken] => CallInv(p, t)'
      BY DEF CallInv, At
    <3>3. kept.refresh <= valid /\ 0 <= valid
      BY <2>2, <3>1 DEF At, Working, TypeOK
    <3>4. file'.token.refresh <= valid /\ (file'.ok => Follows(p)')
      <4>1. CASE file' = Readable(held)
        <5>1. file'.token = held /\ unconfirmed'[p]
          BY <3>1, <4>1 DEF Readable, TypeOK
        <5>2. QED
          BY <2>0, <3>1, <3>3, <5>1 DEF Follows
      <4>2. CASE file' = Unreadable
        BY <3>3, <4>2 DEF Unreadable, NoToken
      <4>3. CASE file' = file
        BY <2>2, <3>1, <4>3 DEF At, Working
      <4>4. QED
        BY <3>1, <4>1, <4>2, <4>3
    <3>5. QED
      BY <1>0, <2>0, <2>2, <3>1, <3>2, <3>3, <3>4, WorkingTokenInv DEF At, Working, Follows
  <2>5. CASE SendRefresh(p, t)
    <3>1. Goto(p, t, "sent", kept) /\ UNCHANGED <<valid, file, memory, unconfirmed>> /\ At(p, t, "locked")
      BY <2>5 DEF SendRefresh
    <3>2. call'[p][t] = [pc |-> "sent", token |-> kept] => CallInv(p, t)'
      BY <3>1 DEF CallInv, At
    <3>3. QED
      BY <1>0, <2>0, <2>2, <3>1, <3>2, WorkingTokenInv DEF At, Working, Follows
  <2>6. CASE Issue(p, t)
    <3>1. At(p, t, "sent") /\ held = kept /\ kept.refresh = valid /\ UNCHANGED <<file, memory, unconfirmed>>
      BY <2>6, <2>c DEF Issue, CallInv, At
    <3>2. PICK token : /\ Goto(p, t, "issued", token)
                       /\ \/ token.refresh = 0 /\ valid' = valid
                          \/ token.refresh = valid + 1 /\ valid' = valid + 1
      BY <2>6 DEF Issue
    <3>3. call'[p][t] = [pc |-> "issued", token |-> token] => CallInv(p, t)'
      BY <3>1, <3>2 DEF CallInv, At
    <3>4. file.token.refresh <= valid' /\ kept.refresh <= valid'
      BY <2>0, <2>2, <3>1, <3>2 DEF At, Working
    <3>5. QED
      BY <1>0, <2>0, <2>2, <3>1, <3>2, <3>3, <3>4, WorkingTokenInv DEF At, Working, Follows
  <2>7. CASE Reject(p, t)
    <3>1. Goto(p, t, "rejected", NoToken) /\ UNCHANGED <<valid, file, memory, unconfirmed>> /\ At(p, t, "sent") /\ kept.refresh # valid
      BY <2>7, <2>c DEF Reject, CallInv, At
    <3>2. call'[p][t] = [pc |-> "rejected", token |-> NoToken] => CallInv(p, t)'
      BY <3>1 DEF CallInv, At
    <3>3. QED
      BY <1>0, <2>0, <2>2, <3>1, <3>2, WorkingTokenInv DEF At, Working, Follows
  <2>8. CASE ReceiveTokens(p, t)
    <3>1. PICK token : Goto(p, t, "received", token) /\ token.refresh = valid
      <4> DEFINE token == IF held.refresh = 0 THEN [held EXCEPT !.refresh = kept.refresh] ELSE held
      <4>1. Goto(p, t, "received", token)
        BY <2>8 DEF ReceiveTokens
      <4>2. held.refresh = valid \/ (held.refresh = 0 /\ kept.refresh = valid)
        BY <2>8, <2>c DEF ReceiveTokens, CallInv, At
      <4>3. valid # 0
        BY DEF TypeOK
      <4>4. token.refresh = valid
        BY <2>0, <4>2, <4>3 DEF TokenFile
      <4>5. QED
        BY <4>1, <4>4
    <3>2. UNCHANGED <<valid, file, memory, unconfirmed>> /\ At(p, t, "issued")
      BY <2>8 DEF ReceiveTokens
    <3>3. call'[p][t] = [pc |-> "received", token |-> token] => CallInv(p, t)'
      BY <3>1, <3>2 DEF CallInv, At
    <3>4. QED
      BY <1>0, <2>0, <2>2, <3>1, <3>2, <3>3, WorkingTokenInv DEF At, Working, Follows
  <2>9. CASE OpenFile(p, t)
    <3>1. /\ Goto(p, t, "opened", held) /\ UNCHANGED <<valid, memory>> /\ At(p, t, "received")
          /\ ~file'.ok /\ file'.token.refresh = 0
      BY <2>9 DEF OpenFile, Unreadable, NoToken
    <3>2. call'[p][t] = [pc |-> "opened", token |-> held] => CallInv(p, t)'
      BY <2>c, <3>1 DEF CallInv, At
    <3>3. 0 <= valid
      BY DEF TypeOK
    <3>4. QED
      BY <1>0, <2>0, <2>2, <3>1, <3>2, <3>3, WorkingTokenInv DEF At, Working, Follows
  <2>10. CASE WriteFile(p, t)
    <3>1. At(p, t, "opened") /\ ~file.ok /\ held.refresh = valid
      BY <2>10, <2>c DEF WriteFile, CallInv, At
    <3>2. Goto(p, t, "written", held) /\ UNCHANGED <<valid, memory>> /\ file' = Readable(held)
      BY <2>10, <3>1 DEF WriteFile
    <3>3. call'[p][t] = [pc |-> "written", token |-> held] => CallInv(p, t)'
      BY <3>1, <3>2 DEF CallInv, At
    <3>4. file'.token.refresh <= valid
      BY <2>0, <3>1, <3>2 DEF Readable
    <3>5. QED
      BY <1>0, <2>0, <2>2, <3>1, <3>2, <3>3, <3>4, WorkingTokenInv DEF At, Working, Follows
  <2>11. CASE ReturnRefreshed(p, t)
    <3>1. At(p, t, "written") /\ file = Readable(held) /\ held.refresh = valid
      BY <2>11, <2>c DEF ReturnRefreshed, CallInv, At
    <3>2. Goto(p, t, "answered", held) /\ UNCHANGED <<valid, file>> /\ memory'[p] = Up(held)
      BY <2>11 DEF ReturnRefreshed, Return, TypeOK
    <3>3. memory'[p].token = held /\ file.token = held
      BY <3>1, <3>2 DEF Up, Readable
    <3>4. call'[p][t] = [pc |-> "answered", token |-> held] => CallInv(p, t)'
      BY <2>0, <3>3 DEF CallInv, At
    <3>5. QED
      BY <1>0, <2>0, <2>2, <3>1, <3>2, <3>3, <3>4, WorkingTokenInv DEF At, Working, Follows
  <2>13. WriteFails(p, t) => At(p, t, "received") \/ At(p, t, "opened")
    BY DEF WriteFails
  <2>14. QED
    BY <1>4, <2>1, <2>3, <2>4, <2>5, <2>6, <2>7, <2>8, <2>9, <2>10, <2>11, <2>12, <2>13 DEF Proceed
<1>5. CASE UNCHANGED vars
  BY <1>5 DEF vars, TokenInv, CallInv, FileInv, Follows, At
<1>6. QED
  BY <1>1, <1>2, <1>3, <1>4, <1>5 DEF Next

-----------------------------------------------------------------------------
(* The theorems.                                                           *)

\* The lock is correct without the rest: the token needs it, not the other way round.
LEMMA LockInvariant == Spec => [](TypeOK /\ LockInv)
<1>1. Init => TypeOK /\ LockInv
  BY InitInv DEF IndInv
<1>2. TypeOK /\ LockInv /\ [Next]_vars => (TypeOK /\ LockInv)'
  BY NextTypeOK, NextLockInv
<1>3. QED
  BY <1>1, <1>2, PTL DEF Spec

\* Type correctness, for any number of processes and goroutines.
THEOREM TypeCorrect == Spec => []TypeOK
BY LockInvariant, PTL

\* At most one call of a process is between its Lock and its return, with any
\* number of processes on the file and whatever fails (token.go:154).
MutualExclusion ==
  \A s \in Sources : \A t, u \in Threads :
    call[s][t].pc \in Working /\ call[s][u].pc \in Working => t = u

\* At most one call of a process works at a time: with the lock released on
\* every return.
THEOREM OneCallWorks == Spec => []MutualExclusion
<1>1. LockInv => MutualExclusion
  BY DEF LockInv, MutualExclusion
<1>2. QED
  BY <1>1, LockInvariant, PTL

\* One process with a file of its own keeps track of its refresh token.
LEMMA InductiveInvariant ==
  ASSUME NEW p, Sources = {p}
  PROVE  Spec => []IndInv
<1>1. Init => IndInv
  BY InitInv
<1>2. IndInv /\ [Next]_vars => IndInv'
  BY NextTypeOK, NextLockInv, NextTokenInv DEF IndInv
<1>3. QED
  BY <1>1, <1>2, PTL DEF Spec

\* A process that has its token file to itself never sends a refresh token that
\* the credential manager has replaced, unless the replacement was lost before
\* it reached memory or file, or its write reported an error: for any number of
\* goroutines and any lifetimes.
THEOREM RefreshIsAccepted ==
  ASSUME NEW p, Sources = {p}
  PROVE  Spec => []RefreshAccepted
<1>1. IndInv => RefreshAccepted
  <2> SUFFICES ASSUME IndInv, NEW t \in Threads, At(p, t, "rejected") PROVE ~ValidIsKnown
    BY DEF RefreshAccepted
  <2> DEFINE kept == memory[p].token
  <2>1. kept.refresh < valid /\ memory[p].up
    <3>1. kept.refresh # valid /\ kept.refresh <= valid
      BY DEF IndInv, TokenInv, CallInv, FileInv
    <3>2. memory[p].token \in TokenFile /\ valid \in Int
      BY DEF IndInv, TypeOK
    <3>3. memory[p].up
      BY DEF IndInv, LockInv, Idle, At
    <3>4. QED
      BY <3>1, <3>2, <3>3 DEF TokenFile
  <2>2. ASSUME NEW v \in Threads PROVE call[p][v].token.refresh # valid
    <3>1. v # t => call[p][v].pc \notin Working
      BY DEF IndInv, LockInv, At, Working
    <3>2. call[p][v].token = NoToken \/ call[p][v].token.refresh <= kept.refresh
      BY <3>1 DEF IndInv, TokenInv, CallInv, At, TypeOK, Working
    <3>3. call[p][v].token.refresh \in Int /\ kept.refresh \in Int /\ valid \in Int /\ 0 < valid
      BY DEF IndInv, TypeOK, TokenFile
    <3>4. QED
      BY <2>1, <3>2, <3>3 DEF NoToken
  <2>3. file.ok /\ ~unconfirmed[p] => file.token = kept
    <3>1. \A v \in Threads : ~At(p, v, "written")
      BY DEF IndInv, LockInv, At, Working
    <3>2. QED
      BY <2>1, <3>1 DEF IndInv, TokenInv, FileInv, Follows
  <2>4. kept.refresh # valid
    BY DEF IndInv, TokenInv, CallInv
  <2>5. QED
    BY <2>2, <2>3, <2>4 DEF ValidIsKnown
<1>2. QED
  BY <1>1, InductiveInvariant, PTL

\* What a restarted process reads from a readable file are the tokens the
\* process had, or newer ones if a write reported an error, whatever failed
\* before.
THEOREM FileIsMemory ==
  ASSUME NEW p, Sources = {p}
  PROVE  Spec => []FileMatchesMemory
<1>1. IndInv => FileMatchesMemory
  <2> SUFFICES ASSUME IndInv, memory[p].up, lock[p] = Nobody, file.ok PROVE Follows(p)
    BY DEF FileMatchesMemory, Follows
  <2>1. \A v \in Threads : ~At(p, v, "written")
    BY NobodyAssumption DEF IndInv, LockInv, At, Working
  <2>2. QED
    BY <2>1 DEF IndInv, TokenInv, FileInv
<1>2. QED
  BY <1>1, InductiveInvariant, PTL

=============================================================================
