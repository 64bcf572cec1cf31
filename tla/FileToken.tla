----------------------------- MODULE FileToken -----------------------------
(***************************************************************************)
(* auth.FileToken: a token source backed by a token file.  IDToken answers *)
(* from memory while the ID token has more than refreshSkew left, and      *)
(* otherwise refreshes it at the credential manager, rewrites the file and *)
(* then replaces the tokens in memory, all under f.mu.                     *)
(*                                                                         *)
(* Sources are FileTokens on the same path, one per process; Threads are   *)
(* goroutines of a process that call IDToken.  The credential manager is   *)
(* external: it accepts a refresh token that is valid and may replace it,  *)
(* which ends the old one.  Faults says what goes wrong in an instance:    *)
(*   "lost"   a request or a response is lost, or the context is cancelled *)
(*   "write"  os.WriteFile fails: before it truncates the file, with part  *)
(*            of the token in it, or with all of it                        *)
(*   "crash"  a process ends at any step and may start again               *)
(***************************************************************************)
EXTENDS Integers

CONSTANTS
  Sources, Threads,
  Faults,
  Nobody,       \* holds no lock
  refreshSkew,
  Lifetimes,    \* lifetimes of the ID tokens issued; 0: no "exp" claim
  MaxTime,      \* bound on the clock
  MaxRefresh    \* bound on the refresh tokens issued

ASSUME FaultsAssumption == Faults \subseteq {"lost", "write", "crash"}
ASSUME NobodyAssumption == Nobody \notin Threads
ASSUME NumbersAssumption ==
  /\ refreshSkew \in Nat /\ MaxTime \in Nat
  /\ MaxRefresh \in Nat \ {0} /\ Lifetimes \subseteq Nat

VARIABLES
  now,
  valid,    \* the refresh token the credential manager accepts
  file,     \* the token file
  memory,   \* f.tokenFile and f.claims of each source, or Down
  lock,     \* f.mu of each source
  call,     \* the IDToken call of each thread of each source
  unconfirmed  \* history: of each source, whether its last write reported an
               \* error although all of the token was in the file

vars == <<now, valid, file, memory, lock, call, unconfirmed>>

-----------------------------------------------------------------------------
\* A TokenFile with the expiry its ID token claims.  Refresh tokens are
\* numbered in the order of their issue; 0 is the empty string.
TokenFile == [exp : Nat, refresh : 0..MaxRefresh]

NoToken    == [exp |-> 0, refresh |-> 0]
Unreadable == [ok |-> FALSE, token |-> NoToken]   \* truncated: NewFileToken fails
Readable(t) == [ok |-> TRUE, token |-> t]
Down       == [up |-> FALSE, token |-> NoToken]
Up(t)      == [up |-> TRUE, token |-> t]

\* pc: where the call is; token: the one it has sent, received or returned.
Idle == [pc |-> "idle", token |-> NoToken]

At(s, t, pc) == call[s][t].pc = pc
Goto(s, t, pc, token) == call' = [call EXCEPT ![s][t] = [pc |-> pc, token |-> token]]
Release(s) == lock' = [lock EXCEPT ![s] = Nobody]

\* validateTokenTime and the comparison after it: an ID token without "exp" is
\* never expired and never fresh.
Fresh(token) == token.exp # 0 /\ token.exp - now > refreshSkew

-----------------------------------------------------------------------------
(* IDToken.                                                                *)

Begin(s, t) ==
  /\ memory[s].up
  /\ At(s, t, "idle") \/ At(s, t, "answered") \/ At(s, t, "failed")
  /\ Goto(s, t, "waiting", NoToken)
  /\ UNCHANGED <<now, valid, file, memory, lock, unconfirmed>>

\* Faulty variants (see README, "Mutants").
LockAnyway(s, t) ==
  /\ At(s, t, "waiting")
  /\ lock' = [lock EXCEPT ![s] = t]
  /\ Goto(s, t, "locked", NoToken)
  /\ UNCHANGED <<now, valid, file, memory, unconfirmed>>

Lock(s, t) ==
  /\ At(s, t, "waiting")
  /\ lock[s] = Nobody
  /\ lock' = [lock EXCEPT ![s] = t]
  /\ Goto(s, t, "locked", NoToken)
  /\ UNCHANGED <<now, valid, file, memory, unconfirmed>>

\* A return with defer f.mu.Unlock().
Return(s, t, pc, token) == Goto(s, t, pc, token) /\ Release(s)

ReturnCached(s, t) ==
  /\ At(s, t, "locked")
  /\ Fresh(memory[s].token)
  /\ Return(s, t, "answered", memory[s].token)
  /\ UNCHANGED <<now, valid, file, memory, unconfirmed>>

\* Faulty variant: no unlock.
CannotRefreshLocked(s, t) ==
  /\ At(s, t, "locked")
  /\ ~Fresh(memory[s].token)
  /\ memory[s].token.refresh = 0
  /\ Goto(s, t, "failed", NoToken)
  /\ UNCHANGED <<now, valid, file, memory, lock, unconfirmed>>

\* "missing refresh_token"
CannotRefresh(s, t) ==
  /\ At(s, t, "locked")
  /\ ~Fresh(memory[s].token)
  /\ memory[s].token.refresh = 0
  /\ Return(s, t, "failed", NoToken)
  /\ UNCHANGED <<now, valid, file, memory, unconfirmed>>

SendRefresh(s, t) ==
  /\ At(s, t, "locked")
  /\ ~Fresh(memory[s].token)
  /\ memory[s].token.refresh # 0
  /\ Goto(s, t, "sent", memory[s].token)
  /\ UNCHANGED <<now, valid, file, memory, lock, unconfirmed>>

\* client.Do returns an error, the response is not 2xx, or it does not decode
\* to a token file with a parseable id_token.
LoseResponse(s, t) ==
  /\ "lost" \in Faults
  /\ At(s, t, "sent") \/ At(s, t, "issued")
  /\ Return(s, t, "failed", NoToken)
  /\ UNCHANGED <<now, valid, file, memory, unconfirmed>>

ReceiveRejection(s, t) ==
  /\ At(s, t, "rejected")
  /\ Return(s, t, "failed", NoToken)
  /\ UNCHANGED <<now, valid, file, memory, unconfirmed>>

\* refreshToken fills in the refresh token it sent when the response has none.
ReceiveTokens(s, t) ==
  /\ At(s, t, "issued")
  /\ LET response == call[s][t].token
     IN  Goto(s, t, "received",
              IF response.refresh = 0 THEN [response EXCEPT !.refresh = memory[s].token.refresh] ELSE response)
  /\ UNCHANGED <<now, valid, file, memory, lock, unconfirmed>>

\* os.WriteFile: open with O_TRUNC, then write.
OpenFile(s, t) ==
  /\ At(s, t, "received")
  /\ file' = Unreadable
  /\ unconfirmed' = [unconfirmed EXCEPT ![s] = FALSE]
  /\ Goto(s, t, "opened", call[s][t].token)
  /\ UNCHANGED <<now, valid, memory, lock>>

\* If another process has written since the file was truncated here, the end
\* of what it wrote may stay behind.
WriteFile(s, t) ==
  /\ At(s, t, "opened")
  /\ file' \in {Readable(call[s][t].token)} \cup IF file.ok THEN {Unreadable} ELSE {}
  /\ Goto(s, t, "written", call[s][t].token)
  /\ UNCHANGED <<now, valid, memory, lock, unconfirmed>>

\* The file cannot be opened and stays as it is; or nothing, part or all of the
\* token is in it when writing or closing it fails.  All but the newline is
\* enough to read it again.
WriteFails(s, t) ==
  /\ "write" \in Faults
  /\ \/ At(s, t, "received") /\ UNCHANGED <<file, unconfirmed>>
     \/ /\ At(s, t, "opened")
        /\ file' \in {file, Unreadable, Readable(call[s][t].token)}
        /\ unconfirmed' = [unconfirmed EXCEPT ![s] = file' = Readable(call[s][t].token)]
  /\ Return(s, t, "failed", NoToken)
  /\ UNCHANGED <<now, valid, memory>>

\* Faulty variants: f.claims is not assigned, or is left without a value.
ReturnWithOldClaims(s, t) ==
  /\ At(s, t, "written")
  /\ memory' = [memory EXCEPT ![s].token.refresh = call[s][t].token.refresh]
  /\ Return(s, t, "answered", call[s][t].token)
  /\ UNCHANGED <<now, valid, file, unconfirmed>>
ReturnWithoutClaims(s, t) ==
  /\ At(s, t, "written")
  /\ memory' = [memory EXCEPT ![s] = Up([refresh |-> call[s][t].token.refresh])]
  /\ Return(s, t, "answered", call[s][t].token)
  /\ UNCHANGED <<now, valid, file, unconfirmed>>

ReturnRefreshed(s, t) ==
  /\ At(s, t, "written")
  /\ memory' = [memory EXCEPT ![s] = Up(call[s][t].token)]
  /\ Return(s, t, "answered", call[s][t].token)
  /\ UNCHANGED <<now, valid, file, unconfirmed>>

-----------------------------------------------------------------------------
(* The credential manager, the clock and the processes.                    *)

\* A response names the new refresh token, or none when the old one stays.
Issue(s, t) ==
  /\ At(s, t, "sent")
  /\ call[s][t].token.refresh = valid
  /\ \E lifetime \in Lifetimes :
       LET exp == IF lifetime = 0 THEN 0 ELSE now + lifetime
       IN  \/ /\ Goto(s, t, "issued", [exp |-> exp, refresh |-> 0])
              /\ UNCHANGED valid
           \/ /\ valid < MaxRefresh
              /\ valid' = valid + 1
              /\ Goto(s, t, "issued", [exp |-> exp, refresh |-> valid + 1])
  /\ UNCHANGED <<now, file, memory, lock, unconfirmed>>

Reject(s, t) ==
  /\ At(s, t, "sent")
  /\ call[s][t].token.refresh # valid
  /\ Goto(s, t, "rejected", NoToken)
  /\ UNCHANGED <<now, valid, file, memory, lock, unconfirmed>>

Tick == now < MaxTime /\ now' = now + 1 /\ UNCHANGED <<valid, file, memory, lock, call, unconfirmed>>

\* NewFileToken
Start(s) ==
  /\ ~memory[s].up
  /\ file.ok
  /\ memory' = [memory EXCEPT ![s] = Up(file.token)]
  /\ unconfirmed' = [unconfirmed EXCEPT ![s] = FALSE]
  /\ UNCHANGED <<now, valid, file, lock, call>>

Crash(s) ==
  /\ "crash" \in Faults
  /\ memory[s].up
  /\ memory' = [memory EXCEPT ![s] = Down]
  /\ call' = [call EXCEPT ![s] = [t \in Threads |-> Idle]]
  /\ Release(s)
  /\ UNCHANGED <<now, valid, file, unconfirmed>>

-----------------------------------------------------------------------------
\* The file of a login: with or without an "exp" claim and a refresh token.
Init ==
  /\ now = 0
  /\ valid = 1
  /\ file \in {Readable([exp |-> exp, refresh |-> refresh]) : exp \in Lifetimes, refresh \in {0, 1}}
  /\ memory = [s \in Sources |-> Down]
  /\ lock = [s \in Sources |-> Nobody]
  /\ call = [s \in Sources |-> [t \in Threads |-> Idle]]
  /\ unconfirmed = [s \in Sources |-> FALSE]

\* The steps by which a call that has the lock goes on.
Proceed(s, t) ==
  \/ ReturnCached(s, t) \/ CannotRefresh(s, t) \/ SendRefresh(s, t)
  \/ Issue(s, t) \/ Reject(s, t) \/ ReceiveRejection(s, t) \/ ReceiveTokens(s, t)
  \/ OpenFile(s, t) \/ WriteFile(s, t) \/ ReturnRefreshed(s, t)

Next ==
  \/ Tick
  \/ \E s \in Sources : Start(s) \/ Crash(s)
  \/ \E s \in Sources, t \in Threads :
       \/ Begin(s, t) \/ Lock(s, t) \/ Proceed(s, t)
       \/ LoseResponse(s, t) \/ WriteFails(s, t)

\* The HTTP exchange ends, the file system answers, and sync.Mutex does not
\* starve a waiting goroutine.  Nothing makes the clock or a process go on.
Fairness ==
  \A s \in Sources, t \in Threads : WF_vars(Proceed(s, t)) /\ SF_vars(Lock(s, t))

Spec == Init /\ [][Next]_vars /\ Fairness

-----------------------------------------------------------------------------
(* Properties.                                                             *)

TypeOK ==
  /\ now \in 0..MaxTime
  /\ valid \in 1..MaxRefresh
  /\ file \in [ok : BOOLEAN, token : TokenFile]
  /\ memory \in [Sources -> [up : BOOLEAN, token : TokenFile]]
  /\ lock \in [Sources -> Threads \cup {Nobody}]
  /\ call \in [Sources -> [Threads ->
                 [pc : {"idle", "waiting", "locked", "sent", "issued", "rejected", "received",
                        "opened", "written", "answered", "failed"},
                  token : TokenFile]]]
  /\ unconfirmed \in [Sources -> BOOLEAN]

\* The refresh token the credential manager accepts, where the code keeps it
\* and knows that it does.
ValidIsKnown ==
  \/ file.ok /\ file.token.refresh = valid /\ \A s \in Sources : ~unconfirmed[s]
  \/ \E s \in Sources : memory[s].token.refresh = valid
  \/ \E s \in Sources, t \in Threads : call[s][t].token.refresh = valid

\* The credential manager accepts every refresh token it is sent, unless the
\* valid one has been lost with a response or a process, or its write has
\* reported an error: then the old one is sent, even if the file has the valid
\* one after all.  However calls overlap, none sends a token that another has
\* already exchanged: the expiry is checked, and the token read, under the lock
\* that the exchange and the update of memory hold (token.go:155-179).
RefreshAccepted == \A s \in Sources, t \in Threads : At(s, t, "rejected") => ~ValidIsKnown

\* While no call holds the lock, a file that can be read holds the tokens in
\* memory, whatever was lost and whatever failed before, or newer ones that a
\* write has left there and reported as an error: a restart goes on with the
\* tokens the process would have used or with better ones (token.go:175-179).
FileMatchesMemory ==
  \A s \in Sources : memory[s].up /\ lock[s] = Nobody /\ file.ok =>
    \/ file.token = memory[s].token
    \/ unconfirmed[s] /\ memory[s].token.refresh <= file.token.refresh

\* "IDToken returns a valid ID token, refreshing and rewriting the token file
\* when needed" (token.go:153): with a credential manager that answers, no call
\* comes back with a rejected refresh token.
NothingRejected == \A s \in Sources, t \in Threads : ~At(s, t, "rejected")

\* Every call of IDToken returns, unless its process ends (token.go:154).
EveryCallReturns ==
  \A s \in Sources, t \in Threads :
    At(s, t, "waiting") ~> call[s][t].pc \in {"idle", "answered", "failed"}

=============================================================================
