------------------------------ MODULE TokenAuth ------------------------------
(***************************************************************************)
(* The token cache of one two-step-auth source (auth/token_manager.py) and *)
(* the HTTP source's single retry on 401 (datasources/http_api.py).        *)
(*                                                                         *)
(* The process is one asyncio event loop: a requester is a coroutine, and  *)
(* an action is what it does between two awaits.  Tokens are numbered in   *)
(* the order the login server mints them, 0 being "no token".  The server  *)
(* is external: it mints, accepts, revokes, and may lose its answer.  The  *)
(* row is written on the registry's token connection, which the sources    *)
(* with two-step auth share; the other tables are written on another, so   *)
(* that a statement may find the database locked.                          *)
(***************************************************************************)
EXTENDS Naturals, FiniteSets, Sequences, SequencesExt

CONSTANTS
    Requesters,      \* coroutines that query the source
    HasRefreshUrl,   \* whether the source's auth block names a refresh_url
    Faults,          \* what may go wrong: a subset of FaultKinds
    MaxRequests,     \* bound on the requests made over a behaviour
    MaxRevocations,  \* bound on the tokens the server revokes
    MaxCrashes       \* bound on process restarts

FaultKinds == {"expiry", "loss", "failure", "cancel", "locked"}

ASSUME TokenAuthAssumption ==
    /\ HasRefreshUrl \in BOOLEAN
    /\ Faults \subseteq FaultKinds
    /\ MaxRequests \in Nat /\ MaxRevocations \in Nat /\ MaxCrashes \in Nat

VARIABLES
    pc,        \* where each requester is suspended
    attempt,   \* 1 for the request itself, 2 for its retry after a 401
    token,     \* the access token the requester last got from get_token
    rejected,  \* the token its first attempt was answered 401 with
    minted,    \* the row the requester built from its own login or refresh
    outcome,   \* how its last request ended
    locked,    \* the per-source asyncio.Lock
    waiters,   \* the coroutines queued on it, first come first served
    row,       \* the token_cache row as this process's connection sees it
    disk,      \* the row as last committed
    dangling,  \* a statement was left without its COMMIT: it failed, or its caller went away
    issued,    \* how many tokens the server has minted
    accepted,  \* tokens the server accepts
    expired,   \* tokens whose expires_at has passed
    requests,  \* requests begun (bounded by MaxRequests)
    crashes    \* restarts so far (bounded by MaxCrashes)

lock    == <<locked, waiters>>
req     == <<pc, attempt, token, rejected, minted, outcome, lock>>
db      == <<row, disk, dangling>>
server  == <<issued, accepted, expired>>
bounds  == <<requests, crashes>>
vars    == <<req, db, server, bounds>>

Row    == [token : Nat, refresh : BOOLEAN]
NoRow  == [token |-> 0, refresh |-> FALSE]

Steps == {"idle", "fast", "lock", "readExpired", "refresh", "login",
          "insert", "commit", "send", "delete", "commitDelete"}

Outcomes == {"none", "ok", "authFailed", "error", "cancelled"}

Init ==
    /\ pc = [r \in Requesters |-> "idle"]
    /\ attempt = [r \in Requesters |-> 1]
    /\ token = [r \in Requesters |-> 0]
    /\ rejected = [r \in Requesters |-> 0]
    /\ minted = [r \in Requesters |-> NoRow]
    /\ outcome = [r \in Requesters |-> "none"]
    /\ locked = FALSE /\ waiters = <<>>
    /\ row = NoRow /\ disk = NoRow /\ dangling = FALSE
    /\ issued = 0 /\ accepted = {} /\ expired = {}
    /\ requests = 0 /\ crashes = 0

\* A row get_token may hand out: present, and expires_at still ahead.
Usable(x) == x.token # 0 /\ x.token \notin expired

Goto(r, step) == pc' = [pc EXCEPT ![r] = step]

\* The body of `async with lock` once the double-check found no usable row.
InCritical(r) == pc[r] \in {"readExpired", "refresh", "login", "insert", "commit"}

\* Seeded fault: a lock that does not exclude.
LockIgnored(r) == waiters # <<>> /\ Head(waiters) = r

\* asyncio.Lock: free, and r is the first in line.
MayTakeLock(r) == ~locked /\ waiters # <<>> /\ Head(waiters) = r

\* Leaving `async with lock`, by return, exception or cancellation.
ReleaseLock == locked' = FALSE /\ UNCHANGED waiters

\* The coroutine returns to its caller with the given outcome.
Finish(r, how) ==
    /\ Goto(r, "idle")
    /\ outcome' = [outcome EXCEPT ![r] = how]

-----------------------------------------------------------------------------
(* _request_with_auth_retry: the request begins with get_token.            *)

Begin(r) ==
    /\ pc[r] = "idle" /\ requests < MaxRequests
    /\ Goto(r, "fast")
    /\ attempt' = [attempt EXCEPT ![r] = 1]
    /\ token' = [token EXCEPT ![r] = 0]
    /\ rejected' = [rejected EXCEPT ![r] = 0]
    /\ minted' = [minted EXCEPT ![r] = NoRow]
    /\ outcome' = [outcome EXCEPT ![r] = "none"]
    /\ requests' = requests + 1
    /\ UNCHANGED <<lock, db, server, crashes>>

\* get_token's fast path: an unexpired row is returned without the lock;
\* otherwise the coroutine joins the lock's waiters.
FastPath(r) ==
    /\ pc[r] = "fast"
    /\ \/ /\ Usable(row)
          /\ Goto(r, "send")
          /\ token' = [token EXCEPT ![r] = row.token]
          /\ UNCHANGED waiters
       \/ /\ ~Usable(row)
          /\ Goto(r, "lock")
          /\ waiters' = Append(waiters, r)
          /\ UNCHANGED token
    /\ UNCHANGED <<attempt, rejected, minted, outcome, locked, db, server, bounds>>

\* Seeded fault: log in without looking at the row again.
NoDoubleCheck(r) ==
    /\ pc[r] = "lock" /\ MayTakeLock(r)
    /\ waiters' = Tail(waiters)
    /\ locked' = TRUE /\ Goto(r, "readExpired") /\ UNCHANGED token
    /\ UNCHANGED <<attempt, rejected, minted, outcome, db, server, bounds>>

\* The lock is taken: a row cached while waiting is returned (releasing the
\* lock again), otherwise a refresh or login is due.
DoubleCheck(r) ==
    /\ pc[r] = "lock" /\ MayTakeLock(r)
    /\ waiters' = Tail(waiters)
    /\ \/ /\ Usable(row)
          /\ Goto(r, "send")
          /\ token' = [token EXCEPT ![r] = row.token]
          /\ UNCHANGED locked
       \/ /\ ~Usable(row)
          /\ Goto(r, "readExpired")
          /\ locked' = TRUE
          /\ UNCHANGED token
    /\ UNCHANGED <<attempt, rejected, minted, outcome, db, server, bounds>>

\* Refresh is tried when the row, whatever its age, has a refresh token.
ReadExpired(r) ==
    /\ pc[r] = "readExpired"
    /\ \/ row.refresh /\ HasRefreshUrl /\ Goto(r, "refresh")
       \/ ~(row.refresh /\ HasRefreshUrl) /\ Goto(r, "login")
    /\ UNCHANGED <<attempt, token, rejected, minted, outcome, lock, db, server, bounds>>

\* The server mints a token and its answer arrives.  A login's answer may or
\* may not hold a refresh token; a refresh always leaves one in the row.
Mint(r) ==
    /\ pc[r] \in {"login", "refresh"}
    /\ Goto(r, "insert")
    /\ issued' = issued + 1
    /\ accepted' = accepted \cup {issued + 1}
    /\ \E refresh \in BOOLEAN :
         /\ pc[r] = "refresh" => refresh
         /\ minted' = [minted EXCEPT ![r] = [token |-> issued + 1, refresh |-> refresh]]
    /\ UNCHANGED <<attempt, token, rejected, outcome, lock, db, expired, bounds>>

\* Seeded fault: a failed login leaves the lock taken.
MintFailsKeepsLock(r) ==
    /\ pc[r] \in {"login", "refresh"}
    /\ \/ /\ "failure" \in Faults /\ UNCHANGED <<issued, accepted>>
       \/ /\ "loss" \in Faults
          /\ issued' = issued + 1 /\ accepted' = accepted \cup {issued + 1}
    /\ \/ pc[r] = "refresh" /\ Goto(r, "login") /\ UNCHANGED <<outcome, lock>>
       \/ Finish(r, "error") /\ UNCHANGED lock
    /\ UNCHANGED <<attempt, token, rejected, minted, db, expired, bounds>>

\* The request fails.  "loss": the server did mint, but the answer is lost or
\* unreadable.  A DataSourceError of a refresh falls back to login; any other
\* failure leaves get_token by its exception, releasing the lock.
MintFails(r) ==
    /\ pc[r] \in {"login", "refresh"}
    /\ \/ /\ "failure" \in Faults /\ UNCHANGED <<issued, accepted>>
       \/ /\ "loss" \in Faults
          /\ issued' = issued + 1 /\ accepted' = accepted \cup {issued + 1}
    /\ \/ pc[r] = "refresh" /\ Goto(r, "login") /\ UNCHANGED <<outcome, lock>>
       \/ Finish(r, "error") /\ ReleaseLock
    /\ UNCHANGED <<attempt, token, rejected, minted, db, expired, bounds>>

\* A COMMIT makes durable whatever the token connection has pending.
Commit == disk' = row /\ dangling' = FALSE /\ UNCHANGED row

\* _cache_token: INSERT OR REPLACE, ...
Insert(r) ==
    /\ pc[r] = "insert"
    /\ Goto(r, "commit")
    /\ row' = minted[r]
    /\ UNCHANGED <<attempt, token, rejected, minted, outcome, lock, disk, dangling, server, bounds>>

\* ... its COMMIT, and get_token returns.

CommitInsert(r) ==
    /\ pc[r] = "commit"
    /\ Goto(r, "send")
    /\ Commit
    /\ token' = [token EXCEPT ![r] = minted[r].token]
    /\ ReleaseLock
    /\ UNCHANGED <<attempt, rejected, minted, outcome, server, bounds>>

-----------------------------------------------------------------------------
(* The data request, and the 401 path.                                     *)

\* The server answers the data request: 401 for a token it does not accept,
\* a first one starting the retry and a second one raising AUTH_FAILED.
Send(r) ==
    /\ pc[r] = "send"
    /\ \/ /\ token[r] \in accepted
          /\ Finish(r, "ok")
          /\ UNCHANGED rejected
       \/ /\ token[r] \notin accepted /\ attempt[r] = 1
          /\ Goto(r, "delete")
          /\ rejected' = [rejected EXCEPT ![r] = token[r]]
          /\ UNCHANGED outcome
       \/ /\ token[r] \notin accepted /\ attempt[r] = 2
          /\ Finish(r, "authFailed")
          /\ UNCHANGED rejected
       \/ /\ "failure" \in Faults
          /\ Finish(r, "error")
          /\ UNCHANGED rejected
    /\ UNCHANGED <<attempt, token, minted, lock, db, server, bounds>>

\* Seeded fault: invalidate forgets the DELETE.
DeleteNothing(r) ==
    /\ pc[r] = "delete"
    /\ Goto(r, "commitDelete")
    /\ UNCHANGED <<attempt, token, rejected, minted, outcome, lock, db, server, bounds>>

\* invalidate: DELETE of the row, whichever token it holds by now, ...
Delete(r) ==
    /\ pc[r] = "delete"
    /\ Goto(r, "commitDelete")
    /\ row' = NoRow
    /\ UNCHANGED <<attempt, token, rejected, minted, outcome, lock, disk, dangling, server, bounds>>

\* Seeded fault: invalidate forgets the COMMIT.
CommitNothing(r) ==
    /\ pc[r] = "commitDelete"
    /\ Goto(r, "fast")
    /\ attempt' = [attempt EXCEPT ![r] = @ + 1]
    /\ UNCHANGED <<token, rejected, minted, outcome, lock, db, server, bounds>>

\* ... its COMMIT, and get_token again for the one retry.
CommitDelete(r) ==
    /\ pc[r] = "commitDelete"
    /\ Goto(r, "fast")
    /\ Commit
    /\ attempt' = [attempt EXCEPT ![r] = @ + 1]
    /\ UNCHANGED <<token, rejected, minted, outcome, lock, server, bounds>>

-----------------------------------------------------------------------------
(* Statements that fail, and callers that go away.                         *)

\* Leaving get_token or invalidate by an exception: `async with` gives the lock
\* back, outside of it there is nothing to give.
Unwind(r) ==
    \/ InCritical(r) /\ ReleaseLock
    \/ ~InCritical(r) /\ UNCHANGED lock

\* The INSERT, the DELETE or a COMMIT finds the database locked.  A statement
\* that fails writes nothing; what a failing COMMIT was for stays on the
\* connection.  Nobody rolls back, and the exception is the request's answer.
WriteFails(r) ==
    /\ "locked" \in Faults
    /\ pc[r] \in {"insert", "commit", "delete", "commitDelete"}
    /\ Finish(r, "error")
    /\ Unwind(r)
    /\ dangling' = (dangling \/ pc[r] \in {"commit", "commitDelete"})
    /\ UNCHANGED <<attempt, token, rejected, minted, row, disk, server, bounds>>

\* What a cancelled caller was waiting for on the token connection: aiosqlite's
\* thread carries it out all the same, unless it fails.
CarriedOut(r) ==
    \/ /\ pc[r] = "insert" /\ row' = minted[r]
       /\ dangling' = TRUE /\ UNCHANGED disk
    \/ /\ pc[r] = "delete" /\ row' = NoRow
       /\ dangling' = TRUE /\ UNCHANGED disk
    \/ pc[r] \in {"commit", "commitDelete"} /\ Commit

\* The caller's task is cancelled at any of its awaits.
Cancel(r) ==
    /\ "cancel" \in Faults
    /\ pc[r] # "idle"
    /\ Finish(r, "cancelled")
    /\ \/ pc[r] # "lock" /\ Unwind(r)
       \/ /\ pc[r] = "lock"
          /\ \E i \in 1 .. Len(waiters) : waiters[i] = r /\ waiters' = RemoveAt(waiters, i)
          /\ UNCHANGED locked
    /\ \/ CarriedOut(r)
       \/ /\ dangling' = (dangling \/ pc[r] \in {"commit", "commitDelete"})
          /\ UNCHANGED <<row, disk>>
    /\ UNCHANGED <<attempt, token, rejected, minted, server, bounds>>

-----------------------------------------------------------------------------
(* The environment.                                                        *)

\* The tokens whose expires_at anybody will look at again.
Cached == {row.token, disk.token} \cup {minted[r].token : r \in {r \in Requesters : pc[r] = "insert"}}

Expire(t) ==
    /\ "expiry" \in Faults
    /\ t \in Cached \ expired
    /\ expired' = expired \cup {t}
    /\ UNCHANGED <<req, db, issued, accepted, bounds>>

Revoke(t) ==
    /\ t \in accepted
    /\ Cardinality((1 .. issued) \ accepted) < MaxRevocations
    /\ accepted' = accepted \ {t}
    /\ UNCHANGED <<req, db, issued, expired, bounds>>

\* Another source's coroutine commits on the shared token connection.
OtherSourceCommits ==
    /\ row # disk
    /\ Commit
    /\ UNCHANGED <<req, server, bounds>>

\* The process dies and starts again: uncommitted writes are lost.
Restart ==
    /\ crashes < MaxCrashes
    /\ pc' = [r \in Requesters |-> "idle"]
    /\ outcome' = [r \in Requesters |-> "none"]
    /\ minted' = [r \in Requesters |-> NoRow]
    /\ locked' = FALSE /\ waiters' = <<>>
    /\ row' = disk /\ dangling' = FALSE
    /\ crashes' = crashes + 1
    /\ UNCHANGED <<attempt, token, rejected, disk, server, requests>>

Step(r) ==
    \/ FastPath(r) \/ DoubleCheck(r) \/ ReadExpired(r)
    \/ Mint(r) \/ MintFails(r) \/ Insert(r) \/ CommitInsert(r)
    \/ Send(r) \/ Delete(r) \/ CommitDelete(r) \/ WriteFails(r)

Next ==
    \/ \E r \in Requesters : Begin(r) \/ Step(r) \/ Cancel(r)
    \/ \E t \in 1 .. issued : Expire(t) \/ Revoke(t)
    \/ OtherSourceCommits \/ Restart

Spec == Init /\ [][Next]_vars

\* asyncio runs every ready coroutine, and every HTTP call has a timeout, so a
\* suspended requester is always resumed.
FairSpec == Spec /\ \A r \in Requesters : WF_vars(Step(r))
-----------------------------------------------------------------------------
(* Properties                                                              *)

TypeOK ==
    /\ pc \in [Requesters -> Steps]
    /\ attempt \in [Requesters -> {1, 2}]
    /\ token \in [Requesters -> Nat]
    /\ rejected \in [Requesters -> Nat]
    /\ minted \in [Requesters -> Row]
    /\ outcome \in [Requesters -> Outcomes]
    /\ locked \in BOOLEAN
    /\ waiters \in Seq(Requesters)
    /\ row \in Row /\ disk \in Row /\ dangling \in BOOLEAN
    /\ issued \in Nat
    /\ accepted \subseteq 1 .. issued
    /\ expired \subseteq 1 .. issued
    /\ requests \in Nat /\ crashes \in Nat

\* Never do two coroutines refresh, log in or write the cache for the source
\* at the same time, whoever fails, is cancelled or queues (token_manager.py:57).
SingleFlight ==
    \A r, s \in Requesters : InCritical(r) /\ InCritical(s) => r = s

\* The retry after a 401 never presents the token that was just rejected, so
\* AUTH_FAILED means that two different tokens were refused (http_api.py:506-531).
RetryUsesAnotherToken ==
    \A r \in Requesters :
        (attempt[r] = 2 /\ pc[r] = "send") \/ outcome[r] = "authFailed"
            => token[r] # 0 /\ token[r] # rejected[r]

\* The strengthening under which the properties above and ImplementsCell are
\* inductive.  OneRetry: only a first attempt is invalidating its
\* token, and a running request has no outcome yet.
\* TokensExist: a token number in use was minted.  LockHeld: the
\* lock is what keeps logins apart.  NothingUsableYet: no usable row appears
\* while a login is under way.  MintedIsNewest: nobody has seen the token
\* about to be inserted.  RejectedIsGone: once deleted, a rejected token never
\* comes back into the row.
OneRetry ==
    \A r \in Requesters :
        /\ pc[r] \in {"delete", "commitDelete"} => attempt[r] = 1
        /\ pc[r] # "idle" => outcome[r] = "none"

TokensExist ==
    /\ row.token <= issued /\ disk.token <= issued
    /\ \A r \in Requesters :
         token[r] <= issued /\ rejected[r] <= issued /\ minted[r].token <= issued

LockHeld == \A r \in Requesters : InCritical(r) => locked

NothingUsableYet ==
    \A r \in Requesters : InCritical(r) /\ pc[r] # "commit" => ~Usable(row)

MintedIsNewest ==
    \A r \in Requesters :
        /\ pc[r] = "insert" =>
             /\ minted[r].token = issued /\ row.token < issued
             /\ \A s \in Requesters : token[s] < issued /\ rejected[s] < issued
        /\ pc[r] \in {"insert", "commit"} => minted[r].token > rejected[r]

RejectedIsGone ==
    \A r \in Requesters :
        /\ pc[r] = "send" => token[r] # 0
        /\ pc[r] = "delete" => rejected[r] # 0
        /\ pc[r] = "commitDelete" \/ (attempt[r] = 2 /\ pc[r] # "idle") =>
             rejected[r] # 0 /\ row.token # rejected[r]

TokenInv ==
    /\ TypeOK /\ OneRetry /\ TokensExist /\ LockHeld /\ SingleFlight /\ NothingUsableYet
    /\ MintedIsNewest /\ RejectedIsGone /\ RetryUsesAnotherToken

\* What callers see in the cache survives a restart (token_manager.py:27-28,
\* "persistent across process restarts"), unless a statement is between its
\* execute and its commit, or a COMMIT failed or was never reached, the lock of
\* the file is still held for it, and no source has committed since.
CachedRowIsDurable ==
    row # disk => dangling \/ \E r \in Requesters : pc[r] \in {"commit", "commitDelete"}

\* The token layer is a single-flight credential cell: a login only when no
\* usable token is cached, and only the newest token is ever installed.
Cell == INSTANCE CredentialCell WITH
    value  <- IF Usable(row) THEN row.token ELSE 0,
    newest <- issued,
    epoch  <- crashes

ImplementsCell == Cell!CellSpec

\* Every request is answered, with a result or an error: nobody waits for ever
\* behind a login that failed or whose caller went away.
EveryRequestAnswered ==
    \A r \in Requesters : pc[r] = "fast" ~> pc[r] = "idle"

\* The recovery from a 401 that cached the requester's present token.
Relogin(r) ==
    attempt[r] = 2 /\ token[r] # rejected[r] /\ minted[r].token = token[r]

\* two-step-auth.md:175 "5 concurrent 401s -> exactly one re-login.": requesters
\* whose first attempts were refused with one token share one recovery login.
OneReloginPerRejectedToken ==
    \A r, s \in Requesters :
        Relogin(r) /\ Relogin(s) /\ rejected[r] = rejected[s] => r = s
=============================================================================
