--------------------------- MODULE TokenAuthProofs ---------------------------
(***************************************************************************)
(* Proofs about TokenAuth, for every set of requesters, every choice of    *)
(* faults and every bound.  Each lemma about a step has one case per       *)
(* action.                                                                 *)
(***************************************************************************)
EXTENDS TokenAuth, SequenceTheorems, TLAPS

\* Taking one waiter out of the lock's queue leaves a queue of requesters.
LEMMA RemoveAtType ==
    ASSUME NEW S, NEW q \in Seq(S), NEW i \in 1 .. Len(q)
    PROVE  RemoveAt(q, i) \in Seq(S)
<1>1. SubSeq(q, 1, i - 1) \in Seq(S)
  BY SubSeqProperties
<1>2. SubSeq(q, i + 1, Len(q)) \in Seq(S)
  BY SubSeqProperties
<1>3. QED
  BY <1>1, <1>2, ConcatProperties DEF RemoveAt

\* TypeOK in three parts: the requesters' locals, the lock, the database and
\* the server.
RequesterTypes ==
    /\ pc \in [Requesters -> Steps]
    /\ attempt \in [Requesters -> {1, 2}]
    /\ token \in [Requesters -> Nat]
    /\ rejected \in [Requesters -> Nat]
    /\ minted \in [Requesters -> Row]
    /\ outcome \in [Requesters -> Outcomes]

LockTypes == locked \in BOOLEAN /\ waiters \in Seq(Requesters)

StoreTypes ==
    /\ row \in Row /\ disk \in Row /\ dangling \in BOOLEAN
    /\ issued \in Nat
    /\ accepted \subseteq 1 .. issued
    /\ expired \subseteq 1 .. issued
    /\ requests \in Nat /\ crashes \in Nat

\* The three parts are the type invariant.
LEMMA TypeParts == TypeOK <=> RequesterTypes /\ LockTypes /\ StoreTypes
  BY DEF TypeOK, RequesterTypes, LockTypes, StoreTypes

\* A step keeps the types of the requesters' locals, and the retry is the last
\* attempt.
LEMMA RequesterStep ==
    ASSUME TypeOK, OneRetry, [Next]_vars
    PROVE  RequesterTypes' /\ OneRetry'
<1> USE DEF TypeOK, OneRetry, RequesterTypes, Steps, Outcomes, Row, NoRow, Goto, Finish
<1> DEFINE Goal == RequesterTypes' /\ OneRetry'
<1>1. ASSUME NEW r \in Requesters, Begin(r) PROVE Goal
  BY <1>1 DEF Begin
<1>2. ASSUME NEW r \in Requesters, FastPath(r) PROVE Goal
  BY <1>2 DEF FastPath
<1>3. ASSUME NEW r \in Requesters, DoubleCheck(r) PROVE Goal
  BY <1>3 DEF DoubleCheck
<1>4. ASSUME NEW r \in Requesters, ReadExpired(r) PROVE Goal
  <2>1. PICK step \in {"refresh", "login"} : pc' = [pc EXCEPT ![r] = step]
    BY <1>4 DEF ReadExpired
  <2>2. pc[r] = "readExpired" /\ UNCHANGED <<attempt, token, rejected, minted, outcome>>
    BY <1>4 DEF ReadExpired
  <2>3. QED
    BY <2>1, <2>2
<1>5. ASSUME NEW r \in Requesters, Mint(r) PROVE Goal
  BY <1>5 DEF Mint
<1>6. ASSUME NEW r \in Requesters, MintFails(r) PROVE Goal
  <2>1. /\ pc[r] \in {"login", "refresh"} /\ UNCHANGED <<attempt, token, rejected, minted>>
        /\ \/ Goto(r, "login") /\ UNCHANGED outcome
           \/ Finish(r, "error")
    BY <1>6 DEF MintFails
  <2>2. QED
    BY <2>1
<1>7. ASSUME NEW r \in Requesters, Insert(r) PROVE Goal
  BY <1>7 DEF Insert
<1>8. ASSUME NEW r \in Requesters, CommitInsert(r) PROVE Goal
  BY <1>8 DEF CommitInsert, Commit
<1>9. ASSUME NEW r \in Requesters, Send(r) PROVE Goal
  <2>1. RequesterTypes'
    <3>1. pc' \in [Requesters -> Steps] /\ outcome' \in [Requesters -> Outcomes]
      <4>1. PICK step \in {"idle", "delete"} : pc' = [pc EXCEPT ![r] = step]
        BY <1>9 DEF Send
      <4>2. pc' \in [Requesters -> Steps]
        BY <4>1
      <4>3. PICK how \in Outcomes : outcome' = outcome \/ outcome' = [outcome EXCEPT ![r] = how]
        BY <1>9 DEF Send
      <4>4. outcome' \in [Requesters -> Outcomes]
        BY <4>3
      <4>5. QED
        BY <4>2, <4>4
    <3>2. rejected' \in [Requesters -> Nat] /\ UNCHANGED <<attempt, token, minted>>
      BY <1>9 DEF Send
    <3>3. QED
      BY <3>1, <3>2
  <2>2. OneRetry'
    BY <1>9 DEF Send
  <2>3. QED
    BY <2>1, <2>2
<1>10. ASSUME NEW r \in Requesters, Delete(r) PROVE Goal
  BY <1>10 DEF Delete
<1>11. ASSUME NEW r \in Requesters, CommitDelete(r) PROVE Goal
  BY <1>11 DEF CommitDelete, Commit
<1>12. ASSUME NEW r \in Requesters, Cancel(r) PROVE Goal
  BY <1>12 DEF Cancel, CarriedOut, Commit, Unwind
<1>13. ASSUME NEW t \in 1 .. issued, Expire(t) PROVE Goal
  BY <1>13 DEF Expire, req
<1>14. ASSUME NEW t \in 1 .. issued, Revoke(t) PROVE Goal
  BY <1>14 DEF Revoke, req
<1>15. CASE Restart
  BY <1>15 DEF Restart
<1>16. CASE UNCHANGED vars
  BY <1>16 DEF vars, req
<1>17. ASSUME NEW r \in Requesters, WriteFails(r) PROVE Goal
  BY <1>17 DEF WriteFails, Unwind
<1>18. CASE OtherSourceCommits
  BY <1>18 DEF OtherSourceCommits, Commit, req
<1>19. QED
  BY <1>1, <1>2, <1>3, <1>4, <1>5, <1>6, <1>7, <1>8, <1>9, <1>10, <1>11,
     <1>12, <1>13, <1>14, <1>15, <1>16, <1>17, <1>18 DEF Next, Step

\* A step keeps the lock a flag and its waiters a queue of requesters.
LEMMA LockStep ==
    ASSUME TypeOK, [Next]_vars
    PROVE  LockTypes'
<1> USE DEF TypeOK, LockTypes, ReleaseLock, lock
<1>1. ASSUME NEW r \in Requesters, Begin(r) PROVE LockTypes'
  BY <1>1 DEF Begin
<1>2. ASSUME NEW r \in Requesters, FastPath(r) PROVE LockTypes'
  <2>1. Append(waiters, r) \in Seq(Requesters)
    BY AppendProperties
  <2>2. QED
    BY <2>1, <1>2 DEF FastPath
<1>3. ASSUME NEW r \in Requesters, DoubleCheck(r) PROVE LockTypes'
  BY <1>3, HeadTailProperties DEF DoubleCheck, MayTakeLock
<1>4. ASSUME NEW r \in Requesters, ReadExpired(r) PROVE LockTypes'
  BY <1>4 DEF ReadExpired
<1>5. ASSUME NEW r \in Requesters, Mint(r) PROVE LockTypes'
  BY <1>5 DEF Mint
<1>6. ASSUME NEW r \in Requesters, MintFails(r) PROVE LockTypes'
  BY <1>6 DEF MintFails
<1>7. ASSUME NEW r \in Requesters, Insert(r) PROVE LockTypes'
  BY <1>7 DEF Insert
<1>8. ASSUME NEW r \in Requesters, CommitInsert(r) PROVE LockTypes'
  BY <1>8 DEF CommitInsert, Commit
<1>9. ASSUME NEW r \in Requesters, Send(r) PROVE LockTypes'
  BY <1>9 DEF Send
<1>10. ASSUME NEW r \in Requesters, Delete(r) PROVE LockTypes'
  BY <1>10 DEF Delete
<1>11. ASSUME NEW r \in Requesters, CommitDelete(r) PROVE LockTypes'
  BY <1>11 DEF CommitDelete, Commit
<1>12. ASSUME NEW r \in Requesters, Cancel(r) PROVE LockTypes'
  <2>1. CASE Unwind(r)
    BY <2>1 DEF Unwind
  <2>2. CASE ~Unwind(r)
    <3>1. UNCHANGED locked
      BY <2>2, <1>12 DEF Cancel
    <3>2. PICK i \in 1 .. Len(waiters) : waiters' = RemoveAt(waiters, i)
      BY <2>2, <1>12 DEF Cancel
    <3>3. RemoveAt(waiters, i) \in Seq(Requesters)
      BY RemoveAtType
    <3>4. QED
      BY <3>1, <3>2, <3>3
  <2>3. QED
    BY <2>1, <2>2
<1>13. ASSUME NEW t \in 1 .. issued, Expire(t) PROVE LockTypes'
  BY <1>13 DEF Expire, req
<1>14. ASSUME NEW t \in 1 .. issued, Revoke(t) PROVE LockTypes'
  BY <1>14 DEF Revoke, req
<1>15. CASE Restart
  BY <1>15, EmptySeq DEF Restart
<1>16. CASE UNCHANGED vars
  BY <1>16 DEF vars, req
<1>17. ASSUME NEW r \in Requesters, WriteFails(r) PROVE LockTypes'
  BY <1>17 DEF WriteFails, Unwind
<1>18. CASE OtherSourceCommits
  BY <1>18 DEF OtherSourceCommits, Commit, req
<1>19. QED
  BY <1>1, <1>2, <1>3, <1>4, <1>5, <1>6, <1>7, <1>8, <1>9, <1>10, <1>11,
     <1>12, <1>13, <1>14, <1>15, <1>16, <1>17, <1>18 DEF Next, Step

\* A step keeps the types of the stored rows, the token sets and the counters.
LEMMA StoreStep ==
    ASSUME TypeOK, [Next]_vars
    PROVE  StoreTypes'
<1> USE DEF TypeOK, StoreTypes, Row, NoRow, db, server, bounds
<1>0. 1 .. issued \subseteq 1 .. (issued + 1) /\ issued + 1 \in 1 .. (issued + 1)
  OBVIOUS
<1>1. ASSUME NEW r \in Requesters, Begin(r) PROVE StoreTypes'
  BY <1>1 DEF Begin
<1>2. ASSUME NEW r \in Requesters, FastPath(r) PROVE StoreTypes'
  BY <1>2 DEF FastPath
<1>3. ASSUME NEW r \in Requesters, DoubleCheck(r) PROVE StoreTypes'
  BY <1>3 DEF DoubleCheck
<1>4. ASSUME NEW r \in Requesters, ReadExpired(r) PROVE StoreTypes'
  BY <1>4 DEF ReadExpired
<1>5. ASSUME NEW r \in Requesters, Mint(r) PROVE StoreTypes'
  BY <1>0, <1>5 DEF Mint
<1>6. ASSUME NEW r \in Requesters, MintFails(r) PROVE StoreTypes'
  <2>1. issued' \in {issued, issued + 1} /\ UNCHANGED <<db, expired, bounds>>
    BY <1>6 DEF MintFails
  <2>2. accepted' \subseteq 1 .. issued'
    BY <1>0, <1>6 DEF MintFails
  <2>3. QED
    BY <1>0, <2>1, <2>2
<1>7. ASSUME NEW r \in Requesters, Insert(r) PROVE StoreTypes'
  BY <1>7 DEF Insert
<1>8. ASSUME NEW r \in Requesters, CommitInsert(r) PROVE StoreTypes'
  BY <1>8 DEF CommitInsert, Commit
<1>9. ASSUME NEW r \in Requesters, Send(r) PROVE StoreTypes'
  BY <1>9 DEF Send
<1>10. ASSUME NEW r \in Requesters, Delete(r) PROVE StoreTypes'
  BY <1>10 DEF Delete
<1>11. ASSUME NEW r \in Requesters, CommitDelete(r) PROVE StoreTypes'
  BY <1>11 DEF CommitDelete, Commit
<1>12. ASSUME NEW r \in Requesters, Cancel(r) PROVE StoreTypes'
  <2>1. UNCHANGED <<server, bounds>>
    BY <1>12 DEF Cancel
  <2>2. CASE CarriedOut(r)
    <3>1. row' \in {row, minted[r], NoRow} /\ disk' \in {disk, row}
      <4> HIDE DEF Row, NoRow
      <4>1. QED
        BY <2>2 DEF CarriedOut, Commit
    <3>2. dangling' \in BOOLEAN
      BY <2>2, Zenon DEF CarriedOut, Commit
    <3>3. minted[r] \in Row /\ NoRow \in Row
      OBVIOUS
    <3>4. row' \in Row /\ disk' \in Row
      BY <3>1, <3>3
    <3>5. QED
      BY <2>1, <3>2, <3>4
  <2>3. CASE ~CarriedOut(r)
    BY <2>1, <2>3, <1>12 DEF Cancel
  <2>4. QED
    BY <2>2, <2>3
<1>13. ASSUME NEW t \in 1 .. issued, Expire(t) PROVE StoreTypes'
  BY <1>13 DEF Expire
<1>14. ASSUME NEW t \in 1 .. issued, Revoke(t) PROVE StoreTypes'
  BY <1>14 DEF Revoke
<1>15. CASE Restart
  <2>1. dangling' \in BOOLEAN
    BY <1>15, Zenon DEF Restart
  <2>2. row' \in Row /\ disk' \in Row /\ crashes' \in Nat /\ requests' \in Nat
    BY <1>15 DEF Restart
  <2>3. UNCHANGED server
    BY <1>15 DEF Restart
  <2>4. QED
    BY <2>1, <2>2, <2>3
<1>16. CASE UNCHANGED vars
  BY <1>16 DEF vars
<1>17. ASSUME NEW r \in Requesters, WriteFails(r) PROVE StoreTypes'
  BY <1>17 DEF WriteFails, Unwind
<1>18. CASE OtherSourceCommits
  BY <1>18 DEF OtherSourceCommits, Commit
<1>19. QED
  BY <1>1, <1>2, <1>3, <1>4, <1>5, <1>6, <1>7, <1>8, <1>9, <1>10, <1>11,
     <1>12, <1>13, <1>14, <1>15, <1>16, <1>17, <1>18 DEF Next, Step

\* The initial state is typed.
LEMMA InitTypes == ASSUME Init PROVE TypeOK /\ OneRetry
<1>1. RequesterTypes
  BY DEF Init, RequesterTypes, Steps, Outcomes, Row, NoRow
<1>2. LockTypes
  BY EmptySeq DEF Init, LockTypes
<1>3. StoreTypes
  BY DEF Init, StoreTypes, Row, NoRow
<1>4. OneRetry
  BY DEF Init, OneRetry
<1>5. QED
  BY <1>1, <1>2, <1>3, <1>4, TypeParts

\* A step from a typed state leads to a typed state.
LEMMA TypesStep ==
    ASSUME TypeOK, OneRetry, [Next]_vars
    PROVE  TypeOK' /\ OneRetry'
<1>1. RequesterTypes' /\ OneRetry' /\ LockTypes' /\ StoreTypes'
  BY RequesterStep, LockStep, StoreStep
<1>2. QED
  BY <1>1 DEF TypeOK, RequesterTypes, LockTypes, StoreTypes

\* Every variable keeps its type; in particular no request is ever in a third
\* attempt (the straight-line retry of http_api.py:467-533).
THEOREM TypeCorrect == Spec => []TypeOK
<1>1. Init => TypeOK /\ OneRetry
  BY InitTypes
<1>2. (TypeOK /\ OneRetry) /\ [Next]_vars => (TypeOK /\ OneRetry)'
  BY TypesStep
<1>3. QED
  BY <1>1, <1>2, PTL DEF Spec

-----------------------------------------------------------------------------
(* The inductive invariant.                                                *)

\* A step uses only token numbers that have been minted.
LEMMA TokensStep ==
    ASSUME TypeOK, TokensExist, [Next]_vars
    PROVE  TokensExist'
<1> USE DEF TypeOK, TokensExist, Row, NoRow, req, db, server
<1>1. ASSUME NEW r \in Requesters, Begin(r) PROVE TokensExist'
  BY <1>1 DEF Begin
<1>2. ASSUME NEW r \in Requesters, FastPath(r) PROVE TokensExist'
  BY <1>2 DEF FastPath
<1>3. ASSUME NEW r \in Requesters, DoubleCheck(r) PROVE TokensExist'
  BY <1>3 DEF DoubleCheck
<1>4. ASSUME NEW r \in Requesters, ReadExpired(r) PROVE TokensExist'
  BY <1>4 DEF ReadExpired
<1>5. ASSUME NEW r \in Requesters, Mint(r) PROVE TokensExist'
  <2>1. issued' = issued + 1 /\ UNCHANGED <<row, disk, token, rejected>>
    BY <1>5 DEF Mint
  <2>2. \A s \in Requesters : minted'[s].token <= issued + 1
    BY <1>5 DEF Mint
  <2>3. QED
    BY <2>1, <2>2
<1>6. ASSUME NEW r \in Requesters, MintFails(r) PROVE TokensExist'
  BY <1>6 DEF MintFails
<1>7. ASSUME NEW r \in Requesters, Insert(r) PROVE TokensExist'
  BY <1>7 DEF Insert
<1>8. ASSUME NEW r \in Requesters, CommitInsert(r) PROVE TokensExist'
  BY <1>8 DEF CommitInsert, Commit
<1>9. ASSUME NEW r \in Requesters, Send(r) PROVE TokensExist'
  BY <1>9 DEF Send
<1>10. ASSUME NEW r \in Requesters, Delete(r) PROVE TokensExist'
  BY <1>10 DEF Delete
<1>11. ASSUME NEW r \in Requesters, CommitDelete(r) PROVE TokensExist'
  BY <1>11 DEF CommitDelete, Commit
<1>12. ASSUME NEW r \in Requesters, Cancel(r) PROVE TokensExist'
  BY <1>12 DEF Cancel, CarriedOut, Commit, Unwind
<1>13. ASSUME NEW t \in 1 .. issued, Expire(t) PROVE TokensExist'
  BY <1>13 DEF Expire
<1>14. ASSUME NEW t \in 1 .. issued, Revoke(t) PROVE TokensExist'
  BY <1>14 DEF Revoke
<1>15. CASE Restart
  BY <1>15 DEF Restart
<1>16. CASE UNCHANGED vars
  BY <1>16 DEF vars
<1>17. ASSUME NEW r \in Requesters, WriteFails(r) PROVE TokensExist'
  BY <1>17 DEF WriteFails, Unwind
<1>18. CASE OtherSourceCommits
  BY <1>18 DEF OtherSourceCommits, Commit
<1>19. QED
  BY <1>1, <1>2, <1>3, <1>4, <1>5, <1>6, <1>7, <1>8, <1>9, <1>10, <1>11,
     <1>12, <1>13, <1>14, <1>15, <1>16, <1>17, <1>18 DEF Next, Step

\* A step keeps logins apart: the lock is taken only when it is free, and is
\* given back only by the coroutine that leaves the critical section.
LEMMA CriticalStep ==
    ASSUME TypeOK, LockHeld, SingleFlight, [Next]_vars
    PROVE  LockHeld' /\ SingleFlight'
<1> USE DEF TypeOK, LockHeld, SingleFlight, InCritical, Goto, Finish, ReleaseLock, lock, req
<1> DEFINE Goal == LockHeld' /\ SingleFlight'
<1>1. ASSUME NEW r \in Requesters, Begin(r) PROVE Goal
  BY <1>1 DEF Begin
<1>2. ASSUME NEW r \in Requesters, FastPath(r) PROVE Goal
  BY <1>2 DEF FastPath
<1>3. ASSUME NEW r \in Requesters, DoubleCheck(r) PROVE Goal
  BY <1>3 DEF DoubleCheck, MayTakeLock
<1>4. ASSUME NEW r \in Requesters, ReadExpired(r) PROVE Goal
  BY <1>4 DEF ReadExpired
<1>5. ASSUME NEW r \in Requesters, Mint(r) PROVE Goal
  BY <1>5 DEF Mint
<1>6. ASSUME NEW r \in Requesters, MintFails(r) PROVE Goal
  <2>1. CASE pc[r] = "refresh" /\ Goto(r, "login") /\ UNCHANGED lock
    BY <2>1
  <2>2. CASE Finish(r, "error") /\ ReleaseLock
    BY <2>2, <1>6 DEF MintFails
  <2>3. QED
    BY <2>1, <2>2, <1>6 DEF MintFails
<1>7. ASSUME NEW r \in Requesters, Insert(r) PROVE Goal
  BY <1>7 DEF Insert
<1>8. ASSUME NEW r \in Requesters, CommitInsert(r) PROVE Goal
  BY <1>8 DEF CommitInsert, Commit
<1>9. ASSUME NEW r \in Requesters, Send(r) PROVE Goal
  BY <1>9 DEF Send
<1>10. ASSUME NEW r \in Requesters, Delete(r) PROVE Goal
  BY <1>10 DEF Delete
<1>11. ASSUME NEW r \in Requesters, CommitDelete(r) PROVE Goal
  BY <1>11 DEF CommitDelete, Commit
<1>12. ASSUME NEW r \in Requesters, Cancel(r) PROVE Goal
  BY <1>12 DEF Cancel, CarriedOut, Commit, Unwind
<1>13. ASSUME NEW t \in 1 .. issued, Expire(t) PROVE Goal
  BY <1>13 DEF Expire
<1>14. ASSUME NEW t \in 1 .. issued, Revoke(t) PROVE Goal
  BY <1>14 DEF Revoke
<1>15. CASE Restart
  BY <1>15 DEF Restart
<1>16. CASE UNCHANGED vars
  BY <1>16 DEF vars
<1>17. ASSUME NEW r \in Requesters, WriteFails(r) PROVE Goal
  BY <1>17 DEF WriteFails, Unwind
<1>18. CASE OtherSourceCommits
  BY <1>18 DEF OtherSourceCommits, Commit
<1>19. QED
  BY <1>1, <1>2, <1>3, <1>4, <1>5, <1>6, <1>7, <1>8, <1>9, <1>10, <1>11,
     <1>12, <1>13, <1>14, <1>15, <1>16, <1>17, <1>18 DEF Next, Step

\* A step makes no row usable while a login is under way.
LEMMA UnusableStep ==
    ASSUME TypeOK, SingleFlight, NothingUsableYet, [Next]_vars
    PROVE  NothingUsableYet'
<1> USE DEF TypeOK, SingleFlight, NothingUsableYet, InCritical, Usable, Goto, Finish,
            Row, NoRow, req, db, server
<1>1. ASSUME NEW r \in Requesters, Begin(r) PROVE NothingUsableYet'
  BY <1>1 DEF Begin
<1>2. ASSUME NEW r \in Requesters, FastPath(r) PROVE NothingUsableYet'
  <2>1. UNCHANGED <<row, expired>>
    BY <1>2 DEF FastPath
  <2>2. PICK step \in {"send", "lock"} : pc' = [pc EXCEPT ![r] = step]
    BY <1>2 DEF FastPath
  <2>3. QED
    BY <2>1, <2>2
<1>3. ASSUME NEW r \in Requesters, DoubleCheck(r) PROVE NothingUsableYet'
  <2>1. UNCHANGED <<row, expired>>
    BY <1>3 DEF DoubleCheck
  <2>2. CASE Usable(row)
    <3>1. pc' = [pc EXCEPT ![r] = "send"]
      BY <2>2, <1>3 DEF DoubleCheck
    <3>2. \A s \in Requesters : InCritical(s)' => InCritical(s) /\ pc'[s] = pc[s]
      BY <3>1
    <3>3. QED
      BY <2>1, <3>2
  <2>3. CASE ~Usable(row)
    BY <2>1, <2>3, <1>3 DEF DoubleCheck
  <2>4. QED
    BY <2>2, <2>3
<1>4. ASSUME NEW r \in Requesters, ReadExpired(r) PROVE NothingUsableYet'
  BY <1>4 DEF ReadExpired
<1>5. ASSUME NEW r \in Requesters, Mint(r) PROVE NothingUsableYet'
  BY <1>5 DEF Mint
<1>6. ASSUME NEW r \in Requesters, MintFails(r) PROVE NothingUsableYet'
  BY <1>6 DEF MintFails
<1>7. ASSUME NEW r \in Requesters, Insert(r) PROVE NothingUsableYet'
  BY <1>7 DEF Insert
<1>8. ASSUME NEW r \in Requesters, CommitInsert(r) PROVE NothingUsableYet'
  BY <1>8 DEF CommitInsert, Commit
<1>9. ASSUME NEW r \in Requesters, Send(r) PROVE NothingUsableYet'
  <2>1. UNCHANGED <<row, expired>>
    BY <1>9 DEF Send
  <2>2. PICK step \in {"idle", "delete"} : pc' = [pc EXCEPT ![r] = step]
    BY <1>9 DEF Send
  <2>3. QED
    BY <2>1, <2>2
<1>10. ASSUME NEW r \in Requesters, Delete(r) PROVE NothingUsableYet'
  BY <1>10 DEF Delete
<1>11. ASSUME NEW r \in Requesters, CommitDelete(r) PROVE NothingUsableYet'
  BY <1>11 DEF CommitDelete, Commit
<1>12. ASSUME NEW r \in Requesters, Cancel(r) PROVE NothingUsableYet'
  BY <1>12 DEF Cancel, CarriedOut, Commit, Unwind
<1>13. ASSUME NEW t \in 1 .. issued, Expire(t) PROVE NothingUsableYet'
  BY <1>13 DEF Expire
<1>14. ASSUME NEW t \in 1 .. issued, Revoke(t) PROVE NothingUsableYet'
  BY <1>14 DEF Revoke
<1>15. CASE Restart
  BY <1>15 DEF Restart
<1>16. CASE UNCHANGED vars
  BY <1>16 DEF vars
<1>17. ASSUME NEW r \in Requesters, WriteFails(r) PROVE NothingUsableYet'
  BY <1>17 DEF WriteFails, Unwind
<1>18. CASE OtherSourceCommits
  BY <1>18 DEF OtherSourceCommits, Commit
<1>19. QED
  BY <1>1, <1>2, <1>3, <1>4, <1>5, <1>6, <1>7, <1>8, <1>9, <1>10, <1>11,
     <1>12, <1>13, <1>14, <1>15, <1>16, <1>17, <1>18 DEF Next, Step

\* A step lets nobody see a token before its row is inserted.
LEMMA NewestStep ==
    ASSUME TypeOK, TokensExist, SingleFlight, MintedIsNewest, [Next]_vars
    PROVE  MintedIsNewest'
<1> USE DEF TypeOK, TokensExist, SingleFlight, MintedIsNewest, InCritical, Goto, Finish,
            Row, NoRow, req, db, server
<1>1. ASSUME NEW r \in Requesters, Begin(r) PROVE MintedIsNewest'
  BY <1>1 DEF Begin
<1>2. ASSUME NEW r \in Requesters, FastPath(r) PROVE MintedIsNewest'
  BY <1>2 DEF FastPath
<1>3. ASSUME NEW r \in Requesters, DoubleCheck(r) PROVE MintedIsNewest'
  BY <1>3 DEF DoubleCheck
<1>4. ASSUME NEW r \in Requesters, ReadExpired(r) PROVE MintedIsNewest'
  BY <1>4 DEF ReadExpired
<1>5. ASSUME NEW r \in Requesters, Mint(r) PROVE MintedIsNewest'
  BY <1>5 DEF Mint
<1>6. ASSUME NEW r \in Requesters, MintFails(r) PROVE MintedIsNewest'
  BY <1>6 DEF MintFails
<1>7. ASSUME NEW r \in Requesters, Insert(r) PROVE MintedIsNewest'
  BY <1>7 DEF Insert
<1>8. ASSUME NEW r \in Requesters, CommitInsert(r) PROVE MintedIsNewest'
  BY <1>8 DEF CommitInsert, Commit
<1>9. ASSUME NEW r \in Requesters, Send(r) PROVE MintedIsNewest'
  BY <1>9 DEF Send
<1>10. ASSUME NEW r \in Requesters, Delete(r) PROVE MintedIsNewest'
  BY <1>10 DEF Delete
<1>11. ASSUME NEW r \in Requesters, CommitDelete(r) PROVE MintedIsNewest'
  BY <1>11 DEF CommitDelete, Commit
<1>12. ASSUME NEW r \in Requesters, Cancel(r) PROVE MintedIsNewest'
  BY <1>12 DEF Cancel, CarriedOut, Commit, Unwind
<1>13. ASSUME NEW t \in 1 .. issued, Expire(t) PROVE MintedIsNewest'
  BY <1>13 DEF Expire
<1>14. ASSUME NEW t \in 1 .. issued, Revoke(t) PROVE MintedIsNewest'
  BY <1>14 DEF Revoke
<1>15. CASE Restart
  BY <1>15 DEF Restart
<1>16. CASE UNCHANGED vars
  BY <1>16 DEF vars
<1>17. ASSUME NEW r \in Requesters, WriteFails(r) PROVE MintedIsNewest'
  BY <1>17 DEF WriteFails, Unwind
<1>18. CASE OtherSourceCommits
  BY <1>18 DEF OtherSourceCommits, Commit
<1>19. QED
  BY <1>1, <1>2, <1>3, <1>4, <1>5, <1>6, <1>7, <1>8, <1>9, <1>10, <1>11,
     <1>12, <1>13, <1>14, <1>15, <1>16, <1>17, <1>18 DEF Next, Step

\* A step neither brings a rejected token back nor lets a retry present it.
LEMMA RejectedStep ==
    ASSUME TypeOK, OneRetry, MintedIsNewest, RejectedIsGone, RetryUsesAnotherToken,
           [Next]_vars
    PROVE  RejectedIsGone' /\ RetryUsesAnotherToken'
<1> USE DEF TypeOK, OneRetry, MintedIsNewest, RejectedIsGone, RetryUsesAnotherToken, Usable, Goto,
            Finish, Row, NoRow, req, db, server
<1> DEFINE Goal == RejectedIsGone' /\ RetryUsesAnotherToken'
<1>1. ASSUME NEW r \in Requesters, Begin(r) PROVE Goal
  BY <1>1 DEF Begin
<1>2. ASSUME NEW r \in Requesters, FastPath(r) PROVE Goal
  <2>1. CASE Usable(row)
    <3>1. RejectedIsGone'
      BY <2>1, <1>2 DEF FastPath
    <3>2. RetryUsesAnotherToken'
      BY <2>1, <1>2 DEF FastPath
    <3>3. QED
      BY <3>1, <3>2
  <2>2. CASE ~Usable(row)
    BY <2>2, <1>2 DEF FastPath
  <2>3. QED
    BY <2>1, <2>2
<1>3. ASSUME NEW r \in Requesters, DoubleCheck(r) PROVE Goal
  <2>1. CASE Usable(row)
    <3>1. RejectedIsGone'
      BY <2>1, <1>3 DEF DoubleCheck
    <3>2. RetryUsesAnotherToken'
      BY <2>1, <1>3 DEF DoubleCheck
    <3>3. QED
      BY <3>1, <3>2
  <2>2. CASE ~Usable(row)
    BY <2>2, <1>3 DEF DoubleCheck
  <2>3. QED
    BY <2>1, <2>2
<1>4. ASSUME NEW r \in Requesters, ReadExpired(r) PROVE Goal
  BY <1>4 DEF ReadExpired
<1>5. ASSUME NEW r \in Requesters, Mint(r) PROVE Goal
  BY <1>5 DEF Mint
<1>6. ASSUME NEW r \in Requesters, MintFails(r) PROVE Goal
  BY <1>6 DEF MintFails
<1>7. ASSUME NEW r \in Requesters, Insert(r) PROVE Goal
  BY <1>7 DEF Insert
<1>8. ASSUME NEW r \in Requesters, CommitInsert(r) PROVE Goal
  BY <1>8 DEF CommitInsert, Commit
<1>9. ASSUME NEW r \in Requesters, Send(r) PROVE Goal
  <2>1. CASE pc'[r] = "delete"
    <3>1. RejectedIsGone'
      BY <2>1, <1>9 DEF Send
    <3>2. RetryUsesAnotherToken'
      BY <2>1, <1>9 DEF Send
    <3>3. QED
      BY <3>1, <3>2
  <2>2. CASE pc'[r] = "idle"
    <3>1. RejectedIsGone'
      BY <2>2, <1>9 DEF Send
    <3>2. RetryUsesAnotherToken'
      BY <2>2, <1>9 DEF Send
    <3>3. QED
      BY <3>1, <3>2
  <2>3. QED
    BY <2>1, <2>2, <1>9 DEF Send
<1>10. ASSUME NEW r \in Requesters, Delete(r) PROVE Goal
  BY <1>10 DEF Delete
<1>11. ASSUME NEW r \in Requesters, CommitDelete(r) PROVE Goal
  BY <1>11 DEF CommitDelete, Commit
<1>12. ASSUME NEW r \in Requesters, Cancel(r) PROVE Goal
  BY <1>12 DEF Cancel, CarriedOut, Commit, Unwind
<1>13. ASSUME NEW t \in 1 .. issued, Expire(t) PROVE Goal
  BY <1>13 DEF Expire
<1>14. ASSUME NEW t \in 1 .. issued, Revoke(t) PROVE Goal
  BY <1>14 DEF Revoke
<1>15. CASE Restart
  BY <1>15 DEF Restart
<1>16. CASE UNCHANGED vars
  BY <1>16 DEF vars
<1>17. ASSUME NEW r \in Requesters, WriteFails(r) PROVE Goal
  BY <1>17 DEF WriteFails, Unwind
<1>18. CASE OtherSourceCommits
  BY <1>18 DEF OtherSourceCommits, Commit
<1>19. QED
  BY <1>1, <1>2, <1>3, <1>4, <1>5, <1>6, <1>7, <1>8, <1>9, <1>10, <1>11,
     <1>12, <1>13, <1>14, <1>15, <1>16, <1>17, <1>18 DEF Next, Step

\* The strengthened invariant holds in every reachable state.
THEOREM Invariance == Spec => []TokenInv
<1>1. Init => TokenInv
  <2> SUFFICES ASSUME Init PROVE TokensExist /\ LockHeld /\ SingleFlight
                    /\ NothingUsableYet /\ MintedIsNewest /\ RejectedIsGone
                    /\ RetryUsesAnotherToken /\ TypeOK /\ OneRetry
    BY DEF TokenInv
  <2>1. TypeOK /\ OneRetry
    BY InitTypes
  <2>2. QED
    BY <2>1 DEF Init, TokensExist, LockHeld, SingleFlight, InCritical, NothingUsableYet,
                MintedIsNewest, RejectedIsGone, RetryUsesAnotherToken, NoRow
<1>2. TokenInv /\ [Next]_vars => TokenInv'
  <2> SUFFICES ASSUME TokenInv, [Next]_vars PROVE TokenInv'
    OBVIOUS
  <2> USE DEF TokenInv
  <2>1. TypeOK' /\ OneRetry'
    BY TypesStep
  <2>2. TokensExist' /\ LockHeld' /\ SingleFlight'
    BY TokensStep, CriticalStep
  <2>3. NothingUsableYet' /\ MintedIsNewest'
    BY UnusableStep, NewestStep
  <2>4. RejectedIsGone' /\ RetryUsesAnotherToken'
    BY RejectedStep
  <2>5. QED
    BY <2>1, <2>2, <2>3, <2>4
<1>3. QED
  BY <1>1, <1>2, PTL DEF Spec

\* Never two coroutines refreshing, logging in or caching at once.
THEOREM LoginsAreSingleFlight == Spec => []SingleFlight
<1>1. TokenInv => SingleFlight
  BY DEF TokenInv
<1>2. QED
  BY <1>1, Invariance, PTL

\* A retry never presents the token that was refused, so AUTH_FAILED is only
\* raised when the server refused two different tokens.
THEOREM RetriesUseAnotherToken == Spec => []RetryUsesAnotherToken
<1>1. TokenInv => RetryUsesAnotherToken
  BY DEF TokenInv
<1>2. QED
  BY <1>1, Invariance, PTL

-----------------------------------------------------------------------------
(* Durability and refinement.                                              *)

\* The row callers see is the committed one, except while a statement awaits its
\* COMMIT, and from a COMMIT that failed (the database is locked), or that a
\* cancelled caller never came to, to the next one of any source
\* (token_manager.py:81-82, 235-248; registry.py:280).
THEOREM Durability == Spec => []CachedRowIsDurable
<1>1. Init => CachedRowIsDurable
  BY DEF Init, CachedRowIsDurable
<1>2. TypeOK /\ CachedRowIsDurable /\ [Next]_vars => CachedRowIsDurable'
  <2> SUFFICES ASSUME TypeOK, CachedRowIsDurable, [Next]_vars PROVE CachedRowIsDurable'
    OBVIOUS
  <2> USE DEF TypeOK, CachedRowIsDurable, Goto, Finish, req, db
  <2>1. ASSUME NEW r \in Requesters, Begin(r) PROVE CachedRowIsDurable'
    BY <2>1 DEF Begin
  <2>2. ASSUME NEW r \in Requesters, FastPath(r) PROVE CachedRowIsDurable'
    BY <2>2 DEF FastPath
  <2>3. ASSUME NEW r \in Requesters, DoubleCheck(r) PROVE CachedRowIsDurable'
    BY <2>3 DEF DoubleCheck
  <2>4. ASSUME NEW r \in Requesters, ReadExpired(r) PROVE CachedRowIsDurable'
    BY <2>4 DEF ReadExpired
  <2>5. ASSUME NEW r \in Requesters, Mint(r) PROVE CachedRowIsDurable'
    BY <2>5 DEF Mint
  <2>6. ASSUME NEW r \in Requesters, MintFails(r) PROVE CachedRowIsDurable'
    BY <2>6 DEF MintFails
  <2>7. ASSUME NEW r \in Requesters, Insert(r) PROVE CachedRowIsDurable'
    BY <2>7 DEF Insert
  <2>8. ASSUME NEW r \in Requesters, CommitInsert(r) PROVE CachedRowIsDurable'
    BY <2>8 DEF CommitInsert, Commit
  <2>9. ASSUME NEW r \in Requesters, Send(r) PROVE CachedRowIsDurable'
    BY <2>9 DEF Send
  <2>10. ASSUME NEW r \in Requesters, Delete(r) PROVE CachedRowIsDurable'
    BY <2>10 DEF Delete
  <2>11. ASSUME NEW r \in Requesters, CommitDelete(r) PROVE CachedRowIsDurable'
    BY <2>11 DEF CommitDelete, Commit
  <2>12. ASSUME NEW r \in Requesters, Cancel(r) PROVE CachedRowIsDurable'
    <3>1. CASE CarriedOut(r)
      BY <3>1 DEF CarriedOut, Commit
    <3>2. CASE ~CarriedOut(r)
      <4>1. UNCHANGED <<row, disk>> /\ dangling' = (dangling \/ pc[r] \in {"commit", "commitDelete"})
        BY <3>2, <2>12 DEF Cancel
      <4>2. \A s \in Requesters : pc[s] \in {"commit", "commitDelete"} =>
               s = r \/ pc'[s] \in {"commit", "commitDelete"}
        BY <2>12 DEF Cancel
      <4>3. QED
        BY <4>1, <4>2
    <3>3. QED
      BY <3>1, <3>2
  <2>13. ASSUME NEW t \in 1 .. issued, Expire(t) PROVE CachedRowIsDurable'
    BY <2>13 DEF Expire
  <2>14. ASSUME NEW t \in 1 .. issued, Revoke(t) PROVE CachedRowIsDurable'
    BY <2>14 DEF Revoke
  <2>15. CASE Restart
    BY <2>15 DEF Restart
  <2>16. CASE UNCHANGED vars
    BY <2>16 DEF vars
  <2>17. ASSUME NEW r \in Requesters, WriteFails(r) PROVE CachedRowIsDurable'
    BY <2>17 DEF WriteFails, Unwind
  <2>18. CASE OtherSourceCommits
    BY <2>18 DEF OtherSourceCommits, Commit
  <2>19. QED
    BY <2>1, <2>2, <2>3, <2>4, <2>5, <2>6, <2>7, <2>8, <2>9, <2>10, <2>11,
       <2>12, <2>13, <2>14, <2>15, <2>16, <2>17, <2>18 DEF Next, Step
<1>3. QED
  BY <1>1, <1>2, TypeCorrect, PTL DEF Spec

\* The token layer is a single-flight credential cell: the detailed protocol
\* of locks, double-checks and statements implements CredentialCell.
THEOREM Refinement == Spec => ImplementsCell
<1>1. Init => Cell!CellInit
  BY DEF Init, Cell!CellInit, Usable, NoRow
<1>2. TokenInv /\ [Next]_vars => [Cell!CellNext]_(Cell!cellVars)
  <2> SUFFICES ASSUME TokenInv, [Next]_vars PROVE [Cell!CellNext]_(Cell!cellVars)
    OBVIOUS
  <2> USE DEF TokenInv, TypeOK, TokensExist, NothingUsableYet, MintedIsNewest, InCritical,
              Usable, Row, NoRow, req, db, server, bounds, Cell!CellNext, Cell!cellVars,
              Cell!Mint, Cell!Install, Cell!Drop, Cell!Reload
  <2> DEFINE Goal == [Cell!CellNext]_(Cell!cellVars)
  <2>1. ASSUME NEW r \in Requesters, Begin(r) PROVE Goal
    BY <2>1 DEF Begin
  <2>2. ASSUME NEW r \in Requesters, FastPath(r) PROVE Goal
    BY <2>2 DEF FastPath
  <2>3. ASSUME NEW r \in Requesters, DoubleCheck(r) PROVE Goal
    BY <2>3 DEF DoubleCheck
  <2>4. ASSUME NEW r \in Requesters, ReadExpired(r) PROVE Goal
    BY <2>4 DEF ReadExpired
  <2>5. ASSUME NEW r \in Requesters, Mint(r) PROVE Goal
    BY <2>5 DEF Mint
  <2>6. ASSUME NEW r \in Requesters, MintFails(r) PROVE Goal
    BY <2>6 DEF MintFails
  <2>7. ASSUME NEW r \in Requesters, Insert(r) PROVE Goal
    BY <2>7 DEF Insert
  <2>8. ASSUME NEW r \in Requesters, CommitInsert(r) PROVE Goal
    BY <2>8 DEF CommitInsert, Commit
  <2>9. ASSUME NEW r \in Requesters, Send(r) PROVE Goal
    BY <2>9 DEF Send
  <2>10. ASSUME NEW r \in Requesters, Delete(r) PROVE Goal
    BY <2>10 DEF Delete
  <2>11. ASSUME NEW r \in Requesters, CommitDelete(r) PROVE Goal
    BY <2>11 DEF CommitDelete, Commit
  <2>12. ASSUME NEW r \in Requesters, Cancel(r) PROVE Goal
    BY <2>12 DEF Cancel, CarriedOut, Commit, Unwind
  <2>13. ASSUME NEW t \in 1 .. issued, Expire(t) PROVE Goal
    BY <2>13 DEF Expire
  <2>14. ASSUME NEW t \in 1 .. issued, Revoke(t) PROVE Goal
    BY <2>14 DEF Revoke
  <2>15. CASE Restart
    BY <2>15 DEF Restart
  <2>16. CASE UNCHANGED vars
    BY <2>16 DEF vars
  <2>17. ASSUME NEW r \in Requesters, WriteFails(r) PROVE Goal
    BY <2>17 DEF WriteFails, Unwind
  <2>18. CASE OtherSourceCommits
    BY <2>18 DEF OtherSourceCommits, Commit
  <2>19. QED
    BY <2>1, <2>2, <2>3, <2>4, <2>5, <2>6, <2>7, <2>8, <2>9, <2>10, <2>11,
       <2>12, <2>13, <2>14, <2>15, <2>16, <2>17, <2>18 DEF Next, Step
<1>3. QED
  BY <1>1, <1>2, Invariance, PTL DEF Spec, ImplementsCell, Cell!CellSpec
=============================================================================
