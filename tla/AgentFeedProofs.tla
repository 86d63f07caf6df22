--------------------------- MODULE AgentFeedProofs ---------------------------
(***************************************************************************)
(* Proofs about AgentFeed, for any number of calls, sockets, scenarios and *)
(* restarts, and whatever goes wrong.                                      *)
(***************************************************************************)
EXTENDS AgentFeed, FiniteSetTheorems, SequenceTheorems, TLAPS

-----------------------------------------------------------------------------
(* The inductive invariant.                                                *)

Recording == Steps \ {"idle", "execute", "insert"}
Recorded  == Recording \ {"commitInsert"}

\* Calls that have been counted as queries and have no row yet.
Rowless == {c \in Calls : pc[c] \in {"execute", "insert"}}

Typed ==
    /\ todo \in [Calls -> Seq(Viewers)] /\ inbox \in [Viewers -> Seq(Event)]
    /\ queries \in 0 .. MaxQueries /\ executed \in Nat /\ crashes \in Nat

Counted ==
    /\ Len(rows) + Cardinality(Rowless) <= queries

\* Every call in the trace has a row of its own, and knows which.
Owned ==
    /\ \A c \in Calls : IF pc[c] \in Recording THEN execution[c] \in DOMAIN rows
                                               ELSE execution[c] = 0
    /\ \A c, d \in Calls : c # d /\ pc[c] \in Recording => execution[c] # execution[d]

\* What is on disk is a part of what the connection sees, and a call that has
\* committed finds its row there.
Committed ==
    /\ Len(disk) <= Len(rows)
    /\ \A e \in DOMAIN disk : disk[e].finished => rows[e].finished
    /\ \A c \in Calls : pc[c] \in Recorded => execution[c] \in DOMAIN disk
    /\ \A c \in Calls : pc[c] = "commitUpdate" => rows[execution[c]].finished
    /\ \A c \in Calls : pc[c] = "tellFinished" => disk[execution[c]].finished

\* Nobody has heard of what has still to be told.
Untold ==
    \A c \in Calls, v \in Viewers :
        /\ pc[c] = "commitInsert" => Started(execution[c]) \notin ToSet(inbox[v])
        /\ pc[c] \in Recording \ {"tellFinished"} =>
              Finished(execution[c]) \notin ToSet(inbox[v])
        /\ v \in ToSet(todo[c]) => News(c) \notin ToSet(inbox[v])

Inv == TypeOK /\ Typed /\ Counted /\ Owned /\ Committed /\ SeenIsStored /\ Untold /\ FeedOrder

\* What a socket has been sent by a call that has its row.
HeardFrom(c, v) ==
    /\ pc[c] \in Recorded =>
          Started(execution[c]) \in ToSet(inbox[v]) \/ (pc[c] = "tellStarted" /\ v \in ToSet(todo[c]))
    /\ pc[c] = "tellFinished" =>
          Finished(execution[c]) \in ToSet(inbox[v]) \/ v \in ToSet(todo[c])

\* Without failing writes and callers that give up: what a socket that is still
\* there has been sent of an execution that started after it joined.
Heard(v, e) ==
    /\ (\A c \in Calls : execution[c] # e) /\ rows[e].finished =>
          {Started(e), Finished(e)} \subseteq ToSet(inbox[v])
    /\ \A c \in Calls : execution[c] = e => HeardFrom(c, v)

Connected(v) == link[v] \in {"live", "stalled"}

Delivered ==
    \A v \in Viewers : Connected(v) =>
        /\ v \in registered
        /\ \A e \in DOMAIN rows : joined[v] < e => Heard(v, e)

\* Without failures and restarts: the calls that have run their query and have no
\* row yet are what the trace is behind by, and unfinished rows are theirs
\* who are about to finish them.
Answered == {c \in Calls : pc[c] = "insert"}

Finishing(c) == pc[c] \in {"commitInsert", "tellStarted", "update"}

Balanced ==
    crashes = 0 =>
        /\ executed = Len(rows) + Cardinality(Answered)
        /\ \A e \in DOMAIN rows : rows[e].finished \/
              \E c \in Calls : execution[c] = e /\ Finishing(c)

-----------------------------------------------------------------------------
(* Sequences and sets.                                                     *)

\* The order a broadcast takes goes through the whole set, once.
LEMMA OrderOfSet ==
    ASSUME NEW S \in SUBSET Viewers, NEW order \in SetToSeqs(S)
    PROVE  order \in Seq(Viewers) /\ ToSet(order) = S /\ IsInjective(order)
<1> DEFINE n == Cardinality(S)  D == 1 .. n
<1>1. IsFiniteSet(S) /\ n \in Nat
  BY FeedAssumption, FS_Subset, FS_CardinalityType
<1>2. order \in [D -> S] /\ \A a, b \in D : a # b => order[a] # order[b]
  BY DEF SetToSeqs
<1>3. order \in Injection(D, S)
  BY <1>2 DEF Injection, IsInjective
<1>4. IsFiniteSet(D) /\ Cardinality(D) = n
  BY <1>1, FS_Interval
<1>5. order \in Surjection(D, S)
  BY <1>1, <1>3, <1>4, FS_Injection
<1>6. ToSet(order) = S
  BY <1>2, <1>5 DEF Surjection, ToSet
<1>7. order \in Seq(Viewers)
  BY <1>1, <1>2, SeqDef
<1>8. QED
  BY <1>2, <1>6, <1>7 DEF IsInjective

\* One element less, one element more.
LEMMA TailOfOrder ==
    ASSUME NEW s \in Seq(Viewers), s # <<>>, IsInjective(s)
    PROVE  /\ Head(s) \in ToSet(s) /\ Tail(s) \in Seq(Viewers) /\ IsInjective(Tail(s))
           /\ ToSet(Tail(s)) = ToSet(s) \ {Head(s)}
<1>1. /\ Len(s) \in Nat \ {0} /\ DOMAIN s = 1 .. Len(s) /\ Head(s) = s[1]
      /\ Tail(s) \in Seq(Viewers) /\ Len(Tail(s)) = Len(s) - 1
      /\ DOMAIN Tail(s) = 1 .. Len(s) - 1
      /\ \A a \in 1 .. Len(s) - 1 : Tail(s)[a] = s[a + 1]
  BY HeadTailProperties, LenProperties, EmptySeq
<1> DEFINE t == Tail(s)  n == Len(s)
<1>2. /\ n \in Nat \ {0} /\ DOMAIN s = 1 .. n /\ DOMAIN t = 1 .. n - 1
      /\ \A a \in 1 .. n - 1 : t[a] = s[a + 1]
  BY <1>1
<1> HIDE DEF t, n
<1>3. IsInjective(t)
  <2>1. SUFFICES ASSUME NEW a \in 1 .. n - 1, NEW b \in 1 .. n - 1, t[a] = t[b] PROVE a = b
    BY <1>2 DEF IsInjective
  <2>2. s[a + 1] = s[b + 1] /\ a + 1 \in DOMAIN s /\ b + 1 \in DOMAIN s
    BY <1>2, <2>1
  <2>3. a + 1 = b + 1
    BY <2>2 DEF IsInjective
  <2>4. QED
    BY <2>3
<1>4. \A a \in 1 .. n : a = 1 \/ (a - 1 \in 1 .. n - 1 /\ s[a] = t[a - 1])
  BY <1>2
<1>5. \A a \in 1 .. n - 1 : t[a] # s[1] /\ t[a] \in ToSet(s)
  <2>1. \A a, b \in 1 .. n : s[a] = s[b] => a = b
    BY <1>2 DEF IsInjective
  <2>2. \A a \in 1 .. n : s[a] \in ToSet(s)
    BY <1>2 DEF ToSet
  <2>3. \A a \in 1 .. n - 1 : a + 1 \in 1 .. n /\ 1 \in 1 .. n /\ a + 1 # 1
    BY <1>2
  <2>4. QED
    BY <1>2, <2>1, <2>2, <2>3
<1>6. \A a \in 1 .. n : s[a] = s[1] \/ s[a] \in ToSet(t)
  BY <1>2, <1>4 DEF ToSet
<1>7. ToSet(t) = {t[a] : a \in 1 .. n - 1} /\ ToSet(s) = {s[a] : a \in 1 .. n}
  BY <1>2 DEF ToSet
<1>8. ToSet(t) = ToSet(s) \ {s[1]} /\ s[1] \in ToSet(s)
  BY <1>2, <1>5, <1>6, <1>7
<1>9. Tail(s) \in Seq(Viewers) /\ Head(s) = s[1]
  BY <1>1
<1>10. QED
  BY <1>3, <1>8, <1>9 DEF t

LEMMA AppendFacts ==
    ASSUME NEW S, NEW s \in Seq(S), NEW x \in S
    PROVE  /\ Append(s, x) \in Seq(S) /\ Len(Append(s, x)) = Len(s) + 1 /\ Len(s) \in Nat
           /\ DOMAIN s = 1 .. Len(s) /\ DOMAIN Append(s, x) = 1 .. Len(s) + 1
           /\ \A a \in 1 .. Len(s) : Append(s, x)[a] = s[a]
           /\ Append(s, x)[Len(s) + 1] = x
           /\ ToSet(Append(s, x)) = ToSet(s) \cup {x}
           /\ (IsInjective(s) /\ x \notin ToSet(s)) => IsInjective(Append(s, x))
<1> DEFINE t == Append(s, x)  n == Len(s)
<1>1. /\ t \in Seq(S) /\ Len(t) = n + 1 /\ n \in Nat /\ DOMAIN s = 1 .. n
      /\ DOMAIN t = 1 .. n + 1 /\ \A a \in 1 .. n : t[a] = s[a] /\ t[n + 1] = x
  BY AppendProperties, LenProperties
<1>2. t[n + 1] = x
  BY AppendProperties
<1> HIDE DEF t, n
<1>3. ToSet(t) = ToSet(s) \cup {x}
  BY <1>1, <1>2 DEF ToSet
<1>4. ASSUME IsInjective(s), x \notin ToSet(s)
      PROVE  \A a, b \in DOMAIN t : t[a] = t[b] => a = b
  <2>1. \A a, b \in 1 .. n : s[a] = s[b] => a = b
    BY <1>1, <1>4 DEF IsInjective
  <2>2. \A a \in 1 .. n : s[a] # x
    BY <1>1, <1>4 DEF ToSet
  <2>3. \A a \in 1 .. n + 1 : a \in 1 .. n \/ a = n + 1
    BY <1>1
  <2>4. QED
    BY <1>1, <1>2, <2>1, <2>2, <2>3
<1>5. (IsInjective(s) /\ x \notin ToSet(s)) => IsInjective(t)
  BY <1>4 DEF IsInjective
<1>6. QED
  BY <1>1, <1>2, <1>3, <1>5 DEF t, n

LEMMA NoElements == ToSet(<<>>) = {} /\ IsInjective(<<>>) /\ \A S : <<>> \in Seq(S)
  BY EmptySeq DEF ToSet, IsInjective

-----------------------------------------------------------------------------
(* Rows.                                                                   *)

LEMMA RowFacts ==
    ASSUME TypeOK
    PROVE  /\ rows \in Seq(Row) /\ Len(rows) \in Nat /\ DOMAIN rows = 1 .. Len(rows)
           /\ disk \in Seq(Row) /\ Len(disk) \in Nat /\ DOMAIN disk = 1 .. Len(disk)
           /\ \A e \in DOMAIN rows : rows[e] \in Row /\ rows[e].finished \in BOOLEAN
           /\ \A e \in DOMAIN disk : disk[e] \in Row /\ disk[e].finished \in BOOLEAN
<1>1. rows \in Seq(Row) /\ disk \in Seq(Row)
  BY DEF TypeOK
<1>2. /\ \A e \in 1 .. Len(rows) : rows[e] \in Row
      /\ \A e \in 1 .. Len(disk) : disk[e] \in Row
  BY <1>1, ElementOfSeq
<1>3. \A r \in Row : r.finished \in BOOLEAN
  BY DEF Row
<1>4. QED
  BY <1>1, <1>2, <1>3, LenProperties

\* A new row, and a row that is finished.
LEMMA InsertedRow ==
    ASSUME TypeOK, NEW c \in Calls, Insert(c)
    PROVE  /\ rows' \in Seq(Row) /\ Len(rows') = Len(rows) + 1
           /\ DOMAIN rows' = 1 .. Len(rows) + 1
           /\ \A e \in 1 .. Len(rows) : rows'[e] = rows[e]
           /\ rows'[Len(rows) + 1].finished = FALSE
<1> DEFINE r == [scenario |-> scenario[c], finished |-> FALSE]
<1>1. r \in Row /\ r.finished = FALSE
  BY DEF TypeOK, Row
<1>2. rows' = Append(rows, r)
  BY DEF Insert
<1> HIDE DEF r
<1>3. QED
  BY <1>1, <1>2, RowFacts, AppendFacts

LEMMA UpdatedRow ==
    ASSUME TypeOK, NEW c \in Calls, Update(c), execution[c] \in DOMAIN rows
    PROVE  /\ rows' \in Seq(Row) /\ Len(rows') = Len(rows) /\ DOMAIN rows' = DOMAIN rows
           /\ rows'[execution[c]].finished
           /\ \A e \in DOMAIN rows : e # execution[c] => rows'[e] = rows[e]
<1> DEFINE e == execution[c]
<1>1. rows' = [rows EXCEPT ![e] = [rows[e] EXCEPT !.finished = TRUE]]
  BY DEF Update
<1>2. rows[e] \in Row /\ [rows[e] EXCEPT !.finished = TRUE] \in Row
      /\ [rows[e] EXCEPT !.finished = TRUE].finished = TRUE
  BY RowFacts DEF Row
<1>3. rows' \in Seq(Row) /\ Len(rows') = Len(rows) /\ DOMAIN rows' = DOMAIN rows
  BY <1>1, <1>2, RowFacts, ExceptSeq
<1>4. QED
  BY <1>1, <1>2, <1>3

-----------------------------------------------------------------------------
(* The kinds of steps, as the trace and the inboxes see them.              *)

\* A call goes on, without touching the trace.
Moves(c) ==
    /\ \/ /\ pc[c] = "idle" /\ Goto(c, "execute")
          /\ queries < MaxQueries /\ queries' = queries + 1 /\ UNCHANGED executed
       \/ /\ pc[c] = "execute" /\ Goto(c, "insert")
          /\ executed' = executed + 1 /\ UNCHANGED queries
       \/ /\ pc[c] = "tellStarted" /\ todo[c] = <<>> /\ Goto(c, "update")
          /\ UNCHANGED <<queries, executed>>
    /\ UNCHANGED <<execution, todo, rows, disk, inbox, crashes>>

\* A call ends; before its time only if something goes wrong.
Leaves(c) ==
    /\ pc[c] # "idle" /\ Leave(c)
    /\ todo' = [todo EXCEPT ![c] = <<>>]
    /\ \/ pc[c] = "tellFinished" /\ todo[c] = <<>> /\ UNCHANGED executed
       \/ "query" \in Faults /\ pc[c] = "execute"
       \/ "write" \in Faults \/ "cancel" \in Faults
    /\ UNCHANGED <<rows, disk, inbox, queries, crashes>>

\* Sockets, the heartbeat, and the statements of scenarios, which commit.
Apart ==
    /\ disk' \in {disk, rows}
    /\ UNCHANGED <<pc, execution, todo, rows, inbox, queries, executed, crashes>>

LEMMA Kinds ==
    ASSUME TypeOK, Typed, [Next]_vars
    PROVE  \/ Apart \/ Crash
           \/ \E c \in Calls : \/ Moves(c) \/ Leaves(c) \/ Insert(c) \/ CommitInsert(c)
                               \/ Update(c) \/ CommitUpdate(c) \/ Tell(c)
<1>1. CASE \E c \in Calls : Record(c) \/ Tell(c)
  BY <1>1 DEF Record
<1>2. ASSUME NEW c \in Calls, Execute(c) \/ WriteFails(c) \/ Cancel(c) \/ EndTell(c)
      PROVE  Moves(c) \/ Leaves(c)
  <2>1. ~Telling(c) => todo[c] = <<>>
    BY DEF TypeOK
  <2>2. todo[c] = <<>> => todo = [todo EXCEPT ![c] = <<>>]
    BY DEF Typed
  <2>3. CASE Execute(c)
    <3>1. todo = [todo EXCEPT ![c] = <<>>] /\ pc[c] = "execute"
      BY <2>1, <2>2, <2>3 DEF Execute, Telling
    <3>2. QED
      BY <2>3, <3>1 DEF Execute, Moves, Leaves, store, sockets, bounds
  <2>4. CASE WriteFails(c)
    <3>1. todo = [todo EXCEPT ![c] = <<>>] /\ pc[c] # "idle"
      BY <2>1, <2>2, <2>4 DEF WriteFails, Telling
    <3>2. QED
      BY <2>4, <3>1 DEF WriteFails, Leaves, store, sockets, bounds
  <2>5. CASE Cancel(c)
    BY <2>5 DEF Cancel, Leaves, store, sockets, bounds
  <2>6. CASE EndTell(c)
    <3>1. todo = [todo EXCEPT ![c] = <<>>] /\ pc[c] # "idle"
      BY <2>2, <2>6 DEF EndTell, Telling
    <3>2. QED
      BY <2>6, <3>1 DEF EndTell, Moves, Leaves, store, sockets, bounds
  <2>7. QED
    BY <1>2, <2>3, <2>4, <2>5, <2>6
<1>3. CASE \E c \in Calls, s \in Scenarios \cup {None} : Begin(c, s)
  BY <1>3 DEF Begin, Moves, store, sockets
<1>4. CASE \E v \in Viewers : \/ Connect(v) \/ Notice(v) \/ Break(v) \/ Stall(v) \/ Resume(v)
  BY <1>4 DEF Connect, Notice, Break, Stall, Resume, Apart, call, store, bounds
<1>5. CASE Heartbeat
  BY <1>5 DEF Heartbeat, Wake, Ping, Rest, Apart, call, store, sockets, bounds
<1>6. CASE \E s \in Scenarios : StartScenario(s) \/ EndScenario(s)
  BY <1>6 DEF StartScenario, EndScenario, Apart, call, sockets, bounds
<1>7. CASE UNCHANGED vars
  BY <1>7 DEF vars, Apart, call, store, sockets, bounds
<1>8. QED
  BY <1>1, <1>2, <1>3, <1>4, <1>5, <1>6, <1>7 DEF Next, Step

-----------------------------------------------------------------------------
(* Calls and their rows.                                                   *)

LEMMA RowlessFacts ==
    ASSUME TypeOK, Typed, Counted
    PROVE  /\ IsFiniteSet(Rowless) /\ Cardinality(Rowless) \in Nat
           /\ Len(rows) \in Nat /\ queries \in Nat /\ Len(rows) <= queries
           /\ queries <= MaxQueries /\ MaxQueries \in Nat
           /\ \A c \in Rowless : Len(rows) + 1 <= queries
<1>1. IsFiniteSet(Rowless) /\ Cardinality(Rowless) \in Nat
  BY FeedAssumption, FS_Subset, FS_CardinalityType DEF Rowless
<1>2. \A c \in Rowless : Cardinality(Rowless) # 0
  BY <1>1, FS_EmptySet
<1> DEFINE m == Cardinality(Rowless)  n == Len(rows)
<1>3. m \in Nat /\ n \in Nat /\ n + m <= queries /\ queries \in 0 .. MaxQueries /\ MaxQueries \in Nat
  BY <1>1, RowFacts, FeedAssumption DEF Counted, Typed
<1> HIDE DEF m, n
<1>4. n <= queries /\ (m # 0 => n + 1 <= queries)
  BY <1>3
<1>5. QED
  BY <1>1, <1>2, <1>3, <1>4 DEF m, n

LEMMA CountedStep ==
    ASSUME Inv, [Next]_vars
    PROVE  Counted'
<1> USE DEF Inv
<1> DEFINE R == Rowless  n == Len(rows)
<1>1. /\ IsFiniteSet(R) /\ Cardinality(R) \in Nat /\ n \in Nat /\ queries \in Nat
      /\ n + Cardinality(R) <= queries
  BY RowlessFacts DEF Counted
<1>2. pc \in [Calls -> Steps]
  BY DEF TypeOK
<1>3. ASSUME NEW c \in Calls, Moves(c)
      PROVE  Counted'
  <2>1. UNCHANGED rows
    BY <1>3 DEF Moves
  <2>2. CASE pc[c] = "idle"
    <3>1. Rowless' = R \cup {c} /\ c \notin R /\ queries' = queries + 1
      BY <1>2, <1>3, <2>2 DEF Moves, Goto, Rowless
    <3>2. Cardinality(R \cup {c}) = Cardinality(R) + 1
      BY <1>1, <3>1, FS_AddElement
    <3>3. QED
      BY <1>1, <2>1, <3>1, <3>2 DEF Counted
  <2>3. CASE pc[c] # "idle"
    <3>1. Rowless' = R /\ queries' = queries
      BY <1>2, <1>3, <2>3 DEF Moves, Goto, Rowless
    <3>2. QED
      BY <1>1, <2>1, <3>1 DEF Counted
  <2>4. QED
    BY <2>2, <2>3
<1>4. ASSUME NEW c \in Calls, Leaves(c)
      PROVE  Counted'
  <2>1. Rowless' = R \ {c} /\ UNCHANGED <<rows, queries>>
    BY <1>2, <1>4 DEF Leaves, Leave, Goto, Rowless
  <2>2. Cardinality(R \ {c}) \in Nat /\ Cardinality(R \ {c}) <= Cardinality(R)
    BY <1>1, FS_RemoveElement, FS_CardinalityType
  <2>3. QED
    BY <1>1, <2>1, <2>2 DEF Counted
<1>5. ASSUME NEW c \in Calls, Insert(c)
      PROVE  Counted'
  <2>1. Rowless' = R \ {c} /\ c \in R /\ queries' = queries
    BY <1>2, <1>5 DEF Insert, Goto, Rowless, bounds
  <2>2. Cardinality(R \ {c}) = Cardinality(R) - 1
    BY <1>1, <2>1, FS_RemoveElement
  <2>3. Len(rows') = n + 1
    BY <1>5, InsertedRow
  <2>4. QED
    BY <1>1, <2>1, <2>2, <2>3 DEF Counted
<1>6. ASSUME NEW c \in Calls, CommitInsert(c) \/ Update(c) \/ CommitUpdate(c) \/ Tell(c)
      PROVE  Counted'
  <2>1. Rowless' = R /\ queries' = queries
    BY <1>2, <1>6 DEF CommitInsert, Update, CommitUpdate, Tell, Goto, Rowless, bounds
  <2>2. Len(rows') = n
    <3>1. Update(c) => execution[c] \in DOMAIN rows
      BY DEF Owned, Update, Recording, Steps
    <3>2. QED
      BY <1>6, <3>1, UpdatedRow DEF CommitInsert, CommitUpdate, Tell, store
  <2>3. QED
    BY <1>1, <2>1, <2>2 DEF Counted
<1>7. CASE Crash
  <2>1. Rowless' = {} /\ rows' = disk /\ queries' = queries
    BY <1>7 DEF Crash, Rowless
  <2>2. Len(disk) <= n /\ Len(disk) \in Nat /\ Cardinality({}) = 0
    BY RowFacts, FS_EmptySet DEF Committed
  <2>3. QED
    BY <1>1, <2>1, <2>2 DEF Counted
<1>8. CASE Apart
  <2>1. Rowless' = R /\ UNCHANGED <<rows, queries>>
    BY <1>8 DEF Apart, Rowless
  <2>2. QED
    BY <1>1, <2>1 DEF Counted
<1>9. QED
  BY <1>3, <1>4, <1>5, <1>6, <1>7, <1>8, Kinds

LEMMA OwnedStep ==
    ASSUME Inv, [Next]_vars
    PROVE  Owned'
<1> USE DEF Inv
<1>1. pc \in [Calls -> Steps] /\ execution \in [Calls -> Nat]
  BY FeedAssumption DEF TypeOK
<1>2. CASE \E c \in Calls : Moves(c)
  BY <1>1, <1>2 DEF Moves, Goto, Owned, Recording, Steps
<1>3. ASSUME NEW c \in Calls, Leaves(c)
      PROVE  Owned'
  <2>1. 0 \notin DOMAIN rows
    BY RowFacts
  <2>2. /\ pc' = [pc EXCEPT ![c] = "idle"] /\ execution' = [execution EXCEPT ![c] = 0]
        /\ rows' = rows
    BY <1>3 DEF Leaves, Leave, Goto
  <2>3. QED
    BY <1>1, <2>1, <2>2 DEF Owned, Recording
<1>4. ASSUME NEW c \in Calls, Insert(c)
      PROVE  Owned'
  <2> DEFINE n == Len(rows)
  <2>1. n \in Nat /\ DOMAIN rows = 1 .. n /\ DOMAIN rows' = 1 .. n + 1
    BY <1>4, InsertedRow, RowFacts
  <2>2. /\ pc' = [pc EXCEPT ![c] = "commitInsert"] /\ pc[c] = "insert"
        /\ execution' = [execution EXCEPT ![c] = n + 1]
    BY <1>4 DEF Insert, Goto
  <2> HIDE DEF n
  <2>3. \A d \in Calls : pc[d] \in Recording => execution[d] \in 1 .. n
    BY <2>1 DEF Owned
  <2>4. QED
    BY <1>1, <2>1, <2>2, <2>3 DEF Owned, Recording, Steps
<1>5. ASSUME NEW c \in Calls, CommitInsert(c) \/ Update(c) \/ CommitUpdate(c) \/ Tell(c)
      PROVE  Owned'
  <2>1. Update(c) => execution[c] \in DOMAIN rows
    BY DEF Owned, Update, Recording, Steps
  <2>2. DOMAIN rows' = DOMAIN rows
    BY <1>5, <2>1, UpdatedRow DEF CommitInsert, CommitUpdate, Tell, store
  <2>3. /\ execution' = execution /\ pc[c] \in Recording
        /\ pc' = pc \/ (\E s \in Recording : pc' = [pc EXCEPT ![c] = s])
    BY <1>1, <1>5
    DEF CommitInsert, Update, CommitUpdate, Tell, Telling, Goto, Recording, Steps
  <2>4. QED
    BY <1>1, <2>2, <2>3 DEF Owned
<1>6. CASE Crash
  BY <1>6 DEF Crash, Owned, Recording
<1>7. CASE Apart
  BY <1>7 DEF Apart, Owned
<1>8. QED
  BY <1>2, <1>3, <1>4, <1>5, <1>6, <1>7, Kinds

LEMMA CommittedStep ==
    ASSUME Inv, [Next]_vars
    PROVE  Committed'
<1> USE DEF Inv
<1>1. /\ pc \in [Calls -> Steps] /\ execution \in [Calls -> Nat]
      /\ Len(rows) \in Nat /\ Len(disk) \in Nat /\ Len(disk) <= Len(rows)
      /\ DOMAIN rows = 1 .. Len(rows) /\ DOMAIN disk = 1 .. Len(disk)
  BY FeedAssumption, RowFacts DEF TypeOK, Committed
<1>2. ASSUME NEW c \in Calls, Moves(c)
      PROVE  Committed'
  <2>1. UNCHANGED <<execution, rows, disk>>
    BY <1>2 DEF Moves
  <2>2. pc[c] = "tellStarted" \/ pc'[c] \notin Recording
    BY <1>1, <1>2 DEF Moves, Goto, Recording, Steps
  <2>3. \A d \in Calls : d # c => pc'[d] = pc[d]
    BY <1>1, <1>2 DEF Moves, Goto
  <2>4. pc'[c] \in {"execute", "insert", "update"}
    BY <1>1, <1>2 DEF Moves, Goto
  <2>5. QED
    BY <2>1, <2>2, <2>3, <2>4 DEF Committed, Recorded, Recording, Steps
<1>3. ASSUME NEW c \in Calls, Leaves(c)
      PROVE  Committed'
  <2>1. /\ pc' = [pc EXCEPT ![c] = "idle"] /\ execution' = [execution EXCEPT ![c] = 0]
        /\ UNCHANGED <<rows, disk>>
    BY <1>3 DEF Leaves, Leave, Goto
  <2>2. QED
    BY <1>1, <2>1 DEF Committed, Recorded, Recording
<1>4. ASSUME NEW c \in Calls, Insert(c)
      PROVE  Committed'
  <2> DEFINE n == Len(rows)  m == Len(disk)
  <2>1. /\ n \in Nat /\ DOMAIN rows = 1 .. n /\ DOMAIN rows' = 1 .. n + 1 /\ Len(rows') = n + 1
        /\ \A e \in 1 .. n : rows'[e] = rows[e]
    BY <1>1, <1>4, InsertedRow
  <2>2. /\ pc' = [pc EXCEPT ![c] = "commitInsert"]
        /\ execution' = [execution EXCEPT ![c] = n + 1] /\ disk' = disk
    BY <1>4 DEF Insert, Goto
  <2>3. m \in Nat /\ DOMAIN disk = 1 .. m /\ m <= n
    BY <1>1
  <2>4. Len(disk') = m /\ Len(rows') = n + 1
    BY <2>1, <2>2
  <2> HIDE DEF n, m
  <2>5. \A e \in 1 .. m : e \in 1 .. n
    BY <2>1, <2>3
  <2>6. \A d \in Calls : pc[d] \in Recording => execution[d] \in 1 .. n
    BY <2>1 DEF Owned
  <2>7. \A e \in DOMAIN disk' : disk'[e].finished => rows'[e].finished
    BY <2>1, <2>2, <2>3, <2>5 DEF Committed
  <2>8. \A d \in Calls : pc'[d] # "commitInsert" => pc'[d] = pc[d] /\ execution'[d] = execution[d]
    BY <1>1, <2>2
  <2>9. Len(disk') <= Len(rows')
    BY <2>1, <2>3, <2>4
  <2>10. \A d \in Calls : pc'[d] = "commitUpdate" => rows'[execution'[d]].finished
    BY <2>1, <2>6, <2>8 DEF Committed, Recording, Steps
  <2>11. QED
    BY <2>2, <2>7, <2>8, <2>9, <2>10 DEF Committed, Recorded
<1>5. ASSUME NEW c \in Calls, CommitInsert(c) \/ CommitUpdate(c)
      PROVE  Committed'
  <2>1. disk' = rows /\ rows' = rows /\ execution' = execution
    BY <1>5 DEF CommitInsert, CommitUpdate
  <2>2. \/ pc[c] = "commitInsert" /\ pc' = [pc EXCEPT ![c] = "tellStarted"]
        \/ pc[c] = "commitUpdate" /\ pc' = [pc EXCEPT ![c] = "tellFinished"]
    BY <1>5 DEF CommitInsert, CommitUpdate, Goto
  <2>3. \A d \in Calls : pc'[d] \in Recorded => execution[d] \in DOMAIN rows
    BY <1>1, <2>2 DEF Owned, Recorded, Recording, Steps
  <2>4. \A d \in Calls : pc'[d] = "commitUpdate" => rows[execution[d]].finished
    BY <1>1, <2>2 DEF Committed
  <2>5. \A d \in Calls : pc[d] = "tellFinished" => rows[execution[d]].finished
    BY DEF Committed, Recorded, Recording, Steps
  <2>6. \A d \in Calls : pc'[d] = "tellFinished" => rows[execution[d]].finished
    BY <1>1, <2>2, <2>5 DEF Committed
  <2>7. QED
    BY <1>1, <2>1, <2>3, <2>4, <2>6 DEF Committed
<1>6. ASSUME NEW c \in Calls, Update(c)
      PROVE  Committed'
  <2>1. pc[c] = "update" /\ pc' = [pc EXCEPT ![c] = "commitUpdate"]
        /\ execution' = execution /\ disk' = disk
    BY <1>6 DEF Update, Goto
  <2>2. execution[c] \in DOMAIN rows
    BY <2>1 DEF Owned, Recording, Steps
  <2>3. /\ Len(rows') = Len(rows) /\ DOMAIN rows' = DOMAIN rows /\ rows'[execution[c]].finished
        /\ \A e \in DOMAIN rows : e # execution[c] => rows'[e] = rows[e]
    BY <1>6, <2>2, UpdatedRow
  <2>4. DOMAIN disk \subseteq DOMAIN rows
    BY <1>1
  <2>5. \A e \in DOMAIN disk' : disk'[e].finished => rows'[e].finished
    BY <2>1, <2>3, <2>4 DEF Committed
  <2>6. \A d \in Calls : pc'[d] = "commitUpdate" => rows'[execution'[d]].finished
    BY <1>1, <2>1, <2>3 DEF Committed, Owned, Recording, Steps
  <2>7. \A d \in Calls : pc'[d] \in Recorded => execution'[d] \in DOMAIN disk'
    BY <1>1, <2>1 DEF Committed, Recorded, Recording, Steps
  <2>8. QED
    BY <1>1, <2>1, <2>3, <2>5, <2>6, <2>7 DEF Committed
<1>7. ASSUME NEW c \in Calls, Tell(c)
      PROVE  Committed'
  BY <1>7 DEF Tell, store, Committed
<1>8. CASE Crash
  BY <1>1, <1>8 DEF Crash, Committed, Recorded, Recording
<1>9. CASE Apart
  <2>1. UNCHANGED <<pc, execution, rows>> /\ disk' \in {disk, rows}
    BY <1>9 DEF Apart
  <2>2. CASE disk' = disk
    BY <2>1, <2>2 DEF Committed
  <2>3. CASE disk' = rows
    <3>1. \A c \in Calls : pc[c] = "tellFinished" => rows[execution[c]].finished
      BY DEF Committed, Recorded, Recording, Steps
    <3>2. \A c \in Calls : pc[c] \in Recorded => execution[c] \in DOMAIN rows
      BY DEF Owned, Recorded
    <3>3. QED
      BY <1>1, <2>1, <2>3, <3>1, <3>2 DEF Committed
  <2>4. QED
    BY <2>1, <2>2, <2>3
<1>10. QED
  BY <1>2, <1>3, <1>4, <1>5, <1>6, <1>7, <1>8, <1>9, Kinds

-----------------------------------------------------------------------------
(* Types.                                                                  *)

LEMMA CallTypes ==
    ASSUME Inv, [Next]_vars
    PROVE  /\ pc' \in [Calls -> Steps] /\ scenario' \in [Calls -> Scenarios \cup {None}]
           /\ execution' \in [Calls -> 0 .. MaxQueries]
<1> USE DEF Inv
<1> DEFINE OK == /\ pc' \in [Calls -> Steps] /\ scenario' \in [Calls -> Scenarios \cup {None}]
                 /\ execution' \in [Calls -> 0 .. MaxQueries]
<1>1. /\ pc \in [Calls -> Steps] /\ scenario \in [Calls -> Scenarios \cup {None}]
      /\ execution \in [Calls -> 0 .. MaxQueries] /\ 0 \in 0 .. MaxQueries
  BY FeedAssumption DEF TypeOK
<1>2. ASSUME NEW c \in Calls, Insert(c)
      PROVE  OK
  <2>1. c \in Rowless
    BY <1>2 DEF Insert, Rowless
  <2>2. Len(rows) + 1 \in 0 .. MaxQueries
    BY <2>1, RowlessFacts
  <2>3. QED
    BY <1>1, <1>2, <2>2 DEF Insert, Goto, Steps
<1>3. ASSUME NEW c \in Calls, Execute(c) \/ WriteFails(c) \/ Cancel(c) \/ EndTell(c)
      PROVE  OK
  BY <1>1, <1>3 DEF Execute, WriteFails, Cancel, EndTell, Leave, Goto, Steps
<1>4. ASSUME NEW c \in Calls, CommitInsert(c) \/ Update(c) \/ CommitUpdate(c) \/ Tell(c)
      PROVE  OK
  BY <1>1, <1>4 DEF CommitInsert, Update, CommitUpdate, Tell, Goto, Steps
<1>5. ASSUME NEW c \in Calls, NEW s \in Scenarios \cup {None}, Begin(c, s)
      PROVE  OK
  BY <1>1, <1>5 DEF Begin, Goto, Steps
<1>6. CASE Crash
  BY <1>1, <1>6 DEF Crash, Steps
<1>7. CASE UNCHANGED call
  BY <1>1, <1>7 DEF call
<1>8. (\E v \in Viewers : Connect(v) \/ Notice(v) \/ Break(v) \/ Stall(v) \/ Resume(v)) =>
         UNCHANGED call
  BY DEF Connect, Notice, Break, Stall, Resume
<1>9. Heartbeat \/ (\E s \in Scenarios : StartScenario(s) \/ EndScenario(s)) => UNCHANGED call
  BY DEF Heartbeat, Wake, Ping, Rest, StartScenario, EndScenario
<1>10. UNCHANGED vars => UNCHANGED call
  BY DEF vars
<1>11. QED
  BY <1>2, <1>3, <1>4, <1>5, <1>6, <1>7, <1>8, <1>9, <1>10 DEF Next, Step, Record

LEMMA SocketTypes ==
    ASSUME Inv, [Next]_vars
    PROVE  /\ status' \in [Scenarios -> {"none", "open", "closed"}]
           /\ link' \in [Viewers -> {"absent", "live", "stalled", "dead"}]
           /\ registered' \subseteq Viewers
           /\ joined' \in [Viewers -> 0 .. MaxQueries]
           /\ heart' \in {"off", "sleep", "ping"}
           /\ pings' # <<>> => heart' = "ping"
           /\ queries' \in 0 .. MaxQueries /\ executed' \in Nat /\ crashes' \in Nat
<1> USE DEF Inv
<1> DEFINE OK == /\ status' \in [Scenarios -> {"none", "open", "closed"}]
                 /\ link' \in [Viewers -> {"absent", "live", "stalled", "dead"}]
                 /\ registered' \subseteq Viewers
                 /\ joined' \in [Viewers -> 0 .. MaxQueries]
                 /\ heart' \in {"off", "sleep", "ping"}
                 /\ pings' # <<>> => heart' = "ping"
                 /\ queries' \in 0 .. MaxQueries /\ executed' \in Nat /\ crashes' \in Nat
<1>1. /\ status \in [Scenarios -> {"none", "open", "closed"}]
      /\ link \in [Viewers -> {"absent", "live", "stalled", "dead"}]
      /\ registered \subseteq Viewers
      /\ joined \in [Viewers -> 0 .. MaxQueries]
      /\ heart \in {"off", "sleep", "ping"}
      /\ pings # <<>> => heart = "ping"
      /\ queries \in 0 .. MaxQueries /\ executed \in Nat /\ crashes \in Nat
      /\ MaxQueries \in Nat
  BY FeedAssumption DEF TypeOK, Typed
<1>2. ASSUME NEW c \in Calls, Step(c) \/ Cancel(c)
      PROVE  OK
  <2>1. CASE Execute(c)
    BY <1>1, <2>1 DEF Execute, store, sockets, beat, bounds
  <2>2. CASE Record(c) \/ WriteFails(c) \/ Cancel(c) \/ EndTell(c)
    BY <1>1, <2>2 DEF Record, Insert, CommitInsert, Update, CommitUpdate, WriteFails, Cancel,
                      EndTell, store, sockets, beat, bounds
  <2>3. CASE Tell(c)
    BY <1>1, <2>3 DEF Tell, store, beat, bounds
  <2>4. QED
    BY <1>2, <2>1, <2>2, <2>3 DEF Step
<1>3. ASSUME NEW c \in Calls, NEW s \in Scenarios \cup {None}, Begin(c, s)
      PROVE  OK
  BY <1>1, <1>3 DEF Begin, store, sockets, beat
<1>4. ASSUME NEW v \in Viewers, Connect(v)
      PROVE  OK
  <2>1. Len(rows) \in 0 .. MaxQueries
    BY RowlessFacts
  <2>2. pings # <<>> => heart # "off"
    BY <1>1
  <2>3. QED
    BY <1>1, <1>4, <2>1, <2>2 DEF Connect, store, bounds
<1>5. ASSUME NEW v \in Viewers, Notice(v) \/ Break(v) \/ Stall(v) \/ Resume(v)
      PROVE  OK
  BY <1>1, <1>5 DEF Notice, Break, Stall, Resume, store, beat, bounds
<1>6. CASE Wake \/ Rest
  BY <1>1, <1>6 DEF Wake, Rest, store, sockets, bounds
<1>7. CASE Ping
  BY <1>1, <1>7 DEF Ping, store, bounds
<1>8. ASSUME NEW s \in Scenarios, StartScenario(s) \/ EndScenario(s)
      PROVE  OK
  BY <1>1, <1>8 DEF StartScenario, EndScenario, sockets, beat, bounds
<1>9. CASE Crash
  BY <1>1, <1>9 DEF Crash
<1>10. CASE UNCHANGED vars
  BY <1>1, <1>10 DEF vars, store, sockets, beat, bounds
<1>11. QED
  BY <1>2, <1>3, <1>4, <1>5, <1>6, <1>7, <1>8, <1>9, <1>10 DEF Next, Heartbeat

LEMMA RowTypes ==
    ASSUME Inv, [Next]_vars
    PROVE  rows' \in Seq(Row) /\ disk' \in Seq(Row)
<1> USE DEF Inv
<1>1. rows \in Seq(Row) /\ disk \in Seq(Row)
  BY RowFacts
<1>2. CASE \E c \in Calls : Moves(c) \/ Leaves(c)
  BY <1>1, <1>2 DEF Moves, Leaves
<1>3. CASE \E c \in Calls : Insert(c)
  BY <1>1, <1>3, InsertedRow DEF Insert
<1>4. ASSUME NEW c \in Calls, Update(c)
      PROVE  rows' \in Seq(Row) /\ disk' \in Seq(Row)
  <2>1. execution[c] \in DOMAIN rows
    BY <1>4 DEF Owned, Update, Recording, Steps
  <2>2. QED
    BY <1>1, <1>4, <2>1, UpdatedRow DEF Update
<1>5. CASE \E c \in Calls : CommitInsert(c) \/ CommitUpdate(c) \/ Tell(c)
  BY <1>1, <1>5 DEF CommitInsert, CommitUpdate, Tell, store
<1>6. CASE Crash \/ Apart
  BY <1>1, <1>6 DEF Crash, Apart
<1>7. QED
  BY <1>2, <1>3, <1>4, <1>5, <1>6, Kinds

\* One send of a broadcast.
LEMMA TellFacts ==
    ASSUME Inv, NEW c \in Calls, Tell(c)
    PROVE  \E v \in Viewers :
             /\ v = Head(todo[c]) /\ v \in ToSet(todo[c])
             /\ todo' = [todo EXCEPT ![c] = Tail(@)] /\ Tail(todo[c]) \in Seq(Viewers)
             /\ ToSet(Tail(todo[c])) = ToSet(todo[c]) \ {v} /\ IsInjective(Tail(todo[c]))
             /\ News(c) \in Event /\ News(c).execution = execution[c]
             /\ execution[c] \in DOMAIN disk
             /\ \/ /\ link[v] = "live" /\ UNCHANGED registered
                   /\ inbox' = [inbox EXCEPT ![v] = Append(@, News(c))]
                   /\ ToSet(Append(inbox[v], News(c))) = ToSet(inbox[v]) \cup {News(c)}
                   /\ Append(inbox[v], News(c)) \in Seq(Event)
                \/ link[v] = "dead" /\ registered' = registered \ {v} /\ UNCHANGED inbox
<1> USE DEF Inv
<1>1. todo[c] \in Seq(Viewers) /\ IsInjective(todo[c]) /\ todo[c] # <<>> /\ Telling(c)
  BY DEF TypeOK, Typed, Tell
<1>2. /\ Head(todo[c]) \in ToSet(todo[c]) /\ Tail(todo[c]) \in Seq(Viewers)
      /\ ToSet(Tail(todo[c])) = ToSet(todo[c]) \ {Head(todo[c])} /\ IsInjective(Tail(todo[c]))
  BY <1>1, TailOfOrder
<1>3. Head(todo[c]) \in Viewers
  BY <1>2 DEF TypeOK
<1>4. execution[c] \in DOMAIN disk /\ execution[c] \in Nat
  <2>1. execution[c] \in DOMAIN disk
    BY <1>1 DEF Committed, Telling, Recorded, Recording, Steps
  <2>2. QED
    BY <2>1, RowFacts
<1>5. News(c) \in Event /\ News(c).execution = execution[c]
  BY <1>1, <1>4 DEF News, Started, Finished, Event
<1>6. /\ ToSet(Append(inbox[Head(todo[c])], News(c))) = ToSet(inbox[Head(todo[c])]) \cup {News(c)}
      /\ Append(inbox[Head(todo[c])], News(c)) \in Seq(Event)
  BY <1>3, <1>5, AppendFacts DEF Typed
<1>7. todo' = [todo EXCEPT ![c] = Tail(@)]
  BY DEF Tell
<1>8. \/ /\ link[Head(todo[c])] = "live" /\ UNCHANGED registered
         /\ inbox' = [inbox EXCEPT ![Head(todo[c])] = Append(@, News(c))]
      \/ /\ link[Head(todo[c])] = "dead" /\ registered' = registered \ {Head(todo[c])}
         /\ UNCHANGED inbox
  BY DEF Tell
<1>9. QED
  BY <1>2, <1>3, <1>4, <1>5, <1>6, <1>7, <1>8

\* The start of a broadcast.
LEMMA SnapshotFacts ==
    ASSUME Inv, NEW c \in Calls, Snapshot(c)
    PROVE  \E order \in Seq(Viewers) :
             /\ todo' = [todo EXCEPT ![c] = order]
             /\ ToSet(order) = registered /\ IsInjective(order) /\ registered \subseteq Viewers
<1>1. registered \subseteq Viewers
  BY DEF Inv, TypeOK
<1>2. PICK order \in SetToSeqs(registered) : todo' = [todo EXCEPT ![c] = order]
  BY DEF Snapshot
<1>3. order \in Seq(Viewers) /\ ToSet(order) = registered /\ IsInjective(order)
  BY <1>1, OrderOfSet
<1>4. QED
  BY <1>1, <1>2, <1>3

LEMMA TodoTypes ==
    ASSUME Inv, [Next]_vars
    PROVE  /\ todo' \in [Calls -> Seq(Viewers)]
           /\ \A c \in Calls : /\ ToSet(todo'[c]) \subseteq Viewers /\ IsInjective(todo'[c])
                               /\ pc'[c] \notin {"tellStarted", "tellFinished"} => todo'[c] = <<>>
<1> USE DEF Inv
<1> DEFINE OK == /\ todo' \in [Calls -> Seq(Viewers)]
                 /\ \A c \in Calls :
                      /\ ToSet(todo'[c]) \subseteq Viewers /\ IsInjective(todo'[c])
                      /\ pc'[c] \notin {"tellStarted", "tellFinished"} => todo'[c] = <<>>
<1>1. /\ todo \in [Calls -> Seq(Viewers)] /\ pc \in [Calls -> Steps]
      /\ \A c \in Calls : /\ ToSet(todo[c]) \subseteq Viewers /\ IsInjective(todo[c])
                          /\ pc[c] \notin {"tellStarted", "tellFinished"} => todo[c] = <<>>
  BY DEF Typed, TypeOK, Telling
<1> DEFINE none == <<>>
<1>2. ToSet(none) \subseteq Viewers /\ IsInjective(none) /\ none \in Seq(Viewers)
  BY NoElements
<1>3. ASSUME NEW c \in Calls, NEW order \in Seq(Viewers), ToSet(order) \subseteq Viewers,
             IsInjective(order), todo' = [todo EXCEPT ![c] = order],
             NEW p \in Steps, pc' = [pc EXCEPT ![c] = p],
             p \in {"tellStarted", "tellFinished"} \/ order = <<>>
      PROVE  OK
  BY <1>1, <1>3
<1>4. ASSUME NEW c \in Calls, Moves(c)
      PROVE  OK
  <2>1. /\ todo' = todo
        /\ \E p \in Steps : pc' = [pc EXCEPT ![c] = p]
        /\ todo[c] = <<>>
    BY <1>1, <1>4 DEF Moves, Goto, Steps
  <2>2. QED
    BY <1>1, <2>1
<1>5. ASSUME NEW c \in Calls, Leaves(c)
      PROVE  OK
  <2>1. todo' = [todo EXCEPT ![c] = none] /\ pc' = [pc EXCEPT ![c] = "idle"]
    BY <1>5 DEF Leaves, Leave, Goto
  <2>2. none = <<>> /\ "idle" \in Steps
    BY DEF Steps
  <2> HIDE DEF none, OK
  <2>3. QED
    BY <1>2, <1>3, <2>1, <2>2
<1>6. ASSUME NEW c \in Calls, Insert(c) \/ Update(c)
      PROVE  OK
  <2>1. todo' = todo /\ \E p \in Steps : pc' = [pc EXCEPT ![c] = p] /\ todo[c] = <<>>
    BY <1>1, <1>6 DEF Insert, Update, Goto, Steps
  <2>2. QED
    BY <1>1, <2>1
<1>7. ASSUME NEW c \in Calls, CommitInsert(c) \/ CommitUpdate(c)
      PROVE  OK
  <2>1. PICK order \in Seq(Viewers) :
          /\ todo' = [todo EXCEPT ![c] = order]
          /\ ToSet(order) \subseteq Viewers /\ IsInjective(order)
    BY <1>7, SnapshotFacts DEF CommitInsert, CommitUpdate
  <2>2. PICK p \in {"tellStarted", "tellFinished"} : pc' = [pc EXCEPT ![c] = p]
    BY <1>7 DEF CommitInsert, CommitUpdate, Goto
  <2>3. p \in Steps
    BY DEF Steps
  <2> HIDE DEF OK
  <2>4. QED
    BY <1>3, <2>1, <2>2, <2>3
<1>8. ASSUME NEW c \in Calls, Tell(c)
      PROVE  OK
  <2>1. PICK v \in Viewers :
          /\ todo' = [todo EXCEPT ![c] = Tail(@)] /\ Tail(todo[c]) \in Seq(Viewers)
          /\ ToSet(Tail(todo[c])) = ToSet(todo[c]) \ {v} /\ IsInjective(Tail(todo[c]))
    BY <1>8, TellFacts
  <2>2. pc' = pc /\ pc[c] \in {"tellStarted", "tellFinished"}
    BY <1>8 DEF Tell, Telling
  <2>3. QED
    BY <1>1, <2>1, <2>2
<1>9. CASE Crash
  <2>1. todo' = [c \in Calls |-> none]
    BY <1>9 DEF Crash
  <2>2. none = <<>>
    OBVIOUS
  <2> HIDE DEF none
  <2>3. QED
    BY <1>2, <2>1, <2>2
<1>10. CASE Apart
  BY <1>1, <1>10 DEF Apart
<1>11. QED
  BY <1>4, <1>5, <1>6, <1>7, <1>8, <1>9, <1>10, Kinds

LEMMA InboxTypes ==
    ASSUME Inv, [Next]_vars
    PROVE  inbox' \in [Viewers -> Seq(Event)]
<1> USE DEF Inv
<1>1. inbox \in [Viewers -> Seq(Event)]
  BY DEF Typed
<1>2. ASSUME NEW c \in Calls, Tell(c)
      PROVE  inbox' \in [Viewers -> Seq(Event)]
  BY <1>1, <1>2, TellFacts
<1>3. CASE UNCHANGED inbox
  BY <1>1, <1>3
<1>4. QED
  BY <1>2, <1>3, Kinds
  DEF Moves, Leaves, Insert, CommitInsert, Update, CommitUpdate, Crash, Apart, sockets

LEMMA TypesStep ==
    ASSUME Inv, [Next]_vars
    PROVE  TypeOK' /\ Typed'
<1>1. /\ \A c \in Calls : (pc'[c] \in {"tellStarted", "tellFinished", "update", "commitUpdate"} =>
                               execution'[c] \in DOMAIN rows')
  BY OwnedStep DEF Owned, Recording, Steps
<1>2. TypeOK'
  BY <1>1, CallTypes, SocketTypes, RowTypes, TodoTypes, InboxTypes DEF TypeOK, Telling
<1>3. Typed'
  BY SocketTypes, TodoTypes, InboxTypes DEF Typed
<1>4. QED
  BY <1>2, <1>3

-----------------------------------------------------------------------------
(* What has been told.                                                     *)

LEMMA EventFacts ==
    /\ \A e, f : Started(e) # Finished(f)
    /\ \A e, f : Started(e) = Started(f) => e = f
    /\ \A e, f : Finished(e) = Finished(f) => e = f
    /\ \A e : Started(e).execution = e /\ Finished(e).execution = e
    /\ \A e : Started(e).kind = "started" /\ Finished(e).kind = "finished"
<1>1. \A e : Started(e).kind = "started" /\ Finished(e).kind = "finished"
  BY DEF Started, Finished
<1>2. \A e : Started(e).execution = e /\ Finished(e).execution = e
  BY DEF Started, Finished
<1>3. "started" # "finished"
  OBVIOUS
<1>4. \A e, f : Started(e) # Finished(f)
  BY <1>1, <1>3
<1>5. \A e, f : Started(e) = Started(f) => e = f
  BY <1>2
<1>6. \A e, f : Finished(e) = Finished(f) => e = f
  BY <1>2
<1>7. QED
  BY <1>1, <1>2, <1>4, <1>5, <1>6

LEMMA NewsFacts ==
    ASSUME NEW c \in Calls, Telling(c)
    PROVE  /\ pc[c] = "tellStarted" => News(c) = Started(execution[c])
           /\ pc[c] = "tellFinished" => News(c) = Finished(execution[c])
           /\ News(c).execution = execution[c]
           /\ News(c).kind = "finished" => pc[c] = "tellFinished"
           /\ \A e : e # execution[c] => News(c) # Started(e) /\ News(c) # Finished(e)
<1>1. /\ pc[c] = "tellStarted" => News(c) = Started(execution[c])
      /\ pc[c] = "tellFinished" => News(c) = Finished(execution[c])
      /\ pc[c] \in {"tellStarted", "tellFinished"}
  BY DEF Telling, News
<1>2. QED
  BY <1>1, EventFacts

\* What is on disk stays there.
LEMMA DiskGrows ==
    ASSUME Inv, [Next]_vars
    PROVE  /\ disk' = disk \/ disk' = rows
           /\ DOMAIN disk \subseteq DOMAIN disk'
           /\ \A e \in DOMAIN disk : disk[e].finished => disk'[e].finished
<1>1. disk' = disk \/ disk' = rows
  BY Kinds DEF Inv, Apart, Crash, Moves, Leaves, Insert, CommitInsert, Update, CommitUpdate, Tell, store
<1>2. DOMAIN disk \subseteq DOMAIN rows /\ \A e \in DOMAIN disk : disk[e].finished => rows[e].finished
  BY RowFacts DEF Inv, Committed
<1>3. QED
  BY <1>1, <1>2

LEMMA SeenStep ==
    ASSUME Inv, [Next]_vars
    PROVE  SeenIsStored'
<1> USE DEF Inv
<1> SUFFICES ASSUME NEW v \in Viewers, NEW n \in ToSet(inbox'[v])
             PROVE  /\ n.execution \in DOMAIN disk'
                    /\ n.kind = "finished" => disk'[n.execution].finished
  BY DEF SeenIsStored
<1>1. CASE n \in ToSet(inbox[v])
  BY <1>1, DiskGrows DEF SeenIsStored
<1>2. ASSUME NEW c \in Calls, Tell(c), n \notin ToSet(inbox[v])
      PROVE  n = News(c) /\ disk' = disk
  <2>1. PICK w \in Viewers :
          \/ /\ inbox' = [inbox EXCEPT ![w] = Append(@, News(c))]
             /\ ToSet(Append(inbox[w], News(c))) = ToSet(inbox[w]) \cup {News(c)}
          \/ UNCHANGED inbox
    BY <1>2, TellFacts
  <2>2. inbox \in [Viewers -> Seq(Event)]
    BY DEF Typed
  <2>3. ToSet(inbox'[v]) \subseteq ToSet(inbox[v]) \cup {News(c)}
    BY <2>1, <2>2
  <2>4. disk' = disk
    BY <1>2 DEF Tell, store
  <2>5. QED
    BY <1>2, <2>3, <2>4
<1>3. ASSUME NEW c \in Calls, Tell(c), n \notin ToSet(inbox[v])
      PROVE  /\ n.execution \in DOMAIN disk'
             /\ n.kind = "finished" => disk'[n.execution].finished
  <2>1. n = News(c) /\ disk' = disk /\ Telling(c)
    BY <1>2, <1>3 DEF Tell
  <2>2. execution[c] \in DOMAIN disk /\ News(c).execution = execution[c]
    BY <1>3, TellFacts
  <2>3. News(c).kind = "finished" => disk[execution[c]].finished
    BY <2>1, NewsFacts DEF Committed
  <2>4. QED
    BY <2>1, <2>2, <2>3
<1>4. CASE UNCHANGED inbox
  BY <1>1, <1>4
<1>5. QED
  BY <1>1, <1>3, <1>4, Kinds
  DEF Moves, Leaves, Insert, CommitInsert, Update, CommitUpdate, Crash, Apart, sockets

\* Untold, for one call and one socket.
UntoldOf(c, v) ==
    /\ pc[c] = "commitInsert" => Started(execution[c]) \notin ToSet(inbox[v])
    /\ pc[c] \in Recording \ {"tellFinished"} => Finished(execution[c]) \notin ToSet(inbox[v])
    /\ v \in ToSet(todo[c]) => News(c) \notin ToSet(inbox[v])

LEMMA UntoldStep ==
    ASSUME Inv, [Next]_vars
    PROVE  Untold'
<1> USE DEF Inv
<1>1. pc \in [Calls -> Steps] /\ todo \in [Calls -> Seq(Viewers)] /\ inbox \in [Viewers -> Seq(Event)]
  BY DEF TypeOK, Typed
<1>2. execution \in [Calls -> 0 .. MaxQueries]
  BY DEF TypeOK
<1> SUFFICES ASSUME NEW d \in Calls, NEW v \in Viewers
             PROVE  UntoldOf(d, v)'
  BY DEF Untold, UntoldOf
<1>3. UntoldOf(d, v)
  BY DEF Untold, UntoldOf
<1>4. ToSet(<<>>) = {}
  BY NoElements
<1>5. CASE UNCHANGED <<inbox, todo>> /\ pc'[d] = pc[d] /\ execution'[d] = execution[d]
  BY <1>3, <1>5 DEF UntoldOf, News
<1>6. CASE UNCHANGED inbox /\ todo'[d] = <<>> /\ pc'[d] \notin Recording
  BY <1>4, <1>6 DEF UntoldOf, Recording, Steps
<1>7. ASSUME NEW c \in Calls, Moves(c)
      PROVE  UntoldOf(d, v)'
  <2>1. UNCHANGED <<inbox, todo, execution>> /\ todo[c] = <<>>
    BY <1>7 DEF Moves, TypeOK, Telling
  <2>2. CASE d # c
    BY <1>1, <1>5, <1>7, <2>1, <2>2 DEF Moves, Goto
  <2>3. CASE d = c /\ pc[c] = "tellStarted"
    <3>1. pc'[d] = "update" /\ todo'[d] = <<>> /\ pc[d] \in Recording \ {"tellFinished"}
      BY <1>1, <1>7, <2>1, <2>3 DEF Moves, Goto, Recording, Steps
    <3>2. QED
      BY <1>3, <1>4, <2>1, <3>1 DEF UntoldOf
  <2>4. CASE d = c /\ pc[c] # "tellStarted"
    <3>1. pc'[d] \notin Recording
      BY <1>1, <1>7, <2>4 DEF Moves, Goto, Recording, Steps
    <3>2. QED
      BY <1>6, <2>1, <2>4, <3>1
  <2>5. QED
    BY <2>2, <2>3, <2>4
<1>8. ASSUME NEW c \in Calls, Leaves(c)
      PROVE  UntoldOf(d, v)'
  <2>1. /\ UNCHANGED inbox /\ todo' = [todo EXCEPT ![c] = <<>>]
        /\ pc' = [pc EXCEPT ![c] = "idle"] /\ execution' = [execution EXCEPT ![c] = 0]
    BY <1>8 DEF Leaves, Leave, Goto
  <2>2. CASE d = c
    BY <1>1, <1>6, <2>1, <2>2 DEF Recording
  <2>3. CASE d # c
    <3>1. todo'[d] = todo[d] /\ pc'[d] = pc[d] /\ execution'[d] = execution[d]
      BY <2>1, <2>3
    <3>2. QED
      BY <1>3, <2>1, <3>1 DEF UntoldOf, News
  <2>4. QED
    BY <2>2, <2>3
<1>9. ASSUME NEW c \in Calls, Insert(c)
      PROVE  UntoldOf(d, v)'
  <2>1. /\ UNCHANGED <<inbox, todo>> /\ todo[c] = <<>> /\ pc' = [pc EXCEPT ![c] = "commitInsert"]
        /\ execution' = [execution EXCEPT ![c] = Len(rows) + 1]
    BY <1>9 DEF Insert, Goto, TypeOK, Telling, sockets
  <2>2. CASE d # c
    BY <1>1, <1>2, <1>5, <2>1, <2>2
  <2>3. CASE d = c
    <3>1. Len(rows) + 1 \notin DOMAIN disk
      BY RowFacts DEF Committed
    <3>2. \A n \in ToSet(inbox[v]) : n.execution \in DOMAIN disk
      BY DEF SeenIsStored
    <3>3. Started(Len(rows) + 1) \notin ToSet(inbox[v]) /\ Finished(Len(rows) + 1) \notin ToSet(inbox[v])
      BY <3>1, <3>2, EventFacts
    <3>4. execution'[d] = Len(rows) + 1 /\ todo'[d] = <<>>
      BY <1>2, <2>1, <2>3
    <3>5. QED
      BY <1>4, <2>1, <3>3, <3>4 DEF UntoldOf
  <2>4. QED
    BY <2>2, <2>3
<1>10. ASSUME NEW c \in Calls, CommitInsert(c) \/ CommitUpdate(c)
      PROVE  UntoldOf(d, v)'
  <2>1. /\ UNCHANGED <<inbox, execution>> /\ \E order : todo' = [todo EXCEPT ![c] = order]
        /\ \/ pc[c] = "commitInsert" /\ pc' = [pc EXCEPT ![c] = "tellStarted"]
           \/ pc[c] = "commitUpdate" /\ pc' = [pc EXCEPT ![c] = "tellFinished"]
    BY <1>10 DEF CommitInsert, CommitUpdate, Goto, Snapshot, sockets
  <2>2. CASE d # c
    <3>1. todo'[d] = todo[d] /\ pc'[d] = pc[d]
      BY <1>1, <2>1, <2>2
    <3>2. QED
      BY <1>3, <2>1, <3>1 DEF UntoldOf, News
  <2>3. CASE d = c /\ pc[c] = "commitInsert"
    <3>1. pc'[d] = "tellStarted" /\ pc[d] \in Recording \ {"tellFinished"}
      BY <1>1, <2>1, <2>3 DEF Recording, Steps
    <3>2. Started(execution[d]) \notin ToSet(inbox[v]) /\ Finished(execution[d]) \notin ToSet(inbox[v])
      BY <1>3, <2>3, <3>1 DEF UntoldOf
    <3>3. QED
      BY <2>1, <3>1, <3>2 DEF UntoldOf, News
  <2>4. CASE d = c /\ pc[c] = "commitUpdate"
    <3>1. pc'[d] = "tellFinished" /\ pc[d] \in Recording \ {"tellFinished"}
      BY <1>1, <2>1, <2>4 DEF Recording, Steps
    <3>2. Finished(execution[d]) \notin ToSet(inbox[v])
      BY <1>3, <3>1 DEF UntoldOf
    <3>3. QED
      BY <2>1, <3>1, <3>2 DEF UntoldOf, News
  <2>5. QED
    BY <2>1, <2>2, <2>3, <2>4
<1>11. ASSUME NEW c \in Calls, Update(c)
      PROVE  UntoldOf(d, v)'
  <2>1. /\ UNCHANGED <<inbox, execution, todo>> /\ pc[c] = "update"
        /\ pc' = [pc EXCEPT ![c] = "commitUpdate"] /\ todo[c] = <<>>
    BY <1>11 DEF Update, Goto, TypeOK, Telling, sockets
  <2>2. CASE d # c
    BY <1>1, <1>5, <2>1, <2>2
  <2>3. CASE d = c
    <3>1. pc'[d] = "commitUpdate" /\ pc[d] \in Recording \ {"tellFinished"} /\ todo'[d] = <<>>
      BY <1>1, <2>1, <2>3 DEF Recording, Steps
    <3>2. QED
      BY <1>3, <1>4, <2>1, <3>1 DEF UntoldOf
  <2>4. QED
    BY <2>2, <2>3
<1>12. ASSUME NEW c \in Calls, Tell(c)
      PROVE  UntoldOf(d, v)'
  <2>1. UNCHANGED <<pc, execution>> /\ Telling(c)
    BY <1>12 DEF Tell
  <2>2. PICK w \in Viewers :
          /\ w \in ToSet(todo[c]) /\ todo' = [todo EXCEPT ![c] = Tail(@)]
          /\ ToSet(Tail(todo[c])) = ToSet(todo[c]) \ {w}
          /\ \/ /\ inbox' = [inbox EXCEPT ![w] = Append(@, News(c))]
                /\ ToSet(Append(inbox[w], News(c))) = ToSet(inbox[w]) \cup {News(c)}
             \/ UNCHANGED inbox
    BY <1>12, TellFacts
  <2>3. /\ ToSet(inbox'[v]) = ToSet(inbox[v])
           \/ (v = w /\ ToSet(inbox'[v]) = ToSet(inbox[v]) \cup {News(c)})
        /\ ToSet(todo'[d]) \subseteq ToSet(todo[d])
        /\ d = c => w \notin ToSet(todo'[d])
    BY <1>1, <2>2
  <2>4. News(d)' = News(d)
    BY <2>1 DEF News
  <2>5. CASE ToSet(inbox'[v]) = ToSet(inbox[v])
    BY <1>3, <2>1, <2>3, <2>4, <2>5 DEF UntoldOf
  <2>6. CASE v = w /\ ToSet(inbox'[v]) = ToSet(inbox[v]) \cup {News(c)} /\ d # c
    <3>1. pc[c] \in Recording
      BY <2>1 DEF Telling, Recording, Steps
    <3>2. execution[d] # execution[c]
      BY <2>6, <3>1 DEF Owned
    <3>3. News(c) # Started(execution[d]) /\ News(c) # Finished(execution[d])
      BY <2>1, <3>2, NewsFacts
    <3>4. News(d) \in {Started(execution[d]), Finished(execution[d])}
      BY DEF News
    <3>5. QED
      BY <1>3, <2>1, <2>3, <2>4, <2>6, <3>3, <3>4 DEF UntoldOf
  <2>7. CASE v = w /\ ToSet(inbox'[v]) = ToSet(inbox[v]) \cup {News(c)} /\ d = c
    <3>1. v \notin ToSet(todo'[d])
      BY <2>3, <2>7
    <3>2. /\ pc[d] \in {"tellStarted", "tellFinished"}
          /\ pc[d] = "tellStarted" => News(c) = Started(execution[d])
      BY <2>1, <2>7, NewsFacts DEF Telling
    <3>3. QED
      BY <1>3, <2>1, <2>7, <3>1, <3>2, EventFacts DEF UntoldOf
  <2>8. QED
    BY <2>3, <2>5, <2>6, <2>7
<1>13. CASE Crash
  <2>1. UNCHANGED inbox /\ todo'[d] = <<>> /\ pc'[d] = "idle"
    BY <1>13 DEF Crash
  <2>2. QED
    BY <1>6, <2>1 DEF Recording
<1>14. CASE Apart
  BY <1>5, <1>14 DEF Apart
<1>15. QED
  BY <1>7, <1>8, <1>9, <1>10, <1>11, <1>12, <1>13, <1>14, Kinds

LEMMA FeedOrderStep ==
    ASSUME Inv, [Next]_vars
    PROVE  FeedOrder'
<1> USE DEF Inv
<1>1. CASE UNCHANGED inbox
  BY <1>1 DEF FeedOrder
<1>2. ASSUME NEW c \in Calls, Tell(c), NEW v \in Viewers, inbox'[v] = Append(inbox[v], News(c)),
             v \in ToSet(todo[c]), News(c) \in Event
      PROVE  /\ IsInjective(inbox'[v])
             /\ \A i, j \in DOMAIN inbox'[v] : i < j =>
                  ~ \E e \in 1 .. MaxQueries : inbox'[v][i] = Finished(e) /\ inbox'[v][j] = Started(e)
  <2>1. inbox[v] \in Seq(Event) /\ News(c) \notin ToSet(inbox[v]) /\ IsInjective(inbox[v])
    BY <1>2 DEF Typed, Untold, FeedOrder
  <2>2. PICK n \in Nat :
          /\ DOMAIN inbox[v] = 1 .. n /\ DOMAIN inbox'[v] = 1 .. n + 1
          /\ \A a \in 1 .. n : inbox'[v][a] = inbox[v][a]
          /\ inbox'[v][n + 1] = News(c) /\ IsInjective(inbox'[v])
    <3>1. PICK s \in Seq(Event), x \in Event : s = inbox[v] /\ x = News(c)
      BY <1>2, <2>1
    <3>2. inbox'[v] = Append(s, x) /\ IsInjective(s) /\ x \notin ToSet(s)
      BY <1>2, <2>1, <3>1
    <3>3. QED
      BY <3>1, <3>2, AppendFacts
  <2>3. \A e : News(c) = Started(e) => Finished(e) \notin ToSet(inbox[v])
    <3>1. Telling(c)
      BY <1>2 DEF Tell
    <3>2. pc[c] = "tellStarted" => pc[c] \in Recording \ {"tellFinished"}
      BY DEF Recording, Steps
    <3>3. \A e : News(c) = Started(e) => pc[c] = "tellStarted" /\ e = execution[c]
      BY <3>1, NewsFacts, EventFacts DEF Telling
    <3>4. QED
      BY <3>2, <3>3 DEF Untold
  <2>4. \A a \in 1 .. n : inbox[v][a] \in ToSet(inbox[v])
    BY <2>2 DEF ToSet
  <2>5. ASSUME NEW i \in 1 .. n + 1, NEW j \in 1 .. n + 1, i < j, NEW e \in 1 .. MaxQueries,
               inbox'[v][i] = Finished(e), inbox'[v][j] = Started(e)
        PROVE  FALSE
    <3>1. i \in 1 .. n /\ (j \in 1 .. n \/ j = n + 1)
      BY <2>2, <2>5
    <3>2. inbox[v][i] = Finished(e) /\ Finished(e) \in ToSet(inbox[v])
      BY <2>2, <2>4, <2>5, <3>1
    <3>3. CASE j = n + 1
      BY <2>2, <2>3, <2>5, <3>2, <3>3
    <3>4. CASE j \in 1 .. n
      BY <2>2, <2>5, <3>1, <3>2, <3>4 DEF FeedOrder
    <3>5. QED
      BY <3>1, <3>3, <3>4
  <2>6. QED
    BY <2>2, <2>5
<1>3. ASSUME NEW c \in Calls, Tell(c)
      PROVE  FeedOrder'
  <2>1. PICK w \in Viewers :
          /\ w \in ToSet(todo[c]) /\ News(c) \in Event
          /\ inbox' = [inbox EXCEPT ![w] = Append(@, News(c))] \/ UNCHANGED inbox
    BY <1>3, TellFacts
  <2>2. inbox \in [Viewers -> Seq(Event)]
    BY DEF Typed
  <2>3. CASE UNCHANGED inbox
    BY <1>1, <2>3
  <2>4. CASE inbox' = [inbox EXCEPT ![w] = Append(@, News(c))]
    <3>1. inbox'[w] = Append(inbox[w], News(c)) /\ \A v \in Viewers : v # w => inbox'[v] = inbox[v]
      BY <2>2, <2>4
    <3>2. /\ IsInjective(inbox'[w])
          /\ \A i, j \in DOMAIN inbox'[w] : i < j =>
               ~ \E e \in 1 .. MaxQueries : inbox'[w][i] = Finished(e) /\ inbox'[w][j] = Started(e)
      BY <1>2, <1>3, <2>1, <3>1
    <3>3. ASSUME NEW v \in Viewers
          PROVE  /\ IsInjective(inbox'[v])
                 /\ \A i, j \in DOMAIN inbox'[v] : i < j =>
                      ~ \E e \in 1 .. MaxQueries :
                           inbox'[v][i] = Finished(e) /\ inbox'[v][j] = Started(e)
      <4>1. CASE v = w
        BY <3>2, <4>1
      <4>2. CASE v # w
        BY <3>1, <4>2 DEF FeedOrder
      <4>3. QED
        BY <4>1, <4>2
    <3>4. QED
      BY <3>3 DEF FeedOrder
  <2>5. QED
    BY <2>1, <2>3, <2>4
<1>4. QED
  BY <1>1, <1>3, Kinds
  DEF Moves, Leaves, Insert, CommitInsert, Update, CommitUpdate, Crash, Apart, sockets

LEMMA InvInit == Init => Inv
<1> SUFFICES ASSUME Init PROVE Inv
  OBVIOUS
<1> DEFINE none == <<>>
<1>1. /\ \A S : none \in Seq(S)
      /\ Len(none) = 0 /\ ToSet(none) = {} /\ IsInjective(none) /\ DOMAIN none = {}
  BY NoElements, EmptySeq
<1>2. /\ rows = none /\ disk = none
      /\ todo = [c \in Calls |-> none] /\ inbox = [v \in Viewers |-> none]
      /\ pings = none
  BY DEF Init
<1>3. /\ pc = [c \in Calls |-> "idle"] /\ execution = [c \in Calls |-> 0]
      /\ scenario = [c \in Calls |-> None] /\ status = [s \in Scenarios |-> "none"]
      /\ link = [v \in Viewers |-> "absent"] /\ joined = [v \in Viewers |-> 0]
      /\ registered = {} /\ heart = "off" /\ executed = 0 /\ queries = 0 /\ crashes = 0
  BY DEF Init
<1>4. \A c \in Calls : pc[c] \notin Recording /\ pc[c] \notin Recorded /\ ~Telling(c)
  BY <1>3 DEF Recording, Recorded, Telling
<1>5. 0 \in 0 .. MaxQueries
  BY FeedAssumption
<1>6. todo \in [Calls -> Seq(Viewers)] /\ inbox \in [Viewers -> Seq(Event)]
      /\ rows \in Seq(Row) /\ disk \in Seq(Row)
  BY <1>1, <1>2
<1>7. \A c \in Calls : todo[c] = none
  BY <1>2
<1>8. \A v \in Viewers : inbox[v] = none
  BY <1>2
<1>9. pings = <<>> /\ none = <<>>
  BY <1>2
<1> HIDE DEF none
<1>10. Typed
  BY <1>3, <1>5, <1>6 DEF Typed
<1>11. Counted
  <2>1. Rowless = {}
    BY <1>3 DEF Rowless
  <2>2. QED
    BY <1>1, <1>2, <1>3, <2>1, FS_EmptySet DEF Counted
<1>12. Owned
  BY <1>3, <1>4 DEF Owned
<1>13. Committed
  BY <1>1, <1>2, <1>3, <1>4 DEF Committed
<1>14. SeenIsStored
  BY <1>1, <1>8 DEF SeenIsStored
<1>15. Untold
  BY <1>1, <1>3, <1>4, <1>7 DEF Untold
<1>16. FeedOrder
  BY <1>1, <1>8 DEF FeedOrder
<1>17. TypeOK
  <2>1. /\ pc \in [Calls -> Steps] /\ scenario \in [Calls -> Scenarios \cup {None}]
        /\ execution \in [Calls -> 0 .. MaxQueries]
    BY <1>3, <1>5 DEF Steps
  <2>2. \A c \in Calls : ToSet(todo[c]) \subseteq Viewers /\ IsInjective(todo[c])
    BY <1>1, <1>7
  <2>3. \A c \in Calls : todo[c] = <<>>
    BY <1>7, <1>9
  <2>4. \A c \in Calls : ~Telling(c) /\ pc[c] \notin {"update", "commitUpdate"}
    BY <1>3 DEF Telling
  <2>5. /\ link \in [Viewers -> {"absent", "live", "stalled", "dead"}]
        /\ status \in [Scenarios -> {"none", "open", "closed"}]
        /\ joined \in [Viewers -> 0 .. MaxQueries]
        /\ registered \subseteq Viewers /\ heart \in {"off", "sleep", "ping"}
    BY <1>3, <1>5
  <2>6. \A v \in Viewers : inbox[v] \in Seq(Event)
    BY <1>6
  <2>7. QED
    BY <1>6, <1>9, <2>1, <2>2, <2>3, <2>4, <2>5, <2>6 DEF TypeOK
<1>18. QED
  BY <1>10, <1>11, <1>12, <1>13, <1>14, <1>15, <1>16, <1>17 DEF Inv

LEMMA InvStep == Inv /\ [Next]_vars => Inv'
<1> SUFFICES ASSUME Inv, [Next]_vars PROVE Inv'
  OBVIOUS
<1>1. QED
  BY TypesStep, CountedStep, OwnedStep, CommittedStep, SeenStep, UntoldStep, FeedOrderStep DEF Inv

-----------------------------------------------------------------------------
(* Nothing is missed.                                                      *)

\* Who is connected stays registered, and has joined long ago or just now.
LEMMA ConnectedStep ==
    ASSUME Inv, Delivered, [Next]_vars, NEW v \in Viewers, Connected(v)'
    PROVE  /\ v \in registered' /\ ~Crash
           /\ \/ Connected(v) /\ joined'[v] = joined[v]
              \/ joined'[v] = Len(rows) /\ rows' = rows
<1> USE DEF Inv
<1>1. /\ link \in [Viewers -> {"absent", "live", "stalled", "dead"}]
      /\ joined \in [Viewers -> 0 .. MaxQueries]
      /\ link'[v] \in {"live", "stalled"}
      /\ link[v] \in {"live", "stalled"} => v \in registered
  BY DEF TypeOK, Delivered, Connected
<1> DEFINE OK == /\ v \in registered' /\ ~Crash
                 /\ \/ Connected(v) /\ joined'[v] = joined[v]
                    \/ joined'[v] = Len(rows) /\ rows' = rows
<1>2. ~Crash
  BY <1>1 DEF Crash
<1>3. CASE UNCHANGED sockets
  BY <1>1, <1>2, <1>3 DEF sockets, Connected
<1>4. ASSUME NEW c \in Calls, Tell(c)
      PROVE  OK
  BY <1>1, <1>2, <1>4 DEF Tell, Connected
<1>5. ASSUME NEW w \in Viewers, Connect(w)
      PROVE  OK
  <2>1. /\ link' = [link EXCEPT ![w] = "live"] /\ registered' = registered \cup {w}
        /\ joined' = [joined EXCEPT ![w] = Len(rows)] /\ rows' = rows
    BY <1>5 DEF Connect, store
  <2>2. QED
    BY <1>1, <1>2, <2>1 DEF Connected
<1>6. ASSUME NEW w \in Viewers, Notice(w)
      PROVE  OK
  BY <1>1, <1>2, <1>6 DEF Notice, Connected
<1>7. ASSUME NEW w \in Viewers, Break(w) \/ Stall(w) \/ Resume(w)
      PROVE  OK
  BY <1>1, <1>2, <1>7 DEF Break, Stall, Resume, Connected
<1>8. CASE Ping
  BY <1>1, <1>2, <1>8 DEF Ping, Connected
<1>9. (\E c \in Calls : \/ Execute(c) \/ Record(c) \/ WriteFails(c) \/ EndTell(c) \/ Cancel(c)
                        \/ \E s \in Scenarios \cup {None} : Begin(c, s)) => UNCHANGED sockets
  BY DEF Execute, Record, Insert, CommitInsert, Update, CommitUpdate, WriteFails, EndTell, Cancel,
         Begin
<1>10. Wake \/ Rest \/ (\E s \in Scenarios : StartScenario(s) \/ EndScenario(s)) => UNCHANGED sockets
  BY DEF Wake, Rest, StartScenario, EndScenario
<1>11. UNCHANGED vars => UNCHANGED sockets
  BY DEF vars
<1>12. QED
  BY <1>2, <1>3, <1>4, <1>5, <1>6, <1>7, <1>8, <1>9, <1>10, <1>11 DEF Next, Step, Heartbeat

LEMMA HeardStep ==
    ASSUME Faults \cap {"write", "cancel"} = {},
           Inv, [Next]_vars, ~Crash, NEW v \in Viewers, Connected(v), v \in registered,
           \A e \in DOMAIN rows : joined[v] < e => Heard(v, e),
           NEW e \in DOMAIN rows', joined[v] < e
    PROVE  Heard(v, e)'
<1> USE DEF Inv
<1>1. /\ pc \in [Calls -> Steps] /\ todo \in [Calls -> Seq(Viewers)]
      /\ inbox \in [Viewers -> Seq(Event)] /\ execution \in [Calls -> 0 .. MaxQueries]
  BY DEF Typed, TypeOK
<1>2. 0 \notin DOMAIN rows /\ DOMAIN rows = 1 .. Len(rows) /\ Len(rows) \in Nat
  BY RowFacts
<1>3. ~("write" \in Faults) /\ ~("cancel" \in Faults)
  OBVIOUS
<1>4. \A c \in Calls : execution[c] = e /\ e \in DOMAIN rows => pc[c] \in Recording
  BY <1>2 DEF Owned
<1>5. e \in DOMAIN rows => Heard(v, e)
  OBVIOUS
<1>6. ASSUME NEW d \in Calls, UNCHANGED inbox, pc'[d] = pc[d], todo'[d] = todo[d],
             execution'[d] = execution[d], HeardFrom(d, v)
      PROVE  HeardFrom(d, v)'
  BY <1>6 DEF HeardFrom, Recorded
<1>7. ASSUME NEW c \in Calls, Moves(c)
      PROVE  Heard(v, e)'
  <2>1. UNCHANGED <<inbox, todo, execution, rows>>
    BY <1>7 DEF Moves
  <2>2. \A d \in Calls : d # c => pc'[d] = pc[d]
    BY <1>1, <1>7 DEF Moves, Goto
  <2>3. ASSUME execution[c] = e, HeardFrom(c, v)
        PROVE  HeardFrom(c, v)'
    <3>1. pc[c] = "tellStarted" /\ todo[c] = <<>> /\ pc'[c] = "update"
      BY <1>1, <1>4, <1>7, <2>1, <2>3 DEF Moves, Goto, Recording
    <3>2. v \notin ToSet(todo[c]) /\ pc[c] \in Recorded
      BY <3>1, NoElements DEF Recorded, Recording, Steps
    <3>3. Started(execution[c]) \in ToSet(inbox[v])
      BY <2>3, <3>2 DEF HeardFrom
    <3>4. QED
      BY <2>1, <3>1, <3>3 DEF HeardFrom
  <2>4. \A d \in Calls : execution'[d] = e => HeardFrom(d, v)'
    BY <1>5, <1>6, <2>1, <2>2, <2>3 DEF Heard
  <2>5. QED
    BY <1>5, <2>1, <2>4 DEF Heard
<1>8. ASSUME NEW c \in Calls, Leaves(c)
      PROVE  Heard(v, e)'
  <2>1. /\ UNCHANGED <<inbox, rows>> /\ pc' = [pc EXCEPT ![c] = "idle"]
        /\ execution' = [execution EXCEPT ![c] = 0] /\ todo' = [todo EXCEPT ![c] = <<>>]
        /\ (pc[c] = "tellFinished" /\ todo[c] = <<>>) \/ pc[c] = "execute"
    BY <1>3, <1>8 DEF Leaves, Leave, Goto
  <2>2. \A d \in Calls : execution'[d] = e => HeardFrom(d, v)'
    <3>1. \A d \in Calls : execution'[d] = e => d # c
      BY <1>1, <1>2, <2>1
    <3>2. \A d \in Calls : d # c =>
             pc'[d] = pc[d] /\ execution'[d] = execution[d] /\ todo'[d] = todo[d]
      BY <2>1
    <3>3. QED
      BY <1>5, <1>6, <2>1, <3>1, <3>2 DEF Heard
  <2>3. CASE execution[c] = e
    <3>1. pc[c] = "tellFinished" /\ pc[c] \in Recorded /\ v \notin ToSet(todo[c])
      BY <1>4, <2>1, <2>3, NoElements DEF Recorded, Recording, Steps
    <3>2. HeardFrom(c, v)
      BY <1>5, <2>1, <2>3 DEF Heard
    <3>3. {Started(e), Finished(e)} \subseteq ToSet(inbox[v])
      BY <2>3, <3>1, <3>2 DEF HeardFrom
    <3>4. QED
      BY <2>1, <2>2, <3>3 DEF Heard, Started, Finished
  <2>4. CASE execution[c] # e
    <3>1. (\A d \in Calls : execution'[d] # e) => \A d \in Calls : execution[d] # e
      BY <1>1, <2>1, <2>4
    <3>2. QED
      BY <1>5, <2>1, <2>2, <3>1 DEF Heard, Started, Finished
  <2>5. QED
    BY <2>3, <2>4
<1>9. ASSUME NEW c \in Calls, Insert(c)
      PROVE  Heard(v, e)'
  <2>1. /\ UNCHANGED <<inbox, todo>> /\ pc[c] = "insert" /\ pc' = [pc EXCEPT ![c] = "commitInsert"]
        /\ execution' = [execution EXCEPT ![c] = Len(rows) + 1]
    BY <1>9 DEF Insert, Goto, sockets
  <2>2. /\ DOMAIN rows' = 1 .. Len(rows) + 1 /\ rows'[Len(rows) + 1].finished = FALSE
        /\ \A f \in 1 .. Len(rows) : rows'[f] = rows[f]
    BY <1>9, InsertedRow
  <2>3. execution[c] = 0
    BY <2>1 DEF Owned, Recording
  <2>4. \A d \in Calls : d # c => pc'[d] = pc[d] /\ execution'[d] = execution[d] /\ todo'[d] = todo[d]
    BY <2>1
  <2>5. HeardFrom(c, v)'
    <3>1. pc'[c] = "commitInsert"
      BY <1>1, <2>1
    <3>2. QED
      BY <3>1 DEF HeardFrom, Recorded
  <2>6. CASE e \in DOMAIN rows
    <3>1. execution'[c] # e
      BY <1>1, <1>2, <2>1, <2>6
    <3>2. \A d \in Calls : execution'[d] = e => HeardFrom(d, v)'
      BY <1>5, <1>6, <2>1, <2>4, <2>6, <3>1 DEF Heard
    <3>3. (\A d \in Calls : execution'[d] # e) => \A d \in Calls : execution[d] # e
      BY <1>2, <2>3, <2>4, <2>6
    <3>4. rows'[e] = rows[e]
      BY <1>2, <2>2, <2>6
    <3>5. QED
      BY <1>5, <2>1, <2>6, <3>2, <3>3, <3>4 DEF Heard, Started, Finished
  <2>7. CASE e = Len(rows) + 1
    <3>1. \A d \in Calls : d # c => execution[d] # e
      BY <1>2, <2>7 DEF Owned
    <3>2. QED
      BY <2>2, <2>4, <2>5, <2>7, <3>1 DEF Heard
  <2>8. QED
    BY <1>2, <2>2, <2>6, <2>7
<1>10. ASSUME NEW c \in Calls, CommitInsert(c) \/ CommitUpdate(c)
      PROVE  Heard(v, e)'
  <2>1. UNCHANGED <<inbox, execution, rows>>
    BY <1>10 DEF CommitInsert, CommitUpdate, sockets
  <2>2. PICK order \in Seq(Viewers) : todo' = [todo EXCEPT ![c] = order] /\ ToSet(order) = registered
    BY <1>10, SnapshotFacts DEF CommitInsert, CommitUpdate
  <2>3. v \in ToSet(todo'[c]) /\ \A d \in Calls : d # c => todo'[d] = todo[d]
    BY <1>1, <2>2
  <2>4. /\ \/ pc[c] = "commitInsert" /\ pc'[c] = "tellStarted"
           \/ pc[c] = "commitUpdate" /\ pc'[c] = "tellFinished"
        /\ \A d \in Calls : d # c => pc'[d] = pc[d]
    BY <1>1, <1>10 DEF CommitInsert, CommitUpdate, Goto
  <2>5. ASSUME HeardFrom(c, v)
        PROVE  HeardFrom(c, v)'
    <3>1. CASE pc'[c] = "tellStarted"
      BY <2>3, <3>1 DEF HeardFrom
    <3>2. CASE pc[c] = "commitUpdate" /\ pc'[c] = "tellFinished"
      <4>1. Started(execution[c]) \in ToSet(inbox[v])
        BY <2>5, <3>2 DEF HeardFrom, Recorded, Recording, Steps
      <4>2. QED
        BY <2>1, <2>3, <3>2, <4>1 DEF HeardFrom
    <3>3. QED
      BY <2>4, <3>1, <3>2
  <2>6. \A d \in Calls : execution'[d] = e => HeardFrom(d, v)'
    BY <1>5, <1>6, <2>1, <2>3, <2>4, <2>5 DEF Heard
  <2>7. QED
    BY <1>5, <2>1, <2>6 DEF Heard
<1>11. ASSUME NEW c \in Calls, Update(c)
      PROVE  Heard(v, e)'
  <2>1. /\ UNCHANGED <<inbox, execution, todo>> /\ pc[c] = "update"
        /\ pc' = [pc EXCEPT ![c] = "commitUpdate"]
    BY <1>11 DEF Update, Goto, sockets
  <2>2. execution[c] \in DOMAIN rows /\ pc[c] \in Recorded
    BY <2>1 DEF Owned, Recorded, Recording, Steps
  <2>3. DOMAIN rows' = DOMAIN rows /\ \A f \in DOMAIN rows : f # execution[c] => rows'[f] = rows[f]
    BY <1>11, <2>2, UpdatedRow
  <2>4. ASSUME HeardFrom(c, v)
        PROVE  HeardFrom(c, v)'
    <3>1. Started(execution[c]) \in ToSet(inbox[v]) /\ pc'[c] = "commitUpdate"
      BY <1>1, <2>1, <2>2, <2>4 DEF HeardFrom
    <3>2. QED
      BY <2>1, <3>1 DEF HeardFrom
  <2>5. \A d \in Calls : d # c => pc'[d] = pc[d]
    BY <2>1
  <2>6. \A d \in Calls : execution'[d] = e => HeardFrom(d, v)'
    BY <1>5, <1>6, <2>1, <2>3, <2>4, <2>5 DEF Heard
  <2>7. (\A d \in Calls : execution'[d] # e) => rows'[e] = rows[e]
    BY <2>1, <2>3
  <2>8. QED
    BY <1>5, <2>1, <2>3, <2>6, <2>7 DEF Heard, Started, Finished
<1>12. ASSUME NEW c \in Calls, Tell(c)
      PROVE  Heard(v, e)'
  <2>1. UNCHANGED <<pc, execution, rows>> /\ Telling(c)
    BY <1>12 DEF Tell, store
  <2>2. PICK w \in Viewers :
          /\ w \in ToSet(todo[c]) /\ todo' = [todo EXCEPT ![c] = Tail(@)]
          /\ ToSet(Tail(todo[c])) = ToSet(todo[c]) \ {w}
          /\ \/ /\ inbox' = [inbox EXCEPT ![w] = Append(@, News(c))]
                /\ ToSet(Append(inbox[w], News(c))) = ToSet(inbox[w]) \cup {News(c)}
             \/ UNCHANGED inbox /\ link[w] = "dead"
    BY <1>12, TellFacts
  <2>3. /\ ToSet(inbox[v]) \subseteq ToSet(inbox'[v])
        /\ v = w => News(c) \in ToSet(inbox'[v])
        /\ v # w /\ v \in ToSet(todo[c]) => v \in ToSet(todo'[c])
        /\ \A d \in Calls : d # c => todo'[d] = todo[d]
    BY <1>1, <2>2 DEF Connected
  <2>4. ASSUME NEW d \in Calls, d # c, HeardFrom(d, v)
        PROVE  HeardFrom(d, v)'
    BY <2>1, <2>3, <2>4 DEF HeardFrom, Recorded
  <2>5. ASSUME HeardFrom(c, v)
        PROVE  HeardFrom(c, v)'
    <3>1. /\ pc[c] = "tellStarted" => News(c) = Started(execution[c])
          /\ pc[c] = "tellFinished" => News(c) = Finished(execution[c])
      BY <2>1, NewsFacts
    <3>2. QED
      BY <2>1, <2>3, <2>5, <3>1 DEF HeardFrom, Recorded
  <2>6. \A d \in Calls : execution'[d] = e => HeardFrom(d, v)'
    BY <1>5, <2>1, <2>4, <2>5 DEF Heard
  <2>7. QED
    BY <1>5, <2>1, <2>3, <2>6 DEF Heard, Started, Finished
<1>13. CASE Apart
  <2>1. UNCHANGED <<pc, execution, todo, rows, inbox>>
    BY <1>13 DEF Apart
  <2>2. \A d \in Calls : execution'[d] = e => HeardFrom(d, v)'
    BY <1>5, <1>6, <2>1 DEF Heard
  <2>3. QED
    BY <1>5, <2>1, <2>2 DEF Heard
<1>14. QED
  BY <1>7, <1>8, <1>9, <1>10, <1>11, <1>12, <1>13, Kinds

LEMMA DeliveredStep ==
    ASSUME Faults \cap {"write", "cancel"} = {}, Inv, Delivered, [Next]_vars
    PROVE  Delivered'
<1> SUFFICES ASSUME NEW v \in Viewers, Connected(v)'
             PROVE  v \in registered' /\ \A e \in DOMAIN rows' : joined'[v] < e => Heard(v, e)'
  BY DEF Delivered
<1>1. v \in registered' /\ ~Crash
  BY ConnectedStep
<1>2. CASE Connected(v) /\ joined'[v] = joined[v]
  <2>1. v \in registered /\ \A e \in DOMAIN rows : joined[v] < e => Heard(v, e)
    BY <1>2 DEF Delivered
  <2>2. QED
    BY <1>1, <1>2, <2>1, HeardStep
<1>3. CASE joined'[v] = Len(rows) /\ rows' = rows
  <2>1. \A e \in DOMAIN rows : ~(Len(rows) < e)
    BY RowFacts DEF Inv
  <2>2. QED
    BY <1>1, <1>3, <2>1
<1>4. QED
  BY <1>2, <1>3, ConnectedStep

-----------------------------------------------------------------------------
(* Every query is in the trace.                                            *)

LEMMA BalancedStep ==
    ASSUME Faults \cap {"query", "write", "cancel"} = {}, Inv, Balanced, [Next]_vars
    PROVE  Balanced'
<1> USE DEF Inv
<1> DEFINE A == Answered  n == Len(rows)
<1>1. /\ pc \in [Calls -> Steps] /\ execution \in [Calls -> 0 .. MaxQueries]
      /\ n \in Nat /\ DOMAIN rows = 1 .. n /\ executed \in Nat /\ crashes \in Nat
  BY RowFacts DEF Typed, TypeOK
<1>2. IsFiniteSet(A) /\ Cardinality(A) \in Nat
  BY FeedAssumption, FS_Subset, FS_CardinalityType DEF Answered
<1>3. \A c \in Calls : pc[c] \in Recording => execution[c] \in 1 .. n
  BY <1>1 DEF Owned
<1>4. ~("query" \in Faults) /\ ~("write" \in Faults) /\ ~("cancel" \in Faults)
  OBVIOUS
<1>5. ASSUME NEW c \in Calls, Moves(c)
      PROVE  Balanced'
  <2>1. UNCHANGED <<execution, rows, crashes>>
    BY <1>5 DEF Moves
  <2>2. \A d \in Calls : Finishing(d) => Finishing(d)'
    BY <1>1, <1>5 DEF Moves, Goto, Finishing
  <2>3. CASE pc[c] = "execute"
    <3>1. Answered' = A \cup {c} /\ c \notin A /\ executed' = executed + 1
      BY <1>1, <1>5, <2>3 DEF Moves, Goto, Answered
    <3>2. Cardinality(A \cup {c}) = Cardinality(A) + 1
      BY <1>2, <3>1, FS_AddElement
    <3>3. QED
      BY <1>1, <1>2, <2>1, <2>2, <3>1, <3>2 DEF Balanced
  <2>4. CASE pc[c] # "execute"
    <3>1. Answered' = A /\ executed' = executed
      BY <1>1, <1>5, <2>4 DEF Moves, Goto, Answered
    <3>2. QED
      BY <2>1, <2>2, <3>1 DEF Balanced
  <2>5. QED
    BY <2>3, <2>4
<1>6. ASSUME NEW c \in Calls, Leaves(c)
      PROVE  Balanced'
  <2>1. /\ pc[c] = "tellFinished" /\ UNCHANGED <<rows, crashes, executed>>
        /\ pc' = [pc EXCEPT ![c] = "idle"] /\ execution' = [execution EXCEPT ![c] = 0]
    BY <1>4, <1>6 DEF Leaves, Leave, Goto
  <2>2. Answered' = A
    BY <1>1, <2>1 DEF Answered
  <2>3. \A d \in Calls : Finishing(d) => Finishing(d)' /\ execution'[d] = execution[d]
    BY <1>1, <2>1 DEF Finishing
  <2>4. QED
    BY <2>1, <2>2, <2>3 DEF Balanced
<1>7. ASSUME NEW c \in Calls, Insert(c)
      PROVE  Balanced'
  <2>1. /\ pc[c] = "insert" /\ pc' = [pc EXCEPT ![c] = "commitInsert"]
        /\ execution' = [execution EXCEPT ![c] = n + 1] /\ UNCHANGED <<executed, crashes>>
    BY <1>7 DEF Insert, Goto, bounds
  <2>2. /\ DOMAIN rows' = 1 .. n + 1 /\ Len(rows') = n + 1
        /\ \A f \in 1 .. n : rows'[f] = rows[f]
    BY <1>7, InsertedRow
  <2>3. Answered' = A \ {c} /\ c \in A
    BY <1>1, <2>1 DEF Answered
  <2>4. Cardinality(A \ {c}) = Cardinality(A) - 1
    BY <1>2, <2>3, FS_RemoveElement
  <2>5. \A d \in Calls : Finishing(d) => Finishing(d)' /\ execution'[d] = execution[d]
    BY <1>1, <2>1 DEF Finishing
  <2>6. Finishing(c)' /\ execution'[c] = n + 1
    BY <1>1, <2>1 DEF Finishing
  <2>7. \A f \in 1 .. n + 1 : f \in 1 .. n \/ f = n + 1
    BY <1>1
  <2>8. ASSUME crashes = 0, NEW f \in 1 .. n + 1
        PROVE  rows'[f].finished \/ \E d \in Calls : execution'[d] = f /\ Finishing(d)'
    BY <1>1, <2>2, <2>5, <2>6, <2>7, <2>8 DEF Balanced
  <2>9. crashes = 0 => executed' = Len(rows') + Cardinality(Answered')
    BY <1>1, <1>2, <2>1, <2>2, <2>3, <2>4 DEF Balanced
  <2>10. QED
    BY <2>1, <2>2, <2>8, <2>9 DEF Balanced
<1>8. ASSUME NEW c \in Calls, CommitInsert(c) \/ CommitUpdate(c) \/ Tell(c)
      PROVE  Balanced'
  <2>1. UNCHANGED <<rows, execution, executed, crashes>>
    BY <1>8 DEF CommitInsert, CommitUpdate, Tell, store, bounds
  <2>2. Answered' = A /\ \A d \in Calls : Finishing(d) => Finishing(d)'
    BY <1>1, <1>8 DEF CommitInsert, CommitUpdate, Tell, Telling, Goto, Answered, Finishing
  <2>3. QED
    BY <2>1, <2>2 DEF Balanced
<1>9. ASSUME NEW c \in Calls, Update(c)
      PROVE  Balanced'
  <2>1. /\ pc[c] = "update" /\ pc' = [pc EXCEPT ![c] = "commitUpdate"]
        /\ UNCHANGED <<execution, executed, crashes>>
    BY <1>9 DEF Update, Goto, bounds
  <2>2. execution[c] \in DOMAIN rows
    BY <2>1 DEF Owned, Recording, Steps
  <2>3. /\ Len(rows') = n /\ DOMAIN rows' = DOMAIN rows /\ rows'[execution[c]].finished
        /\ \A f \in DOMAIN rows : f # execution[c] => rows'[f] = rows[f]
    BY <1>9, <2>2, UpdatedRow
  <2>4. Answered' = A
    BY <1>1, <2>1 DEF Answered
  <2>5. \A d \in Calls : Finishing(d) /\ d # c => Finishing(d)'
    BY <1>1, <2>1 DEF Finishing
  <2>6. QED
    BY <2>1, <2>3, <2>4, <2>5 DEF Balanced
<1>10. CASE Crash
  <2>1. crashes' # 0
    BY <1>1, <1>10 DEF Crash
  <2>2. QED
    BY <2>1 DEF Balanced
<1>11. CASE Apart
  <2>1. UNCHANGED <<pc, execution, rows, executed, crashes>>
    BY <1>11 DEF Apart
  <2>2. Answered' = A /\ \A d \in Calls : Finishing(d)' = Finishing(d)
    BY <2>1 DEF Answered, Finishing
  <2>3. QED
    BY <2>1, <2>2 DEF Balanced
<1>12. QED
  BY <1>5, <1>6, <1>7, <1>8, <1>9, <1>10, <1>11, Kinds

-----------------------------------------------------------------------------
(* Theorems.                                                               *)

LEMMA Invariance == Spec => []Inv
<1>1. QED
  BY InvInit, InvStep, PTL DEF Spec

\* FeedInv: whatever fails and whenever the process dies, what a viewer has
\* been told of is on disk for good (core/trace.py:291-347).
THEOREM SeenIsKept == Spec => []FeedInv
<1>1. Inv => FeedInv
  BY DEF Inv, FeedInv
<1>2. QED
  BY <1>1, Invariance, PTL

\* FeedOrder: no viewer gets an event twice, or the start of an execution after
\* its end, however broadcasts overlap (web/ws.py:72-81).
THEOREM EventsAreInOrder == Spec => []FeedOrder
<1>1. Inv => FeedOrder
  BY DEF Inv
<1>2. QED
  BY <1>1, Invariance, PTL

\* NoGaps: if writes succeed and callers stay, a viewer that is still connected has
\* both events of every execution since it joined, whoever else stalls or
\* breaks, and whichever queries fail.
THEOREM NothingIsMissed ==
    ASSUME Faults \cap {"write", "cancel"} = {}
    PROVE  Spec => []NoGaps
<1>1. Init => Delivered
  BY DEF Init, Delivered, Connected
<1>2. Inv /\ Delivered /\ [Next]_vars => Delivered'
  BY DeliveredStep
<1>3. Inv /\ Delivered => NoGaps
  <2> SUFFICES ASSUME Inv, Delivered, NEW v \in registered, NEW e \in DOMAIN rows,
                      link[v] = "live", joined[v] < e, rows[e].finished,
                      \A c \in Calls : execution[c] # e
               PROVE  {Started(e), Finished(e)} \subseteq ToSet(inbox[v])
    BY DEF NoGaps
  <2>1. v \in Viewers /\ Connected(v)
    BY DEF Inv, TypeOK, Connected
  <2>2. Heard(v, e)
    BY <2>1 DEF Delivered
  <2>3. QED
    BY <2>2 DEF Heard
<1>4. QED
  BY <1>1, <1>2, <1>3, Invariance, PTL DEF Spec

\* OneExecutionPerQuery: until the process is restarted, if nothing fails, the
\* trace holds one execution per query, and each is finished once its call is
\* over, however the calls share the connection.
THEOREM QueriesAreTraced ==
    ASSUME Faults \cap {"query", "write", "cancel"} = {}
    PROVE  Spec => []OneExecutionPerQuery
<1>1. Init => Balanced
  <2> SUFFICES ASSUME Init PROVE Balanced
    OBVIOUS
  <2>1. Answered = {} /\ Cardinality({}) = 0
    BY FS_EmptySet DEF Init, Answered
  <2>2. rows = <<>> /\ executed = 0 /\ Len(rows) = 0 /\ DOMAIN rows = {}
    BY DEF Init
  <2>3. QED
    BY <2>1, <2>2 DEF Balanced
<1>2. Inv /\ Balanced /\ [Next]_vars => Balanced'
  BY BalancedStep
<1>3. Inv /\ Balanced => OneExecutionPerQuery
  <2> SUFFICES ASSUME Inv, Balanced, Quiet, crashes = 0
               PROVE  Len(rows) = executed /\ \A e \in DOMAIN rows : rows[e].finished
    BY DEF OneExecutionPerQuery
  <2>1. Answered = {} /\ Cardinality({}) = 0 /\ \A c \in Calls : ~Finishing(c)
    BY FS_EmptySet DEF Quiet, Answered, Finishing
  <2>2. Len(rows) \in Nat
    BY RowFacts DEF Inv
  <2>3. QED
    BY <2>1, <2>2 DEF Balanced
<1>4. QED
  BY <1>1, <1>2, <1>3, Invariance, PTL DEF Spec
=============================================================================
