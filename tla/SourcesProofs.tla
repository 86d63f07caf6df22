---------------------------- MODULE SourcesProofs ----------------------------
(***************************************************************************)
(* Proofs about a SQL source, for every driver, any number of calls and    *)
(* connections, and whatever statements are sent; and about an HTTP        *)
(* source, for any resources, calls and responses.                         *)
(***************************************************************************)
EXTENDS MCSources, FiniteSetTheorems, SequenceTheorems, WellFoundedInduction, TLAPS

-----------------------------------------------------------------------------
(* The inductive invariant.                                                *)

Outcomes == {None, "rows", "catalog", "healthy", "unhealthy", "NOT_CONNECTED", "WRITE_BLOCKED",
             "QUERY_FAILED", "CONNECTION_FAILED", "raw", "TIMEOUT"}

AnswerRow == [outcome : Outcomes, rows : Nat, columns : Nat, read : 0 .. MaxWrites \cup {None}]

\* TypeOK, of which Owners implies the last conjunct, and the type of the answers.
Typed ==
    /\ driver \in Drivers /\ attr \in BOOLEAN /\ pool \in {"open", "closing", "closed"}
    /\ session \in [Conns -> [readOnly : BOOLEAN, timeout : Nat, snapshot : 0 .. MaxWrites \cup {None}]]
    /\ owner \in [Conns -> Calls \cup {None}]
    /\ pc \in [Calls -> Holding \cup {"idle", "acquire", "reacquire", "done"}]
    /\ req \in [Calls -> Requests \cup {NoRequest}]
    /\ kind \in [Calls -> Kinds \cup {None}]
    /\ answer \in [Calls -> AnswerRow]
    /\ rows \in [Calls -> Nat]
    /\ version \in 0 .. MaxWrites /\ asof \in [Calls -> 0 .. MaxWrites]

\* A call that is at work has one connection, and no other call has any.
Owners ==
    \A c \in Calls :
        IF pc[c] \in Holding
        THEN \E x \in Conns : owner[x] = c /\ \A y \in Conns : owner[y] = c => y = x
        ELSE \A x \in Conns : owner[x] # c

\* The session under a statement is the one its own call has prepared.
Prepared ==
    \A x \in Conns, c \in Calls : owner[x] = c /\ pc[c] = "run" /\ kind[c] = "execute" =>
        /\ session[x].readOnly /\ session[x].timeout = req[c].timeout
        /\ session[x].snapshot = None

\* RowsAsAsked, of one call and a number of rows.
RightRows(c, n) ==
    /\ req[c].max # None => n = Least(Own(req[c].stmt), req[c].max)
    /\ req[c].max = None => n \in {Own(req[c].stmt), DefaultRows}

ReadsPresent(c) == answer[c].read \in Nat /\ answer[c].read >= asof[c]

\* What is known of a call on its way: an answer reads what was current since
\* the call began, and has the rows that were asked for.
CallOK(c) ==
    /\ pc[c] # "idle" => kind[c] \in Kinds /\ asof[c] <= version
    /\ pc[c] # "idle" /\ kind[c] = "execute" => req[c] \in Requests
    /\ pc[c] \in {"setup", "fetch", "reacquire", "prepare"} => kind[c] = "execute"
    /\ pc[c] # "done" => answer[c].rows = 0
    /\ pc[c] = "fetch" => ReadsPresent(c) /\ RightRows(c, Cut(rows[c], req[c].max))
    /\ pc[c] \in {"reacquire", "prepare"} => ReadsPresent(c) /\ RightRows(c, 0)
    /\ Answered(c) => ReadsPresent(c) /\ RightRows(c, answer[c].rows)

Underway == \A c \in Calls : CallOK(c)

Inv == Typed /\ Owners /\ Prepared /\ Underway /\ NothingWritten /\ ClosedPoolIsUnused

-----------------------------------------------------------------------------
(* Statements.                                                             *)

LEMMA RequestFacts ==
    ASSUME NEW r \in Requests
    PROVE  /\ r.max \in (Nat \ {0}) \cup {None} /\ r.timeout \in Nat
           /\ r.stmt.rows \in Nat /\ r.stmt.limit \in Nat \cup {None}
           /\ r.stmt.mentions \in BOOLEAN /\ (r.stmt.limit # None => r.stmt.mentions)
           /\ r.stmt \in Statement /\ None \notin Nat /\ DefaultRows \in Nat
<1>1. r \in Request /\ None \notin Nat /\ DefaultRows \in Nat
      /\ (r.stmt.limit # None => r.stmt.mentions)
  BY SqlAssumption
<1>2. r.stmt \in Statement /\ r.max \in (Nat \ {0}) \cup {None} /\ r.timeout \in Nat
  BY <1>1 DEF Request
<1>3. QED
  BY <1>1, <1>2 DEF Statement

\* Whether or not a LIMIT is added, an answer cut to max_rows has the rows the
\* statement selects as it was asked.
LEMMA LimitIsHarmless ==
    ASSUME NEW r \in Requests, NEW s, s = Sent(r.stmt, r.max), NEW n, n = Capped(s.rows, s.limit)
    PROVE  /\ s.writes = r.stmt.writes /\ n \in Nat
           /\ r.max # None => Cut(n, r.max) = Least(Own(r.stmt), r.max)
           /\ r.max = None => Cut(n, r.max) \in {Own(r.stmt), DefaultRows}
<1> DEFINE st == r.stmt  m == MaxRows(r.max)
<1>1. /\ r.max \in (Nat \ {0}) \cup {None} /\ st.rows \in Nat /\ st.limit \in Nat \cup {None}
      /\ (st.limit # None => st.mentions) /\ st \in Statement /\ None \notin Nat
      /\ DefaultRows \in Nat
  BY RequestFacts
<1>2. m \in Nat /\ (r.max \in Nat => m = r.max) /\ (r.max = None => m = DefaultRows)
  BY <1>1 DEF MaxRows
<1>3. CASE s = st
  BY <1>1, <1>3 DEF Capped, Cut, Own, Least
<1>4. CASE ~st.mentions /\ s = [st EXCEPT !.limit = m]
  <2>1. s.limit = m /\ s.rows = st.rows /\ s.writes = st.writes /\ st.limit = None
    BY <1>1, <1>4 DEF Statement
  <2>2. n = Least(st.rows, m) /\ Own(st) = st.rows
    BY <1>1, <1>2, <2>1 DEF Capped, Own
  <2>3. n \in Nat
    BY <1>1, <1>2, <2>2 DEF Least
  <2>4. r.max # None => Cut(n, r.max) = Least(Own(st), r.max)
    BY <1>1, <1>2, <2>2, <2>3 DEF Cut, Capped, Least
  <2>5. r.max = None => Cut(n, r.max) \in {Own(st), DefaultRows}
    BY <1>2, <2>2 DEF Cut, Capped, Least
  <2>6. QED
    BY <2>1, <2>3, <2>4, <2>5
<1>5. QED
  BY <1>3, <1>4 DEF Sent

-----------------------------------------------------------------------------
(* Connections.                                                            *)

LEMMA UsingFacts ==
    ASSUME Inv, NEW c \in Calls, pc[c] \in Holding
    PROVE  /\ Using(c) \in Conns /\ owner[Using(c)] = c
           /\ \A y \in Conns : owner[y] = c => y = Using(c)
<1>1. PICK x \in Conns : owner[x] = c /\ \A y \in Conns : owner[y] = c => y = x
  BY DEF Inv, Owners
<1>2. Using(c) \in Conns /\ owner[Using(c)] = c
  BY <1>1 DEF Using
<1>3. QED
  BY <1>1, <1>2

\* From Owners, the count of TypeOK.
LEMMA HeldFacts ==
    ASSUME Inv, NEW c \in Calls
    PROVE  Cardinality(Held(c)) = IF pc[c] \in Holding THEN 1 ELSE 0
<1>1. CASE pc[c] \in Holding
  <2>1. Held(c) = {Using(c)}
    BY <1>1, UsingFacts DEF Held
  <2>2. Cardinality({Using(c)}) = 1
    BY FS_Singleton
  <2>3. QED
    BY <1>1, <2>1, <2>2
<1>2. CASE pc[c] \notin Holding
  <2>1. Held(c) = {}
    BY <1>2 DEF Held, Inv, Owners
  <2>2. QED
    BY <1>2, <2>1, FS_EmptySet
<1>3. QED
  BY <1>1, <1>2

-----------------------------------------------------------------------------
(* Kinds of steps.                                                         *)

\* A call returns its connection, to go on without one or with its answer.
GivesBack(c) ==
    /\ pc[c] \in Holding
    /\ \E sound \in BOOLEAN : Return(Using(c), sound)
    /\ \/ /\ pc[c] = "fetch" /\ rows[c] = 0
          /\ pc' = [pc EXCEPT ![c] = "reacquire"] /\ UNCHANGED answer
       \/ \E a \in AnswerRow :
            /\ Done(c, a)
            /\ \/ a.outcome # "rows"
               \/ pc[c] = "fetch" /\ a.read = answer[c].read /\ a.rows = Cut(rows[c], req[c].max)
               \/ pc[c] = "prepare" /\ a.read = answer[c].read /\ a.rows = answer[c].rows
    /\ UNCHANGED <<source, req, kind, rows, version, asof, written>>

\* A call that has no connection is answered.
Ends(c) ==
    /\ pc[c] \in {"acquire", "reacquire"}
    /\ \E a \in AnswerRow :
         /\ Done(c, a)
         /\ \/ a.outcome # "rows"
            \/ pc[c] = "reacquire" /\ a.read = answer[c].read /\ a.rows = answer[c].rows
    /\ UNCHANGED <<source, session, owner, req, kind, rows, version, asof, written>>

LEMMA RaisedFacts ==
    ASSUME Inv, NEW k, NEW err
    PROVE  Raised(k, err) \in Outcomes \ {"rows"}
<1>1. driver \in {"mysql", "postgresql"}
  BY SqlAssumption DEF Inv, Typed
<1>2. CASE k = "health_check"
  BY <1>2 DEF Raised, Outcomes
<1>3. CASE k # "health_check" /\ driver = "mysql" /\ k = "execute"
  BY <1>3 DEF Raised, Outcomes
<1>4. CASE k # "health_check" /\ driver = "mysql" /\ k # "execute"
  BY <1>4 DEF Raised, Outcomes
<1>5. CASE k # "health_check" /\ driver = "postgresql"
  BY <1>5 DEF Raised, Outcomes
<1>6. QED
  BY <1>1, <1>2, <1>3, <1>4, <1>5

LEMMA FailureIsAnswer ==
    ASSUME NEW code \in Outcomes \ {"rows"}
    PROVE  /\ [NoAnswer EXCEPT !.outcome = code] \in AnswerRow
           /\ [NoAnswer EXCEPT !.outcome = code].outcome # "rows"
           /\ [NoAnswer EXCEPT !.outcome = code].rows = 0
BY SqlAssumption DEF NoAnswer, AnswerRow

LEMMA CutFacts ==
    ASSUME Inv, NEW c \in Calls, pc[c] = "fetch"
    PROVE  /\ Cut(rows[c], req[c].max) \in Nat
           /\ rows[c] = 0 => Cut(rows[c], req[c].max) = 0
<1>1. req[c] \in Requests /\ rows[c] \in Nat
  BY DEF Inv, Typed, Underway, CallOK
<1>2. req[c].max \in Nat \cup {None}
  BY <1>1, RequestFacts
<1>3. QED
  BY <1>1, <1>2 DEF Cut, Capped, Least

LEMMA GivingBack ==
    ASSUME Inv, NEW c \in Calls,
           \/ Fetch(c) \/ Prepare(c) \/ RunOther(c) \/ StatementFails(c) \/ WriteRefused(c) \/ TimesOut(c)
    PROVE  GivesBack(c)
<1>1. answer[c] \in AnswerRow /\ driver \in {"mysql", "postgresql"} /\ 0 \in Nat /\ 1 \in Nat
  BY SqlAssumption DEF Inv, Typed
<1>2. ASSUME NEW code \in Outcomes \ {"rows"}, Fails(c, code)
      PROVE  \E a \in AnswerRow : Done(c, a) /\ a.outcome # "rows"
  BY <1>2, FailureIsAnswer DEF Fails
<1>3. CASE Fetch(c)
  <2>1. /\ pc[c] = "fetch" /\ Return(Using(c), TRUE)
        /\ UNCHANGED <<source, req, kind, rows, version, asof, written>>
    BY <1>3 DEF Fetch
  <2>2. Cut(rows[c], req[c].max) \in Nat
    BY <2>1, CutFacts
  <2>3. CASE rows[c] = 0 /\ pc' = [pc EXCEPT ![c] = "reacquire"] /\ UNCHANGED answer
    BY <2>1, <2>3 DEF GivesBack, Holding
  <2>4. ASSUME NEW n \in {0, 1},
               Done(c, [answer[c] EXCEPT !.outcome = "rows", !.rows = Cut(rows[c], req[c].max),
                                         !.columns = n])
        PROVE  GivesBack(c)
    <3> DEFINE a == [answer[c] EXCEPT !.outcome = "rows", !.rows = Cut(rows[c], req[c].max),
                                      !.columns = n]
    <3>1. a \in AnswerRow /\ a.read = answer[c].read /\ a.rows = Cut(rows[c], req[c].max)
      BY <1>1, <2>2 DEF AnswerRow, Outcomes
    <3>2. Done(c, a)
      BY <2>4
    <3> HIDE DEF a
    <3>3. QED
      BY <2>1, <3>1, <3>2 DEF GivesBack, Holding
  <2>5. QED
    BY <1>3, <2>3, <2>4 DEF Fetch
<1>4. CASE Prepare(c)
  <2>1. PICK ok \in BOOLEAN :
          /\ pc[c] = "prepare" /\ Return(Using(c), ok)
          /\ Done(c, [answer[c] EXCEPT !.outcome = "rows", !.columns = IF ok THEN 1 ELSE 0])
          /\ UNCHANGED <<source, req, kind, rows, version, asof, written>>
    BY <1>4 DEF Prepare
  <2> DEFINE a == [answer[c] EXCEPT !.outcome = "rows", !.columns = IF ok THEN 1 ELSE 0]
  <2>2. a \in AnswerRow /\ a.read = answer[c].read /\ a.rows = answer[c].rows
    BY <1>1 DEF AnswerRow, Outcomes
  <2>3. Done(c, a)
    BY <2>1
  <2> HIDE DEF a
  <2>4. QED
    BY <2>1, <2>2, <2>3 DEF GivesBack, Holding
<1>5. CASE RunOther(c)
  <2>1. /\ pc[c] = "run" /\ Return(Using(c), TRUE)
        /\ UNCHANGED <<source, req, kind, rows, version, asof, written>>
    BY <1>5 DEF RunOther
  <2>2. CASE Fails(c, "healthy")
    <3>1. \E a \in AnswerRow : Done(c, a) /\ a.outcome # "rows"
      BY <1>2, <2>2 DEF Outcomes
    <3>2. QED
      BY <2>1, <3>1 DEF GivesBack, Holding
  <2>3. CASE Done(c, [NoAnswer EXCEPT !.outcome = "catalog", !.rows = CatalogRows])
    <3> DEFINE a == [NoAnswer EXCEPT !.outcome = "catalog", !.rows = CatalogRows]
    <3>1. CatalogRows \in Nat
      BY SqlAssumption DEF CatalogRows, Least
    <3>2. a \in AnswerRow /\ a.outcome # "rows"
      BY <3>1 DEF NoAnswer, AnswerRow, Outcomes
    <3>3. Done(c, a)
      BY <2>3
    <3> HIDE DEF a
    <3>4. QED
      BY <2>1, <3>2, <3>3 DEF GivesBack, Holding
  <2>4. QED
    BY <1>5, <2>2, <2>3 DEF RunOther
<1>6. CASE StatementFails(c)
  <2>1. PICK err \in Errors, sound \in BOOLEAN :
          /\ pc[c] \in Holding /\ Return(Using(c), sound) /\ Fails(c, Raised(kind[c], err))
          /\ UNCHANGED <<source, req, kind, rows, version, asof, written>>
    BY <1>6 DEF StatementFails, Holding
  <2>2. \E a \in AnswerRow : Done(c, a) /\ a.outcome # "rows"
    BY <1>2, <2>1, RaisedFacts
  <2>3. QED
    BY <2>1, <2>2 DEF GivesBack
<1>7. CASE WriteRefused(c) \/ TimesOut(c)
  <2>1. PICK code \in Outcomes \ {"rows"}, sound \in BOOLEAN :
          /\ pc[c] \in Holding /\ Return(Using(c), sound) /\ Fails(c, code)
          /\ UNCHANGED <<source, req, kind, rows, version, asof, written>>
    BY <1>7 DEF WriteRefused, TimesOut, Holding, Outcomes
  <2>2. \E a \in AnswerRow : Done(c, a) /\ a.outcome # "rows"
    BY <1>2, <2>1
  <2>3. QED
    BY <2>1, <2>2 DEF GivesBack
<1>8. QED
  BY <1>3, <1>4, <1>5, <1>6, <1>7

LEMMA Ending ==
    ASSUME Inv, NEW c \in Calls, AcquireFails(c) \/ ReacquireFails(c)
    PROVE  Ends(c)
<1>1. answer[c] \in AnswerRow
  BY DEF Inv, Typed
<1>2. CASE AcquireFails(c)
  <2>1. [NoAnswer EXCEPT !.outcome = Raised(kind[c], "other")] \in AnswerRow
        /\ [NoAnswer EXCEPT !.outcome = Raised(kind[c], "other")].outcome # "rows"
    BY RaisedFacts, FailureIsAnswer
  <2>2. QED
    BY <1>2, <2>1 DEF AcquireFails, Ends, Fails
<1>3. CASE ReacquireFails(c)
  <2> DEFINE a == [answer[c] EXCEPT !.outcome = "rows"]
  <2>1. a \in AnswerRow /\ a.read = answer[c].read /\ a.rows = answer[c].rows
    BY <1>1 DEF AnswerRow, Outcomes
  <2>2. Done(c, a) /\ pc[c] = "reacquire"
        /\ UNCHANGED <<source, session, owner, req, kind, rows, version, asof, written>>
    BY <1>3 DEF ReacquireFails
  <2> HIDE DEF a
  <2>3. QED
    BY <2>1, <2>2 DEF Ends
<1>4. QED
  BY <1>2, <1>3

-----------------------------------------------------------------------------
(* Steps.                                                                  *)

\* A call nothing happens to, while the database may change.
LEMMA CallKeeps ==
    ASSUME Inv, NEW c \in Calls, version' >= version, version' \in Nat,
           pc'[c] = pc[c], kind'[c] = kind[c], asof'[c] = asof[c], req'[c] = req[c],
           answer'[c] = answer[c], rows'[c] = rows[c]
    PROVE  CallOK(c)'
<1>1. CallOK(c) /\ asof[c] \in Nat /\ version \in Nat
  BY SqlAssumption DEF Inv, Underway, Typed
<1>2. /\ ReadsPresent(c)' = ReadsPresent(c) /\ Answered(c)' = Answered(c)
      /\ \A n : RightRows(c, n)' = RightRows(c, n)
  BY DEF ReadsPresent, Answered, RightRows
<1>3. asof[c] <= version => asof[c] <= version'
  BY <1>1
<1>4. RightRows(c, 0)' = RightRows(c, 0)
  BY DEF RightRows
<1>5. RightRows(c, Cut(rows[c], req[c].max))' = RightRows(c, Cut(rows[c], req[c].max))
  BY DEF RightRows
<1>6. RightRows(c, answer[c].rows)' = RightRows(c, answer[c].rows)
  BY DEF RightRows
<1>7. QED
  BY <1>1, <1>2, <1>3, <1>4, <1>5, <1>6 DEF CallOK

LEMMA TypeFacts ==
    ASSUME Inv
    PROVE  /\ driver \in {"mysql", "postgresql"}
           /\ session \in [Conns -> [readOnly : BOOLEAN, timeout : Nat,
                                     snapshot : 0 .. MaxWrites \cup {None}]]
           /\ owner \in [Conns -> Calls \cup {None}] /\ None \notin Calls
           /\ pc \in [Calls -> Holding \cup {"idle", "acquire", "reacquire", "done"}]
           /\ req \in [Calls -> Requests \cup {NoRequest}]
           /\ kind \in [Calls -> Kinds \cup {None}] /\ None \notin Kinds
           /\ answer \in [Calls -> AnswerRow]
           /\ rows \in [Calls -> Nat] /\ asof \in [Calls -> 0 .. MaxWrites]
           /\ version \in Nat /\ MaxWrites \in Nat /\ None \notin Nat
BY SqlAssumption DEF Inv, Typed

LEMMA BeginStep ==
    ASSUME Inv, NEW c \in Calls, NEW k \in Kinds, NEW r \in Requests \cup {NoRequest}, Begin(c, k, r)
    PROVE  Inv'
<1> USE TypeFacts
<1>1. /\ pc[c] = "idle" /\ kind' = [kind EXCEPT ![c] = k] /\ req' = [req EXCEPT ![c] = r]
      /\ asof' = [asof EXCEPT ![c] = version]
      /\ UNCHANGED <<driver, attr, pool, session, owner, rows, version, written>>
      /\ k = "execute" => r \in Requests
  BY DEF Begin, source
<1>2. \/ pc' = [pc EXCEPT ![c] = "acquire"] /\ UNCHANGED answer
      \/ \E code \in Outcomes \ {"rows"} : Fails(c, code)
  BY RaisedFacts DEF Begin, Outcomes
<1>3. \/ pc' = [pc EXCEPT ![c] = "acquire"] /\ UNCHANGED answer
      \/ \E a \in AnswerRow : /\ pc' = [pc EXCEPT ![c] = "done"] /\ answer' = [answer EXCEPT ![c] = a]
                              /\ a.outcome # "rows" /\ a.rows = 0
  BY <1>2, FailureIsAnswer DEF Fails, Done
<1>4. pc'[c] \in {"acquire", "done"} /\ \A d \in Calls : d # c =>
         /\ pc'[d] = pc[d] /\ kind'[d] = kind[d] /\ req'[d] = req[d] /\ asof'[d] = asof[d]
         /\ answer'[d] = answer[d]
  BY <1>1, <1>3
<1>5. Typed'
  <2>1. pc' \in [Calls -> Holding \cup {"idle", "acquire", "reacquire", "done"}]
        /\ answer' \in [Calls -> AnswerRow]
    BY <1>3
  <2>2. version \in 0 .. MaxWrites
    BY DEF Inv, Typed
  <2>3. /\ req' \in [Calls -> Requests \cup {NoRequest}] /\ kind' \in [Calls -> Kinds \cup {None}]
        /\ asof' \in [Calls -> 0 .. MaxWrites]
    BY <1>1, <2>2
  <2>4. QED
    BY <1>1, <2>1, <2>3 DEF Inv, Typed
<1>6. Owners'
  BY <1>1, <1>4 DEF Inv, Owners, Holding
<1>7. Prepared'
  <2>1. \A d \in Calls : pc'[d] = "run" => d # c
    BY <1>4
  <2>2. QED
    BY <1>1, <1>4, <2>1 DEF Inv, Prepared
<1>8. CallOK(c)'
  <2>1. kind'[c] \in Kinds /\ asof'[c] <= version' /\ (kind'[c] = "execute" => req'[c] \in Requests)
    BY <1>1
  <2>2. answer[c].rows = 0
    BY <1>1 DEF Inv, Underway, CallOK
  <2>3. pc'[c] # "done" => answer'[c].rows = 0
    BY <1>3, <2>2
  <2>4. ~Answered(c)'
    BY <1>3 DEF Answered
  <2>5. QED
    BY <1>4, <2>1, <2>3, <2>4 DEF CallOK
<1>9. Underway'
  BY <1>1, <1>4, <1>8, CallKeeps DEF Underway
<1>10. QED
  BY <1>1, <1>5, <1>6, <1>7, <1>9 DEF Inv, NothingWritten, ClosedPoolIsUnused

LEMMA AcquireStep ==
    ASSUME Inv, NEW c \in Calls, Acquire(c)
    PROVE  Inv'
<1> USE TypeFacts
<1>1. PICK x \in Conns : owner[x] = None /\ owner' = [owner EXCEPT ![x] = c]
  BY DEF Acquire
<1>2. PICK p \in {"prepare", "setup", "run"} :
        /\ pc' = [pc EXCEPT ![c] = p]
        /\ pc[c] = "reacquire" => p = "prepare"
        /\ pc[c] = "acquire" => p = IF kind[c] = "execute" THEN "setup" ELSE "run"
  BY DEF Acquire
<1>3. /\ pc[c] \in {"acquire", "reacquire"} /\ pool # "closed"
      /\ UNCHANGED <<driver, attr, pool, session, req, kind, answer, rows, version, asof, written>>
  BY DEF Acquire, source
<1>4. pc'[c] = p /\ p \in Holding /\ pc[c] \notin Holding /\ \A d \in Calls : d # c => pc'[d] = pc[d]
  BY <1>2, <1>3 DEF Holding
<1>5. Typed'
  BY <1>1, <1>2, <1>3, <1>4 DEF Inv, Typed
<1>6. Owners'
  <2>1. \A y \in Conns : owner[y] # c
    BY <1>4 DEF Inv, Owners
  <2>2. owner'[x] = c /\ \A y \in Conns : y # x => owner'[y] = owner[y]
    BY <1>1
  <2>3. \A d \in Calls : d # c => \A y \in Conns : (owner'[y] = d) <=> (owner[y] = d)
    BY <1>1, <2>2
  <2>4. QED
    BY <1>4, <2>1, <2>2, <2>3 DEF Inv, Owners
<1>7. Prepared'
  <2>1. kind[c] = "execute" => p # "run"
    BY <1>2, <1>3
  <2>2. \A y \in Conns, d \in Calls : owner'[y] = d /\ d # c => owner[y] = d
    BY <1>1
  <2>3. QED
    BY <1>3, <1>4, <2>1, <2>2 DEF Inv, Prepared
<1>8. CallOK(c)'
  <2>1. CallOK(c)
    BY DEF Inv, Underway
  <2>2. /\ RightRows(c, 0)' = RightRows(c, 0) /\ ReadsPresent(c)' = ReadsPresent(c)
        /\ ~Answered(c)'
    BY <1>3, <1>4 DEF RightRows, ReadsPresent, Answered
  <2>3. p = "prepare" => pc[c] = "reacquire"
    BY <1>2, <1>3
  <2>4. p = "setup" => kind[c] = "execute"
    BY <1>2, <1>3
  <2>5. QED
    BY <1>3, <1>4, <2>1, <2>2, <2>3, <2>4 DEF CallOK
<1>9. Underway'
  BY <1>3, <1>4, <1>8, CallKeeps DEF Underway
<1>10. QED
  BY <1>3, <1>5, <1>6, <1>7, <1>9 DEF Inv, NothingWritten, ClosedPoolIsUnused

LEMMA EndsStep ==
    ASSUME Inv, NEW c \in Calls, Ends(c)
    PROVE  Inv'
<1> USE TypeFacts
<1>1. PICK a \in AnswerRow :
        /\ pc' = [pc EXCEPT ![c] = "done"] /\ answer' = [answer EXCEPT ![c] = a]
        /\ \/ a.outcome # "rows"
           \/ pc[c] = "reacquire" /\ a.read = answer[c].read /\ a.rows = answer[c].rows
  BY DEF Ends, Done
<1>2. /\ pc[c] \in {"acquire", "reacquire"}
      /\ UNCHANGED <<driver, attr, pool, session, owner, req, kind, rows, version, asof, written>>
  BY DEF Ends, source
<1>3. /\ pc'[c] = "done" /\ pc[c] \notin Holding /\ answer'[c] = a
      /\ \A d \in Calls : d # c => pc'[d] = pc[d] /\ answer'[d] = answer[d]
  BY <1>1, <1>2 DEF Holding
<1>4. Typed'
  BY <1>1, <1>2 DEF Inv, Typed
<1>5. Owners'
  BY <1>2, <1>3 DEF Inv, Owners, Holding
<1>6. Prepared'
  <2>1. \A d \in Calls : pc'[d] = "run" => d # c
    BY <1>3
  <2>2. QED
    BY <1>2, <1>3, <2>1 DEF Inv, Prepared
<1>7. CallOK(c)'
  <2>1. CallOK(c)
    BY DEF Inv, Underway
  <2>2. a.outcome # "rows" => ~Answered(c)'
    BY <1>3 DEF Answered
  <2>3. ASSUME pc[c] = "reacquire", a.read = answer[c].read, a.rows = answer[c].rows
        PROVE  ReadsPresent(c)' /\ RightRows(c, answer[c].rows)'
    <3>1. ReadsPresent(c) /\ RightRows(c, 0) /\ answer[c].rows = 0
      BY <2>1, <2>3 DEF CallOK
    <3>2. ReadsPresent(c)'
      BY <1>2, <1>3, <2>3, <3>1 DEF ReadsPresent
    <3>3. answer'[c].rows = 0
      BY <1>3, <2>3, <3>1
    <3>4. RightRows(c, answer[c].rows)'
      BY <1>2, <3>1, <3>3 DEF RightRows
    <3>5. QED
      BY <3>2, <3>4
  <2>4. Answered(c)' => ReadsPresent(c)' /\ RightRows(c, answer[c].rows)'
    BY <1>1, <2>2, <2>3
  <2>5. QED
    BY <1>2, <1>3, <2>1, <2>4 DEF CallOK
<1>8. Underway'
  BY <1>2, <1>3, <1>7, CallKeeps DEF Underway
<1>9. QED
  BY <1>2, <1>4, <1>5, <1>6, <1>8 DEF Inv, NothingWritten, ClosedPoolIsUnused

\* A call is the one whose statement the new settings are for.
LEMMA SetupStep ==
    ASSUME Inv, NEW c \in Calls, Setup(c)
    PROVE  Inv'
<1> USE TypeFacts
<1> DEFINE x == Using(c)
           s == [readOnly |-> TRUE, timeout |-> req[c].timeout, snapshot |-> None]
<1>1. /\ pc[c] = "setup" /\ session' = [session EXCEPT ![x] = s] /\ pc' = [pc EXCEPT ![c] = "run"]
      /\ UNCHANGED <<driver, attr, pool, owner, req, kind, answer, rows, version, asof, written>>
  BY DEF Setup, source
<1>2. pc[c] \in Holding /\ x \in Conns /\ owner[x] = c /\ \A y \in Conns : owner[y] = c => y = x
  BY <1>1, UsingFacts DEF Holding
<1>3. kind[c] = "execute" /\ req[c] \in Requests
  BY <1>1 DEF Inv, Underway, CallOK
<1>4. /\ s \in [readOnly : BOOLEAN, timeout : Nat, snapshot : 0 .. MaxWrites \cup {None}]
      /\ s.readOnly /\ s.timeout = req[c].timeout /\ s.snapshot = None
  BY <1>3, RequestFacts
<1> HIDE DEF x, s
<1>5. pc'[c] = "run" /\ session'[x] = s /\ \A d \in Calls : d # c => pc'[d] = pc[d]
      /\ \A y \in Conns : y # x => session'[y] = session[y]
  BY <1>1, <1>2
<1>6. Typed'
  <2>1. session' \in [Conns -> [readOnly : BOOLEAN, timeout : Nat, snapshot : 0 .. MaxWrites \cup {None}]]
    BY <1>1, <1>4
  <2>2. pc' \in [Calls -> Holding \cup {"idle", "acquire", "reacquire", "done"}]
    BY <1>1 DEF Holding
  <2>3. QED
    BY <1>1, <2>1, <2>2 DEF Inv, Typed
<1>7. Owners'
  BY <1>1, <1>2, <1>5 DEF Inv, Owners, Holding
<1>8. Prepared'
  <2>1. SUFFICES ASSUME NEW y \in Conns, NEW d \in Calls,
                        owner'[y] = d, pc'[d] = "run", kind'[d] = "execute"
                 PROVE  /\ session'[y].readOnly /\ session'[y].timeout = req'[d].timeout
                        /\ session'[y].snapshot = None
    BY DEF Prepared
  <2>2. CASE d = c
    BY <1>1, <1>2, <1>4, <1>5, <2>1, <2>2
  <2>3. CASE d # c
    <3>1. y # x /\ owner[y] = d /\ pc[d] = "run" /\ kind[d] = "execute"
      BY <1>1, <1>2, <1>5, <2>1, <2>3
    <3>2. QED
      BY <1>1, <1>5, <3>1 DEF Inv, Prepared
  <2>4. QED
    BY <2>2, <2>3
<1>9. CallOK(c)'
  <2>1. CallOK(c)
    BY DEF Inv, Underway
  <2>2. ~Answered(c)'
    BY <1>5 DEF Answered
  <2>3. QED
    BY <1>1, <1>3, <1>5, <2>1, <2>2 DEF CallOK
<1>10. Underway'
  BY <1>1, <1>5, <1>9, CallKeeps DEF Underway
<1>11. QED
  BY <1>1, <1>6, <1>7, <1>8, <1>10 DEF Inv, NothingWritten, ClosedPoolIsUnused

\* The statement runs on the session its call prepared: it writes nothing, and
\* reads the present.
LEMMA RunStep ==
    ASSUME Inv, NEW c \in Calls, Run(c)
    PROVE  Inv'
<1> USE TypeFacts
<1> DEFINE x == Using(c)
           s == Sent(req[c].stmt, req[c].max)
           n == Capped(s.rows, s.limit)
           snap == IF driver = "mysql" THEN Reads(x) ELSE None
<1>1. /\ pc[c] = "run" /\ kind[c] = "execute"
      /\ s.writes => ~session[x].readOnly
      /\ written' = (written \/ s.writes)
      /\ session' = [session EXCEPT ![x].snapshot = snap]
      /\ answer' = [answer EXCEPT ![c].read = Reads(x)]
      /\ rows' = [rows EXCEPT ![c] = n]
      /\ pc' = [pc EXCEPT ![c] = "fetch"]
      /\ UNCHANGED <<driver, attr, pool, owner, req, kind, version, asof>>
  BY DEF Run, source
<1>2. pc[c] \in Holding /\ x \in Conns /\ owner[x] = c /\ \A y \in Conns : owner[y] = c => y = x
  BY <1>1, UsingFacts DEF Holding
<1>3. session[x].readOnly /\ session[x].snapshot = None
  BY <1>1, <1>2 DEF Inv, Prepared
<1>4. Reads(x) = version /\ version \in 0 .. MaxWrites /\ snap \in 0 .. MaxWrites \cup {None}
  BY <1>3 DEF Reads, Inv, Typed
<1>5. req[c] \in Requests
  BY <1>1 DEF Inv, Underway, CallOK
<1>6. /\ s.writes = req[c].stmt.writes /\ n \in Nat
      /\ req[c].max # None => Cut(n, req[c].max) = Least(Own(req[c].stmt), req[c].max)
      /\ req[c].max = None => Cut(n, req[c].max) \in {Own(req[c].stmt), DefaultRows}
  BY <1>5, LimitIsHarmless
<1>7. written' = written
  <2>1. written = FALSE
    BY <1>1, <1>3 DEF Inv, NothingWritten
  <2>2. QED
    BY <1>1, <1>3, <2>1
<1> HIDE DEF x, s, n, snap
<1>8. /\ pc'[c] = "fetch" /\ answer'[c] = [answer[c] EXCEPT !.read = version] /\ rows'[c] = n
      /\ \A d \in Calls : d # c => pc'[d] = pc[d] /\ answer'[d] = answer[d] /\ rows'[d] = rows[d]
      /\ \A y \in Conns : y # x => session'[y] = session[y]
  BY <1>1, <1>4
<1>9. /\ answer'[c].read = version /\ answer'[c].rows = answer[c].rows /\ answer'[c] \in AnswerRow
  BY <1>4, <1>8 DEF AnswerRow
<1>10. Typed'
  <2> DEFINE Session == [readOnly : BOOLEAN, timeout : Nat, snapshot : 0 .. MaxWrites \cup {None}]
  <2>1. session' \in [Conns -> Session]
    <3>1. session \in [Conns -> Session]
      BY DEF Inv, Typed
    <3>2. [session[x] EXCEPT !.snapshot = snap] \in Session
      BY <1>2, <1>4, <3>1
    <3>3. session' = [session EXCEPT ![x] = [session[x] EXCEPT !.snapshot = snap]]
      BY <1>1
    <3> HIDE DEF Session
    <3>4. QED
      BY <1>2, <3>1, <3>2, <3>3
  <2>2. pc' \in [Calls -> Holding \cup {"idle", "acquire", "reacquire", "done"}] /\ rows' \in [Calls -> Nat]
    BY <1>1, <1>6 DEF Holding
  <2>3. answer' \in [Calls -> AnswerRow]
    BY <1>1, <1>8, <1>9
  <2>4. QED
    BY <1>1, <2>1, <2>2, <2>3 DEF Inv, Typed
<1>11. Owners'
  BY <1>1, <1>2, <1>8 DEF Inv, Owners, Holding
<1>12. Prepared'
  <2>1. SUFFICES ASSUME NEW y \in Conns, NEW d \in Calls,
                        owner'[y] = d, pc'[d] = "run", kind'[d] = "execute"
                 PROVE  /\ session'[y].readOnly /\ session'[y].timeout = req'[d].timeout
                        /\ session'[y].snapshot = None
    BY DEF Prepared
  <2>2. d # c
    BY <1>8, <2>1
  <2>3. y # x /\ owner[y] = d /\ pc[d] = "run" /\ kind[d] = "execute"
    BY <1>1, <1>2, <1>8, <2>1, <2>2
  <2>4. QED
    BY <1>1, <1>8, <2>3 DEF Inv, Prepared
<1>13. CallOK(c)'
  <2>1. CallOK(c)
    BY DEF Inv, Underway
  <2>2. ~Answered(c)'
    BY <1>8 DEF Answered
  <2>3. ReadsPresent(c)'
    BY <1>1, <1>9, <2>1 DEF ReadsPresent, CallOK
  <2>4. RightRows(c, Cut(rows[c], req[c].max))'
    BY <1>1, <1>6, <1>8 DEF RightRows
  <2>5. QED
    BY <1>1, <1>5, <1>8, <1>9, <2>1, <2>2, <2>3, <2>4 DEF CallOK
<1>14. Underway'
  BY <1>1, <1>8, <1>13, CallKeeps DEF Underway
<1>15. QED
  BY <1>1, <1>7, <1>10, <1>11, <1>12, <1>14 DEF Inv, NothingWritten, ClosedPoolIsUnused

LEMMA GivesBackStep ==
    ASSUME Inv, NEW c \in Calls, GivesBack(c)
    PROVE  Inv'
<1> USE TypeFacts
<1> DEFINE x == Using(c)
<1>1. /\ pc[c] \in Holding
      /\ UNCHANGED <<driver, attr, pool, req, kind, rows, version, asof, written>>
  BY DEF GivesBack, source
<1>2. x \in Conns /\ owner[x] = c /\ \A y \in Conns : owner[y] = c => y = x
  BY <1>1, UsingFacts
<1>3. /\ owner' = [owner EXCEPT ![x] = None]
      /\ session' = [session EXCEPT ![x] = Fresh] \/ UNCHANGED session
  BY DEF GivesBack, Return
<1>4. PICK p \in {"reacquire", "done"} : pc' = [pc EXCEPT ![c] = p]
  BY DEF GivesBack, Done
<1>5. \/ p = "reacquire" /\ pc[c] = "fetch" /\ rows[c] = 0 /\ UNCHANGED answer
      \/ p = "done" /\ \E a \in AnswerRow :
            /\ answer' = [answer EXCEPT ![c] = a]
            /\ \/ a.outcome # "rows"
               \/ pc[c] = "fetch" /\ a.read = answer[c].read /\ a.rows = Cut(rows[c], req[c].max)
               \/ pc[c] = "prepare" /\ a.read = answer[c].read /\ a.rows = answer[c].rows
  <2>1. pc'[c] = p
    BY <1>4
  <2>2. CASE pc' = [pc EXCEPT ![c] = "reacquire"]
    BY <2>1, <2>2, <1>4 DEF GivesBack, Done
  <2>3. CASE pc' = [pc EXCEPT ![c] = "done"]
    BY <2>1, <2>3, <1>4 DEF GivesBack, Done
  <2>4. QED
    BY <1>4, <2>2, <2>3
<1> HIDE DEF x
<1>6. /\ pc'[c] = p /\ p \notin Holding /\ owner'[x] = None
      /\ \A d \in Calls : d # c => pc'[d] = pc[d] /\ answer'[d] = answer[d]
      /\ \A y \in Conns : y # x => owner'[y] = owner[y] /\ session'[y] = session[y]
  BY <1>2, <1>3, <1>4, <1>5 DEF Holding
<1>7. Typed'
  <2>1. Fresh \in [readOnly : BOOLEAN, timeout : Nat, snapshot : 0 .. MaxWrites \cup {None}]
    BY DEF Fresh
  <2>2. session' \in [Conns -> [readOnly : BOOLEAN, timeout : Nat, snapshot : 0 .. MaxWrites \cup {None}]]
    BY <1>3, <2>1
  <2>3. pc' \in [Calls -> Holding \cup {"idle", "acquire", "reacquire", "done"}]
        /\ owner' \in [Conns -> Calls \cup {None}]
    BY <1>3, <1>4
  <2>4. answer' \in [Calls -> AnswerRow]
    BY <1>5
  <2>5. QED
    BY <1>1, <2>2, <2>3, <2>4 DEF Inv, Typed
<1>8. Owners'
  <2>1. \A y \in Conns : owner'[y] # c
    BY <1>2, <1>6
  <2>2. \A d \in Calls : d # c => \A y \in Conns : (owner'[y] = d) <=> (owner[y] = d)
    BY <1>2, <1>6
  <2>3. QED
    BY <1>6, <2>1, <2>2 DEF Inv, Owners
<1>9. Prepared'
  <2>1. SUFFICES ASSUME NEW y \in Conns, NEW d \in Calls,
                        owner'[y] = d, pc'[d] = "run", kind'[d] = "execute"
                 PROVE  /\ session'[y].readOnly /\ session'[y].timeout = req'[d].timeout
                        /\ session'[y].snapshot = None
    BY DEF Prepared
  <2>2. d # c /\ y # x
    BY <1>6, <2>1 DEF Holding
  <2>3. owner[y] = d /\ pc[d] = "run" /\ kind[d] = "execute"
    BY <1>1, <1>6, <2>1, <2>2
  <2>4. QED
    BY <1>1, <1>6, <2>2, <2>3 DEF Inv, Prepared
<1>10. CallOK(c)'
  <2>1. CallOK(c) /\ pc[c] # "idle" /\ pc[c] # "done"
    BY <1>1 DEF Inv, Underway, Holding
  <2>2. CASE p = "reacquire"
    <3>1. pc[c] = "fetch" /\ rows[c] = 0 /\ UNCHANGED answer
      BY <1>5, <2>2
    <3>2. Cut(rows[c], req[c].max) = 0
      BY <3>1, CutFacts
    <3>3. ReadsPresent(c)' /\ RightRows(c, 0)'
      BY <1>1, <2>1, <3>1, <3>2 DEF CallOK, ReadsPresent, RightRows
    <3>4. ~Answered(c)'
      BY <1>6, <2>2 DEF Answered
    <3>5. QED
      BY <1>1, <1>6, <2>1, <2>2, <3>1, <3>3, <3>4 DEF CallOK
  <2>3. CASE p = "done"
    <3>1. PICK a \in AnswerRow :
            /\ answer' = [answer EXCEPT ![c] = a]
            /\ \/ a.outcome # "rows"
               \/ pc[c] = "fetch" /\ a.read = answer[c].read /\ a.rows = Cut(rows[c], req[c].max)
               \/ pc[c] = "prepare" /\ a.read = answer[c].read /\ a.rows = answer[c].rows
      BY <1>5, <2>3
    <3>2. answer'[c] = a
      BY <3>1
    <3>3. Answered(c)' => ReadsPresent(c)' /\ RightRows(c, answer[c].rows)'
      <4>1. SUFFICES ASSUME a.outcome = "rows"
                     PROVE  ReadsPresent(c)' /\ RightRows(c, answer[c].rows)'
        BY <3>2 DEF Answered
      <4>2. a.read = answer[c].read /\ ReadsPresent(c)
        BY <2>1, <3>1, <4>1 DEF CallOK
      <4>3. RightRows(c, a.rows)
        BY <2>1, <3>1, <4>1 DEF CallOK
      <4>4. ReadsPresent(c)'
        BY <1>1, <3>2, <4>2 DEF ReadsPresent
      <4>5. RightRows(c, answer[c].rows)'
        BY <1>1, <3>2, <4>3 DEF RightRows
      <4>6. QED
        BY <4>4, <4>5
    <3>4. QED
      BY <1>1, <1>6, <2>1, <2>3, <3>3 DEF CallOK
  <2>4. QED
    BY <2>2, <2>3
<1>11. Underway'
  BY <1>1, <1>6, <1>10, CallKeeps DEF Underway
<1>12. ClosedPoolIsUnused'
  BY <1>1, <1>2, <1>6 DEF Inv, ClosedPoolIsUnused
<1>13. QED
  BY <1>1, <1>7, <1>8, <1>9, <1>11, <1>12 DEF Inv, NothingWritten

\* The pool is closed when no call has a connection.
LEMMA PoolStep ==
    ASSUME Inv, Disconnect \/ Disconnected \/ Write
    PROVE  Inv'
<1> USE TypeFacts
<1>1. /\ UNCHANGED <<driver, session, owner, pc, req, kind, answer, rows, asof, written>>
      /\ attr' \in BOOLEAN /\ pool' \in {"open", "closing", "closed"}
      /\ version' \in 0 .. MaxWrites /\ version' >= version
      /\ pool' = "closed" => pool = "closed" \/ \A x \in Conns : owner[x] = None
  <2>1. version \in 0 .. MaxWrites /\ attr \in BOOLEAN /\ pool \in {"open", "closing", "closed"}
    BY DEF Inv, Typed
  <2>2. CASE Disconnect
    BY <2>1, <2>2 DEF Disconnect, call
  <2>3. CASE Disconnected
    <3>1. /\ UNCHANGED <<driver, session, owner, pc, req, kind, answer, rows, version, asof, written>>
          /\ attr' = FALSE /\ pool' = "closed" /\ \A x \in Conns : owner[x] = None
      BY <2>3 DEF Disconnected, call
    <3>2. version >= version
      OBVIOUS
    <3>3. QED
      BY <2>1, <3>1, <3>2
  <2>4. CASE Write
    BY <2>1, <2>4 DEF Write, call, source
  <2>5. QED
    BY <2>2, <2>3, <2>4
<1>2. Typed' /\ Owners' /\ Prepared' /\ NothingWritten'
  BY <1>1 DEF Inv, Typed, Owners, Prepared, NothingWritten
<1>3. version' \in Nat
  BY <1>1
<1>4. Underway'
  BY <1>1, <1>3, CallKeeps DEF Underway
<1>5. ClosedPoolIsUnused'
  BY <1>1 DEF Inv, ClosedPoolIsUnused
<1>6. QED
  BY <1>2, <1>4, <1>5 DEF Inv

LEMMA Start ==
    ASSUME Init
    PROVE  Inv
<1>1. /\ driver \in Drivers /\ attr = TRUE /\ pool = "open" /\ version = 0 /\ written = FALSE
      /\ session = [x \in Conns |-> Fresh] /\ owner = [x \in Conns |-> None]
      /\ pc = [c \in Calls |-> "idle"] /\ req = [c \in Calls |-> NoRequest]
      /\ kind = [c \in Calls |-> None] /\ answer = [c \in Calls |-> NoAnswer]
      /\ rows = [c \in Calls |-> 0] /\ asof = [c \in Calls |-> 0]
  BY DEF Init
<1>2. /\ None \notin Calls /\ 0 \in 0 .. MaxWrites
      /\ Fresh \in [readOnly : BOOLEAN, timeout : Nat, snapshot : 0 .. MaxWrites \cup {None}]
      /\ NoAnswer \in AnswerRow /\ NoAnswer.rows = 0
  BY SqlAssumption DEF Fresh, NoAnswer, AnswerRow, Outcomes
<1>3. Typed
  BY <1>1, <1>2 DEF Typed
<1>4. Owners /\ Prepared /\ ClosedPoolIsUnused /\ NothingWritten
  BY <1>1, <1>2 DEF Owners, Prepared, ClosedPoolIsUnused, NothingWritten, Holding
<1>5. Underway
  BY <1>1, <1>2 DEF Underway, CallOK, Answered
<1>6. QED
  BY <1>3, <1>4, <1>5 DEF Inv

LEMMA NextStep ==
    ASSUME Inv, Next
    PROVE  Inv'
<1>1. ASSUME NEW c \in Calls, NEW k \in Kinds, NEW r \in Requests \cup {NoRequest}, Begin(c, k, r)
      PROVE  Inv'
  BY <1>1, BeginStep
<1>2. ASSUME NEW c \in Calls, Acquire(c)
      PROVE  Inv'
  BY <1>2, AcquireStep
<1>3. ASSUME NEW c \in Calls, Setup(c)
      PROVE  Inv'
  BY <1>3, SetupStep
<1>4. ASSUME NEW c \in Calls, Run(c)
      PROVE  Inv'
  BY <1>4, RunStep
<1>5. ASSUME NEW c \in Calls, AcquireFails(c) \/ ReacquireFails(c)
      PROVE  Inv'
  BY <1>5, Ending, EndsStep
<1>6. ASSUME NEW c \in Calls,
             \/ Fetch(c) \/ Prepare(c) \/ RunOther(c) \/ StatementFails(c) \/ WriteRefused(c)
             \/ TimesOut(c)
      PROVE  Inv'
  BY <1>6, GivingBack, GivesBackStep
<1>7. CASE Disconnect \/ Disconnected \/ Write
  BY <1>7, PoolStep
<1>8. QED
  BY <1>1, <1>2, <1>3, <1>4, <1>5, <1>6, <1>7 DEF Next, Unaided, AwaitsServer

LEMMA InvImplies ==
    ASSUME Inv
    PROVE  /\ TypeOK /\ RunsUnderOwnSettings /\ NothingWritten /\ ClosedPoolIsUnused
           /\ RowsNotOlderThanCall /\ RowsAsAsked
<1>1. TypeOK
  <2>1. \A c \in Calls : Cardinality(Held(c)) = IF pc[c] \in Holding THEN 1 ELSE 0
    BY HeldFacts
  <2>2. QED
    BY <2>1 DEF Inv, Typed, TypeOK
<1>2. RunsUnderOwnSettings
  BY UsingFacts DEF RunsUnderOwnSettings, Inv, Prepared, Holding
<1>3. RowsNotOlderThanCall
  BY DEF RowsNotOlderThanCall, Inv, Underway, CallOK, ReadsPresent
<1>4. RowsAsAsked
  BY DEF RowsAsAsked, Inv, Underway, CallOK, RightRows
<1>5. QED
  BY <1>1, <1>2, <1>3, <1>4 DEF Inv

-----------------------------------------------------------------------------
(* An HTTP source: the inductive invariant.                                *)

Listed == Http!ToSet(Resources)
Entry  == [name : Http!Names, how : {"declared", "sampled", "error", "empty"}]

\* What schema_info has done of a list: the first resources are described, in their
\* order, and the others are still to do.
Described(done, list) ==
    \A k \in DOMAIN done :
        /\ done[k].name = list[k].name
        /\ list[k].declared <=> (done[k].how = "declared")

Partly(list, rest, done) ==
    /\ list \in Seq(Listed) /\ rest \in Seq(Listed) /\ done \in Seq(Entry)
    /\ Len(rest) + Len(done) = Len(list)
    /\ \A k \in DOMAIN rest : rest[k] = list[Len(done) + k]
    /\ Described(done, list)

\* A call that is answered keeps what the two properties say of it.
WithinLimits(c) ==
    answer[c].code = "ok" /\ got[c] \notin Http!Failure \cup {Http!NoResponse} /\ asked[c] = <<>> =>
        got[c].size <= MaxBytes /\ Http!Success(got[c]) /\ answer[c].rows <= RowsAsked

AllDescribed(c) ==
    answer[c].code = "ok" /\ asked[c] # <<>> =>
        Len(entries[c]) = Len(asked[c]) /\ Described(entries[c], asked[c])

HttpCallOK(c) ==
    /\ answer[c].code \in Http!Codes
    /\ (pc[c] = "answered") <=> (answer[c].code # "none")
    /\ got[c] \in Http!Response \cup Http!Failure \cup {Http!NoResponse}
    /\ pc[c] \in {"idle", "execute", "health"} => asked[c] = <<>> /\ todo[c] = <<>> /\ entries[c] = <<>>
    /\ pc[c] \in {"idle", "execute", "health"} => got[c] = Http!NoResponse
    /\ pc[c] = "schema" => /\ Partly(asked[c], todo[c], entries[c])
                           /\ todo[c] # <<>> /\ ~Head(todo[c]).declared
    /\ WithinLimits(c) /\ AllDescribed(c)

HttpInv ==
    /\ client \in {"open", "closing", "none"}
    /\ pc \in [HttpCalls -> {"idle", "execute", "schema", "health", "answered"}]
    /\ DOMAIN todo = HttpCalls /\ DOMAIN entries = HttpCalls /\ DOMAIN answer = HttpCalls
    /\ DOMAIN got = HttpCalls /\ DOMAIN asked = HttpCalls
    /\ \A c \in HttpCalls : HttpCallOK(c)

-----------------------------------------------------------------------------
(* Resources.                                                              *)

\* A set of numbers that is not empty has a least one.
LEMMA LeastNumber ==
    ASSUME NEW S, S \subseteq Nat, S # {}
    PROVE  Http!Min(S) \in S /\ \A k \in S : Http!Min(S) <= k
<1>1. PICK m \in S : \A k \in S : <<k, m>> \notin OpToRel(<, Nat)
  BY NatLessThanWellFounded, WFMin, Zenon
<1>2. \A k \in S : ~(k < m)
  BY <1>1 DEF OpToRel
<1>3. \A k \in S : m <= k
  BY <1>2
<1>4. QED
  BY <1>3 DEF Http!Min

LEMMA ResourceFacts ==
    /\ Resources \in Seq(Listed) /\ MaxBytes \in Nat /\ RowsAsked \in Nat
    /\ \A r \in Listed : r.declared \in BOOLEAN /\ r.name \in Http!Names
    /\ "none" \notin {"timeout", "refused", "broken"}
<1>1. Resources \in Seq(Listed) /\ MaxBytes \in Nat /\ RowsAsked \in Nat
  BY HttpSourceAssumption DEF Http!HttpAssumption, Listed
<1>2. \A k \in DOMAIN Resources : Resources[k].declared \in BOOLEAN
  BY HttpSourceAssumption DEF Http!HttpAssumption
<1>3. \A r \in Listed : \E k \in DOMAIN Resources : r = Resources[k]
  BY DEF Listed, Http!ToSet
<1>4. QED
  BY <1>1, <1>2, <1>3 DEF Http!Names

\* The k-th resource of a name exists: as many positions are up to it as there are
\* numbers to k.
LEMMA NamedAreListed ==
    ASSUME NEW name PROVE Http!Named(name) \in Seq(Listed)
<1> DEFINE D == DOMAIN Resources
           T == {k \in D : Resources[k].name = name}
           Up(m) == {n \in T : n <= m}
           N == Cardinality(T)
           rank == [m \in T |-> Cardinality(Up(m))]
<1>1. D = 1 .. Len(Resources) /\ Len(Resources) \in Nat
  BY ResourceFacts
<1>2. IsFiniteSet(T) /\ N \in Nat /\ T \subseteq Int
  <2>1. IsFiniteSet(D)
    BY <1>1, FS_Interval
  <2>2. IsFiniteSet(T)
    BY <2>1, FS_Subset
  <2>3. QED
    BY <1>1, <2>2, FS_CardinalityType
<1>3. \A m \in T : IsFiniteSet(Up(m)) /\ Up(m) \subseteq T /\ m \in Up(m)
  BY <1>2, FS_Subset
<1>4. \A m \in T : Cardinality(Up(m)) \in 1 .. N
  <2> SUFFICES ASSUME NEW m \in T PROVE Cardinality(Up(m)) \in 1 .. N
    OBVIOUS
  <2>1. Cardinality(Up(m)) \in Nat /\ Cardinality(Up(m)) <= N
    BY <1>2, <1>3, FS_Subset, FS_CardinalityType
  <2>2. Cardinality(Up(m)) # 0
    BY <1>3, FS_EmptySet
  <2>3. QED
    BY <1>2, <2>1, <2>2
<1>5. \A m, k \in T : m < k => Cardinality(Up(m)) # Cardinality(Up(k))
  <2> SUFFICES ASSUME NEW m \in T, NEW k \in T, m < k
               PROVE  Cardinality(Up(m)) # Cardinality(Up(k))
    OBVIOUS
  <2>1. Up(m) \subseteq Up(k) /\ k \in Up(k) /\ k \notin Up(m)
    BY <1>2
  <2>2. Up(m) # Up(k)
    BY <2>1
  <2> HIDE DEF Up
  <2>3. QED
    BY <1>3, <2>1, <2>2, FS_Subset
<1>6. rank \in Injection(T, 1 .. N)
  <2>1. rank \in [T -> 1 .. N]
    BY <1>4
  <2>2. \A m, k \in T : rank[m] = rank[k] => m = k
    <3> SUFFICES ASSUME NEW m \in T, NEW k \in T, m # k PROVE rank[m] # rank[k]
      OBVIOUS
    <3>1. m < k \/ k < m
      BY <1>2
    <3> HIDE DEF T, Up
    <3>2. QED
      BY <1>5, <3>1
  <2> HIDE DEF rank, T, N
  <2>3. QED
    BY <2>1, <2>2 DEF Injection, IsInjective
<1>7. rank \in Surjection(T, 1 .. N)
  <2>1. IsFiniteSet(1 .. N) /\ Cardinality(1 .. N) = N
    BY <1>2, FS_Interval
  <2> HIDE DEF rank, T
  <2>2. QED
    BY <1>6, <2>1, FS_Injection
<1>8. \A j \in 1 .. N : \E m \in T : Cardinality(Up(m)) = j
  BY <1>7 DEF Surjection
<1>9. \A j \in 1 .. N : Resources[CHOOSE m \in T : Cardinality(Up(m)) = j] \in Listed
  <2> SUFFICES ASSUME NEW j \in 1 .. N
               PROVE  Resources[CHOOSE m \in T : Cardinality(Up(m)) = j] \in Listed
    OBVIOUS
  <2> DEFINE k == CHOOSE m \in T : Cardinality(Up(m)) = j
  <2>1. k \in T
    <3> HIDE DEF T, Up, N
    <3>1. QED
      BY <1>8
  <2>2. k \in D
    BY <2>1
  <2> HIDE DEF k
  <2>3. Resources[k] \in Listed
    BY <2>2 DEF Listed, Http!ToSet
  <2>4. QED
    BY <2>3 DEF k
<1>10. Http!Named(name) = [j \in 1 .. N |-> Resources[CHOOSE m \in T : Cardinality(Up(m)) = j]]
  BY DEF Http!Named, Http!Cardinality, Cardinality
<1>11. QED
  <2> HIDE DEF N, T, Up
  <2>1. Http!Named(name) \in [1 .. N -> Listed]
    BY <1>9, <1>10
  <2>2. QED
    BY <1>2, <2>1

\* The resources a schema is asked for.
LEMMA TargetsAreListed ==
    ASSUME NEW name PROVE Http!Targets(name) \in Seq(Listed)
BY ResourceFacts, NamedAreListed DEF Http!Targets

LEMMA DeclaredFacts ==
    ASSUME NEW list \in Seq(Listed)
    PROVE  /\ Http!Declared(list) \in 0 .. Len(list)
           /\ Http!Declared(list) < Len(list) => ~list[Http!Declared(list) + 1].declared
           /\ \A k \in 1 .. Http!Declared(list) : list[k].declared
<1> DEFINE S == {k \in 0 .. Len(list) : k = Len(list) \/ ~list[k + 1].declared}
           n == Http!Min(S)
<1>1. S \subseteq Nat /\ Len(list) \in S /\ Len(list) \in Nat
  OBVIOUS
<1>2. n \in S /\ \A k \in S : n <= k
  <2> HIDE DEF S
  <2>1. QED
    BY <1>1, LeastNumber
<1>3. n \in 0 .. Len(list) /\ (n < Len(list) => ~list[n + 1].declared)
  <2> HIDE DEF n
  <2>1. QED
    BY <1>1, <1>2
<1>4. \A k \in 1 .. n : list[k].declared
  <2> HIDE DEF n
  <2> SUFFICES ASSUME NEW k \in 1 .. n, ~list[k].declared PROVE FALSE
    OBVIOUS
  <2>1. k - 1 \in 0 .. Len(list) /\ (k - 1) + 1 = k
    BY <1>1, <1>3
  <2>2. k - 1 \in S
    BY <2>1
  <2>3. n <= k - 1 /\ n \in Int /\ k \in Int /\ k <= n
    <3> HIDE DEF S
    <3>1. n <= k - 1 /\ n \in Nat
      BY <1>1, <1>2, <2>2
    <3>2. QED
      BY <3>1
  <2>4. QED
    BY <2>3
<1>5. Http!Declared(list) = n
  BY DEF Http!Declared
<1>6. QED
  <2> HIDE DEF n
  <2>1. QED
    BY <1>3, <1>4, <1>5

\* A resource is described that a sample has been taken of.
LEMMA SampledFacts ==
    ASSUME NEW list, NEW rest, NEW done, NEW how \in {"sampled", "error", "empty"},
           Partly(list, rest, done), rest # <<>>, ~Head(rest).declared
    PROVE  Partly(list, Tail(rest), Http!Describe(done, Head(rest), how)) /\ list # <<>>
<1> DEFINE entry == [name |-> Head(rest).name, how |-> how]
           more == Append(done, entry)
<1>1. /\ list \in Seq(Listed) /\ rest \in Seq(Listed) /\ done \in Seq(Entry)
      /\ Len(rest) + Len(done) = Len(list) /\ Len(rest) \in Nat \ {0}
      /\ Len(done) \in Nat /\ Len(list) \in Nat
      /\ \A k \in DOMAIN rest : rest[k] = list[Len(done) + k]
      /\ \A k \in DOMAIN done : /\ done[k].name = list[k].name
                                /\ list[k].declared <=> (done[k].how = "declared")
  BY EmptySeq DEF Partly, Described
<1>2. Head(rest) \in Listed /\ Head(rest) = list[Len(done) + 1]
  BY <1>1
<1>3. entry \in Entry
  BY <1>2, ResourceFacts DEF Entry
<1>4. /\ Tail(rest) \in Seq(Listed) /\ Len(Tail(rest)) = Len(rest) - 1
      /\ \A k \in 1 .. Len(rest) - 1 : Tail(rest)[k] = rest[k + 1]
  BY <1>1, HeadTailProperties
<1>5. /\ more \in Seq(Entry) /\ Len(more) = Len(done) + 1
      /\ \A k \in 1 .. Len(done) : more[k] = done[k]
      /\ more[Len(done) + 1] = entry
  <2> HIDE DEF entry
  <2>1. QED
    BY <1>1, <1>3, AppendProperties
<1>6. \A k \in DOMAIN Tail(rest) : Tail(rest)[k] = list[Len(more) + k]
  <2> HIDE DEF more
  <2> SUFFICES ASSUME NEW k \in DOMAIN Tail(rest) PROVE Tail(rest)[k] = list[Len(more) + k]
    OBVIOUS
  <2>1. k \in 1 .. Len(rest) - 1 /\ k + 1 \in DOMAIN rest
    BY <1>1, <1>4
  <2>2. Len(more) + k = Len(done) + (k + 1)
    BY <1>1, <1>5, <2>1
  <2>3. QED
    BY <1>1, <1>4, <2>1, <2>2
<1>7. Described(more, list)
  <2>1. SUFFICES ASSUME NEW k \in DOMAIN more
                 PROVE  /\ more[k].name = list[k].name
                        /\ list[k].declared <=> (more[k].how = "declared")
    BY DEF Described
  <2>2. CASE k = Len(done) + 1
    <3>1. more[k].name = list[k].name /\ more[k].how = how /\ ~list[k].declared
      BY <1>2, <1>5, <2>2
    <3>2. QED
      BY <3>1
  <2>3. CASE k # Len(done) + 1
    <3> HIDE DEF more
    <3>1. k \in 1 .. Len(done)
      BY <1>1, <1>5, <2>1, <2>3
    <3>2. QED
      BY <1>1, <1>5, <3>1
  <2>4. QED
    BY <2>2, <2>3
<1>8. Len(Tail(rest)) + Len(more) = Len(list)
  <2> HIDE DEF more
  <2>1. QED
    BY <1>1, <1>4, <1>5
<1>9. Http!Describe(done, Head(rest), how) = more
  BY DEF Http!Describe
<1>10. list # <<>>
  BY <1>1, EmptySeq
<1>11. QED
  <2> HIDE DEF more
  <2>1. QED
    BY <1>1, <1>4, <1>5, <1>6, <1>7, <1>8, <1>9, <1>10 DEF Partly

\* The declared resources at the head of what is to do are described at once.
LEMMA ProceedFacts ==
    ASSUME NEW list, NEW rest, NEW done, Partly(list, rest, done)
    PROVE  LET n == Http!Declared(rest)
               so == done \o [k \in 1 .. n |-> [name |-> rest[k].name, how |-> "declared"]]
               left == SubSeq(rest, n + 1, Len(rest))
           IN  /\ Partly(list, left, so)
               /\ n = Len(rest) => Len(so) = Len(list)
               /\ n # Len(rest) => left # <<>> /\ ~Head(left).declared
<1> DEFINE n == Http!Declared(rest)
           now == [k \in 1 .. n |-> [name |-> rest[k].name, how |-> "declared"]]
           so == done \o now
           left == SubSeq(rest, n + 1, Len(rest))
<1>1. /\ list \in Seq(Listed) /\ rest \in Seq(Listed) /\ done \in Seq(Entry)
      /\ Len(rest) + Len(done) = Len(list) /\ Len(rest) \in Nat
      /\ Len(done) \in Nat /\ Len(list) \in Nat
      /\ \A k \in DOMAIN rest : rest[k] = list[Len(done) + k]
      /\ \A k \in DOMAIN done : /\ done[k].name = list[k].name
                                /\ list[k].declared <=> (done[k].how = "declared")
  BY DEF Partly, Described
<1>2. /\ n \in 0 .. Len(rest) /\ (n < Len(rest) => ~rest[n + 1].declared)
      /\ \A k \in 1 .. n : rest[k].declared
  BY <1>1, DeclaredFacts
<1>3. \A k \in 1 .. n : [name |-> rest[k].name, how |-> "declared"] \in Entry
  <2> HIDE DEF n
  <2> SUFFICES ASSUME NEW k \in 1 .. n
               PROVE  [name |-> rest[k].name, how |-> "declared"] \in Entry
    OBVIOUS
  <2>1. rest[k] \in Listed
    BY <1>1, <1>2
  <2>2. QED
    BY <2>1, ResourceFacts DEF Entry
<1>4. /\ now \in Seq(Entry) /\ Len(now) = n
      /\ \A k \in 1 .. n : now[k].name = rest[k].name /\ now[k].how = "declared"
  <2> HIDE DEF n
  <2>1. now \in [1 .. n -> Entry] /\ DOMAIN now = 1 .. n
    BY <1>3
  <2>2. n \in Nat
    BY <1>1, <1>2
  <2>3. now \in Seq(Entry) /\ Len(now) = n
    <3> HIDE DEF now
    <3>1. QED
      BY <2>1, <2>2
  <2>4. QED
    BY <2>3
<1>5. /\ so \in Seq(Entry) /\ Len(so) = Len(done) + n
      /\ \A k \in 1 .. Len(done) + n : so[k] = IF k <= Len(done) THEN done[k] ELSE now[k - Len(done)]
  <2> HIDE DEF now, n
  <2>1. done \in Seq(Entry) /\ now \in Seq(Entry) /\ Len(now) = n
    BY <1>1, <1>4
  <2>2. /\ so \in Seq(Entry) /\ Len(so) = Len(done) + Len(now)
        /\ \A k \in 1 .. Len(done) + Len(now) :
              so[k] = IF k <= Len(done) THEN done[k] ELSE now[k - Len(done)]
    BY <2>1, ConcatProperties
  <2> HIDE DEF so
  <2>3. QED
    BY <2>1, <2>2
<1>6. /\ left \in Seq(Listed) /\ Len(left) = Len(rest) - n
      /\ \A k \in 1 .. Len(rest) - n : left[k] = rest[n + k]
  <2> HIDE DEF n
  <2>1. \A k \in n + 1 .. Len(rest) : rest[k] \in Listed
    BY <1>1, <1>2
  <2>2. /\ left \in Seq(Listed)
        /\ Len(left) = IF n + 1 <= Len(rest) THEN Len(rest) - (n + 1) + 1 ELSE 0
        /\ \A k \in 1 .. Len(rest) - (n + 1) + 1 : left[k] = rest[(n + 1) + k - 1]
    BY <1>1, <1>2, <2>1, SubSeqProperties
  <2> HIDE DEF left
  <2>3. Len(left) = Len(rest) - n
    BY <1>1, <1>2, <2>2
  <2>4. ASSUME NEW k \in 1 .. Len(rest) - n PROVE left[k] = rest[n + k]
    <3>1. k \in 1 .. Len(rest) - (n + 1) + 1 /\ (n + 1) + k - 1 = n + k
      BY <1>1, <1>2, <2>4
    <3>2. QED
      BY <2>2, <3>1
  <2>5. QED
    BY <2>2, <2>3, <2>4
<1> HIDE DEF now, so, left, n
<1>7. Described(so, list)
  <2>1. SUFFICES ASSUME NEW k \in DOMAIN so
                 PROVE  /\ so[k].name = list[k].name
                        /\ list[k].declared <=> (so[k].how = "declared")
    BY DEF Described
  <2>2. k \in 1 .. Len(done) + n
    BY <1>1, <1>2, <1>5, <2>1
  <2>3. CASE k <= Len(done)
    BY <1>1, <1>2, <1>5, <2>2, <2>3
  <2>4. CASE ~(k <= Len(done))
    <3>1. k - Len(done) \in 1 .. n /\ k - Len(done) \in DOMAIN rest /\ Len(done) + (k - Len(done)) = k
      BY <1>1, <1>2, <2>2, <2>4
    <3>2. so[k] = now[k - Len(done)] /\ rest[k - Len(done)] = list[k]
      BY <1>1, <1>5, <2>2, <2>4, <3>1
    <3>3. QED
      BY <1>2, <1>4, <3>1, <3>2
  <2>5. QED
    BY <2>3, <2>4
<1>8. \A k \in DOMAIN left : left[k] = list[Len(so) + k]
  <2> SUFFICES ASSUME NEW k \in DOMAIN left PROVE left[k] = list[Len(so) + k]
    OBVIOUS
  <2>1. k \in 1 .. Len(rest) - n /\ n + k \in DOMAIN rest /\ Len(so) + k = Len(done) + (n + k)
    BY <1>1, <1>2, <1>5, <1>6
  <2>2. QED
    BY <1>1, <1>6, <2>1
<1>9. Partly(list, left, so)
  <2>1. Len(left) + Len(so) = Len(list)
    <3>1. /\ Len(left) = Len(rest) - n /\ Len(so) = Len(done) + n
          /\ Len(rest) + Len(done) = Len(list)
      BY <1>1, <1>5, <1>6
    <3>2. Len(rest) \in Int /\ Len(done) \in Int /\ n \in Int /\ Len(list) \in Int
      BY <1>1, <1>2
    <3>3. QED
      BY <3>1, <3>2
  <2>2. list \in Seq(Listed) /\ left \in Seq(Listed) /\ so \in Seq(Entry)
    BY <1>1, <1>5, <1>6
  <2>3. QED
    BY <1>7, <1>8, <2>1, <2>2 DEF Partly
<1>10. n = Len(rest) => Len(so) = Len(list)
  BY <1>1, <1>5
<1>11. n # Len(rest) => left # <<>> /\ ~Head(left).declared
  <2> SUFFICES ASSUME n # Len(rest) PROVE left # <<>> /\ ~Head(left).declared
    OBVIOUS
  <2>1. n < Len(rest) /\ 1 \in 1 .. Len(rest) - n
    BY <1>1, <1>2
  <2>2. left # <<>> /\ Head(left) = left[1]
    BY <1>1, <1>2, <1>6, <2>1, EmptySeq
  <2>3. QED
    BY <1>2, <1>6, <2>1, <2>2
<1>12. QED
  BY <1>9, <1>10, <1>11 DEF n, now, so, left

-----------------------------------------------------------------------------
(* An HTTP source: every step keeps the invariant.                         *)

\* What a step of a call leaves alone, and that the variables keep their shape.
OnlyOf(c) ==
    /\ pc' \in [HttpCalls -> {"idle", "execute", "schema", "health", "answered"}]
    /\ DOMAIN todo' = HttpCalls /\ DOMAIN entries' = HttpCalls /\ DOMAIN answer' = HttpCalls
    /\ DOMAIN got' = HttpCalls /\ DOMAIN asked' = HttpCalls
    /\ \A d \in HttpCalls \ {c} :
         /\ pc'[d] = pc[d] /\ todo'[d] = todo[d] /\ entries'[d] = entries[d]
         /\ answer'[d] = answer[d] /\ got'[d] = got[d] /\ asked'[d] = asked[d]

LEMMA CallStep ==
    ASSUME HttpInv, NEW c \in HttpCalls, OnlyOf(c), HttpCallOK(c)', client' = client
    PROVE  HttpInv'
<1>1. ASSUME NEW d \in HttpCalls \ {c} PROVE HttpCallOK(d)'
  <2>1. /\ pc'[d] = pc[d] /\ todo'[d] = todo[d] /\ entries'[d] = entries[d]
        /\ answer'[d] = answer[d] /\ got'[d] = got[d] /\ asked'[d] = asked[d]
    BY <1>1 DEF OnlyOf
  <2>2. HttpCallOK(d)
    BY <1>1 DEF HttpInv
  <2>3. QED
    BY <2>1, <2>2 DEF HttpCallOK, WithinLimits, AllDescribed
<1>2. \A d \in HttpCalls : HttpCallOK(d)'
  BY <1>1
<1>3. QED
  BY <1>2 DEF HttpInv, OnlyOf

\* How a call goes on: it is answered ...
Moves(c) ==
    /\ pc' \in [HttpCalls -> {"idle", "execute", "schema", "health", "answered"}]
    /\ DOMAIN answer' = HttpCalls
    /\ \A d \in HttpCalls \ {c} : pc'[d] = pc[d] /\ answer'[d] = answer[d]

LEMMA AnswerMoves ==
    ASSUME HttpInv, NEW c \in HttpCalls, NEW code, NEW n, Http!Answer(c, code, n)
    PROVE  /\ Moves(c) /\ pc'[c] = "answered"
           /\ answer'[c].code = code /\ answer'[c].rows = n
<1>1. /\ pc \in [HttpCalls -> {"idle", "execute", "schema", "health", "answered"}]
      /\ DOMAIN answer = HttpCalls
  BY DEF HttpInv
<1> DEFINE record == [code |-> code, rows |-> n]
<1>2. pc' = [pc EXCEPT ![c] = "answered"] /\ answer' = [answer EXCEPT ![c] = record]
  BY DEF Http!Answer
<1>3. record.code = code /\ record.rows = n
  OBVIOUS
<1> HIDE DEF record
<1>4. answer'[c] = record /\ DOMAIN answer' = HttpCalls /\ \A d \in HttpCalls \ {c} : answer'[d] = answer[d]
  BY <1>1, <1>2
<1>5. pc' \in [HttpCalls -> {"idle", "execute", "schema", "health", "answered"}]
      /\ pc'[c] = "answered" /\ \A d \in HttpCalls \ {c} : pc'[d] = pc[d]
  BY <1>1, <1>2
<1>6. QED
  BY <1>3, <1>4, <1>5 DEF Moves

\* ... or waits for a response, unless the client is closed.
LEMMA RequestMoves ==
    ASSUME HttpInv, NEW c \in HttpCalls, NEW purpose \in {"execute", "schema"}, Http!Request(c, purpose)
    PROVE  /\ Moves(c)
           /\ \/ pc'[c] = purpose /\ answer'[c] = answer[c]
              \/ pc'[c] = "answered" /\ answer'[c].code = "raw"
<1>1. CASE client = "open"
  <2>1. pc' = [pc EXCEPT ![c] = purpose] /\ answer' = answer
    BY <1>1 DEF Http!Request
  <2>2. /\ pc \in [HttpCalls -> {"idle", "execute", "schema", "health", "answered"}]
        /\ DOMAIN answer = HttpCalls
    BY DEF HttpInv
  <2>3. QED
    BY <2>1, <2>2 DEF Moves
<1>2. CASE client # "open"
  <2>1. Http!Answer(c, "raw", 0)
    BY <1>2 DEF Http!Request, Http!Raise
  <2>2. QED
    BY <2>1, AnswerMoves
<1>3. QED
  BY <1>1, <1>2

\* A call whose lists stay as they are.
LEMMA ListsStay ==
    ASSUME HttpInv, NEW c \in HttpCalls, Moves(c), UNCHANGED <<todo, entries, asked>>,
           \/ got' = got
           \/ \E r : got' = [got EXCEPT ![c] = r]
    PROVE  OnlyOf(c)
<1>1. /\ DOMAIN todo = HttpCalls /\ DOMAIN entries = HttpCalls
      /\ DOMAIN got = HttpCalls /\ DOMAIN asked = HttpCalls
  BY DEF HttpInv
<1>2. DOMAIN got' = HttpCalls /\ \A d \in HttpCalls \ {c} : got'[d] = got[d]
  BY <1>1
<1>3. QED
  BY <1>1, <1>2 DEF OnlyOf, Moves

\* A call that has not been answered has no code.
LEMMA Unanswered ==
    ASSUME HttpInv, NEW c \in HttpCalls, pc[c] # "answered"
    PROVE  answer[c].code = "none" /\ HttpCallOK(c)
BY DEF HttpInv, HttpCallOK

\* A call is answered with something else than "ok".
LEMMA NotOk ==
    ASSUME NEW c \in HttpCalls, pc'[c] = "answered",
           answer'[c].code \in Http!Codes \ {"none", "ok"},
           got'[c] \in Http!Response \cup Http!Failure \cup {Http!NoResponse}
    PROVE  HttpCallOK(c)'
BY DEF HttpCallOK, WithinLimits, AllDescribed

CodeNames == {"raw", "NOT_CONNECTED", "RESOURCE_NOT_FOUND", "UNSUPPORTED_METHOD",
              "INVALID_BINDING", "TIMEOUT", "CONNECTION_FAILED", "RESPONSE_TOO_LARGE", "AUTH_FAILED",
              "HTTP_CLIENT_ERROR", "HTTP_SERVER_ERROR", "healthy", "unhealthy"}

\* The same, as a step of the call.
LEMMA RefusalStep ==
    ASSUME HttpInv, NEW c \in HttpCalls, NEW code \in CodeNames, NEW n,
           Http!Answer(c, code, n), UNCHANGED <<client, todo, entries, asked>>,
           \/ got' = got
           \/ \E r \in Http!Response \cup Http!Failure : got' = [got EXCEPT ![c] = r]
    PROVE  HttpInv'
<1>1. Moves(c) /\ pc'[c] = "answered" /\ answer'[c].code = code
  BY AnswerMoves
<1>2. OnlyOf(c)
  BY <1>1, ListsStay
<1>3. got[c] \in Http!Response \cup Http!Failure \cup {Http!NoResponse} /\ DOMAIN got = HttpCalls
  BY DEF HttpInv, HttpCallOK
<1>4. got'[c] \in Http!Response \cup Http!Failure \cup {Http!NoResponse}
  BY <1>3
<1>5. code \in Http!Codes \ {"none", "ok"}
  BY DEF CodeNames, Http!Codes
<1>6. HttpCallOK(c)'
  BY <1>1, <1>4, <1>5, NotOk
<1>7. QED
  BY <1>2, <1>6, CallStep

LEMMA ExecuteStep ==
    ASSUME HttpInv, NEW c \in HttpCalls, NEW name, NEW p, Http!Execute(c, name, p)
    PROVE  HttpInv'
<1>1. pc[c] = "idle" /\ UNCHANGED <<client, todo, entries, got, asked>>
  BY DEF Http!Execute
<1>2. \/ \E code \in {"NOT_CONNECTED", "RESOURCE_NOT_FOUND", "UNSUPPORTED_METHOD", "INVALID_BINDING"} :
            Http!Answer(c, code, 0)
      \/ Http!Request(c, "execute")
  BY DEF Http!Execute, Http!Raise
<1>3. ASSUME NEW code \in {"NOT_CONNECTED", "RESOURCE_NOT_FOUND", "UNSUPPORTED_METHOD", "INVALID_BINDING"},
             Http!Answer(c, code, 0)
      PROVE  HttpInv'
  BY <1>1, <1>3, RefusalStep DEF CodeNames
<1>4. CASE Http!Request(c, "execute")
  <2>1. /\ Moves(c)
        /\ \/ pc'[c] = "execute" /\ answer'[c] = answer[c]
           \/ pc'[c] = "answered" /\ answer'[c].code = "raw"
    BY <1>4, RequestMoves
  <2>2. OnlyOf(c)
    BY <1>1, <2>1, ListsStay
  <2>3. HttpCallOK(c) /\ answer[c].code = "none"
    BY <1>1, Unanswered
  <2>4. HttpCallOK(c)'
    <3>1. CASE pc'[c] = "execute" /\ answer'[c] = answer[c]
      BY <1>1, <2>3, <3>1 DEF HttpCallOK, WithinLimits, AllDescribed
    <3>2. CASE pc'[c] = "answered" /\ answer'[c].code = "raw"
      BY <1>1, <2>3, <3>2, NotOk DEF HttpCallOK, Http!Codes
    <3>3. QED
      BY <2>1, <3>1, <3>2
  <2>5. QED
    BY <1>1, <2>2, <2>4, CallStep
<1>5. QED
  BY <1>2, <1>3, <1>4

\* The rows of a response that is accepted.
LEMMA ExecutedStep ==
    ASSUME HttpInv, NEW c \in HttpCalls, NEW r \in Http!Response \cup Http!Failure, Http!Executed(c, r)
    PROVE  HttpInv'
<1>1. /\ pc[c] = "execute" /\ got' = [got EXCEPT ![c] = r]
      /\ UNCHANGED <<client, todo, entries, asked>>
  BY DEF Http!Executed
<1>2. \/ \E code \in CodeNames : Http!Answer(c, code, 0)
      \/ /\ r \notin Http!Failure /\ Http!Success(r) /\ ~Http!TooLarge(r) /\ r.rows # Http!NotJson
         /\ Http!Answer(c, "ok", Http!Min({r.rows, RowsAsked}))
  <2>1. r \in Http!Failure => Http!FailureCode(r.failure) \in CodeNames
    BY DEF Http!FailureCode, CodeNames
  <2>2. \A s : Http!StatusCode(s) \in CodeNames
    BY DEF Http!StatusCode, CodeNames
  <2>3. "RESPONSE_TOO_LARGE" \in CodeNames /\ "raw" \in CodeNames
    BY DEF CodeNames
  <2>4. CASE r \in Http!Failure
    BY <2>1, <2>4 DEF Http!Executed, Http!Raise
  <2>5. CASE r \notin Http!Failure
    <3>1. r \in Http!Response /\ r.length \in Nat /\ MaxBytes \in Nat
      BY <2>5, ResourceFacts DEF Http!Response
    <3>2. CASE r.length > MaxBytes
      <4>1. ~(r.length <= MaxBytes)
        BY <3>1, <3>2
      <4>2. Http!Answer(c, "RESPONSE_TOO_LARGE", 0)
        BY <2>5, <3>2, <4>1 DEF Http!Executed, Http!Raise
      <4>3. QED
        BY <2>3, <4>2
    <3>3. CASE r.length <= MaxBytes /\ ~Http!Success(r)
      <4>1. ~(r.length > MaxBytes)
        BY <3>1, <3>3
      <4>2. Http!Answer(c, Http!StatusCode(r.status), 0)
        BY <2>5, <3>3, <4>1 DEF Http!Executed, Http!Raise
      <4>3. QED
        BY <2>2, <4>2
    <3>4. CASE r.length <= MaxBytes /\ Http!Success(r)
      BY <2>3, <2>5, <3>1, <3>4 DEF Http!Executed, Http!Raise
    <3>5. QED
      BY <3>1, <3>2, <3>3, <3>4
  <2>6. QED
    BY <2>4, <2>5
<1>3. ASSUME NEW code \in CodeNames, Http!Answer(c, code, 0) PROVE HttpInv'
  BY <1>1, <1>3, RefusalStep
<1>4. ASSUME r \notin Http!Failure, Http!Success(r), ~Http!TooLarge(r), r.rows # Http!NotJson,
             Http!Answer(c, "ok", Http!Min({r.rows, RowsAsked}))
      PROVE  HttpInv'
  <2> DEFINE n == Http!Min({r.rows, RowsAsked})
  <2>1. r \in Http!Response /\ r.rows \in Nat /\ r.size <= MaxBytes /\ RowsAsked \in Nat
    <3>1. r \in Http!Response
      BY <1>4
    <3>2. r.rows \in -1 .. RowsAsked + 1 /\ r.size \in 1 .. MaxBytes + 1
      BY <3>1 DEF Http!Response, Http!NotJson
    <3>3. MaxBytes \in Nat /\ RowsAsked \in Nat
      BY ResourceFacts
    <3>4. QED
      BY <1>4, <3>1, <3>2, <3>3 DEF Http!NotJson, Http!TooLarge
  <2>2. n <= RowsAsked
    BY <2>1, LeastNumber
  <2> HIDE DEF n
  <2>3. Moves(c) /\ pc'[c] = "answered" /\ answer'[c].code = "ok" /\ answer'[c].rows = n
    BY <1>4, AnswerMoves DEF n
  <2>4. OnlyOf(c)
    BY <1>1, <2>3, ListsStay
  <2>5. asked[c] = <<>> /\ todo[c] = <<>> /\ entries[c] = <<>>
    BY <1>1, Unanswered DEF HttpCallOK
  <2>6. got'[c] = r
    BY <1>1 DEF HttpInv
  <2>7. HttpCallOK(c)'
    BY <1>1, <1>4, <2>1, <2>2, <2>3, <2>5, <2>6 DEF HttpCallOK, WithinLimits, AllDescribed, Http!Codes
  <2>8. QED
    BY <1>1, <2>4, <2>7, CallStep
<1>5. QED
  BY <1>2, <1>3, <1>4

\* The next resources of a schema.
LEMMA ProceedStep ==
    ASSUME HttpInv, NEW c \in HttpCalls, pc[c] # "answered",
           NEW list, NEW rest, NEW done, Partly(list, rest, done), Http!Proceed(c, rest, done),
           asked'[c] = list, DOMAIN asked' = HttpCalls, \A d \in HttpCalls \ {c} : asked'[d] = asked[d],
           DOMAIN got' = HttpCalls, \A d \in HttpCalls \ {c} : got'[d] = got[d],
           got'[c] \in Http!Response \cup Http!Failure \cup {Http!NoResponse},
           list # <<>> \/ got'[c] = Http!NoResponse,
           client' = client
    PROVE  HttpInv'
<1> DEFINE n == Http!Declared(rest)
           so == done \o [k \in 1 .. n |-> [name |-> rest[k].name, how |-> "declared"]]
           left == SubSeq(rest, n + 1, Len(rest))
<1>1. /\ Partly(list, left, so)
      /\ n = Len(rest) => Len(so) = Len(list)
      /\ n # Len(rest) => left # <<>> /\ ~Head(left).declared
  BY ProceedFacts
<1>2. /\ entries' = [entries EXCEPT ![c] = so] /\ todo' = [todo EXCEPT ![c] = left]
      /\ IF n = Len(rest) THEN Http!Answer(c, "ok", 0) ELSE Http!Request(c, "schema")
  BY DEF Http!Proceed
<1> HIDE DEF so, left, n
<1>3. /\ DOMAIN entries' = HttpCalls /\ entries'[c] = so
      /\ DOMAIN todo' = HttpCalls /\ todo'[c] = left
      /\ \A d \in HttpCalls \ {c} : entries'[d] = entries[d] /\ todo'[d] = todo[d]
  BY <1>2 DEF HttpInv
<1>4. answer[c].code = "none"
  BY Unanswered
<1>5. ASSUME Moves(c), HttpCallOK(c)' PROVE HttpInv'
  <2>1. OnlyOf(c)
    BY <1>3, <1>5 DEF OnlyOf, Moves
  <2>2. QED
    BY <1>5, <2>1, CallStep
<1>6. CASE n = Len(rest)
  <2>1. Moves(c) /\ pc'[c] = "answered" /\ answer'[c].code = "ok"
    BY <1>2, <1>6, AnswerMoves
  <2>2. WithinLimits(c)'
    BY DEF WithinLimits
  <2>3. AllDescribed(c)'
    BY <1>1, <1>3, <1>6 DEF AllDescribed, Partly
  <2>4. HttpCallOK(c)'
    BY <2>1, <2>2, <2>3 DEF HttpCallOK, Http!Codes
  <2>5. QED
    BY <1>5, <2>1, <2>4
<1>7. CASE n # Len(rest)
  <2>1. /\ Moves(c)
        /\ \/ pc'[c] = "schema" /\ answer'[c] = answer[c]
           \/ pc'[c] = "answered" /\ answer'[c].code = "raw"
    BY <1>2, <1>7, RequestMoves
  <2>2. CASE pc'[c] = "schema" /\ answer'[c] = answer[c]
    <3>1. (Partly(asked[c], todo[c], entries[c]))'
      BY <1>1, <1>3 DEF Partly, Described, Entry, Listed
    <3>2. HttpCallOK(c)'
      BY <1>1, <1>3, <1>4, <1>7, <2>2, <3>1 DEF HttpCallOK, WithinLimits, AllDescribed, Http!Codes
    <3>3. QED
      BY <1>5, <2>1, <3>2
  <2>3. CASE pc'[c] = "answered" /\ answer'[c].code = "raw"
    <3>1. HttpCallOK(c)'
      BY <2>3, NotOk DEF Http!Codes
    <3>2. QED
      BY <1>5, <2>1, <3>1
  <2>4. QED
    BY <2>1, <2>2, <2>3
<1>8. QED
  BY <1>6, <1>7

LEMMA SchemaInfoStep ==
    ASSUME HttpInv, NEW c \in HttpCalls, NEW name, Http!SchemaInfo(c, name)
    PROVE  HttpInv'
<1> DEFINE targets == Http!Targets(name)
<1>1. pc[c] = "idle" /\ UNCHANGED <<client, got>>
  BY DEF Http!SchemaInfo
<1>2. \/ \E code \in {"NOT_CONNECTED", "RESOURCE_NOT_FOUND"} :
            Http!Answer(c, code, 0) /\ UNCHANGED <<todo, entries, asked>>
      \/ asked' = [asked EXCEPT ![c] = targets] /\ Http!Proceed(c, targets, <<>>)
  BY DEF Http!SchemaInfo, Http!Raise
<1>3. ASSUME NEW code \in {"NOT_CONNECTED", "RESOURCE_NOT_FOUND"},
             Http!Answer(c, code, 0), UNCHANGED <<todo, entries, asked>>
      PROVE  HttpInv'
  BY <1>1, <1>3, RefusalStep DEF CodeNames
<1>4. CASE asked' = [asked EXCEPT ![c] = targets] /\ Http!Proceed(c, targets, <<>>)
  <2>1. targets \in Seq(Listed)
    BY TargetsAreListed
  <2> HIDE DEF targets
  <2>2. Partly(targets, targets, <<>>)
    <3>1. <<>> \in Seq(Entry) /\ Len(<<>>) = 0 /\ DOMAIN <<>> = {}
      BY EmptySeq
    <3> DEFINE none == <<>>
    <3> HIDE DEF none
    <3>2. none \in Seq(Entry) /\ Len(none) = 0 /\ DOMAIN none = {}
      BY <3>1 DEF none
    <3>3. \A k \in DOMAIN targets : targets[k] = targets[Len(none) + k]
      BY <2>1, <3>2
    <3>4. Len(targets) + Len(none) = Len(targets)
      BY <2>1, <3>2
    <3>5. Described(none, targets)
      BY <3>2 DEF Described
    <3>6. Partly(targets, targets, none)
      BY <2>1, <3>2, <3>3, <3>4, <3>5 DEF Partly
    <3>7. QED
      BY <3>6 DEF none
  <2>3. /\ asked'[c] = targets /\ DOMAIN asked' = HttpCalls
        /\ \A d \in HttpCalls \ {c} : asked'[d] = asked[d]
    BY <1>4 DEF HttpInv
  <2>4. got'[c] = Http!NoResponse /\ DOMAIN got' = HttpCalls /\ got' = got
    BY <1>1, Unanswered DEF HttpInv, HttpCallOK
  <2>5. QED
    BY <1>1, <1>4, <2>2, <2>3, <2>4, ProceedStep
<1>5. QED
  BY <1>2, <1>3, <1>4

LEMMA SampledStep ==
    ASSUME HttpInv, NEW c \in HttpCalls, NEW r \in Http!Response \cup Http!Failure, Http!Sampled(c, r)
    PROVE  HttpInv'
<1> DEFINE how == CASE r \in Http!Failure -> "empty"
                    [] r \notin Http!Failure /\ ~Http!Success(r) -> "error"
                    [] OTHER -> "sampled"
           more == Http!Describe(entries[c], Head(todo[c]), how)
<1>1. /\ pc[c] = "schema" /\ got' = [got EXCEPT ![c] = r] /\ UNCHANGED <<client, asked>>
      /\ \/ Http!Answer(c, "raw", 0) /\ UNCHANGED <<todo, entries>>
         \/ Http!Proceed(c, Tail(todo[c]), more)
  BY DEF Http!Sampled, Http!Raise
<1>2. how \in {"sampled", "error", "empty"}
  OBVIOUS
<1> HIDE DEF how
<1>3. CASE Http!Answer(c, "raw", 0) /\ UNCHANGED <<todo, entries>>
  BY <1>1, <1>3, RefusalStep DEF CodeNames
<1>4. CASE Http!Proceed(c, Tail(todo[c]), more)
  <2>1. Partly(asked[c], todo[c], entries[c]) /\ todo[c] # <<>> /\ ~Head(todo[c]).declared
    BY <1>1, Unanswered DEF HttpCallOK
  <2>2. Partly(asked[c], Tail(todo[c]), more) /\ asked[c] # <<>>
    BY <1>2, <2>1, SampledFacts
  <2>3. /\ got'[c] = r /\ DOMAIN got' = HttpCalls
        /\ \A d \in HttpCalls \ {c} : got'[d] = got[d]
    BY <1>1 DEF HttpInv
  <2>4. asked' = asked /\ DOMAIN asked' = HttpCalls
    BY <1>1 DEF HttpInv
  <2> HIDE DEF more
  <2>5. QED
    BY <1>1, <1>4, <2>2, <2>3, <2>4, ProceedStep
<1>5. QED
  BY <1>1, <1>3, <1>4

LEMMA HealthStep ==
    ASSUME HttpInv, NEW c \in HttpCalls,
           \/ Http!HealthCheck(c)
           \/ \E r \in Http!Response \cup Http!Failure : Http!Checked(c, r)
    PROVE  HttpInv'
<1>1. CASE Http!HealthCheck(c) /\ client = "open"
  <2>1. /\ pc[c] = "idle" /\ pc' = [pc EXCEPT ![c] = "health"]
        /\ UNCHANGED <<answer, client, todo, entries, got, asked>>
    BY <1>1 DEF Http!HealthCheck
  <2>2. Moves(c) /\ pc'[c] = "health"
    BY <2>1 DEF Moves, HttpInv
  <2>3. OnlyOf(c)
    BY <2>1, <2>2, ListsStay
  <2>4. HttpCallOK(c)'
    BY <2>1, <2>2, Unanswered DEF HttpCallOK, WithinLimits, AllDescribed
  <2>5. QED
    BY <2>1, <2>3, <2>4, CallStep
<1>2. CASE Http!HealthCheck(c) /\ client # "open"
  <2>1. Http!Answer(c, "unhealthy", 0) /\ UNCHANGED <<client, todo, entries, got, asked>>
    BY <1>2 DEF Http!HealthCheck
  <2>2. QED
    BY <2>1, RefusalStep DEF CodeNames
<1>3. ASSUME NEW r \in Http!Response \cup Http!Failure, Http!Checked(c, r) PROVE HttpInv'
  <2>1. /\ got' = [got EXCEPT ![c] = r] /\ UNCHANGED <<client, todo, entries, asked>>
        /\ \E code \in {"healthy", "unhealthy"} : Http!Answer(c, code, 0)
    BY <1>3 DEF Http!Checked
  <2>2. QED
    BY <2>1, RefusalStep DEF CodeNames
<1>4. QED
  BY <1>1, <1>2, <1>3

LEMMA ListStep ==
    ASSUME HttpInv, NEW c \in HttpCalls, Http!ListResources(c)
    PROVE  HttpInv'
<1>1. /\ pc[c] = "idle" /\ Http!Answer(c, "ok", Len(Resources))
      /\ UNCHANGED <<client, todo, entries, got, asked>>
  BY DEF Http!ListResources
<1>2. Moves(c) /\ pc'[c] = "answered" /\ answer'[c].code = "ok"
  BY <1>1, AnswerMoves
<1>3. OnlyOf(c)
  BY <1>1, <1>2, ListsStay
<1>4. got[c] = Http!NoResponse /\ asked[c] = <<>>
  BY <1>1, Unanswered DEF HttpCallOK
<1>5. HttpCallOK(c)'
  BY <1>1, <1>2, <1>4 DEF HttpCallOK, WithinLimits, AllDescribed, Http!Codes
<1>6. QED
  BY <1>1, <1>3, <1>5, CallStep

LEMMA HttpStart == Http!Init => HttpInv
<1> SUFFICES ASSUME Http!Init PROVE HttpInv
  OBVIOUS
<1>1. ASSUME NEW c \in HttpCalls PROVE HttpCallOK(c)
  <2>1. /\ pc[c] = "idle" /\ todo[c] = <<>> /\ entries[c] = <<>> /\ asked[c] = <<>>
        /\ answer[c].code = "none" /\ got[c] = Http!NoResponse
    BY DEF Http!Init, Http!NoAnswer
  <2>2. QED
    BY <2>1 DEF HttpCallOK, WithinLimits, AllDescribed, Http!Codes
<1>2. /\ client = "open" /\ pc \in [HttpCalls -> {"idle"}]
      /\ DOMAIN todo = HttpCalls /\ DOMAIN entries = HttpCalls /\ DOMAIN answer = HttpCalls
      /\ DOMAIN got = HttpCalls /\ DOMAIN asked = HttpCalls
  BY DEF Http!Init
<1>3. QED
  BY <1>1, <1>2 DEF HttpInv

\* Nothing happens to the calls.
LEMMA HttpStays ==
    ASSUME HttpInv, UNCHANGED <<pc, todo, entries, answer, got, asked>>, client' \in {"open", "closing", "none"}
    PROVE  HttpInv'
BY DEF HttpInv, HttpCallOK, WithinLimits, AllDescribed

LEMMA HttpStep ==
    ASSUME HttpInv, Http!Next
    PROVE  HttpInv'
<1>1. ASSUME NEW c \in HttpCalls, NEW name, NEW p, Http!Execute(c, name, p) PROVE HttpInv'
  BY <1>1, ExecuteStep
<1>2. ASSUME NEW c \in HttpCalls, NEW name, Http!SchemaInfo(c, name) PROVE HttpInv'
  BY <1>2, SchemaInfoStep
<1>3. ASSUME NEW c \in HttpCalls, Http!HealthCheck(c) \/ Http!ListResources(c) PROVE HttpInv'
  BY <1>3, HealthStep, ListStep
<1>4. ASSUME NEW c \in HttpCalls, NEW r \in Http!Response \cup Http!Failure, Http!Settled(c, r)
      PROVE  HttpInv'
  BY <1>4, ExecutedStep, SampledStep, HealthStep DEF Http!Settled
<1>5. ASSUME Http!Disconnect \/ Http!Disconnected PROVE HttpInv'
  BY <1>5, HttpStays DEF Http!Disconnect, Http!Disconnected, Http!call
<1>6. QED
  BY <1>1, <1>2, <1>3, <1>4, <1>5 DEF Http!Next

LEMMA HttpImplies ==
    HttpInv => Http!TypeOK /\ Http!AnswerWithinLimits /\ Http!EveryResourceDescribed
<1> SUFFICES ASSUME HttpInv PROVE Http!TypeOK /\ Http!AnswerWithinLimits /\ Http!EveryResourceDescribed
  OBVIOUS
<1>1. \A c \in HttpCalls : HttpCallOK(c)
  BY DEF HttpInv
<1>2. Http!AnswerWithinLimits
  BY <1>1 DEF Http!AnswerWithinLimits, HttpCallOK, WithinLimits
<1>3. Http!EveryResourceDescribed
  <2> SUFFICES ASSUME NEW c \in HttpCalls, answer[c].code = "ok" /\ asked[c] # <<>>
               PROVE  /\ Len(entries[c]) = Len(asked[c])
                      /\ \A k \in DOMAIN asked[c] :
                           /\ entries[c][k].name = asked[c][k].name
                           /\ asked[c][k].declared <=> (entries[c][k].how = "declared")
    BY DEF Http!EveryResourceDescribed
  <2>1. Len(entries[c]) = Len(asked[c]) /\ Described(entries[c], asked[c])
    BY <1>1 DEF HttpCallOK, AllDescribed
  <2>2. QED
    BY <2>1 DEF Described
<1>4. Http!TypeOK
  BY <1>1 DEF Http!TypeOK, HttpInv, HttpCallOK, Partly
<1>5. QED
  BY <1>2, <1>3, <1>4

-----------------------------------------------------------------------------
(* The module the runs check, where a source is SQL or HTTP.               *)

LEMMA AlwaysInv == MCSpec => [](IsSql => Inv)
<1>1. MCInit => (IsSql => Inv)
  BY Start DEF MCInit, IsSql
<1>2. (IsSql => Inv) /\ [MCNext]_<<vars, http>> => (IsSql => Inv)'
  <2>1. SUFFICES ASSUME IsSql => Inv, [MCNext]_<<vars, http>>, IsSql'
                 PROVE  Inv'
    OBVIOUS
  <2>2. CASE IsSql /\ Next
    BY <2>1, <2>2, NextStep
  <2>3. CASE IsHttp /\ UNCHANGED sql
    BY <2>1, <2>3 DEF IsHttp, IsSql, sql
  <2>4. CASE UNCHANGED vars
    <3>1. /\ UNCHANGED <<driver, attr, pool, session, owner, pc, req, kind, answer, rows>>
          /\ UNCHANGED <<version, asof, written>>
      BY <2>4 DEF vars, source, call
    <3>2. Inv
      BY <2>1, <3>1 DEF IsSql
    <3>3. Typed' /\ Owners' /\ Prepared'
      BY <3>1, <3>2 DEF Inv, Typed, Owners, Prepared
    <3>4. Underway'
      <4>1. version' >= version /\ version' \in Nat
        BY <3>1, <3>2, TypeFacts
      <4>2. QED
        BY <3>1, <3>2, <4>1, CallKeeps DEF Underway
    <3>5. NothingWritten' /\ ClosedPoolIsUnused'
      BY <3>1, <3>2 DEF Inv, NothingWritten, ClosedPoolIsUnused
    <3>6. QED
      BY <3>3, <3>4, <3>5 DEF Inv
  <2>5. QED
    BY <2>1, <2>2, <2>3, <2>4 DEF MCNext
<1>3. QED
  BY <1>1, <1>2, PTL DEF MCSpec

LEMMA AlwaysHttpInv == MCSpec => [](IsHttp => HttpInv)
<1>1. MCInit => (IsHttp => HttpInv)
  <2>1. Init => ~IsHttp
    BY SqlAssumption DEF Init, IsHttp
  <2>2. QED
    BY <2>1, HttpStart DEF MCInit
<1>2. (IsSql => Inv) /\ (IsHttp => HttpInv) /\ [MCNext]_<<vars, http>> => (IsHttp => HttpInv)'
  <2>1. SUFFICES ASSUME IsSql => Inv, IsHttp => HttpInv, [MCNext]_<<vars, http>>, IsHttp'
                 PROVE  HttpInv'
    OBVIOUS
  <2>2. CASE IsSql /\ Next
    <3>1. Inv'
      BY <2>1, <2>2, NextStep
    <3>2. driver' # "http"
      BY <3>1, SqlAssumption DEF Inv, Typed
    <3>3. QED
      BY <2>1, <3>2 DEF IsHttp
  <2>3. CASE IsHttp /\ Http!Next
    BY <2>1, <2>3, HttpStep
  <2>4. CASE UNCHANGED <<vars, http>>
    <3>1. UNCHANGED <<driver, pc, todo, entries, answer, got, asked, client>>
      BY <2>4 DEF vars, source, call, http
    <3>2. HttpInv
      BY <2>1, <3>1 DEF IsHttp
    <3>3. client' \in {"open", "closing", "none"}
      BY <3>1, <3>2 DEF HttpInv
    <3>4. QED
      BY <3>1, <3>2, <3>3, HttpStays
  <2>5. QED
    BY <2>1, <2>2, <2>3, <2>4 DEF MCNext
<1>3. QED
  BY <1>1, <1>2, AlwaysInv, PTL DEF MCSpec

\* However calls, errors, timeouts and a disconnect interleave over a pool whose
\* sessions outlive their checkouts, a statement of execute() runs read-only
\* under its own timeout, nothing is ever written, every call at work has one
\* connection and shares it with none, and a pool is closed when none is in use.
THEOREM SessionsAreKeptApart == MCSpec => []SessionsArePrepared
<1>1. (IsSql => Inv) => SessionsArePrepared
  BY InvImplies DEF SessionsArePrepared
<1>2. QED
  BY <1>1, AlwaysInv, PTL

\* What execute() answers is no older than its call, whatever transaction the
\* connection was left with, and has all the rows the statement selects up to
\* max_rows, whatever LIMIT was injected.
THEOREM RowsAreRight == MCSpec => []AnswersAreRight
<1>1. (IsSql => Inv) => AnswersAreRight
  BY InvImplies DEF AnswersAreRight
<1>2. QED
  BY <1>1, AlwaysInv, PTL

\* The rows of an answer of an HTTP source never come from an error response or from a body
\* over the limit, announced or not, and are never more than were asked for
\* (http_api.py:388-454).
THEOREM AnswersAreLimited == MCSpec => []AnswersWithinLimits
<1>1. (IsHttp => HttpInv) => AnswersWithinLimits
  BY HttpImplies DEF AnswersWithinLimits
<1>2. QED
  BY <1>1, AlwaysHttpInv, PTL

\* A schema has an entry for each resource it was asked for, in their order, whichever of
\* them could not be sampled (http_api.py:587-675).
THEOREM SchemasAreComplete == MCSpec => []EveryResourceDescribed
<1>1. (IsHttp => HttpInv) => EveryResourceDescribed
  BY HttpImplies DEF EveryResourceDescribed
<1>2. QED
  BY <1>1, AlwaysHttpInv, PTL

=============================================================================
