---------------------------- MODULE TablesProofs ----------------------------
(***************************************************************************)
(* Proofs about the two APIs over the one SQLite connection: what POST     *)
(* /query leaves behind, and the saved queries.  Both are for any number   *)
(* of requests, of failing writes and of restarts.                         *)
(***************************************************************************)
EXTENDS MCTables, FiniteSetTheorems, SequenceTheorems, TLAPS

-----------------------------------------------------------------------------
(* The inductive invariant of AuditTrail.                                  *)

Types ==
    /\ disk \in Tables /\ view \in Tables
    /\ pc \in [Queries -> {"idle", "started", "executing", "finishing", "finished",
                           "recording", "inserted", "answered", "lost"}]
    /\ outcome \in [Queries -> {"none", "rows", "DataSourceError", "exception"}]
    /\ code \in [Queries -> {0, 200, 404, 500, 502}]
    /\ \A q \in Queries : (pc[q] = "answered") <=> (code[q] # 0)
    /\ reader \in [Readers -> {"idle", "stats", "counted", "history"}]
    /\ DOMAIN seen = Readers /\ DOMAIN due = Readers
    /\ \A r \in Readers :
         /\ seen[r] = [page |-> seen[r].page, total |-> seen[r].total, errors |-> seen[r].errors]
         /\ due[r] \subseteq Queries
    /\ faults \in 0 .. MaxFaults /\ crashes \in 0 .. MaxCrashes

\* Rows are only appended to history, one for a query, and committed in order.
Histories ==
    /\ IsInjective(view.history)
    /\ Len(disk.history) <= Len(view.history)
    /\ \A k \in DOMAIN disk.history : disk.history[k] = view.history[k]

\* A query that will not insert a row any more.
Past == {q \in Queries : pc[q] \in {"inserted", "answered", "lost"}}

\* The two tables say of a query what has become of it, at each of its commits.
QueryOK(q) ==
    /\ pc[q] = "idle" \/ code[q] = 404 => disk.execution[q] = "none" /\ view.execution[q] = "none"
    /\ pc[q] = "finished" => view.execution[q] = Status(q)
    /\ pc[q] \in {"recording", "inserted"} =>
         outcome[q] = "rows" /\ disk.execution[q] = "ok" /\ view.execution[q] = "ok"
    /\ pc[q] = "inserted" => q \in ToSet(view.history)
    /\ code[q] = 200 => q \in ToSet(disk.history)
    /\ code[q] = 502 => disk.execution[q] = "error" /\ view.execution[q] = "error"
    /\ q \in ToSet(view.history) =>
         q \in Past /\ outcome[q] = "rows" /\ disk.execution[q] = "ok" /\ view.execution[q] = "ok"

\* A row that a page does not have is older than those it has.
Hidden(r) ==
    \A q \in due[r] \ Range(seen[r].page) :
        /\ Len(seen[r].page) = Limit
        /\ \A i, j \in DOMAIN view.history :
              view.history[i] = q /\ view.history[j] \in Range(seen[r].page) => i < j

\* No row is inserted any more for what a page lists.
ReaderOK(r) ==
    reader[r] = "history" =>
        /\ due[r] \subseteq Answered(200) /\ Range(seen[r].page) \subseteq Past
        /\ Hidden(r)

AuditInv ==
    /\ Types /\ Histories
    /\ \A q \in Queries : QueryOK(q)
    /\ \A r \in Readers : ReaderOK(r)

-----------------------------------------------------------------------------
(* The inductive invariant of SavedQueries.                                *)

\* Every id belongs to a request, but for the row there was at first.
Busy == {r \in Queries : pc[r] # "idle"}
Counted == view.last <= 1 + Cardinality(Busy)

Has(table, id) == \E row \in table.rows : row.id = id
Gone(id) == Saved!Deletes(id) # {}

\* The row of an update has what the update has set.
Holds(table, r, field) ==
    \E row \in table.rows : row.id = target[r] /\ row[field] = patch[r][field]
Undone(r, field) == Saved!Rivals(r, field) # {} \/ Gone(target[r])

\* A request that has created a row, which is not known to be lost.
Created(r) == op[r] = "create" /\ (pc[r] \in {"written", "committed"} \/ code[r] = 201)

\* A request between its statements.
OnItsWay(r) ==
    /\ pc[r] \in {"idle", "checked"} => ~applied[r]
    /\ pc[r] = "checked" =>
         op[r] \in {"update", "delete"} /\ (Has(view, target[r]) \/ Gone(target[r]))
    /\ pc[r] = "written" => op[r] \in {"create", "update", "delete"}
    /\ pc[r] = "committed" => op[r] \in {"create", "update"}
    /\ pc[r] \in {"checked", "written", "committed"} => target[r] <= view.last

\* What a request has written is there, in what the connection sees until its
\* commit, and on disk after it.
CreateOK(r) ==
    /\ code[r] = 201 => op[r] = "create"
    /\ op[r] = "create" /\ pc[r] = "written" => Has(view, target[r]) \/ Gone(target[r])
    /\ op[r] = "create" /\ (pc[r] = "committed" \/ code[r] = 201) =>
         /\ target[r] <= disk.last
         /\ (Has(disk, target[r]) /\ Has(view, target[r])) \/ Gone(target[r])

DeleteOK(r) ==
    /\ op[r] = "delete" /\ pc[r] = "written" => ~Has(view, target[r])
    /\ op[r] = "delete" /\ code[r] = 200 =>
         target[r] <= disk.last /\ ~Has(disk, target[r]) /\ ~Has(view, target[r])

UpdateOK(r) ==
    \A field \in {"name", "text"} : op[r] = "update" /\ patch[r][field] # Saved!Unset =>
        /\ pc[r] = "written" => Holds(view, r, field) \/ Undone(r, field)
        /\ pc[r] = "committed" \/ code[r] = 200 =>
             (Holds(disk, r, field) /\ Holds(view, r, field)) \/ Undone(r, field)

RequestOK(r) == OnItsWay(r) /\ CreateOK(r) /\ DeleteOK(r) /\ UpdateOK(r)

\* Ids are given once, as long as their rows are not lost.
Apart ==
    \A r, s \in Queries : r # s /\ Created(r) /\ Created(s) => target[r] # target[s]

SavedInv ==
    /\ Saved!TypeOK /\ Counted /\ Apart
    /\ \A r \in Queries : RequestOK(r)

-----------------------------------------------------------------------------
(* Types and histories.                                                    *)

Places   == {"idle", "started", "executing", "finishing", "finished",
             "recording", "inserted", "answered", "lost"}
Closing  == {"inserted", "answered", "lost"}
Outcomes == {"none", "rows", "DataSourceError", "exception"}
Codes    == {0, 200, 404, 500, 502}

LEMMA TypeFacts ==
    ASSUME Types
    PROVE  /\ disk \in Tables /\ view \in Tables
           /\ disk.history \in Seq(Queries) /\ view.history \in Seq(Queries)
           /\ DOMAIN disk.history = 1 .. Len(disk.history) /\ Len(disk.history) \in Nat
           /\ DOMAIN view.history = 1 .. Len(view.history) /\ Len(view.history) \in Nat
           /\ \A k \in DOMAIN view.history : view.history[k] \in Queries
           /\ pc \in [Queries -> Places] /\ outcome \in [Queries -> Outcomes]
           /\ code \in [Queries -> Codes]
           /\ \A q \in Queries : (pc[q] = "answered") <=> (code[q] # 0)
<1>1. disk.history \in Seq(Queries) /\ view.history \in Seq(Queries)
  BY DEF Types, Tables
<1>2. /\ DOMAIN disk.history = 1 .. Len(disk.history) /\ Len(disk.history) \in Nat
      /\ DOMAIN view.history = 1 .. Len(view.history) /\ Len(view.history) \in Nat
      /\ \A k \in DOMAIN view.history : view.history[k] \in Queries
  BY <1>1, LenProperties
<1>3. QED
  BY <1>1, <1>2 DEF Types, Places, Outcomes, Codes

\* A query whose row is on disk has it in what the connection sees.
LEMMA OnDiskIsSeen ==
    ASSUME Types, Histories, NEW q, q \in ToSet(disk.history)
    PROVE  q \in ToSet(view.history)
<1>1. PICK k \in DOMAIN disk.history : disk.history[k] = q
  BY DEF ToSet
<1>2. k \in DOMAIN view.history /\ view.history[k] = q
  BY <1>1, TypeFacts DEF Histories
<1>3. QED
  BY <1>2 DEF ToSet

\* A query nothing happens to, while others write and commit.
LEMMA QueryKeeps ==
    ASSUME AuditInv, NEW q \in Queries,
           pc'[q] = pc[q], outcome'[q] = outcome[q], code'[q] = code[q],
           view'.execution[q] = view.execution[q],
           disk'.execution[q] \in {disk.execution[q], view.execution[q]},
           q \in ToSet(view'.history) => q \in ToSet(view.history),
           q \in ToSet(view.history) => q \in ToSet(view'.history),
           q \in ToSet(disk.history) => q \in ToSet(disk'.history)
    PROVE  QueryOK(q)'
<1>1. QueryOK(q)
  BY DEF AuditInv
<1>2. Status(q)' = Status(q) /\ (q \in Past)' = (q \in Past)
  BY DEF Status, Past
<1>3. QED
  BY <1>1, <1>2 DEF QueryOK

\* What a page lists, while rows are appended or lost.
LEMMA ReaderKeeps ==
    ASSUME AuditInv, NEW r \in Readers, reader'[r] = reader[r], seen'[r] = seen[r], due'[r] = due[r],
           \A q \in Past : q \in Past',
           \A q \in Queries : code[q] = 200 => code'[q] = 200,
           \A k \in DOMAIN view'.history :
              \/ k \in DOMAIN view.history /\ view'.history[k] = view.history[k]
              \/ view'.history[k] \notin Past /\ code[view'.history[k]] # 200
    PROVE  ReaderOK(r)'
<1> SUFFICES ASSUME reader[r] = "history"
             PROVE  /\ due'[r] \subseteq Answered(200)' /\ Range(seen'[r].page) \subseteq Past'
                    /\ Hidden(r)'
  BY DEF ReaderOK
<1>1. due[r] \subseteq Answered(200) /\ Range(seen[r].page) \subseteq Past /\ Hidden(r)
  BY DEF AuditInv, ReaderOK
<1>2. due'[r] \subseteq Answered(200)' /\ Range(seen'[r].page) \subseteq Past'
  BY <1>1 DEF Answered
<1>3. Hidden(r)'
  <2>1. SUFFICES ASSUME NEW q \in due[r] \ Range(seen[r].page)
                 PROVE  /\ Len(seen[r].page) = Limit
                        /\ \A i, j \in DOMAIN view'.history :
                              view'.history[i] = q /\ view'.history[j] \in Range(seen[r].page) => i < j
    BY DEF Hidden
  <2>2. code[q] = 200
    BY <1>1 DEF Answered
  <2>3. \A i, j \in DOMAIN view'.history :
           view'.history[i] = q /\ view'.history[j] \in Range(seen[r].page)
              => i \in DOMAIN view.history /\ j \in DOMAIN view.history
                 /\ view'.history[i] = view.history[i] /\ view'.history[j] = view.history[j]
    BY <1>1, <2>2
  <2>4. QED
    BY <1>1, <2>3 DEF Hidden
<1>4. QED
  BY <1>2, <1>3

-----------------------------------------------------------------------------
(* The steps of a query.                                                   *)

\* One query goes on ...
Onward(q) ==
    /\ pc' \in [Queries -> Places] /\ outcome' \in [Queries -> Outcomes]
    /\ code' \in [Queries -> Codes] /\ ((pc'[q] = "answered") <=> (code'[q] # 0))
    /\ \A d \in Queries \ {q} : pc'[d] = pc[d] /\ outcome'[d] = outcome[d] /\ code'[d] = code[d]
    /\ (pc[q] \in Closing => pc'[q] \in Closing) /\ code[q] = 0

\* ... and no row is inserted.
LEMMA QueryStep ==
    ASSUME AuditInv, NEW q \in Queries, Onward(q),
           view' \in Tables, view'.history = view.history,
           \A d \in Queries \ {q} : view'.execution[d] = view.execution[d],
           disk' = disk \/ (disk' = view /\ view' = view),
           faults' \in 0 .. MaxFaults, UNCHANGED <<reads, crashes>>,
           QueryOK(q)'
    PROVE  AuditInv'
<1> USE TypeFacts
<1>1. Types /\ Histories
  BY DEF AuditInv
<1>2. \A d \in Queries \ {q} : pc'[d] = pc[d] /\ outcome'[d] = outcome[d] /\ code'[d] = code[d]
  BY DEF Onward
<1>3. Types'
  <2>1. disk' \in Tables
    BY <1>1
  <2>2. /\ pc' \in [Queries -> Places] /\ outcome' \in [Queries -> Outcomes]
        /\ code' \in [Queries -> Codes]
    BY DEF Onward
  <2>3. \A d \in Queries : (pc'[d] = "answered") <=> (code'[d] # 0)
    BY <1>1, <1>2 DEF Onward
  <2>4. UNCHANGED <<reader, seen, due, crashes>>
    BY DEF reads
  <2>5. QED
    BY <1>1, <2>1, <2>2, <2>3, <2>4 DEF Types, Places, Outcomes, Codes
<1>4. Histories'
  BY <1>1 DEF Histories
<1>5. \A d \in Queries : QueryOK(d)'
  <2>1. SUFFICES ASSUME NEW d \in Queries \ {q} PROVE QueryOK(d)'
    OBVIOUS
  <2>2. d \in ToSet(disk.history) => d \in ToSet(disk'.history)
    BY <1>1, OnDiskIsSeen
  <2>3. disk'.execution[d] \in {disk.execution[d], view.execution[d]}
    OBVIOUS
  <2>4. ToSet(view'.history) = ToSet(view.history)
    OBVIOUS
  <2>5. QED
    BY <1>2, <2>2, <2>3, <2>4, QueryKeeps
<1>6. \A r \in Readers : ReaderOK(r)'
  <2>1. \A d \in Past : d \in Past'
    BY <1>2 DEF Past, Closing, Onward
  <2>2. UNCHANGED <<reader, seen, due>>
    BY DEF reads
  <2>3. \A d \in Queries : code[d] = 200 => code'[d] = 200
    BY <1>2 DEF Onward
  <2>4. QED
    BY <1>1, <2>1, <2>2, <2>3, ReaderKeeps
<1>7. QED
  BY <1>3, <1>4, <1>5, <1>6 DEF AuditInv

LEMMA BeginStep ==
    ASSUME AuditInv, NEW q \in Queries, Begin(q)
    PROVE  AuditInv'
<1> USE TypeFacts
<1>1. Types /\ QueryOK(q) /\ pc[q] = "idle" /\ UNCHANGED <<disk, outcome, reads, faults, crashes>>
  BY DEF AuditInv, Begin
<1>2. code[q] = 0 /\ faults \in 0 .. MaxFaults /\ outcome' = [outcome EXCEPT ![q] = outcome[q]]
      /\ outcome[q] \in Outcomes
  BY <1>1 DEF Types
<1>3. q \notin ToSet(view.history) /\ disk.execution[q] = "none" /\ view.execution[q] = "none"
  BY <1>1 DEF QueryOK, Past
<1>4. CASE Answer(q, 404) /\ UNCHANGED view
  <2>1. pc' = [pc EXCEPT ![q] = "answered"] /\ code' = [code EXCEPT ![q] = 404]
    BY <1>4 DEF Answer
  <2>2. QueryOK(q)'
    BY <1>1, <1>3, <1>4, <2>1 DEF QueryOK
  <2>3. Onward(q)
    BY <1>1, <1>2, <1>4, <2>1, <2>2 DEF Onward, Places, Codes, Outcomes, Closing
  <2>4. QED
    BY <1>1, <1>2, <1>4, <2>1, <2>2, <2>3, QueryStep
<1>5. CASE /\ view' = [view EXCEPT !.execution[q] = "open"]
           /\ pc' = [pc EXCEPT ![q] = "started"] /\ UNCHANGED code
  <2>1. code' = [code EXCEPT ![q] = 0]
    BY <1>1, <1>2, <1>5
  <2>2. /\ view' \in Tables /\ view'.history = view.history
        /\ \A d \in Queries \ {q} : view'.execution[d] = view.execution[d]
    BY <1>1, <1>5 DEF Tables
  <2>3. QueryOK(q)'
    BY <1>1, <1>2, <1>3, <1>5, <2>1, <2>2 DEF QueryOK
  <2>4. Onward(q)
    BY <1>1, <1>2, <1>5, <2>1, <2>2, <2>3 DEF Onward, Places, Codes, Outcomes, Closing
  <2>5. QED
    BY <1>1, <1>2, <1>5, <2>1, <2>2, <2>3, <2>4, QueryStep
<1>6. QED
  BY <1>4, <1>5 DEF Begin

\* A commit after a query's statement, or its execution by the source.
LEMMA GoesOn ==
    ASSUME AuditInv, NEW q \in Queries, CommitStart(q) \/ Execute(q)
    PROVE  AuditInv'
<1> USE TypeFacts
<1>1. PICK p \in {"executing", "finishing"}, o \in Outcomes :
        /\ pc' = [pc EXCEPT ![q] = p] /\ outcome' = [outcome EXCEPT ![q] = o]
        /\ UNCHANGED <<view, code, reads, faults, crashes>>
        /\ disk' \in {disk, view}
  <2>1. Types
    BY DEF AuditInv
  <2>2. CASE CommitStart(q)
    BY <2>1, <2>2 DEF CommitStart, Commit
  <2>3. CASE Execute(q)
    BY <2>1, <2>3 DEF Execute, Outcomes
  <2>4. QED
    BY <2>2, <2>3
<1>2. Types /\ QueryOK(q) /\ pc[q] \in {"started", "executing"}
  BY DEF AuditInv, CommitStart, Execute
<1>3. code[q] = 0 /\ code' = [code EXCEPT ![q] = 0] /\ faults \in 0 .. MaxFaults
  BY <1>1, <1>2 DEF Types
<1>4. q \notin ToSet(view.history) /\ q \notin ToSet(view'.history)
  BY <1>1, <1>2 DEF QueryOK, Past
<1>5. pc'[q] = p /\ code'[q] = 0
  BY <1>1, <1>2, <1>3
<1>6. QueryOK(q)'
  BY <1>4, <1>5 DEF QueryOK
<1>7. Onward(q)
  BY <1>1, <1>2, <1>3, <1>6 DEF Onward, Places, Codes, Outcomes, Closing
<1>8. QED
  BY <1>1, <1>2, <1>3, <1>6, <1>7, QueryStep

LEMMA FinishStep ==
    ASSUME AuditInv, NEW q \in Queries, Finish(q)
    PROVE  AuditInv'
<1> USE TypeFacts
<1>1. /\ pc[q] = "finishing" /\ view' = [view EXCEPT !.execution[q] = Status(q)]
      /\ pc' = [pc EXCEPT ![q] = "finished"]
      /\ UNCHANGED <<disk, outcome, code, reads, faults, crashes>>
  BY DEF Finish
<1>2. Types /\ QueryOK(q)
  BY DEF AuditInv
<1>3. code[q] = 0 /\ code' = [code EXCEPT ![q] = 0] /\ faults \in 0 .. MaxFaults
      /\ outcome[q] \in Outcomes /\ outcome' = [outcome EXCEPT ![q] = outcome[q]]
  BY <1>1, <1>2 DEF Types
<1>4. q \notin ToSet(view.history)
  BY <1>1, <1>2 DEF QueryOK, Past
<1>5. Status(q) \in {"ok", "error"} /\ Status(q)' = Status(q)
  BY <1>1 DEF Status
<1>6. /\ view' \in Tables /\ view'.history = view.history /\ view'.execution[q] = Status(q)
      /\ \A d \in Queries \ {q} : view'.execution[d] = view.execution[d]
  <2> DEFINE s == Status(q)
  <2>1. s \in {"none", "open", "ok", "error"} /\ view' = [view EXCEPT !.execution[q] = s]
    BY <1>1, <1>5
  <2> HIDE DEF s
  <2>2. /\ view' \in Tables /\ view'.history = view.history /\ view'.execution[q] = s
        /\ \A d \in Queries \ {q} : view'.execution[d] = view.execution[d]
    BY <1>2, <2>1 DEF Tables
  <2>3. QED
    BY <2>2 DEF s
<1>7. QueryOK(q)'
  <2>1. pc'[q] = "finished" /\ code'[q] = 0 /\ q \notin ToSet(view'.history)
    BY <1>1, <1>2, <1>3, <1>4, <1>6
  <2>2. QED
    BY <1>5, <1>6, <2>1 DEF QueryOK
<1>8. Onward(q)
  BY <1>1, <1>2, <1>3, <1>6, <1>7 DEF Onward, Places, Codes, Outcomes, Closing
<1>9. QED
  BY <1>1, <1>2, <1>3, <1>6, <1>7, <1>8, QueryStep

LEMMA CommitFinishStep ==
    ASSUME AuditInv, NEW q \in Queries, CommitFinish(q)
    PROVE  AuditInv'
<1> USE TypeFacts
<1>1. pc[q] = "finished" /\ disk' = view /\ UNCHANGED <<view, outcome, reads, faults, crashes>>
  BY DEF CommitFinish, Commit
<1>2. Types /\ QueryOK(q)
  BY DEF AuditInv
<1>3. code[q] = 0 /\ faults \in 0 .. MaxFaults
      /\ outcome[q] \in Outcomes /\ outcome' = [outcome EXCEPT ![q] = outcome[q]]
  BY <1>1, <1>2 DEF Types
<1>4. q \notin ToSet(view.history) /\ view.execution[q] = Status(q)
  BY <1>1, <1>2 DEF QueryOK, Past
<1>5. /\ pc' \in [Queries -> Places] /\ code' \in [Queries -> Codes]
      /\ pc'[q] \in {"recording", "answered"} /\ code'[q] \in {0, 500, 502}
      /\ (pc'[q] = "answered") <=> (code'[q] # 0)
      /\ pc'[q] = "recording" => outcome[q] = "rows"
      /\ code'[q] = 502 => outcome[q] # "rows"
      /\ \A d \in Queries \ {q} : pc'[d] = pc[d] /\ code'[d] = code[d]
  <2>1. CASE outcome[q] = "rows" /\ pc' = [pc EXCEPT ![q] = "recording"] /\ UNCHANGED code
    BY <1>2, <1>3, <2>1 DEF Places
  <2>2. CASE outcome[q] = "DataSourceError" /\ Answer(q, 502)
    BY <1>2, <2>2 DEF Answer, Places, Codes
  <2>3. CASE outcome[q] = "exception" /\ Answer(q, 500)
    BY <1>2, <2>3 DEF Answer, Places, Codes
  <2>4. QED
    BY <2>1, <2>2, <2>3 DEF CommitFinish
<1>6. QueryOK(q)'
  BY <1>1, <1>4, <1>5 DEF QueryOK, Status
<1>7. Onward(q)
  <2>1. outcome' \in [Queries -> Outcomes] /\ \A d \in Queries : outcome'[d] = outcome[d]
    BY <1>1, <1>2
  <2>2. pc[q] \notin Closing /\ ((pc'[q] = "answered") <=> (code'[q] # 0))
    BY <1>1, <1>5 DEF Closing
  <2>3. QED
    BY <1>3, <1>5, <2>1, <2>2 DEF Onward
<1>8. QED
  BY <1>1, <1>2, <1>3, <1>6, <1>7, QueryStep

LEMMA InsertRowStep ==
    ASSUME AuditInv, NEW q \in Queries, InsertRow(q)
    PROVE  AuditInv'
<1> USE TypeFacts
<1> DEFINE h == view.history  g == Append(h, q)
<1>1. /\ pc[q] = "recording" /\ view' = [view EXCEPT !.history = g]
      /\ pc' = [pc EXCEPT ![q] = "inserted"]
      /\ UNCHANGED <<disk, outcome, code, reads, faults, crashes>>
  BY DEF InsertRow
<1>2. Types /\ Histories /\ QueryOK(q)
  BY DEF AuditInv
<1>3. /\ h \in Seq(Queries) /\ Len(h) \in Nat /\ DOMAIN h = 1 .. Len(h)
      /\ g \in Seq(Queries) /\ DOMAIN g = 1 .. Len(h) + 1 /\ Len(g) = Len(h) + 1
      /\ \A k \in DOMAIN h : g[k] = h[k]
      /\ g[Len(h) + 1] = q
  BY <1>2, AppendProperties, LenProperties
<1>4. q \notin Past /\ q \notin ToSet(h) /\ code[q] = 0
  BY <1>1, <1>2 DEF QueryOK, Past
<1> HIDE DEF g
<1>5. view' \in Tables /\ view'.history = g /\ view'.execution = view.execution
  BY <1>1, <1>2, <1>3 DEF Tables
<1> HIDE DEF h
<1>6. pc'[q] = "inserted" /\ \A d \in Queries \ {q} : pc'[d] = pc[d]
  BY <1>1, <1>2
<1>7. Types'
  BY <1>1, <1>2, <1>4, <1>5, <1>6 DEF Types, reads
<1>8. Histories'
  <2>1. IsInjective(g)
    <3>1. \A k \in 1 .. Len(h) : g[k] = h[k] /\ h[k] # q
      BY <1>3, <1>4 DEF ToSet
    <3>2. \A i, k \in 1 .. Len(h) : h[i] = h[k] => i = k
      BY <1>2, <1>3 DEF Histories, IsInjective, h
    <3>3. \A i \in 1 .. Len(h) + 1 : i \in 1 .. Len(h) \/ i = Len(h) + 1
      BY <1>3
    <3>4. QED
      BY <1>3, <3>1, <3>2, <3>3 DEF IsInjective
  <2>2. Len(disk.history) <= Len(g) /\ \A k \in DOMAIN disk.history : disk.history[k] = g[k]
    <3>1. /\ Len(disk.history) \in Nat /\ Len(disk.history) <= Len(h)
          /\ DOMAIN disk.history = 1 .. Len(disk.history)
          /\ \A k \in DOMAIN disk.history : disk.history[k] = h[k]
      BY <1>2, TypeFacts DEF Histories, h
    <3>2. \A k \in DOMAIN disk.history : k \in DOMAIN h
      BY <1>3, <3>1
    <3>3. QED
      BY <1>3, <3>1, <3>2
  <2>3. QED
    BY <1>1, <1>5, <2>1, <2>2 DEF Histories
<1>9. \A d \in Queries : QueryOK(d)'
  <2>1. ToSet(g) = ToSet(h) \cup {q}
    BY <1>3 DEF ToSet
  <2>2. \A d \in Queries \ {q} : QueryOK(d)'
    BY <1>1, <1>5, <1>6, <2>1, QueryKeeps DEF h
  <2>3. QueryOK(q)'
    <3>1. outcome[q] = "rows" /\ disk.execution[q] = "ok" /\ view.execution[q] = "ok"
      BY <1>1, <1>2 DEF QueryOK
    <3>2. q \in ToSet(g) /\ q \in Past'
      BY <1>6, <2>1 DEF Past
    <3>3. QED
      BY <1>1, <1>4, <1>5, <1>6, <3>1, <3>2 DEF QueryOK
  <2>4. QED
    BY <2>2, <2>3
<1>10. \A r \in Readers : ReaderOK(r)'
  <2>1. \A k \in DOMAIN g : (k \in DOMAIN h /\ g[k] = h[k]) \/ g[k] = q
    BY <1>3
  <2>2. \A d \in Past : d \in Past'
    BY <1>6 DEF Past
  <2>3. UNCHANGED <<reader, seen, due>>
    BY <1>1 DEF reads
  <2>4. QED
    BY <1>1, <1>4, <1>5, <2>1, <2>2, <2>3, ReaderKeeps DEF h
<1>11. QED
  BY <1>7, <1>8, <1>9, <1>10 DEF AuditInv

LEMMA CommitRowStep ==
    ASSUME AuditInv, NEW q \in Queries, CommitRow(q)
    PROVE  AuditInv'
<1> USE TypeFacts
<1>1. /\ pc[q] = "inserted" /\ disk' = view
      /\ pc' = [pc EXCEPT ![q] = "answered"] /\ code' = [code EXCEPT ![q] = 200]
      /\ UNCHANGED <<view, outcome, reads, faults, crashes>>
  BY DEF CommitRow, Commit, Answer
<1>2. Types /\ QueryOK(q)
  BY DEF AuditInv
<1>3. code[q] = 0 /\ faults \in 0 .. MaxFaults
      /\ outcome[q] \in Outcomes /\ outcome' = [outcome EXCEPT ![q] = outcome[q]]
  BY <1>1, <1>2 DEF Types
<1>4. /\ outcome[q] = "rows" /\ view.execution[q] = "ok" /\ q \in ToSet(view.history)
  BY <1>1, <1>2 DEF QueryOK
<1>5. pc'[q] = "answered" /\ code'[q] = 200 /\ q \in Past'
  BY <1>1, <1>2 DEF Past
<1>6. QueryOK(q)'
  BY <1>1, <1>4, <1>5 DEF QueryOK
<1>7. Onward(q)
  BY <1>1, <1>2, <1>3, <1>6 DEF Onward, Places, Codes, Outcomes, Closing
<1>8. QED
  BY <1>1, <1>2, <1>3, <1>6, <1>7, QueryStep

\* A failing write leaves the tables as they are.
LEMMA FailsStep ==
    ASSUME AuditInv, NEW q \in Queries, WriteFails(q) \/ StartFails(q)
    PROVE  AuditInv'
<1> USE TypeFacts
<1>1. /\ pc[q] \in {"idle", "started", "finishing", "finished", "recording", "inserted"}
      /\ pc' = [pc EXCEPT ![q] = "answered"] /\ code' = [code EXCEPT ![q] = 500]
      /\ faults < MaxFaults /\ faults' = faults + 1
      /\ UNCHANGED <<disk, view, outcome, reads, crashes>>
  BY DEF WriteFails, StartFails, Answer
<1>2. Types /\ QueryOK(q)
  BY DEF AuditInv
<1>3. code[q] = 0 /\ faults' \in 0 .. MaxFaults
      /\ outcome[q] \in Outcomes /\ outcome' = [outcome EXCEPT ![q] = outcome[q]]
  BY <1>1, <1>2, AuditAssumption DEF Types
<1>4. pc'[q] = "answered" /\ code'[q] = 500 /\ q \in Past'
  BY <1>1, <1>2 DEF Past
<1>5. QueryOK(q)'
  BY <1>1, <1>2, <1>4 DEF QueryOK
<1>6. Onward(q)
  BY <1>1, <1>2, <1>3, <1>5 DEF Onward, Places, Codes, Outcomes, Closing
<1>7. QED
  BY <1>1, <1>2, <1>3, <1>5, <1>6, QueryStep

-----------------------------------------------------------------------------
(* Readers, restarts and the commits of others.                            *)

\* The tables and the queries stay as they are.
LEMMA ReaderStep ==
    ASSUME AuditInv, UNCHANGED <<disk, view, query, faults, crashes>>, Types',
           \A r \in Readers : ReaderOK(r)'
    PROVE  AuditInv'
<1>1. UNCHANGED <<pc, outcome, code>>
  BY DEF query
<1>2. Histories'
  BY DEF AuditInv, Histories
<1>3. \A q \in Queries : QueryOK(q)'
  BY <1>1, QueryKeeps
<1>4. QED
  BY <1>2, <1>3 DEF AuditInv

\* The page is the last rows, the newest first.
LEMMA RecentRows ==
    ASSUME NEW h \in Seq(Queries), NEW page, page = Recent(h)
    PROVE  /\ Range(page) \subseteq ToSet(h)
           /\ Len(page) <= Limit
           /\ Len(page) < Limit => ToSet(h) \subseteq Range(page)
           /\ \A i, j \in DOMAIN h : h[i] \notin Range(page) /\ h[j] \in Range(page) =>
                 \E m \in DOMAIN h : h[m] = h[j] /\ i < m
           /\ Len(page) \in Nat
<1> DEFINE n == Len(h)
           R == Reverse(h)
           l == IF Len(R) < Limit THEN Len(R) ELSE Limit
<1>1. n \in Nat /\ DOMAIN h = 1 .. n /\ \A k \in 1 .. n : h[k] \in Queries
  BY LenProperties
<1>2. R = [i \in 1 .. n |-> h[(n - i) + 1]]
  BY DEF Reverse
<1>3. \A i \in 1 .. n : (n - i) + 1 \in 1 .. n
  BY <1>1
<1>4. R \in [1 .. n -> Queries]
  BY <1>1, <1>2, <1>3
<1>5. R \in Seq(Queries) /\ Len(R) = n
  BY <1>1, <1>4, SeqDef, LenProperties
<1>6. Limit \in Nat /\ l \in Nat /\ l <= n /\ l <= Limit /\ (l < Limit => l = n)
  <2> DEFINE k == Len(R)
  <2>1. k = n /\ n \in Nat /\ Limit \in Nat
    BY <1>1, <1>5, AuditAssumption
  <2>2. l = IF k < Limit THEN k ELSE Limit
    OBVIOUS
  <2> HIDE DEF k, l, n, R
  <2>3. QED
    BY <2>1, <2>2
<1>7. page = SubSeq(R, 1, l)
  <2>1. Recent(h) = SubSeq(Reverse(h), 1, IF n < Limit THEN n ELSE Limit)
    BY DEF Recent
  <2>2. l = IF n < Limit THEN n ELSE Limit
    BY <1>5
  <2>3. QED
    BY <2>1, <2>2
<1> HIDE DEF R, l, n
<1>8. /\ page \in Seq(Queries) /\ Len(page) = l /\ \A i \in 1 .. l : page[i] = R[i]
  <2>1. \A i \in 1 .. l : R[i] \in Queries
    BY <1>1, <1>4, <1>6
  <2>2. /\ page \in Seq(Queries) /\ Len(page) = IF 1 <= l THEN l - 1 + 1 ELSE 0
        /\ \A i \in 1 .. l - 1 + 1 : page[i] = R[1 + i - 1]
    BY <1>6, <1>7, <2>1, SubSeqProperties
  <2>3. l - 1 + 1 = l /\ \A i \in 1 .. l : 1 + i - 1 = i
    BY <1>6
  <2>4. (IF 1 <= l THEN l ELSE 0) = l
    BY <1>6
  <2>5. QED
    BY <2>2, <2>3, <2>4
<1>9. DOMAIN page = 1 .. l /\ \A i \in 1 .. l : page[i] = h[(n - i) + 1] /\ (n - i) + 1 \in DOMAIN h
  <2>1. \A i \in 1 .. l : i \in 1 .. n
    BY <1>1, <1>6
  <2>2. QED
    BY <1>1, <1>2, <1>3, <1>8, <2>1, LenProperties
<1>10. \A k \in (n - l) + 1 .. n : h[k] \in Range(page)
  <2>1. SUFFICES ASSUME NEW k \in (n - l) + 1 .. n PROVE h[k] \in Range(page)
    OBVIOUS
  <2>2. (n - k) + 1 \in 1 .. l /\ (n - ((n - k) + 1)) + 1 = k
    BY <1>1, <1>6
  <2>3. page[(n - k) + 1] = h[k]
    BY <1>9, <2>2
  <2>4. QED
    BY <1>9, <2>2, <2>3 DEF Range
<1>11. Range(page) \subseteq ToSet(h)
  BY <1>9 DEF Range, ToSet
<1>12. l < Limit => ToSet(h) \subseteq Range(page)
  <2>1. SUFFICES ASSUME l = n, NEW k \in DOMAIN h PROVE h[k] \in Range(page)
    BY <1>6 DEF ToSet
  <2>2. k \in (n - l) + 1 .. n
    BY <1>1, <2>1
  <2>3. QED
    BY <1>10, <2>2
<1>13. ASSUME NEW i \in DOMAIN h, NEW j \in DOMAIN h, h[i] \notin Range(page), h[j] \in Range(page)
       PROVE  \E m \in DOMAIN h : h[m] = h[j] /\ i < m
  <2>1. PICK m \in 1 .. l : page[m] = h[j]
    BY <1>9, <1>13 DEF Range
  <2>2. (n - m) + 1 \in DOMAIN h /\ h[(n - m) + 1] = h[j]
    BY <1>9, <2>1
  <2>3. ~(i \in (n - l) + 1 .. n)
    BY <1>10, <1>13
  <2>4. i < (n - m) + 1
    BY <1>1, <1>6, <2>3
  <2>5. QED
    BY <2>2, <2>4
<1>14. QED
  BY <1>6, <1>8, <1>11, <1>12, <1>13

LEMMA ReadHistoryStep ==
    ASSUME AuditInv, NEW r \in Readers, ReadHistory(r)
    PROVE  AuditInv'
<1> USE TypeFacts
<1> DEFINE h == view.history  page == Recent(h)
<1>1. /\ seen' = [seen EXCEPT ![r].page = page] /\ due' = [due EXCEPT ![r] = Answered(200)]
      /\ reader' = [reader EXCEPT ![r] = "history"]
      /\ UNCHANGED <<disk, view, query, faults, crashes>>
  BY DEF ReadHistory
<1>2. Types /\ Histories /\ h \in Seq(Queries)
  BY DEF AuditInv
<1>3. /\ Range(page) \subseteq ToSet(h) /\ Len(page) <= Limit /\ Len(page) \in Nat
      /\ Len(page) < Limit => ToSet(h) \subseteq Range(page)
      /\ \A i, j \in DOMAIN h : h[i] \notin Range(page) /\ h[j] \in Range(page) =>
            \E m \in DOMAIN h : h[m] = h[j] /\ i < m
  BY <1>2, RecentRows
<1> HIDE DEF page
<1>4. /\ seen'[r] = [page |-> page, total |-> seen[r].total, errors |-> seen[r].errors]
      /\ due'[r] = Answered(200)
      /\ \A s \in Readers \ {r} : seen'[s] = seen[s] /\ due'[s] = due[s] /\ reader'[s] = reader[s]
  BY <1>1, <1>2 DEF Types
<1>5. UNCHANGED <<pc, outcome, code>>
  BY <1>1 DEF query
<1>6. Types'
  <2>1. DOMAIN seen' = Readers /\ DOMAIN due' = Readers
        /\ reader' \in [Readers -> {"idle", "stats", "counted", "history"}]
    BY <1>1, <1>2 DEF Types
  <2>2. \A s \in Readers :
           /\ seen'[s] = [page |-> seen'[s].page, total |-> seen'[s].total, errors |-> seen'[s].errors]
           /\ due'[s] \subseteq Queries
    BY <1>2, <1>4 DEF Types, Answered
  <2>3. QED
    BY <1>1, <1>2, <1>5, <2>1, <2>2 DEF Types
<1>7. ReaderOK(r)'
  <2>1. \A q \in Answered(200) : q \in ToSet(h)
    BY <1>2, OnDiskIsSeen DEF Answered, AuditInv, QueryOK
  <2>2. Range(page) \subseteq Past
    <3>1. \A q \in ToSet(h) : q \in Queries
      BY <1>2 DEF ToSet
    <3>2. QED
      BY <1>3, <3>1 DEF AuditInv, QueryOK
  <2>3. ASSUME NEW q \in Answered(200) \ Range(page)
        PROVE  /\ Len(page) = Limit
               /\ \A i, j \in DOMAIN h : h[i] = q /\ h[j] \in Range(page) => i < j
    <3>1. Len(page) = Limit
      BY <1>3, <2>1, <2>3, AuditAssumption
    <3>2. \A i, j \in DOMAIN h : h[i] = q /\ h[j] \in Range(page) => i < j
      <4>1. SUFFICES ASSUME NEW i \in DOMAIN h, NEW j \in DOMAIN h, h[i] = q, h[j] \in Range(page)
                     PROVE  i < j
        OBVIOUS
      <4>2. PICK m \in DOMAIN h : h[m] = h[j] /\ i < m
        BY <1>3, <2>3, <4>1
      <4>3. m = j
        BY <1>2, <4>2 DEF Histories, IsInjective
      <4>4. QED
        BY <4>2, <4>3
    <3>3. QED
      BY <3>1, <3>2
  <2>4. Answered(200)' = Answered(200) /\ Past' = Past /\ view'.history = h
    BY <1>1, <1>5 DEF Answered, Past
  <2>5. Hidden(r)'
    BY <1>4, <2>3, <2>4 DEF Hidden
  <2>6. QED
    BY <1>4, <2>2, <2>4, <2>5 DEF ReaderOK
<1>8. \A s \in Readers \ {r} : ReaderOK(s)'
  BY <1>1, <1>4, <1>5, ReaderKeeps DEF Past
<1>9. QED
  BY <1>1, <1>6, <1>7, <1>8, ReaderStep

LEMMA CountStep ==
    ASSUME AuditInv, NEW r \in Readers, CountAll(r) \/ CountErrors(r)
    PROVE  AuditInv'
<1> USE TypeFacts
<1>1. Types /\ UNCHANGED <<disk, view, query, faults, crashes>>
  BY DEF AuditInv, CountAll, CountErrors
<1>2. UNCHANGED <<pc, outcome, code>>
  BY <1>1 DEF query
<1>3. /\ DOMAIN seen' = Readers /\ DOMAIN due' = Readers
      /\ reader' \in [Readers -> {"idle", "stats", "counted", "history"}]
      /\ seen'[r] = [page |-> seen'[r].page, total |-> seen'[r].total, errors |-> seen'[r].errors]
      /\ due'[r] \subseteq Queries /\ reader'[r] \in {"stats", "counted"}
      /\ \A s \in Readers \ {r} : seen'[s] = seen[s] /\ due'[s] = due[s] /\ reader'[s] = reader[s]
  <2>1. CASE CountAll(r)
    <3> DEFINE k == Cardinality(Executions)
    <3>1. seen' = [seen EXCEPT ![r].total = k] /\ due' = [due EXCEPT ![r] = Answered(502)]
          /\ reader' = [reader EXCEPT ![r] = "stats"]
      BY <2>1 DEF CountAll
    <3> HIDE DEF k
    <3>2. seen'[r] = [page |-> seen[r].page, total |-> k, errors |-> seen[r].errors]
      <4>1. [seen[r] EXCEPT !.total = k] = [page |-> seen[r].page, total |-> k, errors |-> seen[r].errors]
        BY <1>1 DEF Types
      <4>2. seen'[r] = [seen[r] EXCEPT !.total = k]
        BY <1>1, <3>1 DEF Types
      <4>3. QED
        BY <4>1, <4>2
    <3>3. seen'[r] = [page |-> seen'[r].page, total |-> seen'[r].total, errors |-> seen'[r].errors]
      BY <3>2
    <3>4. Answered(502) \subseteq Queries
      BY DEF Answered
    <3>5. QED
      BY <1>1, <3>1, <3>3, <3>4 DEF Types
  <2>2. CASE CountErrors(r)
    <3> DEFINE k == Cardinality(FailedExecutions)
    <3>1. seen' = [seen EXCEPT ![r].errors = k] /\ due' = due
          /\ reader' = [reader EXCEPT ![r] = "counted"]
      BY <2>2 DEF CountErrors
    <3> HIDE DEF k
    <3>2. seen'[r] = [page |-> seen[r].page, total |-> seen[r].total, errors |-> k]
      <4>1. [seen[r] EXCEPT !.errors = k] = [page |-> seen[r].page, total |-> seen[r].total, errors |-> k]
        BY <1>1 DEF Types
      <4>2. seen'[r] = [seen[r] EXCEPT !.errors = k]
        BY <1>1, <3>1 DEF Types
      <4>3. QED
        BY <4>1, <4>2
    <3>3. seen'[r] = [page |-> seen'[r].page, total |-> seen'[r].total, errors |-> seen'[r].errors]
      BY <3>2
    <3>4. QED
      BY <1>1, <3>1, <3>3 DEF Types
  <2>3. QED
    BY <2>1, <2>2
<1>4. \A s \in Readers :
         /\ seen'[s] = [page |-> seen'[s].page, total |-> seen'[s].total, errors |-> seen'[s].errors]
         /\ due'[s] \subseteq Queries
  BY <1>1, <1>3 DEF Types
<1>5. Types'
  BY <1>1, <1>2, <1>3, <1>4 DEF Types
<1>6. ReaderOK(r)'
  BY <1>3 DEF ReaderOK
<1>7. \A s \in Readers \ {r} : ReaderOK(s)'
  BY <1>1, <1>2, <1>3, ReaderKeeps DEF Past
<1>8. QED
  BY <1>1, <1>5, <1>6, <1>7, ReaderStep

\* What is on disk is a beginning of what the connection saw.
LEMMA CrashStep ==
    ASSUME AuditInv, Crash
    PROVE  AuditInv'
<1> USE TypeFacts
<1>1. /\ crashes < MaxCrashes /\ crashes' = crashes + 1 /\ view' = disk
      /\ pc' = [q \in Queries |-> IF pc[q] \in {"idle", "answered"} THEN pc[q] ELSE "lost"]
      /\ reader' = [r \in Readers |-> IF reader[r] = "stats" THEN "idle" ELSE reader[r]]
      /\ UNCHANGED <<disk, outcome, code, seen, due, faults>>
  BY DEF Crash
<1>2. Types /\ Histories
  BY DEF AuditInv
<1>3. \A q \in Queries : pc'[q] = IF pc[q] \in {"idle", "answered"} THEN pc[q] ELSE "lost"
  BY <1>1
<1>4. Types'
  <2>1. crashes' \in 0 .. MaxCrashes
    BY <1>1, <1>2, AuditAssumption DEF Types
  <2>2. pc' \in [Queries -> Places]
    BY <1>1, <1>2 DEF Places
  <2>3. reader' \in [Readers -> {"idle", "stats", "counted", "history"}]
    BY <1>1, <1>2 DEF Types
  <2>4. \A q \in Queries : (pc'[q] = "answered") <=> (code[q] # 0)
    BY <1>2, <1>3
  <2>5. QED
    BY <1>1, <1>2, <2>1, <2>2, <2>3, <2>4 DEF Types, Places
<1>5. Histories'
  <2>1. IsInjective(disk.history)
    BY <1>2 DEF Histories, IsInjective
  <2>2. QED
    BY <1>1, <1>2, <2>1 DEF Histories
<1>6. \A q \in Queries : QueryOK(q)'
  <2>1. SUFFICES ASSUME NEW q \in Queries PROVE QueryOK(q)'
    OBVIOUS
  <2>2. QueryOK(q)
    BY DEF AuditInv
  <2>3. q \in Past => q \in Past'
    BY <1>3 DEF Past
  <2>4. q \in ToSet(disk.history) => q \in ToSet(view.history)
    BY <1>2, OnDiskIsSeen
  <2>5. pc'[q] \in {"idle", "answered", "lost"} /\ (pc'[q] = "idle" => pc[q] = "idle")
    BY <1>3
  <2>6. QED
    BY <1>1, <2>2, <2>3, <2>4, <2>5 DEF QueryOK
<1>7. \A r \in Readers : ReaderOK(r)'
  <2>1. SUFFICES ASSUME NEW r \in Readers, reader'[r] = "history" PROVE ReaderOK(r)'
    BY DEF ReaderOK
  <2>2. reader'[r] = reader[r]
    BY <1>1, <2>1
  <2>3. \A q \in Past : q \in Past'
    BY <1>3 DEF Past
  <2>4. \A k \in DOMAIN view'.history : k \in DOMAIN view.history /\ view'.history[k] = view.history[k]
    BY <1>1, <1>2 DEF Histories
  <2>5. QED
    BY <1>1, <2>2, <2>3, <2>4, ReaderKeeps
<1>8. QED
  BY <1>4, <1>5, <1>6, <1>7 DEF AuditInv

LEMMA OthersCommitStep ==
    ASSUME AuditInv, \/ OthersCommit
                     \/ UNCHANGED vars
    PROVE  AuditInv'
<1> USE TypeFacts
<1>1. /\ disk' \in {disk, view}
      /\ UNCHANGED <<view, pc, outcome, code, reader, seen, due, faults, crashes>>
  BY DEF OthersCommit, Commit, vars, query, reads
<1>2. Types /\ Histories
  BY DEF AuditInv
<1>3. Types' /\ Histories'
  BY <1>1, <1>2 DEF Types, Histories
<1>4. \A q \in Queries : QueryOK(q)'
  BY <1>1, <1>2, OnDiskIsSeen, QueryKeeps
<1>5. \A r \in Readers : ReaderOK(r)'
  BY <1>1, ReaderKeeps DEF Past
<1>6. QED
  BY <1>3, <1>4, <1>5 DEF AuditInv

LEMMA AuditStart == Init => AuditInv
<1> SUFFICES ASSUME Init PROVE AuditInv
  OBVIOUS
<1>1. /\ disk = Empty /\ view = Empty /\ faults = 0 /\ crashes = 0
      /\ pc = [q \in Queries |-> "idle"] /\ outcome = [q \in Queries |-> "none"]
      /\ code = [q \in Queries |-> 0] /\ reader = [r \in Readers |-> "idle"]
      /\ seen = [r \in Readers |-> Nothing] /\ due = [r \in Readers |-> {}]
  BY DEF Init
<1>2. Empty.history = <<>> /\ \A q \in Queries : Empty.execution[q] = "none"
  BY DEF Empty
<1>3. Empty \in Tables /\ <<>> \in Seq(Queries) /\ Len(<<>>) = 0 /\ DOMAIN <<>> = {}
  BY DEF Empty, Tables
<1>4. 0 \in 0 .. MaxFaults /\ 0 \in 0 .. MaxCrashes
  BY AuditAssumption
<1>5. Types
  BY <1>1, <1>3, <1>4 DEF Types, Nothing
<1>6. Histories
  BY <1>1, <1>2, <1>3 DEF Histories, IsInjective
<1>7. \A q \in Queries : QueryOK(q)
  BY <1>1, <1>2, <1>3 DEF QueryOK, ToSet
<1>8. \A r \in Readers : ReaderOK(r)
  BY <1>1 DEF ReaderOK
<1>9. QED
  BY <1>5, <1>6, <1>7, <1>8 DEF AuditInv

LEMMA AuditStep ==
    ASSUME AuditInv, [Next]_vars
    PROVE  AuditInv'
<1>1. ASSUME NEW q \in Queries,
             \/ Begin(q) \/ CommitStart(q) \/ Execute(q) \/ Finish(q) \/ CommitFinish(q)
             \/ InsertRow(q) \/ CommitRow(q) \/ WriteFails(q) \/ StartFails(q)
      PROVE  AuditInv'
  BY <1>1, BeginStep, GoesOn, FinishStep, CommitFinishStep, InsertRowStep, CommitRowStep, FailsStep
<1>2. ASSUME NEW r \in Readers, ReadHistory(r) \/ CountAll(r) \/ CountErrors(r)
      PROVE  AuditInv'
  BY <1>2, ReadHistoryStep, CountStep
<1>3. CASE Crash
  BY <1>3, CrashStep
<1>4. CASE OthersCommit \/ UNCHANGED vars
  BY <1>4, OthersCommitStep
<1>5. QED
  BY <1>1, <1>2, <1>3, <1>4 DEF Next

LEMMA AuditImplies ==
    ASSUME AuditInv
    PROVE  TypeOK /\ AnswerIsOnRecord /\ AnsweredIsListed
<1> USE TypeFacts
<1>1. Types /\ Histories /\ \A q \in Queries : QueryOK(q)
  BY DEF AuditInv
<1>2. TypeOK
  <2> DEFINE d == disk.history  v == view.history
  <2>1. d \in Seq(Queries) /\ v \in Seq(Queries) /\ Len(d) \in Nat /\ Len(v) \in Nat
        /\ Len(d) <= Len(v) /\ \A k \in 1 .. Len(d) : d[k] = v[k] /\ d[k] \in Queries
    BY <1>1 DEF Histories
  <2> HIDE DEF d, v
  <2>2. SubSeq(d, 1, Len(d)) = d
    BY <2>1, SubSeqFull
  <2>3. SubSeq(v, 1, Len(d)) = d
    <3> DEFINE s == SubSeq(v, 1, Len(d))  n == Len(d)
    <3>1. \A k \in 1 .. n : v[k] \in Queries
      BY <2>1
    <3>2. s \in Seq(Queries) /\ Len(s) = (IF 1 <= n THEN n - 1 + 1 ELSE 0)
          /\ \A k \in 1 .. n - 1 + 1 : s[k] = v[1 + k - 1]
      BY <2>1, <3>1, SubSeqProperties
    <3>3. Len(s) = n /\ \A k \in 1 .. n : s[k] = d[k]
      <4> HIDE DEF s
      <4>1. n \in Nat
        BY <2>1
      <4>2. n - 1 + 1 = n /\ (IF 1 <= n THEN n - 1 + 1 ELSE 0) = n
        BY <4>1
      <4>3. \A k \in 1 .. n : 1 + k - 1 = k
        BY <4>1
      <4>4. \A k \in 1 .. n : v[k] = d[k]
        BY <2>1
      <4> HIDE DEF n
      <4>5. QED
        BY <3>2, <4>2, <4>3, <4>4
    <3> HIDE DEF s
    <3>4. QED
      BY <2>1, <3>2, <3>3, SeqEqual DEF s
  <2>4. IsPrefix(disk.history, view.history)
    BY <2>1, <2>2, <2>3 DEF IsPrefix, d, v
  <2>5. QED
    BY <1>1, <2>4 DEF Types, TypeOK
<1>3. TablesAgree
  <2>1. SUFFICES ASSUME NEW k \in DOMAIN disk.history
                 PROVE  /\ disk.execution[disk.history[k]] = "ok"
                        /\ outcome[disk.history[k]] = "rows"
    BY DEF TablesAgree
  <2>2. disk.history[k] \in ToSet(view.history) /\ disk.history[k] \in Queries
    BY <1>1, <2>1, OnDiskIsSeen DEF ToSet, Histories
  <2>3. QED
    BY <1>1, <2>2 DEF QueryOK
<1>4. ASSUME NEW q \in Queries, disk.execution[q] # "ok"
      PROVE  Rows(q) = {}
  <2>1. q \notin ToSet(disk.history)
    BY <1>1, <1>4, OnDiskIsSeen DEF QueryOK
  <2>2. QED
    BY <2>1 DEF Rows, ToSet
<1>5. ASSUME NEW q \in Queries, code[q] = 200
      PROVE  disk.execution[q] = "ok" /\ Cardinality(Rows(q)) = 1
  <2>1. PICK k \in DOMAIN disk.history : disk.history[k] = q
    BY <1>1, <1>5 DEF QueryOK, ToSet
  <2>2. \A j \in DOMAIN disk.history : disk.history[j] = q => j = k
    BY <1>1, <2>1 DEF Histories, IsInjective
  <2>3. Rows(q) = {k}
    BY <2>1, <2>2 DEF Rows
  <2>4. Cardinality({k}) = 1
    BY FS_Singleton
  <2>5. q \in ToSet(view.history)
    BY <1>1, <1>5, OnDiskIsSeen DEF QueryOK
  <2>6. QED
    BY <1>1, <2>3, <2>4, <2>5 DEF QueryOK
<1>6. AnswerIsOnRecord
  BY <1>1, <1>3, <1>4, <1>5 DEF AnswerIsOnRecord, QueryOK
<1>7. AnsweredIsListed
  BY DEF AnsweredIsListed, AuditInv, ReaderOK, Hidden
<1>8. QED
  BY <1>2, <1>6, <1>7


-----------------------------------------------------------------------------
(* Saved queries: tables and requests.                                     *)

RequestTypes ==
    /\ pc \in [Queries -> {"idle", "checked", "written", "committed", "answered", "lost"}]
    /\ op \in [Queries -> {"none", "create", "update", "delete", "get", "list"}]
    /\ target \in [Queries -> Saved!Ids \cup {0}]
    /\ patch \in [Queries -> Saved!Patch]
    /\ code \in [Queries -> {0, 200, 201, 404, 409, 500}]
    /\ \A r \in Queries : (pc[r] = "answered") <=> (code[r] # 0)
    /\ listed \in [Queries -> SUBSET Saved!Row]
    /\ applied \in [Queries -> BOOLEAN]

TableTypes ==
    /\ disk \in Saved!Table /\ view \in Saved!Table /\ disk.last <= view.last
    /\ \A t \in {disk, view} : \A a, b \in t.rows : a.id = b.id \/ a.name = b.name => a = b
    /\ \A t \in {disk, view} : \A a \in t.rows : a.id <= t.last

LEMMA TypesOfSaved ==
    Saved!TypeOK <=>
        RequestTypes /\ TableTypes /\ faults \in 0 .. MaxFaults /\ crashes \in 0 .. MaxCrashes
BY DEF Saved!TypeOK, RequestTypes, TableTypes

LEMMA IdFacts ==
    /\ IsFiniteSet(Queries) /\ Cardinality(Queries) \in Nat
    /\ Saved!Ids = 1 .. Cardinality(Queries) + 1
    /\ Saved!Unset \notin Names /\ Saved!Unset \notin Texts
    /\ MaxFaults \in Nat /\ MaxCrashes \in Nat
    /\ Saved!NoPatch \in Saved!Patch
    /\ \A p \in Saved!Patch : p = Saved!NoPatch <=> p["name"] = Saved!Unset /\ p["text"] = Saved!Unset
<1>1. IsFiniteSet(Queries) /\ Saved!Cardinality(Queries) = Cardinality(Queries)
  <2>1. IsFiniteSet(Queries)
    BY TablesAssumption DEF Saved!SavedAssumption, Saved!IsFiniteSet, IsFiniteSet
  <2>2. Saved!Cardinality(Queries) = Cardinality(Queries)
    BY DEF Saved!Cardinality, Cardinality
  <2>3. QED
    BY <2>1, <2>2
<1>2. Cardinality(Queries) \in Nat
  BY <1>1, FS_CardinalityType
<1>3. Saved!NoPatch \in Saved!Patch
      /\ \A p \in Saved!Patch : p = Saved!NoPatch <=> p["name"] = Saved!Unset /\ p["text"] = Saved!Unset
  BY DEF Saved!NoPatch, Saved!Patch
<1>4. QED
  BY <1>1, <1>2, <1>3, TablesAssumption DEF Saved!SavedAssumption, Saved!Ids

LEMMA RowFacts ==
    ASSUME TableTypes
    PROVE  /\ disk.last \in Nat /\ view.last \in Nat /\ disk.last <= view.last
           /\ \A row \in disk.rows \cup view.rows :
                 row \in Saved!Row /\ row.id \in Nat \ {0}
           /\ \A row \in view.rows : row.id <= view.last
           /\ \A row \in disk.rows : row.id <= disk.last
<1>1. disk.last \in Saved!Ids /\ view.last \in Saved!Ids
      /\ disk.rows \subseteq Saved!Row /\ view.rows \subseteq Saved!Row
  BY DEF TableTypes, Saved!Table
<1>2. \A row \in Saved!Row : row.id \in Saved!Ids
  BY DEF Saved!Row
<1>3. \A i \in Saved!Ids : i \in Nat \ {0}
  BY IdFacts
<1>4. QED
  BY <1>1, <1>2, <1>3 DEF TableTypes

\* What a step does to the other requests, and that it takes nothing back that
\* was applied.
Others(r) ==
    \A s \in Queries \ {r} :
        /\ pc'[s] = pc[s] /\ op'[s] = op[s] /\ target'[s] = target[s] /\ patch'[s] = patch[s]
        /\ code'[s] = code[s] /\ applied'[s] = applied[s]

Steadfast(r) ==
    applied[r] => applied'[r] /\ op'[r] = op[r] /\ target'[r] = target[r] /\ patch'[r] = patch[r]

\* What a step does to the row another request is about.
TableStep(s) ==
    /\ Has(view, target[s]) => Has(view', target[s]) \/ Gone(target[s])'
    /\ target[s] <= view.last /\ ~Has(view, target[s]) => ~Has(view', target[s])
    /\ \A field \in {"name", "text"} :
          op[s] = "update" /\ patch[s][field] # Saved!Unset /\ Holds(view, s, field) =>
              (\E row \in view'.rows : row.id = target[s] /\ row[field] = patch[s][field])
              \/ Undone(s, field)'

Committing == disk' = disk \/ (disk' = view /\ view' = view)

\* A request nothing happens to, while others write and commit.
LEMMA RequestKeeps ==
    ASSUME SavedInv, NEW r \in Queries,
           pc'[r] = pc[r], op'[r] = op[r], target'[r] = target[r], patch'[r] = patch[r],
           code'[r] = code[r], applied'[r] = applied[r],
           \A s \in Queries : Steadfast(s), TableStep(r), Committing,
           view'.last \in Nat, view.last <= view'.last
    PROVE  RequestOK(r)'
<1>1. RequestOK(r) /\ TableTypes /\ target[r] \in Nat
  <2>1. Saved!TypeOK /\ RequestOK(r)
    BY DEF SavedInv
  <2>2. target[r] \in Saved!Ids \cup {0} /\ TableTypes
    BY <2>1 DEF Saved!TypeOK, TableTypes
  <2>3. QED
    BY <2>1, <2>2, IdFacts
<1>2. Gone(target[r]) => Gone(target[r])'
  BY DEF Gone, Saved!Deletes, Steadfast
<1>3. \A field : Undone(r, field) => Undone(r, field)'
  <2>1. \A field : Saved!Rivals(r, field) # {} => Saved!Rivals(r, field)' # {}
    BY DEF Saved!Rivals, Steadfast
  <2>2. QED
    BY <1>2, <2>1 DEF Undone
<1>4. view.last \in Nat /\ disk.last \in Nat /\ disk.last <= view.last
  BY <1>1, RowFacts
<1>5. Has(view, target[r]) => Has(view, target[r])' \/ Gone(target[r])'
  BY DEF TableStep, Has
<1>6. target[r] <= view.last /\ ~Has(view, target[r]) => ~Has(view, target[r])'
  BY DEF TableStep, Has
<1>7. OnItsWay(r)'
  BY <1>1, <1>2, <1>4, <1>5 DEF RequestOK, OnItsWay
<1>8. Has(disk, target[r])' = Has(disk, target[r])
      \/ (Has(disk, target[r])' = Has(view, target[r]) /\ view' = view)
  BY DEF Committing, Has
<1>9. disk'.last \in Nat /\ (target[r] <= disk.last => target[r] <= disk'.last)
  BY <1>1, <1>4 DEF Committing
<1>10. CreateOK(r)'
  <2>1. CreateOK(r)
    BY <1>1 DEF RequestOK
  <2>2. QED
    BY <2>1, <1>2, <1>5, <1>8, <1>9 DEF CreateOK
<1>11. DeleteOK(r)'
  <2>1. DeleteOK(r) /\ (pc[r] = "written" => target[r] <= view.last)
    BY <1>1 DEF RequestOK, OnItsWay
  <2>2. target[r] <= disk.last => target[r] <= view.last
    BY <1>1, <1>4
  <2>3. QED
    BY <2>1, <2>2, <1>6, <1>8, <1>9 DEF DeleteOK
<1>12. UpdateOK(r)'
  <2>1. SUFFICES ASSUME NEW field \in {"name", "text"}, op[r] = "update", patch[r][field] # Saved!Unset
                 PROVE  /\ pc[r] = "written" => Holds(view, r, field)' \/ Undone(r, field)'
                        /\ pc[r] = "committed" \/ code[r] = 200 =>
                              (Holds(disk, r, field)' /\ Holds(view, r, field)') \/ Undone(r, field)'
    BY DEF UpdateOK
  <2>2. Holds(view, r, field) => Holds(view, r, field)' \/ Undone(r, field)'
    BY <2>1 DEF TableStep, Holds
  <2>3. Holds(disk, r, field)' = Holds(disk, r, field)
        \/ (Holds(disk, r, field)' = Holds(view, r, field) /\ view' = view)
    BY DEF Committing, Holds
  <2>4. /\ pc[r] = "written" => Holds(view, r, field) \/ Undone(r, field)
        /\ pc[r] = "committed" \/ code[r] = 200 =>
              (Holds(disk, r, field) /\ Holds(view, r, field)) \/ Undone(r, field)
    BY <1>1, <2>1 DEF RequestOK, UpdateOK
  <2>5. QED
    BY <1>3, <2>2, <2>3, <2>4
<1>13. QED
  BY <1>7, <1>10, <1>11, <1>12 DEF RequestOK

\* One request goes on.
LEMMA RequestStep ==
    ASSUME SavedInv, NEW r \in Queries, Others(r), Steadfast(r),
           RequestTypes', TableTypes',
           Committing, pc'[r] # "idle", \A s \in Queries \ {r} : TableStep(s), RequestOK(r)',
           view'.last = view.last \/ (pc[r] = "idle" /\ view'.last = view.last + 1),
           Created(r)' => \/ Created(r) /\ target'[r] = target[r]
                          \/ \A s \in Queries \ {r} : Created(s) => target[s] # target'[r],
           faults' \in 0 .. MaxFaults, UNCHANGED crashes
    PROVE  SavedInv'
<1>1. Saved!TypeOK /\ Counted /\ Apart /\ TableTypes /\ RequestTypes
  BY TypesOfSaved DEF SavedInv
<1>2. Saved!TypeOK'
  <2>1. crashes' \in 0 .. MaxCrashes
    BY <1>1 DEF Saved!TypeOK
  <2>2. QED
    BY <2>1 DEF Saved!TypeOK, RequestTypes, TableTypes
<1>3. view.last \in Nat /\ view'.last \in Nat /\ view.last <= view'.last
  BY <1>1, RowFacts
<1>4. Counted'
  <2>1. Busy' = Busy \cup {r}
    BY DEF Busy, Others
  <2>2. IsFiniteSet(Busy)
    BY IdFacts, FS_Subset DEF Busy
  <2>3. Cardinality(Busy) \in Nat
    BY <2>2, FS_CardinalityType
  <2>4. Cardinality(Busy \cup {r}) = IF r \in Busy THEN Cardinality(Busy) ELSE Cardinality(Busy) + 1
    BY <2>2, FS_AddElement
  <2>5. pc[r] = "idle" => r \notin Busy
    BY DEF Busy
  <2>6. Cardinality(Busy)' = Cardinality(Busy \cup {r})
    BY <2>1
  <2>7. QED
    BY <1>1, <1>3, <2>3, <2>4, <2>5, <2>6 DEF Counted
<1>5. Apart'
  <2>1. \A s \in Queries \ {r} : Created(s)' = Created(s) /\ target'[s] = target[s]
    BY DEF Created, Others
  <2>2. QED
    BY <1>1, <2>1 DEF Apart
<1>6. \A s \in Queries : RequestOK(s)'
  <2>1. \A s \in Queries : Steadfast(s)
    BY DEF Others, Steadfast
  <2>2. \A s \in Queries \ {r} : RequestOK(s)'
    BY <1>3, <2>1, RequestKeeps DEF Others
  <2>3. QED
    BY <2>2
<1>7. QED
  BY <1>2, <1>4, <1>5, <1>6 DEF SavedInv

\* The tables stay, but for a commit.
LEMMA TablesKeep ==
    ASSUME SavedInv, view' = view, disk' \in {disk, view}
    PROVE  /\ TableTypes' /\ Committing /\ view'.last = view.last
           /\ \A s \in Queries : TableStep(s)
<1>1. TableTypes
  BY DEF SavedInv, Saved!TypeOK, TableTypes
<1>2. TableTypes'
  <2>1. view.last <= view.last
    BY <1>1, RowFacts
  <2>2. QED
    BY <1>1, <2>1 DEF TableTypes
<1>3. \A s \in Queries : TableStep(s)
  BY DEF TableStep, Has, Holds
<1>4. QED
  BY <1>2, <1>3 DEF Committing



-----------------------------------------------------------------------------
(* Saved queries: the steps.                                               *)

\* A request moves or is answered.
Progress(r) ==
    /\ pc' \in [Queries -> {"idle", "checked", "written", "committed", "answered", "lost"}]
    /\ code' \in [Queries -> {0, 200, 201, 404, 409, 500}]
    /\ listed' \in [Queries -> SUBSET Saved!Row]
    /\ \A s \in Queries : (pc'[s] = "answered") <=> (code'[s] # 0)
    /\ \A s \in Queries \ {r} : pc'[s] = pc[s] /\ code'[s] = code[s]

LEMMA MoveFacts ==
    ASSUME RequestTypes, NEW r \in Queries, pc[r] # "answered",
           NEW where \in {"checked", "written", "committed"}, Saved!Move(r, where)
    PROVE  Progress(r) /\ pc'[r] = where /\ code'[r] = 0
<1>1. pc' = [pc EXCEPT ![r] = where] /\ code' = code /\ listed' = listed
  BY DEF Saved!Move
<1>2. /\ pc' \in [Queries -> {"idle", "checked", "written", "committed", "answered", "lost"}]
      /\ pc'[r] = where /\ \A s \in Queries \ {r} : pc'[s] = pc[s]
  BY <1>1 DEF RequestTypes
<1>3. QED
  BY <1>1, <1>2 DEF RequestTypes, Progress

LEMMA AnswerFacts ==
    ASSUME RequestTypes, NEW r \in Queries, NEW status \in {200, 201, 404, 409, 500},
           NEW rows \in SUBSET Saved!Row, Saved!Answer(r, status, rows)
    PROVE  Progress(r) /\ pc'[r] = "answered" /\ code'[r] = status
<1>1. /\ pc' = [pc EXCEPT ![r] = "answered"] /\ code' = [code EXCEPT ![r] = status]
      /\ listed' = [listed EXCEPT ![r] = rows]
  BY DEF Saved!Answer
<1>2. /\ pc' \in [Queries -> {"idle", "checked", "written", "committed", "answered", "lost"}]
      /\ pc'[r] = "answered" /\ \A s \in Queries \ {r} : pc'[s] = pc[s]
  BY <1>1 DEF RequestTypes
<1>3. /\ code' \in [Queries -> {0, 200, 201, 404, 409, 500}]
      /\ code'[r] = status /\ \A s \in Queries \ {r} : code'[s] = code[s]
  BY <1>1 DEF RequestTypes
<1>4. listed' \in [Queries -> SUBSET Saved!Row]
  BY <1>1 DEF RequestTypes
<1>5. QED
  BY <1>2, <1>3, <1>4 DEF RequestTypes, Progress

LEMMA SavedFacts ==
    ASSUME SavedInv, NEW r \in Queries
    PROVE  /\ RequestTypes /\ TableTypes /\ RequestOK(r) /\ target[r] \in Nat
           /\ faults \in 0 .. MaxFaults
           /\ pc[r] # "answered" => code[r] = 0
           /\ \A id : Saved!Find(id) \in SUBSET Saved!Row
           /\ \A id : Saved!Find(id) # {} <=> Has(view, id)
<1>1. Saved!TypeOK /\ RequestOK(r)
  BY DEF SavedInv
<1>2. RequestTypes /\ TableTypes /\ faults \in 0 .. MaxFaults
  BY <1>1, TypesOfSaved
<1>3. target[r] \in Nat /\ (pc[r] # "answered" => code[r] = 0)
  BY <1>2, IdFacts DEF RequestTypes
<1>4. \A id : Saved!Find(id) \in SUBSET Saved!Row
  BY <1>2, RowFacts DEF Saved!Find
<1>5. \A id : Saved!Find(id) # {} <=> Has(view, id)
  BY DEF Saved!Find, Has
<1>6. QED
  BY <1>1, <1>2, <1>3, <1>4, <1>5

LEMMA ReadStep ==
    ASSUME SavedInv, NEW r \in Queries, NEW id \in Saved!Ids, Saved!Get(r, id) \/ Saved!List(r)
    PROVE  SavedInv'
<1>1. /\ RequestTypes /\ TableTypes /\ RequestOK(r) /\ pc[r] = "idle"
      /\ UNCHANGED <<disk, view, patch, applied, faults, crashes>>
  BY SavedFacts DEF Saved!Get, Saved!List
<1>2. Progress(r) /\ pc'[r] = "answered" /\ code'[r] \in {200, 404}
  <2>1. view.rows \in SUBSET Saved!Row /\ Saved!Find(id) \in SUBSET Saved!Row /\ {} \in SUBSET Saved!Row
    BY <1>1, SavedFacts, RowFacts
  <2>2. Saved!Answer(r, 404, {}) \/ Saved!Answer(r, 200, Saved!Find(id)) \/ Saved!Answer(r, 200, view.rows)
    BY DEF Saved!Get, Saved!List
  <2> DEFINE found == Saved!Find(id)  all == view.rows  none == {}
  <2> HIDE DEF found, all, none
  <2>3. found \in SUBSET Saved!Row /\ all \in SUBSET Saved!Row /\ none \in SUBSET Saved!Row
    BY <2>1 DEF found, all, none
  <2>4. Saved!Answer(r, 404, none) \/ Saved!Answer(r, 200, found) \/ Saved!Answer(r, 200, all)
    BY <2>2 DEF found, all, none
  <2>5. QED
    BY <1>1, <2>3, <2>4, AnswerFacts
<1>3. /\ op' \in [Queries -> {"none", "create", "update", "delete", "get", "list"}]
      /\ op'[r] \in {"get", "list"} /\ \A s \in Queries \ {r} : op'[s] = op[s]
  BY <1>1 DEF Saved!Get, Saved!List, RequestTypes
<1>4. /\ target' \in [Queries -> Saved!Ids \cup {0}]
      /\ \A s \in Queries \ {r} : target'[s] = target[s]
  BY <1>1 DEF Saved!Get, Saved!List, RequestTypes
<1>5. RequestTypes'
  BY <1>1, <1>2, <1>3, <1>4 DEF RequestTypes, Progress
<1>6. Others(r) /\ Steadfast(r)
  BY <1>1, <1>2, <1>3, <1>4 DEF Others, Progress, Steadfast, RequestOK, OnItsWay
<1>7. RequestOK(r)' /\ ~Created(r)'
  BY <1>2, <1>3 DEF RequestOK, OnItsWay, CreateOK, DeleteOK, UpdateOK, Created
<1>8. TableTypes' /\ Committing /\ view'.last = view.last /\ \A s \in Queries : TableStep(s)
  BY <1>1, TablesKeep
<1>9. QED
  BY <1>1, <1>2, <1>5, <1>6, <1>7, <1>8, SavedFacts, RequestStep

LEMMA CheckStep ==
    ASSUME SavedInv, NEW r \in Queries, NEW o \in {"update", "delete"}, NEW id \in Saved!Ids,
           NEW p \in Saved!Patch, Saved!Check(r, o, id, p)
    PROVE  SavedInv'
<1>1. /\ RequestTypes /\ TableTypes /\ RequestOK(r) /\ pc[r] = "idle"
      /\ UNCHANGED <<disk, view, applied, faults, crashes>>
      /\ op' = [op EXCEPT ![r] = o] /\ target' = [target EXCEPT ![r] = id]
      /\ patch' = [patch EXCEPT ![r] = p]
  BY SavedFacts DEF Saved!Check
<1>2. /\ Progress(r)
      /\ \/ pc'[r] = "answered" /\ code'[r] = 404
         \/ pc'[r] = "checked" /\ code'[r] = 0 /\ Has(view, id)
  <2>1. CASE Saved!Find(id) = {}
    <3> DEFINE none == {}
    <3>1. none \in SUBSET Saved!Row
      OBVIOUS
    <3>2. Saved!Answer(r, 404, none)
      BY <2>1 DEF Saved!Check
    <3> HIDE DEF none
    <3>3. QED
      BY <1>1, <3>1, <3>2, AnswerFacts
  <2>2. CASE Saved!Find(id) # {}
    <3>1. Saved!Move(r, "checked")
      BY <2>2 DEF Saved!Check
    <3>2. QED
      BY <1>1, <2>2, <3>1, MoveFacts, SavedFacts
  <2>3. QED
    BY <2>1, <2>2
<1>3. /\ op' \in [Queries -> {"none", "create", "update", "delete", "get", "list"}]
      /\ target' \in [Queries -> Saved!Ids \cup {0}] /\ patch' \in [Queries -> Saved!Patch]
      /\ op'[r] = o /\ target'[r] = id
      /\ \A s \in Queries \ {r} : op'[s] = op[s] /\ target'[s] = target[s] /\ patch'[s] = patch[s]
  BY <1>1 DEF RequestTypes
<1>4. RequestTypes'
  BY <1>1, <1>2, <1>3 DEF RequestTypes, Progress
<1>5. Others(r) /\ Steadfast(r)
  BY <1>1, <1>2, <1>3 DEF Others, Progress, Steadfast, RequestOK, OnItsWay
<1>6. Has(view, id) => id <= view.last
  BY <1>1, RowFacts DEF Has
<1>7. OnItsWay(r)'
  <2>1. ~applied'[r] /\ view' = view
    BY <1>1 DEF RequestOK, OnItsWay
  <2>2. Has(view, id) => Has(view', id)
    BY <2>1
  <2>3. pc'[r] = "checked" => Has(view', target'[r]) /\ target'[r] <= view'.last /\ op'[r] \in {"update", "delete"}
    BY <1>2, <1>3, <1>6, <2>1
  <2>4. QED
    BY <1>2, <2>1, <2>3 DEF OnItsWay, Has
<1>8. RequestOK(r)' /\ ~Created(r)'
  BY <1>2, <1>3, <1>7 DEF RequestOK, CreateOK, DeleteOK, UpdateOK, Created
<1>9. TableTypes' /\ Committing /\ view'.last = view.last /\ \A s \in Queries : TableStep(s)
  BY <1>1, TablesKeep
<1>10. QED
  BY <1>1, <1>2, <1>4, <1>5, <1>8, <1>9, SavedFacts, RequestStep


\* A new row has an id no row and no request has had.
LEMMA FreshId ==
    ASSUME SavedInv, NEW r \in Queries, pc[r] = "idle"
    PROVE  /\ Saved!Fresh \in Saved!Ids /\ Saved!Fresh = view.last + 1 /\ view.last \in Nat
           /\ \A s \in Queries : Created(s) => target[s] < Saved!Fresh
           /\ \A row \in view.rows : row.id \in Nat \ {0} /\ row.id < Saved!Fresh
<1>1. TableTypes /\ Counted /\ view.last \in Nat /\ disk.last \in Nat /\ disk.last <= view.last
      /\ Saved!Fresh = view.last + 1
  BY SavedFacts, RowFacts DEF SavedInv, Saved!Fresh
<1>2. Saved!Fresh \in Saved!Ids
  <2>1. IsFiniteSet(Queries) /\ Busy \in SUBSET Queries /\ r \notin Busy
    BY IdFacts DEF Busy
  <2>2. IsFiniteSet(Busy) /\ Busy \cup {r} \subseteq Queries
    BY <2>1, FS_Subset
  <2>3. Cardinality(Busy \cup {r}) = Cardinality(Busy) + 1
    BY <2>1, <2>2, FS_AddElement
  <2>4. Cardinality(Busy \cup {r}) <= Cardinality(Queries)
    BY <2>1, <2>2, FS_Subset
  <2>5. Cardinality(Busy) \in Nat /\ Cardinality(Queries) \in Nat
    BY <2>1, <2>2, FS_CardinalityType
  <2>6. Saved!Ids = 1 .. Cardinality(Queries) + 1
    BY IdFacts
  <2>7. QED
    BY <1>1, <2>3, <2>4, <2>5, <2>6 DEF Counted
<1>3. ASSUME NEW s \in Queries, Created(s) PROVE target[s] < Saved!Fresh
  <2>1. RequestOK(s) /\ target[s] \in Nat
    BY SavedFacts
  <2>2. target[s] <= view.last \/ target[s] <= disk.last
    BY <1>3, <2>1 DEF Created, RequestOK, OnItsWay, CreateOK
  <2>3. QED
    BY <1>1, <2>1, <2>2
<1>4. \A row \in view.rows : row.id \in Nat \ {0} /\ row.id < Saved!Fresh
  BY <1>1, RowFacts
<1>5. QED
  BY <1>1, <1>2, <1>3, <1>4

LEMMA InsertStep ==
    ASSUME SavedInv, NEW r \in Queries, NEW name \in Names, NEW text \in Texts,
           Saved!Insert(r, name, text)
    PROVE  SavedInv'
<1> DEFINE row == [id |-> Saved!Fresh, name |-> name, text |-> text]
<1>1. /\ RequestTypes /\ TableTypes /\ RequestOK(r) /\ pc[r] = "idle"
      /\ UNCHANGED <<disk, patch, faults, crashes>> /\ op' = [op EXCEPT ![r] = "create"]
  BY SavedFacts DEF Saved!Insert
<1>2. /\ op' \in [Queries -> {"none", "create", "update", "delete", "get", "list"}]
      /\ op'[r] = "create" /\ \A s \in Queries \ {r} : op'[s] = op[s]
  BY <1>1 DEF RequestTypes
<1>3. /\ Saved!Fresh \in Saved!Ids /\ Saved!Fresh = view.last + 1 /\ view.last \in Nat
      /\ \A s \in Queries : Created(s) => target[s] < Saved!Fresh
      /\ \A old \in view.rows : old.id \in Nat \ {0} /\ old.id < Saved!Fresh
  BY <1>1, FreshId
<1>4. ~applied[r]
  BY <1>1 DEF RequestOK, OnItsWay
<1>5. CASE /\ Saved!Free(name, 0)
           /\ view' = [rows |-> view.rows \cup {row}, last |-> Saved!Fresh]
           /\ target' = [target EXCEPT ![r] = Saved!Fresh]
           /\ applied' = [applied EXCEPT ![r] = TRUE]
           /\ Saved!Move(r, "written")
  <2>1. Progress(r) /\ pc'[r] = "written" /\ code'[r] = 0
    BY <1>1, <1>5, MoveFacts
  <2>2. /\ target' \in [Queries -> Saved!Ids \cup {0}] /\ applied' \in [Queries -> BOOLEAN]
        /\ target'[r] = Saved!Fresh
        /\ \A s \in Queries \ {r} : target'[s] = target[s] /\ applied'[s] = applied[s]
    BY <1>1, <1>3, <1>5 DEF RequestTypes
  <2>3. RequestTypes'
    BY <1>1, <1>2, <2>1, <2>2 DEF RequestTypes, Progress
  <2>4. row \in Saved!Row /\ row.id = Saved!Fresh /\ row.name = name
    BY <1>3 DEF Saved!Row
  <2>5. view'.rows = view.rows \cup {row} /\ view'.last = Saved!Fresh
    BY <1>5
  <2> HIDE DEF row
  <2>6. \A old \in view.rows : old.id # row.id /\ old.name # row.name
    BY <1>3, <1>5, <2>4 DEF Saved!Free
  <2>7. TableTypes'
    <3>1. view' \in Saved!Table /\ disk' \in Saved!Table
      BY <1>1, <1>3, <1>5, <2>4 DEF TableTypes, Saved!Table, row
    <3>2. disk'.last <= view'.last
      BY <1>1, <1>3, <2>5, RowFacts
    <3>3. \A a, b \in view'.rows : a.id = b.id \/ a.name = b.name => a = b
      BY <1>1, <2>5, <2>6 DEF TableTypes
    <3>4. \A a \in view'.rows : a.id <= view'.last
      BY <1>3, <2>4, <2>5
    <3>5. QED
      BY <1>1, <3>1, <3>2, <3>3, <3>4 DEF TableTypes
  <2>8. Others(r) /\ Steadfast(r) /\ Committing
    BY <1>1, <1>2, <1>4, <2>1, <2>2 DEF Others, Progress, Steadfast, Committing
  <2>9. ASSUME NEW s \in Queries \ {r} PROVE TableStep(s)
    <3>1. target[s] \in Nat
      BY SavedFacts
    <3>2. Has(view, target[s]) => Has(view', target[s])
      BY <2>5 DEF Has
    <3>3. target[s] <= view.last /\ ~Has(view, target[s]) => ~Has(view', target[s])
      BY <1>3, <2>4, <2>5, <3>1 DEF Has
    <3>4. \A field : Holds(view, s, field) =>
                        \E new \in view'.rows : new.id = target[s] /\ new[field] = patch[s][field]
      BY <2>5 DEF Holds
    <3>5. QED
      BY <3>2, <3>3, <3>4 DEF TableStep
  <2>10. RequestOK(r)'
    <3>1. OnItsWay(r)'
      BY <1>2, <1>3, <2>1, <2>2, <2>5 DEF OnItsWay
    <3>2. CreateOK(r)'
      BY <2>1, <2>2, <2>4, <2>5 DEF CreateOK, Has
    <3>3. QED
      BY <1>2, <2>1, <3>1, <3>2 DEF RequestOK, DeleteOK, UpdateOK
  <2>11. \A s \in Queries \ {r} : Created(s) => target[s] # target'[r]
    <3>1. \A s \in Queries : target[s] \in Nat
      BY SavedFacts
    <3>2. QED
      BY <1>3, <2>2, <3>1
  <2>12. pc'[r] # "idle" /\ faults' \in 0 .. MaxFaults /\ UNCHANGED crashes
         /\ view'.last = view.last + 1
    BY <1>1, <1>3, <2>1, <2>5, SavedFacts
  <2>13. QED
    BY <1>1, <2>3, <2>7, <2>8, <2>9, <2>10, <2>11, <2>12, RequestStep
<1>6. CASE Saved!Answer(r, 409, {}) /\ UNCHANGED <<view, target, applied>>
  <2> DEFINE none == {}
  <2>1. none \in SUBSET Saved!Row /\ Saved!Answer(r, 409, none)
    BY <1>6
  <2> HIDE DEF none
  <2>2. Progress(r) /\ pc'[r] = "answered" /\ code'[r] = 409
    BY <1>1, <2>1, AnswerFacts
  <2>3. RequestTypes'
    BY <1>1, <1>2, <1>6, <2>2 DEF RequestTypes, Progress
  <2>4. Others(r) /\ Steadfast(r)
    BY <1>1, <1>2, <1>4, <1>6, <2>2 DEF Others, Progress, Steadfast
  <2>5. RequestOK(r)' /\ ~Created(r)'
    BY <1>2, <2>2 DEF RequestOK, OnItsWay, CreateOK, DeleteOK, UpdateOK, Created
  <2>6. TableTypes' /\ Committing /\ view'.last = view.last /\ \A s \in Queries : TableStep(s)
    BY <1>1, <1>6, TablesKeep
  <2>7. QED
    BY <1>1, <2>2, <2>3, <2>4, <2>5, <2>6, SavedFacts, RequestStep
<1>7. QED
  BY <1>5, <1>6 DEF Saved!Insert


\* The row of an update after it.
LEMMA PatchedRow ==
    ASSUME NEW row \in Saved!Row, NEW p \in Saved!Patch
    PROVE  /\ Saved!Patched(row, p) \in Saved!Row /\ Saved!Patched(row, p).id = row.id
           /\ Saved!Patched(row, p).name = IF p.name = Saved!Unset THEN row.name ELSE p.name
           /\ \A field \in {"name", "text"} :
                 Saved!Patched(row, p)[field] = IF p[field] = Saved!Unset THEN row[field] ELSE p[field]
<1> DEFINE n == Saved!Pick(p.name, row.name)  t == Saved!Pick(p.text, row.text)
<1>1. /\ n = (IF p.name = Saved!Unset THEN row.name ELSE p.name)
      /\ t = (IF p.text = Saved!Unset THEN row.text ELSE p.text)
  BY DEF Saved!Pick
<1>2. /\ row = [id |-> row.id, name |-> row.name, text |-> row.text]
      /\ row.id \in Saved!Ids /\ row.name \in Names /\ row.text \in Texts
      /\ p.name \in Names \cup {Saved!Unset} /\ p.text \in Texts \cup {Saved!Unset}
  BY DEF Saved!Row, Saved!Patch
<1>3. n \in Names /\ t \in Texts
  BY <1>1, <1>2
<1>4. Saved!Patched(row, p) = [row EXCEPT !.name = n, !.text = t]
  BY DEF Saved!Patched
<1> HIDE DEF n, t
<1>5. Saved!Patched(row, p) = [id |-> row.id, name |-> n, text |-> t]
  BY <1>2, <1>4
<1>6. Saved!Patched(row, p) \in Saved!Row
  BY <1>2, <1>3, <1>5 DEF Saved!Row
<1>7. /\ Saved!Patched(row, p).id = row.id /\ Saved!Patched(row, p)["name"] = n
      /\ Saved!Patched(row, p)["text"] = t
  BY <1>5
<1>8. QED
  BY <1>1, <1>6, <1>7

LEMMA UpdateStep ==
    ASSUME SavedInv, NEW r \in Queries, Saved!Update(r)
    PROVE  SavedInv'
<1> DEFINE p == patch[r]  id == target[r]
<1>1. /\ RequestTypes /\ TableTypes /\ RequestOK(r) /\ pc[r] = "checked" /\ op[r] = "update"
      /\ UNCHANGED <<disk, op, target, patch, faults, crashes>> /\ code[r] = 0
  BY SavedFacts DEF Saved!Update
<1>2. /\ ~applied[r] /\ id <= view.last /\ (Has(view, id) \/ Gone(id))
      /\ p \in Saved!Patch /\ id \in Nat
  BY <1>1, SavedFacts DEF RequestOK, OnItsWay, RequestTypes
<1>3. CASE p = Saved!NoPatch /\ Saved!Move(r, "committed") /\ UNCHANGED <<view, applied>>
  <2>1. Progress(r) /\ pc'[r] = "committed" /\ code'[r] = 0
    BY <1>1, <1>3, MoveFacts
  <2>2. RequestTypes' /\ Others(r) /\ Steadfast(r)
    BY <1>1, <1>2, <1>3, <2>1 DEF RequestTypes, Progress, Others, Steadfast
  <2>3. \A field \in {"name", "text"} : p[field] = Saved!Unset
    BY <1>2, <1>3, IdFacts
  <2>4. RequestOK(r)' /\ ~Created(r)'
    BY <1>1, <1>2, <1>3, <2>1, <2>3 DEF RequestOK, OnItsWay, CreateOK, DeleteOK, UpdateOK, Created
  <2>5. TableTypes' /\ Committing /\ view'.last = view.last /\ \A s \in Queries : TableStep(s)
    BY <1>1, <1>3, TablesKeep
  <2>6. QED
    BY <1>1, <2>1, <2>2, <2>4, <2>5, SavedFacts, RequestStep
<1>4. CASE Saved!Answer(r, 409, {}) /\ UNCHANGED <<view, applied>>
  <2> DEFINE none == {}
  <2>1. none \in SUBSET Saved!Row /\ Saved!Answer(r, 409, none)
    BY <1>4
  <2> HIDE DEF none
  <2>2. Progress(r) /\ pc'[r] = "answered" /\ code'[r] = 409
    BY <1>1, <2>1, AnswerFacts
  <2>3. RequestTypes' /\ Others(r) /\ Steadfast(r)
    BY <1>1, <1>2, <1>4, <2>2 DEF RequestTypes, Progress, Others, Steadfast
  <2>4. RequestOK(r)' /\ ~Created(r)'
    BY <1>1, <2>2 DEF RequestOK, OnItsWay, CreateOK, DeleteOK, UpdateOK, Created
  <2>5. TableTypes' /\ Committing /\ view'.last = view.last /\ \A s \in Queries : TableStep(s)
    BY <1>1, <1>4, TablesKeep
  <2>6. QED
    BY <1>1, <2>2, <2>3, <2>4, <2>5, SavedFacts, RequestStep
<1>5. CASE /\ p.name = Saved!Unset \/ Saved!Find(id) = {} \/ Saved!Free(p.name, id)
           /\ view' = [view EXCEPT !.rows = {IF row.id = id THEN Saved!Patched(row, p) ELSE row
                                             : row \in view.rows}]
           /\ applied' = [applied EXCEPT ![r] = Saved!Find(id) # {}]
           /\ Saved!Move(r, "written")
  <2> DEFINE New(row) == IF row.id = id THEN Saved!Patched(row, p) ELSE row
  <2>1. Progress(r) /\ pc'[r] = "written" /\ code'[r] = 0
    BY <1>1, <1>5, MoveFacts
  <2>2. /\ applied' \in [Queries -> BOOLEAN] /\ (applied'[r] <=> Has(view, id))
        /\ \A s \in Queries \ {r} : applied'[s] = applied[s]
    <3>1. (Saved!Find(id) # {}) <=> Has(view, id)
      BY SavedFacts
    <3> DEFINE found == Saved!Find(id) # {}
    <3>2. applied' = [applied EXCEPT ![r] = found]
      BY <1>5
    <3>3. found \in BOOLEAN /\ (found <=> Has(view, id))
      BY <3>1
    <3> HIDE DEF found
    <3>4. QED
      BY <1>1, <3>2, <3>3 DEF RequestTypes
  <2>3. RequestTypes' /\ Others(r) /\ Steadfast(r)
    BY <1>1, <1>2, <2>1, <2>2 DEF RequestTypes, Progress, Others, Steadfast
  <2>4. /\ view'.rows = {New(row) : row \in view.rows} /\ view'.last = view.last
        /\ view' \in Saved!Table <=> view'.rows \subseteq Saved!Row
    BY <1>1, <1>5 DEF TableTypes, Saved!Table
  <2>5. ASSUME NEW row \in view.rows
        PROVE  /\ New(row) \in Saved!Row /\ New(row).id = row.id
               /\ row.id # id => New(row) = row
               /\ row.id = id => \A field \in {"name", "text"} :
                     New(row)[field] = IF p[field] = Saved!Unset THEN row[field] ELSE p[field]
               /\ row.id = id => New(row).name = IF p.name = Saved!Unset THEN row.name ELSE p.name
    BY <1>1, <1>2, <2>5, PatchedRow, RowFacts
  <2> HIDE DEF New
  <2>6. ASSUME NEW a \in view.rows, NEW b \in view.rows,
               New(a).id = New(b).id \/ New(a).name = New(b).name
        PROVE  a = b
    <3>1. \A c, d \in view.rows : c.id = d.id \/ c.name = d.name => c = d
      BY <1>1 DEF TableTypes
    <3>2. CASE a.id = id /\ b.id = id
      BY <3>1, <3>2
    <3>3. CASE a.id # id /\ b.id # id
      BY <2>5, <2>6, <3>1, <3>3
    <3>4. ASSUME NEW c \in view.rows, NEW d \in view.rows, c.id = id, d.id # id,
                 New(c).id = New(d).id \/ New(c).name = New(d).name
          PROVE  FALSE
      <4>1. New(c).id = id /\ New(d) = d
        BY <2>5, <3>4
      <4>2. New(c).name = d.name
        BY <3>4, <4>1
      <4>3. p.name # Saved!Unset /\ p.name = d.name
        BY <2>5, <3>1, <3>4, <4>2
      <4>4. Saved!Find(id) # {}
        BY <3>4 DEF Saved!Find
      <4>5. Saved!Free(p.name, id)
        BY <1>5, <4>3, <4>4
      <4>6. QED
        BY <3>4, <4>3, <4>5 DEF Saved!Free
    <3>5. QED
      BY <2>6, <3>2, <3>3, <3>4
  <2>7. TableTypes' /\ Committing
    <3>1. view' \in Saved!Table
      BY <2>4, <2>5
    <3>2. \A a, b \in view'.rows : a.id = b.id \/ a.name = b.name => a = b
      BY <2>4, <2>6
    <3>3. \A a \in view'.rows : a.id <= view'.last
      BY <1>1, <2>4, <2>5, RowFacts
    <3>4. QED
      BY <1>1, <2>4, <3>1, <3>2, <3>3 DEF TableTypes, Committing
  <2>8. \A i : Has(view', i) <=> Has(view, i)
    BY <2>4, <2>5 DEF Has
  <2>9. \A i : Gone(i) => Gone(i)'
    BY <1>1, <2>2 DEF Gone, Saved!Deletes
  <2>10. ASSUME NEW s \in Queries \ {r} PROVE TableStep(s)
    <3>1. ASSUME NEW field \in {"name", "text"}, op[s] = "update", patch[s][field] # Saved!Unset,
                 Holds(view, s, field)
          PROVE  (\E row \in view'.rows : row.id = target[s] /\ row[field] = patch[s][field])
                 \/ Undone(s, field)'
      <4>1. PICK row \in view.rows : row.id = target[s] /\ row[field] = patch[s][field]
        BY <3>1 DEF Holds
      <4>2. New(row) \in view'.rows /\ New(row).id = target[s]
        BY <2>4, <2>5, <4>1
      <4>3. CASE row.id # id \/ p[field] = Saved!Unset
        <5>1. New(row)[field] = row[field]
          BY <2>5, <4>3
        <5>2. QED
          BY <4>1, <4>2, <5>1
      <4>4. CASE row.id = id /\ p[field] # Saved!Unset
        <5>1. Has(view, id) /\ target[r] = target[s]
          BY <4>1, <4>4 DEF Has
        <5>2. r \in Saved!Rivals(s, field)'
          BY <1>1, <2>2, <4>4, <5>1 DEF Saved!Rivals
        <5>3. QED
          BY <5>2 DEF Undone
      <4>5. QED
        BY <4>3, <4>4
    <3>2. QED
      BY <2>8, <3>1 DEF TableStep
  <2>11. RequestOK(r)' /\ ~Created(r)'
    <3>1. OnItsWay(r)' /\ CreateOK(r)' /\ DeleteOK(r)' /\ ~Created(r)'
      BY <1>1, <1>2, <2>1, <2>4 DEF OnItsWay, CreateOK, DeleteOK, Created
    <3>2. ASSUME NEW field \in {"name", "text"}, p[field] # Saved!Unset
          PROVE  Holds(view, r, field)' \/ Undone(r, field)'
      <4>1. CASE Gone(id)
        BY <1>1, <2>9, <4>1 DEF Undone
      <4>2. CASE Has(view, id)
        <5>1. PICK row \in view.rows : row.id = id
          BY <4>2 DEF Has
        <5>2. New(row) \in view'.rows /\ New(row).id = id /\ New(row)[field] = p[field]
          BY <2>4, <2>5, <3>2, <5>1
        <5>3. QED
          BY <1>1, <5>2 DEF Holds
      <4>3. QED
        BY <1>2, <4>1, <4>2
    <3>3. UpdateOK(r)'
      BY <1>1, <2>1, <3>2 DEF UpdateOK
    <3>4. QED
      BY <3>1, <3>3 DEF RequestOK
  <2>12. QED
    BY <1>1, <2>1, <2>3, <2>4, <2>7, <2>10, <2>11, SavedFacts, RequestStep
<1>6. QED
  BY <1>3, <1>4, <1>5 DEF Saved!Update


LEMMA DeleteStep ==
    ASSUME SavedInv, NEW r \in Queries, Saved!Delete(r)
    PROVE  SavedInv'
<1> DEFINE id == target[r]
<1>1. /\ RequestTypes /\ TableTypes /\ RequestOK(r) /\ pc[r] = "checked" /\ op[r] = "delete"
      /\ UNCHANGED <<disk, op, target, patch, faults, crashes>> /\ code[r] = 0
      /\ view' = [view EXCEPT !.rows = view.rows \ Saved!Find(id)]
      /\ Saved!Move(r, "written")
  BY SavedFacts DEF Saved!Delete
<1>2. ~applied[r] /\ id <= view.last
  BY <1>1 DEF RequestOK, OnItsWay
<1>3. Progress(r) /\ pc'[r] = "written" /\ code'[r] = 0
  BY <1>1, MoveFacts
<1>4. /\ applied' \in [Queries -> BOOLEAN] /\ (applied'[r] <=> Has(view, id))
      /\ \A s \in Queries \ {r} : applied'[s] = applied[s]
  <2>1. (Saved!Find(id) # {}) <=> Has(view, id)
    BY SavedFacts
  <2> DEFINE found == Saved!Find(id) # {}
  <2>2. applied' = [applied EXCEPT ![r] = found]
    BY DEF Saved!Delete
  <2>3. found \in BOOLEAN /\ (found <=> Has(view, id))
    BY <2>1
  <2> HIDE DEF found
  <2>4. QED
    BY <1>1, <2>2, <2>3 DEF RequestTypes
<1>5. RequestTypes' /\ Others(r) /\ Steadfast(r)
  BY <1>1, <1>2, <1>3, <1>4 DEF RequestTypes, Progress, Others, Steadfast
<1>6. /\ view'.last = view.last /\ view' \in Saved!Table
      /\ \A row : row \in view'.rows <=> row \in view.rows /\ row.id # id
  BY <1>1 DEF TableTypes, Saved!Table, Saved!Find
<1>7. TableTypes' /\ Committing
  BY <1>1, <1>6 DEF TableTypes, Committing
<1>8. \A i : i # id => (Has(view', i) <=> Has(view, i))
  BY <1>6 DEF Has
<1>9. ~Has(view', id)
  BY <1>6 DEF Has
<1>10. \A s \in Queries : target[s] = id /\ Has(view, id) => Gone(target[s])'
  BY <1>1, <1>4 DEF Gone, Saved!Deletes
<1>11. ASSUME NEW s \in Queries \ {r} PROVE TableStep(s)
  <2>1. Has(view, target[s]) => Has(view', target[s]) \/ Gone(target[s])'
    BY <1>8, <1>10
  <2>2. ~Has(view, target[s]) => ~Has(view', target[s])
    BY <1>8, <1>9
  <2>3. ASSUME NEW field \in {"name", "text"}, Holds(view, s, field)
        PROVE  (\E row \in view'.rows : row.id = target[s] /\ row[field] = patch[s][field])
               \/ Undone(s, field)'
    <3>1. PICK row \in view.rows : row.id = target[s] /\ row[field] = patch[s][field]
      BY <2>3 DEF Holds
    <3>2. CASE row.id # id
      BY <1>6, <3>1, <3>2
    <3>3. CASE row.id = id
      <4>1. Has(view, id) /\ target[s] = id
        BY <3>1, <3>3 DEF Has
      <4>2. QED
        BY <1>10, <4>1 DEF Undone
    <3>4. QED
      BY <3>2, <3>3
  <2>4. QED
    BY <2>1, <2>2, <2>3 DEF TableStep
<1>12. RequestOK(r)' /\ ~Created(r)'
  BY <1>1, <1>2, <1>3, <1>6, <1>9
  DEF RequestOK, OnItsWay, CreateOK, DeleteOK, UpdateOK, Created, Has
<1>13. QED
  BY <1>1, <1>3, <1>5, <1>6, <1>7, <1>11, <1>12, SavedFacts, RequestStep

LEMMA CommitStep ==
    ASSUME SavedInv, NEW r \in Queries, Saved!Commit(r)
    PROVE  SavedInv'
<1>1. /\ RequestTypes /\ TableTypes /\ RequestOK(r) /\ pc[r] = "written" /\ code[r] = 0
      /\ UNCHANGED <<view, op, target, patch, applied, faults, crashes>> /\ disk' = view
  BY SavedFacts DEF Saved!Commit
<1>2. /\ op[r] \in {"create", "update", "delete"} /\ target[r] <= view.last
  BY <1>1 DEF RequestOK, OnItsWay
<1>3. /\ Progress(r)
      /\ \/ op[r] = "delete" /\ pc'[r] = "answered" /\ code'[r] = 200
         \/ op[r] # "delete" /\ pc'[r] = "committed" /\ code'[r] = 0
  <2> DEFINE none == {}
  <2>1. none \in SUBSET Saved!Row
    OBVIOUS
  <2>2. IF op[r] = "delete" THEN Saved!Answer(r, 200, none) ELSE Saved!Move(r, "committed")
    BY DEF Saved!Commit
  <2> HIDE DEF none
  <2>3. CASE op[r] = "delete"
    BY <1>1, <2>1, <2>2, <2>3, AnswerFacts
  <2>4. CASE op[r] # "delete"
    BY <1>1, <2>2, <2>4, MoveFacts
  <2>5. QED
    BY <2>3, <2>4
<1>4. RequestTypes' /\ Others(r) /\ Steadfast(r)
  BY <1>1, <1>3 DEF RequestTypes, Progress, Others, Steadfast
<1>5. TableTypes' /\ Committing /\ view'.last = view.last /\ \A s \in Queries : TableStep(s)
  BY <1>1, TablesKeep
<1>6. /\ \A i : (Has(view, i)' <=> Has(view, i)) /\ (Has(disk, i)' <=> Has(view, i))
      /\ \A i : Gone(i)' = Gone(i)
      /\ \A field : /\ Holds(view, r, field)' <=> Holds(view, r, field)
                    /\ Holds(disk, r, field)' <=> Holds(view, r, field)
                    /\ Undone(r, field)' <=> Undone(r, field)
  <2>1. \A i : (Has(view, i)' <=> Has(view, i)) /\ (Has(disk, i)' <=> Has(view, i))
    BY <1>1 DEF Has
  <2>2. \A i : Gone(i)' = Gone(i)
    BY <1>1 DEF Gone, Saved!Deletes
  <2>3. \A field : Undone(r, field)' <=> Undone(r, field)
    BY <1>1, <2>2 DEF Undone, Saved!Rivals
  <2>4. \A field : /\ Holds(view, r, field)' <=> Holds(view, r, field)
                   /\ Holds(disk, r, field)' <=> Holds(view, r, field)
    BY <1>1 DEF Holds
  <2>5. QED
    BY <2>1, <2>2, <2>3, <2>4
<1>7. OnItsWay(r)'
  BY <1>1, <1>2, <1>3 DEF OnItsWay
<1>8. CreateOK(r)'
  BY <1>1, <1>2, <1>3, <1>6 DEF RequestOK, CreateOK
<1>9. DeleteOK(r)'
  BY <1>1, <1>2, <1>3, <1>6 DEF RequestOK, DeleteOK
<1>10. UpdateOK(r)'
  BY <1>1, <1>2, <1>3, <1>6 DEF RequestOK, UpdateOK
<1>11. Created(r)' => Created(r) /\ target'[r] = target[r]
  BY <1>1, <1>3 DEF Created
<1>12. RequestOK(r)' /\ pc'[r] # "idle"
  BY <1>3, <1>7, <1>8, <1>9, <1>10 DEF RequestOK
<1>13. QED
  BY <1>1, <1>4, <1>5, <1>11, <1>12, SavedFacts, RequestStep

LEMMA SavedFailsStep ==
    ASSUME SavedInv, NEW r \in Queries, Saved!Fails(r)
    PROVE  SavedInv'
<1> DEFINE none == {}
<1>1. /\ RequestTypes /\ TableTypes /\ RequestOK(r) /\ pc[r] \in {"idle", "checked", "written", "committed"}
      /\ UNCHANGED <<disk, view, op, target, patch, applied, crashes>>
      /\ faults < MaxFaults /\ faults' = faults + 1 /\ faults \in 0 .. MaxFaults
      /\ none \in SUBSET Saved!Row /\ Saved!Answer(r, 500, none)
  BY SavedFacts DEF Saved!Fails
<1> HIDE DEF none
<1>2. Progress(r) /\ pc'[r] = "answered" /\ code'[r] = 500
  BY <1>1, AnswerFacts
<1>3. RequestTypes' /\ Others(r) /\ Steadfast(r)
  BY <1>1, <1>2 DEF RequestTypes, Progress, Others, Steadfast
<1>4. RequestOK(r)' /\ ~Created(r)'
  BY <1>2 DEF RequestOK, OnItsWay, CreateOK, DeleteOK, UpdateOK, Created
<1>5. TableTypes' /\ Committing /\ view'.last = view.last /\ \A s \in Queries : TableStep(s)
  BY <1>1, TablesKeep
<1>6. faults' \in 0 .. MaxFaults
  BY <1>1, IdFacts
<1>7. QED
  BY <1>1, <1>2, <1>3, <1>4, <1>5, <1>6, RequestStep

LEMMA RereadStep ==
    ASSUME SavedInv, NEW r \in Queries, Saved!Reread(r)
    PROVE  SavedInv'
<1>1. /\ RequestTypes /\ TableTypes /\ RequestOK(r) /\ pc[r] = "committed"
      /\ UNCHANGED <<disk, view, op, target, patch, applied, faults, crashes>>
  BY SavedFacts DEF Saved!Reread
<1>2. op[r] \in {"create", "update"}
  BY <1>1 DEF RequestOK, OnItsWay
<1>3. /\ Progress(r) /\ pc'[r] = "answered"
      /\ code'[r] = 500 \/ (op[r] = "create" /\ code'[r] = 201) \/ (op[r] = "update" /\ code'[r] = 200)
  <2> DEFINE none == {}  found == Saved!Find(target[r])
  <2>1. none \in SUBSET Saved!Row /\ found \in SUBSET Saved!Row
    BY SavedFacts
  <2>2. \/ Saved!Answer(r, 500, none)
        \/ op[r] = "create" /\ Saved!Answer(r, 201, found)
        \/ op[r] = "update" /\ Saved!Answer(r, 200, found)
    BY <1>2 DEF Saved!Reread
  <2> HIDE DEF none, found
  <2>3. QED
    BY <1>1, <2>1, <2>2, AnswerFacts
<1>4. RequestTypes' /\ Others(r) /\ Steadfast(r)
  BY <1>1, <1>3 DEF RequestTypes, Progress, Others, Steadfast
<1>5. TableTypes' /\ Committing /\ view'.last = view.last /\ \A s \in Queries : TableStep(s)
  BY <1>1, TablesKeep
<1>6. /\ \A i : (Has(view, i)' <=> Has(view, i)) /\ (Has(disk, i)' <=> Has(disk, i))
      /\ \A i : Gone(i)' = Gone(i)
      /\ \A field : /\ Holds(view, r, field)' <=> Holds(view, r, field)
                    /\ Holds(disk, r, field)' <=> Holds(disk, r, field)
                    /\ Undone(r, field)' <=> Undone(r, field)
  <2>1. \A i : (Has(view, i)' <=> Has(view, i)) /\ (Has(disk, i)' <=> Has(disk, i))
    BY <1>1 DEF Has
  <2>2. \A i : Gone(i)' = Gone(i)
    BY <1>1 DEF Gone, Saved!Deletes
  <2>3. \A field : Undone(r, field)' <=> Undone(r, field)
    BY <1>1, <2>2 DEF Undone, Saved!Rivals
  <2>4. \A field : /\ Holds(view, r, field)' <=> Holds(view, r, field)
                   /\ Holds(disk, r, field)' <=> Holds(disk, r, field)
    BY <1>1 DEF Holds
  <2>5. QED
    BY <2>1, <2>2, <2>3, <2>4
<1>7. OnItsWay(r)'
  BY <1>3 DEF OnItsWay
<1>8. CreateOK(r)'
  BY <1>1, <1>2, <1>3, <1>6 DEF RequestOK, CreateOK
<1>9. DeleteOK(r)'
  BY <1>1, <1>2, <1>3 DEF DeleteOK
<1>10. UpdateOK(r)'
  BY <1>1, <1>2, <1>3, <1>6 DEF RequestOK, UpdateOK
<1>11. Created(r)' => Created(r) /\ target'[r] = target[r]
  BY <1>1, <1>3 DEF Created
<1>12. RequestOK(r)' /\ pc'[r] # "idle"
  BY <1>3, <1>7, <1>8, <1>9, <1>10 DEF RequestOK
<1>13. QED
  BY <1>1, <1>4, <1>5, <1>11, <1>12, SavedFacts, RequestStep

\* Others commit, or nothing happens.
LEMMA RequestsKeep ==
    ASSUME SavedInv, view' = view, disk' \in {disk, view},
           UNCHANGED <<pc, op, target, patch, code, listed, applied, faults, crashes>>
    PROVE  SavedInv'
<1>1. Saved!TypeOK /\ Counted /\ Apart /\ RequestTypes
  BY TypesOfSaved DEF SavedInv
<1>2. TableTypes' /\ Committing /\ view'.last = view.last /\ \A s \in Queries : TableStep(s)
  BY TablesKeep
<1>3. Saved!TypeOK'
  <2>1. RequestTypes' /\ faults' \in 0 .. MaxFaults /\ crashes' \in 0 .. MaxCrashes
    BY <1>1 DEF RequestTypes, Saved!TypeOK
  <2>2. QED
    BY <1>2, <2>1 DEF Saved!TypeOK, RequestTypes, TableTypes
<1>4. Counted' /\ Apart'
  BY <1>1 DEF Counted, Busy, Apart, Created
<1>5. \A r \in Queries : Steadfast(r)
  BY DEF Steadfast
<1>6. view.last \in Nat /\ view'.last \in Nat /\ view.last <= view'.last
  <2>1. TableTypes
    BY <1>1 DEF Saved!TypeOK, TableTypes
  <2>2. QED
    BY <1>2, <2>1, RowFacts
<1>7. \A r \in Queries : RequestOK(r)'
  BY <1>2, <1>5, <1>6, RequestKeeps
<1>8. QED
  BY <1>3, <1>4, <1>7 DEF SavedInv

LEMMA RestartStep == ASSUME SavedInv, Saved!Crash PROVE SavedInv'
<1>1. /\ view' = disk /\ crashes < MaxCrashes /\ crashes' = crashes + 1
      /\ pc' = [r \in Queries |-> IF pc[r] \in {"idle", "answered"} THEN pc[r] ELSE "lost"]
      /\ UNCHANGED <<disk, op, target, patch, code, listed, applied, faults>>
  BY DEF Saved!Crash
<1>2. Saved!TypeOK /\ Counted /\ Apart /\ RequestTypes /\ TableTypes
  BY TypesOfSaved DEF SavedInv
<1>3. view.last \in Nat /\ disk.last \in Nat /\ disk.last <= view.last
  BY <1>2, RowFacts
<1>4. RequestTypes'
  BY <1>1, <1>2 DEF RequestTypes
<1>5. Saved!TypeOK'
  <2>1. faults' \in 0 .. MaxFaults /\ crashes' \in 0 .. MaxCrashes
    BY <1>1, <1>2, IdFacts DEF Saved!TypeOK
  <2>2. disk'.last <= view'.last
    BY <1>1, <1>3
  <2>3. TableTypes'
    BY <1>1, <1>2, <2>2 DEF TableTypes
  <2>4. QED
    BY <1>4, <2>1, <2>3 DEF Saved!TypeOK, RequestTypes, TableTypes
<1>6. Counted'
  <2>1. Busy' = Busy
    BY <1>1 DEF Busy
  <2>2. Cardinality(Busy) \in Nat
    BY IdFacts, FS_Subset, FS_CardinalityType DEF Busy
  <2>3. QED
    BY <1>1, <1>2, <1>3, <2>1, <2>2 DEF Counted
<1>7. Apart'
  <2>1. \A r \in Queries : Created(r)' => Created(r)
    BY <1>1, <1>2 DEF Created, RequestTypes
  <2>2. QED
    BY <1>1, <1>2, <2>1 DEF Apart
<1>8. ASSUME NEW r \in Queries PROVE RequestOK(r)'
  <2>1. RequestOK(r)
    BY DEF SavedInv
  <2>2. pc'[r] \in {"idle", "answered", "lost"} /\ (pc'[r] = "idle" => pc[r] = "idle")
    BY <1>1
  <2>3. /\ \A i : (Has(view, i)' <=> Has(disk, i)) /\ (Has(disk, i)' <=> Has(disk, i))
        /\ \A i : Gone(i)' = Gone(i)
    BY <1>1 DEF Has, Gone, Saved!Deletes
  <2>4. \A field : /\ Holds(view, r, field)' <=> Holds(disk, r, field)
                   /\ Holds(disk, r, field)' <=> Holds(disk, r, field)
                   /\ Undone(r, field)' <=> Undone(r, field)
    BY <1>1, <2>3 DEF Holds, Undone, Saved!Rivals
  <2>5. OnItsWay(r)'
    BY <1>1, <2>1, <2>2 DEF RequestOK, OnItsWay
  <2>6. CreateOK(r)' /\ DeleteOK(r)'
    BY <1>1, <2>1, <2>2, <2>3 DEF RequestOK, CreateOK, DeleteOK
  <2>7. UpdateOK(r)'
    BY <1>1, <2>1, <2>2, <2>4 DEF RequestOK, UpdateOK
  <2>8. QED
    BY <2>5, <2>6, <2>7 DEF RequestOK
<1>9. QED
  BY <1>5, <1>6, <1>7, <1>8 DEF SavedInv


LEMMA SavedStart == Saved!Init => SavedInv
<1> SUFFICES ASSUME Saved!Init PROVE SavedInv
  OBVIOUS
<1>1. PICK rows \in {{}} \cup {{row} : row \in [id : {1}, name : Names, text : Texts]} :
         disk = [rows |-> rows, last |-> 1]
  BY DEF Saved!Init
<1>2. /\ view = disk /\ faults = 0 /\ crashes = 0
      /\ pc = [r \in Queries |-> "idle"] /\ op = [r \in Queries |-> "none"]
      /\ target = [r \in Queries |-> 0] /\ patch = [r \in Queries |-> Saved!NoPatch]
      /\ code = [r \in Queries |-> 0] /\ listed = [r \in Queries |-> {}]
      /\ applied = [r \in Queries |-> FALSE]
  BY DEF Saved!Init
<1>3. 1 \in Saved!Ids /\ 1 <= 1
  BY IdFacts
<1>4. rows \subseteq Saved!Row /\ \A a, b \in rows : a = b /\ a.id = 1
  BY <1>3 DEF Saved!Row
<1>5. disk \in Saved!Table /\ disk.rows = rows /\ disk.last = 1
  BY <1>1, <1>3, <1>4 DEF Saved!Table
<1>6. TableTypes
  BY <1>2, <1>3, <1>4, <1>5 DEF TableTypes
<1>7. RequestTypes
  BY <1>2, IdFacts DEF RequestTypes
<1>8. 0 \in 0 .. MaxFaults /\ 0 \in 0 .. MaxCrashes
  BY IdFacts
<1>9. Counted
  <2>1. Busy = {}
    BY <1>2 DEF Busy
  <2>2. QED
    BY <1>2, <1>5, <2>1, FS_EmptySet DEF Counted
<1>10. Apart
  BY <1>2 DEF Apart, Created
<1>11. \A r \in Queries : RequestOK(r)
  BY <1>2 DEF RequestOK, OnItsWay, CreateOK, DeleteOK, UpdateOK
<1>12. QED
  BY <1>2, <1>6, <1>7, <1>8, <1>9, <1>10, <1>11, TypesOfSaved DEF SavedInv

LEMMA SavedStep ==
    ASSUME SavedInv, [Saved!Next]_(Saved!vars)
    PROVE  SavedInv'
<1>1. ASSUME NEW r \in Queries, NEW n \in Names, NEW t \in Texts, Saved!Insert(r, n, t)
      PROVE  SavedInv'
  BY <1>1, InsertStep
<1>2. ASSUME NEW r \in Queries, NEW o \in {"update", "delete"}, NEW id \in Saved!Ids,
             NEW p \in Saved!Patch, Saved!Check(r, o, id, p)
      PROVE  SavedInv'
  BY <1>2, CheckStep
<1>3. ASSUME NEW r \in Queries, NEW id \in Saved!Ids, Saved!Get(r, id) PROVE SavedInv'
  BY <1>3, ReadStep
<1>4. ASSUME NEW r \in Queries, Saved!List(r) PROVE SavedInv'
  <2>1. 1 \in Saved!Ids
    BY IdFacts
  <2>2. QED
    BY <1>4, <2>1, ReadStep
<1>5. ASSUME NEW r \in Queries,
             \/ Saved!Update(r) \/ Saved!Delete(r) \/ Saved!Commit(r)
             \/ Saved!Fails(r) \/ Saved!Reread(r)
      PROVE  SavedInv'
  BY <1>5, UpdateStep, DeleteStep, CommitStep, SavedFailsStep, RereadStep
<1>6. CASE Saved!Crash
  BY <1>6, RestartStep
<1>7. CASE Saved!OthersCommit
  BY <1>7, RequestsKeep DEF Saved!OthersCommit, Saved!request
<1>8. CASE UNCHANGED Saved!vars
  BY <1>8, RequestsKeep DEF Saved!vars, Saved!request
<1>9. Saved!NoPatch \in Saved!Patch
  BY IdFacts
<1>10. QED
  BY <1>1, <1>2, <1>3, <1>4, <1>5, <1>6, <1>7, <1>8, <1>9 DEF Saved!Next

LEMMA SavedImplies ==
    ASSUME SavedInv
    PROVE  Saved!TypeOK /\ Saved!AnswersAreDurable /\ Saved!NoLostUpdate
<1>1. Saved!TypeOK /\ Apart /\ \A r \in Queries : RequestOK(r)
  BY DEF SavedInv
<1>2. Saved!IdsUnshared
  <2>1. \A r \in Queries : code[r] = 201 => Created(r)
    BY <1>1 DEF RequestOK, CreateOK, Created
  <2>2. QED
    BY <1>1, <2>1 DEF Apart, Saved!IdsUnshared
<1>3. ASSUME NEW r \in Queries
      PROVE  /\ code[r] = 201 =>
                    (\E row \in disk.rows : row.id = target[r]) \/ Saved!Deletes(target[r]) # {}
             /\ code[r] = 200 /\ op[r] = "delete" => \A row \in disk.rows : row.id # target[r]
  BY <1>1 DEF RequestOK, CreateOK, DeleteOK, Has, Gone
<1>4. Saved!NoLostUpdate
  BY <1>1 DEF Saved!NoLostUpdate, RequestOK, UpdateOK, Holds, Undone, Gone
<1>5. QED
  BY <1>1, <1>2, <1>3, <1>4 DEF Saved!AnswersAreDurable

-----------------------------------------------------------------------------
(* The module the runs check, where a behaviour is of one API.             *)

\* What each API's invariant says while the connection is its own.
TablesInv == (api = "query" => AuditInv) /\ (api = "saved" => SavedInv)

LEMMA AlwaysTablesInv == MCSpec => []TablesInv
<1>1. MCInit => TablesInv
  BY AuditStart, SavedStart DEF MCInit, TablesInv
<1>2. TablesInv /\ [MCNext]_<<vars, api, savedOnly>> => TablesInv'
  <2>1. SUFFICES ASSUME TablesInv, [MCNext]_<<vars, api, savedOnly>> PROVE TablesInv'
    OBVIOUS
  <2>2. CASE api = "query" /\ Next /\ UNCHANGED api
    BY <2>1, <2>2, AuditStep DEF TablesInv
  <2>3. CASE api = "saved" /\ Saved!Next /\ UNCHANGED api
    BY <2>1, <2>3, SavedStep DEF TablesInv
  <2>4. CASE UNCHANGED <<vars, api, savedOnly>>
    <3>1. UNCHANGED vars /\ UNCHANGED Saved!vars /\ UNCHANGED api
      BY <2>4 DEF vars, query, savedOnly, Saved!vars, Saved!request
    <3>2. QED
      BY <2>1, <3>1, AuditStep, SavedStep DEF TablesInv
  <2>5. QED
    BY <2>1, <2>2, <2>3, <2>4 DEF MCNext
<1>3. QED
  BY <1>1, <1>2, PTL DEF MCSpec

\* However many requests interleave on the connection, fail or are lost in a
\* restart: a query answered with rows has a finished execution and exactly one
\* row of history on disk, one answered with an error has none, and GET /history
\* lists what was answered before it, up to its limit.
THEOREM QueriesAreOnRecord == MCSpec => []QueriesOnRecord
<1>1. TablesInv => QueriesOnRecord
  BY AuditImplies DEF TablesInv, QueriesOnRecord
<1>2. QED
  BY <1>1, AlwaysTablesInv, PTL

\* A saved query that was answered with 201 is on disk, under an id no other has
\* had, until a delete of it, and an answered delete stays done: through the
\* commits of others, failed commits and restarts.
THEOREM SavedAnswersAreDurable == MCSpec => []AnswersAreDurable
<1>1. TablesInv => AnswersAreDurable
  BY SavedImplies DEF TablesInv, AnswersAreDurable
<1>2. QED
  BY <1>1, AlwaysTablesInv, PTL

\* An answered update is on disk until another update of the same field or a
\* delete, in whatever order the requests check, write and commit.
THEOREM UpdatesAreNotLost == MCSpec => []NoLostUpdate
<1>1. TablesInv => NoLostUpdate
  BY SavedImplies DEF TablesInv, NoLostUpdate
<1>2. QED
  BY <1>1, AlwaysTablesInv, PTL

=============================================================================
