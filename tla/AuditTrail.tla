----------------------------- MODULE AuditTrail -----------------------------
(***************************************************************************)
(* What POST /query leaves behind (web/routes/query.py, core/trace.py,     *)
(* core/db.py): an execution in the trace and a row of query_history, both *)
(* written through the one SQLite connection of the process, and what GET  *)
(* /history and GET /agents/stats read of them (web/routes/history.py,     *)
(* web/routes/agents.py).                                                  *)
(*                                                                         *)
(* Requests interleave at every statement and every commit.  A commit on   *)
(* the connection also commits what others have written.  Writes may fail  *)
(* and the process may crash.                                              *)
(***************************************************************************)
EXTENDS Naturals, Sequences, SequencesExt, FiniteSets

CONSTANTS
    Queries,   \* POST /query requests
    Readers,   \* requests of the history or of the statistics
    Limit,     \* rows of one GET /history
    MaxFaults, \* bound on the writes that fail
    MaxCrashes \* bound on the restarts

ASSUME AuditAssumption == Limit \in Nat /\ MaxFaults \in Nat /\ MaxCrashes \in Nat

VARIABLES
    disk,     \* the tables as committed
    view,     \* the tables as the connection sees them
    pc,       \* per query: where it is
    outcome,  \* per query: what the source did
    code,     \* per query: the HTTP status it was answered with, 0 for none
    reader,   \* per reader: idle, stats (between its counts) or read
    seen,     \* per reader: what it has read
    due,      \* history: per reader, the queries answered when it began
    faults, crashes

query == <<pc, outcome, code>>
reads == <<reader, seen, due>>
vars  == <<disk, view, query, reads, faults, crashes>>

\* trace_executions: the status of each query's execution, whose row says ok
\* from the start; query_history: the queries in the order of their rows.
Empty == [execution |-> [q \in Queries |-> "none"], history |-> <<>>]
Nothing == [page |-> <<>>, total |-> 0, errors |-> 0]

Init ==
    /\ disk = Empty /\ view = Empty
    /\ pc = [q \in Queries |-> "idle"]
    /\ outcome = [q \in Queries |-> "none"]
    /\ code = [q \in Queries |-> 0]
    /\ reader = [r \in Readers |-> "idle"]
    /\ seen = [r \in Readers |-> Nothing]
    /\ due = [r \in Readers |-> {}]
    /\ faults = 0 /\ crashes = 0

-----------------------------------------------------------------------------
(* POST /query.                                                            *)

Answer(q, status) ==
    /\ pc' = [pc EXCEPT ![q] = "answered"]
    /\ code' = [code EXCEPT ![q] = status]

\* A commit makes everything written on the connection durable.
Commit == disk' = view /\ UNCHANGED view

\* An unknown source is a 404 and leaves nothing; else start_execution inserts.
Begin(q) ==
    /\ pc[q] = "idle"
    /\ \/ Answer(q, 404) /\ UNCHANGED view
       \/ /\ view' = [view EXCEPT !.execution[q] = "open"]
          /\ pc' = [pc EXCEPT ![q] = "started"]
          /\ UNCHANGED code
    /\ UNCHANGED <<disk, outcome, reads, faults, crashes>>

CommitStart(q) ==
    /\ pc[q] = "started"
    /\ Commit
    /\ pc' = [pc EXCEPT ![q] = "executing"]
    /\ UNCHANGED <<outcome, code, reads, faults, crashes>>

\* source.execute returns rows or raises.
Execute(q) ==
    /\ pc[q] = "executing"
    /\ \E o \in {"rows", "DataSourceError", "exception"} : outcome' = [outcome EXCEPT ![q] = o]
    /\ pc' = [pc EXCEPT ![q] = "finishing"]
    /\ UNCHANGED <<disk, view, code, reads, faults, crashes>>

\* span_status
Status(q) == IF outcome[q] = "rows" THEN "ok" ELSE "error"

\* The finally: finish_execution updates the row, whatever the source did.
Finish(q) ==
    /\ pc[q] = "finishing"
    /\ view' = [view EXCEPT !.execution[q] = Status(q)]
    /\ pc' = [pc EXCEPT ![q] = "finished"]
    /\ UNCHANGED <<disk, outcome, code, reads, faults, crashes>>

\* Seeded fault: the row is appended before the execution is finished.
CommitFinishRecordsEarly(q) ==
    /\ pc[q] = "finished"
    /\ disk' = [disk EXCEPT !.history = Append(@, q)] /\ view' = disk'
    /\ \/ outcome[q] = "rows" /\ pc' = [pc EXCEPT ![q] = "inserted"] /\ UNCHANGED code
       \/ outcome[q] # "rows" /\ Answer(q, 500)
    /\ UNCHANGED <<outcome, reads, faults, crashes>>

\* After its commit the exception goes on, or the history row is inserted.
CommitFinish(q) ==
    /\ pc[q] = "finished"
    /\ Commit
    /\ \/ outcome[q] = "rows" /\ pc' = [pc EXCEPT ![q] = "recording"] /\ UNCHANGED code
       \/ outcome[q] = "DataSourceError" /\ Answer(q, 502)
       \/ outcome[q] = "exception" /\ Answer(q, 500)
    /\ UNCHANGED <<outcome, reads, faults, crashes>>

\* Seeded fault: the row is inserted and left to the next commit of anyone.
InsertRowAndAnswer(q) ==
    /\ pc[q] = "recording"
    /\ view' = [view EXCEPT !.history = Append(@, q)]
    /\ Answer(q, 200)
    /\ UNCHANGED <<disk, outcome, reads, faults, crashes>>

\* record_query
InsertRow(q) ==
    /\ pc[q] = "recording"
    /\ view' = [view EXCEPT !.history = Append(@, q)]
    /\ pc' = [pc EXCEPT ![q] = "inserted"]
    /\ UNCHANGED <<disk, outcome, code, reads, faults, crashes>>

CommitRow(q) ==
    /\ pc[q] = "inserted"
    /\ Commit
    /\ Answer(q, 200)
    /\ UNCHANGED <<outcome, reads, faults, crashes>>

\* A statement or a commit fails: the request is a 500, the source's rows are
\* dropped, and what was written stays on the connection for the next commit.
WriteFails(q) ==
    /\ faults < MaxFaults
    /\ pc[q] \in {"started", "finishing", "finished", "recording", "inserted"}
    /\ Answer(q, 500)
    /\ faults' = faults + 1
    /\ UNCHANGED <<disk, view, outcome, reads, crashes>>

\* The INSERT of start_execution fails before anything is written.
StartFails(q) ==
    /\ faults < MaxFaults /\ pc[q] = "idle"
    /\ Answer(q, 500)
    /\ faults' = faults + 1
    /\ UNCHANGED <<disk, view, outcome, reads, crashes>>

\* The process stops; what was not committed is gone, and nobody is answered.
Crash ==
    /\ crashes < MaxCrashes
    /\ crashes' = crashes + 1
    /\ view' = disk /\ UNCHANGED disk
    /\ pc' = [q \in Queries |-> IF pc[q] \in {"idle", "answered"} THEN pc[q] ELSE "lost"]
    /\ reader' = [r \in Readers |-> IF reader[r] = "stats" THEN "idle" ELSE reader[r]]
    /\ UNCHANGED <<outcome, code, seen, due, faults>>

-----------------------------------------------------------------------------
(* The readers, on the same connection.                                    *)

Answered(status) == {q \in Queries : code[q] = status}

\* Seeded fault: the oldest rows come first.
OldestFirst(rows) == SubSeq(rows, 1, IF Len(rows) < Limit THEN Len(rows) ELSE Limit)

\* get_recent_queries: ORDER BY id DESC LIMIT ?
Recent(rows) == SubSeq(Reverse(rows), 1, IF Len(rows) < Limit THEN Len(rows) ELSE Limit)

ReadHistory(r) ==
    /\ reader[r] = "idle"
    /\ seen' = [seen EXCEPT ![r].page = Recent(view.history)]
    /\ due' = [due EXCEPT ![r] = Answered(200)]
    /\ reader' = [reader EXCEPT ![r] = "history"]
    /\ UNCHANGED <<disk, view, query, faults, crashes>>

Executions     == {q \in Queries : view.execution[q] # "none"}
FailedExecutions == {q \in Queries : view.execution[q] = "error"}

\* get_stats counts all executions, and then those in error.
CountAll(r) ==
    /\ reader[r] = "idle"
    /\ seen' = [seen EXCEPT ![r].total = Cardinality(Executions)]
    /\ due' = [due EXCEPT ![r] = Answered(502)]
    /\ reader' = [reader EXCEPT ![r] = "stats"]
    /\ UNCHANGED <<disk, view, query, faults, crashes>>

CountErrors(r) ==
    /\ reader[r] = "stats"
    /\ seen' = [seen EXCEPT ![r].errors = Cardinality(FailedExecutions)]
    /\ reader' = [reader EXCEPT ![r] = "counted"]
    /\ UNCHANGED <<disk, view, query, due, faults, crashes>>

\* Saved queries and calls of the MCP server write on the same connection: their
\* commits make durable what a query has not committed yet.
OthersCommit ==
    /\ disk # view
    /\ Commit
    /\ UNCHANGED <<query, reads, faults, crashes>>

Next ==
    \/ \E q \in Queries :
         \/ Begin(q) \/ CommitStart(q) \/ Execute(q) \/ Finish(q) \/ CommitFinish(q)
         \/ InsertRow(q) \/ CommitRow(q) \/ WriteFails(q) \/ StartFails(q)
    \/ \E r \in Readers : ReadHistory(r) \/ CountAll(r) \/ CountErrors(r)
    \/ Crash \/ OthersCommit

Spec == Init /\ [][Next]_vars

-----------------------------------------------------------------------------
(* Properties                                                              *)

Tables == [execution : [Queries -> {"none", "open", "ok", "error"}], history : Seq(Queries)]

TypeOK ==
    /\ disk \in Tables /\ view \in Tables
    /\ IsPrefix(disk.history, view.history)
    /\ pc \in [Queries -> {"idle", "started", "executing", "finishing", "finished",
                           "recording", "inserted", "answered", "lost"}]
    /\ outcome \in [Queries -> {"none", "rows", "DataSourceError", "exception"}]
    /\ code \in [Queries -> {0, 200, 404, 500, 502}]
    /\ \A q \in Queries : (pc[q] = "answered") <=> (code[q] # 0)
    /\ reader \in [Readers -> {"idle", "stats", "counted", "history"}]
    /\ \A r \in Readers : due[r] \subseteq Queries
    /\ faults \in 0 .. MaxFaults /\ crashes \in 0 .. MaxCrashes

Rows(q) == {k \in DOMAIN disk.history : disk.history[k] = q}

\* The two tables never contradict one another, whatever fails in between: a
\* row of history has an execution that finished with ok, and a source that
\* returned rows.
TablesAgree ==
    \A k \in DOMAIN disk.history :
        LET q == disk.history[k] IN disk.execution[q] = "ok" /\ outcome[q] = "rows"

\* A query answered with rows has its execution, finished with ok, and exactly
\* one row of history on disk, through every crash; one answered with the
\* source's error has an execution in error and no row (query.py:216-220); and
\* what is on disk of the queries in between does not contradict itself.
AnswerIsOnRecord ==
    /\ TablesAgree
    /\ \A q \in Queries :
         /\ code[q] = 200 => disk.execution[q] = "ok" /\ Cardinality(Rows(q)) = 1
         /\ code[q] = 502 => disk.execution[q] = "error" /\ Rows(q) = {}
         /\ code[q] = 404 => disk.execution[q] = "none" /\ Rows(q) = {}

\* GET /history lists every query answered before it, unless a full page of
\* rows newer than that query's hides it, or were when they were read
\* (history.py:23-31, db.py:196-206).
AnsweredIsListed ==
    \A r \in Readers : \A q \in due[r] \ Range(seen[r].page) : reader[r] = "history" =>
        /\ Len(seen[r].page) = Limit
        /\ \A i, j \in DOMAIN view.history :
              view.history[i] = q /\ view.history[j] \in Range(seen[r].page) => i < j

-----------------------------------------------------------------------------
(* Departures: what a document says and the code does not keep.  No run checks *)
(* them; TLC refutes each in the instance of this module's run.                *)

\* agents.py:273 and tests/test_agents_api.py:197, of error_rate: the share of
\* executions that failed; the two counts are taken at different times.
ErrorRateIsAShare ==
    \A r \in Readers : reader[r] = "counted" /\ seen[r].total > 0 => seen[r].errors <= seen[r].total
=============================================================================
