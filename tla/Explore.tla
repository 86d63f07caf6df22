------------------------------ MODULE Explore -------------------------------
(***************************************************************************)
(* The explore pipeline (web/routes/explore.py, core/llm.py,               *)
(* core/llm_guard.py): a question becomes SQL by a call of the LLM, is     *)
(* scanned, and runs on its source or on a DuckDB engine made for it,      *)
(* while events are streamed to a client that may leave at any of them.    *)
(* The registry may be edited between any two steps.                       *)
(*                                                                         *)
(* A source's configuration is known by its generation, 0 for no source.   *)
(***************************************************************************)
EXTENDS Naturals, Sequences, FiniteSets

CONSTANTS
    Explorers,  \* requests that may be in progress together
    SqlIds,     \* ids of the SQL sources: the engine attaches them
    HttpIds,    \* ids of the others: the engine fetches their tables
    Selections, \* the source_ids a request may have
    Replies,    \* what the LLM may answer
    MaxEdits    \* bound on the changes to the registry

Ids == SqlIds \cup HttpIds

\* What the scan sees of a text that is not blank: whether it opens with an
\* allowed word, and whether one of the dangerous keywords stands anywhere in it.
\* Whether it writes when it is run is another matter: a COPY or an ATTACH behind
\* a SELECT, or a SELECT INTO, is not seen, and a column may be named "update".
\* refs are the sources it names.
NotSql == {"empty", "text", "array", "no sql", "timeout", "unreachable", "unexpected"}
Reply  == [class : {"sql", "blank"} \cup NotSql, opens : BOOLEAN, keyword : BOOLEAN,
           writes : BOOLEAN, refs : SUBSET Ids]

\* The registry has finitely many sources.
ASSUME ExploreAssumption ==
    /\ SqlIds \cap HttpIds = {} /\ IsFiniteSet(HttpIds)
    /\ \A s \in Selections : s # <<>> /\ s \in Seq(Ids)
    /\ Replies \subseteq Reply
    /\ MaxEdits \in Nat

VARIABLES
    source,    \* the registry: the generation of each id
    pc,        \* per request: where it is suspended
    selected,  \* per request: its source_ids
    todo,      \* per request: ids still to be described, or tables to fetch
    described, \* per request: the generations whose schema the LLM is shown
    reply,     \* per request: the reply of the LLM
    target,    \* per request: the instance it awaits
    read,      \* per request: the generations its rows come from
    engine,    \* the engines made: whether each is connected and has its extensions,
               \* its temporary files, and whether some could not be removed
    events,    \* per request: the events streamed
    during,    \* history: the generations registered since it began to execute
    edits

request == <<pc, selected, todo, described, reply, target, read, events>>
vars    == <<source, request, engine, during, edits>>

NoTarget == <<>>
NoReply  == [class |-> "none", opens |-> FALSE, keyword |-> FALSE, writes |-> FALSE, refs |-> {}]
Down     == [up |-> FALSE, loaded |-> FALSE, files |-> 0, kept |-> FALSE]

Init ==
    /\ source = [i \in Ids |-> 1]
    /\ pc = [e \in Explorers |-> "idle"]
    /\ selected = [e \in Explorers |-> <<>>]
    /\ todo = [e \in Explorers |-> <<>>]
    /\ described = [e \in Explorers |-> {}]
    /\ reply = [e \in Explorers |-> NoReply]
    /\ target = [e \in Explorers |-> NoTarget]
    /\ read = [e \in Explorers |-> {}]
    /\ engine = [e \in Explorers |-> Down]
    /\ events = [e \in Explorers |-> <<>>]
    /\ during = [e \in Explorers |-> {}]
    /\ edits = 0

Registered == {i \in Ids : source[i] # 0}
Present    == {<<i, source[i]>> : i \in Ids}

\* What a request is in from its scan to its end.
Executing == {"execute", "direct", "tables", "fetch"}

Emit(e, event) == events' = [events EXCEPT ![e] = Append(@, event)]

\* Seeded fault: an error event does not end the stream.
EmitsAndGoesOn(e, code) ==
    /\ Emit(e, <<"error", code>>)
    /\ pc' = [pc EXCEPT ![e] = IF @ = "validate" THEN "execute" ELSE "ended"]

\* `yield _sse_error(...); return`
Abort(e, code) ==
    /\ Emit(e, <<"error", code>>)
    /\ pc' = [pc EXCEPT ![e] = "ended"]

\* An exception outside every try: the stream ends there, and no event says so.
Break(e) == pc' = [pc EXCEPT ![e] = "broken"] /\ UNCHANGED events

-----------------------------------------------------------------------------
(* identifying_sources.                                                    *)

\* POST /explore, with an [llm] section configured.
Start(e, ids) ==
    /\ pc[e] = "idle"
    /\ pc' = [pc EXCEPT ![e] = "identify"]
    /\ selected' = [selected EXCEPT ![e] = ids]
    /\ todo' = [todo EXCEPT ![e] = ids]
    /\ Emit(e, <<"identifying_sources">>)
    /\ UNCHANGED <<source, described, reply, target, read, engine, during, edits>>

\* _build_schema_data: the next source is looked up and asked for its schema;
\* after the last, the prompt is rendered, in a try that PromptLoader() is not in.
Describe(e) ==
    /\ pc[e] = "identify"
    /\ \/ /\ todo[e] # <<>> /\ Head(todo[e]) \in Registered
          /\ pc' = [pc EXCEPT ![e] = "schema"]
          /\ target' = [target EXCEPT ![e] = <<Head(todo[e]), source[Head(todo[e])]>>]
          /\ UNCHANGED events
       \/ /\ todo[e] # <<>> /\ Head(todo[e]) \notin Registered
          /\ Abort(e, "SOURCE_NOT_FOUND")
          /\ UNCHANGED target
       \/ /\ todo[e] = <<>>
          /\ \/ Emit(e, <<"generating_sql">>) /\ pc' = [pc EXCEPT ![e] = "generate"]
             \/ Abort(e, "PROMPT_FAILED")
             \/ Break(e)
          /\ UNCHANGED target
    /\ UNCHANGED <<source, selected, todo, described, reply, read, engine, during, edits>>

Described(e) ==
    /\ pc[e] = "schema"
    /\ target' = [target EXCEPT ![e] = NoTarget]
    /\ \/ /\ pc' = [pc EXCEPT ![e] = "identify"]
          /\ todo' = [todo EXCEPT ![e] = Tail(@)]
          /\ described' = [described EXCEPT ![e] = @ \cup {target[e]}]
          /\ UNCHANGED events
       \/ Abort(e, "SCHEMA_FAILED") /\ UNCHANGED <<todo, described>>
    /\ UNCHANGED <<source, selected, reply, read, engine, during, edits>>

-----------------------------------------------------------------------------
(* generating_sql and validating_sql.                                      *)

\* What generate_sql makes of a failed call or of a reply that has no SQL.  An
\* array is valid JSON that has no get(): AttributeError, caught as unexpected.
Refused(r) ==
    CASE r.class = "timeout" -> "LLM_TIMEOUT"
      [] r.class \in {"unreachable", "unexpected", "array"} -> "LLM_UNAVAILABLE"
      [] r.class \in {"empty", "text", "no sql"} -> "LLM_INVALID_SQL"

\* _build_llm_client() fails.
NoClient(e) ==
    /\ pc[e] = "generate"
    /\ Break(e)
    /\ UNCHANGED <<source, selected, todo, described, reply, target, read, engine, during, edits>>

\* The LLM answers, or the call fails or times out.
Generate(e, r) ==
    /\ pc[e] = "generate"
    /\ reply' = [reply EXCEPT ![e] = r]
    /\ IF r.class \in NotSql
       THEN Abort(e, Refused(r))
       ELSE /\ Emit(e, <<"validating_sql">>)
            /\ pc' = [pc EXCEPT ![e] = "validate"]
    /\ UNCHANGED <<source, selected, todo, described, target, read, engine, during, edits>>

\* Seeded fault: a keyword is only looked for at the beginning of the text.
ScanPrefix(s) == IF s.class # "blank" /\ s.opens THEN "ok" ELSE "INVALID_SQL"

\* scan_sql: blank text, then keywords, then the first word.
Scan(s) ==
    CASE s.class = "blank" -> "INVALID_SQL"
      [] s.class # "blank" /\ s.keyword -> "WRITE_BLOCKED"
      [] s.class # "blank" /\ ~s.keyword /\ ~s.opens -> "INVALID_SQL"
      [] OTHER -> "ok"

Validate(e) ==
    /\ pc[e] = "validate"
    /\ \/ /\ Scan(reply[e]) = "ok"
          /\ Emit(e, <<"executing_query">>)
          /\ pc' = [pc EXCEPT ![e] = "execute"]
          /\ during' = [during EXCEPT ![e] = Present]
       \/ /\ Scan(reply[e]) # "ok"
          /\ Abort(e, Scan(reply[e]))
          /\ UNCHANGED during
    /\ UNCHANGED <<source, selected, todo, described, reply, target, read, engine, edits>>

-----------------------------------------------------------------------------
(* executing_query.                                                        *)

\* Seeded fault: all requests share one engine.
SharedEngine(e) == CHOOSE x \in Explorers : TRUE

\* `engine = DuckDBEngine(registry)`
OwnEngine(e) == e

\* Seeded fault: an engine that is working when the client leaves is not released.
ReleaseUnlessLeft(e, more) ==
    engine' = IF pc'[e] = "left" THEN engine ELSE [engine EXCEPT ![OwnEngine(e)] = Down]

\* The finally: engine.disconnect(), which awaits nothing and so is not cut
\* short when the stream is cancelled.  A file that cannot be unlinked is passed
\* over; more: the one that a fetch was writing when it failed.
Release(e, more) ==
    \E left \in {FALSE, engine[OwnEngine(e)].files + more > 0} :
        engine' = [engine EXCEPT ![OwnEngine(e)] = [Down EXCEPT !.kept = left]]

Federated(e) == Len(selected[e]) >= 2

\* The end of the step, with rows of the sources that were read: model_dump()
\* raises if one of them has no form in JSON, such as bytes that are not UTF-8.
Succeed(e, rows) ==
    /\ \/ /\ Emit(e, <<"done">>) /\ pc' = [pc EXCEPT ![e] = "ended"]
          /\ read' = [read EXCEPT ![e] = rows]
       \/ Break(e) /\ read' = [read EXCEPT ![e] = {}]
    /\ target' = [target EXCEPT ![e] = NoTarget]
    /\ UNCHANGED todo

Fail(e) ==
    /\ \E code \in {"EXECUTION_FAILED", "data source error"} : Abort(e, code)
    /\ read' = [read EXCEPT ![e] = {}]
    /\ target' = [target EXCEPT ![e] = NoTarget]
    /\ todo' = [todo EXCEPT ![e] = <<>>]

\* Seeded fault: the query runs on the instance whose schema was read.
ExecuteDescribed(e) ==
    /\ pc[e] = "execute" /\ ~Federated(e)
    /\ target' = [target EXCEPT ![e] = CHOOSE d \in described[e] : TRUE]
    /\ pc' = [pc EXCEPT ![e] = "direct"]
    /\ UNCHANGED <<source, selected, todo, described, reply, read, engine, events, during, edits>>

\* One source: looked up again, it may be another instance or gone.
ExecuteDirect(e) ==
    LET id == selected[e][1] IN
    /\ pc[e] = "execute" /\ ~Federated(e)
    /\ \/ /\ id \in Registered
          /\ target' = [target EXCEPT ![e] = <<id, source[id]>>]
          /\ pc' = [pc EXCEPT ![e] = "direct"]
          /\ UNCHANGED <<todo, read, events>>
       \/ id \notin Registered /\ Fail(e)
    /\ UNCHANGED <<source, selected, described, reply, engine, during, edits>>

Direct(e) ==
    /\ pc[e] = "direct"
    /\ Succeed(e, {target[e]}) \/ Fail(e)
    /\ UNCHANGED <<source, selected, described, reply, engine, during, edits>>

\* Two or more: an engine is made and connected; the registered SQL sources the
\* statement names are attached, unless that fails.  connect() comes before the
\* try: an engine whose extensions cannot be loaded stays connected.
ExecuteFederated(e) ==
    LET refs == reply[e].refs \cap Registered IN
    /\ pc[e] = "execute" /\ Federated(e)
    /\ \/ /\ engine' = [engine EXCEPT ![OwnEngine(e)] = [Down EXCEPT !.up = TRUE, !.loaded = TRUE]]
          /\ pc' = [pc EXCEPT ![e] = "tables"]
          /\ read' = [read EXCEPT ![e] = {<<i, source[i]>> : i \in refs \cap SqlIds}]
          /\ \E order \in [1 .. Cardinality(refs \cap HttpIds) -> refs \cap HttpIds] :
               /\ {order[k] : k \in DOMAIN order} = refs \cap HttpIds
               /\ todo' = [todo EXCEPT ![e] = order]
          /\ UNCHANGED <<target, events>>
       \/ /\ Fail(e)
          /\ \E left \in {Down, [Down EXCEPT !.up = TRUE]} :
               engine' = [engine EXCEPT ![OwnEngine(e)] = left]
    /\ UNCHANGED <<source, selected, described, reply, during, edits>>

\* The next source whose table is fetched; with none left the statement runs.
\* Between two tables nothing is awaited.
NextTable(e) ==
    /\ pc[e] = "tables"
    /\ \/ /\ todo[e] # <<>> /\ Head(todo[e]) \in Registered
          /\ target' = [target EXCEPT ![e] = <<Head(todo[e]), source[Head(todo[e])]>>]
          /\ pc' = [pc EXCEPT ![e] = "fetch"]
          /\ UNCHANGED <<todo, read, engine, events>>
       \/ /\ todo[e] # <<>> /\ Head(todo[e]) \notin Registered
          /\ Fail(e) /\ Release(e, 0)
       \/ /\ todo[e] = <<>>
          /\ Succeed(e, read[e]) \/ Fail(e)
          /\ Release(e, 0)
    /\ UNCHANGED <<source, selected, described, reply, during, edits>>

\* The table's rows are spilled to a temporary file behind a view.
Fetched(e) ==
    /\ pc[e] = "fetch"
    /\ \/ /\ pc' = [pc EXCEPT ![e] = "tables"]
          /\ read' = [read EXCEPT ![e] = @ \cup {target[e]}]
          /\ todo' = [todo EXCEPT ![e] = Tail(@)]
          /\ target' = [target EXCEPT ![e] = NoTarget]
          /\ engine' = [engine EXCEPT ![OwnEngine(e)].files = @ + 1]
          /\ UNCHANGED events
       \/ Fail(e) /\ \E more \in {0, 1} : Release(e, more)
    /\ UNCHANGED <<source, selected, described, reply, during, edits>>

-----------------------------------------------------------------------------
(* The client leaves; the registry is edited.                              *)

\* Cancellation reaches the stream at whatever it is suspended at: a yield, the
\* LLM, or a source.  Inside the engine's try, the finally releases it.
Leave(e) ==
    /\ pc[e] \notin {"idle", "ended", "broken", "left", "tables"}
    /\ pc' = [pc EXCEPT ![e] = "left"]
    /\ target' = [target EXCEPT ![e] = NoTarget]
    /\ todo' = [todo EXCEPT ![e] = <<>>]
    /\ read' = [read EXCEPT ![e] = {}]
    /\ IF pc[e] = "fetch" THEN Release(e, 0) ELSE UNCHANGED engine
    /\ UNCHANGED <<source, selected, described, reply, events, during, edits>>

\* A refresh swaps in an edited, removed or added source.
Change(i, generation) ==
    /\ edits < MaxEdits /\ generation # source[i]
    /\ edits' = edits + 1
    /\ source' = [source EXCEPT ![i] = generation]
    /\ during' = [e \in Explorers |-> IF during[e] = {} THEN {} ELSE during[e] \cup {<<i, generation>>}]
    /\ UNCHANGED <<request, engine>>

\* NextTable is what follows a fetch, or the connecting, without an await.
Busy == {e \in Explorers : pc[e] = "tables"}

Step(e) ==
    /\ Busy = {}
    /\ \/ Describe(e) \/ Described(e) \/ NoClient(e) \/ Validate(e)
       \/ ExecuteDirect(e) \/ Direct(e) \/ ExecuteFederated(e) \/ Fetched(e)

Next ==
    \/ \E e \in Busy : NextTable(e)
    \/ \E e \in Explorers : Step(e)
    \/ /\ Busy = {}
       /\ \/ \E e \in Explorers :
               \/ Leave(e)
               \/ \E ids \in Selections : Start(e, ids)
               \/ \E r \in Replies : Generate(e, r)
          \/ \E i \in Ids, g \in {0, edits + 2} : Change(i, g)

Spec == Init /\ [][Next]_vars

-----------------------------------------------------------------------------
(* Properties                                                              *)

Targets == (Ids \X (1 .. MaxEdits + 1)) \cup {NoTarget}

TypeOK ==
    /\ source \in [Ids -> 0 .. MaxEdits + 1]
    /\ pc \in [Explorers -> {"idle", "identify", "schema", "generate", "validate", "execute",
                             "direct", "tables", "fetch", "ended", "broken", "left"}]
    /\ \A e \in Explorers : selected[e] \in Selections \cup {<<>>}
    /\ todo \in [Explorers -> Seq(Ids)]
    /\ reply \in [Explorers -> Replies \cup {NoReply}]
    /\ target \in [Explorers -> Targets]
    /\ \A e \in Explorers : (target[e] # NoTarget) <=> pc[e] \in {"schema", "direct", "fetch"}
    /\ \A e \in Explorers : described[e] \subseteq Targets /\ read[e] \subseteq Targets
    /\ engine \in [Explorers -> [up : BOOLEAN, loaded : BOOLEAN,
                                files : 0 .. Cardinality(HttpIds), kept : BOOLEAN]]
    /\ Cardinality(Busy) <= 1

Pipeline == <<"identifying_sources", "generating_sql", "validating_sql", "executing_query", "done">>

\* The steps of a stream come in order and none is left out; only the last event
\* may be an error, and it or done is what a stream ends with that was neither
\* left nor broken off; and it only breaks off before the LLM is asked, or when
\* the statement has run (explore.py:181-188, :216, :230, :319-327, :341-344).
EventsInOrder ==
    \A e \in Explorers :
        LET n == Len(events[e]) IN
        /\ \A k \in 1 .. n :
             \/ events[e][k] = <<Pipeline[k]>>
             \/ k = n /\ events[e][k][1] = "error"
        /\ n > 0 /\ events[e][n][1] \in {"done", "error"} => pc[e] = "ended"
        /\ pc[e] = "ended" => n > 0 /\ events[e][n][1] \in {"done", "error"}
        /\ pc[e] = "broken" => n \in {1, 2, 4}

\* However a request ends, by an answer, a failure or the client's leaving, its
\* engine is disconnected and each of its temporary files removed or refused by
\* the file system, if its extensions could be loaded; and no other request does
\* that while the engine is at work (explore.py:292-301, duckdb.py:55-68).
EnginesReleased ==
    \A e \in Explorers :
        LET own == engine[OwnEngine(e)] IN
        IF pc[e] \in {"tables", "fetch"} THEN own.up /\ own.loaded ELSE ~own.loaded /\ own.files = 0

\* The rows of an answer come from sources as they were configured at some time
\* while the query was executed, also when they were edited since the LLM was
\* shown their schema (explore.py:292-309).
AnswerIsCurrent ==
    \A e \in Explorers : pc[e] = "ended" => read[e] \subseteq during[e]

\* Whatever the LLM replies, what reaches a source or an engine opens with an
\* allowed word and has none of the dangerous keywords anywhere, neither behind a
\* semicolon nor within the statement (llm_guard.py:44-96).
OnlyScannedRuns ==
    \A e \in Explorers : pc[e] \in {"direct", "tables", "fetch"} =>
        reply[e].class = "sql" /\ reply[e].opens /\ ~reply[e].keyword

-----------------------------------------------------------------------------
(* Departures: what a document says, or the code is plainly meant to do, and it *)
(* does not keep.  No run checks them; TLC refutes each in the instance of this *)
(* module's run.                                                               *)

\* explore.py:188 "Any error aborts the pipeline and emits an error event."
ErrorsAreTold == \A e \in Explorers : pc[e] # "broken"

\* explore-mode.md:123 "Safety rules: SELECT only, no DDL/DML": what the scan does
\* not see runs, on an engine that attaches its sources for writing (duckdb.py:164).
OnlyReadsRun ==
    \A e \in Explorers : pc[e] \in {"direct", "tables", "fetch"} => ~reply[e].writes

\* explore.py:300-301, the finally: nothing of an engine outlives its request.
NoEngineLeft ==
    \A e \in Explorers : pc[e] \notin {"tables", "fetch"} => engine[OwnEngine(e)] = Down

Told(e, code) == Len(events[e]) > 0 /\ events[e][Len(events[e])] = <<"error", code>>

\* llm.py:128-130: "LLMInvalidSQLError: When the LLM response cannot be parsed as
\* valid JSON with sql and explanation fields"; a reply that is a JSON array is
\* reported as LLM_UNAVAILABLE.
BadReplyIsInvalidSql ==
    \A e \in Explorers : pc[e] = "ended" /\ reply[e].class \in {"empty", "text", "array", "no sql"} =>
        Told(e, "LLM_INVALID_SQL")

\* llm.py:325-326: "Falls back to treating the entire response as SQL if JSON
\* parsing fails"; such a reply is refused.
TextIsTriedAsSql ==
    \A e \in Explorers : reply[e].class = "text" => ~Told(e, "LLM_INVALID_SQL")
=============================================================================
