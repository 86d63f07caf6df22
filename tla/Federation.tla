------------------------------ MODULE Federation ------------------------------
(***************************************************************************)
(* Cross-source queries on the one DuckDB connection of the engine         *)
(* (engine/duckdb.py).  SQL sources are attached once, HTTP tables are     *)
(* fetched for every query and replace a view of a shared name, and the    *)
(* statement then runs on whatever the catalog holds.  There is no lock:   *)
(* queries interleave at each fetch, and with edits of the registry.       *)
(*                                                                         *)
(* A source's configuration is known by a number, its generation.  What a  *)
(* query reads of a table is known by the generation it comes from and the *)
(* query that fetched it.  Every id keeps its kind; edits change the rest. *)
(***************************************************************************)
EXTENDS Naturals, FiniteSets

CONSTANTS
    Queries,     \* cross_query calls that may be in progress together
    SqlIds,      \* ids of the SQL sources
    HttpIds,     \* ids of the HTTP and orchestrated sources
    Statements,  \* SQL statements: the sets of references <<id, table>> in them
    Editable,    \* ids whose source may be edited while the server runs
    Removable,   \* ids whose source may be removed and added again
    MaxQueries,  \* bound on the queries run
    MaxEdits     \* bound on the changes to the registry

Ids  == SqlIds \cup HttpIds
Refs == UNION Statements
NoRef == <<>>

FederationAssumption ==
    /\ SqlIds \cap HttpIds = {}
    /\ \A refs \in Statements : IsFiniteSet(refs)
    /\ NoRef \notin Refs /\ \A r \in Refs : r[1] \in Ids
    /\ Editable \subseteq Ids /\ Removable \subseteq Ids
    /\ MaxQueries \in Nat /\ MaxEdits \in Nat

VARIABLES
    source,    \* the registry: the generation of each id, 0 for no source
    up,        \* the engine is connected
    attached,  \* self._attached: the generation each SQL id was attached with
    view,      \* the catalog's views: where the rows of each table come from
    pc,        \* per query: idle, fetch or create
    number,    \* per query: its number
    statement, \* per query: the references of its SQL
    sqlRefs,   \* per query: the SQL ids that were registered when it was parsed
    todo,      \* per query: HTTP references still to materialise
    current,   \* per query: the reference being fetched
    instance,  \* per query: the generation of the instance it fetches from
    during,    \* per query: the generations registered while it was running
    answer,    \* per query: where each table's rows came from
    alone,     \* per query: no other was running at the same time
    queries, edits

catalog == <<up, attached, view>>
query   == <<pc, number, statement, sqlRefs, todo, current, instance, during, answer, alone>>
vars    == <<source, catalog, query, queries, edits>>

Rows   == [generation : 0 .. MaxEdits + 1, fetcher : 0 .. MaxQueries]
NoRows == [generation |-> 0, fetcher |-> 0]

Init ==
    /\ source = [i \in Ids |-> 1]
    /\ up = TRUE
    /\ attached = [i \in SqlIds |-> 0]
    /\ view = [r \in Refs |-> NoRows]
    /\ pc = [q \in Queries |-> "idle"]
    /\ number = [q \in Queries |-> 0]
    /\ statement = [q \in Queries |-> {}]
    /\ sqlRefs = [q \in Queries |-> {}]
    /\ todo = [q \in Queries |-> {}]
    /\ current = [q \in Queries |-> NoRef]
    /\ instance = [q \in Queries |-> 0]
    /\ during = [q \in Queries |-> {}]
    /\ answer = [q \in Queries |-> {}]
    /\ alone = [q \in Queries |-> TRUE]
    /\ queries = 0 /\ edits = 0

-----------------------------------------------------------------------------
(* The last, unsuspended part of execute().                                *)

\* What the statement reads of a table: an attached source's rows are live.
ReadOf(q, r) ==
    IF r[1] \in SqlIds THEN [generation |-> attached'[r[1]], fetcher |-> number'[q]]
    ELSE view'[r]

\* _transform_sql, which looks the SQL sources up again, and conn.sql: a
\* reference that nothing in the catalog answers to fails the query.
Answerable(q) ==
    /\ \A i \in sqlRefs'[q] : source[i] # 0
    /\ \A r \in statement'[q] : ReadOf(q, r).generation # 0

\* The call is over, with rows or with an error, and its locals with it.
Return(q, rows) ==
    /\ pc' = [pc EXCEPT ![q] = "idle"]
    /\ todo' = [todo EXCEPT ![q] = {}]
    /\ current' = [current EXCEPT ![q] = NoRef]
    /\ instance' = [instance EXCEPT ![q] = 0]
    /\ answer' = [answer EXCEPT ![q] = rows]

Raise(q) == Return(q, {})

\* MISSING_LIMIT and errors of the SQL itself may always fail it.
Run(q) ==
    \/ Answerable(q) /\ Return(q, {<<r, ReadOf(q, r)>> : r \in statement'[q]})
    \/ Raise(q)

-----------------------------------------------------------------------------
(* _materialize_http_sources.                                              *)

\* source.execute() for a table, suspended at its await.
Fetch(q, r) ==
    /\ pc' = [pc EXCEPT ![q] = "fetch"]
    /\ current' = [current EXCEPT ![q] = r]
    /\ answer' = [answer EXCEPT ![q] = {}]

\* Seeded fault: instances are looked up once and kept.
FetchesFromTheFirst(q, refs, held) ==
    \/ refs = {} /\ Run(q)
    \/ \E r \in refs :
         /\ Fetch(q, r)
         /\ todo' = [todo EXCEPT ![q] = refs \ {r}]
         /\ instance' = [instance EXCEPT ![q] = 1]

\* The next table: one of the same source, on the instance already looked up,
\* or else one of another source, whose lookup may raise SOURCE_NOT_FOUND.
\* With none left, the statement runs at once.
FetchNext(q, refs, held) ==
    \/ refs = {} /\ Run(q)
    \/ \E r \in refs :
         /\ r[1] \in held \/ \A s \in refs : s[1] \notin held
         /\ \/ /\ r[1] \in held \/ source[r[1]] # 0
               /\ Fetch(q, r)
               /\ todo' = [todo EXCEPT ![q] = refs \ {r}]
               /\ instance' = [instance EXCEPT ![q] = IF r[1] \in held THEN @ ELSE source[r[1]]]
            \/ r[1] \notin held /\ source[r[1]] = 0 /\ Raise(q)

\* execute() up to its first fetch.  References to ids the registry does not
\* know are left to DuckDB; SQL sources are attached unless they have been.
Begin(q, refs) ==
    LET sql  == {i \in SqlIds : source[i] # 0 /\ \E r \in refs : r[1] = i}
        http == {r \in refs : r[1] \in HttpIds /\ source[r[1]] # 0}
    IN
    /\ pc[q] = "idle" /\ queries < MaxQueries /\ up
    /\ queries' = queries + 1
    /\ number' = [number EXCEPT ![q] = queries + 1]
    /\ statement' = [statement EXCEPT ![q] = refs]
    /\ sqlRefs' = [sqlRefs EXCEPT ![q] = sql]
    /\ during' = [during EXCEPT ![q] = {<<i, source[i]>> : i \in Ids}]
    /\ alone' = [p \in Queries |->
                   IF p = q THEN \A o \in Queries : pc[o] = "idle"
                            ELSE alone[p] /\ pc[p] = "idle"]
    /\ UNCHANGED view
    /\ \/ /\ attached' = [i \in SqlIds |->
                             IF i \in sql /\ attached[i] = 0 THEN source[i] ELSE attached[i]]
          /\ FetchNext(q, http, {})
       \/ \E done \in SUBSET {i \in sql : attached[i] = 0} :
             /\ done # {i \in sql : attached[i] = 0}
             /\ attached' = [i \in SqlIds |-> IF i \in done THEN source[i] ELSE attached[i]]
             /\ Raise(q)
    /\ UNCHANGED <<source, up, edits>>

\* The source's answer to the fetch is on its way back, or the fetch fails.
Respond(q) ==
    /\ pc[q] = "fetch"
    /\ \/ pc' = [pc EXCEPT ![q] = "create"] /\ UNCHANGED <<todo, current, instance, answer>>
       \/ Raise(q)
    /\ UNCHANGED <<source, catalog, number, statement, sqlRefs, during, alone,
                   queries, edits>>

\* Seeded fault: CREATE VIEW IF NOT EXISTS.
CreatesIfAbsent(q) ==
    /\ pc[q] = "create"
    /\ UNCHANGED <<source, up, attached, number, statement, sqlRefs, during, alone, queries, edits>>
    /\ \/ /\ view' = IF view[current[q]] # NoRows THEN view
                    ELSE [view EXCEPT ![current[q]] =
                             [generation |-> instance[q], fetcher |-> number[q]]]
          /\ FetchNext(q, todo[q], {current[q][1]})
       \/ Raise(q) /\ UNCHANGED view

\* CREATE OR REPLACE VIEW over the rows, under the name every query uses, and
\* on to the next table with no await in between; or DuckDB refuses them.
CreateView(q) ==
    /\ pc[q] = "create"
    /\ UNCHANGED <<source, up, attached, number, statement, sqlRefs, during, alone, queries, edits>>
    /\ \/ /\ view' = [view EXCEPT ![current[q]] =
                         [generation |-> instance[q], fetcher |-> number[q]]]
          /\ FetchNext(q, todo[q], {current[q][1]})
       \/ Raise(q) /\ UNCHANGED view

-----------------------------------------------------------------------------
(* The rest of the process.                                                *)

\* The registry's swap after an edit, a removal or an addition.
Change(i, generation) ==
    /\ edits < MaxEdits
    /\ edits' = edits + 1
    /\ source' = [source EXCEPT ![i] = generation]
    /\ during' = [q \in Queries |-> during[q] \cup {<<i, generation>>}]
    /\ UNCHANGED <<catalog, pc, number, statement, sqlRefs, todo, current, instance, answer, alone,
                   queries>>

Edit(i)   == i \in Editable /\ source[i] # 0 /\ Change(i, edits + 2)
Remove(i) == i \in Removable /\ source[i] # 0 /\ Change(i, 0)
Add(i)    == i \in Removable /\ source[i] = 0 /\ Change(i, edits + 2)

\* disconnect(), when the server has stopped: the connection, its views and
\* their files are gone.
Disconnect ==
    /\ up /\ \A q \in Queries : pc[q] = "idle"
    /\ up' = FALSE
    /\ attached' = [i \in SqlIds |-> 0]
    /\ view' = [r \in Refs |-> NoRows]
    /\ UNCHANGED <<source, query, queries, edits>>

Next ==
    \/ \E q \in Queries : Respond(q) \/ CreateView(q) \/ \E refs \in Statements : Begin(q, refs)
    \/ \E i \in Ids : Edit(i) \/ Remove(i) \/ Add(i)
    \/ Disconnect

Spec == Init /\ [][Next]_vars

-----------------------------------------------------------------------------
(* Properties                                                              *)

TypeOK ==
    /\ source \in [Ids -> 0 .. MaxEdits + 1]
    /\ attached \in [SqlIds -> 0 .. MaxEdits + 1]
    /\ view \in [Refs -> Rows]
    /\ ~up => (\A i \in SqlIds : attached[i] = 0) /\ \A r \in Refs : view[r] = NoRows
    /\ pc \in [Queries -> {"idle", "fetch", "create"}]
    /\ number \in [Queries -> 0 .. MaxQueries]
    /\ \A q \in Queries : statement[q] \in Statements \cup {{}}
    /\ \A q \in Queries : todo[q] \subseteq statement[q] /\ sqlRefs[q] \subseteq SqlIds
    /\ \A q \in Queries : (pc[q] = "idle") <=> (current[q] = NoRef)
    /\ instance \in [Queries -> 0 .. MaxEdits + 1]
    /\ \A q \in Queries : answer[q] \subseteq Refs \X Rows
    /\ alone \in [Queries -> BOOLEAN]

FetchedBy(q) == {r \in statement[q] : r[1] \in HttpIds}

\* No other query could come between the fetch of one of its tables and its
\* statement: it reads one fetched table, or ran alone.
Undisturbed(q) == alone[q] \/ Cardinality(FetchedBy(q)) <= 1

RegisteredThroughout(q, id) == <<id, 0>> \notin during[q]

\* A query joins rows that were fetched for it, of every source registered
\* throughout.  Queries that read one fetched table each may run together,
\* although they replace views of the same names (duckdb.py:188-229).
OwnFetch ==
    \A q \in Queries : Undisturbed(q) => \A read \in answer[q] :
        RegisteredThroughout(q, read[1][1]) => read[2].fetcher = number[q]

\* The same, with the types of the state.
FederationInv == TypeOK /\ OwnFetch

\* Fetched rows come from a source as it was configured at some time during
\* the query, however it is edited meanwhile: never from a configuration that
\* was replaced before (datasource-abstraction.md:178-187).
FetchedRowsAreCurrent ==
    \A q \in Queries : Undisturbed(q) => \A read \in answer[q] :
        read[1] \in FetchedBy(q) /\ RegisteredThroughout(q, read[1][1]) =>
            <<read[1][1], read[2].generation>> \in during[q]
=============================================================================
