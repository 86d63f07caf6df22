----------------------------- MODULE SqlSource ------------------------------
(***************************************************************************)
(* A SQL data source (datasources/mysql.py, datasources/postgresql.py) and *)
(* the driver's connection pool: calls check a connection out, prepare its *)
(* session, run, and return it, while other calls wait for one and the     *)
(* registry may disconnect the source under them.                          *)
(*                                                                         *)
(* The pool and the server are external.  What the code relies on is       *)
(* modelled: a MySQL session outlives the checkout, with the transaction   *)
(* it has open, unless the pool replaces the connection; asyncpg resets    *)
(* the session when the connection is returned.                            *)
(***************************************************************************)
EXTENDS Naturals, FiniteSets

CONSTANTS
    Drivers,      \* the kinds of source: "mysql", "postgresql"
    Calls,        \* calls on the source; each is made once
    Conns,        \* the connections the pool may hold (maxsize)
    None,         \* "no value"
    Requests,     \* QueryRequests that execute() may be called with
    DefaultRows,  \* 100000: the cap on rows when a request names none
    Catalog,      \* how many columns the database's tables have
    FetchSize,    \* 1000: rows of one fetchmany
    Errors,       \* classes of error a statement may end with
    MaxWrites     \* bound on the changes other clients make to the database

\* What enforce_limit and the scan see of a statement, how many rows it selects
\* when nothing limits it, and whether running it would write.
Statement == [verb : {"SELECT", "SHOW", "WITH"}, limit : Nat \cup {None},
              mentions : BOOLEAN, keyword : BOOLEAN, writes : BOOLEAN, rows : Nat]

\* timeout 0 is no timeout: only a session's may be 0.
Request == [stmt : Statement, max : (Nat \ {0}) \cup {None}, timeout : Nat \ {0}]

Kinds == {"execute", "list_resources", "schema_info", "health_check"}

\* A statement that has a LIMIT has the word in its text.
ASSUME SqlAssumption ==
    /\ Drivers \subseteq {"mysql", "postgresql"}
    /\ Requests \subseteq Request
    /\ \A r \in Requests : r.stmt.limit # None => r.stmt.mentions
    /\ None \notin Calls /\ None \notin Kinds /\ None \notin Nat
    /\ DefaultRows \in Nat /\ Catalog \in Nat /\ FetchSize \in Nat /\ MaxWrites \in Nat
    /\ Errors \subseteq {"programming", "operational", "other"}

VARIABLES
    driver,   \* which of the two classes the source is
    attr,     \* whether self._pool is set
    pool,     \* the pool object: open, closing or closed
    session,  \* per connection: the state of its server session
    owner,    \* per connection: the call that has it checked out
    pc,       \* per call: where it is
    req,      \* per call of execute: its request
    kind,     \* per call: the method
    answer,   \* per call: what it returned or raised
    rows,     \* per call: the rows fetched so far, as a number
    version,  \* the database's contents
    asof,     \* history: version when each call began
    written   \* history: whether a statement of a call has changed the database

source == <<driver, attr, pool>>
call   == <<pc, req, kind, answer, rows>>
vars   == <<source, session, owner, call, version, asof, written>>

\* snapshot is the version an open transaction reads.
Fresh == [readOnly |-> FALSE, timeout |-> 0, snapshot |-> None]

NoRequest == [stmt |-> None, max |-> None, timeout |-> 0]
NoAnswer  == [outcome |-> None, rows |-> 0, columns |-> 0, read |-> None]

\* connect() has made the pool: calls before it are answered NOT_CONNECTED as
\* those after disconnect() are.
Init ==
    /\ driver \in Drivers /\ attr = TRUE /\ pool = "open"
    /\ session = [x \in Conns |-> Fresh] /\ owner = [x \in Conns |-> None]
    /\ pc = [c \in Calls |-> "idle"] /\ req = [c \in Calls |-> NoRequest]
    /\ kind = [c \in Calls |-> None] /\ answer = [c \in Calls |-> NoAnswer]
    /\ rows = [c \in Calls |-> 0]
    /\ version = 0 /\ asof = [c \in Calls |-> 0] /\ written = FALSE

Least(m, n) == IF m < n THEN m ELSE n
Capped(n, max) == IF max = None THEN n ELSE Least(n, max)

Held(c) == {x \in Conns : owner[x] = c}
Using(c) == CHOOSE x \in Conns : owner[x] = c

-----------------------------------------------------------------------------
(* The pure parts of execute().                                            *)

\* _scan_sql: whether a dangerous keyword appears in the text.
Blocked(s) == s.keyword

\* `query.max_rows or 100000`
MaxRows(max) == IF max = None THEN DefaultRows ELSE max

\* enforce_limit: a LIMIT is added unless the text has the word anywhere, or it
\* begins with SHOW or WITH.
Sent(s, max) ==
    IF ~s.mentions /\ s.verb = "SELECT" THEN [s EXCEPT !.limit = MaxRows(max)] ELSE s

\* Seeded fault: the rows are not cut to the request's max_rows.
CutNothing(n, max) == n

\* The final `dict_rows[: query.max_rows]`.
Cut(n, max) == Capped(n, max)

\* How an error of a given class leaves each method: mysql catches the classes
\* it names, postgresql everything, and health_check reports whatever it was.
Raised(k, err) ==
    CASE k = "health_check" -> "unhealthy"
      [] driver = "mysql" /\ k = "execute" ->
            IF err = "programming" THEN "QUERY_FAILED"
            ELSE IF err = "operational" THEN "CONNECTION_FAILED" ELSE "raw"
      [] driver = "mysql" /\ k # "execute" ->
            IF err = "operational" THEN "CONNECTION_FAILED" ELSE "raw"
      [] driver = "postgresql" ->
            IF k = "execute" /\ err = "operational" THEN "CONNECTION_FAILED"
            ELSE "QUERY_FAILED"

-----------------------------------------------------------------------------
(* Checkout and return.                                                    *)

Done(c, a) ==
    /\ pc' = [pc EXCEPT ![c] = "done"]
    /\ answer' = [answer EXCEPT ![c] = a]

Fails(c, code) == Done(c, [NoAnswer EXCEPT !.outcome = code])

\* The pool takes the connection back.  A broken one is replaced; a sound one
\* keeps its session, unless the driver resets it or the pool replaces it.
Return(x, sound) ==
    /\ owner' = [owner EXCEPT ![x] = None]
    /\ \/ session' = [session EXCEPT ![x] = Fresh]
       \/ sound /\ driver = "mysql" /\ UNCHANGED session

\* A call begins.  Nothing is awaited before the pool is asked for a connection.
Begin(c, k, r) ==
    /\ pc[c] = "idle"
    /\ (k = "execute") = (r # NoRequest)
    /\ kind' = [kind EXCEPT ![c] = k]
    /\ req' = [req EXCEPT ![c] = r]
    /\ asof' = [asof EXCEPT ![c] = version]
    /\ \/ /\ ~attr
          /\ Fails(c, IF k = "health_check" THEN "unhealthy" ELSE "NOT_CONNECTED")
       \/ /\ attr /\ k = "execute" /\ Blocked(r.stmt)
          /\ Fails(c, "WRITE_BLOCKED")
       \/ /\ attr /\ (k = "execute" => ~Blocked(r.stmt))
          /\ \/ pool = "open" /\ pc' = [pc EXCEPT ![c] = "acquire"] /\ UNCHANGED answer
             \/ pool # "open" /\ Fails(c, Raised(k, "other"))
    /\ UNCHANGED <<source, session, owner, rows, version, written>>

\* A connection is free for a call that waits, in whichever order.
Acquire(c) ==
    /\ pc[c] \in {"acquire", "reacquire"} /\ pool # "closed"
    /\ \E x \in Conns :
         /\ owner[x] = None
         /\ owner' = [owner EXCEPT ![x] = c]
    /\ pc' = [pc EXCEPT ![c] =
                 IF @ = "reacquire" THEN "prepare"
                 ELSE IF kind[c] = "execute" THEN "setup" ELSE "run"]
    /\ UNCHANGED <<source, session, req, kind, answer, rows, version, asof, written>>

\* The pool turns a waiting call away once it is closing.
AcquireFails(c) ==
    /\ pc[c] = "acquire" /\ pool # "open"
    /\ Fails(c, Raised(kind[c], "other"))
    /\ UNCHANGED <<source, session, owner, req, kind, rows, version, asof, written>>

-----------------------------------------------------------------------------
(* execute().                                                              *)

\* Seeded fault: no ROLLBACK before the settings.
SetupKeepsTransaction(c) ==
    /\ pc[c] = "setup"
    /\ session' = [session EXCEPT ![Using(c)] =
                      [@ EXCEPT !.readOnly = TRUE, !.timeout = req[c].timeout]]
    /\ pc' = [pc EXCEPT ![c] = "run"]
    /\ UNCHANGED <<source, owner, req, kind, answer, rows, version, asof, written>>

\* Seeded fault: a connection whose timeout is set is taken to be prepared.
SetupOnce(c) ==
    /\ pc[c] = "setup"
    /\ session' = [session EXCEPT ![Using(c)] =
                      IF @.timeout # 0 THEN [@ EXCEPT !.snapshot = None]
                      ELSE [readOnly |-> TRUE, timeout |-> req[c].timeout, snapshot |-> None]]
    /\ pc' = [pc EXCEPT ![c] = "run"]
    /\ UNCHANGED <<source, owner, req, kind, answer, rows, version, asof, written>>

\* Seeded fault: the session is not made read-only.
SetupWritable(c) ==
    /\ pc[c] = "setup"
    /\ session' = [session EXCEPT ![Using(c)] =
                      [readOnly |-> FALSE, timeout |-> req[c].timeout, snapshot |-> None]]
    /\ pc' = [pc EXCEPT ![c] = "run"]
    /\ UNCHANGED <<source, owner, req, kind, answer, rows, version, asof, written>>

\* ROLLBACK (mysql; asyncpg has no transaction open), read-only, timeout.
Setup(c) ==
    /\ pc[c] = "setup"
    /\ session' = [session EXCEPT ![Using(c)] =
                      [readOnly |-> TRUE, timeout |-> req[c].timeout, snapshot |-> None]]
    /\ pc' = [pc EXCEPT ![c] = "run"]
    /\ UNCHANGED <<source, owner, req, kind, answer, rows, version, asof, written>>

\* What the statement reads: the open transaction's snapshot, or the present.
Reads(x) == IF session[x].snapshot = None THEN version ELSE session[x].snapshot

\* The statement is executed.  It reads a snapshot that MySQL keeps until the
\* transaction ends; a write succeeds only in a session that is not read-only.
Run(c) ==
    LET x == Using(c)
        s == Sent(req[c].stmt, req[c].max)
    IN  /\ pc[c] = "run" /\ kind[c] = "execute"
        /\ s.writes => ~session[x].readOnly
        /\ written' = (written \/ s.writes)
        /\ session' = [session EXCEPT ![x].snapshot =
                          IF driver = "mysql" THEN Reads(x) ELSE None]
        /\ answer' = [answer EXCEPT ![c].read = Reads(x)]
        /\ rows' = [rows EXCEPT ![c] = Capped(s.rows, s.limit)]
        /\ pc' = [pc EXCEPT ![c] = "fetch"]
        /\ UNCHANGED <<source, owner, req, kind, version, asof>>

\* Seeded fault: the empty result's columns are looked up inside the block that
\* still holds the first connection.
FetchHoldsOn(c) ==
    /\ pc[c] = "fetch" /\ kind[c] = "execute"
    /\ IF driver = "postgresql" /\ rows[c] = 0
       THEN /\ pc' = [pc EXCEPT ![c] = "reacquire"]
            /\ UNCHANGED <<answer, owner, session>>
       ELSE /\ Return(Using(c), TRUE)
            /\ Done(c, [answer[c] EXCEPT !.outcome = "rows", !.columns = 1,
                                         !.rows = Cut(rows[c], req[c].max)])
    /\ UNCHANGED <<source, req, kind, rows, version, asof, written>>

\* All rows are fetched and the connection goes back.  A postgresql result has
\* its columns from its first row; an empty one asks for a second connection,
\* which fails at once, silently, when the source was disconnected meanwhile.
Fetch(c) ==
    /\ pc[c] = "fetch" /\ kind[c] = "execute"
    /\ Return(Using(c), TRUE)
    /\ \/ /\ driver = "postgresql" /\ rows[c] = 0 /\ attr
          /\ pc' = [pc EXCEPT ![c] = "reacquire"]
          /\ UNCHANGED answer
       \/ /\ ~(driver = "postgresql" /\ rows[c] = 0 /\ attr)
          /\ Done(c, [answer[c] EXCEPT !.outcome = "rows",
                        !.rows = Cut(rows[c], req[c].max),
                        !.columns = IF driver = "postgresql" /\ rows[c] = 0 THEN 0 ELSE 1])
    /\ UNCHANGED <<source, req, kind, rows, version, asof, written>>

\* The second connection, or the prepare on it, may fail: no columns then.
ReacquireFails(c) ==
    /\ pc[c] = "reacquire" /\ pool # "open"
    /\ Done(c, [answer[c] EXCEPT !.outcome = "rows"])
    /\ UNCHANGED <<source, session, owner, req, kind, rows, version, asof, written>>

Prepare(c) ==
    /\ pc[c] = "prepare"
    /\ \E ok \in {TRUE} \cup (IF Errors = {} THEN {} ELSE {FALSE}) :
         /\ Return(Using(c), ok)
         /\ Done(c, [answer[c] EXCEPT !.outcome = "rows", !.columns = IF ok THEN 1 ELSE 0])
    /\ UNCHANGED <<source, req, kind, rows, version, asof, written>>

-----------------------------------------------------------------------------
(* The other methods, errors and timeouts.                                 *)

\* mysql makes one fetchmany(1000); postgresql fetches everything.
CatalogRows == IF driver = "mysql" THEN Least(Catalog, FetchSize) ELSE Catalog

\* list_resources, schema_info and health_check run on a session as they find it.
RunOther(c) ==
    /\ pc[c] = "run" /\ kind[c] # "execute"
    /\ Return(Using(c), TRUE)
    /\ IF kind[c] = "health_check"
       THEN Fails(c, "healthy")
       ELSE Done(c, [NoAnswer EXCEPT !.outcome = "catalog", !.rows = CatalogRows])
    /\ UNCHANGED <<source, req, kind, rows, version, asof, written>>

\* A statement ends with an error, of the class the driver gives it; writing in
\* a read-only session does.  The connection may or may not survive.
StatementFails(c) ==
    /\ pc[c] \in {"setup", "run", "fetch"}
    /\ \E err \in Errors, sound \in BOOLEAN :
         /\ Return(Using(c), sound)
         /\ Fails(c, Raised(kind[c], err))
    /\ UNCHANGED <<source, req, kind, rows, version, asof, written>>

WriteRefused(c) ==
    /\ pc[c] = "run" /\ kind[c] = "execute"
    /\ req[c].stmt.writes /\ session[Using(c)].readOnly
    /\ Return(Using(c), TRUE)
    /\ Fails(c, IF driver = "mysql" THEN "CONNECTION_FAILED" ELSE "QUERY_FAILED")
    /\ UNCHANGED <<source, req, kind, rows, version, asof, written>>

\* Seeded fault: execute() waits for its statement however long it takes.
TimesOutProbe(c) ==
    /\ pc[c] = "run" /\ kind[c] = "health_check"
    /\ Return(Using(c), FALSE)
    /\ Fails(c, "unhealthy")
    /\ UNCHANGED <<source, req, kind, rows, version, asof, written>>

\* wait_for around the statement, of execute (and of health_check, 5 seconds):
\* the statement is cancelled and its connection given up.
TimesOut(c) ==
    /\ pc[c] = "run" /\ kind[c] \in {"execute", "health_check"}
    /\ Return(Using(c), FALSE)
    /\ Fails(c, IF kind[c] = "execute" THEN "TIMEOUT" ELSE "unhealthy")
    /\ UNCHANGED <<source, req, kind, rows, version, asof, written>>

-----------------------------------------------------------------------------
(* disconnect(), and the database's other clients.                         *)

\* mysql closes the pool and leaves self._pool set while it waits; postgresql
\* unsets it first.  Free connections are closed at once.
Disconnect ==
    /\ attr /\ pool = "open"
    /\ pool' = "closing"
    /\ attr' = (driver = "mysql")
    /\ UNCHANGED <<driver, session, owner, call, version, asof, written>>

\* Seeded fault: disconnect does not wait for the connections in use.
DisconnectedAtOnce ==
    /\ pool = "closing"
    /\ pool' = "closed"
    /\ attr' = FALSE
    /\ UNCHANGED <<driver, session, owner, call, version, asof, written>>

\* Every connection in use has come back.
Disconnected ==
    /\ pool = "closing"
    /\ \A x \in Conns : owner[x] = None
    /\ pool' = "closed"
    /\ attr' = FALSE
    /\ UNCHANGED <<driver, session, owner, call, version, asof, written>>

\* Some other client of the database commits a change.
Write ==
    /\ version < MaxWrites
    /\ version' = version + 1
    /\ UNCHANGED <<source, session, owner, call, asof, written>>

\* What the process does by itself, the end of a timeout among it.  asyncmy has the
\* rows when the statement has ended, and keeps the session of what it takes back.
Unaided(c) ==
    \/ AcquireFails(c) \/ ReacquireFails(c)
    \/ driver = "mysql" /\ (Fetch(c) \/ TimesOut(c))

\* What waits for the server with no timeout: a connection, which the pool may have
\* to make, the settings, the statements of the other methods but health_check, and
\* the prepare; and what asyncpg sends to cancel a statement and to reset a session.
AwaitsServer(c) ==
    \/ Acquire(c) \/ Setup(c) \/ RunOther(c) \/ Prepare(c)
    \/ driver = "postgresql" /\ (Fetch(c) \/ TimesOut(c))

Next ==
    \/ \E c \in Calls :
         \/ \E k \in Kinds, r \in Requests \cup {NoRequest} : Begin(c, k, r)
         \/ Unaided(c) \/ AwaitsServer(c)
         \/ Run(c) \/ WriteRefused(c) \/ StatementFails(c)
    \/ Disconnect \/ Disconnected \/ Write

Spec == Init /\ [][Next]_vars

-----------------------------------------------------------------------------
(* Properties                                                              *)

Holding == {"setup", "run", "fetch", "prepare"}

TypeOK ==
    /\ driver \in Drivers /\ attr \in BOOLEAN /\ pool \in {"open", "closing", "closed"}
    /\ session \in [Conns -> [readOnly : BOOLEAN, timeout : Nat, snapshot : 0 .. MaxWrites \cup {None}]]
    /\ owner \in [Conns -> Calls \cup {None}]
    /\ pc \in [Calls -> Holding \cup {"idle", "acquire", "reacquire", "done"}]
    /\ req \in [Calls -> Requests \cup {NoRequest}]
    /\ kind \in [Calls -> Kinds \cup {None}]
    /\ rows \in [Calls -> Nat]
    /\ version \in 0 .. MaxWrites /\ asof \in [Calls -> 0 .. MaxWrites]
    /\ \A c \in Calls : Cardinality(Held(c)) = IF pc[c] \in Holding THEN 1 ELSE 0

Answered(c) == pc[c] = "done" /\ kind[c] = "execute" /\ answer[c].outcome = "rows"

\* While a statement of execute() runs, its session is read-only and carries the
\* statement's own timeout, whichever call used the connection before
\* (mysql.py:222-230, postgresql.py:167-170).
RunsUnderOwnSettings ==
    \A c \in Calls : pc[c] = "run" /\ kind[c] = "execute" =>
        session[Using(c)].readOnly /\ session[Using(c)].timeout = req[c].timeout

\* The rows of an answer are not older than the call: a connection that comes
\* back with a transaction open does not serve its snapshot to the next query
\* (mysql.py:226, the ROLLBACK).
RowsNotOlderThanCall == \A c \in Calls : Answered(c) => answer[c].read >= asof[c]

\* No statement changes the database: what the keyword scan lets through the
\* read-only session refuses (sql-datasource.md:103-110).
NothingWritten == ~written

\* How many rows a statement selects as it was asked.
Own(s) == Capped(s.rows, s.limit)

\* An answer has all the rows its statement selects, up to max_rows: the limit
\* that is injected never changes it (mysql.py:211-212 and :289-290).
RowsAsAsked ==
    \A c \in Calls : Answered(c) =>
        /\ req[c].max # None => answer[c].rows = Least(Own(req[c].stmt), req[c].max)
        /\ req[c].max = None => answer[c].rows \in {Own(req[c].stmt), DefaultRows}

\* Disconnecting waits for the calls that have a connection: none of them loses
\* it (mysql.py:176-179, postgresql.py:125-129).
ClosedPoolIsUnused == pool = "closed" => \A x \in Conns : owner[x] = None

-----------------------------------------------------------------------------
(* Departures: what a document says and the code does not keep.  No run checks *)
(* them; TLC refutes each in the instance of this module's run.                *)

\* mysql.py:343-344, of schema_info: "the full schema for the current database is
\* returned"; it is cut at one fetchmany.
SchemaIsFull ==
    \A c \in Calls : kind[c] = "schema_info" /\ answer[c].outcome = "catalog" =>
        answer[c].rows = Catalog

\* mysql.py:200-203, of execute: it raises DataSourceError "With code
\* CONNECTION_FAILED, QUERY_FAILED, or TIMEOUT", also while disconnect() waits.
ErrorsAreCoded == \A c \in Calls : kind[c] = "execute" => answer[c].outcome # "raw"

\* sql-datasource.md:111: "Inject LIMIT if absent", so that no more rows than
\* the cap are fetched into memory.
FetchesWithinCap ==
    \A c \in Calls : kind[c] = "execute" /\ req[c].stmt.verb = "SELECT"
                     /\ req[c].stmt.limit = None => rows[c] <= MaxRows(req[c].max)

\* mysql.py:222-223: read-only and the statement timeout hold "for the lifetime
\* of this connection checkout": no later call finds them.
SettingsEndWithCheckout == \A x \in Conns : owner[x] = None => session[x].timeout = 0
=============================================================================
