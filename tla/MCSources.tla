----------------------------- MODULE MCSources ------------------------------
(***************************************************************************)
(* Small instances for TLC of a source that is called and disconnected: in *)
(* a behaviour it is a SQL source of either driver or an HTTP source.      *)
(***************************************************************************)
EXTENDS SqlSource, Sequences

CONSTANTS
    c1, c2, x1,
    HttpCalls, Resources, Params, Statuses, MaxBytes, RowsAsked \* those of HttpSource

TwoCalls == {c1, c2}
OneConn  == {x1}

BothDrivers == {"mysql", "postgresql"}
AllErrors   == {"programming", "operational", "other"}

Select(n)     == [verb |-> "SELECT", limit |-> None, mentions |-> FALSE,
                  keyword |-> FALSE, writes |-> FALSE, rows |-> n]
Cte(n)        == [Select(n) EXCEPT !.verb = "WITH"]
Limited(n, k) == [Select(n) EXCEPT !.limit = k, !.mentions = TRUE]
Drop          == [Select(0) EXCEPT !.keyword = TRUE, !.writes = TRUE]
\* SELECT credit_limit FROM ...
MentionsLimit(n) == [Select(n) EXCEPT !.mentions = TRUE]
\* A statement that writes without one of the keywords.
Sneaky        == [Select(1) EXCEPT !.verb = "SHOW", !.writes = TRUE]

Ask(s, m, t) == [stmt |-> s, max |-> m, timeout |-> t]

SomeRequests == {
    Ask(Cte(3), 1, 2), Ask(Drop, None, 1), Ask(Sneaky, None, 1), Ask(Select(0), 1, 1),
    Ask(Select(3), None, 1), Ask(MentionsLimit(3), None, 1), Ask(Select(3), 2, 2), Ask(Limited(3, 1), 2, 1) }

-----------------------------------------------------------------------------
(* The HTTP source has three resources: one sampled with GET, one with         *)
(* declared columns and a body template, one with a method execute() refuses.  *)

SomeResources == <<
    [name |-> "users",  method |-> "GET",    declared |-> FALSE, tokens |-> {}],
    [name |-> "search", method |-> "POST",   declared |-> TRUE,  tokens |-> {"q"}],
    [name |-> "orders", method |-> "DELETE", declared |-> FALSE, tokens |-> {}] >>

SomeParams   == {{}, {"q"}}
SomeStatuses == {200, 304, 500}
\* One call is enough: the calls of an HTTP source only share its client, which
\* is disconnected at any time.
OneCall      == {c1}

VARIABLES client, todo, entries, got, asked

Http == INSTANCE HttpSource WITH Calls <- HttpCalls

ASSUME HttpSourceAssumption == Http!HttpAssumption

\* The variables of the other kind have no value.
Unused == "unused"

sql  == <<driver, attr, pool, session, owner, req, kind, rows, version, asof, written>>
http == <<client, todo, entries, got, asked>>

MCInit ==
    \/ Init /\ client = Unused /\ todo = Unused /\ entries = Unused /\ got = Unused /\ asked = Unused
    \/ /\ Http!Init
       /\ driver = "http" /\ attr = Unused /\ pool = Unused /\ session = Unused /\ owner = Unused
       /\ req = Unused /\ kind = Unused /\ rows = Unused /\ version = Unused
       /\ asof = Unused /\ written = Unused

IsSql  == driver # "http"
IsHttp == driver = "http"

MCNext ==
    \/ IsSql /\ Next /\ UNCHANGED http
    \/ IsHttp /\ Http!Next /\ UNCHANGED sql

\* The event loop runs every coroutine that can run, and timers fire.  Nothing is
\* assumed of the server: whatever waits for it may wait for ever.
Sql(action) == IsSql /\ action /\ UNCHANGED http
Fairness == \A c \in Calls : WF_vars(Sql(Unaided(c)))

MCSpec == MCInit /\ [][MCNext]_<<vars, http>> /\ Fairness

\* SqlSource's RunsUnderOwnSettings, NothingWritten and ClosedPoolIsUnused,
\* with its type invariant: no call sees what others have left of a connection.
SessionsArePrepared ==
    IsSql => TypeOK /\ RunsUnderOwnSettings /\ NothingWritten /\ ClosedPoolIsUnused

\* SqlSource's RowsNotOlderThanCall and RowsAsAsked: what is answered is what the
\* statement selects now.
AnswersAreRight == IsSql => RowsNotOlderThanCall /\ RowsAsAsked

\* The server answers, if only with an error, and connections are made and served
\* to those that wait.
ServerAnswers == \A c \in Calls : WF_vars(Sql(AwaitsServer(c)))

\* A MySQL statement that has begun is answered, by a timeout if by nothing else,
\* even when the server never does anything again (mysql.py:232-247).  With a server
\* that answers everything but statements, whose end it never owes, every call that
\* asks the pool for a connection is answered, with more calls than connections,
\* errors, empty results that need a second connection and a disconnect at any time
\* (mysql.py:218-284, postgresql.py:163-260).
EverySqlCallAnswered ==
    /\ \A c \in Calls :
         (driver = "mysql" /\ kind[c] = "execute" /\ pc[c] = "run") ~> (IsSql /\ pc[c] = "done")
    /\ ServerAnswers =>
         \A c \in Calls : (IsSql /\ pc[c] = "acquire") ~> (IsSql /\ pc[c] = "done")

\* HttpSource's AnswerWithinLimits with its type invariant.
AnswersWithinLimits == IsHttp => Http!TypeOK /\ Http!AnswerWithinLimits

\* HttpSource's EveryResourceDescribed.
EveryResourceDescribed == IsHttp => Http!EveryResourceDescribed
=============================================================================
