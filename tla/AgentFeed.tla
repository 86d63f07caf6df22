------------------------------ MODULE AgentFeed ------------------------------
(***************************************************************************)
(* The audit trail of MCP queries and the live agent feed: tools.py runs a *)
(* query and records it with the TraceSink (core/trace.py), whose events   *)
(* go to every WebSocket of the AgentConnectionManager (web/ws.py), which  *)
(* also pings them.  Scenarios group executions.                           *)
(*                                                                         *)
(* All of it shares one event loop and one SQLite connection, so a COMMIT  *)
(* by one coroutine commits whatever the others have written.  An action   *)
(* is one awaited operation with what its coroutine does up to the next.   *)
(***************************************************************************)
EXTENDS Naturals, FiniteSets, Sequences, SequencesExt

CONSTANTS
    Calls,       \* MCP tool calls that may be in progress together
    Viewers,     \* WebSocket connections; one that is broken never comes back
    Scenarios,   \* scenarios that may be opened
    None,        \* "no scenario"
    Faults,      \* what may go wrong: a subset of FaultKinds
    MaxQueries,  \* bound on the queries run over a behaviour
    MaxCrashes   \* bound on process restarts

FaultKinds == {"query", "write", "cancel", "stall"}

ASSUME FeedAssumption ==
    /\ IsFiniteSet(Calls) /\ IsFiniteSet(Viewers)
    /\ None \notin Scenarios
    /\ Faults \subseteq FaultKinds
    /\ MaxQueries \in Nat /\ MaxCrashes \in Nat

VARIABLES
    pc,         \* where each call is suspended
    scenario,   \* the scenario_id argument of its query
    execution,  \* the id of the trace_executions row it inserted
    todo,       \* the sockets its broadcast has still to send to
    rows,       \* trace_executions as the shared connection sees it
    disk,       \* trace_executions as last committed
    status,     \* of each scenario: none, open or closed
    link,       \* of each socket: absent, live, stalled (not reading) or dead
    registered, \* self._connections
    joined,     \* how many rows there were when the socket connected
    inbox,      \* the trace events sent to each socket, in order
    heart,      \* the heartbeat task: off, sleep or ping
    pings,      \* the sockets its round has still to ping
    executed,   \* DataSource.execute() calls that have ended
    queries, crashes

call    == <<pc, scenario, execution, todo>>
store   == <<rows, disk, status>>
sockets == <<link, registered, joined, inbox>>
beat    == <<heart, pings>>
bounds  == <<queries, crashes>>
vars    == <<call, store, sockets, beat, executed, bounds>>

Steps == {"idle", "execute", "insert", "commitInsert", "tellStarted",
          "update", "commitUpdate", "tellFinished"}

Row   == [scenario : Scenarios \cup {None}, finished : BOOLEAN]
Event == [kind : {"started", "finished"}, execution : Nat]

Started(e)  == [kind |-> "started", execution |-> e]
Finished(e) == [kind |-> "finished", execution |-> e]

Init ==
    /\ pc = [c \in Calls |-> "idle"]
    /\ scenario = [c \in Calls |-> None]
    /\ execution = [c \in Calls |-> 0]
    /\ todo = [c \in Calls |-> <<>>]
    /\ rows = <<>> /\ disk = <<>>
    /\ status = [s \in Scenarios |-> "none"]
    /\ link = [v \in Viewers |-> "absent"]
    /\ registered = {}
    /\ joined = [v \in Viewers |-> 0]
    /\ inbox = [v \in Viewers |-> <<>>]
    /\ heart = "off" /\ pings = <<>>
    /\ executed = 0 /\ queries = 0 /\ crashes = 0

Goto(c, step) == pc' = [pc EXCEPT ![c] = step]

\* The call is over, and its locals with it.
Leave(c) ==
    /\ Goto(c, "idle")
    /\ scenario' = [scenario EXCEPT ![c] = None]
    /\ execution' = [execution EXCEPT ![c] = 0]

-----------------------------------------------------------------------------
(* execute_query and cross_query, which differ in what runs the query.     *)

\* The scenario is whichever the agent names, open or not.
Begin(c, s) ==
    /\ pc[c] = "idle" /\ queries < MaxQueries
    /\ s # None => status[s] # "none"
    /\ Goto(c, "execute")
    /\ scenario' = [scenario EXCEPT ![c] = s]
    /\ queries' = queries + 1
    /\ UNCHANGED <<execution, todo, store, sockets, beat, executed, crashes>>

\* The source answers, or fails: an exception passes the trace by.
Execute(c) ==
    /\ pc[c] = "execute"
    /\ executed' = executed + 1
    /\ \/ Goto(c, "insert") /\ UNCHANGED <<scenario, execution>>
       \/ "query" \in Faults /\ Leave(c)
    /\ UNCHANGED <<todo, store, sockets, beat, bounds>>

\* start_execution: INSERT.  lastrowid is the statement's own.
Insert(c) ==
    /\ pc[c] = "insert"
    /\ Goto(c, "commitInsert")
    /\ rows' = Append(rows, [scenario |-> scenario[c], finished |-> FALSE])
    /\ execution' = [execution EXCEPT ![c] = Len(rows) + 1]
    /\ UNCHANGED <<scenario, todo, disk, status, sockets, beat, executed, bounds>>

\* broadcast goes through list(self._connections), a set, in its own order.
Snapshot(c) == \E order \in SetToSeqs(registered) : todo' = [todo EXCEPT ![c] = order]

\* Seeded fault: the event goes out before the COMMIT.
TellsBeforeCommit(c) ==
    /\ pc[c] = "commitInsert"
    /\ Goto(c, "tellStarted")
    /\ Snapshot(c)
    /\ UNCHANGED <<scenario, execution, store, sockets, beat, executed, bounds>>

\* COMMIT, then _notify(execution_started).
CommitInsert(c) ==
    /\ pc[c] = "commitInsert"
    /\ Goto(c, "tellStarted")
    /\ disk' = rows
    /\ Snapshot(c)
    /\ UNCHANGED <<scenario, execution, rows, status, sockets, beat, executed, bounds>>

\* finish_execution: UPDATE of the row by its id ...
Update(c) ==
    /\ pc[c] = "update"
    /\ Goto(c, "commitUpdate")
    /\ rows' = [rows EXCEPT ![execution[c]].finished = TRUE]
    /\ UNCHANGED <<scenario, execution, todo, disk, status, sockets, beat, executed, bounds>>

\* ... COMMIT, then _notify(execution_finished).
CommitUpdate(c) ==
    /\ pc[c] = "commitUpdate"
    /\ Goto(c, "tellFinished")
    /\ disk' = rows
    /\ Snapshot(c)
    /\ UNCHANGED <<scenario, execution, rows, status, sockets, beat, executed, bounds>>

\* A statement fails (the database is locked, the disk full): `except
\* Exception: pass`, and the query is answered.
WriteFails(c) ==
    /\ "write" \in Faults
    /\ pc[c] \in {"insert", "commitInsert", "update", "commitUpdate"}
    /\ Leave(c)
    /\ UNCHANGED <<todo, store, sockets, beat, executed, bounds>>

\* The client goes away: CancelledError is no Exception and ends the call.
Cancel(c) ==
    /\ "cancel" \in Faults
    /\ pc[c] # "idle"
    /\ Leave(c)
    /\ todo' = [todo EXCEPT ![c] = <<>>]
    /\ UNCHANGED <<store, sockets, beat, executed, bounds>>

-----------------------------------------------------------------------------
(* AgentConnectionManager.                                                 *)

Telling(c) == pc[c] \in {"tellStarted", "tellFinished"}
News(c) == IF pc[c] = "tellStarted" THEN Started(execution[c]) ELSE Finished(execution[c])

\* Seeded fault: a socket that cannot be sent to ends the broadcast.
TellStopsAtDead(c) ==
    /\ Telling(c) /\ todo[c] # <<>>
    /\ LET v == Head(todo[c]) IN
       \/ /\ link[v] = "live"
          /\ inbox' = [inbox EXCEPT ![v] = Append(@, News(c))]
          /\ todo' = [todo EXCEPT ![c] = Tail(@)]
          /\ UNCHANGED registered
       \/ /\ link[v] = "dead"
          /\ registered' = registered \ {v}
          /\ todo' = [todo EXCEPT ![c] = <<>>]
          /\ UNCHANGED inbox
    /\ UNCHANGED <<pc, scenario, execution, store, link, joined, beat, executed, bounds>>

\* Seeded fault: the broadcast starts over without the socket that failed.
TellStartsOver(c) ==
    /\ Telling(c) /\ todo[c] # <<>>
    /\ LET v == Head(todo[c]) IN
       \/ /\ link[v] = "live"
          /\ inbox' = [inbox EXCEPT ![v] = Append(@, News(c))]
          /\ todo' = [todo EXCEPT ![c] = Tail(@)]
          /\ UNCHANGED registered
       \/ /\ link[v] = "dead"
          /\ registered' = registered \ {v}
          /\ todo' = [todo EXCEPT ![c] = SetToSeq(registered \ {v})]
          /\ UNCHANGED inbox
    /\ UNCHANGED <<pc, scenario, execution, store, link, joined, beat, executed, bounds>>

\* Seeded fault: a failed send is tried again.
TellInsists(c) ==
    /\ Telling(c) /\ todo[c] # <<>>
    /\ LET v == Head(todo[c]) IN
          /\ link[v] = "live"
          /\ inbox' = [inbox EXCEPT ![v] = Append(@, News(c))]
          /\ todo' = [todo EXCEPT ![c] = Tail(@)]
    /\ UNCHANGED <<pc, scenario, execution, store, link, registered, joined, beat, executed, bounds>>

\* One `await ws.send_text(...)` of a broadcast: a stalled socket keeps it
\* waiting, and one that is dead raises and is disconnected.
Tell(c) ==
    /\ Telling(c) /\ todo[c] # <<>>
    /\ todo' = [todo EXCEPT ![c] = Tail(@)]
    /\ LET v == Head(todo[c]) IN
       \/ /\ link[v] = "live"
          /\ inbox' = [inbox EXCEPT ![v] = Append(@, News(c))]
          /\ UNCHANGED registered
       \/ /\ link[v] = "dead"
          /\ registered' = registered \ {v}
          /\ UNCHANGED inbox
    /\ UNCHANGED <<pc, scenario, execution, store, link, joined, beat, executed, bounds>>

\* Seeded fault: the query is answered once its start has been told.
EndTellAnswers(c) ==
    /\ Telling(c) /\ todo[c] = <<>>
    /\ Leave(c)
    /\ UNCHANGED <<todo, store, sockets, beat, executed, bounds>>

\* The broadcast is over: finish_execution is next, or the answer.
EndTell(c) ==
    /\ Telling(c) /\ todo[c] = <<>>
    /\ \/ /\ pc[c] = "tellStarted" /\ Goto(c, "update")
          /\ UNCHANGED <<scenario, execution>>
       \/ pc[c] = "tellFinished" /\ Leave(c)
    /\ UNCHANGED <<todo, store, sockets, beat, executed, bounds>>

\* connect(): accept, register, and start the heartbeat if there is none.
Connect(v) ==
    /\ link[v] = "absent"
    /\ link' = [link EXCEPT ![v] = "live"]
    /\ registered' = registered \cup {v}
    /\ joined' = [joined EXCEPT ![v] = Len(rows)]
    /\ heart' = IF heart = "off" THEN "sleep" ELSE heart
    /\ UNCHANGED <<call, store, inbox, pings, executed, bounds>>

\* The endpoint's receive_text() raises: a broken socket is noticed.
Notice(v) ==
    /\ link[v] = "dead" /\ v \in registered
    /\ registered' = registered \ {v}
    /\ UNCHANGED <<call, store, link, joined, inbox, beat, executed, bounds>>

\* _heartbeat_loop: a round of pings after every sleep.
Wake ==
    /\ heart = "sleep"
    /\ heart' = "ping"
    /\ pings' \in SetToSeqs(registered)
    /\ UNCHANGED <<call, store, sockets, executed, bounds>>

\* Seeded fault: the heartbeat ignores a failed ping.
PingForgives ==
    /\ heart = "ping" /\ pings # <<>>
    /\ link[Head(pings)] # "stalled"
    /\ pings' = Tail(pings)
    /\ UNCHANGED <<call, store, sockets, heart, executed, bounds>>

Ping ==
    /\ heart = "ping" /\ pings # <<>>
    /\ pings' = Tail(pings)
    /\ \/ link[Head(pings)] = "live" /\ UNCHANGED registered
       \/ link[Head(pings)] = "dead" /\ registered' = registered \ {Head(pings)}
    /\ UNCHANGED <<call, store, link, joined, inbox, heart, executed, bounds>>

Rest ==
    /\ heart = "ping" /\ pings = <<>>
    /\ heart' = "sleep"
    /\ UNCHANGED <<call, store, sockets, pings, executed, bounds>>

-----------------------------------------------------------------------------
(* Scenarios.  Until its answer is sent nobody knows of the change, so the *)
(* statement and its COMMIT are one action.                                *)

StartScenario(s) ==
    /\ status[s] = "none"
    /\ status' = [status EXCEPT ![s] = "open"]
    /\ disk' = rows
    /\ UNCHANGED <<call, rows, sockets, beat, executed, bounds>>

EndScenario(s) ==
    /\ status[s] = "open"
    /\ status' = [status EXCEPT ![s] = "closed"]
    /\ disk' = rows
    /\ UNCHANGED <<call, rows, sockets, beat, executed, bounds>>

-----------------------------------------------------------------------------
(* The environment.                                                        *)

Break(v) ==
    /\ link[v] \in {"live", "stalled"}
    /\ link' = [link EXCEPT ![v] = "dead"]
    /\ UNCHANGED <<call, store, registered, joined, inbox, beat, executed, bounds>>

\* The peer stops reading and the send buffer is full ...
Stall(v) ==
    /\ "stall" \in Faults
    /\ link[v] = "live"
    /\ link' = [link EXCEPT ![v] = "stalled"]
    /\ UNCHANGED <<call, store, registered, joined, inbox, beat, executed, bounds>>

\* ... until it reads again.
Resume(v) ==
    /\ link[v] = "stalled"
    /\ link' = [link EXCEPT ![v] = "live"]
    /\ UNCHANGED <<call, store, registered, joined, inbox, beat, executed, bounds>>

\* The process dies and starts again: what was not committed is gone.
Crash ==
    /\ crashes < MaxCrashes
    /\ crashes' = crashes + 1
    /\ pc' = [c \in Calls |-> "idle"]
    /\ scenario' = [c \in Calls |-> None]
    /\ execution' = [c \in Calls |-> 0]
    /\ todo' = [c \in Calls |-> <<>>]
    /\ rows' = disk
    /\ link' = [v \in Viewers |-> IF link[v] = "absent" THEN "absent" ELSE "dead"]
    /\ registered' = {}
    /\ heart' = "off" /\ pings' = <<>>
    /\ UNCHANGED <<disk, status, joined, inbox, executed, queries>>

Record(c) == Insert(c) \/ CommitInsert(c) \/ Update(c) \/ CommitUpdate(c)
Step(c) == Execute(c) \/ Record(c) \/ WriteFails(c) \/ Tell(c) \/ EndTell(c)
Heartbeat == Wake \/ Ping \/ Rest

Next ==
    \/ \E c \in Calls : Step(c) \/ Cancel(c) \/ \E s \in Scenarios \cup {None} : Begin(c, s)
    \/ \E v \in Viewers : Connect(v) \/ Notice(v) \/ Break(v) \/ Stall(v) \/ Resume(v)
    \/ \E s \in Scenarios : StartScenario(s) \/ EndScenario(s)
    \/ Heartbeat \/ Crash

Spec == Init /\ [][Next]_vars

\* asyncio runs every ready coroutine, and a source's execute() has a timeout.
\* A peer that reads again and again lets the send through (hence SF), and none
\* stalls for ever: the WebSocket server (uvicorn) closes a connection that does
\* not answer its keepalive.
FairSpec ==
    /\ Spec
    /\ \A c \in Calls : SF_vars(Step(c))
    /\ SF_vars(Heartbeat)
    /\ \A v \in Viewers : WF_vars(link[v] = "stalled" /\ Break(v))
-----------------------------------------------------------------------------
(* Properties                                                              *)

TypeOK ==
    /\ pc \in [Calls -> Steps]
    /\ scenario \in [Calls -> Scenarios \cup {None}]
    /\ execution \in [Calls -> 0 .. MaxQueries]
    /\ \A c \in Calls : Telling(c) \/ pc[c] \in {"update", "commitUpdate"} =>
                            execution[c] \in DOMAIN rows
    /\ \A c \in Calls : ~Telling(c) => todo[c] = <<>>
    /\ \A c \in Calls : ToSet(todo[c]) \subseteq Viewers /\ IsInjective(todo[c])
    /\ rows \in Seq(Row) /\ disk \in Seq(Row)
    /\ status \in [Scenarios -> {"none", "open", "closed"}]
    /\ link \in [Viewers -> {"absent", "live", "stalled", "dead"}]
    /\ registered \subseteq Viewers
    /\ joined \in [Viewers -> 0 .. MaxQueries]
    /\ \A v \in Viewers : inbox[v] \in Seq(Event)
    /\ heart \in {"off", "sleep", "ping"}
    /\ pings # <<>> => heart = "ping"

Quiet == \A c \in Calls : pc[c] = "idle"

\* Whatever broadcasts and disconnections interleave, a socket gets each event
\* at most once, and an execution's start never after its end (trace.py:305-347,
\* ws.py:72-81).
FeedOrder ==
    \A v \in Viewers :
        /\ IsInjective(inbox[v])
        /\ \A i, j \in DOMAIN inbox[v] : i < j =>
             ~ \E e \in 1 .. MaxQueries : inbox[v][i] = Finished(e) /\ inbox[v][j] = Started(e)

\* A socket that was there when an execution started, and still is, has both
\* its events once the call is over, whichever other sockets broke during the
\* broadcast (ws.py:75, "Connections that fail to send are ... disconnected").
NoGaps ==
    \A v \in registered, e \in DOMAIN rows :
        /\ link[v] = "live" /\ joined[v] < e
        /\ rows[e].finished
        /\ \A c \in Calls : execution[c] # e
        => {Started(e), Finished(e)} \subseteq ToSet(inbox[v])

\* What the feed has shown is in the trace store for good: no crash takes back,
\* or gives to another query, an execution that some client has heard of.
SeenIsStored ==
    \A v \in Viewers : \A n \in ToSet(inbox[v]) :
        /\ n.execution \in DOMAIN disk
        /\ n.kind = "finished" => disk[n.execution].finished

\* The same, with the types of the state.
FeedInv == TypeOK /\ SeenIsStored

\* trace.py:105: one execution per DataSource.execute() call, and each is
\* finished by the call it belongs to, however calls share the connection, if
\* queries and writes succeed and the process is not restarted.
OneExecutionPerQuery ==
    Quiet /\ crashes = 0 =>
        Len(rows) = executed /\ \A e \in DOMAIN rows : rows[e].finished

\* Every query is answered in the end, whichever clients of the feed stall for
\* a while or break (test_trace.py: test_subscriber_exception_does_not_break_trace).
EveryQueryAnswered == \A c \in Calls : pc[c] # "idle" ~> pc[c] = "idle"

\* ws.py:36-37: the heartbeat detects dead clients, although nobody reads from
\* them and no event is sent.
DeadClientsPruned ==
    \A v \in Viewers : (v \in registered /\ link[v] = "dead") ~> (v \notin registered)
=============================================================================
