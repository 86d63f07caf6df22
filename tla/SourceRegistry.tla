--------------------------- MODULE SourceRegistry ---------------------------
(***************************************************************************)
(* The source registry (datasources/registry.py) with the config CRUD      *)
(* endpoints that drive it (web/routes/config.py, config.py): config.toml  *)
(* is edited in place, refresh() builds a new set of instances one connect *)
(* at a time and swaps it in, and replaced instances are drained.          *)
(*                                                                         *)
(* Several refreshes may be suspended in connect() at once, since every    *)
(* endpoint calls refresh() and nothing serialises them.  Time passes in   *)
(* units (Tick) so that the drain's grace period can be compared with how  *)
(* long a query may run.                                                   *)
(***************************************************************************)
EXTENDS Naturals, Sequences, SequencesExt, FiniteSets

CONSTANTS
    Ids,          \* source ids
    Classes,      \* DataSource classes
    AuthClasses,  \* those whose sources declare two-step auth
    Refreshers,   \* requests that may call refresh() at the same time
    Queriers,     \* queries that may be in flight at the same time
    None,         \* "no instance"
    InitialFile,  \* the blocks of config.toml at start-up
    Grace,        \* grace_period of the drain, in units of time
    QueryTime,    \* how long a query may run, in the same units
    MaxOps,       \* bound on refreshes
    MayFail       \* whether connect() may fail

\* A block's rev tells two versions of a source apart.
Block    == [id : Ids, cls : Classes, rev : Nat]
Instance == [id : Ids, cls : Classes, rev : Nat, op : Nat]

ASSUME RegistryAssumption ==
    /\ AuthClasses \subseteq Classes
    /\ InitialFile \in Seq(Block) /\ None \notin Instance
    /\ Grace \in Nat /\ QueryTime \in Nat /\ MaxOps \in Nat
    /\ MayFail \in BOOLEAN

VARIABLES
    phase,      \* of the process: booting, running, aborted or stopped
    file,       \* config.toml: its [[sources]] blocks in order
    config,     \* self._config: the blocks as last parsed
    registered, \* self._instances
    connected,  \* instances whose pool or client is open
    draining,   \* instances handed to a drain task, with the time left
    managers,   \* TokenManagers created so far
    ops,        \* refreshes begun so far
    pc,         \* per refresher: idle, ensure (token manager) or connect
    op,         \* per refresher: the number of its refresh, 0 when idle
    todo,       \* per refresher: blocks still to be connected
    built,      \* per refresher: instances it has connected, in order
    stale,      \* whether a refresh has failed since the last swap
    overlap,    \* whether one has begun during another since one last began alone
    query       \* per querier: the instance it runs on and its time left

files == <<file, config>>
tasks == <<pc, op, todo, built>>
live  == <<registered, connected, draining>>
vars  == <<phase, files, live, managers, ops, tasks, stale, overlap, query>>

Instantiate(block, n) == [id |-> block.id, cls |-> block.cls, rev |-> block.rev, op |-> n]

NoInstances == [id \in Ids |-> None]
NoQuery     == [inst |-> None, left |-> 0]

\* The dict built by `new_instances[cfg.id] = instance`: the last block wins.
AsDict(insts) ==
    [id \in Ids |->
        LET same == {k \in DOMAIN insts : insts[k].id = id}
        IN  IF same = {} THEN None ELSE insts[Max(same)]]

Published == {registered[id] : id \in Ids} \ {None}
Drained   == {d.inst : d \in draining}

NeedsAuth(blocks) == \E k \in DOMAIN blocks : blocks[k].cls \in AuthClasses

Init ==
    /\ phase = "booting"
    /\ file = InitialFile /\ config = <<>>
    /\ registered = NoInstances /\ connected = {} /\ draining = {}
    /\ managers = 0 /\ ops = 0
    /\ pc = [t \in Refreshers |-> "idle"]
    /\ op = [t \in Refreshers |-> 0]
    /\ todo = [t \in Refreshers |-> <<>>]
    /\ built = [t \in Refreshers |-> <<>>]
    /\ stale = FALSE /\ overlap = FALSE
    /\ query = [q \in Queriers |-> NoQuery]

-----------------------------------------------------------------------------
(* Start-up and shutdown.                                                  *)

\* load_from_config: all sources connect concurrently.  If any fails, the last
\* instance of each id declared before the first failure is disconnected and the
\* process gives up.
Load ==
    /\ phase = "booting"
    /\ config' = file
    /\ managers' = IF NeedsAuth(file) THEN 1 ELSE 0
    /\ LET insts    == [k \in DOMAIN file |-> Instantiate(file[k], 0)]
           undone(k) == {AsDict(insts)[file[j].id] : j \in 1 .. k - 1}
       IN
       \/ /\ phase' = "running"
          /\ registered' = AsDict(insts)
          /\ connected' = {insts[k] : k \in DOMAIN file}
       \/ /\ MayFail
          /\ \E failed \in SUBSET DOMAIN file \ {{}} :
               connected' = {insts[k] : k \in DOMAIN file \ failed} \ undone(Min(failed))
          /\ phase' = "aborted"
          /\ UNCHANGED registered
    /\ UNCHANGED <<file, draining, ops, tasks, stale, overlap, query>>

\* shutdown, once the server has finished its requests: cancelled drains
\* disconnect at once, then every registered instance is disconnected.
Shutdown ==
    /\ phase = "running"
    /\ \A t \in Refreshers : pc[t] = "idle"
    /\ \A q \in Queriers : query[q] = NoQuery
    /\ phase' = "stopped"
    /\ connected' = connected \ (Drained \cup Published)
    /\ draining' = {} /\ registered' = NoInstances
    /\ managers' = 0
    /\ UNCHANGED <<files, ops, tasks, stale, overlap, query>>

-----------------------------------------------------------------------------
(* refresh().                                                              *)

\* Seeded fault: drain what has just been registered.
SwapDrainsNew(new) ==
    /\ registered' = new
    /\ draining' = draining \cup
         {[inst |-> new[id], left |-> Grace] :
            id \in {id \in Ids : registered[id] # None /\ new[id] # None
                                 /\ new[id].cls # registered[id].cls}}
    /\ stale' = FALSE

\* Seeded fault: no grace period for the instances that are replaced.
SwapDrainsAtOnce(new) ==
    /\ registered' = new
    /\ draining' = draining \cup
         {[inst |-> registered[id], left |-> 0] :
            id \in {id \in Ids : registered[id] # None
                                 /\ (new[id] = None \/ new[id].cls # registered[id].cls)}}
    /\ stale' = FALSE

\* The swap: the new dict is published, and the instances whose id is gone or
\* whose class changed are handed to a drain task.
Swap(new) ==
    /\ registered' = new
    /\ draining' = draining \cup
         {[inst |-> registered[id], left |-> Grace] :
            id \in {id \in Ids : registered[id] # None
                                 /\ (new[id] = None \/ new[id].cls # registered[id].cls)}}
    /\ stale' = FALSE

\* The loop over self._config.sources begins; with no source it is over.
BeginConnecting(t, n, blocks) ==
    \/ /\ blocks # <<>>
       /\ op' = [op EXCEPT ![t] = n]
       /\ pc' = [pc EXCEPT ![t] = "connect"]
       /\ todo' = [todo EXCEPT ![t] = blocks]
       /\ built' = [built EXCEPT ![t] = <<>>]
       /\ UNCHANGED <<registered, draining, stale>>
    \/ /\ blocks = <<>>
       /\ op' = [op EXCEPT ![t] = 0]
       /\ pc' = [pc EXCEPT ![t] = "idle"]
       /\ Swap(NoInstances)
       /\ UNCHANGED <<todo, built>>

\* Seeded fault: each refresh makes its own token manager.
RefreshRemakesManager(t, blocks) ==
    /\ config' = blocks
    /\ ops' = ops + 1
    /\ overlap' = \E u \in Refreshers \ {t} : pc[u] # "idle"
    /\ \/ /\ NeedsAuth(blocks)
          /\ pc' = [pc EXCEPT ![t] = "ensure"]
          /\ op' = [op EXCEPT ![t] = ops + 1]
          /\ UNCHANGED <<todo, built, registered, draining, stale>>
       \/ /\ ~NeedsAuth(blocks)
          /\ BeginConnecting(t, ops + 1, blocks)

\* refresh() re-parses the file, then creates the token manager (which awaits
\* the database) if a source needs one and none exists yet.
Refresh(t, blocks) ==
    /\ config' = blocks
    /\ ops' = ops + 1
    /\ overlap' = \E u \in Refreshers \ {t} : pc[u] # "idle"
    /\ \/ /\ NeedsAuth(blocks) /\ managers = 0
          /\ pc' = [pc EXCEPT ![t] = "ensure"]
          /\ op' = [op EXCEPT ![t] = ops + 1]
          /\ UNCHANGED <<todo, built, registered, draining, stale>>
       \/ /\ ~(NeedsAuth(blocks) /\ managers = 0)
          /\ BeginConnecting(t, ops + 1, blocks)

\* The token manager is ready; the loop runs over self._config as it is now.
TokenManagerReady(t) ==
    /\ pc[t] = "ensure"
    /\ managers' = managers + 1
    /\ BeginConnecting(t, op[t], config)
    /\ UNCHANGED <<phase, files, connected, ops, overlap, query>>

\* init_db or get_db raises: refresh() ends with no source connected.
TokenManagerFails(t) ==
    /\ pc[t] = "ensure" /\ MayFail
    /\ pc' = [pc EXCEPT ![t] = "idle"]
    /\ op' = [op EXCEPT ![t] = 0]
    /\ stale' = TRUE
    /\ UNCHANGED <<phase, files, live, managers, ops, todo, built, overlap, query>>

\* Seeded fault: an instance is published as soon as it is connected.
ConnectPublishes(t) ==
    /\ pc[t] = "connect"
    /\ LET inst == Instantiate(Head(todo[t]), op[t])
           more == Tail(todo[t]) # <<>>
       IN  /\ connected' = connected \cup {inst}
           /\ registered' = [registered EXCEPT ![inst.id] = inst]
           /\ todo' = [todo EXCEPT ![t] = Tail(@)]
           /\ pc' = [pc EXCEPT ![t] = IF more THEN "connect" ELSE "idle"]
           /\ op' = [op EXCEPT ![t] = IF more THEN @ ELSE 0]
    /\ UNCHANGED <<phase, files, draining, managers, ops, built, stale, overlap, query>>

\* One `await new_instance.connect()` succeeds; the last one is followed, with
\* no further await, by the diff and the swap.
Connect(t) ==
    /\ pc[t] = "connect"
    /\ LET inst == Instantiate(Head(todo[t]), op[t])
           now  == Append(built[t], inst)
       IN  /\ connected' = connected \cup {inst}
           /\ \/ /\ Tail(todo[t]) # <<>>
                 /\ todo' = [todo EXCEPT ![t] = Tail(@)]
                 /\ built' = [built EXCEPT ![t] = now]
                 /\ UNCHANGED <<pc, op, registered, draining, stale>>
              \/ /\ Tail(todo[t]) = <<>>
                 /\ pc' = [pc EXCEPT ![t] = "idle"]
                 /\ op' = [op EXCEPT ![t] = 0]
                 /\ todo' = [todo EXCEPT ![t] = <<>>]
                 /\ built' = [built EXCEPT ![t] = <<>>]
                 /\ Swap(AsDict(now))
    /\ UNCHANGED <<phase, files, managers, ops, overlap, query>>

\* Seeded fault: a refresh that cannot connect a source carries on without it.
ConnectFailureSwaps(t) ==
    /\ pc[t] = "connect" /\ MayFail
    /\ pc' = [pc EXCEPT ![t] = "idle"]
    /\ op' = [op EXCEPT ![t] = 0]
    /\ todo' = [todo EXCEPT ![t] = <<>>]
    /\ built' = [built EXCEPT ![t] = <<>>]
    /\ Swap(AsDict(built[t]))
    /\ UNCHANGED <<phase, files, connected, managers, ops, overlap, query>>

\* connect() raises: refresh() is abandoned where it stands.
ConnectFails(t) ==
    /\ pc[t] = "connect" /\ MayFail
    /\ pc' = [pc EXCEPT ![t] = "idle"]
    /\ op' = [op EXCEPT ![t] = 0]
    /\ todo' = [todo EXCEPT ![t] = <<>>]
    /\ built' = [built EXCEPT ![t] = <<>>]
    /\ stale' = TRUE
    /\ UNCHANGED <<phase, files, live, managers, ops, overlap, query>>

-----------------------------------------------------------------------------
(* The config endpoints: the file is rewritten synchronously, then refresh *)
(* is called, all before the first await.                                  *)

MayEdit(t) == phase = "running" /\ pc[t] = "idle" /\ ops < MaxOps

\* The first block with the id: what PUT and DELETE act on.
First(id) == Min({k \in DOMAIN file : file[k].id = id})
InFile(id) == \E k \in DOMAIN file : file[k].id = id

\* POST appends a block, even when the id exists already.
AddSource(t, id, cls) ==
    /\ MayEdit(t)
    /\ file' = Append(file, [id |-> id, cls |-> cls, rev |-> ops + 1])
    /\ Refresh(t, file')
    /\ UNCHANGED <<phase, connected, managers, query>>

\* PUT replaces the first block with the id; 404 when there is none.
UpdateSource(t, id, cls) ==
    /\ MayEdit(t) /\ InFile(id)
    /\ file' = [file EXCEPT ![First(id)] = [id |-> id, cls |-> cls, rev |-> ops + 1]]
    /\ Refresh(t, file')
    /\ UNCHANGED <<phase, connected, managers, query>>

\* DELETE wants the id registered, then removes its first block.
DeleteSource(t, id) ==
    /\ MayEdit(t) /\ registered[id] # None /\ InFile(id)
    /\ file' = RemoveAt(file, First(id))
    /\ Refresh(t, file')
    /\ UNCHANGED <<phase, connected, managers, query>>

\* POST /reload refreshes from the file as it stands.
ReloadConfig(t) ==
    /\ MayEdit(t)
    /\ Refresh(t, file)
    /\ UNCHANGED <<phase, file, connected, managers, query>>

-----------------------------------------------------------------------------
(* Queries, drains and time.                                               *)

\* registry.get: a query holds on to the instance it finds.
StartQuery(q, id) ==
    /\ phase = "running"
    /\ query[q] = NoQuery /\ registered[id] # None
    /\ query' = [query EXCEPT ![q] = [inst |-> registered[id], left |-> QueryTime]]
    /\ UNCHANGED <<phase, files, live, managers, ops, tasks, stale, overlap>>

EndQuery(q) ==
    /\ query[q] # NoQuery
    /\ query' = [query EXCEPT ![q] = NoQuery]
    /\ UNCHANGED <<phase, files, live, managers, ops, tasks, stale, overlap>>

\* _drain_old_instances, after the grace period.
Drain(d) ==
    /\ phase = "running" /\ d.left = 0
    /\ draining' = draining \ {d}
    /\ connected' = connected \ {d.inst}
    /\ UNCHANGED <<phase, files, registered, managers, ops, tasks, stale, overlap, query>>

\* Time passes, unless something is due now.
Tick ==
    /\ phase = "running"
    /\ \A d \in draining : d.left > 0
    /\ \A q \in Queriers : query[q] # NoQuery => query[q].left > 0
    /\ draining # {} \/ \E q \in Queriers : query[q] # NoQuery
    /\ draining' = {[d EXCEPT !.left = @ - 1] : d \in draining}
    /\ query' = [q \in Queriers |->
                    IF query[q] = NoQuery THEN NoQuery ELSE [query[q] EXCEPT !.left = @ - 1]]
    /\ UNCHANGED <<phase, files, registered, connected, managers, ops, tasks, stale, overlap>>

RefreshStep(t) ==
    TokenManagerReady(t) \/ TokenManagerFails(t) \/ Connect(t) \/ ConnectFails(t)

Next ==
    \/ Load \/ Shutdown \/ Tick
    \/ \E t \in Refreshers :
         \/ \E id \in Ids, cls \in Classes : AddSource(t, id, cls) \/ UpdateSource(t, id, cls)
         \/ \E id \in Ids : DeleteSource(t, id)
         \/ ReloadConfig(t) \/ RefreshStep(t)
    \/ \E q \in Queriers : EndQuery(q) \/ \E id \in Ids : StartQuery(q, id)
    \/ \E d \in draining : Drain(d)

Spec == Init /\ [][Next]_vars

-----------------------------------------------------------------------------
(* Properties                                                              *)

TypeOK ==
    /\ phase \in {"booting", "running", "aborted", "stopped"}
    /\ file \in Seq(Block) /\ config \in Seq(Block)
    /\ registered \in [Ids -> Instance \cup {None}]
    /\ connected \subseteq Instance
    /\ draining \subseteq [inst : Instance, left : 0 .. Grace]
    /\ managers \in Nat /\ ops \in 0 .. MaxOps
    /\ pc \in [Refreshers -> {"idle", "ensure", "connect"}]
    /\ op \in [Refreshers -> 0 .. MaxOps]
    /\ \A t \in Refreshers :
         /\ (pc[t] = "connect") <=> (todo[t] # <<>>)
         /\ (pc[t] = "idle") <=> (op[t] = 0)
    /\ stale \in BOOLEAN /\ overlap \in BOOLEAN
    /\ query \in [Queriers -> [inst : Instance \cup {None}, left : 0 .. QueryTime]]

Refreshing == \E t \in Refreshers : pc[t] # "idle"

\* No refresh, however it interleaves with others, fails or is overtaken, ever
\* closes an instance that lookups can still return (registry.py:392-406).
RegisteredAreConnected == Published \subseteq connected

\* Lookups see the outcome of one refresh, never a mixture of two or of a half
\* finished one (registry.py:161-163, "atomically swapped").
OneGeneration == \A i, j \in Published : i.op = j.op

\* The state of the registry: its types, and what lookups may rely on at any time.
RegistryInv == TypeOK /\ RegisteredAreConnected /\ OneGeneration

\* A query that is over within the grace period runs on an open instance
\* throughout, whatever is edited meanwhile (registry.py:341).
InFlightUndisturbed == \A q \in Queriers : query[q] # NoQuery => query[q].inst \in connected

\* What config.toml declares is what is registered: the last block of each id.
Declared ==
    \A id \in Ids :
        LET mine == {k \in DOMAIN file : file[k].id = id} IN
        \/ mine = {} /\ registered[id] = None
        \/ /\ mine # {} /\ registered[id] # None
           /\ registered[id].rev = file[Max(mine)].rev

Settled == phase = "running" /\ ~Refreshing /\ ~stale

\* Once no refresh is running, and the last one did not fail, the registry
\* serves exactly what config.toml declares, if the refreshes since the last
\* one that began alone did not overlap (registry.py:392-394).
ServesFile == Settled /\ ~overlap => Declared

\* registry.py:255-256: the token manager is reused across refresh() cycles.
\* Only overlapping refreshes may each create one, and with it another lock
\* and cache per source.
OneTokenManager == [][managers # 0 => managers' <= managers \/ overlap]_vars

-----------------------------------------------------------------------------
(* Departures: what a document says and the code does not keep.  No run checks *)
(* them; TLC refutes each in the instance of this module's run.                *)

\* config-panel.md:53-55, of every CRUD write: "the new/updated source becomes
\* queryable on the next query() call", however requests overlap.
ServesNewest == Settled => Declared
=============================================================================
