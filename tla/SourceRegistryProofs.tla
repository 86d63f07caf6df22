------------------------ MODULE SourceRegistryProofs ------------------------
(***************************************************************************)
(* Proofs about SourceRegistry, for every set of sources, refreshers and   *)
(* queries and every initial file, and about ConfigFile, for all lines     *)
(* that a person may write and all sources that requests may describe.     *)
(***************************************************************************)
EXTENDS MCSourceRegistry, FiniteSetTheorems, SequenceTheorems, WellFoundedInduction, TLAPS

-----------------------------------------------------------------------------
(* Positions in config.toml, and the dict that is built from it.           *)

\* A set of positions that is not empty has a highest one: the sets of the
\* positions above each of its elements are ordered by inclusion.
LEMMA HighestPosition ==
    ASSUME NEW n \in Nat, NEW S, S \subseteq 1 .. n, S # {}
    PROVE  Max(S) \in S /\ \A k \in S : k <= Max(S)
<1> DEFINE D == 1 .. n
           Above(k) == {j \in S : j > k}
           F == {Above(k) : k \in S}
<1>1. IsWellFoundedOn(StrictSubsetOrdering(D), FiniteSubsetsOf(D))
  BY FS_StrictSubsetOrderingWellFounded
<1>2. F \subseteq FiniteSubsetsOf(D) /\ F # {}
  <2>1. F \subseteq SUBSET D /\ F # {}
    OBVIOUS
  <2>2. IsFiniteSet(D)
    BY FS_Interval
  <2>3. FiniteSubsetsOf(D) = SUBSET D
    BY <2>2, FS_FiniteSubsetsOfFinite
  <2>4. QED
    BY <2>1, <2>3
<1>3. PICK X \in F : \A Y \in F : <<Y, X>> \notin StrictSubsetOrdering(D)
  <2> HIDE DEF F
  <2>1. QED
    BY <1>1, <1>2, WFMin
<1>4. PICK m \in S : X = Above(m)
  OBVIOUS
<1>5. ASSUME NEW k \in S, k > m PROVE FALSE
  <2>1. m \in Int /\ k \in Int /\ \A j \in S : j \in Int
    OBVIOUS
  <2>2. \A j \in S : j > k => j > m
    BY <1>5, <2>1
  <2>3. Above(k) \subseteq Above(m)
    BY <2>2
  <2>4. k \in Above(m) /\ k \notin Above(k)
    BY <1>5, <2>1
  <2>5. Above(k) \in F /\ Above(k) \in SUBSET D /\ Above(m) \in SUBSET D
    OBVIOUS
  <2> HIDE DEF F, Above, D
  <2>6. <<Above(k), Above(m)>> \in StrictSubsetOrdering(D)
    BY <2>3, <2>4, <2>5 DEF StrictSubsetOrdering
  <2>7. QED
    BY <1>3, <1>4, <2>5, <2>6
<1>6. \A k \in S : m >= k
  <2>1. m \in Int /\ \A j \in S : j \in Int
    OBVIOUS
  <2>2. QED
    BY <1>5, <2>1
<1>7. QED
  BY <1>6 DEF Max

\* It has a lowest one as well.
LEMMA LowestPosition ==
    ASSUME NEW n \in Nat, NEW S, S \subseteq 1 .. n, S # {}
    PROVE  Min(S) \in S
<1> DEFINE T == {n + 1 - k : k \in S}
<1>1. T \subseteq 1 .. n /\ T # {}
  <2>1. \A k \in S : k \in 1 .. n
    OBVIOUS
  <2>2. \A k \in S : n + 1 - k \in 1 .. n
    BY <2>1
  <2>3. QED
    BY <2>2
<1>2. Max(T) \in T /\ \A k \in T : k <= Max(T)
  <2> HIDE DEF T
  <2>1. QED
    BY <1>1, HighestPosition
<1>3. PICK m \in S : Max(T) = n + 1 - m
  BY <1>2
<1>4. \A k \in S : m <= k
  <2> SUFFICES ASSUME NEW k \in S PROVE m <= k
    OBVIOUS
  <2>1. n + 1 - k <= n + 1 - m
    BY <1>2, <1>3
  <2>2. k \in Int /\ m \in Int
    OBVIOUS
  <2>3. QED
    BY <2>1, <2>2
<1>5. QED
  BY <1>4 DEF Min

\* The dict holds, for each id, one of the instances with that id, or None.
LEMMA DictOfInstances ==
    ASSUME NEW insts \in Seq(Instance)
    PROVE  /\ AsDict(insts) \in [Ids -> Instance \cup {None}]
           /\ \A id \in Ids : AsDict(insts)[id] # None =>
                \E k \in DOMAIN insts : AsDict(insts)[id] = insts[k] /\ insts[k].id = id
<1> DEFINE Same(id) == {k \in DOMAIN insts : insts[k].id = id}
<1>1. \A id \in Ids : Same(id) # {} => Max(Same(id)) \in Same(id)
  <2> SUFFICES ASSUME NEW id \in Ids, Same(id) # {}
               PROVE  Max(Same(id)) \in Same(id)
    OBVIOUS
  <2>1. Same(id) \subseteq 1 .. Len(insts) /\ Len(insts) \in Nat
    BY LenProperties
  <2> HIDE DEF Same
  <2>2. QED
    BY <2>1, HighestPosition
<1>2. \A id \in Ids : AsDict(insts)[id] =
        IF Same(id) = {} THEN None ELSE insts[Max(Same(id))]
  BY DEF AsDict
<1>3. DOMAIN AsDict(insts) = Ids /\ AsDict(insts) = [id \in Ids |-> AsDict(insts)[id]]
  BY DEF AsDict
<1>4. \A k \in DOMAIN insts : insts[k] \in Instance
  BY LenProperties
<1>5. \A id \in Ids : AsDict(insts)[id] # None =>
        \E k \in DOMAIN insts : AsDict(insts)[id] = insts[k] /\ insts[k].id = id
  BY <1>1, <1>2
<1>6. \A id \in Ids : AsDict(insts)[id] \in Instance \cup {None}
  BY <1>4, <1>5
<1>7. QED
  BY <1>3, <1>5, <1>6

-----------------------------------------------------------------------------
(* AllTypes.                                                                  *)

\* What TypeOK leaves out: the refreshers' and the queries' locals.
Locals ==
    /\ todo \in [Refreshers -> Seq(Block)]
    /\ built \in [Refreshers -> Seq(Instance)]
    /\ \A t \in Refreshers : pc[t] # "connect" => built[t] = <<>>
    /\ \A q \in Queriers : query[q].inst = None => query[q] = NoQuery

AllTypes == TypeOK /\ Locals

\* What the four config endpoints have in common.
EditFile(t) ==
    /\ MayEdit(t)
    /\ file' \in Seq(Block)
    /\ Refresh(t, file')
    /\ UNCHANGED <<phase, connected, managers, query>>

\* The ways a refresh fails.
Abandon(t) == TokenManagerFails(t) \/ ConnectFails(t)

\* A step, with the endpoints and the failures taken together.
Steps ==
    \/ Load \/ Shutdown \/ Tick
    \/ \E t \in Refreshers : EditFile(t) \/ TokenManagerReady(t) \/ Connect(t) \/ Abandon(t)
    \/ \E q \in Queriers : EndQuery(q) \/ \E id \in Ids : StartQuery(q, id)
    \/ \E d \in draining : Drain(d)
    \/ UNCHANGED vars

\* The first block of an id that is in the file is one of its positions.
LEMMA FirstInFile ==
    ASSUME file \in Seq(Block), NEW id \in Ids, InFile(id)
    PROVE  First(id) \in 1 .. Len(file)
<1> DEFINE S == {k \in DOMAIN file : file[k].id = id}
<1>1. S \subseteq 1 .. Len(file) /\ Len(file) \in Nat
  BY LenProperties
<1>2. S # {}
  BY DEF InFile
<1>3. Min(S) \in S
  <2> HIDE DEF S
  <2>1. QED
    BY <1>1, <1>2, LowestPosition
<1>4. QED
  BY <1>1, <1>3 DEF First

\* Whatever an endpoint writes into the file are blocks.
LEMMA StepCases == ASSUME TypeOK, [Next]_vars PROVE Steps
<1> USE DEF TypeOK
<1>1. ASSUME NEW t \in Refreshers, NEW id \in Ids, NEW cls \in Classes, AddSource(t, id, cls)
      PROVE  EditFile(t)
  <2>1. [id |-> id, cls |-> cls, rev |-> ops + 1] \in Block
    BY DEF Block
  <2>2. file' \in Seq(Block)
    BY <1>1, <2>1, AppendProperties DEF AddSource
  <2>3. QED
    BY <1>1, <2>2 DEF AddSource, EditFile
<1>2. ASSUME NEW t \in Refreshers, NEW id \in Ids, NEW cls \in Classes, UpdateSource(t, id, cls)
      PROVE  EditFile(t)
  <2>1. [id |-> id, cls |-> cls, rev |-> ops + 1] \in Block
    BY DEF Block
  <2>2. First(id) \in 1 .. Len(file)
    BY <1>2, FirstInFile DEF UpdateSource
  <2>3. file' \in Seq(Block)
    BY <1>2, <2>1, <2>2, ExceptSeq DEF UpdateSource
  <2>4. QED
    BY <1>2, <2>3 DEF UpdateSource, EditFile
<1>3. ASSUME NEW t \in Refreshers, NEW id \in Ids, DeleteSource(t, id)
      PROVE  EditFile(t)
  <2>1. First(id) \in 1 .. Len(file) /\ Len(file) \in Nat
    BY <1>3, FirstInFile, LenProperties DEF DeleteSource
  <2>2. /\ SubSeq(file, 1, First(id) - 1) \in Seq(Block)
        /\ SubSeq(file, First(id) + 1, Len(file)) \in Seq(Block)
    BY <2>1, SubSeqProperties
  <2>3. file' \in Seq(Block)
    BY <1>3, <2>2, ConcatProperties DEF DeleteSource, RemoveAt
  <2>4. QED
    BY <1>3, <2>3 DEF DeleteSource, EditFile
<1>4. ASSUME NEW t \in Refreshers, ReloadConfig(t)
      PROVE  EditFile(t)
  <2>1. file' = file
    BY <1>4 DEF ReloadConfig
  <2>2. QED
    BY <1>4, <2>1 DEF ReloadConfig, EditFile
<1>5. QED
  BY <1>1, <1>2, <1>3, <1>4 DEF Next, RefreshStep, Abandon, Steps

-----------------------------------------------------------------------------
(* The inductive invariant.                                                *)

\* Nothing happens before the sources are loaded or after the registry is shut
\* down.
Quiescent ==
    phase # "running" =>
        /\ \A t \in Refreshers : pc[t] = "idle"
        /\ \A q \in Queriers : query[q] = NoQuery
        /\ Published = {} /\ draining = {}

\* Refreshes are numbered apart, and no instance in use or on its way out is of
\* a refresh that is still running.
FreshOps ==
    /\ \A t \in Refreshers : op[t] <= ops
    /\ \A t, u \in Refreshers : op[t] = op[u] /\ op[t] # 0 => t = u
    /\ \A inst \in Published \cup Drained :
         inst.op <= ops /\ \A t \in Refreshers : op[t] # 0 => inst.op # op[t]

\* What a refresh has built so far is open and bears its number.
BuiltConnected ==
    \A t \in Refreshers : \A k \in DOMAIN built[t] :
        built[t][k] \in connected /\ built[t][k].op = op[t]

\* Nothing that lookups return is being drained.
NoneDrained == Published \cap Drained = {}

Inv ==
    /\ AllTypes /\ Quiescent /\ FreshOps /\ BuiltConnected
    /\ NoneDrained /\ RegisteredAreConnected /\ OneGeneration

\* A drain outlasts the queries on its instance.
DrainOutlastsQueries ==
    \A q \in Queriers : query[q] # NoQuery =>
        /\ query[q].inst \in connected
        /\ \A d \in draining : d.inst = query[q].inst => query[q].left < d.left

\* Refreshes that do not overlap run one at a time.
Alone ==
    ~overlap => \A t, u \in Refreshers : pc[t] # "idle" /\ pc[u] # "idle" => t = u

\* A refresh that runs alone is the only one to create the token manager.
EnsuredOnce == ~overlap => \A t \in Refreshers : pc[t] = "ensure" => managers = 0

\* What a refresh that runs alone has built and has still to build is the file.
Mirrors(t) ==
    /\ Len(built[t]) + Len(todo[t]) = Len(file)
    /\ \A k \in DOMAIN built[t] : built[t][k].id = file[k].id /\ built[t][k].rev = file[k].rev
    /\ \A k \in DOMAIN todo[t] : todo[t][k] = file[Len(built[t]) + k]

FileServed ==
    /\ phase = "running" => config = file
    /\ ~overlap => \A t \in Refreshers : pc[t] = "connect" => Mirrors(t)
    /\ ServesFile

-----------------------------------------------------------------------------
(* Every step keeps the types.                                             *)

\* The variables a refresh works on.
RefreshTypes ==
    /\ registered \in [Ids -> Instance \cup {None}]
    /\ draining \subseteq [inst : Instance, left : 0 .. Grace]
    /\ stale \in BOOLEAN
    /\ pc \in [Refreshers -> {"idle", "ensure", "connect"}]
    /\ op \in [Refreshers -> 0 .. MaxOps]
    /\ todo \in [Refreshers -> Seq(Block)]
    /\ built \in [Refreshers -> Seq(Instance)]
    /\ \A t \in Refreshers :
         /\ (pc[t] = "connect") <=> (todo[t] # <<>>)
         /\ (pc[t] = "idle") <=> (op[t] = 0)
         /\ pc[t] # "connect" => built[t] = <<>>

LEMMA EmptyDict == NoInstances \in [Ids -> Instance \cup {None}]
BY DEF NoInstances

LEMMA SwapTypes ==
    ASSUME AllTypes, NEW new \in [Ids -> Instance \cup {None}], Swap(new)
    PROVE  /\ registered' \in [Ids -> Instance \cup {None}]
           /\ draining' \subseteq [inst : Instance, left : 0 .. Grace]
           /\ stale' \in BOOLEAN
<1>1. Grace \in 0 .. Grace
  BY RegistryAssumption
<1>2. /\ registered \in [Ids -> Instance \cup {None}]
      /\ draining \subseteq [inst : Instance, left : 0 .. Grace]
  BY DEF AllTypes, TypeOK
<1>3. \A id \in Ids : registered[id] # None =>
        [inst |-> registered[id], left |-> Grace] \in [inst : Instance, left : 0 .. Grace]
  BY <1>1, <1>2
<1>4. QED
  BY <1>2, <1>3 DEF Swap

LEMMA BeginConnectingTypes ==
    ASSUME AllTypes, NEW t \in Refreshers, NEW n \in 1 .. MaxOps, NEW blocks \in Seq(Block),
           pc[t] # "connect", BeginConnecting(t, n, blocks)
    PROVE  RefreshTypes'
<1>1. RefreshTypes /\ n \in 0 .. MaxOps /\ n # 0
  BY RegistryAssumption DEF AllTypes, TypeOK, Locals, RefreshTypes
<1>2. CASE blocks # <<>>
  <2>1. <<>> \in Seq(Instance)
    BY EmptySeq
  <2>2. /\ op' = [op EXCEPT ![t] = n] /\ pc' = [pc EXCEPT ![t] = "connect"]
        /\ todo' = [todo EXCEPT ![t] = blocks] /\ built' = [built EXCEPT ![t] = <<>>]
        /\ UNCHANGED <<registered, draining, stale>>
    BY <1>2 DEF BeginConnecting
  <2>3. /\ op' \in [Refreshers -> 0 .. MaxOps]
        /\ todo' \in [Refreshers -> Seq(Block)] /\ built' \in [Refreshers -> Seq(Instance)]
    BY <1>1, <2>1, <2>2 DEF RefreshTypes
  <2>4. \A u \in Refreshers :
          /\ (pc'[u] = "connect") <=> (todo'[u] # <<>>)
          /\ (pc'[u] = "idle") <=> (op'[u] = 0)
          /\ pc'[u] # "connect" => built'[u] = <<>>
    BY <1>1, <1>2, <2>2 DEF RefreshTypes
  <2>5. QED
    BY <1>1, <2>2, <2>3, <2>4 DEF RefreshTypes
<1>3. CASE blocks = <<>>
  <2>1. /\ registered' \in [Ids -> Instance \cup {None}]
        /\ draining' \subseteq [inst : Instance, left : 0 .. Grace]
        /\ stale' \in BOOLEAN
    BY <1>3, EmptyDict, SwapTypes DEF BeginConnecting
  <2>2. /\ op' = [op EXCEPT ![t] = 0] /\ pc' = [pc EXCEPT ![t] = "idle"]
        /\ todo' = todo /\ built' = built
    BY <1>3 DEF BeginConnecting
  <2>3. 0 \in 0 .. MaxOps
    BY RegistryAssumption
  <2>4. QED
    BY <1>1, <2>1, <2>2, <2>3 DEF RefreshTypes
<1>4. QED
  BY <1>2, <1>3

LEMMA RefreshOfTypes ==
    ASSUME AllTypes, NEW t \in Refreshers, EditFile(t)
    PROVE  RefreshTypes' /\ file' = config' /\ ops' = ops + 1 /\ ops' \in 0 .. MaxOps
           /\ overlap' \in BOOLEAN
<1>1. ops + 1 \in 1 .. MaxOps /\ pc[t] = "idle"
  BY RegistryAssumption DEF EditFile, MayEdit, AllTypes, TypeOK
<1>2. CASE NeedsAuth(file') /\ managers = 0
  <2>1. RefreshTypes /\ ops + 1 \in 0 .. MaxOps /\ ops + 1 # 0
    BY <1>1, RegistryAssumption DEF AllTypes, TypeOK, Locals, RefreshTypes
  <2>2. /\ pc' = [pc EXCEPT ![t] = "ensure"] /\ op' = [op EXCEPT ![t] = ops + 1]
        /\ UNCHANGED <<todo, built, registered, draining, stale>>
    BY <1>2 DEF EditFile, Refresh
  <2>3. RefreshTypes'
    BY <1>1, <2>1, <2>2 DEF RefreshTypes
  <2>4. QED
    BY <1>1, <2>1, <2>3 DEF EditFile, Refresh
<1>3. CASE ~(NeedsAuth(file') /\ managers = 0)
  <2>1. BeginConnecting(t, ops + 1, file')
    BY <1>3 DEF EditFile, Refresh
  <2>2. RefreshTypes'
    BY <1>1, <2>1, BeginConnectingTypes DEF EditFile
  <2>3. QED
    BY <1>1, <2>2 DEF EditFile, Refresh
<1>4. QED
  BY <1>1, <1>2, <1>3 DEF EditFile, Refresh

\* The instance that a connect step opens.
Opened(t) == Instantiate(Head(todo[t]), op[t])

LEMMA ConnectTypes ==
    ASSUME AllTypes, NEW t \in Refreshers, Connect(t)
    PROVE  /\ RefreshTypes'
           /\ Opened(t) \in Instance
           /\ Opened(t).op = op[t]
           /\ Append(built[t], Opened(t)) \in Seq(Instance)
<1> USE DEF AllTypes, TypeOK, Locals
<1>1. Head(todo[t]) \in Block /\ Tail(todo[t]) \in Seq(Block)
  BY HeadTailProperties DEF Connect
<1>2. Opened(t) \in Instance /\ Opened(t).op = op[t]
  BY <1>1 DEF Opened, Instantiate, Block, Instance
<1>3. Append(built[t], Opened(t)) \in Seq(Instance)
  BY <1>2, AppendProperties
<1>4. RefreshTypes /\ pc[t] = "connect"
  BY DEF RefreshTypes, Connect
<1>5. CASE Tail(todo[t]) # <<>>
  <2>1. /\ todo' = [todo EXCEPT ![t] = Tail(@)]
        /\ built' = [built EXCEPT ![t] = Append(built[t], Opened(t))]
        /\ UNCHANGED <<pc, op, registered, draining, stale>>
    BY <1>5 DEF Connect, Opened
  <2> HIDE DEF AllTypes, TypeOK, Locals
  <2>2. todo' \in [Refreshers -> Seq(Block)] /\ built' \in [Refreshers -> Seq(Instance)]
    BY <1>4, <1>1, <1>3, <2>1 DEF RefreshTypes
  <2>3. \A u \in Refreshers :
          /\ (pc'[u] = "connect") <=> (todo'[u] # <<>>)
          /\ (pc'[u] = "idle") <=> (op'[u] = 0)
          /\ pc'[u] # "connect" => built'[u] = <<>>
    BY <1>4, <1>5, <2>1 DEF RefreshTypes
  <2>4. QED
    BY <1>4, <1>2, <1>3, <2>1, <2>2, <2>3 DEF RefreshTypes
<1>6. CASE Tail(todo[t]) = <<>>
  <2>1. Swap(AsDict(Append(built[t], Opened(t))))
    BY <1>6 DEF Connect, Opened
  <2>2. AsDict(Append(built[t], Opened(t))) \in [Ids -> Instance \cup {None}]
    BY <1>3, DictOfInstances
  <2>3. /\ registered' \in [Ids -> Instance \cup {None}]
        /\ draining' \subseteq [inst : Instance, left : 0 .. Grace]
        /\ stale' \in BOOLEAN
    BY <2>1, <2>2, SwapTypes
  <2>4. pc' = [pc EXCEPT ![t] = "idle"] /\ op' = [op EXCEPT ![t] = 0]
        /\ todo' = [todo EXCEPT ![t] = <<>>] /\ built' = [built EXCEPT ![t] = <<>>]
    BY <1>6 DEF Connect
  <2>5. <<>> \in Seq(Block) /\ <<>> \in Seq(Instance)
    BY EmptySeq
  <2>6. 0 \in 0 .. MaxOps
    BY RegistryAssumption
  <2> HIDE DEF AllTypes, TypeOK, Locals
  <2>7. /\ pc' \in [Refreshers -> {"idle", "ensure", "connect"}]
        /\ op' \in [Refreshers -> 0 .. MaxOps]
        /\ todo' \in [Refreshers -> Seq(Block)]
        /\ built' \in [Refreshers -> Seq(Instance)]
    BY <1>4, <2>4, <2>5, <2>6 DEF RefreshTypes
  <2>8. \A u \in Refreshers :
          /\ (pc'[u] = "connect") <=> (todo'[u] # <<>>)
          /\ (pc'[u] = "idle") <=> (op'[u] = 0)
          /\ pc'[u] # "connect" => built'[u] = <<>>
    BY <1>4, <2>4 DEF RefreshTypes
  <2>9. QED
    BY <1>2, <1>3, <2>3, <2>7, <2>8 DEF RefreshTypes
<1>7. QED
  BY <1>5, <1>6

\* A unit of time less.
LEMMA Elapse ==
    ASSUME NEW S, NEW n \in Nat, NEW r \in [inst : S, left : 0 .. n], r.left > 0
    PROVE  /\ [r EXCEPT !.left = @ - 1] \in [inst : S, left : 0 .. n]
           /\ [r EXCEPT !.left = @ - 1].inst = r.inst
           /\ [r EXCEPT !.left = @ - 1].left = r.left - 1
<1>1. [r EXCEPT !.left = @ - 1] = [inst |-> r.inst, left |-> r.left - 1]
  OBVIOUS
<1>2. QED
  BY <1>1

LEMMA InitTypes == Init => AllTypes
<1> SUFFICES ASSUME Init PROVE AllTypes
  OBVIOUS
<1>1. <<>> \in Seq(Block) /\ <<>> \in Seq(Instance)
  BY EmptySeq
<1>2. NoQuery \in [inst : Instance \cup {None}, left : 0 .. QueryTime]
  BY RegistryAssumption DEF NoQuery
<1>3. 0 \in 0 .. MaxOps
  BY RegistryAssumption
<1>4. Locals
  BY <1>1 DEF Init, Locals
<1>5. TypeOK
  BY <1>1, <1>2, <1>3, EmptyDict, RegistryAssumption DEF Init, TypeOK
<1>6. QED
  BY <1>4, <1>5 DEF AllTypes

LEMMA StepTypes == ASSUME AllTypes, Steps PROVE AllTypes'
<1> USE DEF AllTypes, TypeOK, Locals
<1>1. CASE Load
  <2> DEFINE insts == [k \in DOMAIN file |-> Instantiate(file[k], 0)]
  <2>1. insts \in Seq(Instance) /\ \A k \in DOMAIN file : insts[k] \in Instance
    <3>1. file \in Seq(Block) /\ DOMAIN file = 1 .. Len(file) /\ Len(file) \in Nat
      BY LenProperties
    <3>2. \A k \in DOMAIN file : file[k] \in Block
      BY <3>1
    <3>3. \A k \in DOMAIN file : Instantiate(file[k], 0) \in Instance
      BY <3>2 DEF Instantiate, Block, Instance
    <3>4. QED
      BY <3>1, <3>3
  <2>2. AsDict(insts) \in [Ids -> Instance \cup {None}]
    BY <2>1, DictOfInstances
  <2>3. registered' \in [Ids -> Instance \cup {None}] /\ connected' \subseteq Instance
    BY <1>1, <2>1, <2>2 DEF Load
  <2>4. QED
    BY <1>1, <2>3 DEF Load, tasks
<1>2. CASE Shutdown
  BY <1>2, EmptyDict DEF Shutdown, tasks, files
<1>3. CASE Tick
  <2>1. draining' \subseteq [inst : Instance, left : 0 .. Grace]
    <3>1. draining' = {[d EXCEPT !.left = @ - 1] : d \in draining} /\ \A d \in draining : d.left > 0
      BY <1>3 DEF Tick
    <3>2. \A d \in [inst : Instance, left : 0 .. Grace] : d.left > 0 =>
            [d EXCEPT !.left = @ - 1] \in [inst : Instance, left : 0 .. Grace]
      BY RegistryAssumption, Elapse
    <3>3. QED
      BY <3>1, <3>2
  <2>2. query' \in [Queriers -> [inst : Instance \cup {None}, left : 0 .. QueryTime]]
        /\ \A q \in Queriers : query'[q].inst = None => query'[q] = NoQuery
    <3>1. NoQuery \in [inst : Instance \cup {None}, left : 0 .. QueryTime]
      BY RegistryAssumption DEF NoQuery
    <3>2. \A q \in Queriers : query[q] # NoQuery =>
            /\ [query[q] EXCEPT !.left = @ - 1] \in [inst : Instance \cup {None}, left : 0 .. QueryTime]
            /\ [query[q] EXCEPT !.left = @ - 1].inst # None
      <4>1. \A q \in Queriers : query[q] # NoQuery => query[q].left > 0
        BY <1>3 DEF Tick
      <4>2. QED
        BY <4>1, RegistryAssumption, Elapse
    <3>3. query' = [q \in Queriers |->
                    IF query[q] = NoQuery THEN NoQuery ELSE [query[q] EXCEPT !.left = @ - 1]]
      BY <1>3 DEF Tick
    <3>4. QED
      BY <3>1, <3>2, <3>3
  <2>3. QED
    BY <1>3, <2>1, <2>2 DEF Tick, tasks, files
<1>4. ASSUME NEW t \in Refreshers, EditFile(t) PROVE AllTypes'
  BY <1>4, RefreshOfTypes DEF EditFile, RefreshTypes
<1>5. ASSUME NEW t \in Refreshers, TokenManagerReady(t) PROVE AllTypes'
  <2>1. op[t] \in 1 .. MaxOps /\ BeginConnecting(t, op[t], config) /\ pc[t] # "connect"
    BY <1>5, RegistryAssumption DEF TokenManagerReady
  <2>2. RefreshTypes'
    BY <2>1, BeginConnectingTypes
  <2>3. QED
    BY <1>5, <2>2 DEF TokenManagerReady, RefreshTypes, files
<1>6. ASSUME NEW t \in Refreshers, Connect(t) PROVE AllTypes'
  <2>1. RefreshTypes' /\ connected' \subseteq Instance
    BY <1>6, ConnectTypes DEF Connect, Opened
  <2>2. QED
    BY <1>6, <2>1 DEF Connect, RefreshTypes, files
<1>7. ASSUME NEW t \in Refreshers, Abandon(t) PROVE AllTypes'
  <2>1. CASE TokenManagerFails(t)
    BY <2>1, RegistryAssumption DEF TokenManagerFails, files, live
  <2>2. CASE ConnectFails(t)
    BY <2>2, EmptySeq, RegistryAssumption DEF ConnectFails, files, live
  <2>3. QED
    BY <1>7, <2>1, <2>2 DEF Abandon
<1>8. ASSUME NEW q \in Queriers, EndQuery(q) PROVE AllTypes'
  BY <1>8, RegistryAssumption DEF EndQuery, NoQuery, files, live, tasks
<1>9. ASSUME NEW q \in Queriers, NEW id \in Ids, StartQuery(q, id) PROVE AllTypes'
  BY <1>9, RegistryAssumption DEF StartQuery, files, live, tasks
<1>10. ASSUME NEW d \in draining, Drain(d) PROVE AllTypes'
  BY <1>10 DEF Drain, files, tasks
<1>11. CASE UNCHANGED vars
  BY <1>11 DEF vars, files, live, tasks
<1>12. QED
  BY <1>1, <1>2, <1>3, <1>4, <1>5, <1>6, <1>7, <1>8, <1>9, <1>10, <1>11 DEF Steps

-----------------------------------------------------------------------------
(* What a step of a refresh does to the registry.                          *)

\* It goes on, begins, or ends, and publishes nothing or else only what it
\* has itself opened.
Effect(t) ==
    /\ UNCHANGED <<phase, query>>
    /\ connected \subseteq connected' /\ ops <= ops'
    /\ \A u \in Refreshers \ {t} : op'[u] = op[u] /\ built'[u] = built[u]
    /\ op'[t] \in {0, op[t]} \/ (op'[t] = ops + 1 /\ ops' = ops + 1)
    /\ \A k \in DOMAIN built'[t] : built'[t][k] \in connected' /\ built'[t][k].op = op'[t]
    /\ \/ UNCHANGED <<registered, draining>>
       \/ /\ op'[t] = 0
          /\ \E new \in [Ids -> Instance \cup {None}] :
               /\ Swap(new)
               /\ \A id \in Ids : new[id] # None =>
                    new[id] \in connected' /\ op[t] # 0 /\ new[id].op = op[t]

LEMMA NoPositions == DOMAIN <<>> = {}
OBVIOUS

LEMMA BeginConnectingEffect ==
    ASSUME AllTypes, NEW t \in Refreshers, NEW n \in 1 .. MaxOps, NEW blocks \in Seq(Block),
           pc[t] # "connect", BeginConnecting(t, n, blocks),
           n = op[t] \/ (n = ops + 1 /\ ops' = ops + 1),
           UNCHANGED <<phase, query, connected>>, ops <= ops'
    PROVE  Effect(t)
<1>1. op \in [Refreshers -> 0 .. MaxOps] /\ built[t] = <<>>
      /\ built \in [Refreshers -> Seq(Instance)]
  BY DEF AllTypes, TypeOK, Locals
<1>2. CASE blocks # <<>>
  <2>1. /\ op' = [op EXCEPT ![t] = n] /\ built' = [built EXCEPT ![t] = <<>>]
        /\ UNCHANGED <<registered, draining>>
    BY <1>2 DEF BeginConnecting
  <2>2. QED
    BY <1>1, <2>1, NoPositions DEF Effect
<1>3. CASE blocks = <<>>
  <2>1. op' = [op EXCEPT ![t] = 0] /\ built' = built /\ Swap(NoInstances)
    BY <1>3 DEF BeginConnecting
  <2>2. \A id \in Ids : NoInstances[id] = None
    BY DEF NoInstances
  <2>3. \E new \in [Ids -> Instance \cup {None}] :
          /\ Swap(new)
          /\ \A id \in Ids : new[id] # None =>
               new[id] \in connected' /\ op[t] # 0 /\ new[id].op = op[t]
    BY <2>1, <2>2, EmptyDict
  <2>4. QED
    BY <1>1, <2>1, <2>3, NoPositions DEF Effect
<1>4. QED
  BY <1>2, <1>3

LEMMA EditEffect == ASSUME AllTypes, NEW t \in Refreshers, EditFile(t) PROVE Effect(t)
<1>1. /\ op \in [Refreshers -> 0 .. MaxOps] /\ ops + 1 \in 1 .. MaxOps /\ ops <= ops + 1
      /\ pc[t] = "idle" /\ built[t] = <<>> /\ ops' = ops + 1
  BY RegistryAssumption DEF AllTypes, TypeOK, Locals, EditFile, MayEdit, Refresh
<1>2. CASE NeedsAuth(file') /\ managers = 0
  <2>1. op' = [op EXCEPT ![t] = ops + 1] /\ UNCHANGED <<built, registered, draining>>
    BY <1>2 DEF EditFile, Refresh
  <2>2. QED
    BY <1>1, <2>1, NoPositions DEF EditFile, Effect
<1>3. CASE ~(NeedsAuth(file') /\ managers = 0)
  <2>1. BeginConnecting(t, ops + 1, file')
    BY <1>3 DEF EditFile, Refresh
  <2>2. QED
    BY <1>1, <2>1, BeginConnectingEffect DEF EditFile
<1>4. QED
  BY <1>2, <1>3

LEMMA ManagerEffect == ASSUME AllTypes, NEW t \in Refreshers, TokenManagerReady(t) PROVE Effect(t)
<1>1. op[t] \in 1 .. MaxOps /\ config \in Seq(Block) /\ ops \in Nat
  BY RegistryAssumption DEF AllTypes, TypeOK, TokenManagerReady
<1>2. /\ pc[t] # "connect" /\ BeginConnecting(t, op[t], config)
      /\ UNCHANGED <<phase, query, connected>> /\ ops <= ops'
  BY <1>1 DEF TokenManagerReady
<1>3. QED
  BY <1>1, <1>2, BeginConnectingEffect

LEMMA ConnectEffect ==
    ASSUME AllTypes, BuiltConnected, NEW t \in Refreshers, Connect(t)
    PROVE  Effect(t)
<1> DEFINE now == Append(built[t], Opened(t))
<1>1. /\ op \in [Refreshers -> 0 .. MaxOps] /\ op[t] # 0 /\ ops \in Nat
      /\ built \in [Refreshers -> Seq(Instance)]
  BY RegistryAssumption DEF AllTypes, TypeOK, Locals, Connect
<1>2. connected' = connected \cup {Opened(t)} /\ UNCHANGED <<phase, query, ops>>
  BY DEF Connect, Opened
<1>3. Opened(t) \in Instance /\ Opened(t).op = op[t] /\ now \in Seq(Instance)
  BY ConnectTypes
<1>4. \A k \in DOMAIN now : now[k] \in connected' /\ now[k].op = op[t]
  <2>1. \A k \in DOMAIN now : now[k] = Opened(t) \/ (k \in DOMAIN built[t] /\ now[k] = built[t][k])
    <3>1. /\ built[t] \in Seq(Instance) /\ Len(built[t]) \in Nat
          /\ DOMAIN built[t] = 1 .. Len(built[t]) /\ DOMAIN now = 1 .. Len(built[t]) + 1
      BY <1>1, <1>3, AppendProperties, LenProperties
    <3>2. \A k \in 1 .. Len(built[t]) : now[k] = built[t][k]
      BY <1>3, <3>1, AppendProperties
    <3>3. now[Len(built[t]) + 1] = Opened(t)
      BY <1>3, <3>1, AppendProperties
    <3> HIDE DEF now
    <3>4. QED
      BY <3>1, <3>2, <3>3
  <2>2. QED
    BY <1>2, <1>3, <2>1 DEF BuiltConnected
<1>5. CASE Tail(todo[t]) # <<>>
  <2>1. built' = [built EXCEPT ![t] = now] /\ UNCHANGED <<op, registered, draining>>
    BY <1>5 DEF Connect, Opened
  <2> HIDE DEF now
  <2>2. built'[t] = now /\ \A u \in Refreshers \ {t} : built'[u] = built[u]
    BY <1>1, <2>1
  <2>3. ops <= ops'
    BY <1>1, <1>2
  <2>4. QED
    BY <1>2, <1>4, <2>1, <2>2, <2>3 DEF Effect
<1>6. CASE Tail(todo[t]) = <<>>
  <2>1. /\ op' = [op EXCEPT ![t] = 0] /\ built' = [built EXCEPT ![t] = <<>>]
        /\ Swap(AsDict(now))
    BY <1>6 DEF Connect, Opened
  <2>2. AsDict(now) \in [Ids -> Instance \cup {None}]
        /\ \A id \in Ids : AsDict(now)[id] # None => \E k \in DOMAIN now : AsDict(now)[id] = now[k]
    <3> HIDE DEF now
    <3>1. QED
      BY <1>3, DictOfInstances
  <2> HIDE DEF now
  <2>3. \A id \in Ids : AsDict(now)[id] # None =>
          AsDict(now)[id] \in connected' /\ op[t] # 0 /\ AsDict(now)[id].op = op[t]
    BY <1>1, <1>4, <2>2
  <2>4. /\ built'[t] = <<>> /\ op'[t] = 0 /\ ops <= ops'
        /\ \A u \in Refreshers \ {t} : op'[u] = op[u] /\ built'[u] = built[u]
    BY <1>1, <1>2, <2>1
  <2>5. \E new \in [Ids -> Instance \cup {None}] :
          /\ Swap(new)
          /\ \A id \in Ids : new[id] # None =>
               new[id] \in connected' /\ op[t] # 0 /\ new[id].op = op[t]
    BY <2>1, <2>2, <2>3
  <2>6. QED
    BY <1>2, <2>4, <2>5, NoPositions DEF Effect
<1>7. QED
  BY <1>5, <1>6

LEMMA FailureEffect == ASSUME AllTypes, NEW t \in Refreshers, Abandon(t) PROVE Effect(t)
<1>1. /\ op \in [Refreshers -> 0 .. MaxOps] /\ ops \in Nat
      /\ built \in [Refreshers -> Seq(Instance)]
      /\ pc[t] = "ensure" => built[t] = <<>>
  BY DEF AllTypes, TypeOK, Locals
<1>2. /\ op' = [op EXCEPT ![t] = 0]
      /\ built' = [built EXCEPT ![t] = <<>>] \/ (built' = built /\ pc[t] = "ensure")
      /\ UNCHANGED <<phase, query, ops, registered, connected, draining>>
  BY DEF Abandon, TokenManagerFails, ConnectFails, live
<1>3. ops <= ops'
  BY <1>1, <1>2
<1>4. QED
  BY <1>1, <1>2, <1>3, NoPositions DEF Effect

\* What a swap publishes and hands over to be drained.
LEMMA SwapEffect ==
    ASSUME AllTypes, NEW new \in [Ids -> Instance \cup {None}], Swap(new)
    PROVE  /\ Published' = {new[id] : id \in Ids} \ {None}
           /\ Drained' \subseteq Drained \cup Published
           /\ \A d \in draining' : d \in draining \/ (d.inst \in Published /\ d.left = Grace)
<1>1. Published' = {new[id] : id \in Ids} \ {None}
  BY DEF Swap, Published
<1>2. \A d \in draining' : d \in draining \/ (d.inst \in Published /\ d.left = Grace)
  <2> SUFFICES ASSUME NEW d \in draining', d \notin draining
               PROVE  d.inst \in Published /\ d.left = Grace
    OBVIOUS
  <2>1. \E id \in Ids : registered[id] # None /\ d = [inst |-> registered[id], left |-> Grace]
    BY DEF Swap
  <2>2. QED
    BY <2>1 DEF Published
<1>3. QED
  BY <1>1, <1>2 DEF Drained

-----------------------------------------------------------------------------
(* Every step keeps the inductive invariant.                               *)

LEMMA InUse == AllTypes => Published \subseteq Instance /\ Drained \subseteq Instance
BY DEF AllTypes, TypeOK, Published, Drained

\* A step of a refresh that leaves lookups alone.
LEMMA QuietStep ==
    ASSUME Inv, AllTypes', NEW t \in Refreshers, Effect(t), UNCHANGED <<registered, draining>>
    PROVE  FreshOps' /\ BuiltConnected' /\ NoneDrained' /\ RegisteredAreConnected' /\ OneGeneration'
<1>1. /\ op \in [Refreshers -> Nat] /\ op' \in [Refreshers -> Nat] /\ ops \in Nat /\ ops' \in Nat
      /\ \A inst \in Published \cup Drained : inst.op \in Nat
  BY InUse, RegistryAssumption DEF Inv, AllTypes, TypeOK, Instance
<1>2. Published' = Published /\ Drained' = Drained
  BY DEF Published, Drained
<1>3. FreshOps'
  <2>1. ops <= ops' /\ (\A u \in Refreshers \ {t} : op'[u] = op[u])
        /\ (op'[t] \in {0, op[t]} \/ (op'[t] = ops + 1 /\ ops' = ops + 1))
    BY DEF Effect
  <2>2. \A u \in Refreshers : op'[u] <= ops' /\ (op'[u] = op[u] \/ op'[u] = 0 \/ (u = t /\ op'[u] = ops + 1))
    BY <1>1, <2>1 DEF Inv, FreshOps
  <2>3. \A u, v \in Refreshers : op'[u] = op'[v] /\ op'[u] # 0 => u = v
    BY <1>1, <2>1, <2>2 DEF Inv, FreshOps
  <2>4. \A inst \in Published \cup Drained :
          inst.op <= ops' /\ \A u \in Refreshers : op'[u] # 0 => inst.op # op'[u]
    BY <1>1, <2>1, <2>2 DEF Inv, FreshOps
  <2>5. QED
    BY <1>2, <2>2, <2>3, <2>4 DEF FreshOps
<1>4. BuiltConnected'
  BY DEF Inv, BuiltConnected, Effect
<1>5. QED
  BY <1>2, <1>3, <1>4 DEF Inv, Effect, NoneDrained, RegisteredAreConnected, OneGeneration

\* The step that ends a refresh and publishes its instances.
LEMMA SwapStep ==
    ASSUME Inv, AllTypes', NEW t \in Refreshers, Effect(t), op'[t] = 0,
           NEW new \in [Ids -> Instance \cup {None}], Swap(new),
           \A id \in Ids : new[id] # None =>
               new[id] \in connected' /\ op[t] # 0 /\ new[id].op = op[t]
    PROVE  FreshOps' /\ BuiltConnected' /\ NoneDrained' /\ RegisteredAreConnected' /\ OneGeneration'
<1>1. /\ op \in [Refreshers -> Nat] /\ op' \in [Refreshers -> Nat] /\ ops \in Nat /\ ops' \in Nat
      /\ \A inst \in Published \cup Drained : inst.op \in Nat
  BY InUse, RegistryAssumption DEF Inv, AllTypes, TypeOK, Instance
<1>2. Drained' \subseteq Drained \cup Published
  BY SwapEffect DEF Inv
<1>3. \A inst \in Published' : inst \in connected' /\ op[t] # 0 /\ inst.op = op[t]
  BY SwapEffect DEF Inv
<1>4. ops <= ops' /\ \A u \in Refreshers \ {t} : op'[u] = op[u]
  BY DEF Effect
<1>5. FreshOps'
  <2>1. \A u \in Refreshers : op'[u] <= ops'
    BY <1>1, <1>4 DEF Inv, FreshOps
  <2>2. \A u, v \in Refreshers : op'[u] = op'[v] /\ op'[u] # 0 => u = v
    BY <1>4 DEF Inv, FreshOps
  <2>3. \A inst \in Published' :
          inst.op <= ops' /\ \A u \in Refreshers : op'[u] # 0 => inst.op # op'[u]
    BY <1>1, <1>3, <1>4 DEF Inv, FreshOps
  <2>4. \A inst \in Drained' :
          inst.op <= ops' /\ \A u \in Refreshers : op'[u] # 0 => inst.op # op'[u]
    BY <1>1, <1>2, <1>4 DEF Inv, FreshOps
  <2>5. QED
    BY <2>1, <2>2, <2>3, <2>4 DEF FreshOps
<1>6. BuiltConnected'
  BY DEF Inv, BuiltConnected, Effect
<1>7. NoneDrained'
  BY <1>2, <1>3 DEF Inv, FreshOps, NoneDrained
<1>8. QED
  BY <1>3, <1>5, <1>6, <1>7 DEF RegisteredAreConnected, OneGeneration

LEMMA EffectKeepsInv ==
    ASSUME Inv, AllTypes', NEW t \in Refreshers, Effect(t), phase = "running"
    PROVE  Inv'
<1>1. Quiescent'
  BY DEF Effect, Quiescent
<1>2. CASE UNCHANGED <<registered, draining>>
  BY <1>1, <1>2, QuietStep DEF Inv
<1>3. CASE ~UNCHANGED <<registered, draining>>
  <2>1. op'[t] = 0 /\ \E new \in [Ids -> Instance \cup {None}] :
          /\ Swap(new)
          /\ \A id \in Ids : new[id] # None =>
               new[id] \in connected' /\ op[t] # 0 /\ new[id].op = op[t]
    BY <1>3 DEF Effect
  <2>2. QED
    BY <1>1, <2>1, SwapStep DEF Inv
<1>4. QED
  BY <1>2, <1>3

LEMMA InitInv == Init => Inv
<1> SUFFICES ASSUME Init PROVE Inv
  OBVIOUS
<1>1. Published = {} /\ Drained = {} /\ \A t \in Refreshers : built[t] = <<>> /\ op[t] = 0
  BY DEF Init, Published, Drained, NoInstances
<1>2. QED
  BY <1>1, InitTypes, NoPositions
  DEF Init, Inv, Quiescent, FreshOps, BuiltConnected, NoneDrained, RegisteredAreConnected, OneGeneration

LEMMA LoadKeepsInv == ASSUME Inv, AllTypes', Load PROVE Inv'
<1> DEFINE insts == [k \in DOMAIN file |-> Instantiate(file[k], 0)]
<1>1. /\ draining = {} /\ draining' = {} /\ query' = query
      /\ \A t \in Refreshers : pc'[t] = "idle" /\ op'[t] = 0 /\ built'[t] = <<>>
      /\ ops \in Nat /\ ops' = ops /\ \A q \in Queriers : query[q] = NoQuery
  <2>1. /\ draining = {} /\ \A q \in Queriers : query[q] = NoQuery
        /\ \A t \in Refreshers : pc[t] = "idle"
    BY DEF Load, Inv, Quiescent
  <2>2. \A t \in Refreshers : op[t] = 0 /\ built[t] = <<>>
    BY <2>1 DEF Inv, AllTypes, TypeOK, Locals
  <2>3. ops \in Nat
    BY RegistryAssumption DEF Inv, AllTypes, TypeOK
  <2>4. QED
    BY <2>1, <2>2, <2>3 DEF Load, tasks
<1>2. Drained' = {}
  BY <1>1 DEF Drained
<1>3. CASE phase' = "running"
  <2>1. registered' = AsDict(insts) /\ connected' = {insts[k] : k \in DOMAIN file}
    BY <1>3 DEF Load
  <2>2. insts \in Seq(Instance) /\ \A k \in DOMAIN insts : insts[k].op = 0
    <3>1. file \in Seq(Block) /\ DOMAIN file = 1 .. Len(file) /\ Len(file) \in Nat
      BY LenProperties DEF Inv, AllTypes, TypeOK
    <3>2. \A k \in DOMAIN file : file[k] \in Block
      BY <3>1
    <3>3. \A k \in DOMAIN file : Instantiate(file[k], 0) \in Instance /\ Instantiate(file[k], 0).op = 0
      BY <3>2 DEF Instantiate, Block, Instance
    <3>4. QED
      BY <3>1, <3>3
  <2>3. DOMAIN insts = DOMAIN file
    OBVIOUS
  <2> HIDE DEF insts
  <2>4. \A inst \in Published' : inst \in connected' /\ inst.op = 0
    BY <2>1, <2>2, <2>3, DictOfInstances DEF Published
  <2>5. FreshOps' /\ NoneDrained'
    BY <1>1, <1>2, <2>4 DEF FreshOps, NoneDrained
  <2>6. BuiltConnected' /\ RegisteredAreConnected' /\ OneGeneration' /\ Quiescent'
    BY <1>1, <1>3, <2>4, NoPositions
    DEF BuiltConnected, RegisteredAreConnected, OneGeneration, Quiescent
  <2>7. QED
    BY <2>5, <2>6 DEF Inv
<1>4. CASE phase' # "running"
  <2>1. registered' = registered
    BY <1>4 DEF Load
  <2>2. Published' = {}
    BY <2>1 DEF Load, Inv, Quiescent, Published
  <2>3. QED
    BY <1>1, <1>2, <2>2, NoPositions
    DEF Inv, Quiescent, FreshOps, BuiltConnected, NoneDrained, RegisteredAreConnected, OneGeneration
<1>5. QED
  BY <1>3, <1>4

LEMMA ShutdownKeepsInv == ASSUME Inv, AllTypes', Shutdown PROVE Inv'
<1>1. Published' = {} /\ Drained' = {}
  BY DEF Shutdown, Published, Drained, NoInstances
<1>2. \A t \in Refreshers : pc'[t] = "idle" /\ op'[t] = 0 /\ built'[t] = <<>>
  BY DEF Shutdown, tasks, Inv, AllTypes, TypeOK, Locals
<1>3. ops' \in Nat
  BY RegistryAssumption DEF AllTypes, TypeOK
<1>4. QED
  BY <1>1, <1>2, <1>3, NoPositions
  DEF Inv, Shutdown, Quiescent, FreshOps, BuiltConnected, NoneDrained, RegisteredAreConnected, OneGeneration

LEMMA TickKeepsInv == ASSUME Inv, AllTypes', Tick PROVE Inv'
<1>1. Drained' = Drained
  <2>1. draining' = {[d EXCEPT !.left = @ - 1] : d \in draining}
    BY DEF Tick
  <2>2. draining \subseteq [inst : Instance, left : 0 .. Grace]
    BY DEF Inv, AllTypes, TypeOK
  <2>3. \A d \in draining : [d EXCEPT !.left = @ - 1].inst = d.inst
    BY <2>2
  <2> DEFINE Older(d) == [d EXCEPT !.left = @ - 1]
  <2>4. draining' = {Older(d) : d \in draining} /\ \A d \in draining : Older(d).inst = d.inst
    BY <2>1, <2>3
  <2> HIDE DEF Older
  <2>5. {d.inst : d \in draining'} = {d.inst : d \in draining}
    <3>1. \A d \in draining : Older(d) \in draining' /\ Older(d).inst = d.inst
      BY <2>4
    <3>2. \A d \in draining' : \E e \in draining : d.inst = e.inst
      BY <2>4
    <3>3. QED
      BY <3>1, <3>2
  <2>6. QED
    BY <2>5 DEF Drained
<1>2. QED
  BY <1>1 DEF Tick, tasks, Inv, Quiescent, FreshOps, BuiltConnected, NoneDrained,
              RegisteredAreConnected, OneGeneration, Published

LEMMA DrainKeepsInv == ASSUME Inv, AllTypes', NEW d \in draining, Drain(d) PROVE Inv'
<1>1. Published' = Published /\ Drained' \subseteq Drained /\ d.inst \in Drained
  BY DEF Drain, Published, Drained
<1>2. BuiltConnected'
  <2>1. \A t \in Refreshers : \A k \in DOMAIN built[t] : op[t] # 0 /\ built[t][k] # d.inst
    <3>1. \A t \in Refreshers : built[t] # <<>> => op[t] # 0
      BY DEF Inv, AllTypes, TypeOK, Locals
    <3>2. QED
      BY <1>1, <3>1, NoPositions DEF Inv, BuiltConnected, FreshOps
  <2>2. QED
    BY <2>1 DEF Inv, BuiltConnected, Drain, tasks
<1>3. RegisteredAreConnected' /\ NoneDrained' /\ OneGeneration'
  BY <1>1 DEF Inv, RegisteredAreConnected, NoneDrained, OneGeneration, Drain
<1>4. FreshOps' /\ Quiescent'
  BY <1>1 DEF Inv, FreshOps, Quiescent, Drain, tasks
<1>5. QED
  BY <1>2, <1>3, <1>4 DEF Inv

\* The other steps leave all that the invariant speaks of alone.
LEMMA OtherStepKeepsInv ==
    ASSUME Inv, AllTypes', UNCHANGED <<phase, registered, connected, draining, ops, pc, op, built>>,
           phase = "running" \/ UNCHANGED query
    PROVE  Inv'
BY DEF Inv, Quiescent, FreshOps, BuiltConnected, NoneDrained, RegisteredAreConnected,
       OneGeneration, Published, Drained

LEMMA StepInv == ASSUME Inv, [Next]_vars PROVE Inv'
<1>1. AllTypes /\ TypeOK
  BY DEF Inv, AllTypes
<1>2. Steps
  BY <1>1, StepCases
<1>3. AllTypes'
  BY <1>1, <1>2, StepTypes
<1>4. ASSUME NEW t \in Refreshers,
             EditFile(t) \/ TokenManagerReady(t) \/ Connect(t) \/ Abandon(t)
      PROVE  Inv'
  <2>1. phase = "running"
    BY <1>4 DEF EditFile, MayEdit, TokenManagerReady, Connect, Abandon, TokenManagerFails, ConnectFails, Inv, Quiescent
  <2>2. Effect(t)
    BY <1>1, <1>4, EditEffect, ManagerEffect, ConnectEffect, FailureEffect DEF Inv
  <2>3. QED
    BY <1>3, <2>1, <2>2, EffectKeepsInv
<1>5. ASSUME NEW q \in Queriers, NEW id \in Ids, StartQuery(q, id) PROVE Inv'
  <2>1. phase = "running"
    BY <1>5 DEF StartQuery
  <2>2. UNCHANGED <<phase, registered, connected, draining, ops, pc, op, built>>
    BY <1>5 DEF StartQuery, live, tasks
  <2>3. QED
    BY <1>3, <2>1, <2>2, OtherStepKeepsInv
<1>6. ASSUME NEW q \in Queriers, EndQuery(q) PROVE Inv'
  <2>1. phase = "running"
    BY <1>6 DEF EndQuery, Inv, Quiescent
  <2>2. UNCHANGED <<phase, registered, connected, draining, ops, pc, op, built>>
    BY <1>6 DEF EndQuery, live, tasks
  <2>3. QED
    BY <1>3, <2>1, <2>2, OtherStepKeepsInv
<1>7. CASE UNCHANGED vars
  BY <1>3, <1>7, OtherStepKeepsInv DEF vars, live, tasks
<1>8. QED
  BY <1>2, <1>3, <1>4, <1>5, <1>6, <1>7, LoadKeepsInv, ShutdownKeepsInv, TickKeepsInv, DrainKeepsInv
  DEF Steps

\* In every reachable state the registry's state has its types, what lookups return is open,
\* and all of it was published by one refresh: refreshes that interleave, fail or overtake
\* one another never mix their instances, nor close one that is registered.
THEOREM RegistryIsConsistent == Spec => []RegistryInv
<1>1. Inv => RegistryInv
  BY DEF Inv, AllTypes, RegistryInv
<1>2. QED
  BY <1>1, InitInv, StepInv, PTL DEF Spec

-----------------------------------------------------------------------------
(* Queries in flight.                                                      *)

LEMMA DrainOutlastsInit == Init => DrainOutlastsQueries
BY DEF Init, DrainOutlastsQueries

\* What is left of a query is at most the time a query may run, and less than
\* what is left of any drain that begins.
LEMMA DrainOutlastsStep ==
    ASSUME QueryTime < Grace, Inv, DrainOutlastsQueries, Steps
    PROVE  DrainOutlastsQueries'
<1>1. /\ query \in [Queriers -> [inst : Instance \cup {None}, left : 0 .. QueryTime]]
      /\ draining \subseteq [inst : Instance, left : 0 .. Grace]
      /\ registered \in [Ids -> Instance \cup {None}]
      /\ Grace \in Nat /\ QueryTime \in Nat
      /\ AllTypes
  BY RegistryAssumption DEF Inv, AllTypes, TypeOK
<1>2. CASE Load \/ Shutdown
  BY <1>2 DEF Load, Shutdown, Inv, Quiescent, DrainOutlastsQueries
<1>3. CASE Tick
  <2> SUFFICES ASSUME NEW q \in Queriers, query'[q] # NoQuery
               PROVE  /\ query'[q].inst \in connected'
                      /\ \A d \in draining' : d.inst = query'[q].inst => query'[q].left < d.left
    BY DEF DrainOutlastsQueries
  <2>1. /\ query' = [r \in Queriers |->
                       IF query[r] = NoQuery THEN NoQuery ELSE [query[r] EXCEPT !.left = @ - 1]]
        /\ draining' = {[d EXCEPT !.left = @ - 1] : d \in draining}
        /\ connected' = connected
        /\ \A d \in draining : d.left > 0
        /\ query[q] # NoQuery => query[q].left > 0
    BY <1>3 DEF Tick
  <2>2. query[q] # NoQuery /\ query'[q] = [query[q] EXCEPT !.left = @ - 1]
    BY <2>1
  <2>3. query'[q].inst = query[q].inst /\ query'[q].left = query[q].left - 1
    BY <1>1, <2>2
  <2>4. \A d \in draining : d.inst = query[q].inst => query[q].left < d.left
    BY <2>2 DEF DrainOutlastsQueries
  <2>5. \A d \in draining : /\ [d EXCEPT !.left = @ - 1].inst = d.inst
                            /\ [d EXCEPT !.left = @ - 1].left = d.left - 1
    BY <1>1
  <2>6. \A d \in draining : d.inst = query[q].inst => query[q].left - 1 < d.left - 1
    BY <1>1, <2>4
  <2>7. \A d \in draining' : d.inst = query'[q].inst => query'[q].left < d.left
    <3> SUFFICES ASSUME NEW d \in draining', d.inst = query'[q].inst
                 PROVE  query'[q].left < d.left
      OBVIOUS
    <3>1. PICK e \in draining : d = [e EXCEPT !.left = @ - 1]
      BY <2>1
    <3>2. d.inst = e.inst /\ d.left = e.left - 1
      BY <2>5, <3>1
    <3>3. QED
      BY <2>3, <2>6, <3>2
  <2>8. query'[q].inst \in connected'
    BY <2>1, <2>2, <2>3 DEF DrainOutlastsQueries
  <2>9. QED
    BY <2>7, <2>8
<1>4. ASSUME NEW t \in Refreshers,
             EditFile(t) \/ TokenManagerReady(t) \/ Connect(t) \/ Abandon(t)
      PROVE  DrainOutlastsQueries'
  <2>1. Effect(t)
    BY <1>1, <1>4, EditEffect, ManagerEffect, ConnectEffect, FailureEffect DEF Inv
  <2>2. query' = query /\ connected \subseteq connected'
    BY <2>1 DEF Effect
  <2>3. \A d \in draining' : d \in draining \/ d.left = Grace
    BY <1>1, <2>1, SwapEffect DEF Effect
  <2>4. \A q \in Queriers : query[q].left < Grace
    BY <1>1
  <2>5. QED
    BY <2>2, <2>3, <2>4 DEF DrainOutlastsQueries
<1>5. ASSUME NEW q \in Queriers, EndQuery(q) PROVE DrainOutlastsQueries'
  BY <1>1, <1>5 DEF EndQuery, live, DrainOutlastsQueries
<1>6. ASSUME NEW q \in Queriers, NEW id \in Ids, StartQuery(q, id) PROVE DrainOutlastsQueries'
  <2>1. registered[id] \in connected /\ \A d \in draining : d.inst # registered[id]
    <3>1. registered[id] \in Published
      BY <1>6 DEF StartQuery, Published
    <3>2. QED
      BY <3>1 DEF Inv, RegisteredAreConnected, NoneDrained, Drained
  <2>2. query' = [query EXCEPT ![q] = [inst |-> registered[id], left |-> QueryTime]]
        /\ connected' = connected /\ draining' = draining
    BY <1>6 DEF StartQuery, live
  <2>3. QED
    BY <1>1, <2>1, <2>2 DEF DrainOutlastsQueries
<1>7. ASSUME NEW d \in draining, Drain(d) PROVE DrainOutlastsQueries'
  <2>1. d.left = 0 /\ draining' \subseteq draining /\ query' = query
        /\ connected' = connected \ {d.inst}
    BY <1>7 DEF Drain
  <2>2. \A q \in Queriers : query[q] # NoQuery => query[q].inst # d.inst
    BY <1>1, <2>1 DEF DrainOutlastsQueries
  <2>3. QED
    BY <2>1, <2>2 DEF DrainOutlastsQueries
<1>8. CASE UNCHANGED vars
  BY <1>8 DEF vars, live, DrainOutlastsQueries
<1>9. QED
  BY <1>2, <1>3, <1>4, <1>5, <1>6, <1>7, <1>8 DEF Steps

\* If a query is over before the grace period is, the instance it runs on stays open until
\* then, whatever is edited and refreshed meanwhile: the drain of an instance begins only when
\* no new query can find it, and is then always behind the queries that still use it.
THEOREM QueriesAreUndisturbed ==
    ASSUME QueryTime < Grace
    PROVE  Spec => []InFlightUndisturbed
<1>1. Init => Inv /\ DrainOutlastsQueries
  BY InitInv, DrainOutlastsInit
<1>2. Inv /\ DrainOutlastsQueries /\ [Next]_vars => (Inv /\ DrainOutlastsQueries)'
  <2> SUFFICES ASSUME Inv, DrainOutlastsQueries, [Next]_vars
               PROVE  Inv' /\ DrainOutlastsQueries'
    OBVIOUS
  <2>1. Steps
    BY StepCases DEF Inv, AllTypes
  <2>2. QED
    BY <2>1, StepInv, DrainOutlastsStep
<1>3. DrainOutlastsQueries => InFlightUndisturbed
  BY DEF DrainOutlastsQueries, InFlightUndisturbed
<1>4. QED
  BY <1>1, <1>2, <1>3, PTL DEF Spec

-----------------------------------------------------------------------------
(* The file is what is served, and one refresh at a time makes the token   *)
(* manager, when refreshes do not overlap.                                 *)

\* The registry reg serves the blocks f.
Serves(reg, f) ==
    \A id \in Ids :
        LET mine == {k \in DOMAIN f : f[k].id = id} IN
        \/ mine = {} /\ reg[id] = None
        \/ mine # {} /\ reg[id] # None /\ reg[id].rev = f[Max(mine)].rev

\* A dict of instances that mirror the blocks of a file serves them.
LEMMA MirrorServes ==
    ASSUME NEW f \in Seq(Block), NEW insts \in Seq(Instance), Len(insts) = Len(f),
           \A k \in 1 .. Len(f) : insts[k].id = f[k].id /\ insts[k].rev = f[k].rev
    PROVE  Serves(AsDict(insts), f)
<1> DEFINE reg == AsDict(insts)
<1> SUFFICES ASSUME NEW id \in Ids
             PROVE  LET mine == {k \in DOMAIN f : f[k].id = id} IN
                    \/ mine = {} /\ reg[id] = None
                    \/ mine # {} /\ reg[id] # None /\ reg[id].rev = f[Max(mine)].rev
  BY DEF Serves
<1> DEFINE mine == {k \in DOMAIN f : f[k].id = id}
           same == {k \in DOMAIN insts : insts[k].id = id}
<1>1. DOMAIN f = 1 .. Len(f) /\ DOMAIN insts = 1 .. Len(f) /\ Len(f) \in Nat
  BY LenProperties
<1>2. same = mine /\ mine \subseteq 1 .. Len(f)
  BY <1>1
<1>3. reg[id] = IF same = {} THEN None ELSE insts[Max(same)]
  BY DEF AsDict
<1>4. ASSUME mine # {} PROVE Max(mine) \in 1 .. Len(f)
  <2> HIDE DEF mine
  <2>1. QED
    BY <1>1, <1>2, <1>4, HighestPosition
<1>5. \A k \in 1 .. Len(f) : insts[k] \in Instance
  BY <1>1, LenProperties
<1> HIDE DEF mine, same, reg
<1>6. CASE mine = {}
  BY <1>2, <1>3, <1>6 DEF mine
<1>7. CASE mine # {}
  <2>1. reg[id] = insts[Max(mine)]
    BY <1>2, <1>3, <1>7
  <2>2. reg[id] \in Instance /\ reg[id].rev = f[Max(mine)].rev
    BY <1>4, <1>5, <1>7, <2>1
  <2>3. reg[id] # None
    BY <2>2, RegistryAssumption
  <2>4. QED
    BY <1>7, <2>2, <2>3 DEF mine
<1>8. QED
  BY <1>6, <1>7

Served == Alone /\ EnsuredOnce /\ FileServed

LEMMA ServedInit == Init => Served
BY DEF Init, Served, Alone, EnsuredOnce, FileServed, ServesFile, Settled

\* The first step of the loop over the blocks, of a refresh that runs alone.
LEMMA BeginServes ==
    ASSUME AllTypes, AllTypes', NEW t \in Refreshers, NEW n \in 1 .. MaxOps,
           BeginConnecting(t, n, file'), pc[t] # "connect",
           \A u \in Refreshers \ {t} : pc[u] = "idle"
    PROVE  /\ \A u \in Refreshers \ {t} : pc'[u] = "idle"
           /\ pc'[t] # "ensure"
           /\ pc'[t] = "connect" => Mirrors(t)'
           /\ Settled' => Declared'
<1>1. pc \in [Refreshers -> {"idle", "ensure", "connect"}] /\ file' \in Seq(Block)
      /\ todo \in [Refreshers -> Seq(Block)] /\ built \in [Refreshers -> Seq(Instance)]
  BY DEF AllTypes, TypeOK, Locals
<1>2. CASE file' # <<>>
  <2>1. /\ pc' = [pc EXCEPT ![t] = "connect"] /\ todo' = [todo EXCEPT ![t] = file']
        /\ built' = [built EXCEPT ![t] = <<>>]
    BY <1>2 DEF BeginConnecting
  <2>2. pc'[t] = "connect" /\ todo'[t] = file' /\ built'[t] = <<>>
        /\ \A u \in Refreshers \ {t} : pc'[u] = pc[u]
    BY <1>1, <2>1
  <2>3. Len(<<>>) = 0 /\ Len(file') \in Nat
    BY <1>1, LenProperties, EmptySeq
  <2>4. \A k \in DOMAIN file' : k \in Nat
    BY <1>1, LenProperties
  <2>5. Mirrors(t)'
    BY <2>2, <2>3, <2>4, NoPositions DEF Mirrors
  <2>6. ~Settled'
    BY <2>2 DEF Settled, Refreshing
  <2>7. QED
    BY <2>2, <2>5, <2>6
<1>3. CASE file' = <<>>
  <2>1. pc' = [pc EXCEPT ![t] = "idle"] /\ registered' = NoInstances
    BY <1>3 DEF BeginConnecting, Swap
  <2>2. Declared'
    BY <1>3, <2>1, NoPositions DEF Declared, NoInstances
  <2>3. QED
    BY <1>1, <2>1, <2>2
<1>4. QED
  BY <1>2, <1>3

LEMMA EditServes == ASSUME Inv, AllTypes', Served, NEW t \in Refreshers, EditFile(t) PROVE Served'
<1>1. /\ pc \in [Refreshers -> {"idle", "ensure", "connect"}]
      /\ op \in [Refreshers -> 0 .. MaxOps] /\ ops + 1 \in 1 .. MaxOps
      /\ pc[t] = "idle" /\ AllTypes
  BY RegistryAssumption DEF Inv, AllTypes, TypeOK, EditFile, MayEdit
<1>2. /\ config' = file' /\ UNCHANGED managers
      /\ overlap' = \E u \in Refreshers \ {t} : pc[u] # "idle"
  BY DEF EditFile, Refresh
<1>3. CASE overlap'
  BY <1>2, <1>3 DEF Served, Alone, EnsuredOnce, FileServed, ServesFile
<1>4. CASE ~overlap'
  <2>1. \A u \in Refreshers \ {t} : pc[u] = "idle"
    BY <1>2, <1>4
  <2>2. CASE NeedsAuth(file') /\ managers = 0
    <3>1. pc' = [pc EXCEPT ![t] = "ensure"]
      BY <2>2 DEF EditFile, Refresh
    <3>2. pc'[t] = "ensure" /\ \A u \in Refreshers \ {t} : pc'[u] = "idle"
      BY <1>1, <2>1, <3>1
    <3>3. QED
      BY <1>2, <2>2, <3>2
      DEF Served, Alone, EnsuredOnce, FileServed, ServesFile, Settled, Refreshing
  <2>3. CASE ~(NeedsAuth(file') /\ managers = 0)
    <3>1. BeginConnecting(t, ops + 1, file')
      BY <2>3 DEF EditFile, Refresh
    <3>2. /\ \A u \in Refreshers \ {t} : pc'[u] = "idle"
          /\ pc'[t] # "ensure"
          /\ pc'[t] = "connect" => Mirrors(t)'
          /\ Settled' => Declared'
      BY <1>1, <2>1, <3>1, BeginServes
    <3>3. QED
      BY <1>2, <3>2 DEF Served, Alone, EnsuredOnce, FileServed, ServesFile
  <2>4. QED
    BY <2>2, <2>3
<1>5. QED
  BY <1>3, <1>4

LEMMA ManagerServes ==
    ASSUME Inv, AllTypes', Served, NEW t \in Refreshers, TokenManagerReady(t) PROVE Served'
<1>1. /\ op[t] \in 1 .. MaxOps /\ pc[t] = "ensure" /\ AllTypes /\ phase = "running"
      /\ UNCHANGED <<phase, file, config, overlap>> /\ BeginConnecting(t, op[t], config)
  BY RegistryAssumption DEF Inv, AllTypes, TypeOK, TokenManagerReady, Quiescent, files
<1>2. config = file /\ config' = file'
  BY <1>1 DEF Served, FileServed
<1>3. CASE overlap
  BY <1>1, <1>2, <1>3 DEF Served, Alone, EnsuredOnce, FileServed, ServesFile
<1>4. CASE ~overlap
  <2>1. \A u \in Refreshers \ {t} : pc[u] = "idle"
    BY <1>1, <1>4 DEF Served, Alone
  <2>2. BeginConnecting(t, op[t], file')
    BY <1>1, <1>2
  <2>3. /\ \A u \in Refreshers \ {t} : pc'[u] = "idle"
        /\ pc'[t] # "ensure"
        /\ pc'[t] = "connect" => Mirrors(t)'
        /\ Settled' => Declared'
    BY <1>1, <2>1, <2>2, BeginServes
  <2>4. QED
    BY <1>2, <2>3 DEF Served, Alone, EnsuredOnce, FileServed, ServesFile
<1>5. QED
  BY <1>3, <1>4

\* Arithmetic on lengths.
LEMMA Sums ==
    ASSUME NEW b \in Nat, NEW r \in Nat
    PROVE  (b + 1) + (r - 1) = b + r /\ b + (r + 1) = (b + 1) + r
OBVIOUS

LEMMA ConnectServes ==
    ASSUME Inv, AllTypes', Served, NEW t \in Refreshers, Connect(t) PROVE Served'
<1> DEFINE now == Append(built[t], Opened(t))
           rest == Tail(todo[t])
<1>1. /\ pc[t] = "connect" /\ AllTypes /\ phase = "running"
      /\ UNCHANGED <<phase, file, config, overlap, managers>>
      /\ pc \in [Refreshers -> {"idle", "ensure", "connect"}]
      /\ todo \in [Refreshers -> Seq(Block)] /\ built \in [Refreshers -> Seq(Instance)]
      /\ file \in Seq(Block) /\ todo[t] # <<>>
  BY DEF Inv, AllTypes, TypeOK, Locals, Connect, Quiescent, files
<1>2. config' = file'
  BY <1>1 DEF Served, FileServed
<1>3. CASE overlap
  BY <1>1, <1>2, <1>3 DEF Served, Alone, EnsuredOnce, FileServed, ServesFile
<1>4. CASE ~overlap
  <2>1. (\A u \in Refreshers \ {t} : pc[u] = "idle") /\ Mirrors(t)
    BY <1>1, <1>4 DEF Served, Alone, FileServed
  <2>2. /\ now \in Seq(Instance) /\ Len(now) = Len(built[t]) + 1
        /\ DOMAIN now = 1 .. Len(built[t]) + 1
        /\ \A k \in 1 .. Len(built[t]) : now[k] = built[t][k]
        /\ now[Len(built[t]) + 1] = Opened(t)
        /\ Len(built[t]) \in Nat /\ DOMAIN built[t] = 1 .. Len(built[t])
    BY <1>1, ConnectTypes, AppendProperties, LenProperties
  <2>3. /\ Len(todo[t]) \in Nat \ {0} /\ DOMAIN todo[t] = 1 .. Len(todo[t])
        /\ Head(todo[t]) = todo[t][1] /\ rest \in Seq(Block)
        /\ Len(rest) = Len(todo[t]) - 1
        /\ \A k \in 1 .. Len(todo[t]) - 1 : rest[k] = todo[t][k + 1]
    BY <1>1, HeadTailProperties, LenProperties, EmptySeq
  <2> HIDE DEF now, rest
  <2>4. Opened(t).id = file[Len(built[t]) + 1].id /\ Opened(t).rev = file[Len(built[t]) + 1].rev
    <3>1. 1 \in DOMAIN todo[t]
      BY <2>3
    <3>2. Head(todo[t]) = file[Len(built[t]) + 1]
      BY <2>1, <2>3, <3>1 DEF Mirrors
    <3>3. QED
      BY <3>2 DEF Opened, Instantiate
  <2>5. \A k \in 1 .. Len(now) : now[k].id = file[k].id /\ now[k].rev = file[k].rev
    <3>1. \A k \in 1 .. Len(now) : k \in 1 .. Len(built[t]) \/ k = Len(built[t]) + 1
      BY <2>2
    <3>2. QED
      BY <2>1, <2>2, <2>4, <3>1 DEF Mirrors
  <2>6. Len(built[t]) \in Nat /\ Len(todo[t]) \in Nat /\ Len(built[t]) + Len(todo[t]) = Len(file)
    BY <2>1, <2>2, <2>3 DEF Mirrors
  <2>7. Len(now) = Len(built[t]) + 1 /\ Len(rest) = Len(todo[t]) - 1
    BY <2>2, <2>3
  <2>8. CASE rest # <<>>
    <3>1. /\ todo' = [todo EXCEPT ![t] = rest] /\ built' = [built EXCEPT ![t] = now]
          /\ pc' = pc
      BY <2>8 DEF Connect, Opened, now, rest
    <3>2. todo'[t] = rest /\ built'[t] = now
      BY <1>1, <3>1
    <3>3. DOMAIN rest = 1 .. Len(todo[t]) - 1
      BY <2>3, LenProperties
    <3>4. Len(now) + Len(rest) = Len(file)
      <4>1. (Len(built[t]) + 1) + (Len(todo[t]) - 1) = Len(built[t]) + Len(todo[t])
        BY <2>6, Sums
      <4>2. QED
        BY <2>6, <2>7, <4>1
    <3>5. \A k \in 1 .. Len(todo[t]) - 1 : rest[k] = file[Len(now) + k]
      <4> SUFFICES ASSUME NEW k \in 1 .. Len(todo[t]) - 1
                   PROVE  rest[k] = file[Len(now) + k]
        OBVIOUS
      <4>1. k + 1 \in DOMAIN todo[t] /\ Len(built[t]) + (k + 1) = Len(now) + k
        <5>1. k \in Nat /\ k + 1 \in 1 .. Len(todo[t])
          BY <2>6
        <5>2. Len(built[t]) + (k + 1) = (Len(built[t]) + 1) + k
          BY <2>6, <5>1, Sums
        <5>3. QED
          BY <2>3, <2>7, <5>1, <5>2
      <4>2. todo[t][k + 1] = file[Len(built[t]) + (k + 1)]
        BY <2>1, <4>1 DEF Mirrors
      <4>3. QED
        BY <2>3, <4>1, <4>2
    <3>6. DOMAIN now = 1 .. Len(now)
      BY <2>2
    <3>7. Mirrors(t)'
      BY <1>1, <2>5, <3>2, <3>3, <3>4, <3>5, <3>6 DEF Mirrors
    <3>8. QED
      BY <1>1, <1>2, <2>1, <3>1, <3>7
      DEF Served, Alone, EnsuredOnce, FileServed, ServesFile, Settled, Refreshing
  <2>9. CASE rest = <<>>
    <3>1. pc' = [pc EXCEPT ![t] = "idle"] /\ registered' = AsDict(now)
      BY <2>9 DEF Connect, Opened, now, rest, Swap
    <3>2. \A u \in Refreshers : pc'[u] = "idle"
      BY <1>1, <2>1, <3>1
    <3>3. Len(now) = Len(file)
      <4>1. Len(todo[t]) = 1
        BY <2>6, <2>7, <2>9, EmptySeq
      <4>2. QED
        BY <2>6, <2>7, <4>1
    <3>4. Declared'
      <4>1. Serves(AsDict(now), file)
        BY <1>1, <2>2, <2>5, <3>3, MirrorServes
      <4>2. Serves(registered, file)'
        BY <1>1, <3>1, <4>1 DEF Serves
      <4>3. QED
        BY <4>2 DEF Serves, Declared
    <3>5. QED
      BY <1>2, <3>2, <3>4 DEF Served, Alone, EnsuredOnce, FileServed, ServesFile
  <2>10. QED
    BY <2>8, <2>9
<1>5. QED
  BY <1>3, <1>4

LEMMA FailureServes ==
    ASSUME Inv, Served, NEW t \in Refreshers, Abandon(t) PROVE Served'
<1>1. /\ pc \in [Refreshers -> {"idle", "ensure", "connect"}]
      /\ phase = "running" /\ pc[t] \in {"ensure", "connect"}
      /\ pc' = [pc EXCEPT ![t] = "idle"] /\ stale' = TRUE
      /\ UNCHANGED <<phase, file, config, overlap, managers>>
  BY DEF Inv, AllTypes, TypeOK, Quiescent, Abandon, TokenManagerFails, ConnectFails, files
<1>2. ~Settled'
  BY <1>1 DEF Settled
<1>3. ~overlap => \A u \in Refreshers : pc'[u] = "idle"
  BY <1>1 DEF Served, Alone
<1>4. QED
  BY <1>1, <1>2, <1>3 DEF Served, Alone, EnsuredOnce, FileServed, ServesFile

LEMMA LoadServes == ASSUME Inv, AllTypes', Served, Load PROVE Served'
<1> DEFINE insts == [k \in DOMAIN file |-> Instantiate(file[k], 0)]
<1>1. /\ \A t \in Refreshers : pc'[t] = "idle"
      /\ config' = file' /\ file' = file
  BY DEF Load, tasks, Inv, Quiescent
<1>2. CASE phase' = "running"
  <2>1. registered' = AsDict(insts)
    BY <1>2 DEF Load
  <2>2. file \in Seq(Block) /\ DOMAIN file = 1 .. Len(file) /\ Len(file) \in Nat
    BY LenProperties DEF Inv, AllTypes, TypeOK
  <2>3. \A k \in DOMAIN file : file[k] \in Block
    BY <2>2
  <2>4. \A k \in DOMAIN file : /\ insts[k] \in Instance
                               /\ insts[k].id = file[k].id /\ insts[k].rev = file[k].rev
    BY <2>3 DEF Instantiate, Block, Instance
  <2>5. insts \in Seq(Instance) /\ Len(insts) = Len(file)
    BY <2>2, <2>4
  <2>6. Serves(AsDict(insts), file)
    <3> HIDE DEF insts
    <3>1. QED
      BY <2>2, <2>4, <2>5, MirrorServes
  <2>7. Declared'
    <3> HIDE DEF insts
    <3>1. Serves(registered, file)'
      BY <1>1, <2>1, <2>6 DEF Serves
    <3>2. QED
      BY <3>1 DEF Serves, Declared
  <2>8. QED
    BY <1>1, <2>7 DEF Served, Alone, EnsuredOnce, FileServed, ServesFile
<1>3. CASE phase' # "running"
  BY <1>1, <1>3 DEF Served, Alone, EnsuredOnce, FileServed, ServesFile, Settled
<1>4. QED
  BY <1>2, <1>3

\* The other steps leave the file, the refreshes and the dict alone, or stop the process.
LEMMA OtherStepServes ==
    ASSUME Served, UNCHANGED <<files, tasks, stale, overlap>>,
           \/ phase' = "stopped" /\ \A t \in Refreshers : pc[t] = "idle"
           \/ UNCHANGED <<phase, registered, managers>>
    PROVE  Served'
<1>1. CASE phase' = "stopped" /\ \A t \in Refreshers : pc[t] = "idle"
  BY <1>1 DEF Served, Alone, EnsuredOnce, FileServed, ServesFile, Settled, files, tasks
<1>2. CASE UNCHANGED <<phase, registered, managers>>
  BY <1>2 DEF Served, Alone, EnsuredOnce, FileServed, ServesFile, Settled, files, tasks,
              Refreshing, Declared, Mirrors
<1>3. QED
  BY <1>1, <1>2

LEMMA StepServes == ASSUME Inv, Inv', Served, Steps PROVE Served'
<1>1. AllTypes /\ AllTypes'
  BY DEF Inv
<1>2. ASSUME NEW t \in Refreshers,
             EditFile(t) \/ TokenManagerReady(t) \/ Connect(t) \/ Abandon(t)
      PROVE  Served'
  BY <1>1, <1>2, EditServes, ManagerServes, ConnectServes, FailureServes
<1>3. CASE Shutdown
  BY <1>3, OtherStepServes DEF Shutdown
<1>4. CASE Tick
  BY <1>4, OtherStepServes DEF Tick
<1>5. ASSUME NEW q \in Queriers, EndQuery(q) PROVE Served'
  BY <1>5, OtherStepServes DEF EndQuery, live
<1>6. ASSUME NEW q \in Queriers, NEW id \in Ids, StartQuery(q, id) PROVE Served'
  BY <1>6, OtherStepServes DEF StartQuery, live
<1>7. ASSUME NEW d \in draining, Drain(d) PROVE Served'
  BY <1>7, OtherStepServes DEF Drain
<1>8. CASE UNCHANGED vars
  BY <1>8, OtherStepServes DEF vars, live
<1>9. QED
  BY <1>1, <1>2, <1>3, <1>4, <1>5, <1>6, <1>7, <1>8, LoadServes DEF Steps

LEMMA InvServed == Spec => [](Inv /\ Served)
<1>1. Init => Inv /\ Served
  BY InitInv, ServedInit
<1>2. Inv /\ Served /\ [Next]_vars => (Inv /\ Served)'
  <2> SUFFICES ASSUME Inv, Served, [Next]_vars PROVE Inv' /\ Served'
    OBVIOUS
  <2>1. Steps
    BY StepCases DEF Inv, AllTypes
  <2>2. QED
    BY <2>1, StepInv, StepServes
<1>3. QED
  BY <1>1, <1>2, PTL DEF Spec

\* Whenever no refresh is running and the last one did not fail, lookups return exactly what
\* config.toml declares, unless refreshes have overlapped since one last began alone: a refresh
\* that runs alone builds, block by block, the file as it is when it swaps.
THEOREM FileIsServed == Spec => []ServesFile
<1>1. Inv /\ Served => ServesFile
  BY DEF Served, FileServed
<1>2. QED
  BY <1>1, InvServed, PTL

\* Only refreshes that overlap may make a second token manager.
THEOREM ManagerIsReused == Spec => OneTokenManager
<1>1. Inv /\ Served /\ [Next]_vars => [managers # 0 => managers' <= managers \/ overlap]_vars
  <2> SUFFICES ASSUME Inv, Served, [Next]_vars, managers # 0, ~overlap
               PROVE  managers' <= managers
    OBVIOUS
  <2>1. Steps /\ managers \in Nat /\ 1 <= managers
    BY StepCases DEF Inv, AllTypes, TypeOK
  <2>2. ASSUME NEW t \in Refreshers,
               EditFile(t) \/ TokenManagerReady(t) \/ Connect(t) \/ Abandon(t)
        PROVE  managers' = managers
    BY <2>2 DEF EditFile, TokenManagerReady, Connect, Abandon, TokenManagerFails, ConnectFails, Served, EnsuredOnce
  <2>3. CASE Load
    BY <2>1, <2>3 DEF Load
  <2>4. CASE Shutdown
    BY <2>1, <2>4 DEF Shutdown
  <2>5. CASE UNCHANGED managers
    BY <2>1, <2>5
  <2>6. QED
    BY <2>1, <2>2, <2>3, <2>4, <2>5 DEF Steps, Tick, EndQuery, StartQuery, Drain, vars
<1>2. QED
  BY <1>1, InvServed, PTL DEF Spec, OneTokenManager

-------------------------------
(* Numbers of lines.                                                       *)

\* A set of numbers that is not empty has a least one.
LEMMA LeastNumber ==
    ASSUME NEW S, S \subseteq Nat, S # {}
    PROVE  File!Min(S) \in S /\ \A k \in S : File!Min(S) <= k
<1>1. PICK m \in S : \A k \in S : <<k, m>> \notin OpToRel(<, Nat)
  BY NatLessThanWellFounded, WFMin, Zenon
<1>2. \A k \in S : ~(k < m)
  BY <1>1 DEF OpToRel
<1>3. \A k \in S : m <= k
  BY <1>2
<1>4. QED
  BY <1>3 DEF File!Min

\* One of numbers up to n has a greatest one.
LEMMA GreatestNumber ==
    ASSUME NEW n \in Nat, NEW S \in SUBSET (0 .. n), S # {}
    PROVE  File!Max(S) \in S /\ \A k \in S : k <= File!Max(S)
<1> DEFINE bounds == {m \in Nat : \A k \in S : k <= m}
           least  == File!Min(bounds)
<1>1. bounds \subseteq Nat /\ n \in bounds
  OBVIOUS
<1>2. least \in Nat /\ (\A k \in S : k <= least) /\ \A m \in bounds : least <= m
  BY <1>1, LeastNumber
<1> HIDE DEF least
<1>3. ASSUME least \notin S PROVE FALSE
  <2>1. \A k \in S : k < least
    BY <1>2, <1>3
  <2>2. least > 0 /\ least - 1 \in Nat
    <3>1. \A k \in S : k \in Nat
      OBVIOUS
    <3>2. PICK k \in S : k \in Nat /\ k < least
      BY <2>1, <3>1
    <3>3. QED
      BY <1>2, <3>2
  <2>3. \A k \in S : k <= least - 1
    BY <1>2, <2>1, <2>2
  <2>4. least - 1 \in bounds
    BY <2>2, <2>3
  <2>5. QED
    BY <1>2, <2>2, <2>4
<1>4. least \in S /\ \A k \in S : least >= k
  BY <1>2, <1>3
<1>5. \A k \in S : File!Max(S) \in S /\ File!Max(S) >= k
  BY <1>4 DEF File!Max
<1>6. QED
  BY <1>5, <1>2

\* The instance has a copy of FiniteSets.
LEMMA SameCardinality == ASSUME NEW S PROVE File!Cardinality(S) = Cardinality(S)
BY DEF File!Cardinality, Cardinality

\* As many numbers of the set are below n.
Below(S, n) == Cardinality({j \in S : j < n})

LEMMA BelowGrows ==
    ASSUME NEW m \in Nat, NEW S \in SUBSET (0 .. m)
    PROVE  /\ Cardinality(S) \in Nat /\ Below(S, 0) = 0 /\ Below(S, m + 1) = Cardinality(S)
           /\ \A n \in Nat : Below(S, n) \in Nat /\ Below(S, n) <= Cardinality(S)
           /\ \A n \in Nat : Below(S, n + 1) = IF n \in S THEN Below(S, n) + 1 ELSE Below(S, n)
<1>1. (\A j \in S : j \in 0 .. m) /\ \A j \in S : j \in Nat /\ 0 <= j /\ j <= m
  OBVIOUS
<1>2. IsFiniteSet(S)
  <2>1. IsFiniteSet(0 .. m)
    BY FS_Interval
  <2>2. QED
    BY <2>1, FS_Subset
<1>3. Cardinality(S) \in Nat
  BY <1>2, FS_CardinalityType
<1>4. {j \in S : j < 0} = {} /\ {j \in S : j < m + 1} = S
  <2>1. \A j \in S : ~(j < 0) /\ j < m + 1
    BY <1>1
  <2>2. QED
    BY <2>1
<1>5. \A n \in Nat : /\ IsFiniteSet({j \in S : j < n})
                     /\ Below(S, n) \in Nat /\ Below(S, n) <= Cardinality(S)
  BY <1>2, FS_Subset, FS_CardinalityType DEF Below
<1>6. ASSUME NEW n \in Nat
      PROVE  Below(S, n + 1) = IF n \in S THEN Below(S, n) + 1 ELSE Below(S, n)
  <2>1. \A j \in S : (j < n + 1) <=> (j < n \/ j = n)
    BY <1>1
  <2>2. CASE n \in S
    <3>1. {j \in S : j < n + 1} = {j \in S : j < n} \cup {n} /\ n \notin {j \in S : j < n}
      <4>1. ~(n < n)
        OBVIOUS
      <4>2. \A j \in S : (j < n + 1) <=> (j < n \/ j = n)
        BY <2>1
      <4> HIDE DEF Below
      <4>3. QED
        BY <2>2, <4>1, <4>2, Zenon
    <3>2. QED
      BY <1>5, <2>2, <3>1, FS_AddElement DEF Below
  <2>3. CASE n \notin S
    <3>1. {j \in S : j < n + 1} = {j \in S : j < n}
      BY <2>3, <2>1
    <3>2. QED
      BY <2>3, <3>1 DEF Below
  <2>4. QED
    BY <2>2, <2>3
<1>7. QED
  BY <1>3, <1>4, <1>5, <1>6, FS_EmptySet DEF Below

\* Ascending(S) has all numbers of S.
LEMMA AscendingMembers ==
    ASSUME NEW m \in Nat, NEW S \in SUBSET (0 .. m)
    PROVE  /\ Cardinality(S) \in Nat /\ DOMAIN File!Ascending(S) = 1 .. Cardinality(S)
           /\ \A k \in 1 .. Cardinality(S) :
                File!Ascending(S)[k] \in S /\ Below(S, File!Ascending(S)[k]) = k - 1
<1>1. /\ Cardinality(S) \in Nat /\ Below(S, 0) = 0 /\ Below(S, m + 1) = Cardinality(S)
      /\ \A n \in Nat : Below(S, n) \in Nat
      /\ \A n \in Nat : Below(S, n + 1) = IF n \in S THEN Below(S, n) + 1 ELSE Below(S, n)
  BY BelowGrows
<1>2. ASSUME NEW k \in 1 .. Cardinality(S) PROVE \E i \in S : Below(S, i) = k - 1
  <2> DEFINE reached == {n \in Nat : Below(S, n) >= k}
             first   == File!Min(reached)
  <2>1. reached \subseteq Nat /\ m + 1 \in reached
    BY <1>1
  <2>2. first \in Nat /\ Below(S, first) >= k /\ \A n \in reached : first <= n
    BY <2>1, LeastNumber
  <2> HIDE DEF first
  <2>3. first > 0 /\ first - 1 \in Nat /\ (first - 1) + 1 = first
    BY <1>1, <2>2
  <2>4. Below(S, first - 1) < k
    BY <1>1, <2>2, <2>3
  <2>5. first - 1 \in S /\ Below(S, first - 1) = k - 1
    BY <1>1, <2>2, <2>3, <2>4
  <2>6. QED
    BY <2>5
<1>3. \A k \in 1 .. Cardinality(S) : File!Ascending(S)[k] = CHOOSE i \in S : Below(S, i) = k - 1
  BY SameCardinality DEF File!Ascending, Below
<1>4. DOMAIN File!Ascending(S) = 1 .. Cardinality(S)
  BY SameCardinality DEF File!Ascending
<1>5. QED
  BY <1>1, <1>2, <1>3, <1>4

\* A number of the set has more of them below it than a lower one.
LEMMA BelowOrders ==
    ASSUME NEW n \in Nat, NEW T \in SUBSET (0 .. n)
    PROVE  /\ \A x, y \in T : x < y => Below(T, x) < Below(T, y)
           /\ \A x, y \in T : Below(T, x) = Below(T, y) => x = y
           /\ \A x \in T : Below(T, x) < Cardinality(T)
<1>1. \A t \in T : t \in Nat
  OBVIOUS
<1>2. IsFiniteSet(T)
  <2>1. IsFiniteSet(0 .. n)
    BY FS_Interval
  <2>2. QED
    BY <2>1, FS_Subset
<1>3. ASSUME NEW x \in T, NEW y \in T, x < y PROVE Below(T, x) < Below(T, y)
  <2>1. {t \in T : t < x} \cup {x} \subseteq {t \in T : t < y} /\ x \notin {t \in T : t < x}
    <3>1. x \in Nat /\ y \in Nat /\ ~(x < x) /\ \A t \in T : t < x => t < y
      BY <1>1, <1>3
    <3>2. QED
      BY <1>3, <3>1
  <2>2. IsFiniteSet({t \in T : t < x}) /\ IsFiniteSet({t \in T : t < y})
    BY <1>2, FS_Subset
  <2>3. Cardinality({t \in T : t < x} \cup {x}) = Cardinality({t \in T : t < x}) + 1
    BY <2>1, <2>2, FS_AddElement
  <2>4. Cardinality({t \in T : t < x} \cup {x}) <= Cardinality({t \in T : t < y})
    BY <2>1, <2>2, FS_Subset
  <2>5. Cardinality({t \in T : t < x}) \in Nat /\ Cardinality({t \in T : t < y}) \in Nat
    BY <2>2, FS_CardinalityType
  <2>6. QED
    BY <2>3, <2>4, <2>5 DEF Below
<1>4. \A x, y \in T : Below(T, x) = Below(T, y) => x = y
  <2>1. ASSUME NEW x \in T, NEW y \in T, Below(T, x) = Below(T, y) PROVE x = y
    <3>1. x \in Nat /\ y \in Nat /\ Below(T, x) \in Nat /\ Below(T, y) \in Nat
      BY <1>1, BelowGrows
    <3>2. ~(x < y) /\ ~(y < x)
      BY <1>3, <2>1, <3>1
    <3>3. QED
      BY <3>1, <3>2
  <2>2. QED
    BY <2>1
<1>5. ASSUME NEW x \in T PROVE Below(T, x) < Cardinality(T)
  <2>1. {t \in T : t < x} \subseteq T /\ {t \in T : t < x} # T
    <3>1. x \in Nat /\ ~(x < x)
      BY <1>1
    <3>2. QED
      BY <3>1
  <2>2. QED
    BY <1>2, <2>1, FS_Subset, FS_CardinalityType DEF Below
<1>6. QED
  BY <1>3, <1>4, <1>5

\* A function maps a set onto another, in order.
InOrder(f, S, T) ==
    /\ f \in [S -> T]
    /\ \A i, j \in S : i < j => f[i] < f[j]
    /\ \A t \in T : \E i \in S : f[i] = t

\* A set onto which another is mapped in order has the same enumeration.
LEMMA SameEnumeration ==
    ASSUME NEW m \in Nat, NEW S \in SUBSET (0 .. m), NEW n \in Nat, NEW T \in SUBSET (0 .. n),
           NEW f \in [S -> T], InOrder(f, S, T)
    PROVE  /\ Cardinality(T) = Cardinality(S)
           /\ \A k \in 1 .. Cardinality(S) : File!Ascending(T)[k] = f[File!Ascending(S)[k]]
<1>1. /\ f \in [S -> T]
      /\ \A i, j \in S : i < j => f[i] < f[j]
      /\ \A t \in T : \E i \in S : f[i] = t
  BY DEF InOrder
<1>2. (\A i \in S : i \in Nat /\ f[i] \in T) /\ \A t \in T : t \in Nat
  BY <1>1
<1>3. IsFiniteSet(S) /\ IsFiniteSet(T)
  <2>1. IsFiniteSet(0 .. m) /\ IsFiniteSet(0 .. n)
    BY FS_Interval
  <2>2. QED
    BY <2>1, FS_Subset
<1>4. \A i, j \in S : (i < j) <=> (f[i] < f[j])
  <2>1. ASSUME NEW i \in S, NEW j \in S, f[i] < f[j] PROVE i < j
    <3>1. i \in Nat /\ j \in Nat /\ f[i] \in Nat /\ f[j] \in Nat
      BY <1>2
    <3>2. CASE j < i
      <4>1. f[j] < f[i]
        BY <1>1, <3>2
      <4>2. QED
        BY <2>1, <3>1, <4>1
    <3>3. CASE j = i
      BY <2>1, <3>1, <3>3
    <3>4. QED
      BY <3>1, <3>2, <3>3
  <2>2. QED
    BY <1>1, <2>1
<1>5. \A i, j \in S : f[i] = f[j] => i = j
  <2>1. ASSUME NEW i \in S, NEW j \in S, f[i] = f[j] PROVE i = j
    <3>1. \A x \in Nat : ~(x < x)
      OBVIOUS
    <3>2. i \in Nat /\ j \in Nat /\ f[i] \in Nat /\ f[j] \in Nat /\ ~(f[i] < f[j])
            /\ ~(f[j] < f[i])
      BY <1>2, <2>1, <3>1
    <3>3. ~(i < j) /\ ~(j < i)
      BY <1>4, <3>2
    <3>4. QED
      BY <3>2, <3>3
  <2>2. QED
    BY <2>1
<1>6. f \in Bijection(S, T)
  BY <1>1, <1>5 DEF Bijection, Injection, Surjection, IsInjective
<1>7. ExistsBijection(S, T)
  BY <1>6 DEF ExistsBijection
<1>8. Cardinality(T) = Cardinality(S)
  BY <1>3, <1>7, FS_Bijection
<1>9. ASSUME NEW i \in S PROVE Below(T, f[i]) = Below(S, i)
  <2> DEFINE A == {j \in S : j < i}
             B == {t \in T : t < f[i]}
             g == [j \in A |-> f[j]]
  <2>1. g \in [A -> B]
    <3>1. \A j \in A : f[j] \in B
      BY <1>2, <1>4
    <3>2. QED
      BY <3>1
  <2>2. \A t \in B : \E j \in A : g[j] = t
    <3>1. ASSUME NEW t \in B PROVE \E j \in A : g[j] = t
      <4>1. PICK j \in S : f[j] = t
        BY <1>1
      <4>2. j \in A
        BY <1>4, <4>1
      <4>3. QED
        BY <4>1, <4>2
    <3>2. QED
      BY <3>1
  <2>3. \A j, k \in A : g[j] = g[k] => j = k
    BY <1>5
  <2>4. IsFiniteSet(A)
    BY <1>3, FS_Subset
  <2> HIDE DEF A, B, g
  <2>5. g \in Bijection(A, B)
    BY <2>1, <2>2, <2>3 DEF Bijection, Injection, Surjection, IsInjective
  <2>6. ExistsBijection(A, B)
    BY <2>5 DEF ExistsBijection
  <2>7. Cardinality(A) = Cardinality(B)
    BY <2>4, <2>6, FS_Bijection
  <2>8. QED
    BY <2>7 DEF A, B, Below
<1>10. \A x, y \in T : Below(T, x) = Below(T, y) => x = y
  BY BelowOrders
<1>11. ASSUME NEW k \in 1 .. Cardinality(S) PROVE File!Ascending(T)[k] = f[File!Ascending(S)[k]]
  <2>1. File!Ascending(S)[k] \in S /\ Below(S, File!Ascending(S)[k]) = k - 1
    BY AscendingMembers
  <2>2. File!Ascending(T)[k] \in T /\ Below(T, File!Ascending(T)[k]) = k - 1
    BY <1>8, AscendingMembers
  <2>3. QED
    BY <1>2, <1>9, <1>10, <2>1, <2>2
<1>12. QED
  BY <1>8, <1>11

\* Ascending(S) is in order and has every number of S.
LEMMA AscendingOrder ==
    ASSUME NEW m \in Nat, NEW S \in SUBSET (0 .. m)
    PROVE  /\ \A j, k \in 1 .. Cardinality(S) : j < k
                => File!Ascending(S)[j] < File!Ascending(S)[k]
           /\ \A i \in S : \E k \in 1 .. Cardinality(S) : File!Ascending(S)[k] = i
<1>1. /\ Cardinality(S) \in Nat
      /\ \A k \in 1 .. Cardinality(S) :
           File!Ascending(S)[k] \in S /\ Below(S, File!Ascending(S)[k]) = k - 1
  BY AscendingMembers
<1>2. (\A i \in S : i \in Nat) /\ \A i \in Nat : Below(S, i) \in Nat
  <2>1. \A i \in S : i \in Nat
    OBVIOUS
  <2>2. QED
    BY <2>1, BelowGrows
<1>3. ASSUME NEW j \in 1 .. Cardinality(S), NEW k \in 1 .. Cardinality(S), j < k
      PROVE  File!Ascending(S)[j] < File!Ascending(S)[k]
  <2> DEFINE x == File!Ascending(S)[j]
             y == File!Ascending(S)[k]
  <2>1. x \in S /\ y \in S /\ Below(S, x) = j - 1 /\ Below(S, y) = k - 1
    BY <1>1
  <2> HIDE DEF x, y
  <2>2. ~(y < x) /\ y # x
    <3>1. ~(Below(S, y) < Below(S, x)) /\ Below(S, y) # Below(S, x)
      BY <1>1, <1>3, <2>1
    <3>2. QED
      BY <2>1, <3>1, BelowOrders
  <2>3. x < y
    BY <1>2, <2>1, <2>2
  <2>4. QED
    BY <2>3 DEF x, y
<1>4. ASSUME NEW i \in S PROVE \E k \in 1 .. Cardinality(S) : File!Ascending(S)[k] = i
  <2> DEFINE k == Below(S, i) + 1
  <2>1. Below(S, i) < Cardinality(S) /\ Below(S, i) \in Nat
    BY <1>2, BelowOrders
  <2>2. k \in 1 .. Cardinality(S) /\ k - 1 = Below(S, i)
    BY <1>1, <2>1
  <2> HIDE DEF k
  <2>3. File!Ascending(S)[k] = i
    BY <1>1, <2>2, BelowOrders
  <2>4. QED
    BY <2>2, <2>3
<1>5. QED
  BY <1>3, <1>4

\* The enumeration of a set is the only one in order.
LEMMA AscendingIs ==
    ASSUME NEW m \in Nat, NEW T \in SUBSET (0 .. m), NEW n \in Nat,
           NEW g \in [1 .. n -> T], InOrder(g, 1 .. n, T)
    PROVE  Cardinality(T) = n /\ \A k \in 1 .. n : File!Ascending(T)[k] = g[k]
<1> DEFINE S == 1 .. n
<1>1. S \in SUBSET (0 .. n)
  OBVIOUS
<1>2. Cardinality(S) = n
  <2>1. Cardinality(1 .. n) = IF 1 > n THEN 0 ELSE n - 1 + 1
    BY FS_Interval
  <2>2. QED
    BY <2>1
<1>3. ASSUME NEW k \in S PROVE Below(S, k) = k - 1
  <2>1. {j \in 1 .. n : j < k} = 1 .. k - 1
    OBVIOUS
  <2>2. Cardinality(1 .. k - 1) = IF 1 > k - 1 THEN 0 ELSE (k - 1) - 1 + 1
    <3>1. 1 \in Int /\ k - 1 \in Int
      OBVIOUS
    <3>2. QED
      BY <3>1, FS_Interval
  <2>3. Cardinality(1 .. k - 1) = k - 1
    BY <2>2
  <2>4. QED
    BY <2>1, <2>3 DEF Below
<1>4. g \in [S -> T] /\ InOrder(g, S, T)
  <2>1. g \in [1 .. n -> T]
    BY DEF InOrder
  <2>2. QED
    BY <2>1
<1> HIDE DEF S
<1>5. /\ Cardinality(T) = Cardinality(S)
      /\ \A k \in 1 .. Cardinality(S) : File!Ascending(T)[k] = g[File!Ascending(S)[k]]
  BY <1>1, <1>4, SameEnumeration
<1>6. ASSUME NEW k \in 1 .. n PROVE File!Ascending(S)[k] = k
  <2>1. File!Ascending(S)[k] \in S /\ Below(S, File!Ascending(S)[k]) = k - 1
    BY <1>1, <1>2, AscendingMembers
  <2>2. k \in S /\ Below(S, k) = k - 1
    BY <1>3 DEF S
  <2>3. \A x, y \in S : Below(S, x) = Below(S, y) => x = y
    BY <1>1, BelowOrders
  <2>4. QED
    BY <2>1, <2>2, <2>3
<1>7. QED
  BY <1>2, <1>5, <1>6

-----------------------------------------------------------------------------
(* The lines of a block.                                                   *)

\* Line h is in the block that starts at line i.
InBlock(lines, i, h) == i < h /\ \A j \in i + 1 .. h : ~File!EndsBlock(lines[j])

\* A line past which a source's own id is not seen any more: the header of a table
\* of it, or an id line that the scan does not see.
Bars(line) == line.kind = "[sources.steps]" \/ (line.kind = "id" /\ line.raw = File!Unseen)

\* Of the lines past i, up to line h, one is seen, and none above it bars.
Shows(lines, i, h) ==
    \E d \in i + 1 .. h : lines[d].raw # File!Unseen /\ \A j \in i + 1 .. d - 1 : ~Bars(lines[j])

\* No header has a comment behind it, and where the scan sees the id of a source at
\* all, it is its own, above its tables.
Plain(lines) ==
    /\ \A i \in DOMAIN lines : lines[i].kind # "noted"
    /\ \A i, h \in DOMAIN lines :
         /\ lines[i].kind = "[[sources]]" /\ lines[h].raw # File!Unseen
         /\ InBlock(lines, i, h)
         => Shows(lines, i, h)

LEMMA LineKinds ==
    ASSUME NEW line \in File!Line
    PROVE  /\ line.kind \in File!Kinds
           /\ line.kind = "id" => line.value \in Ids \cup {File!NoValue}
           /\ line.kind = "type" => line.value \in Types \cup {File!NoValue}
           /\ line.raw \in Ids \cup {File!NoValue, File!Garbled, File!Unseen}
           /\ line.raw # File!Unseen => line.kind = "id"
BY DEF File!Line, File!Kinds

LEMMA EndOfBlock ==
    ASSUME NEW lines \in Seq(File!Line), NEW i \in DOMAIN lines
    PROVE  /\ File!End(lines, i) \in i + 1 .. Len(lines) + 1
           /\ File!End(lines, i) <= Len(lines) => File!EndsBlock(lines[File!End(lines, i)])
           /\ \A j \in i + 1 .. File!End(lines, i) - 1 : ~File!EndsBlock(lines[j])
<1> DEFINE S == {j \in i + 1 .. Len(lines) : File!HasPath(lines[j]) /\ File!EndsBlock(lines[j])}
  \cup {Len(lines) + 1}
<1>1. Len(lines) \in Nat /\ i \in 1 .. Len(lines)
  BY LenProperties
<1>2. S \subseteq Nat /\ S # {} /\ \A j \in S : j \in i + 1 .. Len(lines) + 1
  BY <1>1
<1>3. File!End(lines, i) \in S /\ \A j \in S : File!End(lines, i) <= j
  <2>1. File!End(lines, i) = File!Min(S)
    BY DEF File!End
  <2> HIDE DEF S
  <2>2. QED
    BY <1>2, <2>1, LeastNumber
<1>4. \A j \in i + 1 .. Len(lines) : File!EndsBlock(lines[j]) => j \in S
  BY DEF File!HasPath, File!EndsBlock
<1>5. File!End(lines, i) \in i + 1 .. Len(lines) + 1
  BY <1>2, <1>3
<1>6. File!End(lines, i) <= Len(lines) => File!EndsBlock(lines[File!End(lines, i)])
  BY <1>1, <1>3, <1>5
<1>7. ASSUME NEW j \in i + 1 .. File!End(lines, i) - 1, File!EndsBlock(lines[j]) PROVE FALSE
  <2>1. j \in i + 1 .. Len(lines) /\ j < File!End(lines, i) /\ j \in Int
    BY <1>1, <1>5
  <2>2. File!End(lines, i) <= j
    BY <1>3, <1>4, <1>7, <2>1
  <2>3. QED
    BY <1>5, <2>1, <2>2
<1>8. QED
  BY <1>5, <1>6, <1>7

\* The line past the keys of the source at line i, for TOML.
TomlEnd(lines, i) ==
    File!Min({j \in i + 1 .. Len(lines) : lines[j].kind \in File!Headers} \cup {Len(lines) + 1})

LEMMA EndOfSource ==
    ASSUME NEW lines \in Seq(File!Line), NEW i \in DOMAIN lines
    PROVE  /\ TomlEnd(lines, i) \in i + 1 .. Len(lines) + 1
           /\ TomlEnd(lines, i) <= Len(lines) => lines[TomlEnd(lines, i)].kind \in File!Headers
           /\ \A j \in i + 1 .. Len(lines) :
                lines[j].kind \in File!Headers => TomlEnd(lines, i) <= j
<1> DEFINE S == {j \in i + 1 .. Len(lines) : lines[j].kind \in File!Headers} \cup {Len(lines) + 1}
<1>1. Len(lines) \in Nat /\ i \in 1 .. Len(lines)
  BY LenProperties
<1>2. S \subseteq Nat /\ S # {} /\ \A j \in S : j \in i + 1 .. Len(lines) + 1
  BY <1>1
<1>3. TomlEnd(lines, i) \in S /\ \A j \in S : TomlEnd(lines, i) <= j
  <2>1. TomlEnd(lines, i) = File!Min(S)
    BY DEF TomlEnd
  <2> HIDE DEF S
  <2>2. QED
    BY <1>2, <2>1, LeastNumber
<1>4. TomlEnd(lines, i) \in i + 1 .. Len(lines) + 1
  BY <1>2, <1>3
<1>5. TomlEnd(lines, i) <= Len(lines) => lines[TomlEnd(lines, i)].kind \in File!Headers
  BY <1>1, <1>3, <1>4
<1>6. QED
  BY <1>3, <1>4, <1>5

\* Lines of a kind among some.
Among(lines, from, to, kind) == {j \in from .. to : lines[j].kind = kind}

FirstValue(lines, at) == IF at = {} THEN File!NoValue ELSE lines[File!Min(at)].value

FirstRaw(lines, at) == IF at = {} THEN File!Unseen ELSE lines[File!Min(at)].raw

LEMMA TomlSourceParts ==
    ASSUME NEW lines, NEW i
    PROVE  File!TomlSource(lines, i) =
             [id       |-> FirstValue(lines, Among(lines, i + 1, TomlEnd(lines, i) - 1, "id")),
              raw      |-> FirstRaw(lines, Among(lines, i + 1, TomlEnd(lines, i) - 1, "id")),
              type     |-> FirstValue(lines, Among(lines, i + 1, TomlEnd(lines, i) - 1, "type")),
              complete |-> Among(lines, i + 1, TomlEnd(lines, i) - 1, "fields") # {}]
BY DEF File!TomlSource, TomlEnd, Among, FirstValue, FirstRaw

\* What the scan takes for the id of a block is the text of the source's own id line.
LEMMA BlockIdIsSourceId ==
    ASSUME NEW lines \in Seq(File!Line), Plain(lines),
           NEW i \in DOMAIN lines, lines[i].kind = "[[sources]]"
    PROVE  File!BlockId(lines, i) = File!TomlSource(lines, i).raw
<1> DEFINE end     == File!End(lines, i)
           tomlEnd == TomlEnd(lines, i)
           block   == File!IdLines(lines, i)
           toml    == Among(lines, i + 1, tomlEnd - 1, "id")
<1>1. File!BlockId(lines, i) = FirstRaw(lines, block)
        /\ File!TomlSource(lines, i).raw = FirstRaw(lines, toml)
  BY TomlSourceParts DEF File!BlockId, FirstRaw, Among
<1>2. /\ Len(lines) \in Nat /\ i \in 1 .. Len(lines) /\ DOMAIN lines = 1 .. Len(lines)
      /\ \A j \in DOMAIN lines : lines[j] \in File!Line
  BY LenProperties
<1>3. /\ end \in i + 1 .. Len(lines) + 1
      /\ end <= Len(lines) => File!EndsBlock(lines[end])
      /\ \A j \in i + 1 .. end - 1 : ~File!EndsBlock(lines[j])
  BY EndOfBlock
<1>4. /\ tomlEnd \in i + 1 .. Len(lines) + 1
      /\ tomlEnd <= Len(lines) => lines[tomlEnd].kind \in File!Headers
      /\ \A j \in i + 1 .. Len(lines) : lines[j].kind \in File!Headers => tomlEnd <= j
  BY EndOfSource
<1>5. /\ \A j : j \in block <=> j \in i + 1 .. end - 1 /\ lines[j].raw # File!Unseen
      /\ \A j : j \in toml <=> j \in i + 1 .. tomlEnd - 1 /\ lines[j].kind = "id"
  BY DEF File!IdLines, Among
<1> HIDE DEF end, tomlEnd, block, toml
<1>6. tomlEnd <= end
  <2>1. CASE end <= Len(lines)
    <3>1. lines[end].kind \in File!Headers /\ end \in i + 1 .. Len(lines)
      BY <1>2, <1>3, <2>1 DEF File!EndsBlock, File!Headers
    <3>2. QED
      BY <1>4, <3>1
  <2>2. QED
    BY <1>2, <1>3, <1>4, <2>1
<1>7. block \subseteq Nat /\ toml \subseteq Nat
  BY <1>2, <1>5
<1>8. \A j \in block : lines[j].kind = "id" /\ j \in DOMAIN lines
  <2>1. \A j \in block : j \in DOMAIN lines
    BY <1>2, <1>3, <1>5
  <2>2. QED
    BY <1>2, <1>5, <2>1, LineKinds
\* The first line that is seen stands first of the id lines of the source.
<1>9. CASE block # {}
  <2>1. PICK h \in block : TRUE
    BY <1>9
  <2>2. h \in DOMAIN lines /\ lines[h].raw # File!Unseen /\ h \in i + 1 .. end - 1
    BY <1>5, <1>8
  <2>3. InBlock(lines, i, h)
    <3>1. i < h /\ i + 1 .. h \subseteq i + 1 .. end - 1
      BY <1>2, <1>3, <2>2
    <3>2. QED
      BY <1>3, <3>1 DEF InBlock
  <2>4. PICK d \in i + 1 .. h : lines[d].raw # File!Unseen
                                /\ \A j \in i + 1 .. d - 1 : ~Bars(lines[j])
    <3>1. Shows(lines, i, h)
      BY <2>2, <2>3 DEF Plain
    <3>2. QED
      BY <3>1 DEF Shows
  <2>5. d \in i + 1 .. end - 1 /\ d \in block /\ d \in Nat /\ d \in DOMAIN lines
    <3>1. d \in i + 1 .. end - 1
      BY <1>2, <1>3, <2>2
    <3>2. d \in block
      BY <1>5, <2>4, <3>1
    <3>3. QED
      BY <1>7, <1>8, <3>1, <3>2
  <2>6. d < tomlEnd
    <3>1. CASE tomlEnd <= Len(lines) /\ tomlEnd < d
      <4>1. tomlEnd \in i + 1 .. d - 1 /\ tomlEnd \in i + 1 .. end - 1 /\ tomlEnd \in DOMAIN lines
        BY <1>2, <1>3, <1>4, <2>5, <3>1
      <4>2. ~File!EndsBlock(lines[tomlEnd]) /\ lines[tomlEnd].kind \in File!Headers
              /\ lines[tomlEnd].kind # "noted" /\ ~Bars(lines[tomlEnd])
        BY <1>3, <1>4, <2>4, <3>1, <4>1 DEF Plain
      <4>3. QED
        BY <4>2 DEF File!EndsBlock, File!Headers, Bars
    <3>2. CASE tomlEnd = d
      <4>1. lines[d].kind = "id" /\ d <= Len(lines)
        BY <1>2, <1>8, <2>5
      <4>2. QED
        BY <1>4, <3>2, <4>1 DEF File!Headers
    <3>3. d <= Len(lines) /\ tomlEnd \in Nat
      BY <1>2, <1>4, <2>5
    <3>4. QED
      BY <2>5, <3>1, <3>2, <3>3
  <2>7. d \in toml
    <3>1. d \in i + 1 .. tomlEnd - 1
      BY <1>2, <1>4, <2>5, <2>6
    <3>2. QED
      BY <1>5, <1>8, <2>5, <3>1
  <2>8. File!Min(block) \in block /\ \A j \in block : File!Min(block) <= j
    BY <1>7, <1>9, LeastNumber
  <2>9. File!Min(toml) \in toml /\ \A j \in toml : File!Min(toml) <= j
    BY <1>7, <2>7, LeastNumber
  <2>10. File!Min(toml) \in block
    <3>1. CASE File!Min(toml) = d
      BY <2>5, <3>1
    <3>2. CASE File!Min(toml) < d
      <4>1. File!Min(toml) \in i + 1 .. d - 1 /\ File!Min(toml) \in i + 1 .. end - 1
        BY <1>2, <1>3, <1>4, <1>5, <1>7, <2>5, <2>9, <3>2
      <4>2. lines[File!Min(toml)].kind = "id" /\ ~Bars(lines[File!Min(toml)])
        BY <1>5, <2>4, <2>9, <4>1
      <4>3. QED
        BY <1>5, <4>1, <4>2 DEF Bars
    <3>3. File!Min(toml) <= d /\ File!Min(toml) \in Nat
      BY <1>7, <2>7, <2>9
    <3>4. QED
      BY <2>5, <3>1, <3>2, <3>3
  <2>11. File!Min(block) \in toml
    <3>1. File!Min(block) <= d /\ File!Min(block) \in Nat
      BY <1>7, <2>5, <2>8
    <3>2. File!Min(block) \in i + 1 .. tomlEnd - 1
      BY <1>2, <1>3, <1>4, <1>5, <2>5, <2>6, <2>8, <3>1
    <3>3. QED
      BY <1>5, <1>8, <2>8, <3>2
  <2>12. File!Min(block) = File!Min(toml)
    <3>1. File!Min(block) <= File!Min(toml) /\ File!Min(toml) <= File!Min(block)
      BY <2>8, <2>9, <2>10, <2>11
    <3>2. File!Min(block) \in Nat /\ File!Min(toml) \in Nat
      BY <1>7, <2>8, <2>9
    <3>3. QED
      BY <3>1, <3>2
  <2>13. QED
    BY <1>1, <1>9, <2>7, <2>12 DEF FirstRaw
<1>10. CASE block = {}
  <2>1. CASE toml = {}
    BY <1>1, <1>10, <2>1 DEF FirstRaw
  <2>2. CASE toml # {}
    <3>1. File!Min(toml) \in toml
      BY <1>7, <2>2, LeastNumber
    <3>2. File!Min(toml) \in i + 1 .. end - 1
      BY <1>2, <1>3, <1>4, <1>5, <1>6, <3>1
    <3>3. lines[File!Min(toml)].raw = File!Unseen
      BY <1>5, <1>10, <3>2
    <3>4. QED
      BY <1>1, <1>10, <2>2, <3>3 DEF FirstRaw
  <2>3. QED
    BY <2>1, <2>2
<1>11. QED
  BY <1>9, <1>10

LEMMA FirstOfSome ==
    ASSUME NEW lines \in Seq(File!Line), NEW from \in Nat \ {0}, NEW to \in Int, to <= Len(lines),
             NEW kind,
           Among(lines, from, to, kind) # {}
    PROVE  /\ File!Min(Among(lines, from, to, kind)) \in DOMAIN lines
           /\ lines[File!Min(Among(lines, from, to, kind))] \in File!Line
           /\ lines[File!Min(Among(lines, from, to, kind))].kind = kind
<1> DEFINE S == Among(lines, from, to, kind)
<1>1. Len(lines) \in Nat /\ DOMAIN lines = 1 .. Len(lines)
        /\ lines \in [1 .. Len(lines) -> File!Line]
  BY LenProperties
<1>2. \A j \in S : j \in 1 .. Len(lines) /\ lines[j].kind = kind
  BY <1>1 DEF Among
<1> HIDE DEF S
<1>3. File!Min(S) \in S
  <2>1. S # {} /\ S \subseteq Nat
    BY <1>1, <1>2 DEF S
  <2>2. QED
    BY <2>1, LeastNumber
<1>4. QED
  BY <1>1, <1>2, <1>3 DEF S

\* Where the scan takes an id from a line, TOML reads that id.
Told(lines) == \A i \in DOMAIN lines : lines[i].raw \in Ids => lines[i].raw = lines[i].value

LEMMA SourceIsTold ==
    ASSUME NEW lines \in Seq(File!Line), Told(lines), NEW i \in DOMAIN lines,
           File!TomlSource(lines, i).raw \in Ids
    PROVE  File!TomlSource(lines, i).raw = File!TomlSource(lines, i).id
<1> DEFINE own == Among(lines, i + 1, TomlEnd(lines, i) - 1, "id")
<1>1. File!TomlSource(lines, i).raw = FirstRaw(lines, own)
        /\ File!TomlSource(lines, i).id = FirstValue(lines, own)
  BY TomlSourceParts
<1>2. TomlEnd(lines, i) - 1 \in Int /\ TomlEnd(lines, i) - 1 <= Len(lines)
        /\ i + 1 \in Nat \ {0}
  <2>1. Len(lines) \in Nat /\ DOMAIN lines = 1 .. Len(lines)
    BY LenProperties
  <2>2. QED
    BY <2>1, EndOfSource
<1>3. own # {}
  BY <1>1, FileAssumption DEF FirstRaw, File!ConfigAssumption
<1>4. File!Min(own) \in DOMAIN lines
  BY <1>2, <1>3, FirstOfSome
<1>5. QED
  BY <1>1, <1>3, <1>4 DEF FirstRaw, FirstValue, Told

\* So the blocks are the sources, of a file that is plain.
LEMMA BlocksOfPlain ==
    ASSUME before \in Seq(File!Line), Plain(before), Told(before)
    PROVE  File!BlocksAreSources
<1> DEFINE headers == File!Positions(before, {"[[sources]]", "noted"})
           n == Cardinality(headers)
<1>1. File!Starts(before) = headers
  BY DEF File!Starts, File!Positions, File!HasPath, Plain
<1>2. Len(before) \in Nat /\ DOMAIN before = 1 .. Len(before)
  BY LenProperties
<1>3. headers \in SUBSET (0 .. Len(before))
  BY <1>2 DEF File!Positions
<1>4. DOMAIN File!Ascending(headers) = 1 .. n /\ \A k \in 1 .. n :
        File!Ascending(headers)[k] \in headers
  BY <1>2, <1>3, AscendingMembers
<1>5. \A i \in headers :
        /\ File!BlockId(before, i) = File!TomlSource(before, i).raw
        /\ File!TomlSource(before, i).raw \in Ids =>
             File!TomlSource(before, i).raw = File!TomlSource(before, i).id
  <2>1. \A i \in headers : i \in DOMAIN before /\ before[i].kind = "[[sources]]"
    BY DEF File!Positions, Plain
  <2>2. QED
    BY <2>1, BlockIdIsSourceId, SourceIsTold
<1> HIDE DEF headers, n
<1>6. File!Toml(before) = [k \in 1 .. n |-> File!TomlSource(before, File!Ascending(headers)[k])]
  BY <1>4 DEF File!Toml, headers
<1>7. DOMAIN File!Toml(before) = 1 .. n /\ \A k \in 1 .. n :
        File!Toml(before)[k] = File!TomlSource(before, File!Ascending(headers)[k])
  BY <1>6
<1>8. /\ \A k \in 1 .. n :
           File!BlockId(before, File!Ascending(headers)[k]) = File!Toml(before)[k].raw
      /\ \A k \in 1 .. n :
           File!Toml(before)[k].raw \in Ids => File!Toml(before)[k].raw = File!Toml(before)[k].id
  BY <1>4, <1>5, <1>7
<1> DEFINE found == [k \in 1 .. n |-> File!BlockId(before, File!Ascending(headers)[k])]
<1>9. /\ found = [k \in 1 .. n |-> File!Toml(before)[k].raw]
      /\ \A k \in 1 .. n : found[k] \in Ids => found[k] = File!Toml(before)[k].id
  BY <1>8
<1>10. QED
  BY <1>1, <1>4, <1>7, <1>9 DEF File!BlocksAreSources

LEMMA TomlTypes ==
    ASSUME NEW lines \in Seq(File!Line)
    PROVE  File!Toml(lines) \in Seq(File!Source)
<1> DEFINE headers == File!Positions(lines, {"[[sources]]", "noted"})
           n == Cardinality(headers)
<1>1. Len(lines) \in Nat /\ DOMAIN lines = 1 .. Len(lines)
  BY LenProperties
<1>2. ASSUME NEW i \in DOMAIN lines PROVE File!TomlSource(lines, i) \in File!Source
  <2> DEFINE at(kind) == Among(lines, i + 1, TomlEnd(lines, i) - 1, kind)
  <2>1. TomlEnd(lines, i) - 1 \in Int /\ TomlEnd(lines, i) - 1 <= Len(lines)
          /\ i + 1 \in Nat \ {0}
    BY <1>1, EndOfSource
  <2>2. ASSUME at("id") # {} PROVE FirstValue(lines, at("id")) \in Ids \cup {File!NoValue}
    <3>1. lines[File!Min(at("id"))] \in File!Line /\ lines[File!Min(at("id"))].kind = "id"
      BY <2>1, <2>2, FirstOfSome
    <3>2. QED
      BY <2>2, <3>1, LineKinds DEF FirstValue
  <2>3. ASSUME at("type") # {} PROVE FirstValue(lines, at("type")) \in Types \cup {File!NoValue}
    <3>1. lines[File!Min(at("type"))] \in File!Line /\ lines[File!Min(at("type"))].kind = "type"
      BY <2>1, <2>3, FirstOfSome
    <3>2. QED
      BY <2>3, <3>1, LineKinds DEF FirstValue
  <2>4. /\ FirstValue(lines, at("id")) \in Ids \cup {File!NoValue}
        /\ FirstValue(lines, at("type")) \in Types \cup {File!NoValue}
    <3>1. \A S : S = {} => FirstValue(lines, S) = File!NoValue
      BY DEF FirstValue
    <3>2. QED
      BY <2>2, <2>3, <3>1
  <2>5. FirstRaw(lines, at("id")) \in Ids \cup {File!NoValue, File!Garbled, File!Unseen}
    <3>1. CASE at("id") = {}
      BY <3>1 DEF FirstRaw
    <3>2. CASE at("id") # {}
      <4>1. lines[File!Min(at("id"))] \in File!Line
        BY <2>1, <3>2, FirstOfSome
      <4>2. QED
        BY <3>2, <4>1, LineKinds DEF FirstRaw
    <3>3. QED
      BY <3>1, <3>2
  <2>6. QED
    BY <2>4, <2>5, TomlSourceParts DEF File!Source
<1>3. headers \in SUBSET (0 .. Len(lines)) /\ headers \subseteq DOMAIN lines
  BY <1>1 DEF File!Positions
<1>4. /\ n \in Nat /\ DOMAIN File!Ascending(headers) = 1 .. n
      /\ \A k \in 1 .. n : File!Ascending(headers)[k] \in headers
  BY <1>1, <1>3, AscendingMembers
<1> HIDE DEF headers, n
<1>5. File!Toml(lines) = [k \in 1 .. n |-> File!TomlSource(lines, File!Ascending(headers)[k])]
  BY <1>4 DEF File!Toml, headers
<1>6. \A k \in 1 .. n : File!TomlSource(lines, File!Ascending(headers)[k]) \in File!Source
  BY <1>2, <1>3, <1>4
<1>7. QED
  BY <1>4, <1>5, <1>6

-----------------------------------------------------------------------------
(* What the requests make of a plain file is plain.                        *)

\* Lines a to b - 1 are replaced by others, up to line c - 1 of the new ones.
Replaces(new, lines, a, b, c) ==
    /\ a \in 1 .. Len(lines) + 1 /\ b \in a .. Len(lines) + 1 /\ c \in Nat /\ a <= c
    /\ Len(new) = c + Len(lines) - b
    /\ \A k \in 1 .. a - 1 : new[k] = lines[k]
    /\ \A k \in c .. Len(new) : new[k] = lines[k - c + b]

\* Where the lines from line c on were before: their order and distances stay.
StillBefore(i, h, b, c)    == i - c + b < h - c + b
BackBetween(k, i, h, b, c) ==
    /\ k + c - b \in Int /\ i + 1 <= k + c - b /\ k + c - b <= h
    /\ (k + c - b) - c + b = k

LEMMA StillOrdered ==
    ASSUME NEW i \in Int, NEW h \in Int, NEW b \in Int, NEW c \in Int, i < h
    PROVE  StillBefore(i, h, b, c)
BY DEF StillBefore

LEMMA StillBetween ==
    ASSUME NEW k \in Int, NEW i \in Int, NEW h \in Int, NEW b \in Int, NEW c \in Int,
           (i - c + b) + 1 <= k, k <= h - c + b
    PROVE  BackBetween(k, i, h, b, c)
BY DEF BackBetween

LEMMA BackInPlace ==
    ASSUME NEW k \in Int, NEW b \in Int, NEW c \in Int, NEW m \in Int, NEW n \in Int,
           n = c + m - b, c <= k, k <= n
    PROVE  k - c + b \in b .. m
OBVIOUS

LEMMA ReplacedIsPlain ==
    ASSUME NEW lines \in Seq(File!Line), NEW new \in Seq(File!Line), Plain(lines), NEW a, NEW b,
             NEW c,
           Replaces(new, lines, a, b, c),
           \A k \in a .. c - 1 : new[k].kind # "noted",
           \A i, h \in DOMAIN new :
             /\ h \in a .. c - 1 /\ new[i].kind = "[[sources]]" /\ new[h].raw # File!Unseen
             /\ InBlock(new, i, h)
             => Shows(new, i, h),
           \/ \A k \in b .. Len(lines) : lines[k].raw = File!Unseen
           \/ b <= Len(lines) /\ File!EndsBlock(lines[b])
    PROVE  Plain(new)
<1>1. /\ Len(lines) \in Nat /\ DOMAIN lines = 1 .. Len(lines)
      /\ Len(new) \in Nat /\ DOMAIN new = 1 .. Len(new)
      /\ a \in Nat /\ b \in Nat /\ c \in Nat /\ 1 <= a /\ a <= b /\ b <= Len(lines) + 1 /\ a <= c
      /\ Len(new) = c + Len(lines) - b
  BY LenProperties DEF Replaces
<1>2. \A k \in 1 .. a - 1 : new[k] = lines[k] /\ k \in DOMAIN lines
  BY <1>1 DEF Replaces
<1>3. \A k \in c .. Len(new) : new[k] = lines[k - c + b] /\ k - c + b \in DOMAIN lines
  BY <1>1 DEF Replaces
<1>4. \A k \in DOMAIN new : k \in 1 .. a - 1 \/ k \in a .. c - 1 \/ k \in c .. Len(new)
  BY <1>1
<1>5. \A k \in DOMAIN new : new[k].kind # "noted"
  BY <1>2, <1>3, <1>4 DEF Plain
<1>6. ASSUME NEW i \in DOMAIN new, NEW h \in DOMAIN new,
             new[i].kind = "[[sources]]", new[h].raw # File!Unseen, InBlock(new, i, h)
      PROVE  Shows(new, i, h)
  <2>1. i \in Nat /\ h \in Nat /\ i < h /\ 1 <= i /\ h <= Len(new)
    BY <1>1, <1>6 DEF InBlock
  <2>2. CASE h \in 1 .. a - 1
    <3>1. i \in 1 .. a - 1 /\ \A k \in i + 1 .. h : k \in 1 .. a - 1
      BY <1>1, <2>1, <2>2
    <3>2. InBlock(lines, i, h)
      BY <1>2, <1>6, <3>1 DEF InBlock
    <3>3. PICK d \in i + 1 .. h : lines[d].raw # File!Unseen
                                  /\ \A j \in i + 1 .. d - 1 : ~Bars(lines[j])
      <4>1. Shows(lines, i, h)
        BY <1>2, <1>6, <2>2, <3>1, <3>2 DEF Plain
      <4>2. QED
        BY <4>1 DEF Shows
    <3>4. \A j \in i + 1 .. d - 1 : j \in i + 1 .. h
      BY <2>1
    <3>5. new[d].raw # File!Unseen /\ \A j \in i + 1 .. d - 1 : ~Bars(new[j])
      BY <1>2, <3>1, <3>3, <3>4
    <3>6. QED
      BY <3>5 DEF Shows
  <2>3. CASE h \in c .. Len(new)
    <3> DEFINE from == i - c + b
               at   == h - c + b
    <3>1. from \in Int /\ at \in Int /\ from = i - c + b /\ at = h - c + b
      BY <1>1, <2>1
    <3> HIDE DEF from, at
    <3>2. at \in b .. Len(lines) /\ lines[at].raw # File!Unseen
      <4>1. /\ h \in Int /\ b \in Int /\ c \in Int /\ Len(lines) \in Int /\ Len(new) \in Int
            /\ Len(new) = c + Len(lines) - b /\ c <= h /\ h <= Len(new)
        BY <1>1, <2>1, <2>3
      <4>2. at \in b .. Len(lines)
        BY <3>1, <4>1, BackInPlace
      <4>3. lines[at] = new[h]
        BY <1>3, <2>3, <3>1
      <4>4. QED
        BY <1>6, <4>2, <4>3
    <3>3. b <= Len(lines) /\ File!EndsBlock(lines[b])
      BY <3>2
    <3>4. c \in c .. Len(new) /\ c - c + b = b
      BY <1>1, <3>3
    <3>5. File!EndsBlock(new[c])
      <4>1. new[c] = lines[b]
        BY <1>3, <3>4
      <4>2. QED
        BY <3>3, <4>1
    <3>6. i \in c .. Len(new)
      <4>1. c \notin i + 1 .. h
        BY <1>6, <3>5 DEF InBlock
      <4>2. QED
        BY <1>1, <2>1, <2>3, <4>1
    <3>7. /\ from \in DOMAIN lines /\ at \in DOMAIN lines /\ from < at
          /\ lines[from].kind = "[[sources]]"
      <4>1. new[i] = lines[from] /\ from \in DOMAIN lines
        BY <1>3, <3>1, <3>6
      <4>2. at \in DOMAIN lines
        BY <1>3, <2>3, <3>1
      <4>3. from < at
        <5>1. StillBefore(i, h, b, c)
          <6>1. i \in Int /\ h \in Int /\ b \in Int /\ c \in Int /\ i < h
            BY <1>1, <2>1
          <6>2. QED
            BY <6>1, StillOrdered
        <5>2. QED
          BY <3>1, <5>1 DEF StillBefore
      <4>4. QED
        BY <1>6, <4>1, <4>2, <4>3
    <3>8. \A k \in from + 1 .. at : /\ k + c - b \in i + 1 .. h /\ new[k + c - b] = lines[k]
      <4>1. ASSUME NEW k \in from + 1 .. at
            PROVE  k + c - b \in i + 1 .. h /\ k + c - b \in c .. Len(new)
                     /\ (k + c - b) - c + b = k
        <5>1. c \in Int /\ b \in Int /\ i \in Int /\ h \in Int /\ c <= i /\ h <= Len(new)
          BY <1>1, <2>1, <3>6
        <5>2. k \in Int /\ (i - c + b) + 1 <= k /\ k <= h - c + b
          BY <3>1
        <5>3. BackBetween(k, i, h, b, c)
          BY <5>1, <5>2, StillBetween
        <5> DEFINE m == k + c - b
        <5>4. m \in Int /\ i + 1 <= m /\ m <= h
          BY <5>3 DEF BackBetween
        <5> HIDE DEF m
        <5>5. m \in i + 1 .. h /\ m \in c .. Len(new)
          BY <1>1, <5>1, <5>4
        <5>6. QED
          BY <5>3, <5>5 DEF m, BackBetween
      <4>2. QED
        BY <1>3, <4>1
    <3>9. InBlock(lines, from, at)
      BY <1>6, <3>7, <3>8 DEF InBlock
    <3>10. PICK d \in from + 1 .. at : lines[d].raw # File!Unseen
                                        /\ \A j \in from + 1 .. d - 1 : ~Bars(lines[j])
      <4>1. Shows(lines, from, at)
        BY <3>2, <3>7, <3>9 DEF Plain
      <4>2. QED
        BY <4>1 DEF Shows
    <3> DEFINE e == d + c - b
    <3>11. e \in i + 1 .. h /\ new[e] = lines[d] /\ e = d + c - b
      BY <3>8
    <3> HIDE DEF e
    <3>12. ASSUME NEW j \in i + 1 .. e - 1 PROVE ~Bars(new[j])
      <4>1. j \in c .. Len(new) /\ j \in Int
        BY <1>1, <2>1, <3>6, <3>11
      <4>2. j - c + b \in from + 1 .. d - 1
        <5>1. \A w, x, y, z \in Int, g \in Int :
                w + 1 <= g /\ g <= (x + y - z) - 1
                => g - y + z \in Int /\ (w - y + z) + 1 <= g - y + z /\ g - y + z <= x - 1
          OBVIOUS
        <5>2. c \in Int /\ b \in Int /\ i \in Int /\ d \in Int
          BY <1>1, <2>1, <3>1
        <5>3. i + 1 <= j /\ j <= (d + c - b) - 1
          BY <2>1, <3>11, <4>1
        <5>4. j - c + b \in Int /\ from + 1 <= j - c + b /\ j - c + b <= d - 1
          BY <3>1, <4>1, <5>1, <5>2, <5>3
        <5>5. QED
          BY <3>1, <5>2, <5>4
      <4>3. QED
        BY <1>3, <3>10, <4>1, <4>2
    <3>13. QED
      BY <3>10, <3>11, <3>12 DEF Shows
  <2>4. CASE h \in a .. c - 1
    BY <1>6, <2>4
  <2>5. QED
    BY <1>4, <2>2, <2>3, <2>4
<1>7. QED
  BY <1>5, <1>6 DEF Plain

\* The lines that come about by cutting out some and putting in others.
Splice(lines, a, middle, b) == SubSeq(lines, 1, a - 1) \o middle \o SubSeq(lines, b, Len(lines))

LEMMA Spliced ==
    ASSUME NEW lines \in Seq(File!Line), NEW middle \in Seq(File!Line),
           NEW a \in 1 .. Len(lines) + 1, NEW b \in a .. Len(lines) + 1
    PROVE  /\ Splice(lines, a, middle, b) \in Seq(File!Line)
           /\ Replaces(Splice(lines, a, middle, b), lines, a, b, a + Len(middle))
           /\ \A k \in a .. a + Len(middle) - 1 :
                Splice(lines, a, middle, b)[k] = middle[k - a + 1]
<1> DEFINE new   == Splice(lines, a, middle, b)
           first == SubSeq(lines, 1, a - 1)
           last  == SubSeq(lines, b, Len(lines))
           start == first \o middle
<1>1. /\ Len(lines) \in Nat /\ Len(middle) \in Nat /\ a \in Nat /\ b \in Nat
      /\ 1 <= a /\ a <= b /\ b <= Len(lines) + 1 /\ lines \in [1 .. Len(lines) -> File!Line]
  BY LenProperties
<1>2. /\ first \in Seq(File!Line) /\ Len(first) = a - 1
      /\ \A k \in 1 .. a - 1 : first[k] = lines[k]
  <2>1. /\ \A k \in 1 .. a - 1 : lines[k] \in File!Line
        /\ 1 \in Int /\ a - 1 \in Int
    BY <1>1
  <2>2. /\ first \in Seq(File!Line) /\ Len(first) = IF 1 <= a - 1 THEN (a - 1) - 1 + 1 ELSE 0
        /\ \A k \in 1 .. (a - 1) - 1 + 1 : first[k] = lines[1 + k - 1]
    BY <2>1, SubSeqProperties
  <2>3. (a - 1) - 1 + 1 = a - 1 /\ \A k \in 1 .. a - 1 : 1 + k - 1 = k
    BY <1>1
  <2> HIDE DEF first
  <2>4. QED
    BY <1>1, <2>2, <2>3
<1>3. /\ last \in Seq(File!Line) /\ Len(last) = Len(lines) - b + 1
      /\ \A k \in 1 .. Len(lines) - b + 1 : last[k] = lines[b + k - 1]
  <2>1. /\ \A k \in b .. Len(lines) : lines[k] \in File!Line
        /\ b \in Int /\ Len(lines) \in Int
    BY <1>1
  <2>2. /\ last \in Seq(File!Line) /\ Len(last) = IF b <= Len(lines) THEN Len(lines) - b + 1
             ELSE 0
        /\ \A k \in 1 .. Len(lines) - b + 1 : last[k] = lines[b + k - 1]
    BY <2>1, SubSeqProperties
  <2> HIDE DEF last
  <2>3. QED
    BY <1>1, <2>2
<1> HIDE DEF first, last
<1>4. /\ start \in Seq(File!Line) /\ Len(start) = a - 1 + Len(middle)
      /\ \A k \in 1 .. a - 1 + Len(middle) : start[k] = IF k <= a - 1 THEN first[k]
           ELSE middle[k - (a - 1)]
  <2>1. /\ start \in Seq(File!Line) /\ Len(start) = Len(first) + Len(middle)
        /\ \A k \in 1 .. Len(first) + Len(middle) :
             start[k] = IF k <= Len(first) THEN first[k] ELSE middle[k - Len(first)]
    BY <1>2, ConcatProperties
  <2> HIDE DEF start
  <2>2. QED
    BY <1>2, <2>1
<1> HIDE DEF start
<1>5. /\ start \o last \in Seq(File!Line) /\ Len(start \o last) = Len(start) + Len(last)
      /\ \A k \in 1 .. Len(start) + Len(last) :
           (start \o last)[k] = IF k <= Len(start) THEN start[k] ELSE last[k - Len(start)]
  BY <1>3, <1>4, ConcatProperties
<1>6. new = start \o last
  BY DEF start, first, last, Splice
<1> HIDE DEF new
<1>7. Len(new) = a + Len(middle) + Len(lines) - b
  <2>1. Len(new) = (a - 1 + Len(middle)) + (Len(lines) - b + 1)
    BY <1>3, <1>4, <1>5, <1>6
  <2>2. a \in Nat /\ b \in Nat /\ Len(middle) \in Nat /\ Len(lines) \in Nat
    BY <1>1
  <2>3. \A n : n = (a - 1 + Len(middle)) + (Len(lines) - b + 1)
             => n = a + Len(middle) + Len(lines) - b
    BY <2>2
  <2>4. QED
    BY <2>1, <2>3, Zenon
<1>8. ASSUME NEW k \in 1 .. a - 1 PROVE new[k] = lines[k]
  <2>1. k \in 1 .. Len(start) + Len(last) /\ k <= Len(start) /\ k <= a - 1
          /\ k \in 1 .. a - 1 + Len(middle)
    BY <1>1, <1>3, <1>4
  <2>2. QED
    BY <1>2, <1>4, <1>5, <1>6, <2>1
<1>9. ASSUME NEW k \in a .. a + Len(middle) - 1 PROVE new[k] = middle[k - a + 1]
  <2>1. /\ k \in 1 .. Len(start) + Len(last) /\ k <= Len(start) /\ ~(k <= a - 1)
        /\ k \in 1 .. a - 1 + Len(middle) /\ k - (a - 1) = k - a + 1
    BY <1>1, <1>3, <1>4
  <2>2. QED
    BY <1>4, <1>5, <1>6, <2>1
<1>10. ASSUME NEW k \in a + Len(middle) .. Len(new)
       PROVE  new[k] = lines[k - (a + Len(middle)) + b]
  <2>1. /\ k \in 1 .. Len(start) + Len(last) /\ ~(k <= Len(start))
        /\ k - Len(start) \in 1 .. Len(lines) - b + 1
        /\ b + (k - Len(start)) - 1 = k - (a + Len(middle)) + b
    <3>1. Len(start) = a - 1 + Len(middle) /\ Len(last) = Len(lines) - b + 1
      BY <1>3, <1>4
    <3>2. k \in Nat /\ a + Len(middle) <= k /\ k <= a + Len(middle) + Len(lines) - b
      <4>1. k \in a + Len(middle) .. a + Len(middle) + Len(lines) - b
        BY <1>7
      <4>2. \A p, q, r, s \in Nat : \A x \in p + q .. p + q + r - s :
              x \in Nat /\ p + q <= x /\ x <= p + q + r - s
        OBVIOUS
      <4>3. QED
        BY <1>1, <4>1, <4>2
    <3>3. QED
      BY <1>1, <3>1, <3>2
  <2>2. QED
    BY <1>3, <1>5, <1>6, <2>1
<1>11. QED
  <2>1. new \in Seq(File!Line)
    BY <1>5, <1>6
  <2>2. a + Len(middle) \in Nat /\ a <= a + Len(middle)
    BY <1>1
  <2>3. Replaces(new, lines, a, b, a + Len(middle))
    BY <1>7, <1>8, <1>10, <2>2 DEF Replaces
  <2>4. QED
    BY <1>9, <2>1, <2>3 DEF new

LEMMA FormattedLines ==
    ASSUME NEW s \in NewSources
    PROVE  /\ File!Format(s) \in Seq(File!Line)
           /\ \/ Len(File!Format(s)) = 4 /\ s.complete = FALSE
              \/ Len(File!Format(s)) = 5 /\ s.complete = TRUE
                   /\ File!Format(s)[5] = File!L("fields")
           /\ File!Format(s)[1] = File!L("blank") /\ File!Format(s)[2] = File!L("[[sources]]")
           /\ File!Format(s)[3] = File!IdLine(s.id)
                /\ File!Format(s)[4] = File!KV("type", s.type)
<1> DEFINE four == <<File!L("blank"), File!L("[[sources]]"), File!IdLine(s.id),
  File!KV("type", s.type)>>
           rest == IF s.complete THEN <<File!L("fields")>> ELSE <<>>
<1>1. /\ s \in File!Description /\ s.id \in Ids /\ s.complete \in BOOLEAN
      /\ Decoded[s.id] \in Ids \cup {File!NoValue} /\ Captured[s.id] \in Ids \cup {File!Garbled}
  BY FileAssumption DEF File!ConfigAssumption, File!Description
<1>2. /\ File!L("blank") \in File!Line /\ File!L("[[sources]]") \in File!Line
           /\ File!L("fields") \in File!Line
      /\ File!IdLine(s.id) \in File!Line /\ File!KV("type", s.type) \in File!Line
  BY <1>1 DEF File!L, File!KV, File!IdLine, File!Line, File!Kinds, File!Description
<1>3. four \in Seq(File!Line) /\ Len(four) = 4
  BY <1>2
<1>4. /\ rest \in Seq(File!Line) /\ Len(rest) = IF s.complete THEN 1 ELSE 0
      /\ s.complete => rest[1] = File!L("fields")
  <2>1. <<File!L("fields")>> \in Seq(File!Line) /\ <<>> \in Seq(File!Line)
    BY <1>2
  <2>2. QED
    BY <2>1
<1>5. /\ four[1] = File!L("blank") /\ four[2] = File!L("[[sources]]")
      /\ four[3] = File!IdLine(s.id) /\ four[4] = File!KV("type", s.type)
  OBVIOUS
<1>6. File!Format(s) = four \o rest
  BY DEF File!Format
<1> HIDE DEF four, rest
<1>7. /\ four \o rest \in Seq(File!Line) /\ Len(four \o rest) = Len(four) + Len(rest)
      /\ \A k \in 1 .. Len(four) + Len(rest) :
           (four \o rest)[k] = IF k <= Len(four) THEN four[k] ELSE rest[k - Len(four)]
  BY <1>3, <1>4, ConcatProperties
<1> HIDE DEF File!Format
<1>8. /\ File!Format(s) \in Seq(File!Line) /\ Len(File!Format(s)) = 4 + Len(rest)
      /\ \A k \in 1 .. 4 + Len(rest) : File!Format(s)[k] = IF k <= 4 THEN four[k] ELSE rest[k - 4]
  BY <1>3, <1>6, <1>7
<1>9. /\ Len(File!Format(s)) = IF s.complete THEN 5 ELSE 4
      /\ \A k \in 1 .. 4 : File!Format(s)[k] = four[k]
      /\ s.complete => File!Format(s)[5] = rest[1]
  BY <1>4, <1>8
<1>10. QED
  BY <1>1, <1>4, <1>5, <1>8, <1>9

\* The id line of what a request writes.
IsDump(line) ==
    line.raw # File!Unseen /\ \E id \in Ids : line.raw = Captured[id] /\ line.value = Decoded[id]

\* Lines a to c - 1 of new are the block of a source, or none.
PutsIn(new, a, c) ==
    \/ c = a
    \/ /\ c \in a + 4 .. a + 5
       /\ new[a].kind = "blank" /\ new[a + 1].kind = "[[sources]]"
       /\ new[a + 2].kind = "id" /\ IsDump(new[a + 2])
       /\ \A k \in a + 3 .. c - 1 : new[k].kind \in {"type", "fields"}

LEMMA PutInBlock ==
    ASSUME NEW new, NEW a \in Nat, NEW c, PutsIn(new, a, c), c # a
    PROVE  /\ c \in a + 4 .. a + 5 /\ new[a].kind = "blank" /\ new[a + 1].kind = "[[sources]]"
           /\ \A k \in a + 2 .. c - 1 : new[k].kind \in {"id", "type", "fields"}
<1>1. /\ c \in a + 4 .. a + 5 /\ new[a].kind = "blank" /\ new[a + 1].kind = "[[sources]]"
      /\ new[a + 2].kind = "id"
      /\ \A k \in a + 3 .. c - 1 : new[k].kind \in {"type", "fields"}
  BY DEF PutsIn
<1>2. \A k \in a + 2 .. c - 1 : k = a + 2 \/ k \in a + 3 .. c - 1
  BY <1>1
<1>3. QED
  BY <1>1, <1>2

\* Lines a to b - 1 are a block, with the blank line above it perhaps, or none.
TakesOut(lines, a, b) ==
    \/ b = a
    \/ \E at \in {a, a + 1} :
         /\ at < b /\ lines[at].kind = "[[sources]]" /\ (at = a + 1 => lines[a].kind = "blank")
         /\ \A k \in at + 1 .. b - 1 : ~File!EndsBlock(lines[k])

\* What comes from line b is a section of its own, or blank.
Closes(lines, b) ==
    \/ \A k \in b .. Len(lines) : lines[k].kind = "blank"
    \/ b <= Len(lines) /\ File!EndsBlock(lines[b])

Edits(new, lines, a, b, c) ==
    Replaces(new, lines, a, b, c) /\ PutsIn(new, a, c) /\ TakesOut(lines, a, b)
      /\ Closes(lines, b)

LEMMA EditedIsPlain ==
    ASSUME NEW lines \in Seq(File!Line), NEW new \in Seq(File!Line), Plain(lines), NEW a, NEW b,
             NEW c,
           Edits(new, lines, a, b, c)
    PROVE  Plain(new)
<1>1. Replaces(new, lines, a, b, c) /\ PutsIn(new, a, c) /\ Closes(lines, b) /\ a \in Nat
  BY LenProperties DEF Edits, Replaces
<1>2. /\ Len(lines) \in Nat /\ DOMAIN lines = 1 .. Len(lines) /\ DOMAIN new = 1 .. Len(new)
      /\ Len(new) \in Nat
      /\ \A k \in DOMAIN lines : lines[k].raw # File!Unseen => lines[k].kind = "id"
      /\ \A k \in DOMAIN new : new[k].raw # File!Unseen => new[k].kind = "id"
  <2>1. /\ Len(lines) \in Nat /\ DOMAIN lines = 1 .. Len(lines) /\ DOMAIN new = 1 .. Len(new)
        /\ Len(new) \in Nat
        /\ \A k \in DOMAIN lines : lines[k] \in File!Line
        /\ \A k \in DOMAIN new : new[k] \in File!Line
    BY LenProperties
  <2>2. QED
    BY <2>1, LineKinds
<1>3. \A k \in a .. c - 1 : c # a /\ (k = a \/ k = a + 1 \/ k = a + 2 \/ k \in a + 3 .. c - 1)
  BY <1>1 DEF Replaces
<1>4. \A k \in a .. c - 1 : new[k].kind # "noted"
  BY <1>1, <1>3 DEF PutsIn
\* The id line of the block is its first.
<1>5. ASSUME NEW i \in DOMAIN new, NEW h \in DOMAIN new, h \in a .. c - 1,
             new[i].kind = "[[sources]]", new[h].raw # File!Unseen, InBlock(new, i, h)
      PROVE  Shows(new, i, h)
  <2>1. c # a /\ new[h].kind = "id"
    BY <1>2, <1>3, <1>5
  <2>2. /\ new[a].kind = "blank" /\ new[a + 1].kind = "[[sources]]" /\ IsDump(new[a + 2])
        /\ \A k \in a + 3 .. c - 1 : new[k].kind \in {"type", "fields"}
    BY <1>1, <2>1 DEF PutsIn
  <2>3. h = a + 2
    BY <1>3, <1>5, <2>1, <2>2
  <2>4. i < h /\ i \in Nat /\ ~(i < a + 1) /\ i # a
    <3>1. i < h /\ \A j \in i + 1 .. h : ~File!EndsBlock(new[j])
      BY <1>5 DEF InBlock
    <3>2. File!EndsBlock(new[a + 1])
      BY <2>2 DEF File!EndsBlock
    <3>3. i \in Nat
      BY <1>2
    <3>4. QED
      BY <1>1, <1>5, <2>2, <2>3, <3>1, <3>2, <3>3
  <2>5. i = a + 1
    BY <1>1, <2>3, <2>4
  <2>6. h \in i + 1 .. h /\ i + 1 .. h - 1 = {}
    BY <1>1, <2>3, <2>5
  <2>7. QED
    BY <1>5, <2>6 DEF Shows
<1>6. \/ \A k \in b .. Len(lines) : lines[k].raw = File!Unseen
      \/ b <= Len(lines) /\ File!EndsBlock(lines[b])
  <2>1. CASE \A k \in b .. Len(lines) : lines[k].kind = "blank"
    <3>1. b .. Len(lines) \subseteq DOMAIN lines
      BY <1>1, <1>2 DEF Replaces
    <3>2. QED
      BY <1>2, <2>1, <3>1
  <2>2. QED
    BY <1>1, <2>1 DEF Closes
<1>7. QED
  BY <1>1, <1>4, <1>5, <1>6, ReplacedIsPlain

\* No two ids have texts of which the scan takes one for the other.
IdsAreTheirOwn == \A id \in Ids : Captured[id] \in Ids => Captured[id] = Decoded[id]

LEMMA EditedIsTold ==
    ASSUME NEW lines \in Seq(File!Line), NEW new \in Seq(File!Line), NEW a, NEW b, NEW c,
           Edits(new, lines, a, b, c), IdsAreTheirOwn, Told(lines)
    PROVE  Told(new)
<1>1. Replaces(new, lines, a, b, c) /\ PutsIn(new, a, c) /\ a \in Nat
  BY LenProperties DEF Edits, Replaces
<1>2. /\ Len(lines) \in Nat /\ DOMAIN lines = 1 .. Len(lines)
      /\ Len(new) \in Nat /\ DOMAIN new = 1 .. Len(new)
      /\ \A k \in DOMAIN new : new[k] \in File!Line
  BY LenProperties
<1>3. ASSUME NEW k \in DOMAIN new, new[k].raw \in Ids PROVE new[k].raw = new[k].value
  <2>1. CASE k \in 1 .. a - 1
    BY <1>1, <1>2, <1>3, <2>1 DEF Replaces, Told
  <2>2. CASE k \in c .. Len(new)
    <3>1. new[k] = lines[k - c + b] /\ k - c + b \in DOMAIN lines
      BY <1>1, <1>2, <2>2 DEF Replaces
    <3>2. QED
      BY <1>3, <3>1 DEF Told
  <2>3. CASE k \in a .. c - 1
    <3>1. c # a /\ (k = a \/ k = a + 1 \/ k = a + 2 \/ k \in a + 3 .. c - 1)
      BY <1>1, <2>3 DEF Replaces
    <3>2. new[k].kind = "id"
      <4>1. new[k].raw # File!Unseen
        BY <1>3, FileAssumption DEF File!ConfigAssumption
      <4>2. QED
        BY <1>2, <4>1, LineKinds
    <3>3. k = a + 2 /\ IsDump(new[k])
      BY <1>1, <3>1, <3>2 DEF PutsIn
    <3>4. QED
      BY <1>3, <3>3 DEF IsDump, IdsAreTheirOwn
  <2>4. QED
    BY <1>1, <1>2, <2>1, <2>2, <2>3 DEF Replaces
<1>4. QED
  BY <1>3 DEF Told

\* The lines of new, where those from a to b - 1 of lines are replaced by a block.
LEMMA BlockPutIn ==
    ASSUME NEW lines \in Seq(File!Line), NEW s \in NewSources,
           NEW a \in 1 .. Len(lines) + 1, NEW b \in a .. Len(lines) + 1,
           TakesOut(lines, a, b), Closes(lines, b)
    PROVE  LET new == Splice(lines, a, File!Format(s), b) IN
           /\ new \in Seq(File!Line) /\ Edits(new, lines, a, b, a + Len(File!Format(s)))
           /\ \A k \in 1 .. Len(File!Format(s)) : new[a + k - 1] = File!Format(s)[k]
<1> DEFINE middle == File!Format(s)
           new == Splice(lines, a, middle, b)
<1>1. /\ middle \in Seq(File!Line) /\ Len(middle) \in {4, 5}
      /\ middle[1].kind = "blank" /\ middle[2].kind = "[[sources]]"
      /\ middle[3].kind = "id" /\ IsDump(middle[3])
      /\ middle[4].kind = "type" /\ (Len(middle) = 5 => middle[5].kind = "fields")
  <2>1. /\ middle \in Seq(File!Line) /\ (Len(middle) = 4
             \/ (Len(middle) = 5 /\ middle[5] = File!L("fields")))
        /\ middle[1] = File!L("blank") /\ middle[2] = File!L("[[sources]]")
        /\ middle[3] = File!IdLine(s.id) /\ middle[4] = File!KV("type", s.type)
    BY FormattedLines
  <2>2. (\A kind : File!L(kind).kind = kind) /\ \A kind, v : File!KV(kind, v).kind = kind
    BY DEF File!L, File!KV
  <2>3. File!IdLine(s.id).kind = "id" /\ IsDump(File!IdLine(s.id))
    <3>1. s.id \in Ids /\ Captured[s.id] # File!Unseen
      BY FileAssumption DEF File!ConfigAssumption, File!Description, File!Garbled, File!Unseen
    <3>2. QED
      BY <3>1 DEF File!IdLine, IsDump
  <2> HIDE DEF middle
  <2>4. /\ middle[1].kind = "blank" /\ middle[2].kind = "[[sources]]"
        /\ middle[3].kind = "id" /\ IsDump(middle[3]) /\ middle[4].kind = "type"
        /\ middle[5] = File!L("fields") => middle[5].kind = "fields"
    BY <2>1, <2>2, <2>3
  <2>5. Len(middle) \in {4, 5} /\ (Len(middle) = 5 => middle[5] = File!L("fields"))
    BY <2>1
  <2>6. QED
    BY <2>1, <2>4, <2>5
<1> HIDE DEF middle
<1>2. /\ new \in Seq(File!Line) /\ Replaces(new, lines, a, b, a + Len(middle))
      /\ \A k \in a .. a + Len(middle) - 1 : new[k] = middle[k - a + 1]
  BY <1>1, Spliced
<1> HIDE DEF new
<1>3. a \in Nat
  BY LenProperties
<1>4. ASSUME NEW k \in 1 .. Len(middle) PROVE new[a + k - 1] = middle[k]
  <2>1. a + k - 1 \in a .. a + Len(middle) - 1 /\ (a + k - 1) - a + 1 = k
    BY <1>1, <1>3
  <2>2. QED
    BY <1>2, <2>1
<1>5. /\ new[a] = middle[1] /\ new[a + 1] = middle[2] /\ new[a + 2] = middle[3]
      /\ new[a + 3] = middle[4] /\ (Len(middle) = 5 => new[a + 4] = middle[5])
  <2>1. /\ a + 1 - 1 = a /\ a + 2 - 1 = a + 1 /\ a + 3 - 1 = a + 2
        /\ a + 4 - 1 = a + 3 /\ a + 5 - 1 = a + 4
    BY <1>3
  <2>2. /\ 1 \in 1 .. Len(middle) /\ 2 \in 1 .. Len(middle) /\ 3 \in 1 .. Len(middle)
        /\ 4 \in 1 .. Len(middle) /\ (Len(middle) = 5 => 5 \in 1 .. Len(middle))
    BY <1>1
  <2>3. /\ new[a + 1 - 1] = middle[1] /\ new[a + 2 - 1] = middle[2] /\ new[a + 3 - 1] = middle[3]
        /\ new[a + 4 - 1] = middle[4] /\ (Len(middle) = 5 => new[a + 5 - 1] = middle[5])
    BY <1>4, <2>2
  <2>4. QED
    BY <2>1, <2>3
<1>6. PutsIn(new, a, a + Len(middle))
  <2> DEFINE n == Len(middle)
  <2>1. n \in {4, 5}
    BY <1>1
  <2> HIDE DEF n
  <2>2. /\ a + n \in a + 4 .. a + 5
        /\ \A k \in a + 3 .. a + n - 1 : k = a + 3 \/ (k = a + 4 /\ n = 5)
    BY <1>3, <2>1
  <2>3. /\ new[a].kind = "blank" /\ new[a + 1].kind = "[[sources]]"
        /\ new[a + 2].kind = "id" /\ IsDump(new[a + 2])
        /\ new[a + 3].kind = "type" /\ (n = 5 => new[a + 4].kind = "fields")
    BY <1>1, <1>5 DEF n
  <2>4. \A k \in a + 3 .. a + n - 1 : new[k].kind \in {"type", "fields"}
    BY <2>2, <2>3
  <2>5. \A c : c = a + n => PutsIn(new, a, c)
    <3>1. ASSUME NEW c, c = a + n PROVE PutsIn(new, a, c)
      <4>1. c \in a + 4 .. a + 5 /\ \A k \in a + 3 .. c - 1 :
              new[k].kind \in {"type", "fields"}
        <5>1. c - 1 = a + n - 1 /\ c \in a + 4 .. a + 5
          BY <1>3, <2>1, <3>1
        <5>2. QED
          BY <2>4, <5>1
      <4>2. QED
        BY <2>3, <4>1, Zenon DEF PutsIn
    <3>2. QED
      BY <3>1
  <2>6. QED
    BY <2>5, Zenon DEF n
<1>7. QED
  BY <1>2, <1>4, <1>6 DEF Edits, new, middle

LEMMA StartsAreLines ==
    ASSUME NEW lines \in Seq(File!Line)
    PROVE  /\ Len(lines) \in Nat /\ File!Starts(lines) \subseteq 1 .. Len(lines)
           /\ DOMAIN lines = 1 .. Len(lines)
           /\ File!Starts(lines) \subseteq Nat /\ File!Starts(lines) \in SUBSET (0 .. Len(lines))
<1>1. Len(lines) \in Nat /\ DOMAIN lines = 1 .. Len(lines)
  BY LenProperties
<1>2. File!Starts(lines) \subseteq 1 .. Len(lines)
  BY <1>1 DEF File!Starts
<1>3. QED
  BY <1>1, <1>2

\* The blank lines at the end, or the end of the last block.
LEMMA WrittenEdits ==
    ASSUME NEW lines \in Seq(File!Line), NEW s \in NewSources
    PROVE  LET at == File!NewBlockAt(lines) IN
           /\ at \in 1 .. Len(lines) + 1 /\ Closes(lines, at)
                /\ \A i \in File!Starts(lines) : i < at
           /\ File!Written(lines, s) = Splice(lines, at, File!Format(s), at)
<1> DEFINE at == File!NewBlockAt(lines)
<1>1. /\ Len(lines) \in Nat /\ File!Starts(lines) \in SUBSET (0 .. Len(lines))
      /\ File!Starts(lines) \subseteq 1 .. Len(lines) /\ DOMAIN lines = 1 .. Len(lines)
  BY StartsAreLines
<1>2. /\ at \in 1 .. Len(lines) + 1
      /\ Closes(lines, at)
      /\ \A i \in File!Starts(lines) : i < at
  <2>1. CASE File!Starts(lines) # {}
    <3>1. File!Max(File!Starts(lines)) \in File!Starts(lines)
            /\ \A k \in File!Starts(lines) : k <= File!Max(File!Starts(lines))
      BY <1>1, <2>1, GreatestNumber
    <3> DEFINE i == File!Max(File!Starts(lines))
    <3>2. i \in DOMAIN lines /\ at = File!End(lines, i)
      BY <1>1, <2>1, <3>1 DEF File!NewBlockAt
    <3> HIDE DEF i, at
    <3>3. at \in i + 1 .. Len(lines) + 1 /\ (at <= Len(lines) => File!EndsBlock(lines[at]))
      BY <3>2, EndOfBlock
    <3>4. at \in 1 .. Len(lines) + 1 /\ (~(at <= Len(lines)) => at .. Len(lines) = {})
      BY <1>1, <3>2, <3>3
    <3>5. \A k \in File!Starts(lines) : k < at
      <4>1. \A k \in File!Starts(lines) : k \in Nat /\ k <= i
        BY <1>1, <3>1 DEF i
      <4>2. i \in Nat /\ at \in Nat /\ i < at
        BY <1>1, <3>2, <3>3
      <4>3. QED
        BY <4>1, <4>2
    <3>6. QED
      BY <3>3, <3>4, <3>5 DEF Closes
  <2>2. CASE File!Starts(lines) = {}
    <3> DEFINE S == {j \in DOMAIN lines : lines[j].kind # "blank"} \cup {0}
    <3>1. S \in SUBSET (0 .. Len(lines)) /\ S # {}
      BY <1>1
    <3>2. File!LastNonBlank(lines) \in 0 .. Len(lines)
            /\ \A j \in S : j <= File!LastNonBlank(lines)
      <4>1. File!LastNonBlank(lines) = File!Max(S)
        BY DEF File!LastNonBlank
      <4> HIDE DEF S
      <4>2. File!Max(S) \in S /\ \A j \in S : j <= File!Max(S)
        BY <1>1, <3>1, GreatestNumber
      <4>3. QED
        BY <3>1, <4>1, <4>2
    <3>3. at = File!LastNonBlank(lines) + 1
      BY <2>2 DEF File!NewBlockAt
    <3>4. ASSUME NEW k \in at .. Len(lines) PROVE lines[k].kind = "blank"
      <4>1. k \in DOMAIN lines /\ ~(k <= File!LastNonBlank(lines))
        BY <1>1, <3>2, <3>3
      <4>2. k \notin S
        BY <3>2, <4>1
      <4>3. QED
        BY <4>1, <4>2
    <3>5. QED
      BY <1>1, <2>2, <3>2, <3>3, <3>4 DEF Closes
  <2>3. QED
    BY <2>1, <2>2
<1>3. File!Written(lines, s) = Splice(lines, at, File!Format(s), at)
  BY DEF File!Written, Splice
<1>4. QED
  BY <1>2, <1>3

\* The first block of an id.
LEMMA FirstTarget ==
    ASSUME NEW lines \in Seq(File!Line), NEW id, File!Targets(lines, id) # {}
    PROVE  LET at == File!Min(File!Targets(lines, id))
               end == File!End(lines, at)
           IN  /\ at \in 1 .. Len(lines) /\ at \in DOMAIN lines
               /\ end \in at + 1 .. Len(lines) + 1
               /\ lines[at].kind = "[[sources]]"
                    /\ \A k \in at + 1 .. end - 1 : ~File!EndsBlock(lines[k])
               /\ TakesOut(lines, at, end) /\ Closes(lines, end)
<1> DEFINE at  == File!Min(File!Targets(lines, id))
           end == File!End(lines, at)
<1>1. /\ Len(lines) \in Nat /\ File!Starts(lines) \subseteq Nat
      /\ File!Starts(lines) \subseteq 1 .. Len(lines) /\ DOMAIN lines = 1 .. Len(lines)
  BY StartsAreLines
<1>2. File!Targets(lines, id) \subseteq File!Starts(lines)
  BY DEF File!Targets
<1>3. at \in File!Targets(lines, id)
  BY <1>1, <1>2, LeastNumber
<1>4. at \in 1 .. Len(lines) /\ at \in DOMAIN lines
  BY <1>1, <1>2, <1>3
<1> HIDE DEF at
<1>5. /\ end \in at + 1 .. Len(lines) + 1 /\ (end <= Len(lines) => File!EndsBlock(lines[end]))
      /\ \A k \in at + 1 .. end - 1 : ~File!EndsBlock(lines[k])
  BY <1>4, EndOfBlock
<1> HIDE DEF end
<1>6. ~(end <= Len(lines)) => end .. Len(lines) = {}
  BY <1>1, <1>4, <1>5
<1>7. Closes(lines, end)
  BY <1>5, <1>6 DEF Closes
<1>8. TakesOut(lines, at, end)
  <2>1. at \in Nat /\ at < end /\ lines[at].kind = "[[sources]]" /\ at # at + 1
    BY <1>1, <1>4, <1>5, <1>2, <1>3 DEF File!Starts, at
  <2>2. QED
    BY <1>5, <2>1 DEF TakesOut
<1>9. lines[at].kind = "[[sources]]"
  BY <1>2, <1>3 DEF File!Starts, at
<1>10. QED
  BY <1>4, <1>5, <1>7, <1>8, <1>9 DEF at, end

LEMMA UpdatedEdits ==
    ASSUME NEW lines \in Seq(File!Line), NEW s \in NewSources, File!Targets(lines, s.id) # {}
    PROVE  LET at == File!Min(File!Targets(lines, s.id))
               new == File!Updated(lines, s)
           IN  new = Splice(lines, at, File!Format(s), File!End(lines, at))
BY DEF File!Updated, Splice

\* The first block of an id is taken out, with the blank line above it.
LEMMA RemovedEdits ==
    ASSUME NEW lines \in Seq(File!Line), NEW id, File!Targets(lines, id) # {}
    PROVE  LET at   == File!Min(File!Targets(lines, id))
               from == IF at > 1 /\ lines[at - 1].kind = "blank" THEN at - 1 ELSE at
               new  == File!Removed(lines, id)
           IN  /\ from \in 1 .. at /\ (from # at => from = at - 1 /\ lines[from].kind = "blank")
               /\ new \in Seq(File!Line) /\ Edits(new, lines, from, File!End(lines, at), from)
<1> DEFINE at   == File!Min(File!Targets(lines, id))
           end  == File!End(lines, at)
           from == IF at > 1 /\ lines[at - 1].kind = "blank" THEN at - 1 ELSE at
           first == SubSeq(lines, 1, from - 1)
<1>1. /\ at \in 1 .. Len(lines) /\ end \in at + 1 .. Len(lines) + 1
      /\ lines[at].kind = "[[sources]]" /\ \A k \in at + 1 .. end - 1 : ~File!EndsBlock(lines[k])
      /\ TakesOut(lines, at, end) /\ Closes(lines, end)
  BY FirstTarget
<1>2. File!Removed(lines, id) = first \o SubSeq(lines, end, Len(lines))
  BY DEF File!Removed, File!Cut
<1>3. Len(lines) \in Nat /\ lines \in [1 .. Len(lines) -> File!Line]
  BY LenProperties
<1> HIDE DEF at, end
<1>4. from \in 1 .. Len(lines) + 1 /\ end \in from .. Len(lines) + 1
  BY <1>1, <1>3
<1>5. /\ from \in 1 .. at /\ (from # at => from = at - 1 /\ lines[from].kind = "blank")
  BY <1>1, <1>3
<1>6. TakesOut(lines, from, end)
  <2>1. CASE from = at
    BY <1>1, <2>1
  <2>2. CASE from # at
    <3>1. at \in Nat /\ at # at + 1 /\ at = from + 1 /\ from < end /\ at < end /\ end # at
      BY <1>1, <1>3, <1>5, <2>2
    <3>2. lines[at].kind = "[[sources]]" /\ \A k \in at + 1 .. end - 1 : ~File!EndsBlock(lines[k])
      BY <1>1
    <3>3. QED
      BY <1>5, <2>2, <3>1, <3>2 DEF TakesOut
  <2>3. QED
    BY <2>1, <2>2
<1> HIDE DEF from
<1>7. first \in Seq(File!Line)
  <2>1. \A k \in 1 .. from - 1 : lines[k] \in File!Line
    BY <1>3, <1>4
  <2>2. 1 \in Int /\ from - 1 \in Int
    BY <1>3, <1>4
  <2>3. QED
    BY <2>1, <2>2, SubSeqProperties
<1> DEFINE none == <<>>
           new  == Splice(lines, from, none, end)
<1>8. File!Removed(lines, id) = new
  BY <1>2, <1>7, ConcatEmptySeq DEF Splice
<1>9. none \in Seq(File!Line) /\ Len(none) = 0
  OBVIOUS
<1> HIDE DEF none
<1>10. new \in Seq(File!Line) /\ Replaces(new, lines, from, end, from + Len(none))
  BY <1>4, <1>9, Spliced
<1> HIDE DEF new
<1>11. from + Len(none) = from
  BY <1>3, <1>4, <1>9
<1>12. Edits(new, lines, from, end, from)
  BY <1>1, <1>6, <1>10, <1>11 DEF Edits, PutsIn
<1>13. QED
  BY <1>5, <1>8, <1>10, <1>12 DEF at, end, from

\* The beginning of a plain file is plain.
LEMMA BeginningIsPlain ==
    ASSUME NEW lines \in Seq(File!Line), Plain(lines), NEW n \in 0 .. Len(lines)
    PROVE  SubSeq(lines, 1, n) \in Seq(File!Line) /\ Plain(SubSeq(lines, 1, n))
<1> DEFINE new == SubSeq(lines, 1, n)
<1>1. Len(lines) \in Nat /\ lines \in [1 .. Len(lines) -> File!Line]
        /\ DOMAIN lines = 1 .. Len(lines)
  BY LenProperties
<1>2. n \in Nat /\ \A k \in 1 .. n : k \in DOMAIN lines /\ lines[k] \in File!Line
  BY <1>1
<1>3. new \in Seq(File!Line) /\ Len(new) = n /\ \A k \in 1 .. n : new[k] = lines[k]
  <2>1. 1 \in Int /\ n \in Int
    BY <1>2
  <2>2. /\ new \in Seq(File!Line) /\ Len(new) = IF 1 <= n THEN n - 1 + 1 ELSE 0
        /\ \A k \in 1 .. n - 1 + 1 : new[k] = lines[1 + k - 1]
    BY <1>2, <2>1, SubSeqProperties
  <2>3. n - 1 + 1 = n /\ (~(1 <= n) => n = 0) /\ \A k \in 1 .. n : 1 + k - 1 = k
    BY <1>2
  <2> HIDE DEF new
  <2>4. QED
    BY <2>2, <2>3
<1> HIDE DEF new
<1>4. DOMAIN new = 1 .. n
  BY <1>3, LenProperties
<1>5. ASSUME NEW i \in DOMAIN new, NEW h \in DOMAIN new,
             new[i].kind = "[[sources]]", new[h].raw # File!Unseen, InBlock(new, i, h)
      PROVE  Shows(new, i, h)
  <2>1. \A k \in i + 1 .. h : k \in 1 .. n
    BY <1>2, <1>4
  <2>2. InBlock(lines, i, h)
    BY <1>3, <1>5, <2>1 DEF InBlock
  <2>3. PICK d \in i + 1 .. h : lines[d].raw # File!Unseen
                                /\ \A j \in i + 1 .. d - 1 : ~Bars(lines[j])
    <3>1. Shows(lines, i, h)
      BY <1>2, <1>3, <1>4, <1>5, <2>2 DEF Plain
    <3>2. QED
      BY <3>1 DEF Shows
  <2>4. \A j \in i + 1 .. d - 1 : j \in i + 1 .. h
    BY <1>2, <1>4
  <2>5. QED
    BY <1>3, <2>1, <2>3, <2>4 DEF Shows
<1>6. \A i \in DOMAIN new : new[i].kind # "noted"
  BY <1>2, <1>3, <1>4 DEF Plain
<1>7. QED
  BY <1>3, <1>5, <1>6 DEF Plain, new

LEMMA BeginningIsTold ==
    ASSUME NEW lines \in Seq(File!Line), Told(lines), NEW n \in 0 .. Len(lines)
    PROVE  Told(SubSeq(lines, 1, n))
<1> DEFINE new == SubSeq(lines, 1, n)
<1>1. /\ Len(lines) \in Nat /\ DOMAIN lines = 1 .. Len(lines) /\ n \in Nat
      /\ lines \in [1 .. Len(lines) -> File!Line]
  BY LenProperties
<1>2. \A k \in DOMAIN new : k \in DOMAIN lines /\ new[k] = lines[k]
  <2>1. \A k \in 1 .. n : lines[k] \in File!Line
    BY <1>1
  <2>2. /\ new \in Seq(File!Line) /\ Len(new) = IF 1 <= n THEN n - 1 + 1 ELSE 0
        /\ \A k \in 1 .. n - 1 + 1 : new[k] = lines[1 + k - 1]
    BY <1>1, <2>1, SubSeqProperties
  <2>3. n - 1 + 1 = n /\ (~(1 <= n) => n = 0) /\ \A k \in 1 .. n : 1 + k - 1 = k
    BY <1>1
  <2> HIDE DEF new
  <2>4. DOMAIN new = 1 .. n
    BY <2>2, <2>3, LenProperties
  <2>5. QED
    BY <1>1, <2>2, <2>3, <2>4
<1>3. QED
  BY <1>2 DEF Told

-----------------------------------------------------------------------------
(* The lines of the other sections, before and after an edit.              *)

\* Line h is the header of the section that line j is in.
Heads(lines, h, j) ==
    h \in 1 .. j /\ lines[h].kind = "[server]"
      /\ \A k \in h + 1 .. j : lines[k].kind \notin File!Headers

OtherLines(lines) ==
    {j \in DOMAIN lines : lines[j].kind # "blank" /\ \E h \in 1 .. j : Heads(lines, h, j)}

LEMMA OtherLinesAre ==
    ASSUME NEW lines \in Seq(File!Line)
    PROVE  LET at == File!Ascending(OtherLines(lines)) IN
           File!Elsewhere(lines) = [k \in DOMAIN at |-> lines[at[k]]]
<1> DEFINE headers(j) == {h \in File!Positions(lines, File!Headers) : h <= j}
           inOther == {j \in DOMAIN lines :
               headers(j) # {} /\ lines[File!Max(headers(j))].kind = "[server]"
                 /\ lines[j].kind # "blank"}
<1>1. Len(lines) \in Nat /\ DOMAIN lines = 1 .. Len(lines)
  BY LenProperties
<1>2. ASSUME NEW j \in DOMAIN lines
      PROVE  (headers(j) # {} /\ lines[File!Max(headers(j))].kind = "[server]")
               <=> \E h \in 1 .. j : Heads(lines, h, j)
  <2>1. headers(j) \in SUBSET (0 .. Len(lines)) /\ j \in Nat /\ j <= Len(lines)
    BY <1>1 DEF File!Positions
  <2>2. \A h : h \in headers(j) <=> h \in 1 .. j /\ lines[h].kind \in File!Headers
    BY <1>1 DEF File!Positions
  <2>3. ASSUME headers(j) # {}, lines[File!Max(headers(j))].kind = "[server]"
        PROVE  \E h \in 1 .. j : Heads(lines, h, j)
    <3> DEFINE h == File!Max(headers(j))
    <3>1. h \in headers(j) /\ \A k \in headers(j) : k <= h
      BY <1>1, <2>1, <2>3, GreatestNumber
    <3> HIDE DEF headers
    <3>2. h \in 1 .. j
      BY <2>2, <3>1
    <3>3. ASSUME NEW k \in h + 1 .. j PROVE lines[k].kind \notin File!Headers
      <4>1. k \in 1 .. j /\ ~(k <= h)
        BY <2>1, <3>2
      <4>2. QED
        BY <2>2, <3>1, <4>1
    <3>4. QED
      BY <2>3, <3>2, <3>3 DEF Heads
  <2>4. ASSUME NEW h \in 1 .. j, Heads(lines, h, j)
        PROVE  headers(j) # {} /\ lines[File!Max(headers(j))].kind = "[server]"
    <3>1. h \in headers(j)
      BY <2>2, <2>4 DEF Heads, File!Headers
    <3>2. File!Max(headers(j)) \in headers(j) /\ \A k \in headers(j) : k <= File!Max(headers(j))
      BY <1>1, <2>1, <3>1, GreatestNumber
    <3> DEFINE top == File!Max(headers(j))
    <3> HIDE DEF headers, top
    <3>3. top \in 1 .. j /\ lines[top].kind \in File!Headers /\ h <= top
      BY <2>2, <3>1, <3>2 DEF top
    <3>4. top \notin h + 1 .. j
      BY <2>4, <3>3 DEF Heads
    <3>5. top = h
      BY <2>1, <3>3, <3>4
    <3>6. QED
      BY <2>4, <3>1, <3>5 DEF Heads, top
  <2>5. QED
    BY <2>3, <2>4
<1>3. inOther = OtherLines(lines)
  BY <1>2 DEF OtherLines
<1>4. File!Elsewhere(lines)
        = [k \in DOMAIN File!Ascending(inOther) |-> lines[File!Ascending(inOther)[k]]]
  BY DEF File!Elsewhere
<1> HIDE DEF inOther
<1>5. QED
  BY <1>3, <1>4

LEMMA HeadsMove ==
    ASSUME NEW lines, NEW new, NEW h \in Nat \ {0}, NEW j \in Nat, NEW d \in Int, h + d >= 1,
           Heads(lines, h, j), \A k \in h .. j : new[k + d] = lines[k]
    PROVE  Heads(new, h + d, j + d)
<1>1. h <= j /\ lines[h].kind = "[server]" /\ \A k \in h + 1 .. j :
        lines[k].kind \notin File!Headers
  BY DEF Heads
<1>2. h + d \in 1 .. j + d /\ new[h + d].kind = "[server]"
  BY <1>1
<1>3. ASSUME NEW k \in h + d + 1 .. j + d PROVE new[k].kind \notin File!Headers
  <2>1. k - d \in h + 1 .. j /\ k - d \in h .. j /\ (k - d) + d = k
    OBVIOUS
  <2>2. QED
    BY <1>1, <2>1
<1>4. QED
  BY <1>2, <1>3 DEF Heads

LEMMA EditNumbers ==
    ASSUME NEW lines \in Seq(File!Line), NEW new \in Seq(File!Line), NEW a, NEW b, NEW c,
             Replaces(new, lines, a, b, c)
    PROVE  /\ Len(lines) \in Nat /\ DOMAIN lines = 1 .. Len(lines)
           /\ Len(new) \in Nat /\ DOMAIN new = 1 .. Len(new)
           /\ a \in Nat /\ b \in Nat /\ c \in Nat /\ 1 <= a /\ a <= b /\ b <= Len(lines) + 1
                /\ a <= c
           /\ Len(new) = c + Len(lines) - b
           /\ \A k \in 1 .. a - 1 : k \in DOMAIN lines /\ k \in DOMAIN new /\ new[k] = lines[k]
           /\ \A k \in b .. Len(lines) : k - b + c \in c .. Len(new) /\ new[k - b + c] = lines[k]
           /\ \A k \in c .. Len(new) : k - c + b \in b .. Len(lines) /\ new[k] = lines[k - c + b]
<1>1. /\ Len(lines) \in Nat /\ DOMAIN lines = 1 .. Len(lines)
      /\ Len(new) \in Nat /\ DOMAIN new = 1 .. Len(new)
      /\ a \in Nat /\ b \in Nat /\ c \in Nat /\ 1 <= a /\ a <= b /\ b <= Len(lines) + 1 /\ a <= c
      /\ Len(new) = c + Len(lines) - b
  BY LenProperties DEF Replaces
<1>2. /\ \A k \in 1 .. a - 1 : new[k] = lines[k]
      /\ \A k \in c .. Len(new) : new[k] = lines[k - c + b]
  BY DEF Replaces
<1>3. \A k \in 1 .. a - 1 : k \in DOMAIN lines /\ k \in DOMAIN new
  BY <1>1
<1>4. \A k \in b .. Len(lines) : k - b + c \in c .. Len(new) /\ (k - b + c) - c + b = k
  BY <1>1
<1>5. \A k \in c .. Len(new) : k - c + b \in b .. Len(lines)
  BY <1>1
<1>6. \A k \in b .. Len(lines) : new[k - b + c] = lines[k]
  BY <1>2, <1>4
<1>7. QED
  BY <1>1, <1>2, <1>3, <1>4, <1>5, <1>6

\* A line of another section is not taken out.
LEMMA OthersStay ==
    ASSUME NEW lines \in Seq(File!Line), NEW new \in Seq(File!Line), NEW a, NEW b, NEW c,
           Edits(new, lines, a, b, c), NEW j \in OtherLines(lines)
    PROVE  \/ j < a /\ j \in OtherLines(new)
           \/ b <= j /\ j - b + c \in OtherLines(new)
<1>1. Replaces(new, lines, a, b, c) /\ TakesOut(lines, a, b) /\ Closes(lines, b)
  BY DEF Edits
<1>2. /\ Len(lines) \in Nat /\ DOMAIN lines = 1 .. Len(lines)
      /\ Len(new) \in Nat /\ DOMAIN new = 1 .. Len(new)
      /\ a \in Nat /\ b \in Nat /\ c \in Nat /\ 1 <= a /\ a <= b /\ b <= Len(lines) + 1 /\ a <= c
      /\ Len(new) = c + Len(lines) - b
  BY <1>1, EditNumbers
<1>3. /\ \A k \in 1 .. a - 1 : k \in DOMAIN lines /\ k \in DOMAIN new /\ new[k] = lines[k]
      /\ \A k \in b .. Len(lines) : k - b + c \in c .. Len(new) /\ new[k - b + c] = lines[k]
  BY <1>1, EditNumbers
<1>4. j \in 1 .. Len(lines) /\ lines[j].kind # "blank"
  BY <1>2 DEF OtherLines
<1>5. PICK h \in 1 .. j : Heads(lines, h, j)
  BY DEF OtherLines
<1>6. /\ j \in Nat /\ h \in Nat /\ 1 <= h /\ h <= j /\ j <= Len(lines)
      /\ lines[h].kind = "[server]" /\ \A k \in h + 1 .. j : lines[k].kind \notin File!Headers
  BY <1>4, <1>5 DEF Heads
<1>7. CASE j < a
  <2>1. \A k \in h .. j : k \in 1 .. a - 1 /\ k + 0 = k
    BY <1>2, <1>6, <1>7
  <2>2. Heads(new, h + 0, j + 0)
    <3>1. h \in Nat \ {0} /\ j \in Nat /\ 0 \in Int /\ h + 0 >= 1
      BY <1>6
    <3>2. \A k \in h .. j : new[k + 0] = lines[k]
      BY <1>3, <2>1
    <3>3. QED
      BY <1>5, <3>1, <3>2, HeadsMove
  <2>3. h + 0 = h /\ j + 0 = j /\ j \in 1 .. a - 1 /\ 0 \in Int
    BY <1>6, <1>7, <1>2
  <2>4. Heads(new, h, j) /\ new[j] = lines[j] /\ j \in DOMAIN new
    BY <1>3, <2>2, <2>3
  <2>5. QED
    BY <1>4, <1>7, <2>4 DEF OtherLines
<1>8. CASE a <= j /\ j < b
  <2>1. PICK at \in {a, a + 1} :
          /\ at < b /\ lines[at].kind = "[[sources]]" /\ (at = a + 1 => lines[a].kind = "blank")
          /\ \A k \in at + 1 .. b - 1 : ~File!EndsBlock(lines[k])
    BY <1>1, <1>2, <1>6, <1>8 DEF TakesOut
  <2>2. at <= j
    BY <1>2, <1>4, <1>6, <1>8, <2>1
  <2>3. at \notin h + 1 .. j /\ at # h
    BY <1>6, <2>1 DEF File!Headers
  <2>4. h \in at + 1 .. b - 1
    BY <1>2, <1>6, <1>8, <2>1, <2>2, <2>3
  <2>5. QED
    BY <1>6, <2>1, <2>4 DEF File!EndsBlock
<1>9. CASE b <= j
  <2>1. b <= Len(lines) /\ File!EndsBlock(lines[b])
    BY <1>1, <1>4, <1>6, <1>9, <1>2 DEF Closes
  <2>2. b <= h
    <3>1. b \notin h + 1 .. j
      BY <1>6, <2>1 DEF File!EndsBlock, File!Headers
    <3>2. QED
      BY <1>2, <1>6, <1>9, <3>1
  <2> DEFINE d == c - b
  <2>3. d \in Int /\ \A k \in Nat : k + d = k - b + c
    BY <1>2
  <2>4. h + d >= 1 /\ h \in Nat \ {0} /\ j - b + c >= h - b + c
    BY <1>2, <1>6, <2>2
  <2> HIDE DEF d
  <2>5. \A k \in h .. j : k \in b .. Len(lines) /\ k \in Nat
    BY <1>2, <1>6, <2>2
  <2>6. \A k \in h .. j : new[k + d] = lines[k]
    BY <1>3, <2>3, <2>5
  <2>7. Heads(new, h + d, j + d)
    BY <1>5, <1>6, <2>3, <2>4, <2>6, HeadsMove
  <2>8. j + d = j - b + c /\ j - b + c \in c .. Len(new) /\ new[j - b + c] = lines[j]
    BY <1>3, <1>6, <1>9, <2>3, <2>5
  <2>9. h + d \in 1 .. j + d /\ j + d \in DOMAIN new
    BY <1>2, <1>6, <2>3, <2>4, <2>8
  <2>10. new[j + d].kind # "blank"
    BY <1>4, <2>8
  <2>11. j + d \in OtherLines(new)
    BY <2>7, <2>9, <2>10 DEF OtherLines
  <2>12. QED
    BY <1>9, <2>8, <2>11
<1>10. QED
  BY <1>2, <1>6, <1>7, <1>8, <1>9

\* None is put in.
LEMMA NoOthersCome ==
    ASSUME NEW lines \in Seq(File!Line), NEW new \in Seq(File!Line), NEW a, NEW b, NEW c,
           Edits(new, lines, a, b, c), NEW j \in OtherLines(new)
    PROVE  \/ j < a /\ j \in OtherLines(lines)
           \/ c <= j /\ j - c + b \in OtherLines(lines)
<1>1. Replaces(new, lines, a, b, c) /\ PutsIn(new, a, c) /\ Closes(lines, b)
  BY DEF Edits
<1>2. /\ Len(lines) \in Nat /\ DOMAIN lines = 1 .. Len(lines)
      /\ Len(new) \in Nat /\ DOMAIN new = 1 .. Len(new)
      /\ a \in Nat /\ b \in Nat /\ c \in Nat /\ 1 <= a /\ a <= b /\ b <= Len(lines) + 1 /\ a <= c
      /\ Len(new) = c + Len(lines) - b
  BY <1>1, EditNumbers
<1>3. /\ \A k \in 1 .. a - 1 : k \in DOMAIN lines /\ k \in DOMAIN new /\ new[k] = lines[k]
      /\ \A k \in c .. Len(new) : k - c + b \in b .. Len(lines) /\ new[k] = lines[k - c + b]
  BY <1>1, EditNumbers
<1>4. j \in 1 .. Len(new) /\ new[j].kind # "blank"
  BY <1>2 DEF OtherLines
<1>5. PICK h \in 1 .. j : Heads(new, h, j)
  BY DEF OtherLines
<1>6. /\ j \in Nat /\ h \in Nat /\ 1 <= h /\ h <= j /\ j <= Len(new)
      /\ new[h].kind = "[server]" /\ \A k \in h + 1 .. j : new[k].kind \notin File!Headers
  BY <1>4, <1>5 DEF Heads
<1>7. CASE j < a
  <2>1. \A k \in h .. j : k \in 1 .. a - 1 /\ k + 0 = k
    BY <1>2, <1>6, <1>7
  <2>2. Heads(lines, h + 0, j + 0)
    <3>1. h \in Nat \ {0} /\ j \in Nat /\ 0 \in Int /\ h + 0 >= 1
      BY <1>6
    <3>2. \A k \in h .. j : lines[k + 0] = new[k]
      BY <1>3, <2>1
    <3>3. QED
      BY <1>5, <3>1, <3>2, HeadsMove
  <2>3. h + 0 = h /\ j + 0 = j /\ j \in 1 .. a - 1 /\ 0 \in Int
    BY <1>6, <1>7, <1>2
  <2>4. Heads(lines, h, j) /\ new[j] = lines[j] /\ j \in DOMAIN lines
    BY <1>3, <2>2, <2>3
  <2>5. QED
    BY <1>4, <1>7, <2>4 DEF OtherLines
<1>8. CASE a <= j /\ j < c
  <2>1. /\ new[a].kind = "blank" /\ new[a + 1].kind = "[[sources]]"
        /\ \A k \in a + 2 .. c - 1 : new[k].kind \in {"id", "type", "fields"}
    <3>1. c # a
      BY <1>2, <1>6, <1>8
    <3>2. QED
      BY <1>1, <1>2, <3>1, PutInBlock
  <2>2. a + 1 <= j
    BY <1>2, <1>4, <1>6, <1>8, <2>1
  <2>3. a + 1 \notin h + 1 .. j /\ a + 1 # h
    BY <1>6, <2>1 DEF File!Headers
  <2>4. h \in a + 2 .. c - 1
    BY <1>2, <1>6, <1>8, <2>2, <2>3
  <2>5. QED
    BY <1>6, <2>1, <2>4
<1>9. CASE c <= j
  <2>1. j \in c .. Len(new) /\ j - c + b \in b .. Len(lines) /\ new[j] = lines[j - c + b]
    BY <1>2, <1>3, <1>6, <1>9
  <2>2. b <= Len(lines) /\ File!EndsBlock(lines[b])
    BY <1>1, <1>4, <2>1 DEF Closes
  <2>3. c <= h
    <3>1. c \in c .. Len(new) /\ c - c + b = b
      BY <1>2, <1>6, <1>9
    <3>2. new[c] = lines[b]
      BY <1>3, <3>1
    <3>3. c \notin h + 1 .. j
      BY <1>6, <2>2, <3>2 DEF File!EndsBlock, File!Headers
    <3>4. QED
      BY <1>2, <1>6, <1>9, <3>3
  <2> DEFINE d == b - c
  <2>4. d \in Int /\ \A k \in Nat : k + d = k - c + b
    BY <1>2
  <2>5. h + d >= 1 /\ h \in Nat \ {0} /\ j - c + b >= h - c + b
    BY <1>2, <1>6, <2>3
  <2> HIDE DEF d
  <2>6. \A k \in h .. j : k \in c .. Len(new) /\ k \in Nat
    BY <1>2, <1>6, <2>3
  <2>7. \A k \in h .. j : lines[k + d] = new[k]
    BY <1>3, <2>4, <2>6
  <2>8. Heads(lines, h + d, j + d)
    BY <1>5, <1>6, <2>4, <2>5, <2>7, HeadsMove
  <2>9. j + d = j - c + b /\ j + d \in DOMAIN lines /\ lines[j + d].kind # "blank"
    <3>1. j + d = j - c + b
      BY <1>6, <2>4
    <3>2. j - c + b \in 1 .. Len(lines)
      BY <1>2, <2>1
    <3>3. QED
      BY <1>2, <1>4, <2>1, <3>1, <3>2
  <2>10. h + d \in 1 .. j + d
    BY <1>6, <2>4, <2>5
  <2>11. j + d \in OtherLines(lines)
    BY <2>8, <2>9, <2>10 DEF OtherLines
  <2>12. QED
    BY <1>9, <2>9, <2>11
<1>10. QED
  BY <1>2, <1>6, <1>7, <1>8, <1>9

\* An edit leaves the other sections as they are.
LEMMA EditKeepsOthers ==
    ASSUME NEW lines \in Seq(File!Line), NEW new \in Seq(File!Line), NEW a, NEW b, NEW c,
           Edits(new, lines, a, b, c)
    PROVE  File!Elsewhere(new) = File!Elsewhere(lines)
<1> DEFINE S == OtherLines(lines)
           T == OtherLines(new)
           moved(j) == IF j < a THEN j ELSE j - b + c
           f == [j \in S |-> moved(j)]
<1>1. /\ Len(lines) \in Nat /\ DOMAIN lines = 1 .. Len(lines)
      /\ Len(new) \in Nat /\ DOMAIN new = 1 .. Len(new)
      /\ a \in Nat /\ b \in Nat /\ c \in Nat /\ 1 <= a /\ a <= b /\ b <= Len(lines) + 1 /\ a <= c
  BY EditNumbers DEF Edits
<1>2. /\ \A k \in 1 .. a - 1 : k \in DOMAIN lines /\ k \in DOMAIN new /\ new[k] = lines[k]
      /\ \A k \in b .. Len(lines) : k - b + c \in c .. Len(new) /\ new[k - b + c] = lines[k]
  BY EditNumbers DEF Edits
<1>3. (\A j \in S : j \in 1 .. Len(lines)) /\ (\A j \in T : j \in 1 .. Len(new))
  BY <1>1 DEF OtherLines
<1>4. \A j \in S : (j < a /\ j \in T) \/ (b <= j /\ j - b + c \in T)
  BY OthersStay
<1>5. \A t \in T : (t < a /\ t \in S) \/ (c <= t /\ t - c + b \in S)
  BY NoOthersCome
<1> HIDE DEF S, T
<1>6. \A j \in S : j \in Nat /\ j <= Len(lines) /\ 1 <= j
  BY <1>1, <1>3
<1>7. \A j \in S : moved(j) \in T /\ new[moved(j)] = lines[j]
  <2>1. ASSUME NEW j \in S PROVE moved(j) \in T /\ new[moved(j)] = lines[j]
    <3>1. CASE j < a
      <4>1. j \in 1 .. a - 1 /\ j \in T
        BY <1>1, <1>4, <1>6, <3>1
      <4>2. QED
        BY <1>2, <3>1, <4>1
    <3>2. CASE ~(j < a)
      <4>1. j \in b .. Len(lines) /\ j - b + c \in T
        BY <1>1, <1>4, <1>6, <3>2
      <4>2. QED
        BY <1>2, <3>2, <4>1
    <3>3. QED
      BY <3>1, <3>2
  <2>2. QED
    BY <2>1
<1>8. \A i, j \in S : i < j => moved(i) < moved(j)
  BY <1>1, <1>4, <1>6
<1>9. \A t \in T : \E j \in S : moved(j) = t
  <2>1. ASSUME NEW t \in T PROVE \E j \in S : moved(j) = t
    <3>1. t \in Nat
      BY <1>3
    <3>2. CASE t < a /\ t \in S
      BY <3>2
    <3>3. CASE c <= t /\ t - c + b \in S
      <4>1. ~(t - c + b < a) /\ (t - c + b) - b + c = t
        BY <1>1, <3>1, <3>3
      <4>2. moved(t - c + b) = t
        BY <4>1
      <4>3. QED
        BY <3>3, <4>2
    <3>4. QED
      BY <1>5, <3>2, <3>3
  <2>2. QED
    BY <2>1
<1> HIDE DEF moved
<1>10. f \in [S -> T] /\ InOrder(f, S, T) /\ \A j \in S : new[f[j]] = lines[j]
  BY <1>7, <1>8, <1>9 DEF InOrder
<1> HIDE DEF f
<1>11. S \in SUBSET (0 .. Len(lines)) /\ T \in SUBSET (0 .. Len(new))
  BY <1>1, <1>3
<1>12. Len(lines) \in Nat /\ Len(new) \in Nat
  BY <1>1
<1>13. /\ Cardinality(T) = Cardinality(S)
       /\ \A k \in 1 .. Cardinality(S) : File!Ascending(T)[k] = f[File!Ascending(S)[k]]
  BY <1>10, <1>11, <1>12, SameEnumeration
<1>14. /\ DOMAIN File!Ascending(S) = 1 .. Cardinality(S)
            /\ DOMAIN File!Ascending(T) = 1 .. Cardinality(S)
       /\ \A k \in 1 .. Cardinality(S) : File!Ascending(S)[k] \in S
  BY <1>1, <1>11, <1>13, AscendingMembers
<1>15. \A k \in 1 .. Cardinality(S) : new[File!Ascending(T)[k]] = lines[File!Ascending(S)[k]]
  BY <1>10, <1>13, <1>14
<1>16. [k \in DOMAIN File!Ascending(T) |-> new[File!Ascending(T)[k]]]
         = [k \in DOMAIN File!Ascending(S) |-> lines[File!Ascending(S)[k]]]
  BY <1>14, <1>15
<1>17. QED
  BY <1>16, OtherLinesAre DEF S, T

-----------------------------------------------------------------------------
(* The sources that TOML reads, before and after an edit.                  *)

Fields == {"id", "type", "fields"}

\* The lines of a kind that belong to the source at line i.
Own(lines, i, kind) ==
    {j \in DOMAIN lines :
        i < j /\ lines[j].kind = kind /\ \A k \in i + 1 .. j : lines[k].kind \notin File!Headers}

LEMMA OwnLines ==
    ASSUME NEW lines \in Seq(File!Line), NEW i \in DOMAIN lines, NEW kind \in Fields
    PROVE  Among(lines, i + 1, TomlEnd(lines, i) - 1, kind) = Own(lines, i, kind)
<1> DEFINE end == TomlEnd(lines, i)
<1>1. Len(lines) \in Nat /\ i \in 1 .. Len(lines) /\ DOMAIN lines = 1 .. Len(lines)
  BY LenProperties
<1>2. /\ end \in i + 1 .. Len(lines) + 1
      /\ end <= Len(lines) => lines[end].kind \in File!Headers
      /\ \A j \in i + 1 .. Len(lines) : lines[j].kind \in File!Headers => end <= j
  BY EndOfSource
<1> HIDE DEF end
<1>3. ASSUME NEW j \in i + 1 .. end - 1, lines[j].kind = kind PROVE j \in Own(lines, i, kind)
  <2>1. j \in DOMAIN lines /\ i < j /\ j < end /\ j \in Nat
    BY <1>1, <1>2
  <2>2. ASSUME NEW k \in i + 1 .. j, lines[k].kind \in File!Headers PROVE FALSE
    <3>1. k \in i + 1 .. Len(lines) /\ k < end /\ k \in Nat
      BY <1>1, <1>2, <2>1
    <3>2. end <= k /\ end \in Nat
      BY <1>1, <1>2, <2>2, <3>1
    <3>3. QED
      BY <3>1, <3>2
  <2>3. QED
    BY <1>3, <2>1, <2>2 DEF Own
<1>4. ASSUME NEW j \in Own(lines, i, kind) PROVE j \in i + 1 .. end - 1 /\ lines[j].kind = kind
  <2>1. /\ j \in 1 .. Len(lines) /\ i < j /\ lines[j].kind = kind
        /\ \A k \in i + 1 .. j : lines[k].kind \notin File!Headers
    BY <1>1 DEF Own
  <2>2. ~(end <= j)
    BY <1>1, <1>2, <2>1
  <2>3. QED
    BY <1>1, <1>2, <2>1, <2>2
<1>5. QED
  BY <1>3, <1>4 DEF Among, end

LEMMA TomlSourceOwn ==
    ASSUME NEW lines \in Seq(File!Line), NEW i \in DOMAIN lines
    PROVE  File!TomlSource(lines, i) =
             [id       |-> FirstValue(lines, Own(lines, i, "id")),
              raw      |-> FirstRaw(lines, Own(lines, i, "id")),
              type     |-> FirstValue(lines, Own(lines, i, "type")),
              complete |-> Own(lines, i, "fields") # {}]
BY TomlSourceParts, OwnLines DEF Fields

\* The lines T of new are the lines S of lines.
Moves(new, T, lines, S, d) ==
    /\ \A j \in S : j + d \in T /\ new[j + d] = lines[j]
    /\ \A j \in T : j - d \in S

LEMMA FirstMoved ==
    ASSUME NEW lines, NEW new, NEW S \in SUBSET Nat, NEW T \in SUBSET Nat, NEW d \in Int,
           Moves(new, T, lines, S, d)
    PROVE  /\ FirstValue(new, T) = FirstValue(lines, S) /\ FirstRaw(new, T) = FirstRaw(lines, S)
           /\ (T # {}) = (S # {})
<1> USE DEF Moves
<1>1. (T # {}) = (S # {})
  OBVIOUS
<1>2. CASE S # {}
  <2>1. File!Min(S) \in S /\ \A j \in S : File!Min(S) <= j
    BY <1>2, LeastNumber
  <2>2. File!Min(T) \in T /\ \A t \in T : File!Min(T) <= t
    BY <1>1, <1>2, LeastNumber
  <2> DEFINE s == File!Min(S)
             t == File!Min(T)
  <2> HIDE DEF s, t
  <2>3. s \in S /\ t \in T /\ s \in Nat /\ t \in Nat /\ t <= s + d /\ s <= t - d
    BY <2>1, <2>2 DEF s, t
  <2>4. t = s + d
    BY <2>3
  <2>5. new[t] = lines[s]
    BY <2>3, <2>4
  <2>6. QED
    BY <1>1, <1>2, <2>5 DEF FirstValue, FirstRaw, s, t
<1>3. CASE S = {}
  BY <1>1, <1>3 DEF FirstValue, FirstRaw
<1>4. QED
  BY <1>1, <1>2, <1>3

LEMMA SourceMoved ==
    ASSUME NEW lines \in Seq(File!Line), NEW new \in Seq(File!Line), NEW i \in DOMAIN lines,
           NEW d \in Int, i + d \in DOMAIN new,
           \A kind \in Fields : Moves(new, Own(new, i + d, kind), lines, Own(lines, i, kind), d)
    PROVE  File!TomlSource(new, i + d) = File!TomlSource(lines, i)
<1>1. ASSUME NEW kind \in Fields
      PROVE  /\ FirstValue(new, Own(new, i + d, kind)) = FirstValue(lines, Own(lines, i, kind))
             /\ FirstRaw(new, Own(new, i + d, kind)) = FirstRaw(lines, Own(lines, i, kind))
             /\ (Own(new, i + d, kind) # {}) = (Own(lines, i, kind) # {})
  <2> DEFINE S == Own(lines, i, kind)
             T == Own(new, i + d, kind)
  <2>1. S \in SUBSET Nat /\ T \in SUBSET Nat
    <3>1. DOMAIN lines \subseteq Nat /\ DOMAIN new \subseteq Nat
      BY LenProperties
    <3>2. QED
      BY <3>1 DEF Own
  <2>2. Moves(new, T, lines, S, d)
    OBVIOUS
  <2> HIDE DEF S, T
  <2>3. /\ FirstValue(new, T) = FirstValue(lines, S) /\ FirstRaw(new, T) = FirstRaw(lines, S)
        /\ (T # {}) = (S # {})
    BY <2>1, <2>2, FirstMoved
  <2>4. QED
    BY <2>3 DEF S, T
<1>2. /\ FirstValue(new, Own(new, i + d, "id")) = FirstValue(lines, Own(lines, i, "id"))
      /\ FirstRaw(new, Own(new, i + d, "id")) = FirstRaw(lines, Own(lines, i, "id"))
      /\ FirstValue(new, Own(new, i + d, "type")) = FirstValue(lines, Own(lines, i, "type"))
      /\ (Own(new, i + d, "fields") # {}) = (Own(lines, i, "fields") # {})
  BY <1>1 DEF Fields
<1>3. File!TomlSource(new, i + d) =
        [id       |-> FirstValue(new, Own(new, i + d, "id")),
         raw      |-> FirstRaw(new, Own(new, i + d, "id")),
         type     |-> FirstValue(new, Own(new, i + d, "type")),
         complete |-> Own(new, i + d, "fields") # {}]
  BY TomlSourceOwn
<1>4. QED
  BY <1>2, <1>3, TomlSourceOwn

\* A source above an edit keeps its lines.
LEMMA OwnAbove ==
    ASSUME NEW lines \in Seq(File!Line), NEW new \in Seq(File!Line), NEW a, NEW b, NEW c,
           Edits(new, lines, a, b, c), NEW i \in DOMAIN lines, i < a, NEW kind \in Fields
    PROVE  /\ \A j \in Own(lines, i, kind) : j \in Own(new, i, kind) /\ new[j] = lines[j]
           /\ \A j \in Own(new, i, kind) : j \in Own(lines, i, kind)
<1>1. Replaces(new, lines, a, b, c) /\ PutsIn(new, a, c) /\ TakesOut(lines, a, b)
        /\ Closes(lines, b)
  BY DEF Edits
<1>2. /\ Len(lines) \in Nat /\ DOMAIN lines = 1 .. Len(lines)
      /\ Len(new) \in Nat /\ DOMAIN new = 1 .. Len(new)
      /\ a \in Nat /\ b \in Nat /\ c \in Nat /\ 1 <= a /\ a <= b /\ b <= Len(lines) + 1 /\ a <= c
      /\ Len(new) = c + Len(lines) - b
  BY <1>1, EditNumbers
<1>3. /\ \A k \in 1 .. a - 1 : k \in DOMAIN lines /\ k \in DOMAIN new /\ new[k] = lines[k]
      /\ \A k \in b .. Len(lines) : k - b + c \in c .. Len(new) /\ new[k - b + c] = lines[k]
      /\ \A k \in c .. Len(new) : k - c + b \in b .. Len(lines) /\ new[k] = lines[k - c + b]
  BY <1>1, EditNumbers
<1>4. i \in Nat /\ 1 <= i /\ kind \notin File!Headers /\ kind # "blank"
  BY <1>2 DEF Fields, File!Headers
<1>5. ASSUME NEW j \in Own(lines, i, kind), a <= j PROVE FALSE
  <2>1. /\ j \in Nat /\ i < j /\ j <= Len(lines) /\ lines[j].kind = kind
        /\ \A k \in i + 1 .. j : lines[k].kind \notin File!Headers
    BY <1>2 DEF Own
  <2>2. CASE a = b
    <3>1. j \in b .. Len(lines)
      BY <1>2, <1>5, <2>1, <2>2
    <3>2. b <= Len(lines) /\ File!EndsBlock(lines[b])
      BY <1>1, <1>4, <2>1, <3>1 DEF Closes
    <3>3. b \in i + 1 .. j
      BY <1>2, <1>4, <1>5, <2>1, <2>2
    <3>4. QED
      BY <2>1, <3>2, <3>3 DEF File!EndsBlock, File!Headers
  <2>3. CASE a # b
    <3>1. PICK at \in {a, a + 1} :
            /\ at < b /\ lines[at].kind = "[[sources]]" /\ (at = a + 1 => lines[a].kind = "blank")
      BY <1>1, <2>3 DEF TakesOut
    <3>2. at \in i + 1 .. j
      BY <1>2, <1>4, <1>5, <2>1, <3>1
    <3>3. QED
      BY <2>1, <3>1, <3>2 DEF File!Headers
  <2>4. QED
    BY <2>2, <2>3
<1>6. ASSUME NEW j \in Own(new, i, kind), a <= j PROVE FALSE
  <2>1. /\ j \in Nat /\ i < j /\ j <= Len(new) /\ new[j].kind = kind
        /\ \A k \in i + 1 .. j : new[k].kind \notin File!Headers
    BY <1>2 DEF Own
  <2>2. CASE c = a
    <3>1. j - c + b \in b .. Len(lines) /\ new[j] = lines[j - c + b]
      BY <1>2, <1>3, <1>6, <2>1, <2>2
    <3>2. b <= Len(lines) /\ File!EndsBlock(lines[b])
      BY <1>1, <1>4, <2>1, <3>1 DEF Closes
    <3>3. c \in i + 1 .. j /\ c \in c .. Len(new) /\ c - c + b = b
      BY <1>2, <1>4, <1>6, <2>1, <2>2
    <3>4. new[c] = lines[b]
      BY <1>3, <3>3
    <3>5. QED
      BY <2>1, <3>2, <3>3, <3>4 DEF File!EndsBlock, File!Headers
  <2>3. CASE c # a
    <3>1. new[a].kind = "blank" /\ new[a + 1].kind = "[[sources]]"
      BY <1>1, <2>3 DEF PutsIn
    <3>2. a # j
      BY <1>4, <2>1, <3>1
    <3>3. a + 1 \in i + 1 .. j
      BY <1>2, <1>4, <1>6, <2>1, <3>2
    <3>4. QED
      BY <2>1, <3>1, <3>3 DEF File!Headers
  <2>4. QED
    BY <2>2, <2>3
<1>7. ASSUME NEW j \in Own(lines, i, kind) PROVE j \in Own(new, i, kind) /\ new[j] = lines[j]
  <2>1. j \in 1 .. a - 1 /\ \A k \in i + 1 .. j : k \in 1 .. a - 1
    <3>1. j \in Nat /\ i < j
      BY <1>2 DEF Own
    <3>2. ~(a <= j)
      BY <1>5
    <3>3. a \in Nat
      BY <1>2
    <3>4. QED
      BY <1>4, <3>1, <3>2, <3>3
  <2>2. QED
    BY <1>3, <2>1 DEF Own
<1>8. ASSUME NEW j \in Own(new, i, kind) PROVE j \in Own(lines, i, kind)
  <2>1. j \in 1 .. a - 1 /\ \A k \in i + 1 .. j : k \in 1 .. a - 1
    <3>1. j \in Nat /\ i < j
      BY <1>2 DEF Own
    <3>2. ~(a <= j)
      BY <1>6
    <3>3. a \in Nat
      BY <1>2
    <3>4. QED
      BY <1>4, <3>1, <3>2, <3>3
  <2>2. QED
    BY <1>3, <2>1 DEF Own
<1>9. QED
  BY <1>7, <1>8

\* A line between two others stays between them when all three move by d.
MovesOn(k, d, i, j, c, n)   == k + d \in i + d + 1 .. j /\ k + d \in c .. n /\ (k + d) - d = k
MovesBack(k, d, i, j, b, n) == k - d \in i + 1 .. j /\ k - d \in b .. n /\ (k - d) + d = k

LEMMA MovedOn ==
    ASSUME NEW k \in Int, NEW d \in Int, NEW i \in Int, NEW j \in Int, NEW c \in Int,
             NEW n \in Int,
           k \in i + 1 .. j - d, c <= i + d + 1, j <= n
    PROVE  MovesOn(k, d, i, j, c, n)
BY DEF MovesOn

LEMMA MovedBack ==
    ASSUME NEW k \in Int, NEW d \in Int, NEW i \in Int, NEW j \in Int, NEW b \in Int,
             NEW n \in Int,
           k \in i + d + 1 .. j + d, b <= i + 1, j <= n
    PROVE  MovesBack(k, d, i, j, b, n)
BY DEF MovesBack

\* One below it has them further up or down.
LEMMA OwnBelow ==
    ASSUME NEW lines \in Seq(File!Line), NEW new \in Seq(File!Line), NEW a, NEW b, NEW c,
           Replaces(new, lines, a, b, c), NEW i \in DOMAIN lines, b <= i, NEW kind,
           NEW d \in Int, d = c - b
    PROVE  Moves(new, Own(new, i + d, kind), lines, Own(lines, i, kind), d)
<1>1. /\ Len(lines) \in Nat /\ DOMAIN lines = 1 .. Len(lines)
      /\ Len(new) \in Nat /\ DOMAIN new = 1 .. Len(new)
      /\ a \in Nat /\ b \in Nat /\ c \in Nat /\ 1 <= a /\ a <= b /\ b <= Len(lines) + 1 /\ a <= c
      /\ Len(new) = c + Len(lines) - b
  BY EditNumbers
<1>2. /\ \A k \in b .. Len(lines) : k - b + c \in c .. Len(new) /\ new[k - b + c] = lines[k]
      /\ \A k \in c .. Len(new) : k - c + b \in b .. Len(lines) /\ new[k] = lines[k - c + b]
  BY EditNumbers
<1>3. \A k \in Int : k + d = k - b + c /\ k - d = k - c + b
  BY <1>1
<1>4. ASSUME NEW k \in b .. Len(lines) PROVE k + d \in 1 .. Len(new) /\ new[k + d] = lines[k]
  <2>1. k \in Int /\ k + d = k - b + c
    BY <1>3
  <2>2. k - b + c \in c .. Len(new) /\ new[k - b + c] = lines[k]
    BY <1>2
  <2>3. k - b + c \in 1 .. Len(new)
    BY <1>1, <2>2
  <2>4. QED
    BY <2>1, <2>2, <2>3
<1>5. \A k \in c .. Len(new) : k - d \in 1 .. Len(lines) /\ new[k] = lines[k - d]
  BY <1>1, <1>2, <1>3
<1>6. i \in Nat
  BY <1>1
<1>7. /\ b \in Int /\ c \in Int /\ Len(lines) \in Int /\ Len(new) \in Int
       /\ b <= i + 1 /\ c <= i + d + 1
  BY <1>1
<1>8. ASSUME NEW j \in Own(lines, i, kind)
      PROVE  j + d \in Own(new, i + d, kind) /\ new[j + d] = lines[j]
  <2>1. /\ j \in Nat /\ i < j /\ j <= Len(lines) /\ lines[j].kind = kind
        /\ \A k \in i + 1 .. j : lines[k].kind \notin File!Headers
    BY <1>1 DEF Own
  <2>2. j \in b .. Len(lines)
    BY <1>1, <1>6, <2>1
  <2>3. ASSUME NEW k \in i + d + 1 .. j + d PROVE new[k].kind \notin File!Headers
    <3>1. k - d \in i + 1 .. j /\ k - d \in b .. Len(lines) /\ (k - d) + d = k
      <4>1. k \in Int /\ j \in Int /\ i \in Int /\ j <= Len(lines)
        BY <1>6, <2>1
      <4>2. MovesBack(k, d, i, j, b, Len(lines))
        BY <1>7, <4>1, MovedBack
      <4>3. QED
        BY <4>2 DEF MovesBack
    <3>2. QED
      BY <1>4, <2>1, <3>1
  <2>4. i + d < j + d /\ j + d \in DOMAIN new /\ new[j + d] = lines[j]
    BY <1>1, <1>4, <1>6, <2>1, <2>2
  <2>5. QED
    BY <2>1, <2>3, <2>4 DEF Own
<1>9. ASSUME NEW j \in Own(new, i + d, kind) PROVE j - d \in Own(lines, i, kind)
  <2>1. /\ j \in Nat /\ i + d < j /\ j <= Len(new) /\ new[j].kind = kind
        /\ \A k \in i + d + 1 .. j : new[k].kind \notin File!Headers
    BY <1>1 DEF Own
  <2>2. j \in c .. Len(new)
    BY <1>1, <1>6, <2>1
  <2>3. ASSUME NEW k \in i + 1 .. j - d PROVE lines[k].kind \notin File!Headers
    <3>1. k + d \in i + d + 1 .. j /\ k + d \in c .. Len(new) /\ (k + d) - d = k
      <4>1. k \in Int /\ j \in Int /\ i \in Int /\ j <= Len(new)
        BY <1>6, <2>1
      <4>2. MovesOn(k, d, i, j, c, Len(new))
        BY <1>7, <4>1, MovedOn
      <4>3. QED
        BY <4>2 DEF MovesOn
    <3>2. QED
      BY <1>5, <2>1, <3>1
  <2>4. i < j - d /\ j - d \in DOMAIN lines /\ new[j] = lines[j - d]
    BY <1>1, <1>5, <1>6, <2>1, <2>2
  <2>5. QED
    BY <2>1, <2>3, <2>4 DEF Own
<1>10. QED
  BY <1>8, <1>9 DEF Moves

\* So TOML reads the same of the sources that an edit does not touch.
LEMMA SourceKept ==
    ASSUME NEW lines \in Seq(File!Line), NEW new \in Seq(File!Line), NEW a, NEW b, NEW c,
           Edits(new, lines, a, b, c), NEW i \in DOMAIN lines
    PROVE  /\ i < a  => File!TomlSource(new, i) = File!TomlSource(lines, i)
           /\ b <= i => File!TomlSource(new, i - b + c) = File!TomlSource(lines, i)
<1>1. Replaces(new, lines, a, b, c)
  BY DEF Edits
<1>2. /\ Len(lines) \in Nat /\ DOMAIN lines = 1 .. Len(lines)
      /\ Len(new) \in Nat /\ DOMAIN new = 1 .. Len(new)
      /\ a \in Nat /\ b \in Nat /\ c \in Nat /\ 1 <= a /\ a <= c /\ i \in Nat /\ 1 <= i
           /\ i <= Len(lines)
  BY <1>1, EditNumbers
<1>3. /\ \A k \in 1 .. a - 1 : k \in DOMAIN new
      /\ \A k \in b .. Len(lines) : k - b + c \in c .. Len(new)
  BY <1>1, EditNumbers
<1>4. CASE i < a
  <2>1. i \in DOMAIN new /\ i + 0 = i /\ 0 \in Int
    BY <1>2, <1>3, <1>4
  <2>2. \A kind \in Fields :
          /\ \A j \in Own(lines, i, kind) : j \in Own(new, i, kind) /\ new[j] = lines[j]
          /\ \A j \in Own(new, i, kind) : j \in Own(lines, i, kind)
    BY <1>4, OwnAbove
  <2>3. \A kind : /\ \A j \in Own(lines, i, kind) : j + 0 = j
                  /\ \A j \in Own(new, i, kind) : j - 0 = j
    BY <1>2 DEF Own
  <2>4. \A kind \in Fields : Moves(new, Own(new, i + 0, kind), lines, Own(lines, i, kind), 0)
    BY <2>1, <2>2, <2>3 DEF Moves
  <2>5. File!TomlSource(new, i + 0) = File!TomlSource(lines, i)
    BY <2>1, <2>4, SourceMoved
  <2>6. ~(b <= i)
    BY <1>1, <1>2, <1>4 DEF Replaces
  <2>7. QED
    BY <2>1, <2>5, <2>6
<1>5. CASE b <= i
  <2> DEFINE d == c - b
  <2>1. d \in Int /\ d = c - b /\ i + d = i - b + c /\ ~(i < a)
    BY <1>1, <1>2, <1>5 DEF Replaces
  <2> HIDE DEF d
  <2>2. i + d \in DOMAIN new
    <3>1. i \in b .. Len(lines)
      BY <1>2, <1>5
    <3>2. i - b + c \in c .. Len(new)
      BY <1>3, <3>1
    <3>3. QED
      BY <1>2, <2>1, <3>2
  <2>3. \A kind \in Fields : Moves(new, Own(new, i + d, kind), lines, Own(lines, i, kind), d)
    BY <1>1, <1>5, <2>1, OwnBelow
  <2>4. File!TomlSource(new, i + d) = File!TomlSource(lines, i)
    BY <2>1, <2>2, <2>3, SourceMoved
  <2>5. QED
    BY <2>1, <2>4
<1>6. QED
  BY <1>4, <1>5

\* The sources of a plain file begin at its blocks.
LEMMA StartsOfPlain ==
    ASSUME NEW lines \in Seq(File!Line), Plain(lines)
    PROVE  /\ File!Positions(lines, {"[[sources]]", "noted"}) = File!Starts(lines)
           /\ \A i : i \in File!Starts(lines) <=> i \in DOMAIN lines
                /\ lines[i].kind = "[[sources]]"
BY DEF File!Starts, File!Positions, File!HasPath, Plain

\* TOML reads one for each block.
LEMMA TomlOfPlain ==
    ASSUME NEW lines \in Seq(File!Line), Plain(lines)
    PROVE  /\ File!Toml(lines) \in Seq(File!Source)
                /\ Len(File!Toml(lines)) = Cardinality(File!Starts(lines))
           /\ Len(File!Toml(lines)) \in Nat
           /\ \A k \in 1 .. Len(File!Toml(lines)) :
                /\ File!Ascending(File!Starts(lines))[k] \in File!Starts(lines)
                /\ File!Toml(lines)[k] = File!TomlSource(lines,
                     File!Ascending(File!Starts(lines))[k])
<1> DEFINE n == Cardinality(File!Starts(lines))
<1>1. Len(lines) \in Nat /\ File!Starts(lines) \in SUBSET (0 .. Len(lines))
  BY StartsAreLines
<1>2. /\ n \in Nat /\ DOMAIN File!Ascending(File!Starts(lines)) = 1 .. n
      /\ \A k \in 1 .. n : File!Ascending(File!Starts(lines))[k] \in File!Starts(lines)
  BY <1>1, AscendingMembers
<1> HIDE DEF n
<1>3. File!Toml(lines) = [k \in 1 .. n |-> File!TomlSource(lines,
        File!Ascending(File!Starts(lines))[k])]
  BY <1>2, StartsOfPlain DEF File!Toml
<1>4. File!Toml(lines) \in Seq(File!Source)
  BY TomlTypes
<1>5. DOMAIN File!Toml(lines) = 1 .. Len(File!Toml(lines)) /\ Len(File!Toml(lines)) \in Nat
  BY <1>4, LenProperties
<1>6. Len(File!Toml(lines)) = n
  BY <1>2, <1>3, <1>5
<1>7. QED
  BY <1>2, <1>3, <1>4, <1>6 DEF n

\* Any enumeration of the blocks in order gives the sources.
LEMMA TomlIs ==
    ASSUME NEW lines \in Seq(File!Line), Plain(lines), NEW n \in Nat,
           NEW g \in [1 .. n -> File!Starts(lines)], InOrder(g, 1 .. n, File!Starts(lines))
    PROVE  Len(File!Toml(lines)) = n /\ \A k \in 1 .. n :
             File!Toml(lines)[k] = File!TomlSource(lines, g[k])
<1>1. Len(lines) \in Nat /\ File!Starts(lines) \in SUBSET (0 .. Len(lines))
  BY StartsAreLines
<1>2. Cardinality(File!Starts(lines)) = n /\ \A k \in 1 .. n :
        File!Ascending(File!Starts(lines))[k] = g[k]
  BY <1>1, AscendingIs
<1>3. QED
  BY <1>2, TomlOfPlain

\* The blocks after an edit: those above it, those below it, and the one put in.
LEMMA StartsAfter ==
    ASSUME NEW lines \in Seq(File!Line), NEW new \in Seq(File!Line), Plain(lines), NEW a, NEW b,
             NEW c,
           Edits(new, lines, a, b, c)
    PROVE  /\ \A i \in File!Starts(lines) :
                /\ i \in Nat
                /\ i < a => i \in File!Starts(new)
                /\ b <= i => i - b + c \in File!Starts(new)
           /\ \A i \in File!Starts(new) :
                \/ i < a /\ i \in File!Starts(lines)
                \/ c # a /\ i = a + 1
                \/ c <= i /\ i - c + b \in File!Starts(lines)
           /\ c # a => a + 1 \in File!Starts(new)
<1>1. Plain(new)
  BY EditedIsPlain
<1>2. /\ \A i : i \in File!Starts(lines) <=> i \in DOMAIN lines /\ lines[i].kind = "[[sources]]"
      /\ \A i : i \in File!Starts(new) <=> i \in DOMAIN new /\ new[i].kind = "[[sources]]"
  BY <1>1, StartsOfPlain
<1>3. Replaces(new, lines, a, b, c) /\ PutsIn(new, a, c)
  BY DEF Edits
<1>4. /\ Len(lines) \in Nat /\ DOMAIN lines = 1 .. Len(lines)
      /\ Len(new) \in Nat /\ DOMAIN new = 1 .. Len(new)
      /\ a \in Nat /\ b \in Nat /\ c \in Nat /\ 1 <= a /\ a <= b /\ b <= Len(lines) + 1 /\ a <= c
      /\ Len(new) = c + Len(lines) - b
  BY <1>3, EditNumbers
<1>5. \A k \in 1 .. a - 1 : k \in DOMAIN lines /\ k \in DOMAIN new /\ new[k] = lines[k]
  BY <1>3, EditNumbers
<1>6. \A k \in b .. Len(lines) : k - b + c \in c .. Len(new) /\ new[k - b + c] = lines[k]
  BY <1>3, EditNumbers
<1>7. \A k \in c .. Len(new) : k - c + b \in b .. Len(lines) /\ new[k] = lines[k - c + b]
  BY <1>3, EditNumbers
<1>8. \A k \in 1 .. Len(lines) : k \in Nat /\ (k < a => k \in 1 .. a - 1)
                                 /\ (b <= k => k \in b .. Len(lines))
  BY <1>4
<1>9. \A k \in 1 .. Len(new) : (k < a => k \in 1 .. a - 1) /\ (c <= k => k \in c .. Len(new))
  BY <1>4
<1>10. \A k \in c .. Len(new) : k \in 1 .. Len(new)
  BY <1>4
<1>11. \A k \in b .. Len(lines) : k \in 1 .. Len(lines)
  BY <1>4
<1>12. ASSUME NEW i \in File!Starts(lines)
      PROVE  i \in Nat /\ (i < a => i \in File!Starts(new))
               /\ (b <= i => i - b + c \in File!Starts(new))
  <2>1. i \in 1 .. Len(lines) /\ lines[i].kind = "[[sources]]"
    BY <1>2, <1>4
  <2>2. ASSUME i < a PROVE i \in File!Starts(new)
    <3>1. i \in 1 .. a - 1
      BY <1>8, <2>1, <2>2
    <3>2. i \in DOMAIN new /\ new[i].kind = "[[sources]]"
      BY <1>5, <2>1, <3>1
    <3>3. QED
      BY <1>2, <3>2
  <2>3. ASSUME b <= i PROVE i - b + c \in File!Starts(new)
    <3> DEFINE m == i - b + c
    <3>1. i \in b .. Len(lines)
      BY <1>8, <2>1, <2>3
    <3>2. m \in c .. Len(new) /\ new[m] = lines[i]
      BY <1>6, <3>1
    <3> HIDE DEF m
    <3>3. m \in DOMAIN new
      BY <1>4, <1>10, <3>2
    <3>4. m \in File!Starts(new)
      BY <1>2, <2>1, <3>2, <3>3
    <3>5. QED
      BY <3>4 DEF m
  <2>4. i \in Nat
    BY <1>8, <2>1
  <2>5. QED
    BY <2>2, <2>3, <2>4
<1>13. c # a => c \in a + 4 .. a + 5 /\ new[a].kind = "blank" /\ new[a + 1].kind = "[[sources]]"
        /\ \A k \in a + 2 .. c - 1 : new[k].kind \in {"id", "type", "fields"}
  <2>1. a \in Nat
    BY <1>2, <1>3 DEF Replaces
  <2>2. QED
    BY <1>3, <2>1, PutInBlock
<1>14. /\ \A k \in 1 .. Len(new) : a <= k /\ k < c
                => c # a /\ (k = a \/ k = a + 1 \/ k \in a + 2 .. c - 1)
       /\ \A k \in 1 .. Len(new) : k < a \/ c <= k \/ (a <= k /\ k < c)
  BY <1>4
<1>15. ASSUME NEW i \in File!Starts(new)
      PROVE  \/ i < a /\ i \in File!Starts(lines)
             \/ c # a /\ i = a + 1
             \/ c <= i /\ i - c + b \in File!Starts(lines)
  <2>1. i \in 1 .. Len(new) /\ new[i].kind = "[[sources]]"
    BY <1>2, <1>4
  <2>2. ASSUME i < a PROVE i \in File!Starts(lines)
    <3>1. i \in 1 .. a - 1
      BY <1>9, <2>1, <2>2
    <3>2. i \in DOMAIN lines /\ lines[i].kind = "[[sources]]"
      BY <1>5, <2>1, <3>1
    <3>3. QED
      BY <1>2, <3>2
  <2>3. ASSUME c <= i PROVE i - c + b \in File!Starts(lines)
    <3> DEFINE m == i - c + b
    <3>1. i \in c .. Len(new)
      BY <1>9, <2>1, <2>3
    <3>2. m \in b .. Len(lines) /\ new[i] = lines[m]
      BY <1>7, <3>1
    <3> HIDE DEF m
    <3>3. m \in DOMAIN lines
      BY <1>4, <1>11, <3>2
    <3>4. m \in File!Starts(lines)
      BY <1>2, <2>1, <3>2, <3>3
    <3>5. QED
      BY <3>4 DEF m
  <2>4. ASSUME a <= i, i < c PROVE c # a /\ i = a + 1
    <3>1. c # a /\ (i = a \/ i = a + 1 \/ i \in a + 2 .. c - 1)
      BY <1>14, <2>1, <2>4
    <3>2. i # a /\ i \notin a + 2 .. c - 1
      BY <1>13, <2>1, <3>1
    <3>3. QED
      BY <3>1, <3>2
  <2>5. QED
    BY <1>14, <2>1, <2>2, <2>3, <2>4
<1>16. ASSUME c # a PROVE a + 1 \in File!Starts(new)
  <2>1. a + 1 \in 1 .. Len(new)
    <3>1. a \in Nat /\ Len(new) \in Nat /\ c \in Nat /\ c <= Len(new) + 1
      BY <1>4
    <3>2. a + 4 <= c
      BY <1>13, <1>16, <3>1
    <3>3. QED
      BY <3>1, <3>2
  <2>2. QED
    BY <1>2, <1>4, <1>13, <1>16, <2>1
<1>17. QED
  BY <1>12, <1>15, <1>16

\* The block that is put in is read as the source it was made of.
LEMMA SourcePutIn ==
    ASSUME NEW new \in Seq(File!Line), NEW s \in NewSources, NEW a \in Nat \ {0},
           a + Len(File!Format(s)) - 1 <= Len(new),
           \A k \in 1 .. Len(File!Format(s)) : new[a + k - 1] = File!Format(s)[k],
           Closes(new, a + Len(File!Format(s)))
    PROVE  File!TomlSource(new, a + 1) = File!Declared[s]
<1> DEFINE c == a + Len(File!Format(s))
<1>1. /\ Len(new) \in Nat /\ DOMAIN new = 1 .. Len(new)
      /\ s.complete \in BOOLEAN
      /\ File!Declared[s] = [id |-> Decoded[s.id], raw |-> Captured[s.id],
                             type |-> s.type, complete |-> s.complete]
  <2>1. s \in File!Description
    BY FileAssumption DEF File!ConfigAssumption
  <2>2. QED
    BY <2>1, LenProperties DEF File!Description, File!Declared
<1>2. /\ c \in Nat /\ \/ c = a + 4 /\ s.complete = FALSE
                      \/ c = a + 5 /\ s.complete = TRUE
      /\ a + 3 < c /\ c <= Len(new) + 1
  <2>1. \/ Len(File!Format(s)) = 4 /\ s.complete = FALSE
        \/ Len(File!Format(s)) = 5 /\ s.complete = TRUE /\ File!Format(s)[5] = File!L("fields")
    BY FormattedLines
  <2>2. a + Len(File!Format(s)) - 1 <= Len(new)
    OBVIOUS
  <2> DEFINE n == Len(File!Format(s))
  <2>3. (n = 4 \/ n = 5) => c = a + n /\ c \in Nat /\ a + 3 < c /\ c <= Len(new) + 1
    <3>1. c = a + n /\ a + n - 1 <= Len(new)
      BY <2>2
    <3> HIDE DEF n, c
    <3>2. QED
      BY <1>1, <3>1
  <2> HIDE DEF c, n
  <2>4. CASE Len(File!Format(s)) = 4 /\ s.complete = FALSE
    BY <2>3, <2>4 DEF n
  <2>5. CASE Len(File!Format(s)) = 5 /\ s.complete = TRUE
    BY <2>3, <2>5 DEF n
  <2>6. QED
    BY <2>1, <2>4, <2>5
<1>3. /\ new[a + 1] = File!L("[[sources]]") /\ new[a + 2] = File!IdLine(s.id)
           /\ new[a + 3] = File!KV("type", s.type)
      /\ c = a + 5 => new[a + 4] = File!L("fields")
  <2>1. /\ Len(File!Format(s)) = 4 \/ (Len(File!Format(s)) = 5
             /\ File!Format(s)[5] = File!L("fields"))
        /\ File!Format(s)[2] = File!L("[[sources]]") /\ File!Format(s)[3] = File!IdLine(s.id)
        /\ File!Format(s)[4] = File!KV("type", s.type)
    <3>1. /\ \/ Len(File!Format(s)) = 4 /\ s.complete = FALSE
             \/ Len(File!Format(s)) = 5 /\ s.complete = TRUE
                  /\ File!Format(s)[5] = File!L("fields")
          /\ File!Format(s)[2] = File!L("[[sources]]") /\ File!Format(s)[3] = File!IdLine(s.id)
          /\ File!Format(s)[4] = File!KV("type", s.type)
      BY FormattedLines
    <3>2. QED
      BY <3>1
  <2>2. \A k \in 2 .. 4 : k \in 1 .. Len(File!Format(s)) /\ new[a + k - 1] = File!Format(s)[k]
    BY <2>1
  <2>3. a + 2 - 1 = a + 1 /\ a + 3 - 1 = a + 2 /\ a + 4 - 1 = a + 3 /\ a + 5 - 1 = a + 4
    OBVIOUS
  <2>4. new[a + 2 - 1] = File!Format(s)[2] /\ new[a + 3 - 1] = File!Format(s)[3]
          /\ new[a + 4 - 1] = File!Format(s)[4]
    BY <2>2
  <2>5. ASSUME c = a + 5 PROVE new[a + 4] = File!L("fields")
    <3>1. 5 \in 1 .. Len(File!Format(s)) /\ File!Format(s)[5] = File!L("fields")
      <4>1. \A n \in {4, 5} : a + n = a + 5 => n = 5
        OBVIOUS
      <4>2. Len(File!Format(s)) = 5
        BY <2>1, <2>5, <4>1
      <4>3. QED
        BY <2>1, <4>1, <4>2
    <3>2. new[a + 5 - 1] = File!Format(s)[5]
      BY <3>1
    <3>3. QED
      BY <2>3, <3>1, <3>2
  <2>6. new[a + 1] = File!L("[[sources]]") /\ new[a + 2] = File!IdLine(s.id)
          /\ new[a + 3] = File!KV("type", s.type)
    BY <2>1, <2>3, <2>4
  <2>7. QED
    BY <2>5, <2>6
<1>4. Closes(new, c)
  OBVIOUS
<1> HIDE DEF c
<1>5. a \in Nat /\ c \in Nat /\ Len(new) \in Nat /\ DOMAIN new = 1 .. Len(new)
         /\ c <= Len(new) + 1
         /\ a + 3 < c
  BY <1>1, <1>2
<1>6. \A k \in a + 2 .. c - 1 : k = a + 2 \/ k = a + 3 \/ (k = a + 4 /\ c = a + 5)
  BY <1>2
<1>7. \A k \in a + 2 .. c - 1 : new[k].kind \in Fields
  BY <1>3, <1>6 DEF Fields, File!L, File!KV, File!IdLine
<1>8. ASSUME NEW kind \in Fields, NEW j \in Own(new, a + 1, kind)
      PROVE  j \in a + 2 .. c - 1 /\ new[j].kind = kind
  <2>1. /\ j \in Nat /\ j <= Len(new) /\ a + 1 < j /\ new[j].kind = kind /\ kind # "blank"
        /\ \A k \in a + 1 + 1 .. j : new[k].kind \notin File!Headers
    BY <1>1 DEF Own, Fields
  <2>2. ~(c <= j)
    <3>1. ASSUME c <= j PROVE FALSE
      <4>1. j \in c .. Len(new) /\ c \in a + 1 + 1 .. j
        BY <1>2, <2>1, <3>1
      <4>2. c <= Len(new) /\ File!EndsBlock(new[c])
        BY <1>4, <2>1, <4>1 DEF Closes
      <4>3. QED
        BY <2>1, <4>1, <4>2 DEF File!EndsBlock, File!Headers
    <3>2. QED
      BY <3>1
  <2>3. j \in Nat /\ a + 1 < j /\ ~(c <= j)
    BY <2>1, <2>2
  <2>4. j \in a + 2 .. c - 1
    BY <1>5, <2>3
  <2>5. QED
    BY <2>1, <2>4
<1>9. ASSUME NEW kind \in Fields, NEW j \in a + 2 .. c - 1, new[j].kind = kind
      PROVE  j \in Own(new, a + 1, kind)
  <2>1. j \in DOMAIN new /\ a + 1 < j
    BY <1>5
  <2>2. \A k \in a + 1 + 1 .. j : k \in a + 2 .. c - 1
    BY <1>5
  <2>3. \A k \in Fields : k \notin File!Headers
    BY DEF Fields, File!Headers
  <2>4. QED
    BY <1>7, <1>9, <2>1, <2>2, <2>3 DEF Own
<1>10. /\ File!IdLine(s.id).kind = "id" /\ File!IdLine(s.id).value = Decoded[s.id]
       /\ File!IdLine(s.id).raw = Captured[s.id]
       /\ File!KV("type", s.type).kind = "type" /\ File!KV("type", s.type).value = s.type
       /\ File!L("fields").kind = "fields"
  BY DEF File!KV, File!L, File!IdLine
<1>11. /\ new[a + 2].kind = "id" /\ new[a + 3].kind = "type"
       /\ c = a + 5 => new[a + 4].kind = "fields"
  BY <1>3, <1>10
<1>12. a + 2 \in a + 2 .. c - 1 /\ a + 3 \in a + 2 .. c - 1
  BY <1>5
<1>13. "id" \in Fields /\ "type" \in Fields /\ "fields" \in Fields
  BY DEF Fields
<1>14. Own(new, a + 1, "id") = {a + 2}
  <2>1. a + 2 \in Own(new, a + 1, "id")
    BY <1>9, <1>11, <1>12, <1>13
  <2>2. ASSUME NEW j \in Own(new, a + 1, "id") PROVE j = a + 2
    <3>1. j \in a + 2 .. c - 1 /\ new[j].kind = "id"
      BY <1>8, <1>13
    <3>2. QED
      BY <1>6, <1>11, <3>1
  <2>3. QED
    BY <2>1, <2>2
<1>15. Own(new, a + 1, "type") = {a + 3}
  <2>1. a + 3 \in Own(new, a + 1, "type")
    BY <1>9, <1>11, <1>12, <1>13
  <2>2. ASSUME NEW j \in Own(new, a + 1, "type") PROVE j = a + 3
    <3>1. j \in a + 2 .. c - 1 /\ new[j].kind = "type"
      BY <1>8, <1>13
    <3>2. QED
      BY <1>6, <1>11, <3>1
  <2>3. QED
    BY <2>1, <2>2
<1>16. (Own(new, a + 1, "fields") # {}) = s.complete
  <2>1. "fields" \in Fields
    BY DEF Fields
  <2>2. CASE s.complete = TRUE /\ c = a + 5
    <3>1. a + 4 \in a + 2 .. c - 1 /\ new[a + 4].kind = "fields"
      BY <1>1, <1>11, <2>2
    <3>2. a + 4 \in Own(new, a + 1, "fields")
      BY <1>9, <2>1, <3>1
    <3>3. QED
      BY <2>2, <3>2
  <2>3. CASE s.complete = FALSE /\ c = a + 4
    <3>1. c # a + 5
      BY <1>1, <2>3
    <3>2. \A j \in a + 2 .. c - 1 : new[j].kind # "fields"
      BY <1>6, <1>11, <3>1
    <3>3. Own(new, a + 1, "fields") = {}
      BY <1>8, <2>1, <3>2
    <3>4. QED
      BY <2>3, <3>3
  <2>4. QED
    BY <1>2, <2>2, <2>3
<1>17. \A k \in Nat : File!Min({k}) = k
  <2>1. ASSUME NEW k \in Nat PROVE File!Min({k}) = k
    <3>1. {k} \subseteq Nat /\ {k} # {}
      OBVIOUS
    <3>2. File!Min({k}) \in {k}
      BY <3>1, LeastNumber
    <3>3. QED
      BY <3>2
  <2>2. QED
    BY <2>1
<1>18. /\ FirstValue(new, {a + 2}) = Decoded[s.id] /\ FirstRaw(new, {a + 2}) = Captured[s.id]
       /\ FirstValue(new, {a + 3}) = s.type
  <2>1. \A k \in Nat : FirstValue(new, {k}) = new[k].value /\ FirstRaw(new, {k}) = new[k].raw
    BY <1>17 DEF FirstValue, FirstRaw
  <2>2. a + 2 \in Nat /\ a + 3 \in Nat
    BY <1>1
  <2>3. new[a + 2].value = Decoded[s.id] /\ new[a + 2].raw = Captured[s.id]
          /\ new[a + 3].value = s.type
    BY <1>3, <1>10
  <2>4. QED
    BY <2>1, <2>2, <2>3
<1>19. a + 1 \in DOMAIN new
  BY <1>1, <1>2
<1>20. File!TomlSource(new, a + 1) = [id |-> Decoded[s.id], raw |-> Captured[s.id],
                                      type |-> s.type, complete |-> s.complete]
  BY <1>14, <1>15, <1>16, <1>18, <1>19, TomlSourceOwn
<1>21. QED
  BY <1>1, <1>20

LEMMA DeclaredIsSource == ASSUME NEW s \in NewSources PROVE File!Declared[s] \in File!Source
<1>1. /\ s \in File!Description
      /\ Decoded[s.id] \in Ids \cup {File!NoValue} /\ Captured[s.id] \in Ids \cup {File!Garbled}
  BY FileAssumption DEF File!ConfigAssumption, File!Description
<1>2. QED
  BY <1>1 DEF File!Declared, File!Description, File!Source

LEMMA ClosesAfter ==
    ASSUME NEW lines \in Seq(File!Line), NEW new \in Seq(File!Line), NEW a, NEW b, NEW c,
           Edits(new, lines, a, b, c)
    PROVE  Closes(new, c)
<1>1. Replaces(new, lines, a, b, c) /\ Closes(lines, b)
  BY DEF Edits
<1>2. /\ Len(lines) \in Nat /\ b \in Nat /\ c \in Nat /\ Len(new) \in Nat
      /\ Len(new) = c + Len(lines) - b
  BY <1>1, EditNumbers
<1>3. \A k \in b .. Len(lines) : k - b + c \in c .. Len(new) /\ new[k - b + c] = lines[k]
  BY <1>1, EditNumbers
<1>4. \A k \in c .. Len(new) : k - c + b \in b .. Len(lines) /\ new[k] = lines[k - c + b]
  BY <1>1, EditNumbers
<1>5. ASSUME \A k \in b .. Len(lines) : lines[k].kind = "blank"
      PROVE  Closes(new, c)
  <2>1. \A k \in c .. Len(new) : new[k].kind = "blank"
    BY <1>4, <1>5
  <2>2. QED
    BY <2>1 DEF Closes
<1>6. ASSUME b <= Len(lines), File!EndsBlock(lines[b])
      PROVE  Closes(new, c)
  <2>1. b \in b .. Len(lines) /\ b - b + c = c /\ c <= Len(new)
    BY <1>2, <1>6
  <2>2. new[b - b + c] = lines[b]
    BY <1>3, <2>1
  <2>3. QED
    BY <1>6, <2>1, <2>2 DEF Closes
<1>7. QED
  BY <1>1, <1>5, <1>6 DEF Closes

\* Numbers A[1], ..., A[n] in order: those from p to q - 1 are taken out, the later
\* ones move, and w numbers come in between.
Renumbered(A, n, p, q, w, a, b, c) ==
    [k \in 1 .. n - (q - p) + w |->
        IF k < p THEN A[k] ELSE IF k < p + w THEN a + 1 ELSE A[k - w - p + q] - b + c]

\* Where the numbers are, and what an edit makes of them.
Splits(A, n, p, q, a, b) ==
    /\ \A j, k \in 1 .. n : j < k => A[j] < A[k]
    /\ \A k \in 1 .. n : \/ k < p /\ A[k] < a
                         \/ p <= k /\ k < q /\ a <= A[k] /\ A[k] < b
                         \/ q <= k /\ b <= A[k]

Moved(S, T, a, b, c) ==
    /\ \A i \in S : (i < a => i \in T) /\ (b <= i => i - b + c \in T)
    /\ \A i \in T : \/ i < a /\ i \in S
                    \/ c # a /\ i = a + 1
                    \/ c <= i /\ i - c + b \in S
    /\ c # a => a + 1 \in T

LEMMA RenumberedOrder ==
    ASSUME NEW S \in SUBSET Nat, NEW T \in SUBSET Nat, NEW n \in Nat, NEW A \in [1 .. n -> S],
           \A i \in S : \E k \in 1 .. n : A[k] = i,
           NEW p \in 1 .. n + 1, NEW q \in p .. n + 1, NEW w \in {0, 1},
           NEW a \in Nat, NEW b \in Nat, NEW c \in Nat, a <= b,
           (w = 0 /\ c = a) \/ (w = 1 /\ a + 1 < c),
           Splits(A, n, p, q, a, b), Moved(S, T, a, b, c)
    PROVE  LET g == Renumbered(A, n, p, q, w, a, b, c)
               N == n - (q - p) + w
           IN  N \in Nat /\ g \in [1 .. N -> T] /\ InOrder(g, 1 .. N, T)
<1> DEFINE g == Renumbered(A, n, p, q, w, a, b, c)
           N == n - (q - p) + w
<1>1. N \in Nat
  OBVIOUS
<1>2. \A k \in 1 .. n : A[k] \in S /\ A[k] \in Nat
  OBVIOUS
<1>3. \A k \in 1 .. N :
        /\ k < p => k \in 1 .. n /\ g[k] = A[k]
        /\ p <= k /\ k < p + w => g[k] = a + 1
        /\ p + w <= k => k - w - p + q \in q .. n /\ k - w - p + q \in 1 .. n
                         /\ g[k] = A[k - w - p + q] - b + c
  <2>1. \A k \in 1 .. N : g[k] = IF k < p THEN A[k] ELSE IF k < p + w THEN a + 1
          ELSE A[k - w - p + q] - b + c
    BY DEF Renumbered
  <2>2. \A k \in 1 .. N :
          /\ k < p => k \in 1 .. n
          /\ p + w <= k => k - w - p + q \in q .. n /\ k - w - p + q \in 1 .. n
    OBVIOUS
  <2>3. \A k \in 1 .. N : (p <= k => ~(k < p)) /\ (p + w <= k => ~(k < p) /\ ~(k < p + w))
    OBVIOUS
  <2> HIDE DEF g, N
  <2>4. QED
    BY <2>1, <2>2, <2>3
<1>4. \A k \in 1 .. n :
        /\ k < p => A[k] < a
        /\ q <= k => b <= A[k]
        /\ A[k] < a => k < p
        /\ b <= A[k] => q <= k
  BY <1>2 DEF Splits
<1>5. \A k \in 1 .. N : k < p \/ (p <= k /\ k < p + w) \/ p + w <= k
  OBVIOUS
<1>6. /\ \A i \in S : (i < a => i \in T) /\ (b <= i => i - b + c \in T)
      /\ w = 1 => a + 1 \in T
  BY DEF Moved
<1>7. DOMAIN g = 1 .. N /\ g = [k \in 1 .. N |-> g[k]]
  BY DEF Renumbered
<1> HIDE DEF g
<1>8. ASSUME NEW k \in 1 .. N PROVE g[k] \in T
  <2>1. CASE k < p
    BY <1>2, <1>3, <1>4, <1>6, <2>1
  <2>2. CASE p <= k /\ k < p + w
    <3>1. w = 1
      BY <2>2
    <3>2. QED
      BY <1>3, <1>6, <2>2, <3>1
  <2>3. CASE p + w <= k
    <3>1. PICK l \in 1 .. n : l \in q .. n /\ g[k] = A[l] - b + c
      BY <1>3, <2>3
    <3>2. q <= l
      BY <3>1
    <3>3. A[l] \in S /\ b <= A[l]
      BY <1>2, <1>4, <3>2
    <3>4. QED
      BY <1>6, <3>1, <3>3
  <2>4. QED
    BY <1>5, <2>1, <2>2, <2>3
<1>9. g \in [1 .. N -> T]
  BY <1>7, <1>8
<1>10. ASSUME NEW j \in 1 .. N, NEW k \in 1 .. N, j < k PROVE g[j] < g[k]
  <2>1. \A i, l \in 1 .. n : i < l => A[i] < A[l]
    BY DEF Splits
  <2>2. a \in Nat /\ c \in Nat /\ b \in Nat /\ a <= c
    OBVIOUS
  <2>3. CASE k < p
    <3>1. j < p
      BY <2>3, <1>10
    <3>2. QED
      BY <1>3, <1>10, <2>1, <2>3, <3>1
  <2>4. CASE p <= k /\ k < p + w
    <3>1. j < p
      BY <1>10, <2>4
    <3>2. j \in 1 .. n /\ g[j] = A[j] /\ g[k] = a + 1
      BY <1>3, <2>4, <3>1
    <3>3. A[j] \in Nat /\ A[j] < a
      BY <1>2, <1>4, <3>1, <3>2
    <3>4. QED
      BY <2>2, <3>2, <3>3
  <2>5. CASE p + w <= k
    <3> DEFINE l == k - w - p + q
    <3>1. l \in 1 .. n /\ q <= l /\ g[k] = A[l] - b + c
      BY <1>3, <2>5
    <3> HIDE DEF l
    <3>2. A[l] \in Nat /\ b <= A[l]
      BY <1>2, <1>4, <3>1
    <3>3. c <= g[k]
      BY <2>2, <3>1, <3>2
    <3>4. g[k] \in Nat
      BY <2>2, <3>1, <3>2
    <3>5. CASE j < p
      <4>1. g[j] = A[j] /\ A[j] \in Nat /\ A[j] < a
        BY <1>2, <1>3, <1>4, <3>5
      <4>2. QED
        BY <2>2, <3>3, <3>4, <4>1
    <3>6. CASE p <= j /\ j < p + w
      <4>1. g[j] = a + 1 /\ w = 1
        BY <1>3, <3>6
      <4>2. a + 1 < c
        BY <4>1
      <4>3. QED
        BY <2>2, <3>3, <3>4, <4>1, <4>2
    <3>7. CASE p + w <= j
      <4> DEFINE i == j - w - p + q
      <4>1. i \in 1 .. n /\ g[j] = A[i] - b + c
        BY <1>3, <3>7
      <4>2. i < l
        BY <1>10 DEF l
      <4> HIDE DEF i
      <4>3. A[i] \in Nat /\ A[i] < A[l]
        BY <1>2, <2>1, <3>1, <4>1, <4>2
      <4>4. QED
        BY <2>2, <3>1, <3>2, <4>1, <4>3
    <3>8. QED
      BY <1>5, <3>5, <3>6, <3>7
  <2>6. QED
    BY <1>5, <2>3, <2>4, <2>5
<1>11. ASSUME NEW t \in T PROVE \E k \in 1 .. N : g[k] = t
  <2>1. t \in Nat /\ \/ t < a /\ t \in S
                     \/ c # a /\ t = a + 1
                     \/ c <= t /\ t - c + b \in S
    BY DEF Moved
  <2>2. CASE t < a /\ t \in S
    <3>1. PICK k \in 1 .. n : A[k] = t
      BY <2>2
    <3>2. k < p
      BY <1>4, <2>2, <3>1
    <3>3. k \in 1 .. N
      BY <3>2
    <3>4. QED
      BY <1>3, <3>1, <3>2, <3>3
  <2>3. CASE c # a /\ t = a + 1
    <3>1. w = 1
      BY <2>3
    <3>2. p \in 1 .. N /\ p <= p /\ p < p + w
      BY <3>1
    <3>3. QED
      BY <1>3, <2>3, <3>2
  <2>4. CASE c <= t /\ t - c + b \in S
    <3>1. PICK k \in 1 .. n : A[k] = t - c + b
      BY <2>4
    <3>2. b <= A[k]
      BY <2>1, <2>4, <3>1
    <3>3. q <= k
      BY <1>4, <3>2
    <3> DEFINE j == k - q + p + w
    <3>4. j \in 1 .. N /\ p + w <= j /\ j - w - p + q = k
      BY <3>3
    <3> HIDE DEF j, N
    <3>5. g[j] = A[k] - b + c
      BY <1>3, <3>4
    <3>6. A[k] - b + c = t
      BY <2>1, <3>1
    <3>7. QED
      BY <3>4, <3>5, <3>6
  <2>5. QED
    BY <2>1, <2>2, <2>3, <2>4
<1>12. InOrder(g, 1 .. N, T)
  BY <1>9, <1>10, <1>11 DEF InOrder
<1>13. QED
  BY <1>1, <1>9, <1>12 DEF g

\* Where the number k goes that stands behind those taken out, and back.
Sent(k, n, p, q, w) ==
    /\ k \in 1 .. n /\ k - q + p + w \in 1 .. n - (q - p) + w
    /\ ~(k - q + p + w < p) /\ ~(k - q + p + w < p + w) /\ (k - q + p + w) - w - p + q = k
    /\ ~(k < p) /\ ~(k < q)

\* So of the sources that TOML reads, those whose blocks are taken out go, and one
\* comes for the block that is put in.
LEMMA TomlAfter ==
    ASSUME NEW lines \in Seq(File!Line), NEW new \in Seq(File!Line), Plain(lines), NEW a, NEW b,
             NEW c,
           Edits(new, lines, a, b, c), NEW w \in {0, 1}, (w = 0 /\ c = a) \/ (w = 1 /\ c # a),
           NEW p \in 1 .. Len(File!Toml(lines)) + 1, NEW q \in p .. Len(File!Toml(lines)) + 1,
           \A k \in 1 .. Len(File!Toml(lines)) :
                \/ k < p /\ File!Ascending(File!Starts(lines))[k] < a
                \/ p <= k /\ k < q /\ a <= File!Ascending(File!Starts(lines))[k]
                     /\ File!Ascending(File!Starts(lines))[k] < b
                \/ q <= k /\ b <= File!Ascending(File!Starts(lines))[k]
    PROVE  /\ File!Toml(new) \in Seq(File!Source)
                /\ Len(File!Toml(new)) = Len(File!Toml(lines)) - (q - p) + w
           /\ \A k \in 1 .. p - 1 : File!Toml(new)[k] = File!Toml(lines)[k]
           /\ w = 1 => File!Toml(new)[p] = File!TomlSource(new, a + 1)
           /\ \A k \in q .. Len(File!Toml(lines)) :
                File!Toml(new)[k - q + p + w] = File!Toml(lines)[k]
<1> DEFINE n == Len(File!Toml(lines))
           S == File!Starts(lines)
           T == File!Starts(new)
           A == [k \in 1 .. n |-> File!Ascending(S)[k]]
           N == n - (q - p) + w
           g == Renumbered(A, n, p, q, w, a, b, c)
<1>1. Plain(new)
  BY EditedIsPlain
<1>2. /\ Len(lines) \in Nat /\ S \in SUBSET (0 .. Len(lines)) /\ S \in SUBSET Nat
           /\ S \in SUBSET DOMAIN lines
      /\ T \in SUBSET Nat /\ T \in SUBSET DOMAIN new
  BY StartsAreLines
<1>3. /\ n \in Nat /\ n = Cardinality(S)
      /\ \A k \in 1 .. n : File!Ascending(S)[k] \in S
           /\ File!Toml(lines)[k] = File!TomlSource(lines, File!Ascending(S)[k])
  BY TomlOfPlain
<1>4. Replaces(new, lines, a, b, c) /\ PutsIn(new, a, c)
  BY DEF Edits
<1>5. a \in Nat /\ b \in Nat /\ c \in Nat /\ a <= b /\ a <= c
  BY <1>4, EditNumbers
<1>6. (w = 0 /\ c = a) \/ (w = 1 /\ a + 1 < c)
  <2>1. c # a => c \in a + 4 .. a + 5
    BY <1>4 DEF PutsIn
  <2>2. QED
    BY <1>5, <2>1
<1>7. Moved(S, T, a, b, c)
  BY StartsAfter DEF Moved
<1>8. /\ \A j, k \in 1 .. n : j < k => File!Ascending(S)[j] < File!Ascending(S)[k]
      /\ \A i \in S : \E k \in 1 .. n : File!Ascending(S)[k] = i
  <2>1. Len(lines) \in Nat /\ S \in SUBSET (0 .. Len(lines))
    BY <1>2
  <2>2. \A j, k \in 1 .. Cardinality(S) : j < k => File!Ascending(S)[j] < File!Ascending(S)[k]
    BY <2>1, AscendingOrder
  <2>3. \A i \in S : \E k \in 1 .. Cardinality(S) : File!Ascending(S)[k] = i
    BY <2>1, AscendingOrder
  <2>4. QED
    BY <1>3, <2>2, <2>3
<1>9. p \in 1 .. n + 1 /\ q \in p .. n + 1
  OBVIOUS
<1>10. \A k \in 1 .. n :
          \/ k < p /\ File!Ascending(S)[k] < a
          \/ p <= k /\ k < q /\ a <= File!Ascending(S)[k] /\ File!Ascending(S)[k] < b
          \/ q <= k /\ b <= File!Ascending(S)[k]
  OBVIOUS
<1> HIDE DEF n, S, T
<1>11. /\ A \in [1 .. n -> S] /\ \A k \in 1 .. n : A[k] = File!Ascending(S)[k]
       /\ \A i \in S : \E k \in 1 .. n : A[k] = i
  BY <1>3, <1>8
<1> HIDE DEF A
<1>12. Splits(A, n, p, q, a, b)
  BY <1>8, <1>10, <1>11 DEF Splits
<1>13. N \in Nat /\ g \in [1 .. N -> T] /\ InOrder(g, 1 .. N, T)
  <2>1. S \in SUBSET Nat /\ T \in SUBSET Nat /\ n \in Nat /\ A \in [1 .. n -> S]
    BY <1>2, <1>3, <1>11
  <2>2. \A i \in S : \E k \in 1 .. n : A[k] = i
    BY <1>11
  <2>3. QED
    BY <1>5, <1>6, <1>7, <1>9, <1>12, <2>1, <2>2, RenumberedOrder
<1>14. \A k \in 1 .. N : g[k] = IF k < p THEN A[k] ELSE IF k < p + w THEN a + 1
         ELSE A[k - w - p + q] - b + c
  BY DEF Renumbered
<1> HIDE DEF g, N
<1>15. Len(File!Toml(new)) = N /\ \A k \in 1 .. N : File!Toml(new)[k] = File!TomlSource(new, g[k])
  BY <1>1, <1>13, TomlIs DEF T
<1>16. ASSUME NEW k \in 1 .. p - 1 PROVE File!Toml(new)[k] = File!Toml(lines)[k]
  <2>1. k \in 1 .. n /\ k \in 1 .. N /\ k < p /\ ~(p <= k) /\ ~(q <= k)
    BY <1>3, <1>9 DEF N
  <2>2. A[k] \in DOMAIN lines /\ A[k] = File!Ascending(S)[k] /\ A[k] < a
    BY <1>2, <1>3, <1>10, <1>11, <2>1
  <2>3. g[k] = A[k]
    BY <1>14, <2>1
  <2>4. File!TomlSource(new, A[k]) = File!TomlSource(lines, A[k])
    BY <2>2, SourceKept
  <2>5. QED
    BY <1>3, <1>15, <2>1, <2>2, <2>3, <2>4
<1>17. ASSUME w = 1 PROVE File!Toml(new)[p] = File!TomlSource(new, a + 1)
  <2>1. p \in 1 .. N /\ ~(p < p) /\ p < p + w
    BY <1>3, <1>9, <1>17 DEF N
  <2>2. QED
    BY <1>14, <1>15, <2>1
<1>18. ASSUME NEW k \in q .. n PROVE File!Toml(new)[k - q + p + w] = File!Toml(lines)[k]
  <2> DEFINE j == k - q + p + w
  <2>1. /\ k \in 1 .. n /\ j \in 1 .. N /\ ~(j < p) /\ ~(j < p + w) /\ j - w - p + q = k
        /\ ~(k < p) /\ ~(k < q)
    <3>1. \A n1 \in Nat : \A p1 \in 1 .. n1 + 1 : \A q0 \in p1 .. n1 + 1 : \A w1 \in {0, 1} :
             \A k1 \in q0 .. n1 : Sent(k1, n1, p1, q0, w1)
      BY DEF Sent
    <3>2. Sent(k, n, p, q, w)
      BY <1>3, <1>9, <3>1
    <3>3. QED
      BY <3>2 DEF Sent, N
  <2> HIDE DEF j
  <2>2. A[k] \in DOMAIN lines /\ A[k] = File!Ascending(S)[k] /\ b <= A[k]
    BY <1>2, <1>3, <1>10, <1>11, <2>1
  <2>3. g[j] = A[k] - b + c
    BY <1>14, <2>1
  <2>4. File!TomlSource(new, A[k] - b + c) = File!TomlSource(lines, A[k])
    BY <2>2, SourceKept
  <2>5. QED
    BY <1>3, <1>15, <2>1, <2>2, <2>3, <2>4 DEF j
<1>19. File!Toml(new) \in Seq(File!Source)
  BY TomlTypes
<1>20. QED
  BY <1>15, <1>16, <1>17, <1>18, <1>19 DEF n, N

\* Where the first block of an id is among the sources.
LEMMA TargetPlace ==
    ASSUME NEW lines \in Seq(File!Line), Plain(lines), NEW id, File!Targets(lines, id) # {}
    PROVE  LET at == File!Min(File!Targets(lines, id)) IN
           \E p \in 1 .. Len(File!Toml(lines)) :
              /\ p \in File!List!First(File!Toml(lines), id)
                   /\ File!Ascending(File!Starts(lines))[p] = at
              /\ \A k \in 1 .. Len(File!Toml(lines)) :
                   /\ k < p => File!Ascending(File!Starts(lines))[k] < at
                   /\ p < k => File!End(lines, at) <= File!Ascending(File!Starts(lines))[k]
<1> DEFINE at  == File!Min(File!Targets(lines, id))
           end == File!End(lines, at)
           n   == Len(File!Toml(lines))
           S   == File!Starts(lines)
<1>1. /\ Len(lines) \in Nat /\ S \in SUBSET (0 .. Len(lines)) /\ S \subseteq 1 .. Len(lines)
      /\ S \subseteq Nat /\ DOMAIN lines = 1 .. Len(lines)
  BY StartsAreLines
<1>2. at \in File!Targets(lines, id) /\ \A k \in File!Targets(lines, id) : at <= k
  <2>1. File!Targets(lines, id) \subseteq Nat /\ File!Targets(lines, id) # {}
    BY <1>1 DEF File!Targets
  <2>2. QED
    BY <2>1, LeastNumber
<1>3. at \in S /\ end \in at + 1 .. Len(lines) + 1
        /\ \A k \in at + 1 .. end - 1 : ~File!EndsBlock(lines[k])
  <2>1. at \in S
    BY <1>2 DEF File!Targets
  <2>2. QED
    BY <2>1, FirstTarget
<1>4. /\ n \in Nat /\ n = Cardinality(S) /\ File!Toml(lines) \in Seq(File!Source)
      /\ \A k \in 1 .. n : File!Ascending(S)[k] \in S
           /\ File!Toml(lines)[k] = File!TomlSource(lines, File!Ascending(S)[k])
  BY TomlOfPlain
<1>5. /\ \A j, k \in 1 .. n : j < k => File!Ascending(S)[j] < File!Ascending(S)[k]
      /\ \A i \in S : \E k \in 1 .. n : File!Ascending(S)[k] = i
  BY <1>1, <1>4, AscendingOrder
<1>6. \A i \in S : i \in DOMAIN lines /\ lines[i].kind = "[[sources]]"
        /\ File!BlockId(lines, i) = File!TomlSource(lines, i).raw
  <2>1. \A i \in S : i \in DOMAIN lines /\ lines[i].kind = "[[sources]]"
    BY StartsOfPlain
  <2>2. QED
    BY <2>1, BlockIdIsSourceId
<1>7. \A i \in S : i \in File!Targets(lines, id) <=> File!TomlSource(lines, i).raw = id
  BY <1>6 DEF File!Targets
<1>8. PICK p \in 1 .. n : File!Ascending(S)[p] = at
  BY <1>3, <1>5
<1> HIDE DEF at, end, n, S
<1>9. ASSUME NEW k \in 1 .. n, k < p PROVE File!Ascending(S)[k] < at
               /\ File!Toml(lines)[k].raw # id
  <2>1. File!Ascending(S)[k] < at
    BY <1>5, <1>8, <1>9
  <2>2. File!Ascending(S)[k] \in S /\ File!Ascending(S)[k] \in Nat /\ at \in Nat
    BY <1>1, <1>3, <1>4
  <2>3. ~(at <= File!Ascending(S)[k])
    BY <2>1, <2>2
  <2>4. File!Ascending(S)[k] \notin File!Targets(lines, id)
    BY <1>2, <2>3
  <2>5. QED
    BY <1>4, <1>7, <2>1, <2>2, <2>4
<1>10. ASSUME NEW k \in 1 .. n, p < k PROVE end <= File!Ascending(S)[k]
  <2>1. at < File!Ascending(S)[k]
    BY <1>5, <1>8, <1>10
  <2>2. /\ File!Ascending(S)[k] \in S /\ File!Ascending(S)[k] \in Nat /\ at \in Nat /\ end \in Nat
        /\ File!Ascending(S)[k] <= Len(lines)
    <3>1. File!Ascending(S)[k] \in S /\ \A i \in S : i \in 1 .. Len(lines)
      BY <1>1, <1>4
    <3>2. File!Ascending(S)[k] \in 1 .. Len(lines) /\ at \in 1 .. Len(lines)
      BY <1>3, <3>1
    <3>3. QED
      BY <1>1, <1>3, <3>1, <3>2
  <2>3. File!EndsBlock(lines[File!Ascending(S)[k]])
    BY <1>6, <2>2 DEF File!EndsBlock
  <2>4. File!Ascending(S)[k] \notin at + 1 .. end - 1
    BY <1>3, <2>3
  <2>5. QED
    BY <1>1, <2>1, <2>2, <2>4
<1>11. DOMAIN File!Toml(lines) = 1 .. n
  BY <1>4, LenProperties DEF n
<1>12. p \in File!List!First(File!Toml(lines), id)
  <2>1. File!Toml(lines)[p].raw = id
    BY <1>2, <1>3, <1>4, <1>7, <1>8
  <2>2. \A k \in 1 .. p - 1 : k \in 1 .. n /\ k < p
    BY <1>4
  <2>3. QED
    BY <1>9, <1>11, <2>1, <2>2 DEF File!List!First
<1>13. QED
  BY <1>8, <1>9, <1>10, <1>12 DEF at, end, n, S

\* A block is put in below the last one: a source is appended.
LEMMA WrittenToml ==
    ASSUME NEW lines \in Seq(File!Line), Plain(lines), NEW s \in NewSources
    PROVE  LET new == File!Written(lines, s)
               at  == File!NewBlockAt(lines)
           IN  /\ new \in Seq(File!Line) /\ Edits(new, lines, at, at, at + Len(File!Format(s)))
               /\ File!Toml(new) = Append(File!Toml(lines), File!Declared[s])
<1> DEFINE new == File!Written(lines, s)
           d   == File!Declared[s]
           at  == File!NewBlockAt(lines)
           c   == at + Len(File!Format(s))
           n   == Len(File!Toml(lines))
           old == File!Toml(lines)
<1>1. Len(lines) \in Nat /\ File!Starts(lines) \subseteq Nat
  BY StartsAreLines
<1>2. /\ at \in 1 .. Len(lines) + 1 /\ Closes(lines, at) /\ \A i \in File!Starts(lines) : i < at
      /\ new = Splice(lines, at, File!Format(s), at)
  BY WrittenEdits
<1> HIDE DEF new, at
<1>3. at \in at .. Len(lines) + 1 /\ TakesOut(lines, at, at)
  BY <1>1, <1>2 DEF TakesOut
<1>4. /\ new \in Seq(File!Line) /\ Edits(new, lines, at, at, c)
      /\ \A k \in 1 .. Len(File!Format(s)) : new[at + k - 1] = File!Format(s)[k]
  BY <1>2, <1>3, BlockPutIn
<1>5. Len(File!Format(s)) \in Nat /\ Len(File!Format(s)) # 0
  <2>1. \/ Len(File!Format(s)) = 4 /\ s.complete = FALSE
        \/ Len(File!Format(s)) = 5 /\ s.complete = TRUE /\ File!Format(s)[5] = File!L("fields")
    BY FormattedLines
  <2>2. Len(File!Format(s)) = 4 \/ Len(File!Format(s)) = 5
    BY <2>1
  <2>3. \A k : k = 4 \/ k = 5 => k \in Nat /\ k # 0
    OBVIOUS
  <2>4. QED
    BY <2>2, <2>3
<1>6. Replaces(new, lines, at, at, c)
  BY <1>4 DEF Edits
<1>7. Len(new) = c + Len(lines) - at /\ Len(new) \in Nat
  BY <1>4, <1>6, EditNumbers
<1>8. File!TomlSource(new, at + 1) = d
  <2>1. Closes(new, c)
    BY <1>4, ClosesAfter
  <2>2. at \in Nat \ {0} /\ at + Len(File!Format(s)) - 1 <= Len(new)
    BY <1>1, <1>2, <1>5, <1>7
  <2>3. QED
    BY <1>4, <2>1, <2>2, SourcePutIn
<1>9. c # at
  BY <1>1, <1>2, <1>5
<1>10. /\ n \in Nat /\ old \in Seq(File!Source)
       /\ \A k \in 1 .. n : File!Ascending(File!Starts(lines))[k] \in File!Starts(lines)
  BY TomlOfPlain
<1>11. /\ n + 1 \in 1 .. n + 1 /\ n + 1 \in n + 1 .. n + 1
       /\ \A k \in 1 .. n : k < n + 1 /\ File!Ascending(File!Starts(lines))[k] < at
  BY <1>2, <1>10
<1> HIDE DEF c
<1>12. /\ File!Toml(new) \in Seq(File!Source) /\ Len(File!Toml(new)) = n - (n + 1 - (n + 1)) + 1
       /\ \A k \in 1 .. n + 1 - 1 : File!Toml(new)[k] = old[k]
       /\ File!Toml(new)[n + 1] = File!TomlSource(new, at + 1)
  <2> DEFINE one == 1
             p == n + 1
  <2>1. one \in {0, 1} /\ one = 1 /\ p \in 1 .. n + 1 /\ p \in p .. n + 1
    BY <1>11
  <2>2. /\ \A k \in 1 .. n :
             \/ k < p /\ File!Ascending(File!Starts(lines))[k] < at
             \/ p <= k /\ k < p /\ at <= File!Ascending(File!Starts(lines))[k]
                  /\ File!Ascending(File!Starts(lines))[k] < at
             \/ p <= k /\ at <= File!Ascending(File!Starts(lines))[k]
    BY <1>11
  <2> HIDE DEF one, p
  <2>3. /\ File!Toml(new) \in Seq(File!Source) /\ Len(File!Toml(new)) = n - (p - p) + one
        /\ \A k \in 1 .. p - 1 : File!Toml(new)[k] = old[k]
        /\ one = 1 => File!Toml(new)[p] = File!TomlSource(new, at + 1)
    BY <1>4, <1>9, <2>1, <2>2, TomlAfter
  <2>4. QED
    BY <2>1, <2>3 DEF one, p
<1>13. d \in File!Source
  BY DeclaredIsSource
<1> HIDE DEF old, d
<1>14. n = Len(old) /\ n \in Nat
  BY <1>10 DEF old
<1> HIDE DEF n
<1>15. /\ Len(File!Toml(new)) = n + 1 /\ \A k \in 1 .. n : File!Toml(new)[k] = old[k]
       /\ File!Toml(new)[n + 1] = d
  <2>1. n - (n + 1 - (n + 1)) + 1 = n + 1 /\ n + 1 - 1 = n
    BY <1>14
  <2>2. QED
    BY <1>8, <1>12, <2>1
<1>16. /\ Append(old, d) \in Seq(File!Source) /\ Len(Append(old, d)) = n + 1
       /\ \A k \in 1 .. n : Append(old, d)[k] = old[k]
       /\ Append(old, d)[n + 1] = d
  BY <1>10, <1>13, <1>14, AppendProperties
<1>17. File!Toml(new) = Append(old, d)
  <2>1. \A k \in 1 .. n + 1 : k \in 1 .. n \/ k = n + 1
    BY <1>14
  <2>2. \A k \in 1 .. n + 1 : File!Toml(new)[k] = Append(old, d)[k]
    BY <1>15, <1>16, <2>1
  <2>3. QED
    BY <1>12, <1>15, <1>16, <2>2, SeqEqual
<1>18. QED
  BY <1>4, <1>17 DEF new, at, c, old, d

\* The first block of an id is replaced: so is the first source of that id.
LEMMA UpdatedToml ==
    ASSUME NEW lines \in Seq(File!Line), Plain(lines), NEW s \in NewSources,
             File!Targets(lines, s.id) # {}
    PROVE  LET new == File!Updated(lines, s)
               at  == File!Min(File!Targets(lines, s.id))
           IN  /\ new \in Seq(File!Line) /\ Edits(new, lines, at, File!End(lines, at),
                    at + Len(File!Format(s)))
               /\ \E p \in File!List!First(File!Toml(lines), s.id) :
                    p \in 1 .. Len(File!Toml(lines))
                      /\ File!Toml(new) = [File!Toml(lines) EXCEPT ![p] = File!Declared[s]]
<1> DEFINE new == File!Updated(lines, s)
           d   == File!Declared[s]
           at  == File!Min(File!Targets(lines, s.id))
           b   == File!End(lines, at)
           c   == at + Len(File!Format(s))
           old == File!Toml(lines)
           n   == Len(old)
           one == 1
<1>1. Len(lines) \in Nat /\ File!Starts(lines) \subseteq Nat
  BY StartsAreLines
<1>2. /\ at \in 1 .. Len(lines) /\ b \in at + 1 .. Len(lines) + 1
      /\ TakesOut(lines, at, b) /\ Closes(lines, b)
  BY FirstTarget
<1>3. new = Splice(lines, at, File!Format(s), b)
  BY UpdatedEdits
<1>4. PICK p \in 1 .. n :
              /\ p \in File!List!First(old, s.id) /\ File!Ascending(File!Starts(lines))[p] = at
              /\ \A k \in 1 .. n :
                   /\ k < p => File!Ascending(File!Starts(lines))[k] < at
                   /\ p < k => b <= File!Ascending(File!Starts(lines))[k]
  BY TargetPlace
<1> HIDE DEF new, at, b
<1>5. at \in 1 .. Len(lines) + 1 /\ b \in at .. Len(lines) + 1
  BY <1>1, <1>2
<1>6. /\ new \in Seq(File!Line) /\ Edits(new, lines, at, b, c)
      /\ \A k \in 1 .. Len(File!Format(s)) : new[at + k - 1] = File!Format(s)[k]
  BY <1>2, <1>3, <1>5, BlockPutIn
<1>7. Len(File!Format(s)) \in Nat /\ Len(File!Format(s)) # 0
  <2>1. \/ Len(File!Format(s)) = 4 /\ s.complete = FALSE
        \/ Len(File!Format(s)) = 5 /\ s.complete = TRUE /\ File!Format(s)[5] = File!L("fields")
    BY FormattedLines
  <2>2. Len(File!Format(s)) = 4 \/ Len(File!Format(s)) = 5
    BY <2>1
  <2>3. \A k : k = 4 \/ k = 5 => k \in Nat /\ k # 0
    OBVIOUS
  <2>4. QED
    BY <2>2, <2>3
<1>8. Replaces(new, lines, at, b, c)
  BY <1>6 DEF Edits
<1>9. Len(new) = c + Len(lines) - b /\ Len(new) \in Nat
  BY <1>6, <1>8, EditNumbers
<1>10. File!TomlSource(new, at + 1) = d
  <2>1. Closes(new, c)
    BY <1>6, ClosesAfter
  <2>2. at \in Nat \ {0} /\ at + Len(File!Format(s)) - 1 <= Len(new)
    BY <1>1, <1>2, <1>5, <1>7, <1>9
  <2>3. QED
    BY <1>6, <2>1, <2>2, SourcePutIn
<1>11. c # at /\ d \in File!Source
  BY <1>1, <1>2, <1>7, DeclaredIsSource
<1>12. /\ n \in Nat /\ old \in Seq(File!Source)
       /\ \A k \in 1 .. n : File!Ascending(File!Starts(lines))[k] \in File!Starts(lines)
  BY TomlOfPlain
<1>13. \A k \in 1 .. n :
             \/ k < p /\ File!Ascending(File!Starts(lines))[k] < at
             \/ p <= k /\ k < p + 1 /\ at <= File!Ascending(File!Starts(lines))[k]
                  /\ File!Ascending(File!Starts(lines))[k] < b
             \/ p + 1 <= k /\ b <= File!Ascending(File!Starts(lines))[k]
  <2>1. at \in Nat /\ at <= at /\ at < b
    BY <1>1, <1>2
  <2>2. \A k \in 1 .. n : k < p \/ k = p \/ p < k
    BY <1>12
  <2>3. \A k \in 1 .. n : (k = p => p <= k /\ k < p + 1) /\ (p < k => p + 1 <= k)
    BY <1>12
  <2>4. QED
    BY <1>4, <2>1, <2>2, <2>3
<1>14. one \in {0, 1} /\ one = 1 /\ p \in 1 .. n + 1 /\ p + 1 \in p .. n + 1
  BY <1>12
<1> HIDE DEF c, one
<1>15. /\ File!Toml(new) \in Seq(File!Source) /\ Len(File!Toml(new)) = n - (p + 1 - p) + one
       /\ \A k \in 1 .. p - 1 : File!Toml(new)[k] = old[k]
       /\ one = 1 => File!Toml(new)[p] = File!TomlSource(new, at + 1)
       /\ \A k \in p + 1 .. n : File!Toml(new)[k - (p + 1) + p + one] = old[k]
  <2> DEFINE q == p + 1
  <2>1. q \in p .. n + 1
        /\ \A k \in 1 .. n :
             \/ k < p /\ File!Ascending(File!Starts(lines))[k] < at
             \/ p <= k /\ k < q /\ at <= File!Ascending(File!Starts(lines))[k]
                  /\ File!Ascending(File!Starts(lines))[k] < b
             \/ q <= k /\ b <= File!Ascending(File!Starts(lines))[k]
    BY <1>13, <1>14
  <2> HIDE DEF q
  <2>2. /\ File!Toml(new) \in Seq(File!Source) /\ Len(File!Toml(new)) = n - (q - p) + one
        /\ \A k \in 1 .. p - 1 : File!Toml(new)[k] = old[k]
        /\ one = 1 => File!Toml(new)[p] = File!TomlSource(new, at + 1)
        /\ \A k \in q .. n : File!Toml(new)[k - q + p + one] = old[k]
    BY <1>6, <1>11, <1>14, <2>1, TomlAfter
  <2>3. QED
    BY <2>2 DEF q
<1> HIDE DEF old, d
<1>16. n \in Nat /\ n = Len(old)
  BY <1>12 DEF old
<1> HIDE DEF n
<1>17. /\ Len(File!Toml(new)) = n /\ \A k \in 1 .. n : File!Toml(new)[k] = IF k = p THEN d
            ELSE old[k]
  <2>1. n - (p + 1 - p) + one = n
    BY <1>14, <1>16
  <2>2. \A k \in 1 .. n : k = p \/ k \in 1 .. p - 1
          \/ (k \in p + 1 .. n /\ k - (p + 1) + p + one = k)
    BY <1>14, <1>16
  <2>3. \A k \in 1 .. n : (k \in 1 .. p - 1 => k # p) /\ (k \in p + 1 .. n => k # p)
    BY <1>16
  <2>4. File!Toml(new)[p] = d
    BY <1>10, <1>14, <1>15
  <2>5. QED
    BY <1>15, <2>1, <2>2, <2>3, <2>4
<1> DEFINE put == [old EXCEPT ![p] = d]
<1>18. put \in Seq(File!Source) /\ Len(put) = n
         /\ \A k \in 1 .. n : put[k] = IF k = p THEN d ELSE old[k]
  BY <1>11, <1>12, <1>16, ExceptSeq
<1> HIDE DEF put
<1>19. File!Toml(new) = put
  <2>1. \A k \in 1 .. n : File!Toml(new)[k] = put[k]
    BY <1>17, <1>18
  <2>2. QED
    BY <1>15, <1>17, <1>18, <2>1, SeqEqual
<1>20. QED
  BY <1>4, <1>6, <1>19 DEF new, at, b, c, old, put, n, d

\* The first block of an id is taken out, and with it the first source of that id.
LEMMA RemovedToml ==
    ASSUME NEW lines \in Seq(File!Line), Plain(lines), NEW id, File!Targets(lines, id) # {}
    PROVE  LET new == File!Removed(lines, id) IN
           /\ new \in Seq(File!Line) /\ \E a, b, c : Edits(new, lines, a, b, c)
           /\ \E p \in File!List!First(File!Toml(lines), id) :
                p \in 1 .. Len(File!Toml(lines))
                  /\ File!Toml(new) = File!List!RemoveAt(File!Toml(lines), p)
<1> DEFINE new == File!Removed(lines, id)
           at  == File!Min(File!Targets(lines, id))
           b   == File!End(lines, at)
           from == IF at > 1 /\ lines[at - 1].kind = "blank" THEN at - 1 ELSE at
           old == File!Toml(lines)
           n   == Len(old)
           none == 0
<1>1. Len(lines) \in Nat /\ File!Starts(lines) \subseteq Nat
  BY StartsAreLines
<1>2. at \in 1 .. Len(lines) /\ b \in at + 1 .. Len(lines) + 1
  BY FirstTarget
<1>3. /\ from \in 1 .. at /\ (from # at => from = at - 1 /\ lines[from].kind = "blank")
      /\ new \in Seq(File!Line) /\ Edits(new, lines, from, b, from)
  BY RemovedEdits
<1>4. PICK p \in 1 .. n :
              /\ p \in File!List!First(old, id) /\ File!Ascending(File!Starts(lines))[p] = at
              /\ \A k \in 1 .. n :
                   /\ k < p => File!Ascending(File!Starts(lines))[k] < at
                   /\ p < k => b <= File!Ascending(File!Starts(lines))[k]
  BY TargetPlace
<1> HIDE DEF new, at, b, from
<1>5. /\ n \in Nat /\ old \in Seq(File!Source)
      /\ \A k \in 1 .. n : File!Ascending(File!Starts(lines))[k] \in File!Starts(lines)
  BY TomlOfPlain
<1>6. \A k \in 1 .. n : k < p => File!Ascending(File!Starts(lines))[k] < from
  <2>1. ASSUME NEW k \in 1 .. n, k < p PROVE File!Ascending(File!Starts(lines))[k] < from
    <3>1. File!Ascending(File!Starts(lines))[k] \in Nat
            /\ File!Ascending(File!Starts(lines))[k] < at
      BY <1>1, <1>4, <1>5, <2>1
    <3>2. lines[File!Ascending(File!Starts(lines))[k]].kind = "[[sources]]"
      BY <1>5, StartsOfPlain
    <3>3. from # at => File!Ascending(File!Starts(lines))[k] # from
      BY <1>3, <3>2
    <3>4. QED
      BY <1>2, <1>3, <3>1, <3>3
  <2>2. QED
    BY <2>1
<1>7. \A k \in 1 .. n :
             \/ k < p /\ File!Ascending(File!Starts(lines))[k] < from
             \/ p <= k /\ k < p + 1 /\ from <= File!Ascending(File!Starts(lines))[k]
                  /\ File!Ascending(File!Starts(lines))[k] < b
             \/ p + 1 <= k /\ b <= File!Ascending(File!Starts(lines))[k]
  <2>1. from <= at /\ at < b
    BY <1>1, <1>2, <1>3
  <2>2. \A k \in 1 .. n : k < p \/ k = p \/ p < k
    BY <1>5
  <2>3. \A k \in 1 .. n : (k = p => p <= k /\ k < p + 1) /\ (p < k => p + 1 <= k)
    BY <1>5
  <2>4. QED
    BY <1>4, <1>6, <2>1, <2>2, <2>3
<1>8. none \in {0, 1} /\ none = 0 /\ p \in 1 .. n + 1 /\ p + 1 \in p .. n + 1
  BY <1>5
<1> HIDE DEF none
<1>9. /\ File!Toml(new) \in Seq(File!Source) /\ Len(File!Toml(new)) = n - (p + 1 - p) + none
      /\ \A k \in 1 .. p - 1 : File!Toml(new)[k] = old[k]
      /\ \A k \in p + 1 .. n : File!Toml(new)[k - (p + 1) + p + none] = old[k]
  <2> DEFINE q == p + 1
  <2>1. q \in p .. n + 1
        /\ \A k \in 1 .. n :
             \/ k < p /\ File!Ascending(File!Starts(lines))[k] < from
             \/ p <= k /\ k < q /\ from <= File!Ascending(File!Starts(lines))[k]
                  /\ File!Ascending(File!Starts(lines))[k] < b
             \/ q <= k /\ b <= File!Ascending(File!Starts(lines))[k]
    BY <1>7, <1>8
  <2> HIDE DEF q
  <2>2. /\ File!Toml(new) \in Seq(File!Source) /\ Len(File!Toml(new)) = n - (q - p) + none
        /\ \A k \in 1 .. p - 1 : File!Toml(new)[k] = old[k]
        /\ \A k \in q .. n : File!Toml(new)[k - q + p + none] = old[k]
    BY <1>3, <1>8, <2>1, TomlAfter
  <2>3. QED
    BY <2>2 DEF q
<1> HIDE DEF old
<1>10. n \in Nat /\ n = Len(old)
  BY <1>5 DEF old
<1>11. n # 0 /\ old \in [1 .. n -> File!Source]
  BY <1>5, <1>10, LenProperties
<1> DEFINE above == SubSeq(old, 1, p - 1)
           below == SubSeq(old, p + 1, n)
<1>12. above \in Seq(File!Source) /\ Len(above) = p - 1 /\ \A k \in 1 .. p - 1 : above[k] = old[k]
  <2>1. \A k \in 1 .. p - 1 : old[k] \in File!Source
    BY <1>10, <1>11
  <2>2. 1 \in Int /\ p - 1 \in Int /\ (1 <= p - 1 => p - 1 - 1 + 1 = p - 1)
          /\ (~(1 <= p - 1) => p - 1 = 0)
        /\ 1 .. p - 1 - 1 + 1 = 1 .. p - 1 /\ \A k \in 1 .. p - 1 : 1 + k - 1 = k
    BY <1>10
  <2>3. /\ above \in Seq(File!Source)
        /\ Len(above) = IF 1 <= p - 1 THEN p - 1 - 1 + 1 ELSE 0
        /\ \A k \in 1 .. p - 1 - 1 + 1 : above[k] = old[1 + k - 1]
    BY <2>1, <2>2, SubSeqProperties
  <2> HIDE DEF above
  <2>4. QED
    BY <2>2, <2>3
<1>13. below \in Seq(File!Source) /\ Len(below) = n - p
         /\ \A k \in 1 .. n - p : below[k] = old[p + k]
  <2>1. \A k \in p + 1 .. n : old[k] \in File!Source
    BY <1>10, <1>11
  <2>2. p + 1 \in Int /\ n \in Int /\ (p + 1 <= n => n - (p + 1) + 1 = n - p)
          /\ (~(p + 1 <= n) => n - p = 0)
        /\ 1 .. n - (p + 1) + 1 = 1 .. n - p /\ \A k \in 1 .. n - p : p + 1 + k - 1 = p + k
    BY <1>10
  <2>3. /\ below \in Seq(File!Source)
        /\ Len(below) = IF p + 1 <= n THEN n - (p + 1) + 1 ELSE 0
        /\ \A k \in 1 .. n - (p + 1) + 1 : below[k] = old[p + 1 + k - 1]
    BY <2>1, <2>2, SubSeqProperties
  <2> HIDE DEF below
  <2>4. QED
    BY <2>2, <2>3
<1>14. File!List!RemoveAt(old, p) = above \o below
  BY DEF File!List!RemoveAt
<1> HIDE DEF above, below, n
<1> DEFINE rest == above \o below
<1>15. /\ rest \in Seq(File!Source) /\ Len(rest) = Len(above) + Len(below)
       /\ \A k \in 1 .. Len(above) + Len(below) :
            rest[k] = IF k <= Len(above) THEN above[k] ELSE below[k - Len(above)]
  BY <1>12, <1>13, ConcatProperties
<1> HIDE DEF rest
<1>16. /\ Len(rest) = n - 1 /\ Len(File!Toml(new)) = n - 1
       /\ \A k \in 1 .. n - 1 : rest[k] = File!Toml(new)[k]
  <2>1. Len(above) + Len(below) = n - 1 /\ n - (p + 1 - p) + none = n - 1
    BY <1>8, <1>10, <1>12, <1>13
  <2>2. Len(rest) = n - 1 /\ Len(File!Toml(new)) = n - 1
    BY <1>9, <1>15, <2>1
  <2>3. ASSUME NEW k \in 1 .. n - 1 PROVE rest[k] = File!Toml(new)[k]
    <3>1. k \in 1 .. Len(above) + Len(below)
      BY <2>1
    <3>2. CASE k < p
      <4>1. k \in 1 .. p - 1 /\ k <= Len(above)
        BY <1>10, <1>12, <3>2
      <4>2. QED
        BY <1>9, <1>12, <1>15, <3>1, <4>1
    <3>3. CASE p <= k
      <4> DEFINE j == k + 1
      <4>1. /\ ~(k <= Len(above)) /\ k - Len(above) \in 1 .. n - p /\ p + (k - Len(above)) = j
            /\ j \in p + 1 .. n /\ j - (p + 1) + p + none = k
        BY <1>8, <1>10, <1>12, <3>3
      <4> HIDE DEF j
      <4>2. rest[k] = old[j]
        BY <1>13, <1>15, <3>1, <4>1
      <4>3. File!Toml(new)[j - (p + 1) + p + none] = old[j]
        BY <1>9, <4>1
      <4>4. QED
        BY <4>1, <4>2, <4>3
    <3>4. QED
      BY <1>10, <3>2, <3>3
  <2>4. QED
    BY <2>2, <2>3
<1>17. File!Toml(new) = rest
  BY <1>9, <1>15, <1>16, SeqEqual
<1>18. File!Toml(new) = File!List!RemoveAt(old, p)
  BY <1>14, <1>17 DEF rest
<1>19. QED
  BY <1>3, <1>4, <1>18 DEF new, old, n

\* What is left of the lines of a source when the file ends earlier.
LEMMA CutOwn ==
    ASSUME NEW lines \in Seq(File!Line), NEW new \in Seq(File!Line), NEW m \in 0 .. Len(lines),
             Len(new) = m,
           \A k \in 1 .. m : new[k] = lines[k], NEW i \in Nat, NEW kind
    PROVE  /\ \A j \in Own(new, i, kind) : j \in Own(lines, i, kind) /\ new[j] = lines[j]
                /\ j \in Nat
           /\ \A j \in Own(lines, i, kind) : j \in Nat
                /\ (j <= m => j \in Own(new, i, kind) /\ new[j] = lines[j])
<1>1. /\ Len(lines) \in Nat /\ DOMAIN lines = 1 .. Len(lines) /\ DOMAIN new = 1 .. m
      /\ m \in Nat /\ m <= Len(lines)
  BY LenProperties
<1>2. ASSUME NEW j \in Own(new, i, kind) PROVE j \in Own(lines, i, kind) /\ new[j] = lines[j]
               /\ j \in Nat
  <2>1. /\ j \in 1 .. m /\ i < j /\ new[j].kind = kind
        /\ \A k \in i + 1 .. j : new[k].kind \notin File!Headers
    BY <1>1 DEF Own
  <2>2. j \in 1 .. Len(lines) /\ \A k \in i + 1 .. j : k \in 1 .. m
    BY <1>1, <2>1
  <2>3. QED
    BY <1>1, <2>1, <2>2 DEF Own
<1>3. ASSUME NEW j \in Own(lines, i, kind)
      PROVE  j \in Nat /\ (j <= m => j \in Own(new, i, kind) /\ new[j] = lines[j])
  <2>1. /\ j \in 1 .. Len(lines) /\ i < j /\ lines[j].kind = kind
        /\ \A k \in i + 1 .. j : lines[k].kind \notin File!Headers
    BY <1>1 DEF Own
  <2>2. CASE j <= m
    <3>1. j \in 1 .. m /\ \A k \in i + 1 .. j : k \in 1 .. m
      BY <1>1, <2>1, <2>2
    <3>2. QED
      BY <1>1, <2>1, <3>1 DEF Own
  <2>3. QED
    BY <2>1, <2>2
<1>4. QED
  BY <1>2, <1>3

\* The sources of the beginning of a file: all that it has of the last is there.
LEMMA CutToml ==
    ASSUME NEW lines \in Seq(File!Line), Plain(lines), NEW m \in 0 .. Len(lines)
    PROVE  File!List!CutShort(File!Toml(SubSeq(lines, 1, m)), File!Toml(lines))
<1> DEFINE new == SubSeq(lines, 1, m)
           S == File!Starts(lines)
           T == File!Starts(new)
           n == Len(File!Toml(lines))
           q == Len(File!Toml(new))
<1>1. /\ Len(lines) \in Nat /\ m \in Nat /\ m <= Len(lines)
           /\ lines \in [1 .. Len(lines) -> File!Line]
      /\ DOMAIN lines = 1 .. Len(lines)
  BY LenProperties
<1>2. new \in Seq(File!Line) /\ Plain(new)
  BY BeginningIsPlain
<1>3. Len(new) = m /\ \A k \in 1 .. m : new[k] = lines[k]
  <2>1. \A k \in 1 .. m : lines[k] \in File!Line
    BY <1>1
  <2>2. 1 \in Int /\ m \in Int /\ (1 <= m => m - 1 + 1 = m) /\ (~(1 <= m) => m = 0)
        /\ 1 .. m - 1 + 1 = 1 .. m /\ \A k \in 1 .. m : 1 + k - 1 = k
    BY <1>1
  <2>3. /\ Len(new) = IF 1 <= m THEN m - 1 + 1 ELSE 0
        /\ \A k \in 1 .. m - 1 + 1 : new[k] = lines[1 + k - 1]
    BY <2>1, <2>2, SubSeqProperties
  <2> HIDE DEF new
  <2>4. QED
    BY <2>2, <2>3
<1> HIDE DEF new
<1>4. DOMAIN new = 1 .. m
  BY <1>2, <1>3, LenProperties
<1>5. /\ S \in SUBSET (0 .. Len(lines)) /\ S \subseteq 1 .. Len(lines)
      /\ T \in SUBSET (0 .. Len(lines)) /\ T \subseteq 1 .. m
  <2>1. S \in SUBSET (0 .. Len(lines)) /\ S \subseteq 1 .. Len(lines) /\ T \subseteq 1 .. m
    BY <1>2, <1>3, StartsAreLines
  <2>2. 1 .. m \subseteq 0 .. Len(lines)
    BY <1>1
  <2>3. QED
    BY <2>1, <2>2
<1>6. /\ n \in Nat /\ n = Cardinality(S) /\ File!Toml(lines) \in Seq(File!Source)
      /\ \A k \in 1 .. n : File!Ascending(S)[k] \in S
           /\ File!Toml(lines)[k] = File!TomlSource(lines, File!Ascending(S)[k])
  BY TomlOfPlain
<1>7. /\ q \in Nat /\ q = Cardinality(T) /\ File!Toml(new) \in Seq(File!Source)
      /\ \A k \in 1 .. q : File!Ascending(T)[k] \in T
           /\ File!Toml(new)[k] = File!TomlSource(new, File!Ascending(T)[k])
  BY <1>2, TomlOfPlain
<1>8. \A i : i \in T <=> i \in S /\ i <= m
  <2>1. \A i : i \in S <=> i \in DOMAIN lines /\ lines[i].kind = "[[sources]]"
    BY StartsOfPlain
  <2>2. \A i : i \in T <=> i \in DOMAIN new /\ new[i].kind = "[[sources]]"
    BY <1>2, StartsOfPlain
  <2>3. \A i : i \in 1 .. m <=> i \in 1 .. Len(lines) /\ i <= m
    BY <1>1
  <2>4. QED
    BY <1>1, <1>3, <1>4, <2>1, <2>2, <2>3
<1> HIDE DEF S, T, n, q
<1>9. \A i \in T : Below(T, i) = Below(S, i)
  <2>1. ASSUME NEW i \in T PROVE {j \in T : j < i} = {j \in S : j < i}
    <3>1. i \in Nat /\ i <= m /\ \A j \in S : j \in Nat
      BY <1>1, <1>5
    <3>2. \A j \in S : j < i => j <= m
      BY <1>1, <3>1
    <3>3. QED
      BY <1>8, <3>2
  <2>2. QED
    BY <2>1 DEF Below
<1>10. \A k \in 1 .. q : k \in 1 .. n /\ File!Ascending(T)[k] = File!Ascending(S)[k]
         /\ File!Ascending(T)[k] \in 1 .. m
  <2>1. ASSUME NEW k \in 1 .. q
        PROVE  k \in 1 .. n /\ File!Ascending(T)[k] = File!Ascending(S)[k]
                 /\ File!Ascending(T)[k] \in 1 .. m
    <3> DEFINE i == File!Ascending(T)[k]
    <3>1. i \in T /\ Below(T, i) = k - 1
      BY <1>1, <1>5, <1>7, AscendingMembers
    <3> HIDE DEF i
    <3>2. i \in S /\ i \in 1 .. m /\ Below(S, i) = k - 1
      BY <1>5, <1>8, <1>9, <3>1
    <3>3. Below(S, i) < n
      BY <1>1, <1>5, <1>6, <3>2, BelowOrders
    <3>4. k \in 1 .. n
      BY <1>6, <1>7, <3>2, <3>3
    <3>5. File!Ascending(S)[k] \in S /\ Below(S, File!Ascending(S)[k]) = k - 1
      BY <1>1, <1>5, <1>6, <3>4, AscendingMembers
    <3>6. \A x, y \in S : Below(S, x) = Below(S, y) => x = y
      BY <1>1, <1>5, BelowOrders
    <3>7. i = File!Ascending(S)[k]
      BY <3>2, <3>5, <3>6
    <3>8. QED
      BY <3>2, <3>4, <3>7 DEF i
  <2>2. QED
    BY <2>1
<1>11. q <= n
  <2>1. CASE q = 0
    BY <1>6, <2>1
  <2>2. CASE q # 0
    <3>1. q \in 1 .. q
      BY <1>7, <2>2
    <3>2. q \in 1 .. n
      BY <1>10, <3>1
    <3>3. QED
      BY <1>6, <3>2
  <2>3. QED
    BY <2>1, <2>2
<1>12. \A j, k \in 1 .. n : j < k => File!Ascending(S)[j] < File!Ascending(S)[k]
  BY <1>1, <1>5, <1>6, AscendingOrder
<1>13. ASSUME NEW k \in 1 .. q - 1 PROVE File!Toml(new)[k] = File!Toml(lines)[k]
  <2> DEFINE i == File!Ascending(T)[k]
             h == File!Ascending(T)[k + 1]
  <2>1. k \in 1 .. q /\ k + 1 \in 1 .. q /\ k < k + 1
    BY <1>7
  <2>2. i \in 1 .. m /\ h \in 1 .. m /\ i = File!Ascending(S)[k] /\ h = File!Ascending(S)[k + 1]
          /\ h \in T
    BY <1>7, <1>10, <2>1
  <2>3. i < h
    BY <1>10, <1>12, <2>1, <2>2
  <2>4. lines[h].kind = "[[sources]]"
    BY <1>8, <2>2, StartsOfPlain DEF S
  <2>5. File!Toml(new)[k] = File!TomlSource(new, i)
          /\ File!Toml(lines)[k] = File!TomlSource(lines, i)
    BY <1>6, <1>7, <1>10, <2>1, <2>2
  <2> HIDE DEF i, h
  <2>6. i \in Nat /\ h \in Nat /\ i \in DOMAIN lines /\ i \in DOMAIN new
    BY <1>1, <1>4, <2>2
  <2>7. ASSUME NEW kind, NEW j \in Own(lines, i, kind) PROVE j <= m
    <3>1. j \in Nat /\ i < j /\ \A l \in i + 1 .. j : lines[l].kind \notin File!Headers
      BY <1>1 DEF Own
    <3>2. h \notin i + 1 .. j
      BY <2>4, <3>1 DEF File!Headers
    <3>3. QED
      BY <1>1, <2>2, <2>3, <2>6, <3>1, <3>2
  <2>8. ASSUME NEW kind \in Fields PROVE Moves(new, Own(new, i + 0, kind), lines,
                 Own(lines, i, kind), 0)
    <3>1. /\ \A j \in Own(new, i, kind) : j \in Own(lines, i, kind) /\ new[j] = lines[j]
               /\ j \in Nat
          /\ \A j \in Own(lines, i, kind) : j \in Nat
               /\ (j <= m => j \in Own(new, i, kind) /\ new[j] = lines[j])
      BY <1>2, <1>3, <2>6, CutOwn
    <3>2. i + 0 = i /\ \A j \in Nat : j + 0 = j /\ j - 0 = j
      BY <2>6
    <3>3. QED
      BY <2>7, <3>1, <3>2 DEF Moves
  <2>9. i + 0 = i /\ 0 \in Int
    BY <2>6
  <2>10. File!TomlSource(new, i + 0) = File!TomlSource(lines, i)
    BY <1>2, <2>6, <2>8, <2>9, SourceMoved
  <2>11. QED
    BY <2>5, <2>9, <2>10
<1>14. ASSUME NEW k \in 1 .. q
       PROVE  \/ File!Toml(new)[k].id = File!Toml(lines)[k].id
                   /\ File!Toml(new)[k].raw = File!Toml(lines)[k].raw
              \/ File!Toml(new)[k].id \notin Ids /\ File!Toml(new)[k].raw \notin Ids
  <2> DEFINE i == File!Ascending(T)[k]
             X == Own(lines, i, "id")
             Y == Own(new, i, "id")
  <2>1. i \in 1 .. m /\ i = File!Ascending(S)[k] /\ k \in 1 .. n
    BY <1>10
  <2>2. File!Toml(new)[k] = File!TomlSource(new, i)
          /\ File!Toml(lines)[k] = File!TomlSource(lines, i)
    BY <1>6, <1>7, <2>1
  <2> HIDE DEF i
  <2>3. i \in Nat /\ i \in DOMAIN lines /\ i \in DOMAIN new
    BY <1>1, <1>4, <2>1
  <2>4. File!TomlSource(new, i).id = FirstValue(new, Y)
          /\ File!TomlSource(lines, i).id = FirstValue(lines, X)
          /\ File!TomlSource(new, i).raw = FirstRaw(new, Y)
          /\ File!TomlSource(lines, i).raw = FirstRaw(lines, X)
    <3>1. File!TomlSource(new, i) = [id       |-> FirstValue(new, Y),
                                raw      |-> FirstRaw(new, Y),
                                type     |-> FirstValue(new, Own(new, i, "type")),
                                complete |-> Own(new, i, "fields") # {}]
      BY <1>2, <2>3, TomlSourceOwn
    <3>2. File!TomlSource(lines, i) = [id       |-> FirstValue(lines, X),
                                  raw      |-> FirstRaw(lines, X),
                                  type     |-> FirstValue(lines, Own(lines, i, "type")),
                                  complete |-> Own(lines, i, "fields") # {}]
      BY <2>3, TomlSourceOwn
    <3> HIDE DEF X, Y
    <3>3. QED
      BY <3>1, <3>2
  <2>5. /\ \A j \in Y : j \in X /\ new[j] = lines[j] /\ j \in Nat
        /\ \A j \in X : j \in Nat /\ (j <= m => j \in Y /\ new[j] = lines[j])
    BY <1>2, <1>3, <2>3, CutOwn
  <2>6. \A j \in Y : j <= m
    BY <1>1, <1>4 DEF Own
  <2> HIDE DEF X, Y
  <2>7. CASE Y = {}
    <3>1. FirstValue(new, Y) = File!NoValue /\ FirstRaw(new, Y) = File!Unseen
      BY <2>7 DEF FirstValue, FirstRaw
    <3>2. QED
      BY <2>2, <2>4, <3>1, FileAssumption DEF File!ConfigAssumption
  <2>8. CASE Y # {}
    <3>1. File!Min(Y) \in Y /\ \A j \in Y : File!Min(Y) <= j
      <4>1. Y \subseteq Nat
        BY <2>5
      <4>2. QED
        BY <2>8, <4>1, LeastNumber
    <3>2. X # {} /\ File!Min(X) \in X /\ \A j \in X : File!Min(X) <= j
      <4>1. X \subseteq Nat /\ X # {}
        BY <2>5, <2>8
      <4>2. QED
        BY <4>1, LeastNumber
    <3>3. File!Min(X) <= File!Min(Y) /\ File!Min(X) \in Nat /\ File!Min(Y) \in Nat
            /\ File!Min(Y) <= m
      BY <2>5, <2>6, <3>1, <3>2
    <3>4. File!Min(X) <= m
      BY <1>1, <3>3
    <3>5. File!Min(X) \in Y /\ new[File!Min(X)] = lines[File!Min(X)]
      BY <2>5, <3>2, <3>4
    <3>6. File!Min(Y) = File!Min(X)
      BY <3>1, <3>3, <3>5
    <3>7. FirstValue(new, Y) = FirstValue(lines, X) /\ FirstRaw(new, Y) = FirstRaw(lines, X)
      BY <2>8, <3>2, <3>5, <3>6 DEF FirstValue, FirstRaw
    <3>8. QED
      BY <2>2, <2>4, <3>7
  <2>9. QED
    BY <2>7, <2>8
<1>15. DOMAIN File!Toml(new) = 1 .. q /\ q = Len(File!Toml(new)) /\ n = Len(File!Toml(lines))
  BY <1>7, LenProperties DEF q, n
<1>16. File!List!CutShort(File!Toml(new), File!Toml(lines))
  BY <1>11, <1>13, <1>14, <1>15 DEF File!List!CutShort
<1>17. QED
  BY <1>16 DEF new

-----------------------------------------------------------------------------
(* The inductive invariant: the file is plain, and what is being written   *)
(* differs from it as the request says.                                    *)

HandFilesArePlain == \A lines \in HandFiles : Plain(lines)

\* What a request makes of a list of sources.
Carries(request, old, new) ==
    \/ \E s \in NewSources : request = <<"add", s.id>> /\ new = Append(old, File!Declared[s])
    \/ \E s \in NewSources :
         request = <<"update", s.id>> /\ \E p \in File!List!First(old, s.id) :
           new = [old EXCEPT ![p] = File!Declared[s]]
    \/ \E id \in Ids :
         request = <<"remove", id>> /\ \E p \in File!List!First(old, id) :
           new = File!List!RemoveAt(old, p)

Changes(request, lines, new) ==
    /\ Plain(new) /\ File!Elsewhere(new) = File!Elsewhere(lines)
    /\ Carries(request, File!Toml(lines), File!Toml(new))
    /\ IdsAreTheirOwn /\ Told(lines) => Told(new)

TextIsPlain == Plain(before) /\ (writing # File!NotWriting => Changes(doing, before, writing))

TextInv == File!TypeOK /\ TextIsPlain

LEMMA NotWritingIsNoFile == File!NotWriting \notin Seq(File!Line)
<1>1. ASSUME File!NotWriting \in Seq(File!Line) PROVE FALSE
  <2>1. File!NotWriting[1] \in File!Line
    <3>1. Len(File!NotWriting) = 1
      BY DEF File!NotWriting
    <3>2. File!NotWriting \in [1 .. 1 -> File!Line]
      BY <1>1, <3>1, LenProperties
    <3>3. QED
      BY <3>2
  <2>2. File!NotWriting[1].kind = "not writing"
    BY DEF File!NotWriting
  <2>3. "not writing" \notin File!Kinds
    BY DEF File!Kinds
  <2>4. QED
    BY <2>1, <2>2, <2>3, LineKinds
<1>2. QED
  BY <1>1

Readable(sources) ==
    /\ sources \in Seq(File!Source)
    /\ \A k \in DOMAIN sources : sources[k].id # File!NoValue /\ sources[k].type # File!NoValue

LEMMA LoadReads ==
    ASSUME NEW lines \in Seq(File!Line), Readable(served), File!Load(lines)
    PROVE  Readable(served')
BY TomlTypes DEF Readable, File!Load, File!Loads

LEMMA TextBegins == ASSUME HandFilesArePlain, File!Init PROVE TextInv
<1>1. file \in Seq(File!Line) /\ Plain(file) /\ MaxOps \in Nat /\ MaxFaults \in Nat
  BY FileAssumption DEF File!ConfigAssumption, File!Init, HandFilesArePlain
<1>2. Readable(served)
  BY <1>1, TomlTypes DEF File!Init, File!Loads, Readable
<1>3. QED
  BY <1>1, <1>2 DEF File!Init, TextInv, TextIsPlain, File!TypeOK, Readable

LEMMA BeginStep ==
    ASSUME TextInv, NEW request, NEW lines \in Seq(File!Line), Changes(request, file, lines),
             File!Begin(request, lines)
    PROVE  TextInv'
<1>1. /\ File!Idle /\ ops < MaxOps /\ ops' = ops + 1 /\ file' = <<>> /\ writing' = lines
           /\ doing' = request
      /\ UNCHANGED <<before, op, up, served, faults>>
  BY DEF File!Begin
<1>2. /\ before \in Seq(File!Line) /\ up \in BOOLEAN /\ served \in Seq(File!Source)
      /\ \A k \in DOMAIN served : served[k].id # File!NoValue /\ served[k].type # File!NoValue
      /\ ops \in 0 .. MaxOps /\ faults \in 0 .. MaxFaults /\ Plain(before) /\ before = file
  BY <1>1 DEF TextInv, File!TypeOK, TextIsPlain, File!Idle
<1>3. MaxOps \in Nat /\ MaxFaults \in Nat
  BY FileAssumption DEF File!ConfigAssumption
<1>4. ops' \in 0 .. MaxOps /\ ops' > 0
  BY <1>1, <1>2, <1>3
<1>5. file' \in Seq(File!Line) /\ writing' # File!NotWriting /\ up'
  BY <1>1, NotWritingIsNoFile DEF File!Idle
<1>6. File!TypeOK'
  BY <1>1, <1>2, <1>4, <1>5 DEF File!TypeOK
<1>7. Changes(doing', before', writing') /\ Plain(before')
  BY <1>1, <1>2
<1>8. QED
  BY <1>6, <1>7 DEF TextInv, TextIsPlain

LEMMA IdleFile == ASSUME TextInv, File!Idle PROVE file \in Seq(File!Line) /\ Plain(file)
BY DEF TextInv, File!TypeOK, TextIsPlain, File!Idle

LEMMA AddStep == ASSUME TextInv, NEW s \in NewSources, File!AddSource(s) PROVE TextInv'
<1> DEFINE new == File!Written(file, s)
<1>1. File!Begin(<<"add", s.id>>, new) /\ file \in Seq(File!Line) /\ Plain(file)
  BY IdleFile DEF File!AddSource, File!Begin
<1>2. /\ new \in Seq(File!Line) /\ \E a, b, c : Edits(new, file, a, b, c)
      /\ File!Toml(new) = Append(File!Toml(file), File!Declared[s])
  BY <1>1, WrittenToml
<1> HIDE DEF new
<1>3. /\ Plain(new) /\ File!Elsewhere(new) = File!Elsewhere(file)
      /\ IdsAreTheirOwn /\ Told(file) => Told(new)
  BY <1>1, <1>2, EditedIsPlain, EditKeepsOthers, EditedIsTold
<1>4. Changes(<<"add", s.id>>, file, new)
  BY <1>2, <1>3 DEF Changes, Carries
<1>5. QED
  BY <1>1, <1>2, <1>4, BeginStep

LEMMA UpdateStep == ASSUME TextInv, NEW s \in NewSources, File!UpdateSource(s) PROVE TextInv'
<1> DEFINE new == File!Updated(file, s)
<1>1. /\ File!Begin(<<"update", s.id>>, new) /\ file \in Seq(File!Line) /\ Plain(file)
      /\ File!Targets(file, s.id) # {}
  BY IdleFile DEF File!UpdateSource, File!Begin
<1>2. /\ new \in Seq(File!Line) /\ \E a, b, c : Edits(new, file, a, b, c)
      /\ \E p \in File!List!First(File!Toml(file), s.id) :
           File!Toml(new) = [File!Toml(file) EXCEPT ![p] = File!Declared[s]]
  BY <1>1, UpdatedToml
<1> HIDE DEF new
<1>3. /\ Plain(new) /\ File!Elsewhere(new) = File!Elsewhere(file)
      /\ IdsAreTheirOwn /\ Told(file) => Told(new)
  BY <1>1, <1>2, EditedIsPlain, EditKeepsOthers, EditedIsTold
<1>4. Changes(<<"update", s.id>>, file, new)
  BY <1>2, <1>3 DEF Changes, Carries
<1>5. QED
  BY <1>1, <1>2, <1>4, BeginStep

LEMMA DeleteStep == ASSUME TextInv, NEW id \in Ids, File!DeleteSource(id) PROVE TextInv'
<1> DEFINE new == File!Removed(file, id)
<1>1. /\ File!Begin(<<"remove", id>>, new) /\ file \in Seq(File!Line) /\ Plain(file)
      /\ File!Targets(file, id) # {}
  BY IdleFile DEF File!DeleteSource, File!Begin
<1>2. /\ new \in Seq(File!Line) /\ \E a, b, c : Edits(new, file, a, b, c)
      /\ \E p \in File!List!First(File!Toml(file), id) :
           File!Toml(new) = File!List!RemoveAt(File!Toml(file), p)
  BY <1>1, RemovedToml
<1> HIDE DEF new
<1>3. /\ Plain(new) /\ File!Elsewhere(new) = File!Elsewhere(file)
      /\ IdsAreTheirOwn /\ Told(file) => Told(new)
  BY <1>1, <1>2, EditedIsPlain, EditKeepsOthers, EditedIsTold
<1>4. Changes(<<"remove", id>>, file, new)
  BY <1>2, <1>3 DEF Changes, Carries
<1>5. QED
  BY <1>1, <1>2, <1>4, BeginStep

LEMMA FillStep == ASSUME TextInv, File!Fill PROVE TextInv'
<1>1. writing \in Seq(File!Line) /\ Plain(writing) /\ Readable(served)
  BY DEF TextInv, File!TypeOK, TextIsPlain, Changes, File!Fill, Readable
<1>2. /\ file' = writing /\ before' = writing /\ writing' = File!NotWriting /\ File!Load(writing)
      /\ UNCHANGED <<doing, up, ops, faults>>
  BY DEF File!Fill
<1>3. Readable(served')
  BY <1>1, <1>2, LoadReads
<1>4. File!TypeOK'
  BY <1>1, <1>2, <1>3 DEF TextInv, File!TypeOK, Readable
<1>5. QED
  BY <1>1, <1>2, <1>4 DEF TextInv, TextIsPlain

LEMMA LostStep ==
    ASSUME TextInv, NEW n \in 0 .. Len(writing), File!WriteFails(n) \/ File!Crash(n)
    PROVE  TextInv'
<1>1. writing \in Seq(File!Line) /\ Plain(writing) /\ Readable(served) /\ up
  BY DEF TextInv, File!TypeOK, TextIsPlain, Changes, File!WriteFails, File!Crash, File!Lost,
     Readable
<1>2. /\ faults < MaxFaults /\ faults' = faults + 1
      /\ file' = SubSeq(writing, 1, n) /\ before' = file' /\ writing' = File!NotWriting
      /\ UNCHANGED ops /\ up' \in BOOLEAN
      /\ served' = served \/ served' = <<>>
  BY <1>1 DEF File!WriteFails, File!Crash, File!Lost
<1>3. file' \in Seq(File!Line) /\ Plain(file')
  BY <1>1, <1>2, BeginningIsPlain
<1>4. Readable(served')
  <2>1. Readable(<<>>)
    BY DEF Readable
  <2>2. QED
    BY <1>1, <1>2, <2>1
<1>5. faults' \in 0 .. MaxFaults
  BY <1>2, FileAssumption DEF File!ConfigAssumption, TextInv, File!TypeOK
<1>6. File!TypeOK'
  BY <1>2, <1>3, <1>4, <1>5 DEF TextInv, File!TypeOK, Readable
<1>7. Plain(before') /\ writing' = File!NotWriting
  BY <1>2, <1>3
<1>8. QED
  BY <1>6, <1>7 DEF TextInv, TextIsPlain

LEMMA HandEditStep ==
    ASSUME HandFilesArePlain, TextInv, NEW lines \in HandFiles, File!HandEdit(lines)
    PROVE  TextInv'
<1>1. lines \in Seq(File!Line) /\ Plain(lines) /\ MaxOps \in Nat
  BY FileAssumption DEF File!ConfigAssumption, HandFilesArePlain
<1>2. /\ writing = File!NotWriting /\ ops < MaxOps /\ ops' = ops + 1
      /\ file' = lines /\ before' = lines
      /\ UNCHANGED <<writing, doing, up, served, faults>>
  BY DEF File!HandEdit
<1>3. ops' \in 0 .. MaxOps
  BY <1>1, <1>2 DEF TextInv, File!TypeOK
<1>4. File!TypeOK'
  BY <1>1, <1>2, <1>3 DEF TextInv, File!TypeOK
<1>5. QED
  BY <1>1, <1>2, <1>4 DEF TextInv, TextIsPlain

\* The file is loaded, and nothing else changes but whether the process is up.
LEMMA LoadStep == ASSUME TextInv, File!Reload \/ File!Restart PROVE TextInv'
<1>1. /\ File!Load(file) /\ up' \in BOOLEAN
      /\ UNCHANGED <<file, writing, before, doing, op, ops, faults>>
  BY DEF TextInv, File!TypeOK, File!Reload, File!Restart
<1>2. writing = File!NotWriting
  BY DEF TextInv, File!TypeOK, File!Reload, File!Restart, File!Idle
<1>3. file \in Seq(File!Line) /\ Readable(served)
  BY DEF TextInv, File!TypeOK, Readable
<1>4. Readable(served')
  BY <1>1, <1>3, LoadReads
<1>5. File!TypeOK'
  BY <1>1, <1>2, <1>4 DEF TextInv, File!TypeOK, Readable
<1>6. QED
  BY <1>1, <1>5 DEF TextInv, TextIsPlain

LEMMA TextStep == ASSUME HandFilesArePlain, TextInv, [File!Next]_(File!vars) PROVE TextInv'
<1>1. CASE UNCHANGED File!vars
  BY <1>1 DEF File!vars, TextInv, File!TypeOK, TextIsPlain
<1>2. CASE File!Next
  BY <1>2, AddStep, UpdateStep, DeleteStep, FillStep, LostStep, HandEditStep, LoadStep
     DEF File!Next
<1>3. QED
  BY <1>1, <1>2

LEMMA TextInvariance == ASSUME HandFilesArePlain PROVE File!Spec => []TextInv
<1>1. File!Init => TextInv
  BY TextBegins
<1>2. QED
  BY <1>1, TextStep, PTL DEF File!Spec

\* The other variables of FileSpec do not matter.
LEMMA FileRuns == FileSpec => File!Spec
<1>1. ASSUME [File!Next /\ UNCHANGED registry]_<<vars, text>> PROVE [File!Next]_(File!vars)
  <2>1. CASE UNCHANGED <<vars, text>>
    BY <2>1 DEF vars, files, tasks, text, File!vars
  <2>2. QED
    BY <1>1, <2>1
<1>2. QED
  BY <1>1, PTL DEF FileSpec, FileInit, File!Spec

-----------------------------------------------------------------------------
(* What a step does to the file.                                           *)

\* The step that was not a request's.
LEMMA OtherSteps ==
    ASSUME TextInv, [File!Next]_(File!vars)
    PROVE  \/ File!Fill
           \/ \E n \in 0 .. Len(writing) : File!Lost(n)
           \/ op' = <<"hand">> /\ \E lines \in HandFiles : before' = lines
           \/ UNCHANGED <<before, op>>
<1>1. CASE UNCHANGED File!vars
  BY <1>1 DEF File!vars
<1>2. CASE File!Next
  BY <1>2 DEF File!Next, File!AddSource, File!UpdateSource, File!DeleteSource, File!Begin,
     File!Restart, File!Reload, File!WriteFails, File!Crash, File!HandEdit
<1>3. QED
  BY <1>1, <1>2

LEMMA FillChanges ==
    ASSUME TextInv, File!Fill
    PROVE  op' = doing /\ before' = writing /\ Changes(doing, before, writing)
BY DEF File!Fill, TextInv, TextIsPlain

\* The scan takes no id for another, in the files of hands and in what requests write.
NoIdIsAnothers == IdsAreTheirOwn /\ \A lines \in HandFiles : Told(lines)

IsTold == Told(before)

LEMMA ToldStep ==
    ASSUME NoIdIsAnothers, TextInv, IsTold, [File!Next]_(File!vars)
    PROVE  IsTold'
<1> USE DEF IsTold
<1>1. CASE File!Fill
  BY <1>1, FillChanges DEF Changes, NoIdIsAnothers
<1>2. CASE \E n \in 0 .. Len(writing) : File!Lost(n)
  <2>1. PICK n \in 0 .. Len(writing) : File!Lost(n)
    BY <1>2
  <2>2. writing \in Seq(File!Line) /\ Told(writing) /\ before' = SubSeq(writing, 1, n)
    BY <2>1 DEF TextInv, File!TypeOK, TextIsPlain, File!Lost, Changes, NoIdIsAnothers
  <2>3. QED
    BY <2>2, BeginningIsTold
<1>3. CASE \E lines \in HandFiles : before' = lines
  BY <1>3 DEF NoIdIsAnothers
<1>4. CASE UNCHANGED before
  BY <1>4 DEF Told
<1>5. QED
  BY <1>1, <1>2, <1>3, <1>4, OtherSteps

\* The blocks that the editor finds by scanning lines are the sources that TOML
\* reads, each known by the text of its own id line and by no other source's id,
\* whatever requests, edits by hand, failed writes and crashes come
\* (config.py:384-422), if no hand puts a comment behind a header, or an id below
\* the tables of its source or an id that the scan does not see, and no id is the
\* text that is written for another.
THEOREM BlocksStaySources ==
    ASSUME HandFilesArePlain, NoIdIsAnothers PROVE FileSpec => []FileInv
<1>1. TextInv /\ IsTold => FileInv
  BY BlocksOfPlain DEF IsTold, TextInv, File!TypeOK, TextIsPlain, File!FileInv, FileInv
<1>2. File!Init => IsTold
  BY DEF IsTold, File!Init, NoIdIsAnothers
<1>3. QED
  BY <1>1, <1>2, ToldStep, FileRuns, TextInvariance, PTL DEF File!Spec

\* An add, an update or a delete leaves the lines of all other sections as they
\* are, wherever these stand between the sources (config.py:534).
THEOREM OtherSectionsStay == ASSUME HandFilesArePlain PROVE FileSpec => KeepsOtherSections
<1> DEFINE Keeps == op'[1] \in File!Request /\ before' # before
  => File!Elsewhere(before') = File!Elsewhere(before)
<1>1. ASSUME TextInv, [File!Next]_(File!vars) PROVE [Keeps]_(File!vars)
  <2>1. CASE File!Fill
    BY <1>1, <2>1, FillChanges DEF Changes
  <2>2. CASE \E n \in 0 .. Len(writing) : File!Lost(n)
    <3>1. op' = <<"lost">>
      BY <2>2 DEF File!Lost
    <3>2. op'[1] \notin File!Request
      BY <3>1 DEF File!Request
    <3>3. QED
      BY <3>2
  <2>3. CASE op' = <<"hand">>
    <3>1. op'[1] \notin File!Request
      BY <2>3 DEF File!Request
    <3>2. QED
      BY <3>1
  <2>4. CASE UNCHANGED <<before, op>>
    BY <2>4
  <2>5. QED
    BY <1>1, <2>1, <2>2, <2>3, <2>4, OtherSteps
<1>2. QED
  BY <1>1, FileRuns, TextInvariance, PTL
     DEF File!Spec, File!KeepsOtherSections, KeepsOtherSections

\* What requests make of a list is what they may make of it.
LEMMA CarriedIsEdit ==
    ASSUME NEW request, NEW old, NEW new, Carries(request, old, new)
    PROVE  new \in File!List!Edits(old)
BY DEF Carries, File!List!Edits, File!List!First

LEMMA CarriedStep ==
    ASSUME Carries(op', File!Toml(before), File!Toml(before'))
    PROVE  File!List!Next
<1>1. CASE \E s \in NewSources : op' = <<"add", s.id>>
             /\ File!Toml(before') = Append(File!Toml(before), File!Declared[s])
  BY <1>1 DEF File!List!Next, File!List!AddOne
<1>2. CASE \E s \in NewSources :
             /\ op' = <<"update", s.id>>
             /\ \E p \in File!List!First(File!Toml(before), s.id) :
                  File!Toml(before') = [File!Toml(before) EXCEPT ![p] = File!Declared[s]]
  BY <1>2 DEF File!List!Next, File!List!UpdateOne
<1>3. CASE \E id \in Ids :
             /\ op' = <<"remove", id>>
             /\ \E p \in File!List!First(File!Toml(before), id) :
                  File!Toml(before') = File!List!RemoveAt(File!Toml(before), p)
  BY <1>3 DEF File!List!Next, File!List!RemoveOne
<1>4. QED
  BY <1>1, <1>2, <1>3 DEF Carries

LEMMA LostIsLose ==
    ASSUME TextInv, NEW n \in 0 .. Len(writing), File!Lost(n)
    PROVE  File!List!Next
<1>1. writing \in Seq(File!Line) /\ Changes(doing, before, writing)
  BY DEF TextInv, File!TypeOK, TextIsPlain, File!Lost
<1>2. op' = <<"lost">> /\ before' = SubSeq(writing, 1, n)
  BY DEF File!Lost
<1>3. File!List!CutShort(File!Toml(SubSeq(writing, 1, n)), File!Toml(writing))
  BY <1>1, CutToml DEF Changes
<1>4. File!List!CutShort(File!Toml(before'), File!Toml(writing))
  BY <1>2, <1>3
<1>5. File!Toml(writing) \in File!List!Edits(File!Toml(before))
  BY <1>1, CarriedIsEdit DEF Changes
<1>6. File!List!Lose
  BY <1>2, <1>4, <1>5 DEF File!List!Lose
<1>7. QED
  BY <1>6 DEF File!List!Next

\* The lines implement a list of sources that requests append to, replace in and
\* take from, and that a write which is cut short leaves the beginning of
\* (config.py:333-339): a refinement of SourceList.
THEOREM FileIsAList == ASSUME HandFilesArePlain PROVE FileSpec => ImplementsSourceList
<1>1. File!Init => op = <<"hand">>
  BY DEF File!Init
<1>2. ASSUME TextInv, [File!Next]_(File!vars) PROVE [File!List!Next]_<<File!Toml(before), op>>
  <2>1. CASE File!Fill
    <3>1. Carries(op', File!Toml(before), File!Toml(before'))
      BY <1>2, <2>1, FillChanges DEF Changes
    <3>2. QED
      BY <3>1, CarriedStep
  <2>2. CASE \E n \in 0 .. Len(writing) : File!Lost(n)
    BY <1>2, <2>2, LostIsLose
  <2>3. CASE op' = <<"hand">>
    BY <2>3 DEF File!List!Next, File!List!Rewrite
  <2>4. CASE UNCHANGED <<before, op>>
    BY <2>4
  <2>5. QED
    BY <1>2, <2>1, <2>2, <2>3, <2>4, OtherSteps
<1>3. QED
  BY <1>1, <1>2, FileRuns, TextInvariance, PTL
     DEF File!Spec, File!ImplementsSourceList, File!List!Spec, ImplementsSourceList
=============================================================================
