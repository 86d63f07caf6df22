---------------------------- MODULE EngineProofs ----------------------------
(***************************************************************************)
(* Proofs about the two uses of DuckDB: each request of Explore makes an   *)
(* engine of its own, all queries of Federation share one.  They hold for  *)
(* every set of requests, queries, sources, statements, replies and edits, *)
(* and every bound.                                                        *)
(***************************************************************************)
EXTENDS MCEngines, SequenceTheorems, FiniteSetTheorems, TLAPS

-----------------------------------------------------------------------------
(* Explore.  The inductive invariant.                                      *)

Streaming  == {"identify", "schema", "generate", "validate", "execute", "direct", "tables", "fetch"}
Generation == 0 .. MaxEdits + 1

\* An engine has a temporary file for each table fetched.
EngineStates == [up : BOOLEAN, loaded : BOOLEAN, files : Nat, kept : BOOLEAN]

\* One that no request works with may be connected, but without its extensions, or have
\* files that could not be removed.
Resting == {x \in EngineStates : ~x.loaded /\ x.files = 0}

\* The names of events, and the codes of errors.
Words ==
    {"identifying_sources", "generating_sql", "validating_sql", "executing_query", "done", "error",
     "SOURCE_NOT_FOUND", "PROMPT_FAILED", "SCHEMA_FAILED", "LLM_TIMEOUT", "LLM_UNAVAILABLE",
     "LLM_INVALID_SQL", "INVALID_SQL", "WRITE_BLOCKED", "EXECUTION_FAILED", "data source error"}

\* What TypeOK says of the variables that it says something of, and the others.
Domains ==
    /\ source \in [Ids -> Generation] /\ edits \in 0 .. MaxEdits
    /\ pc \in [Explorers -> Streaming \cup {"idle", "ended", "broken", "left"}]
    /\ selected \in [Explorers -> Selections \cup {<<>>}]
    /\ todo \in [Explorers -> Seq(Ids)]
    /\ described \in [Explorers -> SUBSET Targets]
    /\ reply \in [Explorers -> Replies \cup {NoReply}]
    /\ target \in [Explorers -> Targets]
    /\ read \in [Explorers -> SUBSET Targets]
    /\ engine \in [Explorers -> EngineStates]
    /\ events \in [Explorers -> Seq(Seq(Words))]
    /\ during \in [Explorers -> SUBSET (Ids \X Generation)]

\* The first n events of a stream are those of the pipeline's first n steps.
Passed(e, n) == \A k \in 1 .. n : events[e][k] = <<Pipeline[k]>>

\* How far a stream is, by where its request is suspended.
InOrder(e) ==
    LET n == Len(events[e]) IN
    /\ pc[e] = "idle" => n = 0
    /\ pc[e] \in {"identify", "schema"} => n = 1
    /\ pc[e] = "generate" => n = 2
    /\ pc[e] = "validate" => n = 3
    /\ pc[e] \in Executing => n = 4
    /\ pc[e] = "left" => n \in 1 .. 4
    /\ pc[e] = "broken" => n \in {1, 2, 4}
    /\ pc[e] # "ended" => Passed(e, n)
    /\ pc[e] = "ended" =>
         \/ n = 5 /\ Passed(e, 5)
         \/ n \in 2 .. 5 /\ Passed(e, n - 1) /\ events[e][n][1] = "error"

\* What has been read, and is about to be, was registered while the query was executed.
Current(e) ==
    /\ read[e] \subseteq during[e]
    /\ pc[e] \in Executing =>
         /\ reply[e].class = "sql" /\ reply[e].opens /\ ~reply[e].keyword
         /\ Present \subseteq during[e]
    /\ pc[e] \in {"direct", "fetch"} => target[e] \in during[e]

\* The engine is connected while it is filled, and has room for the tables still to fetch.
Held(e) ==
    IF pc[e] \in {"tables", "fetch"}
    THEN /\ engine[e].up /\ engine[e].loaded
         /\ engine[e].files + Len(todo[e]) <= Cardinality(HttpIds)
    ELSE engine[e] \in Resting

RequestOK(e) ==
    /\ pc[e] # "idle" => selected[e] \in Selections
    /\ pc[e] = "validate" => reply[e].class \in {"sql", "blank"}
    /\ pc[e] \in {"schema", "fetch"} => todo[e] # <<>>
    /\ target[e] # NoTarget <=> pc[e] \in {"schema", "direct", "fetch"}
    /\ pc[e] \notin Executing \cup {"ended"} => read[e] = {}
    /\ InOrder(e) /\ Current(e) /\ Held(e)

ExploreInv ==
    /\ Domains
    /\ \A d, e \in Busy : d = e
    /\ \A e \in Explorers : RequestOK(e)

-----------------------------------------------------------------------------
(* The initial state, and what the steps have in common.                   *)

LEMMA PipelineSteps ==
    /\ Pipeline[1] = "identifying_sources" /\ Pipeline[2] = "generating_sql"
    /\ Pipeline[3] = "validating_sql" /\ Pipeline[4] = "executing_query" /\ Pipeline[5] = "done"
BY DEF Pipeline

LEMMA DownRests == Down \in Resting /\ Down \in EngineStates
BY DEF Down, Resting, EngineStates

LEMMA StreamsBegin == ASSUME Init PROVE ExploreInv
<1>1. MaxEdits \in Nat /\ 0 \in Generation /\ 1 \in Generation /\ 0 \in 0 .. MaxEdits
  BY ExploreAssumption DEF Generation
<1>7. Down \in Resting /\ Down \in EngineStates
  BY DownRests
<1>2. Domains
  BY <1>1, <1>7, EmptySeq DEF Init, Domains, Targets, NoTarget
<1>3. ASSUME NEW e \in Explorers PROVE RequestOK(e)
  <2>1. /\ pc[e] = "idle" /\ target[e] = NoTarget /\ read[e] = {} /\ events[e] = <<>>
        /\ engine[e] = Down
    BY DEF Init
  <2>2. InOrder(e)
    BY <2>1 DEF InOrder, Passed, Executing
  <2>3. Current(e) /\ Held(e)
    BY <2>1, <1>7 DEF Current, Held, Executing
  <2>4. QED
    BY <2>1, <2>2, <2>3 DEF RequestOK, Executing
<1>4. Busy = {}
  BY DEF Busy, Init
<1>5. QED
  BY <1>2, <1>3, <1>4 DEF ExploreInv

\* A step of request e changes nothing that another has.
OnlyOf(e) ==
    \A d \in Explorers \ {e} :
        /\ pc'[d] = pc[d] /\ selected'[d] = selected[d] /\ todo'[d] = todo[d]
        /\ reply'[d] = reply[d] /\ target'[d] = target[d] /\ read'[d] = read[d]
        /\ engine'[d] = engine[d] /\ events'[d] = events[d] /\ during'[d] = during[d]

\* It keeps the invariant if it does for the request itself, and only takes what comes
\* between two awaits when no other has.
LEMMA MovesOn ==
    ASSUME ExploreInv, NEW e \in Explorers, Domains', source' = source, OnlyOf(e), RequestOK(e)',
           pc'[e] = "tables" => Busy = {}
    PROVE  ExploreInv'
<1>1. ASSUME NEW d \in Explorers, d # e PROVE RequestOK(d)'
  <2>1. RequestOK(d) /\ Present' = Present
    BY DEF ExploreInv, Present
  <2>2. /\ pc'[d] = pc[d] /\ selected'[d] = selected[d] /\ todo'[d] = todo[d]
        /\ reply'[d] = reply[d] /\ target'[d] = target[d] /\ read'[d] = read[d]
        /\ engine'[d] = engine[d] /\ events'[d] = events[d] /\ during'[d] = during[d]
    BY <1>1 DEF OnlyOf
  <2>3. InOrder(d)'
    BY <2>1, <2>2 DEF RequestOK, InOrder, Passed
  <2>4. Current(d)' /\ Held(d)'
    BY <2>1, <2>2 DEF RequestOK, Current, Held
  <2>5. QED
    BY <2>1, <2>2, <2>3, <2>4 DEF RequestOK
<1>2. ASSUME NEW d \in Busy', NEW b \in Busy' PROVE d = b
  <2>1. d \in Explorers /\ b \in Explorers /\ pc'[d] = "tables" /\ pc'[b] = "tables"
    BY DEF Busy
  <2>2. CASE pc'[e] = "tables"
    BY <2>1, <2>2 DEF OnlyOf, Busy
  <2>3. CASE pc'[e] # "tables"
    <3>1. d \in Busy /\ b \in Busy
      BY <2>1, <2>3 DEF OnlyOf, Busy
    <3>2. QED
      BY <3>1 DEF ExploreInv
  <2>4. QED
    BY <2>2, <2>3
<1>3. QED
  BY <1>1, <1>2 DEF ExploreInv

LEMMA Emitted ==
    ASSUME Domains, NEW e \in Explorers, NEW event \in Seq(Words), Emit(e, event)
    PROVE  /\ events' \in [Explorers -> Seq(Seq(Words))]
           /\ Len(events[e]) \in Nat /\ Len(events'[e]) = Len(events[e]) + 1
           /\ \A k \in 1 .. Len(events[e]) : events'[e][k] = events[e][k]
           /\ events'[e][Len(events[e]) + 1] = event
           /\ \A d \in Explorers \ {e} : events'[d] = events[d]
<1>1. events \in [Explorers -> Seq(Seq(Words))] /\ events' = [events EXCEPT ![e] = Append(@, event)]
  BY DEF Domains, Emit
<1>2. events[e] \in Seq(Seq(Words)) /\ events'[e] = Append(events[e], event)
  BY <1>1
<1>3. /\ Append(events[e], event) \in Seq(Seq(Words))
      /\ Len(Append(events[e], event)) = Len(events[e]) + 1
      /\ \A k \in 1 .. Len(events[e]) : Append(events[e], event)[k] = events[e][k]
      /\ Append(events[e], event)[Len(events[e]) + 1] = event
  BY <1>2, AppendProperties
<1>4. Len(events[e]) \in Nat
  BY <1>2, LenProperties
<1>5. QED
  BY <1>1, <1>2, <1>3, <1>4

\* The next event of the pipeline.
LEMMA Proceeds ==
    ASSUME ExploreInv, NEW e \in Explorers, pc[e] # "ended", NEW n \in 1 .. 5,
           Len(events[e]) = n - 1, Emit(e, <<Pipeline[n]>>)
    PROVE  Len(events'[e]) = n /\ \A k \in 1 .. n : events'[e][k] = <<Pipeline[k]>>
<1>1. Domains /\ Passed(e, Len(events[e]))
  BY DEF ExploreInv, RequestOK, InOrder
<1>2. <<Pipeline[n]>> \in Seq(Words)
  <2>1. Pipeline[n] \in Words
    <3>1. n = 1 \/ n = 2 \/ n = 3 \/ n = 4 \/ n = 5
      OBVIOUS
    <3>2. QED
      BY <3>1, PipelineSteps DEF Words
  <2>2. QED
    BY <2>1
<1>3. /\ Len(events'[e]) = Len(events[e]) + 1
      /\ \A k \in 1 .. Len(events[e]) : events'[e][k] = events[e][k]
      /\ events'[e][Len(events[e]) + 1] = <<Pipeline[n]>>
  BY <1>1, <1>2, Emitted
<1>4. \A k \in 1 .. n - 1 : events'[e][k] = <<Pipeline[k]>>
  BY <1>1, <1>3 DEF Passed
<1>5. QED
  BY <1>3, <1>4

LEMMA ErrorEvent == ASSUME NEW code \in Words PROVE <<"error", code>> \in Seq(Words)
<1>1. "error" \in Words
  BY DEF Words
<1>2. QED
  BY <1>1

\* An error ends the stream wherever it is.
LEMMA Aborts ==
    ASSUME ExploreInv, NEW e \in Explorers, pc[e] \in Streaming, NEW code \in Words, Abort(e, code)
    PROVE  InOrder(e)' /\ pc'[e] = "ended"
<1>1. Domains /\ InOrder(e)
  BY DEF ExploreInv, RequestOK
<1>2. <<"error", code>> \in Seq(Words)
  BY ErrorEvent
<1>3. /\ Len(events'[e]) = Len(events[e]) + 1
      /\ \A k \in 1 .. Len(events[e]) : events'[e][k] = events[e][k]
      /\ events'[e][Len(events[e]) + 1] = <<"error", code>>
      /\ Len(events[e]) \in Nat
  BY <1>1, <1>2, Emitted DEF Abort
<1>4. Len(events[e]) \in 1 .. 4
  BY <1>1 DEF InOrder, Streaming, Executing
<1>10. Passed(e, Len(events[e]))
  BY <1>1 DEF InOrder, Streaming
<1>5. pc'[e] = "ended"
  BY <1>1 DEF Abort, Domains
<1>6. Len(events'[e]) \in 2 .. 5 /\ Len(events'[e]) - 1 = Len(events[e])
  <2>1. \A n \in 1 .. 4 : n + 1 \in 2 .. 5 /\ (n + 1) - 1 = n
    OBVIOUS
  <2>2. Len(events'[e]) = Len(events[e]) + 1
    BY <1>3
  <2>3. QED
    BY <2>1, <2>2, <1>4
<1>7. \A k \in 1 .. Len(events'[e]) - 1 : events'[e][k] = <<Pipeline[k]>>
  BY <1>3, <1>10, <1>6 DEF Passed
<1>8. events'[e][Len(events'[e])][1] = "error"
  <2>1. <<"error", code>>[1] = "error"
    OBVIOUS
  <2>2. QED
    BY <1>3, <2>1
<1>9. QED
  BY <1>5, <1>6, <1>7, <1>8 DEF InOrder, Passed, Executing

\* A source that is looked up, and found.
LEMMA Looked ==
    ASSUME Domains, NEW e \in Explorers, todo[e] # <<>>, Head(todo[e]) \in Registered
    PROVE  LET looked == <<Head(todo[e]), source[Head(todo[e])]>>
           IN  looked \in Targets /\ looked # NoTarget /\ looked \in Present
<1>1. Head(todo[e]) \in Ids /\ source[Head(todo[e])] # 0
  BY DEF Registered
<1>2. source[Head(todo[e])] \in 1 .. MaxEdits + 1
  BY <1>1, ExploreAssumption DEF Domains, Generation
<1>3. QED
  BY <1>1, <1>2 DEF Targets, NoTarget, Present

\* A request that ends with an error before it executes.
LEMMA GivesUp ==
    ASSUME ExploreInv, NEW e \in Explorers, pc[e] \in Streaming \ Executing,
           NEW code \in Words, Abort(e, code), target'[e] = NoTarget,
           target' = target \/ target' = [target EXCEPT ![e] = NoTarget],
           reply' \in [Explorers -> Replies \cup {NoReply}],
           \A d \in Explorers \ {e} : reply'[d] = reply[d],
           UNCHANGED <<source, selected, todo, described, read, engine, during, edits>>
    PROVE  ExploreInv'
<1>1. Domains /\ RequestOK(e)
  BY DEF ExploreInv
<1>2. InOrder(e)' /\ pc'[e] = "ended"
  BY Aborts DEF Streaming, Executing
<1>3. <<"error", code>> \in Seq(Words)
  BY ErrorEvent
<1>4. /\ events' \in [Explorers -> Seq(Seq(Words))]
      /\ \A d \in Explorers \ {e} : events'[d] = events[d]
  BY <1>1, <1>3, Emitted DEF Abort
<1>5. Domains'
  BY <1>1, <1>4 DEF Abort, Domains, Targets, NoTarget
<1>6. OnlyOf(e)
  BY <1>1, <1>4 DEF Abort, Domains, OnlyOf
<1>7. RequestOK(e)'
  BY <1>1, <1>2 DEF RequestOK, Current, Held, Streaming, Executing
<1>8. QED
  BY <1>2, <1>5, <1>6, <1>7, MovesOn

\* A request that breaks off before it executes.
LEMMA BreaksOff ==
    ASSUME ExploreInv, NEW e \in Explorers, pc[e] \in {"identify", "generate"}, Break(e),
           UNCHANGED <<source, selected, todo, described, reply, target, read, engine, during,
                       edits>>
    PROVE  ExploreInv'
<1>1. Domains /\ RequestOK(e)
  BY DEF ExploreInv
<1>2. /\ pc' = [pc EXCEPT ![e] = "broken"] /\ pc'[e] = "broken" /\ events' = events
  BY <1>1 DEF Break, Domains
<1>3. Domains'
  BY <1>1, <1>2 DEF Domains
<1>4. OnlyOf(e)
  BY <1>1, <1>2 DEF Domains, OnlyOf
<1>5. InOrder(e)'
  BY <1>1, <1>2 DEF RequestOK, InOrder, Passed, Executing
<1>6. RequestOK(e)'
  BY <1>1, <1>2, <1>5 DEF RequestOK, Current, Held, Executing
<1>7. QED
  BY <1>2, <1>3, <1>4, <1>6, MovesOn

-----------------------------------------------------------------------------
(* One lemma for each step of a request.                                   *)

LEMMA StartStep ==
    ASSUME ExploreInv, NEW e \in Explorers, NEW ids \in Selections, Busy = {}, Start(e, ids)
    PROVE  ExploreInv'
<1>1. Domains /\ RequestOK(e) /\ pc[e] = "idle"
  BY DEF ExploreInv, Start
<1>2. ids \in Seq(Ids)
  BY <1>1, ExploreAssumption
<1>3. <<"identifying_sources">> \in Seq(Words) /\ Len(events[e]) = 0
  <2>1. "identifying_sources" \in Words
    BY DEF Words
  <2>2. QED
    BY <1>1, <2>1 DEF RequestOK, InOrder
<1>4. /\ events' \in [Explorers -> Seq(Seq(Words))]
      /\ \A d \in Explorers \ {e} : events'[d] = events[d]
  BY <1>1, <1>3, Emitted DEF Start
<1>5. Len(events'[e]) = 1 /\ \A k \in 1 .. 1 : events'[e][k] = <<Pipeline[k]>>
  BY <1>1, <1>3, Proceeds, PipelineSteps DEF Start
<1>6. Domains'
  BY <1>1, <1>2, <1>4 DEF Start, Domains, Streaming, Targets
<1>7. OnlyOf(e)
  BY <1>1, <1>4 DEF Start, Domains, OnlyOf
<1>8. RequestOK(e)'
  <2>1. pc'[e] = "identify" /\ selected'[e] = ids
    BY <1>1 DEF Start, Domains
  <2>2. InOrder(e)'
    BY <2>1, <1>5 DEF InOrder, Passed, Executing
  <2>3. target'[e] = target[e] /\ read' = read /\ engine' = engine /\ during' = during
    BY DEF Start
  <2>4. QED
    BY <1>1, <2>1, <2>2, <2>3 DEF RequestOK, Current, Held, Executing
<1>9. QED
  BY <1>6, <1>7, <1>8, MovesOn, <1>1 DEF RequestOK, Start, Domains

LEMMA DescribeStep ==
    ASSUME ExploreInv, NEW e \in Explorers, Busy = {}, Describe(e)
    PROVE  ExploreInv'
<1>1. Domains /\ RequestOK(e) /\ pc[e] = "identify"
  BY DEF ExploreInv, Describe
<1>7. /\ pc[e] \in Streaming \ Executing /\ target[e] = NoTarget
      /\ "SOURCE_NOT_FOUND" \in Words /\ "PROMPT_FAILED" \in Words
  BY <1>1 DEF RequestOK, Streaming, Executing, Words
<1>8. /\ reply' \in [Explorers -> Replies \cup {NoReply}]
      /\ \A d \in Explorers \ {e} : reply'[d] = reply[d]
      /\ UNCHANGED <<source, selected, todo, described, read, engine, during, edits>>
  BY <1>1 DEF Describe, Domains
<1>2. CASE /\ todo[e] # <<>> /\ Head(todo[e]) \in Registered
           /\ pc' = [pc EXCEPT ![e] = "schema"]
           /\ target' = [target EXCEPT ![e] = <<Head(todo[e]), source[Head(todo[e])]>>]
           /\ UNCHANGED events
  <2> DEFINE looked == <<Head(todo[e]), source[Head(todo[e])]>>
  <2>1. looked \in Targets /\ looked # NoTarget
    BY <1>1, <1>2, Looked
  <2> HIDE DEF looked
  <2>2. target' = [target EXCEPT ![e] = looked]
    BY <1>2 DEF looked
  <2>3. Domains'
    <3>1. /\ pc' \in [Explorers -> Streaming \cup {"idle", "ended", "broken", "left"}]
          /\ target' \in [Explorers -> Targets]
      BY <1>1, <1>2, <2>1, <2>2 DEF Domains, Streaming
    <3>2. QED
      BY <1>1, <1>2, <1>8, <3>1 DEF Domains
  <2>4. OnlyOf(e)
    BY <1>1, <1>2, <2>2 DEF Describe, Domains, OnlyOf
  <2>5. pc'[e] = "schema" /\ target'[e] = looked
    BY <1>1, <1>2, <2>2 DEF Domains
  <2>6. InOrder(e)'
    BY <1>1, <1>2, <2>5 DEF RequestOK, InOrder, Passed, Executing
  <2>7. RequestOK(e)'
    BY <1>1, <1>2, <2>1, <2>5, <2>6 DEF Describe, RequestOK, Current, Held, Executing
  <2>8. QED
    BY <2>3, <2>4, <2>5, <2>7, MovesOn DEF Describe
<1>3. CASE /\ todo[e] # <<>> /\ Head(todo[e]) \notin Registered
           /\ Abort(e, "SOURCE_NOT_FOUND")
           /\ UNCHANGED target
  BY <1>3, <1>7, <1>8, GivesUp
<1>4. CASE todo[e] = <<>> /\ Abort(e, "PROMPT_FAILED") /\ UNCHANGED target
  BY <1>4, <1>7, <1>8, GivesUp
<1>5. CASE todo[e] = <<>> /\ Emit(e, <<"generating_sql">>) /\ pc' = [pc EXCEPT ![e] = "generate"]
           /\ UNCHANGED target
  <2>1. Len(events[e]) = 1
    BY <1>1 DEF RequestOK, InOrder
  <2>2. <<"generating_sql">> \in Seq(Words)
    <3>1. "generating_sql" \in Words
      BY DEF Words
    <3>2. QED
      BY <3>1
  <2>3. /\ events' \in [Explorers -> Seq(Seq(Words))]
        /\ \A d \in Explorers \ {e} : events'[d] = events[d]
    BY <1>1, <1>5, <2>2, Emitted
  <2>4. Len(events'[e]) = 2 /\ \A k \in 1 .. 2 : events'[e][k] = <<Pipeline[k]>>
    <3>1. 2 \in 1 .. 5 /\ pc[e] # "ended" /\ Len(events[e]) = 2 - 1 /\ Emit(e, <<Pipeline[2]>>)
      BY <1>1, <1>5, <2>1, PipelineSteps
    <3>2. QED
      BY <3>1, Proceeds
  <2>5. Domains'
    BY <1>1, <1>5, <2>3 DEF Describe, Domains, Streaming
  <2>6. OnlyOf(e)
    BY <1>1, <1>5, <2>3 DEF Describe, Domains, OnlyOf
  <2>7. pc'[e] = "generate"
    BY <1>1, <1>5 DEF Domains
  <2>8. InOrder(e)'
    BY <2>4, <2>7 DEF InOrder, Passed, Executing
  <2>9. RequestOK(e)'
    BY <1>1, <1>5, <2>7, <2>8 DEF Describe, RequestOK, Current, Held, Executing
  <2>10. QED
    BY <2>5, <2>6, <2>7, <2>9, MovesOn DEF Describe
<1>9. CASE todo[e] = <<>> /\ Break(e) /\ UNCHANGED target
  BY <1>1, <1>8, <1>9, BreaksOff DEF Describe
<1>6. QED
  BY <1>2, <1>3, <1>4, <1>5, <1>9 DEF Describe

LEMMA DescribedStep ==
    ASSUME ExploreInv, NEW e \in Explorers, Busy = {}, Described(e)
    PROVE  ExploreInv'
<1>1. Domains /\ RequestOK(e) /\ pc[e] = "schema"
  BY DEF ExploreInv, Described
<1>2. target' = [target EXCEPT ![e] = NoTarget] /\ target'[e] = NoTarget
  BY <1>1 DEF Described, Domains
<1>3. CASE /\ pc' = [pc EXCEPT ![e] = "identify"]
           /\ todo' = [todo EXCEPT ![e] = Tail(@)]
           /\ described' = [described EXCEPT ![e] = @ \cup {target[e]}]
           /\ UNCHANGED events
  <2>1. Tail(todo[e]) \in Seq(Ids)
    BY <1>1, HeadTailProperties DEF RequestOK, Domains
  <2>2. described[e] \cup {target[e]} \in SUBSET Targets
    BY <1>1 DEF Domains
  <2>3. todo' \in [Explorers -> Seq(Ids)] /\ described' \in [Explorers -> SUBSET Targets]
    BY <1>1, <1>3, <2>1, <2>2 DEF Domains
  <2>4. Domains'
    BY <1>1, <1>2, <1>3, <2>3 DEF Described, Domains, Streaming, Targets, NoTarget
  <2>5. OnlyOf(e)
    BY <1>1, <1>2, <1>3 DEF Described, Domains, OnlyOf
  <2>6. pc'[e] = "identify"
    BY <1>1, <1>3 DEF Domains
  <2>7. InOrder(e)'
    BY <1>1, <1>3, <2>6 DEF RequestOK, InOrder, Passed, Executing
  <2>8. RequestOK(e)'
    BY <1>1, <1>2, <1>3, <2>6, <2>7 DEF Described, RequestOK, Current, Held, Executing
  <2>9. QED
    BY <2>4, <2>5, <2>6, <2>8, MovesOn DEF Described
<1>4. CASE Abort(e, "SCHEMA_FAILED") /\ UNCHANGED <<todo, described>>
  <2>1. pc[e] \in Streaming \ Executing /\ "SCHEMA_FAILED" \in Words
    BY <1>1 DEF Streaming, Executing, Words
  <2>2. /\ reply' \in [Explorers -> Replies \cup {NoReply}]
        /\ \A d \in Explorers \ {e} : reply'[d] = reply[d]
        /\ UNCHANGED <<source, selected, todo, described, read, engine, during, edits>>
    BY <1>1, <1>4 DEF Described, Domains
  <2>3. QED
    BY <1>2, <1>4, <2>1, <2>2, GivesUp
<1>5. QED
  BY <1>3, <1>4 DEF Described

\* What generate_sql makes of the replies without SQL is an error of the LLM.
LEMMA RefusedWords == ASSUME NEW r, r.class \in NotSql PROVE Refused(r) \in Words
<1>1. CASE r.class = "timeout"
  BY <1>1 DEF Refused, Words
<1>2. CASE r.class \in {"unreachable", "unexpected", "array"}
  BY <1>2 DEF Refused, Words
<1>3. CASE r.class \in {"empty", "text", "no sql"}
  BY <1>3 DEF Refused, Words
<1>4. QED
  BY <1>1, <1>2, <1>3 DEF NotSql

LEMMA NoClientStep ==
    ASSUME ExploreInv, NEW e \in Explorers, Busy = {}, NoClient(e)
    PROVE  ExploreInv'
BY BreaksOff DEF NoClient

LEMMA GenerateStep ==
    ASSUME ExploreInv, NEW e \in Explorers, NEW r \in Replies, Busy = {}, Generate(e, r)
    PROVE  ExploreInv'
<1>1. Domains /\ RequestOK(e) /\ pc[e] = "generate"
  BY DEF ExploreInv, Generate
<1>2. /\ reply' \in [Explorers -> Replies \cup {NoReply}] /\ reply'[e] = r
      /\ \A d \in Explorers \ {e} : reply'[d] = reply[d]
      /\ UNCHANGED <<source, selected, todo, described, target, read, engine, during, edits>>
  BY <1>1 DEF Generate, Domains
<1>3. CASE r.class \in NotSql
  <2>1. Abort(e, Refused(r)) /\ Refused(r) \in Words
    BY <1>3, RefusedWords DEF Generate
  <2>2. pc[e] \in Streaming \ Executing /\ target[e] = NoTarget
    BY <1>1 DEF Streaming, Executing, RequestOK
  <2>3. QED
    BY <1>2, <2>1, <2>2, GivesUp
<1>4. CASE r.class \notin NotSql
  <2>1. Emit(e, <<"validating_sql">>) /\ pc' = [pc EXCEPT ![e] = "validate"]
    BY <1>4 DEF Generate
  <2>2. <<"validating_sql">> \in Seq(Words)
    <3>1. "validating_sql" \in Words
      BY DEF Words
    <3>2. QED
      BY <3>1
  <2>3. /\ events' \in [Explorers -> Seq(Seq(Words))]
        /\ \A d \in Explorers \ {e} : events'[d] = events[d]
    BY <1>1, <2>1, <2>2, Emitted
  <2>4. Len(events'[e]) = 3 /\ \A k \in 1 .. 3 : events'[e][k] = <<Pipeline[k]>>
    <3>1. 3 \in 1 .. 5 /\ pc[e] # "ended" /\ Len(events[e]) = 3 - 1 /\ Emit(e, <<Pipeline[3]>>)
      BY <1>1, <2>1, PipelineSteps DEF RequestOK, InOrder
    <3>2. QED
      BY <3>1, Proceeds
  <2>5. Domains'
    BY <1>1, <1>2, <2>1, <2>3 DEF Domains, Streaming
  <2>6. OnlyOf(e)
    BY <1>1, <1>2, <2>1, <2>3 DEF Domains, OnlyOf
  <2>7. pc'[e] = "validate"
    BY <1>1, <2>1 DEF Domains
  <2>8. InOrder(e)'
    BY <2>4, <2>7 DEF InOrder, Passed, Executing
  <2>9. r.class \in {"sql", "blank"}
    BY <1>1, <1>4, ExploreAssumption DEF Reply
  <2>10. RequestOK(e)'
    BY <1>1, <1>2, <2>7, <2>8, <2>9 DEF RequestOK, Current, Held, Executing
  <2>11. QED
    BY <1>2, <2>5, <2>6, <2>7, <2>10, MovesOn
<1>5. QED
  BY <1>3, <1>4

LEMMA ValidateStep ==
    ASSUME ExploreInv, NEW e \in Explorers, Busy = {}, Validate(e)
    PROVE  ExploreInv'
<1>1. Domains /\ RequestOK(e) /\ pc[e] = "validate"
  BY DEF ExploreInv, Validate
<1>2. reply[e].class \in {"sql", "blank"}
  BY <1>1 DEF RequestOK
<1>3. CASE /\ Scan(reply[e]) = "ok"
           /\ Emit(e, <<"executing_query">>)
           /\ pc' = [pc EXCEPT ![e] = "execute"]
           /\ during' = [during EXCEPT ![e] = Present]
  <2>1. <<"executing_query">> \in Seq(Words)
    <3>1. "executing_query" \in Words
      BY DEF Words
    <3>2. QED
      BY <3>1
  <2>2. /\ events' \in [Explorers -> Seq(Seq(Words))]
        /\ \A d \in Explorers \ {e} : events'[d] = events[d]
    BY <1>1, <1>3, <2>1, Emitted
  <2>3. Len(events'[e]) = 4 /\ \A k \in 1 .. 4 : events'[e][k] = <<Pipeline[k]>>
    <3>1. 4 \in 1 .. 5 /\ pc[e] # "ended" /\ Len(events[e]) = 4 - 1 /\ Emit(e, <<Pipeline[4]>>)
      BY <1>1, <1>3, PipelineSteps DEF RequestOK, InOrder
    <3>2. QED
      BY <3>1, Proceeds
  <2>4. Present \in SUBSET (Ids \X Generation)
    BY <1>1 DEF Domains, Present
  <2>5. during' \in [Explorers -> SUBSET (Ids \X Generation)] /\ during'[e] = Present
    BY <1>1, <1>3, <2>4 DEF Domains
  <2>6. Domains'
    BY <1>1, <1>3, <2>2, <2>5 DEF Validate, Domains, Streaming
  <2>7. OnlyOf(e)
    BY <1>1, <1>3, <2>2 DEF Validate, Domains, OnlyOf
  <2>8. pc'[e] = "execute" /\ Present' = Present
    BY <1>1, <1>3 DEF Validate, Domains, Present
  <2>9. InOrder(e)'
    BY <2>3, <2>8 DEF InOrder, Passed, Executing
  <2>10. reply[e].class = "sql" /\ reply[e].opens /\ ~reply[e].keyword
    BY <1>2, <1>3 DEF Scan
  <2>11. RequestOK(e)'
    BY <1>1, <2>5, <2>8, <2>9, <2>10 DEF Validate, RequestOK, Current, Held, Executing
  <2>12. QED
    BY <2>6, <2>7, <2>8, <2>11, MovesOn DEF Validate
<1>4. CASE Scan(reply[e]) # "ok" /\ Abort(e, Scan(reply[e])) /\ UNCHANGED during
  <2>1. Scan(reply[e]) \in Words
    BY <1>2, <1>4 DEF Scan, Words
  <2>2. pc[e] \in Streaming \ Executing /\ target[e] = NoTarget
    BY <1>1 DEF Streaming, Executing, RequestOK
  <2>3. /\ reply' \in [Explorers -> Replies \cup {NoReply}]
        /\ \A d \in Explorers \ {e} : reply'[d] = reply[d]
        /\ UNCHANGED <<source, selected, todo, described, target, read, engine, during, edits>>
    BY <1>1, <1>4 DEF Validate, Domains
  <2>4. QED
    BY <1>4, <2>1, <2>2, <2>3, GivesUp
<1>5. QED
  BY <1>3, <1>4 DEF Validate

-----------------------------------------------------------------------------
(* The steps of a request that executes.                                   *)

\* The engine is left at rest.
LeftAtRest(e) ==
    \/ \E x \in Resting : engine' = [engine EXCEPT ![e] = x]
    \/ engine' = engine /\ engine[e] \in Resting

LEMMA EngineRests ==
    ASSUME Domains, NEW e \in Explorers, LeftAtRest(e)
    PROVE  /\ engine' \in [Explorers -> EngineStates] /\ engine'[e] \in Resting
           /\ \A d \in Explorers \ {e} : engine'[d] = engine[d]
<1>1. engine \in [Explorers -> EngineStates] /\ \A x \in Resting : x \in EngineStates
  BY DEF Domains, Resting
<1>2. QED
  BY <1>1 DEF LeftAtRest

\* What disconnect() leaves.
LEMMA Released ==
    ASSUME Domains, NEW e \in Explorers, NEW more \in {0, 1}, Release(e, more)
    PROVE  \E x \in Resting : engine' = [engine EXCEPT ![e] = x]
<1>1. PICK left \in {FALSE, engine[e].files + more > 0} :
        engine' = [engine EXCEPT ![e] = [Down EXCEPT !.kept = left]]
  BY DEF Release, OwnEngine
<1>2. left \in BOOLEAN
  <2>1. engine[e].files \in Nat
    BY DEF Domains, EngineStates
  <2>2. (engine[e].files + more > 0) \in BOOLEAN
    BY <2>1
  <2>3. QED
    BY <2>2
<1>3. [Down EXCEPT !.kept = left] \in Resting
  BY <1>2 DEF Down, Resting, EngineStates
<1>4. QED
  BY <1>1, <1>3

LEMMA Fails ==
    ASSUME ExploreInv, NEW e \in Explorers, pc[e] \in Executing, Fail(e), LeftAtRest(e),
           UNCHANGED <<source, selected, described, reply, during, edits>>
    PROVE  ExploreInv'
<1>1. Domains /\ RequestOK(e)
  BY DEF ExploreInv
<1>2. PICK code \in {"EXECUTION_FAILED", "data source error"} : Abort(e, code)
  BY DEF Fail
<1>3. code \in Words /\ pc[e] \in Streaming
  BY DEF Words, Executing, Streaming
<1>4. InOrder(e)' /\ pc'[e] = "ended"
  BY <1>2, <1>3, Aborts
<1>5. <<"error", code>> \in Seq(Words)
  BY <1>3, ErrorEvent
<1>6. /\ events' \in [Explorers -> Seq(Seq(Words))]
      /\ \A d \in Explorers \ {e} : events'[d] = events[d]
  BY <1>1, <1>2, <1>5, Emitted DEF Abort
<1>7. /\ read' = [read EXCEPT ![e] = {}] /\ target' = [target EXCEPT ![e] = NoTarget]
      /\ todo' = [todo EXCEPT ![e] = <<>>] /\ pc' = [pc EXCEPT ![e] = "ended"]
  BY <1>2 DEF Fail, Abort
<1>8. NoTarget \in Targets /\ <<>> \in Seq(Ids)
  BY EmptySeq DEF Targets, NoTarget
<1>9. Domains'
  BY <1>1, <1>6, <1>7, <1>8, EngineRests DEF Domains
<1>10. OnlyOf(e)
  BY <1>1, <1>6, <1>7, EngineRests DEF Domains, OnlyOf
<1>11. read'[e] = {} /\ target'[e] = NoTarget /\ engine'[e] \in Resting /\ selected' = selected
  BY <1>1, <1>7, EngineRests DEF Domains
<1>12. RequestOK(e)'
  BY <1>1, <1>3, <1>4, <1>11 DEF RequestOK, Current, Held, Executing
<1>13. QED
  BY <1>4, <1>9, <1>10, <1>12, MovesOn

LEMMA Succeeds ==
    ASSUME ExploreInv, NEW e \in Explorers, pc[e] \in Executing,
           NEW rows \in SUBSET Targets, rows \subseteq during[e], Succeed(e, rows), LeftAtRest(e),
           UNCHANGED <<source, selected, described, reply, during, edits>>
    PROVE  ExploreInv'
<1>1. Domains /\ RequestOK(e) /\ NoTarget \in Targets
  BY DEF ExploreInv, Targets, NoTarget
<1>2. target' = [target EXCEPT ![e] = NoTarget] /\ todo' = todo
  BY DEF Succeed
<1>3. CASE /\ Emit(e, <<"done">>) /\ pc' = [pc EXCEPT ![e] = "ended"]
           /\ read' = [read EXCEPT ![e] = rows]
  <2>1. <<"done">> \in Seq(Words)
    <3>1. "done" \in Words
      BY DEF Words
    <3>2. QED
      BY <3>1
  <2>2. /\ events' \in [Explorers -> Seq(Seq(Words))]
        /\ \A d \in Explorers \ {e} : events'[d] = events[d]
    BY <1>1, <1>3, <2>1, Emitted
  <2>3. Len(events'[e]) = 5 /\ \A k \in 1 .. 5 : events'[e][k] = <<Pipeline[k]>>
    <3>1. 5 \in 1 .. 5 /\ pc[e] # "ended" /\ Len(events[e]) = 5 - 1 /\ Emit(e, <<Pipeline[5]>>)
      BY <1>1, <1>3, PipelineSteps DEF RequestOK, InOrder, Executing
    <3>2. QED
      BY <3>1, Proceeds
  <2>4. Domains'
    BY <1>1, <1>2, <1>3, <2>2, EngineRests DEF Domains
  <2>5. OnlyOf(e)
    BY <1>1, <1>2, <1>3, <2>2, EngineRests DEF Domains, OnlyOf
  <2>6. /\ read'[e] = rows /\ target'[e] = NoTarget /\ engine'[e] \in Resting
        /\ selected' = selected /\ pc'[e] = "ended"
    BY <1>1, <1>2, <1>3, EngineRests DEF Domains
  <2>7. InOrder(e)'
    BY <2>3, <2>6 DEF InOrder, Passed, Executing
  <2>8. RequestOK(e)'
    BY <1>1, <2>6, <2>7 DEF RequestOK, Current, Held, Executing
  <2>9. QED
    BY <2>4, <2>5, <2>6, <2>8, MovesOn
<1>4. CASE Break(e) /\ read' = [read EXCEPT ![e] = {}]
  <2>1. pc' = [pc EXCEPT ![e] = "broken"] /\ events' = events
    BY <1>4 DEF Break
  <2>2. Domains'
    BY <1>1, <1>2, <1>4, <2>1, EngineRests DEF Domains
  <2>3. OnlyOf(e)
    BY <1>1, <1>2, <1>4, <2>1, EngineRests DEF Domains, OnlyOf
  <2>4. /\ read'[e] = {} /\ target'[e] = NoTarget /\ engine'[e] \in Resting
        /\ selected' = selected /\ pc'[e] = "broken"
    BY <1>1, <1>2, <1>4, <2>1, EngineRests DEF Domains
  <2>5. InOrder(e)'
    BY <1>1, <2>1, <2>4 DEF RequestOK, InOrder, Passed, Executing
  <2>6. RequestOK(e)'
    BY <1>1, <2>4, <2>5 DEF RequestOK, Current, Held, Executing
  <2>7. QED
    BY <2>2, <2>3, <2>4, <2>6, MovesOn
<1>5. QED
  BY <1>3, <1>4 DEF Succeed

LEMMA ExecuteDirectStep ==
    ASSUME ExploreInv, NEW e \in Explorers, Busy = {}, ExecuteDirect(e)
    PROVE  ExploreInv'
<1> DEFINE id == selected[e][1]
           found == <<id, source[id]>>
<1>1. Domains /\ RequestOK(e) /\ pc[e] = "execute"
  BY DEF ExploreInv, ExecuteDirect
<1>2. engine[e] \in Resting
  BY <1>1 DEF RequestOK, Held
<1>3. id \in Ids
  <2>1. selected[e] \in Seq(Ids) /\ selected[e] # <<>>
    BY <1>1, ExploreAssumption DEF RequestOK
  <2>2. QED
    BY <2>1
<1>4. /\ \/ /\ id \in Registered
            /\ target' = [target EXCEPT ![e] = found]
            /\ pc' = [pc EXCEPT ![e] = "direct"]
            /\ UNCHANGED <<todo, read, events>>
         \/ Fail(e)
      /\ UNCHANGED <<source, selected, described, reply, engine, during, edits>>
  BY DEF ExecuteDirect
<1>5. CASE /\ id \in Registered
           /\ target' = [target EXCEPT ![e] = found]
           /\ pc' = [pc EXCEPT ![e] = "direct"]
           /\ UNCHANGED <<todo, read, events>>
  <2>1. found \in Targets /\ found # NoTarget /\ found \in Present
    <3>1. source[id] \in 1 .. MaxEdits + 1
      BY <1>1, <1>3, <1>5, ExploreAssumption DEF Registered, Domains, Generation
    <3>2. QED
      BY <1>3, <3>1 DEF Targets, NoTarget, Present
  <2> HIDE DEF id, found
  <2>2. Domains'
    BY <1>1, <1>4, <1>5, <2>1 DEF Domains, Streaming
  <2>3. OnlyOf(e)
    BY <1>1, <1>4, <1>5 DEF Domains, OnlyOf
  <2>4. pc'[e] = "direct" /\ target'[e] = found /\ Present' = Present
    BY <1>1, <1>4, <1>5 DEF Domains, Present
  <2>5. InOrder(e)'
    BY <1>1, <1>5, <2>4 DEF RequestOK, InOrder, Passed, Executing
  <2>6. RequestOK(e)'
    BY <1>1, <1>4, <1>5, <2>1, <2>4, <2>5 DEF RequestOK, Current, Held, Executing
  <2>7. QED
    BY <1>4, <2>2, <2>3, <2>4, <2>6, MovesOn
<1>6. CASE Fail(e)
  BY <1>1, <1>2, <1>4, <1>6, Fails DEF LeftAtRest, Executing
<1>7. QED
  BY <1>4, <1>5, <1>6

LEMMA DirectStep ==
    ASSUME ExploreInv, NEW e \in Explorers, Busy = {}, Direct(e)
    PROVE  ExploreInv'
<1>1. Domains /\ RequestOK(e) /\ pc[e] = "direct"
  BY DEF ExploreInv, Direct
<1>2. LeftAtRest(e)
  BY <1>1 DEF RequestOK, Held, Direct, LeftAtRest
<1>3. {target[e]} \in SUBSET Targets /\ {target[e]} \subseteq during[e] /\ pc[e] \in Executing
  BY <1>1 DEF Domains, RequestOK, Current, Executing
<1>4. UNCHANGED <<source, selected, described, reply, during, edits>>
  BY DEF Direct
<1>5. CASE Succeed(e, {target[e]})
  BY <1>2, <1>3, <1>4, <1>5, Succeeds
<1>6. CASE Fail(e)
  BY <1>2, <1>3, <1>4, <1>6, Fails
<1>7. QED
  BY <1>5, <1>6 DEF Direct

\* The order in which tables are fetched has room for each.
LEMMA Ordered ==
    ASSUME NEW S \in SUBSET HttpIds, NEW order \in [1 .. Cardinality(S) -> S]
    PROVE  order \in Seq(Ids) /\ Len(order) <= Cardinality(HttpIds)
<1>1. IsFiniteSet(HttpIds)
  BY ExploreAssumption
<1>2. Cardinality(S) \in Nat /\ Cardinality(S) <= Cardinality(HttpIds)
      /\ Cardinality(HttpIds) \in Nat
  BY <1>1, FS_Subset, FS_CardinalityType
<1>3. order \in Seq(Ids)
  BY <1>2 DEF Ids
<1>4. Len(order) = Cardinality(S)
  BY <1>2
<1>5. QED
  BY <1>2, <1>3, <1>4

LEMMA ExecuteFederatedStep ==
    ASSUME ExploreInv, NEW e \in Explorers, Busy = {}, ExecuteFederated(e)
    PROVE  ExploreInv'
<1> DEFINE refs == reply[e].refs \cap Registered
           rows == {<<i, source[i]>> : i \in refs \cap SqlIds}
           connected == [Down EXCEPT !.up = TRUE, !.loaded = TRUE]
<1>1. Domains /\ RequestOK(e) /\ pc[e] = "execute"
  BY DEF ExploreInv, ExecuteFederated
<1>2. /\ \/ /\ engine' = [engine EXCEPT ![e] = connected]
            /\ pc' = [pc EXCEPT ![e] = "tables"]
            /\ read' = [read EXCEPT ![e] = rows]
            /\ \E order \in [1 .. Cardinality(refs \cap HttpIds) -> refs \cap HttpIds] :
                 todo' = [todo EXCEPT ![e] = order]
            /\ UNCHANGED <<target, events>>
         \/ /\ Fail(e)
            /\ LeftAtRest(e)
      /\ UNCHANGED <<source, selected, described, reply, during, edits>>
  <2>1. Down \in Resting /\ [Down EXCEPT !.up = TRUE] \in Resting
    BY DEF Down, Resting, EngineStates
  <2>2. QED
    BY <2>1 DEF ExecuteFederated, OwnEngine, LeftAtRest
<1>3. CASE /\ engine' = [engine EXCEPT ![e] = connected]
           /\ pc' = [pc EXCEPT ![e] = "tables"]
           /\ read' = [read EXCEPT ![e] = rows]
           /\ \E order \in [1 .. Cardinality(refs \cap HttpIds) -> refs \cap HttpIds] :
                todo' = [todo EXCEPT ![e] = order]
           /\ UNCHANGED <<target, events>>
  <2>1. PICK order \in [1 .. Cardinality(refs \cap HttpIds) -> refs \cap HttpIds] :
          todo' = [todo EXCEPT ![e] = order]
    BY <1>3
  <2>2. order \in Seq(Ids) /\ Len(order) <= Cardinality(HttpIds)
    BY <1>1, Ordered
  <2>3. rows \in SUBSET Targets /\ rows \subseteq Present
    <3>1. ASSUME NEW i \in refs PROVE i \in Ids /\ source[i] \in 1 .. MaxEdits + 1
      BY <1>1, ExploreAssumption DEF Registered, Domains, Generation
    <3>2. QED
      BY <3>1 DEF Targets, Present
  <2>4. connected \in EngineStates
    BY DEF EngineStates, Down
  <2>5. connected.up /\ connected.loaded /\ connected.files = 0
    BY DEF Down
  <2>6. engine \in [Explorers -> EngineStates]
    BY <1>1 DEF Domains
  <2> HIDE DEF refs, rows, connected
  <2>7. engine'[e] = connected /\ \A d \in Explorers \ {e} : engine'[d] = engine[d]
    BY <1>3, <2>6
  <2>8. engine' \in [Explorers -> EngineStates]
    BY <1>3, <2>4, <2>6
  <2>9. /\ todo' \in [Explorers -> Seq(Ids)] /\ todo'[e] = order
        /\ \A d \in Explorers \ {e} : todo'[d] = todo[d]
    BY <1>1, <2>1, <2>2 DEF Domains
  <2>10. Domains'
    BY <1>1, <1>2, <1>3, <2>3, <2>8, <2>9 DEF Domains, Streaming
  <2>11. OnlyOf(e)
    BY <1>1, <1>2, <1>3, <2>7, <2>9 DEF Domains, OnlyOf
  <2>12. pc'[e] = "tables" /\ read'[e] = rows /\ Present' = Present
    BY <1>1, <1>2, <1>3 DEF Domains, Present
  <2>13. InOrder(e)'
    BY <1>1, <1>3, <2>12 DEF RequestOK, InOrder, Passed, Executing
  <2>14. Current(e)'
    BY <1>1, <1>2, <2>3, <2>12 DEF RequestOK, Current, Executing
  <2>15. Len(order) \in Nat
    BY <2>2, LenProperties
  <2>16. engine'[e].files + Len(todo'[e]) <= Cardinality(HttpIds)
         /\ engine'[e].up /\ engine'[e].loaded
    BY <2>2, <2>5, <2>7, <2>9, <2>15
  <2>17. RequestOK(e)'
    BY <1>1, <1>2, <1>3, <2>12, <2>13, <2>14, <2>16 DEF RequestOK, Held, Executing
  <2>18. QED
    BY <1>2, <2>10, <2>11, <2>17, MovesOn
<1>4. CASE Fail(e) /\ LeftAtRest(e)
  BY <1>1, <1>2, <1>4, Fails DEF Executing
<1>5. QED
  BY <1>2, <1>3, <1>4

LEMMA NextTableStep ==
    ASSUME ExploreInv, NEW e \in Busy, NextTable(e)
    PROVE  ExploreInv'
<1>1. e \in Explorers /\ pc[e] = "tables" /\ Domains /\ RequestOK(e)
  BY DEF ExploreInv, Busy
<1>2. UNCHANGED <<source, selected, described, reply, during, edits>> /\ pc[e] \in Executing
  BY <1>1 DEF NextTable, Executing
<1>3. CASE /\ todo[e] # <<>> /\ Head(todo[e]) \in Registered
           /\ target' = [target EXCEPT ![e] = <<Head(todo[e]), source[Head(todo[e])]>>]
           /\ pc' = [pc EXCEPT ![e] = "fetch"]
           /\ UNCHANGED <<todo, read, engine, events>>
  <2> DEFINE looked == <<Head(todo[e]), source[Head(todo[e])]>>
  <2>1. looked \in Targets /\ looked # NoTarget /\ looked \in Present
    BY <1>1, <1>3, Looked
  <2> HIDE DEF looked
  <2>2. target' = [target EXCEPT ![e] = looked]
    BY <1>3 DEF looked
  <2>3. Domains'
    BY <1>1, <1>2, <1>3, <2>1, <2>2 DEF Domains, Streaming
  <2>4. OnlyOf(e)
    BY <1>1, <1>2, <1>3, <2>2 DEF Domains, OnlyOf
  <2>5. pc'[e] = "fetch" /\ target'[e] = looked /\ Present' = Present
    BY <1>1, <1>2, <1>3, <2>2 DEF Domains, Present
  <2>6. InOrder(e)'
    BY <1>1, <1>3, <2>5 DEF RequestOK, InOrder, Passed, Executing
  <2>7. Current(e)'
    BY <1>1, <1>2, <1>3, <2>1, <2>5 DEF RequestOK, Current, Executing
  <2>8. Held(e)'
    BY <1>1, <1>3, <2>5 DEF RequestOK, Held
  <2>9. RequestOK(e)'
    BY <1>1, <1>2, <1>3, <2>1, <2>5, <2>6, <2>7, <2>8 DEF RequestOK, Executing
  <2>10. QED
    BY <1>1, <1>2, <2>3, <2>4, <2>5, <2>9, MovesOn
<1>4. CASE Fail(e) /\ Release(e, 0)
  BY <1>1, <1>2, <1>4, Fails, Released DEF LeftAtRest
<1>5. CASE Succeed(e, read[e]) /\ Release(e, 0)
  <2>1. read[e] \in SUBSET Targets /\ read[e] \subseteq during[e]
    BY <1>1 DEF Domains, RequestOK, Current
  <2>2. LeftAtRest(e)
    BY <1>1, <1>5, Released DEF LeftAtRest
  <2>3. QED
    BY <1>1, <1>2, <1>5, <2>1, <2>2, Succeeds
<1>6. QED
  BY <1>3, <1>4, <1>5 DEF NextTable

LEMMA FetchedStep ==
    ASSUME ExploreInv, NEW e \in Explorers, Busy = {}, Fetched(e)
    PROVE  ExploreInv'
<1>1. Domains /\ RequestOK(e) /\ pc[e] = "fetch" /\ todo[e] # <<>>
  BY DEF ExploreInv, RequestOK, Fetched
<1>2. UNCHANGED <<source, selected, described, reply, during, edits>> /\ pc[e] \in Executing
  BY <1>1 DEF Fetched, Executing
<1>3. CASE /\ pc' = [pc EXCEPT ![e] = "tables"]
           /\ read' = [read EXCEPT ![e] = @ \cup {target[e]}]
           /\ todo' = [todo EXCEPT ![e] = Tail(@)]
           /\ target' = [target EXCEPT ![e] = NoTarget]
           /\ engine' = [engine EXCEPT ![OwnEngine(e)].files = @ + 1]
           /\ UNCHANGED events
  <2> DEFINE fuller == [engine[e] EXCEPT !.files = @ + 1]
  <2>1. engine[e] \in EngineStates
    BY <1>1 DEF Domains
  <2>2. /\ fuller \in EngineStates /\ fuller.files = engine[e].files + 1
        /\ fuller.up = engine[e].up /\ fuller.loaded = engine[e].loaded
    BY <2>1 DEF EngineStates
  <2>3. engine' = [engine EXCEPT ![e] = fuller]
    BY <1>3 DEF OwnEngine
  <2>4. engine \in [Explorers -> EngineStates]
    BY <1>1 DEF Domains
  <2>5. todo[e] \in Seq(Ids)
    BY <1>1 DEF Domains
  <2>6. /\ Tail(todo[e]) \in Seq(Ids) /\ Len(Tail(todo[e])) = Len(todo[e]) - 1
        /\ Len(todo[e]) \in Nat /\ Cardinality(HttpIds) \in Nat
    <3>1. Len(Tail(todo[e])) = Len(todo[e]) - 1 /\ Tail(todo[e]) \in Seq(Ids)
      BY <1>1, <2>5, HeadTailProperties
    <3>2. Cardinality(HttpIds) \in Nat
      BY <1>1, FS_CardinalityType, ExploreAssumption
    <3>3. QED
      BY <2>5, <3>1, <3>2, LenProperties
  <2>7. /\ todo' \in [Explorers -> Seq(Ids)] /\ todo'[e] = Tail(todo[e])
        /\ \A d \in Explorers \ {e} : todo'[d] = todo[d]
    BY <1>1, <1>3, <2>6 DEF Domains
  <2>8. engine[e].files \in Nat
    BY <2>1 DEF EngineStates
  <2>9. engine[e].files + Len(todo[e]) <= Cardinality(HttpIds) /\ engine[e].up /\ engine[e].loaded
    BY <1>1 DEF RequestOK, Held
  <2> HIDE DEF fuller
  <2>10. engine'[e] = fuller /\ \A d \in Explorers \ {e} : engine'[d] = engine[d]
    BY <2>3, <2>4
  <2>11. engine' \in [Explorers -> EngineStates]
    BY <2>2, <2>3, <2>4
  <2>12. target[e] \in Targets /\ target[e] \in during[e] /\ NoTarget \in Targets
    BY <1>1 DEF Domains, RequestOK, Current, Targets, NoTarget
  <2>13. Domains'
    <3>1. pc' \in [Explorers -> Streaming \cup {"idle", "ended", "broken", "left"}]
      BY <1>1, <1>3 DEF Domains, Streaming
    <3>2. read' \in [Explorers -> SUBSET Targets] /\ target' \in [Explorers -> Targets]
      BY <1>1, <1>3, <2>12 DEF Domains
    <3>3. QED
      BY <1>1, <1>2, <1>3, <2>7, <2>11, <3>1, <3>2 DEF Domains
  <2>14. OnlyOf(e)
    BY <1>1, <1>2, <1>3, <2>7, <2>10 DEF Domains, OnlyOf
  <2>15. /\ pc'[e] = "tables" /\ target'[e] = NoTarget /\ read'[e] = read[e] \cup {target[e]}
         /\ Present' = Present
    BY <1>1, <1>2, <1>3 DEF Domains, Present
  <2>16. InOrder(e)'
    BY <1>1, <1>3, <2>15 DEF RequestOK, InOrder, Passed, Executing
  <2>17. Current(e)'
    BY <1>1, <1>2, <2>12, <2>15 DEF RequestOK, Current, Executing
  <2>18. fuller.files + Len(todo'[e]) <= Cardinality(HttpIds)
    <3>1. \A f, n, c \in Nat : f + n <= c => (f + 1) + (n - 1) <= c
      OBVIOUS
    <3>2. QED
      BY <2>2, <2>6, <2>7, <2>8, <2>9, <3>1
  <2>19. Held(e)'
    BY <2>2, <2>9, <2>10, <2>15, <2>18 DEF Held
  <2>20. RequestOK(e)'
    BY <1>1, <1>2, <2>15, <2>16, <2>17, <2>19 DEF RequestOK, Executing
  <2>21. QED
    BY <1>2, <2>13, <2>14, <2>20, MovesOn
<1>4. CASE Fail(e) /\ \E more \in {0, 1} : Release(e, more)
  BY <1>1, <1>2, <1>4, Fails, Released DEF LeftAtRest
<1>5. QED
  BY <1>3, <1>4 DEF Fetched

-----------------------------------------------------------------------------
(* The client leaves; the registry is edited.                              *)

LEMMA LeaveStep ==
    ASSUME ExploreInv, NEW e \in Explorers, Busy = {}, Leave(e)
    PROVE  ExploreInv'
<1>1. Domains /\ RequestOK(e)
  BY DEF ExploreInv
<1>2. pc[e] \in Streaming /\ pc[e] # "tables"
  BY <1>1 DEF Leave, Domains
<1>3. LeftAtRest(e)
  <2>1. CASE pc[e] = "fetch"
    BY <1>1, <2>1, Released DEF Leave, LeftAtRest
  <2>2. CASE pc[e] # "fetch"
    BY <1>1, <1>2, <2>2 DEF Leave, RequestOK, Held, LeftAtRest
  <2>3. QED
    BY <2>1, <2>2
<1>4. /\ pc' = [pc EXCEPT ![e] = "left"] /\ target' = [target EXCEPT ![e] = NoTarget]
      /\ todo' = [todo EXCEPT ![e] = <<>>] /\ read' = [read EXCEPT ![e] = {}]
      /\ UNCHANGED <<source, selected, described, reply, events, during, edits>>
  BY DEF Leave
<1>5. NoTarget \in Targets /\ <<>> \in Seq(Ids)
  BY EmptySeq DEF Targets, NoTarget
<1>6. Domains'
  BY <1>1, <1>3, <1>4, <1>5, EngineRests DEF Domains
<1>7. OnlyOf(e)
  BY <1>1, <1>3, <1>4, EngineRests DEF Domains, OnlyOf
<1>8. /\ pc'[e] = "left" /\ target'[e] = NoTarget /\ read'[e] = {} /\ engine'[e] \in Resting
  BY <1>1, <1>3, <1>4, EngineRests DEF Domains
<1>9. Len(events[e]) \in 1 .. 4 /\ Passed(e, Len(events[e]))
  BY <1>1, <1>2 DEF RequestOK, InOrder, Streaming, Executing
<1>10. InOrder(e)'
  BY <1>4, <1>8, <1>9 DEF InOrder, Passed, Executing
<1>11. RequestOK(e)'
  BY <1>1, <1>2, <1>4, <1>8, <1>10 DEF RequestOK, Current, Held, Streaming, Executing
<1>12. QED
  BY <1>4, <1>6, <1>7, <1>8, <1>11, MovesOn

LEMMA ChangeStep ==
    ASSUME ExploreInv, NEW i \in Ids, NEW g \in {0, edits + 2}, Change(i, g)
    PROVE  ExploreInv'
<1>1. Domains
  BY DEF ExploreInv
<1>2. /\ edits < MaxEdits /\ edits' = edits + 1 /\ source' = [source EXCEPT ![i] = g]
      /\ during' = [e \in Explorers |-> IF during[e] = {} THEN {} ELSE during[e] \cup {<<i, g>>}]
      /\ UNCHANGED <<pc, selected, todo, described, reply, target, read, events, engine>>
  BY DEF Change, request
<1>3. g \in Generation /\ edits' \in 0 .. MaxEdits
  BY <1>1, <1>2, ExploreAssumption DEF Domains, Generation
<1>4. /\ source' \in [Ids -> Generation] /\ source'[i] = g
      /\ \A j \in Ids \ {i} : source'[j] = source[j]
  BY <1>1, <1>2, <1>3 DEF Domains
<1>5. during' \in [Explorers -> SUBSET (Ids \X Generation)]
  BY <1>1, <1>2, <1>3 DEF Domains
<1>6. Domains'
  BY <1>1, <1>2, <1>3, <1>4, <1>5 DEF Domains
<1>7. Present' \subseteq Present \cup {<<i, g>>} /\ Present # {}
  BY <1>4 DEF Present
<1>8. ASSUME NEW e \in Explorers PROVE RequestOK(e)'
  <2>1. /\ RequestOK(e) /\ during[e] \subseteq during'[e]
        /\ during[e] # {} => during'[e] = during[e] \cup {<<i, g>>}
    BY <1>2 DEF ExploreInv
  <2>2. InOrder(e)' /\ Held(e)'
    BY <1>2, <2>1 DEF RequestOK, InOrder, Passed, Held
  <2>3. Current(e)'
    BY <1>2, <1>7, <2>1 DEF RequestOK, Current
  <2>4. QED
    BY <1>2, <2>1, <2>2, <2>3 DEF RequestOK
<1>9. Busy' = Busy
  BY <1>2 DEF Busy
<1>10. QED
  BY <1>1, <1>6, <1>8, <1>9 DEF ExploreInv

LEMMA ExploreStep == ExploreInv /\ [Next]_vars => ExploreInv'
<1> SUFFICES ASSUME ExploreInv, [Next]_vars PROVE ExploreInv'
  OBVIOUS
<1>1. ASSUME NEW e \in Busy, NextTable(e) PROVE ExploreInv'
  BY <1>1, NextTableStep
<1>2. ASSUME NEW e \in Explorers, Step(e) PROVE ExploreInv'
  BY <1>2, DescribeStep, DescribedStep, NoClientStep, ValidateStep, ExecuteDirectStep, DirectStep,
     ExecuteFederatedStep, FetchedStep DEF Step
<1>3. ASSUME NEW e \in Explorers, Busy = {}, Leave(e) PROVE ExploreInv'
  BY <1>3, LeaveStep
<1>4. ASSUME NEW e \in Explorers, NEW ids \in Selections, Busy = {}, Start(e, ids) PROVE ExploreInv'
  BY <1>4, StartStep
<1>5. ASSUME NEW e \in Explorers, NEW r \in Replies, Busy = {}, Generate(e, r) PROVE ExploreInv'
  BY <1>5, GenerateStep
<1>6. ASSUME NEW i \in Ids, NEW g \in {0, edits + 2}, Change(i, g) PROVE ExploreInv'
  BY <1>6, ChangeStep
<1>7. CASE UNCHANGED vars
  <2>1. Domains' /\ Busy' = Busy
    BY <1>7 DEF vars, request, ExploreInv, Domains, Busy
  <2>2. ASSUME NEW e \in Explorers PROVE RequestOK(e)'
    BY <1>7 DEF vars, request, ExploreInv, RequestOK, InOrder, Passed, Current, Present, Held
  <2>3. QED
    BY <2>1, <2>2 DEF ExploreInv
<1>8. QED
  BY <1>1, <1>2, <1>3, <1>4, <1>5, <1>6, <1>7 DEF Next

-----------------------------------------------------------------------------
(* What the invariant implies.                                             *)

LEMMA ExploreTyped == ExploreInv => TypeOK
<1> SUFFICES ASSUME ExploreInv PROVE TypeOK
  OBVIOUS
<1>1. Domains /\ \A e \in Explorers : RequestOK(e)
  BY DEF ExploreInv
<1>2. Cardinality(HttpIds) \in Nat
  BY <1>1, FS_CardinalityType, ExploreAssumption
<1>3. ASSUME NEW e \in Explorers
      PROVE  engine[e] \in [up : BOOLEAN, loaded : BOOLEAN,
                            files : 0 .. Cardinality(HttpIds), kept : BOOLEAN]
  <2>1. engine[e] \in EngineStates
    BY <1>1 DEF Domains
  <2>2. CASE pc[e] \in {"tables", "fetch"}
    <3>1. engine[e].files + Len(todo[e]) <= Cardinality(HttpIds)
      BY <1>1, <2>2 DEF RequestOK, Held
    <3>2. Len(todo[e]) \in Nat
      BY <1>1, LenProperties DEF Domains
    <3>3. \A f, n, c \in Nat : f + n <= c => f \in 0 .. c
      OBVIOUS
    <3>5. engine[e].files \in Nat
      BY <2>1 DEF EngineStates
    <3>4. engine[e].files \in 0 .. Cardinality(HttpIds)
      BY <1>2, <3>1, <3>2, <3>3, <3>5
    <3>6. QED
      BY <2>1, <3>4 DEF EngineStates
  <2>3. CASE pc[e] \notin {"tables", "fetch"}
    <3>1. engine[e].files = 0
      BY <1>1, <2>3 DEF RequestOK, Held, Resting
    <3>2. engine[e].files \in 0 .. Cardinality(HttpIds)
      BY <1>2, <3>1
    <3>3. QED
      BY <2>1, <3>2 DEF EngineStates
  <2>4. QED
    BY <2>2, <2>3
<1>4. engine \in [Explorers -> [up : BOOLEAN, loaded : BOOLEAN,
                               files : 0 .. Cardinality(HttpIds), kept : BOOLEAN]]
  <2> DEFINE Engine == [up : BOOLEAN, loaded : BOOLEAN,
                        files : 0 .. Cardinality(HttpIds), kept : BOOLEAN]
  <2>1. \A e \in Explorers : engine[e] \in Engine
    BY <1>3
  <2>2. DOMAIN engine = Explorers /\ engine = [e \in DOMAIN engine |-> engine[e]]
    BY <1>1 DEF Domains
  <2> HIDE DEF Engine
  <2>3. engine \in [Explorers -> Engine]
    BY <2>1, <2>2
  <2>4. QED
    BY <2>3 DEF Engine
<1>5. Cardinality(Busy) <= 1
  <2>1. CASE Busy = {}
    BY <2>1, FS_EmptySet
  <2>2. CASE Busy # {}
    <3>1. PICK e \in Busy : Busy = {e}
      BY <2>2 DEF ExploreInv
    <3>2. Cardinality({e}) = 1
      BY FS_Singleton
    <3>3. QED
      BY <3>1, <3>2
  <2>3. QED
    BY <2>1, <2>2
<1>6. \A e \in Explorers : (target[e] # NoTarget) <=> pc[e] \in {"schema", "direct", "fetch"}
  BY <1>1 DEF RequestOK
<1>7. QED
  BY <1>1, <1>4, <1>5, <1>6 DEF TypeOK, Domains, Generation, Streaming

LEMMA ExploreInOrder == ExploreInv => EventsInOrder
<1> SUFFICES ASSUME ExploreInv, NEW e \in Explorers
             PROVE  LET n == Len(events[e]) IN
                    /\ \A k \in 1 .. n :
                         \/ events[e][k] = <<Pipeline[k]>>
                         \/ k = n /\ events[e][k][1] = "error"
                    /\ n > 0 /\ events[e][n][1] \in {"done", "error"} => pc[e] = "ended"
                    /\ pc[e] = "ended" => n > 0 /\ events[e][n][1] \in {"done", "error"}
                    /\ pc[e] = "broken" => n \in {1, 2, 4}
  BY DEF EventsInOrder
<1> DEFINE n == Len(events[e])
<1>1. Domains /\ InOrder(e)
  BY DEF ExploreInv, RequestOK
<1>2. n \in Nat
  BY <1>1, LenProperties DEF Domains
<1>3. CASE pc[e] # "ended"
  <2>1. n \in 0 .. 4 /\ Passed(e, n)
    BY <1>1, <1>3 DEF InOrder, Domains, Streaming, Executing
  <2>2. ASSUME n > 0 PROVE events[e][n][1] \notin {"done", "error"}
    <3>1. n = 1 \/ n = 2 \/ n = 3 \/ n = 4
      BY <2>1, <2>2
    <3>2. events[e][n] = <<Pipeline[n]>>
      BY <2>1, <2>2 DEF Passed
    <3>3. Pipeline[n] \notin {"done", "error"}
      BY <3>1, PipelineSteps
    <3>4. QED
      BY <3>2, <3>3
  <2>3. pc[e] = "broken" => n \in {1, 2, 4}
    BY <1>1 DEF InOrder
  <2>4. QED
    BY <1>3, <2>1, <2>2, <2>3 DEF Passed
<1>4. CASE pc[e] = "ended" /\ n = 5 /\ Passed(e, 5)
  <2>1. events[e][n] = <<"done">>
    BY <1>4, PipelineSteps DEF Passed
  <2>2. events[e][n][1] = "done"
    BY <2>1
  <2>3. QED
    BY <1>4, <2>2 DEF Passed
<1>5. CASE pc[e] = "ended" /\ n \in 2 .. 5 /\ Passed(e, n - 1) /\ events[e][n][1] = "error"
  <2> DEFINE event == events[e][n]
             Right(k) == events[e][k] = <<Pipeline[k]>>
  <2>1. event[1] = "error" /\ n \in 2 .. 5 /\ \A k \in 1 .. n - 1 : Right(k)
    BY <1>5 DEF Passed
  <2> HIDE DEF n, event, Right
  <2>2. n > 0 /\ event[1] \in {"done", "error"}
    BY <2>1
  <2>3. ASSUME NEW k \in 1 .. n, k # n PROVE Right(k)
    BY <2>1, <2>3
  <2>4. \A k \in 1 .. n : Right(k) \/ k = n
    BY <2>3
  <2>5. QED
    BY <1>5, <2>1, <2>2, <2>4 DEF n, event, Right
<1>6. QED
  BY <1>1, <1>3, <1>4, <1>5 DEF InOrder

-----------------------------------------------------------------------------
(* Every behaviour of the run that explores.                               *)

Explored == endpoint = "explore" => ExploreInv

LEMMA ExploreInvariance == MCSpec => []Explored
<1>1. MCInit => Explored
  BY StreamsBegin DEF MCInit, Explored
<1>2. Explored /\ [MCNext]_<<vars, endpoint, suggestions, federation>> => Explored'
  <2> SUFFICES ASSUME endpoint = "explore" => ExploreInv, endpoint' = "explore",
                      [MCNext]_<<vars, endpoint, suggestions, federation>>
               PROVE  ExploreInv'
    BY DEF Explored
  <2>1. endpoint = "explore" /\ [Next]_vars
    BY DEF MCNext
  <2>2. QED
    BY <2>1, ExploreStep
<1>3. QED
  BY <1>1, <1>2, PTL DEF MCSpec

\* The steps of a stream come in order, none left out; an error or done is the last of one
\* that was neither left nor broken off, which happens only before the LLM is asked and once
\* the statement has run; and past the scan there is only what passes it, whatever the LLM
\* replies and whoever leaves (web/routes/explore.py:181-344, core/llm_guard.py:44-96).
THEOREM StreamsPassEveryStep == MCSpec => []StreamsInOrder
<1>1. Explored => StreamsInOrder
  <2> SUFFICES ASSUME ExploreInv PROVE TypeOK /\ EventsInOrder /\ OnlyScannedRuns
    BY DEF Explored, StreamsInOrder
  <2>1. OnlyScannedRuns
    BY DEF OnlyScannedRuns, ExploreInv, RequestOK, Current, Executing
  <2>2. QED
    BY <2>1, ExploreTyped, ExploreInOrder
<1>2. QED
  BY <1>1, ExploreInvariance, PTL

\* A request has its engine while it fills it; however it ends, an engine that was ready is
\* disconnected and none of its temporary files is left but those that could not be removed
\* (web/routes/explore.py:292-301, engine/duckdb.py:55-68).
THEOREM EnginesAreReleased == MCSpec => []EveryEngineReleased
<1>1. Explored => EveryEngineReleased
  BY DEF Explored, EveryEngineReleased, EnginesReleased, OwnEngine, ExploreInv, RequestOK, Held,
     Resting
<1>2. QED
  BY <1>1, ExploreInvariance, PTL

\* The rows of an answer come from sources as they were configured at some time while the
\* query was executed (web/routes/explore.py:292-309).
THEOREM AnswersAreCurrent == MCSpec => []EveryAnswerCurrent
<1>1. Explored => EveryAnswerCurrent
  BY DEF Explored, EveryAnswerCurrent, AnswerIsCurrent, ExploreInv, RequestOK, Current
<1>2. QED
  BY <1>1, ExploreInvariance, PTL

-----------------------------------------------------------------------------
(* Federation.  The inductive invariant.                                   *)

\* What TypeOK leaves out.
QueryDomains ==
    /\ statement \in [Queries -> SUBSET Fed!Refs]
    /\ sqlRefs \in [Queries -> SUBSET SqlIds]
    /\ todo \in [Queries -> SUBSET Fed!Refs]
    /\ current \in [Queries -> Fed!Refs \cup {Fed!NoRef}]
    /\ during \in [Queries -> SUBSET (Fed!Ids \X Generation)]
    /\ answer \in [Queries -> SUBSET (Fed!Refs \X Fed!Rows)]
    /\ up \in BOOLEAN /\ (~up => \A q \in Queries : pc[q] = "idle")
    /\ queries \in 0 .. MaxQueries /\ edits \in 0 .. MaxEdits

\* Rows that query q fetched for table r.
Own(q, r, rows) == rows.fetcher = number[q] /\ <<r[1], rows.generation>> \in during[q]

\* A query between two steps: what it is fetching, from an instance that was registered
\* since it began; and, if no other query runs, that the views it is done with are its own.
Running(q) ==
    /\ current[q] \in Fed!FetchedBy(q) /\ todo[q] \subseteq Fed!FetchedBy(q) \ {current[q]}
    /\ \A i \in Fed!Ids : <<i, source[i]>> \in during[q]
    /\ <<current[q][1], instance[q]>> \in during[q]
    /\ answer[q] = {}
    /\ alone[q] => \A p \in Queries \ {q} : pc[p] = "idle"
    /\ alone[q] => \A r \in Fed!FetchedBy(q) \ (todo[q] \cup {current[q]}) :
                      Fed!RegisteredThroughout(q, r[1]) => Own(q, r, view[r])

\* OwnFetch and FetchedRowsAreCurrent of the last answer.
Answered(q) ==
    Fed!Undisturbed(q) => \A got \in answer[q] : Fed!RegisteredThroughout(q, got[1][1]) =>
        /\ got[2].fetcher = number[q]
        /\ got[1] \in Fed!FetchedBy(q) => <<got[1][1], got[2].generation>> \in during[q]

QueriesInv ==
    /\ Fed!TypeOK /\ QueryDomains
    /\ \A q \in Queries : pc[q] # "idle" => Running(q)
    /\ \A q \in Queries : Answered(q)

-----------------------------------------------------------------------------
(* The initial state.                                                      *)

LEMMA Zeroes ==
    /\ MaxEdits \in Nat /\ MaxQueries \in Nat /\ 0 \in Generation /\ 1 \in Generation
    /\ 0 \in 0 .. MaxQueries /\ 0 \in 0 .. MaxEdits
    /\ Fed!NoRows \in Fed!Rows
BY QueriesAreConfigured DEF Fed!FederationAssumption, Generation, Fed!NoRows, Fed!Rows

LEMMA QueriesBegin == ASSUME Fed!Init PROVE QueriesInv
<1>1. Fed!TypeOK
  BY Zeroes DEF Fed!Init, Fed!TypeOK, Generation
<1>2. QueryDomains
  BY Zeroes DEF Fed!Init, QueryDomains, Generation
<1>3. \A q \in Queries : answer[q] = {} /\ pc[q] = "idle"
  BY DEF Fed!Init
<1>4. QED
  BY <1>1, <1>2, <1>3 DEF QueriesInv, Answered

-----------------------------------------------------------------------------
(* The steps of a query.                                                   *)

\* A statement that reads at most one fetched table.
LEMMA OnlyFetched ==
    ASSUME NEW S, IsFiniteSet(S), Cardinality(S) <= 1, NEW r \in S, NEW t \in S
    PROVE  r = t
<1> SUFFICES ASSUME r # t PROVE FALSE
  OBVIOUS
<1> DEFINE w == Cardinality(S)  w1 == Cardinality(S \ {r})  w2 == Cardinality((S \ {r}) \ {t})
<1>1. IsFiniteSet(S \ {r}) /\ w1 = w - 1
  BY FS_RemoveElement
<1>2. IsFiniteSet((S \ {r}) \ {t}) /\ w2 = w1 - 1
  BY <1>1, FS_RemoveElement
<1>3. w \in Nat /\ w1 \in Nat /\ w2 \in Nat /\ w <= 1
  BY <1>1, <1>2, FS_CardinalityType
<1> HIDE DEF w, w1, w2
<1>4. QED
  BY <1>1, <1>2, <1>3

\* What the other queries may see of a step of query q.
Beside(q) ==
    \A p \in Queries \ {q} :
        /\ pc'[p] = pc[p] /\ number'[p] = number[p] /\ statement'[p] = statement[p]
        /\ todo'[p] = todo[p] /\ current'[p] = current[p] /\ instance'[p] = instance[p]
        /\ during'[p] = during[p] /\ answer'[p] = answer[p]
        /\ alone'[p] => alone[p] /\ pc[p] = "idle"

\* The other queries are not running alone, so that their views are not at stake.
LEMMA OthersKept ==
    ASSUME QueriesInv, NEW q \in Queries, Beside(q), source' = source
    PROVE  \A p \in Queries \ {q} : (pc'[p] # "idle" => Running(p)') /\ Answered(p)'
<1> TAKE p \in Queries \ {q}
<1>1. /\ pc'[p] = pc[p] /\ number'[p] = number[p] /\ statement'[p] = statement[p]
      /\ todo'[p] = todo[p] /\ current'[p] = current[p] /\ instance'[p] = instance[p]
      /\ during'[p] = during[p] /\ answer'[p] = answer[p]
      /\ alone'[p] => alone[p] /\ pc[p] = "idle"
  BY DEF Beside
<1>2. Fed!FetchedBy(p)' = Fed!FetchedBy(p)
  BY <1>1 DEF Fed!FetchedBy
<1>3. ASSUME pc'[p] # "idle" PROVE Running(p)'
  <2>1. Running(p) /\ ~alone'[p]
    BY <1>1, <1>3 DEF QueriesInv
  <2>2. QED
    BY <1>1, <1>2, <2>1 DEF Running
<1>4. Answered(p)'
  <2>1. Fed!Undisturbed(p)' => Fed!Undisturbed(p)
    BY <1>1, <1>2 DEF Fed!Undisturbed
  <2>2. QED
    BY <1>1, <1>2, <2>1 DEF QueriesInv, Answered, Fed!RegisteredThroughout
<1>5. QED
  BY <1>3, <1>4


\* The query is over, with the rows that its statement read or with an error ...
Ends(q, refs) ==
    /\ pc'[q] = "idle" /\ current'[q] = Fed!NoRef /\ todo'[q] = {}
    /\ \/ answer'[q] = {}
       \/ refs = {} /\ answer'[q] = {<<r, Fed!ReadOf(q, r)>> : r \in statement'[q]}

\* ... or it waits for the rows of the next table, from an instance it holds or looks up now.
Waits(q, refs, held) ==
    /\ pc'[q] = "fetch" /\ answer'[q] = {}
    /\ \E r \in refs : /\ current'[q] = r /\ todo'[q] = refs \ {r}
                       /\ instance'[q] = IF r[1] \in held THEN instance[q] ELSE source[r[1]]

\* The part of execute() after the tables in hand.
LEMMA Continues ==
    ASSUME QueriesInv, NEW q \in Queries, NEW refs \in SUBSET Fed!Refs, NEW held,
           Fed!FetchNext(q, refs, held) \/ Fed!Raise(q),
           statement'[q] \in SUBSET Fed!Refs, \A r \in statement'[q] : Fed!ReadOf(q, r) \in Fed!Rows
    PROVE  /\ pc' \in [Queries -> {"idle", "fetch", "create"}]
           /\ todo' \in [Queries -> SUBSET Fed!Refs]
           /\ current' \in [Queries -> Fed!Refs \cup {Fed!NoRef}]
           /\ instance' \in [Queries -> Generation]
           /\ answer' \in [Queries -> SUBSET (Fed!Refs \X Fed!Rows)]
           /\ \A p \in Queries \ {q} :
                 /\ pc'[p] = pc[p] /\ todo'[p] = todo[p] /\ current'[p] = current[p]
                 /\ instance'[p] = instance[p] /\ answer'[p] = answer[p]
           /\ Ends(q, refs) \/ Waits(q, refs, held)
<1>1. /\ pc \in [Queries -> {"idle", "fetch", "create"}]
      /\ todo \in [Queries -> SUBSET Fed!Refs] /\ current \in [Queries -> Fed!Refs \cup {Fed!NoRef}]
      /\ instance \in [Queries -> Generation]
      /\ answer \in [Queries -> SUBSET (Fed!Refs \X Fed!Rows)]
      /\ source \in [Fed!Ids -> Generation] /\ 0 \in Generation
      /\ \A r \in Fed!Refs : r[1] \in Fed!Ids
  BY QueriesAreConfigured, Zeroes DEF Fed!FederationAssumption, QueriesInv, Fed!TypeOK,
     QueryDomains, Generation
<1>2. ASSUME NEW rows \in SUBSET (Fed!Refs \X Fed!Rows), Fed!Return(q, rows),
             rows = {} \/ (refs = {} /\ rows = {<<r, Fed!ReadOf(q, r)>> : r \in statement'[q]})
      PROVE  /\ pc' \in [Queries -> {"idle", "fetch", "create"}]
             /\ todo' \in [Queries -> SUBSET Fed!Refs]
             /\ current' \in [Queries -> Fed!Refs \cup {Fed!NoRef}]
             /\ instance' \in [Queries -> Generation]
             /\ answer' \in [Queries -> SUBSET (Fed!Refs \X Fed!Rows)]
             /\ \A p \in Queries \ {q} :
                   /\ pc'[p] = pc[p] /\ todo'[p] = todo[p] /\ current'[p] = current[p]
                   /\ instance'[p] = instance[p] /\ answer'[p] = answer[p]
             /\ Ends(q, refs)
  BY <1>1, <1>2 DEF Fed!Return, Ends
<1>3. ASSUME NEW r \in refs, Fed!Fetch(q, r), todo' = [todo EXCEPT ![q] = refs \ {r}],
             r[1] \in held \/ source[r[1]] # 0,
             instance' = [instance EXCEPT ![q] = IF r[1] \in held THEN @ ELSE source[r[1]]]
      PROVE  /\ pc' \in [Queries -> {"idle", "fetch", "create"}]
             /\ todo' \in [Queries -> SUBSET Fed!Refs]
             /\ current' \in [Queries -> Fed!Refs \cup {Fed!NoRef}]
             /\ instance' \in [Queries -> Generation]
             /\ answer' \in [Queries -> SUBSET (Fed!Refs \X Fed!Rows)]
             /\ \A p \in Queries \ {q} :
                   /\ pc'[p] = pc[p] /\ todo'[p] = todo[p] /\ current'[p] = current[p]
                   /\ instance'[p] = instance[p] /\ answer'[p] = answer[p]
             /\ Waits(q, refs, held)
  BY <1>1, <1>3 DEF Fed!Fetch, Waits
<1>4. CASE Fed!Raise(q)
  BY <1>2, <1>4 DEF Fed!Raise
<1>5. CASE refs = {} /\ Fed!Answerable(q)
           /\ Fed!Return(q, {<<r, Fed!ReadOf(q, r)>> : r \in statement'[q]})
  <2>1. {<<r, Fed!ReadOf(q, r)>> : r \in statement'[q]} \in SUBSET (Fed!Refs \X Fed!Rows)
    OBVIOUS
  <2>2. QED
    BY <1>2, <1>5, <2>1
<1>6. CASE \E r \in refs : /\ Fed!Fetch(q, r) /\ todo' = [todo EXCEPT ![q] = refs \ {r}]
                           /\ r[1] \in held \/ source[r[1]] # 0
                           /\ instance' = [instance EXCEPT ![q] = IF r[1] \in held
                              THEN @ ELSE source[r[1]]]
  BY <1>3, <1>6
<1>7. QED
  BY <1>4, <1>5, <1>6 DEF Fed!FetchNext, Fed!Run

\* A step of execute() that goes on with the tables refs keeps the invariant, if what it is
\* done with is its own, as far as no other query is in between.
LEMMA QueryStep ==
    ASSUME QueriesInv, NEW q \in Queries, NEW refs \in SUBSET Fed!Refs, NEW held,
           Fed!FetchNext(q, refs, held) \/ Fed!Raise(q),
           UNCHANGED <<source, up, edits>>, up, queries' \in 0 .. MaxQueries,
           attached' \in [SqlIds -> Generation], view' \in [Fed!Refs -> Fed!Rows],
           number' \in [Queries -> 0 .. MaxQueries],
           statement' \in [Queries -> SUBSET Fed!Refs],
           \A p \in Queries : statement'[p] \in Statements \cup {{}},
           sqlRefs' \in [Queries -> SUBSET SqlIds],
           during' \in [Queries -> SUBSET (Fed!Ids \X Generation)],
           alone' \in [Queries -> BOOLEAN],
           \A p \in Queries \ {q} :
              /\ number'[p] = number[p] /\ statement'[p] = statement[p] /\ during'[p] = during[p]
              /\ alone'[p] => alone[p] /\ pc[p] = "idle",
           refs \subseteq Fed!FetchedBy(q)',
           \A i \in Fed!Ids : <<i, source[i]>> \in during'[q],
           \A i \in held : <<i, instance[q]>> \in during'[q],
           alone'[q] => \A p \in Queries \ {q} : pc[p] = "idle",
           Fed!Undisturbed(q)' => \A r \in Fed!FetchedBy(q)' \ refs :
                                Fed!RegisteredThroughout(q, r[1])' => Own(q, r, view[r])'
    PROVE  QueriesInv'
<1>1. /\ Fed!NoRef \notin Fed!Refs /\ SqlIds \cap HttpIds = {}
      /\ \A r \in Fed!Refs : r[1] \in Fed!Ids
      /\ Fed!FetchedBy(q)' = {r \in statement'[q] : r[1] \in HttpIds}
  BY QueriesAreConfigured DEF Fed!FederationAssumption, Fed!FetchedBy
<1>2. \A r \in statement'[q] : Fed!ReadOf(q, r) \in Fed!Rows
  BY DEF Fed!ReadOf, Fed!Rows, Generation
<1>3. /\ pc' \in [Queries -> {"idle", "fetch", "create"}]
      /\ todo' \in [Queries -> SUBSET Fed!Refs]
      /\ current' \in [Queries -> Fed!Refs \cup {Fed!NoRef}]
      /\ instance' \in [Queries -> Generation]
      /\ answer' \in [Queries -> SUBSET (Fed!Refs \X Fed!Rows)]
      /\ \A p \in Queries \ {q} :
            /\ pc'[p] = pc[p] /\ todo'[p] = todo[p] /\ current'[p] = current[p]
            /\ instance'[p] = instance[p] /\ answer'[p] = answer[p]
      /\ Ends(q, refs) \/ Waits(q, refs, held)
  BY <1>2, Continues
<1>4. QueryDomains'
  BY <1>3 DEF QueriesInv, QueryDomains
<1>5. Fed!TypeOK'
  <2>a. \A p \in Queries : todo[p] \subseteq statement[p]
                           /\ ((pc[p] = "idle") <=> (current[p] = Fed!NoRef))
    BY DEF QueriesInv, Fed!TypeOK
  <2>b. todo'[q] \subseteq statement'[q] /\ ((pc'[q] = "idle") <=> (current'[q] = Fed!NoRef))
    <3>1. Fed!FetchedBy(q)' \subseteq statement'[q]
      BY <1>1
    <3>2. CASE Ends(q, refs)
      BY <3>2 DEF Ends
    <3>3. CASE Waits(q, refs, held)
      BY <1>1, <3>1, <3>3 DEF Waits
    <3>4. QED
      BY <1>3, <3>2, <3>3
  <2>1. \A p \in Queries : todo'[p] \subseteq statement'[p] /\ sqlRefs'[p] \subseteq SqlIds
    <3>1. \A p \in Queries : sqlRefs'[p] \subseteq SqlIds
      OBVIOUS
    <3>2. \A p \in Queries \ {q} : todo'[p] \subseteq statement'[p]
      BY <1>3, <2>a
    <3>3. QED
      BY <2>b, <3>1, <3>2
  <2>2. \A p \in Queries : (pc'[p] = "idle") <=> (current'[p] = Fed!NoRef)
    BY <1>3, <2>a, <2>b
  <2>3. source' \in [Fed!Ids -> Generation] /\ up'
    BY DEF QueriesInv, Fed!TypeOK, Generation
  <2>4. QED
    BY <1>3, <2>1, <2>2, <2>3 DEF Fed!TypeOK, Generation
<1>6. Beside(q)
  BY <1>3 DEF Beside
<1>7. \A p \in Queries \ {q} : (pc'[p] # "idle" => Running(p)') /\ Answered(p)'
  BY <1>6, OthersKept
<1>8. CASE Ends(q, refs)
  <2>1. Answered(q)'
    <3> SUFFICES ASSUME Fed!Undisturbed(q)', NEW got \in answer'[q],
                        Fed!RegisteredThroughout(q, got[1][1])'
                 PROVE  /\ got[2].fetcher = number'[q]
                        /\ got[1] \in Fed!FetchedBy(q)'
                           => <<got[1][1], got[2].generation>> \in during'[q]
      BY DEF Answered
    <3>1. PICK r \in statement'[q] : got = <<r, Fed!ReadOf(q, r)>>
      BY <1>8 DEF Ends
    <3>2. refs = {}
      BY <1>8 DEF Ends
    <3>3. CASE r[1] \in SqlIds
      BY <1>1, <3>1, <3>3 DEF Fed!ReadOf
    <3>4. CASE r[1] \notin SqlIds
      <4>1. r \in Fed!FetchedBy(q)' /\ got[1] = r /\ got[2] = view'[r]
        BY <1>1, <3>1, <3>4 DEF Fed!ReadOf, Fed!Ids
      <4>2. Own(q, r, view[r])'
        BY <3>2, <4>1
      <4>3. QED
        BY <4>1, <4>2 DEF Own
    <3>5. QED
      BY <3>3, <3>4
  <2>2. QED
    BY <1>4, <1>5, <1>7, <1>8, <2>1 DEF QueriesInv, Ends
<1>9. CASE Waits(q, refs, held)
  <2>1. PICK r \in refs : /\ current'[q] = r /\ todo'[q] = refs \ {r}
                          /\ instance'[q] = IF r[1] \in held THEN instance[q] ELSE source[r[1]]
    BY <1>9 DEF Waits
  <2>2. Running(q)'
    <3>1. <<r[1], instance'[q]>> \in during'[q]
      BY <1>1, <2>1
    <3>2. todo'[q] \cup {current'[q]} = refs
      BY <2>1
    <3>3. alone'[q] => \A t \in Fed!FetchedBy(q)' \ (todo'[q] \cup {current'[q]}) :
                          Fed!RegisteredThroughout(q, t[1])' => Own(q, t, view[t])'
      BY <3>2 DEF Fed!Undisturbed
    <3>4. answer'[q] = {} /\ current'[q] \in Fed!FetchedBy(q)'
          /\ todo'[q] \subseteq Fed!FetchedBy(q)' \ {current'[q]}
      BY <1>9, <2>1 DEF Waits
    <3>5. alone'[q] => \A p \in Queries \ {q} : pc'[p] = "idle"
      BY <1>3
    <3>6. QED
      BY <2>1, <3>1, <3>3, <3>4, <3>5 DEF Running, Own
  <2>3. Answered(q)'
    BY <1>9 DEF Answered, Waits
  <2>4. QED
    BY <1>4, <1>5, <1>7, <2>2, <2>3 DEF QueriesInv
<1>10. QED
  BY <1>3, <1>8, <1>9

LEMMA BeginStep ==
    ASSUME QueriesInv, NEW q \in Queries, NEW refs \in Statements,
           Fed!Begin(q, refs) PROVE QueriesInv'
<1> DEFINE sql  == {i \in SqlIds : source[i] # 0 /\ \E r \in refs : r[1] = i}
           http == {r \in refs : r[1] \in HttpIds /\ source[r[1]] # 0}
           none == {}
<1>1. /\ source \in [Fed!Ids -> Generation] /\ attached \in [SqlIds -> Generation]
      /\ view \in [Fed!Refs -> Fed!Rows] /\ number \in [Queries -> 0 .. MaxQueries]
      /\ statement \in [Queries -> SUBSET Fed!Refs] /\ sqlRefs \in [Queries -> SUBSET SqlIds]
      /\ during \in [Queries -> SUBSET (Fed!Ids \X Generation)] /\ alone \in [Queries -> BOOLEAN]
      /\ queries \in 0 .. MaxQueries
      /\ SqlIds \subseteq Fed!Ids /\ \A r \in Fed!Refs : r[1] \in Fed!Ids
  BY QueriesAreConfigured DEF Fed!FederationAssumption, QueriesInv, Fed!TypeOK, QueryDomains,
     Generation, Fed!Ids
<1>2. refs \in SUBSET Fed!Refs /\ http \in SUBSET Fed!Refs /\ sql \in SUBSET SqlIds
  BY DEF Fed!Refs
<1>3. /\ pc[q] = "idle" /\ queries < MaxQueries /\ up
      /\ queries' = queries + 1
      /\ number' = [number EXCEPT ![q] = queries + 1]
      /\ statement' = [statement EXCEPT ![q] = refs]
      /\ sqlRefs' = [sqlRefs EXCEPT ![q] = sql]
      /\ during' = [during EXCEPT ![q] = {<<i, source[i]>> : i \in Fed!Ids}]
      /\ alone' = [p \in Queries |->
                     IF p = q THEN \A o \in Queries : pc[o] = "idle"
                              ELSE alone[p] /\ pc[p] = "idle"]
      /\ UNCHANGED <<view, source, up, edits>>
  BY DEF Fed!Begin
<1>4. attached' \in [SqlIds -> Generation] /\ (Fed!FetchNext(q, http, none) \/ Fed!Raise(q))
  <2>1. \/ /\ attached' = [i \in SqlIds |->
                             IF i \in sql /\ attached[i] = 0 THEN source[i] ELSE attached[i]]
           /\ Fed!FetchNext(q, http, {})
        \/ \E done \in SUBSET {i \in sql : attached[i] = 0} :
             /\ attached' = [i \in SqlIds |-> IF i \in done THEN source[i] ELSE attached[i]]
             /\ Fed!Raise(q)
    BY DEF Fed!Begin
  <2> HIDE DEF sql, http
  <2>2. QED
    BY <1>1, <2>1
<1>5. Fed!FetchedBy(q)' = {r \in refs : r[1] \in HttpIds}
  BY <1>1, <1>3 DEF Fed!FetchedBy
<1>6. during'[q] = {<<i, source[i]>> : i \in Fed!Ids}
  BY <1>1, <1>3
<1>7. \A r \in Fed!FetchedBy(q)' \ http : ~Fed!RegisteredThroughout(q, r[1])'
  <2> TAKE r \in Fed!FetchedBy(q)' \ http
  <2>1. r \in Fed!Refs /\ source[r[1]] = 0 /\ r[1] \in Fed!Ids
    BY <1>1, <1>2, <1>5
  <2>2. <<r[1], 0>> \in during'[q]
    BY <1>6, <2>1
  <2>3. QED
    BY <2>2 DEF Fed!RegisteredThroughout
<1>8. http \subseteq Fed!FetchedBy(q)'
  BY <1>5
<1>9. /\ queries' \in 0 .. MaxQueries /\ number' \in [Queries -> 0 .. MaxQueries]
      /\ statement' \in [Queries -> SUBSET Fed!Refs] /\ sqlRefs' \in [Queries -> SUBSET SqlIds]
      /\ during' \in [Queries -> SUBSET (Fed!Ids \X Generation)] /\ view' \in [Fed!Refs -> Fed!Rows]
  <2>1. queries + 1 \in 0 .. MaxQueries
    BY <1>1, <1>3, QueriesAreConfigured, Zeroes
  <2>2. {<<i, source[i]>> : i \in Fed!Ids} \in SUBSET (Fed!Ids \X Generation)
    BY <1>1
  <2> HIDE DEF sql
  <2>3. QED
    BY <1>1, <1>2, <1>3, <2>1, <2>2
<1>10. /\ alone' \in [Queries -> BOOLEAN]
       /\ alone'[q] => \A p \in Queries \ {q} : pc[p] = "idle"
       /\ \A p \in Queries \ {q} : alone'[p] => alone[p] /\ pc[p] = "idle"
  BY <1>1, <1>3, Zenon
<1>11. \A p \in Queries : statement'[p] \in Statements \cup {{}}
  BY <1>1, <1>3 DEF QueriesInv, Fed!TypeOK
<1>12. \A p \in Queries \ {q} :
          /\ number'[p] = number[p] /\ statement'[p] = statement[p] /\ during'[p] = during[p]
          /\ alone'[p] => alone[p] /\ pc[p] = "idle"
  <2>1. \A p \in Queries \ {q} :
          number'[p] = number[p] /\ statement'[p] = statement[p] /\ during'[p] = during[p]
    BY <1>1, <1>3
  <2>2. QED
    BY <1>10, <2>1, Zenon
<1>13. \A i \in Fed!Ids : <<i, source[i]>> \in during'[q]
  BY <1>6
<1>14. Fed!Undisturbed(q)' => \A r \in Fed!FetchedBy(q)' \ http :
                             Fed!RegisteredThroughout(q, r[1])' => Own(q, r, view[r])'
  BY <1>7
<1>15. \A i \in none : <<i, instance[q]>> \in during'[q]
  OBVIOUS
<1>16. UNCHANGED <<source, up, edits>> /\ up
  BY <1>3
<1> HIDE DEF http, sql, none
<1>17. QED
  BY <1>2, <1>4, <1>8, <1>9, <1>10, <1>11, <1>12, <1>13, <1>14, <1>15, <1>16, QueryStep


\* The instance has a copy of FiniteSets.
LEMMA SameFinite == ASSUME NEW S PROVE Fed!IsFiniteSet(S) <=> IsFiniteSet(S)
BY DEF Fed!IsFiniteSet, IsFiniteSet

LEMMA SameCardinality == ASSUME NEW S PROVE Fed!Cardinality(S) = Cardinality(S)
BY SameFinite DEF Fed!Cardinality, Cardinality

\* A query reads finitely many tables.
LEMMA FinitelyFetched == ASSUME QueriesInv, NEW q \in Queries PROVE IsFiniteSet(Fed!FetchedBy(q))
<1>1. IsFiniteSet(statement[q])
  BY QueriesAreConfigured, SameFinite, FS_EmptySet DEF Fed!FederationAssumption, QueriesInv,
     Fed!TypeOK
<1>2. Fed!FetchedBy(q) \subseteq statement[q]
  BY DEF Fed!FetchedBy
<1>3. QED
  BY <1>1, <1>2, FS_Subset

\* A query that fails under way leaves nothing behind but its views.
LEMMA QueryFails ==
    ASSUME QueriesInv, NEW q \in Queries, pc[q] # "idle", Fed!Raise(q),
           UNCHANGED <<source, Fed!catalog, number, statement, sqlRefs, during, alone, queries,
                       edits>>
    PROVE  QueriesInv'
<1>1. UNCHANGED <<source, up, attached, view, number, statement, sqlRefs, during, alone, queries,
                  edits>>
  BY DEF Fed!catalog
<1>2. statement'[q] \in SUBSET Fed!Refs /\ \A r \in statement'[q] : Fed!ReadOf(q, r) \in Fed!Rows
  BY <1>1, QueriesAreConfigured DEF Fed!FederationAssumption, QueriesInv, Fed!TypeOK, QueryDomains,
     Fed!ReadOf, Fed!Rows, Fed!Ids
<1>3. /\ pc' \in [Queries -> {"idle", "fetch", "create"}]
      /\ todo' \in [Queries -> SUBSET Fed!Refs]
      /\ current' \in [Queries -> Fed!Refs \cup {Fed!NoRef}]
      /\ instance' \in [Queries -> Generation]
      /\ answer' \in [Queries -> SUBSET (Fed!Refs \X Fed!Rows)]
      /\ \A p \in Queries \ {q} :
            /\ pc'[p] = pc[p] /\ todo'[p] = todo[p] /\ current'[p] = current[p]
            /\ instance'[p] = instance[p] /\ answer'[p] = answer[p]
  BY <1>2, Continues
<1>4. pc'[q] = "idle" /\ current'[q] = Fed!NoRef /\ todo'[q] = {} /\ answer'[q] = {}
  BY DEF QueriesInv, Fed!TypeOK, QueryDomains, Fed!Raise, Fed!Return
<1>5. Beside(q)
  <2>1. \A p \in Queries \ {q} : alone[p] => pc[p] = "idle"
    BY DEF QueriesInv, Running
  <2>2. QED
    BY <1>1, <1>3, <2>1 DEF Beside
<1>6. \A p \in Queries \ {q} : (pc'[p] # "idle" => Running(p)') /\ Answered(p)'
  BY <1>1, <1>5, OthersKept
<1>7. Answered(q)'
  BY <1>4 DEF Answered
<1>8. Fed!TypeOK' /\ QueryDomains'
  <2>1. \A p \in Queries : todo'[p] \subseteq statement'[p]
                           /\ ((pc'[p] = "idle") <=> (current'[p] = Fed!NoRef))
    BY <1>1, <1>3, <1>4 DEF QueriesInv, Fed!TypeOK
  <2>2. ~up' => \A p \in Queries : pc'[p] = "idle"
    BY <1>1, <1>3, <1>4 DEF QueriesInv, QueryDomains
  <2>3. QED
    BY <1>1, <1>3, <2>1, <2>2 DEF QueriesInv, Fed!TypeOK, QueryDomains, Generation
<1>9. QED
  BY <1>4, <1>6, <1>7, <1>8 DEF QueriesInv

\* The answer to a fetch arrives.
LEMMA RespondStep == ASSUME QueriesInv, NEW q \in Queries, Fed!Respond(q) PROVE QueriesInv'
<1>1. /\ pc[q] = "fetch"
      /\ UNCHANGED <<source, Fed!catalog, number, statement, sqlRefs, during, alone, queries,
                     edits>>
  BY DEF Fed!Respond
<1>2. CASE pc' = [pc EXCEPT ![q] = "create"] /\ UNCHANGED <<todo, current, instance, answer>>
  <2>1. UNCHANGED <<source, up, attached, view, number, statement, sqlRefs, during, alone, queries,
                    edits, todo, current, instance, answer>>
    BY <1>1, <1>2 DEF Fed!catalog
  <2>2. /\ pc' \in [Queries -> {"idle", "fetch", "create"}]
        /\ \A p \in Queries : (pc'[p] = "idle") <=> (pc[p] = "idle")
    BY <1>1, <1>2 DEF QueriesInv, Fed!TypeOK
  <2>3. \A p \in Queries : Fed!FetchedBy(p)' = Fed!FetchedBy(p)
                           /\ Fed!Undisturbed(p)' = Fed!Undisturbed(p)
    BY <2>1 DEF Fed!FetchedBy, Fed!Undisturbed
  <2>4. Fed!TypeOK' /\ QueryDomains'
    BY <2>1, <2>2 DEF QueriesInv, Fed!TypeOK, QueryDomains
  <2>5. \A p \in Queries : Answered(p)'
    BY <2>1, <2>3 DEF QueriesInv, Answered, Fed!RegisteredThroughout
  <2>6. ASSUME NEW p \in Queries, pc'[p] # "idle" PROVE Running(p)'
    <3>1. Running(p)
      BY <2>2, <2>6 DEF QueriesInv
    <3>2. QED
      BY <2>1, <2>2, <2>3, <3>1 DEF Running, Fed!RegisteredThroughout, Own
  <2>7. QED
    BY <2>4, <2>5, <2>6 DEF QueriesInv
<1>3. QED
  BY <1>1, <1>2, QueryFails DEF Fed!Respond

LEMMA CreateViewStep == ASSUME QueriesInv, NEW q \in Queries, Fed!CreateView(q) PROVE QueriesInv'
<1>1. /\ pc[q] = "create" /\ q \in Queries
      /\ UNCHANGED <<source, up, attached, number, statement, sqlRefs, during, alone, queries,
                     edits>>
  BY DEF Fed!CreateView
<1>2. /\ attached \in [SqlIds -> Generation] /\ view \in [Fed!Refs -> Fed!Rows]
      /\ number \in [Queries -> 0 .. MaxQueries] /\ statement \in [Queries -> SUBSET Fed!Refs]
      /\ sqlRefs \in [Queries -> SUBSET SqlIds] /\ todo \in [Queries -> SUBSET Fed!Refs]
      /\ during \in [Queries -> SUBSET (Fed!Ids \X Generation)] /\ alone \in [Queries -> BOOLEAN]
      /\ instance \in [Queries -> Generation] /\ queries \in 0 .. MaxQueries
      /\ \A p \in Queries : statement[p] \in Statements \cup {{}}
      /\ Fed!NoRef \notin Fed!Refs
  BY QueriesAreConfigured DEF Fed!FederationAssumption, QueriesInv, Fed!TypeOK, QueryDomains,
     Generation
<1>3. Running(q) /\ up
  BY <1>1 DEF QueriesInv, QueryDomains
<1> PICK r0 \in Fed!Refs : r0 = current[q]
  BY <1>2, <1>3 DEF Running, Fed!FetchedBy
<1>4. /\ r0 \in Fed!FetchedBy(q) /\ todo[q] \subseteq Fed!FetchedBy(q) \ {r0}
      /\ \A i \in Fed!Ids : <<i, source[i]>> \in during[q]
      /\ <<r0[1], instance[q]>> \in during[q]
      /\ alone[q] => \A p \in Queries \ {q} : pc[p] = "idle"
      /\ alone[q] => \A r \in Fed!FetchedBy(q) \ (todo[q] \cup {r0}) :
                        Fed!RegisteredThroughout(q, r[1]) => Own(q, r, view[r])
  BY <1>3 DEF Running
<1>5. \A p \in Queries \ {q} : alone[p] => pc[p] = "idle"
  BY <1>1 DEF QueriesInv, Running
<1>6. /\ Fed!FetchedBy(q)' = Fed!FetchedBy(q) /\ Fed!Undisturbed(q)' = Fed!Undisturbed(q)
      /\ \A r : Fed!RegisteredThroughout(q, r[1])' <=> Fed!RegisteredThroughout(q, r[1])
      /\ Fed!FetchedBy(q) \subseteq Fed!Refs
  BY <1>1, <1>2 DEF Fed!FetchedBy, Fed!Undisturbed, Fed!RegisteredThroughout
<1>7. CASE Fed!Raise(q) /\ UNCHANGED view
  <2>1. pc[q] # "idle" /\ UNCHANGED Fed!catalog
    BY <1>1, <1>7 DEF Fed!catalog
  <2>2. QED
    BY <1>1, <1>7, <2>1, QueryFails
<1>8. CASE /\ view' = [view EXCEPT ![r0] = [generation |-> instance[q], fetcher |-> number[q]]]
           /\ Fed!FetchNext(q, todo[q], {r0[1]})
  <2>1. r0 \in Fed!Refs /\ [generation |-> instance[q], fetcher |-> number[q]] \in Fed!Rows
    BY <1>2, <1>4, <1>6 DEF Fed!Rows, Generation
  <2>2. view' \in [Fed!Refs -> Fed!Rows] /\ Own(q, r0, view[r0])'
        /\ \A r \in Fed!Refs \ {r0} : view'[r] = view[r]
    BY <1>1, <1>2, <1>4, <1>8, <2>1 DEF Own
  <2>3. ASSUME Fed!Undisturbed(q), NEW r \in Fed!FetchedBy(q) \ todo[q],
               Fed!RegisteredThroughout(q, r[1])
        PROVE  Own(q, r, view[r])'
    <3>1. CASE r = r0
      BY <2>2, <3>1
    <3>2. CASE r # r0 /\ alone[q]
      <4>1. Own(q, r, view[r])
        BY <1>4, <2>3, <3>2
      <4>2. QED
        BY <1>1, <1>6, <2>2, <3>2, <4>1 DEF Own
    <3>3. CASE r # r0 /\ Cardinality(Fed!FetchedBy(q)) <= 1
      BY <1>4, <3>3, FinitelyFetched, OnlyFetched
    <3>4. QED
      BY <2>3, <3>1, <3>2, <3>3, SameCardinality DEF Fed!Undisturbed
  <2>4. Fed!Undisturbed(q)' => \A r \in Fed!FetchedBy(q)' \ todo[q] :
                              Fed!RegisteredThroughout(q, r[1])' => Own(q, r, view[r])'
    BY <1>6, <2>3
  <2>5. todo[q] \in SUBSET Fed!Refs /\ todo[q] \subseteq Fed!FetchedBy(q)'
    BY <1>2, <1>4, <1>6
  <2>6. \A i \in {r0[1]} : <<i, instance[q]>> \in during'[q]
    BY <1>1, <1>4
  <2>7. QED
    BY <1>1, <1>2, <1>3, <1>4, <1>5, <1>8, <2>2, <2>4, <2>5, <2>6, QueryStep
<1>9. QED
  BY <1>7, <1>8 DEF Fed!CreateView

-----------------------------------------------------------------------------
(* The registry and the end of the process.                                *)

\* A change of the registry only adds to what was registered during a query.
LEMMA SourceStep ==
    ASSUME QueriesInv, NEW i \in Fed!Ids, Fed!Edit(i) \/ Fed!Remove(i) \/ Fed!Add(i)
    PROVE QueriesInv'
<1>1. PICK generation \in Generation : Fed!Change(i, generation)
  <2>1. 0 \in Generation /\ (edits < MaxEdits => edits + 2 \in Generation)
    BY QueriesAreConfigured, Zeroes DEF QueriesInv, QueryDomains, Generation
  <2>2. QED
    BY <2>1 DEF Fed!Edit, Fed!Remove, Fed!Add, Fed!Change
<1>2. /\ source' = [source EXCEPT ![i] = generation]
      /\ during' = [q \in Queries |-> during[q] \cup {<<i, generation>>}]
      /\ UNCHANGED <<up, attached, view, pc, number, statement, sqlRefs, todo, current, instance,
                     answer, alone, queries>>
      /\ edits' \in 0 .. MaxEdits
  BY <1>1, QueriesAreConfigured, Zeroes DEF Fed!Change, Fed!catalog, QueriesInv, QueryDomains
<1>3. Fed!TypeOK' /\ QueryDomains'
  <2>1. source' \in [Fed!Ids -> Generation]
        /\ during' \in [Queries -> SUBSET (Fed!Ids \X Generation)]
    BY <1>2 DEF QueriesInv, Fed!TypeOK, QueryDomains, Generation
  <2>2. QED
    BY <1>2, <2>1 DEF QueriesInv, Fed!TypeOK, QueryDomains, Generation
<1>4. \A q \in Queries : /\ Fed!FetchedBy(q)' = Fed!FetchedBy(q)
                         /\ Fed!Undisturbed(q)' = Fed!Undisturbed(q)
                         /\ during[q] \subseteq during'[q]
  BY <1>2 DEF Fed!FetchedBy, Fed!Undisturbed
<1>5. \A q \in Queries : Answered(q)'
  BY <1>2, <1>4 DEF QueriesInv, Answered, Fed!RegisteredThroughout
<1>6. ASSUME NEW q \in Queries, pc'[q] # "idle" PROVE Running(q)'
  <2>1. Running(q)
    BY <1>2, <1>6 DEF QueriesInv
  <2>2. \A j \in Fed!Ids : <<j, source'[j]>> \in during'[q]
    BY <1>2, <2>1 DEF Running, QueriesInv, Fed!TypeOK
  <2>3. alone'[q] => \A r \in Fed!FetchedBy(q)' \ (todo'[q] \cup {current'[q]}) :
                        Fed!RegisteredThroughout(q, r[1])' => Own(q, r, view[r])'
    BY <1>2, <1>4, <2>1 DEF Running, Fed!RegisteredThroughout, Own
  <2>4. QED
    BY <1>2, <1>4, <2>1, <2>2, <2>3 DEF Running
<1>7. QED
  BY <1>3, <1>5, <1>6 DEF QueriesInv

LEMMA DisconnectStep == ASSUME QueriesInv, Fed!Disconnect PROVE QueriesInv'
<1>1. /\ \A q \in Queries : pc[q] = "idle"
      /\ up' = FALSE /\ attached' = [i \in SqlIds |-> 0] /\ view' = [r \in Fed!Refs |-> Fed!NoRows]
      /\ UNCHANGED <<source, pc, number, statement, sqlRefs, todo, current, instance, during,
                     answer, alone, queries, edits>>
  BY DEF Fed!Disconnect, Fed!query
<1>2. Fed!TypeOK' /\ QueryDomains'
  BY <1>1, QueriesAreConfigured, Zeroes DEF QueriesInv, Fed!TypeOK, QueryDomains, Generation
<1>3. \A q \in Queries : Answered(q)'
  BY <1>1 DEF QueriesInv, Answered, Fed!Undisturbed, Fed!FetchedBy, Fed!RegisteredThroughout
<1>4. QED
  BY <1>1, <1>2, <1>3 DEF QueriesInv

LEMMA QueriesStep == QueriesInv /\ [Fed!Next]_(Fed!vars) => QueriesInv'
<1> SUFFICES ASSUME QueriesInv, [Fed!Next]_(Fed!vars) PROVE QueriesInv'
  OBVIOUS
<1>1. CASE UNCHANGED Fed!vars
  <2>1. UNCHANGED <<source, up, attached, view, pc, number, statement, sqlRefs, todo, current,
                    instance, during, answer, alone, queries, edits>>
    BY <1>1 DEF Fed!vars, Fed!catalog, Fed!query
  <2>2. Fed!TypeOK' /\ QueryDomains'
    BY <2>1 DEF QueriesInv, Fed!TypeOK, QueryDomains
  <2>3. \A q \in Queries : Fed!FetchedBy(q)' = Fed!FetchedBy(q)
                           /\ Fed!Undisturbed(q)' = Fed!Undisturbed(q)
    BY <2>1 DEF Fed!FetchedBy, Fed!Undisturbed
  <2>4. \A q \in Queries : Answered(q)' = Answered(q)
    BY <2>1, <2>3 DEF Answered, Fed!RegisteredThroughout
  <2>5. \A q \in Queries : Running(q)' = Running(q)
    BY <2>1, <2>3 DEF Running, Fed!RegisteredThroughout, Own
  <2>6. QED
    BY <2>1, <2>2, <2>4, <2>5 DEF QueriesInv
<1>2. QED
  BY <1>1, BeginStep, RespondStep, CreateViewStep, SourceStep, DisconnectStep DEF Fed!Next

-----------------------------------------------------------------------------
(* The theorems.                                                           *)

LEMMA QueriesInvariance == QuerySpec => []QueriesInv
<1>1. QueryInit => QueriesInv
  BY QueriesBegin DEF QueryInit
<1>2. QueriesInv /\ [QueryNext]_<<vars, endpoint, suggestions, federation>> => QueriesInv'
  <2> SUFFICES ASSUME QueriesInv, [QueryNext]_<<vars, endpoint, suggestions, federation>>
               PROVE  QueriesInv'
    OBVIOUS
  <2>1. [Fed!Next]_(Fed!vars)
    BY DEF QueryNext, vars, request, federation, Fed!vars, Fed!catalog, Fed!query
  <2>2. QED
    BY <2>1, QueriesStep
<1>3. QED
  BY <1>1, <1>2, PTL DEF QuerySpec

\* A query joins rows that were fetched for it, from every source registered throughout,
\* whatever other queries replace, as long as none comes between one of its fetches and its
\* statement (engine/duckdb.py:188-229).
THEOREM QueriesReadTheirOwn == QuerySpec => []FederationInv
<1>1. QueriesInv => FederationInv
  BY DEF QueriesInv, Answered, FederationInv, Fed!FederationInv, Fed!OwnFetch
<1>2. QED
  BY <1>1, QueriesInvariance, PTL

\* Those rows come from a source as it was configured at some time during the query
\* (engine/duckdb.py:188-229).
THEOREM RowsAreCurrent == QuerySpec => []FetchedRowsAreCurrent
<1>1. QueriesInv => FetchedRowsAreCurrent
  BY DEF QueriesInv, Answered, FetchedRowsAreCurrent, Fed!FetchedRowsAreCurrent
<1>2. QED
  BY <1>1, QueriesInvariance, PTL
=============================================================================
