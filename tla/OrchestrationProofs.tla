------------------------- MODULE OrchestrationProofs -------------------------
(***************************************************************************)
(* Proofs about Orchestration, for every flow that may be declared, every  *)
(* length of the arrays it iterates over, and every outcome of a request.  *)
(***************************************************************************)
EXTENDS Orchestration, SequenceTheorems, TLAPS

-----------------------------------------------------------------------------
(* The inductive invariant.                                                *)

Early     == {"load", "rejected", "start"}
Linear    == {"request", "retry", "record"}
Iterating == {"iterate", "iterRequest", "iterRecord"}
Going     == {"step"} \cup Linear \cup Iterating

\* Spans as add_span leaves them.
SpanRow == [step : 0 .. FinalStep, iteration : 0 .. MaxItems, status : {"ok"}, finished : {FALSE}]

\* Where the run is, and which step it is at.
Control ==
    /\ flow \in Flows
    /\ spans \in Seq(SpanRow) /\ sent \subseteq (1 .. FinalStep) \X (0 .. MaxItems)
    /\ pc \in Early => i = 1 /\ code = "ok" /\ spans = <<>> /\ sent = {}
    /\ pc \in Going => i <= FinalStep
    /\ pc \in Linear => i <= Length /\ Current.over = NoRef
    /\ pc \in Iterating => Current.over # NoRef /\ k \in 1 .. n
    /\ pc \in Going \ {"record", "iterRecord"} => code = "ok"
    /\ code = "cancelled" => pc = "done"
    /\ ExecutionTellsOutcome

\* The request that was sent and has no span yet.
Pending ==
    IF pc \in {"retry", "record"} THEN {<<i, 0>>}
    ELSE IF pc = "iterRecord" THEN {<<i, k>>} ELSE {}

\* The spans so far are those of the requests so far, each of an earlier step or iteration.
Traced ==
    pc \notin Early /\ code # "cancelled" =>
        /\ IsInjective(Sites)
        /\ Pending \subseteq sent /\ ToSet(Sites) = (sent \ Pending) \cup {<<0, 0>>}
        /\ pc \in Going => \A site \in sent \ Pending :
             site[1] < i \/ (pc \in Iterating /\ site[1] = i /\ site[2] < k)

\* The rows of the iterations so far, in order.
Gathered ==
    /\ \A j \in DOMAIN gathered : gathered[j] = j
    /\ pc \in {"iterate", "iterRequest"} => Len(gathered) = k - 1
    /\ pc = "iterRecord" /\ code = "ok" => Len(gathered) = k

\* In a flow whose references are right, the steps so far have bound what they should.
Bound ==
    StaticallyBound(flow) =>
        /\ code # "unbound"
        /\ pc \in Going /\ code = "ok" =>
             \A e \in DOMAIN flow.steps :
                flow.steps[e].over = NoRef /\ (e < i \/ (e = i /\ pc = "record"))
                    => context[StoredUnder(flow, e)] # "unbound"

\* What the last step answered, from where it is stored to where it is returned.
Resulting ==
    /\ pc = "record" /\ code = "ok" =>
         context[StoredUnder(flow, i)] = "value" \/ i \in skipped
    /\ pc \in {"finish", "done"} /\ code = "ok" =>
         /\ ~(LastStep.output /\ LastStep.key) => result.step = FinalStep \/ FinalStep \in skipped
         /\ result.step = FinalStep /\ LastStep.over # NoRef /\ LastStep.mode = "merge"
              => result.rows = [j \in 1 .. n |-> j]

Inv == TypeOK /\ Control /\ Traced /\ Gathered /\ Bound /\ Resulting

-----------------------------------------------------------------------------
(* Flows.                                                                  *)

LEMMA FlowShape ==
    ASSUME flow \in Flows
    PROVE  /\ Length \in Nat \ {0} /\ DOMAIN flow.steps = 1 .. Length
           /\ flow.steps \in [1 .. Length -> Step(Length)] /\ flow.steps \in Seq(Step(Length))
           /\ \/ flow.tail = <<>> /\ FinalStep = Length
              \/ /\ FinalStep = Length + 1 /\ flow.tail = <<flow.tail[1]>>
                 /\ flow.tail[1] \in Step(Length) /\ flow.tail[1].over # NoRef
<1>1. /\ Length \in Nat \ {0} /\ flow \in Flow(Length)
      /\ flow.tail # <<>> => flow.tail[1].over # NoRef
  BY OrchestrationAssumption DEF Length
<1>2. /\ flow.steps \in [1 .. Length -> Step(Length)]
      /\ flow.tail \in {<<>>} \cup {<<s>> : s \in Step(Length)}
  BY <1>1 DEF Flow
<1>3. flow.steps \in Seq(Step(Length)) /\ DOMAIN flow.steps = 1 .. Length
  BY <1>1, <1>2, SeqDef
<1>4. CASE flow.tail = <<>>
  BY <1>1, <1>2, <1>3, <1>4 DEF FinalStep
<1>5. CASE \E s \in Step(Length) : flow.tail = <<s>>
  <2>1. PICK s \in Step(Length) : flow.tail = <<s>>
    BY <1>5
  <2>2. Len(flow.tail) = 1 /\ flow.tail[1] = s /\ flow.tail # <<>>
    BY <2>1
  <2>3. QED
    BY <1>1, <1>2, <1>3, <2>1, <2>2 DEF FinalStep
<1>6. QED
  BY <1>2, <1>4, <1>5

\* A sequence and one element.
LEMMA OneMore ==
    ASSUME NEW S, NEW a \in Seq(S), NEW x \in S
    PROVE  /\ a \o <<x>> \in Seq(S) /\ Len(a \o <<x>>) = Len(a) + 1
           /\ \A s \in 1 .. Len(a) + 1 : (a \o <<x>>)[s] = IF s <= Len(a) THEN a[s] ELSE x
<1> DEFINE b == <<x>>  n0 == Len(a)
<1>1. b \in Seq(S) /\ Len(b) = 1 /\ b[1] = x /\ n0 \in Nat
  BY LenProperties
<1> HIDE DEF b
<1>2. /\ a \o b \in Seq(S) /\ Len(a \o b) = n0 + Len(b)
      /\ \A s \in 1 .. n0 + Len(b) : (a \o b)[s] = IF s <= n0 THEN a[s] ELSE b[s - n0]
  BY <1>1, ConcatProperties
<1>3. \A s \in 1 .. n0 + 1 : s <= n0 \/ s - n0 = 1
  BY <1>1
<1>4. QED
  BY <1>1, <1>2, <1>3 DEF b

\* The steps of a flow in turn: the declared ones, and the legacy foreach last.
LEMMA StepsInTurn ==
    ASSUME flow \in Flows
    PROVE  /\ DOMAIN (flow.steps \o flow.tail) = 1 .. FinalStep
           /\ \A s \in 1 .. FinalStep :
                (flow.steps \o flow.tail)[s] = IF s <= Length THEN flow.steps[s] ELSE flow.tail[1]
<1>1. CASE flow.tail = <<>>
  BY <1>1, FlowShape, ConcatEmptySeq
<1>2. CASE FinalStep = Length + 1 /\ flow.tail = <<flow.tail[1]>> /\ flow.tail[1] \in Step(Length)
  <2>1. PICK a \in Seq(Step(Length)), x \in Step(Length) : a = flow.steps /\ x = flow.tail[1]
    BY <1>2, FlowShape
  <2>2. flow.tail = <<x>> /\ Len(a) = Length /\ Length \in Nat
    BY <1>2, <2>1, FlowShape DEF Length
  <2>3. /\ Len(a \o <<x>>) = Length + 1 /\ a \o <<x>> \in Seq(Step(Length))
        /\ \A s \in 1 .. Length + 1 : (a \o <<x>>)[s] = IF s <= Length THEN a[s] ELSE x
    BY <2>2, OneMore
  <2>4. DOMAIN (a \o <<x>>) = 1 .. Length + 1
    BY <2>3, LenProperties
  <2>5. QED
    BY <1>2, <2>1, <2>2, <2>3, <2>4
<1>3. QED
  BY <1>1, <1>2, FlowShape

\* The step a run is at.
LEMMA CurrentStep ==
    ASSUME flow \in Flows, i \in 1 .. FinalStep
    PROVE  /\ Current \in Step(Length) /\ Current = (flow.steps \o flow.tail)[i]
           /\ i <= Length => Current = flow.steps[i]
           /\ i > Length => Current.over # NoRef /\ i = FinalStep
           /\ i = FinalStep => Current = LastStep
           /\ Current.over = NoRef /\ i = FinalStep => FinalStep = Length
           /\ FinalStep \in Nat /\ Length \in Nat /\ Length <= FinalStep
<1>1. /\ FinalStep \in Nat /\ Length \in Nat /\ (FinalStep = Length \/ FinalStep = Length + 1)
      /\ FinalStep = Length + 1 => flow.tail[1] \in Step(Length) /\ flow.tail[1].over # NoRef
      /\ flow.steps \in [1 .. Length -> Step(Length)]
  BY FlowShape
<1>2. (flow.steps \o flow.tail)[i] = Current
  BY StepsInTurn DEF Current
<1>3. i = FinalStep => Current = LastStep
  BY <1>2 DEF LastStep
<1>4. i > Length => Current = flow.tail[1] /\ i = FinalStep /\ FinalStep = Length + 1
  BY <1>1 DEF Current
<1>5. i <= Length => Current = flow.steps[i] /\ i \in 1 .. Length
  BY <1>1 DEF Current
<1>6. i <= Length \/ i > Length
  BY <1>1
<1>7. Current \in Step(Length)
  BY <1>1, <1>4, <1>5, <1>6
<1>8. QED
  BY <1>1, <1>2, <1>3, <1>4, <1>5, <1>6, <1>7

\* A span more.
LEMMA SpanAdded ==
    ASSUME NEW S, spans \in Seq(S), NEW s, NEW j, Span(s, j) \in S, spans' = Append(spans, Span(s, j))
    PROVE  /\ spans' \in Seq(S) /\ ToSet(spans') = ToSet(spans) \cup {Span(s, j)}
           /\ ToSet(Sites') = ToSet(Sites) \cup {<<s, j>>}
           /\ IsInjective(Sites) /\ <<s, j>> \notin ToSet(Sites) => IsInjective(Sites')
<1>1. /\ spans' \in Seq(S) /\ Len(spans') = Len(spans) + 1 /\ Len(spans) \in Nat
      /\ \A m \in 1 .. Len(spans) : spans'[m] = spans[m]
      /\ spans'[Len(spans) + 1] = Span(s, j)
  BY AppendProperties, LenProperties
<1>2. DOMAIN spans = 1 .. Len(spans) /\ DOMAIN spans' = 1 .. Len(spans) + 1
  BY <1>1, LenProperties
<1> DEFINE t == spans'  last == Len(spans) + 1
<1>3. /\ DOMAIN t = DOMAIN spans \cup {last} /\ last \notin DOMAIN spans
      /\ \A m \in DOMAIN spans : t[m] = spans[m]
      /\ t[last] = Span(s, j)
  BY <1>1, <1>2
<1>4. Span(s, j).step = s /\ Span(s, j).iteration = j
  BY DEF Span
<1> HIDE DEF t, last
<1>5. ToSet(t) = ToSet(spans) \cup {Span(s, j)}
  BY <1>3 DEF ToSet
<1> DEFINE a == [m \in DOMAIN spans |-> <<spans[m].step, spans[m].iteration>>]
           b == [m \in DOMAIN t |-> <<t[m].step, t[m].iteration>>]
<1>6. /\ DOMAIN a = DOMAIN spans /\ DOMAIN b = DOMAIN a \cup {last} /\ last \notin DOMAIN a
      /\ \A m \in DOMAIN a : b[m] = a[m]
      /\ b[last] = <<s, j>>
  BY <1>3, <1>4
<1>7. Sites = a /\ Sites' = b
  BY DEF Sites, t
<1> HIDE DEF a, b
<1>8. ToSet(b) = ToSet(a) \cup {<<s, j>>}
  BY <1>6 DEF ToSet
<1>9. IsInjective(a) /\ <<s, j>> \notin ToSet(a) => IsInjective(b)
  BY <1>6 DEF ToSet, IsInjective
<1>10. QED
  BY <1>1, <1>5, <1>7, <1>8, <1>9 DEF t

\* The flow of a run does not change.
LEMMA FlowKept ==
    ASSUME flow' = flow
    PROVE  /\ Length' = Length /\ FinalStep' = FinalStep /\ LastStep' = LastStep /\ SpanRow' = SpanRow
           /\ StaticallyBound(flow)' = StaticallyBound(flow)
           /\ i' = i => Current' = Current
BY DEF Length, FinalStep, LastStep, SpanRow, Current

LEMMA StepKeepsFlow == [Next]_vars => flow' = flow
BY DEF Next, vars, Load, Start, BeginStep, Request, Retry, EndStep, BeginForeach, BeginIteration,
       IterationRequest, EndIteration, Finish, Cancel

-----------------------------------------------------------------------------
(* Every step keeps the invariant.                                         *)

\* Numbers and steps as the rest of the proof needs them.
LEMMA Facts ==
    ASSUME TypeOK, Control
    PROVE  /\ MaxItems \in Nat \ {0} /\ FinalStep \in Nat /\ Length \in Nat \ {0} /\ Length <= FinalStep
           /\ i \in Nat /\ i >= 1 /\ k \in Nat /\ n \in Nat /\ k <= MaxItems /\ n <= MaxItems
           /\ DOMAIN flow.steps = 1 .. Length
           /\ pc \in Going =>
                /\ i \in 1 .. FinalStep /\ Current \in Step(Length)
                /\ Current = (flow.steps \o flow.tail)[i]
                /\ i <= Length => Current = flow.steps[i]
                /\ i > Length => Current.over # NoRef /\ i = FinalStep
                /\ i = FinalStep => Current = LastStep
                /\ Current.over = NoRef /\ i = FinalStep => FinalStep = Length
<1>1. /\ MaxItems \in Nat \ {0} /\ flow \in Flows /\ Length \in Nat \ {0} /\ DOMAIN flow.steps = 1 .. Length
      /\ FinalStep = Length \/ FinalStep = Length + 1
  BY FlowShape, OrchestrationAssumption DEF Control
<1>2. i \in 1 .. FinalStep + 1 /\ (pc \in Going => i \in 1 .. FinalStep)
  BY <1>1 DEF TypeOK, Control
<1>3. k \in 0 .. MaxItems /\ n \in 0 .. MaxItems
  BY DEF TypeOK
<1>4. FinalStep \in Nat /\ Length <= FinalStep /\ i \in Nat /\ i >= 1
  BY <1>1, <1>2
<1>5. /\ k \in Nat /\ n \in Nat /\ k <= MaxItems /\ n <= MaxItems
  BY <1>1, <1>3
<1>6. ASSUME pc \in Going
      PROVE  /\ i \in 1 .. FinalStep /\ Current \in Step(Length)
             /\ Current = (flow.steps \o flow.tail)[i]
             /\ i <= Length => Current = flow.steps[i]
             /\ i > Length => Current.over # NoRef /\ i = FinalStep
             /\ i = FinalStep => Current = LastStep
             /\ Current.over = NoRef /\ i = FinalStep => FinalStep = Length
  BY <1>1, <1>2, <1>6, CurrentStep
<1>7. QED
  BY <1>1, <1>4, <1>5, <1>6

\* The span that a step or an iteration leaves.
LEMMA RecordKept ==
    ASSUME TypeOK, Control, flow' = flow, pc \in Going, NEW j \in 0 .. MaxItems, Record(j)
    PROVE  /\ spans' \in Seq(SpanRow)
           /\ ToSet(Sites') = ToSet(Sites) \cup {<<i, j>>}
           /\ IsInjective(Sites) /\ <<i, j>> \notin ToSet(Sites) => IsInjective(Sites')
<1>1. i \in 0 .. FinalStep
  BY Facts
<1>2. Span(i, j) \in SpanRow /\ spans \in Seq(SpanRow)
  BY <1>1 DEF Control, Span, SpanRow
<1>3. QED
  BY <1>2, SpanAdded DEF Record

\* What a step does to the trace.
LEMMA TraceKept ==
    ASSUME TypeOK, Control, Next
    PROVE  spans' \in Seq(SpanRow) /\ sent' \subseteq (1 .. FinalStep) \X (0 .. MaxItems)
<1>1. /\ spans \in Seq(SpanRow) /\ sent \subseteq (1 .. FinalStep) \X (0 .. MaxItems)
      /\ flow' = flow /\ 0 \in 0 .. MaxItems /\ k \in 0 .. MaxItems
  <2>1. MaxItems \in Nat
    BY OrchestrationAssumption
  <2>2. QED
    BY <2>1, StepKeepsFlow DEF Control, TypeOK
<1>2. CASE UNCHANGED <<spans, sent>>
  BY <1>1, <1>2
<1>3. CASE Start
  <2>1. Span(0, 0) \in SpanRow
    BY Facts DEF Span, SpanRow
  <2>2. <<Span(0, 0)>> \in Seq(SpanRow)
    BY <2>1
  <2>3. QED
    BY <1>1, <1>3, <2>2 DEF Start
<1>4. CASE pc \in Going /\ (UNCHANGED spans \/ Record(0) \/ Record(k))
           /\ (UNCHANGED sent \/ sent' = sent \cup {<<i, 0>>} \/ sent' = sent \cup {<<i, k>>})
  <2>1. i \in 1 .. FinalStep
    BY <1>4, Facts
  <2>2. spans' \in Seq(SpanRow)
    BY <1>1, <1>4, RecordKept
  <2>3. QED
    BY <1>1, <1>4, <2>1, <2>2
<1>5. CASE Cancel
  <2>1. /\ pc \in Going /\ (UNCHANGED spans \/ Record(0) \/ Record(k))
        /\ sent' = sent \cup {<<i, 0>>} \/ sent' = sent \cup {<<i, k>>}
    BY <1>5 DEF Cancel, Going, Linear, Iterating
  <2>2. QED
    BY <1>4, <2>1
<1>6. QED
  BY <1>2, <1>3, <1>4, <1>5 DEF Next, Load, BeginStep, Request, Retry, EndStep, BeginForeach,
     BeginIteration, IterationRequest, EndIteration, Finish, Going, Linear, Iterating, trace, Fail

LEMMA ControlStep == ASSUME Inv, Next PROVE Control'
<1>1. /\ flow' = flow /\ flow \in Flows /\ spans' \in Seq(SpanRow')
      /\ sent' \subseteq (1 .. FinalStep') \X (0 .. MaxItems)
      /\ FinalStep' = FinalStep /\ Length' = Length /\ (i' = i => Current' = Current)
  BY StepKeepsFlow, FlowKept, TraceKept DEF Inv, Control
<1>2. /\ FinalStep \in Nat /\ Length \in Nat /\ i \in Nat /\ k \in Nat /\ n \in Nat
      /\ pc \in Going => i <= FinalStep
      /\ i > Length /\ pc \in Going => Current.over # NoRef
  <2>1. TypeOK /\ Control
    BY DEF Inv
  <2>2. pc \in Going /\ i > Length => Current.over # NoRef
    BY <2>1, Facts
  <2>3. /\ FinalStep \in Nat /\ Length \in Nat /\ i \in Nat /\ k \in Nat /\ n \in Nat
    BY <2>1, Facts
  <2>4. QED
    BY <2>1, <2>2, <2>3 DEF Control
<1>3. CASE Load
  BY <1>1, <1>2, <1>3 DEF Load, Inv, Control, Early, Linear, Iterating, Going, ExecutionTellsOutcome, trace, loop
<1>4. CASE Start
  BY <1>1, <1>2, <1>4, Facts DEF Start, Inv, Control, Early, Linear, Iterating, Going, ExecutionTellsOutcome, trace, loop
<1>5. CASE BeginStep
  <2>1. /\ pc = "step" /\ i <= Length /\ Current.over = NoRef
        /\ (pc' = "request" /\ code' = code) \/ (pc' = "finish" /\ code' \in {"missing", "unbound"})
        /\ UNCHANGED i
    BY <1>5 DEF BeginStep, Fail, Why
  <2>2. QED
    BY <1>1, <1>2, <2>1 DEF Inv, Control, Early, Linear, Iterating, Going, ExecutionTellsOutcome
<1>6. CASE Request
  <2>1. /\ pc = "request" /\ UNCHANGED i
        /\ (pc' \in {"record", "retry"} /\ code' = code) \/ (pc' = "record" /\ code' = "stepFailed")
    BY <1>6 DEF Request
  <2>2. QED
    BY <1>1, <1>2, <2>1 DEF Inv, Control, Early, Linear, Iterating, Going, ExecutionTellsOutcome
<1>7. CASE Retry
  <2>1. pc = "retry" /\ UNCHANGED i /\ pc' = "record" /\ (code' = code \/ code' = "stepFailed")
    BY <1>7 DEF Retry
  <2>2. QED
    BY <1>1, <1>2, <2>1 DEF Inv, Control, Early, Linear, Iterating, Going, ExecutionTellsOutcome
<1>8. CASE EndStep
  <2>1. /\ pc = "record"
        /\ \/ code = "ok" /\ i' = i + 1 /\ pc' = (IF i = FinalStep THEN "finish" ELSE "step") /\ code' = code
           \/ pc' = "finish" /\ code' = "badRows"
           \/ code # "ok" /\ pc' = "finish" /\ code' = code
    BY <1>8 DEF EndStep, Advance, Fail
  <2>2. QED
    BY <1>1, <1>2, <2>1 DEF Inv, Control, Early, Linear, Iterating, Going, ExecutionTellsOutcome
<1>9. CASE BeginForeach
  <2>1. /\ pc = "step" /\ Current.over # NoRef
        /\ \/ n' \in 0 .. MaxItems /\ n' # 0 /\ k' = 1 /\ pc' = "iterate" /\ UNCHANGED <<i, code>>
           \/ i' = i + 1 /\ pc' = (IF i = FinalStep THEN "finish" ELSE "step") /\ code' = code
           \/ pc' = "finish" /\ code' \in {"missing", "unbound", "notAList"}
    BY <1>9 DEF BeginForeach, Advance, Fail, Why
  <2>2. QED
    BY <1>1, <1>2, <2>1, OrchestrationAssumption
    DEF Inv, Control, Early, Linear, Iterating, Going, ExecutionTellsOutcome
<1>10. CASE BeginIteration
  <2>1. /\ pc = "iterate" /\ UNCHANGED <<i, k, n>>
        /\ (pc' = "iterRequest" /\ code' = code) \/ (pc' = "finish" /\ code' \in {"missing", "unbound"})
    BY <1>10 DEF BeginIteration, Fail, Why, loop
  <2>2. QED
    BY <1>1, <1>2, <2>1 DEF Inv, Control, Early, Linear, Iterating, Going, ExecutionTellsOutcome
<1>11. CASE IterationRequest
  <2>1. /\ pc = "iterRequest" /\ pc' = "iterRecord" /\ UNCHANGED <<i, k, n>>
        /\ code' = code \/ code' \in {"schema", "stepFailed"}
    BY <1>11 DEF IterationRequest
  <2>2. QED
    BY <1>1, <1>2, <2>1 DEF Inv, Control, Early, Linear, Iterating, Going, ExecutionTellsOutcome
<1>12. CASE EndIteration
  <2>1. /\ pc = "iterRecord" /\ code' = code /\ n' = n
        /\ \/ code = "ok" /\ k < n /\ k' = k + 1 /\ pc' = "iterate" /\ i' = i
           \/ code = "ok" /\ i' = i + 1 /\ pc' = IF i = FinalStep THEN "finish" ELSE "step"
           \/ code # "ok" /\ pc' = "finish"
    BY <1>12 DEF EndIteration, Advance
  <2>2. QED
    BY <1>1, <1>2, <2>1 DEF Inv, Control, Early, Linear, Iterating, Going, ExecutionTellsOutcome
<1>13. CASE Finish
  BY <1>1, <1>2, <1>13 DEF Finish, Inv, Control, Early, Linear, Iterating, Going, ExecutionTellsOutcome
<1>14. CASE Cancel
  BY <1>1, <1>2, <1>14 DEF Cancel, Inv, Control, Early, Linear, Iterating, Going, ExecutionTellsOutcome
<1>15. QED
  BY <1>3, <1>4, <1>5, <1>6, <1>7, <1>8, <1>9, <1>10, <1>11, <1>12, <1>13, <1>14 DEF Next

\* What a linear step's answer is bound to.
LEMMA AnswerStored ==
    ASSUME TypeOK, Control, pc \in Linear, NEW value \in {"null", "value"}, Store(value)
    PROVE  /\ context' \in [Roots(Length) -> {"unbound", "null", "value"}]
           /\ StoredUnder(flow, i) \in Roots(Length)
           /\ context'[StoredUnder(flow, i)] = IF Current.output THEN "value" ELSE value
           /\ \A r \in Roots(Length) \ {StoredUnder(flow, i)} : context'[r] = context[r]
<1>1. i \in 1 .. Length /\ Current = flow.steps[i] /\ Current \in Step(Length)
  <2>1. i <= Length /\ pc \in Going
    BY DEF Control, Going
  <2>2. i \in Nat /\ i >= 1 /\ Length \in Nat /\ Current = flow.steps[i] /\ Current \in Step(Length)
    BY <2>1, Facts
  <2>3. QED
    BY <2>1, <2>2
<1>2. Root("name", i) \in Roots(Length) /\ Root("key", i) \in Roots(Length)
  BY <1>1 DEF Root, Roots
<1>3. Current.output \in BOOLEAN /\ Current.key \in BOOLEAN
  BY <1>1 DEF Step
<1>4. StoredUnder(flow, i) = IF Current.key /\ ~Current.output THEN Root("key", i) ELSE Root("name", i)
  BY <1>1 DEF StoredUnder
<1>5. context' = [context EXCEPT ![StoredUnder(flow, i)] = IF Current.output THEN "value" ELSE value]
  BY <1>3, <1>4 DEF Store
<1>6. QED
  BY <1>2, <1>3, <1>4, <1>5 DEF TypeOK

LEMMA TypesStep == ASSUME Inv, Next PROVE TypeOK'
<1>1. /\ TypeOK /\ Control /\ Control'
      /\ Length' = Length /\ FinalStep' = FinalStep /\ SpanRow' = SpanRow /\ flow' = flow
  BY ControlStep, StepKeepsFlow, FlowKept DEF Inv
<1>2. \A s \in ToSet(spans') : s.step \in 0 .. FinalStep /\ s.iteration \in 0 .. MaxItems
  <2>1. spans' \in Seq(SpanRow)
    BY <1>1 DEF Control
  <2>2. ToSet(spans') \subseteq SpanRow
    BY <2>1, LenProperties DEF ToSet
  <2>3. QED
    BY <2>2 DEF SpanRow
<1> DEFINE Rest == /\ pc' \in Steps /\ code' \in Codes
                   /\ i' \in 1 .. FinalStep + 1
                   /\ k' \in 0 .. MaxItems /\ n' \in 0 .. MaxItems
                   /\ context' \in [Roots(Length) -> {"unbound", "null", "value"}]
                   /\ gathered' \in Seq(1 .. MaxItems) /\ columns' \in Columns
                   /\ result'.step \in 0 .. FinalStep /\ result'.rows \in Seq(1 .. MaxItems)
                   /\ execution' \in [status : {"none", "ok", "error"}, finished : BOOLEAN]
                   /\ skipped' \subseteq DOMAIN flow.steps
<1>3. /\ FinalStep \in Nat /\ Length \in Nat \ {0} /\ Length <= FinalStep /\ MaxItems \in Nat \ {0}
      /\ pc \in Going => i \in 1 .. FinalStep
      /\ i \in 1 .. FinalStep + 1 /\ k \in 0 .. MaxItems /\ n \in 0 .. MaxItems
      /\ pc \in Iterating => k \in 1 .. n
  BY <1>1, Facts DEF TypeOK, Control
<1> USE DEF Steps, Codes, Columns
<1>4. ASSUME Load PROVE Rest
  BY <1>1, <1>4 DEF Load, TypeOK, trace, loop
<1>5. ASSUME Start PROVE Rest
  BY <1>1, <1>5 DEF Start, TypeOK, trace, loop
<1>6. ASSUME BeginStep PROVE Rest
  BY <1>1, <1>6 DEF BeginStep, Fail, Why, TypeOK, trace, loop
<1>7. ASSUME Request PROVE Rest
  <2>1. pc \in Linear /\ i \in DOMAIN flow.steps
    <3>1. pc \in Linear /\ pc \in Going /\ i <= Length
      BY <1>1, <1>7 DEF Request, Linear, Going, Control
    <3>2. QED
      BY <1>1, <1>3, <3>1, Facts
  <2>2. context' \in [Roots(Length) -> {"unbound", "null", "value"}]
    BY <1>1, <1>7, <2>1, AnswerStored DEF Request, TypeOK
  <2>3. QED
    BY <1>1, <1>7, <2>1, <2>2 DEF Request, TypeOK, trace, loop
<1>8. ASSUME Retry PROVE Rest
  <2>1. context' \in [Roots(Length) -> {"unbound", "null", "value"}]
    BY <1>1, <1>8, AnswerStored DEF Retry, Linear, TypeOK
  <2>2. QED
    BY <1>1, <1>8, <2>1 DEF Retry, TypeOK, trace, loop
<1>9. ASSUME EndStep PROVE Rest
  <2>1. BuildResult.step \in 0 .. FinalStep /\ BuildResult.rows \in Seq(1 .. MaxItems)
    <3>1. 1 \in 1 .. MaxItems /\ 0 \in 0 .. FinalStep /\ Length \in 0 .. FinalStep
      BY <1>3
    <3>2. <<1>> \in Seq(1 .. MaxItems) /\ <<>> \in Seq(1 .. MaxItems)
      BY <3>1
    <3>3. CASE BuildResult = Empty
      <4>1. Empty.step = 0 /\ Empty.rows = <<>>
        BY DEF Empty
      <4>2. QED
        BY <3>1, <3>2, <3>3, <4>1
    <3>4. CASE BuildResult = [step |-> Length, rows |-> <<1>>]
      <4>1. BuildResult.step = Length /\ BuildResult.rows = <<1>>
        BY <3>4
      <4>2. QED
        BY <3>1, <3>2, <4>1
    <3>5. QED
      BY <3>3, <3>4 DEF BuildResult
  <2>2. i \in 1 .. FinalStep
    BY <1>3, <1>9 DEF EndStep, Going, Linear
  <2>3. /\ result' = result \/ result' = BuildResult
        /\ i' = i \/ i' = i + 1
        /\ pc' \in Steps /\ code' \in {code, "badRows"}
        /\ UNCHANGED <<loop, context, execution, skipped>>
    BY <1>9 DEF EndStep, Advance, Fail
  <2>4. result'.step \in 0 .. FinalStep /\ result'.rows \in Seq(1 .. MaxItems)
    BY <1>1, <2>1, <2>3 DEF TypeOK
  <2>5. i' \in 1 .. FinalStep + 1
    BY <1>3, <2>2, <2>3
  <2>6. QED
    BY <1>1, <2>3, <2>4, <2>5 DEF TypeOK, loop
<1>10. ASSUME BeginForeach PROVE Rest
  <2>1. i \in 1 .. FinalStep
    BY <1>3, <1>10 DEF BeginForeach, Going
  <2>2. <<>> \in Seq(1 .. MaxItems)
    OBVIOUS
  <2>3. /\ \/ UNCHANGED loop
           \/ n' \in 0 .. MaxItems /\ k' = 1 /\ gathered' = <<>> /\ columns' = "none"
        /\ result' = result \/ (result'.step = i /\ result'.rows = <<>>)
        /\ i' = i \/ i' = i + 1
        /\ pc' \in Steps /\ code' \in {code, "notAList", "missing", "unbound"}
        /\ UNCHANGED <<context, execution, skipped>>
    BY <1>10 DEF BeginForeach, Advance, Fail, Why, trace
  <2>4. k' \in 0 .. MaxItems /\ n' \in 0 .. MaxItems /\ gathered' \in Seq(1 .. MaxItems) /\ columns' \in Columns
    <3>1. CASE UNCHANGED loop
      BY <1>1, <3>1 DEF TypeOK, loop
    <3>2. CASE n' \in 0 .. MaxItems /\ k' = 1 /\ gathered' = <<>> /\ columns' = "none"
      BY <1>3, <1>10, <2>2, <3>2 DEF BeginForeach
    <3>3. QED
      BY <2>3, <3>1, <3>2
  <2>5. result'.step \in 0 .. FinalStep /\ result'.rows \in Seq(1 .. MaxItems)
    <3>1. result.step \in 0 .. FinalStep /\ result.rows \in Seq(1 .. MaxItems) /\ i \in 0 .. FinalStep
      BY <1>1, <2>1 DEF TypeOK
    <3>2. QED
      BY <2>2, <2>3, <3>1
  <2>6. i' \in 1 .. FinalStep + 1
    BY <1>3, <2>1, <2>3
  <2>7. QED
    BY <1>1, <2>3, <2>4, <2>5, <2>6 DEF TypeOK
<1>11. ASSUME BeginIteration PROVE Rest
  BY <1>1, <1>11 DEF BeginIteration, Fail, Why, TypeOK, trace, loop
<1>12. ASSUME IterationRequest PROVE Rest
  <2>1. k \in 1 .. MaxItems
    BY <1>3, <1>12 DEF IterationRequest, Iterating
  <2>2. gathered' \in Seq(1 .. MaxItems)
    <3>1. gathered \in Seq(1 .. MaxItems)
      BY <1>1 DEF TypeOK
    <3>2. Append(gathered, k) \in Seq(1 .. MaxItems)
      BY <2>1, <3>1, AppendProperties
    <3>3. gathered' = gathered \/ gathered' = Append(gathered, k)
      BY <1>12 DEF IterationRequest, Gather
    <3>4. QED
      BY <3>1, <3>2, <3>3
  <2>3. QED
    BY <1>1, <1>12, <2>2 DEF IterationRequest, TypeOK, trace, loop
<1>13. ASSUME EndIteration PROVE Rest
  <2>1. i \in 1 .. FinalStep /\ pc = "iterRecord"
    BY <1>3, <1>13 DEF EndIteration, Going, Iterating
  <2>2. /\ gathered \in Seq(1 .. MaxItems)
        /\ code = "ok" => <<gathered[Len(gathered)]>> \in Seq(1 .. MaxItems)
    <3>1. gathered \in Seq(1 .. MaxItems) /\ Len(gathered) \in Nat
      BY <1>1, LenProperties DEF TypeOK
    <3>2. \A j \in 1 .. Len(gathered) : gathered[j] \in 1 .. MaxItems
      BY <3>1, ElementOfSeq
    <3>3. code = "ok" => Len(gathered) \in 1 .. Len(gathered)
      BY <1>3, <2>1, <3>1 DEF Inv, Gathered, Iterating
    <3>4. code = "ok" => gathered[Len(gathered)] \in 1 .. MaxItems
      BY <3>2, <3>3
    <3>5. QED
      BY <3>1, <3>4
  <2>3. /\ i' \in {i, i + 1} /\ k' \in {k, k + 1} /\ (k' = k + 1 => k < n)
        /\ \/ result' = result
           \/ code = "ok" /\ result'.step = i
              /\ result'.rows \in {gathered, <<gathered[Len(gathered)]>>}
        /\ UNCHANGED <<n, context, gathered, columns, code, execution, skipped>>
        /\ pc' \in Steps
    BY <1>3, <1>13 DEF EndIteration, Advance
  <2>4. result'.step \in 0 .. FinalStep /\ result'.rows \in Seq(1 .. MaxItems)
    <3>1. result.step \in 0 .. FinalStep /\ result.rows \in Seq(1 .. MaxItems) /\ i \in 0 .. FinalStep
      BY <1>1, <2>1 DEF TypeOK
    <3>2. QED
      BY <2>2, <2>3, <3>1
  <2>5. i' \in 1 .. FinalStep + 1 /\ k' \in 0 .. MaxItems
    BY <1>3, <2>1, <2>3
  <2>6. QED
    BY <1>1, <2>3, <2>4, <2>5 DEF TypeOK
<1>14. ASSUME Finish PROVE Rest
  BY <1>1, <1>14 DEF Finish, TypeOK, trace, loop
<1>15. ASSUME Cancel PROVE Rest
  BY <1>1, <1>15 DEF Cancel, TypeOK, trace, loop
<1>16. Rest => TypeOK'
  BY <1>1, <1>2 DEF TypeOK
<1>17. QED
  BY <1>4, <1>5, <1>6, <1>7, <1>8, <1>9, <1>10, <1>11, <1>12, <1>13, <1>14, <1>15, <1>16 DEF Next

\* A request and a span at a time.
LEMMA TracedStep == ASSUME Inv, Next PROVE Traced'
<1>1. /\ TypeOK /\ Control /\ Traced /\ flow' = flow
      /\ FinalStep \in Nat /\ i \in Nat /\ i >= 1 /\ k \in Nat /\ n \in Nat /\ 0 \in 0 .. MaxItems
      /\ k \in 0 .. MaxItems
      /\ sent \subseteq (1 .. FinalStep) \X (0 .. MaxItems)
  <2>1. TypeOK /\ Control /\ Traced /\ flow' = flow
    BY StepKeepsFlow DEF Inv
  <2>2. FinalStep \in Nat /\ i \in Nat /\ i >= 1 /\ k \in Nat /\ n \in Nat /\ MaxItems \in Nat \ {0}
    BY <2>1, Facts
  <2>3. QED
    BY <2>1, <2>2 DEF TypeOK, Control
<1>2. \A site \in sent : site[1] \in Nat /\ site[2] \in Nat /\ site # <<0, 0>>
  BY <1>1
<1>3. pc \in Going /\ code = "ok" =>
        /\ IsInjective(Sites) /\ Pending \subseteq sent /\ ToSet(Sites) = (sent \ Pending) \cup {<<0, 0>>}
        /\ \A site \in sent \ Pending : site[1] < i \/ (pc \in Iterating /\ site[1] = i /\ site[2] < k)
  BY <1>1 DEF Traced, Going, Linear, Iterating, Early
<1> USE DEF Early, Linear, Iterating, Going
<1>4. CASE Load
  BY <1>1, <1>4 DEF Load, Traced, Control
<1>5. CASE Start
  <2>1. spans' = <<Span(0, 0)>> /\ pc' = "step" /\ sent' = sent /\ sent = {} /\ Pending' = {}
    BY <1>1, <1>5 DEF Start, Control, Pending
  <2>2. Sites' = <<<<0, 0>>>>
    <3>1. DOMAIN <<Span(0, 0)>> = {1} /\ <<Span(0, 0)>>[1].step = 0 /\ <<Span(0, 0)>>[1].iteration = 0
      BY DEF Span
    <3>2. DOMAIN <<<<0, 0>>>> = {1} /\ <<<<0, 0>>>>[1] = <<0, 0>>
      OBVIOUS
    <3>3. QED
      BY <2>1, <3>1, <3>2 DEF Sites
  <2>3. IsInjective(Sites') /\ ToSet(Sites') = {<<0, 0>>}
    BY <2>2 DEF IsInjective, ToSet
  <2>4. QED
    BY <2>1, <2>3 DEF Traced
<1>6. CASE BeginStep
  <2>1. /\ pc = "step" /\ pc' \in {"request", "finish"} /\ UNCHANGED <<i, k, sent, spans>>
        /\ Pending = {} /\ Pending' = {} /\ Sites' = Sites
    BY <1>6 DEF BeginStep, Fail, Pending, Sites, trace, loop
  <2>2. code = "ok"
    BY <1>1, <2>1 DEF Control
  <2>3. QED
    BY <1>3, <2>1, <2>2 DEF Traced
<1>7. CASE Request
  <2>1. /\ pc = "request" /\ pc' \in {"record", "retry"} /\ UNCHANGED <<i, k, spans>>
        /\ sent' = sent \cup {<<i, 0>>} /\ Pending = {} /\ Pending' = {<<i, 0>>} /\ Sites' = Sites
    BY <1>7 DEF Request, Pending, Sites, trace, loop
  <2>2. code = "ok"
    BY <1>1, <2>1 DEF Control
  <2>3. <<i, 0>> \notin sent
    BY <1>1, <1>2, <1>3, <2>1, <2>2
  <2>4. sent' \ Pending' = sent
    BY <2>1, <2>3
  <2>5. QED
    BY <1>3, <2>1, <2>2, <2>4 DEF Traced
<1>8. CASE Retry
  <2>1. /\ pc = "retry" /\ pc' = "record" /\ UNCHANGED <<i, k, sent, spans>>
        /\ Pending' = Pending /\ Sites' = Sites
    BY <1>8 DEF Retry, Pending, Sites, trace, loop
  <2>2. code = "ok"
    BY <1>1, <2>1 DEF Control
  <2>3. QED
    BY <1>3, <2>1, <2>2 DEF Traced
<1>9. CASE EndStep
  <2>1. /\ pc = "record" /\ sent' = sent /\ Record(0) /\ Pending = {<<i, 0>>} /\ Pending' = {}
        /\ code # "cancelled" /\ code' \in {code, "badRows"}
        /\ (pc' = "step" /\ i' = i + 1) \/ pc' = "finish"
    BY <1>1, <1>9 DEF EndStep, Advance, Fail, Pending, Control
  <2>2. ToSet(Sites') = ToSet(Sites) \cup {<<i, 0>>}
        /\ (IsInjective(Sites) /\ <<i, 0>> \notin ToSet(Sites) => IsInjective(Sites'))
    BY <1>1, <2>1, RecordKept
  <2>3. /\ IsInjective(Sites) /\ <<i, 0>> \in sent /\ ToSet(Sites) = (sent \ {<<i, 0>>}) \cup {<<0, 0>>}
        /\ \A site \in sent \ {<<i, 0>>} : site[1] < i
    BY <1>1, <2>1 DEF Traced
  <2>4. <<i, 0>> \notin ToSet(Sites)
    BY <1>1, <2>3
  <2>5. ToSet(Sites') = sent \cup {<<0, 0>>} /\ IsInjective(Sites')
    BY <2>2, <2>3, <2>4
  <2>6. \A site \in sent : site[1] < i + 1
    BY <1>1, <1>2, <2>3
  <2>7. QED
    BY <2>1, <2>5, <2>6 DEF Traced
<1>10. CASE BeginForeach
  <2>1. /\ pc = "step" /\ UNCHANGED <<sent, spans>> /\ Pending = {} /\ Pending' = {} /\ Sites' = Sites
        /\ \/ pc' = "iterate" /\ i' = i /\ k' = 1
           \/ pc' = "step" /\ i' = i + 1
           \/ pc' = "finish"
    BY <1>10 DEF BeginForeach, Advance, Fail, Pending, Sites, trace
  <2>2. code = "ok"
    BY <1>1, <2>1 DEF Control
  <2>3. \A site \in sent : site[1] < i /\ site[1] < i + 1
    BY <1>1, <1>2, <1>3, <2>1, <2>2
  <2>4. QED
    BY <1>3, <2>1, <2>2, <2>3 DEF Traced
<1>11. CASE BeginIteration
  <2>1. /\ pc = "iterate" /\ pc' \in {"iterRequest", "finish"} /\ UNCHANGED <<i, k, sent, spans>>
        /\ Pending = {} /\ Pending' = {} /\ Sites' = Sites
    BY <1>11 DEF BeginIteration, Fail, Pending, Sites, trace, loop
  <2>2. code = "ok"
    BY <1>1, <2>1 DEF Control
  <2>3. QED
    BY <1>3, <2>1, <2>2 DEF Traced
<1>12. CASE IterationRequest
  <2>1. /\ pc = "iterRequest" /\ pc' = "iterRecord" /\ UNCHANGED <<i, k, spans>>
        /\ sent' = sent \cup {<<i, k>>} /\ Pending = {} /\ Pending' = {<<i, k>>} /\ Sites' = Sites
    BY <1>12 DEF IterationRequest, Pending, Sites, trace
  <2>2. code = "ok"
    BY <1>1, <2>1 DEF Control
  <2>3. <<i, k>> \notin sent
    BY <1>1, <1>2, <1>3, <2>1, <2>2
  <2>4. sent' \ Pending' = sent
    BY <2>1, <2>3
  <2>5. QED
    BY <1>3, <2>1, <2>2, <2>4 DEF Traced
<1>13. CASE EndIteration
  <2>1. /\ pc = "iterRecord" /\ sent' = sent /\ Record(k) /\ Pending = {<<i, k>>} /\ Pending' = {}
        /\ code # "cancelled" /\ code' = code
        /\ \/ pc' = "iterate" /\ i' = i /\ k' = k + 1
           \/ pc' = "step" /\ i' = i + 1
           \/ pc' = "finish"
    BY <1>1, <1>13 DEF EndIteration, Advance, Pending, Control
  <2>2. ToSet(Sites') = ToSet(Sites) \cup {<<i, k>>}
        /\ (IsInjective(Sites) /\ <<i, k>> \notin ToSet(Sites) => IsInjective(Sites'))
    BY <1>1, <2>1, RecordKept
  <2>3. /\ IsInjective(Sites) /\ <<i, k>> \in sent /\ ToSet(Sites) = (sent \ {<<i, k>>}) \cup {<<0, 0>>}
        /\ \A site \in sent \ {<<i, k>>} : site[1] < i \/ (site[1] = i /\ site[2] < k)
    BY <1>1, <2>1 DEF Traced
  <2>4. <<i, k>> \notin ToSet(Sites)
    BY <1>1, <2>3
  <2>5. ToSet(Sites') = sent \cup {<<0, 0>>} /\ IsInjective(Sites')
    BY <2>2, <2>3, <2>4
  <2>6. \A site \in sent : site[1] < i + 1 /\ (site[1] < i \/ (site[1] = i /\ site[2] < k + 1))
    <3> TAKE site \in sent
    <3>1. CASE site = <<i, k>>
      BY <1>1, <3>1
    <3>2. CASE site # <<i, k>>
      BY <1>1, <1>2, <2>3, <3>2
    <3>3. QED
      BY <3>1, <3>2
  <2>7. QED
    BY <2>1, <2>5, <2>6 DEF Traced
<1>14. CASE Finish
  <2>1. pc = "finish" /\ pc' = "done" /\ UNCHANGED <<sent, spans, code>> /\ Pending = {} /\ Pending' = {}
        /\ Sites' = Sites
    BY <1>14 DEF Finish, Pending, Sites
  <2>2. QED
    BY <1>1, <2>1 DEF Traced
<1>15. CASE Cancel
  BY <1>15 DEF Cancel, Traced
<1>16. QED
  BY <1>4, <1>5, <1>6, <1>7, <1>8, <1>9, <1>10, <1>11, <1>12, <1>13, <1>14, <1>15 DEF Next

\* The rows of a foreach, an iteration at a time.
LEMMA GatheredStep == ASSUME Inv, Next PROVE Gathered'
<1>1. /\ gathered \in Seq(1 .. MaxItems) /\ Len(gathered) \in Nat /\ DOMAIN gathered = 1 .. Len(gathered)
      /\ k \in Nat
  BY Facts, LenProperties DEF Inv, TypeOK
<1>2. Gathered /\ Control
  BY DEF Inv
<1>3. CASE BeginForeach
  <2>1. \/ gathered' = gathered /\ pc' \notin Iterating
        \/ gathered' = <<>> /\ k' = 1 /\ pc' # "iterRecord"
    BY <1>3 DEF BeginForeach, Advance, Fail, Iterating, loop
  <2>2. Len(<<>>) = 0 /\ DOMAIN <<>> = {}
    OBVIOUS
  <2>3. QED
    BY <1>2, <2>1, <2>2 DEF Gathered, Iterating
<1>4. CASE BeginIteration
  BY <1>2, <1>4 DEF BeginIteration, Gathered, Fail, loop
<1>5. CASE IterationRequest
  <2>1. pc = "iterRequest" /\ code = "ok" /\ Len(gathered) = k - 1 /\ k \in 1 .. n /\ k <= MaxItems
    BY <1>2, <1>5, Facts DEF IterationRequest, Gathered, Control, Going, Iterating, Inv
  <2>2. CASE gathered' = gathered /\ code' # "ok"
    BY <1>2, <1>5, <2>2 DEF IterationRequest, Gathered
  <2>3. CASE gathered' = Append(gathered, k)
    <3> DEFINE g == gathered'
    <3>1. k \in 1 .. MaxItems
      BY <1>1, <2>1, OrchestrationAssumption
    <3>2. /\ Len(g) = Len(gathered) + 1 /\ \A j \in 1 .. Len(gathered) : g[j] = gathered[j]
          /\ g[Len(gathered) + 1] = k /\ g \in Seq(1 .. MaxItems)
      BY <1>1, <2>3, <3>1, AppendProperties
    <3>3. DOMAIN g = 1 .. k /\ Len(g) = k /\ \A j \in 1 .. k - 1 : g[j] = gathered[j]
      BY <1>1, <2>1, <3>2, LenProperties
    <3>4. g[k] = k
      BY <1>1, <2>1, <3>2
    <3> HIDE DEF g
    <3>5. \A j \in DOMAIN g : g[j] = j
      BY <1>1, <1>2, <2>1, <3>3, <3>4 DEF Gathered
    <3>6. k' = k /\ pc' = "iterRecord"
      BY <1>5 DEF IterationRequest
    <3>7. QED
      BY <3>3, <3>5, <3>6 DEF Gathered, g
  <2>4. QED
    BY <1>5, <2>2, <2>3, <2>1 DEF IterationRequest, Gather
<1>6. CASE EndIteration
  <2>1. /\ gathered' = gathered /\ pc = "iterRecord"
        /\ (code = "ok" /\ k' = k + 1 /\ pc' = "iterate") \/ pc' \in {"step", "finish"}
    BY <1>6 DEF EndIteration, Advance
  <2>2. \A j \in DOMAIN gathered' : gathered'[j] = j
    BY <1>2, <2>1 DEF Gathered
  <2>3. pc' = "iterate" => Len(gathered) = k /\ k' - 1 = k
    <3>1. code = "ok" => Len(gathered) = k
      BY <1>2, <2>1 DEF Gathered
    <3>2. k + 1 - 1 = k
      BY <1>1
    <3>3. QED
      BY <2>1, <3>1, <3>2
  <2>4. QED
    BY <2>1, <2>2, <2>3 DEF Gathered
<1>7. CASE Load \/ Start \/ BeginStep \/ Request \/ Retry \/ EndStep \/ Finish \/ Cancel
  <2>1. gathered' = gathered /\ pc' \notin Iterating
    BY <1>7 DEF Load, Start, BeginStep, Request, Retry, EndStep, Finish, Cancel, Advance, Fail, loop, Iterating
  <2>2. QED
    BY <1>2, <2>1 DEF Gathered, Iterating
<1>8. QED
  BY <1>3, <1>4, <1>5, <1>6, <1>7 DEF Next

\* In a flow whose references are right, none is ever unbound.
LEMMA BoundStep == ASSUME Inv, Next PROVE Bound'
<1> SUFFICES ASSUME StaticallyBound(flow)' PROVE
      /\ code' # "unbound"
      /\ pc' \in Going /\ code' = "ok" =>
           \A e \in DOMAIN flow'.steps :
              flow'.steps[e].over = NoRef /\ (e < i' \/ (e = i' /\ pc' = "record"))
                  => context'[StoredUnder(flow', e)] # "unbound"
  BY DEF Bound
<1>1. /\ flow' = flow /\ StaticallyBound(flow) /\ TypeOK /\ Control /\ flow \in Flows
      /\ i \in Nat /\ FinalStep \in Nat /\ Length \in Nat \ {0} /\ DOMAIN flow.steps = 1 .. Length
      /\ context \in [Roots(Length) -> {"unbound", "null", "value"}]
  <2>1. flow' = flow /\ TypeOK /\ Control
    BY StepKeepsFlow DEF Inv
  <2>2. StaticallyBound(flow)
    BY <2>1, FlowKept
  <2>3. QED
    BY <2>1, <2>2, Facts DEF TypeOK, Control
<1>2. /\ code # "unbound"
      /\ pc \in Going /\ code = "ok" =>
           \A e \in 1 .. Length : flow.steps[e].over = NoRef /\ (e < i \/ (e = i /\ pc = "record"))
               => context[StoredUnder(flow, e)] # "unbound"
  BY <1>1 DEF Inv, Bound
<1>3. \A e \in 1 .. Length : StoredUnder(flow, e) \in Roots(Length)
  BY DEF StoredUnder, Root, Roots
<1>4. ASSUME pc \in Going, code = "ok", NEW r \in BoundBefore(flow, i), r # NoRef
      PROVE  r \in Roots(Length) /\ context[r] # "unbound"
  <2>1. PICK e \in 1 .. Length : e < i /\ flow.steps[e].over = NoRef /\ r = StoredUnder(flow, e)
    BY <1>1, <1>4 DEF BoundBefore
  <2>2. QED
    BY <1>2, <1>3, <1>4, <2>1
<1>5. pc \in Going =>
        /\ Current.over \in BoundBefore(flow, i)
        /\ Current.ref \in BoundBefore(flow, i) \cup (IF Current.over = NoRef THEN {} ELSE {Current.as})
  BY <1>1, Facts, StepsInTurn DEF StaticallyBound
<1>6. ASSUME pc \in {"request", "retry"}, NEW value \in {"null", "value"}, Store(value), i' = i, pc' = "record"
      PROVE  \A e \in 1 .. Length : flow.steps[e].over = NoRef /\ (e < i \/ e = i)
                => context'[StoredUnder(flow, e)] # "unbound"
  <2>1. /\ context'[StoredUnder(flow, i)] # "unbound"
        /\ \A r \in Roots(Length) \ {StoredUnder(flow, i)} : context'[r] = context[r]
    BY <1>1, <1>6, AnswerStored DEF Linear
  <2>2. pc \in Going /\ code = "ok"
    BY <1>1, <1>6 DEF Linear, Going, Control
  <2>3. QED
    BY <1>2, <1>3, <2>1, <2>2
<1>7. CASE Load \/ Start \/ Finish \/ Cancel
  <2>1. /\ code' = code \/ code' = "cancelled"
        /\ \/ pc' \notin Going
           \/ i' = 1 /\ pc' = "step"
    BY <1>1, <1>7 DEF Load, Start, Finish, Cancel, Going, Linear, Iterating, Control, Early
  <2>2. \A e \in 1 .. Length : ~(e < 1)
    BY <1>1
  <2>3. QED
    BY <1>1, <1>2, <2>1, <2>2
<1>8. CASE BeginStep
  <2>1. /\ pc = "step" /\ Current.over = NoRef /\ UNCHANGED <<i, context>>
        /\ \/ pc' = "request" /\ code' = code
           \/ pc' = "finish" /\ code' = Why(Current.ref, context)
    BY <1>8 DEF BeginStep, Fail
  <2>2. pc \in Going /\ code = "ok"
    BY <1>1, <2>1 DEF Control, Going
  <2>3. CASE pc' = "request" /\ code' = code
    BY <1>1, <1>2, <2>1, <2>2, <2>3
  <2>4. CASE pc' = "finish" /\ code' = Why(Current.ref, context)
    <3>1. Current.ref \in BoundBefore(flow, i)
      BY <1>5, <2>1, <2>2
    <3>2. Current.ref = NoRef \/ (Current.ref \in Roots(Length) /\ context[Current.ref] # "unbound")
      BY <1>4, <2>2, <3>1
    <3>3. code' = "missing"
      BY <1>1, <2>4, <3>2 DEF Known, Why
    <3>4. QED
      BY <2>4, <3>3 DEF Going, Linear, Iterating
  <2>5. QED
    BY <2>1, <2>3, <2>4
<1>9. CASE Request
  <2>1. /\ pc = "request" /\ i' = i /\ code' \in {code, "stepFailed"}
        /\ \/ pc' = "record" /\ \E value \in {"null", "value"} : Store(value)
           \/ pc' = "retry" /\ context' = context
           \/ pc' = "record" /\ code' = "stepFailed"
    BY <1>9 DEF Request
  <2>2. pc \in Going /\ code = "ok"
    BY <1>1, <2>1 DEF Control, Going, Linear
  <2>3. QED
    BY <1>1, <1>2, <1>6, <2>1, <2>2
<1>10. CASE Retry
  <2>1. /\ pc = "retry" /\ i' = i /\ code' \in {code, "stepFailed"} /\ pc' = "record"
        /\ (\E value \in {"null", "value"} : Store(value)) \/ code' = "stepFailed"
    BY <1>10 DEF Retry
  <2>2. pc \in Going /\ code = "ok"
    BY <1>1, <2>1 DEF Control, Going, Linear
  <2>3. QED
    BY <1>1, <1>2, <1>6, <2>1, <2>2
<1>11. CASE EndStep
  <2>1. /\ pc = "record" /\ UNCHANGED context /\ code' \in {code, "badRows"}
        /\ (pc' \in {"step", "finish"} /\ i' = i + 1 /\ code' = code) \/ pc' = "finish"
    BY <1>11 DEF EndStep, Advance, Fail
  <2>2. pc \in Going /\ \A e \in 1 .. Length : e < i + 1 <=> e < i \/ e = i
    BY <1>1, <2>1 DEF Going, Linear
  <2>3. QED
    BY <1>1, <1>2, <2>1, <2>2 DEF Going, Linear, Iterating
<1>12. CASE BeginForeach
  <2>1. /\ pc = "step" /\ Current.over # NoRef /\ UNCHANGED context
        /\ \/ pc' = "iterate" /\ i' = i /\ code' = code
           \/ pc' \in {"step", "finish"} /\ i' = i + 1 /\ code' = code
           \/ pc' = "finish" /\ code' = "notAList"
           \/ pc' = "finish" /\ code' = Why(Current.over, context)
    BY <1>12 DEF BeginForeach, Advance, Fail
  <2>2. pc \in Going /\ code = "ok"
    BY <1>1, <2>1 DEF Control, Going, Linear, Iterating
  <2>3. CASE pc' = "iterate" /\ i' = i /\ code' = code
    BY <1>1, <1>2, <2>1, <2>2, <2>3
  <2>4. CASE pc' \in {"step", "finish"} /\ i' = i + 1 /\ code' = code
    <3>1. \A e \in 1 .. Length : e < i + 1 /\ flow.steps[e].over = NoRef => e < i
      <4> TAKE e \in 1 .. Length
      <4>1. e < i + 1 => e < i \/ e = i
        BY <1>1
      <4>2. e = i => flow.steps[e].over # NoRef
        BY <1>1, <2>1, <2>2, Facts
      <4>3. QED
        BY <4>1, <4>2
    <3>2. QED
      BY <1>1, <1>2, <2>1, <2>2, <2>4, <3>1
  <2>5. CASE pc' = "finish" /\ code' = Why(Current.over, context)
    <3>1. Current.over \in Roots(Length) /\ context[Current.over] # "unbound"
      BY <1>4, <1>5, <2>1, <2>2
    <3>2. code' = "missing"
      BY <1>1, <2>5, <3>1 DEF Known, Why
    <3>3. QED
      BY <2>5, <3>2 DEF Going, Linear, Iterating
  <2>6. QED
    BY <2>1, <2>3, <2>4, <2>5 DEF Going, Linear, Iterating
<1>13. CASE BeginIteration
  <2> DEFINE bound == [context EXCEPT ![Current.as] = "value"]
  <2>1. /\ pc = "iterate" /\ UNCHANGED <<i, context>>
        /\ \/ pc' = "iterRequest" /\ code' = code
           \/ pc' = "finish" /\ code' = Why(Current.ref, bound)
    BY <1>13 DEF BeginIteration, Fail
  <2>2. pc \in Going /\ code = "ok" /\ Current \in Step(Length)
    BY <1>1, <2>1, Facts DEF Control, Going, Linear, Iterating
  <2>3. CASE pc' = "iterRequest" /\ code' = code
    BY <1>1, <1>2, <2>1, <2>2, <2>3
  <2>4. CASE pc' = "finish" /\ code' = Why(Current.ref, bound)
    <3>1. Current.as \in Roots(Length)
      BY <2>2 DEF Step, Roots
    <3>2. bound \in [Roots(Length) -> {"unbound", "null", "value"}] /\ bound[Current.as] = "value"
          /\ \A r \in Roots(Length) : r # Current.as => bound[r] = context[r]
      BY <1>1, <3>1
    <3>3. Current.ref \in BoundBefore(flow, i) \cup {Current.as}
      BY <1>5, <2>2
    <3>4. Current.ref = NoRef \/ (Current.ref \in Roots(Length) /\ bound[Current.ref] # "unbound")
      BY <1>4, <2>2, <3>1, <3>2, <3>3
    <3> HIDE DEF bound
    <3>5. code' = "missing"
      BY <2>4, <3>2, <3>4 DEF Known, Why
    <3>6. QED
      BY <2>4, <3>5 DEF Going, Linear, Iterating
  <2>5. QED
    BY <2>1, <2>3, <2>4
<1>14. CASE IterationRequest
  <2>1. /\ pc = "iterRequest" /\ pc' = "iterRecord" /\ UNCHANGED <<i, context>>
        /\ code' \in {code, "schema", "stepFailed"}
    BY <1>14 DEF IterationRequest
  <2>2. pc \in Going /\ code = "ok"
    BY <1>1, <2>1 DEF Control, Going, Linear, Iterating
  <2>3. QED
    BY <1>1, <1>2, <2>1, <2>2
<1>15. CASE EndIteration
  <2>1. /\ pc = "iterRecord" /\ UNCHANGED <<code, context>>
        /\ (pc' = "iterate" /\ i' = i) \/ (pc' \in {"step", "finish"} /\ i' = i + 1) \/ pc' = "finish"
    BY <1>15 DEF EndIteration, Advance
  <2>2. pc \in Going /\ Current.over # NoRef
    BY <1>1, <2>1 DEF Control, Going, Iterating
  <2>3. \A e \in 1 .. Length : e < i + 1 /\ flow.steps[e].over = NoRef => e < i
    <3> TAKE e \in 1 .. Length
    <3>1. e < i + 1 => e < i \/ e = i
      BY <1>1
    <3>2. e = i => flow.steps[e].over # NoRef
      BY <1>1, <2>2, Facts
    <3>3. QED
      BY <3>1, <3>2
  <2>4. QED
    BY <1>1, <1>2, <2>1, <2>2, <2>3 DEF Going, Linear, Iterating
<1>16. QED
  BY <1>7, <1>8, <1>9, <1>10, <1>11, <1>12, <1>13, <1>14, <1>15 DEF Next

\* What the run returns is what its last step answered.
LEMMA ResultingStep == ASSUME Inv, Next PROVE Resulting'
<1> DEFINE Returns(r, s, m) ==
             /\ ~(LastStep.output /\ LastStep.key) => r.step = FinalStep \/ FinalStep \in s
             /\ r.step = FinalStep /\ LastStep.over # NoRef /\ LastStep.mode = "merge"
                  => r.rows = [j \in 1 .. m |-> j]
<1>1. /\ TypeOK /\ Control /\ Gathered /\ Resulting /\ flow' = flow
      /\ LastStep' = LastStep /\ FinalStep' = FinalStep
      /\ i \in Nat /\ k \in Nat /\ n \in Nat /\ FinalStep \in Nat
  <2>1. TypeOK /\ Control /\ Gathered /\ Resulting /\ flow' = flow
    BY StepKeepsFlow DEF Inv
  <2>2. LastStep' = LastStep /\ FinalStep' = FinalStep
    BY <2>1, FlowKept
  <2>3. i \in Nat /\ k \in Nat /\ n \in Nat /\ FinalStep \in Nat
    BY <2>1, Facts
  <2>4. QED
    BY <2>1, <2>2, <2>3
<1>2. ASSUME pc' = "record" /\ code' = "ok" =>
               context'[StoredUnder(flow, i')] = "value" \/ i' \in skipped',
             pc' \in {"finish", "done"} /\ code' = "ok" => Returns(result', skipped', n')
      PROVE  Resulting'
  BY <1>1, <1>2 DEF Resulting
<1> HIDE DEF Returns
<1>3. CASE Load \/ Start \/ BeginStep \/ BeginIteration \/ IterationRequest \/ Cancel
  <2>1. pc' # "record" /\ (pc' \in {"finish", "done"} => code' # "ok")
    BY <1>3 DEF Load, Start, BeginStep, BeginIteration, IterationRequest, Cancel, Fail, Why
  <2>2. QED
    BY <1>2, <2>1
<1>4. CASE Request
  <2>1. pc' \in {"record", "retry"} /\ i' = i /\ pc \in Linear
    BY <1>4 DEF Request, Linear
  <2>2. CASE Store("value")
    <3>1. context'[StoredUnder(flow, i)] = "value"
      BY <1>1, <2>1, <2>2, AnswerStored
    <3>2. QED
      BY <1>2, <2>1, <3>1
  <2>3. CASE skipped' = skipped \cup {i}
    BY <1>2, <2>1, <2>3
  <2>4. CASE pc' = "retry" \/ code' # "ok"
    BY <1>2, <2>1, <2>4
  <2>5. QED
    BY <1>4, <2>2, <2>3, <2>4 DEF Request
<1>5. CASE Retry
  <2>1. pc' = "record" /\ i' = i /\ pc \in Linear
    BY <1>5 DEF Retry, Linear
  <2>2. CASE Store("value")
    <3>1. context'[StoredUnder(flow, i)] = "value"
      BY <1>1, <2>1, <2>2, AnswerStored
    <3>2. QED
      BY <1>2, <2>1, <3>1
  <2>3. CASE code' # "ok"
    BY <1>2, <2>1, <2>3
  <2>4. QED
    BY <1>5, <2>2, <2>3 DEF Retry
<1>6. CASE EndStep
  <2>1. /\ pc = "record" /\ pc' \in {"step", "finish"} /\ skipped' = skipped /\ n' = n
        /\ code' = "ok" => code = "ok"
        /\ pc' = "finish" /\ code' = "ok" => i = FinalStep /\ result' = BuildResult
    BY <1>6 DEF EndStep, Advance, Fail, loop
  <2>2. ASSUME pc' = "finish", code' = "ok" PROVE Returns(result', skipped', n')
    <3>1. /\ FinalStep = Length /\ i = Length /\ LastStep.over = NoRef /\ LastStep = flow.steps[Length]
          /\ LastStep \in Step(Length)
      <4>1. pc \in Going /\ Current.over = NoRef /\ i <= Length
        BY <1>1, <2>1 DEF Control, Going, Linear
      <4>2. QED
        BY <1>1, <2>1, <2>2, <4>1, Facts
    <3>2. context[StoredUnder(flow, Length)] = "value" \/ Length \in skipped
      BY <1>1, <2>1, <2>2, <3>1 DEF Resulting
    <3>3. LastStep.output \in BOOLEAN /\ LastStep.key \in BOOLEAN
      BY <3>1 DEF Step
    <3>4. CASE ~(LastStep.output /\ LastStep.key) /\ Length \notin skipped
      <4>1. StoredUnder(flow, Length) = Root(IF LastStep.key THEN "key" ELSE "name", Length)
        BY <3>1, <3>3, <3>4 DEF StoredUnder
      <4>2. BuildResult = [step |-> Length, rows |-> <<1>>]
        BY <3>1, <3>2, <3>4, <4>1 DEF BuildResult
      <4>3. result'.step = Length
        BY <2>1, <2>2, <4>2
      <4>4. QED
        BY <3>1, <4>3 DEF Returns
    <3>5. CASE (LastStep.output /\ LastStep.key) \/ Length \in skipped
      BY <2>1, <3>1, <3>5 DEF Returns
    <3>6. QED
      BY <3>4, <3>5
  <2>3. QED
    BY <1>2, <2>1, <2>2
<1>7. CASE BeginForeach
  <2>1. /\ pc = "step" /\ pc' # "record"
        /\ pc' \in {"finish", "done"} /\ code' = "ok" =>
             i = FinalStep /\ result' = [step |-> i, rows |-> <<>>] /\ n' = 0
    BY <1>7 DEF BeginForeach, Advance, Fail, Why
  <2>2. ASSUME i = FinalStep, result' = [step |-> i, rows |-> <<>>], n' = 0
        PROVE  Returns(result', skipped', n')
    <3>1. result'.step = FinalStep /\ result'.rows = <<>>
      BY <2>2
    <3>2. <<>> = [j \in 1 .. 0 |-> j]
      OBVIOUS
    <3>3. QED
      BY <2>2, <3>1, <3>2 DEF Returns
  <2>3. QED
    BY <1>2, <2>1, <2>2
<1>8. CASE EndIteration
  <2>1. /\ pc = "iterRecord" /\ pc' \in {"iterate", "step", "finish"} /\ code' = code /\ n' = n
        /\ pc' = "finish" /\ code = "ok" =>
             /\ i = FinalStep /\ k = n
             /\ result' = [step |-> i, rows |-> IF Current.mode = "merge" THEN gathered
                                                ELSE <<gathered[Len(gathered)]>>]
    BY <1>8 DEF EndIteration, Advance
  <2>2. ASSUME pc' = "finish", code = "ok" PROVE Returns(result', skipped', n')
    <3>1. result'.step = FinalStep /\ (Current.mode = "merge" => result'.rows = gathered)
      BY <2>1, <2>2
    <3>2. Current = LastStep
      BY <1>1, <2>1, <2>2, Facts DEF Going, Iterating
    <3>3. gathered = [j \in 1 .. n |-> j]
      <4>1. Len(gathered) = n /\ \A j \in DOMAIN gathered : gathered[j] = j
        BY <1>1, <2>1, <2>2 DEF Gathered
      <4>2. gathered \in [1 .. n -> 1 .. MaxItems]
        BY <1>1, <4>1, LenProperties DEF TypeOK
      <4>3. QED
        BY <4>1, <4>2
    <3>4. QED
      BY <2>1, <3>1, <3>2, <3>3 DEF Returns
  <2>3. QED
    BY <1>2, <2>1, <2>2
<1>9. CASE Finish
  <2>1. pc = "finish" /\ pc' = "done" /\ UNCHANGED <<code, result, skipped, n>>
    BY <1>9 DEF Finish, loop
  <2>2. code = "ok" => Returns(result, skipped, n)
    BY <1>1, <2>1 DEF Resulting, Returns
  <2>3. QED
    BY <1>2, <2>1, <2>2
<1>10. QED
  BY <1>3, <1>4, <1>5, <1>6, <1>7, <1>8, <1>9 DEF Next

-----------------------------------------------------------------------------
(* The theorems.                                                           *)

LEMMA InitInv == Init => Inv
<1> SUFFICES ASSUME Init PROVE Inv
  OBVIOUS
<1>1. /\ flow \in Flows /\ Length \in Nat \ {0} /\ FinalStep \in Nat /\ FinalStep >= 1
      /\ MaxItems \in Nat \ {0}
  BY FlowShape, OrchestrationAssumption DEF Init
<1>2. /\ pc = "load" /\ i = 1 /\ code = "ok" /\ spans = <<>> /\ sent = {} /\ gathered = <<>>
      /\ result.step = 0 /\ result.rows = <<>>
  BY DEF Init, Empty
<1>3. 0 \in 0 .. FinalStep /\ 0 \in 0 .. MaxItems /\ 1 \in 1 .. FinalStep + 1
  BY <1>1
<1>4. ToSet(spans) = {} /\ spans \in Seq(SpanRow) /\ gathered \in Seq(1 .. MaxItems)
      /\ <<>> \in Seq(1 .. MaxItems) /\ Len(gathered) = 0 /\ DOMAIN gathered = {}
  BY <1>2 DEF ToSet
<1>5. TypeOK
  BY <1>2, <1>3, <1>4 DEF Init, TypeOK, Steps, Codes, Columns
<1>6. Control
  BY <1>1, <1>2, <1>4 DEF Control, Early, Going, Linear, Iterating, ExecutionTellsOutcome
<1>7. Traced /\ Gathered /\ Bound /\ Resulting
  BY <1>2, <1>4 DEF Traced, Gathered, Bound, Resulting, Early, Going, Linear, Iterating
<1>8. QED
  BY <1>5, <1>6, <1>7 DEF Inv

LEMMA StepInv == Inv /\ [Next]_vars => Inv'
<1> SUFFICES ASSUME Inv, [Next]_vars PROVE Inv'
  OBVIOUS
<1>1. CASE Next
  BY <1>1, TypesStep, ControlStep, TracedStep, GatheredStep, BoundStep, ResultingStep DEF Inv
<1>2. CASE UNCHANGED vars
  <2>1. UNCHANGED <<flow, pc, i, k, n, context, gathered, columns, result, code, execution, spans,
                    sent, skipped>>
    BY <1>2 DEF vars
  <2>2. /\ Length' = Length /\ FinalStep' = FinalStep /\ LastStep' = LastStep /\ SpanRow' = SpanRow
        /\ StaticallyBound(flow)' = StaticallyBound(flow) /\ Current' = Current
        /\ Sites' = Sites /\ Pending' = Pending
    BY <2>1, FlowKept DEF Sites, Pending
  <2>3. TypeOK' /\ Control'
    BY <2>1, <2>2 DEF Inv, TypeOK, Control, ExecutionTellsOutcome
  <2>4. Traced' /\ Gathered' /\ Bound' /\ Resulting'
    BY <2>1, <2>2 DEF Inv, Traced, Gathered, Bound, Resulting
  <2>5. QED
    BY <2>3, <2>4 DEF Inv
<1>3. QED
  BY <1>1, <1>2

LEMMA Invariance == Spec => []Inv
BY InitInv, StepInv, PTL DEF Spec

\* The trace of a run that was not cancelled tells how it ended, and has one span for each
\* request that was sent (orchestration/engine.py:134-142, 260-263, 440-443).
THEOREM TraceIsComplete == Spec => []TraceTellsRun
<1>1. Inv => TraceTellsRun
  <2> SUFFICES ASSUME Inv, pc = "done", code # "cancelled"
               PROVE  IsInjective(Sites) /\ ToSet(Sites) = sent \cup {<<0, 0>>}
    BY DEF Inv, Control, TraceTellsRun, SpansCoverRequests
  <2>1. Pending = {}
    BY DEF Pending
  <2>2. QED
    BY <2>1 DEF Inv, Traced, Early
<1>2. QED
  BY <1>1, Invariance, PTL

\* The answer is that of the flow's last step, unless that was skipped or stores its response
\* under one name and is read under another (orchestration/engine.py:528-550).
THEOREM LastStepAnswers == Spec => []ResultOfLastStep
<1>1. Inv => ResultOfLastStep
  BY DEF Inv, Resulting, ResultOfLastStep, Answered
<1>2. QED
  BY <1>1, Invariance, PTL

\* A merging foreach at the end gives back the rows of all its iterations, in order, whatever
\* the length of its array (orchestration/engine.py:389-424, 456-460).
THEOREM IterationsAreReturned == Spec => []EveryIterationReturned
<1>1. Inv => EveryIterationReturned
  BY DEF Inv, Resulting, EveryIterationReturned, Answered
<1>2. QED
  BY <1>1, Invariance, PTL

\* A flow each of whose references is to an earlier linear step never meets an unbound name
\* (orchestration/engine.py:156-163, 327-356).
THEOREM ReferencesResolve == Spec => []BoundFlowsRun
<1>1. Inv => BoundFlowsRun
  BY DEF Inv, Bound, BoundFlowsRun
<1>2. QED
  BY <1>1, Invariance, PTL
=============================================================================
