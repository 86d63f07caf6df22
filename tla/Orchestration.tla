---------------------------- MODULE Orchestration ----------------------------
(***************************************************************************)
(* An orchestrated source: a flow of HTTP steps is validated when the      *)
(* configuration is loaded (orchestration/validation.py) and executed for  *)
(* a query (orchestration/engine.py), leaving an execution and its spans   *)
(* in the trace (core/trace.py).  A run is one coroutine.  Templates are   *)
(* abstracted to the one binding root they refer to, and responses to what *)
(* the flow's control depends on.                                          *)
(***************************************************************************)
EXTENDS Naturals, Sequences, SequencesExt

CONSTANTS
    Flows,       \* the flows declared in config.toml, each loaded and run once
    MaxItems,    \* bound on the length of an array that foreach iterates over
    MayCancel    \* whether the caller may cancel the run

\* What a binding may start with: the name of a step, the output_key of a step,
\* the reserved `item`, or a loop variable of another name.  A template with no
\* binding, or only {{sql}} and {{params.x}}, refers to NoRef.
Root(kind, i) == <<kind, i>>
NoRef   == Root("none", 0)
Item    == Root("item", 0)
LoopVar == Root("loop", 0)
Roots(n) == ({"name", "key"} \X (1 .. n)) \cup {Item, LoopVar}

\* over: the array foreach iterates over, NoRef for a linear step.  output and
\* key: whether the step declares `output` and `output_key`.
Step(n) == [ref : Roots(n) \cup {NoRef}, over : Roots(n) \cup {NoRef},
            as : {Item, LoopVar}, mode : {"merge", "separate"},
            onError : {"fail", "skip", "retry"}, output : BOOLEAN, key : BOOLEAN]

\* tail: the nested step of the legacy top-level foreach, if there is one.
Flow(n) == [steps : [1 .. n -> Step(n)], tail : {<<>>} \cup {<<s>> : s \in Step(n)}]

ASSUME OrchestrationAssumption ==
    /\ \A f \in Flows : Len(f.steps) \in Nat \ {0} /\ f \in Flow(Len(f.steps))
    /\ \A f \in Flows : f.tail # <<>> => f.tail[1].over # NoRef
    /\ MaxItems \in Nat \ {0} /\ MayCancel \in BOOLEAN

VARIABLES
    flow,        \* the flow of this source
    pc,          \* where the run is suspended
    i, k, n,     \* the step, its iteration, and the length of its array
    context,     \* what each root is bound to
    gathered,    \* rows collected by foreach, as the iterations they are from
    columns,     \* the column set of the first iteration
    result,      \* the StructuredResult so far: its step and rows
    code,        \* "ok", or the error the run is failing with
    execution,   \* the status and completion of the trace_executions row
    spans,       \* the trace_spans rows, the root span first
    sent,        \* the (step, iteration) sites whose request was sent
    skipped      \* the steps whose failure was skipped

vars == <<flow, pc, i, k, n, context, gathered, columns, result, code,
          execution, spans, sent, skipped>>
trace == <<execution, spans>>
loop  == <<k, n, gathered, columns>>

Columns == {"none", "a", "b"}
Codes   == {"ok", "unbound", "missing", "notAList", "stepFailed", "badRows", "schema", "cancelled"}
Steps   == {"load", "rejected", "start", "step", "request", "retry", "record",
            "iterate", "iterRequest", "iterRecord", "finish", "done"}

Empty == [step |-> 0, rows |-> <<>>]
Length == Len(flow.steps)
Current == IF i <= Length THEN flow.steps[i] ELSE flow.tail[1]
FinalStep == Length + Len(flow.tail)

Init ==
    /\ flow \in Flows
    /\ pc = "load"
    /\ i = 1 /\ k = 0 /\ n = 0
    /\ context = [r \in Roots(Length) |-> "unbound"]
    /\ gathered = <<>> /\ columns = "none"
    /\ result = Empty /\ code = "ok"
    /\ execution = [status |-> "none", finished |-> FALSE]
    /\ spans = <<>> /\ sent = {} /\ skipped = {}

-----------------------------------------------------------------------------
(* Validation, when the source is instantiated.                            *)

\* _detect_cycles: a step's name is referred to by later steps only.
RefersBack(f) ==
    \A s \in DOMAIN f.steps : \A r \in {f.steps[s].ref, f.steps[s].over} :
        r[1] = "name" => r[2] < s

\* Reserved bindings, step names and output keys, wherever they are declared.
ValidRoots(f) ==
    {NoRef, Item} \cup {Root("name", s) : s \in DOMAIN f.steps}
        \cup {Root("key", s) : s \in {s \in DOMAIN f.steps : f.steps[s].key}}

\* _detect_undefined_bindings; only the legacy foreach adds its loop variable.
DefinedRoots(f) ==
    /\ \A s \in DOMAIN f.steps : {f.steps[s].ref, f.steps[s].over} \subseteq ValidRoots(f)
    /\ \A s \in ToSet(f.tail) : s.over \in ValidRoots(f) /\ s.ref \in ValidRoots(f) \cup {s.as}

Accepted(f) == RefersBack(f) /\ DefinedRoots(f)

Load ==
    /\ pc = "load"
    /\ \/ Accepted(flow) /\ pc' = "start"
       \/ ~Accepted(flow) /\ pc' = "rejected"
    /\ UNCHANGED <<flow, i, loop, context, result, code, trace, sent, skipped>>

-----------------------------------------------------------------------------
(* run(): the root, and the steps in turn.                                 *)

\* A span as add_span inserts it: status ok, not finished.
Span(step, iteration) == [step |-> step, iteration |-> iteration,
                          status |-> "ok", finished |-> FALSE]

Start ==
    /\ pc = "start"
    /\ pc' = "step"
    /\ execution' = [status |-> "ok", finished |-> FALSE]
    /\ spans' = <<Span(0, 0)>>
    /\ UNCHANGED <<flow, i, loop, context, result, code, sent, skipped>>

\* The run gives up; `except Exception` finishes the execution.
Fail(why) == code' = why /\ pc' = "finish"

\* Whether a reference's root is bound, be it to null.  What it refers to below
\* the root may still be missing, as a parameter may be that was not given.
Known(r, bound) == r = NoRef \/ (r \in DOMAIN bound /\ bound[r] # "unbound")
Why(r, bound)   == IF Known(r, bound) THEN "missing" ELSE "unbound"

\* A linear step's templates are interpolated before its span exists.
BeginStep ==
    /\ pc = "step" /\ i <= Length /\ Current.over = NoRef
    /\ \/ Known(Current.ref, context) /\ pc' = "request" /\ UNCHANGED code
       \/ Fail(Why(Current.ref, context))
    /\ UNCHANGED <<flow, i, loop, context, result, trace, sent, skipped>>

\* Seeded fault: the full response is always bound under the step's name.
StoresUnderName(value) == context' = [context EXCEPT ![Root("name", i)] = value]

\* _store_output: `output` binds its aliases, null ones included, under the
\* step's name; otherwise the response goes under output_key or the name.
Store(value) ==
    context' =
        IF Current.output THEN [context EXCEPT ![Root("name", i)] = "value"]
        ELSE [context EXCEPT ![Root(IF Current.key THEN "key" ELSE "name", i)] = value]

\* The step's HTTP call.  on_error is about answers of 400 and above; no answer
\* at all fails the step whatever it says.
Request ==
    /\ pc = "request"
    /\ sent' = sent \cup {<<i, 0>>}
    /\ \/ pc' = "record" /\ Store("value") /\ UNCHANGED <<code, skipped>>
       \/ /\ Current.onError = "skip"
          /\ pc' = "record" /\ Store("null")
          /\ skipped' = skipped \cup {i}
          /\ UNCHANGED code
       \/ /\ Current.onError = "retry"
          /\ pc' = "retry"
          /\ UNCHANGED <<context, code, skipped>>
       \/ /\ pc' = "record" /\ code' = "stepFailed"
          /\ UNCHANGED <<context, skipped>>
    /\ UNCHANGED <<flow, i, loop, result, trace>>

Retry ==
    /\ pc = "retry"
    /\ pc' = "record"
    /\ \/ Store("value") /\ UNCHANGED code
       \/ code' = "stepFailed" /\ UNCHANGED context
    /\ UNCHANGED <<flow, i, loop, result, trace, sent, skipped>>

\* Seeded fault: only a step that succeeds leaves a span.
RecordsSuccess(iteration) ==
    spans' = IF code = "ok" THEN Append(spans, Span(i, iteration)) ELSE spans

\* The `finally` of a step: add_span inserts a row and returns it with its id,
\* but finish_span is given the span built before, whose id is 0, and its
\* UPDATE finds no row.
Record(iteration) == spans' = Append(spans, Span(i, iteration))

\* Seeded fault: the result is read under the step's name only.
ReadsByName == LET r == Root("name", Length) IN
    IF context[r] = "value" THEN [step |-> Length, rows |-> <<1>>] ELSE Empty

\* _build_result_from_context reads what the flow's last step is bound to.
BuildResult ==
    LET r == Root(IF flow.steps[Length].key THEN "key" ELSE "name", Length)
    IN  IF context[r] = "value" THEN [step |-> Length, rows |-> <<1>>] ELSE Empty

\* The step is over: the next one, or finish_execution.
Advance == i' = i + 1 /\ pc' = IF i = FinalStep THEN "finish" ELSE "step"

\* What the last step is bound to may have rows that are not objects, which
\* _infer_columns or StructuredResult refuses.
EndStep ==
    /\ pc = "record"
    /\ Record(0)
    /\ \/ code = "ok" /\ Advance /\ result' = BuildResult /\ UNCHANGED code
       \/ code = "ok" /\ BuildResult # Empty /\ Fail("badRows") /\ UNCHANGED <<i, result>>
       \/ code # "ok" /\ pc' = "finish" /\ UNCHANGED <<i, result, code>>
    /\ UNCHANGED <<flow, loop, context, execution, sent, skipped>>

-----------------------------------------------------------------------------
(* _foreach_loop, of a step or of the legacy top-level foreach.            *)

BeginForeach ==
    /\ pc = "step" /\ Current.over # NoRef
    /\ \/ /\ context[Current.over] = "value"
          /\ n' \in 0 .. MaxItems
          /\ k' = 1 /\ gathered' = <<>> /\ columns' = "none"
          /\ \/ n' # 0 /\ pc' = "iterate" /\ UNCHANGED <<i, result>>
             \/ n' = 0 /\ Advance /\ result' = [step |-> i, rows |-> <<>>]
          /\ UNCHANGED code
       \/ /\ Known(Current.over, context) /\ Fail("notAList")
          /\ UNCHANGED <<i, loop, result>>
       \/ /\ Fail(Why(Current.over, context))
          /\ UNCHANGED <<i, loop, result>>
    /\ UNCHANGED <<flow, context, trace, sent, skipped>>

\* The iteration's context adds the loop variable.
BeginIteration ==
    /\ pc = "iterate"
    /\ LET bound == [context EXCEPT ![Current.as] = "value"] IN
       \/ Known(Current.ref, bound) /\ pc' = "iterRequest" /\ UNCHANGED code
       \/ Fail(Why(Current.ref, bound))
    /\ UNCHANGED <<flow, i, loop, context, result, trace, sent, skipped>>

\* Seeded fault: each iteration's rows replace the ones before.
GathersLast == gathered' = <<k>>

Gather == gathered' = Append(gathered, k)

\* The iteration's HTTP call, on_error unheeded: rows with some column set,
\* which in merge mode must be that of the first iteration, or a failure.
IterationRequest ==
    /\ pc = "iterRequest"
    /\ pc' = "iterRecord"
    /\ sent' = sent \cup {<<i, k>>}
    /\ \/ \E cols \in Columns :
            \/ /\ Current.mode = "separate" \/ k = 1 \/ cols = columns
               /\ columns' = IF k = 1 THEN cols ELSE columns
               /\ Gather
               /\ UNCHANGED code
            \/ /\ Current.mode = "merge" /\ k # 1 /\ cols # columns
               /\ code' = "schema"
               /\ UNCHANGED <<columns, gathered>>
       \/ code' = "stepFailed" /\ UNCHANGED <<columns, gathered>>
    /\ UNCHANGED <<flow, i, k, n, context, result, trace, skipped>>

\* After the last iteration, merge returns every row, separate the last result.
EndIteration ==
    /\ pc = "iterRecord"
    /\ Record(k)
    /\ \/ /\ code = "ok" /\ k < n
          /\ k' = k + 1 /\ pc' = "iterate"
          /\ UNCHANGED <<i, result>>
       \/ /\ code = "ok" /\ k = n
          /\ Advance
          /\ result' = [step |-> i, rows |-> IF Current.mode = "merge" THEN gathered
                                             ELSE <<gathered[Len(gathered)]>>]
          /\ UNCHANGED k
       \/ /\ code # "ok"
          /\ pc' = "finish"
          /\ UNCHANGED <<i, k, result>>
    /\ UNCHANGED <<flow, n, context, gathered, columns, code, execution, sent, skipped>>

-----------------------------------------------------------------------------

\* Seeded fault: every execution is finished as ok.
FinishesOk ==
    /\ pc = "finish"
    /\ pc' = "done"
    /\ execution' = [status |-> "ok", finished |-> TRUE]
    /\ UNCHANGED <<flow, i, loop, context, result, code, spans, sent, skipped>>

\* finish_execution with the outcome; the root span is not finished at all.
Finish ==
    /\ pc = "finish"
    /\ pc' = "done"
    /\ execution' = [status |-> IF code = "ok" THEN "ok" ELSE "error", finished |-> TRUE]
    /\ UNCHANGED <<flow, i, loop, context, result, code, spans, sent, skipped>>

\* CancelledError is no Exception: the step's `finally` may still add its span,
\* but the execution is left as it is.
Cancel ==
    /\ MayCancel
    /\ pc \in {"request", "retry", "record", "iterRequest", "iterRecord"}
    /\ pc' = "done" /\ code' = "cancelled"
    /\ LET iteration == IF pc \in {"iterRequest", "iterRecord"} THEN k ELSE 0 IN
       /\ sent' = sent \cup {<<i, iteration>>}
       /\ UNCHANGED spans \/ Record(iteration)
    /\ UNCHANGED <<flow, i, loop, context, result, execution, skipped>>

Next ==
    \/ Load \/ Start \/ BeginStep \/ Request \/ Retry \/ EndStep
    \/ BeginForeach \/ BeginIteration \/ IterationRequest \/ EndIteration
    \/ Finish \/ Cancel

Spec == Init /\ [][Next]_vars

-----------------------------------------------------------------------------
(* Properties                                                              *)

TypeOK ==
    /\ pc \in Steps /\ code \in Codes
    /\ i \in 1 .. FinalStep + 1
    /\ k \in 0 .. MaxItems /\ n \in 0 .. MaxItems
    /\ context \in [Roots(Length) -> {"unbound", "null", "value"}]
    /\ gathered \in Seq(1 .. MaxItems) /\ columns \in Columns
    /\ result.step \in 0 .. FinalStep /\ result.rows \in Seq(1 .. MaxItems)
    /\ execution \in [status : {"none", "ok", "error"}, finished : BOOLEAN]
    /\ \A s \in ToSet(spans) : s.step \in 0 .. FinalStep /\ s.iteration \in 0 .. MaxItems
    /\ skipped \subseteq DOMAIN flow.steps

\* The root a linear step's response can be referred to by.
StoredUnder(f, s) ==
    Root(IF f.steps[s].key /\ ~f.steps[s].output THEN "key" ELSE "name", s)

\* The reference for validation: what has been bound when a step is reached,
\* every earlier linear step having succeeded.
BoundBefore(f, s) ==
    {NoRef} \cup {StoredUnder(f, e) : e \in {e \in DOMAIN f.steps : e < s /\ f.steps[e].over = NoRef}}

StaticallyBound(f) ==
    LET all == f.steps \o f.tail IN
    \A s \in DOMAIN all :
        /\ all[s].over \in BoundBefore(f, s)
        /\ all[s].ref \in BoundBefore(f, s) \cup (IF all[s].over = NoRef THEN {} ELSE {all[s].as})

\* A flow each of whose references is to an earlier linear step, by the name
\* that step stores under, never meets an unbound name while it runs, through
\* foreach, skipped and retried steps (engine.py:156-163, 327-356).
BoundFlowsRun == StaticallyBound(flow) => code # "unbound"

Answered == pc = "done" /\ code = "ok"

LastStep == (flow.steps \o flow.tail)[FinalStep]

\* The answer is that of the flow's last step, unless that was skipped: never
\* an earlier step's rows, and never empty because the response was stored
\* under one name and looked for under another, as it is when the step
\* declares both `output` and `output_key` (engine.py:528-550).
ResultOfLastStep ==
    Answered /\ ~(LastStep.output /\ LastStep.key) =>
        result.step = FinalStep \/ FinalStep \in skipped

\* A merging foreach that ends the flow gives back the rows of all its
\* iterations, in order, however many there are (engine.py:389-424, 456-460).
EveryIterationReturned ==
    Answered /\ result.step = FinalStep /\ LastStep.over # NoRef /\ LastStep.mode = "merge"
        => result.rows = [j \in 1 .. n |-> j]

\* The execution of a run that was not cancelled is finished, with status ok
\* just when rows were returned (engine.py:134-142).
ExecutionTellsOutcome ==
    pc = "done" /\ code # "cancelled" =>
        execution = [status |-> IF code = "ok" THEN "ok" ELSE "error", finished |-> TRUE]

Sites == [s \in DOMAIN spans |-> <<spans[s].step, spans[s].iteration>>]

\* Every request that was sent, the failing one included, has left one span,
\* and no other step has (engine.py:260-263, 440-443).
SpansCoverRequests ==
    pc = "done" /\ code # "cancelled" =>
        IsInjective(Sites) /\ ToSet(Sites) = sent \cup {<<0, 0>>}

\* What a run leaves behind, with its types: the execution tells how it ended,
\* the spans what was sent.
TraceTellsRun == TypeOK /\ ExecutionTellsOutcome /\ SpansCoverRequests

-----------------------------------------------------------------------------
(* Departures: what a document says and the code does not keep.  No run checks *)
(* them; TLC refutes each in the instance of this module's run.                *)

\* orchestration.md:200: "Every failure is recorded as a span with status
\* error".
FailuresAreSpans ==
    pc = "done" /\ code = "stepFailed" => \E s \in ToSet(spans) : s.status = "error"
=============================================================================
