-------------------------- MODULE MCOrchestration --------------------------
(* Small instances of Orchestration for TLC: families of flows. *)
EXTENDS Orchestration

\* A first step that may store its response in every way and fail in every way.
First == {[ref |-> r, over |-> NoRef, as |-> Item, mode |-> "merge",
           onError |-> e, output |-> o, key |-> y] :
            r \in {NoRef}, e \in {"fail", "skip", "retry"}, o \in BOOLEAN, y \in BOOLEAN}

\* Steps that refer to the names `refs` and iterate over the names `overs`.
StepsOver(refs, overs, variables, modes, errors, keys) ==
    {[ref |-> r, over |-> v, as |-> a, mode |-> m, onError |-> e, output |-> o, key |-> y] :
        r \in refs, v \in overs, a \in variables, m \in modes, e \in errors,
        o \in BOOLEAN, y \in keys}

FirstRoots == {NoRef, Root("name", 1), Root("key", 1)}

\* Two steps, the second linear or a merging foreach.
LinearAndMerge ==
    {[steps |-> <<a, b>>, tail |-> <<>>] :
        a \in First,
        b \in StepsOver(FirstRoots \cup {Item}, FirstRoots, {Item, LoopVar},
                      {"merge"}, {"fail", "skip"}, BOOLEAN)}

\* One step and a legacy foreach; and a foreach between two linear steps.
Legacy ==
    {[steps |-> <<a>>, tail |-> <<b>>] :
        a \in First,
        b \in StepsOver(FirstRoots \cup {Item, LoopVar}, {Root("name", 1), Root("key", 1)},
                      {Item, LoopVar}, {"merge"}, {"fail"}, {FALSE})}

Sandwich ==
    {[steps |-> <<a, b, c>>, tail |-> <<>>] :
        a \in {s \in First : s.onError # "retry" /\ ~s.output},
        b \in StepsOver({NoRef, Item}, {Root("name", 1)}, {Item}, {"merge"}, {"fail"}, {FALSE}),
        c \in StepsOver({Root("name", 1), Root("name", 2), Root("key", 1)}, {NoRef}, {Item},
                      {"merge"}, {"retry"}, {FALSE})}

\* One step and a legacy foreach in separate mode.
Separate ==
    {[steps |-> <<a>>, tail |-> <<b>>] :
        a \in First,
        b \in StepsOver({Item}, {Root("name", 1)}, {Item}, {"separate"}, {"fail"}, {FALSE})}

Mixed == LinearAndMerge \cup Legacy \cup Sandwich \cup Separate
=============================================================================
