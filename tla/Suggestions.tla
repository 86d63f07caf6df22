---------------------------- MODULE Suggestions -----------------------------
(***************************************************************************)
(* GET /explore/suggestions (web/routes/explore.py): questions about the   *)
(* selected sources, by the LLM when it is configured and gives at least   *)
(* three, by templates over the schemas otherwise.  Sources may fail in    *)
(* one of the two passes over them and answer in the other.                *)
(***************************************************************************)
EXTENDS Naturals, Sequences, SequencesExt, FiniteSets

CONSTANTS
    Ids,      \* sources, in the order in which the request names them
    Schemas,  \* what schema_info may answer: sequences of tables
    Stop,     \* 15: tables are left out once there are so many questions
    Cut,      \* 10: questions the templates return at most
    Answers,  \* 5: questions the endpoint returns at most
    LlmMost   \* the LLM is taken to give this many questions at most

\* A table: its name and its columns.
SuggestionsAssumption ==
    /\ Ids \in Seq(STRING)
    /\ \A s \in Schemas : \A k \in DOMAIN s : s[k].columns \in Seq(STRING)
    /\ Stop \in Nat /\ Cut \in Nat /\ Answers \in Nat /\ LlmMost \in Nat

VARIABLES
    schema,     \* per position in Ids: its source's schema
    configured, \* there is an [llm] section
    pc,         \* llm, complete, template or answered
    next,       \* position of the source to be asked next
    collected,  \* the LLM is shown the schema of some source
    questions,  \* list of questions so far
    from,       \* history: "llm" or "template", where the answer comes from
    failed      \* history: positions whose source failed in the template pass

vars == <<schema, configured, pc, next, collected, questions, from, failed>>

Init ==
    /\ schema \in [1 .. Len(Ids) -> Schemas]
    /\ configured \in BOOLEAN
    /\ pc = IF configured THEN "llm" ELSE "template"
    /\ next = 1 /\ collected = FALSE /\ questions = <<>>
    /\ from = "nobody" /\ failed = {}

Prefix(s, n) == SubSeq(s, 1, IF Len(s) < n THEN Len(s) ELSE n)

-----------------------------------------------------------------------------
(* The LLM.                                                                *)

ToTemplates ==
    /\ pc' = "template" /\ next' = 1 /\ questions' = <<>>
    /\ UNCHANGED <<from, collected>>

\* A source's schema is collected, or skipped when the source fails.
Collect ==
    /\ pc = "llm" /\ next <= Len(Ids)
    /\ next' = next + 1
    /\ collected' \in {collected, TRUE}
    /\ UNCHANGED <<schema, configured, pc, questions, from, failed>>

\* No schema at all gives no questions; else the LLM is called.
Ask ==
    /\ pc = "llm" /\ next > Len(Ids)
    /\ IF collected
       THEN pc' = "complete" /\ UNCHANGED <<next, questions, from, collected>>
       ELSE ToTemplates
    /\ UNCHANGED <<schema, configured, failed>>

\* The LLM gives n questions; none stands for every failure: a timeout, an API
\* error, a reply that is not JSON or has no list of questions.
Complete(n) ==
    /\ pc = "complete"
    /\ IF n >= 3
       THEN /\ pc' = "answered" /\ from' = "llm"
            /\ questions' = Prefix([k \in 1 .. n |-> <<"llm", k>>], Answers)
            /\ UNCHANGED <<next, collected>>
       ELSE ToTemplates
    /\ UNCHANGED <<schema, configured, failed>>

-----------------------------------------------------------------------------
(* The templates.                                                          *)

\* Seeded fault: a question is added whether or not it has been asked.
AddAgain(s, q) == Append(s, q)

\* `if q not in seen`
Add(s, q) == IF Contains(s, q) THEN s ELSE Append(s, q)

\* Three kinds of question about a table, the last for its first three columns.
About(t) ==
    <<<<"all", t.name>>, <<"count", t.name>>>> \o
    [k \in 1 .. Len(Prefix(t.columns, 3)) |-> <<"distinct", t.name, t.columns[k]>>]

\* A table is passed over once there are enough questions.
AddTable(s, t) == IF Len(s) >= Stop THEN s ELSE FoldLeft(Add, s, About(t))

AddSchema(s, tables) == FoldLeft(AddTable, s, tables)

\* The table a question is about is the last word of the first one.
Generic(s) == <<<<"first rows", s[1][2]>>, <<"tables">>, <<"schema">>>>

\* Seeded fault: nothing is added when there are few questions.
PadNothing(s) == s

\* Padding up to three, unless there is nothing at all.
Pad(s) ==
    IF s = <<>> THEN s
    ELSE FoldLeft(LAMBDA r, g : IF Len(r) < 3 THEN Add(r, g) ELSE r, s, Generic(s))

\* The next source is asked, or skipped when it fails.
Template ==
    /\ pc = "template" /\ next <= Len(Ids) /\ Len(questions) < Stop
    /\ next' = next + 1
    /\ \/ questions' = AddSchema(questions, schema[next]) /\ UNCHANGED failed
       \/ failed' = failed \cup {next} /\ UNCHANGED questions
    /\ UNCHANGED <<schema, configured, pc, from, collected>>

Answer ==
    /\ pc = "template"
    /\ next > Len(Ids) \/ Len(questions) >= Stop
    /\ pc' = "answered" /\ from' = "template"
    /\ questions' = Prefix(Prefix(Pad(questions), Cut), Answers)
    /\ UNCHANGED <<schema, configured, next, collected, failed>>

Next == Collect \/ Ask \/ (\E n \in 0 .. LlmMost : Complete(n)) \/ Template \/ Answer

Spec == Init /\ [][Next]_vars

-----------------------------------------------------------------------------
(* Properties                                                              *)

Answered == pc = "answered"

TablesRead == \E k \in DOMAIN schema \ failed : k < next /\ schema[k] # <<>>

\* "Guarantee at least 3 suggestions when tables exist" (explore.py:559): so
\* many are returned when the LLM or a source's schema could be read, whatever
\* fails before, and never more than five.
ThreeToFive ==
    Answered =>
        /\ Len(questions) <= Answers
        /\ from = "llm" \/ TablesRead => Len(questions) >= 3

\* The templates' answer repeats nothing, also when two sources have tables of
\* the same name, and asks only about tables whose schema could be read.
AboutTablesRead ==
    Answered /\ from = "template" =>
        /\ IsInjective(questions)
        /\ \A k \in DOMAIN questions : Len(questions[k]) >= 2 =>
             \E i \in DOMAIN schema \ failed : \E t \in Range(schema[i]) : t.name = questions[k][2]

TypeOK ==
    /\ pc \in {"llm", "complete", "template", "answered"}
    /\ next \in 1 .. Len(Ids) + 1
    /\ Answered <=> from # "nobody"
    /\ collected => configured
    /\ pc = "llm" => questions = <<>>
    /\ Len(questions) < Stop + 5
    /\ failed \subseteq 1 .. next - 1
=============================================================================
