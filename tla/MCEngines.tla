----------------------------- MODULE MCEngines ------------------------------
(***************************************************************************)
(* Small instances for TLC of what runs SQL over several sources: the two  *)
(* endpoints of web/routes/explore.py, where a behaviour is one of Explore *)
(* or one of Suggestions, and the queries of the shared engine, Federation. *)
(***************************************************************************)
EXTENDS Explore, TLC

CONSTANTS db, api, web, e1, e2, q1, q2

Db  == {db}
Api == {api, web}
TwoRequests == {e1, e2}
TwoQueries  == {q1, q2}
RequestSymmetry == Permutations(TwoRequests)
QuerySymmetry   == Permutations(TwoQueries)

Selected == {<<db>>, <<db, api>>}

\* A text that has SQL, as the scan sees it, and whether running it writes.
Sql(refs, opens, keyword, writes) ==
    [class |-> "sql", opens |-> opens, keyword |-> keyword, writes |-> writes, refs |-> refs]

Plain(class) ==
    [class |-> class, opens |-> FALSE, keyword |-> FALSE, writes |-> FALSE, refs |-> {}]

\* A query; a query and a COPY behind it; a SELECT of "update"; VACUUM.
SomeReplies ==
    {Sql({db, api, web}, TRUE, FALSE, FALSE), Sql({api}, TRUE, FALSE, TRUE),
     Sql({db}, TRUE, TRUE, FALSE), Sql({}, FALSE, FALSE, TRUE)}
    \cup {Plain(class) : class \in {"blank", "array", "text"}}

-----------------------------------------------------------------------------
(* Suggestions about three sources, with limits in the proportion of the       *)
(* code's 15, 10 and 5.                                                        *)

Table(name, columns) == [name |-> name, columns |-> columns]
Narrow == Table("t", <<>>)
Wide   == Table("t", <<"a", "b", "c", "d">>)
Other  == Table("u", <<"a", "a">>)
Bare   == Table("v", <<>>)

VARIABLES
    endpoint,                                                    \* explore, suggestions or query
    schema, configured, next, collected, questions, from, failed \* of Suggestions

Suggest == INSTANCE Suggestions WITH
    Ids <- <<"s1", "s2", "s3">>,
    Schemas <- {<<>>, <<Narrow>>, <<Wide>>, <<Other, Bare>>, <<Wide, Other, Narrow>>},
    Stop <- 8, Cut <- 6, Answers <- 5, LlmMost <- 6

ASSUME Suggest!SuggestionsAssumption

-----------------------------------------------------------------------------
(* Queries of Federation, joins of an attached with a fetched table and of two *)
(* fetched tables.                                                             *)

Joins ==
    {{<<db, "t">>, <<api, "t">>}, {<<db, "t">>, <<web, "t">>},
     {<<api, "t">>, <<api, "u">>}, {<<api, "t">>, <<web, "t">>}}

CONSTANTS Queries, Statements, Editable, Removable, MaxQueries \* of Federation

VARIABLES
    up, attached, view, number, statement, sqlRefs, current, instance, answer, alone, queries

Fed == INSTANCE Federation

ASSUME QueriesAreConfigured == Fed!FederationAssumption

-----------------------------------------------------------------------------
(* The variables of the others have no value.                                  *)

Unused == "unused"

streams     == <<source, selected, todo, described, reply, target, read, events, engine, during, edits>>
suggestions == <<schema, configured, next, collected, questions, from, failed>>
federation  ==
    <<up, attached, view, number, statement, sqlRefs, current, instance, answer, alone, queries>>

NoFederation ==
    /\ up = Unused /\ attached = Unused /\ view = Unused /\ number = Unused
    /\ statement = Unused /\ sqlRefs = Unused /\ current = Unused /\ instance = Unused
    /\ answer = Unused /\ alone = Unused /\ queries = Unused

NoSuggestions ==
    /\ schema = Unused /\ configured = Unused /\ next = Unused /\ collected = Unused
    /\ questions = Unused /\ from = Unused /\ failed = Unused

NoStreams ==
    /\ selected = Unused /\ described = Unused /\ reply = Unused /\ target = Unused
    /\ read = Unused /\ events = Unused /\ engine = Unused

MCInit ==
    \/ endpoint = "explore" /\ Init /\ NoSuggestions /\ NoFederation
    \/ /\ endpoint = "suggestions" /\ Suggest!Init /\ NoStreams /\ NoFederation
       /\ source = Unused /\ todo = Unused /\ during = Unused /\ edits = Unused

MCNext ==
    /\ \/ endpoint = "explore" /\ Next /\ UNCHANGED suggestions
       \/ endpoint = "suggestions" /\ Suggest!Next /\ UNCHANGED streams
    /\ UNCHANGED <<endpoint, federation>>

MCSpec == MCInit /\ [][MCNext]_<<vars, endpoint, suggestions, federation>>

QueryInit == endpoint = "query" /\ Fed!Init /\ NoStreams /\ NoSuggestions

QueryNext ==
    /\ Fed!Next
    /\ UNCHANGED <<endpoint, selected, described, reply, target, read, events, engine, suggestions>>

QuerySpec == QueryInit /\ [][QueryNext]_<<vars, endpoint, suggestions, federation>>

-----------------------------------------------------------------------------
\* Explore's EventsInOrder and OnlyScannedRuns, with its type invariant: the
\* pipeline is passed step by step, and past its scan is only what passes it.
StreamsInOrder == endpoint = "explore" => TypeOK /\ EventsInOrder /\ OnlyScannedRuns

\* Explore's EnginesReleased.
EveryEngineReleased == endpoint = "explore" => EnginesReleased

\* Explore's AnswerIsCurrent.
EveryAnswerCurrent == endpoint = "explore" => AnswerIsCurrent

\* Suggestions' ThreeToFive and AboutTablesRead, with its type invariant.
SuggestionsAsPromised ==
    endpoint = "suggestions" => Suggest!TypeOK /\ Suggest!ThreeToFive /\ Suggest!AboutTablesRead

\* Federation's OwnFetch, with its type invariant.
FederationInv == Fed!FederationInv

\* Federation's FetchedRowsAreCurrent.
FetchedRowsAreCurrent == Fed!FetchedRowsAreCurrent
=============================================================================
