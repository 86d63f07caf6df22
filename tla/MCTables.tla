------------------------------ MODULE MCTables -------------------------------
(***************************************************************************)
(* Small instances for TLC of the two APIs over the SQLite connection: a   *)
(* behaviour is one of AuditTrail, or one of SavedQueries with the same    *)
(* requests.  What either sees of the other is OthersCommit.               *)
(***************************************************************************)
EXTENDS AuditTrail, TLC

CONSTANTS q1, q2, q3, r1, n1, n2, t1, t2

ThreeQueries == {q1, q2, q3}
OneReader    == {r1}
TwoNames     == {n1, n2}
TwoTexts     == {t1, t2}
Symmetry     == Permutations(ThreeQueries) \cup Permutations(TwoNames) \cup Permutations(TwoTexts)

CONSTANTS Names, Texts \* of SavedQueries

VARIABLES
    api,                               \* "query" or "saved"
    op, target, patch, listed, applied \* of SavedQueries

Saved == INSTANCE SavedQueries WITH Requests <- Queries

ASSUME TablesAssumption == Saved!SavedAssumption

\* The variables of the other API have no value.
Unused == "unused"

savedOnly == <<op, target, patch, listed, applied>>
auditOnly == <<outcome, reads>>

MCInit ==
    \/ /\ api = "query" /\ Init
       /\ op = Unused /\ target = Unused /\ patch = Unused /\ listed = Unused /\ applied = Unused
    \/ /\ api = "saved" /\ Saved!Init
       /\ outcome = Unused /\ reader = Unused /\ seen = Unused /\ due = Unused

MCNext ==
    \/ api = "query" /\ Next /\ UNCHANGED <<api, savedOnly>>
    \/ api = "saved" /\ Saved!Next /\ UNCHANGED <<api, auditOnly>>

MCSpec == MCInit /\ [][MCNext]_<<vars, api, savedOnly>>

\* AuditTrail's AnswerIsOnRecord and AnsweredIsListed, with its type invariant:
\* what POST /query answered is what the trace and the history say on disk, and
\* what GET /history lists.
QueriesOnRecord == api = "query" => TypeOK /\ AnswerIsOnRecord /\ AnsweredIsListed

\* SavedQueries!AnswersAreDurable with its type invariant: what was answered to a
\* create or a delete of a saved query holds on disk.
AnswersAreDurable == api = "saved" => Saved!TypeOK /\ Saved!AnswersAreDurable

\* SavedQueries!NoLostUpdate: updates of different fields do not undo each other.
NoLostUpdate == api = "saved" => Saved!NoLostUpdate
=============================================================================
