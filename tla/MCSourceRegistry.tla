-------------------------- MODULE MCSourceRegistry --------------------------
(***************************************************************************)
(* Small instances for TLC of what config.toml drives: the registry of     *)
(* sources, SourceRegistry, and the editing of the file itself, ConfigFile. *)
(***************************************************************************)
EXTENDS SourceRegistry, TLC

CONSTANTS s1, s2, accented, emoji, sql, http, t1, t2, q1

TwoIds  == {s1, s2}
TwoClasses == {sql, http}
AuthHttp == {http}
TwoRefreshers == {t1, t2}
OneQuerier == {q1}
Symmetry == Permutations(TwoRefreshers)

\* config.toml at start-up
OneSource  == <<[id |-> s1, cls |-> sql, rev |-> 0]>>

-----------------------------------------------------------------------------
(* The text of config.toml, of which file, op and ops are the lines, what was  *)
(* done last, and the requests and edits so far.                               *)

CONSTANTS Types, Decoded, Captured, HandFiles, NewSources, MaxFaults \* of ConfigFile

VARIABLES writing, before, doing, up, served, faults

File == INSTANCE ConfigFile

ASSUME FileAssumption == File!ConfigAssumption

\* An id with letters that are written as escapes, and one with characters whose
\* escapes TOML refuses.
FourIds == {s1, s2, accented, emoji}
Dumps  == [id \in Ids |-> IF id = emoji THEN "" ELSE id]
Scans  == [id \in Ids |-> IF id \in {s1, s2} THEN id ELSE "garbled"]

SomeTypes == {"http"}
SomeSources == {s \in {
    [id |-> s1, type |-> "http", complete |-> TRUE],
    [id |-> accented, type |-> "http", complete |-> FALSE],
    [id |-> emoji, type |-> "", complete |-> FALSE] } : s.id \in Ids}

Text(kind)   == [kind |-> kind, value |-> "", raw |-> "unseen"]
Type         == [kind |-> "type", value |-> "http", raw |-> "unseen"]
Id(id, raw)  == [kind |-> "id", value |-> id, raw |-> raw]
SourceLines(line)  == <<Text("[[sources]]"), line, Type, Text("fields")>>
Lines(id)    == SourceLines(Id(id, id))
Literal(id)  == SourceLines(Id(id, "unseen")) \* in single quotes
StepLines    == <<Text("[sources.steps]"), Id(s2, s2)>>
Server       == <<Text("[server]"), Text("key")>>
Note         == <<Text("comment")>>
Blank        == <<Text("blank")>>

\* No source; sources around another section, one with a step, one id three times,
\* and one of these in single quotes.
PlainFiles == {
    Note \o Server \o Blank,
    Lines(s1) \o StepLines \o Blank \o Server \o Literal(s1) \o Lines(s2) \o Blank \o Lines(s1) }

\* HandFiles for the departures KeepsOtherSources and KeepsComments.
NotedHeader == { Lines(s1) \o Blank \o <<Text("noted")>> \o Tail(Lines(s2)) }
NotedBlock  == { Lines(s1) \o Blank \o Note \o Lines(s2) }

\* HandFiles with which the editor takes a source for another: FileInv is refuted.
LiteralAboveStep == { Literal(s1) \o StepLines }

-----------------------------------------------------------------------------
(* The variables of the other have no value.                                   *)

Unused == "unused"

text     == <<writing, before, doing, up, served, faults>>
registry ==
    <<phase, config, live, managers, pc, todo, built, stale, overlap, query>>

NoText ==
    /\ writing = Unused /\ before = Unused /\ doing = Unused
    /\ up = Unused /\ served = Unused /\ faults = Unused

NoRegistry ==
    /\ phase = Unused /\ config = Unused /\ registered = Unused /\ connected = Unused
    /\ draining = Unused /\ managers = Unused /\ pc = Unused /\ todo = Unused
    /\ built = Unused /\ stale = Unused /\ overlap = Unused /\ query = Unused

RegistryInit == Init /\ NoText
RegistrySpec == RegistryInit /\ [][Next /\ UNCHANGED text]_<<vars, text>>

FileInit == File!Init /\ NoRegistry
FileSpec == FileInit /\ [][File!Next /\ UNCHANGED registry]_<<vars, text>>

-----------------------------------------------------------------------------
\* ConfigFile's BlocksAreSources, with its type invariant: the blocks that the
\* editor finds are the sources that TOML reads.
FileInv == File!FileInv

\* ConfigFile's KeepsOtherSections.
KeepsOtherSections == File!KeepsOtherSections

\* ConfigFile's ImplementsSourceList, the refinement of SourceList.
ImplementsSourceList == File!ImplementsSourceList
=============================================================================
