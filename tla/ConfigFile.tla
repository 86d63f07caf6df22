----------------------------- MODULE ConfigFile -----------------------------
(***************************************************************************)
(* The editing of config.toml (config.py, web/routes/config.py).  Requests *)
(* find [[sources]] blocks by scanning lines, put lines in and take lines  *)
(* out, truncate the file and write it, and have it loaded; tomllib reads  *)
(* the same lines as TOML.  A write may fail or be cut short by a crash,   *)
(* and a person may edit the file.                                         *)
(*                                                                         *)
(* A line is a kind, the value that TOML reads of it, and the raw text that *)
(* the scan for id lines takes from it: what stands between double quotes, *)
(* up to the first quote, with no escape undone.  A source is its id, the  *)
(* raw text of its id line, its type, and whether the fields its type      *)
(* requires are there.                                                     *)
(***************************************************************************)
EXTENDS Naturals, Sequences, FiniteSets, FiniteSetsExt

CONSTANTS
    Ids,       \* ids of sources
    Types,     \* types of sources; NoValue for an empty string
    Decoded,   \* what TOML reads of the text that json.dumps writes for an id
    Captured,  \* what the scan takes from that text
    HandFiles, \* what a person may write into the file
    NewSources, \* what requests may describe
    MaxOps,    \* bound on the requests and edits
    MaxFaults  \* bound on the writes that fail and the crashes

NoValue == ""
Unseen  == "unseen"  \* no double-quoted id is on the line
Garbled == "garbled" \* text that is no id

\* "noted" is a header that a comment follows on its line.
Kinds == {"[[sources]]", "noted", "[sources.steps]", "[server]", "id", "type", "fields", "key",
          "comment", "blank"}
Line ==
    [kind : {"id"}, value : Ids \cup {NoValue}, raw : Ids \cup {NoValue, Garbled, Unseen}] \cup
    [kind : {"type"}, value : Types \cup {NoValue}, raw : {Unseen}] \cup
    [kind : Kinds \ {"id", "type"}, value : {NoValue}, raw : {Unseen}]

Source == [id : Ids \cup {NoValue}, raw : Ids \cup {NoValue, Garbled, Unseen},
           type : Types \cup {NoValue}, complete : BOOLEAN]

\* The source of a request.
Description == [id : Ids, type : Types \cup {NoValue}, complete : BOOLEAN]

ConfigAssumption ==
    /\ NoValue \notin Ids /\ Unseen \notin Ids /\ Garbled \notin Ids
    \* json.dumps writes characters beyond U+FFFF as two escapes, which TOML
    \* refuses: such a file does not load.
    /\ Decoded \in [Ids -> Ids \cup {NoValue}] /\ \A id \in Ids : Decoded[id] \in {id, NoValue}
    /\ Captured \in [Ids -> Ids \cup {Garbled}]
    /\ HandFiles \subseteq Seq(Line)
    /\ NewSources \subseteq Description
    /\ MaxOps \in Nat /\ MaxFaults \in Nat

VARIABLES
    file,    \* the lines of config.toml
    writing, \* the lines that are being written, after the file was truncated
    before,  \* the lines at the last time that nothing was being written
    doing,   \* the request that is being written
    op,      \* what was done last
    up,      \* the process runs
    served,  \* the sources of the registry
    ops, faults

vars == <<file, writing, before, doing, op, up, served, ops, faults>>

NotWriting == <<[kind |-> "not writing"]>>

-----------------------------------------------------------------------------
(* The lines of a source block, as config.py finds and makes them.         *)

\* _section_path: a header, unless something follows it on its line.
HasPath(line) == line.kind \in {"[[sources]]", "[sources.steps]", "[server]"}

\* Seeded fault: any other section is taken for a part of the source.
EndsAtSourcesOnly(line) == line.kind = "[[sources]]"

\* _ends_source_block
EndsBlock(line) == line.kind \in {"[[sources]]", "[server]"}

Starts(lines) == {i \in DOMAIN lines : HasPath(lines[i]) /\ lines[i].kind = "[[sources]]"}

\* The line past the block that starts at i.
End(lines, i) ==
    Min({j \in i + 1 .. Len(lines) : HasPath(lines[j]) /\ EndsBlock(lines[j])} \cup {Len(lines) + 1})

\* The lines of the block at i that _ID_LINE_RE matches, in whichever table of it.
IdLines(lines, i) == {j \in i + 1 .. End(lines, i) - 1 : lines[j].raw # Unseen}

\* Seeded fault: an id line further down replaces the first.
BlockIdLast(lines, i) ==
    IF IdLines(lines, i) = {} THEN Unseen ELSE lines[Max(IdLines(lines, i))].raw

\* The raw text of the first of them.
BlockId(lines, i) ==
    IF IdLines(lines, i) = {} THEN Unseen ELSE lines[Min(IdLines(lines, i))].raw

\* The blocks that have an id: `next((b for b in blocks if b["id"] == source_id), None)`
Targets(lines, id) == {i \in Starts(lines) : BlockId(lines, i) = id}

L(kind)     == [kind |-> kind, value |-> NoValue, raw |-> Unseen]
KV(kind, v) == [kind |-> kind, value |-> v, raw |-> Unseen]

\* The id in double quotes, with the escapes of json.dumps.
IdLine(id)  == [kind |-> "id", value |-> Decoded[id], raw |-> Captured[id]]

\* _format_source_block: fields that are None are left out.
Format(s) ==
    <<L("blank"), L("[[sources]]"), IdLine(s.id), KV("type", s.type)>>
        \o IF s.complete THEN <<L("fields")>> ELSE <<>>

LastNonBlank(lines) == Max({j \in DOMAIN lines : lines[j].kind # "blank"} \cup {0})

NewBlockAt(lines) ==
    IF Starts(lines) # {} THEN End(lines, Max(Starts(lines))) ELSE LastNonBlank(lines) + 1

Cut(lines, from, to) == SubSeq(lines, 1, from - 1) \o SubSeq(lines, to, Len(lines))

\* write_source_to_config
Written(lines, s) ==
    LET at == NewBlockAt(lines)
    IN  SubSeq(lines, 1, at - 1) \o Format(s) \o SubSeq(lines, at, Len(lines))

\* Seeded fault: the last block of the id is replaced.
UpdatedLast(lines, s) ==
    LET at == Max(Targets(lines, s.id))
    IN  SubSeq(lines, 1, at - 1) \o Format(s) \o SubSeq(lines, End(lines, at), Len(lines))

\* update_source_in_config
Updated(lines, s) ==
    LET at == Min(Targets(lines, s.id))
    IN  SubSeq(lines, 1, at - 1) \o Format(s) \o SubSeq(lines, End(lines, at), Len(lines))

\* remove_source_from_config, which also takes a blank line above the block.
Removed(lines, id) ==
    LET at == Min(Targets(lines, id))
        from == IF at > 1 /\ lines[at - 1].kind = "blank" THEN at - 1 ELSE at
    IN  Cut(lines, from, End(lines, at))

-----------------------------------------------------------------------------
(* What TOML reads of the lines, and load_config of that.                  *)

\* The numbers of a set, from the lowest to the highest.
Ascending(S) == [k \in 1 .. Cardinality(S) |-> CHOOSE i \in S : Cardinality({j \in S : j < i}) = k - 1]

\* Where the lines of some kinds are.
Positions(lines, kinds) == {i \in DOMAIN lines : lines[i].kind \in kinds}

Headers == {"[[sources]]", "noted", "[sources.steps]", "[server]"}

\* The source whose header is line i: the keys up to the next header.
TomlSource(lines, i) ==
    LET end == Min({j \in i + 1 .. Len(lines) : lines[j].kind \in Headers} \cup {Len(lines) + 1})
        at(kind) == {j \in i + 1 .. end - 1 : lines[j].kind = kind}
        get(kind) == IF at(kind) = {} THEN NoValue ELSE lines[Min(at(kind))].value
    IN  [id |-> get("id"), raw |-> IF at("id") = {} THEN Unseen ELSE lines[Min(at("id"))].raw,
         type |-> get("type"), complete |-> at("fields") # {}]

Toml(lines) ==
    LET starts == Ascending(Positions(lines, {"[[sources]]", "noted"}))
    IN  [k \in DOMAIN starts |-> TomlSource(lines, starts[k])]

\* Every source needs an id and a type.  The required fields are not missed:
\* they are looked for among the attributes, which a dataclass always has.
Loads(lines) == \A k \in DOMAIN Toml(lines) : Toml(lines)[k].id # NoValue /\ Toml(lines)[k].type # NoValue

Load(lines) == served' = IF Loads(lines) THEN Toml(lines) ELSE served

Init ==
    /\ file \in HandFiles /\ Loads(file)
    /\ writing = NotWriting /\ before = file
    /\ doing = <<"hand">> /\ op = <<"hand">>
    /\ up = TRUE /\ served = Toml(file)
    /\ ops = 0 /\ faults = 0

-----------------------------------------------------------------------------
(* Requests.  Nothing is awaited from the reading of the file to the end   *)
(* of its parsing in registry.refresh().                                   *)

Idle == up /\ writing = NotWriting

\* _write_lines opens the file, which truncates it.
Begin(request, lines) ==
    /\ Idle /\ ops < MaxOps
    /\ ops' = ops + 1
    /\ file' = <<>> /\ writing' = lines /\ doing' = request
    /\ UNCHANGED <<before, op, up, served, faults>>

AddSource(s) == Begin(<<"add", s.id>>, Written(file, s))

\* 404 without a block; the file is not touched.
UpdateSource(s) ==
    /\ Targets(file, s.id) # {}
    /\ Begin(<<"update", s.id>>, Updated(file, s))

\* The source must be registered as well.
DeleteSource(id) ==
    /\ \E k \in DOMAIN served : served[k].id = id
    /\ Targets(file, id) # {}
    /\ Begin(<<"remove", id>>, Removed(file, id))

\* The text is there, and is loaded; a file that does not load is answered with
\* its error and changes nothing of the registry.
Fill ==
    /\ up /\ writing # NotWriting
    /\ file' = writing /\ before' = writing /\ writing' = NotWriting
    /\ op' = doing
    /\ Load(writing)
    /\ UNCHANGED <<doing, up, ops, faults>>

\* The write fails or the process dies, when some of the lines are there.
Lost(n) ==
    /\ writing # NotWriting /\ n <= Len(writing)
    /\ faults < MaxFaults /\ faults' = faults + 1
    /\ file' = SubSeq(writing, 1, n) /\ before' = file' /\ writing' = NotWriting
    /\ op' = <<"lost">>

WriteFails(n) == up /\ Lost(n) /\ UNCHANGED <<doing, up, served, ops>>

Crash(n) ==
    /\ up /\ Lost(n)
    /\ up' = FALSE /\ served' = <<>>
    /\ UNCHANGED <<doing, ops>>

\* A process whose file does not load does not start.
Restart ==
    /\ ~up /\ Loads(file)
    /\ up' = TRUE /\ Load(file)
    /\ UNCHANGED <<file, writing, before, doing, op, ops, faults>>

\* A person writes the file, and may have it reloaded.
HandEdit(lines) ==
    /\ writing = NotWriting /\ ops < MaxOps /\ lines # file
    /\ ops' = ops + 1
    /\ file' = lines /\ before' = lines /\ op' = <<"hand">>
    /\ UNCHANGED <<writing, doing, up, served, faults>>

Reload ==
    /\ Idle
    /\ Load(file)
    /\ UNCHANGED <<file, writing, before, doing, op, up, ops, faults>>

Next ==
    \/ \E s \in NewSources : AddSource(s) \/ UpdateSource(s)
    \/ \E id \in Ids : DeleteSource(id)
    \/ Fill \/ Restart \/ Reload
    \/ \E n \in 0 .. Len(writing) : WriteFails(n) \/ Crash(n)
    \/ \E lines \in HandFiles : HandEdit(lines)

Spec == Init /\ [][Next]_vars

-----------------------------------------------------------------------------
(* Properties                                                              *)

TypeOK ==
    /\ file \in Seq(Line) /\ before \in Seq(Line)
    /\ writing = NotWriting \/ (writing \in Seq(Line) /\ file = <<>>)
    /\ (writing = NotWriting) => before = file
    /\ up \in BOOLEAN
    /\ served \in Seq(Source)
    /\ \A k \in DOMAIN served : served[k].id # NoValue /\ served[k].type # NoValue
    /\ writing # NotWriting => up /\ ops > 0
    /\ ops \in 0 .. MaxOps /\ faults \in 0 .. MaxFaults

\* The blocks that the code finds by its scan are the sources that TOML reads,
\* each known by the text of its own id line, and never by the id of another
\* source, in whatever order they were added, updated and removed, and whatever
\* tables they have (config.py:384-422).
BlocksAreSources ==
    LET blocks  == Ascending(Starts(before))
        sources == Toml(before)
        found   == [k \in DOMAIN blocks |-> BlockId(before, blocks[k])]
    IN  /\ found = [k \in DOMAIN sources |-> sources[k].raw]
        /\ \A k \in DOMAIN sources : found[k] \in Ids => found[k] = sources[k].id

\* The same, with the types of the state.
FileInv == TypeOK /\ BlocksAreSources

\* Lines that are part of another section than the sources.
Elsewhere(lines) ==
    LET headers(j) == {h \in Positions(lines, Headers) : h <= j}
        inOther == {j \in DOMAIN lines :
            headers(j) # {} /\ lines[Max(headers(j))].kind = "[server]" /\ lines[j].kind # "blank"}
        at == Ascending(inOther)
    IN  [k \in DOMAIN at |-> lines[at[k]]]

Request == {"add", "update", "remove"}

\* A request leaves all other sections of the file as they are, wherever they
\* stand between the sources (config.py:534, "All other content is preserved
\* verbatim").
KeepsOtherSections ==
    [][op'[1] \in Request /\ before' # before => Elsewhere(before') = Elsewhere(before)]_vars

\* What TOML reads of the file changes as the requests say, also over writes
\* that are cut short.
Declared ==
    [s \in NewSources |-> [id |-> Decoded[s.id], raw |-> Captured[s.id],
                           type |-> s.type, complete |-> s.complete]]

List == INSTANCE SourceList WITH sources <- Toml(before)
ImplementsSourceList == List!Spec

-----------------------------------------------------------------------------
(* Departures: what a document says and the code does not keep.  No run checks *)
(* them; TLC refutes each in the instance of this module's run.                *)

\* config.py:476, "write atomically": a write that did not come about has left
\* the file as it was.
WrittenWhole ==
    [][op' = <<"lost">> /\ op # op' => before' = before \/ before' = writing]_vars

Comments(lines) == SelectSeq(lines, LAMBDA l : l.kind = "comment")

\* web/routes/config.py:7-8, "Comments, blank lines, and unrelated blocks are
\* preserved": a comment that stands above the next block belongs to the block
\* before it.
KeepsComments ==
    [][op'[1] \in Request /\ before' # before => Comments(before') = Comments(before)]_vars

\* The same of the other sources: a header that a comment follows is not seen, and its
\* source goes with the one above it.
KeepsOtherSources ==
    [][op'[1] \in Request /\ before' # before =>
         \A k \in DOMAIN Toml(before) :
            Toml(before)[k].id # op'[2] => Toml(before)[k] \in Range(Toml(before'))]_vars

\* config.py:393-394, "``id`` is extracted from the ``id = "..."`` line", and a
\* request finds a source that is registered: an id that is written with escapes, or
\* in single quotes, is not found (PUT and DELETE answer 404).
SeesEverySource == \A k \in DOMAIN Toml(before) : Targets(before, Toml(before)[k].id) # {}

\* config.py:429-430, "json.dumps which produces valid TOML basic strings".
WritesValidToml == \A i \in DOMAIN before : before[i].kind = "id" => before[i].value # NoValue

\* config.py:183, "Check that a source config has all required fields for its
\* type".
RequiredFieldsPresent == \A k \in DOMAIN served : served[k].complete
=============================================================================
