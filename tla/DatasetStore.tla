---------------------------- MODULE DatasetStore ----------------------------
(***************************************************************************)
(* One dataset on disk: its directory, its version directories v1, v2, ... *)
(* and metadata.json (core/dataset.py, snapshot.py, versioning.py).  There *)
(* is no lock: requests are coroutines of one event loop, each blocking    *)
(* file operation runs in a thread, and an action is what one coroutine    *)
(* does up to the next await.  Datasets live in directories of their own,  *)
(* so one is enough.  A file is known by the request that wrote it.        *)
(***************************************************************************)
EXTENDS Naturals, FiniteSets, Sequences, SequencesExt

CONSTANTS
    Clients,       \* requests that may be in progress together
    Operations,    \* a subset of OperationKinds: what clients ask for
    MayFail,       \* whether writing or removing a file may fail
    MaxOps,        \* bound on the requests made
    MaxSpared,     \* bound on what the file system keeps one delete from removing
    MaxCrashes     \* bound on process restarts

\* "peek" exports a version that metadata.json does not list (yet).
OperationKinds == {"snapshot", "delete", "export", "peek"}

ASSUME DatasetAssumption ==
    /\ Operations \subseteq OperationKinds /\ MayFail \in BOOLEAN
    /\ MaxOps \in Nat \ {0} /\ MaxSpared \in Nat /\ MaxCrashes \in Nat

VARIABLES
    present,    \* the dataset directory exists
    dir,        \* its version directories, by number
    meta,       \* metadata.json
    known,      \* create() has returned the dataset's id
    pc, op,     \* where each client is suspended, and in which request
    version,    \* the version directory its request works on
    seen,       \* the version list it read from metadata.json
    doomed,     \* the directory entries its rmtree has still to remove
    recorded,   \* versions whose snapshot request was answered with success
    deleted,    \* the last answer was that of a successful delete
    orderly,    \* requests came one at a time, no restart cut a delete short, and
                \* after a delete that left something only a delete came
    spared,     \* what the last delete to be asked for could not remove
    doom,       \* a delete was ever requested
    ops, crashes

disk   == <<present, dir, meta>>
client == <<pc, op, version, seen, doomed>>
answers == <<recorded, deleted, known>>
history == <<orderly, doom, spared>>
vars   == <<disk, client, answers, history, ops, crashes>>

Numbers == 1 .. MaxOps

\* result and manifest: the request that wrote them, 0 for none.  exported: an
\* export.* file is there.  foreign: the manifest's fingerprint counted one.
VersionDir == [exists : BOOLEAN, result : 0 .. MaxOps, manifest : 0 .. MaxOps,
               exported : BOOLEAN, foreign : BOOLEAN]
NoDir == [exists |-> FALSE, result |-> 0, manifest |-> 0,
          exported |-> FALSE, foreign |-> FALSE]

\* metadata.json: absent, torn (opened and truncated), or a version list.
NoMeta  == [state |-> "absent", versions |-> <<>>]
Torn    == [state |-> "torn", versions |-> <<>>]
Meta(s) == [state |-> "ok", versions |-> s]

Steps == {"idle", "connect", "result", "fingerprint", "manifest", "readMeta",
          "openMeta", "fillMeta", "fillUnlinked", "scan", "unlink", "rmdir", "convert"}

\* What rmtree removes: metadata.json, version directories, the directory itself.
MetaFile == 0
Self == MaxOps + 1
Entries == {MetaFile} \cup Numbers

Dirs == {n \in Numbers : dir[n].exists}
Creates(c) == op[c] = 1

Init ==
    /\ present = FALSE /\ meta = NoMeta /\ known = FALSE
    /\ dir = [n \in Numbers |-> NoDir]
    /\ pc = [c \in Clients |-> "idle"]
    /\ op = [c \in Clients |-> 0]
    /\ version = [c \in Clients |-> 0]
    /\ seen = [c \in Clients |-> <<>>]
    /\ doomed = [c \in Clients |-> {}]
    /\ recorded = {} /\ deleted = FALSE
    /\ orderly = TRUE /\ doom = FALSE /\ spared = {}
    /\ ops = 0 /\ crashes = 0

-----------------------------------------------------------------------------
(* Requests arrive.                                                        *)

Arrive(c, step) ==
    /\ pc[c] = "idle" /\ ops < MaxOps
    /\ pc' = [pc EXCEPT ![c] = step]
    /\ op' = [op EXCEPT ![c] = ops + 1]
    /\ ops' = ops + 1
    /\ orderly' = (orderly /\ (\A d \in Clients : pc[d] = "idle") /\ (spared = {} \/ step = "scan"))

Goto(c, step) == pc' = [pc EXCEPT ![c] = step]

\* The request is over, and its locals with it.
Leave(c) ==
    /\ Goto(c, "idle")
    /\ op' = [op EXCEPT ![c] = 0]
    /\ version' = [version EXCEPT ![c] = 0]
    /\ seen' = [seen EXCEPT ![c] = <<>>]

\* create(): a fresh id and its directory, then the DuckDB connection.
Create(c) ==
    /\ ops = 0
    /\ Arrive(c, "connect")
    /\ present' = TRUE
    /\ UNCHANGED <<dir, meta, version, seen, doomed, answers, doom, spared, crashes>>

\* create_snapshot(): 404 unless the directory exists.
CreateSnapshot(c) ==
    /\ "snapshot" \in Operations
    /\ known /\ present
    /\ Arrive(c, "connect")
    /\ UNCHANGED <<disk, version, seen, doomed, answers, doom, spared, crashes>>

\* delete(): 404 unless the directory exists, then rmtree in a thread.
Delete(c) ==
    /\ "delete" \in Operations
    /\ known /\ present
    /\ Arrive(c, "scan")
    /\ doom' = TRUE /\ spared' = {} /\ deleted' = FALSE
    /\ UNCHANGED <<disk, version, seen, doomed, recorded, known, crashes>>

\* export() of a version directory that exists.  In the format of the file it
\* finds nothing is written and the call is over; otherwise the rows of
\* result.arrow, or of a source's file when that is missing, are converted.
Export(c, n) ==
    /\ known /\ present /\ n \in Dirs
    /\ \/ "export" \in Operations /\ Contains(meta.versions, n)
       \/ "peek" \in Operations /\ ~Contains(meta.versions, n)
    /\ Arrive(c, "convert")
    /\ version' = [version EXCEPT ![c] = n]
    /\ UNCHANGED <<disk, seen, doomed, answers, doom, spared, crashes>>

-----------------------------------------------------------------------------
(* SnapshotManager.create_snapshot, shared by create and create_snapshot.  *)

\* Seeded fault: labels are counted from metadata.json.
CountsTheChain == Len(meta.versions) + 1

\* VersionChain.next_version: one more than the highest directory.
NextVersion == IF Dirs = {} THEN 1 ELSE Max(Dirs) + 1

\* The version is chosen and its directory made with no await in between; a
\* missing dataset directory is made again (parents=True).
BeginVersion(c) ==
    /\ pc[c] = "connect"
    /\ Goto(c, "result")
    /\ version' = [version EXCEPT ![c] = NextVersion]
    /\ present' = TRUE
    /\ dir' = [dir EXCEPT ![NextVersion].exists = TRUE]
    /\ UNCHANGED <<meta, op, seen, doomed, answers, history, ops, crashes>>

\* Seeded fault: an error while writing the result is swallowed.
WriteResultMayMiss(c) ==
    /\ pc[c] = "result"
    /\ Goto(c, "fingerprint")
    /\ present' = TRUE
    /\ dir' = [dir EXCEPT ![version[c]].exists = TRUE]
    /\ UNCHANGED <<meta, op, version, seen, doomed, answers, history, ops, crashes>>

\* The source files and result.arrow; every writer first makes the directory
\* again if it is gone.
WriteResult(c) ==
    /\ pc[c] = "result"
    /\ Goto(c, "fingerprint")
    /\ present' = TRUE
    /\ dir' = [dir EXCEPT ![version[c]].exists = TRUE, ![version[c]].result = op[c]]
    /\ UNCHANGED <<meta, op, version, seen, doomed, answers, history, ops, crashes>>

\* Seeded fault: the files of every version are hashed.
FingerprintsDataset(c) ==
    /\ pc[c] = "fingerprint" /\ version[c] \in Dirs
    /\ Goto(c, "manifest")
    /\ dir' = [dir EXCEPT ![version[c]].foreign = \E n \in Dirs : dir[n].exported]
    /\ UNCHANGED <<present, meta, op, version, seen, doomed, answers, history, ops, crashes>>

\* compute_fingerprint hashes whatever files the directory holds by now.
Fingerprint(c) ==
    /\ pc[c] = "fingerprint" /\ version[c] \in Dirs
    /\ Goto(c, "manifest")
    /\ dir' = [dir EXCEPT ![version[c]].foreign = dir[version[c]].exported]
    /\ UNCHANGED <<present, meta, op, version, seen, doomed, answers, history, ops, crashes>>

\* _write_manifest.  create() goes on to write metadata.json, and
\* create_snapshot() to read it.
WriteManifest(c) ==
    /\ pc[c] = "manifest" /\ version[c] \in Dirs
    /\ dir' = [dir EXCEPT ![version[c]].manifest = op[c]]
    /\ \/ Creates(c) /\ Goto(c, "openMeta") /\ seen' = [seen EXCEPT ![c] = <<version[c]>>]
       \/ ~Creates(c) /\ Goto(c, "readMeta") /\ UNCHANGED seen
    /\ UNCHANGED <<present, meta, op, version, doomed, answers, history, ops, crashes>>

\* Seeded fault: the new version is put in front.
AddInFront(s, n) == <<n>> \o s

\* `if snapshot.version not in dataset.versions: append`.
AddVersion(s, n) == IF Contains(s, n) THEN s ELSE Append(s, n)

\* Seeded fault: the chain that was read is dropped.
ReadMetaForgets(c) ==
    /\ pc[c] = "readMeta" /\ meta.state = "ok"
    /\ Goto(c, "openMeta")
    /\ seen' = [seen EXCEPT ![c] = <<version[c]>>]
    /\ UNCHANGED <<disk, op, version, doomed, answers, history, ops, crashes>>

\* The read half of the read-modify-write of metadata.json ...
ReadMeta(c) ==
    /\ pc[c] = "readMeta" /\ meta.state = "ok"
    /\ Goto(c, "openMeta")
    /\ seen' = [seen EXCEPT ![c] = AddVersion(meta.versions, version[c])]
    /\ UNCHANGED <<disk, op, version, doomed, answers, history, ops, crashes>>

\* ... and the write half: write_text opens the file, which truncates it, ...
OpenMeta(c) ==
    /\ pc[c] = "openMeta" /\ present
    /\ Goto(c, "fillMeta")
    /\ meta' = Torn
    /\ UNCHANGED <<present, dir, op, version, seen, doomed, answers, history, ops, crashes>>

\* ... and fills it.  If another writer has filled it since, a longer list
\* shows behind the end of this one; if it was unlinked, nothing does.
FillMeta(c) ==
    /\ \/ /\ pc[c] = "fillMeta"
          /\ meta' = IF Len(meta.versions) > Len(seen[c]) THEN Torn ELSE Meta(seen[c])
       \/ pc[c] = "fillUnlinked" /\ UNCHANGED meta
    /\ Leave(c)
    /\ recorded' = recorded \cup {version[c]}
    /\ deleted' = FALSE /\ known' = TRUE
    /\ UNCHANGED <<present, dir, doomed, history, ops, crashes>>

\* A step that cannot go on (a directory or file is gone or unreadable), or
\* whose write fails, ends its request with an error and cleans nothing up.
Stuck(c) ==
    \/ pc[c] \in {"fingerprint", "manifest"} /\ version[c] \notin Dirs
    \/ pc[c] = "readMeta" /\ meta.state # "ok"
    \/ pc[c] = "openMeta" /\ ~present
    \/ MayFail /\ pc[c] \in {"result", "fingerprint", "manifest", "openMeta", "fillMeta", "convert"}

Abort(c) ==
    /\ Stuck(c)
    /\ Leave(c)
    /\ UNCHANGED <<disk, doomed, answers, history, ops, crashes>>

-----------------------------------------------------------------------------
(* rmtree(ignore_errors=True), and the write half of an export.            *)

\* Seeded fault: only the recorded versions are removed.
ScanChain(c) ==
    /\ pc[c] = "scan"
    /\ Goto(c, "unlink")
    /\ doomed' = [doomed EXCEPT ![c] = {MetaFile} \cup ToSet(meta.versions)]
    /\ UNCHANGED <<disk, op, version, seen, answers, history, ops, crashes>>

\* The entries are listed once.
Scan(c) ==
    /\ pc[c] = "scan"
    /\ Goto(c, "unlink")
    /\ doomed' = [doomed EXCEPT ![c] = {MetaFile} \cup Dirs]
    /\ UNCHANGED <<disk, op, version, seen, answers, history, ops, crashes>>

\* The entry is out of the list; after the last one the directory's turn comes.
Dealt(c, e) ==
    /\ pc[c] = "unlink" /\ e \in doomed[c]
    /\ doomed' = [doomed EXCEPT ![c] = @ \ {e}]

Further(c, e) == IF doomed[c] = {e} THEN "rmdir" ELSE "unlink"

Unlink(c, e) ==
    /\ Dealt(c, e)
    /\ pc' = [d \in Clients |->
                 IF d = c THEN Further(c, e)
                 ELSE IF e = MetaFile /\ pc[d] = "fillMeta" THEN "fillUnlinked" ELSE pc[d]]
    /\ \/ e = MetaFile /\ meta' = NoMeta /\ UNCHANGED dir
       \/ e # MetaFile /\ dir' = [dir EXCEPT ![e] = NoDir] /\ UNCHANGED meta
    /\ UNCHANGED <<present, op, version, seen, answers, history, ops, crashes>>

\* What may be left of a version directory: its files, or the bare directory.
\* (What is in between is no different to anything that looks at it later.)
Leftovers(d) == {d, [NoDir EXCEPT !.exists = d.exists]}

\* ignore_errors: a file that cannot be removed is passed over, and the
\* directories above it stay.
UnlinkFails(c, e) ==
    /\ MayFail /\ Cardinality(spared) < MaxSpared
    /\ Dealt(c, e)
    /\ Goto(c, Further(c, e))
    /\ spared' = spared \cup {e}
    /\ \/ e = MetaFile /\ UNCHANGED dir
       \/ e # MetaFile /\ \E left \in Leftovers(dir[e]) : dir' = [dir EXCEPT ![e] = left]
    /\ UNCHANGED <<present, meta, op, version, seen, answers, orderly, doom, ops, crashes>>

\* The directory itself goes if it is empty and can be removed; if not the
\* error is ignored, and the answer is the same.
Rmdir(c) ==
    /\ pc[c] = "rmdir"
    /\ Leave(c)
    /\ \/ present' = (Dirs # {} \/ meta # NoMeta) /\ UNCHANGED spared
       \/ MayFail /\ Cardinality(spared) < MaxSpared /\ spared' = spared \cup {Self} /\ UNCHANGED present
    /\ recorded' = {} /\ deleted' = TRUE
    /\ UNCHANGED <<dir, meta, known, doomed, orderly, doom, ops, crashes>>

\* The converted copy is written beside its source, directories and all.
Convert(c) ==
    /\ pc[c] = "convert"
    /\ Leave(c)
    /\ \/ /\ present' = TRUE
          /\ dir' = [dir EXCEPT ![version[c]].exists = TRUE, ![version[c]].exported = TRUE]
       \/ UNCHANGED <<present, dir>>
    /\ UNCHANGED <<meta, doomed, answers, history, ops, crashes>>

-----------------------------------------------------------------------------

\* The process dies and starts again: what is on disk stays as it is.
Restart ==
    /\ crashes < MaxCrashes
    /\ crashes' = crashes + 1
    /\ pc' = [c \in Clients |-> "idle"]
    /\ op' = [c \in Clients |-> 0]
    /\ version' = [c \in Clients |-> 0]
    /\ seen' = [c \in Clients |-> <<>>]
    /\ doomed' = [c \in Clients |-> {}]
    /\ orderly' = (orderly /\ \A c \in Clients : pc[c] \notin {"scan", "unlink", "rmdir"})
    /\ UNCHANGED <<disk, answers, doom, spared, ops>>

Next ==
    \/ \E c \in Clients :
         \/ Create(c) \/ CreateSnapshot(c) \/ Delete(c)
         \/ \E n \in Numbers : Export(c, n)
         \/ BeginVersion(c) \/ WriteResult(c) \/ Fingerprint(c) \/ WriteManifest(c)
         \/ ReadMeta(c) \/ OpenMeta(c) \/ FillMeta(c) \/ Abort(c)
         \/ Scan(c) \/ Rmdir(c) \/ Convert(c)
         \/ \E e \in Entries : Unlink(c, e) \/ UnlinkFails(c, e)
    \/ Restart

Spec == Init /\ [][Next]_vars
-----------------------------------------------------------------------------
(* Properties                                                              *)

TypeOK ==
    /\ present \in BOOLEAN /\ known \in BOOLEAN /\ deleted \in BOOLEAN
    /\ orderly \in BOOLEAN /\ doom \in BOOLEAN
    /\ dir \in [Numbers -> VersionDir]
    /\ \A n \in Numbers : dir[n].exists \/ dir[n] = NoDir
    /\ meta \in {NoMeta, Torn} \cup {Meta(s) : s \in {meta.versions}}
    /\ meta.versions \in Seq(Numbers) /\ IsInjective(meta.versions)
    /\ pc \in [Clients -> Steps]
    /\ op \in [Clients -> 0 .. MaxOps]
    /\ version \in [Clients -> 0 .. MaxOps]
    /\ seen \in [Clients -> Seq(Numbers)]
    /\ doomed \in [Clients -> SUBSET Entries]
    /\ spared \subseteq Entries \cup {Self}
    /\ recorded \subseteq Numbers
    /\ ops \in 0 .. MaxOps /\ crashes \in 0 .. MaxCrashes

\* A client writing into a version directory of its own.
Writing(c) == pc[c] \in {"result", "fingerprint", "manifest"}

\* As long as nothing is deleted, no two snapshots ever share a version
\* directory, although failed and interrupted ones leave theirs behind
\* (versioning.py:27-33).
VersionsUnshared ==
    ~doom => \A c, d \in Clients :
                Writing(c) /\ Writing(d) /\ version[c] = version[d] => c = d

\* As long as nothing is deleted, every version metadata.json lists is
\* finished: its result and manifest were written by one and the same request,
\* whatever fails or crashes meanwhile (dataset.py:88-107, 144-155:
\* metadata.json is written last).
ChainIsComplete ==
    ~doom => \A n \in ToSet(meta.versions) :
                /\ dir[n].result # 0 /\ dir[n].manifest = dir[n].result

\* The state of the store: its types, whose directories are whose, and that what
\* the chain lists is there.
DatasetInv == TypeOK /\ VersionsUnshared /\ ChainIsComplete

\* A recorded version is in the chain whenever metadata.json can be read.
ChainHolds(versions) == meta.state = "ok" => versions \subseteq ToSet(meta.versions)

\* A snapshot that was answered with success stays in the version chain
\* through failures and restarts, if requests come one at a time
\* (dataset.py:144-155).
NoLostVersion == orderly => ChainHolds(recorded)

\* The last version of the chain, which the list shows as latest_version, is
\* the highest one, if requests come one at a time (dataset.py:129).
LatestIsNewest ==
    orderly /\ meta.versions # <<>> => Last(meta.versions) = Max(ToSet(meta.versions))

\* The chain of a client that waits for each answer only ever grows at its end.
ChainGrows == NoLostVersion /\ LatestIsNewest

Remains == Dirs \cup (IF meta = NoMeta THEN {} ELSE {MetaFile})

\* A delete that was answered left only what the file system would not let go
\* of, and nothing at all if it refused nothing, when nothing else was in
\* progress: whatever the chain had lost track of is found, and a delete that is
\* repeated deals with what the one before has left (dataset.py:136-138, 288-291).
DeletedStaysDeleted ==
    orderly /\ deleted => Remains \subseteq spared /\ (present => spared # {})

\* The fingerprint in a listed version's manifest covers the files of the
\* snapshot and nothing else, if requests come one at a time: an orphan that
\* was exported from is never written again (snapshot.py:113-120).
FingerprintIsOwn == orderly => \A n \in ToSet(meta.versions) : ~dir[n].foreign

-----------------------------------------------------------------------------
(* Departures: what a document says and the code does not keep.  No run checks *)
(* them; TLC refutes each in the instance of this module's run.                *)

\* dataset-engine.md:187 "creates v2 -> version chain updated":
\* NoLostVersion, however requests overlap.
SnapshotsAreRecorded == ~doom => ChainHolds(recorded)

\* routes/datasets.py:180 "Delete a dataset and all of its versions.", answered
\* with {"deleted": True}: also when files could not be removed.
DeletedMeansGone == orderly /\ deleted => ~present
=============================================================================
