---------------------------- MODULE SavedQueries ----------------------------
(***************************************************************************)
(* The saved queries of the console (web/routes/saved.py): create, read,   *)
(* update and delete rows of saved_queries, through the one SQLite         *)
(* connection of the process.  A request gives way at every statement and  *)
(* every commit, so that its check, its write and the read of what it      *)
(* answers are separate steps; and a commit commits what others wrote.     *)
(***************************************************************************)
EXTENDS Naturals, FiniteSets, FiniteSetsExt

CONSTANTS
    Requests,  \* requests to the API, each made once
    Names,     \* names of saved queries
    Texts,     \* statements: they stand for every field but the name
    MaxFaults, \* bound on the statements and commits that fail
    MaxCrashes \* bound on the restarts

\* A field that an update's body leaves out.
Unset == "unset"

SavedAssumption ==
    /\ IsFiniteSet(Requests)
    /\ Unset \notin Names \cup Texts
    /\ MaxFaults \in Nat /\ MaxCrashes \in Nat

VARIABLES
    disk,    \* saved_queries and its id counter as committed
    view,    \* the same as the connection sees them
    pc,      \* per request: idle, checked, written, committed, answered or lost
    op,      \* per request: create, update, delete or get
    target,  \* per request: the id it is about
    patch,   \* per request: the name and text of its body
    code,    \* per request: the HTTP status it was answered with, 0 for none
    listed,  \* per request: the rows it was answered with
    applied, \* history: per request, whether its statement found its row
    faults, crashes

request == <<pc, op, target, patch, code, listed>>
vars    == <<disk, view, request, applied, faults, crashes>>

Ids   == 1 .. Cardinality(Requests) + 1
Row   == [id : Ids, name : Names, text : Texts]
Patch == [name : Names \cup {Unset}, text : Texts \cup {Unset}]
NoPatch == [name |-> Unset, text |-> Unset]

\* A row may have been saved, and others deleted, before the process started.
Init ==
    /\ \E rows \in {{}} \cup {{r} : r \in [id : {1}, name : Names, text : Texts]} :
          disk = [rows |-> rows, last |-> 1]
    /\ view = disk
    /\ pc = [r \in Requests |-> "idle"]
    /\ op = [r \in Requests |-> "none"]
    /\ target = [r \in Requests |-> 0]
    /\ patch = [r \in Requests |-> NoPatch]
    /\ code = [r \in Requests |-> 0]
    /\ listed = [r \in Requests |-> {}]
    /\ applied = [r \in Requests |-> FALSE]
    /\ faults = 0 /\ crashes = 0

Find(id) == {row \in view.rows : row.id = id}

\* UNIQUE(name)
Free(name, id) == \A row \in view.rows : row.name = name => row.id = id

Move(r, where) == pc' = [pc EXCEPT ![r] = where] /\ UNCHANGED <<code, listed>>

Answer(r, status, rows) ==
    /\ pc' = [pc EXCEPT ![r] = "answered"]
    /\ code' = [code EXCEPT ![r] = status]
    /\ listed' = [listed EXCEPT ![r] = rows]

-----------------------------------------------------------------------------
(* create_saved                                                            *)

\* Seeded fault: the id counter of a table without AUTOINCREMENT.
FreshReusesIds == 1 + Max({row.id : row \in view.rows} \cup {0})

\* INTEGER PRIMARY KEY AUTOINCREMENT
Fresh == view.last + 1

\* Inserts, or answers 409 when the name is in use.
Insert(r, name, text) ==
    /\ pc[r] = "idle"
    /\ op' = [op EXCEPT ![r] = "create"]
    /\ \/ /\ Free(name, 0)
          /\ view' = [rows |-> view.rows \cup {[id |-> Fresh, name |-> name, text |-> text]},
                      last |-> Fresh]
          /\ target' = [target EXCEPT ![r] = Fresh]
          /\ applied' = [applied EXCEPT ![r] = TRUE]
          /\ Move(r, "written")
       \/ /\ ~Free(name, 0)
          /\ Answer(r, 409, {})
          /\ UNCHANGED <<view, target, applied>>
    /\ UNCHANGED <<disk, patch, faults, crashes>>

-----------------------------------------------------------------------------
(* update_saved and delete_saved: the row is looked for first.             *)

Check(r, o, id, p) ==
    /\ pc[r] = "idle"
    /\ op' = [op EXCEPT ![r] = o]
    /\ target' = [target EXCEPT ![r] = id]
    /\ patch' = [patch EXCEPT ![r] = p]
    /\ IF Find(id) = {} THEN Answer(r, 404, {}) ELSE Move(r, "checked")
    /\ UNCHANGED <<disk, view, applied, faults, crashes>>

Pick(new, old) == IF new = Unset THEN old ELSE new

\* Seeded fault: a field that the body leaves out is written with its default.
PatchedWithDefaults(row, p) ==
    [row EXCEPT !.name = Pick(p.name, row.name),
                !.text = IF p.text = Unset THEN CHOOSE t \in Texts : TRUE ELSE p.text]

\* UPDATE saved_queries SET <the fields of the body>
Patched(row, p) == [row EXCEPT !.name = Pick(p.name, row.name), !.text = Pick(p.text, row.text)]

\* The UPDATE changes no row when the row has been deleted since.  A body that
\* has no field skips the statement and its commit.
Update(r) ==
    LET p == patch[r] IN
    /\ pc[r] = "checked" /\ op[r] = "update"
    /\ IF p = NoPatch
       THEN Move(r, "committed") /\ UNCHANGED <<view, applied>>
       ELSE \/ /\ p.name # Unset /\ Find(target[r]) # {} /\ ~Free(p.name, target[r])
               /\ Answer(r, 409, {})
               /\ UNCHANGED <<view, applied>>
            \/ /\ p.name = Unset \/ Find(target[r]) = {} \/ Free(p.name, target[r])
               /\ view' = [view EXCEPT !.rows = {IF row.id = target[r] THEN Patched(row, p) ELSE row
                                                 : row \in view.rows}]
               /\ applied' = [applied EXCEPT ![r] = Find(target[r]) # {}]
               /\ Move(r, "written")
    /\ UNCHANGED <<disk, op, target, patch, faults, crashes>>

Delete(r) ==
    /\ pc[r] = "checked" /\ op[r] = "delete"
    /\ view' = [view EXCEPT !.rows = @ \ Find(target[r])]
    /\ applied' = [applied EXCEPT ![r] = Find(target[r]) # {}]
    /\ Move(r, "written")
    /\ UNCHANGED <<disk, op, target, patch, faults, crashes>>

-----------------------------------------------------------------------------
(* The commit, and what is answered.                                       *)

\* Seeded fault: the write is left to the next commit of anyone.
CommitNothing(r) ==
    /\ pc[r] = "written"
    /\ UNCHANGED disk
    /\ IF op[r] = "delete" THEN Answer(r, 200, {}) ELSE Move(r, "committed")
    /\ UNCHANGED <<view, op, target, patch, applied, faults, crashes>>

\* A delete is answered at once.
Commit(r) ==
    /\ pc[r] = "written"
    /\ disk' = view
    /\ IF op[r] = "delete" THEN Answer(r, 200, {}) ELSE Move(r, "committed")
    /\ UNCHANGED <<view, op, target, patch, applied, faults, crashes>>

\* A statement or a commit fails, say on a file that is locked.  What a failing
\* commit should have committed stays on the connection.
Fails(r) ==
    /\ pc[r] \in {"idle", "checked", "written", "committed"} /\ faults < MaxFaults
    /\ faults' = faults + 1
    /\ Answer(r, 500, {})
    /\ UNCHANGED <<disk, view, op, target, patch, applied, crashes>>

\* The row is read again; `assert ... is not None` ends in a 500 without it.
Reread(r) ==
    /\ pc[r] = "committed"
    /\ IF Find(target[r]) = {}
       THEN Answer(r, 500, {})
       ELSE Answer(r, IF op[r] = "create" THEN 201 ELSE 200, Find(target[r]))
    /\ UNCHANGED <<disk, view, op, target, patch, applied, faults, crashes>>

\* get_saved; list_saved reads in the same way.
Get(r, id) ==
    /\ pc[r] = "idle"
    /\ op' = [op EXCEPT ![r] = "get"]
    /\ target' = [target EXCEPT ![r] = id]
    /\ IF Find(id) = {} THEN Answer(r, 404, {}) ELSE Answer(r, 200, Find(id))
    /\ UNCHANGED <<disk, view, patch, applied, faults, crashes>>

List(r) ==
    /\ pc[r] = "idle"
    /\ op' = [op EXCEPT ![r] = "list"]
    /\ Answer(r, 200, view.rows)
    /\ UNCHANGED <<disk, view, target, patch, applied, faults, crashes>>

\* The process stops; what was not committed is gone, the counter's step too.
Crash ==
    /\ crashes < MaxCrashes
    /\ crashes' = crashes + 1
    /\ view' = disk
    /\ pc' = [r \in Requests |-> IF pc[r] \in {"idle", "answered"} THEN pc[r] ELSE "lost"]
    /\ UNCHANGED <<disk, op, target, patch, code, listed, applied, faults>>

\* Queries and calls of the MCP server commit on the same connection.
OthersCommit ==
    /\ disk # view
    /\ disk' = view
    /\ UNCHANGED <<view, request, applied, faults, crashes>>

Next ==
    \/ \E r \in Requests :
         \/ \E n \in Names, t \in Texts : Insert(r, n, t)
         \/ \E id \in Ids, p \in Patch : Check(r, "update", id, p)
         \/ \E id \in Ids : Check(r, "delete", id, NoPatch) \/ Get(r, id)
         \/ Update(r) \/ Delete(r) \/ Commit(r) \/ Fails(r) \/ Reread(r) \/ List(r)
    \/ Crash \/ OthersCommit

Spec == Init /\ [][Next]_vars

-----------------------------------------------------------------------------
(* Properties                                                              *)

Table == [rows : SUBSET Row, last : Ids]

TypeOK ==
    /\ disk \in Table /\ view \in Table /\ disk.last <= view.last
    /\ \A t \in {disk, view} : \A a, b \in t.rows : a.id = b.id \/ a.name = b.name => a = b
    /\ \A t \in {disk, view} : \A a \in t.rows : a.id <= t.last
    /\ pc \in [Requests -> {"idle", "checked", "written", "committed", "answered", "lost"}]
    /\ op \in [Requests -> {"none", "create", "update", "delete", "get", "list"}]
    /\ target \in [Requests -> Ids \cup {0}]
    /\ patch \in [Requests -> Patch]
    /\ code \in [Requests -> {0, 200, 201, 404, 409, 500}]
    /\ \A r \in Requests : (pc[r] = "answered") <=> (code[r] # 0)
    /\ listed \in [Requests -> SUBSET Row]
    /\ applied \in [Requests -> BOOLEAN]
    /\ faults \in 0 .. MaxFaults /\ crashes \in 0 .. MaxCrashes

\* Requests whose DELETE has removed the row of an id.
Deletes(id) == {r \in Requests : op[r] = "delete" /\ target[r] = id /\ applied[r]}

\* No two creates are answered with one id, whatever was deleted or lost in
\* between: a bookmarked id never leads to another query (db.py:163).
IdsUnshared ==
    \A r, s \in Requests : r # s /\ code[r] = 201 /\ code[s] = 201 => target[r] # target[s]

\* A saved query that was answered with 201 stays on disk, through failed
\* commits of others and crashes, until a delete of it (saved.py:129), and under
\* an id of its own; a delete that was answered stays done (saved.py:258).
AnswersAreDurable ==
    /\ IdsUnshared
    /\ \A r \in Requests :
         /\ code[r] = 201 => (\E row \in disk.rows : row.id = target[r]) \/ Deletes(target[r]) # {}
         /\ code[r] = 200 /\ op[r] = "delete" => \A row \in disk.rows : row.id # target[r]

\* Other requests whose UPDATE may have replaced a field that r has set.
Rivals(r, field) ==
    {s \in Requests \ {r} : op[s] = "update" /\ target[s] = target[r] /\ applied[s]
                            /\ patch[s][field] # Unset}

\* An update that was answered is on disk, through crashes and failed commits of
\* others, until another update of the same field or a delete: those of other
\* fields, however they interleave with it, do not undo it (saved.py:176,
\* "Partially update").
NoLostUpdate ==
    \A r \in Requests : \A field \in {"name", "text"} :
        /\ code[r] = 200 /\ op[r] = "update" /\ patch[r][field] # Unset
        /\ Rivals(r, field) = {} /\ Deletes(target[r]) = {}
        => \E row \in disk.rows : row.id = target[r] /\ row[field] = patch[r][field]

-----------------------------------------------------------------------------
(* Departures: what a document says and the code does not keep.  No run checks *)
(* them; TLC refutes each in the instance of this module's run.                *)

\* saved.py:176, "404 if not found, 409 on name conflict": an update of a row
\* that is gone when the row is read for the answer is not found.
MissingIs404 ==
    \A r \in Requests : op[r] = "update" /\ pc[r] = "answered" => code[r] \in {200, 404, 409}
=============================================================================
