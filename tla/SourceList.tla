----------------------------- MODULE SourceList -----------------------------
(***************************************************************************)
(* What the editing of config.toml promises (config.py:333-339): the file  *)
(* declares a list of sources; a request appends one, replaces the first   *)
(* of an id or takes it out, and changes nothing else.  A write that is    *)
(* cut short leaves the beginning of what it was to write.                 *)
(***************************************************************************)
EXTENDS Naturals, Sequences, SequencesExt

CONSTANTS
    Ids,       \* ids of sources
    NewSources, \* what a request may describe: records with an id
    Declared   \* what the file then declares: sources, with the raw text of their id

VARIABLES
    sources, \* the sources that the file declares, in order
    op       \* what was done last

\* The first source that is written with an id, if there is one.
First(list, id) == {k \in DOMAIN list : list[k].raw = id /\ \A j \in 1 .. k - 1 : list[j].raw # id}

AddOne(s) == op' = <<"add", s.id>> /\ sources' = Append(sources, Declared[s])

UpdateOne(s) ==
    LET list == sources IN
    /\ op' = <<"update", s.id>>
    /\ \E k \in First(list, s.id) : sources' = [list EXCEPT ![k] = Declared[s]]

RemoveOne(id) ==
    LET list == sources IN
    /\ op' = <<"remove", id>>
    /\ \E k \in First(list, id) : sources' = RemoveAt(list, k)

\* The list may be edited by hand.
Rewrite == op' = <<"hand">>

Edits(list) ==
    {Append(list, Declared[s]) : s \in NewSources}
    \cup {[list EXCEPT ![k] = Declared[s]] : k \in DOMAIN list, s \in NewSources}
    \cup {RemoveAt(list, k) : k \in DOMAIN list}

\* The beginning of a list; the last source may lack what comes after its id,
\* or its id.
CutShort(new, list) ==
    /\ Len(new) <= Len(list)
    /\ \A k \in 1 .. Len(new) - 1 : new[k] = list[k]
    /\ \A k \in DOMAIN new :
         \/ new[k].id = list[k].id /\ new[k].raw = list[k].raw
         \/ new[k].id \notin Ids /\ new[k].raw \notin Ids

\* What was to be written is cut short.
Lose ==
    /\ op' = <<"lost">>
    /\ \E old \in {sources}, new \in {sources'} : \E list \in Edits(old) : CutShort(new, list)

Next ==
    \/ \E s \in NewSources : AddOne(s) \/ UpdateOne(s)
    \/ \E id \in Ids : RemoveOne(id)
    \/ Rewrite \/ Lose

Spec == op = <<"hand">> /\ [][Next]_<<sources, op>>
=============================================================================
