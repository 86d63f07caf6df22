--------------------------- MODULE CredentialCell ---------------------------
(***************************************************************************)
(* What the token layer promises its callers, with every detail of locks,  *)
(* retries and storage left out: a cell holding at most one usable         *)
(* credential.  A credential is minted only while the cell is empty, only  *)
(* the newest one minted can be installed, it leaves the cell when it is   *)
(* invalidated or its lifetime ends, and only a new process (epoch) may    *)
(* find an older one in the cell again.                                    *)
(***************************************************************************)
EXTENDS Naturals

VARIABLES value,    \* the credential callers are given, 0 when there is none
          newest,   \* how many credentials have been minted so far
          epoch     \* how many processes have served the cell before this one

cellVars == <<value, newest, epoch>>

CellInit == value = 0 /\ newest = 0 /\ epoch = 0

\* A login is spent only when no caller could have been served without it.
Mint == value = 0 /\ newest' = newest + 1 /\ UNCHANGED <<value, epoch>>

\* A slow login never installs over, or instead of, a newer credential.
Install == value = 0 /\ newest # 0 /\ value' = newest /\ UNCHANGED <<newest, epoch>>

Drop == value # 0 /\ value' = 0 /\ UNCHANGED <<newest, epoch>>

\* A new process starts from what was saved: a credential minted earlier.
Reload == epoch' = epoch + 1 /\ value' \in 0 .. newest /\ UNCHANGED newest

CellNext == Mint \/ Install \/ Drop \/ Reload

CellSpec == CellInit /\ [][CellNext]_cellVars
=============================================================================
