------------------------- MODULE DatasetStoreProofs -------------------------
(***************************************************************************)
(* Proofs about DatasetStore, for every set of clients, every bound on     *)
(* requests and restarts, and every choice of operations.                  *)
(***************************************************************************)
EXTENDS DatasetStore, FiniteSetTheorems, SequenceTheorems, WellFoundedInduction, TLAPS

-----------------------------------------------------------------------------
(* The inductive invariant.                                                *)

Connecting == {c \in Clients : pc[c] = "connect"}
Deleting(c) == pc[c] \in {"scan", "unlink", "rmdir"}

\* Where a request has a version directory.
HasVersion(c) == pc[c] \in {"result", "fingerprint", "manifest", "readMeta",
                            "openMeta", "fillMeta", "fillUnlinked", "convert"}

\* What TypeOK leaves out.
Locals ==
    /\ \A c \in Clients : IsInjective(seen[c])
    /\ \A c \in Clients : (pc[c] = "idle") <=> (op[c] = 0)
    /\ \A c \in Clients : HasVersion(c) => version[c] \in Numbers

\* A snapshot that has still to choose its version will find one within the bounds: every
\* version directory is due to a request that has chosen.
Numbered ==
    /\ IsFiniteSet(Connecting) /\ Cardinality(Connecting) <= ops
    /\ \A n \in Dirs : n + Cardinality(Connecting) <= ops
    /\ \A c \in Clients : version[c] + Cardinality(Connecting) <= ops

\* Requests are numbered apart, and the first one is create(): until it has returned an id
\* no other request is made.
Requests ==
    /\ \A c \in Clients : op[c] <= ops
    /\ \A c, d \in Clients : op[c] = op[d] /\ op[c] # 0 => c = d
    /\ \A c \in Clients : IF known THEN op[c] # 1 ELSE op[c] \in {0, 1}
    /\ known => ops # 0
    /\ ~known => recorded = {} /\ ~deleted /\ \A c \in Clients : ~Deleting(c) /\ pc[c] # "convert"

Shape == TypeOK /\ Locals /\ Numbered /\ Requests

\* A version that a request has finished.
Complete(n) == dir[n].result # 0 /\ dir[n].manifest = dir[n].result

\* As long as nothing is deleted.
NothingDeleted ==
    /\ \A c \in Clients : ~Deleting(c) /\ pc[c] # "fillUnlinked"
    /\ \A c \in Clients : Writing(c) => version[c] \in Dirs /\ dir[version[c]].manifest = 0
    /\ \A c, d \in Clients : Writing(c) /\ Writing(d) /\ version[c] = version[d] => c = d
    /\ \A c \in Clients : pc[c] \in {"fingerprint", "manifest"} => dir[version[c]].result = op[c]
    /\ \A c \in Clients : pc[c] = "readMeta" => Complete(version[c])
    /\ \A c \in Clients : pc[c] \in {"openMeta", "fillMeta"} =>
         \A n \in ToSet(seen[c]) : Complete(n)
    /\ \A n \in ToSet(meta.versions) : Complete(n)

\* The last one is the highest.
Ascends(s) == \A k \in DOMAIN s : s[k] <= s[Len(s)]

\* As long as requests come one at a time.
OneAtATime ==
    /\ \A c, d \in Clients : pc[c] # "idle" /\ pc[d] # "idle" => c = d
    /\ \A c \in Clients : pc[c] # "fillUnlinked"
    /\ \A c \in Clients : Writing(c) =>
         /\ ~dir[version[c]].exported /\ ~dir[version[c]].foreign
         /\ \A n \in ToSet(meta.versions) : n < version[c]
    /\ \A c \in Clients : pc[c] = "readMeta" =>
         /\ ~dir[version[c]].foreign
         /\ \A n \in ToSet(meta.versions) : n < version[c]
    /\ \A c \in Clients : pc[c] \in {"openMeta", "fillMeta"} =>
         /\ recorded \cup {version[c]} \subseteq ToSet(seen[c])
         /\ ToSet(seen[c]) \subseteq Dirs
         /\ Ascends(seen[c])
         /\ \A n \in ToSet(seen[c]) : ~dir[n].foreign
    /\ \A c \in Clients : pc[c] \in {"readMeta", "manifest", "fingerprint"} => version[c] \in Dirs
    /\ \A c \in Clients : pc[c] = "unlink" => Remains \subseteq doomed[c] \cup spared
    /\ \A c \in Clients : pc[c] = "rmdir" => Remains \subseteq spared
    /\ \A c \in Clients : pc[c] # "idle" => spared = {} \/ Deleting(c)
    /\ (\A c \in Clients : ~Deleting(c)) /\ spared = {} => ToSet(meta.versions) \subseteq Dirs
    /\ Ascends(meta.versions)
    /\ ChainHolds(recorded)
    /\ deleted => /\ \A c \in Clients : pc[c] = "idle"
                  /\ Remains \subseteq spared /\ (present => spared # {})
    /\ \A n \in ToSet(meta.versions) : ~dir[n].foreign

Inv == Shape /\ (~doom => NothingDeleted) /\ (orderly => OneAtATime)

-----------------------------------------------------------------------------
(* Version numbers, version lists and directories.                         *)

\* A set of version numbers that is not empty has a highest one: the sets of the
\* numbers above each of its elements are ordered by inclusion.
LEMMA HighestVersion ==
    ASSUME NEW n \in Nat, NEW S, S \subseteq 1 .. n, S # {}
    PROVE  Max(S) \in S /\ \A k \in S : k <= Max(S)
<1> DEFINE D == 1 .. n
           Above(k) == {j \in S : j > k}
           F == {Above(k) : k \in S}
<1>1. IsWellFoundedOn(StrictSubsetOrdering(D), FiniteSubsetsOf(D))
  BY FS_StrictSubsetOrderingWellFounded
<1>2. F \subseteq FiniteSubsetsOf(D) /\ F # {}
  <2>1. F \subseteq SUBSET D /\ F # {}
    OBVIOUS
  <2>2. IsFiniteSet(D)
    BY FS_Interval
  <2>3. FiniteSubsetsOf(D) = SUBSET D
    BY <2>2, FS_FiniteSubsetsOfFinite
  <2>4. QED
    BY <2>1, <2>3
<1>3. PICK X \in F : \A Y \in F : <<Y, X>> \notin StrictSubsetOrdering(D)
  <2> HIDE DEF F
  <2>1. QED
    BY <1>1, <1>2, WFMin
<1>4. PICK m \in S : X = Above(m)
  OBVIOUS
<1>5. ASSUME NEW k \in S, k > m PROVE FALSE
  <2>1. m \in Int /\ k \in Int /\ \A j \in S : j \in Int
    OBVIOUS
  <2>2. \A j \in S : j > k => j > m
    BY <1>5, <2>1
  <2>3. Above(k) \subseteq Above(m)
    BY <2>2
  <2>4. k \in Above(m) /\ k \notin Above(k)
    BY <1>5, <2>1
  <2>5. Above(k) \in F /\ Above(k) \in SUBSET D /\ Above(m) \in SUBSET D
    OBVIOUS
  <2> HIDE DEF F, Above, D
  <2>6. <<Above(k), Above(m)>> \in StrictSubsetOrdering(D)
    BY <2>3, <2>4, <2>5 DEF StrictSubsetOrdering
  <2>7. QED
    BY <1>3, <1>4, <2>5, <2>6
<1>6. \A k \in S : m >= k
  <2>1. m \in Int /\ \A j \in S : j \in Int
    OBVIOUS
  <2>2. QED
    BY <1>5, <2>1
<1>7. QED
  BY <1>6 DEF Max


\* A version list with one more version at its end.
LEMMA VersionAdded ==
    ASSUME NEW s \in Seq(Numbers), IsInjective(s), NEW v \in Numbers
    PROVE  /\ AddVersion(s, v) \in Seq(Numbers) /\ IsInjective(AddVersion(s, v))
           /\ ToSet(AddVersion(s, v)) = ToSet(s) \cup {v}
           /\ Ascends(s) /\ (\A n \in ToSet(s) : n < v) => Ascends(AddVersion(s, v))
<1>1. DOMAIN s = 1 .. Len(s) /\ Len(s) \in Nat
  BY LenProperties
<1>2. CASE Contains(s, v)
  BY <1>1, <1>2 DEF Contains, AddVersion, ToSet
<1>3. CASE ~Contains(s, v)
  <2> DEFINE t == Append(s, v)
  <2>1. AddVersion(s, v) = t
    BY <1>3 DEF AddVersion
  <2>2. /\ t \in Seq(Numbers) /\ DOMAIN t = 1 .. Len(s) + 1 /\ Len(t) = Len(s) + 1
        /\ \A k \in 1 .. Len(s) : t[k] = s[k]
        /\ t[Len(s) + 1] = v
    BY <1>1, AppendProperties, LenProperties
  <2> HIDE DEF t
  <2>3. \A k \in DOMAIN t : (k \in DOMAIN s /\ t[k] = s[k]) \/ (k = Len(s) + 1 /\ t[k] = v)
    BY <1>1, <2>2
  <2>4. \A k \in DOMAIN s : s[k] # v /\ k # Len(s) + 1
    BY <1>1, <1>3 DEF Contains
  <2>5. IsInjective(t)
    BY <2>3, <2>4 DEF IsInjective
  <2>6. ToSet(t) = ToSet(s) \cup {v}
    BY <1>1, <2>2, <2>3 DEF ToSet
  <2>7. ASSUME \A n \in ToSet(s) : n < v PROVE Ascends(t)
    <3>1. \A k \in DOMAIN s : s[k] < v
      BY <2>7 DEF ToSet
    <3>2. \A k \in DOMAIN s : s[k] \in Int
      BY <1>1, DatasetAssumption DEF Numbers
    <3>3. v \in Int /\ Len(t) = Len(s) + 1 /\ t[Len(t)] = v
      BY <2>2, DatasetAssumption DEF Numbers
    <3>4. \A k \in DOMAIN t : t[k] <= v
      BY <2>3, <3>1, <3>2, <3>3
    <3>5. QED
      BY <3>3, <3>4 DEF Ascends
  <2>8. QED
    BY <2>1, <2>2, <2>5, <2>6, <2>7
<1>4. QED
  BY <1>2, <1>3

\* The chain of a new dataset.
LEMMA FirstVersion ==
    ASSUME NEW v \in Numbers
    PROVE  /\ <<v>> \in Seq(Numbers) /\ IsInjective(<<v>>)
           /\ ToSet(<<v>>) = {v} /\ Ascends(<<v>>)
<1>1. <<v>> \in Seq(Numbers) /\ DOMAIN <<v>> = {1} /\ <<v>>[1] = v /\ Len(<<v>>) = 1
  OBVIOUS
<1>2. v <= v
  BY DatasetAssumption DEF Numbers
<1>3. QED
  BY <1>1, <1>2 DEF IsInjective, ToSet, Ascends

LEMMA NoVersions ==
    /\ <<>> \in Seq(Numbers) /\ IsInjective(<<>>) /\ ToSet(<<>>) = {} /\ Ascends(<<>>)
BY DEF IsInjective, ToSet, Ascends

\* What metadata.json may hold.
LEMMA MetaFiles ==
    ASSUME NEW s \in Seq(Numbers), IsInjective(s), NEW m \in {NoMeta, Torn, Meta(s)}
    PROVE  /\ m \in {NoMeta, Torn} \cup {Meta(r) : r \in {m.versions}}
           /\ m.versions \in Seq(Numbers) /\ IsInjective(m.versions)
<1>1. CASE m = NoMeta
  <2>1. m.versions = <<>>
    BY <1>1 DEF NoMeta
  <2>2. QED
    BY <1>1, <2>1, NoVersions
<1>2. CASE m = Torn
  <2>1. m.versions = <<>>
    BY <1>2 DEF Torn
  <2>2. QED
    BY <1>2, <2>1, NoVersions
<1>3. CASE m = Meta(s)
  <2>1. m.versions = s
    BY <1>3 DEF Meta
  <2>2. QED
    BY <1>3, <2>1
<1>4. QED
  BY <1>1, <1>2, <1>3

\* The version that a snapshot chooses is within the bound, and above every one there is.
LEMMA FreshVersion ==
    ASSUME Shape, NEW c \in Clients, pc[c] = "connect"
    PROVE  /\ NextVersion \in Numbers /\ dir[NextVersion] = NoDir
           /\ \A n \in Dirs : n < NextVersion
           /\ IsFiniteSet(Connecting \ {c})
           /\ NextVersion + Cardinality(Connecting \ {c}) <= ops
<1>1. /\ ops \in Nat /\ ops <= MaxOps /\ MaxOps \in Nat
      /\ \A n \in Numbers : dir[n].exists \/ dir[n] = NoDir
  BY DatasetAssumption DEF Shape, TypeOK
<1>2. c \in Connecting /\ IsFiniteSet(Connecting)
  BY DEF Connecting, Shape, Numbered
<1> DEFINE w == Cardinality(Connecting)
           w1 == Cardinality(Connecting \ {c})
<1>3. w \in Nat /\ w1 \in Nat /\ w1 = w - 1 /\ IsFiniteSet(Connecting \ {c})
  <2>1. IsFiniteSet(Connecting \ {c}) /\ Cardinality(Connecting \ {c}) = Cardinality(Connecting) - 1
    BY <1>2, FS_RemoveElement
  <2>2. w \in Nat /\ w1 \in Nat
    BY <1>2, <2>1, FS_CardinalityType
  <2>3. QED
    BY <2>1, <2>2
<1>4. w <= ops /\ \A n \in Dirs : n + w <= ops
  BY DEF Shape, Numbered
<1> HIDE DEF w, w1
<1>5. CASE Dirs = {}
  <2>1. NextVersion = 1
    BY <1>5 DEF NextVersion
  <2>2. 1 \in Numbers /\ 1 + w1 <= ops
    BY <1>1, <1>3, <1>4 DEF Numbers
  <2>3. 1 \notin Dirs
    BY <1>5
  <2>4. QED
    BY <1>1, <1>3, <1>5, <2>1, <2>2, <2>3 DEF Dirs, w1
<1>6. CASE Dirs # {}
  <2>1. Dirs \subseteq 1 .. MaxOps
    BY DEF Dirs, Numbers
  <2>2. Max(Dirs) \in Dirs /\ \A n \in Dirs : n <= Max(Dirs)
    BY <1>1, <1>6, <2>1, HighestVersion
  <2>3. NextVersion = Max(Dirs) + 1
    BY <1>6 DEF NextVersion
  <2>4. Max(Dirs) \in 1 .. MaxOps /\ Max(Dirs) + w <= ops
    BY <1>4, <2>1, <2>2
  <2>5. NextVersion \in 1 .. MaxOps /\ NextVersion + w1 <= ops /\ \A n \in Dirs : n < NextVersion
    BY <1>1, <1>3, <2>1, <2>2, <2>3, <2>4
  <2>6. NextVersion \notin Dirs
    BY <2>5
  <2>7. QED
    BY <1>1, <1>3, <2>5, <2>6 DEF Dirs, Numbers, w1
<1>7. QED
  BY <1>5, <1>6

-----------------------------------------------------------------------------
(* Every step keeps the shape of the state.                                *)

\* What a step writes into one version directory.
Writes(v, record) ==
    /\ v \in Numbers /\ record \in VersionDir /\ record.exists
    /\ dir' = [dir EXCEPT ![v] = record]

LEMMA DirectoriesWritten ==
    ASSUME Shape, NEW c \in Clients
    PROVE  /\ BeginVersion(c) => Writes(NextVersion, [NoDir EXCEPT !.exists = TRUE])
           /\ WriteResult(c) => Writes(version[c], [dir[version[c]] EXCEPT !.exists = TRUE,
                                                                          !.result = op[c]])
           /\ Fingerprint(c) => Writes(version[c], [dir[version[c]] EXCEPT
                                                      !.foreign = dir[version[c]].exported])
           /\ WriteManifest(c) => Writes(version[c], [dir[version[c]] EXCEPT !.manifest = op[c]])
<1>1. /\ dir \in [Numbers -> VersionDir] /\ op[c] \in 0 .. MaxOps /\ MaxOps \in Nat
      /\ (HasVersion(c) => version[c] \in Numbers)
  BY DatasetAssumption DEF Shape, TypeOK, Locals
<1>2. ASSUME BeginVersion(c) PROVE Writes(NextVersion, [NoDir EXCEPT !.exists = TRUE])
  <2>1. NextVersion \in Numbers /\ dir[NextVersion] = NoDir
    BY <1>2, FreshVersion DEF BeginVersion
  <2>2. dir' = [dir EXCEPT ![NextVersion].exists = TRUE]
    BY <1>2 DEF BeginVersion
  <2>3. QED
    BY <1>1, <2>1, <2>2 DEF Writes, NoDir, VersionDir
<1>3. ASSUME WriteResult(c)
      PROVE  Writes(version[c], [dir[version[c]] EXCEPT !.exists = TRUE, !.result = op[c]])
  <2>1. version[c] \in Numbers
    BY <1>1, <1>3 DEF WriteResult, HasVersion
  <2>2. dir' = [dir EXCEPT ![version[c]].exists = TRUE, ![version[c]].result = op[c]]
    BY <1>3 DEF WriteResult
  <2>3. QED
    BY <1>1, <2>1, <2>2 DEF Writes, VersionDir
<1>4. ASSUME Fingerprint(c)
      PROVE  Writes(version[c], [dir[version[c]] EXCEPT !.foreign = dir[version[c]].exported])
  BY <1>1, <1>4 DEF Fingerprint, Dirs, Writes, VersionDir
<1>5. ASSUME WriteManifest(c)
      PROVE  Writes(version[c], [dir[version[c]] EXCEPT !.manifest = op[c]])
  BY <1>1, <1>5 DEF WriteManifest, Dirs, Writes, VersionDir
<1>6. QED
  BY <1>2, <1>3, <1>4, <1>5

LEMMA CopiesWritten ==
    ASSUME Shape, NEW c \in Clients, Convert(c)
    PROVE  \/ UNCHANGED <<present, dir>>
           \/ present' = TRUE
              /\ Writes(version[c], [dir[version[c]] EXCEPT !.exists = TRUE, !.exported = TRUE])
<1>1. dir \in [Numbers -> VersionDir] /\ version[c] \in Numbers
  BY DEF Shape, TypeOK, Locals, HasVersion, Convert
<1>2. \/ UNCHANGED <<present, dir>>
      \/ present' = TRUE
         /\ dir' = [dir EXCEPT ![version[c]].exists = TRUE, ![version[c]].exported = TRUE]
  BY DEF Convert
<1>3. CASE present' = TRUE
           /\ dir' = [dir EXCEPT ![version[c]].exists = TRUE, ![version[c]].exported = TRUE]
  BY <1>1, <1>3 DEF Writes, VersionDir
<1>4. QED
  BY <1>2, <1>3

\* The version directories there are after such a write.
LEMMA DirsWritten ==
    ASSUME Shape, NEW v, NEW record, Writes(v, record)
    PROVE  /\ Dirs' = Dirs \cup {v} /\ dir' \in [Numbers -> VersionDir]
           /\ \A n \in Numbers : dir'[n].exists \/ dir'[n] = NoDir
           /\ dir'[v] = record /\ \A n \in Numbers \ {v} : dir'[n] = dir[n]
BY DEF Shape, TypeOK, Writes, Dirs

\* A request that is under way may use a number, and one that has ended frees none.
LEMMA NumberedKept ==
    ASSUME Shape, TypeOK', Connecting' \subseteq Connecting, ops' = ops,
           \A n \in Dirs' : n \in Dirs \/ n + Cardinality(Connecting') <= ops,
           \A d \in Clients : \/ version'[d] = version[d] \/ version'[d] = 0
                              \/ version'[d] + Cardinality(Connecting') <= ops
    PROVE  Numbered'
<1> DEFINE w  == Cardinality(Connecting)
           w1 == Cardinality(Connecting')
<1>1. IsFiniteSet(Connecting') /\ w \in Nat /\ w1 \in Nat /\ w1 <= w
  BY FS_Subset, FS_CardinalityType DEF Shape, Numbered
<1>2. /\ ops \in Nat /\ Dirs \subseteq Nat /\ Dirs' \subseteq Nat
      /\ \A d \in Clients : version[d] \in Nat /\ version'[d] \in Nat
  BY DatasetAssumption DEF Shape, TypeOK, Dirs, Numbers
<1>3. w <= ops /\ (\A n \in Dirs : n + w <= ops) /\ \A d \in Clients : version[d] + w <= ops
  BY DEF Shape, Numbered
<1>4. /\ \A n \in Dirs' : n \in Dirs \/ n + w1 <= ops
      /\ \A d \in Clients : version'[d] = version[d] \/ version'[d] = 0 \/ version'[d] + w1 <= ops
  OBVIOUS
<1> HIDE DEF w, w1
<1>5. w1 <= ops /\ (\A n \in Dirs' : n + w1 <= ops) /\ \A d \in Clients : version'[d] + w1 <= ops
  BY <1>1, <1>2, <1>3, <1>4
<1>6. QED
  BY <1>1, <1>5 DEF Numbered, w1

LEMMA NumberedMore ==
    ASSUME Shape, TypeOK', NEW c \in Clients, Connecting' \subseteq Connecting \cup {c},
           ops' = ops + 1, Dirs' = Dirs,
           \A d \in Clients : version'[d] = version[d] \/ version'[d] \in Dirs
    PROVE  Numbered'
<1> DEFINE w  == Cardinality(Connecting)
           w1 == Cardinality(Connecting')
<1>1. IsFiniteSet(Connecting') /\ w \in Nat /\ w1 \in Nat /\ w1 <= w + 1
  <2>1. IsFiniteSet(Connecting) /\ IsFiniteSet(Connecting \cup {c})
    BY FS_AddElement DEF Shape, Numbered
  <2>2. Cardinality(Connecting \cup {c}) <= w + 1 /\ w \in Nat
    <3>1. w \in Nat
      BY <2>1, FS_CardinalityType
    <3>2. \/ Cardinality(Connecting \cup {c}) = w
          \/ Cardinality(Connecting \cup {c}) = w + 1
      BY <2>1, FS_AddElement
    <3> HIDE DEF w
    <3>3. QED
      BY <3>1, <3>2
  <2>3. IsFiniteSet(Connecting') /\ w1 <= Cardinality(Connecting \cup {c})
    BY <2>1, FS_Subset
  <2>4. w1 \in Nat /\ Cardinality(Connecting \cup {c}) \in Nat
    BY <2>1, <2>3, FS_CardinalityType
  <2>5. QED
    BY <2>2, <2>3, <2>4
<1>2. /\ ops \in Nat /\ Dirs \subseteq Nat
      /\ \A d \in Clients : version[d] \in Nat /\ version'[d] \in Nat
  BY DatasetAssumption DEF Shape, TypeOK, Dirs, Numbers
<1>3. w <= ops /\ (\A n \in Dirs : n + w <= ops) /\ \A d \in Clients : version[d] + w <= ops
  BY DEF Shape, Numbered
<1>4. /\ ops' = ops + 1 /\ Dirs' = Dirs
      /\ \A d \in Clients : version'[d] = version[d] \/ version'[d] \in Dirs
  OBVIOUS
<1> HIDE DEF w, w1
<1>5. w1 <= ops' /\ (\A n \in Dirs' : n + w1 <= ops') /\ \A d \in Clients : version'[d] + w1 <= ops'
  <2>1. \A n \in Nat : n + w <= ops => n + w1 <= ops + 1
    BY <1>1, <1>2
  <2>2. w1 <= ops + 1
    BY <1>1, <1>2, <1>3
  <2>3. QED
    BY <1>2, <1>3, <1>4, <2>1, <2>2
<1>6. QED
  BY <1>1, <1>5 DEF Numbered, w1

\* A request arrives.
Arrival(c) == Create(c) \/ CreateSnapshot(c) \/ Delete(c) \/ \E n \in Numbers : Export(c, n)

LEMMA ArrivalShape == ASSUME Shape, NEW c \in Clients, Arrival(c) PROVE Shape'
<1>1. PICK step \in {"connect", "scan", "convert"} :
        /\ Arrive(c, step)
        /\ known \/ (ops = 0 /\ step = "connect")
        /\ IF step = "convert" THEN \E n \in Dirs : version' = [version EXCEPT ![c] = n]
                               ELSE version' = version
  BY DEF Arrival, Create, CreateSnapshot, Delete, Export
<1>2. /\ UNCHANGED <<dir, meta, seen, doomed, recorded, known, crashes>>
      /\ (deleted' => deleted) /\ deleted' \in BOOLEAN /\ spared' \in {spared, {}}
      /\ present' \in BOOLEAN /\ doom' \in BOOLEAN /\ orderly' \in BOOLEAN
  <2>1. deleted \in BOOLEAN /\ present \in BOOLEAN /\ doom \in BOOLEAN /\ orderly \in BOOLEAN
    BY DEF Shape, TypeOK
  <2>2. (deleted' = deleted /\ spared' = spared /\ doom' = doom)
        \/ (deleted' = FALSE /\ spared' = {} /\ doom' = TRUE)
    BY DEF Arrival, Create, CreateSnapshot, Delete, Export, answers
  <2>3. UNCHANGED <<dir, meta, seen, doomed, recorded, known, crashes>> /\ present' \in {present, TRUE}
    BY DEF Arrival, Create, CreateSnapshot, Delete, Export, answers, disk
  <2>4. orderly' \in BOOLEAN
    BY <1>1 DEF Arrive
  <2>5. deleted' \in BOOLEAN /\ (deleted' => deleted) /\ spared' \in {spared, {}} /\ doom' \in BOOLEAN
    <3>1. CASE deleted' = deleted /\ spared' = spared /\ doom' = doom
      BY <2>1, <3>1
    <3>2. CASE deleted' = FALSE /\ spared' = {} /\ doom' = TRUE
      BY <3>2
    <3>3. QED
      BY <2>2, <3>1, <3>2
  <2>6. QED
    BY <2>1, <2>3, <2>4, <2>5
<1>3. /\ pc[c] = "idle" /\ ops' = ops + 1
      /\ pc' = [pc EXCEPT ![c] = step] /\ op' = [op EXCEPT ![c] = ops + 1]
      /\ ops \in Nat /\ ops + 1 \in 0 .. MaxOps /\ ops + 1 # 0
  BY <1>1, DatasetAssumption DEF Arrive, Shape, TypeOK
<1>4. /\ pc \in [Clients -> Steps] /\ op \in [Clients -> 0 .. MaxOps]
      /\ version \in [Clients -> 0 .. MaxOps] /\ Dirs \subseteq 0 .. MaxOps /\ Dirs \subseteq Numbers
      /\ MaxOps \in Nat
  BY DatasetAssumption DEF Shape, TypeOK, Dirs, Numbers
<1>5. version' \in [Clients -> 0 .. MaxOps] /\ Dirs' = Dirs
  BY <1>1, <1>2, <1>4 DEF Dirs
<1>6. pc' \in [Clients -> Steps] /\ op' \in [Clients -> 0 .. MaxOps]
  BY <1>1, <1>3, <1>4 DEF Steps
<1>7. TypeOK'
  BY <1>2, <1>3, <1>5, <1>6 DEF Shape, TypeOK
<1>8. Locals'
  <2>1. \A d \in Clients : HasVersion(d)' => version'[d] \in Numbers
    BY <1>1, <1>3, <1>4 DEF Shape, Locals, HasVersion
  <2>2. \A d \in Clients : (pc'[d] = "idle") <=> (op'[d] = 0)
    BY <1>1, <1>3, <1>4 DEF Shape, Locals
  <2>3. QED
    BY <1>2, <2>1, <2>2 DEF Shape, Locals
<1>9. Numbered'
  <2>1. Connecting' \subseteq Connecting \cup {c}
    BY <1>3, <1>4 DEF Connecting
  <2>2. \A d \in Clients : version'[d] = version[d] \/ version'[d] \in Dirs
    BY <1>1, <1>4
  <2>3. QED
    BY <1>3, <1>5, <1>7, <2>1, <2>2, NumberedMore
<1>10. Requests'
  <2>1. \A d \in Clients : op[d] <= ops /\ op[d] \in Nat
    BY <1>4 DEF Shape, Requests
  <2>2. \A d \in Clients : op'[d] = IF d = c THEN ops + 1 ELSE op[d]
    BY <1>3, <1>4
  <2>3. /\ \A d \in Clients : op'[d] <= ops'
        /\ \A d, e \in Clients : op'[d] = op'[e] /\ op'[d] # 0 => d = e
    BY <1>3, <2>1, <2>2 DEF Shape, Requests
  <2>4. CASE known
    <3>1. ops # 0 /\ \A d \in Clients : op'[d] # 1
      BY <1>3, <2>2, <2>4 DEF Shape, Requests
    <3>2. QED
      BY <1>2, <1>3, <2>3, <2>4, <3>1 DEF Requests
  <2>5. CASE ~known
    <3>1. ops = 0 /\ step = "connect"
      BY <1>1, <2>5
    <3>2. \A d \in Clients : op'[d] \in {0, 1}
      BY <2>2, <2>5, <3>1 DEF Shape, Requests
    <3>3. \A d \in Clients : ~Deleting(d)' /\ pc'[d] # "convert"
      BY <1>3, <1>4, <2>5, <3>1 DEF Shape, Requests, Deleting
    <3>4. recorded' = {} /\ ~deleted'
      BY <1>2, <2>5 DEF Shape, Requests
    <3>5. QED
      BY <1>2, <2>3, <2>5, <3>2, <3>3, <3>4 DEF Requests
  <2>6. QED
    BY <2>4, <2>5
<1>11. QED
  BY <1>7, <1>8, <1>9, <1>10 DEF Shape

\* A request goes on: its control state, its version or what it has read change, and so may
\* the disk.
LEMMA ProgressShape ==
    ASSUME Shape, NEW c \in Clients, NEW step \in Steps \ {"idle", "convert"}, pc[c] # "idle",
           TypeOK',
           \A d \in Clients : \/ pc'[d] = pc[d] \/ (d = c /\ pc'[d] = step)
                              \/ (pc'[d] = "fillUnlinked" /\ pc[d] = "fillMeta"),
           step \in {"scan", "unlink", "rmdir"} => Deleting(c), step # "connect",
           UNCHANGED <<op, ops, recorded, deleted, known>>,
           \A d \in Clients : IsInjective(seen'[d]),
           \A n \in Dirs' : n \in Dirs \/ n + Cardinality(Connecting') <= ops,
           \A d \in Clients : \/ version'[d] = version[d]
                              \/ /\ version'[d] \in Numbers
                                 /\ version'[d] + Cardinality(Connecting') <= ops,
           version'[c] \in Numbers \/ ~HasVersion(c)'
    PROVE  Shape'
<1>1. Locals'
  <2>1. \A d \in Clients : HasVersion(d)' => version'[d] \in Numbers
    BY DEF Shape, Locals, HasVersion
  <2>2. \A d \in Clients : (pc'[d] = "idle") <=> (op'[d] = 0)
    BY DEF Shape, Locals, Steps
  <2>3. QED
    BY <2>1, <2>2 DEF Locals
<1>2. Numbered'
  <2>1. Connecting' \subseteq Connecting
    BY DEF Connecting
  <2>2. QED
    BY <2>1, NumberedKept
<1>3. Requests'
  BY DEF Shape, Requests, Deleting
<1>4. QED
  BY <1>1, <1>2, <1>3 DEF Shape

\* A request ends.
LEMMA LeaveShape ==
    ASSUME Shape, NEW c \in Clients, Leave(c), TypeOK', UNCHANGED <<ops>>,
           \A n \in Dirs' : n \in Dirs \/ n + Cardinality(Connecting) <= ops, pc[c] # "connect",
           \/ UNCHANGED <<recorded, deleted, known>>
           \/ known' = TRUE /\ ops # 0 /\ \A d \in Clients \ {c} : op[d] # 1
    PROVE  Shape'
<1>1. /\ pc \in [Clients -> Steps] /\ op \in [Clients -> 0 .. MaxOps]
      /\ version \in [Clients -> 0 .. MaxOps] /\ seen \in [Clients -> Seq(Numbers)]
      /\ ops \in Nat
  BY DatasetAssumption DEF Shape, TypeOK
<1>2. \A d \in Clients :
        /\ pc'[d] = IF d = c THEN "idle" ELSE pc[d]
        /\ op'[d] = IF d = c THEN 0 ELSE op[d]
        /\ version'[d] = IF d = c THEN 0 ELSE version[d]
        /\ seen'[d] = IF d = c THEN <<>> ELSE seen[d]
  BY <1>1 DEF Leave, Goto
<1>3. Locals'
  <2>1. \A d \in Clients : IsInjective(seen'[d])
    BY <1>2, NoVersions DEF Shape, Locals
  <2>2. \A d \in Clients : HasVersion(d)' => version'[d] \in Numbers
    BY <1>2 DEF Shape, Locals, HasVersion
  <2>3. \A d \in Clients : (pc'[d] = "idle") <=> (op'[d] = 0)
    BY <1>2 DEF Shape, Locals
  <2>4. QED
    BY <2>1, <2>2, <2>3 DEF Locals
<1>4. Numbered'
  <2>1. Connecting' = Connecting
    BY <1>2 DEF Connecting
  <2>2. \A d \in Clients : version'[d] = version[d] \/ version'[d] = 0
    BY <1>2
  <2>3. QED
    BY <2>1, <2>2, NumberedKept
<1>5. Requests'
  <2>1. /\ \A d \in Clients : op'[d] <= ops'
        /\ \A d, e \in Clients : op'[d] = op'[e] /\ op'[d] # 0 => d = e
    <3>1. 0 <= ops /\ ops' = ops /\ \A d \in Clients : op[d] <= ops
      BY <1>1 DEF Shape, Requests
    <3>2. \A d, e \in Clients : op[d] = op[e] /\ op[d] # 0 => d = e
      BY DEF Shape, Requests
    <3>3. QED
      BY <1>2, <3>1, <3>2
  <2>2. CASE UNCHANGED <<recorded, deleted, known>>
    BY <1>2, <2>1, <2>2 DEF Shape, Requests, Deleting
  <2>3. CASE known' = TRUE /\ ops # 0 /\ \A d \in Clients \ {c} : op[d] # 1
    BY <1>2, <2>1, <2>3 DEF Shape, Requests
  <2>4. QED
    BY <2>2, <2>3
<1>6. QED
  BY <1>3, <1>4, <1>5 DEF Shape

LEMMA RestartShape == ASSUME Shape, Restart PROVE Shape'
<1>1. TypeOK'
  BY NoVersions, DatasetAssumption DEF Restart, Shape, TypeOK, disk, answers, Steps
<1>2. Locals'
  BY NoVersions DEF Restart, Locals, HasVersion
<1>3. Numbered'
  <2>1. Connecting' = {} /\ Dirs' = Dirs /\ ops' = ops /\ \A d \in Clients : version'[d] = 0
    BY DEF Restart, Connecting, Dirs, disk
  <2>2. QED
    BY <1>1, <2>1, NumberedKept
<1>4. Requests'
  BY DatasetAssumption DEF Restart, Shape, TypeOK, Requests, Deleting, answers
<1>5. QED
  BY <1>1, <1>2, <1>3, <1>4 DEF Shape

LEMMA BeginShape == ASSUME Shape, NEW c \in Clients, BeginVersion(c) PROVE Shape'
<1>1. /\ pc[c] = "connect" /\ pc' = [pc EXCEPT ![c] = "result"] /\ present' = TRUE
      /\ version' = [version EXCEPT ![c] = NextVersion]
      /\ UNCHANGED <<meta, op, seen, doomed, answers, history, ops, crashes>>
  BY DEF BeginVersion, Goto
<1>2. /\ NextVersion \in Numbers /\ Dirs' = Dirs \cup {NextVersion}
      /\ dir' \in [Numbers -> VersionDir]
      /\ \A n \in Numbers : dir'[n].exists \/ dir'[n] = NoDir
  <2>1. Writes(NextVersion, [NoDir EXCEPT !.exists = TRUE])
    BY DirectoriesWritten
  <2>2. QED
    BY <2>1, DirsWritten DEF Writes
<1>3. pc \in [Clients -> Steps] /\ version \in [Clients -> 0 .. MaxOps] /\ NextVersion \in 0 .. MaxOps
  BY <1>2, DatasetAssumption DEF Shape, TypeOK, Numbers
<1>4. TypeOK'
  <2>1. pc' \in [Clients -> Steps] /\ version' \in [Clients -> 0 .. MaxOps]
    BY <1>1, <1>3 DEF Steps
  <2>2. QED
    BY <1>1, <1>2, <2>1 DEF Shape, TypeOK, answers, history
<1>5. NextVersion + Cardinality(Connecting') <= ops
  <2>1. Connecting' = Connecting \ {c}
    BY <1>1, <1>3 DEF Connecting
  <2>2. QED
    BY <1>1, <2>1, FreshVersion
<1>6. \A d \in Clients : IsInjective(seen'[d])
  BY <1>1 DEF Shape, Locals
<1>7. QED
  <2>1. "result" \in Steps \ {"idle", "convert"}
    BY DEF Steps
  <2>2. \A d \in Clients : pc'[d] = pc[d] \/ (d = c /\ pc'[d] = "result")
    BY <1>1, <1>3
  <2>3. \A n \in Dirs' : n \in Dirs \/ n + Cardinality(Connecting') <= ops
    BY <1>2, <1>5
  <2>4. /\ \A d \in Clients : \/ version'[d] = version[d]
                              \/ /\ version'[d] \in Numbers
                                 /\ version'[d] + Cardinality(Connecting') <= ops
        /\ version'[c] \in Numbers
    BY <1>1, <1>2, <1>3, <1>5
  <2>5. UNCHANGED <<op, ops, recorded, deleted, known>>
    BY <1>1 DEF answers
  <2>6. QED
    BY <1>1, <1>4, <1>6, <2>1, <2>2, <2>3, <2>4, <2>5, ProgressShape

\* The other steps of a snapshot that write into its version directory.
LEMMA WriteShape ==
    ASSUME Shape, NEW c \in Clients, WriteResult(c) \/ Fingerprint(c) \/ WriteManifest(c)
    PROVE  Shape'
<1>1. /\ Writing(c) /\ version[c] \in Numbers
      /\ pc \in [Clients -> Steps] /\ seen \in [Clients -> Seq(Numbers)]
  BY DEF WriteResult, Fingerprint, WriteManifest, Writing, Shape, TypeOK, Locals, HasVersion
<1>2. PICK step \in {"fingerprint", "manifest", "openMeta", "readMeta"} :
        pc' = [pc EXCEPT ![c] = step]
  BY DEF WriteResult, Fingerprint, WriteManifest, Goto
<1>3. /\ seen' = seen \/ seen' = [seen EXCEPT ![c] = <<version[c]>>]
      /\ present' \in BOOLEAN
      /\ UNCHANGED <<meta, op, version, doomed, answers, history, ops, crashes>>
  BY DEF WriteResult, Fingerprint, WriteManifest, Shape, TypeOK
<1>4. /\ Dirs' = Dirs \cup {version[c]} /\ dir' \in [Numbers -> VersionDir]
      /\ \A n \in Numbers : dir'[n].exists \/ dir'[n] = NoDir
  <2>1. \E record : Writes(version[c], record)
    BY DirectoriesWritten
  <2>2. QED
    BY <2>1, DirsWritten
<1>5. seen' \in [Clients -> Seq(Numbers)] /\ \A d \in Clients : IsInjective(seen'[d])
  BY <1>1, <1>3, FirstVersion DEF Shape, Locals
<1>6. TypeOK'
  <2>1. pc' \in [Clients -> Steps]
    BY <1>1, <1>2 DEF Steps
  <2>2. QED
    BY <1>3, <1>4, <1>5, <2>1 DEF Shape, TypeOK, answers, history
<1>7. QED
  <2>1. step \in Steps \ {"idle", "convert"} /\ step \notin {"scan", "unlink", "rmdir", "connect"}
    BY <1>2 DEF Steps
  <2>2. \A d \in Clients : pc'[d] = pc[d] \/ (d = c /\ pc'[d] = step)
    BY <1>1, <1>2
  <2>3. Connecting' = Connecting
    BY <1>1, <1>2 DEF Connecting, Writing
  <2>4. \A n \in Dirs' : n \in Dirs \/ n + Cardinality(Connecting') <= ops
    BY <1>4, <2>3 DEF Shape, Numbered
  <2>5. UNCHANGED <<version, op, ops, recorded, deleted, known>> /\ version'[c] \in Numbers
    BY <1>1, <1>3 DEF answers
  <2>6. QED
    BY <1>1, <1>5, <1>6, <2>1, <2>2, <2>4, <2>5, ProgressShape DEF Writing

\* What is left of a version directory that could not be removed is there as it was, with
\* no more in it.
LEMMA LeftBehind ==
    ASSUME Shape, NEW c \in Clients, NEW e \in Entries, UnlinkFails(c, e)
    PROVE  /\ dir' \in [Numbers -> VersionDir] /\ Dirs' = Dirs
           /\ \A n \in Numbers : /\ dir'[n].exists \/ dir'[n] = NoDir
                                 /\ dir'[n].foreign => dir[n].foreign
<1>1. /\ dir \in [Numbers -> VersionDir]
      /\ \A n \in Numbers : dir[n].exists \/ dir[n] = NoDir
  BY DEF Shape, TypeOK
<1>2. CASE dir' = dir
  BY <1>1, <1>2 DEF Dirs
<1>3. CASE e \in Numbers /\ \E left \in Leftovers(dir[e]) : dir' = [dir EXCEPT ![e] = left]
  <2>1. PICK left \in Leftovers(dir[e]) : dir' = [dir EXCEPT ![e] = left]
    BY <1>3
  <2>2. /\ left \in VersionDir /\ left.exists = dir[e].exists
        /\ left.exists \/ left = NoDir
        /\ left.foreign => dir[e].foreign
    <3>1. /\ dir[e] \in VersionDir /\ NoDir \in VersionDir /\ dir[e].exists \in BOOLEAN
          /\ dir[e].exists \/ dir[e] = NoDir
      BY <1>1, <1>3, DatasetAssumption DEF VersionDir, NoDir
    <3>2. CASE left = dir[e]
      BY <3>1, <3>2
    <3>3. CASE left = [NoDir EXCEPT !.exists = dir[e].exists]
      <4>1. /\ left \in VersionDir /\ left.exists = dir[e].exists /\ ~left.foreign
            /\ ~left.exists => left = NoDir
        BY <3>1, <3>3 DEF VersionDir, NoDir
      <4>2. QED
        BY <4>1
    <3>4. QED
      BY <2>1, <3>2, <3>3 DEF Leftovers
  <2>3. \A n \in Numbers : dir'[n] = IF n = e THEN left ELSE dir[n]
    BY <1>1, <1>3, <2>1
  <2>4. dir' \in [Numbers -> VersionDir]
    BY <1>1, <2>1, <2>2
  <2>5. Dirs' = Dirs
    BY <1>3, <2>2, <2>3 DEF Dirs
  <2>6. QED
    BY <1>1, <2>2, <2>3, <2>4, <2>5
<1>4. QED
  BY <1>2, <1>3 DEF UnlinkFails, Entries

\* The read and the opening of metadata.json, and the deletion's steps.
LEMMA MetaOrDeleteShape ==
    ASSUME Shape, NEW c \in Clients,
           ReadMeta(c) \/ OpenMeta(c) \/ Scan(c) \/ \E e \in Entries : Unlink(c, e) \/ UnlinkFails(c, e)
    PROVE  Shape'
<1>1. /\ pc \in [Clients -> Steps] /\ seen \in [Clients -> Seq(Numbers)]
      /\ meta.versions \in Seq(Numbers) /\ IsInjective(meta.versions)
      /\ doomed \in [Clients -> SUBSET Entries] /\ Dirs \subseteq Numbers
      /\ dir \in [Numbers -> VersionDir] /\ pc[c] # "connect" /\ pc[c] # "idle"
      /\ \A n \in Numbers : dir[n].exists \/ dir[n] = NoDir
  BY DEF ReadMeta, OpenMeta, Scan, Unlink, UnlinkFails, Dealt, Shape, TypeOK, Dirs
<1>2. PICK step \in {"openMeta", "fillMeta", "unlink", "rmdir"} :
        /\ step \in {"unlink", "rmdir"} => Deleting(c)
        /\ step \in {"openMeta", "fillMeta"} => HasVersion(c)
        /\ \A d \in Clients : \/ pc'[d] = pc[d] \/ (d = c /\ pc'[d] = step)
                              \/ (pc'[d] = "fillUnlinked" /\ pc[d] = "fillMeta")
  <2>1. CASE ReadMeta(c)
    BY <1>1, <2>1 DEF ReadMeta, Goto, HasVersion
  <2>2. CASE OpenMeta(c)
    BY <1>1, <2>2 DEF OpenMeta, Goto, HasVersion
  <2>3. CASE Scan(c)
    BY <1>1, <2>3 DEF Scan, Goto, Deleting
  <2>4. ASSUME NEW e \in Entries, Unlink(c, e)
        PROVE  \E step \in {"unlink", "rmdir"} :
                 /\ Deleting(c)
                 /\ \A d \in Clients : \/ pc'[d] = pc[d] \/ (d = c /\ pc'[d] = step)
                                       \/ (pc'[d] = "fillUnlinked" /\ pc[d] = "fillMeta")
    BY <1>1, <2>4 DEF Unlink, Dealt, Further, Deleting
  <2>5. ASSUME NEW e \in Entries, UnlinkFails(c, e)
        PROVE  \E step \in {"unlink", "rmdir"} :
                 /\ Deleting(c)
                 /\ \A d \in Clients : pc'[d] = pc[d] \/ (d = c /\ pc'[d] = step)
    BY <1>1, <2>5 DEF UnlinkFails, Dealt, Further, Goto, Deleting
  <2>6. QED
    BY <2>1, <2>2, <2>3, <2>4, <2>5
<1>3. /\ pc' \in [Clients -> Steps]
      /\ spared' \subseteq Entries \cup {Self}
      /\ UNCHANGED <<present, op, version, answers, orderly, doom, ops, crashes>>
  <2>1. spared \subseteq Entries \cup {Self}
    BY DEF Shape, TypeOK
  <2>2. QED
    BY <1>1, <2>1 DEF ReadMeta, OpenMeta, Scan, Unlink, UnlinkFails, Dealt, Further, Goto, Steps, disk, history
<1>4. seen' \in [Clients -> Seq(Numbers)] /\ \A d \in Clients : IsInjective(seen'[d])
  <2>1. CASE ReadMeta(c)
    <3>1. version[c] \in Numbers
      BY <2>1 DEF ReadMeta, Shape, Locals, HasVersion
    <3>2. seen' = [seen EXCEPT ![c] = AddVersion(meta.versions, version[c])]
      BY <2>1 DEF ReadMeta
    <3>3. QED
      BY <1>1, <3>1, <3>2, VersionAdded DEF Shape, Locals
  <2>2. CASE seen' = seen
    BY <1>1, <2>2 DEF Shape, Locals
  <2>3. QED
    BY <2>1, <2>2 DEF OpenMeta, Scan, Unlink, UnlinkFails
<1>5. doomed' \in [Clients -> SUBSET Entries]
  BY <1>1 DEF ReadMeta, OpenMeta, Scan, Unlink, UnlinkFails, Dealt, Entries
<1>6. /\ dir' \in [Numbers -> VersionDir] /\ Dirs' \subseteq Dirs
      /\ \A n \in Numbers : dir'[n].exists \/ dir'[n] = NoDir
  <2>1. CASE dir' = dir
    BY <1>1, <2>1 DEF Dirs
  <2>2. CASE \E e \in Numbers : dir' = [dir EXCEPT ![e] = NoDir]
    <3>1. NoDir \in VersionDir /\ ~NoDir.exists
      BY DatasetAssumption DEF NoDir, VersionDir
    <3>2. QED
      BY <1>1, <2>2, <3>1 DEF Dirs
  <2>3. CASE \E e \in Entries : UnlinkFails(c, e)
    BY <2>3, LeftBehind
  <2>4. QED
    BY <2>1, <2>2, <2>3 DEF ReadMeta, OpenMeta, Scan, Unlink, Entries, disk
<1>7. meta' = meta \/ meta' = NoMeta \/ meta' = Torn
  BY DEF ReadMeta, OpenMeta, Scan, Unlink, UnlinkFails, disk
<1>8. /\ meta' \in {NoMeta, Torn} \cup {Meta(s) : s \in {meta'.versions}}
      /\ meta'.versions \in Seq(Numbers) /\ IsInjective(meta'.versions)
  <2>1. meta \in {NoMeta, Torn, Meta(meta.versions)}
    BY DEF Shape, TypeOK
  <2>2. meta' \in {NoMeta, Torn, Meta(meta.versions)}
    BY <1>7, <2>1
  <2>3. QED
    BY <1>1, <2>2, MetaFiles
<1>9. TypeOK'
  BY <1>3, <1>4, <1>5, <1>6, <1>8 DEF Shape, TypeOK, answers, history
<1>10. QED
  <2>1. step \in Steps \ {"idle", "convert"} /\ step \notin {"scan", "connect"}
    BY <1>2 DEF Steps
  <2>2. version'[c] \in Numbers \/ ~HasVersion(c)'
    <3>1. pc[c] \in {"scan", "unlink"} => pc'[c] \in {"unlink", "rmdir"}
      BY <1>1 DEF ReadMeta, OpenMeta, Scan, Unlink, UnlinkFails, Dealt, Further, Goto
    <3>2. HasVersion(c) \/ pc[c] \in {"scan", "unlink"}
      BY DEF ReadMeta, OpenMeta, Scan, Unlink, UnlinkFails, Dealt, HasVersion
    <3>3. QED
      BY <1>3, <3>1, <3>2 DEF Shape, Locals, HasVersion
  <2>3. /\ \A n \in Dirs' : n \in Dirs
        /\ UNCHANGED <<version, op, ops, recorded, deleted, known>>
    BY <1>3, <1>6 DEF answers
  <2>4. /\ \A n \in Dirs' : n \in Dirs \/ n + Cardinality(Connecting') <= ops
        /\ \A d \in Clients : \/ version'[d] = version[d]
                              \/ /\ version'[d] \in Numbers
                                 /\ version'[d] + Cardinality(Connecting') <= ops
    BY <2>3
  <2>5. step \in {"scan", "unlink", "rmdir"} => Deleting(c)
    BY <1>2, <2>1
  <2>6. QED
    BY <1>1, <1>2, <1>4, <1>9, <2>1, <2>2, <2>3, <2>4, <2>5, ProgressShape

\* The steps that end a request.
LEMMA EndShape ==
    ASSUME Shape, NEW c \in Clients, FillMeta(c) \/ Abort(c) \/ Rmdir(c) \/ Convert(c)
    PROVE  Shape'
<1>1. /\ Leave(c) /\ pc[c] \notin {"idle", "connect"}
      /\ UNCHANGED <<doomed, ops, crashes, orderly, doom>>
      /\ spared' \in {spared, spared \cup {Self}}
  BY DEF FillMeta, Abort, Stuck, Rmdir, Convert, history
<1>2. /\ pc \in [Clients -> Steps] /\ op \in [Clients -> 0 .. MaxOps]
      /\ version \in [Clients -> 0 .. MaxOps] /\ seen \in [Clients -> Seq(Numbers)]
      /\ ops \in Nat /\ 0 \in 0 .. MaxOps /\ op[c] # 0
      /\ recorded \subseteq Numbers /\ known \in BOOLEAN /\ deleted \in BOOLEAN /\ present \in BOOLEAN
  BY <1>1, DatasetAssumption DEF Shape, TypeOK, Locals
<1>3. /\ pc' \in [Clients -> Steps] /\ op' \in [Clients -> 0 .. MaxOps]
      /\ version' \in [Clients -> 0 .. MaxOps] /\ seen' \in [Clients -> Seq(Numbers)]
  BY <1>1, <1>2, NoVersions DEF Leave, Goto, Steps
<1>4. /\ dir' \in [Numbers -> VersionDir]
      /\ \A n \in Numbers : dir'[n].exists \/ dir'[n] = NoDir
      /\ \A n \in Dirs' : n \in Dirs \/ n + Cardinality(Connecting) <= ops
      /\ present' \in BOOLEAN
  <2>1. CASE Convert(c)
    <3>1. version[c] + Cardinality(Connecting) <= ops
      BY DEF Shape, Numbered
    <3>2. CASE UNCHANGED <<present, dir>>
      BY <1>2, <3>2 DEF Shape, TypeOK, Dirs
    <3>3. CASE present' = TRUE
               /\ Writes(version[c], [dir[version[c]] EXCEPT !.exists = TRUE, !.exported = TRUE])
      <4>1. Dirs' = Dirs \cup {version[c]} /\ dir' \in [Numbers -> VersionDir]
            /\ \A n \in Numbers : dir'[n].exists \/ dir'[n] = NoDir
        BY <3>3, DirsWritten
      <4>2. QED
        BY <3>1, <3>3, <4>1
    <3>4. QED
      BY <2>1, <3>2, <3>3, CopiesWritten
  <2>2. CASE ~Convert(c)
    <3>1. dir' = dir /\ present' \in BOOLEAN
      BY <1>2, <2>2 DEF FillMeta, Abort, Rmdir, disk
    <3>2. QED
      BY <3>1 DEF Shape, TypeOK, Dirs
  <2>3. QED
    BY <2>1, <2>2
<1>5. /\ meta' \in {NoMeta, Torn} \cup {Meta(s) : s \in {meta'.versions}}
      /\ meta'.versions \in Seq(Numbers) /\ IsInjective(meta'.versions)
  <2>1. meta' = meta \/ meta' = Torn \/ meta' = Meta(seen[c])
    BY DEF FillMeta, Abort, Rmdir, Convert, disk
  <2>2. seen[c] \in Seq(Numbers) /\ IsInjective(seen[c])
    BY <1>2 DEF Shape, Locals
  <2>3. CASE meta' = meta
    BY <2>3 DEF Shape, TypeOK
  <2>4. CASE meta' \in {NoMeta, Torn, Meta(seen[c])}
    BY <2>2, <2>4, MetaFiles
  <2>5. QED
    BY <2>1, <2>3, <2>4
<1>6. recorded' \subseteq Numbers /\ deleted' \in BOOLEAN /\ known' \in BOOLEAN
  <2>1. CASE FillMeta(c)
    <3>1. version[c] \in Numbers
      BY <2>1 DEF FillMeta, Shape, Locals, HasVersion
    <3>2. QED
      BY <1>2, <2>1, <3>1 DEF FillMeta
  <2>2. CASE ~FillMeta(c)
    BY <1>2, <2>2 DEF Abort, Rmdir, Convert, answers
  <2>3. QED
    BY <2>1, <2>2
<1>7. TypeOK'
  BY <1>1, <1>3, <1>4, <1>5, <1>6 DEF Shape, TypeOK, history
<1>8. \/ UNCHANGED <<recorded, deleted, known>>
      \/ known' = TRUE /\ ops # 0 /\ \A d \in Clients \ {c} : op[d] # 1
  <2>1. ops # 0 /\ (known \/ op[c] = 1)
    BY <1>2 DEF Shape, Requests
  <2>2. \A d \in Clients \ {c} : op[d] # 1
    BY <2>1 DEF Shape, Requests
  <2>3. Rmdir(c) => known' = TRUE
    BY <1>2 DEF Rmdir, Shape, Requests, Deleting
  <2>4. QED
    BY <2>1, <2>2, <2>3 DEF FillMeta, Abort, Rmdir, Convert, answers
<1>9. QED
  BY <1>1, <1>4, <1>7, <1>8, LeaveShape

LEMMA InitShape == Init => Shape
<1> SUFFICES ASSUME Init PROVE Shape
  OBVIOUS
<1>1. 0 \in 0 .. MaxOps /\ 0 \in 0 .. MaxCrashes /\ NoDir \in VersionDir
  BY DatasetAssumption DEF NoDir, VersionDir
<1>2. TypeOK
  BY <1>1, NoVersions DEF Init, TypeOK, NoMeta, Steps
<1>3. Locals /\ Requests
  BY NoVersions, DatasetAssumption DEF Init, Locals, Requests, HasVersion, Deleting
<1>4. Connecting = {} /\ Dirs = {} /\ ops = 0 /\ \A c \in Clients : version[c] = 0
  BY DEF Init, Connecting, Dirs, NoDir
<1>5. Numbered
  BY <1>4, FS_EmptySet DEF Numbered
<1>6. QED
  BY <1>2, <1>3, <1>5 DEF Shape

LEMMA StepShape == ASSUME Shape, [Next]_vars PROVE Shape'
<1>1. CASE UNCHANGED vars
  BY <1>1 DEF vars, disk, client, answers, history, Shape, TypeOK, Locals, Numbered, Requests,
              Connecting, Dirs, HasVersion, Deleting
<1>2. QED
  BY <1>1, ArrivalShape, BeginShape, WriteShape, MetaOrDeleteShape, EndShape, RestartShape
  DEF Next, Arrival

-----------------------------------------------------------------------------
(* As long as nothing is deleted, what the chain lists is complete.        *)

\* The steps of a client c leave the other clients' control state and locals alone.
Others(c) ==
    \A d \in Clients \ {c} : /\ pc'[d] = pc[d] /\ op'[d] = op[d]
                             /\ version'[d] = version[d] /\ seen'[d] = seen[d]

\* What c may do to a directory: nothing to the finished ones and to those of other writers.
Respects(c) ==
    /\ \A n \in Numbers : Complete(n) => Complete(n)'
    /\ \A d \in Clients \ {c} : Writing(d) =>
         /\ version[d] \in Dirs' /\ dir'[version[d]].manifest = 0
         /\ dir'[version[d]].result = dir[version[d]].result

LEMMA ListedAreNumbers ==
    ASSUME Shape
    PROVE  /\ ToSet(meta.versions) \subseteq Numbers
           /\ \A c \in Clients : ToSet(seen[c]) \subseteq Numbers
<1>1. ASSUME NEW s \in Seq(Numbers) PROVE ToSet(s) \subseteq Numbers
  BY LenProperties DEF ToSet
<1>2. QED
  BY <1>1 DEF Shape, TypeOK

\* What is left to show of a step of client c.
LEMMA NothingDeletedStep ==
    ASSUME Shape, NothingDeleted, NEW c \in Clients, Others(c), Respects(c),
           ~Deleting(c)' /\ pc'[c] # "fillUnlinked",
           Writing(c)' =>
              /\ version'[c] \in Dirs' /\ dir'[version'[c]].manifest = 0
              /\ \A d \in Clients \ {c} : Writing(d) => version[d] # version'[c],
           pc'[c] \in {"fingerprint", "manifest"} => dir'[version'[c]].result = op'[c],
           pc'[c] = "readMeta" => Complete(version[c])' /\ version'[c] = version[c],
           pc'[c] \in {"openMeta", "fillMeta"} => \A n \in ToSet(seen'[c]) : Complete(n)',
           \A n \in ToSet(meta'.versions) : Complete(n)'
    PROVE  NothingDeleted'
<1>1. \A d \in Clients : ~Deleting(d)' /\ pc'[d] # "fillUnlinked"
  BY DEF NothingDeleted, Others, Deleting
<1>2. \A d \in Clients : Writing(d)' => version'[d] \in Dirs' /\ dir'[version'[d]].manifest = 0
  BY DEF NothingDeleted, Others, Respects, Writing
<1>3. \A d, e \in Clients : Writing(d)' /\ Writing(e)' /\ version'[d] = version'[e] => d = e
  BY DEF NothingDeleted, Others, Writing
<1>4. \A d \in Clients : pc'[d] \in {"fingerprint", "manifest"} => dir'[version'[d]].result = op'[d]
  BY DEF NothingDeleted, Others, Respects, Writing
<1>5. \A d \in Clients : pc'[d] = "readMeta" => Complete(version[d])'
  <2>1. \A d \in Clients : pc[d] = "readMeta" => version[d] \in Numbers
    BY DEF Shape, Locals, HasVersion
  <2>2. QED
    BY <2>1 DEF NothingDeleted, Others, Respects, Complete
<1>6. \A d \in Clients : pc'[d] \in {"openMeta", "fillMeta"} =>
        \A n \in ToSet(seen'[d]) : Complete(n)'
  BY ListedAreNumbers DEF NothingDeleted, Others, Respects
<1>7. QED
  BY <1>1, <1>2, <1>3, <1>4, <1>5, <1>6 DEF NothingDeleted

\* A step that leaves all directories alone respects them.
LEMMA UntouchedRespects ==
    ASSUME Shape, NothingDeleted, NEW c \in Clients, dir' = dir PROVE Respects(c)
BY DEF NothingDeleted, Respects, Complete, Dirs

\* The steps of one client are the other clients' affair only if it deletes.
LEMMA OthersKept ==
    ASSUME Shape, NEW c \in Clients,
           \/ Arrival(c) \/ BeginVersion(c) \/ WriteResult(c) \/ Fingerprint(c) \/ WriteManifest(c)
           \/ ReadMeta(c) \/ OpenMeta(c) \/ FillMeta(c) \/ Abort(c) \/ Scan(c) \/ Rmdir(c) \/ Convert(c)
    PROVE  Others(c)
<1>1. /\ pc \in [Clients -> Steps] /\ op \in [Clients -> 0 .. MaxOps]
      /\ version \in [Clients -> 0 .. MaxOps] /\ seen \in [Clients -> Seq(Numbers)]
  BY DEF Shape, TypeOK
<1>2. CASE Arrival(c)
  BY <1>1, <1>2 DEF Arrival, Create, CreateSnapshot, Delete, Export, Arrive, Others
<1>3. CASE \/ BeginVersion(c) \/ WriteResult(c) \/ Fingerprint(c) \/ WriteManifest(c)
           \/ ReadMeta(c) \/ OpenMeta(c) \/ Scan(c)
  BY <1>1, <1>3 DEF BeginVersion, WriteResult, Fingerprint, WriteManifest, ReadMeta, OpenMeta,
                    Scan, Goto, Others
<1>4. CASE FillMeta(c) \/ Abort(c) \/ Rmdir(c) \/ Convert(c)
  BY <1>1, <1>4 DEF FillMeta, Abort, Rmdir, Convert, Leave, Goto, Others
<1>5. QED
  BY <1>2, <1>3, <1>4

LEMMA WriterNothingDeleted ==
    ASSUME Shape, Shape', NothingDeleted, NEW c \in Clients,
           BeginVersion(c) \/ WriteResult(c) \/ Fingerprint(c) \/ WriteManifest(c)
    PROVE  NothingDeleted'
<1>1. /\ dir \in [Numbers -> VersionDir] /\ pc \in [Clients -> Steps]
      /\ version \in [Clients -> 0 .. MaxOps] /\ seen \in [Clients -> Seq(Numbers)]
      /\ \A d \in Clients : Writing(d) => version[d] \in Dirs /\ dir[version[d]].manifest = 0
      /\ \A d \in Clients : Writing(d) => version[d] \in Numbers
      /\ \A d \in Clients : Writing(c) /\ Writing(d) /\ version[c] = version[d] => c = d
      /\ \A n \in ToSet(meta.versions) : Complete(n) /\ n \in Numbers
  BY ListedAreNumbers DEF Shape, TypeOK, NothingDeleted, Dirs
<1>2. Others(c)
  BY OthersKept
<1>3. CASE BeginVersion(c)
  <2>1. /\ pc'[c] = "result" /\ version'[c] = NextVersion /\ meta' = meta
        /\ NextVersion \in Numbers /\ dir[NextVersion] = NoDir
    BY <1>1, <1>3, FreshVersion DEF BeginVersion, Goto
  <2>2. Writes(NextVersion, [NoDir EXCEPT !.exists = TRUE])
    BY <1>3, DirectoriesWritten
  <2>3. /\ Dirs' = Dirs \cup {NextVersion} /\ dir'[NextVersion] = [NoDir EXCEPT !.exists = TRUE]
        /\ \A n \in Numbers \ {NextVersion} : dir'[n] = dir[n]
    BY <2>2, DirsWritten
  <2>4. dir'[NextVersion].manifest = 0 /\ ~Complete(NextVersion) /\ NextVersion \notin Dirs
    BY <2>1, <2>3 DEF NoDir, Complete, Dirs
  <2>5. Respects(c)
    BY <1>1, <2>3, <2>4 DEF Respects, Complete
  <2>6. QED
    BY <1>1, <1>2, <2>1, <2>3, <2>4, <2>5, NothingDeletedStep DEF Deleting, Respects
<1>4. CASE WriteResult(c)
  <2>1. /\ pc[c] = "result" /\ pc'[c] = "fingerprint" /\ UNCHANGED <<meta, version, op>>
    BY <1>1, <1>4 DEF WriteResult, Goto
  <2>2. Writes(version[c], [dir[version[c]] EXCEPT !.exists = TRUE, !.result = op[c]])
    BY <1>4, DirectoriesWritten
  <2>3. /\ Dirs' = Dirs \cup {version[c]}
        /\ dir'[version[c]] = [dir[version[c]] EXCEPT !.exists = TRUE, !.result = op[c]]
        /\ \A n \in Numbers \ {version[c]} : dir'[n] = dir[n]
    BY <2>2, DirsWritten
  <2>4. Writing(c) /\ dir[version[c]] \in VersionDir
    BY <1>1, <2>1 DEF Writing
  <2>5. dir'[version[c]].manifest = 0 /\ dir'[version[c]].result = op[c] /\ ~Complete(version[c])
    BY <1>1, <2>3, <2>4 DEF Complete, VersionDir
  <2>6. Respects(c)
    BY <1>1, <2>3, <2>4, <2>5 DEF Respects, Complete
  <2>7. QED
    BY <1>1, <1>2, <2>1, <2>3, <2>4, <2>5, <2>6, NothingDeletedStep DEF Deleting, Respects
<1>5. CASE Fingerprint(c)
  <2>1. /\ pc[c] = "fingerprint" /\ pc'[c] = "manifest" /\ UNCHANGED <<meta, version, op>>
    BY <1>1, <1>5 DEF Fingerprint, Goto
  <2>2. Writes(version[c], [dir[version[c]] EXCEPT !.foreign = dir[version[c]].exported])
    BY <1>5, DirectoriesWritten
  <2>3. /\ Dirs' = Dirs \cup {version[c]}
        /\ dir'[version[c]] = [dir[version[c]] EXCEPT !.foreign = dir[version[c]].exported]
        /\ \A n \in Numbers \ {version[c]} : dir'[n] = dir[n]
    BY <2>2, DirsWritten
  <2>4. Writing(c) /\ dir[version[c]] \in VersionDir /\ dir[version[c]].result = op[c]
    BY <1>1, <2>1 DEF Writing, NothingDeleted
  <2>5. dir'[version[c]].manifest = 0 /\ dir'[version[c]].result = op[c] /\ ~Complete(version[c])
    BY <1>1, <2>3, <2>4 DEF Complete, VersionDir
  <2>6. Respects(c)
    BY <1>1, <2>3, <2>4, <2>5 DEF Respects, Complete
  <2>7. QED
    BY <1>1, <1>2, <2>1, <2>3, <2>4, <2>5, <2>6, NothingDeletedStep DEF Deleting, Respects
<1>6. CASE WriteManifest(c)
  <2>1. /\ pc[c] = "manifest" /\ pc'[c] \in {"openMeta", "readMeta"} /\ UNCHANGED <<meta, version, op>>
        /\ pc'[c] = "openMeta" => seen'[c] = <<version[c]>>
    BY <1>1, <1>6 DEF WriteManifest, Goto
  <2>2. Writes(version[c], [dir[version[c]] EXCEPT !.manifest = op[c]])
    BY <1>6, DirectoriesWritten
  <2>3. /\ Dirs' = Dirs \cup {version[c]}
        /\ dir'[version[c]] = [dir[version[c]] EXCEPT !.manifest = op[c]]
        /\ \A n \in Numbers \ {version[c]} : dir'[n] = dir[n]
    BY <2>2, DirsWritten
  <2>4. /\ Writing(c) /\ dir[version[c]] \in VersionDir /\ dir[version[c]].result = op[c]
        /\ version[c] \in Numbers
    BY <1>1, <2>1 DEF Writing, NothingDeleted
  <2>5. op[c] # 0
    BY <2>1 DEF Shape, Locals
  <2>6. Complete(version[c])' /\ ~Complete(version[c])
    BY <1>1, <2>1, <2>3, <2>4, <2>5 DEF Complete, VersionDir
  <2>7. Respects(c)
    BY <1>1, <2>3, <2>4, <2>6 DEF Respects, Complete
  <2>8. pc'[c] \in {"openMeta", "fillMeta"} => \A n \in ToSet(seen'[c]) : Complete(n)'
    BY <2>1, <2>4, <2>6, FirstVersion DEF Complete
  <2>9. QED
    BY <1>1, <1>2, <2>1, <2>6, <2>7, <2>8, NothingDeletedStep DEF Deleting, Writing, Respects
<1>7. QED
  BY <1>3, <1>4, <1>5, <1>6

LEMMA ReaderNothingDeleted ==
    ASSUME Shape, Shape', NothingDeleted, NEW c \in Clients,
           Arrival(c) \/ ReadMeta(c) \/ OpenMeta(c) \/ FillMeta(c) \/ Abort(c) \/ Convert(c), ~doom'
    PROVE  NothingDeleted'
<1>1. /\ pc \in [Clients -> Steps] /\ seen \in [Clients -> Seq(Numbers)]
      /\ meta.versions \in Seq(Numbers) /\ IsInjective(meta.versions)
      /\ \A n \in ToSet(meta.versions) : Complete(n) /\ n \in Numbers
  BY ListedAreNumbers DEF Shape, TypeOK, NothingDeleted
<1>2. Others(c)
  BY OthersKept
<1>3. CASE Arrival(c)
  <2>1. pc'[c] \in {"connect", "convert"} /\ UNCHANGED <<dir, meta>>
    BY <1>1, <1>3 DEF Arrival, Create, CreateSnapshot, Delete, Export, Arrive, disk
  <2>2. Respects(c) /\ \A n \in Numbers : Complete(n) <=> Complete(n)'
    BY <2>1, UntouchedRespects DEF Complete
  <2>3. QED
    BY <1>1, <1>2, <2>1, <2>2, NothingDeletedStep DEF Deleting, Writing
<1>4. CASE ReadMeta(c)
  <2>1. /\ pc[c] = "readMeta" /\ pc'[c] = "openMeta" /\ UNCHANGED <<dir, meta>>
        /\ seen'[c] = AddVersion(meta.versions, version[c])
    BY <1>1, <1>4 DEF ReadMeta, Goto, disk
  <2>2. Complete(version[c]) /\ version[c] \in Numbers
    BY <2>1 DEF NothingDeleted, Shape, Locals, HasVersion
  <2>3. ToSet(seen'[c]) = ToSet(meta.versions) \cup {version[c]}
    BY <1>1, <2>1, <2>2, VersionAdded
  <2>4. Respects(c) /\ \A n \in Numbers : Complete(n) <=> Complete(n)'
    BY <2>1, UntouchedRespects DEF Complete
  <2>5. QED
    BY <1>1, <1>2, <2>1, <2>2, <2>3, <2>4, NothingDeletedStep DEF Deleting, Writing
<1>5. CASE OpenMeta(c)
  <2>1. /\ pc[c] = "openMeta" /\ pc'[c] = "fillMeta" /\ UNCHANGED <<dir, seen>>
        /\ meta'.versions = <<>>
    BY <1>1, <1>5 DEF OpenMeta, Goto, Torn
  <2>2. Respects(c) /\ \A n \in Numbers : Complete(n) <=> Complete(n)'
    BY <2>1, UntouchedRespects DEF Complete
  <2>3. \A n \in ToSet(seen[c]) : Complete(n) /\ n \in Numbers
    BY <2>1, ListedAreNumbers DEF NothingDeleted
  <2>4. QED
    BY <1>1, <1>2, <2>1, <2>2, <2>3, NoVersions, NothingDeletedStep DEF Deleting, Writing
<1>6. CASE FillMeta(c)
  <2>1. /\ pc[c] = "fillMeta" /\ pc'[c] = "idle" /\ UNCHANGED dir
        /\ meta' = Torn \/ meta' = Meta(seen[c])
    BY <1>1, <1>6 DEF FillMeta, Leave, Goto, NothingDeleted
  <2>2. Respects(c) /\ \A n \in Numbers : Complete(n) <=> Complete(n)'
    BY <2>1, UntouchedRespects DEF Complete
  <2>3. \A n \in ToSet(seen[c]) : Complete(n) /\ n \in Numbers
    BY <2>1, ListedAreNumbers DEF NothingDeleted
  <2>4. meta'.versions = <<>> \/ meta'.versions = seen[c]
    BY <2>1 DEF Torn, Meta
  <2>5. \A n \in ToSet(meta'.versions) : Complete(n)'
    BY <2>2, <2>3, <2>4, NoVersions
  <2>6. QED
    BY <1>1, <1>2, <2>1, <2>2, <2>5, NothingDeletedStep DEF Deleting, Writing
<1>7. CASE Abort(c)
  <2>1. pc'[c] = "idle" /\ UNCHANGED <<dir, meta>>
    BY <1>1, <1>7 DEF Abort, Leave, Goto, disk
  <2>2. Respects(c) /\ \A n \in Numbers : Complete(n) <=> Complete(n)'
    BY <2>1, UntouchedRespects DEF Complete
  <2>3. QED
    BY <1>1, <1>2, <2>1, <2>2, NothingDeletedStep DEF Deleting, Writing
<1>8. CASE Convert(c)
  <2>1. pc'[c] = "idle" /\ meta' = meta
    BY <1>1, <1>8 DEF Convert, Leave, Goto
  <2>2. /\ Dirs \subseteq Dirs'
        /\ \A n \in Numbers : dir'[n].result = dir[n].result /\ dir'[n].manifest = dir[n].manifest
    <3>1. dir \in [Numbers -> VersionDir] /\ version[c] \in Numbers
      BY <1>8 DEF Shape, TypeOK, Locals, HasVersion, Convert
    <3>2. CASE UNCHANGED dir
      BY <3>2 DEF Dirs
    <3>3. CASE Writes(version[c], [dir[version[c]] EXCEPT !.exists = TRUE, !.exported = TRUE])
      <4>1. /\ dir'[version[c]] = [dir[version[c]] EXCEPT !.exists = TRUE, !.exported = TRUE]
            /\ \A n \in Numbers \ {version[c]} : dir'[n] = dir[n]
            /\ Dirs' = Dirs \cup {version[c]}
        BY <3>3, DirsWritten
      <4>2. /\ dir'[version[c]].result = dir[version[c]].result
            /\ dir'[version[c]].manifest = dir[version[c]].manifest
        BY <3>1, <4>1 DEF VersionDir
      <4>3. QED
        BY <3>1, <4>1, <4>2
    <3>4. QED
      BY <1>8, <3>2, <3>3, CopiesWritten
  <2>3. \A n \in Numbers : Complete(n) <=> Complete(n)'
    BY <2>2 DEF Complete
  <2>4. Respects(c)
    BY <2>2, <2>3 DEF Respects, NothingDeleted, Dirs
  <2>5. QED
    BY <1>1, <1>2, <2>1, <2>3, <2>4, NothingDeletedStep DEF Deleting, Writing
<1>9. QED
  BY <1>3, <1>4, <1>5, <1>6, <1>7, <1>8

LEMMA StepNothingDeleted ==
    ASSUME Shape, Shape', ~doom => NothingDeleted, [Next]_vars
    PROVE  ~doom' => NothingDeleted'
<1> SUFFICES ASSUME ~doom' PROVE NothingDeleted'
  OBVIOUS
<1>1. ~doom
  BY DEF Next, vars, history, Create, CreateSnapshot, Delete, Export, BeginVersion, WriteResult,
         Fingerprint, WriteManifest, ReadMeta, OpenMeta, FillMeta, Abort, Scan, Unlink,
         UnlinkFails, Rmdir, Convert, Restart
<1>2. NothingDeleted
  BY <1>1
<1>3. \A c \in Clients : ~Scan(c) /\ ~Rmdir(c) /\ \A e \in Entries : ~Unlink(c, e) /\ ~UnlinkFails(c, e)
  BY <1>2 DEF NothingDeleted, Deleting, Scan, Rmdir, Unlink, UnlinkFails, Dealt
<1>4. CASE Restart
  BY <1>2, <1>4 DEF Restart, NothingDeleted, Deleting, Writing, Complete, disk
<1>5. CASE UNCHANGED vars
  BY <1>2, <1>5 DEF vars, disk, client, NothingDeleted, Deleting, Writing, Complete, Dirs
<1>6. QED
  BY <1>2, <1>3, <1>4, <1>5, WriterNothingDeleted, ReaderNothingDeleted DEF Next, Arrival

-----------------------------------------------------------------------------
(* As long as requests come one at a time.                                 *)

\* What a step of client c, the only one under way, has to show.
LEMMA OneAtATimeStep ==
    ASSUME NEW c \in Clients, \A d \in Clients \ {c} : pc'[d] = "idle", pc'[c] # "fillUnlinked",
           Writing(c)' => /\ ~dir'[version'[c]].exported /\ ~dir'[version'[c]].foreign
                          /\ \A n \in ToSet(meta'.versions) : n < version'[c],
           pc'[c] = "readMeta" => /\ ~dir'[version'[c]].foreign
                                  /\ \A n \in ToSet(meta'.versions) : n < version'[c],
           pc'[c] \in {"openMeta", "fillMeta"} =>
               /\ recorded' \cup {version'[c]} \subseteq ToSet(seen'[c])
               /\ ToSet(seen'[c]) \subseteq Dirs'
               /\ Ascends(seen[c])'
               /\ \A n \in ToSet(seen'[c]) : ~dir'[n].foreign,
           pc'[c] \in {"readMeta", "manifest", "fingerprint"} => version'[c] \in Dirs',
           pc'[c] = "unlink" => Remains' \subseteq doomed'[c] \cup spared',
           pc'[c] = "rmdir" => Remains' \subseteq spared',
           pc'[c] # "idle" => spared' = {} \/ Deleting(c)',
           ~Deleting(c)' /\ spared' = {} => ToSet(meta'.versions) \subseteq Dirs',
           Ascends(meta.versions)', ChainHolds(recorded)',
           deleted' => /\ pc'[c] = "idle"
                       /\ Remains' \subseteq spared' /\ (present' => spared' # {}),
           \A n \in ToSet(meta'.versions) : ~dir'[n].foreign
    PROVE  OneAtATime'
<1>1. \A d \in Clients : d # c => pc'[d] = "idle"
  OBVIOUS
<1>2. \A d \in Clients : d # c => ~Writing(d)'
  BY <1>1 DEF Writing
<1>3. \A d, e \in Clients : pc'[d] # "idle" /\ pc'[e] # "idle" => d = e
  BY <1>1
<1>4. (\A d \in Clients : ~Deleting(d)') /\ spared' = {} => ToSet(meta'.versions) \subseteq Dirs'
  OBVIOUS
<1>5. QED
  BY <1>1, <1>2, <1>3, <1>4 DEF OneAtATime

\* The facts about the one client under way that its steps start from.
Sole(c) ==
    /\ \A d \in Clients \ {c} : pc[d] = "idle" /\ pc'[d] = "idle"
    /\ ~deleted
    /\ ~Deleting(c) => spared = {} /\ ToSet(meta.versions) \subseteq Dirs
    /\ \A n \in ToSet(meta.versions) : ~dir[n].foreign
    /\ Ascends(meta.versions) /\ ChainHolds(recorded)

LEMMA SoleClient ==
    ASSUME Shape, OneAtATime, NEW c \in Clients, pc[c] # "idle", Others(c) PROVE Sole(c)
<1>1. \A d \in Clients \ {c} : pc[d] = "idle"
  BY DEF OneAtATime
<1>2. \A d \in Clients \ {c} : pc'[d] = "idle"
  BY <1>1 DEF Others
<1>3. ~Deleting(c) => spared = {} /\ ToSet(meta.versions) \subseteq Dirs
  <2>1. ~Deleting(c) => \A d \in Clients : ~Deleting(d)
    BY <1>1 DEF Deleting
  <2>2. QED
    BY <2>1 DEF OneAtATime
<1>4. QED
  BY <1>1, <1>2, <1>3 DEF Sole, OneAtATime

LEMMA ArrivalInOrder ==
    ASSUME Shape, OneAtATime, NEW c \in Clients, Arrival(c), orderly' PROVE OneAtATime'
<1>1. /\ \A d \in Clients : pc[d] = "idle"
      /\ pc'[c] \in {"connect", "scan", "convert"}
      /\ UNCHANGED <<dir, meta, recorded>>
      /\ IF pc'[c] = "scan" THEN spared' = {} /\ ~deleted'
         ELSE spared = {} /\ spared' = {} /\ deleted' = deleted
  <2>1. pc \in [Clients -> Steps]
    BY DEF Shape, TypeOK
  <2>2. PICK step \in {"connect", "scan", "convert"} :
          /\ Arrive(c, step) /\ UNCHANGED <<dir, meta, recorded>>
          /\ IF step = "scan" THEN spared' = {} /\ ~deleted' ELSE UNCHANGED <<spared, deleted>>
    BY DEF Arrival, Create, CreateSnapshot, Delete, Export, answers, disk
  <2>3. QED
    BY <2>1, <2>2 DEF Arrive
<1>2. Others(c)
  BY OthersKept
<1>3. ~deleted'
  <2>1. ops = 0 \/ present
    BY DEF Arrival, Create, CreateSnapshot, Delete, Export
  <2>2. QED
    BY <1>1, <2>1 DEF Shape, Requests, OneAtATime
<1>4. Dirs' = Dirs /\ (pc'[c] # "scan" => ToSet(meta.versions) \subseteq Dirs)
  BY <1>1 DEF Dirs, OneAtATime, Deleting
<1>5. Ascends(meta.versions)' /\ ChainHolds(recorded)' /\ \A n \in ToSet(meta'.versions) : ~dir'[n].foreign
  BY <1>1 DEF OneAtATime, Ascends, ChainHolds
<1>6. QED
  BY <1>1, <1>2, <1>3, <1>4, <1>5, OneAtATimeStep DEF Others, Writing, Deleting

LEMMA WritingInOrder ==
    ASSUME Shape, Shape', OneAtATime, NEW c \in Clients,
           BeginVersion(c) \/ WriteResult(c) \/ Fingerprint(c) \/ WriteManifest(c)
    PROVE  OneAtATime'
<1>1. /\ dir \in [Numbers -> VersionDir] /\ pc \in [Clients -> Steps]
      /\ version \in [Clients -> 0 .. MaxOps] /\ seen \in [Clients -> Seq(Numbers)]
      /\ ToSet(meta.versions) \subseteq Numbers /\ Dirs \subseteq Numbers
  BY ListedAreNumbers DEF Shape, TypeOK, Dirs
<1>2. pc[c] # "idle" /\ ~Deleting(c) /\ UNCHANGED <<meta, recorded, deleted, spared>>
  BY DEF BeginVersion, WriteResult, Fingerprint, WriteManifest, Deleting, answers, history
<1>3. Sole(c)
  BY <1>2, OthersKept, SoleClient
<1>4. ToSet(meta.versions) \subseteq Dirs /\ spared' = {}
  BY <1>2, <1>3 DEF Sole
<1>5. Ascends(meta.versions)' /\ ChainHolds(recorded)' /\ ~deleted'
  BY <1>2, <1>3 DEF Sole, Ascends, ChainHolds
<1>6. CASE BeginVersion(c)
  <2>1. /\ pc'[c] = "result" /\ version'[c] = NextVersion
        /\ NextVersion \in Numbers /\ \A n \in Dirs : n < NextVersion
        /\ dir[NextVersion] = NoDir
    BY <1>1, <1>6, FreshVersion DEF BeginVersion, Goto
  <2>2. Writes(NextVersion, [NoDir EXCEPT !.exists = TRUE])
    BY <1>6, DirectoriesWritten
  <2>3. /\ Dirs' = Dirs \cup {NextVersion} /\ dir'[NextVersion] = [NoDir EXCEPT !.exists = TRUE]
        /\ \A n \in Numbers \ {NextVersion} : dir'[n] = dir[n]
    BY <2>2, DirsWritten
  <2>4. /\ ~dir'[NextVersion].exported /\ ~dir'[NextVersion].foreign
        /\ NextVersion \notin Dirs
    BY <2>1, <2>3 DEF NoDir, Dirs
  <2>5. \A n \in ToSet(meta.versions) : ~dir'[n].foreign
    BY <1>1, <1>3, <2>3, <2>4 DEF Sole
  <2>6. QED
    BY <1>2, <1>3, <1>4, <1>5, <2>1, <2>3, <2>4, <2>5, OneAtATimeStep DEF Sole
<1>7. CASE WriteResult(c)
  <2>1. /\ pc[c] = "result" /\ pc'[c] = "fingerprint" /\ version' = version
    BY <1>1, <1>7 DEF WriteResult, Goto
  <2>2. Writes(version[c], [dir[version[c]] EXCEPT !.exists = TRUE, !.result = op[c]])
    BY <1>7, DirectoriesWritten
  <2>3. /\ Dirs' = Dirs \cup {version[c]} /\ version[c] \in Numbers
        /\ dir'[version[c]] = [dir[version[c]] EXCEPT !.exists = TRUE, !.result = op[c]]
        /\ \A n \in Numbers \ {version[c]} : dir'[n] = dir[n]
    <3>1. version[c] \in Numbers
      BY <2>2 DEF Writes
    <3>2. QED
      BY <2>2, <3>1, DirsWritten
  <2>4. /\ ~dir[version[c]].exported /\ ~dir[version[c]].foreign
        /\ \A n \in ToSet(meta.versions) : n < version[c]
    BY <2>1 DEF OneAtATime, Writing
  <2>5. ~dir'[version[c]].exported /\ ~dir'[version[c]].foreign
    BY <1>1, <2>3, <2>4 DEF VersionDir
  <2>6. \A n \in ToSet(meta.versions) : ~dir'[n].foreign
    BY <1>1, <1>3, <2>3, <2>5 DEF Sole
  <2>7. QED
    BY <1>2, <1>3, <1>4, <1>5, <2>1, <2>3, <2>4, <2>5, <2>6, OneAtATimeStep DEF Sole
<1>8. CASE Fingerprint(c)
  <2>1. /\ pc[c] = "fingerprint" /\ pc'[c] = "manifest" /\ version' = version
    BY <1>1, <1>8 DEF Fingerprint, Goto
  <2>2. Writes(version[c], [dir[version[c]] EXCEPT !.foreign = dir[version[c]].exported])
    BY <1>8, DirectoriesWritten
  <2>3. /\ Dirs' = Dirs \cup {version[c]} /\ version[c] \in Numbers
        /\ dir'[version[c]] = [dir[version[c]] EXCEPT !.foreign = dir[version[c]].exported]
        /\ \A n \in Numbers \ {version[c]} : dir'[n] = dir[n]
    <3> DEFINE record == [dir[version[c]] EXCEPT !.foreign = dir[version[c]].exported]
    <3>1. Writes(version[c], record)
      BY <2>2
    <3> HIDE DEF record
    <3>2. /\ Dirs' = Dirs \cup {version[c]} /\ version[c] \in Numbers
          /\ dir'[version[c]] = record
          /\ \A n \in Numbers \ {version[c]} : dir'[n] = dir[n]
      BY <1>1, <3>1, DirsWritten DEF Writes
    <3>3. QED
      BY <3>2 DEF record
  <2>4. /\ ~dir[version[c]].exported /\ ~dir[version[c]].foreign
        /\ \A n \in ToSet(meta.versions) : n < version[c]
    BY <2>1 DEF OneAtATime, Writing
  <2>5. ~dir'[version[c]].exported /\ ~dir'[version[c]].foreign
    BY <1>1, <2>3, <2>4 DEF VersionDir
  <2>6. \A n \in ToSet(meta.versions) : ~dir'[n].foreign
    BY <1>1, <1>3, <2>3, <2>5 DEF Sole
  <2>7. QED
    BY <1>2, <1>3, <1>4, <1>5, <2>1, <2>3, <2>4, <2>5, <2>6, OneAtATimeStep DEF Sole
<1>9. CASE WriteManifest(c)
  <2>1. /\ pc[c] = "manifest" /\ pc'[c] \in {"openMeta", "readMeta"} /\ version' = version
        /\ pc'[c] = "openMeta" => Creates(c) /\ seen'[c] = <<version[c]>>
    BY <1>1, <1>9 DEF WriteManifest, Goto
  <2>2. Writes(version[c], [dir[version[c]] EXCEPT !.manifest = op[c]])
    BY <1>9, DirectoriesWritten
  <2>3. /\ Dirs' = Dirs \cup {version[c]} /\ version[c] \in Numbers
        /\ dir'[version[c]] = [dir[version[c]] EXCEPT !.manifest = op[c]]
        /\ \A n \in Numbers \ {version[c]} : dir'[n] = dir[n]
    <3> DEFINE record == [dir[version[c]] EXCEPT !.manifest = op[c]]
    <3>1. Writes(version[c], record)
      BY <2>2
    <3> HIDE DEF record
    <3>2. /\ Dirs' = Dirs \cup {version[c]} /\ version[c] \in Numbers
          /\ dir'[version[c]] = record
          /\ \A n \in Numbers \ {version[c]} : dir'[n] = dir[n]
      BY <1>1, <3>1, DirsWritten DEF Writes
    <3>3. QED
      BY <3>2 DEF record
  <2>4. /\ ~dir[version[c]].exported /\ ~dir[version[c]].foreign
        /\ \A n \in ToSet(meta.versions) : n < version[c]
    BY <2>1 DEF OneAtATime, Writing
  <2>5. ~dir'[version[c]].foreign
    BY <1>1, <2>3, <2>4 DEF VersionDir
  <2>6. \A n \in ToSet(meta.versions) : ~dir'[n].foreign
    BY <1>1, <1>3, <2>3, <2>5 DEF Sole
  <2>7. pc'[c] = "openMeta" => /\ recorded' \cup {version'[c]} \subseteq ToSet(seen'[c])
                               /\ ToSet(seen'[c]) = {version[c]} /\ Ascends(seen[c])'
    <3>1. Creates(c) => recorded = {}
      BY DEF Creates, Shape, Requests
    <3>2. /\ ToSet(<<version[c]>>) = {version[c]} /\ Ascends(<<version[c]>>)
      BY <2>3, FirstVersion
    <3>3. pc'[c] = "openMeta" => Ascends(seen[c])'
      BY <2>1, <3>2 DEF Ascends
    <3>4. QED
      BY <1>2, <2>1, <3>1, <3>2, <3>3
  <2>8. QED
    BY <1>2, <1>3, <1>4, <1>5, <2>1, <2>3, <2>4, <2>5, <2>6, <2>7, OneAtATimeStep DEF Sole, Writing
<1>10. QED
  BY <1>6, <1>7, <1>8, <1>9

LEMMA MetaInOrder ==
    ASSUME Shape, Shape', OneAtATime, NEW c \in Clients, ReadMeta(c) \/ OpenMeta(c) \/ FillMeta(c)
    PROVE  OneAtATime'
<1>1. /\ pc \in [Clients -> Steps] /\ seen \in [Clients -> Seq(Numbers)]
      /\ meta.versions \in Seq(Numbers) /\ IsInjective(meta.versions)
  BY DEF Shape, TypeOK
<1>2. /\ pc[c] \in {"readMeta", "openMeta", "fillMeta"} /\ ~Deleting(c)
      /\ UNCHANGED <<dir, spared>>
  BY DEF ReadMeta, OpenMeta, FillMeta, OneAtATime, Deleting, disk, history
<1>3. Sole(c)
  BY <1>2, OthersKept, SoleClient
<1>4. Dirs' = Dirs /\ ToSet(meta.versions) \subseteq Dirs /\ spared' = {}
  BY <1>2, <1>3 DEF Sole, Dirs
<1>6. CASE ReadMeta(c)
  <2>1. /\ pc[c] = "readMeta" /\ pc'[c] = "openMeta" /\ meta.state = "ok"
        /\ version' = version /\ UNCHANGED <<meta, recorded, deleted>>
        /\ seen'[c] = AddVersion(meta.versions, version[c])
    BY <1>1, <1>6 DEF ReadMeta, Goto, disk, answers
  <2>2. /\ version[c] \in Numbers /\ version[c] \in Dirs /\ ~dir[version[c]].foreign
        /\ \A n \in ToSet(meta.versions) : n < version[c]
    BY <2>1 DEF OneAtATime, Shape, Locals, HasVersion
  <2>3. /\ ToSet(seen'[c]) = ToSet(meta.versions) \cup {version[c]}
        /\ Ascends(seen'[c])
    BY <1>1, <1>3, <2>1, <2>2, VersionAdded DEF Sole
  <2>4. Ascends(seen[c])' /\ Ascends(meta.versions)' /\ ChainHolds(recorded)'
    BY <1>3, <2>1, <2>3 DEF Ascends, Sole, ChainHolds
  <2>5. recorded \subseteq ToSet(meta.versions)
    BY <1>3, <2>1 DEF Sole, ChainHolds
  <2>6. QED
    BY <1>2, <1>3, <1>4, <2>1, <2>2, <2>3, <2>4, <2>5, OneAtATimeStep DEF Sole, Writing
<1>7. CASE OpenMeta(c)
  <2>1. /\ pc[c] = "openMeta" /\ pc'[c] = "fillMeta" /\ meta' = Torn
        /\ UNCHANGED <<version, seen, recorded, deleted>>
    BY <1>1, <1>7 DEF OpenMeta, Goto, answers
  <2>2. meta'.versions = <<>> /\ meta'.state # "ok"
    BY <2>1 DEF Torn
  <2>3. ToSet(meta'.versions) = {} /\ Ascends(meta.versions)' /\ ChainHolds(recorded)'
    BY <2>2, NoVersions DEF Ascends, ChainHolds
  <2>4. /\ recorded \cup {version[c]} \subseteq ToSet(seen[c]) /\ ToSet(seen[c]) \subseteq Dirs
        /\ Ascends(seen[c]) /\ \A n \in ToSet(seen[c]) : ~dir[n].foreign
    BY <2>1 DEF OneAtATime
  <2>5. Ascends(seen[c])'
    BY <2>1, <2>4 DEF Ascends
  <2>6. QED
    BY <1>2, <1>3, <1>4, <2>1, <2>3, <2>4, <2>5, OneAtATimeStep DEF Sole, Writing
<1>8. CASE FillMeta(c)
  <2>1. /\ pc[c] = "fillMeta" /\ pc'[c] = "idle" /\ meta' \in {Torn, Meta(seen[c])}
        /\ recorded' = recorded \cup {version[c]} /\ ~deleted'
    BY <1>1, <1>8 DEF FillMeta, Leave, Goto, OneAtATime
  <2>2. /\ recorded \cup {version[c]} \subseteq ToSet(seen[c]) /\ ToSet(seen[c]) \subseteq Dirs
        /\ Ascends(seen[c]) /\ \A n \in ToSet(seen[c]) : ~dir[n].foreign
    BY <2>1 DEF OneAtATime
  <2>3. CASE meta' = Torn
    <3>1. meta'.versions = <<>> /\ meta'.state # "ok"
      BY <2>3 DEF Torn
    <3>2. ToSet(meta'.versions) = {} /\ Ascends(meta.versions)' /\ ChainHolds(recorded)'
      BY <3>1, NoVersions DEF Ascends, ChainHolds
    <3>3. QED
      BY <1>2, <1>3, <1>4, <2>1, <3>2, OneAtATimeStep DEF Sole, Writing
  <2>4. CASE meta' = Meta(seen[c])
    <3>1. meta'.versions = seen[c]
      BY <2>4 DEF Meta
    <3>2. Ascends(meta.versions)' /\ ChainHolds(recorded)'
      BY <2>1, <2>2, <3>1 DEF Ascends, ChainHolds
    <3>3. QED
      BY <1>2, <1>3, <1>4, <2>1, <2>2, <3>1, <3>2, OneAtATimeStep DEF Sole, Writing
  <2>5. QED
    BY <2>1, <2>3, <2>4
<1>9. QED
  BY <1>6, <1>7, <1>8

\* A request that ends without an answer, and an export, which copies into a directory of
\* no consequence.
LEMMA LeavingInOrder ==
    ASSUME Shape, Shape', OneAtATime, NEW c \in Clients, Abort(c) \/ Convert(c)
    PROVE  OneAtATime'
<1>1. /\ pc \in [Clients -> Steps] /\ ToSet(meta.versions) \subseteq Numbers
      /\ Dirs \subseteq Numbers
  BY ListedAreNumbers DEF Shape, TypeOK, Dirs
<1>2. /\ pc[c] # "idle" /\ ~Deleting(c) /\ pc'[c] = "idle"
      /\ UNCHANGED <<meta, recorded, deleted, spared>>
  BY <1>1 DEF Abort, Stuck, Convert, Leave, Goto, Deleting, disk, answers, history
<1>3. Sole(c)
  BY <1>2, OthersKept, SoleClient
<1>4. ToSet(meta.versions) \subseteq Dirs /\ spared' = {}
  BY <1>2, <1>3 DEF Sole
<1>5. Ascends(meta.versions)' /\ ChainHolds(recorded)' /\ ~deleted'
  BY <1>2, <1>3 DEF Sole, Ascends, ChainHolds
<1>6. Dirs \subseteq Dirs' /\ \A n \in Numbers : dir'[n].foreign = dir[n].foreign
  <2>1. CASE dir' = dir
    BY <2>1 DEF Dirs
  <2>2. CASE Convert(c) /\ dir' # dir
    <3>1. Writes(version[c], [dir[version[c]] EXCEPT !.exists = TRUE, !.exported = TRUE])
      BY <2>2, CopiesWritten
    <3>2. dir \in [Numbers -> VersionDir] /\ version[c] \in Numbers
      BY <2>2 DEF Shape, TypeOK, Locals, HasVersion, Convert
    <3>3. /\ dir'[version[c]] = [dir[version[c]] EXCEPT !.exists = TRUE, !.exported = TRUE]
          /\ \A n \in Numbers \ {version[c]} : dir'[n] = dir[n]
          /\ Dirs' = Dirs \cup {version[c]}
      BY <3>1, DirsWritten
    <3>4. dir'[version[c]].foreign = dir[version[c]].foreign
      BY <3>2, <3>3 DEF VersionDir
    <3>5. QED
      BY <3>3, <3>4
  <2>3. QED
    BY <2>1, <2>2 DEF Abort, disk
<1>7. QED
  BY <1>1, <1>2, <1>3, <1>4, <1>5, <1>6, OneAtATimeStep DEF Sole, Writing

LEMMA DeletingInOrder ==
    ASSUME Shape, Shape', OneAtATime, NEW c \in Clients,
           Scan(c) \/ Rmdir(c) \/ \E e \in Entries : Unlink(c, e) \/ UnlinkFails(c, e)
    PROVE  OneAtATime'
<1>1. /\ pc \in [Clients -> Steps] /\ dir \in [Numbers -> VersionDir]
      /\ doomed \in [Clients -> SUBSET Entries]
      /\ Dirs \subseteq Numbers /\ MetaFile \notin Numbers
  BY DatasetAssumption DEF Shape, TypeOK, Dirs, Numbers, MetaFile
<1>2. Deleting(c)
  BY DEF Scan, Rmdir, Unlink, UnlinkFails, Dealt, Deleting
<1>3. /\ \A d \in Clients \ {c} : pc[d] = "idle" /\ pc'[d] = "idle"
      /\ ~deleted
      /\ \A n \in ToSet(meta.versions) : ~dir[n].foreign
      /\ Ascends(meta.versions) /\ ChainHolds(recorded)
  <2>1. pc[c] # "idle" /\ \A d \in Clients \ {c} : pc[d] = "idle"
    BY <1>2 DEF Deleting, OneAtATime
  <2>2. \A d \in Clients \ {c} : pc'[d] = "idle"
    BY <1>1, <2>1 DEF Scan, Rmdir, Unlink, UnlinkFails, Leave, Goto
  <2>3. QED
    BY <2>1, <2>2 DEF OneAtATime
<1>4. CASE Scan(c)
  <2>1. /\ pc[c] = "scan" /\ pc'[c] = "unlink" /\ UNCHANGED <<meta, dir, recorded, deleted>>
        /\ doomed'[c] = {MetaFile} \cup Dirs /\ Dirs' = Dirs
    BY <1>1, <1>4 DEF Scan, Goto, disk, answers, Dirs
  <2>2. Ascends(meta.versions)' /\ ChainHolds(recorded)'
    BY <1>3, <2>1 DEF Ascends, ChainHolds
  <2>3. Remains' \subseteq doomed'[c]
    BY <2>1 DEF Remains
  <2>4. QED
    BY <1>3, <2>1, <2>2, <2>3, OneAtATimeStep DEF Writing, Deleting
<1>5. CASE \E e \in Entries : Unlink(c, e) \/ UnlinkFails(c, e)
  <2>1. PICK e \in Entries : Unlink(c, e) \/ UnlinkFails(c, e)
    BY <1>5
  <2>2. /\ pc[c] = "unlink" /\ e \in doomed[c] /\ doomed'[c] = doomed[c] \ {e}
        /\ pc'[c] \in {"unlink", "rmdir"} /\ (pc'[c] = "rmdir" => doomed[c] = {e})
        /\ UNCHANGED <<recorded, deleted>>
    BY <1>1, <2>1 DEF Unlink, UnlinkFails, Dealt, Further, Goto, answers
  <2>3. Remains \subseteq doomed[c] \cup spared
    BY <2>2 DEF OneAtATime
  <2>4. Deleting(c)' /\ ~Writing(c)'
    BY <2>2 DEF Deleting, Writing
  <2>5. ASSUME e \notin Remains' \/ e \in spared', Remains' \subseteq Remains, spared \subseteq spared'
        PROVE  /\ Remains' \subseteq doomed'[c] \cup spared'
               /\ pc'[c] = "rmdir" => Remains' \subseteq spared'
    BY <2>2, <2>3, <2>5
  <2>6. CASE Unlink(c, e) /\ e = MetaFile
    <3>1. meta' = NoMeta /\ UNCHANGED <<dir, spared>> /\ Dirs' = Dirs
      BY <2>6 DEF Unlink, history, Dirs
    <3>2. ToSet(meta'.versions) = {} /\ Ascends(meta.versions)' /\ ChainHolds(recorded)'
      <4>1. NoMeta.versions = <<>> /\ NoMeta.state # "ok"
        BY DEF NoMeta
      <4>2. QED
        BY <3>1, <4>1, NoVersions DEF Ascends, ChainHolds
    <3>3. Remains' = Dirs
      BY <3>1 DEF Remains
    <3>4. e \notin Remains' /\ Remains' \subseteq Remains
      BY <1>1, <2>6, <3>3 DEF Remains
    <3>5. QED
      BY <1>3, <2>2, <2>4, <2>5, <3>1, <3>2, <3>4, OneAtATimeStep
  <2>7. CASE Unlink(c, e) /\ e # MetaFile
    <3>1. dir' = [dir EXCEPT ![e] = NoDir] /\ UNCHANGED <<meta, spared>> /\ e \in Numbers
      BY <2>7 DEF Unlink, Entries, history
    <3>2. Dirs' = Dirs \ {e} /\ \A n \in Numbers : dir[n].foreign \/ ~dir'[n].foreign
      BY <1>1, <3>1 DEF Dirs, NoDir
    <3>3. Ascends(meta.versions)' /\ ChainHolds(recorded)'
      BY <1>3, <2>2, <3>1 DEF Ascends, ChainHolds
    <3>4. e \notin Remains' /\ Remains' \subseteq Remains
      BY <1>1, <3>1, <3>2 DEF Remains
    <3>5. \A n \in ToSet(meta'.versions) : ~dir'[n].foreign
      BY <1>3, <3>1, <3>2, ListedAreNumbers
    <3>6. QED
      BY <1>3, <2>2, <2>4, <2>5, <3>1, <3>3, <3>4, <3>5, OneAtATimeStep
  <2>8. CASE UnlinkFails(c, e)
    <3>1. meta' = meta /\ spared' = spared \cup {e}
      BY <2>8 DEF UnlinkFails
    <3>2. Dirs' = Dirs /\ \A n \in Numbers : dir'[n].foreign => dir[n].foreign
      BY <2>8, LeftBehind
    <3>3. Ascends(meta.versions)' /\ ChainHolds(recorded)'
      BY <1>3, <2>2, <3>1 DEF Ascends, ChainHolds
    <3>4. Remains' = Remains
      BY <3>1, <3>2 DEF Remains
    <3>5. \A n \in ToSet(meta'.versions) : ~dir'[n].foreign
      BY <1>3, <3>1, <3>2, ListedAreNumbers
    <3>6. QED
      BY <1>3, <2>2, <2>4, <2>5, <3>1, <3>3, <3>4, <3>5, OneAtATimeStep
  <2>9. QED
    BY <2>1, <2>6, <2>7, <2>8
<1>6. CASE Rmdir(c)
  <2>1. /\ pc[c] = "rmdir" /\ pc'[c] = "idle" /\ UNCHANGED <<meta, dir>> /\ recorded' = {}
        /\ \/ present' = (Dirs # {} \/ meta # NoMeta) /\ spared' = spared
           \/ spared' = spared \cup {Self}
    BY <1>1, <1>6 DEF Rmdir, Leave, Goto
  <2>2. Remains \subseteq spared /\ Dirs' = Dirs /\ Remains' = Remains
    BY <2>1 DEF OneAtATime, Dirs, Remains
  <2>3. Remains' \subseteq spared' /\ (present' => spared' # {})
    BY <2>1, <2>2 DEF Remains
  <2>4. Ascends(meta.versions)' /\ ChainHolds(recorded)'
    BY <1>3, <2>1 DEF Ascends, ChainHolds
  <2>5. spared' = {} => ToSet(meta'.versions) \subseteq Dirs'
    <3>1. spared' = {} => meta' = NoMeta
      BY <2>1, <2>3 DEF Remains
    <3>2. ToSet(NoMeta.versions) = {}
      BY NoVersions DEF NoMeta
    <3>3. QED
      BY <3>1, <3>2
  <2>6. QED
    BY <1>3, <2>1, <2>3, <2>4, <2>5, OneAtATimeStep DEF Writing
<1>7. QED
  BY <1>4, <1>5, <1>6

LEMMA RestartInOrder ==
    ASSUME Shape, OneAtATime, Restart, orderly' PROVE OneAtATime'
<1>1. /\ \A c \in Clients : pc'[c] = "idle" /\ ~Deleting(c)
      /\ UNCHANGED <<present, dir, meta, recorded, deleted, spared>>
  BY DEF Restart, Deleting, disk, answers
<1>2. Dirs' = Dirs /\ Remains' = Remains /\ \A c \in Clients : ~Writing(c)'
  BY <1>1 DEF Dirs, Remains, Writing
<1>3. Ascends(meta.versions)' /\ ChainHolds(recorded)'
  BY <1>1 DEF OneAtATime, Ascends, ChainHolds
<1>4. QED
  BY <1>1, <1>2, <1>3 DEF OneAtATime

LEMMA StepOneAtATime ==
    ASSUME Shape, Shape', orderly => OneAtATime, [Next]_vars
    PROVE  orderly' => OneAtATime'
<1> SUFFICES ASSUME orderly' PROVE OneAtATime'
  OBVIOUS
<1>1. orderly
  BY DEF Next, vars, history, Create, CreateSnapshot, Delete, Export, Arrive, BeginVersion,
         WriteResult, Fingerprint, WriteManifest, ReadMeta, OpenMeta, FillMeta, Abort, Scan,
         Unlink, UnlinkFails, Rmdir, Convert, Restart
<1>2. OneAtATime
  BY <1>1
<1>3. CASE UNCHANGED vars
  <2>1. UNCHANGED <<pc, dir, meta, version, seen, doomed, recorded, deleted, present, spared>>
    BY <1>3 DEF vars, disk, client, answers, history
  <2>2. /\ Dirs' = Dirs /\ Remains' = Remains
        /\ (\A c \in Clients : Deleting(c)' = Deleting(c))
        /\ (\A c \in Clients : Writing(c)' = Writing(c) /\ Ascends(seen[c])' = Ascends(seen[c]))
        /\ Ascends(meta.versions)' = Ascends(meta.versions)
        /\ ChainHolds(recorded)' = ChainHolds(recorded)
    BY <2>1 DEF Dirs, Remains, Deleting, Writing, Ascends, ChainHolds
  <2>3. QED
    BY <1>2, <2>1, <2>2 DEF OneAtATime
<1>4. QED
  BY <1>2, <1>3, ArrivalInOrder, WritingInOrder, MetaInOrder, LeavingInOrder, DeletingInOrder,
     RestartInOrder DEF Next, Arrival

-----------------------------------------------------------------------------
(* The theorems.                                                           *)

LEMMA InitInv == Init => Inv
<1> SUFFICES ASSUME Init PROVE Inv
  OBVIOUS
<1>1. Shape
  BY InitShape
<1>2. /\ meta.versions = <<>> /\ meta.state # "ok" /\ ToSet(meta.versions) = {}
      /\ Ascends(meta.versions)
  BY NoVersions DEF Init, NoMeta
<1>3. NothingDeleted
  BY <1>2 DEF Init, NothingDeleted, Deleting, Writing
<1>4. OneAtATime
  BY <1>2 DEF Init, OneAtATime, Writing, ChainHolds
<1>5. QED
  BY <1>1, <1>3, <1>4 DEF Inv

LEMMA StepInv == Inv /\ [Next]_vars => Inv'
BY StepShape, StepNothingDeleted, StepOneAtATime DEF Inv

LEMMA Invariance == Spec => []Inv
BY InitInv, StepInv, PTL DEF Spec

\* As long as nothing is deleted, no two snapshots share a version directory, and what
\* metadata.json lists is complete, however requests interleave, fail and are cut short
\* (core/versioning.py:27-33, core/dataset.py:88-107, 144-155).
THEOREM StoreIsConsistent == Spec => []DatasetInv
<1>1. Inv => DatasetInv
  BY DEF Inv, Shape, NothingDeleted, Complete, DatasetInv, VersionsUnshared, ChainIsComplete
<1>2. QED
  BY <1>1, Invariance, PTL

\* If requests come one at a time, a snapshot answered with success stays in the chain, and
\* the last version of the chain is the highest, through failures and restarts
\* (core/dataset.py:129, 144-155).
THEOREM ChainOnlyGrows == Spec => []ChainGrows
<1>1. Inv => NoLostVersion
  BY DEF Inv, OneAtATime, NoLostVersion
<1>2. Inv => LatestIsNewest
  <2> SUFFICES ASSUME Inv, orderly, meta.versions # <<>>
               PROVE  Last(meta.versions) = Max(ToSet(meta.versions))
    BY DEF LatestIsNewest
  <2> DEFINE s == meta.versions
  <2>1. s \in Seq(Numbers) /\ Ascends(s) /\ ToSet(s) \subseteq 1 .. MaxOps /\ MaxOps \in Nat
    BY ListedAreNumbers, DatasetAssumption DEF Inv, Shape, TypeOK, OneAtATime, Numbers
  <2> HIDE DEF s
  <2>2. DOMAIN s = 1 .. Len(s) /\ Len(s) \in Nat /\ Len(s) # 0
    BY <2>1, EmptySeq, LenProperties DEF s
  <2>3. s[Len(s)] \in ToSet(s) /\ \A n \in ToSet(s) : n <= s[Len(s)]
    BY <2>1, <2>2 DEF ToSet, Ascends
  <2>4. Max(ToSet(s)) \in ToSet(s) /\ \A n \in ToSet(s) : n <= Max(ToSet(s))
    BY <2>1, <2>3, HighestVersion
  <2>5. s[Len(s)] <= Max(ToSet(s)) /\ Max(ToSet(s)) <= s[Len(s)]
    BY <2>3, <2>4
  <2>6. s[Len(s)] \in Int /\ Max(ToSet(s)) \in Int
    BY <2>1, <2>3, <2>4
  <2>7. s[Len(s)] = Max(ToSet(s))
    BY <2>5, <2>6
  <2>8. QED
    BY <2>7 DEF Last, s
<1>3. QED
  BY <1>1, <1>2, Invariance, PTL DEF ChainGrows

\* A client that waits for each answer finds no more of the dataset it has deleted than the
\* file system refused to remove, and nothing if it refused nothing, until its next request
\* succeeds (core/dataset.py:136-138, 288-291).
THEOREM DeletesAreFinal == Spec => []DeletedStaysDeleted
<1>1. Inv => DeletedStaysDeleted
  BY DEF Inv, OneAtATime, DeletedStaysDeleted
<1>2. QED
  BY <1>1, Invariance, PTL

\* If requests come one at a time, no fingerprint that metadata.json lists has counted an
\* exported copy (core/snapshot.py:113-120).
THEOREM FingerprintsAreOwn == Spec => []FingerprintIsOwn
<1>1. Inv => FingerprintIsOwn
  BY DEF Inv, OneAtATime, FingerprintIsOwn
<1>2. QED
  BY <1>1, Invariance, PTL
=============================================================================
