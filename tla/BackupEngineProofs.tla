------------------------- MODULE BackupEngineProofs -------------------------
(***************************************************************************)
(* What BackupEngine guarantees for every set of processes, chunks and     *)
(* sources.                                                                *)
(*                                                                         *)
(* Without any discipline of its users: EngineInv is inductive, so a       *)
(* marker always stands for a readable manifest, and versions are numbered *)
(* without gaps; the log and the checkpoint never run ahead of the files.  *)
(*                                                                         *)
(* With a stable source every committed version verifies; with one command *)
(* at a time a torn log stops recover and the checkpoint names whatever    *)
(* was reported; with one create at a time the repository implements       *)
(* VersionHistory.                                                         *)
(***************************************************************************)
EXTENDS BackupEngine, ListLemmas

\* The commands start in well-typed states without local obligations.
LEMMA InitTyped == Init => TypeOK /\ LocalOK
<1> SUFFICES ASSUME Init PROVE TypeOK /\ LocalOK
  OBVIOUS
<1>1. RepoTypeOK
  BY DEF Init, RepoInit, RepoTypeOK
<1>2. TypeOK
  BY <1>1 DEF Init, TypeOK, Steps, Commands
<1>3. LocalOK
  BY DEF Init, LocalOK, CreateSteps, HasManifest, AtPut
<1> QED
  BY <1>2, <1>3

\* A nonempty set of versions has a latest one, so nextVersion is a version.
LEMMA LatestExists ==
  ASSUME NEW S \in SUBSET Versions, S # {}
  PROVE  \E v \in S : \A w \in S : w <= v
<1>1. MaxVersion \in Nat /\ S \in SUBSET (0 .. MaxVersion)
  BY RepositoryAssumption DEF RepositoryAssumption, Versions
<1> QED
  BY <1>1, LargestExists

\* nextVersion counts on from the latest listed version.
LEMMA NextVersionType ==
  ASSUME markers \subseteq Versions
  PROVE  nextVersion \in Nat \ {0}
<1>1. CASE listCommittedVersions = {}
  BY <1>1 DEF nextVersion
<1>2. CASE listCommittedVersions # {}
  <2>1. listCommittedVersions \in SUBSET Versions
    BY DEF listCommittedVersions
  <2>2. \E v \in listCommittedVersions : \A w \in listCommittedVersions : w <= v
    BY <1>2, <2>1, LatestExists
  <2> DEFINE v == CHOOSE v \in listCommittedVersions :
                     \A w \in listCommittedVersions : w <= v
  <2>3. v \in listCommittedVersions
    BY <2>2
  <2>4. nextVersion = 1 + v
    BY <1>2 DEF nextVersion
  <2>5. v \in Nat
    <3> HIDE DEF v
    <3> QED
      BY <2>1, <2>3, RepositoryAssumption DEF RepositoryAssumption, Versions
  <2> HIDE DEF v
  <2> QED
    BY <2>4, <2>5
<1> QED
  BY <1>1, <1>2

\* Ending a process leaves every local variable well typed.
LEMMA ExitTyped ==
  ASSUME NEW p \in Procs, TypeOK, LocalOK, exit(p)
  PROVE  /\ pc' \in [Procs -> Steps]
         /\ cmd' \in [Procs -> Commands]
         /\ version' \in [Procs -> Versions \cup {0}]
         /\ manifest' \in [Procs -> Manifest \cup {NoManifest}]
         /\ done' \in [Procs -> Nat]
         /\ listed' \in [Procs -> SUBSET Versions]
         /\ todo' \in [Procs -> SUBSET tmpNames]
         /\ LocalOK'
  BY DEF TypeOK, RepoTypeOK, LocalOK, exit, goto, Steps, CreateSteps, Commands, HasManifest, AtPut

\* An append changes the log and goes on to the next step of create.
LEMMA Append1Typed ==
  ASSUME NEW p \in Procs, NEW l \in Steps \ AtPut, TypeOK, LocalOK,
         pc[p] \in {"begin", "logWrite", "logRename", "logCommit"}, Append1(p, l),
         l \in HasManifest => pc[p] # "begin"
  PROVE  TypeOK' /\ LocalOK'
  BY DEF TypeOK, RepoTypeOK, LocalOK, Append1, appendWal, AppendAt, goto, Steps, CreateSteps,
         HasManifest, AtPut, WalRecord

\* TypeOK and LocalOK are inductive: each process has what its next call needs.
LEMMA NextTyped ==
  ASSUME TypeOK, LocalOK, [Next]_vars
  PROVE  TypeOK' /\ LocalOK'
<1> USE DEF TypeOK, RepoTypeOK, LocalOK, goto, Steps, CreateSteps, Commands, HasManifest, AtPut
<1>0. CASE UNCHANGED vars
  BY <1>0 DEF vars, repoVars, localVars
<1>1. ASSUME NEW p \in Procs, StartCreate(p)
      PROVE  TypeOK' /\ LocalOK'
  <2>1. nextVersion \in Versions
    BY <1>1, NextVersionType, RepositoryAssumption DEF RepositoryAssumption, StartCreate, Versions
  <2> QED
    BY <1>1, <2>1 DEF StartCreate, Start, repoVars
<1>2. ASSUME NEW p \in Procs, StartRecover(p) \/ StartCheckpoint(p)
      PROVE  TypeOK' /\ LocalOK'
  <2>1. CASE StartRecover(p)
    BY <2>1 DEF StartRecover, Start, repoVars
  <2>2. CASE StartCheckpoint(p)
    BY <2>2 DEF StartCheckpoint, Start, repoVars
  <2> QED
    BY <1>2, <2>1, <2>2
<1>3. ASSUME NEW p \in Procs,
             \/ AppendBegin(p) \/ AppendWrite(p) \/ AppendRename(p) \/ AppendCommit(p)
      PROVE  TypeOK' /\ LocalOK'
  BY <1>3, Append1Typed DEF AppendBegin, AppendWrite, AppendRename, AppendCommit
<1>4. ASSUME NEW p \in Procs, ScanSource(p)
      PROVE  TypeOK' /\ LocalOK'
  BY <1>4, EngineAssumption DEF EngineAssumption, ScanSource, Scanned, NextChunk, Manifest, repoVars
<1>5. ASSUME NEW p \in Procs, PutChunk(p)
      PROVE  TypeOK' /\ LocalOK'
  BY <1>5 DEF PutChunk, putRaw, Manifest
<1>6. ASSUME NEW p \in Procs, AppendPut(p)
      PROVE  TypeOK' /\ LocalOK'
  BY <1>6 DEF AppendPut, appendWal, NextChunk, Manifest, WalRecord
<1>7. ASSUME NEW p \in Procs, OpenTmp(p) \/ PlaceTmp(p) \/ RenameManifest(p) \/ CreateMarker(p)
      PROVE  TypeOK' /\ LocalOK'
  <2>1. CASE OpenTmp(p)
    BY <2>1 DEF OpenTmp, openScratch
  <2>2. CASE PlaceTmp(p)
    BY <2>2 DEF PlaceTmp, placeStaged
  <2>3. CASE RenameManifest(p)
    BY <2>3 DEF RenameManifest, renameTmpToManifest
  <2>4. CASE CreateMarker(p)
    BY <2>4 DEF CreateMarker, createMarker
  <2> QED
    BY <1>7, <2>1, <2>2, <2>3, <2>4
<1>8. ASSUME NEW p \in Procs, RenameFails(p) \/ Abort(p)
      PROVE  TypeOK' /\ LocalOK'
  BY <1>8, ExitTyped DEF RenameFails, Abort, repoVars
<1>9. ASSUME NEW p \in Procs, ReadWal(p)
      PROVE  TypeOK' /\ LocalOK'
  <2>1. CASE walTorn
    BY <1>9, <2>1, ExitTyped DEF ReadWal, repoVars
  <2>2. CASE ~walTorn
    BY <1>9, <2>2 DEF ReadWal, repoVars
  <2> QED
    BY <2>1, <2>2
<1>10. ASSUME NEW p \in Procs, CleanTmp(p) \/ EndClean(p)
       PROVE  TypeOK' /\ LocalOK'
  <2>1. CASE EndClean(p)
    BY <2>1 DEF EndClean, repoVars
  <2>2. CASE CleanTmp(p)
    <3>1. PICK f \in todo[p] : removeTmp(f) /\ todo' = [todo EXCEPT ![p] = @ \ {f}]
      BY <2>2 DEF CleanTmp
    <3>2. scratch' \subseteq Procs
      BY <3>1 DEF removeTmp
    <3>3. staged' \in [Versions -> Manifest \cup {NoManifest}]
      BY <3>1 DEF removeTmp
    <3> QED
      BY <2>2, <3>1, <3>2, <3>3 DEF CleanTmp
  <2> QED
    BY <1>10, <2>1, <2>2
<1>11. ASSUME NEW p \in Procs, ListVersions(p)
       PROVE  TypeOK' /\ LocalOK'
  BY <1>11 DEF ListVersions, listCommittedVersions, repoVars
<1>12. ASSUME NEW p \in Procs, WriteCheckpoint(p)
       PROVE  TypeOK' /\ LocalOK'
  BY <1>12, ExitTyped DEF WriteCheckpoint, writeCheckpoint
<1>13. ASSUME NEW p \in Procs, ReplaceWal(p)
       PROVE  TypeOK' /\ LocalOK'
  BY <1>13, ExitTyped DEF ReplaceWal, replaceWal, WalRecord
<1> QED
  BY <1>0, <1>1, <1>2, <1>3, <1>4, <1>5, <1>6, <1>7, <1>8, <1>9, <1>10, <1>11, <1>12, <1>13
     DEF Next, Call, StartCommand

\* A sequence all of whose elements are stored is readable.
LEMMA StoredReadable ==
  ASSUME NEW m \in Manifest, NEW S,
         \A i \in 1 .. Len(m.chunks) : m.chunks[i] \in S
  PROVE  Range(m.chunks) \subseteq S
<1>1. m.chunks \in Seq(Chunks)
  BY DEF Manifest
<1> QED
  BY <1>1 DEF Range

\* A step of p that leaves the stored data alone and takes p to a place where
\* it holds no manifest.
LEMMA QuietStored ==
  ASSUME TypeOK, StoredOK, NEW p \in Procs, NEW l, l \notin HasManifest,
         pc' = [pc EXCEPT ![p] = l],
         UNCHANGED <<objects, staged, manifests>>,
         \A q \in Procs : q # p => manifest'[q] = manifest[q] /\ done'[q] = done[q]
  PROVE  StoredOK'
<1> USE DEF TypeOK, StoredOK, HasManifest, AtPut, Complete, CreateSteps, ChunksReadable
<1>1. \A q \in Procs : pc'[q] \in HasManifest => q # p /\ pc'[q] = pc[q]
  OBVIOUS
<1> QED
  BY <1>1 DEF RepoTypeOK

\* A process that ends keeps no manifest.
LEMMA ExitStored ==
  ASSUME TypeOK, StoredOK, NEW p \in Procs, exit(p), UNCHANGED <<objects, staged, manifests>>
  PROVE  StoredOK'
<1>1. /\ pc' = [pc EXCEPT ![p] = "idle"]
      /\ \A q \in Procs : q # p => manifest'[q] = manifest[q] /\ done'[q] = done[q]
  BY DEF exit, goto, TypeOK
<1> QED
  BY <1>1, QuietStored DEF HasManifest, CreateSteps

\* StoredOK is inductive: chunk after chunk is stored, then the manifest that
\* names them is staged and renamed.
LEMMA NextStored ==
  ASSUME TypeOK, LocalOK, StoredOK, [Next]_vars
  PROVE  StoredOK'
<1> USE DEF TypeOK, RepoTypeOK, LocalOK, StoredOK, goto, Steps, CreateSteps, HasManifest,
            AtPut, Complete
<1>0. CASE UNCHANGED vars
  BY <1>0 DEF vars, repoVars, localVars, ChunksReadable
<1>1. ASSUME NEW p \in Procs, StartCommand(p)
      PROVE  StoredOK'
  <2>1. PICK l \in {"begin", "readWal", "list"} : pc' = [pc EXCEPT ![p] = l]
    BY <1>1 DEF StartCommand, StartCreate, StartRecover, StartCheckpoint, Start
  <2>2. UNCHANGED <<repoVars, manifest, done>>
    BY <1>1 DEF StartCommand, StartCreate, StartRecover, StartCheckpoint
  <2> QED
    BY <2>1, <2>2, QuietStored DEF repoVars
<1>2. ASSUME NEW p \in Procs,
             \/ AppendBegin(p) \/ AppendWrite(p) \/ AppendRename(p) \/ AppendCommit(p)
      PROVE  StoredOK'
  <2>1. CASE AppendBegin(p)
    BY <2>1 DEF AppendBegin, Append1, ChunksReadable
  <2>2. CASE AppendWrite(p)
    BY <2>2 DEF AppendWrite, Append1, ChunksReadable
  <2>3. CASE AppendRename(p)
    BY <2>3 DEF AppendRename, Append1, ChunksReadable
  <2>4. CASE AppendCommit(p)
    BY <2>4 DEF AppendCommit, Append1, ChunksReadable
  <2> QED
    BY <1>2, <2>1, <2>2, <2>3, <2>4
<1>3. ASSUME NEW p \in Procs, ScanSource(p)
      PROVE  StoredOK'
  <2>1. PICK looked \in Sources, read \in Sources :
          /\ manifest' = [manifest EXCEPT ![p] =
                 [chunks |-> read, size |-> Len(looked), digest |-> read]]
          /\ pc' = [pc EXCEPT ![p] = NextChunk(read, 0)]
    BY <1>3 DEF ScanSource, Scanned
  <2>2. read \in Seq(Chunks)
    BY EngineAssumption DEF EngineAssumption
  <2>3. pc'[p] \in Complete => Range(read) = {}
    BY <2>1, <2>2 DEF NextChunk, Range
  <2>4. UNCHANGED <<objects, staged, manifests>> /\ done' = [done EXCEPT ![p] = 0]
    BY <1>3 DEF ScanSource, Scanned, repoVars
  <2> QED
    BY <2>1, <2>3, <2>4 DEF ChunksReadable, NextChunk
<1>4. ASSUME NEW p \in Procs, PutChunk(p)
      PROVE  StoredOK'
  BY <1>4 DEF PutChunk, putRaw, ChunksReadable
<1>5. ASSUME NEW p \in Procs, AppendPut(p)
      PROVE  StoredOK'
  <2>1. \A i \in 1 .. done[p] + 1 : manifest[p].chunks[i] \in objects
    BY <1>5 DEF AppendPut
  <2>2. CASE done[p] + 1 < Len(manifest[p].chunks)
    BY <1>5, <2>1, <2>2 DEF AppendPut, NextChunk, ChunksReadable
  <2>3. CASE ~(done[p] + 1 < Len(manifest[p].chunks))
    <3>1. manifest[p] \in Manifest /\ manifest[p].chunks \in Seq(Chunks)
      BY <1>5 DEF AppendPut, Manifest
    <3>2. Len(manifest[p].chunks) \in Nat /\ Len(manifest[p].chunks) <= done[p] + 1
      BY <2>3, <3>1
    <3>3. \A i \in 1 .. Len(manifest[p].chunks) : manifest[p].chunks[i] \in objects
      BY <2>1, <3>2
    <3>4. Range(manifest[p].chunks) \subseteq objects
      BY <3>1, <3>3, StoredReadable
    <3> QED
      BY <1>5, <2>3, <3>4 DEF AppendPut, NextChunk, ChunksReadable
  <2> QED
    BY <2>2, <2>3
<1>6. ASSUME NEW p \in Procs, OpenTmp(p) \/ PlaceTmp(p)
      PROVE  StoredOK'
  <2>1. CASE OpenTmp(p)
    BY <2>1 DEF OpenTmp, openScratch, placeStaged, ChunksReadable
  <2>2. CASE PlaceTmp(p)
    BY <2>2 DEF PlaceTmp, openScratch, placeStaged, ChunksReadable
  <2> QED
    BY <1>6, <2>1, <2>2
<1>7. ASSUME NEW p \in Procs, RenameManifest(p)
      PROVE  StoredOK'
  BY <1>7 DEF RenameManifest, renameTmpToManifest, ChunksReadable
<1>8. ASSUME NEW p \in Procs, CreateMarker(p)
      PROVE  StoredOK'
  BY <1>8 DEF CreateMarker, ChunksReadable
<1>9. ASSUME NEW p \in Procs, EndClean(p) \/ ListVersions(p)
      PROVE  StoredOK'
  BY <1>9, QuietStored DEF EndClean, ListVersions, repoVars
<1>10. ASSUME NEW p \in Procs, CleanTmp(p)
       PROVE  StoredOK'
  <2>1. PICK f \in todo[p] : removeTmp(f)
    BY <1>10 DEF CleanTmp
  <2>2. \A v \in Versions : staged'[v] # NoManifest => staged'[v] = staged[v]
    BY <2>1 DEF removeTmp
  <2>3. UNCHANGED <<objects, manifests, pc, manifest, done>>
    BY <1>10 DEF CleanTmp
  <2> QED
    BY <2>2, <2>3 DEF ChunksReadable
<1>11. ASSUME NEW p \in Procs, WriteCheckpoint(p) \/ ReplaceWal(p)
       PROVE  StoredOK'
  <2>1. CASE exit(p)
    BY <1>11, <2>1, ExitStored DEF WriteCheckpoint, ReplaceWal
  <2>2. CASE ~exit(p)
    BY <1>11, <2>2, QuietStored DEF WriteCheckpoint, ReplaceWal
  <2> QED
    BY <2>1, <2>2
<1>12. ASSUME NEW p \in Procs, ReadWal(p) \/ RenameFails(p) \/ Abort(p)
       PROVE  StoredOK'
  <2>1. CASE exit(p)
    BY <1>12, <2>1, ExitStored DEF ReadWal, RenameFails, Abort, repoVars
  <2>2. CASE ~exit(p)
    BY <1>12, <2>2, QuietStored DEF ReadWal, RenameFails, Abort, repoVars
  <2> QED
    BY <2>1, <2>2
<1> QED
  BY <1>0, <1>1, <1>2, <1>3, <1>4, <1>5, <1>6, <1>7, <1>8, <1>9, <1>10, <1>11, <1>12
     DEF Next, Call

\* MarkedOK is inductive: nothing removes a manifest once it is in place.
LEMMA NextMarked ==
  ASSUME TypeOK, LocalOK, MarkedOK, [Next]_vars
  PROVE  MarkedOK'
<1> USE DEF TypeOK, RepoTypeOK, LocalOK, MarkedOK, goto, Steps, CreateSteps, HasManifest, AtPut
<1>0. CASE UNCHANGED vars
  BY <1>0 DEF vars, repoVars, localVars
<1>1. ASSUME NEW p \in Procs,
             \/ StartCommand(p) \/ ScanSource(p) \/ PutChunk(p) \/ AppendPut(p)
             \/ AppendBegin(p) \/ OpenTmp(p) \/ PlaceTmp(p) \/ AppendWrite(p)
      PROVE  MarkedOK'
  BY <1>1 DEF StartCommand, StartCreate, StartRecover, StartCheckpoint, Start, ScanSource,
              PutChunk, AppendPut, AppendBegin, AppendWrite, Append1, OpenTmp, PlaceTmp,
              NextChunk, repoVars
<1>2. ASSUME NEW p \in Procs, RenameManifest(p)
      PROVE  MarkedOK'
  BY <1>2 DEF RenameManifest, renameTmpToManifest
<1>3. ASSUME NEW p \in Procs, AppendRename(p) \/ AppendCommit(p) \/ CreateMarker(p)
      PROVE  MarkedOK'
  BY <1>3 DEF AppendRename, AppendCommit, Append1, CreateMarker, createMarker
<1>4. ASSUME NEW p \in Procs,
             \/ RenameFails(p) \/ Abort(p) \/ ReadWal(p) \/ CleanTmp(p) \/ EndClean(p)
             \/ ListVersions(p) \/ WriteCheckpoint(p) \/ ReplaceWal(p)
      PROVE  MarkedOK'
  BY <1>4 DEF RenameFails, Abort, ReadWal, CleanTmp, EndClean, ListVersions, WriteCheckpoint,
              ReplaceWal, exit, repoVars
<1> QED
  BY <1>0, <1>1, <1>2, <1>3, <1>4 DEF Next, Call

\* Type correctness: each file and each process's memory holds what it should.
THEOREM TypeCorrect == Spec => []TypeOK
<1>1. TypeOK /\ LocalOK /\ [Next]_vars => TypeOK' /\ LocalOK'
  BY NextTyped
<1> QED
  BY InitTyped, <1>1, PTL DEF Spec

\* EngineInv holds whatever processes crash, race or recover.
LEMMA EngineInvariant == Spec => []EngineInv
<1>1. Init => EngineInv
  BY InitTyped
     DEF Init, RepoInit, EngineInv, StoredOK, MarkedOK, AtPut, HasManifest, Complete, CreateSteps
<1>2. EngineInv /\ [Next]_vars => EngineInv'
  BY NextTyped, NextStored, NextMarked DEF EngineInv
<1> QED
  BY <1>1, <1>2, PTL DEF Spec

\* A commit marker is evidence of a complete backup: the manifest is there and
\* every chunk it names is stored, even when creates race for a version.
THEOREM CommittedIsReadable == Spec => []CommittedReadable
<1>1. EngineInv => CommittedReadable
  BY DEF EngineInv, StoredOK, MarkedOK, TypeOK, RepoTypeOK, CommittedReadable, Loads
<1> QED
  BY <1>1, EngineInvariant, PTL

\* A create picks a version at most one above the markers.
LEMMA NextVersionBound ==
  ASSUME NEW n \in Nat, markers = 1 .. n
  PROVE  nextVersion \in Nat /\ nextVersion <= n + 1
<1>1. CASE listCommittedVersions = {}
  BY <1>1 DEF nextVersion
<1>2. CASE listCommittedVersions # {}
  <2> DEFINE top == IF n <= MaxListed THEN n ELSE MaxListed
  <2>1. MaxListed \in Nat
    BY RepositoryAssumption DEF RepositoryAssumption
  <2>2. top \in listCommittedVersions /\ \A w \in listCommittedVersions : w <= top
    BY <1>2, <2>1, RepositoryAssumption DEF listCommittedVersions, RepositoryAssumption
  <2> DEFINE v == CHOOSE v \in listCommittedVersions :
                     \A w \in listCommittedVersions : w <= v
  <2>3. v \in listCommittedVersions
    <3> HIDE DEF top
    <3> QED
      BY <2>2
  <2>4. nextVersion = 1 + v
    BY <1>2 DEF nextVersion
  <2> HIDE DEF v
  <2> QED
    BY <2>3, <2>4 DEF listCommittedVersions
<1> QED
  BY <1>1, <1>2

\* Every other step leaves the markers alone and takes nobody into a create.
LEMMA QuietVersions ==
  ASSUME VersionOK, UNCHANGED markers,
         \A q \in Procs : pc'[q] \in CreateSteps =>
                              pc[q] \in CreateSteps /\ version'[q] = version[q]
  PROVE  VersionOK'
  BY DEF VersionOK

\* VersionOK is inductive: a marker is added at the end, and only there.
LEMMA NextVersions ==
  ASSUME TypeOK, LocalOK, VersionOK, [Next]_vars
  PROVE  VersionOK'
<1> USE DEF TypeOK, RepoTypeOK, goto
<1>n. PICK n \in Nat : /\ markers = 1 .. n
                       /\ \A p \in Procs : pc[p] \in CreateSteps => version[p] <= n + 1
  BY DEF VersionOK
<1>0. CASE UNCHANGED vars
  BY <1>0, QuietVersions DEF vars, repoVars, localVars
<1>1. ASSUME NEW p \in Procs, StartCreate(p)
      PROVE  VersionOK'
  <2>1. nextVersion <= n + 1
    BY <1>n, NextVersionBound
  <2>2. UNCHANGED markers /\ version' = [version EXCEPT ![p] = nextVersion]
        /\ pc' = [pc EXCEPT ![p] = "begin"]
    BY <1>1 DEF StartCreate, Start, repoVars
  <2> QED
    BY <1>n, <2>1, <2>2 DEF VersionOK
<1>2. ASSUME NEW p \in Procs, CreateMarker(p)
      PROVE  VersionOK'
  <2>1. /\ version[p] \in Nat \ {0} /\ version[p] <= n + 1
        /\ markers' = markers \cup {version[p]}
        /\ UNCHANGED version
    BY <1>n, <1>2, RepositoryAssumption
       DEF CreateMarker, createMarker, LocalOK, CreateSteps, Versions, RepositoryAssumption
  <2>2. \A q \in Procs : pc'[q] \in CreateSteps => version'[q] <= n + 1
    BY <1>n, <1>2, <2>1 DEF CreateMarker, CreateSteps
  <2>3. CASE version[p] = n + 1
    <3>1. markers' = 1 .. (n + 1)
      <4>1. markers' = (1 .. n) \cup {n + 1}
        BY <1>n, <2>1, <2>3
      <4>2. (1 .. n) \cup {n + 1} = 1 .. (n + 1)
        OBVIOUS
      <4> QED
        BY <4>1, <4>2
    <3>2. \A q \in Procs : pc'[q] \in CreateSteps => version'[q] <= (n + 1) + 1
      <4>1. \A q \in Procs : version'[q] \in Nat
        BY <2>1, RepositoryAssumption DEF Versions, RepositoryAssumption
      <4> QED
        BY <2>2, <4>1
    <3> QED
      BY <3>1, <3>2 DEF VersionOK
  <2>4. CASE version[p] # n + 1
    <3>1. markers' = 1 .. n
      BY <1>n, <2>1, <2>4
    <3> QED
      BY <2>2, <3>1 DEF VersionOK
  <2> QED
    BY <2>3, <2>4
<1>3. ASSUME NEW p \in Procs, Call(p), ~ CreateMarker(p)
      PROVE  VersionOK'
  <2> USE DEF CreateSteps
  <2>1. UNCHANGED markers
    BY <1>3 DEF Call, AppendBegin, ScanSource, PutChunk, AppendPut, OpenTmp, PlaceTmp,
       AppendWrite, RenameManifest, RenameFails, AppendRename, AppendCommit, ReadWal, CleanTmp,
       EndClean, ListVersions, WriteCheckpoint, ReplaceWal, Append1, repoVars
  <2>2. CASE exit(p)
    BY <2>1, <2>2, QuietVersions DEF exit
  <2>3. CASE /\ UNCHANGED version
             /\ \E l \in Steps : (l \in CreateSteps => pc[p] \in CreateSteps)
                                     /\ pc' = [pc EXCEPT ![p] = l]
    BY <2>1, <2>3, QuietVersions
  <2>4. CASE UNCHANGED <<pc, version>>
    BY <2>1, <2>4, QuietVersions
  <2> QED
    BY <1>3, <2>2, <2>3, <2>4
       DEF Call, AppendBegin, ScanSource, PutChunk, AppendPut, OpenTmp, PlaceTmp, AppendWrite,
       RenameManifest, RenameFails, AppendRename, AppendCommit, ReadWal, CleanTmp, EndClean,
       ListVersions, WriteCheckpoint, ReplaceWal, Append1, NextChunk, Steps
<1>4. ASSUME NEW p \in Procs, Abort(p)
      PROVE  VersionOK'
  BY <1>4, QuietVersions DEF Abort, exit, CreateSteps
<1>5. ASSUME NEW p \in Procs, StartRecover(p) \/ StartCheckpoint(p)
      PROVE  VersionOK'
  BY <1>5, QuietVersions DEF StartRecover, StartCheckpoint, Start, repoVars, CreateSteps
<1> QED
  BY <1>0, <1>1, <1>2, <1>3, <1>4, <1>5 DEF Next, StartCommand

\* VersionOK holds of every behaviour.
LEMMA VersionInvariant == Spec => []VersionOK
<1>1. Init => VersionOK
  <2> SUFFICES ASSUME Init PROVE VersionOK
    OBVIOUS
  <2>1. markers = 1 .. 0 /\ \A p \in Procs : pc[p] \notin CreateSteps
    BY DEF Init, RepoInit, CreateSteps
  <2> QED
    BY <2>1 DEF VersionOK
<1>2. EngineInv /\ VersionOK /\ [Next]_vars => VersionOK'
  BY NextVersions DEF EngineInv
<1> QED
  BY <1>1, <1>2, EngineInvariant, PTL DEF Spec

\* The committed versions are 1, 2, ..., n: neither crashes nor races for a
\* version leave a gap.
THEOREM NoGaps == Spec => []VersionsContiguous
<1>1. VersionOK => VersionsContiguous
  BY RepositoryAssumption
     DEF VersionOK, VersionsContiguous, Versions, RepositoryAssumption
<1> QED
  BY <1>1, VersionInvariant, PTL

-----------------------------------------------------------------------------
(***************************************************************************)
(* CommandOK: which command is where.                                      *)
(***************************************************************************)

\* A process that ends is idle, and the other processes stay as they are.
LEMMA ExitCommand ==
  ASSUME TypeOK, CommandOK, NEW p \in Procs, exit(p), UNCHANGED markers
  PROVE  CommandOK'
  BY DEF TypeOK, CommandOK, exit, goto, CreateSteps

\* Markers are never removed.
LEMMA MarkersGrow ==
  ASSUME [Next]_vars
  PROVE  markers \subseteq markers'
<1>0. CASE UNCHANGED vars
  BY <1>0 DEF vars, repoVars
<1>1. ASSUME NEW p \in Procs, CreateMarker(p)
      PROVE  markers \subseteq markers'
  BY <1>1 DEF CreateMarker, createMarker
<1>2. ASSUME NEW p \in Procs, Call(p), ~ CreateMarker(p)
      PROVE  markers \subseteq markers'
  BY <1>2 DEF Call, AppendBegin, ScanSource, PutChunk, AppendPut, OpenTmp, PlaceTmp,
     AppendWrite, RenameManifest, RenameFails, AppendRename, AppendCommit, ReadWal, CleanTmp,
     EndClean, ListVersions, WriteCheckpoint, ReplaceWal, Append1, repoVars
<1>3. ASSUME NEW p \in Procs, StartCommand(p) \/ Abort(p)
      PROVE  markers \subseteq markers'
  BY <1>3 DEF StartCommand, StartCreate, StartRecover, StartCheckpoint, Abort, repoVars
<1> QED
  BY <1>0, <1>1, <1>2, <1>3 DEF Next

\* CommandOK is inductive.
LEMMA NextCommand ==
  ASSUME TypeOK, LocalOK, CommandOK, [Next]_vars
  PROVE  CommandOK'
<1> USE DEF TypeOK, RepoTypeOK, LocalOK, CommandOK, goto, CreateSteps, HasManifest, AtPut
<1>0. CASE UNCHANGED vars
  BY <1>0 DEF vars, repoVars, localVars
<1>1. ASSUME NEW p \in Procs, StartCommand(p)
      PROVE  CommandOK'
  BY <1>1 DEF StartCommand, StartCreate, StartRecover, StartCheckpoint, Start, repoVars
<1>2. ASSUME NEW p \in Procs,
             \/ AppendBegin(p) \/ AppendWrite(p) \/ AppendRename(p) \/ AppendCommit(p)
      PROVE  CommandOK'
  BY <1>2 DEF AppendBegin, AppendWrite, AppendRename, AppendCommit, Append1
<1>3. ASSUME NEW p \in Procs, ScanSource(p) \/ PutChunk(p) \/ AppendPut(p)
      PROVE  CommandOK'
  BY <1>3 DEF ScanSource, PutChunk, AppendPut, NextChunk, repoVars
<1>4. ASSUME NEW p \in Procs, OpenTmp(p) \/ PlaceTmp(p) \/ RenameManifest(p)
      PROVE  CommandOK'
  BY <1>4 DEF OpenTmp, PlaceTmp, RenameManifest
<1>5. ASSUME NEW p \in Procs, CreateMarker(p)
      PROVE  CommandOK'
  BY <1>5 DEF CreateMarker, createMarker
<1>6. ASSUME NEW p \in Procs, RenameFails(p) \/ Abort(p) \/ ReplaceWal(p)
      PROVE  CommandOK'
  BY <1>6, ExitCommand DEF RenameFails, Abort, ReplaceWal, repoVars
<1>7. ASSUME NEW p \in Procs, ReadWal(p) \/ WriteCheckpoint(p)
      PROVE  CommandOK'
  <2>1. CASE exit(p)
    BY <1>7, <2>1, ExitCommand DEF ReadWal, WriteCheckpoint, repoVars
  <2>2. CASE ~exit(p)
    BY <1>7, <2>2 DEF ReadWal, WriteCheckpoint, repoVars
  <2> QED
    BY <2>1, <2>2
<1>8. ASSUME NEW p \in Procs, CleanTmp(p) \/ EndClean(p) \/ ListVersions(p)
      PROVE  CommandOK'
  BY <1>8 DEF CleanTmp, EndClean, ListVersions, repoVars
<1> QED
  BY <1>0, <1>1, <1>2, <1>3, <1>4, <1>5, <1>6, <1>7, <1>8 DEF Next, Call

\* EngineInv and CommandOK hold of every behaviour.
LEMMA CommandInvariant == Spec => [](EngineInv /\ CommandOK)
<1>1. Init => CommandOK
  BY DEF Init, CommandOK, CreateSteps
<1>2. EngineInv /\ CommandOK /\ [Next]_vars => CommandOK'
  BY NextCommand DEF EngineInv
<1> QED
  BY <1>1, <1>2, EngineInvariant, PTL DEF Spec

-----------------------------------------------------------------------------
(***************************************************************************)
(* The checkpoint, the log and the manifests, whatever processes race.     *)
(***************************************************************************)

\* What ListedOK needs of a step: each list is kept, dropped, or read from the
\* markers, and the checkpoint is kept or written from a list.
LEMMA NextListed ==
  ASSUME TypeOK, ListedOK, [Next]_vars
  PROVE  ListedOK'
<1> USE DEF TypeOK, ListedOK, CheckpointCommitted
<1>0. markers \subseteq markers'
  BY MarkersGrow
<1>1. CASE UNCHANGED vars
  BY <1>1 DEF vars, repoVars, localVars
<1>2. ASSUME NEW p \in Procs, StartCommand(p)
      PROVE  ListedOK'
  BY <1>0, <1>2 DEF StartCommand, StartCreate, StartRecover, StartCheckpoint, repoVars
<1>3. ASSUME NEW p \in Procs,
             \/ AppendBegin(p) \/ AppendWrite(p) \/ AppendRename(p) \/ AppendCommit(p)
             \/ ScanSource(p) \/ PutChunk(p) \/ AppendPut(p) \/ OpenTmp(p) \/ PlaceTmp(p)
             \/ RenameManifest(p) \/ CreateMarker(p) \/ CleanTmp(p) \/ EndClean(p)
      PROVE  ListedOK'
  <2>1. UNCHANGED <<checkpoint, listed>>
    BY <1>3 DEF AppendBegin, AppendWrite, AppendRename, AppendCommit, Append1, ScanSource,
       PutChunk, AppendPut, OpenTmp, PlaceTmp, RenameManifest, CreateMarker, CleanTmp,
       EndClean, repoVars
  <2> QED
    BY <1>0, <2>1
<1>4. ASSUME NEW p \in Procs, ListVersions(p)
      PROVE  ListedOK'
  BY <1>0, <1>4 DEF ListVersions, listCommittedVersions, repoVars
<1>5. ASSUME NEW p \in Procs, WriteCheckpoint(p)
      PROVE  ListedOK'
  BY <1>0, <1>5 DEF WriteCheckpoint, writeCheckpoint, exit
<1>6. ASSUME NEW p \in Procs, ReadWal(p) \/ RenameFails(p) \/ ReplaceWal(p) \/ Abort(p)
      PROVE  ListedOK'
  BY <1>0, <1>6 DEF ReadWal, RenameFails, ReplaceWal, Abort, exit, repoVars
<1> QED
  BY <1>1, <1>2, <1>3, <1>4, <1>5, <1>6 DEF Next, Call

\* The checkpoint never names a version without a marker, although it may be
\* written from a list that another process has made out of date.
THEOREM CheckpointIsCommitted == Spec => []CheckpointCommitted
<1>1. Init => ListedOK
  BY DEF Init, RepoInit, ListedOK, CheckpointCommitted
<1>2. TypeOK /\ ListedOK /\ [Next]_vars => ListedOK'
  BY NextListed
<1>3. ListedOK => CheckpointCommitted
  BY DEF ListedOK
<1> QED
  BY <1>1, <1>2, <1>3, TypeCorrect, PTL DEF Spec

\* A step that keeps the log and takes no file away keeps LogFollowsFiles.
LEMMA QuietLog ==
  ASSUME LogFollowsFiles, wal' \subseteq wal,
         objects \subseteq objects', markers \subseteq markers',
         \A v \in Versions : manifests[v] # NoManifest => manifests'[v] # NoManifest
  PROVE  LogFollowsFiles'
  BY DEF LogFollowsFiles

\* An append of a record whose file is there keeps it as well.
LEMMA AppendLog ==
  ASSUME LogFollowsFiles, NEW t, NEW x, appendWal(t, x),
         UNCHANGED <<objects, markers, manifests>>,
         t = "PutObject" => x \in objects,
         t = "RenameManifest" => manifests[x] # NoManifest,
         t = "CommitBackup" => x \in markers
  PROVE  LogFollowsFiles'
  BY DEF LogFollowsFiles, appendWal

\* LogFollowsFiles follows from where each append stands in create.
LEMMA NextLog ==
  ASSUME EngineInv, CommandOK, LogFollowsFiles, [Next]_vars
  PROVE  LogFollowsFiles'
<1> USE DEF EngineInv, TypeOK, RepoTypeOK
<1>1. CASE UNCHANGED vars
  BY <1>1, QuietLog DEF vars, repoVars
<1>2. ASSUME NEW p \in Procs, AppendBegin(p) \/ AppendWrite(p)
      PROVE  LogFollowsFiles'
  <2>1. PICK t \in {"BeginBackup", "WriteManifest"} : appendWal(t, version[p])
    BY <1>2 DEF AppendBegin, AppendWrite, Append1, AppendAt
  <2>2. UNCHANGED <<objects, markers, manifests>>
    BY <1>2 DEF AppendBegin, AppendWrite, Append1
  <2> QED
    BY <2>1, <2>2, AppendLog
<1>3. ASSUME NEW p \in Procs, AppendRename(p)
      PROVE  LogFollowsFiles'
  <2>1. appendWal("RenameManifest", version[p])
    BY <1>3 DEF AppendRename, Append1, AppendAt
  <2>2. UNCHANGED <<objects, markers, manifests>> /\ manifests[version[p]] # NoManifest
    BY <1>3 DEF AppendRename, Append1, MarkedOK
  <2> QED
    BY <2>1, <2>2, AppendLog
<1>4. ASSUME NEW p \in Procs, AppendCommit(p)
      PROVE  LogFollowsFiles'
  <2>1. appendWal("CommitBackup", version[p])
    BY <1>4 DEF AppendCommit, Append1, AppendAt
  <2>2. UNCHANGED <<objects, markers, manifests>> /\ version[p] \in markers
    BY <1>4 DEF AppendCommit, Append1, CommandOK, CreateSteps
  <2> QED
    BY <2>1, <2>2, AppendLog
<1>5. ASSUME NEW p \in Procs, AppendPut(p)
      PROVE  LogFollowsFiles'
  <2>1. appendWal("PutObject", manifest[p].chunks[done[p] + 1])
    BY <1>5 DEF AppendPut
  <2>2. UNCHANGED <<objects, markers, manifests>> /\ manifest[p].chunks[done[p] + 1] \in objects
    BY <1>5 DEF AppendPut, StoredOK
  <2> QED
    BY <2>1, <2>2, AppendLog
<1>6. ASSUME NEW p \in Procs, PutChunk(p) \/ CreateMarker(p)
      PROVE  LogFollowsFiles'
  BY <1>6, QuietLog DEF PutChunk, CreateMarker, putRaw, createMarker
<1>7. ASSUME NEW p \in Procs, RenameManifest(p)
      PROVE  LogFollowsFiles'
  <2>1. UNCHANGED <<objects, markers, wal>>
    BY <1>7 DEF RenameManifest
  <2>2. \A v \in Versions : manifests[v] # NoManifest => manifests'[v] # NoManifest
    BY <1>7 DEF RenameManifest, renameTmpToManifest
  <2> QED
    BY <2>1, <2>2, QuietLog
<1>8. ASSUME NEW p \in Procs, ReplaceWal(p)
      PROVE  LogFollowsFiles'
  BY <1>8 DEF ReplaceWal, replaceWal, LogFollowsFiles
<1>9. ASSUME NEW p \in Procs,
             \/ StartCommand(p) \/ ScanSource(p) \/ OpenTmp(p) \/ PlaceTmp(p) \/ RenameFails(p)
             \/ ReadWal(p) \/ CleanTmp(p) \/ EndClean(p) \/ ListVersions(p)
             \/ WriteCheckpoint(p) \/ Abort(p)
      PROVE  LogFollowsFiles'
  <2>1. UNCHANGED <<objects, markers, manifests, wal>>
    BY <1>9 DEF StartCommand, StartCreate, StartRecover, StartCheckpoint, ScanSource, OpenTmp,
       PlaceTmp, RenameFails, ReadWal, CleanTmp, EndClean, ListVersions, WriteCheckpoint,
       Abort, repoVars
  <2> QED
    BY <2>1, QuietLog
<1> QED
  BY <1>1, <1>2, <1>3, <1>4, <1>5, <1>6, <1>7, <1>8, <1>9 DEF Next, Call

\* A record in the log says what has happened to the files, never what is going
\* to: across crashes, compactions and racing creates.
THEOREM LogIsBehindFiles == Spec => []LogFollowsFiles
<1>1. Init => LogFollowsFiles
  BY DEF Init, RepoInit, LogFollowsFiles
<1>2. EngineInv /\ CommandOK /\ LogFollowsFiles /\ [Next]_vars => LogFollowsFiles'
  BY NextLog
<1> QED
  BY <1>1, <1>2, CommandInvariant, PTL DEF Spec

\* A manifest in tmp/, in manifests/ or in a process's memory came from one scan.
LEMMA NextSound ==
  ASSUME SourceStable, TypeOK, SoundOK, [Next]_vars
  PROVE  SoundOK'
<1> USE DEF TypeOK, RepoTypeOK, SoundOK, HasManifest, CreateSteps, goto
<1> HIDE DEF SelfConsistent
<1>1. CASE UNCHANGED vars
  BY <1>1 DEF vars, repoVars, localVars
<1>2. ASSUME NEW p \in Procs, ScanSource(p)
      PROVE  SoundOK'
  <2>1. PICK s \in Sources : manifest' = [manifest EXCEPT ![p] = Scanned(s, s)]
    BY <1>2 DEF ScanSource
  <2>2. SelfConsistent(Scanned(s, s))
    BY DEF SelfConsistent, Scanned
  <2>3. UNCHANGED <<staged, manifests>> /\ \A q \in Procs : q # p => pc'[q] = pc[q]
    BY <1>2 DEF ScanSource, repoVars
  <2> HIDE DEF SelfConsistent
  <2> QED
    BY <2>1, <2>2, <2>3
<1>3. ASSUME NEW p \in Procs, PlaceTmp(p)
      PROVE  SoundOK'
  BY <1>3 DEF PlaceTmp, placeStaged
<1>4. ASSUME NEW p \in Procs, RenameManifest(p)
      PROVE  SoundOK'
  BY <1>4 DEF RenameManifest, renameTmpToManifest
<1>5. ASSUME NEW p \in Procs, CleanTmp(p)
      PROVE  SoundOK'
  <2>1. \A v \in Versions : staged'[v] # NoManifest => staged'[v] = staged[v]
    BY <1>5 DEF CleanTmp, removeTmp
  <2>2. UNCHANGED <<manifests, manifest, pc>>
    BY <1>5 DEF CleanTmp
  <2> QED
    BY <2>1, <2>2
<1>6. ASSUME NEW p \in Procs,
             \/ AppendBegin(p) \/ AppendWrite(p) \/ AppendRename(p) \/ AppendCommit(p)
             \/ PutChunk(p) \/ AppendPut(p) \/ OpenTmp(p) \/ CreateMarker(p)
             \/ EndClean(p) \/ ListVersions(p) \/ StartCommand(p)
      PROVE  SoundOK'
  <2>1. UNCHANGED <<staged, manifests, manifest>>
    BY <1>6 DEF AppendBegin, AppendWrite, AppendRename, AppendCommit, Append1, PutChunk,
       AppendPut, OpenTmp, CreateMarker, EndClean, ListVersions, StartCommand, StartCreate,
       StartRecover, StartCheckpoint, repoVars
  <2>2. \A q \in Procs : pc'[q] \in HasManifest => pc[q] \in HasManifest
    BY <1>6 DEF AppendBegin, AppendWrite, AppendRename, AppendCommit, Append1, PutChunk,
       AppendPut, OpenTmp, CreateMarker, EndClean, ListVersions, StartCommand, StartCreate,
       StartRecover, StartCheckpoint, Start, NextChunk
  <2> QED
    BY <2>1, <2>2
<1>7. ASSUME NEW p \in Procs,
             RenameFails(p) \/ ReadWal(p) \/ WriteCheckpoint(p) \/ ReplaceWal(p) \/ Abort(p)
      PROVE  SoundOK'
  <2>1. UNCHANGED <<staged, manifests>>
    BY <1>7 DEF RenameFails, ReadWal, WriteCheckpoint, ReplaceWal, Abort, repoVars
  <2>2. \A q \in Procs : pc'[q] \in HasManifest => pc[q] \in HasManifest /\ manifest'[q] = manifest[q]
    BY <1>7 DEF RenameFails, ReadWal, WriteCheckpoint, ReplaceWal, Abort, exit
  <2> QED
    BY <2>1, <2>2
<1> QED
  BY <1>1, <1>2, <1>3, <1>4, <1>5, <1>6, <1>7 DEF Next, Call

\* When sources do not change while they are read, every committed version
\* verifies and restores, even one that two creates raced for.
THEOREM CommittedVersionsVerify ==
  ASSUME SourceStable
  PROVE  Spec => []CommittedVerifies
<1>1. Init => SoundOK
  BY DEF Init, RepoInit, SoundOK, HasManifest, CreateSteps
<1>2. TypeOK /\ SoundOK /\ [Next]_vars => SoundOK'
  BY NextSound
<1>3. EngineInv /\ SoundOK => CommittedVerifies
  BY DEF EngineInv, TypeOK, RepoTypeOK, StoredOK, MarkedOK, SoundOK, SelfConsistent,
         CommittedVerifies, Verifies
<1> QED
  BY <1>1, <1>2, <1>3, TypeCorrect, EngineInvariant, PTL DEF Spec

-----------------------------------------------------------------------------
(***************************************************************************)
(* One command at a time.                                                  *)
(***************************************************************************)


\* With one command at a time only one process runs.
LEMMA NextAlone ==
  ASSUME OneCommand, TypeOK, [Next]_vars, \A p, q \in Running : p = q
  PROVE  (\A p, q \in Running : p = q)'
<1> USE DEF TypeOK, Running, goto
<1>1. CASE UNCHANGED vars
  BY <1>1 DEF vars, localVars
<1>2. ASSUME NEW p \in Procs, StartCommand(p)
      PROVE  \A r, q \in Running' : r = q
  <2>1. Running = {} /\ \A q \in Procs : q # p => pc'[q] = pc[q]
    BY <1>2 DEF StartCommand, StartCreate, StartRecover, StartCheckpoint, Start
  <2> QED
    BY <2>1
<1>3. ASSUME NEW p \in Procs, Call(p) \/ Abort(p)
      PROVE  \A r, q \in Running' : r = q
  <2>1. p \in Running
    BY <1>3 DEF Call, Abort, AppendBegin, ScanSource, PutChunk, AppendPut, OpenTmp, PlaceTmp,
       AppendWrite, RenameManifest, RenameFails, AppendRename, CreateMarker, AppendCommit,
       ReadWal, CleanTmp, EndClean, ListVersions, WriteCheckpoint, ReplaceWal
  <2>2. \A q \in Procs : q # p => pc'[q] = pc[q]
    BY <1>3 DEF Call, Abort, AppendBegin, ScanSource, PutChunk, AppendPut, OpenTmp, PlaceTmp,
       AppendWrite, RenameManifest, RenameFails, AppendRename, CreateMarker, AppendCommit,
       ReadWal, CleanTmp, EndClean, ListVersions, WriteCheckpoint, ReplaceWal, Append1, exit
  <2>3. Running' \subseteq Running
    BY <2>1, <2>2
  <2> HIDE DEF Running
  <2> QED
    BY <2>3
<1> QED
  BY <1>1, <1>2, <1>3 DEF Next

\* SerialOK is inductive.
LEMMA NextSerial ==
  ASSUME OneCommand, TypeOK, CommandOK, SerialOK, [Next]_vars
  PROVE  SerialOK'
<1> USE DEF TypeOK, RepoTypeOK, goto, CreateSteps
<1> DEFINE TornOK == \A q \in Procs : cmd[q] = "recover" /\ walTorn => pc[q] = "readWal"
           FreshOK == \A q \in Procs : pc[q] = "checkpoint" => listed[q] = listCommittedVersions
<1>a. \A r, q \in Running' : r = q
  BY NextAlone DEF SerialOK
<1>b. TornOK /\ FreshOK
  BY DEF SerialOK
<1>c. SUFFICES TornOK' /\ FreshOK'
  BY <1>a DEF SerialOK, Running
<1>d. \A p \in Procs : pc[p] # "idle" => \A q \in Procs \ {p} : pc[q] = "idle"
  BY DEF SerialOK, Running
<1>1. CASE UNCHANGED vars
  BY <1>1, <1>b DEF vars, repoVars, localVars, listCommittedVersions
<1>2. ASSUME NEW p \in Procs, StartCommand(p)
      PROVE  TornOK' /\ FreshOK'
  <2>1. \A q \in Procs : pc[q] = "idle"
    BY <1>2 DEF StartCommand, StartCreate, StartRecover, StartCheckpoint, Start, Running
  <2>2. FreshOK'
    BY <1>2, <2>1 DEF StartCommand, StartCreate, StartRecover, StartCheckpoint, Start
  <2>3. TornOK'
    BY <1>2, <1>b, <2>1
       DEF StartCommand, StartCreate, StartRecover, StartCheckpoint, Start, repoVars, CommandOK
  <2> QED
    BY <2>2, <2>3
<1>3. ASSUME NEW p \in Procs,
             \/ AppendBegin(p) \/ AppendWrite(p) \/ AppendRename(p) \/ AppendCommit(p)
             \/ ScanSource(p) \/ PutChunk(p) \/ AppendPut(p) \/ OpenTmp(p) \/ PlaceTmp(p)
             \/ RenameManifest(p) \/ CreateMarker(p)
      PROVE  TornOK' /\ FreshOK'
  <2>1. /\ pc[p] \in CreateSteps
        /\ \E l \in Steps : l # "checkpoint" /\ pc' = [pc EXCEPT ![p] = l]
        /\ UNCHANGED <<cmd, walTorn>>
    BY <1>3 DEF AppendBegin, AppendWrite, AppendRename, AppendCommit, Append1, ScanSource,
       PutChunk, AppendPut, OpenTmp, PlaceTmp, RenameManifest, CreateMarker, createMarker,
       NextChunk, repoVars, Steps
  <2>2. cmd[p] = "create"
    BY <2>1 DEF CommandOK
  <2>3. FreshOK'
    BY <1>d, <2>1
  <2> QED
    BY <1>b, <2>1, <2>2, <2>3
<1>4. ASSUME NEW p \in Procs, exit(p), pc[p] # "idle"
      PROVE  TornOK' /\ FreshOK'
  <2>1. \A q \in Procs : pc'[q] = "idle" /\ cmd'[q] # "recover"
    BY <1>4, <1>d DEF exit, CommandOK
  <2> QED
    BY <2>1
<1>5. ASSUME NEW p \in Procs, RenameFails(p) \/ Abort(p) \/ ReplaceWal(p)
      PROVE  TornOK' /\ FreshOK'
  BY <1>5, <1>4 DEF RenameFails, Abort, ReplaceWal
<1>6. ASSUME NEW p \in Procs, ReadWal(p)
      PROVE  TornOK' /\ FreshOK'
  <2>1. CASE walTorn
    BY <1>6, <1>4, <2>1 DEF ReadWal
  <2>2. CASE ~walTorn
    BY <1>6, <1>b, <2>2 DEF ReadWal, repoVars, listCommittedVersions
  <2> QED
    BY <2>1, <2>2
<1>7. ASSUME NEW p \in Procs, CleanTmp(p) \/ EndClean(p)
      PROVE  TornOK' /\ FreshOK'
  BY <1>7, <1>b DEF CleanTmp, EndClean, repoVars, listCommittedVersions, CommandOK
<1>8. ASSUME NEW p \in Procs, ListVersions(p)
      PROVE  TornOK' /\ FreshOK'
  BY <1>8, <1>b, <1>d DEF ListVersions, repoVars, listCommittedVersions
<1>9. ASSUME NEW p \in Procs, WriteCheckpoint(p)
      PROVE  TornOK' /\ FreshOK'
  <2>1. \A q \in Procs : pc'[q] # "checkpoint"
    BY <1>9, <1>d DEF WriteCheckpoint, exit
  <2>2. TornOK'
    BY <1>9, <1>b, <1>d DEF WriteCheckpoint, exit, CommandOK
  <2> QED
    BY <2>1, <2>2
<1> QED
  BY <1>c, <1>1, <1>2, <1>3, <1>5, <1>6, <1>7, <1>8, <1>9 DEF Next, Call

\* SerialOK holds when users run one command at a time.
LEMMA SerialInvariant ==
  ASSUME OneCommand
  PROVE  Spec => []SerialOK
<1>1. Init => SerialOK
  BY DEF Init, RepoInit, SerialOK, Running
<1>2. EngineInv /\ CommandOK /\ SerialOK /\ [Next]_vars => SerialOK'
  BY NextSerial DEF EngineInv
<1> QED
  BY <1>1, <1>2, CommandInvariant, PTL DEF Spec

\* Only WriteCheckpoint reports a version or replaces the checkpoint.
LEMMA OnlyCheckpoint ==
  ASSUME [Next]_vars, \A p \in Procs : ~ WriteCheckpoint(p)
  PROVE  UNCHANGED <<checkpoint, created>>
<1>1. CASE UNCHANGED vars
  BY <1>1 DEF vars, repoVars
<1>2. ASSUME NEW p \in Procs, Call(p)
      PROVE  UNCHANGED <<checkpoint, created>>
  BY <1>2 DEF Call, AppendBegin, ScanSource, PutChunk, AppendPut, OpenTmp, PlaceTmp,
     AppendWrite, RenameManifest, RenameFails, AppendRename, CreateMarker, AppendCommit,
     ReadWal, CleanTmp, EndClean, ListVersions, ReplaceWal, Append1, repoVars
<1>3. ASSUME NEW p \in Procs, StartCommand(p) \/ Abort(p)
      PROVE  UNCHANGED <<checkpoint, created>>
  BY <1>3 DEF StartCommand, StartCreate, StartRecover, StartCheckpoint, Abort, repoVars
<1> QED
  BY <1>1, <1>2, <1>3 DEF Next

\* With one command at a time, the checkpoint names every version a create has
\* reported, through whatever recovers, compactions and crashes follow, as long
\* as the version numbers keep to the digits listCommittedVersions accepts.
THEOREM CreatedStaysInCheckpoint ==
  ASSUME OneCommand, MaxVersion <= MaxListed
  PROVE  Spec => []CreatedInCheckpoint
<1>1. Init => ReportedOK
  BY DEF Init, ReportedOK
<1>2. EngineInv /\ CommandOK /\ SerialOK /\ ReportedOK /\ [Next]_vars => ReportedOK'
  <2> SUFFICES ASSUME EngineInv, CommandOK, SerialOK, ReportedOK, [Next]_vars
               PROVE  ReportedOK'
    OBVIOUS
  <2> USE DEF EngineInv, TypeOK, RepoTypeOK
  <2>1. ASSUME NEW p \in Procs, WriteCheckpoint(p)
        PROVE  ReportedOK'
    <3>1. checkpoint' = listCommittedVersions /\ UNCHANGED markers
      BY <2>1 DEF WriteCheckpoint, writeCheckpoint, SerialOK
    <3>2. \A v \in markers : v \in listCommittedVersions
      BY RepositoryAssumption DEF RepositoryAssumption, listCommittedVersions, Versions
    <3>3. \A v \in Versions : created'[v] # NoManifest => v \in markers
      BY <2>1 DEF WriteCheckpoint, CommandOK, ReportedOK
    <3> QED
      BY <3>1, <3>2, <3>3 DEF ReportedOK
  <2>2. CASE \A p \in Procs : ~ WriteCheckpoint(p)
    BY <2>2, OnlyCheckpoint, MarkersGrow DEF ReportedOK
  <2> QED
    BY <2>1, <2>2
<1>3. ReportedOK => CreatedInCheckpoint
  BY DEF ReportedOK, CreatedInCheckpoint
<1> QED
  BY <1>1, <1>2, <1>3, CommandInvariant, SerialInvariant, PTL DEF Spec

\* With one command at a time, a recover that meets a torn log leaves tmp/ and
\* the checkpoint alone: it is still before its first change when it reads the
\* log, and nobody else tears the log or changes a file meanwhile.
THEOREM TornLogStops ==
  ASSUME OneCommand
  PROVE  Spec => TornLogStopsRecover
<1>1. EngineInv /\ CommandOK /\ SerialOK /\ [Next]_vars =>
        [\A p \in Procs : cmd[p] = "recover" /\ walTorn /\ walTorn'
                             => UNCHANGED <<scratch, staged, checkpoint>>]_vars
  <2> SUFFICES ASSUME EngineInv, CommandOK, SerialOK, Next,
                      NEW r \in Procs, cmd[r] = "recover", walTorn
               PROVE  UNCHANGED <<scratch, staged, checkpoint>>
    BY DEF vars
  <2>1. pc[r] = "readWal" /\ \A q \in Procs : q # r => pc[q] = "idle"
    BY DEF SerialOK, Running
  <2>2. PICK p \in Procs : Call(p) \/ StartCommand(p) \/ Abort(p)
    BY DEF Next
  <2>3. CASE StartCommand(p)
    BY <2>3 DEF StartCommand, StartCreate, StartRecover, StartCheckpoint, repoVars
  <2>4. CASE Abort(p)
    BY <2>4 DEF Abort
  <2>5. CASE Call(p)
    <3>1. pc[p] \in {"readWal", "idle"}
      BY <2>1
    <3>2. ReadWal(p)
      BY <2>5, <3>1 DEF Call, AppendBegin, ScanSource, PutChunk, AppendPut, OpenTmp, PlaceTmp,
         AppendWrite, RenameManifest, RenameFails, AppendRename, CreateMarker, AppendCommit,
         CleanTmp, EndClean, ListVersions, WriteCheckpoint, ReplaceWal
    <3> QED
      BY <3>2 DEF ReadWal, repoVars
  <2> QED
    BY <2>2, <2>3, <2>4, <2>5
<1> QED
  BY <1>1, CommandInvariant, SerialInvariant, PTL DEF Spec, TornLogStopsRecover

-----------------------------------------------------------------------------
(***************************************************************************)
(* One create at a time: the repository implements VersionHistory.         *)
(***************************************************************************)

\* Versions numbered 1 to n that are all listed: the next one is n + 1.
LEMMA NextVersionExact ==
  ASSUME NEW n \in Nat, markers = 1 .. n, n <= MaxListed
  PROVE  nextVersion = n + 1
<1>0. MaxListed \in Nat /\ listCommittedVersions = 1 .. n
  BY RepositoryAssumption DEF RepositoryAssumption, listCommittedVersions
<1>1. CASE n = 0
  BY <1>0, <1>1 DEF nextVersion
<1>2. CASE n # 0
  <2>1. n \in 1 .. n /\ \A w \in 1 .. n : w <= n
    BY <1>2
  <2> DEFINE v == CHOOSE v \in 1 .. n : \A w \in 1 .. n : w <= v
  <2>2. v \in 1 .. n /\ \A w \in 1 .. n : w <= v
    BY <2>1
  <2>3. nextVersion = 1 + v
    BY <1>0, <1>2 DEF nextVersion
  <2> HIDE DEF v
  <2> QED
    BY <2>1, <2>2, <2>3
<1> QED
  BY <1>1, <1>2

\* A process that ends is no writer any more; the others are as they were.
LEMMA ExitWriter ==
  ASSUME TypeOK, WriterOK, NEW p \in Procs, exit(p),
         UNCHANGED <<staged, manifests, markers, created>>
  PROVE  WriterOK'
<1> USE DEF TypeOK, RepoTypeOK, goto
<1>1. Writers' = Writers \ {p}
  BY DEF exit, Writers, Running
<1>2. \A q \in Writers \ {p} : /\ q \in Procs
                               /\ pc'[q] = pc[q] /\ version'[q] = version[q]
                               /\ manifest'[q] = manifest[q]
  BY DEF exit, Writers, Running
<1> QED
  BY <1>1, <1>2 DEF WriterOK

\* WriterOK is inductive when creates exclude each other.
LEMMA NextWriter ==
  ASSUME OneWriter, MaxVersion <= MaxListed, TypeOK, LocalOK, CommandOK, VersionOK, WriterOK,
         [Next]_vars
  PROVE  WriterOK'
<1> USE DEF TypeOK, RepoTypeOK, goto, CreateSteps
<1>v. MaxListed \in Nat /\ MaxVersion \in Nat
  BY RepositoryAssumption DEF RepositoryAssumption
<1>1. CASE UNCHANGED vars
  BY <1>1 DEF vars, repoVars, localVars, WriterOK, Writers, Running
<1>2. ASSUME NEW p \in Procs, StartCreate(p)
      PROVE  WriterOK'
  <2>1. PICK n \in Nat : markers = 1 .. n
    BY DEF VersionOK
  <2>2. n <= MaxListed
    <3>1. n = 0 \/ n \in markers
      BY <2>1
    <3>2. n <= MaxVersion
      <4>1. markers \subseteq 1 .. MaxVersion
        BY DEF Versions
      <4> QED
        BY <1>v, <3>1, <4>1
    <3> QED
      BY <1>v, <3>2
  <2>3. nextVersion = n + 1
    BY <2>1, <2>2, NextVersionExact
  <2>4. Writers' = {p}
    <3>1. Writers = {} /\ pc' = [pc EXCEPT ![p] = "begin"] /\ cmd' = [cmd EXCEPT ![p] = "create"]
      BY <1>2 DEF StartCreate, Start
    <3> QED
      BY <3>1 DEF Writers, Running
  <2>5. /\ version' = [version EXCEPT ![p] = n + 1] /\ pc'[p] = "begin"
        /\ n + 1 \in Versions
        /\ UNCHANGED <<staged, manifests, markers, created>>
    BY <1>v, <1>2, <2>3 DEF StartCreate, Start, repoVars, Versions
  <2>6. created[n + 1] = NoManifest
    BY <2>1, <2>5 DEF WriterOK
  <2> QED
    BY <2>1, <2>4, <2>5, <2>6 DEF WriterOK
<1>3. ASSUME NEW p \in Procs, StartRecover(p) \/ StartCheckpoint(p)
      PROVE  WriterOK'
  <2>1. /\ pc[p] = "idle" /\ cmd'[p] # "create"
        /\ \A q \in Procs \ {p} : pc'[q] = pc[q] /\ cmd'[q] = cmd[q]
        /\ UNCHANGED <<staged, manifests, markers, created, version, manifest>>
    BY <1>3 DEF StartRecover, StartCheckpoint, Start, repoVars
  <2>2. Writers' = Writers /\ \A q \in Writers : q \in Procs \ {p}
    BY <2>1 DEF Writers, Running
  <2> QED
    BY <2>1, <2>2 DEF WriterOK
<1>4. ASSUME NEW p \in Procs,
             \/ AppendBegin(p) \/ AppendWrite(p) \/ AppendRename(p) \/ AppendCommit(p)
             \/ PutChunk(p) \/ AppendPut(p) \/ OpenTmp(p)
      PROVE  WriterOK'
  <2>1. /\ pc[p] \in CreateSteps /\ pc'[p] # "idle"
        /\ \A q \in Procs \ {p} : pc'[q] = pc[q]
        /\ UNCHANGED <<staged, manifests, markers, created, version, manifest, cmd>>
    BY <1>4 DEF AppendBegin, AppendWrite, AppendRename, AppendCommit, Append1, PutChunk,
       AppendPut, OpenTmp, NextChunk
  <2>2. Writers' = Writers /\ p \in Writers
    BY <2>1 DEF Writers, Running, CommandOK
  <2>3. /\ pc'[p] \in CreateSteps \ {"logCommit"} => pc[p] \in CreateSteps \ {"logCommit"}
        /\ pc'[p] \in {"logWrite", "rename"} => pc[p] \in {"logWrite", "rename"}
        /\ pc'[p] \in {"logRename", "mark", "logCommit", "list", "checkpoint"} =>
              pc[p] \in {"logRename", "mark", "logCommit", "list", "checkpoint"}
    BY <1>4 DEF AppendBegin, AppendWrite, AppendRename, AppendCommit, Append1, PutChunk,
       AppendPut, OpenTmp, NextChunk
  <2>4. Writers \subseteq Procs
    BY DEF Writers, Running
  <2> QED
    BY <2>1, <2>2, <2>3, <2>4 DEF WriterOK
<1>5. ASSUME NEW p \in Procs, ScanSource(p)
      PROVE  WriterOK'
  <2>1. /\ pc[p] = "scan" /\ pc'[p] \in {"put", "openTmp"}
        /\ \A q \in Procs \ {p} : pc'[q] = pc[q] /\ manifest'[q] = manifest[q]
        /\ UNCHANGED <<staged, manifests, markers, created, version, cmd>>
    BY <1>5 DEF ScanSource, NextChunk, repoVars
  <2>2. Writers' = Writers /\ Writers \subseteq Procs
    BY <2>1 DEF Writers, Running
  <2> QED
    BY <2>1, <2>2 DEF WriterOK
<1>6. ASSUME NEW p \in Procs, PlaceTmp(p)
      PROVE  WriterOK'
  <2>1. /\ pc[p] = "placeTmp" /\ pc' = [pc EXCEPT ![p] = "logWrite"]
        /\ staged' = [staged EXCEPT ![version[p]] = manifest[p]]
        /\ UNCHANGED <<manifests, markers, created, version, manifest, cmd>>
    BY <1>6 DEF PlaceTmp, placeStaged
  <2>2. Writers' = Writers /\ p \in Writers /\ Writers \subseteq Procs
    BY <2>1 DEF Writers, Running, CommandOK
  <2>3. staged'[version[p]] = manifest[p]
    BY <2>1 DEF LocalOK
  <2> QED
    BY <2>1, <2>2, <2>3 DEF WriterOK
<1>7. ASSUME NEW p \in Procs, RenameManifest(p)
      PROVE  WriterOK'
  <2>1. /\ pc[p] = "rename" /\ pc' = [pc EXCEPT ![p] = "logRename"]
        /\ staged[version[p]] # NoManifest
        /\ manifests' = [manifests EXCEPT ![version[p]] = staged[version[p]]]
        /\ UNCHANGED <<markers, created, version, manifest, cmd>>
    BY <1>7 DEF RenameManifest, renameTmpToManifest
  <2>2. Writers' = Writers /\ p \in Writers /\ Writers \subseteq Procs
    BY <2>1 DEF Writers, Running, CommandOK
  <2>3. version[p] \in Versions /\ manifests'[version[p]] = manifest[p]
    <3>1. version[p] \in Versions
      BY <2>1 DEF LocalOK
    <3>2. staged[version[p]] = manifest[p]
      BY <2>1, <2>2 DEF WriterOK
    <3> QED
      BY <2>1, <3>1, <3>2
  <2>4. version[p] \notin markers
    <3>1. markers = 1 .. (version[p] - 1)
      BY <2>1, <2>2 DEF WriterOK
    <3>2. version[p] \in Nat
      BY <1>v, <2>3 DEF Versions
    <3> QED
      BY <3>1, <3>2
  <2>5. \A v \in Versions : created[v] # NoManifest => manifests'[v] = manifests[v]
    BY <2>1, <2>4 DEF WriterOK
  <2> QED
    BY <2>1, <2>2, <2>3, <2>5 DEF WriterOK
<1>8. ASSUME NEW p \in Procs, CreateMarker(p)
      PROVE  WriterOK'
  <2>1. /\ pc[p] = "mark" /\ pc' = [pc EXCEPT ![p] = "logCommit"]
        /\ markers' = markers \cup {version[p]}
        /\ UNCHANGED <<staged, manifests, created, version, manifest, cmd>>
    BY <1>8 DEF CreateMarker, createMarker
  <2>2. Writers' = Writers /\ p \in Writers /\ Writers \subseteq Procs
    BY <2>1 DEF Writers, Running, CommandOK
  <2> QED
    BY <2>1, <2>2 DEF WriterOK
<1>9. ASSUME NEW p \in Procs, RenameFails(p) \/ Abort(p) \/ ReplaceWal(p)
      PROVE  WriterOK'
  BY <1>9, ExitWriter DEF RenameFails, Abort, ReplaceWal, repoVars
<1>10. ASSUME NEW p \in Procs, ReadWal(p) \/ EndClean(p) \/ ListVersions(p)
       PROVE  WriterOK'
  <2>1. CASE exit(p)
    BY <1>10, <2>1, ExitWriter DEF ReadWal, EndClean, ListVersions, repoVars
  <2>2. CASE ~ exit(p)
    <3>1. /\ pc[p] \in {"readWal", "clean", "list"} /\ pc'[p] \notin CreateSteps \cup {"idle"}
          /\ pc[p] # "list" => cmd[p] # "create"
          /\ \A q \in Procs \ {p} : pc'[q] = pc[q]
          /\ UNCHANGED <<staged, manifests, markers, created, version, manifest, cmd>>
      BY <1>10, <2>2 DEF ReadWal, EndClean, ListVersions, repoVars, CommandOK
    <3>2. Writers' = Writers /\ Writers \subseteq Procs /\ (pc[p] # "list" => p \notin Writers)
      BY <3>1 DEF Writers, Running
    <3> QED
      BY <3>1, <3>2 DEF WriterOK
  <2> QED
    BY <2>1, <2>2
<1>11. ASSUME NEW p \in Procs, CleanTmp(p)
       PROVE  WriterOK'
  <2>1. \A v \in Versions : staged'[v] \in {staged[v], NoManifest}
    BY <1>11 DEF CleanTmp, removeTmp
  <2>2. UNCHANGED <<manifests, markers, created, pc, version, manifest, cmd>>
    BY <1>11 DEF CleanTmp
  <2>3. Writers' = Writers /\ Writers \subseteq Procs
    BY <2>2 DEF Writers, Running
  <2>4. \A q \in Writers : pc[q] \in CreateSteps => version[q] \in Versions
    BY <2>3 DEF LocalOK
  <2> QED
    BY <2>1, <2>2, <2>3, <2>4 DEF WriterOK
<1>12. ASSUME NEW p \in Procs, WriteCheckpoint(p)
       PROVE  WriterOK'
  <2>1. UNCHANGED <<staged, manifests, markers>> /\ pc[p] = "checkpoint"
    BY <1>12 DEF WriteCheckpoint
  <2>2. CASE cmd[p] = "create"
    <3>1. /\ version[p] \in markers /\ version[p] \in Versions
          /\ p \in Writers /\ manifests[version[p]] = manifest[p]
      BY <2>1, <2>2 DEF CommandOK, Writers, Running, WriterOK
    <3>2. created' = [created EXCEPT ![version[p]] = manifest[p]] /\ exit(p)
      BY <1>12, <2>2 DEF WriteCheckpoint
    <3>3. Writers' = {}
      <4>1. Writers' = Writers \ {p}
        BY <3>2 DEF exit, Writers, Running
      <4> QED
        BY <3>1, <4>1 DEF WriterOK
    <3> QED
      BY <2>1, <3>1, <3>2, <3>3 DEF WriterOK
  <2>3. CASE cmd[p] \notin {"create", "compact"}
    BY <1>12, <2>3, ExitWriter DEF WriteCheckpoint
  <2>4. CASE cmd[p] = "compact"
    <3>1. /\ pc' = [pc EXCEPT ![p] = "replaceWal"]
          /\ UNCHANGED <<created, version, manifest, cmd>>
      BY <1>12, <2>4 DEF WriteCheckpoint
    <3>2. Writers' = Writers /\ p \notin Writers /\ Writers \subseteq Procs
      BY <2>1, <2>4, <3>1 DEF Writers, Running
    <3> QED
      BY <2>1, <3>1, <3>2 DEF WriterOK
  <2> QED
    BY <2>2, <2>3, <2>4
<1> QED
  BY <1>1, <1>2, <1>3, <1>4, <1>5, <1>6, <1>7, <1>8, <1>9, <1>10, <1>11, <1>12
     DEF Next, Call, StartCommand

\* The history that VersionHistory sees, and what has been reported of it.
Hist == [v \in listCommittedVersions |-> manifests[v]]
Told == {<<v, created[v]>> : v \in {w \in Versions : created[w] # NoManifest}}

\* Manifests under the markers 1 to n are a sequence of length n.
LEMMA HistIsSeq ==
  ASSUME NEW n \in Nat, NEW S, NEW f, f \in [1 .. n -> S]
  PROVE  f \in Seq(S) /\ Len(f) = n
  OBVIOUS

\* Markers 1 to n with their manifests F make a sequence: version v is its v-th
\* entry.
LEMMA HistTyped ==
  ASSUME MaxVersion <= MaxListed, NEW n \in Nat, 1 .. n \subseteq Versions,
         NEW F, \A v \in 1 .. n : F[v] \in Manifest,
         NEW H, H = [v \in {w \in 1 .. n : w <= MaxListed} |-> F[v]]
  PROVE  /\ DOMAIN H = 1 .. n
         /\ H \in Seq(Manifest)
         /\ Len(H) = n
         /\ \A v \in 1 .. n : H[v] = F[v]
<1>1. {w \in 1 .. n : w <= MaxListed} = 1 .. n
  <2>1. MaxListed \in Nat /\ MaxVersion \in Nat
    BY RepositoryAssumption DEF RepositoryAssumption
  <2>2. 1 .. n \subseteq 1 .. MaxVersion
    BY DEF Versions
  <2>3. \A v \in 1 .. n : v <= MaxListed
    BY <2>1, <2>2
  <2> QED
    BY <2>3
<1>2. H \in [1 .. n -> Manifest]
  BY <1>1
<1> QED
  BY <1>1, <1>2, HistIsSeq

\* A step that keeps the markers, their manifests and what was reported is a
\* stuttering step of VersionHistory.
LEMMA QuietHistory ==
  ASSUME UNCHANGED <<markers, created>>, \A v \in markers : manifests'[v] = manifests[v]
  PROVE  UNCHANGED <<Hist, Told>>
  BY DEF Hist, Told, listCommittedVersions

\* CreateMarker commits: the history grows by the manifest of the new version.
LEMMA CommitStep ==
  ASSUME MaxVersion <= MaxListed, EngineInv, EngineInv', CommandOK, WriterOK,
         NEW p \in Procs, CreateMarker(p)
  PROVE  History!Commit
<1> USE DEF EngineInv, TypeOK, RepoTypeOK
<1>1. /\ pc[p] = "mark" /\ markers' = markers \cup {version[p]}
      /\ UNCHANGED <<manifests, created>>
  BY DEF CreateMarker, createMarker
<1>2. version[p] \in Versions /\ p \in Writers
  BY <1>1 DEF LocalOK, CreateSteps, CommandOK, Writers, Running
<1> DEFINE n == version[p] - 1
<1>3. n \in Nat /\ n + 1 = version[p]
  BY <1>2, RepositoryAssumption DEF RepositoryAssumption, Versions
<1>4. markers = 1 .. n
  BY <1>1, <1>2 DEF WriterOK, CreateSteps
<1>5. markers' = 1 .. (n + 1)
  <2> HIDE DEF n
  <2>1. markers' = (1 .. n) \cup {n + 1}
    BY <1>1, <1>3, <1>4
  <2> QED
    BY <1>3, <2>1
<1>6. \A v \in markers' : manifests'[v] \in Manifest
  BY DEF MarkedOK
<1>7. \A v \in markers : manifests[v] \in Manifest
  BY DEF MarkedOK
<1> HIDE DEF n
<1>8. /\ DOMAIN Hist = 1 .. n /\ Len(Hist) = n
      /\ \A v \in 1 .. n : Hist[v] = manifests[v]
  <2>1. Hist = [v \in {w \in 1 .. n : w <= MaxListed} |-> manifests[v]]
    BY <1>4 DEF Hist, listCommittedVersions
  <2>2. 1 .. n \subseteq Versions /\ \A v \in 1 .. n : manifests[v] \in Manifest
    BY <1>4, <1>7
  <2> HIDE DEF EngineInv, TypeOK, RepoTypeOK
  <2> QED
    BY <1>3, <2>1, <2>2, HistTyped
<1>9. /\ Hist' \in Seq(Manifest) /\ Len(Hist') = n + 1
      /\ \A v \in 1 .. (n + 1) : Hist'[v] = manifests'[v]
  <2>1. Hist' = [v \in {w \in 1 .. (n + 1) : w <= MaxListed} |-> manifests'[v]]
    BY <1>5 DEF Hist, listCommittedVersions
  <2>2. 1 .. (n + 1) \subseteq Versions /\ \A v \in 1 .. (n + 1) : manifests'[v] \in Manifest
    BY <1>5, <1>6
  <2>3. n + 1 \in Nat
    BY <1>3
  <2> HIDE DEF EngineInv, TypeOK, RepoTypeOK
  <2> QED
    BY <2>1, <2>2, <2>3, HistTyped
<1>10. \A v \in DOMAIN Hist : Hist'[v] = Hist[v]
  <2>1. \A v \in 1 .. n : v \in 1 .. (n + 1)
    BY <1>3
  <2> HIDE DEF EngineInv, TypeOK, RepoTypeOK
  <2> QED
    BY <1>1, <1>8, <1>9, <2>1
<1>11. UNCHANGED Told
  BY <1>1 DEF Told
<1> QED
  BY <1>8, <1>9, <1>10, <1>11 DEF History!Commit, Hist, Told

\* The last call of create reports what the history holds under its version.
LEMMA ReportStep ==
  ASSUME MaxVersion <= MaxListed, EngineInv, CommandOK, VersionOK, WriterOK,
         NEW p \in Procs, WriteCheckpoint(p), cmd[p] = "create"
  PROVE  History!Report
<1> USE DEF EngineInv, TypeOK, RepoTypeOK
<1>1. /\ pc[p] = "checkpoint"
      /\ created' = [created EXCEPT ![version[p]] = manifest[p]]
      /\ UNCHANGED <<manifests, markers>>
  BY DEF WriteCheckpoint
<1>2. /\ version[p] \in Versions /\ version[p] \in markers /\ manifest[p] \in Manifest
      /\ manifests[version[p]] = manifest[p] /\ created[version[p]] = NoManifest
  BY <1>1 DEF CommandOK, WriterOK, Writers, Running
<1>3. PICK n \in Nat : markers = 1 .. n
  BY DEF VersionOK
<1>4. \A v \in markers : manifests[v] \in Manifest
  BY DEF MarkedOK
<1>5. DOMAIN Hist = 1 .. n /\ \A v \in 1 .. n : Hist[v] = manifests[v]
  <2>1. Hist = [v \in {w \in 1 .. n : w <= MaxListed} |-> manifests[v]]
    BY <1>3 DEF Hist, listCommittedVersions
  <2>2. 1 .. n \subseteq Versions /\ \A v \in 1 .. n : manifests[v] \in Manifest
    BY <1>3, <1>4
  <2> HIDE DEF EngineInv, TypeOK, RepoTypeOK
  <2> QED
    BY <2>1, <2>2, HistTyped
<1>6. version[p] \in DOMAIN Hist /\ Hist[version[p]] = manifest[p]
  BY <1>2, <1>3, <1>5
<1>7. manifest[p] # NoManifest
  BY <1>2, RepositoryAssumption DEF RepositoryAssumption
<1>8. Told' = Told \cup {<<version[p], manifest[p]>>}
  BY <1>1, <1>2, <1>7 DEF Told
<1>9. UNCHANGED Hist
  BY <1>1 DEF Hist, listCommittedVersions
<1>10. \E v \in DOMAIN Hist : Told' = Told \cup {<<v, Hist[v]>>}
  BY <1>6, <1>8
<1> QED
  BY <1>9, <1>10 DEF History!Report, Hist, Told

\* Every other step is a stuttering step of VersionHistory.
LEMMA HistoryStep ==
  ASSUME MaxVersion <= MaxListed, EngineInv, EngineInv', CommandOK, VersionOK, WriterOK,
         [Next]_vars
  PROVE  [History!Next]_<<Hist, Told>>
<1> USE DEF EngineInv, TypeOK, RepoTypeOK
<1>1. CASE UNCHANGED vars
  BY <1>1, QuietHistory DEF vars, repoVars
<1>2. ASSUME NEW p \in Procs, CreateMarker(p)
      PROVE  [History!Next]_<<Hist, Told>>
  BY <1>2, CommitStep DEF History!Next
<1>3. ASSUME NEW p \in Procs, WriteCheckpoint(p)
      PROVE  [History!Next]_<<Hist, Told>>
  <2>1. CASE cmd[p] = "create"
    BY <1>3, <2>1, ReportStep DEF History!Next
  <2>2. CASE cmd[p] # "create"
    BY <1>3, <2>2, QuietHistory DEF WriteCheckpoint
  <2> QED
    BY <2>1, <2>2
<1>4. ASSUME NEW p \in Procs, RenameManifest(p)
      PROVE  [History!Next]_<<Hist, Told>>
  <2>1. /\ pc[p] = "rename"
        /\ manifests' = [manifests EXCEPT ![version[p]] = staged[version[p]]]
        /\ UNCHANGED <<markers, created>>
    BY <1>4 DEF RenameManifest, renameTmpToManifest
  <2>2. version[p] \in Versions /\ markers = 1 .. (version[p] - 1)
    BY <2>1 DEF LocalOK, CreateSteps, CommandOK, Writers, Running, WriterOK
  <2>3. version[p] \notin markers
    <3>1. version[p] \in Nat
      BY <2>2, RepositoryAssumption DEF RepositoryAssumption, Versions
    <3> QED
      BY <2>2, <3>1
  <2>4. \A v \in markers : manifests'[v] = manifests[v]
    BY <2>1, <2>3
  <2> QED
    BY <2>1, <2>4, QuietHistory
<1>5. ASSUME NEW p \in Procs,
             \/ AppendBegin(p) \/ AppendWrite(p) \/ AppendRename(p) \/ AppendCommit(p)
             \/ ScanSource(p) \/ PutChunk(p) \/ AppendPut(p) \/ OpenTmp(p) \/ PlaceTmp(p)
             \/ RenameFails(p) \/ ReadWal(p) \/ CleanTmp(p) \/ EndClean(p) \/ ListVersions(p)
             \/ ReplaceWal(p) \/ Abort(p) \/ StartCommand(p)
      PROVE  [History!Next]_<<Hist, Told>>
  <2>1. UNCHANGED <<markers, created, manifests>>
    BY <1>5 DEF AppendBegin, AppendWrite, AppendRename, AppendCommit, Append1, ScanSource,
       PutChunk, AppendPut, OpenTmp, PlaceTmp, RenameFails, ReadWal, CleanTmp, EndClean,
       ListVersions, ReplaceWal, Abort, StartCommand, StartCreate, StartRecover,
       StartCheckpoint, repoVars
  <2> QED
    BY <2>1, QuietHistory
<1> QED
  BY <1>1, <1>2, <1>3, <1>4, <1>5 DEF Next, Call

\* When creates exclude each other, the repository implements VersionHistory:
\* commits only append, a committed version never changes, and a create reports
\* exactly what is committed under its version, whatever other commands run
\* beside it and wherever a process ends.
THEOREM RepositoryIsHistory ==
  ASSUME OneWriter, MaxVersion <= MaxListed
  PROVE  Spec => IsHistory
<1>1. Init => History!Init
  <2> SUFFICES ASSUME Init PROVE Hist = <<>> /\ Told = {}
    BY DEF History!Init, Hist, Told
  <2>1. listCommittedVersions = {} /\ \A w \in Versions : created[w] = NoManifest
    BY DEF Init, RepoInit, listCommittedVersions
  <2>2. Hist = <<>>
    <3>1. Hist \in [1 .. 0 -> Manifest]
      BY <2>1 DEF Hist
    <3>2. Hist \in Seq(Manifest) /\ Len(Hist) = 0
      BY <3>1, HistIsSeq
    <3> QED
      BY <3>2
  <2> QED
    BY <2>1, <2>2 DEF Told
<1>2. Init => WriterOK
  BY DEF Init, RepoInit, WriterOK, Writers, Running
<1>3. EngineInv /\ CommandOK /\ VersionOK /\ WriterOK /\ [Next]_vars => WriterOK'
  BY NextWriter DEF EngineInv
<1>4. EngineInv /\ EngineInv' /\ CommandOK /\ VersionOK /\ WriterOK /\ [Next]_vars =>
        [History!Next]_<<Hist, Told>>
  BY HistoryStep
<1> QED
  BY <1>1, <1>2, <1>3, <1>4, CommandInvariant, VersionInvariant, PTL
     DEF Spec, IsHistory, History!Spec, Hist, Told
=============================================================================
