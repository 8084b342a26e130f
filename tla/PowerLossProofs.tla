--------------------------- MODULE PowerLossProofs ---------------------------
(***************************************************************************)
(* What a loss of power leaves, for every set of processes, chunks and     *)
(* sources and any number of versions: PowerInv is inductive, so that no   *)
(* part of a file has a name, a marker has its manifest beside it, and     *)
(* what was reported stays listed.                                         *)
(***************************************************************************)
EXTENDS PowerLoss, ListLemmas

-----------------------------------------------------------------------------
(***************************************************************************)
(* Names.                                                                  *)
(***************************************************************************)

\* The names of a version and of a chunk are names of the repository.
LEMMA NamesOf ==
  /\ \A v \in Numbers : Staged(v) \in Names /\ Final(v) \in Names /\ Marker(v) \in Names
  /\ \A c \in Chunks : Object(c) \in Names /\ parent(Object(c)) \in Names
  BY DEF Names, Staged, Final, Marker, Object, Directory, parent

\* Names differ in kind, or in the version or chunk they name.
LEMMA NamesDiffer ==
  ASSUME NEW v, NEW w, NEW c, NEW d
  PROVE  /\ Staged(v) # Final(w) /\ Staged(v) # Marker(w) /\ Final(v) # Marker(w)
         /\ Object(c) # Staged(v) /\ Object(c) # Final(v) /\ Object(c) # Marker(v)
         /\ Directory(d) # Staged(v) /\ Directory(d) # Final(v) /\ Directory(d) # Marker(v)
         /\ Marker(v) = Marker(w) => v = w
         /\ Final(v) = Final(w) => v = w
         /\ Staged(v) = Staged(w) => v = w
  BY DEF Staged, Final, Marker, Object, Directory

\* The kind of a name is its first part.
LEMMA KindOf ==
  ASSUME NEW v, NEW c, NEW d
  PROVE  /\ Staged(v)[1] = "tmp" /\ Final(v)[1] = "manifest" /\ Marker(v)[1] = "commit"
         /\ Object(c)[1] = "object" /\ Object(c)[2] = c /\ Directory(d)[1] = "objects"
  BY DEF Staged, Final, Marker, Object, Directory

\* Manifests and markers are in one directory that is always on the disk, like
\* tmp/; the directory of an object is an entry of objects/.
LEMMA ParentOf ==
  ASSUME NEW v, NEW c
  PROVE  /\ parent(Final(v)) = <<"manifests">> /\ parent(Marker(v)) = <<"manifests">>
         /\ parent(Staged(v)) = <<"tmp">>
         /\ parent(Object(c)) = Directory(Prefix[c])
  BY DEF parent, Staged, Final, Marker, Object, Directory

LEMMA TopDirectories == <<"manifests">> \notin Names /\ <<"tmp">> \notin Names
  BY DEF Names, Staged, Final, Marker, Object, Directory

\* nextVersion is a version when it is within the bound.
LEMMA NextVersionTyped ==
  ASSUME nextVersion <= LastVersion
  PROVE  nextVersion \in Numbers
<1>0. LastVersion \in Nat
  BY PowerAssumption
<1>1. CASE marked = {}
  BY <1>0, <1>1 DEF nextVersion, Numbers
<1>2. CASE marked # {}
  <2>1. marked \in SUBSET (0 .. LastVersion)
    BY <1>0 DEF marked, Numbers
  <2>2. \E v \in marked : \A w \in marked : w <= v
    BY <1>0, <1>2, <2>1, LargestExists
  <2>3. \E v \in marked : \A w \in marked : v >= w
    <3>1. \A v \in marked : v \in Nat
      BY <1>0, <2>1
    <3>2. PICK v \in marked : \A w \in marked : w <= v
      BY <2>2
    <3>3. \A w \in marked : v >= w
      BY <3>1, <3>2
    <3> QED
      BY <3>3
  <2>4. Max(marked) \in marked
    BY <2>3 DEF Max
  <2>5. nextVersion = Max(marked) + 1
    BY <1>2 DEF nextVersion
  <2> DEFINE m == Max(marked)
  <2>6. m \in Nat
    <3>1. \A v \in marked : v \in Nat
      BY <1>0, <2>1
    <3> QED
      BY <2>4, <3>1
  <2>7. nextVersion = m + 1
    BY <2>5
  <2> HIDE DEF m
  <2>8. m + 1 \in 1 .. LastVersion
    BY <1>0, <2>6, <2>7
  <2> QED
    BY <2>7, <2>8 DEF Numbers
<1> QED
  BY <1>1, <1>2

-----------------------------------------------------------------------------
(***************************************************************************)
(* Types.                                                                  *)
(***************************************************************************)

\* A process that ends keeps nothing.
LEMMA ExitTyped ==
  ASSUME PowerTypeOK, LocalOK, NEW p \in Procs, exit(p)
  PROVE  /\ pc' \in [Procs -> {"idle", "put", "write", "fsync", "rename", "fsyncDir",
                               "place", "fsyncFinal"}]
         /\ creating' \in [Procs -> Numbers \cup {0}]
         /\ read' \in [Procs -> Contents \cup {<<>>}]
         /\ done' \in [Procs -> Nat]
         /\ writing' \in [Procs -> Names \cup {NoFile}]
         /\ scratch' \in [Procs -> Files \cup {NoFile}]
         /\ LocalOK'
  BY DEF PowerTypeOK, LocalOK, exit, goto, InWrite

\* writeFileAtomic writes an object, the staged manifest or the marker.
LEMMA TargetForms ==
  ASSUME LocalOK, NEW p \in Procs, pc[p] \in InWrite
  PROVE  \/ \E c \in Chunks : writing[p] = Object(c)
         \/ writing[p] = Staged(creating[p])
         \/ writing[p] = Marker(creating[p])
  BY DEF LocalOK

\* The data of the file that writeFileAtomic writes fits its name.
LEMMA ContentFits ==
  ASSUME PowerTypeOK, LocalOK, NEW p \in Procs, pc[p] \in InWrite
  PROVE  /\ content(p) \in Chunks \cup Contents \cup {Committed}
         /\ Fits(writing[p], content(p))
<1>1. read[p] \in Contents
  BY DEF LocalOK, InWrite
<1>2. \/ \E c \in Chunks : writing[p] = Object(c)
      \/ writing[p] = Staged(creating[p])
      \/ writing[p] = Marker(creating[p])
  BY TargetForms
<1>3. ASSUME NEW c \in Chunks, writing[p] = Object(c)
      PROVE  content(p) = c /\ Fits(writing[p], c)
  BY <1>3, KindOf, PowerAssumption DEF content, Fits
<1>4. CASE writing[p] = Staged(creating[p])
  BY <1>1, <1>4, KindOf, PowerAssumption DEF content, Fits
<1>5. CASE writing[p] = Marker(creating[p])
  BY <1>5, KindOf, PowerAssumption DEF content, Fits
<1> QED
  BY <1>2, <1>3, <1>4, <1>5

\* Each process has what its next call needs.
LEMMA NextTyped ==
  ASSUME PowerTypeOK, LocalOK, [PowerNext]_powerVars
  PROVE  PowerTypeOK' /\ LocalOK'
<1> USE DEF PowerTypeOK, LocalOK, goto, InWrite
<1>0. CASE UNCHANGED powerVars
  BY <1>0 DEF powerVars, diskVars, localVars
<1>1. ASSUME NEW p \in Procs, StartCreate(p)
      PROVE  PowerTypeOK' /\ LocalOK'
  <2>1. nextVersion \in Numbers
    BY <1>1, NextVersionTyped DEF StartCreate
  <2>2. PICK s \in Contents : read' = [read EXCEPT ![p] = s]
    BY <1>1 DEF StartCreate
  <2> QED
    BY <1>1, <2>1, <2>2 DEF StartCreate, diskVars
<1>2. ASSUME NEW p \in Procs, pc[p] = "put", done[p] < Len(read[p])
      PROVE  nextChunk(p) \in Chunks
  <2>1. read[p] \in Seq(Chunks)
    BY <1>2, PowerAssumption
  <2> QED
    BY <1>2, <2>1 DEF nextChunk
<1>3. ASSUME NEW p \in Procs, ObjectExists(p)
      PROVE  PowerTypeOK' /\ LocalOK'
  BY <1>3 DEF ObjectExists, diskVars
<1>4. ASSUME NEW p \in Procs, PutObject(p)
      PROVE  PowerTypeOK' /\ LocalOK'
  <2>1. nextChunk(p) \in Chunks
    BY <1>4, <1>2 DEF PutObject
  <2>2. [data |-> Entries, synced |-> TRUE] \in Files
    BY DEF Files
  <2>3. Object(nextChunk(p)) \in Names
    BY <2>1, NamesOf
  <2> QED
    BY <1>4, <2>1, <2>2, <2>3 DEF PutObject, writeFileAtomic
<1>5. ASSUME NEW p \in Procs, WriteTmp(p)
      PROVE  PowerTypeOK' /\ LocalOK'
  <2>1. Staged(creating[p]) \in Names
    BY <1>5, NamesOf DEF WriteTmp
  <2> QED
    BY <1>5, <2>1 DEF WriteTmp, writeFileAtomic, diskVars
<1>6. ASSUME NEW p \in Procs, WriteScratch(p)
      PROVE  PowerTypeOK' /\ LocalOK'
  <2>1. [data |-> content(p), synced |-> FALSE] \in Files
    BY <1>6, ContentFits DEF WriteScratch, Files
  <2> QED
    BY <1>6, <2>1 DEF WriteScratch, diskVars
<1>7. ASSUME NEW p \in Procs, FsyncScratch(p)
      PROVE  PowerTypeOK' /\ LocalOK'
  <2>1. [scratch[p] EXCEPT !.synced = TRUE] \in Files
    BY <1>7 DEF FsyncScratch, Files
  <2> QED
    BY <1>7, <2>1 DEF FsyncScratch, diskVars
<1>8. ASSUME NEW p \in Procs, RenameScratch(p)
      PROVE  PowerTypeOK' /\ LocalOK'
  BY <1>8 DEF RenameScratch
<1>9. ASSUME NEW d, fsyncDirectory(d)
      PROVE  disk' \in [Names -> Files \cup {NoFile}]
  BY <1>9 DEF fsyncDirectory
<1>10. ASSUME NEW p \in Procs, FsyncParent(p)
       PROVE  PowerTypeOK' /\ LocalOK'
  <2>0. disk' \in [Names -> Files \cup {NoFile}] /\ UNCHANGED now /\ pc[p] = "fsyncDir"
    BY <1>9, <1>10 DEF FsyncParent
  <2>1. CASE writing[p][1] = "commit"
    <3>1. exit(p) /\ reported' = reported \cup {<<creating[p], read[p]>>}
      BY <1>10, <2>1 DEF FsyncParent
    <3>2. <<creating[p], read[p]>> \in Numbers \X Contents
      BY <2>0
    <3>3. reported' \subseteq Numbers \X Contents
      BY <3>1, <3>2
    <3> QED
      BY <2>0, <3>1, <3>3, ExitTyped
  <2>2. CASE writing[p][1] # "commit"
    <3>1. PICK l \in {"put", "place"} : pc' = [pc EXCEPT ![p] = l]
      BY <1>10, <2>2 DEF FsyncParent
    <3>2. /\ done' \in [Procs -> Nat]
          /\ writing' = [writing EXCEPT ![p] = NoFile]
          /\ UNCHANGED <<creating, read, scratch, reported>>
      BY <1>10, <2>2 DEF FsyncParent
    <3> QED
      BY <2>0, <3>1, <3>2
  <2> QED
    BY <2>1, <2>2
<1>11. ASSUME NEW p \in Procs, PlaceManifest(p)
       PROVE  PowerTypeOK' /\ LocalOK'
  <2>1. CASE Exists(Staged(creating[p]))
    BY <1>11, <2>1, NamesOf DEF PlaceManifest, Exists
  <2>2. CASE ~ Exists(Staged(creating[p]))
    BY <1>11, <2>2, ExitTyped DEF PlaceManifest
  <2> QED
    BY <2>1, <2>2
<1>12. ASSUME NEW p \in Procs, FsyncManifests(p)
       PROVE  PowerTypeOK' /\ LocalOK'
  <2>1. Marker(creating[p]) \in Names
    BY <1>12, NamesOf DEF FsyncManifests
  <2> QED
    BY <1>9, <1>12, <2>1 DEF FsyncManifests, writeFileAtomic
<1>13. ASSUME NEW p \in Procs, Die(p)
       PROVE  PowerTypeOK' /\ LocalOK'
  BY <1>13, ExitTyped DEF Die, diskVars
<1>14. CASE WriteBack
  BY <1>14 DEF WriteBack, localVars
<1>15. CASE Loss
  <2>1. [data |-> Torn, synced |-> TRUE] \in Files
    BY DEF Files
  <2>2. \A n \in Names : Recovered(disk[n]) \in Files \cup {NoFile}
    BY <2>1 DEF Recovered
  <2> QED
    BY <1>15, <2>2 DEF Loss
<1> QED
  BY <1>0, <1>1, <1>3, <1>4, <1>5, <1>6, <1>7, <1>8, <1>10, <1>11, <1>12, <1>13, <1>14, <1>15
     DEF PowerNext, Create

-----------------------------------------------------------------------------
(***************************************************************************)
(* Whole files.                                                            *)
(***************************************************************************)

\* FilesOK for the entries of one view of the disk.
Sound(view) == \A n \in Names : view[n] # NoFile => view[n].synced /\ Fits(n, view[n].data)

\* FilesOK for the scratch file of one process.
ScratchOK(p) ==
  /\ pc[p] \in {"fsync", "rename"} => Fits(writing[p], scratch[p].data)
  /\ pc[p] = "rename" => scratch[p].synced

LEMMA FilesParts == FilesOK <=> Sound(now) /\ Sound(disk) /\ \A p \in Procs : ScratchOK(p)
  BY DEF FilesOK, Sound, ScratchOK

\* A step of p that takes it where it has no scratch file.
LEMMA ScratchDropped ==
  ASSUME PowerTypeOK, NEW p \in Procs, NEW l \in {"idle", "put", "write", "fsyncDir", "place", "fsyncFinal"},
         pc' = [pc EXCEPT ![p] = l], \A q \in Procs : ScratchOK(q),
         \A q \in Procs \ {p} : writing'[q] = writing[q] /\ scratch'[q] = scratch[q]
  PROVE  \A q \in Procs : ScratchOK(q)'
  BY DEF PowerTypeOK, ScratchOK

\* FilesOK is inductive: a scratch file is filled and synced before the rename,
\* and what has a name is neither changed nor, at a loss, cut.
LEMMA NextFiles ==
  ASSUME PowerTypeOK, LocalOK, FilesOK, [PowerNext]_powerVars
  PROVE  FilesOK'
<1> USE DEF PowerTypeOK
<1>a. Sound(now) /\ Sound(disk) /\ \A q \in Procs : ScratchOK(q)
  BY FilesParts
<1>b. SUFFICES Sound(now') /\ Sound(disk') /\ \A q \in Procs : ScratchOK(q)'
  BY DEF FilesOK, Sound, ScratchOK
<1>0. CASE UNCHANGED powerVars
  BY <1>0, <1>a DEF powerVars, diskVars, localVars, Sound, ScratchOK
<1>1. ASSUME NEW p \in Procs, exit(p)
      PROVE  \A q \in Procs : ScratchOK(q)'
  <2>1. /\ pc' = [pc EXCEPT ![p] = "idle"]
        /\ \A q \in Procs \ {p} : writing'[q] = writing[q] /\ scratch'[q] = scratch[q]
    BY <1>1 DEF exit, goto
  <2> QED
    BY <1>a, <2>1, ScratchDropped
<1>2. ASSUME NEW p \in Procs, StartCreate(p) \/ WriteTmp(p)
      PROVE  Sound(now') /\ Sound(disk') /\ \A q \in Procs : ScratchOK(q)'
  <2>1. PICK l \in {"put", "write"} : pc' = [pc EXCEPT ![p] = l]
    BY <1>2 DEF StartCreate, WriteTmp, writeFileAtomic, goto
  <2>2. /\ \A q \in Procs \ {p} : writing'[q] = writing[q] /\ scratch'[q] = scratch[q]
        /\ UNCHANGED <<now, disk>>
    BY <1>2 DEF StartCreate, WriteTmp, writeFileAtomic, diskVars
  <2>3. \A q \in Procs : ScratchOK(q)'
    BY <1>a, <2>1, <2>2, ScratchDropped
  <2> QED
    BY <1>a, <2>2, <2>3
<1>3. ASSUME NEW p \in Procs, ObjectExists(p)
      PROVE  Sound(now') /\ Sound(disk') /\ \A q \in Procs : ScratchOK(q)'
  BY <1>a, <1>3 DEF ObjectExists, diskVars, ScratchOK
<1>4. ASSUME NEW p \in Procs, PutObject(p)
      PROVE  Sound(now') /\ Sound(disk') /\ \A q \in Procs : ScratchOK(q)'
  <2>1. /\ pc' = [pc EXCEPT ![p] = "write"]
        /\ \A q \in Procs \ {p} : writing'[q] = writing[q] /\ scratch'[q] = scratch[q]
        /\ UNCHANGED disk
        /\ now' = [now EXCEPT ![Directory(Prefix[nextChunk(p)])] = [data |-> Entries, synced |-> TRUE]]
    BY <1>4, ParentOf DEF PutObject, writeFileAtomic, goto
  <2>2. \A q \in Procs : ScratchOK(q)'
    BY <1>a, <2>1, ScratchDropped
  <2>3. Fits(Directory(Prefix[nextChunk(p)]), Entries)
    BY KindOf, PowerAssumption DEF Fits
  <2>4. Sound(now')
    BY <1>a, <2>1, <2>3 DEF Sound
  <2> QED
    BY <1>a, <2>1, <2>2, <2>4
<1>5. ASSUME NEW p \in Procs, WriteScratch(p)
      PROVE  Sound(now') /\ Sound(disk') /\ \A q \in Procs : ScratchOK(q)'
  <2>1. Fits(writing[p], content(p))
    BY <1>5, ContentFits DEF WriteScratch, InWrite
  <2>2. /\ pc' = [pc EXCEPT ![p] = "fsync"]
        /\ scratch' = [scratch EXCEPT ![p] = [data |-> content(p), synced |-> FALSE]]
        /\ UNCHANGED <<now, disk, writing>>
    BY <1>5 DEF WriteScratch, goto, diskVars
  <2> QED
    BY <1>a, <2>1, <2>2 DEF ScratchOK
<1>6. ASSUME NEW p \in Procs, FsyncScratch(p)
      PROVE  Sound(now') /\ Sound(disk') /\ \A q \in Procs : ScratchOK(q)'
  <2>1. /\ pc[p] = "fsync" /\ pc' = [pc EXCEPT ![p] = "rename"]
        /\ scratch' = [scratch EXCEPT ![p].synced = TRUE]
        /\ UNCHANGED <<now, disk, writing>>
    BY <1>6 DEF FsyncScratch, goto, diskVars
  <2>2. scratch'[p].synced /\ scratch'[p].data = scratch[p].data
    BY <2>1 DEF LocalOK, Files
  <2> QED
    BY <1>a, <2>1, <2>2 DEF ScratchOK
<1>7. ASSUME NEW p \in Procs, RenameScratch(p)
      PROVE  Sound(now') /\ Sound(disk') /\ \A q \in Procs : ScratchOK(q)'
  <2>1. /\ pc[p] = "rename" /\ pc' = [pc EXCEPT ![p] = "fsyncDir"]
        /\ now' = [now EXCEPT ![writing[p]] = scratch[p]]
        /\ \A q \in Procs \ {p} : writing'[q] = writing[q] /\ scratch'[q] = scratch[q]
        /\ UNCHANGED disk
    BY <1>7 DEF RenameScratch, goto
  <2>2. \A q \in Procs : ScratchOK(q)'
    BY <1>a, <2>1, ScratchDropped
  <2>3. scratch[p].synced /\ Fits(writing[p], scratch[p].data)
    BY <1>a, <2>1 DEF ScratchOK
  <2>4. Sound(now')
    BY <1>a, <2>1, <2>3 DEF Sound
  <2> QED
    BY <1>a, <2>1, <2>2, <2>4
<1>8. ASSUME NEW d, fsyncDirectory(d)
      PROVE  Sound(disk')
  BY <1>a, <1>8 DEF fsyncDirectory, Sound
<1>9. ASSUME NEW p \in Procs, FsyncParent(p)
      PROVE  Sound(now') /\ Sound(disk') /\ \A q \in Procs : ScratchOK(q)'
  <2>1. Sound(now') /\ Sound(disk')
    BY <1>a, <1>8, <1>9 DEF FsyncParent
  <2>2. PICK l \in {"idle", "put", "place"} : pc' = [pc EXCEPT ![p] = l]
    BY <1>9 DEF FsyncParent, exit, goto
  <2>3. \A q \in Procs \ {p} : writing'[q] = writing[q] /\ scratch'[q] = scratch[q]
    BY <1>9 DEF FsyncParent, exit
  <2>4. \A q \in Procs : ScratchOK(q)'
    BY <1>a, <2>2, <2>3, ScratchDropped
  <2> QED
    BY <2>1, <2>4
<1>10. ASSUME NEW p \in Procs, PlaceManifest(p)
       PROVE  Sound(now') /\ Sound(disk') /\ \A q \in Procs : ScratchOK(q)'
  <2>1. CASE Exists(Staged(creating[p]))
    <3>1. /\ pc[p] = "place" /\ pc' = [pc EXCEPT ![p] = "fsyncFinal"]
          /\ now' = [now EXCEPT ![Final(creating[p])] = now[Staged(creating[p])],
                                ![Staged(creating[p])] = NoFile]
          /\ UNCHANGED <<disk, writing, scratch>>
      BY <1>10, <2>1 DEF PlaceManifest, goto
    <3>2. Staged(creating[p]) \in Names /\ Final(creating[p]) \in Names
      BY <3>1, NamesOf DEF LocalOK
    <3>3. \A q \in Procs : ScratchOK(q)'
      BY <1>a, <3>1, ScratchDropped
    <3>4. now[Staged(creating[p])].synced /\ Fits(Final(creating[p]), now[Staged(creating[p])].data)
      BY <1>a, <2>1, <3>2, KindOf DEF Sound, Fits, Exists
    <3>5. Sound(now')
      BY <1>a, <3>1, <3>4 DEF Sound
    <3> QED
      BY <1>a, <3>1, <3>3, <3>5
  <2>2. CASE ~ Exists(Staged(creating[p]))
    BY <1>a, <1>1, <1>10, <2>2 DEF PlaceManifest
  <2> QED
    BY <2>1, <2>2
<1>11. ASSUME NEW p \in Procs, FsyncManifests(p)
       PROVE  Sound(now') /\ Sound(disk') /\ \A q \in Procs : ScratchOK(q)'
  <2>1. /\ pc' = [pc EXCEPT ![p] = "write"]
        /\ \A q \in Procs \ {p} : writing'[q] = writing[q] /\ scratch'[q] = scratch[q]
        /\ UNCHANGED now
    BY <1>11 DEF FsyncManifests, writeFileAtomic, goto
  <2>2. \A q \in Procs : ScratchOK(q)'
    BY <1>a, <2>1, ScratchDropped
  <2>3. Sound(disk')
    BY <1>8, <1>11 DEF FsyncManifests
  <2> QED
    BY <1>a, <2>1, <2>2, <2>3
<1>12. ASSUME NEW p \in Procs, Die(p)
       PROVE  Sound(now') /\ Sound(disk') /\ \A q \in Procs : ScratchOK(q)'
  BY <1>a, <1>1, <1>12 DEF Die, diskVars
<1>13. CASE WriteBack
  BY <1>a, <1>13 DEF WriteBack, localVars, Sound, ScratchOK
<1>14. CASE Loss
  <2>1. \A n \in Names : now'[n] # NoFile => now'[n] = disk[n]
    BY <1>a, <1>14 DEF Loss, Recovered, Sound
  <2>2. Sound(now')
    BY <1>a, <2>1 DEF Sound
  <2>3. disk' = now' /\ \A q \in Procs : pc'[q] = "idle"
    BY <1>14 DEF Loss
  <2> QED
    BY <2>2, <2>3 DEF ScratchOK
<1> QED
  BY <1>b, <1>0, <1>2, <1>3, <1>4, <1>5, <1>6, <1>7, <1>9, <1>10, <1>11, <1>12, <1>13, <1>14
     DEF PowerNext, Create

-----------------------------------------------------------------------------
(***************************************************************************)
(* The order in which names reach the disk.                                *)
(***************************************************************************)

\* OrderOK for a version.
VersionOrder(v) ==
  /\ disk[Final(v)] # NoFile => now[Final(v)] # NoFile
  /\ disk[Marker(v)] # NoFile => now[Marker(v)] # NoFile
  /\ now[Marker(v)] # NoFile => disk[Final(v)] # NoFile

\* OrderOK for a process.
ProcOrder(p) ==
  /\ pc[p] = "fsyncFinal" => now[Final(creating[p])] # NoFile
  /\ pc[p] \in InWrite /\ writing[p] = Marker(creating[p]) => disk[Final(creating[p])] # NoFile
  /\ pc[p] = "fsyncDir" /\ writing[p] = Marker(creating[p]) => now[Marker(creating[p])] # NoFile

LEMMA OrderParts ==
  OrderOK <=> /\ \A v \in Numbers : VersionOrder(v)
              /\ \A p \in Procs : ProcOrder(p)
              /\ \A r \in reported : disk[Marker(r[1])] # NoFile
  BY DEF OrderOK, VersionOrder, ProcOrder, Exists

\* Outside a loss no manifest and no marker loses its name.
Keeps(view, view2) ==
  \A v \in Numbers : /\ view[Final(v)] # NoFile => view2[Final(v)] # NoFile
                     /\ view[Marker(v)] # NoFile => view2[Marker(v)] # NoFile

\* A step that takes no name away preserves the order for the processes that do
\* not move, and what was reported.
LEMMA OthersKeep ==
  ASSUME PowerTypeOK, LocalOK, NEW q \in Procs, ProcOrder(q), Keeps(now, now'), Keeps(disk, disk'),
         pc'[q] = pc[q], creating'[q] = creating[q], writing'[q] = writing[q]
  PROVE  ProcOrder(q)'
<1>1. pc[q] # "idle" => creating[q] \in Numbers
  BY DEF LocalOK
<1> QED
  BY <1>1 DEF ProcOrder, Keeps, InWrite

LEMMA ReportedKeep ==
  ASSUME PowerTypeOK, Keeps(disk, disk'), UNCHANGED reported,
         \A r \in reported : disk[Marker(r[1])] # NoFile
  PROVE  \A r \in reported' : disk'[Marker(r[1])] # NoFile
  BY DEF PowerTypeOK, Keeps

\* A process that is not about to write or sync a marker has no obligation.
LEMMA ProcFree ==
  ASSUME NEW p \in Procs,
         \/ pc'[p] \in {"idle", "put", "place"}
         \/ pc'[p] # "fsyncFinal" /\ writing'[p] # Marker(creating'[p])
  PROVE  ProcOrder(p)'
  BY DEF ProcOrder, InWrite

\* Writing entries back takes nothing that matters off the disk, because what
\* is there under a manifest's or marker's name is in the kernel's view as well.
LEMMA BackKeeps ==
  ASSUME \A v \in Numbers : VersionOrder(v),
         \A v \in Numbers : disk'[Final(v)] \in {disk[Final(v)], now[Final(v)]},
         \A v \in Numbers : disk'[Marker(v)] \in {disk[Marker(v)], now[Marker(v)]},
         UNCHANGED now
  PROVE  Keeps(disk, disk') /\ Keeps(now, now') /\ \A v \in Numbers : VersionOrder(v)'
  BY DEF Keeps, VersionOrder

LEMMA SyncKeeps ==
  ASSUME \A v \in Numbers : VersionOrder(v), NEW d, fsyncDirectory(d), UNCHANGED now
  PROVE  Keeps(disk, disk') /\ Keeps(now, now') /\ \A v \in Numbers : VersionOrder(v)'
<1>1. \A n \in Names : disk'[n] \in {disk[n], now[n]}
  BY DEF fsyncDirectory
<1> QED
  BY <1>1, BackKeeps, NamesOf

\* OrderOK is inductive.
LEMMA NextOrder ==
  ASSUME PowerTypeOK, LocalOK, FilesOK, OrderOK, [PowerNext]_powerVars
  PROVE  OrderOK'
<1> USE DEF PowerTypeOK
<1>a. /\ \A v \in Numbers : VersionOrder(v)
      /\ \A q \in Procs : ProcOrder(q)
      /\ \A r \in reported : disk[Marker(r[1])] # NoFile
  BY OrderParts
<1> DEFINE Goal == /\ \A v \in Numbers : VersionOrder(v)'
                   /\ \A q \in Procs : ProcOrder(q)'
                   /\ \A r \in reported' : disk'[Marker(r[1])] # NoFile
<1>b. SUFFICES Goal
  BY DEF OrderOK, VersionOrder, ProcOrder, Exists
<1>0. CASE UNCHANGED powerVars
  BY <1>0, <1>a DEF powerVars, diskVars, localVars, VersionOrder, ProcOrder
\* A step of p that leaves the names of manifests and markers alone.
<1>1. ASSUME NEW p \in Procs, ProcOrder(p)', UNCHANGED <<disk, reported>>,
             \A v \in Numbers : now'[Final(v)] = now[Final(v)] /\ now'[Marker(v)] = now[Marker(v)],
             \A q \in Procs \ {p} : /\ pc'[q] = pc[q] /\ creating'[q] = creating[q]
                                    /\ writing'[q] = writing[q]
      PROVE  Goal
  <2>1. Keeps(now, now') /\ Keeps(disk, disk')
    BY <1>1 DEF Keeps
  <2>2. \A q \in Procs : ProcOrder(q)'
    BY <1>a, <1>1, <2>1, OthersKeep
  <2>3. \A v \in Numbers : VersionOrder(v)'
    BY <1>a, <1>1 DEF VersionOrder
  <2> QED
    BY <1>a, <1>1, <2>2, <2>3
<1>2. ASSUME NEW p \in Procs, StartCreate(p) \/ ObjectExists(p)
      PROVE  Goal
  <2>1. /\ pc'[p] = "put" /\ UNCHANGED <<now, disk, reported>>
        /\ \A q \in Procs \ {p} : /\ pc'[q] = pc[q] /\ creating'[q] = creating[q]
                                  /\ writing'[q] = writing[q]
    BY <1>2 DEF StartCreate, ObjectExists, goto, diskVars
  <2>2. ProcOrder(p)'
    BY <2>1, ProcFree
  <2> QED
    BY <1>1, <2>1, <2>2
<1>3. ASSUME NEW p \in Procs, PutObject(p) \/ WriteTmp(p)
      PROVE  Goal
  <2>1. /\ pc'[p] = "write" /\ UNCHANGED <<disk, reported>>
        /\ \A q \in Procs \ {p} : /\ pc'[q] = pc[q] /\ creating'[q] = creating[q]
                                  /\ writing'[q] = writing[q]
    BY <1>3 DEF PutObject, WriteTmp, writeFileAtomic, goto, diskVars
  <2>2. writing'[p] = Object(nextChunk(p)) \/ writing'[p] = Staged(creating[p])
    BY <1>3 DEF PutObject, WriteTmp, writeFileAtomic
  <2>3. ProcOrder(p)'
    BY <2>1, <2>2, ProcFree, NamesDiffer
  <2>4. \/ UNCHANGED now
        \/ now' = [now EXCEPT ![Directory(Prefix[nextChunk(p)])] = [data |-> Entries, synced |-> TRUE]]
    BY <1>3, ParentOf DEF PutObject, WriteTmp, diskVars
  <2>5. ASSUME NEW v \in Numbers
        PROVE  now'[Final(v)] = now[Final(v)] /\ now'[Marker(v)] = now[Marker(v)]
    <3>1. /\ Final(v) \in Names /\ Marker(v) \in Names
          /\ Directory(Prefix[nextChunk(p)]) # Final(v) /\ Directory(Prefix[nextChunk(p)]) # Marker(v)
      BY NamesDiffer, NamesOf
    <3> QED
      BY <2>4, <3>1 DEF PowerTypeOK
  <2> QED
    BY <1>1, <2>1, <2>3, <2>5
<1>4. ASSUME NEW p \in Procs, WriteScratch(p) \/ FsyncScratch(p)
      PROVE  Goal
  <2>1. /\ pc[p] \in {"write", "fsync"} /\ pc'[p] \in {"fsync", "rename"}
        /\ UNCHANGED <<now, disk, reported, creating, writing>>
        /\ \A q \in Procs \ {p} : pc'[q] = pc[q]
    BY <1>4 DEF WriteScratch, FsyncScratch, goto, diskVars
  <2>2. ProcOrder(p)'
    BY <1>a, <2>1 DEF ProcOrder, InWrite
  <2> QED
    BY <1>1, <2>1, <2>2
<1>5. ASSUME NEW p \in Procs, exit(p), UNCHANGED <<now, disk, reported>>
      PROVE  Goal
  <2>1. /\ pc'[p] = "idle"
        /\ \A q \in Procs \ {p} : /\ pc'[q] = pc[q] /\ creating'[q] = creating[q]
                                  /\ writing'[q] = writing[q]
    BY <1>5 DEF exit, goto
  <2>2. ProcOrder(p)'
    BY <2>1, ProcFree
  <2> QED
    BY <1>1, <1>5, <2>1, <2>2
<1>6. ASSUME NEW p \in Procs, RenameScratch(p)
      PROVE  Goal
  <2>1. /\ pc[p] = "rename" /\ pc' = [pc EXCEPT ![p] = "fsyncDir"]
        /\ now' = [now EXCEPT ![writing[p]] = scratch[p]]
        /\ UNCHANGED <<disk, reported, creating, writing>>
    BY <1>6 DEF RenameScratch, goto
  <2>2. creating[p] \in Numbers /\ scratch[p] \in Files /\ scratch[p] # NoFile
    BY <2>1, PowerAssumption DEF LocalOK
  <2>3. CASE writing[p] = Marker(creating[p])
    <3>1. now' = [now EXCEPT ![Marker(creating[p])] = scratch[p]]
      BY <2>1, <2>3
    <3>2. \A v \in Numbers : now'[Final(v)] = now[Final(v)]
      BY <3>1, NamesDiffer, NamesOf
    <3>3. now'[Marker(creating[p])] # NoFile
      BY <2>2, <3>1, NamesOf
    <3>4. \A v \in Numbers : v # creating[p] => now'[Marker(v)] = now[Marker(v)]
      BY <3>1, NamesDiffer, NamesOf
    <3>5. Keeps(now, now') /\ Keeps(disk, disk')
      BY <2>1, <3>2, <3>3, <3>4 DEF Keeps
    <3>6. disk[Final(creating[p])] # NoFile
      BY <1>a, <2>1, <2>3 DEF ProcOrder, InWrite
    <3>7. \A v \in Numbers : VersionOrder(v)'
      BY <1>a, <2>1, <3>2, <3>3, <3>4, <3>6 DEF VersionOrder
    <3>8. ProcOrder(p)'
      BY <2>1, <3>3, <3>6 DEF ProcOrder
    <3>9. \A q \in Procs \ {p} : ProcOrder(q)'
      BY <1>a, <2>1, <3>5, OthersKeep
    <3> QED
      BY <1>a, <2>1, <3>7, <3>8, <3>9
  <2>4. CASE writing[p] # Marker(creating[p])
    <3>1. \A v \in Numbers : writing[p] # Final(v) /\ writing[p] # Marker(v)
      <4>1. writing[p] = Staged(creating[p]) \/ \E c \in Chunks : writing[p] = Object(c)
        BY <2>1, <2>4, TargetForms DEF InWrite
      <4> QED
        BY <4>1 DEF Staged, Object, Final, Marker
    <3>2. \A v \in Numbers : now'[Final(v)] = now[Final(v)] /\ now'[Marker(v)] = now[Marker(v)]
      BY <2>1, <3>1, NamesOf
    <3>3. ProcOrder(p)'
      BY <2>1, <2>4, ProcFree
    <3> QED
      BY <1>1, <2>1, <3>2, <3>3
  <2> QED
    BY <2>3, <2>4
<1>7. ASSUME NEW p \in Procs, FsyncParent(p)
      PROVE  Goal
  <2>1. /\ pc[p] = "fsyncDir" /\ fsyncDirectory(parent(writing[p])) /\ UNCHANGED now
        /\ pc'[p] \in {"idle", "put", "place"}
        /\ \A q \in Procs \ {p} : /\ pc'[q] = pc[q] /\ creating'[q] = creating[q]
                                  /\ writing'[q] = writing[q]
    BY <1>7 DEF FsyncParent, exit, goto
  <2>2. Keeps(disk, disk') /\ Keeps(now, now') /\ \A v \in Numbers : VersionOrder(v)'
    BY <1>a, <2>1, SyncKeeps
  <2>3. \A q \in Procs : ProcOrder(q)'
    BY <1>a, <2>1, <2>2, OthersKeep, ProcFree
  <2>4. \A r \in reported : disk'[Marker(r[1])] # NoFile
    BY <1>a, <2>2 DEF Keeps
  <2>5. CASE writing[p][1] = "commit"
    <3>1. reported' = reported \cup {<<creating[p], read[p]>>}
      BY <1>7, <2>5 DEF FsyncParent
    <3>2. creating[p] \in Numbers /\ writing[p] = Marker(creating[p])
      BY <2>1, <2>5, TargetForms, KindOf DEF LocalOK, InWrite
    <3>3. now[Marker(creating[p])] # NoFile
      BY <1>a, <2>1, <3>2 DEF ProcOrder
    <3>4. disk'[Marker(creating[p])] = now[Marker(creating[p])]
      BY <2>1, <3>2, NamesOf DEF fsyncDirectory
    <3>5. \A r \in reported' : disk'[Marker(r[1])] # NoFile
      BY <2>4, <3>1, <3>3, <3>4
    <3> QED
      BY <2>2, <2>3, <3>5
  <2>6. CASE writing[p][1] # "commit"
    <3>1. UNCHANGED reported
      BY <1>7, <2>6 DEF FsyncParent
    <3> QED
      BY <2>2, <2>3, <2>4, <3>1
  <2> QED
    BY <2>5, <2>6
<1>8. ASSUME NEW p \in Procs, PlaceManifest(p)
      PROVE  Goal
  <2>1. CASE Exists(Staged(creating[p]))
    <3>1. /\ pc[p] = "place" /\ pc' = [pc EXCEPT ![p] = "fsyncFinal"]
          /\ now' = [now EXCEPT ![Final(creating[p])] = now[Staged(creating[p])],
                                ![Staged(creating[p])] = NoFile]
          /\ UNCHANGED <<disk, reported, creating, writing>>
      BY <1>8, <2>1 DEF PlaceManifest, goto
    <3>2. creating[p] \in Numbers
      BY <3>1 DEF LocalOK
    <3>3. \A v \in Numbers : now'[Marker(v)] = now[Marker(v)]
      BY <3>1, <3>2, NamesDiffer, NamesOf
    <3>4. \A v \in Numbers : v # creating[p] => now'[Final(v)] = now[Final(v)]
      BY <3>1, <3>2, NamesDiffer, NamesOf
    <3>5. now'[Final(creating[p])] # NoFile
      BY <2>1, <3>1, <3>2, NamesDiffer, NamesOf DEF Exists
    <3>6. Keeps(now, now') /\ Keeps(disk, disk')
      BY <3>1, <3>3, <3>4, <3>5 DEF Keeps
    <3>7. \A v \in Numbers : VersionOrder(v)'
      BY <1>a, <3>1, <3>3, <3>4, <3>5 DEF VersionOrder
    <3>8. ProcOrder(p)'
      BY <3>1, <3>5 DEF ProcOrder, InWrite
    <3>9. \A q \in Procs \ {p} : ProcOrder(q)'
      BY <1>a, <3>1, <3>6, OthersKeep
    <3> QED
      BY <1>a, <3>1, <3>7, <3>8, <3>9
  <2>2. CASE ~ Exists(Staged(creating[p]))
    BY <1>5, <1>8, <2>2 DEF PlaceManifest
  <2> QED
    BY <2>1, <2>2
<1>9. ASSUME NEW p \in Procs, FsyncManifests(p)
      PROVE  Goal
  <2>1. /\ pc[p] = "fsyncFinal" /\ pc' = [pc EXCEPT ![p] = "write"]
        /\ writing' = [writing EXCEPT ![p] = Marker(creating[p])]
        /\ fsyncDirectory(<<"manifests">>) /\ UNCHANGED <<now, reported, creating>>
    BY <1>9 DEF FsyncManifests, writeFileAtomic, goto
  <2>2. Keeps(disk, disk') /\ Keeps(now, now') /\ \A v \in Numbers : VersionOrder(v)'
    BY <1>a, <2>1, SyncKeeps
  <2>3. creating[p] \in Numbers
    BY <2>1 DEF LocalOK
  <2>4. disk'[Final(creating[p])] # NoFile
    <3>1. disk'[Final(creating[p])] = now[Final(creating[p])]
      BY <2>1, <2>3, NamesOf, ParentOf DEF fsyncDirectory
    <3> QED
      BY <1>a, <2>1, <3>1 DEF ProcOrder
  <2>5. ProcOrder(p)'
    BY <2>1, <2>4 DEF ProcOrder, InWrite
  <2>6. \A q \in Procs \ {p} : ProcOrder(q)'
    BY <1>a, <2>1, <2>2, OthersKeep
  <2>7. \A r \in reported' : disk'[Marker(r[1])] # NoFile
    BY <1>a, <2>1, <2>2, ReportedKeep
  <2> QED
    BY <2>2, <2>5, <2>6, <2>7
<1>10. ASSUME NEW p \in Procs, Die(p)
       PROVE  Goal
  BY <1>5, <1>10 DEF Die, diskVars
<1>11. CASE WriteBack
  <2>1. \A n \in Names : disk'[n] \in {disk[n], now[n]}
    BY <1>11 DEF WriteBack
  <2>2. UNCHANGED <<now, reported, pc, creating, writing>>
    BY <1>11 DEF WriteBack, localVars
  <2>3. Keeps(disk, disk') /\ Keeps(now, now') /\ \A v \in Numbers : VersionOrder(v)'
    BY <1>a, <2>1, <2>2, BackKeeps, NamesOf
  <2>4. \A q \in Procs : ProcOrder(q)'
    BY <1>a, <2>2, <2>3, OthersKeep
  <2> QED
    BY <1>a, <2>2, <2>3, <2>4, ReportedKeep
<1>12. CASE Loss
  <2>1. \A v \in Numbers : now'[Final(v)] = Recovered(disk[Final(v)])
                            /\ now'[Marker(v)] = Recovered(disk[Marker(v)])
    BY <1>12, NamesOf, ParentOf, TopDirectories DEF Loss
  <2>2. \A f : f # NoFile => Recovered(f) # NoFile
    <3>1. [data |-> Torn, synced |-> TRUE] # NoFile
      <4>1. [data |-> Torn, synced |-> TRUE] \in Files
        BY DEF Files
      <4> QED
        BY <4>1, PowerAssumption
    <3> QED
      BY <3>1 DEF Recovered
  <2>3. Recovered(NoFile) = NoFile
    BY DEF Recovered
  <2>4. disk' = now' /\ (\A q \in Procs : pc'[q] = "idle") /\ UNCHANGED reported
    BY <1>12 DEF Loss
  <2>5. \A v \in Numbers : VersionOrder(v)'
    BY <1>a, <2>1, <2>2, <2>3, <2>4 DEF VersionOrder
  <2>6. Keeps(disk, disk')
    BY <2>1, <2>2, <2>4 DEF Keeps
  <2>7. \A q \in Procs : ProcOrder(q)'
    BY <2>4, ProcFree
  <2> QED
    BY <1>a, <2>4, <2>5, <2>6, <2>7, ReportedKeep
<1> QED
  BY <1>b, <1>0, <1>2, <1>3, <1>4, <1>6, <1>7, <1>8, <1>9, <1>10, <1>11, <1>12
     DEF PowerNext, Create

-----------------------------------------------------------------------------
(***************************************************************************)
(* The theorems.                                                           *)
(***************************************************************************)

\* PowerInv holds of every behaviour, whatever is lost and whenever.
LEMMA PowerInvariant ==
  PowerSpec => []PowerInv
<1>1. PowerInit => PowerInv
  <2> SUFFICES ASSUME PowerInit PROVE PowerInv
    OBVIOUS
  <2>1. PowerTypeOK
    BY DEF PowerInit, PowerTypeOK
  <2>2. LocalOK /\ FilesOK
    BY DEF PowerInit, LocalOK, FilesOK, InWrite
  <2>3. OrderOK
    BY NamesOf DEF PowerInit, OrderOK, InWrite, Exists
  <2> QED
    BY <2>1, <2>2, <2>3 DEF PowerInv
<1>2. PowerInv /\ [PowerNext]_powerVars => PowerInv'
  BY NextTyped, NextFiles, NextOrder DEF PowerInv
<1> QED
  BY <1>1, <1>2, PTL DEF PowerSpec

\* Type correctness, through crashes and losses of power.
THEOREM PowerTypeCorrect ==
  PowerSpec => []PowerTypeOK
<1>1. PowerInv => PowerTypeOK
  BY DEF PowerInv
<1> QED
  BY <1>1, PowerInvariant, PTL

\* No reader finds part of a file under a name of the repository: the scratch
\* file is synced before writeFileAtomic renames it.
THEOREM FilesAreWhole ==
  PowerSpec => []WholeFiles
<1>1. PowerInv => WholeFiles
  BY DEF PowerInv, FilesOK, Fits, WholeFiles, Exists
<1> QED
  BY <1>1, PowerInvariant, PTL

\* A marker has a manifest beside it, before and after a loss of power: the
\* directory is synced between the rename of the one and the writing of the other.
THEOREM MarkersHaveManifests ==
  PowerSpec => []MarkedHasManifest
<1>1. PowerInv => MarkedHasManifest
  <2> SUFFICES ASSUME PowerInv, NEW v \in marked
               PROVE  Exists(Final(v)) /\ now[Final(v)].data \in Contents
    BY DEF MarkedHasManifest
  <2>1. v \in Numbers /\ Exists(Marker(v))
    BY DEF marked
  <2>2. Exists(Final(v))
    BY <2>1 DEF PowerInv, OrderOK
  <2> QED
    BY <2>1, <2>2, NamesOf, KindOf DEF PowerInv, FilesOK, Fits, Exists
<1> QED
  BY <1>1, PowerInvariant, PTL

\* What create has reported is listed for ever, also after a loss of power: the
\* marker's directory is synced before create returns.
THEOREM ReportedVersionsSurvive ==
  PowerSpec => []ReportedSurvives
<1>1. PowerInv => ReportedSurvives
  BY DEF PowerInv, PowerTypeOK, OrderOK, ReportedSurvives, marked
<1> QED
  BY <1>1, PowerInvariant, PTL
=============================================================================
