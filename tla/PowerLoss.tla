------------------------------ MODULE PowerLoss ------------------------------
(***************************************************************************)
(* What backupctl create leaves on the disk when the machine loses power.  *)
(*                                                                         *)
(* Objects, staged manifests and markers are all written by                *)
(* fileutil::writeFileAtomic: write a scratch file, fsync it, rename it to *)
(* its name, fsync the directory of that name.  Its calls are the actions  *)
(* of this module.  "now" is what processes see, "disk" what has reached   *)
(* the disk: the kernel may write an entry back at any time, and fsync of  *)
(* a directory writes back all of its entries, no more.                    *)
(*                                                                         *)
(* Log and checkpoint are left out: no reader takes a version from them.   *)
(***************************************************************************)
EXTENDS Naturals, Sequences, Functions, FiniteSetsExt

CONSTANTS
    Procs,       \* processes that run create; there is no lock between them
    Chunks,
    Contents,    \* contents of a source directory, as chunk sequences
    Prefix,      \* chunk -> the directory of its object, two digits of its hash
    LastVersion, \* bound on the versions
    Committed,   \* the data of a marker
    Entries,     \* the data of a directory: the names below it
    Torn,        \* the data of a file that was not on the disk
    NoFile

Numbers == 1 .. LastVersion

(***************************************************************************)
(* The names in the repository, and the directory each is an entry of.     *)
(***************************************************************************)
Directory(d) == <<"objects", d>>
Object(c) == <<"object", c>>
Staged(v) == <<"tmp", v>>
Final(v) == <<"manifest", v>>
Marker(v) == <<"commit", v>>

Names ==
    {Directory(Prefix[c]) : c \in Chunks} \cup {Object(c) : c \in Chunks}
        \cup UNION {{Staged(v), Final(v), Marker(v)} : v \in Numbers}

parent(n) ==
    CASE n[1] = "objects" -> <<"objects">>
      [] n[1] = "object"  -> Directory(Prefix[n[2]])
      [] n[1] = "tmp"     -> <<"tmp">>
      [] OTHER            -> <<"manifests">>

VARIABLES
    now,       \* name -> the file or directory that processes see there
    disk,      \* name -> the one an entry on the disk refers to
    \* the processes
    pc,
    creating,  \* the version it makes
    read,      \* what create has read, and its manifest names
    done,      \* how many of its chunks are stored
    writing,   \* writeFileAtomic: the name
    scratch,   \* writeFileAtomic: the scratch file
    reported   \* what users have been told: <<version, contents>>

diskVars == <<now, disk>>
localVars == <<pc, creating, read, done, writing, scratch>>
powerVars == <<diskVars, localVars, reported>>

\* What a file holds, and whether its data is on the disk.
Files == [data : Chunks \cup Contents \cup {Committed, Entries, Torn}, synced : BOOLEAN]

\* No file holds the data of one that was lost, or is the mark of a missing one.
ASSUME PowerAssumption ==
    /\ Contents \subseteq Seq(Chunks)
    /\ Prefix \in [Chunks -> STRING]
    /\ LastVersion \in Nat
    /\ Torn \notin Chunks \cup Contents \cup {Committed, Entries}
    /\ NoFile \notin Files

PowerTypeOK ==
    /\ now \in [Names -> Files \cup {NoFile}]
    /\ disk \in [Names -> Files \cup {NoFile}]
    /\ pc \in [Procs -> {"idle", "put", "write", "fsync", "rename", "fsyncDir", "place", "fsyncFinal"}]
    /\ creating \in [Procs -> Numbers \cup {0}]
    /\ read \in [Procs -> Contents \cup {<<>>}]
    /\ done \in [Procs -> Nat]
    /\ writing \in [Procs -> Names \cup {NoFile}]
    /\ scratch \in [Procs -> Files \cup {NoFile}]
    /\ reported \subseteq Numbers \X Contents

PowerInit ==
    /\ now = [n \in Names |-> NoFile]
    /\ disk = now
    /\ pc = [p \in Procs |-> "idle"]
    /\ creating = [p \in Procs |-> 0]
    /\ read = [p \in Procs |-> <<>>]
    /\ done = [p \in Procs |-> 0]
    /\ writing = [p \in Procs |-> NoFile]
    /\ scratch = [p \in Procs |-> NoFile]
    /\ reported = {}

-----------------------------------------------------------------------------
Exists(n) == now[n] # NoFile

\* listCommittedVersions goes by the markers alone.
marked == {v \in Numbers : Exists(Marker(v))}
nextVersion == IF marked = {} THEN 1 ELSE Max(marked) + 1

goto(p, l) == pc' = [pc EXCEPT ![p] = l]

\* writeFileAtomic(n, ...) begins.
writeFileAtomic(p, n) ==
    /\ writing' = [writing EXCEPT ![p] = n]
    /\ goto(p, "write")

\* The process is gone, and so is its open scratch file: its name is never used again.
exit(p) ==
    /\ goto(p, "idle")
    /\ creating' = [creating EXCEPT ![p] = 0]
    /\ read' = [read EXCEPT ![p] = <<>>]
    /\ done' = [done EXCEPT ![p] = 0]
    /\ writing' = [writing EXCEPT ![p] = NoFile]
    /\ scratch' = [scratch EXCEPT ![p] = NoFile]

StartCreate(p) ==
    /\ pc[p] = "idle"
    /\ nextVersion <= LastVersion
    /\ creating' = [creating EXCEPT ![p] = nextVersion]
    /\ read' \in {[read EXCEPT ![p] = s] : s \in Contents}
    /\ goto(p, "put")
    /\ UNCHANGED <<diskVars, done, writing, scratch, reported>>

(***************************************************************************)
(* What create writes next: an object that is not there, when all are      *)
(* there the staged manifest, and when that is renamed the marker.         *)
(***************************************************************************)
nextChunk(p) == read[p][done[p] + 1]

\* putCompressed reads an object that is there, and takes it for stored.
ObjectExists(p) ==
    /\ pc[p] = "put" /\ done[p] < Len(read[p])
    /\ Exists(Object(nextChunk(p))) /\ now[Object(nextChunk(p))].data = nextChunk(p)
    /\ done' = [done EXCEPT ![p] = @ + 1]
    /\ UNCHANGED <<diskVars, pc, creating, read, writing, scratch, reported>>

\* ensureDirectory makes the object's directory; nobody syncs objects/.
PutObject(p) ==
    /\ pc[p] = "put" /\ done[p] < Len(read[p])
    /\ ~ Exists(Object(nextChunk(p)))
    /\ now' = [now EXCEPT ![parent(Object(nextChunk(p)))] = [data |-> Entries, synced |-> TRUE]]
    /\ writeFileAtomic(p, Object(nextChunk(p)))
    /\ UNCHANGED <<disk, creating, read, done, scratch, reported>>

WriteTmp(p) ==
    /\ pc[p] = "put" /\ done[p] = Len(read[p])
    /\ writeFileAtomic(p, Staged(creating[p]))
    /\ UNCHANGED <<diskVars, creating, read, done, scratch, reported>>

(***************************************************************************)
(* writeFileAtomic, call by call.                                          *)
(***************************************************************************)
\* Mutant: the manifest without its last chunk.
contentShort(p) ==
    CASE writing[p][1] = "object" -> writing[p][2]
      [] writing[p][1] = "tmp"    -> SubSeq(read[p], 1, Len(read[p]) - 1)
      [] OTHER                    -> Committed

content(p) ==
    CASE writing[p][1] = "object" -> writing[p][2]
      [] writing[p][1] = "tmp"    -> read[p]
      [] OTHER                    -> Committed

\* Mutant: the scratch file is not synced.
WriteScratchOnly(p) ==
    /\ pc[p] = "write"
    /\ scratch' = [scratch EXCEPT ![p] = [data |-> content(p), synced |-> FALSE]]
    /\ goto(p, "rename")
    /\ UNCHANGED <<diskVars, creating, read, done, writing, reported>>

WriteScratch(p) ==
    /\ pc[p] = "write"
    /\ scratch' = [scratch EXCEPT ![p] = [data |-> content(p), synced |-> FALSE]]
    /\ goto(p, "fsync")
    /\ UNCHANGED <<diskVars, creating, read, done, writing, reported>>

FsyncScratch(p) ==
    /\ pc[p] = "fsync"
    /\ scratch' = [scratch EXCEPT ![p].synced = TRUE]
    /\ goto(p, "rename")
    /\ UNCHANGED <<diskVars, creating, read, done, writing, reported>>

RenameScratch(p) ==
    /\ pc[p] = "rename"
    /\ now' = [now EXCEPT ![writing[p]] = scratch[p]]
    /\ scratch' = [scratch EXCEPT ![p] = NoFile]
    /\ goto(p, "fsyncDir")
    /\ UNCHANGED <<disk, creating, read, done, writing, reported>>

\* Mutant: the directory is not synced.
fsyncNothing(d) == UNCHANGED disk

\* All entries of directory d are written back.
fsyncDirectory(d) == disk' = [n \in Names |-> IF parent(n) = d THEN now[n] ELSE disk[n]]

\* The return of writeFileAtomic, to putCompressed, writeTmp or CommitMarker::create.
FsyncParent(p) ==
    /\ pc[p] = "fsyncDir"
    /\ fsyncDirectory(parent(writing[p]))
    /\ \/ /\ writing[p][1] = "object"
          /\ done' = [done EXCEPT ![p] = @ + 1]
          /\ writing' = [writing EXCEPT ![p] = NoFile]
          /\ goto(p, "put")
          /\ UNCHANGED <<creating, read, scratch, reported>>
       \/ /\ writing[p][1] = "tmp"
          /\ writing' = [writing EXCEPT ![p] = NoFile]
          /\ goto(p, "place")
          /\ UNCHANGED <<creating, read, done, scratch, reported>>
       \/ /\ writing[p][1] = "commit"
          /\ reported' = reported \cup {<<creating[p], read[p]>>}
          /\ exit(p)
    /\ UNCHANGED now

(***************************************************************************)
(* renameTmpToManifest                                                     *)
(***************************************************************************)

\* The rename fails when another create of the same version has come first.
PlaceManifest(p) ==
    /\ pc[p] = "place"
    /\ \/ /\ Exists(Staged(creating[p]))
          /\ now' = [now EXCEPT ![Final(creating[p])] = now[Staged(creating[p])],
                                ![Staged(creating[p])] = NoFile]
          /\ goto(p, "fsyncFinal")
          /\ UNCHANGED <<creating, read, done, writing, scratch>>
       \/ /\ ~ Exists(Staged(creating[p]))
          /\ exit(p)
          /\ UNCHANGED now
    /\ UNCHANGED <<disk, reported>>

\* Mutant: the rename alone.
FsyncNoManifests(p) ==
    /\ pc[p] = "fsyncFinal"
    /\ writeFileAtomic(p, Marker(creating[p]))
    /\ UNCHANGED <<diskVars, creating, read, done, scratch, reported>>

FsyncManifests(p) ==
    /\ pc[p] = "fsyncFinal"
    /\ fsyncDirectory(<<"manifests">>)
    /\ writeFileAtomic(p, Marker(creating[p]))
    /\ UNCHANGED <<now, creating, read, done, scratch, reported>>

(***************************************************************************)
(* Ends: of a process, and of the machine.                                 *)
(***************************************************************************)
Die(p) ==
    /\ pc[p] # "idle"
    /\ exit(p)
    /\ UNCHANGED <<diskVars, reported>>

\* The kernel writes one entry back.
WriteBack ==
    /\ \E n \in Names : disk[n] # now[n] /\ disk' = [disk EXCEPT ![n] = now[n]]
    /\ UNCHANGED <<now, localVars, reported>>

\* What an entry of the disk shows after the loss.
Recovered(f) ==
    IF f = NoFile \/ f.synced THEN f ELSE [data |-> Torn, synced |-> TRUE]

\* What has not reached the disk is gone, and with a directory all that is in it.
Loss ==
    /\ now' = [n \in Names |->
                  IF parent(n) \in Names /\ disk[parent(n)] = NoFile
                    THEN NoFile
                    ELSE Recovered(disk[n])]
    /\ disk' = now'
    /\ pc' = [p \in Procs |-> "idle"]
    /\ creating' = [p \in Procs |-> 0]
    /\ read' = [p \in Procs |-> <<>>]
    /\ done' = [p \in Procs |-> 0]
    /\ writing' = [p \in Procs |-> NoFile]
    /\ scratch' = [p \in Procs |-> NoFile]
    /\ UNCHANGED reported

Create(p) ==
    \/ StartCreate(p) \/ ObjectExists(p) \/ PutObject(p) \/ WriteTmp(p)
    \/ WriteScratch(p) \/ FsyncScratch(p) \/ RenameScratch(p) \/ FsyncParent(p)
    \/ PlaceManifest(p) \/ FsyncManifests(p)

PowerNext ==
    \/ \E p \in Procs : Create(p) \/ Die(p)
    \/ WriteBack
    \/ Loss

PowerSpec == PowerInit /\ [][PowerNext]_powerVars

-----------------------------------------------------------------------------
(***************************************************************************)
(* Properties.                                                             *)
(***************************************************************************)

\* Nobody ever finds part of a file under a name of the repository, before or
\* after a loss of power: the data is on the disk before the name is.
WholeFiles == \A n \in Names : Exists(n) => now[n].data # Torn

\* A marker that survives a loss of power has its manifest beside it, whichever
\* of the creates that raced for the version wrote the one and the other.
MarkedHasManifest == \A v \in marked : Exists(Final(v)) /\ now[Final(v)].data \in Contents

\* A version that create has reported is listed for ever.
ReportedSurvives == \A r \in reported : r[1] \in marked

\* backup-format.md: the marker says that the version is committed, so that all
\* its chunks can be read; now and after a loss of power.
MarkedChunksStored ==
    \A v \in marked : Exists(Final(v)) =>
        \A c \in Range(now[Final(v)].data) : Exists(Object(c)) /\ now[Object(c)].data = c

-----------------------------------------------------------------------------
(***************************************************************************)
(* The inductive invariant behind WholeFiles, MarkedHasManifest and        *)
(* ReportedSurvives.                                                       *)
(***************************************************************************)
InWrite == {"write", "fsync", "rename", "fsyncDir"}

LocalOK ==
    \A p \in Procs :
        /\ pc[p] # "idle" => creating[p] \in Numbers /\ read[p] \in Contents
        /\ pc[p] \in InWrite =>
               writing[p] \in {Object(c) : c \in Chunks}
                                 \cup {Staged(creating[p]), Marker(creating[p])}
        /\ pc[p] \in {"fsync", "rename"} => scratch[p] \in Files

\* What a file under name n holds, whether or not it is synced.
Fits(n, d) == d # Torn /\ (n[1] \in {"tmp", "manifest"} => d \in Contents)

\* A file is complete and on the disk before it gets its name.
FilesOK ==
    /\ \A n \in Names :
          /\ now[n] # NoFile => now[n].synced /\ Fits(n, now[n].data)
          /\ disk[n] # NoFile => disk[n].synced /\ Fits(n, disk[n].data)
    /\ \A p \in Procs :
          /\ pc[p] \in {"fsync", "rename"} => Fits(writing[p], scratch[p].data)
          /\ pc[p] = "rename" => scratch[p].synced

\* The manifest's name is on the disk before the marker has one, and a marker's
\* name is on the disk before its version is reported.
OrderOK ==
    /\ \A v \in Numbers :
          /\ disk[Final(v)] # NoFile => Exists(Final(v))
          /\ disk[Marker(v)] # NoFile => Exists(Marker(v))
          /\ Exists(Marker(v)) => disk[Final(v)] # NoFile
    /\ \A p \in Procs :
          /\ pc[p] = "fsyncFinal" => Exists(Final(creating[p]))
          /\ pc[p] \in InWrite /\ writing[p] = Marker(creating[p]) =>
                 disk[Final(creating[p])] # NoFile
          /\ pc[p] = "fsyncDir" /\ writing[p] = Marker(creating[p]) => Exists(Marker(creating[p]))
    /\ \A r \in reported : disk[Marker(r[1])] # NoFile

PowerInv == PowerTypeOK /\ LocalOK /\ FilesOK /\ OrderOK
=============================================================================
