---------------------------- MODULE BackupEngine ----------------------------
(***************************************************************************)
(* The backupctl commands that change a repository, run by processes that  *)
(* share it without a lock:                                                *)
(*                                                                         *)
(*    create       BackupEngine::create                                    *)
(*    recover      RecoveryManager::recover                                *)
(*    checkpoint   the checkpoint command of backupctl                     *)
(*    compact      MetadataCompactor::compact                              *)
(*                                                                         *)
(* One action is one call that reads or changes a file, so the commands    *)
(* of several processes interleave between any two calls, and a process    *)
(* can end there: killed, by an exception, or by an injected fault.        *)
(*                                                                         *)
(* All commands but compact end in the same two calls, list the committed  *)
(* versions (pc "list") and write them to the checkpoint ("checkpoint").   *)
(***************************************************************************)
EXTENDS Repository

CONSTANTS
    Sources,       \* contents a source directory can have, as chunk sequences
    SourceStable,  \* the source does not change while it is being read
    Offered,       \* the commands that users run
    OneWriter,     \* users keep to one create at a time, as the README asks
    OneCommand     \* users run one command at a time

ASSUME EngineAssumption ==
    /\ Sources \subseteq Seq(Chunks)
    /\ SourceStable \in BOOLEAN
    /\ Offered \subseteq {"create", "recover", "checkpoint", "compact"}
    /\ OneWriter \in BOOLEAN
    /\ OneCommand \in BOOLEAN

VARIABLES
    pc,        \* the call each process makes next
    cmd,       \* the command it runs
    version,   \* create: the version it writes
    manifest,  \* create: the manifest it is going to write
    done,      \* create: how many of the manifest's chunks are stored
    listed,    \* the committed versions it has read
    todo,      \* recover: the names in tmp/ it has not come to yet
    created    \* version -> the manifest of the create that last reported it

localVars == <<pc, cmd, version, manifest, done, listed, todo>>
vars == <<repoVars, localVars, created>>

Commands == {"create", "recover", "checkpoint", "compact"}

\* The places where create appends a record, and the record's type.
AppendAt ==
    [begin |-> "BeginBackup", logPut |-> "PutObject", logWrite |-> "WriteManifest",
     logRename |-> "RenameManifest", logCommit |-> "CommitBackup"]

CreateSteps ==
    {"begin", "scan", "put", "logPut", "openTmp", "placeTmp", "logWrite",
     "rename", "logRename", "mark", "logCommit"}
Steps == CreateSteps \cup {"idle", "readWal", "clean", "list", "checkpoint", "replaceWal"}

Running == {p \in Procs : pc[p] # "idle"}
Writers == {p \in Running : cmd[p] = "create"}

TypeOK ==
    /\ RepoTypeOK
    /\ pc \in [Procs -> Steps]
    /\ cmd \in [Procs -> Commands]
    /\ version \in [Procs -> Versions \cup {0}]
    /\ manifest \in [Procs -> Manifest \cup {NoManifest}]
    /\ done \in [Procs -> Nat]
    /\ listed \in [Procs -> SUBSET Versions]
    /\ todo \in [Procs -> SUBSET tmpNames]
    /\ created \in [Versions -> Manifest \cup {NoManifest}]

Init ==
    /\ RepoInit
    /\ pc = [p \in Procs |-> "idle"]
    /\ cmd = [p \in Procs |-> "create"]
    /\ version = [p \in Procs |-> 0]
    /\ manifest = [p \in Procs |-> NoManifest]
    /\ done = [p \in Procs |-> 0]
    /\ listed = [p \in Procs |-> {}]
    /\ todo = [p \in Procs |-> {}]
    /\ created = [v \in Versions |-> NoManifest]

-----------------------------------------------------------------------------
goto(p, l) == pc' = [pc EXCEPT ![p] = l]

\* A process that ends leaves its files and takes its memory with it.
exit(p) ==
    /\ goto(p, "idle")
    /\ cmd' = [cmd EXCEPT ![p] = "create"]
    /\ version' = [version EXCEPT ![p] = 0]
    /\ manifest' = [manifest EXCEPT ![p] = NoManifest]
    /\ done' = [done EXCEPT ![p] = 0]
    /\ listed' = [listed EXCEPT ![p] = {}]
    /\ todo' = [todo EXCEPT ![p] = {}]

Start(p, c, l) ==
    /\ pc[p] = "idle"
    /\ c \in Offered
    /\ OneCommand => Running = {}
    /\ goto(p, l)
    /\ cmd' = [cmd EXCEPT ![p] = c]

(***************************************************************************)
(* create                                                                  *)
(***************************************************************************)

\* ensureLayout and nextVersion; the version is not reserved.
StartCreate(p) ==
    /\ Start(p, "create", "begin")
    /\ OneWriter => Writers = {}
    /\ nextVersion <= MaxVersion
    /\ version' = [version EXCEPT ![p] = nextVersion]
    /\ UNCHANGED <<repoVars, manifest, done, listed, todo, created>>

\* Append the record the process is at and go on to step l.
Append1(p, l) ==
    /\ appendWal(AppendAt[pc[p]], version[p])
    /\ goto(p, l)
    /\ UNCHANGED <<objects, scratch, staged, manifests, markers, walTorn, checkpoint,
                   cmd, version, manifest, done, listed, todo, created>>

AppendBegin(p) == pc[p] = "begin" /\ Append1(p, "scan")

\* Mutants: the last chunk is left out; a chunk is logged and not stored.
NextChunkShort(s, n) == IF n + 1 < Len(s) THEN "put" ELSE "openTmp"
NextChunkLogged(s, n) == IF n < Len(s) THEN "logPut" ELSE "openTmp"

\* The step after the first n chunks of a source s are stored.
NextChunk(s, n) == IF n < Len(s) THEN "put" ELSE "openTmp"

\* Mutant: the hash context starts again with each chunk.
ScannedLastDigest(looked, read) ==
    [chunks |-> read, size |-> Len(looked),
     digest |-> IF read = <<>> THEN <<>> ELSE <<read[Len(read)]>>]

Scanned(looked, read) == [chunks |-> read, size |-> Len(looked), digest |-> read]

\* Take the size of the files, then read them: two looks at the source.
ScanSource(p) ==
    /\ pc[p] = "scan"
    /\ \E looked, read \in Sources :
          /\ SourceStable => looked = read
          /\ manifest' = [manifest EXCEPT ![p] = Scanned(looked, read)]
          /\ goto(p, NextChunk(read, 0))
    /\ done' = [done EXCEPT ![p] = 0]
    /\ UNCHANGED <<repoVars, cmd, version, listed, todo, created>>

PutChunk(p) ==
    /\ pc[p] = "put"
    /\ putRaw(manifest[p].chunks[done[p] + 1])
    /\ goto(p, "logPut")
    /\ UNCHANGED <<scratch, staged, manifests, markers, wal, walTorn, checkpoint,
                   cmd, version, manifest, done, listed, todo, created>>

AppendPut(p) ==
    /\ pc[p] = "logPut"
    /\ appendWal("PutObject", manifest[p].chunks[done[p] + 1])
    /\ done' = [done EXCEPT ![p] = @ + 1]
    /\ goto(p, NextChunk(manifest[p].chunks, done[p] + 1))
    /\ UNCHANGED <<objects, scratch, staged, manifests, markers, walTorn, checkpoint,
                   cmd, version, manifest, listed, todo, created>>

\* writeTmp, in two calls: the scratch file, and its rename in tmp/.
OpenTmp(p) ==
    /\ pc[p] = "openTmp"
    /\ openScratch(p)
    /\ goto(p, "placeTmp")
    /\ UNCHANGED <<objects, staged, manifests, markers, wal, walTorn, checkpoint,
                   cmd, version, manifest, done, listed, todo, created>>

PlaceTmp(p) ==
    /\ pc[p] = "placeTmp"
    /\ placeStaged(p, version[p], manifest[p])
    /\ goto(p, "logWrite")
    /\ UNCHANGED <<objects, manifests, markers, wal, walTorn, checkpoint,
                   cmd, version, manifest, done, listed, todo, created>>

AppendWrite(p) == pc[p] = "logWrite" /\ Append1(p, "rename")

RenameManifest(p) ==
    /\ pc[p] = "rename"
    /\ renameTmpToManifest(version[p])
    /\ goto(p, "logRename")
    /\ UNCHANGED <<objects, scratch, markers, wal, walTorn, checkpoint,
                   cmd, version, manifest, done, listed, todo, created>>

\* Either rename finds its source gone, and create ends in an exception.
RenameFails(p) ==
    /\ \/ pc[p] = "placeTmp" /\ p \notin scratch
       \/ pc[p] = "rename" /\ staged[version[p]] = NoManifest
    /\ exit(p)
    /\ UNCHANGED <<repoVars, created>>

AppendRename(p) == pc[p] = "logRename" /\ Append1(p, "mark")

CreateMarker(p) ==
    /\ pc[p] = "mark"
    /\ createMarker(version[p])
    /\ goto(p, "logCommit")
    /\ UNCHANGED <<objects, scratch, staged, manifests, wal, walTorn, checkpoint,
                   cmd, version, manifest, done, listed, todo, created>>

AppendCommit(p) == pc[p] = "logCommit" /\ Append1(p, "list")

(***************************************************************************)
(* recover                                                                 *)
(***************************************************************************)
StartRecover(p) ==
    /\ Start(p, "recover", "readWal")
    /\ UNCHANGED <<repoVars, version, manifest, done, listed, todo, created>>

\* Mutant: a torn record is taken for the end of the log.
ReadWalTolerant(p) ==
    /\ pc[p] = "readWal"
    /\ goto(p, "clean")
    /\ todo' = [todo EXCEPT ![p] = tmpNames]
    /\ UNCHANGED <<repoVars, cmd, version, manifest, done, listed, created>>

\* WalLog::readAll throws on a torn record, before anything is removed.
ReadWal(p) ==
    /\ pc[p] = "readWal"
    /\ IF walTorn
         THEN exit(p)
         ELSE /\ goto(p, "clean")
              /\ todo' = [todo EXCEPT ![p] = tmpNames]
              /\ UNCHANGED <<cmd, version, manifest, done, listed>>
    /\ UNCHANGED <<repoVars, created>>

\* The directory is read while other processes add, rename and remove files: a
\* file that is there all the time is removed, one that comes or goes may be.
CleanTmp(p) ==
    /\ pc[p] = "clean"
    /\ \E f \in todo[p] :
          /\ removeTmp(f)
          /\ todo' = [todo EXCEPT ![p] = @ \ {f}]
    /\ UNCHANGED <<objects, manifests, markers, wal, walTorn, checkpoint,
                   pc, cmd, version, manifest, done, listed, created>>

EndClean(p) ==
    /\ pc[p] = "clean" /\ todo[p] = {}
    /\ goto(p, "list")
    /\ UNCHANGED <<repoVars, cmd, version, manifest, done, listed, todo, created>>

(***************************************************************************)
(* checkpoint, compact, and the tail of all commands                       *)
(***************************************************************************)
StartCheckpoint(p) ==
    /\ \E c \in {"checkpoint", "compact"} : Start(p, c, "list")
    /\ UNCHANGED <<repoVars, version, manifest, done, listed, todo, created>>

ListVersions(p) ==
    /\ pc[p] = "list"
    /\ listed' = [listed EXCEPT ![p] = listCommittedVersions]
    /\ goto(p, "checkpoint")
    /\ UNCHANGED <<repoVars, cmd, version, manifest, done, todo, created>>

\* The last call of every command but compact; create then reports its version.
WriteCheckpoint(p) ==
    /\ pc[p] = "checkpoint"
    /\ writeCheckpoint(listed[p])
    /\ created' = IF cmd[p] = "create"
                    THEN [created EXCEPT ![version[p]] = manifest[p]]
                    ELSE created
    /\ IF cmd[p] = "compact"
         THEN /\ goto(p, "replaceWal")
              /\ UNCHANGED <<cmd, version, manifest, done, listed, todo>>
         ELSE exit(p)
    /\ UNCHANGED <<objects, scratch, staged, manifests, markers, wal, walTorn>>

ReplaceWal(p) ==
    /\ pc[p] = "replaceWal"
    /\ replaceWal
    /\ exit(p)
    /\ UNCHANGED <<objects, scratch, staged, manifests, markers, checkpoint, created>>

(***************************************************************************)
(* The process ends before its next call, or within the append it is at:   *)
(* kill, injected fault, exception, or a full disk.                       *)
(***************************************************************************)
Abort(p) ==
    /\ pc[p] # "idle"
    /\ exit(p)
    /\ \/ UNCHANGED walTorn
       \/ pc[p] \in DOMAIN AppendAt /\ walTorn' = TRUE
    /\ UNCHANGED <<objects, scratch, staged, manifests, markers, wal, checkpoint, created>>

\* The calls a running process makes.
Call(p) ==
    \/ AppendBegin(p) \/ ScanSource(p) \/ PutChunk(p) \/ AppendPut(p)
    \/ OpenTmp(p) \/ PlaceTmp(p) \/ AppendWrite(p)
    \/ RenameManifest(p) \/ RenameFails(p) \/ AppendRename(p)
    \/ CreateMarker(p) \/ AppendCommit(p)
    \/ ReadWal(p) \/ CleanTmp(p) \/ EndClean(p)
    \/ ListVersions(p) \/ WriteCheckpoint(p) \/ ReplaceWal(p)

StartCommand(p) == StartCreate(p) \/ StartRecover(p) \/ StartCheckpoint(p)

Next == \E p \in Procs : Call(p) \/ StartCommand(p) \/ Abort(p)

Spec == Init /\ [][Next]_vars

-----------------------------------------------------------------------------
(***************************************************************************)
(* Properties.                                                             *)
(***************************************************************************)

\* A commit marker is evidence that a backup is complete: its manifest is in
\* place and every chunk the manifest names has an object.  It must survive
\* every crash, a recover that cleans tmp/ under a running create, and even
\* creates that race for one version (README: there is no writer lock).
CommittedReadable ==
    \A v \in markers : Loads(v) /\ ChunksReadable(manifests[v])

\* The versions are 1, 2, ..., n without a gap: nextVersion counts on from the
\* last marker, and neither a crashed create nor a race leaves a hole that
\* a later create would never fill.
VersionsContiguous == \A v \in markers : \A w \in Versions : w < v => w \in markers

\* The log never runs ahead of the files: a record is written after the file
\* it is about, also across a compaction and an abandoned create.
LogFollowsFiles ==
    /\ \A c \in Chunks : <<"PutObject", c>> \in wal => c \in objects
    /\ \A v \in Versions :
          /\ <<"RenameManifest", v>> \in wal => manifests[v] # NoManifest
          /\ <<"CommitBackup", v>> \in wal => v \in markers

\* The checkpoint never names a version that is not committed, whoever wrote
\* it from whatever list it had read.
CheckpointCommitted == checkpoint \subseteq markers

\* With one command at a time, a version that was reported is in the
\* checkpoint, and no later command takes it out again.
CreatedInCheckpoint ==
    \A v \in Versions : created[v] # NoManifest => v \in checkpoint

\* A committed version verifies and restores: verify and restore check the
\* size and the digest as well as the objects.
CommittedVerifies == \A v \in markers : Verifies(manifests[v])

\* A recover that finds a torn log changes nothing: it neither cleans tmp/ nor
\* writes the checkpoint until a compact has replaced the log.
TornLogStopsRecover ==
    [][\A p \in Procs :
          cmd[p] = "recover" /\ walTorn /\ walTorn'
             => UNCHANGED <<scratch, staged, checkpoint>>]_vars

\* With one create at a time the repository is an append-only history: the
\* version a create reports is committed, verifiable, holds what that very run
\* read, and never changes again, whatever crashes and recovers come between.
History == INSTANCE VersionHistory WITH
    Backups  <- Manifest,
    history  <- [v \in listCommittedVersions |-> manifests[v]],
    reported <- {<<v, created[v]>> : v \in {w \in Versions : created[w] # NoManifest}}

IsHistory == History!Spec

-----------------------------------------------------------------------------
(***************************************************************************)
(* The inductive invariants behind CommittedReadable, VersionsContiguous   *)
(* and LogFollowsFiles.                                                    *)
(***************************************************************************)
AtPut == {"put", "logPut"}
HasManifest == CreateSteps \ {"begin", "scan"}
Complete == HasManifest \ AtPut

LocalOK ==
    \A p \in Procs :
        /\ pc[p] \in CreateSteps => version[p] \in Versions
        /\ pc[p] \in HasManifest => manifest[p] \in Manifest
        /\ pc[p] \in AtPut => done[p] < Len(manifest[p].chunks)

\* Chunks are stored in order, before the manifest that names them exists.
StoredOK ==
    /\ \A v \in Versions :
          /\ staged[v] # NoManifest => ChunksReadable(staged[v])
          /\ manifests[v] # NoManifest => ChunksReadable(manifests[v])
    /\ \A p \in Procs :
          /\ pc[p] \in AtPut => \A i \in 1 .. done[p] : manifest[p].chunks[i] \in objects
          /\ pc[p] = "logPut" => manifest[p].chunks[done[p] + 1] \in objects
          /\ pc[p] \in Complete => ChunksReadable(manifest[p])

\* The manifest is in place before its marker.
MarkedOK ==
    /\ \A v \in markers : manifests[v] # NoManifest
    /\ \A p \in Procs :
          pc[p] \in {"logRename", "mark", "logCommit"} => manifests[version[p]] # NoManifest

\* A create is at most one version ahead of the markers.
VersionOK ==
    \E n \in Nat :
        /\ markers = 1 .. n
        /\ \A p \in Procs : pc[p] \in CreateSteps => version[p] <= n + 1

EngineInv == TypeOK /\ LocalOK /\ StoredOK /\ MarkedOK

(***************************************************************************)
(* The invariants behind the other properties, each inductive with those   *)
(* above; SerialOK needs one command and WriterOK one create at a time.    *)
(***************************************************************************)

\* Only create is at a step of create, and its marker is there when it lists.
CommandOK ==
    \A p \in Procs :
        /\ pc[p] \in CreateSteps => cmd[p] = "create"
        /\ pc[p] \in {"readWal", "clean"} => cmd[p] = "recover"
        /\ cmd[p] = "recover" => pc[p] \in {"readWal", "clean", "list", "checkpoint"}
        /\ cmd[p] = "create" /\ pc[p] \in {"list", "checkpoint"} =>
               version[p] \in Versions /\ manifest[p] \in Manifest
        /\ cmd[p] = "create" /\ pc[p] \in {"logCommit", "list", "checkpoint"} =>
               version[p] \in markers

\* A list of versions that is out of date is still a list of committed ones.
ListedOK ==
    /\ CheckpointCommitted
    /\ \A p \in Procs : listed[p] \subseteq markers

\* A manifest that was made from one look at the source agrees with itself.
SelfConsistent(m) == Len(m.chunks) = m.size /\ m.chunks = m.digest
SoundOK ==
    /\ \A v \in Versions :
          /\ staged[v] # NoManifest => SelfConsistent(staged[v])
          /\ manifests[v] # NoManifest => SelfConsistent(manifests[v])
    /\ \A p \in Procs : pc[p] \in HasManifest => SelfConsistent(manifest[p])

\* With one command at a time no list is out of date, and no record is torn
\* behind the back of a recover that has read the log.
SerialOK ==
    /\ \A p, q \in Running : p = q
    /\ \A p \in Procs :
          /\ cmd[p] = "recover" /\ walTorn => pc[p] = "readWal"
          /\ pc[p] = "checkpoint" => listed[p] = listCommittedVersions

\* What was reported is committed and, if listed in time, in the checkpoint.
ReportedOK ==
    \A v \in Versions : created[v] # NoManifest => v \in markers /\ v \in checkpoint

\* With one create at a time its version is the next one until it is marked,
\* and what is staged, renamed and reported under it is its own manifest.
WriterOK ==
    /\ \A p, q \in Writers : p = q
    /\ \A p \in Writers :
          /\ created[version[p]] = NoManifest
          /\ pc[p] \in CreateSteps \ {"logCommit"} => markers = 1 .. (version[p] - 1)
          /\ pc[p] \in {"logWrite", "rename"} =>
                 staged[version[p]] \in {manifest[p], NoManifest}
          /\ pc[p] \in {"logRename", "mark", "logCommit", "list", "checkpoint"} =>
                 manifests[version[p]] = manifest[p]
    /\ \A v \in Versions :
          created[v] # NoManifest => v \in markers /\ created[v] = manifests[v]
=============================================================================
