# A TLA+ development of the data-protection core

The program keeps *versions* of a directory in a *repository*: a local command
(`backupctl`) or an upload over TCP (`backup-client` to `backup-server`) cuts the
files into chunks, stores each chunk under its SHA-256, writes a manifest that
names the chunks, and commits it with an empty marker file. There is no database
and no lock: all guarantees come from the order in which small files are written,
renamed and synced.

This directory holds TLA+ modules of that program, the configurations that
model-check them with TLC, and theorems that TLAPS checks. `PROJECT.json` lists
components, runs, mutants, hazards, findings and theorems, and maps every
definition to the lines of the source it stands for. Paths below are relative to
the repository.

## 1. Inventory

| Component | State it keeps | Operations | Shares with |
|---|---|---|---|
| Local commands (`core/BackupEngine`, `metadata/RecoveryManager`, `metadata/MetadataCompactor`, `cli/backupctl_main`) | local variables of one process | `create`, `recover`, `checkpoint`, `compact`; `list`, `restore`, `verify`, `stats` only read the repository | the repository, with every other process |
| Repository storage (`core/ObjectStore`, `core/ManifestStore`, `metadata/CommitMarker`, `metadata/Checkpoint`) | `objects/`, `tmp/`, `manifests/*.manifest`, `manifests/*.commit`, `metadata/checkpoint.dat` | put, stage, rename, mark, list, load | called by commands and server |
| Write-ahead log (`metadata/WalLog`) | `metadata/wal.log` | append, read all (and check), replace | called by commands and server |
| Atomic replacement (`common/FileUtils.hpp`) | a scratch file beside the file it replaces | write, fsync, rename, fsync the directory | everything but the log's and the session index' append |
| Fault injection (`metadata/FaultInjector`) | the chosen stage | throw or abort at a stage | `create` |
| Upload server (`network/BackupServer`) | connections; a version and a manifest while it commits | HELLO, QUERY_SESSION, PUT_CHUNK, COMMIT_SESSION | the repository and the session index, between workers |
| Session index (`network/SessionIndex`) | `metadata/sessions/<hex id>.session` | received, appendChunk, buildManifest, markCommitted | between the workers of one session |
| Upload client (`network/BackupClient`, `network/TransferSession`) | prepared chunks, the status it got | upload, resume | the server, by request and reply |
| Worker pool (`concurrency/ThreadPool`, `BoundedQueue.hpp`) | queue, two flags, two condition variables | submit, shutdown, worker loop | accept loop and workers |
| Packet codec (`network/PacketCodec`) | the part of a packet read or written so far | readPacket, writePacket | both ends of a connection |
| Verify and restore (`core/VerifyEngine`, `core/RestoreEngine`) | the target directory, which keeps what earlier restores left | verify, restore file by file | read the repository |
| Chunkers (`core/FixedChunker`, `core/ContentDefinedChunker`) | the chunk being collected, the rolling hash | chunkFile | called by `create` and the upload client |
| File scanner (`core/FileScanner`) | none | the regular files of a source in the order of their paths | called by `create` and the upload client |
| Compressor, hash, logger, option parsing, benchmark, corruption tool | none that outlives a call | pure functions and I/O | |

How they interact. `create` calls, in this order: log `BEGIN_BACKUP`; for each
chunk, put the object and log it; stage the manifest in `tmp/`; log; rename it to
`manifests/`; log; create the marker; log; list the markers and write the
checkpoint. `COMMIT_SESSION` makes the same calls with a manifest built from the
session index. A version is committed when its marker exists, and its number is
one more than the largest marker, read at the start and reserved by nobody.

What is hard here, and hard to test:

* processes and workers that interleave between any two of these calls, `recover`
  cleaning `tmp/` under a running `create`, two writers with one version number;
* the end of a process between any two calls, and inside an append to the log;
* loss of power, when what a process saw is not what the disk holds;
* client, server, or both ending in the middle of an upload, and an upload
  resumed from an index that an earlier one, or another one, has written;
* a worker that goes on after its client has gone;
* check-then-append on the session index;
* lost wakeups, a full queue, workers held by idle connections, and shutdown in
  the middle of it all;
* reads and writes that move part of a packet;
* a full disk, which leaves the first part of a log record or a session's line;
* objects and manifests that are damaged or lost between two commands;
* boundaries of content-defined chunks, at the smallest size, the largest, and the
  end of a file.

What makes each component correct:

* **Repository**: a marker stands for a readable manifest; versions are
  contiguous; what was reported stays as it was; the log and the checkpoint never
  name what is not there.
* **Upload**: an index names stored chunks only; a resumed upload sends what is
  missing and nothing else; an acknowledged version holds the client's source; a
  committed version verifies; an upload ends.
* **Pool**: an accepted task runs once; it gets a worker; `submit` and `shutdown`
  return; the joined pool has run all that was accepted.
* **Atomic replacement**: no part of a file is seen, also after a loss of power.
* **Packets**: whole packets, in order, whatever the splits.
* **Data**: every byte of a file is in one chunk; a manifest lists the source it was
  made from, however it was cut and in however many uploads its chunks came; `verify`
  says what `restore` will do; damage is reported and never restored, and nothing is
  built upon it but by a session that began before it (section 5).
* **Log**: it reads back as what was appended, or is not read at all.

`PROJECT.json` "hazards" has the full list with lines and the properties that
cover each, or the reason why none does.

## 2. Modules

| Module | What it is |
|---|---|
| `Repository` | the repository's files as variables, and the calls that read and change them |
| `BackupEngine` | `create`, `recover`, `checkpoint`, `compact` by several processes; EXTENDS `Repository` |
| `VersionHistory` | what a repository promises: an append-only history. `BackupEngine` implements it (`IsHistory`) |
| `BackupEngineProofs` | theorems about `BackupEngine`: repository, log, checkpoint, history |
| `Lists`, `ListLemmas` | operators on lists (the k-th member of a set of numbers, the elements of one kind, appending), and lemmas on sets of numbers and lists |
| `SessionIndex` | what is read out of a session's index, and the records a client prepares |
| `UploadServer` | clients, connections, workers and their handlers; EXTENDS `Repository` and `SessionIndex` |
| `UploadServerProofs` | theorems about `UploadServer` |
| `ThreadPool` | the pool with its bounded queue |
| `Chunker` | the loops of the two chunkers over the bytes of a file |
| `ManifestText` | a manifest as lines of tokens: `serialize` and `parse` |
| `DataPath` | the way of the bytes into the repository and back: cut, store, commit by `create` or upload, damage, `verify`, `restore`; EXTENDS `Chunker`, `ManifestText` and `SessionIndex` |
| `DataPathProofs` | theorems about `Chunker`, `ManifestText` and `DataPath` |
| `Log`, `WalFile` | what the log is to the commands, and the bytes of `wal.log` with several appenders, which implement it (`IsLog`) |
| `WalFileProofs` | theorems about `WalFile` |
| `PowerLoss`, `PowerLossProofs` | `create` down to the calls of `writeFileAtomic`, with what has reached the disk, and theorems about it |
| `Channel`, `PacketStream` | a channel of whole packets, and `readPacket`/`writePacket` over bytes, which implement it (`IsChannel`) |
| `MCBackupEngine`, `MCUploadServer`, `MCPowerLoss` | small instances for TLC |
| `MCServerParts` | small instances of `ThreadPool` and `PacketStream`, the two parts under the handlers |
| `MCStorage` | small instances of `DataPath`, `PowerLoss` and `WalFile`, three views of what is stored |
| `ServerPartsProofs` | theorems about `ThreadPool`, `PacketStream` and `MCServerParts` |
| `StorageProofs` | theorems about `MCStorage`; EXTENDS the proofs of its three views |

The views in `MCStorage` and the parts in `MCServerParts` share no state; a
behaviour chooses one of them at its start (`subject`) and stays with it, so that
each of the two runs covers all of them without multiplying their states. That such a
behaviour is a behaviour of each of them, so that what is proved of one holds of
it, is proved (`ViewsApart`, `PartsApart`). How the modules are tied together
beyond that is argued, not checked: `Channel` is what `UploadServer` has
of a connection, `Log` what `Repository` has of the log, a chunk that `DataPath`
cuts is what the others have as a model value.

`PowerLoss`, `WalFile` and `PacketStream` name their definitions apart from those of
`DataPath` and `ThreadPool` (`PowerSpec`, `WalSpec`, `StreamSpec`), so that the MC modules
extend them all and a run checks the definitions that the theorems are about.

### How state and actions correspond to the code

**Repository.** One variable per kind of file. A chunk is a model value that
stands for its bytes and for their SHA-256, so `objects` is a set; a manifest is
the sequence of its chunks with the size and the digest of the file (`Verifies`
compares them, as `VerifyEngine` does). One source is one file. `staged` is
`tmp/version-N.manifest.tmp`, `scratch` the temporary file of the atomic write
that makes it. `markers` is what `listCommittedVersions` lists, up to
`MaxListed`, the last number whose file name has the length the code tests for.
`wal` is a *set* of records with a flag `walTorn`: the only reader, `recover`,
checks the records and uses none of them, so neither order nor number matters.

**BackupEngine.** One action is one call that reads or changes a file. `pc[p]` is
the next call of process p; an action's guard is `pc` and the code's own
condition. `RenameFails` is the exception of `create` when `recover` has removed
its scratch or staged file. `Abort` ends a process before any call, or within an
append, which leaves a torn record; the five injected faults are among these
places. `CleanTmp` removes one name of `tmp/` at a time, since the directory is
read while others change it. `created` is a history variable: the manifest of the
run that reported a version. The constants `OneWriter`, `OneCommand` and
`SourceStable` say what users do; the README asks for one writer and no code
enforces it.

**UploadServer.** One action is one step of the client between two packets, or
one call of a handler. A connection holds one request and its reply, because the
client waits for each reply; `PacketStream` justifies that packets are whole. It
waits in `queue`, which stands for the pool's queue and the listen backlog behind
it, until one of the `workers` is free (`ServeNext`, which `ThreadPool` justifies),
and keeps that worker to its end. An upload reads what the source holds at that
moment (`sourceNow`): what the one before has read, or what an edit has made of it. The constant
`Edits` says what edits there are, none under `SourceStable`.
`conn` is the server's view: `eof` after the client has left. What is sent to an
end that has left is lost. `ServerDies` ends all workers at once and
keeps the files; it also stands for the SIGPIPE that the ERROR reply to a dead
client raises. A worker whose client is gone goes on to the end of its handler,
as `handleConnection` does. A disk without room (`DiskFull`) fails any write, and cuts
a line of the session index short: within the path of the object, its last field,
the line reads as a record; earlier, it makes every reader throw; and the next
line joins it (`appendLine`, `cutLines`). A path that was cut is `Nothing`. The check (`CheckIndex`) and the append
(`AppendIndex`) of `appendChunk` are two actions, without a lock between workers.
`acked` is a history variable: the versions clients were told of, with what they
had read. In the server the staging of a manifest is one step, because no
`recover` runs beside a server in this model.

**Chunker.** A step is one iteration of a chunker's loop: a fixed chunk, a byte taken
into the rolling hash, the tail. Where chunks end is state, their bytes follow.
The hash is abstracted to the set `Hits` of byte runs under whose hash the masked
bits are zero: *any* set, so that the theorems hold for every hash, and the run
takes one that depends on all bytes of the run.

**ManifestText.** A text is a sequence of lines and a line a sequence of tokens, so
that a line may be missing, and the parser finds out by the count of chunks,
`END_FILE`, `END` and `file_count`, as the code does. A value within a line is not
altered: one that is no number makes the parser throw, and another number shows
when the file is put together.

**DataPath.** One command at a time, over several files; chunks are stored one by
one, and the commit is one step, because `BackupEngine`, `UploadServer` and
`PowerLoss` have its calls. `putRaw` reads an object that exists, and ends the
command when it is bad. An upload is made under a session id of its source, and the
session (`sessions`, of which `index` is the upload's) is a file that stays: an upload that
was cut short (`StopUpload`), or ended by a bad object, leaves its records, and the next upload
of the source, at once or after other commands and a damage, sends what is missing
(`Missing`) and skips the rest. `ReceiveAgain` is the late record of the worker of a
client that was cut short. `PrepareFile`, `ReceiveChunk` and `fileOf` are `prepareChunks`, the
index and `buildManifest` for several files. `restore` writes into a target that keeps what
was there, where a file may stand in a directory's place (`Blocked`). Damage comes
between commands: an object is no longer zstd, is another's copy, or gone; some
lines of a manifest are gone; a `restore` whose manifest does not load ends before it
begins (`RestoreUnreadable`). `contents`, `damages`, `stops`, `sound` and `stale`, the sources whose
sessions have records from before the last damage, are history variables.

**WalFile.** A byte says which record it belongs to and where, so that "header and
payload agree" is a comparison. Opening and writing are two actions: `compact`
puts a new file in place in between, and the record goes to a file without a
name. A write may be cut anywhere. `Whole` lists the records whose bytes are side
by side in the file, which is the refinement's view of the log.

**ThreadPool.** `push`, `pop` and setting `shutdown_` each run under the mutex and
are one action each. A thread waits by being a member of `not_full` or
`not_empty`; `notify_one` takes some member out, `notify_all` all of them, and
`Spurious` any. The notifications of `shutdown` come after the mutex is
released, so they are actions of their own. A task is a connection; one in
`Endless` is a connection whose client is idle, and need not return.

**PowerLoss.** `now` is what processes see, `disk` what has reached the disk, for
every file and directory that `create` writes but log and checkpoint. `WriteBack`
lets any part of `now` reach the disk at any time; `fsync` of a file or directory
forces that one and no other. `Loss` takes `now` back to what can be reached from
the root on the disk.

**PacketStream.** A byte is the packet it belongs to and its place in it. `writeAll`
and `readExact` move any number of bytes that fit; `HeaderRead` and `PacketRead`
are the checks between the two reads of `readPacket`. Either end can go away.

## 3. Runs

Every passing run's properties are each tied to a mutant: a changed definition, in
the module beside the original ("Mutant: ..."), under which TLC finds the
property violated in the same configuration.

| Run | What it asks | Bounds |
|---|---|---|
| `engine_serial` | one command at a time, all four, ending anywhere: `CommittedVerifies`, `CreatedInCheckpoint`, `TornLogStopsRecover` | 1 process, 2 versions, sources of 0, 1 and 2 chunks |
| `engine_single_writer` | a `create` beside `recover`s: `IsHistory` (refinement), `CheckpointCommitted`, `VersionsContiguous` | 2 processes, 2 versions |
| `engine_race` | no discipline, a changing source: `CommittedReadable`, `LogFollowsFiles` | 2 processes that race for version 1 |
| `upload_resume` | uploads cut short and continued, also because the disk was full: `IndexIsStored`, `AckedHoldsSource`, `CommittedVerifiesOrCut`, `NothingResent` | one client at a time, 1 worker, 2 sessions, sources of 0 and 2 chunks (one with a chunk twice), 2 versions |
| `upload_race` | three clients, two in one session: `CommittedVerifies`, `IndexConsistent` | 2 sessions, two of the three clients at a time by the bound on versions |
| `upload_liveness` | `UploadEnds`, for a client that waits for its worker | 2 clients of one session, of which one may do nothing, 1 worker, a source that changes |
| `server_parts` | the pool: `RunsOnce`, `DrainedAtShutdown`, `AcceptedStarts`, `SubmitReturns`, `ShutdownReturns`; the stream: `IsChannel` (refinement), `ThrowsOnlyWhenCut`, `PacketsArrive` | 4 tasks, 2 submitters, 2 workers, 2 callers of shutdown, 2 places; 3 packets, header 3, payload up to 3, 7 bytes on the way |
| `storage` | the data: `CommittedIsSource`, `EachByteOnce`, `ChunkSizes`, `SoundVerifies`, `RestoredIsSource`, `RestoreAsVerified`, `CutsResync`, `UploadIsCreate`; the disk: `WholeFiles`, `MarkedHasManifest`, `ReportedSurvives`; the log: `LogReadsBack`, `IsLog` (refinement) | 2 versions, 1 damage, 1 upload cut short, 3 sources of up to 2 files and 7 bytes; 2 processes, 1 version; 2 processes, 3 records |
| `upload_grown_source`, `upload_overtaken`, `upload_full_disk`, `power_loss_objects` | violated; see section 6 | |

Why the bounds are enough for what is asked:

* Two processes suffice for every race between a writer and a cleaner or between
  two writers; a third writer only repeats what the second does to the first.
  Version numbers matter through "the next one": one version shows the race for
  it, two show what a later run does to an earlier one.
* Two chunk values give a chunk that is shared between versions and a source with
  a repeated chunk, which is where deduplication and the index' chunk numbers
  could go wrong.
* `MaxListed` stands for 999999. The runs stay at or below it; the theorems do not
  assume that `MaxVersion` does, but for the three of section 4 that say so.
* `Capacity` stands for 128 and two places show a full, a half-full and an empty
  queue; with four tasks and two workers the queue fills while both workers run.
* `HeaderSize` 3 stands for 64, `MaxPayload` 3 for 8 MiB and `SocketCapacity` 7 for the
  sockets' buffers: reads and writes can
  split both in every way, payloads of size 0, 1, the largest, and one above it
  are sent, and seven bytes on the way hold more than one packet.
* `ChunkSize` 3, `MinSize` 2 and `MaxSize` 3 stand for 64, 16 and 256 KiB: a chunk may end
  at the smallest size, at the largest, and with the file. `MCHits` has the runs with
  an odd number of `y`, which depend on every byte since the last cut. The sources
  have an empty file, a file of a whole number of chunks, one that ends within a
  chunk, two equal files, two files that share their end but not their start, and
  a file whose path is a directory's in another source. Two versions compare two
  runs of one source or of two; one damage suffices, since damaged objects do not
  interact: each file and chunk is checked on its own. `MaxEvents` 3 leaves out only
  what needs all four of two versions, a damage and an upload cut short; a version out of a session
  that was cut short, damaged and continued is among what is checked.
* In the log, a header of 3 bytes and payloads of 0 and 1 give every cut, within the
  header, between header and payload, and within neither; three records leave a
  whole one before a piece, and one behind it.
* `MaxDamage`, `MaxStops`, `MaxEvents`, `MaxRecords`, `MaxVersion`, `LastVersion`, `MaxPackets` and the set of tasks bound runs that would go on for
  ever; they are guards of `Damage`, `StopUpload`, `Begin`, `OpenLog`, `StartCreate`, `StartUpload`, `WritePacket`
  and `Submit`.
* Symmetry is used in `engine_race` and `storage` only, over processes, which no
  definition tells apart; both check safety only.

`server_parts` allows deadlock: all tasks submitted and the pool joined, or an end
of the connection gone, is where the system stops. No other passing run does.

### Fairness

* `UploadServer!FairSpec`: a client whose reply has come, and a worker that has a
  packet or a call to make, goes on, and a free worker takes the next connection;
  a client in `Idle` need not go on. They are threads of running processes and hold
  no lock. Nothing makes a user start an upload, a client or server die, or a
  server restart, and `UploadEnds` needs none of these.
* `ThreadPool!FairSpec`: a thread that is not waiting goes on, and a task returns
  unless it is endless. Condition variables promise that a notified thread runs
  again, and nothing about which one, nor that spurious wakeups occur: no fairness on
  either. A fair mutex is not needed beyond this, because each critical section is
  one action. The run has fewer endless tasks than workers; with as many, every
  later upload waits, a limit docs/concurrency-model.md states.
* `PacketStream!StreamFairSpec`: a writer within `writeAll` and a reader within
  `readExact` go on when the connection has room or bytes.

`MCServerParts!PartsSpec` states the last two for the part that a behaviour has
chosen. Each is weak fairness, and each action it is about stays enabled until it is
taken or the process ends.

## 4. Proofs

`tlapm` checks these for every value of the constants that satisfies the named
assumptions of the modules (`RepositoryAssumption`, `EngineAssumption`,
`UploadAssumption`, `PoolAssumption`, `ChunkerAssumption`, `DataPathAssumption`,
`WalFileAssumption`, `PowerAssumption`, `StreamAssumption`), which TLC evaluates on
the runs' values: any set of processes, chunks, sources, sessions, tasks and
threads, any finite set of clients, any list of paths without a repetition, any
files, any chunk sizes with the smallest at most the largest, any hash, and
headers and payloads of any size. "Given" has what a theorem assumes beyond that.

| Theorem | Statement | Given |
|---|---|---|
| `BackupEngineProofs!TypeCorrect` | `Spec => []TypeOK` | |
| `BackupEngineProofs!CommittedIsReadable` | `Spec => []CommittedReadable` | |
| `BackupEngineProofs!NoGaps` | `Spec => []VersionsContiguous` | |
| `BackupEngineProofs!CheckpointIsCommitted` | `Spec => []CheckpointCommitted` | |
| `BackupEngineProofs!LogIsBehindFiles` | `Spec => []LogFollowsFiles` | |
| `BackupEngineProofs!CommittedVersionsVerify` | `Spec => []CommittedVerifies` | `SourceStable` |
| `BackupEngineProofs!CreatedStaysInCheckpoint` | `Spec => []CreatedInCheckpoint` | `OneCommand`, `MaxVersion <= MaxListed` |
| `BackupEngineProofs!TornLogStops` | `Spec => TornLogStopsRecover` | `OneCommand` |
| `BackupEngineProofs!RepositoryIsHistory` | `Spec => IsHistory` (refinement) | `OneWriter`, `MaxVersion <= MaxListed` |
| `UploadServerProofs!UploadTypeCorrect` | `Spec => []TypeOK` | |
| `UploadServerProofs!StatusIsStored` | `Spec => []IndexIsStored` | |
| `UploadServerProofs!CommittedIsSourceOrCut` | `Spec => []CommittedVerifiesOrCut` | `SourceStable` |
| `UploadServerProofs!CommittedUploadsVerify` | `Spec => []CommittedVerifies` | `SourceStable`, `~ DiskFull` |
| `UploadServerProofs!RecordsAgree` | `Spec => []IndexConsistent` | `SourceStable`, `~ DiskFull` |
| `UploadServerProofs!AckedUploadsKept` | `Spec => []AckedHoldsSource` | `SourceStable`, one worker, `MaxVersion <= MaxListed` |
| `UploadServerProofs!AckedChunksNotResent` | `Spec => NothingResent` | one worker |
| `PowerLossProofs!PowerTypeCorrect` | `PowerSpec => []PowerTypeOK` | |
| `PowerLossProofs!FilesAreWhole` | `PowerSpec => []WholeFiles` | |
| `PowerLossProofs!MarkersHaveManifests` | `PowerSpec => []MarkedHasManifest` | |
| `PowerLossProofs!ReportedVersionsSurvive` | `PowerSpec => []ReportedSurvives` | |
| `ServerPartsProofs!StreamIsChannel` | `StreamSpec => IsChannel` (refinement) | |
| `ServerPartsProofs!ReaderAcceptsWritten` | `StreamSpec => []ThrowsOnlyWhenCut` | |
| `ServerPartsProofs!PoolTypeCorrect` | `Spec => []TypeOK` | |
| `ServerPartsProofs!EachTaskRunsOnce` | `Spec => []RunsOnce` | |
| `ServerPartsProofs!ShutdownDrains` | `Spec => []DrainedAtShutdown` | |
| `DataPathProofs!BytesInOneChunk` | `ChunkerSpec => []EachByteOnce` | |
| `DataPathProofs!SizesBounded` | `ChunkerSpec => []ChunkSizes` | |
| `DataPathProofs!DataInvariance` | `Spec => []DataInv` | |
| `DataPathProofs!DataPathTypes` | `Spec => []TypeOK` | |
| `DataPathProofs!CommittedSources` | `Spec => []CommittedIsSource` | each source is uploaded under a session id of its own |
| `DataPathProofs!SoundVersions` | `Spec => []SoundVerifies` | each source is uploaded under a session id of its own |
| `DataPathProofs!RestoredSources` | `Spec => []RestoredIsSource` | |
| `DataPathProofs!UploadsAreCreates` | `Spec => []UploadIsCreate` | each source is uploaded under a session id of its own |
| `DataPathProofs!CutsMeetAgain` | `Spec => []CutsResync` | |
| `DataPathProofs!CommandsCut` | `Spec => [](EachByteOnce /\ ChunkSizes)` | |
| `DataPathProofs!RestoreForetold` | `Spec => RestoreAsVerified` | |
| `WalFileProofs!WalTypes` | `WalSpec => []WalTypeOK` | |
| `WalFileProofs!ReadsBack` | `WalSpec => []LogReadsBack` | |
| `WalFileProofs!ImplementsLog` | `WalSpec => IsLog` (refinement) | |
| `StorageProofs!ViewsApart` | `StorageSpec => Spec /\ PowerSpec /\ WalSpec` | |
| `StorageProofs!StorageTypeCorrect` | `StorageSpec => []StorageTypeOK` | |
| `ServerPartsProofs!PartsApart` | `PartsSpec => Spec /\ StreamSpec` | |
| `ServerPartsProofs!PartsTypeCorrect` | `PartsSpec => []PartsTypeOK` | |

What the hypotheses say, and why they are there. `OneWriter` and `OneCommand` are the
README's rule of one writer, and what a careful user makes of it; `SourceStable`
(in `UploadServer`, no `Edits`) that nobody edits what is read, without which finding 1 and the size taken before
the read (`BackupEngine.cpp:66`) break the statement; `~ DiskFull` that finding 3 does not
occur; one worker (`PoolSizes \subseteq {1}`, that is `--threads 1`) that finding 2 does not;
`MaxVersion <= MaxListed` that version numbers have six digits: a seventh makes a
marker that is never listed, whose number is given out again. The violated runs of
section 6 show `CommittedVerifies` and `AckedHoldsSource` false without theirs;
`NothingResent` fails with two workers when the worker of a killed client appends
after the next client of the session has asked for the status.

*CommittedIsReadable.* That a marked manifest is readable is not inductive: the
step that marks does not look at the manifest, the step that renames does not look
at the chunks. `EngineInv` carries the fact along `create`: `LocalOK` says what the
process's variables hold at each call; `StoredOK` that the first `done` chunks have
objects, that from the staging on all of them have, and that every staged or
final manifest is readable, whoever wrote it (a racing process may rename a
manifest it did not write); `MarkedOK` that from the rename on a manifest of this
version is in place, and stays, since nothing removes one. Objects only grow, so
a readable manifest stays readable.

*NoGaps.* A process may mark a version it chose long ago. `VersionOK` says that the
markers are 1..n and that a running create's version is at most n+1: other
processes only raise n. It needs `nextVersion <= n + 1` for any set of markers 1..n,
also when some are beyond `MaxListed` and not listed (`NextVersionBound`).

*The log, the checkpoint, the content.* `CommandOK` ties each call to its command and
says that a create that logs the commit, lists or writes the checkpoint has its marker; with
`EngineInv` it makes `LogFollowsFiles` inductive. `ListedOK`: a list of versions
that a process holds has markers, which are never removed, so that an old list may
be written over a newer one. `SoundOK`: with a stable source, a manifest agrees with
its own size and digest, in a process, staged or final. For one command at a time,
`SerialOK` says that a list about to be written is up to date and that a recover
beyond its check of the log found it whole; `ReportedOK` that what was reported has
its marker and is in the checkpoint.

*RepositoryIsHistory.* The history is the sequence of the manifests of the listed
versions. `WriterOK` says that a running create is alone, that the markers are 1 up to
the number before its own until it has marked it, and that what is staged or in
place under its number is its own manifest, so that the marker appends exactly one
version and the rename before it touches no earlier one. Every other step leaves history
and reports alone, which is proved action by action.

*Uploads.* `ProtocolInv` is `TypeOK` with `InStep` (client, connection and worker are in
step: a handler works on the one request of its client, a reply is there only
while the worker reads, and what a client waits for is what it is sent),
`QueueOK` (the queue has the waiting connections, each once; without it
`ServeNext` could put a worker on a connection that has one, and more would be
busy than there are workers), `MessagesOK` and `VersionOK` (the uploads that may still
mark a version have room below `MaxVersion`, which counts them by a cardinality). To
it `StoredOK` adds, for `IndexIsStored`, that between the object and the line a worker's
chunk is stored. `ContentInv` follows a stable source through
the server: what a client has read and sends (`ClientReadsOK`), every record, also
one that a full disk has cut short or that two workers have both written
(`RecordsOK`), every manifest that a worker holds, and every staged or final one,
whoever put it there (`ManifestsOK`), and that a marker has one (`MarkedOK`). That
`buildManifest` then has all chunks, in order, rests on counting: the indices of the
records are within 1..n and contain 1..n, so the k-th smallest is k (`AllIndices`,
`NthIndex`).

*One worker.* `AckOK` says that before its marker a commit's number is unmarked and that
from the rename on the manifest under it is this upload's, through the
list, the checkpoint and the COMMITTED line to the ack and beyond. `OneBusy` gets
from the bound on busy connections that nobody else is at work, `NumberIsNew` that a
number is not given twice. `KnownOK` is for `NothingResent`, which needs no
assumption on the sources: the status on its way is that of the index; a client
that waits for a PUT_ACK knows each record of its session, from the status or as one
it has sent since; and no two records of one index have different chunks. The first
two are said of *open* connections only: the worker of a client that has died goes
on, and appends a record that nobody is told of.

*Loss of power.* `PowerInv`: `LocalOK` ties a process's place to the file it writes;
`FilesOK` says that every file with a name, as processes see it and on the disk, is
complete and synced, and that a scratch file is so before its rename; `OrderOK` that a
marker is there only when its manifest's name is on the disk, that names of manifests and
markers on the disk are also there for processes, and that the marker's name is on
the disk before the version is reported. `WriteBack` and `Loss` keep it
for any set of names that happened to reach the disk.

*IsChannel.* `StreamInv` is about the bytes that were written and not delivered, those
in the reader's frame, on their way and not yet sent, side by side: they are
whole packets in the order in which they were written, from the first byte of the next one to
deliver (`StreamOK`, with `BytesOK` byte by byte, which avoids an induction over packets),
and the reader never has more than the packet it is in (`FrameOK`). Each
read or write moves a cut within the same sequence (`CutAndJoin`), so that the
packet delivered is the next one written, whole.

*RunsOnce, ShutdownDrains.* `PoolInv` adds that an offered task has had no answer and
one submitter (`OfferOK`), that a worker has a task exactly while it runs one
(`TaskOK`), and that a worker has ended only when the flag is set and the queue is
empty (`EndedOK`), which stays true because `push` refuses from then on. The
queue's part rests on two lemmas on sequences, that appending a new element and
taking the head off keep a sequence injective.

*BytesInOneChunk, SizesBounded.* `ChunkerInv` says that the ends of the chunks
increase and stay within the file (`EndsIncrease`), from which two chunks cannot
share a byte; that each byte up to the last cut is in a chunk (`BytesCovered`);
and that the hash is ahead of the last cut by less than the largest size
(`HashAhead`), without which a cut at the largest size could come too late. All
cuts are an append of one larger end, and `AppendCut` shows once what such an
append preserves.

*The data.* `DataInv` has a part for each stage of the way. `CutInv` adds to `ChunkerInv`
that every chunk ends at its first boundary and that the chunk being collected has not
met one. Bytes and mode therefore determine the cuts, from any cut on (`Cutting`,
`SameEnds`), which is all of `UploadIsCreate` and `CutsResync`. `VersionsInv` says of each
version that its text is what is left of the text of a manifest of its source when
lines are taken out; that it is whole and its objects are good if nothing was done
to it (`sound`). `CommittedIsSource` looks only at what parses, so it needs that a
text that has lost lines and still parses has lost none that matter (`ParseSubtext`):
`file_count` wants as many blocks as there were, each block needs a FILE and an END_FILE
line of its own, and a block its own number of chunks (`AtMost` counts the files that
can still be read from a line on). `CreateInv`, `UploadInv` and `RestoreInv` say how far a
command has come: it has done the first files of its source, in the order of the
scan, and the list of what it has left is the rest. `SessionsInv` says that a session has records of its source only, in
whatever order and also twice, and that their chunks are stored unless they are from before the last damage:
`SameRecords` shows that all preparations of a source give the same records, so that this
survives from one upload to the next. `fileOf` picks the records of one path and
takes them by number, which gives the file's chunks in order because the indices
of one file are a run of numbers without a gap, whose k-th smallest is the first plus k-1
(`RecordsOfFile`, `SessionFile`). `restore` writes what `verify` accepts, file by file, and
nothing else, so that a finished one has the source, and fails exactly when some
file is not restorable or has its place taken (`RestoreForetold`).

*The log.* `WalInv` is small: the file is a sequence of bytes, and an append that has
opened it has a record to write. That `readAll` returns the whole records of the file, or throws,
holds of *any* bytes: a run of records either tiles the file from an offset (`TilesFrom`) or
does not, and the loop of `readAll` finds out which. For the refinement, a
write at the end leaves every earlier record where it is and completes none
but its own (`WholeBefore`), a cut one leaves bytes that no later record completes
(`TornBehind`), and what `compact` writes are the records it has read.

*Side by side.* A step of one view leaves the variables of the others, so that a
behaviour of `StorageSpec` or `PartsSpec` satisfies each view's specification, and with it
the view's theorems (`ViewsApart`, `PartsApart`).

*Induction over data.* `readAll`, `parseFiles`, `FlattenSeq` and `Only` are recursive functions.
The library's induction theorems take a predicate as a parameter, which the provers here cannot
instantiate. What is needed of each function is a set of numbers instead, those for which
the statement holds; `UpToInduction` and `DownInduction` (`ListLemmas`) say that such a set
with its first number and closed under one step up (or down) has all of them.

Only model-checked: liveness (`UploadEnds`, the three properties of the pool, and
`PacketsArrive`), which needs fairness and ENABLED. Every other property of a
passing run is stated by a theorem above; where "Given" has a hypothesis, the constants of
a run that checks the property satisfy it.

## 5. What is left out, and why

* **Values in texts and headers.** The text of a manifest is lines of tokens; formatting
  and parsing of a number or a hex string within a line, `created_at`, the totals,
  checkpoints' text, and the header fields of a packet but its payload size are left
  out. CRC-32 and SHA-256 are taken to tell apart what is different.
* **A line of the session index** that is cut short is modelled for one file per
  source; `DataPath` has several files on a disk with room.
* **Sessions and damage.** A client skips what the status names, and `buildManifest`
  opens no object. When an object of a session is damaged or lost before the session
  is continued, its version is marked and never verifies. `DataPath` has such versions, and
  everything but `SoundVerifies` is stated for them; `SoundVerifies` leaves out versions of
  sessions with records from before the last damage (`stale`). Without this
  exception it is false of the code: one file is uploaded and `StopUpload` comes before the
  commit, `DamageObject`, the next upload finds nothing `Missing`, `EndUpload`
  commits a version that `verify` refuses. The repository promises nothing of the
  kind for damaged objects, so this is a hazard in `PROJECT.json` and not a finding.
* **One session for two sources.** `DataPath` uploads each source under a session id of its
  own; finding 1 shows what another content under the same id does.
* **Three looks at a file.** `prepareChunks` reads a file for its digest, asks for its size, and
  reads it for its chunks. `StartUpload` and `PrepareFile` take the three as one: edits come
  between uploads. Where a property supposes a stable source they see the same
  anyhow; `UploadEnds` and `NothingResent`, which do not, look at no size or digest of a file.
* **A task that throws** anything but `DpcError` ends the server process, which
  `ServerDies` allows.
* **Versions of seven digits**: the marker is written, never listed, and its
  number given out again. Most theorems cover it; those on reports and acks, which it
  breaks, exclude it. Nobody reaches it.
* **A session whose source changed** is refused for ever (`CheckIndex`); the runs show
  that the upload ends, with an error.
* **Compression and hashing** wrap zstd and OpenSSL; the scanner's walk over the
  directories and file modes are I/O.
* **A SESSION_STATUS above 8 MiB**: `PacketStream` has the limit, `UploadServer` no sizes
  of replies.
* **Option parsing, logging, benchmark and corruption tool**: no state of the
  system.

## 6. Findings

1. `upload_grown_source`. `SessionIndex::buildManifest` takes a file's size and
   digest from its first record. When an upload of one chunk is cut short, the file grows
   by a second one, and the session is continued, the version is marked with both chunks and the
   old size and digest: `verify` and `restore` refuse it for ever.
2. `upload_overtaken`. One client at a time, and a server with two workers. The worker
   of a client that was killed while it waited for its commit goes on, has chosen
   the same version as the next client's commit, and renames its manifest over that
   one. The second client's COMMIT_ACK names a version that holds the first one's
   files. With one worker the next client waits for it: `upload_resume` shows
   `AckedHoldsSource` for that.
3. `upload_full_disk`. `SessionIndex::appendChunk` throws when its line was not written
   to the end, and leaves what was. A line that is cut within its last field, the
   path of the object, is a record for the next upload of the session, which skips
   the chunk and commits; `readRaw` refuses the path, so that the version never
   verifies. `CommittedVerifiesOrCut` in `upload_resume` says what holds nonetheless:
   nothing else of such a version is wrong.
4. `power_loss_objects`. `writeFileAtomic` syncs the directory of the file it
   writes. When that directory has just been created (`objects/ab`), nothing syncs
   its parent. After a loss of power a marked version may lack the directory of
   its objects. A second way: `putCompressed` takes an object that exists as
   stored, also when the process that renamed it has not synced the directory.

## 7. Plan

Done, in this order: `Repository`, `BackupEngine`, `VersionHistory`, the first
proofs; `SessionIndex`, `UploadServer`; `ThreadPool` and its proofs; `PowerLoss`;
`Channel` and `PacketStream`; a full disk in `SessionIndex` and `UploadServer`;
`Chunker` and its proofs; `ManifestText` and `DataPath`, with restore, damage and
several files; `Log` and `WalFile`; connections in line for a worker.

Then the proofs: `BackupEngine` with the log, the checkpoint and the refinement of
`VersionHistory`; `PowerLoss`; `PacketStream` implements `Channel`; `UploadServer`;
`DataPath`, from the cuts to the restored files; `WalFile` implements `Log`.

Left, and why:

1. the sizes of replies: `PacketStream` has the limit of a packet, `UploadServer` has none,
   so that a status beyond it is named in the hazards and not modelled;
2. `upload_liveness` with several workers, which outgrows a run of some minutes;
3. lemmas on `SessionIndex` that say what two records of one index mean to
   `received` and `buildManifest` when the source changes, in general; finding 1 has an
   instance;
4. the liveness properties, until the prover has rules for fairness.
