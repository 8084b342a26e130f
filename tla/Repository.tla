----------------------------- MODULE Repository -----------------------------
(***************************************************************************)
(* The repository directory: what its files hold, and the calls that read  *)
(* and change them.                                                        *)
(*                                                                         *)
(*    objects/      chunks stored under their SHA-256, never deleted       *)
(*    tmp/          staged manifests, and the scratch files of the atomic  *)
(*                  writes that stage them                                 *)
(*    manifests/    version-NNNNNN.manifest and version-NNNNNN.commit      *)
(*    metadata/     wal.log and checkpoint.dat                             *)
(*                                                                         *)
(* Every file is written by fileutil::writeFileAtomic (write a temporary   *)
(* file, fsync, rename, fsync the directory), so that a reader sees the    *)
(* old file or the new one; only wal.log is appended to in place, and an   *)
(* append that is cut short leaves a torn record behind.                   *)
(*                                                                         *)
(* A chunk stands for its bytes, and for their SHA-256.  Each operator     *)
(* that changes a file primes that file's variable and no other; the       *)
(* modules that extend this one say what the rest of a step leaves alone.  *)
(***************************************************************************)
EXTENDS Naturals, Sequences, Functions

CONSTANTS
    Procs,        \* processes (or server workers) that use the repository
    Chunks,       \* the distinct chunk contents
    MaxListed,    \* largest version whose marker is listed: 999999, six digits
    MaxVersion,   \* bound: no backup of a version above this one is begun
    NoManifest    \* the manifest file does not exist

Versions == 1 .. MaxVersion

(***************************************************************************)
(* A manifest names the chunks of the source's files in order, the size    *)
(* the files had when they were looked at (in chunks) and the digest of    *)
(* their content, which stands for that content.                           *)
(***************************************************************************)
Manifest == [chunks : Seq(Chunks), size : Nat, digest : Seq(Chunks)]

WalRecord ==
    ({"PutObject"} \X Chunks)
      \cup ({"BeginBackup", "WriteManifest", "RenameManifest", "CommitBackup"} \X Versions)
      \cup {<<"Checkpoint", 0>>, <<"Compact", 0>>}

ASSUME RepositoryAssumption ==
    /\ MaxListed \in Nat \ {0}
    /\ MaxVersion \in Nat \ {0}
    /\ NoManifest \notin Manifest

VARIABLES
    objects,      \* chunks that have an object file
    scratch,      \* processes whose scratch file is in tmp/
    staged,       \* version -> staged manifest in tmp/
    manifests,    \* version -> manifest in manifests/
    markers,      \* versions that have a commit marker
    wal,          \* records in wal.log; no reader depends on their order
    walTorn,      \* wal.log holds an incomplete record
    checkpoint    \* the versions checkpoint.dat names as committed

repoVars == <<objects, scratch, staged, manifests, markers, wal, walTorn, checkpoint>>

RepoTypeOK ==
    /\ objects \subseteq Chunks
    /\ scratch \subseteq Procs
    /\ staged \in [Versions -> Manifest \cup {NoManifest}]
    /\ manifests \in [Versions -> Manifest \cup {NoManifest}]
    /\ markers \subseteq Versions
    /\ wal \subseteq WalRecord
    /\ walTorn \in BOOLEAN
    /\ checkpoint \subseteq Versions

\* A directory that ensureLayout has just created, without a checkpoint.
RepoInit ==
    /\ objects = {}
    /\ scratch = {}
    /\ staged = [v \in Versions |-> NoManifest]
    /\ manifests = [v \in Versions |-> NoManifest]
    /\ markers = {}
    /\ wal = {}
    /\ walTorn = FALSE
    /\ checkpoint = {}

-----------------------------------------------------------------------------
(***************************************************************************)
(* Reading.                                                                *)
(***************************************************************************)

\* Mutants: versions listed by their manifests; the last six-digit one left out.
listManifests == {v \in Versions : manifests[v] # NoManifest /\ v <= MaxListed}
listBelowLimit == {v \in markers : v < MaxListed}

\* Marker names of any other length than version-000001.commit are skipped.
listCommittedVersions == {v \in markers : v <= MaxListed}

\* Mutants: count on from the last manifest; reuse the last version; start at 0.
nextVersionOfManifests ==
    IF listManifests = {}
      THEN 1
      ELSE 1 + (CHOOSE v \in listManifests : \A w \in listManifests : w <= v)

nextVersionReused ==
    IF listCommittedVersions = {}
      THEN 1
      ELSE CHOOSE v \in listCommittedVersions : \A w \in listCommittedVersions : w <= v

nextVersionFromZero ==
    IF listCommittedVersions = {}
      THEN 0
      ELSE 1 + (CHOOSE v \in listCommittedVersions :
                    \A w \in listCommittedVersions : w <= v)

nextVersion ==
    IF listCommittedVersions = {}
      THEN 1
      ELSE 1 + (CHOOSE v \in listCommittedVersions :
                    \A w \in listCommittedVersions : w <= v)

\* ManifestStore::load succeeds.
Loads(v) == v \in markers /\ manifests[v] # NoManifest

\* What VerifyEngine::verify and RestoreEngine::restore ask of a manifest:
\* every chunk is readable, and together they have the size and the digest.
ChunksReadable(m) == Range(m.chunks) \subseteq objects
Verifies(m) ==
    /\ ChunksReadable(m)
    /\ Len(m.chunks) = m.size
    /\ m.chunks = m.digest

-----------------------------------------------------------------------------
(***************************************************************************)
(* Writing.                                                                *)
(***************************************************************************)

\* Content-addressed: storing a chunk that is there leaves its object alone.
putRaw(c) == objects' = objects \cup {c}

appendWal(type, x) == wal' = wal \cup {<<type, x>>}

\* The first half of writeTmp: open and fill the scratch file in tmp/.
openScratch(p) == scratch' = scratch \cup {p}

\* The second half: rename the scratch file to the staged manifest's name.
\* It fails when the scratch file has been removed meanwhile.
placeStaged(p, v, m) ==
    /\ p \in scratch
    /\ scratch' = scratch \ {p}
    /\ staged' = [staged EXCEPT ![v] = m]

\* rename(tmp, final): fails with ENOENT when nothing is staged.
renameTmpToManifest(v) ==
    /\ staged[v] # NoManifest
    /\ manifests' = [manifests EXCEPT ![v] = staged[v]]
    /\ staged' = [staged EXCEPT ![v] = NoManifest]

createMarker(v) == markers' = markers \cup {v}

writeCheckpoint(versions) == checkpoint' = versions

\* MetadataCompactor replaces the whole log, and a torn record with it.
replaceWal ==
    /\ wal' = {<<"Checkpoint", 0>>, <<"Compact", 0>>}
    /\ walTorn' = FALSE

\* The names a regular file under tmp/ can have, and the removal of such a file,
\* which does nothing when the file is gone.
tmpNames == ({"scratch"} \X Procs) \cup ({"staged"} \X Versions)

removeTmp(f) ==
    /\ scratch' = IF f[1] = "scratch" THEN scratch \ {f[2]} ELSE scratch
    /\ staged' = IF f[1] = "staged"
                   THEN [staged EXCEPT ![f[2]] = NoManifest]
                   ELSE staged
=============================================================================
