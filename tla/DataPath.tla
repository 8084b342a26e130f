------------------------------ MODULE DataPath ------------------------------
(***************************************************************************)
(* The way of a file's bytes into the repository and back: cut into        *)
(* chunks, stored under their hash, listed in a manifest, and put together *)
(* again by restore.  Two ways lead in: create, and an upload, which cuts  *)
(* at the client and builds the manifest from the session's records.       *)
(*                                                                         *)
(* Here one command runs at a time and commits in one step; BackupEngine,  *)
(* UploadServer and PowerLoss have the commands' calls, their races and    *)
(* their ends.  What goes wrong here is what is stored: an object or some  *)
(* lines of a manifest are damaged or lost between two commands.  An       *)
(* upload may be cut short; its session stays, and a later command goes on *)
(* with it, also after a damage.                                           *)
(*                                                                         *)
(* The bytes of a chunk or a file stand for their SHA-256, too.  A source  *)
(* maps the paths of its regular files to their bytes, and is uploaded     *)
(* under a session id of its own.                                          *)
(***************************************************************************)
EXTENDS Chunker, ManifestText, SessionIndex, Lists, Functions

CONSTANTS
    Paths,        \* the relative paths, in the order of their strings
    Sources,      \* contents of the source directory
    MaxVersion,   \* bound on the versions
    MaxDamage,    \* bound on the damages
    MaxStops,     \* bound on the uploads that are cut short
    MaxEvents,    \* bound on the three together
    Garbled       \* an object that zstd does not decompress

\* What a manifest says: of a chunk, of a file, and of all.
ChunkRefs == [index : Nat, size : Nat, sha : Seq(Bytes), object : Seq(Bytes)]

FileRecords == [path : Range(Paths), size : Nat, digest : Seq(Bytes), chunks : Seq(ChunkRefs)]

Manifests == [version : Nat, mode : Modes, files : Seq(FileRecords)]

\* A chunk as the client prepares it and the session's index keeps it: its index
\* in the session and in the file.
Records == [index : Nat, path : Range(Paths), size : Nat, digest : Seq(Bytes), at : Nat, chunk : Seq(Bytes)]

ASSUME DataPathAssumption ==
    /\ Paths \in Seq(Range(Paths)) /\ IsInjective(Paths)
    /\ \A s \in Sources : DOMAIN s \subseteq Range(Paths) /\ Range(s) \subseteq Seq(Bytes)
    /\ MaxVersion \in Nat
    /\ MaxDamage \in Nat
    /\ MaxStops \in Nat
    /\ MaxEvents \in Nat
    /\ Invalid \notin Manifests \cup Seq(FileRecords)

VARIABLES
    objects,     \* hash -> what the object decompresses to
    texts,       \* version -> the text of its manifest
    sessions,    \* source -> the records of the session it is uploaded in
    target,      \* path -> the bytes that were restored there
    op,          \* the command: none, create, upload, restore
    version,     \* the version that is restored, and then reported as restored
    source,      \* the source the command has scanned
    todo,        \* the paths of the files the command has not begun
    cutting,     \* a file's bytes are being cut
    refs,        \* the chunks of that file that are stored
    files,       \* the files of the manifest so far
    chunks,      \* upload: the chunks prepared at the client
    contents,    \* history: version -> the source it was made from
    damages,     \* history: how often something was damaged
    stops,       \* history: how often an upload was cut short
    sound,       \* history: the versions committed since the last damage, but for those
                 \* that took records from before it
    stale        \* history: the sources whose sessions have such records

command == <<op, version, source, todo, cutting, refs, files, chunks>>
histories == <<contents, damages, stops, sound, stale>>
stored == <<objects, texts, sessions, histories>>
vars == <<chunkerVars, stored, target, command>>

Versions == DOMAIN texts

MoreEvents == Len(texts) + damages + stops < MaxEvents

\* An upload's session.
index == sessions[source]

TypeOK ==
    /\ ChunkerTypeOK
    /\ \A h \in DOMAIN objects : h \in Seq(Bytes) /\ objects[h] \in Seq(Bytes) \cup {Garbled}
    /\ Len(texts) = Len(contents) /\ Len(texts) <= MaxVersion
    /\ Range(contents) \subseteq Sources
    /\ DOMAIN target \subseteq Range(Paths) /\ Range(target) \subseteq Seq(Bytes)
    /\ op \in {"none", "create", "upload", "restore"}
    /\ version \in 0 .. Len(texts)
    /\ Range(todo) \subseteq Range(Paths)
    /\ cutting \in BOOLEAN
    /\ refs \in Seq(ChunkRefs) /\ files \in Seq(FileRecords)
    /\ \A k \in DOMAIN refs : refs[k].index = k /\ refs[k].size <= LargestSize
    /\ chunks \in Seq(Records) /\ sessions \in [Sources -> Seq(Records)]
    /\ damages \in 0 .. MaxDamage /\ stops \in 0 .. MaxStops
    /\ sound \subseteq Versions /\ stale \subseteq Sources

\* No command runs, and nothing of one is left but what it has stored.
Idle ==
    /\ op' = "none" /\ source' = <<>> /\ todo' = <<>> /\ cutting' = FALSE
    /\ refs' = <<>> /\ files' = <<>> /\ chunks' = <<>>
    /\ ChunkFile("fixed", <<>>)

Init ==
    /\ objects = <<>> /\ texts = <<>> /\ target = <<>>
    /\ op = "none" /\ version = 0 /\ source = <<>> /\ todo = <<>> /\ cutting = FALSE
    /\ refs = <<>> /\ files = <<>> /\ chunks = <<>>
    /\ sessions = [s \in Sources |-> <<>>]
    /\ contents = <<>> /\ damages = 0 /\ stops = 0 /\ sound = {} /\ stale = {}
    /\ mode = "fixed" /\ data = <<>> /\ pos = 0 /\ ends = <<>>

-----------------------------------------------------------------------------
(***************************************************************************)
(* ObjectStore and ManifestStore.                                          *)
(***************************************************************************)
\* Mutant: the index of the next chunk.
refNext(k, bytes) == [index |-> k + 1, size |-> Len(bytes), sha |-> bytes, object |-> bytes]

ref(k, bytes) == [index |-> k, size |-> Len(bytes), sha |-> bytes, object |-> bytes]

\* readRaw returns: the object has the path of its hash, is there, and
\* decompresses to bytes of that hash.
Readable(r) ==
    /\ r.object = r.sha
    /\ r.sha \in DOMAIN objects
    /\ objects[r.sha] = r.sha

\* Mutant: an object that exists is taken as stored.
PutsUnread(bytes) == TRUE

\* putCompressed reads and checks an object that exists, and throws if it is bad.
Puts(bytes) == bytes \in DOMAIN objects => Readable(ref(1, bytes))

\* What is there is not written again.
putCompressed(bytes) ==
    objects' = IF bytes \in DOMAIN objects THEN objects ELSE With(objects, bytes, bytes)

load(v) == parse(texts[v])

bytesOf(f) == FlattenSeq([c \in DOMAIN f.chunks |-> f.chunks[c].sha])

\* What restore and verify find out about one file.
FileRestorable(f) ==
    /\ \A c \in DOMAIN f.chunks : Readable(f.chunks[c]) /\ Len(f.chunks[c].sha) = f.chunks[c].size
    /\ Len(bytesOf(f)) = f.size
    /\ bytesOf(f) = f.digest

\* Mutant: verify asks only whether the objects exist.
verifyExisting(v) ==
    /\ load(v) # Invalid
    /\ \A k \in DOMAIN load(v).files :
          \A c \in DOMAIN load(v).files[k].chunks : load(v).files[k].chunks[c].sha \in DOMAIN objects

\* VerifyEngine::verify does not throw.
verify(v) ==
    /\ load(v) # Invalid
    /\ \A k \in DOMAIN load(v).files : FileRestorable(load(v).files[k])

\* The manifest, its marker and the checkpoint, as one step.
commit(m) ==
    /\ texts' = Append(texts, serialize([m EXCEPT !.version = Len(texts) + 1]))
    /\ contents' = Append(contents, source)
    /\ sound' = IF op = "upload" /\ source \in stale THEN sound ELSE sound \cup {Len(texts) + 1}
    /\ UNCHANGED <<objects, sessions, damages, stops, stale>>

-----------------------------------------------------------------------------
(***************************************************************************)
(* create, and what an upload shares with it: scan, cut, store.            *)
(***************************************************************************)
scanRegularFiles(s) == Only(Paths, DOMAIN s)

Begin(o, m) ==
    /\ op = "none"
    /\ Len(texts) < MaxVersion /\ MoreEvents
    /\ op' = o /\ version' = 0
    /\ \E s \in Sources : source' = s /\ todo' = scanRegularFiles(s)
    /\ ChunkFile(m, <<>>)
    /\ UNCHANGED <<stored, target, cutting, refs, files, chunks>>

NextFile ==
    /\ op \in {"create", "upload"} /\ ~ cutting /\ todo # <<>>
    /\ cutting' = TRUE
    /\ ChunkFile(mode, source[Head(todo)])
    /\ UNCHANGED <<stored, target, op, version, source, todo, refs, files, chunks>>

CutFile == cutting /\ Cut /\ UNCHANGED <<stored, target, command>>

\* putRaw of the next chunk; a chunk whose object is bad ends the create.
PutChunk ==
    /\ op = "create" /\ cutting /\ Chunked /\ Len(refs) < Len(ends)
    /\ LET bytes == chunk(Len(refs) + 1)
       IN  IF Puts(bytes)
             THEN /\ putCompressed(bytes)
                  /\ refs' = Append(refs, ref(Len(refs) + 1, bytes))
                  /\ UNCHANGED <<chunkerVars, op, version, source, todo, cutting, files, chunks>>
             ELSE Idle /\ UNCHANGED <<objects, version>>
    /\ UNCHANGED <<texts, sessions, histories, target>>

\* The size is the one that stat gave, the digest that of the chunks.
EndFile ==
    /\ op = "create" /\ cutting /\ Chunked /\ Len(refs) = Len(ends)
    /\ files' = Append(files, [path |-> Head(todo), size |-> Len(data),
                              digest |-> bytesOf([chunks |-> refs]), chunks |-> refs])
    /\ cutting' = FALSE /\ refs' = <<>> /\ todo' = Tail(todo)
    /\ UNCHANGED <<chunkerVars, stored, target, op, version, source, chunks>>

EndCreate ==
    /\ op = "create" /\ ~ cutting /\ todo = <<>>
    /\ commit([version |-> 0, mode |-> mode, files |-> files])
    /\ Idle
    /\ UNCHANGED <<target, version>>

-----------------------------------------------------------------------------
(***************************************************************************)
(* An upload: TransferSession::prepareChunks, PUT_CHUNK, COMMIT_SESSION.   *)
(* It may be cut short, or end with an error; the records of its session   *)
(* are kept, and the next upload of the source skips what it has.          *)
(***************************************************************************)

\* Size and digest are those of the file; indices go on from file to file.
PrepareFile ==
    /\ op = "upload" /\ cutting /\ Chunked
    /\ chunks' = chunks \o
         [k \in DOMAIN ends |->
            [index |-> Len(chunks) + k, path |-> Head(todo), size |-> Len(data), digest |-> data,
             at |-> k, chunk |-> chunk(k)]]
    /\ cutting' = FALSE /\ todo' = Tail(todo)
    /\ UNCHANGED <<chunkerVars, stored, target, op, version, source, refs, files>>

\* The chunks that the client does not find in the status.
Missing == {k \in DOMAIN chunks : ~ (k \in Indices(index) /\ received(index)[k] = chunks[k].chunk)}

\* The next chunk that is missing is put; when its object is bad, the upload ends.
ReceiveChunk ==
    /\ op = "upload" /\ ~ cutting /\ todo = <<>>
    /\ \E k \in Missing :
          /\ \A j \in Missing : k <= j
          /\ IF Puts(chunks[k].chunk)
               THEN /\ putCompressed(chunks[k].chunk)
                    /\ sessions' = [sessions EXCEPT ![source] = Append(index, chunks[k])]
                    /\ UNCHANGED <<chunkerVars, command>>
               ELSE Idle /\ UNCHANGED <<objects, sessions, version>>
    /\ UNCHANGED <<texts, histories, target>>

\* The worker of a client that was cut short has put its chunk and is late with
\* the record, which has come again since (UploadServer).
ReceiveAgain ==
    /\ op = "upload" /\ ~ cutting /\ todo = <<>>
    /\ stops > 0 /\ Cardinality(Indices(index)) = Len(index)
    /\ \E k \in DOMAIN index : sessions' = [sessions EXCEPT ![source] = Append(index, index[k])]
    /\ UNCHANGED <<chunkerVars, command, objects, texts, histories, target>>

\* The client is killed, or ends after --exit-after-chunks.
StopUpload ==
    /\ op = "upload" /\ ~ cutting /\ todo = <<>>
    /\ stops < MaxStops /\ stops' = stops + 1
    /\ Idle
    /\ UNCHANGED <<objects, texts, sessions, contents, damages, sound, stale, target, version>>

\* by_global: one record of each index, in order, of which these are a file's.
recordsOf(p) ==
    Only([k \in 1 .. Cardinality(Indices(index)) |-> lastRecord(index, nthIndex(index, k))],
         {r \in Range(index) : r.path = p})

\* The c-th of a file's records by chunk_index, of which no two are equal.
nthChunk(rs, c) ==
    CHOOSE r \in Range(rs) : Cardinality({t \in Range(rs) : t.at <= r.at}) = c

\* Mutant: the chunk's index in the session for the one in its file.
fileOfGlobal(p) ==
    LET rs == recordsOf(p)
    IN  [path |-> p, size |-> rs[1].size, digest |-> rs[1].digest,
         chunks |-> [c \in DOMAIN rs |-> [ref(1, rs[c].chunk) EXCEPT !.index = rs[c].index]]]

\* The file's data are those of its first record; the chunks go by chunk_index.
fileOf(p) ==
    LET rs == recordsOf(p)
        chunkOf(c) == LET r == nthChunk(rs, c)
                      IN  [index |-> r.at, size |-> Len(r.chunk), sha |-> r.chunk, object |-> r.chunk]
    IN  [path |-> p, size |-> rs[1].size, digest |-> rs[1].digest,
         chunks |-> [c \in DOMAIN rs |-> chunkOf(c)]]

filesOfSession ==
    LET present == Only(Paths, {p \in Range(Paths) : recordsOf(p) # <<>>})
    IN  [k \in DOMAIN present |-> fileOf(present[k])]

EndUpload ==
    /\ op = "upload" /\ ~ cutting /\ todo = <<>>
    /\ Missing = {} /\ Buildable(index, Len(chunks))
    /\ commit([version |-> 0, mode |-> "fixed", files |-> filesOfSession])
    /\ Idle
    /\ UNCHANGED <<target, version>>

-----------------------------------------------------------------------------
(***************************************************************************)
(* RestoreEngine::restore.                                                 *)
(***************************************************************************)
StartRestore(v) ==
    /\ op = "none" /\ load(v) # Invalid
    /\ op' = "restore" /\ version' = v
    /\ todo' = [k \in DOMAIN load(v).files |-> load(v).files[k].path]
    /\ UNCHANGED <<chunkerVars, stored, target, source, cutting, refs, files, chunks>>

\* It throws before it restores anything.
RestoreUnreadable(v) ==
    /\ op = "none" /\ load(v) = Invalid
    /\ version' = 0
    /\ UNCHANGED <<chunkerVars, stored, target, op, source, todo, cutting, refs, files, chunks>>

fileAt(v, p) == CHOOSE f \in Range(load(v).files) : f.path = p

Within(p, q) == Len(p) < Len(q) /\ SubSeq(q, 1, Len(p)) = p

\* A file stands where a directory is needed, or the other way round.
Blocked(p) == \E q \in DOMAIN target : Within(p, q) \/ Within(q, p)

RestoreFile ==
    /\ op = "restore" /\ todo # <<>>
    /\ LET f == fileAt(version, Head(todo))
       IN  /\ FileRestorable(f) /\ ~ Blocked(f.path)
           /\ target' = With(target, f.path, bytesOf(f))
    /\ todo' = Tail(todo)
    /\ UNCHANGED <<chunkerVars, stored, op, version, source, cutting, refs, files, chunks>>

\* The files that were restored before stay.
RestoreFails ==
    /\ op = "restore" /\ todo # <<>>
    /\ LET f == fileAt(version, Head(todo)) IN ~ FileRestorable(f) \/ Blocked(f.path)
    /\ Idle /\ version' = 0
    /\ UNCHANGED <<stored, target>>

\* Mutant: the last file is left out.
EndRestoreEarly ==
    /\ op = "restore" /\ Len(todo) <= 1
    /\ Idle
    /\ UNCHANGED <<stored, target, version>>

EndRestore ==
    /\ op = "restore" /\ todo = <<>>
    /\ Idle
    /\ UNCHANGED <<stored, target, version>>

-----------------------------------------------------------------------------
(***************************************************************************)
(* Damage.                                                                 *)
(***************************************************************************)
Damage ==
    /\ op = "none" /\ damages < MaxDamage /\ MoreEvents
    /\ damages' = damages + 1 /\ sound' = {} /\ version' = 0
    /\ stale' = {s \in Sources : sessions[s] # <<>>}
    /\ UNCHANGED <<chunkerVars, sessions, contents, stops, target, op, source, todo, cutting, refs, files, chunks>>

\* An object is not zstd any more, is another object's copy, or is gone.
DamageObject ==
    /\ Damage
    /\ \E h \in DOMAIN objects :
          \/ \E d \in (DOMAIN objects \ {h}) \cup {Garbled} : objects' = [objects EXCEPT ![h] = d]
          \/ objects' = Restrict(objects, DOMAIN objects \ {h})
    /\ UNCHANGED texts

\* Some lines of a manifest, from i to j, are gone.
DamageText ==
    /\ Damage
    /\ \E v \in Versions : \E i, j \in DOMAIN texts[v] :
          /\ i <= j
          /\ texts' = [texts EXCEPT ![v] = SubSeq(@, 1, i - 1) \o SubSeq(@, j + 1, Len(@))]
    /\ UNCHANGED objects

-----------------------------------------------------------------------------
Next ==
    \/ \E m \in Modes : Begin("create", m)
    \/ Begin("upload", "fixed")
    \/ NextFile \/ CutFile \/ PutChunk \/ EndFile \/ EndCreate
    \/ PrepareFile \/ ReceiveChunk \/ ReceiveAgain \/ StopUpload \/ EndUpload
    \/ \E v \in Versions : StartRestore(v)
    \/ \E v \in Versions : RestoreUnreadable(v)
    \/ RestoreFile \/ RestoreFails \/ EndRestore
    \/ DamageObject \/ DamageText

Spec == Init /\ [][Next]_vars

-----------------------------------------------------------------------------
(***************************************************************************)
(* Properties.                                                             *)
(***************************************************************************)

\* A manifest that parses lists the files of the source it was made from, with
\* all their bytes in order, however they were cut, in however many uploads the
\* records of a session came, and whatever lines the text has lost.
CommittedIsSource ==
    \A v \in Versions :
        load(v) # Invalid =>
          /\ load(v).version = v
          /\ [k \in DOMAIN load(v).files |-> load(v).files[k].path] = scanRegularFiles(contents[v])
          /\ \A f \in Range(load(v).files) :
                /\ bytesOf(f) = contents[v][f.path] /\ f.digest = contents[v][f.path]
                /\ f.size = Len(f.digest)

\* An object that exists is read before a chunk counts as stored: what a create
\* commits after a damage verifies, or is not committed, and so does what is
\* uploaded in a session that began after it.  (A session that began before is
\* continued without a look at the objects of the chunks it has.)
SoundVerifies == \A v \in sound : verify(v)

\* Whatever was damaged, and whichever versions were restored into the target
\* before: it holds no bytes that its path did not have in a source, and all of
\* a version that was reported as restored.
RestoredIsSource ==
    /\ \A p \in DOMAIN target : \E v \in Versions : p \in DOMAIN contents[v] /\ target[p] = contents[v][p]
    /\ version # 0 /\ op = "none" =>
          \A p \in DOMAIN contents[version] :
              p \in DOMAIN target /\ target[p] = contents[version][p]

\* verify foretells restore: a restore fails for its version only if verify
\* does, or else because of what the target held, and succeeds only if verify does.
RestoreAsVerified ==
    [][op = "restore" /\ op' = "none" =>
          IF version' = version
            THEN verify(version)
            ELSE ~ verify(version) \/ Blocked(Head(todo))]_vars

\* Content-defined chunks find their way back: where the bytes of two files are
\* the same from a cut in each to the end, so are their chunks from there on.
CutsResync ==
    \A v, w \in Versions :
        load(v) # Invalid /\ load(w) # Invalid /\ load(v).mode = "cdc" /\ load(w).mode = "cdc" =>
          \A f \in Range(load(v).files), g \in Range(load(w).files) :
              \A i \in DOMAIN f.chunks, j \in DOMAIN g.chunks :
                  LET restOf(h, k) == [c \in 1 .. Len(h.chunks) - k + 1 |-> h.chunks[k + c - 1].sha]
                  IN  FlattenSeq(restOf(f, i)) = FlattenSeq(restOf(g, j)) => restOf(f, i) = restOf(g, j)

\* An upload, also one that was cut short and continued, lists the files that a
\* create with fixed chunks lists.
UploadIsCreate ==
    \A v, w \in Versions :
        /\ contents[v] = contents[w]
        /\ load(v) # Invalid /\ load(w) # Invalid /\ load(v).mode = load(w).mode
        => load(v).files = load(w).files
=============================================================================
