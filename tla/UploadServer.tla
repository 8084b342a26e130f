---------------------------- MODULE UploadServer ----------------------------
(***************************************************************************)
(* backup-client uploads a source under a session id; backup-server keeps  *)
(* the session's index, so that an upload that was cut short goes on where *)
(* it stopped, and commits the session as a version of the repository.     *)
(*                                                                         *)
(* A connection carries one request and its reply at a time.  It waits in  *)
(* line for a worker of the pool, which stays with it to its end           *)
(* (BackupServer::handleConnection); ThreadPool has the pool itself.  The  *)
(* handlers of several workers interleave between any two of their calls.  *)
(* Clients and the server can die at any point; the index is written by    *)
(* one write per record, which the death of the process does not tear, but *)
(* which a full disk cuts short.                                           *)
(***************************************************************************)
EXTENDS Repository, SessionIndex

CONSTANTS
    Clients,       \* the client processes
    Sessions,      \* session ids
    SessionOf,     \* client -> the session id it uploads under
    Sources,       \* contents of a source directory, as chunk sequences
    Edits,         \* what may become of a source between two uploads: <<before, after>>
    OneClient,     \* users run one client at a time
    PoolSizes,     \* --threads, as the server may be started with
    Idle,          \* clients that may stay connected and do nothing
    DiskFull,      \* the server's disk may have no room for what is written
    Nothing        \* no request, no reply, and the object of a path cut short

ASSUME UploadAssumption ==
    /\ Procs = Clients /\ IsFiniteSet(Clients)
    /\ SessionOf \in [Clients -> Sessions]
    /\ Sources \subseteq Seq(Chunks)
    /\ Edits \subseteq Sources \X Sources
    /\ OneClient \in BOOLEAN
    /\ PoolSizes \subseteq Nat \ {0}
    /\ Idle \subseteq Clients
    /\ DiskFull \in BOOLEAN
    /\ Nothing \notin Chunks

VARIABLES
    source,     \* session -> what its source directory held when it was last read
    index,      \* session -> its index: the CHUNK records, and how the file ends
    \* the clients
    cpc,        \* the reply a client waits for, or "idle"
    content,    \* the source as the client has read it
    status,     \* the chunks the server had when the client asked
    next,       \* index of the chunk the client deals with
    acked,      \* the versions clients were told of: <<version, content>>
    \* the connections
    conn,       \* as the server sees it: none, open, or eof
    request,
    reply,
    \* the server
    workers,    \* how many workers the server has; 0: it is down
    queue,      \* the connections without worker: in the pool's queue, or the backlog
    wpc,        \* the call each connection's worker makes next
    version,    \* commit: the version
    manifest,   \* commit: the manifest built from the index
    listed      \* commit: the versions read for the checkpoint

clientVars == <<cpc, content, status, next, acked>>
serverVars == <<workers, queue>>
workVars == <<wpc, version, manifest, listed>>
vars == <<repoVars, source, index, clientVars, conn, request, reply, serverVars, workVars>>

Records == [index : Nat \ {0}, chunk : Chunks, size : Nat, digest : Seq(Chunks),
            object : Chunks \cup {Nothing}]

IndexFiles == [records : Seq(Records), end : Ends]

PutSteps == {"store", "check", "append"}
CommitSteps == {"begin", "build", "writeTmp", "logWrite", "rename",
                "logRename", "mark", "logCommit", "list", "checkpoint", "markCommitted"}

\* A manifest of a session; the path of an object may have been cut short.
References == [chunks : Seq(Chunks \cup {Nothing}), size : Nat, digest : Seq(Chunks)]

\* The connections that have a worker.
Busy == {c \in Clients : wpc[c] \notin {"none", "queued"}}

TypeOK ==
    /\ objects \subseteq Chunks
    /\ staged \in [Versions -> References \cup {NoManifest}]
    /\ manifests \in [Versions -> References \cup {NoManifest}]
    /\ markers \subseteq Versions /\ checkpoint \subseteq Versions
    /\ wal \subseteq WalRecord /\ walTorn \in BOOLEAN
    /\ source \in [Sessions -> Sources]
    /\ index \in [Sessions -> IndexFiles]
    /\ cpc \in [Clients -> {"idle", "hello", "query", "put", "commit"}]
    /\ content \in [Clients -> Sources \cup {<<>>}]
    /\ \A c \in Clients : DOMAIN status[c] \subseteq Nat /\ Range(status[c]) \subseteq Chunks
    /\ next \in [Clients -> Nat]
    /\ acked \subseteq Versions \X Sources
    /\ conn \in [Clients -> {"none", "open", "eof"}]
    /\ \A c \in Clients : request[c] # Nothing =>
          request[c].type \in {"hello", "query", "put", "commit"}
    /\ \A c \in Clients : reply[c] # Nothing =>
          reply[c].type \in {"hello", "status", "putAck", "commitAck", "error"}
    /\ workers \in PoolSizes \cup {0}
    /\ queue \in Seq(Clients) /\ Cardinality(Busy) <= workers
    /\ wpc \in [Clients -> {"none", "queued", "read"} \cup PutSteps \cup CommitSteps]
    /\ version \in [Clients -> Versions \cup {0}]
    /\ manifest \in [Clients -> References \cup {NoManifest}]
    /\ listed \in [Clients -> SUBSET Versions]

Init ==
    /\ RepoInit
    /\ source \in [Sessions -> Sources]
    /\ index = [s \in Sessions |-> NewIndex]
    /\ cpc = [c \in Clients |-> "idle"]
    /\ content = [c \in Clients |-> <<>>]
    /\ status = [c \in Clients |-> <<>>]
    /\ next = [c \in Clients |-> 0]
    /\ acked = {}
    /\ conn = [c \in Clients |-> "none"]
    /\ request = [c \in Clients |-> Nothing]
    /\ reply = [c \in Clients |-> Nothing]
    /\ workers \in PoolSizes
    /\ queue = <<>>
    /\ wpc = [c \in Clients |-> "none"]
    /\ version = [c \in Clients |-> 0]
    /\ manifest = [c \in Clients |-> NoManifest]
    /\ listed = [c \in Clients |-> {}]

-----------------------------------------------------------------------------
(***************************************************************************)
(* The client: BackupClient::upload.                                       *)
(***************************************************************************)
Active == {c \in Clients : cpc[c] # "idle" \/ wpc[c] # "none"}

\* What is sent on a connection that the server has left is lost.
send(c, r) ==
    /\ request' = IF conn[c] = "open" THEN [request EXCEPT ![c] = r] ELSE request
    /\ cpc' = [cpc EXCEPT ![c] = r.type]

\* PUT_CHUNK: the chunk with its record.
putRequest(c, i) == [type |-> "put", record |-> prepared(content[c], i)]

\* Send the first chunk from index i on that the server lacks, or else commit.
Missing(c, st, i) ==
    {j \in i .. Len(content[c]) : ~ (j \in DOMAIN st /\ st[j] = content[c][j])}

sendNext(c, st, i) ==
    IF Missing(c, st, i) # {}
      THEN LET j == Min(Missing(c, st, i))
           IN  /\ next' = [next EXCEPT ![c] = j]
               /\ send(c, putRequest(c, j))
      ELSE /\ next' = [next EXCEPT ![c] = 0]
           /\ send(c, [type |-> "commit", total |-> Len(content[c])])

connect(c) == conn' = [conn EXCEPT ![c] = "open"]

\* BackupServer::run accepts connections in their order and submits them to the pool.
accept(c) ==
    /\ wpc' = [wpc EXCEPT ![c] = "queued"]
    /\ queue' = Append(queue, c)

\* The client's socket is closed; the server may have closed its own before.
close(c) == conn' = [conn EXCEPT ![c] = IF @ = "open" THEN "eof" ELSE @]

\* The client's memory is gone.
leave(c) ==
    /\ cpc' = [cpc EXCEPT ![c] = "idle"]
    /\ content' = [content EXCEPT ![c] = <<>>]
    /\ status' = [status EXCEPT ![c] = <<>>]
    /\ next' = [next EXCEPT ![c] = 0]

\* What a session's source may be when an upload of the session reads it.
sourceNow(s) == {source[s]} \cup {t \in Sources : <<source[s], t>> \in Edits}

\* A session's source stays the same between its uploads.
SourceStable == Edits = {}

\* Read the source, connect and greet.  The client looks at a file three times,
\* for its digest, its size and its chunks; edits come between uploads, and not
\* between these.  MaxVersion bounds the uploads.
StartUpload(c) ==
    /\ workers > 0
    /\ cpc[c] = "idle" /\ wpc[c] = "none" /\ conn[c] = "none"
    /\ OneClient => \A d \in Clients : cpc[d] = "idle"
    /\ nextVersion + Cardinality(Active) <= MaxVersion
    /\ \E read \in sourceNow(SessionOf[c]) :
          /\ source' = [source EXCEPT ![SessionOf[c]] = read]
          /\ content' = [content EXCEPT ![c] = read]
    /\ connect(c) /\ accept(c)
    /\ request' = [request EXCEPT ![c] = [type |-> "hello"]]
    /\ cpc' = [cpc EXCEPT ![c] = "hello"]
    /\ UNCHANGED <<repoVars, index, status, next, acked, reply, workers,
                   version, manifest, listed>>

GetReply(c, type) ==
    /\ cpc[c] # "idle"
    /\ reply[c] # Nothing /\ reply[c].type = type
    /\ reply' = [reply EXCEPT ![c] = Nothing]

GetHello(c) ==
    /\ GetReply(c, "hello")
    /\ send(c, [type |-> "query"])
    /\ UNCHANGED <<repoVars, source, index, content, status, next, acked, conn, serverVars, workVars>>

GetStatus(c) ==
    /\ GetReply(c, "status")
    /\ status' = [status EXCEPT ![c] = reply[c].received]
    /\ sendNext(c, reply[c].received, 1)
    /\ UNCHANGED <<repoVars, source, index, content, acked, conn, serverVars, workVars>>

GetPutAck(c) ==
    /\ GetReply(c, "putAck")
    /\ sendNext(c, status[c], next[c] + 1)
    /\ UNCHANGED <<repoVars, source, index, content, status, acked, conn, serverVars, workVars>>

\* The client prints the version and closes the connection.
GetCommitAck(c) ==
    /\ GetReply(c, "commitAck")
    /\ acked' = acked \cup {<<reply[c].version, content[c]>>}
    /\ leave(c)
    /\ close(c)
    /\ UNCHANGED <<repoVars, source, index, request, serverVars, workVars>>

\* An ERROR reply, or a connection that the server has closed.
UploadFails(c) ==
    /\ cpc[c] # "idle"
    /\ \/ GetReply(c, "error")
       \/ reply[c] = Nothing /\ conn[c] = "none" /\ UNCHANGED reply
    /\ leave(c)
    /\ UNCHANGED <<repoVars, source, index, acked, conn, request, serverVars, workVars>>

\* Killed, or --exit-after-chunks: the server reads to the end of the connection.
ClientDies(c) ==
    /\ cpc[c] # "idle"
    /\ leave(c)
    /\ close(c)
    /\ reply' = [reply EXCEPT ![c] = Nothing]
    /\ UNCHANGED <<repoVars, source, index, acked, request, serverVars, workVars>>

-----------------------------------------------------------------------------
(***************************************************************************)
(* The server: BackupServer::handleConnection and handlePacket.            *)
(***************************************************************************)
goto(c, l) == wpc' = [wpc EXCEPT ![c] = l]

\* A reply to a client that is gone is lost.
respond(c, r) ==
    /\ reply' = IF conn[c] = "open" THEN [reply EXCEPT ![c] = r] ELSE reply
    /\ version' = [version EXCEPT ![c] = 0]
    /\ manifest' = [manifest EXCEPT ![c] = NoManifest]
    /\ listed' = [listed EXCEPT ![c] = {}]

answer(c, r) == respond(c, r) /\ request' = [request EXCEPT ![c] = Nothing] /\ goto(c, "read")

\* Mutant: the worker ends and the connection stays open.
failSilently(c) ==
    /\ goto(c, "none")
    /\ version' = [version EXCEPT ![c] = 0]
    /\ manifest' = [manifest EXCEPT ![c] = NoManifest]
    /\ listed' = [listed EXCEPT ![c] = {}]
    /\ request' = [request EXCEPT ![c] = Nothing]
    /\ UNCHANGED <<conn, reply>>

\* A DpcError: tell the client and close the connection.
fail(c) ==
    /\ respond(c, [type |-> "error"])
    /\ request' = [request EXCEPT ![c] = Nothing]
    /\ conn' = [conn EXCEPT ![c] = "none"]
    /\ goto(c, "none")

\* Mutant: two session ids share a file.
sessionShared(c) == CHOOSE s \in Sessions : c \in Clients

\* The session file, metadata/sessions/<hex id>.session, of a client's session id.
session(c) == SessionOf[c]

\* A free worker takes the connection that has waited longest.
ServeNext ==
    /\ queue # <<>> /\ Cardinality(Busy) < workers
    /\ queue' = Tail(queue)
    /\ goto(Head(queue), "read")
    /\ UNCHANGED <<repoVars, source, index, clientVars, conn, request, reply, workers,
                   version, manifest, listed>>

Receive(c, type) == wpc[c] = "read" /\ request[c] # Nothing /\ request[c].type = type

\* SessionIndex::records does not throw.
IndexReads(c) == index[session(c)].end # "piece"

HandleHello(c) ==
    /\ Receive(c, "hello")
    /\ answer(c, [type |-> "hello"])
    /\ UNCHANGED <<repoVars, source, index, clientVars, conn, serverVars>>

HandleQuery(c) ==
    /\ Receive(c, "query")
    /\ IF IndexReads(c)
         THEN answer(c, [type |-> "status", received |-> received(index[session(c)].records)])
              /\ UNCHANGED conn
         ELSE fail(c)
    /\ UNCHANGED <<repoVars, source, index, clientVars, serverVars>>

\* Mutant: the record without its object.
HandlePutUnstored(c) ==
    /\ Receive(c, "put")
    /\ goto(c, "check")
    /\ UNCHANGED <<repoVars, source, index, clientVars, conn, request, reply, serverVars,
                   version, manifest, listed>>

HandlePut(c) ==
    /\ Receive(c, "put")
    /\ goto(c, "store")
    /\ UNCHANGED <<repoVars, source, index, clientVars, conn, request, reply, serverVars,
                   version, manifest, listed>>

\* The chunk has the SHA-256 of the header; putCompressed stores it.
StoreChunk(c) ==
    /\ wpc[c] = "store"
    /\ putRaw(request[c].record.chunk)
    /\ goto(c, "check")
    /\ UNCHANGED <<scratch, staged, manifests, markers, wal, walTorn, checkpoint, source, index,
                   clientVars, conn, request, reply, serverVars, version, manifest, listed>>

\* appendChunk reads the index first ...
CheckIndex(c) ==
    /\ wpc[c] = "check"
    /\ LET r == request[c].record
           known == received(index[session(c)].records)
       IN  \/ /\ ~ IndexReads(c) \/ (r.index \in DOMAIN known /\ known[r.index] # r.chunk)
              /\ fail(c)
           \/ /\ IndexReads(c) /\ r.index \in DOMAIN known /\ known[r.index] = r.chunk
              /\ answer(c, [type |-> "putAck"])
              /\ UNCHANGED conn
           \/ /\ IndexReads(c) /\ r.index \notin DOMAIN known
              /\ goto(c, "append")
              /\ UNCHANGED <<conn, request, reply, version, manifest, listed>>
    /\ UNCHANGED <<repoVars, source, index, clientVars, serverVars>>

\* The request's record with the path of the object, the chunk's.
newRecord(c) ==
    LET r == request[c].record
    IN  [index |-> r.index, chunk |-> r.chunk, size |-> r.size, digest |-> r.digest, object |-> r.chunk]

\* ... and then appends to it.
AppendIndex(c) ==
    /\ wpc[c] = "append"
    /\ index' = [index EXCEPT ![session(c)] = appendLine(@, newRecord(c))]
    /\ answer(c, [type |-> "putAck"])
    /\ UNCHANGED <<repoVars, source, clientVars, conn, serverVars>>

\* The disk is full: the stream is bad after the flush.
AppendCut(c) ==
    /\ DiskFull /\ wpc[c] = "append"
    /\ \E file \in cutLines(index[session(c)], newRecord(c), Nothing) :
          index' = [index EXCEPT ![session(c)] = file]
    /\ fail(c)
    /\ UNCHANGED <<repoVars, source, clientVars, serverVars>>

HandleCommit(c) ==
    /\ Receive(c, "commit")
    /\ goto(c, "begin")
    /\ version' = [version EXCEPT ![c] = nextVersion]
    /\ UNCHANGED <<repoVars, source, index, clientVars, conn, request, reply, serverVars,
                   manifest, listed>>

Log(c, at, type, l) ==
    /\ wpc[c] = at
    /\ appendWal(type, version[c])
    /\ goto(c, l)
    /\ UNCHANGED <<objects, scratch, staged, manifests, markers, walTorn, checkpoint, source,
                   index, clientVars, conn, request, reply, serverVars, version, manifest, listed>>

LogBegin(c) == Log(c, "begin", "BeginBackup", "build")

BuildManifest(c) ==
    /\ wpc[c] = "build"
    /\ IF IndexReads(c) /\ Buildable(index[session(c)].records, request[c].total)
         THEN /\ manifest' = [manifest EXCEPT ![c] = buildManifest(index[session(c)].records)]
              /\ goto(c, "writeTmp")
              /\ UNCHANGED <<conn, request, reply, version, listed>>
         ELSE fail(c)
    /\ UNCHANGED <<repoVars, source, index, clientVars, serverVars>>

\* No recover runs beside the server, so nobody sees the scratch file.
WriteTmp(c) ==
    /\ wpc[c] = "writeTmp"
    /\ staged' = [staged EXCEPT ![version[c]] = manifest[c]]
    /\ goto(c, "logWrite")
    /\ UNCHANGED <<objects, scratch, manifests, markers, wal, walTorn, checkpoint, source,
                   index, clientVars, conn, request, reply, serverVars, version, manifest, listed>>

\* Mutant: the marker without the rename.
LogWriteThenMark(c) == Log(c, "logWrite", "WriteManifest", "mark")

LogWrite(c) == Log(c, "logWrite", "WriteManifest", "rename")

\* Another worker may have chosen the same version and renamed the file.
Rename(c) ==
    /\ wpc[c] = "rename"
    /\ \/ /\ renameTmpToManifest(version[c])
          /\ goto(c, "logRename")
          /\ UNCHANGED <<conn, request, reply, version, manifest, listed>>
       \/ /\ staged[version[c]] = NoManifest
          /\ fail(c)
          /\ UNCHANGED <<staged, manifests>>
    /\ UNCHANGED <<objects, scratch, markers, wal, walTorn, checkpoint, source, index,
                   clientVars, serverVars>>

LogRename(c) == Log(c, "logRename", "RenameManifest", "mark")

Mark(c) ==
    /\ wpc[c] = "mark"
    /\ createMarker(version[c])
    /\ goto(c, "logCommit")
    /\ UNCHANGED <<objects, scratch, staged, manifests, wal, walTorn, checkpoint, source, index,
                   clientVars, conn, request, reply, serverVars, version, manifest, listed>>

LogCommit(c) == Log(c, "logCommit", "CommitBackup", "list")

ListVersions(c) ==
    /\ wpc[c] = "list"
    /\ listed' = [listed EXCEPT ![c] = listCommittedVersions]
    /\ goto(c, "checkpoint")
    /\ UNCHANGED <<repoVars, source, index, clientVars, conn, request, reply, serverVars,
                   version, manifest>>

WriteCheckpoint(c) ==
    /\ wpc[c] = "checkpoint"
    /\ writeCheckpoint(listed[c])
    /\ goto(c, "markCommitted")
    /\ UNCHANGED <<objects, scratch, staged, manifests, markers, wal, walTorn, source, index,
                   clientVars, conn, request, reply, serverVars, version, manifest, listed>>

\* The COMMITTED line is skipped by every reader.
MarkCommitted(c) ==
    /\ wpc[c] = "markCommitted"
    /\ index' = [index EXCEPT ![session(c)] = commitLine(@)]
    /\ answer(c, [type |-> "commitAck", version |-> version[c]])
    /\ UNCHANGED <<repoVars, source, clientVars, conn, serverVars>>

\* markCommitted does not ask whether the line was written.
MarkCommittedCut(c) ==
    /\ DiskFull /\ wpc[c] = "markCommitted"
    /\ \E file \in cutCommitLines(index[session(c)]) : index' = [index EXCEPT ![session(c)] = file]
    /\ answer(c, [type |-> "commitAck", version |-> version[c]])
    /\ UNCHANGED <<repoVars, source, clientVars, conn, serverVars>>

\* No room for an object, a manifest, a marker, the checkpoint, of which nothing
\* is seen then, or for a record of the log, of which a part may be written.
WriteFails(c) ==
    /\ DiskFull
    /\ \/ wpc[c] \in {"store", "writeTmp", "mark", "checkpoint"} /\ UNCHANGED walTorn
       \/ wpc[c] \in {"begin", "logWrite", "logRename", "logCommit"} /\ walTorn' \in {walTorn, TRUE}
    /\ fail(c)
    /\ UNCHANGED <<objects, scratch, staged, manifests, markers, wal, checkpoint, source, index,
                   clientVars, serverVars>>

\* read() returns 0 before a packet has come: "socket closed".
ReadEnd(c) ==
    /\ wpc[c] = "read" /\ request[c] = Nothing /\ conn[c] = "eof"
    /\ goto(c, "none")
    /\ conn' = [conn EXCEPT ![c] = "none"]
    /\ UNCHANGED <<repoVars, source, index, clientVars, request, reply, serverVars,
                   version, manifest, listed>>

\* The process ends, and with it all workers and connections: killed, or by the
\* SIGPIPE of an ERROR reply to a client that died with a reply unread.  What the
\* server had sent may reach the clients or not.
ServerDies ==
    /\ workers > 0
    /\ workers' = 0 /\ queue' = <<>>
    /\ wpc' = [c \in Clients |-> "none"]
    /\ version' = [c \in Clients |-> 0]
    /\ manifest' = [c \in Clients |-> NoManifest]
    /\ listed' = [c \in Clients |-> {}]
    /\ conn' = [c \in Clients |-> "none"]
    /\ request' = [c \in Clients |-> Nothing]
    /\ reply' \in {reply, [c \in Clients |-> Nothing]}
    /\ UNCHANGED <<repoVars, source, index, clientVars>>

Restart ==
    /\ workers = 0
    /\ workers' \in PoolSizes
    /\ UNCHANGED <<repoVars, source, index, clientVars, conn, request, reply, queue, workVars>>

-----------------------------------------------------------------------------
ClientStep(c) == GetHello(c) \/ GetStatus(c) \/ GetPutAck(c) \/ GetCommitAck(c) \/ UploadFails(c)

Worker(c) ==
    \/ HandleHello(c) \/ HandleQuery(c) \/ HandlePut(c) \/ StoreChunk(c) \/ CheckIndex(c)
    \/ AppendIndex(c) \/ HandleCommit(c) \/ LogBegin(c) \/ BuildManifest(c) \/ WriteTmp(c)
    \/ LogWrite(c) \/ Rename(c) \/ LogRename(c) \/ Mark(c) \/ LogCommit(c)
    \/ ListVersions(c) \/ WriteCheckpoint(c) \/ MarkCommitted(c) \/ ReadEnd(c)
    \/ AppendCut(c) \/ MarkCommittedCut(c) \/ WriteFails(c)

Next ==
    \/ \E c \in Clients : StartUpload(c) \/ ClientStep(c) \/ ClientDies(c) \/ Worker(c)
    \/ ServeNext \/ ServerDies \/ Restart

Spec == Init /\ [][Next]_vars

\* Clients, the pool and its workers go on when they can, but for idle clients.
FairSpec ==
    /\ Spec
    /\ \A c \in Clients \ Idle : WF_vars(ClientStep(c))
    /\ \A c \in Clients : WF_vars(Worker(c))
    /\ WF_vars(ServeNext)

-----------------------------------------------------------------------------
(***************************************************************************)
(* Properties.                                                             *)
(***************************************************************************)

\* What a session's index says was received is in the object store, so that a
\* resumed upload may skip it: the object is written before the record.
IndexIsStored ==
    \A s \in Sessions : \A k \in DOMAIN index[s].records : index[s].records[k].chunk \in objects

\* A version is committed by one upload only, and holds what that client read:
\* the version an ack names has the client's source as its content, after any
\* number of interrupted uploads of the session; only the path of an object may
\* have been cut short by a full disk.
AckedHoldsSource ==
    \A a \in acked :
        /\ a[1] \in markers
        /\ Len(manifests[a[1]].chunks) = Len(a[2])
        /\ \A k \in DOMAIN a[2] : manifests[a[1]].chunks[k] \in {a[2][k], Nothing}

\* A committed version verifies (VerifyEngine), also one that was put together
\* from several uploads of a session, and one that several workers raced for.
CommittedVerifies == \A v \in markers : Loads(v) /\ Verifies(manifests[v])

\* However often the disk was full: a committed version lists the whole source,
\* and verifies unless it took over the path of an object that was cut short.
CommittedVerifiesOrCut ==
    \A v \in markers :
        /\ Loads(v)
        /\ LET m == manifests[v]
           IN  /\ Len(m.chunks) = m.size /\ m.digest \in Sources
               /\ \A k \in DOMAIN m.chunks : m.chunks[k] = Nothing \/ m.chunks[k] = m.digest[k]
               /\ Nothing \notin Range(m.chunks) => Verifies(m)

\* An acked chunk is never sent again: a client that asks for the status finds
\* what earlier uploads of the session were told is stored, whatever died since.
NothingResent ==
    [][\A c \in Clients :
          request'[c] # request[c] /\ request'[c] # Nothing /\ request'[c].type = "put"
             => \A k \in DOMAIN index[SessionOf[c]].records :
                    LET r == index[SessionOf[c]].records[k]
                    IN  r.index = request'[c].record.index => r.chunk # request'[c].record.chunk]_vars

\* Two workers that check before they append may both append; they append the
\* same chunk as long as the source is the same.
IndexConsistent ==
    \A s \in Sessions : \A k, l \in DOMAIN index[s].records :
        index[s].records[k].index = index[s].records[l].index => index[s].records[k] = index[s].records[l]

\* All workers are held by clients that do nothing.
AllHeld == workers > 0 /\ Cardinality({c \in Busy \cap Idle : cpc[c] # "idle"}) = workers

\* An upload comes to an end, with an ack or an error, also when it had to wait
\* for a worker, and beside a client that does nothing: only if such clients hold
\* all workers for ever it may not.
UploadEnds == \A c \in Clients \ Idle : cpc[c] # "idle" ~> (cpc[c] = "idle" \/ []AllHeld)
=============================================================================
