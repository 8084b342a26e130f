------------------------- MODULE UploadServerProofs -------------------------
(***************************************************************************)
(* What UploadServer guarantees for every set of clients, sessions and     *)
(* sources, every number of workers and every death of a client or of the  *)
(* server: the protocol keeps client, connection and worker in step, the   *)
(* index never runs ahead of the objects, and, for sources that stay the   *)
(* same between the uploads of a session, committed versions verify.       *)
(***************************************************************************)
EXTENDS UploadServer, ListLemmas

-----------------------------------------------------------------------------
(***************************************************************************)
(* The inductive invariant, in parts.                                      *)
(***************************************************************************)

\* The messages carry what their receivers take from them.
PutRecords == [index : Nat \ {0}, chunk : Chunks, size : Nat, digest : Seq(Chunks)]

MessagesOK ==
    /\ DOMAIN request = Clients /\ DOMAIN reply = Clients
    /\ DOMAIN status = Clients
    /\ \A c \in Clients : cpc[c] # "idle" => content[c] \in Sources
    /\ \A c \in Clients : request[c] # Nothing =>
          /\ request[c].type = "put" => request[c].record \in PutRecords
          /\ request[c].type = "commit" => request[c].total \in Nat
    /\ \A c \in Clients : reply[c] # Nothing =>
          /\ reply[c].type = "status" =>
                DOMAIN reply[c].received \subseteq Nat /\ Range(reply[c].received) \subseteq Chunks
          /\ reply[c].type = "commitAck" => reply[c].version \in Versions

\* commit's steps up to the marker.
BeforeMark == {"begin", "build", "writeTmp", "logWrite", "rename", "logRename", "mark"}

\* The request a client waits for, by the type of the reply.
Answers(type, waits) ==
    \/ type = "hello" /\ waits = "hello"
    \/ type = "status" /\ waits = "query"
    \/ type = "putAck" /\ waits = "put"
    \/ type = "commitAck" /\ waits = "commit"
    \/ type = "error"

\* Client, connection and worker are in step: a worker works on the one request
\* of its client, and a reply is there only while it reads.
InStepAt(c) ==
    /\ wpc[c] \in PutSteps => request[c] # Nothing /\ request[c].type = "put"
    /\ wpc[c] \in CommitSteps => request[c] # Nothing /\ request[c].type = "commit"
    /\ wpc[c] = "queued" /\ request[c] # Nothing => request[c].type = "hello"
    /\ conn[c] = "none" <=> wpc[c] = "none"
    /\ conn[c] = "none" => request[c] = Nothing
    /\ cpc[c] = "idle" => reply[c] = Nothing /\ conn[c] # "open"
    /\ cpc[c] # "idle" => conn[c] # "eof"
    /\ cpc[c] # "idle" /\ request[c] # Nothing => request[c].type = cpc[c]
    /\ reply[c] # Nothing => Answers(reply[c].type, cpc[c])
    /\ reply[c] # Nothing /\ conn[c] = "open" => wpc[c] = "read" /\ request[c] = Nothing
    /\ reply[c] # Nothing /\ reply[c].type = "error" => conn[c] = "none"

InStep == \A c \in Clients : InStepAt(c)

\* The connections in the queue are those that wait, each once.
QueueOK ==
    /\ \A i \in 1 .. Len(queue) : wpc[queue[i]] = "queued"
    /\ \A i, j \in 1 .. Len(queue) : queue[i] = queue[j] => i = j

\* The uploads that may still mark a version, and the room they leave.
MayMark ==
    {c \in Clients :
        \/ wpc[c] \in BeforeMark
        \/ wpc[c] = "read" /\ request[c] # Nothing /\ request[c].type = "commit"
        \/ cpc[c] \in {"hello", "query", "put"}}

VersionOK ==
    /\ nextVersion + Cardinality(MayMark) <= MaxVersion + 1
    /\ \A c \in Clients : wpc[c] \in CommitSteps => version[c] \in 1 .. nextVersion

ProtocolInv == TypeOK /\ MessagesOK /\ InStep /\ QueueOK /\ VersionOK

\* The object of a record is there before the record.
StoredOK ==
    /\ IndexIsStored
    /\ \A c \in Clients : wpc[c] \in {"check", "append"} => request[c].record.chunk \in objects

(***************************************************************************)
(* Sources that stay the same.                                             *)
(***************************************************************************)

\* What a path of an object in a record or manifest can be, for a chunk.
Paths(x) == IF DiskFull THEN {x, Nothing} ELSE {x}

\* The record of a chunk of the source, and the manifest of the whole of it.
RecordOf(r, src) ==
    /\ r.index \in 1 .. Len(src)
    /\ r.chunk = src[r.index] /\ r.size = Len(src) /\ r.digest = src
    /\ r.object \in Paths(r.chunk)

ManifestOf(m, src, stored) ==
    /\ Len(m.chunks) = Len(src) /\ m.size = Len(src) /\ m.digest = src
    /\ \A k \in 1 .. Len(src) : m.chunks[k] \in Paths(src[k])
    /\ Range(src) \subseteq stored

ManifestOfSome(m) == \E s \in Sessions : ManifestOf(m, source[s], objects)

ClientReadsOK ==
    \A c \in Clients :
        LET src == source[SessionOf[c]] IN
        /\ cpc[c] # "idle" => content[c] = src
        /\ request[c] # Nothing /\ request[c].type = "put" =>
              /\ request[c].record.index \in 1 .. Len(src)
              /\ request[c].record = prepared(src, request[c].record.index)
        /\ request[c] # Nothing /\ request[c].type = "commit" => request[c].total = Len(src)

RecordsOK ==
    \A s \in Sessions : \A k \in DOMAIN index[s].records : RecordOf(index[s].records[k], source[s])

ManifestsOK ==
    /\ \A c \in Clients :
          wpc[c] \in CommitSteps \ {"begin", "build"} => ManifestOf(manifest[c], source[SessionOf[c]], objects)
    /\ \A v \in Versions : staged[v] # NoManifest => ManifestOfSome(staged[v])
    /\ \A v \in Versions : manifests[v] # NoManifest => ManifestOfSome(manifests[v])

\* A marker stands for a manifest in place.
MarkedOK ==
    /\ \A v \in markers : manifests[v] # NoManifest
    /\ \A c \in Clients : wpc[c] \in {"logRename", "mark"} => manifests[version[c]] # NoManifest

ContentInv == ClientReadsOK /\ RecordsOK /\ ManifestsOK /\ MarkedOK

(***************************************************************************)
(* One worker: nobody else commits meanwhile.                              *)
(***************************************************************************)
AckOK ==
    /\ \A c \in Clients : wpc[c] \in BeforeMark => version[c] \notin markers
    /\ \A c \in Clients : wpc[c] \in CommitSteps \ BeforeMark => version[c] \in markers
    /\ \A c \in Clients :
          wpc[c] \in CommitSteps \ {"begin", "build", "writeTmp", "logWrite", "rename"} =>
              ManifestOf(manifests[version[c]], source[SessionOf[c]], objects)
    /\ \A c \in Clients :
          wpc[c] \in {"logWrite", "rename"} => ManifestOf(staged[version[c]], source[SessionOf[c]], objects)
    /\ \A c \in Clients : reply[c] # Nothing /\ reply[c].type = "commitAck" =>
          /\ reply[c].version \in markers
          /\ ManifestOf(manifests[reply[c].version], source[SessionOf[c]], objects)
    /\ \A a \in acked : a[1] \in markers /\ ManifestOf(manifests[a[1]], a[2], objects)

\* What a client does not send again: the records of its session, as it was told
\* of them, or as it has sent them since.
RecordsAgreeAt(s) ==
    \A k, l \in DOMAIN index[s].records :
        index[s].records[k].index = index[s].records[l].index =>
            index[s].records[k].chunk = index[s].records[l].chunk

KnowsRecords(c) ==
    \A k \in DOMAIN index[SessionOf[c]].records :
        LET r == index[SessionOf[c]].records[k]
        IN  r.index <= next[c] \/ (r.index \in DOMAIN status[c] /\ status[c][r.index] = r.chunk)

KnownOK ==
    /\ \A s \in Sessions : RecordsAgreeAt(s)
    /\ \A c \in Clients : wpc[c] = "append" =>
          request[c].record.index \notin Indices(index[SessionOf[c]].records)
    /\ \A c \in Clients : wpc[c] = "queued" /\ cpc[c] # "idle" => cpc[c] = "hello"
    /\ \A c \in Clients : reply[c] # Nothing /\ reply[c].type = "status" /\ conn[c] = "open" =>
          reply[c].received = received(index[SessionOf[c]].records)
    /\ \A c \in Clients : cpc[c] = "put" /\ conn[c] = "open" =>
          /\ request[c] # Nothing => request[c].record.index = next[c]
          /\ KnowsRecords(c)

-----------------------------------------------------------------------------
(***************************************************************************)
(* nextVersion.                                                            *)
(***************************************************************************)

\* nextVersion, of a set of versions that are listed.
After(L) == IF L = {} THEN 1 ELSE 1 + (CHOOSE v \in L : \A w \in L : w <= v)

\* It is the number after the latest listed one.
LEMMA AfterLatest ==
  ASSUME NEW L \in SUBSET Versions
  PROVE  /\ After(L) \in Nat \ {0}
         /\ \A v \in L : v < After(L)
         /\ L = {} => After(L) = 1
         /\ L # {} => After(L) - 1 \in L
<1>1. MaxVersion \in Nat /\ L \in SUBSET (0 .. MaxVersion)
  BY RepositoryAssumption DEF RepositoryAssumption, Versions
<1>2. CASE L = {}
  BY <1>2 DEF After
<1>3. CASE L # {}
  <2> DEFINE v == CHOOSE v \in L : \A w \in L : w <= v
  <2>1. v \in L /\ \A w \in L : w <= v
    BY <1>1, <1>3, LargestExists
  <2>2. After(L) = 1 + v
    BY <1>3 DEF After
  <2> HIDE DEF v
  <2>3. \A w \in L : w \in Nat
    BY <1>1
  <2> QED
    BY <1>3, <2>1, <2>2, <2>3
<1> QED
  BY <1>2, <1>3

\* A marker more raises it by one at most, if it is not above it.
LEMMA AfterGrows ==
  ASSUME NEW M \in SUBSET Versions, NEW v \in Versions,
         v <= After({w \in M : w <= MaxListed})
  PROVE  /\ After({w \in M : w <= MaxListed}) <= After({w \in M \cup {v} : w <= MaxListed})
         /\ After({w \in M \cup {v} : w <= MaxListed}) <= After({w \in M : w <= MaxListed}) + 1
<1> DEFINE K == {w \in M : w <= MaxListed}
           L == {w \in M \cup {v} : w <= MaxListed}
<1>1. K \in SUBSET Versions /\ L \in SUBSET Versions /\ K \subseteq L /\ L \subseteq K \cup {v}
  OBVIOUS
<1>2. v \in Nat \ {0} /\ \A w \in Versions : w \in Nat
  BY DEF Versions
<1> HIDE DEF K, L
<1>3. /\ After(K) \in Nat \ {0} /\ After(L) \in Nat \ {0}
      /\ \A w \in K : w < After(K)
      /\ \A w \in L : w < After(L)
      /\ K # {} => After(K) - 1 \in K
      /\ L # {} => After(L) - 1 \in L
      /\ K = {} => After(K) = 1
      /\ L = {} => After(L) = 1
  BY <1>1, AfterLatest
<1>4. After(K) <= After(L)
  BY <1>1, <1>2, <1>3
<1>5. After(L) <= After(K) + 1
  BY <1>1, <1>2, <1>3 DEF K
<1> QED
  BY <1>4, <1>5 DEF K, L

-----------------------------------------------------------------------------
(***************************************************************************)
(* The session's index.                                                    *)
(***************************************************************************)

\* Of the records of an index there is a last one.
LEMMA LastRecord ==
  ASSUME NEW R, NEW records \in Seq(R), NEW i \in Indices(records)
  PROVE  \E k \in DOMAIN records : records[k].index = i /\ lastRecord(records, i) = records[k]
<1> DEFINE K == {k \in DOMAIN records : records[k].index = i}
<1>1. Len(records) \in Nat /\ DOMAIN records = 1 .. Len(records)
  OBVIOUS
<1>2. K # {} /\ K \in SUBSET (0 .. Len(records))
  BY <1>1 DEF Indices
<1> HIDE DEF K
<1>3. PICK k \in K : \A l \in K : l <= k
  BY <1>1, <1>2, LargestExists
<1>4. \A l \in K : l \in Nat
  BY <1>1, <1>2
<1>5. Max(K) \in K
  <2>1. \A l \in K : k >= l
    BY <1>3, <1>4
  <2>2. \E x \in K : \A y \in K : x >= y
    BY <2>1
  <2> QED
    BY <2>2 DEF Max
<1>6. lastRecord(records, i) = records[Max(K)]
  BY DEF lastRecord, K
<1> QED
  BY <1>5, <1>6 DEF K

\* Indices are bounded, and so finite in number.
LEMMA IndicesBounded ==
  ASSUME NEW records \in Seq(Records)
  PROVE  \E b \in Nat : Indices(records) \in SUBSET (0 .. b)
<1> DEFINE f == [j \in 1 .. Len(records) |-> records[j].index]
<1>1. Len(records) \in Nat /\ DOMAIN records = 1 .. Len(records)
  OBVIOUS
<1>2. \A j \in 1 .. Len(records) : records[j] \in Records
  OBVIOUS
<1>3. \A r \in Records : r.index \in Nat
  BY DEF Records
<1>4. \A j \in 1 .. Len(records) : f[j] \in Nat
  BY <1>2, <1>3
<1>5. PICK b \in Nat : \A j \in 1 .. Len(records) : f[j] <= b
  <2> HIDE DEF f
  <2> QED
    BY <1>1, <1>4, BoundExists
<1>6. Indices(records) \in SUBSET (0 .. b)
  BY <1>1, <1>4, <1>5 DEF Indices
<1> QED
  BY <1>6

LEMMA IndicesFinite ==
  ASSUME NEW records \in Seq(Records)
  PROVE  /\ IsFiniteSet(Indices(records)) /\ Cardinality(Indices(records)) \in Nat
         /\ Indices(records) \subseteq Nat
<1>1. PICK b \in Nat : Indices(records) \in SUBSET (0 .. b)
  BY IndicesBounded
<1>2. IsFiniteSet(0 .. b)
  BY FS_Interval
<1>3. IsFiniteSet(Indices(records))
  BY <1>1, <1>2, FS_Subset
<1> QED
  BY <1>1, <1>3, FS_CardinalityType

\* The k-th smallest index.
LEMMA NthIndex ==
  ASSUME NEW records \in Seq(Records), NEW k \in 1 .. Cardinality(Indices(records))
  PROVE  /\ nthIndex(records, k) \in Indices(records)
         /\ Cardinality(UpTo(Indices(records), nthIndex(records, k))) = k
<1> DEFINE I == Indices(records)
<1>1. PICK b \in Nat : I \in SUBSET (0 .. b)
  BY IndicesBounded
<1> HIDE DEF I
<1>2. k \in 1 .. Cardinality(I)
  BY DEF I
<1>3. \E i \in I : Cardinality(UpTo(I, i)) = k
  BY <1>1, <1>2, KthExists
<1>4. nthIndex(records, k) = CHOOSE i \in I : Cardinality(UpTo(I, i)) = k
  BY DEF nthIndex, UpTo, I
<1> QED
  BY <1>3, <1>4 DEF I

\* What the client is told it has sent.
LEMMA ReceivedType ==
  ASSUME NEW records \in Seq(Records)
  PROVE  /\ DOMAIN received(records) = Indices(records)
         /\ DOMAIN received(records) \subseteq Nat
         /\ Range(received(records)) \subseteq Chunks
         /\ \A i \in Indices(records) :
               \E k \in DOMAIN records : records[k].index = i /\ received(records)[i] = records[k].chunk
<1>1. DOMAIN received(records) = Indices(records)
  BY DEF received
<1>2. \A i \in Indices(records) :
         \E k \in DOMAIN records : records[k].index = i /\ received(records)[i] = records[k].chunk
  <2> TAKE i \in Indices(records)
  <2>1. PICK k \in DOMAIN records : records[k].index = i /\ lastRecord(records, i) = records[k]
    BY LastRecord
  <2> QED
    BY <2>1 DEF received
<1>3. \A k \in DOMAIN records : records[k].chunk \in Chunks
  <2>1. \A k \in DOMAIN records : records[k] \in Records
    OBVIOUS
  <2>2. \A r \in Records : r.chunk \in Chunks
    BY DEF Records
  <2> QED
    BY <2>1, <2>2
<1>4. Range(received(records)) \subseteq Chunks
  BY <1>1, <1>2, <1>3 DEF Range
<1> QED
  BY <1>1, <1>2, <1>4, IndicesFinite

\* A manifest has the type that its readers expect.
LEMMA ManifestType ==
  ASSUME NEW records \in Seq(Records)
  PROVE  buildManifest(records) \in References
<1> DEFINE I == Indices(records)
           n == Cardinality(I)
           O == Chunks \cup {Nothing}
<1>1. n \in Nat
  BY IndicesFinite
<1>2. \A k \in DOMAIN records : records[k] \in Records
  OBVIOUS
<1>3. \A i \in I : lastRecord(records, i) \in Records
  BY <1>2, LastRecord
<1>4. \A r \in Records : r.object \in O /\ r.size \in Nat /\ r.digest \in Seq(Chunks)
  BY DEF Records
<1>5. \A k \in 1 .. n : nthIndex(records, k) \in I
  BY NthIndex
<1> HIDE DEF I, n
<1>6. CASE n = 0
  BY <1>6 DEF buildManifest, References, n, I
<1>7. CASE n # 0
  <2> DEFINE ch == [k \in 1 .. n |-> lastRecord(records, nthIndex(records, k)).object]
             first == lastRecord(records, nthIndex(records, 1))
  <2>1. ch \in Seq(O)
    BY <1>1, <1>3, <1>4, <1>5
  <2>2. first.size \in Nat /\ first.digest \in Seq(Chunks)
    BY <1>1, <1>3, <1>4, <1>5, <1>7
  <2>3. buildManifest(records) = [chunks |-> ch, size |-> first.size, digest |-> first.digest]
    BY <1>7 DEF buildManifest, n, I
  <2> HIDE DEF ch, first
  <2> QED
    BY <2>1, <2>2, <2>3 DEF References
<1> QED
  BY <1>6, <1>7

\* Every form of the index file is read as records.
LEMMA IndexFilesType ==
  ASSUME NEW file \in IndexFiles, NEW r \in Records
  PROVE  /\ appendLine(file, r) \in IndexFiles
         /\ cutLines(file, r, Nothing) \subseteq IndexFiles
<1>1. /\ file.records \in Seq(Records) /\ file.end \in Ends
      /\ file = [records |-> file.records, end |-> file.end]
  BY DEF IndexFiles
<1>2. Unreadable \in IndexFiles
  BY DEF Unreadable, IndexFiles, Ends
<1>3. \A e \in Ends : [file EXCEPT !.end = e] \in IndexFiles
  BY <1>1 DEF IndexFiles
<1>4. \A q \in Records : Append(file.records, q) \in Seq(Records)
  BY <1>1
<1>5. [file EXCEPT !.records = Append(@, r)] \in IndexFiles
  BY <1>1, <1>4 DEF IndexFiles
<1>6. appendLine(file, r) \in IndexFiles
  BY <1>2, <1>3, <1>5 DEF appendLine, Ends
<1>7. \A o \in {r.object, Nothing} : [r EXCEPT !.object = o] \in Records
  BY DEF Records
<1>8. \A o \in {r.object, Nothing} :
         [records |-> Append(file.records, [r EXCEPT !.object = o]), end |-> "record"] \in IndexFiles
  BY <1>4, <1>7 DEF IndexFiles, Ends
<1>9. cutLines(file, r, Nothing) \subseteq IndexFiles
  BY <1>2, <1>8, Zenon DEF cutLines
<1> QED
  BY <1>6, <1>9

LEMMA CommitLinesType ==
  ASSUME NEW file \in IndexFiles
  PROVE  commitLine(file) \in IndexFiles /\ cutCommitLines(file) \subseteq IndexFiles
<1>1. Unreadable \in IndexFiles
  BY DEF Unreadable, IndexFiles, Ends
<1>2. \A e \in Ends : [file EXCEPT !.end = e] \in IndexFiles
  BY DEF IndexFiles
<1> QED
  BY <1>1, <1>2 DEF commitLine, cutCommitLines, Ends

-----------------------------------------------------------------------------
(***************************************************************************)
(* What the client sends.                                                  *)
(***************************************************************************)

\* The chunks that a client may send, and its commit.
Sendable(c) ==
    {putRequest(c, j) : j \in 1 .. Len(content[c])}
      \cup {[type |-> "commit", total |-> Len(content[c])]}

LEMMA ContentType ==
  ASSUME TypeOK, NEW c \in Clients
  PROVE  content[c] \in Seq(Chunks) /\ Len(content[c]) \in Nat
<1>1. content[c] \in Sources \cup {<<>>}
  BY DEF TypeOK
<1>2. content[c] \in Seq(Chunks)
  <2>1. <<>> \in Seq(Chunks)
    OBVIOUS
  <2> QED
    BY <1>1, <2>1, UploadAssumption DEF UploadAssumption
<1> QED
  BY <1>2

\* The first chunk that is missing.
LEMMA FirstMissing ==
  ASSUME TypeOK, NEW c \in Clients, NEW st, NEW i \in Nat \ {0}, Missing(c, st, i) # {}
  PROVE  /\ Min(Missing(c, st, i)) \in Missing(c, st, i)
         /\ Min(Missing(c, st, i)) \in i .. Len(content[c])
         /\ \A j \in Missing(c, st, i) : Min(Missing(c, st, i)) <= j
<1> DEFINE M == Missing(c, st, i)
<1>1. M \in SUBSET (i .. Len(content[c])) /\ M \in SUBSET Nat
  BY ContentType DEF Missing
<1> HIDE DEF M
<1>2. \E v \in M : \A w \in M : v <= w
  BY <1>1, LeastExists DEF M
<1>3. Min(M) \in M /\ \A w \in M : Min(M) <= w
  BY <1>2 DEF Min
<1> QED
  BY <1>1, <1>3 DEF M

LEMMA SendNext ==
  ASSUME TypeOK, NEW c \in Clients, NEW st, NEW i \in Nat \ {0}, sendNext(c, st, i)
  PROVE  /\ next' \in [Clients -> Nat]
         /\ \E q \in Sendable(c) : send(c, q)
<1>1. next \in [Clients -> Nat]
  BY DEF TypeOK
<1>2. CASE Missing(c, st, i) # {}
  <2> DEFINE j == Min(Missing(c, st, i))
  <2>1. j \in i .. Len(content[c])
    BY <1>2, FirstMissing
  <2>2. next' = [next EXCEPT ![c] = j] /\ send(c, putRequest(c, j))
    BY <1>2 DEF sendNext
  <2> HIDE DEF j
  <2>3. j \in 1 .. Len(content[c]) /\ j \in Nat
    BY <2>1, ContentType
  <2> QED
    BY <1>1, <2>2, <2>3 DEF Sendable
<1>3. CASE Missing(c, st, i) = {}
  BY <1>1, <1>3 DEF sendNext, Sendable
<1> QED
  BY <1>2, <1>3

LEMMA SendableType ==
  ASSUME TypeOK, NEW c \in Clients, NEW q \in Sendable(c)
  PROVE  \/ q.type = "put" /\ q.record \in PutRecords
         \/ q.type = "commit" /\ q.total \in Nat
<1>1. content[c] \in Seq(Chunks) /\ Len(content[c]) \in Nat
  BY ContentType
<1>2. ASSUME NEW j \in 1 .. Len(content[c])
      PROVE  putRequest(c, j).type = "put" /\ putRequest(c, j).record \in PutRecords
  <2>1. content[c][j] \in Chunks /\ j \in Nat \ {0}
    BY <1>1
  <2> QED
    BY <1>1, <2>1 DEF putRequest, prepared, PutRecords
<1> QED
  BY <1>1, <1>2 DEF Sendable

-----------------------------------------------------------------------------
(***************************************************************************)
(* Client, connection and worker in step.                                  *)
(***************************************************************************)

\* The functions that a step updates for a client.
LEMMA Functions ==
  ASSUME TypeOK, MessagesOK
  PROVE  /\ cpc \in [Clients -> {"idle", "hello", "query", "put", "commit"}]
         /\ conn \in [Clients -> {"none", "open", "eof"}]
         /\ wpc \in [Clients -> {"none", "queued", "read"} \cup PutSteps \cup CommitSteps]
         /\ DOMAIN request = Clients /\ DOMAIN reply = Clients
BY DEF TypeOK, MessagesOK

LEMMA ClientInStep ==
  ASSUME TypeOK, MessagesOK, InStep, NEW c \in Clients,
         StartUpload(c) \/ ClientStep(c) \/ ClientDies(c)
  PROVE  InStep'
<1> SUFFICES ASSUME NEW d \in Clients
             PROVE  InStepAt(d)'
  BY DEF InStep
<1>0. InStepAt(c) /\ InStepAt(d)
  BY DEF InStep
<1>1. /\ cpc \in [Clients -> {"idle", "hello", "query", "put", "commit"}]
      /\ conn \in [Clients -> {"none", "open", "eof"}]
      /\ wpc \in [Clients -> {"none", "queued", "read"} \cup PutSteps \cup CommitSteps]
      /\ DOMAIN request = Clients /\ DOMAIN reply = Clients
  BY Functions
<1>2. CASE d # c
  <2>1. /\ cpc'[d] = cpc[d] /\ conn'[d] = conn[d] /\ wpc'[d] = wpc[d]
        /\ request'[d] = request[d] /\ reply'[d] = reply[d]
    <3>1. CASE StartUpload(c)
      BY <1>1, <1>2, <3>1 DEF StartUpload, connect, accept
    <3>2. CASE GetHello(c)
      BY <1>1, <1>2, <3>2 DEF GetHello, GetReply, send, workVars, serverVars
    <3>3. CASE GetStatus(c)
      BY <1>1, <1>2, <3>3 DEF GetStatus, GetReply, sendNext, send, workVars, serverVars
    <3>4. CASE GetPutAck(c)
      BY <1>1, <1>2, <3>4 DEF GetPutAck, GetReply, sendNext, send, workVars, serverVars
    <3>5. CASE GetCommitAck(c)
      BY <1>1, <1>2, <3>5 DEF GetCommitAck, GetReply, leave, close, workVars, serverVars
    <3>6. CASE UploadFails(c)
      BY <1>1, <1>2, <3>6 DEF UploadFails, GetReply, leave, workVars, serverVars
    <3>7. CASE ClientDies(c)
      BY <1>1, <1>2, <3>7 DEF ClientDies, leave, close, workVars, serverVars
    <3> QED
      BY <3>1, <3>2, <3>3, <3>4, <3>5, <3>6, <3>7 DEF ClientStep
  <2> QED
    BY <1>0, <2>1 DEF InStepAt
<1>3. CASE d = c
  <2>1. CASE StartUpload(c)
    BY <1>0, <1>1, <1>3, <2>1
    DEF StartUpload, connect, accept, InStepAt, Answers, PutSteps, CommitSteps
  <2>2. CASE GetHello(c)
    BY <1>0, <1>1, <1>3, <2>2
    DEF GetHello, GetReply, send, workVars, serverVars, InStepAt, Answers, PutSteps, CommitSteps
  <2>3. CASE GetStatus(c) \/ GetPutAck(c)
    <3>1. PICK q \in Sendable(c) : send(c, q)
      <4>1. CASE GetStatus(c)
        BY <4>1, SendNext DEF GetStatus
      <4>2. CASE GetPutAck(c)
        <5>1. next[c] + 1 \in Nat \ {0}
          BY DEF TypeOK
        <5> QED
          BY <4>2, <5>1, SendNext DEF GetPutAck
      <4> QED
        BY <2>3, <4>1, <4>2
    <3>2. q.type \in {"put", "commit"}
      BY SendableType
    <3>3. /\ cpc[c] # "idle" /\ reply[c] # Nothing /\ reply[c].type \in {"status", "putAck"}
          /\ reply' = [reply EXCEPT ![c] = Nothing]
          /\ UNCHANGED <<conn, wpc>>
      BY <2>3 DEF GetStatus, GetPutAck, GetReply, workVars
    <3> QED
      BY <1>0, <1>1, <1>3, <3>1, <3>2, <3>3
      DEF send, InStepAt, Answers, PutSteps, CommitSteps
  <2>4. CASE GetCommitAck(c)
    BY <1>0, <1>1, <1>3, <2>4
    DEF GetCommitAck, GetReply, leave, close, workVars, serverVars, InStepAt, Answers, PutSteps, CommitSteps
  <2>5. CASE UploadFails(c)
    <3>1. cpc'[c] = "idle" /\ reply'[c] = Nothing /\ conn[c] = "none"
      BY <1>0, <1>1, <2>5 DEF UploadFails, GetReply, leave, InStepAt
    <3>2. conn'[c] = conn[c] /\ request'[c] = request[c] /\ wpc'[c] = wpc[c]
      BY <2>5 DEF UploadFails, workVars
    <3>3. wpc[c] = "none" /\ request[c] = Nothing
      BY <1>0, <3>1 DEF InStepAt
    <3> QED
      BY <1>3, <3>1, <3>2, <3>3 DEF InStepAt, PutSteps, CommitSteps
  <2>6. CASE ClientDies(c)
    BY <1>0, <1>1, <1>3, <2>6
    DEF ClientDies, leave, close, workVars, serverVars, InStepAt, Answers, PutSteps, CommitSteps
  <2> QED
    BY <2>1, <2>2, <2>3, <2>4, <2>5, <2>6 DEF ClientStep
<1> QED
  BY <1>2, <1>3

LEMMA WorkerInStep ==
  ASSUME TypeOK, MessagesOK, InStep, NEW c \in Clients, Worker(c)
  PROVE  InStep'
<1> SUFFICES ASSUME NEW d \in Clients
             PROVE  InStepAt(d)'
  BY DEF InStep
<1>0. InStepAt(c) /\ InStepAt(d)
  BY DEF InStep
<1>1. /\ cpc \in [Clients -> {"idle", "hello", "query", "put", "commit"}]
      /\ conn \in [Clients -> {"none", "open", "eof"}]
      /\ wpc \in [Clients -> {"none", "queued", "read"} \cup PutSteps \cup CommitSteps]
      /\ DOMAIN request = Clients /\ DOMAIN reply = Clients
  BY Functions
\* A call that goes on to another of the same handler.
<1>2. ASSUME NEW l, goto(c, l), UNCHANGED <<cpc, conn, request, reply>>,
             \/ wpc[c] \in PutSteps /\ l \in PutSteps
             \/ wpc[c] \in CommitSteps /\ l \in CommitSteps
             \/ Receive(c, "put") /\ l \in PutSteps
             \/ Receive(c, "commit") /\ l \in CommitSteps
      PROVE  InStepAt(d)'
  BY <1>0, <1>1, <1>2 DEF goto, Receive, InStepAt, PutSteps, CommitSteps
\* The end of a handler, with its answer or an error.
<1>3. ASSUME NEW r, answer(c, r), UNCHANGED <<cpc, conn>>,
             request[c] # Nothing, wpc[c] # "none", Answers(r.type, request[c].type), r.type # "error"
      PROVE  InStepAt(d)'
  BY <1>0, <1>1, <1>3 DEF answer, respond, goto, InStepAt, Answers, PutSteps, CommitSteps
<1>4. ASSUME fail(c), UNCHANGED cpc, wpc[c] # "none"
      PROVE  InStepAt(d)'
  BY <1>0, <1>1, <1>4 DEF fail, respond, goto, InStepAt, Answers, PutSteps, CommitSteps
<1>5. /\ wpc[c] \in PutSteps => request[c] # Nothing /\ request[c].type = "put"
      /\ wpc[c] \in CommitSteps => request[c] # Nothing /\ request[c].type = "commit"
  BY <1>0 DEF InStepAt
<1>6. CASE HandleHello(c)
  BY <1>3, <1>6 DEF HandleHello, Receive, Answers, clientVars
<1>7. CASE HandleQuery(c)
  BY <1>3, <1>4, <1>7 DEF HandleQuery, Receive, Answers, clientVars
<1>8. CASE HandlePut(c)
  BY <1>2, <1>8 DEF HandlePut, Receive, clientVars, PutSteps
<1>9. CASE StoreChunk(c)
  BY <1>2, <1>9 DEF StoreChunk, clientVars, PutSteps
<1>10. CASE CheckIndex(c)
  BY <1>2, <1>3, <1>4, <1>5, <1>10 DEF CheckIndex, clientVars, PutSteps, Answers
<1>11. CASE AppendIndex(c)
  BY <1>3, <1>5, <1>11 DEF AppendIndex, clientVars, PutSteps, Answers
<1>12. CASE HandleCommit(c)
  BY <1>2, <1>12 DEF HandleCommit, Receive, clientVars, CommitSteps
<1>13. CASE LogBegin(c) \/ LogWrite(c) \/ LogRename(c) \/ LogCommit(c)
  BY <1>2, <1>13 DEF LogBegin, LogWrite, LogRename, LogCommit, Log, clientVars, CommitSteps
<1>14. CASE BuildManifest(c)
  BY <1>2, <1>4, <1>14 DEF BuildManifest, clientVars, CommitSteps
<1>15. CASE WriteTmp(c) \/ Mark(c) \/ ListVersions(c) \/ WriteCheckpoint(c)
  BY <1>2, <1>15 DEF WriteTmp, Mark, ListVersions, WriteCheckpoint, clientVars, CommitSteps, repoVars
<1>16. CASE Rename(c)
  BY <1>2, <1>4, <1>16 DEF Rename, clientVars, CommitSteps
<1>17. CASE MarkCommitted(c) \/ MarkCommittedCut(c)
  BY <1>3, <1>5, <1>17 DEF MarkCommitted, MarkCommittedCut, clientVars, CommitSteps, Answers
<1>18. CASE ReadEnd(c)
  BY <1>0, <1>1, <1>18 DEF ReadEnd, goto, clientVars, InStepAt, Answers, PutSteps, CommitSteps
<1>19. CASE AppendCut(c) \/ WriteFails(c)
  BY <1>4, <1>19 DEF AppendCut, WriteFails, clientVars
<1> QED
  BY <1>6, <1>7, <1>8, <1>9, <1>10, <1>11, <1>12, <1>13, <1>14, <1>15, <1>16, <1>17, <1>18, <1>19 DEF Worker

\* The head of the queue waits; its worker takes it.
LEMMA HeadWaits ==
  ASSUME TypeOK, QueueOK, queue # <<>>
  PROVE  /\ Head(queue) \in Clients /\ Head(queue) = queue[1] /\ wpc[Head(queue)] = "queued"
         /\ Tail(queue) \in Seq(Clients) /\ Len(Tail(queue)) = Len(queue) - 1
         /\ \A i \in 1 .. Len(Tail(queue)) : Tail(queue)[i] = queue[i + 1]
         /\ Len(queue) \in Nat \ {0}
<1>1. queue \in Seq(Clients) /\ Len(queue) \in Nat \ {0}
  BY DEF TypeOK
<1>2. wpc[queue[1]] = "queued"
  BY <1>1 DEF QueueOK
<1> QED
  BY <1>1, <1>2, HeadTailProperties

LEMMA NextInStep ==
  ASSUME TypeOK, MessagesOK, InStep, QueueOK, [Next]_vars
  PROVE  InStep'
<1>1. ASSUME NEW c \in Clients, StartUpload(c) \/ ClientStep(c) \/ ClientDies(c) \/ Worker(c)
      PROVE  InStep'
  BY <1>1, ClientInStep, WorkerInStep
<1>2. CASE ServeNext
  <2>1. /\ Head(queue) \in Clients /\ wpc[Head(queue)] = "queued"
    BY <1>2, HeadWaits DEF ServeNext
  <2>2. wpc' = [wpc EXCEPT ![Head(queue)] = "read"] /\ UNCHANGED <<cpc, conn, request, reply>>
    BY <1>2 DEF ServeNext, goto, clientVars
  <2>3. wpc \in [Clients -> {"none", "queued", "read"} \cup PutSteps \cup CommitSteps]
    BY Functions
  <2> QED
    BY <2>1, <2>2, <2>3 DEF InStep, InStepAt, PutSteps, CommitSteps
<1>3. CASE ServerDies
  <2>1. /\ wpc' = [c \in Clients |-> "none"] /\ conn' = [c \in Clients |-> "none"]
        /\ request' = [c \in Clients |-> Nothing]
        /\ reply' \in {reply, [c \in Clients |-> Nothing]}
        /\ UNCHANGED cpc
    BY <1>3 DEF ServerDies, clientVars
  <2> QED
    BY <2>1 DEF InStep, InStepAt, PutSteps, CommitSteps
<1>4. CASE Restart \/ UNCHANGED vars
  <2>1. UNCHANGED <<wpc, conn, request, reply, cpc>>
    BY <1>4 DEF Restart, vars, clientVars, workVars
  <2> QED
    BY <2>1 DEF InStep, InStepAt
<1> QED
  BY <1>1, <1>2, <1>3, <1>4 DEF Next

\* A worker never has a connection that waits.
LEMMA WorkerServes ==
  ASSUME TypeOK, MessagesOK, InStep, NEW c \in Clients, Worker(c)
  PROVE  /\ wpc[c] \in {"read"} \cup PutSteps \cup CommitSteps
         /\ \A d \in Clients \ {c} : wpc'[d] = wpc[d]
         /\ UNCHANGED <<queue, workers>>
         /\ wpc'[c] # "queued"
<1>1. wpc \in [Clients -> {"none", "queued", "read"} \cup PutSteps \cup CommitSteps]
  BY Functions
<1>2. ASSUME NEW l, goto(c, l)
      PROVE  (\A d \in Clients \ {c} : wpc'[d] = wpc[d]) /\ wpc'[c] = l
  BY <1>1, <1>2 DEF goto
<1>3. ASSUME NEW r, answer(c, r) \/ fail(c)
      PROVE  (\A d \in Clients \ {c} : wpc'[d] = wpc[d]) /\ wpc'[c] # "queued"
  BY <1>2, <1>3 DEF answer, fail
<1>4. UNCHANGED <<queue, workers>>
  BY DEF Worker, HandleHello, HandleQuery, HandlePut, StoreChunk, CheckIndex, AppendIndex, HandleCommit,
         LogBegin, BuildManifest, WriteTmp, LogWrite, Rename, LogRename, Mark, LogCommit, Log,
         ListVersions, WriteCheckpoint, MarkCommitted, ReadEnd, AppendCut, MarkCommittedCut,
         WriteFails, serverVars
<1>5. CASE HandleHello(c) \/ HandleQuery(c)
  BY <1>3, <1>4, <1>5 DEF HandleHello, HandleQuery, Receive
<1>6. CASE HandlePut(c) \/ HandleCommit(c)
  BY <1>2, <1>4, <1>6 DEF HandlePut, HandleCommit, Receive
<1>7. CASE StoreChunk(c) \/ WriteTmp(c) \/ Mark(c) \/ ListVersions(c) \/ WriteCheckpoint(c) \/ ReadEnd(c)
  BY <1>2, <1>4, <1>7 DEF StoreChunk, WriteTmp, Mark, ListVersions, WriteCheckpoint, ReadEnd, PutSteps, CommitSteps
<1>8. CASE CheckIndex(c) \/ AppendIndex(c) \/ AppendCut(c)
  BY <1>2, <1>3, <1>4, <1>8 DEF CheckIndex, AppendIndex, AppendCut, PutSteps
<1>9. CASE LogBegin(c) \/ LogWrite(c) \/ LogRename(c) \/ LogCommit(c)
  BY <1>2, <1>4, <1>9 DEF LogBegin, LogWrite, LogRename, LogCommit, Log, CommitSteps
<1>10. CASE BuildManifest(c) \/ Rename(c) \/ MarkCommitted(c) \/ MarkCommittedCut(c)
  BY <1>2, <1>3, <1>4, <1>10 DEF BuildManifest, Rename, MarkCommitted, MarkCommittedCut, CommitSteps
<1>11. CASE WriteFails(c)
  BY <1>3, <1>4, <1>11 DEF WriteFails, PutSteps, CommitSteps
<1> QED
  BY <1>5, <1>6, <1>7, <1>8, <1>9, <1>10, <1>11 DEF Worker

LEMMA NextQueue ==
  ASSUME TypeOK, MessagesOK, InStep, QueueOK, [Next]_vars
  PROVE  QueueOK'
<1>1. /\ wpc \in [Clients -> {"none", "queued", "read"} \cup PutSteps \cup CommitSteps]
      /\ queue \in Seq(Clients) /\ Len(queue) \in Nat
      /\ \A i \in 1 .. Len(queue) : queue[i] \in Clients
  BY Functions DEF TypeOK
<1>2. ASSUME NEW c \in Clients, StartUpload(c)
      PROVE  QueueOK'
  <2>1. /\ wpc[c] = "none" /\ wpc' = [wpc EXCEPT ![c] = "queued"] /\ queue' = Append(queue, c)
    BY <1>2 DEF StartUpload, accept
  <2>2. \A i \in 1 .. Len(queue) : queue[i] # c
    BY <1>1, <2>1 DEF QueueOK
  <2>3. /\ Len(queue') = Len(queue) + 1 /\ queue'[Len(queue) + 1] = c
        /\ \A i \in 1 .. Len(queue) : queue'[i] = queue[i]
    BY <1>1, <2>1
  <2> QED
    BY <1>1, <2>1, <2>2, <2>3 DEF QueueOK
<1>3. ASSUME NEW c \in Clients, ClientStep(c) \/ ClientDies(c)
      PROVE  QueueOK'
  <2>1. UNCHANGED <<queue, wpc>>
    BY <1>3 DEF ClientStep, GetHello, GetStatus, GetPutAck, GetCommitAck, UploadFails, ClientDies, serverVars, workVars
  <2> QED
    BY <2>1 DEF QueueOK
<1>4. ASSUME NEW c \in Clients, Worker(c)
      PROVE  QueueOK'
  <2>1. wpc[c] # "queued" /\ queue' = queue /\ \A d \in Clients \ {c} : wpc'[d] = wpc[d]
    BY <1>4, WorkerServes DEF PutSteps, CommitSteps
  <2> QED
    BY <1>1, <2>1 DEF QueueOK
<1>5. CASE ServeNext
  <2>1. /\ Head(queue) \in Clients /\ Head(queue) = queue[1]
        /\ Len(Tail(queue)) = Len(queue) - 1
        /\ \A i \in 1 .. Len(Tail(queue)) : Tail(queue)[i] = queue[i + 1]
        /\ Len(queue) \in Nat \ {0}
    BY <1>5, HeadWaits DEF ServeNext
  <2>2. queue' = Tail(queue) /\ wpc' = [wpc EXCEPT ![Head(queue)] = "read"]
    BY <1>5 DEF ServeNext, goto
  <2>3. \A i \in 1 .. Len(Tail(queue)) : /\ i + 1 \in 1 .. Len(queue) /\ i + 1 # 1
                                        /\ queue[i + 1] \in Clients /\ queue[i + 1] # queue[1]
    BY <1>1, <2>1 DEF QueueOK
  <2> QED
    BY <1>1, <2>1, <2>2, <2>3 DEF QueueOK
<1>6. CASE ServerDies
  BY <1>6 DEF ServerDies, QueueOK
<1>7. CASE Restart \/ UNCHANGED vars
  <2>1. UNCHANGED <<queue, wpc>>
    BY <1>7 DEF Restart, vars, serverVars, workVars
  <2> QED
    BY <2>1 DEF QueueOK
<1> QED
  BY <1>2, <1>3, <1>4, <1>5, <1>6, <1>7 DEF Next

-----------------------------------------------------------------------------
(***************************************************************************)
(* There is a version for every upload that may still commit one.          *)
(***************************************************************************)

\* A worker lets no other upload come to a commit, and its own is past it when
\* the marker is there.
LEMMA WorkerMayMark ==
  ASSUME TypeOK, MessagesOK, InStep, NEW c \in Clients, Worker(c)
  PROVE  /\ MayMark' \subseteq MayMark
         /\ Mark(c) => c \in MayMark /\ c \notin MayMark'
         /\ UNCHANGED cpc
<1>1. /\ cpc \in [Clients -> {"idle", "hello", "query", "put", "commit"}]
      /\ wpc \in [Clients -> {"none", "queued", "read"} \cup PutSteps \cup CommitSteps]
      /\ DOMAIN request = Clients /\ DOMAIN reply = Clients
  BY Functions
<1>2. /\ wpc[c] \in CommitSteps => request[c] # Nothing /\ request[c].type = "commit"
      /\ cpc[c] # "idle" /\ request[c] # Nothing => request[c].type = cpc[c]
  BY DEF InStep, InStepAt
<1>3. UNCHANGED cpc
  BY DEF Worker, HandleHello, HandleQuery, HandlePut, StoreChunk, CheckIndex, AppendIndex, HandleCommit,
         LogBegin, BuildManifest, WriteTmp, LogWrite, Rename, LogRename, Mark, LogCommit, Log,
         ListVersions, WriteCheckpoint, MarkCommitted, ReadEnd, AppendCut, MarkCommittedCut,
         WriteFails, clientVars
<1>4. ASSUME NEW l, goto(c, l), UNCHANGED request, l # "read",
             l \in BeforeMark => wpc[c] \in BeforeMark \/ Receive(c, "commit")
      PROVE  MayMark' \subseteq MayMark
  BY <1>1, <1>3, <1>4 DEF goto, MayMark, BeforeMark, Receive
<1>5. ASSUME NEW r, answer(c, r) \/ fail(c)
      PROVE  MayMark' \subseteq MayMark
  BY <1>1, <1>3, <1>5 DEF answer, fail, goto, MayMark, BeforeMark
<1>6. CASE HandleHello(c) \/ HandleQuery(c)
  BY <1>3, <1>5, <1>6 DEF HandleHello, HandleQuery, Mark, Receive
<1>7. CASE HandlePut(c) \/ StoreChunk(c) \/ LogCommit(c) \/ ListVersions(c) \/ WriteCheckpoint(c)
  BY <1>3, <1>4, <1>7 DEF HandlePut, StoreChunk, LogCommit, ListVersions, WriteCheckpoint, Log, Mark, Receive, BeforeMark
<1>8. CASE HandleCommit(c)
  BY <1>3, <1>4, <1>8 DEF HandleCommit, Mark, Receive, BeforeMark
<1>9. CASE LogBegin(c) \/ WriteTmp(c) \/ LogWrite(c) \/ LogRename(c)
  BY <1>3, <1>4, <1>9 DEF LogBegin, WriteTmp, LogWrite, LogRename, Log, Mark, BeforeMark
<1>10. CASE CheckIndex(c)
  BY <1>3, <1>4, <1>5, <1>10 DEF CheckIndex, Mark, BeforeMark
<1>11. CASE AppendIndex(c) \/ AppendCut(c) \/ MarkCommitted(c) \/ MarkCommittedCut(c)
  BY <1>3, <1>5, <1>11 DEF AppendIndex, AppendCut, MarkCommitted, MarkCommittedCut, Mark
<1>12. CASE BuildManifest(c) \/ Rename(c)
  BY <1>3, <1>4, <1>5, <1>12 DEF BuildManifest, Rename, Mark, BeforeMark
<1>13. CASE Mark(c)
  <2>1. wpc[c] = "mark" /\ goto(c, "logCommit") /\ UNCHANGED request
    BY <1>13 DEF Mark
  <2>2. MayMark' \subseteq MayMark
    BY <1>4, <2>1 DEF BeforeMark
  <2>3. c \in MayMark
    BY <2>1 DEF MayMark, BeforeMark
  <2>4. cpc[c] \in {"idle", "commit"}
    BY <1>1, <1>2, <2>1 DEF CommitSteps
  <2>5. wpc'[c] = "logCommit" /\ cpc'[c] \in {"idle", "commit"}
    BY <1>1, <1>3, <2>1, <2>4 DEF goto
  <2> QED
    BY <1>3, <2>2, <2>3, <2>5 DEF MayMark, BeforeMark
<1>14. CASE ReadEnd(c)
  BY <1>3, <1>4, <1>14 DEF ReadEnd, Mark, BeforeMark
<1>15. CASE WriteFails(c)
  <2>1. MayMark' \subseteq MayMark
    BY <1>5, <1>15 DEF WriteFails
  <2>2. wpc'[c] = "none"
    BY <1>1, <1>15 DEF WriteFails, fail, goto
  <2>3. ~ Mark(c)
    BY <1>1, <2>2 DEF Mark, goto
  <2> QED
    BY <1>3, <2>1, <2>3
<1> QED
  BY <1>6, <1>7, <1>8, <1>9, <1>10, <1>11, <1>12, <1>13, <1>14, <1>15 DEF Worker

\* A client's own step brings no upload to a commit; only a new upload may.
LEMMA ClientMayMark ==
  ASSUME TypeOK, MessagesOK, InStep, NEW c \in Clients
  PROVE  /\ StartUpload(c) => MayMark' \subseteq MayMark \cup {c} /\ MayMark \subseteq Active
         /\ ClientStep(c) \/ ClientDies(c) => MayMark' \subseteq MayMark
<1>1. /\ cpc \in [Clients -> {"idle", "hello", "query", "put", "commit"}]
      /\ wpc \in [Clients -> {"none", "queued", "read"} \cup PutSteps \cup CommitSteps]
      /\ DOMAIN request = Clients /\ DOMAIN reply = Clients
  BY Functions
<1>2. reply[c] # Nothing => Answers(reply[c].type, cpc[c])
  BY DEF InStep, InStepAt
<1>3. ASSUME StartUpload(c)
      PROVE  MayMark' \subseteq MayMark \cup {c} /\ MayMark \subseteq Active
  <2>1. \A d \in Clients \ {c} : cpc'[d] = cpc[d] /\ wpc'[d] = wpc[d] /\ request'[d] = request[d]
    BY <1>1, <1>3 DEF StartUpload, accept
  <2>2. MayMark' \subseteq MayMark \cup {c}
    BY <2>1 DEF MayMark
  <2>3. MayMark \subseteq Active
    BY DEF MayMark, Active, BeforeMark
  <2> QED
    BY <2>2, <2>3
<1>4. ASSUME NEW r, send(c, r), r.type \in {"query", "put", "commit"}, UNCHANGED wpc,
             cpc[c] \in {"hello", "query", "put"}
      PROVE  MayMark' \subseteq MayMark
  BY <1>1, <1>4 DEF send, MayMark
<1>5. ASSUME GetHello(c)
      PROVE  MayMark' \subseteq MayMark
  <2>1. cpc[c] = "hello"
    BY <1>2, <1>5 DEF GetHello, GetReply, Answers
  <2> QED
    BY <1>4, <1>5, <2>1 DEF GetHello, workVars
<1>6. ASSUME GetStatus(c) \/ GetPutAck(c)
      PROVE  MayMark' \subseteq MayMark
  <2>1. PICK q \in Sendable(c) : send(c, q)
    <3>1. next[c] + 1 \in Nat \ {0}
      BY DEF TypeOK
    <3> QED
      BY <1>6, <3>1, SendNext DEF GetStatus, GetPutAck
  <2>2. q.type \in {"put", "commit"}
    BY SendableType
  <2>3. cpc[c] \in {"query", "put"}
    BY <1>2, <1>6 DEF GetStatus, GetPutAck, GetReply, Answers
  <2>4. UNCHANGED wpc
    BY <1>6 DEF GetStatus, GetPutAck, workVars
  <2> QED
    BY <1>4, <2>1, <2>2, <2>3, <2>4
<1>7. ASSUME GetCommitAck(c) \/ UploadFails(c) \/ ClientDies(c)
      PROVE  MayMark' \subseteq MayMark
  <2>1. cpc' = [cpc EXCEPT ![c] = "idle"] /\ UNCHANGED <<wpc, request>>
    BY <1>7 DEF GetCommitAck, UploadFails, ClientDies, leave, workVars
  <2> QED
    BY <1>1, <2>1 DEF MayMark
<1> QED
  BY <1>3, <1>5, <1>6, <1>7 DEF ClientStep

\* What there is to count.
LEMMA Counts ==
  ASSUME TypeOK
  PROVE  /\ nextVersion = After(listCommittedVersions)
         /\ listCommittedVersions \in SUBSET Versions
         /\ nextVersion \in Nat \ {0}
         /\ IsFiniteSet(MayMark) /\ Cardinality(MayMark) \in Nat
         /\ \A S \in SUBSET MayMark : IsFiniteSet(S) /\ Cardinality(S) \in Nat
                                     /\ Cardinality(S) <= Cardinality(MayMark)
         /\ \A c \in MayMark : Cardinality(MayMark \ {c}) = Cardinality(MayMark) - 1
         /\ MaxVersion \in Nat
<1>1. nextVersion = After(listCommittedVersions)
  BY DEF nextVersion, After
<1>2. listCommittedVersions \in SUBSET Versions
  BY DEF listCommittedVersions, TypeOK
<1>3. nextVersion \in Nat \ {0}
  BY <1>1, <1>2, AfterLatest
<1>4. IsFiniteSet(MayMark)
  <2>1. MayMark \in SUBSET Clients /\ IsFiniteSet(Clients)
    BY UploadAssumption DEF UploadAssumption, MayMark
  <2> QED
    BY <2>1, FS_Subset
<1>5. Cardinality(MayMark) \in Nat
  BY <1>4, FS_CardinalityType
<1>6. \A S \in SUBSET MayMark : IsFiniteSet(S) /\ Cardinality(S) <= Cardinality(MayMark)
  BY <1>4, FS_Subset
<1>7. \A S \in SUBSET MayMark : Cardinality(S) \in Nat
  BY <1>6, FS_CardinalityType
<1>8. \A c \in MayMark : Cardinality(MayMark \ {c}) = Cardinality(MayMark) - 1
  BY <1>4, FS_RemoveElement
<1>9. MaxVersion \in Nat
  BY RepositoryAssumption DEF RepositoryAssumption
<1> QED
  BY <1>1, <1>2, <1>3, <1>4, <1>5, <1>6, <1>7, <1>8, <1>9

\* An upload that may mark a version finds a number for it.
LEMMA RoomLeft ==
  ASSUME TypeOK, VersionOK, NEW c \in MayMark
  PROVE  nextVersion \in Versions
<1>1. Cardinality(MayMark \ {c}) \in Nat
  BY Counts
<1>2. Cardinality(MayMark) >= 1 /\ Cardinality(MayMark) \in Nat
  BY <1>1, Counts
<1> QED
  BY <1>2, Counts DEF VersionOK, Versions

\* A commit keeps its version.
LEMMA VersionKept ==
  ASSUME TypeOK, MessagesOK, [Next]_vars, NEW d \in Clients, wpc'[d] \in CommitSteps
  PROVE  \/ wpc[d] \in CommitSteps /\ version'[d] = version[d]
         \/ HandleCommit(d) /\ version'[d] = nextVersion
<1>1. /\ wpc \in [Clients -> {"none", "queued", "read"} \cup PutSteps \cup CommitSteps]
      /\ version \in [Clients -> Versions \cup {0}]
      /\ "none" \notin CommitSteps /\ "read" \notin CommitSteps /\ "queued" \notin CommitSteps
      /\ PutSteps \cap CommitSteps = {}
  BY DEF TypeOK, PutSteps, CommitSteps
<1>2. ASSUME NEW c \in Clients, NEW l, goto(c, l), UNCHANGED version,
             l \in CommitSteps => wpc[c] \in CommitSteps
      PROVE  wpc[d] \in CommitSteps /\ version'[d] = version[d]
  BY <1>1, <1>2 DEF goto
<1>3. ASSUME NEW c \in Clients, NEW r, answer(c, r) \/ fail(c)
      PROVE  wpc[d] \in CommitSteps /\ version'[d] = version[d]
  <2>1. d # c /\ wpc'[d] = wpc[d] /\ version'[d] = version[d]
    BY <1>1, <1>3 DEF answer, fail, respond, goto
  <2> QED
    BY <2>1
<1>4. ASSUME NEW c \in Clients, StartUpload(c) \/ ClientStep(c) \/ ClientDies(c)
      PROVE  wpc[d] \in CommitSteps /\ version'[d] = version[d]
  <2>1. CASE StartUpload(c)
    BY <1>1, <2>1 DEF StartUpload, accept
  <2>2. CASE ClientStep(c) \/ ClientDies(c)
    <3>1. UNCHANGED <<wpc, version>>
      BY <2>2 DEF ClientStep, GetHello, GetStatus, GetPutAck, GetCommitAck, UploadFails, ClientDies, workVars
    <3> QED
      BY <3>1
  <2> QED
    BY <1>4, <2>1, <2>2
<1>5. ASSUME NEW c \in Clients, Worker(c)
      PROVE  \/ wpc[d] \in CommitSteps /\ version'[d] = version[d]
             \/ HandleCommit(d) /\ version'[d] = nextVersion
  <2>1. CASE HandleHello(c) \/ HandleQuery(c)
    BY <1>3, <2>1 DEF HandleHello, HandleQuery
  <2>2. CASE HandlePut(c) \/ StoreChunk(c) \/ ReadEnd(c)
    BY <1>1, <1>2, <2>2 DEF HandlePut, StoreChunk, ReadEnd, CommitSteps
  <2>3. CASE CheckIndex(c)
    BY <1>1, <1>2, <1>3, <2>3 DEF CheckIndex, CommitSteps
  <2>4. CASE AppendIndex(c) \/ AppendCut(c) \/ MarkCommitted(c) \/ MarkCommittedCut(c) \/ WriteFails(c)
    BY <1>3, <2>4 DEF AppendIndex, AppendCut, MarkCommitted, MarkCommittedCut, WriteFails
  <2>5. CASE HandleCommit(c)
    BY <1>1, <2>5 DEF HandleCommit, goto
  <2>6. CASE LogBegin(c) \/ LogWrite(c) \/ LogRename(c) \/ LogCommit(c)
    BY <1>2, <2>6 DEF LogBegin, LogWrite, LogRename, LogCommit, Log, CommitSteps
  <2>7. CASE WriteTmp(c) \/ Mark(c) \/ ListVersions(c) \/ WriteCheckpoint(c)
    BY <1>2, <2>7 DEF WriteTmp, Mark, ListVersions, WriteCheckpoint, CommitSteps
  <2>8. CASE BuildManifest(c) \/ Rename(c)
    BY <1>2, <1>3, <2>8 DEF BuildManifest, Rename, CommitSteps
  <2> QED
    BY <1>5, <2>1, <2>2, <2>3, <2>4, <2>5, <2>6, <2>7, <2>8 DEF Worker
<1>6. CASE ServeNext
  <2>1. UNCHANGED version /\ wpc' = [wpc EXCEPT ![Head(queue)] = "read"]
    BY <1>6 DEF ServeNext, goto
  <2> QED
    BY <1>1, <2>1
<1>7. CASE ServerDies
  BY <1>1, <1>7 DEF ServerDies
<1>8. CASE Restart \/ UNCHANGED vars
  BY <1>8 DEF Restart, vars, workVars
<1> QED
  BY <1>4, <1>5, <1>6, <1>7, <1>8 DEF Next

\* Only Mark adds a marker.
LEMMA MarkersKept ==
  ASSUME [Next]_vars, \A c \in Clients : ~ Mark(c)
  PROVE  UNCHANGED markers
<1>1. ASSUME NEW c \in Clients, StartUpload(c) \/ ClientStep(c) \/ ClientDies(c)
      PROVE  UNCHANGED markers
  BY <1>1 DEF StartUpload, ClientStep, GetHello, GetStatus, GetPutAck, GetCommitAck, UploadFails, ClientDies, repoVars
<1>2. ASSUME NEW c \in Clients, Worker(c)
      PROVE  UNCHANGED markers
  BY <1>2 DEF Worker, HandleHello, HandleQuery, HandlePut, StoreChunk, CheckIndex, AppendIndex, HandleCommit,
         LogBegin, BuildManifest, WriteTmp, LogWrite, Rename, LogRename, LogCommit, Log,
         ListVersions, WriteCheckpoint, MarkCommitted, ReadEnd, AppendCut, MarkCommittedCut,
         WriteFails, repoVars
<1>3. CASE ServeNext \/ ServerDies \/ Restart \/ UNCHANGED vars
  BY <1>3 DEF ServeNext, ServerDies, Restart, vars, repoVars
<1> QED
  BY <1>1, <1>2, <1>3 DEF Next

LEMMA NextVersionOK ==
  ASSUME TypeOK, MessagesOK, InStep, QueueOK, VersionOK, [Next]_vars
  PROVE  /\ VersionOK'
         /\ markers' \subseteq Versions /\ markers \subseteq markers'
<1>0. /\ nextVersion \in Nat \ {0} /\ MaxVersion \in Nat
      /\ IsFiniteSet(MayMark) /\ Cardinality(MayMark) \in Nat
      /\ nextVersion + Cardinality(MayMark) <= MaxVersion + 1
      /\ markers \subseteq Versions
  BY Counts DEF VersionOK, TypeOK
\* The versions of the commits under way.
<1>1. ASSUME nextVersion' \in Nat \ {0}, nextVersion <= nextVersion'
      PROVE  \A c \in Clients : wpc'[c] \in CommitSteps => version'[c] \in 1 .. nextVersion'
  <2> SUFFICES ASSUME NEW c \in Clients, wpc'[c] \in CommitSteps
               PROVE  version'[c] \in 1 .. nextVersion'
    OBVIOUS
  <2>1. CASE wpc[c] \in CommitSteps /\ version'[c] = version[c]
    BY <1>0, <1>1, <2>1 DEF VersionOK
  <2>2. CASE version'[c] = nextVersion
    BY <1>0, <1>1, <2>2
  <2> QED
    BY <2>1, <2>2, VersionKept
\* A step without a marker.
<1>2. ASSUME UNCHANGED markers, MayMark' \subseteq MayMark
      PROVE  VersionOK' /\ markers' \subseteq Versions /\ markers \subseteq markers'
  <2>1. nextVersion' = nextVersion
    BY <1>2 DEF nextVersion, listCommittedVersions
  <2>2. Cardinality(MayMark') \in Nat /\ Cardinality(MayMark') <= Cardinality(MayMark)
    BY <1>2, Counts
  <2>3. nextVersion' + Cardinality(MayMark') <= MaxVersion + 1
    BY <1>0, <2>1, <2>2
  <2>4. \A c \in Clients : wpc'[c] \in CommitSteps => version'[c] \in 1 .. nextVersion'
    BY <1>0, <1>1, <2>1
  <2> QED
    BY <1>0, <1>2, <2>3, <2>4 DEF VersionOK
<1>3. ASSUME NEW c \in Clients, StartUpload(c)
      PROVE  VersionOK' /\ markers' \subseteq Versions /\ markers \subseteq markers'
  <2>1. UNCHANGED markers /\ nextVersion + Cardinality(Active) <= MaxVersion
    BY <1>3 DEF StartUpload, repoVars
  <2>2. nextVersion' = nextVersion
    BY <2>1 DEF nextVersion, listCommittedVersions
  <2>3. MayMark' \subseteq MayMark \cup {c} /\ MayMark \subseteq Active
    BY <1>3, ClientMayMark
  <2>4. IsFiniteSet(Active)
    <3>1. Active \in SUBSET Clients /\ IsFiniteSet(Clients)
      BY UploadAssumption DEF UploadAssumption, Active
    <3> QED
      BY <3>1, FS_Subset
  <2>5. Cardinality(MayMark) <= Cardinality(Active) /\ Cardinality(Active) \in Nat
    BY <2>3, <2>4, FS_Subset, FS_CardinalityType
  <2>6. /\ IsFiniteSet(MayMark \cup {c}) /\ Cardinality(MayMark \cup {c}) <= Cardinality(MayMark) + 1
        /\ Cardinality(MayMark \cup {c}) \in Nat
    BY <1>0, FS_AddElement, FS_CardinalityType
  <2>7. Cardinality(MayMark') <= Cardinality(MayMark \cup {c}) /\ Cardinality(MayMark') \in Nat
    BY <2>3, <2>6, FS_Subset, FS_CardinalityType
  <2>8. nextVersion' + Cardinality(MayMark') <= MaxVersion + 1
    BY <1>0, <2>1, <2>2, <2>5, <2>6, <2>7
  <2>9. \A d \in Clients : wpc'[d] \in CommitSteps => version'[d] \in 1 .. nextVersion'
    BY <1>0, <1>1, <2>2
  <2> QED
    BY <1>0, <2>1, <2>8, <2>9 DEF VersionOK
<1>4. ASSUME NEW c \in Clients, Mark(c)
      PROVE  VersionOK' /\ markers' \subseteq Versions /\ markers \subseteq markers'
  <2>1. Worker(c)
    BY <1>4 DEF Worker
  <2>2. MayMark' \subseteq MayMark \ {c} /\ c \in MayMark
    BY <1>4, <2>1, WorkerMayMark
  <2>3. nextVersion \in Versions /\ version[c] \in 1 .. nextVersion
    <3>1. wpc[c] \in CommitSteps
      BY <1>4 DEF Mark, CommitSteps
    <3> QED
      BY <2>2, <3>1, RoomLeft DEF VersionOK
  <2>4. version[c] \in Versions /\ version[c] <= nextVersion
    BY <1>0, <2>3 DEF Versions
  <2>5. markers' = markers \cup {version[c]}
    BY <1>4 DEF Mark, createMarker
  <2>6. nextVersion <= nextVersion' /\ nextVersion' <= nextVersion + 1 /\ nextVersion' \in Nat \ {0}
    <3>1. nextVersion = After({w \in markers : w <= MaxListed})
      BY Counts DEF listCommittedVersions
    <3>2. nextVersion' = After({w \in markers \cup {version[c]} : w <= MaxListed})
      BY <2>5 DEF nextVersion, After, listCommittedVersions
    <3>3. {w \in markers \cup {version[c]} : w <= MaxListed} \in SUBSET Versions
      BY <1>0, <2>4
    <3> QED
      BY <1>0, <2>4, <3>1, <3>2, <3>3, AfterGrows, AfterLatest
  <2>7. /\ Cardinality(MayMark') \in Nat
        /\ Cardinality(MayMark') <= Cardinality(MayMark) - 1
    <3>1. Cardinality(MayMark \ {c}) = Cardinality(MayMark) - 1 /\ IsFiniteSet(MayMark \ {c})
      BY <2>2, Counts
    <3> QED
      BY <2>2, <3>1, FS_Subset, FS_CardinalityType
  <2>8. nextVersion' + Cardinality(MayMark') <= MaxVersion + 1
    BY <1>0, <2>6, <2>7
  <2>9. \A d \in Clients : wpc'[d] \in CommitSteps => version'[d] \in 1 .. nextVersion'
    BY <1>1, <2>6
  <2> QED
    BY <1>0, <2>4, <2>5, <2>8, <2>9 DEF VersionOK
<1>5. ASSUME NEW c \in Clients, ClientStep(c) \/ ClientDies(c) \/ (Worker(c) /\ ~ Mark(c))
      PROVE  MayMark' \subseteq MayMark
  BY <1>5, ClientMayMark, WorkerMayMark
<1>6. CASE ServeNext
  <2>1. /\ Head(queue) \in Clients /\ wpc[Head(queue)] = "queued"
    BY <1>6, HeadWaits DEF ServeNext
  <2>2. /\ wpc' = [wpc EXCEPT ![Head(queue)] = "read"] /\ UNCHANGED <<request, cpc, markers>>
    BY <1>6 DEF ServeNext, goto, clientVars, repoVars
  <2>3. request[Head(queue)] # Nothing => request[Head(queue)].type = "hello"
    BY <2>1 DEF InStep, InStepAt
  <2>4. wpc \in [Clients -> {"none", "queued", "read"} \cup PutSteps \cup CommitSteps]
    BY Functions
  <2>5. MayMark' \subseteq MayMark
    BY <2>1, <2>2, <2>3, <2>4 DEF MayMark, BeforeMark
  <2> QED
    BY <1>2, <2>2, <2>5
<1>7. CASE ServerDies
  <2>1. wpc' = [c \in Clients |-> "none"] /\ UNCHANGED <<cpc, markers>>
    BY <1>7 DEF ServerDies, clientVars, repoVars
  <2>2. MayMark' \subseteq MayMark
    BY <2>1 DEF MayMark, BeforeMark
  <2> QED
    BY <1>2, <2>1, <2>2
<1>8. CASE Restart \/ UNCHANGED vars
  <2>1. UNCHANGED <<wpc, cpc, request, markers>>
    BY <1>8 DEF Restart, vars, clientVars, workVars, repoVars
  <2>2. MayMark' = MayMark
    BY <2>1 DEF MayMark
  <2> QED
    BY <1>2, <2>1, <2>2
<1>9. CASE \E c \in Clients : Mark(c)
  BY <1>4, <1>9
<1>10. CASE (\A c \in Clients : ~ Mark(c)) /\ ~ (ServeNext \/ ServerDies \/ Restart \/ UNCHANGED vars)
  <2>1. UNCHANGED markers
    BY <1>10, MarkersKept
  <2>2. PICK c \in Clients : StartUpload(c) \/ ClientStep(c) \/ ClientDies(c) \/ Worker(c)
    BY <1>10 DEF Next
  <2> QED
    BY <1>2, <1>3, <1>5, <1>10, <2>1, <2>2
<1> QED
  BY <1>6, <1>7, <1>8, <1>9, <1>10

-----------------------------------------------------------------------------
(***************************************************************************)
(* Types.                                                                  *)
(***************************************************************************)

\* What the steps of a handler use.
LEMMA HandlerTypes ==
  ASSUME TypeOK, MessagesOK, InStep, VersionOK, NEW c \in Clients
  PROVE  /\ wpc[c] \in PutSteps =>
               /\ request[c].record \in PutRecords /\ newRecord(c) \in Records
               /\ request[c].record.chunk \in Chunks
         /\ wpc[c] \in CommitSteps => version[c] \in Versions /\ version[c] \in Nat
<1>1. ASSUME wpc[c] \in PutSteps
      PROVE  /\ request[c].record \in PutRecords /\ newRecord(c) \in Records
             /\ request[c].record.chunk \in Chunks
  <2>1. request[c].record \in PutRecords
    BY <1>1 DEF InStep, InStepAt, MessagesOK
  <2>2. newRecord(c) \in Records
    BY <2>1 DEF newRecord, PutRecords, Records
  <2> QED
    BY <2>1, <2>2 DEF PutRecords
<1>2. ASSUME wpc[c] \in CommitSteps
      PROVE  version[c] \in Versions /\ version[c] \in Nat
  <2>1. version[c] \in 1 .. nextVersion /\ version[c] \in Versions \cup {0}
    BY <1>2 DEF VersionOK, TypeOK
  <2> QED
    BY <2>1 DEF Versions
<1> QED
  BY <1>1, <1>2

LEMMA NextRepoTypes ==
  ASSUME TypeOK, MessagesOK, InStep, VersionOK, [Next]_vars
  PROVE  /\ objects' \subseteq Chunks
         /\ staged' \in [Versions -> References \cup {NoManifest}]
         /\ manifests' \in [Versions -> References \cup {NoManifest}]
         /\ wal' \subseteq WalRecord /\ walTorn' \in BOOLEAN
         /\ checkpoint' \subseteq Versions
<1>1. /\ objects \subseteq Chunks
      /\ staged \in [Versions -> References \cup {NoManifest}]
      /\ manifests \in [Versions -> References \cup {NoManifest}]
      /\ wal \subseteq WalRecord /\ walTorn \in BOOLEAN
      /\ checkpoint \subseteq Versions
      /\ manifest \in [Clients -> References \cup {NoManifest}]
      /\ listed \in [Clients -> SUBSET Versions]
  BY DEF TypeOK
<1>2. ASSUME NEW c \in Clients, StartUpload(c) \/ ClientStep(c) \/ ClientDies(c)
      PROVE  UNCHANGED <<objects, staged, manifests, wal, walTorn, checkpoint>>
  BY <1>2 DEF StartUpload, ClientStep, GetHello, GetStatus, GetPutAck, GetCommitAck, UploadFails, ClientDies, repoVars
<1>3. ASSUME NEW c \in Clients,
             \/ HandleHello(c) \/ HandleQuery(c) \/ HandlePut(c) \/ CheckIndex(c) \/ AppendIndex(c)
             \/ HandleCommit(c) \/ BuildManifest(c) \/ Mark(c) \/ ListVersions(c) \/ MarkCommitted(c)
             \/ ReadEnd(c) \/ AppendCut(c) \/ MarkCommittedCut(c)
      PROVE  UNCHANGED <<objects, staged, manifests, wal, walTorn, checkpoint>>
  BY <1>3 DEF HandleHello, HandleQuery, HandlePut, CheckIndex, AppendIndex, HandleCommit, BuildManifest,
              Mark, ListVersions, MarkCommitted, ReadEnd, AppendCut, MarkCommittedCut, repoVars
<1>4. CASE ServeNext \/ ServerDies \/ Restart \/ UNCHANGED vars
  BY <1>1, <1>4 DEF ServeNext, ServerDies, Restart, vars, repoVars
<1>5. ASSUME NEW c \in Clients, StoreChunk(c)
      PROVE  objects' \subseteq Chunks /\ UNCHANGED <<staged, manifests, wal, walTorn, checkpoint>>
  <2>1. request[c].record.chunk \in Chunks
    BY <1>5, HandlerTypes DEF StoreChunk, PutSteps
  <2> QED
    BY <1>1, <1>5, <2>1 DEF StoreChunk, putRaw
<1>6. ASSUME NEW c \in Clients, LogBegin(c) \/ LogWrite(c) \/ LogRename(c) \/ LogCommit(c)
      PROVE  wal' \subseteq WalRecord /\ UNCHANGED <<objects, staged, manifests, walTorn, checkpoint>>
  <2>1. wpc[c] \in CommitSteps
    BY <1>6 DEF LogBegin, LogWrite, LogRename, LogCommit, Log, CommitSteps
  <2>2. version[c] \in Versions
    BY <2>1, HandlerTypes
  <2> QED
    BY <1>1, <1>6, <2>2 DEF LogBegin, LogWrite, LogRename, LogCommit, Log, appendWal, WalRecord
<1>7. ASSUME NEW c \in Clients, WriteTmp(c) \/ Rename(c) \/ WriteCheckpoint(c) \/ WriteFails(c)
      PROVE  /\ staged' \in [Versions -> References \cup {NoManifest}]
             /\ manifests' \in [Versions -> References \cup {NoManifest}]
             /\ walTorn' \in BOOLEAN /\ checkpoint' \subseteq Versions
             /\ UNCHANGED <<objects, wal>>
  <2>1. CASE WriteTmp(c)
    BY <1>1, <2>1 DEF WriteTmp
  <2>2. CASE Rename(c)
    <3>1. version[c] \in Versions
      BY <2>2, HandlerTypes DEF Rename, CommitSteps
    <3> QED
      BY <1>1, <2>2, <3>1 DEF Rename, renameTmpToManifest
  <2>3. CASE WriteCheckpoint(c)
    BY <1>1, <2>3 DEF WriteCheckpoint, writeCheckpoint
  <2>4. CASE WriteFails(c)
    BY <1>1, <2>4 DEF WriteFails
  <2> QED
    BY <1>7, <2>1, <2>2, <2>3, <2>4
<1>8. ASSUME NEW c \in Clients, Worker(c)
      PROVE  /\ objects' \subseteq Chunks
             /\ staged' \in [Versions -> References \cup {NoManifest}]
             /\ manifests' \in [Versions -> References \cup {NoManifest}]
             /\ wal' \subseteq WalRecord /\ walTorn' \in BOOLEAN
             /\ checkpoint' \subseteq Versions
  BY <1>1, <1>3, <1>5, <1>6, <1>7, <1>8 DEF Worker
<1> QED
  BY <1>1, <1>2, <1>4, <1>8 DEF Next

LEMMA NextIndexTypes ==
  ASSUME TypeOK, MessagesOK, InStep, VersionOK, [Next]_vars
  PROVE  source' \in [Sessions -> Sources] /\ index' \in [Sessions -> IndexFiles]
<1>1. source \in [Sessions -> Sources] /\ index \in [Sessions -> IndexFiles]
  BY DEF TypeOK
<1>2. \A c \in Clients : SessionOf[c] \in Sessions
  BY UploadAssumption DEF UploadAssumption
<1>3. ASSUME NEW c \in Clients, StartUpload(c)
      PROVE  source' \in [Sessions -> Sources] /\ index' = index
  <2>1. \A read \in sourceNow(SessionOf[c]) : read \in Sources
    BY <1>1, <1>2 DEF sourceNow
  <2> QED
    BY <1>1, <1>3, <2>1 DEF StartUpload
<1>4. ASSUME NEW c \in Clients, ClientStep(c) \/ ClientDies(c)
      PROVE  UNCHANGED <<source, index>>
  BY <1>4 DEF ClientStep, GetHello, GetStatus, GetPutAck, GetCommitAck, UploadFails, ClientDies
<1>5. ASSUME NEW c \in Clients, AppendIndex(c) \/ AppendCut(c)
      PROVE  source' = source /\ index' \in [Sessions -> IndexFiles]
  <2>1. newRecord(c) \in Records /\ index[SessionOf[c]] \in IndexFiles
    BY <1>1, <1>2, <1>5, HandlerTypes DEF AppendIndex, AppendCut, PutSteps
  <2>2. \E file \in IndexFiles : index' = [index EXCEPT ![SessionOf[c]] = file]
    BY <1>5, <2>1, IndexFilesType DEF AppendIndex, AppendCut, session
  <2>3. source' = source
    BY <1>5 DEF AppendIndex, AppendCut
  <2> QED
    BY <1>1, <2>2, <2>3
<1>6. ASSUME NEW c \in Clients, MarkCommitted(c) \/ MarkCommittedCut(c)
      PROVE  source' = source /\ index' \in [Sessions -> IndexFiles]
  <2>1. index[SessionOf[c]] \in IndexFiles
    BY <1>1, <1>2
  <2>2. commitLine(index[SessionOf[c]]) \in IndexFiles /\ cutCommitLines(index[SessionOf[c]]) \subseteq IndexFiles
    BY <2>1, CommitLinesType
  <2>3. \E file \in IndexFiles : index' = [index EXCEPT ![SessionOf[c]] = file]
    BY <1>6, <2>2 DEF MarkCommitted, MarkCommittedCut, session
  <2>4. source' = source
    BY <1>6 DEF MarkCommitted, MarkCommittedCut
  <2> QED
    BY <1>1, <2>3, <2>4
<1>7. ASSUME NEW c \in Clients, Worker(c), ~ AppendIndex(c), ~ AppendCut(c), ~ MarkCommitted(c), ~ MarkCommittedCut(c)
      PROVE  UNCHANGED <<source, index>>
  BY <1>7 DEF Worker, HandleHello, HandleQuery, HandlePut, StoreChunk, CheckIndex, HandleCommit,
         LogBegin, BuildManifest, WriteTmp, LogWrite, Rename, LogRename, Mark, LogCommit, Log,
         ListVersions, WriteCheckpoint, ReadEnd, WriteFails
<1>8. CASE ServeNext \/ ServerDies \/ Restart \/ UNCHANGED vars
  BY <1>1, <1>8 DEF ServeNext, ServerDies, Restart, vars
<1> QED
  BY <1>1, <1>3, <1>4, <1>5, <1>6, <1>7, <1>8 DEF Next

LEMMA NextClientTypes ==
  ASSUME TypeOK, MessagesOK, InStep, VersionOK, [Next]_vars
  PROVE  /\ cpc' \in [Clients -> {"idle", "hello", "query", "put", "commit"}]
         /\ content' \in [Clients -> Sources \cup {<<>>}]
         /\ \A c \in Clients : cpc'[c] # "idle" => content'[c] \in Sources
         /\ DOMAIN status' = Clients
         /\ \A c \in Clients : DOMAIN status'[c] \subseteq Nat /\ Range(status'[c]) \subseteq Chunks
         /\ next' \in [Clients -> Nat]
         /\ acked' \subseteq Versions \X Sources
<1> DEFINE Goal ==
             /\ cpc' \in [Clients -> {"idle", "hello", "query", "put", "commit"}]
             /\ content' \in [Clients -> Sources \cup {<<>>}]
             /\ \A c \in Clients : cpc'[c] # "idle" => content'[c] \in Sources
             /\ DOMAIN status' = Clients
             /\ \A c \in Clients : DOMAIN status'[c] \subseteq Nat /\ Range(status'[c]) \subseteq Chunks
             /\ next' \in [Clients -> Nat]
             /\ acked' \subseteq Versions \X Sources
<1>1. /\ cpc \in [Clients -> {"idle", "hello", "query", "put", "commit"}]
      /\ content \in [Clients -> Sources \cup {<<>>}]
      /\ \A c \in Clients : cpc[c] # "idle" => content[c] \in Sources
      /\ DOMAIN status = Clients
      /\ \A c \in Clients : DOMAIN status[c] \subseteq Nat /\ Range(status[c]) \subseteq Chunks
      /\ next \in [Clients -> Nat]
      /\ acked \subseteq Versions \X Sources
      /\ source \in [Sessions -> Sources]
  BY DEF TypeOK, MessagesOK
<1>2. \A c \in Clients : SessionOf[c] \in Sessions
  BY UploadAssumption DEF UploadAssumption
<1>3. CASE UNCHANGED <<cpc, content, status, next, acked>>
  BY <1>1, <1>3
<1>4. ASSUME NEW c \in Clients, StartUpload(c)
      PROVE  Goal
  <2>1. \A read \in sourceNow(SessionOf[c]) : read \in Sources
    BY <1>1, <1>2 DEF sourceNow
  <2>2. PICK read \in Sources : content' = [content EXCEPT ![c] = read]
    BY <1>4, <2>1 DEF StartUpload
  <2>3. cpc' = [cpc EXCEPT ![c] = "hello"] /\ UNCHANGED <<status, next, acked>>
    BY <1>4 DEF StartUpload
  <2> QED
    BY <1>1, <2>2, <2>3
<1>5. ASSUME NEW c \in Clients, GetHello(c)
      PROVE  Goal
  <2>1. cpc[c] # "idle" /\ cpc' = [cpc EXCEPT ![c] = "query"] /\ UNCHANGED <<content, status, next, acked>>
    BY <1>5 DEF GetHello, GetReply, send
  <2> QED
    BY <1>1, <2>1
<1>6. ASSUME NEW c \in Clients, GetStatus(c) \/ GetPutAck(c)
      PROVE  Goal
  <2>1. next[c] + 1 \in Nat \ {0}
    BY <1>1
  <2>2. next' \in [Clients -> Nat] /\ \E q \in Sendable(c) : send(c, q)
    BY <1>6, <2>1, SendNext DEF GetStatus, GetPutAck
  <2>3. PICK q \in Sendable(c) : send(c, q)
    BY <2>2
  <2>4. q.type \in {"put", "commit"}
    BY SendableType
  <2>5. cpc[c] # "idle" /\ cpc' = [cpc EXCEPT ![c] = q.type] /\ UNCHANGED <<content, acked>>
    BY <1>6, <2>3 DEF GetStatus, GetPutAck, GetReply, send
  <2>6. \/ UNCHANGED status
        \/ \E st : /\ DOMAIN st \subseteq Nat /\ Range(st) \subseteq Chunks
                   /\ status' = [status EXCEPT ![c] = st]
    <3>1. CASE GetPutAck(c)
      BY <3>1 DEF GetPutAck
    <3>2. CASE GetStatus(c)
      <4>1. reply[c] # Nothing /\ reply[c].type = "status" /\ status' = [status EXCEPT ![c] = reply[c].received]
        BY <3>2 DEF GetStatus, GetReply
      <4>2. DOMAIN reply[c].received \subseteq Nat /\ Range(reply[c].received) \subseteq Chunks
        BY <4>1 DEF MessagesOK
      <4> QED
        BY <4>1, <4>2
    <3> QED
      BY <1>6, <3>1, <3>2
  <2>7. /\ DOMAIN status' = Clients
        /\ \A d \in Clients : DOMAIN status'[d] \subseteq Nat /\ Range(status'[d]) \subseteq Chunks
    <3>1. CASE UNCHANGED status
      BY <1>1, <3>1
    <3>2. ASSUME NEW st, DOMAIN st \subseteq Nat, Range(st) \subseteq Chunks, status' = [status EXCEPT ![c] = st]
          PROVE  /\ DOMAIN status' = Clients
                 /\ \A d \in Clients : DOMAIN status'[d] \subseteq Nat /\ Range(status'[d]) \subseteq Chunks
      <4>1. DOMAIN status' = Clients /\ status'[c] = st /\ \A d \in Clients \ {c} : status'[d] = status[d]
        BY <1>1, <3>2
      <4> QED
        BY <1>1, <3>2, <4>1
    <3> QED
      BY <2>6, <3>1, <3>2
  <2>8. /\ cpc' \in [Clients -> {"idle", "hello", "query", "put", "commit"}]
        /\ \A d \in Clients : cpc'[d] # "idle" => content'[d] \in Sources
    BY <1>1, <2>4, <2>5
  <2> QED
    BY <1>1, <2>2, <2>5, <2>7, <2>8
<1>7. ASSUME NEW c \in Clients, GetCommitAck(c) \/ UploadFails(c) \/ ClientDies(c)
      PROVE  Goal
  <2>1. leave(c)
    BY <1>7 DEF GetCommitAck, UploadFails, ClientDies
  <2>2. acked' \subseteq Versions \X Sources
    <3>1. CASE GetCommitAck(c)
      <4>1. reply[c].version \in Versions /\ content[c] \in Sources
        BY <1>1, <3>1 DEF GetCommitAck, GetReply, MessagesOK
      <4> QED
        BY <1>1, <3>1, <4>1 DEF GetCommitAck
    <3>2. CASE UploadFails(c) \/ ClientDies(c)
      BY <1>1, <3>2 DEF UploadFails, ClientDies
    <3> QED
      BY <1>7, <3>1, <3>2
  <2>3. DOMAIN <<>> = {} /\ Range(<<>>) = {}
    BY DEF Range
  <2>4. status' = [status EXCEPT ![c] = <<>>]
    BY <2>1 DEF leave
  <2>5. DOMAIN status' = Clients /\ status'[c] = <<>> /\ \A d \in Clients \ {c} : status'[d] = status[d]
    BY <1>1, <2>4
  <2>6. \A d \in Clients : DOMAIN status'[d] \subseteq Nat /\ Range(status'[d]) \subseteq Chunks
    BY <1>1, <2>3, <2>5
  <2>7. /\ cpc' = [cpc EXCEPT ![c] = "idle"] /\ content' = [content EXCEPT ![c] = <<>>]
        /\ next' = [next EXCEPT ![c] = 0]
    BY <2>1 DEF leave
  <2> QED
    BY <1>1, <2>2, <2>5, <2>6, <2>7
<1>8. ASSUME NEW c \in Clients, Worker(c)
      PROVE  UNCHANGED <<cpc, content, status, next, acked>>
  BY <1>8 DEF Worker, HandleHello, HandleQuery, HandlePut, StoreChunk, CheckIndex, AppendIndex, HandleCommit,
         LogBegin, BuildManifest, WriteTmp, LogWrite, Rename, LogRename, Mark, LogCommit, Log,
         ListVersions, WriteCheckpoint, MarkCommitted, ReadEnd, AppendCut, MarkCommittedCut,
         WriteFails, clientVars
<1>9. CASE ServeNext \/ ServerDies \/ Restart \/ UNCHANGED vars
  BY <1>3, <1>9 DEF ServeNext, ServerDies, Restart, vars, clientVars
<1> QED
  BY <1>3, <1>4, <1>5, <1>6, <1>7, <1>8, <1>9 DEF Next, ClientStep

\* A request, and a reply, that its receiver can read.
GoodRequest(q) ==
    q # Nothing =>
        /\ q.type \in {"hello", "query", "put", "commit"}
        /\ q.type = "put" => q.record \in PutRecords
        /\ q.type = "commit" => q.total \in Nat

GoodReply(r) ==
    r # Nothing =>
        /\ r.type \in {"hello", "status", "putAck", "commitAck", "error"}
        /\ r.type = "status" => DOMAIN r.received \subseteq Nat /\ Range(r.received) \subseteq Chunks
        /\ r.type = "commitAck" => r.version \in Versions

LEMMA NextMessages ==
  ASSUME TypeOK, MessagesOK, InStep, VersionOK, [Next]_vars
  PROVE  /\ conn' \in [Clients -> {"none", "open", "eof"}]
         /\ DOMAIN request' = Clients /\ \A c \in Clients : GoodRequest(request'[c])
         /\ DOMAIN reply' = Clients /\ \A c \in Clients : GoodReply(reply'[c])
<1> DEFINE ConnOK == conn' \in [Clients -> {"none", "open", "eof"}]
           RequestOK == DOMAIN request' = Clients /\ \A c \in Clients : GoodRequest(request'[c])
           ReplyOK == DOMAIN reply' = Clients /\ \A c \in Clients : GoodReply(reply'[c])
<1>1. /\ conn \in [Clients -> {"none", "open", "eof"}]
      /\ DOMAIN request = Clients /\ \A c \in Clients : GoodRequest(request[c])
      /\ DOMAIN reply = Clients /\ \A c \in Clients : GoodReply(reply[c])
  BY DEF TypeOK, MessagesOK, GoodRequest, GoodReply
<1>2. GoodRequest(Nothing) /\ GoodReply(Nothing)
  BY DEF GoodRequest, GoodReply
<1>3. UNCHANGED conn => ConnOK
  BY <1>1
<1>4. UNCHANGED request => RequestOK
  BY <1>1
<1>5. UNCHANGED reply => ReplyOK
  BY <1>1
<1>6. ASSUME NEW c \in Clients, NEW q, GoodRequest(q),
             request' = [request EXCEPT ![c] = q] \/ UNCHANGED request
      PROVE  RequestOK
  BY <1>1, <1>6
<1>7. ASSUME NEW c \in Clients, NEW r, GoodReply(r),
             reply' = [reply EXCEPT ![c] = r] \/ UNCHANGED reply
      PROVE  ReplyOK
  BY <1>1, <1>7
<1>8. ASSUME NEW c \in Clients, answer(c, [type |-> "hello"]) \/ answer(c, [type |-> "putAck"])
      PROVE  RequestOK /\ ReplyOK
  <2>1. GoodReply([type |-> "hello"]) /\ GoodReply([type |-> "putAck"])
    BY DEF GoodReply
  <2>2. RequestOK
    BY <1>2, <1>6, <1>8 DEF answer
  <2>3. ReplyOK
    BY <1>7, <1>8, <2>1 DEF answer, respond
  <2> QED
    BY <2>2, <2>3
<1>9. ASSUME NEW c \in Clients, fail(c)
      PROVE  ConnOK /\ RequestOK /\ ReplyOK
  <2>1. GoodReply([type |-> "error"])
    BY DEF GoodReply
  <2>2. ConnOK
    BY <1>1, <1>9 DEF fail
  <2>3. RequestOK
    BY <1>2, <1>6, <1>9 DEF fail
  <2>4. ReplyOK
    BY <1>7, <1>9, <2>1 DEF fail, respond
  <2> QED
    BY <2>2, <2>3, <2>4
<1> HIDE DEF ConnOK, RequestOK, ReplyOK
<1>10. ASSUME NEW c \in Clients, StartUpload(c)
       PROVE  ConnOK /\ RequestOK /\ ReplyOK
  <2>1. GoodRequest([type |-> "hello"])
    BY DEF GoodRequest
  <2>2. ConnOK
    BY <1>1, <1>10 DEF StartUpload, connect, ConnOK
  <2> QED
    BY <1>5, <1>6, <1>10, <2>1, <2>2 DEF StartUpload
<1>11. ASSUME NEW c \in Clients, ClientStep(c) \/ ClientDies(c)
       PROVE  ConnOK /\ RequestOK /\ ReplyOK
  <2>1. reply' = [reply EXCEPT ![c] = Nothing] \/ UNCHANGED reply
    BY <1>11 DEF ClientStep, GetHello, GetStatus, GetPutAck, GetCommitAck, UploadFails, ClientDies, GetReply
  <2>2. ReplyOK
    BY <1>2, <1>7, <2>1
  <2>3. ConnOK
    BY <1>1, <1>11 DEF ClientStep, GetHello, GetStatus, GetPutAck, GetCommitAck, UploadFails, ClientDies, close, ConnOK
  <2>4. RequestOK
    <3>1. CASE GetHello(c)
      <4>1. GoodRequest([type |-> "query"])
        BY DEF GoodRequest
      <4> QED
        BY <1>6, <3>1, <4>1 DEF GetHello, send
    <3>2. CASE GetStatus(c) \/ GetPutAck(c)
      <4>1. next[c] + 1 \in Nat \ {0}
        BY DEF TypeOK
      <4>2. PICK q \in Sendable(c) : send(c, q)
        BY <3>2, <4>1, SendNext DEF GetStatus, GetPutAck
      <4>3. GoodRequest(q)
        BY SendableType DEF GoodRequest
      <4> QED
        BY <1>6, <4>2, <4>3 DEF send
    <3>3. CASE GetCommitAck(c) \/ UploadFails(c) \/ ClientDies(c)
      BY <1>4, <3>3 DEF GetCommitAck, UploadFails, ClientDies
    <3> QED
      BY <1>11, <3>1, <3>2, <3>3 DEF ClientStep
  <2> QED
    BY <2>2, <2>3, <2>4
<1>12. ASSUME NEW c \in Clients, Worker(c)
       PROVE  ConnOK /\ RequestOK /\ ReplyOK
  <2>1. CASE HandleHello(c) \/ AppendIndex(c)
    BY <1>3, <1>8, <2>1 DEF HandleHello, AppendIndex
  <2>2. CASE HandleQuery(c)
    <3>1. CASE fail(c)
      BY <1>9, <3>1
    <3>2. CASE answer(c, [type |-> "status", received |-> received(index[session(c)].records)]) /\ UNCHANGED conn
      <4> DEFINE r == [type |-> "status", received |-> received(index[session(c)].records)]
      <4>1. index[session(c)].records \in Seq(Records)
        BY UploadAssumption DEF UploadAssumption, session, TypeOK, IndexFiles
      <4>2. DOMAIN r.received \subseteq Nat /\ Range(r.received) \subseteq Chunks
        BY <4>1, ReceivedType
      <4>3. r.type = "status" /\ answer(c, r) /\ UNCHANGED conn
        BY <3>2
      <4> HIDE DEF r
      <4>4. GoodReply(r)
        BY <4>2, <4>3 DEF GoodReply
      <4>5. ReplyOK
        BY <1>7, <4>3, <4>4 DEF answer, respond
      <4>6. RequestOK
        BY <1>2, <1>6, <4>3 DEF answer
      <4> QED
        BY <1>3, <4>3, <4>5, <4>6
    <3> QED
      BY <2>2, <3>1, <3>2 DEF HandleQuery
  <2>3. CASE CheckIndex(c)
    BY <1>3, <1>4, <1>5, <1>8, <1>9, <2>3 DEF CheckIndex
  <2>4. CASE HandlePut(c) \/ StoreChunk(c) \/ HandleCommit(c) \/ WriteTmp(c) \/ Mark(c) \/ ListVersions(c) \/ WriteCheckpoint(c)
    BY <1>3, <1>4, <1>5, <2>4
    DEF HandlePut, StoreChunk, HandleCommit, WriteTmp, Mark, ListVersions, WriteCheckpoint
  <2>5. CASE LogBegin(c) \/ LogWrite(c) \/ LogRename(c) \/ LogCommit(c)
    BY <1>3, <1>4, <1>5, <2>5 DEF LogBegin, LogWrite, LogRename, LogCommit, Log
  <2>6. CASE BuildManifest(c) \/ Rename(c)
    BY <1>3, <1>4, <1>5, <1>9, <2>6 DEF BuildManifest, Rename
  <2>7. CASE MarkCommitted(c) \/ MarkCommittedCut(c)
    <3> DEFINE r == [type |-> "commitAck", version |-> version[c]]
    <3>1. wpc[c] \in CommitSteps /\ answer(c, r) /\ UNCHANGED conn
      BY <2>7 DEF MarkCommitted, MarkCommittedCut, CommitSteps
    <3>2. GoodReply(r)
      BY <3>1, HandlerTypes DEF GoodReply
    <3> HIDE DEF r
    <3>3. ReplyOK
      BY <1>7, <3>1, <3>2 DEF answer, respond
    <3>4. RequestOK
      BY <1>2, <1>6, <3>1 DEF answer
    <3> QED
      BY <1>3, <3>1, <3>3, <3>4
  <2>8. CASE AppendCut(c) \/ WriteFails(c)
    BY <1>9, <2>8 DEF AppendCut, WriteFails
  <2>9. CASE ReadEnd(c)
    <3>1. ConnOK
      BY <1>1, <2>9 DEF ReadEnd, ConnOK
    <3> QED
      BY <1>4, <1>5, <2>9, <3>1 DEF ReadEnd
  <2> QED
    BY <1>12, <2>1, <2>2, <2>3, <2>4, <2>5, <2>6, <2>7, <2>8, <2>9 DEF Worker
<1>13. ASSUME ServerDies
       PROVE  ConnOK /\ RequestOK /\ ReplyOK
  BY <1>1, <1>2, <1>13 DEF ServerDies, ConnOK, RequestOK, ReplyOK
<1>14. ASSUME ServeNext \/ Restart \/ UNCHANGED vars
       PROVE  ConnOK /\ RequestOK /\ ReplyOK
  BY <1>3, <1>4, <1>5, <1>14 DEF ServeNext, Restart, vars
<1> QED
  BY <1>10, <1>11, <1>12, <1>13, <1>14 DEF Next, ConnOK, RequestOK, ReplyOK

LEMMA NextWorkTypes ==
  ASSUME TypeOK, MessagesOK, InStep, QueueOK, VersionOK, [Next]_vars
  PROVE  /\ wpc' \in [Clients -> {"none", "queued", "read"} \cup PutSteps \cup CommitSteps]
         /\ version' \in [Clients -> Versions \cup {0}]
         /\ manifest' \in [Clients -> References \cup {NoManifest}]
         /\ listed' \in [Clients -> SUBSET Versions]
<1> DEFINE Steps == {"none", "queued", "read"} \cup PutSteps \cup CommitSteps
           WpcOK == wpc' \in [Clients -> Steps]
           DataOK == /\ version' \in [Clients -> Versions \cup {0}]
                     /\ manifest' \in [Clients -> References \cup {NoManifest}]
                     /\ listed' \in [Clients -> SUBSET Versions]
<1>1. /\ wpc \in [Clients -> Steps]
      /\ version \in [Clients -> Versions \cup {0}]
      /\ manifest \in [Clients -> References \cup {NoManifest}]
      /\ listed \in [Clients -> SUBSET Versions]
  BY DEF TypeOK
<1>2. UNCHANGED wpc => WpcOK
  BY <1>1
<1>3. UNCHANGED <<version, manifest, listed>> => DataOK
  BY <1>1
<1>4. ASSUME NEW c \in Clients, NEW l \in Steps, goto(c, l)
      PROVE  WpcOK
  BY <1>1, <1>4 DEF goto
<1>5. ASSUME NEW c \in Clients, NEW r, respond(c, r)
      PROVE  DataOK
  BY <1>1, <1>5 DEF respond
<1>6. "read" \in Steps /\ "none" \in Steps /\ "queued" \in Steps /\ PutSteps \subseteq Steps /\ CommitSteps \subseteq Steps
  OBVIOUS
<1> HIDE DEF Steps, DataOK, WpcOK
<1>7. ASSUME NEW c \in Clients, NEW r, answer(c, r) \/ fail(c)
      PROVE  WpcOK /\ DataOK
  BY <1>4, <1>5, <1>6, <1>7 DEF answer, fail
<1>8. ASSUME NEW c \in Clients, StartUpload(c) \/ ClientStep(c) \/ ClientDies(c)
      PROVE  WpcOK /\ DataOK
  <2>1. CASE StartUpload(c)
    <3>1. WpcOK
      BY <1>1, <1>6, <2>1 DEF StartUpload, accept, WpcOK
    <3> QED
      BY <1>3, <2>1, <3>1 DEF StartUpload
  <2>2. CASE ClientStep(c) \/ ClientDies(c)
    BY <1>2, <1>3, <2>2 DEF ClientStep, GetHello, GetStatus, GetPutAck, GetCommitAck, UploadFails, ClientDies, workVars
  <2> QED
    BY <1>8, <2>1, <2>2
<1>9. ASSUME NEW c \in Clients, Worker(c)
      PROVE  WpcOK /\ DataOK
  <2>1. CASE HandleHello(c) \/ HandleQuery(c) \/ AppendIndex(c) \/ AppendCut(c) \/ MarkCommitted(c) \/ MarkCommittedCut(c) \/ WriteFails(c)
    BY <1>7, <2>1 DEF HandleHello, HandleQuery, AppendIndex, AppendCut, MarkCommitted, MarkCommittedCut, WriteFails
  <2>2. CASE HandlePut(c) \/ StoreChunk(c) \/ ReadEnd(c)
    BY <1>3, <1>4, <1>6, <2>2 DEF HandlePut, StoreChunk, ReadEnd, PutSteps
  <2>3. CASE CheckIndex(c)
    BY <1>3, <1>4, <1>6, <1>7, <2>3 DEF CheckIndex, PutSteps
  <2>4. CASE LogBegin(c) \/ LogWrite(c) \/ LogRename(c) \/ LogCommit(c) \/ WriteTmp(c) \/ Mark(c) \/ WriteCheckpoint(c)
    BY <1>3, <1>4, <1>6, <2>4 DEF LogBegin, LogWrite, LogRename, LogCommit, Log, WriteTmp, Mark, WriteCheckpoint, CommitSteps
  <2>5. CASE HandleCommit(c)
    <3>1. nextVersion \in Versions
      <4>1. c \in MayMark
        BY <2>5 DEF HandleCommit, Receive, MayMark
      <4> QED
        BY <4>1, RoomLeft
    <3>2. DataOK
      BY <1>1, <2>5, <3>1 DEF HandleCommit, DataOK
    <3> QED
      BY <1>4, <1>6, <2>5, <3>2 DEF HandleCommit, CommitSteps
  <2>6. CASE BuildManifest(c)
    <3>1. CASE fail(c)
      BY <1>7, <3>1
    <3>2. CASE ~ fail(c)
      <4>1. index[session(c)].records \in Seq(Records)
        BY UploadAssumption DEF UploadAssumption, session, TypeOK, IndexFiles
      <4>2. buildManifest(index[session(c)].records) \in References
        BY <4>1, ManifestType
      <4>3. DataOK
        BY <1>1, <2>6, <3>2, <4>2 DEF BuildManifest, DataOK
      <4> QED
        BY <1>4, <1>6, <2>6, <3>2, <4>3 DEF BuildManifest, CommitSteps
    <3> QED
      BY <3>1, <3>2
  <2>7. CASE Rename(c)
    BY <1>3, <1>4, <1>6, <1>7, <2>7 DEF Rename, CommitSteps
  <2>8. CASE ListVersions(c)
    <3>1. listCommittedVersions \in SUBSET Versions
      BY Counts
    <3>2. DataOK
      BY <1>1, <2>8, <3>1 DEF ListVersions, DataOK
    <3> QED
      BY <1>4, <1>6, <2>8, <3>2 DEF ListVersions, CommitSteps
  <2> QED
    BY <1>9, <2>1, <2>2, <2>3, <2>4, <2>5, <2>6, <2>7, <2>8 DEF Worker
<1>10. ASSUME ServeNext
       PROVE  WpcOK /\ DataOK
  <2>1. UNCHANGED <<version, manifest, listed>> /\ goto(Head(queue), "read")
    BY <1>10 DEF ServeNext
  <2>2. Head(queue) \in Clients
    BY <1>10, HeadWaits DEF ServeNext
  <2> QED
    BY <1>3, <1>4, <1>6, <2>1, <2>2
<1>11. ASSUME ServerDies
       PROVE  WpcOK /\ DataOK
  BY <1>11 DEF ServerDies, WpcOK, DataOK, Steps
<1>12. ASSUME Restart \/ UNCHANGED vars
       PROVE  WpcOK /\ DataOK
  BY <1>2, <1>3, <1>12 DEF Restart, vars, workVars
<1> QED
  BY <1>8, <1>9, <1>10, <1>11, <1>12 DEF Next, WpcOK, DataOK, Steps

\* A worker is free for every connection that is taken from the queue.
LEMMA NextBusy ==
  ASSUME TypeOK, MessagesOK, InStep, QueueOK, [Next]_vars
  PROVE  /\ workers' \in PoolSizes \cup {0}
         /\ queue' \in Seq(Clients)
         /\ Cardinality(Busy') <= workers'
<1>1. /\ wpc \in [Clients -> {"none", "queued", "read"} \cup PutSteps \cup CommitSteps]
      /\ workers \in PoolSizes \cup {0} /\ queue \in Seq(Clients)
      /\ Cardinality(Busy) <= workers
      /\ PoolSizes \subseteq Nat
  BY UploadAssumption DEF UploadAssumption, TypeOK
<1>2. IsFiniteSet(Busy)
  <2>1. Busy \in SUBSET Clients /\ IsFiniteSet(Clients)
    BY UploadAssumption DEF UploadAssumption, Busy
  <2> QED
    BY <2>1, FS_Subset
<1>3. Cardinality(Busy) \in Nat /\ workers \in Nat
  BY <1>1, <1>2, FS_CardinalityType
<1>4. ASSUME Busy' \subseteq Busy, UNCHANGED workers
      PROVE  workers' \in PoolSizes \cup {0} /\ Cardinality(Busy') <= workers'
  <2>1. Cardinality(Busy') <= Cardinality(Busy) /\ Cardinality(Busy') \in Nat
    BY <1>2, <1>4, FS_Subset, FS_CardinalityType
  <2> QED
    BY <1>1, <1>3, <1>4, <2>1
<1>5. ASSUME NEW c \in Clients, StartUpload(c)
      PROVE  Busy' \subseteq Busy /\ UNCHANGED workers /\ queue' \in Seq(Clients)
  <2>1. wpc' = [wpc EXCEPT ![c] = "queued"] /\ queue' = Append(queue, c) /\ UNCHANGED workers
    BY <1>5 DEF StartUpload, accept
  <2> QED
    BY <1>1, <2>1 DEF Busy
<1>6. ASSUME NEW c \in Clients, ClientStep(c) \/ ClientDies(c)
      PROVE  Busy' \subseteq Busy /\ UNCHANGED workers /\ queue' \in Seq(Clients)
  <2>1. UNCHANGED <<wpc, workers, queue>>
    BY <1>6 DEF ClientStep, GetHello, GetStatus, GetPutAck, GetCommitAck, UploadFails, ClientDies, workVars, serverVars
  <2> QED
    BY <1>1, <2>1 DEF Busy
<1>7. ASSUME NEW c \in Clients, Worker(c)
      PROVE  Busy' \subseteq Busy /\ UNCHANGED workers /\ queue' \in Seq(Clients)
  <2>1. /\ wpc[c] \in {"read"} \cup PutSteps \cup CommitSteps
        /\ \A d \in Clients \ {c} : wpc'[d] = wpc[d]
        /\ UNCHANGED <<queue, workers>>
    BY <1>7, WorkerServes
  <2> QED
    BY <1>1, <2>1 DEF Busy, PutSteps, CommitSteps
<1>8. CASE ServeNext
  <2>1. /\ Cardinality(Busy) < workers /\ UNCHANGED workers
        /\ wpc' = [wpc EXCEPT ![Head(queue)] = "read"] /\ queue' = Tail(queue)
    BY <1>8 DEF ServeNext, goto
  <2>2. Head(queue) \in Clients /\ Tail(queue) \in Seq(Clients)
    BY <1>8, HeadWaits DEF ServeNext
  <2>3. Busy' \subseteq Busy \cup {Head(queue)}
    BY <1>1, <2>1 DEF Busy
  <2>4. /\ IsFiniteSet(Busy \cup {Head(queue)})
        /\ Cardinality(Busy \cup {Head(queue)}) <= Cardinality(Busy) + 1
        /\ Cardinality(Busy \cup {Head(queue)}) \in Nat
    <3>1. /\ IsFiniteSet(Busy \cup {Head(queue)})
          /\ Cardinality(Busy \cup {Head(queue)}) =
                IF Head(queue) \in Busy THEN Cardinality(Busy) ELSE Cardinality(Busy) + 1
      BY <1>2, FS_AddElement, Zenon
    <3> QED
      BY <1>3, <3>1
  <2>5. Cardinality(Busy') <= Cardinality(Busy \cup {Head(queue)}) /\ Cardinality(Busy') \in Nat
    BY <2>3, <2>4, FS_Subset, FS_CardinalityType
  <2> QED
    BY <1>1, <1>3, <2>1, <2>2, <2>4, <2>5
<1>9. CASE ServerDies
  <2>1. workers' = 0 /\ queue' = <<>> /\ wpc' = [c \in Clients |-> "none"]
    BY <1>9 DEF ServerDies
  <2>2. Busy' = {}
    BY <2>1 DEF Busy
  <2> QED
    BY <2>1, <2>2, FS_EmptySet
<1>10. CASE Restart
  <2>1. workers = 0 /\ workers' \in PoolSizes /\ UNCHANGED <<queue, wpc>>
    BY <1>10 DEF Restart, workVars
  <2>2. Busy' = Busy
    BY <2>1 DEF Busy
  <2> QED
    BY <1>1, <1>3, <2>1, <2>2
<1>11. CASE UNCHANGED vars
  <2>1. UNCHANGED <<workers, queue, wpc>>
    BY <1>11 DEF vars, serverVars, workVars
  <2>2. Busy' = Busy
    BY <2>1 DEF Busy
  <2> QED
    BY <1>1, <2>1, <2>2
<1> QED
  BY <1>4, <1>5, <1>6, <1>7, <1>8, <1>9, <1>10, <1>11 DEF Next

LEMMA NextTypes ==
  ASSUME ProtocolInv, [Next]_vars
  PROVE  TypeOK' /\ MessagesOK'
<1> USE DEF ProtocolInv
<1>1. markers' \subseteq Versions
  BY NextVersionOK
<1>2. /\ objects' \subseteq Chunks
      /\ staged' \in [Versions -> References \cup {NoManifest}]
      /\ manifests' \in [Versions -> References \cup {NoManifest}]
      /\ wal' \subseteq WalRecord /\ walTorn' \in BOOLEAN
      /\ checkpoint' \subseteq Versions
  BY NextRepoTypes
<1>3. source' \in [Sessions -> Sources] /\ index' \in [Sessions -> IndexFiles]
  BY NextIndexTypes
<1>4. /\ cpc' \in [Clients -> {"idle", "hello", "query", "put", "commit"}]
      /\ content' \in [Clients -> Sources \cup {<<>>}]
      /\ \A c \in Clients : cpc'[c] # "idle" => content'[c] \in Sources
      /\ DOMAIN status' = Clients
      /\ \A c \in Clients : DOMAIN status'[c] \subseteq Nat /\ Range(status'[c]) \subseteq Chunks
      /\ next' \in [Clients -> Nat]
      /\ acked' \subseteq Versions \X Sources
  BY NextClientTypes
<1>5. /\ conn' \in [Clients -> {"none", "open", "eof"}]
      /\ DOMAIN request' = Clients /\ \A c \in Clients : GoodRequest(request'[c])
      /\ DOMAIN reply' = Clients /\ \A c \in Clients : GoodReply(reply'[c])
  BY NextMessages
<1>6. /\ wpc' \in [Clients -> {"none", "queued", "read"} \cup PutSteps \cup CommitSteps]
      /\ version' \in [Clients -> Versions \cup {0}]
      /\ manifest' \in [Clients -> References \cup {NoManifest}]
      /\ listed' \in [Clients -> SUBSET Versions]
  BY NextWorkTypes
<1>7. /\ workers' \in PoolSizes \cup {0}
      /\ queue' \in Seq(Clients)
      /\ Cardinality(Busy') <= workers'
  BY NextBusy
<1>8. TypeOK'
  BY <1>1, <1>2, <1>3, <1>4, <1>5, <1>6, <1>7 DEF TypeOK, GoodRequest, GoodReply
<1>9. MessagesOK'
  BY <1>4, <1>5 DEF MessagesOK, GoodRequest, GoodReply
<1> QED
  BY <1>8, <1>9

LEMMA InitProtocol ==
  ASSUME Init
  PROVE  ProtocolInv
<1>1. /\ cpc = [c \in Clients |-> "idle"] /\ content = [c \in Clients |-> <<>>]
      /\ status = [c \in Clients |-> <<>>] /\ next = [c \in Clients |-> 0] /\ acked = {}
      /\ conn = [c \in Clients |-> "none"]
      /\ request = [c \in Clients |-> Nothing] /\ reply = [c \in Clients |-> Nothing]
      /\ workers \in PoolSizes /\ queue = <<>>
      /\ wpc = [c \in Clients |-> "none"] /\ version = [c \in Clients |-> 0]
      /\ manifest = [c \in Clients |-> NoManifest] /\ listed = [c \in Clients |-> {}]
      /\ source \in [Sessions -> Sources] /\ index = [s \in Sessions |-> NewIndex]
  BY DEF Init
<1>2. /\ objects = {} /\ markers = {} /\ wal = {} /\ walTorn = FALSE /\ checkpoint = {}
      /\ staged = [v \in Versions |-> NoManifest] /\ manifests = [v \in Versions |-> NoManifest]
  BY DEF Init, RepoInit
<1>3. index \in [Sessions -> IndexFiles]
  <2>1. NewIndex \in IndexFiles
    BY DEF NewIndex, IndexFiles, Ends
  <2> QED
    BY <1>1, <2>1
<1>4. DOMAIN <<>> = {} /\ Range(<<>>) = {}
  BY DEF Range
<1>5. \A c \in Clients : DOMAIN status[c] \subseteq Nat /\ Range(status[c]) \subseteq Chunks
  BY <1>1, <1>4
<1>6. Cardinality(Busy) <= workers
  <2>1. Busy = {}
    BY <1>1 DEF Busy
  <2>2. workers \in Nat
    BY <1>1, UploadAssumption DEF UploadAssumption
  <2> QED
    BY <2>1, <2>2, FS_EmptySet
<1>7. TypeOK
  <2>1. /\ content \in [Clients -> Sources \cup {<<>>}]
        /\ version \in [Clients -> Versions \cup {0}]
        /\ manifest \in [Clients -> References \cup {NoManifest}]
        /\ listed \in [Clients -> SUBSET Versions]
    BY <1>1
  <2>2. /\ cpc \in [Clients -> {"idle", "hello", "query", "put", "commit"}]
        /\ conn \in [Clients -> {"none", "open", "eof"}]
        /\ wpc \in [Clients -> {"none", "queued", "read"} \cup PutSteps \cup CommitSteps]
        /\ next \in [Clients -> Nat] /\ queue \in Seq(Clients)
    BY <1>1
  <2>3. /\ staged \in [Versions -> References \cup {NoManifest}]
        /\ manifests \in [Versions -> References \cup {NoManifest}]
    BY <1>2
  <2>4. \A c \in Clients : request[c] = Nothing /\ reply[c] = Nothing
    BY <1>1
  <2> QED
    BY <1>1, <1>2, <1>3, <1>5, <1>6, <2>1, <2>2, <2>3, <2>4 DEF TypeOK
<1>8. MessagesOK /\ InStep /\ QueueOK
  BY <1>1 DEF MessagesOK, InStep, InStepAt, QueueOK, PutSteps, CommitSteps
<1>9. VersionOK
  <2>1. MayMark = {}
    BY <1>1 DEF MayMark, BeforeMark
  <2>2. nextVersion = 1
    BY <1>2 DEF nextVersion, listCommittedVersions
  <2>3. MaxVersion \in Nat
    BY RepositoryAssumption DEF RepositoryAssumption
  <2>4. nextVersion + Cardinality(MayMark) <= MaxVersion + 1
    BY <2>1, <2>2, <2>3, FS_EmptySet
  <2> QED
    BY <1>1, <2>4 DEF VersionOK, CommitSteps
<1> QED
  BY <1>7, <1>8, <1>9 DEF ProtocolInv

LEMMA NextProtocol ==
  ASSUME ProtocolInv, [Next]_vars
  PROVE  ProtocolInv'
<1>1. TypeOK /\ MessagesOK /\ InStep /\ QueueOK /\ VersionOK
  BY DEF ProtocolInv
<1> QED
  BY <1>1, NextTypes, NextInStep, NextQueue, NextVersionOK DEF ProtocolInv

\* The protocol keeps its types: requests and replies are the ones expected, no
\* more connections are served than there are workers, and a version is left for
\* every upload that may commit one.
LEMMA ProtocolInvariant == Spec => []ProtocolInv
<1>1. Init => ProtocolInv
  BY InitProtocol
<1>2. ProtocolInv /\ [Next]_vars => ProtocolInv'
  BY NextProtocol
<1> QED
  BY <1>1, <1>2, PTL DEF Spec

\* Every variable of the upload keeps its type, whoever dies when.
THEOREM UploadTypeCorrect == Spec => []TypeOK
<1>1. ProtocolInv => TypeOK
  BY DEF ProtocolInv
<1> QED
  BY <1>1, ProtocolInvariant, PTL

-----------------------------------------------------------------------------
(***************************************************************************)
(* What a step leaves alone.                                               *)
(***************************************************************************)

\* Nobody but its worker touches what a handler works on.
LEMMA HandlerAlone ==
  ASSUME ProtocolInv, [Next]_vars, NEW d \in Clients, wpc'[d] \in PutSteps \cup CommitSteps
  PROVE  \/ /\ wpc'[d] = wpc[d] /\ request'[d] = request[d]
            /\ version'[d] = version[d] /\ manifest'[d] = manifest[d] /\ listed'[d] = listed[d]
         \/ Worker(d) /\ UNCHANGED request
<1> DEFINE Alone == /\ wpc'[d] = wpc[d] /\ request'[d] = request[d]
                    /\ version'[d] = version[d] /\ manifest'[d] = manifest[d] /\ listed'[d] = listed[d]
<1>1. /\ TypeOK /\ MessagesOK /\ InStep /\ QueueOK
      /\ wpc \in [Clients -> {"none", "queued", "read"} \cup PutSteps \cup CommitSteps]
      /\ version \in [Clients -> Versions \cup {0}]
      /\ manifest \in [Clients -> References \cup {NoManifest}]
      /\ listed \in [Clients -> SUBSET Versions]
      /\ DOMAIN request = Clients
      /\ "none" \notin PutSteps \cup CommitSteps /\ "queued" \notin PutSteps \cup CommitSteps
      /\ "read" \notin PutSteps \cup CommitSteps
  BY DEF ProtocolInv, TypeOK, MessagesOK, PutSteps, CommitSteps
<1>2. ASSUME NEW c \in Clients, StartUpload(c)
      PROVE  Alone
  BY <1>1, <1>2 DEF StartUpload, accept
<1>3. ASSUME NEW c \in Clients, ClientStep(c) \/ ClientDies(c)
      PROVE  Alone
  <2>1. UNCHANGED <<wpc, version, manifest, listed>>
    BY <1>3 DEF ClientStep, GetHello, GetStatus, GetPutAck, GetCommitAck, UploadFails, ClientDies, workVars
  <2>2. request'[d] = request[d]
    <3>1. CASE GetCommitAck(c) \/ UploadFails(c) \/ ClientDies(c)
      BY <3>1 DEF GetCommitAck, UploadFails, ClientDies
    <3>2. CASE GetHello(c) \/ GetStatus(c) \/ GetPutAck(c)
      <4>1. reply[c] # Nothing
        BY <3>2 DEF GetHello, GetStatus, GetPutAck, GetReply
      <4>2. conn[c] = "open" => wpc[c] = "read"
        BY <1>1, <4>1 DEF InStep, InStepAt
      <4>3. next[c] + 1 \in Nat \ {0}
        BY <1>1 DEF TypeOK
      <4>4. \E q : send(c, q)
        BY <1>1, <3>2, <4>3, SendNext DEF GetHello, GetStatus, GetPutAck
      <4>5. \A e \in Clients \ {c} : request'[e] = request[e]
        BY <1>1, <4>4 DEF send
      <4>6. conn[c] # "open" => request' = request
        BY <4>4 DEF send
      <4> QED
        BY <1>1, <2>1, <4>2, <4>5, <4>6
    <3> QED
      BY <1>3, <3>1, <3>2 DEF ClientStep
  <2> QED
    BY <2>1, <2>2
<1>4. ASSUME NEW c \in Clients, c # d, Worker(c)
      PROVE  Alone
  <2>1. wpc'[d] = wpc[d]
    BY <1>1, <1>4, WorkerServes
  <2>2. /\ version'[d] = version[d] /\ manifest'[d] = manifest[d] /\ listed'[d] = listed[d]
        /\ request'[d] = request[d]
    <3>1. ASSUME NEW r, answer(c, r) \/ fail(c)
          PROVE  /\ version'[d] = version[d] /\ manifest'[d] = manifest[d] /\ listed'[d] = listed[d]
                 /\ request'[d] = request[d]
      BY <1>1, <1>4, <3>1 DEF answer, fail, respond
    <3>2. CASE \/ HandleHello(c) \/ HandleQuery(c) \/ AppendIndex(c) \/ AppendCut(c) \/ MarkCommitted(c)
               \/ MarkCommittedCut(c) \/ WriteFails(c)
      BY <3>1, <3>2 DEF HandleHello, HandleQuery, AppendIndex, AppendCut, MarkCommitted, MarkCommittedCut, WriteFails
    <3>3. CASE \/ HandlePut(c) \/ StoreChunk(c) \/ ReadEnd(c) \/ LogBegin(c) \/ LogWrite(c) \/ LogRename(c)
               \/ LogCommit(c) \/ WriteTmp(c) \/ Mark(c) \/ WriteCheckpoint(c)
      BY <3>3 DEF HandlePut, StoreChunk, ReadEnd, LogBegin, LogWrite, LogRename, LogCommit, Log, WriteTmp, Mark, WriteCheckpoint
    <3>4. CASE HandleCommit(c) \/ ListVersions(c)
      BY <1>1, <1>4, <3>4 DEF HandleCommit, ListVersions
    <3>5. CASE CheckIndex(c) \/ Rename(c)
      BY <3>1, <3>5 DEF CheckIndex, Rename
    <3>6. CASE BuildManifest(c)
      BY <1>1, <1>4, <3>1, <3>6 DEF BuildManifest
    <3> QED
      BY <1>4, <3>2, <3>3, <3>4, <3>5, <3>6 DEF Worker
  <2> QED
    BY <2>1, <2>2
<1>5. ASSUME Worker(d)
      PROVE  UNCHANGED request
  <2>1. ASSUME NEW r, answer(d, r) \/ fail(d)
        PROVE  FALSE
    BY <1>1, <2>1 DEF answer, fail, goto
  <2>2. ~ (\/ HandleHello(d) \/ HandleQuery(d) \/ AppendIndex(d) \/ AppendCut(d) \/ MarkCommitted(d)
           \/ MarkCommittedCut(d) \/ WriteFails(d))
    BY <2>1 DEF HandleHello, HandleQuery, AppendIndex, AppendCut, MarkCommitted, MarkCommittedCut, WriteFails
  <2>3. CASE \/ HandlePut(d) \/ StoreChunk(d) \/ ReadEnd(d) \/ LogBegin(d) \/ LogWrite(d) \/ LogRename(d)
             \/ LogCommit(d) \/ WriteTmp(d) \/ Mark(d) \/ WriteCheckpoint(d) \/ HandleCommit(d) \/ ListVersions(d)
    BY <2>3 DEF HandlePut, StoreChunk, ReadEnd, LogBegin, LogWrite, LogRename, LogCommit, Log, WriteTmp, Mark,
                WriteCheckpoint, HandleCommit, ListVersions
  <2>4. CASE CheckIndex(d) \/ Rename(d) \/ BuildManifest(d)
    BY <2>1, <2>4 DEF CheckIndex, Rename, BuildManifest
  <2> QED
    BY <1>5, <2>2, <2>3, <2>4 DEF Worker
<1>6. CASE ServeNext
  <2>1. /\ Head(queue) \in Clients
        /\ wpc' = [wpc EXCEPT ![Head(queue)] = "read"]
        /\ UNCHANGED <<request, version, manifest, listed>>
    BY <1>1, <1>6, HeadWaits DEF ServeNext, goto
  <2> QED
    BY <1>1, <2>1
<1>7. CASE ServerDies
  BY <1>1, <1>7 DEF ServerDies
<1>8. CASE Restart \/ UNCHANGED vars
  BY <1>8 DEF Restart, vars, workVars
<1> QED
  BY <1>2, <1>3, <1>4, <1>5, <1>6, <1>7, <1>8 DEF Next

\* A line is added behind the records that are there.
LEMMA LinesAdd ==
  ASSUME NEW file \in IndexFiles, NEW r \in Records
  PROVE  /\ \A k \in DOMAIN appendLine(file, r).records :
               appendLine(file, r).records[k] \in Range(file.records) \cup {r}
         /\ \A new \in cutLines(file, r, Nothing) : \A k \in DOMAIN new.records :
               new.records[k] \in Range(file.records) \cup {r, [r EXCEPT !.object = Nothing]}
<1>1. file.records \in Seq(Records) /\ file = [records |-> file.records, end |-> file.end]
  BY DEF IndexFiles
<1>2. \A q \in Records : \A k \in DOMAIN Append(file.records, q) :
         Append(file.records, q)[k] \in Range(file.records) \cup {q}
  BY <1>1 DEF Range
<1>3. \A k \in DOMAIN file.records : file.records[k] \in Range(file.records)
  BY DEF Range
<1>4. DOMAIN Unreadable.records = {}
  BY DEF Unreadable
<1>5. /\ file.end = "newline" => appendLine(file, r).records = Append(file.records, r)
      /\ file.end = "committed" => appendLine(file, r).records = file.records
      /\ file.end \notin {"newline", "committed"} => appendLine(file, r) = Unreadable
  BY <1>1 DEF appendLine
<1>6. \A k \in DOMAIN appendLine(file, r).records :
         appendLine(file, r).records[k] \in Range(file.records) \cup {r}
  BY <1>2, <1>3, <1>4, <1>5
<1>7. [r EXCEPT !.object = r.object] = r /\ [r EXCEPT !.object = Nothing] \in Records
  BY DEF Records
<1>8. \A new \in cutLines(file, r, Nothing) :
         \/ new = file \/ new = Unreadable
         \/ new.records = Append(file.records, r)
         \/ new.records = Append(file.records, [r EXCEPT !.object = Nothing])
  BY <1>7 DEF cutLines
<1>9. ASSUME NEW new \in cutLines(file, r, Nothing), NEW k \in DOMAIN new.records
      PROVE  new.records[k] \in Range(file.records) \cup {r, [r EXCEPT !.object = Nothing]}
  BY <1>2, <1>3, <1>4, <1>7, <1>8, <1>9
<1> QED
  BY <1>6, <1>9

LEMMA CommitLinesKeep ==
  ASSUME NEW file \in IndexFiles, NEW new, new = commitLine(file) \/ new \in cutCommitLines(file)
  PROVE  new.records = file.records \/ new = Unreadable
<1>1. file = [records |-> file.records, end |-> file.end]
  BY DEF IndexFiles
<1> QED
  BY <1>1 DEF commitLine, cutCommitLines

\* A record of an index was there, or a worker has just appended it.
LEMMA IndexGrows ==
  ASSUME ProtocolInv, [Next]_vars, NEW s \in Sessions, NEW k \in DOMAIN index'[s].records
  PROVE  \/ index'[s].records[k] \in Range(index[s].records)
         \/ \E c \in Clients :
               /\ SessionOf[c] = s /\ wpc[c] = "append"
               /\ \/ index'[s].records[k] = newRecord(c)
                  \/ DiskFull /\ index'[s].records[k] = [newRecord(c) EXCEPT !.object = Nothing]
<1>1. /\ TypeOK /\ MessagesOK /\ InStep /\ VersionOK
      /\ index \in [Sessions -> IndexFiles]
      /\ \A c \in Clients : SessionOf[c] \in Sessions
  BY UploadAssumption DEF UploadAssumption, ProtocolInv, TypeOK
<1>2. CASE index' = index
  BY <1>2 DEF Range
<1>3. ASSUME NEW c \in Clients, AppendIndex(c) \/ AppendCut(c), SessionOf[c] = s
      PROVE  /\ wpc[c] = "append"
             /\ \/ index'[s].records[k] \in Range(index[s].records)
                \/ index'[s].records[k] = newRecord(c)
                \/ DiskFull /\ index'[s].records[k] = [newRecord(c) EXCEPT !.object = Nothing]
  <2>1. newRecord(c) \in Records /\ index[s] \in IndexFiles
    BY <1>1, <1>3, HandlerTypes DEF AppendIndex, AppendCut, PutSteps
  <2>2. \/ index'[s] = appendLine(index[s], newRecord(c))
        \/ DiskFull /\ index'[s] \in cutLines(index[s], newRecord(c), Nothing)
    BY <1>1, <1>3 DEF AppendIndex, AppendCut, session
  <2>3. wpc[c] = "append"
    BY <1>3 DEF AppendIndex, AppendCut
  <2> QED
    BY <2>1, <2>2, <2>3, LinesAdd
<1>4. ASSUME NEW c \in Clients, MarkCommitted(c) \/ MarkCommittedCut(c), SessionOf[c] = s
      PROVE  index'[s].records[k] \in Range(index[s].records)
  <2>1. index'[s] = commitLine(index[s]) \/ index'[s] \in cutCommitLines(index[s])
    BY <1>1, <1>4 DEF MarkCommitted, MarkCommittedCut, session
  <2>2. index'[s].records = index[s].records \/ index'[s] = Unreadable
    BY <1>1, <2>1, CommitLinesKeep
  <2>3. DOMAIN Unreadable.records = {}
    BY DEF Unreadable
  <2> QED
    BY <2>2, <2>3 DEF Range
<1>5. ASSUME NEW c \in Clients, AppendIndex(c) \/ AppendCut(c) \/ MarkCommitted(c) \/ MarkCommittedCut(c),
             SessionOf[c] # s
      PROVE  index'[s] = index[s]
  BY <1>1, <1>5 DEF AppendIndex, AppendCut, MarkCommitted, MarkCommittedCut, session
<1>6. ASSUME NEW c \in Clients, StartUpload(c) \/ ClientStep(c) \/ ClientDies(c)
      PROVE  index' = index
  BY <1>6 DEF StartUpload, ClientStep, GetHello, GetStatus, GetPutAck, GetCommitAck, UploadFails, ClientDies
<1>7. ASSUME NEW c \in Clients, Worker(c), ~ AppendIndex(c), ~ AppendCut(c), ~ MarkCommitted(c), ~ MarkCommittedCut(c)
      PROVE  index' = index
  BY <1>7 DEF Worker, HandleHello, HandleQuery, HandlePut, StoreChunk, CheckIndex, HandleCommit,
         LogBegin, BuildManifest, WriteTmp, LogWrite, Rename, LogRename, Mark, LogCommit, Log,
         ListVersions, WriteCheckpoint, ReadEnd, WriteFails
<1>8. CASE ServeNext \/ ServerDies \/ Restart \/ UNCHANGED vars
  <2>1. index' = index
    BY <1>8 DEF ServeNext, ServerDies, Restart, vars
  <2> QED
    BY <1>2, <2>1
<1>9. ASSUME NEW c \in Clients, AppendIndex(c) \/ AppendCut(c) \/ MarkCommitted(c) \/ MarkCommittedCut(c)
      PROVE  \/ index'[s].records[k] \in Range(index[s].records)
             \/ \E d \in Clients :
                   /\ SessionOf[d] = s /\ wpc[d] = "append"
                   /\ \/ index'[s].records[k] = newRecord(d)
                      \/ DiskFull /\ index'[s].records[k] = [newRecord(d) EXCEPT !.object = Nothing]
  <2>1. CASE SessionOf[c] # s
    BY <1>5, <1>9, <2>1 DEF Range
  <2>2. CASE SessionOf[c] = s
    BY <1>3, <1>4, <1>9, <2>2
  <2> QED
    BY <2>1, <2>2
<1> QED
  BY <1>2, <1>6, <1>7, <1>8, <1>9 DEF Next

-----------------------------------------------------------------------------
(***************************************************************************)
(* The index never runs ahead of the objects.                              *)
(***************************************************************************)

\* Objects are never removed, and StoreChunk alone adds one.
LEMMA ObjectsKept ==
  ASSUME [Next]_vars
  PROVE  /\ objects \subseteq objects'
         /\ \A c \in Clients : StoreChunk(c) => request[c].record.chunk \in objects'
<1>1. ASSUME NEW c \in Clients, StartUpload(c) \/ ClientStep(c) \/ ClientDies(c)
      PROVE  objects' = objects
  BY <1>1 DEF StartUpload, ClientStep, GetHello, GetStatus, GetPutAck, GetCommitAck, UploadFails, ClientDies, repoVars
<1>2. ASSUME NEW c \in Clients, StoreChunk(c)
      PROVE  objects \subseteq objects' /\ request[c].record.chunk \in objects'
  BY <1>2 DEF StoreChunk, putRaw
<1>3. ASSUME NEW c \in Clients, Worker(c), ~ StoreChunk(c)
      PROVE  objects' = objects
  BY <1>3 DEF Worker, HandleHello, HandleQuery, HandlePut, CheckIndex, AppendIndex, HandleCommit,
         LogBegin, BuildManifest, WriteTmp, LogWrite, Rename, renameTmpToManifest, LogRename, Mark, LogCommit, Log,
         ListVersions, WriteCheckpoint, MarkCommitted, ReadEnd, AppendCut, MarkCommittedCut,
         WriteFails, repoVars
<1>4. CASE ServeNext \/ ServerDies \/ Restart \/ UNCHANGED vars
  <2>1. objects' = objects
    BY <1>4 DEF ServeNext, ServerDies, Restart, vars, repoVars
  <2>2. ASSUME NEW c \in Clients, StoreChunk(c)
        PROVE  request[c].record.chunk \in objects'
    BY <1>2, <2>2
  <2> QED
    BY <2>1, <2>2
<1> QED
  BY <1>1, <1>2, <1>3, <1>4 DEF Next

\* The calls of a PUT_CHUNK come one after the other.
LEMMA PutOrder ==
  ASSUME TypeOK, NEW c \in Clients, Worker(c)
  PROVE  /\ wpc'[c] = "store" => HandlePut(c)
         /\ wpc'[c] = "check" => StoreChunk(c)
         /\ wpc'[c] = "append" => CheckIndex(c) /\ wpc[c] = "check"
<1>1. wpc \in [Clients -> {"none", "queued", "read"} \cup PutSteps \cup CommitSteps]
  BY DEF TypeOK
<1>2. ASSUME NEW l, goto(c, l)
      PROVE  wpc'[c] = l
  BY <1>1, <1>2 DEF goto
<1>3. ASSUME NEW r, answer(c, r) \/ fail(c)
      PROVE  wpc'[c] \in {"read", "none"}
  BY <1>2, <1>3 DEF answer, fail
<1>4. CASE \/ HandleHello(c) \/ HandleQuery(c) \/ AppendIndex(c) \/ AppendCut(c) \/ MarkCommitted(c)
           \/ MarkCommittedCut(c) \/ WriteFails(c)
  BY <1>3, <1>4 DEF HandleHello, HandleQuery, AppendIndex, AppendCut, MarkCommitted, MarkCommittedCut, WriteFails
<1>5. CASE \/ HandlePut(c) \/ StoreChunk(c) \/ ReadEnd(c) \/ LogBegin(c) \/ LogWrite(c) \/ LogRename(c)
           \/ LogCommit(c) \/ WriteTmp(c) \/ Mark(c) \/ WriteCheckpoint(c) \/ HandleCommit(c) \/ ListVersions(c)
  BY <1>2, <1>5 DEF HandlePut, StoreChunk, ReadEnd, LogBegin, LogWrite, LogRename, LogCommit, Log, WriteTmp, Mark,
                    WriteCheckpoint, HandleCommit, ListVersions
<1>6. CASE CheckIndex(c) \/ Rename(c) \/ BuildManifest(c)
  BY <1>2, <1>3, <1>6 DEF CheckIndex, Rename, BuildManifest
<1> QED
  BY <1>4, <1>5, <1>6 DEF Worker

LEMMA NextStored ==
  ASSUME ProtocolInv, StoredOK, [Next]_vars
  PROVE  StoredOK'
<1>1. IndexIsStored'
  <2> SUFFICES ASSUME NEW s \in Sessions, NEW k \in DOMAIN index'[s].records
               PROVE  index'[s].records[k].chunk \in objects'
    BY DEF IndexIsStored
  <2>1. CASE index'[s].records[k] \in Range(index[s].records)
    <3>1. index'[s].records[k].chunk \in objects
      BY <2>1 DEF StoredOK, IndexIsStored, Range
    <3> QED
      BY <3>1, ObjectsKept
  <2>2. ASSUME NEW c \in Clients, wpc[c] = "append",
               \/ index'[s].records[k] = newRecord(c)
               \/ index'[s].records[k] = [newRecord(c) EXCEPT !.object = Nothing]
        PROVE  index'[s].records[k].chunk \in objects'
    <3>1. request[c].record.chunk \in objects
      BY <2>2 DEF StoredOK
    <3>2. index'[s].records[k].chunk = request[c].record.chunk
      BY <2>2 DEF newRecord
    <3> QED
      BY <3>1, <3>2, ObjectsKept
  <2>3. \/ index'[s].records[k] \in Range(index[s].records)
        \/ \E c \in Clients :
              /\ SessionOf[c] = s /\ wpc[c] = "append"
              /\ \/ index'[s].records[k] = newRecord(c)
                 \/ DiskFull /\ index'[s].records[k] = [newRecord(c) EXCEPT !.object = Nothing]
    BY IndexGrows
  <2> QED
    BY <2>1, <2>2, <2>3
<1>2. ASSUME NEW d \in Clients, wpc'[d] \in {"check", "append"}
      PROVE  request'[d].record.chunk \in objects'
  <2>1. wpc'[d] \in PutSteps \cup CommitSteps
    BY <1>2 DEF PutSteps
  <2>2. CASE wpc'[d] = wpc[d] /\ request'[d] = request[d]
    BY <1>2, <2>2, ObjectsKept DEF StoredOK
  <2>3. CASE Worker(d) /\ UNCHANGED request
    <3>1. StoreChunk(d) \/ wpc[d] = "check"
      BY <1>2, <2>3, PutOrder DEF ProtocolInv
    <3> QED
      BY <2>3, <3>1, ObjectsKept DEF StoredOK
  <2> QED
    BY <2>1, <2>2, <2>3, HandlerAlone
<1> QED
  BY <1>1, <1>2 DEF StoredOK

LEMMA StoredInvariant == Spec => [](ProtocolInv /\ StoredOK)
<1>1. Init => StoredOK
  <2> SUFFICES ASSUME Init
               PROVE  StoredOK
    OBVIOUS
  <2>1. \A s \in Sessions : index[s].records = <<>>
    BY DEF Init, NewIndex
  <2>2. \A c \in Clients : wpc[c] = "none"
    BY DEF Init
  <2> QED
    BY <2>1, <2>2 DEF StoredOK, IndexIsStored
<1>2. ProtocolInv /\ StoredOK /\ [Next]_vars => StoredOK'
  BY NextStored
<1> QED
  BY <1>1, <1>2, ProtocolInvariant, PTL DEF Spec

\* Whatever a session's index says the server has is in the object store, after
\* any number of deaths, overtaking workers and full disks: the status that a
\* resumed upload relies on to skip chunks never promises too much.
THEOREM StatusIsStored == Spec => []IndexIsStored
<1>1. StoredOK => IndexIsStored
  BY DEF StoredOK
<1> QED
  BY <1>1, StoredInvariant, PTL

-----------------------------------------------------------------------------
(***************************************************************************)
(* Sources that stay the same between the uploads of a session.            *)
(***************************************************************************)
LEMMA SourceKept ==
  ASSUME SourceStable, TypeOK, [Next]_vars
  PROVE  source' = source
<1>1. source \in [Sessions -> Sources]
  BY DEF TypeOK
<1>2. ASSUME NEW c \in Clients, StartUpload(c)
      PROVE  source' = source
  <2>1. source' = [source EXCEPT ![SessionOf[c]] = source[SessionOf[c]]]
    BY <1>2 DEF StartUpload, sourceNow, SourceStable
  <2> QED
    BY <1>1, <2>1
<1>3. ASSUME NEW c \in Clients, ClientStep(c) \/ ClientDies(c)
      PROVE  source' = source
  BY <1>3 DEF ClientStep, GetHello, GetStatus, GetPutAck, GetCommitAck, UploadFails, ClientDies
<1>4. ASSUME NEW c \in Clients, Worker(c)
      PROVE  source' = source
  BY <1>4 DEF Worker, HandleHello, HandleQuery, HandlePut, StoreChunk, CheckIndex, AppendIndex, HandleCommit,
         LogBegin, BuildManifest, WriteTmp, LogWrite, Rename, LogRename, Mark, LogCommit, Log,
         ListVersions, WriteCheckpoint, MarkCommitted, ReadEnd, AppendCut, MarkCommittedCut,
         WriteFails
<1>5. CASE ServeNext \/ ServerDies \/ Restart \/ UNCHANGED vars
  BY <1>5 DEF ServeNext, ServerDies, Restart, vars
<1> QED
  BY <1>2, <1>3, <1>4, <1>5 DEF Next

\* A request is sent by its client, from what it has read, or it is gone.
LEMMA RequestSent ==
  ASSUME ProtocolInv, [Next]_vars, NEW d \in Clients, request'[d] # Nothing,
         request'[d].type \in {"put", "commit"}
  PROVE  request'[d] = request[d] \/ (cpc[d] # "idle" /\ request'[d] \in Sendable(d))
<1> DEFINE Sent == request'[d] = request[d] \/ (cpc[d] # "idle" /\ request'[d] \in Sendable(d))
<1>1. TypeOK /\ MessagesOK /\ InStep /\ DOMAIN request = Clients
  BY DEF ProtocolInv, MessagesOK
<1>2. ASSUME NEW c \in Clients, StartUpload(c)
      PROVE  Sent
  <2>1. request' = [request EXCEPT ![c] = [type |-> "hello"]]
    BY <1>2 DEF StartUpload
  <2> QED
    BY <1>1, <2>1
<1>3. ASSUME NEW c \in Clients, ClientStep(c) \/ ClientDies(c)
      PROVE  Sent
  <2>1. CASE GetHello(c)
    BY <1>1, <2>1 DEF GetHello, send
  <2>2. CASE GetStatus(c) \/ GetPutAck(c)
    <3>1. next[c] + 1 \in Nat \ {0}
      BY <1>1 DEF TypeOK
    <3>2. PICK q \in Sendable(c) : send(c, q)
      BY <1>1, <2>2, <3>1, SendNext DEF GetStatus, GetPutAck
    <3>3. cpc[c] # "idle"
      BY <2>2 DEF GetStatus, GetPutAck, GetReply
    <3> QED
      BY <1>1, <3>2, <3>3 DEF send
  <2>3. CASE GetCommitAck(c) \/ UploadFails(c) \/ ClientDies(c)
    BY <2>3 DEF GetCommitAck, UploadFails, ClientDies
  <2> QED
    BY <1>3, <2>1, <2>2, <2>3 DEF ClientStep
<1>4. ASSUME NEW c \in Clients, Worker(c)
      PROVE  Sent
  <2>1. ASSUME NEW r, answer(c, r) \/ fail(c)
        PROVE  Sent
    BY <1>1, <2>1 DEF answer, fail
  <2>2. CASE \/ HandleHello(c) \/ HandleQuery(c) \/ AppendIndex(c) \/ AppendCut(c) \/ MarkCommitted(c)
             \/ MarkCommittedCut(c) \/ WriteFails(c)
    BY <2>1, <2>2 DEF HandleHello, HandleQuery, AppendIndex, AppendCut, MarkCommitted, MarkCommittedCut, WriteFails
  <2>3. CASE \/ HandlePut(c) \/ StoreChunk(c) \/ ReadEnd(c) \/ LogBegin(c) \/ LogWrite(c) \/ LogRename(c)
             \/ LogCommit(c) \/ WriteTmp(c) \/ Mark(c) \/ WriteCheckpoint(c) \/ HandleCommit(c) \/ ListVersions(c)
    BY <2>3 DEF HandlePut, StoreChunk, ReadEnd, LogBegin, LogWrite, LogRename, LogCommit, Log, WriteTmp, Mark,
                WriteCheckpoint, HandleCommit, ListVersions
  <2>4. CASE CheckIndex(c) \/ Rename(c) \/ BuildManifest(c)
    BY <2>1, <2>4 DEF CheckIndex, Rename, BuildManifest
  <2> QED
    BY <1>4, <2>2, <2>3, <2>4 DEF Worker
<1>5. CASE ServeNext \/ ServerDies \/ Restart \/ UNCHANGED vars
  BY <1>5 DEF ServeNext, ServerDies, Restart, vars
<1> QED
  BY <1>2, <1>3, <1>4, <1>5 DEF Next

\* A client keeps what it has read until it ends.
LEMMA ContentKept ==
  ASSUME SourceStable, ProtocolInv, [Next]_vars, NEW d \in Clients, cpc'[d] # "idle"
  PROVE  \/ cpc[d] # "idle" /\ content'[d] = content[d]
         \/ content'[d] = source[SessionOf[d]]
<1> DEFINE Kept == \/ cpc[d] # "idle" /\ content'[d] = content[d]
                   \/ content'[d] = source[SessionOf[d]]
<1>1. /\ TypeOK /\ cpc \in [Clients -> {"idle", "hello", "query", "put", "commit"}]
      /\ content \in [Clients -> Sources \cup {<<>>}]
  BY DEF ProtocolInv, TypeOK
<1>2. ASSUME NEW c \in Clients, StartUpload(c)
      PROVE  Kept
  <2>1. content' = [content EXCEPT ![c] = source[SessionOf[c]]] /\ cpc' = [cpc EXCEPT ![c] = "hello"]
    BY <1>2 DEF StartUpload, sourceNow, SourceStable
  <2> QED
    BY <1>1, <2>1
<1>3. ASSUME NEW c \in Clients, GetHello(c) \/ GetStatus(c) \/ GetPutAck(c)
      PROVE  Kept
  <2>1. cpc[c] # "idle" /\ UNCHANGED content
    BY <1>3 DEF GetHello, GetStatus, GetPutAck, GetReply
  <2>2. next[c] + 1 \in Nat \ {0}
    BY <1>1 DEF TypeOK
  <2>3. \E q : send(c, q)
    BY <1>1, <1>3, <2>2, SendNext DEF GetHello, GetStatus, GetPutAck
  <2>4. \A e \in Clients \ {c} : cpc'[e] = cpc[e]
    BY <1>1, <2>3 DEF send
  <2> QED
    BY <2>1, <2>4
<1>4. ASSUME NEW c \in Clients, GetCommitAck(c) \/ UploadFails(c) \/ ClientDies(c)
      PROVE  Kept
  <2>1. leave(c)
    BY <1>4 DEF GetCommitAck, UploadFails, ClientDies
  <2> QED
    BY <1>1, <2>1 DEF leave
<1>5. ASSUME NEW c \in Clients, Worker(c)
      PROVE  UNCHANGED <<cpc, content>>
  BY <1>5 DEF Worker, HandleHello, HandleQuery, HandlePut, StoreChunk, CheckIndex, AppendIndex, HandleCommit,
         LogBegin, BuildManifest, WriteTmp, LogWrite, Rename, LogRename, Mark, LogCommit, Log,
         ListVersions, WriteCheckpoint, MarkCommitted, ReadEnd, AppendCut, MarkCommittedCut,
         WriteFails, clientVars
<1>6. CASE ServeNext \/ ServerDies \/ Restart \/ UNCHANGED vars
  BY <1>6 DEF ServeNext, ServerDies, Restart, vars, clientVars
<1> QED
  BY <1>2, <1>3, <1>4, <1>5, <1>6 DEF Next, ClientStep

LEMMA NextClientReads ==
  ASSUME SourceStable, ProtocolInv, ClientReadsOK, [Next]_vars
  PROVE  ClientReadsOK'
<1> SUFFICES ASSUME NEW d \in Clients
             PROVE  LET src == source'[SessionOf[d]] IN
                    /\ cpc'[d] # "idle" => content'[d] = src
                    /\ request'[d] # Nothing /\ request'[d].type = "put" =>
                          /\ request'[d].record.index \in 1 .. Len(src)
                          /\ request'[d].record = prepared(src, request'[d].record.index)
                    /\ request'[d] # Nothing /\ request'[d].type = "commit" => request'[d].total = Len(src)
  BY DEF ClientReadsOK
<1> DEFINE src == source[SessionOf[d]]
<1>1. source' = source
  BY SourceKept DEF ProtocolInv
<1>2. cpc'[d] # "idle" => content'[d] = src
  BY ContentKept DEF ClientReadsOK
<1>3. ASSUME request'[d] # Nothing, request'[d].type \in {"put", "commit"}, request'[d] # request[d]
      PROVE  /\ request'[d].type = "put" =>
                  /\ request'[d].record.index \in 1 .. Len(src)
                  /\ request'[d].record = prepared(src, request'[d].record.index)
             /\ request'[d].type = "commit" => request'[d].total = Len(src)
  <2>1. cpc[d] # "idle" /\ request'[d] \in Sendable(d)
    BY <1>3, RequestSent
  <2>2. content[d] = src
    BY <2>1 DEF ClientReadsOK
  <2>3. CASE request'[d] = [type |-> "commit", total |-> Len(content[d])]
    BY <2>2, <2>3
  <2>4. ASSUME NEW j \in 1 .. Len(content[d]), request'[d] = putRequest(d, j)
        PROVE  /\ request'[d].type = "put"
               /\ request'[d].record.index \in 1 .. Len(src)
               /\ request'[d].record = prepared(src, request'[d].record.index)
    BY <2>2, <2>4 DEF putRequest, prepared
  <2> QED
    BY <2>1, <2>3, <2>4 DEF Sendable
<1>4. ASSUME request'[d] # Nothing, request'[d].type \in {"put", "commit"}, request'[d] = request[d]
      PROVE  /\ request'[d].type = "put" =>
                  /\ request'[d].record.index \in 1 .. Len(src)
                  /\ request'[d].record = prepared(src, request'[d].record.index)
             /\ request'[d].type = "commit" => request'[d].total = Len(src)
  BY <1>4 DEF ClientReadsOK
<1> HIDE DEF src
<1> QED
  BY <1>1, <1>2, <1>3, <1>4 DEF src

LEMMA NextRecords ==
  ASSUME SourceStable, ProtocolInv, ClientReadsOK, RecordsOK, [Next]_vars
  PROVE  RecordsOK'
<1> SUFFICES ASSUME NEW s \in Sessions, NEW k \in DOMAIN index'[s].records
             PROVE  RecordOf(index'[s].records[k], source[s])
  <2>1. source' = source
    BY SourceKept DEF ProtocolInv
  <2> QED
    BY <2>1 DEF RecordsOK, RecordOf, Paths
<1>1. CASE index'[s].records[k] \in Range(index[s].records)
  BY <1>1 DEF RecordsOK, Range
<1>2. ASSUME NEW c \in Clients, SessionOf[c] = s, wpc[c] = "append",
             \/ index'[s].records[k] = newRecord(c)
             \/ DiskFull /\ index'[s].records[k] = [newRecord(c) EXCEPT !.object = Nothing]
      PROVE  RecordOf(index'[s].records[k], source[s])
  <2>1. request[c] # Nothing /\ request[c].type = "put"
    BY <1>2 DEF ProtocolInv, InStep, InStepAt, PutSteps
  <2>2. /\ request[c].record.index \in 1 .. Len(source[s])
        /\ request[c].record = prepared(source[s], request[c].record.index)
    BY <1>2, <2>1 DEF ClientReadsOK
  <2>3. RecordOf(newRecord(c), source[s])
    BY <2>2 DEF newRecord, RecordOf, prepared, Paths
  <2>4. DiskFull => RecordOf([newRecord(c) EXCEPT !.object = Nothing], source[s])
    BY <2>3 DEF newRecord, RecordOf, Paths
  <2> QED
    BY <1>2, <2>3, <2>4
<1>3. \/ index'[s].records[k] \in Range(index[s].records)
      \/ \E c \in Clients :
            /\ SessionOf[c] = s /\ wpc[c] = "append"
            /\ \/ index'[s].records[k] = newRecord(c)
               \/ DiskFull /\ index'[s].records[k] = [newRecord(c) EXCEPT !.object = Nothing]
  BY IndexGrows
<1> QED
  BY <1>1, <1>2, <1>3

\* When every index is there, the k-th smallest is k.
LEMMA AllIndices ==
  ASSUME NEW records \in Seq(Records), NEW n \in Nat, Indices(records) = 1 .. n
  PROVE  /\ Cardinality(Indices(records)) = n
         /\ \A k \in 1 .. n : nthIndex(records, k) = k
<1>1. Cardinality(1 .. n) = n
  BY FS_Interval
<1>2. ASSUME NEW k \in 1 .. n
      PROVE  nthIndex(records, k) = k
  <2> DEFINE i == nthIndex(records, k)
  <2>1. i \in 1 .. n /\ Cardinality(UpTo(1 .. n, i)) = k
    BY <1>1, NthIndex
  <2> HIDE DEF i
  <2>2. UpTo(1 .. n, i) = 1 .. i
    BY <2>1 DEF UpTo
  <2>3. Cardinality(1 .. i) = i
    BY <2>1, FS_Interval
  <2>4. i = k
    BY <2>1, <2>2, <2>3
  <2> QED
    BY <2>4 DEF i
<1> QED
  BY <1>1, <1>2

\* The manifest of a complete session is that of its source.
LEMMA BuiltManifest ==
  ASSUME NEW records \in Seq(Records), NEW src \in Seq(Chunks),
         Buildable(records, Len(src)),
         \A k \in DOMAIN records : RecordOf(records[k], src) /\ records[k].chunk \in objects
  PROVE  ManifestOf(buildManifest(records), src, objects)
<1> DEFINE n == Len(src)
           m == buildManifest(records)
<1>1. n \in Nat
  OBVIOUS
<1>2. Indices(records) = 1 .. n
  BY DEF Indices, Buildable, RecordOf
<1>3. Cardinality(Indices(records)) = n /\ \A k \in 1 .. n : nthIndex(records, k) = k
  BY <1>1, <1>2, AllIndices
<1>4. \A i \in 1 .. n : /\ lastRecord(records, i).object \in Paths(src[i])
                        /\ lastRecord(records, i).size = n /\ lastRecord(records, i).digest = src
                        /\ src[i] \in objects
  <2> TAKE i \in 1 .. n
  <2>1. PICK k \in DOMAIN records : records[k].index = i /\ lastRecord(records, i) = records[k]
    BY <1>2, LastRecord
  <2>2. RecordOf(records[k], src) /\ records[k].chunk \in objects
    OBVIOUS
  <2> QED
    BY <2>1, <2>2 DEF RecordOf
<1>5. Range(src) \subseteq objects
  BY <1>4 DEF Range
<1>6. CASE n = 0
  <2>1. m = [chunks |-> <<>>, size |-> 0, digest |-> <<>>]
    BY <1>3, <1>6 DEF buildManifest
  <2>2. src = <<>>
    BY <1>6
  <2> QED
    BY <1>5, <2>1, <2>2 DEF ManifestOf
<1>7. CASE n # 0
  <2> DEFINE ch == [k \in 1 .. n |-> lastRecord(records, nthIndex(records, k)).object]
             first == lastRecord(records, nthIndex(records, 1))
  <2>1. m = [chunks |-> ch, size |-> first.size, digest |-> first.digest]
    BY <1>3, <1>7 DEF buildManifest
  <2>2. first.size = n /\ first.digest = src
    BY <1>1, <1>3, <1>4, <1>7
  <2>3. Len(ch) = n
    BY <1>1
  <2>4. \A k \in 1 .. n : ch[k] \in Paths(src[k])
    BY <1>3, <1>4
  <2> HIDE DEF ch, first
  <2> QED
    BY <1>5, <2>1, <2>2, <2>3, <2>4 DEF ManifestOf
<1> QED
  BY <1>6, <1>7

\* The steps of a commit that change the repository's manifests and markers.
LEMMA CommitSteppedOn ==
  ASSUME ProtocolInv, [Next]_vars
  PROVE  \/ UNCHANGED <<staged, manifests, markers>>
         \/ \E c \in Clients :
               /\ WriteTmp(c) /\ version[c] \in Versions
               /\ staged' = [staged EXCEPT ![version[c]] = manifest[c]]
               /\ UNCHANGED <<manifests, markers>>
         \/ \E c \in Clients :
               /\ Rename(c) /\ version[c] \in Versions
               /\ staged[version[c]] # NoManifest
               /\ manifests' = [manifests EXCEPT ![version[c]] = staged[version[c]]]
               /\ staged' = [staged EXCEPT ![version[c]] = NoManifest]
               /\ UNCHANGED markers
         \/ \E c \in Clients :
               /\ Mark(c) /\ version[c] \in Versions
               /\ markers' = markers \cup {version[c]}
               /\ UNCHANGED <<staged, manifests>>
<1>1. \A c \in Clients : wpc[c] \in CommitSteps => version[c] \in Versions
  BY HandlerTypes DEF ProtocolInv
<1>2. ASSUME NEW c \in Clients, StartUpload(c) \/ ClientStep(c) \/ ClientDies(c)
      PROVE  UNCHANGED <<staged, manifests, markers>>
  BY <1>2 DEF StartUpload, ClientStep, GetHello, GetStatus, GetPutAck, GetCommitAck, UploadFails, ClientDies, repoVars
<1>3. ASSUME NEW c \in Clients, WriteTmp(c)
      PROVE  /\ version[c] \in Versions
             /\ staged' = [staged EXCEPT ![version[c]] = manifest[c]]
             /\ UNCHANGED <<manifests, markers>>
  BY <1>1, <1>3 DEF WriteTmp, CommitSteps
<1>4. ASSUME NEW c \in Clients, Rename(c)
      PROVE  \/ UNCHANGED <<staged, manifests, markers>>
             \/ /\ version[c] \in Versions
                /\ staged[version[c]] # NoManifest
                /\ manifests' = [manifests EXCEPT ![version[c]] = staged[version[c]]]
                /\ staged' = [staged EXCEPT ![version[c]] = NoManifest]
                /\ UNCHANGED markers
  BY <1>1, <1>4 DEF Rename, renameTmpToManifest, CommitSteps
<1>5. ASSUME NEW c \in Clients, Mark(c)
      PROVE  /\ version[c] \in Versions
             /\ markers' = markers \cup {version[c]}
             /\ UNCHANGED <<staged, manifests>>
  BY <1>1, <1>5 DEF Mark, createMarker, CommitSteps
<1>6. ASSUME NEW c \in Clients, Worker(c), ~ WriteTmp(c), ~ Rename(c), ~ Mark(c)
      PROVE  UNCHANGED <<staged, manifests, markers>>
  BY <1>6 DEF Worker, HandleHello, HandleQuery, HandlePut, StoreChunk, CheckIndex, AppendIndex, HandleCommit,
         LogBegin, BuildManifest, LogWrite, LogRename, LogCommit, Log,
         ListVersions, WriteCheckpoint, MarkCommitted, ReadEnd, AppendCut, MarkCommittedCut,
         WriteFails, repoVars
<1>7. CASE ServeNext \/ ServerDies \/ Restart \/ UNCHANGED vars
  BY <1>7 DEF ServeNext, ServerDies, Restart, vars, repoVars
<1> QED
  BY <1>2, <1>3, <1>4, <1>5, <1>6, <1>7 DEF Next

\* The calls of a COMMIT come one after the other.
LEMMA CommitOrder ==
  ASSUME TypeOK, NEW c \in Clients, Worker(c), wpc'[c] \in CommitSteps
  PROVE  /\ wpc'[c] = "begin" => HandleCommit(c)
         /\ wpc'[c] = "build" => wpc[c] = "begin"
         /\ wpc'[c] = "writeTmp" => BuildManifest(c) /\ wpc[c] = "build"
         /\ wpc'[c] = "logWrite" => WriteTmp(c)
         /\ wpc'[c] = "rename" => wpc[c] = "logWrite"
         /\ wpc'[c] = "logRename" => Rename(c)
         /\ wpc'[c] = "mark" => wpc[c] = "logRename"
         /\ wpc'[c] = "logCommit" => Mark(c)
         /\ wpc'[c] = "list" => wpc[c] = "logCommit"
         /\ wpc'[c] = "checkpoint" => wpc[c] = "list"
         /\ wpc'[c] = "markCommitted" => wpc[c] = "checkpoint"
         /\ wpc'[c] # "writeTmp" => UNCHANGED manifest
         /\ wpc'[c] # "begin" => UNCHANGED version
<1>1. wpc \in [Clients -> {"none", "queued", "read"} \cup PutSteps \cup CommitSteps]
  BY DEF TypeOK
<1>2. ASSUME NEW l, goto(c, l)
      PROVE  wpc'[c] = l
  BY <1>1, <1>2 DEF goto
<1>3. ASSUME NEW r, answer(c, r) \/ fail(c)
      PROVE  FALSE
  BY <1>2, <1>3 DEF answer, fail, CommitSteps
<1>4. CASE \/ HandleHello(c) \/ HandleQuery(c) \/ AppendIndex(c) \/ AppendCut(c) \/ MarkCommitted(c)
           \/ MarkCommittedCut(c) \/ WriteFails(c)
  BY <1>3, <1>4 DEF HandleHello, HandleQuery, AppendIndex, AppendCut, MarkCommitted, MarkCommittedCut, WriteFails
<1>5. CASE HandlePut(c) \/ StoreChunk(c) \/ ReadEnd(c) \/ CheckIndex(c)
  BY <1>2, <1>3, <1>5 DEF HandlePut, StoreChunk, ReadEnd, CheckIndex, CommitSteps
<1>6. CASE HandleCommit(c) \/ WriteTmp(c) \/ Mark(c) \/ WriteCheckpoint(c) \/ ListVersions(c)
  BY <1>2, <1>6 DEF HandleCommit, WriteTmp, Mark, WriteCheckpoint, ListVersions
<1>7. CASE LogBegin(c) \/ LogWrite(c) \/ LogRename(c) \/ LogCommit(c)
  BY <1>2, <1>7 DEF LogBegin, LogWrite, LogRename, LogCommit, Log
<1>8. CASE BuildManifest(c)
  BY <1>2, <1>3, <1>8 DEF BuildManifest
<1>9. CASE Rename(c)
  BY <1>2, <1>3, <1>9 DEF Rename
<1> QED
  BY <1>4, <1>5, <1>6, <1>7, <1>8, <1>9 DEF Worker

\* Objects stay, so a manifest of a source stays one.
LEMMA ManifestStays ==
  ASSUME NEW m, NEW src, NEW few, NEW more, few \subseteq more, ManifestOf(m, src, few)
  PROVE  ManifestOf(m, src, more)
BY DEF ManifestOf

LEMMA NextManifests ==
  ASSUME SourceStable, ProtocolInv, StoredOK, ClientReadsOK, RecordsOK, ManifestsOK, [Next]_vars
  PROVE  ManifestsOK'
<1>1. /\ source' = source /\ objects \subseteq objects' /\ TypeOK
      /\ index \in [Sessions -> IndexFiles] /\ source \in [Sessions -> Sources]
      /\ staged \in [Versions -> References \cup {NoManifest}]
      /\ manifests \in [Versions -> References \cup {NoManifest}]
      /\ manifest \in [Clients -> References \cup {NoManifest}]
      /\ \A c \in Clients : SessionOf[c] \in Sessions
      /\ Sources \subseteq Seq(Chunks)
  BY SourceKept, ObjectsKept, UploadAssumption DEF UploadAssumption, ProtocolInv, TypeOK
\* A complete session's manifest.
<1>2. ASSUME NEW d \in Clients, BuildManifest(d), wpc'[d] = "writeTmp"
      PROVE  ManifestOf(manifest'[d], source[SessionOf[d]], objects')
  <2> DEFINE records == index[SessionOf[d]].records
             src == source[SessionOf[d]]
  <2>1. wpc[d] = "build" /\ request[d] # Nothing /\ request[d].type = "commit"
    BY <1>2 DEF BuildManifest, ProtocolInv, InStep, InStepAt, CommitSteps
  <2>2. request[d].total = Len(src)
    BY <2>1 DEF ClientReadsOK
  <2>3. ~ fail(d)
    <3>1. wpc \in [Clients -> {"none", "queued", "read"} \cup PutSteps \cup CommitSteps]
      BY <1>1 DEF TypeOK
    <3> QED
      BY <1>2, <3>1 DEF fail, goto
  <2>4. Buildable(records, request[d].total) /\ manifest' = [manifest EXCEPT ![d] = buildManifest(records)]
    BY <1>2, <2>3 DEF BuildManifest, session
  <2>5. records \in Seq(Records) /\ src \in Seq(Chunks)
    BY <1>1 DEF IndexFiles
  <2>6. \A k \in DOMAIN records : RecordOf(records[k], src) /\ records[k].chunk \in objects
    BY <1>1 DEF RecordsOK, StoredOK, IndexIsStored
  <2>7. manifest'[d] = buildManifest(records)
    BY <1>1, <2>4
  <2> HIDE DEF records, src
  <2>8. ManifestOf(buildManifest(records), src, objects)
    BY <2>2, <2>4, <2>5, <2>6, BuiltManifest
  <2> QED
    BY <1>1, <2>7, <2>8, ManifestStays DEF src
\* The manifests of the commits under way.
<1>3. ASSUME NEW d \in Clients, wpc'[d] \in CommitSteps \ {"begin", "build"}
      PROVE  ManifestOf(manifest'[d], source[SessionOf[d]], objects')
  <2>1. CASE wpc'[d] = wpc[d] /\ manifest'[d] = manifest[d]
    <3>1. ManifestOf(manifest[d], source[SessionOf[d]], objects)
      BY <1>3, <2>1 DEF ManifestsOK
    <3> QED
      BY <1>1, <2>1, <3>1, ManifestStays
  <2>2. CASE Worker(d) /\ wpc'[d] = "writeTmp"
    BY <1>1, <1>2, <2>2, CommitOrder DEF CommitSteps
  <2>3. CASE Worker(d) /\ wpc'[d] # "writeTmp"
    <3>1. UNCHANGED manifest
      BY <1>1, <1>3, <2>3, CommitOrder
    <3>2. wpc[d] \in CommitSteps \ {"begin", "build"}
      BY <1>1, <1>3, <2>3, CommitOrder DEF CommitSteps, WriteTmp, Rename, Mark
    <3>3. ManifestOf(manifest[d], source[SessionOf[d]], objects)
      BY <3>2 DEF ManifestsOK
    <3> QED
      BY <1>1, <3>1, <3>3, ManifestStays
  <2> QED
    BY <1>3, <2>1, <2>2, <2>3, HandlerAlone
\* Those in the repository.
<1>4. ASSUME NEW m, \E s \in Sessions : ManifestOf(m, source[s], objects)
      PROVE  \E s \in Sessions : ManifestOf(m, source[s], objects')
  BY <1>1, <1>4, ManifestStays
<1>5. /\ \A v \in Versions : staged[v] # NoManifest => \E s \in Sessions : ManifestOf(staged[v], source[s], objects)
      /\ \A v \in Versions : manifests[v] # NoManifest => \E s \in Sessions : ManifestOf(manifests[v], source[s], objects)
  BY DEF ManifestsOK, ManifestOfSome
<1>6. ASSUME NEW c \in Clients, WriteTmp(c)
      PROVE  \E s \in Sessions : ManifestOf(manifest[c], source[s], objects)
  BY <1>1, <1>6 DEF WriteTmp, ManifestsOK, CommitSteps
<1>7. ASSUME NEW v \in Versions, staged'[v] # NoManifest
      PROVE  \E s \in Sessions : ManifestOf(staged'[v], source[s], objects)
  <2>1. CASE UNCHANGED staged
    BY <1>5, <1>7, <2>1
  <2>2. ASSUME NEW c \in Clients, WriteTmp(c), version[c] \in Versions,
               staged' = [staged EXCEPT ![version[c]] = manifest[c]]
        PROVE  \E s \in Sessions : ManifestOf(staged'[v], source[s], objects)
    <3>1. staged'[v] = staged[v] \/ staged'[v] = manifest[c]
      BY <1>1, <2>2
    <3>2. \E s \in Sessions : ManifestOf(manifest[c], source[s], objects)
      BY <1>6, <2>2
    <3> QED
      BY <1>5, <1>7, <3>1, <3>2
  <2>3. ASSUME NEW c \in Clients, staged' = [staged EXCEPT ![version[c]] = NoManifest]
        PROVE  \E s \in Sessions : ManifestOf(staged'[v], source[s], objects)
    <3>1. staged'[v] = staged[v]
      BY <1>1, <1>7, <2>3
    <3> QED
      BY <1>5, <1>7, <3>1
  <2> QED
    BY <2>1, <2>2, <2>3, CommitSteppedOn
<1>8. ASSUME NEW v \in Versions, manifests'[v] # NoManifest
      PROVE  \E s \in Sessions : ManifestOf(manifests'[v], source[s], objects)
  <2>1. CASE UNCHANGED manifests
    BY <1>5, <1>8, <2>1
  <2>2. ASSUME NEW c \in Clients, version[c] \in Versions, staged[version[c]] # NoManifest,
               manifests' = [manifests EXCEPT ![version[c]] = staged[version[c]]]
        PROVE  \E s \in Sessions : ManifestOf(manifests'[v], source[s], objects)
    <3>1. manifests'[v] = manifests[v] \/ manifests'[v] = staged[version[c]]
      BY <1>1, <2>2
    <3> QED
      BY <1>5, <1>8, <2>2, <3>1
  <2> QED
    BY <2>1, <2>2, CommitSteppedOn
<1>9. /\ \A v \in Versions : staged'[v] # NoManifest => \E s \in Sessions : ManifestOf(staged'[v], source[s], objects')
      /\ \A v \in Versions : manifests'[v] # NoManifest => \E s \in Sessions : ManifestOf(manifests'[v], source[s], objects')
  BY <1>4, <1>7, <1>8
<1> QED
  BY <1>1, <1>3, <1>9 DEF ManifestsOK, ManifestOfSome

LEMMA NextMarked ==
  ASSUME ProtocolInv, MarkedOK, [Next]_vars
  PROVE  MarkedOK'
<1>1. /\ TypeOK /\ manifests \in [Versions -> References \cup {NoManifest}]
      /\ markers \subseteq Versions
      /\ \A c \in Clients : wpc[c] \in CommitSteps => version[c] \in Versions
  BY HandlerTypes DEF ProtocolInv, TypeOK
\* A manifest that is in place stays, or another takes its place.
<1>2. ASSUME NEW v \in Versions, manifests[v] # NoManifest
      PROVE  manifests'[v] # NoManifest
  BY <1>1, <1>2, CommitSteppedOn
<1>3. \A v \in markers' : manifests'[v] # NoManifest
  <2>1. ASSUME NEW c \in Clients, Mark(c)
        PROVE  version[c] \in Versions /\ manifests[version[c]] # NoManifest
    BY <1>1, <2>1 DEF Mark, MarkedOK, CommitSteps
  <2>2. \A v \in markers' : v \in markers \/ \E c \in Clients : Mark(c) /\ v = version[c]
    BY CommitSteppedOn
  <2>3. \A v \in markers : v \in Versions /\ manifests[v] # NoManifest
    BY <1>1 DEF MarkedOK
  <2> QED
    BY <1>2, <2>1, <2>2, <2>3
<1>4. ASSUME NEW d \in Clients, wpc'[d] \in {"logRename", "mark"}
      PROVE  manifests'[version'[d]] # NoManifest
  <2>1. wpc'[d] \in CommitSteps
    BY <1>4 DEF CommitSteps
  <2>2. CASE wpc'[d] = wpc[d] /\ version'[d] = version[d]
    <3>1. version[d] \in Versions /\ manifests[version[d]] # NoManifest
      BY <1>1, <1>4, <2>1, <2>2 DEF MarkedOK
    <3> QED
      BY <1>2, <2>2, <3>1
  <2>3. CASE Worker(d) /\ wpc'[d] = "logRename"
    <3>1. Rename(d) /\ UNCHANGED version
      BY <1>1, <2>1, <2>3, CommitOrder
    <3>2. ~ fail(d)
      <4>1. wpc \in [Clients -> {"none", "queued", "read"} \cup PutSteps \cup CommitSteps]
        BY <1>1 DEF TypeOK
      <4> QED
        BY <2>3, <4>1 DEF fail, goto
    <3>3. version[d] \in Versions
      BY <1>1, <3>1 DEF Rename, CommitSteps
    <3> QED
      BY <1>1, <3>1, <3>2, <3>3 DEF Rename, renameTmpToManifest
  <2>4. CASE Worker(d) /\ wpc'[d] = "mark"
    <3>1. wpc[d] = "logRename" /\ UNCHANGED version
      BY <1>1, <2>1, <2>4, CommitOrder
    <3>2. version[d] \in Versions /\ manifests[version[d]] # NoManifest
      BY <1>1, <3>1 DEF MarkedOK, CommitSteps
    <3> QED
      BY <1>2, <3>1, <3>2
  <2> QED
    BY <1>4, <2>1, <2>2, <2>3, <2>4, HandlerAlone
<1> QED
  BY <1>3, <1>4 DEF MarkedOK

\* Sources that stay the same are what every record, request and manifest holds.
LEMMA ContentInvariant ==
  ASSUME SourceStable
  PROVE  Spec => [](ProtocolInv /\ StoredOK /\ ContentInv)
<1>1. Init => ContentInv
  <2> SUFFICES ASSUME Init
               PROVE  ContentInv
    OBVIOUS
  <2>1. /\ \A c \in Clients : cpc[c] = "idle" /\ request[c] = Nothing /\ wpc[c] = "none"
        /\ \A s \in Sessions : index[s].records = <<>>
    BY DEF Init, NewIndex
  <2>2. markers = {} /\ \A v \in Versions : staged[v] = NoManifest /\ manifests[v] = NoManifest
    BY DEF Init, RepoInit
  <2>3. ClientReadsOK
    BY <2>1 DEF ClientReadsOK
  <2>4. RecordsOK
    BY <2>1 DEF RecordsOK
  <2>5. ManifestsOK /\ MarkedOK
    BY <2>1, <2>2 DEF ManifestsOK, MarkedOK, CommitSteps
  <2> QED
    BY <2>3, <2>4, <2>5 DEF ContentInv
<1>2. ProtocolInv /\ StoredOK /\ ContentInv /\ [Next]_vars => ContentInv'
  BY NextClientReads, NextRecords, NextManifests, NextMarked DEF ContentInv
<1> QED
  BY <1>1, <1>2, StoredInvariant, PTL DEF Spec

\* What the manifest of a source comes to when it is read.
LEMMA ManifestReads ==
  ASSUME NEW m \in References, NEW src \in Seq(Chunks), ManifestOf(m, src, objects)
  PROVE  /\ Len(m.chunks) = m.size /\ m.digest = src
         /\ DOMAIN m.chunks = DOMAIN src
         /\ \A k \in DOMAIN m.chunks : m.chunks[k] = Nothing \/ m.chunks[k] = m.digest[k]
         /\ Nothing \notin Range(m.chunks) => Verifies(m)
         /\ ~ DiskFull => Verifies(m)
<1>1. m.chunks \in Seq(Chunks \cup {Nothing})
  BY DEF References
<1>2. /\ Len(m.chunks) = Len(src) /\ m.size = Len(src) /\ m.digest = src
      /\ \A k \in 1 .. Len(src) : m.chunks[k] \in Paths(src[k])
      /\ Range(src) \subseteq objects
  BY DEF ManifestOf
<1>3. DOMAIN m.chunks = 1 .. Len(src) /\ DOMAIN src = 1 .. Len(src)
  BY <1>1, <1>2
<1>4. \A k \in DOMAIN m.chunks : m.chunks[k] = Nothing \/ m.chunks[k] = m.digest[k]
  BY <1>2, <1>3 DEF Paths
<1>5. ASSUME \A k \in DOMAIN m.chunks : m.chunks[k] = src[k]
      PROVE  Verifies(m)
  <2>1. m.chunks = src
    BY <1>1, <1>2, <1>3, <1>5
  <2> QED
    BY <1>2, <2>1 DEF Verifies, ChunksReadable
<1>6. Nothing \notin Range(m.chunks) => Verifies(m)
  <2>1. \A k \in DOMAIN m.chunks : m.chunks[k] \in Range(m.chunks)
    BY DEF Range
  <2> QED
    BY <1>2, <1>4, <1>5, <2>1
<1>7. ~ DiskFull => Verifies(m)
  BY <1>2, <1>3, <1>5 DEF Paths
<1> QED
  BY <1>2, <1>3, <1>4, <1>6, <1>7

\* A committed version has the manifest of some session's source.
LEMMA MarkedManifest ==
  ASSUME ProtocolInv, ContentInv, NEW v \in markers
  PROVE  /\ Loads(v) /\ manifests[v] \in References
         /\ \E src \in Sources : src \in Seq(Chunks) /\ ManifestOf(manifests[v], src, objects)
<1>1. v \in Versions /\ manifests \in [Versions -> References \cup {NoManifest}]
  BY DEF ProtocolInv, TypeOK
<1>2. manifests[v] # NoManifest
  BY DEF ContentInv, MarkedOK
<1>3. PICK s \in Sessions : ManifestOf(manifests[v], source[s], objects)
  BY <1>1, <1>2 DEF ContentInv, ManifestsOK, ManifestOfSome
<1>4. source[s] \in Sources /\ source[s] \in Seq(Chunks)
  BY UploadAssumption DEF UploadAssumption, ProtocolInv, TypeOK
<1> QED
  BY <1>1, <1>2, <1>3, <1>4 DEF Loads

\* However often the disk was full, a committed version holds the whole source
\* that its session was read from, and verifies unless a path was cut short, also
\* when several uploads contributed to it and several workers raced for it.
THEOREM CommittedIsSourceOrCut ==
  ASSUME SourceStable
  PROVE  Spec => []CommittedVerifiesOrCut
<1>1. ProtocolInv /\ ContentInv => CommittedVerifiesOrCut
  <2> SUFFICES ASSUME ProtocolInv, ContentInv, NEW v \in markers
               PROVE  /\ Loads(v)
                      /\ LET m == manifests[v]
                         IN  /\ Len(m.chunks) = m.size /\ m.digest \in Sources
                             /\ \A k \in DOMAIN m.chunks : m.chunks[k] = Nothing \/ m.chunks[k] = m.digest[k]
                             /\ Nothing \notin Range(m.chunks) => Verifies(m)
    BY DEF CommittedVerifiesOrCut
  <2>1. /\ Loads(v) /\ manifests[v] \in References
        /\ \E src \in Sources : src \in Seq(Chunks) /\ ManifestOf(manifests[v], src, objects)
    BY MarkedManifest
  <2> QED
    BY <2>1, ManifestReads
<1> QED
  BY <1>1, ContentInvariant, PTL

\* With room on the disk a committed version verifies, whichever uploads of the
\* session it was put together from and whichever workers raced for its number.
THEOREM CommittedUploadsVerify ==
  ASSUME SourceStable, ~ DiskFull
  PROVE  Spec => []CommittedVerifies
<1>1. ProtocolInv /\ ContentInv => CommittedVerifies
  <2> SUFFICES ASSUME ProtocolInv, ContentInv, NEW v \in markers
               PROVE  Loads(v) /\ Verifies(manifests[v])
    BY DEF CommittedVerifies
  <2>1. /\ Loads(v) /\ manifests[v] \in References
        /\ \E src \in Sources : src \in Seq(Chunks) /\ ManifestOf(manifests[v], src, objects)
    BY MarkedManifest
  <2> QED
    BY <2>1, ManifestReads
<1> QED
  BY <1>1, ContentInvariant, PTL

\* Two workers that both checked the index before either appended may append a
\* chunk twice, and never two chunks under one index.
THEOREM RecordsAgree ==
  ASSUME SourceStable, ~ DiskFull
  PROVE  Spec => []IndexConsistent
<1>1. ProtocolInv /\ ContentInv => IndexConsistent
  <2> SUFFICES ASSUME ProtocolInv, ContentInv, NEW s \in Sessions,
                      NEW k \in DOMAIN index[s].records, NEW l \in DOMAIN index[s].records,
                      index[s].records[k].index = index[s].records[l].index
               PROVE  index[s].records[k] = index[s].records[l]
    BY DEF IndexConsistent
  <2>1. index[s].records \in Seq(Records)
    BY DEF ProtocolInv, TypeOK, IndexFiles
  <2>2. index[s].records[k] \in Records /\ index[s].records[l] \in Records
    BY <2>1
  <2>3. RecordOf(index[s].records[k], source[s]) /\ RecordOf(index[s].records[l], source[s])
    BY DEF ContentInv, RecordsOK
  <2> QED
    BY <2>2, <2>3 DEF RecordOf, Paths, Records
<1> QED
  BY <1>1, ContentInvariant, PTL

-----------------------------------------------------------------------------
(***************************************************************************)
(* One worker, and a number for every marker to be listed under.           *)
(***************************************************************************)
LEMMA OneBusy ==
  ASSUME PoolSizes \subseteq {1}, TypeOK, NEW c \in Busy, NEW d \in Busy
  PROVE  c = d
<1>1. IsFiniteSet(Busy) /\ Cardinality(Busy) <= 1
  <2>1. Busy \in SUBSET Clients /\ IsFiniteSet(Clients)
    BY UploadAssumption DEF UploadAssumption, Busy
  <2>2. IsFiniteSet(Busy)
    BY <2>1, FS_Subset
  <2>3. Cardinality(Busy) \in Nat
    BY <2>2, FS_CardinalityType
  <2>4. Cardinality(Busy) <= workers /\ workers \in {0, 1}
    BY DEF TypeOK
  <2> QED
    BY <2>2, <2>3, <2>4
<1>2. Cardinality(Busy) \in Nat
  BY <1>1, FS_CardinalityType
<1>3. Cardinality(Busy) # 0
  BY <1>1, FS_EmptySet
<1>4. Cardinality(Busy) = 1
  BY <1>1, <1>2, <1>3
<1>5. \E x : Busy = {x}
  BY <1>1, <1>4, FS_Singleton
<1> QED
  BY <1>5

\* While a worker deals with something else, nobody changes manifests or markers.
LEMMA AloneAtWork ==
  ASSUME PoolSizes \subseteq {1}, ProtocolInv, [Next]_vars, NEW d \in Busy,
         wpc[d] \notin {"writeTmp", "rename", "mark"} \/ wpc'[d] = wpc[d]
  PROVE  UNCHANGED <<staged, manifests, markers>>
<1>1. TypeOK /\ wpc \in [Clients -> {"none", "queued", "read"} \cup PutSteps \cup CommitSteps]
  BY DEF ProtocolInv, TypeOK
<1>2. ASSUME NEW c \in Clients, WriteTmp(c) \/ Mark(c) \/ (Rename(c) /\ staged[version[c]] # NoManifest)
      PROVE  FALSE
  <2>1. wpc[c] \in {"writeTmp", "rename", "mark"}
    BY <1>2 DEF WriteTmp, Mark, Rename
  <2>2. c \in Busy
    BY <2>1 DEF Busy
  <2>3. c = d
    BY <1>1, <2>2, OneBusy
  <2>4. wpc'[c] # wpc[c]
    <3>1. CASE WriteTmp(c)
      BY <1>1, <3>1 DEF WriteTmp, goto
    <3>2. CASE Mark(c)
      BY <1>1, <3>2 DEF Mark, goto
    <3>3. CASE Rename(c)
      BY <1>1, <3>3 DEF Rename, fail, goto
    <3> QED
      BY <1>2, <3>1, <3>2, <3>3
  <2> QED
    BY <2>1, <2>3, <2>4
<1> QED
  BY <1>2, CommitSteppedOn

\* A marked version keeps its manifest: its number is not given again.
LEMMA MarkedKept ==
  ASSUME ProtocolInv, AckOK, [Next]_vars, NEW v \in markers
  PROVE  v \in markers' /\ manifests'[v] = manifests[v]
<1>1. markers \subseteq Versions /\ manifests \in [Versions -> References \cup {NoManifest}]
  BY DEF ProtocolInv, TypeOK
<1>2. \A c \in Clients : Rename(c) => version[c] \notin markers
  BY DEF AckOK, Rename, BeforeMark
<1> QED
  BY <1>1, <1>2, CommitSteppedOn

\* Where a status and an ack come from.
LEMMA ReplySent ==
  ASSUME ProtocolInv, [Next]_vars, NEW d \in Clients, reply'[d] # Nothing,
         reply'[d].type \in {"status", "commitAck"}
  PROVE  \/ reply'[d] = reply[d]
         \/ /\ HandleQuery(d) /\ reply'[d].type = "status"
            /\ reply'[d].received = received(index[SessionOf[d]].records)
         \/ wpc[d] = "markCommitted" /\ reply'[d].type = "commitAck" /\ reply'[d].version = version[d]
<1> DEFINE Sent == \/ reply'[d] = reply[d]
                   \/ /\ HandleQuery(d) /\ reply'[d].type = "status"
                      /\ reply'[d].received = received(index[SessionOf[d]].records)
                   \/ wpc[d] = "markCommitted" /\ reply'[d].type = "commitAck" /\ reply'[d].version = version[d]
<1>1. TypeOK /\ DOMAIN reply = Clients
  BY DEF ProtocolInv, MessagesOK
<1>2. ASSUME NEW c \in Clients, StartUpload(c) \/ ClientStep(c) \/ ClientDies(c)
      PROVE  Sent
  <2>1. UNCHANGED reply \/ reply' = [reply EXCEPT ![c] = Nothing]
    BY <1>2 DEF StartUpload, ClientStep, GetHello, GetStatus, GetPutAck, GetCommitAck, UploadFails, ClientDies, GetReply
  <2> QED
    BY <1>1, <2>1
<1>3. ASSUME NEW c \in Clients, Worker(c)
      PROVE  Sent
  <2>1. ASSUME NEW r, respond(c, r), r.type \notin {"status", "commitAck"}
        PROVE  Sent
    BY <1>1, <2>1 DEF respond
  <2>2. CASE HandleHello(c) \/ AppendIndex(c)
    BY <2>1, <2>2 DEF HandleHello, AppendIndex, answer
  <2>3. CASE HandleQuery(c)
    <3>1. CASE fail(c)
      BY <2>1, <3>1 DEF fail
    <3>2. CASE ~ fail(c)
      <4>1. answer(c, [type |-> "status", received |-> received(index[session(c)].records)])
        BY <2>3, <3>2 DEF HandleQuery
      <4>2. reply'[d] = reply[d] \/ (d = c /\ reply'[c] = [type |-> "status", received |-> received(index[session(c)].records)])
        BY <1>1, <4>1 DEF answer, respond
      <4> QED
        BY <2>3, <4>2 DEF session
    <3> QED
      BY <3>1, <3>2
  <2>4. CASE AppendCut(c) \/ WriteFails(c)
    BY <2>1, <2>4 DEF AppendCut, WriteFails, fail
  <2>5. CASE CheckIndex(c)
    BY <2>1, <2>5 DEF CheckIndex, answer, fail
  <2>6. CASE Rename(c) \/ BuildManifest(c)
    BY <2>1, <2>6 DEF Rename, BuildManifest, fail
  <2>7. CASE \/ HandlePut(c) \/ StoreChunk(c) \/ ReadEnd(c) \/ LogBegin(c) \/ LogWrite(c) \/ LogRename(c)
             \/ LogCommit(c) \/ WriteTmp(c) \/ Mark(c) \/ WriteCheckpoint(c) \/ HandleCommit(c) \/ ListVersions(c)
    BY <2>7 DEF HandlePut, StoreChunk, ReadEnd, LogBegin, LogWrite, LogRename, LogCommit, Log, WriteTmp, Mark,
                WriteCheckpoint, HandleCommit, ListVersions
  <2>8. CASE MarkCommitted(c) \/ MarkCommittedCut(c)
    <3>1. wpc[c] = "markCommitted" /\ respond(c, [type |-> "commitAck", version |-> version[c]])
      BY <2>8 DEF MarkCommitted, MarkCommittedCut, answer
    <3> QED
      BY <1>1, <3>1 DEF respond
  <2> QED
    BY <1>3, <2>2, <2>3, <2>4, <2>5, <2>6, <2>7, <2>8 DEF Worker
<1>4. CASE ServerDies
  BY <1>1, <1>4 DEF ServerDies
<1>5. CASE ServeNext \/ Restart \/ UNCHANGED vars
  BY <1>5 DEF ServeNext, Restart, vars
<1> QED
  BY <1>2, <1>3, <1>4, <1>5 DEF Next

LEMMA AckTaken ==
  ASSUME [Next]_vars, NEW a \in acked'
  PROVE  \/ a \in acked
         \/ \E c \in Clients : /\ cpc[c] # "idle" /\ reply[c] # Nothing /\ reply[c].type = "commitAck"
                               /\ a = <<reply[c].version, content[c]>>
<1>1. ASSUME NEW c \in Clients, StartUpload(c) \/ GetHello(c) \/ GetStatus(c) \/ GetPutAck(c) \/ UploadFails(c) \/ ClientDies(c)
      PROVE  acked' = acked
  BY <1>1 DEF StartUpload, GetHello, GetStatus, GetPutAck, UploadFails, ClientDies
<1>2. ASSUME NEW c \in Clients, GetCommitAck(c)
      PROVE  /\ cpc[c] # "idle" /\ reply[c] # Nothing /\ reply[c].type = "commitAck"
             /\ acked' = acked \cup {<<reply[c].version, content[c]>>}
  BY <1>2 DEF GetCommitAck, GetReply
<1>3. ASSUME NEW c \in Clients, Worker(c)
      PROVE  acked' = acked
  BY <1>3 DEF Worker, HandleHello, HandleQuery, HandlePut, StoreChunk, CheckIndex, AppendIndex, HandleCommit,
         LogBegin, BuildManifest, WriteTmp, LogWrite, Rename, LogRename, Mark, LogCommit, Log,
         ListVersions, WriteCheckpoint, MarkCommitted, ReadEnd, AppendCut, MarkCommittedCut,
         WriteFails, clientVars
<1>4. CASE ServeNext \/ ServerDies \/ Restart \/ UNCHANGED vars
  BY <1>4 DEF ServeNext, ServerDies, Restart, vars, clientVars
<1> QED
  BY <1>1, <1>2, <1>3, <1>4 DEF Next, ClientStep

\* The number of a new version is not marked.
LEMMA NumberIsNew ==
  ASSUME MaxVersion <= MaxListed, TypeOK
  PROVE  nextVersion \notin markers
<1>1. listCommittedVersions = markers
  <2>1. markers \subseteq Versions
    BY DEF TypeOK
  <2>2. \A v \in Versions : v <= MaxListed
    BY RepositoryAssumption DEF RepositoryAssumption, Versions
  <2> QED
    BY <2>1, <2>2 DEF listCommittedVersions
<1>2. nextVersion = After(markers) /\ nextVersion \in Nat /\ markers \in SUBSET Versions
  BY <1>1, Counts
<1>3. \A v \in markers : v < After(markers)
  BY <1>2, AfterLatest
<1> QED
  BY <1>2, <1>3

\* A commit under way, as far as it has come.
Come(at, v, src, marked, inTmp, inPlace, stored) ==
    /\ at \in BeforeMark => v \notin marked
    /\ at \in CommitSteps \ BeforeMark => v \in marked
    /\ at \in CommitSteps \ {"begin", "build", "writeTmp", "logWrite", "rename"} =>
          ManifestOf(inPlace[v], src, stored)
    /\ at \in {"logWrite", "rename"} => ManifestOf(inTmp[v], src, stored)

LEMMA NextCommit ==
  ASSUME SourceStable, PoolSizes \subseteq {1}, MaxVersion <= MaxListed,
         ProtocolInv, ManifestsOK, AckOK, [Next]_vars, NEW d \in Clients
  PROVE  Come(wpc'[d], version'[d], source[SessionOf[d]], markers', staged', manifests', objects')
<1> DEFINE src == source[SessionOf[d]]
           v == version[d]
<1>1. /\ TypeOK /\ objects \subseteq objects' /\ markers \subseteq Versions
      /\ wpc \in [Clients -> {"none", "queued", "read"} \cup PutSteps \cup CommitSteps]
      /\ version \in [Clients -> Versions \cup {0}]
      /\ staged \in [Versions -> References \cup {NoManifest}]
      /\ manifests \in [Versions -> References \cup {NoManifest}]
      /\ wpc[d] \in CommitSteps => v \in Versions
  BY ObjectsKept, HandlerTypes DEF ProtocolInv, TypeOK
<1>2. Come(wpc[d], v, src, markers, staged, manifests, objects)
  BY DEF Come, AckOK
<1>3. CASE wpc'[d] \notin CommitSteps
  BY <1>3 DEF Come, BeforeMark, CommitSteps
<1>4. wpc[d] \in {"read"} \cup CommitSteps => d \in Busy
  BY DEF Busy, CommitSteps
<1>5. ASSUME wpc'[d] \in CommitSteps, wpc[d] \notin {"writeTmp", "rename", "mark"} \/ wpc'[d] = wpc[d], d \in Busy
      PROVE  UNCHANGED <<staged, manifests, markers>>
  BY <1>5, AloneAtWork
<1>6. ASSUME UNCHANGED <<staged, manifests, markers>>, version'[d] = v, wpc'[d] \in CommitSteps,
             \/ wpc'[d] = wpc[d]
             \/ wpc[d] = "begin" /\ wpc'[d] = "build"
             \/ wpc[d] = "build" /\ wpc'[d] = "writeTmp"
             \/ wpc[d] = "logWrite" /\ wpc'[d] = "rename"
             \/ wpc[d] = "logRename" /\ wpc'[d] = "mark"
             \/ wpc[d] = "logCommit" /\ wpc'[d] = "list"
             \/ wpc[d] = "list" /\ wpc'[d] = "checkpoint"
             \/ wpc[d] = "checkpoint" /\ wpc'[d] = "markCommitted"
      PROVE  Come(wpc'[d], version'[d], src, markers', staged', manifests', objects')
  <2>1. \A m : ManifestOf(m, src, objects) => ManifestOf(m, src, objects')
    BY <1>1, ManifestStays
  <2>2. Come(wpc'[d], v, src, markers, staged, manifests, objects)
    BY <1>2, <1>6 DEF Come, BeforeMark, CommitSteps
  <2> QED
    BY <1>6, <2>1, <2>2 DEF Come
<1>7. CASE wpc'[d] \in CommitSteps /\ wpc'[d] = wpc[d] /\ version'[d] = version[d]
  BY <1>4, <1>5, <1>6, <1>7
<1>8. CASE Worker(d) /\ wpc'[d] = "begin"
  <2>1. HandleCommit(d)
    BY <1>1, <1>8, CommitOrder DEF CommitSteps
  <2>2. version'[d] = nextVersion /\ UNCHANGED markers
    BY <1>1, <2>1 DEF HandleCommit, repoVars
  <2>3. nextVersion \notin markers
    BY <1>1, NumberIsNew
  <2> QED
    BY <1>8, <2>2, <2>3 DEF Come, BeforeMark, CommitSteps
<1>9. CASE Worker(d) /\ wpc'[d] \in {"build", "writeTmp", "rename", "mark", "list", "checkpoint", "markCommitted"}
  <2>1. /\ wpc'[d] = "build" => wpc[d] = "begin"
        /\ wpc'[d] = "writeTmp" => wpc[d] = "build"
        /\ wpc'[d] = "rename" => wpc[d] = "logWrite"
        /\ wpc'[d] = "mark" => wpc[d] = "logRename"
        /\ wpc'[d] = "list" => wpc[d] = "logCommit"
        /\ wpc'[d] = "checkpoint" => wpc[d] = "list"
        /\ wpc'[d] = "markCommitted" => wpc[d] = "checkpoint"
        /\ UNCHANGED version /\ wpc'[d] \in CommitSteps
    BY <1>1, <1>9, CommitOrder DEF CommitSteps
  <2>2. wpc[d] \in CommitSteps \ {"writeTmp", "rename", "mark"}
    BY <1>9, <2>1 DEF CommitSteps
  <2>3. UNCHANGED <<staged, manifests, markers>>
    BY <1>4, <1>5, <2>1, <2>2
  <2> QED
    BY <1>6, <1>9, <2>1, <2>3
<1>10. CASE Worker(d) /\ wpc'[d] = "logWrite"
  <2>1. WriteTmp(d) /\ UNCHANGED version
    BY <1>1, <1>10, CommitOrder DEF CommitSteps
  <2>2. wpc[d] = "writeTmp" /\ staged' = [staged EXCEPT ![v] = manifest[d]] /\ UNCHANGED markers
    BY <2>1 DEF WriteTmp
  <2>3. ManifestOf(manifest[d], src, objects) /\ v \in Versions /\ v \notin markers
    BY <1>1, <2>2 DEF ManifestsOK, AckOK, CommitSteps, BeforeMark
  <2>4. staged'[v] = manifest[d]
    BY <1>1, <2>2, <2>3
  <2>5. ManifestOf(staged'[v], src, objects')
    BY <1>1, <2>3, <2>4, ManifestStays
  <2> QED
    BY <1>10, <2>1, <2>2, <2>3, <2>5 DEF Come, BeforeMark, CommitSteps
<1>11. CASE Worker(d) /\ wpc'[d] = "logRename"
  <2>1. Rename(d) /\ UNCHANGED version
    BY <1>1, <1>11, CommitOrder DEF CommitSteps
  <2>2. ~ fail(d)
    BY <1>1, <1>11 DEF fail, goto
  <2>3. wpc[d] = "rename" /\ manifests' = [manifests EXCEPT ![v] = staged[v]] /\ UNCHANGED markers
    BY <2>1, <2>2 DEF Rename, renameTmpToManifest
  <2>4. ManifestOf(staged[v], src, objects) /\ v \in Versions /\ v \notin markers
    BY <1>1, <2>3 DEF AckOK, CommitSteps, BeforeMark
  <2>5. manifests'[v] = staged[v]
    BY <1>1, <2>3, <2>4
  <2>6. ManifestOf(manifests'[v], src, objects')
    BY <1>1, <2>4, <2>5, ManifestStays
  <2> QED
    BY <1>11, <2>1, <2>3, <2>4, <2>6 DEF Come, BeforeMark, CommitSteps
<1>12. CASE Worker(d) /\ wpc'[d] = "logCommit"
  <2>1. Mark(d) /\ UNCHANGED version
    BY <1>1, <1>12, CommitOrder DEF CommitSteps
  <2>2. wpc[d] = "mark" /\ markers' = markers \cup {v} /\ UNCHANGED manifests
    BY <2>1 DEF Mark, createMarker
  <2>3. ManifestOf(manifests[v], src, objects)
    BY <2>2 DEF AckOK, CommitSteps
  <2>4. ManifestOf(manifests'[v], src, objects')
    BY <1>1, <2>2, <2>3, ManifestStays
  <2> QED
    BY <1>12, <2>1, <2>2, <2>4 DEF Come, BeforeMark, CommitSteps
<1>13. wpc'[d] \in CommitSteps => (wpc'[d] = wpc[d] /\ version'[d] = version[d]) \/ Worker(d)
  BY HandlerAlone
<1> QED
  BY <1>3, <1>7, <1>8, <1>9, <1>10, <1>11, <1>12, <1>13 DEF CommitSteps

LEMMA NextAck ==
  ASSUME SourceStable, PoolSizes \subseteq {1}, MaxVersion <= MaxListed,
         ProtocolInv, ClientReadsOK, ManifestsOK, AckOK, [Next]_vars
  PROVE  AckOK'
<1>1. source' = source /\ objects \subseteq objects'
  BY SourceKept, ObjectsKept DEF ProtocolInv
<1>2. \A d \in Clients : Come(wpc'[d], version'[d], source'[SessionOf[d]], markers', staged', manifests', objects')
  BY <1>1, NextCommit
<1>3. ASSUME NEW v \in markers, NEW src, ManifestOf(manifests[v], src, objects)
      PROVE  v \in markers' /\ ManifestOf(manifests'[v], src, objects')
  <2>1. v \in markers' /\ manifests'[v] = manifests[v]
    BY MarkedKept
  <2> QED
    BY <1>1, <1>3, <2>1, ManifestStays
<1>4. ASSUME NEW d \in Clients, reply'[d] # Nothing, reply'[d].type = "commitAck"
      PROVE  /\ reply'[d].version \in markers'
             /\ ManifestOf(manifests'[reply'[d].version], source'[SessionOf[d]], objects')
  <2>1. CASE reply'[d] = reply[d]
    <3>1. reply[d].version \in markers /\ ManifestOf(manifests[reply[d].version], source[SessionOf[d]], objects)
      BY <1>4, <2>1 DEF AckOK
    <3> QED
      BY <1>1, <1>3, <2>1, <3>1
  <2>2. CASE wpc[d] = "markCommitted" /\ reply'[d].version = version[d]
    <3>1. version[d] \in markers /\ ManifestOf(manifests[version[d]], source[SessionOf[d]], objects)
      BY <2>2 DEF AckOK, CommitSteps, BeforeMark
    <3> QED
      BY <1>1, <1>3, <2>2, <3>1
  <2> QED
    BY <1>4, <2>1, <2>2, ReplySent
<1>5. ASSUME NEW a \in acked'
      PROVE  a[1] \in markers' /\ ManifestOf(manifests'[a[1]], a[2], objects')
  <2>1. CASE a \in acked
    BY <1>3, <2>1 DEF AckOK
  <2>2. ASSUME NEW c \in Clients, cpc[c] # "idle", reply[c] # Nothing, reply[c].type = "commitAck",
               a = <<reply[c].version, content[c]>>
        PROVE  a[1] \in markers' /\ ManifestOf(manifests'[a[1]], a[2], objects')
    <3>1. reply[c].version \in markers /\ ManifestOf(manifests[reply[c].version], source[SessionOf[c]], objects)
      BY <2>2 DEF AckOK
    <3>2. a[1] = reply[c].version /\ a[2] = source[SessionOf[c]]
      BY <2>2 DEF ClientReadsOK
    <3> QED
      BY <1>3, <3>1, <3>2
  <2> QED
    BY <2>1, <2>2, AckTaken
<1> QED
  BY <1>2, <1>4, <1>5 DEF AckOK, Come

\* With one worker, the version that an ack names holds what that client read,
\* after any number of interrupted uploads of the session and deaths of the
\* server, and no later upload takes its place.
THEOREM AckedUploadsKept ==
  ASSUME SourceStable, PoolSizes \subseteq {1}, MaxVersion <= MaxListed
  PROVE  Spec => []AckedHoldsSource
<1>1. Init => AckOK
  <2> SUFFICES ASSUME Init
               PROVE  AckOK
    OBVIOUS
  <2>1. acked = {} /\ \A c \in Clients : wpc[c] = "none" /\ reply[c] = Nothing
    BY DEF Init
  <2> QED
    BY <2>1 DEF AckOK, BeforeMark, CommitSteps
<1>2. ProtocolInv /\ ContentInv /\ AckOK /\ [Next]_vars => AckOK'
  BY NextAck DEF ContentInv
<1>3. ProtocolInv /\ AckOK => AckedHoldsSource
  <2> SUFFICES ASSUME ProtocolInv, AckOK, NEW a \in acked
               PROVE  /\ a[1] \in markers
                      /\ Len(manifests[a[1]].chunks) = Len(a[2])
                      /\ \A k \in DOMAIN a[2] : manifests[a[1]].chunks[k] \in {a[2][k], Nothing}
    BY DEF AckedHoldsSource
  <2>1. a[1] \in markers /\ ManifestOf(manifests[a[1]], a[2], objects)
    BY DEF AckOK
  <2>2. a[2] \in Seq(Chunks)
    BY UploadAssumption DEF UploadAssumption, ProtocolInv, TypeOK
  <2>3. DOMAIN a[2] = 1 .. Len(a[2])
    BY <2>2
  <2> QED
    BY <2>1, <2>3 DEF ManifestOf, Paths
<1> QED
  BY <1>1, <1>2, <1>3, ContentInvariant, PTL DEF Spec

-----------------------------------------------------------------------------
(***************************************************************************)
(* One worker: nothing that an upload was told of is sent again.           *)
(***************************************************************************)

\* The chunk that is sent next.
LEMMA ChunkSent ==
  ASSUME TypeOK, MessagesOK, NEW c \in Clients, NEW st, NEW i \in Nat \ {0}, sendNext(c, st, i),
         conn[c] = "open", cpc'[c] = "put"
  PROVE  \E j \in Missing(c, st, i) : j \in Nat /\ i <= j /\ next'[c] = j /\ request'[c] = putRequest(c, j)
<1>1. /\ next \in [Clients -> Nat] /\ DOMAIN request = Clients
      /\ cpc \in [Clients -> {"idle", "hello", "query", "put", "commit"}]
  BY DEF TypeOK, MessagesOK
<1>2. Missing(c, st, i) # {}
  <2>1. ASSUME Missing(c, st, i) = {}
        PROVE  FALSE
    BY <1>1, <2>1 DEF sendNext, send
  <2> QED
    BY <2>1
<1> DEFINE j == Min(Missing(c, st, i))
<1>3. j \in Missing(c, st, i) /\ j \in i .. Len(content[c])
  BY <1>2, FirstMissing
<1>4. next' = [next EXCEPT ![c] = j] /\ send(c, putRequest(c, j))
  BY <1>2 DEF sendNext
<1> HIDE DEF j
<1>5. j \in Nat /\ i <= j
  BY <1>3, ContentType
<1> QED
  BY <1>1, <1>3, <1>4, <1>5 DEF send

\* A PUT_CHUNK is sent after a status or an ack, on an open connection.
LEMMA PutSent ==
  ASSUME ProtocolInv, [Next]_vars, NEW d \in Clients,
         request'[d] # request[d], request'[d] # Nothing, request'[d].type = "put"
  PROVE  (GetStatus(d) \/ GetPutAck(d)) /\ conn[d] = "open" /\ cpc'[d] = "put"
<1>1. /\ TypeOK /\ MessagesOK /\ DOMAIN request = Clients
      /\ cpc \in [Clients -> {"idle", "hello", "query", "put", "commit"}]
      /\ next[d] + 1 \in Nat \ {0}
  BY DEF ProtocolInv, MessagesOK, TypeOK
<1>2. cpc[d] # "idle" /\ request'[d] \in Sendable(d)
  BY RequestSent
<1>3. ASSUME NEW c \in Clients, StartUpload(c)
      PROVE  FALSE
  <2>1. request' = [request EXCEPT ![c] = [type |-> "hello"]]
    BY <1>3 DEF StartUpload
  <2> QED
    BY <1>1, <2>1
<1>4. ASSUME NEW c \in Clients, GetHello(c) \/ GetCommitAck(c) \/ UploadFails(c) \/ ClientDies(c)
      PROVE  FALSE
  <2>1. UNCHANGED request \/ request' = [request EXCEPT ![c] = [type |-> "query"]]
    BY <1>4 DEF GetHello, GetCommitAck, UploadFails, ClientDies, send
  <2> QED
    BY <1>1, <2>1
<1>5. ASSUME NEW c \in Clients, GetStatus(c) \/ GetPutAck(c)
      PROVE  (GetStatus(d) \/ GetPutAck(d)) /\ conn[d] = "open" /\ cpc'[d] = "put"
  <2>1. next[c] + 1 \in Nat \ {0}
    BY <1>1 DEF TypeOK
  <2>2. PICK q \in Sendable(c) : send(c, q)
    BY <1>1, <1>5, <2>1, SendNext DEF GetStatus, GetPutAck
  <2>3. c = d
    BY <1>1, <2>2 DEF send
  <2>4. conn[c] = "open" /\ request'[c] = q /\ cpc'[c] = q.type
    BY <1>1, <2>2, <2>3 DEF send
  <2> QED
    BY <1>5, <2>3, <2>4
<1>6. ASSUME NEW c \in Clients, Worker(c)
      PROVE  FALSE
  <2>1. ASSUME NEW r, answer(c, r) \/ fail(c)
        PROVE  FALSE
    BY <1>1, <2>1 DEF answer, fail
  <2>2. CASE \/ HandleHello(c) \/ HandleQuery(c) \/ AppendIndex(c) \/ AppendCut(c) \/ MarkCommitted(c)
             \/ MarkCommittedCut(c) \/ WriteFails(c)
    BY <2>1, <2>2 DEF HandleHello, HandleQuery, AppendIndex, AppendCut, MarkCommitted, MarkCommittedCut, WriteFails
  <2>3. CASE \/ HandlePut(c) \/ StoreChunk(c) \/ ReadEnd(c) \/ LogBegin(c) \/ LogWrite(c) \/ LogRename(c)
             \/ LogCommit(c) \/ WriteTmp(c) \/ Mark(c) \/ WriteCheckpoint(c) \/ HandleCommit(c) \/ ListVersions(c)
    BY <2>3 DEF HandlePut, StoreChunk, ReadEnd, LogBegin, LogWrite, LogRename, LogCommit, Log, WriteTmp, Mark,
                WriteCheckpoint, HandleCommit, ListVersions
  <2>4. CASE CheckIndex(c) \/ Rename(c) \/ BuildManifest(c)
    BY <2>1, <2>4 DEF CheckIndex, Rename, BuildManifest
  <2> QED
    BY <1>6, <2>2, <2>3, <2>4 DEF Worker
<1>7. CASE ServeNext \/ ServerDies \/ Restart \/ UNCHANGED vars
  BY <1>7 DEF ServeNext, ServerDies, Restart, vars
<1> QED
  BY <1>3, <1>4, <1>5, <1>6, <1>7 DEF Next, ClientStep

\* What a client knows when it sends a chunk.
LEMMA SendsUnknown ==
  ASSUME ProtocolInv, KnownOK, NEW c \in Clients, GetStatus(c) \/ GetPutAck(c),
         conn[c] = "open", cpc'[c] = "put"
  PROVE  \E j \in Nat :
            /\ next'[c] = j /\ request'[c] = putRequest(c, j)
            /\ \A k \in DOMAIN index[SessionOf[c]].records :
                  index[SessionOf[c]].records[k].index = j => index[SessionOf[c]].records[k].chunk # content[c][j]
            /\ \A k \in DOMAIN index[SessionOf[c]].records :
                  LET r == index[SessionOf[c]].records[k]
                  IN  r.index <= j \/ (r.index \in DOMAIN status'[c] /\ status'[c][r.index] = r.chunk)
<1> DEFINE records == index[SessionOf[c]].records
<1>1. /\ TypeOK /\ MessagesOK /\ DOMAIN status = Clients
      /\ records \in Seq(Records) /\ SessionOf[c] \in Sessions
      /\ next[c] \in Nat
  BY UploadAssumption DEF UploadAssumption, ProtocolInv, TypeOK, IndexFiles, MessagesOK
<1>2. \A k \in DOMAIN records : records[k].index \in Nat
  <2>1. \A k \in DOMAIN records : records[k] \in Records
    BY <1>1
  <2> QED
    BY <2>1 DEF Records
<1>3. \A k \in DOMAIN records :
         /\ records[k].index \in DOMAIN received(records)
         /\ received(records)[records[k].index] = records[k].chunk
  <2> TAKE k \in DOMAIN records
  <2>1. records[k].index \in Indices(records)
    BY DEF Indices
  <2>2. DOMAIN received(records) = Indices(records)
    BY DEF received
  <2>3. PICK l \in DOMAIN records : /\ records[l].index = records[k].index
                                    /\ received(records)[records[k].index] = records[l].chunk
    BY <1>1, <2>1, ReceivedType
  <2>4. records[l].chunk = records[k].chunk
    BY <1>1, <2>3 DEF KnownOK, RecordsAgreeAt
  <2> QED
    BY <2>1, <2>2, <2>3, <2>4
<1>4. CASE GetStatus(c)
  <2>1. reply[c] # Nothing /\ reply[c].type = "status" /\ cpc[c] # "idle"
    BY <1>4 DEF GetStatus, GetReply
  <2>2. reply[c].received = received(records)
    BY <2>1 DEF KnownOK
  <2>3. status' = [status EXCEPT ![c] = received(records)] /\ sendNext(c, received(records), 1)
    BY <1>4, <2>2 DEF GetStatus
  <2>4. PICK j \in Missing(c, received(records), 1) : j \in Nat /\ next'[c] = j /\ request'[c] = putRequest(c, j)
    BY <1>1, <2>3, ChunkSent
  <2>5. ~ (j \in DOMAIN received(records) /\ received(records)[j] = content[c][j])
    BY DEF Missing
  <2>6. status'[c] = received(records)
    BY <1>1, <2>3
  <2> QED
    BY <1>3, <2>4, <2>5, <2>6
<1>5. CASE GetPutAck(c)
  <2>1. reply[c] # Nothing /\ reply[c].type = "putAck" /\ cpc[c] # "idle" /\ UNCHANGED status
    BY <1>5 DEF GetPutAck, GetReply
  <2>2. cpc[c] = "put"
    BY <2>1 DEF ProtocolInv, InStep, InStepAt, Answers
  <2>3. \A k \in DOMAIN records :
           \/ records[k].index <= next[c]
           \/ records[k].index \in DOMAIN status[c] /\ status[c][records[k].index] = records[k].chunk
    BY <2>2 DEF KnownOK, KnowsRecords
  <2>4. sendNext(c, status[c], next[c] + 1) /\ next[c] + 1 \in Nat \ {0}
    BY <1>1, <1>5 DEF GetPutAck
  <2>5. PICK j \in Missing(c, status[c], next[c] + 1) :
           j \in Nat /\ next[c] + 1 <= j /\ next'[c] = j /\ request'[c] = putRequest(c, j)
    BY <1>1, <2>4, ChunkSent
  <2>6. ~ (j \in DOMAIN status[c] /\ status[c][j] = content[c][j])
    BY DEF Missing
  <2>7. \A k \in DOMAIN records : records[k].index <= next[c] => records[k].index < j
    BY <1>1, <1>2, <2>5
  <2>8. \A k \in DOMAIN records : records[k].index = j => records[k].chunk # content[c][j]
    BY <1>2, <2>3, <2>6, <2>7
  <2>9. \A k \in DOMAIN records :
           \/ records[k].index <= j
           \/ records[k].index \in DOMAIN status'[c] /\ status'[c][records[k].index] = records[k].chunk
    <3>1. \A k \in DOMAIN records : records[k].index <= next[c] => records[k].index <= j
      BY <1>2, <2>5, <2>7
    <3>2. status' = status
      BY <2>1
    <3> HIDE DEF records
    <3> QED
      BY <2>3, <3>1, <3>2
  <2> HIDE DEF records
  <2> QED
    BY <2>5, <2>8, <2>9 DEF records
<1> QED
  BY <1>4, <1>5

\* Only a worker that appends or that marks the session writes an index.
LEMMA IndexStays ==
  ASSUME PoolSizes \subseteq {1}, ProtocolInv, [Next]_vars, NEW d \in Busy,
         wpc[d] \notin {"append", "markCommitted"} \/ wpc'[d] = wpc[d]
  PROVE  index' = index
<1>1. TypeOK /\ wpc \in [Clients -> {"none", "queued", "read"} \cup PutSteps \cup CommitSteps]
  BY DEF ProtocolInv, TypeOK
<1>2. ASSUME NEW c \in Clients, AppendIndex(c) \/ AppendCut(c) \/ MarkCommitted(c) \/ MarkCommittedCut(c)
      PROVE  FALSE
  <2>1. wpc[c] \in {"append", "markCommitted"}
    BY <1>2 DEF AppendIndex, AppendCut, MarkCommitted, MarkCommittedCut
  <2>2. c = d
    <3>1. c \in Busy
      BY <2>1 DEF Busy
    <3> QED
      BY <1>1, <3>1, OneBusy
  <2>3. wpc'[c] \in {"read", "none"}
    BY <1>1, <1>2 DEF AppendIndex, AppendCut, MarkCommitted, MarkCommittedCut, answer, fail, goto
  <2> QED
    BY <2>1, <2>2, <2>3
<1>3. ASSUME NEW c \in Clients, StartUpload(c) \/ ClientStep(c) \/ ClientDies(c)
      PROVE  index' = index
  BY <1>3 DEF StartUpload, ClientStep, GetHello, GetStatus, GetPutAck, GetCommitAck, UploadFails, ClientDies
<1>4. ASSUME NEW c \in Clients, Worker(c), ~ AppendIndex(c), ~ AppendCut(c), ~ MarkCommitted(c), ~ MarkCommittedCut(c)
      PROVE  index' = index
  BY <1>4 DEF Worker, HandleHello, HandleQuery, HandlePut, StoreChunk, CheckIndex, HandleCommit,
         LogBegin, BuildManifest, WriteTmp, LogWrite, Rename, LogRename, Mark, LogCommit, Log,
         ListVersions, WriteCheckpoint, ReadEnd, WriteFails
<1>5. CASE ServeNext \/ ServerDies \/ Restart \/ UNCHANGED vars
  BY <1>5 DEF ServeNext, ServerDies, Restart, vars
<1> QED
  BY <1>2, <1>3, <1>4, <1>5 DEF Next

\* What a step does to a client's memory.
LEMMA ClientFrame ==
  ASSUME ProtocolInv, [Next]_vars, NEW d \in Clients
  PROVE  \/ cpc'[d] = cpc[d] /\ next'[d] = next[d] /\ status'[d] = status[d]
         \/ cpc'[d] = "idle"
         \/ StartUpload(d) /\ cpc'[d] = "hello"
         \/ (GetHello(d) \/ GetStatus(d) \/ GetPutAck(d)) /\ cpc[d] # "idle" /\ reply[d] # Nothing
<1> DEFINE Framed == \/ cpc'[d] = cpc[d] /\ next'[d] = next[d] /\ status'[d] = status[d]
                     \/ cpc'[d] = "idle"
                     \/ StartUpload(d) /\ cpc'[d] = "hello"
                     \/ (GetHello(d) \/ GetStatus(d) \/ GetPutAck(d)) /\ cpc[d] # "idle" /\ reply[d] # Nothing
<1>1. /\ cpc \in [Clients -> {"idle", "hello", "query", "put", "commit"}]
      /\ next \in [Clients -> Nat] /\ DOMAIN status = Clients
      /\ \A c \in Clients : next[c] + 1 \in Nat \ {0}
  BY DEF ProtocolInv, TypeOK, MessagesOK
<1>2. ASSUME NEW c \in Clients, StartUpload(c)
      PROVE  Framed
  <2>1. cpc' = [cpc EXCEPT ![c] = "hello"] /\ UNCHANGED <<next, status>>
    BY <1>2 DEF StartUpload
  <2> QED
    BY <1>1, <1>2, <2>1
<1>3. ASSUME NEW c \in Clients, GetHello(c) \/ GetStatus(c) \/ GetPutAck(c)
      PROVE  Framed
  <2>1. cpc[c] # "idle" /\ reply[c] # Nothing
    BY <1>3 DEF GetHello, GetStatus, GetPutAck, GetReply
  <2>2. \A e \in Clients \ {c} : status'[e] = status[e]
    BY <1>1, <1>3 DEF GetHello, GetStatus, GetPutAck
  <2>3. \A e \in Clients \ {c} : next'[e] = next[e]
    BY <1>1, <1>3 DEF GetHello, GetStatus, GetPutAck, sendNext
  <2>4. \A e \in Clients \ {c} : cpc'[e] = cpc[e]
    <3>1. TypeOK /\ MessagesOK
      BY DEF ProtocolInv
    <3>2. \E q : send(c, q)
      BY <1>1, <1>3, <3>1, SendNext DEF GetHello, GetStatus, GetPutAck
    <3> QED
      BY <1>1, <3>2 DEF send
  <2> QED
    BY <1>3, <2>1, <2>2, <2>3, <2>4
<1>4. ASSUME NEW c \in Clients, GetCommitAck(c) \/ UploadFails(c) \/ ClientDies(c)
      PROVE  Framed
  <2>1. leave(c)
    BY <1>4 DEF GetCommitAck, UploadFails, ClientDies
  <2> QED
    BY <1>1, <2>1 DEF leave
<1>5. ASSUME NEW c \in Clients, Worker(c)
      PROVE  UNCHANGED clientVars
  BY <1>5 DEF Worker, HandleHello, HandleQuery, HandlePut, StoreChunk, CheckIndex, AppendIndex, HandleCommit,
         LogBegin, BuildManifest, WriteTmp, LogWrite, Rename, LogRename, Mark, LogCommit, Log,
         ListVersions, WriteCheckpoint, MarkCommitted, ReadEnd, AppendCut, MarkCommittedCut,
         WriteFails, clientVars
<1>6. CASE ServeNext \/ ServerDies \/ Restart \/ UNCHANGED vars
  BY <1>6 DEF ServeNext, ServerDies, Restart, vars, clientVars
<1> QED
  BY <1>2, <1>3, <1>4, <1>5, <1>6 DEF Next, ClientStep, clientVars

\* A connection is opened, and put into the queue, when the upload begins.
LEMMA ConnectionOpens ==
  ASSUME ProtocolInv, [Next]_vars, NEW d \in Clients, ~ StartUpload(d)
  PROVE  /\ conn'[d] = "open" => conn[d] = "open"
         /\ wpc'[d] = "queued" => wpc[d] = "queued"
<1>1. /\ TypeOK /\ QueueOK
      /\ conn \in [Clients -> {"none", "open", "eof"}]
      /\ wpc \in [Clients -> {"none", "queued", "read"} \cup PutSteps \cup CommitSteps]
  BY DEF ProtocolInv, TypeOK
<1>2. ASSUME NEW c \in Clients, StartUpload(c)
      PROVE  conn'[d] = conn[d] /\ wpc'[d] = wpc[d]
  BY <1>1, <1>2 DEF StartUpload, connect, accept
<1>3. ASSUME NEW c \in Clients, ClientStep(c) \/ ClientDies(c)
      PROVE  (conn'[d] = "open" => conn[d] = "open") /\ wpc'[d] = wpc[d]
  <2>1. UNCHANGED conn \/ close(c)
    BY <1>3 DEF ClientStep, GetHello, GetStatus, GetPutAck, GetCommitAck, UploadFails, ClientDies
  <2>2. UNCHANGED wpc
    BY <1>3 DEF ClientStep, GetHello, GetStatus, GetPutAck, GetCommitAck, UploadFails, ClientDies, workVars
  <2> QED
    BY <1>1, <2>1, <2>2 DEF close
<1>4. ASSUME NEW c \in Clients, Worker(c)
      PROVE  (conn'[d] = "open" => conn[d] = "open") /\ (wpc'[d] = "queued" => wpc[d] = "queued")
  <2>1. UNCHANGED conn \/ conn' = [conn EXCEPT ![c] = "none"]
    BY <1>4 DEF Worker, HandleHello, HandleQuery, HandlePut, StoreChunk, CheckIndex, AppendIndex, HandleCommit,
         LogBegin, BuildManifest, WriteTmp, LogWrite, Rename, LogRename, Mark, LogCommit, Log,
         ListVersions, WriteCheckpoint, MarkCommitted, ReadEnd, AppendCut, MarkCommittedCut,
         WriteFails, fail
  <2>2. \E l : goto(c, l) /\ l # "queued"
    <3>1. ASSUME NEW r, answer(c, r) \/ fail(c)
          PROVE  \E l : goto(c, l) /\ l # "queued"
      BY <3>1 DEF answer, fail
    <3>2. CASE \/ HandleHello(c) \/ HandleQuery(c) \/ AppendIndex(c) \/ AppendCut(c) \/ MarkCommitted(c)
               \/ MarkCommittedCut(c) \/ WriteFails(c)
      BY <3>1, <3>2 DEF HandleHello, HandleQuery, AppendIndex, AppendCut, MarkCommitted, MarkCommittedCut, WriteFails
    <3>3. CASE \/ HandlePut(c) \/ StoreChunk(c) \/ ReadEnd(c) \/ LogBegin(c) \/ LogWrite(c) \/ LogRename(c)
               \/ LogCommit(c) \/ WriteTmp(c) \/ Mark(c) \/ WriteCheckpoint(c) \/ HandleCommit(c) \/ ListVersions(c)
      BY <3>3 DEF HandlePut, StoreChunk, ReadEnd, LogBegin, LogWrite, LogRename, LogCommit, Log, WriteTmp, Mark,
                  WriteCheckpoint, HandleCommit, ListVersions
    <3>4. CASE CheckIndex(c) \/ Rename(c) \/ BuildManifest(c)
      BY <3>1, <3>4 DEF CheckIndex, Rename, BuildManifest
    <3> QED
      BY <1>4, <3>2, <3>3, <3>4 DEF Worker
  <2> QED
    BY <1>1, <2>1, <2>2 DEF goto
<1>5. CASE ServeNext
  BY <1>1, <1>5, HeadWaits DEF ServeNext, goto
<1>6. CASE ServerDies
  BY <1>1, <1>6 DEF ServerDies
<1>7. CASE Restart \/ UNCHANGED vars
  BY <1>7 DEF Restart, vars, workVars
<1> QED
  BY <1>2, <1>3, <1>4, <1>5, <1>6, <1>7 DEF Next

\* While a client waits for its ack, nothing that it knows changes.
LEMMA PutWaits ==
  ASSUME ProtocolInv, InStep', [Next]_vars, NEW d \in Clients,
         ~ GetStatus(d), ~ GetPutAck(d), cpc'[d] = "put", conn'[d] = "open"
  PROVE  /\ cpc[d] = "put" /\ conn[d] = "open"
         /\ next'[d] = next[d] /\ status'[d] = status[d]
         /\ request'[d] \in {request[d], Nothing}
<1>1. /\ DOMAIN request = Clients
      /\ cpc \in [Clients -> {"idle", "hello", "query", "put", "commit"}]
  BY DEF ProtocolInv, MessagesOK, TypeOK
<1>2. ~ GetHello(d)
  <2>1. ASSUME GetHello(d)
        PROVE  cpc'[d] = "query"
    BY <1>1, <2>1 DEF GetHello, send
  <2> QED
    BY <2>1
<1>3. ~ StartUpload(d)
  <2>1. ASSUME StartUpload(d)
        PROVE  cpc'[d] = "hello"
    BY <1>1, <2>1 DEF StartUpload
  <2> QED
    BY <2>1
<1>4. cpc[d] = "put" /\ next'[d] = next[d] /\ status'[d] = status[d]
  BY <1>2, <1>3, ClientFrame
<1>5. conn[d] = "open"
  BY <1>3, ConnectionOpens
<1>6. request'[d] # Nothing => request'[d].type = "put"
  BY DEF InStep, InStepAt
<1> QED
  BY <1>4, <1>5, <1>6, PutSent

LEMMA NextRecordsAgree ==
  ASSUME PoolSizes \subseteq {1}, ProtocolInv, KnownOK, [Next]_vars, NEW s \in Sessions
  PROVE  RecordsAgreeAt(s)'
<1>1. ASSUME NEW k \in DOMAIN index'[s].records
      PROVE  \/ \E i \in DOMAIN index[s].records : index'[s].records[k] = index[s].records[i]
             \/ \E c \in Busy : /\ SessionOf[c] = s /\ wpc[c] = "append"
                                /\ index'[s].records[k].index = request[c].record.index
                                /\ index'[s].records[k].chunk = request[c].record.chunk
  <2>1. CASE index'[s].records[k] \in Range(index[s].records)
    BY <2>1 DEF Range
  <2>2. ASSUME NEW c \in Clients, SessionOf[c] = s, wpc[c] = "append",
               \/ index'[s].records[k] = newRecord(c)
               \/ index'[s].records[k] = [newRecord(c) EXCEPT !.object = Nothing]
        PROVE  /\ c \in Busy
               /\ index'[s].records[k].index = request[c].record.index
               /\ index'[s].records[k].chunk = request[c].record.chunk
    BY <2>2 DEF Busy, newRecord
  <2>3. \/ index'[s].records[k] \in Range(index[s].records)
        \/ \E c \in Clients :
              /\ SessionOf[c] = s /\ wpc[c] = "append"
              /\ \/ index'[s].records[k] = newRecord(c)
                 \/ index'[s].records[k] = [newRecord(c) EXCEPT !.object = Nothing]
    BY IndexGrows
  <2> QED
    BY <2>1, <2>2, <2>3
<1>2. ASSUME NEW c \in Busy, SessionOf[c] = s, wpc[c] = "append", NEW i \in DOMAIN index[s].records
      PROVE  index[s].records[i].index # request[c].record.index
  BY <1>2 DEF KnownOK, Busy, Indices
<1>3. \A i, j \in DOMAIN index[s].records :
         index[s].records[i].index = index[s].records[j].index => index[s].records[i].chunk = index[s].records[j].chunk
  BY DEF KnownOK, RecordsAgreeAt
<1>4. \A c, d \in Busy : c = d
  BY OneBusy DEF ProtocolInv
<1> SUFFICES ASSUME NEW k \in DOMAIN index'[s].records, NEW l \in DOMAIN index'[s].records,
                    index'[s].records[k].index = index'[s].records[l].index
             PROVE  index'[s].records[k].chunk = index'[s].records[l].chunk
  BY DEF RecordsAgreeAt
<1>5. CASE \E i \in DOMAIN index[s].records : index'[s].records[k] = index[s].records[i]
  <2>1. PICK i \in DOMAIN index[s].records : index'[s].records[k] = index[s].records[i]
    BY <1>5
  <2>2. PICK j \in DOMAIN index[s].records : index'[s].records[l] = index[s].records[j]
    BY <1>1, <1>2, <2>1
  <2> QED
    BY <1>3, <2>1, <2>2
<1>6. CASE ~ \E i \in DOMAIN index[s].records : index'[s].records[k] = index[s].records[i]
  <2>1. PICK c \in Busy : /\ SessionOf[c] = s /\ wpc[c] = "append"
                          /\ index'[s].records[k].index = request[c].record.index
                          /\ index'[s].records[k].chunk = request[c].record.chunk
    BY <1>1, <1>6
  <2>2. ~ \E j \in DOMAIN index[s].records : index'[s].records[l] = index[s].records[j]
    BY <1>2, <2>1
  <2>3. PICK d \in Busy : /\ SessionOf[d] = s /\ wpc[d] = "append"
                          /\ index'[s].records[l].index = request[d].record.index
                          /\ index'[s].records[l].chunk = request[d].record.chunk
    BY <1>1, <2>2
  <2> QED
    BY <1>4, <2>1, <2>3
<1> QED
  BY <1>5, <1>6

\* The record that is appended is new.
LEMMA NextAppends ==
  ASSUME PoolSizes \subseteq {1}, ProtocolInv, KnownOK, [Next]_vars, NEW d \in Clients, wpc'[d] = "append"
  PROVE  request'[d].record.index \notin Indices(index'[SessionOf[d]].records)
<1>1. wpc'[d] \in PutSteps \cup CommitSteps
  BY DEF PutSteps
<1>2. CASE wpc'[d] = wpc[d] /\ request'[d] = request[d]
  <2>1. index' = index
    BY <1>2, IndexStays DEF Busy
  <2> QED
    BY <1>2, <2>1 DEF KnownOK
<1>3. CASE Worker(d) /\ UNCHANGED request
  <2>1. CheckIndex(d) /\ wpc[d] = "check"
    BY <1>3, PutOrder DEF ProtocolInv
  <2>2. wpc \in [Clients -> {"none", "queued", "read"} \cup PutSteps \cup CommitSteps]
    BY DEF ProtocolInv, TypeOK
  <2>3. UNCHANGED index /\ request[d].record.index \notin DOMAIN received(index[SessionOf[d]].records)
    BY <2>1, <2>2 DEF CheckIndex, answer, fail, goto, session
  <2> QED
    BY <1>3, <2>3 DEF received
<1> QED
  BY <1>1, <1>2, <1>3, HandlerAlone

\* The status that is on its way is that of the index.
LEMMA NextStatus ==
  ASSUME PoolSizes \subseteq {1}, ProtocolInv, KnownOK, [Next]_vars, NEW d \in Clients,
         reply'[d] # Nothing, reply'[d].type = "status", conn'[d] = "open"
  PROVE  reply'[d].received = received(index'[SessionOf[d]].records)
<1>1. CASE reply'[d] = reply[d]
  <2>1. ~ StartUpload(d)
    BY <1>1 DEF StartUpload, ProtocolInv, InStep, InStepAt
  <2>2. conn[d] = "open"
    BY <2>1, ConnectionOpens
  <2>3. wpc[d] = "read"
    BY <1>1, <2>2 DEF ProtocolInv, InStep, InStepAt
  <2>4. index' = index
    BY <2>3, IndexStays DEF Busy
  <2> QED
    BY <1>1, <2>2, <2>4 DEF KnownOK
<1>2. CASE HandleQuery(d) /\ reply'[d].received = received(index[SessionOf[d]].records)
  BY <1>2 DEF HandleQuery
<1> QED
  BY <1>1, <1>2, ReplySent

\* A client that waits for a PUT_ACK knows the records of its session.
LEMMA NextKnows ==
  ASSUME PoolSizes \subseteq {1}, ProtocolInv, InStep', KnownOK, [Next]_vars, NEW d \in Clients,
         cpc'[d] = "put", conn'[d] = "open"
  PROVE  /\ request'[d] # Nothing => request'[d].record.index = next'[d]
         /\ KnowsRecords(d)'
<1>1. CASE GetStatus(d) \/ GetPutAck(d)
  <2>1. conn[d] = "open" /\ index' = index
    BY <1>1 DEF GetStatus, GetPutAck
  <2>2. PICK j \in Nat :
           /\ next'[d] = j /\ request'[d] = putRequest(d, j)
           /\ \A k \in DOMAIN index[SessionOf[d]].records :
                 LET r == index[SessionOf[d]].records[k]
                 IN  r.index <= j \/ (r.index \in DOMAIN status'[d] /\ status'[d][r.index] = r.chunk)
    BY <1>1, <2>1, SendsUnknown
  <2>3. request'[d].record.index = j
    BY <2>2 DEF putRequest, prepared
  <2> QED
    BY <2>1, <2>2, <2>3 DEF KnowsRecords
<1>2. CASE ~ GetStatus(d) /\ ~ GetPutAck(d)
  <2>1. /\ cpc[d] = "put" /\ conn[d] = "open"
        /\ next'[d] = next[d] /\ status'[d] = status[d]
        /\ request'[d] \in {request[d], Nothing}
    BY <1>2, PutWaits
  <2>2. /\ request[d] # Nothing => request[d].record.index = next[d]
        /\ KnowsRecords(d)
    BY <2>1 DEF KnownOK
  <2>3. d \in Busy
    BY <2>1 DEF KnownOK, Busy, ProtocolInv, InStep, InStepAt
  <2>4. SessionOf[d] \in Sessions /\ next[d] \in Nat /\ TypeOK
    BY UploadAssumption DEF UploadAssumption, ProtocolInv, TypeOK
  <2>5. ASSUME NEW k \in DOMAIN index'[SessionOf[d]].records
        PROVE  LET r == index'[SessionOf[d]].records[k]
               IN  r.index <= next[d] \/ (r.index \in DOMAIN status[d] /\ status[d][r.index] = r.chunk)
    <3>1. CASE index'[SessionOf[d]].records[k] \in Range(index[SessionOf[d]].records)
      BY <2>2, <3>1 DEF KnowsRecords, Range
    <3>2. ASSUME NEW c \in Clients, wpc[c] = "append",
                 \/ index'[SessionOf[d]].records[k] = newRecord(c)
                 \/ index'[SessionOf[d]].records[k] = [newRecord(c) EXCEPT !.object = Nothing]
          PROVE  index'[SessionOf[d]].records[k].index <= next[d]
      <4>1. c = d
        BY <2>3, <2>4, <3>2, OneBusy DEF Busy
      <4>2. request[d] # Nothing
        BY <3>2, <4>1 DEF ProtocolInv, InStep, InStepAt, PutSteps
      <4>3. index'[SessionOf[d]].records[k].index = request[d].record.index
        BY <3>2, <4>1 DEF newRecord
      <4> QED
        BY <2>2, <2>4, <4>2, <4>3
    <3>3. \/ index'[SessionOf[d]].records[k] \in Range(index[SessionOf[d]].records)
          \/ \E c \in Clients :
                /\ wpc[c] = "append"
                /\ \/ index'[SessionOf[d]].records[k] = newRecord(c)
                   \/ index'[SessionOf[d]].records[k] = [newRecord(c) EXCEPT !.object = Nothing]
      BY <2>4, IndexGrows
    <3> QED
      BY <3>1, <3>2, <3>3
  <2> QED
    BY <2>1, <2>2, <2>5 DEF KnowsRecords
<1> QED
  BY <1>1, <1>2

LEMMA NextKnown ==
  ASSUME PoolSizes \subseteq {1}, ProtocolInv, InStep', KnownOK, [Next]_vars
  PROVE  KnownOK'
<1>1. ASSUME NEW d \in Clients, wpc'[d] = "queued", cpc'[d] # "idle"
      PROVE  cpc'[d] = "hello"
  <2>1. CASE StartUpload(d)
    <3>1. cpc' = [cpc EXCEPT ![d] = "hello"] /\ DOMAIN cpc = Clients
      BY <2>1 DEF StartUpload, ProtocolInv, TypeOK
    <3> QED
      BY <3>1
  <2>2. CASE ~ StartUpload(d)
    <3>1. wpc[d] = "queued"
      BY <1>1, <2>2, ConnectionOpens
    <3>2. cpc[d] # "idle" => cpc[d] = "hello" /\ reply[d] = Nothing
      BY <3>1 DEF KnownOK, ProtocolInv, TypeOK, InStep, InStepAt
    <3> QED
      BY <1>1, <2>2, <3>2, ClientFrame
  <2> QED
    BY <2>1, <2>2
<1>2. \A s \in Sessions : RecordsAgreeAt(s)'
  BY NextRecordsAgree
<1>3. \A d \in Clients : wpc'[d] = "append" =>
         request'[d].record.index \notin Indices(index'[SessionOf[d]].records)
  BY NextAppends
<1>4. \A d \in Clients : reply'[d] # Nothing /\ reply'[d].type = "status" /\ conn'[d] = "open" =>
         reply'[d].received = received(index'[SessionOf[d]].records)
  BY NextStatus
<1>5. \A d \in Clients : cpc'[d] = "put" /\ conn'[d] = "open" =>
         /\ request'[d] # Nothing => request'[d].record.index = next'[d]
         /\ KnowsRecords(d)'
  BY NextKnows
<1> QED
  BY <1>1, <1>2, <1>3, <1>4, <1>5 DEF KnownOK

\* With one worker, a chunk that the server has for a session is never sent
\* again under it, whatever was uploaded of the source, or of another one, before
\* and whoever died since: a client sends what the status and its acks lack.
THEOREM AckedChunksNotResent ==
  ASSUME PoolSizes \subseteq {1}
  PROVE  Spec => NothingResent
<1>1. Init => KnownOK
  <2> SUFFICES ASSUME Init
               PROVE  KnownOK
    OBVIOUS
  <2>1. /\ \A s \in Sessions : index[s].records = <<>>
        /\ \A c \in Clients : wpc[c] = "none" /\ cpc[c] = "idle" /\ reply[c] = Nothing
    BY DEF Init, NewIndex
  <2> QED
    BY <2>1 DEF KnownOK, RecordsAgreeAt
<1>2. ProtocolInv /\ InStep' /\ KnownOK /\ [Next]_vars => KnownOK'
  BY NextKnown
<1>3. ProtocolInv /\ KnownOK /\ [Next]_vars =>
         [\A c \in Clients :
             request'[c] # request[c] /\ request'[c] # Nothing /\ request'[c].type = "put"
                => \A k \in DOMAIN index[SessionOf[c]].records :
                       LET r == index[SessionOf[c]].records[k]
                       IN  r.index = request'[c].record.index => r.chunk # request'[c].record.chunk]_vars
  <2> SUFFICES ASSUME ProtocolInv, KnownOK, [Next]_vars, NEW c \in Clients,
                      request'[c] # request[c], request'[c] # Nothing, request'[c].type = "put",
                      NEW k \in DOMAIN index[SessionOf[c]].records
               PROVE  LET r == index[SessionOf[c]].records[k]
                      IN  r.index = request'[c].record.index => r.chunk # request'[c].record.chunk
    OBVIOUS
  <2>1. (GetStatus(c) \/ GetPutAck(c)) /\ conn[c] = "open" /\ cpc'[c] = "put"
    BY PutSent
  <2>2. PICK j \in Nat :
           /\ request'[c] = putRequest(c, j)
           /\ \A i \in DOMAIN index[SessionOf[c]].records :
                 index[SessionOf[c]].records[i].index = j => index[SessionOf[c]].records[i].chunk # content[c][j]
    BY <2>1, SendsUnknown
  <2>3. request'[c].record.index = j /\ request'[c].record.chunk = content[c][j]
    BY <2>2 DEF putRequest, prepared
  <2> QED
    BY <2>2, <2>3
<1>4. ProtocolInv => InStep
  BY DEF ProtocolInv
<1> QED
  BY <1>1, <1>2, <1>3, <1>4, ProtocolInvariant, PTL DEF Spec, NothingResent

=============================================================================
