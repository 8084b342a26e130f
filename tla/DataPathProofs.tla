--------------------------- MODULE DataPathProofs ---------------------------
(***************************************************************************)
(* What is cut, stored and listed in a manifest is what restore brings     *)
(* back: for all sources, sizes and hashes, any number of versions and of  *)
(* damages.                                                                *)
(*                                                                         *)
(* The inductive invariant, DataInv, says of every version that its text   *)
(* is what is left of the text of a manifest of the version's source, of   *)
(* the chunkers that they cut at the first boundary and nowhere else, of a *)
(* session that its records are of its source, and of a command that what  *)
(* it has done so far is that part of its source.                          *)
(***************************************************************************)
EXTENDS DataPath, ListLemmas

-----------------------------------------------------------------------------
(***************************************************************************)
(* Where the chunkers cut, for every file, all sizes and any hash.         *)
(***************************************************************************)
\* The chunk that is being collected starts where the last chunk ends.
LEMMA StartIsEnd ==
    ASSUME ends \in Seq(Nat)
    PROVE  /\ start \in Nat
           /\ start = startOf(Len(ends) + 1)
           /\ \A k \in DOMAIN ends : startOf(k) \in Nat
  BY DEF start, startOf

\* A cut at a place behind the last one, and not behind the file, keeps what is
\* known of the cuts before it.
LEMMA AppendCut ==
    ASSUME ChunkerTypeOK, EndsIncrease, BytesCovered, ChunkSizes,
           NEW e \in Nat, ends' = Append(ends, e), data' = data, mode' = mode, pos' \in Nat,
           e <= Len(data), ends = <<>> \/ start < e,
           e - start <= LargestSize,
           e # Len(data) => e - start >= SmallestSize
    PROVE  ChunkerTypeOK' /\ EndsIncrease' /\ BytesCovered' /\ ChunkSizes' /\ start' = e
  <1>0. /\ ends \in Seq(Nat) /\ Len(ends) \in Nat /\ DOMAIN ends = 1 .. Len(ends)
        /\ start \in Nat /\ Len(data) \in Nat
        /\ \A k \in DOMAIN ends : ends[k] \in Nat /\ startOf(k) \in Nat
    BY StartIsEnd DEF ChunkerTypeOK
  <1>n. PICK n \in Nat : n = Len(ends)
    BY <1>0
  <1>1. /\ ends' \in Seq(Nat) /\ Len(ends') = n + 1
        /\ DOMAIN ends' = 1 .. n + 1
        /\ ends'[n + 1] = e
        /\ \A k \in 1 .. n : ends'[k] = ends[k]
    BY <1>0, <1>n
  <1>2. ChunkerTypeOK'
    BY <1>1 DEF ChunkerTypeOK
  <1>3. start' = e
    BY <1>0, <1>n, <1>1 DEF start
  <1>4. ASSUME NEW k \in 1 .. n PROVE startOf(k)' = startOf(k)
    <2>1. CASE k = 1
      BY <2>1 DEF startOf
    <2>2. CASE k # 1
      <3>1. k - 1 \in 1 .. n
        BY <1>0, <1>n, <2>2
      <3> QED
        BY <1>1, <2>2, <3>1 DEF startOf
    <2> QED
      BY <2>1, <2>2
  <1>5. startOf(n + 1)' = start
    <2>1. CASE ends = <<>>
      BY <1>0, <1>n, <2>1 DEF start, startOf
    <2>2. CASE ends # <<>>
      <3>1. n \in 1 .. n /\ n + 1 # 1 /\ n + 1 - 1 = n
        BY <1>0, <1>n, <2>2
      <3> QED
        BY <1>1, <1>n, <2>2, <3>1 DEF start, startOf
    <2> QED
      BY <2>1, <2>2
  <1>6. ASSUME NEW k \in 1 .. n
        PROVE  ends[k] \in Nat /\ ends[k] <= start /\ start < e
    <2>0. k \in Nat /\ 1 <= k /\ k <= n
      OBVIOUS
    <2>1. n \in 1 .. n /\ (k = n \/ k < n) /\ k \in DOMAIN ends /\ n \in DOMAIN ends
      <3>1. n \in 1 .. n /\ (k = n \/ k < n)
        BY <2>0
      <3>2. DOMAIN ends = 1 .. n
        BY <1>0, <1>n
      <3> QED
        BY <3>1, <3>2
    <2>2. ends # <<>>
      BY <2>1
    <2>3. start = ends[n]
      BY <1>n, <2>2 DEF start
    <2>4. ends[k] \in Nat /\ ends[n] \in Nat
      BY <1>0, <2>1
    <2>5. k < n => ends[k] < ends[n]
      BY <2>1 DEF EndsIncrease
    <2> QED
      BY <2>1, <2>2, <2>3, <2>4, <2>5
  <1>7. EndsIncrease'
    <2>1. ASSUME NEW k \in 1 .. n + 1 PROVE (ends[k] <= Len(data))'
      BY <1>0, <1>n, <1>1 DEF EndsIncrease
    <2>2. ASSUME NEW j \in 1 .. n + 1, NEW k \in 1 .. n + 1, j < k
          PROVE  (ends[j] < ends[k])'
      <3>1. CASE k = n + 1
        <4>1. j \in 1 .. n
          BY <2>2, <3>1
        <4>2. ends[j] < e
          BY <1>0, <1>6, <4>1
        <4>3. ends'[j] = ends[j] /\ ends'[k] = e
          BY <1>1, <3>1, <4>1
        <4> QED
          BY <4>2, <4>3
      <3>2. CASE k # n + 1
        <4>1. j \in 1 .. n /\ k \in 1 .. n
          BY <2>2, <3>2
        <4> QED
          BY <1>0, <1>n, <1>1, <2>2, <4>1 DEF EndsIncrease
      <3> QED
        BY <3>1, <3>2
    <2> QED
      BY <1>1, <2>1, <2>2 DEF EndsIncrease
  <1>8. BytesCovered'
    <2> SUFFICES ASSUME NEW i \in 1 .. e
                 PROVE  \E k \in DOMAIN ends' : InChunk(i, k)'
      BY <1>3 DEF BytesCovered
    <2>1. CASE i \in 1 .. start
      <3>1. PICK k \in 1 .. n : InChunk(i, k)
        BY <1>0, <1>n, <2>1 DEF BytesCovered
      <3>2. InChunk(i, k)'
        BY <1>1, <1>4, <3>1 DEF InChunk
      <3>3. k \in DOMAIN ends'
        BY <1>0, <1>n, <1>1
      <3> QED
        BY <3>2, <3>3
    <2>2. CASE i \notin 1 .. start
      <3>1. start < i /\ i <= e
        BY <1>0, <1>n, <2>2
      <3>2. InChunk(i, n + 1)'
        BY <1>1, <1>5, <3>1 DEF InChunk
      <3>3. n + 1 \in DOMAIN ends'
        BY <1>0, <1>n, <1>1
      <3> QED
        BY <3>2, <3>3
    <2> QED
      BY <2>1, <2>2
  <1>9. ChunkSizes'
    <2>1. LargestSize' = LargestSize /\ SmallestSize' = SmallestSize
      BY DEF LargestSize, SmallestSize
    <2>2. ASSUME NEW k \in 1 .. n + 1
          PROVE  (/\ ends[k] - startOf(k) <= LargestSize
                  /\ ends[k] # Len(data) => ends[k] - startOf(k) >= SmallestSize)'
      <3>1. CASE k = n + 1
        BY <1>1, <1>5, <2>1, <3>1
      <3>2. CASE k # n + 1
        <4>1. k \in 1 .. n
          BY <1>0, <1>n, <3>2
        <4> QED
          BY <1>0, <1>n, <1>1, <1>4, <2>1, <4>1 DEF ChunkSizes
      <3> QED
        BY <3>1, <3>2
    <2> QED
      BY <1>1, <2>2 DEF ChunkSizes
  <1> QED
    BY <1>2, <1>3, <1>7, <1>8, <1>9

LEMMA InitInv == ChunkerInit => ChunkerInv
  <1> SUFFICES ASSUME ChunkerInit PROVE ChunkerInv
    OBVIOUS
  <1>1. ends = <<>> /\ start = 0 /\ pos = 0 /\ Len(data) \in Nat
    BY DEF ChunkerInit, start
  <1>2. ChunkerTypeOK
    BY DEF ChunkerInit, ChunkerTypeOK
  <1>3. EndsIncrease /\ BytesCovered /\ ChunkSizes
    BY <1>1 DEF EndsIncrease, BytesCovered, ChunkSizes
  <1>4. HashAhead
    BY <1>1, ChunkerAssumption DEF HashAhead
  <1> QED
    BY <1>2, <1>3, <1>4 DEF ChunkerInv

\* Every step of a chunker keeps the invariant.
LEMMA NextInv == ChunkerInv /\ [Cut]_chunkerVars => ChunkerInv'
  <1> SUFFICES ASSUME ChunkerInv, [Cut]_chunkerVars PROVE ChunkerInv'
    OBVIOUS
  <1>0. /\ ChunkerTypeOK /\ EndsIncrease /\ BytesCovered /\ HashAhead /\ ChunkSizes
        /\ Len(data) \in Nat /\ pos \in Nat /\ start \in Nat
    BY StartIsEnd DEF ChunkerInv, ChunkerTypeOK
  <1>a. /\ mode \in {"fixed", "cdc"}
        /\ ChunkSize \in Nat \ {0} /\ MinSize \in Nat \ {0} /\ MaxSize \in Nat /\ MinSize <= MaxSize
    BY <1>0, ChunkerAssumption DEF ChunkerTypeOK, Modes
  <1>b. ends # <<>> => start <= Len(data)
    BY <1>0 DEF EndsIncrease, ChunkerTypeOK, start
  <1>1. CASE CutEmpty
    <2>1. start = 0 /\ Len(data) = 0
      BY <1>1 DEF CutEmpty, start
    <2>2. LargestSize \in Nat
      BY <1>a DEF LargestSize
    <2>3. ChunkerTypeOK' /\ EndsIncrease' /\ BytesCovered' /\ ChunkSizes' /\ start' = 0
      <3>1. ends' = Append(ends, 0)
        BY <1>1 DEF CutEmpty
      <3> QED
        BY <1>0, <1>1, <2>1, <2>2, <3>1, AppendCut DEF CutEmpty
    <2>4. HashAhead'
      BY <1>0, <1>1, <1>a, <2>1, <2>3 DEF HashAhead, CutEmpty
    <2> QED
      BY <2>3, <2>4 DEF ChunkerInv
  <1>2. CASE CutFixed
    <2> DEFINE e == IF start + ChunkSize <= Len(data) THEN start + ChunkSize ELSE Len(data)
    <2>1. e \in Nat /\ start < e /\ e <= Len(data) /\ e - start <= ChunkSize
          /\ (e # Len(data) => e - start >= ChunkSize)
      BY <1>0, <1>2, <1>a DEF CutFixed
    <2>2. LargestSize = ChunkSize /\ SmallestSize = ChunkSize
      BY <1>2 DEF CutFixed, LargestSize, SmallestSize
    <2>3. ends' = Append(ends, e) /\ data' = data /\ mode' = mode /\ pos' = pos
      BY <1>2 DEF CutFixed
    <2> HIDE DEF e
    <2>4. ChunkerTypeOK' /\ EndsIncrease' /\ BytesCovered' /\ ChunkSizes'
      BY <1>0, <2>1, <2>2, <2>3, AppendCut
    <2>5. HashAhead'
      BY <1>2 DEF HashAhead, CutFixed
    <2> QED
      BY <2>4, <2>5 DEF ChunkerInv
  <1>3. CASE NextByte
    <2>0. /\ mode = "cdc" /\ pos < Len(data) /\ pos' = pos + 1 /\ data' = data /\ mode' = mode
          /\ start <= pos /\ pos - start < MaxSize
      BY <1>0, <1>3 DEF NextByte, HashAhead
    <2>1. CASE ends' = Append(ends, pos + 1) /\ pos + 1 - start >= MinSize
      <3>1. LargestSize = MaxSize /\ SmallestSize = MinSize
        BY <2>0 DEF LargestSize, SmallestSize
      <3>2. /\ pos + 1 \in Nat /\ pos + 1 <= Len(data) /\ start < pos + 1
            /\ pos + 1 - start <= MaxSize
        BY <1>0, <1>a, <2>0
      <3>3. ChunkerTypeOK' /\ EndsIncrease' /\ BytesCovered' /\ ChunkSizes' /\ start' = pos + 1
        BY <1>0, <2>0, <2>1, <3>1, <3>2, AppendCut
      <3>4. HashAhead'
        BY <1>0, <1>a, <2>0, <3>3 DEF HashAhead
      <3> QED
        BY <3>3, <3>4 DEF ChunkerInv
    <2>2. CASE ends' = ends /\ pos + 1 - start < MaxSize
      <3>1. ChunkerTypeOK'
        BY <1>0, <2>0, <2>2 DEF ChunkerTypeOK
      <3>2. start' = start /\ EndsIncrease' /\ BytesCovered' /\ ChunkSizes'
        BY <1>0, <2>0, <2>2
           DEF start, startOf, EndsIncrease, BytesCovered, InChunk, ChunkSizes, LargestSize, SmallestSize
      <3>3. HashAhead'
        BY <1>0, <2>0, <2>2, <3>2 DEF HashAhead
      <3> QED
        BY <3>1, <3>2, <3>3 DEF ChunkerInv
    <2> QED
      BY <1>0, <1>3, <1>a, <2>0, <2>1, <2>2 DEF NextByte
  <1>4. CASE CutTail
    <2>0. /\ mode = "cdc" /\ pos = Len(data) /\ start < Len(data)
          /\ ends' = Append(ends, Len(data)) /\ data' = data /\ mode' = mode /\ pos' = pos
          /\ pos - start < MaxSize
      BY <1>0, <1>4 DEF CutTail, HashAhead
    <2>1. LargestSize = MaxSize /\ SmallestSize = MinSize
      BY <2>0 DEF LargestSize, SmallestSize
    <2>2. Len(data) - start <= MaxSize
      BY <1>0, <1>a, <2>0
    <2>3. ChunkerTypeOK' /\ EndsIncrease' /\ BytesCovered' /\ ChunkSizes' /\ start' = Len(data)
      BY <1>0, <2>0, <2>1, <2>2, AppendCut
    <2>4. HashAhead'
      BY <1>0, <1>a, <2>0, <2>3 DEF HashAhead
    <2> QED
      BY <2>3, <2>4 DEF ChunkerInv
  <1>5. CASE UNCHANGED chunkerVars
    BY <1>0, <1>5
       DEF chunkerVars, ChunkerInv, ChunkerTypeOK, start, startOf, EndsIncrease, BytesCovered,
           InChunk, HashAhead, ChunkSizes, LargestSize, SmallestSize
  <1> QED
    BY <1>1, <1>2, <1>3, <1>4, <1>5 DEF Cut

THEOREM ChunkerInvariance == ChunkerSpec => []ChunkerInv
  BY InitInv, NextInv, PTL DEF ChunkerSpec

\* A byte that is passed lies between the ends of one chunk.
LEMMA CutEachByte == ChunkerInv => EachByteOnce
<1> SUFFICES ASSUME ChunkerInv PROVE EachByteOnce
  OBVIOUS
<1>0. /\ ends \in Seq(Nat) /\ EndsIncrease /\ BytesCovered /\ Len(data) \in Nat
      /\ start \in Nat
  BY StartIsEnd DEF ChunkerInv, ChunkerTypeOK
<1>1. start <= Len(data)
  BY <1>0 DEF EndsIncrease, start
<1>2. ASSUME NEW j \in DOMAIN ends, NEW k \in DOMAIN ends, j < k
      PROVE  ends[j] <= startOf(k)
  <2>1. k - 1 \in DOMAIN ends /\ startOf(k) = ends[k - 1] /\ (j = k - 1 \/ j < k - 1)
    BY <1>0, <1>2 DEF startOf
  <2> QED
    BY <1>0, <2>1 DEF EndsIncrease
<1>3. ASSUME NEW i \in 1 .. start, NEW j \in DOMAIN ends, NEW k \in DOMAIN ends,
             InChunk(i, j), InChunk(i, k), j < k
      PROVE  FALSE
  <2>1. ends[j] \in Nat /\ startOf(k) \in Nat
    BY <1>0, StartIsEnd
  <2> QED
    BY <1>2, <1>3, <2>1 DEF InChunk
<1>4. ASSUME NEW i \in 1 .. start
      PROVE  \E k \in DOMAIN ends : /\ InChunk(i, k)
                                    /\ \A j \in DOMAIN ends : InChunk(i, j) => j = k
  <2>1. PICK k \in DOMAIN ends : InChunk(i, k)
    BY <1>0 DEF BytesCovered
  <2>2. \A j \in DOMAIN ends : j = k \/ j < k \/ k < j
    BY <1>0
  <2> QED
    BY <1>3, <2>1, <2>2
<1> QED
  BY <1>1, <1>4 DEF EachByteOnce

\* FixedChunker and ContentDefinedChunker put every byte they have passed into
\* one chunk, whatever the file, the sizes and the hash.
THEOREM BytesInOneChunk == ChunkerSpec => []EachByteOnce
  BY ChunkerInvariance, CutEachByte, PTL

\* No chunk is larger than the largest size, and only a file's last one is
\* smaller than the smallest.
THEOREM SizesBounded == ChunkerSpec => []ChunkSizes
  <1>1. ChunkerInv => ChunkSizes
    BY DEF ChunkerInv
  <1> QED
    BY <1>1, ChunkerInvariance, PTL

-----------------------------------------------------------------------------
(***************************************************************************)
(* The text of a manifest: where its lines are, and that                   *)
(* ManifestStore::parse reads back what serialize has written.             *)
(***************************************************************************)
fileLine(f) == <<"FILE", f.path, f.size, f.digest, Len(f.chunks)>>

endLine == <<"END_FILE">>

HeadLines ==
    {<<"DPC_MANIFEST_V1">>, <<"END">>}
      \cup {<<"version", v>> : v \in Nat} \cup {<<"chunking_mode", o>> : o \in Modes}
      \cup {<<"file_count", k>> : k \in Nat}

BlockLines == {fileLine(f) : f \in FileRecords} \cup {chunkLine(r) : r \in ChunkRefs} \cup {endLine}

Lines == HeadLines \cup BlockLines

\* The lines of a file: its own, one for each chunk, and the end.
LEMMA FileLinesAt ==
  ASSUME NEW f \in FileRecords
  PROVE  /\ fileLines(f) \in Seq(BlockLines)
         /\ Len(f.chunks) \in Nat
         /\ Len(fileLines(f)) = Len(f.chunks) + 2
         /\ fileLines(f)[1] = fileLine(f)
         /\ \A c \in 1 .. Len(f.chunks) : fileLines(f)[1 + c] = chunkLine(f.chunks[c])
         /\ fileLines(f)[Len(f.chunks) + 2] = endLine
<1>0. f.chunks \in Seq(ChunkRefs)
  BY DEF FileRecords
<1>1. Len(f.chunks) \in Nat /\ DOMAIN f.chunks = 1 .. Len(f.chunks)
  BY <1>0, LenProperties
<1>2. PICK n \in Nat : n = Len(f.chunks)
  BY <1>1
<1> DEFINE one == <<fileLine(f)>>
           mid == [c \in DOMAIN f.chunks |-> chunkLine(f.chunks[c])]
           last == <<endLine>>
<1>3. one \in Seq(BlockLines) /\ Len(one) = 1 /\ one[1] = fileLine(f)
  <2>1. fileLine(f) \in BlockLines
    BY DEF BlockLines
  <2> QED
    BY <2>1
<1>4. last \in Seq(BlockLines) /\ Len(last) = 1 /\ last[1] = endLine
  <2>1. endLine \in BlockLines
    BY DEF BlockLines
  <2> QED
    BY <2>1
<1>5. mid \in Seq(BlockLines) /\ Len(mid) = n /\ \A c \in 1 .. n : mid[c] = chunkLine(f.chunks[c])
  <2>1. \A c \in 1 .. n : f.chunks[c] \in ChunkRefs
    BY <1>0, <1>2, ElementOfSeq
  <2>2. \A c \in 1 .. n : chunkLine(f.chunks[c]) \in BlockLines
    BY <2>1 DEF BlockLines
  <2>3. mid = [c \in 1 .. n |-> chunkLine(f.chunks[c])]
    BY <1>1, <1>2
  <2> QED
    BY <2>2, <2>3
<1>6. fileLines(f) = (one \o mid) \o last
  BY DEF fileLines, fileLine, endLine
<1> HIDE DEF one, mid, last
<1> DEFINE a == one \o mid
<1>7. /\ a \in Seq(BlockLines) /\ Len(a) = n + 1 /\ a[1] = fileLine(f)
      /\ \A c \in 1 .. n : a[1 + c] = chunkLine(f.chunks[c])
  <2>1. a \in Seq(BlockLines) /\ IsConcat(a, one, mid)
    BY <1>3, <1>5, ConcatAt
  <2> HIDE DEF a
  <2>2. 1 \in 1 .. 1
    OBVIOUS
  <2> QED
    BY <1>3, <1>5, <2>1, <2>2 DEF IsConcat
<1> HIDE DEF a
<1> DEFINE b == a \o last
<1>8. /\ b \in Seq(BlockLines) /\ Len(b) = n + 2 /\ b[1] = fileLine(f) /\ b[n + 2] = endLine
      /\ \A c \in 1 .. n : b[1 + c] = a[1 + c]
  <2>1. b \in Seq(BlockLines) /\ IsConcat(b, a, last)
    BY <1>4, <1>7, ConcatAt
  <2> HIDE DEF b
  <2>2. 1 \in 1 .. n + 1 /\ 1 \in 1 .. 1 /\ n + 2 = (n + 1) + 1 /\ \A c \in 1 .. n : 1 + c \in 1 .. n + 1
    OBVIOUS
  <2> QED
    BY <1>4, <1>7, <2>1, <2>2 DEF IsConcat
<1>9. fileLines(f) = b
  BY <1>6 DEF a
<1> HIDE DEF b
<1> QED
  BY <1>2, <1>7, <1>8, <1>9

-----------------------------------------------------------------------------
\* How the text of a manifest is laid out: file k has the lines from b[k] on.
Layout(text, m, b) ==
    /\ text[1] = <<"DPC_MANIFEST_V1">> /\ text[2] = <<"version", m.version>>
    /\ text[3] = <<"chunking_mode", m.mode>> /\ text[4] = <<"file_count", Len(m.files)>>
    /\ Len(text) \in Nat
    /\ b \in [1 .. Len(m.files) + 1 -> Nat]
    /\ b[1] = 5 /\ b[Len(m.files) + 1] = Len(text)
    /\ text[Len(text)] = <<"END">>
    /\ \A k \in 1 .. Len(m.files) :
          /\ b[k + 1] = b[k] + Len(m.files[k].chunks) + 2
          /\ text[b[k]] = fileLine(m.files[k])
          /\ \A c \in 1 .. Len(m.files[k].chunks) : text[b[k] + c] = chunkLine(m.files[k].chunks[c])
          /\ text[b[k] + Len(m.files[k].chunks) + 1] = endLine
    /\ \A j, k \in 1 .. Len(m.files) + 1 : j <= k => b[j] <= b[k]
    /\ \A i \in 5 .. Len(text) - 1 : \E k \in 1 .. Len(m.files) : b[k] <= i /\ i < b[k + 1]

\* The text of a manifest has this layout.
LEMMA TextLayout ==
  ASSUME NEW m \in Manifests
  PROVE  serialize(m) \in Seq(Lines) /\ \E b : Layout(serialize(m), m, b)
<1>0. m.files \in Seq(FileRecords) /\ m.version \in Nat /\ m.mode \in Modes
  BY DEF Manifests
<1>1. /\ Len(m.files) \in Nat /\ DOMAIN m.files = 1 .. Len(m.files)
      /\ \A k \in 1 .. Len(m.files) : m.files[k] \in FileRecords
  BY <1>0, LenProperties, ElementOfSeq
<1>n. PICK N \in Nat : N = Len(m.files)
  BY <1>1
<1> DEFINE n(k) == Len(m.files[k].chunks)
           blocks == [k \in DOMAIN m.files |-> fileLines(m.files[k])]
<1>2. \A k \in 1 .. N :
         /\ n(k) \in Nat
         /\ fileLines(m.files[k]) \in Seq(BlockLines)
         /\ Len(fileLines(m.files[k])) = n(k) + 2
         /\ fileLines(m.files[k])[1] = fileLine(m.files[k])
         /\ \A c \in 1 .. n(k) : fileLines(m.files[k])[1 + c] = chunkLine(m.files[k].chunks[c])
         /\ fileLines(m.files[k])[n(k) + 2] = endLine
  BY <1>1, <1>n, FileLinesAt
<1>3. /\ blocks \in Seq(Seq(BlockLines)) /\ Len(blocks) = N
      /\ \A k \in 1 .. N : blocks[k] = fileLines(m.files[k])
  <2>1. blocks = [k \in 1 .. N |-> fileLines(m.files[k])]
    BY <1>1, <1>n
  <2>2. \A k \in 1 .. N : fileLines(m.files[k]) \in Seq(BlockLines)
    BY <1>2
  <2> HIDE DEF blocks
  <2>3. Len(blocks) = N /\ \A k \in 1 .. N : blocks[k] = fileLines(m.files[k])
    BY <2>1
  <2> QED
    BY <2>1, <2>2, <2>3
<1> DEFINE flat == FlattenSeq(blocks)
<1>4. serialize(m) = <<<<"DPC_MANIFEST_V1">>, <<"version", m.version>>, <<"chunking_mode", m.mode>>,
                       <<"file_count", Len(m.files)>>>> \o flat \o <<<<"END">>>>
  BY DEF serialize
<1> HIDE DEF blocks
<1>5. PICK e : EndsOf(blocks, e)
  BY <1>3, EndsExist
<1>6. /\ flat \in Seq(BlockLines) /\ Len(flat) = e[N]
      /\ \A k \in 1 .. N : \A j \in 1 .. Len(blocks[k]) :
            e[k - 1] + j \in 1 .. Len(flat) /\ flat[e[k - 1] + j] = blocks[k][j]
  BY <1>3, <1>5, FlattenAt
<1>7. /\ \A j, k \in 0 .. N : j <= k => e[j] <= e[k]
      /\ \A i \in 1 .. e[N] : \E k \in 1 .. N : e[k - 1] < i /\ i <= e[k]
  BY <1>3, <1>5, PieceOf
<1>8. /\ e \in [0 .. N -> Nat] /\ e[0] = 0
      /\ \A k \in 1 .. N : e[k] = e[k - 1] + (n(k) + 2)
  BY <1>2, <1>3, <1>5 DEF EndsOf
<1>9. e[N] \in Nat
  BY <1>8
<1> HIDE DEF flat, n
<1> DEFINE head == <<<<"DPC_MANIFEST_V1">>, <<"version", m.version>>, <<"chunking_mode", m.mode>>,
                     <<"file_count", Len(m.files)>>>>
           last == <<<<"END">>>>
           text == serialize(m)
<1>t. /\ text \in Seq(Lines)
       /\ text[1] = <<"DPC_MANIFEST_V1">> /\ text[2] = <<"version", m.version>>
       /\ text[3] = <<"chunking_mode", m.mode>> /\ text[4] = <<"file_count", Len(m.files)>>
       /\ Len(text) = e[N] + 5
       /\ text[e[N] + 5] = <<"END">>
       /\ \A i \in 1 .. e[N] : text[4 + i] = flat[i]
  <2>0. /\ <<"DPC_MANIFEST_V1">> \in Lines /\ <<"version", m.version>> \in Lines
        /\ <<"chunking_mode", m.mode>> \in Lines /\ <<"file_count", Len(m.files)>> \in Lines
        /\ <<"END">> \in Lines
    BY <1>0, <1>1 DEF Lines, HeadLines
  <2>1. /\ head \in Seq(Lines) /\ Len(head) = 4 /\ last \in Seq(Lines) /\ Len(last) = 1 /\ last[1] = <<"END">>
        /\ head[1] = <<"DPC_MANIFEST_V1">> /\ head[2] = <<"version", m.version>>
        /\ head[3] = <<"chunking_mode", m.mode>> /\ head[4] = <<"file_count", Len(m.files)>>
    BY <2>0
  <2>2. flat \in Seq(Lines)
    <3>1. BlockLines \subseteq Lines
      BY DEF Lines
    <3> QED
      BY <1>6, <3>1, SeqMonotonic
  <2>3. text = (head \o flat) \o last
    BY <1>4
  <2> HIDE DEF head, last, text
  <2> DEFINE a == head \o flat
  <2>4. a \in Seq(Lines) /\ IsConcat(a, head, flat)
    BY <2>1, <2>2, ConcatAt
  <2>5. text \in Seq(Lines) /\ IsConcat(text, a, last)
    BY <2>1, <2>3, <2>4, ConcatAt
  <2> HIDE DEF a
  <2>6. /\ Len(a) = 4 + e[N]
        /\ \A i \in 1 .. 4 : a[i] = head[i]
        /\ \A i \in 1 .. e[N] : a[4 + i] = flat[i]
    BY <1>6, <1>9, <2>1, <2>4 DEF IsConcat
  <2>7. /\ Len(text) = e[N] + 5 /\ text[e[N] + 5] = last[1]
        /\ \A i \in 1 .. 4 + e[N] : text[i] = a[i]
    <3>2. 1 \in 1 .. 1 /\ e[N] + 5 = (4 + e[N]) + 1
      BY <1>9
    <3>3. Len(text) = Len(a) + Len(last) /\ \A i \in 1 .. Len(a) : text[i] = a[i]
      BY <2>5 DEF IsConcat
    <3>4. text[Len(a) + 1] = last[1]
      BY <2>1, <2>5, <3>2 DEF IsConcat
    <3>5. Len(text) = e[N] + 5 /\ text[e[N] + 5] = last[1]
      BY <2>1, <2>6, <3>2, <3>3, <3>4
    <3> QED
      BY <2>6, <3>3, <3>5
  <2>8. /\ 1 \in 1 .. 4 + e[N] /\ 2 \in 1 .. 4 + e[N] /\ 3 \in 1 .. 4 + e[N] /\ 4 \in 1 .. 4 + e[N]
        /\ \A i \in 1 .. e[N] : 4 + i \in 1 .. 4 + e[N]
    BY <1>9
  <2>9. 1 \in 1 .. 4 /\ 2 \in 1 .. 4 /\ 3 \in 1 .. 4 /\ 4 \in 1 .. 4
    OBVIOUS
  <2>10. /\ text[1] = <<"DPC_MANIFEST_V1">> /\ text[2] = <<"version", m.version>>
         /\ text[3] = <<"chunking_mode", m.mode>> /\ text[4] = <<"file_count", Len(m.files)>>
    BY <2>1, <2>6, <2>7, <2>8, <2>9
  <2>11. \A i \in 1 .. e[N] : text[4 + i] = flat[i]
    BY <2>6, <2>7, <2>8
  <2> QED
    BY <2>1, <2>5, <2>7, <2>10, <2>11
<1>10. /\ text[1] = <<"DPC_MANIFEST_V1">> /\ text[2] = <<"version", m.version>>
       /\ text[3] = <<"chunking_mode", m.mode>> /\ text[4] = <<"file_count", Len(m.files)>>
       /\ Len(text) = e[N] + 5
       /\ text[e[N] + 5] = <<"END">>
       /\ \A i \in 1 .. e[N] : text[4 + i] = flat[i]
  BY <1>t
<1> HIDE DEF head, last, text
<1> DEFINE b == [k \in 1 .. N + 1 |-> 5 + e[k - 1]]
<1>11. ASSUME NEW k \in 1 .. N + 1
       PROVE  k - 1 \in 0 .. N /\ e[k - 1] \in Nat /\ b[k] = 5 + e[k - 1] /\ b[k] \in Nat
  <2>1. k - 1 \in 0 .. N
    OBVIOUS
  <2> QED
    BY <1>8, <2>1
<1>12. b \in [1 .. N + 1 -> Nat] /\ b[1] = 5 /\ b[N + 1] = Len(text) /\ Len(text) \in Nat
  <2>1. 1 \in 1 .. N + 1 /\ N + 1 \in 1 .. N + 1 /\ (N + 1) - 1 = N /\ 1 - 1 = 0
    OBVIOUS
  <2>2. b \in [1 .. N + 1 -> Nat]
    BY <1>11
  <2> HIDE DEF b
  <2> QED
    BY <1>8, <1>9, <1>10, <1>11, <2>1, <2>2
<1> HIDE DEF b
<1>13. ASSUME NEW k \in 1 .. N
       PROVE  /\ b[k + 1] = b[k] + n(k) + 2
              /\ text[b[k]] = fileLine(m.files[k])
              /\ \A c \in 1 .. n(k) : text[b[k] + c] = chunkLine(m.files[k].chunks[c])
              /\ text[b[k] + n(k) + 1] = endLine
  <2>0. k \in 1 .. N + 1 /\ k + 1 \in 1 .. N + 1 /\ (k + 1) - 1 = k
    OBVIOUS
  <2>1. b[k] = 5 + e[k - 1] /\ b[k + 1] = 5 + e[k] /\ e[k - 1] \in Nat /\ e[k] \in Nat /\ n(k) \in Nat
    BY <1>2, <1>11, <2>0
  <2>2. ASSUME NEW j \in 1 .. n(k) + 2
        PROVE  text[4 + (e[k - 1] + j)] = fileLines(m.files[k])[j]
    <3>1. Len(blocks[k]) = n(k) + 2 /\ blocks[k] = fileLines(m.files[k])
      BY <1>2, <1>3
    <3>2. e[k - 1] + j \in 1 .. e[N] /\ flat[e[k - 1] + j] = blocks[k][j]
      BY <1>6, <3>1
    <3> QED
      BY <1>10, <3>1, <3>2
  <2>3. b[k + 1] = b[k] + n(k) + 2
    BY <1>8, <2>1
  <2>4. text[b[k]] = fileLine(m.files[k])
    <3>1. 1 \in 1 .. n(k) + 2 /\ 4 + (e[k - 1] + 1) = b[k]
      BY <2>1
    <3> QED
      BY <1>2, <2>2, <3>1
  <2>5. ASSUME NEW c \in 1 .. n(k) PROVE text[b[k] + c] = chunkLine(m.files[k].chunks[c])
    <3>1. 1 + c \in 1 .. n(k) + 2 /\ 4 + (e[k - 1] + (1 + c)) = b[k] + c
      BY <2>1
    <3> QED
      BY <1>2, <2>2, <3>1
  <2>6. text[b[k] + n(k) + 1] = endLine
    <3>1. n(k) + 2 \in 1 .. n(k) + 2 /\ 4 + (e[k - 1] + (n(k) + 2)) = b[k] + n(k) + 1
      BY <2>1
    <3> QED
      BY <1>2, <2>2, <3>1
  <2> QED
    BY <2>3, <2>4, <2>5, <2>6
<1>14. ASSUME NEW j \in 1 .. N + 1, NEW k \in 1 .. N + 1, j <= k
       PROVE  b[j] <= b[k]
  <2>1. j - 1 \in 0 .. N /\ k - 1 \in 0 .. N /\ j - 1 <= k - 1
    BY <1>14
  <2> QED
    BY <1>7, <1>11, <2>1
<1>15. ASSUME NEW i \in 5 .. Len(text) - 1
       PROVE  \E k \in 1 .. N : b[k] <= i /\ i < b[k + 1]
  <2>1. i - 4 \in 1 .. e[N]
    BY <1>9, <1>10
  <2>2. PICK k \in 1 .. N : e[k - 1] < i - 4 /\ i - 4 <= e[k]
    BY <1>7, <2>1
  <2>3. b[k] = 5 + e[k - 1] /\ b[k + 1] = 5 + e[k] /\ e[k - 1] \in Nat /\ e[k] \in Nat
    <3>1. k \in 1 .. N + 1 /\ k + 1 \in 1 .. N + 1 /\ (k + 1) - 1 = k
      OBVIOUS
    <3> QED
      BY <1>11, <3>1
  <2> QED
    BY <2>2, <2>3
<1>16. text[Len(text)] = <<"END">>
  BY <1>10
<1>17. Layout(text, m, b)
  <2> USE DEF n
  <2> QED
    BY <1>n, <1>10, <1>12, <1>13, <1>14, <1>15, <1>16 DEF Layout
<1> QED
  BY <1>t, <1>17 DEF text

\* What a line is that reads as one of a file, of a chunk, or of an end.
LEMMA LineKinds ==
  ASSUME NEW l \in Lines
  PROVE  /\ IsLine(l, "FILE", 5) => \E f \in FileRecords : l = fileLine(f)
         /\ IsLine(l, "CHUNK", 5) => \E r \in ChunkRefs : l = chunkLine(r)
         /\ IsLine(l, "FILE", 5) => l[5] \in Nat
<1>1. CASE l \in HeadLines
  <2>1. \/ l[1] = "DPC_MANIFEST_V1" \/ l[1] = "END" \/ l[1] = "version"
        \/ l[1] = "chunking_mode" \/ l[1] = "file_count"
    BY <1>1 DEF HeadLines
  <2> QED
    BY <2>1 DEF IsLine
<1>2. CASE \E f \in FileRecords : l = fileLine(f)
  <2>1. PICK f \in FileRecords : l = fileLine(f)
    BY <1>2
  <2>2. l[1] = "FILE" /\ l[5] = Len(f.chunks)
    BY <2>1 DEF fileLine
  <2>3. Len(f.chunks) \in Nat
    BY FileLinesAt
  <2> QED
    BY <2>1, <2>2, <2>3 DEF IsLine
<1>3. CASE \E r \in ChunkRefs : l = chunkLine(r)
  <2>1. l[1] = "CHUNK"
    BY <1>3 DEF chunkLine
  <2> QED
    BY <1>3, <2>1 DEF IsLine
<1>4. CASE l = endLine
  <2>1. l[1] = "END_FILE"
    BY <1>4 DEF endLine
  <2> QED
    BY <2>1 DEF IsLine
<1> QED
  BY <1>1, <1>2, <1>3, <1>4 DEF Lines, BlockLines

\* What parseFiles does at line i, with what it finds from the lines behind it.
filesAt(lines, f, i) ==
    IF i > Len(lines)
      THEN Invalid
      ELSE IF IsLine(lines[i], "END", 1)
             THEN IF i = Len(lines) THEN <<>> ELSE Invalid
             ELSE IF ~ IsFileBlock(lines, i)
                    THEN Invalid
                    ELSE IF f[i + lines[i][5] + 2] = Invalid
                           THEN Invalid
                           ELSE <<parseFile(lines[i], SubSeq(lines, i + 1, i + lines[i][5]))>>
                                  \o f[i + lines[i][5] + 2]

FilesFrom(f, lines) == f = [i \in 1 .. Len(lines) + 1 |-> filesAt(lines, f, i)]

\* parseFiles satisfies the equation it is defined by.
LEMMA ParseDefined ==
  ASSUME NEW lines \in Seq(Lines)
  PROVE  \E f : FilesFrom(f, lines) /\ parseFiles(lines) = f[5]
<1>0. Len(lines) \in Nat /\ \A i \in 1 .. Len(lines) : lines[i] \in Lines
  BY ElementOfSeq, LenProperties
<1>l. PICK L \in Nat : L = Len(lines)
  BY <1>0
<1> DEFINE Good(f, d) == /\ f = [i \in 1 .. L + 1 |-> f[i]]
                         /\ \A i \in (L + 1) - d .. L + 1 : 1 <= i => f[i] = filesAt(lines, f, i)
           P == {d \in 0 .. L : \E f : Good(f, d)}
<1>1. ASSUME NEW f, NEW g, NEW i \in 1 .. L + 1, \A j \in i + 1 .. L + 1 : f[j] = g[j]
      PROVE  filesAt(lines, f, i) = filesAt(lines, g, i)
  <2>1. CASE i > L
    BY <1>l, <2>1 DEF filesAt
  <2>2. CASE ~ (i > L) /\ ~ IsFileBlock(lines, i)
    BY <1>l, <2>2 DEF filesAt
  <2>3. CASE ~ (i > L) /\ IsFileBlock(lines, i)
    <3>1. lines[i][5] \in Nat
      <4>1. i \in 1 .. L
        BY <2>3
      <4>2. IsLine(lines[i], "FILE", 5)
        BY <2>3 DEF IsFileBlock
      <4> QED
        BY <1>0, <1>l, <4>1, <4>2, LineKinds
    <3>2. i + lines[i][5] + 1 <= L
      BY <1>l, <2>3 DEF IsFileBlock
    <3>3. i + lines[i][5] + 2 \in i + 1 .. L + 1
      BY <3>1, <3>2
    <3>4. f[i + lines[i][5] + 2] = g[i + lines[i][5] + 2]
      BY <1>1, <3>3
    <3> QED
      BY <3>4 DEF filesAt
  <2> QED
    BY <2>1, <2>2, <2>3
<1>2. 0 \in P
  <2> DEFINE f == [i \in 1 .. L + 1 |-> Invalid]
  <2>1. filesAt(lines, f, L + 1) = Invalid
    BY <1>l DEF filesAt
  <2>2. \A i \in (L + 1) - 0 .. L + 1 : i = L + 1
    OBVIOUS
  <2>3. f = [i \in 1 .. L + 1 |-> f[i]] /\ f[L + 1] = Invalid
    OBVIOUS
  <2> HIDE DEF f
  <2>4. Good(f, 0)
    BY <2>1, <2>2, <2>3
  <2> HIDE DEF Good
  <2> QED
    BY <2>4
<1>3. ASSUME NEW d \in 1 .. L, d - 1 \in P
      PROVE  d \in P
  <2>1. PICK g : Good(g, d - 1)
    BY <1>3
  <2> DEFINE h == (L + 1) - d
             f == [i \in 1 .. L + 1 |-> IF i = h THEN filesAt(lines, g, i) ELSE g[i]]
  <2>2. h \in 1 .. L + 1 /\ (L + 1) - (d - 1) = h + 1
    OBVIOUS
  <2>3. /\ f = [i \in 1 .. L + 1 |-> f[i]] /\ f[h] = filesAt(lines, g, h)
        /\ \A i \in 1 .. L + 1 : i # h => f[i] = g[i]
    BY <2>2
  <2>d. (L + 1) - d = h
    OBVIOUS
  <2> HIDE DEF f, h
  <2>4. ASSUME NEW i \in h .. L + 1
        PROVE  f[i] = filesAt(lines, f, i)
    <3>1. i \in 1 .. L + 1 /\ \A j \in i + 1 .. L + 1 : j \in 1 .. L + 1 /\ j # h
      BY <2>2
    <3>2. filesAt(lines, f, i) = filesAt(lines, g, i)
      <4>1. \A j \in i + 1 .. L + 1 : f[j] = g[j]
        BY <2>3, <3>1
      <4> QED
        BY <1>1, <3>1, <4>1
    <3>3. CASE i = h
      BY <2>3, <3>2, <3>3
    <3>4. CASE i # h
      <4>1. i \in h + 1 .. L + 1 /\ 1 <= i
        BY <2>2, <3>4
      <4>2. g[i] = filesAt(lines, g, i)
        BY <2>1, <2>2, <4>1
      <4> QED
        BY <2>3, <3>1, <3>2, <3>4, <4>2
    <3> QED
      BY <3>3, <3>4
  <2>5. Good(f, d)
    BY <2>3, <2>4, <2>d
  <2> HIDE DEF Good
  <2> QED
    BY <2>5
<1>4. PICK g : Good(g, L)
  <2>1. 0 \in P /\ \A d \in 1 .. L : d - 1 \in P => d \in P
    BY <1>2, <1>3
  <2>2. L \in 0 .. L
    OBVIOUS
  <2>3. L \in P
    <3> HIDE DEF P
    <3> QED
      BY <2>1, <2>2, UpToInduction
  <2> HIDE DEF Good
  <2> QED
    BY <2>3
<1>5. FilesFrom(g, lines)
  <2>1. \A i \in 1 .. L + 1 : i \in (L + 1) - L .. L + 1 /\ 1 <= i
    OBVIOUS
  <2>2. \A i \in 1 .. L + 1 : g[i] = filesAt(lines, g, i)
    BY <1>4, <2>1
  <2>3. g = [i \in 1 .. L + 1 |-> g[i]]
    BY <1>4
  <2> QED
    BY <1>l, <2>2, <2>3 DEF FilesFrom
<1> DEFINE F == CHOOSE f : FilesFrom(f, lines)
<1>6. FilesFrom(F, lines)
  BY <1>5
<1>7. parseFiles(lines) = F[5]
  BY DEF parseFiles, FilesFrom, filesAt
<1> HIDE DEF F
<1> QED
  BY <1>6, <1>7

\* The lines of file f are those of text from line i on.
BlockAt(text, i, f) ==
    /\ text[i] = fileLine(f)
    /\ \A c \in 1 .. Len(f.chunks) : text[i + c] = chunkLine(f.chunks[c])
    /\ text[i + Len(f.chunks) + 1] = endLine

\* A block reads as the file it was written for.
LEMMA ParseBlock ==
  ASSUME NEW text \in Seq(Lines), NEW f \in FileRecords, NEW i \in 1 .. Len(text), BlockAt(text, i, f),
         i + Len(f.chunks) + 1 <= Len(text)
  PROVE  /\ IsFileBlock(text, i) /\ ~ IsLine(text[i], "END", 1) /\ text[i][5] = Len(f.chunks)
         /\ parseFile(text[i], SubSeq(text, i + 1, i + text[i][5])) = f
<1>0. Len(text) \in Nat /\ i \in Nat
  BY LenProperties
<1>1. PICK n \in Nat : n = Len(f.chunks)
  BY FileLinesAt
<1>2. /\ Len(text[i]) = 5 /\ text[i][1] = "FILE" /\ text[i][2] = f.path /\ text[i][3] = f.size
      /\ text[i][4] = f.digest /\ text[i][5] = n
  BY <1>1 DEF BlockAt, fileLine
<1>3. ASSUME NEW c \in 1 .. n
      PROVE  Len(text[i + c]) = 5 /\ text[i + c][1] = "CHUNK" /\ parseChunk(text[i + c]) = f.chunks[c]
  <2>1. text[i + c] = chunkLine(f.chunks[c])
    BY <1>1 DEF BlockAt
  <2>2. f.chunks[c] \in ChunkRefs
    BY <1>1, ElementOfSeq DEF FileRecords
  <2> DEFINE r == f.chunks[c]
             l == text[i + c]
  <2>3. r = [index |-> r.index, size |-> r.size, sha |-> r.sha, object |-> r.object]
    BY <2>2 DEF ChunkRefs
  <2> HIDE DEF r
  <2>4. l = <<"CHUNK", r.index, r.size, r.sha, r.object>>
    BY <2>1 DEF chunkLine, r
  <2> HIDE DEF l
  <2>5. /\ Len(l) = 5 /\ l[1] = "CHUNK" /\ l[2] = r.index /\ l[3] = r.size /\ l[4] = r.sha
        /\ l[5] = r.object
    BY <2>4
  <2>6. parseChunk(l) = r
    BY <2>3, <2>5 DEF parseChunk
  <2> QED
    BY <2>5, <2>6 DEF l, r
<1>4. Len(text[i + n + 1]) = 1 /\ text[i + n + 1][1] = "END_FILE"
  <2>1. text[i + n + 1] = endLine
    BY <1>1 DEF BlockAt
  <2> QED
    BY <2>1 DEF endLine
<1>5. IsFileBlock(text, i)
  BY <1>0, <1>1, <1>2, <1>3, <1>4 DEF IsFileBlock, IsLine
<1>6. ~ IsLine(text[i], "END", 1)
  BY <1>2 DEF IsLine
<1> DEFINE ls == SubSeq(text, i + 1, i + n)
<1>7. Len(ls) = n /\ DOMAIN ls = 1 .. n /\ \A c \in 1 .. n : ls[c] = text[i + c]
  <2>1. i + 1 \in 1 .. Len(text) + 1 /\ i + n \in (i + 1) - 1 .. Len(text) /\ (i + n) - (i + 1) + 1 = n
    BY <1>0, <1>1
  <2>2. /\ ls \in Seq(Lines) /\ Len(ls) = (i + n) - (i + 1) + 1
        /\ \A c \in 1 .. (i + n) - (i + 1) + 1 : ls[c] = text[(i + 1) + c - 1]
    BY <2>1, SubSeqProperties
  <2>3. \A c \in 1 .. n : (i + 1) + c - 1 = i + c
    BY <1>0
  <2> HIDE DEF ls
  <2>4. DOMAIN ls = 1 .. Len(ls)
    BY <2>2, LenProperties
  <2> QED
    BY <2>1, <2>2, <2>3, <2>4
<1>8. f.chunks = [c \in 1 .. n |-> f.chunks[c]]
  <2>1. f.chunks \in Seq(ChunkRefs)
    BY DEF FileRecords
  <2> QED
    BY <1>1, <2>1
<1>9. parseFile(text[i], ls) = f
  <2> HIDE DEF ls
  <2>1. [c \in DOMAIN ls |-> parseChunk(ls[c])] = f.chunks
    <3>1. \A c \in 1 .. n : parseChunk(ls[c]) = f.chunks[c]
      BY <1>3, <1>7
    <3>2. [c \in DOMAIN ls |-> parseChunk(ls[c])] = [c \in 1 .. n |-> f.chunks[c]]
      BY <1>7, <3>1
    <3> QED
      BY <1>8, <3>2
  <2>2. f = [path |-> f.path, size |-> f.size, digest |-> f.digest, chunks |-> f.chunks]
    BY DEF FileRecords
  <2> QED
    BY <1>2, <2>1, <2>2 DEF parseFile
<1> QED
  BY <1>1, <1>2, <1>5, <1>6, <1>9

\* The files from the k-th on.
LEMMA RestStep ==
  ASSUME NEW X, NEW s \in Seq(X), NEW k \in 1 .. Len(s)
  PROVE  <<s[k]>> \o SubSeq(s, k + 1, Len(s)) = SubSeq(s, k, Len(s))
<1>0. Len(s) \in Nat /\ s[k] \in X
  BY LenProperties, ElementOfSeq
<1>1. PICK n \in Nat : n = Len(s)
  BY <1>0
<1> DEFINE r == SubSeq(s, k + 1, n)
           q == SubSeq(s, k, n)
<1>2. r \in Seq(X) /\ Len(r) = n - k /\ \A c \in 1 .. n - k : r[c] = s[k + c]
  <2>1. k + 1 \in 1 .. Len(s) + 1 /\ n \in (k + 1) - 1 .. Len(s) /\ n - (k + 1) + 1 = n - k
    BY <1>1
  <2>2. /\ r \in Seq(X) /\ Len(r) = n - (k + 1) + 1
        /\ \A c \in 1 .. n - (k + 1) + 1 : r[c] = s[(k + 1) + c - 1]
    BY <2>1, SubSeqProperties
  <2>3. \A c \in 1 .. n - k : (k + 1) + c - 1 = k + c
    BY <1>1
  <2> HIDE DEF r
  <2> QED
    BY <2>1, <2>2, <2>3
<1>3. q \in Seq(X) /\ Len(q) = n - k + 1 /\ \A c \in 1 .. n - k + 1 : q[c] = s[k + c - 1]
  <2>1. k \in 1 .. Len(s) + 1 /\ n \in k - 1 .. Len(s)
    BY <1>1
  <2> QED
    BY <2>1, SubSeqProperties
<1> DEFINE o == <<s[k]>>
           u == o \o r
<1>4. o \in Seq(X) /\ Len(o) = 1 /\ o[1] = s[k]
  BY <1>0
<1> HIDE DEF r, q, o
<1>5. u \in Seq(X) /\ IsConcat(u, o, r)
  BY <1>2, <1>4, ConcatAt
<1> HIDE DEF u
<1>6. Len(u) = n - k + 1 /\ u[1] = s[k] /\ \A j \in 1 .. n - k : u[1 + j] = s[k + j]
  <2>1. 1 \in 1 .. 1 /\ n - k \in Nat /\ 1 + (n - k) = n - k + 1
    BY <1>1
  <2>2. Len(u) = 1 + (n - k) /\ u[1] = s[k] /\ \A j \in 1 .. n - k : u[1 + j] = r[j]
    BY <1>2, <1>4, <1>5, <2>1 DEF IsConcat
  <2> QED
    BY <1>2, <2>1, <2>2
<1>7. ASSUME NEW c \in 1 .. n - k + 1 PROVE u[c] = q[c]
  <2>1. CASE c = 1
    <3>1. k + c - 1 = k
      BY <2>1
    <3> QED
      BY <1>3, <1>6, <2>1, <3>1
  <2>2. CASE c # 1
    <3>1. c - 1 \in 1 .. n - k /\ 1 + (c - 1) = c /\ k + (c - 1) = k + c - 1
      BY <1>1, <2>2
    <3> QED
      BY <1>3, <1>6, <3>1
  <2> QED
    BY <2>1, <2>2
<1>8. u = q
  BY <1>3, <1>5, <1>6, <1>7, SeqEqual
<1> QED
  BY <1>1, <1>8 DEF u, o, r, q

\* The files of a layout in which every file starts where its number says.
LEMMA LayoutParts ==
  ASSUME NEW m \in Manifests, NEW text \in Seq(Lines), NEW b, Layout(text, m, b)
  PROVE  /\ m.files \in Seq(FileRecords) /\ Len(m.files) \in Nat /\ Len(text) \in Nat
         /\ \A k \in 1 .. Len(m.files) :
               /\ m.files[k] \in FileRecords
               /\ Len(m.files[k].chunks) \in Nat
               /\ b[k] \in Nat /\ b[k + 1] \in Nat
               /\ b[k + 1] = b[k] + Len(m.files[k].chunks) + 2
               /\ b[k] >= 5 /\ b[k + 1] <= Len(text)
               /\ BlockAt(text, b[k], m.files[k])
         /\ \A k \in 1 .. Len(m.files) + 1 : b[k] \in Nat /\ b[k] >= 5 /\ b[k] <= Len(text)
<1>1. /\ m.files \in Seq(FileRecords) /\ Len(m.files) \in Nat /\ Len(text) \in Nat
  BY LenProperties DEF Manifests
<1>n. PICK n \in Nat : n = Len(m.files)
  BY <1>1
<1>2. \A k \in 1 .. n + 1 : b[k] \in Nat /\ b[k] >= 5 /\ b[k] <= Len(text)
  <2>1. 1 \in 1 .. n + 1 /\ n + 1 \in 1 .. n + 1
    OBVIOUS
  <2>2. /\ b \in [1 .. n + 1 -> Nat] /\ b[1] = 5 /\ b[n + 1] = Len(text)
        /\ \A j, k \in 1 .. n + 1 : j <= k => b[j] <= b[k]
    BY <1>n DEF Layout
  <2> QED
    BY <2>1, <2>2
<1>3. ASSUME NEW k \in 1 .. n
      PROVE  /\ m.files[k] \in FileRecords
             /\ Len(m.files[k].chunks) \in Nat
             /\ b[k] \in Nat /\ b[k + 1] \in Nat
             /\ b[k + 1] = b[k] + Len(m.files[k].chunks) + 2
             /\ b[k] >= 5 /\ b[k + 1] <= Len(text)
             /\ BlockAt(text, b[k], m.files[k])
  <2>1. m.files[k] \in FileRecords
    BY <1>1, <1>n, ElementOfSeq
  <2>2. Len(m.files[k].chunks) \in Nat
    BY <2>1, FileLinesAt
  <2>3. k \in 1 .. n + 1 /\ k + 1 \in 1 .. n + 1
    OBVIOUS
  <2>4. b[k + 1] = b[k] + Len(m.files[k].chunks) + 2 /\ BlockAt(text, b[k], m.files[k])
    BY <1>n DEF Layout, BlockAt
  <2> QED
    BY <1>2, <2>1, <2>2, <2>3, <2>4
<1> QED
  BY <1>1, <1>2, <1>3, <1>n

\* A manifest is parsed as what was serialized.
LEMMA ParseSerialize ==
  ASSUME NEW m \in Manifests
  PROVE  parse(serialize(m)) = m /\ m # Invalid
<1> DEFINE text == serialize(m)
<1>1. text \in Seq(Lines) /\ \E b : Layout(text, m, b)
  BY TextLayout
<1> HIDE DEF text
<1>2. PICK b : Layout(text, m, b)
  BY <1>1
<1>3. /\ m.files \in Seq(FileRecords) /\ Len(m.files) \in Nat /\ Len(text) \in Nat
      /\ \A k \in 1 .. Len(m.files) :
            /\ m.files[k] \in FileRecords
            /\ Len(m.files[k].chunks) \in Nat
            /\ b[k] \in Nat /\ b[k + 1] \in Nat
            /\ b[k + 1] = b[k] + Len(m.files[k].chunks) + 2
            /\ b[k] >= 5 /\ b[k + 1] <= Len(text)
            /\ BlockAt(text, b[k], m.files[k])
      /\ \A k \in 1 .. Len(m.files) + 1 : b[k] \in Nat /\ b[k] >= 5 /\ b[k] <= Len(text)
  BY <1>1, <1>2, LayoutParts
<1>n. PICK n \in Nat : n = Len(m.files)
  BY <1>3
<1>l. PICK L \in Nat : L = Len(text)
  BY <1>3
<1>4. PICK f : FilesFrom(f, text) /\ parseFiles(text) = f[5]
  BY <1>1, ParseDefined
<1>5. ASSUME NEW i \in 1 .. L + 1 PROVE f[i] = filesAt(text, f, i)
  BY <1>4, <1>l DEF FilesFrom
<1>6. \A k \in 1 .. n + 1 : SubSeq(m.files, k, n) \in Seq(FileRecords) /\ SubSeq(m.files, k, n) # Invalid
  <2>1. ASSUME NEW k \in 1 .. n + 1 PROVE SubSeq(m.files, k, n) \in Seq(FileRecords)
    <3>1. k \in 1 .. Len(m.files) + 1 /\ n \in k - 1 .. Len(m.files)
      BY <1>n
    <3> QED
      BY <1>3, <3>1, SubSeqProperties
  <2> QED
    BY <2>1, DataPathAssumption
<1> DEFINE P == {k \in 0 .. n + 1 : k # 0 => f[b[k]] = SubSeq(m.files, k, n)}
<1>7. ASSUME NEW k \in 0 .. n + 1, \A j \in 0 .. n + 1 : k < j => j \in P
      PROVE  k \in P
  <2>1. CASE k = 0
    BY <2>1
  <2>2. CASE k = n + 1
    <3>1. b[k] = L /\ text[L] = <<"END">> /\ L \in 1 .. L + 1
      BY <1>2, <1>3, <1>l, <1>n, <2>2 DEF Layout
    <3>2. IsLine(text[L], "END", 1)
      BY <3>1 DEF IsLine
    <3>3. ~ (L > L)
      OBVIOUS
    <3>4. f[b[k]] = <<>>
      BY <1>5, <1>l, <3>1, <3>2, <3>3 DEF filesAt
    <3>5. SubSeq(m.files, k, n) = <<>>
      BY <1>3, <1>n, <2>2
    <3> QED
      BY <3>4, <3>5
  <2>3. CASE k \in 1 .. n
    <3> DEFINE i == b[k]
               c == Len(m.files[k].chunks)
    <3>1. /\ m.files[k] \in FileRecords /\ c \in Nat /\ i \in Nat /\ b[k + 1] = i + c + 2
          /\ i >= 5 /\ b[k + 1] <= L /\ BlockAt(text, i, m.files[k])
      BY <1>3, <1>l, <1>n, <2>3
    <3> HIDE DEF i
    <3>2. i \in 1 .. L /\ i \in 1 .. L + 1 /\ i + c + 1 <= L /\ ~ (i > L)
      BY <3>1
    <3>3. /\ IsFileBlock(text, i) /\ ~ IsLine(text[i], "END", 1) /\ text[i][5] = c
          /\ parseFile(text[i], SubSeq(text, i + 1, i + text[i][5])) = m.files[k]
      BY <1>1, <1>l, <3>1, <3>2, ParseBlock
    <3>4. k + 1 \in 0 .. n + 1 /\ k < k + 1 /\ k + 1 # 0 /\ k + 1 \in 1 .. n + 1
      BY <2>3
    <3>5. f[i + text[i][5] + 2] = SubSeq(m.files, k + 1, n)
      BY <1>7, <3>1, <3>3, <3>4
    <3>6. SubSeq(m.files, k + 1, n) # Invalid
      BY <1>6, <3>4
    <3>7. f[i] = <<m.files[k]>> \o SubSeq(m.files, k + 1, n)
      BY <1>5, <1>l, <3>2, <3>3, <3>5, <3>6 DEF filesAt
    <3>8. <<m.files[k]>> \o SubSeq(m.files, k + 1, n) = SubSeq(m.files, k, n)
      BY <1>3, <1>n, <2>3, RestStep
    <3> QED
      BY <3>7, <3>8 DEF i
  <2> QED
    BY <2>1, <2>2, <2>3
<1>8. parseFiles(text) = m.files
  <2>1. 1 \in 0 .. n + 1 /\ 1 \in 1 .. n + 1 /\ n + 1 \in Nat
    OBVIOUS
  <2>2. 1 \in P
    <3> HIDE DEF P
    <3>1. PICK q \in Nat : q = n + 1
      OBVIOUS
    <3>2. \A k \in 0 .. q : (\A j \in 0 .. q : k < j => j \in P) => k \in P
      BY <1>7, <3>1
    <3>3. \A k \in 0 .. q : k \in P
      BY <3>2, DownInduction
    <3> QED
      BY <2>1, <3>1, <3>3
  <2>3. b[1] = 5
    BY <1>2 DEF Layout
  <2>4. SubSeq(m.files, 1, n) = m.files
    BY <1>3, <1>n
  <2>5. f[b[1]] = SubSeq(m.files, 1, n)
    BY <2>2
  <2> QED
    BY <1>4, <2>3, <2>4, <2>5
<1>9. /\ text[1] = <<"DPC_MANIFEST_V1">> /\ text[2] = <<"version", m.version>>
      /\ text[3] = <<"chunking_mode", m.mode>> /\ text[4] = <<"file_count", n>> /\ L >= 4
  <2>1. n + 1 \in 1 .. n + 1 /\ b[n + 1] = L
    BY <1>2, <1>l, <1>n DEF Layout
  <2> QED
    BY <1>2, <1>3, <1>l, <1>n, <2>1 DEF Layout
<1>10. HasHeader(text)
  BY <1>l, <1>9 DEF HasHeader, IsLine
<1>11. m.files # Invalid /\ m # Invalid
  BY <1>3, DataPathAssumption
<1>12. m = [version |-> m.version, mode |-> m.mode, files |-> m.files]
  BY DEF Manifests
<1>13. text[2][2] = m.version /\ text[3][2] = m.mode /\ text[4][2] = n
  BY <1>9
<1>14. parse(text) = m
  BY <1>8, <1>10, <1>11, <1>12, <1>13, <1>n DEF parse
<1> QED
  BY <1>11, <1>14 DEF text

-----------------------------------------------------------------------------
(***************************************************************************)
(* Texts that have lost lines: parse finds an error, or the files in their *)
(* order with fewer chunks.                                                *)
(***************************************************************************)
\* Where in the text of a manifest the lines are that read as one of a kind.
LEMMA LayoutTags ==
  ASSUME NEW m \in Manifests, NEW text \in Seq(Lines), NEW b, Layout(text, m, b),
         NEW i \in 1 .. Len(text)
  PROVE  /\ IsLine(text[i], "version", 2) => i = 2
         /\ IsLine(text[i], "chunking_mode", 2) => i = 3
         /\ IsLine(text[i], "file_count", 2) => i = 4
         /\ IsLine(text[i], "END", 1) => i = Len(text)
         /\ IsLine(text[i], "FILE", 5) =>
               \E k \in 1 .. Len(m.files) : i = b[k] /\ text[i] = fileLine(m.files[k])
         /\ IsLine(text[i], "END_FILE", 1) =>
               \E k \in 1 .. Len(m.files) : i = b[k] + Len(m.files[k].chunks) + 1
<1>0. /\ m.files \in Seq(FileRecords) /\ Len(m.files) \in Nat /\ Len(text) \in Nat
      /\ \A k \in 1 .. Len(m.files) :
            /\ m.files[k] \in FileRecords
            /\ Len(m.files[k].chunks) \in Nat
            /\ b[k] \in Nat /\ b[k + 1] \in Nat
            /\ b[k + 1] = b[k] + Len(m.files[k].chunks) + 2
            /\ b[k] >= 5 /\ b[k + 1] <= Len(text)
            /\ BlockAt(text, b[k], m.files[k])
  BY LayoutParts
<1>l. PICK L \in Nat : L = Len(text)
  BY <1>0
<1>1. CASE i = 1
  <2>1. text[i][1] = "DPC_MANIFEST_V1"
    BY <1>1 DEF Layout
  <2> QED
    BY <2>1 DEF IsLine
<1>2. CASE i = 2
  <2>1. text[i][1] = "version"
    BY <1>2 DEF Layout
  <2> QED
    BY <1>2, <2>1 DEF IsLine
<1>3. CASE i = 3
  <2>1. text[i][1] = "chunking_mode"
    BY <1>3 DEF Layout
  <2> QED
    BY <1>3, <2>1 DEF IsLine
<1>4. CASE i = 4
  <2>1. text[i][1] = "file_count"
    BY <1>4 DEF Layout
  <2> QED
    BY <1>4, <2>1 DEF IsLine
<1>5. CASE i = L
  <2>1. text[i][1] = "END"
    BY <1>5, <1>l DEF Layout
  <2> QED
    BY <1>5, <1>l, <2>1 DEF IsLine
<1>6. CASE i \in 5 .. L - 1
  <2>1. PICK k \in 1 .. Len(m.files) : b[k] <= i /\ i < b[k + 1]
    BY <1>6, <1>l DEF Layout
  <2>2. PICK n \in Nat : n = Len(m.files[k].chunks)
    BY <1>0
  <2>3. b[k] \in Nat /\ b[k + 1] = b[k] + n + 2 /\ BlockAt(text, b[k], m.files[k])
    BY <1>0, <2>2
  <2>4. CASE i = b[k]
    <3>1. text[i] = fileLine(m.files[k])
      BY <2>3, <2>4 DEF BlockAt
    <3>2. text[i][1] = "FILE"
      BY <3>1 DEF fileLine
    <3> QED
      BY <2>4, <3>1, <3>2 DEF IsLine
  <2>5. CASE i = b[k] + n + 1
    <3>1. text[i] = endLine
      BY <2>2, <2>3, <2>5 DEF BlockAt
    <3>2. text[i][1] = "END_FILE"
      BY <3>1 DEF endLine
    <3> QED
      BY <2>2, <2>5, <3>2 DEF IsLine
  <2>6. CASE i # b[k] /\ i # b[k] + n + 1
    <3>1. i - b[k] \in 1 .. n /\ b[k] + (i - b[k]) = i
      <4>1. i \in Nat /\ b[k] \in Nat /\ b[k] < i /\ i < b[k] + n + 1
        <5>1. i \in Nat /\ b[k] \in Nat /\ b[k] <= i /\ i < b[k] + n + 2
          BY <1>6, <2>1, <2>3
        <5> QED
          BY <2>6, <5>1
      <4> QED
        BY <4>1
    <3>2. text[i] = chunkLine(m.files[k].chunks[i - b[k]])
      BY <2>2, <2>3, <3>1 DEF BlockAt
    <3>3. text[i][1] = "CHUNK"
      BY <3>2 DEF chunkLine
    <3> QED
      BY <3>3 DEF IsLine
  <2> QED
    BY <2>4, <2>5, <2>6
<1> QED
  BY <1>1, <1>2, <1>3, <1>4, <1>5, <1>6, <1>l

\* t is text without some of its lines: line i of it is line e[i] of text.
Without(t, text, e) ==
    /\ e \in [1 .. Len(t) -> 1 .. Len(text)]
    /\ Increasing(e, Len(t))
    /\ \A i \in 1 .. Len(t) : t[i] = text[e[i]]

Subtext(t, text) == \E e : Without(t, text, e)

\* What the files from line i on can be, when the lines behind it have been read
\* as r: no more than the text has from file k on, if the line is not above file
\* k, and as many only if no line is missing.
AtMost(r, at, m, b) ==
    \A k \in 1 .. Len(m.files) + 1 :
        at >= b[k] =>
          /\ Len(r) <= Len(m.files) + 1 - k
          /\ Len(r) = Len(m.files) + 1 - k => at = b[k] /\ r = SubSeq(m.files, k, Len(m.files))

\* A text that has lost lines and is parsed has lost none that matter.
LEMMA ParseSubtext ==
  ASSUME NEW m \in Manifests, NEW t \in Seq(Lines), Subtext(t, serialize(m)), parse(t) # Invalid
  PROVE  parse(t) = m
<1> DEFINE text == serialize(m)
<1>1. text \in Seq(Lines) /\ \E b : Layout(text, m, b)
  BY TextLayout
<1>e. PICK e : Without(t, text, e)
  BY DEF Subtext
<1> HIDE DEF text
<1>2. PICK b : Layout(text, m, b)
  BY <1>1
<1>3. /\ m.files \in Seq(FileRecords) /\ Len(m.files) \in Nat /\ Len(text) \in Nat
      /\ \A k \in 1 .. Len(m.files) :
            /\ m.files[k] \in FileRecords
            /\ Len(m.files[k].chunks) \in Nat
            /\ b[k] \in Nat /\ b[k + 1] \in Nat
            /\ b[k + 1] = b[k] + Len(m.files[k].chunks) + 2
            /\ b[k] >= 5 /\ b[k + 1] <= Len(text)
            /\ BlockAt(text, b[k], m.files[k])
      /\ \A k \in 1 .. Len(m.files) + 1 : b[k] \in Nat /\ b[k] >= 5 /\ b[k] <= Len(text)
  BY <1>1, <1>2, LayoutParts
<1>n. PICK n \in Nat : n = Len(m.files)
  BY <1>3
<1>l. PICK L \in Nat : L = Len(t)
  BY LenProperties
<1>b. /\ \A j, k \in 1 .. n + 1 : b[j] \in Nat /\ b[k] \in Nat /\ (j <= k => b[j] <= b[k])
      /\ b[1] = 5 /\ b[n + 1] = Len(text)
  BY <1>2, <1>3, <1>n DEF Layout
<1>4. /\ \A i \in 1 .. L : e[i] \in 1 .. Len(text) /\ e[i] \in Nat /\ t[i] = text[e[i]]
      /\ \A i, j \in 1 .. L : i < j => e[i] < e[j]
  BY <1>3, <1>e, <1>l DEF Without, Increasing
<1>5. PICK f : FilesFrom(f, t) /\ parseFiles(t) = f[5]
  BY ParseDefined
<1>6. ASSUME NEW i \in 1 .. L + 1 PROVE f[i] = filesAt(t, f, i)
  BY <1>5, <1>l DEF FilesFrom
<1> DEFINE X == {parseFile(t[i], SubSeq(t, i + 1, i + t[i][5])) : i \in 1 .. L}
           Good(i) == f[i] # Invalid => f[i] \in Seq(X) /\ AtMost(f[i], e[i], m, b)
           P == {i \in 0 .. L : i # 0 => Good(i)}
<1>7. ASSUME NEW i \in 1 .. L, \A j \in 1 .. L : i < j => Good(j)
      PROVE  Good(i)
  <2> SUFFICES ASSUME f[i] # Invalid PROVE f[i] \in Seq(X) /\ AtMost(f[i], e[i], m, b)
    OBVIOUS
  <2>0. i \in 1 .. L + 1 /\ ~ (i > L) /\ e[i] \in 1 .. Len(text) /\ e[i] \in Nat /\ t[i] = text[e[i]]
    BY <1>4
  <2>1. CASE IsLine(t[i], "END", 1)
    <3>1. i = L /\ f[i] = <<>>
      BY <1>6, <1>l, <2>0, <2>1 DEF filesAt
    <3>2. e[i] = b[n + 1]
      BY <1>1, <1>2, <1>b, <2>0, <2>1, LayoutTags
    <3>3. \A k \in 1 .. n + 1 :
             /\ 0 <= n + 1 - k
             /\ 0 = n + 1 - k => k = n + 1
      OBVIOUS
    <3>4. SubSeq(m.files, n + 1, n) = <<>>
      BY <1>3, <1>n
    <3>5. Len(f[i]) = 0 /\ f[i] \in Seq(X)
      <4> HIDE DEF X
      <4> QED
        BY <3>1
    <3>6. AtMost(f[i], e[i], m, b)
      BY <1>n, <3>1, <3>2, <3>3, <3>4, <3>5 DEF AtMost
    <3> QED
      BY <3>5, <3>6
  <2>2. CASE ~ IsLine(t[i], "END", 1)
    <3>a. IsFileBlock(t, i)
      BY <1>6, <1>l, <2>0, <2>2 DEF filesAt
    <3>b. t[i] \in Lines /\ IsLine(t[i], "FILE", 5)
      BY <1>l, <3>a, ElementOfSeq DEF IsFileBlock
    <3>c. PICK c \in Nat : c = t[i][5]
      BY <3>b, LineKinds
    <3>1. IsFileBlock(t, i) /\ f[i + c + 2] # Invalid
          /\ f[i] = <<parseFile(t[i], SubSeq(t, i + 1, i + c))>> \o f[i + c + 2]
      BY <1>6, <1>l, <2>0, <2>2, <3>c DEF filesAt
    <3>2. /\ IsLine(t[i], "FILE", 5) /\ i + c + 1 <= L /\ IsLine(t[i + c + 1], "END_FILE", 1)
      BY <1>l, <3>1, <3>c DEF IsFileBlock
    <3>3. PICK h \in 1 .. n : e[i] = b[h] /\ t[i] = fileLine(m.files[h])
      <4>1. IsLine(text[e[i]], "FILE", 5)
        BY <2>0, <3>b
      <4>2. PICK h \in 1 .. Len(m.files) : e[i] = b[h] /\ text[e[i]] = fileLine(m.files[h])
        BY <1>1, <1>2, <2>0, <4>1, LayoutTags
      <4> QED
        BY <1>n, <2>0, <4>2
    <3>4. c \in Nat /\ c = Len(m.files[h].chunks)
      BY <3>3, <3>c DEF fileLine
    <3>5. i + c + 1 \in 1 .. L /\ i < i + c + 1 /\ i + c + 2 \in 1 .. L + 1
      BY <3>2, <3>4
    <3>6. i + c + 2 \in 1 .. L /\ i < i + c + 2 /\ i + c + 1 < i + c + 2
      <4>1. f[i + c + 2] = filesAt(t, f, i + c + 2)
        BY <1>6, <3>5
      <4>2. ~ (i + c + 2 > Len(t))
        BY <3>1, <4>1 DEF filesAt
      <4>3. i + c + 2 <= L
        BY <1>l, <3>4, <4>2
      <4> HIDE DEF X, Good, P
      <4> QED
        BY <4>3
    <3>7. PICK q \in 1 .. n : e[i + c + 1] = b[q] + Len(m.files[q].chunks) + 1
      <4>1. e[i + c + 1] \in 1 .. Len(text) /\ IsLine(text[e[i + c + 1]], "END_FILE", 1)
        BY <1>4, <3>2, <3>5
      <4> QED
        BY <1>1, <1>2, <1>n, <4>1, LayoutTags
    <3>8. h <= q
      <4> SUFFICES ASSUME ~ (h <= q) PROVE FALSE
        OBVIOUS
      <4>1. q + 1 <= h /\ q + 1 \in 1 .. n + 1 /\ h \in 1 .. n + 1
        OBVIOUS
      <4>2. b[q + 1] <= b[h] /\ b[q + 1] \in Nat /\ b[h] \in Nat
        BY <1>b, <4>1
      <4>3. b[q + 1] = e[i + c + 1] + 1
        <5>1. b[q + 1] = b[q] + Len(m.files[q].chunks) + 2 /\ b[q] \in Nat /\ Len(m.files[q].chunks) \in Nat
          BY <1>3, <1>n
        <5>2. PICK x, y, z : x = b[q + 1] /\ y = b[q] /\ z = Len(m.files[q].chunks)
          OBVIOUS
        <5>3. PICK w : w = e[i + c + 1]
          OBVIOUS
        <5>4. x = y + z + 2 /\ y \in Nat /\ z \in Nat /\ w = y + z + 1
          BY <3>7, <5>1, <5>2, <5>3
        <5> HIDE DEF X, Good, P
        <5>5. x = w + 1
          BY <5>4
        <5> QED
          BY <5>2, <5>3, <5>5
      <4>4. e[i] < e[i + c + 1] /\ e[i] \in Nat /\ e[i + c + 1] \in Nat
        BY <1>4, <3>5
      <4> QED
        BY <3>3, <4>2, <4>3, <4>4
    <3>9. e[i + c + 2] >= b[h + 1] /\ h + 1 \in 1 .. n + 1
      <4>1. h + 1 \in 1 .. n + 1 /\ q + 1 \in 1 .. n + 1 /\ h + 1 <= q + 1
        BY <3>8
      <4>2. b[h + 1] <= b[q + 1] /\ b[h + 1] \in Nat /\ b[q + 1] \in Nat
        BY <1>b, <4>1
      <4>3. b[q + 1] = e[i + c + 1] + 1
        <5>1. b[q + 1] = b[q] + Len(m.files[q].chunks) + 2 /\ b[q] \in Nat /\ Len(m.files[q].chunks) \in Nat
          BY <1>3, <1>n
        <5>2. PICK x, y, z : x = b[q + 1] /\ y = b[q] /\ z = Len(m.files[q].chunks)
          OBVIOUS
        <5>3. PICK w : w = e[i + c + 1]
          OBVIOUS
        <5>4. x = y + z + 2 /\ y \in Nat /\ z \in Nat /\ w = y + z + 1
          BY <3>7, <5>1, <5>2, <5>3
        <5> HIDE DEF X, Good, P
        <5>5. x = w + 1
          BY <5>4
        <5> QED
          BY <5>2, <5>3, <5>5
      <4>4. e[i + c + 1] < e[i + c + 2] /\ e[i + c + 2] \in Nat /\ e[i + c + 1] \in Nat
        BY <1>4, <3>5, <3>6
      <4> QED
        BY <4>1, <4>2, <4>3, <4>4
    <3> DEFINE r == f[i + c + 2]
               g == parseFile(t[i], SubSeq(t, i + 1, i + c))
    <3>10. r \in Seq(X) /\ AtMost(r, e[i + c + 2], m, b)
      BY <1>7, <3>1, <3>6
    <3>11. /\ Len(r) \in Nat /\ Len(r) <= n - h
           /\ Len(r) = n - h => e[i + c + 2] = b[h + 1] /\ r = SubSeq(m.files, h + 1, n)
      <4>1. n + 1 - (h + 1) = n - h
        OBVIOUS
      <4>2. Len(r) \in Nat
        BY <3>10, LenProperties
      <4>3. /\ Len(r) <= n + 1 - (h + 1)
            /\ Len(r) = n + 1 - (h + 1) => e[i + c + 2] = b[h + 1] /\ r = SubSeq(m.files, h + 1, n)
        BY <1>n, <3>9, <3>10 DEF AtMost
      <4> QED
        BY <4>1, <4>2, <4>3
    <3>12. g \in X
      BY <3>c
    <3>13. f[i] = <<g>> \o r
      BY <3>1
    <3> HIDE DEF g, r, X
    <3>14. f[i] \in Seq(X) /\ Len(f[i]) = Len(r) + 1
      <4>1. <<g>> \in Seq(X) /\ Len(<<g>>) = 1
        BY <3>12
      <4> QED
        BY <3>10, <3>13, <4>1
    <3>15. ASSUME NEW k \in 1 .. n + 1, e[i] >= b[k] PROVE k <= h
      <4> SUFFICES ASSUME ~ (k <= h) PROVE FALSE
        OBVIOUS
      <4>1. h + 1 <= k /\ h + 1 \in 1 .. n + 1
        OBVIOUS
      <4>2. b[h + 1] <= b[k] /\ b[h + 1] \in Nat /\ b[k] \in Nat
        BY <1>b, <4>1
      <4>3. b[h + 1] = b[h] + c + 2 /\ b[h] \in Nat
        BY <1>3, <1>n, <3>4
      <4>4. b[h] >= b[k]
        BY <3>3, <3>15
      <4> QED
        BY <4>2, <4>3, <4>4
    <3>16. ASSUME Len(r) = n - h PROVE f[i] = SubSeq(m.files, h, n)
      <4>1. e[i + c + 2] = b[h + 1] /\ r = SubSeq(m.files, h + 1, n)
        BY <3>11, <3>16
      <4>2. e[i + c + 2] = e[i] + ((i + c + 2) - i)
        <5>1. b[h + 1] = b[h] + c + 2 /\ b[h] \in Nat
          BY <1>3, <1>n, <3>4
        <5>2. PICK x, y, z : x = e[i + c + 2] /\ y = b[h + 1] /\ z = b[h]
          OBVIOUS
        <5>3. x = y /\ e[i] = z /\ y = z + c + 2 /\ z \in Nat
          BY <3>3, <4>1, <5>1, <5>2
        <5>4. (i + c + 2) - i = c + 2
          BY <3>4
        <5>5. y = z + (c + 2)
          BY <3>4, <5>3
        <5> QED
          BY <5>2, <5>3, <5>4, <5>5
      <4>3. ASSUME NEW d \in 1 .. c + 1 PROVE t[i + d] = text[b[h] + d]
        <5>1. i + d \in i .. i + c + 2 /\ (i + d) - i = d /\ i + d \in 1 .. L /\ i <= i + c + 2
          BY <3>4, <3>6
        <5>2. e[i + d] = e[i] + ((i + d) - i)
          <6>1. \A j \in 1 .. L : e[j] \in Nat
            BY <1>4
          <6>2. Increasing(e, L)
            BY <1>4 DEF Increasing
          <6> QED
            BY <3>6, <4>2, <5>1, <6>1, <6>2, Squeeze
        <5>3. e[i + d] = b[h] + d
          BY <3>3, <5>1, <5>2
        <5> QED
          BY <1>4, <5>1, <5>3
      <4>4. BlockAt(t, i, m.files[h])
        <5>1. BlockAt(text, b[h], m.files[h])
          BY <1>3, <1>n
        <5>2. \A d \in 1 .. c : t[i + d] = chunkLine(m.files[h].chunks[d])
          <6>1. \A d \in 1 .. c : d \in 1 .. c + 1
            BY <3>4
          <6> QED
            BY <3>4, <4>3, <5>1, <6>1 DEF BlockAt
        <5>3. t[i + c + 1] = endLine
          <6>1. c + 1 \in 1 .. c + 1 /\ i + (c + 1) = i + c + 1 /\ b[h] + (c + 1) = b[h] + c + 1
            <7>1. b[h] \in Nat
              BY <1>3, <1>n
            <7> QED
              BY <7>1
          <6> QED
            BY <3>4, <4>3, <5>1, <6>1 DEF BlockAt
        <5> QED
          BY <3>3, <3>4, <5>2, <5>3 DEF BlockAt
      <4>5. g = m.files[h]
        <5>1. m.files[h] \in FileRecords /\ i + Len(m.files[h].chunks) + 1 <= Len(t) /\ i \in 1 .. Len(t)
          BY <1>3, <1>l, <1>n, <3>2, <3>4
        <5>2. parseFile(t[i], SubSeq(t, i + 1, i + t[i][5])) = m.files[h]
          BY <4>4, <5>1, ParseBlock
        <5> QED
          BY <3>c, <5>2 DEF g
      <4>6. <<m.files[h]>> \o SubSeq(m.files, h + 1, n) = SubSeq(m.files, h, n)
        BY <1>3, <1>n, RestStep
      <4> QED
        BY <3>13, <4>1, <4>5, <4>6
    <3>17. AtMost(f[i], e[i], m, b)
      <4> SUFFICES ASSUME NEW k \in 1 .. n + 1, e[i] >= b[k]
                   PROVE  /\ Len(f[i]) <= n + 1 - k
                          /\ Len(f[i]) = n + 1 - k => e[i] = b[k] /\ f[i] = SubSeq(m.files, k, n)
        BY <1>n DEF AtMost
      <4>1. k <= h
        BY <3>15
      <4>2. Len(f[i]) = n + 1 - k => k = h /\ Len(r) = n - h
        BY <3>11, <3>14, <4>1
      <4>3. Len(f[i]) <= n + 1 - k
        BY <3>11, <3>14, <4>1
      <4> QED
        BY <3>3, <3>16, <4>2, <4>3
    <3> QED
      BY <3>14, <3>17
  <2> QED
    BY <2>1, <2>2
<1>8. ASSUME NEW i \in 1 .. L PROVE Good(i)
  <2>1. \A k \in 0 .. L : (\A j \in 0 .. L : k < j => j \in P) => k \in P
    <3> SUFFICES ASSUME NEW k \in 0 .. L, \A j \in 0 .. L : k < j => j \in P
                 PROVE  k \in P
      OBVIOUS
    <3>1. CASE k = 0
      BY <3>1
    <3>2. CASE k # 0
      <4> HIDE DEF Good
      <4>1. \A j \in 1 .. L : j \in 0 .. L /\ j # 0
        OBVIOUS
      <4>2. k \in 1 .. L /\ \A j \in 1 .. L : k < j => Good(j)
        BY <3>2, <4>1
      <4>3. Good(k)
        BY <1>7, <4>2
      <4> QED
        BY <4>3
    <3> QED
      BY <3>1, <3>2
  <2>2. i \in P
    <3>1. i \in 0 .. L
      OBVIOUS
    <3> HIDE DEF P
    <3> QED
      BY <2>1, <3>1, DownInduction
  <2> HIDE DEF Good
  <2> QED
    BY <2>2
<1>9. HasHeader(t) /\ parseFiles(t) # Invalid /\ t[4][2] = Len(parseFiles(t))
      /\ parse(t) = [version |-> t[2][2], mode |-> t[3][2], files |-> parseFiles(t)]
  BY DEF parse
<1>10. L >= 4 /\ 2 \in 1 .. L /\ 3 \in 1 .. L /\ 4 \in 1 .. L
  BY <1>9, <1>l DEF HasHeader
<1>11. e[2] = 2 /\ e[3] = 3 /\ e[4] = 4
  <2>1. IsLine(text[e[2]], "version", 2) /\ IsLine(text[e[3]], "chunking_mode", 2)
        /\ IsLine(text[e[4]], "file_count", 2)
    BY <1>4, <1>9, <1>10 DEF HasHeader
  <2>2. e[2] \in 1 .. Len(text) /\ e[3] \in 1 .. Len(text) /\ e[4] \in 1 .. Len(text)
    BY <1>4, <1>10
  <2> QED
    BY <1>1, <1>2, <2>1, <2>2, LayoutTags
<1>12. t[2][2] = m.version /\ t[3][2] = m.mode /\ t[4][2] = n
  <2>1. t[2] = <<"version", m.version>> /\ t[3] = <<"chunking_mode", m.mode>> /\ t[4] = <<"file_count", n>>
    BY <1>2, <1>4, <1>10, <1>11, <1>n DEF Layout
  <2> QED
    BY <2>1
<1>13. 5 \in 1 .. L
  <2> SUFFICES ASSUME L = 4 PROVE FALSE
    BY <1>10
  <2>1. 5 \in 1 .. L + 1 /\ 5 > L
    OBVIOUS
  <2>2. f[5] = Invalid
    BY <1>6, <1>l, <2>1 DEF filesAt
  <2> QED
    BY <1>5, <1>9, <2>2
<1>14. parseFiles(t) = m.files
  <2>1. AtMost(f[5], e[5], m, b)
    BY <1>5, <1>8, <1>9, <1>13
  <2>2. e[5] >= b[1]
    <3>1. 4 \in 1 .. L /\ 5 \in 1 .. L /\ 4 < 5 /\ e[4] = 4 /\ b[1] = 5
      BY <1>10, <1>11, <1>13, <1>b
    <3>2. e[5] \in Nat /\ e[4] < e[5]
      BY <1>4, <3>1
    <3> QED
      BY <3>1, <3>2
  <2>3. Len(f[5]) = n
    BY <1>5, <1>9, <1>12
  <2>4. 1 \in 1 .. n + 1 /\ n + 1 - 1 = n
    OBVIOUS
  <2>5. f[5] = SubSeq(m.files, 1, n)
    BY <1>n, <2>1, <2>2, <2>3, <2>4 DEF AtMost
  <2>6. SubSeq(m.files, 1, n) = m.files
    BY <1>3, <1>n
  <2> QED
    BY <1>5, <2>5, <2>6
<1>15. m = [version |-> m.version, mode |-> m.mode, files |-> m.files]
  BY DEF Manifests
<1> QED
  BY <1>9, <1>12, <1>14, <1>15

\* A text is a subtext of itself.
LEMMA SubtextSelf ==
  ASSUME NEW text \in Seq(Lines)
  PROVE  Subtext(text, text)
<1> DEFINE e == [i \in 1 .. Len(text) |-> i]
<1>1. Len(text) \in Nat
  BY LenProperties
<1>2. Without(text, text, e)
  BY <1>1 DEF Without, Increasing
<1> QED
  BY <1>2 DEF Subtext

\* A text that loses more lines is still one that has lost some.
LEMMA SubtextCut ==
  ASSUME NEW text \in Seq(Lines), NEW t \in Seq(Lines), Subtext(t, text),
         NEW i \in 1 .. Len(t), NEW j \in 1 .. Len(t), i <= j
  PROVE  /\ SubSeq(t, 1, i - 1) \o SubSeq(t, j + 1, Len(t)) \in Seq(Lines)
         /\ Subtext(SubSeq(t, 1, i - 1) \o SubSeq(t, j + 1, Len(t)), text)
<1>1. PICK e : Without(t, text, e)
  BY DEF Subtext
<1>l. PICK L \in Nat : L = Len(t)
  BY LenProperties
<1>2. /\ \A k \in 1 .. L : e[k] \in 1 .. Len(text) /\ e[k] \in Nat /\ t[k] = text[e[k]]
      /\ \A h, k \in 1 .. L : h < k => e[h] < e[k]
  <2>1. e \in [1 .. L -> 1 .. Len(text)] /\ Increasing(e, L) /\ \A k \in 1 .. L : t[k] = text[e[k]]
    BY <1>1, <1>l DEF Without
  <2>2. \A x \in 1 .. Len(text) : x \in Nat
    OBVIOUS
  <2>3. \A k \in 1 .. L : e[k] \in 1 .. Len(text)
    BY <2>1
  <2>4. \A h, k \in 1 .. L : h < k => e[h] < e[k]
    BY <2>1 DEF Increasing
  <2> QED
    BY <2>1, <2>2, <2>3, <2>4
<1> DEFINE u == SubSeq(t, 1, i - 1)
           w == SubSeq(t, j + 1, Len(t))
           r == u \o w
           gap == (j - i) + 1
<1>3. u \in Seq(Lines) /\ Len(u) = i - 1 /\ \A k \in 1 .. i - 1 : u[k] = t[k]
  <2>1. 1 \in 1 .. Len(t) + 1 /\ i - 1 \in 1 - 1 .. Len(t) /\ (i - 1) - 1 + 1 = i - 1
    BY <1>l
  <2>2. u \in Seq(Lines) /\ Len(u) = (i - 1) - 1 + 1 /\ \A k \in 1 .. (i - 1) - 1 + 1 : u[k] = t[1 + k - 1]
    BY <2>1, SubSeqProperties
  <2>3. \A k \in 1 .. i - 1 : 1 + k - 1 = k
    BY <1>l
  <2> HIDE DEF u
  <2> QED
    BY <2>1, <2>2, <2>3
<1>4. w \in Seq(Lines) /\ Len(w) = L - j /\ \A k \in 1 .. L - j : w[k] = t[j + k]
  <2>1. j + 1 \in 1 .. Len(t) + 1 /\ Len(t) \in (j + 1) - 1 .. Len(t) /\ Len(t) - (j + 1) + 1 = L - j
    BY <1>l
  <2>2. w \in Seq(Lines) /\ Len(w) = Len(t) - (j + 1) + 1
        /\ \A k \in 1 .. Len(t) - (j + 1) + 1 : w[k] = t[(j + 1) + k - 1]
    BY <2>1, SubSeqProperties
  <2>3. \A k \in 1 .. L - j : (j + 1) + k - 1 = j + k
    BY <1>l
  <2> HIDE DEF w
  <2> QED
    BY <2>1, <2>2, <2>3
<1> HIDE DEF u, w
<1>5. r \in Seq(Lines) /\ IsConcat(r, u, w)
  BY <1>3, <1>4, ConcatAt
<1> HIDE DEF r
<1>6. /\ i \in Nat /\ j \in Nat /\ 1 <= i /\ i <= j /\ j <= L /\ gap \in Nat /\ gap >= 1
      /\ (i - 1) + (L - j) = L - gap /\ L - gap \in Nat
  BY <1>l
<1>7. /\ Len(r) = L - gap
      /\ \A k \in 1 .. i - 1 : r[k] = t[k]
      /\ \A k \in i .. L - gap : r[k] = t[k + gap]
  <2>1. /\ Len(r) = (i - 1) + (L - j)
        /\ \A k \in 1 .. i - 1 : r[k] = u[k]
        /\ \A k \in 1 .. L - j : r[(i - 1) + k] = w[k]
    BY <1>3, <1>4, <1>5 DEF IsConcat
  <2>2. ASSUME NEW k \in i .. L - gap
        PROVE  r[k] = t[k + gap]
    <3>1. k - (i - 1) \in 1 .. L - j /\ (i - 1) + (k - (i - 1)) = k /\ j + (k - (i - 1)) = k + gap
      BY <1>6
    <3> QED
      BY <1>4, <2>1, <3>1
  <2> QED
    BY <1>3, <1>6, <2>1, <2>2
<1> DEFINE g == [k \in 1 .. L - gap |-> IF k < i THEN e[k] ELSE e[k + gap]]
<1>8. /\ \A k \in 1 .. L - gap : k \in 1 .. L /\ k + gap \in 1 .. L
      /\ \A k \in 1 .. L - gap : k < i => k \in 1 .. i - 1
      /\ \A k \in 1 .. L - gap : ~ (k < i) => k \in i .. L - gap
  BY <1>6
<1> HIDE DEF gap
<1>9. Without(r, text, g)
  <2>1. g \in [1 .. L - gap -> 1 .. Len(text)]
    BY <1>2, <1>8
  <2>2. ASSUME NEW h \in 1 .. L - gap, NEW k \in 1 .. L - gap, h < k
        PROVE  g[h] < g[k]
    <3>1. h + gap < k + gap /\ (h < i => h < k + gap) /\ (~ (h < i) => ~ (k < i))
      BY <1>6, <2>2
    <3> QED
      BY <1>2, <1>8, <2>2, <3>1
  <2>3. ASSUME NEW k \in 1 .. L - gap PROVE r[k] = text[g[k]]
    BY <1>2, <1>7, <1>8
  <2> HIDE DEF g
  <2> QED
    BY <1>7, <2>1, <2>2, <2>3 DEF Without, Increasing
<1>10. Subtext(r, text)
  <2> HIDE DEF g
  <2> QED
    BY <1>9 DEF Subtext
<1> QED
  BY <1>5, <1>10 DEF r, u, w

-----------------------------------------------------------------------------
(***************************************************************************)
(* A list of chunks is cut where the chunker cuts: none but the last one   *)
(* ends before a boundary or behind one.  The bytes and the mode determine *)
(* it.                                                                     *)
(***************************************************************************)
\* A chunk that has become b ends here.
Boundary(o, b) ==
    IF o = "fixed"
      THEN Len(b) >= ChunkSize
      ELSE Len(b) >= MaxSize \/ (Len(b) >= MinSize /\ b \in Hits)

\* cs is how a chunker in mode o cuts what its chunks make.
Cutting(o, cs) ==
    /\ cs \in Seq(Seq(Bytes)) /\ cs # <<>>
    /\ \A k \in 1 .. Len(cs) : \A i \in 1 .. Len(cs[k]) - 1 : ~ Boundary(o, SubSeq(cs[k], 1, i))
    /\ \A k \in 1 .. Len(cs) - 1 : Boundary(o, cs[k])
    /\ cs # << <<>> >> => \A k \in 1 .. Len(cs) : Len(cs[k]) # 0

\* Two cuttings of the same bytes have their cuts at the same places.
LEMMA SameEnds ==
  ASSUME NEW o, NEW cs, NEW ds, Cutting(o, cs), Cutting(o, ds), NEW e, EndsOf(cs, e), NEW g, EndsOf(ds, g),
         FlattenSeq(cs) = FlattenSeq(ds), \A k \in 1 .. Len(cs) : Len(cs[k]) # 0,
         \A k \in 1 .. Len(ds) : Len(ds[k]) # 0
  PROVE  \A k \in 0 .. Len(cs) : k <= Len(ds) /\ e[k] = g[k]
<1> DEFINE s == FlattenSeq(cs)
<1>0. /\ cs \in Seq(Seq(Bytes)) /\ ds \in Seq(Seq(Bytes)) /\ Len(cs) \in Nat /\ Len(ds) \in Nat
      /\ \A k \in 1 .. Len(cs) : cs[k] \in Seq(Bytes) /\ Len(cs[k]) \in Nat
      /\ \A k \in 1 .. Len(ds) : ds[k] \in Seq(Bytes) /\ Len(ds[k]) \in Nat
  BY ElementOfSeq, LenProperties DEF Cutting
<1>1. /\ Len(s) = e[Len(cs)]
      /\ \A c \in 1 .. Len(cs) : \A j \in 1 .. Len(cs[c]) : s[e[c - 1] + j] = cs[c][j]
  BY <1>0, FlattenAt
<1>2. /\ Len(s) = g[Len(ds)]
      /\ \A c \in 1 .. Len(ds) : \A j \in 1 .. Len(ds[c]) : s[g[c - 1] + j] = ds[c][j]
  BY <1>0, FlattenAt
<1>3. /\ e[0] = 0 /\ \A k \in 0 .. Len(cs) : e[k] \in Nat
      /\ \A k \in 1 .. Len(cs) : e[k] = e[k - 1] + Len(cs[k])
      /\ g[0] = 0 /\ \A k \in 0 .. Len(ds) : g[k] \in Nat
      /\ \A k \in 1 .. Len(ds) : g[k] = g[k - 1] + Len(ds[k])
  BY DEF EndsOf
<1>4. /\ \A j, k \in 0 .. Len(cs) : j <= k => e[j] <= e[k]
      /\ \A j, k \in 0 .. Len(ds) : j <= k => g[j] <= g[k]
  BY <1>0, PieceOf
<1> HIDE DEF s
<1> DEFINE P == {k \in 0 .. Len(cs) : k <= Len(ds) /\ e[k] = g[k]}
<1>5. 0 \in P
  BY <1>0, <1>3
<1>6. ASSUME NEW k \in 1 .. Len(cs), k - 1 \in P
      PROVE  k \in P
  <2>0. /\ k - 1 \in 0 .. Len(cs) /\ k \in 0 .. Len(cs) /\ Len(cs) \in 0 .. Len(cs) /\ k <= Len(cs)
        /\ k \in Nat /\ Len(ds) \in 0 .. Len(ds)
    BY <1>0
  <2>1. k - 1 <= Len(ds) /\ e[k - 1] = g[k - 1]
    BY <1>6
  <2>2. e[k - 1] \in Nat /\ e[k] \in Nat /\ e[k] = e[k - 1] + Len(cs[k]) /\ Len(cs[k]) \in Nat
        /\ Len(cs[k]) # 0 /\ e[k] <= Len(s) /\ Len(s) \in Nat
    <3>1. e[k - 1] \in Nat /\ e[k] \in Nat /\ e[k] = e[k - 1] + Len(cs[k])
      BY <1>3, <2>0
    <3>2. Len(cs[k]) \in Nat /\ Len(cs[k]) # 0
      BY <1>0, <2>0
    <3>3. e[k] <= Len(s) /\ Len(s) \in Nat
      BY <1>1, <1>3, <1>4, <2>0
    <3> QED
      BY <3>1, <3>2, <3>3
  <2>3. k \in 1 .. Len(ds)
    <3>1. k - 1 # Len(ds)
      <4> SUFFICES ASSUME k - 1 = Len(ds) PROVE FALSE
        OBVIOUS
      <4>1. Len(s) = e[k - 1]
        BY <1>2, <2>1
      <4>2. PICK x, y, z : x = e[k - 1] /\ y = e[k] /\ z = Len(cs[k])
        OBVIOUS
      <4>3. x \in Nat /\ z \in Nat /\ z # 0 /\ y = x + z /\ y <= x
        BY <2>2, <4>1, <4>2
      <4> QED
        BY <4>3
    <3> QED
      BY <1>0, <2>0, <2>1, <3>1
  <2>4. g[k] \in Nat /\ g[k] = g[k - 1] + Len(ds[k]) /\ Len(ds[k]) \in Nat /\ g[k] <= Len(s)
        /\ Len(ds[k]) # 0
    <3>1. k \in 0 .. Len(ds)
      BY <2>3
    <3>2. g[k] \in Nat /\ g[k] = g[k - 1] + Len(ds[k])
      BY <1>3, <2>3, <3>1
    <3>3. Len(ds[k]) \in Nat /\ Len(ds[k]) # 0
      BY <1>0, <2>3
    <3>4. Len(ds) \in 0 .. Len(ds) /\ k <= Len(ds)
      BY <2>0, <2>3
    <3>5. g[k] <= Len(s)
      BY <1>2, <1>4, <3>1, <3>4
    <3> QED
      BY <3>2, <3>3, <3>5
  <2>5. ASSUME Len(cs[k]) < Len(ds[k]) PROVE FALSE
    <3>1. k # Len(cs)
      BY <1>1, <2>1, <2>2, <2>4, <2>5
    <3>2. Boundary(o, cs[k])
      <4>1. k \in 1 .. Len(cs) - 1
        BY <1>0, <2>0, <3>1
      <4> QED
        BY <4>1 DEF Cutting
    <3>3. SubSeq(ds[k], 1, Len(cs[k])) = cs[k]
      <4>1. \A i \in 1 .. Len(cs[k]) : i \in 1 .. Len(ds[k])
        BY <2>2, <2>4, <2>5
      <4>2. ASSUME NEW i \in 1 .. Len(cs[k]) PROVE ds[k][i] = cs[k][i]
        <5>1. i \in 1 .. Len(ds[k])
          BY <4>1
        <5>2. s[e[k - 1] + i] = cs[k][i]
          BY <1>1, <5>1
        <5>3. s[g[k - 1] + i] = ds[k][i]
          BY <1>2, <2>3, <5>1
        <5>4. e[k - 1] + i = g[k - 1] + i
          BY <2>1
        <5> QED
          BY <5>2, <5>3, <5>4
      <4>3. cs[k] \in Seq(Bytes) /\ ds[k] \in Seq(Bytes) /\ Len(cs[k]) <= Len(ds[k])
        <5>1. cs[k] \in Seq(Bytes) /\ ds[k] \in Seq(Bytes)
          BY <1>0, <2>3
        <5> QED
          BY <2>2, <2>4, <2>5, <5>1
      <4> QED
        BY <4>2, <4>3, PrefixIs
    <3>4. Len(cs[k]) \in 1 .. Len(ds[k]) - 1
      BY <2>2, <2>4, <2>5
    <3>5. ~ Boundary(o, SubSeq(ds[k], 1, Len(cs[k])))
      BY <2>3, <3>4 DEF Cutting
    <3> QED
      BY <3>2, <3>3, <3>5
  <2>6. ASSUME Len(ds[k]) < Len(cs[k]) PROVE FALSE
    <3>1. k # Len(ds)
      BY <1>2, <2>1, <2>2, <2>4, <2>6
    <3>2. Boundary(o, ds[k])
      <4>1. k \in 1 .. Len(ds) - 1
        BY <1>0, <2>3, <3>1
      <4> QED
        BY <4>1 DEF Cutting
    <3>3. SubSeq(cs[k], 1, Len(ds[k])) = ds[k]
      <4>1. \A i \in 1 .. Len(ds[k]) : i \in 1 .. Len(cs[k])
        BY <2>2, <2>4, <2>6
      <4>2. ASSUME NEW i \in 1 .. Len(ds[k]) PROVE cs[k][i] = ds[k][i]
        <5>1. i \in 1 .. Len(cs[k])
          BY <4>1
        <5>2. s[e[k - 1] + i] = cs[k][i]
          BY <1>1, <5>1
        <5>3. s[g[k - 1] + i] = ds[k][i]
          BY <1>2, <2>3, <5>1
        <5>4. e[k - 1] + i = g[k - 1] + i
          BY <2>1
        <5> QED
          BY <5>2, <5>3, <5>4
      <4>3. cs[k] \in Seq(Bytes) /\ ds[k] \in Seq(Bytes) /\ Len(ds[k]) <= Len(cs[k])
        <5>1. cs[k] \in Seq(Bytes) /\ ds[k] \in Seq(Bytes)
          BY <1>0, <2>3
        <5> QED
          BY <2>2, <2>4, <2>6, <5>1
      <4> QED
        BY <4>2, <4>3, PrefixIs
    <3>4. Len(ds[k]) \in 1 .. Len(cs[k]) - 1
      BY <2>2, <2>4, <2>6
    <3>5. ~ Boundary(o, SubSeq(cs[k], 1, Len(ds[k])))
      BY <3>4 DEF Cutting
    <3> QED
      BY <3>2, <3>3, <3>5
  <2>7. Len(cs[k]) = Len(ds[k])
    BY <2>2, <2>4, <2>5, <2>6
  <2>8. k <= Len(ds)
    BY <2>3
  <2>9. e[k] = g[k]
    BY <2>1, <2>2, <2>4, <2>7
  <2> QED
    BY <2>0, <2>8, <2>9
<1>7. \A k \in 0 .. Len(cs) : k \in P
  <2> HIDE DEF P
  <2> QED
    BY <1>0, <1>5, <1>6, UpToInduction
<1> QED
  BY <1>7

\* A cutting of some bytes is one of none, or has none of its chunks empty.
LEMMA EmptyCutting ==
  ASSUME NEW o, NEW cs, Cutting(o, cs)
  PROVE  IF cs = << <<>> >> THEN Len(FlattenSeq(cs)) = 0
                            ELSE /\ Len(FlattenSeq(cs)) # 0
                                 /\ \A k \in 1 .. Len(cs) : Len(cs[k]) # 0
<1>0. /\ cs \in Seq(Seq(Bytes)) /\ Len(cs) \in Nat /\ Len(cs) # 0
      /\ \A k \in 1 .. Len(cs) : Len(cs[k]) \in Nat
  BY ElementOfSeq, LenProperties DEF Cutting
<1>1. PICK e : EndsOf(cs, e)
  BY <1>0, EndsExist
<1>2. Len(FlattenSeq(cs)) = e[Len(cs)]
  BY <1>0, <1>1, FlattenAt
<1>3. e[0] = 0 /\ e[1] = e[0] + Len(cs[1]) /\ e[1] \in Nat /\ e[Len(cs)] \in Nat /\ Len(cs[1]) \in Nat
  <2>1. 1 \in 1 .. Len(cs) /\ 1 \in 0 .. Len(cs) /\ Len(cs) \in 0 .. Len(cs) /\ 1 - 1 = 0
    BY <1>0
  <2> QED
    BY <1>0, <1>1, <2>1 DEF EndsOf
<1>4. CASE cs = << <<>> >>
  <2>1. Len(cs) = 1 /\ Len(cs[1]) = 0
    BY <1>4
  <2> QED
    BY <1>2, <1>3, <1>4, <2>1
<1>5. CASE cs # << <<>> >>
  <2>1. \A k \in 1 .. Len(cs) : Len(cs[k]) # 0
    BY <1>5 DEF Cutting
  <2>2. Len(cs[1]) # 0
    <3>1. 1 \in 1 .. Len(cs)
      BY <1>0
    <3> QED
      BY <2>1, <3>1
  <2>3. e[1] <= e[Len(cs)]
    <3>1. 1 \in 0 .. Len(cs) /\ Len(cs) \in 0 .. Len(cs) /\ 1 <= Len(cs)
      BY <1>0
    <3> QED
      BY <1>0, <1>1, <3>1, PieceOf
  <2>4. e[Len(cs)] # 0
    BY <1>3, <2>2, <2>3
  <2> QED
    BY <1>2, <1>5, <2>1, <2>4
<1> QED
  BY <1>4, <1>5

\* The chunkers have no choice: bytes are cut in one way.
LEMMA SameCutting ==
  ASSUME NEW o, NEW cs, NEW ds, Cutting(o, cs), Cutting(o, ds), FlattenSeq(cs) = FlattenSeq(ds)
  PROVE  cs = ds
<1>0. /\ cs \in Seq(Seq(Bytes)) /\ ds \in Seq(Seq(Bytes)) /\ Len(cs) \in Nat /\ Len(ds) \in Nat
      /\ \A k \in 1 .. Len(cs) : cs[k] \in Seq(Bytes) /\ Len(cs[k]) \in Nat
      /\ \A k \in 1 .. Len(ds) : ds[k] \in Seq(Bytes) /\ Len(ds[k]) \in Nat
  BY ElementOfSeq, LenProperties DEF Cutting
<1>1. CASE cs = << <<>> >>
  BY <1>1, EmptyCutting
<1>2. CASE ds = << <<>> >>
  BY <1>2, EmptyCutting
<1>3. CASE cs # << <<>> >> /\ ds # << <<>> >>
  <2>1. /\ \A k \in 1 .. Len(cs) : Len(cs[k]) # 0
        /\ \A k \in 1 .. Len(ds) : Len(ds[k]) # 0
    BY <1>3, EmptyCutting
  <2>2. PICK e : EndsOf(cs, e)
    BY <1>0, EndsExist
  <2>3. PICK g : EndsOf(ds, g)
    BY <1>0, EndsExist
  <2>4. \A k \in 0 .. Len(cs) : k <= Len(ds) /\ e[k] = g[k]
    BY <2>1, <2>2, <2>3, SameEnds
  <2>5. \A k \in 0 .. Len(ds) : k <= Len(cs) /\ g[k] = e[k]
    BY <2>1, <2>2, <2>3, SameEnds
  <2>6. Len(cs) = Len(ds)
    <3>1. Len(cs) \in 0 .. Len(cs) /\ Len(ds) \in 0 .. Len(ds)
      BY <1>0
    <3>2. Len(cs) <= Len(ds) /\ Len(ds) <= Len(cs)
      BY <2>4, <2>5, <3>1
    <3> QED
      BY <1>0, <3>2
  <2>7. ASSUME NEW k \in 1 .. Len(cs) PROVE cs[k] = ds[k]
    <3>0. k \in 0 .. Len(cs) /\ k - 1 \in 0 .. Len(cs) /\ k \in 1 .. Len(ds)
      BY <1>0, <2>6
    <3>1. e[k] = g[k] /\ e[k - 1] = g[k - 1]
      BY <2>4, <3>0
    <3>2. e[k] = e[k - 1] + Len(cs[k]) /\ g[k] = g[k - 1] + Len(ds[k]) /\ e[k - 1] \in Nat
      BY <2>2, <2>3, <3>0 DEF EndsOf
    <3>3. Len(cs[k]) = Len(ds[k])
      <4>1. Len(cs[k]) \in Nat /\ Len(ds[k]) \in Nat
        BY <1>0, <3>0
      <4>2. e[k - 1] + Len(cs[k]) = e[k - 1] + Len(ds[k])
        BY <3>1, <3>2
      <4>3. \A a, b, c \in Nat : a + b = a + c => b = c
        OBVIOUS
      <4>4. e[k - 1] \in Nat
        BY <3>2
      <4> QED
        BY <4>1, <4>2, <4>3, <4>4
    <3>4. ASSUME NEW j \in 1 .. Len(cs[k]) PROVE cs[k][j] = ds[k][j]
      <4>1. FlattenSeq(cs)[e[k - 1] + j] = cs[k][j]
        BY <1>0, <2>2, FlattenAt
      <4>3. \A c \in 1 .. Len(ds) : \A h \in 1 .. Len(ds[c]) : FlattenSeq(ds)[g[c - 1] + h] = ds[c][h]
        <5>1. ds \in Seq(Seq(Bytes)) /\ EndsOf(ds, g)
          BY <1>0, <2>3
        <5> QED
          BY <5>1, FlattenAt
      <4>2. FlattenSeq(ds)[g[k - 1] + j] = ds[k][j]
        BY <3>0, <3>3, <4>3
      <4> QED
        BY <3>1, <4>1, <4>2
    <3>5. cs[k] \in Seq(Bytes) /\ ds[k] \in Seq(Bytes)
      BY <1>0, <3>0
    <3> QED
      BY <3>3, <3>4, <3>5, SeqEqual
  <2> QED
    BY <1>0, <2>6, <2>7, SeqEqual
<1> QED
  BY <1>1, <1>2, <1>3

\* The chunks from the i-th on are cut like a file of their own.
LEMMA RestCutting ==
  ASSUME NEW o, NEW cs, Cutting(o, cs), NEW i \in 1 .. Len(cs)
  PROVE  Cutting(o, [c \in 1 .. Len(cs) - i + 1 |-> cs[i + c - 1]])
<1>0. /\ cs \in Seq(Seq(Bytes)) /\ Len(cs) \in Nat
      /\ \A k \in 1 .. Len(cs) : cs[k] \in Seq(Bytes) /\ Len(cs[k]) \in Nat
  BY ElementOfSeq, LenProperties DEF Cutting
<1>m. PICK N \in Nat : N = Len(cs)
  BY <1>0
<1>i. i \in Nat /\ 1 <= i /\ i <= N
  BY <1>m
<1>n. PICK n \in Nat : n = N - i + 1
  BY <1>i
<1> DEFINE ds == [c \in 1 .. n |-> cs[i + c - 1]]
<1>1. \A c \in 1 .. n : i + c - 1 \in 1 .. Len(cs)
  <2>1. \A c \in 1 .. n : i + c - 1 \in 1 .. N
    BY <1>i, <1>n
  <2> QED
    BY <1>m, <2>1
<1>2. ds \in Seq(Seq(Bytes)) /\ Len(ds) = n /\ \A c \in 1 .. n : ds[c] = cs[i + c - 1]
  <2>1. \A c \in 1 .. n : cs[i + c - 1] \in Seq(Bytes)
    BY <1>0, <1>1
  <2> QED
    BY <2>1
<1>3. n # 0
  BY <1>i, <1>n
<1> HIDE DEF ds
<1>4. ds # <<>>
  BY <1>2, <1>3
<1>5. \A k \in 1 .. n : \A j \in 1 .. Len(ds[k]) - 1 : ~ Boundary(o, SubSeq(ds[k], 1, j))
  BY <1>1, <1>2 DEF Cutting
<1>6. \A k \in 1 .. n - 1 : Boundary(o, ds[k])
  <2> SUFFICES ASSUME NEW k \in 1 .. n - 1 PROVE Boundary(o, ds[k])
    OBVIOUS
  <2>1. k \in 1 .. n /\ i + k - 1 \in 1 .. Len(cs) - 1
    BY <1>i, <1>m, <1>n
  <2> QED
    BY <1>2, <2>1 DEF Cutting
<1>7. ds # << <<>> >> => \A k \in 1 .. n : Len(ds[k]) # 0
  <2>1. CASE cs = << <<>> >>
    <3>1. Len(cs) = 1 /\ cs[1] = <<>>
      BY <2>1
    <3>2. i = 1 /\ n = 1 /\ i + 1 - 1 = 1
      BY <1>i, <1>m, <1>n, <3>1
    <3>3. ds[1] = <<>>
      BY <1>2, <3>1, <3>2
    <3>4. ds = << <<>> >>
      BY <1>2, <3>2, <3>3
    <3> QED
      BY <3>4
  <2>2. CASE cs # << <<>> >>
    BY <1>1, <1>2, <2>2 DEF Cutting
  <2> QED
    BY <2>1, <2>2
<1>8. Cutting(o, ds)
  BY <1>2, <1>4, <1>5, <1>6, <1>7 DEF Cutting
<1> QED
  BY <1>8, <1>m, <1>n DEF ds

\* Where the chunks start and end after one more cut.
LEMMA AppendShape ==
    ASSUME ends \in Seq(Nat), NEW e \in Nat, ends' = Append(ends, e), NEW n \in Nat, n = Len(ends)
    PROVE  /\ DOMAIN ends = 1 .. n /\ DOMAIN ends' = 1 .. n + 1 /\ Len(ends') = n + 1
           /\ \A k \in 1 .. n : ends'[k] = ends[k] /\ ends[k] \in Nat /\ startOf(k)' = startOf(k) /\ startOf(k) \in Nat
           /\ ends'[n + 1] = e /\ startOf(n + 1)' = start /\ start \in Nat
           /\ start' = e
<1>1. /\ Len(ends') = n + 1 /\ DOMAIN ends = 1 .. n /\ DOMAIN ends' = 1 .. n + 1
      /\ ends'[n + 1] = e /\ start \in Nat
      /\ \A k \in 1 .. n : ends'[k] = ends[k] /\ ends[k] \in Nat /\ startOf(k) \in Nat
  BY StartIsEnd
<1>2. ASSUME NEW k \in 1 .. n PROVE startOf(k)' = startOf(k)
  <2>1. CASE k = 1
    BY <2>1 DEF startOf
  <2>2. CASE k # 1
    <3>1. k - 1 \in 1 .. n
      BY <2>2
    <3> QED
      BY <1>1, <2>2, <3>1 DEF startOf
  <2> QED
    BY <2>1, <2>2
<1>3. startOf(n + 1)' = start
  <2>1. CASE ends = <<>>
    BY <2>1 DEF start, startOf
  <2>2. CASE ends # <<>>
    <3>1. n \in 1 .. n /\ n + 1 # 1 /\ n + 1 - 1 = n
      BY <2>2
    <3> QED
      BY <1>1, <2>2, <3>1 DEF start, startOf
  <2> QED
    BY <2>1, <2>2
<1>4. start' = e
  BY <1>1 DEF start
<1> QED
  BY <1>1, <1>2, <1>3, <1>4

\* The hash or the size gave no boundary before a chunk's end, and gave one there,
\* unless the file ends.
NoneBefore(k) ==
    \A i \in startOf(k) + 1 .. ends[k] - 1 : ~ Boundary(mode, SubSeq(data, startOf(k) + 1, i))
CutsAtBoundaries ==
    \A k \in DOMAIN ends :
        /\ NoneBefore(k)
        /\ ends[k] # Len(data) => Boundary(mode, chunk(k))
        /\ startOf(k) < ends[k] \/ (data = <<>> /\ ends = << 0 >>)

NoneYet == mode = "cdc" => \A i \in start + 1 .. pos : ~ Boundary(mode, SubSeq(data, start + 1, i))

CutInv == ChunkerInv /\ CutsAtBoundaries /\ NoneYet

\* One more cut, at the first boundary behind the last one, or at the end of the file.
LEMMA AppendBoundary ==
    ASSUME ChunkerInv, CutsAtBoundaries,
           NEW e \in Nat, ends' = Append(ends, e), data' = data, mode' = mode,
           \A i \in start + 1 .. e - 1 : ~ Boundary(mode, SubSeq(data, start + 1, i)),
           e # Len(data) => Boundary(mode, SubSeq(data, start + 1, e)),
           start < e \/ (data = <<>> /\ ends = <<>> /\ e = 0),
           start < e => data # <<>>
    PROVE  CutsAtBoundaries'
<1>0. ends \in Seq(Nat) /\ Len(ends) \in Nat
  BY LenProperties DEF ChunkerInv, ChunkerTypeOK
<1>n. PICK n \in Nat : n = Len(ends)
  BY <1>0
<1>1. /\ DOMAIN ends = 1 .. n /\ DOMAIN ends' = 1 .. n + 1 /\ Len(ends') = n + 1
      /\ \A k \in 1 .. n : ends'[k] = ends[k] /\ ends[k] \in Nat /\ startOf(k)' = startOf(k) /\ startOf(k) \in Nat
      /\ ends'[n + 1] = e /\ startOf(n + 1)' = start /\ start \in Nat
  BY <1>0, <1>n, AppendShape
<1> SUFFICES ASSUME NEW k \in 1 .. n + 1
             PROVE  (/\ NoneBefore(k)
                     /\ ends[k] # Len(data) => Boundary(mode, chunk(k))
                     /\ startOf(k) < ends[k] \/ (data = <<>> /\ ends = << 0 >>))'
  BY <1>1 DEF CutsAtBoundaries
<1>3. CASE k \in 1 .. n
  <2>1. /\ NoneBefore(k)
        /\ ends[k] # Len(data) => Boundary(mode, chunk(k))
        /\ startOf(k) < ends[k] \/ (data = <<>> /\ ends = << 0 >>)
    BY <1>1, <1>3 DEF CutsAtBoundaries
  <2>2. NoneBefore(k)'
    BY <1>1, <1>3, <2>1 DEF NoneBefore, Boundary
  <2>3. (ends[k] # Len(data) => Boundary(mode, chunk(k)))'
    BY <1>1, <1>3, <2>1 DEF chunk, Boundary
  <2>4. startOf(k) < ends[k]
    <3> SUFFICES ASSUME data = <<>> /\ ends = << 0 >> PROVE FALSE
      BY <2>1
    <3>1. start = 0 /\ ends # <<>> /\ ~ (start < e)
      BY DEF start
    <3> QED
      BY <3>1
  <2> QED
    BY <1>1, <1>3, <2>2, <2>3, <2>4
<1>4. CASE k = n + 1
  <2>1. NoneBefore(k)'
    BY <1>1, <1>4 DEF NoneBefore, Boundary
  <2>2. (ends[k] # Len(data) => Boundary(mode, chunk(k)))'
    BY <1>1, <1>4 DEF chunk, Boundary
  <2>3. (startOf(k) < ends[k] \/ (data = <<>> /\ ends = << 0 >>))'
    <3>1. CASE start < e
      BY <1>1, <1>4, <3>1
    <3>2. CASE data = <<>> /\ ends = <<>> /\ e = 0
      BY <1>1, <1>4, <3>2
    <3> QED
      BY <3>1, <3>2
  <2> QED
    BY <2>1, <2>2, <2>3
<1>5. k \in 1 .. n \/ k = n + 1
  OBVIOUS
<1> QED
  BY <1>3, <1>4, <1>5

\* Every step of a chunker cuts at the boundaries, and at no other place.
LEMMA CutStep == CutInv /\ [Cut]_chunkerVars => CutInv'
  <1> SUFFICES ASSUME CutInv, [Cut]_chunkerVars PROVE CutInv'
    OBVIOUS
  <1>0. /\ ChunkerInv /\ ChunkerInv' /\ CutsAtBoundaries /\ NoneYet
        /\ data \in Seq(Bytes) /\ Len(data) \in Nat /\ pos \in Nat /\ start \in Nat
        /\ ends \in Seq(Nat)
    BY NextInv, StartIsEnd DEF CutInv, ChunkerInv, ChunkerTypeOK
  <1>a. /\ mode \in {"fixed", "cdc"}
        /\ ChunkSize \in Nat \ {0} /\ MinSize \in Nat \ {0} /\ MaxSize \in Nat /\ MinSize <= MaxSize
    BY <1>0, ChunkerAssumption DEF ChunkerInv, ChunkerTypeOK, Modes
  <1>1. CASE CutEmpty
    <2>1. /\ start = 0 /\ Len(data) = 0 /\ ends' = Append(ends, 0) /\ data' = data /\ mode' = mode
          /\ pos' = pos /\ data = <<>> /\ ends = <<>>
      BY <1>1 DEF CutEmpty, start
    <2>2. CutsAtBoundaries'
      <3>1. \A i \in start + 1 .. 0 - 1 : FALSE
        BY <2>1
      <3>2. 0 \in Nat /\ ~ (start < 0)
        BY <2>1
      <3> QED
        BY <1>0, <2>1, <3>1, <3>2, AppendBoundary
    <2>3. NoneYet'
      <3>1. start' = 0
        BY <2>1 DEF start
      <3>2. mode = "cdc" => pos <= 0
        BY <1>0, <2>1 DEF ChunkerInv, HashAhead
      <3> QED
        BY <1>0, <2>1, <3>1, <3>2 DEF NoneYet
    <2> QED
      BY <1>0, <2>2, <2>3 DEF CutInv
  <1>2. CASE CutFixed
    <2> DEFINE e == IF start + ChunkSize <= Len(data) THEN start + ChunkSize ELSE Len(data)
    <2>1. e \in Nat /\ start < e /\ e <= Len(data) /\ e <= start + ChunkSize
          /\ (e # Len(data) => e = start + ChunkSize)
      BY <1>0, <1>2, <1>a DEF CutFixed
    <2>2. ends' = Append(ends, e) /\ data' = data /\ mode' = mode /\ mode = "fixed"
      BY <1>2 DEF CutFixed
    <2> HIDE DEF e
    <2>3. ASSUME NEW i \in start + 1 .. e - 1 PROVE ~ Boundary(mode, SubSeq(data, start + 1, i))
      <3>1. i \in Nat /\ start <= i /\ i <= Len(data) /\ i - start < ChunkSize /\ i - start \in Nat
        BY <1>0, <1>a, <2>1
      <3>2. Len(SubSeq(data, start + 1, i)) = i - start
        BY <1>0, <3>1, PartAt DEF IsPart
      <3>3. ~ (i - start >= ChunkSize)
        BY <1>a, <3>1
      <3> QED
        BY <2>2, <3>2, <3>3 DEF Boundary
    <2>4. ASSUME e # Len(data) PROVE Boundary(mode, SubSeq(data, start + 1, e))
      <3>1. Len(SubSeq(data, start + 1, e)) = e - start
        <4>1. start <= e
          BY <1>0, <2>1
        <4> QED
          BY <1>0, <2>1, <4>1, PartAt DEF IsPart
      <3>2. e - start >= ChunkSize
        BY <1>0, <1>a, <2>1, <2>4
      <3> QED
        BY <2>2, <3>1, <3>2 DEF Boundary
    <2>5. data # <<>>
      BY <1>0, <2>1
    <2>6. CutsAtBoundaries'
      BY <1>0, <2>1, <2>2, <2>3, <2>4, <2>5, AppendBoundary
    <2> QED
      BY <1>0, <2>2, <2>6 DEF CutInv, NoneYet
  <1>3. CASE NextByte
    <2>0. /\ mode = "cdc" /\ pos < Len(data) /\ pos' = pos + 1 /\ data' = data /\ mode' = mode
          /\ start <= pos
      BY <1>0, <1>3 DEF NextByte, ChunkerInv, HashAhead
    <2>1. Len(Window) = pos + 1 - start
      <3>1. pos + 1 \in Nat /\ start <= pos + 1 /\ pos + 1 <= Len(data)
        BY <1>0, <2>0
      <3> QED
        BY <1>0, <3>1, PartAt DEF Window, IsPart
    <2>2. CASE Boundary(mode, Window)
      <3>1. ends' = Append(ends, pos + 1)
        BY <1>3, <2>0, <2>1, <2>2 DEF NextByte, Boundary
      <3>2. CutsAtBoundaries'
        <4>1. pos + 1 \in Nat /\ start < pos + 1 /\ data # <<>> /\ (pos + 1) - 1 = pos
          BY <1>0, <2>0
        <4>2. \A i \in start + 1 .. (pos + 1) - 1 : ~ Boundary(mode, SubSeq(data, start + 1, i))
          BY <1>0, <2>0, <4>1 DEF NoneYet
        <4>3. Boundary(mode, SubSeq(data, start + 1, pos + 1))
          BY <2>2 DEF Window
        <4> QED
          BY <1>0, <2>0, <3>1, <4>1, <4>2, <4>3, AppendBoundary
      <3>3. NoneYet'
        <4>1. start' = pos + 1
          <5>1. Len(ends) \in Nat
            BY <1>0, LenProperties
          <5> QED
            BY <1>0, <3>1, <5>1, AppendShape
        <4>2. \A i \in (pos + 1) + 1 .. pos + 1 : FALSE
          BY <1>0
        <4> QED
          BY <2>0, <4>1, <4>2 DEF NoneYet
      <3> QED
        BY <1>0, <3>2, <3>3 DEF CutInv
    <2>3. CASE ~ Boundary(mode, Window)
      <3>1. ends' = ends
        BY <1>3, <2>0, <2>1, <2>3 DEF NextByte, Boundary
      <3>2. CutsAtBoundaries' /\ start' = start
        BY <1>0, <2>0, <3>1 DEF CutsAtBoundaries, NoneBefore, Boundary, chunk, startOf, start
      <3>3. NoneYet'
        <4> SUFFICES ASSUME NEW i \in start + 1 .. pos + 1
                     PROVE  ~ Boundary(mode, SubSeq(data, start + 1, i))
          BY <2>0, <3>2 DEF NoneYet, Boundary
        <4>1. CASE i = pos + 1
          BY <2>3, <4>1 DEF Window
        <4>2. CASE i # pos + 1
          <5>1. i \in start + 1 .. pos
            BY <1>0, <4>2
          <5> QED
            BY <1>0, <2>0, <5>1 DEF NoneYet
        <4> QED
          BY <4>1, <4>2
      <3> QED
        BY <1>0, <3>2, <3>3 DEF CutInv
    <2> QED
      BY <2>2, <2>3
  <1>4. CASE CutTail
    <2>0. /\ mode = "cdc" /\ pos = Len(data) /\ start < Len(data)
          /\ ends' = Append(ends, Len(data)) /\ data' = data /\ mode' = mode /\ pos' = pos
      BY <1>4 DEF CutTail
    <2>1. CutsAtBoundaries'
      <3>1. data # <<>> /\ \A i \in start + 1 .. Len(data) - 1 : i \in start + 1 .. pos
        BY <1>0, <2>0
      <3>2. \A i \in start + 1 .. Len(data) - 1 : ~ Boundary(mode, SubSeq(data, start + 1, i))
        BY <1>0, <2>0, <3>1 DEF NoneYet
      <3> QED
        BY <1>0, <2>0, <3>1, <3>2, AppendBoundary
    <2>2. NoneYet'
      <3>1. start' = Len(data)
        <4>1. Len(ends) \in Nat
          BY <1>0, LenProperties
        <4> QED
          BY <1>0, <2>0, <4>1, AppendShape
      <3>2. \A i \in Len(data) + 1 .. Len(data) : FALSE
        BY <1>0
      <3> QED
        BY <2>0, <3>1, <3>2 DEF NoneYet
    <2> QED
      BY <1>0, <2>1, <2>2 DEF CutInv
  <1>5. CASE UNCHANGED chunkerVars
    <2>0. /\ data' = data /\ mode' = mode /\ pos' = pos /\ ends' = ends
          /\ start' = start
          /\ \A k : startOf(k)' = startOf(k) /\ chunk(k)' = chunk(k)
      BY <1>5 DEF chunkerVars, chunk, startOf, start
    <2>2. CutsAtBoundaries'
      BY <1>0, <2>0 DEF CutsAtBoundaries, NoneBefore, Boundary
    <2>3. NoneYet'
      BY <1>0, <2>0 DEF NoneYet, Boundary
    <2>1. CutsAtBoundaries' /\ NoneYet'
      BY <2>2, <2>3
    <2> QED
      BY <1>0, <2>1 DEF CutInv
  <1> QED
    BY <1>1, <1>2, <1>3, <1>4, <1>5 DEF Cut

theChunks == [k \in 1 .. Len(ends) |-> chunk(k)]

\* What a chunker has when it is done: a cutting of the file.
LEMMA ChunksOfFile ==
  ASSUME CutInv, Chunked
  PROVE  /\ Cutting(mode, theChunks) /\ FlattenSeq(theChunks) = data
         /\ \A k \in 1 .. Len(ends) : Len(chunk(k)) <= LargestSize
<1>0. /\ ends \in Seq(Nat) /\ Len(ends) \in Nat /\ Len(ends) # 0 /\ DOMAIN ends = 1 .. Len(ends)
      /\ data \in Seq(Bytes) /\ Len(data) \in Nat /\ EndsIncrease /\ ChunkSizes /\ CutsAtBoundaries
  BY LenProperties, EmptySeq DEF CutInv, ChunkerInv, ChunkerTypeOK, Chunked
<1>n. PICK n \in Nat : n = Len(ends) /\ n # 0
  BY <1>0
<1>1. ends[n] = Len(data)
  BY <1>n DEF Chunked, start
<1>2. ASSUME NEW k \in 1 .. n
      PROVE  /\ ends[k] \in Nat /\ startOf(k) \in Nat /\ startOf(k) <= ends[k] /\ ends[k] <= Len(data)
             /\ startOf(k) < ends[k] \/ (data = <<>> /\ ends = << 0 >>)
  <2>1. k \in DOMAIN ends
    BY <1>0, <1>n
  <2>2. ends[k] \in Nat /\ startOf(k) \in Nat /\ ends[k] <= Len(data)
    BY <1>0, <2>1, StartIsEnd DEF EndsIncrease
  <2>3. startOf(k) < ends[k] \/ (data = <<>> /\ ends = << 0 >>)
    BY <1>0, <2>1 DEF CutsAtBoundaries
  <2>4. CASE data = <<>> /\ ends = << 0 >>
    <3>1. k = 1 /\ ends[k] = 0
      BY <1>n, <2>4
    <3>2. startOf(k) = 0
      BY <3>1 DEF startOf
    <3> QED
      BY <2>2, <2>3, <3>1, <3>2
  <2> QED
    BY <2>2, <2>3, <2>4
<1>3. ASSUME NEW k \in 1 .. n
      PROVE  /\ chunk(k) \in Seq(Bytes) /\ Len(chunk(k)) = ends[k] - startOf(k)
             /\ \A j \in 1 .. ends[k] - startOf(k) : chunk(k)[j] = data[startOf(k) + j]
  <2>1. chunk(k) \in Seq(Bytes) /\ IsPart(chunk(k), data, startOf(k), ends[k] - startOf(k))
    <3>1. ends[k] \in Nat /\ startOf(k) \in Nat /\ startOf(k) <= ends[k] /\ ends[k] <= Len(data)
      BY <1>2
    <3> QED
      BY <1>0, <3>1, PartAt DEF chunk
  <2> QED
    BY <2>1 DEF IsPart
<1> DEFINE cs == [k \in 1 .. n |-> chunk(k)]
<1>4. cs \in Seq(Seq(Bytes)) /\ Len(cs) = n /\ \A k \in 1 .. n : cs[k] = chunk(k)
  <2>1. \A k \in 1 .. n : chunk(k) \in Seq(Bytes)
    BY <1>3
  <2> QED
    BY <2>1
<1>c. theChunks = cs
  BY <1>n DEF theChunks
<1> HIDE DEF cs
<1> DEFINE e == [k \in 0 .. n |-> IF k = 0 THEN 0 ELSE ends[k]]
<1>5. /\ e \in [0 .. n -> Nat] /\ e[0] = 0 /\ e[n] = Len(data)
      /\ \A k \in 1 .. n : e[k] = ends[k] /\ e[k - 1] = startOf(k)
  <2>1. \A k \in 0 .. n : k # 0 => k \in 1 .. n
    OBVIOUS
  <2>2. 0 \in 0 .. n /\ n \in 0 .. n
    OBVIOUS
  <2>3. \A k \in 1 .. n : k \in 0 .. n /\ k - 1 \in 0 .. n /\ k # 0 /\ (k - 1 = 0 <=> k = 1)
    OBVIOUS
  <2>4. e \in [0 .. n -> Nat]
    BY <1>2, <2>1
  <2> QED
    BY <1>1, <1>n, <2>2, <2>3, <2>4 DEF startOf
<1> HIDE DEF e
<1>6. EndsOf(cs, e)
  <2>1. \A k \in 1 .. n : e[k] = e[k - 1] + Len(cs[k])
    <3> SUFFICES ASSUME NEW k \in 1 .. n PROVE e[k] = e[k - 1] + Len(cs[k])
      OBVIOUS
    <3>1. Len(cs[k]) = ends[k] - startOf(k) /\ e[k] = ends[k] /\ e[k - 1] = startOf(k)
      BY <1>3, <1>4, <1>5
    <3>2. ends[k] = startOf(k) + (ends[k] - startOf(k))
      BY <1>2
    <3> QED
      BY <3>1, <3>2
  <2> QED
    BY <1>4, <1>5, <2>1 DEF EndsOf
<1>7. FlattenSeq(cs) = data
  <2>1. Len(data) = e[Len(cs)]
    BY <1>4, <1>5
  <2>2. \A c \in 1 .. Len(cs) : \A j \in 1 .. Len(cs[c]) : data[e[c - 1] + j] = cs[c][j]
    <3> SUFFICES ASSUME NEW c \in 1 .. n, NEW j \in 1 .. Len(cs[c])
                 PROVE  data[e[c - 1] + j] = cs[c][j]
      BY <1>4
    <3>1. cs[c] = chunk(c) /\ e[c - 1] = startOf(c)
      BY <1>4, <1>5
    <3>2. chunk(c)[j] = data[startOf(c) + j]
      BY <1>3, <3>1
    <3> QED
      BY <3>1, <3>2
  <2> QED
    BY <1>0, <1>4, <1>6, <2>1, <2>2, FlattenIs
<1>8. Cutting(mode, cs)
  <2>1. cs # <<>>
    BY <1>4, <1>n
  <2>2. ASSUME NEW k \in 1 .. n, NEW i \in 1 .. Len(cs[k]) - 1
        PROVE  ~ Boundary(mode, SubSeq(cs[k], 1, i))
    <3>1. Len(cs[k]) = ends[k] - startOf(k) /\ cs[k] = chunk(k)
      BY <1>3, <1>4
    <3>2. /\ i \in Nat /\ i >= 1 /\ i < ends[k] - startOf(k) /\ startOf(k) + i \in startOf(k) + 1 .. ends[k] - 1
          /\ (startOf(k) + i) - startOf(k) = i /\ startOf(k) + i \in Nat
          /\ startOf(k) <= startOf(k) + i /\ startOf(k) + i <= Len(data)
      <4>1. ends[k] \in Nat /\ startOf(k) \in Nat /\ startOf(k) <= ends[k] /\ ends[k] <= Len(data)
        BY <1>2
      <4>2. i \in 1 .. (ends[k] - startOf(k)) - 1
        BY <3>1
      <4>3. ASSUME NEW b \in Nat, NEW a \in Nat, NEW L \in Nat, a <= b, b <= L, NEW h \in 1 .. (b - a) - 1
            PROVE  /\ h \in Nat /\ h >= 1 /\ h < b - a /\ a + h \in a + 1 .. b - 1
                   /\ (a + h) - a = h /\ a + h \in Nat /\ a <= a + h /\ a + h <= L
        BY <4>3
      <4>4. PICK b \in Nat : b = ends[k]
        BY <4>1
      <4>5. PICK a \in Nat : a = startOf(k)
        BY <4>1
      <4>6. a <= b /\ b <= Len(data) /\ i \in 1 .. (b - a) - 1
        BY <4>1, <4>2, <4>4, <4>5
      <4>7. /\ i \in Nat /\ i >= 1 /\ i < b - a /\ a + i \in a + 1 .. b - 1
            /\ (a + i) - a = i /\ a + i \in Nat /\ a <= a + i /\ a + i <= Len(data)
        BY <1>0, <4>3, <4>6
      <4> QED
        BY <4>4, <4>5, <4>7
    <3>3. ~ Boundary(mode, SubSeq(data, startOf(k) + 1, startOf(k) + i))
      BY <1>0, <1>n, <3>2 DEF CutsAtBoundaries, NoneBefore
    <3> DEFINE a == SubSeq(data, startOf(k) + 1, startOf(k) + i)
    <3>4. a \in Seq(Bytes) /\ Len(a) = i /\ \A j \in 1 .. i : a[j] = data[startOf(k) + j]
      <4>1. a \in Seq(Bytes) /\ IsPart(a, data, startOf(k), (startOf(k) + i) - startOf(k))
        BY <1>0, <1>2, <3>2, PartAt
      <4> HIDE DEF a
      <4> QED
        BY <3>2, <4>1 DEF IsPart
    <3> HIDE DEF a
    <3>5. SubSeq(cs[k], 1, Len(a)) = a
      <4>1. \A j \in 1 .. i : j \in 1 .. ends[k] - startOf(k)
        BY <1>2, <3>2
      <4>2. \A j \in 1 .. Len(a) : cs[k][j] = a[j]
        BY <1>3, <3>1, <3>4, <4>1
      <4>3. Len(a) <= Len(cs[k])
        BY <1>2, <3>1, <3>2, <3>4
      <4>4. cs[k] \in Seq(Bytes)
        BY <1>3, <3>1
      <4> QED
        BY <3>4, <4>2, <4>3, <4>4, PrefixIs
    <3> QED
      BY <3>3, <3>4, <3>5 DEF a
  <2>3. ASSUME NEW k \in 1 .. n - 1 PROVE Boundary(mode, cs[k])
    <3>1. k \in 1 .. n /\ k < n /\ n \in 1 .. n
      BY <1>n
    <3>2. ends[k] < ends[n]
      BY <1>0, <1>n, <3>1 DEF EndsIncrease
    <3>3. ends[k] # Len(data)
      BY <1>1, <1>2, <3>1, <3>2
    <3> QED
      BY <1>0, <1>4, <1>n, <3>1, <3>3 DEF CutsAtBoundaries
  <2>4. ASSUME cs # << <<>> >>, NEW k \in 1 .. n PROVE Len(cs[k]) # 0
    <3>1. CASE data = <<>> /\ ends = << 0 >>
      <4>1. n = 1 /\ ends[1] = 0 /\ 1 \in 1 .. n
        BY <1>n, <3>1
      <4>2. startOf(1) = 0
        BY DEF startOf
      <4>3. Len(cs[1]) = 0 /\ cs[1] \in Seq(Bytes)
        BY <1>3, <1>4, <4>1, <4>2
      <4>4. cs[1] = <<>>
        BY <4>3
      <4>5. cs = << <<>> >>
        BY <1>4, <4>1, <4>4
      <4> QED
        BY <2>4, <4>5
    <3>2. CASE startOf(k) < ends[k]
      <4>1. Len(cs[k]) = ends[k] - startOf(k)
        BY <1>3, <1>4
      <4> QED
        BY <1>2, <3>2, <4>1
    <3> QED
      BY <1>2, <3>1, <3>2
  <2> QED
    BY <1>4, <2>1, <2>2, <2>3, <2>4 DEF Cutting
<1>9. \A k \in 1 .. n : Len(chunk(k)) <= LargestSize
  BY <1>0, <1>3, <1>n DEF ChunkSizes
<1> QED
  BY <1>7, <1>8, <1>9, <1>c, <1>n

-----------------------------------------------------------------------------
(***************************************************************************)
(* SessionIndex: the records of a file among those of a session.           *)
(***************************************************************************)
\* Where the elements of S lie side by side in s, they are what is left.
LEMMA OnlyRange ==
  ASSUME NEW X, NEW s \in Seq(X), NEW S, NEW a \in Nat, NEW b \in Nat, a <= b, b <= Len(s),
         \A i \in 1 .. Len(s) : s[i] \in S <=> (a < i /\ i <= b)
  PROVE  Only(s, S) \in Seq(X) /\ IsPart(Only(s, S), s, a, b - a)
<1>0. Len(s) \in Nat /\ \A i \in 1 .. Len(s) : s[i] \in X
  BY LenProperties, ElementOfSeq
<1>l. PICK L \in Nat : L = Len(s)
  BY <1>0
<1>1. PICK f : OnlyUpTo(f, s, S) /\ Only(s, S) = f[Len(s)]
  BY <1>0, OnlyDefined
<1>2. /\ f[0] = <<>>
      /\ \A k \in 1 .. L : f[k] = IF s[k] \in S THEN Append(f[k - 1], s[k]) ELSE f[k - 1]
  BY <1>0, <1>1, <1>l, OnlyStep
<1> DEFINE cnt(k) == IF k <= a THEN 0 ELSE IF k <= b THEN k - a ELSE b - a
           Good(k) == f[k] \in Seq(X) /\ IsPart(f[k], s, a, cnt(k))
           P == {k \in 0 .. L : Good(k)}
<1>3. 0 \in P
  <2>1. cnt(0) = 0
    OBVIOUS
  <2>2. Good(0)
    <3>1. <<>> \in Seq(X) /\ Len(<<>>) = 0
      OBVIOUS
    <3> QED
      BY <1>2, <2>1, <3>1 DEF IsPart
  <2> HIDE DEF Good
  <2> QED
    BY <2>2
<1>4. ASSUME NEW k \in 1 .. L, k - 1 \in P
      PROVE  k \in P
  <2>1. Good(k - 1)
    BY <1>4
  <2>2. CASE ~ (a < k /\ k <= b)
    <3>1. f[k] = f[k - 1]
      BY <1>2, <1>l, <2>2
    <3>2. cnt(k) = cnt(k - 1)
      BY <2>2
    <3>3. Good(k)
      BY <2>1, <3>1, <3>2
    <3> HIDE DEF Good
    <3> QED
      BY <3>3
  <2>3. CASE a < k /\ k <= b
    <3>1. f[k] = Append(f[k - 1], s[k]) /\ s[k] \in X
      BY <1>0, <1>2, <1>l, <2>3
    <3>2. cnt(k) = k - a
      BY <2>3
    <3>3. cnt(k - 1) = (k - a) - 1
      BY <2>3
    <3>4. PICK n \in Nat : n = (k - a) - 1
      BY <2>3
    <3>5. f[k - 1] \in Seq(X) /\ Len(f[k - 1]) = n /\ \A j \in 1 .. n : f[k - 1][j] = s[a + j]
      BY <2>1, <3>3, <3>4 DEF IsPart
    <3> DEFINE r == f[k - 1]
               u == Append(r, s[k])
    <3>6. u \in Seq(X) /\ Len(u) = n + 1 /\ u[n + 1] = s[k] /\ \A j \in 1 .. n : u[j] = r[j]
      <4>1. r \in Seq(X) /\ Len(r) = n
        BY <3>5
      <4> HIDE DEF r
      <4> QED
        BY <3>1, <4>1
    <3> HIDE DEF u
    <3>7. a + (n + 1) = k /\ k - a = n + 1
      BY <3>4
    <3>8. \A j \in 1 .. n + 1 : u[j] = s[a + j]
      <4>1. \A j \in 1 .. n + 1 : j = n + 1 \/ j \in 1 .. n
        OBVIOUS
      <4> QED
        BY <3>5, <3>6, <3>7, <4>1
    <3>9. f[k] = u
      BY <3>1 DEF u
    <3>10. Good(k)
      BY <3>2, <3>6, <3>7, <3>8, <3>9 DEF IsPart
    <3> HIDE DEF Good
    <3> QED
      BY <3>10
  <2> QED
    BY <2>2, <2>3
<1>5. L \in P
  <2>1. L \in 0 .. L
    OBVIOUS
  <2>2. 0 \in P /\ \A k \in 1 .. L : k - 1 \in P => k \in P
    BY <1>3, <1>4
  <2> HIDE DEF P
  <2> QED
    BY <2>1, <2>2, UpToInduction
<1>6. cnt(L) = b - a
  BY <1>l
<1> QED
  BY <1>1, <1>5, <1>6, <1>l

\* Of the records of an index there is a last one.
LEMMA RecordOfIndex ==
  ASSUME NEW R, NEW records \in Seq(R), NEW i \in Indices(records)
  PROVE  \E k \in DOMAIN records : records[k].index = i /\ lastRecord(records, i) = records[k]
<1> DEFINE K == {k \in DOMAIN records : records[k].index = i}
<1>1. Len(records) \in Nat /\ DOMAIN records = 1 .. Len(records)
  OBVIOUS
<1>2. K # {} /\ K \in SUBSET (0 .. Len(records))
  BY <1>1 DEF Indices
<1> HIDE DEF K
<1>3. PICK k \in K : \A l \in K : l <= k
  BY <1>1, <1>2, LargestExists
<1>4. \A l \in K : l \in Nat
  BY <1>1, <1>2
<1>5. Max(K) \in K
  <2>1. \A l \in K : k >= l
    BY <1>3, <1>4
  <2>2. \E x \in K : \A y \in K : x >= y
    BY <2>1
  <2> QED
    BY <2>2 DEF Max
<1>6. lastRecord(records, i) = records[Max(K)]
  BY DEF lastRecord, K
<1> QED
  BY <1>5, <1>6 DEF K

\* The records of a complete session, by index, are the chunks the client prepared.
LEMMA ByIndex ==
  ASSUME NEW R, NEW cs \in Seq(R), NEW records \in Seq(R),
         \A k \in 1 .. Len(cs) : cs[k].index = k,
         \A k \in DOMAIN records : records[k] \in Range(cs),
         Buildable(records, Len(cs))
  PROVE  /\ [k \in 1 .. Cardinality(Indices(records)) |-> lastRecord(records, nthIndex(records, k))] = cs
         /\ Range(records) = Range(cs)
<1>n. PICK n \in Nat : n = Len(cs)
  BY LenProperties
<1>0. cs = [k \in 1 .. n |-> cs[k]] /\ DOMAIN cs = 1 .. n
  BY <1>n
<1>1. \A k \in DOMAIN records : \E j \in 1 .. n : records[k] = cs[j]
  BY <1>0 DEF Range
<1>2. Indices(records) = 1 .. n
  <2>1. \A k \in DOMAIN records : records[k].index \in 1 .. n
    BY <1>1, <1>n
  <2> QED
    BY <1>n, <2>1 DEF Indices, Buildable
<1>3. ASSUME NEW i \in 1 .. n
      PROVE  lastRecord(records, i) = cs[i] /\ \E k \in DOMAIN records : records[k] = cs[i]
  <2>1. PICK k \in DOMAIN records : records[k].index = i /\ lastRecord(records, i) = records[k]
    BY <1>2, RecordOfIndex
  <2>2. PICK j \in 1 .. n : records[k] = cs[j]
    BY <1>1
  <2>3. j = i
    BY <1>n, <2>1, <2>2
  <2> QED
    BY <2>1, <2>2, <2>3
<1>4. Cardinality(1 .. n) = n /\ \A i \in 1 .. n : Cardinality(1 .. i) = i
  BY FS_Interval
<1>5. ASSUME NEW k \in 1 .. n PROVE nthIndex(records, k) = k
  <2>1. \A i \in 1 .. n : {j \in 1 .. n : j <= i} = 1 .. i
    OBVIOUS
  <2>2. \A i \in 1 .. n : Cardinality({j \in 1 .. n : j <= i}) = i
    BY <1>4, <2>1
  <2>3. nthIndex(records, k) = CHOOSE i \in 1 .. n : Cardinality({j \in 1 .. n : j <= i}) = k
    BY <1>2 DEF nthIndex
  <2>4. \E i \in 1 .. n : Cardinality({j \in 1 .. n : j <= i}) = k
    BY <2>2
  <2>5. nthIndex(records, k) \in 1 .. n /\ Cardinality({j \in 1 .. n : j <= nthIndex(records, k)}) = k
    BY <2>3, <2>4
  <2> QED
    BY <2>2, <2>5
<1>6. [k \in 1 .. Cardinality(Indices(records)) |-> lastRecord(records, nthIndex(records, k))] = cs
  <2>1. Cardinality(Indices(records)) = n
    BY <1>2, <1>4
  <2>2. \A k \in 1 .. n : lastRecord(records, nthIndex(records, k)) = cs[k]
    BY <1>3, <1>5
  <2> QED
    BY <1>0, <2>1, <2>2
<1>7. Range(records) = Range(cs)
  BY <1>0, <1>1, <1>3 DEF Range
<1> QED
  BY <1>6, <1>7

\* The chunks of a file, each with its number in it, in the order of the numbers.
LEMMA ByNumber ==
  ASSUME NEW X, NEW rs \in Seq(X), \A k \in 1 .. Len(rs) : rs[k].at = k, NEW c \in 1 .. Len(rs)
  PROVE  nthChunk(rs, c) = rs[c]
<1>n. PICK n \in Nat : n = Len(rs) /\ DOMAIN rs = 1 .. n
  BY LenProperties
<1>1. Range(rs) = {rs[k] : k \in 1 .. n}
  BY <1>n DEF Range
<1> DEFINE Below(i) == {t \in Range(rs) : t.at <= i}
<1>2. ASSUME NEW i \in 1 .. n PROVE Cardinality(Below(i)) = i
  <2> DEFINE f == [k \in 1 .. i |-> rs[k]]
  <2>0. \A k \in 1 .. i : k \in 1 .. n
    OBVIOUS
  <2>1. Below(i) = {rs[k] : k \in 1 .. i}
    <3>1. \A k \in 1 .. n : rs[k].at = k
      BY <1>n
    <3>2. \A k \in 1 .. n : k <= i <=> k \in 1 .. i
      OBVIOUS
    <3> QED
      BY <1>1, <2>0, <3>1, <3>2
  <2>2. f \in Bijection(1 .. i, Below(i))
    <3>1. f \in [1 .. i -> Below(i)] /\ \A t \in Below(i) : \E k \in 1 .. i : f[k] = t
      BY <2>1
    <3>2. \A j, k \in 1 .. i : f[j] = f[k] => j = k
      BY <1>n, <2>0
    <3> HIDE DEF f, Below
    <3> QED
      BY <3>1, <3>2 DEF Bijection, Injection, Surjection, IsInjective
  <2> HIDE DEF f, Below
  <2>3. ExistsBijection(1 .. i, Below(i))
    BY <2>2 DEF ExistsBijection
  <2>4. IsFiniteSet(1 .. i) /\ Cardinality(1 .. i) = i
    BY FS_Interval
  <2> QED
    BY <2>3, <2>4, FS_Bijection
<1>3. nthChunk(rs, c) = CHOOSE r \in Range(rs) : Cardinality(Below(r.at)) = c
  BY DEF nthChunk
<1>4. c \in 1 .. n
  BY <1>n
<1>5. \A k \in 1 .. n : rs[k] \in Range(rs) /\ rs[k].at = k
  BY <1>1, <1>n
<1> HIDE DEF Below
<1>6. \E r \in Range(rs) : Cardinality(Below(r.at)) = c
  BY <1>2, <1>4, <1>5
<1>7. nthChunk(rs, c) \in Range(rs) /\ Cardinality(Below(nthChunk(rs, c).at)) = c
  BY <1>3, <1>6
<1>8. PICK k \in 1 .. n : nthChunk(rs, c) = rs[k]
  BY <1>1, <1>7
<1> QED
  BY <1>2, <1>5, <1>7, <1>8

-----------------------------------------------------------------------------
(***************************************************************************)
(* The inductive invariant.                                                *)
(***************************************************************************)
\* What objs has under the hash of bytes is these bytes.
Stored(bytes, objs) == bytes \in DOMAIN objs /\ objs[bytes] = bytes

Kept(fs, objs) == \A k \in 1 .. Len(fs) : \A c \in 1 .. Len(fs[k].chunks) : Stored(fs[k].chunks[c].sha, objs)

hashesOf(f) == [c \in DOMAIN f.chunks |-> f.chunks[c].sha]

\* f is what a manifest has to say of a file with these bytes.
IsFile(f, o, p, bytes) ==
    /\ f \in FileRecords /\ f.path = p /\ f.size = Len(bytes) /\ f.digest = bytes
    /\ \A c \in 1 .. Len(f.chunks) : f.chunks[c] = ref(c, f.chunks[c].sha)
    /\ Cutting(o, hashesOf(f)) /\ FlattenSeq(hashesOf(f)) = bytes

\* fs are the first files of source s.
AreFiles(fs, o, s) ==
    /\ fs \in Seq(FileRecords) /\ Len(fs) <= Len(scanRegularFiles(s))
    /\ \A k \in 1 .. Len(fs) : IsFile(fs[k], o, scanRegularFiles(s)[k], s[scanRegularFiles(s)[k]])

IsManifest(m, v, s) ==
    /\ m \in Manifests /\ m.version = v
    /\ AreFiles(m.files, m.mode, s) /\ Len(m.files) = Len(scanRegularFiles(s))

\* t is what is left of the text of a manifest of s; all of it, and all that it
\* refers to, if the version is sound.
IsVersion(v, t, s, objs, snd) ==
    \E m : /\ IsManifest(m, v, s)
           /\ t \in Seq(Lines) /\ Subtext(t, serialize(m))
           /\ snd => t = serialize(m) /\ Kept(m.files, objs)

VersionsInv == \A v \in 1 .. Len(texts) : IsVersion(v, texts[v], contents[v], objects, v \in sound)

Ops == {"none", "create", "upload", "restore"}

ShapeInv ==
    /\ \A h \in DOMAIN objects : h \in Seq(Bytes) /\ objects[h] \in Seq(Bytes) \cup {Garbled}
    /\ texts \in Seq(Seq(Lines)) /\ contents \in Seq(Sources)
    /\ Len(texts) = Len(contents) /\ Len(texts) <= MaxVersion
    /\ sessions \in [Sources -> Seq(Records)] /\ stale \subseteq Sources
    /\ sound \subseteq 1 .. Len(texts) /\ damages \in 0 .. MaxDamage /\ stops \in 0 .. MaxStops
    /\ op \in Ops /\ version \in 0 .. Len(texts) /\ cutting \in BOOLEAN
    /\ op \in {"create", "upload"} => Len(texts) < MaxVersion

\* The target has nothing that its path did not have in a source.
TargetInv ==
    /\ \A p \in DOMAIN target : \E v \in 1 .. Len(texts) : p \in DOMAIN contents[v] /\ target[p] = contents[v][p]
    /\ op = "none" /\ version # 0 =>
          \A p \in DOMAIN contents[version] : p \in DOMAIN target /\ target[p] = contents[version][p]

IdleInv ==
    op = "none" =>
       todo = <<>> /\ cutting = FALSE /\ refs = <<>> /\ files = <<>> /\ chunks = <<>>

\* What is left to do of the paths s, of which d are done.
LeftOf(t, s, d) == t \in Seq(Range(Paths)) /\ d \in 0 .. Len(s) /\ IsPart(t, s, d, Len(s) - d)

\* The file whose bytes are cut is the next one.
CutNext(cut, bytes, s, d) ==
    cut => d < Len(scanRegularFiles(s)) /\ bytes = s[scanRegularFiles(s)[d + 1]]

CreateInv ==
    op = "create" =>
       /\ source \in Sources /\ version = 0 /\ chunks = <<>>
       /\ LeftOf(todo, scanRegularFiles(source), Len(files)) /\ CutNext(cutting, data, source, Len(files))
       /\ AreFiles(files, mode, source) /\ Kept(files, objects)
       /\ ~ cutting => refs = <<>>
       /\ refs \in Seq(ChunkRefs) /\ Len(refs) <= Len(ends) /\ (refs # <<>> => Chunked)
       /\ \A k \in 1 .. Len(refs) : refs[k] = ref(k, chunk(k)) /\ Stored(chunk(k), objects)

recordFor(i, p, bytes, k, b) ==
    [index |-> i, path |-> p, size |-> Len(bytes), digest |-> bytes, at |-> k, chunk |-> b]

\* rs are the records of the first files of source s: css are the chunks of each,
\* and b says where in rs they end.
AreRecords(rs, s, css, b) ==
    /\ rs \in Seq(Records)
    /\ css \in Seq(Seq(Seq(Bytes))) /\ Len(css) <= Len(scanRegularFiles(s))
    /\ EndsOf(css, b) /\ b[Len(css)] = Len(rs)
    /\ \A j \in 1 .. Len(css) :
          /\ Cutting("fixed", css[j]) /\ FlattenSeq(css[j]) = s[scanRegularFiles(s)[j]]
          /\ \A k \in 1 .. Len(css[j]) :
                rs[b[j - 1] + k] = recordFor(b[j - 1] + k, scanRegularFiles(s)[j], s[scanRegularFiles(s)[j]], k, css[j][k])

UploadAt(css, b) ==
    /\ AreRecords(chunks, source, css, b)
    /\ LeftOf(todo, scanRegularFiles(source), Len(css)) /\ CutNext(cutting, data, source, Len(css))

UploadInv ==
    op = "upload" =>
       /\ source \in Sources /\ version = 0 /\ refs = <<>> /\ files = <<>> /\ mode = "fixed"
       /\ \E css, b : UploadAt(css, b)

\* rs are the records of all files of source s.
AllRecords(rs, s) == \E css, b : AreRecords(rs, s, css, b) /\ Len(css) = Len(scanRegularFiles(s))

\* A session has records of its source only; what they say is stored, if none
\* of them is from before the last damage.
IsSession(ses, s, objs, fresh) ==
    \A k \in 1 .. Len(ses) : /\ \A rs : AllRecords(rs, s) => ses[k] \in Range(rs)
                             /\ fresh => Stored(ses[k].chunk, objs)

SessionsInv == \A s \in Sources : IsSession(sessions[s], s, objects, s \notin stale)

RestoredAt(d) ==
    /\ LeftOf(todo, scanRegularFiles(contents[version]), d)
    /\ \A k \in 1 .. d : LET p == scanRegularFiles(contents[version])[k]
                         IN  /\ FileRestorable(load(version).files[k])
                             /\ p \in DOMAIN target /\ target[p] = contents[version][p]

RestoreInv ==
    op = "restore" =>
       /\ version \in 1 .. Len(texts) /\ load(version) # Invalid
       /\ cutting = FALSE /\ refs = <<>> /\ files = <<>> /\ chunks = <<>>
       /\ \E d \in Nat : RestoredAt(d)

DataInv ==
    /\ CutInv /\ ShapeInv /\ VersionsInv /\ SessionsInv /\ TargetInv
    /\ IdleInv /\ CreateInv /\ UploadInv /\ RestoreInv

-----------------------------------------------------------------------------
(***************************************************************************)
(* The lists that the invariant speaks of.                                 *)
(***************************************************************************)
\* What scanRegularFiles returns: the regular files of the source, each once.
LEMMA ScanIs ==
  ASSUME NEW s \in Sources
  PROVE  /\ scanRegularFiles(s) \in Seq(Range(Paths)) /\ Len(scanRegularFiles(s)) \in Nat
         /\ \A k \in 1 .. Len(scanRegularFiles(s)) :
               /\ scanRegularFiles(s)[k] \in Range(Paths) /\ scanRegularFiles(s)[k] \in DOMAIN s
               /\ s[scanRegularFiles(s)[k]] \in Seq(Bytes)
         /\ \A p \in DOMAIN s : \E k \in 1 .. Len(scanRegularFiles(s)) : scanRegularFiles(s)[k] = p
         /\ \A j, k \in 1 .. Len(scanRegularFiles(s)) :
               scanRegularFiles(s)[j] = scanRegularFiles(s)[k] => j = k
<1>0. /\ Paths \in Seq(Range(Paths)) /\ IsInjective(Paths)
      /\ DOMAIN s \subseteq Range(Paths) /\ Range(s) \subseteq Seq(Bytes)
  BY DataPathAssumption
<1>1. Len(Paths) \in Nat /\ DOMAIN Paths = 1 .. Len(Paths)
  BY <1>0, LenProperties
<1>2. \A i, j \in 1 .. Len(Paths) : Paths[i] = Paths[j] => i = j
  BY <1>0, <1>1 DEF IsInjective
<1> DEFINE t == Only(Paths, DOMAIN s)
<1>3. /\ t \in Seq(Range(Paths))
      /\ \A j \in 1 .. Len(t) : t[j] \in DOMAIN s
      /\ \A i \in 1 .. Len(Paths) : Paths[i] \in DOMAIN s => \E j \in 1 .. Len(t) : t[j] = Paths[i]
  BY <1>0, OnlyElements
<1>4. \A i, j \in 1 .. Len(t) : t[i] = t[j] => i = j
  BY <1>0, <1>2, OnlyElements
<1> HIDE DEF t
<1>5. \A k \in 1 .. Len(t) : t[k] \in Range(Paths) /\ s[t[k]] \in Seq(Bytes)
  BY <1>0, <1>3 DEF Range
<1>6. \A p \in DOMAIN s : \E k \in 1 .. Len(t) : t[k] = p
  BY <1>0, <1>1, <1>3 DEF Range
<1>7. Len(t) \in Nat
  BY <1>3, LenProperties
<1>8. t = scanRegularFiles(s)
  BY DEF t, scanRegularFiles
<1> QED
  BY <1>3, <1>4, <1>5, <1>6, <1>7, <1>8

\* The bytes and the path of a file, and the mode, are all that a manifest's entry depends on.
LEMMA SameFile ==
  ASSUME NEW o, NEW p, NEW bytes, NEW f, NEW g, IsFile(f, o, p, bytes), IsFile(g, o, p, bytes)
  PROVE  f = g
<1>1. hashesOf(f) = hashesOf(g)
  BY SameCutting DEF IsFile
<1>2. f \in FileRecords /\ g \in FileRecords
  BY DEF IsFile
<1>3. f.chunks \in Seq(ChunkRefs) /\ g.chunks \in Seq(ChunkRefs)
  BY <1>2 DEF FileRecords
<1>n. PICK n \in Nat : n = Len(f.chunks) /\ DOMAIN f.chunks = 1 .. n
  BY <1>3, LenProperties
<1>m. PICK N \in Nat : N = Len(g.chunks) /\ DOMAIN g.chunks = 1 .. N
  BY <1>3, LenProperties
<1>4. 1 .. n = 1 .. N /\ \A c \in 1 .. n : f.chunks[c].sha = g.chunks[c].sha
  BY <1>1, <1>m, <1>n DEF hashesOf
<1>5. n = N
  BY <1>4
<1>6. \A c \in 1 .. n : f.chunks[c] = ref(c, f.chunks[c].sha) /\ g.chunks[c] = ref(c, g.chunks[c].sha)
  BY <1>5, <1>m, <1>n DEF IsFile
<1>7. \A c \in 1 .. n : f.chunks[c] = g.chunks[c]
  BY <1>4, <1>6
<1>8. f.chunks = g.chunks
  BY <1>3, <1>5, <1>7, <1>m, <1>n, SeqEqual
<1>9. f = [path |-> f.path, size |-> f.size, digest |-> f.digest, chunks |-> f.chunks]
      /\ g = [path |-> g.path, size |-> g.size, digest |-> g.digest, chunks |-> g.chunks]
  BY <1>2 DEF FileRecords
<1>10. f.path = g.path /\ f.size = g.size /\ f.digest = g.digest
  BY DEF IsFile
<1> QED
  BY <1>8, <1>9, <1>10

\* Two lists of the files of a source, cut in the same mode, are the same.
LEMMA SameFiles ==
  ASSUME NEW o, NEW s, NEW fs, NEW gs, AreFiles(fs, o, s), AreFiles(gs, o, s), Len(fs) = Len(gs)
  PROVE  fs = gs
<1>1. fs \in Seq(FileRecords) /\ gs \in Seq(FileRecords)
  BY DEF AreFiles
<1>2. \A k \in 1 .. Len(fs) : fs[k] = gs[k]
  BY SameFile DEF AreFiles
<1> QED
  BY <1>1, <1>2, SeqEqual

\* A version that is loaded is the manifest of its source; a sound one is loaded.
LEMMA LoadIs ==
  ASSUME NEW v, NEW t, NEW s, NEW objs, NEW snd \in BOOLEAN, IsVersion(v, t, s, objs, snd)
  PROVE  /\ parse(t) # Invalid => IsManifest(parse(t), v, s)
         /\ snd => parse(t) # Invalid /\ Kept(parse(t).files, objs)
<1>1. PICK m : /\ IsManifest(m, v, s)
               /\ t \in Seq(Lines) /\ Subtext(t, serialize(m))
               /\ snd => t = serialize(m) /\ Kept(m.files, objs)
  BY DEF IsVersion
<1>2. m \in Manifests
  BY <1>1 DEF IsManifest
<1>3. parse(t) # Invalid => parse(t) = m
  BY <1>1, <1>2, ParseSubtext
<1>4. parse(serialize(m)) = m /\ m # Invalid
  BY <1>2, ParseSerialize
<1> QED
  BY <1>1, <1>3, <1>4

\* A chunker that starts with a file has cut nothing.
LEMMA FreshChunker ==
  ASSUME NEW m \in Modes, NEW bytes \in Seq(Bytes), ChunkFile(m, bytes)
  PROVE  CutInv'
<1>0. mode' = m /\ data' = bytes /\ pos' = 0 /\ ends' = <<>> /\ DOMAIN ends' = {} /\ start' = 0 /\ Len(ends') = 0
  BY DEF ChunkFile, start
<1>1. Len(bytes) \in Nat /\ MaxSize \in Nat /\ MaxSize > 0
  BY ChunkerAssumption, LenProperties
<1>2. ChunkerTypeOK'
  BY <1>0 DEF ChunkerTypeOK
<1>3. EndsIncrease' /\ BytesCovered' /\ ChunkSizes'
  BY <1>0 DEF EndsIncrease, BytesCovered, ChunkSizes
<1>4. HashAhead'
  BY <1>0, <1>1 DEF HashAhead
<1>5. CutsAtBoundaries' /\ NoneYet'
  BY <1>0 DEF CutsAtBoundaries, NoneYet
<1> QED
  BY <1>2, <1>3, <1>4, <1>5 DEF CutInv, ChunkerInv

\* A file that is cut is not cut on.
LEMMA CutOnce ==
  ASSUME CutInv, Chunked
  PROVE  ~ Cut
<1>0. start \in Nat /\ Len(data) \in Nat /\ pos \in Nat
  BY StartIsEnd DEF CutInv, ChunkerInv, ChunkerTypeOK
<1>1. mode = "cdc" => start <= pos
  BY DEF CutInv, ChunkerInv, HashAhead
<1>2. ends # <<>> /\ start = Len(data)
  BY DEF Chunked
<1> QED
  BY <1>0, <1>1, <1>2 DEF Cut, CutEmpty, CutFixed, NextByte, CutTail

\* Bytes that are stored stay stored when an object is put that is new, or good.
LEMMA PutKeeps ==
  ASSUME NEW bytes, Puts(bytes), putCompressed(bytes)
  PROVE  /\ Stored(bytes, objects')
         /\ \A h : Stored(h, objects) => Stored(h, objects')
         /\ DOMAIN objects' = DOMAIN objects \cup {bytes}
         /\ \A h \in DOMAIN objects' : objects'[h] = IF h = bytes THEN bytes ELSE objects[h]
<1>1. CASE bytes \in DOMAIN objects
  <2>1. objects' = objects /\ objects[bytes] = bytes
    BY <1>1 DEF putCompressed, Puts, Readable, ref
  <2> QED
    BY <1>1, <2>1 DEF Stored
<1>2. CASE bytes \notin DOMAIN objects
  <2>1. objects' = With(objects, bytes, bytes)
    BY <1>2 DEF putCompressed
  <2> QED
    BY <1>2, <2>1 DEF With, Stored
<1> QED
  BY <1>1, <1>2

\* What refers only to bytes that stay stored is kept.
LEMMA StaysKept ==
  ASSUME NEW fs, NEW o1, NEW o2, Kept(fs, o1), \A h : Stored(h, o1) => Stored(h, o2)
  PROVE  Kept(fs, o2)
  BY DEF Kept

\* A version stays what it is when an object is put.
LEMMA StaysVersion ==
  ASSUME NEW v, NEW t, NEW s, NEW o1, NEW o2, NEW snd \in BOOLEAN,
         IsVersion(v, t, s, o1, snd), \A h : Stored(h, o1) => Stored(h, o2)
  PROVE  IsVersion(v, t, s, o2, snd)
  BY StaysKept DEF IsVersion

\* The same for all versions.
LEMMA StaysVersions ==
  ASSUME VersionsInv, \A h : Stored(h, objects) => Stored(h, objects'), UNCHANGED <<texts, contents, sound>>
  PROVE  VersionsInv'
<1> SUFFICES ASSUME NEW v \in 1 .. Len(texts)
             PROVE  IsVersion(v, texts[v], contents[v], objects', v \in sound)
  BY DEF VersionsInv
<1>1. IsVersion(v, texts[v], contents[v], objects, v \in sound) /\ (v \in sound) \in BOOLEAN
  BY DEF VersionsInv
<1> QED
  BY <1>1, StaysVersion

\* A step that leaves the stored state leaves the versions.
LEMMA SameVersions ==
  ASSUME VersionsInv, UNCHANGED <<objects, texts, contents, sound>>
  PROVE  VersionsInv'
  BY DEF VersionsInv

\* The sessions stay what they are when an object is put.
LEMMA StaysSessions ==
  ASSUME SessionsInv, \A h : Stored(h, objects) => Stored(h, objects'), UNCHANGED <<sessions, stale>>
  PROVE  SessionsInv'
<1> SUFFICES ASSUME NEW s \in Sources
             PROVE  IsSession(sessions[s], s, objects', s \notin stale)
  BY DEF SessionsInv
<1>1. IsSession(sessions[s], s, objects, s \notin stale)
  BY DEF SessionsInv
<1> QED
  BY <1>1 DEF IsSession

\* A step that leaves the objects and the sessions alone.
LEMMA SameSessions ==
  ASSUME SessionsInv, UNCHANGED <<objects, sessions, stale>>
  PROVE  SessionsInv'
  BY DEF SessionsInv

\* A target that is left alone, while no version is reported as restored.
LEMMA SameTarget ==
  ASSUME TargetInv, UNCHANGED <<target, texts, contents>>,
         op' # "none" \/ version' = 0 \/ (op = "none" /\ version' = version)
  PROVE  TargetInv'
  BY DEF TargetInv

\* A command that has ended leaves nothing.
LEMMA IdleKeeps ==
  ASSUME Idle
  PROVE  /\ CutInv' /\ IdleInv' /\ CreateInv' /\ UploadInv' /\ RestoreInv'
         /\ op' = "none" /\ cutting' = FALSE
<1>1. op' = "none" /\ cutting' = FALSE /\ ChunkFile("fixed", <<>>)
  BY DEF Idle
<1>2. CutInv'
  <2>1. "fixed" \in Modes /\ <<>> \in Seq(Bytes)
    BY DEF Modes
  <2> QED
    BY <1>1, <2>1, FreshChunker
<1>3. IdleInv'
  BY DEF Idle, IdleInv
<1>4. CreateInv' /\ UploadInv' /\ RestoreInv'
  BY <1>1 DEF CreateInv, UploadInv, RestoreInv
<1> QED
  BY <1>1, <1>2, <1>3, <1>4

-----------------------------------------------------------------------------
(***************************************************************************)
(* One lemma per action: what it leaves of the invariant.                  *)
(***************************************************************************)
\* The initial state: an empty repository and no command.
LEMMA InitData == Init => DataInv
<1> SUFFICES ASSUME Init PROVE DataInv
  OBVIOUS
<1>1. CutInv
  <2>1. ChunkerInit
    BY DEF Init, ChunkerInit, Modes
  <2>2. ChunkerInv
    BY <2>1, InitInv
  <2>3. CutsAtBoundaries /\ NoneYet
    BY DEF Init, CutsAtBoundaries, NoneYet
  <2> QED
    BY <2>2, <2>3 DEF CutInv
<1>2. ShapeInv
  <2>1. <<>> \in Seq(Seq(Lines)) /\ <<>> \in Seq(Sources) /\ Len(<<>>) = 0 /\ DOMAIN <<>> = {}
    OBVIOUS
  <2>2. MaxVersion \in Nat /\ MaxDamage \in Nat /\ MaxStops \in Nat
    BY DataPathAssumption
  <2>3. objects = <<>> /\ texts = <<>> /\ contents = <<>> /\ sound = {} /\ damages = 0 /\ version = 0 /\ op = "none"
        /\ stops = 0 /\ stale = {} /\ sessions = [s \in Sources |-> <<>>]
    BY DEF Init
  <2>4. cutting \in BOOLEAN
    BY DEF Init
  <2>5. /\ \A h \in DOMAIN objects : h \in Seq(Bytes) /\ objects[h] \in Seq(Bytes) \cup {Garbled}
        /\ texts \in Seq(Seq(Lines)) /\ contents \in Seq(Sources)
        /\ sessions \in [Sources -> Seq(Records)] /\ stale \subseteq Sources
    BY <2>1, <2>3
  <2>6. /\ Len(texts) = Len(contents) /\ Len(texts) <= MaxVersion
        /\ sound \subseteq 1 .. Len(texts) /\ damages \in 0 .. MaxDamage /\ stops \in 0 .. MaxStops
        /\ op \in Ops /\ version \in 0 .. Len(texts)
        /\ op \notin {"create", "upload"}
    BY <2>2, <2>3 DEF Ops
  <2> QED
    BY <2>4, <2>5, <2>6 DEF ShapeInv
<1>3. VersionsInv /\ TargetInv
  BY DEF Init, VersionsInv, TargetInv
<1>s. SessionsInv
  <2> SUFFICES ASSUME NEW s \in Sources PROVE IsSession(sessions[s], s, objects, s \notin stale)
    BY DEF SessionsInv
  <2>1. sessions[s] = <<>> /\ Len(<<>>) = 0
    BY DEF Init
  <2> QED
    BY <2>1 DEF IsSession
<1>4. IdleInv /\ CreateInv /\ UploadInv /\ RestoreInv
  BY DEF Init, IdleInv, CreateInv, UploadInv, RestoreInv
<1> QED
  BY <1>1, <1>2, <1>3, <1>s, <1>4 DEF DataInv

\* Of the paths of a source nothing is done at first.
LEMMA NothingDone ==
  ASSUME NEW s \in Sources, NEW o
  PROVE  /\ LeftOf(scanRegularFiles(s), scanRegularFiles(s), 0)
         /\ AreFiles(<<>>, o, s) /\ \A objs : Kept(<<>>, objs)
         /\ \E b : AreRecords(<<>>, s, <<>>, b)
<1>0. scanRegularFiles(s) \in Seq(Range(Paths)) /\ Len(scanRegularFiles(s)) \in Nat
  BY ScanIs
<1> DEFINE t == scanRegularFiles(s)
<1> HIDE DEF t
<1>1. LeftOf(t, t, 0)
  <2>1. Len(t) - 0 = Len(t) /\ \A j \in 1 .. Len(t) : 0 + j = j
    BY <1>0 DEF t
  <2> QED
    BY <1>0, <2>1 DEF LeftOf, IsPart, t
<1>e. Len(<<>>) = 0 /\ 1 .. 0 = {}
  OBVIOUS
<1>2. AreFiles(<<>>, o, s) /\ \A objs : Kept(<<>>, objs)
  BY <1>0, <1>e DEF AreFiles, Kept
<1>3. AreRecords(<<>>, s, <<>>, [k \in 0 .. 0 |-> 0])
  <2>1. EndsOf(<<>>, [k \in 0 .. 0 |-> 0])
    BY <1>e DEF EndsOf
  <2> QED
    BY <1>0, <1>e, <2>1 DEF AreRecords
<1> QED
  BY <1>1, <1>2, <1>3 DEF t

\* create and upload begin with a scan of the source.
LEMMA BeginData ==
  ASSUME DataInv, NEW o \in {"create", "upload"}, NEW m \in Modes, Begin(o, m), o = "upload" => m = "fixed"
  PROVE  DataInv'
<1>0. /\ op = "none" /\ op' = o /\ version' = 0 /\ ChunkFile(m, <<>>) /\ mode' = m
      /\ UNCHANGED <<objects, texts, contents, damages, stops, sound, stale, target, cutting, refs, files, chunks, sessions>>
      /\ Len(texts) < MaxVersion
  BY DEF Begin, stored, histories, ChunkFile
<1>1. PICK s \in Sources : source' = s /\ todo' = scanRegularFiles(s)
  BY DEF Begin
<1>2. CutInv' /\ Len(ends') = 0
  <2>1. <<>> \in Seq(Bytes) /\ Len(<<>>) = 0
    OBVIOUS
  <2>2. ends' = <<>>
    BY <1>0 DEF ChunkFile
  <2> QED
    BY <1>0, <2>1, <2>2, FreshChunker
<1>i. cutting = FALSE /\ refs = <<>> /\ files = <<>> /\ chunks = <<>>
  BY <1>0 DEF DataInv, IdleInv
<1>3. ShapeInv'
  BY <1>0 DEF DataInv, ShapeInv, Ops
<1>4. VersionsInv' /\ SessionsInv' /\ TargetInv'
  BY <1>0, SameVersions, SameSessions, SameTarget DEF DataInv
<1>5. IdleInv' /\ RestoreInv'
  BY <1>0 DEF IdleInv, RestoreInv
<1>n. Len(<<>>) = 0 /\ 1 .. 0 = {}
  OBVIOUS
<1>6. CreateInv'
  <2>1. /\ LeftOf(todo', scanRegularFiles(source'), 0)
        /\ AreFiles(<<>>, mode', source') /\ Kept(<<>>, objects')
    BY <1>1, NothingDone
  <2>2. CutNext(cutting', data', source', Len(files'))
    BY <1>0, <1>i DEF CutNext
  <2>3. refs' \in Seq(ChunkRefs)
    BY <1>0, <1>i
  <2> QED
    BY <1>0, <1>1, <1>2, <1>i, <1>n, <2>1, <2>2, <2>3 DEF CreateInv
<1>7. UploadInv'
  <2>1. PICK b : AreRecords(<<>>, source', <<>>, b)
    BY <1>1, NothingDone
  <2>2. LeftOf(todo', scanRegularFiles(source'), 0)
    BY <1>1, NothingDone
  <2>3. UploadAt(<<>>, b)'
    BY <1>0, <1>i, <1>n, <2>1, <2>2 DEF UploadAt, CutNext
  <2> QED
    BY <1>0, <1>1, <1>i, <2>3 DEF UploadInv
<1> QED
  BY <1>2, <1>3, <1>4, <1>5, <1>6, <1>7 DEF DataInv

\* The next of the paths that are left.
LEMMA LeftStep ==
  ASSUME NEW s \in Seq(Range(Paths)), NEW d, NEW t, LeftOf(t, s, d), t # <<>>
  PROVE  /\ d \in Nat /\ d < Len(s) /\ Head(t) = s[d + 1]
         /\ LeftOf(Tail(t), s, d + 1)
<1>0. Len(s) \in Nat
  BY LenProperties
<1>l. PICK L \in Nat : L = Len(s)
  BY <1>0
<1>1. t \in Seq(Range(Paths)) /\ d \in 0 .. L /\ Len(t) = L - d /\ \A j \in 1 .. L - d : t[j] = s[d + j]
  BY <1>l DEF LeftOf, IsPart
<1>2. d \in Nat /\ d < L
  <2>1. Len(t) # 0
    BY <1>1, EmptySeq
  <2> QED
    BY <1>1, <2>1
<1>3. Head(t) = t[1] /\ Tail(t) \in Seq(Range(Paths)) /\ Len(Tail(t)) = Len(t) - 1
      /\ \A j \in 1 .. Len(t) - 1 : Tail(t)[j] = t[j + 1]
  BY <1>1, HeadTailProperties
<1>4. t[1] = s[d + 1]
  BY <1>1, <1>2
<1>5. PICK n \in Nat : n = L - (d + 1)
  BY <1>2
<1>6. Len(t) = n + 1 /\ Len(t) - 1 = n /\ L - d = n + 1
  BY <1>1, <1>2, <1>5
<1> DEFINE u == Tail(t)
<1>7. u \in Seq(Range(Paths)) /\ Len(u) = n /\ \A j \in 1 .. n : u[j] = t[j + 1]
  BY <1>3, <1>6
<1> HIDE DEF u
<1>8. \A j \in 1 .. n : u[j] = s[(d + 1) + j]
  <2> SUFFICES ASSUME NEW j \in 1 .. n PROVE u[j] = s[(d + 1) + j]
    OBVIOUS
  <2>1. j + 1 \in 1 .. L - d /\ d + (j + 1) = (d + 1) + j
    BY <1>2, <1>6
  <2> QED
    BY <1>1, <1>7, <2>1
<1>9. LeftOf(u, s, d + 1)
  <2>1. d + 1 \in 0 .. L
    BY <1>2
  <2> QED
    BY <1>5, <1>7, <1>8, <1>l, <2>1 DEF LeftOf, IsPart
<1> QED
  BY <1>2, <1>3, <1>4, <1>9, <1>l DEF u

\* A command that has no path left has done all of them.
LEMMA NothingLeft ==
  ASSUME NEW s, Len(s) \in Nat, NEW d, LeftOf(<<>>, s, d)
  PROVE  d = Len(s)
  BY DEF LeftOf, IsPart

\* Where a command is when it cuts a file.
LEMMA CuttingOp ==
  ASSUME DataInv, cutting
  PROVE  op \in {"create", "upload"}
<1>1. op \in {"none", "create", "upload", "restore"}
  BY DEF DataInv, ShapeInv, Ops
<1>2. op # "none" /\ op # "restore"
  BY DEF DataInv, IdleInv, RestoreInv
<1> QED
  BY <1>1, <1>2

\* The next file is read and its chunker begins.
LEMMA NextFileData ==
  ASSUME DataInv, NextFile
  PROVE  DataInv'
<1>0. /\ op \in {"create", "upload"} /\ cutting = FALSE /\ todo # <<>> /\ cutting' = TRUE
      /\ ChunkFile(mode, source[Head(todo)])
      /\ UNCHANGED <<objects, texts, contents, damages, stops, sound, stale, target, op, version, source, todo, refs, files, chunks, sessions>>
  BY DEF NextFile, stored, histories, DataInv, ShapeInv
<1>1. source \in Sources /\ mode \in Modes
  BY <1>0 DEF DataInv, CreateInv, UploadInv, CutInv, ChunkerInv, ChunkerTypeOK
<1> DEFINE s == scanRegularFiles(source)
<1>2. s \in Seq(Range(Paths)) /\ \A k \in 1 .. Len(s) : source[s[k]] \in Seq(Bytes)
  BY <1>1, ScanIs
<1> HIDE DEF s
<1>3. ASSUME NEW d, LeftOf(todo, s, d)
      PROVE  /\ CutInv' /\ CutNext(TRUE, data', source, d) /\ Len(ends') = 0 /\ mode' = mode
  <2>1. d \in Nat /\ d < Len(s) /\ Head(todo) = s[d + 1]
    BY <1>0, <1>2, <1>3, LeftStep
  <2>2. d + 1 \in 1 .. Len(s)
    <3>1. Len(s) \in Nat
      BY <1>2, LenProperties
    <3> QED
      BY <2>1, <3>1
  <2>3. source[Head(todo)] \in Seq(Bytes)
    BY <1>2, <2>1, <2>2
  <2>4. mode' = mode /\ data' = source[s[d + 1]] /\ ends' = <<>>
    BY <1>0, <2>1 DEF ChunkFile
  <2>5. CutInv'
    BY <1>0, <1>1, <2>3, FreshChunker
  <2>6. CutNext(TRUE, data', source, d)
    BY <1>0, <2>1, <2>4 DEF CutNext, s
  <2>7. Len(<<>>) = 0
    OBVIOUS
  <2> QED
    BY <2>4, <2>5, <2>6, <2>7
<1>4. ShapeInv'
  BY <1>0 DEF DataInv, ShapeInv
<1>5. VersionsInv' /\ SessionsInv' /\ TargetInv'
  BY <1>0, SameVersions, SameSessions, SameTarget DEF DataInv
<1>6. IdleInv' /\ RestoreInv'
  BY <1>0 DEF IdleInv, RestoreInv
<1>7. CASE op = "create"
  <2>1. CreateInv
    BY DEF DataInv
  <2>2. CutInv' /\ CutNext(TRUE, data', source, Len(files)) /\ Len(ends') = 0 /\ mode' = mode
    BY <1>3, <1>7, <2>1 DEF CreateInv, s
  <2>3. refs = <<>> /\ Len(<<>>) = 0 /\ 1 .. 0 = {}
    BY <1>0, <1>7, <2>1 DEF CreateInv
  <2>4. CutNext(cutting', data', source', Len(files'))
    BY <1>0, <2>2
  <2>5. CreateInv'
    BY <1>0, <1>7, <2>1, <2>2, <2>3, <2>4 DEF CreateInv
  <2>6. UploadInv'
    BY <1>0, <1>7 DEF UploadInv
  <2> QED
    BY <1>4, <1>5, <1>6, <2>2, <2>5, <2>6 DEF DataInv
<1>8. CASE op = "upload"
  <2>1. UploadInv
    BY DEF DataInv
  <2>2. PICK css, b : UploadAt(css, b)
    BY <1>8, <2>1 DEF UploadInv
  <2>3. CutInv' /\ CutNext(TRUE, data', source, Len(css)) /\ Len(ends') = 0 /\ mode' = mode
    BY <1>3, <2>2 DEF UploadAt, s
  <2>4. UploadAt(css, b)'
    BY <1>0, <2>2, <2>3 DEF UploadAt
  <2>5. UploadInv'
    BY <1>0, <1>8, <2>1, <2>3, <2>4 DEF UploadInv
  <2>6. CreateInv'
    BY <1>0, <1>8 DEF CreateInv
  <2> QED
    BY <1>4, <1>5, <1>6, <2>3, <2>5, <2>6 DEF DataInv
<1> QED
  BY <1>0, <1>7, <1>8

\* What depends on nothing but the chunker's file and mode, the command and what is stored.
LEMMA CutFileData ==
  ASSUME DataInv, CutFile
  PROVE  DataInv'
<1>0. /\ cutting /\ Cut /\ mode' = mode /\ data' = data
      /\ UNCHANGED <<objects, texts, contents, damages, stops, sound, stale, target, op, version, source, todo, cutting,
                     refs, files, chunks, sessions>>
  BY DEF CutFile, stored, histories, command, Cut, CutEmpty, CutFixed, NextByte, CutTail
<1>1. op \in {"create", "upload"}
  BY <1>0, CuttingOp
<1>2. CutInv' /\ ~ Chunked
  BY <1>0, CutStep, CutOnce DEF DataInv
<1>3. ShapeInv'
  BY <1>0 DEF DataInv, ShapeInv
<1>4. VersionsInv' /\ SessionsInv' /\ TargetInv'
  BY <1>0, <1>1, SameVersions, SameSessions, SameTarget DEF DataInv
<1>5. IdleInv' /\ RestoreInv'
  BY <1>0, <1>1 DEF IdleInv, RestoreInv
<1>6. CreateInv'
  <2> SUFFICES ASSUME op = "create" PROVE CreateInv'
    BY <1>0 DEF CreateInv
  <2>1. CreateInv
    BY DEF DataInv
  <2>2. refs = <<>> /\ Len(<<>>) = 0 /\ 1 .. 0 = {}
    BY <1>2, <2>1 DEF CreateInv
  <2>3. Len(ends') \in Nat
    BY <1>2 DEF CutInv, ChunkerInv, ChunkerTypeOK
  <2>4. CutNext(cutting', data', source', Len(files'))
    BY <1>0, <2>1 DEF CreateInv, CutNext
  <2>5. 0 <= Len(ends')
    BY <2>3
  <2> QED
    BY <1>0, <2>1, <2>2, <2>4, <2>5 DEF CreateInv
<1>7. UploadInv'
  <2> SUFFICES ASSUME op = "upload" PROVE UploadInv'
    BY <1>0 DEF UploadInv
  <2>1. UploadInv
    BY DEF DataInv
  <2>2. PICK css, b : UploadAt(css, b)
    BY <2>1 DEF UploadInv
  <2>3. UploadAt(css, b)'
    BY <1>0, <2>2 DEF UploadAt, CutNext
  <2> QED
    BY <1>0, <2>1, <2>3 DEF UploadInv
<1> QED
  BY <1>2, <1>3, <1>4, <1>5, <1>6, <1>7 DEF DataInv

\* A step that fails on a bad object ends the command and leaves what is stored.
LEMMA GiveUp ==
  ASSUME DataInv, Idle, UNCHANGED <<objects, texts, contents, damages, stops, sound, stale, sessions, target>>,
         version' = 0 \/ (version' = version /\ version = 0)
  PROVE  DataInv'
<1>1. /\ CutInv' /\ IdleInv' /\ CreateInv' /\ UploadInv' /\ RestoreInv'
      /\ op' = "none" /\ cutting' = FALSE
  BY IdleKeeps
<1>2. Len(texts) \in Nat
  BY DEF DataInv, ShapeInv
<1>3. version' = 0 /\ version' \in 0 .. Len(texts)
  BY <1>2
<1>4. ShapeInv'
  BY <1>1, <1>3 DEF DataInv, ShapeInv, Ops
<1>5. VersionsInv' /\ SessionsInv' /\ TargetInv'
  BY <1>3, SameVersions, SameSessions, SameTarget DEF DataInv
<1> QED
  BY <1>1, <1>4, <1>5 DEF DataInv

\* An object is put: what is stored stays as it must be.
LEMMA PutShape ==
  ASSUME ShapeInv, NEW bytes \in Seq(Bytes), Puts(bytes), putCompressed(bytes),
         sessions' \in [Sources -> Seq(Records)],
         UNCHANGED <<texts, contents, damages, stops, sound, stale, op, version, cutting>>
  PROVE  ShapeInv'
<1>1. \A h \in DOMAIN objects' : h \in Seq(Bytes) /\ objects'[h] \in Seq(Bytes) \cup {Garbled}
  <2> SUFFICES ASSUME NEW h \in DOMAIN objects'
               PROVE  h \in Seq(Bytes) /\ objects'[h] \in Seq(Bytes) \cup {Garbled}
    OBVIOUS
  <2>1. (h \in DOMAIN objects \/ h = bytes) /\ objects'[h] = IF h = bytes THEN bytes ELSE objects[h]
    BY PutKeeps
  <2> QED
    BY <2>1 DEF ShapeInv
<1> QED
  BY <1>1 DEF ShapeInv

\* The chunks depend on the bytes and on the ends only.
LEMMA SameChunks ==
  ASSUME UNCHANGED chunkerVars
  PROVE  /\ \A k : chunk(k)' = chunk(k) 
         /\ start' = start /\ Chunked' = Chunked /\ ends' = ends /\ data' = data /\ mode' = mode
  BY DEF chunkerVars, chunk, startOf, start, Chunked

\* The chunker stands still while a chunk is put.
LEMMA SameCuts ==
  ASSUME CutInv, UNCHANGED chunkerVars
  PROVE  CutInv'
  BY CutStep

\* What a chunk reference says.
LEMMA RefIs ==
  ASSUME NEW k, NEW bytes
  PROVE  ref(k, bytes).sha = bytes /\ ref(k, bytes).object = bytes /\ ref(k, bytes).size = Len(bytes)
         /\ ref(k, bytes).index = k
  BY DEF ref

\* A chunk is put, or found in the store, and its reference noted; a bad object ends the command.
LEMMA PutChunkData ==
  ASSUME DataInv, PutChunk
  PROVE  DataInv'
<1>0. op = "create" /\ cutting /\ Chunked /\ Len(refs) < Len(ends) /\ UNCHANGED <<texts, contents, damages, stops, sound, stale, sessions, target>>
  BY DEF PutChunk, histories
<1>1. CreateInv
  BY DEF DataInv
<1>a. refs \in Seq(ChunkRefs) /\ version = 0
  BY <1>0, <1>1 DEF CreateInv
<1>b. PICK n \in Nat : n = Len(refs)
  BY <1>a, LenProperties
<1>c. PICK N \in Nat : N = Len(ends)
  BY LenProperties DEF DataInv, CutInv, ChunkerInv, ChunkerTypeOK
<1>d. n + 1 \in 1 .. N
  BY <1>0, <1>b, <1>c
<1> DEFINE bytes == chunk(n + 1)
<1>2. bytes \in Seq(Bytes)
  <2>1. Cutting(mode, theChunks)
    BY <1>0, ChunksOfFile DEF DataInv
  <2>2. theChunks \in Seq(Seq(Bytes))
    BY <2>1 DEF Cutting
  <2>3. Len(theChunks) = N /\ theChunks[n + 1] = chunk(n + 1)
    BY <1>c, <1>d DEF theChunks
  <2> QED
    BY <1>d, <2>2, <2>3, ElementOfSeq
<1>3. CASE Puts(bytes)
  <2>0. /\ putCompressed(bytes) /\ refs' = Append(refs, ref(n + 1, bytes))
        /\ UNCHANGED <<chunkerVars, op, version, source, todo, cutting, files, chunks>>
    BY <1>3, <1>b DEF PutChunk
  <2> HIDE DEF bytes
  <2>1. CutInv'
    BY <2>0, SameCuts DEF DataInv
  <2>2. ShapeInv'
    <3>1. ShapeInv /\ sessions' \in [Sources -> Seq(Records)]
      BY <1>0 DEF DataInv, ShapeInv
    <3> QED
      BY <1>0, <1>2, <1>3, <2>0, <3>1, PutShape
  <2>3. /\ Stored(bytes, objects') /\ \A h : Stored(h, objects) => Stored(h, objects')
    BY <1>3, <2>0, PutKeeps
  <2>4. VersionsInv' /\ SessionsInv' /\ TargetInv'
    BY <1>0, <2>0, <2>3, StaysVersions, StaysSessions, SameTarget DEF DataInv
  <2>5. IdleInv' /\ RestoreInv' /\ UploadInv'
    BY <1>0, <2>0 DEF IdleInv, RestoreInv, UploadInv
  <2>6. \A k : chunk(k)' = chunk(k)
    BY <2>0, SameChunks
  <2>7. Chunked' /\ ends' = ends /\ data' = data /\ mode' = mode
    BY <1>0, <2>0, SameChunks
  <2>8. ref(n + 1, bytes) \in ChunkRefs
    <3>1. Len(bytes) \in Nat
      BY <1>2, LenProperties
    <3> QED
      BY <1>2, <3>1 DEF ref, ChunkRefs
  <2>9. /\ refs' \in Seq(ChunkRefs) /\ Len(refs') = n + 1 /\ refs'[n + 1] = ref(n + 1, bytes)
        /\ \A k \in 1 .. n : refs'[k] = refs[k]
    <3> DEFINE r == ref(n + 1, bytes)
    <3>1. r \in ChunkRefs /\ refs' = Append(refs, r)
      BY <2>0, <2>8
    <3> HIDE DEF r
    <3>2. refs' \in Seq(ChunkRefs) /\ Len(refs') = n + 1 /\ refs'[n + 1] = r /\ \A k \in 1 .. n : refs'[k] = refs[k]
      BY <1>a, <1>b, <3>1, AppendProperties
    <3> QED
      BY <3>2 DEF r
  <2>10. \A k \in 1 .. n + 1 : refs'[k] = ref(k, chunk(k)') /\ Stored(chunk(k)', objects')
    <3> SUFFICES ASSUME NEW k \in 1 .. n + 1 PROVE refs'[k] = ref(k, chunk(k)) /\ Stored(chunk(k), objects')
      BY <2>6
    <3>1. CASE k = n + 1
      BY <2>3, <2>9, <3>1 DEF bytes
    <3>2. CASE k # n + 1
      <4>1. k \in 1 .. n
        BY <3>2
      <4> QED
        BY <1>0, <1>1, <1>b, <2>3, <2>9, <4>1 DEF CreateInv
    <3> QED
      BY <3>1, <3>2
  <2>11. Kept(files', objects')
    BY <1>0, <1>1, <2>0, <2>3, StaysKept DEF CreateInv
  <2>12. Len(refs') <= Len(ends')
    BY <1>c, <1>d, <2>7, <2>9
  <2>13. \A k \in 1 .. Len(refs') : refs'[k] = ref(k, chunk(k)') /\ Stored(chunk(k)', objects')
    BY <2>9, <2>10
  <2>14. CreateInv'
    BY <1>0, <1>1, <2>0, <2>7, <2>9, <2>11, <2>12, <2>13 DEF CreateInv
  <2> QED
    BY <2>1, <2>2, <2>4, <2>5, <2>14 DEF DataInv
<1>4. CASE ~ Puts(bytes)
  <2>1. Idle /\ UNCHANGED <<objects, version>>
    BY <1>4, <1>b DEF PutChunk
  <2> QED
    BY <1>0, <1>a, <2>1, GiveUp
<1> QED
  BY <1>3, <1>4

\* The record of a file whose chunks are all stored is added to the manifest.
LEMMA EndFileData ==
  ASSUME DataInv, EndFile
  PROVE  DataInv'
<1>0. /\ op = "create" /\ cutting /\ Chunked /\ Len(refs) = Len(ends)
      /\ cutting' = FALSE /\ refs' = <<>> /\ todo' = Tail(todo)
      /\ UNCHANGED <<chunkerVars, objects, texts, contents, damages, stops, sound, stale, target, op, version, source, chunks, sessions>>
  BY DEF EndFile, stored, histories
<1>1. CreateInv
  BY DEF DataInv
<1>a. /\ refs \in Seq(ChunkRefs) /\ version = 0 /\ source \in Sources /\ files \in Seq(FileRecords)
      /\ CutNext(cutting, data, source, Len(files)) /\ LeftOf(todo, scanRegularFiles(source), Len(files))
      /\ AreFiles(files, mode, source) /\ Kept(files, objects)
      /\ \A k \in 1 .. Len(refs) : refs[k] = ref(k, chunk(k)) /\ Stored(chunk(k), objects)
  BY <1>0, <1>1 DEF CreateInv, AreFiles
<1>b. PICK n \in Nat : n = Len(files)
  BY <1>a, LenProperties
<1> DEFINE s == scanRegularFiles(source)
<1>2. s \in Seq(Range(Paths)) /\ Len(s) \in Nat /\ \A k \in 1 .. Len(s) : s[k] \in Range(Paths)
  BY <1>a, ScanIs
<1>3. n < Len(s) /\ data = source[s[n + 1]] /\ LeftOf(todo, s, n)
  BY <1>0, <1>a, <1>b DEF CutNext
<1> HIDE DEF s
<1>4. todo # <<>>
  BY <1>2, <1>3, NothingLeft
<1>5. Head(todo) = s[n + 1] /\ LeftOf(Tail(todo), s, n + 1)
  BY <1>2, <1>3, <1>4, LeftStep
<1>r. PICK N \in Nat : N = Len(refs) /\ DOMAIN refs = 1 .. N
  BY <1>a, LenProperties
<1> DEFINE f == [path |-> s[n + 1], size |-> Len(data), digest |-> bytesOf([chunks |-> refs]), chunks |-> refs]
<1>6. files' = Append(files, f)
  BY <1>5 DEF EndFile
<1>7. hashesOf(f) = theChunks /\ bytesOf([chunks |-> refs]) = FlattenSeq(theChunks)
  <2>1. \A k \in 1 .. N : refs[k].sha = chunk(k)
    BY <1>a, <1>r, RefIs
  <2>2. [k \in DOMAIN refs |-> refs[k].sha] = theChunks
    BY <1>0, <1>r, <2>1 DEF theChunks
  <2> QED
    BY <2>2 DEF hashesOf, bytesOf
<1>8. Cutting(mode, theChunks) /\ FlattenSeq(theChunks) = data /\ data \in Seq(Bytes)
  BY <1>0, ChunksOfFile DEF DataInv, CutInv, ChunkerInv, ChunkerTypeOK
<1>9. IsFile(f, mode, s[n + 1], source[s[n + 1]])
  <2>1. f.path = s[n + 1] /\ f.size = Len(data) /\ f.digest = data /\ f.chunks = refs
    BY <1>7, <1>8
  <2>2. s[n + 1] \in Range(Paths) /\ Len(data) \in Nat
    BY <1>2, <1>3, <1>8, LenProperties
  <2>3. f \in FileRecords
    BY <1>7, <1>8, <1>a, <2>2 DEF FileRecords
  <2>4. \A c \in 1 .. Len(refs) : refs[c] = ref(c, refs[c].sha)
    BY <1>a, RefIs
  <2>5. Cutting(mode, hashesOf(f)) /\ FlattenSeq(hashesOf(f)) = data
    BY <1>7, <1>8
  <2> HIDE DEF f
  <2> QED
    BY <1>3, <2>1, <2>3, <2>4, <2>5 DEF IsFile
<1>k. \A c \in 1 .. Len(f.chunks) : Stored(f.chunks[c].sha, objects)
  <2>1. \A c \in 1 .. Len(refs) : Stored(refs[c].sha, objects)
    BY <1>a, RefIs
  <2> QED
    BY <2>1
<1> HIDE DEF f
<1>10. /\ files' \in Seq(FileRecords) /\ Len(files') = n + 1 /\ files'[n + 1] = f
       /\ \A k \in 1 .. n : files'[k] = files[k]
  <2>1. f \in FileRecords
    BY <1>9 DEF IsFile
  <2> QED
    BY <1>6, <1>a, <1>b, <2>1, AppendProperties
<1>11. \A k \in 1 .. n + 1 : k = n + 1 \/ k \in 1 .. n
  OBVIOUS
<1>12. AreFiles(files', mode, source)
  <2>1. n + 1 <= Len(s)
    BY <1>2, <1>3
  <2>2. \A k \in 1 .. n : IsFile(files[k], mode, s[k], source[s[k]])
    BY <1>a, <1>b DEF AreFiles, s
  <2>3. \A k \in 1 .. n + 1 : IsFile(files'[k], mode, s[k], source[s[k]])
    BY <1>9, <1>10, <1>11, <2>2
  <2> QED
    BY <1>10, <2>1, <2>3 DEF AreFiles, s
<1>13. Kept(files', objects)
  BY <1>10, <1>11, <1>a, <1>b, <1>k DEF Kept
<1>14. CutInv' /\ Chunked' = Chunked /\ ends' = ends /\ data' = data /\ mode' = mode
  BY <1>0, SameCuts, SameChunks DEF DataInv
<1>15. ShapeInv'
  BY <1>0 DEF DataInv, ShapeInv
<1>16. VersionsInv' /\ SessionsInv' /\ TargetInv'
  BY <1>0, SameVersions, SameSessions, SameTarget DEF DataInv
<1>17. IdleInv' /\ RestoreInv' /\ UploadInv'
  BY <1>0 DEF IdleInv, RestoreInv, UploadInv
<1>18. refs' \in Seq(ChunkRefs) /\ Len(refs') = 0 /\ 1 .. 0 = {} /\ 0 <= Len(ends)
  <2>1. Len(ends) \in Nat
    BY LenProperties DEF DataInv, CutInv, ChunkerInv, ChunkerTypeOK
  <2>2. <<>> \in Seq(ChunkRefs) /\ Len(<<>>) = 0 /\ 1 .. 0 = {}
    OBVIOUS
  <2> QED
    BY <1>0, <2>1, <2>2
<1>19. LeftOf(todo', scanRegularFiles(source'), Len(files'))
  BY <1>0, <1>5, <1>10 DEF s
<1>20. CutNext(cutting', data', source', Len(files'))
  BY <1>0 DEF CutNext
<1>21. CreateInv'
  BY <1>0, <1>1, <1>12, <1>13, <1>14, <1>18, <1>19, <1>20 DEF CreateInv
<1> QED
  BY <1>14, <1>15, <1>16, <1>17, <1>21 DEF DataInv

\* A manifest of the source, of which everything is stored, is committed.
LEMMA CommitData ==
  ASSUME DataInv, op \in {"create", "upload"}, NEW m \in Manifests, source \in Sources, Len(texts) < MaxVersion, version = 0,
         AreFiles(m.files, m.mode, source), Len(m.files) = Len(scanRegularFiles(source)),
         (op = "upload" /\ source \in stale) \/ Kept(m.files, objects),
         commit(m), Idle, UNCHANGED <<target, version>>
  PROVE  DataInv'
<1>0. /\ texts \in Seq(Seq(Lines)) /\ contents \in Seq(Sources) /\ Len(texts) = Len(contents)
      /\ sound \subseteq 1 .. Len(texts) /\ VersionsInv /\ TargetInv /\ ShapeInv
  BY DEF DataInv, ShapeInv
<1>l. PICK L \in Nat : L = Len(texts) /\ L = Len(contents)
  BY <1>0, LenProperties
<1> DEFINE w == [m EXCEPT !.version = L + 1]
           t == serialize(w)
<1>1. w \in Manifests /\ w.version = L + 1 /\ w.files = m.files /\ w.mode = m.mode
  BY DEF Manifests
<1>2. /\ texts' = Append(texts, t) /\ contents' = Append(contents, source)
      /\ sound' = IF op = "upload" /\ source \in stale THEN sound ELSE sound \cup {L + 1}
      /\ UNCHANGED <<objects, sessions, damages, stops, stale>>
  BY <1>l DEF commit
<1>s. PICK snd \in BOOLEAN : snd = ~ (op = "upload" /\ source \in stale)
  OBVIOUS
<1>u. sound' = IF snd THEN sound \cup {L + 1} ELSE sound
  BY <1>2, <1>s
<1> HIDE DEF w
<1>3. t \in Seq(Lines) /\ Subtext(t, t)
  BY <1>1, TextLayout, SubtextSelf
<1>4. IsManifest(w, L + 1, source)
  BY <1>1 DEF IsManifest
<1>5. IsVersion(L + 1, t, source, objects, snd)
  <2>1. snd => Kept(w.files, objects)
    BY <1>1, <1>s
  <2>2. Subtext(t, serialize(w)) /\ t = serialize(w)
    BY <1>3
  <2> HIDE DEF t
  <2> QED
    BY <1>3, <1>4, <2>1, <2>2 DEF IsVersion
<1> HIDE DEF t
<1>6. /\ texts' \in Seq(Seq(Lines)) /\ Len(texts') = L + 1 /\ texts'[L + 1] = t
      /\ \A v \in 1 .. L : texts'[v] = texts[v]
  BY <1>0, <1>2, <1>3, <1>l, AppendProperties
<1>7. /\ contents' \in Seq(Sources) /\ Len(contents') = L + 1 /\ contents'[L + 1] = source
      /\ \A v \in 1 .. L : contents'[v] = contents[v]
  BY <1>0, <1>2, <1>l, AppendProperties
<1>8. \A v \in 1 .. L + 1 : v = L + 1 \/ (v \in 1 .. L /\ v # L + 1)
  OBVIOUS
<1>9. VersionsInv'
  <2> SUFFICES ASSUME NEW v \in 1 .. L + 1
               PROVE  IsVersion(v, texts'[v], contents'[v], objects', v \in sound')
    BY <1>6 DEF VersionsInv
  <2>1. CASE v = L + 1
    <3>1. (v \in sound') = snd
      <4>1. L + 1 \notin sound
        BY <1>0, <1>l
      <4> QED
        BY <1>u, <2>1, <4>1
    <3> QED
      BY <1>2, <1>5, <1>6, <1>7, <2>1, <3>1
  <2>2. CASE v \in 1 .. L /\ v # L + 1
    <3>1. (v \in sound') = (v \in sound)
      BY <1>u, <2>2
    <3>2. IsVersion(v, texts[v], contents[v], objects, v \in sound)
      BY <1>0, <1>l, <2>2 DEF VersionsInv
    <3> QED
      BY <1>2, <1>6, <1>7, <2>2, <3>1, <3>2
  <2> QED
    BY <1>8, <2>1, <2>2
<1>10. TargetInv'
  <2>1. version' = 0
    OBVIOUS
  <2>2. \A v \in 1 .. L : v \in 1 .. L + 1
    OBVIOUS
  <2>3. \A p \in DOMAIN target : \E v \in 1 .. L + 1 : p \in DOMAIN contents'[v] /\ target[p] = contents'[v][p]
    BY <1>0, <1>7, <1>l, <2>2 DEF TargetInv
  <2> QED
    BY <1>6, <2>1, <2>3 DEF TargetInv
<1>11. /\ CutInv' /\ IdleInv' /\ CreateInv' /\ UploadInv' /\ RestoreInv'
       /\ op' = "none" /\ cutting' = FALSE
  BY IdleKeeps
<1>12. ShapeInv'
  <2>1. sound' \subseteq 1 .. L + 1
    <3>1. \A v \in 1 .. L : v \in 1 .. L + 1
      OBVIOUS
    <3>2. L + 1 \in 1 .. L + 1
      OBVIOUS
    <3>3. \A v \in sound : v \in 1 .. L
      BY <1>0, <1>l
    <3> QED
      BY <1>u, <3>1, <3>2, <3>3
  <2>2. L + 1 <= MaxVersion /\ version' \in 0 .. L + 1
    <3>1. MaxVersion \in Nat
      BY DataPathAssumption
    <3> QED
      BY <1>l, <3>1
  <2> QED
    BY <1>0, <1>2, <1>6, <1>7, <1>11, <2>1, <2>2 DEF ShapeInv, Ops
<1>13. SessionsInv'
  BY <1>2, SameSessions DEF DataInv
<1> QED
  BY <1>9, <1>10, <1>11, <1>12, <1>13 DEF DataInv

\* create commits.
LEMMA EndCreateData ==
  ASSUME DataInv, EndCreate
  PROVE  DataInv'
<1>0. op = "create" /\ todo = <<>> /\ commit([version |-> 0, mode |-> mode, files |-> files]) /\ Idle
      /\ UNCHANGED <<target, version>>
  BY DEF EndCreate
<1>1. /\ source \in Sources /\ version = 0 /\ AreFiles(files, mode, source) /\ Kept(files, objects)
      /\ LeftOf(<<>>, scanRegularFiles(source), Len(files)) /\ Len(texts) < MaxVersion
  BY <1>0 DEF DataInv, CreateInv, ShapeInv
<1>2. files \in Seq(FileRecords) /\ mode \in Modes
  BY <1>1 DEF AreFiles, DataInv, CutInv, ChunkerInv, ChunkerTypeOK
<1>3. Len(files) = Len(scanRegularFiles(source))
  BY <1>1, ScanIs, NothingLeft
<1> DEFINE m == [version |-> 0, mode |-> mode, files |-> files]
<1>4. m \in Manifests /\ m.files = files /\ m.mode = mode /\ commit(m)
  BY <1>0, <1>2 DEF Manifests
<1> HIDE DEF m
<1> QED
  BY <1>0, <1>1, <1>3, <1>4, CommitData

-----------------------------------------------------------------------------
(***************************************************************************)
(* An upload: the client prepares the records file by file, the server     *)
(* puts what its session misses, and builds the manifest from its records. *)
(***************************************************************************)
\* The records of one more file.
LEMMA MoreRecords ==
  ASSUME NEW rs, NEW s \in Sources, NEW css, NEW b, AreRecords(rs, s, css, b), Len(css) < Len(scanRegularFiles(s)),
         NEW p, p = scanRegularFiles(s)[Len(css) + 1],
         NEW cs, Cutting("fixed", cs), FlattenSeq(cs) = s[p],
         NEW us, us = [k \in 1 .. Len(cs) |-> recordFor(Len(rs) + k, p, s[p], k, cs[k])]
  PROVE  \E g : AreRecords(rs \o us, s, Append(css, cs), g)
<1>0. /\ rs \in Seq(Records) /\ css \in Seq(Seq(Seq(Bytes))) /\ EndsOf(css, b) /\ b[Len(css)] = Len(rs)
      /\ cs \in Seq(Seq(Bytes))
  BY DEF AreRecords, Cutting
<1>n. PICK n \in Nat : n = Len(css)
  BY <1>0, LenProperties
<1>r. PICK r \in Nat : r = Len(rs)
  BY <1>0, LenProperties
<1>c. PICK c \in Nat : c = Len(cs)
  BY <1>0, LenProperties
<1> DEFINE q == scanRegularFiles(s)
<1>1. Len(q) \in Nat /\ n < Len(q) /\ \A k \in 1 .. Len(q) : q[k] \in Range(Paths) /\ s[q[k]] \in Seq(Bytes)
  BY <1>n, ScanIs
<1> HIDE DEF q
<1>2. p = q[n + 1] /\ p \in Range(Paths) /\ s[p] \in Seq(Bytes)
  <2>1. n + 1 \in 1 .. Len(q)
    BY <1>1
  <2> QED
    BY <1>1, <1>n, <2>1 DEF q
<1>3. \A k \in 1 .. c : cs[k] \in Seq(Bytes)
  BY <1>0, <1>c, ElementOfSeq
<1>4. /\ us \in Seq(Records) /\ Len(us) = c
      /\ \A k \in 1 .. c : us[k] = recordFor(r + k, p, s[p], k, cs[k])
  <2>1. ASSUME NEW k \in 1 .. c PROVE recordFor(r + k, p, s[p], k, cs[k]) \in Records
    <3>1. r + k \in Nat /\ k \in Nat /\ Len(s[p]) \in Nat /\ cs[k] \in Seq(Bytes)
      BY <1>2, <1>3, LenProperties
    <3> QED
      BY <1>2, <3>1 DEF recordFor, Records
  <2> DEFINE h(k) == recordFor(r + k, p, s[p], k, cs[k])
  <2>2. us = [k \in 1 .. c |-> h(k)]
    BY <1>c, <1>r
  <2>3. \A k \in 1 .. c : h(k) \in Records
    BY <2>1
  <2> HIDE DEF h
  <2>4. us \in [1 .. c -> Records] /\ \A k \in 1 .. c : us[k] = h(k)
    BY <2>2, <2>3
  <2>5. us \in Seq(Records) /\ Len(us) = c
    BY <2>4
  <2> QED
    BY <2>4, <2>5 DEF h
<1>5. /\ rs \o us \in Seq(Records) /\ Len(rs \o us) = r + c
      /\ \A k \in 1 .. r : (rs \o us)[k] = rs[k]
      /\ \A k \in 1 .. c : (rs \o us)[r + k] = us[k]
  <2>1. rs \o us \in Seq(Records) /\ IsConcat(rs \o us, rs, us)
    BY <1>0, <1>4, ConcatAt
  <2> DEFINE ws == rs \o us
  <2>2. ws \in Seq(Records) /\ IsConcat(ws, rs, us)
    BY <2>1
  <2> HIDE DEF ws
  <2>3. ws \in Seq(Records) /\ Len(ws) = r + c /\ (\A k \in 1 .. r : ws[k] = rs[k]) /\ \A k \in 1 .. c : ws[r + k] = us[k]
    BY <1>4, <1>r, <2>2 DEF IsConcat
  <2> QED
    BY <2>3 DEF ws
<1> DEFINE ds == Append(css, cs)
           g == [k \in 0 .. n + 1 |-> IF k = n + 1 THEN r + c ELSE b[k]]
           ws == rs \o us
<1>6. /\ ds \in Seq(Seq(Seq(Bytes))) /\ Len(ds) = n + 1 /\ ds[n + 1] = cs
      /\ \A k \in 1 .. n : ds[k] = css[k]
  BY <1>0, <1>n, AppendProperties
<1> HIDE DEF ds, ws
<1>7. /\ b \in [0 .. n -> Nat] /\ b[0] = 0 /\ b[n] = r
      /\ \A k \in 1 .. n : b[k] = b[k - 1] + Len(css[k])
  BY <1>0, <1>n, <1>r DEF EndsOf
<1>8. g \in [0 .. n + 1 -> Nat] /\ g[n + 1] = r + c /\ \A k \in 0 .. n : g[k] = b[k]
  <2>1. \A k \in 0 .. n + 1 : k = n + 1 \/ (k \in 0 .. n /\ k # n + 1)
    OBVIOUS
  <2>2. \A k \in 0 .. n : k \in 0 .. n + 1 /\ k # n + 1 /\ b[k] \in Nat
    BY <1>7
  <2> QED
    BY <2>1, <2>2
<1> HIDE DEF g
<1>9. EndsOf(ds, g)
  <2>1. g[0] = 0
    BY <1>7, <1>8
  <2>2. ASSUME NEW k \in 1 .. n + 1 PROVE g[k] = g[k - 1] + Len(ds[k])
    <3>1. CASE k = n + 1
      <4>1. k - 1 = n /\ n \in 0 .. n
        BY <3>1
      <4> QED
        BY <1>6, <1>7, <1>8, <1>c, <3>1, <4>1
    <3>2. CASE k # n + 1
      <4>1. k \in 1 .. n /\ k \in 0 .. n /\ k - 1 \in 0 .. n
        BY <3>2
      <4> QED
        BY <1>6, <1>7, <1>8, <4>1
    <3> QED
      BY <3>1, <3>2
  <2> QED
    BY <1>6, <1>8, <2>1, <2>2 DEF EndsOf
<1>10. ASSUME NEW j \in 1 .. n + 1
       PROVE  /\ Cutting("fixed", ds[j]) /\ FlattenSeq(ds[j]) = s[q[j]]
              /\ \A k \in 1 .. Len(ds[j]) :
                    ws[g[j - 1] + k] = recordFor(g[j - 1] + k, q[j], s[q[j]], k, ds[j][k])
  <2>1. CASE j = n + 1
    <3>1. j - 1 = n /\ n \in 0 .. n
      BY <2>1
    <3>2. g[j - 1] = r /\ ds[j] = cs
      BY <1>6, <1>7, <1>8, <2>1, <3>1
    <3>3. q[j] = p /\ Cutting("fixed", cs) /\ FlattenSeq(cs) = s[p]
      BY <1>2, <2>1
    <3>4. \A k \in 1 .. c : ws[r + k] = recordFor(r + k, p, s[p], k, cs[k])
      BY <1>4, <1>5 DEF ws
    <3>5. \A k \in 1 .. Len(ds[j]) : k \in 1 .. c
      BY <1>c, <3>2
    <3> QED
      BY <3>2, <3>3, <3>4, <3>5
  <2>2. CASE j # n + 1
    <3>1. j \in 1 .. n /\ j - 1 \in 0 .. n /\ j \in 0 .. n
      BY <2>2
    <3>2. g[j - 1] = b[j - 1] /\ ds[j] = css[j]
      BY <1>6, <1>8, <3>1
    <3>3. /\ Cutting("fixed", css[j]) /\ FlattenSeq(css[j]) = s[q[j]]
          /\ \A k \in 1 .. Len(css[j]) :
                rs[b[j - 1] + k] = recordFor(b[j - 1] + k, q[j], s[q[j]], k, css[j][k])
      BY <1>n, <3>1 DEF AreRecords, q
    <3>4. ASSUME NEW k \in 1 .. Len(css[j]) PROVE b[j - 1] + k \in 1 .. r
      <4>1. css \in Seq(Seq(Seq(Bytes))) /\ EndsOf(css, b)
        BY <1>0
      <4>2. b[j] <= b[n]
        <5>1. \A i, h \in 0 .. Len(css) : i <= h => b[i] <= b[h]
          BY <4>1, PieceOf
        <5>2. j <= n /\ n \in 0 .. n
          BY <3>1
        <5> QED
          BY <1>n, <3>1, <5>1, <5>2
      <4>3. b[j] = b[j - 1] + Len(css[j]) /\ b[j - 1] \in Nat
        BY <1>7, <3>1
      <4>4. Len(css[j]) \in Nat
        <5>1. css[j] \in Seq(Seq(Bytes))
          BY <1>0, <1>n, <3>1, ElementOfSeq
        <5> QED
          BY <5>1, LenProperties
      <4>5. PICK x \in Nat, y \in Nat : x = b[j - 1] /\ y = Len(css[j])
        BY <4>3, <4>4
      <4>6. x + y <= r /\ k \in 1 .. y
        BY <1>7, <4>2, <4>3, <4>5
      <4>7. x + k \in 1 .. r
        BY <4>6
      <4> QED
        BY <4>5, <4>7
    <3>5. \A k \in 1 .. Len(css[j]) : ws[b[j - 1] + k] = rs[b[j - 1] + k]
      BY <1>5, <3>4 DEF ws
    <3> QED
      BY <3>2, <3>3, <3>5
  <2> QED
    BY <2>1, <2>2
<1>11. AreRecords(ws, s, ds, g)
  <2>1. n + 1 <= Len(q)
    BY <1>1
  <2>2. ws \in Seq(Records) /\ Len(ws) = r + c
    BY <1>5 DEF ws
  <2> QED
    BY <1>6, <1>8, <1>9, <1>10, <2>1, <2>2 DEF AreRecords, q
<1> QED
  BY <1>11 DEF ws, ds

\* The client has cut a file and prepares its chunks.
LEMMA PrepareFileData ==
  ASSUME DataInv, PrepareFile
  PROVE  DataInv'
<1>0. /\ op = "upload" /\ cutting /\ Chunked /\ cutting' = FALSE /\ todo' = Tail(todo)
      /\ UNCHANGED <<chunkerVars, objects, texts, contents, damages, stops, sound, stale, target, op, version, source, refs, files, sessions>>
  BY DEF PrepareFile, stored, histories
<1>1. UploadInv /\ source \in Sources /\ mode = "fixed"
  BY <1>0 DEF DataInv, UploadInv
<1>2. PICK css, b : UploadAt(css, b)
  BY <1>0, <1>1 DEF UploadInv
<1> DEFINE s == scanRegularFiles(source)
<1>3. /\ AreRecords(chunks, source, css, b) /\ LeftOf(todo, s, Len(css))
      /\ Len(css) < Len(s) /\ data = source[s[Len(css) + 1]]
      /\ css \in Seq(Seq(Seq(Bytes)))
  BY <1>0, <1>2 DEF UploadAt, CutNext, AreRecords
<1>4. s \in Seq(Range(Paths)) /\ Len(s) \in Nat
  BY <1>1, ScanIs
<1>n. PICK n \in Nat : n = Len(css)
  BY <1>3, LenProperties
<1>5. todo # <<>>
  <2> SUFFICES ASSUME todo = <<>> PROVE FALSE
    OBVIOUS
  <2>1. Len(css) = Len(s)
    BY <1>3, <1>4, NothingLeft
  <2> HIDE DEF s
  <2> QED
    BY <1>3, <1>n, <2>1
<1>6. Head(todo) = s[n + 1] /\ LeftOf(Tail(todo), s, n + 1)
  BY <1>3, <1>4, <1>5, <1>n, LeftStep
<1> HIDE DEF s
<1>7. Cutting("fixed", theChunks) /\ FlattenSeq(theChunks) = data /\ theChunks \in Seq(Seq(Bytes))
  BY <1>0, <1>1, ChunksOfFile DEF DataInv, Cutting
<1>8. ends \in Seq(Nat)
  BY DEF DataInv, CutInv, ChunkerInv, ChunkerTypeOK
<1>e. PICK c \in Nat : c = Len(ends) /\ DOMAIN ends = 1 .. c
  BY <1>8, LenProperties
<1>9. Len(theChunks) = c /\ \A k \in 1 .. c : theChunks[k] = chunk(k)
  BY <1>e DEF theChunks
<1> DEFINE p == s[n + 1]
           us == [k \in 1 .. Len(theChunks) |-> recordFor(Len(chunks) + k, p, source[p], k, theChunks[k])]
<1>10. chunks' = chunks \o us
  <2>1. us = [k \in DOMAIN ends |->
               [index |-> Len(chunks) + k, path |-> Head(todo), size |-> Len(data), digest |-> data,
                at |-> k, chunk |-> chunk(k)]]
    BY <1>3, <1>6, <1>9, <1>e, <1>n DEF recordFor
  <2> QED
    BY <2>1 DEF PrepareFile
<1>11. \E g : AreRecords(chunks \o us, source, Append(css, theChunks), g)
  <2>1. p = scanRegularFiles(source)[Len(css) + 1] /\ Len(css) < Len(scanRegularFiles(source))
    BY <1>3, <1>n DEF s
  <2>2. FlattenSeq(theChunks) = source[p]
    BY <1>3, <1>7, <1>n
  <2> HIDE DEF p
  <2> QED
    BY <1>1, <1>3, <1>7, <2>1, <2>2, MoreRecords
<1> HIDE DEF us, p
<1>12. PICK g : AreRecords(chunks', source, Append(css, theChunks), g)
  BY <1>10, <1>11
<1>d. PICK ds : ds = Append(css, theChunks)
  OBVIOUS
<1>13. Len(ds) = n + 1
  BY <1>3, <1>7, <1>d, <1>n, AppendProperties
<1>14. UploadAt(ds, g)'
  <2>1. AreRecords(chunks', source', ds, g)
    BY <1>0, <1>12, <1>d
  <2>2. LeftOf(todo', scanRegularFiles(source'), Len(ds))
    BY <1>0, <1>6, <1>13 DEF s
  <2>3. CutNext(cutting', data', source', Len(ds))
    BY <1>0 DEF CutNext
  <2> QED
    BY <2>1, <2>2, <2>3 DEF UploadAt
<1>15. CutInv' /\ mode' = mode
  BY <1>0, SameCuts, SameChunks DEF DataInv
<1>17. UploadInv'
  BY <1>0, <1>1, <1>14, <1>15 DEF UploadInv
<1>18. ShapeInv'
  BY <1>0 DEF DataInv, ShapeInv
<1>19. VersionsInv' /\ SessionsInv' /\ TargetInv'
  BY <1>0, SameVersions, SameSessions, SameTarget DEF DataInv
<1>20. IdleInv' /\ RestoreInv' /\ CreateInv'
  BY <1>0 DEF IdleInv, RestoreInv, CreateInv
<1> QED
  BY <1>15, <1>17, <1>18, <1>19, <1>20 DEF DataInv

\* What a record of the session says.
LEMMA RecordIs ==
  ASSUME NEW i, NEW p, NEW bytes, NEW k, NEW c
  PROVE  /\ recordFor(i, p, bytes, k, c).index = i /\ recordFor(i, p, bytes, k, c).path = p
         /\ recordFor(i, p, bytes, k, c).size = Len(bytes) /\ recordFor(i, p, bytes, k, c).digest = bytes
         /\ recordFor(i, p, bytes, k, c).at = k /\ recordFor(i, p, bytes, k, c).chunk = c
  BY DEF recordFor

\* Where the records of the files lie.
Places(rs, s, css, b) ==
    /\ \A j \in 1 .. Len(css) : /\ b[j - 1] \in Nat /\ b[j] \in Nat /\ Len(css[j]) \in Nat
                                /\ b[j] = b[j - 1] + Len(css[j]) /\ b[j] <= Len(rs)
    /\ \A i \in 1 .. Len(rs) : \E j \in 1 .. Len(css) : b[j - 1] < i /\ i <= b[j]
    /\ \A j, h \in 1 .. Len(css) : j < h => b[j] <= b[h - 1]
    /\ \A j \in 1 .. Len(css) : \A i \in 1 .. Len(rs) :
          b[j - 1] < i /\ i <= b[j] => rs[i].path = scanRegularFiles(s)[j] /\ rs[i].index = i

\* Where the records of the files lie in the list of all.
LEMMA RecordPlaces ==
  ASSUME NEW rs, NEW s \in Sources, NEW css, NEW b, AreRecords(rs, s, css, b)
  PROVE  Places(rs, s, css, b)
<1>0. rs \in Seq(Records) /\ css \in Seq(Seq(Seq(Bytes))) /\ EndsOf(css, b) /\ b[Len(css)] = Len(rs)
  BY DEF AreRecords
<1>n. PICK n \in Nat : n = Len(css)
  BY <1>0, LenProperties
<1>1. b \in [0 .. n -> Nat] /\ b[n] = Len(rs) /\ \A j \in 1 .. n : b[j] = b[j - 1] + Len(css[j])
  BY <1>0, <1>n DEF EndsOf
<1>2. (\A j, h \in 0 .. n : j <= h => b[j] <= b[h]) /\ \A i \in 1 .. b[n] : \E j \in 1 .. n : b[j - 1] < i /\ i <= b[j]
  BY <1>0, <1>n, PieceOf
<1>3. \A j \in 1 .. n : j - 1 \in 0 .. n /\ j \in 0 .. n /\ n \in 0 .. n /\ j <= n
  OBVIOUS
<1>4. \A j \in 1 .. n : Len(css[j]) \in Nat
  <2>1. \A j \in 1 .. n : css[j] \in Seq(Seq(Bytes))
    BY <1>0, <1>n, ElementOfSeq
  <2> QED
    BY <2>1, LenProperties
<1>5. \A j \in 1 .. n : b[j - 1] \in Nat /\ b[j] \in Nat /\ b[j] <= Len(rs)
  BY <1>1, <1>2, <1>3
<1>6. \A j, h \in 1 .. n : j < h => b[j] <= b[h - 1]
  <2>1. \A j, h \in 1 .. n : j < h => j <= h - 1
    OBVIOUS
  <2> QED
    BY <1>2, <1>3, <2>1
<1>7. ASSUME NEW j \in 1 .. n, NEW i \in 1 .. Len(rs), b[j - 1] < i, i <= b[j]
      PROVE  rs[i].path = scanRegularFiles(s)[j] /\ rs[i].index = i
  <2>1. PICK x \in Nat, y \in Nat : x = b[j - 1] /\ y = Len(css[j])
    BY <1>4, <1>5
  <2>2. x < i /\ i <= x + y
    BY <1>1, <1>7, <2>1
  <2>3. i \in Nat
    <3>1. Len(rs) \in Nat
      BY <1>0, LenProperties
    <3> QED
      BY <3>1
  <2>4. PICK k \in 1 .. y : i = x + k
    <3>1. i - x \in 1 .. y /\ i = x + (i - x)
      BY <2>2, <2>3
    <3> QED
      BY <3>1
  <2>5. rs[x + k] = recordFor(x + k, scanRegularFiles(s)[j], s[scanRegularFiles(s)[j]], k, css[j][k])
    BY <1>n, <2>1 DEF AreRecords
  <2> QED
    BY <2>4, <2>5, RecordIs
<1> QED
  BY <1>1, <1>2, <1>4, <1>5, <1>6, <1>7, <1>n DEF Places

\* The records of all files of a source are the same whenever they are prepared.
LEMMA SameRecords ==
  ASSUME NEW s \in Sources, NEW rs, NEW us, AllRecords(rs, s), AllRecords(us, s)
  PROVE  rs = us
<1>1. PICK css, b : AreRecords(rs, s, css, b) /\ Len(css) = Len(scanRegularFiles(s))
  BY DEF AllRecords
<1>2. PICK ds, g : AreRecords(us, s, ds, g) /\ Len(ds) = Len(scanRegularFiles(s))
  BY DEF AllRecords
<1>n. PICK n \in Nat : n = Len(css) /\ n = Len(ds)
  BY <1>1, <1>2, ScanIs
<1>3. css = ds
  <2>1. css \in Seq(Seq(Seq(Bytes))) /\ ds \in Seq(Seq(Seq(Bytes)))
    BY <1>1, <1>2 DEF AreRecords
  <2>2. ASSUME NEW j \in 1 .. n PROVE css[j] = ds[j]
    <3>1. Cutting("fixed", css[j]) /\ Cutting("fixed", ds[j]) /\ FlattenSeq(css[j]) = FlattenSeq(ds[j])
      BY <1>1, <1>2, <1>n DEF AreRecords
    <3> QED
      BY <3>1, SameCutting
  <2> QED
    BY <1>n, <2>1, <2>2, SeqEqual
<1>4. /\ b[0] = 0 /\ \A k \in 1 .. n : b[k] = b[k - 1] + Len(css[k])
      /\ g[0] = 0 /\ \A k \in 1 .. n : g[k] = g[k - 1] + Len(css[k])
  BY <1>1, <1>2, <1>3, <1>n DEF AreRecords, EndsOf
<1>5. \A k \in 0 .. n : b[k] = g[k]
  <2> DEFINE P == {k \in 0 .. n : b[k] = g[k]}
  <2>1. 0 \in P
    BY <1>4
  <2>2. \A k \in 1 .. n : k - 1 \in P => k \in P
    BY <1>4
  <2>3. \A k \in P : b[k] = g[k]
    OBVIOUS
  <2> HIDE DEF P
  <2> QED
    BY <2>1, <2>2, <2>3, UpToInduction
<1>6. rs \in Seq(Records) /\ us \in Seq(Records) /\ Len(rs) = b[n] /\ Len(us) = g[n]
  BY <1>1, <1>2, <1>n DEF AreRecords
<1>7. Len(rs) = Len(us) /\ Len(rs) \in Nat
  <2>1. n \in 0 .. n
    BY <1>n
  <2> QED
    BY <1>5, <1>6, <2>1, LenProperties
<1>8. ASSUME NEW i \in 1 .. Len(rs) PROVE rs[i] = us[i]
  <2>1. PICK j \in 1 .. n : b[j - 1] < i /\ i <= b[j]
    <3>1. Places(rs, s, css, b)
      BY <1>1, RecordPlaces
    <3> QED
      BY <1>n, <3>1 DEF Places
  <2>2. PICK x \in Nat, y \in Nat : x = b[j - 1] /\ y = Len(css[j]) /\ b[j] = x + y
    <3>1. Places(rs, s, css, b)
      BY <1>1, RecordPlaces
    <3>2. b[j - 1] \in Nat /\ Len(css[j]) \in Nat /\ b[j] = b[j - 1] + Len(css[j])
      BY <1>n, <3>1 DEF Places
    <3> QED
      BY <3>2
  <2>3. i \in Nat /\ x < i /\ i <= x + y
    BY <1>7, <2>1, <2>2
  <2>4. PICK k \in 1 .. y : i = x + k
    <3>1. i - x \in 1 .. y /\ i = x + (i - x)
      BY <2>3
    <3> QED
      BY <3>1
  <2>5. g[j - 1] = x
    <3>1. j - 1 \in 0 .. n
      OBVIOUS
    <3> QED
      BY <1>5, <2>2, <3>1
  <2>6. rs[x + k] = recordFor(x + k, scanRegularFiles(s)[j], s[scanRegularFiles(s)[j]], k, css[j][k])
    BY <1>1, <1>n, <2>2 DEF AreRecords
  <2>7. us[x + k] = recordFor(x + k, scanRegularFiles(s)[j], s[scanRegularFiles(s)[j]], k, css[j][k])
    BY <1>2, <1>3, <1>n, <2>2, <2>5 DEF AreRecords
  <2> QED
    BY <2>4, <2>6, <2>7
<1> QED
  BY <1>6, <1>7, <1>8, SeqEqual

\* What an upload has prepared when no file is left are all records of its source.
LEMMA AllPrepared ==
  ASSUME DataInv, op = "upload", todo = <<>>
  PROVE  /\ source \in Sources /\ version = 0 /\ index \in Seq(Records) /\ chunks \in Seq(Records)
         /\ \E css, b : UploadAt(css, b)
         /\ \A css, b : UploadAt(css, b) => Len(css) = Len(scanRegularFiles(source))
         /\ AllRecords(chunks, source)
<1>1. source \in Sources /\ version = 0 /\ sessions \in [Sources -> Seq(Records)] /\ \E css, b : UploadAt(css, b)
  BY DEF DataInv, UploadInv, ShapeInv
<1>2. index \in Seq(Records)
  BY <1>1 DEF index
<1>3. Len(scanRegularFiles(source)) \in Nat
  BY <1>1, ScanIs
<1>4. ASSUME NEW css, NEW b, UploadAt(css, b)
      PROVE  Len(css) = Len(scanRegularFiles(source)) /\ chunks \in Seq(Records) /\ AreRecords(chunks, source, css, b)
  <2>1. AreRecords(chunks, source, css, b) /\ LeftOf(<<>>, scanRegularFiles(source), Len(css))
    BY <1>4 DEF UploadAt
  <2>2. Len(css) = Len(scanRegularFiles(source))
    BY <1>3, <2>1, NothingLeft
  <2> QED
    BY <2>1, <2>2 DEF AreRecords
<1> QED
  BY <1>1, <1>2, <1>4 DEF AllRecords

\* The record of a chunk of the source, which is stored, is added to the session.
LEMMA AppendSession ==
  ASSUME SessionsInv, sessions \in [Sources -> Seq(Records)], source \in Sources, NEW r \in Records,
         \A rs : AllRecords(rs, source) => r \in Range(rs),
         source \notin stale => Stored(r.chunk, objects'),
         \A h : Stored(h, objects) => Stored(h, objects'),
         sessions' = [sessions EXCEPT ![source] = Append(index, r)], stale' = stale
  PROVE  SessionsInv' /\ sessions' \in [Sources -> Seq(Records)]
<1>0. index \in Seq(Records)
  BY DEF index
<1>n. PICK n \in Nat : n = Len(index)
  BY <1>0, LenProperties
<1>s. PICK ses : ses = Append(index, r)
  OBVIOUS
<1>1. ses \in Seq(Records) /\ Len(ses) = n + 1 /\ ses[n + 1] = r /\ \A k \in 1 .. n : ses[k] = index[k]
  BY <1>0, <1>n, <1>s, AppendProperties
<1>2. sessions' = [sessions EXCEPT ![source] = ses]
  BY <1>s
<1>3. sessions' \in [Sources -> Seq(Records)]
  BY <1>1, <1>2
<1>4. ASSUME NEW s \in Sources PROVE IsSession(sessions'[s], s, objects', s \notin stale')
  <2>0. IsSession(sessions[s], s, objects, s \notin stale)
    BY DEF SessionsInv
  <2>1. CASE s = source
    <3>1. sessions'[s] = ses /\ IsSession(index, s, objects, s \notin stale)
      BY <1>2, <2>0, <2>1 DEF index
    <3>2. ASSUME NEW k \in 1 .. n + 1
          PROVE  /\ \A rs : AllRecords(rs, s) => ses[k] \in Range(rs)
                 /\ s \notin stale => Stored(ses[k].chunk, objects')
      <4>1. CASE k = n + 1
        BY <1>1, <2>1, <4>1
      <4>2. CASE k # n + 1
        <5>1. k \in 1 .. n /\ ses[k] = index[k]
          BY <1>1, <4>2
        <5>2. (\A rs : AllRecords(rs, s) => index[k] \in Range(rs)) /\ (s \notin stale => Stored(index[k].chunk, objects))
          BY <1>n, <3>1, <5>1 DEF IsSession
        <5> QED
          BY <5>1, <5>2
      <4> QED
        BY <4>1, <4>2
    <3> QED
      BY <1>1, <3>1, <3>2 DEF IsSession
  <2>2. CASE s # source
    <3>1. sessions'[s] = sessions[s]
      BY <1>2, <2>2
    <3> QED
      BY <2>0, <3>1 DEF IsSession
  <2> QED
    BY <2>1, <2>2
<1> QED
  BY <1>3, <1>4 DEF SessionsInv

\* The server puts a chunk that is missing and adds its record to the session; a
\* bad object ends the upload.
LEMMA ReceiveChunkData ==
  ASSUME DataInv, ReceiveChunk
  PROVE  DataInv'
<1>0. op = "upload" /\ ~ cutting /\ todo = <<>> /\ UNCHANGED <<texts, contents, damages, stops, sound, stale, target>>
  BY DEF ReceiveChunk, histories
<1>1. source \in Sources /\ version = 0 /\ chunks \in Seq(Records) /\ AllRecords(chunks, source) /\ UploadInv
  BY <1>0, AllPrepared DEF DataInv
<1>2. PICK css, b : UploadAt(css, b)
  BY <1>0, AllPrepared
<1>4. PICK k \in DOMAIN chunks :
         IF Puts(chunks[k].chunk)
           THEN /\ putCompressed(chunks[k].chunk)
                /\ sessions' = [sessions EXCEPT ![source] = Append(index, chunks[k])]
                /\ UNCHANGED <<chunkerVars, op, version, source, todo, cutting, refs, files, chunks>>
           ELSE Idle /\ UNCHANGED <<objects, sessions, version>>
  BY DEF ReceiveChunk, Missing, command
<1>5. chunks[k] \in Records /\ chunks[k] \in Range(chunks)
  BY <1>1, <1>4 DEF Range
<1> DEFINE r == chunks[k]
<1>6. r.chunk \in Seq(Bytes)
  BY <1>5 DEF Records
<1>7. CASE Puts(r.chunk)
  <2>0. /\ putCompressed(r.chunk) /\ sessions' = [sessions EXCEPT ![source] = Append(index, r)]
        /\ UNCHANGED <<chunkerVars, op, version, source, todo, cutting, refs, files, chunks>>
    BY <1>4, <1>7
  <2>r. r \in Records /\ r \in Range(chunks)
    BY <1>5
  <2> HIDE DEF r
  <2>1. CutInv' /\ mode' = mode /\ data' = data
    BY <2>0, SameCuts, SameChunks DEF DataInv
  <2>3. /\ Stored(r.chunk, objects') /\ \A h : Stored(h, objects) => Stored(h, objects')
    BY <1>7, <2>0, PutKeeps
  <2>4. SessionsInv' /\ sessions' \in [Sources -> Seq(Records)]
    <3>1. SessionsInv /\ sessions \in [Sources -> Seq(Records)]
      BY DEF DataInv, ShapeInv
    <3>2. \A rs : AllRecords(rs, source) => r \in Range(rs)
      BY <1>1, <2>r, SameRecords
    <3> QED
      BY <1>0, <1>1, <2>0, <2>3, <2>r, <3>1, <3>2, AppendSession
  <2>2. ShapeInv'
    <3>1. ShapeInv
      BY DEF DataInv
    <3> QED
      BY <1>0, <1>6, <1>7, <2>0, <2>4, <3>1, PutShape
  <2>5. VersionsInv' /\ TargetInv'
    BY <1>0, <2>0, <2>3, StaysVersions, SameTarget DEF DataInv
  <2>6. IdleInv' /\ RestoreInv' /\ CreateInv'
    BY <1>0, <2>0 DEF IdleInv, RestoreInv, CreateInv
  <2>7. UploadAt(css, b)'
    BY <1>2, <2>0, <2>1 DEF UploadAt
  <2>8. UploadInv'
    BY <1>0, <1>1, <2>0, <2>1, <2>7 DEF UploadInv
  <2> QED
    BY <2>1, <2>2, <2>4, <2>5, <2>6, <2>8 DEF DataInv
<1>8. CASE ~ Puts(r.chunk)
  BY <1>0, <1>1, <1>4, <1>8, GiveUp
<1> QED
  BY <1>7, <1>8

\* A record of the session comes again.
LEMMA ReceiveAgainData ==
  ASSUME DataInv, ReceiveAgain
  PROVE  DataInv'
<1>0. /\ op = "upload" /\ todo = <<>>
      /\ UNCHANGED <<chunkerVars, objects, texts, contents, damages, stops, sound, stale, target, op, version, source,
                     todo, cutting, refs, files, chunks>>
  BY DEF ReceiveAgain, command, histories
<1>1. source \in Sources /\ index \in Seq(Records) /\ SessionsInv /\ sessions \in [Sources -> Seq(Records)]
  BY <1>0, AllPrepared DEF DataInv, ShapeInv
<1>2. PICK k \in DOMAIN index : sessions' = [sessions EXCEPT ![source] = Append(index, index[k])]
  BY DEF ReceiveAgain
<1>3. index[k] \in Records /\ k \in 1 .. Len(index)
  BY <1>1, <1>2, ElementOfSeq, LenProperties
<1>4. SessionsInv' /\ sessions' \in [Sources -> Seq(Records)]
  <2>1. IsSession(index, source, objects, source \notin stale)
    BY <1>1 DEF SessionsInv, index
  <2>2. /\ \A rs : AllRecords(rs, source) => index[k] \in Range(rs)
        /\ source \notin stale => Stored(index[k].chunk, objects)
    BY <1>3, <2>1 DEF IsSession
  <2>3. objects' = objects /\ stale' = stale
    BY <1>0
  <2>4. PICK r \in Records : r = index[k]
    BY <1>3
  <2> QED
    BY <1>1, <1>2, <2>2, <2>3, <2>4, AppendSession
<1>5. ShapeInv'
  BY <1>0, <1>4 DEF DataInv, ShapeInv
<1>6. VersionsInv' /\ TargetInv' /\ CutInv' /\ mode' = mode /\ data' = data
  BY <1>0, SameVersions, SameTarget, SameCuts, SameChunks DEF DataInv
<1>7. IdleInv' /\ RestoreInv' /\ CreateInv'
  BY <1>0 DEF IdleInv, RestoreInv, CreateInv
<1>8. UploadInv'
  <2>1. UploadInv
    BY DEF DataInv
  <2>2. PICK css, b : UploadAt(css, b)
    BY <1>0, <2>1 DEF UploadInv
  <2>3. UploadAt(css, b)'
    BY <1>0, <1>6, <2>2 DEF UploadAt
  <2> QED
    BY <1>0, <1>6, <2>1, <2>3 DEF UploadInv
<1> QED
  BY <1>4, <1>5, <1>6, <1>7, <1>8 DEF DataInv

\* An upload is cut short: its session stays.
LEMMA StopUploadData ==
  ASSUME DataInv, StopUpload
  PROVE  DataInv'
<1>0. /\ op = "upload" /\ todo = <<>> /\ Idle /\ stops < MaxStops /\ stops' = stops + 1
      /\ UNCHANGED <<objects, texts, sessions, contents, damages, sound, stale, target, version>>
  BY DEF StopUpload
<1>1. version = 0
  BY <1>0, AllPrepared
<1>2. /\ CutInv' /\ IdleInv' /\ CreateInv' /\ UploadInv' /\ RestoreInv'
      /\ op' = "none" /\ cutting' = FALSE
  BY <1>0, IdleKeeps
<1>3. stops' \in 0 .. MaxStops
  <2>1. stops \in 0 .. MaxStops /\ MaxStops \in Nat
    BY DataPathAssumption DEF DataInv, ShapeInv
  <2> QED
    BY <1>0, <2>1
<1>4. ShapeInv'
  BY <1>0, <1>2, <1>3 DEF DataInv, ShapeInv, Ops
<1>5. VersionsInv' /\ SessionsInv' /\ TargetInv'
  BY <1>0, <1>1, SameVersions, SameSessions, SameTarget DEF DataInv
<1> QED
  BY <1>2, <1>4, <1>5 DEF DataInv

\* rs are the records of the chunks cs of a file, behind i others.
AreChunks(rs, p, bytes, cs, i) ==
    /\ rs \in Seq(Records) /\ Len(rs) = Len(cs)
    /\ \A k \in 1 .. Len(cs) : rs[k] = recordFor(i + k, p, bytes, k, cs[k])

\* r are the records of the path p among rs, as recordsOf has them.
AreOf(r, rs, p) == r = Only(rs, {t \in Range(rs) : t.path = p})

\* Of the records of all files, those of a file are its chunks in order.
LEMMA RecordsOfFile ==
  ASSUME NEW rs, NEW s \in Sources, NEW css, NEW b, AreRecords(rs, s, css, b),
         NEW j \in 1 .. Len(css),
         NEW p, p = scanRegularFiles(s)[j],
         NEW r, AreOf(r, rs, p)
  PROVE  AreChunks(r, p, s[p], css[j], b[j - 1]) /\ \A k \in 1 .. Len(r) : r[k] \in Range(rs)
<1>0. rs \in Seq(Records) /\ css \in Seq(Seq(Seq(Bytes))) /\ Len(css) <= Len(scanRegularFiles(s))
  BY DEF AreRecords
<1> DEFINE q == scanRegularFiles(s)
<1>1. Len(q) \in Nat /\ \A h, k \in 1 .. Len(q) : q[h] = q[k] => h = k
  BY ScanIs
<1> HIDE DEF q
<1>n. PICK n \in Nat : n = Len(css) /\ n <= Len(q)
  BY <1>0, LenProperties DEF q
<1>l. PICK L \in Nat : L = Len(rs) /\ DOMAIN rs = 1 .. L
  BY <1>0, LenProperties
<1>2. /\ \A h \in 1 .. n : /\ b[h - 1] \in Nat /\ b[h] \in Nat /\ Len(css[h]) \in Nat
                           /\ b[h] = b[h - 1] + Len(css[h]) /\ b[h] <= L
      /\ \A i \in 1 .. L : \E h \in 1 .. n : b[h - 1] < i /\ i <= b[h]
      /\ \A h, k \in 1 .. n : h < k => b[h] <= b[k - 1]
      /\ \A h \in 1 .. n : \A i \in 1 .. L : b[h - 1] < i /\ i <= b[h] => rs[i].path = q[h] /\ rs[i].index = i
  <2>1. Places(rs, s, css, b)
    BY RecordPlaces
  <2> QED
    BY <1>l, <1>n, <2>1 DEF Places, q
<1>3. PICK x \in Nat, y \in Nat, c \in Nat : x = b[j - 1] /\ y = b[j] /\ c = Len(css[j]) /\ y = x + c /\ y <= L
  <2>1. b[j - 1] \in Nat /\ b[j] \in Nat /\ Len(css[j]) \in Nat /\ b[j] = b[j - 1] + Len(css[j]) /\ b[j] <= L
    BY <1>2, <1>n
  <2> QED
    BY <2>1
<1> DEFINE S == {t \in Range(rs) : t.path = p}
<1>4. ASSUME NEW i \in 1 .. L
      PROVE  rs[i] \in S <=> (x < i /\ i <= y)
  <2>1. PICK h \in 1 .. n : b[h - 1] < i /\ i <= b[h]
    BY <1>2
  <2>2. rs[i].path = q[h] /\ rs[i] \in Range(rs)
    BY <1>2, <1>l, <2>1 DEF Range
  <2>3. q[h] = p => h = j
    <3>1. h \in 1 .. Len(q) /\ j \in 1 .. Len(q)
      BY <1>1, <1>n
    <3> QED
      BY <1>1, <3>1 DEF q
  <2>4. ASSUME x < i, i <= y PROVE h = j
    <3>1. ~ (h < j)
      <4> SUFFICES ASSUME h < j PROVE FALSE
        OBVIOUS
      <4>1. b[h] <= x /\ b[h] \in Nat
        BY <1>2, <1>3, <1>n
      <4> QED
        BY <2>1, <2>4, <4>1
    <3>2. ~ (j < h)
      <4> SUFFICES ASSUME j < h PROVE FALSE
        OBVIOUS
      <4>1. y <= b[h - 1] /\ b[h - 1] \in Nat
        BY <1>2, <1>3, <1>n
      <4> QED
        BY <2>1, <2>4, <4>1
    <3> QED
      BY <1>n, <3>1, <3>2
  <2>5. rs[i] \in S <=> h = j
    BY <2>2, <2>3 DEF q
  <2> QED
    BY <1>3, <2>1, <2>4, <2>5
<1> HIDE DEF S
<1>5. Only(rs, S) \in Seq(Records) /\ IsPart(Only(rs, S), rs, x, y - x)
  <2>1. x <= y
    BY <1>3
  <2> QED
    BY <1>0, <1>3, <1>4, <1>l, <2>1, OnlyRange
<1>6. r = Only(rs, S) /\ y - x = c
  BY <1>3 DEF S, AreOf
<1>7. r \in Seq(Records) /\ Len(r) = c /\ \A k \in 1 .. c : r[k] = rs[x + k]
  BY <1>5, <1>6 DEF IsPart
<1>8. \A k \in 1 .. c : rs[x + k] = recordFor(x + k, p, s[p], k, css[j][k])
  BY <1>3, <1>n DEF AreRecords
<1>9. \A k \in 1 .. c : x + k \in 1 .. L
  BY <1>3
<1>10. \A k \in 1 .. c : rs[x + k] \in Range(rs)
  BY <1>9, <1>l DEF Range
<1> QED
  BY <1>3, <1>7, <1>8, <1>10 DEF AreChunks

\* There are none of a path that is no file of the source.
LEMMA RecordsOfNone ==
  ASSUME NEW rs, NEW s \in Sources, NEW css, NEW b, AreRecords(rs, s, css, b), NEW p, p \notin DOMAIN s
  PROVE  Only(rs, {t \in Range(rs) : t.path = p}) = <<>>
<1>0. rs \in Seq(Records) /\ css \in Seq(Seq(Seq(Bytes))) /\ Len(css) <= Len(scanRegularFiles(s))
  BY DEF AreRecords
<1>n. PICK n \in Nat : n = Len(css)
  BY <1>0, LenProperties
<1>1. \A i \in 1 .. Len(rs) : rs[i].path # p
  <2> SUFFICES ASSUME NEW i \in 1 .. Len(rs) PROVE rs[i].path # p
    OBVIOUS
  <2>1. PICK j \in 1 .. n : rs[i].path = scanRegularFiles(s)[j]
    <3>1. Places(rs, s, css, b)
      BY RecordPlaces
    <3> QED
      BY <1>n, <3>1 DEF Places
  <2>2. j \in 1 .. Len(scanRegularFiles(s))
    <3>1. Len(scanRegularFiles(s)) \in Nat
      BY ScanIs
    <3> QED
      BY <1>0, <1>n, <3>1
  <2>3. scanRegularFiles(s)[j] \in DOMAIN s
    BY <2>2, ScanIs
  <2> QED
    BY <2>1, <2>3
<1> DEFINE S == {t \in Range(rs) : t.path = p}
<1>2. \A i \in 1 .. Len(rs) : rs[i] \notin S
  BY <1>1
<1> HIDE DEF S
<1>3. Only(rs, S) = <<>>
  BY <1>0, <1>2, OnlyAll
<1> QED
  BY <1>3 DEF S

\* The records of a whole session, a file's of them, are those that were prepared.
LEMMA SessionRecords ==
  ASSUME DataInv, op = "upload", todo = <<>>, NEW css, NEW b, UploadAt(css, b), Buildable(index, Len(chunks))
  PROVE  /\ \A p : recordsOf(p) = Only(chunks, {t \in Range(chunks) : t.path = p})
         /\ source \notin stale => \A r \in Range(chunks) : Stored(r.chunk, objects)
<1>0. /\ AreRecords(chunks, source, css, b) /\ chunks \in Seq(Records) /\ source \in Sources
      /\ index \in Seq(Records) /\ Len(chunks) \in Nat /\ DOMAIN index = 1 .. Len(index)
      /\ \A k \in 1 .. Len(index) : index[k] \in Range(chunks) /\ (source \notin stale => Stored(index[k].chunk, objects))
  <2>1. /\ AreRecords(chunks, source, css, b) /\ chunks \in Seq(Records) /\ index \in Seq(Records)
        /\ source \in Sources /\ AllRecords(chunks, source)
    BY AllPrepared DEF UploadAt
  <2>2. IsSession(index, source, objects, source \notin stale)
    BY <2>1 DEF DataInv, SessionsInv, index
  <2>3. \A k \in 1 .. Len(index) : index[k] \in Range(chunks) /\ (source \notin stale => Stored(index[k].chunk, objects))
    BY <2>1, <2>2 DEF IsSession
  <2> QED
    BY <2>1, <2>3, LenProperties
<1>1. \A k \in 1 .. Len(chunks) : chunks[k].index = k
  <2>1. Places(chunks, source, css, b)
    BY <1>0, RecordPlaces
  <2> QED
    BY <2>1 DEF Places
<1>2. /\ [k \in 1 .. Cardinality(Indices(index)) |-> lastRecord(index, nthIndex(index, k))] = chunks
      /\ Range(index) = Range(chunks)
  BY <1>0, <1>1, ByIndex
<1>3. \A p : recordsOf(p) = Only(chunks, {t \in Range(chunks) : t.path = p})
  BY <1>2 DEF recordsOf
<1>4. source \notin stale => \A r \in Range(chunks) : Stored(r.chunk, objects)
  BY <1>0, <1>2 DEF Range
<1> QED
  BY <1>3, <1>4

\* buildManifest's entry of a file, of the records of its chunks.
LEMMA SessionFile ==
  ASSUME NEW p \in Range(Paths), NEW bytes \in Seq(Bytes), NEW cs, Cutting("fixed", cs), FlattenSeq(cs) = bytes,
         NEW i \in Nat, AreChunks(recordsOf(p), p, bytes, cs, i)
  PROVE  IsFile(fileOf(p), "fixed", p, bytes) /\ hashesOf(fileOf(p)) = cs
<1> DEFINE rs == recordsOf(p)
<1>0. cs \in Seq(Seq(Bytes)) /\ cs # <<>>
  BY DEF Cutting
<1>c. PICK c \in Nat : c = Len(cs) /\ DOMAIN cs = 1 .. c /\ c # 0
  BY <1>0, LenProperties, EmptySeq
<1>1. rs \in Seq(Records) /\ Len(rs) = c /\ DOMAIN rs = 1 .. c
  BY <1>c, LenProperties DEF AreChunks
<1>2. \A k \in 1 .. c : /\ rs[k].at = k /\ rs[k].chunk = cs[k] /\ rs[k].size = Len(bytes) /\ rs[k].digest = bytes
  BY <1>c, RecordIs DEF AreChunks
<1>3. \A k \in 1 .. c : nthChunk(rs, k) = rs[k]
  <2> HIDE DEF rs
  <2> QED
    BY <1>1, <1>2, ByNumber
<1>4. 1 \in 1 .. c
  BY <1>c
<1> DEFINE cr == [k \in 1 .. c |-> ref(k, cs[k])]
           f == [path |-> p, size |-> Len(bytes), digest |-> bytes, chunks |-> cr]
<1>5. fileOf(p) = f
  <2>1. \A k \in 1 .. c : LET r == nthChunk(rs, k)
                          IN  [index |-> r.at, size |-> Len(r.chunk), sha |-> r.chunk, object |-> r.chunk] = ref(k, cs[k])
    BY <1>2, <1>3 DEF ref
  <2> QED
    BY <1>1, <1>2, <1>4, <2>1 DEF fileOf
<1>6. \A k \in 1 .. c : ref(k, cs[k]) \in ChunkRefs
  <2> SUFFICES ASSUME NEW k \in 1 .. c PROVE ref(k, cs[k]) \in ChunkRefs
    OBVIOUS
  <2>1. cs[k] \in Seq(Bytes) /\ k \in Nat
    BY <1>0, <1>c, ElementOfSeq
  <2>2. Len(cs[k]) \in Nat
    BY <2>1, LenProperties
  <2> QED
    BY <2>1, <2>2 DEF ref, ChunkRefs
<1>7. cr \in Seq(ChunkRefs) /\ Len(cr) = c /\ DOMAIN cr = 1 .. c /\ \A k \in 1 .. c : cr[k] = ref(k, cs[k])
  <2> DEFINE h(k) == ref(k, cs[k])
  <2>1. cr = [k \in 1 .. c |-> h(k)] /\ \A k \in 1 .. c : h(k) \in ChunkRefs
    BY <1>6
  <2> HIDE DEF h, cr
  <2>2. cr \in [1 .. c -> ChunkRefs] /\ \A k \in 1 .. c : cr[k] = h(k)
    BY <2>1
  <2>3. cr \in Seq(ChunkRefs) /\ Len(cr) = c /\ DOMAIN cr = 1 .. c
    BY <2>2
  <2> QED
    BY <2>2, <2>3 DEF h
<1> HIDE DEF cr
<1>8. hashesOf(f) = cs
  <2>1. \A k \in 1 .. c : cr[k].sha = cs[k]
    BY <1>7, RefIs
  <2>2. [k \in DOMAIN cr |-> cr[k].sha] = [k \in 1 .. c |-> cs[k]]
    BY <1>7, <2>1
  <2>3. [k \in 1 .. c |-> cs[k]] = cs
    BY <1>0, <1>c
  <2> QED
    BY <2>2, <2>3 DEF hashesOf
<1>9. IsFile(f, "fixed", p, bytes)
  <2>1. Len(bytes) \in Nat
    BY LenProperties
  <2>2. f \in FileRecords
    BY <1>7, <2>1 DEF FileRecords
  <2>3. \A k \in 1 .. Len(f.chunks) : f.chunks[k] = ref(k, f.chunks[k].sha)
    <3>1. \A k \in 1 .. c : cr[k] = ref(k, cr[k].sha)
      BY <1>7, RefIs
    <3> QED
      BY <1>7, <3>1
  <2>4. f.path = p /\ f.size = Len(bytes) /\ f.digest = bytes
    OBVIOUS
  <2> HIDE DEF f
  <2> QED
    BY <1>8, <2>2, <2>3, <2>4 DEF IsFile
<1> QED
  BY <1>5, <1>8, <1>9

\* The manifest is built from the records of the session, and committed.
LEMMA EndUploadData ==
  ASSUME DataInv, EndUpload
  PROVE  DataInv'
<1>0. /\ op = "upload" /\ todo = <<>> /\ Buildable(index, Len(chunks)) /\ Idle /\ UNCHANGED <<target, version>>
      /\ commit([version |-> 0, mode |-> "fixed", files |-> filesOfSession])
  BY DEF EndUpload
<1>1. /\ source \in Sources /\ version = 0 /\ Len(texts) < MaxVersion /\ \E css, b : UploadAt(css, b)
  BY <1>0 DEF DataInv, UploadInv, ShapeInv
<1>2. PICK css, b : UploadAt(css, b)
  BY <1>1
<1> DEFINE q == scanRegularFiles(source)
<1>3. /\ Len(q) \in Nat /\ q \in Seq(Range(Paths))
      /\ \A k \in 1 .. Len(q) : q[k] \in Range(Paths) /\ q[k] \in DOMAIN source /\ source[q[k]] \in Seq(Bytes)
      /\ \A p \in DOMAIN source : \E k \in 1 .. Len(q) : q[k] = p
  BY <1>1, ScanIs
<1>4. AreRecords(chunks, source, css, b) /\ Len(css) = Len(q) /\ css \in Seq(Seq(Seq(Bytes)))
  BY <1>0, <1>2, <1>3, NothingLeft DEF UploadAt, AreRecords
<1>q. q = scanRegularFiles(source)
  OBVIOUS
<1> HIDE DEF q
<1>n. PICK n \in Nat : n = Len(q) /\ n = Len(css) /\ DOMAIN q = 1 .. n
  BY <1>3, <1>4, LenProperties
<1>5. /\ \A p : recordsOf(p) = Only(chunks, {t \in Range(chunks) : t.path = p})
      /\ source \notin stale => \A r \in Range(chunks) : Stored(r.chunk, objects)
  BY <1>0, <1>2, SessionRecords
<1>6. ASSUME NEW j \in 1 .. n
      PROVE  /\ AreChunks(recordsOf(q[j]), q[j], source[q[j]], css[j], b[j - 1])
             /\ \A k \in 1 .. Len(recordsOf(q[j])) : recordsOf(q[j])[k] \in Range(chunks)
             /\ Cutting("fixed", css[j]) /\ FlattenSeq(css[j]) = source[q[j]] /\ b[j - 1] \in Nat
  <2>1. Cutting("fixed", css[j]) /\ FlattenSeq(css[j]) = source[q[j]]
    BY <1>4, <1>n, <1>q DEF AreRecords
  <2>2. b[j - 1] \in Nat
    <3>1. Places(chunks, source, css, b)
      BY <1>1, <1>4, RecordPlaces
    <3> QED
      BY <1>n, <3>1 DEF Places
  <2>3. recordsOf(q[j]) = Only(chunks, {t \in Range(chunks) : t.path = q[j]})
    BY <1>5
  <2>4. j \in 1 .. Len(css) /\ q[j] = scanRegularFiles(source)[j]
    BY <1>n, <1>q
  <2>5. /\ AreChunks(recordsOf(q[j]), q[j], source[q[j]], css[j], b[j - 1])
        /\ \A k \in 1 .. Len(recordsOf(q[j])) : recordsOf(q[j])[k] \in Range(chunks)
    <3>1. PICK p : p = q[j] /\ p = scanRegularFiles(source)[j]
      BY <2>4
    <3>2. PICK r : r = recordsOf(p)
      OBVIOUS
    <3>3. r = Only(chunks, {t \in Range(chunks) : t.path = p})
      BY <2>3, <3>1, <3>2
    <3>4. AreChunks(r, p, source[p], css[j], b[j - 1]) /\ \A k \in 1 .. Len(r) : r[k] \in Range(chunks)
      <4>1. PICK rs, s : rs = chunks /\ s = source
        OBVIOUS
      <4>2. s \in Sources /\ AreRecords(rs, s, css, b) /\ p = scanRegularFiles(s)[j]
        BY <1>1, <1>4, <3>1, <4>1
      <4>3. j \in 1 .. Len(css) /\ AreOf(r, rs, p)
        BY <2>4, <3>3, <4>1 DEF AreOf
      <4>4. AreChunks(r, p, s[p], css[j], b[j - 1]) /\ \A k \in 1 .. Len(r) : r[k] \in Range(rs)
        BY <4>2, <4>3, RecordsOfFile
      <4> QED
        BY <4>1, <4>4
    <3> QED
      BY <3>1, <3>2, <3>4
  <2> QED
    BY <2>1, <2>2, <2>5
<1>7. ASSUME NEW j \in 1 .. n
      PROVE  /\ IsFile(fileOf(q[j]), "fixed", q[j], source[q[j]]) /\ recordsOf(q[j]) # <<>>
             /\ source \notin stale =>
                   \A c \in 1 .. Len(fileOf(q[j]).chunks) : Stored(fileOf(q[j]).chunks[c].sha, objects)
  <2>1. q[j] \in Range(Paths) /\ source[q[j]] \in Seq(Bytes)
    BY <1>3, <1>n
  <2>2. IsFile(fileOf(q[j]), "fixed", q[j], source[q[j]]) /\ hashesOf(fileOf(q[j])) = css[j]
    BY <1>6, <2>1, SessionFile
  <2>3. css[j] \in Seq(Seq(Bytes)) /\ css[j] # <<>>
    BY <1>6 DEF Cutting
  <2>4. Len(css[j]) # 0
    BY <2>3, EmptySeq
  <2>5. recordsOf(q[j]) # <<>>
    BY <1>6, <2>4 DEF AreChunks
  <2>6. fileOf(q[j]) \in FileRecords
    BY <2>2 DEF IsFile
  <2>7. PICK f : f = fileOf(q[j])
    OBVIOUS
  <2>8. f.chunks \in Seq(ChunkRefs)
    BY <2>6, <2>7 DEF FileRecords
  <2>9. PICK c \in Nat : c = Len(f.chunks) /\ DOMAIN f.chunks = 1 .. c
    BY <2>8, LenProperties
  <2>10. [k \in 1 .. c |-> f.chunks[k].sha] = css[j]
    BY <2>2, <2>7, <2>9 DEF hashesOf
  <2>11. Len(css[j]) = c /\ \A k \in 1 .. c : css[j][k] = f.chunks[k].sha
    BY <2>3, <2>10
  <2>12. source \notin stale => \A k \in 1 .. c : Stored(f.chunks[k].sha, objects)
    <3> SUFFICES ASSUME source \notin stale, NEW k \in 1 .. c PROVE Stored(css[j][k], objects)
      BY <2>11
    <3>1. recordsOf(q[j])[k] \in Range(chunks) /\ recordsOf(q[j])[k].chunk = css[j][k]
      BY <1>6, <2>11, RecordIs DEF AreChunks
    <3> QED
      BY <1>5, <3>1
  <2> QED
    BY <2>2, <2>5, <2>7, <2>9, <2>12
<1> DEFINE T == {p \in Range(Paths) : recordsOf(p) # <<>>}
           fs == [k \in 1 .. n |-> fileOf(q[k])]
<1>8. Only(Paths, T) = q
  <2>1. Paths \in Seq(Range(Paths)) /\ Len(Paths) \in Nat /\ DOMAIN Paths = 1 .. Len(Paths)
    BY DataPathAssumption, LenProperties
  <2>2. \A p \in DOMAIN source : recordsOf(p) # <<>>
    BY <1>3, <1>7, <1>n
  <2>3. \A p : p \notin DOMAIN source => recordsOf(p) = <<>>
    BY <1>1, <1>4, <1>5, RecordsOfNone
  <2>4. \A k \in 1 .. Len(Paths) : Paths[k] \in T <=> Paths[k] \in DOMAIN source
    BY <2>1, <2>2, <2>3 DEF Range
  <2> HIDE DEF T
  <2>5. Only(Paths, T) = Only(Paths, DOMAIN source)
    BY <2>1, <2>4, OnlyAgree
  <2> QED
    BY <1>q, <2>5 DEF scanRegularFiles
<1>9. filesOfSession = fs
  <2> HIDE DEF T
  <2>1. filesOfSession = [k \in DOMAIN Only(Paths, T) |-> fileOf(Only(Paths, T)[k])]
    BY DEF filesOfSession, T
  <2> QED
    BY <1>8, <1>n, <2>1
<1>10. fs \in Seq(FileRecords) /\ Len(fs) = n /\ \A k \in 1 .. n : fs[k] = fileOf(q[k])
  <2>1. \A k \in 1 .. n : fileOf(q[k]) \in FileRecords
    BY <1>7 DEF IsFile
  <2> DEFINE h(k) == fileOf(q[k])
  <2>2. fs = [k \in 1 .. n |-> h(k)] /\ \A k \in 1 .. n : h(k) \in FileRecords
    BY <2>1
  <2> HIDE DEF h, fs
  <2>3. fs \in [1 .. n -> FileRecords] /\ \A k \in 1 .. n : fs[k] = h(k)
    BY <2>2
  <2>4. fs \in Seq(FileRecords) /\ Len(fs) = n
    BY <2>3
  <2> QED
    BY <2>3, <2>4 DEF h
<1> HIDE DEF fs
<1>11. AreFiles(fs, "fixed", source) /\ (source \in stale \/ Kept(fs, objects))
  <2>1. \A k \in 1 .. n : IsFile(fs[k], "fixed", q[k], source[q[k]])
    BY <1>7, <1>10
  <2>2. source \notin stale =>
           \A k \in 1 .. n : \A c \in 1 .. Len(fs[k].chunks) : Stored(fs[k].chunks[c].sha, objects)
    BY <1>7, <1>10
  <2>3. n <= Len(q)
    BY <1>n
  <2> QED
    BY <1>10, <1>q, <2>1, <2>2, <2>3 DEF AreFiles, Kept
<1> DEFINE m == [version |-> 0, mode |-> "fixed", files |-> fs]
<1>12. m \in Manifests /\ m.files = fs /\ m.mode = "fixed" /\ commit(m)
  BY <1>0, <1>9, <1>10 DEF Manifests, Modes
<1> HIDE DEF m
<1> QED
  BY <1>0, <1>1, <1>10, <1>11, <1>12, <1>n, <1>q, CommitData

-----------------------------------------------------------------------------
(***************************************************************************)
(* Restore, and damages.                                                   *)
(***************************************************************************)
\* A version that is loaded, and what it says of the files of its source.
LEMMA Loaded ==
  ASSUME ShapeInv, VersionsInv, NEW v \in 1 .. Len(texts)
  PROVE  /\ contents[v] \in Sources
         /\ load(v) # Invalid => IsManifest(load(v), v, contents[v])
         /\ v \in sound => load(v) # Invalid /\ Kept(load(v).files, objects)
<1>1. IsVersion(v, texts[v], contents[v], objects, v \in sound) /\ (v \in sound) \in BOOLEAN
  BY DEF VersionsInv
<1>2. contents[v] \in Sources
  BY ElementOfSeq DEF ShapeInv
<1> QED
  BY <1>1, <1>2, LoadIs DEF load

\* The bytes of a file are those of its chunks, one behind the other.
LEMMA FileBytes ==
  ASSUME NEW f, NEW o, NEW p, NEW bytes, IsFile(f, o, p, bytes)
  PROVE  bytesOf(f) = bytes /\ f.path = p /\ f.digest = bytes /\ f.size = Len(bytes)
<1>1. bytesOf(f) = FlattenSeq(hashesOf(f))
  BY DEF bytesOf, hashesOf
<1> QED
  BY <1>1 DEF IsFile

\* What a loaded version says of a file of its source.
LEMMA FileOfVersion ==
  ASSUME NEW v, load(v) # Invalid, IsManifest(load(v), v, contents[v]), contents[v] \in Sources,
         NEW k \in 1 .. Len(scanRegularFiles(contents[v]))
  PROVE  /\ fileAt(v, scanRegularFiles(contents[v])[k]) = load(v).files[k]
         /\ IsFile(load(v).files[k], load(v).mode, scanRegularFiles(contents[v])[k],
                   contents[v][scanRegularFiles(contents[v])[k]])
<1> DEFINE q == scanRegularFiles(contents[v])
           fs == load(v).files
           o == load(v).mode
<1>1. Len(q) \in Nat /\ \A h, j \in 1 .. Len(q) : q[h] = q[j] => h = j
  BY ScanIs
<1>2. fs \in Seq(FileRecords) /\ Len(fs) = Len(q) /\ \A j \in 1 .. Len(fs) : IsFile(fs[j], o, q[j], contents[v][q[j]])
  BY DEF IsManifest, AreFiles
<1> HIDE DEF q, fs, o
<1>3. DOMAIN fs = 1 .. Len(q)
  BY <1>2, LenProperties
<1>4. \A j \in 1 .. Len(q) : fs[j].path = q[j]
  BY <1>2, FileBytes
<1>k. k \in 1 .. Len(q)
  BY DEF q
<1>5. \A f \in Range(fs) : f.path = q[k] => f = fs[k]
  BY <1>1, <1>3, <1>4, <1>k DEF Range
<1>6. fs[k] \in Range(fs) /\ fs[k].path = q[k]
  BY <1>3, <1>4, <1>k DEF Range
<1>7. (CHOOSE f \in Range(fs) : f.path = q[k]) = fs[k]
  BY <1>5, <1>6
<1>8. fileAt(v, q[k]) = fs[k]
  BY <1>7 DEF fileAt, fs
<1>9. IsFile(fs[k], o, q[k], contents[v][q[k]])
  BY <1>2, <1>k
<1> QED
  BY <1>8, <1>9 DEF q, fs, o

\* restore loads the manifest and begins with its first file.
LEMMA StartRestoreData ==
  ASSUME DataInv, NEW v \in Versions, StartRestore(v)
  PROVE  DataInv'
<1>0. /\ op = "none" /\ load(v) # Invalid /\ op' = "restore" /\ version' = v
      /\ todo' = [k \in DOMAIN load(v).files |-> load(v).files[k].path]
      /\ UNCHANGED <<chunkerVars, objects, texts, contents, damages, stops, sound, stale, target, source, cutting, refs, files, chunks, sessions>>
  BY DEF StartRestore, stored, histories
<1>1. v \in 1 .. Len(texts) /\ Len(texts) \in Nat
  BY DEF Versions, DataInv, ShapeInv
<1>2. contents[v] \in Sources /\ IsManifest(load(v), v, contents[v])
  BY <1>0, <1>1, Loaded DEF DataInv
<1>c. PICK s \in Sources : s = contents[v]
  BY <1>2
<1> DEFINE q == scanRegularFiles(s)
           fs == load(v).files
<1>3. q \in Seq(Range(Paths)) /\ Len(q) \in Nat
  BY ScanIs
<1>4. fs \in Seq(FileRecords) /\ Len(fs) = Len(q) /\ \A j \in 1 .. Len(q) : fs[j].path = q[j]
  <2>1. \A j \in 1 .. Len(fs) : IsFile(fs[j], load(v).mode, q[j], s[q[j]])
    BY <1>2, <1>c DEF IsManifest, AreFiles
  <2>2. fs \in Seq(FileRecords) /\ Len(fs) = Len(q)
    BY <1>2, <1>c DEF IsManifest, AreFiles
  <2> HIDE DEF q, fs
  <2> QED
    BY <2>1, <2>2, FileBytes
<1>5. todo' = q
  <2> HIDE DEF q, fs
  <2>1. DOMAIN fs = 1 .. Len(q) /\ DOMAIN q = 1 .. Len(q)
    BY <1>3, <1>4, LenProperties
  <2>2. todo' = [j \in 1 .. Len(q) |-> fs[j].path]
    BY <1>0, <2>1 DEF fs
  <2>3. todo' = [j \in 1 .. Len(q) |-> q[j]]
    BY <1>4, <2>2
  <2> QED
    BY <1>3, <2>1, <2>3
<1>6. LeftOf(todo', q, 0)
  BY <1>5, NothingDone
<1>7. RestoredAt(0)'
  <2>1. 1 .. 0 = {}
    OBVIOUS
  <2>2. scanRegularFiles(contents'[version']) = q
    BY <1>0, <1>c
  <2> HIDE DEF q
  <2> QED
    BY <1>6, <2>1, <2>2 DEF RestoredAt
<1>8. RestoreInv'
  <2>1. load(version)' = load(v)
    BY <1>0 DEF load
  <2>2. cutting = FALSE /\ refs = <<>> /\ files = <<>> /\ chunks = <<>>
    BY <1>0 DEF DataInv, IdleInv
  <2>3. \E d \in Nat : RestoredAt(d)'
    BY <1>7
  <2>4. version' \in 1 .. Len(texts')
    BY <1>0, <1>1
  <2> QED
    BY <1>0, <2>1, <2>2, <2>3, <2>4 DEF RestoreInv
<1>9. ShapeInv'
  <2>1. v \in 0 .. Len(texts)
    BY <1>1
  <2> QED
    BY <1>0, <2>1 DEF DataInv, ShapeInv, Ops
<1>10. VersionsInv' /\ SessionsInv' /\ TargetInv' /\ CutInv'
  BY <1>0, SameVersions, SameSessions, SameTarget, SameCuts DEF DataInv
<1>11. IdleInv' /\ CreateInv' /\ UploadInv'
  BY <1>0 DEF IdleInv, CreateInv, UploadInv
<1> QED
  BY <1>8, <1>9, <1>10, <1>11 DEF DataInv

\* restore throws when the manifest does not load.
LEMMA RestoreUnreadableData ==
  ASSUME DataInv, NEW v, RestoreUnreadable(v)
  PROVE  DataInv'
<1>0. /\ op = "none" /\ op' = "none" /\ version' = 0
      /\ UNCHANGED <<chunkerVars, objects, texts, contents, damages, stops, sound, stale, target, source, todo, cutting,
                     refs, files, chunks, sessions>>
  BY DEF RestoreUnreadable, stored, histories
<1>1. ShapeInv'
  <2>1. 0 \in 0 .. Len(texts)
    BY LenProperties DEF DataInv, ShapeInv
  <2> QED
    BY <1>0, <2>1 DEF DataInv, ShapeInv
<1>2. VersionsInv' /\ SessionsInv' /\ TargetInv' /\ CutInv'
  BY <1>0, SameVersions, SameSessions, SameTarget, SameCuts DEF DataInv
<1>3. IdleInv' /\ CreateInv' /\ UploadInv' /\ RestoreInv'
  BY <1>0 DEF DataInv, IdleInv, CreateInv, UploadInv, RestoreInv
<1> QED
  BY <1>1, <1>2, <1>3 DEF DataInv

\* What a restore has found out of a version, and what it does next.
LEMMA Restoring ==
  ASSUME DataInv, op = "restore", NEW d \in Nat, RestoredAt(d), todo # <<>>, NEW s, s = contents[version]
  PROVE  /\ s \in Sources /\ d < Len(scanRegularFiles(s)) /\ Head(todo) = scanRegularFiles(s)[d + 1]
         /\ LeftOf(Tail(todo), scanRegularFiles(s), d + 1)
         /\ fileAt(version, Head(todo)) = load(version).files[d + 1]
         /\ IsFile(load(version).files[d + 1], load(version).mode, Head(todo), s[Head(todo)])
<1>1. version \in 1 .. Len(texts) /\ load(version) # Invalid
  BY DEF DataInv, RestoreInv
<1>2. s \in Sources /\ IsManifest(load(version), version, s)
  BY <1>1, Loaded DEF DataInv
<1> DEFINE q == scanRegularFiles(s)
<1>3. q \in Seq(Range(Paths)) /\ Len(q) \in Nat
  BY <1>2, ScanIs
<1>4. LeftOf(todo, q, d)
  BY DEF RestoredAt
<1>5. d < Len(q) /\ Head(todo) = q[d + 1] /\ LeftOf(Tail(todo), q, d + 1)
  BY <1>3, <1>4, LeftStep
<1>6. d + 1 \in 1 .. Len(q)
  BY <1>3, <1>5
<1>7. /\ fileAt(version, q[d + 1]) = load(version).files[d + 1]
      /\ IsFile(load(version).files[d + 1], load(version).mode, q[d + 1], s[q[d + 1]])
  BY <1>1, <1>2, <1>6, FileOfVersion
<1> QED
  BY <1>2, <1>5, <1>7

\* A file is put together from its objects, its hash compared, and written.
LEMMA RestoreFileData ==
  ASSUME DataInv, RestoreFile
  PROVE  DataInv'
<1>0. /\ op = "restore" /\ todo # <<>> /\ todo' = Tail(todo)
      /\ FileRestorable(fileAt(version, Head(todo)))
      /\ target' = With(target, fileAt(version, Head(todo)).path, bytesOf(fileAt(version, Head(todo))))
      /\ UNCHANGED <<chunkerVars, objects, texts, contents, damages, stops, sound, stale, op, version, source, cutting, refs, files, chunks, sessions>>
  BY DEF RestoreFile, stored, histories
<1>1. RestoreInv /\ version \in 1 .. Len(texts) /\ \E d \in Nat : RestoredAt(d)
  BY <1>0 DEF DataInv, RestoreInv
<1>2. PICK d \in Nat : RestoredAt(d)
  BY <1>1
<1>c. PICK s : s = contents[version]
  OBVIOUS
<1>f. PICK p : p = Head(todo)
  OBVIOUS
<1>q. PICK q : q = scanRegularFiles(s)
  OBVIOUS
<1>3. /\ s \in Sources /\ d < Len(q) /\ p = q[d + 1] /\ LeftOf(todo', q, d + 1)
      /\ fileAt(version, p) = load(version).files[d + 1]
      /\ IsFile(load(version).files[d + 1], load(version).mode, p, s[p])
  BY <1>0, <1>2, <1>c, <1>f, <1>q, Restoring
<1>4. /\ FileRestorable(load(version).files[d + 1])
      /\ target' = With(target, p, s[p])
  BY <1>0, <1>3, <1>f, FileBytes
<1>5. Len(q) \in Nat /\ p \in DOMAIN s /\ \A h, j \in 1 .. Len(q) : q[h] = q[j] => h = j
  <2>1. Len(q) \in Nat /\ (\A k \in 1 .. Len(q) : q[k] \in DOMAIN s) /\ \A h, j \in 1 .. Len(q) : q[h] = q[j] => h = j
    BY <1>3, <1>q, ScanIs
  <2>2. d + 1 \in 1 .. Len(q)
    BY <1>3, <2>1
  <2> QED
    BY <1>3, <2>1, <2>2
<1>6. DOMAIN target' = DOMAIN target \cup {p} /\ \A x \in DOMAIN target' : target'[x] = IF x = p THEN s[p] ELSE target[x]
  BY <1>4 DEF With
<1>7. RestoredAt(d + 1)'
  <2> SUFFICES ASSUME NEW k \in 1 .. d + 1
               PROVE  /\ FileRestorable(load(version).files[k])' /\ q[k] \in DOMAIN target' /\ target'[q[k]] = s[q[k]]
    BY <1>0, <1>3, <1>c, <1>q DEF RestoredAt
  <2>1. FileRestorable(load(version).files[k])' = FileRestorable(load(version).files[k])
    BY <1>0 DEF FileRestorable, load, bytesOf, Readable
  <2>2. CASE k = d + 1
    BY <1>3, <1>4, <1>6, <2>1, <2>2
  <2>3. CASE k # d + 1
    <3>1. k \in 1 .. d
      BY <2>3
    <3>2. FileRestorable(load(version).files[k]) /\ q[k] \in DOMAIN target /\ target[q[k]] = s[q[k]]
      BY <1>2, <1>c, <1>q, <3>1 DEF RestoredAt
    <3> QED
      BY <1>6, <2>1, <3>2
  <2> QED
    BY <2>2, <2>3
<1>8. RestoreInv'
  <2>1. load(version)' = load(version)
    BY <1>0 DEF load
  <2>2. d + 1 \in Nat
    OBVIOUS
  <2>3. \E e \in Nat : RestoredAt(e)'
    BY <1>7, <2>2
  <2> QED
    BY <1>0, <1>1, <2>1, <2>3 DEF RestoreInv
<1>9. TargetInv'
  <2>1. \A x \in DOMAIN target' : \E v \in 1 .. Len(texts) : x \in DOMAIN contents[v] /\ target'[x] = contents[v][x]
    BY <1>1, <1>5, <1>6, <1>c DEF DataInv, TargetInv
  <2> QED
    BY <1>0, <2>1 DEF TargetInv
<1>10. ShapeInv'
  BY <1>0 DEF DataInv, ShapeInv
<1>11. VersionsInv' /\ SessionsInv' /\ CutInv'
  BY <1>0, SameVersions, SameSessions, SameCuts DEF DataInv
<1>12. IdleInv' /\ CreateInv' /\ UploadInv'
  BY <1>0 DEF IdleInv, CreateInv, UploadInv
<1> QED
  BY <1>8, <1>9, <1>10, <1>11, <1>12 DEF DataInv

\* restore gives up on a file.
LEMMA RestoreFailsData ==
  ASSUME DataInv, RestoreFails
  PROVE  DataInv'
  BY GiveUp DEF RestoreFails, stored, histories

\* restore has written all files.
LEMMA EndRestoreData ==
  ASSUME DataInv, EndRestore
  PROVE  DataInv'
<1>0. /\ op = "restore" /\ todo = <<>> /\ Idle
      /\ UNCHANGED <<objects, texts, contents, damages, stops, sound, stale, sessions, target, version>>
  BY DEF EndRestore, stored, histories
<1>1. version \in 1 .. Len(texts) /\ load(version) # Invalid /\ \E d \in Nat : RestoredAt(d)
  BY <1>0 DEF DataInv, RestoreInv
<1>2. PICK d \in Nat : RestoredAt(d)
  BY <1>1
<1>c. PICK s : s = contents[version]
  OBVIOUS
<1>q. PICK q : q = scanRegularFiles(s)
  OBVIOUS
<1>3. s \in Sources
  BY <1>1, <1>c, Loaded DEF DataInv
<1>4. Len(q) \in Nat /\ \A p \in DOMAIN s : \E k \in 1 .. Len(q) : q[k] = p
  BY <1>3, <1>q, ScanIs
<1>5. d = Len(q)
  BY <1>0, <1>2, <1>4, <1>c, <1>q, NothingLeft DEF RestoredAt
<1>6. \A p \in DOMAIN s : p \in DOMAIN target /\ target[p] = s[p]
  BY <1>2, <1>4, <1>5, <1>c, <1>q DEF RestoredAt
<1>7. TargetInv'
  BY <1>0, <1>6, <1>c DEF DataInv, TargetInv
<1>8. /\ CutInv' /\ IdleInv' /\ CreateInv' /\ UploadInv' /\ RestoreInv'
      /\ op' = "none" /\ cutting' = FALSE
  BY <1>0, IdleKeeps
<1>9. ShapeInv'
  BY <1>0, <1>8 DEF DataInv, ShapeInv, Ops
<1>10. VersionsInv' /\ SessionsInv'
  BY <1>0, SameVersions, SameSessions DEF DataInv
<1> QED
  BY <1>7, <1>8, <1>9, <1>10 DEF DataInv

\* A damage leaves no version sound, and what it leaves of the texts is subtexts.
LEMMA DamageData ==
  ASSUME DataInv, Damage,
         \A h \in DOMAIN objects' : h \in Seq(Bytes) /\ objects'[h] \in Seq(Bytes) \cup {Garbled},
         texts' \in Seq(Seq(Lines)), Len(texts') = Len(texts),
         \A v \in 1 .. Len(texts) : IsVersion(v, texts'[v], contents[v], objects, FALSE)
  PROVE  DataInv'
<1>0. /\ op = "none" /\ damages < MaxDamage /\ damages' = damages + 1 /\ sound' = {} /\ version' = 0
      /\ stale' = {s \in Sources : sessions[s] # <<>>}
      /\ UNCHANGED <<chunkerVars, contents, stops, target, op, source, todo, cutting, refs, files, chunks, sessions>>
  BY DEF Damage
<1>1. CutInv'
  BY <1>0, SameCuts DEF DataInv
<1>2. ShapeInv'
  <2>1. damages + 1 \in 0 .. MaxDamage /\ 0 \in 0 .. Len(texts) /\ {} \subseteq 1 .. Len(texts)
    <3>1. damages \in 0 .. MaxDamage /\ MaxDamage \in Nat /\ Len(texts) \in Nat
      BY DataPathAssumption, LenProperties DEF DataInv, ShapeInv
    <3> QED
      BY <1>0, <3>1
  <2> QED
    BY <1>0, <2>1 DEF DataInv, ShapeInv, Ops
<1>3. VersionsInv'
  <2> SUFFICES ASSUME NEW v \in 1 .. Len(texts)
               PROVE  IsVersion(v, texts'[v], contents'[v], objects', v \in sound')
    BY DEF VersionsInv
  <2>1. (v \in sound') = FALSE
    BY <1>0
  <2>2. IsVersion(v, texts'[v], contents[v], objects', FALSE)
    BY DEF IsVersion
  <2> QED
    BY <1>0, <2>1, <2>2
<1>4. TargetInv'
  BY <1>0 DEF DataInv, TargetInv
<1>5. IdleInv' /\ CreateInv' /\ UploadInv' /\ RestoreInv'
  BY <1>0 DEF DataInv, IdleInv, CreateInv, UploadInv, RestoreInv
<1>6. SessionsInv'
  <2> SUFFICES ASSUME NEW s \in Sources
               PROVE  IsSession(sessions[s], s, objects', s \notin stale')
    BY <1>0 DEF SessionsInv
  <2>1. IsSession(sessions[s], s, objects, s \notin stale)
    BY DEF DataInv, SessionsInv
  <2>2. s \notin stale' => Len(sessions[s]) = 0
    BY <1>0
  <2> QED
    BY <2>1, <2>2 DEF IsSession
<1> QED
  BY <1>1, <1>2, <1>3, <1>4, <1>5, <1>6 DEF DataInv

\* Versions that are not sound need no object.
LEMMA Unsound ==
  ASSUME DataInv, NEW v \in 1 .. Len(texts)
  PROVE  IsVersion(v, texts[v], contents[v], objects, FALSE)
<1>1. IsVersion(v, texts[v], contents[v], objects, v \in sound)
  BY DEF DataInv, VersionsInv
<1> QED
  BY <1>1 DEF IsVersion

\* An object is damaged or lost.
LEMMA DamageObjectData ==
  ASSUME DataInv, DamageObject
  PROVE  DataInv'
<1>0. Damage /\ texts' = texts
  BY DEF DamageObject
<1>1. PICK h \in DOMAIN objects :
          \/ \E d \in (DOMAIN objects \ {h}) \cup {Garbled} : objects' = [objects EXCEPT ![h] = d]
          \/ objects' = Restrict(objects, DOMAIN objects \ {h})
  BY DEF DamageObject
<1>2. \A x \in DOMAIN objects : x \in Seq(Bytes) /\ objects[x] \in Seq(Bytes) \cup {Garbled}
  BY DEF DataInv, ShapeInv
<1>3. \A x \in DOMAIN objects' : x \in Seq(Bytes) /\ objects'[x] \in Seq(Bytes) \cup {Garbled}
  <2>1. CASE \E d \in (DOMAIN objects \ {h}) \cup {Garbled} : objects' = [objects EXCEPT ![h] = d]
    <3>1. PICK d \in (DOMAIN objects \ {h}) \cup {Garbled} : objects' = [objects EXCEPT ![h] = d]
      BY <2>1
    <3>2. d \in Seq(Bytes) \cup {Garbled}
      BY <1>2, <3>1
    <3> QED
      BY <1>2, <3>1, <3>2
  <2>2. CASE objects' = Restrict(objects, DOMAIN objects \ {h})
    BY <1>2, <2>2 DEF Restrict
  <2> QED
    BY <1>1, <2>1, <2>2
<1>4. texts' \in Seq(Seq(Lines)) /\ Len(texts') = Len(texts)
  BY <1>0 DEF DataInv, ShapeInv
<1>5. \A v \in 1 .. Len(texts) : IsVersion(v, texts'[v], contents[v], objects, FALSE)
  BY <1>0, Unsound
<1> QED
  BY <1>0, <1>3, <1>4, <1>5, DamageData

\* Lines of a manifest are lost.
LEMMA DamageTextData ==
  ASSUME DataInv, DamageText
  PROVE  DataInv'
<1>0. Damage /\ objects' = objects
  BY DEF DamageText
<1>a. texts \in Seq(Seq(Lines))
  BY DEF DataInv, ShapeInv
<1>v. PICK v \in DOMAIN texts : \E i, j \in DOMAIN texts[v] :
          /\ i <= j
          /\ texts' = [texts EXCEPT ![v] = SubSeq(texts[v], 1, i - 1) \o SubSeq(texts[v], j + 1, Len(texts[v]))]
  BY DEF DamageText, Versions
<1>1. PICK i \in DOMAIN texts[v], j \in DOMAIN texts[v] :
          /\ i <= j
          /\ texts' = [texts EXCEPT ![v] = SubSeq(texts[v], 1, i - 1) \o SubSeq(texts[v], j + 1, Len(texts[v]))]
  BY <1>v
<1>l. PICK L \in Nat : L = Len(texts) /\ DOMAIN texts = 1 .. L
  BY <1>a, LenProperties
<1>t. PICK t : t = texts[v]
  OBVIOUS
<1>u. PICK u : u = SubSeq(t, 1, i - 1) \o SubSeq(t, j + 1, Len(t))
  OBVIOUS
<1>2. t \in Seq(Lines) /\ i \in 1 .. Len(t) /\ j \in 1 .. Len(t)
  <2>1. t \in Seq(Lines)
    BY <1>1, <1>a, <1>l, <1>t, ElementOfSeq
  <2>2. DOMAIN t = 1 .. Len(t)
    BY <2>1, LenProperties
  <2> QED
    BY <1>1, <1>t, <2>1, <2>2
<1>3. IsVersion(v, t, contents[v], objects, FALSE)
  BY <1>1, <1>l, <1>t, Unsound
<1>4. IsVersion(v, u, contents[v], objects, FALSE) /\ u \in Seq(Lines)
  <2>1. PICK m : IsManifest(m, v, contents[v]) /\ Subtext(t, serialize(m))
    BY <1>3 DEF IsVersion
  <2>2. m \in Manifests
    BY <2>1 DEF IsManifest
  <2>3. serialize(m) \in Seq(Lines)
    BY <2>2, TextLayout
  <2>4. u \in Seq(Lines) /\ Subtext(u, serialize(m))
    BY <1>1, <1>2, <1>u, <2>1, <2>3, SubtextCut
  <2> QED
    BY <2>1, <2>4 DEF IsVersion
<1>5. texts' = [texts EXCEPT ![v] = u]
  BY <1>1, <1>t, <1>u
<1>6. texts' \in Seq(Seq(Lines)) /\ Len(texts') = L
  <2>1. texts' \in [1 .. L -> Seq(Lines)]
    <3>1. texts \in [1 .. L -> Seq(Lines)]
      BY <1>a, <1>l
    <3> QED
      BY <1>4, <1>5, <3>1
  <2> HIDE <1>5
  <2> QED
    BY <2>1
<1>7. \A w \in 1 .. L : IsVersion(w, texts'[w], contents[w], objects, FALSE)
  <2> SUFFICES ASSUME NEW w \in 1 .. L PROVE IsVersion(w, texts'[w], contents[w], objects, FALSE)
    OBVIOUS
  <2>1. CASE w = v
    BY <1>4, <1>5, <1>l, <2>1
  <2>2. CASE w # v
    <3>1. texts'[w] = texts[w]
      BY <1>5, <1>l, <2>2
    <3> QED
      BY <1>l, <3>1, Unsound
  <2> QED
    BY <2>1, <2>2
<1>8. \A h \in DOMAIN objects' : h \in Seq(Bytes) /\ objects'[h] \in Seq(Bytes) \cup {Garbled}
  BY <1>0 DEF DataInv, ShapeInv
<1> QED
  BY <1>0, <1>6, <1>7, <1>8, <1>l, DamageData

\* A step that changes nothing.
LEMMA StutterData ==
  ASSUME DataInv, UNCHANGED vars
  PROVE  DataInv'
<1>0. UNCHANGED <<chunkerVars, objects, texts, contents, damages, stops, sound, stale, target, op, version, source, todo, cutting,
                  refs, files, chunks, sessions>>
  BY DEF vars, stored, histories, command
<1>1. CutInv' /\ VersionsInv' /\ SessionsInv'
  BY <1>0, SameCuts, SameVersions, SameSessions DEF DataInv
<1>2. ShapeInv' /\ TargetInv' /\ IdleInv'
  BY <1>0 DEF DataInv, ShapeInv, TargetInv, IdleInv
<1>3. /\ \A k : chunk(k)' = chunk(k)
      /\ Chunked' = Chunked /\ ends' = ends /\ data' = data /\ mode' = mode
  BY <1>0, SameChunks
<1>4. CreateInv'
  BY <1>0, <1>3 DEF DataInv, CreateInv
<1>5. UploadInv'
  <2>1. \A css, b : UploadAt(css, b)' <=> UploadAt(css, b)
    BY <1>0, <1>3 DEF UploadAt
  <2> QED
    BY <1>0, <1>3, <2>1 DEF DataInv, UploadInv
<1>6. RestoreInv'
  <2>1. \A d : RestoredAt(d)' <=> RestoredAt(d)
    BY <1>0 DEF RestoredAt, FileRestorable, Readable, bytesOf, load
  <2> QED
    BY <1>0, <2>1 DEF DataInv, RestoreInv, load
<1> QED
  BY <1>1, <1>2, <1>4, <1>5, <1>6 DEF DataInv

\* DataInv is inductive.
LEMMA DataStep == DataInv /\ [Next]_vars => DataInv'
<1> SUFFICES ASSUME DataInv, [Next]_vars PROVE DataInv'
  OBVIOUS
<1>1. CASE \E m \in Modes : Begin("create", m)
  BY <1>1, BeginData
<1>2. CASE Begin("upload", "fixed")
  <2>1. "fixed" \in Modes
    BY DEF Modes
  <2> QED
    BY <1>2, <2>1, BeginData
<1>3. CASE NextFile \/ CutFile \/ PutChunk \/ EndFile \/ EndCreate
  BY <1>3, NextFileData, CutFileData, PutChunkData, EndFileData, EndCreateData
<1>4. CASE PrepareFile \/ ReceiveChunk \/ ReceiveAgain \/ StopUpload \/ EndUpload
  BY <1>4, PrepareFileData, ReceiveChunkData, ReceiveAgainData, StopUploadData, EndUploadData
<1>5. CASE \E v \in Versions : StartRestore(v) \/ RestoreUnreadable(v)
  BY <1>5, StartRestoreData, RestoreUnreadableData
<1>6. CASE RestoreFile \/ RestoreFails \/ EndRestore
  BY <1>6, RestoreFileData, RestoreFailsData, EndRestoreData
<1>7. CASE DamageObject \/ DamageText
  BY <1>7, DamageObjectData, DamageTextData
<1>8. CASE UNCHANGED vars
  BY <1>8, StutterData
<1> QED
  BY <1>1, <1>2, <1>3, <1>4, <1>5, <1>6, <1>7, <1>8 DEF Next

\* Every state that create, upload, restore and damages lead to satisfies DataInv.
THEOREM DataInvariance == Spec => []DataInv
<1> QED
  BY InitData, DataStep, PTL DEF Spec

-----------------------------------------------------------------------------
(***************************************************************************)
(* What the invariant implies.                                             *)
(***************************************************************************)
\* What a manifest's file says makes it restorable as long as its objects are good.
LEMMA KeptRestorable ==
  ASSUME NEW f, NEW o, NEW p, NEW bytes, IsFile(f, o, p, bytes),
         \A c \in 1 .. Len(f.chunks) : Stored(f.chunks[c].sha, objects)
  PROVE  FileRestorable(f)
<1>1. f \in FileRecords
  BY DEF IsFile
<1>2. f.chunks \in Seq(ChunkRefs)
  BY <1>1 DEF FileRecords
<1>3. DOMAIN f.chunks = 1 .. Len(f.chunks)
  BY <1>2, LenProperties
<1>4. ASSUME NEW c \in 1 .. Len(f.chunks)
      PROVE  Readable(f.chunks[c]) /\ Len(f.chunks[c].sha) = f.chunks[c].size
  <2>1. PICK h : h = f.chunks[c].sha
    OBVIOUS
  <2>2. f.chunks[c] = ref(c, h)
    BY <2>1 DEF IsFile
  <2>3. f.chunks[c].object = h /\ f.chunks[c].size = Len(h)
    BY <2>2, RefIs
  <2> QED
    BY <2>1, <2>3 DEF Readable, Stored
<1>5. bytesOf(f) = bytes /\ f.digest = bytes /\ f.size = Len(bytes)
  BY FileBytes
<1> QED
  BY <1>3, <1>4, <1>5 DEF FileRestorable

\* The versions are numbered from 1.
LEMMA VersionsAre == DataInv => Versions = 1 .. Len(texts)
  BY DEF DataInv, ShapeInv, Versions

\* DataInv implies each of the properties.
LEMMA DataTypes == DataInv => TypeOK
<1> SUFFICES ASSUME DataInv PROVE TypeOK
  OBVIOUS
<1>0. ShapeInv /\ op \in {"none", "create", "upload", "restore"} /\ contents \in Seq(Sources)
      /\ texts \in Seq(Seq(Lines)) /\ Len(texts) = Len(contents)
  BY DEF DataInv, ShapeInv, Ops
<1>1. ChunkerTypeOK
  BY DEF DataInv, CutInv, ChunkerInv
<1>2. Range(contents) \subseteq Sources
  BY <1>0 DEF Range
<1>3. DOMAIN target \subseteq Range(Paths) /\ Range(target) \subseteq Seq(Bytes)
  <2>1. ASSUME NEW p \in DOMAIN target PROVE p \in Range(Paths) /\ target[p] \in Seq(Bytes)
    <3>1. PICK v \in 1 .. Len(texts) : p \in DOMAIN contents[v] /\ target[p] = contents[v][p]
      BY DEF DataInv, TargetInv
    <3>2. contents[v] \in Sources
      BY <1>0, ElementOfSeq
    <3>3. DOMAIN contents[v] \subseteq Range(Paths) /\ Range(contents[v]) \subseteq Seq(Bytes)
      BY <3>2, DataPathAssumption
    <3> QED
      BY <3>1, <3>3 DEF Range
  <2> QED
    BY <2>1 DEF Range
<1>4. todo \in Seq(Range(Paths))
  <2>1. CASE op = "none"
    BY <2>1 DEF DataInv, IdleInv
  <2>2. CASE op = "create"
    BY <2>2 DEF DataInv, CreateInv, LeftOf
  <2>3. CASE op = "upload"
    BY <2>3 DEF DataInv, UploadInv, UploadAt, LeftOf
  <2>4. CASE op = "restore"
    BY <2>4 DEF DataInv, RestoreInv, RestoredAt, LeftOf
  <2> QED
    BY <1>0, <2>1, <2>2, <2>3, <2>4
<1>5. op # "create" => refs = <<>> /\ files = <<>>
  BY <1>0 DEF DataInv, IdleInv, UploadInv, RestoreInv
<1>6. chunks \in Seq(Records)
  <2>1. op # "upload" => chunks = <<>>
    BY <1>0 DEF DataInv, IdleInv, CreateInv, RestoreInv
  <2>2. ASSUME op = "upload" PROVE chunks \in Seq(Records)
    BY <2>2 DEF DataInv, UploadInv, UploadAt, AreRecords
  <2>3. << >> \in Seq(Records)
    OBVIOUS
  <2> QED
    BY <2>1, <2>2, <2>3
<1>7. refs \in Seq(ChunkRefs) /\ files \in Seq(FileRecords)
  <2>1. op = "create" => refs \in Seq(ChunkRefs) /\ files \in Seq(FileRecords)
    BY DEF DataInv, CreateInv, AreFiles
  <2>2. <<>> \in Seq(ChunkRefs) /\ <<>> \in Seq(FileRecords)
    OBVIOUS
  <2> QED
    BY <1>5, <2>1, <2>2
<1>8. ASSUME NEW k \in DOMAIN refs PROVE refs[k].index = k /\ refs[k].size <= LargestSize
  <2>1. k \in 1 .. Len(refs) /\ refs # <<>>
    BY <1>7
  <2>2. CreateInv /\ op = "create"
    BY <1>5, <2>1 DEF DataInv
  <2>3. Chunked /\ refs[k] = ref(k, chunk(k)) /\ Len(refs) <= Len(ends)
    BY <2>1, <2>2 DEF CreateInv
  <2>4. k \in 1 .. Len(ends)
    <3>1. Len(ends) \in Nat /\ Len(refs) \in Nat
      BY <1>1, <1>7, LenProperties DEF ChunkerTypeOK
    <3> QED
      BY <2>1, <2>3, <3>1
  <2>5. Len(chunk(k)) <= LargestSize
    BY <2>3, <2>4, ChunksOfFile DEF DataInv
  <2> QED
    BY <2>3, <2>5, RefIs
<1>9. sessions \in [Sources -> Seq(Records)] /\ stale \subseteq Sources /\ stops \in 0 .. MaxStops
  BY <1>0 DEF ShapeInv
<1>10. Range(todo) \subseteq Range(Paths)
  BY <1>4 DEF Range
<1>11. sound \subseteq Versions
  BY <1>0 DEF ShapeInv, Versions
<1> QED
  BY <1>0, <1>1, <1>2, <1>3, <1>6, <1>7, <1>8, <1>9, <1>10, <1>11 DEF TypeOK, ShapeInv

LEMMA DataCommitted == DataInv => CommittedIsSource
<1> SUFFICES ASSUME DataInv, NEW v \in Versions, load(v) # Invalid
             PROVE  /\ load(v).version = v
                    /\ [k \in DOMAIN load(v).files |-> load(v).files[k].path] = scanRegularFiles(contents[v])
                    /\ \A f \in Range(load(v).files) :
                          /\ bytesOf(f) = contents[v][f.path] /\ f.digest = contents[v][f.path]
                          /\ f.size = Len(f.digest)
  BY DEF CommittedIsSource
<1>1. v \in 1 .. Len(texts)
  BY DEF Versions, DataInv, ShapeInv
<1>2. contents[v] \in Sources /\ IsManifest(load(v), v, contents[v])
  BY <1>1, Loaded DEF DataInv
<1>s. PICK s \in Sources : s = contents[v]
  BY <1>2
<1>q. PICK q : q = scanRegularFiles(s)
  OBVIOUS
<1>m. PICK m : m = load(v)
  OBVIOUS
<1>3. m \in Manifests /\ m.version = v /\ Len(m.files) = Len(q) /\ m.files \in Seq(FileRecords)
      /\ \A k \in 1 .. Len(q) : IsFile(m.files[k], m.mode, q[k], s[q[k]])
  BY <1>2, <1>m, <1>q, <1>s DEF IsManifest, AreFiles
<1>4. q \in Seq(Range(Paths))
  BY <1>q, ScanIs
<1>n. PICK n \in Nat : n = Len(q) /\ DOMAIN q = 1 .. n /\ DOMAIN m.files = 1 .. n
  BY <1>3, <1>4, LenProperties
<1>5. \A k \in 1 .. n : /\ bytesOf(m.files[k]) = s[q[k]] /\ m.files[k].path = q[k] /\ m.files[k].digest = s[q[k]]
                        /\ m.files[k].size = Len(s[q[k]])
  BY <1>3, <1>n, FileBytes
<1>6. [k \in DOMAIN m.files |-> m.files[k].path] = q
  <2>1. [k \in DOMAIN m.files |-> m.files[k].path] = [k \in 1 .. n |-> q[k]]
    BY <1>5, <1>n
  <2> QED
    BY <1>4, <1>n, <2>1
<1>7. \A f \in Range(m.files) : bytesOf(f) = s[f.path] /\ f.digest = s[f.path] /\ f.size = Len(f.digest)
  BY <1>5, <1>n DEF Range
<1> QED
  BY <1>3, <1>6, <1>7, <1>m, <1>q, <1>s

LEMMA DataSound == DataInv => SoundVerifies
<1> SUFFICES ASSUME DataInv, NEW v \in sound PROVE verify(v)
  BY DEF SoundVerifies
<1>1. v \in 1 .. Len(texts)
  BY DEF DataInv, ShapeInv
<1>2. load(v) # Invalid /\ IsManifest(load(v), v, contents[v]) /\ Kept(load(v).files, objects)
  BY <1>1, Loaded DEF DataInv
<1>3. load(v).files \in Seq(FileRecords) /\ DOMAIN load(v).files = 1 .. Len(load(v).files)
  BY <1>2, LenProperties DEF IsManifest, AreFiles
<1>4. ASSUME NEW k \in DOMAIN load(v).files PROVE FileRestorable(load(v).files[k])
  <2>1. PICK p, bytes : IsFile(load(v).files[k], load(v).mode, p, bytes)
    BY <1>2, <1>3 DEF IsManifest, AreFiles
  <2>2. \A c \in 1 .. Len(load(v).files[k].chunks) : Stored(load(v).files[k].chunks[c].sha, objects)
    BY <1>2, <1>3 DEF Kept
  <2> QED
    BY <2>1, <2>2, KeptRestorable
<1> QED
  BY <1>2, <1>4 DEF verify

LEMMA DataRestored == DataInv => RestoredIsSource
<1> SUFFICES ASSUME DataInv PROVE RestoredIsSource
  OBVIOUS
<1>1. Versions = 1 .. Len(texts)
  BY DEF DataInv, ShapeInv, Versions
<1> QED
  BY <1>1 DEF DataInv, TargetInv, RestoredIsSource

LEMMA DataUploads == DataInv => UploadIsCreate
<1> SUFFICES ASSUME DataInv, NEW v \in Versions, NEW w \in Versions, contents[v] = contents[w],
                    load(v) # Invalid, load(w) # Invalid, load(v).mode = load(w).mode
             PROVE  load(v).files = load(w).files
  BY DEF UploadIsCreate
<1>1. v \in 1 .. Len(texts) /\ w \in 1 .. Len(texts)
  BY DEF Versions, DataInv, ShapeInv
<1>2. IsManifest(load(v), v, contents[v]) /\ IsManifest(load(w), w, contents[v])
  BY <1>1, Loaded DEF DataInv
<1>3. /\ AreFiles(load(v).files, load(v).mode, contents[v]) /\ AreFiles(load(w).files, load(v).mode, contents[v])
      /\ Len(load(v).files) = Len(load(w).files)
  BY <1>2 DEF IsManifest
<1> QED
  BY <1>3, SameFiles

\* The chunks of a file from the i-th on.
LEMMA RestOfFile ==
  ASSUME NEW f, NEW o, NEW p, NEW bytes, IsFile(f, o, p, bytes), NEW i \in DOMAIN f.chunks
  PROVE  Cutting(o, [c \in 1 .. Len(f.chunks) - i + 1 |-> f.chunks[i + c - 1].sha])
<1>1. f \in FileRecords /\ Cutting(o, hashesOf(f))
  BY DEF IsFile
<1>2. f.chunks \in Seq(ChunkRefs)
  BY <1>1 DEF FileRecords
<1>n. PICK n \in Nat : n = Len(f.chunks) /\ DOMAIN f.chunks = 1 .. n
  BY <1>2, LenProperties
<1>c. PICK cs : cs = hashesOf(f)
  OBVIOUS
<1>3. cs = [c \in 1 .. n |-> f.chunks[c].sha] /\ cs \in Seq(Seq(Bytes))
  BY <1>1, <1>c, <1>n DEF hashesOf, Cutting
<1>4. Len(cs) = n /\ \A c \in 1 .. n : cs[c] = f.chunks[c].sha
  BY <1>3
<1>5. i \in 1 .. n
  BY <1>n
<1>6. Cutting(o, [c \in 1 .. n - i + 1 |-> cs[i + c - 1]])
  BY <1>1, <1>4, <1>5, <1>c, RestCutting
<1>7. \A c \in 1 .. n - i + 1 : i + c - 1 \in 1 .. n
  BY <1>5
<1>8. [c \in 1 .. n - i + 1 |-> cs[i + c - 1]] = [c \in 1 .. n - i + 1 |-> f.chunks[i + c - 1].sha]
  BY <1>4, <1>7
<1> QED
  BY <1>6, <1>8, <1>n

LEMMA DataResync == DataInv => CutsResync
<1> SUFFICES ASSUME DataInv, NEW v \in Versions, NEW w \in Versions,
                    load(v) # Invalid, load(w) # Invalid, load(v).mode = "cdc", load(w).mode = "cdc",
                    NEW f \in Range(load(v).files), NEW g \in Range(load(w).files),
                    NEW i \in DOMAIN f.chunks, NEW j \in DOMAIN g.chunks,
                    FlattenSeq([c \in 1 .. Len(f.chunks) - i + 1 |-> f.chunks[i + c - 1].sha])
                       = FlattenSeq([c \in 1 .. Len(g.chunks) - j + 1 |-> g.chunks[j + c - 1].sha])
             PROVE  [c \in 1 .. Len(f.chunks) - i + 1 |-> f.chunks[i + c - 1].sha]
                       = [c \in 1 .. Len(g.chunks) - j + 1 |-> g.chunks[j + c - 1].sha]
  BY DEF CutsResync
<1>1. v \in 1 .. Len(texts) /\ w \in 1 .. Len(texts)
  BY VersionsAre
<1>2. IsManifest(load(v), v, contents[v]) /\ IsManifest(load(w), w, contents[w])
  BY <1>1, Loaded DEF DataInv
<1>3. ASSUME NEW m, NEW u, NEW s, IsManifest(m, u, s), m.mode = "cdc", NEW h \in Range(m.files)
      PROVE  \E p, bytes : IsFile(h, "cdc", p, bytes)
  <2>1. DOMAIN m.files = 1 .. Len(m.files)
    BY <1>3, LenProperties DEF IsManifest, AreFiles
  <2> QED
    BY <1>3, <2>1 DEF IsManifest, AreFiles, Range
<1>4. (\E p, bytes : IsFile(f, "cdc", p, bytes)) /\ \E p, bytes : IsFile(g, "cdc", p, bytes)
  BY <1>2, <1>3
<1>5. /\ Cutting("cdc", [c \in 1 .. Len(f.chunks) - i + 1 |-> f.chunks[i + c - 1].sha])
      /\ Cutting("cdc", [c \in 1 .. Len(g.chunks) - j + 1 |-> g.chunks[j + c - 1].sha])
  BY <1>4, RestOfFile
<1> QED
  BY <1>5, SameCutting

\* A restore that ends has come to the end of its files, or to one that fails.
LEMMA RestoreEnds ==
  ASSUME DataInv, Next, op = "restore", op' = "none"
  PROVE  IF version' = version THEN verify(version) ELSE ~ verify(version) \/ Blocked(Head(todo))
<1>1. RestoreFails \/ EndRestore
  BY DEF Next, Begin, NextFile, CutFile, command, PutChunk, EndFile, EndCreate, PrepareFile, ReceiveChunk, ReceiveAgain,
         StopUpload, EndUpload, StartRestore, RestoreUnreadable, RestoreFile, DamageObject, DamageText, Damage, DataInv, RestoreInv
<1>2. version \in 1 .. Len(texts) /\ load(version) # Invalid /\ \E d \in Nat : RestoredAt(d)
  BY DEF DataInv, RestoreInv
<1>3. PICK d \in Nat : RestoredAt(d)
  BY <1>2
<1>4. contents[version] \in Sources /\ IsManifest(load(version), version, contents[version])
  BY <1>2, Loaded DEF DataInv
<1>s. PICK s \in Sources : s = contents[version]
  BY <1>4
<1>5. Len(scanRegularFiles(s)) \in Nat
  BY ScanIs
<1>6. DOMAIN load(version).files = 1 .. Len(scanRegularFiles(s))
  BY <1>4, <1>s, LenProperties DEF IsManifest, AreFiles
<1>7. CASE RestoreFails
  <2>1. /\ todo # <<>> /\ version' = 0
        /\ ~ FileRestorable(fileAt(version, Head(todo))) \/ Blocked(fileAt(version, Head(todo)).path)
    BY <1>7 DEF RestoreFails
  <2>2. /\ d < Len(scanRegularFiles(s)) /\ fileAt(version, Head(todo)) = load(version).files[d + 1]
        /\ IsFile(load(version).files[d + 1], load(version).mode, Head(todo), s[Head(todo)])
    BY <1>3, <1>s, <2>1, Restoring
  <2>3. d + 1 \in DOMAIN load(version).files
    BY <1>5, <1>6, <2>2
  <2>4. load(version).files[d + 1].path = Head(todo)
    BY <2>2, FileBytes
  <2>5. verify(version) => FileRestorable(load(version).files[d + 1])
    BY <2>3 DEF verify
  <2>6. version # 0
    BY <1>2
  <2> QED
    BY <2>1, <2>2, <2>4, <2>5, <2>6
<1>8. CASE EndRestore
  <2>1. todo = <<>> /\ version' = version
    BY <1>8 DEF EndRestore
  <2>2. LeftOf(<<>>, scanRegularFiles(s), d)
    BY <1>3, <1>s, <2>1 DEF RestoredAt
  <2>3. d = Len(scanRegularFiles(s))
    BY <1>5, <2>2, NothingLeft
  <2>4. \A k \in 1 .. d : FileRestorable(load(version).files[k])
    BY <1>3 DEF RestoredAt
  <2> QED
    BY <1>2, <1>6, <2>1, <2>3, <2>4 DEF verify
<1> QED
  BY <1>1, <1>7, <1>8

-----------------------------------------------------------------------------
(***************************************************************************)
(* The theorems.                                                           *)
(***************************************************************************)

\* Every variable of the data path holds what its readers expect.
THEOREM DataPathTypes == Spec => []TypeOK
  BY DataInvariance, DataTypes, PTL

\* ManifestStore::load: whatever was damaged, a manifest that loads lists the
\* files of the source it was made from, with all of their bytes.
THEOREM CommittedSources == Spec => []CommittedIsSource
  BY DataInvariance, DataCommitted, PTL

\* VerifyEngine::verify finds nothing wrong with a version that was committed
\* after the last damage, by create or out of a session that has no record from
\* before it.
THEOREM SoundVersions == Spec => []SoundVerifies
  BY DataInvariance, DataSound, PTL

\* RestoreEngine::restore writes nothing into the target that the source of a
\* version did not have, and what it reports as restored is all of it.
THEOREM RestoredSources == Spec => []RestoredIsSource
  BY DataInvariance, DataRestored, PTL

\* SessionIndex::buildManifest: an upload, in one go or continued, lists the files
\* that create would list of the same source.
THEOREM UploadsAreCreates == Spec => []UploadIsCreate
  BY DataInvariance, DataUploads, PTL

\* ContentDefinedChunker: files that are the same behind a cut in each are cut
\* the same way from there.
THEOREM CutsMeetAgain == Spec => []CutsResync
  BY DataInvariance, DataResync, PTL

\* In every command the chunkers put each byte they have passed into one chunk,
\* and no chunk is larger or smaller than the sizes allow.
THEOREM CommandsCut == Spec => [](EachByteOnce /\ ChunkSizes)
<1>1. DataInv => EachByteOnce /\ ChunkSizes
  <2>1. DataInv => ChunkerInv
    BY DEF DataInv, CutInv
  <2>2. ChunkerInv => ChunkSizes
    BY DEF ChunkerInv
  <2> QED
    BY <2>1, <2>2, CutEachByte
<1> QED
  BY <1>1, DataInvariance, PTL

\* RestoreEngine::restore ends with a report exactly for a version that verify
\* finds nothing wrong with, unless a directory of the target is in its way.
THEOREM RestoreForetold == Spec => RestoreAsVerified
<1>1. DataInv /\ [Next]_vars =>
        [op = "restore" /\ op' = "none" =>
            IF version' = version THEN verify(version) ELSE ~ verify(version) \/ Blocked(Head(todo))]_vars
  BY RestoreEnds DEF vars
<1> QED
  BY <1>1, DataInvariance, PTL DEF Spec, RestoreAsVerified
=============================================================================
