------------------------------- MODULE Chunker -------------------------------
(***************************************************************************)
(* How the bytes of a file are cut into chunks: FixedChunker and           *)
(* ContentDefinedChunker, one iteration of their loops per step.           *)
(*                                                                         *)
(* A chunk is known by where it ends.  The rolling hash starts anew after  *)
(* each cut and takes in every byte since; all that matters of it is for   *)
(* which runs of bytes its masked bits are zero, and Hits is any such set. *)
(***************************************************************************)
EXTENDS Naturals, Sequences

CONSTANTS
    Bytes,       \* the bytes of a file
    ChunkSize,   \* 64 KiB: chunk_size_
    MinSize,     \* 16 KiB: min_size_
    MaxSize,     \* 256 KiB: max_size_
    Hits         \* the runs of bytes whose hash has zeros under the mask

ASSUME ChunkerAssumption ==
    /\ ChunkSize \in Nat \ {0}
    /\ MinSize \in Nat \ {0}
    /\ MaxSize \in Nat /\ MinSize <= MaxSize
    /\ Hits \subseteq Seq(Bytes)

Modes == {"fixed", "cdc"}

VARIABLES
    mode,    \* which of the two cuts
    data,    \* the bytes of the file
    pos,     \* bytes that the hash has taken in
    ends     \* where the chunks cut so far end, in bytes

chunkerVars == <<mode, data, pos, ends>>

ChunkerTypeOK ==
    /\ mode \in Modes
    /\ data \in Seq(Bytes)
    /\ pos \in Nat
    /\ ends \in Seq(Nat)

\* Where the chunk that is being collected starts.
start == IF ends = <<>> THEN 0 ELSE ends[Len(ends)]

startOf(k) == IF k = 1 THEN 0 ELSE ends[k - 1]

\* Mutant: the byte at which the chunk was cut is left out.
chunkShort(k) == SubSeq(data, startOf(k) + 1, ends[k] - 1)

\* The bytes of the k-th chunk.
chunk(k) == SubSeq(data, startOf(k) + 1, ends[k])

\* Begin to cut a file.
ChunkFile(m, bytes) == mode' = m /\ data' = bytes /\ pos' = 0 /\ ends' = <<>>

Chunked == ends # <<>> /\ start = Len(data)

-----------------------------------------------------------------------------
\* An empty file has one chunk, without bytes.
CutEmpty ==
    /\ data = <<>> /\ ends = <<>>
    /\ ends' = <<0>>
    /\ UNCHANGED <<mode, data, pos>>

\* Mutant: the last chunk has the full size, too.
CutFixedFull ==
    /\ mode = "fixed" /\ start < Len(data)
    /\ ends' = Append(ends, start + ChunkSize)
    /\ UNCHANGED <<mode, data, pos>>

\* The last chunk is as short as what is left.
CutFixed ==
    /\ mode = "fixed" /\ start < Len(data)
    /\ ends' = Append(ends, IF start + ChunkSize <= Len(data) THEN start + ChunkSize ELSE Len(data))
    /\ UNCHANGED <<mode, data, pos>>

\* Mutant: the hash goes on over the cuts.
Rolling == SubSeq(data, 1, pos + 1)

\* The bytes that the hash is about.
Window == SubSeq(data, start + 1, pos + 1)

\* Mutant: one byte above the largest size.
NextByteLate ==
    /\ mode = "cdc" /\ pos < Len(data)
    /\ pos' = pos + 1
    /\ LET len == pos + 1 - start
       IN  ends' = IF len > MaxSize \/ (len >= MinSize /\ Window \in Hits)
                     THEN Append(ends, pos + 1)
                     ELSE ends
    /\ UNCHANGED <<mode, data>>

\* The next byte, and a cut after it at a boundary or at the largest size.
NextByte ==
    /\ mode = "cdc" /\ pos < Len(data)
    /\ pos' = pos + 1
    /\ LET len == pos + 1 - start
       IN  ends' = IF len >= MaxSize \/ (len >= MinSize /\ Window \in Hits)
                     THEN Append(ends, pos + 1)
                     ELSE ends
    /\ UNCHANGED <<mode, data>>

\* What is left after the last boundary.
CutTail ==
    /\ mode = "cdc" /\ pos = Len(data) /\ start < Len(data)
    /\ ends' = Append(ends, Len(data))
    /\ UNCHANGED <<mode, data, pos>>

Cut == CutEmpty \/ CutFixed \/ NextByte \/ CutTail

ChunkerInit ==
    /\ mode \in Modes
    /\ data \in Seq(Bytes)
    /\ pos = 0
    /\ ends = <<>>

ChunkerSpec == ChunkerInit /\ [][Cut]_chunkerVars

-----------------------------------------------------------------------------
(***************************************************************************)
(* Properties.                                                             *)
(***************************************************************************)
InChunk(i, k) == startOf(k) < i /\ i <= ends[k]

\* The cuts go through the file from front to back and leave nothing out: every
\* byte up to the last cut is in one chunk, and no chunk reaches behind the file.
EachByteOnce ==
    /\ start <= Len(data)
    /\ \A i \in 1 .. start :
          \E k \in DOMAIN ends : /\ InChunk(i, k)
                                /\ \A j \in DOMAIN ends : InChunk(i, j) => j = k

LargestSize == IF mode = "fixed" THEN ChunkSize ELSE MaxSize
SmallestSize == IF mode = "fixed" THEN ChunkSize ELSE MinSize

\* No chunk is larger than the mode allows, and only the last chunk of a file is
\* smaller, wherever the hash finds its boundaries.
ChunkSizes ==
    \A k \in DOMAIN ends :
        /\ ends[k] - startOf(k) <= LargestSize
        /\ ends[k] # Len(data) => ends[k] - startOf(k) >= SmallestSize

-----------------------------------------------------------------------------
(***************************************************************************)
(* The inductive invariant behind the two.                                 *)
(***************************************************************************)
EndsIncrease ==
    /\ \A k \in DOMAIN ends : ends[k] <= Len(data)
    /\ \A j, k \in DOMAIN ends : j < k => ends[j] < ends[k]

\* Every byte up to the last cut is in a chunk.
BytesCovered == \A i \in 1 .. start : \E k \in DOMAIN ends : InChunk(i, k)

\* The hash is ahead of the last cut by less than the largest chunk.
HashAhead == mode = "cdc" => start <= pos /\ pos <= Len(data) /\ pos - start < MaxSize

ChunkerInv == ChunkerTypeOK /\ EndsIncrease /\ BytesCovered /\ HashAhead /\ ChunkSizes
=============================================================================
