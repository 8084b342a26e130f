------------------------------- MODULE WalFile -------------------------------
(***************************************************************************)
(* The bytes of metadata/wal.log: WalLog.                                  *)
(*                                                                         *)
(* append opens the file and writes one record at its end.  A full disk or *)
(* the end of the process cuts the record short, and other processes write *)
(* on behind the piece.  compact puts a new file in place of the log; an   *)
(* append that has opened the old one writes to a file without a name.     *)
(*                                                                         *)
(* A byte says which record it belongs to and where, and every byte of a   *)
(* header also shows the payload size that the header gives.  A header put *)
(* together from two records is never taken for one: the magic that starts *)
(* the second is no version and no type, as a size it is above the limit,  *)
(* and as a CRC it is that of no payload here.                             *)
(***************************************************************************)
EXTENDS Naturals, Sequences, SequencesExt, Lists

CONSTANTS
    Writers,
    HeaderSize,   \* 16 in the code
    Sizes,        \* payload sizes of the records that are appended
    MaxRecords,   \* bound on the records
    Throws        \* readAll has thrown

ASSUME WalFileAssumption ==
    /\ HeaderSize \in Nat \ {0}
    /\ Sizes \subseteq Nat
    /\ MaxRecords \in Nat \ {0}
    /\ Throws \notin Seq([id : Nat, size : Nat])

VARIABLES
    bytes,      \* the file that has the name wal.log
    fd,         \* process -> what it has opened to append: the log, a file that
                \* was the log and has lost its name, or none
    record,     \* process -> the record it appends
    appended    \* how many records were begun

walVars == <<bytes, fd, record, appended>>

\* The two records that a compaction writes, with payloads of a size each.
Compacted == <<[id |-> 0, size |-> 1], [id |-> 0, size |-> 0]>>

\* No byte of a record is like it.
Garbage == [id |-> 0, size |-> 0, at |-> 0]

WalTypeOK ==
    /\ \A k \in DOMAIN bytes : bytes[k] = Garbage \/ bytes[k].at \in 1 .. HeaderSize + bytes[k].size
    /\ fd \in [Writers -> {"none", "log", "old"}]
    /\ record \in [Writers -> [id : 0 .. MaxRecords, size : Sizes \cup {0}]]
    /\ appended \in 0 .. MaxRecords

WalInit ==
    /\ bytes = <<>>
    /\ fd = [p \in Writers |-> "none"]
    /\ record = [p \in Writers |-> [id |-> 0, size |-> 0]]
    /\ appended = 0

-----------------------------------------------------------------------------
(***************************************************************************)
(* encodeRecord, decodeRecord and readAll.                                 *)
(***************************************************************************)
encodeRecord(r) == [i \in 1 .. HeaderSize + r.size |-> [id |-> r.id, size |-> r.size, at |-> i]]

encodeAll(rs) == FlattenSeq([k \in DOMAIN rs |-> encodeRecord(rs[k])])

\* The record that starts behind the first o bytes, and whether n bytes of it are there.
recordAt(o) == [id |-> bytes[o + 1].id, size |-> bytes[o + 1].size]

StandsAt(o, r, n) ==
    Len(bytes) - o >= n /\ \A i \in 1 .. n : bytes[o + i] = [id |-> r.id, size |-> r.size, at |-> i]

\* Mutant: a header that is cut short is taken for the end of the log.
readAllTolerant ==
    LET from[o \in 0 .. Len(bytes)] ==
            IF Len(bytes) - o < HeaderSize
              THEN <<>>
              ELSE LET r == recordAt(o)
                       rest == from[o + HeaderSize + r.size]
                   IN  IF ~ StandsAt(o, r, HeaderSize + r.size) \/ rest = Throws
                         THEN Throws
                         ELSE <<r>> \o rest
    IN  from[0]

\* Record by record, to the end; throws when the header is cut or none, and when
\* the payload is cut or another.
readAll ==
    LET from[o \in 0 .. Len(bytes)] ==
            IF o = Len(bytes)
              THEN <<>>
              ELSE LET r == recordAt(o)
                       rest == from[o + HeaderSize + r.size]
                   IN  IF ~ StandsAt(o, r, HeaderSize + r.size) \/ rest = Throws
                         THEN Throws
                         ELSE <<r>> \o rest
    IN  from[0]

-----------------------------------------------------------------------------
(***************************************************************************)
(* append, replaceWith, and the tool corrupt-repo.                         *)
(***************************************************************************)
OpenLog(p) ==
    /\ fd[p] = "none" /\ appended < MaxRecords
    /\ fd' = [fd EXCEPT ![p] = "log"]
    /\ \E n \in Sizes : record' = [record EXCEPT ![p] = [id |-> appended + 1, size |-> n]]
    /\ appended' = appended + 1
    /\ UNCHANGED bytes

\* Mutant: without O_APPEND, from the start of the file.
writeAtStart(piece) == piece \o SubSeq(bytes, Len(piece) + 1, Len(bytes))

\* O_APPEND: at the end of the file as it is now.
writeAtEnd(piece) == bytes \o piece

\* The first n bytes of the record; nobody sees what a file without a name holds.
Write(p, n) ==
    /\ bytes' = IF fd[p] = "log" THEN writeAtEnd(SubSeq(encodeRecord(record[p]), 1, n)) ELSE bytes
    /\ fd' = [fd EXCEPT ![p] = "none"]
    /\ record' = [record EXCEPT ![p] = [id |-> 0, size |-> 0]]
    /\ UNCHANGED appended

WriteRecord(p) == fd[p] # "none" /\ Write(p, HeaderSize + record[p].size)

\* The disk is full, or the process ends: the record, less one byte or more.
WriteCut(p) == fd[p] # "none" /\ \E n \in 0 .. HeaderSize + record[p].size - 1 : Write(p, n)

\* MetadataCompactor::compact: writeFileAtomic gives a new file the name.
ReplaceWith ==
    /\ bytes' = encodeAll(Compacted)
    /\ fd' = [p \in Writers |-> IF fd[p] = "log" THEN "old" ELSE fd[p]]
    /\ UNCHANGED <<record, appended>>

\* corrupt-repo appends a few bytes, fewer than a header has.
AppendGarbage ==
    /\ Garbage \notin Range(bytes)
    /\ bytes' = writeAtEnd(<<Garbage>>)
    /\ UNCHANGED <<fd, record, appended>>

WalNext ==
    \/ \E p \in Writers : OpenLog(p) \/ WriteRecord(p) \/ WriteCut(p)
    \/ ReplaceWith \/ AppendGarbage

WalSpec == WalInit /\ [][WalNext]_walVars

-----------------------------------------------------------------------------
(***************************************************************************)
(* Properties.                                                             *)
(***************************************************************************)

\* Behind how many bytes a record starts whose bytes lie side by side.
WholeAt ==
    {o \in 0 .. Len(bytes) - 1 :
       bytes[o + 1].at = 1 /\ StandsAt(o, recordAt(o), HeaderSize + bytes[o + 1].size)}

\* Those records, whatever lies between.
Whole == LET starts == InOrder(WholeAt) IN [k \in DOMAIN starts |-> recordAt(starts[k])]

\* readAll returns all records in the order in which they were appended, and
\* throws exactly when the file holds anything else: it takes no piece for a
\* record, skips none, and does not read on behind one.
LogReadsBack == readAll = IF encodeAll(Whole) = bytes THEN Whole ELSE Throws

Abstract == INSTANCE Log WITH
    Records   <- [id : 1 .. MaxRecords, size : Sizes],
    records   <- Whole,
    readable  <- readAll # Throws

\* Whatever the processes do to the file, no append takes an earlier record away,
\* and what has become unreadable stays so until the log is replaced.
IsLog == Abstract!Spec
=============================================================================
