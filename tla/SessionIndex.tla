---------------------------- MODULE SessionIndex ----------------------------
(***************************************************************************)
(* What the server reads out of a session's index: the append-only file    *)
(* metadata/sessions/<id>.session, as the sequence of its CHUNK records.   *)
(*                                                                         *)
(* A record says which chunk of the source it is, and repeats the size and *)
(* the digest of the file the chunk belongs to.  The client prepares one   *)
(* record per chunk, all from the same look at the source.  A source is    *)
(* one file here, so that the index of a chunk in the session is its index *)
(* in the file.                                                            *)
(***************************************************************************)
EXTENDS Naturals, Sequences, FiniteSetsExt

Indices(records) == {records[k].index : k \in DOMAIN records}

\* by_global: of several records of an index the last one counts.
lastRecord(records, i) ==
    records[Max({k \in DOMAIN records : records[k].index = i})]

\* Mutant: the last record is not read.
receivedButLast(records) ==
    LET read == SubSeq(records, 1, Len(records) - 1)
    IN  [i \in Indices(read) |-> lastRecord(read, i).chunk]

\* SessionIndex::received, the answer to QUERY_SESSION.
received(records) == [i \in Indices(records) |-> lastRecord(records, i).chunk]

\* Mutant: the chunk's digest for the file's.
preparedChunkDigest(source, i) ==
    [index |-> i, chunk |-> source[i], size |-> Len(source), digest |-> <<source[i]>>]

\* TransferSession::prepareChunks: the record of chunk i of a source.
prepared(source, i) ==
    [index |-> i, chunk |-> source[i], size |-> Len(source), digest |-> source]

\* buildManifest throws when one of the chunks the client counted is missing.
Buildable(records, total) == 1 .. total \subseteq Indices(records)

\* The k-th smallest index there is a record of.
nthIndex(records, k) ==
    CHOOSE i \in Indices(records) : Cardinality({j \in Indices(records) : j <= i}) = k

-----------------------------------------------------------------------------
(***************************************************************************)
(* The file on a full disk.  A record is one line and one write, of which  *)
(* the first part may be all that fits.  Cut within its last field, the    *)
(* path of the object, the line still reads as a record; cut earlier, it   *)
(* makes every reader throw.  The next line is written right behind it.    *)
(***************************************************************************)

\* How the file ends: with a newline; with a record that lacks it; with a
\* COMMITTED line that lacks it; or with a piece that no reader passes.
Ends == {"newline", "record", "committed", "piece"}

NewIndex == [records |-> <<>>, end |-> "newline"]
Unreadable == [records |-> <<>>, end |-> "piece"]

\* A line behind a record without newline is no record any more, and getline
\* takes it for a part of the COMMITTED line.
appendLine(file, r) ==
    CASE file.end = "newline"   -> [file EXCEPT !.records = Append(@, r)]
      [] file.end = "committed" -> [file EXCEPT !.end = "newline"]
      [] OTHER                  -> Unreadable

\* What the file can be when the line is cut; its object may have a short path.
cutLines(file, r, short) ==
    {file} \cup
    CASE file.end = "newline" ->
            {Unreadable} \cup
            {[records |-> Append(file.records, [r EXCEPT !.object = o]), end |-> "record"] :
                o \in {r.object, short}}
      [] file.end = "record" -> {Unreadable}
      [] OTHER -> {}

\* markCommitted, whole and cut: "COMMITTED" itself reads without its version.
commitLine(file) ==
    CASE file.end \in {"newline", "committed"} -> [file EXCEPT !.end = "newline"]
      [] OTHER -> Unreadable

cutCommitLines(file) ==
    {file} \cup
    CASE file.end = "newline" -> {Unreadable} \cup {[file EXCEPT !.end = e] : e \in {"record", "committed"}}
      [] file.end = "record"  -> {Unreadable}
      [] OTHER -> {}

-----------------------------------------------------------------------------
\* Every record counts, also those beyond the chunks the client asked for; the
\* file's size and digest are those of its first chunk.
buildManifest(records) ==
    LET n == Cardinality(Indices(records))
        first == lastRecord(records, nthIndex(records, 1))
    IN  IF n = 0
          THEN [chunks |-> <<>>, size |-> 0, digest |-> <<>>]
          ELSE [chunks |-> [k \in 1 .. n |-> lastRecord(records, nthIndex(records, k)).object],
                size   |-> first.size,
                digest |-> first.digest]
=============================================================================
