---------------------------- MODULE ManifestText ----------------------------
(***************************************************************************)
(* A manifest as text: ManifestStore::serialize and parse.                 *)
(*                                                                         *)
(* A text is a sequence of lines, a line a sequence of tokens.  Names are  *)
(* written in hex, so that a path with spaces is one token.  The lines of  *)
(* created_at, source_root_hex and the two totals are read like those of   *)
(* the version and are left out.                                           *)
(***************************************************************************)
EXTENDS Naturals, Sequences, SequencesExt

CONSTANT Invalid    \* the parser has thrown

chunkLine(ref) == <<"CHUNK", ref.index, ref.size, ref.sha, ref.object>>

fileLines(f) ==
    <<<<"FILE", f.path, f.size, f.digest, Len(f.chunks)>>>>
      \o [c \in DOMAIN f.chunks |-> chunkLine(f.chunks[c])]
      \o <<<<"END_FILE">>>>

serialize(m) ==
    <<<<"DPC_MANIFEST_V1">>, <<"version", m.version>>, <<"chunking_mode", m.mode>>,
      <<"file_count", Len(m.files)>>>>
      \o FlattenSeq([k \in DOMAIN m.files |-> fileLines(m.files[k])])
      \o <<<<"END">>>>

IsLine(line, tag, tokens) == Len(line) = tokens /\ line[1] = tag

parseChunk(line) ==
    [index |-> line[2], size |-> line[3], sha |-> line[4], object |-> line[5]]

parseFile(line, chunks) ==
    [path |-> line[2], size |-> line[3], digest |-> line[4],
     chunks |-> [c \in DOMAIN chunks |-> parseChunk(chunks[c])]]

\* The lines of a FILE block that starts at line i: as many as its count says.
IsFileBlock(lines, i) ==
    /\ IsLine(lines[i], "FILE", 5)
    /\ LET n == lines[i][5]
       IN  /\ i + n + 1 <= Len(lines)
           /\ \A c \in 1 .. n : IsLine(lines[i + c], "CHUNK", 5)
           /\ IsLine(lines[i + n + 1], "END_FILE", 1)

\* The files from line i on: blocks up to END, which is the last line.
parseFiles(lines) ==
    LET from[i \in 1 .. Len(lines) + 1] ==
            IF i > Len(lines)
              THEN Invalid
              ELSE IF IsLine(lines[i], "END", 1)
                     THEN IF i = Len(lines) THEN <<>> ELSE Invalid
                     ELSE IF ~ IsFileBlock(lines, i)
                            THEN Invalid
                            ELSE LET n == lines[i][5]
                                     rest == from[i + n + 2]
                                 IN  IF rest = Invalid
                                       THEN Invalid
                                       ELSE <<parseFile(lines[i], SubSeq(lines, i + 1, i + n))>>
                                              \o rest
    IN  from[5]

HasHeader(lines) ==
    /\ Len(lines) >= 4
    /\ lines[1] = <<"DPC_MANIFEST_V1">>
    /\ IsLine(lines[2], "version", 2)
    /\ IsLine(lines[3], "chunking_mode", 2)
    /\ IsLine(lines[4], "file_count", 2)

\* Mutant: what follows the header is taken, however many files there are.
parseAnyCount(lines) ==
    LET files == parseFiles(lines)
    IN  IF ~ HasHeader(lines) \/ files = Invalid
          THEN Invalid
          ELSE [version |-> lines[2][2], mode |-> lines[3][2], files |-> files]

parse(lines) ==
    IF ~ HasHeader(lines)
      THEN Invalid
      ELSE LET files == parseFiles(lines)
           IN  IF files = Invalid \/ lines[4][2] # Len(files)
                 THEN Invalid
                 ELSE [version |-> lines[2][2], mode |-> lines[3][2], files |-> files]
=============================================================================
