--------------------------- MODULE MCUploadServer ---------------------------
(* Small servers for TLC: two clients, one or two sessions, two chunks. *)
EXTENDS UploadServer

CONSTANTS a, b, c, s1, s2, c1, c2

\* Two uploads of one session, or of a session each.
MCSameSession == [x \in {a, b} |-> s1]
MCOneClient == [x \in {a} |-> s1]
MCOwnSession == [x \in {a, b} |-> IF x = a THEN s1 ELSE s2]
MCThreeClients == [x \in {a, b, c} |-> IF x = c THEN s2 ELSE s1]

\* Two chunks, a chunk twice, and a directory without files.
MCSources == {<<c1, c2>>, <<c1, c1>>, <<>>}
MCShortSources == {<<c1>>, <<c2>>}

\* One source for another, and a file that grows by a chunk.
MCReplaced == MCShortSources \X MCShortSources
MCGrowing == {<<c1>>, <<c1, c2>>}
MCGrowth == {<< <<c1>>, <<c1, c2>> >>}
=============================================================================
