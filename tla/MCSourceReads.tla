--------------------------- MODULE MCSourceReads ---------------------------
(* Small instances of SourceReads for TLC.                                  *)
EXTENDS SourceReads, TLC

\* An empty room, one with a received file, and one with two source files.
SmallRooms == {<<>>, <<FALSE>>, <<TRUE, TRUE>>}

\* Files are interchangeable, and so are the browsers.
Symmetry == Permutations(Files) \union Permutations(Downloads)

=============================================================================
