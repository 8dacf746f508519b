--------------------------- MODULE MCUploadStore ---------------------------
(* Small instances of UploadStore for TLC.                                  *)
EXTENDS UploadStore, TLC

CONSTANTS a, b, n1, n2

\* Three bytes beside an empty file, and equal sizes.
SizeThreeNone == [i \in Items |-> IF i = a THEN 3 ELSE 0]
SizeOne == [i \in Items |-> 1]
SizeTwo == [i \in Items |-> 2]

\* Every item under a name of its own, or all under one name.
OwnNames == [i \in Items |-> IF i = a THEN n1 ELSE n2]
OneName == [i \in Items |-> n1]

\* The registered path of the items named n1.
FirstPath == {<<n1, 0, 0>>}

\* Requests are interchangeable.
RequestSymmetry == Permutations(Requests)

=============================================================================
