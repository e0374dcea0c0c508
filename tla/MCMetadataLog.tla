---------------------------- MODULE MCMetadataLog ---------------------------
\* Instances of MetadataLog for TLC.
EXTENDS MetadataLog, TLC

CONSTANTS a, b, c, x, y

Empty(parent) == [n \in AllNames |-> IF n = ".." THEN parent ELSE None]

\* The directories /x, /x/x and /x/x/x
Nested == [d \in Dirs |->
  CASE d = Root -> [Empty(Root) EXCEPT ![x] = a]
    [] d = a -> [Empty(Root) EXCEPT ![x] = b]
    [] d = b -> [Empty(a) EXCEPT ![x] = c]
    [] d = c -> Empty(b)]

\* The directory /x; b and c are free for new ones
Single == [d \in Dirs |->
  CASE d = Root -> [Empty(Root) EXCEPT ![x] = a]
    [] d = a -> Empty(Root)
    [] OTHER -> Empty(None)]

NestedTree == {Nested}
BothTrees == {Nested, Single}

Symmetry == Permutations(CPUs)
=============================================================================
