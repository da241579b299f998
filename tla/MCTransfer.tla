----------------------------- MODULE MCTransfer -----------------------------
EXTENDS Transfer, TLC

CONSTANTS c1, c2

TwoCalls == {c1, c2}
Symmetry == Permutations(TwoCalls)
AllKinds == {"bytes", "file", "from", "probe", "create"}

\* Written and read, read only, and neither.
ThreePerms == {"rw", "ro", "none"}
ReadablePerms == {"rw", "ro"}
=============================================================================
