--------------------------- MODULE MCDropRegistry ---------------------------
EXTENDS DropRegistry, TLC
Symmetry ==
    Permutations(Drops) \cup Permutations(Codes)
        \cup Permutations(Tokens) \cup Permutations(Allocators)
=============================================================================
