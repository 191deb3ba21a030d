------------------------- MODULE MCStructureBatches -------------------------
EXTENDS StructureBatches, TLC
Symmetry == Permutations(Folder) \cup Permutations(Name) \cup Permutations(Dir)
=============================================================================
