--------------------------- MODULE MCMetadataSync ---------------------------
EXTENDS MetadataSync, TLC

Symmetry == Permutations(Renames) \cup Permutations(Conns)

=============================================================================
