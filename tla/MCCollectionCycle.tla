--------------------------- MODULE MCCollectionCycle ---------------------------
EXTENDS CollectionCycle, TLC

\* Clusters and hosts are interchangeable: sound for the invariants only.
Symmetry == Permutations(Cluster) \cup Permutations(Host)
================================================================================
