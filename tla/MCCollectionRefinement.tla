------------------------- MODULE MCCollectionRefinement -------------------------
EXTENDS CollectionRefinement
================================================================================
