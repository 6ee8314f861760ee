-------------------------- MODULE MCCategorySplits --------------------------
\* Categories and requests are interchangeable.
EXTENDS CategorySplits, TLC

Interchangeable == Permutations(Categories) \cup Permutations(Requests)
=============================================================================
