----------------------------- MODULE MCStorage ------------------------------
EXTENDS Storage, TLC

\* Two documents are enough for one mutation to overtake another's key and for
\* one to be unrelated to it; clients are interchangeable.
Symmetry == Permutations(Clients) \cup Permutations(Keys)
=============================================================================
