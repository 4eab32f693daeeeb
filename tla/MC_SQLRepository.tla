--------------------------- MODULE MC_SQLRepository ---------------------------
EXTENDS SQLRepository, TLC

\* Every wire event over the constants: any id, body and time, or no time.
AnyPosts == [id : Ids, body : Bodies, time : Times \cup {NoTime}]

Symmetry == Permutations(Clients) \cup Permutations(Ids) \cup Permutations(Bodies)
=============================================================================
