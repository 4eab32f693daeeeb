--------------------------- MODULE MC_Repository ---------------------------
(***************************************************************************)
(* Model-checking instance of Repository: two concurrent HTTP clients,     *)
(* two ids, two bodies, batches of up to two events.                       *)
(***************************************************************************)
EXTENDS Repository, TLC

\* Producers that always send a "time" field.
TimedPosts == {r \in RawEvent : r.time /= NoTime}

\* Producers that send a "time" field, and one producer that re-delivers a
\* single event without one, so the parser stamps the wall clock.
UntimedPost == [id |-> CHOOSE i \in Ids : TRUE,
                body |-> CHOOSE b \in Bodies : TRUE, time |-> NoTime]
MixedPosts == TimedPosts \cup {UntimedPost}

\* Clients are interchangeable; ids and bodies are not, since only one of
\* each appears in the untimed post.
Symmetry == Permutations(Clients)
=============================================================================
