--------------------------- MODULE MCRateLimiter ---------------------------
(* Instances of RateLimiter: threads and keys are interchangeable. *)
EXTENDS RateLimiter
Symmetry == Permutations(Threads) \cup Permutations(Keys)
=============================================================================
