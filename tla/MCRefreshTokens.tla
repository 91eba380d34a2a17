-------------------------- MODULE MCRefreshTokens --------------------------
(* Instances of RefreshTokens: the handlers are interchangeable. *)
EXTENDS RefreshTokens, TLC
HandlerSymmetry == Permutations(Requests)
=============================================================================
