--------------------------- MODULE MCLoginLockout ---------------------------
(* Instances of LoginLockout: the requests are interchangeable. *)
EXTENDS LoginLockout, TLC
RequestSymmetry == Permutations(Requests)
=============================================================================
