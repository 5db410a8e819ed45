-------------------------- MODULE MCContainerStore --------------------------
(***************************************************************************)
(* ContainerStore for TLC.  Nothing tells one request from another before  *)
(* it begins, and no property names one, so requests may be permuted.      *)
(***************************************************************************)
EXTENDS ContainerStore, TLC

RequestSymmetry == Permutations(Request)
=============================================================================
