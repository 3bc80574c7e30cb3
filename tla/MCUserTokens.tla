---------------------------- MODULE MCUserTokens ----------------------------
(***************************************************************************)
(* Instances of UserTokens for TLC.                                        *)
(***************************************************************************)
EXTENDS UserTokens, TLC

Symm == Permutations(Thread)
=============================================================================
