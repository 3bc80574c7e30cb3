-------------------------- MODULE MCAggregateConns --------------------------
(***************************************************************************)
(* Instances of AggregateConns for TLC.                                    *)
(***************************************************************************)
EXTENDS AggregateConns, TLC

CONSTANTS k1, k2, k3, alice, anon

OneUser == [k \in Key |-> alice]

Symm == Permutations(Thread) \cup Permutations(Conn) \cup Permutations(Key)
=============================================================================
