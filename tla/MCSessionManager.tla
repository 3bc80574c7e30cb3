-------------------------- MODULE MCSessionManager --------------------------
(***************************************************************************)
(* Instances of SessionManager for TLC.                                    *)
(***************************************************************************)
EXTENDS SessionManager, TLC

CONSTANTS k1, k2, k3, anon, alice, bob

\* All sessions belong to one user, so that they compete for one limit.
OneUser == [k \in Key |-> alice]

\* One session of a user, one of the anonymous user.
UserAndAnonymous == [k \in Key |-> IF k = k1 THEN alice ELSE anon]

\* Two users.
TwoUsers == [k \in Key |-> IF k = k1 THEN alice ELSE bob]

\* Handlers are interchangeable, and so are sessions; keys too when they have the
\* same user.  For safety only.
Symm == Permutations(Thread) \cup Permutations(Session)
SymmOneUser == Symm \cup Permutations(Key)
=============================================================================
