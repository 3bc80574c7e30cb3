----------------------------- MODULE MCOAuthFlow -----------------------------
(***************************************************************************)
(* Instances of OAuthFlow for TLC: a public and a confidential client, two *)
(* services, one user whose organisation is let in and one whose is not.   *)
(***************************************************************************)
EXTENDS OAuthFlow, TLC

CONSTANTS public, confidential, uriA, uriB, verifierA, verifierB, alpha, beta, elsewhere

MCRedirectURIs == (public :> {uriA, uriB}) @@ (confidential :> {uriA})

Ann == [name |-> "ann", domain |-> "corp", mail |-> "corp", orgs |-> {"team"}]
Bob == [name |-> "bob", domain |-> "other", mail |-> "other", orgs |-> {}]
MCUser == {Ann, Bob}

Query(c, u, v, a, o) ==
    [client |-> c, uri |-> u, challenge |-> v, audience |-> a, offline |-> o]

\* Two that differ in all but the client, one of the other client, and three that
\* have to be refused: no challenge, an unregistered URI, a foreign resource.
MCAuthorizeRequest == {
    Query(public, uriA, verifierA, {alpha}, TRUE),
    Query(public, uriB, verifierB, {beta}, FALSE),
    Query(confidential, uriA, None, {alpha, Issuer}, TRUE),
    Query(public, uriA, None, {alpha}, TRUE),
    Query(confidential, uriB, verifierA, {beta}, TRUE),
    Query(confidential, uriA, verifierA, {alpha, elsewhere}, TRUE)}

Symm == Permutations(Thread) \cup Permutations(Code)
=============================================================================
