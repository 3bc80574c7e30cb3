---------------------------- MODULE SingleUseCode ----------------------------
(***************************************************************************)
(* What an authorization code promises (RFC 6749, 4.1.2, as the token      *)
(* endpoint of mcp-front keeps it): it is issued once, one request at most *)
(* takes it, that request turns it into at most one token pair, and that   *)
(* only during the code's lifetime; a code that was redeemed or came to    *)
(* nothing never comes back.                                               *)
(***************************************************************************)
EXTENDS Naturals, TLAPS

CONSTANT Code

VARIABLES status,   \* what has become of each code
          pairs,    \* how many token pairs it was exchanged for
          fresh     \* the codes whose lifetime is not over

vars == <<status, pairs, fresh>>

Status == {"unused", "live", "taken", "redeemed", "void"}

Init ==
    /\ status = [c \in Code |-> "unused"]
    /\ pairs = [c \in Code |-> 0]
    /\ fresh = {}

Move(c, from, to) ==
    /\ status[c] = from
    /\ status' = [status EXCEPT ![c] = to]

Issue(c) ==
    /\ Move(c, "unused", "live")
    /\ fresh' = fresh \cup {c}
    /\ UNCHANGED pairs

\* An expired code can still be taken; it is of no use then.
Take(c) == Move(c, "live", "taken") /\ UNCHANGED <<pairs, fresh>>

Redeem(c) ==
    /\ Move(c, "taken", "redeemed")
    /\ c \in fresh
    /\ pairs' = [pairs EXCEPT ![c] = @ + 1]
    /\ UNCHANGED fresh

Expire(c) ==
    /\ c \in fresh
    /\ fresh' = fresh \ {c}
    /\ UNCHANGED <<status, pairs>>

\* A failure, or a restart, which ends many codes at once.
Void ==
    /\ \E C \in SUBSET {c \in Code : status[c] \in {"live", "taken"}} :
          status' = [c \in Code |-> IF c \in C THEN "void" ELSE status[c]]
    /\ UNCHANGED <<pairs, fresh>>

Next == Void \/ \E c \in Code : Issue(c) \/ Take(c) \/ Redeem(c) \/ Expire(c)

Spec == Init /\ [][Next]_vars

-----------------------------------------------------------------------------
(* What follows for every server that keeps this promise                   *)

Consumed == {"taken", "redeemed", "void"}

Ended == {"redeemed", "void"}

\* Only a redeemed code was exchanged, and for one pair of tokens.
Counted ==
    /\ status \in [Code -> Status]
    /\ pairs = [c \in Code |-> IF status[c] = "redeemed" THEN 1 ELSE 0]

LEMMA CountedInductive == (Init => Counted) /\ (Counted /\ [Next]_vars => Counted')
<1>1. Init => Counted
    BY DEF Init, Counted, Status
<1>2. ASSUME Counted, [Next]_vars PROVE Counted'
    <2> USE <1>2 DEF Counted, Status
    <2>1. ASSUME NEW c \in Code, Issue(c) \/ Take(c) \/ Expire(c) PROVE Counted'
        BY <2>1 DEF Issue, Take, Expire, Move
    <2>2. ASSUME NEW c \in Code, Redeem(c) PROVE Counted'
        BY <2>2 DEF Redeem, Move
    <2>3. CASE Void
        BY <2>3 DEF Void
    <2>4. CASE UNCHANGED vars
        BY <2>4 DEF vars
    <2> QED
        BY <2>1, <2>2, <2>3, <2>4 DEF Next
<1> QED
    BY <1>1, <1>2

\* A code is worth at most one pair of tokens.
THEOREM OnePair == Spec => [](\A c \in Code : pairs[c] <= 1)
<1>1. Spec => []Counted
    BY CountedInductive, PTL DEF Spec
<1>2. Counted => \A c \in Code : pairs[c] <= 1
    BY DEF Counted
<1> QED
    BY <1>1, <1>2, PTL

\* A code that some request took cannot be taken again.
THEOREM TakenForGood ==
    ASSUME NEW c \in Code
    PROVE  Spec => [](status[c] \in Consumed => [](status[c] \notin {"unused", "live"}))
<1>1. Spec => []Counted
    BY CountedInductive, PTL DEF Spec
<1>2. status[c] \in Consumed => status[c] \notin {"unused", "live"}
    BY DEF Consumed
<1>3. Counted /\ status[c] \in Consumed /\ [Next]_vars => (status[c] \in Consumed)'
    BY DEF Counted, Consumed, Next, Issue, Take, Redeem, Expire, Void, Move, vars
<1> QED
    BY <1>1, <1>2, <1>3, PTL DEF Spec

\* A code that was redeemed, or came to nothing, stays so.
THEOREM EndedForGood ==
    ASSUME NEW c \in Code
    PROVE  Spec => [](status[c] \in Ended => [](status[c] \in Ended))
<1>1. Spec => []Counted
    BY CountedInductive, PTL DEF Spec
<1>2. Counted /\ status[c] \in Ended /\ [Next]_vars => (status[c] \in Ended)'
    BY DEF Counted, Ended, Next, Issue, Take, Redeem, Expire, Void, Move, vars
<1> QED
    BY <1>1, <1>2, PTL DEF Spec

\* The lifetime of a code is never renewed: once it is over, the code brings no tokens
\* any more, also if a request has already taken it.
THEOREM ExpiredForGood ==
    ASSUME NEW c \in Code, NEW n \in Nat
    PROVE  Spec => [](/\ status[c] # "unused" /\ c \notin fresh /\ pairs[c] = n
                      => [](c \notin fresh /\ pairs[c] = n))
<1>. DEFINE Over == status[c] # "unused" /\ c \notin fresh /\ pairs[c] = n
<1>1. Spec => []Counted
    BY CountedInductive, PTL DEF Spec
<1>2. Counted /\ Over /\ [Next]_vars => Over'
    BY DEF Counted, Next, Issue, Take, Redeem, Expire, Void, Move, vars
<1>3. Over => c \notin fresh /\ pairs[c] = n
    OBVIOUS
<1> QED
    BY <1>1, <1>2, <1>3, PTL DEF Spec
=============================================================================
