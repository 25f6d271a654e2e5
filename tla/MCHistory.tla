----------------------------- MODULE MCHistory -----------------------------
(* Instances of History for TLC.                                           *)
EXTENDS History, TLC

CONSTANTS ann, small, large, forged

\* One agent; each request has presentations of its own, and nothing grows stale.
MCPresentations == {small, large} \X {"checkout", "payment"}
MCCheckout == [r \in Requests |-> <<IF r = large THEN large ELSE small, "checkout">>]
MCPayment == [r \in Requests |-> <<IF r = large THEN large ELSE small, "payment">>]
MCKey == [p \in Presentations |-> <<ann, p>>]
MCClaimedBy == [r \in Requests |-> ann]
MCAmount == [r \in Requests |-> IF r = large THEN 2 ELSE 1]
MCAuthentic == Requests \ {forged}
MCHeldBy == [p \in Presentations |-> ann]
MCExpires == [p \in Presentations |-> 9]
MCIssuedAt == [p \in Presentations |-> 0]

CallersAreAlike == Permutations(Callers)
=============================================================================
