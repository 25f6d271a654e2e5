---------------------------- MODULE MCFreshness -----------------------------
(* Instances of Freshness for TLC.                                         *)
EXTENDS Freshness, TLC

CONSTANTS a1, a2, n1

\* Two hops of one agent that reuse a nonce, and one of another agent's with the
\* same nonce; the reused one is made later.
Hops == {"hop", "reused", "other"}
MCKey == ("hop" :> <<a1, n1>>) @@ ("reused" :> <<a1, n1>>) @@ ("other" :> <<a2, n1>>)
MCIssuedAt == ("hop" :> 0) @@ ("reused" :> 2) @@ ("other" :> 1)
=============================================================================
