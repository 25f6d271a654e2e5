---------------------------- MODULE MCAuditTrail ----------------------------
(* Instances of AuditTrail for TLC.                                        *)
EXTENDS AuditTrail, TLC

CONSTANTS plain, exponent

\* 1e+16 goes in and 10000000000000000 comes back; everything else is kept.
MCJsonb == (plain :> plain) @@ (exponent :> plain)

WritersAreAlike == Permutations(Writers)
=============================================================================
