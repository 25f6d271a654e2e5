----------------------------- MODULE DealLedger -----------------------------
(***************************************************************************)
(* What settlement promises, with every mechanism left out: a closed deal  *)
(* is settled at most once, under a Payment Mandate that authorises the    *)
(* deal's own Checkout Mandate, and never past that mandate's ceiling; and *)
(* the receipt and the draw-down are one step.                             *)
(*                                                                         *)
(* Settlement.tla is the program; it is shown to implement this module.    *)
(***************************************************************************)
EXTENDS Naturals

CONSTANTS
  Deals,       \* closed Checkout Mandates, named by their checkout_hash
  Payments,    \* open Payment Mandates, named by their mandate_id
  CheckoutOf,  \* the open Checkout Mandate a deal was negotiated under
  RefersTo,    \* the open Checkout Mandate a Payment Mandate pays for
  Amount,      \* what a deal's closed mandate totals
  Ceiling      \* a Payment Mandate's payment.budget maximum

VARIABLES
  settled,     \* the receipts: which deal, under which Payment Mandate
  drawn        \* what has been drawn against each Payment Mandate

abstractVars == <<settled, drawn>>

AbstractInit ==
  /\ settled = {}
  /\ drawn = [p \in Payments |-> 0]

Authorises(p, d) == RefersTo[p] = CheckoutOf[d]

IsSettled(d) == \E r \in settled : r.deal = d

\* One deal settled: both halves of it, or neither.
Settle(d, p) ==
  /\ ~IsSettled(d)
  /\ Authorises(p, d)
  /\ drawn[p] + Amount[d] <= Ceiling[p]
  /\ settled' = settled \union {[deal |-> d, payment |-> p]}
  /\ drawn' = [drawn EXCEPT ![p] = @ + Amount[d]]

AbstractNext == \E d \in Deals, p \in Payments : Settle(d, p)

AbstractSpec == AbstractInit /\ [][AbstractNext]_abstractVars
=============================================================================
