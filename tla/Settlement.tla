----------------------------- MODULE Settlement -----------------------------
(***************************************************************************)
(* desk/settlement/settle.py, with the accumulator (desk/spend) and the    *)
(* receipt table (desk/settlement/store.py) it writes on one transaction.  *)
(*                                                                         *)
(* A caller is one thread inside Settlement.settle.  Between any two of    *)
(* its database or rail calls every other caller may run.  What it has     *)
(* written inside its transaction is visible to nobody until Commit, so    *)
(* the draw-down and the receipt are carried in the caller's own pc        *)
(* ("charge" and later mean: drawn, uncommitted) and land in Commit.       *)
(*                                                                         *)
(* The rail is external: it completes a charge, declines it, or never      *)
(* answers, and a call that never answers may or may not have taken money. *)
(***************************************************************************)
EXTENDS Integers, FiniteSetsExt

CONSTANTS
  Callers, Deals, Checkouts, Payments,
  CheckoutOf,  \* closed.checkout.open_checkout
  RefersTo,    \* payment.mandate.checkout_reference
  Amount,      \* closed.checkout.total
  Ceiling,     \* payment.mandate.budget.maximum
  Drawable,    \* Payment Mandates with a budget in the deals' currency
  PoolSize,    \* connections in the pool
  MaxCalls,    \* bound: calls of settle in one behaviour
  AdapterAnswers, \* whether the rail's adapter reports a call it got no answer to
                  \* as one that did not complete, rather than raising
  Faults,      \* whether a process may die, or a statement fail, mid-call
  Nobody       \* holder of a lock no one holds

ASSUME SettlementAssumption ==
  /\ IsFiniteSet(Callers)
  /\ Deals # {} /\ Payments # {}
  /\ CheckoutOf \in [Deals -> Checkouts]
  /\ RefersTo \in [Payments -> Checkouts]
  /\ Amount \in [Deals -> Nat \ {0}]
  /\ Ceiling \in [Payments -> Nat \ {0}]
  /\ Drawable \subseteq Payments
  /\ PoolSize \in Nat \ {0}
  /\ MaxCalls \in Nat
  /\ AdapterAnswers \in BOOLEAN
  /\ Faults \in BOOLEAN
  /\ Nobody \notin Callers

VARIABLES
  \* each caller: where it is in settle, and the deal and Payment Mandate it has
  pc, deal, payment,
  \* committed rows: mandate_spend (which rows exist, their totals), the receipts,
  \* and the audit entries, counted per deal and kind
  rows, spent, receipts, trail,
  \* what callers hold: the advisory lock on a deal, the row lock on a mandate's
  \* ledger row, the audit chain's lock, and connections of the pool
  dealLock, rowLock, chainLock, connected,
  \* the rail: how often it has taken the money for a deal
  taken,
  \* history: rail calls that never answered, and takings whose settlement died
  unheard, lostMoney,
  calls

callers == <<pc, deal, payment>>
tables == <<rows, spent, receipts>>
locks == <<dealLock, rowLock, chainLock, connected>>
rail == <<taken, unheard, lostMoney>>
vars == <<callers, tables, trail, locks, rail, calls>>

\* The statements of settle at which another caller may run.
InTransaction == {"lock", "refind", "draw", "charge", "store", "record", "commit"}
AfterLock == InTransaction \ {"lock"}
AfterDraw == {"charge", "store", "record", "commit"}
AfterCharge == {"store", "record", "commit"}
Steps == {"idle", "find", "attempt", "open", "stopped", "declined"} \union InTransaction

Endings == {"issued", "declined", "stopped"}
Events == {"attempted"} \union Endings

Receipt == [deal : Deals, payment : Payments]

Init ==
  /\ pc = [c \in Callers |-> "idle"]
  /\ deal = [c \in Callers |-> CHOOSE d \in Deals : TRUE]
  /\ payment = [c \in Callers |-> CHOOSE p \in Payments : TRUE]
  /\ rows = {}
  /\ spent = [p \in Payments |-> 0]
  /\ receipts = {}
  /\ trail = [d \in Deals |-> [e \in Events |-> 0]]
  /\ dealLock = [d \in Deals |-> Nobody]
  /\ rowLock = [p \in Payments |-> Nobody]
  /\ chainLock = Nobody
  /\ connected = {}
  /\ taken = [d \in Deals |-> 0]
  /\ unheard = [d \in Deals |-> 0]
  /\ lostMoney = [d \in Deals |-> 0]
  /\ calls = 0
-----------------------------------------------------------------------------
Has(d) == \E r \in receipts : r.deal = d

\* Mutation: the Payment Mandate's own reference is not checked.
ChainsToUnpaired(d, k, p) == CheckoutOf[d] = k

\* The closed deal, the Checkout Mandate and the Payment Mandate are one chain.
ChainsTo(d, k, p) ==
  /\ CheckoutOf[d] = k
  /\ RefersTo[p] = k

Covers(p, amount) == spent[p] + amount <= Ceiling[p]

GoTo(c, step) == pc' = [pc EXCEPT ![c] = step]

ConnectionFree == Cardinality(connected) < PoolSize

\* An entry on a transaction of its own: its connection is held while it waits for
\* the chain lock, and both are given back before the call returns.
Write(c, event) ==
  /\ c \in connected
  /\ chainLock = Nobody
  /\ trail' = [trail EXCEPT ![deal[c]][event] = @ + 1]
  /\ connected' = connected \ {c}
  /\ UNCHANGED <<dealLock, rowLock, chainLock>>

\* Leaving the connection block, by commit or by exception, gives everything back.
Release(c) ==
  /\ dealLock' = [d \in Deals |-> IF dealLock[d] = c THEN Nobody ELSE dealLock[d]]
  /\ rowLock' = [p \in Payments |-> IF rowLock[p] = c THEN Nobody ELSE rowLock[p]]
  /\ chainLock' = IF chainLock = c THEN Nobody ELSE chainLock
  /\ connected' = connected \ {c}

\* Mutation: the locks are the session's, and outlive the transaction.
RollbackKeepingLocks(c) ==
  /\ connected' = connected \ {c}
  /\ UNCHANGED <<dealLock, rowLock, chainLock, tables, trail>>

Rollback(c) ==
  /\ Release(c)
  /\ UNCHANGED <<tables, trail>>
-----------------------------------------------------------------------------
(* One action per statement of settle.                                     *)

\* settle is called.  A presentation that is not a chain raises NotSettleable
\* before anything is read or written, so it is no step here.
Begin(c, d, k, p) ==
  /\ pc[c] = "idle"
  /\ calls < MaxCalls
  /\ ChainsTo(d, k, p)
  /\ GoTo(c, "find")
  /\ deal' = [deal EXCEPT ![c] = d]
  /\ payment' = [payment EXCEPT ![c] = p]
  /\ calls' = calls + 1
  /\ UNCHANGED <<tables, trail, locks, rail>>

\* The first look for a receipt: a retry of a settled deal returns it.
Find(c) ==
  /\ pc[c] = "find"
  /\ ConnectionFree
  /\ GoTo(c, IF Has(deal[c]) THEN "idle" ELSE "attempt")
  /\ UNCHANGED <<deal, payment, tables, trail, locks, rail, calls>>

\* The entry that is next has its connection, and asks for the chain lock.
Connect(c) ==
  /\ pc[c] \in {"attempt", "stopped", "declined"}
  /\ c \notin connected
  /\ ConnectionFree
  /\ connected' = connected \union {c}
  /\ UNCHANGED <<callers, tables, trail, dealLock, rowLock, chainLock, rail, calls>>

\* settlement_attempted, on its own transaction so that it survives a rollback.
Attempt(c) ==
  /\ pc[c] = "attempt"
  /\ Write(c, "attempted")
  /\ GoTo(c, "open")
  /\ UNCHANGED <<deal, payment, tables, rail, calls>>

OpenTransaction(c) ==
  /\ pc[c] = "open"
  /\ ConnectionFree
  /\ connected' = connected \union {c}
  /\ GoTo(c, "lock")
  /\ UNCHANGED <<deal, payment, tables, trail, dealLock, rowLock, chainLock,
                 rail, calls>>

\* Mutation: no lock on the deal.
LockDealNotTaken(c) ==
  /\ pc[c] = "lock"
  /\ GoTo(c, "refind")
  /\ UNCHANGED <<deal, payment, tables, trail, locks, rail, calls>>

LockDeal(c) ==
  /\ pc[c] = "lock"
  /\ dealLock[deal[c]] = Nobody
  /\ dealLock' = [dealLock EXCEPT ![deal[c]] = c]
  /\ GoTo(c, "refind")
  /\ UNCHANGED <<deal, payment, tables, trail, rowLock, chainLock, connected,
                 rail, calls>>

\* Mutation: no second look.
FindAgainSkipped(c) ==
  /\ pc[c] = "refind"
  /\ GoTo(c, "draw")
  /\ UNCHANGED <<deal, payment, tables, trail, locks, rail, calls>>

\* Mutation: NotSettleable is not among the refusals settle catches.
FindAgainUncaught(c) ==
  /\ pc[c] = "refind"
  /\ IF Has(deal[c])
     THEN /\ Rollback(c)
          /\ GoTo(c, "idle")
     ELSE /\ GoTo(c, "draw")
          /\ UNCHANGED <<tables, trail, locks>>
  /\ UNCHANGED <<deal, payment, rail, calls>>

\* The second look, under the lock: somebody else settled it meanwhile.
FindAgain(c) ==
  /\ pc[c] = "refind"
  /\ IF Has(deal[c])
     THEN /\ Rollback(c)
          /\ GoTo(c, "stopped")
     ELSE /\ GoTo(c, "draw")
          /\ UNCHANGED <<tables, trail, locks>>
  /\ UNCHANGED <<deal, payment, rail, calls>>

\* record_spend: open the row, take its lock, and draw if the ceiling covers it.
Draw(c) ==
  /\ pc[c] = "draw"
  /\ payment[c] \in Drawable
  /\ rowLock[payment[c]] = Nobody
  /\ IF Covers(payment[c], Amount[deal[c]])
     THEN /\ rowLock' = [rowLock EXCEPT ![payment[c]] = c]
          /\ GoTo(c, "charge")
          /\ UNCHANGED <<tables, trail, dealLock, chainLock, connected>>
     ELSE /\ Rollback(c)
          /\ GoTo(c, "stopped")
  /\ UNCHANGED <<deal, payment, rail, calls>>

\* record_spend raises ValueError (no budget) or LedgerContradiction (currency),
\* neither of which settle catches: the call ends here.
DrawRaises(c) ==
  /\ pc[c] = "draw"
  /\ payment[c] \notin Drawable
  /\ Rollback(c)
  /\ GoTo(c, "idle")
  /\ UNCHANGED <<deal, payment, rail, calls>>

RailCompletes(c) ==
  /\ pc[c] = "charge"
  /\ taken' = [taken EXCEPT ![deal[c]] = @ + 1]
  /\ GoTo(c, "store")
  /\ UNCHANGED <<deal, payment, tables, trail, locks, unheard, lostMoney, calls>>

\* Mutation: _DidNotComplete is caught inside the block, which then commits.
RailDeclinesInside(c) ==
  /\ pc[c] = "charge"
  /\ rows' = rows \union {payment[c]}
  /\ spent' = [spent EXCEPT ![payment[c]] = @ + Amount[deal[c]]]
  /\ Release(c)
  /\ GoTo(c, "declined")
  /\ UNCHANGED <<deal, payment, receipts, trail, rail, calls>>

\* The rail answers that it did not complete: _DidNotComplete rolls it all back.
RailDeclines(c) ==
  /\ pc[c] = "charge"
  /\ Rollback(c)
  /\ GoTo(c, "declined")
  /\ UNCHANGED <<deal, payment, rail, calls>>

\* The rail never answers, having taken the money or not.  What its adapter makes of
\* that is its own: PaymentRail lets it raise, out of settle, and RazorpayRail says
\* "not_reached", which settle reads as a charge that did not complete.
RailNeverAnswers(c) ==
  /\ pc[c] = "charge"
  /\ Rollback(c)
  /\ GoTo(c, IF AdapterAnswers THEN "declined" ELSE "idle")
  /\ unheard' = [unheard EXCEPT ![deal[c]] = @ + 1]
  /\ \E n \in {0, 1} :
       /\ taken' = [taken EXCEPT ![deal[c]] = @ + n]
       /\ lostMoney' = [lostMoney EXCEPT ![deal[c]] = @ + n]
  /\ UNCHANGED <<deal, payment, calls>>

\* The receipt is inserted.  Its primary key is the deal: an insert waits for
\* another transaction's uncommitted one of the same key, and raises, out of
\* settle, if that key is there.
Store(c) ==
  /\ pc[c] = "store"
  /\ \A other \in Callers : pc[other] \in {"record", "commit"} => deal[other] # deal[c]
  /\ IF Has(deal[c])
     THEN /\ Rollback(c)
          /\ GoTo(c, "idle")
     ELSE /\ GoTo(c, "record")
          /\ UNCHANGED <<tables, trail, locks>>
  /\ UNCHANGED <<deal, payment, rail, calls>>

\* receipt_issued, enlisted: the chain lock is taken and held to the commit.
Record(c) ==
  /\ pc[c] = "record"
  /\ chainLock = Nobody
  /\ chainLock' = c
  /\ GoTo(c, "commit")
  /\ UNCHANGED <<deal, payment, tables, trail, dealLock, rowLock, connected,
                 rail, calls>>

Commit(c) ==
  /\ pc[c] = "commit"
  /\ rows' = rows \union {payment[c]}
  /\ spent' = [spent EXCEPT ![payment[c]] = @ + Amount[deal[c]]]
  /\ receipts' = receipts \union {[deal |-> deal[c], payment |-> payment[c]]}
  /\ trail' = [trail EXCEPT ![deal[c]]["issued"] = @ + 1]
  /\ Release(c)
  /\ GoTo(c, "idle")
  /\ UNCHANGED <<deal, payment, rail, calls>>

\* settlement_incomplete: the Desk stopped itself, or the rail did not complete.
Incomplete(c) ==
  /\ pc[c] \in {"stopped", "declined"}
  /\ Write(c, pc[c])
  /\ GoTo(c, "idle")
  /\ UNCHANGED <<deal, payment, tables, rail, calls>>

\* The process dies, or a statement fails: the server rolls the transaction back.
Fault(c) ==
  /\ Faults
  /\ pc[c] # "idle"
  /\ Rollback(c)
  /\ GoTo(c, "idle")
  /\ lostMoney' = IF pc[c] \in AfterCharge
                  THEN [lostMoney EXCEPT ![deal[c]] = @ + 1]
                  ELSE lostMoney
  /\ UNCHANGED <<deal, payment, taken, unheard, calls>>
-----------------------------------------------------------------------------
RailAnswers(c) == RailCompletes(c) \/ RailDeclines(c) \/ RailNeverAnswers(c)

\* A caller's own next statement, whichever it is.
Step(c) ==
  \/ Find(c) \/ Connect(c) \/ Attempt(c) \/ OpenTransaction(c) \/ LockDeal(c)
  \/ FindAgain(c) \/ Draw(c) \/ DrawRaises(c) \/ RailAnswers(c)
  \/ Store(c) \/ Record(c) \/ Commit(c) \/ Incomplete(c)

Next ==
  \E c \in Callers :
    \/ \E d \in Deals, k \in Checkouts, p \in Payments : Begin(c, d, k, p)
    \/ Step(c)
    \/ Fault(c)

Spec == Init /\ [][Next]_vars

\* Postgres grants locks, and the pool connections, in the order they were asked
\* for, so a waiter is not passed over for ever; the rail answers or raises.
FairSpec == Spec /\ \A c \in Callers : SF_vars(Step(c))
-----------------------------------------------------------------------------
(* What must hold.                                                         *)

TypeOK ==
  /\ pc \in [Callers -> Steps]
  /\ deal \in [Callers -> Deals]
  /\ payment \in [Callers -> Payments]
  /\ rows \subseteq Payments
  /\ spent \in [Payments -> Nat]
  /\ receipts \subseteq Receipt
  /\ trail \in [Deals -> [Events -> Nat]]
  /\ dealLock \in [Deals -> Callers \union {Nobody}]
  /\ rowLock \in [Payments -> Callers \union {Nobody}]
  /\ chainLock \in Callers \union {Nobody}
  /\ connected \subseteq Callers
  /\ taken \in [Deals -> Nat]
  /\ unheard \in [Deals -> Nat]
  /\ lostMoney \in [Deals -> Nat]
  /\ calls \in Nat

\* What the two locks are for.  From the second look on, a caller holds its
\* deal's lock and nobody has settled the deal; from the draw-down on, it also
\* holds the ledger row, and what it checked against the ceiling still stands.
Protected(c) ==
  /\ pc[c] \in AfterLock => dealLock[deal[c]] = c
  /\ pc[c] \in {"draw"} \union AfterDraw => ~Has(deal[c])
  /\ pc[c] \in AfterDraw => /\ rowLock[payment[c]] = c
                          /\ Covers(payment[c], Amount[deal[c]])

LocksProtect == \A c \in Callers : Protected(c)

Charged(p) == MapThenSumSet(LAMBDA r : Amount[r.deal], {r \in receipts : r.payment = p})

\* The running total of a mandate is exactly what its receipts add up to, within the
\* ceiling its human set: no charge that did not complete leaves a draw-down, or a row
\* that makes its mandate look used, and no receipt lacks one (accumulator.py).
LedgerMatchesReceipts ==
  \A p \in Payments :
    /\ spent[p] = Charged(p) /\ spent[p] <= Ceiling[p]
    /\ p \in rows <=> \E r \in receipts : r.payment = p

At(steps, d) == {c \in Callers : pc[c] \in steps /\ deal[c] = d}

\* Every time the rail took money for a deal, there is its receipt, or a
\* settlement still under way, or one that the rail's silence or a fault ended.
MoneyIsAccountedFor ==
  \A d \in Deals :
    taken[d] = (IF Has(d) THEN 1 ELSE 0)
               + Cardinality(At(AfterCharge, d)) + lostMoney[d]

\* A settled deal is never charged again, by a retry or by a caller that was
\* already under way (settle.py looks for the receipt under the deal's lock).
SettledDealsAreNotCharged ==
  [][\A d \in Deals : Has(d) => taken'[d] = taken[d]]_vars

\* What a reader of the trail concludes: a settlement that was attempted, has no
\* ending and is not under way is one whose rail call never answered.
UnderWay(d) == At({"open", "stopped", "declined"} \union InTransaction, d)

Ended(d) == trail[d]["issued"] + trail[d]["declined"] + trail[d]["stopped"]

DanglingMeansUnheard ==
  \A d \in Deals :
    trail[d]["attempted"] = Ended(d) + Cardinality(UnderWay(d)) + unheard[d]

\* Every call of settle returns or raises: no caller waits for ever on a lock or
\* a connection another waiting caller holds.
CallsReturn == \A c \in Callers : pc[c] # "idle" ~> pc[c] = "idle"

\* The rows are those of a ledger that settles each deal in one step.
Ledger == INSTANCE DealLedger WITH settled <- receipts, drawn <- spent

SettlesAtomically == Ledger!AbstractSpec
=============================================================================
