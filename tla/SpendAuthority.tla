---------------------------- MODULE SpendAuthority ----------------------------
(***************************************************************************)
(* Checks 2 and 3 over the documents themselves, and the closes that draw  *)
(* on what check 3 forecast (desk/mandate/check.py, desk/spend/check.py,   *)
(* desk/spend/accumulator.py).                                             *)
(*                                                                         *)
(* Each caller serves one request: a presentation of an open Checkout      *)
(* Mandate, one of an open Payment Mandate, and what is asked for.  Check  *)
(* 2 runs on each, check 3 on both, and a deal may close; every one of     *)
(* these reads the clock and the ledger for itself, and between them the   *)
(* other callers move.  Nothing is reserved.                               *)
(*                                                                         *)
(* Settlement.tla has the transaction a close is part of.  Here it is one  *)
(* step, because the row is locked from its read to the commit.            *)
(*                                                                         *)
(* Amounts are whole numbers of the smallest unit any of them is written   *)
(* in.  The database adds them exactly.  Python's decimal context does     *)
(* not: it holds 28 digits, and raises above a limit.  Neither bounds what *)
(* an agent may ask for.                                                   *)
(***************************************************************************)
EXTENDS Mandates

CONSTANTS
  Callers,
  Wire,          \* what each presentation is, as it arrives
  Claims,        \* what each that verifies under the principal's key is read as
  Asks,          \* what may be asked: [checkout, payment, item, amount, currency],
                 \*  the first two being presentations
  CloseAmounts,  \* what a deal may close for, whatever was asked
  AgentKey,      \* of the agent that asks
  MandateOf,     \* the signed mandate each presentation is one of
  Altered,       \* the presentations whose signature is not the one it was issued with
  Grants,        \* pairs a principal signed: [checkout, payment, items, ceiling, currency,
                 \*  merchants, opens, closes]
  Decimals,      \* the amounts of 28 digits, of whatever size
  Limit,         \* from where on a sum raises Overflow
  MaxClock

VARIABLES
  now,
  ledger,        \* mandate_spend: [ceiling, currency, spent] by mandate_id
  at,            \* how far each caller is, and what it was told
  charged        \* what has been charged against each signed Payment Mandate

vars == <<now, ledger, at, charged>>

Init ==
  /\ now = 0
  /\ ledger = [id \in {} |-> 0]
  /\ at = [c \in Callers |-> [stage |-> "idle"]]
  /\ charged = [m \in {MandateOf[a.payment] : a \in Asks} |-> 0]

-----------------------------------------------------------------------------
\* What check 2 finds that no clock changes: what each presentation that verifies is read
\* as, and which of them read as one of the two open mandates.
Contents == [p \in DOMAIN Claims |-> Content(Claims[p])]
CheckoutsRead == {p \in DOMAIN Claims : ReadsOpenCheckout(Claims[p])}
PaymentsRead == {p \in DOMAIN Claims : ReadsOpenPayment(Claims[p])}

\* Money is never negative, and a number in a mandate is whole; what was granted was
\* granted of a mandate somebody asks on.
ASSUME SpendAssumption ==
  /\ MaxClock \in Nat /\ CloseAmounts \subseteq Nat
  /\ Decimals \subseteq Nat /\ 0 \in Decimals /\ Limit \in Nat
  /\ \A a \in Asks : a.amount \in Nat
  /\ \A p \in PaymentsRead : HasBudget(Contents[p]) => Maximum(Contents[p]) \in Int
  /\ \A g \in Grants : g.ceiling \in Nat /\ \E a \in Asks : g.payment = MandateOf[a.payment]

CheckoutAnswer(p) == Check2(p \in CheckoutsRead, Contents[p], AgentKey, now)
PaymentAnswer(p) == Check2(p \in PaymentsRead, Contents[p], AgentKey, now)

\* verify_checkout and verify_payment, in the order they are run.
VerifyCheckout(c) ==
  \E a \in Asks :
    /\ at[c].stage = "idle"
    /\ \E answer \in {CheckoutAnswer(a.checkout)} :
         at' = [at EXCEPT ![c] = IF answer = "passed" THEN [stage |-> "checkout", ask |-> a]
                                 ELSE [stage |-> "refused", ask |-> a, reason |-> answer]]
    /\ UNCHANGED <<now, ledger, charged>>

VerifyPayment(c) ==
  /\ at[c].stage = "checkout"
  /\ \E a \in {at[c].ask} : \E answer \in {PaymentAnswer(a.payment)} :
       at' = [at EXCEPT ![c] = IF answer = "passed" THEN [stage |-> "verified", ask |-> a]
                               ELSE [stage |-> "refused", ask |-> a, reason |-> answer]]
  /\ UNCHANGED <<now, ledger, charged>>

-----------------------------------------------------------------------------
AlgOf(p) == SdAlg(IssuerJws(Wire[p]).payload)

\* Mutation: the digest check 2 had to hand, under the checkout mandate's own hash.
ReferenceToHand(checkout, payment) == DigestOf(Wire[checkout], AlgOf(checkout))

\* Under the payment mandate's hash, which need not be the checkout mandate's.
ReferenceOf(checkout, payment) == DigestOf(Wire[checkout], AlgOf(payment))

Paired ==
  {a \in Asks : /\ a.checkout \in CheckoutsRead /\ a.payment \in PaymentsRead
                /\ CheckoutReference(Contents[a.payment]) =
                     DigestText(ReferenceOf(a.checkout, a.payment))}

\* Mutation: the ledger is keyed by the issuer JWS, whose signature can be varied.
LedgerKeyByJws(payment) == DigestOf(Wire[payment], AlgOf(payment))

\* _authorised: the row a payment mandate draws on.
LedgerKey(payment) == SignedDigestOf(Wire[payment], AlgOf(payment))

NoSpend(payment) ==
  [ceiling |-> Maximum(Contents[payment]), currency |-> Currency(Contents[payment]), spent |-> 0]

\* spent_against: a mandate nobody has spent against has no row.
SpentAgainst(payment) ==
  LET id == LedgerKey(payment)
  IN  IF id \in DOMAIN ledger THEN ledger[id] ELSE NoSpend(payment)

AgreesWith(row, payment) ==
  row.ceiling = Maximum(Contents[payment]) /\ row.currency = Currency(Contents[payment])

Distance(m, n) == IF m < n THEN n - m ELSE m - n

\* What an amount comes to in the decimal context: itself, where 28 digits hold it, and
\* else the nearest they do hold.  Which of two as near makes no difference here.
Rounded(n) == CHOOSE d \in Decimals : \A e \in Decimals : Distance(d, n) <= Distance(e, n)
Overflows(n) == Rounded(n) >= Limit

\* Mutation: what is spent is left out of account.
CoversAlone(row, amount) == amount <= row.ceiling

\* covers
Covers(row, amount) == Rounded(row.spent + amount) <= row.ceiling

\* remaining
Left(row) == Rounded(row.ceiling - row.spent)

\* What is left less the amount is below nothing, which Money refuses to be.
Overdraws(row, amount) == Left(row) < amount /\ Rounded(amount - Left(row)) # 0

\* Whether the window, if there is one, is open.
Open(content, instant) ==
  HasWindow(content) =>
    /\ WindowContains(content, ExecutesAt(content, instant))
    /\ WindowContains(content, instant)

\* What check 3 makes of the balance.  It raises where the ledger contradicts the mandate,
\* and where the context cannot hold one of its sums or has made of a close one a pass
\* it is not.
Balance(a, row) ==
  IF \/ ~AgreesWith(row, a.payment)
     \/ Overflows(row.spent + a.amount) \/ Overflows(row.ceiling - row.spent)
  THEN "raised"
  ELSE IF ~Covers(row, a.amount) THEN "exceeds_remaining_balance"
  ELSE IF Overdraws(row, a.amount) THEN "raised"
  ELSE "passed"

\* What check 3 answers, in the order it asks, and that it raises where a constraint it
\* reads has two of one type.
Check3(a) ==
  LET checkout == Contents[a.checkout]
      payment == Contents[a.payment]
  IN  IF a \notin Paired THEN "category_not_authorised"
      ELSE IF ~Single(checkout, ALLOWED_MERCHANTS) THEN "raised"
      ELSE IF \/ Constraint(checkout, ALLOWED_MERCHANTS) # Null
              \/ ~AuthorisesItem(checkout, a.item) THEN "category_not_authorised"
      ELSE IF ~HasBudget(payment) THEN "exceeds_remaining_balance"
      ELSE IF Currency(payment) # a.currency THEN "category_not_authorised"
      ELSE IF ~Open(payment, now) THEN "outside_validity_window"
      ELSE Balance(a, SpentAgainst(a.payment))

\* evaluate: a pass says what has been spent, and so what would remain, and holds nothing
\* back for it.
Evaluate(c) ==
  /\ at[c].stage = "verified"
  /\ \E a \in {at[c].ask} : \E answer \in {Check3(a)} :
       at' = [at EXCEPT ![c] =
                IF answer = "passed"
                THEN [stage |-> "authorised", ask |-> a, when |-> now,
                      already_spent |-> SpentAgainst(a.payment).spent]
                ELSE [stage |-> "refused", ask |-> a, reason |-> answer]]
  /\ UNCHANGED <<now, ledger, charged>>

-----------------------------------------------------------------------------
\* Mutation: the amount of the last deal, and not the total.
DrawnAnew(row, amount) == [row EXCEPT !.spent = amount]

Drawn(row, amount) == [row EXCEPT !.spent = @ + amount]

\* mandate_spend_within_ceiling, which the database adds up for itself.
WithinCeiling(row) == row.spent <= row.ceiling

\* record_spend, in a settlement that commits.
Close(c, amount) ==
  /\ at[c].stage = "authorised"
  /\ \E a \in {at[c].ask} : \E row \in {SpentAgainst(a.payment)} :
       /\ ~Overflows(row.spent + amount) /\ Covers(row, amount)
       /\ WithinCeiling(Drawn(row, amount))
       /\ ledger' = [id \in DOMAIN ledger \union {LedgerKey(a.payment)} |->
                       IF id = LedgerKey(a.payment) THEN Drawn(row, amount) ELSE ledger[id]]
       /\ charged' = [charged EXCEPT ![MandateOf[a.payment]] = @ + amount]
       /\ at' = [at EXCEPT ![c] = [stage |-> "closed", ask |-> a]]
  /\ UNCHANGED now

\* CeilingExceeded, and what the context or the database raises instead: the settlement's
\* transaction is rolled back.
CloseRaises(c, amount) ==
  /\ at[c].stage = "authorised"
  /\ \E stage \in {"ceiling", "failed"}, row \in {SpentAgainst(at[c].ask.payment)} :
       /\ IF stage = "ceiling"
          THEN ~Overflows(row.spent + amount) /\ ~Covers(row, amount)
          ELSE \/ Overflows(row.spent + amount)
               \/ Covers(row, amount) /\ ~WithinCeiling(Drawn(row, amount))
       /\ at' = [at EXCEPT ![c] = [stage |-> stage, ask |-> at[c].ask, amount |-> amount,
                                   already_spent |-> at[c].already_spent]]
  /\ UNCHANGED <<now, ledger, charged>>

\* The caller is told, or the negotiation or the rail comes to nothing, and it asks again.
Finish(c) ==
  /\ at[c].stage \in {"refused", "authorised", "closed", "ceiling", "failed"}
  /\ at' = [at EXCEPT ![c] = [stage |-> "idle"]]
  /\ UNCHANGED <<now, ledger, charged>>

Tick ==
  /\ now < MaxClock
  /\ now' = now + 1
  /\ UNCHANGED <<ledger, at, charged>>

Next ==
  \/ \E c \in Callers :
       \/ VerifyCheckout(c) \/ VerifyPayment(c) \/ Evaluate(c) \/ Finish(c)
       \/ \E amount \in CloseAmounts : Close(c, amount) \/ CloseRaises(c, amount)
  \/ Tick

Spec == Init /\ [][Next]_vars
-----------------------------------------------------------------------------
(* What the documents have to be, for what follows to hold of them.        *)

GrantsFor(a) ==
  {g \in Grants : /\ g.checkout = MandateOf[a.checkout] /\ g.payment = MandateOf[a.payment]
                  /\ a.checkout \notin Altered
                  /\ a.item \in g.items /\ a.currency = g.currency}

\* A mandate is what was signed of it.
MandatesAreSigned ==
  \A p, q \in PaymentsRead :
    MandateOf[p] = MandateOf[q] <=>
      SigningInput(IssuerJws(Wire[p])) = SigningInput(IssuerJws(Wire[q]))

\* What was signed of a Payment Mandate names it, and no other, and its presentations are
\* read as one thing: what sdjwt.py promises of any it verifies.
SignedName(p) == SignedDigestOf(Wire[p], AlgOf(p))

MandatesAreNamed ==
  \A p, q \in PaymentsRead :
    /\ MandateOf[p] = MandateOf[q] <=> SignedName(p) = SignedName(q)
    /\ SignedName(p) = SignedName(q) => Contents[p] = Contents[q]

\* Requests on two mandates that this agent's key is bound to.
Bound ==
  {a \in Asks : /\ a.checkout \in CheckoutsRead /\ Binds(Contents[a.checkout], AgentKey)
                /\ a.payment \in PaymentsRead /\ Binds(Contents[a.payment], AgentKey)}

\* The one mandate refers to the other, by its digest under a hash of the referrer's own.
RefersTo(payment, checkout) ==
  CheckoutReference(Contents[payment]) = DigestText(DigestOf(Wire[checkout], AlgOf(payment)))

\* The documents of a request allow it, but for when it is made and how much it is for.
Authorises(a) ==
  /\ RefersTo(a.payment, a.checkout)
  /\ Constraint(Contents[a.checkout], ALLOWED_MERCHANTS) = Null
  /\ AuthorisesItem(Contents[a.checkout], a.item)
  /\ HasBudget(Contents[a.payment])
  /\ Currency(Contents[a.payment]) = a.currency

\* The documents say what was granted: by whom with whom, up to what and when.
WalletIsAsSigned ==
  /\ \A a \in Bound : Authorises(a) <=> GrantsFor(a) # {}
  /\ \A g \in Grants, p \in PaymentsRead :
       MandateOf[p] = g.payment =>
         HasBudget(Contents[p]) /\ Maximum(Contents[p]) = g.ceiling
  /\ \A a \in Bound, instant \in 0..MaxClock :
       Authorises(a) /\ Open(Contents[a.payment], instant) =>
         \E g \in GrantsFor(a) : instant \in g.opens..g.closes
-----------------------------------------------------------------------------
\* What is charged against one signed Payment Mandate stays within the ceiling its
\* principal signed, over every presentation of it, every order of its disclosures and
\* form of its signature, and every pair of requests forecast the same balance
\* (signed_digest_of, _accumulate).
CeilingIsTheMandates ==
  /\ \A g \in Grants : charged[g.payment] <= g.ceiling
  /\ \A id \in DOMAIN ledger : ledger[id].spent \in 0..ledger[id].ceiling

\* An amount that the context holds as it is, and a request over sums it does.
Exact(n) == n \in Decimals /\ n < Limit
SumsAreExact(a) ==
  /\ Exact(SpentAgainst(a.payment).spent + a.amount)
  /\ Exact(SpentAgainst(a.payment).ceiling - SpentAgainst(a.payment).spent)

Raises(c) == at[c].stage = "verified" /\ at'[c].stage = "refused" /\ at'[c].reason = "raised"

\* Check 3 answers every request it is asked on mandates check 2 verified, and raises,
\* which leaves a decision the trail has no record of, only over an amount so long or so
\* large, beside the ceiling or what is spent, that the context cannot hold their sum or
\* difference as it is (checkout.py's second read, _agrees_with, covers, remaining).
CheckThreeAnswers == [][\A c \in Callers : Raises(c) => ~SumsAreExact(at[c].ask)]_vars

\* A request is refused as not authorised where the principal paired no such mandates
\* and nowhere else: a conformant pair is never refused over the hash it was made under
\* or the order its disclosures come in, and a pair nobody signed never passes, nor a
\* checkout presentation whose signature was altered (the pairing step of evaluate).
PairsAreThePrincipals ==
  \A c \in Callers :
    /\ at[c].stage = "refused" /\ at[c].reason = "category_not_authorised" =>
         GrantsFor(at[c].ask) = {}
    /\ at[c].stage = "authorised" => GrantsFor(at[c].ask) # {}

\* What check 3 passes is asked for while the principal's own window is open, whatever
\* date the mandate writes on itself.
PassedInsideTheWindow ==
  \A c \in Callers : at[c].stage = "authorised" =>
    \E g \in GrantsFor(at[c].ask) : at[c].when \in g.opens..g.closes

\* A deal that closes for no more than was asked and is still refused by the ceiling lost
\* a race: somebody has drawn on the mandate since check 3 forecast what would remain
\* (SpendOutcome.remaining is a forecast and no reservation).  Only where the total is
\* one that 28 digits do not hold may the database find it over when the forecast did not.
OnlyARaceBreaksAForecast ==
  \A c \in Callers :
    at[c].stage \in {"ceiling", "failed"} /\ at[c].amount <= at[c].ask.amount =>
      \/ charged[MandateOf[at[c].ask.payment]] > at[c].already_spent
      \/ /\ at[c].stage = "failed"
         /\ at[c].already_spent + at[c].ask.amount \notin Decimals

\* A balance refusal is final: what a mandate could not cover it never can again,
\* because a total is only ever added to (_accumulate).
BalanceRefusalIsFinal ==
  \A c \in Callers :
    at[c].stage = "refused" /\ at[c].reason = "exceeds_remaining_balance" =>
      \A a \in {at[c].ask} : Check3(a) # "passed"

\* What check 3 lets past is what the principal signed, when it may be done (check.py).
PassesWhatWasGranted == PairsAreThePrincipals /\ PassedInsideTheWindow

\* What check 3 says of the balance holds until somebody draws on it (check.py).
ForecastsHold == OnlyARaceBreaksAForecast /\ BalanceRefusalIsFinal
=============================================================================
