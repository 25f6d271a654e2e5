# Specifications of the Autonomous Merchant Desk

TLA+ specifications of the Desk (`src/desk`), the TLC configurations that check
them, and theorems about them that TLAPS checks. Every definition is translated
from the source; `PROJECT.json` maps each to its lines.

## The system

The Desk is a Python library over Postgres. A buyer agent sends a signed request
carrying two mandates a human signed (an open Checkout Mandate: what may be
bought; an open Payment Mandate: how much may be spent). The request goes through
four deterministic checks, a standing gate, an inspection, a negotiation, and a
settlement. No module composes all of it: the docs and the tests do, in this order:

    TrustSpine.receive        check 1 identity, 2 mandates, 3 spend, 4 freshness
    StandingGate.admit        the ceiling of the agent's rung; blocked agents
    ContentInspection.inspect,
    BehaviourCheck.assess     check 5, which may feed the ladder a signal
    Desk.open, Negotiation    rounds of counter-offers; a closed Checkout Mandate
    Settlement.settle         ledger, rail, receipt
    ReputationLadder.record_clean_deal

Every part writes to one audit trail. The parts share a connection pool and one
database, at READ COMMITTED. Requests run in threads or processes, so everything
between two statements of one of them may be interleaved with all the others.

### Inventory

| Part | State it keeps | Operations | What is hard |
| --- | --- | --- | --- |
| `settlement` | receipts, one per deal; a per-deal advisory lock | `settle`, `find`, `between` | money outside the transaction that records it; retries; three locks and a pool |
| `spend` | `mandate_spend`: a ledger row per Payment Mandate | `spent_against`, `record_spend`; check 3 | check 3 reads what settlement later writes |
| `audit` | the hash-chained table; the chain lock | `record` (own connection or enlisted), `query`, `head`, `verify` | serialising writers; a reader that tails; storage that rewrites numbers |
| `freshness` | `seen_nonce` | `evaluate`, `forget_spent_nonces` | the clock is read before the claim; the sweep |
| `spine` | none | `receive` | order of the checks; two nonces spent one at a time |
| `reputation` | one row per agent: score, rung, signals, blocked | `standing`, `record_clean_deal`, `record_check5_signal`; the gate | the clock is read before the row lock; decay is lazy |
| `negotiation` | one object per deal: round, standing offer, over | `open`, `receive`, `accept` | the end is marked before it is signed and recorded |
| `catalogue` | products, companions, costs | `seed`, `product`; margin arithmetic | prices read at offer, used at acceptance |
| `inspector` | none: it reads the trail | `inspect`, `assess`, `read_history` | requests of one agent told apart by entry order |
| `mandate` | none: documents that travel | `verify_presentation`, the readers, check 2, `close_checkout`, `read_closed_checkout` | a holder arranges what was signed; several byte strings are one mandate |
| `identity` | `agent_identity`, `principal_key`, `desk_key`; one pool per process | `register`, `enrol`, the vault's first use, check 1 | inserts that race; a refusal recorded on a second connection; keys with several spellings |

What makes each correct, in a sentence: a deal is charged and drawn down once,
under a mandate that authorises it, and never past its ceiling (`settlement`,
`spend`); the trail is one unbroken chain in which a decision and its effect are
found together, and an edit of it shows (`audit`); what is read out of a mandate is
what its principal signed, under a name that does not move (`mandate`); whoever was
first with a key or a name is what everyone is told for ever (`identity`); a
presentation is honoured once (`freshness`); nothing is negotiated that did not pass every check in order (`spine`); trust rises no
faster than the ladder allows (`reputation`); the Desk never signs below its floor
and each negotiation ends once (`negotiation`, `catalogue`).

## Modules

| Module | What it is |
| --- | --- |
| `DealLedger` | abstract: what settlement promises, in one step per deal |
| `Settlement` | `settle.py`, `store.py`, `accumulator.py`, a rail and its adapter |
| `SettlementProofs` | theorems about `Settlement`, among them that it implements `DealLedger` |
| `AuditTrail`, `AuditTrailProofs` | `trail.py`, the table's trigger, a tailing reader |
| `Freshness`, `FreshnessProofs` | `check.py`, `nonces.py`, `policy.py` |
| `Reputation`, `ReputationProofs` | `store.py`, `ladder.py`, `gate.py` |
| `TrustSpine` | `spine.py` and the checks it calls, over `Freshness` |
| `History` | `history.py` and what check 5 makes of it, over `TrustSpine` |
| `TrustSpineProofs` | theorems about `TrustSpine` and `History` |
| `Envelope` | `sdjwt.py`: the parts of an SD-JWT on the wire, and its digests |
| `Disclosure` | `sdjwt.py`, `issue.py`: what an SD-JWT says once its disclosures are in it, over `Envelope` |
| `Documents` | `closed.py`, `receipt.py`, `key_binding.py`: written and read back, over `Disclosure` |
| `Presentation` | a holder that puts the parts of documents together, over `Documents` |
| `Mandates` | `open_mandate.py`, `checkout.py`, `payment.py` and check 2, over `Envelope` |
| `SpendAuthority` | check 2, check 3 and the closes that draw on what it forecast, over `Mandates` |
| `MandateProofs` | theorems about `Presentation` and `SpendAuthority` |
| `Identity`, `IdentityProofs` | `registry.py`, `principals.py`, `vault.py`, `check.py`, `schema.py` |
| `Margin` | `margin.py`, `product.py`, `terms.py`: what an offer earns and whether it holds |
| `Policy` | `policy.py`: what `FixedPolicy` proposes, over `Margin` |
| `Negotiation`, `NegotiationProofs` | `deal.py`: rounds, the standing offer, endings, over `Policy` |
| `MC*` | values of the constants for TLC |

### Settlement

A caller is a thread inside `Settlement.settle`; `pc` is the statement it is at,
and each action is the code from one database or rail call to the next. What it
has written inside its transaction is in its `pc` and lands in `Commit`: from
`"charge"` on it has drawn down, from `"record"` on it has inserted a receipt.
`rows` and `spent` are the `mandate_spend` table, `receipts` the receipt table,
`trail` counts the entries `settlement_attempted`, `receipt_issued` and
`settlement_incomplete` (apart: the rail declined it, or the Desk stopped itself).
`dealLock` is the advisory lock on the deal, `rowLock` the row lock the ledger's
`INSERT ... ON CONFLICT` and `SELECT FOR UPDATE` take, `chainLock` the audit
chain's, held from `Record` to the commit; `connected` are the connections held.
An entry on a transaction of its own takes its connection first (`Connect`) and holds
it while it waits for the chain lock. Amounts are those Python's decimals hold exactly;
`SpendAuthority` has the others.
A Payment Mandate outside `Drawable` is one `record_spend` raises on. Begin takes
only presentations that pass `_chains_to`; one that does not raises before
anything is read or written.

The rail is external: it completes a charge, declines it, or never answers, and a
call it never answers may have taken the money. `AdapterAnswers` says what the
adapter makes of that: `RazorpayRail` catches everything and reports
`not_reached`; the protocol `PaymentRail` leaves an adapter free to raise.
`taken` counts the rail's takings; `unheard` and `lostMoney` are history.

### AuditTrail

A writer is one transaction at a time: `record()` on a connection of its own, or
enlisted in a caller's, which changes some state and writes up to `MaxRecords`
entries. The chain lock is taken per `record()`, re-entrantly, and ends with the
transaction. A statement sees the committed table and its own inserts. `Accepts`
is the primary key and the `chain_link` trigger. A digest is a record of what was
hashed, so `DigestOf` is one-to-one. `Jsonb` is what Postgres makes of a payload:
`record` hashes what the database gives back, not what Python sent.

`Verifies` is `verify` over any table, and `VerifiesTo` is `verify` given the hash of
the head. A table is a set of rows, one to a number (`IsTable`). What is said of one
put in the place of the trail is `Tells`: with the hash of the head `verify` passes
the trail and nothing else; without it, it may pass a first part of the trail, or a
trail rewritten and hashed anew to its end, and then every hash from the first change
on is another. `TamperingShows` checks that of every trail a run reaches and of the
tables in `Edits`: any rows removed, any rows changed, or two exchanged, and nothing,
one row, or all rows from some row on made good. Of any other table, rows invented
among them, it is proved and not checked.

### Freshness

A caller is a thread inside `FreshnessCheck.evaluate`: it reads the clock, judges,
claims, records. The sweep is two steps for the same reason. `Key` pairs the agent
and the nonce; `Sound` are the presentations whose hop, audience and dates pass.

### Reputation

A caller is a thread inside `standing`, `record_clean_deal`,
`record_check5_signal` or `StandingGate.admit`, all for one agent: rows are keyed
and locked by agent and nothing of one agent's is read for another. `Begin` reads
the clock, `Lock` is `_lock_or_create`, `Finish` is the rest of the transaction,
every score, rung and signal it writes with the entries that say so, and `Gate`
judges the standing afterwards, on a connection of its own, by the row as it was.
Time is in whole steps of the dwell's, and a score in steps so small that every number
of the policy and every decay is whole; the tail of a float is left out. A call works with the score to the step; the
table holds it to the nearest `Place` (the sixth decimal) and the trail tells it, and
each increment, to the nearest `Grain` (the fourth): `Stored`, `Told`, either way where
two are as near. `MaxStall` is the longest wait between the clock read at `Begin` and
the commit; the code sets none. `recorded` is what the agent's entries say: the sum of
the increments and how many they are, the last score told, the rung and the block.
`StandingIsRecorded` says how far each is from the row: rung and block are the row's,
the last score is within half a `Grain` and half a `Place`, and the sum within as much
for each increment. `arrived`, `reach`, and what a call remembers of its start are
history. Left out: the scrutiny a rung asks for and the currency of a ceiling.

### TrustSpine

A caller is a thread inside `TrustSpine.receive`; `step` is its place in `Order`,
the six evaluations of four checks. Checks 1 and 3 are one step each: what check 1
reads is never rewritten, and what the ledger leaves check 3 is a choice, as every
settlement moves it. Check 2 reads the clock and records later. Check 4 is
`Freshness`, instantiated as `Store` and run once for each presentation, so its
interleavings, its sweep and its replays are here too. `entries` are the trail's,
by the call that wrote them; `admitted` is history. `Die` is a failed statement or
a dead process at any point. `_in_order` raises if a run is out of order: here
that is the property `RunsAreInOrder`, of what is in the trail.

### History

The trail of one agent in the order it was written, the entries of its requests
mixed as they come. `Openings`, `Span` and `Event` are `_walk` and `_event`;
`Read`, `Current` and `Prior` are what `read_history` and `score_history`
take of them. `Examine` is either half of check 5; what a language
model or the score decides is a choice. Left out: the clock and the sweep, which
write nothing; the cut of the query at `ENTRIES_PER_REQUEST`, which a longer trail
would meet; and the five signals, which are sums of floats.

### Envelope, Disclosure, Documents and Presentation

`Envelope`, `Disclosure` and `Documents` have no variables: they are the readers and
writers of signed documents as operators. A presentation is the sequence of its segments, so
that `split_presentation` is by place, as in the code; a segment that is a JWS
carries who signed it and the form of its signature, and one that is a disclosure
what it decodes to. A digest is a record of what was hashed. `_walk` and `_resolve`
are the places of a document, level by level (`Levels`): a level is what stands right
under the one before, with what the disclosures sent put there (`Under`). `Slots` are
the digests found at the places, `Resolved` what the document says with every one
replaced, and `Resolves` that every disclosure is used once, none is missing and every
rule about names is kept. `MaxNesting` is how many levels are walked. The code's bound
is the interpreter's stack; what is deeper is not verified here either.
`Documents` has the closed Checkout Mandate with its inner JWS, the receipt and the
key-binding hop, each written (`CloseCheckout`, `IssueReceipt`) and read
(`ReadsClosed`, `ClosedAs`, ...), with the clock in ticks finer than the whole
seconds they are written in.

`Presentation` is the holder, who is not the Desk: each step puts one part that
exists (an issued JWS under any form of its signature, a disclosure, a hop an agent
made) after the others. Its behaviours are all the wires there can be, and its
properties say what the Desk makes of each. What the parts have to be is named there,
and TLC evaluates it of the parts it is given: a mandate is issued so that it verifies
and means what it is read as (`MandatesAreIssued`); a key signs for one party, and what
a principal signs besides mandates can be told to be unfit from what is in plain sight
(`SignaturesAreTheirs`, `Unfit`); a hop names what it was made over under some hash
(`HopsNameWhatTheyAreFor`); what the Desk's key signs is what `close_checkout` wrote of
terms that can be agreed (`DealsAreClosings`); and what the rail tells has no blank in
it (`ChargesAreTold`).

### Mandates and SpendAuthority

`Mandates` reads an open mandate out of verified claims, in the order the code asks,
and `Check2` is `_verify`. In `SpendAuthority` a caller serves one request: check 2
on each mandate, check 3 on both, a close. Each reads the clock and the ledger for
itself. `ReferenceOf` is the pairing digest, under the payment mandate's own hash;
`LedgerKey` is `signed_digest_of`, the name a mandate's row has. `Check3` is
`evaluate` up to the entry, its raises included, and `Balance` the part of it that reads
the ledger. Amounts are exact, and so are the sums
the database does; the sums Python does are `Rounded` to the nearest of `Decimals`, the
amounts its context of 28 digits holds, and raise from `Limit` on (`Overflows`). An
agent may ask for any amount (`request.py:145` reads any decimal), so `covers` may round
a sum down to the ceiling, after which `Overdraws` is the negative `Money` that
`check.py:260` refuses to make; a draw that the database finds over the ceiling
(`WithinCeiling`), or that the context cannot add, ends in `CloseRaises`. Left out are
Postgres' own bounds on a numeric, past which a statement fails and nothing is drawn.
`Claims` is a constant, what each
wire that verifies is read as; `ClaimsAssumption` of the MC module compares the table
TLC is given with `verify_presentation` on every wire. What the theorems suppose of
the documents is named there and evaluated on the same wires: `MandatesAreSigned`
(two presentations are of one mandate where the same was signed of both, which is what
a mandate is) and `WalletIsAsSigned` (the documents say what was granted: between whom,
how much, when). Neither speaks of `LedgerKey`, `Paired` or `Check3`: that the code
goes by what was signed is what is shown. `MandatesAreNamed` (the digest of what was
signed names one mandate, whose presentations are read alike) is evaluated there too,
and is proved of whatever verifies.

### Identity

A caller is a thread of one of the processes, inside `register`, `enrol`, the
vault's `_load_or_generate` or check 1; `pc` is the statement it is at. `rows` are
the three tables and `Clash` their constraints, `pending` what a transaction has
inserted and not committed: an `INSERT ... ON CONFLICT DO NOTHING` waits for one it
would clash with and looks at the committed rows, as Postgres does. `conns` are the
connections a caller has of its process's pool; `refuse` holds one and waits for a
second. `PoolTimeout` is raised through the call, and a crash ends every call of a
process. A JWK has the text a coordinate is written in and the bytes it decodes to,
and an identity is of the bytes. `answers` is history.

### Margin, Policy and Negotiation

`Margin` and `Policy` have no variables. Money is a whole number of the smallest
amount anything is written in, and a rate a whole number of `1/Den`, so that
`Surplus`, multiplied by `Den`, is exact without a division, as it is in
`margin.py`. What is not exact is modelled by what it does: a price carries its
grid (`Money.scale`), `Carried` rounds half up to the grid of the goods, and
`CeilingTo` rounds a solved price up to the product's. Left out is a price that the
buyer writes with more than 28 digits, whose total `money.py:114` rounds. `Propose` is
`FixedPolicy.propose`, `Shapes` the arrangements in the order of `CONSIDERED`,
`LeastPrice` the solve, its four steps of verification and the price list;
`Raises` is `PriceUnreachable`.

A negotiation is one object that one thread uses, so what interleaves with it is
the catalogue (`Seed`), and what goes wrong in it is a read or a record that
raises. `receive` is two steps, `Receive` up to the read of the product and
`Answer` from the read of its companions on. `Answer` writes any first part of
its entries and may raise after the last; `over` and `standing` are then already
set. `ReceiveUnread` and `Abandon` are the rounds that are counted and not
answered. A deal is a proposal with the position it was decided in; `heard` and
`lost` are history. Signing is one more thing that may raise before the record.

## Runs

| Run | Question | Bounds |
| --- | --- | --- |
| `Settlement` | do tables, trail and rail agree under every interleaving, death and silence; is it a `DealLedger` | 2 callers, 3 calls, 2 deals, 4 mandates, pool of 2 |
| `SettlementEndings` | does a dangling attempt mean a silent rail, with every caveat below removed; does every call end | 3 callers, 3 calls, 2 deals, 2 mandates, pool of 2 |
| `AuditTrail` | is the chain one chain; is a reader ever passed; which edits show | 3 writers, 3 transactions, 2 entries each |
| `Freshness` | what does a spent nonce mean; what does a replay need | 2 callers, 3 requests, clock to 4 |
| `FreshnessRace` | (violated) is a presentation honoured once | the same |
| `Reputation` | is trust gained no faster than the ladder allows; how near the trail tells the standing; what the gate may pass | 2 callers, 4 calls, clock to 5, stall of 1, 3 rungs |
| `TrustSpine` | what has a spent nonce been through; can a nonce pass twice; is the store used as `Freshness` says | 2 callers, 2 calls, 5 requests, clock to 2 |
| `History` | is a request told true; what is in a baseline | 2 callers, 2 calls, 3 requests |
| `Negotiation` | what is offered and closed on holds; is a named price the least; one ending, by the bound; what a yes closes on | 3 rounds, 7 asks, 6 catalogues |
| `Presentation` | is a mandate read as what was signed or not at all; do names move; whom does a hop speak for; is a deal read back | 4 segments, 4 mandates, 2 deals, 9 misissued JWSs, 13 hops |
| `SpendAuthority` | over what does check 3 raise; does it answer what was granted; is its forecast broken by a race alone; is the ceiling kept per mandate | 2 callers, 23 requests over 19 pairs, 2 amounts to close for, clock to 1 |
| `Identity` | who is told what, by racing processes that die; does every call end | 3 threads, pools of 2 and 1, 3 calls, 1 crash |

Why the bounds are enough. In `Settlement`, two callers are the smallest race and
a third call is a retry after it; one mandate covers either deal and not both, one
covers only the smaller, one authorises another checkout, one has no budget.
Every lock is held by one caller and waited for by another within these bounds.
In `AuditTrail`, two writers contend for the lock while a third rolls back, and
three transactions of two entries leave room for an entry before, between and after. In
`Freshness` the clock passes the window and the skew with room for a check that
stalls, and three requests are an original, a copy, and a reused nonce. In
`Reputation` four calls are enough to climb twice, to be signalled to the limit
and to be read afterwards; the third rung is there so that a climb could skip one,
and the clock passes the dwell and the first decay with the stall to spare. A `Place`
is two steps and a `Grain` four, and a deal, a signal and a day's decay move the score
by an odd number, so that what is stored and what is told are each rounded, up and down.
In `TrustSpine` one request is whole and each other is wrong in one way (one nonce
in both halves, another agent's mandate, a stranger's signature, no price); a
mandate lapses and a nonce is swept within the clock, and two calls are a request
and its copy, or a request and its retry. What takes more callers than two, the
theorems cover. In `History` two calls overlap in every way two can: what passes,
what check 3 refuses, and what check 1 does. In `Negotiation` three rounds are an
offer, another after it and the bound; a smallest amount is a quarter of a unit, so
that both grids occur. The asks and catalogues were chosen so that every lever is
offered, plain and levered asks are closed on, the Desk walks away for want of any
price and for want of a near one, the solve is stuck, and rounding makes the Desk
undercut the buyer; seeding goes from each catalogue to any that holds its skus.
In `Presentation` four segments are a JWS, its disclosures or one of them doubled,
and a hop, in every order, and `MaxNesting` is past the deepest (6; 10 in
`SpendAuthority`); the mandates disclose an array element, two claims, one
under another hash and one within another, and each misissued JWS breaks one rule of
the resolution. In `SpendAuthority` the pairs are the conformant ones and, for each
thing check 2, the pairing and check 3 look at, one that is wrong in it; two callers
forecast the same balance and one closes; the clock moves once, into or out of each
window. The context holds one digit in base three, up to 27: against a ceiling of 6, an
ask of 7 is a sum that rounds to the ceiling and then overdraws, and one of 27 overflows. In `Identity` two threads of one process can hold both its connections and
wait for a third, and the thread of the other waits for the one it holds itself;
three calls are an arrival, a second of it, and one that is told of either.

`CHECK_DEADLOCK FALSE` is in every configuration but `SpendAuthority`'s because
calls, transactions, requests and the clock are bounded: when they are used up the
system stops. That nothing waits for ever is `CallsReturn`, not the absence of
deadlock.

Fairness is assumed in two runs. In `SettlementEndings` it is strong fairness of
each caller's own next statement: Postgres queues waiters for a lock, and the pool
waiters for a connection, in the order they came, so a waiter is not passed over
for ever; and a rail call answers or raises. `Begin` and `Fault` are not fair. In
`Identity` it is weak fairness of a caller's work and of its wait: a thread runs
on, and one that waits for a connection gets one or its timeout. `Start` and
`Crash` are not fair.

### Where the documents and the code part

`FreshnessRace` shows the fourth; the others are what the models do because the code
does, and the properties that hold are worded around them.

* A settlement whose `record_spend` raises `ValueError` or `LedgerContradiction`
  leaves an attempt with no ending (`settle.py:200`), which the docs reserve for a
  rail that never answered.
* `RazorpayRail` reports a call it got no answer to as one that did not complete,
  so such an attempt is given an ending that says no money moved.
* A death between the charge and the commit leaves no receipt, and a retry charges
  again. The receipt's name and the look for it stop every other double charge
  (`SettledDealsAreNotCharged`), not this one.
* A check 4 that read the clock before a sweep did, and claimed after it, honours
  a presentation a second time. `ReplayOnlyAcrossASweep` says nothing else does.
* A deal closed at `maximum_score` changes no score, so `_change_score`
  (`store.py:323`) writes none and `scored_at` stays: the next read charges the time
  before the deal as idle. `store.py:61` says regular business never triggers it.
* Check 1 records a failed signature under the agent the header names
  (`identity/check.py:84`), and `_walk` opens a request on it (`history.py:95`): it
  counts against that agent, where `history.py:15` says it is in no history.
* When two requests of one agent overlap, the one assessed is the one that opened
  last (`behaviour.py:234`), not the one `assess` was called for (`history.py:64`),
  and the refusal of the first is read as the second's, so that its amount stays in
  the baseline (`behaviour.py:269` says it does not). `BaselineWasAuthorised` is
  what is left: an amount there was at least covered by a mandate.
* When the bound ends a negotiation, `receive` (`deal.py:248`) hands `_walk` the
  counter-offer the policy made: the entry says `below_margin_floor` and its margin
  is inside the floor, where `policy.py:146` and `deal.py:491` say a walk-away is
  about the deal that was refused. For the same reason an ask above the list price
  is walked away from at the bound, though the list price holds.
* A counter-offer stands before it is recorded (`deal.py:271`). If the record raises,
  a buyer that then accepts what it last heard closes on the offer it never heard;
  `accept` says that is "the one thing an acceptance may not do" (`deal.py:279`).
* "Every outcome, pass or refusal, is recorded" (`spend/check.py:120`). An amount of
  `1E+1000000` overflows in `covers`; one of the ceiling and `1E-28` rounds to the
  ceiling there, passes, and leaves a negative `Money` at `check.py:260`. Both raise and
  neither is recorded. `CheckThreeAnswers` is what is left.
* An agent's standing "can be reconstructed from the trail alone"
  (`reputation/store.py:20`, `ticket-12-reputation-ladder.md:117`). An increment is told
  to four places (`store.py:335`) of a score that is kept to six, so the increments do
  not add up to it, and by the more the more there are. `score_after` of the last entry
  does not drift. `StandingIsRecorded` has both.
* `PriceUnreachable` is "reached only by a defect" (`policy.py:70`): a floor and a
  carry rate that leave a small share of the price make each step up the grid add
  less than the rounding of the carry takes, and an ordinary ask reaches it.
* A counter-offer may be below the price that was asked: the rounded carry refuses
  the buyer's number and not a lower one. `NamedPricesAreTheLeast` says it is never
  anything else.
* A blocked agent whose score is above baseline still decays: `_settle`
  (`store.py:252`) looks at the score and not at `blocked`, where `policy.py:17` and
  `ladder.py:132` say such an agent is left where it is.
* A refused change of principal "is recorded in the audit trail rather than merely
  raised" (`registry.py:70`). The record needs a second connection while the first is
  held, and when the pool has none left `PoolTimeout` is raised instead, with no
  record. `TrailTellsRegistrations` is what is left: a refusal that is told is there.
* Given the hash of an earlier head, `verify` (`trail.py:301`) says that entries after
  it have been removed, of an honest trail that merely grew as well.
* A mandate's expiry is looked at in check 2 alone and its window in check 3 alone, so
  that a deal may close after either has passed. `PassesWhatWasGranted` is of the
  instant check 3 passed.

## Theorems

Proved for every value of the constants that meets the module's assumption; what a
theorem supposes besides is an `ASSUME` of its own, named below. The type invariants
of these modules, and `LocksProtect` and `RecordNeverCollides`, are theorems only: no
run repeats them.

* `SettlementProofs`. The inductive invariant says what a caller at each statement
  holds: its deal's lock from the second look on, its mandate's row lock from the draw
  on; what it may conclude: nobody has settled its deal, and its draw still fits; and
  that totals are within their ceilings and calls and receipts are chains. A commit
  keeps a total within its ceiling because what was checked at the draw still holds,
  and the others' facts survive it because they hold other locks. From it follow `CeilingIsNeverPassed`, `SettledDealsStayUncharged`
  and `Refinement`: `Commit` is `Settle` of `DealLedger` and every other action
  leaves receipts and totals alone. `LedgerAlwaysMatches` is of sums: a commit adds
  one receipt and its price to the total (`SumOfOneMore`). `TakingsAreAccountedFor`
  and `AttemptsAreEnded` count callers: a step moves one of them into or out of the
  statements counted (`CountMoves`), which takes finitely many of them
  (`IsFiniteSet(Callers)`). `AttemptsAreEnded` supposes what its run does: an adapter
  that raises when it is not answered, no faults, mandates that can all be drawn on.
* `AuditTrailProofs`. The invariant: committed entries are a gap-free chain from
  the genesis hash; only the holder of the chain lock has pending entries, and they
  continue it; a writer that read the head still has it. Then the chain verifies,
  entries are always accepted, a reader's page is complete, and state and record
  agree. `AnyTamperingShows` is of any table in the place of the trail
  (`AnyTableTells`), and `TamperingAlwaysShows` of the run's: rows that verify are
  numbered from one and each names the digest of the one before, so that two tables
  that verify and have a hash in common, a digest being one-to-one, agree on that row
  and, going down from it, on every row before (`SameHashSameRows`). It supposes that
  the genesis hash is nothing's digest (`GenesisIsNoDigest`).
* `FreshnessProofs`. The invariant: what was honoured is in the table unless a
  sweep has forgotten by an instant at which it was stale.
* `ReputationProofs`. First the pure part: `highest_available` returns the highest
  rung the score reaches, and the outcome of a call takes a sound row to a sound row,
  at most one rung up and only after the dwell. Then the invariant: every row is
  sound and dated within a stall of the clock, and a caller that decides is alone
  and has the row as it is. That the trail is as near as it is follows step by step:
  each write adds one rounding of the table and one of the trail to what was apart.
  Every property of the run follows; `GateIsNotBehind` assumes besides that a higher rung's ceiling is no lower.
* `TrustSpineProofs`. Every step of the spine is a step of `Freshness` or leaves its
  variables alone, so `FreshnessProofs` is used as it is, through INSTANCE. The
  invariant adds what an entry has proven of its request (`Proven`), that a caller
  inside `receive` has a call of its own with all earlier checks passed (`At`), and
  that two hops honoured under one nonce had a sweep between them (`SweptBetween`).
  Every property of the run follows, the refinement among them. `History` adds
  variables and steps beside the spine (`HistoryIsBesideTheSpine`), so all of this
  holds there. Its invariant, `HistoryInv`, ties the trail to what the spine
  recorded: a line is of a call its agent made and says of check 3 what the call's
  entries do (`TrueOf`), a call is in the trail once it has recorded anything
  (`Heard`), and its first line and no other is check 1's (`OpensByCheck1`). The last
  is what `read_history` goes by; from it, that where the lines of a call are together
  what is between two openings is one request (`AloneIsRead`), and that whatever is
  between them an amount was passed by check 3 (`BaselinesAreAuthorised`).
* `NegotiationProofs`. The invariant: an answer is worked out only while the
  negotiation runs, what stands was told to the buyer or is known not to have been,
  and a walk-away is the policy's own answer and not an acceptance. One ending, the
  bound and the buyer's yes follow for any policy; that no holding price is walked
  away from uses of `Propose` only that the plain arrangement is tried first.
  What is said of prices is of `FixedPolicy`. `NothingIsDealtBelowFloor`: each
  candidate of the solve is verified before it is one, so that the least of them holds
  (`LeastPriceHolds`, `ProposalHolds`), of the product as it was read and whatever is
  seeded since. `TheLeastIsNamed`: the solve starts at the least multiple of the
  product's grid that holds exactly (`CeilingIsLeast`, `StartIsLeast`), nothing lower
  holds with its carry rounded (`NothingHoldsBelow`), and the least option is named.
  It supposes `OrdinaryCatalogues`, which TLC evaluates on the catalogues it is given:
  no floor and cost of waiting take all of the revenue between them, and no companion
  written coarser than the item pays for the packing. Outside them `policy.py` may
  name more than the least, in two corners that nothing in the catalogue rules out: it
  has no price for an arrangement whose denominator is nought or less, though a
  companion could carry it, and it writes a free item in whole units, which rounds
  otherwise than the item's own grid does. `UndercutsAreRounding` needs neither.
* `MandateProofs`, in two parts. The first is of documents, whatever was signed and
  however it nests. By induction up the levels, what a document shows depends only on
  the disclosures that stand in it (`LevelsAlike`), and where none is missing, none left
  over and none doubled these are one set: what was signed determines what it is read in
  full with (`OneDisclosureInFull`). A presentation therefore verifies exactly when it
  sends that set, in any order, and then says one thing (`ReadAsSigned`); what was
  signed unfit is never read, because the rule it breaks is broken by any set. Names are
  digests of the signed part alone (`NamesDoNotVary`), and a digest being one-to-one a
  hop is of one presentation (`HopsAreNotLifted`). Of what the Desk closes, the encoded
  terms are read back part by part, the envelope and the inner JWS checked against each
  other, and the receipt with them (`DealsAreToldToTheEnd`); that there is something to
  read, for any terms, is `WhatIsClosedIsRead`.
  The second is of the ledger. `SpendInv` holds whatever the documents are: every row
  has some mandate's ceiling and is within it (`Ledger`), and what check 2 or check 3 has
  said of a request its documents bear out (`Stage`), which no clock and no other caller
  changes. `NamedInv` needs a mandate to have one name, `MandatesAreNamed`, which the
  first part proves (`LedgerNamesAreMandates`) of claims that are what
  `verify_presentation` returns (`ClaimsAreRead`) and mandates that are what was signed
  of them (`MandatesAreSigned`): what a mandate was charged is what its row has
  (`Charged`), and what the ledger has told a caller it still says, because rows only
  grow (`Told`). From them, and `WalletIsAsSigned` where grants are spoken of, every
  property of the run. Of the context it is used that what it holds it leaves alone and
  that rounding keeps order (`DecimalsAreHeld`, `RoundedGrows`), whatever `Decimals` and
  `Limit` are: so an exact sum never raises (`Check3Answers`), and a balance that did
  not cover an amount covers it at no higher total (`StillShort`).
* `IdentityProofs`. The invariant: no two rows clash, and none clashes with what a
  transaction has inserted, nor do two of these (`Uncontested`, `Apart`); what a
  caller has found at each statement (`Knows`), which nobody's commit takes away
  because rows are only added; what its call has on the trail (`Told`), and what is
  settled of a call once it was answered (`Settled`). A lemma for a step of a caller's
  own variables, one for an entry and one for calls that end carry most actions. Every
  safety property of the run follows, for any pools, processes and crashes.

Induction is the one difficulty these share: the library's theorems on it take an
operator, which the provers cannot instantiate. Where a proof needs it (a sum, a
greatest of a finite set, a least option) it takes the least number at which the
claim would fail, by `WFMin`, of a function or a set.

`HistoryInv`, and `NamedInv` with `SpendInv` in it, were found inductive only after TLC
had found no state of their runs outside them; with the others they are not in the
runs, which check what follows from them.

Only model-checked: both `CallsReturn`, because liveness is out of the prover's reach.
Every other property of a passing run is stated by a theorem. What `MandateProofs`
supposes by name, TLC evaluates of the constants of the two runs.

## Not modelled

Cryptography (a signature is who made it, a digest what was hashed), the spelling of
JSON and of money, the published key sets, the language model behind the content
inspection, the five behaviour signals (sums of floats), `Receipts.between`, and the
fixtures under `world/`. Two hazards have no property: a score at its ceiling that is
not written (above), and a standing that changes between the gate's pass and the
settlement, which no code of the Desk looks at again.

## Plan

In order, each with its runs and, where a proof adds something, its theorems:

1. `Desk`: the gate, check 3 and settlement composed; what may change between.
2. What the behaviour signals decide on, once the sums are given as whole numbers.
