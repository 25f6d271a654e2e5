----------------------------- MODULE TrustSpine -----------------------------
(***************************************************************************)
(* desk/spine: one signed request through checks 1 to 4, in one order,     *)
(* stopping at the first no.                                               *)
(*                                                                         *)
(* A caller is one thread inside TrustSpine.receive; step is the check it  *)
(* is at.  Each check reads what it judges by, and records its verdict in  *)
(* a transaction of its own; only the fourth changes anything else, and it *)
(* is Freshness's, run once for each of the request's two presentations.   *)
(* Threads interleave between any two of these, and the clock runs.        *)
(*                                                                         *)
(* A request is a model value.  What its bytes, mandates and proofs of     *)
(* possession would be found to say is given by constants.                 *)
(***************************************************************************)
EXTENDS Integers, Sequences

CONSTANTS
  Callers, Agents, Requests,
  ClaimedBy,        \* the agent a request's header names
  Authentic,        \* requests its registered key verifies
  Checkout, Payment, \* the presentations a request carries
  Amount,           \* the price it states; 0 is one that cannot be read
  Within,           \* requests that satisfy check 3 as far as the ledger
  Presentations,
  HeldBy,           \* the agent whose key its mandate binds
  Granted,          \* presentations that carry their principal's signature
  Expires,          \* when the mandate of each lapses
  Key, IssuedAt, Sound, Window, Skew, MaxClock, MaxRequests, \* Freshness's
  MaxRuns           \* bound: calls of receive in one behaviour

ASSUME SpineAssumption ==
  /\ Agents # {}
  /\ ClaimedBy \in [Requests -> Agents]
  /\ Authentic \subseteq Requests /\ Within \subseteq Requests
  /\ Checkout \in [Requests -> Presentations]
  /\ Payment \in [Requests -> Presentations]
  /\ Amount \in [Requests -> Nat]
  /\ HeldBy \in [Presentations -> Agents]
  /\ Granted \subseteq Presentations /\ Sound \subseteq Presentations
  /\ Presentations # {}
  /\ Expires \in [Presentations -> Nat] /\ IssuedAt \in [Presentations -> Nat]
  /\ \A p \in Presentations : Key[p][1] = HeldBy[p]
  /\ Window \in Nat \ {0} /\ Skew \in Nat
  /\ MaxClock \in Nat /\ MaxRequests \in Nat /\ MaxRuns \in Nat

VARIABLES
  clock, pc, presented, now, nonces, passed, replayed, sweep, forgotten, requests,
  step,     \* each caller: the check it is at; 0 outside receive
  finding,  \* what that check has found and not yet recorded
  run,      \* the number of its call
  asked,    \* history: the request of each call
  entries,  \* the trail: the checks' entries, by the call that wrote them
  admitted  \* history: the calls that returned a passed outcome

store == <<clock, pc, presented, now, nonces, passed, replayed, sweep, forgotten, requests>>
thread == <<step, finding, run, asked>>
spineVars == <<store, thread, entries, admitted>>

Store == INSTANCE Freshness

\* ORDER, as receive runs it: checks 2 and 4 once for each presentation.
Order == <<1, 2, 2, 3, 4, 4>>

Findings == {"none", "passes", "fails", "fresh"}

Run == 1..MaxRuns

Entry == [check : 1..4, refused : BOOLEAN, amount : Nat]

SpineInit ==
  /\ Store!Init
  /\ step = [c \in Callers |-> 0]
  /\ finding = [c \in Callers |-> "none"]
  /\ run = [c \in Callers |-> 0]
  /\ asked = <<>>
  /\ entries = [k \in Run |-> <<>>]
  /\ admitted = {}
-----------------------------------------------------------------------------
Request(c) == asked[run[c]]

\* The presentation a check reads: the checkout's first, then the payment's.
HalfAt(r, k) == IF k \in {2, 5} THEN Checkout[r] ELSE Payment[r]

Half(c) == HalfAt(Request(c), step[c])

\* Mutation: whoever presents a mandate its principal signed may use it.
SignedIsEnough(p, agent) == p \in Granted /\ clock < Expires[p]

\* MandateCheck: signed by its principal, not lapsed, and bound to this agent's key.
Verifies(p, agent) ==
  /\ p \in Granted
  /\ clock < Expires[p]
  /\ HeldBy[p] = agent

\* SpendAuthorityCheck, and _no_amount before it.  What the ledger leaves is
\* read here and moves with every settlement.
Fits(r, covered) == Amount[r] # 0 /\ r \in Within /\ covered

\* The verdict the caller is at goes in the trail.  Check 3's entry says what was
\* asked for.
Write(c, refused) ==
  LET check == Order[step[c]]
  IN  entries' = [entries EXCEPT ![run[c]] = Append(@,
        [check |-> check, refused |-> refused,
         amount |-> IF check = 3 THEN Amount[Request(c)] ELSE 0])]

GoTo(c, k) ==
  /\ step' = [step EXCEPT ![c] = k]
  /\ finding' = [finding EXCEPT ![c] = "none"]
  /\ run' = [run EXCEPT ![c] = IF k = 0 THEN 0 ELSE @]
  /\ UNCHANGED asked

\* Mutation: a refusal is recorded and the next check run.
ConcludeAndGoOn(c, ok) ==
  /\ Write(c, ~ok)
  /\ GoTo(c, (step[c] + 1) % (Len(Order) + 1))

\* A verdict is recorded, and the first no ends the call.
Conclude(c, ok) ==
  /\ Write(c, ~ok)
  /\ GoTo(c, IF ok THEN step[c] + 1 ELSE 0)

Found(c, what) ==
  /\ finding' = [finding EXCEPT ![c] = what]
  /\ UNCHANGED <<step, run, asked>>
-----------------------------------------------------------------------------
Receive(c, r) ==
  /\ step[c] = 0
  /\ Len(asked) < MaxRuns
  /\ asked' = Append(asked, r)
  /\ run' = [run EXCEPT ![c] = Len(asked) + 1]
  /\ step' = [step EXCEPT ![c] = 1]
  /\ UNCHANGED <<store, finding, entries, admitted>>

\* What checks 1 and 3 judge by does not move while they do: the registry is
\* never rewritten, and what the ledger says is taken as it comes.
Identify(c) ==
  /\ step[c] = 1
  /\ Conclude(c, Request(c) \in Authentic)
  /\ UNCHANGED <<store, admitted>>

Authorise(c) ==
  /\ step[c] = 4
  /\ \E covered \in BOOLEAN : Conclude(c, Fits(Request(c), covered))
  /\ UNCHANGED <<store, admitted>>

\* Check 2 reads the clock, and records later.
JudgeMandate(c) ==
  /\ step[c] \in {2, 3}
  /\ finding[c] = "none"
  /\ Found(c, IF Verifies(Half(c), ClaimedBy[Request(c)]) THEN "passes" ELSE "fails")
  /\ UNCHANGED <<store, entries, admitted>>

\* Check 4 reads the clock: a hop that is stale is refused without a claim.
JudgeHop(c) ==
  /\ step[c] \in {5, 6}
  /\ finding[c] = "none"
  /\ Store!Evaluate(c, Half(c))
  /\ Found(c, IF pc'[c] = "claim" THEN "fresh" ELSE "fails")
  /\ UNCHANGED <<entries, admitted>>

Answer(c) ==
  /\ finding[c] \in {"passes", "fails"}
  /\ Conclude(c, finding[c] = "passes")
  /\ UNCHANGED <<store, admitted>>

Claim(c) ==
  /\ Store!Claim(c)
  /\ UNCHANGED <<thread, entries, admitted>>

\* Mutation: one fresh presentation of the two is enough.
HonourOneHalf(c) ==
  /\ Store!Record(c)
  /\ Write(c, FALSE)
  /\ GoTo(c, 0)
  /\ admitted' = admitted \union {run[c]}

\* The nonce is spent and its entry written together; after the second the
\* request has passed.
Honour(c) ==
  /\ Store!Record(c)
  /\ Write(c, FALSE)
  /\ GoTo(c, IF step[c] = Len(Order) THEN 0 ELSE step[c] + 1)
  /\ admitted' = admitted \union (IF step[c] = Len(Order) THEN {run[c]} ELSE {})

Replayed(c) ==
  /\ Store!Refuse(c)
  /\ Conclude(c, FALSE)
  /\ UNCHANGED admitted

\* Mutation: a claim outlives the transaction that made it.
DieHavingSpent(c) ==
  /\ step[c] # 0
  /\ nonces' = nonces \union (IF pc[c] = "record" THEN {Store!RowOf(presented[c])} ELSE {})
  /\ pc' = [pc EXCEPT ![c] = "idle"]
  /\ GoTo(c, 0)
  /\ UNCHANGED <<clock, presented, now, passed, replayed, sweep, forgotten, requests>>
  /\ UNCHANGED <<entries, admitted>>

\* A statement fails, or the process dies.  What was recorded stays recorded.
Die(c) ==
  /\ step[c] # 0
  /\ IF pc[c] = "idle" THEN UNCHANGED store ELSE Store!Fault(c)
  /\ GoTo(c, 0)
  /\ UNCHANGED <<entries, admitted>>

\* The clock and the sweep, which no caller of receive waits for.
Around ==
  /\ Store!Tick \/ Store!BeginSweep \/ Store!Forget
  /\ UNCHANGED <<thread, entries, admitted>>

Handle(c) ==
  \/ \E r \in Requests : Receive(c, r)
  \/ Identify(c) \/ JudgeMandate(c) \/ Authorise(c) \/ JudgeHop(c) \/ Answer(c)
  \/ Claim(c) \/ Honour(c) \/ Replayed(c) \/ Die(c)

SpineNext == Around \/ \E c \in Callers : Handle(c)

SpineSpec == SpineInit /\ [][SpineNext]_spineVars
-----------------------------------------------------------------------------
(* What must hold.                                                         *)

SpineTypeOK ==
  /\ Store!TypeOK
  /\ step \in [Callers -> 0..Len(Order)]
  /\ finding \in [Callers -> Findings]
  /\ run \in [Callers -> 0..Len(asked)]
  /\ asked \in Seq(Requests) /\ Len(asked) <= MaxRuns
  /\ entries \in [Run -> Seq(Entry)]
  /\ admitted \subseteq DOMAIN asked

Agent(k) == ClaimedBy[asked[k]]

Halves(k) == {Checkout[asked[k]], Payment[asked[k]]}

\* What _in_order asserts, of what is in the trail whenever it is read: a call's
\* entries are the checks in order from the first, with nothing after a refusal,
\* and a call that passes has all of them.
RunsAreInOrder ==
  \A k \in DOMAIN asked :
    /\ \A i \in DOMAIN entries[k] :
         /\ entries[k][i].check = Order[i]
         /\ entries[k][i].refused => i = Len(entries[k])
    /\ k \in admitted =>
         /\ Len(entries[k]) = Len(Order)
         /\ \A i \in DOMAIN entries[k] : ~entries[k][i].refused

Cleared(k, check) == \E i \in DOMAIN entries[k] : entries[k][i].check = check /\ ~entries[k][i].refused

\* A nonce is spent only by its own agent's authentic request, and only once the
\* first three checks have passed it: a request refused for what it is or what
\* it asks for can be corrected and sent again with the same presentations.
RefusalsSpendNothing ==
  \A r \in nonces :
    \E k \in DOMAIN asked :
      /\ asked[k] \in Authentic
      /\ Agent(k) = r.key[1]
      /\ \E p \in Halves(k) : Key[p] = r.key
      /\ \A check \in 1..4 : Cleared(k, check)

\* A sweep has forgotten by an instant at which the presentation was stale.
SweptSince(p) == IssuedAt[p] < Store!StaleBefore(forgotten)

\* A nonce is carried by one passed request, in one of its halves.  Two that pass
\* with one nonce, or one that passes with the same nonce twice, had a sweep forget
\* one of the presentations as stale.
ANoncePassesOnce ==
  /\ \A j, k \in admitted : \A p \in Halves(j), q \in Halves(k) :
       j # k /\ Key[p] = Key[q] => SweptSince(p) \/ SweptSince(q)
  /\ \A k \in admitted :
       Key[Checkout[asked[k]]] = Key[Payment[asked[k]]] => \E p \in Halves(k) : SweptSince(p)

\* Whatever receive does, the nonces and check 4's entries are Freshness's: no
\* order of checks, refusals and deaths spends one in another way.
ChecksFreshness == Store!Spec
=============================================================================
