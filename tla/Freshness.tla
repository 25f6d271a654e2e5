----------------------------- MODULE Freshness -----------------------------
(***************************************************************************)
(* desk/freshness: check 4 on one presentation, the store of nonces it has *)
(* honoured, and the sweep that forgets them.                              *)
(*                                                                         *)
(* A caller is one thread inside FreshnessCheck.evaluate.  It reads the    *)
(* clock once, judges the presentation against that instant, and only then *)
(* claims the nonce; between the two the clock may move and the sweep may  *)
(* run.  A claim and the entry explaining it are one transaction.          *)
(***************************************************************************)
EXTENDS Integers

CONSTANTS
  Callers,
  Presentations,
  Key,          \* (agent_id, nonce) of each presentation
  IssuedAt,     \* iat of its key-binding hop
  Sound,        \* those whose hop, audience and mandate dates are in order
  Window, Skew, \* FreshnessPolicy
  MaxClock,     \* bound: the Desk's clock
  MaxRequests   \* bound: calls of evaluate in one behaviour

ASSUME FreshnessAssumption ==
  /\ IssuedAt \in [Presentations -> Nat]
  /\ Presentations # {}
  /\ Sound \subseteq Presentations
  /\ Window \in Nat \ {0}
  /\ Skew \in Nat
  /\ MaxClock \in Nat
  /\ MaxRequests \in Nat

VARIABLES
  clock,
  pc, presented, now,  \* each caller: what it has, and the instant it read
  nonces,              \* the seen_nonce table
  passed, replayed,    \* check 4's committed entries, per presentation
  sweep,               \* the instant a running sweep read; -1 when none runs
  forgotten,           \* history: the latest instant a sweep forgot by
  requests

caller == <<pc, presented, now>>
trail == <<passed, replayed>>
sweeper == <<sweep, forgotten>>
vars == <<clock, caller, nonces, trail, sweeper, requests>>

Steps == {"idle", "claim", "record", "refuse"}

Row == [key : {Key[p] : p \in Presentations}, presented_at : Nat]

RowOf(p) == [key |-> Key[p], presented_at |-> IssuedAt[p]]

StaleBefore(at) == at - Window - Skew

Covers(made_at, at) == StaleBefore(at) <= made_at /\ made_at <= at + Skew

Init ==
  /\ clock = 0
  /\ pc = [c \in Callers |-> "idle"]
  /\ presented = [c \in Callers |-> CHOOSE p \in Presentations : TRUE]
  /\ now = [c \in Callers |-> 0]
  /\ nonces = {}
  /\ passed = [p \in Presentations |-> 0]
  /\ replayed = [p \in Presentations |-> 0]
  /\ sweep = -1
  /\ forgotten = -1
  /\ requests = 0
-----------------------------------------------------------------------------
Tick ==
  /\ clock < MaxClock
  /\ clock' = clock + 1
  /\ UNCHANGED <<caller, nonces, trail, sweeper, requests>>

GoTo(c, step) == pc' = [pc EXCEPT ![c] = step]

\* evaluate reads the clock and judges by it.  One that is stale is refused on a
\* transaction of its own, which touches no nonce: that call is over.
Evaluate(c, p) ==
  /\ pc[c] = "idle"
  /\ requests < MaxRequests
  /\ requests' = requests + 1
  /\ presented' = [presented EXCEPT ![c] = p]
  /\ now' = [now EXCEPT ![c] = clock]
  /\ GoTo(c, IF p \in Sound /\ Covers(IssuedAt[p], clock) THEN "claim" ELSE "idle")
  /\ UNCHANGED <<clock, nonces, trail, sweeper>>

Seen(key) == \E r \in nonces : r.key = key

Claiming(key) == {c \in Callers : pc[c] = "record" /\ Key[presented[c]] = key}

\* Mutation: the claim is on a connection of its own, and committed by itself.
ClaimOnItsOwn(c) ==
  /\ pc[c] = "claim"
  /\ Claiming(Key[presented[c]]) = {}
  /\ IF Seen(Key[presented[c]])
     THEN GoTo(c, "refuse") /\ UNCHANGED nonces
     ELSE GoTo(c, "record") /\ nonces' = nonces \union {RowOf(presented[c])}
  /\ UNCHANGED <<clock, presented, now, trail, sweeper, requests>>

\* INSERT ... ON CONFLICT DO NOTHING: it waits for another transaction's uncommitted
\* row of the same key, and then says whether the key was there.
Claim(c) ==
  /\ pc[c] = "claim"
  /\ Claiming(Key[presented[c]]) = {}
  /\ GoTo(c, IF Seen(Key[presented[c]]) THEN "refuse" ELSE "record")
  /\ UNCHANGED <<clock, presented, now, nonces, trail, sweeper, requests>>

\* The pass: the row and its entry commit together.
Record(c) ==
  /\ pc[c] = "record"
  /\ nonces' = nonces \union {RowOf(presented[c])}
  /\ passed' = [passed EXCEPT ![presented[c]] = @ + 1]
  /\ GoTo(c, "idle")
  /\ UNCHANGED <<clock, presented, now, replayed, sweeper, requests>>

\* NONCE_REPLAYED, on the transaction whose claim changed nothing.
Refuse(c) ==
  /\ pc[c] = "refuse"
  /\ replayed' = [replayed EXCEPT ![presented[c]] = @ + 1]
  /\ GoTo(c, "idle")
  /\ UNCHANGED <<clock, presented, now, nonces, passed, sweeper, requests>>

\* A statement fails or the process dies: what was claimed is not.
Fault(c) ==
  /\ pc[c] # "idle"
  /\ GoTo(c, "idle")
  /\ UNCHANGED <<clock, presented, now, nonces, trail, sweeper, requests>>

\* forget_spent_nonces reads the clock, and then deletes by it.
BeginSweep ==
  /\ sweep = -1
  /\ sweep' = clock
  /\ UNCHANGED <<clock, caller, nonces, trail, forgotten, requests>>

Later(a, b) == IF a < b THEN b ELSE a

\* Mutation: a nonce is forgotten as old as the window, the skew left out.
ForgetByTheWindowAlone ==
  /\ sweep # -1
  /\ nonces' = {r \in nonces : r.presented_at >= sweep - Window}
  /\ forgotten' = Later(forgotten, sweep)
  /\ sweep' = -1
  /\ UNCHANGED <<clock, caller, trail, requests>>

Forget ==
  /\ sweep # -1
  /\ nonces' = {r \in nonces : r.presented_at >= StaleBefore(sweep)}
  /\ forgotten' = Later(forgotten, sweep)
  /\ sweep' = -1
  /\ UNCHANGED <<clock, caller, trail, requests>>

Next ==
  \/ Tick
  \/ \E c \in Callers :
       \/ \E p \in Presentations : Evaluate(c, p)
       \/ Claim(c) \/ Record(c) \/ Refuse(c) \/ Fault(c)
  \/ BeginSweep
  \/ Forget

Spec == Init /\ [][Next]_vars
-----------------------------------------------------------------------------
(* What must hold.                                                         *)

TypeOK ==
  /\ clock \in Nat
  /\ pc \in [Callers -> Steps]
  /\ presented \in [Callers -> Presentations]
  /\ now \in [Callers -> Nat]
  /\ nonces \subseteq Row
  /\ passed \in [Presentations -> Nat]
  /\ replayed \in [Presentations -> Nat]
  /\ sweep \in Nat \union {-1}
  /\ forgotten \in Nat \union {-1}
  /\ requests \in Nat

\* A presentation is honoured a second time only by a check that read the clock
\* before a sweep did and claimed after it: no race of copies is enough, and a
\* copy judged after the sweep is stale.
HonouredAgain(c, p) ==
  passed[p] > 0 /\ pc[c] = "record" /\ presented[c] = p /\ passed'[p] # passed[p]

ReplayOnlyAcrossASweep ==
  [][\A c \in Callers, p \in Presentations :
       HonouredAgain(c, p) => now[c] < forgotten]_vars

\* A nonce is spent, and a replay refused, only where an entry says which
\* presentation spent it: a claim that never became a pass leaves no trace.
HonouredKey(key) == \E p \in Presentations : Key[p] = key /\ passed[p] > 0

SpentMeansHonoured ==
  /\ \A r \in nonces : HonouredKey(r.key)
  /\ \A p \in Presentations : replayed[p] > 0 => HonouredKey(Key[p])

\* No presentation is ever honoured twice.
HonouredOnce == \A p \in Presentations : passed[p] <= 1
=============================================================================
