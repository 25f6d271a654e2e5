----------------------------- MODULE Reputation -----------------------------
(***************************************************************************)
(* desk/reputation: the score and the rung of each agent, the three calls  *)
(* that move them, and the standing gate.                                  *)
(*                                                                         *)
(* A caller is one thread inside a call.  It reads the clock first, then   *)
(* waits for the agent's row, and judges what it finds there, decay and    *)
(* dwell included, by the instant it read.  What it writes is one          *)
(* transaction, entries and all; the row is locked from the read to the    *)
(* commit.                                                                 *)
(*                                                                         *)
(* Scores are counted in steps of which every number of the policy is a    *)
(* multiple, and time in steps of which every dwell is.  What a call has   *)
(* in hand is exact to the step; the table holds a score to the nearest    *)
(* Place, and the trail tells scores and increments to the nearest Grain.  *)
(***************************************************************************)
EXTENDS Integers

CONSTANTS
  Callers, Agents,
  Top,                  \* the index of the ladder's last rung
  Threshold,            \* available_at of each rung
  Dwell,                \* of each rung
  Ceiling,              \* of each rung
  Start, Baseline, MinScore, MaxScore, Rise, Fall, Decay, BlockAfter, \* ReputationPolicy
  DecayFloor,           \* _DECAY_FLOOR
  Place, Grain,         \* steps to the sixth decimal place, and to the fourth
  Amounts,              \* what requests ask for
  MaxStall,             \* the longest a call waits between its clock and its commit
  MaxClock, MaxCalls,   \* bounds: the clock, and the calls of one behaviour
  Nobody                \* holder of a row no one holds

Rungs == 0..Top

\* A score that needs no rounding to be held.
Whole(n) == \E k \in 0..n : n = Place * k

ASSUME ReputationAssumption ==
  /\ Agents # {} /\ Nobody \notin Callers
  /\ Top \in Nat
  /\ Threshold \in [Rungs -> Nat] /\ Threshold[0] = 0
  /\ Dwell \in [Rungs -> Nat]
  /\ Ceiling \in [Rungs -> Nat]
  /\ MinScore \in Nat /\ Baseline \in Nat /\ Start \in Nat /\ MaxScore \in Nat
  /\ MinScore <= Baseline /\ Baseline <= MaxScore
  /\ MinScore <= Start /\ Start <= MaxScore
  /\ Rise \in Nat \ {0} /\ Fall \in Nat /\ Rise < Fall
  /\ Decay \in Nat
  /\ BlockAfter \in Nat \ {0}
  /\ DecayFloor \in Nat \ {0}
  /\ Place \in Nat \ {0} /\ Grain \in Nat \ {0}
  /\ Whole(Start) /\ Whole(MinScore) /\ Whole(MaxScore)
  /\ \A r \in Rungs : Whole(Threshold[r])
  /\ Amounts \subseteq Nat /\ Amounts # {}
  /\ MaxStall \in Nat /\ MaxClock \in Nat /\ MaxCalls \in Nat

VARIABLES
  clock,
  pc, call,                         \* each caller: where it is, and the call it is in
  known, rows,                      \* the agent_reputation table
  rowLock,
  recorded,                         \* the trail: what an agent's entries say of it
  passed,                           \* the trail: admissions of the gate
  arrived,                          \* history: when each agent came to its rung
  calls

caller == <<pc, call>>
table == <<known, rows, rowLock>>
trail == <<recorded, passed>>
vars == <<clock, caller, table, trail, arrived, calls>>

Steps == {"idle", "wait", "decide", "gate"}
Ops == {"standing", "deal", "signal", "admit"}

Row == [score : Nat, scored_at : Nat, rung : Rungs, rung_since : Nat,
        last_active_at : Nat, signals : Nat, blocked : BOOLEAN]

\* What an agent's entries say: the increments they tell added up, how many there are,
\* the score the last one tells, the last rung, and the block.
Account == [sum : Int, changes : Nat, last : Int, rung : Rungs, blocked : BOOLEAN]

NoEntries == [sum |-> 0, changes |-> 0, last |-> 0, rung |-> 0, blocked |-> FALSE]

\* What _lock_or_create inserts for an agent nobody has asked about.
Newcomer(now) ==
  [score |-> Start, scored_at |-> now, rung |-> 0, rung_since |-> now,
   last_active_at |-> now, signals |-> 0, blocked |-> FALSE]

\* A call: what it asks, the instant it read, the row it holds; and, as history,
\* whether the agent was blocked when it began and the agent's highest rung since.
Call == [op : Ops, agent : Agents, amount : Amounts, at : Nat, row : Row,
         was_blocked : BOOLEAN, reach : Rungs]

NoCall ==
  [op |-> "standing", agent |-> CHOOSE a \in Agents : TRUE,
   amount |-> CHOOSE n \in Amounts : TRUE, at |-> 0, row |-> Newcomer(0),
   was_blocked |-> FALSE, reach |-> 0]

Init ==
  /\ clock = 0
  /\ pc = [c \in Callers |-> "idle"]
  /\ call = [c \in Callers |-> NoCall]
  /\ known = {}
  /\ rows = [a \in Agents |-> Newcomer(0)]
  /\ rowLock = [a \in Agents |-> Nobody]
  /\ recorded = [a \in Agents |-> NoEntries]
  /\ passed = [a \in Agents |-> 0]
  /\ arrived = [a \in Agents |-> 0]
  /\ calls = 0
-----------------------------------------------------------------------------
(* What each call makes of a row, judged by its own instant.               *)

Lesser(m, n) == IF m < n THEN m ELSE n
Greater(m, n) == IF m < n THEN n ELSE m

\* Numbers no more than half a unit apart, and those a number may be rounded to: the
\* nearest multiple, and either where it lies between two.
HalfApart(m, n, unit) == 2 * (m - n) <= unit /\ 2 * (n - m) <= unit
Nearest(n, unit) ==
  {m \in {n \div unit, (n \div unit) + 1} : HalfApart(unit * m, n, unit)}

Available(score) == {r \in Rungs : Threshold[r] <= score}

\* highest_available
Highest(score) ==
  CHOOSE r \in Available(score) : \A q \in Available(score) : q <= r

\* decayed: only above baseline, and only down.
Decayed(score, idle) ==
  IF score <= Baseline \/ idle <= 0 THEN score
  ELSE Greater(Baseline, score - Decay * idle)

\* _change_score: a change of nothing is not one.
Rescored(row, score, now) ==
  IF score = row.score THEN row ELSE [row EXCEPT !.score = score, !.scored_at = now]

\* Mutation: a drop does not start the dwell of the rung it drops to.
DroppedKeepingSince(row, now) ==
  IF Highest(row.score) < row.rung
  THEN [row EXCEPT !.rung = Highest(row.score)]
  ELSE row

\* _settle_rung_down
Dropped(row, now) ==
  IF Highest(row.score) < row.rung
  THEN [row EXCEPT !.rung = Highest(row.score), !.rung_since = now]
  ELSE row

\* Mutation: a score that decayed leaves its agent on the rung it was on.
SettledOnItsRung(row, now) ==
  LET faded == Decayed(row.score, now - row.scored_at)
  IN  IF row.score - faded < DecayFloor THEN row ELSE Rescored(row, faded, now)

\* _settle: decay too small to write is left to accumulate.
Settled(row, now) ==
  LET faded == Decayed(row.score, now - row.scored_at)
  IN  Dropped(IF row.score - faded < DecayFloor THEN row ELSE Rescored(row, faded, now),
              now)

\* _maybe_climb: one rung, if the score reaches it and the dwell is served.
Climbed(row, now) ==
  IF /\ row.rung < Top
     /\ row.score >= Threshold[row.rung + 1]
     /\ now - row.rung_since >= Dwell[row.rung]
  THEN [row EXCEPT !.rung = @ + 1, !.rung_since = now]
  ELSE row

\* record_clean_deal, on a row that is not blocked.
AfterDeal(row, now) ==
  LET raised == Rescored(row, Lesser(MaxScore, row.score + Rise), now)
  IN  Climbed([raised EXCEPT !.last_active_at = now], now)

\* record_check5_signal, on a row that is not blocked.
AfterSignal(row, now) ==
  LET lowered == Rescored(row, Greater(MinScore, row.score - Fall), now)
      counted == [lowered EXCEPT !.last_active_at = now, !.signals = @ + 1]
  IN  [Dropped(counted, now) EXCEPT !.blocked = counted.signals >= BlockAfter]

\* What the call leaves in the row.
Outcome(op, row, now) ==
  LET settled == Settled(row, now)
  IN  IF settled.blocked \/ op \in {"standing", "admit"} THEN settled
      ELSE IF op = "deal" THEN AfterDeal(settled, now)
      ELSE AfterSignal(settled, now)

\* Mutation: the gate reads the rung off the score.
AdmissibleByScore(standing, asked) ==
  /\ ~standing.blocked
  /\ asked <= Ceiling[Highest(standing.score)]

\* StandingGate.admit
Admissible(standing, asked) ==
  /\ ~standing.blocked
  /\ asked <= Ceiling[standing.rung]
-----------------------------------------------------------------------------
GoTo(c, step) == pc' = [pc EXCEPT ![c] = step]

Return(c) ==
  /\ GoTo(c, "idle")
  /\ call' = [call EXCEPT ![c] = NoCall]

\* Time passes, and no call waits longer than MaxStall.
Tick ==
  /\ clock < MaxClock
  /\ \A c \in Callers : pc[c] \in {"wait", "decide"} => clock < call[c].at + MaxStall
  /\ clock' = clock + 1
  /\ UNCHANGED <<caller, table, trail, arrived, calls>>

\* A call begins, and reads the clock.  Only the gate is asked about an amount.
Begin(c, op, a, n) ==
  /\ pc[c] = "idle"
  /\ calls < MaxCalls
  /\ op # "admit" => n = NoCall.amount
  /\ calls' = calls + 1
  /\ GoTo(c, "wait")
  /\ call' = [call EXCEPT ![c] =
       [op |-> op, agent |-> a, amount |-> n, at |-> clock, row |-> Newcomer(clock),
        was_blocked |-> rows[a].blocked, reach |-> rows[a].rung]]
  /\ UNCHANGED <<clock, table, trail, arrived>>

\* What _lock_or_create finds, or puts there.
Found(c) ==
  IF call[c].agent \in known THEN rows[call[c].agent] ELSE Newcomer(call[c].at)

\* Mutation: no FOR UPDATE.
LockNotTaken(c) ==
  /\ pc[c] = "wait"
  /\ call' = [call EXCEPT ![c].row = Found(c)]
  /\ GoTo(c, "decide")
  /\ UNCHANGED <<clock, table, trail, arrived, calls>>

\* _lock_or_create: the row is read, and locked; a new one is its inserter's own.
Lock(c) ==
  /\ pc[c] = "wait"
  /\ rowLock[call[c].agent] = Nobody
  /\ rowLock' = [rowLock EXCEPT ![call[c].agent] = c]
  /\ call' = [call EXCEPT ![c].row = Found(c)]
  /\ GoTo(c, "decide")
  /\ UNCHANGED <<clock, known, rows, trail, arrived, calls>>

Unlocked(c) ==
  [a \in Agents |-> IF rowLock[a] = c THEN Nobody ELSE rowLock[a]]

\* _q: what the table holds of a row.
Stored(row) == {[row EXCEPT !.score = Place * k] : k \in Nearest(row.score, Place)}

\* One more entry of _change_score: the increment and the new score, as they are told.
Entered(account, up, score) ==
  [account EXCEPT !.sum = account.sum + up, !.changes = account.changes + 1, !.last = score]

\* _change_score, where there is a change.
Told(account, from, to) ==
  IF to = from THEN {account}
  ELSE {Entered(account, up, score) :
          up \in Nearest(to - from, Grain), score \in Nearest(to, Grain)}

\* A new rung and the block are told as they are.
Placed(account, from, to) ==
  [account EXCEPT !.rung = IF to.rung = from.rung THEN account.rung ELSE to.rung,
                  !.blocked = IF to.blocked = from.blocked THEN account.blocked
                              ELSE to.blocked]

\* What the trail says after a call: decay first, and then what was called for, each
\* change of score by an entry of its own.
Recorded(account, op, from, now) ==
  LET settled == Settled(from, now)
      to == Outcome(op, from, now)
  IN  {Placed(told, from, to) :
         told \in UNION {Told(faded, settled.score, to.score) :
                           faded \in Told(account, from.score, settled.score)}}

\* What the others hold of the agent's history moves on with its row.
Reached(c, row) ==
  [d \in Callers |->
     IF call[d].agent # call[c].agent THEN call[d]
     ELSE [call[d] EXCEPT !.reach = Greater(@, row.rung)]]

\* The updates and their entries, and the commit: standing, record_clean_deal and
\* record_check5_signal end here.  A deal for a blocked agent raises instead.
Finish(c) ==
  LET a == call[c].agent
      from == call[c].row
      to == Outcome(call[c].op, from, call[c].at)
  IN  /\ pc[c] = "decide"
      /\ ~(call[c].op = "deal" /\ from.blocked)
      /\ \E row \in Stored(to) : rows' = [rows EXCEPT ![a] = row]
      /\ known' = known \union {a}
      /\ rowLock' = Unlocked(c)
      /\ \E told \in Recorded(recorded[a], call[c].op, from, call[c].at) :
           recorded' = [recorded EXCEPT ![a] = told]
      /\ arrived' = IF a \in known /\ to.rung = from.rung THEN arrived
                    ELSE [arrived EXCEPT ![a] = clock]
      /\ IF call[c].op = "admit"
         THEN /\ GoTo(c, "gate")
              /\ call' = [Reached(c, to) EXCEPT ![c].row = to]
         ELSE /\ GoTo(c, "idle")
              /\ call' = [Reached(c, to) EXCEPT ![c] = NoCall]
      /\ UNCHANGED <<clock, passed, calls>>

\* AgentIsBlocked leaves the connection block, and a call may fail anywhere else:
\* nothing it wrote stays.
Abandon(c) ==
  /\ pc[c] # "idle"
  /\ Return(c)
  /\ rowLock' = Unlocked(c)
  /\ UNCHANGED <<clock, known, rows, trail, arrived, calls>>

\* The gate judges the standing it was given, and records what it concluded.
Gate(c) ==
  /\ pc[c] = "gate"
  /\ passed' = IF Admissible(call[c].row, call[c].amount)
               THEN [passed EXCEPT ![call[c].agent] = @ + 1] ELSE passed
  /\ Return(c)
  /\ UNCHANGED <<clock, table, recorded, arrived, calls>>

Next ==
  \/ Tick
  \/ \E c \in Callers :
       \/ \E op \in Ops, a \in Agents, n \in Amounts : Begin(c, op, a, n)
       \/ Lock(c) \/ Finish(c) \/ Abandon(c) \/ Gate(c)

Spec == Init /\ [][Next]_vars
-----------------------------------------------------------------------------
(* What must hold.                                                         *)

TypeOK ==
  /\ clock \in Nat
  /\ pc \in [Callers -> Steps]
  /\ call \in [Callers -> Call]
  /\ known \subseteq Agents
  /\ rows \in [Agents -> Row]
  /\ rowLock \in [Agents -> Callers \union {Nobody}]
  /\ recorded \in [Agents -> Account]
  /\ passed \in [Agents -> Nat]
  /\ arrived \in [Agents -> Nat]
  /\ calls \in Nat

\* No agent is on a rung its score does not reach, whichever way the score fell: a
\* signal or decay that is written takes the rung down with it.  And the signal that
\* reaches the limit blocks, whichever of several callers brings it, and none is counted
\* after it (store.py).
StandingIsSound ==
  \A a \in Agents :
    /\ rows[a].rung <= Highest(rows[a].score)
    /\ rows[a].signals <= BlockAfter
    /\ rows[a].blocked <=> rows[a].signals = BlockAfter

\* A rung is climbed one at a time, and only after its dwell, counted from the day
\* the agent came to it; a call that stalled can shorten it by its stall, no more.
ClimbsAreServed ==
  [][\A a \in Agents : rows'[a].rung > rows[a].rung =>
       /\ rows'[a].rung = rows[a].rung + 1
       /\ clock - arrived[a] >= Dwell[rows[a].rung] - MaxStall]_vars

\* How far an agent's standing can be reconstructed from the trail alone: the last change
\* of rung and the block are there as they are, and so is the score, as near as it is
\* told; its increments add up to it only within a rounding for each, so that the more
\* there are the further they may be from it, but no change is left out (store.py).
StandingIsRecorded ==
  \A a \in Agents :
    LET told == recorded[a]
        score == rows[a].score
    IN  /\ told.rung = rows[a].rung /\ told.blocked = rows[a].blocked
        /\ told.changes > 0 => HalfApart(Grain * told.last, score, Grain + Place)
        /\ HalfApart(Start + Grain * told.sum, score, (Grain + Place) * told.changes)

\* The gate passes no agent that was blocked when it was asked, and nothing above the
\* ceiling of the highest rung the agent has been on since it was asked.
GateIsNotBehind ==
  [][\A c \in Callers :
       (pc[c] = "gate" /\ pc'[c] = "idle" /\ passed' # passed) =>
         ~call[c].was_blocked /\ call[c].amount <= Ceiling[call[c].reach]]_vars
=============================================================================
