------------------------------ MODULE History ------------------------------
(***************************************************************************)
(* desk/inspector: check 5 on requests the spine has passed, and the       *)
(* history of an agent that its behavioural half reads out of the trail.   *)
(*                                                                         *)
(* The trail here is one sequence for each agent, in the order the         *)
(* entries were written; it says which check an entry is of and not which  *)
(* call (run is history: the code does not have it).  read_history tells   *)
(* an agent's requests apart by where check 1's entries are.               *)
(*                                                                         *)
(* The inspector's verdict and the score are choices; what the score is    *)
(* computed from is not.                                                   *)
(***************************************************************************)
EXTENDS TrustSpine, FiniteSets

CONSTANTS
  HistoryWindow,  \* requests read_history returns
  BaselineMin     \* earlier requests without which nothing is scored

ASSUME HistoryAssumption == HistoryWindow \in Nat \ {0} /\ BaselineMin \in Nat

VARIABLES
  trail,     \* each agent's entries
  examined   \* which halves of check 5 each passed call has been through

historyVars == <<spineVars, trail, examined>>

HistoryInit ==
  /\ SpineInit
  /\ trail = [a \in Agents |-> <<>>]
  /\ examined = {}
-----------------------------------------------------------------------------
(* read_history.                                                           *)

\* Mutation: a request is opened by a check 1 that passed, and by no other.
OpenedByAPass(s) == {i \in DOMAIN s : s[i].check = 1 /\ ~s[i].refused}

\* An entry of check 1 opens a request; what follows, up to the next, is its.
Openings(s) == {i \in DOMAIN s : s[i].check = 1}

Span(s, i) == {j \in i..Len(s) : \A m \in (i+1)..j : s[m].check # 1}

Asks(s, i) == {j \in Span(s, i) : s[j].check = 3}

First(indices) == CHOOSE i \in indices : \A j \in indices : i <= j

\* Mutation: a request was refused if the last that was written of it says so.
EventByItsEnd(s, i) ==
  [refused |-> \E j \in Span(s, i) : Span(s, i) \subseteq i..j /\ s[j].refused,
   amount |-> IF Asks(s, i) = {} THEN 0 ELSE s[First(Asks(s, i))].amount]

\* RequestEvent; an amount of 0 is none.
Event(s, i) ==
  [refused |-> \E j \in Span(s, i) : s[j].refused,
   amount |-> IF Asks(s, i) = {} THEN 0 ELSE s[First(Asks(s, i))].amount]

\* The newest requests, by where they open.
Read(s) == {i \in Openings(s) : Cardinality({j \in Openings(s) : j > i}) < HistoryWindow}

Current(s) == CHOOSE i \in Read(s) : \A j \in Read(s) : j <= i

Prior(s) == Read(s) \ {Current(s)}
-----------------------------------------------------------------------------
Tell(k, entry) ==
  LET told == [run |-> k, check |-> entry.check, refused |-> entry.refused, amount |-> entry.amount]
      a == ClaimedBy[asked[k]]
  IN  trail' = [trail EXCEPT ![a] = Append(@, told)]

\* What a caller of receive writes, if anything, comes last in the trail.  The
\* clock and the sweep of nonces are left out: they write nothing, and a hop that is
\* stale is one more refusal of check 4's.
Spine(c) ==
  /\ Handle(c)
  /\ UNCHANGED examined
  /\ \/ entries' = entries /\ UNCHANGED trail
     \/ \E k \in DOMAIN asked :
          entries'[k] # entries[k] /\ Tell(k, entries'[k][Len(entries'[k])])

\* One half of check 5 on a call that passed: ContentInspection.inspect or
\* BehaviourCheck.assess, which does not refuse before it has a baseline.  It reads
\* the trail and then records; of what it read, the trail only has more by then.
Examine(k, half) ==
  /\ k \in admitted
  /\ <<k, half>> \notin examined
  /\ examined' = examined \union {<<k, half>>}
  /\ \E refused \in BOOLEAN :
       /\ refused /\ half = "behaviour" =>
            Cardinality(Prior(trail[ClaimedBy[asked[k]]])) >= BaselineMin
       /\ Tell(k, [check |-> 5, refused |-> refused, amount |-> 0])
  /\ UNCHANGED spineVars

HistoryNext ==
  \/ \E c \in Callers : Spine(c)
  \/ \E k \in DOMAIN asked : Examine(k, "inspection") \/ Examine(k, "behaviour")

HistorySpec == HistoryInit /\ [][HistoryNext]_historyVars
-----------------------------------------------------------------------------
(* What must hold.                                                         *)

\* Where an agent's trail has the entries of a call.
Trace(k) == {i \in DOMAIN trail[Agent(k)] : trail[Agent(k)][i].run = k}

Told == {k \in DOMAIN asked : Trace(k) # {}}

Precedes(j, k) == Agent(j) # Agent(k) \/ \A i \in Trace(j), n \in Trace(k) : i < n

Alone(k) == \A j \in Told \ {k} : Precedes(j, k) \/ Precedes(k, j)

Opened(k) == First(Trace(k))

WasRefused(k) == \E i \in Trace(k) : trail[Agent(k)][i].refused

AskedAt3(k) == IF \E i \in Trace(k) : trail[Agent(k)][i].check = 3 THEN Amount[asked[k]] ELSE 0

\* A request that no other of its agent's overlapped is in the history as it
\* was: whether anything refused it, check 5 included, and what it asked for.
AloneIsToldTrue ==
  \A k \in Told :
    Alone(k) =>
      /\ Opened(k) \in Openings(trail[Agent(k)])
      /\ Event(trail[Agent(k)], Opened(k)) = [refused |-> WasRefused(k), amount |-> AskedAt3(k)]

\* However requests overlap, an amount in the baseline was asked for by a request
\* of that agent's which check 3 had passed: none is there that a mandate did not
\* cover.
BaselineWasAuthorised ==
  \A a \in Agents : \A i \in Openings(trail[a]) :
    LET event == Event(trail[a], i)
    IN  event.amount # 0 /\ ~event.refused =>
          \E k \in Told : Agent(k) = a /\ Amount[asked[k]] = event.amount /\ Cleared(k, 3)
=============================================================================
