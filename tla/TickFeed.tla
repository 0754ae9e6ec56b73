------------------------------ MODULE TickFeed ------------------------------
(***************************************************************************)
(* What the coordinator's live feed promises, with no streams, channels,   *)
(* tasks or failures in it: a fleet is fixed once, every worker of it does *)
(* some work in each of its seconds, and the feed publishes second n only  *)
(* after second n-1, only when the whole fleet has done its second n, and  *)
(* with the exact sum of that work and of everything published before it.  *)
(*                                                                         *)
(* Dispatch implements this specification (see its TickFeedSpec).          *)
(***************************************************************************)
EXTENDS Integers, Sequences, Functions

CONSTANTS
  Workers,   \* worker ids
  Counts     \* how many responses a worker may complete in one second

VARIABLES
  fleet,     \* the workers the run is dispatched to, {} before that
  produced,  \* produced[w][n]: what w completed in its n-th second
  emitted    \* the published ticks, oldest first

vars == <<fleet, produced, emitted>>

\* The sum over the fleet of its n-th seconds.
FleetTotal(n) == SumFunction([w \in fleet |-> produced[w][n]])

\* What the tick before tick n had accumulated.
CumBefore(n) == IF n = 1 THEN 0 ELSE emitted[n - 1].completed_total

Init ==
  /\ fleet = {}
  /\ produced = [w \in Workers |-> <<>>]
  /\ emitted = <<>>

Choose(S) ==
  /\ fleet = {}
  /\ S # {}
  /\ fleet' = S
  /\ UNCHANGED <<produced, emitted>>

Work(w, c) ==
  /\ w \in fleet
  /\ produced' = [produced EXCEPT ![w] = Append(@, c)]
  /\ UNCHANGED <<fleet, emitted>>

Publish ==
  LET n == Len(emitted) + 1
  IN  /\ fleet # {}
      /\ \A w \in fleet : n <= Len(produced[w])
      /\ emitted' = Append(emitted, [elapsed_s       |-> n,
                                     total           |-> FleetTotal(n),
                                     completed_total |-> CumBefore(n) + FleetTotal(n)])
      /\ UNCHANGED <<fleet, produced>>

Next ==
  \/ \E S \in SUBSET Workers : Choose(S)
  \/ \E w \in Workers, c \in Counts : Work(w, c)
  \/ Publish

Spec == Init /\ [][Next]_vars
=============================================================================
