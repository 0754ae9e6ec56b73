------------------------------ MODULE LoadRun -------------------------------
(***************************************************************************)
(* What one run of the load engine promises, with no counters, barrier,    *)
(* ticker or abort flag in it: a connection has one request out at a time, *)
(* each request is settled exactly once, by a verdict or by an error, an   *)
(* error is the end of its connection, and when every connection is over   *)
(* the run returns one report, which is the sum of what was settled.       *)
(*                                                                         *)
(* WorkerEngine implements this specification (see its LoadRunSpec).       *)
(***************************************************************************)
EXTENDS Integers, Functions

CONSTANTS
  Conns,     \* connection tasks
  Verdicts,  \* what a response can be judged to be
  Errors     \* how a connection can fail

VARIABLES
  inflight,  \* the connections whose request is not settled
  settled,   \* settled[c][o]: how many of c's requests ended as o
  over,      \* the connections that will send no more
  returned,  \* has the run returned
  report     \* the totals it returned

vars == <<inflight, settled, over, returned, report>>

Outcomes == Verdicts \cup Errors

Totals(ledger) == [o \in Outcomes |-> SumFunction([c \in Conns |-> ledger[c][o]])]

Init ==
  /\ inflight = {}
  /\ settled = [c \in Conns |-> [o \in Outcomes |-> 0]]
  /\ over = {}
  /\ returned = FALSE
  /\ report = [o \in Outcomes |-> 0]

Settled(c, o) == settled' = [settled EXCEPT ![c][o] = @ + 1]

Send(c) ==
  /\ c \notin inflight \cup over
  /\ inflight' = inflight \cup {c}
  /\ UNCHANGED <<settled, over, returned, report>>

Judge(c, v) ==
  /\ c \in inflight
  /\ inflight' = inflight \ {c}
  /\ Settled(c, v)
  /\ UNCHANGED <<over, returned, report>>

\* With or without a request out: a connection can fail to open or to write.
Break(c, e) ==
  /\ c \notin over
  /\ inflight' = inflight \ {c}
  /\ over' = over \cup {c}
  /\ Settled(c, e)
  /\ UNCHANGED <<returned, report>>

Finish(c) ==
  /\ c \notin inflight \cup over
  /\ over' = over \cup {c}
  /\ UNCHANGED <<inflight, settled, returned, report>>

Return ==
  /\ over = Conns
  /\ ~returned
  /\ returned' = TRUE
  /\ report' = Totals(settled)
  /\ UNCHANGED <<inflight, settled, over>>

Next ==
  \/ \E c \in Conns : \/ Send(c)
                      \/ \E v \in Verdicts : Judge(c, v)
                      \/ \E e \in Errors : Break(c, e)
                      \/ Finish(c)
  \/ Return

Spec == Init /\ [][Next]_vars
=============================================================================
