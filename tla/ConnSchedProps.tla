---------------------------- MODULE ConnSchedProps ----------------------------
(***************************************************************************)
(* What ConnSched must satisfy.                                            *)
(***************************************************************************)
EXTENDS ConnSched

SchedTypeOK ==
  /\ schedule \in Schedules
  /\ thread_start \in Nat /\ complete \in Nat /\ caught_up \in BOOLEAN
  /\ catch_up_start_time \in Nat /\ complete_at_catch_up_start \in Nat
  /\ complete_at_catch_up_start <= complete
  /\ catch_up_start_time <= now

LoopTypeOK ==
  /\ pc \in {"top", "waiting", "inflight", "backoff", "done"}
  /\ now \in Nat /\ target \in Nat /\ intended \in Nat /\ sent \in Nat
  /\ backoff \in Nat /\ abort \in BOOLEAN

HistTypeOK ==
  /\ offset \in Nat /\ paused \in Nat /\ busy \in Nat
  /\ lateFrom \in Nat /\ late \in Nat

\* The type of every variable: in particular no subtraction of the source's u64
\* clocks and counts goes below zero.
TypeOK == SchedTypeOK /\ LoopTypeOK /\ HistTypeOK

\* A request is never sent before its slot, through catch-up windows, pauses and
\* oversleeps: its corrected latency is never below its uncorrected one.
NeverEarly == pc = "inflight" => sent >= intended

\* Coordinated omission is never let in: the latency of the n-th request is
\* measured from the n-th slot of the original schedule, moved only by the
\* pauses a server asked for, however late the connection has been.
SlotsAreOriginal ==
  pc = "inflight" => intended = offset + Slot(schedule, complete) + paused

\* What is charged to the target is its own doing: a request is late by no more
\* than the response times and oversleeps before it.  A pause adds nothing.
LatenessIsEarned == pc = "inflight" => sent - intended <= busy

\* Catching up is paced: from the first late request on, the k-th is not sent
\* before k slots of twice the rate have passed (constant schedules).
CatchUpIsPaced ==
  pc = "inflight" /\ schedule.kind = "constant" /\ ~caught_up =>
    sent >= lateFrom + (late * schedule.den) \div (2 * schedule.num)

\* A connection never idles longer than the schedule's own gap: after a response
\* and a pause it is at most one slot ahead, also inside a catch-up window.
NeverIdles ==
  pc = "waiting" /\ complete > 0 =>
    target - now <= Slot(schedule, complete) - Slot(schedule, complete - 1)
=============================================================================
