------------------------------ MODULE ConnSched ------------------------------
(***************************************************************************)
(* One load connection: the coordinated-omission scheduler ConnSched and   *)
(* the loop of connection_task that asks it when to send, sleeps, sends,   *)
(* waits for the response, and pauses when a 429 carries a Retry-After.    *)
(*                                                                         *)
(* Time is an integer, the microseconds since worker_start; a rate is the  *)
(* fraction num/den per microsecond, so that the source's f64 products are *)
(* exact quotients here, rounded down where it casts to u64.               *)
(***************************************************************************)
EXTENDS Integers

CONSTANTS
  Schedules,   \* the RateSchedules to choose from
  Offsets,     \* the connections' staggered starting points
  Deadline,    \* duration_s
  Latencies,   \* what a response may take (a longer one times out)
  Backoffs,    \* the Retry-After pauses a 429 may ask for, {} for another policy
  Oversleeps   \* by how much a sleep may last too long

ASSUME ScheduleAssumption ==
  /\ \A s \in Schedules :
       /\ s.kind \in {"constant", "ramp"}
       /\ s.num \in Nat \ {0} /\ s.den \in Nat \ {0}
       /\ s.kind = "ramp" => s.duration \in Nat
  /\ Offsets \subseteq Nat /\ Deadline \in Nat
  /\ Latencies \subseteq Nat /\ Backoffs \subseteq Nat \ {0} /\ Oversleeps \subseteq Nat

VARIABLES
  \* ---- ConnSched ----
  schedule, thread_start, complete, caught_up, catch_up_start_time,
  complete_at_catch_up_start,
  \* ---- connection_task ----
  pc,        \* "top", "waiting", "inflight", "backoff", "done"
  now,       \* the clock
  target,    \* when the sleep before a send ends
  intended,  \* the request in flight: its slot on the schedule
  sent,      \*   and when it was written
  backoff,   \* the pause a 429 asked for
  abort,     \* counters.abort, shared with the other connections
  \* ---- history, for the properties ----
  offset,    \* the connection's starting point
  paused,    \* the pauses so far, added up
  busy,      \* the response times and oversleeps so far, added up
  lateFrom,  \* when the present run of late requests began
  late       \* how many of them were sent before the present one

schedVars == <<schedule, thread_start, complete, caught_up, catch_up_start_time,
               complete_at_catch_up_start>>
loopVars  == <<pc, now, target, intended, sent, backoff, abort>>
histVars  == <<offset, paused, busy, lateFrom, late>>
vars == <<schedVars, loopVars, histVars>>
-----------------------------------------------------------------------------
\* The n-th slot of schedule s after its origin.  The ramp inverts the count
\* integral R t^2 / 2D.
RampSlot(s, n) ==
  LET area == 2 * s.duration * n * s.den
  IN  CHOOSE t \in 0 .. area : t * t * s.num <= area /\ (t + 1) * (t + 1) * s.num > area

Slot(s, n) == IF s.kind = "constant" THEN (n * s.den) \div s.num ELSE RampSlot(s, n)

\* Fault: catching up at four times the rate.
Fault_FasterCatchUp(s, k) == (k * s.den) \div (4 * s.num)

\* The k-th request of a catch-up window: twice the rate.
CatchUpSlot(s, k) == (k * s.den) \div (2 * s.num)

IntendedSendTime == thread_start + Slot(schedule, complete)

OnPace == IntendedSendTime > now

\* Does this call of usec_to_next_send open a catch-up window?
OpensWindow == schedule.kind = "constant" /\ caught_up

WindowStart == IF OpensWindow THEN now ELSE catch_up_start_time

\* Fault: a new window keeps the count of the last one.
Fault_WindowNotAnchored == complete_at_catch_up_start

\* Fault: a window counts from the request after the one that opened it.
Fault_AnchorsNext == IF OpensWindow THEN complete + 1 ELSE complete_at_catch_up_start

WindowCount == IF OpensWindow THEN complete ELSE complete_at_catch_up_start

CatchUpNext == WindowStart + CatchUpSlot(schedule, complete - WindowCount)

\* Fault: inside a catch-up window the original schedule is not looked at.
Fault_StaysInWindow ==
  IF OnPace /\ caught_up THEN IntendedSendTime - now
  ELSE IF schedule.kind = "constant" /\ CatchUpNext > now THEN CatchUpNext - now
  ELSE 0

\* usec_to_next_send: the wait it returns ...
Wait ==
  IF OnPace THEN IntendedSendTime - now
  ELSE IF schedule.kind = "constant" /\ CatchUpNext > now THEN CatchUpNext - now
  ELSE 0

\* Fault: a connection that is behind starts its schedule afresh.
Fault_ForgiveLateness ==
  /\ caught_up' = TRUE
  /\ thread_start' = IF OnPace THEN thread_start ELSE now - Slot(schedule, complete)
  /\ UNCHANGED <<catch_up_start_time, complete_at_catch_up_start>>

\* ... and what it leaves in the ConnSched.
NoteWindow ==
  /\ caught_up' = OnPace
  /\ catch_up_start_time' =
       IF OnPace \/ schedule.kind = "ramp" THEN catch_up_start_time ELSE WindowStart
  /\ complete_at_catch_up_start' =
       IF OnPace \/ schedule.kind = "ramp" THEN complete_at_catch_up_start ELSE WindowCount
  /\ UNCHANGED thread_start

\* Fault: the schedule does not wait for the pause.
Fault_DeferNothing == thread_start' = thread_start /\ caught_up' = TRUE

\* defer_origin(backoff_us).
DeferOrigin == thread_start' = thread_start + backoff /\ caught_up' = TRUE
-----------------------------------------------------------------------------
Init ==
  /\ schedule \in Schedules
  /\ offset \in Offsets /\ thread_start = offset
  /\ complete = 0 /\ caught_up = TRUE
  /\ catch_up_start_time = 0 /\ complete_at_catch_up_start = 0
  /\ pc = "top" /\ now = 0 /\ target = 0 /\ intended = 0 /\ sent = 0 /\ backoff = 0
  /\ abort = FALSE
  /\ paused = 0 /\ busy = 0 /\ lateFrom = 0 /\ late = 0

\* The loop ends: counters.abort is up, or the deadline has passed.
Leave ==
  /\ pc = "top"
  /\ abort \/ now >= Deadline
  /\ pc' = "done"
  /\ UNCHANGED <<now, target, intended, sent, backoff, abort, schedVars, histVars>>

\* The wait for the next request is computed.
Schedule ==
  /\ pc = "top"
  /\ ~abort /\ now < Deadline
  /\ pc' = "waiting"
  /\ target' = now + Wait
  /\ NoteWindow
  /\ lateFrom' = IF ~OnPace /\ caught_up THEN now ELSE lateFrom
  /\ late' = IF OnPace \/ caught_up THEN 0 ELSE late + 1
  /\ UNCHANGED <<schedule, complete, now, intended, sent, backoff, abort, offset, paused, busy>>

\* The sleep ends, a little late perhaps; past the deadline nothing is sent.
\* The abort flag is not looked at again.
Send(o) ==
  /\ pc = "waiting"
  /\ now' = target + o
  /\ busy' = busy + o
  /\ IF now' >= Deadline
     THEN pc' = "done" /\ UNCHANGED <<intended, sent>>
     ELSE pc' = "inflight" /\ intended' = IntendedSendTime /\ sent' = now'
  /\ UNCHANGED <<target, backoff, abort, schedVars, offset, paused, lateFrom, late>>

\* A response that needs no pause: anything but a 429 under the backoff policy.
\* Under the abort policy a 429 raises the flag for every connection.
Receive(l) ==
  /\ pc = "inflight"
  /\ pc' = "top"
  /\ now' = now + l /\ busy' = busy + l
  /\ complete' = complete + 1
  /\ UNCHANGED <<schedule, thread_start, caught_up, catch_up_start_time, complete_at_catch_up_start>>
  /\ UNCHANGED <<target, intended, sent, backoff, abort, offset, paused, lateFrom, late>>

\* A 429 with a Retry-After of b (already capped by max_backoff_ms).
ReceiveBackoff(l, b) ==
  /\ pc = "inflight"
  /\ pc' = "backoff"
  /\ now' = now + l /\ busy' = busy + l
  /\ backoff' = b
  /\ UNCHANGED <<target, intended, sent, abort, schedVars, offset, paused, lateFrom, late>>

\* The pause, which an abort or the deadline skips; the origin moves anyway.
PauseEnds(o) ==
  /\ pc = "backoff"
  /\ pc' = "top"
  /\ IF ~abort /\ now < Deadline
     THEN now' = now + backoff + o /\ busy' = busy + o
     ELSE UNCHANGED <<now, busy>>
  /\ DeferOrigin
  /\ complete' = complete + 1
  /\ paused' = paused + backoff
  /\ UNCHANGED <<schedule, catch_up_start_time, complete_at_catch_up_start>>
  /\ UNCHANGED <<target, intended, sent, backoff, abort, offset, lateFrom, late>>

\* The write fails, the response times out or the connection breaks.
ConnectionFails ==
  /\ pc = "inflight"
  /\ pc' = "done"
  /\ UNCHANGED <<now, target, intended, sent, backoff, abort, schedVars, histVars>>

\* A connection of the worker (this one as well) sees a 429 under the abort
\* policy, or the run is cancelled.
RaiseAbort ==
  /\ ~abort
  /\ abort' = TRUE
  /\ UNCHANGED <<pc, now, target, intended, sent, backoff, schedVars, histVars>>

Done == pc = "done" /\ UNCHANGED vars

Next ==
  \/ Leave \/ Schedule
  \/ \E o \in Oversleeps : Send(o) \/ PauseEnds(o)
  \/ \E l \in Latencies : Receive(l) \/ \E b \in Backoffs : ReceiveBackoff(l, b)
  \/ ConnectionFails \/ RaiseAbort \/ Done

Spec == Init /\ [][Next]_vars
=============================================================================
