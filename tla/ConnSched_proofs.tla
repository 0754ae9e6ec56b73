--------------------------- MODULE ConnSched_proofs ---------------------------
(***************************************************************************)
(* Theorems about ConnSched, for every schedule, latency, pause, oversleep *)
(* and deadline: no request is sent before its slot, the slots are the     *)
(* original schedule's, and a connection never sleeps while it is behind.  *)
(* What they need of the ramp is that its inverse is defined: the integer  *)
(* square root in RampSlot exists.                                         *)
(***************************************************************************)
EXTENDS ConnSchedProps, FiniteSetTheorems, TLAPS

\* The square of a smaller number is not greater.
LEMMA SquareMonotone ==
  ASSUME NEW a \in Nat, NEW b \in Nat, a <= b, NEW k \in Nat
  PROVE  /\ a * a \in Nat /\ b * b \in Nat
         /\ a * a * k <= b * b * k
<1>1. a * a <= a * b /\ a * b <= b * b /\ a * a \in Nat /\ b * b \in Nat
  BY Z3
<1>2. \A x, y \in Nat : x <= y => x * k <= y * k
  BY Z3
<1> QED
  BY <1>1, <1>2

\* A nonempty initial segment of a finite set of naturals ends: counted, it has
\* as many elements as the first number it misses.
LEMMA SegmentEnds ==
  ASSUME NEW T, NEW n \in Nat, T \subseteq 0 .. n, 0 \in T,
         \A t \in T : 0 .. t \subseteq T
  PROVE  \E t \in T : t + 1 \notin T
<1>1. IsFiniteSet(0 .. n)
  BY FS_Interval
<1>2. IsFiniteSet(T)
  BY <1>1, FS_Subset
<1> DEFINE c == Cardinality(T)
<1>3. c \in Nat
  BY <1>2, FS_CardinalityType
<1>4. \A t \in T : t + 1 <= c
  <2> SUFFICES ASSUME NEW t \in T PROVE t + 1 <= c
    OBVIOUS
  <2>1. t \in Nat /\ 0 .. t \subseteq T
    OBVIOUS
  <2>2. Cardinality(0 .. t) = t + 1
    BY <2>1, FS_Interval
  <2> QED
    BY <1>2, <2>1, <2>2, FS_Subset
<1>5. T \subseteq 0 .. c - 1 /\ c >= 1
  BY <1>3, <1>4
<1>6. T = 0 .. c - 1
  <2>1. IsFiniteSet(0 .. c - 1) /\ Cardinality(0 .. c - 1) = c
    BY <1>3, <1>5, FS_Interval
  <2> QED
    BY <1>5, <2>1, FS_Subset
<1>7. c - 1 \in T /\ (c - 1) + 1 \notin T
  BY <1>3, <1>5, <1>6
<1> QED
  BY <1>7

\* The ramp's inverse is defined: RampSlot is the whole part of the square root.
LEMMA RampSlotDefined ==
  ASSUME NEW s, s.num \in Nat \ {0}, s.den \in Nat \ {0}, s.duration \in Nat, NEW n \in Nat
  PROVE  /\ RampSlot(s, n) \in Nat
         /\ RampSlot(s, n) * RampSlot(s, n) * s.num <= 2 * s.duration * n * s.den
         /\ (RampSlot(s, n) + 1) * (RampSlot(s, n) + 1) * s.num > 2 * s.duration * n * s.den
<1> DEFINE area == 2 * s.duration * n * s.den
           under == {t \in 0 .. area : t * t * s.num <= area}
<1>1. area \in Nat
  <2>1. \A x, y \in Nat : x * y \in Nat
    BY Z3
  <2> QED
    BY <2>1
<1> HIDE DEF area
<1>2. 0 \in under
  BY <1>1
<1>3. \A t \in under : 0 .. t \subseteq under
  <2> SUFFICES ASSUME NEW t \in under, NEW u \in 0 .. t PROVE u \in under
    OBVIOUS
  <2>1. t \in Nat /\ u \in Nat /\ u <= t /\ u \in 0 .. area
    BY <1>1
  <2>2. t * t * s.num <= area /\ t * t * s.num \in Nat
    BY <2>1, Z3
  <2>3. u * u * s.num <= t * t * s.num /\ u * u * s.num \in Nat
    BY <2>1, SquareMonotone, Z3
  <2> QED
    BY <1>1, <2>1, <2>2, <2>3
<1>4. PICK t \in under : t + 1 \notin under
  BY <1>1, <1>2, <1>3, SegmentEnds
<1>5. (t + 1) * (t + 1) * s.num > area
  <2>1. t \in Nat /\ (t + 1 \in 0 .. area \/ t + 1 > area)
    BY <1>1
  <2>2. \A x, k \in Nat : x >= 1 /\ k >= 1 => x * x * k >= x /\ x * x * k \in Nat
    <3> SUFFICES ASSUME NEW x \in Nat, NEW k \in Nat, x >= 1, k >= 1
                 PROVE  x * x * k >= x /\ x * x * k \in Nat
      OBVIOUS
    <3>1. x * x \in Nat /\ x * x >= x
      BY Z3
    <3>2. \A y \in Nat : y * k \in Nat /\ y * k >= y
      BY Z3
    <3> QED
      BY <3>1, <3>2
  <2>3. (t + 1) * (t + 1) * s.num >= t + 1 /\ (t + 1) * (t + 1) * s.num \in Nat
    BY <2>1, <2>2
  <2>4. CASE t + 1 > area
    BY <1>1, <2>1, <2>3, <2>4
  <2>5. CASE t + 1 \in 0 .. area
    BY <1>1, <1>4, <2>3, <2>5
  <2> QED
    BY <2>1, <2>4, <2>5
<1>6. \E u \in 0 .. area : u * u * s.num <= area /\ (u + 1) * (u + 1) * s.num > area
  BY <1>4, <1>5
<1>7. /\ RampSlot(s, n) \in 0 .. area
      /\ RampSlot(s, n) * RampSlot(s, n) * s.num <= area
      /\ (RampSlot(s, n) + 1) * (RampSlot(s, n) + 1) * s.num > area
  BY <1>6 DEF RampSlot, area
<1> QED
  BY <1>1, <1>7 DEF area

\* Every slot of a schedule is a time.
LEMMA SlotType ==
  ASSUME NEW s \in Schedules, NEW n \in Nat
  PROVE  Slot(s, n) \in Nat
<1>1. s.num \in Nat \ {0} /\ s.den \in Nat \ {0} /\ s.kind \in {"constant", "ramp"}
      /\ (s.kind = "ramp" => s.duration \in Nat)
  BY ScheduleAssumption
<1>2. CASE s.kind = "constant"
  <2>1. n * s.den \in Nat
    BY <1>1, Z3
  <2>2. \A x \in Nat, d \in Nat \ {0} : x \div d \in Nat
    BY Z3
  <2> QED
    BY <1>1, <1>2, <2>1, <2>2 DEF Slot
<1>3. CASE s.kind = "ramp"
  BY <1>1, <1>3, RampSlotDefined DEF Slot
<1> QED
  BY <1>1, <1>2, <1>3

\* So is every slot of a catch-up window.
LEMMA CatchUpSlotType ==
  ASSUME NEW s \in Schedules, NEW k \in Nat
  PROVE  CatchUpSlot(s, k) \in Nat
<1>1. k * s.den \in Nat /\ 2 * s.num \in Nat \ {0}
  BY ScheduleAssumption, Z3
<1>2. \A x \in Nat, d \in Nat \ {0} : x \div d \in Nat
  BY Z3
<1> QED
  BY <1>1, <1>2 DEF CatchUpSlot

\* Catching up at twice the rate never asks for more time than the schedule:
\* k requests later the schedule is at least k slots of the window further.
LEMMA CatchUpFits ==
  ASSUME NEW s \in Schedules, s.kind = "constant", NEW c \in Nat, NEW k \in Nat
  PROVE  Slot(s, c) + CatchUpSlot(s, k) <= Slot(s, c + k)
<1> DEFINE x == c * s.den
           y == k * s.den
           d == s.num
<1>1. d \in Nat \ {0} /\ s.den \in Nat
  BY ScheduleAssumption
<1>2. x \in Nat /\ y \in Nat /\ (c + k) * s.den = x + y
  BY <1>1, Z3
<1> HIDE DEF x, y, d
<1>3. PICK p \in Nat : p = x \div d
  BY <1>1, <1>2, Z3
<1>4. PICK q \in Nat : q = y \div (2 * d)
  BY <1>1, <1>2, Z3
<1>5. p * d <= x
  BY <1>1, <1>2, <1>3, Z3
<1>6. q * d <= y
  <2>1. q * (2 * d) <= y
    BY <1>1, <1>2, <1>4, Z3
  <2>2. q * d >= 0 /\ q * (2 * d) = 2 * (q * d)
    BY <1>1, Z3
  <2> QED
    BY <1>1, <1>2, <2>1, <2>2, Z3
<1>7. (p + q) * d <= x + y
  BY <1>1, <1>2, <1>5, <1>6, Z3
<1>8. p + q <= (x + y) \div d
  BY <1>1, <1>2, <1>7, Z3
<1> QED
  BY <1>2, <1>3, <1>4, <1>8 DEF Slot, CatchUpSlot, x, y, d

\* One more slot of a window takes at most a unit of the clock more than one more
\* slot of the schedule.
LEMMA CatchUpGap ==
  ASSUME NEW s \in Schedules, s.kind = "constant", NEW c \in Nat, NEW k \in Nat
  PROVE  CatchUpSlot(s, k + 1) <= CatchUpSlot(s, k) + 1 + Slot(s, c + 1) - Slot(s, c)
<1> DEFINE x == c * s.den
           y == k * s.den
           e == s.den
           d == s.num
<1>1. d \in Nat \ {0} /\ e \in Nat
  BY ScheduleAssumption
<1>2. x \in Nat /\ y \in Nat /\ (c + 1) * s.den = x + e /\ (k + 1) * s.den = y + e
  BY <1>1, Z3
<1> HIDE DEF x, y, d, e
<1>3. PICK a \in Nat : a = e \div d
  BY <1>1, Z3
<1>4. PICK p \in Nat : p = x \div d
  BY <1>1, <1>2, Z3
<1>5. PICK r \in Nat : r = y \div (2 * d)
  BY <1>1, <1>2, Z3
<1>6. PICK t \in Nat : t = (y + e) \div (2 * d)
  BY <1>1, <1>2, Z3
\* The schedule's gap is a at least.
<1>7. p + a <= (x + e) \div d
  <2>1. p * d <= x /\ a * d <= e
    BY <1>1, <1>2, <1>3, <1>4, Z3
  <2>2. (p + a) * d <= x + e
    BY <1>1, <1>2, <2>1, Z3
  <2> QED
    BY <1>1, <1>2, <2>2, Z3
\* The window's is not much more than half of a.
<1>8. t <= r + 1 + a
  <2>1. t * (2 * d) <= y + e
    BY <1>1, <1>2, <1>6, Z3
  <2>2. y < (r + 1) * (2 * d)
    BY <1>1, <1>2, <1>5, Z3
  <2>3. e < (a + 1) * d
    BY <1>1, <1>3, Z3
  <2>4. (2 * t) * d < (2 * r + a + 3) * d
    BY <1>1, <1>2, <2>1, <2>2, <2>3, Z3
  <2>5. 2 * t < 2 * r + a + 3
    BY <1>1, <2>4, Z3
  <2> QED
    BY <2>5
<1>9. /\ Slot(s, c) = p /\ Slot(s, c + 1) = (x + e) \div d
      /\ CatchUpSlot(s, k) = r /\ CatchUpSlot(s, k + 1) = t
  BY <1>2, <1>4, <1>5, <1>6 DEF Slot, CatchUpSlot, x, y, d, e
<1>10. (x + e) \div d \in Nat
  BY <1>1, <1>2, Z3
<1> QED
  BY <1>7, <1>8, <1>9, <1>10

\* The slots of a schedule do not go back.
LEMMA SlotMonotone ==
  ASSUME NEW s \in Schedules, NEW n \in Nat
  PROVE  Slot(s, n) <= Slot(s, n + 1)
<1>1. s.num \in Nat \ {0} /\ s.den \in Nat \ {0} /\ s.kind \in {"constant", "ramp"}
      /\ (s.kind = "ramp" => s.duration \in Nat)
  BY ScheduleAssumption
<1>2. CASE s.kind = "constant"
  <2>1. Slot(s, n) + CatchUpSlot(s, 1) <= Slot(s, n + 1)
    BY <1>2, CatchUpFits
  <2>2. Slot(s, n) \in Nat /\ Slot(s, n + 1) \in Nat /\ CatchUpSlot(s, 1) \in Nat
    BY CatchUpSlotType, SlotType
  <2> QED
    BY <2>1, <2>2
<1>3. CASE s.kind = "ramp"
  <2> DEFINE r == RampSlot(s, n)
             t == RampSlot(s, n + 1)
  <2>1. r \in Nat /\ t \in Nat
    BY <1>1, <1>3, RampSlotDefined
  <2>2. r * r * s.num <= 2 * s.duration * n * s.den
    BY <1>1, <1>3, RampSlotDefined
  <2>3. (t + 1) * (t + 1) * s.num > 2 * s.duration * (n + 1) * s.den
    BY <1>1, <1>3, RampSlotDefined
  <2>4. 2 * s.duration * n * s.den <= 2 * s.duration * (n + 1) * s.den
    BY <1>1, <1>3, Z3
  <2> HIDE DEF r, t
  <2>5. CASE r > t
    <3>1. (t + 1) * (t + 1) * s.num <= r * r * s.num
      BY <1>1, <2>1, <2>5, SquareMonotone
    <3> QED
      BY <1>1, <1>3, <2>1, <2>2, <2>3, <2>4, <3>1, Z3
  <2> QED
    BY <1>3, <2>1, <2>5 DEF Slot, r, t
<1> QED
  BY <1>1, <1>2, <1>3
-----------------------------------------------------------------------------
\* The origin moves only by the pauses.
Origin ==
  /\ thread_start = offset + paused
  /\ pc = "inflight" => intended = IntendedSendTime

\* A wait ends in the future and not before the slot.
Patience ==
  /\ pc = "waiting" => target >= now /\ target >= IntendedSendTime
  /\ pc = "inflight" => sent >= intended /\ sent = now

\* How late the connection is, at every point of its loop.
Lateness ==
  /\ pc \in {"top", "inflight", "backoff"} => now <= IntendedSendTime + busy
  /\ pc = "waiting" => target <= IntendedSendTime + busy

\* An open catch-up window: it began no later than the connection had earned,
\* and its requests are counted and paced from there.
Window ==
  ~caught_up /\ schedule.kind = "constant" =>
    /\ catch_up_start_time <=
         thread_start + Slot(schedule, complete_at_catch_up_start) + busy
    /\ lateFrom = catch_up_start_time
    /\ pc = "top" => late + 1 = complete - complete_at_catch_up_start
    /\ pc \in {"waiting", "inflight"} => late = complete - complete_at_catch_up_start
    /\ pc = "waiting" => target >= lateFrom + CatchUpSlot(schedule, late)
    /\ pc = "inflight" => sent >= lateFrom + CatchUpSlot(schedule, late)

\* The inductive invariant.
SchedInv == TypeOK /\ Origin /\ Patience /\ Lateness /\ Window

\* A connection that starts is on schedule.
LEMMA SchedInvInit == Init => SchedInv
<1> SUFFICES ASSUME Init PROVE SchedInv
  OBVIOUS
<1>1. offset \in Nat /\ Slot(schedule, 0) \in Nat
  BY ScheduleAssumption, SlotType DEF Init
<1>2. TypeOK
  <2>1. SchedTypeOK
    BY <1>1 DEF Init, SchedTypeOK
  <2>2. LoopTypeOK
    BY DEF Init, LoopTypeOK
  <2>3. HistTypeOK
    BY <1>1 DEF Init, HistTypeOK
  <2> QED
    BY <2>1, <2>2, <2>3 DEF TypeOK
<1>3. Origin /\ Patience /\ Window
  BY <1>1 DEF Init, Origin, Patience, Window
<1>4. Lateness
  BY <1>1 DEF Init, Lateness, IntendedSendTime
<1> QED
  BY <1>2, <1>3, <1>4 DEF SchedInv

\* The times a connection computes with are numbers.
LEMMA TimesType ==
  ASSUME TypeOK
  PROVE  /\ IntendedSendTime \in Nat /\ IntendedSendTime = thread_start + Slot(schedule, complete)
         /\ Slot(schedule, complete) \in Nat
         /\ Slot(schedule, complete) <= Slot(schedule, complete + 1)
         /\ Slot(schedule, complete + 1) \in Nat
         /\ Slot(schedule, complete_at_catch_up_start) \in Nat
         /\ CatchUpSlot(schedule, complete - complete_at_catch_up_start) \in Nat
         /\ CatchUpSlot(schedule, 0) = 0
<1>1. /\ schedule \in Schedules /\ complete \in Nat /\ thread_start \in Nat
      /\ complete_at_catch_up_start \in Nat /\ complete + 1 \in Nat
      /\ complete - complete_at_catch_up_start \in Nat
  BY DEF TypeOK, SchedTypeOK, LoopTypeOK, HistTypeOK
<1>2. CatchUpSlot(schedule, 0) = 0
  BY <1>1, ScheduleAssumption DEF CatchUpSlot
<1> QED
  BY <1>1, <1>2, SlotType, CatchUpSlotType, SlotMonotone DEF IntendedSendTime

\* The step on which everything hangs: usec_to_next_send.
LEMMA ScheduleStep ==
  ASSUME SchedInv, Schedule
  PROVE  SchedInv'
<1> USE TimesType DEF TypeOK, SchedTypeOK, LoopTypeOK, HistTypeOK
<1>t. TypeOK /\ Window /\ Lateness /\ Origin /\ pc = "top"
  BY DEF SchedInv, Schedule
<1>u. UNCHANGED <<schedule, complete, thread_start, now, intended, sent, backoff, abort,
                  offset, paused, busy>>
  BY DEF Schedule, NoteWindow
<1>w. /\ pc' = "waiting" /\ target' = now + Wait
      /\ OnPace => caught_up' = TRUE
      /\ ~OnPace => caught_up' = FALSE
      /\ lateFrom' = (IF ~OnPace /\ caught_up THEN now ELSE lateFrom)
      /\ late' = (IF OnPace \/ caught_up THEN 0 ELSE late + 1)
  BY DEF Schedule, NoteWindow
<1>i. IntendedSendTime' = IntendedSendTime
  BY <1>u DEF IntendedSendTime
<1>n. ASSUME target' \in Nat, catch_up_start_time' \in Nat, catch_up_start_time' <= now,
             complete_at_catch_up_start' \in Nat, complete_at_catch_up_start' <= complete
      PROVE  TypeOK'
  <2>1. SchedTypeOK'
    BY <1>n, <1>t, <1>u, <1>w
  <2>2. LoopTypeOK'
    BY <1>n, <1>t, <1>u, <1>w
  <2>3. HistTypeOK'
    BY <1>t, <1>u, <1>w
  <2> QED
    BY <2>1, <2>2, <2>3
\* On pace: sleep until the slot; the window, if any, is left.
<1>1. CASE OnPace
  <2>1. /\ target' = IntendedSendTime /\ IntendedSendTime > now
        /\ UNCHANGED <<catch_up_start_time, complete_at_catch_up_start>>
    BY <1>1, <1>t, <1>w DEF OnPace, Wait, Schedule, NoteWindow
  <2>2. TypeOK'
    BY <1>n, <1>t, <2>1
  <2>3. Origin' /\ Window'
    BY <1>1, <1>t, <1>u, <1>w, <2>1 DEF Origin, Window
  <2>4. Patience' /\ Lateness'
    BY <1>t, <1>u, <1>w, <1>i, <2>1 DEF Patience, Lateness
  <2> QED
    BY <2>2, <2>3, <2>4 DEF SchedInv
\* Behind a ramp: send now.
<1>2. CASE ~OnPace /\ schedule.kind = "ramp"
  <2>1. /\ target' = now /\ IntendedSendTime <= now
        /\ UNCHANGED <<catch_up_start_time, complete_at_catch_up_start>>
    BY <1>2, <1>t, <1>w DEF OnPace, Wait, Schedule, NoteWindow
  <2>2. TypeOK'
    BY <1>n, <1>t, <2>1
  <2>3. Origin' /\ Window'
    BY <1>2, <1>t, <1>u, <1>w, <2>1 DEF Origin, Window
  <2>4. Patience' /\ Lateness'
    BY <1>t, <1>u, <1>w, <1>i, <2>1 DEF Patience, Lateness
  <2> QED
    BY <2>2, <2>3, <2>4 DEF SchedInv
\* Behind a constant schedule and not yet in a window: one opens, send now.
<1>3. CASE ~OnPace /\ schedule.kind = "constant" /\ caught_up
  <2>1. CatchUpNext = now
    BY <1>3, <1>t DEF CatchUpNext, WindowStart, WindowCount, OpensWindow
  <2>2. /\ target' = now /\ IntendedSendTime <= now
        /\ catch_up_start_time' = now /\ complete_at_catch_up_start' = complete
        /\ lateFrom' = now /\ late' = 0 /\ caught_up' = FALSE
    BY <1>3, <1>t, <1>w, <2>1
    DEF OnPace, Wait, Schedule, NoteWindow, WindowStart, WindowCount, OpensWindow
  <2>3. TypeOK'
    BY <1>n, <1>t, <2>2
  <2>4. now <= thread_start + Slot(schedule, complete) + busy
    BY <1>t DEF Lateness
  <2>5. Origin' /\ Window'
    BY <1>t, <1>u, <1>w, <2>2, <2>4 DEF Origin, Window
  <2>6. Patience' /\ Lateness'
    BY <1>t, <1>u, <1>w, <1>i, <2>2 DEF Patience, Lateness
  <2> QED
    BY <2>3, <2>5, <2>6 DEF SchedInv
\* Inside a window: at twice the rate, which is still within the schedule.
<1>4. CASE ~OnPace /\ schedule.kind = "constant" /\ ~caught_up
  <2> DEFINE k == complete - complete_at_catch_up_start
  <2>1. CatchUpNext = catch_up_start_time + CatchUpSlot(schedule, k)
    BY <1>4 DEF CatchUpNext, WindowStart, WindowCount, OpensWindow
  <2>2. /\ IntendedSendTime <= now /\ caught_up' = FALSE
        /\ catch_up_start_time' = catch_up_start_time
        /\ complete_at_catch_up_start' = complete_at_catch_up_start
        /\ lateFrom' = lateFrom /\ late' = late + 1
    BY <1>4, <1>t, <1>w
    DEF OnPace, Schedule, NoteWindow, WindowStart, WindowCount, OpensWindow
  <2>3. /\ target' >= now /\ target' >= CatchUpNext /\ target' \in Nat
        /\ target' = now \/ target' = CatchUpNext
    BY <1>4, <1>t, <1>w, <2>1 DEF Wait
  <2>4. TypeOK'
    BY <1>n, <1>t, <2>2, <2>3
  <2>5. /\ catch_up_start_time <= thread_start + Slot(schedule, complete_at_catch_up_start) + busy
        /\ lateFrom = catch_up_start_time /\ late + 1 = k
    BY <1>4, <1>t DEF Window
  <2>6. Slot(schedule, complete_at_catch_up_start) + CatchUpSlot(schedule, k)
          <= Slot(schedule, complete)
    <3>1. k \in Nat /\ complete_at_catch_up_start \in Nat /\ complete_at_catch_up_start + k = complete
      BY <1>t
    <3> QED
      BY <1>4, <1>t, <3>1, CatchUpFits
  <2>7. CatchUpNext <= IntendedSendTime + busy
    BY <1>t, <2>1, <2>5, <2>6
  <2>8. Origin' /\ Window'
    BY <1>t, <1>u, <1>w, <2>1, <2>2, <2>3, <2>5 DEF Origin, Window
  <2>9. Patience' /\ Lateness'
    BY <1>t, <1>u, <1>w, <1>i, <2>2, <2>3, <2>7 DEF Patience, Lateness
  <2> QED
    BY <2>4, <2>8, <2>9 DEF SchedInv
<1> QED
  <2>1. schedule.kind \in {"constant", "ramp"} /\ caught_up \in BOOLEAN
    BY <1>t, ScheduleAssumption
  <2> QED
    BY <1>1, <1>2, <1>3, <1>4, <2>1

\* The rest of the loop: sleeping, the network and the pauses.
LEMMA LoopStep ==
  ASSUME SchedInv, [Next]_vars, ~Schedule
  PROVE  SchedInv'
<1> USE TimesType, ScheduleAssumption
<1> USE DEF TypeOK, SchedTypeOK, LoopTypeOK, HistTypeOK, schedVars, histVars
<1>t. TypeOK /\ Origin /\ Patience /\ Lateness /\ Window
  BY DEF SchedInv
<1>1. CASE Leave \/ ConnectionFails
  <2>1. pc' = "done" /\ UNCHANGED <<now, target, intended, sent, backoff, abort, schedVars, histVars>>
    BY <1>1 DEF Leave, ConnectionFails
  <2>2. SchedTypeOK' /\ HistTypeOK'
    BY <1>t, <2>1
  <2>3. LoopTypeOK'
    BY <1>t, <2>1
  <2>4. Origin' /\ Patience' /\ Lateness' /\ Window'
    BY <1>t, <2>1 DEF Origin, Patience, Lateness, Window
  <2> QED
    BY <2>2, <2>3, <2>4 DEF SchedInv
<1>2. CASE RaiseAbort
  <2>1. SchedTypeOK' /\ HistTypeOK'
    BY <1>2, <1>t DEF RaiseAbort
  <2>2. LoopTypeOK'
    BY <1>2, <1>t DEF RaiseAbort
  <2>3. Origin' /\ Patience' /\ Lateness' /\ Window'
    BY <1>2, <1>t DEF RaiseAbort, Origin, Patience, Lateness, Window, IntendedSendTime
  <2> QED
    BY <2>1, <2>2, <2>3 DEF SchedInv
<1>3. ASSUME NEW o \in Oversleeps, Send(o) PROVE SchedInv'
  <2>1. /\ pc = "waiting" /\ now' = target + o /\ busy' = busy + o /\ o \in Nat
        /\ UNCHANGED <<target, backoff, abort, schedVars, offset, paused, lateFrom, late>>
        /\ \/ pc' = "done" /\ UNCHANGED <<intended, sent>>
           \/ pc' = "inflight" /\ intended' = IntendedSendTime /\ sent' = now'
    BY <1>3 DEF Send
  <2>2. IntendedSendTime' = IntendedSendTime
    BY <2>1 DEF IntendedSendTime
  <2>3. target >= now /\ target >= IntendedSendTime /\ target <= IntendedSendTime + busy
    BY <1>t, <2>1 DEF Patience, Lateness
  <2>4. SchedTypeOK' /\ HistTypeOK'
    BY <1>t, <2>1, <2>3
  <2>5. LoopTypeOK'
    BY <1>t, <2>1
  <2>6. Origin' /\ Patience' /\ Lateness'
    BY <1>t, <2>1, <2>2, <2>3 DEF Origin, Patience, Lateness
  <2>7. Window'
    <3> SUFFICES ASSUME ~caught_up, schedule.kind = "constant" PROVE Window'
      BY <2>1 DEF Window
    <3>1. complete - complete_at_catch_up_start = late
      BY <1>t, <2>1 DEF Window
    <3> QED
      BY <1>t, <2>1, <3>1 DEF Window
  <2> QED
    BY <2>4, <2>5, <2>6, <2>7 DEF SchedInv
<1>4. ASSUME NEW l \in Latencies, Receive(l) PROVE SchedInv'
  <2>1. /\ pc = "inflight" /\ pc' = "top" /\ now' = now + l /\ busy' = busy + l /\ l \in Nat
        /\ complete' = complete + 1
        /\ UNCHANGED <<schedule, thread_start, caught_up, catch_up_start_time,
                       complete_at_catch_up_start, target, intended, sent, backoff, abort,
                       offset, paused, lateFrom, late>>
    BY <1>4 DEF Receive
  <2>2. IntendedSendTime' = thread_start + Slot(schedule, complete + 1)
    BY <2>1 DEF IntendedSendTime
  <2>3. SchedTypeOK' /\ HistTypeOK'
    BY <1>t, <2>1
  <2>4. LoopTypeOK'
    BY <1>t, <2>1
  <2>5. Origin' /\ Patience' /\ Lateness'
    BY <1>t, <2>1, <2>2 DEF Origin, Patience, Lateness
  <2>6. Window'
    BY <1>t, <2>1 DEF Window
  <2> QED
    BY <2>3, <2>4, <2>5, <2>6 DEF SchedInv
<1>5. ASSUME NEW l \in Latencies, NEW b \in Backoffs, ReceiveBackoff(l, b) PROVE SchedInv'
  <2>1. /\ pc = "inflight" /\ pc' = "backoff" /\ now' = now + l /\ busy' = busy + l
        /\ l \in Nat /\ b \in Nat /\ backoff' = b
        /\ UNCHANGED <<target, intended, sent, abort, schedVars, offset, paused, lateFrom, late>>
    BY <1>5 DEF ReceiveBackoff
  <2>2. IntendedSendTime' = IntendedSendTime
    BY <2>1 DEF IntendedSendTime
  <2>3. SchedTypeOK' /\ HistTypeOK'
    BY <1>t, <2>1
  <2>4. LoopTypeOK'
    BY <1>t, <2>1
  <2>5. Origin' /\ Patience' /\ Lateness'
    BY <1>t, <2>1, <2>2 DEF Origin, Patience, Lateness
  <2>6. Window'
    BY <1>t, <2>1 DEF Window
  <2> QED
    BY <2>3, <2>4, <2>5, <2>6 DEF SchedInv
<1>6. ASSUME NEW o \in Oversleeps, PauseEnds(o) PROVE SchedInv'
  <2>1. /\ pc = "backoff" /\ pc' = "top" /\ o \in Nat
        /\ \/ now' = now + backoff + o /\ busy' = busy + o
           \/ UNCHANGED <<now, busy>>
        /\ thread_start' = thread_start + backoff /\ caught_up' = TRUE
        /\ complete' = complete + 1 /\ paused' = paused + backoff
        /\ UNCHANGED <<schedule, catch_up_start_time, complete_at_catch_up_start, target,
                       intended, sent, backoff, abort, offset, lateFrom, late>>
    BY <1>6 DEF PauseEnds, DeferOrigin
  <2>2. IntendedSendTime' = thread_start + backoff + Slot(schedule, complete + 1)
    BY <2>1 DEF IntendedSendTime
  <2>3. SchedTypeOK' /\ HistTypeOK'
    BY <1>t, <2>1
  <2>4. LoopTypeOK'
    BY <1>t, <2>1
  <2>5. Origin' /\ Patience' /\ Lateness'
    BY <1>t, <2>1, <2>2 DEF Origin, Patience, Lateness
  <2>6. Window'
    BY <2>1 DEF Window
  <2> QED
    BY <2>3, <2>4, <2>5, <2>6 DEF SchedInv
<1>7. CASE UNCHANGED vars
  <2>1. UNCHANGED <<schedVars, pc, now, target, intended, sent, backoff, abort, histVars>>
    BY <1>7 DEF vars, loopVars
  <2>2. SchedTypeOK' /\ HistTypeOK'
    BY <1>t, <2>1
  <2>3. LoopTypeOK'
    BY <1>t, <2>1
  <2>4. Origin' /\ Patience' /\ Lateness' /\ Window'
    BY <1>t, <2>1 DEF Origin, Patience, Lateness, Window, IntendedSendTime
  <2> QED
    BY <2>2, <2>3, <2>4 DEF SchedInv
<1> QED
  BY <1>1, <1>2, <1>3, <1>4, <1>5, <1>6, <1>7 DEF Next, Done

\* The inductive invariant holds throughout.
LEMMA SchedInvHolds == Spec => []SchedInv
<1>1. SchedInv /\ [Next]_vars => SchedInv'
  BY ScheduleStep, LoopStep
<1> QED
  BY SchedInvInit, <1>1, PTL DEF Spec
-----------------------------------------------------------------------------
\* Type correctness: no subtraction of u64 values goes below zero.
THEOREM SchedTypeCorrect == Spec => []TypeOK
<1>1. SchedInv => TypeOK
  BY DEF SchedInv
<1> QED
  BY SchedInvHolds, <1>1, PTL

\* No request is sent before its slot.
THEOREM RequestsNeverEarly == Spec => []NeverEarly
<1>1. SchedInv => NeverEarly
  BY DEF SchedInv, Patience, NeverEarly
<1> QED
  BY SchedInvHolds, <1>1, PTL

\* Requests are measured from the original schedule, moved only by pauses.
THEOREM OriginalSlots == Spec => []SlotsAreOriginal
<1>1. SchedInv => SlotsAreOriginal
  <2> SUFFICES ASSUME SchedInv, pc = "inflight"
               PROVE  intended = offset + Slot(schedule, complete) + paused
    BY DEF SlotsAreOriginal
  <2>1. TypeOK /\ intended = thread_start + Slot(schedule, complete) /\ thread_start = offset + paused
    BY TimesType DEF SchedInv, Origin
  <2> QED
    BY <2>1, TimesType DEF TypeOK, HistTypeOK
<1> QED
  BY SchedInvHolds, <1>1, PTL

\* A request is late by no more than the responses and oversleeps before it.
THEOREM LatenessEarned == Spec => []LatenessIsEarned
<1>1. SchedInv => LatenessIsEarned
  BY TimesType DEF SchedInv, Origin, Patience, Lateness, LatenessIsEarned, TypeOK, LoopTypeOK, HistTypeOK
<1> QED
  BY SchedInvHolds, <1>1, PTL

\* Catching up never exceeds twice the rate.
THEOREM CatchUpPaced == Spec => []CatchUpIsPaced
<1>1. SchedInv => CatchUpIsPaced
  BY DEF SchedInv, Window, CatchUpIsPaced, CatchUpSlot
<1> QED
  BY SchedInvHolds, <1>1, PTL
-----------------------------------------------------------------------------
\* The connection is at its last request's slot or past it, unless the loop is
\* about to end: the pause of an ended loop is skipped, and the origin still moves.
Arrived ==
  /\ pc = "backoff" => now >= IntendedSendTime
  /\ pc = "top" /\ complete > 0 =>
       abort \/ now >= Deadline \/ now >= thread_start + Slot(schedule, complete - 1)

\* In a window it is past the slot the window gave its last request.
PastWindow ==
  pc = "top" /\ ~caught_up /\ schedule.kind = "constant" =>
    now >= lateFrom + CatchUpSlot(schedule, late) + 1

\* What idling depends on; inductive beside SchedInv.
IdleInv == Arrived /\ PastWindow /\ NeverIdles

\* The wait that is computed is no longer than the schedule's gap.
LEMMA ScheduleIdles ==
  ASSUME SchedInv, IdleInv, Schedule
  PROVE  IdleInv'
<1> DEFINE c == complete - 1
<1>t. /\ TypeOK /\ pc = "top" /\ pc' = "waiting" /\ target' = now + Wait
      /\ UNCHANGED <<schedule, complete, thread_start, now>>
      /\ ~abort /\ now < Deadline
      /\ now \in Nat /\ complete \in Nat /\ thread_start \in Nat /\ Deadline \in Nat
      /\ schedule \in Schedules
  BY ScheduleAssumption
  DEF SchedInv, Schedule, NoteWindow, TypeOK, SchedTypeOK, LoopTypeOK
<1> SUFFICES ASSUME complete > 0
             PROVE  Wait <= Slot(schedule, complete) - Slot(schedule, c)
  <2>1. Wait \in Nat
    BY <1>t, TimesType, CatchUpSlotType
    DEF Wait, OnPace, CatchUpNext, WindowStart, WindowCount, OpensWindow, TypeOK, SchedTypeOK
  <2> QED
    BY <1>t, <2>1 DEF IdleInv, Arrived, PastWindow, NeverIdles
<1>1. /\ c \in Nat /\ c + 1 = complete
      /\ Slot(schedule, c) \in Nat /\ Slot(schedule, complete) \in Nat
      /\ Slot(schedule, c) <= Slot(schedule, complete)
  <2>1. c \in Nat /\ c + 1 = complete
    BY <1>t
  <2> HIDE DEF c
  <2> QED
    BY <1>t, <2>1, SlotType, SlotMonotone
<1>2. now >= thread_start + Slot(schedule, c)
  BY <1>t DEF IdleInv, Arrived
<1>3. CASE OnPace
  <2>1. Wait = IntendedSendTime - now
    BY <1>3 DEF Wait
  <2>2. IntendedSendTime = thread_start + Slot(schedule, complete)
    BY DEF IntendedSendTime
  <2> HIDE DEF c
  <2> QED
    BY <1>t, <1>1, <1>2, <2>1, <2>2
<1>4. CASE ~OnPace /\ ~(schedule.kind = "constant" /\ CatchUpNext > now)
  <2>1. Wait = 0
    BY <1>4 DEF Wait
  <2> QED
    BY <1>1, <2>1
<1>5. CASE ~OnPace /\ schedule.kind = "constant" /\ CatchUpNext > now
  <2>1. Wait = CatchUpNext - now
    BY <1>5 DEF Wait
  <2>2. ~caught_up
    <3>1. SUFFICES ASSUME caught_up PROVE FALSE
      OBVIOUS
    <3>2. CatchUpNext = now + CatchUpSlot(schedule, complete - complete)
      BY <1>5, <3>1 DEF CatchUpNext, WindowStart, WindowCount, OpensWindow
    <3> QED
      BY <1>t, <1>5, <3>2, TimesType
  <2>3. /\ CatchUpNext = lateFrom + CatchUpSlot(schedule, late + 1)
        /\ late \in Nat /\ lateFrom \in Nat
    BY <1>5, <1>t, <2>2
    DEF SchedInv, Window, CatchUpNext, WindowStart, WindowCount, OpensWindow, TypeOK, HistTypeOK
  <2>4. now >= lateFrom + CatchUpSlot(schedule, late) + 1
    BY <1>5, <1>t, <2>2 DEF IdleInv, PastWindow
  <2>5. CatchUpSlot(schedule, late + 1)
          <= CatchUpSlot(schedule, late) + 1 + Slot(schedule, c + 1) - Slot(schedule, c)
    BY <1>5, <1>t, <1>1, <2>3, CatchUpGap
  <2>6. CatchUpSlot(schedule, late) \in Nat /\ CatchUpSlot(schedule, late + 1) \in Nat
    BY <1>t, <2>3, CatchUpSlotType
  <2> HIDE DEF c
  <2> QED
    BY <1>t, <1>1, <2>1, <2>3, <2>4, <2>5, <2>6
<1> QED
  BY <1>3, <1>4, <1>5

\* The rest of the loop: a response takes time, and a pause moves the origin and
\* the clock together.
LEMMA LoopIdles ==
  ASSUME SchedInv, IdleInv, [Next]_vars, ~Schedule, 0 \notin Latencies
  PROVE  IdleInv'
<1> USE DEF schedVars, histVars
<1>t. TypeOK /\ Arrived /\ PastWindow /\ NeverIdles
  BY DEF SchedInv, IdleInv
<1>s. /\ now \in Nat /\ complete \in Nat /\ thread_start \in Nat /\ backoff \in Nat
      /\ complete + 1 > 0 /\ complete + 1 - 1 = complete
      /\ Slot(schedule, complete) \in Nat /\ Deadline \in Nat
      /\ IntendedSendTime = thread_start + Slot(schedule, complete)
  BY <1>t, TimesType, ScheduleAssumption DEF TypeOK, SchedTypeOK, LoopTypeOK
<1>1. CASE Leave \/ ConnectionFails
  BY <1>1, <1>t DEF Leave, ConnectionFails, IdleInv, Arrived, PastWindow, NeverIdles
<1>2. CASE RaiseAbort
  BY <1>2, <1>t DEF RaiseAbort, IdleInv, Arrived, PastWindow, NeverIdles, IntendedSendTime
<1>3. ASSUME NEW o \in Oversleeps, Send(o) PROVE IdleInv'
  <2>1. pc' \in {"done", "inflight"}
    BY <1>3 DEF Send
  <2> QED
    BY <2>1 DEF IdleInv, Arrived, PastWindow, NeverIdles
<1>4. ASSUME NEW l \in Latencies, Receive(l) PROVE IdleInv'
  <2>1. /\ pc = "inflight" /\ pc' = "top" /\ now' = now + l /\ l \in Nat /\ l >= 1
        /\ complete' = complete + 1
        /\ UNCHANGED <<schedule, thread_start, caught_up, lateFrom, late, intended, sent, abort>>
    BY <1>4, ScheduleAssumption DEF Receive
  <2>2. now = sent /\ sent >= IntendedSendTime
    BY <2>1 DEF SchedInv, Patience, Origin
  <2>3. Arrived'
    BY <1>s, <2>1, <2>2 DEF Arrived
  <2>4. PastWindow'
    <3> SUFFICES ASSUME ~caught_up, schedule.kind = "constant"
                 PROVE  now' >= lateFrom + CatchUpSlot(schedule, late) + 1
      BY <2>1 DEF PastWindow
    <3>1. sent >= lateFrom + CatchUpSlot(schedule, late)
      BY <2>1 DEF SchedInv, Window
    <3>2. lateFrom \in Nat /\ late \in Nat /\ CatchUpSlot(schedule, late) \in Nat
      BY <1>t, CatchUpSlotType DEF TypeOK, SchedTypeOK, HistTypeOK
    <3> QED
      BY <1>s, <2>1, <2>2, <3>1, <3>2
  <2> QED
    BY <2>1, <2>3, <2>4 DEF IdleInv, NeverIdles
<1>5. ASSUME NEW l \in Latencies, NEW b \in Backoffs, ReceiveBackoff(l, b) PROVE IdleInv'
  <2>1. /\ pc = "inflight" /\ pc' = "backoff" /\ now' = now + l /\ l \in Nat
        /\ UNCHANGED <<schedule, thread_start, complete>>
    BY <1>5, ScheduleAssumption DEF ReceiveBackoff
  <2>2. now = sent /\ sent >= IntendedSendTime
    BY <2>1 DEF SchedInv, Patience, Origin
  <2>3. IntendedSendTime' = IntendedSendTime
    BY <2>1 DEF IntendedSendTime
  <2>4. Arrived'
    BY <1>s, <2>1, <2>2, <2>3 DEF Arrived
  <2> QED
    BY <2>1, <2>4 DEF IdleInv, PastWindow, NeverIdles
<1>6. ASSUME NEW o \in Oversleeps, PauseEnds(o) PROVE IdleInv'
  <2>1. /\ pc = "backoff" /\ pc' = "top" /\ o \in Nat
        /\ \/ now' = now + backoff + o
           \/ (abort \/ now >= Deadline) /\ now' = now
        /\ thread_start' = thread_start + backoff /\ caught_up' = TRUE
        /\ complete' = complete + 1 /\ UNCHANGED <<schedule, abort>>
    BY <1>6, <1>s, ScheduleAssumption DEF PauseEnds, DeferOrigin
  <2>2. now >= IntendedSendTime
    BY <1>t, <2>1 DEF Arrived
  <2>3. Arrived'
    BY <1>s, <2>1, <2>2 DEF Arrived
  <2> QED
    BY <2>1, <2>3 DEF IdleInv, PastWindow, NeverIdles
<1>7. CASE UNCHANGED vars
  <2>1. UNCHANGED <<schedVars, pc, now, target, abort, histVars>>
    BY <1>7 DEF vars, loopVars
  <2> QED
    BY <1>t, <2>1 DEF IdleInv, Arrived, PastWindow, NeverIdles, IntendedSendTime
<1> QED
  BY <1>1, <1>2, <1>3, <1>4, <1>5, <1>6, <1>7 DEF Next, Done

\* A connection whose responses take time, a unit of the clock or more, never
\* idles longer than the schedule's own gap: not after a response, not after a
\* pause, and not inside a catch-up window.
THEOREM ConnectionNeverIdles ==
  ASSUME 0 \notin Latencies
  PROVE  Spec => []NeverIdles
<1>1. Init => IdleInv
  BY DEF Init, IdleInv, Arrived, PastWindow, NeverIdles
<1>2. SchedInv /\ IdleInv /\ [Next]_vars => IdleInv'
  BY ScheduleIdles, LoopIdles
<1>3. IdleInv => NeverIdles
  BY DEF IdleInv
<1> QED
  BY SchedInvHolds, <1>1, <1>2, <1>3, PTL DEF Spec
=============================================================================
