--------------------------- MODULE Dispatch_proofs ---------------------------
(***************************************************************************)
(* Theorems about Dispatch, for every fleet, duration and set of counts:   *)
(* the live feed implements TickFeed, its ticks are consecutive, the       *)
(* variables keep their types; the summary is honest and agrees with the   *)
(* feed; and an abort finds the run it is for, and has been asked for.     *)
(***************************************************************************)
EXTENDS DispatchProps, SumTheorems

(***************************************************************************)
(* The inductive invariant.  It speaks of two numbers per worker that no   *)
(* variable holds: taken[w], the Partials of w's stream its task has read, *)
(* and filed[w], the ticks of w the aggregator has put into per_tick.      *)
(***************************************************************************)

\* What Partial p says of a slice with ticks s on connection c is true; a final
\* one comes after all ticks and counts nothing.
Genuine(s, c, p) ==
  /\ p.final => p.tick = Len(s) + 1 /\ c # "open" /\ p.total = 0
  /\ ~p.final => p.tick \in 1 .. Len(s) /\ p.total = s[p.tick]

\* What is in flight in q continues the k Partials already read, without a gap.
Continues(k, q, s, c) ==
  /\ Len(s) <= MaxTicks
  /\ \A i \in 1 .. Len(q) : q[i].tick = k + i /\ Genuine(s, c, q[i])
  /\ k + Len(q) <= Len(s) + 1
  /\ c = "open" => k + Len(q) = Len(s)
  /\ c = "idle" => k = 0 /\ s = <<>> /\ q = <<>>

\* Only dispatched workers have tasks and streams.
Dispatched(t, c, member) ==
  /\ c # "idle" => member
  /\ t # "none" => member
  /\ t \in {"none", "connecting"} => c = "idle"

StreamInv(taken) ==
  \A w \in Workers : /\ Continues(taken[w], stream[w], produced[w], conn[w])
                     /\ Dispatched(task[w], conn[w], w \in fleet)

\* Channel q holds, for each worker of fleet F in order, the Partials read and not
\* yet filed: f counts the filed ticks, k the read Partials, pr the ticks produced
\* and cn is the connection of each.
Pending(q, f, k, pr, cn) ==
  \A i \in 1 .. Len(q) : /\ f[q[i].worker] < q[i].partial.tick
                         /\ q[i].partial.tick <= k[q[i].worker]
                         /\ Genuine(pr[q[i].worker], cn[q[i].worker], q[i].partial)

InOrder(q) ==
  \A i, j \in 1 .. Len(q) :
    i < j /\ q[i].worker = q[j].worker => q[i].partial.tick < q[j].partial.tick

NoneMissing(q, F, f, k, pr) ==
  \A w \in F :
    /\ f[w] <= k[w]
    /\ \A n \in Nat : f[w] < n /\ n <= k[w] /\ n <= Len(pr[w])
                      => \E i \in 1 .. Len(q) : q[i].worker = w /\ q[i].partial.tick = n

Queued(q, F, f, k, pr, cn) ==
  Pending(q, f, k, pr, cn) /\ InOrder(q) /\ NoneMissing(q, F, f, k, pr)

\* With m ticks published, pt holds what is filed and not published, and some
\* worker is the slowest.
Filed(pt, m, F, f, pr) ==
  /\ \A w \in F : m <= f[w] /\ f[w] <= Len(pr[w])
  /\ \E w \in F : f[w] = m
  /\ \A n \in Ticks : pt[n] = [w \in {x \in F : m < n /\ n <= f[x]} |-> pr[w][n]]

AggregatorInv(filed, taken) ==
  /\ Queued(queue, fleet, filed, taken, produced, conn)
  /\ Filed(perTick, Len(emitted), fleet, filed, produced)

Early == {"idle", "noworkers", "listed"}

\* Before the tasks are spawned there is nothing.
EarlyInv ==
  /\ dpc = "idle" => fleet = {}
  /\ dpc = "listed" => fleet # {}
  /\ dpc \in Early => /\ \A w \in Workers : task[w] = "none"
                      /\ emitted = <<>>
                      /\ \A n \in Ticks : perTick[n] = NoReports
  /\ ~Aggregating => queue = <<>>

\* The published ticks are 1, 2, 3, ... and cum is what the last one accumulated.
EmittedInv ==
  /\ \E S : emitted \in Seq(S)
  /\ \A i \in 1 .. Len(emitted) : emitted[i].elapsed_s = i
  /\ Len(emitted) <= MaxTicks
  /\ cum = IF emitted = <<>> THEN 0 ELSE emitted[Len(emitted)].completed_total

Inv(filed, taken) ==
  /\ TypeOK /\ EarlyInv /\ EmittedInv /\ StreamInv(taken)
  /\ Aggregating => AggregatorInv(filed, taken)

FeedInv == \E filed, taken \in [Workers -> Nat] : Inv(filed, taken)

(***************************************************************************)
(* Sequences and records.                                                  *)
(***************************************************************************)

\* The first element of a list and the rest.
LEMMA HeadTail ==
  ASSUME NEW S, NEW s \in Seq(S), s # <<>>
  PROVE  /\ Head(s) \in S /\ Head(s) = s[1]
         /\ Tail(s) \in Seq(S) /\ Len(Tail(s)) = Len(s) - 1 /\ Len(s) >= 1
         /\ \A i \in 1 .. Len(s) - 1 : Tail(s)[i] = s[i + 1]
  OBVIOUS

\* A list with one more element.
LEMMA AppendOne ==
  ASSUME NEW S, NEW s \in Seq(S), NEW x \in S
  PROVE  /\ Append(s, x) \in Seq(S) /\ Len(Append(s, x)) = Len(s) + 1
         /\ \A i \in 1 .. Len(s) : Append(s, x)[i] = s[i]
         /\ Append(s, x)[Len(s) + 1] = x
  OBVIOUS

\* The fields of a Partial.
LEMMA PartialType ==
  ASSUME NEW p \in Partials
  PROVE  p.final \in BOOLEAN /\ p.tick \in 1 .. MaxTicks + 1 /\ p.total \in Nat
<1>1. p.final \in BOOLEAN
  BY Zenon DEF Partials
<1>2. p.tick \in 1 .. MaxTicks + 1 /\ p.total \in Counts \cup {0}
  BY DEF Partials
<1>3. \A n \in Counts \cup {0} : n \in Nat
  BY DispatchAssumption
<1> QED BY <1>1, <1>2, <1>3, Zenon

\* At the start nothing is taken and nothing filed.
LEMMA InvInit == Init => FeedInv
<1> SUFFICES ASSUME Init PROVE FeedInv
  OBVIOUS
<1> DEFINE zero == [w \in Workers |-> 0]
<1> USE DispatchAssumption DEF Init
<1>1. CoordTypeOK
  <2>1. dpc = "idle" /\ fleet = {} /\ emitted = <<>> /\ inFlight = FALSE /\ cancelled = FALSE
    OBVIOUS
  <2>2. DOMAIN perTick = Ticks /\ \A n \in Ticks : perTick[n] = NoReports
    OBVIOUS
  <2>3. DOMAIN summary = {"finished", "lost", "completed", "aborted"}
    BY DEF NoSummary
  <2>4. inFlight \in BOOLEAN /\ cancelled \in BOOLEAN
    BY <2>1, Zenon
  <2> HIDE DEF Init
  <2> QED BY <2>1, <2>2, <2>3, <2>4 DEF CoordTypeOK, NoReports
<1>2. TaskTypeOK
  BY DEF TaskTypeOK
<1>3. NetTypeOK
  BY DEF NetTypeOK
<1>4. NodeTypeOK
  BY DEF NodeTypeOK
<1>5. EnvTypeOK
  <2>1. acked \in BOOLEAN
    BY Zenon
  <2>2. aborts = 0 /\ crashes = 0 /\ breaks = 0 /\ atAbort = 0 /\ Len(emitted) = 0
    OBVIOUS
  <2> HIDE DEF Init
  <2> QED BY <2>1, <2>2 DEF EnvTypeOK
<1>6. EarlyInv
  BY DEF EarlyInv, Aggregating
<1>7. EmittedInv
  BY DEF EmittedInv
<1>8. StreamInv(zero)
  BY DEF StreamInv, Continues, Dispatched
<1>9. Inv(zero, zero)
  BY <1>1, <1>2, <1>3, <1>4, <1>5, <1>6, <1>7, <1>8 DEF Inv, TypeOK, Aggregating
<1> QED
  BY <1>9, zero \in [Workers -> Nat] DEF FeedInv

(***************************************************************************)
(* The types.                                                              *)
(***************************************************************************)

\* What a failing stream still delivers is a prefix of it.
LEMMA SuffixLost ==
  ASSUME NEW w \in Workers, stream \in [Workers -> Seq(Partials)], LoseSuffix(w)
  PROVE  /\ stream' \in [Workers -> Seq(Partials)]
         /\ \A x \in Workers : x # w => stream'[x] = stream[x]
         /\ Len(stream'[w]) <= Len(stream[w])
         /\ \A i \in 1 .. Len(stream'[w]) : stream'[w][i] = stream[w][i]
<1>1. PICK k \in 0 .. Len(stream[w]) : stream' = [stream EXCEPT ![w] = SubSeq(@, 1, k)]
  BY DEF LoseSuffix
<1>2. SubSeq(stream[w], 1, k) \in Seq(Partials) /\ Len(SubSeq(stream[w], 1, k)) = k
      /\ \A i \in 1 .. k : SubSeq(stream[w], 1, k)[i] = stream[w][i]
  OBVIOUS
<1> QED BY <1>1, <1>2

\* Every step keeps the types.
LEMMA TypeNext ==
  ASSUME NEW filed \in [Workers -> Nat], NEW taken \in [Workers -> Nat],
         Inv(filed, taken), [Next]_vars
  PROVE  TypeOK'
<1> USE DispatchAssumption DEF Inv, TypeOK, CoordTypeOK, TaskTypeOK, NetTypeOK, NodeTypeOK,
        EnvTypeOK, coordVars, taskVars, netVars, nodeVars, envVars
<1>1. ASSUME NEW S \in SUBSET Workers, ListWorkers(S) PROVE TypeOK'
  BY <1>1 DEF ListWorkers, EarlyInv, Early, NoReports
<1>2. CASE RegisterRun
  BY <1>2 DEF RegisterRun
<1>3. CASE Aggregate
  <2> DEFINE w     == Head(queue).worker
             p     == Head(queue).partial
             entry == Insert(perTick[p.tick], w, p.total)
  <2>0. /\ Aggregating /\ queue # <<>> /\ dpc' = "aggregating"
        /\ UNCHANGED <<fleet, inFlight, cancelled, summary>>
    BY <1>3 DEF Aggregate, Aggregating
  <2>p. w \in fleet /\ w \in Workers /\ p \in Partials
    <3>1. Head(queue) \in [worker : fleet, partial : Partials]
      BY <2>0, HeadTail
    <3> QED BY <3>1
  <2>1. CoordTypeOK'
    <3>1. CASE UNCHANGED <<perTick, emitted>>
      BY <2>0, <3>1
    <3>2. CASE /\ ~p.final
               /\ \/ perTick' = [perTick EXCEPT ![p.tick] = entry] /\ UNCHANGED emitted
                  \/ /\ perTick' = [perTick EXCEPT ![p.tick] = NoReports]
                     /\ emitted' = Append(emitted, AggregateTick(p.tick, entry))
      <4>1. p.tick \in Ticks /\ p.total \in Counts
        <5>1. Genuine(produced[w], conn[w], p)
          <6>1. 1 \in 1 .. Len(queue) /\ Head(queue) = queue[1]
            BY <2>0, HeadTail
          <6> QED BY <2>0, <6>1 DEF AggregatorInv, Queued, Pending
        <5>2. p.tick \in 1 .. Len(produced[w]) /\ p.total = produced[w][p.tick]
          BY <5>1, <3>2 DEF Genuine
        <5>3. produced[w] \in Seq(Counts) /\ Len(produced[w]) <= MaxTicks
          BY <2>p DEF StreamInv, Continues
        <5>n. Len(produced[w]) \in Nat
          BY <5>3
        <5>4. p.tick \in 1 .. MaxTicks
          BY <5>2, <5>3, <5>n
        <5>5. produced[w][p.tick] \in Counts
          BY <5>2, <5>3
        <5> QED BY <5>2, <5>4, <5>5 DEF Ticks
      <4>2. DOMAIN entry \subseteq fleet /\ \A x \in DOMAIN entry : entry[x] \in Counts
        BY <4>1, <2>p DEF Insert
      <4>3. \A i \in 1 .. Len(emitted') : emitted'[i].elapsed_s \in Ticks
        <5>1. PICK S : emitted \in Seq(S)
          BY DEF EmittedInv
        <5> DEFINE a == AggregateTick(p.tick, entry)
        <5>2. a.elapsed_s \in Ticks
          BY <4>1 DEF AggregateTick
        <5>3. emitted \in Seq(S \cup {a})
          BY <5>1
        <5> HIDE DEF a
        <5>4. CASE emitted' = Append(emitted, a)
          BY <5>2, <5>3, <5>4
        <5> QED BY <3>2, <5>4 DEF a
      <4>4. DOMAIN perTick' = Ticks /\ \A n \in Ticks :
              /\ DOMAIN perTick'[n] \subseteq fleet
              /\ \A x \in DOMAIN perTick'[n] : perTick'[n][x] \in Counts
        <5>1. DOMAIN NoReports = {}
          BY DEF NoReports
        <5>2. PICK e2 : /\ perTick' = [perTick EXCEPT ![p.tick] = e2]
                        /\ DOMAIN e2 \subseteq fleet
                        /\ \A x \in DOMAIN e2 : e2[x] \in Counts
          BY <3>2, <4>2, <5>1
        <5> HIDE DEF entry, p
        <5> QED BY <4>1, <5>2
      <4> QED BY <2>0, <4>3, <4>4
    <3> QED BY <1>3, <3>1, <3>2 DEF Aggregate
  <2>2. TaskTypeOK'
    BY <1>3 DEF Aggregate
  <2>3. NetTypeOK'
    BY <1>3 DEF Aggregate
  <2>4. NodeTypeOK'
    BY <1>3 DEF Aggregate
  <2>5. EnvTypeOK'
    <3>1. Len(emitted') \in Nat /\ Len(emitted) <= Len(emitted') /\ Len(emitted) \in Nat
      <4>1. PICK S : emitted \in Seq(S)
        BY DEF EmittedInv
      <4>2. emitted' = emitted \/ \E a : emitted' = Append(emitted, a)
        BY <1>3 DEF Aggregate
      <4>3. ASSUME NEW a, emitted' = Append(emitted, a)
            PROVE  Len(emitted') = Len(emitted) + 1
        <5>1. emitted \in Seq(S \cup {a}) /\ a \in S \cup {a}
          BY <4>1
        <5> QED BY <4>3, <5>1, AppendOne
      <4>4. Len(emitted) \in Nat
        BY <4>1
      <4> QED BY <4>2, <4>3, <4>4
    <3>2. atAbort' = atAbort /\ UNCHANGED <<acked, aborts, crashes, breaks>>
      BY <1>3 DEF Aggregate
    <3> HIDE DEF CoordTypeOK, TaskTypeOK, NetTypeOK, NodeTypeOK
    <3> QED BY <3>1, <3>2
  <2> QED BY <2>1, <2>2, <2>3, <2>4, <2>5
<1>4. CASE PollToken \/ SelectWaits
  BY <1>4 DEF PollToken, SelectWaits
<1>22. CASE LeaveAggregation
  <2>1. /\ dpc' = "joining" /\ queue' = <<>>
        /\ UNCHANGED <<fleet, inFlight, cancelled, perTick, cum, emitted, summary, task, wsum>>
        /\ UNCHANGED <<netVars, nodeVars, envVars>>
    BY <1>22 DEF LeaveAggregation
  <2> QED BY <2>1
<1>5. CASE JoinTasks
  BY <1>5 DEF JoinTasks
<1>6. CASE DeregisterRun
  BY <1>6 DEF DeregisterRun
<1>7. ASSUME NEW w \in Workers, DialFails(w) PROVE TypeOK'
  <2>1. CoordTypeOK' /\ TaskTypeOK' /\ NetTypeOK' /\ NodeTypeOK'
    BY <1>7 DEF DialFails
  <2>2. breaks' \in {breaks, breaks + 1} /\ breaks' \in 0 .. MaxFaults
    BY <1>7, DispatchAssumption DEF DialFails
  <2>3. EnvTypeOK'
    BY <1>7, <2>2 DEF DialFails
  <2> QED BY <2>1, <2>3
<1>8. ASSUME NEW w \in Workers, RejectSlice(w) PROVE TypeOK'
  BY <1>8 DEF RejectSlice
<1>9. ASSUME NEW w \in Workers, RunSlice(w) PROVE TypeOK'
  BY <1>9 DEF RunSlice
<1>10. ASSUME NEW w \in Workers, NEW c \in Counts, EngineTick(w, c) PROVE TypeOK'
  <2>1. CoordTypeOK'
    BY <1>10 DEF EngineTick, PartialOf, Partials
  <2>2. TaskTypeOK'
    BY <1>10 DEF EngineTick, PartialOf, Partials
  <2>3. NetTypeOK'
    <3>1. Len(produced[w]) + 1 \in 1 .. MaxTicks + 1
      BY <1>10 DEF EngineTick
    <3>2. PartialOf(Len(produced[w]) + 1, c) \in Partials
      BY <3>1 DEF PartialOf, Partials
    <3>3. Append(stream[w], PartialOf(Len(produced[w]) + 1, c)) \in Seq(Partials)
      BY <3>2
    <3> QED BY <1>10, <3>3 DEF EngineTick
  <2>4. NodeTypeOK'
    <3>1. /\ produced' = [produced EXCEPT ![w] = Append(@, c)]
          /\ UNCHANGED <<alive, specValid, engine, token>>
          /\ Len(produced[w]) < MaxTicks
      BY <1>10 DEF EngineTick
    <3> QED BY <3>1
  <2>5. EnvTypeOK'
    BY <1>10 DEF EngineTick
  <2> QED BY <2>1, <2>2, <2>3, <2>4, <2>5
<1>11. ASSUME NEW w \in Workers, EngineStops(w) PROVE TypeOK'
  BY <1>11 DEF EngineStops
<1>12. ASSUME NEW w \in Workers, SliceEnds(w) PROVE TypeOK'
  <2>1. CoordTypeOK'
    BY <1>12 DEF SliceEnds, FinalPartial, Partials, StreamInv
  <2>2. TaskTypeOK'
    BY <1>12 DEF SliceEnds, FinalPartial, Partials, StreamInv
  <2>3. NetTypeOK'
    <3>1. Len(produced[w]) + 1 \in 1 .. MaxTicks + 1
      BY DEF StreamInv, Continues
    <3>2. FinalPartial(Len(produced[w]) + 1) \in Partials
      BY <3>1 DEF FinalPartial, Partials
    <3>3. Append(stream[w], FinalPartial(Len(produced[w]) + 1)) \in Seq(Partials)
      BY <3>2
    <3> QED BY <1>12, <3>3 DEF SliceEnds
  <2>4. NodeTypeOK'
    BY <1>12 DEF SliceEnds, FinalPartial, Partials, StreamInv
  <2>5. EnvTypeOK'
    BY <1>12 DEF SliceEnds, FinalPartial, Partials, StreamInv
  <2> QED BY <2>1, <2>2, <2>3, <2>4, <2>5
<1>13. ASSUME NEW w \in Workers, ReceivePartial(w) PROVE TypeOK'
  <2>1. CoordTypeOK'
    BY <1>13 DEF ReceivePartial, Observe, Partials, StreamInv
  <2> DEFINE p == Head(stream[w])
  <2>0. stream[w] # <<>> /\ stream[w] \in Seq(Partials) /\ w \in fleet
    BY <1>13 DEF ReceivePartial, StreamInv, Dispatched
  <2>p. p \in Partials /\ Tail(stream[w]) \in Seq(Partials)
    BY <2>0
  <2>2. TaskTypeOK'
    <3>1. p.final \in BOOLEAN /\ p.total \in Nat
      BY <2>p, PartialType
    <3>2. Observe(wsum[w], p) \in [finished : BOOLEAN, completed : Nat]
      BY <3>1 DEF Observe
    <3>3. wsum' \in [Workers -> [finished : BOOLEAN, completed : Nat]]
      BY <1>13, <3>2 DEF ReceivePartial
    <3>4. queue' \in Seq([worker : fleet, partial : Partials])
      <4> DEFINE R == [worker : fleet, partial : Partials]
                 item == [worker |-> w, partial |-> p]
      <4>1. item \in R /\ queue \in Seq(R)
        BY <2>0, <2>p
      <4>2. queue' = Append(queue, item) \/ queue' = queue
        BY <1>13 DEF ReceivePartial
      <4> HIDE DEF item, R
      <4>3. Append(queue, item) \in Seq(R)
        BY <4>1, AppendOne
      <4>4. queue' \in Seq(R)
        BY <4>1, <4>2, <4>3, Zenon
      <4> QED BY <4>4 DEF R
    <3> QED BY <1>13, <3>3, <3>4 DEF ReceivePartial
  <2>3. NetTypeOK'
    BY <1>13, <2>p DEF ReceivePartial
  <2>4. NodeTypeOK'
    BY <1>13 DEF ReceivePartial, Observe, Partials, StreamInv
  <2>5. EnvTypeOK'
    BY <1>13 DEF ReceivePartial, Observe, Partials, StreamInv
  <2> QED BY <2>1, <2>2, <2>3, <2>4, <2>5
<1>14. ASSUME NEW w \in Workers, StreamEnds(w) PROVE TypeOK'
  BY <1>14 DEF StreamEnds
<1>15. CASE AbortRun
  <2>1. Len(emitted) \in Nat
    <3>1. PICK S : emitted \in Seq(S)
      BY DEF EmittedInv
    <3> QED BY <3>1
  <2>2. atAbort' \in 0 .. Len(emitted')
    BY <1>15, <2>1 DEF AbortRun
  <2> QED BY <1>15, <2>2 DEF AbortRun
<1>16. CASE AbortNotInFlight
  BY <1>16 DEF AbortNotInFlight
<1>17. ASSUME NEW w \in Workers, DeliverAbort(w) PROVE TypeOK'
  BY <1>17 DEF DeliverAbort
<1>18. ASSUME NEW w \in Workers, LoseAbort(w) PROVE TypeOK'
  <2>1. CoordTypeOK'
    BY <1>18 DEF LoseAbort
  <2>2. TaskTypeOK'
    BY <1>18 DEF LoseAbort
  <2>3. NetTypeOK'
    BY <1>18 DEF LoseAbort
  <2>4. NodeTypeOK'
    BY <1>18 DEF LoseAbort
  <2>5. EnvTypeOK'
    BY <1>18 DEF LoseAbort
  <2> QED BY <2>1, <2>2, <2>3, <2>4, <2>5
<1>19. ASSUME NEW w \in Workers, WorkerDies(w) PROVE TypeOK'
  <2>1. CoordTypeOK'
    BY <1>19, SuffixLost DEF WorkerDies
  <2>2. TaskTypeOK'
    BY <1>19, SuffixLost DEF WorkerDies
  <2>3. NetTypeOK'
    BY <1>19, SuffixLost DEF WorkerDies
  <2>4. NodeTypeOK'
    BY <1>19, SuffixLost DEF WorkerDies
  <2>5. EnvTypeOK'
    BY <1>19, SuffixLost DEF WorkerDies
  <2> QED BY <2>1, <2>2, <2>3, <2>4, <2>5
<1>20. ASSUME NEW w \in Workers, StreamBreaks(w) PROVE TypeOK'
  <2>1. CoordTypeOK'
    BY <1>20, SuffixLost DEF StreamBreaks
  <2>2. TaskTypeOK'
    BY <1>20, SuffixLost DEF StreamBreaks
  <2>3. NetTypeOK'
    BY <1>20, SuffixLost DEF StreamBreaks
  <2>4. NodeTypeOK'
    BY <1>20, SuffixLost DEF StreamBreaks
  <2>5. EnvTypeOK'
    BY <1>20, SuffixLost DEF StreamBreaks
  <2> QED BY <2>1, <2>2, <2>3, <2>4, <2>5
<1>21. CASE UNCHANGED vars
  BY <1>21 DEF vars
<1> QED
  BY <1>1, <1>2, <1>3, <1>4, <1>5, <1>6, <1>7, <1>8, <1>9, <1>10, <1>11, <1>12, <1>13,
     <1>14, <1>15, <1>16, <1>17, <1>18, <1>19, <1>20, <1>21, <1>22
  DEF Next, Coordinator, AggregateLoop, Task, Node, Abort, Failure, Quiet

(***************************************************************************)
(* The streams.                                                            *)
(***************************************************************************)

\* A report of a worker stays one when the worker goes on.
LEMMA GenuineGrows ==
  ASSUME NEW s \in Seq(Counts), NEW c \in Counts, NEW p, Genuine(s, "open", p)
  PROVE  Genuine(Append(s, c), "open", p)
  BY AppendOne DEF Genuine

\* It stays one when the connection ends.
LEMMA GenuineCloses ==
  ASSUME NEW s, NEW c, NEW d, NEW p, Genuine(s, c, p), c = "open" \/ d # "open"
  PROVE  Genuine(s, d, p)
  BY DEF Genuine

\* The stream goes on with the next second.
LEMMA ContinuesTick ==
  ASSUME NEW k \in Nat, NEW q \in Seq(Partials), NEW s \in Seq(Counts), NEW c \in Counts,
         Len(s) < MaxTicks, Continues(k, q, s, "open")
  PROVE  Continues(k, Append(q, PartialOf(Len(s) + 1, c)), Append(s, c), "open")
<1> DEFINE p == PartialOf(Len(s) + 1, c)
           t == Append(s, c)
<1> USE DispatchAssumption
<1>1. p \in Partials
  BY DEF PartialOf, Partials
<1>2. p.tick = Len(s) + 1 /\ Genuine(t, "open", p)
  BY AppendOne DEF Genuine, PartialOf
<1>3. \A i \in 1 .. Len(q) : q[i].tick = k + i /\ Genuine(t, "open", q[i])
  BY GenuineGrows DEF Continues
<1>4. k + Len(q) = Len(s) /\ Len(s) <= MaxTicks
  BY DEF Continues
<1>8. Len(t) = Len(s) + 1
  BY AppendOne
<1> HIDE DEF p, t
<1> DEFINE r == Append(q, p)
<1>5. /\ Len(r) = Len(q) + 1 /\ r[Len(q) + 1] = p
      /\ \A i \in 1 .. Len(q) : r[i] = q[i]
  BY <1>1, AppendOne
<1> HIDE DEF r
<1>6. \A i \in 1 .. Len(r) : r[i].tick = k + i /\ Genuine(t, "open", r[i])
  <2> SUFFICES ASSUME NEW i \in 1 .. Len(r) PROVE r[i].tick = k + i /\ Genuine(t, "open", r[i])
    OBVIOUS
  <2>1. CASE i \in 1 .. Len(q)
    BY <2>1, <1>3, <1>5
  <2>2. CASE i = Len(q) + 1
    <3>1. r[i] = p /\ Len(s) + 1 = k + i
      BY <2>2, <1>4, <1>5
    <3> QED BY <3>1, <1>2
  <2> QED BY <2>1, <2>2, <1>5
<1>7. Continues(k, r, t, "open")
  <2>1. Len(t) <= MaxTicks /\ k + Len(r) = Len(t)
    BY <1>4, <1>5, <1>8
  <2> QED BY <2>1, <1>6 DEF Continues
<1> QED
  BY <1>7 DEF r, p, t

\* Its last element is the final Partial.
LEMMA ContinuesEnd ==
  ASSUME NEW k \in Nat, NEW q \in Seq(Partials), NEW s \in Seq(Counts),
         Continues(k, q, s, "open")
  PROVE  Continues(k, Append(q, FinalPartial(Len(s) + 1)), s, "ended")
<1> DEFINE p == FinalPartial(Len(s) + 1)
<1> USE DispatchAssumption
<1>1. p \in Partials
  BY DEF FinalPartial, Partials, Continues
<1>2. p.tick = Len(s) + 1 /\ Genuine(s, "ended", p)
  BY DEF Genuine, FinalPartial
<1>3. \A i \in 1 .. Len(q) : q[i].tick = k + i /\ Genuine(s, "ended", q[i])
  BY GenuineCloses DEF Continues
<1>4. k + Len(q) = Len(s) /\ Len(s) <= MaxTicks
  BY DEF Continues
<1> HIDE DEF p
<1> DEFINE r == Append(q, p)
<1>5. /\ Len(r) = Len(q) + 1 /\ r[Len(q) + 1] = p
      /\ \A i \in 1 .. Len(q) : r[i] = q[i]
  BY <1>1, AppendOne
<1> HIDE DEF r
<1>6. \A i \in 1 .. Len(r) : r[i].tick = k + i /\ Genuine(s, "ended", r[i])
  <2> SUFFICES ASSUME NEW i \in 1 .. Len(r) PROVE r[i].tick = k + i /\ Genuine(s, "ended", r[i])
    OBVIOUS
  <2>1. i \in 1 .. Len(q) \/ i = Len(q) + 1
    BY <1>5
  <2>2. CASE i \in 1 .. Len(q)
    BY <1>3, <1>5, <2>2
  <2>3. CASE i = Len(q) + 1
    <3>1. k + i = Len(s) + 1 /\ r[i] = p
      BY <1>4, <1>5, <2>3
    <3> QED BY <1>2, <3>1
  <2> QED BY <2>1, <2>2, <2>3
<1>7. Continues(k, r, s, "ended")
  BY <1>4, <1>5, <1>6, AppendOne DEF Continues
<1> QED
  BY <1>7 DEF r, p

\* What is read from the stream is the second after those taken.
LEMMA ContinuesRead ==
  ASSUME NEW k \in Nat, NEW q \in Seq(Partials), NEW s \in Seq(Counts), NEW c,
         q # <<>>, Continues(k, q, s, c)
  PROVE  /\ Continues(k + 1, Tail(q), s, c)
         /\ Head(q).tick = k + 1 /\ Genuine(s, c, Head(q)) /\ k <= Len(s)
<1> DEFINE r == Tail(q)
<1>1. /\ Len(r) = Len(q) - 1 /\ Len(q) >= 1 /\ Head(q) = q[1]
      /\ \A i \in 1 .. Len(r) : r[i] = q[i + 1]
  BY HeadTail
<1> HIDE DEF r
<1>2. Head(q).tick = k + 1 /\ Genuine(s, c, Head(q)) /\ k <= Len(s)
  BY <1>1 DEF Continues
<1>3. \A i \in 1 .. Len(r) : r[i].tick = k + 1 + i /\ Genuine(s, c, r[i])
  <2> SUFFICES ASSUME NEW i \in 1 .. Len(r)
               PROVE  q[i + 1].tick = k + 1 + i /\ Genuine(s, c, q[i + 1])
    BY <1>1
  <2>1. i + 1 \in 1 .. Len(q)
    BY <1>1
  <2>2. q[i + 1].tick = k + (i + 1) /\ Genuine(s, c, q[i + 1])
    BY <2>1 DEF Continues
  <2> QED BY <2>2
<1>4. Continues(k + 1, r, s, c)
  <2>1. c # "idle" /\ k \in Nat /\ Len(q) \in Nat /\ Len(s) \in Nat
    BY DEF Continues
  <2>2. /\ Len(s) <= MaxTicks /\ k + Len(q) <= Len(s) + 1
        /\ c = "open" => k + Len(q) = Len(s)
    BY DEF Continues
  <2>3. (k + 1) + Len(r) = k + Len(q)
    BY <1>1, <2>1
  <2> QED
    BY <1>3, <2>1, <2>2, <2>3 DEF Continues
<1> QED
  BY <1>2, <1>4 DEF r

\* A stream that breaks loses its last elements only.
LEMMA ContinuesBreak ==
  ASSUME NEW k \in Nat, NEW q \in Seq(Partials), NEW s \in Seq(Counts), NEW c,
         NEW j \in 0 .. Len(q), Continues(k, q, s, c)
  PROVE  Continues(k, SubSeq(q, 1, j), s, "broken")
<1>1. Len(SubSeq(q, 1, j)) = j /\ \A i \in 1 .. j : SubSeq(q, 1, j)[i] = q[i]
  OBVIOUS
<1>2. \A i \in 1 .. j : q[i].tick = k + i /\ Genuine(s, "broken", q[i])
  BY GenuineCloses DEF Continues
<1>3. Len(s) <= MaxTicks /\ k + j <= Len(s) + 1
  <2>1. Len(s) <= MaxTicks /\ k + Len(q) <= Len(s) + 1 /\ j \in Nat /\ j <= Len(q)
    BY DEF Continues
  <2> QED
    BY <2>1
<1> DEFINE r == SubSeq(q, 1, j)
<1>4. Len(r) = j /\ \A i \in 1 .. Len(r) : r[i].tick = k + i /\ Genuine(s, "broken", r[i])
  BY <1>1, <1>2
<1> HIDE DEF r
<1>5. Continues(k, r, s, "broken")
  BY <1>3, <1>4 DEF Continues
<1> QED
  BY <1>5 DEF r

\* A stream that is opened has nothing in it yet.
LEMMA ContinuesOpen ==
  ASSUME NEW k, NEW q, NEW s, Continues(k, q, s, "idle")
  PROVE  Continues(k, q, s, "open")
  BY DEF Continues

\* ReceivePartial reads one Partial; every other step leaves taken alone.
Receives == \E w \in Workers : ReceivePartial(w)

\* A worker's stream goes on where its task has stopped reading.
LEMMA StreamNext ==
  ASSUME NEW filed \in [Workers -> Nat], NEW taken \in [Workers -> Nat],
         Inv(filed, taken), [Next]_vars
  PROVE  /\ \A w \in Workers : ReceivePartial(w) => StreamInv([taken EXCEPT ![w] = @ + 1])'
         /\ Receives \/ StreamInv(taken)'
<1> USE DispatchAssumption
<1>t. /\ task \in [Workers -> {"none", "connecting", "streaming", "done"}]
      /\ conn \in [Workers -> {"idle", "open", "ended", "broken"}]
      /\ stream \in [Workers -> Seq(Partials)]
      /\ produced \in [Workers -> Seq(Counts)]
  BY DEF Inv, TypeOK, TaskTypeOK, NetTypeOK, NodeTypeOK
<1>s. \A x \in Workers : /\ Continues(taken[x], stream[x], produced[x], conn[x])
                         /\ Dispatched(task[x], conn[x], x \in fleet)
  BY DEF Inv, StreamInv
<1> USE <1>t DEF taskVars, netVars, nodeVars, coordVars
<1>g. ASSUME fleet' = fleet, UNCHANGED <<stream, produced, conn, task>> PROVE StreamInv(taken)'
  BY <1>g, <1>s DEF StreamInv
<1>1. ASSUME NEW S \in SUBSET Workers, ListWorkers(S) PROVE StreamInv(taken)'
  <2>1. UNCHANGED <<stream, produced, conn, task>> /\ \A x \in Workers : task[x] = "none"
    BY <1>1 DEF ListWorkers, Inv, EarlyInv, Early
  <2> QED BY <1>s, <2>1 DEF StreamInv, Dispatched
<1>2. ASSUME RegisterRun PROVE StreamInv(taken)'
  <2>1. /\ fleet' = fleet /\ UNCHANGED <<stream, produced, conn>>
        /\ task' = [w \in Workers |-> IF w \in fleet THEN "connecting" ELSE "none"]
        /\ \A x \in Workers : task[x] = "none"
    BY <1>2 DEF RegisterRun, Inv, EarlyInv, Early
  <2>2. \A x \in Workers : conn[x] = "idle" /\ (task'[x] # "none" => x \in fleet)
    BY <1>s, <2>1 DEF Dispatched
  <2>3. \A x \in Workers : Dispatched(task'[x], conn[x], x \in fleet)
    BY <2>2 DEF Dispatched
  <2> QED BY <1>s, <2>1, <2>3 DEF StreamInv
<1>3. ASSUME NEW w \in Workers, DialFails(w) \/ RejectSlice(w) \/ StreamEnds(w)
      PROVE  StreamInv(taken)'
  <2>1. /\ fleet' = fleet /\ UNCHANGED <<stream, produced, conn>>
        /\ task' = [task EXCEPT ![w] = "done"] /\ task[w] # "none"
    BY <1>3 DEF DialFails, RejectSlice, StreamEnds
  <2> QED BY <1>s, <2>1 DEF StreamInv, Dispatched
<1>4. ASSUME NEW w \in Workers, RunSlice(w) PROVE StreamInv(taken)'
  <2>1. /\ fleet' = fleet /\ UNCHANGED <<stream, produced>> /\ task[w] = "connecting"
        /\ task' = [task EXCEPT ![w] = "streaming"] /\ conn' = [conn EXCEPT ![w] = "open"]
    BY <1>4 DEF RunSlice
  <2>2. conn[w] = "idle" /\ w \in fleet
    BY <1>s, <2>1 DEF Dispatched
  <2>3. Continues(taken[w], stream[w], produced[w], "open")
    BY <1>s, <2>2, ContinuesOpen
  <2> QED BY <1>s, <2>1, <2>2, <2>3 DEF StreamInv, Dispatched
<1>5. ASSUME NEW w \in Workers, NEW c \in Counts, EngineTick(w, c) PROVE StreamInv(taken)'
  <2>1. /\ conn[w] = "open" /\ Len(produced[w]) < MaxTicks
        /\ fleet' = fleet /\ conn' = conn /\ task' = task
        /\ produced' = [produced EXCEPT ![w] = Append(@, c)]
        /\ stream' = [stream EXCEPT ![w] = Append(@, PartialOf(Len(produced[w]) + 1, c))]
    BY <1>5 DEF EngineTick
  <2>2. Continues(taken[w], stream'[w], produced'[w], "open")
    BY <1>s, <2>1, ContinuesTick
  <2> QED BY <1>s, <2>1, <2>2 DEF StreamInv
<1>6. ASSUME NEW w \in Workers, SliceEnds(w) PROVE StreamInv(taken)'
  <2>1. /\ conn[w] = "open" /\ fleet' = fleet /\ conn' = [conn EXCEPT ![w] = "ended"]
        /\ task' = task /\ produced' = produced
        /\ stream' = [stream EXCEPT ![w] = Append(@, FinalPartial(Len(produced[w]) + 1))]
    BY <1>6 DEF SliceEnds
  <2>2. Continues(taken[w], stream'[w], produced'[w], "ended")
    BY <1>s, <2>1, ContinuesEnd
  <2> QED BY <1>s, <2>1, <2>2 DEF StreamInv, Dispatched
<1>7. ASSUME NEW w \in Workers, ReceivePartial(w)
      PROVE  StreamInv([taken EXCEPT ![w] = @ + 1])'
  <2>1. /\ stream[w] # <<>> /\ stream' = [stream EXCEPT ![w] = Tail(@)]
        /\ fleet' = fleet /\ UNCHANGED <<produced, conn, task>>
    BY <1>7 DEF ReceivePartial
  <2>2. Continues(taken[w] + 1, stream'[w], produced'[w], conn'[w])
    BY <1>s, <2>1, ContinuesRead
  <2> QED BY <1>s, <2>1, <2>2 DEF StreamInv
<1>8. ASSUME NEW w \in Workers, WorkerDies(w) \/ StreamBreaks(w) PROVE StreamInv(taken)'
  <2>1. fleet' = fleet /\ UNCHANGED <<produced, task>>
    BY <1>8 DEF WorkerDies, StreamBreaks
  <2>2. CASE UNCHANGED <<conn, stream>>
    BY <1>g, <2>1, <2>2
  <2>3. CASE conn[w] \in {"open", "ended"} /\ conn' = [conn EXCEPT ![w] = "broken"] /\ LoseSuffix(w)
    <3>1. PICK j \in 0 .. Len(stream[w]) : stream' = [stream EXCEPT ![w] = SubSeq(@, 1, j)]
      BY <2>3 DEF LoseSuffix
    <3>2. Continues(taken[w], stream'[w], produced'[w], "broken")
      BY <1>s, <2>1, <3>1, ContinuesBreak
    <3> QED BY <1>s, <2>1, <2>3, <3>1, <3>2 DEF StreamInv, Dispatched
  <2> QED BY <1>8, <2>2, <2>3 DEF WorkerDies, StreamBreaks
<1>9. ASSUME Aggregate \/ PollToken \/ SelectWaits \/ LeaveAggregation \/ JoinTasks \/ DeregisterRun \/ AbortRun
             \/ AbortNotInFlight \/ UNCHANGED vars
      PROVE  StreamInv(taken)'
  <2>1. fleet' = fleet /\ UNCHANGED <<stream, produced, conn, task>>
    BY <1>9 DEF Aggregate, PollToken, SelectWaits, LeaveAggregation, JoinTasks, DeregisterRun,
       AbortRun, AbortNotInFlight, vars
  <2> QED BY <1>g, <2>1
<1>10. ASSUME NEW w \in Workers, EngineStops(w) \/ DeliverAbort(w) \/ LoseAbort(w)
       PROVE  StreamInv(taken)'
  BY <1>10, <1>g DEF EngineStops, DeliverAbort, LoseAbort
<1> QED
  BY <1>1, <1>2, <1>3, <1>4, <1>5, <1>6, <1>7, <1>8, <1>9, <1>10
  DEF Next, Coordinator, AggregateLoop, Task, Node, Abort, Failure, Quiet, Receives

(***************************************************************************)
(* The channel.                                                            *)
(***************************************************************************)

\* Names for what the lemmas below leave unexpanded.
Items(F) == [worker : F, partial : Partials]
AtHead(q, w, p) == w = Head(q).worker /\ p = Head(q).partial
IsNext(n, f, w) == n = f[w] + 1
IsSucc(n, m) == n = m + 1
Rest(q) == Tail(q)
Put(q, w, p) == Append(q, [worker |-> w, partial |-> p])
Bump(f, w) == [f EXCEPT ![w] = @ + 1]
Refile(pt, n, e) == [pt EXCEPT ![n] = e]
Reported(e, pt, n, w, pr) == e = Insert(pt[n], w, pr[w][n])
Whole(e, F, n, pr) == e = [x \in F |-> pr[x][n]]

\* The fields of what is in the channel.
LEMMA ItemType ==
  ASSUME NEW F \in SUBSET Workers, NEW q \in Seq(Items(F)), NEW i \in 1 .. Len(q)
  PROVE  q[i].worker \in F /\ q[i].partial \in Partials /\ q[i].partial.tick \in Nat
<1>1. q[i] \in Items(F)
  OBVIOUS
<1>2. q[i].worker \in F /\ q[i].partial \in Partials
  BY <1>1 DEF Items
<1>3. q[i].partial.tick \in Nat
  BY <1>2, PartialType, DispatchAssumption
<1> QED BY <1>2, <1>3

\* The aggregator takes the head, which is the next tick of its worker.
LEMMA QueuedTake ==
  ASSUME NEW F \in SUBSET Workers, NEW q \in Seq(Items(F)), q # <<>>,
         NEW f \in [Workers -> Nat], NEW k \in [Workers -> Nat],
         NEW pr \in [Workers -> Seq(Counts)], NEW cn,
         Queued(q, F, f, k, pr, cn),
         NEW w, NEW p, AtHead(q, w, p)
  PROVE  /\ w \in F /\ p \in Partials
         /\ IsNext(p.tick, f, w) /\ Genuine(pr[w], cn[w], p)
         /\ p.final => Queued(Rest(q), F, f, k, pr, cn)
         /\ ~p.final => Queued(Rest(q), F, Bump(f, w), k, pr, cn)
<1> DEFINE t == Rest(q)
<1>1. /\ Len(q) \in Nat /\ Len(q) >= 1 /\ w = q[1].worker /\ p = q[1].partial
      /\ Len(t) = Len(q) - 1
      /\ \A i \in 1 .. Len(q) - 1 : t[i] = q[i + 1]
  BY HeadTail DEF AtHead, Rest
<1> HIDE DEF t
<1>2. /\ w \in F /\ p \in Partials /\ p.tick \in Nat
      /\ w \in Workers /\ f[w] \in Nat /\ k[w] \in Nat /\ Len(pr[w]) \in Nat
  <2>1. 1 \in 1 .. Len(q)
    BY <1>1
  <2>2. w \in F /\ p \in Partials /\ p.tick \in Nat
    BY <1>1, <2>1, ItemType
  <2> QED BY <2>2
<1>3. f[w] < p.tick /\ p.tick <= k[w] /\ Genuine(pr[w], cn[w], p)
  BY <1>1 DEF Queued, Pending
<1>i. \A i \in 1 .. Len(q) : /\ q[i].worker \in F /\ q[i].partial.tick \in Nat
                             /\ f[q[i].worker] \in Nat /\ k[q[i].worker] \in Nat
  <2> SUFFICES ASSUME NEW i \in 1 .. Len(q)
               PROVE  /\ q[i].worker \in F /\ q[i].partial.tick \in Nat
                      /\ f[q[i].worker] \in Nat /\ k[q[i].worker] \in Nat
    OBVIOUS
  <2>1. q[i].worker \in F /\ q[i].partial.tick \in Nat
    BY ItemType
  <2> QED BY <2>1
<1>t. ASSUME NEW i \in 1 .. Len(t) PROVE i + 1 \in 1 .. Len(q) /\ t[i] = q[i + 1]
  BY <1>1
<1>u. ASSUME NEW i \in 1 .. Len(q), i # 1 PROVE i - 1 \in 1 .. Len(t) /\ t[i - 1] = q[i]
  <2>1. i - 1 \in 1 .. Len(q) - 1 /\ (i - 1) + 1 = i
    BY <1>1, <1>u
  <2> QED BY <1>1, <2>1
<1>later. ASSUME NEW i \in 1 .. Len(q), i # 1, q[i].worker = w PROVE p.tick < q[i].partial.tick
  BY <1>1, <1>later DEF Queued, InOrder
<1>4. p.tick <= Len(pr[w]) + 1
  <2>1. p.final \in BOOLEAN
    BY <1>2, PartialType
  <2>2. CASE p.final
    BY <1>2, <1>3, <2>2 DEF Genuine
  <2>3. CASE ~p.final
    BY <1>2, <1>3, <2>3 DEF Genuine
  <2> QED BY <2>1, <2>2, <2>3
<1>5. p.tick = f[w] + 1
  <2> SUFFICES ASSUME f[w] + 1 < p.tick PROVE FALSE
    BY <1>2, <1>3
  <2>1. f[w] + 1 \in Nat /\ f[w] < f[w] + 1 /\ f[w] + 1 <= k[w] /\ f[w] + 1 <= Len(pr[w])
    BY <1>2, <1>3, <1>4
  <2>2. PICK i \in 1 .. Len(q) : q[i].worker = w /\ q[i].partial.tick = f[w] + 1
    BY <1>2, <2>1 DEF Queued, NoneMissing
  <2>3. CASE i = 1
    BY <1>1, <1>2, <2>2, <2>3
  <2>4. CASE i # 1
    BY <1>later, <1>2, <2>2, <2>4
  <2> QED BY <2>3, <2>4
<1>6. InOrder(t)
  <2> SUFFICES ASSUME NEW i \in 1 .. Len(t), NEW j \in 1 .. Len(t), i < j,
                      t[i].worker = t[j].worker
               PROVE  t[i].partial.tick < t[j].partial.tick
    BY DEF InOrder
  <2>1. i + 1 \in 1 .. Len(q) /\ j + 1 \in 1 .. Len(q) /\ i + 1 < j + 1
        /\ t[i] = q[i + 1] /\ t[j] = q[j + 1]
    BY <1>t
  <2> QED BY <2>1 DEF Queued, InOrder
<1>7. ASSUME NEW g \in [Workers -> Nat], \A x \in F : x # w => g[x] = f[x],
             \A i \in 1 .. Len(t) : t[i].worker = w => g[w] < t[i].partial.tick
      PROVE  Pending(t, g, k, pr, cn)
  <2> SUFFICES ASSUME NEW i \in 1 .. Len(t)
               PROVE  /\ g[t[i].worker] < t[i].partial.tick
                      /\ t[i].partial.tick <= k[t[i].worker]
                      /\ Genuine(pr[t[i].worker], cn[t[i].worker], t[i].partial)
    BY DEF Pending
  <2>1. i + 1 \in 1 .. Len(q) /\ t[i] = q[i + 1] /\ t[i].worker \in F
    BY <1>t, <1>i
  <2>2. /\ f[t[i].worker] < t[i].partial.tick
        /\ t[i].partial.tick <= k[t[i].worker]
        /\ Genuine(pr[t[i].worker], cn[t[i].worker], t[i].partial)
    BY <2>1 DEF Queued, Pending
  <2>3. g[t[i].worker] < t[i].partial.tick
    BY <1>7, <2>1, <2>2
  <2> QED BY <2>2, <2>3
<1>8. ASSUME NEW g \in [Workers -> Nat], \A x \in F : f[x] <= g[x] /\ g[x] <= k[x],
             p.final \/ g[w] = p.tick
      PROVE  NoneMissing(t, F, g, k, pr)
  <2> SUFFICES ASSUME NEW x \in F, NEW n \in Nat, g[x] < n, n <= k[x], n <= Len(pr[x])
               PROVE  \E i \in 1 .. Len(t) : t[i].worker = x /\ t[i].partial.tick = n
    BY <1>8 DEF NoneMissing
  <2>1. f[x] \in Nat /\ g[x] \in Nat
    OBVIOUS
  <2>2. f[x] < n
    BY <1>8, <2>1
  <2>3. PICK i \in 1 .. Len(q) : q[i].worker = x /\ q[i].partial.tick = n
    BY <2>2 DEF Queued, NoneMissing
  <2>4. i # 1
    <3> SUFFICES ASSUME i = 1 PROVE FALSE
      OBVIOUS
    <3>1. x = w /\ n = p.tick
      BY <1>1, <2>3
    <3>2. CASE p.final
      BY <1>2, <1>3, <3>1, <3>2 DEF Genuine
    <3>3. CASE g[w] = p.tick
      BY <1>2, <3>1, <3>3
    <3> QED BY <1>8, <3>2, <3>3
  <2> QED BY <1>u, <2>3, <2>4
<1>9. ASSUME p.final PROVE Queued(t, F, f, k, pr, cn)
  <2>1. \A i \in 1 .. Len(t) : t[i].worker = w => f[w] < t[i].partial.tick
    BY <1>t DEF Queued, Pending
  <2>2. \A x \in F : f[x] <= f[x] /\ f[x] <= k[x]
    BY DEF Queued, NoneMissing
  <2> QED BY <1>6, <1>7, <1>8, <1>9, <2>1, <2>2 DEF Queued
<1>10. ASSUME ~p.final PROVE Queued(t, F, Bump(f, w), k, pr, cn)
  <2> DEFINE g == Bump(f, w)
  <2>1. g \in [Workers -> Nat] /\ g[w] = p.tick /\ \A x \in F : x # w => g[x] = f[x]
    BY <1>2, <1>5 DEF Bump
  <2> HIDE DEF g
  <2>2. \A x \in F : f[x] \in Nat /\ f[x] <= k[x]
    BY DEF Queued, NoneMissing
  <2>3. \A x \in F : f[x] <= g[x] /\ g[x] <= k[x]
    <3> SUFFICES ASSUME NEW x \in F PROVE f[x] <= g[x] /\ g[x] <= k[x]
      OBVIOUS
    <3>1. CASE x = w
      BY <1>2, <1>3, <1>5, <2>1, <3>1
    <3>2. CASE x # w
      BY <2>1, <2>2, <3>2
    <3> QED BY <3>1, <3>2
  <2>4. \A i \in 1 .. Len(t) : t[i].worker = w => g[w] < t[i].partial.tick
    <3> SUFFICES ASSUME NEW i \in 1 .. Len(t), t[i].worker = w PROVE p.tick < t[i].partial.tick
      BY <2>1
    <3>1. i + 1 \in 1 .. Len(q) /\ i + 1 # 1 /\ t[i] = q[i + 1]
      BY <1>t
    <3> QED BY <1>later, <3>1
  <2>5. Queued(t, F, g, k, pr, cn)
    BY <1>6, <1>7, <1>8, <2>1, <2>3, <2>4 DEF Queued
  <2> QED BY <2>5 DEF g
<1> QED
  BY <1>2, <1>3, <1>5, <1>9, <1>10 DEF t, IsNext

\* A task forwards the Partial it read.
LEMMA QueuedPut ==
  ASSUME NEW F \in SUBSET Workers, NEW q \in Seq(Items(F)),
         NEW f \in [Workers -> Nat], NEW k \in [Workers -> Nat],
         NEW pr \in [Workers -> Seq(Counts)], NEW cn,
         Queued(q, F, f, k, pr, cn),
         NEW w \in F, NEW p \in Partials, IsNext(p.tick, k, w), Genuine(pr[w], cn[w], p)
  PROVE  Queued(Put(q, w, p), F, f, Bump(k, w), pr, cn)
<1> DEFINE e == [worker |-> w, partial |-> p]
           r == Put(q, w, p)
           h == Bump(k, w)
<1>1. e \in Items(F) /\ e.worker = w /\ e.partial = p
  BY DEF Items
<1>0. p.tick = k[w] + 1
  BY DEF IsNext
<1> HIDE DEF e
<1>2. /\ Len(q) \in Nat /\ Len(r) = Len(q) + 1 /\ r[Len(q) + 1] = e
      /\ \A i \in 1 .. Len(q) : r[i] = q[i]
  <2>1. r = Append(q, e)
    BY DEF Put, e
  <2> HIDE DEF r
  <2> QED BY <1>1, <2>1, AppendOne
<1>3. h[w] = k[w] + 1 /\ \A x \in F : x # w => h[x] = k[x]
  BY DEF Bump
<1> HIDE DEF r, h
<1>4. \A x \in F : f[x] \in Nat /\ k[x] \in Nat /\ f[x] <= k[x]
  BY DEF Queued, NoneMissing
<1>i. \A i \in 1 .. Len(q) : q[i].worker \in F /\ q[i].partial.tick \in Nat
  BY ItemType
<1>5. \A x \in F : h[x] \in Nat /\ k[x] <= h[x]
  <2> SUFFICES ASSUME NEW x \in F PROVE h[x] \in Nat /\ k[x] <= h[x]
    OBVIOUS
  <2>1. h[x] = k[x] \/ h[x] = k[x] + 1
    BY <1>3
  <2>2. k[x] \in Nat
    BY <1>4
  <2> QED BY <2>1, <2>2
<1>6. Pending(r, f, h, pr, cn)
  <2> SUFFICES ASSUME NEW i \in 1 .. Len(r)
               PROVE  /\ f[r[i].worker] < r[i].partial.tick
                      /\ r[i].partial.tick <= h[r[i].worker]
                      /\ Genuine(pr[r[i].worker], cn[r[i].worker], r[i].partial)
    BY DEF Pending
  <2>1. CASE i \in 1 .. Len(q)
    <3>1. r[i] = q[i] /\ q[i].worker \in F /\ q[i].partial.tick \in Nat
      BY <1>2, <1>i, <2>1
    <3>2. /\ f[q[i].worker] < q[i].partial.tick
          /\ q[i].partial.tick <= k[q[i].worker]
          /\ Genuine(pr[q[i].worker], cn[q[i].worker], q[i].partial)
      BY <2>1 DEF Queued, Pending
    <3>3. /\ k[q[i].worker] \in Nat /\ h[q[i].worker] \in Nat
          /\ k[q[i].worker] <= h[q[i].worker]
      BY <1>4, <1>5, <3>1
    <3>4. q[i].partial.tick <= h[q[i].worker]
      BY <3>1, <3>2, <3>3
    <3> QED BY <3>1, <3>2, <3>4
  <2>2. CASE i = Len(q) + 1
    <3>1. r[i].worker = w /\ r[i].partial = p
      BY <1>1, <1>2, <2>2
    <3>2. f[w] < p.tick /\ p.tick <= h[w]
      BY <1>0, <1>3, <1>4
    <3> QED BY <3>1, <3>2
  <2> QED BY <1>2, <2>1, <2>2
<1>7. InOrder(r)
  <2> SUFFICES ASSUME NEW i \in 1 .. Len(r), NEW j \in 1 .. Len(r), i < j,
                      r[i].worker = r[j].worker
               PROVE  r[i].partial.tick < r[j].partial.tick
    BY DEF InOrder
  <2>1. i \in 1 .. Len(q) /\ r[i] = q[i]
    BY <1>2
  <2>4. j \in 1 .. Len(q) \/ j = Len(q) + 1
    BY <1>2
  <2>2. CASE j \in 1 .. Len(q)
    <3>1. r[j] = q[j]
      BY <1>2, <2>2
    <3> QED BY <2>1, <2>2, <3>1 DEF Queued, InOrder
  <2>3. CASE j = Len(q) + 1
    <3>1. r[j].worker = w /\ r[j].partial = p
      BY <1>1, <1>2, <2>3
    <3>2. q[i].worker = w /\ q[i].partial.tick <= k[w] /\ q[i].partial.tick \in Nat
      BY <1>i, <2>1, <3>1 DEF Queued, Pending
    <3> QED BY <1>0, <1>4, <2>1, <3>1, <3>2
  <2> QED BY <2>2, <2>3, <2>4
<1>8. NoneMissing(r, F, f, h, pr)
  <2>1. \A x \in F : f[x] <= h[x]
    BY <1>4, <1>5
  <2> SUFFICES ASSUME NEW x \in F, NEW n \in Nat, f[x] < n, n <= h[x], n <= Len(pr[x])
               PROVE  \E i \in 1 .. Len(r) : r[i].worker = x /\ r[i].partial.tick = n
    BY <2>1, ZenonT(30) DEF NoneMissing
  <2>3. CASE n <= k[x]
    <3>1. PICK i \in 1 .. Len(q) : q[i].worker = x /\ q[i].partial.tick = n
      BY <2>3 DEF Queued, NoneMissing
    <3>2. i \in 1 .. Len(r) /\ r[i] = q[i]
      BY <1>2
    <3> QED BY <3>1, <3>2
  <2>2. CASE ~(n <= k[x])
    <3>1. x = w /\ n = p.tick
      BY <1>0, <1>3, <1>4, <2>2
    <3>2. Len(q) + 1 \in 1 .. Len(r) /\ r[Len(q) + 1].worker = w /\ r[Len(q) + 1].partial = p
      BY <1>1, <1>2
    <3> QED BY <3>1, <3>2
  <2> QED BY <2>2, <2>3
<1>9. Queued(r, F, f, h, pr, cn)
  BY <1>6, <1>7, <1>8 DEF Queued
<1> QED
  BY <1>9 DEF r, h

\* The workers and the network may go on: every Partial in the channel stays true.
LEMMA QueuedStays ==
  ASSUME NEW F \in SUBSET Workers, NEW q \in Seq(Items(F)),
         NEW f \in [Workers -> Nat], NEW k \in [Workers -> Nat],
         NEW pr, NEW cn, NEW pr2, NEW cn2, Queued(q, F, f, k, pr, cn),
         \A w \in F, p \in Partials :
           p.tick <= k[w] /\ Genuine(pr[w], cn[w], p) => Genuine(pr2[w], cn2[w], p),
         \A w \in F, n \in Nat : n <= k[w] /\ n <= Len(pr2[w]) => n <= Len(pr[w])
  PROVE  Queued(q, F, f, k, pr2, cn2)
<1>1. Pending(q, f, k, pr2, cn2)
  BY ItemType DEF Queued, Pending
<1>2. NoneMissing(q, F, f, k, pr2)
  <2>1. NoneMissing(q, F, f, k, pr)
    BY DEF Queued
  <2> QED BY <2>1, SMTT(30) DEF NoneMissing
<1> QED
  BY <1>1, <1>2 DEF Queued

(***************************************************************************)
(* per_tick.                                                               *)
(***************************************************************************)

\* The entry a Partial is filed into is the worker's own second of whoever has
\* filed that second, and when it is complete it is the next one to publish.
LEMMA FileTick ==
  ASSUME NEW F \in SUBSET Workers, NEW f \in [Workers -> Nat], NEW m \in Nat,
         NEW pr \in [Workers -> Seq(Counts)], NEW pt, DOMAIN pt = Ticks,
         Filed(pt, m, F, f, pr), NEW w \in F, NEW n \in Ticks, IsNext(n, f, w), n <= Len(pr[w]),
         NEW entry, Reported(entry, pt, n, w, pr), NEW m2, IsSucc(m2, m)
  PROVE  /\ DOMAIN entry # F => Filed(Refile(pt, n, entry), m, F, Bump(f, w), pr)
         /\ DOMAIN entry = F =>
              /\ n = m2 /\ Whole(entry, F, n, pr)
              /\ Filed(Refile(pt, n, NoReports), m2, F, Bump(f, w), pr)
<1> DEFINE g == Bump(f, w)
<1>1. /\ g[w] = n /\ n = f[w] + 1 /\ f[w] = n - 1
      /\ (\A x \in F : x # w => g[x] = f[x]) /\ g \in [Workers -> Nat]
  BY DEF Bump, IsNext
<1> HIDE DEF g
<1>2. \A x \in F : f[x] \in Nat /\ g[x] \in Nat
  BY <1>1
<1>n. \A y \in Ticks : y \in Nat /\ y >= 1
  BY DispatchAssumption DEF Ticks
<1>3. \A x \in F : m <= f[x] /\ f[x] <= Len(pr[x])
  BY DEF Filed
<1>4. pt[n] = [x \in {y \in F : m < n /\ n <= f[y]} |-> pr[x][n]]
  BY DEF Filed
<1>5. entry = [x \in {y \in F : m < n /\ n <= g[y]} |-> pr[x][n]]
  <2>1. DOMAIN pt[n] = {y \in F : m < n /\ n <= f[y]}
    BY <1>4
  <2>2. DOMAIN pt[n] \cup {w} = {y \in F : m < n /\ n <= g[y]}
    BY <1>1, <1>2, <1>3, <1>n, <2>1
  <2>3. entry = [x \in DOMAIN pt[n] \cup {w} |-> IF x = w THEN pr[w][n] ELSE pt[n][x]]
    BY DEF Insert, Reported
  <2>4. \A x \in DOMAIN pt[n] \cup {w} : (IF x = w THEN pr[w][n] ELSE pt[n][x]) = pr[x][n]
    BY <1>4, <2>1
  <2> QED BY <2>2, <2>3, <2>4
<1>6. \A y \in Ticks : y # n => {x \in F : m < y /\ y <= f[x]} = {x \in F : m < y /\ y <= g[x]}
  <2> SUFFICES ASSUME NEW y \in Ticks, y # n, NEW x \in F PROVE y <= f[x] <=> y <= g[x]
    OBVIOUS
  <2>1. y \in Nat /\ f[x] \in Nat
    BY <1>2, <1>n
  <2>2. CASE x = w
    BY <1>1, <2>1, <2>2
  <2>3. CASE x # w
    BY <1>1, <2>3
  <2> QED BY <2>2, <2>3
<1>7. ASSUME DOMAIN entry # F PROVE Filed(Refile(pt, n, entry), m, F, g, pr)
  <2> DEFINE u == Refile(pt, n, entry)
  <2>u. u = [pt EXCEPT ![n] = entry]
    BY DEF Refile
  <2> HIDE DEF u
  <2>1. \E x \in F : g[x] = m
    <3>1. PICK v \in F : f[v] = m
      BY DEF Filed
    <3>2. CASE v # w
      BY <1>1, <3>1, <3>2
    <3>3. CASE v = w
      <4>1. PICK x \in F : ~(m < n /\ n <= g[x])
        BY <1>5, <1>7
      <4>2. x # w /\ n = m + 1
        BY <1>1, <1>n, <3>1, <3>3, <4>1
      <4> QED BY <1>1, <1>2, <1>3, <4>1, <4>2
    <3> QED BY <3>2, <3>3
  <2>2. ASSUME NEW x \in F PROVE m <= g[x] /\ g[x] <= Len(pr[x])
    <3>1. m <= f[x] /\ f[x] <= Len(pr[x]) /\ f[x] \in Nat
      BY <1>2, <1>3
    <3>2. CASE x = w
      BY <1>1, <3>1, <3>2
    <3>3. CASE x # w
      BY <1>1, <3>1, <3>3
    <3> QED BY <3>2, <3>3
  <2>3. ASSUME NEW y \in Ticks
        PROVE  u[y] = [x \in {z \in F : m < y /\ y <= g[z]} |-> pr[x][y]]
    <3>1. CASE y = n
      BY <1>5, <2>u, <3>1
    <3>2. CASE y # n
      <4>1. u[y] = pt[y]
        BY <2>u, <3>2
      <4>2. {z \in F : m < y /\ y <= f[z]} = {z \in F : m < y /\ y <= g[z]}
        BY <1>6, <3>2

      <4> QED BY <4>1, <4>2 DEF Filed
    <3> QED BY <3>1, <3>2
  <2>4. Filed(u, m, F, g, pr)
    BY <2>1, <2>2, <2>3 DEF Filed
  <2> QED BY <2>4 DEF u
<1>8. ASSUME DOMAIN entry = F
      PROVE  /\ n = m + 1 /\ entry = [x \in F |-> pr[x][n]]
             /\ Filed(Refile(pt, n, NoReports), m + 1, F, g, pr)
  <2> DEFINE u == Refile(pt, n, NoReports)
  <2>u. u = [pt EXCEPT ![n] = NoReports]
    BY DEF Refile
  <2> HIDE DEF u
  <2>1. \A x \in F : m < n /\ n <= g[x]
    BY <1>5, <1>8
  <2>2. n = m + 1
    <3>1. PICK v \in F : f[v] = m
      BY DEF Filed
    <3>2. m < n /\ n <= g[v] /\ f[v] \in Nat /\ g[v] \in Nat /\ n \in Nat
      BY <1>2, <1>n, <2>1
    <3>3. v = w
      BY <1>1, <3>1, <3>2
    <3> QED BY <1>1, <3>1, <3>3
  <2>3. entry = [x \in F |-> pr[x][n]]
    <3>1. {y \in F : m < n /\ n <= g[y]} = F
      BY <2>1
    <3> QED BY <1>5, <3>1
  <2>4. \A x \in F : m + 1 <= g[x] /\ g[x] <= Len(pr[x])
    BY <1>1, <1>2, <1>3, <2>1, <2>2
  <2>5. ASSUME NEW y \in Ticks
        PROVE  u[y] = [x \in {z \in F : m + 1 < y /\ y <= g[z]} |-> pr[x][y]]
    <3>1. CASE y = n
      <4>1. {z \in F : m + 1 < y /\ y <= g[z]} = {}
        BY <2>2, <3>1
      <4>2. [x \in {} |-> pr[x][y]] = NoReports
        BY DEF NoReports
      <4> QED BY <2>u, <3>1, <4>1, <4>2
    <3>2. CASE y # n
      <4>1. {z \in F : m + 1 < y /\ y <= g[z]} = {z \in F : m < y /\ y <= f[z]}
        <5>1. ASSUME NEW z \in F PROVE (m + 1 < y /\ y <= g[z]) <=> (m < y /\ y <= f[z])
          <6>1. f[z] \in Nat /\ y \in Nat /\ y # m + 1 /\ m + 1 <= g[z]
            BY <1>2, <1>n, <2>2, <2>4, <3>2
          <6>2. CASE z = w
            BY <1>1, <2>2, <6>1, <6>2
          <6>3. CASE z # w
            BY <1>1, <6>1, <6>3
          <6> QED BY <6>2, <6>3
        <5> QED BY <5>1
      <4> QED BY <2>u, <3>2, <4>1 DEF Filed
    <3> QED BY <3>1, <3>2
  <2>6. g[w] = m + 1
    BY <1>1, <2>2
  <2>7. Filed(u, m + 1, F, g, pr)
    BY <2>4, <2>5, <2>6 DEF Filed
  <2> QED BY <2>2, <2>3, <2>7 DEF u
<1> QED
  BY <1>7, <1>8 DEF g, Whole, IsSucc

\* What is filed is not touched by a worker that goes on.
LEMMA FiledStays ==
  ASSUME NEW F \in SUBSET Workers, NEW f \in [Workers -> Nat], NEW m \in Nat,
         NEW pr \in [Workers -> Seq(Counts)], NEW pt, Filed(pt, m, F, f, pr),
         NEW w \in Workers, NEW c \in Counts,
         NEW pr2, pr2 = [pr EXCEPT ![w] = Append(@, c)]
  PROVE  Filed(pt, m, F, f, pr2)
<1>1. /\ Len(pr2[w]) = Len(pr[w]) + 1 /\ \A i \in 1 .. Len(pr[w]) : pr2[w][i] = pr[w][i]
      /\ \A x \in Workers : x # w => pr2[x] = pr[x]
  BY AppendOne
<1>2. \A n \in Ticks : n \in Nat /\ n >= 1
  BY DispatchAssumption DEF Ticks
<1>3. \A x \in F : f[x] \in Nat /\ f[x] <= Len(pr[x]) /\ Len(pr[x]) \in Nat
  BY DEF Filed
<1>4. \A x \in F : f[x] <= Len(pr2[x]) /\ \A n \in Ticks : n <= f[x] => pr2[x][n] = pr[x][n]
  BY <1>1, <1>2, <1>3
<1>5. \A n \in Ticks : [x \in {y \in F : m < n /\ n <= f[y]} |-> pr[x][n]]
                      = [x \in {y \in F : m < n /\ n <= f[y]} |-> pr2[x][n]]
  BY <1>4
<1> QED
  BY <1>4, <1>5 DEF Filed

(***************************************************************************)
(* The aggregator.                                                         *)
(***************************************************************************)

\* What the feed gains in a step: nothing, or the next second of the whole fleet.
Publishes ==
  \/ UNCHANGED <<cum, emitted>>
  \/ \E n \in Ticks : \E entry :
       /\ n = Len(emitted) + 1
       /\ \A x \in fleet : n <= Len(produced[x])
       /\ entry = [x \in fleet |-> produced[x][n]]
       /\ cum' = cum + SumFunction(entry)
       /\ emitted' = Append(emitted, AggregateTick(n, entry))

\* One turn of the aggregator files one report and publishes what it completes.
LEMMA AggregateStep ==
  ASSUME NEW filed \in [Workers -> Nat], NEW taken \in [Workers -> Nat],
         Inv(filed, taken), Aggregate
  PROVE  /\ Publishes
         /\ \E g \in [Workers -> Nat] : AggregatorInv(g, taken)'
<1>w. PICK w : w = Head(queue).worker
  OBVIOUS
<1> DEFINE p     == Head(queue).partial
           entry == Insert(perTick[p.tick], w, p.total)
           g     == Bump(filed, w)
<1>1. /\ Aggregating /\ queue # <<>> /\ queue' = Tail(queue)
      /\ fleet' = fleet /\ produced' = produced /\ conn' = conn
  BY DEF Aggregate, Aggregating, netVars, nodeVars
<1>2. \/ p.final /\ UNCHANGED <<perTick, cum, emitted>>
      \/ /\ ~p.final /\ ~Complete(entry)
         /\ perTick' = [perTick EXCEPT ![p.tick] = entry]
         /\ UNCHANGED <<cum, emitted>>
      \/ /\ ~p.final /\ Complete(entry)
         /\ perTick' = [perTick EXCEPT ![p.tick] = NoReports]
         /\ cum' = cum + SumFunction(entry)
         /\ emitted' = Append(emitted, AggregateTick(p.tick, entry))
  BY <1>w DEF Aggregate
<1>3. /\ Queued(queue, fleet, filed, taken, produced, conn)
      /\ Filed(perTick, Len(emitted), fleet, filed, produced)
  BY <1>1 DEF Inv, AggregatorInv
<1>4. /\ fleet \in SUBSET Workers /\ queue \in Seq(Items(fleet))
      /\ produced \in [Workers -> Seq(Counts)] /\ DOMAIN perTick = Ticks
  BY DEF Inv, TypeOK, CoordTypeOK, TaskTypeOK, NodeTypeOK, Items
<1>5. /\ w \in fleet /\ p \in Partials
      /\ IsNext(p.tick, filed, w) /\ Genuine(produced[w], conn[w], p)
      /\ p.final => Queued(queue', fleet, filed, taken, produced, conn)
      /\ ~p.final => Queued(queue', fleet, g, taken, produced, conn)
  <2> HIDE DEF p
  <2>1. /\ queue # <<>> /\ queue' = Rest(queue)
        /\ AtHead(queue, w, p)
    BY <1>w, <1>1 DEF AtHead, Rest, p
  <2>2. Queued(queue, fleet, filed, taken, produced, conn)
    BY <1>3
  <2>3. w \in fleet /\ p \in Partials /\ Genuine(produced[w], conn[w], p)
    BY <1>4, <2>1, <2>2, QueuedTake
  <2>5. IsNext(p.tick, filed, w)
    BY <1>4, <2>1, <2>2, QueuedTake
  <2>6. ASSUME p.final PROVE Queued(queue', fleet, filed, taken, produced, conn)
    BY <2>6, <1>4, <2>1, <2>2, QueuedTake
  <2>7. ASSUME ~p.final PROVE Queued(queue', fleet, g, taken, produced, conn)
    BY <2>7, <1>4, <2>1, <2>2, QueuedTake
  <2> QED BY <2>3, <2>5, <2>6, <2>7
<1>6. Len(emitted) \in Nat /\ \E S : emitted \in Seq(S)
  BY DEF Inv, EmittedInv
<1>7. g \in [Workers -> Nat]
  BY <1>4, <1>5 DEF Bump
<1> HIDE DEF p, g
<1>8. CASE p.final
  <2>1. UNCHANGED <<perTick, cum, emitted>>
    BY <1>2, <1>8
  <2> QED BY <1>1, <1>3, <1>5, <1>8, <2>1 DEF Publishes, AggregatorInv
<1>9. CASE ~p.final
  <2>1. /\ p.tick \in Ticks /\ p.tick <= Len(produced[w])
        /\ p.total = produced[w][p.tick]
    <3>1. p.tick \in 1 .. Len(produced[w]) /\ p.total = produced[w][p.tick]
      BY <1>5, <1>9 DEF Genuine
    <3>2. Len(produced[w]) <= MaxTicks /\ Len(produced[w]) \in Nat
      BY <1>4, <1>5 DEF Inv, StreamInv, Continues
    <3> QED BY <3>1, <3>2, DispatchAssumption DEF Ticks
  <2>2. /\ DOMAIN entry # fleet =>
             Filed(Refile(perTick, p.tick, entry), Len(emitted), fleet, g, produced)
        /\ DOMAIN entry = fleet =>
             /\ p.tick = Len(emitted) + 1
             /\ entry = [x \in fleet |-> produced[x][p.tick]]
             /\ Filed(Refile(perTick, p.tick, NoReports), Len(emitted) + 1, fleet, g, produced)
    <3>1. PICK n : n = p.tick
      OBVIOUS
    <3>2. PICK e : e = entry
      OBVIOUS
    <3>3. Reported(e, perTick, n, w, produced)
      BY <2>1, <3>1, <3>2 DEF Reported
    <3> HIDE DEF entry
    <3>4. n \in Ticks /\ IsNext(n, filed, w) /\ n <= Len(produced[w])
      BY <1>5, <2>1, <3>1
    <3>5. Filed(perTick, Len(emitted), fleet, filed, produced)
      BY <1>3
    <3>6. /\ DOMAIN e # fleet =>
               Filed(Refile(perTick, n, e), Len(emitted), fleet, Bump(filed, w), produced)
          /\ DOMAIN e = fleet =>
               /\ n = Len(emitted) + 1
               /\ e = [x \in fleet |-> produced[x][n]]
               /\ Filed(Refile(perTick, n, NoReports), Len(emitted) + 1, fleet,
                        Bump(filed, w), produced)
      <4>1. PICK m \in Nat : m = Len(emitted)
        BY <1>6
      <4>m. PICK m2 : IsSucc(m2, m)
        BY DEF IsSucc
      <4>2. Filed(perTick, m, fleet, filed, produced)
        BY <3>5, <4>1
      <4>3. ASSUME DOMAIN e # fleet
            PROVE  Filed(Refile(perTick, n, e), m, fleet, Bump(filed, w), produced)
        BY <1>4, <1>5, <3>3, <3>4, <4>m, <4>2, <4>3, FileTick
      <4>4. ASSUME DOMAIN e = fleet
            PROVE  /\ n = m2 /\ Whole(e, fleet, n, produced)
                   /\ Filed(Refile(perTick, n, NoReports), m2, fleet,
                            Bump(filed, w), produced)
        BY <1>4, <1>5, <3>3, <3>4, <4>m, <4>2, <4>4, FileTick
      <4> QED BY <4>1, <4>m, <4>3, <4>4 DEF Whole, IsSucc
    <3> QED BY <3>1, <3>2, <3>6 DEF g
  <2> HIDE DEF entry
  <2>3. CASE DOMAIN entry # fleet
    <3>1. perTick' = Refile(perTick, p.tick, entry) /\ UNCHANGED <<cum, emitted>>
      BY <1>2, <1>9, <2>3 DEF Complete, Refile
    <3>2. AggregatorInv(g, taken)'
      BY <1>1, <1>5, <1>9, <2>2, <2>3, <3>1 DEF AggregatorInv
    <3> QED BY <1>7, <3>1, <3>2 DEF Publishes
  <2>4. CASE DOMAIN entry = fleet
    <3>1. /\ perTick' = Refile(perTick, p.tick, NoReports)
          /\ cum' = cum + SumFunction(entry)
          /\ emitted' = Append(emitted, AggregateTick(p.tick, entry))
      BY <1>2, <1>9, <2>4 DEF Complete, Refile
    <3>2. Len(emitted') = Len(emitted) + 1
      BY <1>6, <3>1
    <3>3. AggregatorInv(g, taken)'
      BY <1>1, <1>5, <1>9, <2>2, <2>4, <3>1, <3>2 DEF AggregatorInv
    <3>4. \A x \in fleet : p.tick <= Len(produced[x])
      <4>1. \A x \in fleet : Len(emitted) + 1 <= g[x] /\ g[x] <= Len(produced[x])
        BY <1>1, <3>2, <3>3 DEF AggregatorInv, Filed
      <4>2. \A x \in fleet : g[x] \in Nat /\ Len(produced[x]) \in Nat
        BY <1>4, <1>7
      <4> QED BY <1>6, <2>2, <2>4, <4>1, <4>2
    <3>5. Publishes
      BY <2>1, <2>2, <2>4, <3>1, <3>4 DEF Publishes
    <3> QED BY <1>7, <3>3, <3>5
  <2> QED BY <2>3, <2>4
<1>10. p.final \in BOOLEAN
  BY <1>5, PartialType
<1> QED
  BY <1>8, <1>9, <1>10

\* Only Aggregate publishes.
LEMMA PublishNext ==
  ASSUME NEW filed \in [Workers -> Nat], NEW taken \in [Workers -> Nat],
         Inv(filed, taken), [Next]_vars
  PROVE  Publishes
<1>1. CASE Aggregate
  BY <1>1, AggregateStep
<1>2. CASE UNCHANGED <<cum, emitted>>
  BY <1>2 DEF Publishes
<1>3. Aggregate \/ UNCHANGED <<cum, emitted>>
  BY DEF vars, coordVars, Next, Coordinator, AggregateLoop, Task, Node, Abort, Failure, Quiet, ListWorkers,
     RegisterRun, PollToken, SelectWaits, LeaveAggregation, JoinTasks, DeregisterRun, DialFails, RejectSlice, RunSlice,
     ReceivePartial, StreamEnds, EngineTick, EngineStops, SliceEnds, AbortRun, AbortNotInFlight,
     DeliverAbort, LoseAbort, WorkerDies, StreamBreaks
<1> QED
  BY <1>1, <1>2, <1>3

\* What is published keeps its shape.
LEMMA EmittedNext ==
  ASSUME EmittedInv, Publishes
  PROVE  EmittedInv'
<1> USE DispatchAssumption
<1>1. CASE UNCHANGED <<cum, emitted>>
  BY <1>1 DEF EmittedInv
<1>2. ASSUME NEW n \in Ticks, NEW entry, n = Len(emitted) + 1,
             cum' = cum + SumFunction(entry), emitted' = Append(emitted, AggregateTick(n, entry))
      PROVE  EmittedInv'
  <2> DEFINE a == AggregateTick(n, entry)
  <2>1. a.elapsed_s = n /\ a.completed_total = cum + SumFunction(entry)
    BY DEF AggregateTick
  <2> HIDE DEF a
  <2>2. PICK S : emitted \in Seq(S)
    BY DEF EmittedInv
  <2>3. emitted \in Seq(S \cup {a}) /\ a \in S \cup {a}
    BY <2>2
  <2>4. emitted' = Append(emitted, a)
    BY <1>2 DEF a
  <2>5. /\ emitted' \in Seq(S \cup {a}) /\ Len(emitted') = Len(emitted) + 1
        /\ \A i \in 1 .. Len(emitted) : emitted'[i] = emitted[i]
        /\ emitted'[Len(emitted) + 1] = a
    BY <2>3, <2>4, AppendOne
  <2>6. Len(emitted) \in Nat /\ Len(emitted') <= MaxTicks /\ Len(emitted) + 1 = n
    BY <1>2, <2>2, <2>5 DEF Ticks
  <2>7. \A i \in 1 .. Len(emitted') : emitted'[i].elapsed_s = i
    <3> SUFFICES ASSUME NEW i \in 1 .. Len(emitted') PROVE emitted'[i].elapsed_s = i
      OBVIOUS
    <3>1. i \in 1 .. Len(emitted) \/ i = Len(emitted) + 1
      BY <2>5, <2>6
    <3>2. CASE i \in 1 .. Len(emitted)
      BY <2>5, <3>2 DEF EmittedInv
    <3>3. CASE i = Len(emitted) + 1
      BY <1>2, <2>1, <2>5, <3>3
    <3> QED BY <3>1, <3>2, <3>3
  <2>8. cum' = emitted'[Len(emitted')].completed_total /\ emitted' # <<>>
    BY <1>2, <2>1, <2>5, <2>6
  <2> QED BY <2>5, <2>6, <2>7, <2>8 DEF EmittedInv
<1> QED
  BY <1>1, <1>2 DEF Publishes

(***************************************************************************)
(* The other steps while the aggregator runs.                              *)
(***************************************************************************)

\* RegisterRun starts it with nothing read and nothing filed.
LEMMA AggregatorStarts ==
  ASSUME NEW filed \in [Workers -> Nat], NEW taken \in [Workers -> Nat],
         Inv(filed, taken), RegisterRun,
         NEW zero, zero = [w \in Workers |-> 0]
  PROVE  AggregatorInv(zero, taken)'
<1>1. /\ UNCHANGED <<fleet, perTick, emitted, queue, produced, conn>>
      /\ emitted = <<>> /\ queue = <<>> /\ fleet # {} /\ fleet \subseteq Workers
      /\ \A n \in Ticks : perTick[n] = NoReports
      /\ \A w \in Workers : task[w] = "none"
  BY DEF RegisterRun, Inv, TypeOK, CoordTypeOK, EarlyInv, Early, Aggregating, netVars, nodeVars
<1>2. \A w \in Workers : taken[w] = 0
  BY <1>1 DEF Inv, StreamInv, Continues, Dispatched
<1>3. \A w \in fleet : zero[w] = 0
  BY <1>1
<1>4. Queued(<<>>, fleet, zero, taken, produced, conn)
  <2>1. Pending(<<>>, zero, taken, produced, conn) /\ InOrder(<<>>)
    BY DEF Pending, InOrder
  <2>2. NoneMissing(<<>>, fleet, zero, taken, produced)
    BY <1>1, <1>2, <1>3 DEF NoneMissing
  <2> QED BY <2>1, <2>2 DEF Queued
<1>5. Filed(perTick, 0, fleet, zero, produced)
  <2>1. \A w \in fleet : 0 <= zero[w] /\ zero[w] <= Len(produced[w])
    <3>1. produced \in [Workers -> Seq(Counts)]
      BY DEF Inv, TypeOK, NodeTypeOK
    <3> QED BY <1>1, <1>3, <3>1
  <2>2. \E w \in fleet : zero[w] = 0
    BY <1>1, <1>3
  <2>3. ASSUME NEW n \in Ticks
        PROVE  perTick[n] = [w \in {x \in fleet : 0 < n /\ n <= zero[x]} |-> produced[w][n]]
    <3>1. {x \in fleet : 0 < n /\ n <= zero[x]} = {}
      BY <1>3, DispatchAssumption DEF Ticks
    <3> QED BY <1>1, <3>1 DEF NoReports
  <2> QED BY <2>1, <2>2, <2>3 DEF Filed
<1>6. Len(emitted) = 0
  BY <1>1
<1> QED
  BY <1>1, <1>4, <1>5, <1>6 DEF AggregatorInv

\* Steps that leave the channel and per_tick alone.
Waits == UNCHANGED <<fleet, perTick, emitted, queue>>

\* The aggregator's state is not touched while a worker goes on or its stream ends.
LEMMA AggregatorWaits ==
  ASSUME NEW filed \in [Workers -> Nat], NEW taken \in [Workers -> Nat],
         Inv(filed, taken), Aggregating, Waits, NEW w \in Workers,
         \A x \in Workers : x # w => produced'[x] = produced[x] /\ conn'[x] = conn[x],
         \/ /\ produced' = produced
            /\ conn[w] # conn'[w] => conn'[w] # "open" \/ taken[w] = 0
         \/ /\ conn' = conn /\ conn[w] = "open"
            /\ \E c \in Counts : produced' = [produced EXCEPT ![w] = Append(@, c)]
  PROVE  AggregatorInv(filed, taken)'
<1>1. /\ fleet \in SUBSET Workers /\ queue \in Seq(Items(fleet))
      /\ produced \in [Workers -> Seq(Counts)]
  BY DEF Inv, TypeOK, CoordTypeOK, TaskTypeOK, NodeTypeOK, Items
<1>2. /\ Queued(queue, fleet, filed, taken, produced, conn)
      /\ Filed(perTick, Len(emitted), fleet, filed, produced)
  BY DEF Inv, AggregatorInv
<1>s. \A x \in Workers : /\ taken[x] \in Nat /\ Len(produced[x]) \in Nat
                         /\ taken[x] <= Len(produced[x]) + 1
                         /\ conn[x] = "open" => taken[x] <= Len(produced[x])
  <2> SUFFICES ASSUME NEW x \in Workers
               PROVE  /\ taken[x] \in Nat /\ Len(produced[x]) \in Nat
                      /\ taken[x] <= Len(produced[x]) + 1
                      /\ conn[x] = "open" => taken[x] <= Len(produced[x])
    OBVIOUS
  <2>1. Continues(taken[x], stream[x], produced[x], conn[x])
    BY DEF Inv, StreamInv
  <2>2. stream[x] \in Seq(Partials) /\ produced[x] \in Seq(Counts) /\ taken[x] \in Nat
    BY DEF Inv, TypeOK, NetTypeOK, NodeTypeOK
  <2>3. Len(stream[x]) \in Nat /\ Len(produced[x]) \in Nat
    BY <2>2
  <2> QED BY <2>1, <2>2, <2>3 DEF Continues
<1>3. CASE produced' = produced /\ (conn[w] # conn'[w] => conn'[w] # "open" \/ taken[w] = 0)
  <2>1. ASSUME NEW x \in fleet, NEW p \in Partials,
               p.tick <= taken[x], Genuine(produced[x], conn[x], p)
        PROVE  Genuine(produced'[x], conn'[x], p)
    <3>1. CASE conn'[x] = conn[x]
      BY <1>3, <2>1, <3>1
    <3>2. CASE conn'[x] # conn[x]
      <4>1. x = w
        BY <1>1, <3>2
      <4>2. taken[w] # 0
        <5>1. p.tick \in Nat /\ p.tick >= 1
          BY PartialType, DispatchAssumption
        <5> QED BY <1>s, <2>1, <4>1, <5>1
      <4>3. conn'[x] # "open"
        BY <1>3, <3>2, <4>1, <4>2
      <4> QED BY <1>3, <2>1, <4>3, GenuineCloses
    <3> QED BY <3>1, <3>2
  <2>2. Queued(queue, fleet, filed, taken, produced', conn')
    BY <1>1, <1>2, <1>3, <2>1, QueuedStays
  <2> QED BY <1>2, <1>3, <2>2 DEF AggregatorInv, Waits
<1>4. ASSUME conn' = conn, conn[w] = "open", NEW c \in Counts,
             produced' = [produced EXCEPT ![w] = Append(@, c)]
      PROVE  AggregatorInv(filed, taken)'
  <2>1. ASSUME NEW x \in fleet, NEW p \in Partials,
               p.tick <= taken[x], Genuine(produced[x], conn[x], p)
        PROVE  Genuine(produced'[x], conn'[x], p)
    <3>1. CASE x # w
      BY <1>1, <1>4, <2>1, <3>1
    <3>2. CASE x = w
      <4>1. Genuine(Append(produced[w], c), "open", p)
        BY <1>1, <1>4, <2>1, <3>2, GenuineGrows
      <4>2. produced'[x] = Append(produced[w], c) /\ conn'[x] = "open"
        BY <1>1, <1>4, <3>2
      <4> QED BY <4>1, <4>2
    <3> QED BY <3>1, <3>2
  <2>2. ASSUME NEW x \in fleet, NEW n \in Nat, n <= taken[x], n <= Len(produced'[x])
        PROVE  n <= Len(produced[x])
    <3>1. CASE x # w
      BY <1>1, <1>4, <2>2, <3>1
    <3>2. CASE x = w
      BY <1>s, <1>4, <2>2, <3>2
    <3> QED BY <3>1, <3>2
  <2>3. Queued(queue, fleet, filed, taken, produced', conn')
    BY <1>1, <1>2, <2>1, <2>2, QueuedStays
  <2>4. PICK m \in Nat : m = Len(emitted)
    BY DEF Inv, EmittedInv
  <2>5. Filed(perTick, m, fleet, filed, produced')
    BY <1>1, <1>2, <1>4, <2>4, FiledStays
  <2> QED BY <2>3, <2>4, <2>5 DEF AggregatorInv, Waits
<1> QED
  BY <1>3, <1>4

\* A task forwards a Partial it has just read.
LEMMA AggregatorReceives ==
  ASSUME NEW filed \in [Workers -> Nat], NEW taken \in [Workers -> Nat],
         Inv(filed, taken), Aggregating, NEW w \in Workers, ReceivePartial(w),
         NEW h, h = [taken EXCEPT ![w] = @ + 1]
  PROVE  AggregatorInv(filed, h)'
<1> DEFINE p == Head(stream[w])
<1>1. /\ stream[w] # <<>> /\ UNCHANGED <<fleet, perTick, emitted, produced, conn>>
      /\ queue' = Append(queue, [worker |-> w, partial |-> p])
      /\ task[w] = "streaming"
  BY DEF ReceivePartial, coordVars, nodeVars
<1>2. /\ fleet \in SUBSET Workers /\ queue \in Seq(Items(fleet))
      /\ produced \in [Workers -> Seq(Counts)] /\ stream[w] \in Seq(Partials)
  BY DEF Inv, TypeOK, CoordTypeOK, TaskTypeOK, NetTypeOK, NodeTypeOK, Items
<1>3. /\ Queued(queue, fleet, filed, taken, produced, conn)
      /\ Filed(perTick, Len(emitted), fleet, filed, produced)
  BY DEF Inv, AggregatorInv
<1>4. w \in fleet
  BY <1>1 DEF Inv, StreamInv, Dispatched
<1>5. p \in Partials
  BY <1>1, <1>2
<1>6. p.tick = taken[w] + 1 /\ Genuine(produced[w], conn[w], p)
  <2>1. Continues(taken[w], stream[w], produced[w], conn[w])
    BY DEF Inv, StreamInv
  <2>2. taken[w] \in Nat /\ produced[w] \in Seq(Counts)
    BY <1>2
  <2> QED BY <1>1, <1>2, <2>1, <2>2, ContinuesRead
<1> HIDE DEF p
<1>7. queue' = Put(queue, w, p) /\ h = Bump(taken, w) /\ IsNext(p.tick, taken, w)
  BY <1>1, <1>6 DEF Put, Bump, IsNext
<1>8. Queued(queue', fleet, filed, h, produced, conn)
  <2>1. Queued(queue, fleet, filed, taken, produced, conn) /\ Genuine(produced[w], conn[w], p)
    BY <1>3, <1>6
  <2>2. Queued(Put(queue, w, p), fleet, filed, Bump(taken, w), produced, conn)
    BY <1>2, <1>4, <1>5, <1>7, <2>1, QueuedPut
  <2> QED BY <1>7, <2>2
<1> QED
  BY <1>1, <1>3, <1>8 DEF AggregatorInv

(***************************************************************************)
(* The invariant.                                                          *)
(***************************************************************************)

\* Before the fleet is chosen there is nothing.
LEMMA EarlyNext ==
  ASSUME NEW filed \in [Workers -> Nat], NEW taken \in [Workers -> Nat],
         Inv(filed, taken), [Next]_vars
  PROVE  EarlyInv'
<1>e. EarlyInv
  BY DEF Inv
<1> USE <1>e DEF EarlyInv, Early, Aggregating, coordVars, taskVars, netVars, nodeVars
<1>1. ASSUME NEW S \in SUBSET Workers, ListWorkers(S) PROVE EarlyInv'
  BY <1>1 DEF ListWorkers
<1>2. CASE RegisterRun
  BY <1>2 DEF RegisterRun
<1>3. CASE Aggregate
  BY <1>3 DEF Aggregate
<1>4. CASE PollToken \/ SelectWaits \/ LeaveAggregation \/ JoinTasks \/ DeregisterRun
  BY <1>4 DEF PollToken, SelectWaits, LeaveAggregation, JoinTasks, DeregisterRun
<1>5. ASSUME NEW w \in Workers, DialFails(w) \/ RejectSlice(w) \/ StreamEnds(w) \/ RunSlice(w)
      PROVE  EarlyInv'
  BY <1>5 DEF DialFails, RejectSlice, StreamEnds, RunSlice
<1>6. ASSUME NEW w \in Workers, ReceivePartial(w) PROVE EarlyInv'
  BY <1>6 DEF ReceivePartial
<1>7. ASSUME NEW w \in Workers,
             \/ \E c \in Counts : EngineTick(w, c)
             \/ EngineStops(w) \/ SliceEnds(w) \/ DeliverAbort(w) \/ LoseAbort(w)
      PROVE  EarlyInv'
  BY <1>7 DEF EngineTick, EngineStops, SliceEnds, DeliverAbort, LoseAbort
<1>8. CASE AbortRun \/ AbortNotInFlight \/ UNCHANGED vars
  BY <1>8 DEF AbortRun, AbortNotInFlight, vars
<1>9. ASSUME NEW w \in Workers, WorkerDies(w) \/ StreamBreaks(w) PROVE EarlyInv'
  BY <1>9 DEF WorkerDies, StreamBreaks
<1> QED
  BY <1>1, <1>2, <1>3, <1>4, <1>5, <1>6, <1>7, <1>8, <1>9
  DEF Next, Coordinator, AggregateLoop, Task, Node, Abort, Failure, Quiet

\* While the aggregator runs and no task reads, filed may grow and taken stays.
LEMMA AggregatorNext ==
  ASSUME NEW filed \in [Workers -> Nat], NEW taken \in [Workers -> Nat],
         Inv(filed, taken), [Next]_vars, ~Receives, Aggregating'
  PROVE  \E g \in [Workers -> Nat] : AggregatorInv(g, taken)'
<1> USE DEF Aggregating, coordVars, taskVars, netVars, nodeVars
<1>w. ASSUME Aggregating, Waits, UNCHANGED <<produced, conn>>
      PROVE  AggregatorInv(filed, taken)'
  BY <1>w DEF Waits, Inv, AggregatorInv
<1>1. CASE RegisterRun
  <2> DEFINE zero == [w \in Workers |-> 0]
  <2>1. AggregatorInv(zero, taken)'
    BY <1>1, AggregatorStarts
  <2>2. zero \in [Workers -> Nat]
    OBVIOUS
  <2> HIDE DEF zero
  <2> QED BY <2>1, <2>2
<1>2. CASE Aggregate
  BY <1>2, AggregateStep
<1>3. ASSUME NEW w \in Workers, NEW c \in Counts, EngineTick(w, c)
      PROVE  AggregatorInv(filed, taken)'
  <2>1. /\ Waits /\ conn' = conn /\ conn[w] = "open" /\ Aggregating
        /\ produced' = [produced EXCEPT ![w] = Append(@, c)]
        /\ \A x \in Workers : x # w => produced'[x] = produced[x] /\ conn'[x] = conn[x]
    BY <1>3 DEF EngineTick, Waits, Inv, TypeOK, NodeTypeOK
  <2> QED BY <2>1, AggregatorWaits
<1>4. ASSUME NEW w \in Workers, RunSlice(w) PROVE AggregatorInv(filed, taken)'
  <2>1. /\ Waits /\ produced' = produced /\ Aggregating
        /\ \A x \in Workers : x # w => conn'[x] = conn[x]
        /\ task[w] = "connecting"
    BY <1>4 DEF RunSlice, Waits, Inv, TypeOK, NetTypeOK
  <2>2. taken[w] = 0
    BY <2>1 DEF Inv, StreamInv, Continues, Dispatched
  <2> QED BY <2>1, <2>2, AggregatorWaits
<1>5. ASSUME NEW w \in Workers, SliceEnds(w) PROVE AggregatorInv(filed, taken)'
  <2>1. /\ Waits /\ produced' = produced /\ Aggregating /\ conn'[w] = "ended"
        /\ \A x \in Workers : x # w => conn'[x] = conn[x]
    BY <1>5 DEF SliceEnds, Waits, Inv, TypeOK, NetTypeOK
  <2> QED BY <2>1, AggregatorWaits
<1>6. ASSUME NEW w \in Workers, WorkerDies(w) \/ StreamBreaks(w) PROVE AggregatorInv(filed, taken)'
  <2>1. /\ Waits /\ produced' = produced /\ Aggregating
    BY <1>6 DEF WorkerDies, StreamBreaks, Waits
  <2>2. CASE conn' = conn
    BY <1>w, <2>1, <2>2
  <2>3. CASE conn' = [conn EXCEPT ![w] = "broken"]
    <3>1. conn'[w] = "broken" /\ \A x \in Workers : x # w => conn'[x] = conn[x]
      BY <2>3 DEF Inv, TypeOK, NetTypeOK
    <3> QED BY <2>1, <3>1, AggregatorWaits
  <2> QED BY <1>6, <2>2, <2>3 DEF WorkerDies, StreamBreaks
<1>7. CASE PollToken \/ SelectWaits \/ AbortRun \/ AbortNotInFlight \/ UNCHANGED vars
  <2>1. Aggregating /\ Waits /\ UNCHANGED <<produced, conn>>
    BY <1>7 DEF PollToken, SelectWaits, AbortRun, AbortNotInFlight, vars, Waits
  <2> QED BY <1>w, <2>1
<1>8. ASSUME NEW w \in Workers,
             \/ DialFails(w) \/ RejectSlice(w) \/ StreamEnds(w)
             \/ EngineStops(w) \/ DeliverAbort(w) \/ LoseAbort(w)
      PROVE  AggregatorInv(filed, taken)'
  <2>1. Aggregating /\ Waits /\ UNCHANGED <<produced, conn>>
    BY <1>8 DEF DialFails, RejectSlice, StreamEnds, EngineStops, DeliverAbort, LoseAbort, Waits
  <2> QED BY <1>w, <2>1
<1>9. ~LeaveAggregation /\ ~JoinTasks /\ ~DeregisterRun /\ \A S \in SUBSET Workers : ~ListWorkers(S)
  BY DEF LeaveAggregation, JoinTasks, DeregisterRun, ListWorkers, Aggregating
<1> QED
  BY <1>1, <1>2, <1>3, <1>4, <1>5, <1>6, <1>7, <1>8, <1>9
  DEF Next, Coordinator, AggregateLoop, Task, Node, Abort, Failure, Quiet, Receives

\* The invariant is kept, and what is read is counted.
LEMMA CoreNext ==
  ASSUME NEW filed \in [Workers -> Nat], NEW taken \in [Workers -> Nat],
         Inv(filed, taken), [Next]_vars
  PROVE  \E g, h \in [Workers -> Nat] :
           /\ Inv(g, h)'
           /\ \/ ~Receives /\ h = taken
              \/ \E w \in Workers : ReceivePartial(w) /\ h = Bump(taken, w)
<1>1. TypeOK' /\ EarlyInv'
  BY TypeNext, EarlyNext
<1>2. EmittedInv'
  BY PublishNext, EmittedNext DEF Inv
<1>3. CASE Receives
  <2>1. PICK w \in Workers : ReceivePartial(w)
    BY <1>3 DEF Receives
  <2>2. PICK h : h = [taken EXCEPT ![w] = @ + 1]
    OBVIOUS
  <2>t. h \in [Workers -> Nat] /\ h = Bump(taken, w)
    BY <2>2 DEF Bump
  <2>s. StreamInv([taken EXCEPT ![w] = @ + 1])'
    BY <2>1, StreamNext
  <2>3. StreamInv(h)'
    BY <2>2, <2>s DEF StreamInv
  <2>4. ASSUME Aggregating' PROVE AggregatorInv(filed, h)'
    <3>1. Aggregating
      BY <2>1, <2>4 DEF ReceivePartial, Aggregating, coordVars
    <3> QED BY <2>1, <2>2, <3>1, AggregatorReceives
  <2>5. Inv(filed, h)'
    BY <1>1, <1>2, <2>3, <2>4 DEF Inv
  <2> QED BY <2>1, <2>t, <2>5
<1>4. CASE ~Receives
  <2>1. StreamInv(taken)'
    BY <1>4, StreamNext
  <2>2. PICK g \in [Workers -> Nat] : Aggregating' => AggregatorInv(g, taken)'
    BY <1>4, AggregatorNext
  <2>3. Inv(g, taken)'
    BY <1>1, <1>2, <2>1, <2>2 DEF Inv
  <2> QED BY <1>4, <2>3
<1> QED
  BY <1>3, <1>4

\* Every step keeps the invariant, with other numbers taken and filed.
LEMMA InvNext == FeedInv /\ [Next]_vars => FeedInv'
<1> SUFFICES ASSUME NEW filed \in [Workers -> Nat], NEW taken \in [Workers -> Nat],
                    Inv(filed, taken), [Next]_vars
             PROVE  FeedInv'
  BY DEF FeedInv
<1> QED
  BY CoreNext DEF FeedInv

\* It holds in every state.
LEMMA FeedInvariant == Spec => []FeedInv
  BY InvInit, InvNext, PTL DEF Spec

(***************************************************************************)
(* The accounts.  What was read of a worker is the sum of the ticks read,  *)
(* the final Partial closes the account, and what is published is a part   *)
(* of what was read.                                                       *)
(***************************************************************************)

\* Of k Partials read of a slice with ticks s, those that are ticks.
TicksRead(k, s) == IF k <= Len(s) THEN k ELSE Len(s)

\* r is the WorkerSummary after k Partials of a slice with ticks s, whose engine
\* is e, with q in flight on connection c.
Accounted(k, q, s, c, e, r) ==
  /\ r.completed = Upto(s, TicksRead(k, s))
  /\ r.finished <=> k = Len(s) + 1
  /\ c = "ended" => k + Len(q) = Len(s) + 1
  /\ k + Len(q) = Len(s) + 1 => e = "stopped"

SliceAccounts(taken) ==
  \A w \in Workers :
    Accounted(taken[w], stream[w], produced[w], conn[w], engine[w], wsum[w])

\* The first m seconds of fleet F.
FleetUpto(F, pr, m) == SumFunction([w \in F |-> Upto(pr[w], m)])

\* With m seconds published, every worker's were read, and cum is their sum.
FeedAccount(taken) ==
  /\ \A w \in fleet : Len(emitted) <= taken[w] /\ Len(emitted) <= Len(produced[w])
  /\ cum = FleetUpto(fleet, produced, Len(emitted))

\* What the joined tasks leave in the DispatchSummary.
SummaryAccount ==
  Summed => /\ TasksDone
            /\ summary.finished = Cardinality(Finished)
            /\ summary.lost =
                 IF summary.aborted THEN 0 ELSE Cardinality(fleet) - Cardinality(Finished)
            /\ summary.completed = SumFunction([w \in fleet |-> wsum[w].completed])

\* What is known of worker w's slice from its failures: t is its task, q what is in
\* flight on connection c, e its engine, k its token, up whether it lives.
SliceKnown(t, q, c, e, k, up) ==
  /\ t = "done" => c # "open" /\ q = <<>>
  /\ t = "done" /\ c = "idle" => crashes > 0 \/ breaks > 0 \/ ~specValid
  /\ ~up => crashes > 0
  /\ c = "broken" => crashes > 0 \/ breaks > 0
  /\ breaks = 0 => /\ k # "absent" <=> c = "open"
                   /\ e = "running" => c = "open"

SlicesKnown ==
  \A w \in Workers : SliceKnown(task[w], stream[w], conn[w], engine[w], token[w], alive[w])

Registered == inFlight <=> dpc \in {"aggregating", "receiving", "joining", "summed"}

\* Every trace of an abort comes from an acknowledged one.
AbortTraces ==
  cancelled \/ fanout # {} \/ summary.aborted \/ (\E w \in Workers : token[w] = "cancelled")
    => acked

TraceInv == SummaryAccount /\ SlicesKnown /\ Registered /\ AbortTraces

BooksInv ==
  TraceInv /\ \E filed, taken \in [Workers -> Nat] :
                Inv(filed, taken) /\ SliceAccounts(taken) /\ FeedAccount(taken)

\* The reported counts can be summed.
LEMMA CountsAdd ==
  ASSUME NEW s \in Seq(Counts)
  PROVE  s \in Seq(Nat)
<1>1. Counts \subseteq Nat
  BY DispatchAssumption
<1>2. Len(s) \in Nat /\ s \in [1 .. Len(s) -> Counts]
  OBVIOUS
<1>3. s \in [1 .. Len(s) -> Nat]
  BY <1>1, <1>2
<1> QED
  BY <1>2, <1>3

\* A Partial that is read goes from the stream into the account.
LEMMA AccountedRead ==
  ASSUME NEW k \in Nat, NEW q \in Seq(Partials), NEW s \in Seq(Counts), NEW c, NEW e,
         NEW r \in [finished : BOOLEAN, completed : Nat],
         q # <<>>, Continues(k, q, s, c), Accounted(k, q, s, c, e, r)
  PROVE  Accounted(k + 1, Tail(q), s, c, e, Observe(r, Head(q)))
<1> DEFINE p == Head(q)
<1>1. p.tick = k + 1 /\ Genuine(s, c, p) /\ k <= Len(s) /\ p.final \in BOOLEAN
  BY ContinuesRead, HeadTail, PartialType
<1>2. Len(Tail(q)) = Len(q) - 1 /\ Len(q) \in Nat /\ Len(s) \in Nat
  BY HeadTail
<1>3. s \in Seq(Nat)
  BY CountsAdd
<1> HIDE DEF p
<1>4. r.completed = Upto(s, k) /\ r.finished = FALSE
  <2>1. TicksRead(k, s) = k /\ k # Len(s) + 1
    BY <1>1, <1>2 DEF TicksRead
  <2> QED
    BY <2>1 DEF Accounted
<1>5. Observe(r, p).completed = Upto(s, TicksRead(k + 1, s))
  <2>1. Observe(r, p).completed = Upto(s, k) + p.total
    BY <1>4 DEF Observe
  <2>2. CASE p.final
    <3>1. p.total = 0 /\ k = Len(s)
      BY <1>1, <1>2, <2>2 DEF Genuine
    <3>2. TicksRead(k + 1, s) = k
      BY <1>2, <3>1 DEF TicksRead
    <3>3. Upto(s, k) \in Nat
      BY <1>2, <1>3, <3>1, UptoMonotone
    <3> QED
      BY <2>1, <3>1, <3>2, <3>3
  <2>3. CASE ~p.final
    <3>1. k + 1 <= Len(s) /\ p.total = s[k + 1]
      BY <1>1, <1>2, <2>3 DEF Genuine
    <3>2. TicksRead(k + 1, s) = k + 1
      BY <1>2, <3>1 DEF TicksRead
    <3>3. Upto(s, k + 1) = Upto(s, k) + s[k + 1]
      BY <1>2, <1>3, <3>1, UptoStep
    <3> QED
      BY <2>1, <3>1, <3>2, <3>3
  <2> QED
    BY <1>1, <2>2, <2>3
<1>6. Observe(r, p).finished <=> k + 1 = Len(s) + 1
  <2>1. Observe(r, p).finished = p.final
    BY <1>1, <1>4 DEF Observe
  <2> QED
    BY <1>1, <1>2, <2>1 DEF Genuine
<1>7. (k + 1) + Len(Tail(q)) = k + Len(q)
  BY <1>2
<1> QED
  BY <1>5, <1>6, <1>7 DEF Accounted, p

\* A second that is worked goes into the stream, not into the account.
LEMMA AccountedTick ==
  ASSUME NEW k \in Nat, NEW q \in Seq(Partials), NEW s \in Seq(Counts), NEW n \in Counts,
         NEW p \in Partials, NEW e, NEW r,
         Continues(k, q, s, "open"), Accounted(k, q, s, "open", e, r)
  PROVE  Accounted(k, Append(q, p), Append(s, n), "open", e, r)
<1>1. /\ Len(Append(s, n)) = Len(s) + 1 /\ Len(Append(q, p)) = Len(q) + 1
      /\ Len(s) \in Nat /\ Len(q) \in Nat
  BY AppendOne
<1>2. k + Len(q) = Len(s) /\ k <= Len(s)
  BY <1>1 DEF Continues
<1>3. TicksRead(k, s) = k /\ TicksRead(k, Append(s, n)) = k
  BY <1>1, <1>2 DEF TicksRead
<1>4. Upto(Append(s, n), k) = Upto(s, k)
  <2>1. s \in Seq(Nat) /\ n \in Nat /\ k \in 0 .. Len(s)
    BY <1>1, <1>2, CountsAdd, DispatchAssumption
  <2> QED
    BY <2>1, UptoAppend
<1> QED
  BY <1>1, <1>2, <1>3, <1>4 DEF Accounted

\* A final Partial closes the account.
LEMMA AccountedEnd ==
  ASSUME NEW k \in Nat, NEW q \in Seq(Partials), NEW s \in Seq(Counts), NEW p \in Partials, NEW r,
         Continues(k, q, s, "open"), Accounted(k, q, s, "open", "stopped", r)
  PROVE  Accounted(k, Append(q, p), s, "ended", "stopped", r)
<1>1. Len(Append(q, p)) = Len(q) + 1 /\ Len(s) \in Nat /\ Len(q) \in Nat
  BY AppendOne
<1> QED
  BY <1>1 DEF Accounted, Continues

\* A slice that starts, and one whose stream breaks.
LEMMA AccountedStart ==
  ASSUME NEW k \in Nat, NEW q \in Seq(Partials), NEW s \in Seq(Counts), NEW e, NEW r,
         Continues(k, q, s, "idle"), Accounted(k, q, s, "idle", e, r), NEW f
  PROVE  Accounted(k, q, s, "open", f, r)
BY DEF Accounted, Continues

\* A broken stream leaves the account short of what the worker did.
LEMMA AccountedBreak ==
  ASSUME NEW k \in Nat, NEW q \in Seq(Partials), NEW t \in Seq(Partials), NEW s \in Seq(Counts),
         NEW c, NEW e, NEW r, NEW f, f = e \/ e # "stopped", Len(t) <= Len(q),
         Continues(k, q, s, c), Accounted(k, q, s, c, e, r)
  PROVE  Accounted(k, t, s, "broken", f, r)
<1>1. Len(q) \in Nat /\ Len(t) \in Nat /\ Len(s) \in Nat
  OBVIOUS
<1>2. k + Len(q) <= Len(s) + 1
  BY DEF Continues
<1>3. k + Len(t) = Len(s) + 1 => k + Len(q) = Len(s) + 1
  BY <1>1, <1>2
<1> QED
  BY <1>3 DEF Accounted

\* Every step keeps each worker's account.
LEMMA SliceAccountsNext ==
  ASSUME NEW filed \in [Workers -> Nat], NEW taken \in [Workers -> Nat],
         Inv(filed, taken), SliceAccounts(taken), [Next]_vars,
         NEW h \in [Workers -> Nat],
         \/ ~Receives /\ h = taken
         \/ \E w \in Workers : ReceivePartial(w) /\ h = Bump(taken, w)
  PROVE  SliceAccounts(h)'
<1> USE DispatchAssumption DEF taskVars, netVars, nodeVars, coordVars
<1>t. /\ conn \in [Workers -> {"idle", "open", "ended", "broken"}]
      /\ stream \in [Workers -> Seq(Partials)]
      /\ produced \in [Workers -> Seq(Counts)]
      /\ engine \in [Workers -> {"off", "running", "stopped", "dead"}]
      /\ wsum \in [Workers -> [finished : BOOLEAN, completed : Nat]]
  BY DEF Inv, TypeOK, TaskTypeOK, NetTypeOK, NodeTypeOK
<1>u. stream' \in [Workers -> Seq(Partials)]
  BY TypeNext DEF TypeOK, NetTypeOK
<1>s. \A x \in Workers :
        /\ Continues(taken[x], stream[x], produced[x], conn[x])
        /\ Accounted(taken[x], stream[x], produced[x], conn[x], engine[x], wsum[x])
        /\ task[x] = "connecting" => conn[x] = "idle"
  BY DEF Inv, StreamInv, SliceAccounts, Dispatched
<1>g. ASSUME h = taken, UNCHANGED <<stream, produced, conn, engine, wsum>>
      PROVE  SliceAccounts(h)'
  BY <1>g, <1>s DEF SliceAccounts
<1>e. \A w \in Workers : ReceivePartial(w) => Receives
  BY DEF Receives
<1>h. ASSUME ~Receives PROVE h = taken
  BY <1>h, <1>e
<1>1. ASSUME NEW w \in Workers, ReceivePartial(w), h = Bump(taken, w) PROVE SliceAccounts(h)'
  <2>1. /\ stream[w] # <<>> /\ stream' = [stream EXCEPT ![w] = Tail(@)]
        /\ wsum' = [wsum EXCEPT ![w] = Observe(@, Head(stream[w]))]
        /\ UNCHANGED <<produced, conn, engine>>
    BY <1>1 DEF ReceivePartial
  <2>2. h[w] = taken[w] + 1 /\ \A x \in Workers : x # w => h[x] = taken[x]
    BY <1>1 DEF Bump
  <2>3. Accounted(h[w], stream'[w], produced'[w], conn'[w], engine'[w], wsum'[w])
    <3>1. Accounted(taken[w] + 1, Tail(stream[w]), produced[w], conn[w], engine[w],
                    Observe(wsum[w], Head(stream[w])))
      BY <1>t, <1>s, <2>1, AccountedRead
    <3> QED
      BY <1>t, <2>1, <2>2, <3>1
  <2> QED BY <1>t, <1>s, <2>1, <2>2, <2>3 DEF SliceAccounts
<1>2. ASSUME ~Receives, NEW w \in Workers, NEW c \in Counts, EngineTick(w, c)
      PROVE  SliceAccounts(h)'
  <2>1. /\ conn[w] = "open" /\ Len(produced[w]) < MaxTicks /\ UNCHANGED <<conn, engine, wsum>>
        /\ produced' = [produced EXCEPT ![w] = Append(@, c)]
        /\ stream' = [stream EXCEPT ![w] = Append(@, PartialOf(Len(produced[w]) + 1, c))]
    BY <1>2 DEF EngineTick
  <2>2. PartialOf(Len(produced[w]) + 1, c) \in Partials
    BY <1>t, <2>1 DEF PartialOf, Partials
  <2>3. Accounted(taken[w], stream'[w], produced'[w], conn'[w], engine'[w], wsum'[w])
    BY <1>t, <1>s, <2>1, <2>2, AccountedTick
  <2> QED BY <1>t, <1>s, <1>h, <1>2, <2>1, <2>3 DEF SliceAccounts
<1>3. ASSUME ~Receives, NEW w \in Workers, SliceEnds(w) PROVE SliceAccounts(h)'
  <2>1. /\ conn[w] = "open" /\ conn' = [conn EXCEPT ![w] = "ended"] /\ engine[w] = "stopped"
        /\ UNCHANGED <<produced, engine, wsum>>
        /\ stream' = [stream EXCEPT ![w] = Append(@, FinalPartial(Len(produced[w]) + 1))]
    BY <1>3 DEF SliceEnds
  <2>2. FinalPartial(Len(produced[w]) + 1) \in Partials
    <3>1. Len(produced[w]) <= MaxTicks /\ Len(produced[w]) \in Nat
      BY <1>t, <1>s DEF Continues
    <3> QED BY <3>1 DEF FinalPartial, Partials
  <2>3. Accounted(taken[w], stream'[w], produced'[w], conn'[w], engine'[w], wsum'[w])
    BY <1>t, <1>s, <2>1, <2>2, AccountedEnd
  <2> QED BY <1>t, <1>s, <1>h, <1>3, <2>1, <2>3 DEF SliceAccounts
<1>4. ASSUME ~Receives, NEW w \in Workers, RunSlice(w) PROVE SliceAccounts(h)'
  <2>1. /\ task[w] = "connecting" /\ conn' = [conn EXCEPT ![w] = "open"]
        /\ engine' = [engine EXCEPT ![w] = "running"]
        /\ UNCHANGED <<stream, produced, wsum>>
    BY <1>4 DEF RunSlice
  <2>2. Accounted(taken[w], stream[w], produced[w], "open", "running", wsum[w])
    BY <1>t, <1>s, <2>1, AccountedStart
  <2> QED BY <1>t, <1>s, <1>h, <1>4, <2>1, <2>2 DEF SliceAccounts
<1>5. ASSUME ~Receives, NEW w \in Workers, WorkerDies(w) \/ StreamBreaks(w)
      PROVE  SliceAccounts(h)'
  <2>1. /\ UNCHANGED <<produced, wsum>>
        /\ engine[w] = "stopped" => engine'[w] = engine[w]
        /\ \A x \in Workers : x # w => engine'[x] = engine[x]
    BY <1>t, <1>5 DEF WorkerDies, StreamBreaks
  <2>2. CASE UNCHANGED <<conn, stream>>
    <3>1. Accounted(taken[w], stream[w], produced[w], conn[w], engine'[w], wsum[w])
      BY <1>s, <2>1 DEF Accounted
    <3> QED BY <1>s, <1>h, <1>5, <2>1, <2>2, <3>1 DEF SliceAccounts
  <2>3. CASE conn' = [conn EXCEPT ![w] = "broken"] /\ LoseSuffix(w)
    <3>1. Accounted(taken[w], stream'[w], produced[w], "broken", engine'[w], wsum[w])
      <4>1. Len(stream'[w]) <= Len(stream[w])
        BY <1>t, <2>3, SuffixLost
      <4> QED
        BY <1>t, <1>u, <1>s, <2>1, <4>1, AccountedBreak
    <3>2. \A x \in Workers : x # w => stream'[x] = stream[x] /\ conn'[x] = conn[x]
      BY <1>t, <2>3, SuffixLost
    <3> QED BY <1>t, <1>s, <1>h, <1>5, <2>1, <2>3, <3>1, <3>2 DEF SliceAccounts
  <2> QED BY <1>5, <2>2, <2>3 DEF WorkerDies, StreamBreaks
<1>6. ASSUME ~Receives, NEW w \in Workers, EngineStops(w) PROVE SliceAccounts(h)'
  <2>1. /\ engine' = [engine EXCEPT ![w] = "stopped"]
        /\ UNCHANGED <<stream, produced, conn, wsum>>
    BY <1>6 DEF EngineStops
  <2>2. Accounted(taken[w], stream[w], produced[w], conn[w], "stopped", wsum[w])
    BY <1>s DEF Accounted
  <2> QED BY <1>t, <1>s, <1>h, <1>6, <2>1, <2>2 DEF SliceAccounts
<1>7. \/ UNCHANGED <<stream, produced, conn, engine, wsum>>
      \/ \E w \in Workers : \/ ReceivePartial(w) \/ RunSlice(w) \/ SliceEnds(w) \/ EngineStops(w)
                            \/ WorkerDies(w) \/ StreamBreaks(w)
                            \/ \E c \in Counts : EngineTick(w, c)
  BY DEF vars, Next, Coordinator, AggregateLoop, Task, Node, Abort, Failure, Quiet, ListWorkers, RegisterRun,
     Aggregate, PollToken, SelectWaits, LeaveAggregation, JoinTasks, DeregisterRun, DialFails,
     RejectSlice, StreamEnds,
     AbortRun, AbortNotInFlight, DeliverAbort, LoseAbort
<1>8. CASE \E w \in Workers : ReceivePartial(w) /\ h = Bump(taken, w)
  BY <1>1, <1>8
<1>9. CASE ~Receives /\ h = taken
  BY <1>g, <1>e, <1>2, <1>3, <1>4, <1>5, <1>6, <1>7, <1>9
<1> QED
  BY <1>8, <1>9

\* A second published is a second of every worker's account.
LEMMA FleetUptoStep ==
  ASSUME NEW F, IsFiniteSet(F), NEW pr, NEW m \in Nat,
         \A x \in F : pr[x] \in Seq(Nat) /\ m < Len(pr[x])
  PROVE  FleetUpto(F, pr, m + 1) = FleetUpto(F, pr, m) + SumFunction([x \in F |-> pr[x][m + 1]])
<1> DEFINE f == [x \in F |-> Upto(pr[x], m)]
           g == [x \in F |-> pr[x][m + 1]]
           h == [x \in F |-> Upto(pr[x], m + 1)]
<1>1. \A x \in F : /\ Upto(pr[x], m) \in Nat /\ pr[x][m + 1] \in Nat
                   /\ Upto(pr[x], m + 1) = Upto(pr[x], m) + pr[x][m + 1]
  <2> SUFFICES ASSUME NEW x \in F
               PROVE  /\ Upto(pr[x], m) \in Nat /\ pr[x][m + 1] \in Nat
                      /\ Upto(pr[x], m + 1) = Upto(pr[x], m) + pr[x][m + 1]
    OBVIOUS
  <2>1. pr[x] \in Seq(Nat) /\ m < Len(pr[x])
    OBVIOUS
  <2>2. pr[x][m + 1] \in Nat
    BY <2>1
  <2> QED
    BY <2>1, <2>2, UptoStep
<1>2. f \in [F -> Nat] /\ g \in [F -> Nat] /\ h = [x \in F |-> f[x] + g[x]]
  BY <1>1
<1> HIDE DEF f, g, h
<1>3. SumFunction(h) = SumFunction(f) + SumFunction(g)
  BY <1>2, SumPlus
<1> QED
  BY <1>3 DEF FleetUpto, f, g, h

\* Before the first second nobody has done anything.
LEMMA FleetUptoZero ==
  ASSUME NEW F, IsFiniteSet(F), NEW pr, \A x \in F : pr[x] \in Seq(Nat)
  PROVE  FleetUpto(F, pr, 0) = 0
<1> DEFINE f == [x \in F |-> Upto(pr[x], 0)]
<1>1. \A x \in F : Upto(pr[x], 0) = 0
  BY UptoZero
<1>2. f \in [F -> Nat] /\ \A x \in F : f[x] = 0
  BY <1>1
<1> HIDE DEF f
<1>3. SumFunction(f) = 0
  BY <1>2, SumZero
<1> QED
  BY <1>3 DEF FleetUpto, f

\* Every step keeps the account of the published seconds.
LEMMA FeedAccountNext ==
  ASSUME NEW filed \in [Workers -> Nat], NEW taken \in [Workers -> Nat],
         Inv(filed, taken), FeedAccount(taken), [Next]_vars,
         NEW g \in [Workers -> Nat], NEW h \in [Workers -> Nat], Inv(g, h)',
         \/ ~Receives /\ h = taken
         \/ \E w \in Workers : ReceivePartial(w) /\ h = Bump(taken, w)
  PROVE  FeedAccount(h)'
<1> USE DispatchAssumption DEF taskVars, netVars, nodeVars, coordVars
<1>t. /\ produced \in [Workers -> Seq(Counts)] /\ fleet \subseteq Workers
      /\ produced' \in [Workers -> Seq(Counts)] /\ fleet' \subseteq Workers
  BY DEF Inv, TypeOK, CoordTypeOK, NodeTypeOK
<1>n. /\ \A x \in Workers : produced[x] \in Seq(Nat) /\ produced'[x] \in Seq(Nat)
      /\ IsFiniteSet(fleet) /\ IsFiniteSet(fleet')
  <2>1. IsFiniteSet(fleet) /\ IsFiniteSet(fleet')
    BY <1>t, FS_Subset
  <2>2. \A x \in Workers : produced[x] \in Seq(Counts) /\ produced'[x] \in Seq(Counts)
    BY <1>t
  <2> QED
    BY <2>1, <2>2, CountsAdd
<1>l. Len(emitted) \in Nat /\ Len(emitted') \in Nat
  BY DEF Inv, EmittedInv
<1>h. \A x \in Workers : taken[x] <= h[x]
  BY DEF Bump
<1>1. CASE emitted' = <<>>
  <2>1. cum' = 0 /\ Len(emitted') = 0
    BY <1>1 DEF Inv, EmittedInv
  <2>2. FleetUpto(fleet', produced', 0) = 0
    BY <1>t, <1>n, FleetUptoZero
  <2>3. \A x \in fleet' : 0 <= h[x] /\ 0 <= Len(produced'[x])
    BY <1>t
  <2> QED
    BY <2>1, <2>2, <2>3 DEF FeedAccount
<1>2. ASSUME UNCHANGED <<fleet, produced, cum, emitted>> PROVE FeedAccount(h)'
  <2>1. \A x \in fleet : Len(emitted) <= h[x]
    BY <1>t, <1>l, <1>h DEF FeedAccount
  <2> QED
    BY <1>2, <2>1 DEF FeedAccount
<1>3. ASSUME NEW w \in Workers, NEW c \in Counts, EngineTick(w, c) PROVE FeedAccount(h)'
  <2>1. produced' = [produced EXCEPT ![w] = Append(@, c)] /\ UNCHANGED <<fleet, cum, emitted>>
    BY <1>3 DEF EngineTick
  <2>2. \A x \in fleet : /\ Len(emitted) <= h[x] /\ Len(emitted) <= Len(produced'[x])
                         /\ Upto(produced'[x], Len(emitted)) = Upto(produced[x], Len(emitted))
    <3> SUFFICES ASSUME NEW x \in fleet
                 PROVE  /\ Len(emitted) <= h[x] /\ Len(emitted) <= Len(produced'[x])
                        /\ Upto(produced'[x], Len(emitted)) = Upto(produced[x], Len(emitted))
      OBVIOUS
    <3>1. /\ x \in Workers /\ Len(emitted) <= taken[x] /\ Len(emitted) <= Len(produced[x])
          /\ produced[x] \in Seq(Nat) /\ c \in Nat
      BY <1>t, <1>n DEF FeedAccount
    <3>2. Len(emitted) <= h[x]
      BY <1>l, <1>h, <3>1
    <3>3. CASE x = w
      <4>1. produced'[x] = Append(produced[x], c) /\ Len(produced'[x]) = Len(produced[x]) + 1
        BY <1>t, <2>1, <3>1, <3>3
      <4>2. Len(emitted) \in 0 .. Len(produced[x])
        BY <1>l, <3>1
      <4> QED
        BY <3>1, <3>2, <4>1, <4>2, UptoAppend
    <3>4. CASE x # w
      BY <1>t, <2>1, <3>1, <3>2, <3>4
    <3> QED
      BY <3>3, <3>4
  <2>3. FleetUpto(fleet, produced', Len(emitted)) = FleetUpto(fleet, produced, Len(emitted))
    BY <2>2 DEF FleetUpto
  <2> QED
    BY <2>1, <2>2, <2>3 DEF FeedAccount
<1>4. ASSUME Aggregate, emitted' # emitted PROVE FeedAccount(h)'
  <2>1. UNCHANGED <<fleet, produced>> /\ Aggregating /\ Aggregating'
    BY <1>4 DEF Aggregate, Aggregating
  <2>2. PICK n, entry :
          /\ n \in Ticks /\ n = Len(emitted) + 1 /\ \A x \in fleet : n <= Len(produced[x])
          /\ entry = [x \in fleet |-> produced[x][n]]
          /\ cum' = cum + SumFunction(entry)
          /\ emitted' = Append(emitted, AggregateTick(n, entry))
    <3>1. Publishes
      BY <1>4, AggregateStep
    <3> QED
      BY <1>4, <3>1 DEF Publishes
  <2>3. Len(emitted') = n
    <3>1. PICK S : emitted \in Seq(S)
      BY DEF Inv, EmittedInv
    <3> DEFINE a == AggregateTick(n, entry)
    <3>2. emitted \in Seq(S \cup {a}) /\ a \in S \cup {a}
      BY <3>1
    <3> HIDE DEF a
    <3>3. Len(Append(emitted, a)) = Len(emitted) + 1
      BY <3>2, AppendOne
    <3> QED
      BY <2>2, <3>3 DEF a
  <2>4. \A x \in fleet : n <= h[x]
    <3>1. AggregatorInv(g, h)'
      BY <2>1 DEF Inv
    <3>2. \A x \in fleet : n <= g[x] /\ g[x] <= h[x]
      BY <2>1, <2>3, <3>1 DEF AggregatorInv, Queued, NoneMissing, Filed
    <3> QED
      BY <1>t, <1>l, <2>2, <3>2
  <2>5. FleetUpto(fleet, produced, n) = cum + SumFunction(entry)
    <3>1. \A x \in fleet : produced[x] \in Seq(Nat) /\ Len(emitted) < Len(produced[x])
      BY <1>t, <1>n, <1>l, <2>2
    <3>2. FleetUpto(fleet, produced, Len(emitted) + 1) =
            FleetUpto(fleet, produced, Len(emitted))
              + SumFunction([x \in fleet |-> produced[x][Len(emitted) + 1]])
      <4>1. PICK m \in Nat : m = Len(emitted)
        BY <1>l
      <4>2. IsFiniteSet(fleet) /\ \A x \in fleet : produced[x] \in Seq(Nat) /\ m < Len(produced[x])
        BY <1>n, <3>1, <4>1
      <4>3. FleetUpto(fleet, produced, m + 1) =
              FleetUpto(fleet, produced, m) + SumFunction([x \in fleet |-> produced[x][m + 1]])
        BY <4>2, FleetUptoStep, SMTT(20)
      <4> QED
        BY <4>1, <4>3
    <3> QED
      BY <2>2, <3>2 DEF FeedAccount
  <2> QED
    BY <2>1, <2>2, <2>3, <2>4, <2>5 DEF FeedAccount
<1>5. ASSUME NEW S \in SUBSET Workers, ListWorkers(S) PROVE emitted' = <<>>
  BY <1>5 DEF ListWorkers, Inv, EarlyInv, Early
<1>6. Aggregate => UNCHANGED <<fleet, produced>> /\ (emitted' = emitted => cum' = cum)
  <2> SUFFICES ASSUME Aggregate, emitted' = emitted PROVE cum' = cum
    BY DEF Aggregate
  <2>1. CASE emitted = <<>>
    BY <2>1 DEF Inv, EmittedInv
  <2>2. CASE emitted # <<>>
    BY <2>2 DEF Inv, EmittedInv
  <2> QED
    BY <2>1, <2>2
<1>7. \/ UNCHANGED <<fleet, produced, cum, emitted>> \/ Aggregate
      \/ \E S \in SUBSET Workers : ListWorkers(S)
      \/ \E w \in Workers, c \in Counts : EngineTick(w, c)
  BY DEF vars, Next, Coordinator, AggregateLoop, Task, Node, Abort, Failure, Quiet, RegisterRun,
     PollToken, SelectWaits, LeaveAggregation, JoinTasks, DeregisterRun, DialFails, RejectSlice, RunSlice,
     ReceivePartial, StreamEnds, EngineStops, SliceEnds, AbortRun, AbortNotInFlight,
     DeliverAbort, LoseAbort, WorkerDies, StreamBreaks
<1> QED
  BY <1>1, <1>2, <1>3, <1>4, <1>5, <1>6, <1>7

\* The summary is made once, from the accounts at that time.
LEMMA SummaryAccountNext ==
  ASSUME NEW filed \in [Workers -> Nat], NEW taken \in [Workers -> Nat],
         Inv(filed, taken), SummaryAccount, [Next]_vars
  PROVE  SummaryAccount'
<1> USE DEF taskVars, netVars, nodeVars, coordVars
<1>f. \A x \in Workers : task[x] # "none" => x \in fleet
  BY DEF Inv, StreamInv, Dispatched
<1>1. CASE JoinTasks
  <2>1. /\ summary' = [finished  |-> Cardinality(Finished),
                       lost      |-> IF cancelled THEN 0
                                     ELSE Cardinality(fleet) - Cardinality(Finished),
                       completed |-> SumFunction([w \in fleet |-> wsum[w].completed]),
                       aborted   |-> cancelled]
        /\ TasksDone /\ UNCHANGED <<fleet, task, wsum>>
    BY <1>1 DEF JoinTasks
  <2>2. Finished' = Finished
    BY <2>1 DEF Finished
  <2> QED
    BY <2>1, <2>2 DEF SummaryAccount, TasksDone
<1>2. CASE ~Summed'
  BY <1>2 DEF SummaryAccount
<1>3. CASE Summed /\ UNCHANGED <<fleet, task, wsum, summary>>
  <2>1. Finished' = Finished
    BY <1>3 DEF Finished
  <2> QED
    BY <1>3, <2>1 DEF SummaryAccount, TasksDone
<1>4. ASSUME NEW w \in Workers,
             \/ DialFails(w) \/ RejectSlice(w) \/ RunSlice(w) \/ ReceivePartial(w)
             \/ StreamEnds(w)
      PROVE  ~Summed'
  <2>1. task[w] \notin {"none", "done"} /\ dpc' = dpc
    BY <1>4 DEF DialFails, RejectSlice, RunSlice, ReceivePartial, StreamEnds
  <2>2. w \in fleet
    BY <1>f, <2>1
  <2> QED
    BY <2>1, <2>2 DEF SummaryAccount, Summed, TasksDone
<1>5. \/ JoinTasks \/ ~Summed' \/ (Summed /\ UNCHANGED <<fleet, task, wsum, summary>>)
      \/ \E w \in Workers : \/ DialFails(w) \/ RejectSlice(w) \/ RunSlice(w)
                            \/ ReceivePartial(w) \/ StreamEnds(w)
  BY DEF Summed, vars, Next, Coordinator, AggregateLoop, Task, Node, Abort, Failure, Quiet, ListWorkers,
     RegisterRun, Aggregate, PollToken, SelectWaits, LeaveAggregation, DeregisterRun, EngineTick,
     EngineStops, SliceEnds, AbortRun, AbortNotInFlight, DeliverAbort, LoseAbort, WorkerDies,
     StreamBreaks
<1> QED
  BY <1>1, <1>2, <1>3, <1>4, <1>5

\* Every step keeps what task, connection, engine and token know of each other.
LEMMA SlicesKnownNext ==
  ASSUME NEW filed \in [Workers -> Nat], NEW taken \in [Workers -> Nat],
         Inv(filed, taken), SlicesKnown, [Next]_vars
  PROVE  SlicesKnown'
<1> USE DEF taskVars, netVars, nodeVars, coordVars, envVars
<1>t. /\ task \in [Workers -> {"none", "connecting", "streaming", "done"}]
      /\ conn \in [Workers -> {"idle", "open", "ended", "broken"}]
      /\ stream \in [Workers -> Seq(Partials)]
      /\ engine \in [Workers -> {"off", "running", "stopped", "dead"}]
      /\ token \in [Workers -> {"absent", "live", "cancelled"}]
      /\ alive \in [Workers -> BOOLEAN]
  BY DEF Inv, TypeOK, TaskTypeOK, NetTypeOK, NodeTypeOK
<1>n. crashes \in Nat /\ breaks \in Nat /\ crashes' \in Nat /\ breaks' \in Nat
  <2>1. EnvTypeOK /\ EnvTypeOK'
    BY TypeNext DEF Inv, TypeOK
  <2> QED
    BY <2>1, DispatchAssumption DEF EnvTypeOK
<1>s. \A x \in Workers :
        /\ SliceKnown(task[x], stream[x], conn[x], engine[x], token[x], alive[x])
        /\ task[x] \in {"none", "connecting"} => conn[x] = "idle"
        /\ conn[x] = "idle" => stream[x] = <<>>
  BY DEF Inv, StreamInv, SlicesKnown, Dispatched, Continues
\* Steps that touch worker w only, and may use up a bound.
<1>o. ASSUME NEW w \in Workers,
             \A x \in Workers : x # w => /\ task'[x] = task[x] /\ stream'[x] = stream[x]
                                         /\ conn'[x] = conn[x] /\ engine'[x] = engine[x]
                                         /\ token'[x] = token[x] /\ alive'[x] = alive[x],
             SliceKnown(task[w], stream[w], conn[w], engine[w], token[w], alive[w])',
             crashes' >= crashes, breaks' >= breaks, specValid' = specValid
      PROVE  SlicesKnown'
  <2> SUFFICES ASSUME NEW x \in Workers, x # w
               PROVE  SliceKnown(task[x], stream[x], conn[x], engine[x], token[x], alive[x])'
    BY <1>o DEF SlicesKnown
  <2>1. SliceKnown(task[x], stream[x], conn[x], engine[x], token[x], alive[x])
    BY <1>s
  <2> QED
    BY <1>n, <1>o, <2>1 DEF SliceKnown
<1>1. ASSUME NEW w \in Workers, DialFails(w) PROVE SlicesKnown'
  <2>1. /\ task[w] = "connecting" /\ task' = [task EXCEPT ![w] = "done"]
        /\ UNCHANGED <<stream, conn, engine, token, alive, crashes, specValid>>
        /\ breaks' = IF alive[w] THEN breaks + 1 ELSE breaks
    BY <1>1 DEF DialFails
  <2>2. SliceKnown(task[w], stream[w], conn[w], engine[w], token[w], alive[w])'
    BY <1>t, <1>n, <1>s, <2>1 DEF SliceKnown
  <2> QED
    BY <1>t, <1>n, <1>o, <2>1, <2>2
<1>2. ASSUME NEW w \in Workers, RejectSlice(w) PROVE SlicesKnown'
  <2>1. /\ task[w] = "connecting" /\ task' = [task EXCEPT ![w] = "done"] /\ ~specValid
        /\ UNCHANGED <<stream, conn, engine, token, alive, crashes, breaks, specValid>>
    BY <1>2 DEF RejectSlice
  <2>2. SliceKnown(task[w], stream[w], conn[w], engine[w], token[w], alive[w])'
    BY <1>t, <1>n, <1>s, <2>1 DEF SliceKnown
  <2> QED
    BY <1>t, <1>n, <1>o, <2>1, <2>2
<1>3. ASSUME NEW w \in Workers, RunSlice(w) PROVE SlicesKnown'
  <2>1. /\ task[w] = "connecting" /\ task' = [task EXCEPT ![w] = "streaming"]
        /\ token' = [token EXCEPT ![w] = "live"] /\ engine' = [engine EXCEPT ![w] = "running"]
        /\ conn' = [conn EXCEPT ![w] = "open"]
        /\ UNCHANGED <<stream, alive, crashes, breaks, specValid>>
    BY <1>3 DEF RunSlice
  <2>2. SliceKnown(task[w], stream[w], conn[w], engine[w], token[w], alive[w])'
    BY <1>t, <1>n, <1>s, <2>1 DEF SliceKnown
  <2> QED
    BY <1>t, <1>n, <1>o, <2>1, <2>2
<1>4. ASSUME NEW w \in Workers, NEW c \in Counts, EngineTick(w, c) PROVE SlicesKnown'
  <2>1. /\ conn[w] = "open" /\ engine[w] = "running"
        /\ stream' = [stream EXCEPT ![w] = Append(@, PartialOf(Len(produced[w]) + 1, c))]
        /\ UNCHANGED <<task, conn, engine, token, alive, crashes, breaks, specValid>>
    BY <1>4 DEF EngineTick
  <2>2. SliceKnown(task[w], stream[w], conn[w], engine[w], token[w], alive[w])'
    BY <1>t, <1>n, <1>s, <2>1 DEF SliceKnown
  <2> QED
    BY <1>t, <1>n, <1>o, <2>1, <2>2
<1>5. ASSUME NEW w \in Workers, EngineStops(w) PROVE SlicesKnown'
  <2>1. /\ engine' = [engine EXCEPT ![w] = "stopped"]
        /\ UNCHANGED <<task, stream, conn, token, alive, crashes, breaks, specValid>>
    BY <1>5 DEF EngineStops
  <2>2. SliceKnown(task[w], stream[w], conn[w], engine[w], token[w], alive[w])'
    BY <1>t, <1>n, <1>s, <2>1 DEF SliceKnown
  <2> QED
    BY <1>t, <1>n, <1>o, <2>1, <2>2
<1>6. ASSUME NEW w \in Workers, SliceEnds(w) PROVE SlicesKnown'
  <2>1. /\ conn[w] = "open" /\ engine[w] = "stopped" /\ conn' = [conn EXCEPT ![w] = "ended"]
        /\ token' = [token EXCEPT ![w] = "absent"]
        /\ stream' = [stream EXCEPT ![w] = Append(@, FinalPartial(Len(produced[w]) + 1))]
        /\ UNCHANGED <<task, engine, alive, crashes, breaks, specValid>>
    BY <1>6 DEF SliceEnds
  <2>2. SliceKnown(task[w], stream[w], conn[w], engine[w], token[w], alive[w])'
    BY <1>t, <1>n, <1>s, <2>1 DEF SliceKnown
  <2> QED
    BY <1>t, <1>n, <1>o, <2>1, <2>2
<1>7. ASSUME NEW w \in Workers, ReceivePartial(w) PROVE SlicesKnown'
  <2>1. /\ task[w] = "streaming" /\ stream' = [stream EXCEPT ![w] = Tail(@)]
        /\ UNCHANGED <<task, conn, engine, token, alive, crashes, breaks, specValid>>
    BY <1>7 DEF ReceivePartial
  <2>2. SliceKnown(task[w], stream[w], conn[w], engine[w], token[w], alive[w])'
    BY <1>t, <1>n, <1>s, <2>1 DEF SliceKnown
  <2> QED
    BY <1>t, <1>n, <1>o, <2>1, <2>2
<1>8. ASSUME NEW w \in Workers, StreamEnds(w) PROVE SlicesKnown'
  <2>1. /\ stream[w] = <<>> /\ conn[w] \in {"ended", "broken"}
        /\ task' = [task EXCEPT ![w] = "done"]
        /\ UNCHANGED <<stream, conn, engine, token, alive, crashes, breaks, specValid>>
    BY <1>8 DEF StreamEnds
  <2>2. SliceKnown(task[w], stream[w], conn[w], engine[w], token[w], alive[w])'
    BY <1>t, <1>n, <1>s, <2>1 DEF SliceKnown
  <2> QED
    BY <1>t, <1>n, <1>o, <2>1, <2>2
<1>9. ASSUME NEW w \in Workers, DeliverAbort(w) PROVE SlicesKnown'
  <2>1. /\ token' = [token EXCEPT ![w] = IF @ = "live" THEN "cancelled" ELSE @]
        /\ UNCHANGED <<task, stream, conn, engine, alive, crashes, breaks, specValid>>
    BY <1>9 DEF DeliverAbort
  <2>2. SliceKnown(task[w], stream[w], conn[w], engine[w], token[w], alive[w])'
    BY <1>t, <1>n, <1>s, <2>1 DEF SliceKnown
  <2> QED
    BY <1>t, <1>n, <1>o, <2>1, <2>2
<1>10. ASSUME NEW w \in Workers, LoseAbort(w) PROVE SlicesKnown'
  <2>1. /\ UNCHANGED <<task, stream, conn, engine, token, alive, crashes, specValid>>
        /\ breaks' >= breaks
    BY <1>n, <1>10 DEF LoseAbort
  <2>2. SliceKnown(task[w], stream[w], conn[w], engine[w], token[w], alive[w])'
    BY <1>t, <1>n, <1>s, <2>1 DEF SliceKnown
  <2> QED
    BY <1>t, <1>n, <1>o, <2>1, <2>2
\* A stream that breaks: nothing was in flight if its task was done.
<1>b. ASSUME NEW w \in Workers, LoseSuffix(w)
      PROVE  /\ \A x \in Workers : x # w => stream'[x] = stream[x]
             /\ stream[w] = <<>> => stream'[w] = <<>>
  <2>1. /\ stream' \in [Workers -> Seq(Partials)] /\ Len(stream'[w]) <= Len(stream[w])
        /\ \A x \in Workers : x # w => stream'[x] = stream[x]
    BY <1>t, <1>b, SuffixLost
  <2> QED
    BY <2>1
<1>11. ASSUME NEW w \in Workers, WorkerDies(w) PROVE SlicesKnown'
  <2>1. /\ crashes' = crashes + 1 /\ alive' = [alive EXCEPT ![w] = FALSE]
        /\ engine' = [engine EXCEPT ![w] = IF @ = "running" THEN "dead" ELSE @]
        /\ token' = [token EXCEPT ![w] = "absent"]
        /\ UNCHANGED <<task, breaks, specValid>>
        /\ \/ /\ conn[w] \in {"open", "ended"}
              /\ conn' = [conn EXCEPT ![w] = "broken"] /\ LoseSuffix(w)
           \/ conn[w] \notin {"open", "ended"} /\ UNCHANGED <<conn, stream>>
    BY <1>11 DEF WorkerDies
  <2>2. SliceKnown(task[w], stream[w], conn[w], engine[w], token[w], alive[w])'
    BY <1>t, <1>n, <1>s, <1>b, <2>1 DEF SliceKnown
  <2>3. \A x \in Workers : x # w => stream'[x] = stream[x] /\ conn'[x] = conn[x]
    BY <1>t, <1>b, <2>1
  <2>4. \A x \in Workers : x # w => /\ task'[x] = task[x] /\ engine'[x] = engine[x]
                                    /\ token'[x] = token[x] /\ alive'[x] = alive[x]
    BY <1>t, <2>1
  <2>5. crashes' >= crashes /\ breaks' >= breaks /\ specValid' = specValid
    BY <1>n, <2>1
  <2> QED
    BY <1>o, <2>2, <2>3, <2>4, <2>5
<1>12. ASSUME NEW w \in Workers, StreamBreaks(w) PROVE SlicesKnown'
  <2>1. /\ breaks' = breaks + 1 /\ conn[w] \in {"open", "ended"}
        /\ conn' = [conn EXCEPT ![w] = "broken"] /\ LoseSuffix(w)
        /\ UNCHANGED <<task, engine, token, alive, crashes, specValid>>
    BY <1>12 DEF StreamBreaks
  <2>2. SliceKnown(task[w], stream[w], conn[w], engine[w], token[w], alive[w])'
    BY <1>t, <1>n, <1>s, <1>b, <2>1 DEF SliceKnown
  <2>3. \A x \in Workers : x # w => stream'[x] = stream[x] /\ conn'[x] = conn[x]
    BY <1>t, <1>b, <2>1
  <2>4. \A x \in Workers : x # w => /\ task'[x] = task[x] /\ engine'[x] = engine[x]
                                    /\ token'[x] = token[x] /\ alive'[x] = alive[x]
    BY <2>1
  <2>5. crashes' >= crashes /\ breaks' >= breaks /\ specValid' = specValid
    BY <1>n, <2>1
  <2> QED
    BY <1>o, <2>2, <2>3, <2>4, <2>5
<1>13. CASE RegisterRun
  <2>1. /\ \A x \in Workers : task'[x] # "done"
        /\ UNCHANGED <<stream, conn, engine, token, alive, crashes, breaks, specValid>>
    BY <1>13 DEF RegisterRun
  <2> QED
    BY <1>s, <2>1 DEF SlicesKnown, SliceKnown
<1>14. CASE UNCHANGED <<task, stream, conn, engine, token, alive, crashes, breaks, specValid>>
  BY <1>s, <1>14 DEF SlicesKnown, SliceKnown
<1>15. \/ RegisterRun
       \/ UNCHANGED <<task, stream, conn, engine, token, alive, crashes, breaks, specValid>>
       \/ \E w \in Workers : Task(w) \/ Node(w) \/ DeliverAbort(w) \/ LoseAbort(w)
                             \/ WorkerDies(w) \/ StreamBreaks(w)
  BY DEF vars, Next, Coordinator, AggregateLoop, Abort, Failure, Quiet, ListWorkers, Aggregate,
     PollToken, SelectWaits, LeaveAggregation, JoinTasks, DeregisterRun, AbortRun, AbortNotInFlight
<1> QED
  BY <1>1, <1>2, <1>3, <1>4, <1>5, <1>6, <1>7, <1>8, <1>9, <1>10, <1>11, <1>12, <1>13, <1>14,
     <1>15 DEF Task, Node

\* A run is in the registry from RegisterRun to DeregisterRun.
LEMMA RegisteredNext == Registered /\ [Next]_vars => Registered'
<1> SUFFICES ASSUME Registered, [Next]_vars PROVE Registered'
  OBVIOUS
<1> USE DEF coordVars, taskVars, netVars, nodeVars
<1>1. CASE UNCHANGED <<dpc, inFlight>>
  BY <1>1 DEF Registered
<1>2. ASSUME NEW S \in SUBSET Workers, ListWorkers(S) PROVE Registered'
  BY <1>2 DEF ListWorkers, Registered
<1>3. CASE RegisterRun
  BY <1>3 DEF RegisterRun, Registered
<1>4. CASE PollToken \/ SelectWaits \/ Aggregate \/ LeaveAggregation \/ JoinTasks
  BY <1>4 DEF PollToken, SelectWaits, Aggregate, LeaveAggregation, JoinTasks, Registered
<1>5. CASE DeregisterRun
  BY <1>5 DEF DeregisterRun, Registered
<1>6. CASE AbortRun
  BY <1>6 DEF AbortRun, Registered
<1>7. \/ UNCHANGED <<dpc, inFlight>> \/ \E S \in SUBSET Workers : ListWorkers(S)
      \/ RegisterRun \/ PollToken \/ SelectWaits \/ Aggregate \/ LeaveAggregation
      \/ JoinTasks \/ DeregisterRun \/ AbortRun
  BY DEF vars, Next, Coordinator, AggregateLoop, Task, Node, Abort, Failure, Quiet, DialFails,
     RejectSlice, RunSlice, ReceivePartial, StreamEnds, EngineTick, EngineStops, SliceEnds,
     AbortNotInFlight, DeliverAbort, LoseAbort, WorkerDies, StreamBreaks
<1> QED
  BY <1>1, <1>2, <1>3, <1>4, <1>5, <1>6, <1>7

\* Every trace of an abort leads back to one.
LEMMA AbortTracesNext ==
  ASSUME TypeOK, AbortTraces, [Next]_vars
  PROVE  AbortTraces'
<1> USE DEF coordVars, taskVars, netVars, nodeVars, envVars
<1>t. token \in [Workers -> {"absent", "live", "cancelled"}]
  BY DEF TypeOK, NodeTypeOK
<1>1. CASE AbortRun
  BY <1>1 DEF AbortRun, AbortTraces
<1>2. CASE JoinTasks
  BY <1>2 DEF JoinTasks, AbortTraces
<1>3. ASSUME NEW w \in Workers, DeliverAbort(w) PROVE AbortTraces'
  BY <1>3 DEF DeliverAbort, AbortTraces
<1>4. ASSUME UNCHANGED <<cancelled, summary, acked>>, fanout' \subseteq fanout,
             \A w \in Workers : token'[w] = "cancelled" => token[w] = "cancelled"
      PROVE  AbortTraces'
  BY <1>4 DEF AbortTraces
<1>5. ASSUME NEW w \in Workers, RunSlice(w) \/ SliceEnds(w) \/ WorkerDies(w)
      PROVE  /\ UNCHANGED <<cancelled, summary, acked>> /\ fanout' \subseteq fanout
             /\ \A x \in Workers : token'[x] = "cancelled" => token[x] = "cancelled"
  BY <1>t, <1>5 DEF RunSlice, SliceEnds, WorkerDies
<1>6. \/ AbortRun \/ JoinTasks \/ \E w \in Workers : DeliverAbort(w)
      \/ UNCHANGED <<cancelled, summary, acked, token>> /\ fanout' \subseteq fanout
      \/ \E w \in Workers : RunSlice(w) \/ SliceEnds(w) \/ WorkerDies(w)
  BY ZenonT(40)
  DEF vars, Next, Coordinator, AggregateLoop, Task, Node, Abort, Failure, Quiet, ListWorkers,
      RegisterRun, Aggregate, PollToken, SelectWaits, LeaveAggregation, DeregisterRun, DialFails,
      RejectSlice, ReceivePartial, StreamEnds, EngineTick, EngineStops, AbortNotInFlight,
      LoseAbort, StreamBreaks
<1> QED
  BY <1>1, <1>2, <1>3, <1>4, <1>5, <1>6

\* At the start all accounts are empty.
LEMMA BooksInit == Init => BooksInv
<1> SUFFICES ASSUME Init PROVE BooksInv
  OBVIOUS
<1> USE DispatchAssumption
<1>1. TraceInv
  <2>1. /\ SummaryAccount /\ Registered
    BY DEF Init, SummaryAccount, Summed, Registered
  <2>2. SlicesKnown
    BY DEF Init, SlicesKnown, SliceKnown
  <2>3. AbortTraces
    BY DEF Init, AbortTraces, NoSummary
  <2> QED
    BY <2>1, <2>2, <2>3 DEF TraceInv
<1>2. PICK filed \in [Workers -> Nat], taken \in [Workers -> Nat] : Inv(filed, taken)
  BY InvInit DEF FeedInv
<1>3. ASSUME NEW w \in Workers
      PROVE  Accounted(taken[w], stream[w], produced[w], conn[w], engine[w], wsum[w])
  <2>1. /\ conn[w] = "idle" /\ produced[w] = <<>> /\ stream[w] = <<>>
        /\ wsum[w] = [finished |-> FALSE, completed |-> 0]
    BY DEF Init
  <2>2. taken[w] = 0
    BY <1>2, <2>1 DEF Inv, StreamInv, Continues
  <2>3. Upto(<<>>, 0) = 0
    <3>1. <<>> \in Seq(Nat)
      OBVIOUS
    <3> QED
      BY <3>1, UptoZero
  <2> QED
    BY <2>1, <2>2, <2>3 DEF Accounted, TicksRead
<1>4. FeedAccount(taken)
  <2>1. fleet = {} /\ cum = 0 /\ emitted = <<>>
    BY DEF Init
  <2>2. FleetUpto({}, produced, 0) = 0
    BY FS_EmptySet, FleetUptoZero
  <2> QED
    BY <2>1, <2>2 DEF FeedAccount
<1> QED
  BY <1>1, <1>2, <1>3, <1>4 DEF BooksInv, SliceAccounts

\* Every step keeps all accounts.
LEMMA BooksNext == BooksInv /\ [Next]_vars => BooksInv'
<1> SUFFICES ASSUME TraceInv, NEW filed \in [Workers -> Nat], NEW taken \in [Workers -> Nat],
                    Inv(filed, taken), SliceAccounts(taken), FeedAccount(taken), [Next]_vars
             PROVE  BooksInv'
  BY DEF BooksInv
<1>1. TraceInv'
  <2>1. TypeOK
    BY DEF Inv
  <2> QED
    BY <2>1, SummaryAccountNext, SlicesKnownNext, RegisteredNext, AbortTracesNext DEF TraceInv
<1>2. PICK g \in [Workers -> Nat], h \in [Workers -> Nat] :
        /\ Inv(g, h)'
        /\ \/ ~Receives /\ h = taken
           \/ \E w \in Workers : ReceivePartial(w) /\ h = Bump(taken, w)
  BY CoreNext
<1>3. SliceAccounts(h)'
  BY <1>2, SliceAccountsNext
<1>4. FeedAccount(h)'
  BY <1>2, FeedAccountNext
<1> QED
  BY <1>1, <1>2, <1>3, <1>4 DEF BooksInv

\* They hold in every state.
LEMMA BooksInvariant == Spec => []BooksInv
  BY BooksInit, BooksNext, PTL DEF Spec

\* What the accounts come to when the summary is made.
LEMMA SlicesSummed ==
  ASSUME NEW filed \in [Workers -> Nat], NEW taken \in [Workers -> Nat],
         Inv(filed, taken), SliceAccounts(taken), NEW w \in fleet
  PROVE  /\ w \in Workers /\ produced[w] \in Seq(Nat) /\ taken[w] \in Nat
         /\ taken[w] + Len(stream[w]) <= Len(produced[w]) + 1
         /\ TicksRead(taken[w], produced[w]) \in 0 .. Len(produced[w])
         /\ wsum[w].completed = Upto(produced[w], TicksRead(taken[w], produced[w]))
         /\ wsum[w].completed \in Nat
         /\ SliceTotal(w) = Upto(produced[w], Len(produced[w]))
         /\ wsum[w].finished <=> taken[w] = Len(produced[w]) + 1
<1>1. w \in Workers /\ produced[w] \in Seq(Counts) /\ produced[w] \in Seq(Nat)
  BY CountsAdd DEF Inv, TypeOK, CoordTypeOK, NodeTypeOK
<1>2. /\ wsum[w].completed = Upto(produced[w], TicksRead(taken[w], produced[w]))
      /\ wsum[w].finished <=> taken[w] = Len(produced[w]) + 1
  BY <1>1 DEF SliceAccounts, Accounted
<1>3. TicksRead(taken[w], produced[w]) \in 0 .. Len(produced[w])
  BY <1>1 DEF TicksRead
<1>4. SliceTotal(w) = Upto(produced[w], Len(produced[w]))
  BY <1>1, UptoAll DEF SliceTotal
<1>5. taken[w] + Len(stream[w]) <= Len(produced[w]) + 1
  BY <1>1 DEF Inv, StreamInv, Continues
<1>6. wsum[w].completed \in Nat
  <2>1. Len(produced[w]) \in 0 .. Len(produced[w])
    BY <1>1
  <2> QED
    BY <1>1, <1>2, <1>3, <2>1, UptoMonotone
<1> QED
  BY <1>1, <1>2, <1>3, <1>4, <1>5, <1>6

\* An account is closed only after the engine has stopped.
LEMMA FinishedStopped ==
  ASSUME NEW filed \in [Workers -> Nat], NEW taken \in [Workers -> Nat],
         Inv(filed, taken), SliceAccounts(taken), NEW w \in fleet,
         taken[w] = Len(produced[w]) + 1
  PROVE  engine[w] = "stopped"
<1>1. /\ w \in Workers /\ taken[w] \in Nat
      /\ taken[w] + Len(stream[w]) <= Len(produced[w]) + 1
  BY SlicesSummed
<1>2. stream[w] \in Seq(Partials) /\ produced[w] \in Seq(Counts)
  BY <1>1 DEF Inv, TypeOK, NetTypeOK, NodeTypeOK
<1>3. Len(stream[w]) \in Nat /\ Len(produced[w]) \in Nat
  BY <1>2
<1>4. Len(stream[w]) = 0
  <2>1. PICK n \in Nat, l \in Nat : n = Len(stream[w]) /\ l = Len(produced[w])
    BY <1>3
  <2>2. taken[w] = l + 1 /\ taken[w] + n <= l + 1
    BY <1>1, <2>1
  <2>3. n = 0
    BY <2>2
  <2> QED
    BY <2>1, <2>3
<1>5. taken[w] + Len(stream[w]) = Len(produced[w]) + 1
  BY <1>3, <1>4
<1> QED
  BY <1>1, <1>5 DEF SliceAccounts, Accounted

(***************************************************************************)
(* The theorems.                                                           *)
(***************************************************************************)

\* In every reachable state of a dispatch the variables have their types: the
\* aggregator holds nothing of a worker outside the snapshot, and no published
\* second lies past the run's duration.
THEOREM DispatchTypeCorrect == Spec => []TypeOK
<1>1. FeedInv => TypeOK
  BY DEF FeedInv, Inv
<1> QED
  BY <1>1, FeedInvariant, PTL

\* The seconds that aggregate_loop sends to tick_tx are 1, 2, 3, ... for every
\* fleet and every interleaving of its streams, deaths, breaks and aborts.
THEOREM TicksAreConsecutive == Spec => []TicksConsecutive
<1>1. FeedInv => TicksConsecutive
  BY DEF FeedInv, Inv, EmittedInv, TicksConsecutive
<1> QED
  BY <1>1, FeedInvariant, PTL

\* Between the poll of the token and the channel there is one tick still to come.
FreezeInv ==
  cancelled => /\ Len(emitted) <= atAbort + 1
               /\ dpc = "receiving" => Len(emitted) <= atAbort

\* One turn publishes at most one tick.
LEMMA OneTickATurn ==
  ASSUME TypeOK, EmittedInv, Aggregate
  PROVE  Len(emitted) \in Nat /\ atAbort \in Nat /\ Len(emitted') <= Len(emitted) + 1
<1>1. PICK S : emitted \in Seq(S)
  BY DEF EmittedInv
<1>2. Len(emitted) \in Nat
  BY <1>1
<1>3. atAbort \in Nat
  BY <1>2 DEF TypeOK, EnvTypeOK
<1>4. emitted' = emitted \/ \E a : emitted' = Append(emitted, a)
  BY DEF Aggregate
<1>5. ASSUME NEW a, emitted' = Append(emitted, a)
      PROVE  Len(emitted') = Len(emitted) + 1
  <2>1. emitted \in Seq(S \cup {a}) /\ a \in S \cup {a}
    BY <1>1
  <2> QED
    BY <1>5, <2>1, AppendOne
<1> QED
  BY <1>2, <1>3, <1>4, <1>5

\* Every step keeps it.
LEMMA FreezeNext ==
  ASSUME TypeOK, EmittedInv, FreezeInv, [Next]_vars
  PROVE  FreezeInv'
<1> USE DEF coordVars, taskVars, netVars, nodeVars, envVars
<1>1. CASE UNCHANGED <<dpc, cancelled, emitted, atAbort>>
  BY <1>1 DEF FreezeInv
<1>2. CASE Aggregate
  <2>1. UNCHANGED <<cancelled, atAbort>> /\ dpc = "receiving" /\ dpc' = "aggregating"
    BY <1>2 DEF Aggregate
  <2>2. Len(emitted) \in Nat /\ atAbort \in Nat /\ Len(emitted') <= Len(emitted) + 1
    BY <1>2, OneTickATurn
  <2>3. PICK n \in Nat : n = Len(emitted)
    BY <2>2
  <2>4. emitted' = emitted \/ \E a : emitted' = Append(emitted, a)
    BY <1>2 DEF Aggregate
  <2>5. Len(emitted') \in Nat
    <3>1. PICK S : emitted \in Seq(S)
      BY DEF EmittedInv
    <3>2. ASSUME NEW a, emitted' = Append(emitted, a) PROVE Len(emitted') \in Nat
      <4>1. emitted \in Seq(S \cup {a}) /\ a \in S \cup {a}
        BY <3>1
      <4> QED
        BY <2>3, <3>2, <4>1, AppendOne
    <3> QED
      BY <2>3, <2>4, <3>2
  <2>6. PICK k \in Nat : k = Len(emitted')
    BY <2>5
  <2> QED
    BY <2>1, <2>2, <2>3, <2>6 DEF FreezeInv
<1>3. CASE AbortRun
  <2>1. /\ UNCHANGED <<dpc, emitted>> /\ cancelled'
        /\ atAbort' = IF cancelled THEN atAbort ELSE Len(emitted)
    BY <1>3 DEF AbortRun
  <2>2. PICK n \in Nat : n = Len(emitted)
    BY DEF EmittedInv
  <2> QED
    BY <2>1, <2>2 DEF FreezeInv
<1>4. ASSUME UNCHANGED <<cancelled, emitted, atAbort>>, cancelled => dpc' # "receiving"
      PROVE  FreezeInv'
  BY <1>4 DEF FreezeInv
<1>5. ASSUME PollToken \/ SelectWaits \/ RegisterRun \/ LeaveAggregation \/ JoinTasks
             \/ DeregisterRun \/ (\E S \in SUBSET Workers : ListWorkers(S))
      PROVE  UNCHANGED <<cancelled, emitted, atAbort>> /\ (cancelled => dpc' # "receiving")
  BY <1>5 DEF PollToken, SelectWaits, RegisterRun, LeaveAggregation, JoinTasks, DeregisterRun,
     ListWorkers
<1>6. \/ UNCHANGED <<dpc, cancelled, emitted, atAbort>> \/ Aggregate \/ AbortRun
      \/ PollToken \/ SelectWaits \/ RegisterRun \/ LeaveAggregation \/ JoinTasks
      \/ DeregisterRun \/ (\E S \in SUBSET Workers : ListWorkers(S))
  BY DEF vars, Next, Coordinator, AggregateLoop, Task, Node, Abort, Failure, Quiet, DialFails,
     RejectSlice, RunSlice, ReceivePartial, StreamEnds, EngineTick, EngineStops, SliceEnds,
     AbortNotInFlight, DeliverAbort, LoseAbort, WorkerDies, StreamBreaks
<1> QED
  BY <1>1, <1>2, <1>3, <1>4, <1>5, <1>6

\* For every fleet and duration: after abort_run has cancelled the token,
\* aggregate_loop publishes at most the one tick it had begun a turn for.
THEOREM FeedFrozenByAbort == Spec => []AbortFreezesFeed
<1>1. Init => FreezeInv
  BY DEF Init, FreezeInv
<1>2. FeedInv /\ FreezeInv /\ [Next]_vars => FreezeInv'
  <2>1. FeedInv => TypeOK /\ EmittedInv
    BY DEF FeedInv, Inv
  <2> QED
    BY <2>1, FreezeNext
<1>3. FreezeInv => AbortFreezesFeed
  BY DEF FreezeInv, AbortFreezesFeed
<1> QED
  BY <1>1, <1>2, <1>3, FeedInvariant, PTL DEF Spec

\* The initial states are TickFeed's.
LEMMA FeedInit == Init => TickFeedOfDispatch!Init
  BY DEF Init, TickFeedOfDispatch!Init

\* TickFeed's sum is the sum of this module.
LEMMA SameSum == \A f : TickFeedOfDispatch!SumFunction(f) = SumFunction(f)
  BY DEF SumFunction, SumFunctionOnSet, FoldFunctionOnSet, MapThenFoldSet,
     TickFeedOfDispatch!SumFunction, TickFeedOfDispatch!SumFunctionOnSet,
     TickFeedOfDispatch!FoldFunctionOnSet, TickFeedOfDispatch!MapThenFoldSet

\* Every step of a dispatch is a step of the abstract feed or none.
LEMMA FeedStep ==
  ASSUME NEW filed \in [Workers -> Nat], NEW taken \in [Workers -> Nat],
         Inv(filed, taken), [Next]_vars
  PROVE  [TickFeedOfDispatch!Next]_(TickFeedOfDispatch!vars)
<1> USE DEF coordVars, taskVars, netVars, nodeVars
<1>1. ASSUME NEW S \in SUBSET Workers, ListWorkers(S)
      PROVE  TickFeedOfDispatch!Choose(S) \/ UNCHANGED TickFeedOfDispatch!vars
  BY <1>1 DEF ListWorkers, Inv, EarlyInv, TickFeedOfDispatch!Choose, TickFeedOfDispatch!vars
<1>2. ASSUME NEW w \in Workers, NEW c \in Counts, EngineTick(w, c)
      PROVE  TickFeedOfDispatch!Work(w, c)
  <2>1. w \in fleet
    BY <1>2 DEF EngineTick, Inv, StreamInv, Dispatched
  <2> QED BY <1>2, <2>1 DEF EngineTick, TickFeedOfDispatch!Work
<1>3. CASE Aggregate
  <2>1. UNCHANGED <<fleet, produced>> /\ Publishes /\ Aggregating
    BY <1>3, AggregateStep DEF Aggregate, Aggregating
  <2>2. CASE UNCHANGED emitted
    BY <2>1, <2>2 DEF TickFeedOfDispatch!vars
  <2>3. ASSUME NEW n \in Ticks, NEW entry, n = Len(emitted) + 1,
               \A x \in fleet : n <= Len(produced[x]),
               entry = [x \in fleet |-> produced[x][n]],
               emitted' = Append(emitted, AggregateTick(n, entry))
        PROVE  TickFeedOfDispatch!Publish
    <3>1. fleet # {}
      <4>1. \E x \in fleet : TRUE
        BY <2>1 DEF Inv, AggregatorInv, Filed
      <4> QED BY <4>1
    <3>2. TickFeedOfDispatch!FleetTotal(n) = SumFunction(entry)
      BY <2>3, SameSum DEF TickFeedOfDispatch!FleetTotal
    <3>3. TickFeedOfDispatch!CumBefore(n) = cum
      <4>1. Len(emitted) \in Nat /\ (emitted = <<>> <=> Len(emitted) = 0)
        BY DEF Inv, EmittedInv
      <4>2. cum = IF emitted = <<>> THEN 0 ELSE emitted[Len(emitted)].completed_total
        BY DEF Inv, EmittedInv
      <4>3. CASE emitted = <<>>
        BY <2>3, <4>1, <4>2, <4>3 DEF TickFeedOfDispatch!CumBefore
      <4>4. CASE emitted # <<>>
        <5>1. n # 1 /\ n - 1 = Len(emitted)
          BY <2>3, <4>1, <4>4
        <5> QED BY <4>2, <4>4, <5>1 DEF TickFeedOfDispatch!CumBefore
      <4> QED BY <4>3, <4>4
    <3>4. AggregateTick(n, entry) =
            [elapsed_s       |-> n,
             total           |-> TickFeedOfDispatch!FleetTotal(n),
             completed_total |-> TickFeedOfDispatch!CumBefore(n) + TickFeedOfDispatch!FleetTotal(n)]
      BY <3>2, <3>3 DEF AggregateTick
    <3> QED BY <2>1, <2>3, <3>1, <3>4 DEF TickFeedOfDispatch!Publish
  <2> QED BY <2>1, <2>2, <2>3 DEF Publishes, TickFeedOfDispatch!Next
<1>4. ASSUME UNCHANGED <<fleet, produced, emitted>>
      PROVE  UNCHANGED TickFeedOfDispatch!vars
  BY <1>4 DEF TickFeedOfDispatch!vars
<1>5. \/ \E S \in SUBSET Workers : ListWorkers(S)
      \/ \E w \in Workers, c \in Counts : EngineTick(w, c)
      \/ Aggregate
      \/ UNCHANGED <<fleet, produced, emitted>>
  BY DEF vars, Next, Coordinator, AggregateLoop, Task, Node, Abort, Failure, Quiet, RegisterRun,
     PollToken, SelectWaits, LeaveAggregation, JoinTasks, DeregisterRun, DialFails, RejectSlice, RunSlice,
     ReceivePartial, StreamEnds, EngineStops, SliceEnds, AbortRun, AbortNotInFlight,
     DeliverAbort, LoseAbort, WorkerDies, StreamBreaks
<1> QED
  BY <1>1, <1>2, <1>3, <1>4, <1>5 DEF TickFeedOfDispatch!Next

\* The live feed of a dispatch is the feed TickFeed describes: a second is
\* published when the whole fleet has done it, in order, as the sum of what its
\* workers did in that second and of everything published before.
THEOREM FeedRefinement == Spec => TickFeedSpec
<1>1. FeedInv /\ [Next]_vars => [TickFeedOfDispatch!Next]_(TickFeedOfDispatch!vars)
  BY FeedStep DEF FeedInv
<1> QED
  BY <1>1, FeedInit, FeedInvariant, PTL DEF Spec, TickFeedSpec, TickFeedOfDispatch!Spec
(***************************************************************************)
(* The theorems of the accounts.                                           *)
(***************************************************************************)

\* For every fleet, duration and set of counts: the DispatchSummary has the whole
\* slice of a worker that finished, no more than the slice of any other, and adds
\* up what the tasks read.
THEOREM HonestSummary == Spec => []SummaryIsHonest
<1>1. BooksInv => SummaryIsHonest
  <2> SUFFICES ASSUME TraceInv, NEW filed \in [Workers -> Nat], NEW taken \in [Workers -> Nat],
                      Inv(filed, taken), SliceAccounts(taken), Summed
               PROVE  /\ \A w \in Finished : wsum[w].completed = SliceTotal(w)
                      /\ \A w \in fleet : wsum[w].completed <= SliceTotal(w)
                      /\ summary.completed = SumFunction([w \in fleet |-> wsum[w].completed])
    BY DEF BooksInv, SummaryIsHonest
  <2>1. ASSUME NEW w \in fleet
        PROVE  /\ wsum[w].completed <= SliceTotal(w)
               /\ w \in Finished => wsum[w].completed = SliceTotal(w)
    <3> DEFINE s == produced[w]
               k == TicksRead(taken[w], s)
    <3>1. /\ s \in Seq(Nat) /\ k \in 0 .. Len(s) /\ wsum[w].completed = Upto(s, k)
          /\ SliceTotal(w) = Upto(s, Len(s))
          /\ wsum[w].finished <=> taken[w] = Len(s) + 1
      BY SlicesSummed
    <3>2. ASSUME w \in Finished PROVE k = Len(s)
      BY <3>1, <3>2 DEF Finished, TicksRead
    <3> HIDE DEF k, s
    <3>3. Len(s) \in 0 .. Len(s)
      BY <3>1
    <3>4. Upto(s, k) <= Upto(s, Len(s))
      BY <3>1, <3>3, UptoMonotone
    <3> QED
      BY <3>1, <3>2, <3>4
  <2>2. Finished \subseteq fleet
    BY DEF Finished
  <2> QED
    BY <2>1, <2>2 DEF TraceInv, SummaryAccount
<1> QED
  BY <1>1, BooksInvariant, PTL

\* For every fleet, duration and set of counts: the last completed_total of the
\* feed is at most the summary's, and equal to it when nothing was lost, aborted or
\* left unpublished.
THEOREM FeedAndSummaryAgree == Spec => []FeedAgreesWithSummary
<1>1. BooksInv => FeedAgreesWithSummary
  <2> SUFFICES ASSUME TraceInv, NEW filed \in [Workers -> Nat], NEW taken \in [Workers -> Nat],
                      Inv(filed, taken), SliceAccounts(taken), FeedAccount(taken),
                      Summed, emitted # <<>>
               PROVE  /\ cum <= summary.completed
                      /\ (/\ summary.lost = 0 /\ ~summary.aborted
                          /\ \A w \in fleet : Len(produced[w]) = Len(emitted))
                         => cum = summary.completed
    <3>1. emitted # <<>> /\ EmittedInv => cum = emitted[Len(emitted)].completed_total
      BY DEF EmittedInv
    <3> QED
      BY <3>1 DEF BooksInv, FeedAgreesWithSummary, Inv
  <2> DEFINE m == Len(emitted)
             f == [w \in fleet |-> Upto(produced[w], m)]
             c == [w \in fleet |-> wsum[w].completed]
  <2>0. m \in Nat /\ fleet \subseteq Workers /\ IsFiniteSet(fleet)
    BY DispatchAssumption, FS_Subset DEF Inv, TypeOK, CoordTypeOK, EmittedInv
  <2>1. \A w \in fleet : f[w] \in Nat /\ c[w] \in Nat /\ f[w] <= c[w]
    <3> SUFFICES ASSUME NEW w \in fleet
                 PROVE  /\ Upto(produced[w], m) \in Nat /\ wsum[w].completed \in Nat
                        /\ Upto(produced[w], m) <= wsum[w].completed
      OBVIOUS
    <3> DEFINE k == TicksRead(taken[w], produced[w])
    <3>1. /\ produced[w] \in Seq(Nat) /\ k \in 0 .. Len(produced[w])
          /\ wsum[w].completed = Upto(produced[w], k) /\ wsum[w].completed \in Nat
          /\ taken[w] \in Nat
      BY SlicesSummed
    <3>2. m \in 0 .. k
      BY <2>0, <3>1 DEF FeedAccount, TicksRead
    <3> HIDE DEF k
    <3> QED
      BY <3>1, <3>2, UptoMonotone
  <2>2. f \in [fleet -> Nat] /\ c \in [fleet -> Nat]
    BY <2>1
  <2>3. cum = SumFunction(f) /\ summary.completed = SumFunction(c)
    BY DEF FeedAccount, FleetUpto, TraceInv, SummaryAccount
  <2>4. ASSUME summary.lost = 0, ~summary.aborted,
               \A w \in fleet : Len(produced[w]) = Len(emitted)
        PROVE  f = c
    <3>1. Finished = fleet
      <4>1. Finished \in SUBSET fleet
        BY DEF Finished
      <4>2. Cardinality(fleet) - Cardinality(Finished) = 0
        BY <2>4 DEF TraceInv, SummaryAccount
      <4>3. Cardinality(fleet) \in Nat /\ Cardinality(Finished) \in Nat
        BY <2>0, <4>1, FS_Subset, FS_CardinalityType
      <4> QED
        BY <2>0, <4>1, <4>2, <4>3, FS_Subset
    <3>2. \A w \in fleet : f[w] = c[w]
      <4> SUFFICES ASSUME NEW w \in fleet PROVE Upto(produced[w], m) = wsum[w].completed
        OBVIOUS
      <4>1. /\ wsum[w].completed = Upto(produced[w], TicksRead(taken[w], produced[w]))
            /\ wsum[w].finished <=> taken[w] = Len(produced[w]) + 1
        BY SlicesSummed
      <4>2. taken[w] = m + 1 /\ Len(produced[w]) = m
        BY <2>4, <3>1, <4>1 DEF Finished
      <4> QED
        BY <2>0, <4>1, <4>2 DEF TicksRead
    <3> HIDE DEF f, c
    <3> QED
      BY <2>2, <3>2
  <2> HIDE DEF f, c
  <2>5. SumFunction(f) <= SumFunction(c)
    BY <2>0, <2>1, <2>2, SumMonotone
  <2> QED
    BY <2>3, <2>4, <2>5
<1> QED
  BY <1>1, BooksInvariant, PTL

\* For every fleet: without a failure no worker is reported lost; of a run that was
\* not aborted every worker whose engine did not get to its end is, and nobody whose
\* slice was accepted and whose stream held.
THEOREM LossesAreReal == Spec => []LossIsReal
<1>1. BooksInv => LossIsReal
  <2> SUFFICES ASSUME TraceInv, NEW filed \in [Workers -> Nat], NEW taken \in [Workers -> Nat],
                      Inv(filed, taken), SliceAccounts(taken), Summed
               PROVE  LossIsReal
    BY DEF BooksInv, LossIsReal
  <2> DEFINE all == Cardinality(fleet)
             done == Cardinality(Finished)
  <2>1. /\ fleet \subseteq Workers /\ Finished \in SUBSET fleet /\ all \in Nat /\ done \in Nat
        /\ IsFiniteSet(fleet) /\ done <= all /\ (done = all => Finished = fleet)
    <3>1. fleet \subseteq Workers /\ IsFiniteSet(fleet)
      BY DispatchAssumption, FS_Subset DEF Inv, TypeOK, CoordTypeOK
    <3>2. Finished \in SUBSET fleet
      BY DEF Finished
    <3> QED
      BY <3>1, <3>2, FS_Subset, FS_CardinalityType
  <2>2. /\ TasksDone /\ summary.finished = done
        /\ summary.lost = IF summary.aborted THEN 0 ELSE all - done
    BY DEF TraceInv, SummaryAccount
  <2>3. ASSUME crashes = 0, breaks = 0, specValid PROVE summary.finished = all
    <3>1. ASSUME NEW w \in fleet PROVE w \in Finished
      <4>1. task[w] = "done" /\ w \in Workers
        BY <2>1, <2>2 DEF TasksDone
      <4>2. SliceKnown(task[w], stream[w], conn[w], engine[w], token[w], alive[w])
        BY <4>1 DEF TraceInv, SlicesKnown
      <4>3. conn[w] \in {"idle", "open", "ended", "broken"}
        BY <4>1 DEF Inv, TypeOK, NetTypeOK
      <4>4. conn[w] = "ended" /\ stream[w] = <<>>
        BY <2>3, <4>1, <4>2, <4>3 DEF SliceKnown
      <4>5. taken[w] + 0 = Len(produced[w]) + 1
        BY <4>1, <4>4 DEF SliceAccounts, Accounted
      <4>6. wsum[w].finished
        BY <4>5, SlicesSummed
      <4> QED
        BY <4>6 DEF Finished
    <3>2. Finished = fleet
      BY <2>1, <3>1
    <3> QED
      BY <2>2, <3>2
  <2>d. /\ IsFiniteSet(fleet \ Finished)
        /\ ~summary.aborted => summary.lost = Cardinality(fleet \ Finished)
    <3>1. Cardinality(fleet \ Finished) = all - Cardinality(fleet \cap Finished)
          /\ IsFiniteSet(fleet \ Finished)
      BY <2>1, FS_Difference
    <3>2. fleet \cap Finished = Finished
      BY <2>1
    <3> QED
      BY <2>2, <3>1, <3>2
  <2>4. ASSUME ~summary.aborted
        PROVE  Cardinality({w \in fleet : engine[w] # "stopped"}) <= summary.lost
    <3>1. ASSUME NEW w \in fleet, engine[w] # "stopped" PROVE w \notin Finished
      <4>1. wsum[w].finished <=> taken[w] = Len(produced[w]) + 1
        BY SlicesSummed
      <4>2. taken[w] # Len(produced[w]) + 1
        BY <3>1, FinishedStopped
      <4> QED
        BY <4>1, <4>2 DEF Finished
    <3>2. {w \in fleet : engine[w] # "stopped"} \in SUBSET (fleet \ Finished)
      BY <3>1
    <3>3. Cardinality({w \in fleet : engine[w] # "stopped"}) <= Cardinality(fleet \ Finished)
      BY <2>d, <3>2, FS_Subset
    <3> QED
      BY <2>d, <2>4, <3>3
  <2>6. ASSUME ~summary.aborted
        PROVE  summary.lost <= Cardinality({w \in fleet : conn[w] \in {"idle", "broken"}})
    <3> DEFINE failed == {w \in fleet : conn[w] \in {"idle", "broken"}}
    <3>1. ASSUME NEW w \in fleet, w \notin Finished PROVE w \in failed
      <4>1. task[w] = "done" /\ w \in Workers
        BY <2>1, <2>2 DEF TasksDone
      <4>2. SliceKnown(task[w], stream[w], conn[w], engine[w], token[w], alive[w])
        BY <4>1 DEF TraceInv, SlicesKnown
      <4>3. conn[w] \in {"idle", "open", "ended", "broken"}
        BY <4>1 DEF Inv, TypeOK, NetTypeOK
      <4>4. ASSUME conn[w] = "ended" PROVE FALSE
        <5>1. stream[w] = <<>>
          BY <4>1, <4>2 DEF SliceKnown
        <5>2. taken[w] + 0 = Len(produced[w]) + 1
          BY <4>1, <4>4, <5>1 DEF SliceAccounts, Accounted
        <5>3. taken[w] = Len(produced[w]) + 1
          BY <5>2, SlicesSummed
        <5> QED
          BY <3>1, <5>3, SlicesSummed DEF Finished
      <4> QED
        BY <4>1, <4>2, <4>3, <4>4 DEF SliceKnown
    <3>2. fleet \ Finished \in SUBSET failed
      BY <3>1
    <3>3. IsFiniteSet(failed)
      BY <2>1, FS_Subset
    <3> HIDE DEF failed
    <3>4. Cardinality(fleet \ Finished) <= Cardinality(failed)
      BY <3>2, <3>3, FS_Subset
    <3>5. summary.lost <= Cardinality(failed)
      BY <2>d, <2>6, <3>4
    <3> QED
      BY <3>5 DEF failed
  <2>5. summary.finished + summary.lost <= all
    BY <2>1, <2>2
  <2> QED
    BY <2>3, <2>4, <2>5, <2>6 DEF LossIsReal
<1> QED
  BY <1>1, BooksInvariant, PTL

\* For every fleet: while no stream broke under a live worker, a firing engine's run
\* is in the registry and its worker has the token an Abort cancels.
THEOREM RunningRunsAreAbortable == Spec => []RunningIsAbortable
<1>1. BooksInv => RunningIsAbortable
  <2> SUFFICES ASSUME TraceInv, NEW filed \in [Workers -> Nat], NEW taken \in [Workers -> Nat],
                      Inv(filed, taken), breaks = 0
               PROVE  /\ \A w \in Workers : engine[w] = "running" => inFlight
                      /\ \A w \in Workers : token[w] # "absent" <=> conn[w] = "open"
    BY DEF BooksInv, RunningIsAbortable
  <2>1. ASSUME NEW w \in Workers
        PROVE  SliceKnown(task[w], stream[w], conn[w], engine[w], token[w], alive[w])
    BY <2>1 DEF TraceInv, SlicesKnown
  <2>2. ASSUME NEW w \in Workers, engine[w] = "running" PROVE inFlight
    <3>1. conn[w] = "open" /\ task[w] # "done"
      BY <2>1, <2>2 DEF SliceKnown
    <3>2. w \in fleet /\ task[w] # "none"
      BY <3>1 DEF Inv, StreamInv, Dispatched
    <3>3. dpc \notin Early /\ ~Summed
      BY <3>1, <3>2 DEF Inv, EarlyInv, TraceInv, SummaryAccount, TasksDone
    <3>4. dpc \in {"idle", "noworkers", "listed", "aggregating", "receiving", "joining", "summed", "returned"}
      BY DEF Inv, TypeOK, CoordTypeOK
    <3> QED
      BY <3>3, <3>4 DEF Early, Summed, TraceInv, Registered
  <2> QED
    BY <2>1, <2>2 DEF SliceKnown
<1> QED
  BY <1>1, BooksInvariant, PTL

\* For every fleet: whatever is cancelled or reported as aborted was asked for, in
\* an abort_run that returned TRUE.
THEOREM AbortsAreAsked == Spec => []NoSpontaneousAbort
<1>1. BooksInv => NoSpontaneousAbort
  BY DEF BooksInv, TraceInv, AbortTraces, NoSpontaneousAbort
<1> QED
  BY <1>1, BooksInvariant, PTL
=============================================================================
