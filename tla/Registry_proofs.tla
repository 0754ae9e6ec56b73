--------------------------- MODULE Registry_proofs ---------------------------
(***************************************************************************)
(* The registry's safety for every fleet and every choice of the time      *)
(* constants.  RegInv relates the clocks: an entry is never older than the *)
(* time since the last scan allows; a stopped worker has been quiet no     *)
(* longer than its entry is old; a serving worker that the present         *)
(* coordinator has not heard of is still in the interval it was in when    *)
(* that coordinator started, or has a Register on its way; and a Beater's  *)
(* entry is as old as the heartbeats it lost.                              *)
(***************************************************************************)
EXTENDS RegistryProps, TLAPS

\* What is where: a stopped coordinator knows nobody, only serving workers have
\* beaten, and an idle clock stands at zero.
Shape ==
  /\ workers \subseteq known
  /\ leased \subseteq workers \cap Beaters
  /\ ~up => known = {} /\ leased = {} /\ upFor = 0
  /\ \A w \in Workers :
       /\ w \in leased => node[w] \in {"serving", "dead"}
       /\ node[w] \in {"exited", "dead"} => rpc[w] = "none"
       /\ Running(w) => quiet[w] = 0
       /\ ~up => rpc[w] # "sent"
       /\ node[w] = "serving" => timer[w] <= ReregisterEvery
       /\ node[w] = "registering" => attempt[w] < MaxAttempts

\* The reaper's clock.
EntriesFresh == \A w \in workers : age[w] + scan <= DeadAfter + ScanEvery

\* The clock of a stop.
QuietClock == \A w \in workers : quiet[w] <= age[w]

\* The interval of a serving worker: a Register in flight was sent when the
\* present interval began.
IntervalClock ==
  \A w \in Workers :
    node[w] = "serving" /\ rpc[w] # "none" => timer[w] + rpcAge[w] = ReregisterEvery

\* A serving worker the present coordinator has not heard of.
Unheard(w) ==
  /\ (node[w] = "serving" /\ rpc[w] # "sent") =>
        upFor + timer[w] <= RpcTimeout + ReregisterEvery
  /\ (node[w] = "serving" /\ rpc[w] = "sent") =>
        upFor <= RpcTimeout + ReregisterEvery + rpcAge[w]
  /\ (node[w] = "registering" /\ rpc[w] = "acked") => upFor <= rpcAge[w]

StartClock ==
  up /\ accepts /\ losses = 0 => \A w \in Workers \ known : Unheard(w)

\* The clock of a Beater.
BeatClock ==
  \A w \in leased :
    node[w] = "serving" => age[w] + beat[w] <= (misses[w] + 1) * BeatEvery

RegInv == TypeOK /\ Shape /\ EntriesFresh /\ QuietClock /\ IntervalClock /\ StartClock /\ BeatClock
-----------------------------------------------------------------------------
\* The assumptions on the constants, one by one.
LEMMA Constants ==
  /\ Beaters \subseteq Workers
  /\ DeadAfter \in Nat /\ DeadAfter > 0 /\ ScanEvery \in Nat /\ ScanEvery > 0
  /\ ReregisterEvery \in Nat /\ ReregisterEvery > 0 /\ RpcTimeout \in Nat /\ RpcTimeout > 0
  /\ BeatEvery \in Nat /\ BeatEvery > 0 /\ FirstDelay \in Nat /\ FirstDelay > 0
  /\ MaxDelay \in Nat /\ MaxDelay > 0 /\ MaxAttempts \in Nat /\ MaxAttempts > 0
  /\ RpcTimeout < ReregisterEvery
  /\ MaxLosses \in Nat /\ MaxMisses \in Nat /\ MaxRestarts \in Nat
<1>1. \A n \in Nat \ {0} : n \in Nat /\ n > 0
  OBVIOUS
<1> QED
  BY <1>1, RegistryAssumption

\* The initial states.
LEMMA RegInit == Init => RegInv
<1> SUFFICES ASSUME Init PROVE RegInv
  OBVIOUS
<1>1. TypeOK
  BY Constants DEF Init, TypeOK, CoordTypeOK, NodeTypeOK, HistTypeOK, RelearnedBy, ForgottenBy
<1>2. Shape /\ EntriesFresh /\ QuietClock /\ IntervalClock /\ StartClock /\ BeatClock
  BY Constants DEF Init, Shape, EntriesFresh, QuietClock, IntervalClock, StartClock, Unheard,
     BeatClock, Running
<1> QED
  BY <1>1, <1>2 DEF RegInv

\* Every step preserves the invariant.
LEMMA RegNext == RegInv /\ [Next]_vars => RegInv'
<1> SUFFICES ASSUME RegInv, [Next]_vars PROVE RegInv'
  OBVIOUS
<1> USE Constants
    DEF RegInv, TypeOK, CoordTypeOK, NodeTypeOK, HistTypeOK, Running,
        coordVars, nodeVars, envVars, histVars
<1>1. ASSUME NEW w \in Workers, SendRegister(w) PROVE RegInv'
  <2>1. TypeOK'
    BY <1>1 DEF RelearnedBy, ForgottenBy, SendRegister
  <2>2. Shape'
    BY <1>1 DEF Shape, SendRegister
  <2>3. EntriesFresh'
    BY <1>1 DEF EntriesFresh, SendRegister
  <2>4. QuietClock'
    BY <1>1 DEF QuietClock, Shape, SendRegister
  <2>5. IntervalClock'
    BY <1>1 DEF IntervalClock, Shape, SendRegister
  <2>6. StartClock'
    BY <1>1 DEF StartClock, Unheard, Shape, IntervalClock, SendRegister
  <2>7. BeatClock'
    BY <1>1 DEF BeatClock, Shape, SendRegister
  <2> QED
    BY <2>1, <2>2, <2>3, <2>4, <2>5, <2>6, <2>7
<1>2. ASSUME NEW w \in Workers, RegisterReplied(w) PROVE RegInv'
  <2>1. TypeOK'
    BY <1>2 DEF RelearnedBy, ForgottenBy, RegisterReplied
  <2>2. Shape'
    BY <1>2 DEF Shape, RegisterReplied
  <2>3. EntriesFresh'
    BY <1>2 DEF EntriesFresh, RegisterReplied
  <2>4. QuietClock'
    BY <1>2 DEF QuietClock, Shape, RegisterReplied
  <2>5. IntervalClock'
    BY <1>2 DEF IntervalClock, Shape, RegisterReplied
  <2>6. StartClock'
    BY <1>2 DEF StartClock, Unheard, Shape, IntervalClock, RegisterReplied
  <2>7. BeatClock'
    BY <1>2 DEF BeatClock, Shape, RegisterReplied
  <2> QED
    BY <2>1, <2>2, <2>3, <2>4, <2>5, <2>6, <2>7
<1>3. ASSUME NEW w \in Workers, RegisterFails(w) PROVE RegInv'
  <2>1. TypeOK'
    BY <1>3 DEF RelearnedBy, ForgottenBy, Shape, RegisterFails, LeftUnderWay
  <2>2. Shape'
    BY <1>3, SMTT(30) DEF Shape, RegisterFails, LeftUnderWay
  <2>3. EntriesFresh'
    BY <1>3 DEF EntriesFresh, RegisterFails, LeftUnderWay
  <2>4. QuietClock'
    BY <1>3 DEF QuietClock, Shape, RegisterFails, LeftUnderWay
  <2>5. IntervalClock'
    BY <1>3 DEF IntervalClock, Shape, RegisterFails, LeftUnderWay
  <2>6. StartClock'
    BY <1>3 DEF StartClock, Unheard, Shape, IntervalClock, RegisterFails, LeftUnderWay
  <2>7. BeatClock'
    BY <1>3 DEF BeatClock, Shape, RegisterFails, LeftUnderWay
  <2> QED
    BY <2>1, <2>2, <2>3, <2>4, <2>5, <2>6, <2>7
<1>4. ASSUME NEW w \in Workers, BeatLost(w) PROVE RegInv'
  <2>1. TypeOK'
    BY <1>4 DEF RelearnedBy, ForgottenBy, BeatLost, BeatDue
  <2>2. Shape'
    BY <1>4 DEF Shape, BeatLost, BeatDue
  <2>3. EntriesFresh'
    BY <1>4 DEF EntriesFresh, BeatLost, BeatDue
  <2>4. QuietClock'
    BY <1>4 DEF QuietClock, Shape, BeatLost, BeatDue
  <2>5. IntervalClock'
    BY <1>4 DEF IntervalClock, Shape, BeatLost, BeatDue
  <2>6. StartClock'
    BY <1>4 DEF StartClock, Unheard, Shape, IntervalClock, BeatLost, BeatDue
  <2>7. BeatClock'
    BY <1>4 DEF BeatClock, Shape, BeatLost, BeatDue
  <2> QED
    BY <2>1, <2>2, <2>3, <2>4, <2>5, <2>6, <2>7
<1>5. ASSUME NEW w \in Workers, WorkerDies(w) PROVE RegInv'
  <2>1. TypeOK'
    BY <1>5 DEF RelearnedBy, ForgottenBy, WorkerDies, LeftUnderWay
  <2>2. Shape'
    BY <1>5 DEF Shape, WorkerDies, LeftUnderWay
  <2>3. EntriesFresh'
    BY <1>5 DEF EntriesFresh, WorkerDies, LeftUnderWay
  <2>4. QuietClock'
    BY <1>5 DEF QuietClock, Shape, WorkerDies, LeftUnderWay
  <2>5. IntervalClock'
    BY <1>5 DEF IntervalClock, Shape, WorkerDies, LeftUnderWay
  <2>6. StartClock'
    BY <1>5 DEF StartClock, Unheard, Shape, IntervalClock, WorkerDies, LeftUnderWay
  <2>7. BeatClock'
    BY <1>5 DEF BeatClock, Shape, WorkerDies, LeftUnderWay
  <2> QED
    BY <2>1, <2>2, <2>3, <2>4, <2>5, <2>6, <2>7
<1>6. ASSUME NEW w \in Workers, LateRegister(w) PROVE RegInv'
  <2>1. TypeOK'
    BY <1>6 DEF RelearnedBy, ForgottenBy, LateRegister, Upsert
  <2>2. Shape'
    BY <1>6 DEF Shape, LateRegister, Upsert
  <2>3. EntriesFresh'
    BY <1>6 DEF EntriesFresh, LateRegister, Upsert
  <2>4. QuietClock'
    BY <1>6 DEF QuietClock, Shape, LateRegister, Upsert
  <2>5. IntervalClock'
    BY <1>6 DEF IntervalClock, Shape, LateRegister, Upsert
  <2>6. StartClock'
    BY <1>6 DEF StartClock, Unheard, Shape, IntervalClock, LateRegister, Upsert
  <2>7. BeatClock'
    BY <1>6 DEF BeatClock, Shape, LateRegister, Upsert
  <2> QED
    BY <2>1, <2>2, <2>3, <2>4, <2>5, <2>6, <2>7
<1>7. ASSUME NEW w \in Workers, CoordRegister(w) PROVE RegInv'
  <2>1. TypeOK'
    BY <1>7 DEF RelearnedBy, ForgottenBy, CoordRegister, Upsert
  <2>2. Shape'
    BY <1>7 DEF Shape, CoordRegister, Upsert
  <2>3. EntriesFresh'
    BY <1>7 DEF EntriesFresh, CoordRegister, Upsert
  <2>4. QuietClock'
    BY <1>7 DEF QuietClock, Shape, CoordRegister, Upsert
  <2>5. IntervalClock'
    BY <1>7 DEF IntervalClock, Shape, CoordRegister, Upsert
  <2>6. StartClock'
    BY <1>7 DEF StartClock, Unheard, Shape, IntervalClock, CoordRegister, Upsert
  <2>7. BeatClock'
    BY <1>7 DEF BeatClock, Shape, CoordRegister, Upsert
  <2> QED
    BY <2>1, <2>2, <2>3, <2>4, <2>5, <2>6, <2>7
<1>8. ASSUME NEW w \in Workers, Heartbeat(w) PROVE RegInv'
  <2>1. TypeOK'
    BY <1>8 DEF RelearnedBy, ForgottenBy, Heartbeat, BeatDue
  <2>2. Shape'
    BY <1>8 DEF Shape, Heartbeat, BeatDue
  <2>3. EntriesFresh'
    BY <1>8 DEF EntriesFresh, Heartbeat, BeatDue
  <2>4. QuietClock'
    BY <1>8 DEF QuietClock, Shape, Heartbeat, BeatDue
  <2>5. IntervalClock'
    BY <1>8 DEF IntervalClock, Shape, Heartbeat, BeatDue
  <2>6. StartClock'
    BY <1>8 DEF StartClock, Unheard, Shape, IntervalClock, Heartbeat, BeatDue
  <2>7. BeatClock'
    <3>1. 1 * BeatEvery = BeatEvery
      OBVIOUS
    <3>2. misses' = [misses EXCEPT ![w] = 0] /\ beat' = [beat EXCEPT ![w] = BeatEvery]
      BY <1>8 DEF Heartbeat
    <3>3. w \in leased' => age'[w] = 0
      BY <1>8 DEF Heartbeat, Shape
    <3>4. SUFFICES ASSUME NEW x \in leased', node'[x] = "serving"
                   PROVE  age'[x] + beat'[x] <= (misses'[x] + 1) * BeatEvery
      BY DEF BeatClock
    <3>5. CASE x = w
      BY <3>1, <3>2, <3>3, <3>5 DEF Shape
    <3>6. CASE x # w
      <4>1. x \in leased /\ node[x] = "serving"
        BY <1>8, <3>4, <3>6 DEF Heartbeat
      <4>2. age'[x] = age[x] /\ beat'[x] = beat[x] /\ misses'[x] = misses[x]
        BY <1>8, <3>6, <4>1 DEF Heartbeat, Shape
      <4> QED
        BY <4>1, <4>2 DEF BeatClock
    <3> QED
      BY <3>5, <3>6
  <2> QED
    BY <2>1, <2>2, <2>3, <2>4, <2>5, <2>6, <2>7
<1>9. ASSUME Reap PROVE RegInv'
  <2>1. TypeOK'
    BY <1>9 DEF RelearnedBy, ForgottenBy, Reap, Expired
  <2>2. Shape'
    BY <1>9 DEF Shape, Reap, Expired
  <2>3. EntriesFresh'
    BY <1>9 DEF EntriesFresh, Reap, Expired
  <2>4. QuietClock'
    BY <1>9 DEF QuietClock, Shape, Reap, Expired
  <2>5. IntervalClock'
    BY <1>9 DEF IntervalClock, Shape, Reap, Expired
  <2>6. StartClock'
    BY <1>9 DEF StartClock, Unheard, Shape, IntervalClock, Reap, Expired
  <2>7. BeatClock'
    BY <1>9 DEF BeatClock, Shape, Reap, Expired
  <2> QED
    BY <2>1, <2>2, <2>3, <2>4, <2>5, <2>6, <2>7
<1>10. ASSUME CoordCrashes PROVE RegInv'
  <2>1. TypeOK'
    <3>1. age' \in [Workers -> 0 .. DeadAfter + ScanEvery] /\ scan' \in 0 .. ScanEvery
      BY <1>10 DEF CoordCrashes
    <3>4. upFor' \in 0 .. RelearnedBy + 1 /\ restarts' \in 0 .. MaxRestarts
      BY <1>10 DEF RelearnedBy, CoordCrashes
    <3>2. rpc' \in [Workers -> {"none", "sent", "acked", "refused", "broken"}]
      BY <1>10 DEF CoordCrashes
    <3>3. NodeTypeOK'
      BY <1>10, <3>2 DEF CoordCrashes
    <3> QED
      BY <1>10, <3>1, <3>3, <3>4 DEF CoordCrashes
  <2>2. Shape'
    BY <1>10 DEF Shape, CoordCrashes
  <2>3. EntriesFresh'
    BY <1>10 DEF EntriesFresh, CoordCrashes
  <2>4. QuietClock'
    BY <1>10 DEF QuietClock, Shape, CoordCrashes
  <2>5. IntervalClock'
    BY <1>10 DEF IntervalClock, Shape, CoordCrashes
  <2>6. StartClock'
    BY <1>10 DEF StartClock, Unheard, Shape, IntervalClock, CoordCrashes
  <2>7. BeatClock'
    BY <1>10 DEF BeatClock, Shape, CoordCrashes
  <2> QED
    BY <2>1, <2>2, <2>3, <2>4, <2>5, <2>6, <2>7
<1>11. ASSUME CoordStarts PROVE RegInv'
  <2>1. TypeOK'
    BY <1>11 DEF RelearnedBy, ForgottenBy, CoordStarts
  <2>2. Shape'
    BY <1>11 DEF Shape, CoordStarts
  <2>3. EntriesFresh'
    BY <1>11 DEF EntriesFresh, CoordStarts
  <2>4. QuietClock'
    BY <1>11 DEF QuietClock, Shape, CoordStarts
  <2>5. IntervalClock'
    BY <1>11 DEF IntervalClock, Shape, CoordStarts
  <2>6. StartClock'
    BY <1>11 DEF StartClock, Unheard, Shape, IntervalClock, CoordStarts
  <2>7. BeatClock'
    BY <1>11 DEF BeatClock, Shape, CoordStarts
  <2> QED
    BY <2>1, <2>2, <2>3, <2>4, <2>5, <2>6, <2>7
<1>12. ASSUME Tick PROVE RegInv'
  <2>1. TypeOK'
    <3>1. age' \in [Workers -> 0 .. DeadAfter + ScanEvery] /\ scan' \in 0 .. ScanEvery
      BY <1>12 DEF Shape, EntriesFresh, Tick, Due
    <3>2. rpcAge' \in [Workers -> 0 .. RpcTimeout]
      <4>1. \A w \in Workers : rpc[w] # "none" => rpcAge[w] # RpcTimeout
        BY <1>12 DEF Tick, Due
      <4>2. rpcAge' = [w \in Workers |-> IF rpc[w] = "none" THEN 0 ELSE rpcAge[w] + 1]
        BY <1>12 DEF Tick
      <4>3. rpcAge \in [Workers -> 0 .. RpcTimeout]
        OBVIOUS
      <4> QED
        BY <4>1, <4>2, <4>3, Constants
    <3>3. timer' \in [Workers -> Nat] /\ beat' \in [Workers -> 0 .. BeatEvery]
      BY <1>12 DEF Tick, Sooner
    <3>4. upFor' \in 0 .. RelearnedBy + 1
      BY <1>12 DEF Tick, Older, RelearnedBy
    <3>5. quiet' \in [Workers -> 0 .. ForgottenBy + 1]
      BY <1>12 DEF Tick, Older, ForgottenBy
    <3> QED
      BY <1>12, <3>1, <3>2, <3>3, <3>4, <3>5 DEF Tick
  <2>2. Shape'
    BY <1>12 DEF Shape, Tick, Due, BeatDue, Older, Sooner
  <2>3. EntriesFresh'
    BY <1>12 DEF EntriesFresh, Shape, Tick, Due, BeatDue, Older, Sooner
  <2>4. QuietClock'
    BY <1>12 DEF QuietClock, Shape, Tick, Due, BeatDue, Older, Sooner
  <2>5. IntervalClock'
    BY <1>12 DEF IntervalClock, Shape, Tick, Due, BeatDue, Older, Sooner
  <2>6. StartClock'
    BY <1>12 DEF StartClock, Unheard, Shape, IntervalClock, Tick, Due, BeatDue, Older, Sooner
  <2>7. BeatClock'
    BY <1>12 DEF BeatClock, Shape, Tick, Due, BeatDue, Older, Sooner
  <2> QED
    BY <2>1, <2>2, <2>3, <2>4, <2>5, <2>6, <2>7
<1>13. ASSUME UNCHANGED vars PROVE RegInv'
  <2>1. TypeOK'
    BY <1>13 DEF RelearnedBy, ForgottenBy, vars
  <2>2. Shape'
    BY <1>13 DEF Shape, vars
  <2>3. EntriesFresh'
    BY <1>13 DEF EntriesFresh, vars
  <2>4. QuietClock'
    BY <1>13 DEF QuietClock, Shape, vars
  <2>5. IntervalClock'
    BY <1>13 DEF IntervalClock, Shape, vars
  <2>6. StartClock'
    BY <1>13 DEF StartClock, Unheard, Shape, IntervalClock, vars
  <2>7. BeatClock'
    BY <1>13 DEF BeatClock, Shape, vars
  <2> QED
    BY <2>1, <2>2, <2>3, <2>4, <2>5, <2>6, <2>7
<1> QED
  BY <1>1, <1>2, <1>3, <1>4, <1>5, <1>6, <1>7, <1>8, <1>9, <1>10, <1>11, <1>12, <1>13 DEF Next, Node, Handler

\* The invariant of the registry.
LEMMA RegInvariant == Spec => []RegInv
<1>1. Init => RegInv
  BY RegInit
<1>2. RegInv /\ [Next]_vars => RegInv'
  BY RegNext
<1> QED
  BY <1>1, <1>2, PTL DEF Spec
-----------------------------------------------------------------------------
\* Type correctness; an entry does not outlive the first scan after it expires.
THEOREM RegistryTypeCorrect == Spec => []TypeOK
<1>1. RegInv => TypeOK
  BY DEF RegInv
<1> QED
  BY <1>1, RegInvariant, PTL

\* Whatever the time constants: a stopped worker is out of the registry once it
\* has been quiet for one DeadAfter and one scan, however late the Registers it
\* left under way are served.
THEOREM DeadAreForgotten == Spec => []DeadIsForgotten
<1>1. RegInv => DeadIsForgotten
  <2> SUFFICES ASSUME RegInv, NEW w \in workers, quiet[w] > ForgottenBy
               PROVE  FALSE
    BY DEF DeadIsForgotten
  <2>1. quiet[w] <= age[w] /\ age[w] + scan <= DeadAfter + ScanEvery
    BY DEF RegInv, QuietClock, EntriesFresh
  <2>2. w \in Workers
    BY DEF RegInv, TypeOK, CoordTypeOK
  <2> QED
    BY <2>1, <2>2, Constants DEF RegInv, TypeOK, CoordTypeOK, HistTypeOK, ForgottenBy
<1> QED
  BY <1>1, RegInvariant, PTL

\* Whatever the time constants (an RPC being shorter than the interval): a
\* coordinator that started knows every serving worker within RelearnedBy.
THEOREM FleetRelearned == Spec => []FleetIsRelearned
<1>1. RegInv => FleetIsRelearned
  <2> SUFFICES ASSUME RegInv, up, accepts, losses = 0, upFor > RelearnedBy,
                      NEW w \in Workers, node[w] = "serving", w \notin known
               PROVE  FALSE
    BY DEF FleetIsRelearned
  <2>1. Unheard(w)
    BY DEF RegInv, StartClock
  <2> QED
    BY <2>1, Constants DEF RegInv, TypeOK, NodeTypeOK, HistTypeOK, Unheard, RelearnedBy
<1> QED
  BY <1>1, RegInvariant, PTL

\* Whatever the time constants: a Beater is evicted only after losing more than
\* DeadAfter worth of heartbeats.
THEOREM EvictionsMeanMisses == Spec => EvictionMeansMisses
<1> DEFINE Evicts(w) == up' /\ w \in leased /\ node[w] = "serving"
<1>1. ASSUME RegInv, [Next]_vars, NEW w \in workers \ workers', Evicts(w)
      PROVE  (misses[w] + 1) * BeatEvery > DeadAfter
  <2>1. Reap
    BY <1>1 DEF vars, coordVars, Next, Node, Handler, SendRegister, RegisterReplied,
       RegisterFails, BeatLost, WorkerDies, CoordRegister, LateRegister, Upsert, Heartbeat,
       CoordCrashes, CoordStarts, Tick
  <2>2. w \in Workers /\ age[w] > DeadAfter
    BY <1>1, <2>1 DEF Reap, Expired, RegInv, TypeOK, CoordTypeOK
  <2>3. age[w] + beat[w] <= (misses[w] + 1) * BeatEvery
    BY <1>1 DEF RegInv, BeatClock
  <2>4. (misses[w] + 1) * BeatEvery \in Nat /\ age[w] \in Nat /\ beat[w] \in Nat
    BY <2>2, <1>1, Constants DEF RegInv, TypeOK, CoordTypeOK, NodeTypeOK
  <2> QED
    BY <2>2, <2>3, <2>4, Constants
<1>2. RegInv /\ [Next]_vars =>
        [\A w \in workers \ workers' :
           up' /\ w \in leased /\ node[w] = "serving" => (misses[w] + 1) * BeatEvery > DeadAfter]_vars
  BY <1>1
<1> QED
  BY <1>2, RegInvariant, PTL DEF Spec, EvictionMeansMisses
=============================================================================
