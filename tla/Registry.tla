------------------------------ MODULE Registry ------------------------------
(***************************************************************************)
(* The coordinator's worker registry: workers register on startup with     *)
(* retries, announce themselves again every ReregisterEvery, may push      *)
(* heartbeats, and are evicted by a reaper that scans every ScanEvery for  *)
(* entries older than DeadAfter.  The registry is in memory: a restarted   *)
(* coordinator starts empty.                                               *)
(*                                                                         *)
(* Time is discrete.  Tick is one unit (a second of the source's constants *)
(* when they are given their values), ages and timers count units, and     *)
(* what is due at an instant happens before the next Tick, in any order.   *)
(* Locks are held for one map operation, so each handler is one step; a    *)
(* Register RPC is two, because its acknowledgement takes time as well.    *)
(*                                                                         *)
(* RpcTimeout is the worker's: it ends the wait of a living worker, and    *)
(* nothing at the coordinator.  A request whose sender has given up or has *)
(* died may be served at any later time, or never.  The timeout does not   *)
(* cover the dial; that a dial succeeds or is refused at once is assumed.  *)
(*                                                                         *)
(* No worker of this repository calls Heartbeat.  Beaters are workers that *)
(* follow bench.proto and do.                                              *)
(***************************************************************************)
EXTENDS Integers

CONSTANTS
  Workers,          \* worker ids, one per process (a restarted worker is another id)
  Beaters,          \* the workers that push heartbeats
  DeadAfter,        \* HEARTBEAT_DEAD_AFTER
  ScanEvery,        \* REAPER_SCAN_INTERVAL
  ReregisterEvery,  \* REREGISTER_INTERVAL
  RpcTimeout,       \* the timeout of the worker's Endpoint
  BeatEvery,        \* a Beater's heartbeat period (bench.proto: 1 s)
  FirstDelay, MaxDelay,  \* the backoff of register_with_coordinator
  MaxAttempts,      \* max_attempts
  MaxLosses,        \* bound: Register RPCs the network loses
  MaxMisses,        \* bound: heartbeats of one worker lost in a row
  MaxRestarts       \* bound: coordinator restarts

ASSUME RegistryAssumption ==
  /\ Beaters \subseteq Workers
  /\ {DeadAfter, ScanEvery, ReregisterEvery, RpcTimeout, BeatEvery,
      FirstDelay, MaxDelay, MaxAttempts} \subseteq Nat \ {0}
  /\ RpcTimeout < ReregisterEvery
  /\ {MaxLosses, MaxMisses, MaxRestarts} \subseteq Nat

VARIABLES
  \* ---- coordinator ----
  up,        \* is the process running
  accepts,   \* does its CONTRACT_VERSION match the workers'
  workers,   \* the keys of CoordinatorState.workers
  age,       \* time since the last_heartbeat of each entry
  scan,      \* time to the reaper's next scan
  \* ---- worker processes ----
  node,      \* what each process is doing
  attempt,   \* register_with_coordinator: failed attempts
  delay,     \*   and its next backoff
  timer,     \* time to the next Register
  rpc,       \* the Register RPC: "none", "sent", "acked", "refused", "broken"
  rpcAge,    \* time since it was sent
  late,      \* Register requests under way that no process waits for
  beat,      \* a Beater's time to its next heartbeat
  misses,    \* heartbeats of a Beater lost since the last one that arrived
  \* ---- environment ----
  losses, restarts,
  \* ---- history, for the properties ----
  upFor,     \* time since the coordinator started
  known,     \* workers registered since then
  leased,    \* Beaters whose heartbeat has refreshed their entry
  quiet      \* time since a stopped worker stopped or, if later, since the
             \*   coordinator last accepted a Register of it

coordVars == <<up, accepts, workers, age, scan>>
nodeVars  == <<node, attempt, delay, timer, rpc, rpcAge, late, beat, misses>>
envVars   == <<losses, restarts>>
histVars  == <<upFor, known, leased, quiet>>
vars == <<coordVars, nodeVars, envVars, histVars>>

\* How long a stopped worker may stay registered when nothing more is heard of
\* it: its entry expires, then a scan is due.
ForgottenBy == DeadAfter + ScanEvery

\* The latest time after a start of the coordinator by which a serving worker
\* has registered with it: a startup acknowledgement of the coordinator before
\* may still be on its way and starts the interval when it arrives.
RelearnedBy == RpcTimeout + ReregisterEvery + RpcTimeout

Init ==
  /\ up = TRUE /\ accepts = TRUE /\ workers = {} /\ scan = ScanEvery
  /\ age = [w \in Workers |-> 0]
  /\ node = [w \in Workers |-> "registering"]
  /\ attempt = [w \in Workers |-> 0] /\ delay = [w \in Workers |-> FirstDelay]
  /\ timer = [w \in Workers |-> 0]
  /\ rpc = [w \in Workers |-> "none"] /\ rpcAge = [w \in Workers |-> 0]
  /\ late = [w \in Workers |-> 0]
  /\ beat = [w \in Workers |-> 0] /\ misses = [w \in Workers |-> 0]
  /\ losses = 0 /\ restarts = 0
  /\ upFor = 0 /\ known = {} /\ leased = {} /\ quiet = [w \in Workers |-> 0]
-----------------------------------------------------------------------------
(***************************************************************************)
(* The worker process.  (Fault_... operators: see Dispatch.)               *)
(***************************************************************************)
Running(w) == node[w] \in {"registering", "serving"}

\* Fault: a serving worker does not announce itself again.
Fault_RegisterOnce(w) ==
  /\ Running(w)
  /\ rpc[w] = "none"
  /\ timer[w] = 0
  /\ rpc' = [rpc EXCEPT ![w] = IF node[w] = "serving" THEN "none" ELSE "sent"]
  /\ rpcAge' = [rpcAge EXCEPT ![w] = 0]
  /\ timer' = [timer EXCEPT ![w] = IF node[w] = "serving" THEN ReregisterEvery ELSE @]
  /\ UNCHANGED <<node, attempt, delay, late, beat, misses, coordVars, envVars, histVars>>

\* dial_and_register: at startup and then on every tick of the interval, which
\* is counted from the tick before and not from the end of the attempt.  A
\* coordinator that is down refuses the connection.
SendRegister(w) ==
  /\ Running(w)
  /\ rpc[w] = "none"
  /\ timer[w] = 0
  /\ rpc' = [rpc EXCEPT ![w] = IF up THEN "sent" ELSE "broken"]
  /\ rpcAge' = [rpcAge EXCEPT ![w] = 0]
  /\ timer' = [timer EXCEPT ![w] = IF node[w] = "serving" THEN ReregisterEvery ELSE @]
  /\ UNCHANGED <<node, attempt, delay, late, beat, misses, coordVars, envVars, histVars>>

\* The acknowledgement arrives.  At startup an accepted worker begins to serve
\* and starts the interval, a rejected one exits; later both are only logged.
RegisterReplied(w) ==
  /\ Running(w)
  /\ rpc[w] \in {"acked", "refused"}
  /\ rpc' = [rpc EXCEPT ![w] = "none"]
  /\ IF node[w] = "serving"
     THEN UNCHANGED <<node, timer>>
     ELSE /\ node' = [node EXCEPT ![w] = IF rpc[w] = "acked" THEN "serving" ELSE "exited"]
          /\ timer' = [timer EXCEPT ![w] = ReregisterEvery]
  /\ UNCHANGED <<attempt, delay, rpcAge, late, beat, misses, coordVars, envVars, histVars>>

\* A process stops waiting for its Register: a request still under way is late.
LeftUnderWay(w) == [late EXCEPT ![w] = IF rpc[w] = "sent" THEN @ + 1 ELSE @]

\* The dial or the RPC fails: the coordinator is down, or the network loses or
\* delays the request or the answer past RpcTimeout.  The startup loop backs
\* off and gives up after MaxAttempts; the re-register loop goes on.
RegisterFails(w) ==
  /\ Running(w)
  /\ \/ rpc[w] = "broken" /\ UNCHANGED losses
     \/ rpc[w] \in {"sent", "acked", "refused"} /\ losses < MaxLosses /\ losses' = losses + 1
  /\ late' = LeftUnderWay(w)
  /\ rpc' = [rpc EXCEPT ![w] = "none"]
  /\ IF node[w] = "serving"
     THEN UNCHANGED <<node, attempt, delay, timer>>
     ELSE /\ attempt' = [attempt EXCEPT ![w] = @ + 1]
          /\ node' = [node EXCEPT ![w] = IF attempt[w] + 1 = MaxAttempts THEN "exited" ELSE @]
          /\ timer' = [timer EXCEPT ![w] = delay[w]]
          /\ delay' = [delay EXCEPT ![w] = IF 2 * @ < MaxDelay THEN 2 * @ ELSE MaxDelay]
  /\ UNCHANGED <<rpcAge, beat, misses, restarts, coordVars, histVars>>

\* A Beater pushes a heartbeat.
BeatDue(w) == w \in Beaters /\ node[w] = "serving" /\ beat[w] = 0

BeatLost(w) ==
  /\ BeatDue(w)
  /\ beat' = [beat EXCEPT ![w] = BeatEvery]
  /\ \/ ~up /\ UNCHANGED misses
     \/ misses[w] < MaxMisses /\ misses' = [misses EXCEPT ![w] = @ + 1]
  /\ UNCHANGED <<node, attempt, delay, timer, rpc, rpcAge, late, coordVars, envVars, histVars>>

\* The process is gone; a Register it had sent may still be served.
WorkerDies(w) ==
  /\ Running(w)
  /\ node' = [node EXCEPT ![w] = "dead"]
  /\ rpc' = [rpc EXCEPT ![w] = "none"] /\ late' = LeftUnderWay(w)
  /\ timer' = [timer EXCEPT ![w] = 0]
  /\ beat' = [beat EXCEPT ![w] = 0] /\ misses' = [misses EXCEPT ![w] = 0]
  /\ UNCHANGED <<attempt, delay, rpcAge, coordVars, envVars, histVars>>
-----------------------------------------------------------------------------
(***************************************************************************)
(* The coordinator.                                                        *)
(***************************************************************************)

\* register: refuse another contract version, otherwise upsert a fresh entry.
Upsert(w) ==
  /\ up
  /\ IF accepts
     THEN /\ workers' = workers \cup {w}
          /\ age' = [age EXCEPT ![w] = 0]
          /\ known' = known \cup {w}
          /\ quiet' = [quiet EXCEPT ![w] = 0]
     ELSE UNCHANGED <<workers, age, known, quiet>>
  /\ UNCHANGED <<up, accepts, scan, upFor, leased, envVars>>
  /\ UNCHANGED <<node, attempt, delay, timer, rpcAge, beat, misses>>

\* The RPC of a worker that waits for the answer ...
CoordRegister(w) ==
  /\ rpc[w] = "sent"
  /\ rpc' = [rpc EXCEPT ![w] = IF accepts THEN "acked" ELSE "refused"]
  /\ UNCHANGED late
  /\ Upsert(w)

\* ... and one whose answer goes nowhere.
LateRegister(w) ==
  /\ late[w] > 0
  /\ late' = [late EXCEPT ![w] = @ - 1]
  /\ UNCHANGED rpc
  /\ Upsert(w)

\* heartbeat: refreshes the entry of a worker that has one; the others get the
\* same acknowledgement.
Heartbeat(w) ==
  /\ BeatDue(w)
  /\ up
  /\ beat' = [beat EXCEPT ![w] = BeatEvery]
  /\ misses' = [misses EXCEPT ![w] = 0]
  /\ IF w \in workers
     THEN age' = [age EXCEPT ![w] = 0] /\ leased' = leased \cup {w}
     ELSE UNCHANGED <<age, leased>>
  /\ UNCHANGED <<up, accepts, workers, scan, upFor, known, quiet, envVars>>
  /\ UNCHANGED <<node, attempt, delay, timer, rpc, rpcAge, late>>

\* Fault: an entry expires when it reaches DeadAfter.
Fault_ExpiresEarly == {w \in workers : age[w] >= DeadAfter}

\* Fault: an entry is given one more scan.
Fault_ExpiresLate == {w \in workers : age[w] > DeadAfter + ScanEvery}

\* Fault: only an entry that has had a heartbeat expires.
Fault_ExpiresIfBeaten == {w \in workers \cap leased : age[w] > DeadAfter}

\* The entries whose last heartbeat is older than DeadAfter.
Expired == {w \in workers : age[w] > DeadAfter}

\* reap_dead_workers.
Reap ==
  /\ up
  /\ scan = 0
  /\ scan' = ScanEvery
  /\ workers' = workers \ Expired
  /\ age' = [w \in Workers |-> IF w \in Expired THEN 0 ELSE age[w]]
  /\ leased' = leased \ Expired
  /\ UNCHANGED <<up, accepts, upFor, known, quiet, nodeVars, envVars>>

\* The process stops; connections to it break.  An answer it has sent may still
\* arrive.
CoordCrashes ==
  /\ up
  /\ restarts < MaxRestarts
  /\ restarts' = restarts + 1
  /\ up' = FALSE
  /\ workers' = {} /\ known' = {} /\ leased' = {}
  /\ age' = [w \in Workers |-> 0]
  /\ scan' = ScanEvery /\ upFor' = 0
  /\ rpc' = [w \in Workers |-> IF rpc[w] = "sent" THEN "broken" ELSE rpc[w]]
  /\ late' = [w \in Workers |-> 0]
  /\ UNCHANGED <<accepts, node, attempt, delay, timer, rpcAge, beat, misses, losses, quiet>>

\* It starts again, perhaps as another release; the reaper skips its first tick.
CoordStarts ==
  /\ ~up
  /\ up' = TRUE
  /\ accepts' \in BOOLEAN
  /\ UNCHANGED <<workers, age, scan, nodeVars, envVars, histVars>>
-----------------------------------------------------------------------------
\* What has to happen before time goes on.
Due ==
  \/ up /\ scan = 0
  \/ \E w \in Workers :
       \/ Running(w) /\ rpc[w] = "none" /\ timer[w] = 0
       \/ rpc[w] # "none" /\ rpcAge[w] = RpcTimeout
       \/ BeatDue(w)

\* One unit later (the history clocks stop at a limit).
Older(n, limit) == IF n < limit THEN n + 1 ELSE n
Sooner(n) == IF n > 0 THEN n - 1 ELSE 0

Tick ==
  /\ ~Due
  /\ age' = [w \in Workers |-> IF w \in workers THEN age[w] + 1 ELSE 0]
  /\ scan' = IF up THEN scan - 1 ELSE scan
  /\ timer' = [w \in Workers |-> Sooner(timer[w])]
  /\ beat' = [w \in Workers |-> Sooner(beat[w])]
  /\ rpcAge' = [w \in Workers |-> IF rpc[w] = "none" THEN 0 ELSE rpcAge[w] + 1]
  /\ upFor' = IF up THEN Older(upFor, RelearnedBy + 1) ELSE 0
  /\ quiet' = [w \in Workers |-> IF Running(w) THEN 0 ELSE Older(quiet[w], ForgottenBy + 1)]
  /\ UNCHANGED <<up, accepts, workers, node, attempt, delay, rpc, late, misses, envVars, known, leased>>

Node(w) == SendRegister(w) \/ RegisterReplied(w) \/ RegisterFails(w) \/ BeatLost(w)
           \/ WorkerDies(w)
Handler(w) == CoordRegister(w) \/ Heartbeat(w)

Next ==
  \/ \E w \in Workers : Node(w) \/ Handler(w) \/ LateRegister(w)
  \/ Reap
  \/ CoordCrashes \/ CoordStarts
  \/ Tick

Spec == Init /\ [][Next]_vars

\* Timers fire, requests that are waited for are served or fail, a stopped coordinator is started
\* again (the case the re-register loop is written for), and time passes.
Fairness ==
  /\ \A w \in Workers : /\ WF_vars(SendRegister(w))
                        /\ WF_vars(RegisterReplied(w) \/ RegisterFails(w))
                        /\ WF_vars(Handler(w)) /\ WF_vars(BeatLost(w))
  /\ WF_vars(Reap) /\ WF_vars(CoordStarts) /\ WF_vars(Tick)

FairSpec == Spec /\ Fairness
=============================================================================
