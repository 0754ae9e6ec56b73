---------------------------- MODULE RunLifecycle ----------------------------
(***************************************************************************)
(* The life of one run's row in the control plane, written concurrently by *)
(*                                                                         *)
(*   - CreateRun and the dispatchToCoordinator goroutine it starts,        *)
(*   - AbortRun handlers (the row first, then the coordinator),            *)
(*   - the cost guard, one checkCost goroutine per ingested tick,          *)
(*   - the coordinator's tick pushes and its one finalize push,            *)
(*                                                                         *)
(* with the coordinator's run_endpoint seen from outside: it registers the *)
(* run, pushes ticks while it dispatches, reads its cancel token once,     *)
(* deregisters, pushes the finals and answers the POST.  Dispatch is the   *)
(* inside of that.                                                         *)
(*                                                                         *)
(* Failures: requests between the services are lost, database writes fail, *)
(* the dispatcher's deadline passes, the control plane restarts.           *)
(***************************************************************************)
EXTENDS Integers

CONSTANTS
  Aborters,         \* concurrent callers of POST /v1/runs/:id/abort
  MaxTicks,         \* bound: ticks the coordinator pushes
  OverTick,         \* the first tick whose cumulative cost exceeds the ceiling
  MaxLost,          \* bound: requests lost between control and coordinator
  MaxFinalizeLost,  \* bound: finalize pushes that never reach the row
  MaxDbErrors,      \* bound: database statements that fail
  MaxRestarts       \* bound: restarts of the control plane

ASSUME LifecycleAssumption ==
  /\ MaxTicks \in Nat /\ OverTick \in Nat
  /\ MaxLost \in Nat /\ MaxFinalizeLost \in Nat
  /\ MaxDbErrors \in Nat /\ MaxRestarts \in Nat

VARIABLES
  \* ---- the row ----
  status, finals,
  reason,       \* status_reason
  metered,      \* are both cost fields of the row set
  \* ---- control plane, in memory ----
  disp,         \* the dispatchToCoordinator goroutine
  aborter,      \* the AbortRun handlers
  costJob,      \* the checkCost goroutine of each ingested tick
  guard,        \* the run's costState in the costGuard map
  costStop,     \* the abortOnCoordinator goroutine of a tripped guard
  \* ---- coordinator, from outside ----
  coord,        \* where run_endpoint is
  registered,   \* is the run in the in-flight registry
  cancelled,    \* its cancel token
  outcome,      \* the status dispatch_with_ticks returned
  reply,        \* the answer to the dispatcher's POST
  ticks,        \* ticks pushed so far
  \* ---- environment ----
  lost, finalizeLost, dbErrors, restarts

rowVars   == <<status, finals, reason, metered>>
ctlVars   == <<disp, aborter, costJob, guard, costStop>>
coordVars == <<coord, registered, cancelled, outcome, reply, ticks>>
envVars   == <<lost, finalizeLost, dbErrors, restarts>>
vars == <<rowVars, ctlVars, coordVars, envVars>>

Ticks == 1 .. MaxTicks
Terminal == {"completed", "failed", "aborted"}

NoGuard == [cached |-> FALSE, active |-> FALSE, tripped |-> FALSE]

Init ==
  /\ status = "absent" /\ finals = FALSE /\ reason = "none" /\ metered \in BOOLEAN
  /\ disp = "none"
  /\ aborter = [a \in Aborters |-> "idle"]
  /\ costJob = [t \in Ticks |-> "none"]
  /\ guard = NoGuard /\ costStop = FALSE
  /\ coord = "idle" /\ registered = FALSE /\ cancelled = FALSE
  /\ outcome = "none" /\ reply = "none" /\ ticks = 0
  /\ lost = 0 /\ finalizeLost = 0 /\ dbErrors = 0 /\ restarts = 0

\* A request between the services is lost.
Lose == lost < MaxLost /\ lost' = lost + 1 /\ UNCHANGED <<finalizeLost, dbErrors, restarts>>

\* A database statement fails.  Every caller below logs the error and goes on.
DbFails ==
  /\ dbErrors < MaxDbErrors
  /\ dbErrors' = dbErrors + 1
  /\ UNCHANGED <<lost, finalizeLost, restarts>>
-----------------------------------------------------------------------------
(***************************************************************************)
(* The row's statements.  (Fault_... operators are mistakes for mutation   *)
(* checks, see Dispatch.)                                                  *)
(***************************************************************************)

\* Fault: MarkRunning without its status filter.
Fault_MarkRunningAlways == status' = "running" /\ UNCHANGED <<finals, reason, metered>>

MarkRunning ==
  /\ status' = IF status = "queued" THEN "running" ELSE status
  /\ UNCHANGED <<finals, reason, metered>>

\* MarkFailed, MarkAborted and the UPDATE of AbortRun: a no-op on a terminal row.
StopRow(s, why) ==
  /\ status' = IF status \in Terminal THEN status ELSE s
  /\ reason' = IF status \in Terminal THEN reason ELSE why
  /\ UNCHANGED <<finals, metered>>

\* FinalizeRun: unconditional, and NULLIF('', '') clears the reason.
FinalizeRow(s) ==
  /\ status' = s
  /\ reason' = "none"
  /\ finals' = TRUE
  /\ UNCHANGED metered
-----------------------------------------------------------------------------
(***************************************************************************)
(* CreateRun and dispatchToCoordinator.                                    *)
(***************************************************************************)

\* The row is inserted queued and, with a coordinator configured, dispatched.
CreateRun ==
  /\ status = "absent"
  /\ status' = "queued"
  /\ disp' = "marking"
  /\ UNCHANGED <<finals, reason, metered, aborter, costJob, guard, costStop>>
  /\ UNCHANGED <<coordVars, envVars>>

\* The result of MarkRunning is only logged: the dispatch goes on either way.
DispatchMarks ==
  /\ disp = "marking"
  /\ disp' = "posting"
  /\ \/ MarkRunning /\ UNCHANGED envVars
     \/ DbFails /\ UNCHANGED rowVars
  /\ UNCHANGED <<aborter, costJob, guard, costStop, coordVars>>

DispatchPosts ==
  /\ disp = "posting"
  /\ \/ /\ disp' = "waiting"
        /\ coord' = "accepted"
        /\ UNCHANGED envVars
     \/ /\ Lose
        /\ disp' = "failing"
        /\ UNCHANGED coord
  /\ UNCHANGED <<rowVars, aborter, costJob, guard, costStop>>
  /\ UNCHANGED <<registered, cancelled, outcome, reply, ticks>>

\* Fault: a coordinator error is taken for a finished run.
Fault_AnyReplyIsSuccess ==
  /\ disp = "waiting"
  /\ reply # "none"
  /\ disp' = "done"
  /\ UNCHANGED <<rowVars, aborter, costJob, guard, costStop, coordVars, envVars>>

DispatchReplied ==
  /\ disp = "waiting"
  /\ reply # "none"
  /\ disp' = IF reply = "ok" THEN "done" ELSE "failing"
  /\ UNCHANGED <<rowVars, aborter, costJob, guard, costStop, coordVars, envVars>>

\* The context deadline (duration_s + 120 s) passes, or the connection breaks
\* before or under the reply.
DispatchGivesUp ==
  /\ disp = "waiting"
  /\ Lose
  /\ disp' = "failing"
  /\ UNCHANGED <<rowVars, aborter, costJob, guard, costStop, coordVars>>

DispatchFailed ==
  /\ disp = "failing"
  /\ disp' = "done"
  /\ \/ StopRow("failed", "dispatch") /\ UNCHANGED envVars
     \/ DbFails /\ UNCHANGED rowVars
  /\ UNCHANGED <<aborter, costJob, guard, costStop, coordVars>>
-----------------------------------------------------------------------------
(***************************************************************************)
(* The coordinator's run_endpoint.                                         *)
(***************************************************************************)

CoordNoWorkers ==
  /\ coord = "accepted"
  /\ coord' = "replied"
  /\ reply' = "error"
  /\ UNCHANGED <<registered, cancelled, outcome, ticks, rowVars, ctlVars, envVars>>

CoordRegisters ==
  /\ coord = "accepted"
  /\ coord' = "dispatching"
  /\ registered' = TRUE
  /\ UNCHANGED <<cancelled, outcome, reply, ticks, rowVars, ctlVars, envVars>>

\* The forwarder task POSTs the next aggregated tick; IngestTick starts a
\* checkCost goroutine for it.  A push that fails is ignored.  Ticks still
\* queued when the dispatch ends, or its handler is dropped, are pushed then.
CoordPushesTick ==
  /\ coord \in {"dispatching", "summed", "finalizing", "dropped"}
  /\ ticks < MaxTicks
  /\ ticks' = ticks + 1
  /\ \/ costJob' = [costJob EXCEPT ![ticks + 1] = "new"] /\ UNCHANGED envVars
     \/ Lose /\ UNCHANGED costJob
  /\ UNCHANGED <<coord, registered, cancelled, outcome, reply>>
  /\ UNCHANGED <<rowVars, disp, aborter, guard, costStop>>

\* Every worker task has ended: the cancel token is read ...
CoordSums ==
  /\ coord = "dispatching"
  /\ coord' = "summed"
  /\ outcome' = IF cancelled THEN "aborted" ELSE "completed"
  /\ UNCHANGED <<registered, cancelled, reply, ticks, rowVars, ctlVars, envVars>>

\* ... and the run deregistered.
CoordDeregisters ==
  /\ coord = "summed"
  /\ coord' = "finalizing"
  /\ registered' = FALSE
  /\ UNCHANGED <<cancelled, outcome, reply, ticks, rowVars, ctlVars, envVars>>

\* Fault: the finalize push always reports a completed run.
Fault_FinalizeCompleted ==
  /\ coord = "finalizing"
  /\ coord' = "finalized"
  /\ FinalizeRow("completed") /\ UNCHANGED envVars
  /\ UNCHANGED <<registered, cancelled, outcome, reply, ticks, ctlVars>>

\* Fault: the finals are pushed while the dispatch still runs.
Fault_FinalizeBeforeSum ==
  /\ coord \in {"dispatching", "finalizing"}
  /\ coord' = "finalized"
  /\ FinalizeRow(outcome) /\ UNCHANGED envVars
  /\ UNCHANGED <<registered, cancelled, outcome, reply, ticks, ctlVars>>

\* The one finalize push; best effort.
CoordFinalizes ==
  /\ coord = "finalizing"
  /\ coord' = "finalized"
  /\ \/ FinalizeRow(outcome) /\ UNCHANGED envVars
     \/ /\ finalizeLost < MaxFinalizeLost
        /\ finalizeLost' = finalizeLost + 1
        /\ UNCHANGED <<rowVars, lost, dbErrors, restarts>>
  /\ UNCHANGED <<registered, cancelled, outcome, reply, ticks, ctlVars>>

CoordReplies ==
  /\ coord = "finalized"
  /\ coord' = "replied"
  /\ reply' = "ok"
  /\ UNCHANGED <<registered, cancelled, outcome, ticks, rowVars, ctlVars, envVars>>

\* The caller is gone and the server notices: the handler's future is dropped
\* at an await.  Nothing is finalized, and a run that is registered stays so,
\* since deregister_run is never reached.
HandlerDropped ==
  /\ disp \in {"failing", "done", "gone"}
  /\ coord \in {"accepted", "dispatching", "finalizing"}
  /\ coord' = IF coord = "accepted" THEN "idle" ELSE "dropped"
  /\ UNCHANGED <<registered, cancelled, outcome, reply, ticks, rowVars, ctlVars, envVars>>
-----------------------------------------------------------------------------
(***************************************************************************)
(* AbortRun.                                                               *)
(***************************************************************************)

\* Fault: the status is read before the transaction, not FOR UPDATE in it.
Fault_AbortAnyRow(a) ==
  /\ aborter[a] = "idle"
  /\ status # "absent"
  /\ aborter' = [aborter EXCEPT ![a] = "propagating"]
  /\ StopRow("aborted", "request")
  /\ UNCHANGED <<disp, costJob, guard, costStop, coordVars, envVars>>

\* Store.AbortRun, one transaction under the row lock: 409 if terminal.
AbortRow(a) ==
  /\ aborter[a] = "idle"
  /\ status # "absent"
  /\ aborter' = [aborter EXCEPT ![a] = IF status \in Terminal THEN "conflict" ELSE "propagating"]
  /\ StopRow("aborted", "request")
  /\ UNCHANGED <<disp, costJob, guard, costStop, coordVars, envVars>>

\* A statement of the transaction or its commit fails: 500, and the fleet is
\* not told, though the commit may have been applied.
AbortRowFails(a) ==
  /\ aborter[a] = "idle"
  /\ status \notin Terminal \cup {"absent"}
  /\ DbFails
  /\ aborter' = [aborter EXCEPT ![a] = "error"]
  /\ StopRow("aborted", "request") \/ UNCHANGED rowVars
  /\ UNCHANGED <<disp, costJob, guard, costStop, coordVars>>

\* abortOnCoordinator: cancels a registered run; 404 (ignored) if it is not
\* registered, and ignored if the request is lost.
AbortOnCoordinator ==
  /\ \/ cancelled' = (cancelled \/ registered) /\ UNCHANGED envVars
     \/ Lose /\ UNCHANGED cancelled
  /\ UNCHANGED <<coord, registered, outcome, reply, ticks>>

AbortPropagates(a) ==
  /\ aborter[a] = "propagating"
  /\ aborter' = [aborter EXCEPT ![a] = "accepted"]
  /\ AbortOnCoordinator
  /\ UNCHANGED <<rowVars, disp, costJob, guard, costStop>>
-----------------------------------------------------------------------------
(***************************************************************************)
(* checkCost for tick t.                                                   *)
(***************************************************************************)

\* costGuard.Load, and on a miss GetRunCost: an error reads as "not metered".
CostLoads(t) ==
  /\ costJob[t] = "new"
  /\ \/ /\ guard.cached
        /\ costJob' = [costJob EXCEPT ![t] = "checking"]
        /\ UNCHANGED envVars
     \/ /\ ~guard.cached
        /\ costJob' = [costJob EXCEPT ![t] = IF metered THEN "read_active" ELSE "read_inactive"]
        /\ UNCHANGED envVars
     \/ /\ ~guard.cached
        /\ DbFails
        /\ costJob' = [costJob EXCEPT ![t] = "read_inactive"]
  /\ UNCHANGED <<rowVars, disp, aborter, guard, costStop, coordVars>>

\* LoadOrStore: the first of the racing goroutines wins.
CostStores(t) ==
  /\ costJob[t] \in {"read_active", "read_inactive"}
  /\ costJob' = [costJob EXCEPT ![t] = "checking"]
  /\ guard' = IF guard.cached THEN guard
              ELSE [cached |-> TRUE, active |-> costJob[t] = "read_active", tripped |-> FALSE]
  /\ UNCHANGED <<rowVars, disp, aborter, costStop, coordVars, envVars>>

\* Fault: the ceiling is compared off by one tick.
Fault_OverCeiling(t) == guard.active /\ ~guard.tripped /\ t > OverTick

OverCeiling(t) == guard.active /\ ~guard.tripped /\ t >= OverTick

CostWithinBudget(t) ==
  /\ costJob[t] = "checking"
  /\ ~OverCeiling(t)
  /\ costJob' = [costJob EXCEPT ![t] = "done"]
  /\ UNCHANGED <<rowVars, disp, aborter, guard, costStop, coordVars, envVars>>

\* Fault: the guard stops the fleet but not the row.
Fault_TripLeavesRow(t) ==
  /\ costJob[t] = "checking"
  /\ OverCeiling(t)
  /\ costJob' = [costJob EXCEPT ![t] = "done"]
  /\ guard' = [guard EXCEPT !.tripped = TRUE]
  /\ costStop' = TRUE
  /\ UNCHANGED <<rowVars, envVars, disp, aborter, coordVars>>

\* Trip, MarkAborted (its error only logged), and a goroutine for the fleet.
CostTrips(t) ==
  /\ costJob[t] = "checking"
  /\ OverCeiling(t)
  /\ costJob' = [costJob EXCEPT ![t] = "done"]
  /\ guard' = [guard EXCEPT !.tripped = TRUE]
  /\ costStop' = TRUE
  /\ \/ StopRow("aborted", "cost") /\ UNCHANGED envVars
     \/ DbFails /\ UNCHANGED rowVars
  /\ UNCHANGED <<disp, aborter, coordVars>>

CostStops ==
  /\ costStop
  /\ costStop' = FALSE
  /\ AbortOnCoordinator
  /\ UNCHANGED <<rowVars, disp, aborter, costJob, guard>>
-----------------------------------------------------------------------------
\* The control plane restarts: its goroutines and caches are gone, and nothing
\* is resumed.
ControlRestarts ==
  /\ restarts < MaxRestarts
  /\ restarts' = restarts + 1
  /\ disp' = IF disp \in {"none", "done"} THEN disp ELSE "gone"
  /\ aborter' = [a \in Aborters |-> IF aborter[a] = "propagating" THEN "gone" ELSE aborter[a]]
  /\ costJob' = [t \in Ticks |-> IF costJob[t] = "none" THEN "none" ELSE "done"]
  /\ guard' = NoGuard
  /\ costStop' = FALSE
  /\ UNCHANGED <<rowVars, coordVars, lost, finalizeLost, dbErrors>>

\* Nothing is left to do.
Quiet ==
  /\ disp \in {"done", "gone"}
  /\ \A a \in Aborters : aborter[a] \notin {"idle", "propagating"}
  /\ \A t \in Ticks : costJob[t] \in {"none", "done"}
  /\ ~costStop
  /\ coord \in {"idle", "dropped", "replied"}
  /\ UNCHANGED vars

Dispatcher == DispatchMarks \/ DispatchPosts \/ DispatchReplied \/ DispatchFailed
Coordinator == CoordNoWorkers \/ CoordRegisters \/ CoordSums \/ CoordDeregisters
               \/ CoordFinalizes \/ CoordReplies
CostJob(t) == CostLoads(t) \/ CostStores(t) \/ CostWithinBudget(t) \/ CostTrips(t)

Next ==
  \/ CreateRun
  \/ Dispatcher \/ DispatchGivesUp
  \/ Coordinator \/ CoordPushesTick \/ HandlerDropped
  \/ \E a \in Aborters : AbortRow(a) \/ AbortRowFails(a) \/ AbortPropagates(a)
  \/ \E t \in Ticks : CostJob(t)
  \/ CostStops
  \/ ControlRestarts
  \/ Quiet

Spec == Init /\ [][Next]_vars

\* The Go scheduler runs every goroutine, the coordinator's dispatch returns
\* (DispatchReturns in DispatchProps), and requests are answered or fail.
Fairness ==
  /\ WF_vars(Dispatcher)
  /\ WF_vars(Coordinator)
  /\ \A a \in Aborters : WF_vars(AbortPropagates(a))
  /\ \A t \in Ticks : WF_vars(CostJob(t))
  /\ WF_vars(CostStops)

FairSpec == Spec /\ Fairness
=============================================================================
