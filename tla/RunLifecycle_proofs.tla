------------------------- MODULE RunLifecycle_proofs -------------------------
(***************************************************************************)
(* Theorems about RunLifecycle: for any number of aborters, ticks, lost    *)
(* requests, database errors and restarts, the row behaves as RunRow       *)
(* promises and the invariants checked on small instances hold.            *)
(***************************************************************************)
EXTENDS RunLifecycleProps, FiniteSetTheorems, TLAPS

\* Where the dispatcher and run_endpoint are, relative to the row: nobody is at
\* work for a row that does not exist, the coordinator knows nothing of a run
\* that was not posted, and it has an outcome once it has summed up.
Stages ==
  /\ status = "absent" => /\ disp = "none" /\ coord = "idle" /\ ~finals
                          /\ \A t \in Ticks : costJob[t] = "none"
  /\ disp \in {"none", "marking", "posting"} => coord = "idle"
  /\ coord \in {"summed", "finalizing", "finalized"} => outcome # "none"

\* The finals are written once, by the finalize push, and stand.
Finals == finals => /\ coord \in {"finalized", "replied"}
                    /\ outcome # "none"
                    /\ status = outcome

\* The inductive invariant for the row.
RowInv == TypeOK /\ Stages /\ Finals

\* There is no row at the start.
LEMMA RowInvInit == Init => RowInv
<1> SUFFICES ASSUME Init PROVE RowInv
  OBVIOUS
<1> USE LifecycleAssumption DEF Init, NoGuard, Ticks, Terminal
<1>1. RowTypeOK BY DEF RowTypeOK
<1>2. CtlTypeOK BY DEF CtlTypeOK
<1>3. CoordTypeOK
  <2>1. ticks \in 0 .. MaxTicks
    OBVIOUS
  <2> QED BY <2>1 DEF CoordTypeOK
<1>4. EnvTypeOK BY DEF EnvTypeOK
<1>5. Stages BY DEF Stages
<1>6. Finals BY DEF Finals
<1> QED BY <1>1, <1>2, <1>3, <1>4, <1>5, <1>6 DEF RowInv, TypeOK

\* Every step keeps the invariant.
LEMMA RowInvNext == RowInv /\ [Next]_vars => RowInv'
<1> SUFFICES ASSUME RowInv, [Next]_vars PROVE RowInv'
  OBVIOUS
<1> USE LifecycleAssumption DEF RowInv, TypeOK, RowTypeOK, CtlTypeOK, CoordTypeOK, EnvTypeOK,
        Stages, Finals, Ticks, Terminal, ctlVars, coordVars, envVars, rowVars, Lose, DbFails
<1>1. CASE CreateRun BY <1>1 DEF CreateRun
<1>2. CASE DispatchMarks BY <1>2 DEF DispatchMarks, MarkRunning
<1>3. CASE DispatchPosts BY <1>3 DEF DispatchPosts
<1>4. CASE DispatchReplied BY <1>4 DEF DispatchReplied
<1>5. CASE DispatchFailed BY <1>5 DEF DispatchFailed, StopRow
<1>6. CASE DispatchGivesUp BY <1>6 DEF DispatchGivesUp
<1>7. CASE CoordNoWorkers BY <1>7 DEF CoordNoWorkers
<1>8. CASE CoordRegisters BY <1>8 DEF CoordRegisters
<1>9. CASE CoordPushesTick BY <1>9 DEF CoordPushesTick
<1>10. CASE CoordSums BY <1>10 DEF CoordSums
<1>11. CASE CoordDeregisters
  <2>1. RowTypeOK' BY <1>11 DEF CoordDeregisters
  <2>2. CtlTypeOK' BY <1>11 DEF CoordDeregisters
  <2>3. CoordTypeOK' BY <1>11 DEF CoordDeregisters
  <2>4. EnvTypeOK' BY <1>11 DEF CoordDeregisters
  <2>5. Stages' BY <1>11 DEF CoordDeregisters
  <2>6. Finals' BY <1>11 DEF CoordDeregisters
  <2> QED BY <2>1, <2>2, <2>3, <2>4, <2>5, <2>6
<1>12. CASE CoordFinalizes
  <2>1. RowTypeOK' BY <1>12 DEF CoordFinalizes, FinalizeRow
  <2>2. CtlTypeOK' BY <1>12 DEF CoordFinalizes, FinalizeRow
  <2>3. CoordTypeOK' BY <1>12 DEF CoordFinalizes, FinalizeRow
  <2>4. EnvTypeOK' BY <1>12 DEF CoordFinalizes, FinalizeRow
  <2>5. Stages' BY <1>12 DEF CoordFinalizes, FinalizeRow
  <2>6. Finals' BY <1>12 DEF CoordFinalizes, FinalizeRow
  <2> QED BY <2>1, <2>2, <2>3, <2>4, <2>5, <2>6
<1>13. CASE CoordReplies BY <1>13 DEF CoordReplies
<1>14. CASE HandlerDropped BY <1>14 DEF HandlerDropped
<1>15. ASSUME NEW a \in Aborters, AbortRow(a) PROVE RowInv'
  BY <1>15 DEF AbortRow, StopRow
<1>16. ASSUME NEW a \in Aborters, AbortRowFails(a) PROVE RowInv'
  BY <1>16 DEF AbortRowFails, StopRow
<1>17. ASSUME NEW a \in Aborters, AbortPropagates(a) PROVE RowInv'
  BY <1>17 DEF AbortPropagates, AbortOnCoordinator
<1>18. ASSUME NEW t \in Ticks, CostLoads(t) PROVE RowInv'
  BY <1>18 DEF CostLoads
<1>19. ASSUME NEW t \in Ticks, CostStores(t) PROVE RowInv'
  BY <1>19 DEF CostStores
<1>20. ASSUME NEW t \in Ticks, CostWithinBudget(t) PROVE RowInv'
  BY <1>20 DEF CostWithinBudget
<1>21. ASSUME NEW t \in Ticks, CostTrips(t) PROVE RowInv'
  <2>1. RowTypeOK' BY <1>21 DEF CostTrips, StopRow
  <2>2. CtlTypeOK' BY <1>21 DEF CostTrips, StopRow
  <2>3. CoordTypeOK' BY <1>21 DEF CostTrips, StopRow
  <2>4. EnvTypeOK' BY <1>21 DEF CostTrips, StopRow
  <2>5. Stages' BY <1>21 DEF CostTrips, StopRow
  <2>6. Finals' BY <1>21 DEF CostTrips, StopRow
  <2> QED BY <2>1, <2>2, <2>3, <2>4, <2>5, <2>6
<1>22. CASE CostStops
  <2>1. RowTypeOK' BY <1>22 DEF CostStops, AbortOnCoordinator
  <2>2. CtlTypeOK' BY <1>22 DEF CostStops, AbortOnCoordinator
  <2>3. CoordTypeOK' BY <1>22 DEF CostStops, AbortOnCoordinator
  <2>4. EnvTypeOK' BY <1>22 DEF CostStops, AbortOnCoordinator
  <2>5. Stages' BY <1>22 DEF CostStops, AbortOnCoordinator
  <2>6. Finals' BY <1>22 DEF CostStops, AbortOnCoordinator
  <2> QED BY <2>1, <2>2, <2>3, <2>4, <2>5, <2>6
<1>23. CASE ControlRestarts
  <2>1. RowTypeOK' BY <1>23 DEF ControlRestarts, NoGuard
  <2>2. CtlTypeOK' BY <1>23 DEF ControlRestarts, NoGuard
  <2>3. CoordTypeOK' BY <1>23 DEF ControlRestarts, NoGuard
  <2>4. EnvTypeOK' BY <1>23 DEF ControlRestarts, NoGuard
  <2>5. Stages' BY <1>23 DEF ControlRestarts, NoGuard
  <2>6. Finals' BY <1>23 DEF ControlRestarts, NoGuard
  <2> QED BY <2>1, <2>2, <2>3, <2>4, <2>5, <2>6
<1>24. CASE UNCHANGED vars BY <1>24 DEF vars
<1> QED
  BY <1>1, <1>2, <1>3, <1>4, <1>5, <1>6, <1>7, <1>8, <1>9, <1>10, <1>11, <1>12,
     <1>13, <1>14, <1>15, <1>16, <1>17, <1>18, <1>19, <1>20, <1>21, <1>22, <1>23, <1>24
  DEF Next, Dispatcher, Coordinator, CostJob, Quiet

\* Every variable keeps its type, whatever the bounds.
THEOREM LifecycleTypeCorrect == Spec => []TypeOK
<1>1. Spec => []RowInv
  BY RowInvInit, RowInvNext, PTL DEF Spec
<1> QED
  BY <1>1, PTL DEF RowInv

\* After the finals nothing blends into the row: it shows the coordinator's
\* outcome in every later state.
THEOREM FinalsCarryOutcomeHolds == Spec => []FinalsCarryOutcome
<1>1. Spec => []RowInv
  BY RowInvInit, RowInvNext, PTL DEF Spec
<1>2. RowInv => FinalsCarryOutcome
  BY DEF RowInv, Finals, FinalsCarryOutcome
<1> QED
  BY <1>1, <1>2, PTL

-----------------------------------------------------------------------------
(***************************************************************************)
(* The refinement.  A step of RunLifecycle either leaves status and finals *)
(* alone, or is one step of RunRow.                                        *)
(***************************************************************************)

\* A guarded stop of the row is RunRow's, or changes nothing.
LEMMA StopRefines ==
  ASSUME NEW s \in {"failed", "aborted"}, NEW why, RowInv, status # "absent", StopRow(s, why)
  PROVE  [Row!Next]_Row!vars
<1>1. CASE status \in Terminal
  BY <1>1 DEF StopRow, Row!vars
<1>2. CASE status \notin Terminal
  <2>1. Row!Stop(s)
    BY <1>2 DEF StopRow, Row!Stop, RowInv, TypeOK, RowTypeOK
  <2> QED BY <2>1 DEF Row!Next
<1> QED BY <1>1, <1>2

\* Every step is one of RunRow or leaves the row alone.
LEMMA RowStep == RowInv /\ [Next]_vars => [Row!Next]_Row!vars
<1> SUFFICES ASSUME RowInv, [Next]_vars PROVE [Row!Next]_Row!vars
  OBVIOUS
<1> USE DEF RowInv
<1>1. CASE UNCHANGED rowVars
  BY <1>1 DEF rowVars, Row!vars
<1>2. CASE CreateRun
  BY <1>2 DEF CreateRun, Row!Insert, Row!Next
<1>3. CASE DispatchMarks
  <2>1. CASE MarkRunning
    BY <2>1 DEF MarkRunning, Row!Start, Row!Next, Row!vars
  <2> QED BY <2>1, <1>1, <1>3 DEF DispatchMarks
<1>4. CASE DispatchFailed
  <2>1. status # "absent"
    BY <1>4 DEF DispatchFailed, Stages
  <2> QED BY <2>1, <1>1, <1>4, StopRefines DEF DispatchFailed
<1>5. CASE CoordFinalizes
  <2>1. CASE FinalizeRow(outcome)
    <3>1. status # "absent" /\ ~finals
      BY <1>5 DEF CoordFinalizes, Stages, Finals
    <3>2. outcome \in {"completed", "aborted"}
      BY <1>5 DEF CoordFinalizes, Stages, TypeOK, CoordTypeOK
    <3>3. Row!Finalize(outcome)
      BY <2>1, <3>1 DEF FinalizeRow, Row!Finalize
    <3> QED BY <3>2, <3>3 DEF Row!Next
  <2> QED BY <2>1, <1>1, <1>5 DEF CoordFinalizes
<1>6. ASSUME NEW a \in Aborters, AbortRow(a) PROVE [Row!Next]_Row!vars
  BY <1>6, StopRefines DEF AbortRow
<1>7. ASSUME NEW a \in Aborters, AbortRowFails(a) PROVE [Row!Next]_Row!vars
  BY <1>7, <1>1, StopRefines DEF AbortRowFails
<1>8. ASSUME NEW t \in Ticks, CostTrips(t) PROVE [Row!Next]_Row!vars
  <2>1. status # "absent"
    BY <1>8 DEF CostTrips, Stages
  <2> QED BY <2>1, <1>1, <1>8, StopRefines DEF CostTrips
<1> QED
  BY <1>1, <1>2, <1>3, <1>4, <1>5, <1>6, <1>7, <1>8
  DEF Next, vars, Quiet, Dispatcher, DispatchPosts, DispatchReplied, DispatchGivesUp,
      Coordinator, CoordNoWorkers, CoordRegisters, CoordPushesTick, CoordSums,
      CoordDeregisters, CoordReplies, HandlerDropped, AbortPropagates, CostJob, CostLoads,
      CostStores, CostWithinBudget, CostStops, ControlRestarts

\* The row does what RunRow promises, whatever the interleaving of the
\* dispatcher, the aborts, the cost guard, the pushes and the restarts.
THEOREM RowRefinement == Spec => RowSpec
<1>1. Init => Row!Init
  BY DEF Init, Row!Init
<1>2. Spec => []RowInv
  BY RowInvInit, RowInvNext, PTL DEF Spec
<1> QED
  BY <1>1, <1>2, RowStep, PTL DEF Spec, RowSpec, Row!Spec

-----------------------------------------------------------------------------
(***************************************************************************)
(* Concurrent aborts.                                                      *)
(***************************************************************************)

Told == {a \in Aborters : aborter[a] \in {"propagating", "accepted", "gone"}}

\* Somebody was told so only if the row is terminal, and then nobody else is.
Exclusive ==
  /\ Told # {} => status \in Terminal
  /\ \A a, b \in Told : a = b

\* At most one aborter is told that its abort was accepted.
LEMMA ExclusiveInv == Spec => []Exclusive
<1>1. Init => Exclusive
  BY DEF Init, Exclusive, Told
<1>2. RowInv /\ Exclusive /\ [Next]_vars => Exclusive'
  <2> SUFFICES ASSUME RowInv, Exclusive, [Next]_vars PROVE Exclusive'
    OBVIOUS
  <2> USE DEF RowInv, Exclusive, Told
  <2>1. status \in Terminal => status' \in Terminal
    BY RowStep DEF Row!Next, Row!vars, Row!Insert, Row!Start, Row!Stop, Row!Finalize, Terminal
  <2>2. ASSUME NEW a \in Aborters, AbortRow(a) PROVE Exclusive'
    BY <2>1, <2>2 DEF AbortRow, StopRow, Terminal, TypeOK, CtlTypeOK
  <2>3. ASSUME NEW a \in Aborters, AbortRowFails(a) PROVE Exclusive'
    BY <2>1, <2>3 DEF AbortRowFails, TypeOK, CtlTypeOK
  <2>4. ASSUME NEW a \in Aborters, AbortPropagates(a) PROVE Exclusive'
    BY <2>1, <2>4 DEF AbortPropagates, TypeOK, CtlTypeOK
  <2>5. CASE ControlRestarts
    BY <2>1, <2>5 DEF ControlRestarts, TypeOK, CtlTypeOK
  <2>6. CASE UNCHANGED aborter
    BY <2>1, <2>6
  <2> QED
    BY <2>2, <2>3, <2>4, <2>5, <2>6
    DEF Next, vars, ctlVars, Quiet, CreateRun, Dispatcher, DispatchMarks, DispatchPosts,
        DispatchReplied, DispatchFailed, DispatchGivesUp, Coordinator, CoordNoWorkers,
        CoordRegisters, CoordPushesTick, CoordSums, CoordDeregisters, CoordFinalizes,
        CoordReplies, HandlerDropped, CostJob, CostLoads, CostStores, CostWithinBudget,
        CostTrips, CostStops
<1> QED
  BY <1>1, <1>2, RowInvInit, RowInvNext, PTL DEF Spec

\* However many callers race, at most one is told that it aborted the run.
THEOREM OneAbort == Spec => []OneAbortAccepted
<1>1. Exclusive => OneAbortAccepted
  <2> SUFFICES ASSUME Exclusive PROVE Cardinality(Told) <= 1
    BY DEF OneAbortAccepted, Told
  <2>1. CASE Told = {}
    BY <2>1, FS_EmptySet
  <2>2. CASE Told # {}
    <3>1. PICK a : Told = {a}
      BY <2>2 DEF Exclusive
    <3>2. Cardinality({a}) = 1
      BY FS_Singleton
    <3> QED BY <3>1, <3>2
  <2> QED BY <2>1, <2>2
<1> QED
  BY <1>1, ExclusiveInv, PTL

-----------------------------------------------------------------------------
(***************************************************************************)
(* The cost ceiling.                                                       *)
(***************************************************************************)

\* While the database answers and the control plane stays up, what a goroutine
\* read and what the cache holds is what the row says, and a tripped guard has
\* stopped the row.
CostInv ==
  dbErrors = 0 /\ restarts = 0 =>
    /\ guard.cached => guard.active = metered
    /\ guard.tripped => guard.cached /\ status \in Terminal
    /\ \A t \in Ticks :
         /\ costJob[t] = "read_active" => metered
         /\ costJob[t] = "read_inactive" => ~metered
         /\ costJob[t] \in {"checking", "done"} => guard.cached
         /\ costJob[t] = "done" /\ t >= OverTick /\ metered => guard.tripped
    /\ reason = "cost" => metered

\* No guard is loaded at the start.
LEMMA CostInvInit == Init => CostInv
  BY DEF Init, CostInv, NoGuard

\* Every step keeps guard, goroutines and row in agreement.
LEMMA CostInvNext == RowInv /\ CostInv /\ [Next]_vars => CostInv'
<1> SUFFICES ASSUME RowInv, CostInv, [Next]_vars, dbErrors' = 0, restarts' = 0
             PROVE  CostInv'
  BY DEF CostInv
<1>1. dbErrors = 0 /\ restarts = 0
  BY LifecycleAssumption
  DEF RowInv, TypeOK, EnvTypeOK, Next, vars, envVars, Lose, DbFails, Quiet, CreateRun,
      Dispatcher, DispatchMarks, DispatchPosts, DispatchReplied, DispatchFailed,
      DispatchGivesUp, Coordinator, CoordNoWorkers, CoordRegisters, CoordPushesTick,
      CoordSums, CoordDeregisters, CoordFinalizes, CoordReplies, HandlerDropped, AbortRow,
      AbortRowFails, AbortPropagates, AbortOnCoordinator, CostJob, CostLoads, CostStores,
      CostWithinBudget, CostTrips, CostStops, ControlRestarts
<1>2. status \in Terminal => status' \in Terminal
  BY RowStep DEF Row!Next, Row!vars, Row!Insert, Row!Start, Row!Stop, Row!Finalize, Terminal
<1> USE DEF CostInv, RowInv, TypeOK, CtlTypeOK, RowTypeOK, EnvTypeOK
<1>3. CASE UNCHANGED <<guard, costJob, metered, reason>>
  BY <1>1, <1>2, <1>3
<1>4. ASSUME NEW s \in {"failed", "aborted"}, NEW why \in {"request", "dispatch"},
             StopRow(s, why), UNCHANGED <<guard, costJob>>
      PROVE  CostInv'
  BY <1>1, <1>2, <1>4 DEF StopRow
<1>5. CASE CoordPushesTick
  BY <1>1, <1>2, <1>5 DEF CoordPushesTick, rowVars, Ticks
<1>6. CASE CoordFinalizes
  BY <1>1, <1>2, <1>6 DEF CoordFinalizes, FinalizeRow, ctlVars, rowVars
<1>7. ASSUME NEW t \in Ticks, CostLoads(t) PROVE CostInv'
  BY <1>1, <1>2, <1>7 DEF CostLoads, DbFails, rowVars
<1>8. ASSUME NEW t \in Ticks, CostStores(t) PROVE CostInv'
  BY <1>1, <1>2, <1>8 DEF CostStores, rowVars
<1>9. ASSUME NEW t \in Ticks, CostWithinBudget(t) PROVE CostInv'
  BY <1>1, <1>2, <1>9 DEF CostWithinBudget, OverCeiling, rowVars
<1>10. ASSUME NEW t \in Ticks, CostTrips(t) PROVE CostInv'
  <2>1. guard.cached /\ guard.active /\ metered
    BY <1>1, <1>10 DEF CostTrips, OverCeiling
  <2>2. guard'.tripped /\ guard'.cached /\ guard'.active
    BY <2>1, <1>10 DEF CostTrips
  <2>3. \A u \in Ticks : costJob'[u] = IF u = t THEN "done" ELSE costJob[u]
    BY <1>10 DEF CostTrips
  <2>4. StopRow("aborted", "cost")
    BY <1>1, <1>10 DEF CostTrips, DbFails
  <2>5. status' \in Terminal /\ metered' = metered
    BY <2>4 DEF StopRow, Terminal
  <2> QED
    BY <1>1, <2>1, <2>2, <2>3, <2>5
<1>11. CASE ControlRestarts
  BY <1>1, <1>11 DEF ControlRestarts
<1>12. CASE UNCHANGED vars
  BY <1>3, <1>12 DEF vars, rowVars, ctlVars
<1>13. CASE CreateRun \/ Dispatcher \/ DispatchGivesUp
  BY <1>1, <1>3, <1>4, <1>13
  DEF CreateRun, Dispatcher, DispatchMarks, MarkRunning, DispatchPosts, DispatchReplied,
      DispatchFailed, DispatchGivesUp, DbFails, rowVars
<1>14. CASE CoordNoWorkers \/ CoordRegisters \/ CoordSums \/ CoordDeregisters
            \/ CoordReplies \/ HandlerDropped \/ CostStops
  BY <1>3, <1>14 DEF CoordNoWorkers, CoordRegisters, CoordSums, CoordDeregisters,
     CoordReplies, HandlerDropped, CostStops, rowVars, ctlVars
<1>15. ASSUME NEW a \in Aborters, AbortRow(a) \/ AbortRowFails(a) \/ AbortPropagates(a)
       PROVE  CostInv'
  BY <1>1, <1>3, <1>4, <1>15 DEF AbortRow, AbortRowFails, AbortPropagates, DbFails, rowVars
<1> QED
  BY <1>5, <1>6, <1>7, <1>8, <1>9, <1>10, <1>11, <1>12, <1>13, <1>14, <1>15
  DEF Next, Coordinator, CostJob, Quiet

\* However the goroutines of the ticks race to fill the cache, the guard trips on
\* the first tick over the ceiling that is looked at, and the row is stopped.
THEOREM CostCeiling == Spec => []CostCeilingHolds
<1>1. RowInv /\ CostInv => CostCeilingHolds
  BY DEF CostInv, CostCeilingHolds
<1> QED
  BY <1>1, RowInvInit, RowInvNext, CostInvInit, CostInvNext, PTL DEF Spec
-----------------------------------------------------------------------------
(***************************************************************************)
(* Stopping the fleet.                                                     *)
(***************************************************************************)

\* The row shows that the run is over or must end.
Stopped == status \in {"aborted", "failed"} \/ (finals /\ outcome = "completed")

\* Whoever has stopped the fleet, or is about to, has stopped the row before.
StopInv ==
  /\ status = "completed" => finals /\ outcome = "completed"
  /\ dbErrors = 0 /\ (cancelled \/ costStop \/ \E a \in Aborters : aborter[a] = "propagating")
       => Stopped

\* A stopped row stays stopped.
LEMMA StoppedStays ==
  ASSUME RowInv, Stopped, [Next]_vars
  PROVE  Stopped'
<1> USE DEF RowInv, Stages, Finals, Stopped, Terminal, rowVars, coordVars
<1>1. CASE UNCHANGED <<status, finals, outcome>>
  BY <1>1
<1>2. ASSUME NEW s \in {"failed", "aborted"}, NEW why, StopRow(s, why), outcome' = outcome
      PROVE  Stopped'
  BY <1>2 DEF StopRow
<1>3. CASE MarkRunning /\ outcome' = outcome
  BY <1>3 DEF MarkRunning
<1>4. CASE FinalizeRow(outcome) /\ outcome' = outcome /\ coord = "finalizing"
  BY <1>4 DEF FinalizeRow, TypeOK, CoordTypeOK
<1>5. CASE CreateRun
  BY <1>5 DEF CreateRun
<1>6. CASE CoordSums
  BY <1>6 DEF CoordSums
<1>7. \/ UNCHANGED <<status, finals, outcome>> \/ CreateRun \/ CoordSums
      \/ MarkRunning /\ outcome' = outcome
      \/ FinalizeRow(outcome) /\ outcome' = outcome /\ coord = "finalizing"
      \/ \E s \in {"failed", "aborted"} : \E why : StopRow(s, why) /\ outcome' = outcome
  BY DEF Next, vars, Quiet, Dispatcher, DispatchMarks, DispatchPosts, DispatchReplied,
     DispatchFailed, DispatchGivesUp, Coordinator, CoordNoWorkers, CoordRegisters,
     CoordPushesTick, CoordDeregisters, CoordFinalizes, CoordReplies, HandlerDropped, AbortRow,
     AbortRowFails, AbortPropagates, AbortOnCoordinator, CostJob, CostLoads, CostStores,
     CostWithinBudget, CostTrips, CostStops, ControlRestarts
<1> QED
  BY <1>1, <1>2, <1>3, <1>4, <1>5, <1>6, <1>7

\* A row is completed only by its finals.
LEMMA CompletedIsFinal ==
  ASSUME RowInv, status = "completed" => finals /\ outcome = "completed", [Next]_vars
  PROVE  (status = "completed" => finals /\ outcome = "completed")'
<1> SUFFICES ASSUME status' = "completed" PROVE finals' /\ outcome' = "completed"
  OBVIOUS
<1>1. CASE status = "completed"
  <2>1. Stopped'
    BY <1>1, StoppedStays DEF Stopped
  <2> QED
    BY <2>1 DEF Stopped
<1>2. CASE status # "completed"
  <2>1. CASE CoordFinalizes
    BY <1>2, <2>1 DEF CoordFinalizes, FinalizeRow, rowVars
  <2>2. CASE ~CoordFinalizes
    <3>1. status' # "completed"
      BY <1>2, <2>2 DEF Next, vars, rowVars, Quiet, CreateRun, MarkRunning, StopRow, Dispatcher,
         DispatchMarks, DispatchPosts, DispatchReplied, DispatchFailed, DispatchGivesUp,
         Coordinator, CoordNoWorkers, CoordRegisters, CoordPushesTick, CoordSums,
         CoordDeregisters, CoordReplies, HandlerDropped, AbortRow, AbortRowFails,
         AbortPropagates, CostJob, CostLoads, CostStores, CostWithinBudget, CostTrips,
         CostStops, ControlRestarts
    <3> QED
      BY <3>1
  <2> QED
    BY <2>1, <2>2
<1> QED
  BY <1>1, <1>2

\* While anybody is about to stop the fleet, the row is stopped already.
LEMMA StopInvNext == RowInv /\ StopInv /\ [Next]_vars => StopInv'
<1> SUFFICES ASSUME RowInv, StopInv, [Next]_vars PROVE StopInv'
  OBVIOUS
<1> DEFINE Stopping == cancelled \/ costStop \/ \E a \in Aborters : aborter[a] = "propagating"
<1>1. (status = "completed" => finals /\ outcome = "completed")'
  BY CompletedIsFinal DEF StopInv
<1> SUFFICES ASSUME dbErrors' = 0, Stopping' PROVE Stopped'
  BY <1>1 DEF StopInv
<1>2. dbErrors = 0
  BY LifecycleAssumption
  DEF RowInv, TypeOK, EnvTypeOK, Next, vars, envVars, Lose, DbFails, Quiet, CreateRun,
      Dispatcher, DispatchMarks, DispatchPosts, DispatchReplied, DispatchFailed,
      DispatchGivesUp, Coordinator, CoordNoWorkers, CoordRegisters, CoordPushesTick,
      CoordSums, CoordDeregisters, CoordFinalizes, CoordReplies, HandlerDropped, AbortRow,
      AbortRowFails, AbortPropagates, AbortOnCoordinator, CostJob, CostLoads, CostStores,
      CostWithinBudget, CostTrips, CostStops, ControlRestarts
<1>3. CASE Stopping
  BY <1>2, <1>3, StoppedStays DEF StopInv
<1>4. CASE ~Stopping
  <2>t. aborter \in [Aborters -> {"idle", "propagating", "accepted", "conflict", "error", "gone"}]
    BY DEF RowInv, TypeOK, CtlTypeOK
  \* The abort that takes the row.
  <2>1. ASSUME NEW a \in Aborters, AbortRow(a) PROVE Stopped'
    <3>1. UNCHANGED <<cancelled, costStop>> /\ StopRow("aborted", "request")
      BY <2>1 DEF AbortRow, coordVars
    <3>2. CASE status \in Terminal
      <4>1. aborter' = [aborter EXCEPT ![a] = "conflict"]
        BY <2>1, <3>2 DEF AbortRow
      <4> QED
        BY <1>4, <2>t, <3>1, <4>1
    <3>3. CASE status \notin Terminal
      BY <3>1, <3>3 DEF StopRow, Stopped
    <3> QED
      BY <3>2, <3>3
  \* The guard that trips: the row is stopped, or it was terminal before.
  <2>2. ASSUME NEW t \in Ticks, CostTrips(t) PROVE Stopped'
    <3>1. StopRow("aborted", "cost") /\ UNCHANGED <<finals, outcome>>
      BY <1>2, <2>2 DEF CostTrips, DbFails, coordVars, StopRow, envVars
    <3>2. status' \in Terminal
      BY <3>1 DEF StopRow, Terminal
    <3> QED
      BY <1>1, <3>1, <3>2 DEF Stopped, Terminal
  <2>3. ASSUME UNCHANGED <<cancelled, costStop>>,
               \A a \in Aborters : aborter'[a] = "propagating" => aborter[a] = "propagating"
        PROVE  FALSE
    BY <1>4, <2>3
  <2>4. ASSUME NEW a \in Aborters, AbortRowFails(a) PROVE FALSE
    BY <1>2, <2>4 DEF AbortRowFails, DbFails
  <2>5. ASSUME NEW a \in Aborters, AbortPropagates(a) PROVE FALSE
    BY <1>4, <2>5 DEF AbortPropagates
  <2>6. ~CostStops
    BY <1>4 DEF CostStops
  <2>7. CASE ControlRestarts
    <3>1. cancelled' = cancelled /\ costStop' = FALSE
          /\ \A a \in Aborters : aborter'[a] # "propagating"
      BY <2>7 DEF ControlRestarts, coordVars
    <3> QED
      BY <1>4, <3>1
  <2>8. CASE UNCHANGED <<cancelled, costStop, aborter>>
    BY <2>3, <2>8
  <2>9. \/ UNCHANGED <<cancelled, costStop, aborter>>
        \/ \E a \in Aborters : AbortRow(a) \/ AbortRowFails(a) \/ AbortPropagates(a)
        \/ \E t \in Ticks : CostTrips(t)
        \/ CostStops \/ ControlRestarts
    BY DEF Next, vars, ctlVars, coordVars, Quiet, CreateRun, Dispatcher, DispatchMarks,
       DispatchPosts, DispatchReplied, DispatchFailed, DispatchGivesUp, Coordinator,
       CoordNoWorkers, CoordRegisters, CoordPushesTick, CoordSums, CoordDeregisters,
       CoordFinalizes, CoordReplies, HandlerDropped, CostJob, CostLoads, CostStores,
       CostWithinBudget
  <2> QED
    BY <2>1, <2>2, <2>4, <2>5, <2>6, <2>7, <2>8, <2>9
<1> QED
  BY <1>3, <1>4

\* However the aborts, the cost guard, the finalize push and the restarts race, the
\* coordinator's token is cancelled only for a row that was stopped, or whose
\* dispatch had summed up before.
THEOREM FleetStopCaused == Spec => []FleetStopHasCause
<1>1. Init => StopInv
  BY DEF Init, StopInv
<1>2. StopInv => FleetStopHasCause
  BY DEF StopInv, Stopped, FleetStopHasCause
<1> QED
  BY <1>1, <1>2, RowInvInit, RowInvNext, StopInvNext, PTL DEF Spec
=============================================================================
