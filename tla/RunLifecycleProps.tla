-------------------------- MODULE RunLifecycleProps --------------------------
(***************************************************************************)
(* What RunLifecycle must satisfy.                                         *)
(***************************************************************************)
EXTENDS RunLifecycle, FiniteSets

RowTypeOK ==
  /\ status \in {"absent", "queued", "running"} \cup Terminal
  /\ finals \in BOOLEAN /\ metered \in BOOLEAN
  /\ reason \in {"none", "request", "cost", "dispatch"}

CtlTypeOK ==
  /\ disp \in {"none", "marking", "posting", "waiting", "failing", "done", "gone"}
  /\ aborter \in [Aborters -> {"idle", "propagating", "accepted", "conflict", "error", "gone"}]
  /\ costJob \in [Ticks -> {"none", "new", "read_active", "read_inactive", "checking", "done"}]
  /\ guard \in [cached : BOOLEAN, active : BOOLEAN, tripped : BOOLEAN]
  /\ costStop \in BOOLEAN

CoordTypeOK ==
  /\ coord \in {"idle", "accepted", "dispatching", "summed", "finalizing", "finalized",
                "replied", "dropped"}
  /\ registered \in BOOLEAN /\ cancelled \in BOOLEAN
  /\ outcome \in {"none", "completed", "aborted"}
  /\ reply \in {"none", "ok", "error"}
  /\ ticks \in 0 .. MaxTicks

EnvTypeOK ==
  /\ lost \in 0 .. MaxLost /\ finalizeLost \in 0 .. MaxFinalizeLost
  /\ dbErrors \in 0 .. MaxDbErrors /\ restarts \in 0 .. MaxRestarts

\* The type of every variable.
TypeOK == RowTypeOK /\ CtlTypeOK /\ CoordTypeOK /\ EnvTypeOK

\* Across every interleaving of the dispatcher, aborts, the cost guard, the
\* finalize push and restarts, the row behaves as RunRow promises: MarkRunning
\* never revives a stopped run, MarkFailed and MarkAborted never overwrite a
\* terminal one, and nothing writes the row after its finals.
Row == INSTANCE RunRow
RowSpec == Row!Spec

\* The row a reader sees after the finals is the outcome the coordinator
\* computed: a late MarkFailed, abort or cost trip does not blend into it.
FinalsCarryOutcome == finals => status = outcome

\* Of any number of concurrent callers at most one is told that it aborted the
\* run; the others get 409.
OneAbortAccepted ==
  Cardinality({a \in Aborters : aborter[a] \in {"propagating", "accepted", "gone"}}) <= 1

\* The fleet is never stopped under a live row: when the coordinator's token is
\* cancelled the row is stopped as well, or it was finalized by a dispatch that
\* had summed up before the cancel came.  (A failed database write is the
\* exception: the guard stops the fleet whether MarkAborted worked or not.)
FleetStopHasCause ==
  cancelled /\ dbErrors = 0 =>
    status \in {"aborted", "failed"} \/ (finals /\ outcome = "completed")

\* With the database and the control plane up, a metered run that was seen to
\* exceed its ceiling is stopped: once the goroutines of the ingested ticks are
\* done, however they raced to fill the cache, the guard tripped and the row is
\* terminal.  An unmetered run is never stopped for its cost.
CostCeilingHolds ==
  dbErrors = 0 /\ restarts = 0 =>
    /\ (/\ metered
        /\ \E t \in Ticks : t >= OverTick /\ costJob[t] = "done")
       => guard.tripped /\ status \in Terminal
    /\ ~metered => reason # "cost"

\* A dispatched run ends: whatever the aborts, the cost guard and lost requests
\* do, its row becomes terminal, unless the finalize push was lost, a database
\* write failed or the control plane restarted (nothing retries any of these).
RunEnds ==
  disp = "marking" ~> \/ status \in Terminal
                      \/ finalizeLost > 0 \/ dbErrors > 0 \/ restarts > 0

(***************************************************************************)
(* What a document claims and the code does not do.                        *)
(***************************************************************************)

\* contracts/api.md: "Terminal states are immutable."
TerminalImmutable == [][(status \in Terminal) => (status' = status)]_vars
=============================================================================
