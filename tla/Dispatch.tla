------------------------------ MODULE Dispatch ------------------------------
(***************************************************************************)
(* One run on the fleet: the coordinator's dispatch_with_ticks, its        *)
(* run_one_worker tasks, the aggregate_loop between them, the worker       *)
(* nodes' RunSlice streams, and an abort_run racing all of it.             *)
(*                                                                         *)
(*   list_workers -> register_run -> one task per worker -> aggregate_loop *)
(*       -> join every task -> read the cancel token -> deregister_run     *)
(*                                                                         *)
(* A worker node emits one Partial per second on a gRPC stream and a final *)
(* empty one; its task adds each Partial to its own WorkerSummary and      *)
(* forwards it to the aggregator over an unbounded channel.  The           *)
(* aggregator publishes second n once every worker has reported it.        *)
(*                                                                         *)
(* Failures: a worker process may die (its stream errors, a suffix of what *)
(* was in flight is lost), the network may break a stream or a dial while  *)
(* the worker lives on, an Abort RPC may be lost.                          *)
(*                                                                         *)
(* Abstracted: a Partial keeps its tick number, its final flag and one     *)
(* count standing for every counter of its buckets (they are all added the *)
(* same way); histograms and rate-limit onsets ride along unmodelled.      *)
(***************************************************************************)
EXTENDS Integers, Sequences, Functions, FiniteSets

CONSTANTS
  Workers,     \* ids of the workers that may be registered
  MaxTicks,    \* duration_s: at most this many per-second ticks per worker
  Counts,      \* responses a worker may complete in one second
  Yield,       \* Yield[w][n]: those of Counts that w may complete in second n
  MaxFaults,   \* bound: worker deaths, and dials, streams and Abort RPCs lost
  MaxAborts    \* bound: abort requests

ASSUME DispatchAssumption ==
  /\ IsFiniteSet(Workers)
  /\ MaxTicks \in Nat
  /\ Counts \subseteq Nat
  /\ MaxFaults \in Nat /\ MaxAborts \in Nat

ASSUME YieldAssumption == Yield \in [Workers -> [1 .. MaxTicks -> SUBSET Counts]]

VARIABLES
  \* ---- coordinator: the dispatch call ----
  dpc,         \* where dispatch_with_ticks is
  fleet,       \* its snapshot of the registered workers
  inFlight,    \* is run_id a key of CoordinatorState.runs
  cancelled,   \* the run's cancel token
  perTick,     \* aggregate_loop's per_tick: tick -> worker -> count
  cum,         \* aggregate_loop's cum_completed
  emitted,     \* every AggregatedTick sent to tick_tx
  summary,     \* the DispatchSummary
  \* ---- coordinator: the run_one_worker tasks ----
  task,        \* control state of each task
  wsum,        \* the WorkerSummary of each task
  queue,       \* the (worker_id, Partial) channel to the aggregator
  \* ---- network ----
  conn,        \* state of each RunSlice stream
  stream,      \* Partials sent by the worker and not yet received
  fanout,      \* workers an Abort RPC is on its way to
  \* ---- worker nodes ----
  alive,       \* is the worker process up
  specValid,   \* does build_run_spec accept this run's Assignment
  engine,      \* the load engine of the slice
  token,       \* the run's entry in run_tokens, with its state
  produced,    \* counts of the ticks the worker has emitted; tick_n is its length
  \* ---- environment ----
  acked,       \* has an abort_run returned true
  aborts, crashes, breaks, \* how much of each bound is used
  atAbort      \* history: how many ticks were published when the token fired

coordVars == <<dpc, fleet, inFlight, cancelled, perTick, cum, emitted, summary>>
taskVars  == <<task, wsum, queue>>
netVars   == <<conn, stream, fanout>>
nodeVars  == <<alive, specValid, engine, token, produced>>
envVars   == <<acked, aborts, crashes, breaks, atAbort>>
vars == <<coordVars, taskVars, netVars, nodeVars, envVars>>

Ticks == 1 .. MaxTicks

PartialOf(n, c)  == [tick |-> n, final |-> FALSE, total |-> c]
FinalPartial(n)  == [tick |-> n, final |-> TRUE,  total |-> 0]
Partials == [tick : 1 .. MaxTicks + 1, final : BOOLEAN, total : Counts \cup {0}]

NoSummary == [finished |-> 0, lost |-> 0, completed |-> 0, aborted |-> FALSE]

\* per_tick.remove(n): no entry is the same as an empty one (or_default).
NoReports == [w \in {} |-> 0]

Init ==
  /\ dpc = "idle" /\ fleet = {} /\ inFlight = FALSE /\ cancelled = FALSE
  /\ perTick = [n \in Ticks |-> NoReports] /\ cum = 0 /\ emitted = <<>>
  /\ summary = NoSummary
  /\ task = [w \in Workers |-> "none"]
  /\ wsum = [w \in Workers |-> [finished |-> FALSE, completed |-> 0]]
  /\ queue = <<>>
  /\ conn = [w \in Workers |-> "idle"]
  /\ stream = [w \in Workers |-> <<>>]
  /\ fanout = {}
  /\ alive = [w \in Workers |-> TRUE]
  /\ specValid \in BOOLEAN
  /\ engine = [w \in Workers |-> "off"]
  /\ token = [w \in Workers |-> "absent"]
  /\ produced = [w \in Workers |-> <<>>]
  /\ acked = FALSE /\ aborts = 0 /\ crashes = 0 /\ breaks = 0 /\ atAbort = 0
-----------------------------------------------------------------------------
(***************************************************************************)
(* An operator named Fault_... is a plausible mistake in the operator that *)
(* follows it.  No action uses one: each is put in place of the original   *)
(* to see that the property it breaks depends on the code being right.     *)
(***************************************************************************)

(***************************************************************************)
(* dispatch_with_ticks.                                                    *)
(***************************************************************************)

\* The snapshot of whatever the registry holds; nothing registered is an error.
ListWorkers(S) ==
  /\ dpc = "idle"
  /\ fleet' = S
  /\ dpc' = IF S = {} THEN "noworkers" ELSE "listed"
  /\ UNCHANGED <<inFlight, cancelled, perTick, cum, emitted, summary>>
  /\ UNCHANGED <<taskVars, netVars, nodeVars, envVars>>

\* Fault: spawn for the registry of the moment instead of the snapshot.
Fault_SpawnForRegistry ==
  /\ dpc = "listed"
  /\ dpc' = "aggregating"
  /\ inFlight' = TRUE
  /\ task' = [w \in Workers |-> "connecting"]
  /\ UNCHANGED <<fleet, cancelled, perTick, cum, emitted, summary, wsum, queue>>
  /\ UNCHANGED <<netVars, nodeVars, envVars>>

\* register_run, then one run_one_worker task per worker of the snapshot.
RegisterRun ==
  /\ dpc = "listed"
  /\ dpc' = "aggregating"
  /\ inFlight' = TRUE
  /\ task' = [w \in Workers |-> IF w \in fleet THEN "connecting" ELSE "none"]
  /\ UNCHANGED <<fleet, cancelled, perTick, cum, emitted, summary, wsum, queue>>
  /\ UNCHANGED <<netVars, nodeVars, envVars>>

\* Fault: the last report stands for every worker of the tick.
Fault_InsertForAll(entry, w, c) == [x \in DOMAIN entry \cup {w} |-> c]

\* entry.insert(worker_id, p) on one tick's map.
Insert(entry, w, c) ==
  [x \in DOMAIN entry \cup {w} |-> IF x = w THEN c ELSE entry[x]]

\* entry.len() == num_workers: only dispatched workers have a sender.
Complete(entry) == DOMAIN entry = fleet

\* aggregate_tick: what the completed map of tick n is published as.
AggregateTick(n, entry) ==
  [elapsed_s       |-> n,
   total           |-> SumFunction(entry),
   completed_total |-> cum + SumFunction(entry)]

\* Is aggregate_loop running, so that the receiving half of the channel exists?
Aggregating == dpc \in {"aggregating", "receiving"}

\* Fault: the select does not look at the cancel token.
Fault_IgnoreCancel ==
  /\ dpc = "aggregating"
  /\ dpc' = "receiving"
  /\ UNCHANGED <<fleet, inFlight, cancelled, perTick, cum, emitted, summary>>
  /\ UNCHANGED <<taskVars, netVars, nodeVars, envVars>>

\* The select is biased: it polls the token first, and the channel only if the
\* token has not fired.  Nothing looks at the token again in this turn, and
\* abort_run runs on another thread.
PollToken ==
  /\ dpc = "aggregating"
  /\ ~cancelled
  /\ dpc' = "receiving"
  /\ UNCHANGED <<fleet, inFlight, cancelled, perTick, cum, emitted, summary>>
  /\ UNCHANGED <<taskVars, netVars, nodeVars, envVars>>

\* Nothing in the channel: the select sleeps, and begins with the token again
\* when the token or the channel wakes it.
SelectWaits ==
  /\ dpc = "receiving"
  /\ queue = <<>>
  /\ \E w \in fleet : task[w] # "done"
  /\ dpc' = "aggregating"
  /\ UNCHANGED <<fleet, inFlight, cancelled, perTick, cum, emitted, summary>>
  /\ UNCHANGED <<taskVars, netVars, nodeVars, envVars>>

\* recv yields a Partial, whatever the token does by now: a final one is skipped,
\* any other is filed under its tick, and the tick is published and forgotten
\* once every dispatched worker has reported it.
Aggregate ==
  /\ dpc = "receiving"
  /\ queue # <<>>
  /\ dpc' = "aggregating"
  /\ queue' = Tail(queue)
  /\ LET w     == Head(queue).worker
         p     == Head(queue).partial
         entry == Insert(perTick[p.tick], w, p.total)
     IN  \/ /\ p.final
            /\ UNCHANGED <<perTick, cum, emitted>>
         \/ /\ ~p.final
            /\ ~Complete(entry)
            /\ perTick' = [perTick EXCEPT ![p.tick] = entry]
            /\ UNCHANGED <<cum, emitted>>
         \/ /\ ~p.final
            /\ Complete(entry)
            /\ perTick' = [perTick EXCEPT ![p.tick] = NoReports]
            /\ cum' = cum + SumFunction(entry)
            /\ emitted' = Append(emitted, AggregateTick(p.tick, entry))
  /\ UNCHANGED <<fleet, inFlight, cancelled, summary, task, wsum>>
  /\ UNCHANGED <<netVars, nodeVars, envVars>>

\* Fault: an aborted run does not wait for its tasks.
Fault_AbortSkipsJoin == cancelled \/ \A w \in fleet : task[w] = "done"

TasksDone == \A w \in fleet : task[w] = "done"

\* aggregate_loop breaks when it polls the token and it has fired, or when recv
\* finds every sender dropped and the channel drained.
LeaveAggregation ==
  /\ \/ dpc = "aggregating" /\ cancelled
     \/ dpc = "receiving" /\ queue = <<>> /\ TasksDone
  /\ dpc' = "joining"
  /\ queue' = <<>>
  /\ UNCHANGED <<fleet, inFlight, cancelled, perTick, cum, emitted, summary, task, wsum>>
  /\ UNCHANGED <<netVars, nodeVars, envVars>>

Finished == {w \in fleet : wsum[w].finished}

\* Fault: the totals leave out what a lost worker had reported.
Fault_DropLostLoad ==
  /\ dpc = "joining"
  /\ TasksDone
  /\ dpc' = "summed"
  /\ summary' = [finished  |-> Cardinality(Finished),
                 lost      |-> Cardinality(fleet) - Cardinality(Finished),
                 completed |-> SumFunction([w \in Finished |-> wsum[w].completed]),
                 aborted   |-> cancelled]
  /\ UNCHANGED <<fleet, inFlight, cancelled, perTick, cum, emitted>>
  /\ UNCHANGED <<taskVars, netVars, nodeVars, envVars>>

\* Join every task (also after an abort), add their summaries up, then read
\* the cancel token once: only a run it does not show as aborted counts losses.
JoinTasks ==
  /\ dpc = "joining"
  /\ TasksDone
  /\ dpc' = "summed"
  /\ summary' = [finished  |-> Cardinality(Finished),
                 lost      |-> IF cancelled THEN 0
                               ELSE Cardinality(fleet) - Cardinality(Finished),
                 completed |-> SumFunction([w \in fleet |-> wsum[w].completed]),
                 aborted   |-> cancelled]
  /\ UNCHANGED <<fleet, inFlight, cancelled, perTick, cum, emitted>>
  /\ UNCHANGED <<taskVars, netVars, nodeVars, envVars>>

DeregisterRun ==
  /\ dpc = "summed"
  /\ dpc' = "returned"
  /\ inFlight' = FALSE
  /\ UNCHANGED <<fleet, cancelled, perTick, cum, emitted, summary>>
  /\ UNCHANGED <<taskVars, netVars, nodeVars, envVars>>
-----------------------------------------------------------------------------
(***************************************************************************)
(* run_one_worker, and the worker node's run_slice it calls.               *)
(***************************************************************************)

\* Endpoint::connect or the RunSlice call fails: the default WorkerSummary.
DialFails(w) ==
  /\ task[w] = "connecting"
  /\ ~alive[w] \/ crashes + breaks < MaxFaults
  /\ task' = [task EXCEPT ![w] = "done"]
  /\ breaks' = IF alive[w] THEN breaks + 1 ELSE breaks
  /\ UNCHANGED <<wsum, queue, acked, aborts, crashes, atAbort>>
  /\ UNCHANGED <<coordVars, netVars, nodeVars>>

\* build_run_spec refuses the Assignment: invalid_argument, nothing runs.
RejectSlice(w) ==
  /\ task[w] = "connecting"
  /\ alive[w]
  /\ ~specValid
  /\ task' = [task EXCEPT ![w] = "done"]
  /\ UNCHANGED <<wsum, queue, coordVars, netVars, nodeVars, envVars>>

\* run_slice: insert a fresh cancel token, spawn the engine, open the stream.
RunSlice(w) ==
  /\ task[w] = "connecting"
  /\ alive[w]
  /\ specValid
  /\ task' = [task EXCEPT ![w] = "streaming"]
  /\ token' = [token EXCEPT ![w] = "live"]
  /\ engine' = [engine EXCEPT ![w] = "running"]
  /\ conn' = [conn EXCEPT ![w] = "open"]
  /\ UNCHANGED <<wsum, queue, stream, fanout, alive, specValid, produced>>
  /\ UNCHANGED <<coordVars, envVars>>

\* The engine's per-second tick becomes Partial tick_n + 1.  A cancelled engine
\* may still tick while it drains.
EngineTick(w, c) ==
  /\ alive[w]
  /\ engine[w] = "running"
  /\ conn[w] = "open"
  /\ Len(produced[w]) < MaxTicks
  /\ c \in Yield[w][Len(produced[w]) + 1]
  /\ produced' = [produced EXCEPT ![w] = Append(@, c)]
  /\ stream' = [stream EXCEPT ![w] = Append(@, PartialOf(Len(produced[w]) + 1, c))]
  /\ UNCHANGED <<conn, fanout, alive, specValid, engine, token>>
  /\ UNCHANGED <<coordVars, taskVars, envVars>>

\* The engine returns: deadline reached, aborted and drained, failed, or left
\* without a connection.  Its report and its error are dropped by run_slice.
EngineStops(w) ==
  /\ alive[w]
  /\ engine[w] = "running"
  /\ engine' = [engine EXCEPT ![w] = "stopped"]
  /\ UNCHANGED <<alive, specValid, token, produced>>
  /\ UNCHANGED <<coordVars, taskVars, netVars, envVars>>

\* The tail of the outbound stream: forget the token, yield the final Partial.
\* It runs only while somebody still polls the stream.
SliceEnds(w) ==
  /\ alive[w]
  /\ engine[w] = "stopped"
  /\ conn[w] = "open"
  /\ token' = [token EXCEPT ![w] = "absent"]
  /\ stream' = [stream EXCEPT ![w] = Append(@, FinalPartial(Len(produced[w]) + 1))]
  /\ conn' = [conn EXCEPT ![w] = "ended"]
  /\ UNCHANGED <<fanout, alive, specValid, engine, produced>>
  /\ UNCHANGED <<coordVars, taskVars, envVars>>

\* Fault: the newest Partial replaces the counts.
Fault_KeepLast(s, p) == [finished |-> s.finished \/ p.final, completed |-> p.total]

\* Fault: any Partial finishes the slice.
Fault_AnyPartialFinishes(s, p) == [finished |-> TRUE, completed |-> s.completed + p.total]

\* What one Partial adds to a WorkerSummary.
Observe(s, p) == [finished |-> s.finished \/ p.final, completed |-> s.completed + p.total]

\* stream.message() yields an event: count it, and forward it if the
\* aggregator still has the receiving half.
ReceivePartial(w) ==
  /\ task[w] = "streaming"
  /\ stream[w] # <<>>
  /\ stream' = [stream EXCEPT ![w] = Tail(@)]
  /\ LET p == Head(stream[w])
     IN  /\ wsum' = [wsum EXCEPT ![w] = Observe(@, p)]
         /\ queue' = IF Aggregating
                     THEN Append(queue, [worker |-> w, partial |-> p])
                     ELSE queue
  /\ UNCHANGED <<task, conn, fanout>>
  /\ UNCHANGED <<coordVars, nodeVars, envVars>>

\* Fault: a stream error is retried for ever.
Fault_StreamErrorIgnored(w) ==
  /\ task[w] = "streaming"
  /\ stream[w] = <<>>
  /\ conn[w] = "ended"
  /\ task' = [task EXCEPT ![w] = "done"]
  /\ UNCHANGED <<wsum, queue, coordVars, netVars, nodeVars, envVars>>

\* stream.message() yields None or an error: the task returns what it has.
StreamEnds(w) ==
  /\ task[w] = "streaming"
  /\ stream[w] = <<>>
  /\ conn[w] \in {"ended", "broken"}
  /\ task' = [task EXCEPT ![w] = "done"]
  /\ UNCHANGED <<wsum, queue, coordVars, netVars, nodeVars, envVars>>
-----------------------------------------------------------------------------
(***************************************************************************)
(* abort_run and fan_out_aborts.                                           *)
(***************************************************************************)

\* abort_run on a registered run: cancel the token, spawn the fan-out, TRUE.
AbortRun ==
  /\ aborts < MaxAborts
  /\ inFlight
  /\ aborts' = aborts + 1
  /\ cancelled' = TRUE
  /\ fanout' = fleet
  /\ acked' = TRUE
  /\ atAbort' = IF cancelled THEN atAbort ELSE Len(emitted)
  /\ UNCHANGED <<dpc, fleet, inFlight, perTick, cum, emitted, summary>>
  /\ UNCHANGED <<taskVars, nodeVars, conn, stream, crashes, breaks>>

\* Fault: fan out to the workers before looking the run up.
Fault_FanOutUnregistered ==
  /\ aborts < MaxAborts
  /\ ~inFlight
  /\ aborts' = aborts + 1
  /\ fanout' = fleet
  /\ UNCHANGED <<coordVars, taskVars, nodeVars, conn, stream, acked, crashes, breaks, atAbort>>

\* abort_run on a run that is not registered (yet, or any more): FALSE, 404.
AbortNotInFlight ==
  /\ aborts < MaxAborts
  /\ ~inFlight
  /\ aborts' = aborts + 1
  /\ UNCHANGED <<coordVars, taskVars, netVars, nodeVars, acked, crashes, breaks, atAbort>>

\* The worker's abort handler: cancel the token if the run is known; the ack is
\* the same when it is not.
DeliverAbort(w) ==
  /\ w \in fanout
  /\ alive[w]
  /\ fanout' = fanout \ {w}
  /\ token' = [token EXCEPT ![w] = IF @ = "live" THEN "cancelled" ELSE @]
  /\ UNCHANGED <<conn, stream, alive, specValid, engine, produced>>
  /\ UNCHANGED <<coordVars, taskVars, envVars>>

\* The dial or the RPC times out: logged and ignored.
LoseAbort(w) ==
  /\ w \in fanout
  /\ ~alive[w] \/ crashes + breaks < MaxFaults
  /\ fanout' = fanout \ {w}
  /\ breaks' = IF alive[w] THEN breaks + 1 ELSE breaks
  /\ UNCHANGED <<conn, stream, coordVars, taskVars, nodeVars, acked, aborts, crashes, atAbort>>
-----------------------------------------------------------------------------
(***************************************************************************)
(* Failures.                                                               *)
(***************************************************************************)

\* What a failing stream still delivers: some prefix of what was in flight.
LoseSuffix(w) ==
  \E k \in 0 .. Len(stream[w]) : stream' = [stream EXCEPT ![w] = SubSeq(@, 1, k)]

\* The worker process dies: its memory and its streams go with it.
WorkerDies(w) ==
  /\ crashes + breaks < MaxFaults
  /\ alive[w]
  /\ crashes' = crashes + 1
  /\ alive' = [alive EXCEPT ![w] = FALSE]
  /\ engine' = [engine EXCEPT ![w] = IF @ = "running" THEN "dead" ELSE @]
  /\ token' = [token EXCEPT ![w] = "absent"]
  /\ \/ /\ conn[w] \in {"open", "ended"}
        /\ conn' = [conn EXCEPT ![w] = "broken"]
        /\ LoseSuffix(w)
     \/ /\ conn[w] \notin {"open", "ended"}
        /\ UNCHANGED <<conn, stream>>
  /\ UNCHANGED <<fanout, specValid, produced, acked, aborts, breaks, atAbort>>
  /\ UNCHANGED <<coordVars, taskVars>>

\* The network breaks the stream: the coordinator reads an error, the worker
\* drops the outbound stream, and the detached engine runs on.
StreamBreaks(w) ==
  /\ crashes + breaks < MaxFaults
  /\ alive[w]
  /\ conn[w] \in {"open", "ended"}
  /\ breaks' = breaks + 1
  /\ conn' = [conn EXCEPT ![w] = "broken"]
  /\ LoseSuffix(w)
  /\ UNCHANGED <<fanout, acked, aborts, crashes, atAbort>>
  /\ UNCHANGED <<coordVars, taskVars, nodeVars>>
-----------------------------------------------------------------------------
\* Nothing is left to do: the call has returned and no RPC is on its way.
Quiet ==
  /\ dpc \in {"returned", "noworkers"}
  /\ fanout = {}
  /\ \A w \in Workers : engine[w] # "running"
  /\ UNCHANGED vars

AggregateLoop == PollToken \/ SelectWaits \/ Aggregate \/ LeaveAggregation
Coordinator == RegisterRun \/ AggregateLoop \/ JoinTasks \/ DeregisterRun
Task(w) == DialFails(w) \/ RejectSlice(w) \/ RunSlice(w) \/ ReceivePartial(w) \/ StreamEnds(w)
Node(w) == (\E c \in Counts : EngineTick(w, c)) \/ EngineStops(w) \/ SliceEnds(w)
Abort == AbortRun \/ AbortNotInFlight \/ \E w \in Workers : DeliverAbort(w) \/ LoseAbort(w)
Failure == \E w \in Workers : WorkerDies(w) \/ StreamBreaks(w)

Next ==
  \/ \E S \in SUBSET Workers : ListWorkers(S)
  \/ Coordinator
  \/ \E w \in Workers : Task(w) \/ Node(w)
  \/ Abort
  \/ Failure
  \/ Quiet

Spec == Init /\ [][Next]_vars

(***************************************************************************)
(* Fairness: the runtime polls every ready task, the network delivers or   *)
(* fails what it carries, and an engine returns (each connection has the   *)
(* run's deadline).  Nobody has to call abort, crash or break anything.    *)
(***************************************************************************)
Fairness ==
  /\ WF_vars(\E S \in SUBSET Workers : ListWorkers(S))
  /\ WF_vars(Coordinator)
  /\ \A w \in Workers : /\ WF_vars(Task(w))
                        /\ WF_vars(EngineStops(w))
                        /\ WF_vars(SliceEnds(w))
                        /\ WF_vars(DeliverAbort(w) \/ LoseAbort(w))

FairSpec == Spec /\ Fairness
=============================================================================
