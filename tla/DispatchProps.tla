---------------------------- MODULE DispatchProps ----------------------------
(***************************************************************************)
(* What Dispatch must satisfy.                                             *)
(***************************************************************************)
EXTENDS Dispatch

CoordTypeOK ==
  /\ dpc \in {"idle", "noworkers", "listed", "aggregating", "receiving", "joining", "summed", "returned"}
  /\ fleet \subseteq Workers
  /\ inFlight \in BOOLEAN /\ cancelled \in BOOLEAN
  /\ DOMAIN perTick = Ticks
  /\ \A n \in Ticks : /\ DOMAIN perTick[n] \subseteq fleet
                      /\ \A w \in DOMAIN perTick[n] : perTick[n][w] \in Counts
  /\ \A i \in 1 .. Len(emitted) : emitted[i].elapsed_s \in Ticks
  /\ DOMAIN summary = {"finished", "lost", "completed", "aborted"}

TaskTypeOK ==
  /\ task \in [Workers -> {"none", "connecting", "streaming", "done"}]
  /\ wsum \in [Workers -> [finished : BOOLEAN, completed : Nat]]
  /\ queue \in Seq([worker : fleet, partial : Partials])

NetTypeOK ==
  /\ conn \in [Workers -> {"idle", "open", "ended", "broken"}]
  /\ stream \in [Workers -> Seq(Partials)]
  /\ fanout \subseteq fleet

NodeTypeOK ==
  /\ alive \in [Workers -> BOOLEAN] /\ specValid \in BOOLEAN
  /\ engine \in [Workers -> {"off", "running", "stopped", "dead"}]
  /\ token \in [Workers -> {"absent", "live", "cancelled"}]
  /\ produced \in [Workers -> Seq(Counts)]

EnvTypeOK ==
  /\ acked \in BOOLEAN
  /\ atAbort \in 0 .. Len(emitted)
  /\ aborts \in 0 .. MaxAborts /\ crashes \in 0 .. MaxFaults /\ breaks \in 0 .. MaxFaults

\* The type of every variable; in particular no worker outside the snapshot ever
\* has a Partial with the aggregator, and no tick is past the run's duration.
TypeOK == CoordTypeOK /\ TaskTypeOK /\ NetTypeOK /\ NodeTypeOK /\ EnvTypeOK

\* The seconds a worker reported, added up.
SliceTotal(w) == SumFunction(produced[w])

Summed == dpc \in {"summed", "returned"}

(***************************************************************************)
(* The live feed.                                                          *)
(***************************************************************************)

\* The ticks pushed to control are seconds 1, 2, 3, ... with none skipped,
\* repeated or overtaken, although the workers' streams reach aggregate_loop
\* interleaved, any of them may run ahead of or stop before the others, and
\* per_tick holds several seconds at once.
TicksConsecutive == \A i \in 1 .. Len(emitted) : emitted[i].elapsed_s = i

\* The feed and the summary are accounted independently (the aggregator's cum
\* against the tasks' own counts).  The feed never claims more than the summary,
\* and they agree when no worker was lost, the run was not aborted and every
\* engine got its last tick out.
FeedAgreesWithSummary ==
  Summed /\ emitted # <<>> =>
    LET last == emitted[Len(emitted)]
    IN  /\ last.completed_total <= summary.completed
        /\ (/\ summary.lost = 0
            /\ ~summary.aborted
            /\ \A w \in fleet : Len(produced[w]) = Len(emitted))
           => last.completed_total = summary.completed

\* "Stop local aggregation immediately": from the moment the cancel token fires
\* at most one more tick is published, the one aggregate_loop was about to merge
\* when it last looked at the token, whatever is queued or still streaming then
\* and however many seconds per_tick holds.
AbortFreezesFeed == cancelled => Len(emitted) <= atAbort + 1

(***************************************************************************)
(* The summary.                                                            *)
(***************************************************************************)

\* A worker counted as finished has its whole slice in the totals; one that was
\* lost has at most what it reported: load is never fabricated.
SummaryIsHonest ==
  Summed =>
    /\ \A w \in Finished : wsum[w].completed = SliceTotal(w)
    /\ \A w \in fleet : wsum[w].completed <= SliceTotal(w)
    /\ summary.completed = SumFunction([w \in fleet |-> wsum[w].completed])

\* What a run that is not aborted reports as lost is at least the workers whose
\* engine did not run to its end, and at most those a slice never ran on or whose
\* stream failed: a worker whose engine finished is lost only if its final Partial
\* was lost on the way.  Without a failure nobody is lost, aborted or not.
LossIsReal ==
  Summed =>
    /\ crashes = 0 /\ breaks = 0 /\ specValid => summary.finished = Cardinality(fleet)
    /\ ~summary.aborted =>
         /\ Cardinality({w \in fleet : engine[w] # "stopped"}) <= summary.lost
         /\ summary.lost <= Cardinality({w \in fleet : conn[w] \in {"idle", "broken"}})
    /\ summary.finished + summary.lost <= Cardinality(fleet)

(***************************************************************************)
(* Abort.                                                                  *)
(***************************************************************************)

\* As long as some engine fires load for the run, and no stream broke under a
\* live worker, an abort can still reach it: the run is in the registry (an
\* aborted dispatch stays there until its tasks are joined), and a worker has a
\* run_tokens entry exactly while its stream is open.
RunningIsAbortable ==
  breaks = 0 =>
    /\ (\E w \in Workers : engine[w] = "running") => inFlight
    /\ \A w \in Workers : token[w] # "absent" <=> conn[w] = "open"

\* A run that was never acknowledged as aborted is never reported as aborted,
\* and neither is its token cancelled on any worker.
NoSpontaneousAbort ==
  ~acked => /\ ~cancelled /\ ~summary.aborted
            /\ \A w \in Workers : token[w] # "cancelled"

\* Every dispatch comes back: through dead workers, broken streams, refused
\* slices and aborts, and its registry entry is gone when it does.
DispatchReturns == dpc = "listed" ~> (dpc = "returned" /\ ~inFlight)

\* The live feed is the abstract one: a published second is exactly what the
\* whole fleet did in that second, its completed_total the sum of the seconds
\* published, whatever the order the Partials come in.
TickFeedOfDispatch == INSTANCE TickFeed
TickFeedSpec == TickFeedOfDispatch!Spec

(***************************************************************************)
(* What a comment in the code claims and the code does not do.             *)
(***************************************************************************)

\* coordinator/mod.rs: "the gRPC is what makes the workers stop firing load":
\* once the fan-out of an accepted abort is over, no live engine of the fleet
\* still has an uncancelled token.
AbortReachesWorkers ==
  acked /\ fanout = {} =>
    \A w \in fleet : ~(alive[w] /\ engine[w] = "running" /\ token[w] = "live")
=============================================================================
