-------------------------- MODULE WorkerEngineProps --------------------------
(***************************************************************************)
(* What WorkerEngine must satisfy.                                         *)
(***************************************************************************)
EXTENDS WorkerEngine

Steps == {"dial", "failed", "barrier", "top", "pacing", "awaiting", "counting", "sampling",
          "pushing", "judging", "claiming", "storing", "obeying", "pausing", "done"}

\* What a connection may be handling.
Responses == [verdict : Verdicts, retry : RetryAfters \cup {0}, nth : Nat]

ConnTypeOK ==
  /\ pc \in [Conns -> Steps]
  /\ got \in [Conns -> Responses]
  /\ res \in [Conns -> [DOMAIN NoResult -> Nat]]
  /\ late \in [Conns -> Nat]

SharedTypeOK ==
  /\ ctr \in [Counted -> Nat] /\ backoff \in Nat
  /\ seen429 \in BOOLEAN /\ onset \in Conns \cup {None} /\ abort \in BOOLEAN
  /\ hist \in Nat /\ seq \in Nat /\ samples \in SUBSET Nat

MainTypeOK ==
  /\ main \in {"barrier", "running", "returned"}
  /\ sec \in 0 .. Duration /\ policy \in Policies
  /\ DOMAIN report.counts = DOMAIN NoResult
  /\ report.hist \in Nat /\ report.onset \in Conns \cup {None}

TickerTypeOK ==
  /\ tpc \in {"idle", "asleep", "loading", "rest", "sending", "ended"}
  /\ tick \in [loaded : 0 .. Len(LoadOrder), cum : [Counted -> Nat],
               onset : Conns \cup {None}, hist : Nat]
  /\ tpc = "loading" => tick.loaded < Len(LoadOrder)
  /\ ticks \in Seq([cum : [Counted -> Nat], this : [Counted -> Nat],
                    onset : Conns \cup {None}, hist : Nat, sampled : SUBSET Nat])
  /\ Len(ticks) <= Duration
  /\ tpc \notin {"idle", "ended"} => Len(ticks) < Duration

\* The type of every variable.
TypeOK == ConnTypeOK /\ SharedTypeOK /\ MainTypeOK /\ TickerTypeOK

\* The responses a counter f stands for.
Judged(f) == f["pass"] + f["fail"] + f["rate_limited"]

\* The report is one account of the run, kept three ways: each connection's own
\* results summed at the join, the relaxed counters, and the histogram agree on
\* how many responses there were; each was judged once; and the onset is there
\* exactly when there was a 429 to record, seen by the connection it names.
ReportIsExact ==
  main = "returned" =>
    /\ \A f \in Counted : report.counts[f] = ctr[f]
    /\ report.counts.completed = Judged(report.counts)
    /\ report.counts.completed = report.hist
    /\ report.counts.backoff = backoff
    /\ RecordOnset => ((report.onset # None) <=> (report.counts.rate_limited > 0))
    /\ report.onset # None => RecordOnset /\ res[report.onset].rate_limited > 0

\* A tick is read counter by counter while the connections go on, so it is no
\* snapshot, but what it says hangs together: its histogram holds every response
\* it counts or judges, so that its verdicts lead its completed_total by no more
\* than the histogram does; they lag it by at most the connections there are; and
\* its this_tick counts are what its totals add to the totals of the tick before.
TickIsHonest(i) ==
  /\ ticks[i].hist >= ticks[i].cum.completed
  /\ ticks[i].hist >= Judged(ticks[i].cum)
  /\ ticks[i].cum.completed <= Judged(ticks[i].cum) + Cardinality(Conns)
  /\ \A f \in Counted :
       ticks[i].this[f] + (IF i = 1 THEN 0 ELSE ticks[i - 1].cum[f]) = ticks[i].cum[f]

TicksAreHonest == \A i \in 1 .. Len(ticks) : TickIsHonest(i)

\* Once the abort flag is up, for a 429 or a cancel, a connection sends at most
\* the one request it was already pacing, and none once it is back at the top.
AbortDrains ==
  \A c \in Conns : /\ late[c] <= 1
                   /\ pc[c] = "pacing" => late[c] = 0

\* The samples some connection has claimed and not yet pushed.
Pushing == {c \in Conns : pc[c] = "pushing"}

\* Sampling counts responses across all connections, and the ticker may empty the
\* buffer between the claim of a sample and its push: of the responses numbered so
\* far exactly every N-th is in the buffer, in a tick or on its way from one
\* connection to the buffer, and it is in one of these places only.
NthSampledOnce ==
  LET shipped == UNION {ticks[i].sampled : i \in 1 .. Len(ticks)}
      held == {got[c].nth : c \in Pushing}
  IN  /\ samples \cup shipped \cup held =
            {k \in 1 .. seq : SampleEvery > 0 /\ k % SampleEvery = 0}
      /\ samples \cap shipped = {}
      /\ held \cap (samples \cup shipped) = {}
      /\ \A c, d \in Pushing : c # d => got[c].nth # got[d].nth
      /\ \A i, j \in 1 .. Len(ticks) : i # j => ticks[i].sampled \cap ticks[j].sampled = {}

\* Every run that passes its barrier returns: through connections that fail to
\* open, errors, backoffs and aborts.
RunReturns == main = "barrier" ~> main = "returned"

\* A request is on the books of its connection until its verdict is counted.
Pending == {"awaiting", "counting", "sampling", "pushing", "judging"}

Ledger(f) == [o \in Outcomes |-> f[o]]

\* The engine is the abstract run.
Run == INSTANCE LoadRun WITH
  inflight <- {c \in Conns : pc[c] \in Pending},
  settled  <- [c \in Conns |-> Ledger(res[c])],
  over     <- {c \in Conns : pc[c] \in {"failed", "done"}},
  returned <- main = "returned",
  report   <- Ledger(report.counts)
LoadRunSpec == Run!Spec
=============================================================================
