---------------------------- MODULE WorkerEngine ----------------------------
(***************************************************************************)
(* One run of the load engine, run_with_ticks_cancel of                    *)
(* engine/src/worker.rs: a task per connection, the barrier they start at, *)
(* the atomic counters and the histogram they share, the task that         *)
(* publishes a tick per second from those, the abort flag, and the report. *)
(*                                                                         *)
(* Every access to shared memory that another thread can come before or    *)
(* after is a step of its own.  When a request is due is ConnSched's       *)
(* subject: here a connection that reaches its pacing may go on at any     *)
(* time.  The four fail_* tiers, which are counted alike, are one verdict; *)
(* last_retry_after_ms, which is only reported, is left out.  The abort of *)
(* a panicking connection task is not modelled.                            *)
(*                                                                         *)
(* An operator named Fault_... is a mistake in the operator after it that  *)
(* a property must catch; no behaviour of Spec uses it.                    *)
(***************************************************************************)
EXTENDS Integers, Sequences, Functions, FiniteSets

CONSTANTS
  Conns,        \* connection tasks (spec.connections of them)
  None,         \* first_429_rps_bits before a store
  Duration,     \* duration_s
  SampleEvery,  \* sample_every_n, 0 for no sampling
  Policies,     \* rate_limit_actions to try
  RecordOnset,  \* record_onset
  Answers,      \* what the target's answers may be judged to be
  RetryAfters,  \* Retry-After values a 429 may carry, 0 for none
  MaxBackoff,   \* max_backoff_ms
  MaxRequests   \* bound: responses the run may get

ASSUME EngineAssumption ==
  /\ IsFiniteSet(Conns)
  /\ None \notin Conns
  /\ {Duration, SampleEvery, MaxBackoff, MaxRequests} \subseteq Nat
  /\ Policies \subseteq {"continue", "backoff", "abort"}
  /\ RecordOnset \in BOOLEAN
  /\ Answers \subseteq {"pass", "fail", "rate_limited"}
  /\ RetryAfters \subseteq Nat

Verdicts == {"pass", "fail", "rate_limited"}
Errors == {"conn_errors", "timeouts"}
Outcomes == Verdicts \cup Errors
\* The atomic counters a tick reads, in the order it reads them.
LoadOrder == <<"completed", "pass", "fail", "rate_limited">>
Counted == {"completed"} \cup Verdicts

VARIABLES
  pc,       \* where each connection task is: the step it takes next
  got,      \* the response a connection is handling: its verdict, its Retry-After
            \*   and, while its body is to be pushed, its sequence number
  res,      \* each task's ConnResult
  ctr,      \* LiveCounters: completed and one counter per verdict
  backoff,  \* LiveCounters.backoff_us_total
  seen429,  \* LiveCounters.first_429_seen
  onset,    \* first_429_rps_bits: the connection whose send's rate is stored there
  abort,    \* LiveCounters.abort
  hist,     \* how many samples the shared histogram holds
  seq,      \* LiveCounters.sample_seq
  samples,  \* the shared buffer of sampled responses, by sequence number
  main,     \* the run itself: "barrier", "running", "returned"
  sec,      \* whole seconds since worker_start
  policy,   \* rate_limit_action
  tpc,      \* where the ticker is
  tick,     \* the tick it is putting together
  ticks,    \* the ticks it has sent
  report,   \* the RunReport
  late      \* auxiliary: requests each connection sent with abort already set

connVars   == <<pc, got, res, late>>
sharedVars == <<ctr, backoff, seen429, onset, hist, seq>>
mainVars   == <<main, report, policy>>
tickerVars == <<tpc, tick, ticks>>
vars == <<connVars, sharedVars, samples, abort, mainVars, sec, tickerVars>>

NoResponse == [verdict |-> "pass", retry |-> 0, nth |-> 0]
NoResult == [f \in Outcomes \cup {"completed", "backoff"} |-> 0]
Zero == [f \in Counted |-> 0]
NoTick == [loaded |-> 0, cum |-> Zero, onset |-> None, hist |-> 0]

Init ==
  /\ pc = [c \in Conns |-> "dial"]
  /\ got = [c \in Conns |-> NoResponse]
  /\ res = [c \in Conns |-> NoResult]
  /\ ctr = Zero /\ backoff = 0
  /\ seen429 = FALSE /\ onset = None /\ abort = FALSE
  /\ hist = 0 /\ seq = 0 /\ samples = {}
  /\ main = "barrier" /\ sec = 0
  /\ policy \in Policies
  /\ tpc = "idle" /\ tick = NoTick /\ ticks = <<>>
  /\ report = [counts |-> NoResult, hist |-> 0, onset |-> None]
  /\ late = [c \in Conns |-> 0]

Deadline == sec >= Duration
Goto(c, label) == pc' = [pc EXCEPT ![c] = label]
Add(c, f, n) == res' = [res EXCEPT ![c][f] = @ + n]
-----------------------------------------------------------------------------
(***************************************************************************)
(* connection_task                                                         *)
(***************************************************************************)

Dial(c) ==
  /\ pc[c] = "dial"
  /\ \/ Goto(c, "barrier") /\ UNCHANGED res
     \/ Goto(c, "failed") /\ Add(c, "conn_errors", 1)
  /\ UNCHANGED <<got, late, sharedVars, samples, abort, mainVars, sec, tickerVars>>

\* Fault: does not look at the flag.
Fault_LoopTop(c) ==
  /\ pc[c] = "top"
  /\ Goto(c, IF Deadline THEN "done" ELSE "pacing")
  /\ UNCHANGED <<got, res, late, sharedVars, samples, abort, mainVars, sec, tickerVars>>

\* The top of the loop: the only place that looks at the abort flag.
LoopTop(c) ==
  /\ pc[c] = "top"
  /\ Goto(c, IF abort \/ Deadline THEN "done" ELSE "pacing")
  /\ UNCHANGED <<got, res, late, sharedVars, samples, abort, mainVars, sec, tickerVars>>

LeaveAtDeadline(c) ==
  /\ pc[c] = "pacing"
  /\ Deadline
  /\ Goto(c, "done")
  /\ UNCHANGED <<got, res, late, sharedVars, samples, abort, mainVars, sec, tickerVars>>

Send(c) ==
  /\ pc[c] = "pacing"
  /\ ~Deadline
  /\ hist + Cardinality({d \in Conns : pc[d] = "awaiting"}) < MaxRequests
  /\ Goto(c, "awaiting")
  /\ late' = [late EXCEPT ![c] = IF abort THEN @ + 1 ELSE @]
  /\ UNCHANGED <<got, res, sharedVars, samples, abort, mainVars, sec, tickerVars>>

WriteFails(c) ==
  /\ pc[c] = "pacing"
  /\ ~Deadline
  /\ Goto(c, "done")
  /\ Add(c, "conn_errors", 1)
  /\ UNCHANGED <<got, late, sharedVars, samples, abort, mainVars, sec, tickerVars>>

\* Fault: goes on with the stream it lost.
Fault_ReadFails(c, e) ==
  /\ pc[c] = "awaiting"
  /\ Goto(c, "top")
  /\ Add(c, e, 1)
  /\ UNCHANGED <<got, late, sharedVars, samples, abort, mainVars, sec, tickerVars>>

ReadFails(c, e) ==
  /\ pc[c] = "awaiting"
  /\ Goto(c, "done")
  /\ Add(c, e, 1)
  /\ UNCHANGED <<got, late, sharedVars, samples, abort, mainVars, sec, tickerVars>>

\* Retry-After is looked at on a 429 only.
Response(v, ra) ==
  [verdict |-> v, retry |-> IF v = "rate_limited" THEN ra ELSE 0, nth |-> 0]

\* Fault: leaves the latency of a 429 out of the histogram.
Fault_ReceiveUnrecorded(c, v, ra) ==
  /\ pc[c] = "awaiting"
  /\ got' = [got EXCEPT ![c] = Response(v, ra)]
  /\ hist' = IF v = "rate_limited" THEN hist ELSE hist + 1
  /\ Goto(c, "counting")
  /\ UNCHANGED <<res, late, ctr, backoff, seen429, onset, seq>>
  /\ UNCHANGED <<samples, abort, mainVars, sec, tickerVars>>

\* A whole response is in the buffer; its latencies go into the histograms first.
Receive(c, v, ra) ==
  /\ pc[c] = "awaiting"
  /\ got' = [got EXCEPT ![c] = Response(v, ra)]
  /\ hist' = hist + 1
  /\ Goto(c, "counting")
  /\ UNCHANGED <<res, late, ctr, backoff, seen429, onset, seq>>
  /\ UNCHANGED <<samples, abort, mainVars, sec, tickerVars>>

Count(c) ==
  /\ pc[c] = "counting"
  /\ Add(c, "completed", 1)
  /\ ctr' = [ctr EXCEPT !.completed = @ + 1]
  /\ Goto(c, IF SampleEvery > 0 THEN "sampling" ELSE "judging")
  /\ UNCHANGED <<got, late, backoff, seen429, onset, hist, seq>>
  /\ UNCHANGED <<samples, abort, mainVars, sec, tickerVars>>

\* fetch_add on sample_seq: the N-th response of them all is to be sampled.
TakeNumber(c) ==
  /\ pc[c] = "sampling"
  /\ seq' = seq + 1
  /\ IF seq' % SampleEvery = 0
     THEN got' = [got EXCEPT ![c].nth = seq'] /\ Goto(c, "pushing")
     ELSE UNCHANGED got /\ Goto(c, "judging")
  /\ UNCHANGED <<res, late, ctr, backoff, seen429, onset, hist>>
  /\ UNCHANGED <<samples, abort, mainVars, sec, tickerVars>>

\* Fault: reads the shared number again instead of keeping the one it was given.
Fault_PushSample(c) ==
  /\ pc[c] = "pushing"
  /\ samples' = samples \cup {seq}
  /\ got' = [got EXCEPT ![c].nth = 0]
  /\ Goto(c, "judging")
  /\ UNCHANGED <<res, late, sharedVars, abort, mainVars, sec, tickerVars>>

\* The push under the buffer's lock.
PushSample(c) ==
  /\ pc[c] = "pushing"
  /\ samples' = samples \cup {got[c].nth}
  /\ got' = [got EXCEPT ![c].nth = 0]
  /\ Goto(c, "judging")
  /\ UNCHANGED <<res, late, sharedVars, abort, mainVars, sec, tickerVars>>

\* The match on the verdict; an iteration that is not a 429 ends here.
Judge(c) ==
  LET v == got[c].verdict
  IN  /\ pc[c] = "judging"
      /\ Add(c, v, 1)
      /\ ctr' = [ctr EXCEPT ![v] = @ + 1]
      /\ Goto(c, IF v # "rate_limited" THEN "top"
                 ELSE IF RecordOnset THEN "claiming" ELSE "obeying")
      /\ got' = [got EXCEPT ![c] = IF v = "rate_limited" THEN @ ELSE NoResponse]
      /\ UNCHANGED <<late, backoff, seen429, onset, hist, seq>>
      /\ UNCHANGED <<samples, abort, mainVars, sec, tickerVars>>

\* compare_exchange on first_429_seen.
ClaimOnset(c) ==
  /\ pc[c] = "claiming"
  /\ seen429' = TRUE
  /\ Goto(c, IF seen429 THEN "obeying" ELSE "storing")
  /\ UNCHANGED <<got, res, late, ctr, backoff, onset, hist, seq>>
  /\ UNCHANGED <<samples, abort, mainVars, sec, tickerVars>>

StoreOnset(c) ==
  /\ pc[c] = "storing"
  /\ onset' = c
  /\ Goto(c, "obeying")
  /\ UNCHANGED <<got, res, late, ctr, backoff, seen429, hist, seq>>
  /\ UNCHANGED <<samples, abort, mainVars, sec, tickerVars>>

Pause(c) == IF got[c].retry < MaxBackoff THEN got[c].retry ELSE MaxBackoff

\* The rate-limit policy.  A backoff is announced before it is slept, and not
\* slept when the run is already over.
Obey(c) ==
  /\ pc[c] = "obeying"
  /\ \/ /\ policy = "continue" \/ (policy = "backoff" /\ Pause(c) = 0)
        /\ Goto(c, "top")
        /\ UNCHANGED <<res, backoff, abort>>
     \/ /\ policy = "abort"
        /\ abort' = TRUE
        /\ Goto(c, "top")
        /\ UNCHANGED <<res, backoff>>
     \/ /\ policy = "backoff" /\ Pause(c) > 0
        /\ Add(c, "backoff", Pause(c))
        /\ backoff' = backoff + Pause(c)
        /\ Goto(c, IF abort \/ Deadline THEN "top" ELSE "pausing")
        /\ UNCHANGED abort
  /\ got' = [got EXCEPT ![c] = NoResponse]
  /\ UNCHANGED <<late, ctr, seen429, onset, hist, seq>>
  /\ UNCHANGED <<samples, mainVars, sec, tickerVars>>

\* The sleep is not interrupted by an abort.
PauseEnds(c) ==
  /\ pc[c] = "pausing"
  /\ Goto(c, "top")
  /\ UNCHANGED <<got, res, late, sharedVars, samples, abort, mainVars, sec, tickerVars>>
-----------------------------------------------------------------------------
(***************************************************************************)
(* The ticker: at each second it loads the counters one by one, then the   *)
(* onset and a copy of the histogram, takes the samples and sends.  (The   *)
(* onset and the histogram are loaded apart, but are not compared.)        *)
(***************************************************************************)

Wake ==
  /\ tpc = "asleep"
  /\ main # "returned"      \* the run aborts the ticker as it returns
  /\ sec > Len(ticks)       \* second Len(ticks) + 1 has come
  /\ tpc' = "loading"
  /\ UNCHANGED <<connVars, sharedVars, samples, abort, mainVars, sec, tick, ticks>>

LoadCounter ==
  LET f == LoadOrder[tick.loaded + 1]
  IN  /\ tpc = "loading"
      /\ tick' = [tick EXCEPT !.loaded = @ + 1, !.cum[f] = ctr[f]]
      /\ tpc' = IF tick'.loaded = Len(LoadOrder) THEN "rest" ELSE "loading"
      /\ UNCHANGED <<connVars, sharedVars, samples, abort, mainVars, sec, ticks>>

LoadRest ==
  /\ tpc = "rest"
  /\ tick' = [tick EXCEPT !.onset = onset, !.hist = hist]
  /\ tpc' = "sending"
  /\ UNCHANGED <<connVars, sharedVars, samples, abort, mainVars, sec, ticks>>

PrevCum == IF ticks = <<>> THEN Zero ELSE ticks[Len(ticks)].cum

SatSub(a, b) == IF a > b THEN a - b ELSE 0

\* this_tick: what arrived since the previous tick.
Delta == [f \in Counted |-> SatSub(tick.cum[f], PrevCum[f])]

\* An aborted ticker that is past its sleep still sends the tick it is at.
SendTick ==
  /\ tpc = "sending"
  /\ ticks' = Append(ticks, [cum |-> tick.cum, this |-> Delta, onset |-> tick.onset,
                             hist |-> tick.hist, sampled |-> samples])
  /\ samples' = {}
  /\ tick' = NoTick
  /\ tpc' = IF Len(ticks') = Duration THEN "ended" ELSE "asleep"
  /\ UNCHANGED <<connVars, sharedVars, abort, mainVars, sec>>
-----------------------------------------------------------------------------
(***************************************************************************)
(* run_with_ticks_cancel                                                   *)
(***************************************************************************)

\* Fault: waits for a barrier that a failed connection never reaches.
Fault_Start ==
  /\ main = "barrier"
  /\ \A c \in Conns : pc[c] = "barrier"
  /\ pc' = [c \in Conns |-> "top"]
  /\ main' = "running"
  /\ tpc' = IF Duration > 0 THEN "asleep" ELSE "ended"
  /\ UNCHANGED <<got, res, late, sharedVars, samples, abort, report, policy, sec>>
  /\ UNCHANGED <<tick, ticks>>

\* Every task is at the barrier, a failed one too: the run starts.
Start ==
  /\ main = "barrier"
  /\ \A c \in Conns : pc[c] \in {"barrier", "failed"}
  /\ pc' = [c \in Conns |-> IF pc[c] = "barrier" THEN "top" ELSE "done"]
  /\ main' = "running"
  /\ tpc' = IF Duration > 0 THEN "asleep" ELSE "ended"
  /\ UNCHANGED <<got, res, late, sharedVars, samples, abort, report, policy, sec>>
  /\ UNCHANGED <<tick, ticks>>

Totals == [f \in DOMAIN NoResult |-> SumFunction([c \in Conns |-> res[c][f]])]

Return ==
  /\ main = "running"
  /\ \A c \in Conns : pc[c] = "done"
  /\ main' = "returned"
  /\ report' = [counts |-> Totals, hist |-> hist, onset |-> onset]
  /\ UNCHANGED <<connVars, sharedVars, samples, abort, policy, sec, tickerVars>>

\* The caller cancels: the bridge task turns its token into the abort flag.
Cancel ==
  /\ main # "returned"
  /\ ~abort
  /\ abort' = TRUE
  /\ UNCHANGED <<connVars, sharedVars, samples, mainVars, sec, tickerVars>>

SecondPasses ==
  /\ main = "running"
  /\ ~Deadline
  /\ sec' = sec + 1
  /\ UNCHANGED <<connVars, sharedVars, samples, abort, mainVars, tickerVars>>

\* The report is out and no tick is on its way.
Quiet ==
  /\ main = "returned"
  /\ tpc \in {"asleep", "ended"}
  /\ UNCHANGED vars

Ticker == Wake \/ LoadCounter \/ LoadRest \/ SendTick

Connection(c) ==
  \/ Dial(c) \/ LoopTop(c) \/ LeaveAtDeadline(c) \/ Send(c) \/ WriteFails(c)
  \/ (\E e \in Errors : ReadFails(c, e))
  \/ (\E v \in Answers, ra \in RetryAfters : Receive(c, v, ra))
  \/ Count(c) \/ TakeNumber(c) \/ PushSample(c) \/ Judge(c) \/ ClaimOnset(c) \/ StoreOnset(c)
  \/ Obey(c) \/ PauseEnds(c)

Next ==
  \/ \E c \in Conns : Connection(c)
  \/ Ticker
  \/ Start \/ Return
  \/ Cancel
  \/ SecondPasses
  \/ Quiet

Spec == Init /\ [][Next]_vars

\* The runtime polls every ready task, a read has a timeout, and time passes.
Fairness ==
  /\ \A c \in Conns : WF_vars(Connection(c))
  /\ WF_vars(Ticker)
  /\ WF_vars(Start \/ Return)
  /\ WF_vars(SecondPasses)

FairSpec == Spec /\ Fairness
=============================================================================
