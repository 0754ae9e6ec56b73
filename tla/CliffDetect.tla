---------------------------- MODULE CliffDetect ----------------------------
(***************************************************************************)
(* The two detectors of the cliff, the lowest offered rate at which the    *)
(* target's pass rate drops: FinalsAcc of engine/src/coordinator/admin.rs, *)
(* for a run of a fleet, and detect_cliff_rps of engine/src/bin/worker.rs, *)
(* for a run of the single binary.  Each adds the one bucket of every tick *)
(* to a map; here both are given the same ticks.                           *)
(***************************************************************************)
EXTENDS Integers

CONSTANTS
  Loads,    \* what a second may bring
  MaxTicks  \* bound: seconds

\* The responses of a second: passed, failed, and answered 429.
Load == [pass : Nat, fail : Nat, limited : Nat]

VARIABLES
  finals,  \* FinalsAcc.buckets: by lower edge, totals and passes
  accum,   \* bucket_accum: by lower edge, totals, passes and 429s
  ticks    \* how many ticks there were

vars == <<finals, accum, ticks>>

BucketWidth == 10
MinSamples == 30

\* No bucket fails.
NoCliff == -1

Init ==
  /\ finals = [lo \in {} |-> [total |-> 0, pass |-> 0]]
  /\ accum = [lo \in {} |-> [total |-> 0, pass |-> 0, limited |-> 0]]
  /\ ticks = 0

Total(load) == load.pass + load.fail + load.limited

\* The bucket of a tick is that of its achieved rate, which counts the 429s.
BucketOf(load) == (Total(load) \div BucketWidth) * BucketWidth

\* entry(key).or_default(), and the additions.
Observe(map, lo, seen) ==
  [k \in DOMAIN map \cup {lo} |->
     IF k # lo THEN map[k]
     ELSE IF lo \notin DOMAIN map THEN seen
     ELSE [f \in DOMAIN seen |-> map[lo][f] + seen[f]]]

Tick(load) ==
  /\ ticks < MaxTicks
  /\ ticks' = ticks + 1
  /\ finals' = Observe(finals, BucketOf(load), [total |-> Total(load), pass |-> load.pass])
  /\ accum' = Observe(accum, BucketOf(load),
                [total |-> Total(load), pass |-> load.pass, limited |-> load.limited])

\* Too few passes among enough samples: 0.95 of them, in whole numbers.
Fails(pass, samples) == samples >= MinSamples /\ 100 * pass < 95 * samples

\* cliff_rps of the coordinator.
CoordinatorFailing == {lo \in DOMAIN finals : Fails(finals[lo].pass, finals[lo].total)}

\* detect_cliff_rps of the binary: a 429 is no sample.
WorkerFailing ==
  {lo \in DOMAIN accum : Fails(accum[lo].pass, accum[lo].total - accum[lo].limited)}

\* The maps are in order: the first failing bucket, by its lower edge.
Cliff(failing) ==
  IF failing = {} THEN NoCliff ELSE CHOOSE lo \in failing : \A k \in failing : lo <= k

Next == \E load \in Loads : Tick(load)

Spec == Init /\ [][Next]_vars
-----------------------------------------------------------------------------
\* The coordinator's detector gives the cliff the engine worker's gives for the
\* same ticks, as the comment in its cliff_rps says.
MirrorsEngineWorker == Cliff(CoordinatorFailing) = Cliff(WorkerFailing)

\* It differs on one side only: wherever the engine worker sees a failing bucket
\* so does the coordinator, so that its cliff is never the higher one.
NoCliffMissed == WorkerFailing \subseteq CoordinatorFailing
=============================================================================
