---------------------------- MODULE OffloadCache ----------------------------
(***************************************************************************)
(* The offload evaluation of sampled responses: evalOneSample of           *)
(* api/stream.go, one goroutine per sample, and the Cache of evaluators    *)
(* they share (offload/cache.go, offload/offload.go).  A lookup and a      *)
(* store are each under the cache's mutex; the fetch between them is not,  *)
(* so that any number of goroutines may fetch the spec of one run.         *)
(*                                                                         *)
(* A tier of a spec is its kind; of a body only the tiers it fails matter. *)
(* An operator named Fault_... is a mistake in the operator after it that  *)
(* a property must catch; no behaviour of Spec uses it.                    *)
(***************************************************************************)
EXTENDS Integers, Sequences, FiniteSets

CONSTANTS
  Runs,        \* runs whose samples are evaluated at the same time
  Samples,     \* sampled responses
  Specs,       \* the offload specs a run may have
  Bodies,      \* the sets of tiers a body may fail
  MaxDbErrors  \* bound: database calls that fail or time out

Tiers == {"fail_schema", "fail_value", "fail_regex"}

\* bad: a pattern or the schema does not compile.
SpecType == [tiers : SUBSET Tiers, bad : BOOLEAN]

ASSUME CacheAssumption ==
  /\ Specs \subseteq SpecType
  /\ Bodies \subseteq SUBSET Tiers
  /\ MaxDbErrors \in Nat

Absent == [kind |-> "absent", tiers |-> {}]
NoRules == [kind |-> "noRules", tiers |-> {}]
Evaluator(tiers) == [kind |-> "eval", tiers |-> tiers]

VARIABLES
  assert,   \* runs.assert_spec of each run, written when the run is created
  run,      \* the run of each sample
  body,     \* the tiers the body of each sample fails
  entries,  \* Cache.entries
  pc,       \* where the goroutine of each sample is
  fetched,  \* the spec or evaluator it holds
  rows,     \* offload_eval: the verdict of each sample, "none" without a row
  failed    \* auxiliary: the samples whose goroutine met a database error

inputVars == <<assert, run, body>>
vars == <<inputVars, entries, pc, fetched, rows, failed>>

Init ==
  /\ assert \in [Runs -> Specs]
  /\ run \in [Samples -> Runs]
  /\ body \in [Samples -> Bodies]
  /\ entries = [r \in Runs |-> Absent]
  /\ pc = [s \in Samples |-> "lookup"]
  /\ fetched = [s \in Samples |-> {}]
  /\ rows = [s \in Samples |-> "none"]
  /\ failed = {}

Step(s, from, to) ==
  /\ pc[s] = from
  /\ pc' = [pc EXCEPT ![s] = to]
  /\ UNCHANGED inputVars

Hold(s, tiers) == fetched' = [fetched EXCEPT ![s] = tiers]

\* The order in which Evaluate tries the tiers.
TierOrder == <<"fail_schema", "fail_value", "fail_regex">>

\* The first configured tier that the body fails.
Evaluate(tiers, fails) ==
  LET bad == {i \in 1 .. Len(TierOrder) : TierOrder[i] \in tiers \cap fails}
  IN  IF bad = {} THEN "pass" ELSE TierOrder[CHOOSE i \in bad : \A j \in bad : i <= j]

\* Cache.Get, under the read lock.
Lookup(s) ==
  LET e == entries[run[s]]
  IN  /\ Step(s, "lookup", CASE e.kind = "absent"  -> "fetching"
                             [] e.kind = "noRules" -> "ended"
                             [] e.kind = "eval"    -> "judging")
      /\ Hold(s, e.tiers)
      /\ UNCHANGED <<entries, rows, failed>>

\* The fetcher reads assert_spec; an evaluator that cannot be built is an error
\* that is not remembered.
Fetch(s) ==
  LET a == assert[run[s]]
  IN  /\ Step(s, "fetching", IF a.tiers # {} /\ a.bad THEN "ended" ELSE "storing")
      /\ Hold(s, a.tiers)
      /\ UNCHANGED <<entries, rows, failed>>

DbError(s) ==
  /\ Cardinality(failed) < MaxDbErrors
  /\ failed' = failed \cup {s}

\* Fault: remembers a failed fetch as a run without rules.
Fault_FetchFails(s) ==
  /\ Step(s, "fetching", "ended")
  /\ DbError(s)
  /\ entries' = [entries EXCEPT ![run[s]] = NoRules]
  /\ UNCHANGED <<fetched, rows>>

FetchFails(s) ==
  /\ Step(s, "fetching", "ended")
  /\ DbError(s)
  /\ UNCHANGED <<entries, fetched, rows>>

\* Under the write lock; whoever fetched last overwrites the others' entries.
Store(s) ==
  LET e == IF fetched[s] = {} THEN NoRules ELSE Evaluator(fetched[s])
  IN  /\ Step(s, "storing", IF e = NoRules THEN "ended" ELSE "judging")
      /\ entries' = [entries EXCEPT ![run[s]] = e]
      /\ UNCHANGED <<fetched, rows, failed>>

InsertVerdict(s) ==
  /\ Step(s, "judging", "ended")
  /\ rows' = [rows EXCEPT ![s] = Evaluate(fetched[s], body[s])]
  /\ UNCHANGED <<entries, fetched, failed>>

InsertFails(s) ==
  /\ Step(s, "judging", "ended")
  /\ DbError(s)
  /\ UNCHANGED <<entries, fetched, rows>>

EvalOneSample(s) ==
  Lookup(s) \/ Fetch(s) \/ FetchFails(s) \/ Store(s) \/ InsertVerdict(s) \/ InsertFails(s)

AllEvaluated == (\A s \in Samples : pc[s] = "ended") /\ UNCHANGED vars

Next == (\E s \in Samples : EvalOneSample(s)) \/ AllEvaluated

Spec == Init /\ [][Next]_vars
=============================================================================
