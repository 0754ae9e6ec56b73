------------------------- MODULE Evaluation_proofs -------------------------
(***************************************************************************)
(* What is concluded from a run's responses.  The verdicts of sampled      *)
(* bodies and the cache of evaluators (OffloadCache), for any number of    *)
(* runs, samples and database errors; and how the two detectors of the     *)
(* cliff may differ (CliffDetect), for any ticks.                          *)
(***************************************************************************)
EXTENDS OffloadCacheProps, TLAPS

CONSTANTS Loads, MaxTicks
VARIABLES finals, accum, ticks

Detect == INSTANCE CliffDetect
-----------------------------------------------------------------------------
\* A run whose samples get verdicts: it has rules, and they compile.
Usable(r) == assert[r].tiers # {} /\ ~assert[r].bad

\* The one entry a run can have.
Right(r) == IF assert[r].tiers = {} THEN NoRules ELSE Evaluator(assert[r].tiers)

\* What a goroutine knows at each of its steps.
Knows(s) ==
  LET tiers == assert[run[s]].tiers
  IN  /\ pc[s] = "storing" => fetched[s] = tiers /\ (tiers # {} => ~assert[run[s]].bad)
      /\ pc[s] = "judging" => fetched[s] = tiers /\ Usable(run[s])
      /\ pc[s] # "ended" => rows[s] = "none" /\ s \notin failed
      /\ pc[s] = "ended" => rows[s] = IF s \in failed THEN "none" ELSE Due(s)

\* Only right entries are stored, and only for specs that compile.
CacheInv ==
  /\ \A r \in Runs : /\ entries[r] \in {Absent, Right(r)}
                     /\ entries[r] # Absent /\ assert[r].tiers # {} => ~assert[r].bad
  /\ \A s \in Samples : Knows(s)

\* The kinds of entries are different.
LEMMA EntryKinds ==
  /\ Absent.kind = "absent" /\ NoRules.kind = "noRules"
  /\ \A tiers : Evaluator(tiers).kind = "eval" /\ Evaluator(tiers).tiers = tiers
  /\ Absent # NoRules
  /\ \A tiers : Evaluator(tiers) # Absent /\ Evaluator(tiers) # NoRules
BY DEF Absent, NoRules, Evaluator

\* The order of the tiers, spelled out.
LEMMA TierOrderIs ==
  /\ Len(TierOrder) = 3
  /\ TierOrder[1] = "fail_schema" /\ TierOrder[2] = "fail_value" /\ TierOrder[3] = "fail_regex"
BY DEF TierOrder

\* Evaluate is a choice among verdicts.
LEMMA EvaluateIs ==
  ASSUME NEW tiers, NEW fails
  PROVE  Evaluate(tiers, fails) =
           IF "fail_schema" \in tiers \cap fails THEN "fail_schema"
           ELSE IF "fail_value" \in tiers \cap fails THEN "fail_value"
           ELSE IF "fail_regex" \in tiers \cap fails THEN "fail_regex" ELSE "pass"
<1> DEFINE bad == {i \in 1 .. Len(TierOrder) : TierOrder[i] \in tiers \cap fails}
           first == CHOOSE i \in bad : \A j \in bad : i <= j
<1>1. \A i : i \in bad <=> i \in {1, 2, 3} /\ TierOrder[i] \in tiers \cap fails
  BY TierOrderIs
<1>2. ASSUME bad # {} PROVE first \in bad /\ \A j \in bad : first <= j
  <2>1. \E i \in bad : \A j \in bad : i <= j
    BY <1>1, <1>2
  <2> QED
    BY <2>1
<1>3. Evaluate(tiers, fails) = IF bad = {} THEN "pass" ELSE TierOrder[first]
  BY DEF Evaluate
<1> HIDE DEF bad, first
<1>4. CASE bad = {}
  BY <1>1, <1>3, <1>4, TierOrderIs
<1>5. CASE bad # {}
  <2>1. first \in {1, 2, 3} /\ TierOrder[first] \in tiers \cap fails
    BY <1>1, <1>2, <1>5
  <2>2. \A j \in {1, 2, 3} : j < first => TierOrder[j] \notin tiers \cap fails
    BY <1>1, <1>2, <1>5, <2>1
  <2>3. CASE first = 1
    BY <1>3, <1>5, <2>1, <2>3, TierOrderIs
  <2>4. CASE first = 2
    BY <1>3, <1>5, <2>1, <2>2, <2>4, TierOrderIs
  <2>5. CASE first = 3
    BY <1>3, <1>5, <2>1, <2>2, <2>5, TierOrderIs
  <2> QED
    BY <2>1, <2>3, <2>4, <2>5
<1> QED
  BY <1>4, <1>5

\* A usable spec's evaluation is the verdict that is due.
LEMMA EvaluateDue ==
  ASSUME NEW s \in Samples, Usable(run[s])
  PROVE  Evaluate(assert[run[s]].tiers, body[s]) = Due(s)
BY EvaluateIs DEF Due, Usable

\* A goroutine that is not the one that steps knows what it knew.
LEMMA OthersKnow ==
  ASSUME CacheInv, UNCHANGED inputVars, NEW s \in Samples,
         UNCHANGED <<pc[s], fetched[s], rows[s]>>, s \in failed' <=> s \in failed
  PROVE  Knows(s)'
BY DEF CacheInv, Knows, Due, Usable, inputVars

\* The initial cache is empty.
LEMMA CacheInit == Init => TypeOK /\ CacheInv
BY EntryKinds DEF Init, TypeOK, CacheInv, Knows, Entries

\* Every step of a goroutine keeps the types and the invariant.
LEMMA CacheStep ==
  ASSUME TypeOK, CacheInv, NEW s \in Samples, EvalOneSample(s)
  PROVE  TypeOK' /\ CacheInv'
<1> DEFINE r == run[s]
           tiers == assert[r].tiers
<1>0. /\ r \in Runs /\ UNCHANGED inputVars /\ Knows(s)
      /\ entries[r] \in {Absent, Right(r)}
      /\ entries[r] # Absent /\ tiers # {} => ~assert[r].bad
      /\ tiers \in SUBSET Tiers /\ assert[r].bad \in BOOLEAN
      /\ entries \in [Runs -> Entries] /\ fetched \in [Samples -> SUBSET Tiers]
      /\ rows \in [Samples -> Tiers \cup {"none", "pass"}] /\ failed \subseteq Samples
      /\ pc \in [Samples -> {"lookup", "fetching", "storing", "judging", "ended"}]
  <2>1. UNCHANGED inputVars
    BY DEF EvalOneSample, Lookup, Fetch, FetchFails, Store, InsertVerdict, InsertFails, Step
  <2>2. r \in Runs /\ assert[r] \in SpecType
    BY CacheAssumption DEF TypeOK
  <2> QED
    BY <2>1, <2>2 DEF TypeOK, CacheInv, SpecType
<1> HIDE DEF r
<1>r. r = run[s]
  BY DEF r
<1>p. ASSUME NEW to \in {"lookup", "fetching", "storing", "judging", "ended"}, NEW from,
             Step(s, from, to)
      PROVE  /\ pc[s] = from /\ pc'[s] = to /\ \A t \in Samples \ {s} : pc'[t] = pc[t]
             /\ pc' \in [Samples -> {"lookup", "fetching", "storing", "judging", "ended"}]
  BY <1>0, <1>p DEF Step
\* What is left once the entries and the stepping goroutine are settled.
<1>s. ASSUME entries' \in [Runs -> Entries], fetched' \in [Samples -> SUBSET Tiers],
             rows' \in [Samples -> Tiers \cup {"none", "pass"}], failed' \subseteq Samples,
             pc' \in [Samples -> {"lookup", "fetching", "storing", "judging", "ended"}],
             \A t \in Samples \ {s} : /\ UNCHANGED <<pc[t], fetched[t], rows[t]>>
                                      /\ t \in failed' <=> t \in failed,
             Knows(s)',
             \/ entries' = entries
             \/ entries' = [entries EXCEPT ![r] = Right(r)] /\ (tiers # {} => ~assert[r].bad)
      PROVE  TypeOK' /\ CacheInv'
  <2>1. TypeOK'
    BY <1>0, <1>s DEF TypeOK, inputVars
  <2>2. \A t \in Samples : Knows(t)'
    BY <1>0, <1>s, OthersKnow
  <2>3. assert' = assert /\ \A q \in Runs : Right(q)' = Right(q)
    BY <1>0 DEF inputVars, Right
  <2>4. \A q \in Runs : /\ entries'[q] \in {Absent, Right(q)}
                        /\ entries'[q] # Absent /\ assert[q].tiers # {} => ~assert[q].bad
    BY <1>0, <1>s DEF CacheInv
  <2> QED
    BY <2>1, <2>2, <2>3, <2>4 DEF CacheInv
<1>1. CASE Lookup(s)
  <2>1. /\ UNCHANGED <<entries, rows, failed>>
        /\ fetched' = [fetched EXCEPT ![s] = entries[r].tiers]
    BY <1>1, <1>r DEF Lookup, Hold
  <2>2. CASE entries[r] = Absent
    <3>1. Step(s, "lookup", "fetching") /\ fetched' = [fetched EXCEPT ![s] = {}]
      BY <1>1, <1>r, <2>1, <2>2 DEF Lookup, Absent
    <3>2. Knows(s)'
      BY <1>0, <1>p, <2>1, <3>1 DEF Knows
    <3> QED
      BY <1>0, <1>p, <1>s, <2>1, <3>1, <3>2
  <2>3. CASE entries[r] # Absent /\ tiers = {}
    <3>1. entries[r] = NoRules
      BY <1>0, <2>3 DEF Right
    <3>2. Step(s, "lookup", "ended") /\ fetched' = [fetched EXCEPT ![s] = {}]
      BY <1>1, <1>r, <2>1, <3>1 DEF Lookup, NoRules
    <3>3. Knows(s)'
      BY <1>0, <1>p, <1>r, <2>1, <2>3, <3>2 DEF Knows, Due, inputVars
    <3> QED
      BY <1>0, <1>p, <1>s, <2>1, <3>2, <3>3
  <2>4. CASE entries[r] # Absent /\ tiers # {}
    <3>1. entries[r] = Evaluator(tiers)
      BY <1>0, <2>4 DEF Right
    <3>2. Step(s, "lookup", "judging") /\ fetched' = [fetched EXCEPT ![s] = tiers]
      BY <1>1, <1>r, <2>1, <3>1 DEF Lookup, Evaluator
    <3>3. Knows(s)'
      BY <1>0, <1>p, <1>r, <2>1, <2>4, <3>2 DEF Knows, Usable, inputVars
    <3> QED
      BY <1>0, <1>p, <1>s, <2>1, <3>2, <3>3
  <2> QED
    BY <2>2, <2>3, <2>4
<1>2. CASE Fetch(s)
  <2>1. UNCHANGED <<entries, rows, failed>> /\ fetched' = [fetched EXCEPT ![s] = tiers]
    BY <1>2, <1>r DEF Fetch, Hold
  <2>2. CASE tiers # {} /\ assert[r].bad
    <3>1. Step(s, "fetching", "ended")
      BY <1>2, <1>r, <2>2 DEF Fetch
    <3>2. Knows(s)'
      BY <1>0, <1>p, <1>r, <2>1, <2>2, <3>1 DEF Knows, Due, inputVars
    <3> QED
      BY <1>0, <1>p, <1>s, <2>1, <3>1, <3>2
  <2>3. CASE ~(tiers # {} /\ assert[r].bad)
    <3>1. Step(s, "fetching", "storing")
      BY <1>2, <1>r, <2>3 DEF Fetch
    <3>2. Knows(s)'
      BY <1>0, <1>p, <1>r, <2>1, <2>3, <3>1 DEF Knows, inputVars
    <3> QED
      BY <1>0, <1>p, <1>s, <2>1, <3>1, <3>2
  <2> QED
    BY <2>2, <2>3
<1>3. CASE FetchFails(s) \/ InsertFails(s)
  <2>1. UNCHANGED <<entries, fetched, rows>> /\ failed' = failed \cup {s}
    BY <1>3 DEF FetchFails, InsertFails, DbError
  <2>2. \E from \in {"fetching", "judging"} : Step(s, from, "ended")
    BY <1>3 DEF FetchFails, InsertFails
  <2>3. Knows(s)'
    BY <1>0, <1>p, <2>1, <2>2 DEF Knows
  <2> QED
    BY <1>0, <1>p, <1>s, <2>1, <2>2, <2>3
<1>4. CASE Store(s)
  <2>1. pc[s] = "storing" /\ UNCHANGED <<fetched, rows, failed>>
    BY <1>4 DEF Store, Step
  <2>2. fetched[s] = tiers /\ (tiers # {} => ~assert[r].bad)
    BY <1>0, <1>r, <2>1 DEF Knows
  <2>3. entries' = [entries EXCEPT ![r] = Right(r)]
    BY <1>4, <1>r, <2>2 DEF Store, Right
  <2>4. Step(s, "storing", IF tiers = {} THEN "ended" ELSE "judging")
    BY <1>4, <2>2, EntryKinds DEF Store
  <2>5. Right(r) \in Entries
    BY <1>0 DEF Right, Entries
  <2>6. Knows(s)'
    <3>1. CASE tiers = {}
      BY <1>0, <1>p, <1>r, <2>1, <2>2, <2>4, <3>1 DEF Knows, Due, inputVars
    <3>2. CASE tiers # {}
      BY <1>0, <1>p, <1>r, <2>1, <2>2, <2>4, <3>2 DEF Knows, Usable, inputVars
    <3> QED
      BY <3>1, <3>2
  <2> QED
    BY <1>0, <1>p, <1>s, <2>1, <2>2, <2>3, <2>4, <2>5, <2>6
<1>5. CASE InsertVerdict(s)
  <2>1. /\ Step(s, "judging", "ended") /\ UNCHANGED <<entries, fetched, failed>>
        /\ rows' = [rows EXCEPT ![s] = Evaluate(fetched[s], body[s])]
    BY <1>5 DEF InsertVerdict
  <2>2. fetched[s] = tiers /\ Usable(r) /\ s \notin failed
    BY <1>0, <1>p, <1>r, <2>1 DEF Knows
  <2>3. rows'[s] = Due(s) /\ rows'[s] \in Tiers \cup {"pass"}
    BY <1>0, <1>r, <2>1, <2>2, EvaluateIs, EvaluateDue DEF Tiers
  <2>4. Due(s)' = Due(s)
    BY <1>0 DEF Due, inputVars
  <2>5. Knows(s)'
    BY <1>0, <1>p, <2>1, <2>2, <2>3, <2>4 DEF Knows
  <2>6. rows' \in [Samples -> Tiers \cup {"none", "pass"}]
    BY <1>0, <2>1, <2>3
  <2> QED
    BY <1>0, <1>p, <1>s, <2>1, <2>5, <2>6
<1> QED
  BY <1>1, <1>2, <1>3, <1>4, <1>5 DEF EvalOneSample

\* The invariant holds, and with it every variable's type.
LEMMA CacheInvariant == Spec => [](TypeOK /\ CacheInv)
<1>1. TypeOK /\ CacheInv /\ [Next]_vars => (TypeOK /\ CacheInv)'
  <2> SUFFICES ASSUME TypeOK, CacheInv, [Next]_vars
               PROVE  TypeOK' /\ CacheInv'
    OBVIOUS
  <2>1. ASSUME NEW s \in Samples, EvalOneSample(s)
        PROVE  TypeOK' /\ CacheInv'
    BY <2>1, CacheStep
  <2>2. CASE UNCHANGED vars
    BY <2>2 DEF TypeOK, CacheInv, Knows, Due, Usable, Right, vars, inputVars
  <2> QED
    BY <2>1, <2>2 DEF Next, AllEvaluated
<1> QED
  BY <1>1, CacheInit, PTL DEF Spec

\* A sample gets the verdict of its own run's spec and misses it only for its own
\* database error, however many goroutines of however many runs race.
THEOREM VerdictsAreDue == Spec => []VerdictsMatchSpec
<1>1. CacheInv => VerdictsMatchSpec
  BY DEF CacheInv, Knows, VerdictsMatchSpec
<1> QED
  BY <1>1, CacheInvariant, PTL

\* An entry, once there, stays: late stores put in what is there.
THEOREM EntriesAreFinal == Spec => EntryIsFinal
<1>1. ASSUME CacheInv, TypeOK, [Next]_vars, TypeOK', CacheInv',
             NEW r \in Runs, entries[r] # Absent
      PROVE  entries'[r] = entries[r]
  <2>1. assert' = assert
    BY <1>1 DEF Next, EvalOneSample, Lookup, Fetch, FetchFails, Store, InsertVerdict, InsertFails,
           Step, AllEvaluated, vars, inputVars
  <2>2. Right(r)' = Right(r)
    BY <2>1 DEF Right
  <2>3. entries'[r] # Absent
    <3>1. CASE UNCHANGED entries
      BY <1>1, <3>1
    <3>2. ASSUME NEW s \in Samples, Store(s) PROVE entries'[r] # Absent
      BY <1>1, <3>2, EntryKinds DEF Store, TypeOK
    <3> QED
      BY <1>1, <3>1, <3>2 DEF Next, EvalOneSample, Lookup, Fetch, FetchFails, InsertVerdict,
           InsertFails, AllEvaluated, vars
  <2> QED
    BY <1>1, <2>2, <2>3 DEF CacheInv
<1>2. TypeOK /\ CacheInv /\ [Next]_vars /\ (TypeOK /\ CacheInv)'
        => [\A r \in Runs : entries[r] # Absent => entries'[r] = entries[r]]_vars
  BY <1>1
<1> QED
  BY <1>2, CacheInvariant, PTL DEF Spec, EntryIsFinal
-----------------------------------------------------------------------------
(***************************************************************************)
(* NoCliffMissed of CliffDetect                                            *)
(***************************************************************************)

\* What the two maps hold.
Final == [total : Nat, pass : Nat]
Accum == [total : Nat, pass : Nat, limited : Nat]

\* The maps have the same buckets, with the same totals and passes, and the 429s
\* are among the responses that did not pass.
SameBuckets ==
  \E lows \in SUBSET Int :
    /\ finals \in [lows -> Final] /\ accum \in [lows -> Accum]
    /\ \A lo \in lows : /\ finals[lo].total = accum[lo].total
                        /\ finals[lo].pass = accum[lo].pass
                        /\ accum[lo].limited + accum[lo].pass <= accum[lo].total

\* A tick keeps the maps alike.
LEMMA TickKeepsBuckets ==
  ASSUME SameBuckets, NEW load \in Detect!Load, Detect!Tick(load)
  PROVE  SameBuckets'
<1> DEFINE lo == Detect!BucketOf(load)
           f == [total |-> Detect!Total(load), pass |-> load.pass]
           a == [total |-> Detect!Total(load), pass |-> load.pass, limited |-> load.limited]
<1>1. /\ f \in Final /\ a \in Accum /\ f.total = a.total /\ f.pass = a.pass
      /\ a.limited + a.pass <= a.total
  BY DEF Detect!Load, Detect!Total, Final, Accum
<1>2. lo \in Int
  <2>1. Detect!Total(load) \in Nat
    BY DEF Detect!Load, Detect!Total
  <2> QED
    BY <2>1 DEF Detect!BucketOf, Detect!BucketWidth
<1>3. finals' = Detect!Observe(finals, lo, f) /\ accum' = Detect!Observe(accum, lo, a)
  BY DEF Detect!Tick
<1>4. DOMAIN f = {"total", "pass"} /\ DOMAIN a = {"total", "pass", "limited"}
  OBVIOUS
<1> HIDE DEF lo, f, a
<1>5. PICK lows \in SUBSET Int :
        /\ finals \in [lows -> Final] /\ accum \in [lows -> Accum]
        /\ \A k \in lows : /\ finals[k].total = accum[k].total
                           /\ finals[k].pass = accum[k].pass
                           /\ accum[k].limited + accum[k].pass <= accum[k].total
  BY DEF SameBuckets
<1> DEFINE new == lows \cup {lo}
<1>f. /\ finals' = [k \in new |-> finals'[k]]
      /\ \A k \in lows \ {lo} : finals'[k] = finals[k]
      /\ lo \notin lows => finals'[lo] = f
      /\ lo \in lows => finals'[lo] = [x \in {"total", "pass"} |-> finals[lo][x] + f[x]]
  <2>1. DOMAIN finals = lows
    BY <1>5
  <2>2. finals' = Detect!Observe(finals, lo, f)
    BY <1>3
  <2>3. /\ \A k \in lows \ {lo} : Detect!Observe(finals, lo, f)[k] = finals[k]
        /\ lo \notin lows => Detect!Observe(finals, lo, f)[lo] = f
        /\ lo \in lows =>
             Detect!Observe(finals, lo, f)[lo] = [y \in DOMAIN f |-> finals[lo][y] + f[y]]
    BY <2>1 DEF Detect!Observe
  <2>4. Detect!Observe(finals, lo, f) = [k \in lows \cup {lo} |-> Detect!Observe(finals, lo, f)[k]]
    BY <2>1 DEF Detect!Observe
  <2> QED
    BY <1>4, <2>2, <2>3, <2>4
<1>a. /\ accum' = [k \in new |-> accum'[k]]
      /\ \A k \in lows \ {lo} : accum'[k] = accum[k]
      /\ lo \notin lows => accum'[lo] = a
      /\ lo \in lows =>
           accum'[lo] = [x \in {"total", "pass", "limited"} |-> accum[lo][x] + a[x]]
  <2>1. DOMAIN accum = lows
    BY <1>5
  <2>2. accum' = Detect!Observe(accum, lo, a)
    BY <1>3
  <2>3. /\ \A k \in lows \ {lo} : Detect!Observe(accum, lo, a)[k] = accum[k]
        /\ lo \notin lows => Detect!Observe(accum, lo, a)[lo] = a
        /\ lo \in lows =>
             Detect!Observe(accum, lo, a)[lo] = [y \in DOMAIN a |-> accum[lo][y] + a[y]]
    BY <2>1 DEF Detect!Observe
  <2>4. Detect!Observe(accum, lo, a) = [k \in lows \cup {lo} |-> Detect!Observe(accum, lo, a)[k]]
    BY <2>1 DEF Detect!Observe
  <2> QED
    BY <1>4, <2>2, <2>3, <2>4
<1>6. /\ finals' = [k \in new |-> finals'[k]] /\ accum' = [k \in new |-> accum'[k]]
      /\ \A k \in lows \ {lo} : finals'[k] = finals[k] /\ accum'[k] = accum[k]
  BY <1>f, <1>a
<1>7. /\ finals'[lo] \in Final /\ accum'[lo] \in Accum
      /\ finals'[lo].total = accum'[lo].total
      /\ finals'[lo].pass = accum'[lo].pass
      /\ accum'[lo].limited + accum'[lo].pass <= accum'[lo].total
  <2>1. CASE lo \notin lows
    <3>1. finals'[lo] = f /\ accum'[lo] = a
      BY <1>f, <1>a, <2>1
    <3> QED
      BY <1>1, <3>1
  <2>2. CASE lo \in lows
    <3>1. /\ finals'[lo] = [x \in {"total", "pass"} |-> finals[lo][x] + f[x]]
          /\ accum'[lo] = [x \in {"total", "pass", "limited"} |-> accum[lo][x] + a[x]]
      BY <1>f, <1>a, <2>2
    <3>2. /\ finals'[lo] = [total |-> finals[lo].total + f.total, pass |-> finals[lo].pass + f.pass]
          /\ accum'[lo] = [total |-> accum[lo].total + a.total, pass |-> accum[lo].pass + a.pass,
                           limited |-> accum[lo].limited + a.limited]
      BY <3>1
    <3>3. finals[lo] \in Final /\ accum[lo] \in Accum
      BY <1>5, <2>2
    <3> QED
      BY <1>1, <1>5, <2>2, <3>2, <3>3 DEF Final, Accum
  <2> QED
    BY <2>1, <2>2
<1>8. new \in SUBSET Int
  BY <1>2
<1>9. finals' \in [new -> Final] /\ accum' \in [new -> Accum]
  BY <1>5, <1>6, <1>7
<1>10. \A k \in new : /\ finals'[k].total = accum'[k].total
                      /\ finals'[k].pass = accum'[k].pass
                      /\ accum'[k].limited + accum'[k].pass <= accum'[k].total
  BY <1>5, <1>6, <1>7
<1> QED
  BY <1>8, <1>9, <1>10 DEF SameBuckets

\* For any seconds, where the engine worker sees a failing bucket the coordinator
\* does too: its cliff may be lower, it is never higher.
THEOREM CoordinatorMissesNoCliff ==
  ASSUME Loads \subseteq Detect!Load
  PROVE  Detect!Spec => []Detect!NoCliffMissed
<1>1. Detect!Init => SameBuckets
  <2> SUFFICES ASSUME Detect!Init PROVE SameBuckets
    OBVIOUS
  <2>1. {} \in SUBSET Int /\ finals \in [{} -> Final] /\ accum \in [{} -> Accum]
    BY DEF Detect!Init
  <2> QED
    BY <2>1 DEF SameBuckets
<1>2. SameBuckets /\ [Detect!Next]_Detect!vars => SameBuckets'
  <2> SUFFICES ASSUME SameBuckets, [Detect!Next]_Detect!vars PROVE SameBuckets'
    OBVIOUS
  <2>1. ASSUME NEW load \in Loads, Detect!Tick(load) PROVE SameBuckets'
    BY <2>1, TickKeepsBuckets
  <2>2. CASE UNCHANGED Detect!vars
    BY <2>2 DEF SameBuckets, Detect!vars
  <2> QED
    BY <2>1, <2>2 DEF Detect!Next
<1>3. SameBuckets => Detect!NoCliffMissed
  <2> SUFFICES ASSUME SameBuckets, NEW lo \in Detect!WorkerFailing PROVE lo \in Detect!CoordinatorFailing
    BY DEF Detect!NoCliffMissed
  <2>1. PICK lows \in SUBSET Int :
          /\ finals \in [lows -> Final] /\ accum \in [lows -> Accum]
          /\ \A k \in lows : /\ finals[k].total = accum[k].total
                             /\ finals[k].pass = accum[k].pass
                             /\ accum[k].limited + accum[k].pass <= accum[k].total
    BY DEF SameBuckets
  <2>2. lo \in lows /\ Detect!Fails(accum[lo].pass, accum[lo].total - accum[lo].limited)
    BY <2>1 DEF Detect!WorkerFailing
  <2>3. accum[lo] \in Accum /\ finals[lo] \in Final
    BY <2>1, <2>2
  <2>4. Detect!Fails(finals[lo].pass, finals[lo].total)
    BY <2>1, <2>2, <2>3 DEF Detect!Fails, Detect!MinSamples, Accum, Final
  <2> QED
    BY <2>1, <2>2, <2>4 DEF Detect!CoordinatorFailing
<1> QED
  BY <1>1, <1>2, <1>3, PTL DEF Detect!Spec
=============================================================================
