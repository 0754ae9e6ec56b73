-------------------------- MODULE OffloadCacheProps --------------------------
(***************************************************************************)
(* What OffloadCache must satisfy.                                         *)
(***************************************************************************)
EXTENDS OffloadCache

Entries == {Absent, NoRules} \cup {Evaluator(tiers) : tiers \in SUBSET Tiers}

\* The type of every variable.
TypeOK ==
  /\ assert \in [Runs -> Specs]
  /\ run \in [Samples -> Runs]
  /\ body \in [Samples -> Bodies]
  /\ entries \in [Runs -> Entries]
  /\ pc \in [Samples -> {"lookup", "fetching", "storing", "judging", "ended"}]
  /\ fetched \in [Samples -> SUBSET Tiers]
  /\ rows \in [Samples -> Tiers \cup {"none", "pass"}]
  /\ failed \subseteq Samples

\* The verdict a sample should have: the first tier of its own run's spec that
\* its body fails, and none when the run has no usable rules.
Due(s) ==
  LET a == assert[run[s]]
  IN  IF a.tiers = {} \/ a.bad THEN "none"
      ELSE IF "fail_schema" \in a.tiers \cap body[s] THEN "fail_schema"
      ELSE IF "fail_value" \in a.tiers \cap body[s] THEN "fail_value"
      ELSE IF "fail_regex" \in a.tiers \cap body[s] THEN "fail_regex"
      ELSE "pass"

\* However the goroutines of several runs race through the cache, and whichever
\* of them fail, a sample gets the verdict of its own run's spec, and misses it
\* only when its own goroutine met a database error: another's failure, or an
\* entry another stored, never costs it its verdict.
VerdictsMatchSpec ==
  \A s \in Samples :
    pc[s] = "ended" => rows[s] = IF s \in failed THEN "none" ELSE Due(s)

\* The cache never invalidates: once a run has an entry, later stores of
\* goroutines that missed it too leave the entry as it is.
EntryIsFinal ==
  [][\A r \in Runs : entries[r] # Absent => entries'[r] = entries[r]]_vars
=============================================================================
