SPECIFICATION Spec
CONSTANTS
  Runs = {r1, r2}
  Samples = {s1, s2, s3}
  Specs <- MCSpecs
  Bodies <- MCBodies
  MaxDbErrors = 1
INVARIANTS VerdictsMatchSpec
PROPERTIES EntryIsFinal
