----------------------------- MODULE MCConnSched -----------------------------
\* ConnSched on short runs, for TLC: a whole gap, a gap that is no integer, gaps
\* of one unit and of less, and a ramp.
EXTENDS ConnSchedProps, TLC

MCSchedules ==
  { [kind |-> "constant", num |-> 1, den |-> 4],
    [kind |-> "constant", num |-> 2, den |-> 5],
    [kind |-> "constant", num |-> 1, den |-> 1],
    [kind |-> "constant", num |-> 2, den |-> 1],
    [kind |-> "ramp", num |-> 1, den |-> 2, duration |-> 12] }
=============================================================================
