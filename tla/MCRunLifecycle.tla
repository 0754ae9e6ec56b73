--------------------------- MODULE MCRunLifecycle ---------------------------
\* RunLifecycle with a few callers and ticks, for TLC.
EXTENDS RunLifecycleProps, TLC
=============================================================================
