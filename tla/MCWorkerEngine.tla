--------------------------- MODULE MCWorkerEngine ---------------------------
\* WorkerEngine with a few connections and requests, for TLC.
EXTENDS WorkerEngineProps, TLC

\* The connections are alike.
ConnSymmetry == Permutations(Conns)
=============================================================================
