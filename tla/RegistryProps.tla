---------------------------- MODULE RegistryProps ----------------------------
(***************************************************************************)
(* What Registry must satisfy.                                             *)
(***************************************************************************)
EXTENDS Registry

CoordTypeOK ==
  /\ up \in BOOLEAN /\ accepts \in BOOLEAN
  /\ workers \subseteq Workers
  /\ age \in [Workers -> 0 .. DeadAfter + ScanEvery]
  /\ scan \in 0 .. ScanEvery

NodeTypeOK ==
  /\ node \in [Workers -> {"registering", "serving", "exited", "dead"}]
  /\ attempt \in [Workers -> 0 .. MaxAttempts]
  /\ delay \in [Workers -> Nat \ {0}]
  /\ timer \in [Workers -> Nat]
  /\ rpc \in [Workers -> {"none", "sent", "acked", "refused", "broken"}]
  /\ rpcAge \in [Workers -> 0 .. RpcTimeout]
  /\ late \in [Workers -> Nat]
  /\ beat \in [Workers -> 0 .. BeatEvery]
  /\ misses \in [Workers -> 0 .. MaxMisses]

HistTypeOK ==
  /\ losses \in 0 .. MaxLosses /\ restarts \in 0 .. MaxRestarts
  /\ upFor \in 0 .. RelearnedBy + 1
  /\ known \subseteq Workers /\ leased \subseteq Workers
  /\ quiet \in [Workers -> 0 .. ForgottenBy + 1]

\* The type of every variable; in particular no entry outlives the first scan
\* that finds it expired.
TypeOK == CoordTypeOK /\ NodeTypeOK /\ HistTypeOK

\* A worker that stopped is gone from the registry, and so from future
\* dispatches, a bounded time later.  A Register it had sent may be accepted at
\* any time after that and give it a fresh entry; then the time counts again.
DeadIsForgotten ==
  \A w \in Workers : quiet[w] > ForgottenBy => w \notin workers

\* A restarted coordinator that accepts the workers' contract version has heard
\* of every serving worker within RelearnedBy, if no Register was lost, wherever
\* the restart fell in each worker's interval or RPC.  That is one period and
\* twice the time an RPC may take: 20 s with the source's constants.
FleetIsRelearned ==
  up /\ accepts /\ losses = 0 /\ upFor > RelearnedBy =>
    \A w \in Workers : node[w] = "serving" => w \in known

\* A serving worker whose heartbeats have reached its entry is evicted only
\* after losing three of them in a row (with the source's constants), in whatever
\* order the scan, the heartbeats and its re-registrations fall.
EvictionMeansMisses ==
  [][\A w \in workers \ workers' :
        up' /\ w \in leased /\ node[w] = "serving" => (misses[w] + 1) * BeatEvery > DeadAfter]_vars

\* The registry loses a live worker only for a time: as long as a coordinator
\* of its version runs, a serving worker is in the registry again and again.
LiveIsKnownAgain ==
  \A w \in Workers :
    []<>(w \in workers \/ node[w] # "serving" \/ ~accepts)

(***************************************************************************)
(* What a comment in the code claims and the code does not do.             *)
(***************************************************************************)

\* bin/worker_node.rs: re-registration in "steady-state ... just refreshes the
\* worker's registry entry": a serving worker the coordinator has accepted has
\* an entry to refresh.
LiveStaysRegistered ==
  up => \A w \in known : node[w] = "serving" => w \in workers
=============================================================================
