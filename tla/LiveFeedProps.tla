---------------------------- MODULE LiveFeedProps ----------------------------
(***************************************************************************)
(* What LiveFeed must satisfy.                                             *)
(***************************************************************************)
EXTENDS LiveFeed

\* The type of every variable.
TypeOK ==
  /\ posted \in 0 .. Duration
  /\ {lost, broken} \subseteq Nat
  /\ handler \in [Ticks -> {"none", "lost", "arrived", "publishing", "storing", "ended"}]
  /\ rest \in [Ticks -> Seq(Watchers)]
  /\ subs \in Seq(Watchers)
  /\ writer \in Watchers \cup {None}
  /\ watcher \in [Watchers -> {"out", "watching", "leaving", "removing", "closing", "gone"}]
  /\ ch \in [Watchers -> Seq(Ticks)]
  /\ seen \in [Watchers -> Seq(Ticks)]
  /\ open \subseteq Watchers
  /\ dropped \in [Watchers -> SUBSET Ticks]
  /\ missed \in [Watchers -> SUBSET Ticks]
  /\ panicked \in BOOLEAN
  /\ rows \in Seq([elapsed : Ticks, total : Nat]) /\ unstored \subseteq Ticks

\* A publisher in the middle of the subscriber list never sends on a channel a
\* leaving watcher has closed, which would panic and leave the tick unstored.
NoSendOnClosed == ~panicked

\* What has gone through w's channel or is in it.
Sent(w) == seen[w] \o ch[w]

\* The publishers that have w still before them.
ToCome(w) == {t \in Publishing : w \in ToSet(rest[t])}

\* A watcher that has stayed sees every tick published since it subscribed, once
\* and in order, but for those that found its buffer full.  Order needs
\* every post to be answered: after one that broke, two publishers share the mutex.
WatcherView ==
  \A w \in Watchers :
    /\ IsInjective(Sent(w))
    /\ broken = 0 => \A i, j \in 1 .. Len(Sent(w)) : i < j => Sent(w)[i] < Sent(w)[j]
    /\ Len(ch[w]) <= Buffer
    /\ watcher[w] \in {"watching", "leaving"} =>
         {t \in Ticks : handler[t] \in {"publishing", "storing", "ended"}}
           = missed[w] \cup ToSet(Sent(w)) \cup dropped[w] \cup ToCome(w)

\* The seconds the database has no row of: the post was lost, the insert failed, or
\* either is still to come.
Missing == {t \in Ticks : handler[t] # "ended"} \cup unstored

\* A replay taken at any moment has each stored second once and in order, although
\* the inserts race, and its cumulative totals are the live ones less the requests of
\* the earlier seconds that are missing: no row is counted twice, too early or not at
\* all, a watched tick that was stored is replayed, and with nothing missing before it
\* its total is the one the watcher saw.
ReplayMatchesFeed ==
  LET replay == Replay
  IN  /\ {replay[i].elapsed : i \in DOMAIN replay} = Ticks \ Missing
      /\ \A i, j \in DOMAIN replay : i < j => replay[i].elapsed < replay[j].elapsed
      /\ \A i \in DOMAIN replay :
           replay[i].completed = CompletedTotal(replay[i].elapsed)
                                   - Requests(Missing \cap (1 .. replay[i].elapsed))

\* Every tick that arrives is published to the end, whatever the watchers and
\* their clients do: a slow consumer never stalls the data path.
PublishEnds ==
  \A t \in Ticks : handler[t] = "arrived" ~> handler[t] \in {"storing", "ended"}
=============================================================================
