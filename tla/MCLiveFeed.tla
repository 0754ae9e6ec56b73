----------------------------- MODULE MCLiveFeed -----------------------------
\* LiveFeed with a few watchers and ticks, for TLC.
EXTENDS LiveFeedProps, TLC

\* No two sets of seconds have the same number of requests.
MCTotal == [t \in 1 .. Duration |-> 2 ^ (Duration - t)]
=============================================================================
