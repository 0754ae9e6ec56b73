------------------------------ MODULE LiveFeed ------------------------------
(***************************************************************************)
(* How the control plane takes in the ticks of one run: the coordinator    *)
(* posts them one after the other, IngestTick (api/stream.go) publishes    *)
(* each to the SSE subscribers of the run (sse/sse.go), and a goroutine it *)
(* leaves behind writes it to run_ticks, which GetTicks replays.  A        *)
(* watcher is one StreamRun handler and its client.                        *)
(*                                                                         *)
(* The broker's RWMutex is explicit: publishers share it, Subscribe and    *)
(* cleanup hold it alone.  A post whose connection breaks leaves its       *)
(* handler running while the coordinator goes on to the next tick, so that *)
(* two publishers can be at work at once.  The other goroutines IngestTick *)
(* starts are RunLifecycle's (checkCost) and OffloadCache's subjects.      *)
(*                                                                         *)
(* An operator named Fault_... is a mistake in the operator after it that  *)
(* a property must catch; no behaviour of Spec uses it.                    *)
(***************************************************************************)
EXTENDS Integers, Sequences, SequencesExt, FiniteSets

CONSTANTS
  Watchers,     \* StreamRun handlers
  None,         \* nobody holds the broker's lock alone
  Duration,     \* ticks of the run
  Total,        \* Total[t]: this_tick.total of the tick of second t
  Buffer,       \* subBuffer
  MaxFaults     \* bound: posts lost, posts broken and inserts refused, in all

ASSUME FeedAssumption ==
  /\ IsFiniteSet(Watchers)
  /\ None \notin Watchers
  /\ {Duration, MaxFaults} \subseteq Nat
  /\ Total \in [1 .. Duration -> Nat]
  /\ Buffer \in Nat \ {0}

Ticks == 1 .. Duration

VARIABLES
  posted,    \* ticks the coordinator has posted
  handler,   \* where the IngestTick of each tick is
  rest,      \* rest[t]: the subscribers t's publisher has still to send to
  subs,      \* Broker.subs of the run: its channels, named by their watcher
  writer,    \* who holds Broker.mu alone
  watcher,   \* where each StreamRun is
  ch,        \* the buffered channel of each watcher
  open,      \* the channels that are not closed
  seen,      \* what each watcher was sent, in order
  dropped,   \* auxiliary: the ticks a full buffer made each watcher miss
  missed,    \* auxiliary: the ticks published before each watcher subscribed
  panicked,  \* auxiliary: a publisher sent on a closed channel
  rows,      \* run_ticks of the run, in the order of the inserts
  unstored,  \* auxiliary: the ticks whose insert failed
  lost, broken \* how many posts never arrived, or broke while handled

postVars   == <<posted, lost, broken>>
brokerVars == <<handler, rest, subs, writer, panicked>>
watchVars  == <<watcher, ch, open, seen, dropped, missed>>
dbVars     == <<rows, unstored>>
vars == <<postVars, brokerVars, watchVars, dbVars>>

Init ==
  /\ posted = 0 /\ lost = 0 /\ broken = 0
  /\ handler = [t \in Ticks |-> "none"]
  /\ rest = [t \in Ticks |-> <<>>]
  /\ subs = <<>> /\ writer = None /\ panicked = FALSE
  /\ watcher = [w \in Watchers |-> "out"]
  /\ ch = [w \in Watchers |-> <<>>]
  /\ open = {}
  /\ seen = [w \in Watchers |-> <<>>]
  /\ dropped = [w \in Watchers |-> {}]
  /\ missed = [w \in Watchers |-> {}]
  /\ rows = <<>> /\ unstored = {}

Goto(t, label) == handler' = [handler EXCEPT ![t] = label]
MayFail == lost + broken + Cardinality(unstored) < MaxFaults
Publishing == {t \in Ticks : handler[t] = "publishing"}
-----------------------------------------------------------------------------
(***************************************************************************)
(* The coordinator's push loop: the next tick is posted when the answer to *)
(* the last one is in or its connection broke.                             *)
(***************************************************************************)

Awaiting == posted > 0 /\ handler[posted] \in {"arrived", "publishing"}

\* Fault: does not wait for the answer to the last post.
Fault_Post ==
  /\ posted < Duration
  /\ posted' = posted + 1
  /\ Goto(posted', "arrived")
  /\ UNCHANGED <<rest, subs, writer, panicked, lost, broken, watchVars, dbVars>>

Post ==
  /\ posted < Duration
  /\ ~Awaiting
  /\ posted' = posted + 1
  /\ Goto(posted', "arrived")
  /\ UNCHANGED <<rest, subs, writer, panicked, lost, broken, watchVars, dbVars>>

\* No retry: a post that fails is a tick the control plane never has.
PostLost ==
  /\ posted < Duration
  /\ ~Awaiting
  /\ MayFail
  /\ posted' = posted + 1
  /\ Goto(posted', "lost")
  /\ lost' = lost + 1
  /\ UNCHANGED <<rest, subs, writer, panicked, broken, watchVars, dbVars>>

\* The connection breaks under a handler, which goes on, and the next is posted.
PostBreaks ==
  /\ posted < Duration
  /\ Awaiting
  /\ MayFail
  /\ posted' = posted + 1
  /\ Goto(posted', "arrived")
  /\ broken' = broken + 1
  /\ UNCHANGED <<rest, subs, writer, panicked, lost, watchVars, dbVars>>
-----------------------------------------------------------------------------
(***************************************************************************)
(* Broker.Publish, called by IngestTick.                                   *)
(***************************************************************************)

RLock(t) ==
  /\ handler[t] = "arrived"
  /\ writer = None
  /\ Goto(t, "publishing")
  /\ rest' = [rest EXCEPT ![t] = subs]
  /\ UNCHANGED <<subs, writer, panicked, postVars, watchVars, dbVars>>

\* Fault: waits for room in the channel.
Fault_Deliver(t) ==
  /\ handler[t] = "publishing"
  /\ rest[t] # <<>>
  /\ Len(ch[Head(rest[t])]) < Buffer
  /\ ch' = [ch EXCEPT ![Head(rest[t])] = Append(@, t)]
  /\ rest' = [rest EXCEPT ![t] = Tail(@)]
  /\ UNCHANGED <<handler, subs, writer, panicked, postVars, dbVars>>
  /\ UNCHANGED <<watcher, open, seen, dropped, missed>>

\* The select with a default: a full buffer loses the tick.
Deliver(t) ==
  /\ handler[t] = "publishing"
  /\ rest[t] # <<>>
  /\ LET w == Head(rest[t])
     IN  \/ w \in open /\ Len(ch[w]) < Buffer
            /\ ch' = [ch EXCEPT ![w] = Append(@, t)]
            /\ UNCHANGED <<dropped, panicked>>
         \/ w \in open /\ Len(ch[w]) = Buffer
            /\ dropped' = [dropped EXCEPT ![w] = @ \cup {t}]
            /\ UNCHANGED <<ch, panicked>>
         \/ w \notin open
            /\ panicked' = TRUE
            /\ UNCHANGED <<ch, dropped>>
  /\ rest' = [rest EXCEPT ![t] = Tail(@)]
  /\ UNCHANGED <<handler, subs, writer, postVars, watcher, open, seen, missed, dbVars>>

\* Publish returns; IngestTick starts persistTick and answers.
RUnlock(t) ==
  /\ handler[t] = "publishing"
  /\ rest[t] = <<>>
  /\ Goto(t, "storing")
  /\ UNCHANGED <<rest, subs, writer, panicked, postVars, watchVars, dbVars>>
-----------------------------------------------------------------------------
(***************************************************************************)
(* StreamRun.                                                              *)
(***************************************************************************)

WatchStep(w, from, to) ==
  /\ watcher[w] = from
  /\ watcher' = [watcher EXCEPT ![w] = to]

\* Nobody holds the mutex, shared or alone.
Unlocked == writer = None /\ Publishing = {}

\* Subscribe; what was published before is not replayed.
Subscribe(w) ==
  /\ WatchStep(w, "out", "watching")
  /\ Unlocked
  /\ subs' = Append(subs, w)
  /\ open' = open \cup {w}
  /\ missed' = [missed EXCEPT ![w] = {t \in Ticks : handler[t] \in {"storing", "ended"}}]
  /\ UNCHANGED <<handler, rest, writer, panicked, ch, seen, dropped, postVars, dbVars>>

\* One tick goes to the client.  A handler whose client is slow is not here.
Receive(w) ==
  /\ watcher[w] = "watching"
  /\ ch[w] # <<>>
  /\ seen' = [seen EXCEPT ![w] = Append(@, Head(ch[w]))]
  /\ ch' = [ch EXCEPT ![w] = Tail(@)]
  /\ UNCHANGED <<watcher, open, dropped, missed, postVars, brokerVars, dbVars>>

\* The client is gone; the deferred cleanup wants the mutex.
ClientGone(w) ==
  /\ WatchStep(w, "watching", "leaving")
  /\ UNCHANGED <<ch, open, seen, dropped, missed, postVars, brokerVars, dbVars>>

\* Fault: cleanup takes the mutex for reading only.
Fault_LockToLeave(w) ==
  /\ WatchStep(w, "leaving", "removing")
  /\ writer = None
  /\ writer' = w
  /\ UNCHANGED <<handler, rest, subs, panicked>>
  /\ UNCHANGED <<ch, open, seen, dropped, missed, postVars, dbVars>>

LockToLeave(w) ==
  /\ WatchStep(w, "leaving", "removing")
  /\ Unlocked
  /\ writer' = w
  /\ UNCHANGED <<handler, rest, subs, panicked>>
  /\ UNCHANGED <<ch, open, seen, dropped, missed, postVars, dbVars>>

\* Its channel leaves the list.
Delist(w) ==
  /\ WatchStep(w, "removing", "closing")
  /\ \E i \in DOMAIN subs : subs[i] = w /\ subs' = RemoveAt(subs, i)
  /\ UNCHANGED <<handler, rest, writer, panicked>>
  /\ UNCHANGED <<ch, open, seen, dropped, missed, postVars, dbVars>>

\* close(ch), and the deferred Unlock.
Close(w) ==
  /\ WatchStep(w, "closing", "gone")
  /\ open' = open \ {w}
  /\ writer' = None
  /\ UNCHANGED <<handler, rest, subs, panicked>>
  /\ UNCHANGED <<ch, seen, dropped, missed, postVars, dbVars>>
-----------------------------------------------------------------------------
(***************************************************************************)
(* run_ticks: what persistTick writes, and GetTicks reads again.  A row    *)
(* has the counts of its second alone.                                     *)
(***************************************************************************)

\* The requests of the seconds in S.
Requests(S) == SumFunction([t \in S |-> Total[t]])

\* completed_total of the tick of second t, as posted and as watched live.
CompletedTotal(t) == Requests(1 .. t)

\* The columns persistTick fills that GetTicks sums.
Row(t) == [elapsed |-> t, total |-> Total[t]]

\* The goroutines of several ticks may insert in any order; a failed insert is
\* logged and not tried again.
Persist(t) ==
  /\ handler[t] = "storing"
  /\ Goto(t, "ended")
  /\ \/ rows' = Append(rows, Row(t)) /\ UNCHANGED unstored
     \/ MayFail /\ unstored' = unstored \cup {t} /\ UNCHANGED rows
  /\ UNCHANGED <<rest, subs, writer, panicked, postVars, watchVars>>

\* Fault: no ORDER BY.
Fault_ByElapsed == rows

\* ORDER BY elapsed_s.
ByElapsed ==
  LET place == CHOOSE p \in Bijection(DOMAIN rows, DOMAIN rows) :
                 \A i, j \in DOMAIN rows : i < j => rows[p[i]].elapsed <= rows[p[j]].elapsed
  IN  [i \in DOMAIN rows |-> rows[place[i]]]

\* GetTicks: the totals are summed again, row by row.
Replay ==
  LET table == ByElapsed
  IN  [i \in DOMAIN table |-> [elapsed |-> table[i].elapsed,
                               completed |-> SumFunction([j \in 1 .. i |-> table[j].total])]]
-----------------------------------------------------------------------------
Coordinator == Post \/ PostLost \/ PostBreaks

Publish(t) == RLock(t) \/ Deliver(t) \/ RUnlock(t)

Cleanup(w) == Delist(w) \/ Close(w)

Watch(w) == Subscribe(w) \/ Receive(w) \/ ClientGone(w) \/ LockToLeave(w) \/ Cleanup(w)

\* The run is over and everybody has left.
Quiet ==
  /\ posted = Duration
  /\ \A t \in Ticks : handler[t] \in {"lost", "ended"}
  /\ \A w \in Watchers : watcher[w] = "gone"
  /\ UNCHANGED vars

Next ==
  \/ Coordinator
  \/ \E t \in Ticks : Publish(t) \/ Persist(t)
  \/ \E w \in Watchers : Watch(w)
  \/ Quiet

Spec == Init /\ [][Next]_vars

\* The runtime runs a publisher, and a cleanup that holds the mutex.  Nothing
\* is assumed of the watchers' clients or of the database.
Fairness ==
  /\ \A t \in Ticks : WF_vars(Publish(t))
  /\ \A w \in Watchers : WF_vars(Cleanup(w))

FairSpec == Spec /\ Fairness
=============================================================================
