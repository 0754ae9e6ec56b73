-------------------------- MODULE LiveFeed_proofs --------------------------
(***************************************************************************)
(* For any number of ticks and watchers that come and go, and any size of  *)
(* buffer: no publisher sends on a closed channel, a watcher sees all that *)
(* is published while it stays, and the stored ticks replay it in order.   *)
(***************************************************************************)
EXTENDS LiveFeedProps, SumTheorems, SequenceTheorems, FiniteSetTheorems, TLAPS

Handlers == {"none", "lost", "arrived", "publishing", "storing", "ended"}
Stages == {"out", "watching", "leaving", "removing", "closing", "gone"}

\* The types of what the broker's mutex protects.
BrokerTypes ==
  /\ posted \in 0 .. Duration
  /\ handler \in [Ticks -> Handlers]
  /\ rest \in [Ticks -> Seq(Watchers)]
  /\ subs \in Seq(Watchers)
  /\ writer \in Watchers \cup {None}
  /\ watcher \in [Watchers -> Stages]

\* A list without its first element, or without any one, has no new elements.
Among(list, w) == \E i \in 1 .. Len(list) : list[i] = w

\* The mutex: one watcher holds it alone, or publishers share it.
Mutex ==
  /\ \A w \in Watchers : watcher[w] \in {"removing", "closing"} <=> writer = w
  /\ writer # None => \A t \in Ticks : handler[t] # "publishing"

\* The list: each channel is in it once, from Subscribe until it is delisted, and
\* a publisher has only channels of the list before it.
Listed ==
  /\ \A i, j \in 1 .. Len(subs) : subs[i] = subs[j] => i = j
  /\ \A w \in Watchers : Among(subs, w) => watcher[w] \in {"watching", "leaving", "removing"}
  /\ \A t \in Ticks : handler[t] = "publishing" =>
       \A w \in Watchers : Among(rest[t], w) => Among(subs, w)

\* A channel is open as long as it may be in the list, and a little longer.
OpenChannels ==
  \A w \in Watchers :
    watcher[w] \in {"watching", "leaving", "removing", "closing"} => w \in open

FeedInv == BrokerTypes /\ Mutex /\ Listed /\ OpenChannels /\ ~panicked

\* The constants.
LEMMA FeedConstants == None \notin Watchers /\ Duration \in Nat
BY FeedAssumption

\* What the head and the tail of a list are among.
LEMMA HeadTail ==
  ASSUME NEW list \in Seq(Watchers), list # <<>>
  PROVE  /\ Head(list) \in Watchers /\ Among(list, Head(list))
         /\ Tail(list) \in Seq(Watchers)
         /\ \A w : Among(Tail(list), w) => Among(list, w)
<1>1. Len(list) \in Nat /\ Len(list) >= 1
  OBVIOUS
<1>2. Head(list) = list[1]
  BY <1>1
<1>3. Tail(list) \in Seq(Watchers) /\ Len(Tail(list)) = Len(list) - 1
  OBVIOUS
<1>4. \A i \in 1 .. Len(Tail(list)) : Tail(list)[i] = list[i + 1]
  OBVIOUS
<1>5. \A w : Among(Tail(list), w) => Among(list, w)
  BY <1>1, <1>3, <1>4 DEF Among
<1> QED
  BY <1>1, <1>2, <1>3, <1>5 DEF Among

\* What two lists put together hold.
LEMMA Joined ==
  ASSUME NEW front \in Seq(Watchers), NEW back \in Seq(Watchers), NEW new, new = front \o back
  PROVE  /\ new \in Seq(Watchers)
         /\ Len(new) = Len(front) + Len(back)
         /\ \A i \in 1 .. Len(front) + Len(back) :
              new[i] = IF i <= Len(front) THEN front[i] ELSE back[i - Len(front)]
BY ConcatProperties

\* What removing an element leaves.
LEMMA Removed ==
  ASSUME NEW list \in Seq(Watchers), NEW k \in 1 .. Len(list),
         \A i, j \in 1 .. Len(list) : list[i] = list[j] => i = j
  PROVE  /\ RemoveAt(list, k) \in Seq(Watchers)
         /\ \A i, j \in 1 .. Len(RemoveAt(list, k)) :
              RemoveAt(list, k)[i] = RemoveAt(list, k)[j] => i = j
         /\ \A w : Among(RemoveAt(list, k), w) => Among(list, w) /\ w # list[k]
<1>1. PICK front : front = SubSeq(list, 1, k - 1)
  OBVIOUS
<1>2. PICK back : back = SubSeq(list, k + 1, Len(list))
  OBVIOUS
<1>3. /\ front \in Seq(Watchers) /\ Len(front) = k - 1
      /\ \A i \in 1 .. (k - 1) : front[i] = list[i]
  BY <1>1
<1>4. /\ back \in Seq(Watchers) /\ Len(back) = Len(list) - k
      /\ \A i \in 1 .. (Len(list) - k) : back[i] = list[i + k]
  BY <1>2
<1>5. PICK new : new = front \o back
  OBVIOUS
<1>6. RemoveAt(list, k) = new
  BY <1>1, <1>2, <1>5 DEF RemoveAt
<1>7. new \in Seq(Watchers)
  BY <1>3, <1>4, <1>5, Joined
<1>o. front \in Seq(Watchers) /\ back \in Seq(Watchers)
  BY <1>3, <1>4
<1>m. Len(new) = Len(front) + Len(back)
  BY <1>o, <1>5, Joined
<1>n. \A i \in 1 .. Len(front) + Len(back) :
        new[i] = IF i <= Len(front) THEN front[i] ELSE back[i - Len(front)]
  BY <1>o, <1>5, Joined
<1>0. Len(list) \in Nat /\ k \in Nat /\ Len(new) = Len(list) - 1
  BY <1>3, <1>4, <1>m
<1>l. Len(front) = k - 1 /\ Len(back) = Len(list) - k
  BY <1>3, <1>4
<1>x. \A i \in 1 .. (k - 1) + (Len(list) - k) :
        new[i] = IF i <= k - 1 THEN front[i] ELSE back[i - (k - 1)]
  BY <1>l, <1>n, Zenon
<1>8. \A i \in 1 .. Len(new) : i < k => new[i] = list[i]
  <2>1. \A i \in 1 .. Len(new) : i < k => new[i] = front[i]
    BY <1>0, <1>x
  <2> QED
    BY <1>0, <1>3, <2>1
<1>9. ASSUME NEW i \in 1 .. Len(new), i >= k
      PROVE  new[i] = list[i + 1]
  <2>1. i - (k - 1) \in 1 .. (Len(list) - k) /\ (i - (k - 1)) + k = i + 1
    BY <1>0, <1>9
  <2>2. new[i] = back[i - (k - 1)]
    BY <1>0, <1>9, <1>x
  <2> QED
    BY <1>4, <2>1, <2>2
<1> DEFINE at(i) == IF i < k THEN i ELSE i + 1
<1>10. \A i \in 1 .. Len(new) : at(i) \in 1 .. Len(list) /\ at(i) # k
  BY <1>0
<1>11. \A i \in 1 .. Len(new) : new[i] = list[at(i)]
  BY <1>0, <1>8, <1>9
<1>12. \A i, j \in 1 .. Len(new) : at(i) = at(j) => i = j
  BY <1>0
<1> HIDE DEF at
<1>13. \A i, j \in 1 .. Len(new) : new[i] = new[j] => i = j
  BY <1>10, <1>11, <1>12
<1>14. \A w : Among(new, w) => Among(list, w) /\ w # list[k]
  BY <1>10, <1>11 DEF Among
<1> QED
  BY <1>6, <1>7, <1>13, <1>14, Zenon

\* What it keeps.
LEMMA Kept ==
  ASSUME NEW list \in Seq(Watchers), NEW k \in 1 .. Len(list), NEW i \in 1 .. Len(list), i # k
  PROVE  Among(RemoveAt(list, k), list[i])
<1>1. PICK front : front = SubSeq(list, 1, k - 1)
  OBVIOUS
<1>2. PICK back : back = SubSeq(list, k + 1, Len(list))
  OBVIOUS
<1>3. /\ front \in Seq(Watchers) /\ Len(front) = k - 1
      /\ \A j \in 1 .. (k - 1) : front[j] = list[j]
  BY <1>1
<1>4. /\ back \in Seq(Watchers) /\ Len(back) = Len(list) - k
      /\ \A j \in 1 .. (Len(list) - k) : back[j] = list[j + k]
  BY <1>2
<1>5. PICK new : new = front \o back
  OBVIOUS
<1>6. RemoveAt(list, k) = new
  BY <1>1, <1>2, <1>5 DEF RemoveAt
<1>o. front \in Seq(Watchers) /\ back \in Seq(Watchers)
  BY <1>3, <1>4
<1>m. Len(new) = Len(front) + Len(back)
  BY <1>o, <1>5, Joined
<1>n. \A j \in 1 .. Len(front) + Len(back) :
        new[j] = IF j <= Len(front) THEN front[j] ELSE back[j - Len(front)]
  BY <1>o, <1>5, Joined
<1>l. Len(front) = k - 1 /\ Len(back) = Len(list) - k /\ Len(list) \in Nat
  BY <1>3, <1>4
<1>x. \A j \in 1 .. (k - 1) + (Len(list) - k) :
        new[j] = IF j <= k - 1 THEN front[j] ELSE back[j - (k - 1)]
  BY <1>l, <1>n, Zenon
<1>y. Len(new) = Len(list) - 1
  BY <1>l, <1>m
<1>7. CASE i < k
  <2>1. i \in 1 .. Len(new) /\ i <= k - 1 /\ i \in 1 .. (k - 1)
    BY <1>7, <1>l, <1>y
  <2>2. new[i] = front[i]
    BY <1>l, <1>x, <2>1
  <2> QED
    BY <1>3, <1>6, <2>1, <2>2 DEF Among
<1>8. CASE i > k
  <2>1. i - 1 \in 1 .. Len(new) /\ i - k \in 1 .. (Len(list) - k) /\ (i - k) + k = i
    BY <1>8, <1>l, <1>y
  <2>2. new[i - 1] = back[i - k]
    <3>1. i - 1 \in 1 .. (k - 1) + (Len(list) - k) /\ ~(i - 1 <= k - 1)
          /\ (i - 1) - (k - 1) = i - k
      BY <1>8, <1>l
    <3> QED
      BY <1>x, <3>1
  <2>3. back[i - k] = list[i]
    BY <1>4, <2>1
  <2> QED
    BY <1>6, <2>1, <2>2, <2>3 DEF Among
<1> QED
  BY <1>7, <1>8

\* The coordinator's posts start new handlers only.
LEMMA CoordinatorSafe ==
  ASSUME FeedInv, Coordinator
  PROVE  FeedInv'
<1>1. UNCHANGED <<rest, subs, writer, panicked, watcher, open>>
  BY DEF Coordinator, Post, PostLost, PostBreaks, watchVars
<1>2. PICK l \in {"arrived", "lost"} : handler' = [handler EXCEPT ![posted + 1] = l]
  BY DEF Coordinator, Post, PostLost, PostBreaks, Goto
<1>3. posted' \in 0 .. Duration
  BY FeedConstants DEF Coordinator, Post, PostLost, PostBreaks, FeedInv, BrokerTypes
<1>4. /\ handler' \in [Ticks -> Handlers]
      /\ \A t \in Ticks : handler'[t] = "publishing" => handler[t] = "publishing"
  BY <1>2 DEF FeedInv, BrokerTypes, Handlers
<1>5. BrokerTypes'
  BY <1>1, <1>3, <1>4 DEF FeedInv, BrokerTypes
<1>6. Mutex' /\ OpenChannels'
  BY <1>1, <1>4 DEF FeedInv, Mutex, OpenChannels
<1>7. Listed'
  BY <1>1, <1>4 DEF FeedInv, Listed, Among
<1> QED
  BY <1>1, <1>5, <1>6, <1>7 DEF FeedInv

\* A publisher sends to channels of the list, which are open.
LEMMA PublishSafe ==
  ASSUME FeedInv, NEW t \in Ticks, Publish(t)
  PROVE  FeedInv'
<1>0. BrokerTypes /\ Mutex /\ Listed /\ OpenChannels /\ ~panicked
  BY DEF FeedInv
<1>1. UNCHANGED <<posted, subs, writer, watcher, open>>
  BY DEF Publish, RLock, Deliver, RUnlock, postVars, watchVars
<1>2. CASE RLock(t)
  <2>1. /\ writer = None /\ panicked' = panicked
        /\ handler' = [handler EXCEPT ![t] = "publishing"] /\ rest' = [rest EXCEPT ![t] = subs]
    BY <1>2 DEF RLock, Goto
  <2>2. BrokerTypes'
    BY <1>0, <1>1, <2>1 DEF BrokerTypes, Handlers
  <2>3. Mutex'
    BY <1>0, <1>1, <2>1 DEF Mutex
  <2>4. Listed'
    BY <1>0, <1>1, <2>1 DEF Listed, BrokerTypes, Among
  <2> QED
    BY <1>0, <1>1, <2>1, <2>2, <2>3, <2>4 DEF FeedInv, OpenChannels
<1>3. CASE Deliver(t)
  <2> DEFINE w == Head(rest[t])
  <2>1. rest[t] \in Seq(Watchers) /\ rest[t] # <<>> /\ handler[t] = "publishing"
    BY <1>0, <1>3 DEF Deliver, BrokerTypes
  <2>2. w \in Watchers /\ Among(rest[t], w)
    BY <2>1, HeadTail
  <2>3. w \in open
    BY <1>0, <2>1, <2>2 DEF Listed, OpenChannels
  <2>4. panicked' = panicked /\ rest' = [rest EXCEPT ![t] = Tail(rest[t])] /\ handler' = handler
    BY <1>3, <2>3 DEF Deliver
  <2>5. Tail(rest[t]) \in Seq(Watchers)
        /\ \A v : Among(Tail(rest[t]), v) => Among(rest[t], v)
    BY <2>1, HeadTail
  <2>6. BrokerTypes'
    BY <1>0, <1>1, <2>4, <2>5 DEF BrokerTypes
  <2>7. \A u \in Ticks : \A v : Among(rest'[u], v) => Among(rest[u], v)
    BY <1>0, <2>4, <2>5 DEF BrokerTypes
  <2>8. \A v : Among(subs', v) <=> Among(subs, v)
    BY <1>1
  <2>9. Listed'
    BY <1>0, <1>1, <2>4, <2>7, <2>8 DEF Listed
  <2> QED
    BY <1>0, <1>1, <2>4, <2>6, <2>9 DEF FeedInv, Mutex, OpenChannels
<1>4. CASE RUnlock(t)
  <2>1. /\ UNCHANGED <<rest, panicked>>
        /\ handler' = [handler EXCEPT ![t] = "storing"]
    BY <1>4 DEF RUnlock, Goto
  <2>2. /\ handler' \in [Ticks -> Handlers]
        /\ \A u \in Ticks : handler'[u] = "publishing" => handler[u] = "publishing"
    BY <1>0, <2>1 DEF BrokerTypes, Handlers
  <2>3. BrokerTypes'
    BY <1>0, <1>1, <2>1, <2>2 DEF BrokerTypes
  <2>4. Mutex' /\ OpenChannels'
    BY <1>0, <1>1, <2>2 DEF Mutex, OpenChannels
  <2>5. Listed'
    BY <1>0, <1>1, <2>1, <2>2 DEF Listed, Among
  <2> QED
    BY <1>0, <2>1, <2>3, <2>4, <2>5 DEF FeedInv
<1> QED
  BY <1>2, <1>3, <1>4 DEF Publish

\* A watcher changes the list only when no publisher is at work.
LEMMA WatchSafe ==
  ASSUME FeedInv, NEW w \in Watchers, Watch(w)
  PROVE  FeedInv'
<1>0. BrokerTypes /\ Mutex /\ Listed /\ OpenChannels /\ ~panicked /\ None \notin Watchers
  BY FeedConstants DEF FeedInv
<1>1. UNCHANGED <<posted, handler, rest, panicked>>
  BY DEF Watch, Cleanup, Subscribe, Receive, ClientGone, LockToLeave, Delist, Close,
         postVars, brokerVars
<1>2. CASE Subscribe(w)
  <2>1. /\ watcher[w] = "out" /\ watcher' = [watcher EXCEPT ![w] = "watching"]
        /\ writer = None /\ writer' = writer /\ \A t \in Ticks : handler[t] # "publishing"
        /\ subs' = Append(subs, w) /\ open' = open \cup {w}
    BY <1>2 DEF Subscribe, WatchStep, Unlocked, Publishing
  <2>2. /\ subs' \in Seq(Watchers) /\ Len(subs') = Len(subs) + 1 /\ subs'[Len(subs) + 1] = w
        /\ Len(subs) \in Nat /\ \A i \in 1 .. Len(subs) : subs'[i] = subs[i]
    BY <1>0, <2>1 DEF BrokerTypes
  <2>3. \A i \in 1 .. Len(subs) : subs[i] # w
    BY <1>0, <2>1 DEF Listed, Among
  <2>4. /\ \A i, j \in 1 .. Len(subs') : subs'[i] = subs'[j] => i = j
        /\ \A v : Among(subs', v) => v = w \/ Among(subs, v)
    BY <1>0, <2>2, <2>3 DEF Listed, Among
  <2>5. watcher' \in [Watchers -> Stages] /\ watcher'[w] = "watching"
        /\ \A v \in Watchers \ {w} : watcher'[v] = watcher[v]
    BY <1>0, <2>1 DEF BrokerTypes, Stages
  <2>6. BrokerTypes'
    BY <1>0, <1>1, <2>1, <2>2, <2>5 DEF BrokerTypes
  <2>7. Mutex'
    BY <1>0, <1>1, <2>1, <2>5 DEF Mutex
  <2>8. Listed'
    BY <1>0, <1>1, <2>1, <2>4, <2>5 DEF Listed
  <2>9. OpenChannels'
    BY <1>0, <2>1, <2>5 DEF OpenChannels
  <2> QED
    BY <1>0, <1>1, <2>6, <2>7, <2>8, <2>9 DEF FeedInv
<1>3. CASE Receive(w)
  BY <1>0, <1>1, <1>3 DEF Receive, brokerVars, FeedInv, BrokerTypes, Mutex, Listed,
     OpenChannels, Among
<1>4. CASE ClientGone(w)
  <2>1. /\ watcher[w] = "watching" /\ watcher' = [watcher EXCEPT ![w] = "leaving"]
        /\ UNCHANGED <<writer, subs, open>>
    BY <1>4 DEF ClientGone, WatchStep, brokerVars
  <2>2. watcher' \in [Watchers -> Stages] /\ watcher'[w] = "leaving"
        /\ \A v \in Watchers \ {w} : watcher'[v] = watcher[v]
    BY <1>0, <2>1 DEF BrokerTypes, Stages
  <2>3. BrokerTypes' /\ Mutex'
    BY <1>0, <1>1, <2>1, <2>2 DEF BrokerTypes, Mutex
  <2>4. Listed' /\ OpenChannels'
    BY <1>0, <1>1, <2>1, <2>2 DEF Listed, OpenChannels, Among
  <2> QED
    BY <1>0, <1>1, <2>3, <2>4 DEF FeedInv
<1>5. CASE LockToLeave(w)
  <2>1. /\ watcher[w] = "leaving" /\ watcher' = [watcher EXCEPT ![w] = "removing"]
        /\ writer = None /\ writer' = w /\ \A t \in Ticks : handler[t] # "publishing"
        /\ UNCHANGED <<subs, open>>
    BY <1>5 DEF LockToLeave, WatchStep, Unlocked, Publishing
  <2>2. watcher' \in [Watchers -> Stages] /\ watcher'[w] = "removing"
        /\ \A v \in Watchers \ {w} : watcher'[v] = watcher[v]
    BY <1>0, <2>1 DEF BrokerTypes, Stages
  <2>3. BrokerTypes'
    BY <1>0, <1>1, <2>1, <2>2 DEF BrokerTypes
  <2>4. Mutex'
    BY <1>0, <1>1, <2>1, <2>2 DEF Mutex
  <2>5. Listed' /\ OpenChannels'
    BY <1>0, <1>1, <2>1, <2>2 DEF Listed, OpenChannels, Among
  <2> QED
    BY <1>0, <1>1, <2>3, <2>4, <2>5 DEF FeedInv
<1>6. CASE Delist(w)
  <2>1. /\ watcher[w] = "removing" /\ watcher' = [watcher EXCEPT ![w] = "closing"]
        /\ UNCHANGED <<writer, open>>
    BY <1>6 DEF Delist, WatchStep
  <2>2. writer = w /\ \A t \in Ticks : handler[t] # "publishing"
    BY <1>0, <2>1 DEF Mutex
  <2>3. PICK k \in 1 .. Len(subs) : subs[k] = w /\ subs' = RemoveAt(subs, k)
    BY <1>0, <1>6 DEF Delist, BrokerTypes
  <2>4. /\ subs' \in Seq(Watchers)
        /\ \A i, j \in 1 .. Len(subs') : subs'[i] = subs'[j] => i = j
        /\ \A v : Among(subs', v) => Among(subs, v) /\ v # w
    BY <1>0, <2>3, Removed DEF BrokerTypes, Listed
  <2>5. watcher' \in [Watchers -> Stages] /\ watcher'[w] = "closing"
        /\ \A v \in Watchers \ {w} : watcher'[v] = watcher[v]
    BY <1>0, <2>1 DEF BrokerTypes, Stages
  <2>6. BrokerTypes' /\ Mutex'
    BY <1>0, <1>1, <2>1, <2>4, <2>5 DEF BrokerTypes, Mutex
  <2>7. Listed'
    BY <1>0, <1>1, <2>2, <2>4, <2>5 DEF Listed
  <2>8. OpenChannels'
    BY <1>0, <2>1, <2>5 DEF OpenChannels
  <2> QED
    BY <1>0, <1>1, <2>6, <2>7, <2>8 DEF FeedInv
<1>7. CASE Close(w)
  <2>1. /\ watcher[w] = "closing" /\ watcher' = [watcher EXCEPT ![w] = "gone"]
        /\ writer' = None /\ open' = open \ {w} /\ subs' = subs
    BY <1>7 DEF Close, WatchStep
  <2>2. writer = w
    BY <1>0, <2>1 DEF Mutex
  <2>3. watcher' \in [Watchers -> Stages] /\ watcher'[w] = "gone"
        /\ \A v \in Watchers \ {w} : watcher'[v] = watcher[v]
    BY <1>0, <2>1 DEF BrokerTypes, Stages
  <2>4. BrokerTypes'
    BY <1>0, <1>1, <2>1, <2>3 DEF BrokerTypes
  <2>5. Mutex'
    BY <1>0, <1>1, <2>1, <2>2, <2>3 DEF Mutex
  <2>6. Listed' /\ OpenChannels'
    BY <1>0, <1>1, <2>1, <2>3 DEF Listed, OpenChannels, Among
  <2> QED
    BY <1>0, <1>1, <2>4, <2>5, <2>6 DEF FeedInv
<1> QED
  BY <1>2, <1>3, <1>4, <1>5, <1>6, <1>7 DEF Watch, Cleanup

\* The invariant holds.
LEMMA FeedInvariant == Spec => []FeedInv
<1>1. Init => FeedInv
  <2> SUFFICES ASSUME Init PROVE FeedInv
    OBVIOUS
  <2>1. BrokerTypes
    BY FeedConstants DEF Init, BrokerTypes, Handlers, Stages
  <2>2. Len(subs) = 0
    BY DEF Init
  <2> QED
    BY <2>1, <2>2, FeedConstants DEF Init, FeedInv, Mutex, Listed, OpenChannels, Among
<1>2. FeedInv /\ [Next]_vars => FeedInv'
  <2> SUFFICES ASSUME FeedInv, [Next]_vars PROVE FeedInv'
    OBVIOUS
  <2>1. CASE Coordinator
    BY <2>1, CoordinatorSafe
  <2>2. ASSUME NEW t \in Ticks, Publish(t) PROVE FeedInv'
    BY <2>2, PublishSafe
  <2>3. ASSUME NEW t \in Ticks, Persist(t) PROVE FeedInv'
    <3>1. UNCHANGED <<posted, rest, subs, writer, panicked, watcher, open>>
      BY <2>3 DEF Persist, postVars, watchVars
    <3>2. handler' = [handler EXCEPT ![t] = "ended"]
      BY <2>3 DEF Persist, Goto
    <3>3. /\ handler' \in [Ticks -> Handlers]
          /\ \A u \in Ticks : handler'[u] = "publishing" => handler[u] = "publishing"
      BY <3>2 DEF FeedInv, BrokerTypes, Handlers
    <3>4. BrokerTypes'
      BY <3>1, <3>3 DEF FeedInv, BrokerTypes
    <3>5. Mutex' /\ OpenChannels'
      BY <3>1, <3>3 DEF FeedInv, Mutex, OpenChannels
    <3>6. Listed'
      BY <3>1, <3>3 DEF FeedInv, Listed, Among
    <3> QED
      BY <3>1, <3>4, <3>5, <3>6 DEF FeedInv
  <2>4. ASSUME NEW w \in Watchers, Watch(w) PROVE FeedInv'
    BY <2>4, WatchSafe
  <2>5. CASE UNCHANGED vars
    BY <2>5 DEF vars, postVars, brokerVars, watchVars, FeedInv, BrokerTypes, Mutex, Listed,
       OpenChannels, Among
  <2> QED
    BY <2>1, <2>2, <2>3, <2>4, <2>5 DEF Next, Quiet
<1> QED
  BY <1>1, <1>2, PTL DEF Spec

\* No publisher ever sends on a channel that a leaving watcher closed.
THEOREM PublishersNeverPanic == Spec => []NoSendOnClosed
<1>1. FeedInv => NoSendOnClosed
  BY DEF FeedInv, NoSendOnClosed
<1> QED
  BY <1>1, FeedInvariant, PTL

\* A row of run_ticks.
Rows == [elapsed : Ticks, total : Nat]

\* The types of what the mutex does not protect.
DataTypes ==
  /\ lost \in Nat /\ broken \in Nat
  /\ ch \in [Watchers -> Seq(Ticks)] /\ seen \in [Watchers -> Seq(Ticks)]
  /\ open \subseteq Watchers
  /\ dropped \in [Watchers -> SUBSET Ticks] /\ missed \in [Watchers -> SUBSET Ticks]
  /\ rows \in Seq(Rows) /\ unstored \subseteq Ticks
  /\ panicked \in BOOLEAN

\* A publisher sends ticks to watchers only.
LEMMA PublishTypes ==
  ASSUME FeedInv, DataTypes, NEW t \in Ticks, Publish(t)
  PROVE  DataTypes'
<1>1. CASE Deliver(t)
  <2>1. rest[t] \in Seq(Watchers) /\ rest[t] # <<>>
    BY <1>1 DEF FeedInv, BrokerTypes, Deliver
  <2>2. PICK w \in Watchers : w = Head(rest[t])
    BY <2>1, HeadTail
  <2>3. \/ ch' = [ch EXCEPT ![w] = Append(@, t)] /\ UNCHANGED dropped
        \/ dropped' = [dropped EXCEPT ![w] = @ \cup {t}] /\ UNCHANGED ch
        \/ UNCHANGED <<ch, dropped>>
    BY <1>1, <2>2 DEF Deliver
  <2>4. /\ ch \in [Watchers -> Seq(Ticks)]
        /\ dropped \in [Watchers -> SUBSET Ticks]
    BY DEF DataTypes
  <2>5. ch[w] \in Seq(Ticks) /\ dropped[w] \in SUBSET Ticks
    BY <2>4
  <2>6. Append(ch[w], t) \in Seq(Ticks)
    BY <2>5
  <2>7. dropped[w] \cup {t} \in SUBSET Ticks
    BY <2>5
  <2>8. ch' \in [Watchers -> Seq(Ticks)]
    BY <2>3, <2>4, <2>6
  <2>9. dropped' \in [Watchers -> SUBSET Ticks]
    BY <2>3, <2>4, <2>7
  <2> QED
    BY <1>1, <2>8, <2>9 DEF Deliver, DataTypes, postVars, dbVars
<1>2. CASE RLock(t) \/ RUnlock(t)
  BY <1>2 DEF RLock, RUnlock, DataTypes, postVars, watchVars, dbVars
<1> QED
  BY <1>1, <1>2 DEF Publish

\* A watcher moves ticks from its channel to what it has seen.
LEMMA WatchTypes ==
  ASSUME DataTypes, NEW w \in Watchers, Watch(w)
  PROVE  DataTypes'
<1>1. CASE Receive(w)
  <2>1. ch[w] \in Seq(Ticks) /\ ch[w] # <<>> /\ seen[w] \in Seq(Ticks)
    BY <1>1 DEF Receive, DataTypes
  <2>2. Head(ch[w]) \in Ticks /\ Tail(ch[w]) \in Seq(Ticks)
    BY <2>1
  <2>3. ch' \in [Watchers -> Seq(Ticks)] /\ seen' \in [Watchers -> Seq(Ticks)]
    BY <1>1, <2>1, <2>2 DEF Receive, DataTypes
  <2> QED
    BY <1>1, <2>3 DEF Receive, DataTypes, postVars, brokerVars, dbVars
<1>2. CASE Subscribe(w)
  BY <1>2 DEF Subscribe, DataTypes, postVars, dbVars
<1>3. CASE ClientGone(w) \/ LockToLeave(w) \/ Delist(w) \/ Close(w)
  BY <1>3 DEF ClientGone, LockToLeave, Delist, Close, DataTypes, postVars, brokerVars, dbVars
<1> QED
  BY <1>1, <1>2, <1>3 DEF Watch, Cleanup

\* The data keep their types.
LEMMA DataInvariant == Spec => []DataTypes
<1>1. Init => DataTypes
  <2> SUFFICES ASSUME Init PROVE DataTypes
    OBVIOUS
  <2>1. panicked \in BOOLEAN
    BY DEF Init
  <2> QED
    BY <2>1 DEF Init, DataTypes
<1>2. FeedInv /\ DataTypes /\ [Next]_vars => DataTypes'
  <2> SUFFICES ASSUME FeedInv, DataTypes, [Next]_vars PROVE DataTypes'
    OBVIOUS
  <2>1. CASE Coordinator
    BY <2>1 DEF Coordinator, Post, PostLost, PostBreaks, DataTypes, watchVars, dbVars
  <2>2. ASSUME NEW t \in Ticks, Publish(t) PROVE DataTypes'
    BY <2>2, PublishTypes
  <2>3. ASSUME NEW t \in Ticks, Persist(t) PROVE DataTypes'
    <3>1. Row(t) \in Rows
      BY FeedAssumption DEF Row, Ticks, Rows
    <3>2. rows' \in Seq(Rows) /\ unstored' \subseteq Ticks
      <4>1. rows \in Seq(Rows) /\ unstored \subseteq Ticks
        BY DEF DataTypes
      <4>2. Append(rows, Row(t)) \in Seq(Rows)
        BY <3>1, <4>1
      <4>3. \/ rows' = Append(rows, Row(t)) /\ unstored' = unstored
            \/ rows' = rows /\ unstored' = unstored \cup {t}
        BY <2>3 DEF Persist
      <4> QED
        BY <4>1, <4>2, <4>3
    <3> QED
      BY <2>3, <3>2 DEF Persist, DataTypes, postVars, watchVars
  <2>4. ASSUME NEW w \in Watchers, Watch(w) PROVE DataTypes'
    BY <2>4, WatchTypes
  <2>5. CASE UNCHANGED vars
    BY <2>5 DEF vars, postVars, brokerVars, watchVars, dbVars, DataTypes
  <2> QED
    BY <2>1, <2>2, <2>3, <2>4, <2>5 DEF Next, Quiet
<1> QED
  BY <1>1, <1>2, FeedInvariant, PTL DEF Spec

\* Every variable keeps its type.
THEOREM FeedTypeCorrect == Spec => []TypeOK
<1>1. FeedInv /\ DataTypes => TypeOK
  <2> SUFFICES ASSUME FeedInv, DataTypes PROVE TypeOK
    OBVIOUS
  <2>1. panicked \in BOOLEAN
    BY DEF DataTypes
  <2>2. {lost, broken} \subseteq Nat
    BY DEF DataTypes
  <2> QED
    BY <2>1, <2>2 DEF FeedInv, BrokerTypes, DataTypes, TypeOK, Handlers, Stages, Rows
<1> QED
  BY <1>1, FeedInvariant, DataInvariant, PTL
-----------------------------------------------------------------------------
(***************************************************************************)
(* WatcherView                                                             *)
(***************************************************************************)

\* The ticks whose publication has begun.
Published == {t \in Ticks : handler[t] \in {"publishing", "storing", "ended"}}

\* Ticks are posted in order, and as long as every post was answered only the last
\* one is on its way.
PostOrder ==
  /\ \A t \in Ticks : t > posted => handler[t] = "none"
  /\ broken = 0 => \A t \in Ticks : handler[t] \in {"arrived", "publishing"} => t = posted

\* A watcher is in the list until it is delisted, and a publisher has it once.
Lists ==
  /\ \A w \in Watchers : watcher[w] \in {"watching", "leaving", "removing"} => Among(subs, w)
  /\ \A t \in Ticks : handler[t] = "publishing" =>
       \A i, j \in 1 .. Len(rest[t]) : rest[t][i] = rest[t][j] => i = j

\* The numbers in s go up.
Ascending(s) == \A i, j \in 1 .. Len(s) : i < j => s[i] < s[j]

\* What w was sent was published, and no publisher has still to send it.
ViewOf(w) ==
  /\ watcher[w] = "out" => seen[w] = <<>> /\ ch[w] = <<>> /\ dropped[w] = {}
  /\ IsInjective(Sent(w))
  /\ broken = 0 => Ascending(Sent(w))
  /\ Len(ch[w]) <= Buffer
  /\ ToSet(Sent(w)) \subseteq Published
  /\ ToSet(Sent(w)) \cap ToCome(w) = {}
  /\ watcher[w] \in {"watching", "leaving"} =>
       Published = missed[w] \cup ToSet(Sent(w)) \cup dropped[w] \cup ToCome(w)

\* What the watchers' view depends on; inductive beside FeedInv.
ViewInv == PostOrder /\ Lists /\ \A w \in Watchers : ViewOf(w)

\* The members of a list.
LEMMA AmongIs ==
  ASSUME NEW list \in Seq(Watchers)
  PROVE  \A w : w \in ToSet(list) <=> Among(list, w)
BY DEF ToSet, Among

\* A tick that goes into a channel goes to the end of what its watcher is sent.
LEMMA SentGrows ==
  ASSUME NEW a \in Seq(Ticks), NEW b \in Seq(Ticks), NEW t \in Ticks
  PROVE  a \o Append(b, t) = Append(a \o b, t)
<1>1. Append(b, t) = b \o <<t>> /\ <<t>> \in Seq(Ticks) /\ a \o b \in Seq(Ticks)
  BY AppendIsConcat, ConcatProperties
<1>2. Append(a \o b, t) = (a \o b) \o <<t>>
  BY <1>1, AppendIsConcat
<1> QED
  BY <1>1, <1>2, ConcatAssociative

\* A tick that leaves a channel for its client stays where it was in that order.
LEMMA SentMoves ==
  ASSUME NEW a \in Seq(Ticks), NEW b \in Seq(Ticks), b # <<>>
  PROVE  Append(a, Head(b)) \o Tail(b) = a \o b
<1>1. /\ Head(b) \in Ticks /\ Tail(b) \in Seq(Ticks) /\ <<Head(b)>> \in Seq(Ticks)
      /\ Append(a, Head(b)) = a \o <<Head(b)>>
  BY AppendIsConcat
<1>2. <<Head(b)>> \o Tail(b) = b
  <2> DEFINE c == <<Head(b)>> \o Tail(b)
  <2>1. /\ c \in Seq(Ticks) /\ Len(c) = 1 + Len(Tail(b))
        /\ \A i \in 1 .. 1 + Len(Tail(b)) :
             c[i] = IF i <= 1 THEN <<Head(b)>>[i] ELSE Tail(b)[i - 1]
    BY <1>1, ConcatProperties
  <2>2. /\ Len(b) \in Nat /\ Len(Tail(b)) = Len(b) - 1
        /\ \A i \in 1 .. Len(Tail(b)) : Tail(b)[i] = b[i + 1]
    BY HeadTailProperties, LenProperties
  <2> HIDE DEF c
  <2>3. Len(c) = Len(b)
    BY <2>1, <2>2
  <2>4. ASSUME NEW i \in 1 .. Len(c) PROVE c[i] = b[i]
    <3>1. CASE i = 1
      <4>1. c[1] = Head(b)
        BY <2>1, <2>2, <3>1
      <4>2. Head(b) = b[1]
        OBVIOUS
      <4> QED
        BY <3>1, <4>1, <4>2
    <3>2. CASE i # 1
      <4>1. i - 1 \in 1 .. Len(Tail(b)) /\ (i - 1) + 1 = i
        BY <2>1, <2>2, <3>2
      <4>2. c[i] = Tail(b)[i - 1]
        BY <2>1, <2>2, <3>2
      <4> QED
        BY <2>2, <4>1, <4>2
    <3> QED
      BY <3>1, <3>2
  <2> QED
    BY <2>1, <2>3, <2>4, SeqEqual DEF c
<1> QED
  BY <1>1, <1>2, ConcatAssociative

\* Appending a new element, and a greater one.
LEMMA AppendNew ==
  ASSUME NEW s \in Seq(Ticks), NEW t \in Ticks, t \notin ToSet(s), IsInjective(s)
  PROVE  /\ IsInjective(Append(s, t))
         /\ ToSet(Append(s, t)) = ToSet(s) \cup {t}
         /\ Ascending(s) /\ (\A u \in ToSet(s) : u < t) => Ascending(Append(s, t))
<1> DEFINE r == Append(s, t)
<1>n. PICK n \in Nat : n = Len(s)
  BY LenProperties
<1>1. /\ Len(r) = n + 1 /\ r[n + 1] = t /\ \A i \in 1 .. n : r[i] = s[i]
      /\ DOMAIN s = 1 .. n /\ DOMAIN r = 1 .. (n + 1)
  BY <1>n, AppendProperties, LenProperties
<1> HIDE DEF r
<1>2. \A i \in 1 .. n : s[i] # t /\ s[i] \in ToSet(s)
  BY <1>1 DEF ToSet
<1>3. \A i \in 1 .. (n + 1) : i \in 1 .. n \/ i = n + 1
  BY <1>n
<1>4. IsInjective(r)
  BY <1>1, <1>2, <1>3 DEF IsInjective
<1>5. ToSet(r) = ToSet(s) \cup {t}
  <2>1. ToSet(r) \subseteq ToSet(s) \cup {t}
    BY <1>1, <1>3 DEF ToSet
  <2>2. n + 1 \in 1 .. (n + 1) /\ 1 .. n \subseteq 1 .. (n + 1)
    BY <1>n
  <2>3. ToSet(s) \cup {t} \subseteq ToSet(r)
    BY <1>1, <2>2 DEF ToSet
  <2> QED
    BY <2>1, <2>3
<1>6. ASSUME Ascending(s), \A u \in ToSet(s) : u < t PROVE Ascending(r)
  <2> SUFFICES ASSUME NEW i \in 1 .. (n + 1), NEW j \in 1 .. (n + 1), i < j
               PROVE  r[i] < r[j]
    BY <1>1 DEF Ascending
  <2>1. i \in 1 .. n
    BY <1>n
  <2>2. CASE j \in 1 .. n
    BY <1>1, <1>6, <1>n, <2>1, <2>2 DEF Ascending
  <2>3. CASE j = n + 1
    BY <1>1, <1>2, <1>6, <2>1, <2>3
  <2> QED
    BY <1>3, <2>2, <2>3
<1> QED
  BY <1>4, <1>5, <1>6 DEF r

\* A view stays as it is when nothing it is made of changes.
LEMMA ViewStays ==
  ASSUME NEW w \in Watchers, ViewOf(w),
         seen'[w] = seen[w], ch'[w] = ch[w], dropped'[w] = dropped[w], missed'[w] = missed[w],
         broken' = 0 => broken = 0, Published' = Published, ToCome(w)' = ToCome(w),
         watcher'[w] = "out" => watcher[w] = "out",
         watcher'[w] \in {"watching", "leaving"} => watcher[w] \in {"watching", "leaving"}
  PROVE  ViewOf(w)'
<1>1. Sent(w)' = Sent(w)
  BY DEF Sent
<1> QED
  BY <1>1 DEF ViewOf

\* A post publishes nothing yet.
LEMMA CoordinatorViews ==
  ASSUME FeedInv, DataTypes, ViewInv, Coordinator
  PROVE  ViewInv'
<1>0. /\ handler \in [Ticks -> Handlers] /\ posted \in 0 .. Duration /\ Duration \in Nat
      /\ broken \in Nat /\ PostOrder /\ Lists
  BY FeedConstants DEF FeedInv, BrokerTypes, DataTypes, ViewInv
<1>1. UNCHANGED <<rest, subs, watchVars>> /\ posted' = posted + 1 /\ posted < Duration
  BY DEF Coordinator, Post, PostLost, PostBreaks
<1>2. PICK l \in {"arrived", "lost"} : handler' = [handler EXCEPT ![posted + 1] = l]
  BY DEF Coordinator, Post, PostLost, PostBreaks, Goto
<1>3. posted + 1 \in Ticks /\ handler[posted + 1] = "none"
  BY <1>0, <1>1 DEF PostOrder, Ticks
<1>4. /\ handler'[posted + 1] = l
      /\ \A t \in Ticks \ {posted + 1} : handler'[t] = handler[t]
  BY <1>0, <1>2, <1>3
<1>5. /\ broken' = 0 => broken = 0
      /\ broken' = 0 => \A t \in Ticks : handler[t] \notin {"arrived", "publishing"}
  <2>1. CASE Post \/ PostLost
    <3>1. ~Awaiting /\ broken' = broken
      BY <2>1 DEF Post, PostLost
    <3>2. \A t \in Ticks : broken = 0 => handler[t] \notin {"arrived", "publishing"}
      BY <1>0, <3>1 DEF Awaiting, PostOrder, Ticks
    <3> QED
      BY <3>1, <3>2
  <2>2. CASE PostBreaks
    BY <1>0, <2>2 DEF PostBreaks
  <2> QED
    BY <2>1, <2>2 DEF Coordinator
<1>6. PostOrder'
  <2>1. \A t \in Ticks : t \in Int
    BY DEF Ticks
  <2>2. \A t \in Ticks : t > posted + 1 => handler'[t] = "none"
    BY <1>0, <1>4, <2>1 DEF PostOrder
  <2> QED
    BY <1>1, <1>4, <1>5, <2>2 DEF PostOrder
<1>7. Lists'
  BY <1>0, <1>1, <1>3, <1>4 DEF Lists, watchVars, Among
<1>8. Published' = Published /\ Publishing' = Publishing
  BY <1>3, <1>4 DEF Published, Publishing
<1>9. ASSUME NEW w \in Watchers PROVE ViewOf(w)'
  <2>1. ToCome(w)' = ToCome(w)
    BY <1>1, <1>8 DEF ToCome
  <2> QED
    BY <1>1, <1>5, <1>8, <2>1, ViewStays DEF ViewInv, watchVars
<1> QED
  BY <1>6, <1>7, <1>9 DEF ViewInv

\* A publisher starts with the whole list before it.
LEMMA LockViews ==
  ASSUME FeedInv, DataTypes, ViewInv, NEW t \in Ticks, RLock(t)
  PROVE  ViewInv'
<1>0. /\ handler \in [Ticks -> Handlers] /\ rest \in [Ticks -> Seq(Watchers)]
      /\ subs \in Seq(Watchers) /\ Listed /\ PostOrder /\ Lists
  BY DEF FeedInv, BrokerTypes, ViewInv
<1>1. /\ handler[t] = "arrived" /\ UNCHANGED <<subs, posted, broken, watchVars>>
      /\ handler' = [handler EXCEPT ![t] = "publishing"] /\ rest' = [rest EXCEPT ![t] = subs]
  BY DEF RLock, Goto, postVars
<1>2. /\ handler'[t] = "publishing" /\ \A u \in Ticks \ {t} : handler'[u] = handler[u]
      /\ rest'[t] = subs /\ \A u \in Ticks \ {t} : rest'[u] = rest[u]
  BY <1>0, <1>1
<1>3. PostOrder'
  BY <1>0, <1>1, <1>2 DEF PostOrder
<1>4. Lists'
  BY <1>0, <1>1, <1>2 DEF Lists, Listed, watchVars, Among
<1>5. Published' = Published \cup {t} /\ t \notin Published
  BY <1>1, <1>2 DEF Published
<1>6. ASSUME NEW w \in Watchers PROVE ViewOf(w)'
  <2>1. Sent(w)' = Sent(w) /\ UNCHANGED <<watcher, ch, seen, dropped, missed, broken>>
    BY <1>1 DEF Sent, watchVars
  <2>2. ToCome(w)' = IF Among(subs, w) THEN ToCome(w) \cup {t} ELSE ToCome(w)
    <3>1. w \in ToSet(subs) <=> Among(subs, w)
      BY <1>0, AmongIs
    <3>2. t \notin Publishing /\ Publishing' = Publishing \cup {t} /\ Publishing \subseteq Ticks
      BY <1>1, <1>2 DEF Publishing
    <3> QED
      BY <1>2, <3>1, <3>2 DEF ToCome
  <2>3. watcher[w] \in {"watching", "leaving"} => Among(subs, w)
    BY <1>0 DEF Lists
  <2>4. ViewOf(w)
    BY DEF ViewInv
  <2>5. ToSet(Sent(w)) \subseteq Published /\ ToSet(Sent(w)) \cap ToCome(w) = {}
    BY <2>4 DEF ViewOf
  <2>6. t \notin ToSet(Sent(w))
    BY <1>5, <2>5
  <2>7. watcher[w] \in {"watching", "leaving"} =>
          Published' = missed[w] \cup ToSet(Sent(w)) \cup dropped[w] \cup ToCome(w)'
    BY <1>5, <2>2, <2>3, <2>4 DEF ViewOf
  <2>8. ToSet(Sent(w)) \subseteq Published' /\ ToSet(Sent(w)) \cap ToCome(w)' = {}
    BY <1>5, <2>2, <2>5, <2>6
  <2> QED
    BY <2>1, <2>4, <2>7, <2>8 DEF ViewOf
<1> QED
  BY <1>3, <1>4, <1>6 DEF ViewInv

\* A delivery is the tick's only one to that watcher, into its channel or nowhere.
LEMMA DeliverViews ==
  ASSUME FeedInv, DataTypes, ViewInv, NEW t \in Ticks, Deliver(t)
  PROVE  ViewInv'
<1>0. /\ handler \in [Ticks -> Handlers] /\ rest \in [Ticks -> Seq(Watchers)]
      /\ subs \in Seq(Watchers) /\ Listed /\ PostOrder /\ Lists
      /\ ch \in [Watchers -> Seq(Ticks)] /\ seen \in [Watchers -> Seq(Ticks)]
      /\ dropped \in [Watchers -> SUBSET Ticks]
  BY DEF FeedInv, BrokerTypes, DataTypes, ViewInv
<1>1. /\ handler[t] = "publishing" /\ rest[t] # <<>> /\ rest[t] \in Seq(Watchers)
      /\ rest' = [rest EXCEPT ![t] = Tail(rest[t])]
      /\ UNCHANGED <<handler, subs, posted, broken, watcher, seen, missed>>
  BY <1>0 DEF Deliver, postVars
<1>2. PICK w \in Watchers : w = Head(rest[t])
  BY <1>1, HeadTail
<1>3. w \in open
  <2>1. Among(rest[t], w)
    BY <1>1, <1>2, HeadTail
  <2>2. Among(subs, w)
    BY <1>0, <1>1, <2>1 DEF Listed
  <2> QED
    BY <1>0, <2>2 DEF Listed, FeedInv, OpenChannels
<1>4. \/ /\ Len(ch[w]) < Buffer /\ ch' = [ch EXCEPT ![w] = Append(ch[w], t)]
         /\ UNCHANGED dropped
      \/ /\ dropped' = [dropped EXCEPT ![w] = dropped[w] \cup {t}] /\ UNCHANGED ch
  BY <1>2, <1>3 DEF Deliver
<1>5. /\ rest'[t] = Tail(rest[t]) /\ \A u \in Ticks \ {t} : rest'[u] = rest[u]
  BY <1>0, <1>1
\* The publisher has the others still before it, and w no longer.
<1> DEFINE left == Tail(rest[t])
<1>6. /\ left \in Seq(Watchers) /\ Len(left) = Len(rest[t]) - 1 /\ Len(rest[t]) \in Nat
      /\ \A i \in 1 .. Len(left) : left[i] = rest[t][i + 1]
      /\ Len(rest[t]) >= 1 /\ rest[t][1] = w
  BY <1>1, <1>2, HeadTailProperties, LenProperties, EmptySeq
<1>7. \A i, j \in 1 .. Len(rest[t]) : rest[t][i] = rest[t][j] => i = j
  BY <1>0, <1>1 DEF Lists
<1>n. PICK n \in Nat : n = Len(left)
  BY <1>6
<1> HIDE DEF left
<1>8. /\ \A i, j \in 1 .. n : left[i] = left[j] => i = j
      /\ \A i \in 1 .. n : left[i] # w
  <2>1. \A i \in 1 .. n : i + 1 \in 1 .. Len(rest[t]) /\ i + 1 # 1
    BY <1>6, <1>n
  <2>2. 1 \in 1 .. Len(rest[t])
    BY <1>6
  <2>3. \A i \in 1 .. n : left[i] # w
    BY <1>6, <1>7, <1>n, <2>1, <2>2
  <2>4. \A i, j \in 1 .. n : left[i] = left[j] => i + 1 = j + 1
    BY <1>6, <1>7, <1>n, <2>1
  <2> QED
    BY <2>3, <2>4
<1>9. /\ \A v : Among(left, v) => Among(rest[t], v) /\ v # w
      /\ \A v : Among(rest[t], v) => v = w \/ Among(left, v)
  <2>1. ASSUME NEW i \in 1 .. Len(rest[t]), i # 1
        PROVE  i - 1 \in 1 .. n /\ rest[t][i] = left[i - 1]
    <3>1. i - 1 \in 1 .. n /\ (i - 1) + 1 = i
      BY <1>6, <1>n, <2>1
    <3> QED
      BY <1>6, <1>n, <3>1
  <2>2. \A v : Among(rest[t], v) => v = w \/ Among(left, v)
    BY <1>6, <1>n, <2>1 DEF Among
  <2>3. \A v : Among(left, v) => Among(rest[t], v)
    BY <1>1, HeadTail DEF left
  <2>4. ~Among(left, w)
    BY <1>8, <1>n DEF Among
  <2> QED
    BY <2>2, <2>3, <2>4
<1>10. /\ \A v \in Watchers \ {w} : ToCome(v)' = ToCome(v)
       /\ ToCome(w)' = ToCome(w) \ {t} /\ t \in ToCome(w)
  <2>1. /\ \A v : v \in ToSet(rest[t]) <=> Among(rest[t], v)
        /\ \A v : v \in ToSet(left) <=> Among(left, v)
    BY <1>1, <1>6, AmongIs
  <2>2. /\ \A v \in Watchers \ {w} : v \in ToSet(left) <=> v \in ToSet(rest[t])
        /\ w \notin ToSet(left) /\ w \in ToSet(rest[t])
    <3>1. Among(rest[t], w)
      BY <1>1, <1>2, HeadTail
    <3> QED
      BY <1>9, <2>1, <3>1
  <2>3. t \in Publishing /\ Publishing' = Publishing /\ Publishing \subseteq Ticks
    BY <1>1 DEF Publishing
  <2>4. rest'[t] = left
    BY <1>5 DEF left
  <2>5. \A v \in Watchers \ {w} : ToCome(v)' = ToCome(v)
    BY <1>5, <2>2, <2>3, <2>4 DEF ToCome
  <2>6. ToCome(w)' = ToCome(w) \ {t} /\ t \in ToCome(w)
    BY <1>5, <2>2, <2>3, <2>4 DEF ToCome
  <2> QED
    BY <2>5, <2>6
<1>11. PostOrder'
  BY <1>0, <1>1 DEF PostOrder
<1>12. Lists'
  <2>1. \A v \in Watchers : watcher'[v] \in {"watching", "leaving", "removing"} => Among(subs', v)
    BY <1>0, <1>1 DEF Lists
  <2>2. \A i, j \in 1 .. Len(rest'[t]) : rest'[t][i] = rest'[t][j] => i = j
    BY <1>5, <1>8, <1>n DEF left
  <2>3. \A u \in Ticks : handler'[u] = "publishing" =>
          \A i, j \in 1 .. Len(rest'[u]) : rest'[u][i] = rest'[u][j] => i = j
    BY <1>0, <1>1, <1>5, <2>2 DEF Lists
  <2> QED
    BY <2>1, <2>3 DEF Lists
<1>13. Published' = Published
  BY <1>1 DEF Published
<1>14. ASSUME NEW v \in Watchers \ {w} PROVE ViewOf(v)'
  <2>1. ch'[v] = ch[v] /\ dropped'[v] = dropped[v]
    BY <1>0, <1>4
  <2> QED
    BY <1>1, <1>10, <1>13, <2>1, ViewStays DEF ViewInv
<1>15. ViewOf(w)'
  <2>0. ViewOf(w)
    BY DEF ViewInv
  <2>s. PICK s \in Seq(Ticks) : s = Sent(w)
    BY <1>0, ConcatProperties DEF Sent
  <2>1. t \in Published /\ t \notin ToSet(s)
    BY <1>1, <1>10, <2>0, <2>s DEF Published, ViewOf
  <2>2. watcher[w] # "out"
    <3>1. Among(rest[t], w)
      BY <1>1, <1>2, HeadTail
    <3> QED
      BY <1>0, <1>1, <3>1 DEF Listed
  <2>3. CASE Len(ch[w]) < Buffer /\ ch' = [ch EXCEPT ![w] = Append(ch[w], t)] /\ UNCHANGED dropped
    <3>1. ch[w] \in Seq(Ticks) /\ seen[w] \in Seq(Ticks) /\ ch'[w] = Append(ch[w], t)
      BY <1>0, <2>3
    <3>2. Sent(w)' = Append(s, t)
      <4>1. Sent(w)' = seen[w] \o Append(ch[w], t)
        BY <1>1, <3>1 DEF Sent
      <4>2. s = seen[w] \o ch[w]
        BY <2>s DEF Sent
      <4> QED
        BY <3>1, <4>1, <4>2, SentGrows, Zenon
    <3>3. Len(ch'[w]) <= Buffer
      <4>1. Len(ch[w]) \in Nat /\ Len(ch'[w]) = Len(ch[w]) + 1
        BY <3>1, AppendProperties, LenProperties
      <4> QED
        BY <2>3, <4>1, FeedAssumption
    <3>4. broken = 0 => \A u \in ToSet(s) : u < t
      <4> SUFFICES ASSUME broken = 0, NEW u \in ToSet(s) PROVE u < t
        OBVIOUS
      <4>1. u \in Published /\ u # t /\ u \in Ticks
        BY <2>0, <2>1, <2>s DEF ViewOf, Published
      <4>2. t = posted /\ handler[u] # "none"
        BY <1>0, <1>1, <4>1 DEF PostOrder, Published
      <4>3. ~(u > posted)
        BY <1>0, <4>1, <4>2 DEF PostOrder
      <4> QED
        BY <4>1, <4>2, <4>3 DEF Ticks
    <3>5. IsInjective(s) /\ (broken = 0 => Ascending(s)) /\ ToSet(s) \subseteq Published
      BY <2>0, <2>s DEF ViewOf
    <3>6. /\ IsInjective(Append(s, t)) /\ ToSet(Append(s, t)) = ToSet(s) \cup {t}
          /\ broken = 0 => Ascending(Append(s, t))
      BY <2>1, <3>4, <3>5, AppendNew
    <3>7. ToSet(s) \cap ToCome(w) = {}
      BY <2>0, <2>s DEF ViewOf
    <3>8. watcher[w] \in {"watching", "leaving"} =>
            Published = missed[w] \cup ToSet(s) \cup dropped[w] \cup ToCome(w)
      BY <2>0, <2>s DEF ViewOf
    <3>9. /\ ToSet(s) \cup {t} \subseteq Published
          /\ (ToSet(s) \cup {t}) \cap ToCome(w)' = {}
          /\ watcher[w] \in {"watching", "leaving"} =>
               Published = missed[w] \cup (ToSet(s) \cup {t}) \cup dropped[w] \cup ToCome(w)'
      BY <1>10, <2>1, <3>5, <3>7, <3>8
    <3> QED
      BY <1>1, <1>13, <2>2, <2>3, <3>2, <3>3, <3>6, <3>9 DEF ViewOf
  <2>4. CASE dropped' = [dropped EXCEPT ![w] = dropped[w] \cup {t}] /\ UNCHANGED ch
    <3>1. Sent(w)' = s /\ dropped'[w] = dropped[w] \cup {t}
      BY <1>0, <1>1, <2>4, <2>s DEF Sent
    <3>2. /\ ToSet(s) \cap ToCome(w)' = {}
          /\ watcher[w] \in {"watching", "leaving"} =>
               Published = missed[w] \cup ToSet(s) \cup dropped'[w] \cup ToCome(w)'
      BY <1>10, <2>0, <2>1, <2>s, <3>1 DEF ViewOf
    <3> QED
      BY <1>1, <1>13, <2>0, <2>2, <2>4, <2>s, <3>1, <3>2 DEF ViewOf
  <2> QED
    BY <1>4, <2>3, <2>4
<1> QED
  BY <1>11, <1>12, <1>14, <1>15 DEF ViewInv

\* A publisher that is through has nobody before it, and an insert is not seen.
LEMMA UnlockViews ==
  ASSUME FeedInv, DataTypes, ViewInv, NEW t \in Ticks, RUnlock(t) \/ Persist(t)
  PROVE  ViewInv'
<1>0. /\ handler \in [Ticks -> Handlers] /\ PostOrder /\ Lists
  BY DEF FeedInv, BrokerTypes, ViewInv
<1>1. /\ UNCHANGED <<rest, subs, posted, broken, watchVars>>
      /\ handler[t] \in {"publishing", "storing"}
      /\ handler[t] = "publishing" => rest[t] = <<>>
  BY DEF RUnlock, Persist, postVars
<1>2. PICK l \in {"storing", "ended"} : handler' = [handler EXCEPT ![t] = l]
  BY DEF RUnlock, Persist, Goto
<1>3. handler'[t] = l /\ \A u \in Ticks \ {t} : handler'[u] = handler[u]
  BY <1>0, <1>2
<1>4. PostOrder'
  BY <1>0, <1>1, <1>3 DEF PostOrder
<1>5. Lists'
  BY <1>0, <1>1, <1>3 DEF Lists, watchVars, Among
<1>6. Published' = Published
  BY <1>1, <1>3 DEF Published
<1>7. ASSUME NEW w \in Watchers PROVE ViewOf(w)'
  <2>1. Publishing' = Publishing \ {t} /\ (t \in Publishing => w \notin ToSet(rest[t]))
    BY <1>1, <1>3 DEF Publishing, ToSet
  <2>2. ToCome(w)' = ToCome(w)
    BY <1>1, <2>1 DEF ToCome
  <2> QED
    BY <1>1, <1>6, <2>2, ViewStays DEF ViewInv, watchVars
<1> QED
  BY <1>4, <1>5, <1>7 DEF ViewInv

\* A watcher subscribes when nobody publishes, and takes its ticks in order.
LEMMA WatchViews ==
  ASSUME FeedInv, DataTypes, ViewInv, NEW w \in Watchers, Watch(w)
  PROVE  ViewInv'
<1>0. /\ subs \in Seq(Watchers) /\ watcher \in [Watchers -> Stages]
      /\ Mutex /\ Listed /\ PostOrder /\ Lists
      /\ ch \in [Watchers -> Seq(Ticks)] /\ seen \in [Watchers -> Seq(Ticks)]
      /\ missed \in [Watchers -> SUBSET Ticks]
  BY DEF FeedInv, BrokerTypes, DataTypes, ViewInv
<1>1. UNCHANGED <<handler, rest, posted, broken, dropped>>
  BY DEF Watch, Cleanup, Subscribe, Receive, ClientGone, LockToLeave, Delist, Close,
         postVars, brokerVars
<1>2. PostOrder'
  BY <1>0, <1>1 DEF PostOrder
<1>3. /\ Published' = Published /\ \A v \in Watchers : ToCome(v)' = ToCome(v)
  BY <1>1 DEF Published, ToCome, Publishing
<1>4. CASE Subscribe(w)
  <2>1. /\ watcher[w] = "out" /\ watcher' = [watcher EXCEPT ![w] = "watching"]
        /\ Publishing = {} /\ subs' = Append(subs, w) /\ UNCHANGED <<ch, seen>>
        /\ missed' = [missed EXCEPT ![w] = {t \in Ticks : handler[t] \in {"storing", "ended"}}]
    BY <1>4 DEF Subscribe, WatchStep, Unlocked
  <2>2. /\ Len(subs') = Len(subs) + 1 /\ subs'[Len(subs) + 1] = w
        /\ Len(subs) \in Nat /\ \A i \in 1 .. Len(subs) : subs'[i] = subs[i]
    BY <1>0, <2>1
  <2>3. /\ watcher'[w] = "watching" /\ \A v \in Watchers \ {w} : watcher'[v] = watcher[v]
        /\ missed'[w] = {t \in Ticks : handler[t] \in {"storing", "ended"}}
        /\ \A v \in Watchers \ {w} : missed'[v] = missed[v]
    BY <1>0, <2>1
  <2>4. Among(subs', w) /\ \A v : Among(subs, v) => Among(subs', v)
    BY <2>2 DEF Among
  <2>5. Lists'
    BY <1>0, <1>1, <2>3, <2>4 DEF Lists
  <2>6. ViewOf(w)'
    <3>1. Published = missed'[w] /\ ToCome(w) = {}
      BY <2>1, <2>3 DEF Published, Publishing, ToCome
    <3>2. ViewOf(w) /\ seen[w] = <<>> /\ ch[w] = <<>> /\ dropped[w] = {}
      BY <2>1 DEF ViewInv, ViewOf
    <3>3. Sent(w)' = Sent(w) /\ Sent(w) = <<>>
      BY <2>1, <3>2 DEF Sent
    <3>4. ToSet(Sent(w)) = {}
      BY <3>3 DEF ToSet
    <3> QED
      BY <1>1, <1>3, <2>1, <2>3, <3>1, <3>2, <3>3, <3>4 DEF ViewOf
  <2>7. ASSUME NEW v \in Watchers \ {w} PROVE ViewOf(v)'
    BY <1>1, <1>3, <2>1, <2>3, ViewStays DEF ViewInv
  <2> QED
    BY <1>2, <2>5, <2>6, <2>7 DEF ViewInv
<1>5. CASE Receive(w)
  <2>1. /\ ch[w] # <<>> /\ UNCHANGED <<watcher, missed, subs>>
        /\ seen' = [seen EXCEPT ![w] = Append(seen[w], Head(ch[w]))]
        /\ ch' = [ch EXCEPT ![w] = Tail(ch[w])]
    BY <1>5 DEF Receive, brokerVars
  <2>2. /\ seen'[w] = Append(seen[w], Head(ch[w])) /\ ch'[w] = Tail(ch[w])
        /\ \A v \in Watchers \ {w} : seen'[v] = seen[v] /\ ch'[v] = ch[v]
    BY <1>0, <2>1
  <2>3. Lists'
    BY <1>0, <1>1, <2>1 DEF Lists, Among
  <2>4. ViewOf(w)'
    <3>1. ch[w] \in Seq(Ticks) /\ seen[w] \in Seq(Ticks)
      BY <1>0
    <3>2. Sent(w)' = Sent(w)
      BY <2>1, <2>2, <3>1, SentMoves DEF Sent
    <3>3. Len(ch[w]) \in Nat /\ Len(ch'[w]) = Len(ch[w]) - 1
      BY <2>1, <2>2, <3>1, HeadTailProperties, LenProperties
    <3>4. ViewOf(w) /\ Len(ch[w]) <= Buffer /\ Buffer \in Nat
      BY FeedAssumption DEF ViewInv, ViewOf
    <3>5. Len(ch'[w]) <= Buffer
      BY <3>3, <3>4
    <3>6. watcher[w] = "watching"
      BY <1>5 DEF Receive
    <3> QED
      BY <1>1, <1>3, <2>1, <3>2, <3>4, <3>5, <3>6 DEF ViewOf
  <2>5. ASSUME NEW v \in Watchers \ {w} PROVE ViewOf(v)'
    BY <1>1, <1>3, <2>1, <2>2, ViewStays DEF ViewInv
  <2> QED
    BY <1>2, <2>3, <2>4, <2>5 DEF ViewInv
\* Leaving changes no view; only delisting changes the list.
<1>6. CASE ClientGone(w) \/ LockToLeave(w) \/ Delist(w) \/ Close(w)
  <2>1. UNCHANGED <<ch, seen, missed>>
    BY <1>6 DEF ClientGone, LockToLeave, Delist, Close
  <2>2. \E from, to \in Stages :
          /\ watcher[w] = from /\ watcher' = [watcher EXCEPT ![w] = to] /\ to # "out"
          /\ to \in {"watching", "leaving"} => from \in {"watching", "leaving"}
          /\ to \in {"watching", "leaving", "removing"} =>
               from \in {"watching", "leaving", "removing"} /\ subs' = subs
          /\ subs' = subs \/ (to = "closing" /\ Delist(w))
    BY <1>6 DEF ClientGone, LockToLeave, Delist, Close, WatchStep, Stages, brokerVars
  <2>3. PICK to \in Stages :
          /\ watcher'[w] = to /\ \A v \in Watchers \ {w} : watcher'[v] = watcher[v]
          /\ to # "out"
          /\ to \in {"watching", "leaving"} => watcher[w] \in {"watching", "leaving"}
          /\ to \in {"watching", "leaving", "removing"} =>
               watcher[w] \in {"watching", "leaving", "removing"} /\ subs' = subs
          /\ subs' = subs \/ (to = "closing" /\ Delist(w))
    BY <1>0, <2>2
  <2>4. \A v \in Watchers \ {w} : Among(subs, v) => Among(subs', v)
    <3>1. CASE subs' = subs
      BY <3>1
    <3>2. CASE Delist(w)
      <4>1. PICK k \in 1 .. Len(subs) : subs[k] = w /\ subs' = RemoveAt(subs, k)
        BY <1>0, <3>2 DEF Delist
      <4>2. \A i \in 1 .. Len(subs) : i # k => Among(subs', subs[i])
        BY <1>0, <4>1, Kept
      <4> QED
        BY <4>1, <4>2 DEF Among
    <3> QED
      BY <2>3, <3>1, <3>2
  <2>5. Lists'
    <3>1. \A v \in Watchers : watcher'[v] \in {"watching", "leaving", "removing"} => Among(subs', v)
      BY <1>0, <2>3, <2>4 DEF Lists
    <3> QED
      BY <1>0, <1>1, <3>1 DEF Lists
  <2>6. ASSUME NEW v \in Watchers PROVE ViewOf(v)'
    <3>1. /\ watcher'[v] = "out" => watcher[v] = "out"
          /\ watcher'[v] \in {"watching", "leaving"} => watcher[v] \in {"watching", "leaving"}
      BY <2>3
    <3> QED
      BY <1>1, <1>3, <2>1, <3>1, ViewStays DEF ViewInv
  <2> QED
    BY <1>2, <2>5, <2>6 DEF ViewInv
<1> QED
  BY <1>4, <1>5, <1>6 DEF Watch, Cleanup

\* At the start there is nothing to see.
LEMMA ViewInit ==
  ASSUME Init
  PROVE  ViewInv
<1>1. Published = {} /\ Publishing = {}
  BY DEF Init, Published, Publishing
<1>2. PostOrder /\ Lists
  BY DEF Init, PostOrder, Lists
<1>3. ASSUME NEW w \in Watchers PROVE ViewOf(w)
  <2>1. seen[w] = <<>> /\ ch[w] = <<>> /\ dropped[w] = {} /\ watcher[w] = "out"
    BY DEF Init
  <2>2. Sent(w) = <<>> /\ Len(Sent(w)) = 0 /\ Len(ch[w]) = 0 /\ DOMAIN Sent(w) = {}
    BY <2>1 DEF Sent
  <2>3. ToSet(Sent(w)) = {} /\ IsInjective(Sent(w)) /\ Ascending(Sent(w))
    BY <2>2 DEF ToSet, IsInjective, Ascending
  <2>4. Len(ch[w]) <= Buffer
    BY <2>2, FeedAssumption
  <2> QED
    BY <2>1, <2>3, <2>4 DEF ViewOf
<1> QED
  BY <1>2, <1>3 DEF ViewInv

\* It holds of every state.
LEMMA ViewInvariant == Spec => []ViewInv
<1>1. FeedInv /\ DataTypes /\ ViewInv /\ [Next]_vars => ViewInv'
  <2> SUFFICES ASSUME FeedInv, DataTypes, ViewInv, [Next]_vars PROVE ViewInv'
    OBVIOUS
  <2>1. CASE Coordinator
    BY <2>1, CoordinatorViews
  <2>2. ASSUME NEW t \in Ticks, Publish(t) PROVE ViewInv'
    BY <2>2, LockViews, DeliverViews, UnlockViews DEF Publish
  <2>3. ASSUME NEW t \in Ticks, Persist(t) PROVE ViewInv'
    BY <2>3, UnlockViews
  <2>4. ASSUME NEW w \in Watchers, Watch(w) PROVE ViewInv'
    BY <2>4, WatchViews
  <2>5. CASE UNCHANGED vars
    <3>1. UNCHANGED <<handler, rest, subs, posted, broken, watchVars>>
      BY <2>5 DEF vars, postVars, brokerVars
    <3>2. Published' = Published /\ \A w \in Watchers : ToCome(w)' = ToCome(w)
      BY <3>1 DEF Published, ToCome, Publishing
    <3>3. PostOrder' /\ Lists'
      BY <3>1 DEF ViewInv, PostOrder, Lists, watchVars, Among
    <3>4. \A w \in Watchers : ViewOf(w)'
      BY <3>1, <3>2, ViewStays DEF ViewInv, watchVars
    <3> QED
      BY <3>3, <3>4 DEF ViewInv
  <2> QED
    BY <2>1, <2>2, <2>3, <2>4, <2>5 DEF Next, Quiet
<1> QED
  BY <1>1, ViewInit, FeedInvariant, DataInvariant, PTL DEF Spec

\* For any watchers, ticks and buffer: who stays sees every tick that was published
\* since, but for those its full buffer lost, each once, and in order as long as
\* no post broke.
THEOREM WatchersSeeEveryTick == Spec => []WatcherView
<1>1. ViewInv => WatcherView
  BY DEF ViewInv, ViewOf, WatcherView, Published, Ascending
<1> QED
  BY <1>1, ViewInvariant, PTL
-----------------------------------------------------------------------------
(***************************************************************************)
(* ReplayMatchesFeed                                                       *)
(***************************************************************************)

\* The table: one row of each second whose handler has ended, but for those whose
\* insert failed, with the requests of that second.
Stored ==
  /\ rows \in Seq(Rows)
  /\ \A i \in 1 .. Len(rows) : rows[i].total = Total[rows[i].elapsed]
  /\ \A i, j \in 1 .. Len(rows) : rows[i].elapsed = rows[j].elapsed => i = j
  /\ \A t \in Ticks : handler[t] = "ended" /\ t \notin unstored
                        <=> \E i \in 1 .. Len(rows) : rows[i].elapsed = t
  /\ \A t \in unstored : handler[t] = "ended"

\* The list of n elements of S that a sort returns.
Sorted(S, n) == {s \in [1 .. n -> S] : \A i, j \in DOMAIN s : i < j => s[i] < s[j]}

\* Every set of ticks can be sorted: an element's place is the number of
\* elements up to it.
LEMMA SortExists ==
  ASSUME NEW S \in SUBSET Ticks
  PROVE  /\ IsFiniteSet(S) /\ Cardinality(S) \in Nat
         /\ Sorted(S, Cardinality(S)) # {}
<1> DEFINE n == Cardinality(S)
           below(t) == {u \in S : u <= t}
           place == [t \in S |-> Cardinality(below(t))]
           s == [i \in 1 .. n |-> CHOOSE t \in S : place[t] = i]
<1>1. S \subseteq Int /\ \A t, u \in S : t \in Int /\ u \in Int
  BY FeedConstants DEF Ticks
<1>o. \A t, u \in S : t < u \/ t = u \/ u < t
  <2>1. \A t, u \in Int : t < u \/ t = u \/ u < t
    OBVIOUS
  <2> QED
    BY <1>1, <2>1
<1>2. IsFiniteSet(S) /\ n \in Nat
  <2>1. IsFiniteSet(Ticks)
    BY FeedConstants, FS_Interval DEF Ticks
  <2> QED
    BY <2>1, FS_Subset, FS_CardinalityType
<1>3. ASSUME NEW t \in S
      PROVE  IsFiniteSet(below(t)) /\ Cardinality(below(t)) \in 1 .. n
  <2>1. below(t) \in SUBSET S /\ t \in below(t)
    BY <1>1
  <2>2. IsFiniteSet(below(t)) /\ Cardinality(below(t)) <= n
    BY <1>2, <2>1, FS_Subset
  <2>3. Cardinality(below(t)) \in Nat /\ Cardinality(below(t)) # 0
    BY <2>1, <2>2, FS_CardinalityType, FS_EmptySet
  <2> QED
    BY <1>2, <2>2, <2>3
<1>4. ASSUME NEW t \in S, NEW u \in S, t < u
      PROVE  place[t] < place[u]
  <2>1. below(t) \in SUBSET below(u)
    <3>1. ASSUME NEW v \in S, v <= t PROVE v <= u
      <4>1. t \in Int /\ u \in Int /\ v \in Int
        BY <1>1
      <4> QED
        BY <1>4, <3>1, <4>1
    <3> QED
      BY <3>1
  <2>o. u \in below(u) /\ u \notin below(t)
    <3>1. t \in Int /\ u \in Int
      BY <1>1
    <3>2. u <= u /\ ~(u <= t)
      BY <1>4, <3>1
    <3> QED
      BY <3>2
  <2>2. /\ Cardinality(below(t)) <= Cardinality(below(u))
        /\ Cardinality(below(t)) # Cardinality(below(u))
    BY <1>3, <2>1, <2>o, FS_Subset
  <2> HIDE DEF below
  <2>3. Cardinality(below(t)) \in 1 .. n /\ Cardinality(below(u)) \in 1 .. n
    BY <1>3
  <2> QED
    BY <1>2, <2>2, <2>3
<1>5. place \in [S -> 1 .. n]
  BY <1>3
<1> HIDE DEF place, below, n
<1>6. place \in Injection(S, 1 .. n)
  <2>1. ASSUME NEW t \in S, NEW u \in S, place[t] = place[u] PROVE t = u
    <3>1. place[t] \in Int /\ place[u] \in Int
      BY <1>2, <1>5
    <3>2. ~(t < u) /\ ~(u < t)
      <4>1. ~(place[t] < place[u]) /\ ~(place[u] < place[t])
        BY <2>1, <3>1
      <4> QED
        BY <1>4, <4>1
    <3> QED
      BY <1>o, <3>2
  <2> QED
    BY <1>5, <2>1 DEF Injection, IsInjective
<1>7. \A i \in 1 .. n : \E t \in S : place[t] = i
  <2>1. IsFiniteSet(1 .. n) /\ Cardinality(1 .. n) = Cardinality(S)
    BY <1>2, FS_Interval DEF n
  <2>2. place \in Surjection(S, 1 .. n)
    BY <1>6, <2>1, FS_Injection
  <2> QED
    BY <2>2 DEF Surjection
<1>8. s \in [1 .. n -> S] /\ \A i \in 1 .. n : place[s[i]] = i
  BY <1>7
<1> HIDE DEF s
<1>9. ASSUME NEW i \in 1 .. n, NEW j \in 1 .. n, i < j
      PROVE  s[i] < s[j]
  <2>1. s[i] \in S /\ s[j] \in S /\ place[s[i]] = i /\ place[s[j]] = j
    BY <1>8
  <2>2. ~(j < i) /\ i # j
    BY <1>2, <1>9
  <2>3. ~(s[j] < s[i]) /\ s[i] # s[j]
    BY <1>4, <2>1, <2>2
  <2> QED
    BY <1>o, <2>1, <2>3
<1>10. s \in Sorted(S, n)
  BY <1>8, <1>9 DEF Sorted
<1> QED
  BY <1>2, <1>10 DEF n

\* A sorted list has every element once.
LEMMA SortIsComplete ==
  ASSUME NEW S \in SUBSET Ticks, NEW s \in Sorted(S, Cardinality(S))
  PROVE  s \in Bijection(1 .. Cardinality(S), S)
<1> DEFINE n == Cardinality(S)
<1>1. IsFiniteSet(S) /\ n \in Nat
  BY SortExists
<1>2. s \in [1 .. n -> S] /\ \A i, j \in 1 .. n : i < j => s[i] < s[j]
  BY DEF Sorted
<1>3. \A t \in S : t \in Nat
  BY FeedConstants DEF Ticks
<1> HIDE DEF n
<1>4. \A i, j \in 1 .. n : s[i] = s[j] => i = j
  <2>1. \A i \in 1 .. n : s[i] \in Nat
    BY <1>2, <1>3
  <2> QED
    BY <1>1, <1>2, <2>1
<1>5. s \in Injection(1 .. n, S)
  BY <1>2, <1>4 DEF Injection, IsInjective
<1>6. Cardinality(1 .. n) = Cardinality(S)
  BY <1>1, FS_Interval DEF n
<1>7. s \in Surjection(1 .. n, S)
  BY <1>1, <1>5, <1>6, FS_Injection
<1> QED
  BY <1>5, <1>7 DEF Bijection, n

\* ORDER BY: the rows again, each once, in the order of their seconds.
LEMMA RowsInOrder ==
  ASSUME Stored
  PROVE  LET n == Len(rows)
             second == [i \in 1 .. n |-> ByElapsed[i].elapsed]
         IN  /\ n \in Nat /\ DOMAIN ByElapsed = 1 .. n
             /\ \A i \in 1 .. n : ByElapsed[i].total = Total[second[i]]
             /\ second \in [1 .. n -> Ticks]
             /\ \A t \in Ticks : t \notin Missing <=> \E i \in 1 .. n : second[i] = t
             /\ \A i, j \in 1 .. n : i < j => second[i] < second[j]
<1> DEFINE n == Len(rows)
           R == {rows[i].elapsed : i \in 1 .. n}
           at == [i \in 1 .. n |-> rows[i].elapsed]
           InOrder(p) == \A i, j \in DOMAIN rows :
                           i < j => rows[p[i]].elapsed <= rows[p[j]].elapsed
<1>1. n \in Nat /\ DOMAIN rows = 1 .. n /\ rows \in Seq(Rows)
  BY DEF Stored
<1>2. \A i \in 1 .. n : rows[i] \in Rows /\ rows[i].elapsed \in Ticks
  <2>1. \A i \in 1 .. n : rows[i] \in Rows
    BY <1>1
  <2> QED
    BY <2>1 DEF Rows
<1>s. /\ \A i \in 1 .. n : rows[i].total = Total[rows[i].elapsed]
      /\ \A i, j \in 1 .. n : rows[i].elapsed = rows[j].elapsed => i = j
      /\ \A t \in Ticks : t \notin Missing <=> \E i \in 1 .. n : rows[i].elapsed = t
  BY DEF Stored, Missing
<1>3. R \in SUBSET Ticks /\ at \in [1 .. n -> R]
  BY <1>2
<1>t. \A t \in Ticks : t \in Int
  BY FeedConstants DEF Ticks
<1>4. at \in Bijection(1 .. n, R)
  <2>1. \A i, j \in 1 .. n : at[i] = at[j] => i = j
    BY DEF Stored
  <2>2. \A t \in R : \E i \in 1 .. n : at[i] = t
    OBVIOUS
  <2> QED
    BY <1>3, <2>1, <2>2 DEF Bijection, Injection, Surjection, IsInjective
<1> HIDE DEF n
<1>5. Cardinality(R) = n
  <2>1. IsFiniteSet(1 .. n) /\ Cardinality(1 .. n) = n
    BY <1>1, FS_Interval
  <2> HIDE DEF R, at
  <2> QED
    BY <1>4, <2>1, FS_Bijection DEF ExistsBijection
<1>6. PICK s : s \in Sorted(R, n) /\ s \in Bijection(1 .. n, R)
  <2> HIDE DEF R, at
  <2>1. PICK s : s \in Sorted(R, Cardinality(R))
    BY <1>3, SortExists
  <2> QED
    BY <1>3, <1>5, <2>1, SortIsComplete
<1>7. \E p \in Bijection(DOMAIN rows, DOMAIN rows) : InOrder(p)
  <2> DEFINE q == [i \in 1 .. n |-> CHOOSE k \in 1 .. n : rows[k].elapsed = s[i]]
  <2>1. /\ \A i \in 1 .. n : s[i] \in R
        /\ \A i, j \in 1 .. n : s[i] = s[j] => i = j
        /\ \A t \in R : \E i \in 1 .. n : s[i] = t
        /\ \A i, j \in 1 .. n : i < j => s[i] < s[j]
    <3> HIDE DEF R, at
    <3> QED
      BY <1>6 DEF Sorted, Bijection, Injection, Surjection, IsInjective
  <2>2. q \in [1 .. n -> 1 .. n] /\ \A i \in 1 .. n : rows[q[i]].elapsed = s[i]
    BY <2>1
  <2> HIDE DEF q
  <2>3. \A i, j \in 1 .. n : q[i] = q[j] => i = j
    BY <2>1, <2>2
  <2>4. \A k \in 1 .. n : \E i \in 1 .. n : q[i] = k
    <3> SUFFICES ASSUME NEW k \in 1 .. n PROVE \E i \in 1 .. n : q[i] = k
      OBVIOUS
    <3>1. PICK i \in 1 .. n : s[i] = rows[k].elapsed
      BY <2>1
    <3>2. q[i] \in 1 .. n /\ rows[q[i]].elapsed = rows[k].elapsed
      BY <2>2, <3>1
    <3> QED
      BY <1>s, <3>2
  <2>5. q \in Bijection(1 .. n, 1 .. n)
    BY <2>2, <2>3, <2>4 DEF Bijection, Injection, Surjection, IsInjective
  <2>6. ASSUME NEW i \in 1 .. n, NEW j \in 1 .. n, i < j
        PROVE  rows[q[i]].elapsed <= rows[q[j]].elapsed
    <3>1. s[i] < s[j] /\ s[i] \in Int /\ s[j] \in Int
      BY <1>3, <1>t, <2>1, <2>6
    <3>2. s[i] <= s[j]
      BY <3>1
    <3> QED
      BY <2>2, <3>2
  <2> QED
    BY <1>1, <2>5, <2>6
<1>8. PICK p \in Bijection(1 .. n, 1 .. n) :
         InOrder(p) /\ ByElapsed = [i \in 1 .. n |-> rows[p[i]]]
  BY <1>1, <1>7 DEF ByElapsed
<1>9. /\ \A i \in 1 .. n : p[i] \in 1 .. n
      /\ \A i, j \in 1 .. n : p[i] = p[j] => i = j
      /\ \A k \in 1 .. n : \E i \in 1 .. n : p[i] = k
  BY DEF Bijection, Injection, Surjection, IsInjective
<1> DEFINE second == [i \in 1 .. n |-> ByElapsed[i].elapsed]
<1>10. DOMAIN ByElapsed = 1 .. n /\ \A i \in 1 .. n : ByElapsed[i] = rows[p[i]]
  BY <1>8
<1>11. \A i \in 1 .. n : second[i] = rows[p[i]].elapsed /\ second[i] \in Ticks
  BY <1>2, <1>9, <1>10
<1>12. \A i \in 1 .. n : ByElapsed[i].total = Total[second[i]]
  <2> SUFFICES ASSUME NEW i \in 1 .. n PROVE ByElapsed[i].total = Total[second[i]]
    OBVIOUS
  <2>1. p[i] \in 1 .. n /\ ByElapsed[i] = rows[p[i]] /\ second[i] = rows[p[i]].elapsed
    BY <1>9, <1>10, <1>11
  <2>2. rows[p[i]].total = Total[rows[p[i]].elapsed]
    BY <1>s, <2>1
  <2> HIDE DEF second
  <2> QED
    BY <2>1, <2>2
<1>13. \A t \in Ticks : t \notin Missing <=> \E i \in 1 .. n : second[i] = t
  <2> SUFFICES ASSUME NEW t \in Ticks PROVE t \notin Missing <=> \E i \in 1 .. n : second[i] = t
    OBVIOUS
  <2> HIDE DEF second
  <2>1. ASSUME NEW k \in 1 .. n, rows[k].elapsed = t PROVE \E i \in 1 .. n : second[i] = t
    <3>1. PICK i \in 1 .. n : p[i] = k
      BY <1>9
    <3> QED
      BY <1>11, <2>1, <3>1
  <2>2. ASSUME NEW i \in 1 .. n, second[i] = t PROVE \E k \in 1 .. n : rows[k].elapsed = t
    BY <1>9, <1>11, <2>2
  <2> QED
    BY <1>s, <2>1, <2>2
<1>14. ASSUME NEW i \in 1 .. n, NEW j \in 1 .. n, i < j PROVE second[i] < second[j]
  <2>1. second[i] <= second[j]
    BY <1>1, <1>8, <1>11, <1>14
  <2>2. second[i] # second[j]
    <3>1. i # j
      BY <1>1, <1>14
    <3>2. p[i] # p[j] /\ p[i] \in 1 .. n /\ p[j] \in 1 .. n
      BY <1>9, <3>1
    <3>3. rows[p[i]].elapsed # rows[p[j]].elapsed
      BY <1>s, <3>2
    <3> HIDE DEF second
    <3> QED
      BY <1>11, <3>3
  <2>3. second[i] \in Int /\ second[j] \in Int
    BY <1>11, <1>t
  <2> HIDE DEF second
  <2> QED
    BY <2>1, <2>2, <2>3
<1>15. second \in [1 .. n -> Ticks]
  BY <1>11
<1> QED
  BY <1>1, <1>10, <1>12, <1>13, <1>14, <1>15 DEF n

\* Sums over ticks: over two sets that share nothing, and of any finite set.
LEMMA RequestsAdd ==
  ASSUME NEW S \in SUBSET Ticks, NEW T \in SUBSET Ticks, S \cap T = {}
  PROVE  /\ Requests(S) \in Nat /\ Requests(T) \in Nat
         /\ Requests(S \cup T) = Requests(S) + Requests(T)
<1>1. IsFiniteSet(S) /\ IsFiniteSet(T)
  BY SortExists
<1>2. \A t \in Ticks : Total[t] \in Nat
  BY FeedAssumption DEF Ticks
<1>3. /\ SumFunction([t \in S |-> Total[t]]) \in Nat
      /\ SumFunction([t \in T |-> Total[t]]) \in Nat
  <2>1. [t \in S |-> Total[t]] \in [S -> Nat] /\ [t \in T |-> Total[t]] \in [T -> Nat]
    BY <1>2
  <2> QED
    BY <1>1, <2>1, SumType
<1>4. SumFunction([t \in S \cup T |-> Total[t]]) =
        SumFunction([t \in S |-> Total[t]]) + SumFunction([t \in T |-> Total[t]])
  <2>1. \A t \in S \cup T : Total[t] \in Nat
    BY <1>2
  <2> QED
    BY <1>1, <2>1, SumDisjoint
<1> QED
  BY <1>3, <1>4 DEF Requests

\* A replay of such a table is what the property says.
LEMMA ReplayRight == Stored => ReplayMatchesFeed
<1> SUFFICES ASSUME Stored PROVE ReplayMatchesFeed
  OBVIOUS
<1> DEFINE n == Len(rows)
           second == [i \in 1 .. n |-> ByElapsed[i].elapsed]
<1>1. /\ n \in Nat /\ DOMAIN ByElapsed = 1 .. n
      /\ \A i \in 1 .. n : ByElapsed[i].total = Total[second[i]]
      /\ second \in [1 .. n -> Ticks]
      /\ \A t \in Ticks : t \notin Missing <=> \E i \in 1 .. n : second[i] = t
      /\ \A i, j \in 1 .. n : i < j => second[i] < second[j]
  BY RowsInOrder
<1>2. \A i \in 1 .. n : ByElapsed[i].elapsed = second[i]
  OBVIOUS
<1> HIDE DEF n, second
<1>3. \A t \in Ticks : t \in Nat /\ t >= 1 /\ t <= Duration
  BY FeedConstants DEF Ticks
<1>4. /\ DOMAIN Replay = 1 .. n
      /\ \A i \in 1 .. n :
           /\ Replay[i].elapsed = second[i]
           /\ Replay[i].completed = SumFunction([j \in 1 .. i |-> ByElapsed[j].total])
  BY <1>1, <1>2 DEF Replay
<1>5. {Replay[i].elapsed : i \in DOMAIN Replay} = Ticks \ Missing
  <2>1. {Replay[i].elapsed : i \in DOMAIN Replay} = {second[i] : i \in 1 .. n}
    BY <1>4
  <2>2. \A t : t \in {second[i] : i \in 1 .. n} <=> t \in Ticks \ Missing
    BY <1>1
  <2> QED
    BY <2>1, <2>2
<1>6. ASSUME NEW i \in 1 .. n
      PROVE  Replay[i].completed = CompletedTotal(second[i]) - Requests(Missing \cap (1 .. second[i]))
  <2> DEFINE before == {u \in Ticks \ Missing : u <= second[i]}
             after == Missing \cap (1 .. second[i])
             part == [j \in 1 .. i |-> second[j]]
             total == [j \in 1 .. i |-> ByElapsed[j].total]
             counts == [t \in before |-> Total[t]]
  <2>1. i \in Nat /\ \A j \in 1 .. i : j \in 1 .. n /\ (j < i \/ j = i)
    BY <1>1
  <2>2. second[i] \in Ticks /\ second[i] \in Nat /\ second[i] <= Duration
    BY <1>1, <1>3
  <2>o. \A j, k \in 1 .. n : second[j] \in Nat /\ (second[j] <= second[k] => ~(k < j))
    <3> SUFFICES ASSUME NEW j \in 1 .. n, NEW k \in 1 .. n
                 PROVE  second[j] \in Nat /\ (second[j] <= second[k] => ~(k < j))
      OBVIOUS
    <3>1. second[j] \in Nat /\ second[k] \in Nat /\ (k < j => second[k] < second[j])
      BY <1>1, <1>3
    <3> QED
      BY <3>1
  <2>3. \A j \in 1 .. i : part[j] \in before
    <3> SUFFICES ASSUME NEW j \in 1 .. i PROVE second[j] \in before
      OBVIOUS
    <3>1. j \in 1 .. n /\ second[j] \in Ticks \ Missing
      BY <1>1, <2>1
    <3>2. second[j] = second[i] \/ second[j] < second[i]
      BY <1>1, <2>1
    <3>3. second[j] <= second[i]
      BY <2>2, <2>o, <3>1, <3>2
    <3> QED
      BY <3>1, <3>3
  <2>4. \A t \in before : \E j \in 1 .. i : part[j] = t
    <3> SUFFICES ASSUME NEW t \in before PROVE \E j \in 1 .. i : second[j] = t
      OBVIOUS
    <3>1. PICK j \in 1 .. n : second[j] = t
      BY <1>1
    <3>2. ~(i < j)
      BY <2>o, <3>1
    <3>3. j \in 1 .. i
      BY <1>1, <3>2
    <3> QED
      BY <3>1, <3>3
  <2>5. \A j, k \in 1 .. i : part[j] = part[k] => j = k
    <3> SUFFICES ASSUME NEW j \in 1 .. i, NEW k \in 1 .. i, second[j] = second[k] PROVE j = k
      OBVIOUS
    <3>1. j \in 1 .. n /\ k \in 1 .. n /\ j \in Int /\ k \in Int
      BY <2>1
    <3>2. second[j] <= second[k] /\ second[k] <= second[j]
      BY <2>o, <3>1
    <3>3. ~(k < j) /\ ~(j < k)
      BY <2>o, <3>1, <3>2
    <3> QED
      BY <3>1, <3>3
  <2>6. part \in Bijection(1 .. i, before)
    <3>1. part \in [1 .. i -> before]
      BY <2>3
    <3> HIDE DEF part, before
    <3> QED
      BY <2>4, <2>5, <3>1 DEF Bijection, Injection, Surjection, IsInjective
  <2>7. total \in [1 .. i -> Nat] /\ counts \in [before -> Nat]
        /\ \A j \in 1 .. i : total[j] = counts[part[j]]
    <3>1. \A t \in Ticks : Total[t] \in Nat
      BY FeedAssumption DEF Ticks
    <3>2. \A j \in 1 .. i : total[j] = Total[second[j]] /\ second[j] \in Ticks
      BY <1>1, <2>1
    <3> QED
      BY <2>3, <3>1, <3>2
  <2>8. SumFunction(total) = Requests(before)
    <3>1. IsFiniteSet(1 .. i)
      BY <2>1, FS_Interval
    <3> HIDE DEF part, total, counts, before
    <3>2. SumFunction(total) = SumFunction(counts)
      BY <2>6, <2>7, <3>1, SumRenamed
    <3> QED
      BY <3>2 DEF counts, Requests
  <2>r. \A u : u \in 1 .. second[i] <=> u \in Ticks /\ u <= second[i]
    <3>1. PICK m \in Nat : m = second[i]
      BY <2>2
    <3>2. \A u : u \in 1 .. m <=> u \in 1 .. Duration /\ u <= m
      BY <2>2, <3>1, FeedConstants
    <3> QED
      BY <3>1, <3>2 DEF Ticks
  <2>9. 1 .. second[i] = before \cup after /\ before \cap after = {}
    <3>1. \A u : u \in before <=> u \in 1 .. second[i] /\ u \notin Missing
      BY <2>r
    <3>2. \A u : u \in after <=> u \in 1 .. second[i] /\ u \in Missing
      OBVIOUS
    <3> HIDE DEF before, after
    <3> QED
      BY <3>1, <3>2
  <2>10. before \in SUBSET Ticks /\ after \in SUBSET Ticks
    BY <2>r
  <2> HIDE DEF before, after, total
  <2>11. /\ Requests(before) \in Nat /\ Requests(after) \in Nat
         /\ CompletedTotal(second[i]) = Requests(before) + Requests(after)
    BY <2>9, <2>10, RequestsAdd DEF CompletedTotal
  <2>12. Replay[i].completed = Requests(before)
    BY <1>4, <2>8 DEF total
  <2> QED
    BY <2>11, <2>12 DEF after
<1>7. \A i, j \in 1 .. n : i < j => Replay[i].elapsed < Replay[j].elapsed
  BY <1>1, <1>4
<1> HIDE DEF n
<1> QED
  BY <1>4, <1>5, <1>6, <1>7 DEF ReplayMatchesFeed

\* Each handler that ends adds one row, or is one whose insert failed.
LEMMA StoreInvariant == Spec => []Stored
<1>1. Init => Stored
  BY DEF Init, Stored
<1>2. FeedInv /\ DataTypes /\ PostOrder /\ Stored /\ [Next]_vars => Stored'
  <2> SUFFICES ASSUME FeedInv, DataTypes, PostOrder, Stored, [Next]_vars PROVE Stored'
    OBVIOUS
  <2>0. handler \in [Ticks -> Handlers] /\ posted \in Nat /\ unstored \subseteq Ticks
    BY FeedConstants DEF FeedInv, BrokerTypes, DataTypes
  <2>s. ASSUME UNCHANGED <<rows, unstored>>,
               \A u \in Ticks : handler'[u] = "ended" <=> handler[u] = "ended"
        PROVE  Stored'
    BY <2>0, <2>s DEF Stored
  <2>1. CASE Coordinator
    <3>1. PICK l \in {"arrived", "lost"} : handler' = [handler EXCEPT ![posted + 1] = l]
      BY <2>1 DEF Coordinator, Post, PostLost, PostBreaks, Goto
    <3>2. UNCHANGED <<rows, unstored>> /\ posted < Duration
      BY <2>1 DEF Coordinator, Post, PostLost, PostBreaks, dbVars
    <3>3. posted + 1 \in Ticks /\ handler[posted + 1] = "none"
      BY <2>0, <3>2, FeedConstants DEF PostOrder, Ticks
    <3>4. \A u \in Ticks : handler'[u] = "ended" <=> handler[u] = "ended"
      BY <2>0, <3>1, <3>3
    <3> QED
      BY <2>s, <3>2, <3>4
  <2>2. ASSUME NEW t \in Ticks, Publish(t) PROVE Stored'
    <3>1. \A u \in Ticks : handler'[u] = "ended" <=> handler[u] = "ended"
      BY <2>0, <2>2 DEF Publish, RLock, Deliver, RUnlock, Goto
    <3>2. UNCHANGED <<rows, unstored>>
      BY <2>2 DEF Publish, RLock, Deliver, RUnlock, dbVars
    <3> QED
      BY <2>s, <3>1, <3>2
  <2>3. ASSUME NEW t \in Ticks, Persist(t) PROVE Stored'
    <3>1. /\ \A u \in Ticks \ {t} : handler'[u] = handler[u]
          /\ handler[t] = "storing" /\ handler'[t] = "ended"
      BY <2>0, <2>3 DEF Persist, Goto
    <3>2. t \notin unstored /\ \A i \in 1 .. Len(rows) : rows[i].elapsed # t
      <4>1. handler[t] # "ended"
        BY <3>1
      <4> QED
        BY <4>1 DEF Stored
    <3>3. CASE unstored' = unstored \cup {t} /\ rows' = rows
      <4>1. \A u \in Ticks : handler'[u] = "ended" /\ u \notin unstored'
                               <=> handler[u] = "ended" /\ u \notin unstored
        BY <3>1, <3>3
      <4>2. \A u \in unstored' : handler'[u] = "ended"
        BY <2>0, <3>1, <3>3 DEF Stored
      <4> QED
        BY <3>3, <4>1, <4>2 DEF Stored
    <3>4. CASE rows' = Append(rows, Row(t)) /\ unstored' = unstored
      <4>1. Row(t) \in Rows /\ Row(t).elapsed = t /\ Row(t).total = Total[t]
        BY FeedAssumption DEF Row, Ticks, Rows
      <4>2. /\ rows' \in Seq(Rows) /\ Len(rows') = Len(rows) + 1
            /\ rows'[Len(rows) + 1] = Row(t) /\ \A i \in 1 .. Len(rows) : rows'[i] = rows[i]
        BY <3>4, <4>1 DEF Stored
      <4>3. Len(rows) \in Nat /\ 1 .. Len(rows') = 1 .. Len(rows) \cup {Len(rows) + 1}
        BY <4>2 DEF Stored
      <4>4. \A i \in 1 .. Len(rows') : rows'[i].total = Total[rows'[i].elapsed]
        BY <4>1, <4>2, <4>3 DEF Stored
      <4>5. \A i, j \in 1 .. Len(rows') : rows'[i].elapsed = rows'[j].elapsed => i = j
        <5>1. \A i, j \in 1 .. Len(rows) : rows[i].elapsed = rows[j].elapsed => i = j
          BY DEF Stored
        <5>2. \A i \in 1 .. Len(rows) : rows'[i].elapsed = rows[i].elapsed /\ rows[i].elapsed # t
          BY <3>2, <4>2
        <5>3. rows'[Len(rows) + 1].elapsed = t
          BY <4>1, <4>2
        <5> QED
          BY <4>3, <5>1, <5>2, <5>3
      <4>6. \A u \in Ticks : (\E i \in 1 .. Len(rows') : rows'[i].elapsed = u)
                               <=> u = t \/ \E i \in 1 .. Len(rows) : rows[i].elapsed = u
        BY <4>1, <4>2, <4>3
      <4>7. \A u \in Ticks : handler'[u] = "ended" /\ u \notin unstored'
                               <=> \E i \in 1 .. Len(rows') : rows'[i].elapsed = u
        BY <3>1, <3>2, <3>4, <4>6 DEF Stored
      <4>8. \A u \in unstored' : handler'[u] = "ended"
        BY <3>1, <3>4, <2>0 DEF Stored, DataTypes
      <4> QED
        BY <4>2, <4>4, <4>5, <4>7, <4>8 DEF Stored
    <3> QED
      BY <2>3, <3>3, <3>4 DEF Persist
  <2>4. ASSUME NEW w \in Watchers, Watch(w) PROVE Stored'
    <3>1. UNCHANGED <<handler, rows, unstored>>
      BY <2>4 DEF Watch, Cleanup, Subscribe, Receive, ClientGone, LockToLeave, Delist, Close,
         brokerVars, dbVars
    <3> QED
      BY <2>s, <3>1
  <2>5. CASE UNCHANGED vars
    BY <2>5, <2>s DEF vars, brokerVars, dbVars
  <2> QED
    BY <2>1, <2>2, <2>3, <2>4, <2>5 DEF Next, Quiet
<1>3. ViewInv => PostOrder
  BY DEF ViewInv
<1> QED
  BY <1>1, <1>2, <1>3, FeedInvariant, DataInvariant, ViewInvariant, PTL DEF Spec

\* For any run, whatever posts are lost, inserts fail or race: GetTicks gives back every
\* second that is stored, once and in order, and the total it computes for a second is
\* the live one less the requests of the earlier seconds that are not.
THEOREM ReplaysMatchTheFeed == Spec => []ReplayMatchesFeed
BY StoreInvariant, ReplayRight, PTL
=============================================================================
