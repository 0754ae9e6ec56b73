------------------------- MODULE WorkerEngine_proofs -------------------------
(***************************************************************************)
(* The load engine's safety for any number of connections, any duration    *)
(* and any answers of the target.                                          *)
(***************************************************************************)
EXTENDS WorkerEngineProps, SumTheorems, FiniteSetTheorems, TLAPS

\* The assumptions on the constants, one by one.
LEMMA Constants ==
  /\ IsFiniteSet(Conns) /\ None \notin Conns
  /\ Duration \in Nat /\ SampleEvery \in Nat /\ MaxBackoff \in Nat /\ MaxRequests \in Nat
  /\ RecordOnset \in BOOLEAN
  /\ Answers \subseteq {"pass", "fail", "rate_limited"} /\ RetryAfters \subseteq Nat
BY EngineAssumption

Fields == {"pass", "fail", "rate_limited", "conn_errors", "timeouts", "completed", "backoff"}

\* The field sets, spelled out.
LEMMA FieldSets ==
  /\ DOMAIN NoResult = Fields
  /\ Counted = {"completed", "pass", "fail", "rate_limited"}
  /\ Outcomes = {"pass", "fail", "rate_limited", "conn_errors", "timeouts"}
  /\ Errors = {"conn_errors", "timeouts"}
BY DEF NoResult, Fields, Outcomes, Verdicts, Errors, Counted

\* What Goto does to the program counters.
LEMMA GotoType ==
  ASSUME ConnTypeOK, NEW c \in Conns, NEW l \in Steps, Goto(c, l)
  PROVE  /\ pc' \in [Conns -> Steps]
         /\ pc'[c] = l
         /\ \A d \in Conns \ {c} : pc'[d] = pc[d]
BY DEF ConnTypeOK, Goto

\* What Add does to the results.
LEMMA AddType ==
  ASSUME ConnTypeOK, NEW c \in Conns, NEW f \in Fields, NEW n \in Nat, Add(c, f, n)
  PROVE  /\ res' \in [Conns -> [Fields -> Nat]]
         /\ res'[c][f] = res[c][f] + n
         /\ \A g \in Fields \ {f} : res'[c][g] = res[c][g]
         /\ \A d \in Conns \ {c} : res'[d] = res[d]
<1>1. res \in [Conns -> [Fields -> Nat]]
  BY FieldSets DEF ConnTypeOK
<1>2. res' = [res EXCEPT ![c] = [res[c] EXCEPT ![f] = res[c][f] + n]]
  BY DEF Add
<1> QED
  BY <1>1, <1>2

\* A pause is a length of time.
LEMMA PauseType ==
  ASSUME ConnTypeOK, NEW c \in Conns
  PROVE  Pause(c) \in Nat
<1>1. got[c] \in Responses
  BY DEF ConnTypeOK
<1>2. got[c].retry \in RetryAfters \cup {0}
  BY <1>1 DEF Responses
<1>3. \A r \in RetryAfters \cup {0} : r \in Nat
  BY Constants
<1>4. got[c].retry \in Nat
  BY <1>2, <1>3, Zenon
<1> QED
  BY <1>4, Constants DEF Pause

\* A step of a connection keeps the types.
LEMMA ConnTypes ==
  ASSUME TypeOK, NEW c \in Conns, Connection(c)
  PROVE  TypeOK'
<1> USE FieldSets, Constants
<1>0. ConnTypeOK /\ SharedTypeOK /\ MainTypeOK /\ TickerTypeOK
  BY DEF TypeOK
<1>1. MainTypeOK' /\ TickerTypeOK'
  <2>1. UNCHANGED <<mainVars, sec, tickerVars>>
    BY DEF Connection, Dial, LoopTop, LeaveAtDeadline, Send, WriteFails, ReadFails, Receive,
           Count, TakeNumber, PushSample, Judge, ClaimOnset, StoreOnset, Obey, PauseEnds
  <2> QED
    BY <1>0, <2>1 DEF MainTypeOK, TickerTypeOK, mainVars, tickerVars
<1>2. ConnTypeOK' /\ SharedTypeOK'
  <2>1. CASE Dial(c) \/ WriteFails(c) \/ \E e \in Errors : ReadFails(c, e)
    <3>1. UNCHANGED <<got, late, sharedVars, samples, abort>>
      BY <2>1 DEF Dial, WriteFails, ReadFails
    <3>2. SharedTypeOK'
      BY <1>0, <3>1 DEF SharedTypeOK, sharedVars
    <3>3. PICK l \in Steps : Goto(c, l)
      BY <2>1 DEF Dial, WriteFails, ReadFails, Steps
    <3>4. UNCHANGED res \/ \E e \in Errors : Add(c, e, 1)
      BY <2>1 DEF Dial, WriteFails, ReadFails
    <3>5. res' \in [Conns -> [Fields -> Nat]]
      <4>1. CASE UNCHANGED res
        BY <1>0, <4>1 DEF ConnTypeOK
      <4>2. ASSUME NEW e \in Errors, Add(c, e, 1) PROVE res' \in [Conns -> [Fields -> Nat]]
        <5>1. e \in Fields
          BY DEF Fields
        <5> QED
          BY <1>0, <4>2, <5>1, AddType
      <4> QED
        BY <3>4, <4>1, <4>2
    <3> QED
      BY <1>0, <3>1, <3>2, <3>3, <3>5, GotoType DEF ConnTypeOK
  <2>2. CASE LoopTop(c) \/ LeaveAtDeadline(c) \/ Send(c) \/ PauseEnds(c)
    <3>1. UNCHANGED <<got, res, sharedVars, samples, abort>>
      BY <2>2 DEF LoopTop, LeaveAtDeadline, Send, PauseEnds
    <3>2. SharedTypeOK'
      BY <1>0, <3>1 DEF SharedTypeOK, sharedVars
    <3>3. PICK l \in Steps : Goto(c, l)
      BY <2>2 DEF LoopTop, LeaveAtDeadline, Send, PauseEnds, Steps
    <3>4. late' = late \/ late' = [late EXCEPT ![c] = IF abort THEN @ + 1 ELSE @]
      BY <2>2 DEF LoopTop, LeaveAtDeadline, Send, PauseEnds
    <3>5. late' \in [Conns -> Nat]
      BY <1>0, <3>4 DEF ConnTypeOK
    <3> QED
      BY <1>0, <3>1, <3>2, <3>3, <3>5, GotoType DEF ConnTypeOK
  <2>3. CASE \E v \in Answers, ra \in RetryAfters : Receive(c, v, ra)
    <3>1. PICK v \in Answers, ra \in RetryAfters : Receive(c, v, ra)
      BY <2>3
    <3>2. UNCHANGED <<res, late, ctr, backoff, seen429, onset, seq, samples, abort>> /\ hist' = hist + 1
      BY <3>1 DEF Receive
    <3>3. Goto(c, "counting") /\ "counting" \in Steps
      BY <3>1 DEF Receive, Steps
    <3>4. Response(v, ra) \in Responses
      BY DEF Response, Responses, Verdicts
    <3>5. got' \in [Conns -> Responses]
      BY <1>0, <3>1, <3>4 DEF Receive, ConnTypeOK
    <3>6. ConnTypeOK'
      BY <1>0, <3>2, <3>3, <3>5, GotoType DEF ConnTypeOK
    <3> QED
      BY <1>0, <3>2, <3>6 DEF SharedTypeOK
  <2>4. CASE Count(c) \/ Judge(c)
    <3>1. UNCHANGED <<late, backoff, seen429, onset, hist, seq, samples, abort>>
      BY <2>4 DEF Count, Judge
    <3>2. PICK l \in Steps : Goto(c, l)
      BY <2>4 DEF Count, Judge, Steps
    <3>3. PICK f \in Counted : Add(c, f, 1) /\ ctr' = [ctr EXCEPT ![f] = @ + 1]
      BY <2>4, <1>0 DEF Count, Judge, ConnTypeOK, Responses, Verdicts
    <3>4. res' \in [Conns -> [Fields -> Nat]]
      <4>1. f \in Fields
        BY DEF Fields
      <4> QED
        BY <1>0, <3>3, <4>1, AddType
    <3>5. ctr' \in [Counted -> Nat]
      BY <1>0, <3>3 DEF SharedTypeOK
    <3>6. got' \in [Conns -> Responses]
      <4>1. NoResponse \in Responses
        BY DEF NoResponse, Responses, Verdicts
      <4>2. got' = got \/ \E x \in {NoResponse, got[c]} : got' = [got EXCEPT ![c] = x]
        BY <2>4 DEF Count, Judge
      <4> QED
        BY <1>0, <4>1, <4>2 DEF ConnTypeOK
    <3>7. ConnTypeOK'
      BY <1>0, <3>1, <3>2, <3>4, <3>6, GotoType DEF ConnTypeOK
    <3> QED
      BY <1>0, <3>1, <3>5, <3>7 DEF SharedTypeOK
  <2>5. CASE TakeNumber(c) \/ PushSample(c)
    <3>1. PICK l \in Steps : Goto(c, l)
      BY <2>5 DEF TakeNumber, PushSample, Steps
    <3>2. seq \in Nat /\ seq' \in Nat /\ got[c] \in Responses
      BY <1>0, <2>5 DEF TakeNumber, PushSample, SharedTypeOK, ConnTypeOK, sharedVars
    <3>3. got' = got \/ \E n \in Nat : got' = [got EXCEPT ![c].nth = n]
      BY <2>5, <3>2 DEF TakeNumber, PushSample
    <3>4. \A n \in Nat : [got[c] EXCEPT !.nth = n] \in Responses
      BY <3>2 DEF Responses
    <3>5. got' \in [Conns -> Responses]
      BY <1>0, <3>3, <3>4 DEF ConnTypeOK
    <3>6. ConnTypeOK'
      BY <1>0, <2>5, <3>1, <3>5, GotoType DEF TakeNumber, PushSample, ConnTypeOK
    <3>7. samples' \in SUBSET Nat
      BY <1>0, <2>5, <3>2 DEF TakeNumber, PushSample, SharedTypeOK, Responses
    <3> QED
      BY <1>0, <2>5, <3>2, <3>6, <3>7 DEF TakeNumber, PushSample, SharedTypeOK, sharedVars
  <2>6. CASE ClaimOnset(c) \/ StoreOnset(c)
    <3>1. PICK l \in Steps : Goto(c, l)
      BY <2>6 DEF ClaimOnset, StoreOnset, Steps
    <3>2. ConnTypeOK'
      BY <1>0, <2>6, <3>1, GotoType DEF ClaimOnset, StoreOnset, ConnTypeOK
    <3> QED
      BY <1>0, <2>6, <3>2 DEF ClaimOnset, StoreOnset, SharedTypeOK
  <2>7. CASE Obey(c)
    <3>1. PICK l \in Steps : Goto(c, l)
      BY <2>7 DEF Obey, Steps
    <3>2. Pause(c) \in Nat
      BY <1>0, PauseType
    <3>3. UNCHANGED res \/ Add(c, "backoff", Pause(c))
      BY <2>7 DEF Obey
    <3>4. res' \in [Conns -> [Fields -> Nat]]
      <4>1. "backoff" \in Fields
        BY DEF Fields
      <4>2. CASE UNCHANGED res
        BY <1>0, <4>2 DEF ConnTypeOK
      <4>3. CASE Add(c, "backoff", Pause(c))
        BY <1>0, <3>2, <4>1, <4>3, AddType
      <4> QED
        BY <3>3, <4>2, <4>3
    <3>5. got' \in [Conns -> Responses]
      BY <1>0, <2>7 DEF Obey, NoResponse, Responses, Verdicts, ConnTypeOK
    <3>6. ConnTypeOK'
      BY <1>0, <2>7, <3>1, <3>4, <3>5, GotoType DEF Obey, ConnTypeOK
    <3>7. backoff' \in Nat
      <4>1. backoff \in Nat
        BY <1>0 DEF SharedTypeOK
      <4>2. backoff' = backoff \/ backoff' = backoff + Pause(c)
        BY <2>7 DEF Obey
      <4> QED
        BY <3>2, <4>1, <4>2
    <3>8. abort' \in BOOLEAN
      BY <1>0, <2>7, Zenon DEF Obey, SharedTypeOK
    <3> QED
      BY <1>0, <2>7, <3>6, <3>7, <3>8 DEF Obey, SharedTypeOK
  <2> QED
    BY <2>1, <2>2, <2>3, <2>4, <2>5, <2>6, <2>7 DEF Connection
<1> QED
  BY <1>1, <1>2 DEF TypeOK

\* The shape of a tick on its way and of one that was sent.
Loading == [loaded : 0 .. 4, cum : [Counted -> Nat], onset : Conns \cup {None}, hist : Nat]
Sent == [cum : [Counted -> Nat], this : [Counted -> Nat],
         onset : Conns \cup {None}, hist : Nat, sampled : SUBSET Nat]

\* Before the run starts there are no ticks, and between ticks none is on its way.
Between ==
  /\ main = "barrier" => tpc = "idle" /\ ticks = <<>>
  /\ tpc \in {"idle", "asleep", "ended"} => tick = NoTick

\* The load order spelled out.
LEMMA LoadOrderIs ==
  /\ Len(LoadOrder) = 4
  /\ LoadOrder[1] = "completed" /\ LoadOrder[2] = "pass"
  /\ LoadOrder[3] = "fail" /\ LoadOrder[4] = "rate_limited"
BY DEF LoadOrder

\* The ticker's types with those shapes.
LEMMA TickerTypes ==
  TickerTypeOK <=>
       /\ tpc \in {"idle", "asleep", "loading", "rest", "sending", "ended"}
       /\ tick \in Loading
       /\ tpc = "loading" => tick.loaded < 4
       /\ ticks \in Seq(Sent)
       /\ Len(ticks) <= Duration
       /\ tpc \notin {"idle", "ended"} => Len(ticks) < Duration
BY LoadOrderIs DEF TickerTypeOK, Loading, Sent

\* The counter a tick loads next is one of the counters.
LEMMA LoadsCounter ==
  ASSUME TickerTypeOK, tpc = "loading"
  PROVE  LoadOrder[tick.loaded + 1] \in Counted
<1>1. tick.loaded \in {0, 1, 2, 3}
  BY TickerTypes DEF Loading
<1> QED
  BY <1>1, LoadOrderIs, FieldSets

\* The counters start at zero.
LEMMA ZeroType == Zero \in [Counted -> Nat] /\ \A f \in Counted : Zero[f] = 0
BY DEF Zero

\* The counts of the tick before are counts.
LEMMA PrevType ==
  ASSUME TickerTypeOK
  PROVE  PrevCum \in [Counted -> Nat]
<1>1. CASE ticks = <<>>
  BY <1>1, ZeroType DEF PrevCum
<1>2. CASE ticks # <<>>
  <2>1. ticks \in Seq(Sent) /\ Len(ticks) \in 1 .. Len(ticks)
    BY <1>2, TickerTypes
  <2>2. ticks[Len(ticks)] \in Sent
    BY <2>1
  <2> QED
    BY <1>2, <2>2 DEF PrevCum, Sent
<1> QED
  BY <1>1, <1>2

\* A step of the ticker keeps the types.
LEMMA TickerStepTypes ==
  ASSUME TypeOK, Between, Ticker
  PROVE  TypeOK' /\ Between'
<1> USE Constants
<1>0. ConnTypeOK /\ SharedTypeOK /\ MainTypeOK /\ TickerTypeOK
  BY DEF TypeOK
<1>1. UNCHANGED <<connVars, sharedVars, abort, mainVars, sec>>
  BY DEF Ticker, Wake, LoadCounter, LoadRest, SendTick
<1>2. ConnTypeOK' /\ MainTypeOK'
  BY <1>0, <1>1 DEF ConnTypeOK, MainTypeOK, connVars, mainVars
<1>3. SharedTypeOK'
  <2>1. samples' = samples \/ samples' = {}
    BY DEF Ticker, Wake, LoadCounter, LoadRest, SendTick
  <2> QED
    BY <1>0, <1>1, <2>1 DEF SharedTypeOK, sharedVars
<1>4. TickerTypeOK'
  <2>0. /\ tpc \in {"idle", "asleep", "loading", "rest", "sending", "ended"}
        /\ tick \in Loading /\ ticks \in Seq(Sent)
        /\ Len(ticks) <= Duration /\ (tpc = "loading" => tick.loaded < 4)
        /\ tpc \notin {"idle", "ended"} => Len(ticks) < Duration
    BY <1>0, TickerTypes
  <2> SUFFICES /\ tpc' \in {"idle", "asleep", "loading", "rest", "sending", "ended"}
               /\ tick' \in Loading /\ ticks' \in Seq(Sent)
               /\ Len(ticks') <= Duration /\ (tpc' = "loading" => tick'.loaded < 4)
               /\ tpc' \notin {"idle", "ended"} => Len(ticks') < Duration
    BY LoadOrderIs DEF TickerTypeOK, Loading, Sent
  <2>1. CASE Wake
    BY <1>0, <2>0, <2>1 DEF Wake, Between, NoTick
  <2>2. CASE LoadCounter
    <3>1. LoadOrder[tick.loaded + 1] \in Counted
      BY <1>0, <2>2, LoadsCounter DEF LoadCounter
    <3>2. ctr[LoadOrder[tick.loaded + 1]] \in Nat
      BY <1>0, <3>1 DEF SharedTypeOK
    <3>3. tick' = [tick EXCEPT !.loaded = @ + 1,
                               !.cum = [@ EXCEPT ![LoadOrder[tick.loaded + 1]] =
                                          ctr[LoadOrder[tick.loaded + 1]]]]
      BY <2>2 DEF LoadCounter
    <3> DEFINE cum == [tick.cum EXCEPT ![LoadOrder[tick.loaded + 1]] =
                         ctr[LoadOrder[tick.loaded + 1]]]
    <3>a. cum \in [Counted -> Nat]
      BY <2>0, <3>1, <3>2 DEF Loading
    <3>b. tick' = [tick EXCEPT !.loaded = tick.loaded + 1, !.cum = cum]
      BY <3>3
    <3>c. tick.loaded + 1 \in 0 .. 4
      BY <2>0, <2>2 DEF LoadCounter, Loading
    <3> HIDE DEF cum
    <3>4. tick' \in Loading /\ tick'.loaded = tick.loaded + 1
      BY <2>0, <3>a, <3>b, <3>c DEF Loading
    <3>5. tpc' = IF tick'.loaded = 4 THEN "rest" ELSE "loading"
      BY <2>2, LoadOrderIs DEF LoadCounter
    <3> QED
      BY <2>0, <2>2, <3>4, <3>5 DEF LoadCounter, Loading
  <2>3. CASE LoadRest
    BY <1>0, <2>0, <2>3 DEF LoadRest, Loading, SharedTypeOK
  <2>4. CASE SendTick
    <3>1. PrevCum \in [Counted -> Nat] /\ tick.cum \in [Counted -> Nat]
      BY <1>0, <2>0, PrevType DEF Loading
    <3>2. Delta \in [Counted -> Nat]
      BY <3>1 DEF Delta, SatSub
    <3> DEFINE new == [cum |-> tick.cum, this |-> Delta, onset |-> tick.onset,
                       hist |-> tick.hist, sampled |-> samples]
    <3>3. new \in Sent
      BY <1>0, <2>0, <3>2 DEF Sent, Loading, SharedTypeOK
    <3>4. ticks' = Append(ticks, new) /\ tick' = NoTick
      BY <2>4 DEF SendTick
    <3> HIDE DEF new
    <3>5. ticks' \in Seq(Sent) /\ Len(ticks') = Len(ticks) + 1
      BY <2>0, <3>3, <3>4
    <3>6. tick' \in Loading
      BY <3>4, ZeroType DEF NoTick, Loading
    <3>7. tpc' = IF Len(ticks') = Duration THEN "ended" ELSE "asleep"
      BY <2>4 DEF SendTick
    <3>8. tpc = "sending"
      BY <2>4 DEF SendTick
    <3>9. Len(ticks) \in Nat
      BY <2>0
    <3> QED
      BY <2>0, <3>5, <3>6, <3>7, <3>8, <3>9
  <2> QED
    BY <2>1, <2>2, <2>3, <2>4 DEF Ticker
<1>5. Between'
  BY <1>1, LoadOrderIs DEF Between, Ticker, Wake, LoadCounter, LoadRest, SendTick, mainVars
<1> QED
  BY <1>2, <1>3, <1>4, <1>5 DEF TypeOK

\* The steps of the run itself keep the types.
LEMMA MainStepTypes ==
  ASSUME TypeOK, Between, Start \/ Return \/ Cancel \/ SecondPasses \/ UNCHANGED vars
  PROVE  TypeOK' /\ Between'
<1> USE Constants
<1>0. ConnTypeOK /\ SharedTypeOK /\ MainTypeOK /\ TickerTypeOK
  BY DEF TypeOK
<1>1. ASSUME Start PROVE TypeOK'
  <2>1. ConnTypeOK'
    BY <1>0, <1>1 DEF Start, ConnTypeOK, Steps
  <2>2. SharedTypeOK' /\ MainTypeOK'
    BY <1>0, <1>1 DEF Start, SharedTypeOK, MainTypeOK, sharedVars
  <2>3. ticks = <<>> /\ ticks' = ticks /\ tick' = tick /\ Len(ticks) = 0
    BY <1>1 DEF Start, Between
  <2>4. tpc' = IF Duration > 0 THEN "asleep" ELSE "ended"
    BY <1>1 DEF Start
  <2>5. TickerTypeOK'
    <3>1. /\ tick' \in Loading /\ ticks' \in Seq(Sent) /\ Len(ticks') = 0
      BY <1>0, <2>3, TickerTypes
    <3>2. tpc' \in {"asleep", "ended"} /\ (tpc' = "asleep" => Duration > 0)
      BY <2>4
    <3> QED
      BY <3>1, <3>2, LoadOrderIs, 0 \leq Duration DEF TickerTypeOK, Loading, Sent
  <2> QED
    BY <2>1, <2>2, <2>5 DEF TypeOK
<1>2. ASSUME Return PROVE TypeOK'
  <2>1. ConnTypeOK' /\ SharedTypeOK' /\ TickerTypeOK'
    BY <1>0, <1>2 DEF Return, ConnTypeOK, SharedTypeOK, TickerTypeOK, connVars, sharedVars, tickerVars
  <2>2. DOMAIN Totals = DOMAIN NoResult
    BY DEF Totals
  <2>3. /\ report'.counts = Totals /\ report'.hist = hist /\ report'.onset = onset
        /\ main' = "returned" /\ UNCHANGED <<sec, policy>>
    BY <1>2 DEF Return
  <2>4. MainTypeOK'
    BY <1>0, <2>2, <2>3 DEF MainTypeOK, SharedTypeOK
  <2> QED
    BY <2>1, <2>4 DEF TypeOK
<1>3. ASSUME Cancel PROVE TypeOK'
  <2>1. ConnTypeOK' /\ MainTypeOK' /\ TickerTypeOK'
    BY <1>0, <1>3 DEF Cancel, ConnTypeOK, MainTypeOK, TickerTypeOK, connVars, mainVars, tickerVars
  <2>2. SharedTypeOK'
    BY <1>0, <1>3 DEF Cancel, SharedTypeOK, sharedVars
  <2> QED
    BY <2>1, <2>2 DEF TypeOK
<1>4. ASSUME SecondPasses PROVE TypeOK'
  <2>1. ConnTypeOK' /\ SharedTypeOK' /\ TickerTypeOK'
    BY <1>0, <1>4 DEF SecondPasses, ConnTypeOK, SharedTypeOK, TickerTypeOK, connVars, sharedVars, tickerVars
  <2>2. sec' \in 0 .. Duration
    BY <1>0, <1>4 DEF SecondPasses, MainTypeOK, Deadline
  <2>3. MainTypeOK'
    BY <1>0, <1>4, <2>2 DEF SecondPasses, MainTypeOK, mainVars
  <2> QED
    BY <2>1, <2>3 DEF TypeOK
<1>5. ASSUME UNCHANGED vars PROVE TypeOK'
  BY <1>0, <1>5 DEF TypeOK, ConnTypeOK, SharedTypeOK, MainTypeOK, TickerTypeOK,
       vars, connVars, sharedVars, mainVars, tickerVars
<1>6. Between'
  BY DEF Between, Start, Return, Cancel, SecondPasses, vars, mainVars, tickerVars
<1> QED
  BY <1>1, <1>2, <1>3, <1>4, <1>5, <1>6

\* A connection's step does not touch the ticker.
LEMMA ConnBetween ==
  ASSUME Between, NEW c \in Conns, Connection(c)
  PROVE  Between'
<1>1. UNCHANGED <<mainVars, tickerVars>>
  BY DEF Connection, Dial, LoopTop, LeaveAtDeadline, Send, WriteFails, ReadFails, Receive,
         Count, TakeNumber, PushSample, Judge, ClaimOnset, StoreOnset, Obey, PauseEnds
<1> QED
  BY <1>1 DEF Between, mainVars, tickerVars

\* The initial states have their types.
LEMMA InitTypes ==
  ASSUME Init
  PROVE  TypeOK /\ Between
<1>1. NoResponse \in Responses
  BY DEF NoResponse, Responses, Verdicts
<1>2. NoResult \in [DOMAIN NoResult -> Nat]
  BY DEF NoResult
<1>3. ConnTypeOK
  BY <1>1, <1>2 DEF Init, ConnTypeOK, Steps
<1>4. SharedTypeOK
  BY ZeroType DEF Init, SharedTypeOK
<1>5. MainTypeOK
  BY Constants DEF Init, MainTypeOK
<1>6. tick \in Loading
  BY ZeroType DEF Init, NoTick, Loading
<1>7. ticks = <<>> /\ Len(ticks) = 0 /\ ticks \in Seq(Sent)
  BY DEF Init
<1>8. TickerTypeOK
  BY <1>6, <1>7, LoadOrderIs, Constants DEF Init, TickerTypeOK, Loading, Sent
<1>9. Between
  BY DEF Init, Between
<1> QED
  BY <1>3, <1>4, <1>5, <1>8, <1>9 DEF TypeOK

\* Every variable keeps its type, for any number of connections and seconds.
THEOREM EngineTypeCorrect == Spec => [](TypeOK /\ Between)
<1>1. Init => TypeOK /\ Between
  BY InitTypes
<1>2. TypeOK /\ Between /\ [Next]_vars => (TypeOK /\ Between)'
  <2> SUFFICES ASSUME TypeOK, Between, [Next]_vars
               PROVE  TypeOK' /\ Between'
    OBVIOUS
  <2>1. ASSUME NEW c \in Conns, Connection(c)
        PROVE  TypeOK' /\ Between'
    BY <2>1, ConnTypes, ConnBetween
  <2>2. CASE Ticker
    BY <2>2, TickerStepTypes
  <2>3. CASE Start \/ Return \/ Cancel \/ SecondPasses \/ UNCHANGED vars
    BY <2>3, MainStepTypes
  <2> QED
    BY <2>1, <2>2, <2>3 DEF Next, Quiet
<1> QED
  BY <1>1, <1>2, PTL DEF Spec
-----------------------------------------------------------------------------
(***************************************************************************)
(* AbortDrains                                                             *)
(***************************************************************************)

\* Before the abort no request is late, and a paced one is a connection's first.
Drains ==
  \A c \in Conns : /\ late[c] <= 1
                   /\ pc[c] = "pacing" => late[c] = 0
                   /\ ~abort => late[c] = 0

\* No step but Send adds a late request, and no step but LoopTop starts a pacing.
LEMMA DrainsStep ==
  ASSUME TypeOK, Drains, [Next]_vars
  PROVE  Drains'
<1>0. pc \in [Conns -> Steps] /\ late \in [Conns -> Nat] /\ abort \in BOOLEAN
  BY DEF TypeOK, ConnTypeOK, SharedTypeOK
<1>1. ASSUME NEW c \in Conns, LoopTop(c) PROVE Drains'
  BY <1>0, <1>1 DEF LoopTop, Goto, Drains, sharedVars
<1>2. ASSUME NEW c \in Conns, Send(c) PROVE Drains'
  BY <1>0, <1>2 DEF Send, Goto, Drains
<1>3. ASSUME NEW c \in Conns, Connection(c), ~LoopTop(c), ~Send(c) PROVE Drains'
  <2>1. late' = late /\ (abort' = abort \/ abort' = TRUE)
    BY <1>3 DEF Connection, Dial, LeaveAtDeadline, WriteFails, ReadFails, Receive,
           Count, TakeNumber, PushSample, Judge, ClaimOnset, StoreOnset, Obey, PauseEnds
  <2>2. PICK l \in Steps \ {"pacing"} : Goto(c, l)
    BY <1>3 DEF Connection, Dial, LeaveAtDeadline, WriteFails, ReadFails, Receive,
           Count, TakeNumber, PushSample, Judge, ClaimOnset, StoreOnset, Obey, PauseEnds, Steps
  <2>3. pc' = [pc EXCEPT ![c] = l]
    BY <2>2 DEF Goto
  <2> QED
    BY <1>0, <2>1, <2>2, <2>3 DEF Drains
<1>4. CASE Ticker \/ Return \/ Cancel \/ SecondPasses \/ UNCHANGED vars
  <2>1. UNCHANGED <<pc, late>> /\ (abort' = abort \/ abort' = TRUE)
    BY <1>4 DEF Ticker, Wake, LoadCounter, LoadRest, SendTick, Return, Cancel, SecondPasses,
           vars, connVars
  <2> QED
    BY <2>1 DEF Drains
<1>5. CASE Start
  <2>1. UNCHANGED <<late, abort>> /\ \A c \in Conns : pc'[c] # "pacing"
    BY <1>5 DEF Start
  <2> QED
    BY <2>1 DEF Drains
<1> QED
  BY <1>1, <1>2, <1>3, <1>4, <1>5 DEF Next, Quiet

\* Once the abort flag is up a connection sends at most the request it was pacing.
THEOREM AbortedRunDrains == Spec => []AbortDrains
<1>1. Init => Drains
  BY DEF Init, Drains
<1>2. TypeOK /\ Drains /\ [Next]_vars => Drains'
  BY DrainsStep
<1>3. Drains => AbortDrains
  BY DEF Drains, AbortDrains
<1> QED
  BY <1>1, <1>2, <1>3, EngineTypeCorrect, PTL DEF Spec
-----------------------------------------------------------------------------
(***************************************************************************)
(* NthSampledOnce                                                          *)
(***************************************************************************)

Shipped == UNION {ticks[i].sampled : i \in 1 .. Len(ticks)}
Held == {got[c].nth : c \in Pushing}

\* No two connections hold the same sample.
HeldOnce == \A c, d \in Pushing : c # d => got[c].nth # got[d].nth

\* Of the first n responses, the ones to sample.
Nth(n) == {k \in 1 .. n : SampleEvery > 0 /\ k % SampleEvery = 0}

Sampling ==
  /\ NthSampledOnce
  /\ \A c \in Conns : pc[c] = "sampling" => SampleEvery > 0

\* The property in those terms.
LEMMA SampledMeans ==
  NthSampledOnce <=>
    /\ samples \cup Shipped \cup Held = Nth(seq)
    /\ samples \cap Shipped = {}
    /\ Held \cap (samples \cup Shipped) = {}
    /\ HeldOnce
    /\ \A i, j \in 1 .. Len(ticks) : i # j => ticks[i].sampled \cap ticks[j].sampled = {}
BY DEF NthSampledOnce, Shipped, Held, HeldOnce, Nth

\* One more response is one more to sample, or none.
LEMMA NthNext ==
  ASSUME NEW n \in Nat, SampleEvery > 0
  PROVE  /\ Nth(n + 1) = IF (n + 1) % SampleEvery = 0 THEN Nth(n) \cup {n + 1} ELSE Nth(n)
         /\ n + 1 \notin Nth(n)
<1>1. 1 .. (n + 1) = (1 .. n) \cup {n + 1} /\ n + 1 \notin 1 .. n
  OBVIOUS
<1> QED
  BY <1>1, Zenon DEF Nth

\* The same of the next state.
LEMMA SampledMeansNext ==
  ASSUME samples' \cup Shipped' \cup Held' = Nth(seq'),
         samples' \cap Shipped' = {},
         Held' \cap (samples' \cup Shipped') = {},
         HeldOnce',
         \A i, j \in 1 .. Len(ticks') : i # j => ticks'[i].sampled \cap ticks'[j].sampled = {}
  PROVE  NthSampledOnce'
BY DEF NthSampledOnce, Shipped, Held, HeldOnce, Nth

\* A step that neither claims nor pushes leaves the samples on their way.
LEMMA HeldStays ==
  ASSUME Pushing' = Pushing, \A c \in Pushing : got'[c] = got[c], HeldOnce
  PROVE  Held' = Held /\ HeldOnce'
BY DEF Held, HeldOnce

\* Claiming a sample: its number is new.
LEMMA ClaimStep ==
  ASSUME TypeOK, Sampling, NEW c \in Conns, TakeNumber(c)
  PROVE  Sampling'
<1>0. /\ pc \in [Conns -> Steps] /\ got \in [Conns -> Responses] /\ seq \in Nat
      /\ SampleEvery \in Nat /\ pc[c] = "sampling" /\ SampleEvery > 0
      /\ seq' = seq + 1 /\ UNCHANGED <<samples, ticks>>
  <2>1. seq' = seq + 1 /\ pc[c] = "sampling" /\ UNCHANGED ticks
    BY DEF TakeNumber, tickerVars
  <2>2. samples' = samples
    BY DEF TakeNumber
  <2> QED
    BY <2>1, <2>2, Constants DEF TypeOK, ConnTypeOK, SharedTypeOK, Sampling
<1>1. /\ samples \cup Shipped \cup Held = Nth(seq)
      /\ samples \cap Shipped = {}
      /\ Held \cap (samples \cup Shipped) = {}
      /\ HeldOnce
      /\ \A i, j \in 1 .. Len(ticks) : i # j => ticks[i].sampled \cap ticks[j].sampled = {}
  BY SampledMeans DEF Sampling
<1>2. Shipped' = Shipped
  BY <1>0 DEF Shipped
<1>3. /\ Nth(seq') = IF seq' % SampleEvery = 0 THEN Nth(seq) \cup {seq'} ELSE Nth(seq)
      /\ seq' \notin Nth(seq)
  BY <1>0, NthNext
<1>4. c \notin Pushing
  BY <1>0 DEF Pushing
<1>5. CASE seq' % SampleEvery = 0
  <2>1. got' = [got EXCEPT ![c].nth = seq'] /\ pc' = [pc EXCEPT ![c] = "pushing"]
    BY <1>5 DEF TakeNumber, Goto
  <2>2. Pushing' = Pushing \cup {c} /\ \A d \in Pushing : got'[d] = got[d] /\ d \in Conns
    BY <1>0, <1>4, <2>1 DEF Pushing
  <2>3. got'[c].nth = seq'
    BY <1>0, <2>1 DEF Responses
  <2>4. Held' = Held \cup {seq'}
    BY <2>2, <2>3 DEF Held
  <2>5. HeldOnce'
    <3>1. \A d \in Pushing : got[d].nth \in Nth(seq)
      BY <1>1 DEF Held
    <3> QED
      BY <1>1, <1>3, <2>2, <2>3, <3>1 DEF HeldOnce
  <2>6. NthSampledOnce'
    <3>1. samples' \cup Shipped' \cup Held' = Nth(seq')
      BY <1>0, <1>1, <1>2, <1>3, <1>5, <2>4
    <3>2. Held' \cap (samples' \cup Shipped') = {}
      BY <1>0, <1>1, <1>2, <1>3, <2>4
    <3>3. samples' \cap Shipped' = {}
      BY <1>0, <1>1, <1>2
    <3>4. ticks' = ticks
      BY <1>0
    <3> QED
      BY <1>1, <2>5, <3>1, <3>2, <3>3, <3>4, SampledMeansNext
  <2> QED
    BY <1>0, <2>1, <2>6 DEF Sampling
<1>6. CASE seq' % SampleEvery # 0
  <2>1. got' = got /\ pc' = [pc EXCEPT ![c] = "judging"]
    BY <1>6 DEF TakeNumber, Goto
  <2>2. Pushing' = Pushing
    BY <1>0, <1>4, <2>1 DEF Pushing
  <2>3. Held' = Held /\ HeldOnce'
    BY <1>1, <2>1, <2>2, HeldStays
  <2>4. NthSampledOnce'
    BY <1>0, <1>1, <1>2, <1>3, <1>6, <2>3, SampledMeansNext
  <2> QED
    BY <1>0, <2>1, <2>4 DEF Sampling
<1> QED
  BY <1>5, <1>6

\* Pushing a sample: it moves from its connection to the buffer.
LEMMA PushStep ==
  ASSUME TypeOK, Sampling, NEW c \in Conns, PushSample(c)
  PROVE  Sampling'
<1>0. /\ pc \in [Conns -> Steps] /\ got \in [Conns -> Responses] /\ pc[c] = "pushing"
      /\ UNCHANGED <<seq, ticks>> /\ samples' = samples \cup {got[c].nth}
      /\ got' = [got EXCEPT ![c].nth = 0] /\ pc' = [pc EXCEPT ![c] = "judging"]
  BY DEF PushSample, Goto, sharedVars, tickerVars, TypeOK, ConnTypeOK
<1>1. /\ samples \cup Shipped \cup Held = Nth(seq)
      /\ samples \cap Shipped = {}
      /\ Held \cap (samples \cup Shipped) = {}
      /\ HeldOnce
      /\ \A i, j \in 1 .. Len(ticks) : i # j => ticks[i].sampled \cap ticks[j].sampled = {}
  BY SampledMeans DEF Sampling
<1>2. Shipped' = Shipped
  BY <1>0 DEF Shipped
<1>3. c \in Pushing /\ Pushing' = Pushing \ {c}
  BY <1>0 DEF Pushing
<1>4. \A d \in Pushing' : got'[d] = got[d]
  BY <1>0, <1>3 DEF Pushing
<1>5. \A d \in Pushing' : got[d].nth # got[c].nth
  BY <1>1, <1>3 DEF HeldOnce
<1>6. Held' = Held \ {got[c].nth} /\ got[c].nth \in Held /\ HeldOnce'
  <2>1. Held' = {got[d].nth : d \in Pushing'}
    BY <1>4 DEF Held
  <2>2. Held = Held' \cup {got[c].nth} /\ got[c].nth \notin Held'
    BY <1>3, <1>5, <2>1 DEF Held
  <2>3. HeldOnce'
    BY <1>1, <1>3, <1>4 DEF HeldOnce
  <2> QED
    BY <2>2, <2>3
<1>7. /\ samples' \cup Shipped' \cup Held' = Nth(seq') /\ samples' \cap Shipped' = {}
      /\ Held' \cap (samples' \cup Shipped') = {}
  BY <1>0, <1>1, <1>2, <1>6
<1>8. NthSampledOnce'
  BY <1>0, <1>1, <1>6, <1>7, SampledMeansNext
<1> QED
  BY <1>0, <1>8 DEF Sampling

\* Claiming a sample, pushing it and shipping the samples are the steps that matter.
LEMMA SamplingStep ==
  ASSUME TypeOK, Sampling, [Next]_vars
  PROVE  Sampling'
<1>0. pc \in [Conns -> Steps] /\ seq \in Nat /\ ticks \in Seq(Sent) /\ SampleEvery \in Nat
  BY Constants, LoadOrderIs DEF TypeOK, ConnTypeOK, SharedTypeOK, TickerTypeOK, Sent
<1>1. /\ samples \cup Shipped \cup Held = Nth(seq)
      /\ samples \cap Shipped = {}
      /\ Held \cap (samples \cup Shipped) = {}
      /\ HeldOnce
      /\ \A i, j \in 1 .. Len(ticks) : i # j => ticks[i].sampled \cap ticks[j].sampled = {}
  BY SampledMeans DEF Sampling
<1>2. ASSUME NEW c \in Conns, TakeNumber(c) \/ PushSample(c) PROVE Sampling'
  BY <1>2, ClaimStep, PushStep
<1>h. ASSUME Pushing' = Pushing, \A c \in Pushing : got'[c] = got[c],
             UNCHANGED <<seq, samples, ticks>>
      PROVE  NthSampledOnce'
  <2>1. Held' = Held /\ HeldOnce'
    BY <1>1, <1>h, HeldStays
  <2>2. Shipped' = Shipped /\ ticks' = ticks /\ seq' = seq /\ samples' = samples
    BY <1>h DEF Shipped
  <2> QED
    BY <1>1, <2>1, <2>2, SampledMeansNext
<1>3. ASSUME NEW c \in Conns, Connection(c), ~TakeNumber(c), ~PushSample(c) PROVE Sampling'
  <2>1. UNCHANGED <<seq, samples, ticks>>
    BY <1>3 DEF Connection, Dial, LoopTop, LeaveAtDeadline, Send, WriteFails, ReadFails, Receive,
           Count, Judge, ClaimOnset, StoreOnset, Obey, PauseEnds, sharedVars, tickerVars
  <2>2. pc[c] # "pushing" /\ \A d \in Conns \ {c} : got'[d] = got[d]
    <3>1. pc[c] # "pushing"
      BY <1>3 DEF Connection, Dial, LoopTop, LeaveAtDeadline, Send, WriteFails, ReadFails, Receive,
             Count, Judge, ClaimOnset, StoreOnset, Obey, PauseEnds
    <3>2. got' = got \/ \E x : got' = [got EXCEPT ![c] = x]
      BY <1>3 DEF Connection, Dial, LoopTop, LeaveAtDeadline, Send, WriteFails, ReadFails, Receive,
             Count, Judge, ClaimOnset, StoreOnset, Obey, PauseEnds
    <3>3. got \in [Conns -> Responses]
      BY DEF TypeOK, ConnTypeOK
    <3> QED
      BY <3>1, <3>2, <3>3
  <2>3. PICK l \in Steps \ {"pushing"} : Goto(c, l) /\ (l = "sampling" => SampleEvery > 0)
    BY <1>3 DEF Connection, Dial, LoopTop, LeaveAtDeadline, Send, WriteFails, ReadFails, Receive,
           Count, Judge, ClaimOnset, StoreOnset, Obey, PauseEnds, Steps
  <2>4. pc' = [pc EXCEPT ![c] = l]
    BY <2>3 DEF Goto
  <2>5. Pushing' = Pushing /\ \A d \in Pushing : got'[d] = got[d]
    BY <1>0, <2>2, <2>3, <2>4 DEF Pushing
  <2>6. NthSampledOnce'
    BY <1>h, <2>1, <2>5
  <2> QED
    BY <1>0, <2>3, <2>4, <2>6 DEF Sampling
<1>4. CASE SendTick
  <2> DEFINE new == [cum |-> tick.cum, this |-> Delta, onset |-> tick.onset,
                     hist |-> tick.hist, sampled |-> samples]
             n == Len(ticks)
  <2>1. ticks' = Append(ticks, new) /\ samples' = {} /\ UNCHANGED <<pc, got, seq>>
    BY <1>4 DEF SendTick, connVars, sharedVars
  <2>2. new.sampled = samples
    OBVIOUS
  <2> HIDE DEF new
  <2>3. /\ n \in Nat /\ Len(ticks') = n + 1 /\ ticks'[n + 1] = new
        /\ \A i \in 1 .. n : ticks'[i] = ticks[i]
    BY <1>0, <2>1
  <2>4. 1 .. (n + 1) = (1 .. n) \cup {n + 1}
    BY <2>3
  <2>5. Shipped' = UNION {ticks'[i].sampled : i \in 1 .. (n + 1)}
    BY <2>3 DEF Shipped
  <2>6. Shipped' = Shipped \cup samples
    <3>1. \A x : x \in Shipped' <=> \E i \in 1 .. (n + 1) : x \in ticks'[i].sampled
      BY <2>5
    <3>2. \A x : x \in Shipped <=> \E i \in 1 .. n : x \in ticks[i].sampled
      BY DEF Shipped
    <3> QED
      BY <2>2, <2>3, <2>4, <3>1, <3>2
  <2>h. Held' = Held /\ HeldOnce'
    BY <1>1, <2>1, HeldStays DEF Pushing
  <2>7. /\ samples' \cup Shipped' \cup Held' = Nth(seq) /\ samples' \cap Shipped' = {}
        /\ Held' \cap (samples' \cup Shipped') = {}
    BY <1>1, <2>1, <2>6, <2>h
  <2>8. \A i \in 1 .. n : ticks[i].sampled \cap samples = {}
    BY <1>1 DEF Shipped
  <2>9. \A i, j \in 1 .. Len(ticks') : i # j => ticks'[i].sampled \cap ticks'[j].sampled = {}
    <3> SUFFICES ASSUME NEW i \in 1 .. (n + 1), NEW j \in 1 .. (n + 1), i # j
                 PROVE  ticks'[i].sampled \cap ticks'[j].sampled = {}
      BY <2>3
    <3>1. CASE i \in 1 .. n /\ j \in 1 .. n
      BY <1>1, <2>3, <3>1
    <3>2. CASE i = n + 1 /\ j \in 1 .. n
      BY <2>2, <2>3, <2>8, <3>2
    <3>3. CASE j = n + 1 /\ i \in 1 .. n
      BY <2>2, <2>3, <2>8, <3>3
    <3> QED
      BY <2>3, <2>4, <3>1, <3>2, <3>3
  <2>10. NthSampledOnce'
    BY <2>1, <2>7, <2>9, <2>h, SampledMeansNext
  <2> QED
    BY <2>1, <2>10 DEF Sampling
<1>5. CASE Wake \/ LoadCounter \/ LoadRest \/ Return \/ Cancel \/ SecondPasses \/ UNCHANGED vars
  <2>1. UNCHANGED <<pc, got, seq, samples, ticks>>
    BY <1>5 DEF Wake, LoadCounter, LoadRest, Return, Cancel, SecondPasses,
           vars, connVars, sharedVars, tickerVars
  <2>2. NthSampledOnce'
    BY <1>h, <2>1 DEF Pushing
  <2> QED
    BY <2>1, <2>2 DEF Sampling
<1>6. CASE Start
  <2>1. /\ UNCHANGED <<got, seq, samples, ticks>>
        /\ \A c \in Conns : pc'[c] \in {"top", "done"} /\ pc[c] \in {"barrier", "failed"}
    BY <1>6 DEF Start, sharedVars
  <2>2. Pushing = {} /\ Pushing' = {}
    BY <2>1 DEF Pushing
  <2>3. NthSampledOnce'
    BY <1>h, <2>1, <2>2
  <2> QED
    BY <2>1, <2>3 DEF Sampling
<1> QED
  BY <1>2, <1>3, <1>4, <1>5, <1>6 DEF Next, Ticker, Quiet

\* Exactly every N-th response is sampled, and each sample is in one place: with the
\* connection that claimed it, in the buffer or in one tick, whatever N, the
\* connections and the ticks.
THEOREM EveryNthSampledOnce == Spec => []NthSampledOnce
<1>1. Init => Sampling
  <2> SUFFICES ASSUME Init PROVE Sampling
    OBVIOUS
  <2>1. samples = {} /\ seq = 0 /\ ticks = <<>> /\ Len(ticks) = 0
    BY DEF Init
  <2>2. Shipped = {} /\ Nth(seq) = {} /\ Held = {} /\ HeldOnce
    BY <2>1 DEF Init, Shipped, Nth, Held, HeldOnce, Pushing
  <2>3. NthSampledOnce
    BY <2>1, <2>2, SampledMeans
  <2> QED
    BY <2>3 DEF Init, Sampling
<1>2. TypeOK /\ Sampling /\ [Next]_vars => Sampling'
  BY SamplingStep
<1>3. Sampling => NthSampledOnce
  BY DEF Sampling
<1> QED
  BY <1>1, <1>2, <1>3, EngineTypeCorrect, PTL DEF Spec
-----------------------------------------------------------------------------
(***************************************************************************)
(* LoadRunSpec: every step of the engine is one of the abstract run.       *)
(***************************************************************************)

\* The abstract variables.
Inflight == {c \in Conns : pc[c] \in Pending}
Books == [c \in Conns |-> Ledger(res[c])]
Over == {c \in Conns : pc[c] \in {"failed", "done"}}

\* What moving one connection does to the abstract sets.
LEMMA MovedSets ==
  ASSUME TypeOK, NEW c \in Conns, NEW l \in Steps, Goto(c, l)
  PROVE  /\ l \in Pending => Inflight' = Inflight \cup {c}
         /\ l \notin Pending => Inflight' = Inflight \ {c}
         /\ l \in {"failed", "done"} => Over' = Over \cup {c}
         /\ l \notin {"failed", "done"} => Over' = Over \ {c}
<1>1. pc \in [Conns -> Steps] /\ pc' = [pc EXCEPT ![c] = l]
  BY DEF TypeOK, ConnTypeOK, Goto
<1>2. pc'[c] = l /\ \A d \in Conns \ {c} : pc'[d] = pc[d]
  BY <1>1
<1>3. Inflight' = {d \in Conns : pc'[d] \in Pending}
  BY DEF Inflight
<1>4. Over' = {d \in Conns : pc'[d] \in {"failed", "done"}}
  BY DEF Over
<1> QED
  BY <1>2, <1>3, <1>4 DEF Inflight, Over

\* What entering an outcome does to the abstract books; backoff and completed
\* are not in them.
LEMMA EnteredBooks ==
  ASSUME TypeOK, NEW c \in Conns, NEW f \in Fields, NEW n \in Nat, Add(c, f, n)
  PROVE  /\ f \in Outcomes /\ n = 1 => Books' = [Books EXCEPT ![c][f] = @ + 1]
         /\ f \notin Outcomes => Books' = Books
<1>1. ConnTypeOK /\ res \in [Conns -> [Fields -> Nat]]
  BY FieldSets DEF TypeOK, ConnTypeOK
<1>2. /\ res' \in [Conns -> [Fields -> Nat]]
      /\ res'[c][f] = res[c][f] + n
      /\ \A g \in Fields \ {f} : res'[c][g] = res[c][g]
      /\ \A d \in Conns \ {c} : res'[d] = res[d]
  BY <1>1, AddType
<1>3. Outcomes \subseteq Fields
  BY FieldSets DEF Fields
<1>4. ASSUME f \in Outcomes, n = 1
      PROVE  Books' = [Books EXCEPT ![c][f] = @ + 1]
  <2>1. Ledger(res'[c]) = [Ledger(res[c]) EXCEPT ![f] = @ + 1]
    BY <1>2, <1>3, <1>4 DEF Ledger
  <2>2. \A d \in Conns \ {c} : Ledger(res'[d]) = Ledger(res[d])
    BY <1>2 DEF Ledger
  <2> HIDE DEF Ledger
  <2> QED
    BY <2>1, <2>2 DEF Books
<1>5. ASSUME f \notin Outcomes
      PROVE  Books' = Books
  <2>1. \A d \in Conns : Ledger(res'[d]) = Ledger(res[d])
    BY <1>2, <1>3, <1>5 DEF Ledger
  <2> QED
    BY <2>1 DEF Books
<1> QED
  BY <1>4, <1>5

\* A step of a connection is one of the abstract connection's, or a stutter.
LEMMA ConnRefines ==
  ASSUME TypeOK, NEW c \in Conns, Connection(c)
  PROVE  [Run!Next]_Run!vars
<1> DEFINE Same == /\ (main = "returned")' = (main = "returned")
                   /\ Ledger(report.counts)' = Ledger(report.counts)
<1>0. Same /\ pc \in [Conns -> Steps]
  <2>1. UNCHANGED mainVars
    BY DEF Connection, Dial, LoopTop, LeaveAtDeadline, Send, WriteFails, ReadFails, Receive,
           Count, TakeNumber, PushSample, Judge, ClaimOnset, StoreOnset, Obey, PauseEnds
  <2> QED
    BY <2>1 DEF mainVars, TypeOK, ConnTypeOK, Ledger
<1> HIDE DEF Same
<1>1. ASSUME NEW l \in Steps, NEW e \in Errors,
             pc[c] \notin {"failed", "done"}, l \in {"failed", "done"}, Goto(c, l), Add(c, e, 1)
      PROVE  Run!Break(c, e)
  <2>1. Inflight' = Inflight \ {c} /\ Over' = Over \cup {c}
    BY <1>1, MovedSets DEF Pending
  <2>2. Books' = [Books EXCEPT ![c][e] = @ + 1]
    BY <1>1, FieldSets, EnteredBooks DEF Fields
  <2>3. c \notin Over
    BY <1>1 DEF Over
  <2> QED
    BY <1>0, <2>1, <2>2, <2>3 DEF Run!Break, Run!Settled, Inflight, Over, Books, Same
<1>2. ASSUME NEW l \in Steps, UNCHANGED Books, Goto(c, l),
             pc[c] \in Pending <=> l \in Pending,
             pc[c] \notin {"failed", "done"}, l \notin {"failed", "done"}
      PROVE  UNCHANGED Run!vars
  <2>1. Inflight' = Inflight /\ Over' = Over
    BY <1>2, MovedSets DEF Inflight, Over
  <2> QED
    BY <1>0, <1>2, <2>1 DEF Run!vars, Inflight, Over, Books, Same
<1>3. ASSUME UNCHANGED res, Goto(c, "done"), pc[c] \notin Pending \cup {"failed", "done"}
      PROVE  Run!Finish(c)
  <2>1. Inflight' = Inflight /\ Over' = Over \cup {c} /\ c \notin Inflight \cup Over
    BY <1>3, MovedSets DEF Steps, Pending, Inflight, Over
  <2>2. Books' = Books
    BY <1>3 DEF Books, Ledger
  <2> QED
    BY <1>0, <2>1, <2>2 DEF Run!Finish, Inflight, Over, Books, Same
<1>4. CASE Dial(c) \/ WriteFails(c) \/ \E e \in Errors : ReadFails(c, e)
  <2>1. CASE Goto(c, "barrier") /\ UNCHANGED res
    <3>1. UNCHANGED Books
      BY <2>1 DEF Books, Ledger
    <3>2. pc[c] = "dial"
      BY <1>4, <2>1, <1>0 DEF Dial, WriteFails, ReadFails, Goto
    <3> QED
      BY <1>2, <2>1, <3>1, <3>2 DEF Steps, Pending
  <2>2. CASE \E e \in Errors, l \in {"failed", "done"} : Goto(c, l) /\ Add(c, e, 1)
    <3>1. PICK e \in Errors, l \in {"failed", "done"} : Goto(c, l) /\ Add(c, e, 1)
      BY <2>2
    <3>2. pc[c] \in {"dial", "pacing", "awaiting"} /\ l \in Steps
      BY <1>4 DEF Dial, WriteFails, ReadFails, Steps
    <3>3. Run!Break(c, e)
      BY <1>1, <3>1, <3>2
    <3> QED
      BY <3>3 DEF Run!Next
  <2> QED
    BY <1>4, <2>1, <2>2 DEF Dial, WriteFails, ReadFails, Errors
<1>5. CASE LoopTop(c) \/ LeaveAtDeadline(c)
  <2>1. CASE Goto(c, "done")
    <3>1. UNCHANGED res /\ pc[c] \notin Pending \cup {"failed", "done"}
      BY <1>5 DEF LoopTop, LeaveAtDeadline, Pending
    <3>2. Run!Finish(c)
      BY <1>3, <2>1, <3>1
    <3> QED
      BY <3>2 DEF Run!Next
  <2>2. CASE Goto(c, "pacing") /\ LoopTop(c)
    <3>1. UNCHANGED Books
      BY <2>2 DEF LoopTop, Books, Ledger
    <3> QED
      BY <1>2, <2>2, <3>1 DEF LoopTop, Steps, Pending
  <2> QED
    BY <1>5, <2>1, <2>2 DEF LoopTop, LeaveAtDeadline
<1>6. CASE Send(c)
  <2>1. Goto(c, "awaiting") /\ UNCHANGED res /\ pc[c] = "pacing"
    BY <1>6 DEF Send
  <2>2. /\ Inflight' = Inflight \cup {c} /\ Over' = Over \ {c}
        /\ c \notin Inflight \cup Over
    BY <2>1, MovedSets DEF Steps, Pending, Inflight, Over
  <2>3. Books' = Books
    BY <2>1 DEF Books, Ledger
  <2>4. Run!Send(c)
    BY <1>0, <2>2, <2>3 DEF Run!Send, Inflight, Over, Books, Same
  <2> QED
    BY <2>4 DEF Run!Next
<1>7. CASE Judge(c)
  <2>0. PICK v \in Verdicts : v = got[c].verdict
    BY DEF TypeOK, ConnTypeOK, Responses
  <2>1. pc[c] = "judging" /\ Add(c, v, 1)
    BY <1>7, <2>0 DEF Judge
  <2>2. PICK l \in {"top", "claiming", "obeying"} : Goto(c, l)
    BY <1>7 DEF Judge
  <2>3. /\ Inflight' = Inflight \ {c} /\ Over' = Over \ {c}
        /\ c \in Inflight /\ c \notin Over
    BY <2>1, <2>2, MovedSets DEF Steps, Pending, Inflight, Over
  <2>4. Books' = [Books EXCEPT ![c][v] = @ + 1]
    BY <2>1, FieldSets, EnteredBooks DEF Fields, Verdicts
  <2>5. Run!Judge(c, v)
    BY <1>0, <2>3, <2>4 DEF Run!Judge, Run!Settled, Inflight, Over, Books, Same
  <2> QED
    BY <2>5 DEF Run!Next
<1>8. CASE Count(c)
  <2>1. Add(c, "completed", 1) /\ "completed" \in Fields /\ "completed" \notin Outcomes
    BY <1>8, FieldSets DEF Count, Fields
  <2>2. UNCHANGED Books
    BY <2>1, EnteredBooks
  <2>3. PICK l \in {"sampling", "judging"} : Goto(c, l)
    BY <1>8 DEF Count
  <2> QED
    BY <1>2, <1>8, <2>2, <2>3 DEF Count, Steps, Pending
<1>9. CASE Obey(c)
  <2>1. "backoff" \in Fields /\ "backoff" \notin Outcomes
    BY FieldSets DEF Fields
  <2>2. UNCHANGED Books
    <3>1. CASE UNCHANGED res
      BY <3>1 DEF Books, Ledger
    <3>2. CASE Add(c, "backoff", Pause(c)) /\ Pause(c) > 0
      <4>1. Pause(c) \in Nat
        BY PauseType DEF TypeOK
      <4> QED
        BY <2>1, <3>2, <4>1, EnteredBooks
    <3> QED
      BY <1>9, <3>1, <3>2 DEF Obey
  <2>3. PICK l \in {"top", "pausing"} : Goto(c, l)
    BY <1>9 DEF Obey
  <2> QED
    BY <1>2, <1>9, <2>2, <2>3 DEF Obey, Steps, Pending
<1>10. CASE \/ TakeNumber(c) \/ PushSample(c) \/ ClaimOnset(c) \/ StoreOnset(c) \/ PauseEnds(c)
            \/ \E v \in Answers, ra \in RetryAfters : Receive(c, v, ra)
  <2>1. UNCHANGED res
    BY <1>10 DEF TakeNumber, PushSample, ClaimOnset, StoreOnset, PauseEnds, Receive
  <2>2. UNCHANGED Books
    BY <2>1 DEF Books, Ledger
  <2>3. \E l \in Steps \ {"failed", "done"} :
          /\ Goto(c, l) /\ (pc[c] \in Pending <=> l \in Pending)
          /\ pc[c] \notin {"failed", "done"}
    BY <1>10 DEF TakeNumber, PushSample, ClaimOnset, StoreOnset, PauseEnds, Receive, Steps, Pending
  <2> QED
    BY <1>2, <2>2, <2>3
<1> QED
  BY <1>4, <1>5, <1>6, <1>7, <1>8, <1>9, <1>10 DEF Connection

\* The two specifications sum alike.
LEMMA SameSum == \A f : Run!SumFunction(f) = SumFunction(f)
BY DEF Run!SumFunction, SumFunction, Run!SumFunctionOnSet, SumFunctionOnSet,
       Run!FoldFunctionOnSet, FoldFunctionOnSet, Run!MapThenFoldSet, MapThenFoldSet

\* A step that is no connection's is the abstract return, or a stutter.
LEMMA MainRefines ==
  ASSUME TypeOK, Ticker \/ Start \/ Return \/ Cancel \/ SecondPasses \/ UNCHANGED vars
  PROVE  [Run!Next]_Run!vars
<1>1. CASE Return
  <2>1. /\ main = "running" /\ \A c \in Conns : pc[c] = "done"
        /\ main' = "returned" /\ report'.counts = Totals
        /\ UNCHANGED <<pc, res>>
    BY <1>1 DEF Return, connVars
  <2>2. Over = Conns
    BY <2>1 DEF Over
  <2>3. Inflight' = Inflight /\ Books' = Books /\ Over' = Over
    BY <2>1 DEF Inflight, Books, Over, Ledger
  <2>4. Ledger(Totals) = Run!Totals(Books)
    <3>1. \A o \in Outcomes : Totals[o] = SumFunction([c \in Conns |-> res[c][o]])
      BY FieldSets DEF Totals, Fields
    <3>2. \A o \in Outcomes : [c \in Conns |-> Books[c][o]] = [c \in Conns |-> res[c][o]]
      BY DEF Books, Ledger
    <3>3. Run!Outcomes = Outcomes
      BY DEF Run!Outcomes, Outcomes
    <3> QED
      BY <3>1, <3>2, <3>3, SameSum DEF Ledger, Run!Totals
  <2>5. Ledger(report.counts)' = Ledger(Totals)
    BY <2>1 DEF Ledger
  <2>6. Run!Return
    BY <2>1, <2>2, <2>3, <2>4, <2>5 DEF Run!Return, Inflight, Books, Over
  <2> QED
    BY <2>6 DEF Run!Next
<1>2. CASE Start
  <2>1. /\ \A c \in Conns : pc[c] \in {"barrier", "failed"}
        /\ \A c \in Conns : pc'[c] = IF pc[c] = "barrier" THEN "top" ELSE "done"
        /\ main = "barrier" /\ main' = "running" /\ UNCHANGED <<res, report>>
    BY <1>2 DEF Start
  <2>2. Inflight' = Inflight /\ Over' = Over /\ Books' = Books
    BY <2>1 DEF Inflight, Over, Books, Pending, Ledger
  <2> QED
    BY <2>1, <2>2 DEF Run!vars, Inflight, Over, Books, Ledger
<1>3. CASE Ticker \/ Cancel \/ SecondPasses \/ UNCHANGED vars
  <2>1. UNCHANGED <<pc, res, main, report>>
    BY <1>3 DEF Ticker, Wake, LoadCounter, LoadRest, SendTick, Cancel, SecondPasses,
           vars, connVars, mainVars
  <2> QED
    BY <2>1 DEF Run!vars, Pending, Ledger
<1> QED
  BY <1>1, <1>2, <1>3

\* The engine implements the abstract run, for any connections and answers.
THEOREM EngineImplementsLoadRun == Spec => LoadRunSpec
<1>1. Init => Run!Init
  BY FieldSets DEF Init, Run!Init, Pending, Ledger, NoResult, Run!Outcomes, Outcomes
<1>2. TypeOK /\ [Next]_vars => [Run!Next]_Run!vars
  <2> SUFFICES ASSUME TypeOK, [Next]_vars
               PROVE  [Run!Next]_Run!vars
    OBVIOUS
  <2>1. ASSUME NEW c \in Conns, Connection(c)
        PROVE  [Run!Next]_Run!vars
    BY <2>1, ConnRefines
  <2>2. CASE Ticker \/ Start \/ Return \/ Cancel \/ SecondPasses \/ UNCHANGED vars
    BY <2>2, MainRefines
  <2> QED
    BY <2>1, <2>2 DEF Next, Quiet
<1> QED
  BY <1>1, <1>2, EngineTypeCorrect, PTL DEF Spec, LoadRunSpec, Run!Spec
-----------------------------------------------------------------------------
(***************************************************************************)
(* TicksAreHonest                                                          *)
(***************************************************************************)

\* How many connections are at one of the steps in L.
At(L) == Cardinality({c \in Conns : pc[c] \in L})

\* Moving one connection changes that count by at most one.
LEMMA AtMoves ==
  ASSUME TypeOK, NEW c \in Conns, NEW l \in Steps, Goto(c, l), NEW CONSTANT L
  PROVE  /\ At(L) \in Nat
         /\ l \in L /\ pc[c] \notin L => At(L)' = At(L) + 1
         /\ l \notin L /\ pc[c] \in L => At(L)' = At(L) - 1
         /\ (l \in L <=> pc[c] \in L) => At(L)' = At(L)
<1> DEFINE S == {d \in Conns : pc[d] \in L}
           T == {d \in Conns : pc'[d] \in L}
<1>1. pc'[c] = l /\ \A d \in Conns \ {c} : pc'[d] = pc[d]
  BY GotoType DEF TypeOK
<1>2. IsFiniteSet(S) /\ Cardinality(S) \in Nat
  <2>1. IsFiniteSet(Conns) /\ S \subseteq Conns
    BY Constants
  <2> HIDE DEF S
  <2> QED
    BY <2>1, FS_Subset, FS_CardinalityType
<1>3. ASSUME l \in L, pc[c] \notin L PROVE Cardinality(T) = Cardinality(S) + 1
  <2>1. T = S \cup {c} /\ c \notin S
    BY <1>1, <1>3
  <2> HIDE DEF S, T
  <2> QED
    BY <1>2, <2>1, FS_AddElement
<1>4. ASSUME l \notin L, pc[c] \in L PROVE Cardinality(T) = Cardinality(S) - 1
  <2>1. T = S \ {c} /\ c \in S
    BY <1>1, <1>4
  <2> HIDE DEF S, T
  <2> QED
    BY <1>2, <2>1, FS_RemoveElement
<1>5. ASSUME l \in L <=> pc[c] \in L PROVE Cardinality(T) = Cardinality(S)
  <2>1. T = S
    BY <1>1, <1>5
  <2> QED
    BY <2>1
<1>6. At(L) = Cardinality(S) /\ At(L)' = Cardinality(T)
  BY DEF At
<1> QED
  BY <1>2, <1>3, <1>4, <1>5, <1>6

AtCount == {"counting"}
AtJudge == {"sampling", "pushing", "judging"}

\* The histogram, completed and the verdicts differ by the responses that are
\* between being recorded, counted and judged.
Accounts ==
  /\ hist = ctr["completed"] + At(AtCount)
  /\ ctr["completed"] = Judged(ctr) + At(AtJudge)

\* A connection keeps the accounts, and the counters only grow.
LEMMA ConnAccounts ==
  ASSUME TypeOK, Accounts, NEW c \in Conns, Connection(c)
  PROVE  Accounts' /\ \A f \in Counted : ctr'[f] >= ctr[f]
<1>0. /\ ctr \in [Counted -> Nat] /\ hist \in Nat
      /\ Counted = {"completed", "pass", "fail", "rate_limited"}
  BY FieldSets DEF TypeOK, SharedTypeOK
<1>1. CASE \E v \in Answers, ra \in RetryAfters : Receive(c, v, ra)
  <2>1. Goto(c, "counting") /\ pc[c] = "awaiting" /\ hist' = hist + 1 /\ ctr' = ctr
    BY <1>1 DEF Receive
  <2>2. At(AtCount)' = At(AtCount) + 1 /\ At(AtJudge)' = At(AtJudge) /\ At(AtCount) \in Nat
    BY <2>1, AtMoves DEF Steps, AtCount, AtJudge
  <2> QED
    BY <1>0, <2>1, <2>2 DEF Accounts
<1>2. CASE Count(c)
  <2>1. /\ ctr' = [ctr EXCEPT !["completed"] = @ + 1] /\ hist' = hist
        /\ pc[c] = "counting"
    BY <1>2 DEF Count
  <2>2. PICK l \in AtJudge : Goto(c, l)
    BY <1>2 DEF Count, AtJudge
  <2>3. At(AtCount)' = At(AtCount) - 1 /\ At(AtCount) \in Nat
    BY <2>1, <2>2, AtMoves DEF Steps, AtCount, AtJudge
  <2>4. At(AtJudge)' = At(AtJudge) + 1 /\ At(AtJudge) \in Nat
    BY <2>1, <2>2, AtMoves DEF Steps, AtJudge
  <2> QED
    BY <1>0, <2>1, <2>3, <2>4 DEF Accounts, Judged
<1>3. CASE Judge(c)
  <2>0. PICK v \in {"pass", "fail", "rate_limited"} : v = got[c].verdict
    BY DEF TypeOK, ConnTypeOK, Responses, Verdicts
  <2>1. ctr' = [ctr EXCEPT ![v] = @ + 1] /\ hist' = hist /\ pc[c] = "judging"
    BY <1>3, <2>0 DEF Judge
  <2>2. PICK l \in {"top", "claiming", "obeying"} : Goto(c, l)
    BY <1>3 DEF Judge
  <2>3. At(AtCount)' = At(AtCount) /\ At(AtCount) \in Nat
    BY <2>1, <2>2, AtMoves DEF Steps, AtCount
  <2>4. At(AtJudge)' = At(AtJudge) - 1 /\ At(AtJudge) \in Nat
    BY <2>1, <2>2, AtMoves DEF Steps, AtJudge
  <2>5. Judged(ctr') = Judged(ctr) + 1 /\ ctr'["completed"] = ctr["completed"]
    BY <1>0, <2>1 DEF Judged
  <2>6. \A f \in Counted : ctr'[f] >= ctr[f]
    BY <1>0, <2>1
  <2> QED
    BY <1>0, <2>1, <2>3, <2>4, <2>5, <2>6 DEF Accounts, Judged
<1>4. ASSUME Connection(c), ~Count(c), ~Judge(c),
             ~\E v \in Answers, ra \in RetryAfters : Receive(c, v, ra)
      PROVE  Accounts' /\ \A f \in Counted : ctr'[f] >= ctr[f]
  <2>1. UNCHANGED <<ctr, hist>>
    BY <1>4 DEF Connection, Dial, LoopTop, LeaveAtDeadline, Send, WriteFails, ReadFails,
           TakeNumber, PushSample, ClaimOnset, StoreOnset, Obey, PauseEnds, sharedVars
  <2>2. \E l \in Steps : /\ Goto(c, l)
                         /\ l \in AtCount <=> pc[c] \in AtCount
                         /\ l \in AtJudge <=> pc[c] \in AtJudge
    BY <1>4 DEF Connection, Dial, LoopTop, LeaveAtDeadline, Send, WriteFails, ReadFails,
           TakeNumber, PushSample, ClaimOnset, StoreOnset, Obey, PauseEnds, Steps, AtCount, AtJudge
  <2>3. At(AtCount)' = At(AtCount) /\ At(AtJudge)' = At(AtJudge)
    BY <2>2, AtMoves
  <2> QED
    BY <1>0, <2>1, <2>3 DEF Accounts, Judged
<1> QED
  BY <1>1, <1>2, <1>3, <1>4

\* The position of a counter in the load order.
Rank(f) == IF f = "completed" THEN 1 ELSE IF f = "pass" THEN 2 ELSE IF f = "fail" THEN 3 ELSE 4

\* What the tick will hold of a counter if the rest of it is loaded now.
Seen(f) == IF Rank(f) <= tick.loaded THEN tick.cum[f] ELSE ctr[f]

\* What is known of the tick on its way.
TickSoFar ==
  /\ \A f \in Counted : PrevCum[f] <= Seen(f) /\ Seen(f) <= ctr[f]
  /\ tick.loaded >= 1 =>
       tick.cum["completed"] <= Seen("pass") + Seen("fail") + Seen("rate_limited")
                                  + Cardinality(Conns)
  /\ tpc \in {"rest", "sending"} => tick.loaded = 4
  /\ tpc = "sending" => tick.hist >= tick.cum["completed"] /\ tick.hist >= Judged(tick.cum)

HonestInv == Accounts /\ TickSoFar /\ TicksAreHonest

\* Counters that grow leave the tick on its way as true as it was.
LEMMA TickSoFarGrows ==
  ASSUME TypeOK, TickSoFar, TypeOK', UNCHANGED tickerVars, \A f \in Counted : ctr'[f] >= ctr[f]
  PROVE  TickSoFar'
<1>0. /\ ctr \in [Counted -> Nat] /\ ctr' \in [Counted -> Nat]
      /\ Counted = {"completed", "pass", "fail", "rate_limited"}
      /\ tick \in Loading /\ PrevCum \in [Counted -> Nat]
  BY FieldSets, TickerTypes, PrevType DEF TypeOK, SharedTypeOK
<1>1. tick' = tick /\ tpc' = tpc /\ PrevCum' = PrevCum
  BY DEF tickerVars, PrevCum
<1>2. \A f \in Counted : Seen(f) \in Nat /\ Seen(f)' \in Nat /\ Seen(f)' >= Seen(f)
                        /\ (Rank(f) <= tick.loaded => Seen(f)' = Seen(f))
                        /\ (~(Rank(f) <= tick.loaded) => Seen(f)' = ctr'[f])
  BY <1>0, <1>1 DEF Seen, Loading
<1>3. \A f \in Counted : PrevCum'[f] <= Seen(f)' /\ Seen(f)' <= ctr'[f]
  BY <1>0, <1>1, <1>2 DEF TickSoFar
<1>4. Cardinality(Conns) \in Nat
  BY Constants, FS_CardinalityType
<1>5. tick'.loaded >= 1 =>
        tick'.cum["completed"] <= Seen("pass")' + Seen("fail")' + Seen("rate_limited")'
                                    + Cardinality(Conns)
  BY <1>0, <1>1, <1>2, <1>4 DEF TickSoFar, Loading
<1> QED
  BY <1>1, <1>3, <1>5 DEF TickSoFar

\* Loading the next counter: it is the newest there is, and the first one loaded
\* is ahead of the verdicts by the responses being judged.
LEMMA LoadSoFar ==
  ASSUME TypeOK, TypeOK', Accounts, TickSoFar, LoadCounter
  PROVE  TickSoFar'
<1> DEFINE n == tick.loaded
           f == LoadOrder[n + 1]
<1>0. /\ ctr \in [Counted -> Nat] /\ tick \in Loading /\ PrevCum \in [Counted -> Nat]
      /\ Counted = {"completed", "pass", "fail", "rate_limited"}
      /\ tpc = "loading" /\ n \in {0, 1, 2, 3} /\ tick' \in Loading
  <2>1. tick' \in Loading
    BY LoadOrderIs DEF TypeOK, TickerTypeOK, Loading
  <2> QED
    BY <2>1, FieldSets, TickerTypes, PrevType DEF TypeOK, SharedTypeOK, LoadCounter, Loading
<1>1. f \in Counted /\ Rank(f) = n + 1
  BY <1>0, LoadOrderIs DEF Rank
<1>2. /\ tick' = [tick EXCEPT !.loaded = @ + 1, !.cum = [@ EXCEPT ![f] = ctr[f]]]
      /\ UNCHANGED <<ctr, ticks>>
      /\ tpc' = IF tick'.loaded = 4 THEN "rest" ELSE "loading"
  BY LoadOrderIs DEF LoadCounter, sharedVars
<1> HIDE DEF f
<1>3. /\ tick'.loaded = n + 1
      /\ tick'.cum[f] = ctr[f] /\ \A g \in Counted \ {f} : tick'.cum[g] = tick.cum[g]
  BY <1>0, <1>1, <1>2 DEF Loading
<1>4. \A g \in Counted : Seen(g)' = Seen(g)
  <2> SUFFICES ASSUME NEW g \in Counted PROVE Seen(g)' = Seen(g)
    OBVIOUS
  <2>1. CASE g = f
    BY <1>0, <1>1, <1>2, <1>3, <2>1 DEF Seen
  <2>2. CASE g # f
    <3>1. Rank(g) # n + 1
      BY <1>0, <1>1, <2>2 DEF Rank
    <3>2. Rank(g) <= n <=> Rank(g) <= n + 1
      BY <1>0, <3>1 DEF Rank
    <3>3. tick'.cum[g] = tick.cum[g]
      BY <1>3, <2>2
    <3> QED
      BY <1>2, <1>3, <3>2, <3>3 DEF Seen
  <2> QED
    BY <2>1, <2>2
<1>5. PrevCum' = PrevCum
  BY <1>2 DEF PrevCum
<1>6. tick'.cum["completed"] <= Seen("pass") + Seen("fail") + Seen("rate_limited")
                                  + Cardinality(Conns)
  <2>1. CASE n = 0
    <3>1. f = "completed"
      BY <2>1, LoadOrderIs DEF f
    <3>2. Seen("pass") = ctr["pass"] /\ Seen("fail") = ctr["fail"]
          /\ Seen("rate_limited") = ctr["rate_limited"]
      BY <2>1 DEF Seen, Rank
    <3>3. At(AtJudge) \in Nat /\ At(AtJudge) <= Cardinality(Conns) /\ Cardinality(Conns) \in Nat
      <4> DEFINE S == {c \in Conns : pc[c] \in AtJudge}
      <4>1. S \in SUBSET Conns /\ IsFiniteSet(Conns)
        BY Constants
      <4> HIDE DEF S
      <4>2. IsFiniteSet(S) /\ Cardinality(S) <= Cardinality(Conns)
        BY <4>1, FS_Subset
      <4>3. Cardinality(S) \in Nat /\ Cardinality(Conns) \in Nat
        BY <4>1, <4>2, FS_CardinalityType
      <4>4. At(AtJudge) = Cardinality(S)
        BY DEF At, S
      <4> QED
        BY <4>2, <4>3, <4>4
    <3> QED
      BY <1>0, <1>3, <3>1, <3>2, <3>3 DEF Accounts, Judged
  <2>2. CASE n # 0
    <3>1. f # "completed"
      BY <1>0, <1>1, <2>2 DEF Rank
    <3>2. tick'.cum["completed"] = tick.cum["completed"] /\ n >= 1
      BY <1>0, <1>3, <2>2, <3>1
    <3> QED
      BY <3>2 DEF TickSoFar
  <2> QED
    BY <2>1, <2>2
<1>7. "pass" \in Counted /\ "fail" \in Counted /\ "rate_limited" \in Counted
  BY <1>0
<1>8. tpc' # "sending" /\ (tpc' = "rest" => tick'.loaded = 4)
  BY <1>2
<1>9. \A g \in Counted : PrevCum'[g] <= Seen(g)' /\ Seen(g)' <= ctr'[g]
  BY <1>2, <1>4, <1>5 DEF TickSoFar
<1>10. tick'.cum["completed"] <= Seen("pass")' + Seen("fail")' + Seen("rate_limited")'
                                  + Cardinality(Conns)
  BY <1>4, <1>6, <1>7
<1> QED
  BY <1>8, <1>9, <1>10 DEF TickSoFar

\* The histogram is copied after the counters were loaded.
LEMMA RestSoFar ==
  ASSUME TypeOK, Accounts, TickSoFar, LoadRest
  PROVE  TickSoFar'
<1>0. /\ ctr \in [Counted -> Nat] /\ tick \in Loading /\ hist \in Nat
      /\ Counted = {"completed", "pass", "fail", "rate_limited"}
  BY FieldSets, TickerTypes DEF TypeOK, SharedTypeOK
<1>1. /\ UNCHANGED <<ctr, ticks>> /\ tick'.hist = hist
      /\ tick'.loaded = tick.loaded /\ tick'.cum = tick.cum
      /\ tpc = "rest" /\ tpc' = "sending"
  BY <1>0 DEF LoadRest, sharedVars, Loading
<1>2. PrevCum' = PrevCum /\ \A f \in Counted : Seen(f)' = Seen(f)
  BY <1>1 DEF PrevCum, Seen
<1>3. Seen("pass")' = Seen("pass") /\ Seen("fail")' = Seen("fail")
      /\ Seen("rate_limited")' = Seen("rate_limited")
  BY <1>0, <1>2
<1>4. hist >= ctr["completed"] /\ hist >= Judged(ctr)
  <2> DEFINE S == {c \in Conns : pc[c] \in AtCount}
             T == {c \in Conns : pc[c] \in AtJudge}
  <2>1. S \in SUBSET Conns /\ T \in SUBSET Conns /\ IsFiniteSet(Conns)
    BY Constants
  <2> HIDE DEF S, T
  <2>2. Cardinality(S) \in Nat /\ Cardinality(T) \in Nat
    BY <2>1, FS_Subset, FS_CardinalityType
  <2>3. At(AtCount) = Cardinality(S) /\ At(AtJudge) = Cardinality(T)
    BY DEF At, S, T
  <2> QED
    BY <1>0, <2>2, <2>3 DEF Accounts, Judged
<1>5. tick.cum["completed"] <= ctr["completed"]
  BY <1>0, <1>1 DEF TickSoFar, Seen, Rank
<1>a. tick.loaded = 4
  BY <1>1 DEF TickSoFar
<1>b. \A f \in Counted : tick.cum[f] <= ctr[f]
  BY <1>0, <1>a DEF TickSoFar, Seen, Rank
<1>6. tick'.hist >= tick'.cum["completed"] /\ tick'.hist >= Judged(tick'.cum)
  BY <1>0, <1>1, <1>4, <1>5, <1>b DEF Loading, Judged
<1> QED
  BY <1>1, <1>2, <1>3, <1>6 DEF TickSoFar

\* The tick that is sent is honest, and its counts are the next one's base.
LEMMA SendHonest ==
  ASSUME TypeOK, TickSoFar, TicksAreHonest, SendTick
  PROVE  TickSoFar' /\ TicksAreHonest'
<1> DEFINE new == [cum |-> tick.cum, this |-> Delta, onset |-> tick.onset,
                   hist |-> tick.hist, sampled |-> samples]
<1>n. PICK n \in Nat : n = Len(ticks)
  BY TickerTypes DEF TypeOK
<1>0. /\ ctr \in [Counted -> Nat] /\ tick \in Loading /\ ticks \in Seq(Sent)
      /\ Counted = {"completed", "pass", "fail", "rate_limited"}
      /\ PrevCum \in [Counted -> Nat]
  BY FieldSets, TickerTypes, PrevType DEF TypeOK, SharedTypeOK
<1>1. /\ ticks' = Append(ticks, new) /\ tick' = NoTick /\ ctr' = ctr
      /\ tpc = "sending" /\ tpc' \in {"ended", "asleep"}
  BY DEF SendTick, sharedVars
<1>2. new.cum = tick.cum /\ new.this = Delta /\ new.hist = tick.hist
  OBVIOUS
<1> HIDE DEF new
<1>3. /\ Len(ticks') = n + 1 /\ ticks'[n + 1] = new
      /\ \A i \in 1 .. n : ticks'[i] = ticks[i]
  BY <1>0, <1>1, <1>n
<1>4. tick.loaded = 4 /\ \A f \in Counted : Seen(f) = tick.cum[f] /\ Seen(f)' = ctr[f]
  BY <1>0, <1>1 DEF TickSoFar, Seen, Rank, NoTick
<1>5. ticks' # <<>>
  BY <1>3
<1>6. PrevCum' = tick.cum
  BY <1>2, <1>3, <1>5 DEF PrevCum
<1>7. TickSoFar'
  <2>1. tick'.loaded = 0
    BY <1>1 DEF NoTick
  <2>2. \A f \in Counted : PrevCum'[f] <= Seen(f)' /\ Seen(f)' <= ctr'[f]
    BY <1>0, <1>1, <1>4, <1>6 DEF TickSoFar
  <2> QED
    BY <1>1, <2>1, <2>2 DEF TickSoFar
<1>8. ASSUME NEW i \in 1 .. n
      PROVE  TickIsHonest(i)'
  <2>1. TickIsHonest(i)
    BY <1>8, <1>n DEF TicksAreHonest
  <2>2. ticks'[i] = ticks[i] /\ (i # 1 => ticks'[i - 1] = ticks[i - 1])
    BY <1>3, <1>8
  <2> QED
    BY <2>1, <2>2 DEF TickIsHonest
<1>9. TickIsHonest(n + 1)'
  <2>1. tick.hist >= tick.cum["completed"] /\ tick.hist >= Judged(tick.cum)
    BY <1>1 DEF TickSoFar
  <2>2. tick.cum["completed"] <= Judged(tick.cum) + Cardinality(Conns)
    BY <1>0, <1>4 DEF TickSoFar, Judged
  <2>3. \A f \in Counted : Delta[f] + PrevCum[f] = tick.cum[f]
    <3> SUFFICES ASSUME NEW f \in Counted PROVE Delta[f] + PrevCum[f] = tick.cum[f]
      OBVIOUS
    <3>1. PrevCum[f] <= tick.cum[f] /\ PrevCum[f] \in Nat /\ tick.cum[f] \in Nat
      BY <1>0, <1>4 DEF TickSoFar, Loading
    <3>2. Delta[f] = tick.cum[f] - PrevCum[f]
      BY <3>1 DEF Delta, SatSub
    <3> QED
      BY <3>1, <3>2
  <2>4. \A f \in Counted : PrevCum[f] = IF n + 1 = 1 THEN 0 ELSE ticks'[n].cum[f]
    <3>1. CASE n = 0
      <4>a. ticks # <<>> => Len(ticks) > 0
        <5>1. ticks \in Seq(Sent)
          BY <1>0
        <5> QED
          BY <5>1
      <4>0. ticks = <<>>
        BY <1>n, <3>1, <4>a
      <4>1. PrevCum = Zero
        BY <4>0 DEF PrevCum
      <4> QED
        BY <3>1, <4>1, ZeroType
    <3>2. CASE n # 0
      <4>1. ticks # <<>> /\ n \in 1 .. n /\ n + 1 # 1
        BY <1>n, <3>2
      <4>2. PrevCum = ticks[n].cum
        BY <1>n, <4>1 DEF PrevCum
      <4> QED
        BY <1>3, <4>1, <4>2
    <3> QED
      BY <3>1, <3>2
  <2>5. (n + 1) - 1 = n
    BY <1>3
  <2> QED
    BY <1>2, <1>3, <2>1, <2>2, <2>3, <2>4, <2>5 DEF TickIsHonest
<1>10. TicksAreHonest'
  <2>1. 1 .. (n + 1) = (1 .. n) \cup {n + 1}
    BY <1>3
  <2> QED
    BY <1>3, <1>8, <1>9, <2>1 DEF TicksAreHonest
<1> QED
  BY <1>7, <1>10

\* The accounts and the tick through every step.
LEMMA HonestStep ==
  ASSUME TypeOK, Between, TypeOK', HonestInv, [Next]_vars
  PROVE  HonestInv'
<1>0. Accounts /\ TickSoFar /\ TicksAreHonest
  BY DEF HonestInv
<1>t. ctr \in [Counted -> Nat]
  BY DEF TypeOK, SharedTypeOK
<1>1. ASSUME NEW c \in Conns, Connection(c) PROVE HonestInv'
  <2>1. UNCHANGED tickerVars
    BY <1>1 DEF Connection, Dial, LoopTop, LeaveAtDeadline, Send, WriteFails, ReadFails, Receive,
           Count, TakeNumber, PushSample, Judge, ClaimOnset, StoreOnset, Obey, PauseEnds
  <2>2. Accounts' /\ \A f \in Counted : ctr'[f] >= ctr[f]
    BY <1>0, <1>1, ConnAccounts
  <2>3. TickSoFar'
    BY <1>0, <2>1, <2>2, TickSoFarGrows
  <2>4. TicksAreHonest'
    BY <1>0, <2>1 DEF tickerVars, TicksAreHonest, TickIsHonest
  <2> QED
    BY <2>2, <2>3, <2>4 DEF HonestInv
<1>2. ASSUME UNCHANGED <<pc, ctr, hist>> PROVE Accounts'
  BY <1>0, <1>2 DEF Accounts, At, Judged
<1>3. CASE LoadCounter
  <2>1. UNCHANGED <<pc, ctr, hist, ticks>>
    BY <1>3 DEF LoadCounter, connVars, sharedVars
  <2> QED
    BY <1>0, <1>2, <1>3, <2>1, LoadSoFar DEF HonestInv, TicksAreHonest, TickIsHonest
<1>4. CASE LoadRest
  <2>1. UNCHANGED <<pc, ctr, hist, ticks>>
    BY <1>4 DEF LoadRest, connVars, sharedVars
  <2> QED
    BY <1>0, <1>2, <1>4, <2>1, RestSoFar DEF HonestInv, TicksAreHonest, TickIsHonest
<1>5. CASE SendTick
  <2>1. UNCHANGED <<pc, ctr, hist>>
    BY <1>5 DEF SendTick, connVars, sharedVars
  <2> QED
    BY <1>0, <1>2, <1>5, <2>1, SendHonest DEF HonestInv
<1>6. CASE Wake \/ Return \/ Cancel \/ SecondPasses \/ UNCHANGED vars
  <2>1. UNCHANGED <<pc, ctr, hist, tick, ticks>>
    BY <1>6 DEF Wake, Return, Cancel, SecondPasses, vars, connVars, sharedVars, tickerVars
  <2>2. tpc' = tpc \/ tpc' = "loading"
    BY <1>6 DEF Wake, Return, Cancel, SecondPasses, vars, tickerVars
  <2>3. TickSoFar'
    BY <1>0, <2>1, <2>2 DEF TickSoFar, Seen, PrevCum
  <2> QED
    BY <1>0, <1>2, <2>1, <2>3 DEF HonestInv, TicksAreHonest, TickIsHonest
<1>7. CASE Start
  <2>1. /\ UNCHANGED <<ctr, hist, tick, ticks>> /\ tpc' \in {"asleep", "ended"}
        /\ \A c \in Conns : /\ pc[c] \in {"barrier", "failed"}
                             /\ pc'[c] \in {"top", "done"}
    BY <1>7 DEF Start, sharedVars
  <2>2. /\ {c \in Conns : pc'[c] \in AtCount} = {c \in Conns : pc[c] \in AtCount}
        /\ {c \in Conns : pc'[c] \in AtJudge} = {c \in Conns : pc[c] \in AtJudge}
    BY <2>1 DEF AtCount, AtJudge
  <2>3. At(AtCount)' = At(AtCount) /\ At(AtJudge)' = At(AtJudge)
    BY <2>2 DEF At
  <2>4. Accounts'
    BY <1>0, <2>1, <2>3 DEF Accounts, Judged
  <2>5. TickSoFar'
    BY <1>0, <2>1 DEF TickSoFar, Seen, PrevCum
  <2> QED
    BY <1>0, <2>1, <2>4, <2>5 DEF HonestInv, TicksAreHonest, TickIsHonest
<1> QED
  BY <1>1, <1>3, <1>4, <1>5, <1>6, <1>7 DEF Next, Ticker, Quiet

\* The initial counters agree.
LEMMA HonestInit ==
  ASSUME Init
  PROVE  HonestInv
<1>1. TypeOK /\ Counted = {"completed", "pass", "fail", "rate_limited"}
  BY InitTypes, FieldSets
<1>2. At(AtCount) = 0 /\ At(AtJudge) = 0
  <2>1. {c \in Conns : pc[c] \in AtCount} = {} /\ {c \in Conns : pc[c] \in AtJudge} = {}
    BY DEF Init, AtCount, AtJudge
  <2> QED
    BY <2>1, FS_EmptySet DEF At
<1>3. \A f \in Counted : ctr[f] = 0
  BY ZeroType DEF Init
<1>4. Accounts
  BY <1>1, <1>2, <1>3 DEF Init, Accounts, Judged
<1>5. ticks = <<>> /\ tick = NoTick /\ tpc = "idle" /\ PrevCum = Zero /\ Len(ticks) = 0
  BY DEF Init, PrevCum
<1>6. TickSoFar
  BY <1>1, <1>3, <1>5, ZeroType DEF TickSoFar, Seen, Rank, NoTick
<1> QED
  BY <1>4, <1>5, <1>6 DEF HonestInv, TicksAreHonest

\* However many connections there are, the histogram of a tick has all that the tick
\* counts or judges, its verdicts lag its total by one response a connection at
\* most, and the ticks add up to their totals.
THEOREM TornReadsAreHonest == Spec => []TicksAreHonest
<1>1. Init => HonestInv
  BY HonestInit
<1>2. TypeOK /\ Between /\ TypeOK' /\ HonestInv /\ [Next]_vars => HonestInv'
  BY HonestStep
<1>3. HonestInv => TicksAreHonest
  BY DEF HonestInv
<1> QED
  BY <1>1, <1>2, <1>3, EngineTypeCorrect, PTL DEF Spec
-----------------------------------------------------------------------------
(***************************************************************************)
(* ReportIsExact                                                           *)
(***************************************************************************)

\* What the connections' own results have for a field, together.
ResSum(f) == SumFunction([c \in Conns |-> res[c][f]])

\* The shared counters are the sums of the connections' own.
SumsMatch ==
  /\ \A f \in Counted : ctr[f] = ResSum(f)
  /\ backoff = ResSum("backoff")

\* Only a connection that counted a 429 claims and stores the onset, the first
\* that did is at it or was, and the flag means that one is at it or was.
OnsetKnown ==
  /\ onset # None => RecordOnset /\ onset \in Conns /\ res[onset].rate_limited > 0
  /\ \A c \in Conns :
       /\ pc[c] \in {"claiming", "storing"} => RecordOnset /\ res[c].rate_limited > 0
       /\ RecordOnset /\ res[c].rate_limited > 0 => seen429 \/ pc[c] = "claiming"
  /\ seen429 => onset # None \/ \E c \in Conns : pc[c] = "storing"

\* After the return nothing moves any more, and the report is what it was made of.
Reported ==
  main = "returned" =>
    /\ \A c \in Conns : pc[c] = "done"
    /\ report = [counts |-> Totals, hist |-> hist, onset |-> onset]

\* What the report depends on; inductive beside the accounts.
ReportInv == SumsMatch /\ OnsetKnown /\ Reported

\* An entry in one connection's results is an entry in the sum of that field.
LEMMA AddSum ==
  ASSUME ConnTypeOK, NEW c \in Conns, NEW f \in Fields, NEW n \in Nat, Add(c, f, n)
  PROVE  /\ \A g \in Fields : ResSum(g) \in Nat
         /\ ResSum(f)' = ResSum(f) + n
         /\ \A g \in Fields \ {f} : ResSum(g)' = ResSum(g)
<1>0. /\ res \in [Conns -> [Fields -> Nat]] /\ res' \in [Conns -> [Fields -> Nat]]
      /\ res'[c][f] = res[c][f] + n
      /\ \A g \in Fields \ {f} : res'[c][g] = res[c][g]
      /\ \A d \in Conns \ {c} : res'[d] = res[d]
  BY AddType, FieldSets DEF ConnTypeOK
<1>1. ASSUME NEW g \in Fields
      PROVE  /\ [d \in Conns |-> res[d][g]] \in [Conns -> Nat]
             /\ [d \in Conns |-> res'[d][g]] \in [Conns -> Nat]
  BY <1>0
<1>2. \A g \in Fields : ResSum(g) \in Nat
  BY <1>1, Constants, SumType DEF ResSum
<1>3. ResSum(f)' = ResSum(f) + n
  <2> DEFINE old == [d \in Conns |-> res[d][f]]
             new == [d \in Conns |-> res'[d][f]]
  <2>1. /\ old \in [Conns -> Nat] /\ new \in [Conns -> Nat]
        /\ new[c] = old[c] + n /\ \A d \in Conns \ {c} : new[d] = old[d]
    BY <1>0, <1>1
  <2>2. ResSum(f) = SumFunction(old) /\ ResSum(f)' = SumFunction(new)
    BY DEF ResSum
  <2> HIDE DEF old, new
  <2>3. /\ SumFunction(old) \in Nat /\ SumFunction(new) \in Nat
        /\ SumFunction(new) - new[c] = SumFunction(old) - old[c]
    BY <2>1, Constants, SumChange
  <2>4. old[c] \in Nat
    BY <2>1
  <2> QED
    BY <2>1, <2>2, <2>3, <2>4
<1>4. ASSUME NEW g \in Fields \ {f} PROVE ResSum(g)' = ResSum(g)
  <2>1. [d \in Conns |-> res'[d][g]] = [d \in Conns |-> res[d][g]]
    BY <1>0
  <2> QED
    BY <2>1 DEF ResSum
<1> QED
  BY <1>2, <1>3, <1>4

\* A connection enters a response in its own results and in the counters alike.
LEMMA ConnSums ==
  ASSUME TypeOK, SumsMatch, NEW c \in Conns, Connection(c)
  PROVE  SumsMatch'
<1>0. /\ ConnTypeOK /\ ctr \in [Counted -> Nat]
      /\ Counted \subseteq Fields /\ "backoff" \in Fields \ Counted
      /\ Errors \subseteq Fields /\ Errors \cap Counted = {} /\ "backoff" \notin Errors
  BY FieldSets DEF TypeOK, SharedTypeOK, Fields
<1>1. ASSUME NEW f \in Counted, Add(c, f, 1), ctr' = [ctr EXCEPT ![f] = @ + 1],
             backoff' = backoff
      PROVE  SumsMatch'
  <2>1. /\ ResSum(f)' = ResSum(f) + 1
        /\ \A g \in Fields \ {f} : ResSum(g)' = ResSum(g)
    BY <1>0, <1>1, AddSum
  <2> QED
    BY <1>0, <1>1, <2>1 DEF SumsMatch
<1>2. CASE Count(c) \/ Judge(c)
  <2>1. PICK f \in Counted : Add(c, f, 1) /\ ctr' = [ctr EXCEPT ![f] = @ + 1]
    BY <1>0, <1>2, FieldSets DEF Count, Judge, ConnTypeOK, Responses, Verdicts
  <2>2. backoff' = backoff
    BY <1>2 DEF Count, Judge
  <2> QED
    BY <1>1, <2>1, <2>2
<1>3. ASSUME NEW e \in Errors, Add(c, e, 1), UNCHANGED <<ctr, backoff>> PROVE SumsMatch'
  <2>1. \A g \in Fields \ {e} : ResSum(g)' = ResSum(g)
    BY <1>0, <1>3, AddSum
  <2> QED
    BY <1>0, <1>3, <2>1 DEF SumsMatch
<1>4. ASSUME UNCHANGED <<res, ctr, backoff>> PROVE SumsMatch'
  BY <1>4 DEF SumsMatch, ResSum
<1>5. CASE Obey(c)
  <2>1. Pause(c) \in Nat
    BY <1>0, PauseType
  <2>2. CASE UNCHANGED <<res, backoff>>
    BY <1>4, <1>5, <2>2 DEF Obey
  <2>3. CASE Add(c, "backoff", Pause(c)) /\ backoff' = backoff + Pause(c)
    <3>1. /\ ResSum("backoff")' = ResSum("backoff") + Pause(c)
          /\ \A g \in Fields \ {"backoff"} : ResSum(g)' = ResSum(g)
      <4>1. PICK n \in Nat : n = Pause(c)
        BY <2>1
      <4> QED
        BY <1>0, <2>3, <4>1, AddSum
    <3>2. ctr' = ctr
      BY <1>5 DEF Obey
    <3> QED
      BY <1>0, <2>3, <3>1, <3>2 DEF SumsMatch
  <2> QED
    BY <1>5, <2>2, <2>3 DEF Obey
<1>6. CASE \/ Dial(c) \/ WriteFails(c) \/ \E e \in Errors : ReadFails(c, e)
  <2>1. UNCHANGED <<ctr, backoff>> /\ (UNCHANGED res \/ \E e \in Errors : Add(c, e, 1))
    BY <1>6, FieldSets DEF Dial, WriteFails, ReadFails, sharedVars
  <2> QED
    BY <1>3, <1>4, <2>1
<1>7. CASE \/ LoopTop(c) \/ LeaveAtDeadline(c) \/ Send(c) \/ PauseEnds(c)
           \/ TakeNumber(c) \/ PushSample(c)
           \/ ClaimOnset(c) \/ StoreOnset(c)
           \/ \E v \in Answers, ra \in RetryAfters : Receive(c, v, ra)
  <2>1. UNCHANGED <<res, ctr, backoff>>
    BY <1>7 DEF LoopTop, LeaveAtDeadline, Send, PauseEnds, TakeNumber, PushSample, ClaimOnset, StoreOnset,
           Receive, sharedVars
  <2> QED
    BY <1>4, <2>1
<1> QED
  BY <1>2, <1>5, <1>6, <1>7 DEF Connection

\* The first connection to count a 429 claims the onset and stores it.
LEMMA ConnOnset ==
  ASSUME TypeOK, OnsetKnown, NEW c \in Conns, Connection(c)
  PROVE  OnsetKnown'
<1>0. /\ ConnTypeOK /\ pc \in [Conns -> Steps] /\ res \in [Conns -> [Fields -> Nat]]
      /\ "rate_limited" \in Fields /\ None \notin Conns /\ onset \in Conns \cup {None}
  BY FieldSets, Constants DEF TypeOK, ConnTypeOK, SharedTypeOK, Fields
\* Steps that neither count a 429 nor have to do with the onset.
<1>1. ASSUME NEW l \in Steps \ {"claiming", "storing"}, Goto(c, l),
             pc[c] \notin {"claiming", "storing"}, UNCHANGED <<seen429, onset>>,
             \A d \in Conns : res'[d].rate_limited = res[d].rate_limited
      PROVE  OnsetKnown'
  <2>1. pc'[c] = l /\ \A d \in Conns \ {c} : pc'[d] = pc[d]
    BY <1>0, <1>1, GotoType
  <2> QED
    BY <1>0, <1>1, <2>1 DEF OnsetKnown
<1>2. ASSUME NEW f \in Fields \ {"rate_limited"}, NEW n \in Nat, Add(c, f, n)
      PROVE  \A d \in Conns : res'[d].rate_limited = res[d].rate_limited
  BY <1>0, <1>2, AddType
<1>3. CASE Count(c)
  <2>1. PICK l \in {"sampling", "judging"} : Goto(c, l)
    BY <1>3 DEF Count
  <2>2. "completed" \in Fields \ {"rate_limited"} /\ l \in Steps \ {"claiming", "storing"}
    BY <2>1 DEF Fields, Steps
  <2>3. \A d \in Conns : res'[d].rate_limited = res[d].rate_limited
    BY <1>2, <1>3, <2>2 DEF Count
  <2> QED
    BY <1>1, <1>3, <2>1, <2>2, <2>3 DEF Count
<1>4. CASE Obey(c)
  <2>1. PICK l \in {"top", "pausing"} : Goto(c, l)
    BY <1>4 DEF Obey
  <2>2. "backoff" \in Fields \ {"rate_limited"} /\ l \in Steps \ {"claiming", "storing"}
    BY <2>1 DEF Fields, Steps
  <2>3. Pause(c) \in Nat
    BY <1>0, PauseType
  <2>4. UNCHANGED res \/ Add(c, "backoff", Pause(c))
    BY <1>4 DEF Obey
  <2>5. \A d \in Conns : res'[d].rate_limited = res[d].rate_limited
    BY <1>2, <2>2, <2>3, <2>4
  <2> QED
    BY <1>1, <1>4, <2>1, <2>2, <2>5 DEF Obey
<1>5. CASE \/ Dial(c) \/ WriteFails(c) \/ \E e \in Errors : ReadFails(c, e)
  <2>1. PICK l \in {"barrier", "failed", "done"} : Goto(c, l)
    BY <1>5 DEF Dial, WriteFails, ReadFails
  <2>2. /\ UNCHANGED <<seen429, onset>> /\ pc[c] \in {"dial", "pacing", "awaiting"}
        /\ UNCHANGED res \/ \E e \in Errors : Add(c, e, 1)
    BY <1>5, FieldSets DEF Dial, WriteFails, ReadFails, sharedVars
  <2>3. Errors \subseteq Fields \ {"rate_limited"} /\ l \in Steps \ {"claiming", "storing"}
    BY <2>1, FieldSets DEF Fields, Steps
  <2>4. \A d \in Conns : res'[d].rate_limited = res[d].rate_limited
    BY <1>2, <2>2, <2>3
  <2> QED
    BY <1>1, <2>1, <2>2, <2>3, <2>4
<1>6. CASE \/ LoopTop(c) \/ LeaveAtDeadline(c) \/ Send(c) \/ PauseEnds(c)
           \/ TakeNumber(c) \/ PushSample(c)
           \/ \E v \in Answers, ra \in RetryAfters : Receive(c, v, ra)
  <2>1. PICK l \in {"done", "pacing", "awaiting", "top", "pushing", "judging", "counting"} :
          Goto(c, l)
    BY <1>6 DEF LoopTop, LeaveAtDeadline, Send, PauseEnds, TakeNumber, PushSample, Receive
  <2>2. /\ UNCHANGED <<res, seen429, onset>>
        /\ pc[c] \in {"top", "pacing", "awaiting", "pausing", "sampling", "pushing"}
    BY <1>6 DEF LoopTop, LeaveAtDeadline, Send, PauseEnds, TakeNumber, PushSample, Receive, sharedVars
  <2>3. l \in Steps \ {"claiming", "storing"}
    BY <2>1 DEF Steps
  <2> QED
    BY <1>1, <2>1, <2>2, <2>3
\* Counting one: the connection goes on to claim the onset.
<1>7. CASE Judge(c)
  <2>0. PICK v \in Verdicts : v = got[c].verdict
    BY <1>0 DEF ConnTypeOK, Responses
  <2>1. Add(c, v, 1) /\ pc[c] = "judging" /\ UNCHANGED <<seen429, onset>>
    BY <1>7, <2>0 DEF Judge
  <2>2. PICK l \in {"top", "claiming", "obeying"} :
          /\ Goto(c, l)
          /\ l = IF v # "rate_limited" THEN "top" ELSE IF RecordOnset THEN "claiming" ELSE "obeying"
    BY <1>7, <2>0 DEF Judge
  <2>3. l \in Steps /\ v \in Fields
    BY <2>2 DEF Steps, Verdicts, Fields
  <2>4. CASE v # "rate_limited"
    <3>1. \A d \in Conns : res'[d].rate_limited = res[d].rate_limited
      BY <1>2, <2>1, <2>3, <2>4
    <3> QED
      BY <1>1, <2>1, <2>2, <2>3, <2>4, <3>1
  <2>5. CASE v = "rate_limited"
    <3>1. /\ res'[c].rate_limited = res[c].rate_limited + 1 /\ res[c].rate_limited \in Nat
          /\ \A d \in Conns \ {c} : res'[d] = res[d]
      BY <1>0, <2>1, <2>5, AddType
    <3>2. pc'[c] = l /\ \A d \in Conns \ {c} : pc'[d] = pc[d]
      BY <1>0, <2>2, <2>3, GotoType
    <3>3. res'[c].rate_limited > 0
      BY <3>1
    <3> QED
      BY <1>0, <2>1, <2>2, <2>5, <3>1, <3>2, <3>3 DEF OnsetKnown
  <2> QED
    BY <2>4, <2>5
<1>8. CASE ClaimOnset(c)
  <2>1. /\ pc[c] = "claiming" /\ seen429' = TRUE /\ UNCHANGED <<res, onset>>
        /\ Goto(c, IF seen429 THEN "obeying" ELSE "storing")
    BY <1>8 DEF ClaimOnset
  <2>2. PICK l \in {"obeying", "storing"} : Goto(c, l) /\ (l = "obeying" => seen429)
    BY <2>1
  <2>3. pc'[c] = l /\ \A d \in Conns \ {c} : pc'[d] = pc[d]
    BY <1>0, <2>2, GotoType DEF Steps
  <2> QED
    BY <1>0, <2>1, <2>2, <2>3 DEF OnsetKnown
<1>9. CASE StoreOnset(c)
  <2>1. pc[c] = "storing" /\ onset' = c /\ UNCHANGED <<res, seen429>> /\ Goto(c, "obeying")
    BY <1>9 DEF StoreOnset
  <2>2. pc'[c] = "obeying" /\ \A d \in Conns \ {c} : pc'[d] = pc[d]
    BY <1>0, <2>1, GotoType DEF Steps
  <2> QED
    BY <1>0, <2>1, <2>2 DEF OnsetKnown
<1> QED
  BY <1>3, <1>4, <1>5, <1>6, <1>7, <1>8, <1>9 DEF Connection

\* What the report depends on, through every step.
LEMMA ReportStep ==
  ASSUME TypeOK, ReportInv, [Next]_vars
  PROVE  ReportInv'
<1>0. SumsMatch /\ OnsetKnown /\ Reported
  BY DEF ReportInv
<1>1. ASSUME NEW c \in Conns, Connection(c) PROVE ReportInv'
  <2>1. pc[c] # "done" /\ UNCHANGED main
    BY <1>1 DEF Connection, Dial, LoopTop, LeaveAtDeadline, Send, WriteFails, ReadFails, Receive,
           Count, TakeNumber, PushSample, Judge, ClaimOnset, StoreOnset, Obey, PauseEnds, mainVars
  <2>2. Reported'
    BY <1>0, <2>1 DEF Reported
  <2> QED
    BY <1>0, <1>1, <2>2, ConnSums, ConnOnset DEF ReportInv
<1>2. ASSUME UNCHANGED <<res, ctr, backoff>> PROVE SumsMatch'
  BY <1>0, <1>2 DEF SumsMatch, ResSum
<1>3. ASSUME UNCHANGED <<pc, res, seen429, onset>> PROVE OnsetKnown'
  BY <1>0, <1>3 DEF OnsetKnown
<1>4. CASE Ticker \/ Cancel \/ SecondPasses \/ UNCHANGED vars
  <2>1. UNCHANGED <<pc, res, ctr, backoff, seen429, onset, hist, main, report>>
    BY <1>4 DEF Ticker, Wake, LoadCounter, LoadRest, SendTick, Cancel, SecondPasses,
           vars, connVars, sharedVars, mainVars
  <2>2. Reported'
    BY <1>0, <2>1 DEF Reported, Totals
  <2> QED
    BY <1>2, <1>3, <2>1, <2>2 DEF ReportInv
<1>5. CASE Start
  <2>1. /\ UNCHANGED <<res, ctr, backoff, seen429, onset>> /\ main' = "running"
        /\ \A c \in Conns : pc[c] \in {"barrier", "failed"} /\ pc'[c] \in {"top", "done"}
    BY <1>5 DEF Start, sharedVars
  <2>2. OnsetKnown'
    BY <1>0, <2>1 DEF OnsetKnown
  <2> QED
    BY <1>2, <2>1, <2>2 DEF ReportInv, Reported
<1>6. CASE Return
  <2>1. /\ UNCHANGED <<pc, res, ctr, backoff, seen429, onset, hist>>
        /\ \A c \in Conns : pc[c] = "done"
        /\ report' = [counts |-> Totals, hist |-> hist, onset |-> onset]
    BY <1>6 DEF Return, connVars, sharedVars
  <2>2. Reported'
    BY <2>1 DEF Reported, Totals
  <2> QED
    BY <1>2, <1>3, <2>1, <2>2 DEF ReportInv
<1> QED
  BY <1>1, <1>4, <1>5, <1>6 DEF Next, Quiet

\* At the start every sum is empty.
LEMMA ReportInit ==
  ASSUME Init
  PROVE  ReportInv
<1>1. /\ res = [c \in Conns |-> NoResult] /\ \A f \in Fields : NoResult[f] = 0
      /\ Counted \subseteq Fields /\ "backoff" \in Fields /\ "rate_limited" \in Fields
  BY FieldSets DEF Init, NoResult, Fields
<1>2. ASSUME NEW f \in Fields PROVE ResSum(f) = 0
  <2> DEFINE col == [c \in Conns |-> res[c][f]]
  <2>1. col \in [Conns -> Nat] /\ \A c \in Conns : col[c] = 0
    BY <1>1
  <2>2. ResSum(f) = SumFunction(col)
    BY DEF ResSum
  <2> HIDE DEF col
  <2> QED
    BY <2>1, <2>2, Constants, SumZero
<1>3. SumsMatch
  BY <1>1, <1>2, ZeroType DEF Init, SumsMatch
<1>4. OnsetKnown
  BY <1>1 DEF Init, OnsetKnown
<1> QED
  BY <1>3, <1>4 DEF Init, ReportInv, Reported

\* With every connection done, the accounts meet.
LEMMA ReportAccounts ==
  ASSUME TypeOK, Accounts, ReportInv, main = "returned"
  PROVE  /\ \A f \in Counted : report.counts[f] = ctr[f]
         /\ report.counts.completed = Judged(report.counts)
         /\ report.counts.completed = report.hist
         /\ report.counts.backoff = backoff
<1>0. /\ SumsMatch /\ \A c \in Conns : pc[c] = "done"
      /\ report.counts = Totals /\ report.hist = hist
      /\ ctr \in [Counted -> Nat] /\ hist \in Nat
      /\ Counted = {"completed", "pass", "fail", "rate_limited"}
  BY FieldSets DEF ReportInv, Reported, TypeOK, SharedTypeOK
<1>1. \A f \in Fields : Totals[f] = ResSum(f)
  BY FieldSets DEF Totals, ResSum
<1>2. \A f \in Counted \cup {"backoff"} : f \in Fields
  BY <1>0 DEF Fields
<1>3. \A f \in Counted : report.counts[f] = ctr[f]
  BY <1>0, <1>1, <1>2 DEF SumsMatch
<1>4. report.counts.backoff = backoff
  BY <1>0, <1>1, <1>2 DEF SumsMatch
<1>5. At(AtCount) = 0 /\ At(AtJudge) = 0
  <2>1. {c \in Conns : pc[c] \in AtCount} = {} /\ {c \in Conns : pc[c] \in AtJudge} = {}
    BY <1>0 DEF AtCount, AtJudge
  <2> QED
    BY <2>1, FS_EmptySet DEF At
<1>6. hist = ctr["completed"] /\ ctr["completed"] = ctr["pass"] + ctr["fail"] + ctr["rate_limited"]
  BY <1>0, <1>5 DEF Accounts, Judged
<1> QED
  BY <1>0, <1>3, <1>4, <1>6 DEF Judged

\* With every connection done, an onset is stored exactly when a 429 was counted.
LEMMA ReportOnset ==
  ASSUME TypeOK, ReportInv, main = "returned"
  PROVE  /\ RecordOnset => ((report.onset # None) <=> (report.counts.rate_limited > 0))
         /\ report.onset # None => RecordOnset /\ res[report.onset].rate_limited > 0
<1>0. /\ OnsetKnown /\ \A c \in Conns : pc[c] = "done"
      /\ report.onset = onset /\ report.counts = Totals
      /\ res \in [Conns -> [Fields -> Nat]] /\ "rate_limited" \in Fields
  BY FieldSets DEF ReportInv, Reported, TypeOK, ConnTypeOK, Fields
<1> DEFINE col == [c \in Conns |-> res[c]["rate_limited"]]
<1>1. report.counts.rate_limited = SumFunction(col)
  BY <1>0, FieldSets DEF Totals
<1>2. col \in [Conns -> Nat] /\ \A c \in Conns : col[c] = res[c].rate_limited
  BY <1>0
<1> HIDE DEF col
<1>3. /\ SumFunction(col) \in Nat
      /\ SumFunction(col) = 0 <=> \A c \in Conns : col[c] = 0
  BY <1>2, Constants, SumType, SumZero
<1>4. SumFunction(col) > 0 <=> \E c \in Conns : res[c].rate_limited > 0
  BY <1>2, <1>3
<1>5. ASSUME RecordOnset, NEW c \in Conns, res[c].rate_limited > 0 PROVE onset # None
  BY <1>0, <1>5 DEF OnsetKnown
<1>6. onset # None => RecordOnset /\ onset \in Conns /\ res[onset].rate_limited > 0
  BY <1>0 DEF OnsetKnown
<1> QED
  BY <1>0, <1>1, <1>4, <1>5, <1>6

\* The report is one account of the run however many connections made it: their own
\* results added up, the counters and the histogram agree, every response is judged
\* once, and there is an onset exactly when there was a 429.
THEOREM ReportExact == Spec => []ReportIsExact
<1>1. Init => HonestInv /\ ReportInv
  BY HonestInit, ReportInit
<1>2. TypeOK /\ Between /\ TypeOK' /\ HonestInv /\ ReportInv /\ [Next]_vars
        => HonestInv' /\ ReportInv'
  BY HonestStep, ReportStep
<1>3. TypeOK /\ HonestInv /\ ReportInv => ReportIsExact
  BY ReportAccounts, ReportOnset DEF HonestInv, ReportIsExact
<1> QED
  BY <1>1, <1>2, <1>3, EngineTypeCorrect, PTL DEF Spec
=============================================================================
