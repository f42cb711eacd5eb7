-------------------------- MODULE IngestionProofs --------------------------
(***************************************************************************)
(* What TLAPS proves of the two watchers, for any capacities and any       *)
(* chains: the type invariant, that the tip is the newest header when      *)
(* nothing is left to read, when a tip is published, that the block        *)
(* watcher implements TipFeed, and that events arrive in order, each once, *)
(* and none is lost but to an overrun.                                     *)
(***************************************************************************)
EXTENDS Ingestion, SequenceTheorems, WellFoundedInduction, TLAPS

\* Pushing an item leaves a queue within its capacity, with the item last.
LEMMA Pushed ==
    ASSUME NEW S, NEW queue \in Seq(S), NEW item \in S, Len(queue) <= Capacity
    PROVE  /\ Push(queue, item) \in Seq(S)
           /\ Len(Push(queue, item)) \in 1 .. Capacity
           /\ Push(queue, item)[Len(Push(queue, item))] = item
<1>1. CASE Full(queue)
  <2>1. queue # <<>>
    BY <1>1, CapacityAssumption DEF Full
  <2>2. Tail(queue) \in Seq(S) /\ Len(Tail(queue)) = Len(queue) - 1
    BY <2>1
  <2> QED  BY <1>1, <2>2, CapacityAssumption DEF Full, Push
<1>2. CASE ~Full(queue)
  BY <1>2, CapacityAssumption DEF Full, Push
<1> QED  BY <1>1, <1>2

-----------------------------------------------------------------------------
(* The block watcher *)

BlockTypeOK ==
    /\ rollup \in Nat /\ host \in Nat /\ newest \in Nat /\ header \in Nat
    /\ stage \in {"new", "failed", "subscribing", "listening", "polling", "asking", "ended"}
    /\ fetched \subseteq {"rollup", "host"}
    /\ headers \in Seq(Nat) /\ Len(headers) <= Capacity /\ lagged \in BOOLEAN
    /\ tip \in [rollup : Nat, host : Nat] /\ changed \in BOOLEAN

\* Where the newest header is: in the tip, in the subscription, or waiting for the
\* host; and there is no new tip before the channel is there.
NewestKept ==
    /\ headers # <<>> => headers[Len(headers)] = newest
    /\ headers = <<>> /\ stage \in {"polling", "asking"} => header = newest
    /\ headers = <<>> /\ stage = "listening" => tip.rollup = newest
    /\ stage \in {"new", "failed", "subscribing"} => headers = <<>> /\ changed = FALSE
    /\ stage \in {"new", "subscribing"} => tip.rollup = newest

BlockInv == BlockTypeOK /\ NewestKept

LEMMA BlockInitOK == BlockInit => BlockInv
<1> SUFFICES ASSUME BlockInit PROVE BlockInv
  OBVIOUS
<1>1. headers = <<>> /\ headers \in Seq(Nat) /\ Len(headers) <= Capacity
  BY CapacityAssumption DEF BlockInit
<1>2. BlockTypeOK
  BY <1>1 DEF BlockInit, BlockTypeOK
<1>3. NewestKept
  BY <1>1 DEF BlockInit, NewestKept
<1> QED  BY <1>2, <1>3 DEF BlockInv

LEMMA AnnounceOK ==
    ASSUME BlockInv, NEW n \in 1 .. rollup + 1, AnnounceHeader(n) PROVE BlockInv'
<1> USE DEF BlockInv, BlockTypeOK, AnnounceHeader
<1>0. n \in Nat /\ rollup' = n
  OBVIOUS
<1>1. CASE Subscribed
  <2>1. /\ headers' \in Seq(Nat) /\ Len(headers') \in 1 .. Capacity
        /\ headers'[Len(headers')] = n /\ newest' = n
    <3>1. headers \in Seq(Nat) /\ n \in Nat /\ Len(headers) <= Capacity
      BY <1>0
    <3>2. headers' = Push(headers, n) /\ newest' = n
      BY <1>1
    <3> QED  BY ONLY <3>1, <3>2, Pushed
  <2>2. headers' # <<>>
    BY <2>1
  <2>3. stage' \notin {"new", "failed", "subscribing"}
    BY <1>1 DEF Subscribed
  <2>4. BlockTypeOK'
    BY <1>0, <1>1, <2>1, CapacityAssumption
  <2>5. NewestKept'
    BY <2>1, <2>2, <2>3 DEF NewestKept
  <2> QED  BY <2>4, <2>5
<1>2. CASE ~Subscribed
  BY <1>0, <1>2 DEF NewestKept
<1> QED  BY <1>1, <1>2

LEMMA BlockNextOK ==
    ASSUME BlockInv, BlockNext \/ TakeTip PROVE BlockInv'
<1> USE DEF BlockInv, BlockTypeOK, NewestKept
<1>1. CASE MineHost
  BY <1>1 DEF MineHost
<1>2. CASE NewFails
  BY <1>2 DEF NewFails
<1>3. CASE BlocksFail \/ BlocksStop
  <2>1. headers' = <<>> /\ stage' = "ended"
    BY <1>3 DEF BlocksFail, BlocksStop
  <2>2. headers' \in Seq(Nat) /\ Len(headers') <= Capacity
    BY <2>1, CapacityAssumption
  <2> QED  BY <1>3, <2>1, <2>2 DEF BlocksFail, BlocksStop
<1>4. CASE PollCancelled
  BY <1>4 DEF PollCancelled, Publish
<1>5. CASE FetchRollup \/ FetchHost \/ Spawn \/ Subscribe
  BY <1>5 DEF FetchRollup, FetchHost, Spawn, Subscribe
<1>6. CASE RecvHeader
  <2>1. /\ headers # <<>> /\ header' = Head(headers) /\ headers' = Tail(headers)
        /\ stage' = "polling"
    BY <1>6 DEF RecvHeader
  <2>2. headers' \in Seq(Nat) /\ Len(headers') = Len(headers) - 1 /\ header' \in Nat
    BY <2>1
  <2>3. headers' # <<>> => headers'[Len(headers')] = headers[Len(headers)]
    BY <2>1, <2>2
  <2>4. headers' = <<>> => header' = headers[Len(headers)]
    <3>1. headers' = <<>> => Len(headers) = 1
      BY <2>2
    <3> QED  BY <2>1, <3>1
  <2>5. BlockTypeOK'
    BY <1>6, <2>1, <2>2, CapacityAssumption DEF RecvHeader
  <2>6. NewestKept'
    BY <1>6, <2>1, <2>3, <2>4 DEF RecvHeader
  <2> QED  BY <2>5, <2>6
<1>7. CASE RecvHeaderLagged
  BY <1>7 DEF RecvHeaderLagged
<1>8. CASE Poll
  <2>1. CASE PollTick \/ PollAgain(host)
    BY <2>1 DEF PollTick, PollAgain
  <2>2. CASE PollAnswer(host)
    BY <2>2 DEF PollAnswer, Publish
  <2> QED  BY <1>8, <2>1, <2>2 DEF Poll
<1>9. CASE TakeTip
  BY <1>9 DEF TakeTip
<1> QED  BY <1>1, <1>2, <1>3, <1>4, <1>5, <1>6, <1>7, <1>8, <1>9 DEF BlockNext, BlockStep

-----------------------------------------------------------------------------
(* The event watcher *)

EventTypeOK ==
    /\ state \in {"subscribing", "listening", "sending", "ended"}
    /\ logs \in Seq(Logs) /\ Len(logs) <= Capacity /\ overrun \in BOOLEAN
    /\ sending \in Seq(Logs) /\ Len(sending) = IF state = "sending" THEN 1 ELSE 0
    /\ events \in Seq(Logs) /\ Len(events) <= EventCapacity
    /\ received \in Seq(Logs) /\ sent \in Seq(Logs)
    /\ gone \in BOOLEAN /\ lost \in BOOLEAN

LEMMA EventInitOK == EventInit => EventTypeOK
<1> SUFFICES ASSUME EventInit PROVE EventTypeOK
  OBVIOUS
<1>1. /\ logs \in Seq(Logs) /\ Len(logs) <= Capacity
      /\ sending \in Seq(Logs) /\ Len(sending) = 0
      /\ events \in Seq(Logs) /\ Len(events) <= EventCapacity
      /\ received \in Seq(Logs) /\ sent \in Seq(Logs)
  BY CapacityAssumption, EventAssumption DEF EventInit
<1>2. state = "subscribing" /\ overrun = FALSE /\ gone = FALSE /\ lost = FALSE
  BY DEF EventInit
<1> QED  BY <1>1, <1>2 DEF EventTypeOK

LEMMA EmitOK ==
    ASSUME EventTypeOK, NEW known \in BOOLEAN, EmitLog(known) PROVE EventTypeOK'
<1> DEFINE log == [id |-> Len(sent) + 1, known |-> known]
<1>1. log \in Logs
  BY DEF EventTypeOK, Logs
<1>2. CASE state \in {"listening", "sending"}
  <2>1. Push(logs, log) \in Seq(Logs) /\ Len(Push(logs, log)) \in 1 .. Capacity
    BY <1>1, Pushed DEF EventTypeOK
  <2>2. sent' = Append(sent, log) /\ logs' = Push(logs, log)
    BY <1>2 DEF EmitLog
  <2> HIDE DEF log
  <2> QED  BY <1>1, <1>2, <2>1, <2>2, CapacityAssumption DEF EmitLog, EventTypeOK
<1>3. CASE state \notin {"listening", "sending"}
  BY <1>3 DEF EmitLog, eventVars, EventTypeOK
<1> QED  BY <1>2, <1>3

LEMMA EventNextOK ==
    ASSUME EventTypeOK, EventNext PROVE EventTypeOK'
<1> USE DEF EventTypeOK
<1>1. CASE SubscribeLogs
  BY <1>1 DEF SubscribeLogs
<1>2. CASE EventsStop \/ EventsFail \/ ChannelClosed
  <2>1. EndEvents
    BY <1>2 DEF EventsStop, EventsFail, ChannelClosed
  <2>2. logs' = <<>> /\ sending' = <<>> /\ state' = "ended"
    BY <2>1 DEF EndEvents
  <2>3. logs' \in Seq(Logs) /\ Len(logs') <= Capacity /\ sending' \in Seq(Logs) /\ Len(sending') = 0
    BY <2>2, CapacityAssumption
  <2>4. overrun' = FALSE /\ UNCHANGED <<events, gone, received, sent, lost>>
    BY <2>1 DEF EndEvents
  <2>5. state' # "sending" /\ state' = "ended"
    BY <2>2
  <2> QED  BY <2>3, <2>4, <2>5
<1>3. CASE RecvLog
  <2>1. logs' = Tail(logs) /\ logs # <<>>
    BY <1>3 DEF RecvLog
  <2>2. logs' \in Seq(Logs) /\ Len(logs') <= Capacity /\ Head(logs) \in Logs
    BY <2>1, CapacityAssumption
  <2>3. <<Head(logs)>> \in Seq(Logs) /\ Len(<<Head(logs)>>) = 1
    BY <2>2
  <2>4. CASE Known(Head(logs))
    <3>1. sending' = <<Head(logs)>> /\ state' = "sending"
      BY <1>3, <2>4 DEF RecvLog
    <3>2. sending' \in Seq(Logs) /\ Len(sending') = 1
      BY <2>3, <3>1
    <3> QED  BY <1>3, <2>2, <3>1, <3>2 DEF RecvLog
  <2>5. CASE ~Known(Head(logs))
    BY <1>3, <2>2, <2>5 DEF RecvLog
  <2> QED  BY <2>4, <2>5
<1>4. CASE RecvLogLagged
  BY <1>4 DEF RecvLogLagged
<1>5. CASE SendEvent
  <2>0. events' = events \o sending /\ Len(events) < EventCapacity /\ Len(sending) = 1
    BY <1>5 DEF SendEvent
  <2>1. sending' = <<>> /\ state' = "listening"
    BY <1>5 DEF SendEvent
  <2>2. events' \in Seq(Logs) /\ Len(events') <= EventCapacity
    <3>1. events \in Seq(Logs) /\ sending \in Seq(Logs)
      OBVIOUS
    <3>2. Len(events \o sending) = Len(events) + Len(sending)
      BY ONLY <3>1, ConcatProperties
    <3>3. events \o sending \in Seq(Logs)
      BY ONLY <3>1, ConcatProperties
    <3>4. Len(events) \in Nat
      BY ONLY <3>1
    <3> QED  BY ONLY <2>0, <3>2, <3>3, <3>4, EventAssumption
  <2>3. sending' \in Seq(Logs) /\ Len(sending') = 0
    BY <2>1
  <2> QED  BY <1>5, <2>1, <2>2, <2>3 DEF SendEvent
<1>6. CASE TakeEvent
  BY <1>6, EventAssumption DEF TakeEvent
<1>7. CASE DropReceiver
  BY <1>7, EventAssumption DEF DropReceiver
<1> QED  BY <1>1, <1>2, <1>3, <1>4, <1>5, <1>6, <1>7 DEF EventNext, EventStep

-----------------------------------------------------------------------------

IInv == BlockInv /\ EventTypeOK /\ token \in BOOLEAN

LEMMA InitOK == Init => IInv
BY BlockInitOK, EventInitOK DEF Init, IInv

LEMMA NextOK == IInv /\ [Next]_vars => IInv'
<1> SUFFICES ASSUME IInv, [Next]_vars PROVE IInv'
  OBVIOUS
<1> USE DEF IInv
<1>1. CASE MineRollup
  <2>1. BlockInv'
    BY <1>1, AnnounceOK DEF MineRollup
  <2>2. EventTypeOK'
    BY <1>1, EmitOK DEF MineRollup, eventVars, EventTypeOK
  <2> QED  BY <1>1, <2>1, <2>2 DEF MineRollup
<1>2. CASE Cancel
  BY <1>2 DEF Cancel, blockVars, eventVars, BlockInv, BlockTypeOK, NewestKept, EventTypeOK
<1>3. CASE (BlockNext \/ (~gone /\ TakeTip)) /\ UNCHANGED eventVars
  <2>1. BlockInv'
    BY <1>3, BlockNextOK
  <2>2. EventTypeOK'
    BY <1>3 DEF eventVars, EventTypeOK
  <2>3. token' = token
    BY <1>3 DEF BlockNext, BlockStep, Poll, MineHost, NewFails, BlocksFail, BlocksStop,
                PollCancelled, FetchRollup, FetchHost, Spawn, Subscribe, RecvHeader,
                RecvHeaderLagged, PollTick, PollAnswer, PollAgain, Publish, TakeTip
  <2> QED  BY <2>1, <2>2, <2>3
<1>4. CASE Spawned /\ EventNext /\ UNCHANGED blockVars
  <2>1. BlockInv'
    BY <1>4 DEF blockVars, BlockInv, BlockTypeOK, NewestKept
  <2>2. EventTypeOK'
    BY <1>4, EventNextOK
  <2>3. token' = token
    BY <1>4 DEF EventNext, EventStep, SubscribeLogs, EventsStop, EventsFail, EndEvents,
                RecvLog, RecvLogLagged, SendEvent, ChannelClosed, TakeEvent, DropReceiver
  <2> QED  BY <2>1, <2>2, <2>3
<1>5. CASE UNCHANGED vars
  BY <1>5 DEF vars, blockVars, eventVars, BlockInv, BlockTypeOK, NewestKept, EventTypeOK
<1> QED  BY <1>1, <1>2, <1>3, <1>4, <1>5 DEF Next

LEMMA Invariance == Spec => []IInv
<1> QED  BY InitOK, NextOK, PTL DEF Spec

\* The variables of the watchers keep their types, and the queues their bounds.
THEOREM IngestionType == Spec => []TypeOK
<1>1. IInv => TypeOK
  BY DEF IInv, BlockInv, BlockTypeOK, EventTypeOK, TypeOK
<1> QED  BY Invariance, <1>1, PTL

\* A watcher with nothing left to read shows the last header the node sent, for
\* any capacity of the subscription and any stretch of polling.
THEOREM NewestShown == Spec => []NewestHeaderShown
<1>1. IInv => NewestHeaderShown
  BY DEF IInv, BlockInv, NewestKept, NewestHeaderShown
<1> QED  BY Invariance, <1>1, PTL

-----------------------------------------------------------------------------
(* Publications *)

\* The steps that write to the channel, and those that leave it alone.
LEMMA Publications ==
    ASSUME IInv, [Next]_vars
    PROVE  \/ /\ stage = "new" /\ stage' \in {"new", "failed"} /\ changed' = changed
           \/ /\ stage = "new" /\ stage' = "subscribing"
              /\ tip' = tip /\ changed' = changed
           \/ /\ stage \notin {"new", "failed"} /\ stage' \notin {"new", "failed"}
              /\ changed' = TRUE /\ tip' \in [rollup : Nat, host : Nat]
              /\ tip'.host > tip.host \/ (token /\ tip'.host = tip.host)
           \/ /\ stage \in {"new", "failed"} <=> stage' \in {"new", "failed"}
              /\ tip' = tip /\ (changed' = changed \/ (changed = TRUE /\ changed' = FALSE))
<1> USE DEF IInv, BlockInv, BlockTypeOK
<1>1. CASE MineRollup
  BY <1>1 DEF MineRollup, AnnounceHeader
<1>2. CASE Cancel \/ (Spawned /\ EventNext /\ UNCHANGED blockVars) \/ UNCHANGED vars
  BY <1>2 DEF Cancel, vars, blockVars
<1>3. CASE MineHost \/ BlocksFail \/ BlocksStop \/ Subscribe \/ RecvHeader
           \/ RecvHeaderLagged \/ PollTick \/ PollAgain(host)
  BY <1>3 DEF MineHost, BlocksFail, BlocksStop, Subscribe, RecvHeader, RecvHeaderLagged,
              PollTick, PollAgain
<1>4. CASE NewFails \/ FetchRollup \/ FetchHost \/ Spawn
  BY <1>4 DEF NewFails, FetchRollup, FetchHost, Spawn
<1>5. CASE PollCancelled \/ PollAnswer(host)
  BY <1>5 DEF PollCancelled, PollAnswer, Publish
<1>6. CASE TakeTip
  BY <1>6 DEF TakeTip
<1> QED  BY <1>1, <1>2, <1>3, <1>4, <1>5, <1>6 DEF Next, BlockNext, BlockStep, Poll

\* A tip replaces another only with a higher host block, or at a shutdown.
THEOREM Publishing == Spec => HostAdvances
<1> DEFINE A == changed' /\ tip' # tip => tip'.host > tip.host \/ token
<1>1. ASSUME IInv, [Next]_vars PROVE [A]_vars
  <2>1. CASE stage = "new" /\ stage' \in {"new", "failed"} /\ changed' = changed
    BY <1>1, <2>1 DEF IInv, BlockInv, NewestKept
  <2> QED  BY <1>1, <2>1, Publications
<1> QED  BY Invariance, <1>1, PTL DEF Spec, HostAdvances

\* The block watcher implements the feed of tips.
THEOREM TipRefinement == Spec => ImplementsTipFeed
<1>1. Init => Tips!TipInit
  BY DEF Init, BlockInit, Tips!TipInit, Channel
<1>2. ASSUME IInv, [Next]_vars PROVE [Tips!TipNext]_(Tips!tipVars)
  <2> USE DEF IInv, BlockInv, BlockTypeOK
  <2>1. CASE stage = "new" /\ stage' \in {"new", "failed"} /\ changed' = changed
    BY <2>1 DEF Tips!tipVars, Channel
  <2>2. CASE stage = "new" /\ stage' = "subscribing" /\ tip' = tip /\ changed' = changed
    <3>1. Channel = {}
      BY <2>2 DEF Channel
    <3>2. Channel' = {tip'}
      BY <2>2 DEF Channel
    <3>3. tip' \in [rollup : Nat, host : Nat]
      BY <1>2, <2>2
    <3> QED  BY <2>2, <3>1, <3>2, <3>3 DEF Tips!TipNext, Tips!Create, Tips!Tips
  <2>3. CASE /\ stage \notin {"new", "failed"} /\ stage' \notin {"new", "failed"}
             /\ changed' = TRUE /\ tip' \in [rollup : Nat, host : Nat]
             /\ tip'.host > tip.host \/ (token /\ tip'.host = tip.host)
    <3>1. Channel = {tip}
      BY <2>3 DEF Channel
    <3>2. Channel' = {tip'}
      BY <2>3 DEF Channel
    <3>3. tip'.host >= tip.host
      BY <1>2, <2>3
    <3> QED  BY <2>3, <3>1, <3>2, <3>3 DEF Tips!TipNext, Tips!Replace, Tips!Tips
  <2>4. CASE /\ stage \in {"new", "failed"} <=> stage' \in {"new", "failed"}
             /\ tip' = tip /\ (changed' = changed \/ (changed = TRUE /\ changed' = FALSE))
    BY <2>4 DEF Tips!TipNext, Tips!Take, Tips!tipVars, Channel
  <2> QED  BY <1>2, <2>1, <2>2, <2>3, <2>4, Publications
<1> QED  BY Invariance, <1>1, <1>2, PTL DEF Spec, ImplementsTipFeed, Tips!TipSpec

-----------------------------------------------------------------------------
(* The order of the events *)

Ids(queue) == {queue[i].id : i \in 1 .. Len(queue)}

Rising(queue) == \A i, j \in 1 .. Len(queue) : i < j => queue[i].id < queue[j].id

Before(S, T) == \A m \in S, n \in T : m < n

LEMMA EmptyIds == Ids(<<>>) = {} /\ Rising(<<>>)
<1>1. Len(<<>>) = 0
  OBVIOUS
<1> QED  BY <1>1 DEF Ids, Rising

LEMMA SingleIds ==
    ASSUME NEW log \in Logs PROVE Ids(<<log>>) = {log.id} /\ Rising(<<log>>)
<1>1. Len(<<log>>) = 1 /\ <<log>>[1] = log
  OBVIOUS
<1> QED  BY <1>1 DEF Ids, Rising

LEMMA ConcatIds ==
    ASSUME NEW a \in Seq(Logs), NEW b \in Seq(Logs)
    PROVE  /\ a \o b \in Seq(Logs)
           /\ Ids(a \o b) = Ids(a) \cup Ids(b)
           /\ Rising(a) /\ Rising(b) /\ Before(Ids(a), Ids(b)) => Rising(a \o b)
<1> DEFINE c == a \o b
<1>1. /\ c \in Seq(Logs) /\ Len(c) = Len(a) + Len(b)
      /\ \A i \in 1 .. Len(c) : c[i] = IF i <= Len(a) THEN a[i] ELSE b[i - Len(a)]
  BY ONLY ConcatProperties, a \in Seq(Logs), b \in Seq(Logs)
<1>2. Len(a) \in Nat /\ Len(b) \in Nat
  OBVIOUS
<1>3. /\ \A i \in 1 .. Len(a) : a[i] \in Logs
      /\ \A i \in 1 .. Len(b) : b[i] \in Logs
  OBVIOUS
<1> HIDE DEF c
<1>4. Ids(c) = Ids(a) \cup Ids(b)
  <2>1. ASSUME NEW i \in 1 .. Len(b)
        PROVE  Len(a) + i \in 1 .. Len(c) /\ c[Len(a) + i] = b[i]
    <3>1. Len(a) + i \in 1 .. Len(c)
      BY <1>1, <1>2
    <3>2. ~(Len(a) + i <= Len(a)) /\ (Len(a) + i) - Len(a) = i
      BY <1>2
    <3> QED  BY <1>1, <3>1, <3>2
  <2>2. \A i \in 1 .. Len(a) : i \in 1 .. Len(c) /\ c[i] = a[i]
    BY <1>1, <1>2
  <2>3. \A i \in 1 .. Len(c) : i \in 1 .. Len(a) \/ i - Len(a) \in 1 .. Len(b)
    BY <1>1, <1>2
  <2>4. Ids(a) \cup Ids(b) \subseteq Ids(c)
    BY <2>1, <2>2 DEF Ids
  <2>5. Ids(c) \subseteq Ids(a) \cup Ids(b)
    BY <1>1, <1>2, <2>3 DEF Ids
  <2> QED  BY <2>4, <2>5
<1>5. ASSUME Rising(a), Rising(b), Before(Ids(a), Ids(b)) PROVE Rising(c)
  <2> SUFFICES ASSUME NEW i \in 1 .. Len(c), NEW j \in 1 .. Len(c), i < j
               PROVE  c[i].id < c[j].id
    BY DEF Rising
  <2>1. CASE j <= Len(a)
    BY <1>1, <1>2, <1>5, <2>1 DEF Rising
  <2>2. CASE i > Len(a)
    BY <1>1, <1>2, <1>5, <2>2 DEF Rising
  <2>3. CASE i <= Len(a) /\ j > Len(a)
    <3>1. i \in 1 .. Len(a) /\ j - Len(a) \in 1 .. Len(b)
      BY <1>1, <1>2, <2>3
    <3>2. a[i].id \in Ids(a) /\ b[j - Len(a)].id \in Ids(b)
      BY <3>1 DEF Ids
    <3> QED  BY <1>1, <1>5, <2>3, <3>2 DEF Before
  <2> QED  BY <1>1, <1>2, <2>1, <2>2, <2>3
<1> QED  BY <1>1, <1>4, <1>5 DEF c

LEMMA TailIds ==
    ASSUME NEW queue \in Seq(Logs), queue # <<>>
    PROVE  /\ Head(queue) \in Logs /\ Tail(queue) \in Seq(Logs)
           /\ Ids(queue) = {Head(queue).id} \cup Ids(Tail(queue))
           /\ Rising(queue) => Rising(Tail(queue)) /\ Before({Head(queue).id}, Ids(Tail(queue)))
<1> DEFINE tail == Tail(queue)
<1>1. /\ tail \in Seq(Logs) /\ Len(tail) = Len(queue) - 1 /\ Len(queue) \in Nat \ {0}
      /\ Head(queue) = queue[1] /\ queue[1] \in Logs
      /\ \A i \in 1 .. Len(tail) : tail[i] = queue[i + 1]
  OBVIOUS
<1> HIDE DEF tail
<1>2. /\ \A i \in 1 .. Len(tail) : i + 1 \in 2 .. Len(queue) /\ queue[i + 1] = tail[i]
      /\ \A i \in 2 .. Len(queue) : i - 1 \in 1 .. Len(tail) /\ queue[i] = tail[i - 1]
      /\ \A i \in 1 .. Len(queue) : i = 1 \/ i \in 2 .. Len(queue)
      /\ 1 \in 1 .. Len(queue)
  BY <1>1
<1>3. Ids(queue) = {queue[1].id} \cup Ids(tail)
  <2>1. ASSUME NEW i \in 1 .. Len(queue)
        PROVE  queue[i].id \in {queue[1].id} \cup Ids(tail)
    <3>1. CASE i = 1
      BY <3>1
    <3>2. CASE i \in 2 .. Len(queue)
      BY <1>2, <3>2 DEF Ids
    <3> QED  BY <1>2, <3>1, <3>2
  <2>2. \A i \in 1 .. Len(tail) : i + 1 \in 1 .. Len(queue)
    BY <1>1
  <2>3. Ids(queue) \subseteq {queue[1].id} \cup Ids(tail)
    BY <2>1 DEF Ids
  <2>4. {queue[1].id} \cup Ids(tail) \subseteq Ids(queue)
    BY <1>2, <2>2 DEF Ids
  <2> QED  BY <2>3, <2>4
<1>4. ASSUME Rising(queue) PROVE Rising(tail) /\ Before({queue[1].id}, Ids(tail))
  <2>1. \A i \in 1 .. Len(tail) : i + 1 \in 1 .. Len(queue) /\ 1 < i + 1
    BY <1>1
  <2>2. Rising(tail)
    BY <1>1, <1>2, <1>4, <2>1 DEF Rising
  <2>3. \A i \in 1 .. Len(tail) : queue[1].id < tail[i].id
    BY <1>2, <1>4, <2>1 DEF Rising
  <2> QED  BY <2>2, <2>3 DEF Before, Ids
<1> QED  BY <1>1, <1>3, <1>4 DEF tail

\* The logs on their way are in the order of the chain, within each queue and
\* from one to the next; none is newer than the last one sent.
InOrder ==
    /\ Rising(received) /\ Rising(events) /\ Rising(sending) /\ Rising(logs)
    /\ Before(Ids(received), Ids(events) \cup Ids(sending) \cup Ids(logs))
    /\ Before(Ids(events), Ids(sending) \cup Ids(logs))
    /\ Before(Ids(sending), Ids(logs))
    /\ \A n \in Ids(received) \cup Ids(events) \cup Ids(sending) \cup Ids(logs) :
          n \in Nat /\ n <= Len(sent)

LEMMA EmitInOrder ==
    ASSUME EventTypeOK, InOrder, NEW known \in BOOLEAN, EmitLog(known) PROVE InOrder'
<1> DEFINE log == [id |-> Len(sent) + 1, known |-> known]
           rest == IF Full(logs) THEN Tail(logs) ELSE logs
<1>1. CASE state \notin {"listening", "sending"}
  BY <1>1 DEF EmitLog, eventVars, InOrder
<1>2. CASE state \in {"listening", "sending"}
  <2>1. /\ sent' = Append(sent, log) /\ logs' = Append(rest, log)
        /\ UNCHANGED <<received, events, sending>>
    BY <1>2 DEF EmitLog, Push
  <2>2. log \in Logs /\ log.id = Len(sent) + 1 /\ Len(sent) \in Nat
    BY DEF EventTypeOK, Logs
  <2>3. Len(sent') = Len(sent) + 1
    BY <2>1, <2>2 DEF EventTypeOK
  <2>4. rest \in Seq(Logs) /\ Rising(rest) /\ Ids(rest) \subseteq Ids(logs)
    <3>1. CASE Full(logs)
      <4>1. logs # <<>> /\ logs \in Seq(Logs)
        BY <3>1, CapacityAssumption DEF Full, EventTypeOK
      <4> QED  BY <3>1, <4>1, TailIds DEF InOrder
    <3>2. CASE ~Full(logs)
      BY <3>2 DEF EventTypeOK, InOrder
    <3> QED  BY <3>1, <3>2
  <2> HIDE DEF log, rest
  <2>5. Append(rest, log) = rest \o <<log>> /\ <<log>> \in Seq(Logs)
    BY <2>2, <2>4
  <2>6. Before(Ids(rest), {log.id})
    BY <2>2, <2>4 DEF InOrder, Before
  <2>7. Ids(logs') = Ids(rest) \cup {log.id} /\ Rising(logs')
    BY <2>1, <2>2, <2>4, <2>5, <2>6, SingleIds, ConcatIds
  <2> QED  BY <2>1, <2>2, <2>3, <2>4, <2>7 DEF InOrder, Before
<1> QED  BY <1>1, <1>2

LEMMA EventInOrder ==
    ASSUME EventTypeOK, InOrder, EventNext PROVE InOrder'
<1>0. /\ received \in Seq(Logs) /\ events \in Seq(Logs) /\ sending \in Seq(Logs)
      /\ logs \in Seq(Logs) /\ sent \in Seq(Logs)
  BY DEF EventTypeOK
<1>1. CASE EndEvents
  <2>1. logs' = <<>> /\ sending' = <<>> /\ UNCHANGED <<received, events, sent>>
    BY <1>1 DEF EndEvents
  <2> QED  BY <2>1, EmptyIds DEF InOrder, Before
<1>2. CASE SubscribeLogs \/ RecvLogLagged
  BY <1>2 DEF SubscribeLogs, RecvLogLagged, InOrder
<1>3. CASE RecvLog
  <2>1. /\ logs # <<>> /\ logs' = Tail(logs) /\ state = "listening"
        /\ UNCHANGED <<received, events, sent>>
    BY <1>3 DEF RecvLog
  <2>2. /\ Head(logs) \in Logs /\ Ids(logs) = {Head(logs).id} \cup Ids(logs')
        /\ Rising(logs') /\ Before({Head(logs).id}, Ids(logs'))
    BY <1>0, <2>1, TailIds DEF InOrder
  <2>3. sending = <<>>
    BY <1>0, <2>1 DEF EventTypeOK
  <2>4. CASE Known(Head(logs))
    <3>1. sending' = <<Head(logs)>>
      BY <1>3, <2>4 DEF RecvLog
    <3>2. Ids(sending') = {Head(logs).id} /\ Rising(sending')
      BY <2>2, <3>1, SingleIds
    <3> QED  BY <2>1, <2>2, <3>2 DEF InOrder, Before
  <2>5. CASE ~Known(Head(logs))
    <3>1. sending' = sending
      BY <1>3, <2>5 DEF RecvLog
    <3> QED  BY <2>1, <2>2, <3>1 DEF InOrder, Before
  <2> QED  BY <2>4, <2>5
<1>4. CASE SendEvent
  <2>1. /\ events' = events \o sending /\ sending' = <<>>
        /\ UNCHANGED <<received, logs, sent>>
    BY <1>4 DEF SendEvent
  <2>2. Ids(events') = Ids(events) \cup Ids(sending) /\ Rising(events')
    BY <1>0, <2>1, ConcatIds DEF InOrder, Before
  <2> QED  BY <2>1, <2>2, EmptyIds DEF InOrder, Before
<1>5. CASE TakeEvent
  <2>1. /\ events # <<>> /\ events' = Tail(events)
        /\ received' = Append(received, Head(events))
        /\ UNCHANGED <<sending, logs, sent>>
    BY <1>5 DEF TakeEvent
  <2>2. /\ Head(events) \in Logs /\ Ids(events) = {Head(events).id} \cup Ids(events')
        /\ Rising(events') /\ Before({Head(events).id}, Ids(events'))
    BY <1>0, <2>1, TailIds DEF InOrder
  <2> DEFINE one == <<Head(events)>>
  <2>3. received' = received \o one /\ one \in Seq(Logs)
    BY <1>0, <2>1, <2>2
  <2>4. Before(Ids(received), {Head(events).id})
    BY <2>2 DEF InOrder, Before
  <2>5. Ids(received') = Ids(received) \cup {Head(events).id} /\ Rising(received')
    <3>1. Ids(one) = {Head(events).id} /\ Rising(one)
      BY <2>2, SingleIds
    <3>2. Rising(received)
      BY DEF InOrder
    <3>3. Before(Ids(received), Ids(one))
      BY <2>4, <3>1
    <3> HIDE DEF one
    <3>4. /\ Ids(received \o one) = Ids(received) \cup Ids(one)
          /\ Rising(received \o one)
      BY <1>0, <2>3, <3>1, <3>2, <3>3, ConcatIds
    <3> QED  BY <2>3, <3>1, <3>4
  <2>6. /\ Before(Ids(received'), Ids(events') \cup Ids(sending') \cup Ids(logs'))
        /\ Before(Ids(events'), Ids(sending') \cup Ids(logs'))
    BY <2>1, <2>2, <2>5 DEF InOrder, Before
  <2>7. \A n \in Ids(received') \cup Ids(events') : n \in Ids(received) \cup Ids(events)
    BY <2>2, <2>5
  <2> QED  BY <2>1, <2>2, <2>5, <2>6, <2>7 DEF InOrder
<1>6. CASE DropReceiver
  <2>1. events' = <<>> /\ UNCHANGED <<received, sending, logs, sent>>
    BY <1>6 DEF DropReceiver
  <2> QED  BY <2>1, EmptyIds DEF InOrder, Before
<1> QED
  BY <1>1, <1>2, <1>3, <1>4, <1>5, <1>6
     DEF EventNext, EventStep, EventsStop, EventsFail, ChannelClosed

\* Nothing the state manager receives is repeated or overtaken, for any
\* capacities, any logs and however often the subscription was overrun.
THEOREM EventsInOrder == Spec => []OrderKept
<1>1. Init => InOrder
  <2> SUFFICES ASSUME Init PROVE InOrder
    OBVIOUS
  <2>1. received = <<>> /\ events = <<>> /\ sending = <<>> /\ logs = <<>>
    BY DEF Init, EventInit
  <2> QED  BY <2>1, EmptyIds DEF InOrder, Before
<1>2. IInv /\ InOrder /\ [Next]_vars => InOrder'
  <2> SUFFICES ASSUME IInv, InOrder, [Next]_vars PROVE InOrder'
    OBVIOUS
  <2>1. CASE UNCHANGED eventVars
    BY <2>1 DEF eventVars, InOrder
  <2>2. CASE \E known \in BOOLEAN : EmitLog(known)
    BY <2>2, EmitInOrder DEF IInv
  <2>3. CASE EventNext
    BY <2>3, EventInOrder DEF IInv
  <2> QED  BY <2>1, <2>2, <2>3 DEF Next, MineRollup, Cancel, vars
<1>3. IInv /\ InOrder => OrderKept
  <2> SUFFICES ASSUME IInv, InOrder PROVE OrderKept
    OBVIOUS
  <2>1. /\ received \in Seq(Logs) /\ events \in Seq(Logs) /\ sending \in Seq(Logs)
        /\ logs \in Seq(Logs)
    BY DEF IInv, EventTypeOK
  <2>2. /\ received \o events \in Seq(Logs) /\ Rising(received \o events)
        /\ Ids(received \o events) = Ids(received) \cup Ids(events)
    BY <2>1, ConcatIds DEF InOrder, Before
  <2>3. /\ (received \o events) \o sending \in Seq(Logs)
        /\ Rising((received \o events) \o sending)
        /\ Ids((received \o events) \o sending) = Ids(received) \cup Ids(events) \cup Ids(sending)
    BY <2>1, <2>2, ConcatIds DEF InOrder, Before
  <2>4. /\ ((received \o events) \o sending) \o logs \in Seq(Logs)
        /\ Rising(((received \o events) \o sending) \o logs)
    BY <2>1, <2>3, ConcatIds DEF InOrder, Before
  <2>5. ASSUME NEW all \in Seq(Logs), Rising(all)
        PROVE  \A i \in DOMAIN all, j \in DOMAIN all : i < j => all[i].id < all[j].id
    BY <2>5 DEF Rising
  <2> QED  BY <2>4, <2>5 DEF OrderKept
<1> QED  BY Invariance, <1>1, <1>2, <1>3, PTL DEF Spec

-----------------------------------------------------------------------------
(* The logs that are known *)

\* Induction up to m, over the set of the numbers that have the property.
LEMMA Induction ==
    ASSUME NEW m \in Nat, NEW S, 0 \in S, \A n \in 0 .. m - 1 : n \in S => n + 1 \in S
    PROVE  \A n \in 0 .. m : n \in S
<1> DEFINE rest == {n \in 0 .. m : n \notin S}
<1> SUFFICES ASSUME rest # {} PROVE FALSE
  OBVIOUS
<1>1. rest \in SUBSET Nat /\ \A n \in rest : n \in 0 .. m /\ n \notin S
  OBVIOUS
<1>2. \A n \in 0 .. m : n \notin rest => n \in S
  OBVIOUS
<1> HIDE DEF rest
<1>3. \E x \in rest : \A y \in rest : ~(<<y, x>> \in OpToRel(<, Nat))
  BY <1>1, WFMin, NatLessThanWellFounded
<1>4. PICK k \in rest : \A n \in rest : ~(n < k)
  BY <1>1, <1>3, Zenon DEF OpToRel
<1>5. k - 1 \in 0 .. m - 1 /\ k - 1 \in 0 .. m /\ k - 1 < k /\ (k - 1) + 1 = k
  BY <1>1
<1>6. k - 1 \in S
  BY <1>2, <1>4, <1>5
<1> QED  BY <1>1, <1>5, <1>6

\* One log, if it is known.
IfKnown(log) == IF Known(log) THEN <<log>> ELSE <<>>

LEMMA LogsAssociative ==
    \A s, t, u \in Seq(Logs) : (s \o t) \o u = s \o (t \o u)
BY ConcatAssociative

LEMMA IfKnownType == \A log \in Logs : IfKnown(log) \in Seq(Logs)
BY DEF IfKnown

\* The recursion of KnownUpTo is well defined.
LEMMA KnownUpToDef ==
    ASSUME NEW queue \in Seq(Logs)
    PROVE  /\ KnownUpTo(queue)[0] = <<>>
           /\ \A n \in 1 .. Len(queue) :
                 KnownUpTo(queue)[n] = KnownUpTo(queue)[n - 1] \o IfKnown(queue[n])
<1> DEFINE IsKept(f, m) == f = [n \in 0 .. m |-> IF n = 0 THEN <<>>
                                               ELSE f[n - 1] \o IfKnown(queue[n])]
           Defined == {m \in Nat : \E f : IsKept(f, m)}
<1>1. 0 \in Defined
  <2>1. IsKept([n \in 0 .. 0 |-> <<>>], 0)
    OBVIOUS
  <2> QED  BY <2>1
<1>2. ASSUME NEW m \in Defined PROVE m + 1 \in Defined
  <2>1. PICK f : IsKept(f, m)
    OBVIOUS
  <2> DEFINE g == [n \in 0 .. m + 1 |-> IF n = m + 1 THEN f[m] \o IfKnown(queue[m + 1])
                                       ELSE f[n]]
  <2>2. \A n \in 0 .. m : f[n] = IF n = 0 THEN <<>> ELSE f[n - 1] \o IfKnown(queue[n])
    BY <2>1
  <2>3. ASSUME NEW n \in 0 .. m + 1
        PROVE  g[n] = IF n = 0 THEN <<>> ELSE g[n - 1] \o IfKnown(queue[n])
    <3>1. CASE n = m + 1
      BY <3>1
    <3>2. CASE n \in 0 .. m
      BY <2>2, <3>2
    <3> QED  BY <3>1, <3>2
  <2>4. IsKept(g, m + 1)
    BY <2>3
  <2>5. m + 1 \in Nat
    OBVIOUS
  <2> HIDE DEF IsKept, g
  <2> QED  BY <2>4, <2>5
<1>3. Len(queue) \in Defined
  <2> HIDE DEF Defined
  <2>1. Len(queue) \in Nat
    OBVIOUS
  <2>2. \A n \in 0 .. Len(queue) : n \in Defined
    BY ONLY <1>1, <1>2, <2>1, Induction
  <2> QED  BY <2>1, <2>2
<1> DEFINE kept == CHOOSE f : IsKept(f, Len(queue))
<1>4. IsKept(kept, Len(queue))
  BY <1>3
<1>5. KnownUpTo(queue) = kept
  BY DEF KnownUpTo, IfKnown
<1> HIDE DEF kept
<1> QED  BY <1>4, <1>5

LEMMA KnownUpToType ==
    ASSUME NEW queue \in Seq(Logs)
    PROVE  \A n \in 0 .. Len(queue) : KnownUpTo(queue)[n] \in Seq(Logs)
<1> DEFINE kept == KnownUpTo(queue)
           S == {n \in 0 .. Len(queue) : kept[n] \in Seq(Logs)}
<1>1. /\ kept[0] = <<>>
      /\ \A n \in 1 .. Len(queue) : kept[n] = kept[n - 1] \o IfKnown(queue[n])
  BY KnownUpToDef
<1> HIDE DEF kept
<1>2. Len(queue) \in Nat /\ 0 \in S
  <2>1. Len(queue) \in Nat /\ 0 \in 0 .. Len(queue) /\ <<>> \in Seq(Logs)
    OBVIOUS
  <2> QED  BY <1>1, <2>1
<1>3. ASSUME NEW n \in 0 .. Len(queue) - 1, n \in S PROVE n + 1 \in S
  <2>1. n + 1 \in 1 .. Len(queue) /\ (n + 1) - 1 = n /\ n + 1 \in 0 .. Len(queue)
    OBVIOUS
  <2>2. IfKnown(queue[n + 1]) \in Seq(Logs) /\ kept[n] \in Seq(Logs)
    BY <1>3, <2>1, IfKnownType
  <2>3. kept[n + 1] = kept[n] \o IfKnown(queue[n + 1])
    BY <1>1, <2>1
  <2>4. kept[n] \o IfKnown(queue[n + 1]) \in Seq(Logs)
    BY ONLY <2>2, ConcatProperties
  <2> QED  BY <2>1, <2>3, <2>4
<1>4. \A n \in 0 .. Len(queue) : n \in S
  <2> HIDE DEF S
  <2> QED  BY ONLY <1>2, <1>3, Induction
<1> QED  BY <1>4 DEF kept

\* The known of a concatenation are those of the one and then of the other.
LEMMA KnownConcat ==
    ASSUME NEW s \in Seq(Logs), NEW t \in Seq(Logs)
    PROVE  KnownOf(s \o t) = KnownOf(s) \o KnownOf(t)
<1> DEFINE n == Len(s)
           m == Len(t)
           all == s \o t
           ks == KnownUpTo(s)
           kt == KnownUpTo(t)
           k == KnownUpTo(all)
<1>1. /\ n \in Nat /\ m \in Nat /\ all \in Seq(Logs) /\ Len(all) = n + m
      /\ \A i \in 1 .. n + m : all[i] = IF i <= n THEN s[i] ELSE t[i - n]
  <2>1. n \in Nat /\ m \in Nat
    OBVIOUS
  <2> QED  BY <2>1, ConcatProperties
<1>2. ks[0] = <<>> /\ \A i \in 1 .. n : ks[i] = ks[i - 1] \o IfKnown(s[i])
  BY KnownUpToDef
<1>3. kt[0] = <<>> /\ \A i \in 1 .. m : kt[i] = kt[i - 1] \o IfKnown(t[i])
  BY KnownUpToDef
<1>4. k[0] = <<>> /\ \A i \in 1 .. n + m : k[i] = k[i - 1] \o IfKnown(all[i])
  <2> HIDE DEF all
  <2> QED  BY <1>1, KnownUpToDef
<1>5. /\ \A i \in 0 .. n : ks[i] \in Seq(Logs)
      /\ \A i \in 0 .. m : kt[i] \in Seq(Logs)
  BY KnownUpToType
<1>6. \A i \in 1 .. m : t[i] \in Logs /\ IfKnown(t[i]) \in Seq(Logs)
  BY IfKnownType
<1> DEFINE A == {i \in 0 .. n : k[i] = ks[i]}
           B == {i \in 0 .. m : k[n + i] = ks[n] \o kt[i]}
<1>7. KnownOf(all) = k[n + m] /\ KnownOf(s) = ks[n] /\ KnownOf(t) = kt[m]
  BY <1>1 DEF KnownOf
<1> HIDE DEF n, m, all, ks, kt, k
<1>8. \A i \in 0 .. n : i \in A
  <2>1. 0 \in A
    BY <1>1, <1>2, <1>4
  <2>2. ASSUME NEW i \in 0 .. n - 1, i \in A PROVE i + 1 \in A
    <3>1. /\ i + 1 \in 1 .. n /\ i + 1 \in 1 .. n + m /\ (i + 1) - 1 = i
          /\ i + 1 \in 0 .. n /\ i + 1 <= n
      BY <1>1
    <3>2. all[i + 1] = s[i + 1]
      BY <1>1, <3>1
    <3>3. k[i + 1] = k[i] \o IfKnown(all[i + 1]) /\ ks[i + 1] = ks[i] \o IfKnown(s[i + 1])
      BY <1>2, <1>4, <3>1
    <3>4. k[i] = ks[i]
      BY <2>2
    <3> QED  BY <3>1, <3>2, <3>3, <3>4
  <2> HIDE DEF A
  <2> QED  BY ONLY <1>1, <2>1, <2>2, Induction
<1>9. k[n] = ks[n]
  BY <1>1, <1>8
<1>10. \A i \in 0 .. m : i \in B
  <2>1. 0 \in B
    <3>1. ks[n] \in Seq(Logs)
      BY <1>1, <1>5
    <3>2. ks[n] \o <<>> = ks[n]
      BY ONLY <3>1, ConcatEmptySeq
    <3>3. n + 0 = n /\ 0 \in 0 .. m
      BY <1>1
    <3> QED  BY <1>3, <1>9, <3>2, <3>3
  <2>2. ASSUME NEW i \in 0 .. m - 1, i \in B PROVE i + 1 \in B
    <3>1. /\ i + 1 \in 1 .. m /\ n + i + 1 \in 1 .. n + m /\ (i + 1) - 1 = i
          /\ (n + i + 1) - 1 = n + i /\ n + (i + 1) = n + i + 1
          /\ i + 1 \in 0 .. m /\ i \in 0 .. m /\ n \in 0 .. n
          /\ ~(n + i + 1 <= n) /\ (n + i + 1) - n = i + 1
      BY <1>1
    <3>2. all[n + i + 1] = t[i + 1]
      BY <1>1, <3>1
    <3>3. /\ k[n + i + 1] = k[n + i] \o IfKnown(all[n + i + 1])
          /\ kt[i + 1] = kt[i] \o IfKnown(t[i + 1])
      BY <1>3, <1>4, <3>1
    <3>4. k[n + i] = ks[n] \o kt[i]
      BY <2>2
    <3>5. ks[n] \in Seq(Logs) /\ kt[i] \in Seq(Logs) /\ IfKnown(t[i + 1]) \in Seq(Logs)
      BY <1>5, <1>6, <3>1
    <3>6. (ks[n] \o kt[i]) \o IfKnown(t[i + 1]) = ks[n] \o (kt[i] \o IfKnown(t[i + 1]))
      BY ONLY <3>5, LogsAssociative
    <3>7. k[n + (i + 1)] = ks[n] \o kt[i + 1]
      BY ONLY <3>1, <3>2, <3>3, <3>4, <3>6
    <3> QED  BY <3>1, <3>7
  <2> HIDE DEF B
  <2> QED  BY ONLY <1>1, <2>1, <2>2, Induction
<1>11. k[n + m] = ks[n] \o kt[m]
  <2>1. m \in 0 .. m
    BY <1>1
  <2>2. m \in B
    BY <1>10, <2>1
  <2> QED  BY <2>2
<1> QED  BY <1>7, <1>11 DEF all

LEMMA KnownSingle ==
    /\ KnownOf(<<>>) = <<>>
    /\ \A log \in Logs : KnownOf(<<log>>) = IfKnown(log)
<1>1. <<>> \in Seq(Logs) /\ Len(<<>>) = 0
  OBVIOUS
<1>2. KnownOf(<<>>) = <<>>
  BY <1>1, KnownUpToDef DEF KnownOf
<1>3. ASSUME NEW log \in Logs PROVE KnownOf(<<log>>) = IfKnown(log)
  <2> DEFINE one == <<log>>
  <2>1. one \in Seq(Logs) /\ Len(one) = 1 /\ one[1] = log /\ 1 \in 1 .. Len(one) /\ 1 - 1 = 0
    OBVIOUS
  <2> HIDE DEF one
  <2>2. KnownUpTo(one)[0] = <<>> /\ KnownUpTo(one)[1] = KnownUpTo(one)[1 - 1] \o IfKnown(one[1])
    BY <2>1, KnownUpToDef
  <2>3. KnownOf(one) = <<>> \o IfKnown(log)
    BY <2>1, <2>2 DEF KnownOf
  <2>4. IfKnown(log) \in Seq(Logs)
    BY IfKnownType
  <2>5. <<>> \o IfKnown(log) = IfKnown(log)
    BY ONLY <2>4, ConcatEmptySeq
  <2> QED  BY <2>3, <2>5 DEF one
<1> QED  BY <1>2, <1>3

LEMMA KnownEnds ==
    ASSUME NEW queue \in Seq(Logs)
    PROVE  /\ KnownOf(queue) \in Seq(Logs)
           /\ \A log \in Logs : KnownOf(Append(queue, log)) = KnownOf(queue) \o IfKnown(log)
           /\ queue # <<>> =>
                 KnownOf(queue) = IfKnown(Head(queue)) \o KnownOf(Tail(queue))
<1>1. KnownOf(queue) \in Seq(Logs)
  <2>1. Len(queue) \in 0 .. Len(queue)
    OBVIOUS
  <2> QED  BY <2>1, KnownUpToType DEF KnownOf
<1>2. ASSUME NEW log \in Logs PROVE KnownOf(Append(queue, log)) = KnownOf(queue) \o IfKnown(log)
  <2>1. Append(queue, log) = queue \o <<log>> /\ <<log>> \in Seq(Logs)
    BY AppendIsConcat
  <2> QED  BY <2>1, KnownConcat, KnownSingle
<1>3. ASSUME queue # <<>> PROVE KnownOf(queue) = IfKnown(Head(queue)) \o KnownOf(Tail(queue))
  <2>1. Head(queue) \in Logs /\ Tail(queue) \in Seq(Logs) /\ <<Head(queue)>> \in Seq(Logs)
    BY <1>3
  <2>2. queue = <<Head(queue)>> \o Tail(queue)
    BY <1>3
  <2>3. KnownOf(<<Head(queue)>> \o Tail(queue)) = KnownOf(<<Head(queue)>>) \o KnownOf(Tail(queue))
    BY ONLY <2>1, KnownConcat
  <2> QED  BY <2>1, <2>2, <2>3, KnownSingle
<1> QED  BY <1>1, <1>2, <1>3

-----------------------------------------------------------------------------
(* Where the known logs are *)

Delivered == received \o events \o sending \o KnownOf(logs) = KnownOf(sent)

\* What is sent is known; before the subscription there is nothing.
AllKept ==
    /\ ~lost => ~overrun
    /\ state = "subscribing" => /\ sending = <<>> /\ logs = <<>>
                               /\ sent = <<>> /\ received = <<>> /\ events = <<>>
    /\ ~lost /\ ~gone /\ state # "ended" => Delivered

\* The parts of the equation are sequences of logs.
LEMMA Parts ==
    ASSUME EventTypeOK
    PROVE  /\ received \in Seq(Logs) /\ events \in Seq(Logs) /\ sending \in Seq(Logs)
           /\ logs \in Seq(Logs) /\ sent \in Seq(Logs)
           /\ KnownOf(logs) \in Seq(Logs) /\ KnownOf(sent) \in Seq(Logs)
BY KnownEnds DEF EventTypeOK

LEMMA LogsConcat == \A s, t \in Seq(Logs) : s \o t \in Seq(Logs)
BY ConcatProperties

LEMMA LogsEmpty == \A s \in Seq(Logs) : s \o <<>> = s /\ <<>> \o s = s
BY ConcatEmptySeq

LEMMA EmitKept ==
    ASSUME EventTypeOK, AllKept, NEW known \in BOOLEAN, EmitLog(known) PROVE AllKept'
<1> DEFINE log == [id |-> Len(sent) + 1, known |-> known]
<1>1. CASE state \notin {"listening", "sending"}
  BY <1>1 DEF EmitLog, eventVars, AllKept, Delivered
<1>2. CASE state \in {"listening", "sending"}
  <2>1. /\ sent' = Append(sent, log) /\ logs' = Push(logs, log) /\ state' = state
        /\ overrun' = (overrun \/ Full(logs)) /\ lost' = (lost \/ Full(logs))
        /\ UNCHANGED <<received, events, sending, gone>>
    BY <1>2 DEF EmitLog
  <2>2. log \in Logs
    BY DEF EventTypeOK, Logs
  <2> HIDE DEF log
  <2>3. ~lost' => ~overrun'
    BY <2>1, Zenon DEF AllKept
  <2>4. ASSUME ~lost', ~gone' PROVE Delivered'
    <3>1. ~lost /\ ~Full(logs) /\ ~gone
      BY <2>1, <2>4
    <3>2. logs' = Append(logs, log)
      BY <2>1, <3>1 DEF Push
    <3> DEFINE front == received \o events \o sending
    <3>3. front \o KnownOf(logs) = KnownOf(sent)
      BY <1>2, <3>1 DEF AllKept, Delivered
    <3>4. front \in Seq(Logs) /\ KnownOf(logs) \in Seq(Logs) /\ IfKnown(log) \in Seq(Logs)
      BY <2>2, Parts, LogsConcat, IfKnownType
    <3>5. /\ KnownOf(logs') = KnownOf(logs) \o IfKnown(log)
          /\ KnownOf(sent') = KnownOf(sent) \o IfKnown(log)
      BY <2>1, <2>2, <3>2, Parts, KnownEnds
    <3>6. received' \o events' \o sending' = front
      BY <2>1
    <3> HIDE DEF front
    <3>7. (front \o KnownOf(logs)) \o IfKnown(log) = front \o (KnownOf(logs) \o IfKnown(log))
      BY ONLY <3>4, LogsAssociative
    <3>8. front \o KnownOf(logs') = KnownOf(sent')
      BY ONLY <3>3, <3>5, <3>7
    <3>9. KnownOf(logs') = KnownOf(logs)' /\ KnownOf(sent') = KnownOf(sent)'
      BY DEF KnownOf, KnownUpTo
    <3> QED  BY ONLY <3>6, <3>8, <3>9 DEF Delivered
  <2>5. state' # "subscribing"
    BY <1>2, <2>1
  <2> QED  BY <2>3, <2>4, <2>5 DEF AllKept
<1> QED  BY <1>1, <1>2

LEMMA EventKept ==
    ASSUME EventTypeOK, AllKept, EventNext PROVE AllKept'
<1>0. /\ received \in Seq(Logs) /\ events \in Seq(Logs) /\ sending \in Seq(Logs)
      /\ logs \in Seq(Logs) /\ sent \in Seq(Logs)
      /\ KnownOf(logs) \in Seq(Logs) /\ KnownOf(sent) \in Seq(Logs)
  BY Parts
<1>1. CASE EndEvents
  <2>1. state' = "ended" /\ overrun' = FALSE
    BY <1>1 DEF EndEvents
  <2> QED  BY <2>1 DEF AllKept
<1>2. CASE SubscribeLogs
  <2>1. state = "subscribing" /\ state' = "listening"
        /\ UNCHANGED <<logs, overrun, sending, events, gone, received, sent, lost>>
    BY <1>2 DEF SubscribeLogs
  <2> QED  BY <2>1 DEF AllKept, Delivered
<1>3. CASE RecvLogLagged
  <2>1. /\ state = "listening" /\ overrun' = FALSE
        /\ UNCHANGED <<state, logs, sending, events, gone, received, sent, lost>>
    BY <1>3 DEF RecvLogLagged
  <2> QED  BY <2>1 DEF AllKept, Delivered
<1>4. CASE RecvLog
  <2>1. /\ logs # <<>> /\ logs' = Tail(logs) /\ state = "listening"
        /\ UNCHANGED <<received, events, sent, overrun, gone, lost>>
        /\ state' \in {"listening", "sending"}
        /\ sending' = IF Known(Head(logs)) THEN <<Head(logs)>> ELSE sending
    BY <1>4 DEF RecvLog
  <2>2. sending = <<>>
    BY <1>0, <2>1 DEF EventTypeOK
  <2>3. sending' = IfKnown(Head(logs))
    BY <2>1, <2>2 DEF IfKnown
  <2>4. ASSUME ~lost, ~gone PROVE Delivered'
    <3> DEFINE front == received \o events
    <3>1. (front \o sending) \o KnownOf(logs) = KnownOf(sent)
      BY <2>1, <2>4 DEF AllKept, Delivered
    <3>2. /\ front \in Seq(Logs) /\ IfKnown(Head(logs)) \in Seq(Logs)
          /\ KnownOf(Tail(logs)) \in Seq(Logs)
      <4>1. Head(logs) \in Logs /\ Tail(logs) \in Seq(Logs)
        BY <1>0, <2>1
      <4> QED  BY <1>0, <4>1, LogsConcat, IfKnownType, KnownEnds
    <3>3. KnownOf(logs) = IfKnown(Head(logs)) \o KnownOf(Tail(logs))
      BY <1>0, <2>1, KnownEnds
    <3>4. received' \o events' = front
      BY <2>1
    <3> HIDE DEF front
    <3>5. front \o sending = front
      BY <2>2, <3>2, LogsEmpty
    <3>6. (front \o IfKnown(Head(logs))) \o KnownOf(Tail(logs))
            = front \o (IfKnown(Head(logs)) \o KnownOf(Tail(logs)))
      BY ONLY <3>2, LogsAssociative
    <3>7. (front \o sending') \o KnownOf(logs') = KnownOf(sent')
      BY ONLY <2>1, <2>3, <3>1, <3>3, <3>5, <3>6
    <3>8. KnownOf(logs') = KnownOf(logs)' /\ KnownOf(sent') = KnownOf(sent)'
      BY DEF KnownOf, KnownUpTo
    <3> QED  BY ONLY <3>4, <3>7, <3>8 DEF Delivered
  <2>5. (~lost' => ~overrun') /\ state' # "subscribing"
    BY <2>1 DEF AllKept
  <2>6. lost' = lost /\ gone' = gone
    BY <2>1
  <2> QED  BY <2>4, <2>5, <2>6 DEF AllKept
<1>5. CASE SendEvent
  <2>1. /\ events' = events \o sending /\ sending' = <<>>
        /\ state = "sending" /\ state' = "listening"
        /\ UNCHANGED <<received, logs, sent, overrun, gone, lost>>
    BY <1>5 DEF SendEvent
  <2>2. ASSUME ~lost, ~gone PROVE Delivered'
    <3>1. ((received \o events) \o sending) \o KnownOf(logs) = KnownOf(sent)
      BY <2>1, <2>2 DEF AllKept, Delivered
    <3>2. (received \o events) \o sending = received \o (events \o sending)
      <4>1. received \in Seq(Logs) /\ events \in Seq(Logs) /\ sending \in Seq(Logs)
        BY <1>0
      <4> QED  BY ONLY <4>1, LogsAssociative
    <3>3. received \o (events \o sending) \in Seq(Logs)
      BY <1>0, LogsConcat
    <3>4. (received \o (events \o sending)) \o <<>> = received \o (events \o sending)
      BY ONLY <3>3, LogsEmpty
    <3>5. ((received' \o events') \o sending') \o KnownOf(logs') = KnownOf(sent')
      BY ONLY <2>1, <3>1, <3>2, <3>4
    <3>6. KnownOf(logs') = KnownOf(logs)' /\ KnownOf(sent') = KnownOf(sent)'
      BY DEF KnownOf, KnownUpTo
    <3> QED  BY ONLY <3>5, <3>6 DEF Delivered
  <2> QED  BY <2>1, <2>2 DEF AllKept
<1>6. CASE TakeEvent
  <2>1. /\ events # <<>> /\ events' = Tail(events)
        /\ received' = Append(received, Head(events))
        /\ UNCHANGED <<sending, logs, sent, overrun, gone, lost, state>>
    BY <1>6 DEF TakeEvent
  <2> DEFINE one == <<Head(events)>>
  <2>2. /\ Head(events) \in Logs /\ Tail(events) \in Seq(Logs) /\ one \in Seq(Logs)
        /\ events = one \o Tail(events)
    BY <1>0, <2>1
  <2>3. received' = received \o one
    BY <1>0, <2>1, <2>2, AppendIsConcat
  <2> HIDE DEF one
  <2>4. received' \o events' = received \o events
    <3>1. (received \o one) \o Tail(events) = received \o (one \o Tail(events))
      <4>1. received \in Seq(Logs) /\ one \in Seq(Logs) /\ Tail(events) \in Seq(Logs)
        BY <1>0, <2>2
      <4> QED  BY ONLY <4>1, LogsAssociative
    <3> QED  BY ONLY <2>1, <2>2, <2>3, <3>1
  <2>5. state # "subscribing"
    BY <2>1 DEF AllKept
  <2> QED  BY <2>1, <2>4, <2>5 DEF AllKept, Delivered
<1>7. CASE DropReceiver
  <2>1. gone' = TRUE /\ events' = <<>>
        /\ UNCHANGED <<received, sending, logs, sent, overrun, lost, state>>
    BY <1>7 DEF DropReceiver
  <2> QED  BY <2>1 DEF AllKept
<1> QED
  BY <1>1, <1>2, <1>3, <1>4, <1>5, <1>6, <1>7
     DEF EventNext, EventStep, EventsStop, EventsFail, ChannelClosed

\* Until an overrun, or an end, every log that decodes is with the state manager
\* or on its way to it, once and in its place, for any capacities and any logs.
THEOREM NothingLost == Spec => []NothingElseLost
<1>1. Init => AllKept
  <2> SUFFICES ASSUME Init PROVE AllKept
    OBVIOUS
  <2>1. /\ received = <<>> /\ events = <<>> /\ sending = <<>> /\ logs = <<>> /\ sent = <<>>
        /\ overrun = FALSE
    BY DEF Init, EventInit
  <2>2. KnownOf(logs) = <<>> /\ KnownOf(sent) = <<>>
    BY <2>1, KnownSingle
  <2>3. Delivered
    BY <2>1, <2>2 DEF Delivered
  <2> QED  BY <2>1, <2>3 DEF AllKept
<1>2. IInv /\ AllKept /\ [Next]_vars => AllKept'
  <2> SUFFICES ASSUME IInv, AllKept, [Next]_vars PROVE AllKept'
    OBVIOUS
  <2>1. CASE UNCHANGED eventVars
    BY <2>1 DEF eventVars, AllKept, Delivered
  <2>2. CASE \E known \in BOOLEAN : EmitLog(known)
    BY <2>2, EmitKept DEF IInv
  <2>3. CASE EventNext
    BY <2>3, EventKept DEF IInv
  <2> QED  BY <2>1, <2>2, <2>3 DEF Next, MineRollup, Cancel, vars
<1>3. AllKept => NothingElseLost
  BY DEF AllKept, Delivered, NothingElseLost
<1> QED  BY Invariance, <1>1, <1>2, <1>3, PTL DEF Spec
=============================================================================
