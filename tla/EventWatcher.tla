---------------------------- MODULE EventWatcher ----------------------------
(***************************************************************************)
(* The event watcher (tracker-server/src/ingestion/event_watcher.rs): it   *)
(* subscribes to the logs of the rollup's orders contract and sends those  *)
(* it can decode to the state manager, over a bounded channel.             *)
(*                                                                         *)
(*   state     "subscribing", "listening", "sending" (a send awaits room   *)
(*             in the channel), "ended"                                    *)
(*   logs      logs the subscription holds; overrun: it lost some          *)
(*   sending   the event whose send is awaited                             *)
(*   events    the channel; gone: the state manager has dropped its end    *)
(*   received  events the state manager took                               *)
(*   sent      logs the node sent since the subscription                   *)
(*   lost      the subscription lost a log (sent, lost: for the properties *)
(*             only)                                                       *)
(*                                                                         *)
(* A log is a record of its place in sent and whether it is known: it has  *)
(* a transaction and a block, and decodes as one of the two events. The    *)
(* removed flag of a log that a reorganisation takes back is not looked    *)
(* at: it counts as one more log.                                          *)
(***************************************************************************)
EXTENDS Subscription

CONSTANTS
    EventCapacity,   \* of the channel to the state manager
    MaxLogs          \* bound: so many logs are sent

ASSUME EventAssumption == EventCapacity \in Nat \ {0} /\ MaxLogs \in Nat

VARIABLES state, logs, overrun, sending, events, gone, received, sent, lost

eventVars == <<state, logs, overrun, sending, events, gone, received, sent, lost>>

EventInit ==
    /\ state = "subscribing"
    /\ logs = <<>> /\ overrun = FALSE /\ sending = <<>>
    /\ events = <<>> /\ gone = FALSE /\ received = <<>>
    /\ sent = <<>> /\ lost = FALSE

\* decode_log
Known(log) == log.known

-----------------------------------------------------------------------------

\* The node sends a log, unless nobody is subscribed.
EmitLog(known) ==
    LET log == [id |-> Len(sent) + 1, known |-> known]
    IN  IF state \in {"listening", "sending"}
        THEN /\ Len(sent) < MaxLogs
             /\ sent' = Append(sent, log)
             /\ logs' = Push(logs, log)
             /\ overrun' = (overrun \/ Full(logs)) /\ lost' = (lost \/ Full(logs))
             /\ UNCHANGED <<state, sending, events, gone, received>>
        ELSE UNCHANGED eventVars

SubscribeLogs ==
    /\ state = "subscribing"
    /\ state' = "listening"
    /\ UNCHANGED <<logs, overrun, sending, events, gone, received, sent, lost, token>>

\* The loop returns; what it holds is dropped, but the channel keeps its events.
EndEvents ==
    /\ state' = "ended"
    /\ logs' = <<>> /\ overrun' = FALSE /\ sending' = <<>>
    /\ UNCHANGED <<events, gone, received, sent, lost, token>>

\* The subscription fails or closes.
EventsFail == state \in {"subscribing", "listening"} /\ EndEvents

EventsStop == state = "listening" /\ token /\ EndEvents

\* The log stays in the subscription.
Bug_RecvLog ==
    /\ state = "listening" /\ ~token /\ ~overrun /\ logs # <<>>
    /\ IF Known(Head(logs))
       THEN sending' = <<Head(logs)>> /\ state' = "sending"
       ELSE UNCHANGED <<sending, state>>
    /\ UNCHANGED <<logs, overrun, events, gone, received, sent, lost, token>>

\* The undecodable are skipped.
RecvLog ==
    /\ state = "listening" /\ ~token /\ ~overrun /\ logs # <<>>
    /\ logs' = Tail(logs)
    /\ IF Known(Head(logs))
       THEN sending' = <<Head(logs)>> /\ state' = "sending"
       ELSE UNCHANGED <<sending, state>>
    /\ UNCHANGED <<overrun, events, gone, received, sent, lost, token>>

RecvLogLagged ==
    /\ state = "listening" /\ ~token /\ overrun
    /\ overrun' = FALSE
    /\ UNCHANGED <<state, logs, sending, events, gone, received, sent, lost, token>>

\* An unbounded channel: the send never waits.
Bug_SendEvent_Unbounded ==
    /\ state = "sending" /\ ~gone
    /\ events' = events \o sending
    /\ sending' = <<>> /\ state' = "listening"
    /\ UNCHANGED <<logs, overrun, gone, received, sent, lost, token>>

\* The event is dropped when the channel is full.
Bug_SendEvent ==
    /\ state = "sending" /\ ~gone
    /\ events' = IF Len(events) < EventCapacity THEN events \o sending ELSE events
    /\ sending' = <<>> /\ state' = "listening"
    /\ UNCHANGED <<logs, overrun, gone, received, sent, lost, token>>

SendEvent ==
    /\ state = "sending" /\ ~gone /\ Len(events) < EventCapacity
    /\ events' = events \o sending
    /\ sending' = <<>> /\ state' = "listening"
    /\ UNCHANGED <<logs, overrun, gone, received, sent, lost, token>>

\* The send that waits for ever is not woken by the drop of the receiver.
Bug_ChannelClosed == FALSE /\ EndEvents

\* send returns an error.
ChannelClosed == state = "sending" /\ gone /\ EndEvents

-----------------------------------------------------------------------------
(* The other end, in the state manager's select. *)

TakeEvent ==
    /\ events # <<>> /\ ~gone
    /\ received' = Append(received, Head(events)) /\ events' = Tail(events)
    /\ UNCHANGED <<state, logs, overrun, sending, gone, sent, lost, token>>

\* It ends when it finds the token cancelled, or by an error, and its end of the
\* channel with it.
DropReceiver ==
    /\ ~gone
    /\ gone' = TRUE /\ events' = <<>>
    /\ UNCHANGED <<state, logs, overrun, sending, received, sent, lost, token>>

-----------------------------------------------------------------------------

EventStep ==
    \/ SubscribeLogs \/ EventsStop \/ RecvLog \/ RecvLogLagged
    \/ SendEvent \/ ChannelClosed

EventNext == EventStep \/ EventsFail \/ TakeEvent \/ DropReceiver

=============================================================================
