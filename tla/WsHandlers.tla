----------------------------- MODULE WsHandlers -----------------------------
(***************************************************************************)
(* The WebSocket sessions of the tracker server (tracker-server/src/ws/    *)
(* handlers.rs) on top of the feed of the state manager (OrderFeed).  A    *)
(* single-order session asks for the status of one order, then subscribes  *)
(* to the broadcast channel; an all-orders session subscribes, then asks   *)
(* for a snapshot of every tracked order.                                  *)
(*                                                                         *)
(*   phase    where the handler is                                         *)
(*   queue    the part of the broadcast ring the session has not read      *)
(*   lagged   it was overrun; its next recv() returns Lagged               *)
(*   report   initial report received, not yet sent (single-order)         *)
(*   snap     snapshot statuses not yet sent (all-orders)                  *)
(*   filter   (order, status) pairs the client lets through (all-orders)   *)
(*   view     last status the client was sent for each order               *)
(*   missed   an update passed the session by (for the properties only)    *)
(*                                                                         *)
(* An update <<o, s>> says that o has status s.  A registration replies    *)
(* and broadcasts in one step here: a session quick enough to subscribe    *)
(* between the two receives the same status twice.  The state manager runs *)
(* throughout: what happens when it stops belongs to task supervision.     *)
(***************************************************************************)
EXTENDS OrderFeed, Naturals, Sequences

CONSTANTS
    Singles, Alls,   \* single-order and all-orders sessions
    Target,          \* the order a single-order session is about
    Filters,         \* filters a client may send
    Capacity         \* capacity of the broadcast channel

ASSUME WsAssumption ==
    /\ Singles \cap Alls = {}
    /\ Target \in [Singles -> Orders]
    /\ Filters \subseteq SUBSET (Orders \X Statuses)
    /\ Capacity \in Nat \ {0}

VARIABLES phase, queue, lagged, report, snap, filter, view, missed

sessionVars == <<phase, queue, lagged, report, snap, filter, view, missed>>
vars == <<feedVars, sessionVars>>

Sessions == Singles \cup Alls

Updates == Orders \X Statuses

NoStatuses == [o \in Orders |-> NotTracked]

Init ==
    /\ FeedInit
    /\ phase  = [x \in Sessions |-> "new"]
    /\ queue  = [x \in Sessions |-> <<>>]
    /\ lagged = [x \in Sessions |-> FALSE]
    /\ report = [x \in Singles |-> NotTracked]
    /\ snap   = [x \in Alls |-> NoStatuses]
    /\ filter = [x \in Alls |-> Updates]
    /\ view   = [x \in Sessions |-> NoStatuses]
    /\ missed = [x \in Sessions |-> FALSE]

-----------------------------------------------------------------------------
(* The broadcast channel. *)

\* The all-orders handler subscribes only for its receive loop.
Bug_Listening(x) == phase[x] = "streaming"

\* Sessions that hold a receiver. A single-order session subscribes after its
\* initial report was sent.
Listening(x) ==
    \/ phase[x] = "streaming"
    \/ x \in Alls /\ phase[x] \in {"waiting", "snapshot"}

\* The ring has no bound.
Bug_Overrun(x) == FALSE

\* A full ring overwrites its oldest entry.
Overrun(x) == Listening(x) /\ Len(queue[x]) = Capacity

Broadcast(o, s) ==
    /\ queue' = [x \in Sessions |->
                    IF ~Listening(x) THEN <<>>
                    ELSE IF Overrun(x) THEN Append(Tail(queue[x]), <<o, s>>)
                    ELSE Append(queue[x], <<o, s>>)]
    /\ lagged' = [x \in Sessions |-> lagged[x] \/ Overrun(x)]
    /\ missed' = [x \in Sessions |->
                    \/ missed[x] \/ Overrun(x)
                    \/ x \in Singles /\ phase[x] = "reporting" /\ Target[x] = o]

\* The state manager announces the status of an order (new block, Filled event,
\* discovery), or evicts.
Update(o, s) ==
    /\ Announce(o, s)
    /\ Broadcast(o, s)
    /\ UNCHANGED <<phase, report, snap, filter, view>>

\* What a handler holds is dropped when it ends; the client keeps its view.
Drop(x) ==
    /\ queue'  = [queue EXCEPT ![x] = <<>>]
    /\ lagged' = [lagged EXCEPT ![x] = FALSE]
    /\ missed' = [missed EXCEPT ![x] = FALSE]
    /\ report' = [c \in Singles |-> IF c = x THEN NotTracked ELSE report[c]]
    /\ snap'   = [a \in Alls |-> IF a = x THEN NoStatuses ELSE snap[a]]
    /\ filter' = [a \in Alls |-> IF a = x THEN Updates ELSE filter[a]]

Eviction == Evict /\ UNCHANGED sessionVars

-----------------------------------------------------------------------------
(* handle_single_order *)

\* The tx-cache lookup; an error or an unknown hash closes the connection.
Lookup(c) ==
    /\ phase[c] = "new"
    /\ \E next \in {"requested", "closed"} : phase' = [phase EXCEPT ![c] = next]
    /\ UNCHANGED <<feedVars, queue, lagged, report, snap, filter, view, missed>>

\* The state manager answers the track request: with the tracked status, or, of
\* an order that is not tracked, with the status it announces on registration.
Register(c) ==
    LET o == Target[c] IN
    /\ phase[c] = "requested"
    /\ phase' = [phase EXCEPT ![c] = "reporting"]
    /\ \/ /\ tracked[o] # NotTracked
          /\ report' = [report EXCEPT ![c] = tracked[o]]
          /\ UNCHANGED <<feedVars, queue, lagged, missed>>
       \/ /\ tracked[o] = NotTracked
          /\ \E s \in Statuses : /\ Announce(o, s) /\ Broadcast(o, s)
                                 /\ report' = [report EXCEPT ![c] = s]
    /\ UNCHANGED <<snap, filter, view>>

\* A terminal report does not end the session.
Bug_SendReport(c) ==
    /\ phase[c] = "reporting"
    /\ view' = [view EXCEPT ![c][Target[c]] = report[c]]
    /\ phase' = [phase EXCEPT ![c] = "streaming"]
    /\ UNCHANGED <<feedVars, queue, lagged, report, snap, filter, missed>>

\* The report is sent; the session ends if it is terminal, else subscribes.
SendReport(c) ==
    /\ phase[c] = "reporting"
    /\ view' = [view EXCEPT ![c][Target[c]] = report[c]]
    /\ IF report[c] \in Terminal
       THEN phase' = [phase EXCEPT ![c] = "closed"] /\ Drop(c)
       ELSE /\ phase' = [phase EXCEPT ![c] = "streaming"]
            /\ report' = [report EXCEPT ![c] = NotTracked]
            /\ UNCHANGED <<queue, lagged, snap, filter, missed>>
    /\ UNCHANGED feedVars

\* An update of a terminal status does not end the session.
Bug_RecvSingle(c) ==
    LET update == Head(queue[c]) IN
    /\ phase[c] = "streaming" /\ ~lagged[c] /\ queue[c] # <<>>
    /\ queue' = [queue EXCEPT ![c] = Tail(@)]
    /\ view' = IF update[1] = Target[c]
               THEN [view EXCEPT ![c][update[1]] = update[2]] ELSE view
    /\ UNCHANGED <<feedVars, phase, lagged, report, snap, filter, missed>>

\* Updates of other orders are skipped; a terminal one closes the connection.
RecvSingle(c) ==
    LET update == Head(queue[c]) IN
    /\ phase[c] = "streaming" /\ ~lagged[c] /\ queue[c] # <<>>
    /\ IF update[1] = Target[c]
       THEN view' = [view EXCEPT ![c][update[1]] = update[2]]
       ELSE UNCHANGED view
    /\ IF update \in {Target[c]} \X Terminal
       THEN phase' = [phase EXCEPT ![c] = "closed"] /\ Drop(c)
       ELSE /\ queue' = [queue EXCEPT ![c] = Tail(@)]
            /\ UNCHANGED <<phase, lagged, report, snap, filter, missed>>
    /\ UNCHANGED feedVars

-----------------------------------------------------------------------------
(* handle_all_orders *)

Subscribe(a) ==
    /\ phase[a] = "new"
    /\ phase' = [phase EXCEPT ![a] = "waiting"]
    /\ UNCHANGED <<feedVars, queue, lagged, report, snap, filter, view, missed>>

\* The state manager takes the snapshot request.
TakeSnapshot(a) ==
    /\ phase[a] = "waiting"
    /\ snap' = [snap EXCEPT ![a] = tracked]
    /\ phase' = [phase EXCEPT ![a] = "snapshot"]
    /\ UNCHANGED <<feedVars, queue, lagged, report, filter, view, missed>>

SendSnapshot(a, o) ==
    /\ phase[a] = "snapshot" /\ snap[a][o] # NotTracked
    /\ view' = [view EXCEPT ![a][o] = snap[a][o]]
    /\ snap' = [snap EXCEPT ![a][o] = NotTracked]
    /\ UNCHANGED <<feedVars, phase, queue, lagged, report, filter, missed>>

SnapshotSent(a) ==
    /\ phase[a] = "snapshot" /\ snap[a] = NoStatuses
    /\ phase' = [phase EXCEPT ![a] = "streaming"]
    /\ UNCHANGED <<feedVars, queue, lagged, report, snap, filter, view, missed>>

RecvAll(a) ==
    LET update == Head(queue[a]) IN
    /\ phase[a] = "streaming" /\ ~lagged[a] /\ queue[a] # <<>>
    /\ queue' = [queue EXCEPT ![a] = Tail(@)]
    /\ IF update \in filter[a]
       THEN /\ view' = [view EXCEPT ![a][update[1]] = update[2]]
            /\ UNCHANGED missed
       ELSE /\ missed' = [missed EXCEPT ![a] = TRUE]
            /\ UNCHANGED view
    /\ UNCHANGED <<feedVars, phase, lagged, report, snap, filter>>

SetFilter(a, f) ==
    /\ phase[a] = "streaming"
    /\ filter' = [filter EXCEPT ![a] = f]
    /\ UNCHANGED <<feedVars, phase, queue, lagged, report, snap, view, missed>>

-----------------------------------------------------------------------------
(* Both. *)

\* recv() returns Lagged: a warning, and the loop goes on.
RecvLagged(x) ==
    /\ phase[x] = "streaming" /\ lagged[x]
    /\ lagged' = [lagged EXCEPT ![x] = FALSE]
    /\ UNCHANGED <<feedVars, phase, queue, report, snap, filter, view, missed>>

\* The client leaves, or a send fails or times out; a handler that awaits the
\* state manager does not notice.
Disconnect(x) ==
    /\ phase[x] \in {"reporting", "snapshot", "streaming"}
    /\ phase' = [phase EXCEPT ![x] = "gone"]
    /\ Drop(x)
    /\ UNCHANGED <<feedVars, view>>

-----------------------------------------------------------------------------

SingleStep(c) == Lookup(c) \/ Register(c) \/ SendReport(c) \/ RecvSingle(c)

AllStep(a) ==
    \/ Subscribe(a) \/ TakeSnapshot(a) \/ SnapshotSent(a) \/ RecvAll(a)
    \/ \E o \in Orders : SendSnapshot(a, o)

Next ==
    \/ \E o \in Orders, s \in Statuses : Update(o, s)
    \/ Eviction
    \/ \E c \in Singles : SingleStep(c)
    \/ \E a \in Alls : AllStep(a) \/ \E f \in Filters : SetFilter(a, f)
    \/ \E x \in Sessions : RecvLagged(x) \/ Disconnect(x)

Spec == Init /\ [][Next]_vars

\* Each session is a task of its own; its sends end within WS_SEND_TIMEOUT, its
\* requests are answered (StateManager, RequestsAnswered).
FairSpec ==
    /\ Spec
    /\ \A c \in Singles : WF_vars(SingleStep(c) \/ RecvLagged(c))
    /\ \A a \in Alls : WF_vars(AllStep(a) \/ RecvLagged(a))

-----------------------------------------------------------------------------
(* Properties *)

\* The type invariant.
TypeOK ==
    /\ tracked \in [Orders -> Statuses \cup {NotTracked}]
    /\ announced \in [Orders -> Statuses \cup {NotTracked}]
    /\ phase \in [Sessions -> {"new", "requested", "reporting", "waiting",
                               "snapshot", "streaming", "closed", "gone"}]
    /\ queue \in [Sessions -> Seq(Updates)]
    /\ \A x \in Sessions : Len(queue[x]) <= Capacity
    /\ lagged \in [Sessions -> BOOLEAN] /\ missed \in [Sessions -> BOOLEAN]
    /\ report \in [Singles -> Statuses \cup {NotTracked}]
    /\ snap \in [Alls -> [Orders -> Statuses \cup {NotTracked}]]
    /\ filter \in [Alls -> SUBSET Updates]
    /\ view \in [Sessions -> [Orders -> Statuses \cup {NotTracked}]]

CaughtUp(x) == phase[x] = "streaming" /\ queue[x] = <<>> /\ ~missed[x]

\* A single-order session that is open, has read everything and missed nothing
\* shows the last status announced for its order, and that is not terminal.
SingleViewCurrent ==
    \A c \in Singles : CaughtUp(c) =>
        view[c][Target[c]] = announced[Target[c]] /\ announced[Target[c]] \notin Terminal

\* An all-orders client that missed nothing since it connected shows every
\* tracked order as it is, and nothing as pending that has left the table: the
\* subscription before the snapshot leaves no gap, and replayed updates that the
\* snapshot already contained do no lasting harm.
AllViewCurrent ==
    \A a \in Alls : CaughtUp(a) =>
        \A o \in Orders :
            IF tracked[o] # NotTracked THEN view[a][o] = tracked[o]
            ELSE view[a][o] # "pending"

\* A terminal update that reaches a single-order session ends it.
Reached(c) == phase[c] = "streaming" /\
    \E i \in DOMAIN queue[c] : queue[c][i] \in {Target[c]} \X Terminal
TerminalEnds ==
    \A c \in Singles : Reached(c) ~> (phase[c] \in {"closed", "gone"} \/ missed[c])

\* handlers.rs:28, README: the connection "Closes when the order reaches a
\* terminal state"; an open session with nothing left to read never will.
ClosesOnTerminal ==
    \A c \in Singles :
        (phase[c] = "streaming" /\ queue[c] = <<>> /\ ~lagged[c])
            => announced[Target[c]] \notin Terminal
=============================================================================
