--------------------------- MODULE WsHandlersProofs ---------------------------
(***************************************************************************)
(* What a client sees, for any sessions, orders, filters and capacity of   *)
(* the broadcast ring: a session that has read everything and missed       *)
(* nothing shows what the state manager announced.                         *)
(***************************************************************************)
EXTENDS WsHandlers, TLAPS

-----------------------------------------------------------------------------
(* The queue of updates. *)

Mentions(q, o) == \E i \in 1..Len(q) : q[i][1] = o

\* The last update about o in q, if there is one, is s.
LastIs(q, o, s) ==
    \A i \in 1..Len(q) :
        (q[i][1] = o /\ \A j \in (i + 1)..Len(q) : q[j][1] # o) => q[i][2] = s

\* An update appended is the last one about its order, and leaves the others.
LEMMA AppendUpdate ==
  ASSUME NEW q \in Seq(Updates), NEW o \in Orders, NEW s \in Statuses
  PROVE  /\ Mentions(Append(q, <<o, s>>), o)
         /\ LastIs(Append(q, <<o, s>>), o, s)
         /\ \A p \in Orders \ {o}, t \in Statuses \cup {NotTracked} :
               /\ Mentions(Append(q, <<o, s>>), p) <=> Mentions(q, p)
               /\ LastIs(q, p, t) => LastIs(Append(q, <<o, s>>), p, t)
<1> DEFINE r == Append(q, <<o, s>>)
<1>1. Len(r) = Len(q) + 1 /\ Len(q) \in Nat /\ r[Len(q) + 1] = <<o, s>>
  BY DEF Updates
<1>2. \A i \in 1..Len(q) : r[i] = q[i]
  BY DEF Updates
<1> HIDE DEF r
<1>3. Mentions(r, o) /\ LastIs(r, o, s)
  BY <1>1, <1>2 DEF Mentions, LastIs
<1>4. ASSUME NEW p \in Orders \ {o}, NEW t \in Statuses \cup {NotTracked}
      PROVE  Mentions(r, p) <=> Mentions(q, p)
  BY <1>1, <1>2 DEF Mentions
<1>5. ASSUME NEW p \in Orders \ {o}, NEW t \in Statuses \cup {NotTracked},
             LastIs(q, p, t)
      PROVE  LastIs(r, p, t)
  <2> SUFFICES ASSUME NEW i \in 1..Len(r), r[i][1] = p,
                      \A j \in (i + 1)..Len(r) : r[j][1] # p
               PROVE  r[i][2] = t
    BY DEF LastIs
  <2>1. i \in 1..Len(q)
    BY <1>1
  <2>2. \A j \in (i + 1)..Len(q) : q[j][1] # p
    BY <1>1, <1>2, <2>1
  <2>. QED  BY <1>2, <1>5, <2>1, <2>2 DEF LastIs
<1>. QED  BY <1>3, <1>4, <1>5 DEF r

\* Reading the head of the queue.
LEMMA ReadUpdate ==
  ASSUME NEW q \in Seq(Updates), q # <<>>
  PROVE  /\ Head(q) \in Updates /\ Tail(q) \in Seq(Updates)
         /\ Len(Tail(q)) <= Len(q)
         /\ \A o \in Orders, s \in Statuses \cup {NotTracked} :
               /\ LastIs(q, o, s) => LastIs(Tail(q), o, s)
               /\ LastIs(q, o, s) /\ ~Mentions(Tail(q), o) /\ Head(q)[1] = o
                     => Head(q)[2] = s
               /\ Head(q)[1] # o /\ ~Mentions(Tail(q), o) => ~Mentions(q, o)
<1>1. /\ Len(q) \in Nat \ {0} /\ Len(Tail(q)) = Len(q) - 1
      /\ Head(q) = q[1] /\ q[1] \in Updates /\ Tail(q) \in Seq(Updates)
  OBVIOUS
<1>2. \A i \in 1..Len(Tail(q)) : Tail(q)[i] = q[i + 1]
  OBVIOUS
<1>3. ASSUME NEW o \in Orders, NEW s \in Statuses \cup {NotTracked}
      PROVE  /\ LastIs(q, o, s) => LastIs(Tail(q), o, s)
             /\ LastIs(q, o, s) /\ ~Mentions(Tail(q), o) /\ Head(q)[1] = o
                   => Head(q)[2] = s
             /\ Head(q)[1] # o /\ ~Mentions(Tail(q), o) => ~Mentions(q, o)
  <2> DEFINE r == Tail(q)
  <2>1. \A i \in 2..Len(q) : i - 1 \in 1..Len(r) /\ q[i] = r[i - 1]
    BY <1>1, <1>2
  <2>2. \A i \in 1..Len(r) : i + 1 \in 2..Len(q) /\ r[i] = q[i + 1]
    BY <1>1, <1>2
  <2>3. Len(r) = Len(q) - 1 /\ Len(q) \in Nat
    BY <1>1
  <2> HIDE DEF r
  <2>4. ASSUME LastIs(q, o, s)
        PROVE  LastIs(r, o, s)
    <3> SUFFICES ASSUME NEW i \in 1..Len(r), r[i][1] = o,
                        \A j \in (i + 1)..Len(r) : r[j][1] # o
                 PROVE  r[i][2] = s
      BY DEF LastIs
    <3>1. i + 1 \in 1..Len(q) /\ q[i + 1] = r[i]
      BY <2>2, <2>3
    <3>2. \A j \in (i + 2)..Len(q) : q[j][1] # o
      <4> SUFFICES ASSUME NEW j \in (i + 2)..Len(q)
                   PROVE  q[j][1] # o
        OBVIOUS
      <4>1. j - 1 \in (i + 1)..Len(r) /\ j \in 2..Len(q)
        BY <2>3
      <4>. QED  BY <2>1, <4>1
    <3>. QED  BY <2>4, <3>1, <3>2 DEF LastIs
  <2>5. ASSUME LastIs(q, o, s), ~Mentions(r, o), q[1][1] = o
        PROVE  q[1][2] = s
    <3>1. \A j \in 2..Len(q) : q[j][1] # o
      BY <2>1, <2>5 DEF Mentions
    <3>. QED  BY <1>1, <2>5, <3>1 DEF LastIs
  <2>6. ASSUME q[1][1] # o, ~Mentions(r, o)
        PROVE  ~Mentions(q, o)
    <3>1. \A i \in 1..Len(q) : i = 1 \/ i \in 2..Len(q)
      BY <2>3
    <3>. QED  BY <2>1, <2>6, <3>1 DEF Mentions
  <2>. QED  BY <1>1, <2>4, <2>5, <2>6 DEF r
<1>. QED  BY <1>1, <1>3

-----------------------------------------------------------------------------
(* The invariant. *)

\* The feed: an order in the table has the status announced last, and one that
\* is not in it was not announced as pending.
FeedOK ==
    \A o \in Orders :
        IF tracked[o] # NotTracked THEN announced[o] = tracked[o]
        ELSE announced[o] # "pending"

\* Only sessions that hold a receiver have a queue.
QueueOK == \A x \in Sessions : ~Listening(x) => queue[x] = <<>>

\* What an all-orders client may show of an order it has no update left about.
Shows(v, o) == IF tracked[o] # NotTracked THEN v = tracked[o] ELSE v # "pending"

\* What it will show of o when the snapshot is sent.
Ahead(a, o) == IF snap[a][o] # NotTracked THEN snap[a][o] ELSE view[a][o]

\* A single-order session: the report is what was announced, then the last
\* update still queued is, and if none is left the view is, and is not terminal.
SingleOK(c) ==
    /\ phase[c] = "reporting" => report[c] = announced[Target[c]]
    /\ phase[c] = "streaming" =>
          /\ LastIs(queue[c], Target[c], announced[Target[c]])
          /\ \/ Mentions(queue[c], Target[c])
             \/ /\ view[c][Target[c]] = announced[Target[c]]
                /\ announced[Target[c]] \notin Terminal

\* An all-orders session: the same, with the snapshot still to be sent.
AllOK(a) ==
    /\ phase[a] \in {"waiting", "snapshot", "streaming"} =>
          \A o \in Orders : LastIs(queue[a], o, announced[o])
    /\ phase[a] \in {"snapshot", "streaming"} =>
          \A o \in Orders : Mentions(queue[a], o) \/ Shows(Ahead(a, o), o)

\* Before the snapshot the view is empty, after it nothing is left of it.
SnapOK ==
    \A a \in Alls :
        /\ phase[a] \in {"new", "waiting"} => view[a] = NoStatuses
        /\ phase[a] = "streaming" => snap[a] = NoStatuses

ViewOK(x) ==
    missed[x] = FALSE => /\ x \in Singles => SingleOK(x)
                         /\ x \in Alls => AllOK(x)

IInv == TypeOK /\ FeedOK /\ QueueOK /\ SnapOK /\ \A x \in Sessions : ViewOK(x)

USE WsAssumption DEF Sessions

LEMMA InitIInv == Init => IInv
<1> SUFFICES ASSUME Init
             PROVE  IInv
  OBVIOUS
<1> USE DEF Init, FeedInit, NoStatuses, NotTracked, Terminal, Statuses
<1>1. \A x \in Sessions : queue[x] = <<>> /\ Len(queue[x]) = 0
  OBVIOUS
<1>2. queue \in [Sessions -> Seq(Updates)]
  OBVIOUS
<1>3. TypeOK
  BY <1>1, <1>2 DEF TypeOK
<1>4. FeedOK /\ QueueOK /\ SnapOK
  BY DEF FeedOK, QueueOK, SnapOK
<1>5. \A x \in Sessions : ViewOK(x)
  BY DEF ViewOK, SingleOK, AllOK
<1>. QED  BY <1>3, <1>4, <1>5 DEF IInv

\* A session that neither moves nor hears anything.
LEMMA Untouched ==
  ASSUME NEW x \in Sessions, ViewOK(x), UNCHANGED feedVars,
         phase'[x] = phase[x], queue'[x] = queue[x], missed'[x] = missed[x],
         view'[x] = view[x], x \in Singles => report'[x] = report[x],
         x \in Alls => snap'[x] = snap[x]
  PROVE  ViewOK(x)'
BY DEF ViewOK, SingleOK, AllOK, Shows, Ahead, feedVars

-----------------------------------------------------------------------------
(* The state manager announces a status. *)

\* What a broadcast does to one session.
LEMMA BroadcastQueue ==
  ASSUME TypeOK, NEW o \in Orders, NEW s \in Statuses, Broadcast(o, s),
         NEW x \in Sessions
  PROVE  /\ queue'[x] \in Seq(Updates) /\ Len(queue'[x]) <= Capacity
         /\ lagged'[x] \in BOOLEAN /\ missed'[x] \in BOOLEAN
         /\ ~Listening(x) => queue'[x] = <<>>
         /\ missed'[x] = FALSE => missed[x] = FALSE
         /\ Listening(x) /\ missed'[x] = FALSE => queue'[x] = Append(queue[x], <<o, s>>)
         /\ x \in Singles /\ missed'[x] = FALSE /\ phase[x] = "reporting"
               => Target[x] # o
<1>1. queue[x] \in Seq(Updates) /\ Len(queue[x]) \in Nat /\ Len(queue[x]) <= Capacity
  BY DEF TypeOK
<1>2. <<o, s>> \in Updates
  BY DEF Updates
<1>3. queue'[x] = IF ~Listening(x) THEN <<>>
                  ELSE IF Overrun(x) THEN Append(Tail(queue[x]), <<o, s>>)
                  ELSE Append(queue[x], <<o, s>>)
  BY DEF Broadcast
<1>4. missed'[x] = (\/ missed[x] \/ Overrun(x)
                    \/ x \in Singles /\ phase[x] = "reporting" /\ Target[x] = o)
  BY DEF Broadcast
<1>5. lagged'[x] = (lagged[x] \/ Overrun(x))
  BY DEF Broadcast
<1>6. CASE ~Listening(x)
  <2>1. <<>> \in Seq(Updates) /\ Len(<<>>) = 0
    OBVIOUS
  <2>2. queue'[x] = <<>>
    BY <1>3, <1>6
  <2>3. missed[x] \in BOOLEAN /\ lagged[x] \in BOOLEAN
    BY DEF TypeOK
  <2>. QED  BY <1>4, <1>5, <1>6, <2>1, <2>2, <2>3
<1>7. CASE Listening(x) /\ ~Overrun(x)
  <2>1. queue'[x] = Append(queue[x], <<o, s>>)
    BY <1>3, <1>7
  <2>2. Len(queue[x]) # Capacity
    BY <1>7 DEF Overrun
  <2>3. /\ Append(queue[x], <<o, s>>) \in Seq(Updates)
        /\ Len(Append(queue[x], <<o, s>>)) = Len(queue[x]) + 1
    BY <1>1, <1>2
  <2>4. Len(queue'[x]) <= Capacity /\ queue'[x] \in Seq(Updates)
    BY <1>1, <2>1, <2>2, <2>3
  <2>5. missed[x] \in BOOLEAN /\ lagged[x] \in BOOLEAN
    BY DEF TypeOK
  <2>. QED  BY <1>4, <1>5, <1>7, <2>1, <2>4, <2>5
<1>8. CASE Overrun(x)
  <2>1. Listening(x) /\ Len(queue[x]) = Capacity
    BY <1>8 DEF Overrun
  <2>2. queue'[x] = Append(Tail(queue[x]), <<o, s>>)
    BY <1>3, <1>8, <2>1
  <2>3. queue[x] # <<>> /\ Len(queue[x]) # 0
    BY <2>1
  <2>4. /\ Tail(queue[x]) \in Seq(Updates)
        /\ Len(Tail(queue[x])) = Len(queue[x]) - 1
    BY <1>1, <2>3
  <2>5. /\ Append(Tail(queue[x]), <<o, s>>) \in Seq(Updates)
        /\ Len(Append(Tail(queue[x]), <<o, s>>)) = Len(queue[x])
    BY <1>1, <1>2, <2>4
  <2>6. missed'[x] = TRUE
    BY <1>4, <1>8
  <2>7. lagged'[x] = TRUE
    BY <1>5, <1>8
  <2>. QED  BY <1>1, <2>1, <2>2, <2>5, <2>6, <2>7
<1>. QED  BY <1>6, <1>7, <1>8

LEMMA BroadcastView ==
  ASSUME IInv, NEW o \in Orders, NEW s \in Statuses,
         Announce(o, s), Broadcast(o, s), NEW x \in Sessions,
         phase'[x] = phase[x], view'[x] = view[x],
         x \in Singles => report'[x] = report[x],
         x \in Alls => snap'[x] = snap[x]
  PROVE  ViewOK(x)'
<1> SUFFICES ASSUME missed'[x] = FALSE
             PROVE  /\ x \in Singles => SingleOK(x)'
                    /\ x \in Alls => AllOK(x)'
  BY DEF ViewOK
<1>0. TypeOK /\ FeedOK /\ ViewOK(x)
  BY DEF IInv
<1>1. /\ missed[x] = FALSE
      /\ Listening(x) => queue'[x] = Append(queue[x], <<o, s>>)
      /\ x \in Singles /\ phase[x] = "reporting" => Target[x] # o
  BY <1>0, BroadcastQueue
<1>2. queue[x] \in Seq(Updates)
  BY <1>0 DEF TypeOK
<1>3. /\ announced'[o] = s /\ tracked'[o] = s
      /\ \A p \in Orders \ {o} : announced'[p] = announced[p] /\ tracked'[p] = tracked[p]
      /\ \A p \in Orders : announced[p] \in Statuses \cup {NotTracked}
  BY <1>0 DEF Announce, TypeOK
<1>4. ASSUME Listening(x)
      PROVE  \A p \in Orders :
                /\ LastIs(queue[x], p, announced[p]) => LastIs(queue'[x], p, announced'[p])
                /\ p = o => Mentions(queue'[x], p)
                /\ Mentions(queue[x], p) => Mentions(queue'[x], p)
  <2>1. queue'[x] = Append(queue[x], <<o, s>>)
    BY <1>1, <1>4
  <2>2. Mentions(queue'[x], o) /\ LastIs(queue'[x], o, s)
    BY <1>2, <2>1, AppendUpdate
  <2>3. \A p \in Orders \ {o}, t \in Statuses \cup {NotTracked} :
           /\ Mentions(queue'[x], p) <=> Mentions(queue[x], p)
           /\ LastIs(queue[x], p, t) => LastIs(queue'[x], p, t)
    BY <1>2, <2>1, AppendUpdate
  <2>. QED  BY <1>3, <2>2, <2>3
<1>5. ASSUME x \in Singles
      PROVE  SingleOK(x)'
  <2>1. SingleOK(x) /\ Target[x] \in Orders
    BY <1>0, <1>1, <1>5 DEF ViewOK
  <2>2. CASE phase[x] = "reporting"
    BY <1>1, <1>3, <1>5, <2>1, <2>2 DEF SingleOK
  <2>3. CASE phase[x] = "streaming"
    <3>1. Listening(x)
      BY <2>3 DEF Listening
    <3>. QED  BY <1>3, <1>4, <2>1, <2>3, <3>1 DEF SingleOK
  <2>4. CASE phase[x] \notin {"reporting", "streaming"}
    BY <2>4 DEF SingleOK
  <2>. QED  BY <2>2, <2>3, <2>4
<1>6. ASSUME x \in Alls
      PROVE  AllOK(x)'
  <2>1. AllOK(x)
    BY <1>0, <1>1, <1>6 DEF ViewOK
  <2>2. CASE phase[x] \in {"waiting", "snapshot", "streaming"}
    <3>1. Listening(x)
      BY <1>6, <2>2 DEF Listening
    <3>2. \A p \in Orders : LastIs(queue'[x], p, announced'[p])
      BY <1>4, <2>1, <2>2, <3>1 DEF AllOK
    <3>3. \A p \in Orders : Ahead(x, p)' = Ahead(x, p)
      BY <1>6 DEF Ahead
    <3>4. ASSUME phase[x] \in {"snapshot", "streaming"}, NEW p \in Orders
          PROVE  Mentions(queue'[x], p) \/ Shows(Ahead(x, p), p)'
      BY <1>3, <1>4, <2>1, <3>1, <3>3, <3>4 DEF AllOK, Shows
    <3>. QED  BY <3>2, <3>4 DEF AllOK
  <2>3. CASE phase[x] \notin {"waiting", "snapshot", "streaming"}
    BY <2>3 DEF AllOK
  <2>. QED  BY <2>2, <2>3
<1>. QED  BY <1>5, <1>6

\* The table after an announcement.
LEMMA AnnounceFeed ==
  ASSUME IInv, NEW o \in Orders, NEW s \in Statuses, Announce(o, s)
  PROVE  /\ FeedOK'
         /\ tracked' \in [Orders -> Statuses \cup {NotTracked}]
         /\ announced' \in [Orders -> Statuses \cup {NotTracked}]
BY DEF IInv, TypeOK, FeedOK, Announce, Statuses, Terminal, NotTracked

\* A session of which nothing changes but the broadcast.
LEMMA UpdateIInv ==
  ASSUME IInv, NEW o \in Orders, NEW s \in Statuses, Update(o, s)
  PROVE  IInv'
<1> USE DEF Update
<1>0. TypeOK /\ QueueOK /\ SnapOK
  BY DEF IInv
<1>1. \A x \in Sessions :
         /\ queue'[x] \in Seq(Updates) /\ Len(queue'[x]) <= Capacity
         /\ lagged'[x] \in BOOLEAN /\ missed'[x] \in BOOLEAN
         /\ ~Listening(x) => queue'[x] = <<>>
  BY <1>0, BroadcastQueue
<1>2. TypeOK'
  BY <1>0, <1>1, AnnounceFeed DEF Broadcast, TypeOK
<1>3. FeedOK' /\ QueueOK' /\ SnapOK'
  BY <1>0, <1>1, AnnounceFeed DEF QueueOK, SnapOK, Listening
<1>4. \A x \in Sessions : ViewOK(x)'
  BY BroadcastView
<1>. QED  BY <1>2, <1>3, <1>4 DEF IInv

LEMMA EvictionIInv ==
  ASSUME IInv, Eviction
  PROVE  IInv'
<1> USE DEF Eviction, Evict, sessionVars
<1>1. TypeOK /\ FeedOK /\ QueueOK /\ SnapOK
  BY DEF IInv
<1>2. TypeOK'
  BY <1>1 DEF TypeOK
<1>3. FeedOK' /\ QueueOK' /\ SnapOK'
  BY <1>1 DEF FeedOK, QueueOK, SnapOK, Listening, TypeOK, Statuses, Terminal, NotTracked
<1>4. ASSUME NEW x \in Sessions
      PROVE  ViewOK(x)'
  <2>1. ViewOK(x)
    BY DEF IInv
  <2>2. ASSUME NEW v, NEW p \in Orders, Shows(v, p)
        PROVE  Shows(v, p)'
    BY <1>1, <2>2 DEF Shows, TypeOK, Terminal, NotTracked
  <2>. QED  BY <2>1, <2>2 DEF ViewOK, SingleOK, AllOK, Ahead
<1>. QED  BY <1>2, <1>3, <1>4 DEF IInv

-----------------------------------------------------------------------------
(* Steps of a session. *)

\* The feed and everything about the other sessions stays.
LEMMA OtherSessions ==
  ASSUME IInv, UNCHANGED feedVars, NEW y \in Sessions,
         \A x \in Sessions \ {y} :
            /\ phase'[x] = phase[x] /\ queue'[x] = queue[x]
            /\ missed'[x] = missed[x] /\ view'[x] = view[x]
            /\ x \in Singles => report'[x] = report[x]
            /\ x \in Alls => snap'[x] = snap[x],
         TypeOK',
         ~Listening(y)' => queue'[y] = <<>>,
         y \in Alls => /\ phase'[y] \in {"new", "waiting"} => view'[y] = NoStatuses
                       /\ phase'[y] = "streaming" => snap'[y] = NoStatuses,
         ViewOK(y)'
  PROVE  IInv'
<1>1. FeedOK'
  BY DEF IInv, FeedOK, feedVars
<1>2. QueueOK' /\ SnapOK'
  BY DEF IInv, QueueOK, SnapOK, Listening
<1>3. \A x \in Sessions : ViewOK(x)'
  BY Untouched DEF IInv
<1>. QED  BY <1>1, <1>2, <1>3 DEF IInv

\* A session that has ended keeps nothing but its view.
LEMMA EndIInv ==
  ASSUME IInv, NEW x \in Sessions, NEW end \in {"closed", "gone"},
         phase' = [phase EXCEPT ![x] = end], Drop(x), UNCHANGED feedVars,
         view' \in [Sessions -> [Orders -> Statuses \cup {NotTracked}]],
         \A y \in Sessions \ {x} : view'[y] = view[y]
  PROVE  IInv'
<1>0. TypeOK
  BY DEF IInv
<1>1. <<>> \in Seq(Updates) /\ Len(<<>>) = 0
  OBVIOUS
<1>2. queue' \in [Sessions -> Seq(Updates)]
  BY <1>0, <1>1 DEF Drop, TypeOK
<1>3. \A y \in Sessions : Len(queue'[y]) <= Capacity
  BY <1>0, <1>1 DEF Drop, TypeOK
<1>4. TypeOK'
  BY <1>0, <1>2, <1>3 DEF Drop, TypeOK, feedVars, NoStatuses
<1>5. phase'[x] = end /\ queue'[x] = <<>>
  BY <1>0 DEF Drop, TypeOK
<1>6. ViewOK(x)'
  BY <1>5 DEF ViewOK, SingleOK, AllOK
<1>7. \A y \in Sessions \ {x} :
         /\ phase'[y] = phase[y] /\ queue'[y] = queue[y]
         /\ missed'[y] = missed[y] /\ view'[y] = view[y]
         /\ y \in Singles => report'[y] = report[y]
         /\ y \in Alls => snap'[y] = snap[y]
  BY <1>0 DEF Drop, TypeOK
<1>. QED  BY <1>4, <1>5, <1>6, <1>7, OtherSessions

LEMMA RegisterIInv ==
  ASSUME IInv, NEW c \in Singles, Register(c)
  PROVE  IInv'
<1> DEFINE o == Target[c]
<1>0. /\ TypeOK /\ FeedOK /\ QueueOK /\ SnapOK
      /\ o \in Orders /\ c \in Sessions /\ c \notin Alls
  BY DEF IInv
<1>1. /\ phase[c] = "requested" /\ phase'[c] = "reporting"
      /\ \A x \in Sessions \ {c} : phase'[x] = phase[x]
      /\ phase' \in [Sessions -> {"new", "requested", "reporting", "waiting",
                                  "snapshot", "streaming", "closed", "gone"}]
      /\ UNCHANGED <<snap, filter, view>>
  BY <1>0 DEF Register, TypeOK
<1>2. ~Listening(c) /\ ~Listening(c)'
  BY <1>0, <1>1 DEF Listening
<1>3. CASE tracked[o] # NotTracked /\ report' = [report EXCEPT ![c] = tracked[o]]
           /\ UNCHANGED <<feedVars, queue, lagged, missed>>
  <2>1. TypeOK'
    BY <1>0, <1>1, <1>3 DEF TypeOK, feedVars
  <2>2. report'[c] = announced'[Target[c]]
    BY <1>0, <1>3 DEF TypeOK, FeedOK, feedVars
  <2>3. ViewOK(c)'
    BY <1>0, <1>1, <2>2 DEF ViewOK, SingleOK
  <2>4. ~Listening(c)' => queue'[c] = <<>>
    BY <1>0, <1>2, <1>3 DEF QueueOK
  <2>5. \A x \in Sessions \ {c} :
           /\ phase'[x] = phase[x] /\ queue'[x] = queue[x]
           /\ missed'[x] = missed[x] /\ view'[x] = view[x]
           /\ x \in Singles => report'[x] = report[x]
           /\ x \in Alls => snap'[x] = snap[x]
    BY <1>0, <1>1, <1>3 DEF TypeOK
  <2>. QED  BY <1>0, <1>3, <2>1, <2>3, <2>4, <2>5, OtherSessions
<1>4. ASSUME NEW s \in Statuses, Announce(o, s), Broadcast(o, s),
             report' = [report EXCEPT ![c] = s]
      PROVE  IInv'
  <2>1. \A x \in Sessions :
           /\ queue'[x] \in Seq(Updates) /\ Len(queue'[x]) <= Capacity
           /\ lagged'[x] \in BOOLEAN /\ missed'[x] \in BOOLEAN
           /\ ~Listening(x) => queue'[x] = <<>>
    BY <1>0, <1>4, BroadcastQueue
  <2>2. report' \in [Singles -> Statuses \cup {NotTracked}]
    BY <1>0, <1>4 DEF TypeOK
  <2>3. TypeOK'
    BY <1>0, <1>1, <1>4, <2>1, <2>2, AnnounceFeed DEF Broadcast, TypeOK
  <2>4. FeedOK'
    BY <1>0, <1>4, AnnounceFeed
  <2>5. QueueOK' /\ SnapOK'
    BY <1>0, <1>1, <1>2, <2>1 DEF QueueOK, SnapOK, Listening
  <2>6. ViewOK(c)'
    <3>1. report'[c] = s /\ announced'[o] = s
      BY <1>0, <1>4 DEF Announce, TypeOK
    <3>. QED  BY <1>0, <1>1, <3>1 DEF ViewOK, SingleOK
  <2>7. ASSUME NEW x \in Sessions \ {c}
        PROVE  ViewOK(x)'
    <3>1. x \in Singles => report'[x] = report[x]
      BY <1>0, <1>4 DEF TypeOK
    <3>. QED  BY <1>0, <1>1, <1>4, <3>1, BroadcastView
  <2>. QED  BY <2>3, <2>4, <2>5, <2>6, <2>7 DEF IInv
<1>. QED  BY <1>3, <1>4 DEF Register

LEMMA SendReportIInv ==
  ASSUME IInv, NEW c \in Singles, SendReport(c)
  PROVE  IInv'
<1> DEFINE o == Target[c]
<1>0. /\ TypeOK /\ QueueOK /\ o \in Orders /\ c \in Sessions /\ c \notin Alls
      /\ ViewOK(c) /\ UNCHANGED feedVars
  BY DEF IInv, SendReport
<1>1. /\ view' \in [Sessions -> [Orders -> Statuses \cup {NotTracked}]]
      /\ \A x \in Sessions \ {c} : view'[x] = view[x]
      /\ view'[c][o] = report[c]
  BY <1>0 DEF SendReport, TypeOK
<1>2. CASE report[c] \in Terminal
  BY <1>0, <1>1, <1>2, EndIInv DEF SendReport
<1>3. CASE report[c] \notin Terminal
  <2>1. /\ phase[c] = "reporting" /\ phase' = [phase EXCEPT ![c] = "streaming"]
        /\ report' = [report EXCEPT ![c] = NotTracked]
        /\ UNCHANGED <<queue, lagged, snap, filter, missed>>
    BY <1>3 DEF SendReport
  <2>2. TypeOK'
    BY <1>0, <1>1, <2>1 DEF TypeOK, feedVars
  <2>3. phase'[c] = "streaming" /\ Listening(c)' /\ queue'[c] = <<>>
    BY <1>0, <2>1 DEF TypeOK, QueueOK, Listening
  <2>4. ViewOK(c)'
    <3>1. ASSUME missed[c] = FALSE
          PROVE  view'[c][o] = announced[o] /\ announced[o] \notin Terminal
      BY <1>0, <1>1, <1>3, <2>1, <3>1 DEF ViewOK, SingleOK
    <3>2. Len(queue'[c]) = 0
      BY <2>3
    <3>3. LastIs(queue'[c], o, announced[o])
      BY <3>2 DEF LastIs
    <3>. QED  BY <1>0, <2>1, <2>3, <3>1, <3>3 DEF ViewOK, SingleOK, feedVars
  <2>5. \A x \in Sessions \ {c} :
           /\ phase'[x] = phase[x] /\ queue'[x] = queue[x]
           /\ missed'[x] = missed[x] /\ view'[x] = view[x]
           /\ x \in Singles => report'[x] = report[x]
           /\ x \in Alls => snap'[x] = snap[x]
    BY <1>0, <1>1, <2>1 DEF TypeOK
  <2>. QED  BY <1>0, <2>2, <2>3, <2>4, <2>5, OtherSessions
<1>. QED  BY <1>2, <1>3

LEMMA RecvSingleIInv ==
  ASSUME IInv, NEW c \in Singles, RecvSingle(c)
  PROVE  IInv'
<1> DEFINE o == Target[c]
           update == Head(queue[c])
<1>0. /\ TypeOK /\ QueueOK /\ o \in Orders /\ c \in Sessions /\ c \notin Alls
      /\ ViewOK(c) /\ UNCHANGED feedVars /\ phase[c] = "streaming"
      /\ queue[c] \in Seq(Updates) /\ queue[c] # <<>>
  BY DEF IInv, RecvSingle, TypeOK
<1>1. update \in Updates /\ update[2] \in Statuses
  BY <1>0, ReadUpdate DEF Updates
<1>2. /\ view' \in [Sessions -> [Orders -> Statuses \cup {NotTracked}]]
      /\ \A x \in Sessions \ {c} : view'[x] = view[x]
      /\ view'[c][o] = IF update[1] = o THEN update[2] ELSE view[c][o]
  <2>1. CASE update[1] = o
    <3>1. view' = [view EXCEPT ![c][update[1]] = update[2]]
      BY <2>1 DEF RecvSingle
    <3>. QED  BY <1>0, <1>1, <2>1, <3>1 DEF TypeOK
  <2>2. CASE update[1] # o
    <3>1. view' = view
      BY <2>2 DEF RecvSingle
    <3>. QED  BY <1>0, <2>2, <3>1 DEF TypeOK
  <2>. QED  BY <2>1, <2>2
<1>3. CASE update \in {Target[c]} \X Terminal
  <2>1. phase' = [phase EXCEPT ![c] = "closed"] /\ Drop(c)
    BY <1>3 DEF RecvSingle
  <2>. QED  BY <1>0, <1>2, <2>1, EndIInv
<1>4. CASE update \notin {Target[c]} \X Terminal
  <2>1. /\ queue' = [queue EXCEPT ![c] = Tail(@)]
        /\ UNCHANGED <<phase, lagged, report, snap, filter, missed>>
    BY <1>4 DEF RecvSingle
  <2>2. /\ Tail(queue[c]) \in Seq(Updates) /\ Len(Tail(queue[c])) <= Len(queue[c])
        /\ Len(queue[c]) \in Nat /\ Len(Tail(queue[c])) \in Nat
    BY <1>0, ReadUpdate
  <2>3. Len(Tail(queue[c])) <= Capacity
    BY <1>0, <2>2 DEF TypeOK
  <2>4. TypeOK'
    BY <1>0, <1>2, <2>1, <2>2, <2>3 DEF TypeOK, feedVars
  <2>5. queue'[c] = Tail(queue[c])
    BY <1>0, <2>1 DEF TypeOK
  <2>6. ViewOK(c)'
    <3> SUFFICES ASSUME missed[c] = FALSE
                 PROVE  SingleOK(c)'
      BY <1>0, <2>1 DEF ViewOK
    <3>1. SingleOK(c) /\ announced[o] \in Statuses \cup {NotTracked}
      BY <1>0 DEF ViewOK, TypeOK
    <3>2. LastIs(queue[c], o, announced[o])
      BY <1>0, <3>1 DEF SingleOK
    <3>3. LastIs(Tail(queue[c]), o, announced[o])
      BY <1>0, <3>1, <3>2, ReadUpdate
    <3>4. ASSUME ~Mentions(Tail(queue[c]), o), update[1] = o
          PROVE  view'[c][o] = announced[o] /\ announced[o] \notin Terminal
      <4>1. update[2] = announced[o]
        BY <1>0, <3>1, <3>2, <3>4, ReadUpdate
      <4>2. update[2] \notin Terminal
        BY <1>1, <1>4, <3>4 DEF Updates
      <4>. QED  BY <1>2, <3>4, <4>1, <4>2
    <3>5. ASSUME ~Mentions(Tail(queue[c]), o), update[1] # o
          PROVE  view'[c][o] = announced[o] /\ announced[o] \notin Terminal
      <4>1. ~Mentions(queue[c], o)
        BY <1>0, <3>1, <3>5, ReadUpdate
      <4>. QED  BY <1>0, <1>2, <3>1, <3>5, <4>1 DEF SingleOK
    <3>. QED  BY <1>0, <2>1, <2>5, <3>3, <3>4, <3>5 DEF SingleOK, feedVars
  <2>7. \A x \in Sessions \ {c} :
           /\ phase'[x] = phase[x] /\ queue'[x] = queue[x]
           /\ missed'[x] = missed[x] /\ view'[x] = view[x]
           /\ x \in Singles => report'[x] = report[x]
           /\ x \in Alls => snap'[x] = snap[x]
    BY <1>0, <1>2, <2>1 DEF TypeOK
  <2>8. Listening(c)'
    BY <1>0, <2>1 DEF Listening
  <2>. QED  BY <1>0, <2>4, <2>6, <2>7, <2>8, OtherSessions
<1>. QED  BY <1>3, <1>4

\* Steps of an all-orders session that read no update: it subscribes, receives
\* the snapshot, sends it, and changes its filter.
LEMMA SnapshotIInv ==
  ASSUME IInv, NEW a \in Alls,
         \/ Subscribe(a) \/ TakeSnapshot(a) \/ SnapshotSent(a)
         \/ \E o \in Orders : SendSnapshot(a, o)
         \/ \E f \in Filters : SetFilter(a, f)
  PROVE  IInv'
<1>0. /\ TypeOK /\ QueueOK /\ SnapOK /\ a \in Sessions /\ a \notin Singles
      /\ ViewOK(a) /\ UNCHANGED feedVars
  BY DEF IInv, Subscribe, TakeSnapshot, SnapshotSent, SendSnapshot, SetFilter
<1>1. CASE Subscribe(a)
  <2>1. TypeOK'
    BY <1>0, <1>1 DEF Subscribe, TypeOK, feedVars
  <2>2. /\ phase[a] = "new" /\ phase'[a] = "waiting" /\ queue'[a] = <<>>
        /\ view'[a] = NoStatuses
    BY <1>0, <1>1 DEF Subscribe, TypeOK, QueueOK, SnapOK, Listening
  <2>3. Len(queue'[a]) = 0
    BY <2>2
  <2>4. ViewOK(a)'
    BY <1>0, <2>2, <2>3 DEF ViewOK, AllOK, LastIs
  <2>5. \A x \in Sessions \ {a} :
           /\ phase'[x] = phase[x] /\ queue'[x] = queue[x]
           /\ missed'[x] = missed[x] /\ view'[x] = view[x]
           /\ x \in Singles => report'[x] = report[x]
           /\ x \in Alls => snap'[x] = snap[x]
    BY <1>0, <1>1 DEF Subscribe, TypeOK
  <2>. QED  BY <1>0, <2>1, <2>2, <2>4, <2>5, OtherSessions
<1>2. CASE TakeSnapshot(a)
  <2>1. TypeOK'
    BY <1>0, <1>2 DEF TakeSnapshot, TypeOK, feedVars
  <2>2. /\ phase[a] = "waiting" /\ phase'[a] = "snapshot" /\ Listening(a)'
        /\ view'[a] = NoStatuses /\ snap'[a] = tracked /\ UNCHANGED <<queue, missed>>
    BY <1>0, <1>2 DEF TakeSnapshot, TypeOK, SnapOK, Listening
  <2>3. ASSUME NEW o \in Orders
        PROVE  Shows(Ahead(a, o)', o)
    <3>1. Ahead(a, o)' = tracked[o]
      BY <2>2 DEF Ahead, NoStatuses
    <3>. QED  BY <3>1 DEF Shows, NotTracked
  <2>4. ViewOK(a)'
    BY <1>0, <2>2, <2>3 DEF ViewOK, AllOK, Shows, feedVars
  <2>5. \A x \in Sessions \ {a} :
           /\ phase'[x] = phase[x] /\ queue'[x] = queue[x]
           /\ missed'[x] = missed[x] /\ view'[x] = view[x]
           /\ x \in Singles => report'[x] = report[x]
           /\ x \in Alls => snap'[x] = snap[x]
    BY <1>0, <1>2 DEF TakeSnapshot, TypeOK
  <2>. QED  BY <1>0, <2>1, <2>2, <2>4, <2>5, OtherSessions
<1>3. CASE SnapshotSent(a)
  <2>1. TypeOK'
    BY <1>0, <1>3 DEF SnapshotSent, TypeOK, feedVars
  <2>2. /\ phase[a] = "snapshot" /\ phase'[a] = "streaming" /\ Listening(a)'
        /\ snap'[a] = NoStatuses /\ UNCHANGED <<queue, missed, view, snap>>
    BY <1>0, <1>3 DEF SnapshotSent, TypeOK, Listening
  <2>3. ViewOK(a)'
    BY <1>0, <2>2 DEF ViewOK, AllOK, Shows, Ahead, feedVars
  <2>4. \A x \in Sessions \ {a} :
           /\ phase'[x] = phase[x] /\ queue'[x] = queue[x]
           /\ missed'[x] = missed[x] /\ view'[x] = view[x]
           /\ x \in Singles => report'[x] = report[x]
           /\ x \in Alls => snap'[x] = snap[x]
    BY <1>0, <1>3 DEF SnapshotSent, TypeOK
  <2>. QED  BY <1>0, <2>1, <2>2, <2>3, <2>4, OtherSessions
<1>4. ASSUME NEW o \in Orders, SendSnapshot(a, o)
      PROVE  IInv'
  <2>1. TypeOK'
    BY <1>0, <1>4 DEF SendSnapshot, TypeOK, feedVars
  <2>2. /\ phase[a] = "snapshot" /\ phase'[a] = "snapshot" /\ Listening(a)'
        /\ UNCHANGED <<queue, missed>>
    BY <1>0, <1>4 DEF SendSnapshot, Listening
  <2>3. \A p \in Orders : Ahead(a, p)' = Ahead(a, p)
    BY <1>0, <1>4 DEF SendSnapshot, Ahead, TypeOK
  <2>4. ViewOK(a)'
    BY <1>0, <2>2, <2>3 DEF ViewOK, AllOK, Shows, feedVars
  <2>5. \A x \in Sessions \ {a} :
           /\ phase'[x] = phase[x] /\ queue'[x] = queue[x]
           /\ missed'[x] = missed[x] /\ view'[x] = view[x]
           /\ x \in Singles => report'[x] = report[x]
           /\ x \in Alls => snap'[x] = snap[x]
    BY <1>0, <1>4 DEF SendSnapshot, TypeOK
  <2>. QED  BY <1>0, <2>1, <2>2, <2>4, <2>5, OtherSessions
<1>5. ASSUME NEW f \in Filters, SetFilter(a, f)
      PROVE  IInv'
  <2>1. TypeOK'
    BY <1>0, <1>5 DEF SetFilter, TypeOK, feedVars, Updates
  <2>2. UNCHANGED <<phase, queue, report, snap, view, missed>>
    BY <1>5 DEF SetFilter
  <2>3. ViewOK(a)'
    BY <1>0, <2>2, Untouched
  <2>. QED  BY <1>0, <2>1, <2>2, <2>3, OtherSessions DEF QueueOK, SnapOK, Listening
<1>. QED  BY <1>1, <1>2, <1>3, <1>4, <1>5

LEMMA RecvAllIInv ==
  ASSUME IInv, NEW a \in Alls, RecvAll(a)
  PROVE  IInv'
<1> DEFINE update == Head(queue[a])
<1>0. /\ TypeOK /\ QueueOK /\ SnapOK /\ FeedOK /\ a \in Sessions /\ a \notin Singles
      /\ ViewOK(a) /\ UNCHANGED feedVars /\ phase[a] = "streaming"
      /\ queue[a] \in Seq(Updates) /\ queue[a] # <<>>
      /\ UNCHANGED <<phase, lagged, report, snap, filter>>
      /\ queue' = [queue EXCEPT ![a] = Tail(@)]
  BY DEF IInv, RecvAll, TypeOK
<1>1. /\ update \in Updates /\ update[1] \in Orders /\ update[2] \in Statuses
      /\ Tail(queue[a]) \in Seq(Updates) /\ Len(Tail(queue[a])) <= Len(queue[a])
      /\ Len(queue[a]) \in Nat /\ Len(Tail(queue[a])) \in Nat
  BY <1>0, ReadUpdate DEF Updates
<1>2. /\ view' \in [Sessions -> [Orders -> Statuses \cup {NotTracked}]]
      /\ \A x \in Sessions \ {a} : view'[x] = view[x] /\ missed'[x] = missed[x]
      /\ missed' \in [Sessions -> BOOLEAN]
      /\ missed'[a] = FALSE =>
            /\ missed[a] = FALSE
            /\ \A o \in Orders : view'[a][o] = IF update[1] = o THEN update[2]
                                               ELSE view[a][o]
  <2>1. CASE update \in filter[a]
    <3>1. view' = [view EXCEPT ![a][update[1]] = update[2]] /\ UNCHANGED missed
      BY <2>1 DEF RecvAll
    <3>. QED  BY <1>0, <1>1, <3>1 DEF TypeOK
  <2>2. CASE update \notin filter[a]
    <3>1. missed' = [missed EXCEPT ![a] = TRUE] /\ UNCHANGED view
      BY <2>2 DEF RecvAll
    <3>. QED  BY <1>0, <1>1, <3>1 DEF TypeOK
  <2>. QED  BY <2>1, <2>2
<1>3. Len(Tail(queue[a])) <= Capacity
  BY <1>0, <1>1 DEF TypeOK
<1>4. TypeOK'
  BY <1>0, <1>1, <1>2, <1>3 DEF TypeOK, feedVars
<1>5. queue'[a] = Tail(queue[a]) /\ snap'[a] = NoStatuses
  BY <1>0 DEF TypeOK, SnapOK
<1>6. ViewOK(a)'
  <2> SUFFICES ASSUME missed'[a] = FALSE
               PROVE  AllOK(a)'
    BY <1>0 DEF ViewOK
  <2>1. AllOK(a)
    BY <1>0, <1>2 DEF ViewOK
  <2>2. \A o \in Orders : /\ LastIs(queue[a], o, announced[o])
                          /\ announced[o] \in Statuses \cup {NotTracked}
    BY <1>0, <2>1 DEF AllOK, TypeOK
  <2>3. \A o \in Orders : LastIs(Tail(queue[a]), o, announced[o])
    BY <1>0, <2>2, ReadUpdate
  <2>4. ASSUME NEW o \in Orders, ~Mentions(Tail(queue[a]), o)
        PROVE  Shows(view'[a][o], o)
    <3>1. CASE update[1] = o
      <4>1. update[2] = announced[o]
        BY <1>0, <2>2, <2>4, <3>1, ReadUpdate
      <4>. QED  BY <1>0, <1>2, <3>1, <4>1 DEF Shows, FeedOK
    <3>2. CASE update[1] # o
      <4>1. ~Mentions(queue[a], o)
        BY <1>0, <2>2, <2>4, <3>2, ReadUpdate
      <4>2. snap[a][o] = NotTracked
        BY <1>0 DEF SnapOK, NoStatuses
      <4>3. Shows(view[a][o], o)
        BY <1>0, <2>1, <4>1, <4>2 DEF AllOK, Ahead
      <4>. QED  BY <1>2, <3>2, <4>3
    <3>. QED  BY <3>1, <3>2
  <2>5. \A o \in Orders : Ahead(a, o)' = view'[a][o]
    BY <1>5 DEF Ahead, NoStatuses
  <2>. QED  BY <1>0, <1>5, <2>3, <2>4, <2>5 DEF AllOK, Shows, feedVars
<1>7. \A x \in Sessions \ {a} :
         /\ phase'[x] = phase[x] /\ queue'[x] = queue[x]
         /\ missed'[x] = missed[x] /\ view'[x] = view[x]
         /\ x \in Singles => report'[x] = report[x]
         /\ x \in Alls => snap'[x] = snap[x]
  BY <1>0, <1>2 DEF TypeOK
<1>8. Listening(a)'
  BY <1>0 DEF Listening
<1>. QED  BY <1>0, <1>4, <1>5, <1>6, <1>7, <1>8, OtherSessions

LEMMA LookupIInv ==
  ASSUME IInv, NEW c \in Singles, Lookup(c)
  PROVE  IInv'
<1>0. /\ TypeOK /\ QueueOK /\ c \in Sessions /\ c \notin Alls
      /\ UNCHANGED <<feedVars, queue, lagged, report, snap, filter, view, missed>>
  BY DEF IInv, Lookup
<1>1. PICK next \in {"requested", "closed"} : phase' = [phase EXCEPT ![c] = next]
  BY DEF Lookup
<1>2. TypeOK'
  BY <1>0, <1>1 DEF TypeOK, feedVars
<1>3. phase[c] = "new" /\ phase'[c] = next /\ queue'[c] = <<>>
  BY <1>0, <1>1 DEF Lookup, TypeOK, QueueOK, Listening
<1>4. ViewOK(c)'
  BY <1>0, <1>3 DEF ViewOK, SingleOK
<1>5. \A x \in Sessions \ {c} :
         /\ phase'[x] = phase[x] /\ queue'[x] = queue[x]
         /\ missed'[x] = missed[x] /\ view'[x] = view[x]
         /\ x \in Singles => report'[x] = report[x]
         /\ x \in Alls => snap'[x] = snap[x]
  BY <1>0, <1>1 DEF TypeOK
<1>. QED  BY <1>0, <1>2, <1>3, <1>4, <1>5, OtherSessions

LEMMA RecvLaggedIInv ==
  ASSUME IInv, NEW x \in Sessions, RecvLagged(x)
  PROVE  IInv'
<1>0. /\ TypeOK /\ QueueOK /\ SnapOK /\ FeedOK
      /\ UNCHANGED <<feedVars, phase, queue, report, snap, filter, view, missed>>
      /\ lagged' = [lagged EXCEPT ![x] = FALSE]
  BY DEF IInv, RecvLagged
<1>1. TypeOK'
  BY <1>0 DEF TypeOK, feedVars
<1>2. \A y \in Sessions : ViewOK(y)'
  BY <1>0, Untouched DEF IInv
<1>. QED  BY <1>0, <1>1, <1>2 DEF IInv, FeedOK, QueueOK, SnapOK, Listening, feedVars

LEMMA DisconnectIInv ==
  ASSUME IInv, NEW x \in Sessions, Disconnect(x)
  PROVE  IInv'
<1>1. view' \in [Sessions -> [Orders -> Statuses \cup {NotTracked}]]
  BY DEF Disconnect, IInv, TypeOK
<1>2. /\ phase' = [phase EXCEPT ![x] = "gone"] /\ Drop(x)
      /\ UNCHANGED feedVars /\ UNCHANGED view
  BY DEF Disconnect
<1>. QED  BY <1>1, <1>2, EndIInv

LEMMA Invariance == Spec => []IInv
<1>1. IInv /\ UNCHANGED vars => IInv'
  <2> SUFFICES ASSUME IInv, UNCHANGED vars
               PROVE  IInv'
    OBVIOUS
  <2>1. UNCHANGED <<feedVars, phase, queue, lagged, report, snap, filter, view, missed>>
    BY DEF vars, sessionVars
  <2>2. TypeOK' /\ FeedOK' /\ QueueOK' /\ SnapOK'
    BY <2>1 DEF IInv, TypeOK, FeedOK, QueueOK, SnapOK, Listening, feedVars
  <2>3. \A x \in Sessions : ViewOK(x)'
    BY <2>1, Untouched DEF IInv
  <2>. QED  BY <2>2, <2>3 DEF IInv
<1>2. IInv /\ Next => IInv'
  BY UpdateIInv, EvictionIInv, LookupIInv, RegisterIInv, SendReportIInv,
     RecvSingleIInv, SnapshotIInv, RecvAllIInv, RecvLaggedIInv, DisconnectIInv
     DEF Next, SingleStep, AllStep
<1>. QED  BY <1>1, <1>2, InitIInv, PTL DEF Spec

\* The variables of the sessions keep their types, and no queue outgrows the
\* ring, for any sessions, orders, filters and capacity.
THEOREM SessionType == Spec => []TypeOK
<1>1. IInv => TypeOK
  BY DEF IInv
<1>. QED  BY <1>1, Invariance, PTL

\* A single-order client that has read everything and missed nothing shows the
\* last status announced for its order.
THEOREM SingleView == Spec => []SingleViewCurrent
<1>1. IInv => SingleViewCurrent
  <2> SUFFICES ASSUME IInv, NEW c \in Singles, phase[c] = "streaming",
                      queue[c] = <<>>, ~missed[c]
               PROVE  /\ view[c][Target[c]] = announced[Target[c]]
                      /\ announced[Target[c]] \notin Terminal
    BY DEF SingleViewCurrent, CaughtUp
  <2>1. ~Mentions(queue[c], Target[c])
    BY DEF Mentions
  <2>2. missed[c] = FALSE
    BY DEF IInv, TypeOK
  <2>. QED  BY <2>1, <2>2 DEF IInv, ViewOK, SingleOK
<1>. QED  BY <1>1, Invariance, PTL

\* The snapshot and the updates after the subscription leave no gap: an
\* all-orders client that missed nothing shows every tracked order as it is.
THEOREM AllView == Spec => []AllViewCurrent
<1>1. IInv => AllViewCurrent
  <2> SUFFICES ASSUME IInv, NEW a \in Alls, phase[a] = "streaming",
                      queue[a] = <<>>, ~missed[a], NEW o \in Orders
               PROVE  Shows(view[a][o], o)
    BY DEF AllViewCurrent, CaughtUp, Shows
  <2>1. ~Mentions(queue[a], o)
    BY DEF Mentions
  <2>2. missed[a] = FALSE
    BY DEF IInv, TypeOK
  <2>3. Ahead(a, o) = view[a][o]
    BY DEF IInv, SnapOK, Ahead, NoStatuses
  <2>. QED  BY <2>1, <2>2, <2>3 DEF IInv, ViewOK, AllOK
<1>. QED  BY <1>1, Invariance, PTL
=============================================================================
