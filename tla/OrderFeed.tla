----------------------------- MODULE OrderFeed -----------------------------
(***************************************************************************)
(* What the state manager promises to everything that listens to it: a     *)
(* table of tracked orders, and an update broadcast on every change of it. *)
(*   tracked[o]   status of o in the table, NotTracked if it has no entry  *)
(*   announced[o] the last status broadcast for o, NotTracked if none      *)
(***************************************************************************)
EXTENDS OrderStatus

CONSTANT Orders

VARIABLES tracked, announced

feedVars == <<tracked, announced>>

FeedInit ==
    /\ tracked   = [o \in Orders |-> NotTracked]
    /\ announced = [o \in Orders |-> NotTracked]

\* The status of o is determined (again) and told to the subscribers. A
\* terminal order is never looked at again.
Announce(o, s) ==
    /\ tracked[o] \notin Terminal
    /\ tracked'   = [tracked EXCEPT ![o] = s]
    /\ announced' = [announced EXCEPT ![o] = s]

\* Terminal orders leave the table together; nobody is told.
Evict ==
    /\ tracked' = [o \in Orders |-> IF tracked[o] \in Terminal
                                    THEN NotTracked ELSE tracked[o]]
    /\ UNCHANGED announced

FeedNext == Evict \/ \E o \in Orders, s \in Statuses : Announce(o, s)

FeedSpec == FeedInit /\ [][FeedNext]_feedVars
=============================================================================
