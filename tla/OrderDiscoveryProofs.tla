------------------------- MODULE OrderDiscoveryProofs -------------------------
(***************************************************************************)
(* The discovery task forwards no order twice and remembers no more than   *)
(* what is listed, for any orders the tx-cache lists, and however its polls *)
(* fail.                                                                   *)
(***************************************************************************)
EXTENDS OrderDiscovery, TLAPS

\* What was forwarded and is still listed stays marked, over failed polls too:
\* this is why an order is not collected again.
ForwardedIsSeen == forwarded \subseteq seen_hashes

\* What a poll has yielded so far is marked, and what it collects is part of it:
\* pruning to what it yielded loses no mark of an order about to be sent.
CollectedIsSeen ==
    phase = "streaming" => /\ new_orders \subseteq current_hashes
                           /\ current_hashes \subseteq seen_hashes

\* An order that is collected was not forwarded.
CollectedIsNew == phase # "idle" => new_orders \cap forwarded = {}

IInv == TypeOK /\ ForwardedIsSeen /\ CollectedIsSeen /\ CollectedIsNew /\ SeenIsListed

LEMMA InitIInv == Init => IInv
BY DEF Init, IInv, TypeOK, ForwardedIsSeen, CollectedIsSeen, CollectedIsNew, SeenIsListed

LEMMA StreamIInv ==
  ASSUME NEW o \in Orders, IInv, StreamOrder(o)
  PROVE  IInv'
<1> USE DEF IInv, StreamOrder
<1>1. TypeOK'
  BY DEF TypeOK
<1>2. ForwardedIsSeen' /\ CollectedIsSeen' /\ SeenIsListed'
  BY DEF ForwardedIsSeen, CollectedIsSeen, SeenIsListed
<1>3. CollectedIsNew'
  BY DEF ForwardedIsSeen, CollectedIsNew
<1>. QED  BY <1>1, <1>2, <1>3

LEMMA EndPollIInv == IInv /\ EndPoll => IInv'
<1> SUFFICES ASSUME IInv, EndPoll
             PROVE  IInv'
  OBVIOUS
<1> USE DEF IInv, EndPoll
<1>1. seen_hashes' = current_hashes
  BY DEF CollectedIsSeen
<1>2. TypeOK'
  BY DEF TypeOK, CollectedIsSeen
<1>3. ForwardedIsSeen' /\ CollectedIsSeen' /\ SeenIsListed'
  BY <1>1 DEF ForwardedIsSeen, CollectedIsSeen, SeenIsListed
<1>4. CollectedIsNew'
  BY DEF CollectedIsNew
<1>. QED  BY <1>2, <1>3, <1>4

LEMMA SendIInv ==
  ASSUME NEW o \in Orders, IInv, SendOrder(o)
  PROVE  IInv'
<1> USE DEF IInv, SendOrder
<1>1. TypeOK'
  BY DEF TypeOK
<1>2. ForwardedIsSeen'
  BY DEF ForwardedIsSeen, TypeOK
<1>3. CollectedIsSeen' /\ SeenIsListed'
  BY DEF CollectedIsSeen, SeenIsListed
<1>4. CollectedIsNew'
  BY DEF CollectedIsNew
<1>. QED  BY <1>1, <1>2, <1>3, <1>4

LEMMA OtherIInv ==
  ASSUME IInv,
         StartPoll \/ AllSent \/ PollFails \/ (\E o \in Orders : Relist(o))
                   \/ UNCHANGED vars
  PROVE  IInv'
<1> USE DEF IInv, TypeOK, ForwardedIsSeen, CollectedIsSeen, CollectedIsNew, SeenIsListed
<1>1. CASE StartPoll
  BY <1>1 DEF StartPoll
<1>2. CASE AllSent
  BY <1>2 DEF AllSent
<1>3. CASE PollFails
  BY <1>3 DEF PollFails
<1>4. ASSUME NEW o \in Orders, Relist(o)
      PROVE  IInv'
  BY <1>4 DEF Relist
<1>5. CASE UNCHANGED vars
  BY <1>5 DEF vars
<1>. QED  BY <1>1, <1>2, <1>3, <1>4, <1>5

LEMMA Invariance == Spec => []IInv
<1>1. IInv /\ [Next]_vars => IInv'
  BY StreamIInv, EndPollIInv, SendIInv, OtherIInv DEF Next, TaskStep
<1>. QED  BY <1>1, InitIInv, PTL DEF Spec

\* The variables keep their types and what a poll collected is marked, for any
\* set of orders.
THEOREM DiscoveryType == Spec => []TypeOK
<1>1. IInv => TypeOK
  BY DEF IInv
<1>. QED  BY <1>1, Invariance, PTL

\* No order that stays listed is sent to the state manager twice, whatever the
\* tx-cache lists and however many polls fail half-way.
THEOREM ForwardedOnce == Spec => []NoDuplicates
<1>1. IInv => NoDuplicates
  BY DEF IInv, CollectedIsNew, NoDuplicates
<1>. QED  BY <1>1, Invariance, PTL

\* The set of seen hashes is what the last completed poll listed: it does not
\* grow with the life of the process.
THEOREM SeenBounded == Spec => []SeenIsListed
<1>1. IInv => SeenIsListed
  BY DEF IInv
<1>. QED  BY <1>1, Invariance, PTL
=============================================================================
