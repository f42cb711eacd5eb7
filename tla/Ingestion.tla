----------------------------- MODULE Ingestion -----------------------------
(***************************************************************************)
(* The block watcher and the event watcher on the same rollup node: a new  *)
(* block is announced as a header to the one and as logs to the other,     *)
(* which then go different ways to the state manager.  Both stop with the  *)
(* cancellation token (tracker-server/src/lib.rs, run).                    *)
(***************************************************************************)
EXTENDS BlockWatcher, EventWatcher

vars == <<blockVars, eventVars, token>>

Init == BlockInit /\ EventInit /\ token = FALSE

\* With no log of the orders contract, or one of either kind.
MineRollup ==
    /\ \E n \in 1 .. rollup + 1 : AnnounceHeader(n)
    /\ UNCHANGED eventVars \/ \E known \in BOOLEAN : EmitLog(known)
    /\ UNCHANGED token

\* The event watcher is spawned when BlockWatcher::new has returned.
Spawned == stage \notin {"new", "failed"}

Cancel ==
    /\ ~token /\ token' = TRUE
    /\ UNCHANGED <<blockVars, eventVars>>

Next ==
    \/ MineRollup \/ Cancel
    \/ (BlockNext \/ (~gone /\ TakeTip)) /\ UNCHANGED eventVars
    \/ Spawned /\ EventNext /\ UNCHANGED blockVars

Spec == Init /\ [][Next]_vars

\* The nodes answer, and the tasks and the state manager run when they can. A
\* select that finds the token cancelled at one tick after another takes that
\* arm at last: it picks an arm at random.
Fairness ==
    /\ WF_vars(BlockStep /\ UNCHANGED eventVars)
    /\ WF_vars(Poll /\ UNCHANGED eventVars)
    /\ SF_vars(PollCancelled /\ UNCHANGED eventVars)
    /\ WF_vars(Spawned /\ EventStep /\ UNCHANGED blockVars)
    /\ WF_vars(Spawned /\ token /\ DropReceiver /\ UNCHANGED blockVars)

FairSpec == Spec /\ Fairness

-----------------------------------------------------------------------------
(* Properties *)

Logs == [id : Nat, known : BOOLEAN]

\* The type invariant.
TypeOK ==
    /\ rollup \in Nat /\ host \in Nat /\ newest \in Nat /\ header \in Nat
    /\ stage \in {"new", "failed", "subscribing", "listening", "polling", "asking", "ended"}
    /\ fetched \subseteq {"rollup", "host"}
    /\ headers \in Seq(Nat) /\ Len(headers) <= Capacity /\ lagged \in BOOLEAN
    /\ tip \in [rollup : Nat, host : Nat] /\ changed \in BOOLEAN
    /\ state \in {"subscribing", "listening", "sending", "ended"}
    /\ logs \in Seq(Logs) /\ Len(logs) <= Capacity /\ overrun \in BOOLEAN
    /\ sending \in Seq(Logs) /\ Len(sending) = IF state = "sending" THEN 1 ELSE 0
    /\ events \in Seq(Logs) /\ Len(events) <= EventCapacity
    /\ received \in Seq(Logs) /\ sent \in Seq(Logs)
    /\ gone \in BOOLEAN /\ lost \in BOOLEAN /\ token \in BOOLEAN

\* block_watcher.rs:23: a tip is published only when the host has advanced past
\* the one before, "ensuring both tips are up to date"; the exception is a
\* shutdown, when the header that waits is published with the host as it was.
HostAdvances ==
    [][changed' /\ tip' # tip => tip'.host > tip.host \/ token]_vars

\* When the watcher has nothing left to read, the tip is the last header that
\* was sent, however long the host was polled and however many headers were lost
\* to the lag meanwhile.
NewestHeaderShown ==
    stage = "listening" /\ headers = <<>> => tip.rollup = newest

Channel == IF stage \in {"new", "failed"} THEN {} ELSE {tip}

Tips == INSTANCE TipFeed WITH channel <- Channel, changed <- changed

\* The watcher implements the feed that BlockNumbers gives to its consumers.
ImplementsTipFeed == Tips!TipSpec

\* A header is published in the end if the host goes on past the last tip; a
\* host that does not advance holds it back.
HeadersPublished ==
    (stage \in {"polling", "asking"} /\ host > tip.host)
        ~> (stage \in {"listening", "ended"} \/ host <= tip.host)

\* The logs among the first n that are known.
KnownUpTo(queue) ==
    LET kept[n \in 0 .. Len(queue)] ==
            IF n = 0 THEN <<>>
            ELSE kept[n - 1] \o IF Known(queue[n]) THEN <<queue[n]>> ELSE <<>>
    IN  kept

KnownOf(queue) == KnownUpTo(queue)[Len(queue)]

\* Events reach the state manager in the order of the chain and each once: the
\* ones received, in the channel, in a send and in the subscription are together
\* all that were sent, until the subscription is overrun or a task ends.
NothingElseLost ==
    ~lost /\ ~gone /\ state # "ended" =>
        received \o events \o sending \o KnownOf(logs) = KnownOf(sent)

\* Also after an overrun: nothing is repeated or overtaken.
OrderKept ==
    LET all == received \o events \o sending \o logs
    IN  \A i \in DOMAIN all, j \in DOMAIN all : i < j => all[i].id < all[j].id

\* A shutdown ends both watchers: one that waits for a silent host, and one that
\* waits for room in the channel of a state manager that stopped first.
BothStop ==
    token ~> stage = "failed" \/ (stage = "ended" /\ state = "ended")
=============================================================================
