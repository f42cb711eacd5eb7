---------------------------- MODULE BlockWatcher ----------------------------
(***************************************************************************)
(* The block watcher (tracker-server/src/ingestion/block_watcher.rs): it   *)
(* fetches the block numbers of both chains, subscribes to the headers of  *)
(* the rollup, and for each header polls the host until it has advanced    *)
(* past the last published tip.                                            *)
(*                                                                         *)
(*   rollup, host  latest blocks, as the RPC nodes show them               *)
(*   stage     "new": fetching the numbers; "subscribing"; "listening";    *)
(*             in poll_host_tip "polling": waiting for the interval,       *)
(*             "asking": the request is on its way; "ended"; or "failed":  *)
(*             new returned an error                                       *)
(*   fetched   the chains whose first number is known                      *)
(*   headers   headers the subscription holds; lagged: it was overrun      *)
(*   header    the header that waits for the host                          *)
(*   tip, changed  the watch channel (TipFeed)                             *)
(*   newest    the last header the node sent (for the properties only)     *)
(***************************************************************************)
EXTENDS Subscription

CONSTANTS MaxRollup, MaxHost   \* bounds: the highest block of each chain

VARIABLES rollup, host, stage, fetched, headers, lagged, header,
          tip, changed, newest

blockVars == <<rollup, host, stage, fetched, headers, lagged, header,
               tip, changed, newest>>

BlockInit ==
    /\ rollup = 0 /\ host = 0
    /\ stage = "new" /\ fetched = {}
    /\ headers = <<>> /\ lagged = FALSE /\ header = 0
    /\ tip = [rollup |-> 0, host |-> 0] /\ changed = FALSE
    /\ newest = 0

-----------------------------------------------------------------------------
(* The chains. Either may replace its latest blocks (a reorganisation), or an *)
(* RPC node may fall behind: the next number need not be the highest so far.  *)

Subscribed == stage \in {"listening", "polling", "asking"}

\* The rollup has a new block n; a subscription that is full loses its oldest
\* header.
AnnounceHeader(n) ==
    /\ n \in 1 .. rollup + 1 /\ n <= MaxRollup
    /\ rollup' = n
    /\ IF Subscribed
       THEN /\ headers' = Push(headers, n)
            /\ lagged' = (lagged \/ Full(headers))
            /\ newest' = n
       ELSE UNCHANGED <<headers, lagged, newest>>
    /\ UNCHANGED <<host, stage, fetched, header, tip, changed>>

MineHost ==
    /\ host' \in 1 .. host + 1 /\ host' <= MaxHost
    /\ UNCHANGED <<rollup, stage, fetched, headers, lagged, header,
                   tip, changed, newest, token>>

-----------------------------------------------------------------------------
(* BlockWatcher::new: both numbers are fetched concurrently. *)

FetchRollup ==
    /\ stage = "new" /\ "rollup" \notin fetched
    /\ fetched' = fetched \cup {"rollup"}
    /\ tip' = [tip EXCEPT !.rollup = rollup]
    /\ newest' = rollup
    /\ UNCHANGED <<rollup, host, stage, headers, lagged, header, changed, token>>

FetchHost ==
    /\ stage = "new" /\ "host" \notin fetched
    /\ fetched' = fetched \cup {"host"}
    /\ tip' = [tip EXCEPT !.host = host]
    /\ UNCHANGED <<rollup, host, stage, headers, lagged, header, changed,
                   newest, token>>

NewFails ==
    /\ stage = "new"
    /\ stage' = "failed"
    /\ UNCHANGED <<rollup, host, fetched, headers, lagged, header, tip, changed,
                   newest, token>>

\* The channel is created and the task spawned.
Spawn ==
    /\ stage = "new" /\ fetched = {"rollup", "host"}
    /\ stage' = "subscribing"
    /\ UNCHANGED <<rollup, host, fetched, headers, lagged, header, tip, changed,
                   newest, token>>

-----------------------------------------------------------------------------
(* watch_blocks *)

\* A block that came before the subscription is never announced.
Subscribe ==
    /\ stage = "subscribing"
    /\ stage' = "listening"
    /\ UNCHANGED <<rollup, host, fetched, headers, lagged, header, tip, changed,
                   newest, token>>

\* The subscription or a poll fails, or the subscription closes. What the task
\* holds is dropped.
BlocksFail ==
    /\ stage \in {"subscribing", "listening", "asking"}
    /\ stage' = "ended"
    /\ headers' = <<>> /\ lagged' = FALSE
    /\ UNCHANGED <<rollup, host, fetched, header, tip, changed, newest, token>>

\* The select is biased: the token is looked at first.
BlocksStop ==
    /\ stage = "listening" /\ token
    /\ stage' = "ended"
    /\ headers' = <<>> /\ lagged' = FALSE
    /\ UNCHANGED <<rollup, host, fetched, header, tip, changed, newest, token>>

RecvHeader ==
    /\ stage = "listening" /\ ~token /\ ~lagged /\ headers # <<>>
    /\ header' = Head(headers) /\ headers' = Tail(headers)
    /\ stage' = "polling"
    /\ UNCHANGED <<rollup, host, fetched, lagged, tip, changed, newest, token>>

\* A warning, and the loop goes on.
RecvHeaderLagged ==
    /\ stage = "listening" /\ ~token /\ lagged
    /\ lagged' = FALSE
    /\ UNCHANGED <<rollup, host, stage, fetched, headers, header, tip, changed,
                   newest, token>>

-----------------------------------------------------------------------------
(* poll_host_tip *)

PollTick ==
    /\ stage = "polling"
    /\ stage' = "asking"
    /\ UNCHANGED <<rollup, host, fetched, headers, lagged, header, tip, changed,
                   newest, token>>

Publish(hostBlock) ==
    /\ tip' = [rollup |-> header, host |-> hostBlock]
    /\ changed' = TRUE
    /\ stage' = "listening" /\ header' = 0
    /\ UNCHANGED <<rollup, host, fetched, headers, lagged, newest, token>>

\* A host that has not changed will do.
Bug_PollAnswer(h) == stage = "asking" /\ h >= tip.host /\ Publish(h)

\* A host that is one block ahead is not enough.
Bug_PollAnswer_Skips(h) == stage = "asking" /\ h > tip.host + 1 /\ Publish(h)

PollAnswer(h) == stage = "asking" /\ h > tip.host /\ Publish(h)

\* The header is given up with the first poll.
Bug_PollAgain(h) ==
    /\ stage = "asking" /\ h <= tip.host
    /\ stage' = "listening" /\ header' = 0
    /\ UNCHANGED <<rollup, host, fetched, headers, lagged, tip, changed,
                   newest, token>>

PollAgain(h) ==
    /\ stage = "asking" /\ h <= tip.host
    /\ stage' = "polling"
    /\ UNCHANGED <<rollup, host, fetched, headers, lagged, header, tip, changed,
                   newest, token>>

\* The token is not looked at while the host is polled.
Bug_PollCancelled == FALSE /\ UNCHANGED <<blockVars, token>>

\* The host's number is lost.
Bug_PollCancelled_NoHost == stage = "polling" /\ token /\ Publish(0)

\* Published all the same, with the host as it was.
PollCancelled == stage = "polling" /\ token /\ Publish(tip.host)

\* BlockNumbers::changed, in the state manager.
TakeTip ==
    /\ changed
    /\ changed' = FALSE
    /\ UNCHANGED <<rollup, host, stage, fetched, headers, lagged, header, tip,
                   newest, token>>

-----------------------------------------------------------------------------

Poll == PollTick \/ PollAnswer(host) \/ PollAgain(host)

BlockStep ==
    \/ FetchRollup \/ FetchHost \/ Spawn \/ Subscribe \/ BlocksStop
    \/ RecvHeader \/ RecvHeaderLagged

BlockNext ==
    \/ MineHost \/ NewFails \/ BlocksFail \/ PollCancelled
    \/ BlockStep \/ Poll

=============================================================================
