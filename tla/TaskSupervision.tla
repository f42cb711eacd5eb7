-------------------------- MODULE TaskSupervision --------------------------
(***************************************************************************)
(* The life of the tracker server process (tracker-server/src/lib.rs):     *)
(* startup, five spawned tasks that share one cancellation token, what a   *)
(* task does when its loop ends (handle_task_exit), and the join of all of *)
(* them that makes the result of the process.                              *)
(*                                                                         *)
(*   stage      "connecting", "fetching" (first block numbers), "running", *)
(*              "over"                                                     *)
(*   token      the cancellation token is cancelled                        *)
(*   links      the connections that run makes first, all concurrently:    *)
(*              "trying", in "backoff" after a transient error, "connected"*)
(*              or "dropped"                                               *)
(*   signalled  SIGINT or SIGTERM arrived                                  *)
(*   status     of each task: "running"; "blocked" in a send to the state  *)
(*              manager; "leaving": its loop has ended; in                 *)
(*              handle_task_exit, "deciding": it found the token not       *)
(*              cancelled, "erring": it cancelled it; "ended"              *)
(*   result     what its JoinHandle yields                                 *)
(*   joined     how many handles were awaited                              *)
(*   exit       the result of the process                                  *)
(*   sessions   a WebSocket handler is still running                       *)
(*   faulty     tasks that failed of themselves (for the properties only)  *)
(*                                                                         *)
(* The runtime is multi-threaded: any two tasks interleave at every step.  *)
(***************************************************************************)
EXTENDS Naturals, Sequences

VARIABLES stage, token, signalled, links, status, result, joined, exit,
          sessions, faulty

vars == <<stage, token, signalled, links, status, result, joined, exit,
          sessions, faulty>>

process == <<stage, links, signalled, exit>>
tasks   == <<status, result, joined, sessions, faulty>>

Manager == "state_manager"
JoinOrder == <<"server", "block_watcher", "event_watcher", "order_discovery", Manager>>
Tasks == {"server", "block_watcher", "event_watcher", "order_discovery", Manager}

\* Tasks that send to a bounded channel of the state manager.
Senders == {"event_watcher", "order_discovery"}

\* Tasks that give up on an error of their own: a lost subscription, a failed
\* poll of the host, a port in use. Errors of the tx-cache are only logged.
Fallible == {"server", "block_watcher", "event_watcher"}

\* Both trackers and the other tasks have providers of their own.
Links == {"tracker", "get_tracker", "tasks"} \X {"rollup", "host", "tx_cache"}

\* try_join! and select! drop the attempts they no longer wait for.
DropAttempts == links' = [l \in Links |-> "dropped"]

Init ==
    /\ stage = "connecting" /\ token = FALSE /\ signalled = FALSE
    /\ links = [l \in Links |-> "trying"]
    /\ status = [t \in Tasks |-> "running"]
    /\ result = [t \in Tasks |-> "none"]
    /\ joined = 0 /\ exit = "none" /\ sessions = FALSE /\ faulty = {}

-----------------------------------------------------------------------------
(* handle_signals and the startup in run *)

Signal ==
    /\ ~signalled /\ stage # "over"
    /\ signalled' = TRUE /\ token' = TRUE
    /\ UNCHANGED <<links, stage, exit, tasks>>

Attempt(l, from, to) ==
    /\ stage = "connecting" /\ links[l] = from
    /\ links' = [links EXCEPT ![l] = to]
    /\ UNCHANGED <<stage, token, signalled, exit, tasks>>

Connects(l) == Attempt(l, "trying", "connected")

\* A transient error is retried after a delay, without a limit.
TransientError(l) == Attempt(l, "trying", "backoff")

Retry(l) == Attempt(l, "backoff", "trying")

\* Any other error ends all the attempts, and the startup.
PermanentError(l) ==
    /\ stage = "connecting" /\ links[l] = "trying"
    /\ stage' = "over" /\ exit' = "err"
    /\ DropAttempts
    /\ UNCHANGED <<token, signalled, tasks>>

Connected ==
    /\ stage = "connecting" /\ \A l \in Links : links[l] = "connected"
    /\ stage' = "fetching"
    /\ UNCHANGED <<links, token, signalled, exit, tasks>>

\* Cancelled while it connects: run returns None, and main Ok.
StartupCancelled ==
    /\ stage = "connecting" /\ token
    /\ stage' = "over" /\ exit' = "ok"
    /\ DropAttempts
    /\ UNCHANGED <<token, signalled, tasks>>

\* The first block numbers cannot be fetched.
StartupFails ==
    /\ stage = "fetching"
    /\ stage' = "over" /\ exit' = "err"
    /\ UNCHANGED <<links, token, signalled, tasks>>

\* The block watcher has the first tips, and all tasks are spawned.
Spawned ==
    /\ stage = "fetching"
    /\ stage' = "running"
    /\ UNCHANGED <<links, token, signalled, exit, tasks>>

-----------------------------------------------------------------------------
(* The loops of the tasks, as far as their ends are concerned. *)

LeftLoop(t) == status[t] \notin {"running", "blocked"}

\* Every task moves its ends of the channels into its loop, as the server does.
Bug_Dropped(t) == LeftLoop(t)

\* The ends of the channels that t owns are gone. The function that handles the
\* exit owns those of the watchers, the discovery and the state manager; the
\* server's AppState moves into its loop, and ends with it.
Dropped(t) == IF t = "server" THEN LeftLoop(t) ELSE status[t] = "ended"

\* Its loop ends, with Ok or an error: handle_task_exit does not tell them apart.
Leave(t) == status' = [status EXCEPT ![t] = "leaving"]

\* The cancelled() arm of its select.
NoticeCancel(t) ==
    /\ stage = "running" /\ status[t] = "running" /\ token
    /\ Leave(t)
    /\ UNCHANGED <<process, token, result, joined, sessions, faulty>>

Fail(t) ==
    /\ stage = "running" /\ status[t] = "running" /\ t \in Fallible
    /\ Leave(t)
    /\ faulty' = faulty \cup {t}
    /\ UNCHANGED <<process, token, result, joined, sessions>>

\* Bound: one task panics at most.
NoPanic == \A t \in Tasks : result[t] # "panic"

\* A panic skips handle_task_exit; the JoinHandle yields a JoinError.
Panic(t) ==
    /\ stage = "running" /\ status[t] \in {"running", "blocked"} /\ NoPanic
    /\ status' = [status EXCEPT ![t] = "ended"]
    /\ result' = [result EXCEPT ![t] = "panic"]
    /\ UNCHANGED <<process, token, joined, sessions, faulty>>

\* A send waits while the channel is full; it is in the body of a select arm,
\* where the cancellation is not looked at.
Block(t) ==
    /\ stage = "running" /\ status[t] = "running" /\ t \in Senders
    /\ ~Dropped(Manager)
    /\ status' = [status EXCEPT ![t] = "blocked"]
    /\ UNCHANGED <<process, token, result, joined, sessions, faulty>>

Unblock(t) ==
    /\ status[t] = "blocked" /\ status[Manager] = "running"
    /\ status' = [status EXCEPT ![t] = "running"]
    /\ UNCHANGED <<process, token, result, joined, sessions, faulty>>

\* The receiver is gone.
SendFails(t) ==
    /\ stage = "running" /\ status[t] \in {"running", "blocked"} /\ t \in Senders
    /\ Dropped(Manager)
    /\ Leave(t)
    /\ UNCHANGED <<process, token, result, joined, sessions, faulty>>

\* The state manager finds a channel closed. Its select looks at the token
\* first, but the sender may go between the two looks. The request channels
\* close when the server and every handler dropped the AppState.
InputClosed ==
    /\ stage = "running" /\ status[Manager] = "running"
    /\ \/ \E t \in Senders \cup {"block_watcher"} : Dropped(t)
       \/ Dropped("server") /\ ~sessions
    /\ Leave(Manager)
    /\ UNCHANGED <<process, token, result, joined, sessions, faulty>>

OpenSession ==
    /\ stage = "running" /\ status["server"] = "running"
    /\ sessions' = TRUE
    /\ UNCHANGED <<process, token, status, result, joined, faulty>>

CloseSession ==
    /\ sessions
    /\ sessions' = FALSE
    /\ UNCHANGED <<process, token, status, result, joined, faulty>>

-----------------------------------------------------------------------------
(* handle_task_exit *)

\* The token is cancelled before it is looked at.
Bug_ExitCheck(t) ==
    /\ status[t] = "leaving"
    /\ token' = TRUE
    /\ status' = [status EXCEPT ![t] = "ended"]
    /\ result' = [result EXCEPT ![t] = "ok"]
    /\ UNCHANGED <<process, joined, sessions, faulty>>

\* is_cancelled(): whatever happened, it is taken for the shutdown.
ExitCheck(t) ==
    /\ status[t] = "leaving"
    /\ IF token
       THEN /\ status' = [status EXCEPT ![t] = "ended"]
            /\ result' = [result EXCEPT ![t] = "ok"]
       ELSE /\ status' = [status EXCEPT ![t] = "deciding"]
            /\ UNCHANGED result
    /\ UNCHANGED <<process, token, joined, sessions, faulty>>

\* The other tasks are not told.
Bug_Cancel(t) ==
    /\ status[t] = "deciding"
    /\ status' = [status EXCEPT ![t] = "erring"]
    /\ UNCHANGED <<process, token, result, joined, sessions, faulty>>

Cancel(t) ==
    /\ status[t] = "deciding"
    /\ token' = TRUE
    /\ status' = [status EXCEPT ![t] = "erring"]
    /\ UNCHANGED <<process, result, joined, sessions, faulty>>

\* Its own error, or "exited unexpectedly".
ReturnError(t) ==
    /\ status[t] = "erring"
    /\ status' = [status EXCEPT ![t] = "ended"]
    /\ result' = [result EXCEPT ![t] = "err"]
    /\ UNCHANGED <<process, token, joined, sessions, faulty>>

-----------------------------------------------------------------------------
(* TasksJoinHandles::into_future *)

\* The handles are awaited together, and whichever task ends counts as the next.
Bug_JoinNext ==
    /\ stage = "running" /\ joined < Len(JoinOrder)
    /\ \E t \in Tasks : status[t] = "ended"
    /\ joined' = joined + 1
    /\ UNCHANGED <<process, token, status, result, sessions, faulty>>

\* The handles are awaited one after the other.
JoinNext ==
    /\ stage = "running" /\ joined < Len(JoinOrder)
    /\ status[JoinOrder[joined + 1]] = "ended"
    /\ joined' = joined + 1
    /\ UNCHANGED <<process, token, status, result, sessions, faulty>>

\* The first error in their order, or Ok.
JoinEnds ==
    /\ stage = "running" /\ joined = Len(JoinOrder)
    /\ exit' = IF \A t \in Tasks : result[t] = "ok" THEN "ok" ELSE "err"
    /\ stage' = "over"
    /\ UNCHANGED <<links, token, signalled, tasks>>

-----------------------------------------------------------------------------

Connecting(l) ==
    Connects(l) \/ TransientError(l) \/ Retry(l) \/ PermanentError(l)

Startup ==
    \/ Connected \/ StartupCancelled \/ StartupFails \/ Spawned
    \/ \E l \in Links : Connecting(l)

ExitStep(t) == ExitCheck(t) \/ Cancel(t) \/ ReturnError(t)

TaskStep(t) == NoticeCancel(t) \/ Block(t) \/ Unblock(t) \/ SendFails(t)

Next ==
    \/ Signal \/ Startup \/ JoinNext \/ JoinEnds
    \/ InputClosed \/ OpenSession \/ CloseSession
    \/ \E t \in Tasks : TaskStep(t) \/ ExitStep(t) \/ Fail(t) \/ Panic(t)

Spec == Init /\ [][Next]_vars

\* The select of run that finds the token cancelled takes that arm; the first
\* block numbers are answered, or fail (their requests have no arm for it).
\* Each task is a task of the runtime that runs when it can, and a select whose
\* cancelled() is ready takes it; a blocked send ends when the state manager
\* goes on; clients leave in the end; and orders and events keep coming, so that
\* a send to a state manager that is gone is tried.
Fairness ==
    /\ WF_vars(StartupCancelled) /\ WF_vars(Spawned \/ StartupFails)
    /\ WF_vars(JoinNext \/ JoinEnds)
    /\ WF_vars(InputClosed) /\ WF_vars(CloseSession)
    /\ \A t \in Tasks :
          /\ WF_vars(ExitStep(t) \/ SendFails(t) \/ Unblock(t))
          /\ SF_vars(NoticeCancel(t))

FairSpec == Spec /\ Fairness

-----------------------------------------------------------------------------
(* Properties *)

\* The type invariant; a task has a result when, and only when, it has ended,
\* and the join has gone past tasks that ended only.
TypeOK ==
    /\ stage \in {"connecting", "fetching", "running", "over"}
    /\ links \in [Links -> {"trying", "backoff", "connected", "dropped"}]
    /\ token \in BOOLEAN /\ signalled \in BOOLEAN /\ sessions \in BOOLEAN
    /\ status \in [Tasks -> {"running", "blocked", "leaving", "deciding",
                             "erring", "ended"}]
    /\ result \in [Tasks -> {"none", "ok", "err", "panic"}]
    /\ joined \in 0 .. Len(JoinOrder)
    /\ \A t \in Tasks, i \in 1 .. joined : JoinOrder[i] = t => status[t] = "ended"
    /\ exit \in {"none", "ok", "err"}
    /\ faulty \subseteq Tasks
    /\ \A t \in Tasks : result[t] = "none" <=> status[t] # "ended"

\* The process ends with Ok only when it was asked to end: no failure of a task
\* is taken for a shutdown that nobody asked for, whatever races between the
\* check of the token and its cancellation.
OkMeansAsked ==
    exit = "ok" => signalled /\ NoPanic

\* Whose failure a reported error is: the task's own, or for the state manager
\* that of the server, whose senders are gone before its exit is handled.
Blamed(t) == t \in faulty \/ (t = Manager /\ "server" \in faulty)

\* Errors lead to their causes: the channels that a failing watcher or the state
\* manager closes on its way out do not make its neighbours report errors too,
\* and only the server's failure can make the state manager report one. (When a
\* task panics they all do: that is how the panic is noticed.)
ErrorsAreCauses ==
    NoPanic => \A t \in Tasks : result[t] = "err" => Blamed(t)

\* service.rs:104: the server returns "an error if the server exits
\* unexpectedly". It does not when the state manager finds the server's senders
\* gone, and cancels the token, before the server looks at it.
ServerErrorKept ==
    NoPanic /\ ~signalled /\ faulty = {"server"} => result["server"] # "ok"

\* lib.rs:46: awaiting the handles "completes when any task exits", in the end,
\* and so does the process when it is signalled: no task waits for ever on
\* another, not even in a send to a full channel, and a startup that retries its
\* connections for ever can be interrupted.
ExitEndsAll ==
    (token \/ \E t \in Tasks : status[t] = "ended") ~> stage = "over"
=============================================================================
