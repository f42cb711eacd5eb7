----------------------- MODULE TaskSupervisionProofs -----------------------
(***************************************************************************)
(* The result of the process is right, however the tasks interleave:       *)
(* OkMeansAsked and ErrorsAreCauses of TaskSupervision.  They are not      *)
(* inductive: one has to know why the token is cancelled, and of every     *)
(* task on its way out, why it left.                                       *)
(***************************************************************************)
EXTENDS TaskSupervision, TLAPS

\* The token is cancelled by a signal or by a task that will report an error.
TokenCause ==
    token => \/ signalled
             \/ \E t \in Tasks : status[t] = "erring" \/ result[t] \in {"err", "panic"}

\* A task that ended without a panic, or is about to, left a cancelled token.
TokenSet ==
    \A t \in Tasks : status[t] = "erring" \/ result[t] \in {"ok", "err"} => token

\* As long as nothing panicked and the token is not cancelled, a task leaves
\* only because of a failure that it will be right to report, and only such a
\* task decides to report an error.
LeavingCause ==
    NoPanic => \A t \in Tasks :
        /\ status[t] = "leaving" /\ ~token => Blamed(t)
        /\ status[t] \in {"deciding", "erring"} \/ result[t] = "err" => Blamed(t)

\* Until the tasks are spawned they do nothing, and the result comes last.
Stages ==
    /\ stage \in {"connecting", "fetching"} =>
          \A t \in Tasks : status[t] = "running"
    /\ exit # "none" => stage = "over"

IInv == TypeOK /\ TokenCause /\ TokenSet /\ LeavingCause /\ Stages /\ OkMeansAsked

LEMMA InitInv == Init => IInv
<1>1. 0 \in 0 .. Len(JoinOrder) /\ 1 .. 0 = {}
  BY DEF JoinOrder
<1> QED
  BY <1>1 DEF Init, IInv, TypeOK, TokenCause, TokenSet, LeavingCause, Stages,
              OkMeansAsked, NoPanic, Blamed

LEMMA StepInv == IInv /\ [Next]_vars => IInv'
<1> SUFFICES ASSUME IInv, [Next]_vars
             PROVE  IInv'
  OBVIOUS
<1> USE DEF process, tasks, IInv, TypeOK, TokenCause, TokenSet, LeavingCause, Stages, OkMeansAsked, NoPanic,
           Blamed
<1>1. CASE Signal
  BY <1>1 DEF Signal
<1>2. CASE Connected
  BY <1>2 DEF Connected
<1>3. CASE StartupCancelled
  BY <1>3 DEF StartupCancelled, DropAttempts
<1>4. CASE StartupFails
  BY <1>4 DEF StartupFails
<1>5. CASE Spawned
  BY <1>5 DEF Spawned
<1>6. CASE JoinNext
  BY <1>6 DEF JoinNext, JoinOrder
<1>7. CASE JoinEnds
  <2>1. "server" \in Tasks
    BY DEF Tasks
  <2> QED
    BY <1>7, <2>1 DEF JoinEnds
<1>8. CASE InputClosed
  <2>1. ASSUME NEW t \in Senders \cup {"block_watcher"}, Dropped(t), NoPanic
        PROVE  token
    BY <2>1 DEF Dropped, Senders, Tasks
  <2>2. ASSUME Dropped("server"), NoPanic, ~token
        PROVE  "server" \in faulty
    <3>1. "server" \in Tasks /\ "server" # Manager
      BY DEF Tasks, Manager
    <3>2. status["server"] \in {"leaving", "deciding", "erring", "ended"}
      BY <2>2, <3>1 DEF Dropped, LeftLoop
    <3>3. status["server"] # "erring" /\ status["server"] # "ended"
      BY <2>2, <3>1
    <3> QED
      BY <2>2, <3>1, <3>2, <3>3
  <2>3. NoPanic /\ ~token => Blamed(Manager)
    BY <1>8, <2>1, <2>2 DEF InputClosed
  <2>4. /\ Manager \in Tasks /\ status[Manager] = "running"
        /\ status' = [status EXCEPT ![Manager] = "leaving"]
        /\ UNCHANGED <<process, token, result, joined, sessions, faulty>>
    BY <1>8 DEF InputClosed, Leave, Tasks
  <2>5. \A t \in Tasks : Blamed(t)' <=> Blamed(t)
    BY <2>4
  <2>6. LeavingCause'
    BY <2>3, <2>4, <2>5
  <2>7. TypeOK' /\ Stages' /\ TokenSet' /\ TokenCause' /\ OkMeansAsked'
    BY <1>8, <2>4 DEF InputClosed
  <2> QED
    BY <2>6, <2>7
<1>9. CASE OpenSession
  BY <1>9 DEF OpenSession
<1>10. CASE CloseSession
  BY <1>10 DEF CloseSession
<1>11. ASSUME NEW t \in Tasks, NoticeCancel(t) PROVE IInv'
  BY <1>11 DEF NoticeCancel, Leave
<1>12. ASSUME NEW t \in Tasks, Block(t) PROVE IInv'
  BY <1>12 DEF Block
<1>13. ASSUME NEW t \in Tasks, Unblock(t) PROVE IInv'
  BY <1>13 DEF Unblock
<1>14. ASSUME NEW t \in Tasks, SendFails(t) PROVE IInv'
  BY <1>14 DEF SendFails, Leave, Dropped, Tasks, Manager
<1>15. ASSUME NEW t \in Tasks, ExitCheck(t) PROVE IInv'
  BY <1>15 DEF ExitCheck
<1>16. ASSUME NEW t \in Tasks, Cancel(t) PROVE IInv'
  BY <1>16 DEF Cancel
<1>17. ASSUME NEW t \in Tasks, ReturnError(t) PROVE IInv'
  BY <1>17 DEF ReturnError
<1>18. ASSUME NEW t \in Tasks, Fail(t) PROVE IInv'
  BY <1>18 DEF Fail, Leave
<1>19. ASSUME NEW t \in Tasks, Panic(t) PROVE IInv'
  BY <1>19 DEF Panic
<1>20. ASSUME NEW l \in Links, Connecting(l) PROVE IInv'
  BY <1>20 DEF Connecting, Connects, TransientError, Retry, Attempt, PermanentError,
               DropAttempts
<1>21. CASE UNCHANGED vars
  BY <1>21 DEF vars
<1> QED
  BY <1>1, <1>2, <1>3, <1>4, <1>5, <1>6, <1>7, <1>8, <1>9, <1>10, <1>11, <1>12,
     <1>13, <1>14, <1>15, <1>16, <1>17, <1>18, <1>19, <1>20, <1>21
     DEF Next, Startup, TaskStep, ExitStep

\* The type invariant of the tasks, their results and the token.
THEOREM SupervisionType == Spec => []TypeOK
  BY InitInv, StepInv, PTL DEF Spec, IInv

\* handle_task_exit and the join: the process ends with Ok only when a signal
\* asked it to end and no task panicked.
THEOREM OkAsked == Spec => []OkMeansAsked
  BY InitInv, StepInv, PTL DEF Spec, IInv

\* A task that reports an error failed itself, unless one panicked, or it is the
\* state manager and the server failed.
THEOREM BlameIsRight == Spec => []ErrorsAreCauses
<1>1. IInv => ErrorsAreCauses
  BY DEF IInv, LeavingCause, ErrorsAreCauses
<1> QED
  BY <1>1, InitInv, StepInv, PTL DEF Spec
=============================================================================
