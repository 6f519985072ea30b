------------------------------ MODULE PThread ------------------------------
(***************************************************************************)
(* One PThread object (common/thread.cpp): the owner, which calls Start,   *)
(* Wait, End and the destructor, and the kernel threads that Start         *)
(* creates, each of which executes PThread::run.                           *)
(*                                                                         *)
(* A step of the model is a stretch of code between two points where the   *)
(* other side can interfere: the rwlock _local_lock, pthread_create,       *)
(* pthread_cancel, pthread_join and the cancellation points of Run and     *)
(* OnExit.  Cancellation is deferred, as in every build but MinGW's.       *)
(***************************************************************************)
EXTENDS Naturals, FiniteSets

CONSTANTS
    Tids,       \* kernel threads that pthread_create can hand out
    NoTid,      \* _tid = 0
    BadTid      \* what a failed pthread_create may leave in _tid

ASSUME TidsAssumption ==
    /\ NoTid \notin Tids
    /\ BadTid \notin Tids
    /\ NoTid # BadTid

VARIABLES
    alive,      \* the object has not been destroyed
    tid,        \* _tid
    running,    \* _running
    opc,        \* where the owner is: see OwnerStates
    deleting,   \* the End under way was called by the destructor
    pc,         \* where each kernel thread is: see ThreadStates
    cancel,     \* pthread_cancel was called on the thread
    how,        \* how the thread left Run
    orphans,    \* threads whose handle Start overwrote before a join
    exitYields  \* the subclass's OnExit contains a cancellation point

vars == <<alive, tid, running, opc, deleting, pc, cancel, how, orphans,
          exitYields>>

OwnerStates ==
    {"idle",        \* outside the calls below
     "publish",     \* in Start, holding _local_lock, the thread created
     "cancel",      \* in End, IsRunning() returned true
     "join",        \* in Wait or End, blocked in pthread_join
     "free",        \* in the destructor, End has returned
     "undefined"}   \* pthread_join was called on a handle nobody created

ThreadStates ==
    {"none",        \* not created
     "prologue",    \* run, before the rdlock of _local_lock, uncancellable
     "run",         \* in Run(), cancellable
     "handler",     \* in exit_handler, up to SetRunning(false)
     "tail",        \* after SetRunning(false), still reads the object
     "exited",      \* terminated, not joined
     "joined"}

\* Fault: Start gives _local_lock back as soon as the thread is created.
LocalLockDropped == FALSE

\* Start holds the writer lock of _local_lock; run, SetRunning and IsRunning
\* wait for it.
LocalLockHeld == opc = "publish"

\* Threads that execute code of the object's class on the object.
Executing(t) == pc[t] \in {"prologue", "run", "handler"}

\* Threads whose next step reads or writes the object's memory.
Touches(t) == Executing(t) \/ pc[t] = "tail"

Init ==
    /\ alive = TRUE
    /\ tid = NoTid
    /\ running = FALSE
    /\ opc = "idle"
    /\ deleting = FALSE
    /\ pc = [t \in Tids |-> "none"]
    /\ cancel = [t \in Tids |-> FALSE]
    /\ how = [t \in Tids |-> "none"]
    /\ orphans = {}
    /\ exitYields \in BOOLEAN

-----------------------------------------------------------------------------
(* The owner.  A Start on a running object returns -1 and changes nothing. *)

CanStart == alive /\ opc = "idle" /\ ~running

\* Start up to pthread_create, which succeeds.  _tid is overwritten even when
\* it still names the thread of an earlier execution that nobody joined.
StartCreate(t) ==
    /\ CanStart
    /\ pc[t] = "none"
    /\ pc' = [pc EXCEPT ![t] = "prologue"]
    /\ orphans' = orphans \cup ({tid} \cap Tids)
    /\ tid' = t
    /\ opc' = "publish"
    /\ UNCHANGED <<alive, running, deleting, cancel, how, exitYields>>

\* The rest of Start: _running = true, then _local_lock is released.
StartPublish ==
    /\ opc = "publish"
    /\ running' = TRUE
    /\ opc' = "idle"
    /\ UNCHANGED <<alive, tid, deleting, pc, cancel, how, orphans, exitYields>>

\* pthread_create fails: before it has written the handle (no stack), or after
\* (the clone fails), and then _tid names a thread that does not exist.
StartFail ==
    /\ CanStart
    /\ tid' \in {tid, BadTid}
    /\ orphans' = IF tid' = tid THEN orphans ELSE orphans \cup ({tid} \cap Tids)
    /\ UNCHANGED <<alive, running, opc, deleting, pc, cancel, how, exitYields>>

\* Where a call that is about to join goes.
JoinState == IF tid = BadTid THEN "undefined" ELSE "join"

Wait ==
    /\ alive /\ opc = "idle" /\ tid # NoTid
    /\ opc' = JoinState
    /\ UNCHANGED <<alive, tid, running, deleting, pc, cancel, how, orphans,
                   exitYields>>

\* Fault: End believes that a thread which is no longer running is gone.
EndCheckNoJoin ==
    /\ alive /\ opc = "idle" /\ tid # NoTid
    /\ deleting' \in BOOLEAN
    /\ opc' = IF running THEN "cancel"
              ELSE IF deleting' THEN "free" ELSE "idle"
    /\ tid' = IF running THEN tid ELSE NoTid
    /\ UNCHANGED <<alive, running, pc, cancel, how, orphans, exitYields>>

\* End called by another thread, up to the result of IsRunning().
EndCheck ==
    /\ alive /\ opc = "idle" /\ tid # NoTid
    /\ opc' = IF running THEN "cancel" ELSE JoinState
    /\ deleting' \in BOOLEAN            \* called by the owner or by ~PThread
    /\ UNCHANGED <<alive, tid, running, pc, cancel, how, orphans, exitYields>>

\* Fault: End joins without a cancellation.
EndCancelForgotten ==
    /\ opc = "cancel"
    /\ opc' = "join"
    /\ UNCHANGED <<alive, tid, running, deleting, pc, cancel, how, orphans,
                   exitYields>>

EndCancel ==
    /\ opc = "cancel"
    /\ cancel' = [cancel EXCEPT ![tid] = TRUE]
    /\ opc' = "join"
    /\ UNCHANGED <<alive, tid, running, deleting, pc, how, orphans, exitYields>>

\* Fault: _tid is not reset after the join.
JoinKeepsHandle ==
    /\ opc = "join"
    /\ pc[tid] = "exited"
    /\ pc' = [pc EXCEPT ![tid] = "joined"]
    /\ opc' = IF deleting THEN "free" ELSE "idle"
    /\ UNCHANGED <<alive, tid, running, deleting, cancel, how, orphans,
                   exitYields>>

Join ==
    /\ opc = "join"
    /\ pc[tid] = "exited"
    /\ pc' = [pc EXCEPT ![tid] = "joined"]
    /\ tid' = NoTid
    /\ opc' = IF deleting THEN "free" ELSE "idle"
    /\ UNCHANGED <<alive, running, deleting, cancel, how, orphans, exitYields>>

\* Fault: a destructor that does not call End.
DeleteWithoutEnd ==
    /\ alive /\ opc = "idle"
    /\ opc' = "free"
    /\ deleting' = TRUE
    /\ UNCHANGED <<alive, tid, running, pc, cancel, how, orphans, exitYields>>

\* ~PThread on an object with no handle: its End has nothing to do.
DeleteUnstarted ==
    /\ alive /\ opc = "idle" /\ tid = NoTid
    /\ opc' = "free"
    /\ deleting' = TRUE
    /\ UNCHANGED <<alive, tid, running, pc, cancel, how, orphans, exitYields>>

\* The rest of the destructor: the object's memory is gone.
Free ==
    /\ opc = "free" /\ alive
    /\ alive' = FALSE
    /\ UNCHANGED <<tid, running, opc, deleting, pc, cancel, how, orphans,
                   exitYields>>

-----------------------------------------------------------------------------
(* A kernel thread. *)

\* run up to the call of Run: the rdlock of _local_lock waits for Start to
\* finish; the exit handler is installed before cancellation is enabled.
Handshake(t) ==
    /\ pc[t] = "prologue"
    /\ ~LocalLockHeld
    /\ pc' = [pc EXCEPT ![t] = "run"]
    /\ UNCHANGED <<alive, tid, running, opc, deleting, cancel, how, orphans,
                   exitYields>>

\* Run leaves: it returns, the thread calls End on itself (pthread_exit), or
\* a pending cancellation is acted upon.  In the last two cases no further
\* cancellation is delivered; in the first one it still can be.
Leave(t) ==
    /\ pc[t] = "run"
    /\ \E h \in {"returned", "exiting", "cancelled"} :
          /\ h = "cancelled" => cancel[t]
          /\ how' = [how EXCEPT ![t] = h]
    /\ pc' = [pc EXCEPT ![t] = "handler"]
    /\ UNCHANGED <<alive, tid, running, opc, deleting, cancel, orphans,
                   exitYields>>

\* exit_handler called by pthread_cleanup_pop(1), which has removed it: a
\* cancellation acted upon in OnExit ends the thread, and the rest of the
\* handler, SetRunning(false) included, never executes.
LoseHandler(t) ==
    /\ pc[t] = "handler"
    /\ how[t] = "returned" /\ cancel[t] /\ exitYields
    /\ pc' = [pc EXCEPT ![t] = "exited"]
    /\ UNCHANGED <<alive, tid, running, opc, deleting, cancel, how, orphans,
                   exitYields>>

\* exit_handler up to the end of SetRunning(false).
Handle(t) ==
    /\ pc[t] = "handler"
    /\ ~LocalLockHeld
    /\ running' = FALSE
    /\ pc' = [pc EXCEPT ![t] = "tail"]
    /\ UNCHANGED <<alive, tid, opc, deleting, cancel, how, orphans, exitYields>>

\* The reads of _auto_delete and of _retcode that follow, and the thread's end.
Tail(t) ==
    /\ pc[t] = "tail"
    /\ pc' = [pc EXCEPT ![t] = "exited"]
    /\ UNCHANGED <<alive, tid, running, opc, deleting, cancel, how, orphans,
                   exitYields>>

-----------------------------------------------------------------------------
Thread(t) ==
    Handshake(t) \/ Leave(t) \/ LoseHandler(t) \/ Handle(t) \/ Tail(t)

Owner ==
    \/ \E t \in Tids : StartCreate(t)
    \/ StartPublish
    \/ StartFail
    \/ Wait
    \/ EndCheck
    \/ EndCancel
    \/ Join
    \/ DeleteUnstarted
    \/ Free

Next == Owner \/ \E t \in Tids : Thread(t)

Spec == Init /\ [][Next]_vars

\* A call under way goes on; a thread that was created goes on; a pending
\* cancellation is acted upon, because every Run of the program comes back to
\* a cancellation point (a 1 s poll, a 10 ms sleep, a socket call).  Nothing
\* says that Run returns by itself.
Fairness ==
    /\ WF_vars(StartPublish) /\ WF_vars(EndCancel) /\ WF_vars(Join)
    /\ WF_vars(Free)
    /\ \A t \in Tids :
          /\ WF_vars(Handshake(t)) /\ WF_vars(Handle(t)) /\ WF_vars(Tail(t))
          /\ WF_vars(cancel[t] /\ Leave(t))

FairSpec == Spec /\ Fairness

-----------------------------------------------------------------------------
(* Properties. *)

TypeOK ==
    /\ alive \in BOOLEAN
    /\ tid \in Tids \cup {NoTid, BadTid}
    /\ running \in BOOLEAN
    /\ opc \in OwnerStates
    /\ deleting \in BOOLEAN
    /\ pc \in [Tids -> ThreadStates]
    /\ cancel \in [Tids -> BOOLEAN]
    /\ how \in [Tids -> {"none", "returned", "exiting", "cancelled"}]
    /\ orphans \in SUBSET Tids
    /\ exitYields \in BOOLEAN

\* Once ~PThread is done, no thread will touch the object again, except one
\* whose handle a second Start overwrote before anybody joined it, and that
\* one only reads its last fields (thread.cpp 71 and 50): the join in End is
\* what keeps every other thread, the finished ones included, away.
NoUseAfterFree ==
    ~alive => \A t \in Tids : Touches(t) => t \in orphans /\ pc[t] = "tail"

\* Two executions of one object never overlap, although nothing makes Start
\* wait for the previous thread: the flag that Start tests is lowered only
\* when the exit handler has done its work.
OneExecution ==
    \A t, u \in Tids : Executing(t) /\ Executing(u) => t = u

\* While the owner is outside Start, _running tells whether the thread that
\* _tid names is executing.  It can stay up after the thread's end only if
\* OnExit can be cancelled and End's cancellation came after Run had returned.
RunningIsTrue ==
    /\ opc # "publish" =>
          \A t \in Tids : Executing(t) => running /\ t = tid
    /\ running /\ (\A t \in Tids : ~Executing(t)) =>
          exitYields /\ \E t \in Tids : how[t] = "returned" /\ cancel[t]

\* Wait and End are handed a handle that was created and not joined before,
\* unless a pthread_create failed after it had written the handle.
JoinsOnce ==
    opc \in {"cancel", "join"} => tid \in Tids /\ pc[tid] \notin {"none", "joined"}

\* An End that found the thread running cancels it, and so returns.
EndReturns == opc = "cancel" ~> opc \in {"idle", "free"}

Phase ==
    IF ~alive THEN "freed"
    ELSE IF \E t \in Tids : Executing(t) THEN "active" ELSE "idle"

Begun == {t \in Tids : pc[t] # "none"}

Life == INSTANCE TaskLife
            WITH Executions <- Tids, phase <- Phase, begun <- Begun

\* The object does what TaskLife promises: no execution begins before the
\* previous one is over, and none is under way, or begins, when it is freed.
ImplementsTaskLife == Life!TSpec
=============================================================================
