---------------------------- MODULE PThreadProofs ----------------------------
(***************************************************************************)
(* PThread's safety properties, for any set of threads.  The argument      *)
(* rests on IInv: while the owner is outside Start, a thread executes only *)
(* if _tid names it and _running is up (OnlyTheHandle, UpWhileExecuting),  *)
(* so that a Start, which needs _running down, finds nobody executing, and *)
(* what it orphans is at most in its tail (TailsAccounted); and the owner  *)
(* gets to release the memory only with no handle left (FreeHasNoHandle).  *)
(***************************************************************************)
EXTENDS PThread, TLAPS

PublishOwnsNew ==
    opc = "publish" =>
        alive /\ ~running /\ tid \in Tids /\ pc[tid] = "prologue"

OnlyTheHandle == \A t \in Tids : Executing(t) => t = tid

UpWhileExecuting ==
    opc # "publish" => \A t \in Tids : Executing(t) => running

StuckOnlyIfLost ==
    running /\ (\A t \in Tids : ~Executing(t)) =>
        exitYields /\ \E t \in Tids : how[t] = "returned" /\ cancel[t]

TailsAccounted == \A t \in Tids : pc[t] = "tail" => t = tid \/ t \in orphans

HandleIsFresh ==
    /\ tid \in Tids => pc[tid] \notin {"none", "joined"}
    /\ running => tid # BadTid

JoinHasHandle == opc \in {"cancel", "join"} => tid \in Tids

FreeHasNoHandle == (opc = "free" => tid = NoTid) /\ (~alive => opc = "free")

IInv ==
    /\ TypeOK
    /\ PublishOwnsNew
    /\ OnlyTheHandle
    /\ UpWhileExecuting
    /\ StuckOnlyIfLost
    /\ TailsAccounted
    /\ HandleIsFresh
    /\ JoinHasHandle
    /\ FreeHasNoHandle

-----------------------------------------------------------------------------
\* The invariant holds when the constructor has returned (thread.cpp 15-19).
LEMMA InitIInv == Init => IInv
  BY TidsAssumption
  DEF Init, IInv, TypeOK, PublishOwnsNew, OnlyTheHandle, UpWhileExecuting,
      StuckOnlyIfLost, TailsAccounted, HandleIsFresh, JoinHasHandle,
      FreeHasNoHandle, Executing, OwnerStates, ThreadStates

\* Every call of the owner preserves the invariant.
LEMMA OwnerIInv == IInv /\ Owner => IInv'
<1> SUFFICES ASSUME IInv, Owner PROVE IInv'
  OBVIOUS
<1> USE TidsAssumption
    DEF IInv, TypeOK, PublishOwnsNew, OnlyTheHandle, UpWhileExecuting,
        StuckOnlyIfLost, TailsAccounted, HandleIsFresh, JoinHasHandle,
        FreeHasNoHandle, Executing, OwnerStates, ThreadStates
<1>1. ASSUME NEW t \in Tids, StartCreate(t) PROVE IInv'
  <2> USE <1>1 DEF StartCreate, CanStart
  <2>1. \A u \in Tids : ~Executing(u)
    OBVIOUS
  <2>2. TypeOK'
    OBVIOUS
  <2>3. PublishOwnsNew' /\ UpWhileExecuting'
    OBVIOUS
  <2>4. StuckOnlyIfLost'
    <3>1. ~running'
      OBVIOUS
    <3> QED BY <3>1 DEF StuckOnlyIfLost
  <2>5. OnlyTheHandle'
    BY <2>1
  <2>6. TailsAccounted'
    OBVIOUS
  <2>7. HandleIsFresh' /\ JoinHasHandle' /\ FreeHasNoHandle'
    OBVIOUS
  <2> QED BY <2>2, <2>3, <2>4, <2>5, <2>6, <2>7
<1>2. CASE StartPublish
  BY <1>2 DEF StartPublish
<1>3. CASE StartFail
  BY <1>3 DEF StartFail, CanStart
<1>4. CASE Wait
  BY <1>4 DEF Wait, JoinState
<1>5. CASE EndCheck
  BY <1>5 DEF EndCheck, JoinState
<1>6. CASE EndCancel
  BY <1>6 DEF EndCancel
<1>7. CASE Join
  BY <1>7 DEF Join
<1>8. CASE DeleteUnstarted
  BY <1>8 DEF DeleteUnstarted
<1>9. CASE Free
  BY <1>9 DEF Free
<1> QED
  BY <1>1, <1>2, <1>3, <1>4, <1>5, <1>6, <1>7, <1>8, <1>9 DEF Owner

\* Every step of a kernel thread preserves the invariant.
LEMMA ThreadIInv == ASSUME NEW t \in Tids PROVE IInv /\ Thread(t) => IInv'
<1> SUFFICES ASSUME IInv, Thread(t) PROVE IInv'
  OBVIOUS
<1> USE TidsAssumption
    DEF IInv, TypeOK, PublishOwnsNew, OnlyTheHandle, UpWhileExecuting,
        StuckOnlyIfLost, TailsAccounted, HandleIsFresh, JoinHasHandle,
        FreeHasNoHandle, Executing, OwnerStates, ThreadStates
<1>1. CASE Handshake(t)
  BY <1>1 DEF Handshake, LocalLockHeld
<1>2. CASE Leave(t)
  BY <1>2 DEF Leave
<1>3. CASE LoseHandler(t)
  BY <1>3 DEF LoseHandler
<1>4. CASE Handle(t)
  BY <1>4 DEF Handle, LocalLockHeld
<1>5. CASE Tail(t)
  BY <1>5 DEF Tail
<1> QED
  BY <1>1, <1>2, <1>3, <1>4, <1>5 DEF Thread

\* IInv is inductive.
THEOREM Invariance == Spec => []IInv
<1>1. IInv /\ UNCHANGED vars => IInv'
  BY DEF vars, IInv, TypeOK, PublishOwnsNew, OnlyTheHandle, UpWhileExecuting,
         StuckOnlyIfLost, TailsAccounted, HandleIsFresh, JoinHasHandle,
         FreeHasNoHandle, Executing
<1>2. IInv /\ [Next]_vars => IInv'
  BY <1>1, OwnerIInv, ThreadIInv DEF Next
<1> QED
  BY InitIInv, <1>2, PTL DEF Spec

\* What the mapping to TaskLife makes of a state the invariant allows.
LEMMA PhaseFacts ==
    /\ IInv /\ ~running /\ opc # "publish" =>
          \A t \in Tids : ~Executing(t)
    /\ IInv /\ ~alive => \A t \in Tids : ~Executing(t)
    /\ IInv /\ opc = "publish" => alive /\ Executing(tid) /\ tid \in Tids
  BY TidsAssumption
  DEF IInv, UpWhileExecuting, PublishOwnsNew, OnlyTheHandle, FreeHasNoHandle,
      Executing

\* The initial states are TaskLife's, and every step is one of TaskLife's or
\* leaves its variables alone.
THEOREM Refinement == Spec => ImplementsTaskLife
<1>1. Init => Life!TInit
  BY DEF Init, Life!TInit, Phase, Begun, Executing
<1>2. IInv /\ [Next]_vars => [Life!TNext]_<<Phase, Begun>>
  <2> SUFFICES ASSUME IInv, [Next]_vars PROVE [Life!TNext]_<<Phase, Begun>>
    OBVIOUS
  <2> USE TidsAssumption DEF Phase, Begun, Executing
  <2>1. ASSUME NEW t \in Tids, StartCreate(t) PROVE Life!Begin(t)
    <3>1. \A u \in Tids : ~Executing(u)
      BY <2>1, PhaseFacts DEF StartCreate, CanStart
    <3>2. Phase = "idle" /\ t \notin Begun
      BY <2>1, <3>1 DEF StartCreate, CanStart
    <3>3. pc' = [pc EXCEPT ![t] = "prologue"] /\ alive' = alive
      BY <2>1 DEF StartCreate
    <3>4. alive /\ pc \in [Tids -> ThreadStates]
      BY <2>1 DEF StartCreate, CanStart, IInv, TypeOK
    <3>5. Phase' = "active"
      BY <3>3, <3>4
    <3>6. Begun' = Begun \cup {t}
      BY <3>3, <3>4
    <3> QED BY <3>2, <3>5, <3>6 DEF Life!Begin
  <2>2. ASSUME NEW t \in Tids, LoseHandler(t) \/ Handle(t) PROVE Life!Finish
    <3>1. Executing(t) /\ alive
      BY <2>2, PhaseFacts DEF LoseHandler, Handle
    <3>2. /\ pc \in [Tids -> ThreadStates]
          /\ \A u \in Tids : Executing(u) => u = t
      BY <3>1 DEF IInv, TypeOK, OnlyTheHandle
    <3>3. /\ pc' \in {[pc EXCEPT ![t] = "exited"], [pc EXCEPT ![t] = "tail"]}
          /\ alive' = alive
      BY <2>2 DEF LoseHandler, Handle
    <3>4. Phase = "active"
      BY <3>1
    <3>5. Phase' = "idle"
      BY <3>1, <3>2, <3>3
    <3>6. Begun' = Begun
      BY <3>1, <3>2, <3>3
    <3> QED BY <3>4, <3>5, <3>6 DEF Life!Finish
  <2>3. CASE Free
    <3>1. ~alive' /\ pc' = pc /\ alive
      BY <2>3 DEF Free
    <3>2. tid = NoTid
      BY <2>3 DEF Free, IInv, FreeHasNoHandle
    <3>3. \A t \in Tids : ~Executing(t)
      BY <3>2 DEF IInv, OnlyTheHandle
    <3> QED BY <3>1, <3>3 DEF Life!Release, Life!TNext
  <2>4. ASSUME NEW t \in Tids, Handshake(t) \/ Leave(t) \/ Tail(t)
        PROVE UNCHANGED <<Phase, Begun>>
    <3>1. pc \in [Tids -> ThreadStates] /\ alive' = alive
      BY <2>4 DEF IInv, TypeOK, Handshake, Leave, Tail
    <3>2. \/ pc[t] = "prologue" /\ pc' = [pc EXCEPT ![t] = "run"]
          \/ pc[t] = "run" /\ pc' = [pc EXCEPT ![t] = "handler"]
          \/ pc[t] = "tail" /\ pc' = [pc EXCEPT ![t] = "exited"]
      BY <2>4 DEF Handshake, Leave, Tail
    <3>3. \A u \in Tids : Executing(u)' = Executing(u)
      BY <3>1, <3>2
    <3>4. Begun' = Begun
      BY <3>1, <3>2
    <3> QED BY <3>1, <3>3, <3>4
  <2>5. CASE Join
    <3>1. pc \in [Tids -> ThreadStates] /\ alive' = alive /\ tid \in Tids
      BY <2>5 DEF IInv, TypeOK, Join, JoinHasHandle
    <3>2. pc[tid] = "exited" /\ pc' = [pc EXCEPT ![tid] = "joined"]
      BY <2>5 DEF Join
    <3>3. \A u \in Tids : Executing(u)' = Executing(u)
      BY <3>1, <3>2
    <3>4. Begun' = Begun
      BY <3>1, <3>2
    <3> QED BY <3>1, <3>3, <3>4
  <2>6. CASE \/ StartPublish \/ StartFail \/ Wait \/ EndCheck \/ EndCancel
             \/ DeleteUnstarted \/ UNCHANGED vars
    <3>1. pc' = pc /\ alive' = alive
      BY <2>6 DEF StartPublish, StartFail, Wait, EndCheck, EndCancel,
                  DeleteUnstarted, vars
    <3> QED BY <3>1
  <2> QED
    BY <2>1, <2>2, <2>3, <2>4, <2>5, <2>6
    DEF Next, Owner, Thread, Life!TNext
<1> QED
  BY <1>1, <1>2, Invariance, PTL DEF Spec, ImplementsTaskLife, Life!TSpec

\* The variables keep their types.
THEOREM TypeCorrect == Spec => []TypeOK
<1>1. IInv => TypeOK
  BY DEF IInv
<1> QED
  BY Invariance, <1>1, PTL

\* No thread touches a destroyed object, but for the tail of one whose handle
\* a second Start overwrote.
THEOREM Safe == Spec => []NoUseAfterFree
<1>1. IInv => NoUseAfterFree
  BY TidsAssumption
  DEF IInv, OnlyTheHandle, TailsAccounted, FreeHasNoHandle, NoUseAfterFree,
      Touches, Executing
<1> QED
  BY Invariance, <1>1, PTL

\* Two executions of one object never overlap.
THEOREM Exclusive == Spec => []OneExecution
<1>1. IInv => OneExecution
  BY DEF IInv, OnlyTheHandle, OneExecution
<1> QED
  BY Invariance, <1>1, PTL

\* _running tells the truth, unless OnExit could be cancelled.
THEOREM Truthful == Spec => []RunningIsTrue
<1>1. IInv => RunningIsTrue
  BY DEF IInv, OnlyTheHandle, UpWhileExecuting, StuckOnlyIfLost, RunningIsTrue
<1> QED
  BY Invariance, <1>1, PTL

\* A handle is joined or cancelled only while its thread is not yet joined.
THEOREM HandleDiscipline == Spec => []JoinsOnce
<1>1. IInv => JoinsOnce
  BY DEF IInv, HandleIsFresh, JoinHasHandle, JoinsOnce
<1> QED
  BY Invariance, <1>1, PTL

-----------------------------------------------------------------------------
(* What makes EndReturns true is that End never waits for a thread that      *)
(* might go on for ever.  The rest of it is fairness, and left to TLC.       *)

\* A thread that the destructor joins has been cancelled, or is past Run.
JoinEnds ==
    deleting /\ opc = "join" => tid \in Tids /\ (Executing(tid) => cancel[tid])

EndInv == JoinEnds /\ (deleting => opc \notin {"idle", "publish"})

LEMMA EndStep == IInv /\ EndInv /\ [Next]_vars => EndInv'
<1> SUFFICES ASSUME IInv, EndInv, [Next]_vars PROVE EndInv'
  OBVIOUS
<1> USE TidsAssumption DEF EndInv, JoinEnds, Executing
<1>1. CASE UNCHANGED vars
  BY <1>1 DEF vars
<1>2. ASSUME NEW t \in Tids, StartCreate(t) PROVE EndInv'
  BY <1>2 DEF StartCreate, CanStart
<1>3. CASE StartPublish
  BY <1>3 DEF StartPublish
<1>4. CASE StartFail
  BY <1>4 DEF StartFail, CanStart
<1>5. CASE Wait
  BY <1>5 DEF Wait
<1>6. CASE EndCheck
  BY <1>6 DEF EndCheck, JoinState, IInv, TypeOK, UpWhileExecuting
<1>7. CASE EndCancel
  BY <1>7 DEF EndCancel, IInv, TypeOK, JoinHasHandle
<1>8. CASE Join
  BY <1>8 DEF Join
<1>9. CASE DeleteUnstarted
  BY <1>9 DEF DeleteUnstarted
<1>10. CASE Free
  BY <1>10 DEF Free
<1>11. ASSUME NEW t \in Tids, Thread(t) PROVE EndInv'
  <2>1. /\ \A u \in Tids : pc'[u] \in {"prologue", "run", "handler"} =>
                              pc[u] \in {"prologue", "run", "handler"}
        /\ UNCHANGED <<tid, opc, deleting, cancel>>
    BY <1>11 DEF Thread, Handshake, Leave, LoseHandler, Handle, Tail, IInv, TypeOK
  <2> QED
    BY <2>1
<1> QED
  BY <1>1, <1>2, <1>3, <1>4, <1>5, <1>6, <1>7, <1>8, <1>9, <1>10, <1>11
  DEF Next, Owner

\* The destructor never waits for a thread that has not been told to end,
\* however the check of _running, the cancellation and the thread's own end
\* interleave (thread.cpp, PThread::End and exit_handler).
THEOREM EndsWhatItJoins == Spec => []JoinEnds
<1>1. Init => EndInv
  BY DEF Init, EndInv, JoinEnds
<1>2. EndInv => JoinEnds
  BY DEF EndInv
<1> QED
  BY <1>1, <1>2, EndStep, Invariance, PTL DEF Spec
=============================================================================
