-------------------------- MODULE HttpServerProofs --------------------------
(***************************************************************************)
(* HttpServer's safety properties, for any number of workers, any          *)
(* threshold and any set of mutexes.  None of the properties is inductive  *)
(* by itself: QuietWhenStopped needs to know what each phase of the accept *)
(* thread owes the next one (Lists), that a worker's object exists as long *)
(* as its thread (Threads), and where the dialog can be while the server   *)
(* runs (Dialog).  What the mutexes are (MutexInv) rests on TypeOK alone.  *)
(*                                                                         *)
(* The last part is about the settings the server is run with (Settings),  *)
(* for any texts, files and directories: what a start leaves behind it,    *)
(* failed or not, is what the next one can cope with.                      *)
(***************************************************************************)
EXTENDS HttpServer, Settings, TLAPS

Flags ==
    /\ running <=> spc \notin {"none", "exited"}
    /\ handle <=> spc # "none"
    /\ listening => spc \in {"setup", "accept", "tls", "reap", "reapJoin", "stop"}

Dialog ==
    /\ gpc = "idle" /\ startOn => ~running
    /\ gpc \in {"configure", "logError"} => ~running
    /\ gpc \in {"logStop", "logClose"} => spc = "none"
    /\ gpc \in {"stopJoin", "closeJoin"} => spc # "none"

Lists ==
    /\ spc \in {"none", "exited", "begin", "setup"} => clients = {} /\ tasks = {}
    /\ spc \in {"accept", "tls", "reap", "reapJoin", "stop"} => clients = tasks
    /\ spc \in {"reap", "reapJoin"} => rest \subseteq tasks
    /\ spc \notin {"reap", "reapJoin", "visit", "stopJoin"} => rest = {}
    /\ spc \in {"visit", "stopJoin"} => rest = tasks
    /\ spc \in {"reapJoin", "stopJoin"} => cur \in rest
    /\ spc = "tls" => cur \in Workers \ tasks

Threads ==
    \A w \in Workers :
        /\ wpc[w] # "none" <=> w \in tasks
        /\ wrunning[w] <=> Serving(w)

IInv == TypeOK /\ Flags /\ Dialog /\ Lists /\ Threads /\ SocketsOwned

-----------------------------------------------------------------------------
\* The invariant holds when the dialog has been built.
LEMMA InitIInv == Init => IInv
<1> SUFFICES ASSUME Init PROVE IInv
  OBVIOUS
<1> USE ServerAssumption DEF Init
<1>1. TypeOK
  BY DEF TypeOK, GuiStates, ServerStates, WorkerStates, ConnStates
<1>2. Flags /\ Dialog
  BY DEF Flags, Dialog
<1>3. Lists
  BY DEF Lists
<1>4. Threads /\ SocketsOwned
  BY DEF Threads, SocketsOwned, Serving
<1> QED
  BY <1>1, <1>2, <1>3, <1>4 DEF IInv

\* The dialog's handlers, step by step, preserve the invariant.
LEMMA GuiIInv == IInv /\ (User \/ Gui) => IInv'
<1> SUFFICES ASSUME IInv, User \/ Gui PROVE IInv'
  OBVIOUS
<1> USE ServerAssumption
    DEF IInv, TypeOK, Flags, Dialog, Lists, Threads, SocketsOwned, Serving,
        GuiStates, ServerStates, WorkerStates, ConnStates, guiVars, flagVars, listVars,
        serverVars, threadVars, workerVars, lockVars, procVars
<1>1. CASE OnStart
  BY <1>1 DEF OnStart
<1>2. CASE OnStop
  BY <1>2 DEF OnStop
<1>3. CASE OnClose
  BY <1>3 DEF OnClose
<1>4. CASE OnStartRejected
  BY <1>4 DEF OnStartRejected
<1>5. CASE OnStartCreates
  BY <1>5 DEF OnStartCreates
<1>6. CASE OnStartNoThread
  BY <1>6 DEF OnStartNoThread
<1>7. CASE OnStartCheck
  BY <1>7 DEF OnStartCheck
<1>8. CASE OnStartDone
  <2>1. CASE gpc = "logStart"
    BY <1>8, <2>1 DEF OnStartDone
  <2>2. CASE gpc = "logError"
    BY <1>8, <2>2 DEF OnStartDone
  <2> QED
    BY <1>8, <2>1, <2>2 DEF OnStartDone
<1>9. CASE Joined
  BY <1>9 DEF Joined
<1>10. CASE OnStopDone
  BY <1>10 DEF OnStopDone, CanLog
<1>11. CASE OnCloseDone
  BY <1>11 DEF OnCloseDone, CanLog
<1> QED
  BY <1>1, <1>2, <1>3, <1>4, <1>5, <1>6, <1>7, <1>8, <1>9, <1>10, <1>11
  DEF User, Gui

\* A new client leaves the lists, the threads and the sockets in order.
LEMMA ServeIInv ==
    ASSUME IInv, NEW w \in Workers, w \notin tasks, spc \in {"accept", "tls"},
           conn[w] = "open" => spc = "tls" /\ cur = w,
           spc = "tls" => cur = w,
           Serve(w), cur' \in {cur, NoWorker},
           UNCHANGED <<guiVars, flagVars, listening, procVars>>
    PROVE  IInv'
<1> USE ServerAssumption
    DEF IInv, TypeOK, Flags, Dialog, Lists, Threads, SocketsOwned, Serving,
        GuiStates, ServerStates, WorkerStates, ConnStates, guiVars, flagVars, listVars,
        serverVars, threadVars, workerVars, lockVars, procVars
<1>1. /\ clients' = clients \cup {w} /\ tasks' = tasks \cup {w}
      /\ spc' \in {"reap", "accept"}
      /\ rest' \subseteq clients' /\ (spc' = "accept" => rest' = {})
  BY DEF Serve, EndOfIteration
<1>2. /\ wrunning[w] = FALSE
      /\ wcancel' = [wcancel EXCEPT ![w] = FALSE]
      /\ \/ /\ wpc' = [wpc EXCEPT ![w] = "serve"]
            /\ wrunning' = [wrunning EXCEPT ![w] = TRUE]
            /\ conn' = [conn EXCEPT ![w] = "open"]
         \/ /\ wpc' = [wpc EXCEPT ![w] = "failed"]
            /\ conn' = [conn EXCEPT ![w] = "unserved"]
            /\ wrunning' = wrunning
  BY DEF Serve
<1>3. TypeOK'
  <2>1. /\ clients' \in SUBSET Workers /\ rest' \in SUBSET Workers
        /\ tasks' \in SUBSET Workers /\ spc' \in ServerStates
        /\ cur' \in Workers \cup {NoWorker}
    BY <1>1
  <2>2. /\ wpc' \in [Workers -> WorkerStates]
        /\ wrunning' \in [Workers -> BOOLEAN]
        /\ conn' \in [Workers -> ConnStates]
    BY <1>2
  <2>3. wcancel' \in [Workers -> BOOLEAN]
    BY <1>2
  <2> QED
    BY <2>1, <2>2, <2>3
<1>4. Flags' /\ Dialog' /\ Lists'
  BY <1>1
<1>5. Threads'
  BY <1>1, <1>2
<1>6. SocketsOwned'
  BY <1>1, <1>2
<1> QED
  BY <1>3, <1>4, <1>5, <1>6

\* The accept thread and the clients that connect preserve the invariant.
LEMMA ServerIInv ==
    IInv /\ (Connects \/ Server \/ ServerCancelled \/ ReapCancelled) => IInv'
<1> SUFFICES ASSUME IInv, Connects \/ Server \/ ServerCancelled \/ ReapCancelled
             PROVE IInv'
  OBVIOUS
<1> USE ServerAssumption
    DEF IInv, TypeOK, Flags, Dialog, Lists, Threads, SocketsOwned, Serving,
        GuiStates, ServerStates, WorkerStates, ConnStates, guiVars, flagVars, listVars,
        serverVars, threadVars, workerVars, lockVars, procVars
<1>1. ASSUME NEW w \in Workers, Accept(w) PROVE IInv'
  BY <1>1, ServeIInv DEF Accept, Unused
<1>2. ASSUME NEW w \in Workers, AcceptTls(w) PROVE IInv'
  BY <1>2 DEF AcceptTls, Unused
<1>3. CASE StartServer
  BY <1>3 DEF StartServer
<1>4. CASE StartServerFails
  BY <1>4 DEF StartServerFails
<1>5. CASE SetupHandlers
  BY <1>5 DEF SetupHandlers
<1>6. CASE TlsAccepted
  BY <1>6, ServeIInv DEF TlsAccepted
<1>7. CASE TlsRejected
  BY <1>7 DEF TlsRejected, EndOfIteration
<1>8. CASE AcceptTimeout
  BY <1>8 DEF AcceptTimeout, EndOfIteration
<1>9. ASSUME NEW w \in Workers, ReapKeeps(w) PROVE IInv'
  BY <1>9 DEF ReapKeeps
<1>10. ASSUME NEW w \in Workers, ReapDeletes(w) PROVE IInv'
  BY <1>10 DEF ReapDeletes
<1>11. CASE ReapJoined
  BY <1>11 DEF ReapJoined, Destroy
<1>12. CASE ReapDone
  BY <1>12 DEF ReapDone
<1>13. CASE StopServer
  BY <1>13 DEF StopServer
<1>14. ASSUME NEW w \in Workers, StopDeletes(w) PROVE IInv'
  BY <1>14 DEF StopDeletes
<1>15. CASE StopJoined
  BY <1>15 DEF StopJoined, Destroy
<1>16. CASE ServerExits
  BY <1>16 DEF ServerExits
<1>17. CASE ServerCancelled
  BY <1>17 DEF ServerCancelled
<1>18. CASE ReapCancelled
  BY <1>18 DEF ReapCancelled
<1> QED
  BY <1>1, <1>2, <1>3, <1>4, <1>5, <1>6, <1>7, <1>8, <1>9, <1>10, <1>11,
     <1>12, <1>13, <1>14, <1>15, <1>16, <1>17, <1>18
  DEF Connects, Server

\* A worker's steps preserve the invariant.
LEMMA WorkerIInv == ASSUME NEW w \in Workers PROVE IInv /\ Worker(w) => IInv'
<1> SUFFICES ASSUME IInv, Worker(w) PROVE IInv'
  OBVIOUS
<1> USE ServerAssumption
    DEF IInv, TypeOK, Flags, Dialog, Lists, Threads, SocketsOwned, Serving,
        GuiStates, ServerStates, WorkerStates, ConnStates, guiVars, flagVars, listVars,
        serverVars, threadVars, workerVars, lockVars, procVars
<1>1. ASSUME NEW m \in Mutexes, WantMutex(w, m) PROVE IInv'
  BY <1>1 DEF WantMutex
<1>2. CASE TakeMutex(w)
  <2>1. /\ wpc' \in [Workers -> WorkerStates]
        /\ mutex' \in [Mutexes -> {"free", "held", "abandoned"}]
        /\ wants' \in [Workers -> Mutexes \cup {NoMutex}]
    BY <1>2 DEF TakeMutex
  <2>2. Threads' /\ SocketsOwned'
    BY <1>2 DEF TakeMutex
  <2> QED
    BY <1>2, <2>1, <2>2 DEF TakeMutex
<1>3. CASE ReleaseMutex(w)
  <2>1. /\ wpc' \in [Workers -> WorkerStates]
        /\ mutex' \in [Mutexes -> {"free", "held", "abandoned"}]
        /\ wants' \in [Workers -> Mutexes \cup {NoMutex}]
    BY <1>3 DEF ReleaseMutex
  <2>2. Threads' /\ SocketsOwned'
    BY <1>3 DEF ReleaseMutex
  <2> QED
    BY <1>3, <2>1, <2>2 DEF ReleaseMutex
<1>4. CASE CancelledHolding(w)
  BY <1>4 DEF CancelledHolding
<1>5. CASE CancelledServing(w)
  BY <1>5 DEF CancelledServing
<1>6. CASE RunReturns(w)
  BY <1>6 DEF RunReturns
<1>7. CASE WorkerExits(w)
  BY <1>7 DEF WorkerExits
<1>8. CASE WorkerTail(w)
  BY <1>8 DEF WorkerTail
<1> QED
  BY <1>1, <1>2, <1>3, <1>4, <1>5, <1>6, <1>7, <1>8
  DEF Worker

\* IInv is inductive.
THEOREM Invariance == Spec => []IInv
<1>1. IInv /\ UNCHANGED vars => IInv'
  BY DEF IInv, TypeOK, Flags, Dialog, Lists, Threads, SocketsOwned, Serving,
         vars, guiVars, flagVars, listVars, serverVars, threadVars, workerVars,
         lockVars, procVars
<1>2. IInv /\ [Next]_vars => IInv'
  BY <1>1, GuiIInv, ServerIInv, WorkerIInv DEF Next
<1> QED
  BY InitIInv, <1>2, PTL DEF Spec

-----------------------------------------------------------------------------
\* The variables keep their types.
THEOREM TypeCorrect == Spec => []TypeOK
<1>1. IInv => TypeOK
  BY DEF IInv
<1> QED
  BY Invariance, <1>1, PTL

\* A worker's thread is over before its object is deleted, and the accept
\* thread visits no deleted object: until OnExit begins, it lists none.
THEOREM Safe == Spec => []NoUseAfterFree
<1>1. IInv => NoUseAfterFree
  BY DEF IInv, TypeOK, ServerStates, Lists, Threads, NoUseAfterFree, Serving
<1> QED
  BY Invariance, <1>1, PTL

\* No worker, no listed client and no listening socket without a server.
THEOREM Quiet == Spec => []QuietWhenStopped
<1>1. IInv => QuietWhenStopped
  BY DEF IInv, Flags, Lists, QuietWhenStopped
<1> QED
  BY Invariance, <1>1, PTL

\* The handlers and the configuration are changed when nobody reads them.
THEOREM Alone == Spec => []ChangesAlone
<1>1. IInv => ChangesAlone
  <2> SUFFICES ASSUME IInv PROVE ChangesAlone
    OBVIOUS
  <2>1. gpc = "configure" => spc \in {"none", "exited"}
    BY DEF IInv, TypeOK, Flags, Dialog
  <2>2. gpc = "configure" \/ spc \in {"begin", "setup"} => tasks = {}
    BY <2>1 DEF IInv, Lists
  <2>3. tasks = {} => \A w \in Workers : wpc[w] = "none"
    BY DEF IInv, Threads
  <2> QED
    BY <2>1, <2>2, <2>3 DEF ChangesAlone, Serving
<1> QED
  BY Invariance, <1>1, PTL

\* Every accepted socket that is not closed has an owner that is still to close
\* it, but for the one whose thread could not be created and the one whose
\* handshake a cancellation cut off.
THEOREM Owned == Spec => []SocketsOwned
<1>1. IInv => SocketsOwned
  BY DEF IInv
<1> QED
  BY Invariance, <1>1, PTL

\* The Start button is offered only when the server is down.
THEOREM Truthful == Spec => []ButtonsTellTheTruth
<1>1. IInv => ButtonsTellTheTruth
  BY DEF IInv, Dialog, ButtonsTellTheTruth
<1> QED
  BY Invariance, <1>1, PTL

-----------------------------------------------------------------------------
(* The mutexes. *)

Holds(w, m) == wpc[w] = "hold" /\ wants[w] = m

MutexInv ==
    /\ \A w \in Workers : wants[w] = NoMutex <=> wpc[w] \notin {"wait", "hold"}
    /\ \A m \in Mutexes :
          /\ mutex[m] = "held" <=> \E w \in Workers : Holds(w, m)
          /\ \A v, w \in Workers : Holds(v, m) /\ Holds(w, m) => v = w
          /\ mutex[m] = "abandoned" => m \in yields

\* A step that takes no thread to a mutex, or away from one.
LEMMA MutexFrame ==
    ASSUME TypeOK, MutexInv, mutex' = mutex, wants' = wants, yields' = yields,
           \A w \in Workers : \/ wpc'[w] = wpc[w]
                              \/ /\ wpc[w] \notin {"wait", "hold"}
                                 /\ wpc'[w] \notin {"wait", "hold"}
    PROVE  MutexInv' /\ \A m \in Mutexes : mutex[m] = "abandoned" => mutex'[m] = "abandoned"
<1>1. \A w \in Workers : wpc'[w] = "hold" <=> wpc[w] = "hold"
  OBVIOUS
<1>2. \A w \in Workers : wpc'[w] \in {"wait", "hold"} <=> wpc[w] \in {"wait", "hold"}
  OBVIOUS
<1>3. \A w \in Workers, m \in Mutexes : Holds(w, m)' <=> Holds(w, m)
  BY <1>1 DEF Holds
<1> QED
  BY <1>2, <1>3 DEF MutexInv

\* The other threads do not lock anything for longer than a step.
LEMMA OthersMutex ==
    ASSUME IInv, MutexInv, User \/ Gui \/ Connects \/ Server \/ ServerCancelled \/ ReapCancelled
    PROVE  MutexInv' /\ \A m \in Mutexes : mutex[m] = "abandoned" => mutex'[m] = "abandoned"
<1>1. TypeOK /\ \A w \in Workers : wpc[w] = "none" \/ w \in tasks
  BY DEF IInv, Threads
<1>2. mutex' = mutex /\ wants' = wants /\ yields' = yields
  BY DEF User, Gui, Connects, Server, OnStart, OnStop, OnClose, OnStartRejected, OnStartCreates,
         OnStartNoThread, OnStartCheck, OnStartDone, Joined, OnStopDone, OnCloseDone,
         Accept, AcceptTls, StartServer, StartServerFails, SetupHandlers, TlsAccepted,
         TlsRejected, AcceptTimeout, ReapKeeps, ReapDeletes, ReapJoined, ReapDone, StopServer,
         StopDeletes, StopJoined, ServerExits, ServerCancelled, ReapCancelled,
         procVars, lockVars
<1>3. ASSUME NEW w \in Workers
      PROVE  \/ wpc'[w] = wpc[w]
             \/ wpc[w] \notin {"wait", "hold"} /\ wpc'[w] \notin {"wait", "hold"}
  <2>1. CASE wpc' = wpc
    BY <2>1
  <2>2. CASE \E v \in Workers : wpc[v] = "none" /\ Serve(v)
    <3>1. PICK v \in Workers : wpc[v] = "none" /\ Serve(v)
      BY <2>2
    <3>2. wpc' = [wpc EXCEPT ![v] = "serve"] \/ wpc' = [wpc EXCEPT ![v] = "failed"]
      BY <3>1 DEF Serve
    <3> QED
      BY <1>1, <3>1, <3>2 DEF TypeOK
  <2>3. CASE Destroy
    BY <1>1, <2>3 DEF Destroy, TypeOK
  <2>4. \/ wpc' = wpc \/ Destroy
        \/ \E v \in Workers : wpc[v] = "none" /\ Serve(v)
    <3>1. CASE User \/ Gui
      BY <3>1 DEF User, Gui, OnStart, OnStop, OnClose, OnStartRejected, OnStartCreates,
                  OnStartNoThread, OnStartCheck, OnStartDone, Joined, OnStopDone, OnCloseDone,
                  workerVars, threadVars
    <3>2. CASE Connects
      BY <3>2 DEF Connects, Accept, AcceptTls, Unused, threadVars
    <3>3. CASE Server
      <4>1. CASE TlsAccepted
        <5>1. cur \in Workers /\ cur \notin tasks /\ Serve(cur)
          BY <4>1 DEF TlsAccepted, IInv, Lists
        <5> QED
          BY <1>1, <5>1
      <4> QED
        BY <3>3, <4>1 DEF Server, StartServer, StartServerFails, SetupHandlers, TlsRejected,
               AcceptTimeout, ReapKeeps, ReapDeletes, ReapJoined, ReapDone, StopServer,
               StopDeletes, StopJoined, ServerExits, workerVars, threadVars
    <3>4. CASE ServerCancelled \/ ReapCancelled
      BY <3>4 DEF ServerCancelled, ReapCancelled, workerVars, threadVars
    <3> QED
      BY <3>1, <3>2, <3>3, <3>4
  <2> QED
    BY <2>1, <2>2, <2>3, <2>4
<1> QED
  BY <1>1, <1>2, <1>3, MutexFrame

\* A worker waits, takes, gives back or abandons.
LEMMA WorkerMutex ==
    ASSUME IInv, MutexInv, NEW w \in Workers, Worker(w)
    PROVE  MutexInv' /\ \A m \in Mutexes : mutex[m] = "abandoned" => mutex'[m] = "abandoned"
<1>1. /\ TypeOK /\ NoMutex \notin Mutexes
      /\ wpc \in [Workers -> WorkerStates] /\ wants \in [Workers -> Mutexes \cup {NoMutex}]
      /\ mutex \in [Mutexes -> {"free", "held", "abandoned"}]
  BY ServerAssumption DEF IInv, TypeOK
<1>2. ASSUME NEW m \in Mutexes, WantMutex(w, m)
      PROVE  MutexInv' /\ mutex' = mutex
  BY <1>1, <1>2 DEF WantMutex, MutexInv, Holds
<1>3. ASSUME TakeMutex(w)
      PROVE  MutexInv' /\ \A m \in Mutexes : mutex[m] = "abandoned" => mutex'[m] = "abandoned"
  <2>1. PICK m : /\ m = wants[w] /\ m \in Mutexes /\ mutex[m] = "free"
                 /\ wpc[w] = "wait" /\ wpc' = [wpc EXCEPT ![w] = "hold"]
                 /\ mutex' = [mutex EXCEPT ![m] = "held"]
                 /\ wants' = wants /\ yields' = yields
    BY <1>1, <1>3 DEF TakeMutex, MutexInv
  <2>2. \A v \in Workers : ~Holds(v, m)
    BY <2>1 DEF MutexInv
  <2>3. \A v \in Workers, n \in Mutexes : Holds(v, n)' <=> Holds(v, n) \/ (v = w /\ n = m)
    BY <1>1, <2>1 DEF Holds
  <2>4. \A v \in Workers : wants'[v] = NoMutex <=> wpc'[v] \notin {"wait", "hold"}
    BY <1>1, <2>1 DEF MutexInv
  <2>5. \A n \in Mutexes : mutex'[n] = IF n = m THEN "held" ELSE mutex[n]
    BY <1>1, <2>1
  <2>6. \A v \in Workers : ~Holds(v, m) \/ v = w
    BY <2>2
  <2> QED
    BY <2>1, <2>2, <2>3, <2>4, <2>5 DEF MutexInv
<1>4. ASSUME ReleaseMutex(w) \/ CancelledHolding(w)
      PROVE  MutexInv' /\ \A m \in Mutexes : mutex[m] = "abandoned" => mutex'[m] = "abandoned"
  <2>1. PICK m, s : /\ m = wants[w] /\ m \in Mutexes /\ wpc[w] = "hold"
                    /\ wpc'[w] \notin {"wait", "hold"}
                    /\ \A v \in Workers \ {w} : wpc'[v] = wpc[v]
                    /\ mutex' = [mutex EXCEPT ![m] = s]
                    /\ s = "free" \/ (s = "abandoned" /\ m \in yields)
                    /\ wants' = [wants EXCEPT ![w] = NoMutex] /\ yields' = yields
    BY <1>1, <1>4 DEF ReleaseMutex, CancelledHolding, MutexInv
  <2>2. Holds(w, m) /\ mutex[m] = "held" /\ \A v \in Workers : Holds(v, m) => v = w
    BY <2>1 DEF MutexInv, Holds
  <2>3. \A v \in Workers, n \in Mutexes : Holds(v, n)' <=> Holds(v, n) /\ v # w
    BY <1>1, <2>1 DEF Holds
  <2>4. \A v \in Workers : wants'[v] = NoMutex <=> wpc'[v] \notin {"wait", "hold"}
    BY <1>1, <2>1 DEF MutexInv
  <2>5. \A n \in Mutexes : mutex'[n] = IF n = m THEN s ELSE mutex[n]
    BY <1>1, <2>1
  <2>6. \A n \in Mutexes : n # m => ~Holds(w, n)
    BY <2>1 DEF Holds
  <2> QED
    BY <2>1, <2>2, <2>3, <2>4, <2>5, <2>6 DEF MutexInv
<1>5. CASE CancelledServing(w) \/ RunReturns(w) \/ WorkerExits(w) \/ WorkerTail(w)
  <2>1. /\ mutex' = mutex /\ wants' = wants /\ yields' = yields
        /\ wpc[w] \notin {"wait", "hold"} /\ wpc'[w] \notin {"wait", "hold"}
        /\ \A v \in Workers \ {w} : wpc'[v] = wpc[v]
    BY <1>1, <1>5 DEF CancelledServing, RunReturns, WorkerExits, WorkerTail, procVars, lockVars
  <2> QED
    BY <1>1, <2>1, MutexFrame
<1> QED
  BY <1>2, <1>3, <1>4, <1>5 DEF Worker

\* The mutexes keep their invariant, and an abandoned one is not taken again.
LEMMA MutexStep ==
    IInv /\ MutexInv /\ [Next]_vars =>
        MutexInv' /\ \A m \in Mutexes : mutex[m] = "abandoned" => mutex'[m] = "abandoned"
<1> SUFFICES ASSUME IInv, MutexInv, [Next]_vars
             PROVE  /\ MutexInv'
                    /\ \A m \in Mutexes : mutex[m] = "abandoned" => mutex'[m] = "abandoned"
  OBVIOUS
<1>1. CASE UNCHANGED vars
  <2>1. mutex' = mutex /\ wants' = wants /\ yields' = yields /\ wpc' = wpc
    BY <1>1 DEF vars, workerVars, threadVars, procVars, lockVars
  <2> QED
    BY <2>1, MutexFrame DEF IInv
<1>2. CASE \E w \in Workers : Worker(w)
  BY <1>2, WorkerMutex
<1>3. CASE User \/ Gui \/ Connects \/ Server \/ ServerCancelled \/ ReapCancelled
  BY <1>3, OthersMutex
<1> QED
  BY <1>1, <1>2, <1>3 DEF Next

\* Every mutex that is held has one holder among the workers, and only a mutex
\* under which a cancellation point is executed is ever left locked by a worker
\* that is gone.
THEOREM HeldByOne == Spec => []MutexInv
<1>1. Init => MutexInv
  BY ServerAssumption DEF Init, MutexInv, Holds
<1> QED
  BY <1>1, MutexStep, Invariance, PTL DEF Spec

\* A mutex that a cancelled worker has left locked is never given to anybody
\* again: whoever waits for it waits until the process ends.
THEOREM AbandonedForGood ==
    Spec => [][\A m \in Mutexes : mutex[m] = "abandoned" => mutex'[m] = "abandoned"]_vars
<1>1. IInv /\ MutexInv /\ [Next]_vars =>
         [\A m \in Mutexes : mutex[m] = "abandoned" => mutex'[m] = "abandoned"]_vars
  BY MutexStep
<1> QED
  BY <1>1, HeldByOne, Invariance, PTL DEF Spec

-----------------------------------------------------------------------------
(* What makes StopReturns true is that each wait of a stop is for somebody   *)
(* who can go on, and that nobody waits in a circle.  The rest of it is      *)
(* fairness, and left to TLC.                                                *)

\* Somebody who waits for m can get it, as soon as a holder who waits for
\* nobody has released it; or never, when a cancelled worker has left it.
Grantable(m) ==
    \/ mutex[m] = "free"
    \/ mutex[m] = "held" /\ \E w \in Workers : Holds(w, m)
    \/ mutex[m] = "abandoned" /\ m \in yields

\* The accept thread that a stop joins has been cancelled, or is past its loop.
ServerEnds ==
    gpc \in {"stopJoin", "closeJoin"} =>
        cancelled \/ spc \in {"stop", "visit", "stopJoin", "exited"}

\* So has been the worker that the accept thread joins when it exits; the one
\* that it joins in remove_if has left its exit handler.
WorkerEnds ==
    /\ spc = "stopJoin" => wcancel[cur] \/ ~Serving(cur)
    /\ spc = "reapJoin" => ~Serving(cur)

\* The mutexes that the others wait for can be granted.  When the dialog logs
\* that the server is down, no worker is left to hold the log's.
WaitsEnd ==
    /\ ServerEnds /\ WorkerEnds
    /\ \A w \in Workers : wpc[w] = "wait" => wants[w] \in Mutexes /\ Grantable(wants[w])
    /\ gpc \in {"logError", "logStop", "logClose"} => mutex[LogMutex] # "held"

LEMMA ServerEndsStep == IInv /\ ServerEnds /\ [Next]_vars => ServerEnds'
<1> SUFFICES ASSUME IInv, ServerEnds, [Next]_vars PROVE ServerEnds'
  OBVIOUS
<1> USE DEF ServerEnds, guiVars, flagVars, listVars, serverVars
<1>1. CASE UNCHANGED vars
  BY <1>1 DEF vars
<1>2. CASE User \/ Gui
  BY <1>2
  DEF User, Gui, OnStart, OnStop, OnClose, OnStartRejected, OnStartCreates,
      OnStartNoThread, OnStartCheck, OnStartDone, Joined, OnStopDone, OnCloseDone,
      IInv, TypeOK, Flags, ServerStates
<1>3. CASE Connects \/ ServerCancelled \/ ReapCancelled
  BY <1>3
  DEF Connects, Accept, AcceptTls, Serve, EndOfIteration, ServerCancelled, ReapCancelled
<1>4. CASE Server
  <2>1. UNCHANGED <<gpc, cancelled>>
    BY <1>4
    DEF Server, StartServer, StartServerFails, SetupHandlers, TlsAccepted, TlsRejected,
        AcceptTimeout, ReapKeeps, ReapDeletes, ReapJoined, ReapDone, StopServer,
        StopDeletes, StopJoined, ServerExits
  <2>2. spc \in {"stop", "visit", "stopJoin", "exited"} =>
           spc' \in {"stop", "visit", "stopJoin", "exited"}
    BY <1>4
    DEF Server, StartServer, StartServerFails, SetupHandlers, TlsAccepted, TlsRejected,
        AcceptTimeout, ReapKeeps, ReapDeletes, ReapJoined, ReapDone, StopServer,
        StopDeletes, StopJoined, ServerExits
  <2> QED
    BY <2>1, <2>2
<1>5. ASSUME NEW w \in Workers, Worker(w) PROVE ServerEnds'
  BY <1>5
  DEF Worker, WantMutex, TakeMutex, ReleaseMutex, CancelledHolding, CancelledServing,
      RunReturns, WorkerExits, WorkerTail
<1> QED
  BY <1>1, <1>2, <1>3, <1>4, <1>5 DEF Next

LEMMA WorkerEndsStep == IInv /\ WorkerEnds /\ [Next]_vars => WorkerEnds'
<1> SUFFICES ASSUME IInv, WorkerEnds, [Next]_vars PROVE WorkerEnds'
  OBVIOUS
<1> USE DEF WorkerEnds, Serving, guiVars, flagVars, listVars, serverVars, threadVars,
            workerVars
<1>1. CASE UNCHANGED vars
  BY <1>1 DEF vars
<1>2. CASE User \/ Gui
  <2>1. UNCHANGED <<wpc, wcancel, cur>> /\ (spc' = spc \/ spc' \in {"begin", "none"})
    BY <1>2
    DEF User, Gui, OnStart, OnStop, OnClose, OnStartRejected, OnStartCreates,
        OnStartNoThread, OnStartCheck, OnStartDone, Joined, OnStopDone, OnCloseDone
  <2> QED
    BY <2>1
<1>3. CASE Connects \/ ServerCancelled \/ ReapCancelled
  BY <1>3
  DEF Connects, Accept, AcceptTls, Serve, EndOfIteration, ServerCancelled, ReapCancelled
<1>4. ASSUME NEW w \in Workers, ReapDeletes(w) \/ StopDeletes(w) PROVE WorkerEnds'
  BY <1>4 DEF ReapDeletes, StopDeletes, IInv, TypeOK, Threads
<1>5. CASE Server /\ \A w \in Workers : ~ReapDeletes(w) /\ ~StopDeletes(w)
  <2>1. spc' \notin {"reapJoin", "stopJoin"}
    BY <1>5
    DEF Server, StartServer, StartServerFails, SetupHandlers, TlsAccepted, TlsRejected,
        AcceptTimeout, ReapKeeps, ReapJoined, ReapDone, StopServer, StopJoined,
        ServerExits, Serve, EndOfIteration
  <2> QED
    BY <2>1
<1>6. ASSUME NEW w \in Workers, Worker(w) PROVE WorkerEnds'
  <2>1. /\ UNCHANGED <<spc, cur, wcancel>>
        /\ \A v \in Workers : ~Serving(v) => wpc'[v] \notin {"serve", "wait", "hold", "handler"}
    BY <1>6
    DEF Worker, WantMutex, TakeMutex, ReleaseMutex, CancelledHolding, CancelledServing,
        RunReturns, WorkerExits, WorkerTail, IInv, TypeOK
  <2>2. spc \in {"reapJoin", "stopJoin"} => cur \in Workers
    BY DEF IInv, TypeOK, Lists
  <2> QED
    BY <2>1, <2>2
<1> QED
  BY <1>1, <1>2, <1>3, <1>4, <1>5, <1>6 DEF Next, Server

\* Stop and Close wait for a thread that has been told to end, and nobody in
\* the process waits in a circle, over any number of workers: the accept thread
\* for a worker, a worker for a mutex, and who holds a mutex for nobody
\* (http_srv.cpp, OnExit and Terminated; server.cpp, Log).
THEOREM NoCircularWait == Spec => []WaitsEnd
<1>1. Init => ServerEnds /\ WorkerEnds
  BY DEF Init, ServerEnds, WorkerEnds
<1>2. IInv /\ MutexInv /\ ServerEnds /\ WorkerEnds => WaitsEnd
  <2> SUFFICES ASSUME IInv, MutexInv, ServerEnds, WorkerEnds PROVE WaitsEnd
    OBVIOUS
  <2>1. ASSUME NEW w \in Workers, wpc[w] = "wait"
        PROVE  wants[w] \in Mutexes /\ Grantable(wants[w])
    <3>1. wants[w] \in Mutexes
      BY <2>1 DEF MutexInv, IInv, TypeOK
    <3>2. mutex[wants[w]] \in {"free", "held", "abandoned"}
      BY <3>1 DEF IInv, TypeOK
    <3> QED
      BY <3>1, <3>2 DEF MutexInv, Grantable
  <2>2. ASSUME gpc \in {"logError", "logStop", "logClose"} PROVE mutex[LogMutex] # "held"
    <3>1. tasks = {}
      BY <2>2 DEF IInv, TypeOK, Dialog, Flags, Lists, ServerStates
    <3>2. \A w \in Workers : wpc[w] = "none"
      BY <3>1 DEF IInv, Threads
    <3> QED
      BY <3>2, ServerAssumption DEF MutexInv, Holds
  <2> QED
    BY <2>1, <2>2 DEF WaitsEnd
<1> QED
  BY <1>1, <1>2, ServerEndsStep, WorkerEndsStep, HeldByOne, Invariance, PTL DEF Spec

-----------------------------------------------------------------------------
Served == {w \in Workers : Serving(w)}

\* A new client is a session opened, or none if its thread was not created.
LEMMA ServeOpens ==
    ASSUME IInv, NEW w \in Workers, w \notin tasks, spc \in {"accept", "tls"},
           Serve(w), running' = running
    PROVE  Session!Open(w) \/ UNCHANGED <<running, Served>>
<1>1. running /\ wpc \in [Workers -> WorkerStates] /\ wpc[w] = "none"
  BY DEF IInv, TypeOK, Flags, Threads
<1>2. w \notin Served
  BY <1>1 DEF Served, Serving
<1>3. CASE wpc' = [wpc EXCEPT ![w] = "serve"]
  BY <1>1, <1>2, <1>3 DEF Served, Serving, Session!Open
<1>4. CASE wpc' = [wpc EXCEPT ![w] = "failed"]
  BY <1>1, <1>2, <1>4 DEF Served, Serving
<1> QED
  BY <1>3, <1>4 DEF Serve

\* A step of a worker ends its session or leaves the sessions alone.
LEMMA WorkerCloses ==
    ASSUME IInv, NEW w \in Workers, Worker(w)
    PROVE  Session!Close(w) \/ UNCHANGED <<running, Served>>
<1> USE DEF Served, Serving, serverVars, flagVars
<1>1. wpc \in [Workers -> WorkerStates]
  BY DEF IInv, TypeOK
<1>2. CASE WorkerExits(w)
  BY <1>1, <1>2 DEF WorkerExits, Session!Close
<1>3. CASE WorkerTail(w)
  BY <1>1, <1>3 DEF WorkerTail
<1>4. ASSUME NEW m \in Mutexes, WantMutex(w, m)
      PROVE UNCHANGED <<running, Served>>
  BY <1>1, <1>4 DEF WantMutex
<1>5. CASE TakeMutex(w)
  BY <1>1, <1>5 DEF TakeMutex
<1>6. CASE ReleaseMutex(w)
  BY <1>1, <1>6 DEF ReleaseMutex
<1>7. CASE CancelledHolding(w)
  BY <1>1, <1>7 DEF CancelledHolding
<1>8. CASE CancelledServing(w)
  BY <1>1, <1>8 DEF CancelledServing
<1>9. CASE RunReturns(w)
  BY <1>1, <1>9 DEF RunReturns
<1> QED
  BY <1>2, <1>3, <1>4, <1>5, <1>6, <1>7, <1>8, <1>9 DEF Worker

\* Deleting a worker's object, after the join, ends nobody's session.
LEMMA DestroyIsSilent ==
    ASSUME IInv, cur \in Workers, Destroy
    PROVE  UNCHANGED Served
<1>1. /\ wpc \in [Workers -> WorkerStates] /\ wpc[cur] \in {"exited", "failed"}
      /\ wpc' = [wpc EXCEPT ![cur] = "none"]
  BY DEF IInv, TypeOK, Destroy
<1> QED
  BY <1>1 DEF Served, Serving

\* The initial states are ServerSession's, and every step is one of its steps
\* or leaves its variables alone.
THEOREM Refinement == Spec => ImplementsServerSession
<1>1. Init => Session!SInit
  BY DEF Init, Session!SInit, Served, Serving
<1>2. IInv /\ [Next]_vars => [Session!SNext]_<<running, Served>>
  <2> SUFFICES ASSUME IInv, [Next]_vars
               PROVE [Session!SNext]_<<running, Served>>
    OBVIOUS
  <2>1. CASE wpc' = wpc /\ running' = running
    BY <2>1 DEF Served, Serving
  <2>2. CASE OnStartCreates
    BY <2>2 DEF OnStartCreates, workerVars, threadVars, Served, Serving,
                Session!Up, Session!SNext
  <2>3. CASE ServerExits
    <3>1. running /\ running' = FALSE /\ wpc' = wpc /\ tasks = {}
      BY <2>3 DEF ServerExits, IInv, TypeOK, Flags, Lists, workerVars,
                  threadVars
    <3>2. Served = {} /\ Served' = Served
      BY <3>1 DEF IInv, Threads, Served, Serving
    <3> QED
      BY <3>1, <3>2 DEF Session!Down, Session!SNext, Served
  <2>4. ASSUME NEW w \in Workers, Accept(w)
        PROVE [Session!SNext]_<<running, Served>>
    BY <2>4, ServeOpens DEF Accept, Unused, flagVars, Session!SNext, Served
  <2>5. CASE TlsAccepted
    <3>1. cur \in Workers /\ cur \notin tasks /\ running' = running
      BY <2>5 DEF TlsAccepted, flagVars, IInv, Lists
    <3>2. spc \in {"accept", "tls"} /\ Serve(cur)
      BY <2>5 DEF TlsAccepted
    <3>3. \/ Session!Open(cur)
          \/ UNCHANGED <<running, Served>>
      BY <3>1, <3>2, ServeOpens
    <3> QED
      BY <3>1, <3>3 DEF Session!SNext, Served
  <2>6. CASE ReapJoined \/ StopJoined
    <3>1. cur \in Workers /\ Destroy /\ running' = running
      BY <2>6 DEF ReapJoined, StopJoined, flagVars, IInv, TypeOK, Lists
    <3> QED
      BY <3>1, DestroyIsSilent DEF Served
  <2>7. ASSUME NEW w \in Workers, Worker(w)
        PROVE [Session!SNext]_<<running, Served>>
    BY <2>7, WorkerCloses DEF Session!SNext, Served
  <2> USE DEF guiVars, flagVars, listVars, serverVars, threadVars, workerVars,
              lockVars, procVars
  <2>8. User \/ Gui => OnStartCreates \/ (wpc' = wpc /\ running' = running)
    BY DEF User, Gui, OnStart, OnStop, OnClose, OnStartRejected,
           OnStartNoThread, OnStartCheck, OnStartDone, Joined, OnStopDone,
           OnCloseDone
  <2>9. Connects => (\E w \in Workers : Accept(w))
                    \/ (wpc' = wpc /\ running' = running)
    BY DEF Connects, AcceptTls
  <2>10. Server => \/ ServerExits \/ TlsAccepted \/ ReapJoined \/ StopJoined
                   \/ wpc' = wpc /\ running' = running
    BY DEF Server, StartServer, StartServerFails, SetupHandlers, TlsRejected,
           AcceptTimeout, ReapKeeps, ReapDeletes, ReapDone, StopServer,
           StopDeletes
  <2>11. ServerCancelled \/ ReapCancelled \/ UNCHANGED vars =>
            wpc' = wpc /\ running' = running
    BY DEF ServerCancelled, ReapCancelled, vars
  <2> QED
    BY <2>1, <2>2, <2>3, <2>4, <2>5, <2>6, <2>7, <2>8, <2>9, <2>10, <2>11
    DEF Next
<1> QED
  BY <1>1, <1>2, Invariance, PTL
  DEF Spec, ImplementsServerSession, Session!SSpec, Served

-----------------------------------------------------------------------------
(***************************************************************************)
(* Settings.  A start meets the certificate, the context and the working   *)
(* directory that earlier starts left.  What has to be known of them in    *)
(* every state: there is a context exactly if _ctx has one, so that        *)
(* SetSSL(false) frees it; the process is where the user put it; and the   *)
(* dialog does not ask for a certificate without TLS.                      *)
(***************************************************************************)

SettingsIInv ==
    /\ SettingsTypeOK
    /\ widgets.ssl \/ widgets.basic
    /\ cwd = chosen
    /\ contexts = One(ctx)
    /\ ServesAsShown /\ NotOpen /\ RootAsShown

\* The invariant holds when the dialog has been built.
LEMMA SettingsInitIInv == SettingsInit => SettingsIInv
<1> SUFFICES ASSUME SettingsInit PROVE SettingsIInv
  OBVIOUS
<1> USE SettingsAssumption DEF SettingsInit, Defaults
<1>1. SettingsTypeOK
  <2>1. NotShown \in [widgets : Settings, chosen : Places]
    BY DEF NotShown, Settings, Places
  <2> QED
    BY <2>1 DEF SettingsTypeOK, Settings, Places, NoCtx
<1>2. contexts = One(ctx)
  BY DEF One
<1> QED
  BY <1>1, <1>2 DEF SettingsIInv, ServesAsShown, NotOpen, RootAsShown

\* CheckEnable, after any click, leaves no certificate asked for without TLS.
LEMMA CheckEnableType ==
    ASSUME NEW w \in Settings
    PROVE  /\ CheckEnable(w) \in Settings
           /\ CheckEnable(w).ssl \/ CheckEnable(w).basic
BY DEF CheckEnable, Settings

\* The dialog's own steps change nothing of the server.
LEMMA DialogIInv == SettingsIInv /\ OnDialog => SettingsIInv'
<1> SUFFICES ASSUME SettingsIInv, OnDialog PROVE SettingsIInv'
  OBVIOUS
<1> USE SettingsAssumption
<1>1. UNCHANGED <<sslsock, ctx, contexts, cert, root, auth_user, auth_pwd, serving, shown>>
  BY DEF OnDialog, OnClick, Write, OnBrowseCertFile, OnBrowseCaFile,
         OnBrowseRootFolder, server
<1>2. widgets \in Settings /\ (widgets.ssl \/ widgets.basic) /\ cwd = chosen /\ cwd \in Places
  BY DEF SettingsIInv, SettingsTypeOK
<1>3. /\ widgets' \in Settings /\ (widgets'.ssl \/ widgets'.basic)
      /\ cwd' = chosen' /\ cwd' \in Places
  <2>1. CASE OnClick
    <3>1. PICK w \in Settings : widgets' = CheckEnable(w)
      BY <1>2, <2>1 DEF OnClick, Settings
    <3> QED
      BY <1>2, <2>1, <3>1, CheckEnableType DEF OnClick
  <2>2. CASE Write
    BY <1>2, <2>2 DEF Write, Settings
  <2>3. CASE OnBrowseCertFile
    BY <1>2, <2>3 DEF OnBrowseCertFile, BrowseSelectFile, Settings, Places
  <2>4. CASE OnBrowseCaFile
    BY <1>2, <2>4 DEF OnBrowseCaFile, BrowseSelectFile, Settings, Places
  <2>5. CASE OnBrowseRootFolder
    BY <1>2, <2>5 DEF OnBrowseRootFolder, Settings
  <2> QED
    BY <2>1, <2>2, <2>3, <2>4, <2>5 DEF OnDialog
<1>4. SettingsTypeOK'
  <2>1. /\ sslsock' = sslsock /\ ctx' = ctx /\ contexts' = contexts /\ cert' = cert
        /\ root' = root /\ auth_user' = auth_user /\ auth_pwd' = auth_pwd
        /\ serving' = serving /\ shown' = shown
    BY <1>1
  <2> QED
    BY <1>3, <2>1 DEF SettingsIInv, SettingsTypeOK
<1>5. (contexts = One(ctx))' /\ ServesAsShown' /\ NotOpen' /\ RootAsShown'
  BY <1>1 DEF SettingsIInv, One, ServesAsShown, NotOpen, RootAsShown
<1> QED
  BY <1>3, <1>4, <1>5 DEF SettingsIInv

NoTls == [sslsock |-> FALSE, ctx |-> NoCtx, contexts |-> 0]

\* SetSSL(false) leaves nothing of an earlier start, whatever that was, and so
\* the certificate can be set.
LEMMA StartsAfresh ==
    SettingsIInv => SetSSLFalse = NoTls /\ (OnStartBegin => cert' = CertFile)
BY DEF SettingsIInv, SetSSLFalse, One, NoTls, OnStartBegin, UseCertificate

\* SetSSL(true) then leaves one context, or none when there is no memory, and
\* when it succeeds, one with all that was asked for.
LEMMA SetSSLTrueResult ==
    ASSUME NEW file \in Certs, NEW ca \in CaFiles, NEW r \in SetSSLTrue(NoTls, file, ca)
    PROVE  /\ r.s.sslsock \in BOOLEAN
           /\ r.s.ctx \in [verify : CaFiles, cert : Certs \cup {"missing", "none"}]
           /\ r.s.contexts \in Nat
           /\ r.s.contexts = One(r.s.ctx)
           /\ r.rc => /\ r.s.sslsock = TRUE /\ r.s.contexts = 1
                      /\ r.s.ctx = [verify |-> ca, cert |-> file]
<1> DEFINE New(v, c) == [sslsock |-> TRUE, ctx |-> [verify |-> v, cert |-> c],
                         contexts |-> 1]
<1>1. \A v \in CaFiles, c \in Certs \cup {"missing"} :
         /\ New(v, c).ctx \in [verify : CaFiles, cert : Certs \cup {"missing", "none"}]
         /\ New(v, c).ctx # NoCtx
  BY SettingsAssumption DEF NoCtx
<1>2. NoTls.contexts + 1 = 1
  BY DEF NoTls
<1>3. \/ r = [rc |-> TRUE, s |-> New(ca, file)]
      \/ r = [rc |-> FALSE, s |-> NoTls]
      \/ r = [rc |-> FALSE, s |-> New(ca, "missing")]
      \/ r = [rc |-> FALSE, s |-> New(NoCa, "missing")]
  <2>1. [NoTls EXCEPT !.ctx = NoCtx] = NoTls
    <3>1. \A a, c, n : [[sslsock |-> a, ctx |-> c, contexts |-> n] EXCEPT !.ctx = c]
                          = [sslsock |-> a, ctx |-> c, contexts |-> n]
      OBVIOUS
    <3> QED
      BY <3>1 DEF NoTls
  <2>2. SetSSLTrue(NoTls, file, ca) \subseteq
            {[rc |-> TRUE, s |-> New(ca, file)], [rc |-> FALSE, s |-> NoTls],
             [rc |-> FALSE, s |-> New(ca, "missing")],
             [rc |-> FALSE, s |-> New(NoCa, "missing")]}
    <3> HIDE DEF NoTls
    <3> QED
      BY <1>2, <2>1, Zenon DEF SetSSLTrue
  <2> QED
    BY <2>2
<1>4. CASE r = [rc |-> FALSE, s |-> NoTls]
  BY <1>4, SettingsAssumption DEF NoTls, NoCtx, One
<1>5. CASE r = [rc |-> TRUE, s |-> New(ca, file)]
  BY <1>1, <1>5 DEF One
<1>6. CASE r = [rc |-> FALSE, s |-> New(ca, "missing")]
  BY <1>1, <1>6 DEF One
<1>7. CASE r = [rc |-> FALSE, s |-> New(NoCa, "missing")]
  BY <1>1, <1>7, SettingsAssumption DEF One
<1> QED
  BY <1>3, <1>4, <1>5, <1>6, <1>7

\* What is read off the dialog.
LEMMA DialogValues ==
    ASSUME SettingsIInv
    PROVE  CertFile \in Certs /\ CaFile \in CaFiles
BY SettingsAssumption DEF SettingsIInv, SettingsTypeOK, Settings, CertFile, CaFile

\* A start that is refused for want of a CA, or fails on a file, leaves no
\* context but the one that _ctx has.
LEMMA StartFailsIInv == SettingsIInv /\ (OnStartNoCa \/ OnStartNotLoaded) => SettingsIInv'
<1> SUFFICES ASSUME SettingsIInv, OnStartNoCa \/ OnStartNotLoaded PROVE SettingsIInv'
  OBVIOUS
<1>1. /\ ~serving /\ serving' = FALSE /\ cert' \in Certs
      /\ widgets' = widgets /\ chosen' = chosen /\ cwd' = cwd /\ root' = root
      /\ auth_user' = auth_user /\ auth_pwd' = auth_pwd /\ shown' = shown
  <2>1. OnStartBegin
    BY DEF OnStartNoCa, OnStartNotLoaded
  <2>2. ~serving /\ serving' = serving
    BY <2>1 DEF OnStartBegin, OnStartNoCa, OnStartNotLoaded
  <2>3. serving \in BOOLEAN
    BY DEF SettingsIInv, SettingsTypeOK
  <2> QED
    BY <2>1, <2>2, <2>3, StartsAfresh, DialogValues
    DEF OnStartBegin, OnStartNoCa, OnStartNotLoaded
<1>2. /\ sslsock' \in BOOLEAN
      /\ ctx' \in [verify : CaFiles, cert : Certs \cup {"missing", "none"}]
      /\ contexts' \in Nat /\ contexts' = One(ctx')
  <2>1. CASE OnStartNoCa
    <3>1. sslsock' = NoTls.sslsock /\ ctx' = NoTls.ctx /\ contexts' = NoTls.contexts
      BY <2>1, StartsAfresh DEF OnStartNoCa, SetSSL
    <3>2. sslsock' = FALSE /\ ctx' = NoCtx /\ contexts' = 0
      BY <3>1 DEF NoTls
    <3> QED
      BY <3>2, SettingsAssumption DEF NoCtx, One
  <2>2. CASE OnStartNotLoaded
    <3>1. PICK r \in SetSSLTrue(SetSSLFalse, cert', CaFile) : SetSSL(r.s)
      BY <2>2 DEF OnStartNotLoaded
    <3>2. PICK file \in Certs : file = cert'
      BY <1>1
    <3>3. r \in SetSSLTrue(NoTls, file, CaFile)
      BY <3>1, <3>2, StartsAfresh
    <3>4. PICK ca \in CaFiles : ca = CaFile
      BY DialogValues
    <3> QED
      BY <3>1, <3>3, <3>4, SetSSLTrueResult DEF SetSSL
  <2> QED
    BY <2>1, <2>2
<1>3. SettingsTypeOK'
  BY <1>1, <1>2 DEF SettingsIInv, SettingsTypeOK
<1> QED
  BY <1>1, <1>2, <1>3 DEF SettingsIInv, ServesAsShown, NotOpen, RootAsShown

\* What the socket and the root directory are after a start that succeeds.
LEMMA StartServesResult ==
    ASSUME SettingsIInv, OnStartServes
    PROVE  /\ sslsock' = widgets.ssl
           /\ contexts' = (IF widgets.ssl THEN 1 ELSE 0) /\ contexts' = One(ctx')
           /\ ctx' \in [verify : CaFiles, cert : Certs \cup {"missing", "none"}]
           /\ widgets.ssl => ctx' = [verify |-> CaFile, cert |-> CertFile]
<1>1. OnStartBegin /\ CertFile \in Certs /\ CaFile \in CaFiles
  BY DialogValues DEF OnStartServes
<1>2. SetSSLFalse = NoTls /\ cert' = CertFile
  BY <1>1, StartsAfresh
<1>3. widgets.ssl \in BOOLEAN
  BY DEF SettingsIInv, SettingsTypeOK, Settings
<1>4. CASE widgets.ssl
  <2>1. PICK r \in SetSSLTrue(SetSSLFalse, cert', CaFile) : r.rc /\ SetSSL(r.s)
    BY <1>4 DEF OnStartServes
  <2>2. PICK file \in Certs : file = cert'
    BY <1>1, <1>2
  <2>3. PICK ca \in CaFiles : ca = CaFile
    BY <1>1
  <2>4. r \in SetSSLTrue(NoTls, file, ca)
    BY <2>1, <2>2, <2>3, <1>2
  <2> QED
    BY <1>2, <1>3, <1>4, <2>1, <2>2, <2>3, <2>4, SetSSLTrueResult DEF SetSSL
<1>5. CASE ~widgets.ssl
  <2>1. sslsock' = NoTls.sslsock /\ ctx' = NoTls.ctx /\ contexts' = NoTls.contexts
    BY <1>2, <1>5 DEF OnStartServes, SetSSL
  <2>2. sslsock' = FALSE /\ ctx' = NoCtx /\ contexts' = 0
    BY <2>1 DEF NoTls
  <2> QED
    BY <1>3, <1>5, <2>2, SettingsAssumption DEF NoCtx, One
<1> QED
  BY <1>3, <1>4, <1>5

\* The root directory of a start: the place shown, seen from the working
\* directory, in which the process is to be and, afterwards, still is.
LEMMA StartRoot ==
    ASSUME SettingsIInv, SetRootDir(RootName)
    PROVE  /\ cwd' = chosen' /\ cwd' \in Places /\ root' \in Places
           /\ root' = CASE widgets.root_dir \in Dirs -> widgets.root_dir
                       [] widgets.root_dir = "sub" /\ chosen \in WithSub -> Sub(chosen)
                       [] OTHER -> chosen
<1>1. cwd = chosen /\ cwd \in Places /\ widgets.root_dir \in {"empty", ".", "sub"} \cup Dirs
  BY DEF SettingsIInv, SettingsTypeOK, Settings
<1>2. root' = IF RootName \in Dirs THEN RootName ELSE Chdir(RootName)
  BY DEF SetRootDir
<1>3. Chdir(RootName) \in Places /\ cwd' = chosen' /\ cwd' \in Places
  BY <1>1, SettingsAssumption DEF SetRootDir, Chdir, Places
<1>4. CASE widgets.root_dir \in Dirs
  BY <1>1, <1>2, <1>4, SettingsAssumption DEF SetRootDir, RootName, Places
<1>5. CASE widgets.root_dir = "sub"
  BY <1>1, <1>2, <1>5, SettingsAssumption DEF SetRootDir, RootName, Places, Chdir
<1>6. CASE widgets.root_dir \in {"empty", "."}
  BY <1>1, <1>2, <1>6, SettingsAssumption DEF SetRootDir, RootName, Places, Chdir
<1> QED
  BY <1>1, <1>3, <1>4, <1>5, <1>6

\* A start that succeeds sets everything that the invariant speaks of from the
\* dialog; the server it starts, if it gets the port, is the one shown.
LEMMA StartServesIInv == SettingsIInv /\ OnStartServes => SettingsIInv'
<1> SUFFICES ASSUME SettingsIInv, OnStartServes PROVE SettingsIInv'
  OBVIOUS
<1>1. /\ ~serving /\ cert' = CertFile /\ CertFile \in Certs /\ ~NeedsCa
      /\ widgets' = widgets /\ SetRootDir(RootName)
      /\ auth_user' = IF ByPassword THEN widgets.user ELSE NoUser
      /\ auth_pwd' = IF ByPassword THEN widgets.password ELSE NoPassword
  BY StartsAfresh, DialogValues DEF OnStartServes, OnStartBegin
<1>2. /\ widgets \in Settings /\ (widgets.ssl \/ widgets.basic) /\ cwd = chosen
      /\ chosen \in Places /\ serving \in BOOLEAN /\ shown \in [widgets : Settings, chosen : Places]
  BY DEF SettingsIInv, SettingsTypeOK
<1>3. \/ serving' = TRUE /\ shown' = [widgets |-> widgets, chosen |-> chosen]
      \/ serving' = FALSE /\ shown' = shown
  BY <1>1, <1>2 DEF OnStartServes
<1>4. auth_user' \in Users /\ auth_pwd' \in Passwords
  BY <1>1, <1>2, SettingsAssumption DEF Settings
<1>5. serving' \in BOOLEAN /\ shown' \in [widgets : Settings, chosen : Places]
  <2>1. [widgets |-> widgets, chosen |-> chosen] \in [widgets : Settings, chosen : Places]
    BY <1>2
  <2>2. serving' \in BOOLEAN
    BY <1>3
  <2> QED
    BY <1>2, <1>3, <2>1, <2>2, Zenon
<1>6. sslsock' \in BOOLEAN /\ contexts' \in Nat
  BY <1>2, StartServesResult DEF Settings
<1>7. SettingsTypeOK'
  <2>1. /\ widgets' \in Settings /\ cwd' \in Places /\ chosen' \in Places
        /\ cert' \in Certs /\ root' \in Places
        /\ ctx' \in [verify : CaFiles, cert : Certs \cup {"missing", "none"}]
    BY <1>1, <1>2, StartServesResult, StartRoot
  <2> QED
    BY <1>4, <1>5, <1>6, <2>1 DEF SettingsTypeOK
<1>8. ASSUME serving'
      PROVE  ServesAsShown' /\ NotOpen' /\ RootAsShown'
  <2>1. shown'.widgets = widgets /\ shown'.chosen = chosen
    BY <1>3, <1>8
  <2>2. ServesAsShown'
    BY <1>1, <1>2, <2>1, StartServesResult
    DEF ServesAsShown, CaFile, CertFile, ByPassword, Settings
  <2>3. NotOpen'
    BY <1>1, <1>2, <2>1, StartServesResult
    DEF NotOpen, CaFile, ByPassword, NeedsCa, Settings
  <2>4. RootAsShown'
    BY <1>1, <2>1, StartRoot DEF RootAsShown
  <2> QED
    BY <2>2, <2>3, <2>4
<1>9. ServesAsShown' /\ NotOpen' /\ RootAsShown'
  BY <1>8 DEF ServesAsShown, NotOpen, RootAsShown
<1> QED
  BY <1>1, <1>2, <1>7, <1>9, StartServesResult, StartRoot DEF SettingsIInv

\* Stopping the server leaves its settings as they are.
LEMMA StopServingIInv == SettingsIInv /\ OnStopServing => SettingsIInv'
<1> SUFFICES ASSUME SettingsIInv, OnStopServing PROVE SettingsIInv'
  OBVIOUS
<1>1. /\ serving' = FALSE /\ shown' = NotShown /\ widgets' = widgets
      /\ cwd' = cwd /\ chosen' = chosen /\ sslsock' = sslsock /\ ctx' = ctx
      /\ contexts' = contexts /\ cert' = cert /\ root' = root
      /\ auth_user' = auth_user /\ auth_pwd' = auth_pwd
  BY DEF OnStopServing, dialog
<1>2. shown' \in [widgets : Settings, chosen : Places]
  BY <1>1, SettingsAssumption DEF NotShown, Defaults, Settings, Places
<1>3. SettingsTypeOK'
  BY <1>1, <1>2 DEF SettingsIInv, SettingsTypeOK
<1> QED
  BY <1>1, <1>3 DEF SettingsIInv, ServesAsShown, NotOpen, RootAsShown, One

\* The invariant holds in every state.
LEMMA SettingsInvariance == SettingsSpec => []SettingsIInv
<1>1. SettingsIInv /\ [SettingsNext]_settings => SettingsIInv'
  <2>1. SettingsIInv /\ UNCHANGED settings => SettingsIInv'
    BY DEF SettingsIInv, SettingsTypeOK, ServesAsShown, NotOpen, RootAsShown,
           One, settings, dialog, server
  <2> QED
    BY <2>1, DialogIInv, StartFailsIInv, StartServesIInv, StopServingIInv
    DEF SettingsNext
<1> QED
  BY <1>1, SettingsInitIInv, PTL DEF SettingsSpec

\* Every setting keeps its type, whatever the user does and the files are.
THEOREM SettingsTypes == SettingsSpec => []SettingsTypeOK
BY SettingsInvariance, PTL DEF SettingsIInv

\* However often, and however unsuccessfully, the server was started before: it
\* runs with the TLS context, the certificates and the user and password shown
\* when it was started.
THEOREM RunsAsShown == SettingsSpec => []ServesAsShown
BY SettingsInvariance, PTL DEF SettingsIInv

\* A server started with authentication asks each client for a certificate or
\* for a user name, unless the user name shown is empty.
THEOREM NotLeftOpen == SettingsSpec => []NotOpen
BY SettingsInvariance, PTL DEF SettingsIInv

\* The root directory is the one shown, seen from where the user left the
\* process, and not from where an earlier start did, unless that could not
\* change back.
THEOREM RootShown == SettingsSpec => []RootAsShown
BY SettingsInvariance, PTL DEF SettingsIInv

\* Between two steps there is one SSL_CTX at most: no start leaks one.
THEOREM OneContext == SettingsSpec => [](contexts = One(ctx))
BY SettingsInvariance, PTL DEF SettingsIInv
=============================================================================
