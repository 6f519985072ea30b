----------------------------- MODULE HttpServer -----------------------------
(***************************************************************************)
(* The life of the server: the dialog's main thread (main.cpp), which      *)
(* starts and stops it; the accept thread (HttpSrv, common/http_srv.cpp),  *)
(* which accepts connections and owns the list _clients; and one worker    *)
(* thread per connection (HttpSrv::HttpResponse).  Both kinds of thread    *)
(* are PThread objects; module PThread has the details of their creation   *)
(* and end that are single steps here.                                     *)
(*                                                                         *)
(* A member of Workers stands for a connection, the HttpResponse object    *)
(* that serves it and that object's thread; it is used again once all      *)
(* three are gone.                                                         *)
(***************************************************************************)
EXTENDS Naturals, FiniteSets

CONSTANTS
    Workers,
    NoWorker,
    ReapThreshold,  \* 20 in the code
    Mutexes,        \* _log_mutex and _cs_mutex
    LogMutex,       \* _log_mutex
    NoMutex

ASSUME ServerAssumption ==
    /\ NoWorker \notin Workers
    /\ LogMutex \in Mutexes
    /\ NoMutex \notin Mutexes
    /\ ReapThreshold \in Nat

VARIABLES
    gpc,        \* where the main thread is: see GuiStates
    startOn,    \* the Start button is enabled
    ssl,        \* _srv._sslsock of this run
    handle,     \* HttpSrv's _tid is not 0
    running,    \* HttpSrv's _running
    cancelled,  \* the accept thread was sent a cancellation
    spc,        \* where the accept thread is: see ServerStates
    listening,  \* _srv._sock is open
    clients,    \* _clients, whose order nothing depends on
    rest,       \* the clients a loop over _clients has still to visit
    tasks,      \* the HttpResponse objects that are allocated
    cur,        \* the worker the accept thread is busy with, if any
    wpc,        \* where each worker thread is: see WorkerStates
    wrunning,   \* the worker's _running
    wcancel,    \* the worker was sent a cancellation
    conn,       \* the socket of each connection: see ConnStates
    mutex,      \* each mutex: "free", "held" by a worker or "abandoned" by one
    wants,      \* the mutex a worker waits for or holds, if any
    yields,     \* the mutexes under which a cancellation point is executed
    aborted     \* the C++ run time has ended the process

guiVars    == <<gpc, startOn, ssl>>
flagVars   == <<handle, running, cancelled>>
listVars   == <<clients, rest, cur>>
serverVars == <<flagVars, spc, listening, listVars>>
threadVars == <<wpc, wrunning, wcancel>>
workerVars == <<tasks, threadVars, conn>>
lockVars   == <<mutex, wants>>
procVars   == <<lockVars, yields, aborted>>
vars       == <<guiVars, serverVars, workerVars, procVars>>

GuiStates ==
    {"idle",        \* in the event loop
     "configure",   \* OnStart, changing the server object
     "started",     \* OnStart, after Start and during the 100 ms sleep
     "logStart",    \* OnStart, about to log that the server runs
     "logError",    \* OnStart, about to log that it does not
     "stopJoin",    \* OnStop, joining the accept thread
     "logStop",     \* OnStop, about to log "Server stopped"
     "closeJoin",   \* OnClose, joining the accept thread
     "logClose",    \* OnClose, about to log "Server stopped"
     "exited"}      \* exit(0)

ServerStates ==
    {"none",        \* no accept thread
     "begin",       \* Run, before and in StartServer
     "setup",       \* Run, rebuilding _page_handlers
     "accept",      \* in ClientAccept, waiting
     "tls",         \* in ClientAccept, in SSL_accept with cur
     "reap",        \* in remove_if
     "reapJoin",    \* in remove_if, joining cur
     "stop",        \* exit handler, before StopServer
     "visit",       \* OnExit, between two deletes
     "stopJoin",    \* OnExit, joining cur
     "exited"}      \* past SetRunning(false), not joined

WorkerStates ==
    {"none",
     "failed",      \* the object exists, pthread_create failed
     "serve",       \* in Run, at or near a cancellation point
     "wait",        \* in Run, blocked on a mutex
     "hold",        \* in Run, holding a mutex
     "handler",     \* in exit_handler, up to SetRunning(false)
     "tail",        \* past it, still reads the object
     "exited"}      \* terminated, not joined

ConnStates ==
    {"none",        \* no socket, or closed
     "open",
     "unserved",    \* open, accepted for a thread that could not be created
     "interrupted"} \* open, its handshake was cut off by a cancellation

Serving(w) == wpc[w] \in {"serve", "wait", "hold", "handler"}

\* exit(0) and std::terminate end every thread.
Alive == gpc # "exited" /\ ~aborted

Init ==
    /\ gpc = "idle" /\ startOn = TRUE /\ ssl = FALSE
    /\ handle = FALSE /\ running = FALSE /\ cancelled = FALSE
    /\ spc = "none" /\ listening = FALSE
    /\ clients = {} /\ rest = {} /\ tasks = {}
    /\ cur = NoWorker
    /\ wpc = [w \in Workers |-> "none"]
    /\ wrunning = [w \in Workers |-> FALSE]
    /\ wcancel = [w \in Workers |-> FALSE]
    /\ conn = [w \in Workers |-> "none"]
    /\ mutex = [m \in Mutexes |-> "free"]
    /\ wants = [w \in Workers |-> NoMutex]
    /\ yields \in SUBSET Mutexes
    /\ aborted = FALSE

-----------------------------------------------------------------------------
(* The main thread.  Log takes _log_mutex, and the main thread is never     *)
(* cancelled: each of its calls of Log is one step, taken when it can.      *)

CanLog == mutex[LogMutex] = "free"

\* OnStart: SetServerAddress, SetServerPort, SetSSL and UseCertificate change
\* the server object that the accept thread and its workers read.
OnStart ==
    /\ Alive /\ gpc = "idle" /\ startOn
    /\ gpc' = "configure"
    /\ UNCHANGED <<startOn, ssl, serverVars, workerVars, procVars>>

\* A certificate cannot be loaded, or none is given: a message, and return.
\* SetSSL sets _sslsock all the same.
OnStartRejected ==
    /\ Alive /\ gpc = "configure"
    /\ gpc' = "idle"
    /\ ssl' \in BOOLEAN
    /\ UNCHANGED <<startOn, serverVars, workerVars, procVars>>

\* Start creates the accept thread and raises _running before it returns.
OnStartCreates ==
    /\ Alive /\ gpc = "configure" /\ ~running
    /\ gpc' = "started"
    /\ ssl' \in BOOLEAN
    /\ handle' = TRUE /\ running' = TRUE /\ cancelled' = FALSE
    /\ spc' = "begin"
    /\ UNCHANGED <<startOn, listening, listVars, workerVars, procVars>>

\* Start is refused, or pthread_create fails; OnStart ignores the result.
OnStartNoThread ==
    /\ Alive /\ gpc = "configure"
    /\ gpc' = "started"
    /\ ssl' \in BOOLEAN
    /\ UNCHANGED <<startOn, serverVars, workerVars, procVars>>

\* Fault: the dialog asks whether the socket listens, not whether Run does.
OnStartCheckSocket ==
    /\ Alive /\ gpc = "started"
    /\ gpc' = IF listening THEN "logStart" ELSE "logError"
    /\ UNCHANGED <<startOn, ssl, serverVars, workerVars, procVars>>

\* The IsRunning() that follows the sleep, however far Run has got by then.
OnStartCheck ==
    /\ Alive /\ gpc = "started"
    /\ gpc' = IF running THEN "logStart" ELSE "logError"
    /\ UNCHANGED <<startOn, ssl, serverVars, workerVars, procVars>>

OnStartDone ==
    /\ Alive /\ gpc \in {"logStart", "logError"} /\ CanLog
    /\ gpc' = "idle"
    /\ startOn' = IF gpc = "logStart" THEN FALSE ELSE startOn
    /\ UNCHANGED <<ssl, serverVars, workerVars, procVars>>

\* Fault: OnStop waits for the accept thread without cancelling it.
OnStopUncancelled ==
    /\ Alive /\ gpc = "idle" /\ ~startOn
    /\ gpc' = IF handle THEN "stopJoin" ELSE "logStop"
    /\ UNCHANGED <<startOn, ssl, serverVars, workerVars, procVars>>

\* End, up to pthread_join.
OnStop ==
    /\ Alive /\ gpc = "idle" /\ ~startOn
    /\ gpc' = IF handle THEN "stopJoin" ELSE "logStop"
    /\ cancelled' = (cancelled \/ (handle /\ running))
    /\ UNCHANGED <<startOn, ssl, handle, running, spc, listening, listVars,
                   workerVars, procVars>>

\* OnClose ends a running server as OnStop does; otherwise it just exits.
OnClose ==
    /\ Alive /\ gpc = "idle"
    /\ gpc' = IF running THEN "closeJoin" ELSE "exited"
    /\ cancelled' = (cancelled \/ running)
    /\ UNCHANGED <<startOn, ssl, handle, running, spc, listening, listVars,
                   workerVars, procVars>>

\* Fault: End cancels and does not join.
JoinedAtOnce ==
    /\ Alive /\ gpc \in {"stopJoin", "closeJoin"}
    /\ gpc' = IF gpc = "stopJoin" THEN "logStop" ELSE "logClose"
    /\ handle' = FALSE
    /\ UNCHANGED <<startOn, ssl, running, cancelled, spc, listening, listVars,
                   workerVars, procVars>>

\* pthread_join returns; the Wait that follows finds _tid = 0.
Joined ==
    /\ Alive /\ gpc \in {"stopJoin", "closeJoin"} /\ spc = "exited"
    /\ gpc' = IF gpc = "stopJoin" THEN "logStop" ELSE "logClose"
    /\ handle' = FALSE
    /\ spc' = "none"
    /\ UNCHANGED <<startOn, ssl, running, cancelled, listening, listVars,
                   workerVars, procVars>>

OnStopDone ==
    /\ Alive /\ gpc = "logStop" /\ CanLog
    /\ gpc' = "idle"
    /\ startOn' = TRUE
    /\ UNCHANGED <<ssl, serverVars, workerVars, procVars>>

OnCloseDone ==
    /\ Alive /\ gpc = "logClose" /\ CanLog
    /\ gpc' = "exited"
    /\ UNCHANGED <<startOn, ssl, serverVars, workerVars, procVars>>

-----------------------------------------------------------------------------
(* The accept thread: HttpSrv::Run. *)

\* StartServer binds and listens; it fails while the previous socket is open.
StartServer ==
    /\ Alive /\ spc = "begin" /\ ~listening
    /\ listening' = TRUE
    /\ spc' = "setup"
    /\ UNCHANGED <<guiVars, flagVars, listVars, workerVars, procVars>>

\* Run returns, and the exit handler follows.
StartServerFails ==
    /\ Alive /\ spc = "begin"
    /\ spc' = "stop"
    /\ UNCHANGED <<guiVars, flagVars, listening, listVars, workerVars,
                   procVars>>

\* _page_handlers.clear() and Setup(), without a lock that works: the
\* "handlers" label cannot be plugged into a thread that is running.
SetupHandlers ==
    /\ Alive /\ spc = "setup"
    /\ spc' = "accept"
    /\ UNCHANGED <<guiVars, flagVars, listening, listVars, workerVars,
                   procVars>>

\* What the loop does after ClientAccept has returned, with cs the clients.
EndOfIteration(cs) ==
    /\ clients' = cs
    /\ IF Cardinality(cs) > ReapThreshold
          THEN spc' = "reap" /\ rest' = cs
          ELSE spc' = "accept" /\ rest' = {}

\* new HttpResponse, push_back, Start: no cancellation point in between.
Serve(w) ==
    /\ tasks' = tasks \cup {w}
    /\ \/ /\ wpc' = [wpc EXCEPT ![w] = "serve"]
          /\ wrunning' = [wrunning EXCEPT ![w] = TRUE]
          /\ conn' = [conn EXCEPT ![w] = "open"]
       \/ /\ wpc' = [wpc EXCEPT ![w] = "failed"]      \* no thread, no _conn
          /\ conn' = [conn EXCEPT ![w] = "unserved"]
          /\ UNCHANGED wrunning
    /\ wcancel' = [wcancel EXCEPT ![w] = FALSE]
    /\ EndOfIteration(clients \cup {w})

Unused(w) == w \notin tasks /\ wpc[w] = "none" /\ conn[w] = "none"

\* accept returns a connection of a plain server.
Accept(w) ==
    /\ Alive /\ spc = "accept" /\ ~ssl /\ Unused(w)
    /\ Serve(w)
    /\ UNCHANGED <<guiVars, flagVars, listening, cur, procVars>>

\* accept returns a connection of a TLS server; the handshake is done here,
\* blocking, by the accept thread.
AcceptTls(w) ==
    /\ Alive /\ spc = "accept" /\ ssl /\ Unused(w)
    /\ conn' = [conn EXCEPT ![w] = "open"]
    /\ cur' = w
    /\ spc' = "tls"
    /\ UNCHANGED <<guiVars, flagVars, listening, clients, rest, tasks,
                   threadVars, procVars>>

TlsAccepted ==
    /\ Alive /\ spc = "tls"
    /\ Serve(cur)
    /\ cur' = NoWorker
    /\ UNCHANGED <<guiVars, flagVars, listening, procVars>>

\* The handshake fails or times out: the socket is closed.
TlsRejected ==
    /\ Alive /\ spc = "tls"
    /\ conn' = [conn EXCEPT ![cur] = "none"]
    /\ cur' = NoWorker
    /\ EndOfIteration(clients)
    /\ UNCHANGED <<guiVars, flagVars, listening, tasks, threadVars, procVars>>

\* Fault: the loop goes back to ClientAccept at once when nobody connected.
AcceptTimeoutContinues ==
    /\ Alive /\ spc = "accept"
    /\ UNCHANGED vars

\* poll times out after a second, or fails.
AcceptTimeout ==
    /\ Alive /\ spc = "accept"
    /\ EndOfIteration(clients)
    /\ UNCHANGED <<guiVars, flagVars, listening, cur, workerVars, procVars>>

-----------------------------------------------------------------------------
(* remove_if(Terminated) *)

\* Terminated returns false for a worker that is running.
ReapKeeps(w) ==
    /\ Alive /\ spc = "reap" /\ w \in rest /\ wrunning[w]
    /\ rest' = rest \ {w}
    /\ UNCHANGED <<guiVars, flagVars, spc, listening, clients, cur, workerVars,
                   procVars>>

\* Terminated deletes one that is not; the End in its destructor joins.
ReapDeletes(w) ==
    /\ Alive /\ spc = "reap" /\ w \in rest /\ ~wrunning[w]
    /\ cur' = w
    /\ spc' = "reapJoin"
    /\ UNCHANGED <<guiVars, flagVars, listening, clients, rest, workerVars,
                   procVars>>

\* Fault: a worker that is not running is deleted without a join.
DestroyUnjoined ==
    /\ tasks' = tasks \ {cur}
    /\ UNCHANGED <<threadVars, conn>>

\* pthread_join of cur returns, or there is no thread to join, and the memory
\* of the object is released.
Destroy ==
    /\ wpc[cur] \in {"exited", "failed"}
    /\ tasks' = tasks \ {cur}
    /\ wpc' = [wpc EXCEPT ![cur] = "none"]
    /\ UNCHANGED <<wrunning, wcancel, conn>>

ReapJoined ==
    /\ Alive /\ spc = "reapJoin"
    /\ Destroy
    /\ clients' = clients \ {cur}
    /\ rest' = rest \ {cur}
    /\ cur' = NoWorker
    /\ spc' = "reap"
    /\ UNCHANGED <<guiVars, flagVars, listening, procVars>>

ReapDone ==
    /\ Alive /\ spc = "reap" /\ rest = {}
    /\ spc' = "accept"
    /\ UNCHANGED <<guiVars, flagVars, listening, listVars, workerVars,
                   procVars>>

\* A cancellation acted upon while the join blocks unwinds a destructor, which
\* is noexcept: std::terminate.
ReapCancelled ==
    /\ Alive /\ spc = "reapJoin" /\ cancelled /\ wpc[cur] = "tail"
    /\ aborted' = TRUE
    /\ UNCHANGED <<guiVars, serverVars, workerVars, lockVars, yields>>

-----------------------------------------------------------------------------
(* The end of the accept thread: the exit handler, and in it OnExit.  No     *)
(* further cancellation is delivered to the thread.                          *)

\* The cancellation is acted upon in getaddrinfo, poll, accept or SSL_accept;
\* in the last case nobody is left to close the socket, which stays open.
ServerCancelled ==
    /\ Alive /\ cancelled /\ spc \in {"begin", "accept", "tls"}
    /\ conn' = IF spc = "tls" THEN [conn EXCEPT ![cur] = "interrupted"] ELSE conn
    /\ cur' = NoWorker
    /\ spc' = "stop"
    /\ UNCHANGED <<guiVars, flagVars, listening, clients, rest, tasks,
                   threadVars, procVars>>

\* Fault: OnExit clears the list and leaves the workers to themselves.
StopServerForgets ==
    /\ Alive /\ spc = "stop"
    /\ listening' = FALSE
    /\ rest' = {}
    /\ spc' = "visit"
    /\ UNCHANGED <<guiVars, flagVars, clients, cur, workerVars, procVars>>

StopServer ==
    /\ Alive /\ spc = "stop"
    /\ listening' = FALSE
    /\ rest' = clients
    /\ spc' = "visit"
    /\ UNCHANGED <<guiVars, flagVars, clients, cur, workerVars, procVars>>

\* delete (*it), up to pthread_join.
StopDeletes(w) ==
    /\ Alive /\ spc = "visit" /\ w \in rest
    /\ wcancel' = [wcancel EXCEPT ![w] = wrunning[w]]
    /\ cur' = w
    /\ spc' = "stopJoin"
    /\ UNCHANGED <<guiVars, flagVars, listening, clients, rest, tasks, wpc,
                   wrunning, conn, procVars>>

StopJoined ==
    /\ Alive /\ spc = "stopJoin"
    /\ Destroy
    /\ rest' = rest \ {cur}
    /\ cur' = NoWorker
    /\ spc' = "visit"
    /\ UNCHANGED <<guiVars, flagVars, listening, clients, procVars>>

\* _clients.clear() and SetRunning(false).
ServerExits ==
    /\ Alive /\ spc = "visit" /\ rest = {}
    /\ clients' = {}
    /\ running' = FALSE
    /\ spc' = "exited"
    /\ UNCHANGED <<guiVars, handle, cancelled, listening, rest, cur,
                   workerVars, procVars>>

-----------------------------------------------------------------------------
(* A worker: HttpResponse::Run.  What it does between two requests for a     *)
(* mutex is one state; module Connection has the requests themselves.        *)

\* pthread_mutex_lock, which is no cancellation point.
WantMutex(w, m) ==
    /\ Alive /\ wpc[w] = "serve"
    /\ wpc' = [wpc EXCEPT ![w] = "wait"]
    /\ wants' = [wants EXCEPT ![w] = m]
    /\ UNCHANGED <<guiVars, serverVars, tasks, wrunning, wcancel, conn, mutex,
                   yields, aborted>>

TakeMutex(w) ==
    /\ Alive /\ wpc[w] = "wait" /\ mutex[wants[w]] = "free"
    /\ wpc' = [wpc EXCEPT ![w] = "hold"]
    /\ mutex' = [mutex EXCEPT ![wants[w]] = "held"]
    /\ UNCHANGED <<guiVars, serverVars, tasks, wrunning, wcancel, conn, wants,
                   yields, aborted>>

ReleaseMutex(w) ==
    /\ Alive /\ wpc[w] = "hold"
    /\ wpc' = [wpc EXCEPT ![w] = "serve"]
    /\ mutex' = [mutex EXCEPT ![wants[w]] = "free"]
    /\ wants' = [wants EXCEPT ![w] = NoMutex]
    /\ UNCHANGED <<guiVars, serverVars, tasks, wrunning, wcancel, conn, yields,
                   aborted>>

\* wxQueueEvent or readdir acts upon a cancellation: nobody unlocks the mutex.
CancelledHolding(w) ==
    /\ Alive /\ wpc[w] = "hold" /\ wcancel[w] /\ wants[w] \in yields
    /\ wpc' = [wpc EXCEPT ![w] = "handler"]
    /\ mutex' = [mutex EXCEPT ![wants[w]] = "abandoned"]
    /\ wants' = [wants EXCEPT ![w] = NoMutex]
    /\ UNCHANGED <<guiVars, serverVars, tasks, wrunning, wcancel, conn, yields,
                   aborted>>

\* A socket call or the 10 ms sleep acts upon a cancellation.
CancelledServing(w) ==
    /\ Alive /\ wpc[w] = "serve" /\ wcancel[w]
    /\ wpc' = [wpc EXCEPT ![w] = "handler"]
    /\ UNCHANGED <<guiVars, serverVars, tasks, wrunning, wcancel, conn,
                   procVars>>

\* The request loop ends, Run closes the connection and returns.
RunReturns(w) ==
    /\ Alive /\ wpc[w] = "serve"
    /\ wpc' = [wpc EXCEPT ![w] = "handler"]
    /\ conn' = [conn EXCEPT ![w] = "none"]
    /\ UNCHANGED <<guiVars, serverVars, tasks, wrunning, wcancel, procVars>>

\* Fault: OnExit does not delete the connection.
WorkerExitsOpen(w) ==
    /\ Alive /\ wpc[w] = "handler"
    /\ wrunning' = [wrunning EXCEPT ![w] = FALSE]
    /\ wpc' = [wpc EXCEPT ![w] = "tail"]
    /\ UNCHANGED <<guiVars, serverVars, tasks, wcancel, conn, procVars>>

\* exit_handler: OnExit deletes _conn, whose destructor closes the socket if
\* Run has not; then SetRunning(false).
WorkerExits(w) ==
    /\ Alive /\ wpc[w] = "handler"
    /\ conn' = [conn EXCEPT ![w] = "none"]
    /\ wrunning' = [wrunning EXCEPT ![w] = FALSE]
    /\ wpc' = [wpc EXCEPT ![w] = "tail"]
    /\ UNCHANGED <<guiVars, serverVars, tasks, wcancel, procVars>>

WorkerTail(w) ==
    /\ Alive /\ wpc[w] = "tail"
    /\ wpc' = [wpc EXCEPT ![w] = "exited"]
    /\ UNCHANGED <<guiVars, serverVars, tasks, wrunning, wcancel, conn,
                   procVars>>

-----------------------------------------------------------------------------
\* What the user does, and what the clients do.
User == OnStart \/ OnStop \/ OnClose

\* The main thread in the middle of a handler.
Gui ==
    \/ OnStartRejected \/ OnStartCreates \/ OnStartNoThread \/ OnStartCheck
    \/ OnStartDone \/ Joined \/ OnStopDone \/ OnCloseDone

Connects == \E w \in Workers : Accept(w) \/ AcceptTls(w)

\* The accept thread's own steps, a cancellation apart.
Server ==
    \/ StartServer \/ StartServerFails \/ SetupHandlers
    \/ TlsAccepted \/ TlsRejected \/ AcceptTimeout
    \/ \E w \in Workers : ReapKeeps(w) \/ ReapDeletes(w)
    \/ ReapJoined \/ ReapDone
    \/ StopServer
    \/ \E w \in Workers : StopDeletes(w)
    \/ StopJoined \/ ServerExits

Worker(w) ==
    \/ \E m \in Mutexes : WantMutex(w, m)
    \/ TakeMutex(w) \/ ReleaseMutex(w)
    \/ CancelledHolding(w) \/ CancelledServing(w)
    \/ RunReturns(w) \/ WorkerExits(w) \/ WorkerTail(w)

Next ==
    \/ User \/ Gui \/ Connects \/ Server
    \/ ServerCancelled \/ ReapCancelled
    \/ \E w \in Workers : Worker(w)

Spec == Init /\ [][Next]_vars

\* Every thread goes on, except that a worker may serve, and be silent, for
\* ever.  Strong fairness where a step is enabled now and then: a cancellation
\* is acted upon by a thread that keeps coming back to cancellation points,
\* and a thread that waits for a mutex gets it if it keeps being released.
Fairness ==
    /\ SF_vars(Gui)
    /\ WF_vars(Server) /\ SF_vars(ServerCancelled)
    /\ \A w \in Workers :
          /\ SF_vars(CancelledServing(w)) /\ SF_vars(TakeMutex(w))
          /\ WF_vars(ReleaseMutex(w))
          /\ WF_vars(WorkerExits(w)) /\ WF_vars(WorkerTail(w))

FairSpec == Spec /\ Fairness

-----------------------------------------------------------------------------
(* Properties. *)

TypeOK ==
    /\ gpc \in GuiStates /\ startOn \in BOOLEAN /\ ssl \in BOOLEAN
    /\ handle \in BOOLEAN /\ running \in BOOLEAN /\ cancelled \in BOOLEAN
    /\ spc \in ServerStates /\ listening \in BOOLEAN
    /\ clients \in SUBSET Workers /\ rest \in SUBSET Workers
    /\ tasks \in SUBSET Workers /\ cur \in Workers \cup {NoWorker}
    /\ wpc \in [Workers -> WorkerStates]
    /\ wrunning \in [Workers -> BOOLEAN] /\ wcancel \in [Workers -> BOOLEAN]
    /\ conn \in [Workers -> ConnStates]
    /\ mutex \in [Mutexes -> {"free", "held", "abandoned"}]
    /\ wants \in [Workers -> Mutexes \cup {NoMutex}]
    /\ yields \in SUBSET Mutexes /\ aborted \in BOOLEAN

\* No HttpResponse is touched after its deletion: not by its worker, although
\* remove_if deletes on the strength of a flag that the worker lowers before it
\* has finished with the object (http_srv.cpp 500, thread.cpp 70), and not by
\* the accept thread, which visits and deletes none that a loop has deleted
\* before.  _clients lists a deleted one only while OnExit goes through it,
\* until clear() (http_srv.cpp 273-275).
NoUseAfterFree ==
    /\ \A w \in Workers : Serving(w) \/ wpc[w] = "tail" => w \in tasks
    /\ rest \subseteq tasks
    /\ spc \in {"reapJoin", "stopJoin"} => cur \in tasks
    /\ spc \notin {"visit", "stopJoin"} => clients \subseteq tasks

\* While the server's _running is down there is no HttpResponse at all and the
\* port is free.  This is what lets Setup rebuild _page_handlers without a
\* lock, OnStart change the configuration, and exit(0) end the process.
QuietWhenStopped ==
    ~running => tasks = {} /\ clients = {} /\ ~listening

\* _page_handlers and the configuration change only while nobody can read
\* them: the accept thread is then not past Setup and no worker exists.
ChangesAlone ==
    /\ gpc = "configure" => spc \in {"none", "exited"}
    /\ gpc = "configure" \/ spc \in {"begin", "setup"} =>
          \A w \in Workers : ~Serving(w) /\ wpc[w] # "tail"

\* Every socket that was accepted and not closed is somebody's to close: its
\* worker's, until that has left its exit handler, or the accept thread's
\* during the handshake.  The code leaks two, which stay open until the process
\* ends: the one whose thread pthread_create does not create (http_srv.cpp
\* 253), and the one in whose SSL_accept the accept thread is cancelled
\* (srv_sock.cpp 155).  There are no others.
SocketsOwned ==
    \A w \in Workers :
        conn[w] # "none" =>
            \/ conn[w] = "open" /\ (Serving(w) \/ (spc = "tls" /\ cur = w))
            \/ conn[w] = "unserved" /\ wpc[w] \in {"failed", "none"}
            \/ conn[w] = "interrupted" /\ wpc[w] = "none" /\ w \notin tasks

\* In the event loop Start is offered only when the server is down, and a
\* running server can be stopped, however the 100 ms sleep of OnStart raced
\* with StartServer.
ButtonsTellTheTruth == gpc = "idle" /\ startOn => ~running

\* Stop and Close come to an end, unless the run time ended the process in
\* remove_if, or a worker was cancelled under a mutex that others then wait
\* for.
StopReturns ==
    gpc \in {"stopJoin", "closeJoin"} ~>
        \/ gpc \in {"idle", "exited"}
        \/ aborted
        \/ \E m \in yields : mutex[m] = "abandoned"

\* A finished worker's object and thread stay around only while no more than
\* ReapThreshold clients are listed, whether or not anybody connects, as long
\* as nobody stops the server.
FinishedAreReaped ==
    \A w \in Workers :
        (wpc[w] = "exited" /\ Cardinality(clients) > ReapThreshold) ~>
            \/ wpc[w] # "exited"
            \/ Cardinality(clients) <= ReapThreshold
            \/ cancelled

Session == INSTANCE ServerSession
               WITH Clients <- Workers, up <- running,
                    served <- {w \in Workers : Serving(w)}

\* The running flag the dialog relies on keeps ServerSession's promise.
ImplementsServerSession == Session!SSpec
=============================================================================
