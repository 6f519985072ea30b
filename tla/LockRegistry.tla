---------------------------- MODULE LockRegistry ----------------------------
(***************************************************************************)
(* The locks that PThread objects share (common/thread.cpp): a static map  *)
(* from the address of a datum to an rwlock and the number of objects that *)
(* have plugged the datum in, itself guarded by the rwlock _glock.         *)
(*                                                                         *)
(* The owner is HttpSrv's accept thread: it constructs a worker, plugs the *)
(* page handlers into it, starts it on a connection, which Start plugs in  *)
(* under the label "_default_", and destroys it.  A worker locks and       *)
(* unlocks the handlers, and deletes its connection when it exits, so that *)
(* the address can be that of a later connection while the map still has   *)
(* an entry for the earlier one.                                           *)
(*                                                                         *)
(* A cancellation is acted upon wherever it is enabled, as in the MinGW    *)
(* build (asynchronous); the other builds do so in fewer places.  A call   *)
(* that takes _glock and gives it back with cancellation disabled is one   *)
(* step.                                                                   *)
(***************************************************************************)
EXTENDS Naturals, FiniteSets

CONSTANTS
    Workers,    \* HttpResponse objects
    Conns,      \* addresses that a connection can have
    Handlers,   \* the address of _page_handlers
    Locks,      \* addresses that an rwlock can have
    NoLock, NoConn, NoWorker,
    Async       \* the owner too can be cancelled at any point (MinGW)

ASSUME LockRegistryAssumption ==
    /\ Handlers \notin Conns /\ NoConn \notin Conns
    /\ NoLock \notin Locks /\ NoWorker \notin Workers
    /\ Async \in BOOLEAN /\ IsFiniteSet(Workers)

Data == Conns \cup {Handlers}

\* There is always memory for another rwlock.
ASSUME LocksAssumption ==
    \A f \in [Data -> Locks \cup {NoLock}] :
        (\E d \in Data : f[d] = NoLock) =>
            \E l \in Locks : \A d \in Data : f[d] # l

VARIABLES
    plock,      \* _locks: the rwlock of a datum
    ref_count,  \* _locks: its ref_count, 0 when the datum has no entry
    hold,       \* how each worker holds each rwlock
    shared,     \* _shared: the data each object has plugged in
    locked,     \* _shared["handlers"].locked
    conn,       \* the connection that each worker serves
    pc,         \* where each worker is: see WorkerStates
    it,         \* the rwlock that find_plock gave to the worker's call
    mode,       \* "r" or "w": how that call locks
    cancel,     \* pthread_cancel was called on the worker
    opc,        \* where the owner is: see OwnerStates
    doomed      \* the worker that the owner is destroying

worker == <<conn, pc, it, mode>>
vars == <<plock, ref_count, hold, shared, locked, worker, cancel, opc, doomed>>

WorkerStates ==
    {"none",        \* no object
     "new",         \* constructed, the handlers plugged in, not started
     "run",         \* in Run, outside the calls below
     "wait",        \* in Lock, find_plock done, in pthread_rwlock_*lock
     "got",         \* in Lock, locked not yet set
     "held",        \* between Lock and Unlock
     "release",     \* in Unlock, find_plock done
     "released",    \* in Unlock, locked not yet reset
     "exit",        \* in exit_handler, before OnExit
     "unlock",      \* in exit_handler, at the loop over _shared
     "done"}        \* exit_handler is over

OwnerStates ==
    {"idle",        \* in the accept loop
     "join",        \* in End
     "remove",      \* in ~PThread, removing the data plugged in
     "abandoned"}   \* cancelled there while it held _glock

Init ==
    /\ plock = [d \in Data |-> NoLock]
    /\ ref_count = [d \in Data |-> 0]
    /\ hold = [l \in Locks |-> [w \in Workers |-> "no"]]
    /\ shared = [w \in Workers |-> {}]
    /\ locked = [w \in Workers |-> FALSE]
    /\ conn = [w \in Workers |-> NoConn]
    /\ pc = [w \in Workers |-> "none"]
    /\ it = [w \in Workers |-> NoLock]
    /\ mode = [w \in Workers |-> "r"]
    /\ cancel = [w \in Workers |-> FALSE]
    /\ opc = "idle" /\ doomed = NoWorker

\* _glock is free, or will be without anybody's help.
GlockFree == opc # "abandoned"

\* A new rwlock, at an address that may have been that of a deleted one.
new_lock == CHOOSE l \in Locks : \A d \in Data : plock[d] # l

add_plock(d) ==
    /\ ref_count' = [ref_count EXCEPT ![d] = @ + 1]
    /\ plock' = IF ref_count[d] = 0 THEN [plock EXCEPT ![d] = new_lock] ELSE plock

\* Fault: the entry is erased whoever else refers to it.
remove_plock_always(d) ==
    /\ ref_count' = [ref_count EXCEPT ![d] = 0]
    /\ plock' = [plock EXCEPT ![d] = NoLock]

remove_plock(d) ==
    /\ ref_count' = [ref_count EXCEPT ![d] = @ - 1]
    /\ plock' = IF ref_count[d] = 1 THEN [plock EXCEPT ![d] = NoLock] ELSE plock

\* Without an entry Lock returns 0, which its callers use: see LockAlive.
find_plock(w) ==
    /\ GlockFree
    /\ it' = [it EXCEPT ![w] = plock[Handlers]]

-----------------------------------------------------------------------------
(* The owner. *)

\* HttpResponse's constructor and PlugLockable("handlers").
PlugLockable(w) ==
    /\ opc = "idle" /\ pc[w] = "none"
    /\ shared' = [shared EXCEPT ![w] = {Handlers}]
    /\ locked' = [locked EXCEPT ![w] = FALSE]
    /\ add_plock(Handlers)
    /\ pc' = [pc EXCEPT ![w] = "new"]
    /\ UNCHANGED <<hold, conn, it, mode, cancel, opc, doomed>>

\* Start on a new connection, and the thread's prologue.
Start(w) ==
    /\ opc = "idle" /\ pc[w] = "new"
    /\ \E c \in Conns \ {conn[v] : v \in Workers} :
          /\ conn' = [conn EXCEPT ![w] = c]
          /\ shared' = [shared EXCEPT ![w] = @ \cup {c}]
          /\ add_plock(c)
    /\ pc' = [pc EXCEPT ![w] = "run"]
    /\ UNCHANGED <<hold, locked, it, mode, cancel, opc, doomed>>

\* pthread_create fails: the datum is not plugged in, and nobody deletes the
\* connection (its address stays in use and is left out here).
StartFails(w) ==
    /\ opc = "idle" /\ pc[w] = "new"
    /\ pc' = [pc EXCEPT ![w] = "done"]
    /\ UNCHANGED <<plock, ref_count, hold, shared, locked, conn, it, mode,
                   cancel, opc, doomed>>

\* Fault: End does not cancel.
EndSilent(w) ==
    /\ opc = "idle" /\ pc[w] # "none"
    /\ opc' = "join" /\ doomed' = w
    /\ UNCHANGED <<plock, ref_count, hold, shared, locked, worker, cancel>>

\* End, called by the destructor: a worker that runs is cancelled.
End(w) ==
    /\ opc = "idle" /\ pc[w] # "none"
    /\ opc' = "join" /\ doomed' = w
    /\ cancel' = [cancel EXCEPT ![w] = pc[w] \notin {"new", "done"}]
    /\ UNCHANGED <<plock, ref_count, hold, shared, locked, worker>>

\* Fault: the data are removed while the thread goes on.
JoinNot ==
    /\ opc = "join"
    /\ opc' = "remove"
    /\ UNCHANGED <<plock, ref_count, hold, shared, locked, worker, cancel, doomed>>

Join ==
    /\ opc = "join" /\ pc[doomed] \in {"new", "done"}
    /\ opc' = "remove"
    /\ UNCHANGED <<plock, ref_count, hold, shared, locked, worker, cancel, doomed>>

\* One round of the loop in ~PThread.
Remove ==
    /\ opc = "remove"
    /\ \E d \in shared[doomed] :
          /\ remove_plock(d)
          /\ shared' = [shared EXCEPT ![doomed] = @ \ {d}]
    /\ UNCHANGED <<hold, locked, worker, cancel, opc, doomed>>

\* The owner is cancelled in remove_plock, which leaves cancellation enabled.
\* Its exit handler deletes the other workers and waits for _glock.
RemoveCancelled ==
    /\ Async
    /\ opc = "remove" /\ shared[doomed] # {}
    /\ opc' = "abandoned"
    /\ UNCHANGED <<plock, ref_count, hold, shared, locked, worker, cancel, doomed>>

\* The object's memory is freed.
Removed ==
    /\ opc = "remove" /\ shared[doomed] = {}
    /\ opc' = "idle" /\ doomed' = NoWorker
    /\ pc' = [pc EXCEPT ![doomed] = "none"]
    /\ cancel' = [cancel EXCEPT ![doomed] = FALSE]
    /\ UNCHANGED <<plock, ref_count, hold, shared, locked, conn, it, mode>>

-----------------------------------------------------------------------------
(* A worker. *)

\* Lock up to the end of find_plock.
Lock(w) ==
    /\ pc[w] = "run"
    /\ find_plock(w)
    /\ \E m \in {"r", "w"} : mode' = [mode EXCEPT ![w] = m]
    /\ pc' = [pc EXCEPT ![w] = "wait"]
    /\ UNCHANGED <<plock, ref_count, hold, shared, locked, conn, cancel, opc,
                   doomed>>

\* pthread_rwlock_rdlock or pthread_rwlock_wrlock returns.
internal_lock(w) ==
    /\ pc[w] = "wait" /\ it[w] # NoLock
    /\ \A v \in Workers :
          hold[it[w]][v] # "no" => mode[w] = "r" /\ hold[it[w]][v] = "r"
    /\ hold' = [hold EXCEPT ![it[w]][w] = mode[w]]
    /\ pc' = [pc EXCEPT ![w] = "got"]
    /\ it' = [it EXCEPT ![w] = NoLock] /\ mode' = [mode EXCEPT ![w] = "r"]
    /\ UNCHANGED <<plock, ref_count, shared, locked, conn, cancel, opc, doomed>>

LockReturns(w) ==
    /\ pc[w] = "got"
    /\ locked' = [locked EXCEPT ![w] = TRUE]
    /\ pc' = [pc EXCEPT ![w] = "held"]
    /\ UNCHANGED <<plock, ref_count, hold, shared, conn, it, mode, cancel, opc,
                   doomed>>

Unlock(w) ==
    /\ pc[w] = "held"
    /\ find_plock(w)
    /\ pc' = [pc EXCEPT ![w] = "release"]
    /\ UNCHANGED <<plock, ref_count, hold, shared, locked, conn, mode, cancel,
                   opc, doomed>>

internal_unlock(w) ==
    /\ pc[w] = "release" /\ it[w] # NoLock
    /\ hold' = [hold EXCEPT ![it[w]][w] = "no"]
    /\ pc' = [pc EXCEPT ![w] = "released"]
    /\ it' = [it EXCEPT ![w] = NoLock]
    /\ UNCHANGED <<plock, ref_count, shared, locked, conn, mode, cancel, opc,
                   doomed>>

UnlockReturns(w) ==
    /\ pc[w] = "released"
    /\ locked' = [locked EXCEPT ![w] = FALSE]
    /\ pc' = [pc EXCEPT ![w] = "run"]
    /\ UNCHANGED <<plock, ref_count, hold, shared, conn, it, mode, cancel, opc,
                   doomed>>

RunReturns(w) ==
    /\ pc[w] = "run"
    /\ pc' = [pc EXCEPT ![w] = "exit"]
    /\ UNCHANGED <<plock, ref_count, hold, shared, locked, conn, it, mode, cancel,
                   opc, doomed>>

\* Fault: Lock does not disable cancellation.
CancellableInLock == {"run", "got", "held"}

\* Lock and Unlock disable cancellation.
Cancellable == {"run", "held"}

Cancelled(w) ==
    /\ cancel[w] /\ pc[w] \in Cancellable
    /\ pc' = [pc EXCEPT ![w] = "exit"]
    /\ UNCHANGED <<plock, ref_count, hold, shared, locked, conn, it, mode, cancel,
                   opc, doomed>>

\* OnExit deletes the connection.
OnExit(w) ==
    /\ pc[w] = "exit"
    /\ conn' = [conn EXCEPT ![w] = NoConn]
    /\ pc' = [pc EXCEPT ![w] = "unlock"]
    /\ UNCHANGED <<plock, ref_count, hold, shared, locked, it, mode, cancel, opc,
                   doomed>>

\* The rest of exit_handler: a lock that is still held is released.
exit_handler(w) ==
    /\ pc[w] = "unlock"
    /\ IF locked[w]
          THEN /\ GlockFree /\ plock[Handlers] # NoLock
               /\ hold' = [hold EXCEPT ![plock[Handlers]][w] = "no"]
          ELSE UNCHANGED hold
    /\ pc' = [pc EXCEPT ![w] = "done"]
    /\ UNCHANGED <<plock, ref_count, shared, locked, conn, it, mode, cancel, opc,
                   doomed>>

-----------------------------------------------------------------------------
Owner ==
    \/ \E w \in Workers : PlugLockable(w) \/ Start(w) \/ StartFails(w) \/ End(w)
    \/ Join \/ Remove \/ RemoveCancelled \/ Removed

\* Steps of a call, which the worker does not stop at.
Call(w) ==
    \/ internal_lock(w) \/ LockReturns(w)
    \/ Unlock(w) \/ internal_unlock(w) \/ UnlockReturns(w)

Exit(w) == Cancelled(w) \/ OnExit(w) \/ exit_handler(w)

Worker(w) == Lock(w) \/ Call(w) \/ RunReturns(w) \/ Exit(w)

Next == Owner \/ \E w \in Workers : Worker(w)

Spec == Init /\ [][Next]_vars

\* The owner goes on once it has called a destructor.  A worker goes on in a
\* call and in its exit handler, and comes back to a cancellation point.  An
\* rwlock that is free again and again is granted in the end.
FairSpec ==
    /\ Spec
    /\ WF_vars(Join \/ Remove \/ Removed)
    /\ \A w \in Workers :
          /\ WF_vars(Call(w)) /\ WF_vars(OnExit(w) \/ exit_handler(w))
          /\ SF_vars(internal_lock(w)) /\ SF_vars(Cancelled(w))

-----------------------------------------------------------------------------
(* Properties. *)

TypeOK ==
    /\ plock \in [Data -> Locks \cup {NoLock}]
    /\ ref_count \in [Data -> Nat]
    /\ hold \in [Locks -> [Workers -> {"no", "r", "w"}]]
    /\ shared \in [Workers -> SUBSET Data]
    /\ locked \in [Workers -> BOOLEAN]
    /\ conn \in [Workers -> Conns \cup {NoConn}]
    /\ pc \in [Workers -> WorkerStates]
    /\ it \in [Workers -> Locks \cup {NoLock}]
    /\ mode \in [Workers -> {"r", "w"}]
    /\ cancel \in [Workers -> BOOLEAN]
    /\ opc \in OwnerStates /\ doomed \in Workers \cup {NoWorker}

\* The objects that have a datum plugged in.
Users(d) == {w \in Workers : d \in shared[w]}

\* The ref_count of a datum is the number of objects that have it plugged in,
\* those under destruction until they are at its turn, also when the address
\* of a dead connection is given to a new one.
RefsCounted ==
    \A d \in Data :
        /\ ref_count[d] = Cardinality(Users(d))
        /\ plock[d] = NoLock <=> ref_count[d] = 0

\* The rwlock that a call found under _glock is still that of the handlers
\* when the call uses it, after _glock was given back, and only such a lock is
\* ever held: no rwlock is destroyed while somebody holds or wants it.
LockAlive ==
    \A w \in Workers :
        /\ pc[w] \in {"wait", "release"} => it[w] # NoLock /\ it[w] = plock[Handlers]
        /\ \A l \in Locks : hold[l][w] # "no" => l = plock[Handlers]

\* A thread that has ended holds no lock, wherever it was cancelled, and the
\* flag that its exit handler goes by has always been right about that.
ReleasedAtExit ==
    \A w \in Workers :
        /\ pc[w] \in {"none", "new", "run", "done"} =>
              \A l \in Locks : hold[l][w] = "no"
        /\ pc[w] \in {"exit", "unlock"} =>
              (locked[w] <=> \E l \in Locks : hold[l][w] # "no")

\* A destructor returns, also when the worker waits for a lock that another one
\* holds.  The exception is an owner cancelled with _glock in its hands.
DestroyReturns == opc = "join" ~> opc \in {"idle", "abandoned"}
=============================================================================
