------------------------- MODULE LockRegistryProofs -------------------------
(***************************************************************************)
(* Proofs about LockRegistry.  RefsCounted is what keeps an rwlock alive:  *)
(* an object that may use the lock of the handlers has them plugged in     *)
(* until its thread has been joined.                                       *)
(***************************************************************************)
EXTENDS LockRegistry, FiniteSetTheorems, TLAPS

USE DEF Data

\* The owner is past the join of the object that it destroys.
Removing == opc \in {"remove", "abandoned"}

\* What an object has plugged in follows from how far it is.
Plugged ==
    \A w \in Workers :
        /\ pc[w] = "none" => shared[w] = {}
        /\ pc[w] = "new" => shared[w] \subseteq {Handlers}
        /\ pc[w] # "none" /\ (w = doomed => ~Removing) => Handlers \in shared[w]

\* The object under destruction, whose thread has ended before its data are
\* removed.
Destroying ==
    /\ opc = "idle" <=> doomed = NoWorker
    /\ opc # "idle" => doomed \in Workers /\ pc[doomed] # "none"
    /\ Removing => pc[doomed] \in {"new", "done"}

\* The flag outside the exit handler.
Flags ==
    \A w \in Workers :
        /\ pc[w] \in {"new", "run", "wait", "got"} => ~locked[w]
        /\ pc[w] \in {"held", "release", "released"} => locked[w]

\* Who holds the lock of the handlers, and nobody holds another.
Holds ==
    \A w \in Workers :
        /\ pc[w] \in {"none", "new", "run", "wait", "released", "done"} =>
              \A l \in Locks : hold[l][w] = "no"
        /\ pc[w] \in {"got", "held", "release"} => hold[plock[Handlers]][w] # "no"
        /\ pc[w] \in {"exit", "unlock"} =>
              (locked[w] <=> hold[plock[Handlers]][w] # "no")

IInv ==
    /\ TypeOK /\ RefsCounted /\ Plugged /\ Destroying
    /\ Flags /\ Holds /\ LockAlive

-----------------------------------------------------------------------------
(* Reference counts. *)

LEMMA UsersFinite ==
    ASSUME NEW d
    PROVE  IsFiniteSet(Users(d))
  BY LockRegistryAssumption, FS_Subset DEF Users

\* add_plock keeps the counts right, and touches no rwlock in use.
LEMMA Adding ==
    ASSUME TypeOK, RefsCounted, NEW w \in Workers, NEW d \in Data,
           d \notin shared[w],
           shared' = [shared EXCEPT ![w] = @ \cup {d}],
           add_plock(d)
    PROVE  /\ plock' \in [Data -> Locks \cup {NoLock}]
           /\ ref_count' \in [Data -> Nat]
           /\ RefsCounted'
           /\ \A e \in Data : e # d \/ ref_count[d] # 0 => plock'[e] = plock[e]
  <1>1. w \notin Users(d) /\ Users(d)' = Users(d) \cup {w}
    BY DEF Users, TypeOK
  <1>2. \A e \in Data : e # d => Users(e)' = Users(e)
    BY DEF Users, TypeOK
  <1>3. Cardinality(Users(d)') = Cardinality(Users(d)) + 1
    BY <1>1, UsersFinite, FS_AddElement
  <1>4. \A e \in Data : /\ ref_count[e] = Cardinality(Users(e))
                        /\ plock[e] = NoLock <=> ref_count[e] = 0
    BY DEF RefsCounted
  <1>5. ref_count[d] = 0 => new_lock \in Locks
    BY <1>4, LocksAssumption DEF TypeOK, new_lock
  <1>6. ref_count' = [ref_count EXCEPT ![d] = @ + 1]
    BY DEF add_plock
  <1>7. plock' = IF ref_count[d] = 0 THEN [plock EXCEPT ![d] = new_lock] ELSE plock
    BY DEF add_plock
  <1>8. \A e \in Data : /\ ref_count'[e] = Cardinality(Users(e)')
                        /\ plock'[e] = NoLock <=> ref_count'[e] = 0
    <2> SUFFICES ASSUME NEW e \in Data
                 PROVE  /\ ref_count'[e] = Cardinality(Users(e)')
                        /\ plock'[e] = NoLock <=> ref_count'[e] = 0
      OBVIOUS
    <2>1. CASE e = d
      BY <2>1, <1>3, <1>4, <1>5, <1>6, <1>7, LockRegistryAssumption DEF TypeOK
    <2>2. CASE e # d
      BY <2>2, <1>2, <1>4, <1>6, <1>7 DEF TypeOK
    <2> QED  BY <2>1, <2>2
  <1>9. RefsCounted'
    BY <1>8 DEF RefsCounted
  <1> QED  BY <1>5, <1>6, <1>7, <1>9 DEF TypeOK

\* remove_plock does too.
LEMMA Taking ==
    ASSUME TypeOK, RefsCounted, NEW w \in Workers, NEW d \in shared[w],
           shared' = [shared EXCEPT ![w] = @ \ {d}],
           remove_plock(d)
    PROVE  /\ plock' \in [Data -> Locks \cup {NoLock}]
           /\ ref_count' \in [Data -> Nat]
           /\ RefsCounted'
           /\ \A e \in Data : e # d \/ ref_count[d] # 1 => plock'[e] = plock[e]
  <1>1. w \in Users(d) /\ Users(d)' = Users(d) \ {w}
    BY DEF Users, TypeOK
  <1>2. \A e \in Data : e # d => Users(e)' = Users(e)
    BY DEF Users, TypeOK
  <1>3. /\ Cardinality(Users(d)') = Cardinality(Users(d)) - 1
        /\ Cardinality(Users(d)) \in Nat /\ Cardinality(Users(d)') \in Nat
    BY <1>1, UsersFinite, FS_RemoveElement, FS_CardinalityType
  <1>4. \A e \in Data : /\ ref_count[e] = Cardinality(Users(e))
                        /\ plock[e] = NoLock <=> ref_count[e] = 0
    BY DEF RefsCounted
  <1>5. d \in Data
    BY DEF TypeOK
  <1>6. ref_count' = [ref_count EXCEPT ![d] = @ - 1]
    BY DEF remove_plock
  <1>7. plock' = IF ref_count[d] = 1 THEN [plock EXCEPT ![d] = NoLock] ELSE plock
    BY DEF remove_plock
  <1>8. \A e \in Data : /\ ref_count'[e] = Cardinality(Users(e)')
                        /\ plock'[e] = NoLock <=> ref_count'[e] = 0
    <2> SUFFICES ASSUME NEW e \in Data
                 PROVE  /\ ref_count'[e] = Cardinality(Users(e)')
                        /\ plock'[e] = NoLock <=> ref_count'[e] = 0
      OBVIOUS
    <2>1. CASE e = d
      BY <2>1, <1>3, <1>4, <1>6, <1>7 DEF TypeOK
    <2>2. CASE e # d
      BY <2>2, <1>2, <1>4, <1>6, <1>7 DEF TypeOK
    <2> QED  BY <2>1, <2>2
  <1>9. RefsCounted'
    BY <1>8 DEF RefsCounted
  <1>10. ref_count' \in [Data -> Nat]
    BY <1>3, <1>4, <1>5, <1>6 DEF TypeOK
  <1> QED  BY <1>5, <1>7, <1>9, <1>10 DEF TypeOK

\* Most actions leave the map and what is plugged in alone.
LEMMA Leaving ==
    ASSUME RefsCounted, UNCHANGED <<plock, ref_count, shared>>
    PROVE  RefsCounted'
  BY DEF RefsCounted, Users

\* The map has an rwlock for the handlers as long as a thread may use it.
LEMMA InUse ==
    ASSUME IInv, NEW w \in Workers, pc[w] \notin {"none", "new", "done"}
    PROVE  plock[Handlers] \in Locks
  <1>1. w \in Users(Handlers)
    BY DEF IInv, Plugged, Destroying, Users
  <1>2. Cardinality(Users(Handlers)) # 0
    BY <1>1, UsersFinite, FS_EmptySet
  <1> QED  BY <1>2 DEF IInv, RefsCounted, TypeOK

-----------------------------------------------------------------------------
(* The invariant. *)

LEMMA Initially == Init => IInv
  <1> SUFFICES ASSUME Init PROVE IInv
    OBVIOUS
  <1>1. TypeOK
    BY DEF Init, TypeOK, WorkerStates, OwnerStates
  <1>2. \A d \in Data : Users(d) = {}
    BY DEF Init, Users
  <1>3. RefsCounted
    BY <1>2, FS_EmptySet DEF Init, RefsCounted
  <1> QED
    BY <1>1, <1>3 DEF Init, IInv, Plugged, Destroying, Removing, Flags, Holds, LockAlive

\* A call that plugs a datum in: a new rwlock for the handlers, if it makes
\* one, finds no object that is past its construction.
LEMMA PlugLockableKeeps ==
    ASSUME IInv, NEW w \in Workers, PlugLockable(w)
    PROVE  IInv'
  <1> USE DEF IInv, PlugLockable, TypeOK, WorkerStates, OwnerStates
  <1>1. Handlers \notin shared[w] /\ shared' = [shared EXCEPT ![w] = @ \cup {Handlers}]
    BY DEF Plugged
  <1>2. /\ plock' \in [Data -> Locks \cup {NoLock}]
        /\ ref_count' \in [Data -> Nat]
        /\ RefsCounted'
        /\ ref_count[Handlers] # 0 => plock'[Handlers] = plock[Handlers]
    BY <1>1, Adding
  <1>3. plock'[Handlers] # plock[Handlers] => \A v \in Workers : pc[v] = "none"
    <2> SUFFICES ASSUME ref_count[Handlers] = 0
                 PROVE  \A v \in Workers : pc[v] = "none"
      BY <1>2
    <2>1. Users(Handlers) = {}
      BY UsersFinite, FS_EmptySet DEF RefsCounted
    <2> QED  BY <2>1 DEF Users, Plugged, Removing
  <1>4. TypeOK'
    BY <1>2
  <1>5. Plugged'
    BY DEF Plugged, Removing
  <1>6. Destroying'
    BY LockRegistryAssumption DEF Destroying, Removing
  <1>7. Flags'
    BY DEF Flags
  <1>8. Holds'
    BY <1>3 DEF Holds
  <1>9. LockAlive'
    BY <1>3 DEF LockAlive, Holds
  <1> QED  BY <1>2, <1>4, <1>5, <1>6, <1>7, <1>8, <1>9

LEMMA StartKeeps ==
    ASSUME IInv, NEW w \in Workers, Start(w)
    PROVE  IInv'
  <1> USE DEF IInv, TypeOK, WorkerStates, OwnerStates
  <1>1. PICK c \in Conns : /\ conn' = [conn EXCEPT ![w] = c]
                           /\ shared' = [shared EXCEPT ![w] = @ \cup {c}]
                           /\ add_plock(c)
    BY DEF Start
  <1>2. /\ opc = "idle" /\ pc[w] = "new"
        /\ pc' = [pc EXCEPT ![w] = "run"]
        /\ UNCHANGED <<hold, locked, it, mode, cancel, opc, doomed>>
    BY DEF Start
  <1>3. c # Handlers /\ c \notin shared[w]
    BY <1>2, LockRegistryAssumption DEF Plugged
  <1>4. /\ plock' \in [Data -> Locks \cup {NoLock}]
        /\ ref_count' \in [Data -> Nat]
        /\ RefsCounted'
        /\ plock'[Handlers] = plock[Handlers]
    <2>1. c \in Data /\ Handlers \in Data
      OBVIOUS
    <2>2. /\ plock' \in [Data -> Locks \cup {NoLock}]
          /\ ref_count' \in [Data -> Nat]
          /\ RefsCounted'
          /\ \A e \in Data : e # c \/ ref_count[c] # 0 => plock'[e] = plock[e]
      BY <1>1, <1>3, <2>1, Adding
    <2> QED  BY <1>3, <2>1, <2>2
  <1>5. TypeOK'
    BY <1>1, <1>2, <1>4
  <1>6. Plugged'
    BY <1>1, <1>2 DEF Plugged, Removing
  <1>7. Destroying'
    BY <1>2 DEF Destroying, Removing
  <1>8. Flags'
    BY <1>2 DEF Flags
  <1>9. Holds'
    BY <1>2, <1>4 DEF Holds
  <1>10. LockAlive'
    BY <1>2, <1>4 DEF LockAlive, Holds
  <1> QED  BY <1>4, <1>5, <1>6, <1>7, <1>8, <1>9, <1>10

\* The rwlock of the handlers goes with the last object that has them plugged
\* in, whose thread has ended.
LEMMA RemoveKeeps ==
    ASSUME IInv, Remove
    PROVE  IInv'
  <1> USE DEF IInv, TypeOK, WorkerStates, OwnerStates
  <1>1. PICK d \in shared[doomed] :
           /\ remove_plock(d)
           /\ shared' = [shared EXCEPT ![doomed] = @ \ {d}]
    BY DEF Remove
  <1>2. opc = "remove" /\ UNCHANGED <<hold, locked, worker, cancel, opc, doomed>>
    BY DEF Remove
  <1>3. doomed \in Workers /\ pc[doomed] \in {"new", "done"}
    BY <1>2 DEF Destroying, Removing
  <1>4. /\ plock' \in [Data -> Locks \cup {NoLock}]
        /\ ref_count' \in [Data -> Nat]
        /\ RefsCounted'
        /\ d # Handlers \/ ref_count[Handlers] # 1 => plock'[Handlers] = plock[Handlers]
    BY <1>1, <1>3, Taking
  <1>5. plock'[Handlers] # plock[Handlers] =>
           \A v \in Workers : v # doomed => pc[v] = "none"
    <2> SUFFICES ASSUME d = Handlers, ref_count[Handlers] = 1
                 PROVE  \A v \in Workers : v # doomed => pc[v] = "none"
      BY <1>4
    <2>1. ref_count'[Handlers] = 0
      BY <1>1 DEF remove_plock
    <2>2. Cardinality(Users(Handlers)') = 0
      BY <1>4, <2>1 DEF RefsCounted
    <2>3. Users(Handlers)' = {}
      <3>1. IsFiniteSet(Users(Handlers)')
        BY LockRegistryAssumption, FS_Subset DEF Users
      <3> QED  BY <2>2, <3>1, FS_EmptySet
    <2>4. \A v \in Workers : v # doomed => Handlers \notin shared[v]
      BY <1>1, <1>3, <2>3 DEF Users
    <2> QED  BY <2>4 DEF Plugged
  <1>6. TypeOK'
    BY <1>1, <1>2, <1>3, <1>4 DEF worker
  <1>7. Plugged'
    BY <1>1, <1>2, <1>3 DEF Plugged, Removing, worker
  <1>8. Destroying'
    BY <1>2 DEF Destroying, Removing, worker
  <1>9. Flags'
    BY <1>2 DEF Flags, worker
  <1>10. Holds'
    BY <1>2, <1>3, <1>5 DEF Holds, worker
  <1>11. LockAlive'
    BY <1>2, <1>3, <1>5 DEF LockAlive, Holds, worker
  <1> QED  BY <1>4, <1>6, <1>7, <1>8, <1>9, <1>10, <1>11

LEMMA StartFailsKeeps ==
    ASSUME IInv, NEW w \in Workers, StartFails(w)
    PROVE  IInv'
  <1> USE DEF IInv, StartFails, worker, TypeOK, WorkerStates, OwnerStates
  <1>1. TypeOK'
    OBVIOUS
  <1>2. RefsCounted'
    BY Leaving
  <1>3. Plugged'
    BY DEF Plugged, Destroying, Removing
  <1>4. Destroying'
    BY DEF Destroying, Removing
  <1>5. Flags'
    BY DEF Flags
  <1>6. Holds'
    BY DEF Holds, LockAlive, Flags
  <1>7. LockAlive'
    BY DEF LockAlive, Holds
  <1> QED  BY <1>1, <1>2, <1>3, <1>4, <1>5, <1>6, <1>7

LEMMA EndKeeps ==
    ASSUME IInv, NEW w \in Workers, End(w)
    PROVE  IInv'
  <1> USE DEF IInv, End, worker, TypeOK, WorkerStates, OwnerStates
  <1>1. TypeOK'
    OBVIOUS
  <1>2. RefsCounted'
    BY Leaving
  <1>3. Plugged'
    BY DEF Plugged, Destroying, Removing
  <1>4. Destroying'
    BY LockRegistryAssumption DEF Destroying, Removing
  <1>5. Flags'
    BY DEF Flags
  <1>6. Holds'
    BY DEF Holds, LockAlive, Flags
  <1>7. LockAlive'
    BY DEF LockAlive, Holds
  <1> QED  BY <1>1, <1>2, <1>3, <1>4, <1>5, <1>6, <1>7

LEMMA JoinKeeps ==
    ASSUME IInv, Join
    PROVE  IInv'
  <1> USE DEF IInv, Join, worker, TypeOK, WorkerStates, OwnerStates
  <1>1. TypeOK'
    OBVIOUS
  <1>2. RefsCounted'
    BY Leaving
  <1>3. Plugged'
    BY DEF Plugged, Destroying, Removing
  <1>4. Destroying'
    BY DEF Destroying, Removing
  <1>5. Flags'
    BY DEF Flags
  <1>6. Holds'
    BY DEF Holds, LockAlive, Flags
  <1>7. LockAlive'
    BY DEF LockAlive, Holds
  <1> QED  BY <1>1, <1>2, <1>3, <1>4, <1>5, <1>6, <1>7

LEMMA RemoveCancelledKeeps ==
    ASSUME IInv, RemoveCancelled
    PROVE  IInv'
  <1> USE DEF IInv, RemoveCancelled, worker, TypeOK, WorkerStates, OwnerStates
  <1>1. TypeOK'
    OBVIOUS
  <1>2. RefsCounted'
    BY Leaving
  <1>3. Plugged'
    BY DEF Plugged, Destroying, Removing
  <1>4. Destroying'
    BY DEF Destroying, Removing
  <1>5. Flags'
    BY DEF Flags
  <1>6. Holds'
    BY DEF Holds, LockAlive, Flags
  <1>7. LockAlive'
    BY DEF LockAlive, Holds
  <1> QED  BY <1>1, <1>2, <1>3, <1>4, <1>5, <1>6, <1>7

LEMMA RemovedKeeps ==
    ASSUME IInv, Removed
    PROVE  IInv'
  <1> USE DEF IInv, Removed, worker, TypeOK, WorkerStates, OwnerStates
  <1>1. TypeOK'
    OBVIOUS
  <1>2. RefsCounted'
    BY Leaving
  <1>3. Plugged'
    BY DEF Plugged, Destroying, Removing
  <1>4. Destroying'
    BY DEF Destroying, Removing
  <1>5. Flags'
    BY DEF Flags
  <1>6. Holds'
    BY DEF Holds, Destroying, Removing, LockAlive, Flags
  <1>7. LockAlive'
    BY DEF LockAlive, Holds
  <1> QED  BY <1>1, <1>2, <1>3, <1>4, <1>5, <1>6, <1>7

LEMMA LockKeeps ==
    ASSUME IInv, NEW w \in Workers, Lock(w)
    PROVE  IInv'
  <1> USE DEF IInv, Lock, TypeOK, WorkerStates, OwnerStates
  <1>1. TypeOK'
    BY DEF find_plock
  <1>2. RefsCounted'
    BY Leaving
  <1>3. Plugged'
    BY DEF Plugged, Destroying, Removing, find_plock
  <1>4. Destroying'
    BY DEF Destroying, Removing, find_plock
  <1>5. Flags'
    BY DEF Flags, find_plock
  <1>6. Holds'
    BY DEF Holds, LockAlive, Flags, find_plock
  <1>7. LockAlive'
    BY InUse, LockRegistryAssumption DEF LockAlive, Holds, find_plock
  <1> QED  BY <1>1, <1>2, <1>3, <1>4, <1>5, <1>6, <1>7

LEMMA internal_lockKeeps ==
    ASSUME IInv, NEW w \in Workers, internal_lock(w)
    PROVE  IInv'
  <1> USE DEF IInv, internal_lock, TypeOK, WorkerStates, OwnerStates
  <1>1. TypeOK'
    OBVIOUS
  <1>2. RefsCounted'
    BY Leaving
  <1>3. Plugged'
    BY DEF Plugged, Destroying, Removing
  <1>4. Destroying'
    BY DEF Destroying, Removing
  <1>5. Flags'
    BY DEF Flags
  <1>6. Holds'
    BY DEF Holds, LockAlive, Flags
  <1>7. LockAlive'
    BY DEF LockAlive, Holds
  <1> QED  BY <1>1, <1>2, <1>3, <1>4, <1>5, <1>6, <1>7

LEMMA LockReturnsKeeps ==
    ASSUME IInv, NEW w \in Workers, LockReturns(w)
    PROVE  IInv'
  <1> USE DEF IInv, LockReturns, TypeOK, WorkerStates, OwnerStates
  <1>1. TypeOK'
    OBVIOUS
  <1>2. RefsCounted'
    BY Leaving
  <1>3. Plugged'
    BY DEF Plugged, Destroying, Removing
  <1>4. Destroying'
    BY DEF Destroying, Removing
  <1>5. Flags'
    BY DEF Flags
  <1>6. Holds'
    BY DEF Holds, LockAlive, Flags
  <1>7. LockAlive'
    BY DEF LockAlive, Holds
  <1> QED  BY <1>1, <1>2, <1>3, <1>4, <1>5, <1>6, <1>7

LEMMA UnlockKeeps ==
    ASSUME IInv, NEW w \in Workers, Unlock(w)
    PROVE  IInv'
  <1> USE DEF IInv, Unlock, TypeOK, WorkerStates, OwnerStates
  <1>1. TypeOK'
    BY DEF find_plock
  <1>2. RefsCounted'
    BY Leaving
  <1>3. Plugged'
    BY DEF Plugged, Destroying, Removing, find_plock
  <1>4. Destroying'
    BY DEF Destroying, Removing, find_plock
  <1>5. Flags'
    BY DEF Flags, find_plock
  <1>6. Holds'
    BY DEF Holds, LockAlive, Flags, find_plock
  <1>7. LockAlive'
    BY InUse, LockRegistryAssumption DEF LockAlive, Holds, find_plock
  <1> QED  BY <1>1, <1>2, <1>3, <1>4, <1>5, <1>6, <1>7

LEMMA internal_unlockKeeps ==
    ASSUME IInv, NEW w \in Workers, internal_unlock(w)
    PROVE  IInv'
  <1> USE DEF IInv, internal_unlock, TypeOK, WorkerStates, OwnerStates
  <1>1. TypeOK'
    OBVIOUS
  <1>2. RefsCounted'
    BY Leaving
  <1>3. Plugged'
    BY DEF Plugged, Destroying, Removing
  <1>4. Destroying'
    BY DEF Destroying, Removing
  <1>5. Flags'
    BY DEF Flags
  <1>6. Holds'
    BY DEF Holds, LockAlive, Flags
  <1>7. LockAlive'
    BY DEF LockAlive, Holds
  <1> QED  BY <1>1, <1>2, <1>3, <1>4, <1>5, <1>6, <1>7

LEMMA UnlockReturnsKeeps ==
    ASSUME IInv, NEW w \in Workers, UnlockReturns(w)
    PROVE  IInv'
  <1> USE DEF IInv, UnlockReturns, TypeOK, WorkerStates, OwnerStates
  <1>1. TypeOK'
    OBVIOUS
  <1>2. RefsCounted'
    BY Leaving
  <1>3. Plugged'
    BY DEF Plugged, Destroying, Removing
  <1>4. Destroying'
    BY DEF Destroying, Removing
  <1>5. Flags'
    BY DEF Flags
  <1>6. Holds'
    BY DEF Holds, LockAlive, Flags
  <1>7. LockAlive'
    BY DEF LockAlive, Holds
  <1> QED  BY <1>1, <1>2, <1>3, <1>4, <1>5, <1>6, <1>7

LEMMA RunReturnsKeeps ==
    ASSUME IInv, NEW w \in Workers, RunReturns(w)
    PROVE  IInv'
  <1> USE DEF IInv, RunReturns, TypeOK, WorkerStates, OwnerStates
  <1>1. TypeOK'
    OBVIOUS
  <1>2. RefsCounted'
    BY Leaving
  <1>3. Plugged'
    BY DEF Plugged, Destroying, Removing
  <1>4. Destroying'
    BY DEF Destroying, Removing
  <1>5. Flags'
    BY DEF Flags
  <1>6. Holds'
    BY InUse DEF Holds, LockAlive, Flags
  <1>7. LockAlive'
    BY DEF LockAlive, Holds
  <1> QED  BY <1>1, <1>2, <1>3, <1>4, <1>5, <1>6, <1>7

LEMMA CancelledKeeps ==
    ASSUME IInv, NEW w \in Workers, Cancelled(w)
    PROVE  IInv'
  <1> USE DEF IInv, Cancelled, TypeOK, WorkerStates, OwnerStates
  <1>1. TypeOK'
    BY DEF Cancellable
  <1>2. RefsCounted'
    BY Leaving
  <1>3. Plugged'
    BY DEF Plugged, Destroying, Removing, Cancellable
  <1>4. Destroying'
    BY DEF Destroying, Removing, Cancellable
  <1>5. Flags'
    BY DEF Flags, Cancellable
  <1>6. Holds'
    BY InUse DEF Holds, LockAlive, Flags, Cancellable
  <1>7. LockAlive'
    BY DEF LockAlive, Holds, Cancellable
  <1> QED  BY <1>1, <1>2, <1>3, <1>4, <1>5, <1>6, <1>7

LEMMA OnExitKeeps ==
    ASSUME IInv, NEW w \in Workers, OnExit(w)
    PROVE  IInv'
  <1> USE DEF IInv, OnExit, TypeOK, WorkerStates, OwnerStates
  <1>1. TypeOK'
    OBVIOUS
  <1>2. RefsCounted'
    BY Leaving
  <1>3. Plugged'
    BY DEF Plugged, Destroying, Removing
  <1>4. Destroying'
    BY DEF Destroying, Removing
  <1>5. Flags'
    BY DEF Flags
  <1>6. Holds'
    BY DEF Holds, LockAlive, Flags
  <1>7. LockAlive'
    BY DEF LockAlive, Holds
  <1> QED  BY <1>1, <1>2, <1>3, <1>4, <1>5, <1>6, <1>7

LEMMA exit_handlerKeeps ==
    ASSUME IInv, NEW w \in Workers, exit_handler(w)
    PROVE  IInv'
  <1> USE DEF IInv, exit_handler, TypeOK, WorkerStates, OwnerStates
  <1>1. TypeOK'
    OBVIOUS
  <1>2. RefsCounted'
    BY Leaving
  <1>3. Plugged'
    BY DEF Plugged, Destroying, Removing
  <1>4. Destroying'
    BY DEF Destroying, Removing
  <1>5. Flags'
    BY DEF Flags
  <1>6. Holds'
    BY DEF Holds, LockAlive, Flags
  <1>7. LockAlive'
    BY DEF LockAlive, Holds
  <1> QED  BY <1>1, <1>2, <1>3, <1>4, <1>5, <1>6, <1>7

-----------------------------------------------------------------------------
LEMMA OwnerKeeps == IInv /\ Owner => IInv'
  BY PlugLockableKeeps, StartKeeps, StartFailsKeeps, EndKeeps, JoinKeeps,
     RemoveKeeps, RemoveCancelledKeeps, RemovedKeeps DEF Owner

LEMMA WorkerKeeps ==
    ASSUME IInv, NEW w \in Workers, Worker(w)
    PROVE  IInv'
  BY LockKeeps, internal_lockKeeps, LockReturnsKeeps, UnlockKeeps,
     internal_unlockKeeps, UnlockReturnsKeeps, RunReturnsKeeps, CancelledKeeps,
     OnExitKeeps, exit_handlerKeeps DEF Worker, Call, Exit

LEMMA StutterKeeps == IInv /\ UNCHANGED vars => IInv'
  <1> SUFFICES ASSUME IInv, UNCHANGED vars PROVE IInv'
    OBVIOUS
  <1> USE DEF IInv, vars, worker
  <1>1. TypeOK'
    BY DEF TypeOK
  <1>2. RefsCounted'
    BY Leaving
  <1>3. Plugged' /\ Destroying'
    BY DEF Plugged, Destroying, Removing
  <1>4. Flags' /\ Holds' /\ LockAlive'
    BY DEF Flags, Holds, LockAlive
  <1> QED  BY <1>1, <1>2, <1>3, <1>4

\* The invariant of the registry of locks (thread.cpp, PThread::add_plock to
\* find_plock, Lock, Unlock, exit_handler and the destructor).
THEOREM Invariance == Spec => []IInv
  <1>1. Init => IInv
    BY Initially
  <1>2. IInv /\ [Next]_vars => IInv'
    BY OwnerKeeps, WorkerKeeps, StutterKeeps DEF Next
  <1> QED  BY <1>1, <1>2, PTL DEF Spec

\* The state of the registry keeps its type.
THEOREM TypeCorrect == Spec => []TypeOK
  <1>1. IInv => TypeOK
    BY DEF IInv
  <1> QED  BY <1>1, Invariance, PTL

\* Every reference count of _locks is the number of objects that have the datum
\* plugged in, and there is an rwlock exactly when it is not 0.
THEOREM Counted == Spec => []RefsCounted
  <1>1. IInv => RefsCounted
    BY DEF IInv
  <1> QED  BY <1>1, Invariance, PTL

\* No rwlock is destroyed while a thread holds it or is about to use it, though
\* _glock was given back since it was looked up.
THEOREM Alive == Spec => []LockAlive
  <1>1. IInv => LockAlive
    BY DEF IInv
  <1> QED  BY <1>1, Invariance, PTL

\* A thread that has ended holds no lock, wherever it was cancelled.
THEOREM Released == Spec => []ReleasedAtExit
  <1>1. IInv => ReleasedAtExit
    <2> SUFFICES ASSUME IInv, NEW w \in Workers
                 PROVE  /\ pc[w] \in {"none", "new", "run", "done"} =>
                              \A l \in Locks : hold[l][w] = "no"
                        /\ pc[w] \in {"exit", "unlock"} =>
                              (locked[w] <=> \E l \in Locks : hold[l][w] # "no")
      BY DEF ReleasedAtExit
    <2>1. CASE pc[w] \in {"exit", "unlock"}
      <3>1. plock[Handlers] \in Locks
        BY <2>1, InUse
      <3> QED  BY <2>1, <3>1 DEF IInv, Holds, LockAlive
    <2>2. CASE pc[w] \notin {"exit", "unlock"}
      BY <2>2 DEF IInv, Holds
    <2> QED  BY <2>1, <2>2
  <1> QED  BY <1>1, Invariance, PTL

-----------------------------------------------------------------------------
(* What makes DestroyReturns true; the rest of it is fairness, and left to   *)
(* TLC.                                                                      *)

\* The thread that the owner joins has ended or was told to.
DoomedEnds == opc = "join" => pc[doomed] \in {"new", "done"} \/ cancel[doomed]

\* Whoever holds the rwlock that a worker waits for is past its own wait, and
\* will find the lock again to release it; the worker itself does not hold it.
HoldersGoOn ==
    \A w, v \in Workers :
        pc[w] = "wait" /\ hold[it[w]][v] # "no" =>
            /\ pc[v] \in {"got", "held", "release", "exit", "unlock"}
            /\ pc[v] = "release" => it[v] = it[w]
            /\ pc[v] = "unlock" => locked[v] /\ plock[Handlers] = it[w]

LEMMA DoomedEndsStep == IInv /\ DoomedEnds /\ [Next]_vars => DoomedEnds'
  <1> SUFFICES ASSUME IInv, DoomedEnds, [Next]_vars PROVE DoomedEnds'
    OBVIOUS
  <1> USE DEF DoomedEnds, worker
  <1>1. CASE UNCHANGED vars
    BY <1>1 DEF vars
  <1>2. ASSUME NEW w \in Workers, End(w) PROVE DoomedEnds'
    BY <1>2 DEF End, IInv, TypeOK
  <1>3. CASE Owner /\ \A w \in Workers : ~End(w)
    <2>1. opc' # "join"
      BY <1>3
      DEF Owner, PlugLockable, Start, StartFails, Join, Remove, RemoveCancelled,
          Removed
    <2> QED  BY <2>1
  <1>4. ASSUME NEW w \in Workers, Worker(w) PROVE DoomedEnds'
    <2>1. /\ UNCHANGED <<opc, doomed, cancel>>
          /\ \A v \in Workers : pc[v] \in {"new", "done"} => pc'[v] \in {"new", "done"}
      BY <1>4
      DEF Worker, Call, Exit, Lock, internal_lock, LockReturns, Unlock,
          internal_unlock, UnlockReturns, RunReturns, Cancelled, Cancellable,
          OnExit, exit_handler, IInv, TypeOK
    <2>2. opc = "join" => doomed \in Workers
      BY DEF IInv, Destroying
    <2> QED  BY <2>1, <2>2
  <1> QED  BY <1>1, <1>2, <1>3, <1>4 DEF Next, Owner

\* A destructor never waits for a worker that nobody has told to end, and no
\* worker waits for a lock in a circle, or for itself, however many of them
\* read and write the table of pages (thread.cpp, PThread::Lock and
\* exit_handler).
THEOREM NoCircularLocks == Spec => [](DoomedEnds /\ HoldersGoOn)
  <1>1. Init => DoomedEnds
    BY DEF Init, DoomedEnds
  <1>2. IInv => HoldersGoOn
    <2> SUFFICES ASSUME IInv, NEW w \in Workers, NEW v \in Workers,
                        pc[w] = "wait", hold[it[w]][v] # "no"
                 PROVE  /\ pc[v] \in {"got", "held", "release", "exit", "unlock"}
                        /\ pc[v] = "release" => it[v] = it[w]
                        /\ pc[v] = "unlock" => locked[v] /\ plock[Handlers] = it[w]
      BY DEF HoldersGoOn
    <2>1. it[w] \in Locks /\ it[w] = plock[Handlers]
      BY DEF IInv, TypeOK, LockAlive
    <2>2. pc[v] \in WorkerStates
      BY DEF IInv, TypeOK
    <2>3. pc[v] \in {"got", "held", "release", "exit", "unlock"}
      BY <2>1, <2>2 DEF IInv, Holds, WorkerStates
    <2>4. pc[v] = "release" => it[v] = it[w]
      BY <2>1 DEF IInv, LockAlive
    <2>5. pc[v] = "unlock" => locked[v]
      BY <2>1 DEF IInv, Holds
    <2> QED  BY <2>1, <2>3, <2>4, <2>5
  <1> QED  BY <1>1, <1>2, DoomedEndsStep, Invariance, PTL DEF Spec
=============================================================================
