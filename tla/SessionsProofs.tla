--------------------------- MODULE SessionsProofs ---------------------------
(* Proofs about Sessions, for any threads, rows and size of the pool. *)
EXTENDS Sessions, FiniteSetTheorems, TLAPS

(* Giving a connection back ends the thread's locks and no others.         *)
LEMMA ReturnIsClean ==
  ASSUME IInv, NEW t \in Threads, ReturnConnection(t)
  PROVE  /\ conn' = [conn EXCEPT ![t] = None]
         /\ locker' = Unlocked(t)
         /\ conn' \in [Threads -> Connections \cup {None}]
         /\ locker' \in [Rows -> Threads \cup {None}]
         /\ taken' = [taken EXCEPT ![t] = {}]
         /\ \A r \in Rows : locker'[r] # None =>
               locker'[r] = locker[r] /\ locker'[r] # t
<1>1. /\ conn' = [conn EXCEPT ![t] = None] /\ locker' = Unlocked(t)
      /\ taken' = [taken EXCEPT ![t] = {}]
  BY DEF ReturnConnection
<1>2. QED
  BY <1>1 DEF IInv, TypeOK, Unlocked

(* The queue stays within pool_size, and what is neither in it nor in use  *)
(* is closed.                                                              *)
LEMMA ReturnKeepsPool ==
  ASSUME IInv, NEW t \in Threads, ReturnConnection(t), up' = up
  PROVE  /\ idle' \in SUBSET Connections
         /\ alive' \in SUBSET Connections
         /\ PoolIsKept'
         /\ \A u \in Threads : u # t /\ conn[u] # None => conn[u] \notin idle'
         /\ \A u \in Threads : u # t /\ conn[u] \in alive => conn[u] \in alive'
<1> USE PoolAssumption, NoneAssumption
<1>1. conn' = [conn EXCEPT ![t] = None]
  BY DEF ReturnConnection
<1>2. CASE conn[t] = None
  <2>1. idle' = idle /\ alive' = alive
    BY <1>2 DEF ReturnConnection
  <2>2. InUse' = InUse
    BY <1>1, <1>2 DEF InUse, IInv, TypeOK
  <2>3. QED
    BY <2>1, <2>2 DEF IInv, TypeOK, PoolIsKept, ConnectionsAreExclusive
<1>3. CASE conn[t] # None
  <2> DEFINE c == conn[t]
  <2>1. c \in Connections /\ c \notin idle
    BY <1>3 DEF IInv, TypeOK, ConnectionsAreExclusive
  <2>2. idle' = Queued(c) /\ alive' = IF c \in idle' THEN alive ELSE alive \ {c}
    BY <1>3 DEF ReturnConnection
  <2>3. IsFiniteSet(idle) /\ Cardinality(idle) \in Nat
    BY FS_Subset, FS_CardinalityType DEF IInv, TypeOK
  <2>4. Cardinality(idle \cup {c}) = Cardinality(idle) + 1
    BY <2>1, <2>3, FS_AddElement
  <2>5. Cardinality(idle') <= PoolSize
    BY <2>2, <2>3, <2>4 DEF Queued, IInv, PoolIsKept
  <2>6. \A u \in Threads : u # t /\ conn[u] # None => conn[u] # c
    BY <1>3 DEF IInv, ConnectionsAreExclusive
  <2>7. \A u \in Threads : u # t => conn'[u] = conn[u]
    BY <1>1 DEF IInv, TypeOK
  <2>8. InUse \ {c} \subseteq InUse'
    BY <2>7 DEF InUse
  <2>9. alive' \subseteq idle' \cup InUse'
    BY <2>2, <2>8 DEF Queued, IInv, PoolIsKept
  <2>10. PoolIsKept'
    BY <2>2, <2>5, <2>9 DEF IInv, PoolIsKept
  <2>11. \A u \in Threads : u # t /\ conn[u] # None => conn[u] \notin idle'
    BY <2>2, <2>6 DEF Queued, IInv, ConnectionsAreExclusive
  <2>12. \A u \in Threads : u # t /\ conn[u] \in alive => conn[u] \in alive'
    BY <2>2, <2>6 DEF IInv, TypeOK
  <2>13. QED
    BY <2>1, <2>2, <2>10, <2>11, <2>12 DEF Queued, IInv, TypeOK
<1>4. QED
  BY <1>2, <1>3

(* A thread that gives its connection back, and waits for nothing, keeps   *)
(* the invariant wherever it goes next.                                    *)
LEMMA ReturnKeepsIInv ==
  ASSUME IInv, NEW t \in Threads, NEW next \in {"idle", "finally"},
         ReturnConnection(t), Goto(t, next), UNCHANGED <<up, want>>, pc[t] # "blocked"
  PROVE  IInv'
<1> USE NoneAssumption
<1>1. /\ conn' = [conn EXCEPT ![t] = None]
      /\ conn' \in [Threads -> Connections \cup {None}]
      /\ locker' \in [Rows -> Threads \cup {None}]
      /\ taken' = [taken EXCEPT ![t] = {}]
      /\ \A r \in Rows : locker'[r] # None => locker'[r] = locker[r] /\ locker'[r] # t
  BY ReturnIsClean
<1>2. /\ idle' \in SUBSET Connections
      /\ alive' \in SUBSET Connections
      /\ PoolIsKept'
      /\ \A u \in Threads : u # t /\ conn[u] # None => conn[u] \notin idle'
      /\ \A u \in Threads : u # t /\ conn[u] \in alive => conn[u] \in alive'
  BY ReturnKeepsPool
<1>3. TypeOK'
  BY <1>1, <1>2 DEF Goto, IInv, TypeOK
<1>4. ConnectionMatchesPc'
  BY <1>1 DEF Goto, IInv, TypeOK, ConnectionMatchesPc
<1>5. ConnectionsAreExclusive'
  BY <1>1, <1>2 DEF IInv, TypeOK, ConnectionsAreExclusive
<1>6. LocksAreOfTheLiving'
  BY <1>1, <1>2 DEF IInv, TypeOK, LocksAreOfTheLiving
<1>7. ASSUME NEW u \in Threads, pc'[u] = "blocked", conn'[u] \in alive'
      PROVE  MayLock(u, want[u])'
  <2>1. u # t /\ pc[u] = "blocked" /\ conn'[u] = conn[u]
    BY <1>1, <1>7 DEF Goto, IInv, TypeOK
  <2>2. conn[u] \in alive
    BY <1>7, <2>1 DEF ReturnConnection
  <2>3. MayLock(u, want[u])
    BY <2>1, <2>2 DEF IInv, LocksAreOrdered
  <2>4. LockedBy(u)' = LockedBy(u)
    BY <2>1, ReturnIsClean DEF LockedBy, Unlocked, IInv, TypeOK
  <2>5. QED
    BY <2>3, <2>4 DEF MayLock
<1>8. LocksAreOrdered'
  BY <1>7 DEF LocksAreOrdered
<1>9. LocksAreKept'
  <2>1. conn'[t] = None /\ taken'[t] = {} /\ None \notin alive'
    BY <1>1, <1>2 DEF IInv, TypeOK
  <2>2. ASSUME NEW u \in Threads, u # t
        PROVE  (conn'[u] \in alive' => LockedBy(u)' = taken'[u])
               /\ (conn'[u] = None => taken'[u] = {})
    <3>1. conn'[u] = conn[u] /\ taken'[u] = taken[u]
      BY <1>1, <2>2 DEF IInv, TypeOK
    <3>2. conn'[u] \in alive' => conn[u] \in alive
      BY <3>1 DEF ReturnConnection
    <3>3. LockedBy(u)' = LockedBy(u)
      BY <2>2, ReturnIsClean DEF LockedBy, Unlocked, IInv, TypeOK
    <3>4. QED
      BY <3>1, <3>2, <3>3 DEF IInv, LocksAreKept
  <2>3. QED
    BY <2>1, <2>2 DEF LocksAreKept
<1>10. QED
  BY <1>2, <1>3, <1>4, <1>5, <1>6, <1>8, <1>9 DEF IInv

(* A step that moves only the program counter of one thread.               *)
LEMMA MoveKeepsIInv ==
  ASSUME IInv, NEW t \in Threads, NEW next \in {"open", "failed", "finally"},
         Goto(t, next), want' = [want EXCEPT ![t] = None],
         UNCHANGED <<up, alive, idle, conn, locker, taken>>,
         next = "open" => conn[t] = None
  PROVE  IInv'
<1>1. TypeOK'
  BY DEF Goto, IInv, TypeOK
<1>2. \A u \in Threads : u # t => pc'[u] = pc[u] /\ want'[u] = want[u]
  BY DEF Goto, IInv, TypeOK
<1>3. pc'[t] = next /\ want'[t] = None
  BY DEF Goto, IInv, TypeOK
<1>4. ConnectionMatchesPc'
  BY <1>2, <1>3 DEF IInv, ConnectionMatchesPc
<1>5. InUse' = InUse
  BY DEF InUse
<1>6. ConnectionsAreExclusive' /\ PoolIsKept' /\ LocksAreOfTheLiving'
  BY <1>5 DEF IInv, ConnectionsAreExclusive, PoolIsKept, LocksAreOfTheLiving
<1>7. LocksAreOrdered'
  BY <1>2, <1>3 DEF IInv, LocksAreOrdered, MayLock, LockedBy
<1>8. LocksAreKept'
  BY DEF IInv, LocksAreKept, LockedBy
<1>9. QED
  BY <1>1, <1>4, <1>6, <1>7, <1>8 DEF IInv

LEMMA IInvInit == ASSUME Init PROVE IInv
<1>1. Cardinality({}) = 0
  BY FS_EmptySet
<1>2. QED
  BY <1>1, PoolAssumption
     DEF Init, IInv, TypeOK, ConnectionMatchesPc, ConnectionsAreExclusive, PoolIsKept,
         LocksAreOfTheLiving, LocksAreKept, LocksAreOrdered

(* A thread without a connection has no row locked.                        *)
LEMMA OpenHoldsNothing ==
  ASSUME IInv, NEW t \in Threads, conn[t] = None
  PROVE  LockedBy(t) = {}
<1>1. None \notin alive /\ t # None
  BY NoneAssumption DEF IInv, TypeOK
<1>2. QED
  BY <1>1 DEF LockedBy, IInv, LocksAreOfTheLiving

(* A first statement gets a record nobody has and a connection that works. *)
LEMMA CheckoutKeepsIInv ==
  ASSUME IInv, NEW t \in Threads, NEW c \in Connections, Checkout(t, c)
  PROVE  IInv'
<1> USE NoneAssumption, PoolAssumption
<1>1. /\ conn' = [conn EXCEPT ![t] = c]
      /\ conn[t] = None
      /\ idle' = idle \ {c}
      /\ alive' = alive \cup {c}
      /\ up' = up /\ up /\ want' = want /\ locker' = locker /\ taken' = taken
      /\ pc' = [pc EXCEPT ![t] = "body"] /\ pc[t] = "open"
  BY DEF Checkout, Goto, IInv, ConnectionMatchesPc
<1>2. c \notin InUse
  BY DEF Checkout, Available, IInv, ConnectionsAreExclusive, InUse
<1>3. TypeOK'
  BY <1>1 DEF IInv, TypeOK
<1>4. ConnectionMatchesPc'
  BY <1>1 DEF IInv, TypeOK, ConnectionMatchesPc
<1>5. ConnectionsAreExclusive'
  BY <1>1, <1>2 DEF IInv, TypeOK, ConnectionsAreExclusive, InUse
<1>6. PoolIsKept'
  <2>1. InUse \cup {c} \subseteq InUse'
    BY <1>1 DEF InUse, IInv, TypeOK
  <2>2. alive' \subseteq idle' \cup InUse'
    BY <1>1, <2>1 DEF IInv, PoolIsKept
  <2>3. IsFiniteSet(idle) /\ Cardinality(idle) \in Nat
    BY FS_Subset, FS_CardinalityType DEF IInv, TypeOK
  <2>4. Cardinality(idle') <= Cardinality(idle) /\ Cardinality(idle') \in Nat
    BY <1>1, <2>3, FS_Subset, FS_CardinalityType
  <2>5. QED
    BY <1>1, <2>2, <2>3, <2>4 DEF IInv, PoolIsKept
<1>7. LocksAreOfTheLiving'
  BY <1>1 DEF IInv, TypeOK, LocksAreOfTheLiving
<1>8. ASSUME NEW u \in Threads, pc'[u] = "blocked", conn'[u] \in alive'
      PROVE  MayLock(u, want[u])'
  <2>1. u # t /\ pc[u] = "blocked" /\ conn'[u] = conn[u]
    BY <1>1, <1>8 DEF IInv, TypeOK
  <2>2. conn[u] # c
    BY <1>2, <2>1 DEF InUse, IInv, TypeOK
  <2>3. QED
    BY <1>1, <1>8, <2>1, <2>2 DEF IInv, LocksAreOrdered, MayLock, LockedBy
<1>9. LocksAreKept'
  <2>1. \A u \in Threads : LockedBy(u)' = LockedBy(u)
    BY <1>1 DEF LockedBy
  <2>2. taken[t] = {} /\ LockedBy(t) = {}
    BY <1>1, OpenHoldsNothing DEF IInv, LocksAreKept
  <2>3. \A u \in Threads : u # t => conn'[u] = conn[u] /\ conn[u] # c
    BY <1>1, <1>2 DEF InUse, IInv, TypeOK
  <2>4. conn'[t] = c /\ c # None
    BY <1>1 DEF IInv, TypeOK
  <2>5. QED
    BY <1>1, <2>1, <2>2, <2>3, <2>4 DEF IInv, LocksAreKept
<1>10. QED
  BY <1>3, <1>4, <1>5, <1>6, <1>7, <1>8, <1>9 DEF IInv, LocksAreOrdered

(* A lock that is granted goes to a thread that asked in order.            *)
LEMMA LockingKeepsIInv ==
  ASSUME IInv, NEW t \in Threads, NEW r \in Rows, AskForRow(t, r) \/ LockRow(t)
  PROVE  IInv'
<1> USE NoneAssumption, RowsAssumption
<1>1. ASSUME AskForRow(t, r)
      PROVE  IInv'
  <2>1. /\ want' = [want EXCEPT ![t] = r] /\ r # None
        /\ pc' = [pc EXCEPT ![t] = "blocked"] /\ pc[t] = "body" /\ MayLock(t, r)
        /\ UNCHANGED <<up, alive, idle, conn, locker, taken>>
    BY <1>1 DEF AskForRow, Goto
  <2>2. TypeOK' /\ ConnectionMatchesPc'
    BY <2>1 DEF IInv, TypeOK, ConnectionMatchesPc
  <2>3. ConnectionsAreExclusive' /\ PoolIsKept' /\ LocksAreOfTheLiving'
    BY <2>1 DEF IInv, ConnectionsAreExclusive, PoolIsKept, LocksAreOfTheLiving, InUse
  <2>4. LocksAreOrdered'
    BY <2>1 DEF IInv, TypeOK, LocksAreOrdered, MayLock, LockedBy
  <2>5. LocksAreKept'
    BY <2>1 DEF IInv, LocksAreKept, LockedBy
  <2>6. QED
    BY <2>2, <2>3, <2>4, <2>5 DEF IInv
<1>2. ASSUME LockRow(t)
      PROVE  IInv'
  <2> DEFINE w == want[t]
  <2>1. /\ w \in Rows /\ locker[w] = None
        /\ locker' = [locker EXCEPT ![w] = t]
        /\ want' = [want EXCEPT ![t] = None]
        /\ taken' = [taken EXCEPT ![t] = @ \cup {w}]
        /\ pc' = [pc EXCEPT ![t] = "body"] /\ pc[t] = "blocked" /\ conn[t] \in alive
        /\ UNCHANGED <<up, alive, idle, conn>>
    BY <1>2 DEF LockRow, Goto, IInv, TypeOK, ConnectionMatchesPc
  <2> HIDE DEF w
  <2>2. TypeOK' /\ ConnectionMatchesPc'
    BY <2>1 DEF IInv, TypeOK, ConnectionMatchesPc
  <2>3. ConnectionsAreExclusive' /\ PoolIsKept'
    BY <2>1 DEF IInv, ConnectionsAreExclusive, PoolIsKept, InUse
  <2>4. LocksAreOfTheLiving'
    BY <2>1 DEF IInv, TypeOK, LocksAreOfTheLiving
  <2>5. ASSUME NEW u \in Threads, pc'[u] = "blocked", conn'[u] \in alive'
        PROVE  MayLock(u, want[u])'
    <3>1. u # t /\ pc[u] = "blocked" /\ want'[u] = want[u]
      BY <2>1, <2>5 DEF IInv, TypeOK
    <3>2. LockedBy(u)' = LockedBy(u)
      BY <2>1, <3>1 DEF LockedBy, IInv, TypeOK
    <3>3. MayLock(u, want[u])
      BY <2>1, <2>5, <3>1 DEF IInv, LocksAreOrdered
    <3>4. QED
      BY <3>1, <3>2, <3>3 DEF MayLock
  <2>6. LocksAreKept'
    <3>1. LockedBy(t)' = LockedBy(t) \cup {w} /\ taken'[t] = taken[t] \cup {w}
      BY <2>1 DEF LockedBy, IInv, TypeOK
    <3>2. \A u \in Threads : u # t => LockedBy(u)' = LockedBy(u) /\ taken'[u] = taken[u]
      BY <2>1 DEF LockedBy, IInv, TypeOK
    <3>3. conn[t] # None
      BY <2>1 DEF IInv, TypeOK
    <3>4. QED
      BY <2>1, <3>1, <3>2, <3>3 DEF IInv, LocksAreKept
  <2>7. QED
    BY <2>2, <2>3, <2>4, <2>5, <2>6 DEF IInv, LocksAreOrdered
<1>3. QED
  BY <1>1, <1>2

(* An outage ends connections and locks, the end of one brings none back.  *)
LEMMA OutageKeepsIInv ==
  ASSUME IInv, GoDown \/ ComeUp
  PROVE  IInv'
<1> USE NoneAssumption
<1>1. CASE GoDown
  <2>1. /\ up' = FALSE /\ alive' = {} /\ locker' = [r \in Rows |-> None]
        /\ UNCHANGED <<idle, conn, want, taken, pc>>
    BY <1>1 DEF GoDown
  <2>2. TypeOK' /\ ConnectionMatchesPc' /\ ConnectionsAreExclusive'
    BY <2>1 DEF IInv, TypeOK, ConnectionMatchesPc, ConnectionsAreExclusive
  <2>3. PoolIsKept' /\ LocksAreOfTheLiving' /\ LocksAreKept' /\ LocksAreOrdered'
    BY <2>1 DEF IInv, PoolIsKept, LocksAreOfTheLiving, LocksAreKept, LocksAreOrdered
  <2>4. QED
    BY <2>2, <2>3 DEF IInv
<1>2. CASE ComeUp
  <2>1. up' = TRUE /\ UNCHANGED <<alive, idle, conn, want, locker, taken, pc>>
    BY <1>2 DEF ComeUp
  <2>2. TypeOK' /\ ConnectionMatchesPc' /\ ConnectionsAreExclusive'
    BY <2>1 DEF IInv, TypeOK, ConnectionMatchesPc, ConnectionsAreExclusive
  <2>3. PoolIsKept' /\ LocksAreOfTheLiving' /\ LocksAreKept' /\ LocksAreOrdered'
    BY <2>1
       DEF IInv, PoolIsKept, LocksAreOfTheLiving, LocksAreKept, LocksAreOrdered, InUse, MayLock,
           LockedBy
  <2>4. QED
    BY <2>2, <2>3 DEF IInv
<1>3. QED
  BY <1>1, <1>2

LEMMA IInvStep == ASSUME IInv, [Next]_vars PROVE IInv'
<1> USE NoneAssumption
<1>1. ASSUME NEW t \in Threads, Open(t)
      PROVE  IInv'
  <2>1. want' = [want EXCEPT ![t] = None] /\ conn[t] = None
    BY <1>1 DEF Open, IInv, TypeOK, ConnectionMatchesPc
  <2>2. QED
    BY <1>1, <2>1, MoveKeepsIInv DEF Open
<1>2. ASSUME NEW t \in Threads, NEW c \in Connections, Checkout(t, c)
      PROVE  IInv'
  BY <1>2, CheckoutKeepsIInv
<1>3. ASSUME NEW t \in Threads, CheckoutFails(t) \/ CheckoutTimesOut(t)
      PROVE  IInv'
  <2>1. want' = [want EXCEPT ![t] = None]
    BY <1>3 DEF CheckoutFails, CheckoutTimesOut, IInv, TypeOK, ConnectionMatchesPc
  <2>2. QED
    BY <1>3, <2>1, MoveKeepsIInv DEF CheckoutFails, CheckoutTimesOut
<1>4. ASSUME NEW t \in Threads, NEW r \in Rows, AskForRow(t, r)
      PROVE  IInv'
  BY <1>4, LockingKeepsIInv
<1>5. ASSUME NEW t \in Threads, LockRow(t)
      PROVE  IInv'
  <2>1. want[t] \in Rows
    BY <1>5 DEF LockRow, IInv, TypeOK, ConnectionMatchesPc
  <2>2. QED
    BY <1>5, <2>1, LockingKeepsIInv
<1>6. ASSUME NEW t \in Threads, BodyRaises(t)
      PROVE  IInv'
  BY <1>6, MoveKeepsIInv DEF BodyRaises
<1>7. ASSUME NEW t \in Threads, Commit(t)
      PROVE  IInv'
  <2>1. pc[t] # "blocked" /\ "finally" \in {"idle", "finally"}
    BY <1>7 DEF Commit
  <2>2. QED
    BY <1>7, <2>1, ReturnKeepsIInv DEF Commit
<1>8. ASSUME NEW t \in Threads, Rollback(t)
      PROVE  IInv'
  <2>1. pc[t] # "blocked" /\ "finally" \in {"idle", "finally"}
    BY <1>8 DEF Rollback
  <2>2. want' = [want EXCEPT ![t] = None]
    BY <1>8 DEF Rollback, IInv, TypeOK, ConnectionMatchesPc
  <2>3. QED
    BY <1>8, <2>1, <2>2, ReturnKeepsIInv, MoveKeepsIInv DEF Rollback
<1>9. ASSUME NEW t \in Threads, Close(t)
      PROVE  IInv'
  <2>1. pc[t] # "blocked" /\ "idle" \in {"idle", "finally"}
    BY <1>9 DEF Close
  <2>2. QED
    BY <1>9, <2>1, ReturnKeepsIInv DEF Close, CloseSession
<1>10. ASSUME GoDown \/ ComeUp
       PROVE  IInv'
  BY <1>10, OutageKeepsIInv
<1>11. ASSUME UNCHANGED vars
       PROVE  IInv'
  BY <1>11
     DEF vars, IInv, TypeOK, ConnectionMatchesPc, ConnectionsAreExclusive, PoolIsKept,
         LocksAreOfTheLiving, LocksAreKept, LocksAreOrdered, InUse, MayLock, LockedBy
<1>12. QED
  BY <1>1, <1>2, <1>3, <1>4, <1>5, <1>6, <1>7, <1>8, <1>9, <1>10, <1>11 DEF Next, Proceed

(* The invariant holds in every reachable state: a connection belongs to   *)
(* one thread, and row locks to threads whose connection works.            *)
THEOREM Invariance == Spec => []IInv
<1>1. Init => IInv
  BY IInvInit
<1>2. IInv /\ [Next]_vars => IInv'
  BY IInvStep
<1>3. QED
  BY <1>1, <1>2, PTL DEF Spec

LEMMA WaitsEndFromInv == ASSUME IInv PROVE WaitsEnd
<1> USE NoneAssumption, RowsAssumption
<1>1. ASSUME NEW t \in Threads, pc[t] = "open"
      PROVE  conn[t] = None /\ LockedBy(t) = {}
  <2>1. conn[t] = None
    BY <1>1 DEF IInv, ConnectionMatchesPc
  <2>2. ASSUME NEW r \in Rows, locker[r] = t
        PROVE  FALSE
    <3>1. t # None
      OBVIOUS
    <3>2. conn[t] \in alive
      BY <2>2, <3>1 DEF IInv, LocksAreOfTheLiving
    <3>3. QED
      BY <2>1, <3>2 DEF IInv, TypeOK
  <2>3. QED
    BY <2>1, <2>2 DEF LockedBy
<1>2. ASSUME NEW t \in Threads, NEW u \in Threads,
             pc[t] = "blocked", pc[u] = "blocked", locker[want[t]] = u
      PROVE  Later(want[t], want[u])
  <2>1. want[t] \in Rows /\ want[u] \in Rows
    BY <1>2 DEF IInv, TypeOK, ConnectionMatchesPc
  <2>2. conn[u] \in alive /\ want[t] \in LockedBy(u)
    BY <1>2, <2>1 DEF LockedBy, IInv, LocksAreOfTheLiving
  <2>3. MayLock(u, want[u])
    BY <1>2, <2>2 DEF IInv, LocksAreOrdered
  <2>4. QED
    BY <2>1, <2>2, <2>3 DEF MayLock, Rows, Later
<1>3. QED
  BY <1>1, <1>2 DEF WaitsEnd

(* Pool and row locks cannot deadlock: who waits for a connection holds    *)
(* nothing, and each in a chain of waiting threads waits for a row of a    *)
(* later kind than the one before it, so the chain has at most three.      *)
THEOREM NoDeadlock == Spec => []WaitsEnd
<1>1. IInv => WaitsEnd
  BY WaitsEndFromInv
<1>2. QED
  BY <1>1, Invariance, PTL

LEMMA RestIsQuietFromInv == ASSUME IInv PROVE RestIsQuiet
<1> USE NoneAssumption, PoolAssumption
<1> SUFFICES ASSUME \A t \in Threads : pc[t] = "idle"
             PROVE  (\A r \in Rows : locker[r] = None) /\ Cardinality(alive) <= PoolSize
  BY DEF RestIsQuiet
<1>1. \A t \in Threads : conn[t] = None
  BY DEF IInv, ConnectionMatchesPc
<1>2. \A r \in Rows : locker[r] = None
  BY <1>1 DEF IInv, TypeOK, LocksAreOfTheLiving
<1>3. alive \subseteq idle
  BY <1>1 DEF IInv, PoolIsKept, InUse
<1>4. IsFiniteSet(idle) /\ Cardinality(idle) \in Nat
  BY FS_Subset, FS_CardinalityType DEF IInv, TypeOK
<1>5. Cardinality(alive) <= Cardinality(idle) /\ Cardinality(alive) \in Nat
  BY <1>3, <1>4, FS_Subset, FS_CardinalityType
<1>6. QED
  BY <1>2, <1>4, <1>5 DEF IInv, PoolIsKept

(* Between sessions nothing is locked and pool_size bounds what is open.   *)
THEOREM QuietAtRest == Spec => []RestIsQuiet
<1>1. IInv => RestIsQuiet
  BY RestIsQuietFromInv
<1>2. QED
  BY <1>1, Invariance, PTL

LEMMA OnlyCommitEndsABody ==
  ASSUME IInv, [Next]_vars, NEW t \in Threads, pc[t] = "body", pc'[t] = "finally"
  PROVE  Commit(t)
BY DEF Next, Proceed, Open, Checkout, CheckoutFails, CheckoutTimesOut, AskForRow, LockRow,
       BodyRaises, Commit, Rollback, Close, GoDown, ComeUp, Goto, vars, IInv, TypeOK

(* A commit goes through only for a session that holds all it has locked,  *)
(* whatever outages came and went and whoever took the rows since.         *)
THEOREM LocksReachTheCommit == Spec => CommitsHoldTheirLocks
<1>1. ASSUME IInv, [Next]_vars, NEW t \in Threads, pc[t] = "body", pc'[t] = "finally"
      PROVE  LockedBy(t) = taken[t]
  <2>1. conn[t] \in alive
    BY <1>1, OnlyCommitEndsABody DEF Commit
  <2>2. QED
    BY <1>1, <2>1 DEF IInv, LocksAreKept
<1>2. IInv /\ [Next]_vars =>
        [\A t \in Threads : pc[t] = "body" /\ pc'[t] = "finally" => LockedBy(t) = taken[t]]_vars
  BY <1>1
<1>3. QED
  BY <1>2, Invariance, PTL DEF Spec, CommitsHoldTheirLocks
===============================================================================
