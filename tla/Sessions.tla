-------------------------------- MODULE Sessions --------------------------------
(***************************************************************************)
(* DatabaseManager.session(): request threads that each need a pooled      *)
(* connection for their session, wait for row locks while they hold it,    *)
(* and leave by commit, rollback and close while the database goes away    *)
(* and comes back.  A session takes its connection at its first statement, *)
(* and every method of the repositories that opens a session runs outside  *)
(* any other session, so a thread has at most one connection.              *)
(***************************************************************************)
EXTENDS Integers, FiniteSets

CONSTANTS
    Threads,       \* request threads
    Connections,   \* connection records: pool_size + max_overflow of them
    PoolSize,      \* pool_size: how many records are kept while nobody uses them
    Transactions,  \* rows of PAYMENT_TRANSACTIONS
    References,    \* bank references: who enters one locks it for the others
    Invoices,      \* rows of FEE_INVOICES
    None

Rows == Transactions \cup References \cup Invoices

ASSUME PoolAssumption ==
    /\ PoolSize \in Nat
    /\ IsFiniteSet(Connections)
    /\ PoolSize <= Cardinality(Connections)
ASSUME RowsAssumption ==
    /\ Transactions \cap References = {}
    /\ (Transactions \cup References) \cap Invoices = {}
ASSUME NoneAssumption == None \notin Threads \cup Connections \cup Rows

VARIABLES
    up,      \* whether the database can be reached
    alive,   \* records whose connection works
    idle,    \* records in the queue of the pool
    conn,    \* conn[t]: the record thread t has checked out
    want,    \* want[t]: the row thread t waits for
    locker,  \* locker[r]: the thread whose connection holds the lock of row r
    taken,   \* taken[t]: every row the session of t has been granted (history)
    pc       \* pc[t]: where thread t is in session()

vars == <<up, alive, idle, conn, want, locker, taken, pc>>

InUse == {c \in Connections : \E t \in Threads : conn[t] = c}

(* Variant: an empty queue hands out a record that somebody uses.          *)
AvailableShared(c) == c \in idle \/ idle = {}

(* The limit of the overflow counter: a new record is made only for an     *)
(* empty queue.                                                            *)
Available(c) == c \in idle \/ (idle = {} /\ c \notin InUse)

Goto(t, next) == pc' = [pc EXCEPT ![t] = next]

LockedBy(t) == {r \in Rows : locker[r] = t}

Unlocked(t) == [r \in Rows |-> IF locker[r] = t THEN None ELSE locker[r]]

(* A full queue does not take the record back: it is closed. *)
Queued(c) == IF Cardinality(idle) < PoolSize THEN idle \cup {c} ELSE idle

(* A record that comes back is rolled back, so its row locks end; the      *)
(* session has let go of it.                                               *)
ReturnConnection(t) ==
    /\ conn' = [conn EXCEPT ![t] = None]
    /\ locker' = Unlocked(t)
    /\ taken' = [taken EXCEPT ![t] = {}]
    /\ IF conn[t] = None
       THEN UNCHANGED <<idle, alive>>
       ELSE /\ idle' = Queued(conn[t])
            /\ alive' = IF conn[t] \in idle' THEN alive ELSE alive \ {conn[t]}

-----------------------------------------------------------------------------
Open(t) ==
    /\ pc[t] = "idle"
    /\ Goto(t, "open")
    /\ UNCHANGED <<up, alive, idle, conn, want, locker, taken>>

(* The first statement of the body; pool_pre_ping replaces a connection    *)
(* that does not answer.                                                   *)
Checkout(t, c) ==
    /\ pc[t] = "open"
    /\ Available(c)
    /\ up
    /\ conn' = [conn EXCEPT ![t] = c]
    /\ idle' = idle \ {c}
    /\ alive' = alive \cup {c}
    /\ Goto(t, "body")
    /\ UNCHANGED <<up, want, locker, taken>>

(* No connection can be made; a record from the queue goes back to it. *)
CheckoutFails(t) ==
    /\ pc[t] = "open"
    /\ \E c \in Connections : Available(c)
    /\ ~up
    /\ Goto(t, "failed")
    /\ UNCHANGED <<up, alive, idle, conn, want, locker, taken>>

(* Variant: no pool_timeout, a thread waits for a connection for as long   *)
(* as others are served before it.                                         *)
CheckoutWaits(t) == FALSE

(* pool_timeout seconds have passed. *)
CheckoutTimesOut(t) ==
    /\ pc[t] = "open"
    /\ \A c \in Connections : ~Available(c)
    /\ Goto(t, "failed")
    /\ UNCHANGED <<up, alive, idle, conn, want, locker, taken>>

(* Variant: the rows are locked in any order, or two of a kind. *)
MayLockInAnyOrder(t, r) == r \notin LockedBy(t)

(* The SELECT FOR UPDATE of a webhook, the unique bank reference that its  *)
(* UPDATE enters, and for a success the UPDATE of its invoice.             *)
MayLock(t, r) ==
    /\ r \in Transactions => LockedBy(t) = {}
    /\ r \in References => LockedBy(t) # {} /\ LockedBy(t) \subseteq Transactions
    /\ r \in Invoices => LockedBy(t) # {} /\ LockedBy(t) \cap Invoices = {}

AskForRow(t, r) ==
    /\ pc[t] = "body"
    /\ conn[t] \in alive
    /\ MayLock(t, r)
    /\ want' = [want EXCEPT ![t] = r]
    /\ Goto(t, "blocked")
    /\ UNCHANGED <<up, alive, idle, conn, locker, taken>>

LockRow(t) ==
    /\ pc[t] = "blocked"
    /\ conn[t] \in alive
    /\ locker[want[t]] = None
    /\ locker' = [locker EXCEPT ![want[t]] = t]
    /\ taken' = [taken EXCEPT ![t] = @ \cup {want[t]}]
    /\ want' = [want EXCEPT ![t] = None]
    /\ Goto(t, "body")
    /\ UNCHANGED <<up, alive, idle, conn>>

(* A statement, or Python code between two statements, raises; a thread    *)
(* that waits for a row finds out when its connection is gone.             *)
BodyRaises(t) ==
    /\ \/ pc[t] = "body"
       \/ pc[t] = "blocked" /\ conn[t] \notin alive
    /\ want' = [want EXCEPT ![t] = None]
    /\ Goto(t, "failed")
    /\ UNCHANGED <<up, alive, idle, conn, locker, taken>>

Commit(t) ==
    /\ pc[t] = "body"
    /\ conn[t] \in alive
    /\ ReturnConnection(t)
    /\ Goto(t, "finally")
    /\ UNCHANGED <<up, want>>

(* sess.rollback(); it may raise itself, and close is left to clean up.    *)
Rollback(t) ==
    /\ pc[t] = "failed"
    /\ \/ ReturnConnection(t)
       \/ UNCHANGED <<alive, idle, conn, locker, taken>>
    /\ Goto(t, "finally")
    /\ UNCHANGED <<up, want>>

(* Variant: no finally, the connection is left to the garbage collector.   *)
CloseForgets(t) == UNCHANGED <<alive, idle, conn, locker, taken>>

CloseSession(t) == ReturnConnection(t)

Close(t) ==
    /\ pc[t] = "finally"
    /\ CloseSession(t)
    /\ Goto(t, "idle")
    /\ UNCHANGED <<up, want>>

-----------------------------------------------------------------------------
(* The database stops, or the network to it: every connection is dead, and *)
(* the database rolls back what they had begun.                            *)
GoDown ==
    /\ up
    /\ up' = FALSE
    /\ alive' = {}
    /\ locker' = [r \in Rows |-> None]
    /\ UNCHANGED <<idle, conn, want, taken, pc>>

ComeUp ==
    /\ ~up
    /\ up' = TRUE
    /\ UNCHANGED <<alive, idle, conn, want, locker, taken, pc>>

-----------------------------------------------------------------------------
Init ==
    /\ up = TRUE
    /\ alive = {}
    /\ idle = {}
    /\ conn = [t \in Threads |-> None]
    /\ want = [t \in Threads |-> None]
    /\ locker = [r \in Rows |-> None]
    /\ taken = [t \in Threads |-> {}]
    /\ pc = [t \in Threads |-> "idle"]

Proceed(t) ==
    \/ \E c \in Connections : Checkout(t, c)
    \/ CheckoutFails(t)
    \/ CheckoutTimesOut(t)
    \/ BodyRaises(t)
    \/ Commit(t)
    \/ Rollback(t)
    \/ Close(t)

Next ==
    \/ \E t \in Threads :
          \/ Open(t)
          \/ \E r \in Rows : AskForRow(t, r)
          \/ LockRow(t)
          \/ Proceed(t)
    \/ GoDown
    \/ ComeUp

Spec == Init /\ [][Next]_vars

(* A thread that can go on does; the database grants a row to its waiters  *)
(* in turn.  Nothing is assumed of the pool: a thread that waits for it    *)
(* gets a connection or its time runs out.                                 *)
FairSpec ==
    Spec /\ \A t \in Threads : WF_vars(Proceed(t)) /\ SF_vars(LockRow(t))

-----------------------------------------------------------------------------
TypeOK ==
    /\ up \in BOOLEAN
    /\ alive \in SUBSET Connections
    /\ idle \in SUBSET Connections
    /\ conn \in [Threads -> Connections \cup {None}]
    /\ want \in [Threads -> Rows \cup {None}]
    /\ locker \in [Rows -> Threads \cup {None}]
    /\ taken \in [Threads -> SUBSET Rows]
    /\ pc \in [Threads -> {"idle", "open", "body", "blocked", "failed", "finally"}]

(***************************************************************************)
(* A thread has a connection from its first statement to the end of its    *)
(* session, nobody else has the same one, and only they own row locks.     *)
(***************************************************************************)
ConnectionMatchesPc ==
    \A t \in Threads :
        /\ pc[t] \in {"idle", "open"} => conn[t] = None
        /\ pc[t] \in {"body", "blocked"} => conn[t] # None
        /\ (want[t] # None) = (pc[t] = "blocked")

ConnectionsAreExclusive ==
    \A t \in Threads : conn[t] # None =>
        /\ conn[t] \notin idle
        /\ \A u \in Threads : conn[u] = conn[t] => u = t

PoolIsKept ==
    /\ alive \subseteq idle \cup InUse
    /\ Cardinality(idle) <= PoolSize
    /\ up \/ alive = {}

LocksAreOfTheLiving == \A r \in Rows : locker[r] # None => conn[locker[r]] \in alive

LocksAreKept ==
    \A t \in Threads :
        /\ conn[t] \in alive => LockedBy(t) = taken[t]
        /\ conn[t] = None => taken[t] = {}

LocksAreOrdered ==
    \A t \in Threads : pc[t] = "blocked" /\ conn[t] \in alive => MayLock(t, want[t])

IInv ==
    /\ TypeOK
    /\ ConnectionMatchesPc
    /\ ConnectionsAreExclusive
    /\ PoolIsKept
    /\ LocksAreOfTheLiving
    /\ LocksAreKept
    /\ LocksAreOrdered

(***************************************************************************)
(* The limit of the pool cannot deadlock with the row locks: a thread that *)
(* waits for a connection keeps no row and no connection from others, and  *)
(* whoever holds up a thread that waits for a row is either running or     *)
(* waits for a row of a later kind, so nobody waits for itself through     *)
(* others.                                                                 *)
(***************************************************************************)
Later(r, q) ==
    \/ r \in Transactions /\ q \in References \cup Invoices
    \/ r \in References /\ q \in Invoices

WaitsEnd ==
    \A t \in Threads :
        /\ pc[t] = "open" => conn[t] = None /\ LockedBy(t) = {}
        /\ \A u \in Threads :
              pc[t] = "blocked" /\ pc[u] = "blocked" /\ locker[want[t]] = u
              => Later(want[t], want[u])

(***************************************************************************)
(* When no session is open, whatever failed before, no row is locked and   *)
(* the database has at most pool_size connections open.                    *)
(***************************************************************************)
RestIsQuiet ==
    (\A t \in Threads : pc[t] = "idle") =>
        /\ \A r \in Rows : locker[r] = None
        /\ Cardinality(alive) <= PoolSize

(***************************************************************************)
(* A session that commits (database_manager.py:355) still holds every row  *)
(* it has locked: an outage ends row locks, others may take the rows once  *)
(* it is over, and no session that lost one gets its commit through on a   *)
(* connection made since, for itself or for somebody else.                 *)
(***************************************************************************)
CommitsHoldTheirLocks ==
    [][\A t \in Threads :
          pc[t] = "body" /\ pc'[t] = "finally" => LockedBy(t) = taken[t]]_vars

(***************************************************************************)
(* Every session ends, with a commit or an error: neither the pool, nor    *)
(* the row locks, nor an outage keeps a request thread for ever.           *)
(***************************************************************************)
SessionsEnd == \A t \in Threads : pc[t] # "idle" ~> pc[t] = "idle"
===============================================================================
