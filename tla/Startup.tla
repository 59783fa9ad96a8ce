-------------------------------- MODULE Startup --------------------------------
(***************************************************************************)
(* How the process comes by its services: the three lazy singletons        *)
(* Bootstrap, ApplicationContext and ConfigurationManager, each with its   *)
(* double-checked lock, and DatabaseManager.initialise with its retries.   *)
(* Nothing runs at import time: the first requests race to build, every    *)
(* build may fail half way, and a failed request leaves what it published. *)
(*                                                                         *)
(* A step ends where another thread may look: at a lock, at a class        *)
(* attribute that is read or set, at a connection attempt.                 *)
(***************************************************************************)
EXTENDS Integers

CONSTANTS
    Threads,         \* request threads; each calls get_services
    Resetters,       \* those that may call Bootstrap.reset (tests only)
    Engines,         \* engines that may be opened (bounds the run)
    ConnectRetries,  \* DB_CONNECT_RETRIES
    Pending,         \* outcome of a call that has not returned
    Raised,          \* outcome of a call that raised
    None             \* Python None

Locks == {"Bootstrap", "ApplicationContext", "ConfigurationManager"}

(* An ApplicationContext is named by the engine it owns, an AppServices by *)
(* its context and the thread that wired it.                               *)
AppServices == [ctx : Engines, by : Threads]

Outcome == AppServices \cup {Pending, Raised, None}

ASSUME ThreadsAssumption ==
    /\ Resetters \subseteq Threads
    /\ ConnectRetries \in Nat \ {0}
ASSUME NoneAssumption ==
    /\ None \notin Threads \cup Engines \cup AppServices \cup {Pending, Raised}
    /\ {Pending, Raised} \cap AppServices = {}

VARIABLES
    services,     \* Bootstrap._instance
    context,      \* ApplicationContext._instance
    config,       \* whether ConfigurationManager._instance is set
    holder,       \* holder[l]: the thread that holds lock l
    initialised,  \* engines whose DatabaseManager is initialised
    opened,       \* engines ever opened
    attempt,      \* failed connection attempts of the running initialise
    engine,       \* engine[t]: the one thread t opened, until it is published
    pc,           \* pc[t]: where thread t is
    result        \* result[t]: what its last call returned

published == <<services, context, config>>
pools == <<initialised, opened>>
vars == <<services, context, config, holder, initialised, opened, attempt, engine,
          pc, result>>

BuildPc == {"bootstrap", "lockContext", "config", "load", "folders", "connect",
            "health", "wire"}
CallPc == {"return", "lockServices"} \cup BuildPc
ResetPc == {"dispose", "clearContext", "clearConfig"}

Goto(t, next) == pc' = [pc EXCEPT ![t] = next]
Free(l) == holder[l] = None
Acquired(t, l) == [holder EXCEPT ![l] = t]

(* Variant: the exception leaves only the outermost block. *)
UnwoundOutermost(t) == [holder EXCEPT !["Bootstrap"] = None]

(* Leaving the `with' blocks, by return or by exception. *)
Unwound(t) == [l \in Locks |-> IF holder[l] = t THEN None ELSE holder[l]]

Raise(t) ==
    /\ holder' = Unwound(t)
    /\ engine' = [engine EXCEPT ![t] = None]
    /\ attempt' = 0
    /\ result' = [result EXCEPT ![t] = Raised]
    /\ Goto(t, "idle")

-----------------------------------------------------------------------------
(* Bootstrap.get_services, first test of _instance.                        *)
Call(t) ==
    /\ pc[t] = "idle"
    /\ Goto(t, IF services # None THEN "return" ELSE "lockServices")
    /\ result' = [result EXCEPT ![t] = Pending]
    /\ UNCHANGED <<published, pools, holder, attempt, engine>>

(* `return cls._instance' reads the attribute again, without the lock.     *)
ReturnInstance(t) ==
    /\ pc[t] = "return"
    /\ result' = [result EXCEPT ![t] = services]
    /\ Goto(t, "idle")
    /\ UNCHANGED <<published, pools, holder, attempt, engine>>

(* Variant: no second test under the lock. *)
BuiltMeanwhileUntested == FALSE

BuiltMeanwhile == services # None

LockServices(t) ==
    /\ pc[t] = "lockServices"
    /\ Free("Bootstrap")
    /\ \/ /\ BuiltMeanwhile
          /\ result' = [result EXCEPT ![t] = services]
          /\ Goto(t, "idle")
          /\ UNCHANGED holder
       \/ /\ ~BuiltMeanwhile
          /\ holder' = Acquired(t, "Bootstrap")
          /\ Goto(t, "bootstrap")
          /\ UNCHANGED result
    /\ UNCHANGED <<published, pools, attempt, engine>>

(* Variant: a context is made for every build. *)
HaveContextNever == FALSE

HaveContext == context # None

(* ApplicationContext.bootstrap: test, lock, test again. *)
Bootstrap(t) ==
    /\ pc[t] = "bootstrap"
    /\ Goto(t, IF HaveContext THEN "wire" ELSE "lockContext")
    /\ UNCHANGED <<published, pools, holder, attempt, engine, result>>

LockContext(t) ==
    /\ pc[t] = "lockContext"
    /\ Free("ApplicationContext")
    /\ \/ HaveContext /\ Goto(t, "wire") /\ UNCHANGED holder
       \/ /\ ~HaveContext
          /\ holder' = Acquired(t, "ApplicationContext")
          /\ Goto(t, "config")
    /\ UNCHANGED <<published, pools, attempt, engine, result>>

(* ConfigurationManager.get_instance. *)
GetConfig(t) ==
    /\ pc[t] = "config"
    /\ \/ config /\ Goto(t, "folders") /\ UNCHANGED holder
       \/ /\ ~config
          /\ Free("ConfigurationManager")
          /\ holder' = Acquired(t, "ConfigurationManager")
          /\ Goto(t, "load")
    /\ UNCHANGED <<published, pools, attempt, engine, result>>

LoadConfig(t) ==
    /\ pc[t] = "load"
    /\ config' = TRUE
    /\ holder' = [holder EXCEPT !["ConfigurationManager"] = None]
    /\ Goto(t, "folders")
    /\ UNCHANGED <<services, context, pools, attempt, engine, result>>

CreateFolders(t) ==
    /\ pc[t] = "folders"
    /\ Goto(t, "connect")
    /\ UNCHANGED <<published, pools, holder, attempt, engine, result>>

(* _create_engine_with_retry: an attempt that succeeds ...                 *)
Connect(t, e) ==
    /\ pc[t] = "connect"
    /\ e \notin opened
    /\ opened' = opened \cup {e}
    /\ initialised' = initialised \cup {e}
    /\ engine' = [engine EXCEPT ![t] = e]
    /\ attempt' = 0
    /\ Goto(t, "health")
    /\ UNCHANGED <<published, holder, result>>

(* Variant: one attempt too many. *)
RetryAfterLast(failed) == failed <= ConnectRetries

RetryAfter(failed) == failed < ConnectRetries

(* ... and one that fails: sleep and try again, or give up.                *)
ConnectFails(t) ==
    /\ pc[t] = "connect"
    /\ \/ /\ RetryAfter(attempt + 1)
          /\ attempt' = attempt + 1
          /\ UNCHANGED <<pc, holder, engine, result>>
       \/ /\ ~RetryAfter(attempt + 1)
          /\ Raise(t)
    /\ UNCHANGED <<published, pools>>

(* The health checks report and do not decide; then the context is set.    *)
PublishContext(t) ==
    /\ pc[t] = "health"
    /\ context' = engine[t]
    /\ engine' = [engine EXCEPT ![t] = None]
    /\ holder' = [holder EXCEPT !["ApplicationContext"] = None]
    /\ Goto(t, "wire")
    /\ UNCHANGED <<services, config, pools, attempt, result>>

(* Variant: the lock is released by hand, and not before the return. *)
WireKeepsLock(t) ==
    LET built == [ctx |-> context, by |-> t] IN
    /\ pc[t] = "wire"
    /\ services' = built
    /\ result' = [result EXCEPT ![t] = built]
    /\ Goto(t, "idle")
    /\ UNCHANGED <<context, config, holder, pools, attempt, engine>>

(* _build: business folders and configuration, repositories, services.     *)
Wire(t) ==
    LET built == [ctx |-> context, by |-> t] IN
    /\ pc[t] = "wire"
    /\ services' = built
    /\ result' = [result EXCEPT ![t] = built]
    /\ holder' = Unwound(t)
    /\ Goto(t, "idle")
    /\ UNCHANGED <<context, config, pools, attempt, engine>>

(* A variable that is missing, a folder that cannot be made, a report that *)
(* cannot be printed: the request fails, the locks are released, what was  *)
(* published stays.  An engine opened by then stays open.                  *)
BuildRaises(t) ==
    /\ pc[t] \in {"load", "folders", "health", "wire"}
    /\ Raise(t)
    /\ UNCHANGED <<published, pools>>

-----------------------------------------------------------------------------
(* Bootstrap.reset, ApplicationContext.reset, ConfigurationManager.reset,  *)
(* each within the lock of the one before.                                 *)

(* Variant: the services are kept. *)
ServicesAfterResetKept == services

ServicesAfterReset == None

Reset(t) ==
    /\ t \in Resetters
    /\ pc[t] = "idle"
    /\ Free("Bootstrap")
    /\ holder' = Acquired(t, "Bootstrap")
    /\ services' = ServicesAfterReset
    /\ Goto(t, "dispose")
    /\ UNCHANGED <<context, config, pools, attempt, engine, result>>

DisposeEngine(t) ==
    /\ pc[t] = "dispose"
    /\ Free("ApplicationContext")
    /\ holder' = Acquired(t, "ApplicationContext")
    /\ initialised' = initialised \ {context}
    /\ Goto(t, "clearContext")
    /\ UNCHANGED <<published, opened, attempt, engine, result>>

ClearContext(t) ==
    /\ pc[t] = "clearContext"
    /\ context' = None
    /\ Goto(t, "clearConfig")
    /\ UNCHANGED <<services, config, pools, holder, attempt, engine, result>>

ClearConfig(t) ==
    /\ pc[t] = "clearConfig"
    /\ Free("ConfigurationManager")
    /\ config' = FALSE
    /\ holder' = Unwound(t)
    /\ Goto(t, "idle")
    /\ UNCHANGED <<services, context, pools, attempt, engine, result>>

-----------------------------------------------------------------------------
Init ==
    /\ services = None
    /\ context = None
    /\ config = FALSE
    /\ holder = [l \in Locks |-> None]
    /\ initialised = {}
    /\ opened = {}
    /\ attempt = 0
    /\ engine = [t \in Threads |-> None]
    /\ pc = [t \in Threads |-> "idle"]
    /\ result = [t \in Threads |-> Pending]

Build(t) ==
    \/ Bootstrap(t)
    \/ LockContext(t)
    \/ GetConfig(t)
    \/ LoadConfig(t)
    \/ CreateFolders(t)
    \/ \E e \in Engines : Connect(t, e)
    \/ ConnectFails(t)
    \/ PublishContext(t)
    \/ Wire(t)
    \/ BuildRaises(t)

(* The steps of a call that has begun. *)
Proceed(t) ==
    \/ ReturnInstance(t)
    \/ LockServices(t)
    \/ Build(t)
    \/ DisposeEngine(t)
    \/ ClearContext(t)
    \/ ClearConfig(t)

Next == \E t \in Threads : Call(t) \/ Reset(t) \/ Proceed(t)

Spec == Init /\ [][Next]_vars

(* A thread that can take its next step does.  threading.Lock promises no  *)
(* order among its waiters, so nothing stronger is assumed.                *)
FairSpec == Spec /\ \A t \in Threads : WF_vars(Proceed(t))

-----------------------------------------------------------------------------
TypeOK ==
    /\ services \in AppServices \cup {None}
    /\ context \in Engines \cup {None}
    /\ config \in BOOLEAN
    /\ holder \in [Locks -> Threads \cup {None}]
    /\ initialised \in SUBSET opened
    /\ opened \in SUBSET Engines
    /\ attempt \in 0 .. ConnectRetries - 1
    /\ engine \in [Threads -> Engines \cup {None}]
    /\ pc \in [Threads -> {"idle"} \cup CallPc \cup ResetPc]
    /\ result \in [Threads -> Outcome]

(***************************************************************************)
(* Published services are whole: they use the published context, its       *)
(* engine is initialised and the configuration is there, whatever failed   *)
(* builds, retries and resets came before.                                 *)
(***************************************************************************)
ServicesAreWhole ==
    services # None =>
        /\ services.ctx = context
        /\ context \in initialised
        /\ config

(***************************************************************************)
(* The inductive invariant: a lock is held exactly between two program     *)
(* points, so what a thread in between has found stays as it is; a context *)
(* is live unless the reset that disposed its engine is about to clear it. *)
(***************************************************************************)
ContextPc == {"config", "load", "folders", "connect", "health"}

LocksMatchPc ==
    \A t \in Threads :
        /\ (holder["Bootstrap"] = t) = (pc[t] \in BuildPc \cup ResetPc)
        /\ (holder["ApplicationContext"] = t) =
              (pc[t] \in ContextPc \cup {"clearContext", "clearConfig"})
        /\ (holder["ConfigurationManager"] = t) = (pc[t] = "load")

FoundStays ==
    \A t \in Threads :
        /\ pc[t] \in BuildPc \cup ResetPc => services = None
        /\ pc[t] \in ContextPc \cup {"clearConfig"} => context = None
        /\ pc[t] \in {"folders", "connect", "health"} => config
        /\ pc[t] = "health" => engine[t] \in initialised
        /\ pc[t] = "wire" => context # None

ContextIsLive ==
    context # None =>
        /\ config
        /\ context \in initialised \/ \E t \in Threads : pc[t] = "clearContext"

IInv == TypeOK /\ LocksMatchPc /\ FoundStays /\ ContextIsLive /\ ServicesAreWhole

(***************************************************************************)
(* Services are built once: a step publishes them, a reset takes them      *)
(* back, and no step puts others in their place.                           *)
(***************************************************************************)
ServicesAreNotReplaced == [][services # None => services' \in {services, None}]_services

(***************************************************************************)
(* No second connection pool: while a context is published, a request that *)
(* builds again after a failed wiring reuses its engine.                   *)
(***************************************************************************)
OnePoolPerContext == [][opened' # opened => context = None]_opened

(***************************************************************************)
(* Callers share their services: whoever holds services whose engine still *)
(* works holds the published ones, or those a reset is about to dispose.   *)
(***************************************************************************)
CallersShareServices ==
    \A t \in Threads :
        result[t] \in AppServices /\ result[t].ctx \in initialised
        => services = result[t] \/ \E u \in Threads : pc[u] = "dispose"

(***************************************************************************)
(* The inner locks are never contended: whoever holds Bootstrap._lock      *)
(* finds ApplicationContext's and ConfigurationManager's free when its     *)
(* next step is to take them, however the builds and resets before it      *)
(* ended.  So the nesting of the three locks cannot deadlock.              *)
(***************************************************************************)
WaitsForContextLock == {"lockContext", "dispose"}
WaitsForConfigLock == {"config", "clearConfig"}

BuilderNeverWaits ==
    \A t \in Threads :
        /\ pc[t] \in WaitsForContextLock => Free("ApplicationContext")
        /\ pc[t] \in WaitsForConfigLock => Free("ConfigurationManager")

(***************************************************************************)
(* The startup lock is always given back: no failed attempt and no reset   *)
(* leaves every later request waiting for it.                              *)
(***************************************************************************)
StartupLockIsReleased == ~Free("Bootstrap") ~> Free("Bootstrap")

(***************************************************************************)
(* Once there are services, every call returns.                            *)
(***************************************************************************)
CallsReturnOnceWired ==
    \A t \in Threads :
        services # None /\ pc[t] \in CallPc ~> pc[t] = "idle" \/ services = None
===============================================================================
