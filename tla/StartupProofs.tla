---------------------------- MODULE StartupProofs ----------------------------
(* Proofs about Startup, for any threads, resetters, engines and retries. *)
EXTENDS Startup, TLAPS

USE DEF BuildPc, CallPc, ResetPc, ContextPc, Locks

(* Two threads are never between the same two lock operations. *)
LEMMA OneHolder ==
  ASSUME IInv, NEW t \in Threads, NEW u \in Threads,
         pc[t] \in BuildPc \cup ResetPc, pc[u] \in BuildPc \cup ResetPc
  PROVE  t = u
BY DEF IInv, LocksMatchPc

(* A request that raises gives back its locks and changes nothing else.    *)
LEMMA RaiseKeeps ==
  ASSUME IInv, NEW t \in Threads, pc[t] \in BuildPc, Raise(t), UNCHANGED <<published, pools>>
  PROVE  IInv'
<1> USE ThreadsAssumption, NoneAssumption DEF IInv, Raise, Goto, published, pools
<1>1. TypeOK'
  BY DEF TypeOK, Unwound, Outcome
<1>2. LocksMatchPc'
  BY DEF TypeOK, LocksMatchPc, Unwound
<1>3. FoundStays'
  BY DEF TypeOK, FoundStays
<1>4. ContextIsLive'
  BY DEF TypeOK, ContextIsLive
<1>5. QED
  BY <1>1, <1>2, <1>3, <1>4 DEF ServicesAreWhole

(* Nothing is published when the process starts. *)
LEMMA IInvInit == ASSUME Init PROVE IInv
<1> USE ThreadsAssumption, NoneAssumption DEF Init
<1>1. TypeOK
  <2>1. /\ services \in AppServices \cup {None}
        /\ context \in Engines \cup {None}
        /\ config \in BOOLEAN
        /\ initialised \in SUBSET opened
        /\ opened \in SUBSET Engines
    OBVIOUS
  <2>2. attempt \in 0 .. ConnectRetries - 1
    OBVIOUS
  <2>3. /\ holder \in [Locks -> Threads \cup {None}]
        /\ engine \in [Threads -> Engines \cup {None}]
    OBVIOUS
  <2>4. pc \in [Threads -> {"idle"} \cup CallPc \cup ResetPc]
    OBVIOUS
  <2>5. result \in [Threads -> Outcome]
    BY DEF Outcome
  <2>6. QED
    BY <2>1, <2>2, <2>3, <2>4, <2>5 DEF TypeOK
<1>2. LocksMatchPc
  <2> SUFFICES ASSUME NEW t \in Threads
               PROVE  /\ (holder["Bootstrap"] = t) = (pc[t] \in BuildPc \cup ResetPc)
                      /\ (holder["ApplicationContext"] = t) =
                            (pc[t] \in ContextPc \cup {"clearContext", "clearConfig"})
                      /\ (holder["ConfigurationManager"] = t) = (pc[t] = "load")
    BY DEF LocksMatchPc
  <2>1. pc[t] = "idle"
    OBVIOUS
  <2>2. holder["Bootstrap"] # t /\ holder["ApplicationContext"] # t
        /\ holder["ConfigurationManager"] # t
    OBVIOUS
  <2>3. QED
    BY <2>1, <2>2
<1>3. FoundStays /\ ContextIsLive /\ ServicesAreWhole
  BY DEF FoundStays, ContextIsLive, ServicesAreWhole
<1>4. QED
  BY <1>1, <1>2, <1>3 DEF IInv

(* Each step of a call or a reset keeps what the others have found.        *)
LEMMA IInvStep == ASSUME IInv, [Next]_vars PROVE IInv'
<1> USE ThreadsAssumption, NoneAssumption
<1> USE DEF IInv, published, pools, Goto, Free, Acquired
<1>1. ASSUME NEW t \in Threads, Call(t)
      PROVE  IInv'
  BY <1>1 DEF Call, TypeOK, LocksMatchPc, FoundStays, ContextIsLive, ServicesAreWhole, Outcome
<1>2. ASSUME NEW t \in Threads, ReturnInstance(t)
      PROVE  IInv'
  BY <1>2
     DEF ReturnInstance, TypeOK, LocksMatchPc, FoundStays, ContextIsLive, ServicesAreWhole,
         Outcome
<1>3. ASSUME NEW t \in Threads, LockServices(t)
      PROVE  IInv'
  BY <1>3
     DEF LockServices, BuiltMeanwhile, TypeOK, LocksMatchPc, FoundStays, ContextIsLive,
         ServicesAreWhole, Outcome
<1>4. ASSUME NEW t \in Threads, Bootstrap(t)
      PROVE  IInv'
  BY <1>4
     DEF Bootstrap, HaveContext, TypeOK, LocksMatchPc, FoundStays, ContextIsLive,
         ServicesAreWhole
<1>5. ASSUME NEW t \in Threads, LockContext(t)
      PROVE  IInv'
  BY <1>5
     DEF LockContext, HaveContext, TypeOK, LocksMatchPc, FoundStays, ContextIsLive,
         ServicesAreWhole
<1>6. ASSUME NEW t \in Threads, GetConfig(t)
      PROVE  IInv'
  BY <1>6
     DEF GetConfig, TypeOK, LocksMatchPc, FoundStays, ContextIsLive, ServicesAreWhole
<1>7. ASSUME NEW t \in Threads, LoadConfig(t)
      PROVE  IInv'
  BY <1>7
     DEF LoadConfig, TypeOK, LocksMatchPc, FoundStays, ContextIsLive, ServicesAreWhole
<1>8. ASSUME NEW t \in Threads, CreateFolders(t)
      PROVE  IInv'
  BY <1>8
     DEF CreateFolders, TypeOK, LocksMatchPc, FoundStays, ContextIsLive, ServicesAreWhole
<1>9. ASSUME NEW t \in Threads, NEW e \in Engines, Connect(t, e)
      PROVE  IInv'
  BY <1>9
     DEF Connect, TypeOK, LocksMatchPc, FoundStays, ContextIsLive, ServicesAreWhole
<1>10. ASSUME NEW t \in Threads, ConnectFails(t)
       PROVE  IInv'
  <2>1. CASE Raise(t)
    BY <1>10, <2>1, RaiseKeeps DEF ConnectFails
  <2>2. CASE RetryAfter(attempt + 1) /\ attempt' = attempt + 1
             /\ UNCHANGED <<pc, holder, engine, result>>
    BY <1>10, <2>2
       DEF ConnectFails, RetryAfter, TypeOK, LocksMatchPc, FoundStays, ContextIsLive,
           ServicesAreWhole
  <2>3. QED
    BY <1>10, <2>1, <2>2 DEF ConnectFails
<1>11. ASSUME NEW t \in Threads, PublishContext(t)
       PROVE  IInv'
  <2>1. services = None /\ config /\ engine[t] \in initialised /\ engine[t] \in Engines
    BY <1>11 DEF PublishContext, TypeOK, FoundStays
  <2>2. TypeOK' /\ LocksMatchPc'
    BY <1>11, <2>1 DEF PublishContext, TypeOK, LocksMatchPc
  <2>3. FoundStays'
    BY <1>11, <2>1, OneHolder DEF PublishContext, TypeOK, FoundStays
  <2>4. ContextIsLive' /\ ServicesAreWhole'
    BY <1>11, <2>1 DEF PublishContext, ContextIsLive, ServicesAreWhole
  <2>5. QED
    BY <2>2, <2>3, <2>4
<1>12. ASSUME NEW t \in Threads, Wire(t)
       PROVE  IInv'
  <2>1. context \in Engines /\ services = None
    BY <1>12 DEF Wire, TypeOK, FoundStays
  <2>2. config /\ context \in initialised
    <3>1. \A u \in Threads : pc[u] # "clearContext"
      BY <1>12, OneHolder DEF Wire
    <3>2. QED
      BY <2>1, <3>1 DEF ContextIsLive
  <2>3. services' = [ctx |-> context, by |-> t] /\ services' \in AppServices
    BY <1>12, <2>1 DEF Wire, AppServices
  <2>4. TypeOK' /\ LocksMatchPc'
    BY <1>12, <2>3 DEF Wire, TypeOK, LocksMatchPc, Unwound, Outcome
  <2>5. FoundStays'
    BY <1>12, <2>1, OneHolder DEF Wire, TypeOK, FoundStays
  <2>6. ContextIsLive' /\ ServicesAreWhole'
    BY <1>12, <2>2, <2>3 DEF Wire, ContextIsLive, ServicesAreWhole
  <2>7. QED
    BY <2>4, <2>5, <2>6
<1>13. ASSUME NEW t \in Threads, BuildRaises(t)
       PROVE  IInv'
  BY <1>13, RaiseKeeps DEF BuildRaises
<1>14. ASSUME NEW t \in Threads, Reset(t)
       PROVE  IInv'
  BY <1>14
     DEF Reset, ServicesAfterReset, TypeOK, LocksMatchPc, FoundStays, ContextIsLive,
         ServicesAreWhole
<1>15. ASSUME NEW t \in Threads, DisposeEngine(t)
       PROVE  IInv'
  <2>1. services = None
    BY <1>15 DEF DisposeEngine, FoundStays
  <2>2. TypeOK' /\ LocksMatchPc'
    BY <1>15 DEF DisposeEngine, TypeOK, LocksMatchPc
  <2>3. FoundStays'
    BY <1>15, OneHolder DEF DisposeEngine, TypeOK, FoundStays
  <2>4. ContextIsLive'
    BY <1>15 DEF DisposeEngine, TypeOK, ContextIsLive
  <2>5. QED
    BY <1>15, <2>1, <2>2, <2>3, <2>4 DEF DisposeEngine, ServicesAreWhole
<1>16. ASSUME NEW t \in Threads, ClearContext(t)
       PROVE  IInv'
  <2>1. services = None
    BY <1>16 DEF ClearContext, FoundStays
  <2>2. TypeOK' /\ LocksMatchPc'
    BY <1>16 DEF ClearContext, TypeOK, LocksMatchPc
  <2>3. FoundStays'
    BY <1>16, OneHolder DEF ClearContext, TypeOK, FoundStays
  <2>4. QED
    BY <1>16, <2>1, <2>2, <2>3 DEF ClearContext, ContextIsLive, ServicesAreWhole
<1>17. ASSUME NEW t \in Threads, ClearConfig(t)
       PROVE  IInv'
  <2>1. services = None /\ context = None
    BY <1>17 DEF ClearConfig, FoundStays
  <2>2. TypeOK'
    BY <1>17, <2>1 DEF ClearConfig, TypeOK, Unwound
  <2>3. LocksMatchPc'
    BY <1>17, <2>1 DEF ClearConfig, TypeOK, LocksMatchPc, Unwound
  <2>4. FoundStays'
    BY <1>17, OneHolder DEF ClearConfig, TypeOK, FoundStays
  <2>5. QED
    BY <1>17, <2>1, <2>2, <2>3, <2>4 DEF ClearConfig, ContextIsLive, ServicesAreWhole
<1>18. CASE UNCHANGED vars
  BY <1>18
     DEF vars, TypeOK, LocksMatchPc, FoundStays, ContextIsLive, ServicesAreWhole
<1>19. QED
  BY <1>1, <1>2, <1>3, <1>4, <1>5, <1>6, <1>7, <1>8, <1>9, <1>10, <1>11, <1>12, <1>13,
     <1>14, <1>15, <1>16, <1>17, <1>18
     DEF Next, Proceed, Build

(***************************************************************************)
(* The locks and what was found under them: IInv holds in every reachable  *)
(* state, for any number of threads, resets and failed builds.             *)
(***************************************************************************)
THEOREM Invariance == Spec => []IInv
BY IInvInit, IInvStep, PTL DEF Spec

(* A context's only way to lose its engine is the reset that clears it, so *)
(* published services are whole whatever failed before.                    *)
THEOREM Whole == Spec => []ServicesAreWhole
<1>1. IInv => ServicesAreWhole
  BY DEF IInv
<1>2. QED
  BY <1>1, Invariance, PTL

(* Only Wire publishes services, and it holds the lock under which         *)
(* LockServices found none.                                                *)
THEOREM BuiltOnce == Spec => ServicesAreNotReplaced
<1>1. ASSUME IInv, Next
      PROVE  services # None => services' \in {services, None}
  <2>1. ASSUME NEW t \in Threads, Wire(t)
        PROVE  services = None
    BY <1>1, <2>1 DEF Wire, IInv, FoundStays
  <2>2. ASSUME NEW t \in Threads, Reset(t)
        PROVE  services' = None
    BY <2>2 DEF Reset, ServicesAfterReset
  <2>3. QED
    BY <1>1, <2>1, <2>2
       DEF Next, Proceed, Build, published, Call, ReturnInstance, LockServices, Bootstrap,
           LockContext, GetConfig, LoadConfig, CreateFolders, Connect, ConnectFails,
           PublishContext, BuildRaises, DisposeEngine, ClearContext, ClearConfig
<1>2. IInv /\ [Next]_vars => [services # None => services' \in {services, None}]_services
  BY <1>1 DEF vars
<1>3. QED
  BY <1>2, Invariance, PTL DEF Spec, ServicesAreNotReplaced

(* Only Connect opens an engine, between a test that found no context and  *)
(* the end of the same locked section.                                     *)
THEOREM OnePool == Spec => OnePoolPerContext
<1>1. ASSUME IInv, Next
      PROVE  opened' # opened => context = None
  <2>1. ASSUME NEW t \in Threads, NEW e \in Engines, Connect(t, e)
        PROVE  context = None
    BY <1>1, <2>1 DEF Connect, IInv, FoundStays
  <2>2. QED
    BY <1>1, <2>1
       DEF Next, Proceed, Build, pools, Call, Reset, ReturnInstance, LockServices, Bootstrap,
           LockContext, GetConfig, LoadConfig, CreateFolders, ConnectFails,
           PublishContext, Wire, BuildRaises, DisposeEngine, ClearContext, ClearConfig
<1>2. IInv /\ [Next]_vars => [opened' # opened => context = None]_opened
  BY <1>1 DEF vars
<1>3. QED
  BY <1>2, Invariance, PTL DEF Spec, OnePoolPerContext

(* The holder of an inner lock is the holder of the startup lock, so a     *)
(* thread that holds the startup lock and wants an inner one finds it      *)
(* free: no order of builds, failures and resets can deadlock on them.     *)
THEOREM BuildersDoNotWait == Spec => []BuilderNeverWaits
<1>1. ASSUME IInv
      PROVE  BuilderNeverWaits
  <2> USE <1>1 DEF IInv, WaitsForContextLock, WaitsForConfigLock
  <2>1. ASSUME NEW t \in Threads, pc[t] \in WaitsForContextLock
        PROVE  Free("ApplicationContext")
    <3>1. ASSUME NEW u \in Threads, holder["ApplicationContext"] = u
          PROVE  FALSE
      <4>1. pc[u] \in ContextPc \cup {"clearContext", "clearConfig"}
        BY <3>1 DEF LocksMatchPc
      <4>2. t = u
        BY <2>1, <4>1, OneHolder
      <4>3. QED
        BY <2>1, <4>1, <4>2
    <3>2. QED
      BY <3>1 DEF TypeOK, Free
  <2>2. ASSUME NEW t \in Threads, pc[t] \in WaitsForConfigLock
        PROVE  Free("ConfigurationManager")
    <3>1. ASSUME NEW u \in Threads, holder["ConfigurationManager"] = u
          PROVE  FALSE
      <4>1. pc[u] = "load"
        BY <3>1 DEF LocksMatchPc
      <4>2. t = u
        BY <2>2, <4>1, OneHolder
      <4>3. QED
        BY <2>2, <4>1, <4>2
    <3>2. QED
      BY <3>1 DEF TypeOK, Free
  <2>3. QED
    BY <2>1, <2>2 DEF BuilderNeverWaits
<1>2. QED
  BY <1>1, Invariance, PTL

-----------------------------------------------------------------------------
(* Callers share: what is still usable of what was returned belongs to the *)
(* published context, until a reset has disposed it.                       *)
Usable(t) == result[t] \in AppServices /\ result[t].ctx \in initialised

SharedInv ==
    /\ CallersShareServices
    /\ \A t \in Threads : result[t] \in AppServices => result[t].ctx \in opened
    /\ \A t \in Threads : Usable(t) => result[t].ctx = context
    /\ \A t \in Threads : pc[t] = "clearContext" => context \notin initialised

(* A step that leaves services alone returns them or nothing; the one that *)
(* sets them found none and no usable ones; the one that disposes the      *)
(* engine leaves none usable.                                              *)
LEMMA SharedStep == ASSUME IInv, SharedInv, [Next]_vars PROVE SharedInv'
<1> USE NoneAssumption DEF SharedInv, CallersShareServices, Usable, published, pools, Goto
<1>1. /\ services \in AppServices \cup {None}
      /\ services \in AppServices => services.ctx \in opened /\ services.ctx = context
      /\ initialised \subseteq opened
      /\ pc \in [Threads -> {"idle"} \cup CallPc \cup ResetPc]
      /\ result \in [Threads -> Outcome]
  BY DEF IInv, TypeOK, ServicesAreWhole
<1>2. ASSUME NEW t \in Threads, Call(t)
      PROVE  SharedInv'
  BY <1>1, <1>2 DEF Call
<1>3. ASSUME NEW t \in Threads, ReturnInstance(t)
      PROVE  SharedInv'
  BY <1>1, <1>3 DEF ReturnInstance
<1>4. ASSUME NEW t \in Threads, LockServices(t)
      PROVE  SharedInv'
  BY <1>1, <1>4 DEF LockServices, BuiltMeanwhile
<1>5. ASSUME NEW t \in Threads, NEW e \in Engines, Connect(t, e)
      PROVE  SharedInv'
  <2>1. \A u \in Threads : pc[u] # "clearContext" /\ pc[u] # "dispose"
    BY <1>5, OneHolder DEF Connect
  <2>2. QED
    BY <1>1, <1>5, <2>1 DEF Connect
<1>6. ASSUME NEW t \in Threads, BuildRaises(t) \/ ConnectFails(t)
      PROVE  SharedInv'
  BY <1>1, <1>6 DEF BuildRaises, ConnectFails, Raise
<1>7. ASSUME NEW t \in Threads, PublishContext(t)
      PROVE  SharedInv'
  <2>1. context = None /\ services = None
    BY <1>7 DEF PublishContext, IInv, FoundStays
  <2>2. \A u \in Threads : pc[u] # "clearContext" /\ pc[u] # "dispose"
    BY <1>7, OneHolder DEF PublishContext
  <2>3. QED
    BY <1>1, <1>7, <2>1, <2>2 DEF PublishContext
<1>8. ASSUME NEW t \in Threads, Wire(t)
      PROVE  SharedInv'
  <2>1. services = None /\ context \in Engines
    BY <1>8 DEF Wire, IInv, TypeOK, FoundStays
  <2>2. \A u \in Threads : pc[u] # "clearContext" /\ pc[u] # "dispose"
    BY <1>8, OneHolder DEF Wire
  <2>3. \A u \in Threads : ~Usable(u)
    BY <2>1, <2>2
  <2>4. context \in opened
    BY <1>1, <2>1, <2>2 DEF IInv, ContextIsLive
  <2>5. QED
    BY <1>1, <1>8, <2>1, <2>2, <2>3, <2>4 DEF Wire, AppServices
<1>9. ASSUME NEW t \in Threads, Reset(t)
      PROVE  SharedInv'
  BY <1>1, <1>9 DEF Reset
<1>10. ASSUME NEW t \in Threads, DisposeEngine(t)
       PROVE  SharedInv'
  BY <1>1, <1>10 DEF DisposeEngine
<1>11. ASSUME NEW t \in Threads, ClearContext(t)
       PROVE  SharedInv'
  <2>1. context \notin initialised
    BY <1>11 DEF ClearContext
  <2>2. \A u \in Threads : ~Usable(u)
    BY <2>1
  <2>3. None \notin initialised
    BY DEF IInv, TypeOK
  <2>4. QED
    BY <1>1, <1>11, <2>2, <2>3 DEF ClearContext
<1>12. ASSUME NEW t \in Threads,
              \/ Bootstrap(t)
              \/ LockContext(t)
              \/ GetConfig(t)
              \/ LoadConfig(t)
              \/ CreateFolders(t)
              \/ ClearConfig(t)
       PROVE  SharedInv'
  BY <1>1, <1>12
     DEF Bootstrap, LockContext, GetConfig, LoadConfig, CreateFolders, ClearConfig
<1>13. CASE UNCHANGED vars
  BY <1>13 DEF vars
<1>14. QED
  BY <1>2, <1>3, <1>4, <1>5, <1>6, <1>7, <1>8, <1>9, <1>10, <1>11, <1>12, <1>13
     DEF Next, Proceed, Build

(* Any two callers whose services still work have the same ones, although  *)
(* the last read of _instance is unlocked.                                 *)
THEOREM Shared == Spec => []CallersShareServices
<1>1. Init => SharedInv
  BY NoneAssumption DEF Init, SharedInv, CallersShareServices, Usable
<1>2. IInv /\ SharedInv /\ [Next]_vars => SharedInv'
  BY SharedStep
<1>3. SharedInv => CallersShareServices
  BY DEF SharedInv
<1>4. QED
  BY <1>1, <1>2, <1>3, Invariance, PTL DEF Spec

(* In production nothing resets: then a call never returns None.           *)
THEOREM NeverNone ==
  ASSUME Resetters = {}
  PROVE  Spec => [](\A t \in Threads : result[t] # None)
<1> DEFINE J == \A t \in Threads : result[t] # None /\ (pc[t] = "return" => services # None)
<1>1. Init => J
  BY NoneAssumption DEF Init
<1>2. ASSUME IInv, J, [Next]_vars
      PROVE  J'
  <2> USE NoneAssumption DEF IInv, TypeOK, published, Goto
  <2>1. ASSUME NEW t \in Threads, Wire(t)
        PROVE  J'
    <3>1. [ctx |-> context, by |-> t] # None
      BY <2>1, <1>2 DEF Wire, FoundStays, AppServices
    <3>2. QED
      BY <1>2, <2>1, <3>1 DEF Wire
  <2>2. ASSUME NEW t \in Threads,
               Call(t) \/ ReturnInstance(t) \/ LockServices(t) \/ BuildRaises(t) \/ ConnectFails(t)
        PROVE  J'
    BY <1>2, <2>2
       DEF Call, ReturnInstance, LockServices, BuiltMeanwhile, BuildRaises, ConnectFails, Raise
  <2>3. ASSUME NEW t \in Threads,
               \/ Bootstrap(t)
               \/ LockContext(t)
               \/ GetConfig(t)
               \/ LoadConfig(t)
               \/ CreateFolders(t)
               \/ \E e \in Engines : Connect(t, e)
               \/ PublishContext(t)
               \/ DisposeEngine(t)
               \/ ClearContext(t)
               \/ ClearConfig(t)
        PROVE  J'
    BY <1>2, <2>3
       DEF Bootstrap, LockContext, GetConfig, LoadConfig, CreateFolders, Connect,
           PublishContext, DisposeEngine, ClearContext, ClearConfig
  <2>4. CASE UNCHANGED vars
    BY <1>2, <2>4 DEF vars
  <2>5. QED
    BY <1>2, <2>1, <2>2, <2>3, <2>4 DEF Next, Proceed, Build, Reset
<1>3. J => \A t \in Threads : result[t] # None
  OBVIOUS
<1> HIDE DEF J
<1>4. QED
  BY <1>1, <1>2, <1>3, Invariance, PTL DEF Spec
===============================================================================
