----------------------------- MODULE HealthProofs -----------------------------
(* Proofs about Health, for any keys, folders, tables and number of changes. *)
EXTENDS Health, FiniteSetTheorems, TLAPS

(* A check has one of three verdicts, whether it raises or not.            *)
LEMMA ResultIsVerdict ==
  ASSUME NEW c \in Checks
  PROVE  Result(c) \in Verdict
BY DEF Result, VerdictOf, Verdict

(* The checks of the process do not look at the world.                     *)
LEMMA ProcessChecks ==
  ASSUME UNCHANGED <<environ, fields>>,
         NEW c \in {"environment", "configuration"}
  PROVE  Result(c)' = Result(c)
BY DEF Result, VerdictOf, Raises, Fails, DatabaseFails, Warns, Present

(* A check passes exactly when what its pass establishes holds.            *)
LEMMA PassMeansSound ==
  ASSUME TypeOK, fields # None, NEW c \in Checks
  PROVE  Result(c) = "PASS" <=> Sound(c)
<1> USE DEF Result, VerdictOf, Raises, Fails, DatabaseFails, Warns, Sound
<1>1. fields = Mandatory
  BY DEF TypeOK
<1>2. CASE c = "environment"
  BY <1>2 DEF Present
<1>3. CASE c = "configuration"
  BY <1>1, <1>3
<1>4. CASE c = "logs"
  <2>1. folder[LogFolder] \in Condition
    BY FoldersAssumption DEF TypeOK
  <2>2. QED
    BY <1>4, <2>1 DEF Exists, Writable, Condition
<1>5. CASE c = "disk"
  BY <1>5 DEF TypeOK
<1>6. \A f \in Folders : folder[f] \in Condition
  BY DEF TypeOK
<1>7. CASE c = "structure"
  BY <1>6, <1>7 DEF Exists, Condition
<1>8. CASE c = "permissions"
  BY <1>6, <1>8 DEF Exists, Writable, Condition
<1>9. CASE c \in {"connectivity", "tables"}
  BY <1>9
<1>10. c \in {"environment", "configuration", "logs", "disk", "structure", "permissions",
              "connectivity", "tables"}
  <2>1. PICK i \in 1 .. 8 : c = Order[i]
    BY DEF Checks, Total
  <2>2. QED
    BY <2>1 DEF Order
<1>11. QED
  BY <1>2, <1>3, <1>4, <1>5, <1>7, <1>8, <1>9, <1>10

(* Counting a verdict finds it exactly when some check has it.             *)
LEMMA CountSees ==
  ASSUME NEW r, NEW v
  PROVE  Count(r, v) > 0 <=> \E c \in Checks : r[c] = v
<1> DEFINE S == {c \in Checks : r[c] = v}
           f == [i \in 1 .. Total |-> Order[i]]
<1>1. IsFiniteSet(1 .. 8)
  <2>1. \A a, b \in Int : IsFiniteSet(a .. b)
    BY FS_Interval
  <2>2. 1 \in Int /\ 8 \in Int
    OBVIOUS
  <2>3. QED
    BY <2>1, <2>2
<1>2. IsFiniteSet(1 .. Total)
  BY <1>1 DEF Total
<1>3. f \in Surjection(1 .. Total, Checks)
  BY DEF Surjection, Checks
<1>4. IsFiniteSet(Checks)
  BY <1>2, <1>3, FS_Surjection
<1>5. IsFiniteSet(S)
  BY <1>4, FS_Subset
<1>6. Cardinality(S) \in Nat /\ (Cardinality(S) = 0 <=> S = {})
  BY <1>5, FS_CardinalityType, FS_EmptySet
<1>7. Cardinality(S) > 0 <=> S # {}
  BY <1>6
<1>8. QED
  BY <1>7 DEF Count

(* The steps that leave the builder, its report and the environment alone  *)
(* and at most answer an error or move on before the report is published.  *)
LEMMA MoveKeepsIInv ==
  ASSUME IInv, TypeOK',
         UNCHANGED <<environ, fields, published, services, report, done>>,
         served' = served \/ served' = None,
         fields = None => pc' \in {"idle", "load"},
         pc' = "load" => fields = None,
         published # None => pc' \in {"idle", "wire"},
         pc' = "wire" => published # None,
         services => pc' = "idle"
  PROVE  IInv'
<1>1. \A c \in {"environment", "configuration"} : Result(c)' = Result(c)
  BY ProcessChecks
<1>2. NothingIsSkipped'
  BY DEF IInv, NothingIsSkipped
<1>3. ServedIsConsistent'
  BY DEF IInv, ServedIsConsistent
<1>4. SnapshotIsOfEnvironment'
  BY DEF IInv, SnapshotIsOfEnvironment, Present
<1>5. ReportIsOfContext'
  BY DEF IInv, ReportIsOfContext
<1>6. ChecksOfTheProcess'
  BY <1>1 DEF IInv, ChecksOfTheProcess, Wirable, Present
<1>7. QED
  BY <1>2, <1>3, <1>4, <1>5, <1>6 DEF IInv

(* What is recorded of a check is whether its pass would be the truth.     *)
LEMMA FactsType == Facts \subseteq Checks \X BOOLEAN /\ Facts' \subseteq Checks \X BOOLEAN
<1>1. \A c \in Checks : Sound(c) \in BOOLEAN
  BY DEF Sound
<1>2. \A c \in Checks : Sound(c)' \in BOOLEAN
  BY DEF Sound
<1>3. QED
  BY <1>1, <1>2 DEF Facts

(* Making folders repairs the missing ones and leaves the others.          *)
LEMMA CreateKeepsTypes ==
  ASSUME TypeOK, NEW S, Create(S)
  PROVE  folder' \in [Folders -> Condition] /\ UNCHANGED <<file, disk, up, tables, seen>>
BY DEF Create, TypeOK, Condition

LEMMA RequestKeepsIInv == ASSUME IInv, Request PROVE IInv'
<1>1. TypeOK'
  BY DEF Request, Goto, world, process, IInv, TypeOK
<1>2. QED
  BY <1>1, MoveKeepsIInv
     DEF Request, Goto, world, process, IInv, SnapshotIsOfEnvironment, ReportIsOfContext

LEMMA LoadKeepsIInv == ASSUME IInv, LoadConfig PROVE IInv'
<1> USE NoneAssumption
<1>1. fields = None /\ done = 0 /\ published = None /\ ~services
  BY DEF LoadConfig, IInv, SnapshotIsOfEnvironment, ReportIsOfContext
<1>2. /\ UNCHANGED <<file, folder, disk, up, tables, published, services, report, done, seen,
                     changes>>
      /\ environ' = Loaded
      /\ fields' \in {None, Mandatory}
      /\ pc' \in {"folders", "idle"}
      /\ fields' # None => pc' = "folders" /\ \A k \in Mandatory : Loaded[k] = "set"
      /\ fields' = None => pc' = "idle"
      /\ served' = served \/ served' = None
  BY <1>1 DEF LoadConfig, Goto, Raise, world
<1>3. TypeOK'
  BY <1>2 DEF Loaded, IInv, TypeOK, Setting
<1>4. ServedIsConsistent'
  BY <1>1, <1>2 DEF IInv, ServedIsConsistent
<1>5. SnapshotIsOfEnvironment'
  BY <1>1, <1>2 DEF SnapshotIsOfEnvironment, Present, Keys
<1>6. QED
  BY <1>1, <1>2, <1>3, <1>4, <1>5
     DEF IInv, NothingIsSkipped, ReportIsOfContext, ChecksOfTheProcess

LEMMA FoldersKeepIInv == ASSUME IInv, CreateFolders \/ CreateFoldersFails PROVE IInv'
<1>1. PICK S : Create(S)
  BY DEF CreateFolders, CreateFoldersFails
<1>2. /\ UNCHANGED <<environ, fields, published, services, report, done, changes>>
      /\ pc = "folders"
      /\ \/ pc' = "connect" /\ served' = served
         \/ pc' = "idle" /\ served' = None
  BY DEF CreateFolders, CreateFoldersFails, Goto, Raise, process
<1>3. TypeOK'
  BY <1>1, <1>2, CreateKeepsTypes DEF IInv, TypeOK
<1>4. QED
  BY <1>2, <1>3, MoveKeepsIInv DEF IInv, SnapshotIsOfEnvironment, ReportIsOfContext

LEMMA ConnectKeepsIInv == ASSUME IInv, Connect PROVE IInv'
<1> USE NoneAssumption
<1>1. /\ UNCHANGED <<file, folder, disk, up, tables, environ, fields, published, services,
                     served, changes>>
      /\ pc = "connect" /\ pc' = "check"
      /\ report' = NoResults /\ done' = 0 /\ seen' = Facts
  BY DEF Connect, Begin, Goto, world, process
<1>2. fields # None /\ published = None /\ ~services
  BY <1>1 DEF IInv, SnapshotIsOfEnvironment, ReportIsOfContext
<1>3. TypeOK'
  BY <1>1, FactsType DEF IInv, TypeOK, NoResults, Total
<1>4. ServedIsConsistent'
  BY <1>1, <1>2 DEF IInv, ServedIsConsistent
<1>5. SnapshotIsOfEnvironment'
  BY <1>1, <1>2 DEF IInv, SnapshotIsOfEnvironment, Present
<1>6. QED
  BY <1>1, <1>2, <1>3, <1>4, <1>5
     DEF IInv, NothingIsSkipped, ReportIsOfContext, ChecksOfTheProcess

LEMMA FailuresKeepIInv == ASSUME IInv, ConnectFails \/ PrintFails PROVE IInv'
<1>1. TypeOK'
  BY DEF ConnectFails, PrintFails, Raise, Goto, world, process, IInv, TypeOK
<1>2. QED
  BY <1>1, MoveKeepsIInv
     DEF ConnectFails, PrintFails, Raise, Goto, world, process,
         IInv, SnapshotIsOfEnvironment, ReportIsOfContext

LEMMA CheckKeepsIInv == ASSUME IInv, Check PROVE IInv'
<1> USE NoneAssumption
<1> DEFINE c == Order[done + 1]
<1>1. /\ UNCHANGED <<file, folder, disk, up, tables, environ, fields, published, services,
                     served, pc, seen, changes>>
      /\ pc = "check" /\ done < Total /\ done' = done + 1
      /\ report' = [report EXCEPT ![c] = Result(c)]
  BY DEF Check, world, process
<1>2. done \in 0 .. Total /\ done + 1 \in 1 .. Total /\ c \in Checks
  BY <1>1 DEF IInv, TypeOK, Checks, Total
<1>3. Result(c) \in Verdict
  BY <1>2, ResultIsVerdict
<1>4. TypeOK'
  BY <1>1, <1>2, <1>3 DEF IInv, TypeOK
<1>5. report \in [Checks -> Verdict \cup {None}]
  BY DEF IInv, TypeOK
<1>6. \A i \in 1 .. done' : i \in 1 .. done \/ Order[i] = c
  BY <1>1, <1>2
<1>7. \A i \in 1 .. done' : Order[i] \in Checks
  <2>1. 1 .. done' \subseteq 1 .. Total
    BY <1>1, <1>2 DEF Total
  <2>2. QED
    BY <2>1 DEF Checks
<1>8. NothingIsSkipped'
  BY <1>1, <1>2, <1>3, <1>5, <1>6, <1>7 DEF IInv, NothingIsSkipped
<1>9. published = None /\ ~services
  BY <1>1 DEF IInv, ReportIsOfContext
<1>10. ServedIsConsistent'
  BY <1>1, <1>9 DEF IInv, ServedIsConsistent
<1>11. SnapshotIsOfEnvironment'
  BY <1>1 DEF IInv, SnapshotIsOfEnvironment, Present
<1>12. \A d \in {"environment", "configuration"} : Result(d)' = Result(d)
  BY <1>1, ProcessChecks
<1>13. ASSUME NEW i \in 1 .. done', Order[i] \in {"environment", "configuration"}
       PROVE  report'[Order[i]] = Result(Order[i])
  BY <1>1, <1>2, <1>5, <1>6, <1>7, <1>13 DEF IInv, ChecksOfTheProcess
<1>14. ChecksOfTheProcess'
  BY <1>1, <1>9, <1>12, <1>13 DEF ChecksOfTheProcess
<1>15. ReportIsOfContext'
  BY <1>1, <1>9 DEF IInv, ReportIsOfContext
<1>16. QED
  BY <1>4, <1>8, <1>10, <1>11, <1>14, <1>15 DEF IInv
LEMMA PublishKeepsIInv == ASSUME IInv, Publish PROVE IInv'
<1> USE NoneAssumption
<1>1. /\ UNCHANGED <<file, folder, disk, up, tables, environ, fields, services, report, done,
                     served, seen, changes>>
      /\ pc = "check" /\ pc' = "wire" /\ done = Total /\ published' = report
  BY DEF Publish, Goto, world
<1>2. ~services /\ fields # None
  BY <1>1 DEF IInv, SnapshotIsOfEnvironment, ReportIsOfContext
<1>3. \A c \in Checks : report[c] # None
  BY <1>1 DEF IInv, NothingIsSkipped, Checks
<1>4. report \in [Checks -> Verdict]
  BY <1>3 DEF IInv, TypeOK
<1>5. TypeOK'
  BY <1>1, <1>4 DEF IInv, TypeOK
<1>6. ServedIsConsistent'
  BY <1>1, <1>2 DEF IInv, ServedIsConsistent
<1>7. SnapshotIsOfEnvironment'
  BY <1>1, <1>2 DEF IInv, SnapshotIsOfEnvironment, Present
<1>8. ReportIsOfContext'
  BY <1>1, <1>2, <1>4 DEF ReportIsOfContext
<1>9. \A c \in {"environment", "configuration"} : Result(c)' = Result(c)
  BY <1>1, ProcessChecks
<1>10. ChecksOfTheProcess'
  BY <1>1, <1>2, <1>9 DEF IInv, ChecksOfTheProcess
<1>11. QED
  BY <1>1, <1>5, <1>6, <1>7, <1>8, <1>10 DEF IInv, NothingIsSkipped

LEMMA WireKeepsIInv == ASSUME IInv, Wire PROVE IInv'
<1> USE NoneAssumption
<1>1. Create({Output})
  BY DEF Wire
<1>2. /\ UNCHANGED <<environ, fields, published, report, done, served, changes>>
      /\ pc = "wire" /\ pc' = "idle" /\ services' = TRUE /\ Wirable
  BY DEF Wire, Goto
<1>3. published # None /\ ~services /\ fields # None
  BY <1>2 DEF IInv, SnapshotIsOfEnvironment, ReportIsOfContext
<1>4. TypeOK'
  BY <1>1, <1>2, CreateKeepsTypes DEF IInv, TypeOK
<1>5. ServedIsConsistent'
  BY <1>2, <1>3 DEF IInv, ServedIsConsistent
<1>6. SnapshotIsOfEnvironment'
  BY <1>2, <1>3 DEF IInv, SnapshotIsOfEnvironment, Present
<1>7. ReportIsOfContext'
  BY <1>2, <1>3 DEF IInv, ReportIsOfContext
<1>8. \A c \in {"environment", "configuration"} : Result(c)' = Result(c)
  BY <1>2, ProcessChecks
<1>9. ChecksOfTheProcess'
  BY <1>2, <1>3, <1>8 DEF IInv, ChecksOfTheProcess, Wirable, Present
<1>10. QED
  BY <1>2, <1>4, <1>5, <1>6, <1>7, <1>9 DEF IInv, NothingIsSkipped

LEMMA WireFailureKeepsIInv == ASSUME IInv, WireFails PROVE IInv'
<1>1. PICK S : Create(S)
  BY DEF WireFails
<1>2. /\ UNCHANGED <<environ, fields, published, services, report, done, changes>>
      /\ pc = "wire" /\ pc' = "idle" /\ served' = None
  BY DEF WireFails, Goto, Raise, process
<1>3. TypeOK'
  BY <1>1, <1>2, CreateKeepsTypes DEF IInv, TypeOK
<1>4. QED
  BY <1>2, <1>3, MoveKeepsIInv DEF IInv, SnapshotIsOfEnvironment, ReportIsOfContext

LEMMA ServeKeepsIInv == ASSUME IInv, Serve PROVE IInv'
<1> USE NoneAssumption
<1>1. /\ UNCHANGED <<file, folder, disk, up, tables, environ, fields, published, services,
                     report, done, pc, seen, changes>>
      /\ services
      /\ served' = [checks |-> published, overall |-> Overall(published),
                     counts |-> [v \in Verdict |-> Count(published, v)]]
  BY DEF Serve, world, process
<1>2. published \in [Checks -> Verdict]
  BY <1>1 DEF IInv, TypeOK, ChecksOfTheProcess
<1>3. Overall(published) = "FAIL" <=> \E c \in Checks : published[c] = "FAIL"
  BY DEF Overall
<1>4. Overall(published) = "PASS" <=> \A c \in Checks : published[c] = "PASS"
  BY <1>2 DEF Overall, Verdict
<1>5. \A v \in Verdict : Count(published, v) > 0 <=> \E c \in Checks : published[c] = v
  BY CountSees
<1>6. ServedIsConsistent'
  BY <1>1, <1>3, <1>4, <1>5 DEF ServedIsConsistent
<1>7. \A c \in {"environment", "configuration"} : Result(c)' = Result(c)
  BY <1>1, ProcessChecks
<1>8. TypeOK'
  BY <1>1 DEF IInv, TypeOK
<1>9. QED
  BY <1>1, <1>6, <1>7, <1>8
     DEF IInv, NothingIsSkipped, SnapshotIsOfEnvironment, ReportIsOfContext,
         ChecksOfTheProcess, Wirable, Present

LEMMA ChangeKeepsIInv == ASSUME IInv, Change PROVE IInv'
<1>1. UNCHANGED <<environ, fields, published, services, report, done, pc, served>>
  BY DEF Change, process
<1>2. changes' \in 0 .. MaxChanges /\ seen' \subseteq Checks \X BOOLEAN
  <2>1. changes \in 0 .. MaxChanges /\ changes < MaxChanges /\ changes' = changes + 1
    BY DEF Change, IInv, TypeOK
  <2>2. seen' \subseteq Checks \X BOOLEAN
    BY FactsType DEF Change, IInv, TypeOK, Facts
  <2>3. changes' \in 0 .. MaxChanges
    BY <2>1, ChangesAssumption
  <2>4. QED
    BY <2>2, <2>3
<1>3. file' \in [Keys -> Setting]
  BY DEF Change, IInv, TypeOK
<1>4. folder' \in [Folders -> Condition]
  BY DEF Change, IInv, TypeOK
<1>5. disk' \in {"low", "tight", "ample", "unknown"}
  BY DEF Change, IInv, TypeOK
<1>6. up' \in BOOLEAN /\ tables' \in SUBSET Tables
  BY DEF Change, IInv, TypeOK
<1>7. TypeOK'
  BY <1>1, <1>2, <1>3, <1>4, <1>5, <1>6 DEF IInv, TypeOK
<1>8. QED
  BY <1>1, <1>7, MoveKeepsIInv DEF IInv, SnapshotIsOfEnvironment, ReportIsOfContext

LEMMA RestartKeepsIInv == ASSUME IInv, Restart PROVE IInv'
<1> USE NoneAssumption
<1>1. TypeOK'
  <2>1. report' \in [Checks -> Verdict \cup {None}]
    BY DEF Restart, NoResults
  <2>2. environ' \in [Keys -> Setting]
    BY DEF Restart, Setting
  <2>3. done' \in 0 .. Total
    BY DEF Restart, Total
  <2>4. QED
    BY <2>1, <2>2, <2>3 DEF Restart, world, IInv, TypeOK
<1>2. QED
  BY <1>1 DEF Restart, IInv, NothingIsSkipped, ServedIsConsistent, SnapshotIsOfEnvironment,
              ReportIsOfContext, ChecksOfTheProcess

LEMMA InitIInv == Init => IInv
<1> SUFFICES ASSUME Init PROVE IInv
  OBVIOUS
<1> USE NoneAssumption, ChangesAssumption
<1>1. TypeOK
  <2>1. folder \in [Folders -> Condition]
    BY DEF Init, Condition
  <2>2. report \in [Checks -> Verdict \cup {None}]
    BY DEF Init, NoResults
  <2>3. environ \in [Keys -> Setting]
    BY DEF Init, Setting
  <2>4. done \in 0 .. Total /\ changes \in 0 .. MaxChanges
    BY DEF Init, Total
  <2>5. QED
    BY <2>1, <2>2, <2>3, <2>4 DEF Init, TypeOK
<1>2. QED
  BY <1>1 DEF Init, IInv, NothingIsSkipped, ServedIsConsistent, SnapshotIsOfEnvironment,
              ReportIsOfContext, ChecksOfTheProcess

LEMMA StepKeepsIInv == IInv /\ [Next]_vars => IInv'
<1> SUFFICES ASSUME IInv, [Next]_vars PROVE IInv'
  OBVIOUS
<1>1. CASE UNCHANGED vars
  <2>1. TypeOK'
    BY <1>1 DEF vars, world, process, IInv, TypeOK
  <2>2. QED
    BY <1>1, <2>1, MoveKeepsIInv
       DEF vars, world, process, IInv, SnapshotIsOfEnvironment, ReportIsOfContext
<1>2. QED
  BY <1>1, RequestKeepsIInv, LoadKeepsIInv, FoldersKeepIInv, ConnectKeepsIInv,
     FailuresKeepIInv, CheckKeepsIInv, PublishKeepsIInv, WireKeepsIInv, WireFailureKeepsIInv,
     ServeKeepsIInv, ChangeKeepsIInv, RestartKeepsIInv DEF Next

(* Every report that is served is complete and its headline is that of its *)
(* worst check, whatever raised and whatever changed meanwhile.            *)
THEOREM Invariance == Spec => []IInv
<1>1. Init => IInv
  BY InitIInv
<1>2. IInv /\ [Next]_vars => IInv'
  BY StepKeepsIInv
<1>3. QED
  BY <1>1, <1>2, PTL DEF Spec

(* Nobody reads at /api/health that a required variable is missing: a      *)
(* process that answers has them all.                                      *)
THEOREM ReadyWhenServed == Spec => []ServedMeansReady
<1>1. IInv => ServedMeansReady
  <2> SUFFICES ASSUME IInv, served # None PROVE ServedMeansReady
    BY DEF ServedMeansReady
  <2> USE NoneAssumption
  <2>1. published # None /\ Wirable /\ served.checks = published /\ published = report
        /\ done = Total
    BY DEF IInv, ServedIsConsistent, ChecksOfTheProcess, ReportIsOfContext
  <2>2. fields = Mandatory /\ \A k \in Keys : Present(k)
    BY <2>1 DEF IInv, TypeOK, SnapshotIsOfEnvironment, Wirable, Keys
  <2>3. Result("environment") = "PASS" /\ Result("configuration") = "PASS"
    BY <2>2 DEF Result, Raises, VerdictOf, Fails, DatabaseFails, Warns
  <2>4. /\ 1 \in 1 .. done /\ Order[1] = "environment"
        /\ 2 \in 1 .. done /\ Order[2] = "configuration"
    BY <2>1 DEF Total, Order
  <2>5. report["environment"] = "PASS" /\ report["configuration"] = "PASS"
    BY <2>3, <2>4 DEF IInv, ChecksOfTheProcess
  <2>6. QED
    BY <2>1, <2>2, <2>5 DEF ServedMeansReady
<1>2. QED
  BY <1>1, Invariance, PTL

(* While run_all goes on, what is the truth of the world is recorded.      *)
Recorded == pc = "check" => Facts \subseteq seen

(* The steps that record nothing, run no check and serve nothing new.      *)
LEMMA MoveKeepsTimes ==
  ASSUME ResultsAreOfTheirReport, UNCHANGED <<report, done>>, seen \subseteq seen',
         served' = served \/ served' = None
  PROVE  ResultsAreOfTheirReport'
BY DEF ResultsAreOfTheirReport

(* A check that runs finds what is recorded.                               *)
LEMMA CheckKeepsTimes ==
  ASSUME IInv, ResultsAreOfTheirReport, Recorded, Check
  PROVE  ResultsAreOfTheirReport' /\ Recorded'
<1> DEFINE c == Order[done + 1]
<1>1. /\ UNCHANGED <<world, environ, fields, pc, served, seen>>
      /\ pc = "check" /\ done < Total /\ done' = done + 1
      /\ report' = [report EXCEPT ![c] = Result(c)]
  BY DEF Check, process
<1>2. done \in 0 .. Total /\ report \in [Checks -> Verdict \cup {None}] /\ fields # None
  BY <1>1 DEF IInv, TypeOK, SnapshotIsOfEnvironment
<1>3. 1 .. done' \subseteq 1 .. Total /\ done + 1 \in 1 .. Total
  BY <1>1, <1>2 DEF Total
<1>4. \A i \in 1 .. done' : Order[i] \in Checks /\ (i \in 1 .. done \/ Order[i] = c)
  BY <1>1, <1>2, <1>3 DEF Checks
<1>5. c \in Checks /\ report'[c] = Result(c)
  BY <1>1, <1>2, <1>3 DEF Checks
<1>6. <<c, Sound(c)>> \in seen
  BY <1>1, <1>5 DEF Recorded, Facts
<1>7. Sound(c) \in BOOLEAN
  BY DEF Sound
<1>8. <<c, report'[c] = "PASS">> = <<c, Sound(c)>>
  BY <1>2, <1>5, <1>7, PassMeansSound DEF IInv
<1>9. ASSUME NEW i \in 1 .. done' PROVE <<Order[i], report'[Order[i]] = "PASS">> \in seen
  <2>1. CASE Order[i] = c
    BY <1>6, <1>8, <2>1
  <2>2. CASE Order[i] # c
    <3>1. i \in 1 .. done /\ report'[Order[i]] = report[Order[i]]
      BY <1>1, <1>2, <1>4, <2>2
    <3>2. QED
      BY <3>1 DEF ResultsAreOfTheirReport
  <2>3. QED
    BY <2>1, <2>2
<1>10. ResultsAreOfTheirReport'
  BY <1>1, <1>9 DEF ResultsAreOfTheirReport
<1>11. \A d \in Checks : Sound(d)' = Sound(d)
  BY <1>1 DEF Sound, world
<1>12. QED
  BY <1>1, <1>10, <1>11 DEF Recorded, Facts

(* A new report begins with a new record, and nothing is served yet.       *)
LEMMA ConnectKeepsTimes ==
  ASSUME IInv, Connect
  PROVE  ResultsAreOfTheirReport' /\ Recorded'
<1>1. done' = 0 /\ seen' = Facts /\ UNCHANGED <<world, environ, fields, services, served>>
  BY DEF Connect, Begin, process
<1>2. served' = None
  <2>1. fields # None /\ published = None /\ ~services
    BY DEF Connect, IInv, SnapshotIsOfEnvironment, ReportIsOfContext, ChecksOfTheProcess
  <2>2. QED
    BY <1>1, <2>1 DEF IInv, ServedIsConsistent
<1>3. \A d \in Checks : Sound(d)' = Sound(d)
  BY <1>1 DEF Sound, world
<1>4. Facts' = Facts
  BY <1>3 DEF Facts
<1>5. QED
  BY <1>1, <1>2, <1>4 DEF ResultsAreOfTheirReport, Recorded

(* What is served is the report the context was made with, all of it.      *)
LEMMA ServeKeepsTimes ==
  ASSUME IInv, ResultsAreOfTheirReport, Serve
  PROVE  ResultsAreOfTheirReport'
<1>1. UNCHANGED <<report, done, seen>> /\ services /\ served'.checks = published
  BY DEF Serve
<1>2. published = report /\ done = Total
  BY <1>1 DEF IInv, ChecksOfTheProcess, ReportIsOfContext
<1>3. ASSUME NEW c \in Checks PROVE <<c, report[c] = "PASS">> \in seen
  <2>1. PICK i \in 1 .. Total : c = Order[i]
    BY DEF Checks
  <2>2. QED
    BY <1>2, <2>1 DEF ResultsAreOfTheirReport
<1>4. QED
  BY <1>1, <1>2, <1>3 DEF ResultsAreOfTheirReport

LEMMA StepKeepsTimes ==
  IInv /\ ResultsAreOfTheirReport /\ Recorded /\ [Next]_vars
    => ResultsAreOfTheirReport' /\ Recorded'
<1> SUFFICES ASSUME IInv, ResultsAreOfTheirReport, Recorded, [Next]_vars
             PROVE  ResultsAreOfTheirReport' /\ Recorded'
  OBVIOUS
<1>1. CASE Restart
  BY <1>1 DEF Restart, ResultsAreOfTheirReport, Recorded
<1>2. CASE Serve
  <2>1. pc' # "check"
    BY <1>2 DEF Serve
  <2>2. QED
    BY <1>2, <2>1, ServeKeepsTimes DEF Recorded
<1>3. CASE Change
  <2>1. UNCHANGED <<report, done, pc, served>>
        /\ seen' = IF pc = "check" THEN seen \cup Facts' ELSE seen
    BY <1>3 DEF Change
  <2>2. seen \subseteq seen' /\ Recorded'
    BY <2>1 DEF Recorded
  <2>3. QED
    BY <2>1, <2>2, MoveKeepsTimes
<1>4. CASE \/ Request \/ LoadConfig \/ CreateFolders \/ CreateFoldersFails \/ ConnectFails
           \/ Publish \/ PrintFails \/ Wire \/ WireFails
  <2>1. /\ UNCHANGED <<report, done, seen>> /\ pc' # "check"
        /\ served' = served \/ served' = None
    BY <1>4 DEF Request, LoadConfig, CreateFolders, CreateFoldersFails, ConnectFails, Publish,
                PrintFails, Wire, WireFails, Create, Goto, Raise
  <2>2. QED
    BY <2>1, MoveKeepsTimes DEF Recorded
<1>5. CASE UNCHANGED vars
  <2>1. UNCHANGED <<world, environ, fields, report, done, pc, served, seen>>
    BY <1>5 DEF vars, process
  <2>2. \A d \in Checks : Sound(d)' = Sound(d)
    BY <2>1 DEF Sound, world
  <2>3. QED
    BY <2>1, <2>2, MoveKeepsTimes DEF Recorded, Facts
<1>6. QED
  BY <1>1, <1>2, <1>3, <1>4, <1>5, CheckKeepsTimes, ConnectKeepsTimes DEF Next

(* Every result that is found, and every one that is served, was the truth *)
(* at some moment of the run_all (health_check_manager.py:288) that made   *)
(* its report, whatever changed between its checks, whichever requests     *)
(* failed before, and never the result of an earlier report.               *)
THEOREM ReportsAreOfTheirTime == Spec => []ResultsAreOfTheirReport
<1>1. Init => ResultsAreOfTheirReport /\ Recorded
  BY DEF Init, ResultsAreOfTheirReport, Recorded
<1>2. QED
  BY <1>1, Invariance, StepKeepsTimes, PTL DEF Spec
=============================================================================
