--------------------------------- MODULE Health ---------------------------------
(***************************************************************************)
(* The pre-flight report and what it is worth when /api/health shows it:   *)
(* the environment, the configuration snapshot, the folders and the        *)
(* database as the first request finds them, HealthCheckManager.run_all    *)
(* check by check while the world changes, the services wired afterwards,  *)
(* and the report served for as long as the process lives.  One thread     *)
(* builds at a time (Startup), so there is one builder here.               *)
(***************************************************************************)
EXTENDS Integers, FiniteSets

CONSTANTS
    Mandatory,   \* DB_HOST, DB_SERVICE, DB_USER, DB_PASSWORD
    Business,    \* REQUIRED_BUSINESS_ENV_KEYS
    Folders,     \* the standard folders
    LogFolder,   \* base_folder / "logs"
    Output,      \* base_folder / "output", which holds the business folders
    Tables,      \* REQUIRED_TABLES
    MaxChanges,  \* bounds the changes of the world in a run
    None

Keys == Mandatory \cup Business

ASSUME FoldersAssumption == {LogFolder, Output} \subseteq Folders
ASSUME KeysAssumption == Mandatory \cap Business = {}
ASSUME ChangesAssumption == MaxChanges \in Nat

Setting == {"absent", "blank", "set"}
Verdict == {"PASS", "WARNING", "FAIL"}

(* An unreadable folder still takes new files, and one that takes them     *)
(* passes, though the message of the check says "readable and writable"    *)
(* (health_check_manager.py:455).  A lost one, on a mount that went stale, *)
(* cannot even be examined.                                                *)
Condition == {"missing", "sound", "readonly", "unreadable", "lost"}

Order == <<"environment", "configuration", "logs", "disk", "structure", "permissions",
           "connectivity", "tables">>
Total == 8
Checks == {Order[i] : i \in 1 .. Total}

ASSUME NoneAssumption ==
    None \notin Verdict /\ None # Mandatory /\ None \notin [Checks -> Verdict]

VARIABLES
    file,      \* file[k]: what .env says of key k
    environ,   \* environ[k]: os.environ
    folder,    \* folder[f]: the condition of folder f
    disk,      \* free space, unknown when it cannot be determined
    up,        \* whether the database answers
    tables,    \* the required tables that exist
    fields,    \* the fields the ApplicationConfig has, None before there is one
    report,    \* the results of run_all so far
    done,      \* how many checks have run
    published, \* the context's health_report, None before there is one
    services,  \* whether AppServices are wired
    pc,        \* where the request that builds is
    served,    \* the last answer of /api/health, None for an error
    seen,      \* what could be found true or false since run_all began
    changes

world == <<file, folder, disk, up, tables>>
process == <<environ, fields, published, services>>
vars == <<world, process, report, done, pc, served, seen, changes>>

Present(k) == environ[k] = "set"
Exists(f) == folder[f] # "missing"
Writable(f) == folder[f] \in {"sound", "unreadable"}

-----------------------------------------------------------------------------
(* The checks.  One whose operating system call raises is caught by run_all. *)
Raises(c) ==
    \/ c = "disk" /\ disk = "unknown"
    \/ c = "logs" /\ folder[LogFolder] = "lost"
    \/ c \in {"structure", "permissions"} /\ \E f \in Folders : folder[f] = "lost"

DatabaseFails(c) ==
    \/ c = "connectivity" /\ ~up
    \/ c = "tables" /\ (~up \/ tables # Tables)

Fails(c) ==
    \/ c = "environment" /\ \E k \in Keys : ~Present(k)
    \/ c = "configuration" /\ ~(Mandatory \subseteq fields)
    \/ c = "logs" /\ Exists(LogFolder) /\ ~Writable(LogFolder)
    \/ c = "disk" /\ disk = "low"
    \/ c = "permissions" /\ \E f \in Folders : Exists(f) /\ ~Writable(f)
    \/ DatabaseFails(c)

Warns(c) ==
    \/ c = "logs" /\ ~Exists(LogFolder)
    \/ c = "disk" /\ disk = "tight"
    \/ c = "structure" /\ \E f \in Folders : ~Exists(f)

VerdictOf(c) == IF Fails(c) THEN "FAIL" ELSE IF Warns(c) THEN "WARNING" ELSE "PASS"

(* Variant: the loop goes on without a result for a check that raised. *)
ResultSkipped(c) == IF Raises(c) THEN None ELSE VerdictOf(c)

Result(c) == IF Raises(c) THEN "FAIL" ELSE VerdictOf(c)

Count(r, v) == Cardinality({c \in Checks : r[c] = v})

Overall(r) ==
    IF \E c \in Checks : r[c] = "FAIL" THEN "FAIL"
    ELSE IF \E c \in Checks : r[c] = "WARNING" THEN "WARNING" ELSE "PASS"

NoResults == [c \in Checks |-> None]

(* What a pass of a check establishes, put in terms of the world: of the   *)
(* folders that they take new files, readable or not.                      *)
Sound(c) ==
    \/ c = "environment" /\ \A k \in Keys : environ[k] = "set"
    \/ c = "configuration" /\ fields = Mandatory
    \/ c = "logs" /\ folder[LogFolder] \in {"sound", "unreadable"}
    \/ c = "disk" /\ disk = "ample"
    \/ c = "structure" /\ \A f \in Folders : folder[f] \notin {"missing", "lost"}
    \/ c = "permissions" /\ \A f \in Folders : folder[f] \in {"missing", "sound", "unreadable"}
    \/ c = "connectivity" /\ up
    \/ c = "tables" /\ up /\ tables = Tables

Facts == {<<c, Sound(c)>> : c \in Checks}

-----------------------------------------------------------------------------
Goto(next) == pc' = next

Raise ==
    /\ Goto("idle")
    /\ served' = None

(* A request on a process that is not wired yet; a context that is there,  *)
(* from a request that failed later, is used again with its report.        *)
Request ==
    /\ pc = "idle"
    /\ ~services
    /\ Goto(IF published # None THEN "wire" ELSE IF fields # None THEN "folders" ELSE "load")
    /\ UNCHANGED <<world, process, report, done, served, seen, changes>>

(* load_dotenv without override: a key that is there keeps its value, be   *)
(* it blank.                                                               *)
Loaded == [k \in Keys |-> IF environ[k] = "absent" THEN file[k] ELSE environ[k]]

(* ConfigurationManager._initialise. *)
LoadConfig ==
    /\ pc = "load"
    /\ environ' = Loaded
    /\ \/ /\ \A k \in Mandatory : Loaded[k] = "set"
          /\ fields' = Mandatory
          /\ Goto("folders")
          /\ UNCHANGED served
       \/ /\ \E k \in Mandatory : Loaded[k] # "set"
          /\ Raise
          /\ UNCHANGED fields
    /\ UNCHANGED <<world, published, services, report, done, seen, changes>>

(* FolderManager.create_all; a mkdir that fails leaves the earlier ones.   *)
Create(S) ==
    /\ folder' = [f \in Folders |-> IF f \in S /\ ~Exists(f) THEN "sound" ELSE folder[f]]
    /\ UNCHANGED <<file, disk, up, tables, seen>>

CreateFolders ==
    /\ pc = "folders"
    /\ \A f \in Folders : folder[f] # "lost"
    /\ Create(Folders)
    /\ Goto("connect")
    /\ UNCHANGED <<process, report, done, served, changes>>

CreateFoldersFails ==
    /\ pc = "folders"
    /\ \E f \in Folders, S \in SUBSET Folders :
          /\ folder[f] \in {"lost", "missing"}
          /\ f \notin S
          /\ Create(S)
    /\ Raise
    /\ UNCHANGED <<process, report, done, changes>>

(* Variant: all reports share one list of results, a mutable default. *)
BeginAppends == UNCHANGED <<report, done>>

Begin ==
    /\ report' = NoResults
    /\ done' = 0

(* DatabaseManager.initialise and its retries, then run_all begins.        *)
Connect ==
    /\ pc = "connect"
    /\ up
    /\ Begin
    /\ seen' = Facts
    /\ Goto("check")
    /\ UNCHANGED <<world, process, served, changes>>

ConnectFails ==
    /\ pc = "connect"
    /\ ~up
    /\ Raise
    /\ UNCHANGED <<world, process, report, done, seen, changes>>

Check ==
    /\ pc = "check"
    /\ done < Total
    /\ report' = [report EXCEPT ![Order[done + 1]] = Result(Order[done + 1])]
    /\ done' = done + 1
    /\ UNCHANGED <<world, process, pc, served, seen, changes>>

(* The report decides nothing: the context is made whatever it says.       *)
Publish ==
    /\ pc = "check"
    /\ done = Total
    /\ published' = report
    /\ Goto("wire")
    /\ UNCHANGED <<world, environ, fields, services, report, done, served, seen, changes>>

(* print_summary on a terminal that cannot show its symbols.               *)
PrintFails ==
    /\ pc = "check"
    /\ done = Total
    /\ Raise
    /\ UNCHANGED <<world, process, report, done, seen, changes>>

(* Variant: the secret is read with get. *)
WirableUnsigned == TRUE

(* PaymentAggregatorConfig.load: get_required of the secret. *)
Wirable == \A k \in Business : Present(k)

(* Bootstrap._build after the context; the business folders are made with  *)
(* their parents.                                                          *)
Wire ==
    /\ pc = "wire"
    /\ Wirable
    /\ folder[Output] # "lost"
    /\ Create({Output})
    /\ services' = TRUE
    /\ Goto("idle")
    /\ UNCHANGED <<environ, fields, published, report, done, served, changes>>

(* The secret is missing, a folder cannot be made, a number is malformed.  *)
WireFails ==
    /\ pc = "wire"
    /\ \E S \in SUBSET {Output} : Create(S)
    /\ Raise
    /\ UNCHANGED <<process, report, done, changes>>

(* GET /api/health: to_dict of the report of the bootstrap, and the mock   *)
(* bank's check appended to the copy.                                      *)
Serve ==
    /\ pc = "idle"
    /\ services
    /\ served' = [checks |-> published, overall |-> Overall(published),
                  counts |-> [v \in Verdict |-> Count(published, v)]]
    /\ UNCHANGED <<world, process, report, done, pc, seen, changes>>

-----------------------------------------------------------------------------
(* Operators, other programs and the database change what the report is    *)
(* about.                                                                  *)
Change ==
    /\ changes < MaxChanges
    /\ changes' = changes + 1
    /\ UNCHANGED <<process, report, done, pc, served>>
    /\ \/ \E k \in Keys, s \in Setting :
             /\ file' = [file EXCEPT ![k] = s]
             /\ UNCHANGED <<folder, disk, up, tables>>
       \/ \E f \in Folders, c \in Condition :
             /\ folder' = [folder EXCEPT ![f] = c]
             /\ UNCHANGED <<file, disk, up, tables>>
       \/ /\ disk' \in {"low", "tight", "ample", "unknown"}
          /\ UNCHANGED <<file, folder, up, tables>>
       \/ up' = ~up /\ UNCHANGED <<file, folder, disk, tables>>
       \/ tables' \in SUBSET Tables /\ UNCHANGED <<file, folder, disk, up>>
    /\ seen' = IF pc = "check" THEN seen \cup Facts' ELSE seen

(* The process is started again, with nothing of these keys in its shell.  *)
Restart ==
    /\ environ' = [k \in Keys |-> "absent"]
    /\ fields' = None
    /\ published' = None
    /\ services' = FALSE
    /\ report' = NoResults
    /\ done' = 0
    /\ pc' = "idle"
    /\ served' = None
    /\ seen' = {}
    /\ UNCHANGED <<world, changes>>

-----------------------------------------------------------------------------
Init ==
    /\ file \in [Keys -> Setting]
    /\ environ = [k \in Keys |-> "absent"]
    /\ folder \in [Folders -> {"missing", "sound", "unreadable"}]
    /\ disk \in {"low", "tight", "ample"}
    /\ up \in BOOLEAN
    /\ tables \in {{}, Tables}
    /\ fields = None
    /\ report = NoResults
    /\ done = 0
    /\ published = None
    /\ services = FALSE
    /\ pc = "idle"
    /\ served = None
    /\ seen = {}
    /\ changes = 0

Next ==
    \/ Request
    \/ LoadConfig
    \/ CreateFolders
    \/ CreateFoldersFails
    \/ Connect
    \/ ConnectFails
    \/ Check
    \/ Publish
    \/ PrintFails
    \/ Wire
    \/ WireFails
    \/ Serve
    \/ Change
    \/ Restart

Spec == Init /\ [][Next]_vars

-----------------------------------------------------------------------------
TypeOK ==
    /\ file \in [Keys -> Setting]
    /\ environ \in [Keys -> Setting]
    /\ folder \in [Folders -> Condition]
    /\ disk \in {"low", "tight", "ample", "unknown"}
    /\ up \in BOOLEAN
    /\ tables \in SUBSET Tables
    /\ fields \in {None, Mandatory}
    /\ report \in [Checks -> Verdict \cup {None}]
    /\ done \in 0 .. Total
    /\ published \in [Checks -> Verdict] \cup {None}
    /\ services \in BOOLEAN
    /\ pc \in {"idle", "load", "folders", "connect", "check", "wire"}
    /\ seen \subseteq Checks \X BOOLEAN
    /\ changes \in 0 .. MaxChanges

(* What has run has a result.                                              *)
NothingIsSkipped == \A i \in 1 .. done : report[Order[i]] # None

(* A report that is served is complete, whatever raised in a check, and    *)
(* its headline is that of its worst check.                                *)
ServedIsConsistent ==
    served # None =>
        /\ services
        /\ served.checks = published
        /\ served.overall = "PASS" <=> \A c \in Checks : served.checks[c] = "PASS"
        /\ served.overall = "FAIL" <=> \E c \in Checks : served.checks[c] = "FAIL"
        /\ \A v \in Verdict :
              served.counts[v] > 0 <=> \E c \in Checks : served.checks[c] = v

(* A database key that was set stays set: its value is in the environment  *)
(* of the process and in the snapshot, which is loaded once.               *)
SnapshotIsOfEnvironment ==
    /\ fields # None => \A k \in Mandatory : Present(k)
    /\ fields = None => done = 0 /\ published = None /\ pc \in {"idle", "load"}
    /\ pc = "load" => fields = None

(* The context keeps the report it was made with, and is made once.        *)
ReportIsOfContext ==
    /\ published # None => published = report /\ done = Total /\ pc \in {"idle", "wire"}
    /\ pc = "wire" => published # None
    /\ services => pc = "idle"

(* The two checks that only look at the process itself.                    *)
ChecksOfTheProcess ==
    /\ \A i \in 1 .. done : Order[i] \in {"environment", "configuration"} =>
          report[Order[i]] = Result(Order[i])
    /\ services => published # None /\ Wirable

(* The type, and the completeness of what has been found so far and served *)
(* (health_check_manager.py:195): every check that ran has a result, a     *)
(* raising one too, and the headline hides no failure.                     *)
IInv ==
    /\ TypeOK
    /\ NothingIsSkipped
    /\ ServedIsConsistent
    /\ SnapshotIsOfEnvironment
    /\ ReportIsOfContext
    /\ ChecksOfTheProcess

(* Whoever reads a report at /api/health reads that the environment and    *)
(* the configuration are complete: a process that lacks a required         *)
(* variable cannot answer at all, and keys that are corrected or removed   *)
(* in .env while it lives change nothing.                                  *)
ServedMeansReady ==
    served # None =>
        /\ served.checks["environment"] = "PASS"
        /\ served.checks["configuration"] = "PASS"
        /\ \A k \in Keys : Present(k)

(***************************************************************************)
(* Every result, while the report is made and whenever it is served, was   *)
(* the truth about the world at some moment of the run_all that made it.   *)
(* The world may change between the checks, and a request may fail after   *)
(* its report and leave the next one to start over: no result is ever that *)
(* of an earlier report.  That it is the truth when /api/health            *)
(* (main.py:111) shows it nobody promises.                                 *)
(***************************************************************************)
ResultsAreOfTheirReport ==
    /\ \A i \in 1 .. done : <<Order[i], report[Order[i]] = "PASS">> \in seen
    /\ served # None => \A c \in Checks : <<c, served.checks[c] = "PASS">> \in seen
===============================================================================
