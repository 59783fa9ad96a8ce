-------------------------------- MODULE LogFiles --------------------------------
(***************************************************************************)
(* The log of the framework: every module has a logger of its own, and     *)
(* get_logger gives each one its own RotatingFileHandler on the one file   *)
(* app.log.  A handler looks at the file it holds open and not at the name *)
(* app.log, which another handler may have given to a newer file.          *)
(***************************************************************************)
EXTENDS Integers

CONSTANTS
    Loggers,   \* the modules that call get_logger(__name__)
    Files,     \* file identities, reused when nothing refers to them
    MaxBytes,  \* Defaults.LOG_MAX_BYTES
    Backups,   \* Defaults.LOG_BACKUP_COUNT
    Lengths,   \* lengths of a formatted record
    None

VARIABLES
    named,   \* named[0]: the file called app.log, named[i]: app.log.i
    size,    \* size[f]: the bytes in file f
    stream,  \* stream[h]: the file the handler of logger h holds open
    reached  \* whether the last record went to a file that has a name

vars == <<named, size, stream, reached>>

Names == 0 .. Backups

HasName(f) == \E i \in Names : named[i] = f

Unused == {f \in Files : ~HasName(f) /\ \A h \in Loggers : stream[h] # f}

(* get_logger, at the import of a module; the file is opened for appending. *)
GetLogger(h) ==
    /\ stream[h] = None
    /\ \/ /\ named[0] # None
          /\ stream' = [stream EXCEPT ![h] = named[0]]
          /\ UNCHANGED <<named, size>>
       \/ /\ named[0] = None
          /\ \E f \in Unused :
                /\ named' = [named EXCEPT ![0] = f]
                /\ size' = [size EXCEPT ![f] = 0]
                /\ stream' = [stream EXCEPT ![h] = f]
    /\ UNCHANGED reached

(* shouldRollover asks the open file for its end.                          *)
ShouldRollover(h, n) == size[stream[h]] + n >= MaxBytes

(* doRollover moves every name up, which drops the oldest file, and opens  *)
(* a new app.log for this handler alone.                                   *)
Rotated(f) ==
    [i \in Names |-> IF i = 0 THEN f ELSE IF named[i - 1] # None THEN named[i - 1] ELSE named[i]]

Emit(h, n) ==
    /\ stream[h] # None
    /\ ~ShouldRollover(h, n)
    /\ size' = [size EXCEPT ![stream[h]] = @ + n]
    /\ reached' = HasName(stream[h])
    /\ UNCHANGED <<named, stream>>

EmitAfterRollover(h, n) ==
    /\ stream[h] # None
    /\ ShouldRollover(h, n)
    /\ \E f \in Unused :
          /\ named' = Rotated(f)
          /\ size' = [size EXCEPT ![f] = n]
          /\ stream' = [stream EXCEPT ![h] = f]
    /\ reached' = TRUE

(* The process ends; the next one opens app.log anew.                      *)
Restart ==
    /\ stream' = [h \in Loggers |-> None]
    /\ UNCHANGED <<named, size, reached>>

Init ==
    /\ named = [i \in Names |-> None]
    /\ size = [f \in Files |-> 0]
    /\ stream = [h \in Loggers |-> None]
    /\ reached = TRUE

Next ==
    \/ \E h \in Loggers : GetLogger(h)
    \/ \E h \in Loggers, n \in Lengths : Emit(h, n) \/ EmitAfterRollover(h, n)
    \/ Restart

Spec == Init /\ [][Next]_vars

-----------------------------------------------------------------------------
(* logging_manager.py:122 promises that log records are written to a       *)
(* rotating file.  The code loses them: the handlers that still hold a     *)
(* full file rotate, one after the other, the fresh app.log of the first,  *)
(* which goes on writing to a file that has been deleted.                  *)
EveryRecordReachesTheLog == reached

(* The constants as they are in Defaults: rotation is on and keeps a backup, *)
(* and every record has a length.                                          *)
Rotating ==
    /\ MaxBytes \in Nat \ {0}
    /\ Backups \in Nat \ {0}
    /\ Lengths \subseteq Nat \ {0}
    /\ None \notin Files

TypeOK ==
    /\ named \in [Names -> Files \cup {None}]
    /\ size \in [Files -> Nat]
    /\ stream \in [Loggers -> Files \cup {None}]
    /\ reached \in BOOLEAN

(***************************************************************************)
(* The directory of the log, however many handlers rotate it: the names in *)
(* use are app.log, app.log.1 and so on without a gap, each of another     *)
(* file, and no file outgrows LOG_MAX_BYTES but for one long record.       *)
(***************************************************************************)
NoGaps == \A i \in Names \ {0} : named[i] # None => named[i - 1] # None
NamedOnce == \A i, j \in Names : named[i] = named[j] /\ named[i] # None => i = j
FilesFit == \A f \in Files : size[f] < MaxBytes \/ size[f] \in Lengths

LogInv == TypeOK /\ NoGaps /\ NamedOnce /\ FilesFit

(***************************************************************************)
(* Whoever rotates, and whenever the process restarts, only the file with  *)
(* the last name is deleted, and no file that stays loses a byte.          *)
(***************************************************************************)
OnlyTheOldestIsDropped ==
    [][\A f \in Files :
          HasName(f) => \/ named[Backups] = f
                        \/ HasName(f)' /\ size'[f] >= size[f]]_vars
===============================================================================
