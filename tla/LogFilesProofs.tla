---------------------------- MODULE LogFilesProofs ----------------------------
(* Proofs about LogFiles, for any loggers, files, limits and records. *)
EXTENDS LogFiles, TLAPS

USE DEF Rotating, Names

(* The names after a rotation: as if every file had moved one name up.     *)
LEMMA NamesAfterRotation ==
  ASSUME Rotating, LogInv, NEW f \in Files
  PROVE  /\ Rotated(f) \in [Names -> Files \cup {None}]
         /\ Rotated(f)[0] = f
         /\ \A i \in Names \ {0} : Rotated(f)[i] = named[i - 1]
<1>1. \A i \in Names \ {0} : i - 1 \in Names
  OBVIOUS
<1>2. ASSUME NEW i \in Names, i # 0, named[i - 1] = None
      PROVE  named[i] = None
  BY <1>2 DEF LogInv, NoGaps
<1>3. named \in [Names -> Files \cup {None}]
  BY DEF LogInv, TypeOK
<1>4. QED
  BY <1>1, <1>2, <1>3 DEF Rotated

(* A rotation leaves no gap and gives no file two names, for the new one   *)
(* had none.                                                               *)
LEMMA RotationKeepsNames ==
  ASSUME Rotating, LogInv, NEW f \in Unused, named' = Rotated(f)
  PROVE  NoGaps' /\ NamedOnce'
<1>1. f \in Files /\ \A i \in Names : named[i] # f
  BY DEF Unused, HasName
<1>2. /\ named'[0] = f
      /\ \A i \in Names \ {0} : named'[i] = named[i - 1] /\ i - 1 \in Names
  BY <1>1, NamesAfterRotation
<1>3. NoGaps'
  <2> SUFFICES ASSUME NEW i \in Names, i # 0, named'[i] # None
               PROVE  named'[i - 1] # None
    BY DEF NoGaps
  <2>1. CASE i = 1
    BY <1>1, <1>2, <2>1
  <2>2. CASE i # 1
    <3>1. i - 1 \in Names \ {0}
      BY <2>2
    <3>2. named'[i - 1] = named[(i - 1) - 1] /\ named'[i] = named[i - 1]
      BY <1>2, <3>1
    <3>3. QED
      BY <3>1, <3>2 DEF LogInv, NoGaps
  <2>3. QED
    BY <2>1, <2>2
<1>4. NamedOnce'
  <2> SUFFICES ASSUME NEW i \in Names, NEW j \in Names, named'[i] = named'[j], named'[i] # None
               PROVE  i = j
    BY DEF NamedOnce
  <2>1. CASE i = 0 \/ j = 0
    BY <1>1, <1>2, <2>1
  <2>2. CASE i # 0 /\ j # 0
    <3>1. i - 1 = j - 1
      BY <1>2, <2>2 DEF LogInv, NamedOnce
    <3>2. QED
      BY <3>1
  <2>3. QED
    BY <2>1, <2>2
<1>5. QED
  BY <1>3, <1>4

(* The directory of a first start is empty. *)
LEMMA LogInit == ASSUME Rotating, Init PROVE LogInv
BY DEF Init, LogInv, TypeOK, NoGaps, NamedOnce, FilesFit

(* A file is opened under the first name or takes it from a file that      *)
(* moves up; a record fits, or is the first of its file.                   *)
LEMMA LogStep == ASSUME Rotating, LogInv, [Next]_vars PROVE LogInv'
<1> USE DEF LogInv
<1>1. ASSUME NEW h \in Loggers, GetLogger(h)
      PROVE  LogInv'
  <2>1. CASE named[0] # None
    BY <1>1, <2>1 DEF GetLogger, TypeOK, NoGaps, NamedOnce, FilesFit
  <2>2. CASE named[0] = None
    <3>1. PICK f \in Unused : /\ named' = [named EXCEPT ![0] = f]
                              /\ size' = [size EXCEPT ![f] = 0]
                              /\ stream' = [stream EXCEPT ![h] = f]
      BY <1>1, <2>2 DEF GetLogger
    <3>2. f \in Files /\ \A i \in Names : named[i] # f
      BY DEF Unused, HasName
    <3>3. TypeOK' /\ FilesFit'
      BY <1>1, <3>1, <3>2 DEF GetLogger, TypeOK, FilesFit
    <3>4. NoGaps' /\ NamedOnce'
      BY <3>1, <3>2 DEF TypeOK, NoGaps, NamedOnce
    <3>5. QED
      BY <3>3, <3>4
  <2>3. QED
    BY <2>1, <2>2
<1>2. ASSUME NEW h \in Loggers, NEW n \in Lengths, Emit(h, n)
      PROVE  LogInv'
  <2>1. stream[h] \in Files /\ n \in Nat
    BY <1>2 DEF Emit, TypeOK
  <2>2. TypeOK'
    <3>1. HasName(stream[h]) \in BOOLEAN
      BY DEF HasName
    <3>2. size' \in [Files -> Nat]
      BY <1>2, <2>1 DEF Emit, TypeOK
    <3>3. QED
      BY <1>2, <3>1, <3>2 DEF Emit, TypeOK
  <2>3. NoGaps' /\ NamedOnce'
    BY <1>2 DEF Emit, NoGaps, NamedOnce
  <2>4. FilesFit'
    BY <1>2, <2>1 DEF Emit, ShouldRollover, TypeOK, FilesFit
  <2>5. QED
    BY <2>2, <2>3, <2>4
<1>3. ASSUME NEW h \in Loggers, NEW n \in Lengths, EmitAfterRollover(h, n)
      PROVE  LogInv'
  <2>1. PICK f \in Unused : /\ named' = Rotated(f)
                            /\ size' = [size EXCEPT ![f] = n]
                            /\ stream' = [stream EXCEPT ![h] = f]
    BY <1>3 DEF EmitAfterRollover
  <2>2. f \in Files /\ n \in Nat
    BY DEF Unused
  <2>3. TypeOK'
    BY <1>3, <2>1, <2>2, NamesAfterRotation DEF EmitAfterRollover, TypeOK
  <2>4. NoGaps' /\ NamedOnce'
    BY <2>1, RotationKeepsNames
  <2>5. FilesFit'
    BY <2>1, <2>2 DEF TypeOK, FilesFit
  <2>6. QED
    BY <2>3, <2>4, <2>5
<1>4. CASE Restart
  BY <1>4 DEF Restart, TypeOK, NoGaps, NamedOnce, FilesFit
<1>5. CASE UNCHANGED vars
  BY <1>5 DEF vars, TypeOK, NoGaps, NamedOnce, FilesFit
<1>6. QED
  BY <1>1, <1>2, <1>3, <1>4, <1>5 DEF Next

(* However many handlers rotate the one log, its names have no gap, no two *)
(* are of one file, and no file outgrows the limit.                        *)
THEOREM Invariance == ASSUME Rotating PROVE Spec => []LogInv
<1>1. Init => LogInv
  BY LogInit
<1>2. LogInv /\ [Next]_vars => LogInv'
  BY LogStep
<1>3. QED
  BY <1>1, <1>2, PTL DEF Spec

(* A rotation moves every named file one name up, so it deletes the last   *)
(* and no other, and the file it begins was not in the directory.          *)
THEOREM DropsTheOldest == ASSUME Rotating PROVE Spec => OnlyTheOldestIsDropped
<1>1. ASSUME LogInv, Next, NEW f \in Files, HasName(f)
      PROVE  named[Backups] = f \/ (HasName(f)' /\ size'[f] >= size[f])
  <2>1. /\ named \in [Names -> Files \cup {None}]
        /\ size \in [Files -> Nat]
        /\ stream \in [Loggers -> Files \cup {None}]
    BY <1>1 DEF LogInv, TypeOK
  <2>2. f # None /\ f \notin Unused
    BY <1>1 DEF Unused
  <2>3. ASSUME NEW h \in Loggers, GetLogger(h)
        PROVE  HasName(f)' /\ size'[f] >= size[f]
    BY <1>1, <2>1, <2>2, <2>3 DEF GetLogger, HasName
  <2>4. ASSUME NEW h \in Loggers, NEW n \in Lengths, Emit(h, n)
        PROVE  HasName(f)' /\ size'[f] >= size[f]
    <3>1. size'[f] = size[f] \/ size'[f] = size[f] + n
      BY <2>1, <2>4 DEF Emit
    <3>2. HasName(f)'
      BY <1>1, <2>4 DEF Emit, HasName
    <3>3. QED
      BY <2>1, <3>1, <3>2
  <2>5. ASSUME NEW h \in Loggers, NEW n \in Lengths, EmitAfterRollover(h, n)
        PROVE  named[Backups] = f \/ (HasName(f)' /\ size'[f] >= size[f])
    <3>1. PICK g \in Unused : named' = Rotated(g) /\ size' = [size EXCEPT ![g] = n]
      BY <2>5 DEF EmitAfterRollover
    <3>2. size'[f] = size[f]
      BY <2>1, <2>2, <3>1
    <3>3. PICK i \in Names : named[i] = f
      BY <1>1 DEF HasName
    <3>4. CASE i = Backups
      BY <3>3, <3>4
    <3>5. CASE i # Backups
      <4>1. i + 1 \in Names \ {0} /\ (i + 1) - 1 = i
        BY <3>5
      <4>2. Rotated(g)[i + 1] = named[(i + 1) - 1]
        BY <1>1, <4>1, NamesAfterRotation DEF Unused
      <4>3. named'[i + 1] = f
        BY <3>1, <3>3, <4>1, <4>2
      <4>4. QED
        BY <2>1, <3>2, <4>1, <4>3 DEF HasName
    <3>6. QED
      BY <3>4, <3>5
  <2>6. CASE Restart
    BY <1>1, <2>1, <2>6 DEF Restart, HasName
  <2>7. QED
    BY <1>1, <2>3, <2>4, <2>5, <2>6 DEF Next
<1>2. LogInv /\ [Next]_vars =>
        [\A f \in Files : HasName(f) => \/ named[Backups] = f
                                        \/ HasName(f)' /\ size'[f] >= size[f]]_vars
  BY <1>1
<1>3. QED
  BY <1>2, Invariance, PTL DEF Spec, OnlyTheOldestIsDropped

-----------------------------------------------------------------------------
(* The handler of a process with one logger always holds app.log open.     *)
HoldsAppLog == \A h \in Loggers : stream[h] # None => stream[h] = named[0]

(* One handler for the one file is all it takes: no record is lost then,   *)
(* as the documentation of log_to_file says.                               *)
THEOREM OneHandlerLosesNothing ==
  ASSUME Rotating, NEW one, Loggers = {one}
  PROVE  Spec => []EveryRecordReachesTheLog
<1> DEFINE J == HoldsAppLog /\ reached
<1>1. Init => J
  BY DEF Init, HoldsAppLog
<1>2. ASSUME LogInv, J, [Next]_vars
      PROVE  J'
  <2>1. ASSUME NEW h \in Loggers, GetLogger(h)
        PROVE  J'
    BY <1>2, <2>1 DEF GetLogger, HoldsAppLog, LogInv, TypeOK
  <2>2. ASSUME NEW h \in Loggers, NEW n \in Lengths, Emit(h, n)
        PROVE  J'
    <3>1. HasName(stream[h])
      BY <1>2, <2>2 DEF Emit, HoldsAppLog, HasName
    <3>2. QED
      BY <1>2, <2>2, <3>1 DEF Emit, HoldsAppLog
  <2>3. ASSUME NEW h \in Loggers, NEW n \in Lengths, EmitAfterRollover(h, n)
        PROVE  J'
    <3>1. PICK f \in Unused : named' = Rotated(f) /\ stream' = [stream EXCEPT ![h] = f]
      BY <2>3 DEF EmitAfterRollover
    <3>2. named'[0] = f
      BY <1>2, <3>1, NamesAfterRotation DEF Unused
    <3>3. HoldsAppLog'
      BY <1>2, <3>1, <3>2 DEF HoldsAppLog, LogInv, TypeOK
    <3>4. QED
      BY <2>3, <3>3 DEF EmitAfterRollover
  <2>4. CASE Restart
    BY <1>2, <2>4 DEF Restart, HoldsAppLog
  <2>5. CASE UNCHANGED vars
    BY <1>2, <2>5 DEF vars, HoldsAppLog
  <2>6. QED
    BY <1>2, <2>1, <2>2, <2>3, <2>4, <2>5 DEF Next
<1>3. J => EveryRecordReachesTheLog
  BY DEF EveryRecordReachesTheLog
<1> HIDE DEF J
<1>4. QED
  BY <1>1, <1>2, <1>3, Invariance, PTL DEF Spec
===============================================================================
