---------------------------- MODULE LoggerProofs ----------------------------
(***************************************************************************)
(* Proofs about Logger, for every size of the log file, every number of    *)
(* records and of seconds.                                                 *)
(***************************************************************************)
EXTENDS Logger, FiniteSetTheorems, TLAPS

\* While an archive is being written there is nothing in it yet, and when the
\* log is about to be erased after a good writing the archive has all of it.
ArchiveHoldsLog ==
  /\ pc \in {"bz", "write"} => archives[stamp] = {}
  /\ pc = "erase" /\ written => archives[stamp] = log

IInv == TypeOK /\ FileAccounting /\ StartsSmall /\ ArchiveHoldsLog

Targets == [max_log_level : Levels, use_stdout : BOOLEAN,
            out_file : {"null", "log", "stdout"}, logger_func : {"null", "syslog", "file"}]

\* A new process has a target without a file.
LEMMA NewTarget ==
  /\ Zeroed \in Targets
  /\ Zeroed.out_file = "null" /\ Zeroed.use_stdout = FALSE
BY DEF Zeroed, Targets, Levels

LEMMA InvInit == Init => IInv
<1> SUFFICES ASSUME Init PROVE IInv OBVIOUS
<1>1. TypeOK
  <2>1. target \in Targets BY NewTarget DEF Init
  <2>2. 1 \in Seconds /\ 0 \in 0 .. MAX_RECORDS BY LoggerAssumption DEF Seconds
  <2>3. archives \in [Seconds -> SUBSET Records] BY DEF Init
  <2> QED BY <2>1, <2>2, <2>3 DEF Init, TypeOK, Targets
<1>2. FileAccounting BY NewTarget DEF Init, FileAccounting
<1> QED BY <1>1, <1>2 DEF Init, IInv, StartsSmall, ArchiveHoldsLog

\* A set of records has a cardinality that can be compared with the limit.
LEMMA RecordsFinite ==
  ASSUME NEW S, S \subseteq Records
  PROVE  IsFiniteSet(S) /\ Cardinality(S) \in Nat
<1>1. IsFiniteSet(Records) BY LoggerAssumption, FS_Interval DEF Records
<1> QED BY <1>1, FS_Subset, FS_CardinalityType

\* cleanup_internal leaves no FILE object on the log, does not close stdout,
\* and keeps the level and the printing function.
LEMMA Cleaned ==
  ASSUME TypeOK, FileAccounting
  PROVE  /\ cleanup_internal.files = 0
         /\ cleanup_internal.out = TRUE
         /\ cleanup_internal.t \in Targets
         /\ cleanup_internal.t.out_file = "null"
         /\ cleanup_internal.t.use_stdout = FALSE
         /\ cleanup_internal.t.logger_func = target.logger_func
<1>1. target \in Targets BY DEF TypeOK, Targets
<1> DEFINE empty == [target EXCEPT !.out_file = "null", !.use_stdout = FALSE]
<1>2. /\ cleanup_internal.t = IF target.out_file = "null" THEN target ELSE empty
      /\ cleanup_internal.files = IF target.out_file = "log" /\ ~target.use_stdout
                                     THEN logFiles - 1 ELSE logFiles
      /\ cleanup_internal.out = (stdoutOpen /\ ~(target.out_file = "stdout" /\ ~target.use_stdout))
  BY DEF cleanup_internal
<1>3. /\ empty \in Targets
      /\ empty.out_file = "null" /\ empty.use_stdout = FALSE
      /\ empty.logger_func = target.logger_func
  BY <1>1 DEF Targets
<1>4. target.use_stdout \in BOOLEAN /\ stdoutOpen = TRUE
  BY <1>1 DEF Targets, FileAccounting, TypeOK
<1>5. cleanup_internal.files = 0 BY <1>2, <1>4 DEF FileAccounting
<1>6. cleanup_internal.out = TRUE BY <1>2, <1>4 DEF FileAccounting
<1> HIDE DEF empty
<1>7. CASE target.out_file = "null"
  <2>1. target.use_stdout = FALSE BY <1>4, <1>7 DEF FileAccounting
  <2> QED BY <1>1, <1>2, <1>5, <1>6, <1>7, <2>1
<1>8. CASE target.out_file # "null"
  BY <1>2, <1>3, <1>5, <1>6, <1>8
<1> QED BY <1>7, <1>8

\* What the invariant asks of a step that leaves the files of the disk and
\* those of logger_archive alone: it is about the target then.
LEMMA TargetKept ==
  ASSUME IInv,
         target' \in Targets,
         logFiles' = IF target'.out_file = "log" THEN 1 ELSE 0,
         target'.use_stdout <=> target'.out_file = "stdout",
         stdoutOpen',
         pc' \in {"down", "ready"},
         archFiles' = {},
         logExists' \in BOOLEAN,
         UNCHANGED <<archiveOk, stamp, written, log, archives, printed, now>>
  PROVE  IInv'
BY DEF IInv, TypeOK, FileAccounting, StartsSmall, ArchiveHoldsLog, ArchivePoints, Targets

\* The process may go at any time.
LEMMA DieStep == IInv /\ Die => IInv'
BY TargetKept, NewTarget DEF Die, disk, IInv, TypeOK

LEMMA InvStep == IInv /\ [Next]_vars => IInv'
<1> SUFFICES ASSUME IInv, [Next]_vars PROVE IInv'
  OBVIOUS
<1> USE DEF process, disk
<1>1. CASE Start
  BY <1>1 DEF Start, IInv, TypeOK, FileAccounting, StartsSmall, ArchiveHoldsLog, ArchivePoints
<1>2. CASE OpenLog
  <2>1. Cardinality(log) \in Nat BY RecordsFinite DEF IInv, TypeOK
  <2>2. TypeOK' /\ FileAccounting' /\ ArchiveHoldsLog'
    BY <1>2 DEF OpenLog, Return, IInv, TypeOK, FileAccounting, ArchiveHoldsLog, ArchivePoints
  <2>3. StartsSmall'
    BY <1>2, <2>1, LoggerAssumption DEF OpenLog, Return, TooLarge, StartsSmall
  <2> QED BY <2>2, <2>3 DEF IInv
<1>3. CASE MakeFolder
  BY <1>3 DEF MakeFolder, Return, IInv, TypeOK, FileAccounting, StartsSmall, ArchiveHoldsLog,
              ArchivePoints
<1>4. CASE OpenZip
  BY <1>4 DEF OpenZip, Return, IInv, TypeOK, FileAccounting, StartsSmall, ArchiveHoldsLog,
              ArchivePoints
<1>5. CASE OpenBz
  BY <1>5 DEF OpenBz, Return, IInv, TypeOK, FileAccounting, StartsSmall, ArchiveHoldsLog,
              ArchivePoints
<1>6. CASE WriteLines
  <2>1. PICK ok \in BOOLEAN :
          /\ written' = ok
          /\ archives' = [archives EXCEPT ![stamp] = IF ok THEN log ELSE {}]
    BY <1>6 DEF WriteLines
  <2>2. /\ archives' \in [Seconds -> SUBSET Records]
        /\ ok => archives'[stamp] = log
    BY <2>1 DEF IInv, TypeOK
  <2> QED
    BY <1>6, <2>1, <2>2
    DEF WriteLines, IInv, TypeOK, FileAccounting, StartsSmall, ArchiveHoldsLog, ArchivePoints
<1>7. CASE EraseLog
  <2>1. TypeOK' /\ FileAccounting' /\ ArchiveHoldsLog'
    BY <1>7 DEF EraseLog, Return, IInv, TypeOK, FileAccounting, ArchiveHoldsLog, ArchivePoints
  <2>2. StartsSmall'
    <3>1. Cardinality({}) = 0 BY FS_EmptySet
    <3> QED BY <1>7, <3>1, LoggerAssumption DEF EraseLog, Return, StartsSmall
  <2> QED BY <2>1, <2>2 DEF IInv
<1>8. ASSUME NEW level \in Levels, logger_set_log_file(level), pc \in {"target", "ready"}
      PROVE  IInv'
  <2>1. archFiles = {} /\ logExists \in BOOLEAN BY <1>8 DEF IInv, TypeOK, FileAccounting, ArchivePoints
  <2>2. CASE /\ target' = [cleanup_internal.t EXCEPT !.out_file = "log", !.logger_func = "file",
                                                     !.max_log_level = level]
             /\ pc' = "ready" /\ logFiles' = cleanup_internal.files + 1
             /\ stdoutOpen' = cleanup_internal.out /\ logExists' = TRUE
             /\ UNCHANGED <<archiveOk, archFiles, stamp, written, log, archives, printed, now>>
    <3>1. /\ target' \in Targets
          /\ target'.out_file = "log" /\ target'.use_stdout = FALSE
      BY <1>8, <2>2, Cleaned DEF IInv, Targets
    <3>2. cleanup_internal.files = 0 /\ cleanup_internal.out = TRUE BY Cleaned DEF IInv
    <3>3. logFiles' = 1 BY <2>2, <3>2
    <3>4. stdoutOpen' BY <2>2, <3>2
    <3> QED BY <2>1, <2>2, <3>1, <3>3, <3>4, TargetKept
  <2>3. CASE /\ target' = [cleanup_internal.t EXCEPT !.max_log_level = level]
             /\ pc' = "ready" /\ logFiles' = cleanup_internal.files
             /\ stdoutOpen' = cleanup_internal.out
             /\ UNCHANGED <<archiveOk, archFiles, stamp, written, disk, printed, now>>
    <3>1. /\ target' \in Targets
          /\ target'.out_file = "null" /\ target'.use_stdout = FALSE
      BY <1>8, <2>3, Cleaned DEF IInv, Targets
    <3> QED BY <2>1, <2>3, <3>1, Cleaned, TargetKept DEF IInv
  <2> QED BY <1>8, <2>2, <2>3, DieStep DEF logger_set_log_file
<1>9. CASE SetLogFileAtInit
  BY <1>8, <1>9 DEF SetLogFileAtInit, Levels
<1>10. CASE SetLogFile
  <2>1. target.max_log_level \in Levels BY DEF IInv, TypeOK
  <2> QED BY <1>8, <1>10, <2>1 DEF SetLogFile
<1>11. ASSUME NEW t \in Targets, Retarget(t), t.out_file # "log",
              t.use_stdout <=> t.out_file = "stdout"
       PROVE  IInv'
  <2>1. archFiles = {} /\ logExists \in BOOLEAN
    BY <1>11 DEF Retarget, IInv, TypeOK, FileAccounting, ArchivePoints
  <2> QED BY <1>11, <2>1, Cleaned, TargetKept DEF Retarget, IInv
<1>12. CASE logger_set_out_stdout
  <2> DEFINE t == [cleanup_internal.t EXCEPT !.use_stdout = TRUE, !.out_file = "stdout",
                                             !.logger_func = "file"]
  <2>1. t \in Targets /\ t.out_file = "stdout" /\ t.use_stdout = TRUE
    BY Cleaned DEF IInv, Targets
  <2>2. Retarget(t) BY <1>12 DEF logger_set_out_stdout
  <2> HIDE DEF t
  <2> QED BY <1>11, <2>1, <2>2
<1>13. CASE logger_reset_state \/ logger_deinit
  <2> DEFINE t == [cleanup_internal.t EXCEPT !.max_log_level = 1, !.logger_func = "syslog"]
  <2>1. t \in Targets /\ t.out_file = "null" /\ t.use_stdout = FALSE
    <3>1. 1 \in Levels BY DEF Levels
    <3> QED BY <3>1, Cleaned DEF IInv, Targets
  <2>2. Retarget(t) \/ Retarget(cleanup_internal.t)
    BY <1>13 DEF logger_reset_state, logger_deinit
  <2> HIDE DEF t
  <2> QED BY <1>11, <2>1, <2>2, Cleaned DEF IInv
<1>14. CASE logger_set_log_level
  <2>1. PICK l \in Levels : target' = [target EXCEPT !.max_log_level = l]
    BY <1>14 DEF logger_set_log_level
  <2>2. target \in Targets BY DEF IInv, TypeOK, Targets
  <2>3. /\ target' \in Targets
        /\ target'.out_file = target.out_file /\ target'.use_stdout = target.use_stdout
    BY <2>1, <2>2 DEF Targets
  <2> QED
    BY <1>14, <2>3, TargetKept
    DEF logger_set_log_level, IInv, TypeOK, FileAccounting, ArchivePoints
<1>15. ASSUME NEW kind \in DOMAIN LeastLevel, log_generic(kind) PROVE IInv'
  <2>1. CASE Die BY <2>1, DieStep
  <2>2. CASE /\ pc = "ready" /\ printed < MAX_RECORDS
             /\ printed' = printed + 1 /\ log' \in {log, log \cup {printed + 1}}
             /\ UNCHANGED <<pc, archiveOk, process, stamp, written, logExists, archives, now>>
    <3>1. printed + 1 \in Records BY <2>2, LoggerAssumption DEF IInv, TypeOK, Records
    <3> QED
      BY <2>2, <3>1, LoggerAssumption
      DEF IInv, TypeOK, FileAccounting, StartsSmall, ArchiveHoldsLog
  <2> QED BY <1>15, <2>1, <2>2 DEF log_generic
<1>16. CASE Kill
  BY <1>16, DieStep DEF Kill
<1>17. CASE NextSecond
  BY <1>17, LoggerAssumption
  DEF NextSecond, IInv, TypeOK, FileAccounting, StartsSmall, ArchiveHoldsLog, Seconds
<1>18. CASE UNCHANGED vars
  BY <1>18
  DEF vars, IInv, TypeOK, FileAccounting, StartsSmall, ArchiveHoldsLog
<1> QED
  BY <1>1, <1>2, <1>3, <1>4, <1>5, <1>6, <1>7, <1>9, <1>10, <1>12, <1>13, <1>14, <1>15,
     <1>16, <1>17, <1>18
  DEF Next, logger_archive

THEOREM Invariance == Spec => []IInv
BY InvInit, InvStep, PTL DEF Spec

\* The target, the files and the clock keep their types, and the logger never
\* closes more FILE objects than it has opened.
THEOREM TypeCorrect == Spec => []TypeOK
<1>1. IInv => TypeOK BY DEF IInv
<1> QED BY <1>1, Invariance, PTL

\* One FILE object on the log while it is the target and none otherwise,
\* stdout never closed, and nothing left open by logger_archive.
THEOREM FilesCorrect == Spec => []FileAccounting
<1>1. IInv => FileAccounting BY DEF IInv
<1> QED BY <1>1, Invariance, PTL

\* A start that reports success starts with a small log.
THEOREM SmallCorrect == Spec => []StartsSmall
<1>1. IInv => StartsSmall BY DEF IInv
<1> QED BY <1>1, Invariance, PTL

-----------------------------------------------------------------------------

\* The only steps that take a record away are the erasing of the log and the
\* opening and the writing of an archive; ArchiveHoldsLog says what they take.
LEMMA KeptStep ==
  ASSUME IInv, [Next]_vars, NEW r \in Kept
  PROVE  \/ r \in Kept'
         \/ pc = "erase" /\ ~written
         \/ pc = "zip" /\ stamp' = now /\ r \in archives[now]
<1> USE DEF process, disk
<1>1. archives \in [Seconds -> SUBSET Records] /\ stamp \in Seconds /\ now \in Seconds
  BY DEF IInv, TypeOK
<1>2. CASE log \subseteq log' /\ UNCHANGED archives
  BY <1>2 DEF Kept
<1>3. CASE OpenZip
  <2>1. CASE UNCHANGED archives BY <1>3, <2>1, <1>2 DEF OpenZip
  <2>2. CASE archives' = [archives EXCEPT ![now] = {}] /\ stamp' = now
    BY <1>1, <1>3, <2>2 DEF OpenZip, Kept
  <2> QED BY <1>3, <2>1, <2>2 DEF OpenZip
<1>4. CASE WriteLines
  <2>1. PICK new : archives' = [archives EXCEPT ![stamp] = new]
    BY <1>4 DEF WriteLines
  <2>2. archives[stamp] = {} BY <1>4 DEF WriteLines, IInv, ArchiveHoldsLog
  <2> QED BY <1>1, <1>4, <2>1, <2>2 DEF WriteLines, Kept
<1>5. CASE EraseLog
  <2>1. CASE written
    <3>1. archives[stamp] = log BY <1>5, <2>1 DEF EraseLog, IInv, ArchiveHoldsLog
    <3> QED BY <1>1, <1>5, <3>1 DEF EraseLog, Kept
  <2>2. CASE ~written BY <1>5, <2>2 DEF EraseLog
  <2> QED BY <2>1, <2>2
<1>6. ASSUME Start \/ OpenLog \/ MakeFolder \/ OpenBz \/ Kill \/ NextSecond \/ UNCHANGED vars
      PROVE  log \subseteq log' /\ UNCHANGED archives
  BY <1>6 DEF Start, OpenLog, MakeFolder, OpenBz, Kill, Die, NextSecond, vars
<1>7. ASSUME \/ SetLogFileAtInit \/ SetLogFile \/ logger_set_out_stdout \/ logger_reset_state
             \/ logger_deinit \/ logger_set_log_level
      PROVE  log \subseteq log' /\ UNCHANGED archives
  BY <1>7
  DEF SetLogFileAtInit, SetLogFile, logger_set_log_file, Die, logger_set_out_stdout,
      logger_reset_state, logger_deinit, Retarget, logger_set_log_level
<1>8. ASSUME NEW kind \in DOMAIN LeastLevel, log_generic(kind)
      PROVE  log \subseteq log' /\ UNCHANGED archives
  BY <1>8 DEF log_generic, Die
<1> QED
  BY <1>2, <1>3, <1>4, <1>5, <1>6, <1>7, <1>8 DEF Next, logger_archive

\* A record that has reached the log file is lost to an archive that was not
\* written or to one of the same second, and in no other way.
THEOREM RecordsCorrect == Spec => RecordsKept
<1>1. IInv /\ [Next]_vars =>
        [\A r \in Kept : \/ r \in Kept'
                         \/ pc = "erase" /\ ~written
                         \/ pc = "zip" /\ stamp' = now /\ r \in archives[now]]_vars
  BY KeptStep
<1> QED BY <1>1, Invariance, PTL DEF Spec, RecordsKept
=============================================================================
