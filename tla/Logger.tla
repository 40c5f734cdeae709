------------------------------- MODULE Logger -------------------------------
(***************************************************************************)
(* The logger (logger.c, logger.h): where messages go, the log file and    *)
(* its archive.  logger_init archives a log that has grown too large and   *)
(* opens it for appending; the process may be killed between any two steps *)
(* and is then started again.  The files outlive the process, its FILE     *)
(* objects and settings do not.  Beside what main calls (logger_init and   *)
(* the log functions) the module has the rest of the interface of          *)
(* logger.h, in any order.                                                 *)
(***************************************************************************)
EXTENDS Integers, FiniteSets

CONSTANTS
  LOG_FILE_MAX_SIZE,   \* records from which a log is archived (256 KiB in the program)
  MAX_RECORDS,         \* bound: records printed in all the runs of the process
  MAX_SECONDS          \* bound: seconds, which name the archives

ASSUME LoggerAssumption ==
  /\ LOG_FILE_MAX_SIZE \in Nat \ {0}
  /\ MAX_RECORDS \in Nat
  /\ MAX_SECONDS \in Nat \ {0}

VARIABLES
  pc,            \* where the process is; "down": there is none
  archiveOk,     \* what logger_archive returned
  target,        \* log_global_set: max_log_level, use_stdout, out_file, logger_func
  logFiles,      \* FILE objects opened on the log as a target and not closed
  stdoutOpen,    \* stdout has not been closed
  archFiles,     \* FILE objects of logger_archive: fLog and fLogZip
  stamp,         \* the second in the name of the archive being written
  written,       \* the archive was written to its end without an error
  log,           \* the records in the log file
  logExists,     \* there is a log file
  archives,      \* the records in the archive of each second
  printed,       \* records handed to the log file so far
  now            \* the clock

process == <<target, logFiles, stdoutOpen, archFiles>>
disk    == <<log, logExists, archives>>
vars    == <<pc, archiveOk, process, stamp, written, disk, printed, now>>

Seconds == 1 .. MAX_SECONDS
Records == 1 .. MAX_RECORDS
Levels  == 0 .. 2

\* The static variables of a new process are zero.
Zeroed == [max_log_level |-> 0, use_stdout |-> FALSE, out_file |-> "null", logger_func |-> "null"]

ArchivePoints == {"archive", "folder", "zip", "bz", "write", "erase"}

TypeOK ==
  /\ pc \in {"down", "target", "ready"} \cup ArchivePoints
  /\ archiveOk \in BOOLEAN
  /\ target \in [max_log_level : Levels, use_stdout : BOOLEAN,
                 out_file : {"null", "log", "stdout"}, logger_func : {"null", "syslog", "file"}]
  /\ logFiles \in Nat
  /\ stdoutOpen \in BOOLEAN
  /\ archFiles \subseteq {"fLog", "fLogZip"}
  /\ stamp \in Seconds
  /\ written \in BOOLEAN
  /\ log \subseteq Records
  /\ logExists \in BOOLEAN
  /\ archives \in [Seconds -> SUBSET Records]
  /\ printed \in 0 .. MAX_RECORDS
  /\ now \in Seconds

Init ==
  /\ pc = "down"
  /\ archiveOk = FALSE
  /\ target = Zeroed
  /\ logFiles = 0 /\ stdoutOpen = TRUE /\ archFiles = {}
  /\ stamp = 1 /\ written = FALSE
  /\ log = {} /\ logExists = FALSE
  /\ archives = [s \in Seconds |-> {}]
  /\ printed = 0
  /\ now = 1

-----------------------------------------------------------------------------
(* logger_archive, from its start to its return; Return closes what it has *)
(* opened on that path.                                                    *)

Return(ok) ==
  /\ pc' = "target"
  /\ archiveOk' = ok
  /\ archFiles' = {}

\* Main has called logger_init.
Start ==
  /\ pc = "down"
  /\ pc' = "archive"
  /\ UNCHANGED <<archiveOk, process, stamp, written, disk, printed, now>>

TooLarge == Cardinality(log) >= LOG_FILE_MAX_SIZE

OpenLog ==
  /\ pc = "archive"
  /\ \/ Return(FALSE)                                   \* no log file, or no access to it
     \/ logExists /\ ~TooLarge /\ Return(TRUE)
     \/ /\ logExists /\ TooLarge
        /\ pc' = "folder"
        /\ archFiles' = {"fLog"}
        /\ UNCHANGED archiveOk
  /\ UNCHANGED <<target, logFiles, stdoutOpen, stamp, written, disk, printed, now>>

\* stat and mkdir of LogArchive.
MakeFolder ==
  /\ pc = "folder"
  /\ \/ Return(FALSE)
     \/ pc' = "zip" /\ UNCHANGED <<archFiles, archiveOk>>
  /\ UNCHANGED <<target, logFiles, stdoutOpen, stamp, written, disk, printed, now>>

\* The archive is named after the second it is opened in; opening it
\* empties one that has the name already.
OpenZip ==
  /\ pc = "zip"
  /\ \/ Return(FALSE) /\ UNCHANGED <<archives, stamp>>
     \/ /\ pc' = "bz"
        /\ archFiles' = archFiles \cup {"fLogZip"}
        /\ stamp' = now
        /\ archives' = [archives EXCEPT ![now] = {}]
        /\ UNCHANGED archiveOk
  /\ UNCHANGED <<target, logFiles, stdoutOpen, written, log, logExists, printed, now>>

\* A failed BZ2_bzWriteOpen that is not looked at.
OpenBzUnchecked ==
  /\ pc = "bz"
  /\ pc' \in {"write", "erase"}
  /\ written' = TRUE
  /\ UNCHANGED <<archiveOk, process, stamp, disk, printed, now>>

OpenBz ==
  /\ pc = "bz"
  /\ \/ Return(FALSE)
     \/ pc' = "write" /\ UNCHANGED <<archFiles, archiveOk>>
  /\ UNCHANGED <<target, logFiles, stdoutOpen, stamp, written, disk, printed, now>>

\* All lines are copied, or a write fails: the loop is left, or the failure
\* comes with BZ2_bzWriteClose, which nobody looks at.
WriteLines ==
  /\ pc = "write"
  /\ \E ok \in BOOLEAN :
       /\ written' = ok
       /\ archives' = [archives EXCEPT ![stamp] = IF ok THEN log ELSE {}]
  /\ archFiles' = {}
  /\ pc' = "erase"
  /\ UNCHANGED <<archiveOk, target, logFiles, stdoutOpen, stamp, log, logExists, printed, now>>

\* An erasing that opens the log for appending.
EraseLogAppends ==
  /\ pc = "erase"
  /\ Return(TRUE)
  /\ UNCHANGED <<target, logFiles, stdoutOpen, stamp, written, disk, printed, now>>

\* The log is emptied whether or not the archive was written.
EraseLog ==
  /\ pc = "erase"
  /\ \/ Return(FALSE) /\ UNCHANGED log
     \/ Return(TRUE) /\ log' = {}
  /\ UNCHANGED <<target, logFiles, stdoutOpen, stamp, written, logExists, archives, printed, now>>

-----------------------------------------------------------------------------
(* The target of messages.                                                 *)

\* cleanup_internal when it forgets that stdout was the target.
cleanup_internalForgets ==
  [t |-> [target EXCEPT !.out_file = "null"],
   files |-> IF target.out_file = "log" /\ ~target.use_stdout THEN logFiles - 1 ELSE logFiles,
   out |-> stdoutOpen /\ ~(target.out_file = "stdout" /\ ~target.use_stdout)]

\* What cleanup_internal makes of the target, of the FILE objects on the log
\* and of stdout.
cleanup_internal ==
  [t |-> IF target.out_file = "null" THEN target
         ELSE [target EXCEPT !.out_file = "null", !.use_stdout = FALSE],
   files |-> IF target.out_file = "log" /\ ~target.use_stdout THEN logFiles - 1 ELSE logFiles,
   out |-> stdoutOpen /\ ~(target.out_file = "stdout" /\ ~target.use_stdout)]

\* The process is gone, with everything it had open.
Die ==
  /\ pc' = "down"
  /\ target' = Zeroed
  /\ logFiles' = 0 /\ stdoutOpen' = TRUE /\ archFiles' = {}
  /\ UNCHANGED <<archiveOk, stamp, written, disk, printed, now>>

\* logger_set_log_file, with the level set afterwards.  A failure is reported
\* through the printing function there was, which has no file any more.
logger_set_log_file(level) ==
  \/ /\ pc' = "ready"
     /\ target' = [cleanup_internal.t EXCEPT !.out_file = "log", !.logger_func = "file",
                                             !.max_log_level = level]
     /\ logFiles' = cleanup_internal.files + 1
     /\ stdoutOpen' = cleanup_internal.out
     /\ logExists' = TRUE
     /\ UNCHANGED <<archiveOk, archFiles, stamp, written, log, archives, printed, now>>
  \/ /\ target.logger_func = "syslog"
     /\ pc' = "ready"
     /\ target' = [cleanup_internal.t EXCEPT !.max_log_level = level]
     /\ logFiles' = cleanup_internal.files
     /\ stdoutOpen' = cleanup_internal.out
     /\ UNCHANGED <<archiveOk, archFiles, stamp, written, disk, printed, now>>
  \/ target.logger_func # "syslog" /\ Die

\* The end of logger_init, and the call on its own.
SetLogFileAtInit == pc = "target" /\ logger_set_log_file(2)

SetLogFile == pc = "ready" /\ logger_set_log_file(target.max_log_level)

\* A call that gives the target the value t after cleanup_internal.
Retarget(t) ==
  /\ pc = "ready"
  /\ target' = t
  /\ logFiles' = cleanup_internal.files
  /\ stdoutOpen' = cleanup_internal.out
  /\ UNCHANGED <<pc, archiveOk, archFiles, stamp, written, disk, printed, now>>

logger_set_out_stdout ==
  Retarget([cleanup_internal.t EXCEPT !.use_stdout = TRUE, !.out_file = "stdout",
                                      !.logger_func = "file"])

logger_reset_state ==
  Retarget([cleanup_internal.t EXCEPT !.max_log_level = 1, !.logger_func = "syslog"])

logger_deinit == Retarget(cleanup_internal.t)

logger_set_log_level ==
  /\ pc = "ready"
  /\ \E l \in Levels : target' = [target EXCEPT !.max_log_level = l]
  /\ UNCHANGED <<pc, archiveOk, logFiles, stdoutOpen, archFiles, stamp, written, disk, printed, now>>

-----------------------------------------------------------------------------
(* Messages.                                                               *)

\* The level a message must at least be asked for at: log_error has no test.
LeastLevel == [error |-> 0, warning |-> 1, message |-> 1, debug |-> 2]

\* A message can be printed: there is a function to do it, and a file if it
\* prints to a file.
HasTarget == target.logger_func # "null" /\ (target.logger_func = "file" => target.out_file # "null")

\* print_to_file and print_to_syslog; only records of the log file are kept
\* count of.  A record may get lost: fprintf fails and the fact is sent to
\* syslog, or fflush does and nobody looks.
log_generic(kind) ==
  /\ pc = "ready"
  /\ target.max_log_level >= LeastLevel[kind]
  /\ \/ ~HasTarget /\ Die
     \/ /\ HasTarget /\ target.logger_func = "file" /\ target.out_file = "log"
        /\ printed < MAX_RECORDS
        /\ printed' = printed + 1
        /\ log' \in {log, log \cup {printed + 1}}
        /\ UNCHANGED <<pc, archiveOk, process, stamp, written, logExists, archives, now>>

-----------------------------------------------------------------------------
(* The world.                                                              *)

Kill == pc # "down" /\ Die

NextSecond ==
  /\ now < MAX_SECONDS
  /\ now' = now + 1
  /\ UNCHANGED <<pc, archiveOk, process, stamp, written, disk, printed>>

logger_archive == OpenLog \/ MakeFolder \/ OpenZip \/ OpenBz \/ WriteLines \/ EraseLog

Next ==
  \/ Start
  \/ logger_archive
  \/ SetLogFileAtInit \/ SetLogFile
  \/ logger_set_out_stdout \/ logger_reset_state \/ logger_deinit \/ logger_set_log_level
  \/ \E kind \in DOMAIN LeastLevel : log_generic(kind)
  \/ Kill \/ NextSecond

Spec == Init /\ [][Next]_vars

-----------------------------------------------------------------------------
(* Properties.                                                             *)

\* However the targets follow each other, the logger has one FILE object on
\* the log while that is its target and none otherwise, knows whether its
\* file is stdout, and never closes stdout; logger_archive leaves nothing
\* open on any of its ways out.
FileAccounting ==
  /\ logFiles = IF target.out_file = "log" THEN 1 ELSE 0
  /\ target.use_stdout <=> target.out_file = "stdout"
  /\ stdoutOpen
  /\ pc \notin ArchivePoints => archFiles = {}

\* The records in the log file and in its archives.
Kept == log \cup UNION {archives[s] : s \in Seconds}

\* A record that has reached the log file stays there or goes into an archive,
\* wherever the process is killed; it is lost in two ways only: the log is
\* erased though its archive could not be written, and an archive is
\* overwritten by another one of the same second.
RecordsKept ==
  [][\A r \in Kept : \/ r \in Kept'
                     \/ pc = "erase" /\ ~written
                     \/ pc = "zip" /\ stamp' = now /\ r \in archives[now]]_vars

\* When logger_archive returns true the log is small again, whether this or
\* an earlier start that was killed has archived it.
StartsSmall == pc = "target" /\ archiveOk => Cardinality(log) < LOG_FILE_MAX_SIZE
=============================================================================
