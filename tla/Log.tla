-------------------------------- MODULE Log --------------------------------
(***************************************************************************)
(* The logger (src/utils/log.c).  Any thread logs; errors are written to   *)
(* the file at once, warnings stay in the buffer for a writer thread that  *)
(* is started when it is needed and ends when nothing was left to write.   *)
(* A file that has grown too large is renamed, and old ones are deleted.   *)
(*                                                                         *)
(* The buffer and the files hold pieces: a message is its heading (time,   *)
(* label, place) and its text, which _log pushes one after the other.      *)
(* Messages are numbered in the order in which they enter the buffer.      *)
(* The process may end at any time, and starts again on the same files.    *)
(***************************************************************************)
EXTENDS Integers, SequencesExt

CONSTANTS
  Callers,      \* the threads that log
  Writer,       \* the thread that runs writeThread
  NoOne,        \* the owner of a free mutex
  Levels,       \* levels in use: 0 and 1 end the process, 3 is an error, 4 a warning
  LogLevel,     \* _logLevel
  MaxSize,      \* _maxSize, in pieces
  MaxBackups,   \* _maxBackups
  Rounds,       \* flushes before the writer thread may end (120 in the code)
  MaxMessages,  \* bound on the messages of an instance
  MaxFaults     \* bound on the kinds of failure, crashes included, in one behaviour

ASSUME LogAssumption ==
  /\ Writer \notin Callers /\ NoOne \notin Callers \cup {Writer}
  /\ Levels \subseteq 0 .. 6 /\ LogLevel \in 0 .. 6
  /\ {MaxSize, Rounds} \subseteq Nat \ {0}
  /\ {MaxBackups, MaxMessages, MaxFaults} \subseteq Nat

Threads == Callers \cup {Writer}

VARIABLES
  isInit,       \* _isInit
  mutex,        \* the owner of _mutex
  buffer,       \* the first _bufferSize bytes of _buffer
  named,        \* _fileName is not empty
  opened,       \* _file is not NULL
  thread,       \* _thread is not 0
  pc,           \* where each thread is
  number,       \* the number of the message each caller works on
  round, ret,   \* i and ret of writeThread
  current,      \* what log.txt holds
  backups,      \* what the renamed files hold, oldest first
  logged,       \* the level of each message
  written,      \* history: all that was ever written, in order
  returned,     \* history: the errors whose _log returned
  lost,         \* history: the messages in memory when the process ended
  faults        \* history: what failed

memory == <<isInit, mutex, buffer, named, opened, thread, pc, number, round, ret>>
disk == <<current, backups>>
history == <<logged, written, returned, lost, faults>>
vars == <<memory, disk, history>>

level(t) == logged[number[t]]   \* the argument of t's call
Heading(n) == <<n, "head">>
Text(n) == <<n, "text">>

(* The environment lets an operation fail; an instance bounds the kinds of *)
(* failure that one behaviour combines.                                    *)
Fails(kind) ==
  /\ Cardinality(faults \cup {kind}) <= MaxFaults
  /\ faults' = faults \cup {kind}

Idle == [t \in Threads |-> IF t = Writer THEN "none" ELSE "idle"]

Init ==
  /\ isInit = FALSE /\ mutex = NoOne /\ buffer = << >>
  /\ named = FALSE /\ opened = FALSE /\ thread = FALSE
  /\ pc = Idle /\ number = [t \in Callers |-> 0]
  /\ round = 0 /\ ret = 0
  /\ current = << >> /\ backups = << >>
  /\ logged = << >> /\ written = << >> /\ returned = {} /\ lost = {}
  /\ faults = {}

-----------------------------------------------------------------------------
(* Entering _log *)

(* log.h configures the logger before it is used.  A program that does not *)
(* must log from one thread alone until _log has created the mutex.        *)
Alone == \A t \in Callers : pc[t] = "idle"

(* Mutant: the mutex is created at each call. *)
LOG_CONFIG_Again ==
  /\ isInit' = TRUE /\ mutex' = NoOne
  /\ UNCHANGED <<buffer, named, opened, thread, pc, number, round, ret, disk, history>>

LOG_CONFIG ==
  /\ ~isInit /\ Alone
  /\ isInit' = TRUE /\ mutex' = NoOne
  /\ UNCHANGED <<buffer, named, opened, thread, pc, number, round, ret, disk, history>>

Call(t) ==
  /\ pc[t] = "idle" /\ (isInit \/ Alone)
  /\ pc' = [pc EXCEPT ![t] = IF isInit THEN "lock" ELSE "create"]
  /\ UNCHANGED <<isInit, mutex, buffer, named, opened, thread, number, round, ret, disk, history>>

CreateMutex(t) ==
  /\ pc[t] = "create"
  /\ mutex' = NoOne /\ isInit' = TRUE
  /\ pc' = [pc EXCEPT ![t] = "lock"]
  /\ UNCHANGED <<buffer, named, opened, thread, number, round, ret, disk, history>>

(* The callers, and the writer thread before each flush and at its end. *)
Lock(t) ==
  /\ pc[t] \in {"lock", "last"} /\ mutex = NoOne
  /\ t \in Callers => Len(logged) < MaxMessages
  /\ mutex' = t
  /\ pc' = [pc EXCEPT ![t] = CASE t \in Callers -> "head"
                               [] pc[t] = "last" -> "clear"
                               [] OTHER -> "flush"]
  /\ UNCHANGED <<isInit, buffer, named, opened, thread, number, round, ret, disk, history>>

-----------------------------------------------------------------------------
(* _log, with the mutex held *)

(* The pieces before the text are pushed. *)
PushHead(t) ==
  LET n == Len(logged) + 1 IN
  /\ pc[t] = "head"
  /\ \E l \in Levels : logged' = Append(logged, l)
  /\ number' = [number EXCEPT ![t] = n]
  /\ buffer' = Append(buffer, Heading(n))
  /\ pc' = [pc EXCEPT ![t] = "text"]
  /\ UNCHANGED <<isInit, mutex, named, opened, thread, round, ret, disk,
                 written, returned, lost, faults>>

(* Mutant: < instead of <=, an error is treated like a warning. *)
PushTextLess(t) ==
  /\ pc[t] = "text"
  /\ buffer' = Append(buffer, Text(number[t]))
  /\ pc' = [pc EXCEPT ![t] = IF level(t) > LogLevel THEN "print"
                             ELSE IF level(t) < 3 THEN "flush" ELSE "wake"]
  /\ UNCHANGED <<isInit, mutex, named, opened, thread, number, round, ret, disk, history>>

(* The text is formatted into the buffer; the level says what follows. *)
PushText(t) ==
  /\ pc[t] = "text"
  /\ buffer' = Append(buffer, Text(number[t]))
  /\ pc' = [pc EXCEPT ![t] = IF level(t) > LogLevel THEN "print"
                             ELSE IF level(t) <= 3 THEN "flush" ELSE "wake"]
  /\ UNCHANGED <<isInit, mutex, named, opened, thread, number, round, ret, disk, history>>

(* Mutant: only the text is taken back. *)
PrintOnlyText(t) ==
  /\ pc[t] = "print"
  /\ buffer' = Front(buffer)
  /\ pc' = [pc EXCEPT ![t] = "unlock"]
  /\ UNCHANGED <<isInit, mutex, named, opened, thread, number, round, ret, disk, history>>

(* Above _logLevel: it is printed and taken back from the buffer. *)
PrintOnly(t) ==
  /\ pc[t] = "print"
  /\ buffer' = SubSeq(buffer, 1, Len(buffer) - 2)
  /\ pc' = [pc EXCEPT ![t] = "unlock"]
  /\ UNCHANGED <<isInit, mutex, named, opened, thread, number, round, ret, disk, history>>

(* A warning: the writer thread is started unless it runs. *)
WakeWriter(t) ==
  /\ pc[t] = "wake"
  /\ \/ /\ thread
        /\ pc' = [pc EXCEPT ![t] = "unlock"]
        /\ UNCHANGED <<thread, round, ret, faults>>
     \/ /\ ~thread /\ UNCHANGED faults
        /\ thread' = TRUE /\ round' = 0 /\ ret' = 0
        /\ pc' = [pc EXCEPT ![t] = "unlock", ![Writer] = "lock"]
     \/ /\ ~thread /\ Fails("thread")
        /\ pc' = [pc EXCEPT ![t] = "unlock"]
        /\ UNCHANGED <<thread, round, ret>>
  /\ UNCHANGED <<isInit, mutex, buffer, named, opened, number, disk,
                 logged, written, returned, lost>>

(* Mutant: only the early return of errors unlocks. *)
UnlockErrorsOnly(t) ==
  /\ t \in Callers /\ pc[t] = "unlock"
  /\ mutex' = IF level(t) <= 3 THEN NoOne ELSE mutex
  /\ returned' = IF level(t) <= 3 THEN returned \cup {number[t]} ELSE returned
  /\ pc' = [pc EXCEPT ![t] = IF level(t) <= 1 THEN "exit" ELSE "idle"]
  /\ number' = [number EXCEPT ![t] = 0]
  /\ UNCHANGED <<isInit, buffer, named, opened, thread, round, ret, disk,
                 logged, written, lost, faults>>

UnlockCaller(t) ==
  /\ t \in Callers /\ pc[t] = "unlock"
  /\ mutex' = NoOne
  /\ LET isError == level(t) <= LogLevel /\ level(t) <= 3 IN
     /\ returned' = IF isError THEN returned \cup {number[t]} ELSE returned
     /\ pc' = [pc EXCEPT ![t] = IF isError /\ level(t) <= 1 THEN "exit" ELSE "idle"]
  /\ number' = [number EXCEPT ![t] = 0]
  /\ UNCHANGED <<isInit, buffer, named, opened, thread, round, ret, disk,
                 logged, written, lost, faults>>

-----------------------------------------------------------------------------
(* flushBuffer, by a caller or the writer thread *)

Flushed(t) == IF t = Writer THEN "sleep" ELSE "unlock"

(* It opens the file if it has no name yet, and writes the buffer.  When k *)
(* of the bytes could be written, the others stay, but it is the first     *)
(* bytes of the buffer that are kept for them.                             *)
Written(k) ==
  /\ current' = current \o SubSeq(buffer, 1, k)
  /\ written' = written \o SubSeq(buffer, 1, k)
  /\ buffer' = SubSeq(buffer, 1, Len(buffer) - k)

OpenFile ==
  \/ named /\ UNCHANGED <<opened, faults>>
  \/ ~named /\ opened' = TRUE /\ UNCHANGED faults
  \/ ~named /\ opened' = FALSE /\ Fails("open")

flushBuffer(t) ==
  /\ pc[t] = "flush"
  /\ named' = TRUE
  /\ \/ OpenFile /\ Written(IF opened' THEN Len(buffer) ELSE 0)
     \/ /\ opened \/ ~named
        /\ opened' = TRUE
        /\ \E k \in 0 .. Len(buffer) - 1 :
             Written(k) /\ Fails(IF k = 0 THEN "write" ELSE "partial")
  /\ ret' = IF t = Writer THEN Len(buffer) ELSE ret
  /\ pc' = [pc EXCEPT ![t] = IF opened' /\ buffer # << >> /\ Len(current') >= MaxSize
                             THEN "clean" ELSE Flushed(t)]
  /\ UNCHANGED <<isInit, mutex, thread, number, round, backups,
                 logged, returned, lost>>

(* Mutant: the latest backup is deleted, the comparison is the wrong way.  *)
cleanLatest(t) ==
  /\ pc[t] = "clean"
  /\ backups' = IF Len(backups) > MaxBackups THEN Front(backups) ELSE backups
  /\ pc' = [pc EXCEPT ![t] = "rename"]
  /\ UNCHANGED <<isInit, mutex, buffer, named, opened, thread, number, round, ret,
                 current, history>>

(* The file is too large: the oldest of too many backups is deleted ... *)
cleanDirectory(t) ==
  /\ pc[t] = "clean"
  /\ backups' = IF Len(backups) > MaxBackups THEN Tail(backups) ELSE backups
  /\ pc' = [pc EXCEPT ![t] = "rename"]
  /\ UNCHANGED <<isInit, mutex, buffer, named, opened, thread, number, round, ret,
                 current, history>>

(* Mutant: _file is not cleared. *)
RenameKeepingFile(t) ==
  /\ pc[t] = "rename"
  /\ backups' = Append(backups, current) /\ current' = << >>
  /\ named' = FALSE
  /\ pc' = [pc EXCEPT ![t] = Flushed(t)]
  /\ UNCHANGED <<isInit, mutex, buffer, opened, thread, number, round, ret, history>>

(* ... and the file is closed and becomes a backup. *)
Rename(t) ==
  /\ pc[t] = "rename"
  /\ \/ backups' = Append(backups, current) /\ current' = << >> /\ UNCHANGED faults
     \/ Fails("rename") /\ UNCHANGED <<backups, current>>
  /\ named' = FALSE /\ opened' = FALSE
  /\ pc' = [pc EXCEPT ![t] = Flushed(t)]
  /\ UNCHANGED <<isInit, mutex, buffer, thread, number, round, ret,
                 logged, written, returned, lost>>

-----------------------------------------------------------------------------
(* The writer thread *)

(* It unlocks, sleeps and flushes again; after Rounds flushes it ends if   *)
(* the last one had nothing to write.                                      *)
UnlockWriter ==
  /\ pc[Writer] = "sleep"
  /\ mutex' = NoOne
  /\ round' = (round + 1) % Rounds
  /\ pc' = [pc EXCEPT ![Writer] = IF round' = 0 /\ ret = 0 THEN "last" ELSE "lock"]
  /\ UNCHANGED <<isInit, buffer, named, opened, thread, number, ret, disk, history>>

ClearThread ==
  /\ pc[Writer] = "clear"
  /\ thread' = FALSE /\ mutex' = NoOne /\ round' = 0 /\ ret' = 0
  /\ pc' = [pc EXCEPT ![Writer] = "none"]
  /\ UNCHANGED <<isInit, buffer, named, opened, number, disk, history>>

-----------------------------------------------------------------------------
(* The process ends, on a fatal message or in a crash, and starts again. *)
EndProcess ==
  /\ isInit' = FALSE /\ mutex' = NoOne /\ buffer' = << >>
  /\ named' = FALSE /\ opened' = FALSE /\ thread' = FALSE
  /\ pc' = Idle /\ number' = [t \in Callers |-> 0]
  /\ round' = 0 /\ ret' = 0
  /\ lost' = lost \cup {n \in 1 .. Len(logged) : {Heading(n), Text(n)} \cap ToSet(buffer) # {}}
  /\ UNCHANGED <<disk, logged, written, returned>>

Exit(t) == pc[t] = "exit" /\ EndProcess /\ UNCHANGED faults

Crash == isInit /\ EndProcess /\ Fails("crash")

CallerStep(t) ==
  \/ CreateMutex(t) \/ Lock(t) \/ PushHead(t) \/ PushText(t) \/ PrintOnly(t) \/ WakeWriter(t)
  \/ flushBuffer(t) \/ cleanDirectory(t) \/ Rename(t) \/ UnlockCaller(t)

WriterStep ==
  \/ Lock(Writer) \/ flushBuffer(Writer) \/ cleanDirectory(Writer) \/ Rename(Writer)
  \/ UnlockWriter \/ ClearThread

Next ==
  \/ LOG_CONFIG \/ Crash \/ WriterStep
  \/ \E t \in Callers : Call(t) \/ CallerStep(t) \/ Exit(t)

Spec == Init /\ [][Next]_vars

(* The threads run, and the mutex is free again after each use. *)
FairSpec == Spec /\ WF_vars(WriterStep) /\ \A t \in Callers : WF_vars(CallerStep(t))

-----------------------------------------------------------------------------
(* Properties *)

Recorded == {n \in 1 .. Len(logged) : logged[n] <= LogLevel}
Files == FlattenSeq(backups) \o current
Writable == faults \cap {"open", "write", "partial"} = {}
Formatting == \E t \in Callers : pc[t] \in {"text", "print"}

LogTypeOK ==
  /\ isInit \in BOOLEAN /\ named \in BOOLEAN /\ opened \in BOOLEAN /\ thread \in BOOLEAN
  /\ mutex \in Threads \cup {NoOne}
  /\ pc \in [Threads -> {"none", "idle", "create", "lock", "head", "text", "print", "wake", "flush",
                         "clean", "rename", "unlock", "exit", "sleep", "last", "clear"}]
  /\ number \in [Callers -> 0 .. MaxMessages]
  /\ round \in 0 .. Rounds - 1 /\ ret \in Nat
  /\ opened => named
  /\ faults \subseteq {"open", "write", "partial", "rename", "thread", "crash"}

(* "ERROR and above levels write to file immediately" (log.h): the text of *)
(* an error is in the files when its _log returns, whatever other threads  *)
(* buffered before it and whichever of them rotates the file, and it stays *)
(* written when the process ends (_log, flushBuffer).                      *)
ErrorsWritten ==
  Writable => \A n \in returned : {Heading(n), Text(n)} \subseteq ToSet(written)

(* What was written and what is buffered is one record of whole messages,  *)
(* each once and in the order of logging; only messages above _logLevel,   *)
(* and those in memory when the process ended, are missing, and of these   *)
(* nothing is there.  A write that stops half way is the exception (_log,  *)
(* flushBuffer, writeThread).                                              *)
RecordFaithful ==
  LET record == written \o buffer
      recorded == Recorded \ lost
  IN  ("partial" \notin faults /\ ~Formatting) =>
        /\ Len(record) % 2 = 0
        /\ \A i \in 1 .. Len(record) \div 2 :
             record[2 * i - 1] = Heading(record[2 * i][1]) /\ record[2 * i][2] = "text"
        /\ \A i, j \in DOMAIN record :
             i < j => record[i] # record[j] /\ record[i][1] <= record[j][1]
        /\ ToSet(record) = {Heading(n) : n \in recorded} \cup {Text(n) : n \in recorded}

(* The files, in the order of their names, always hold the latest part of  *)
(* all that was written: rotation drops or reorders nothing else, also     *)
(* when the process ends half way through it (flushBuffer, cleanDirectory).*)
FilesHoldLatest ==
  /\ IsSuffix(Files, written)
  /\ Files # written => Len(backups) >= MaxBackups
  /\ Len(backups) <= MaxBackups + 1

(* The writer thread exists exactly while _thread says so, and nobody but  *)
(* the owner of the mutex is inside the critical sections: no second       *)
(* writer is started, and none is missing when a warning relies on it      *)
(* (_log, writeThread, LOG_CONFIG).                                        *)
OneWriter ==
  /\ thread <=> pc[Writer] # "none"
  /\ \A t \in Threads :
       pc[t] \in {"head", "text", "print", "wake", "flush", "clean", "rename", "unlock", "sleep", "clear"}
         => mutex = t

(* A warning that is buffered while the writer thread has a flush to come  *)
(* reaches the file, unless the process ends or the file cannot be written *)
(* (_log, writeThread).  One that is logged between the last flush and the *)
(* end of the thread does not: it waits for the next call of _log.         *)
WarningsWritten ==
  \A n \in 1 .. MaxMessages :
    (n \in Recorded /\ Text(n) \in ToSet(buffer) /\ pc[Writer] \in {"lock", "flush"})
      ~> (Text(n) \in ToSet(written) \/ n \in lost \/ ~Writable \/ ~isInit)
=============================================================================
