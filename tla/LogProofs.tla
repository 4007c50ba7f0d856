----------------------------- MODULE LogProofs -----------------------------
(***************************************************************************)
(* The logger of src/utils/log.c, proved for any number of threads,        *)
(* messages, failures and restarts, and any sizes.                         *)
(*                                                                         *)
(* OneWriter is inductive once it is known who can be where before the     *)
(* mutex exists: one thread creates it, alone, and no writer runs.  The    *)
(* proof that errors are written then follows one message: its pieces are  *)
(* in the buffer until the flush of the thread that holds the mutex, and   *)
(* an open file is the only kind that flush can meet unless something has  *)
(* failed.                                                                 *)
(***************************************************************************)
EXTENDS Log, SequenceTheorems, TLAPS

Critical ==
  {"head", "text", "print", "wake", "flush", "clean", "rename", "unlock", "sleep", "clear"}

CallerAt == {"idle", "create", "lock", "head", "text", "print", "wake", "flush",
             "clean", "rename", "unlock", "exit"}
WriterAt == {"none", "lock", "flush", "clean", "rename", "sleep", "last", "clear"}

Places ==
  /\ pc \in [Threads -> CallerAt \cup WriterAt]
  /\ \A t \in Callers : pc[t] \in CallerAt
  /\ pc[Writer] \in WriterAt

(* Before the mutex is created there is one thread, if any, in _log. *)
Start ==
  /\ ~isInit => pc[Writer] = "none" /\ \A t \in Callers : pc[t] \in {"idle", "create"}
  /\ \A t \in Callers : pc[t] = "create" =>
       ~isInit /\ \A u \in Callers : u # t => pc[u] = "idle"

Numbers ==
  /\ logged \in Seq(Levels) /\ Len(logged) <= MaxMessages
  /\ \A t \in Callers : pc[t] = "head" => Len(logged) < MaxMessages

Types ==
  /\ isInit \in BOOLEAN /\ named \in BOOLEAN /\ opened \in BOOLEAN /\ thread \in BOOLEAN
  /\ mutex \in Threads \cup {NoOne}
  /\ number \in [Callers -> 0 .. MaxMessages]
  /\ round \in 0 .. Rounds - 1 /\ ret \in Nat
  /\ opened => named
  /\ faults \subseteq {"open", "write", "partial", "rename", "thread", "crash"}

Pieces == Nat \X {"head", "text"}

LInv == LogTypeOK /\ Places /\ Start /\ Numbers /\ OneWriter /\ buffer \in Seq(Pieces)

-----------------------------------------------------------------------------
LEMMA InitInvariant == Init => LInv
<1> SUFFICES ASSUME Init PROVE LInv
  OBVIOUS
<1> USE LogAssumption DEF Threads
<1>1. Places
  BY DEF Init, Idle, Places, CallerAt, WriterAt
<1>2. LogTypeOK
  <2>1. 0 \in 0 .. Rounds - 1
    OBVIOUS
  <2>2. pc \in [Threads -> CallerAt \cup WriterAt]
    BY <1>1 DEF Places
  <2>3. number \in [Callers -> 0 .. MaxMessages]
    BY DEF Init
  <2>4. mutex \in Threads \cup {NoOne} /\ round \in 0 .. Rounds - 1 /\ ret \in Nat
    BY <2>1 DEF Init
  <2>5. isInit \in BOOLEAN /\ named \in BOOLEAN /\ opened \in BOOLEAN /\ thread \in BOOLEAN
    BY DEF Init
  <2>6. faults \subseteq {"open", "write", "partial", "rename", "thread", "crash"}
    BY DEF Init
  <2> QED
    BY <2>1, <2>2, <2>3, <2>4, <2>5, <2>6 DEF Init, LogTypeOK, CallerAt, WriterAt
<1>3. Start /\ OneWriter
  BY DEF Init, Idle, Start, OneWriter
<1>4. Numbers
  BY DEF Init, Idle, Numbers
<1> QED
  BY <1>1, <1>2, <1>3, <1>4 DEF LInv, Init

-----------------------------------------------------------------------------
(* Each step keeps the parts of the invariant. *)

(* Every thread is at a place of its own code. *)
LEMMA PlacesKept == LInv /\ [Next]_vars => Places'
<1> SUFFICES ASSUME LInv, [Next]_vars PROVE Places'
  OBVIOUS
<1> USE LogAssumption DEF LInv, Places, CallerAt, WriterAt, Threads
<1>1. ASSUME LOG_CONFIG PROVE Places'
  BY <1>1 DEF LOG_CONFIG, Alone, Places
<1>2. ASSUME NEW t \in Callers, Call(t) PROVE Places'
  BY <1>2 DEF Call, Alone, Places
<1>3. ASSUME NEW t \in Callers, CreateMutex(t) PROVE Places'
  BY <1>3 DEF CreateMutex, Places
<1>4. ASSUME NEW t \in Threads, Lock(t) PROVE Places'
  BY <1>4 DEF Lock, Places
<1>5. ASSUME NEW t \in Callers, PushHead(t) PROVE Places'
  BY <1>5 DEF PushHead, Heading, Places
<1>6. ASSUME NEW t \in Callers, PushText(t) PROVE Places'
  BY <1>6 DEF PushText, Text, Places
<1>7. ASSUME NEW t \in Callers, PrintOnly(t) PROVE Places'
  BY <1>7 DEF PrintOnly, Places
<1>8. ASSUME NEW t \in Callers, WakeWriter(t) PROVE Places'
  BY <1>8 DEF WakeWriter, Fails, Places
<1>9. ASSUME NEW t \in Threads, flushBuffer(t) PROVE Places'
  BY <1>9 DEF flushBuffer, OpenFile, Flushed, Fails, Places
<1>10. ASSUME NEW t \in Threads, cleanDirectory(t) PROVE Places'
  BY <1>10 DEF cleanDirectory, Places
<1>11. ASSUME NEW t \in Threads, Rename(t) PROVE Places'
  BY <1>11 DEF Rename, Flushed, Fails, Places
<1>12. ASSUME NEW t \in Callers, UnlockCaller(t) PROVE Places'
  BY <1>12 DEF UnlockCaller, Places
<1>13. ASSUME UnlockWriter PROVE Places'
  BY <1>13 DEF UnlockWriter, Places
<1>14. ASSUME ClearThread PROVE Places'
  BY <1>14 DEF ClearThread, Places
<1>15. ASSUME NEW t \in Callers, Exit(t) PROVE Places'
  BY <1>15 DEF Exit, EndProcess, Idle, Places
<1>16. ASSUME Crash PROVE Places'
  BY <1>16 DEF Crash, Fails, EndProcess, Idle, Places
<1>17. ASSUME UNCHANGED vars PROVE Places'
  BY <1>17 DEF vars, memory, disk, history, Places
<1> QED
  BY <1>1, <1>2, <1>3, <1>4, <1>5, <1>6, <1>7, <1>8, <1>9, <1>10, 
     <1>11, <1>12, <1>13, <1>14, <1>15, <1>16, <1>17
     DEF Next, WriterStep, CallerStep, Threads

(* The mutex is created by a thread that is alone. *)
LEMMA StartKept == LInv /\ [Next]_vars => Start'
<1> SUFFICES ASSUME LInv, [Next]_vars PROVE Start'
  OBVIOUS
<1> USE LogAssumption
    DEF LInv, Places, CallerAt, WriterAt, Threads, Start
<1>1. ASSUME LOG_CONFIG PROVE Start'
  BY <1>1 DEF LOG_CONFIG, Alone, Start
<1>2. ASSUME NEW t \in Callers, Call(t) PROVE Start'
  BY <1>2 DEF Call, Alone, Start
<1>3. ASSUME NEW t \in Callers, CreateMutex(t) PROVE Start'
  BY <1>3 DEF CreateMutex, Start
<1>4. ASSUME NEW t \in Threads, Lock(t) PROVE Start'
  BY <1>4 DEF Lock, Start
<1>5. ASSUME NEW t \in Callers, PushHead(t) PROVE Start'
  BY <1>5 DEF PushHead, Heading, Start
<1>6. ASSUME NEW t \in Callers, PushText(t) PROVE Start'
  BY <1>6 DEF PushText, Text, Start
<1>7. ASSUME NEW t \in Callers, PrintOnly(t) PROVE Start'
  BY <1>7 DEF PrintOnly, Start
<1>8. ASSUME NEW t \in Callers, WakeWriter(t) PROVE Start'
  BY <1>8 DEF WakeWriter, Fails, Start
<1>9. ASSUME NEW t \in Threads, flushBuffer(t) PROVE Start'
  BY <1>9 DEF flushBuffer, OpenFile, Flushed, Fails, Start
<1>10. ASSUME NEW t \in Threads, cleanDirectory(t) PROVE Start'
  BY <1>10 DEF cleanDirectory, Start
<1>11. ASSUME NEW t \in Threads, Rename(t) PROVE Start'
  BY <1>11 DEF Rename, Flushed, Fails, Start
<1>12. ASSUME NEW t \in Callers, UnlockCaller(t) PROVE Start'
  BY <1>12 DEF UnlockCaller, Start
<1>13. ASSUME UnlockWriter PROVE Start'
  BY <1>13 DEF UnlockWriter, Start
<1>14. ASSUME ClearThread PROVE Start'
  BY <1>14 DEF ClearThread, Start
<1>15. ASSUME NEW t \in Callers, Exit(t) PROVE Start'
  BY <1>15 DEF Exit, EndProcess, Idle, Start
<1>16. ASSUME Crash PROVE Start'
  BY <1>16 DEF Crash, Fails, EndProcess, Idle, Start
<1>17. ASSUME UNCHANGED vars PROVE Start'
  BY <1>17 DEF vars, memory, disk, history, Start
<1> QED
  BY <1>1, <1>2, <1>3, <1>4, <1>5, <1>6, <1>7, <1>8, <1>9, <1>10, 
     <1>11, <1>12, <1>13, <1>14, <1>15, <1>16, <1>17
     DEF Next, WriterStep, CallerStep, Threads

(* Who is in a critical section owns the mutex. *)
LEMMA OneWriterKept == LInv /\ [Next]_vars => OneWriter'
<1> SUFFICES ASSUME LInv, [Next]_vars PROVE OneWriter'
  OBVIOUS
<1> USE LogAssumption
    DEF LInv, Places, CallerAt, WriterAt, Threads, Start, OneWriter
<1>1. ASSUME LOG_CONFIG PROVE OneWriter'
  BY <1>1 DEF LOG_CONFIG, Alone, OneWriter
<1>2. ASSUME NEW t \in Callers, Call(t) PROVE OneWriter'
  BY <1>2 DEF Call, Alone, OneWriter
<1>3. ASSUME NEW t \in Callers, CreateMutex(t) PROVE OneWriter'
  BY <1>3 DEF CreateMutex, OneWriter
<1>4. ASSUME NEW t \in Threads, Lock(t) PROVE OneWriter'
  BY <1>4 DEF Lock, OneWriter
<1>5. ASSUME NEW t \in Callers, PushHead(t) PROVE OneWriter'
  BY <1>5 DEF PushHead, Heading, OneWriter
<1>6. ASSUME NEW t \in Callers, PushText(t) PROVE OneWriter'
  BY <1>6 DEF PushText, Text, OneWriter
<1>7. ASSUME NEW t \in Callers, PrintOnly(t) PROVE OneWriter'
  BY <1>7 DEF PrintOnly, OneWriter
<1>8. ASSUME NEW t \in Callers, WakeWriter(t) PROVE OneWriter'
  BY <1>8 DEF WakeWriter, Fails, OneWriter
<1>9. ASSUME NEW t \in Threads, flushBuffer(t) PROVE OneWriter'
  BY <1>9 DEF flushBuffer, OpenFile, Flushed, Fails, OneWriter
<1>10. ASSUME NEW t \in Threads, cleanDirectory(t) PROVE OneWriter'
  BY <1>10 DEF cleanDirectory, OneWriter
<1>11. ASSUME NEW t \in Threads, Rename(t) PROVE OneWriter'
  BY <1>11 DEF Rename, Flushed, Fails, OneWriter
<1>12. ASSUME NEW t \in Callers, UnlockCaller(t) PROVE OneWriter'
  BY <1>12 DEF UnlockCaller, OneWriter
<1>13. ASSUME UnlockWriter PROVE OneWriter'
  BY <1>13 DEF UnlockWriter, OneWriter
<1>14. ASSUME ClearThread PROVE OneWriter'
  BY <1>14 DEF ClearThread, OneWriter
<1>15. ASSUME NEW t \in Callers, Exit(t) PROVE OneWriter'
  BY <1>15 DEF Exit, EndProcess, Idle, OneWriter
<1>16. ASSUME Crash PROVE OneWriter'
  BY <1>16 DEF Crash, Fails, EndProcess, Idle, OneWriter
<1>17. ASSUME UNCHANGED vars PROVE OneWriter'
  BY <1>17 DEF vars, memory, disk, history, OneWriter
<1> QED
  BY <1>1, <1>2, <1>3, <1>4, <1>5, <1>6, <1>7, <1>8, <1>9, <1>10, 
     <1>11, <1>12, <1>13, <1>14, <1>15, <1>16, <1>17
     DEF Next, WriterStep, CallerStep, Threads

(* Messages stay within the bound. *)
LEMMA NumbersKept == LInv /\ [Next]_vars => Numbers'
<1> SUFFICES ASSUME LInv, [Next]_vars PROVE Numbers'
  OBVIOUS
<1> USE LogAssumption
    DEF LInv, Places, CallerAt, WriterAt, Threads, OneWriter, Numbers, history
<1>1. ASSUME LOG_CONFIG PROVE Numbers'
  BY <1>1 DEF LOG_CONFIG, Alone, Numbers
<1>2. ASSUME NEW t \in Callers, Call(t) PROVE Numbers'
  BY <1>2 DEF Call, Alone, Numbers
<1>3. ASSUME NEW t \in Callers, CreateMutex(t) PROVE Numbers'
  BY <1>3 DEF CreateMutex, Numbers
<1>4. ASSUME NEW t \in Threads, Lock(t) PROVE Numbers'
  BY <1>4 DEF Lock, Numbers
<1>5. ASSUME NEW t \in Callers, PushHead(t) PROVE Numbers'
  BY <1>5 DEF PushHead, Heading, Numbers
<1>6. ASSUME NEW t \in Callers, PushText(t) PROVE Numbers'
  BY <1>6 DEF PushText, Text, Numbers
<1>7. ASSUME NEW t \in Callers, PrintOnly(t) PROVE Numbers'
  BY <1>7 DEF PrintOnly, Numbers
<1>8. ASSUME NEW t \in Callers, WakeWriter(t) PROVE Numbers'
  BY <1>8 DEF WakeWriter, Fails, Numbers
<1>9. ASSUME NEW t \in Threads, flushBuffer(t) PROVE Numbers'
  BY <1>9 DEF flushBuffer, OpenFile, Flushed, Fails, Numbers
<1>10. ASSUME NEW t \in Threads, cleanDirectory(t) PROVE Numbers'
  BY <1>10 DEF cleanDirectory, Numbers
<1>11. ASSUME NEW t \in Threads, Rename(t) PROVE Numbers'
  BY <1>11 DEF Rename, Flushed, Fails, Numbers
<1>12. ASSUME NEW t \in Callers, UnlockCaller(t) PROVE Numbers'
  BY <1>12 DEF UnlockCaller, Numbers
<1>13. ASSUME UnlockWriter PROVE Numbers'
  BY <1>13 DEF UnlockWriter, Numbers
<1>14. ASSUME ClearThread PROVE Numbers'
  BY <1>14 DEF ClearThread, Numbers
<1>15. ASSUME NEW t \in Callers, Exit(t) PROVE Numbers'
  BY <1>15 DEF Exit, EndProcess, Idle, Numbers
<1>16. ASSUME Crash PROVE Numbers'
  BY <1>16 DEF Crash, Fails, EndProcess, Idle, Numbers
<1>17. ASSUME UNCHANGED vars PROVE Numbers'
  BY <1>17 DEF vars, memory, disk, history, Numbers
<1> QED
  BY <1>1, <1>2, <1>3, <1>4, <1>5, <1>6, <1>7, <1>8, <1>9, <1>10, 
     <1>11, <1>12, <1>13, <1>14, <1>15, <1>16, <1>17
     DEF Next, WriterStep, CallerStep, Threads

-----------------------------------------------------------------------------
(* Sequences of pieces. *)

LEMMA SetOfAppend ==
  ASSUME NEW s \in Seq(Pieces), NEW x \in Pieces
  PROVE  Append(s, x) \in Seq(Pieces) /\ ToSet(Append(s, x)) = ToSet(s) \cup {x}
<1>1. Append(s, x) \in Seq(Pieces) /\ Len(Append(s, x)) = Len(s) + 1
  BY AppendProperties
<1>2. \A i \in 1 .. Len(s) : Append(s, x)[i] = s[i]
  BY AppendProperties
<1>3. Append(s, x)[Len(s) + 1] = x
  OBVIOUS
<1> QED
  BY <1>1, <1>2, <1>3 DEF ToSet

LEMMA SetOfConcat ==
  ASSUME NEW s \in Seq(Pieces), NEW u \in Seq(Pieces)
  PROVE  s \o u \in Seq(Pieces) /\ ToSet(s \o u) = ToSet(s) \cup ToSet(u)
<1>1. /\ s \o u \in Seq(Pieces) /\ Len(s \o u) = Len(s) + Len(u)
      /\ \A i \in 1 .. Len(s) + Len(u) : (s \o u)[i] = IF i <= Len(s) THEN s[i] ELSE u[i - Len(s)]
  BY ConcatProperties
<1>2. ToSet(s \o u) \subseteq ToSet(s) \cup ToSet(u)
  BY <1>1 DEF ToSet
<1>3. ToSet(s) \subseteq ToSet(s \o u)
  BY <1>1 DEF ToSet
<1>4. ASSUME NEW j \in 1 .. Len(u) PROVE u[j] \in ToSet(s \o u)
  <2>1. Len(s) + j \in 1 .. Len(s) + Len(u) /\ (s \o u)[Len(s) + j] = u[j]
    BY <1>1
  <2>2. DOMAIN (s \o u) = 1 .. Len(s) + Len(u)
    BY <1>1
  <2> QED
    BY <2>1, <2>2, Zenon DEF ToSet
<1>5. ToSet(u) \subseteq ToSet(s \o u)
  BY <1>4 DEF ToSet
<1> QED
  BY <1>1, <1>2, <1>3, <1>5

LEMMA Prefix ==
  ASSUME NEW s \in Seq(Pieces), NEW k \in Int, k <= Len(s)
  PROVE  SubSeq(s, 1, k) \in Seq(Pieces)
BY SubSeqProperties

LEMMA PiecesOf == ASSUME NEW n \in Nat PROVE Heading(n) \in Pieces /\ Text(n) \in Pieces
BY DEF Heading, Text, Pieces

-----------------------------------------------------------------------------
(* Typing. *)

LEMMA ZeroIsRound == 0 \in 0 .. Rounds - 1 /\ 0 \in 0 .. MaxMessages
BY LogAssumption

(* A flush writes some of the buffer, all of it unless something failed. *)
LEMMA FlushWrites ==
  ASSUME buffer \in Seq(Pieces), NEW t, flushBuffer(t)
  PROVE  \E k \in 0 .. Len(buffer) : Written(k)
<1>1. CASE OpenFile /\ Written(IF opened' THEN Len(buffer) ELSE 0)
  <2>1. (IF opened' THEN Len(buffer) ELSE 0) \in 0 .. Len(buffer)
    OBVIOUS
  <2> QED
    BY <1>1, <2>1
<1>2. CASE \E k \in 0 .. Len(buffer) - 1 : Written(k)
  BY <1>2
<1> QED
  BY <1>1, <1>2 DEF flushBuffer

(* What fails is one of the six kinds. *)
LEMMA FaultKinds ==
  ASSUME faults \subseteq {"open", "write", "partial", "rename", "thread", "crash"},
         NEW kind \in {"open", "write", "partial", "rename", "thread", "crash"},
         Fails(kind)
  PROVE  faults' \subseteq {"open", "write", "partial", "rename", "thread", "crash"}
BY DEF Fails

(* The buffer holds pieces. *)
LEMMA BufferKept == LInv /\ [Next]_vars => (buffer \in Seq(Pieces))'
<1> SUFFICES ASSUME LInv, [Next]_vars PROVE (buffer \in Seq(Pieces))'
  OBVIOUS
<1> USE LogAssumption DEF LInv, LogTypeOK, Places, CallerAt, WriterAt, Threads
<1>1. ASSUME LOG_CONFIG PROVE (buffer \in Seq(Pieces))'
  BY <1>1 DEF LOG_CONFIG, Alone, memory
<1>2. ASSUME NEW t \in Callers, Call(t) PROVE (buffer \in Seq(Pieces))'
  BY <1>2 DEF Call, Alone, memory
<1>3. ASSUME NEW t \in Callers, CreateMutex(t) PROVE (buffer \in Seq(Pieces))'
  BY <1>3 DEF CreateMutex, memory
<1>4. ASSUME NEW t \in Threads, Lock(t) PROVE (buffer \in Seq(Pieces))'
  BY <1>4 DEF Lock, memory
<1>5. ASSUME NEW t \in Callers, PushHead(t) PROVE (buffer \in Seq(Pieces))'
  BY <1>5, SetOfAppend, PiecesOf DEF PushHead, Numbers
<1>6. ASSUME NEW t \in Callers, PushText(t) PROVE (buffer \in Seq(Pieces))'
  BY <1>6, SetOfAppend, PiecesOf DEF PushText
<1>7. ASSUME NEW t \in Callers, PrintOnly(t) PROVE (buffer \in Seq(Pieces))'
  BY <1>7, Prefix DEF PrintOnly
<1>8. ASSUME NEW t \in Callers, WakeWriter(t) PROVE (buffer \in Seq(Pieces))'
  BY <1>8 DEF WakeWriter, Fails, memory
<1>9. ASSUME NEW t \in Threads, flushBuffer(t) PROVE (buffer \in Seq(Pieces))'
  <2>1. PICK k \in 0 .. Len(buffer) : Written(k)
    BY <1>9, FlushWrites DEF LInv
  <2> QED
    BY <2>1, Prefix DEF Written
<1>10. ASSUME NEW t \in Threads, cleanDirectory(t) PROVE (buffer \in Seq(Pieces))'
  BY <1>10 DEF cleanDirectory, memory
<1>11. ASSUME NEW t \in Threads, Rename(t) PROVE (buffer \in Seq(Pieces))'
  BY <1>11 DEF Rename, Flushed, Fails, memory
<1>12. ASSUME NEW t \in Callers, UnlockCaller(t) PROVE (buffer \in Seq(Pieces))'
  BY <1>12 DEF UnlockCaller, memory
<1>13. ASSUME UnlockWriter PROVE (buffer \in Seq(Pieces))'
  BY <1>13 DEF UnlockWriter, memory
<1>14. ASSUME ClearThread PROVE (buffer \in Seq(Pieces))'
  BY <1>14 DEF ClearThread, memory
<1>15. ASSUME NEW t \in Callers, Exit(t) PROVE (buffer \in Seq(Pieces))'
  BY <1>15 DEF Exit, EndProcess, Idle, memory
<1>16. ASSUME Crash PROVE (buffer \in Seq(Pieces))'
  BY <1>16 DEF Crash, Fails, EndProcess, Idle, memory
<1>17. ASSUME UNCHANGED vars PROVE (buffer \in Seq(Pieces))'
  BY <1>17 DEF vars, memory, disk, history, memory
<1> QED
  BY <1>1, <1>2, <1>3, <1>4, <1>5, <1>6, <1>7, <1>8, <1>9, <1>10, 
     <1>11, <1>12, <1>13, <1>14, <1>15, <1>16, <1>17
     DEF Next, WriterStep, CallerStep, Threads

(* The variables keep their types. *)
LEMMA TypesKept == LInv /\ [Next]_vars => Types'
<1> SUFFICES ASSUME LInv, [Next]_vars PROVE Types'
  OBVIOUS
<1> USE LogAssumption
    DEF LInv, LogTypeOK, Places, CallerAt, WriterAt, Threads, Types
<1>1. ASSUME LOG_CONFIG PROVE Types'
  BY <1>1 DEF LOG_CONFIG, Alone, Types, history
<1>2. ASSUME NEW t \in Callers, Call(t) PROVE Types'
  BY <1>2 DEF Call, Alone, Types, history
<1>3. ASSUME NEW t \in Callers, CreateMutex(t) PROVE Types'
  BY <1>3 DEF CreateMutex, Types, history
<1>4. ASSUME NEW t \in Threads, Lock(t) PROVE Types'
  BY <1>4 DEF Lock, Types, history
<1>5. ASSUME NEW t \in Callers, PushHead(t) PROVE Types'
  BY <1>5 DEF PushHead, Types, Numbers
<1>6. ASSUME NEW t \in Callers, PushText(t) PROVE Types'
  BY <1>6 DEF PushText, Text, Types, history
<1>7. ASSUME NEW t \in Callers, PrintOnly(t) PROVE Types'
  BY <1>7 DEF PrintOnly, Types, history
<1>8. ASSUME NEW t \in Callers, WakeWriter(t) PROVE Types'
  <2>1. thread' \in BOOLEAN
    BY <1>8 DEF WakeWriter
  <2>3. \/ round' = round /\ ret' = ret
        \/ round' = 0 /\ ret' = 0
    BY <1>8 DEF WakeWriter
  <2>2. faults' = faults \/ Fails("thread")
    BY <1>8 DEF WakeWriter
  <2>4. UNCHANGED <<isInit, mutex, named, opened, number>>
    BY <1>8 DEF WakeWriter
  <2>5. faults' \subseteq {"open", "write", "partial", "rename", "thread", "crash"}
    BY <2>2, FaultKinds
  <2>6. round' \in 0 .. Rounds - 1 /\ ret' \in Nat
    BY <2>3, ZeroIsRound
  <2> QED
    BY <2>1, <2>4, <2>5, <2>6 DEF Types
<1>9. ASSUME NEW t \in Threads, flushBuffer(t) PROVE Types'
  <2>1. named' = TRUE /\ opened' \in BOOLEAN
    BY <1>9 DEF flushBuffer, OpenFile
  <2>4. ret' \in Nat
    BY <1>9 DEF flushBuffer
  <2>2. faults' = faults \/ Fails("open") \/ Fails("write") \/ Fails("partial")
    BY <1>9 DEF flushBuffer, OpenFile
  <2>3. UNCHANGED <<isInit, mutex, thread, number, round>>
    BY <1>9 DEF flushBuffer
  <2> QED
    BY <2>1, <2>2, <2>3, <2>4, FaultKinds DEF Types
<1>10. ASSUME NEW t \in Threads, cleanDirectory(t) PROVE Types'
  BY <1>10 DEF cleanDirectory, Types, history
<1>11. ASSUME NEW t \in Threads, Rename(t) PROVE Types'
  BY <1>11 DEF Rename, Flushed, Fails, Types, history
<1>12. ASSUME NEW t \in Callers, UnlockCaller(t) PROVE Types'
  BY <1>12 DEF UnlockCaller, Types, history
<1>13. ASSUME UnlockWriter PROVE Types'
  BY <1>13 DEF UnlockWriter, Types, history
<1>14. ASSUME ClearThread PROVE Types'
  BY <1>14, ZeroIsRound DEF ClearThread, Types, history
<1>15. ASSUME NEW t \in Callers, Exit(t) PROVE Types'
  BY <1>15, ZeroIsRound DEF Exit, EndProcess, Types
<1>16. ASSUME Crash PROVE Types'
  <2>1. faults' \subseteq {"open", "write", "partial", "rename", "thread", "crash"}
    BY <1>16, FaultKinds DEF Crash
  <2> QED
    BY <1>16, <2>1, ZeroIsRound DEF Crash, EndProcess, Types
<1>17. ASSUME UNCHANGED vars PROVE Types'
  BY <1>17 DEF vars, memory, disk, history, Types, history
<1> QED
  BY <1>1, <1>2, <1>3, <1>4, <1>5, <1>6, <1>7, <1>8, <1>9, <1>10, 
     <1>11, <1>12, <1>13, <1>14, <1>15, <1>16, <1>17
     DEF Next, WriterStep, CallerStep, Threads

LEMMA TypeKept == LInv /\ [Next]_vars => LogTypeOK'
<1> SUFFICES ASSUME LInv, [Next]_vars PROVE LogTypeOK'
  OBVIOUS
<1>1. Types' /\ Places'
  BY TypesKept, PlacesKept
<1> QED
  BY <1>1 DEF Types, Places, LogTypeOK, CallerAt, WriterAt

LEMMA InvariantKept == LInv /\ [Next]_vars => LInv'
BY TypeKept, PlacesKept, StartKept, NumbersKept, OneWriterKept, BufferKept DEF LInv

(* The state of the logger, and who can be where in its code. *)
THEOREM LogTypeCorrect == Spec => []LogTypeOK
<1>1. LInv => LogTypeOK
  BY DEF LInv
<1> QED
  BY <1>1, InitInvariant, InvariantKept, PTL DEF Spec

(* One writer thread at most, as _thread says, and mutual exclusion, also  *)
(* when the mutex is created by the first _log (lines 81-87, 191-225).     *)
THEOREM OneWriterAlways == Spec => []OneWriter
<1>1. LInv => OneWriter
  BY DEF LInv
<1> QED
  BY <1>1, InitInvariant, InvariantKept, PTL DEF Spec

-----------------------------------------------------------------------------
(* The way of an error to the file. *)

IsError(t) == level(t) <= LogLevel /\ level(t) <= 3
Both(n) == {Heading(n), Text(n)}

OpenWhenNamed == Writable /\ named => opened

InBuffer ==
  \A t \in Callers :
    /\ pc[t] = "text" => Heading(number[t]) \in ToSet(buffer)
    /\ pc[t] = "flush" => Both(number[t]) \subseteq ToSet(buffer)

NoErrors ==
  \A t \in Callers :
    /\ pc[t] = "text" => level(t) \in Int
    /\ pc[t] \in {"print", "wake"} => ~IsError(t)

InFile ==
  Writable => \A t \in Callers :
    (pc[t] \in {"clean", "rename"} \/ (pc[t] = "unlock" /\ IsError(t)))
      => Both(number[t]) \subseteq ToSet(written)

EInv ==
  LInv /\ written \in Seq(Pieces) /\ OpenWhenNamed /\ InBuffer /\ NoErrors /\ InFile /\ ErrorsWritten

LEMMA InitErrors == Init => EInv
<1> SUFFICES ASSUME Init PROVE EInv
  OBVIOUS
<1> USE LogAssumption DEF Init, Idle, Threads
<1>1. OpenWhenNamed /\ written \in Seq(Pieces) /\ ErrorsWritten
  BY DEF OpenWhenNamed, ErrorsWritten
<1>2. InBuffer /\ NoErrors /\ InFile
  BY DEF InBuffer, NoErrors, InFile
<1> QED
  BY <1>1, <1>2, InitInvariant DEF EInv

(* A failure is never forgotten. *)
LEMMA StaysUnwritable == [Next]_vars => (Writable' => Writable)
<1> SUFFICES ASSUME [Next]_vars PROVE faults \subseteq faults'
  BY DEF Writable
<1> USE DEF Fails
<1>1. ASSUME LOG_CONFIG PROVE faults \subseteq faults'
  BY <1>1 DEF LOG_CONFIG, Alone, history
<1>2. ASSUME NEW t \in Callers, Call(t) PROVE faults \subseteq faults'
  BY <1>2 DEF Call, Alone, history
<1>3. ASSUME NEW t \in Callers, CreateMutex(t) PROVE faults \subseteq faults'
  BY <1>3 DEF CreateMutex, history
<1>4. ASSUME NEW t \in Threads, Lock(t) PROVE faults \subseteq faults'
  BY <1>4 DEF Lock, history
<1>5. ASSUME NEW t \in Callers, PushHead(t) PROVE faults \subseteq faults'
  BY <1>5 DEF PushHead, Heading, history
<1>6. ASSUME NEW t \in Callers, PushText(t) PROVE faults \subseteq faults'
  BY <1>6 DEF PushText, Text, history
<1>7. ASSUME NEW t \in Callers, PrintOnly(t) PROVE faults \subseteq faults'
  BY <1>7 DEF PrintOnly, history
<1>8. ASSUME NEW t \in Callers, WakeWriter(t) PROVE faults \subseteq faults'
  BY <1>8 DEF WakeWriter, Fails, history
<1>9. ASSUME NEW t \in Threads, flushBuffer(t) PROVE faults \subseteq faults'
  BY <1>9 DEF flushBuffer, OpenFile, Flushed, Fails, history
<1>10. ASSUME NEW t \in Threads, cleanDirectory(t) PROVE faults \subseteq faults'
  BY <1>10 DEF cleanDirectory, history
<1>11. ASSUME NEW t \in Threads, Rename(t) PROVE faults \subseteq faults'
  BY <1>11 DEF Rename, Flushed, Fails, history
<1>12. ASSUME NEW t \in Callers, UnlockCaller(t) PROVE faults \subseteq faults'
  BY <1>12 DEF UnlockCaller, history
<1>13. ASSUME UnlockWriter PROVE faults \subseteq faults'
  BY <1>13 DEF UnlockWriter, history
<1>14. ASSUME ClearThread PROVE faults \subseteq faults'
  BY <1>14 DEF ClearThread, history
<1>15. ASSUME NEW t \in Callers, Exit(t) PROVE faults \subseteq faults'
  BY <1>15 DEF Exit, EndProcess, Idle, history
<1>16. ASSUME Crash PROVE faults \subseteq faults'
  BY <1>16 DEF Crash, Fails, EndProcess, Idle, history
<1>17. ASSUME UNCHANGED vars PROVE faults \subseteq faults'
  BY <1>17 DEF vars, memory, disk, history, history
<1> QED
  BY <1>1, <1>2, <1>3, <1>4, <1>5, <1>6, <1>7, <1>8, <1>9, <1>10, 
     <1>11, <1>12, <1>13, <1>14, <1>15, <1>16, <1>17
     DEF Next, WriterStep, CallerStep, Threads

(* What a flush does unless something fails: all of the buffer is written. *)
LEMMA FlushAll ==
  ASSUME EInv, NEW t \in Threads, flushBuffer(t), Writable'
  PROVE  /\ opened' = TRUE
         /\ written' \in Seq(Pieces)
         /\ ToSet(written') = ToSet(written) \cup ToSet(buffer)
<1>1. OpenFile /\ Written(IF opened' THEN Len(buffer) ELSE 0)
  <2>1. ~ (Fails("write") \/ Fails("partial"))
    BY DEF Fails, Writable
  <2> QED
    BY <2>1 DEF flushBuffer
<1>2. opened' = TRUE
  <2>1. ~ Fails("open")
    BY DEF Fails, Writable
  <2>2. CASE named /\ UNCHANGED <<opened, faults>>
    <3>1. Writable
      BY <2>2 DEF Writable
    <3> QED
      BY <2>2, <3>1 DEF EInv, OpenWhenNamed, LInv, LogTypeOK
  <2>3. CASE ~named /\ opened' = TRUE
    BY <2>3
  <2> QED
    BY <1>1, <2>1, <2>2, <2>3 DEF OpenFile
<1>3. written' = written \o SubSeq(buffer, 1, Len(buffer))
  BY <1>1, <1>2 DEF Written
<1>4. SubSeq(buffer, 1, Len(buffer)) = buffer
  BY SubSeqFull DEF EInv, LInv
<1> QED
  BY <1>2, <1>3, <1>4, SetOfConcat DEF EInv, LInv

(* A named file is open unless something failed. *)
LEMMA OpenKept == EInv /\ [Next]_vars => OpenWhenNamed'
<1> SUFFICES ASSUME EInv, [Next]_vars PROVE OpenWhenNamed'
  OBVIOUS
<1> USE LogAssumption
    DEF EInv, LInv, LogTypeOK, Places, CallerAt, WriterAt, Threads, OpenWhenNamed
<1>1. ASSUME LOG_CONFIG PROVE OpenWhenNamed'
  BY <1>1 DEF LOG_CONFIG, Alone, Writable, history
<1>2. ASSUME NEW t \in Callers, Call(t) PROVE OpenWhenNamed'
  BY <1>2 DEF Call, Alone, Writable, history
<1>3. ASSUME NEW t \in Callers, CreateMutex(t) PROVE OpenWhenNamed'
  BY <1>3 DEF CreateMutex, Writable, history
<1>4. ASSUME NEW t \in Threads, Lock(t) PROVE OpenWhenNamed'
  BY <1>4 DEF Lock, Writable, history
<1>5. ASSUME NEW t \in Callers, PushHead(t) PROVE OpenWhenNamed'
  BY <1>5 DEF PushHead, Heading, Writable, history
<1>6. ASSUME NEW t \in Callers, PushText(t) PROVE OpenWhenNamed'
  BY <1>6 DEF PushText, Text, Writable, history
<1>7. ASSUME NEW t \in Callers, PrintOnly(t) PROVE OpenWhenNamed'
  BY <1>7 DEF PrintOnly, Writable, history
<1>8. ASSUME NEW t \in Callers, WakeWriter(t) PROVE OpenWhenNamed'
  BY <1>8 DEF WakeWriter, Fails, Writable, history
<1>9. ASSUME NEW t \in Threads, flushBuffer(t) PROVE OpenWhenNamed'
  BY <1>9, FlushAll DEF OpenWhenNamed
<1>10. ASSUME NEW t \in Threads, cleanDirectory(t) PROVE OpenWhenNamed'
  BY <1>10 DEF cleanDirectory, Writable, history
<1>11. ASSUME NEW t \in Threads, Rename(t) PROVE OpenWhenNamed'
  BY <1>11 DEF Rename, Flushed, Fails, Writable, history
<1>12. ASSUME NEW t \in Callers, UnlockCaller(t) PROVE OpenWhenNamed'
  BY <1>12 DEF UnlockCaller, Writable, history
<1>13. ASSUME UnlockWriter PROVE OpenWhenNamed'
  BY <1>13 DEF UnlockWriter, Writable, history
<1>14. ASSUME ClearThread PROVE OpenWhenNamed'
  BY <1>14 DEF ClearThread, Writable, history
<1>15. ASSUME NEW t \in Callers, Exit(t) PROVE OpenWhenNamed'
  BY <1>15 DEF Exit, EndProcess, Idle, Writable, history
<1>16. ASSUME Crash PROVE OpenWhenNamed'
  BY <1>16 DEF Crash, Fails, EndProcess, Idle, Writable, history
<1>17. ASSUME UNCHANGED vars PROVE OpenWhenNamed'
  BY <1>17 DEF vars, memory, disk, history, Writable, history
<1> QED
  BY <1>1, <1>2, <1>3, <1>4, <1>5, <1>6, <1>7, <1>8, <1>9, <1>10, 
     <1>11, <1>12, <1>13, <1>14, <1>15, <1>16, <1>17
     DEF Next, WriterStep, CallerStep, Threads

(* Only an error goes on to flush. *)
LEMMA NoErrorsKept == EInv /\ [Next]_vars => NoErrors'
<1> SUFFICES ASSUME EInv, [Next]_vars PROVE NoErrors'
  OBVIOUS
<1> USE LogAssumption
    DEF EInv, LInv, LogTypeOK, Places, CallerAt, WriterAt, Threads, NoErrors, OneWriter, IsError, level
<1>1. ASSUME LOG_CONFIG PROVE NoErrors'
  BY <1>1 DEF LOG_CONFIG, Alone, memory, history
<1>2. ASSUME NEW t \in Callers, Call(t) PROVE NoErrors'
  BY <1>2 DEF Call, Alone, memory, history
<1>3. ASSUME NEW t \in Callers, CreateMutex(t) PROVE NoErrors'
  BY <1>3 DEF CreateMutex, memory, history
<1>4. ASSUME NEW t \in Threads, Lock(t) PROVE NoErrors'
  BY <1>4 DEF Lock, memory, history
<1>5. ASSUME NEW t \in Callers, PushHead(t) PROVE NoErrors'
  BY <1>5 DEF PushHead, Numbers
<1>6. ASSUME NEW t \in Callers, PushText(t) PROVE NoErrors'
  BY <1>6 DEF PushText, Text, memory, history
<1>7. ASSUME NEW t \in Callers, PrintOnly(t) PROVE NoErrors'
  BY <1>7 DEF PrintOnly, memory, history
<1>8. ASSUME NEW t \in Callers, WakeWriter(t) PROVE NoErrors'
  BY <1>8 DEF WakeWriter, Fails, memory, history
<1>9. ASSUME NEW t \in Threads, flushBuffer(t) PROVE NoErrors'
  BY <1>9 DEF flushBuffer, OpenFile, Flushed, Fails, memory, history
<1>10. ASSUME NEW t \in Threads, cleanDirectory(t) PROVE NoErrors'
  BY <1>10 DEF cleanDirectory, memory, history
<1>11. ASSUME NEW t \in Threads, Rename(t) PROVE NoErrors'
  BY <1>11 DEF Rename, Flushed, Fails, memory, history
<1>12. ASSUME NEW t \in Callers, UnlockCaller(t) PROVE NoErrors'
  BY <1>12 DEF UnlockCaller, memory, history
<1>13. ASSUME UnlockWriter PROVE NoErrors'
  BY <1>13 DEF UnlockWriter, memory, history
<1>14. ASSUME ClearThread PROVE NoErrors'
  BY <1>14 DEF ClearThread, memory, history
<1>15. ASSUME NEW t \in Callers, Exit(t) PROVE NoErrors'
  BY <1>15 DEF Exit, EndProcess, Idle, memory, history
<1>16. ASSUME Crash PROVE NoErrors'
  BY <1>16 DEF Crash, Fails, EndProcess, Idle, memory, history
<1>17. ASSUME UNCHANGED vars PROVE NoErrors'
  BY <1>17 DEF vars, memory, disk, history, memory, history
<1> QED
  BY <1>1, <1>2, <1>3, <1>4, <1>5, <1>6, <1>7, <1>8, <1>9, <1>10, 
     <1>11, <1>12, <1>13, <1>14, <1>15, <1>16, <1>17
     DEF Next, WriterStep, CallerStep, Threads

(* The pieces of a message stay in the buffer until its thread flushes. *)
LEMMA InBufferKept == EInv /\ [Next]_vars => InBuffer'
<1> SUFFICES ASSUME EInv, [Next]_vars PROVE InBuffer'
  OBVIOUS
<1> USE LogAssumption
    DEF EInv, LInv, LogTypeOK, Places, CallerAt, WriterAt, Threads, InBuffer, OneWriter, Both
<1>1. ASSUME LOG_CONFIG PROVE InBuffer'
  BY <1>1 DEF LOG_CONFIG, Alone, memory, history
<1>2. ASSUME NEW t \in Callers, Call(t) PROVE InBuffer'
  BY <1>2 DEF Call, Alone, memory, history
<1>3. ASSUME NEW t \in Callers, CreateMutex(t) PROVE InBuffer'
  BY <1>3 DEF CreateMutex, memory, history
<1>4. ASSUME NEW t \in Threads, Lock(t) PROVE InBuffer'
  BY <1>4 DEF Lock, memory, history
<1>5. ASSUME NEW t \in Callers, PushHead(t) PROVE InBuffer'
  BY <1>5, SetOfAppend, PiecesOf DEF PushHead, Numbers
<1>6. ASSUME NEW t \in Callers, PushText(t) PROVE InBuffer'
  BY <1>6, SetOfAppend, PiecesOf DEF PushText
<1>7. ASSUME NEW t \in Callers, PrintOnly(t) PROVE InBuffer'
  BY <1>7 DEF PrintOnly, memory, history
<1>8. ASSUME NEW t \in Callers, WakeWriter(t) PROVE InBuffer'
  BY <1>8 DEF WakeWriter, Fails, memory, history
<1>9. ASSUME NEW t \in Threads, flushBuffer(t) PROVE InBuffer'
  BY <1>9 DEF flushBuffer, OpenFile, Flushed, Fails, memory, history
<1>10. ASSUME NEW t \in Threads, cleanDirectory(t) PROVE InBuffer'
  BY <1>10 DEF cleanDirectory, memory, history
<1>11. ASSUME NEW t \in Threads, Rename(t) PROVE InBuffer'
  BY <1>11 DEF Rename, Flushed, Fails, memory, history
<1>12. ASSUME NEW t \in Callers, UnlockCaller(t) PROVE InBuffer'
  BY <1>12 DEF UnlockCaller, memory, history
<1>13. ASSUME UnlockWriter PROVE InBuffer'
  BY <1>13 DEF UnlockWriter, memory, history
<1>14. ASSUME ClearThread PROVE InBuffer'
  BY <1>14 DEF ClearThread, memory, history
<1>15. ASSUME NEW t \in Callers, Exit(t) PROVE InBuffer'
  BY <1>15 DEF Exit, EndProcess, Idle, memory, history
<1>16. ASSUME Crash PROVE InBuffer'
  BY <1>16 DEF Crash, Fails, EndProcess, Idle, memory, history
<1>17. ASSUME UNCHANGED vars PROVE InBuffer'
  BY <1>17 DEF vars, memory, disk, history, memory, history
<1> QED
  BY <1>1, <1>2, <1>3, <1>4, <1>5, <1>6, <1>7, <1>8, <1>9, <1>10, 
     <1>11, <1>12, <1>13, <1>14, <1>15, <1>16, <1>17
     DEF Next, WriterStep, CallerStep, Threads

(* Pieces are written. *)
LEMMA WrittenKept == EInv /\ [Next]_vars => (written \in Seq(Pieces))'
<1> SUFFICES ASSUME EInv, [Next]_vars PROVE (written \in Seq(Pieces))'
  OBVIOUS
<1> USE LogAssumption DEF EInv, LInv, LogTypeOK, Places, CallerAt, WriterAt, Threads
<1>1. ASSUME LOG_CONFIG PROVE (written \in Seq(Pieces))'
  BY <1>1 DEF LOG_CONFIG, Alone, memory, history
<1>2. ASSUME NEW t \in Callers, Call(t) PROVE (written \in Seq(Pieces))'
  BY <1>2 DEF Call, Alone, memory, history
<1>3. ASSUME NEW t \in Callers, CreateMutex(t) PROVE (written \in Seq(Pieces))'
  BY <1>3 DEF CreateMutex, memory, history
<1>4. ASSUME NEW t \in Threads, Lock(t) PROVE (written \in Seq(Pieces))'
  BY <1>4 DEF Lock, memory, history
<1>5. ASSUME NEW t \in Callers, PushHead(t) PROVE (written \in Seq(Pieces))'
  BY <1>5 DEF PushHead, Heading, memory, history
<1>6. ASSUME NEW t \in Callers, PushText(t) PROVE (written \in Seq(Pieces))'
  BY <1>6 DEF PushText, Text, memory, history
<1>7. ASSUME NEW t \in Callers, PrintOnly(t) PROVE (written \in Seq(Pieces))'
  BY <1>7 DEF PrintOnly, memory, history
<1>8. ASSUME NEW t \in Callers, WakeWriter(t) PROVE (written \in Seq(Pieces))'
  BY <1>8 DEF WakeWriter, Fails, memory, history
<1>9. ASSUME NEW t \in Threads, flushBuffer(t) PROVE (written \in Seq(Pieces))'
  <2>1. PICK k \in 0 .. Len(buffer) : Written(k)
    BY <1>9, FlushWrites
  <2> QED
    BY <2>1, Prefix, SetOfConcat DEF Written
<1>10. ASSUME NEW t \in Threads, cleanDirectory(t) PROVE (written \in Seq(Pieces))'
  BY <1>10 DEF cleanDirectory, memory, history
<1>11. ASSUME NEW t \in Threads, Rename(t) PROVE (written \in Seq(Pieces))'
  BY <1>11 DEF Rename, Flushed, Fails, memory, history
<1>12. ASSUME NEW t \in Callers, UnlockCaller(t) PROVE (written \in Seq(Pieces))'
  BY <1>12 DEF UnlockCaller, memory, history
<1>13. ASSUME UnlockWriter PROVE (written \in Seq(Pieces))'
  BY <1>13 DEF UnlockWriter, memory, history
<1>14. ASSUME ClearThread PROVE (written \in Seq(Pieces))'
  BY <1>14 DEF ClearThread, memory, history
<1>15. ASSUME NEW t \in Callers, Exit(t) PROVE (written \in Seq(Pieces))'
  BY <1>15 DEF Exit, EndProcess, Idle, memory, history
<1>16. ASSUME Crash PROVE (written \in Seq(Pieces))'
  BY <1>16 DEF Crash, Fails, EndProcess, Idle, memory, history
<1>17. ASSUME UNCHANGED vars PROVE (written \in Seq(Pieces))'
  BY <1>17 DEF vars, memory, disk, history, memory, history
<1> QED
  BY <1>1, <1>2, <1>3, <1>4, <1>5, <1>6, <1>7, <1>8, <1>9, <1>10, 
     <1>11, <1>12, <1>13, <1>14, <1>15, <1>16, <1>17
     DEF Next, WriterStep, CallerStep, Threads

(* After its flush a message is in the files. *)
LEMMA InFileKept == EInv /\ [Next]_vars => InFile'
<1> SUFFICES ASSUME EInv, [Next]_vars PROVE InFile'
  OBVIOUS
<1> USE LogAssumption
    DEF EInv, LInv, LogTypeOK, Places, CallerAt, WriterAt, Threads, InFile, NoErrors, OneWriter, IsError, level
<1>1. ASSUME LOG_CONFIG PROVE InFile'
  BY <1>1 DEF LOG_CONFIG, Alone, memory, history, Writable
<1>2. ASSUME NEW t \in Callers, Call(t) PROVE InFile'
  BY <1>2 DEF Call, Alone, memory, history, Writable
<1>3. ASSUME NEW t \in Callers, CreateMutex(t) PROVE InFile'
  BY <1>3 DEF CreateMutex, memory, history, Writable
<1>4. ASSUME NEW t \in Threads, Lock(t) PROVE InFile'
  BY <1>4 DEF Lock, memory, history, Writable
<1>5. ASSUME NEW t \in Callers, PushHead(t) PROVE InFile'
  BY <1>5 DEF PushHead, Heading, memory, history, Writable
<1>6. ASSUME NEW t \in Callers, PushText(t) PROVE InFile'
  BY <1>6 DEF PushText, Text, memory, history, Writable
<1>7. ASSUME NEW t \in Callers, PrintOnly(t) PROVE InFile'
  BY <1>7 DEF PrintOnly, memory, history, Writable
<1>8. ASSUME NEW t \in Callers, WakeWriter(t) PROVE InFile'
  BY <1>8 DEF WakeWriter, Fails, memory, history, Writable
<1>9. ASSUME NEW t \in Threads, flushBuffer(t) PROVE InFile'
  BY <1>9, FlushAll, StaysUnwritable DEF flushBuffer, InBuffer
<1>10. ASSUME NEW t \in Threads, cleanDirectory(t) PROVE InFile'
  BY <1>10 DEF cleanDirectory, memory, history, Writable
<1>11. ASSUME NEW t \in Threads, Rename(t) PROVE InFile'
  BY <1>11 DEF Rename, Flushed, Fails, memory, history, Writable
<1>12. ASSUME NEW t \in Callers, UnlockCaller(t) PROVE InFile'
  BY <1>12 DEF UnlockCaller, memory, history, Writable
<1>13. ASSUME UnlockWriter PROVE InFile'
  BY <1>13 DEF UnlockWriter, memory, history, Writable
<1>14. ASSUME ClearThread PROVE InFile'
  BY <1>14 DEF ClearThread, memory, history, Writable
<1>15. ASSUME NEW t \in Callers, Exit(t) PROVE InFile'
  BY <1>15 DEF Exit, EndProcess, Idle, memory, history, Writable
<1>16. ASSUME Crash PROVE InFile'
  BY <1>16 DEF Crash, Fails, EndProcess, Idle, memory, history, Writable
<1>17. ASSUME UNCHANGED vars PROVE InFile'
  BY <1>17 DEF vars, memory, disk, history, memory, history, Writable
<1> QED
  BY <1>1, <1>2, <1>3, <1>4, <1>5, <1>6, <1>7, <1>8, <1>9, <1>10, 
     <1>11, <1>12, <1>13, <1>14, <1>15, <1>16, <1>17
     DEF Next, WriterStep, CallerStep, Threads

(* The call of an error returns after that. *)
LEMMA ErrorsKept == EInv /\ [Next]_vars => ErrorsWritten'
<1> SUFFICES ASSUME EInv, [Next]_vars PROVE ErrorsWritten'
  OBVIOUS
<1> USE LogAssumption
    DEF EInv, LInv, LogTypeOK, Places, CallerAt, WriterAt, Threads, ErrorsWritten, OneWriter
<1>1. ASSUME LOG_CONFIG PROVE ErrorsWritten'
  BY <1>1 DEF LOG_CONFIG, Alone, memory, history, Writable
<1>2. ASSUME NEW t \in Callers, Call(t) PROVE ErrorsWritten'
  BY <1>2 DEF Call, Alone, memory, history, Writable
<1>3. ASSUME NEW t \in Callers, CreateMutex(t) PROVE ErrorsWritten'
  BY <1>3 DEF CreateMutex, memory, history, Writable
<1>4. ASSUME NEW t \in Threads, Lock(t) PROVE ErrorsWritten'
  BY <1>4 DEF Lock, memory, history, Writable
<1>5. ASSUME NEW t \in Callers, PushHead(t) PROVE ErrorsWritten'
  BY <1>5 DEF PushHead, Heading, memory, history, Writable
<1>6. ASSUME NEW t \in Callers, PushText(t) PROVE ErrorsWritten'
  BY <1>6 DEF PushText, Text, memory, history, Writable
<1>7. ASSUME NEW t \in Callers, PrintOnly(t) PROVE ErrorsWritten'
  BY <1>7 DEF PrintOnly, memory, history, Writable
<1>8. ASSUME NEW t \in Callers, WakeWriter(t) PROVE ErrorsWritten'
  BY <1>8 DEF WakeWriter, Fails, memory, history, Writable
<1>9. ASSUME NEW t \in Threads, flushBuffer(t) PROVE ErrorsWritten'
  <2> SUFFICES ASSUME Writable', NEW n \in returned'
               PROVE  {Heading(n), Text(n)} \subseteq ToSet(written')
    BY DEF ErrorsWritten
  <2>1. n \in returned /\ Writable
    BY <1>9, StaysUnwritable DEF flushBuffer
  <2>2. ToSet(written') = ToSet(written) \cup ToSet(buffer)
    BY <1>9, FlushAll
  <2>3. {Heading(n), Text(n)} \subseteq ToSet(written)
    BY <2>1 DEF ErrorsWritten
  <2> QED
    BY <2>2, <2>3
<1>10. ASSUME NEW t \in Threads, cleanDirectory(t) PROVE ErrorsWritten'
  BY <1>10 DEF cleanDirectory, memory, history, Writable
<1>11. ASSUME NEW t \in Threads, Rename(t) PROVE ErrorsWritten'
  BY <1>11 DEF Rename, Flushed, Fails, memory, history, Writable
<1>12. ASSUME NEW t \in Callers, UnlockCaller(t) PROVE ErrorsWritten'
  BY <1>12 DEF UnlockCaller, InFile, IsError, Both, Writable
<1>13. ASSUME UnlockWriter PROVE ErrorsWritten'
  BY <1>13 DEF UnlockWriter, memory, history, Writable
<1>14. ASSUME ClearThread PROVE ErrorsWritten'
  BY <1>14 DEF ClearThread, memory, history, Writable
<1>15. ASSUME NEW t \in Callers, Exit(t) PROVE ErrorsWritten'
  BY <1>15 DEF Exit, EndProcess, Idle, memory, history, Writable
<1>16. ASSUME Crash PROVE ErrorsWritten'
  BY <1>16 DEF Crash, Fails, EndProcess, Idle, memory, history, Writable
<1>17. ASSUME UNCHANGED vars PROVE ErrorsWritten'
  BY <1>17 DEF vars, memory, disk, history, memory, history, Writable
<1> QED
  BY <1>1, <1>2, <1>3, <1>4, <1>5, <1>6, <1>7, <1>8, <1>9, <1>10, 
     <1>11, <1>12, <1>13, <1>14, <1>15, <1>16, <1>17
     DEF Next, WriterStep, CallerStep, Threads

LEMMA StepErrors == EInv /\ [Next]_vars => EInv'
<1>1. EInv => LInv
  BY DEF EInv
<1> QED
  BY <1>1, InvariantKept, OpenKept, NoErrorsKept, InBufferKept, WrittenKept, InFileKept, ErrorsKept
     DEF EInv

(* "ERROR and above levels write to file immediately" (log.h:12): when the *)
(* _log of an error returns, both pieces of it were written, whatever the  *)
(* other threads and the writer do (lines 87-225, 248-301).                *)
THEOREM ErrorsAreWritten == Spec => []ErrorsWritten
<1>1. EInv => ErrorsWritten
  BY DEF EInv
<1> QED
  BY <1>1, InitErrors, StepErrors, PTL DEF Spec
=============================================================================
