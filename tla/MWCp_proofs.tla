---------------------------- MODULE MWCp_proofs -----------------------------
(***************************************************************************)
(* Proofs about MWCp for every number of workers, buffer size and tree.    *)
(***************************************************************************)
EXTENDS MWCp, TLAPS

(* The ring successor stays in the ring and wraps at Size.                 *)
LEMMA Next1Type ==
  ASSUME NEW i \in Slots PROVE Next1(i) \in Slots
BY SizeAssumption DEF Next1, Slots

LEMMA Next1Value ==
  ASSUME NEW i \in Slots PROVE Next1(i) = IF i + 1 = Size THEN 0 ELSE i + 1
BY SizeAssumption DEF Next1, Slots

(* What Store and TakeOut do to the buffer's types.                        *)
LEMMA StoreType ==
  ASSUME BufferTypeOK, ~IsFull, NEW f \in Names \cup {NoFile}, Store(f)
  PROVE  BufferTypeOK'
BY SizeAssumption, Next1Type DEF BufferTypeOK, IsFull, Store

LEMMA TakeOutType ==
  ASSUME BufferTypeOK, ~IsEmpty, TakeOut
  PROVE  BufferTypeOK'
BY SizeAssumption, Next1Type DEF BufferTypeOK, IsEmpty, TakeOut

USE DEF Threads, ManagerPc, WorkerPc, MainPc

(* Type correctness: count stays within the ring, indices inside it.       *)
THEOREM TypeCorrect == Spec => []TypeOK
<1>1. Init => TypeOK
  <2> SUFFICES ASSUME Init PROVE TypeOK
    OBVIOUS
  <2>1. BufferTypeOK
    <3>1. 0 \in Slots /\ 0 \in 0 .. Size
      BY SizeAssumption DEF Slots
    <3> QED
      BY <3>1 DEF Init, buffer_init, BufferTypeOK
  <2>2. /\ mutex \in Threads \cup {NoThread}
        /\ pc \in [Threads -> ManagerPc \cup WorkerPc \cup MainPc]
        /\ pc[Manager] \in ManagerPc
        /\ pc[Main] \in MainPc
        /\ \A w \in Workers : pc[w] \in WorkerPc
        /\ sig \in [Threads -> {"none", "lock", "hold"}]
    BY ThreadAssumption DEF Init
  <2> QED
    <3>1. /\ cur \in Names /\ unread \subseteq Names \ {Root}
          /\ mfd \in Names \cup {NoFile}
          /\ after \in {"readdir", "setdone_lock", "barrier", "exited"}
          /\ fd \in [Workers -> Names \cup {NoFile}]
      BY TreeAssumption DEF Init
    <3>2. /\ total_bytes \in [Workers -> Nat] /\ total_bytes_copied \in Nat
          /\ num_regular_files \in Nat /\ num_fifo_files \in Nat /\ num_directories \in Nat
          /\ dst \in [Names -> Nat]
      BY DEF Init
    <3> QED
      BY <2>1, <2>2, <3>1, <3>2 DEF Init, TypeOK
<1>2. TypeOK /\ [Next]_vars => TypeOK'
  <2> SUFFICES ASSUME TypeOK, [Next]_vars PROVE TypeOK'
    OBVIOUS
  <2> USE ThreadAssumption DEF TypeOK
  <2>1. CASE ManagerStart
    BY <2>1, TreeAssumption DEF ManagerStart, EnterDirectory, copy_file, MakeFifo, OpenFile, AfterCopyFile,
       CallSetDone, Go, At, bufferVars, signalVars, statVars, workVars, BufferTypeOK
  <2>2. CASE ReadEntry
    BY <2>2, TreeAssumption DEF ReadEntry, EnterDirectory, copy_file, MakeFifo, OpenFile, AfterCopyFile,
       CallSetDone, Go, At, bufferVars, signalVars, statVars, workVars, BufferTypeOK
  <2>3. CASE LeaveDirectory
    BY <2>3, TreeAssumption DEF LeaveDirectory, CallSetDone, Go, At, bufferVars, signalVars, workVars, fileVars,
       BufferTypeOK
  <2>4. CASE AddSleep
    BY <2>4 DEF AddSleep, Go, At, bufferVars, signalVars, walkVars, workVars, statVars, fileVars, BufferTypeOK
  <2>5. CASE AddDropped
    BY <2>5 DEF AddDropped, AddReturns, ReturnLabel, Go, At, bufferVars, signalVars, workVars, fileVars,
       BufferTypeOK
  <2>6. CASE AddStored
    <3>1. BufferTypeOK'
      BY <2>6, StoreType DEF AddStored
    <3> QED
      BY <2>6, <3>1 DEF AddStored, SignalNotEmpty, AddReturns, ReturnLabel, Go, At, signalVars, workVars, fileVars
  <2>7. CASE ManagerSetDone
    BY <2>7 DEF ManagerSetDone, MarkDone, WakeAll, Awake, At, signalVars, workVars, statVars, fileVars,
       BufferTypeOK
  <2>8. CASE ManagerAborts
    BY <2>8 DEF ManagerAborts, AbortMkdir, bufferVars, signalVars, walkVars, workVars, statVars, fileVars,
       BufferTypeOK
  <2>9. CASE MainStep
    <3>1. CASE JoinManager \/ JoinWorkers
      BY <2>9, <3>1 DEF JoinManager, JoinWorkers, Go, At, bufferVars, signalVars, walkVars, workVars, statVars,
         fileVars, BufferTypeOK
    <3>2. CASE buffer_destroy
      <4>1. closed' \subseteq Names \cup {NoFile}
        BY <3>2 DEF buffer_destroy, Queued, Live, BufferTypeOK
      <4> QED
        BY <3>2, <4>1 DEF buffer_destroy, Go, At, bufferVars, signalVars, walkVars, workVars, statVars,
           BufferTypeOK
    <3> QED
      BY <2>9, <3>1, <3>2 DEF MainStep
  <2>10. CASE \E w \in Workers : WorkerStep(w)
    <3> SUFFICES ASSUME NEW w \in Workers, WorkerStep(w) PROVE TypeOK'
      BY <2>10
    <3>1. CASE WorkerStart(w) \/ WorkerLoop(w) \/ RemoveSleep(w)
      BY <3>1 DEF WorkerStart, WorkerLoop, RemoveSleep, Go, At, bufferVars, signalVars, walkVars, workVars,
         statVars, fileVars, BufferTypeOK
    <3>2. CASE RemoveEnd(w)
      BY <3>2 DEF RemoveEnd, Go, At, bufferVars, signalVars, walkVars, workVars,
         statVars, fileVars, BufferTypeOK
    <3>3. CASE RemoveTaken(w)
      <4>1. BufferTypeOK'
        BY <3>3, TakeOutType DEF RemoveTaken
      <4> QED
        BY <3>3, <4>1 DEF RemoveTaken, SignalNotFull, At, signalVars, walkVars, statVars, fileVars, BufferTypeOK
    <3>4. CASE CopyChunk(w)
      <4>1. total_bytes' \in [Workers -> Nat]
        BY <3>4 DEF CopyChunk
      <4>2. dst' \in [Names -> Nat]
        <5>1. dst' = [dst EXCEPT ![fd[w]] = @ + 1]
          BY <3>4 DEF CopyChunk
        <5>2. CASE fd[w] \in Names
          BY <5>1, <5>2
        <5>3. CASE fd[w] \notin Names
          BY <5>1, <5>3
        <5> QED
          BY <5>2, <5>3
      <4> QED
        BY <3>4, <4>1, <4>2 DEF CopyChunk, At, bufferVars, signalVars, walkVars, statVars, BufferTypeOK
    <3>5. CASE CopyEnds(w) \/ WriteFails(w)
      BY <3>5 DEF CopyEnds, WriteFails, CloseAndGo, Go, At, bufferVars, signalVars, walkVars, statVars,
         BufferTypeOK
    <3>6. CASE AddTotal(w)
      BY <3>6 DEF AddTotal, Go, At, bufferVars, signalVars, walkVars, workVars, fileVars, BufferTypeOK
    <3> QED
      BY <3>1, <3>2, <3>3, <3>4, <3>5, <3>6 DEF WorkerStep
  <2>11. CASE \E t \in Threads : Lock(t) \/ SpuriousWake(t) \/ BarrierWait(t)
    BY <2>11 DEF Lock, LockFor, SpuriousWake, Asleep, Awake, BarrierWait, AtBarrier, Go, At, bufferVars, signalVars,
       walkVars, workVars, statVars, fileVars, BufferTypeOK
  <2>12. CASE \E t \in Threads : handle_signal(t) \/ HandlerLock(t) \/ HandlerSetDone(t)
    <3> SUFFICES ASSUME NEW t \in Threads, handle_signal(t) \/ HandlerLock(t) \/ HandlerSetDone(t)
                 PROVE  TypeOK'
      BY <2>12
    <3>1. CASE handle_signal(t)
      BY <3>1 DEF handle_signal, bufferVars, walkVars, workVars, statVars, fileVars, BufferTypeOK
    <3>2. CASE HandlerLock(t)
      BY <3>2 DEF HandlerLock, bufferVars, walkVars, workVars, statVars, fileVars, BufferTypeOK
    <3>3. CASE HandlerSetDone(t)
      <4>1. BufferTypeOK'
        BY <3>3 DEF HandlerSetDone, MarkDone, BufferTypeOK
      <4>2. /\ pc' \in [Threads -> ManagerPc \cup WorkerPc \cup MainPc]
            /\ pc'[Manager] \in ManagerPc
            /\ pc'[Main] \in MainPc
            /\ \A w \in Workers : pc'[w] \in WorkerPc
        BY <3>3 DEF HandlerSetDone, WakeAll, Awake
      <4> QED
        BY <3>3, <4>1, <4>2 DEF HandlerSetDone, walkVars, workVars, statVars, fileVars
    <3> QED
      BY <3>1, <3>2, <3>3
  <2>13. CASE Stays \/ UNCHANGED vars
    BY <2>13 DEF Stays, vars, bufferVars, signalVars, walkVars, workVars, statVars, fileVars, BufferTypeOK
  <2> QED
    BY <2>1, <2>2, <2>3, <2>4, <2>5, <2>6, <2>7, <2>8, <2>9, <2>10, <2>11, <2>12, <2>13
    DEF Next, ManagerStep
<1> QED
  BY <1>1, <1>2, PTL DEF Spec
-----------------------------------------------------------------------------
(* The mutex.  MutexOwner is inductive once it is known that a handler     *)
(* never holds the mutex inside a critical section of its own thread: it   *)
(* would have had to take a mutex that its thread had.                     *)
HandlerOutside ==
  /\ ~interrupted => \A t \in Threads : sig[t] = "none"
  /\ \A t \in Threads : sig[t] = "hold" => pc[t] \notin Holding

(* The mutex field names the thread in a critical section, in every run    *)
(* and with signal handlers on any thread.                                 *)
THEOREM MutexOwned == Spec => []MutexOwner
<1> DEFINE P == MutexOwner /\ HandlerOutside
<1> USE DEF Inside, Holding
<1>1. Init => P
  BY ThreadAssumption DEF Init, MutexOwner, HandlerOutside
<1>2. TypeOK /\ P /\ [Next]_vars => P'
  <2> SUFFICES ASSUME TypeOK, P, [Next]_vars PROVE P'
    OBVIOUS
  <2> USE ThreadAssumption DEF TypeOK, MutexOwner, HandlerOutside
  <2>1. CASE ManagerStart \/ ReadEntry \/ LeaveDirectory
    <3>1. /\ mutex' = mutex /\ sig' = sig /\ interrupted' = interrupted
          /\ sig[Manager] = "none"
          /\ pc[Manager] \notin Holding
          /\ \/ pc' = pc
             \/ \E l \in {"readdir", "add_lock", "setdone_lock"} : pc' = [pc EXCEPT ![Manager] = l]
      BY <2>1 DEF ManagerStart, ReadEntry, LeaveDirectory, EnterDirectory, copy_file, MakeFifo, OpenFile,
         AfterCopyFile, CallSetDone, Go, At, signalVars
    <3> QED
      BY <3>1
  <2>2. CASE AddSleep \/ AddDropped
    BY <2>2 DEF AddSleep, AddDropped, AddReturns, ReturnLabel, Go, At, signalVars
  <2>3. CASE AddStored
    BY <2>3 DEF AddStored, SignalNotEmpty, AddReturns, ReturnLabel, Go, At, signalVars
  <2>4. CASE ManagerSetDone
    BY <2>4 DEF ManagerSetDone, WakeAll, Awake, At, signalVars
  <2>5. CASE ManagerAborts \/ Stays \/ UNCHANGED vars
    BY <2>5 DEF ManagerAborts, AbortMkdir, Stays, vars, signalVars
  <2>6. CASE MainStep
    BY <2>6 DEF MainStep, JoinManager, JoinWorkers, buffer_destroy, Go, At, signalVars
  <2>7. ASSUME NEW w \in Workers, WorkerStep(w) PROVE P'
    <3>1. CASE WorkerStart(w) \/ WorkerLoop(w)
      BY <3>1 DEF WorkerStart, WorkerLoop, Go, At, signalVars
    <3>2. CASE RemoveSleep(w) \/ RemoveEnd(w)
      BY <3>2 DEF RemoveSleep, RemoveEnd, Go, At, signalVars
    <3>3. CASE RemoveTaken(w)
      BY <3>3 DEF RemoveTaken, SignalNotFull, At, signalVars
    <3>4. CASE CopyChunk(w) \/ CopyEnds(w) \/ WriteFails(w)
      BY <3>4 DEF CopyChunk, CopyEnds, WriteFails, CloseAndGo, Go, At, signalVars
    <3>5. CASE AddTotal(w)
      BY <3>5 DEF AddTotal, Go, At, signalVars
    <3> QED
      BY <2>7, <3>1, <3>2, <3>3, <3>4, <3>5 DEF WorkerStep
  <2>8. ASSUME NEW t \in Threads, Lock(t) PROVE P'
    BY <2>8 DEF Lock, LockFor, Go, At, signalVars
  <2>9. ASSUME NEW t \in Threads, SpuriousWake(t) \/ BarrierWait(t) PROVE P'
    BY <2>9 DEF SpuriousWake, Asleep, Awake, BarrierWait, AtBarrier, Go, At, signalVars
  <2>10. ASSUME NEW t \in Threads, handle_signal(t) PROVE P'
    BY <2>10 DEF handle_signal
  <2>11. ASSUME NEW t \in Threads, HandlerLock(t) PROVE P'
    BY <2>11 DEF HandlerLock
  <2>12. ASSUME NEW t \in Threads, HandlerSetDone(t) PROVE P'
    BY <2>12 DEF HandlerSetDone, WakeAll, Awake
  <2> QED
    BY <2>1, <2>2, <2>3, <2>4, <2>5, <2>6, <2>7, <2>8, <2>9, <2>10, <2>11, <2>12
    DEF Next, ManagerStep
<1> QED
  BY <1>1, <1>2, TypeCorrect, PTL DEF Spec

(* A sleeping manager has a full buffer in front of it, and no worker      *)
(* sleeps once the buffer is done: the wakeups of buffer_remove and        *)
(* buffer_set_done reach whoever sleeps.                                   *)
THEOREM NoWakeupMissed == Spec => []NoMissedWakeup
<1> USE DEF NoMissedWakeup
<1>1. Init => NoMissedWakeup
  BY ThreadAssumption DEF Init, buffer_init
<1>2. TypeOK /\ NoMissedWakeup /\ [Next]_vars => NoMissedWakeup'
  <2> SUFFICES ASSUME TypeOK, NoMissedWakeup, [Next]_vars PROVE NoMissedWakeup'
    OBVIOUS
  <2> USE ThreadAssumption DEF TypeOK, IsFull
  <2>1. CASE ManagerStart \/ ReadEntry \/ LeaveDirectory
    <3>1. /\ count' = count /\ bdone' = bdone
          /\ \/ pc' = pc
             \/ \E l \in {"readdir", "add_lock", "setdone_lock"} : pc' = [pc EXCEPT ![Manager] = l]
      BY <2>1 DEF ManagerStart, ReadEntry, LeaveDirectory, EnterDirectory, copy_file, MakeFifo, OpenFile,
         AfterCopyFile, CallSetDone, Go, At, bufferVars
    <3> QED
      BY <3>1
  <2>2. CASE AddSleep \/ AddDropped
    BY <2>2 DEF AddSleep, AddDropped, AddReturns, ReturnLabel, Go, At, bufferVars
  <2>3. CASE AddStored
    BY <2>3 DEF AddStored, Store, SignalNotEmpty, AddReturns, ReturnLabel, Go, At
  <2>4. CASE ManagerSetDone
    BY <2>4 DEF ManagerSetDone, MarkDone, WakeAll, Awake, At
  <2>5. CASE ManagerAborts \/ Stays \/ UNCHANGED vars
    BY <2>5 DEF ManagerAborts, AbortMkdir, Stays, vars, bufferVars
  <2>6. CASE MainStep
    BY <2>6 DEF MainStep, JoinManager, JoinWorkers, buffer_destroy, Go, At, bufferVars
  <2>7. ASSUME NEW w \in Workers, WorkerStep(w) PROVE NoMissedWakeup'
    <3>1. CASE WorkerStart(w) \/ WorkerLoop(w) \/ AddTotal(w)
      BY <3>1 DEF WorkerStart, WorkerLoop, AddTotal, Go, At, bufferVars
    <3>2. CASE RemoveSleep(w) \/ RemoveEnd(w)
      BY <3>2 DEF RemoveSleep, RemoveEnd, Go, At, bufferVars
    <3>3. CASE RemoveTaken(w)
      BY <3>3 DEF RemoveTaken, TakeOut, SignalNotFull, At
    <3>4. CASE CopyChunk(w) \/ CopyEnds(w) \/ WriteFails(w)
      BY <3>4 DEF CopyChunk, CopyEnds, WriteFails, CloseAndGo, Go, At, bufferVars
    <3> QED
      BY <2>7, <3>1, <3>2, <3>3, <3>4 DEF WorkerStep
  <2>8. ASSUME NEW t \in Threads, Lock(t) \/ SpuriousWake(t) \/ BarrierWait(t) PROVE NoMissedWakeup'
    BY <2>8 DEF Lock, LockFor, SpuriousWake, Asleep, Awake, BarrierWait, AtBarrier, Go, At, bufferVars
  <2>9. ASSUME NEW t \in Threads, handle_signal(t) \/ HandlerLock(t) PROVE NoMissedWakeup'
    BY <2>9 DEF handle_signal, HandlerLock, bufferVars
  <2>10. ASSUME NEW t \in Threads, HandlerSetDone(t) PROVE NoMissedWakeup'
    BY <2>10 DEF HandlerSetDone, MarkDone, WakeAll, Awake
  <2> QED
    BY <2>1, <2>2, <2>3, <2>4, <2>5, <2>6, <2>7, <2>8, <2>9, <2>10
    DEF Next, ManagerStep
<1> QED
  BY <1>1, <1>2, TypeCorrect, PTL DEF Spec
-----------------------------------------------------------------------------
(* Custody.  The indices describe a ring, and a name the walk has still to *)
(* read has never been opened.                                             *)
RingShape == in = IF out + count < Size THEN out + count ELSE out + count - Size
Fresh ==
  /\ closed \subseteq opened
  /\ opened \cap unread = {}
  /\ pc[Manager] = "start" => Root \notin opened
Held == SlotsDistinct /\ SlotsOpen /\ WorkerPairs /\ ManagerPair
CustodyInv == pc[Main] # "exited" => RingShape /\ Fresh /\ Held

(* Storing makes one more slot live, the one at in, which was not.         *)
LEMMA StoreLive ==
  ASSUME BufferTypeOK, RingShape, ~IsFull, NEW f, Store(f)
  PROVE  /\ RingShape'
         /\ in \in Slots /\ ~Live(in) /\ fds'[in] = f
         /\ \A i \in Slots : Live(i)' <=> Live(i) \/ i = in
         /\ \A i \in Slots : i # in => fds'[i] = fds[i]
<1> USE SizeAssumption DEF BufferTypeOK, RingShape, IsFull, Store, Slots
<1>1. RingShape'
  BY Next1Value
<1>2. \A i \in Slots : Live(i)' <=> Live(i) \/ i = in
  BY DEF Live
<1> QED
  BY <1>1, <1>2 DEF Live

(* Taking makes one slot less live, the one at out.                        *)
LEMMA TakeOutLive ==
  ASSUME BufferTypeOK, RingShape, ~IsEmpty, TakeOut
  PROVE  /\ RingShape'
         /\ out \in Slots /\ Live(out) /\ fds' = fds
         /\ \A i \in Slots : Live(i)' <=> Live(i) /\ i # out
<1> USE SizeAssumption DEF BufferTypeOK, RingShape, IsEmpty, TakeOut, Slots
<1>1. out' = IF out + 1 = Size THEN 0 ELSE out + 1
  BY Next1Value
<1>2. RingShape'
  BY <1>1
<1>3. \A i \in Slots : Live(i)' <=> Live(i) /\ i # out
  BY <1>1 DEF Live
<1> QED
  BY <1>2, <1>3 DEF Live

(* Most steps move no pair: they leave the ring, the hands and the sets of *)
(* opened and closed pairs alone, and every thread that holds a pair       *)
(* stays where its pair can be.                                            *)
Adding == pc[Manager] \in {"add_lock", "add", "add_wait"}
NoPairMoves ==
  /\ fds' = fds /\ count' = count /\ in' = in /\ out' = out
  /\ fd' = fd /\ mfd' = mfd /\ opened' = opened /\ closed' = closed
  /\ unread' = unread \/ (pc[Manager] # "start" /\ \E e \in unread : unread' = unread \ {e})
  /\ \A w \in Workers : pc'[w] = "copy" <=> pc[w] = "copy"
  /\ Adding' <=> Adding
  /\ pc'[Manager] = "start" => pc[Manager] = "start"

LEMMA NoPairMovesKeeps ==
  ASSUME RingShape, Fresh, Held, NoPairMoves
  PROVE  RingShape' /\ Fresh' /\ Held'
<1> USE DEF NoPairMoves
<1>1. RingShape' /\ Fresh'
  BY DEF RingShape, Fresh
<1>2. \A i \in Slots : Live(i)' <=> Live(i)
  BY DEF Live
<1>3. SlotsDistinct' /\ SlotsOpen'
  BY <1>2 DEF Held, SlotsDistinct, SlotsOpen, OpenPairs
<1>4. WorkerPairs'
  BY <1>2 DEF Held, WorkerPairs, OpenPairs
<1>5. ManagerPair'
  BY <1>2 DEF Held, ManagerPair, OpenPairs, Adding
<1> QED
  BY <1>1, <1>3, <1>4, <1>5 DEF Held

(* The manager opens a file it has just found.                             *)
Opens(e) ==
  /\ e \in Names /\ "reg" \in Kind[e]
  /\ \/ pc[Manager] = "start" /\ e = Root
     \/ pc[Manager] = "readdir" /\ ~done /\ e \in unread
  /\ pc' = [pc EXCEPT ![Manager] = "add_lock"]
  /\ mfd' = e
  /\ opened' = opened \cup {e}
  /\ unread' = unread \ {e}
  /\ UNCHANGED <<fds, count, in, out, fd, closed>>

LEMMA OpensKeeps ==
  ASSUME TypeOK, RingShape, Fresh, Held, NEW e, Opens(e)
  PROVE  RingShape' /\ Fresh' /\ Held'
<1> USE ThreadAssumption, NoFileAssumption DEF Opens
<1>0. e \notin opened
  BY DEF Fresh
<1>1. RingShape' /\ Fresh'
  BY DEF RingShape, Fresh, TypeOK
<1>2. \A i \in Slots : Live(i)' <=> Live(i)
  BY DEF Live
<1>3. e \notin closed /\ e # NoFile
  BY <1>0 DEF Fresh
<1>4. SlotsDistinct' /\ SlotsOpen'
  BY <1>2 DEF Held, SlotsDistinct, SlotsOpen, OpenPairs
<1>5. \A w \in Workers : fd[w] # e
  BY <1>0, <1>3 DEF Held, WorkerPairs, OpenPairs
<1>6. WorkerPairs'
  BY <1>2 DEF Held, WorkerPairs, OpenPairs, TypeOK
<1>7. ManagerPair'
  BY <1>0, <1>2, <1>3, <1>5 DEF Held, ManagerPair, OpenPairs, SlotsOpen, TypeOK
<1> QED
  BY <1>1, <1>4, <1>6, <1>7 DEF Held

(* buffer_add gives the manager's pair up, or hands it to the slot at in.  *)
LEMMA AddDroppedKeeps ==
  ASSUME TypeOK, RingShape, Fresh, Held, AddDropped
  PROVE  RingShape' /\ Fresh' /\ Held'
<1> USE ThreadAssumption DEF AddDropped, AddReturns, ReturnLabel, bufferVars, workVars, fileVars, At, Go, TypeOK
<1>1. RingShape' /\ Fresh'
  BY DEF RingShape, Fresh
<1>2. \A i \in Slots : Live(i)' <=> Live(i)
  BY DEF Live
<1>3. SlotsDistinct' /\ SlotsOpen'
  BY <1>2 DEF Held, SlotsDistinct, SlotsOpen, OpenPairs
<1>4. WorkerPairs' /\ ManagerPair'
  BY <1>2 DEF Held, WorkerPairs, ManagerPair, OpenPairs
<1> QED
  BY <1>1, <1>3, <1>4 DEF Held

LEMMA AddStoredKeeps ==
  ASSUME TypeOK, RingShape, Fresh, Held, AddStored
  PROVE  RingShape' /\ Fresh' /\ Held'
<1>1. /\ BufferTypeOK /\ ~IsFull /\ Store(mfd)
      /\ mfd' = NoFile /\ fd' = fd /\ opened' = opened /\ closed' = closed /\ unread' = unread
  BY DEF AddStored, AddReturns, TypeOK, workVars, fileVars
<1>2. /\ pc[Manager] = "add"
      /\ pc'[Manager] \in {"setdone_lock", "readdir"}
      /\ \A w \in Workers : pc'[w] = "copy" <=> pc[w] = "copy"
  BY ThreadAssumption DEF AddStored, SignalNotEmpty, ReturnLabel, Go, At, TypeOK
<1>3. /\ mfd # NoFile /\ mfd \in OpenPairs
      /\ \A w \in Workers : fd[w] # mfd
      /\ \A i \in Slots : Live(i) => fds[i] # mfd
  BY <1>2 DEF Held, ManagerPair
<1>4. /\ RingShape'
      /\ in \in Slots /\ ~Live(in) /\ fds'[in] = mfd
      /\ \A i \in Slots : Live(i)' <=> Live(i) \/ i = in
      /\ \A i \in Slots : i # in => fds'[i] = fds[i]
  BY <1>1, StoreLive
<1>5. Fresh'
  BY <1>1, <1>2 DEF Fresh
<1>6. SlotsDistinct' /\ SlotsOpen'
  BY <1>1, <1>3, <1>4 DEF Held, SlotsDistinct, SlotsOpen, OpenPairs
<1>7. WorkerPairs'
  BY <1>1, <1>2, <1>3, <1>4 DEF Held, WorkerPairs, OpenPairs
<1>8. ManagerPair'
  BY <1>1, <1>2 DEF ManagerPair
<1> QED
  BY <1>4, <1>5, <1>6, <1>7, <1>8 DEF Held

(* buffer_remove hands the pair at out to one worker.                      *)
LEMMA RemoveTakenKeeps ==
  ASSUME TypeOK, RingShape, Fresh, Held, NEW w \in Workers, RemoveTaken(w)
  PROVE  RingShape' /\ Fresh' /\ Held'
<1>1. /\ BufferTypeOK /\ ~IsEmpty /\ TakeOut
      /\ fd' = [fd EXCEPT ![w] = fds[out]]
      /\ mfd' = mfd /\ opened' = opened /\ closed' = closed /\ unread' = unread
  BY DEF RemoveTaken, TypeOK, walkVars, fileVars
<1>2. /\ pc[w] = "rm" /\ pc'[w] = "copy"
      /\ \A v \in Workers : v # w => pc'[v] = pc[v]
      /\ Adding' <=> Adding
      /\ pc'[Manager] = "start" => pc[Manager] = "start"
  BY ThreadAssumption DEF RemoveTaken, SignalNotFull, At, TypeOK, Adding
<1>3. /\ RingShape'
      /\ out \in Slots /\ Live(out) /\ fds' = fds
      /\ \A i \in Slots : Live(i)' <=> Live(i) /\ i # out
  BY <1>1, TakeOutLive
<1>4. Fresh'
  BY <1>1, <1>2 DEF Fresh
<1>5. SlotsDistinct' /\ SlotsOpen'
  BY <1>1, <1>3 DEF Held, SlotsDistinct, SlotsOpen, OpenPairs
<1>6. /\ fds[out] \in OpenPairs /\ fds[out] # NoFile
      /\ \A v \in Workers : fd[v] # fds[out]
      /\ mfd # fds[out]
      /\ \A i \in Slots : Live(i) /\ i # out => fds[i] # fds[out]
  <2>1. fds[out] \in OpenPairs /\ fds[out] # NoFile
    BY <1>3, NoFileAssumption DEF Held, SlotsOpen, OpenPairs, TypeOK
  <2> QED
    BY <1>3, <2>1 DEF Held, WorkerPairs, ManagerPair, SlotsDistinct
<1>7. WorkerPairs'
  <2> SUFFICES ASSUME NEW v \in Workers
               PROVE  /\ pc'[v] = "copy" <=> fd'[v] # NoFile
                      /\ fd'[v] # NoFile => /\ fd'[v] \in OpenPairs'
                                            /\ \A u \in Workers : u # v => fd'[u] # fd'[v]
                                            /\ \A i \in Slots : Live(i)' => fds'[i] # fd'[v]
    BY DEF WorkerPairs
  <2>1. fd'[w] = fds[out] /\ \A u \in Workers : u # w => fd'[u] = fd[u]
    BY <1>1 DEF TypeOK
  <2>2. CASE v = w
    BY <2>1, <2>2, <1>1, <1>2, <1>3, <1>6 DEF OpenPairs
  <2>3. CASE v # w
    BY <2>1, <2>3, <1>1, <1>2, <1>3, <1>6 DEF Held, WorkerPairs, OpenPairs
  <2> QED
    BY <2>2, <2>3
<1>8. ManagerPair'
  BY <1>1, <1>2, <1>3, <1>6 DEF Held, ManagerPair, OpenPairs, Adding, TypeOK
<1> QED
  BY <1>3, <1>4, <1>5, <1>7, <1>8 DEF Held

(* A worker closes its pair.                                               *)
LEMMA CloseKeeps ==
  ASSUME TypeOK, RingShape, Fresh, Held, NEW w \in Workers,
         pc[w] = "copy", NEW label \in {"loop", "exited"}, CloseAndGo(w, label)
  PROVE  RingShape' /\ Fresh' /\ Held'
<1> USE DEF CloseAndGo, bufferVars, walkVars
<1>1. /\ fd[w] # NoFile /\ fd[w] \in OpenPairs
      /\ \A v \in Workers : v # w => fd[v] # fd[w]
      /\ \A i \in Slots : Live(i) => fds[i] # fd[w]
      /\ mfd # NoFile => mfd # fd[w]
  BY DEF Held, WorkerPairs, ManagerPair
<1>2. /\ pc' = [pc EXCEPT ![w] = label]
      /\ fd' = [fd EXCEPT ![w] = NoFile]
      /\ OpenPairs' = OpenPairs \ {fd[w]}
  BY DEF Go, OpenPairs
<1>3. \A i \in Slots : Live(i)' <=> Live(i)
  BY DEF Live
<1>4. RingShape' /\ Fresh'
  BY <1>1, <1>2, ThreadAssumption DEF RingShape, Fresh, OpenPairs, TypeOK
<1>5. SlotsDistinct' /\ SlotsOpen'
  BY <1>1, <1>2, <1>3 DEF Held, SlotsDistinct, SlotsOpen
<1>6. WorkerPairs'
  BY <1>1, <1>2, <1>3 DEF Held, WorkerPairs, TypeOK
<1>7. ManagerPair'
  BY <1>1, <1>2, <1>3, ThreadAssumption DEF Held, ManagerPair, TypeOK
<1> QED
  BY <1>4, <1>5, <1>6, <1>7 DEF Held

(* The end of main is the end.                                             *)
LEMMA ExitedForGood ==
  ASSUME TypeOK, [Next]_vars, pc[Main] = "exited"
  PROVE  pc'[Main] = "exited"
<1> USE ThreadAssumption DEF TypeOK
<1>1. CASE ManagerStep \/ ManagerAborts
  <2>1. CASE ManagerStart \/ ReadEntry \/ LeaveDirectory \/ ManagerAborts
    BY <2>1 DEF ManagerStart, ReadEntry, LeaveDirectory, ManagerAborts, AbortMkdir, EnterDirectory,
       copy_file, MakeFifo, OpenFile, AfterCopyFile, CallSetDone, Go
  <2>2. CASE AddSleep \/ AddDropped
    BY <2>2 DEF AddSleep, AddDropped, Go
  <2>3. CASE AddStored \/ ManagerSetDone
    BY <2>3 DEF AddStored, SignalNotEmpty, ManagerSetDone, WakeAll, Awake, Go
  <2> QED
    BY <1>1, <2>1, <2>2, <2>3 DEF ManagerStep
<1>2. CASE MainStep
  BY <1>2 DEF MainStep, JoinManager, JoinWorkers, buffer_destroy, At
<1>3. ASSUME NEW w \in Workers, WorkerStep(w) PROVE pc'[Main] = "exited"
  BY <1>3 DEF WorkerStep, WorkerStart, WorkerLoop, RemoveSleep, RemoveEnd, RemoveTaken, SignalNotFull,
     CopyChunk, CopyEnds, WriteFails, CloseAndGo, AddTotal, Go
<1>4. ASSUME NEW t \in Threads, Lock(t) \/ SpuriousWake(t) \/ BarrierWait(t) PROVE pc'[Main] = "exited"
  BY <1>4 DEF Lock, LockFor, SpuriousWake, Asleep, BarrierWait, At, Go
<1>5. ASSUME NEW t \in Threads, handle_signal(t) \/ HandlerLock(t) \/ HandlerSetDone(t)
      PROVE  pc'[Main] = "exited"
  BY <1>5 DEF handle_signal, HandlerLock, HandlerSetDone, WakeAll, Awake
<1>6. CASE Stays \/ UNCHANGED vars
  BY <1>6 DEF Stays, vars
<1> QED
  BY <1>1, <1>2, <1>3, <1>4, <1>5, <1>6 DEF Next

(* Which step moves which pair, and where to.                              *)
PairMoves ==
  \/ NoPairMoves
  \/ \E e \in Names : Opens(e)
  \/ AddDropped \/ AddStored
  \/ \E w \in Workers : RemoveTaken(w) \/ CopyEnds(w) \/ WriteFails(w)
  \/ buffer_destroy

LEMMA StepMovesPairs == TypeOK /\ [Next]_vars => PairMoves
<1> SUFFICES ASSUME TypeOK, [Next]_vars PROVE PairMoves
  OBVIOUS
<1>1. CASE ManagerStart \/ ReadEntry
  <2> USE TreeAssumption, ThreadAssumption
      DEF EnterDirectory, MakeFifo, OpenFile, AfterCopyFile, CallSetDone, Go, At, bufferVars, statVars,
          workVars, TypeOK
  <2>1. ASSUME ManagerStart, ~OpenFile(Root) PROVE NoPairMoves
    BY <2>1 DEF ManagerStart, copy_file, NoPairMoves, Adding
  <2>2. ASSUME ManagerStart, OpenFile(Root) PROVE NoPairMoves \/ Opens(Root)
    BY <2>2 DEF ManagerStart, NoPairMoves, Adding, Opens
  <2>3. ASSUME ReadEntry PROVE NoPairMoves \/ \E e \in Names : Opens(e)
    <3> PICK e \in unread : /\ unread' = unread \ {e}
                            /\ \/ OpenFile(e)
                               \/ /\ mfd' = mfd /\ opened' = opened
                                  /\ \/ pc' = pc
                                     \/ pc' = [pc EXCEPT ![Manager] = "readdir"]
                                     \/ pc' = [pc EXCEPT ![Manager] = "setdone_lock"]
      BY <2>3 DEF ReadEntry, copy_file
    <3>1. CASE OpenFile(e)
      BY <2>3, <3>1 DEF ReadEntry, NoPairMoves, Adding, Opens
    <3>2. CASE ~OpenFile(e)
      BY <2>3, <3>2 DEF ReadEntry, NoPairMoves, Adding
    <3> QED
      BY <3>1, <3>2
  <2> QED
    BY <1>1, <2>1, <2>2, <2>3 DEF PairMoves
<1>2. CASE LeaveDirectory \/ AddSleep \/ ManagerAborts
  <2>1. NoPairMoves
    BY <1>2, ThreadAssumption
    DEF LeaveDirectory, AddSleep, ManagerAborts, AbortMkdir, CallSetDone, Go, At, bufferVars, walkVars,
        workVars, fileVars, NoPairMoves, Adding, TypeOK
  <2> QED
    BY <2>1 DEF PairMoves
<1>3. CASE ManagerSetDone
  <2>1. NoPairMoves
    BY <1>3, ThreadAssumption
    DEF ManagerSetDone, MarkDone, WakeAll, Awake, At, workVars, fileVars, NoPairMoves, Adding, TypeOK
  <2> QED
    BY <2>1 DEF PairMoves
<1>4. CASE JoinManager \/ JoinWorkers
  <2>1. NoPairMoves
    BY <1>4, ThreadAssumption
    DEF JoinManager, JoinWorkers, Go, At, bufferVars, walkVars, workVars, fileVars, NoPairMoves, Adding, TypeOK
  <2> QED
    BY <2>1 DEF PairMoves
<1>5. ASSUME NEW w \in Workers, WorkerStep(w) PROVE PairMoves
  <2>1. CASE ~(CopyEnds(w) \/ WriteFails(w) \/ RemoveTaken(w))
    <3>1. NoPairMoves
      BY <1>5, <2>1, ThreadAssumption
      DEF WorkerStep, WorkerStart, WorkerLoop, RemoveSleep, RemoveEnd, CopyChunk, AddTotal, Go, At,
          bufferVars, walkVars, workVars, fileVars, NoPairMoves, Adding, TypeOK
    <3> QED
      BY <3>1 DEF PairMoves
  <2> QED
    BY <2>1 DEF PairMoves
<1>6. ASSUME NEW t \in Threads, Lock(t) \/ SpuriousWake(t) PROVE PairMoves
  <2>1. NoPairMoves
    BY <1>6, ThreadAssumption
    DEF Lock, LockFor, SpuriousWake, Asleep, Awake, Go, At, bufferVars, walkVars, workVars, fileVars,
        NoPairMoves, Adding, TypeOK
  <2> QED
    BY <2>1 DEF PairMoves
<1>7. ASSUME NEW t \in Threads, BarrierWait(t) PROVE PairMoves
  <2>1. NoPairMoves
    BY <1>7, ThreadAssumption
    DEF BarrierWait, AtBarrier, Go, At, bufferVars, walkVars, workVars, fileVars, NoPairMoves, Adding, TypeOK
  <2> QED
    BY <2>1 DEF PairMoves
<1>8. ASSUME NEW t \in Threads, handle_signal(t) \/ HandlerLock(t) \/ HandlerSetDone(t) PROVE PairMoves
  <2>1. NoPairMoves
    BY <1>8, ThreadAssumption
    DEF handle_signal, HandlerLock, HandlerSetDone, MarkDone, WakeAll, Awake, bufferVars, walkVars, workVars,
        fileVars, NoPairMoves, Adding, TypeOK
  <2> QED
    BY <2>1 DEF PairMoves
<1>9. CASE Stays \/ UNCHANGED vars
  <2>1. NoPairMoves
    BY <1>9 DEF Stays, vars, bufferVars, walkVars, workVars, fileVars, NoPairMoves, Adding
  <2> QED
    BY <2>1 DEF PairMoves
<1> QED
  BY <1>1, <1>2, <1>3, <1>4, <1>5, <1>6, <1>7, <1>8, <1>9 DEF Next, ManagerStep, MainStep, PairMoves

LEMMA CustodyInvariant == Spec => []CustodyInv
<1>1. Init => CustodyInv
  <2> SUFFICES ASSUME Init PROVE RingShape /\ Fresh /\ Held
    BY DEF CustodyInv
  <2>1. RingShape /\ \A i \in Slots : ~Live(i)
    BY SizeAssumption DEF Init, buffer_init, RingShape, Live, Slots
  <2>2. Fresh
    BY DEF Init, Fresh
  <2> QED
    BY <2>1, <2>2, ThreadAssumption DEF Init, Held, SlotsDistinct, SlotsOpen, WorkerPairs, ManagerPair
<1>2. TypeOK /\ CustodyInv /\ [Next]_vars => CustodyInv'
  <2> SUFFICES ASSUME TypeOK, RingShape, Fresh, Held, [Next]_vars
               PROVE  pc'[Main] = "exited" \/ (RingShape' /\ Fresh' /\ Held')
    BY ExitedForGood DEF CustodyInv
  <2>1. ASSUME NEW w \in Workers, CopyEnds(w) \/ WriteFails(w) PROVE RingShape' /\ Fresh' /\ Held'
    BY <2>1, CloseKeeps DEF CopyEnds, WriteFails
  <2>2. CASE buffer_destroy
    BY <2>2 DEF buffer_destroy, Go, TypeOK
  <2> QED
    BY <2>1, <2>2, StepMovesPairs, NoPairMovesKeeps, OpensKeeps, AddDroppedKeeps, AddStoredKeeps, RemoveTakenKeeps
    DEF PairMoves
<1> QED
  BY <1>1, <1>2, TypeCorrect, PTL DEF Spec

(* An open pair is in one place, and never used once it is closed.         *)
THEOREM PairsInCustody == Spec => []Custody
<1>1. CustodyInv => Custody
  BY DEF CustodyInv, Held, Custody
<1> QED
  BY <1>1, CustodyInvariant, PTL
=============================================================================
