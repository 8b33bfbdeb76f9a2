-------------------------------- MODULE MWCp --------------------------------
(***************************************************************************)
(* MWCp, the parallel directory copier of hw5 (hw4 when HasBarrier is      *)
(* FALSE): a manager thread walks the source tree, opens every regular     *)
(* file and puts the descriptor pair into the bounded buffer; workers take *)
(* pairs out and copy; main joins them all; SIGINT may arrive on any       *)
(* thread of SignalThreads.                                                *)
(*                                                                         *)
(* A critical section is two steps, taking the mutex and the body that     *)
(* releases it, because a signal handler can interrupt a thread in between.*)
(* Sleeping in pthread_cond_wait is a value of pc, so the set of threads   *)
(* waiting on a condition variable is the set with that pc.                *)
(***************************************************************************)
EXTENDS CopyBuffer, Functions

CONSTANTS
  Workers, Manager, Main,   \* the threads
  NoThread,                 \* nobody holds the mutex
  Root,                     \* src_dir
  Kind,                     \* what lstat may say of each name
  Parent,                   \* the directory each other name is in
  Chunks,                   \* file sizes, in reads of at most buffer_size bytes
  Faults,                   \* the system calls that may fail in this run
  SignalThreads,            \* the threads SIGINT may be delivered to
  HasBarrier                \* TRUE in hw5, FALSE in hw4

Kinds == {"reg", "fifo", "dir", "other", "missing"}
FaultKinds == {"malloc", "lstat", "opendir", "mkdir", "open", "mkfifo", "read", "write"}
Threads == Workers \cup {Manager, Main}

ASSUME ThreadAssumption ==
  /\ Manager \notin Workers
  /\ Main \notin Workers \cup {Manager}
  /\ NoThread \notin Threads
  /\ IsFiniteSet(Workers) /\ Workers # {}
ASSUME TreeAssumption ==
  /\ IsFiniteSet(Names) /\ Root \in Names
  /\ Kind \in [Names -> (SUBSET Kinds) \ {{}}]
  /\ Parent \in [Names \ {Root} -> {d \in Names : "dir" \in Kind[d]}]
  /\ Chunks \in [Names -> Nat]
ASSUME EnvironmentAssumption ==
  /\ Faults \subseteq FaultKinds
  /\ SignalThreads \subseteq Threads
  /\ HasBarrier \in BOOLEAN

VARIABLES
  mutex,          \* the thread holding buffer->mutex, or NoThread
  pc,             \* where each thread is
  sig,            \* where each thread's SIGINT handler is, "none" when it runs none
  done, interrupted,
  cur,            \* the directory the innermost process_directory reads
  unread,         \* the names readdir has not returned yet
  mfd,            \* the pair the manager is adding
  after,          \* where the manager's buffer_set_done returns to
  fd,             \* the pair each worker is copying
  total_bytes,    \* each worker's byte count, in chunks
  total_bytes_copied,
  num_regular_files, num_fifo_files, num_directories,
  dst,            \* chunks in each destination file
  opened, closed, \* pairs ever opened, pairs closed
  aborted         \* exit(EXIT_FAILURE) was called

walkVars == <<cur, unread, mfd, after>>
statVars == <<total_bytes_copied, num_regular_files, num_fifo_files, num_directories>>
fileVars == <<dst, opened, closed>>
workVars == <<fd, total_bytes>>
signalVars == <<sig, done, interrupted>>
vars == <<bufferVars, mutex, pc, signalVars, walkVars, workVars, statVars, fileVars, aborted>>

Sum(f) == FoldFunction(+, 0, f)

ManagerPc == {"start", "readdir", "add_lock", "add", "add_wait", "setdone_lock", "setdone",
              "barrier", "at_barrier", "exited"}
WorkerPc == {"start", "loop", "rm_lock", "rm", "rm_wait", "copy", "total_lock", "total",
             "barrier", "at_barrier", "exited"}
MainPc == {"join_manager", "join_workers", "destroy_lock", "destroy", "exited"}
Holding == {"add", "setdone", "rm", "total", "destroy"}

TypeOK ==
  /\ BufferTypeOK
  /\ mutex \in Threads \cup {NoThread}
  /\ pc \in [Threads -> ManagerPc \cup WorkerPc \cup MainPc]
  /\ pc[Manager] \in ManagerPc
  /\ pc[Main] \in MainPc
  /\ \A w \in Workers : pc[w] \in WorkerPc
  /\ sig \in [Threads -> {"none", "lock", "hold"}]
  /\ done \in BOOLEAN /\ interrupted \in BOOLEAN /\ aborted \in BOOLEAN
  /\ cur \in Names
  /\ unread \subseteq Names \ {Root}
  /\ mfd \in Names \cup {NoFile}
  /\ after \in {"readdir", "setdone_lock", "barrier", "exited"}
  /\ fd \in [Workers -> Names \cup {NoFile}]
  /\ total_bytes \in [Workers -> Nat]
  /\ total_bytes_copied \in Nat
  /\ num_regular_files \in Nat /\ num_fifo_files \in Nat /\ num_directories \in Nat
  /\ dst \in [Names -> Nat]
  /\ opened \subseteq Names /\ closed \subseteq Names \cup {NoFile}

Init ==
  /\ buffer_init
  /\ mutex = NoThread
  /\ pc = [t \in Threads |-> IF t = Main THEN "join_manager" ELSE "start"]
  /\ sig = [t \in Threads |-> "none"]
  /\ done = FALSE /\ interrupted = FALSE /\ aborted = FALSE
  /\ cur = Root /\ unread = Names \ {Root} /\ mfd = NoFile /\ after = "barrier"
  /\ fd = [w \in Workers |-> NoFile]
  /\ total_bytes = [w \in Workers |-> 0]
  /\ total_bytes_copied = 0
  /\ num_regular_files = 0 /\ num_fifo_files = 0 /\ num_directories = 0
  /\ dst = [n \in Names |-> 0]
  /\ opened = {} /\ closed = {}
-----------------------------------------------------------------------------
(* A thread runs its own code when it is not inside a signal handler.      *)
At(t, label) == ~aborted /\ pc[t] = label /\ sig[t] = "none"
Go(t, label) == pc' = [pc EXCEPT ![t] = label]

(* pthread_mutex_lock(&buffer->mutex).                                     *)
LockFor(t, from, to) ==
  /\ At(t, from)
  /\ mutex = NoThread
  /\ mutex' = t
  /\ Go(t, to)
  /\ UNCHANGED <<bufferVars, signalVars, walkVars, workVars, statVars, fileVars, aborted>>

Lock(t) ==
  \/ LockFor(t, "add_lock", "add")
  \/ LockFor(t, "setdone_lock", "setdone")
  \/ LockFor(t, "rm_lock", "rm")
  \/ LockFor(t, "total_lock", "total")
  \/ LockFor(t, "destroy_lock", "destroy")

(* A thread leaving pthread_cond_wait queues for the mutex and then        *)
(* re-evaluates the loop condition.                                        *)
Asleep == {t \in Threads : pc[t] \in {"add_wait", "rm_wait"}}
Awake(label) == IF label = "add_wait" THEN "add_lock"
                ELSE IF label = "rm_wait" THEN "rm_lock" ELSE label

(* Mutant: the signal is forgotten.                                        *)
NoSignal(t, label) == Go(t, label)

(* pthread_cond_signal(&not_empty) as t moves on to label.                 *)
SignalNotEmpty(t, label) ==
  LET sleepers == {w \in Workers : pc[w] = "rm_wait"}
  IN  \/ sleepers = {} /\ Go(t, label)
      \/ \E w \in sleepers : pc' = [pc EXCEPT ![t] = label, ![w] = "rm_lock"]

(* pthread_cond_signal(&not_full) as t moves on to label.                  *)
SignalNotFull(t, label) ==
  pc' = [pc EXCEPT ![t] = label, ![Manager] = IF @ = "add_wait" THEN "add_lock" ELSE @]

(* Mutant: only not_full is broadcast.                                     *)
WakeNotFull(t, label) ==
  pc' = [u \in Threads |-> IF u = t THEN label ELSE IF pc[u] = "add_wait" THEN "add_lock" ELSE pc[u]]

(* Both broadcasts of buffer_set_done as t moves on to label.              *)
WakeAll(t, label) == pc' = [u \in Threads |-> IF u = t THEN label ELSE Awake(pc[u])]

(* A spurious return from pthread_cond_wait, which POSIX allows.           *)
SpuriousWake(t) ==
  /\ ~aborted
  /\ t \in Asleep
  /\ Go(t, Awake(pc[t]))
  /\ UNCHANGED <<bufferVars, mutex, signalVars, walkVars, workVars, statVars, fileVars, aborted>>

(* create_directory_if_not_exists when mkdir fails: exit(EXIT_FAILURE).    *)
AbortMkdir ==
  /\ "mkdir" \in Faults
  /\ aborted' = TRUE
  /\ UNCHANGED <<bufferVars, mutex, pc, signalVars, walkVars, workVars, statVars, fileVars>>
-----------------------------------------------------------------------------
(* The manager.                                                            *)

CallSetDone(returnTo) ==
  /\ Go(Manager, "setdone_lock")
  /\ after' = returnTo

(* Back in the caller of copy_file or of the outermost process_directory.  *)
AfterCopyFile(e) ==
  IF e = Root THEN CallSetDone("barrier") ELSE Go(Manager, "readdir") /\ UNCHANGED after

(* copy_file: a FIFO is recreated, a regular file is opened and its pair   *)
(* taken to buffer_add.                                                    *)
MakeFifo(e) ==
  /\ "fifo" \in Kind[e]
  /\ \/ num_fifo_files' = num_fifo_files + 1
     \/ "mkfifo" \in Faults /\ UNCHANGED num_fifo_files
  /\ AfterCopyFile(e)
  /\ UNCHANGED <<num_regular_files, num_directories, total_bytes_copied, cur, mfd, opened>>

OpenFile(e) ==
  /\ "reg" \in Kind[e]
  /\ \/ /\ mfd' = e
        /\ opened' = opened \cup {e}
        /\ Go(Manager, "add_lock")
        /\ UNCHANGED after
     \/ /\ "open" \in Faults
        /\ AfterCopyFile(e)
        /\ UNCHANGED <<mfd, opened>>
  /\ UNCHANGED <<statVars, cur>>

copy_file(e) == MakeFifo(e) \/ OpenFile(e)

(* process_directory up to its loop: opendir may fail, and then the        *)
(* manager marks the buffer done whatever the depth it is at.              *)
EnterDirectory(d) ==
  \/ /\ cur' = d
     /\ Go(Manager, "readdir")
     /\ UNCHANGED <<after, num_directories>>
  \/ /\ "opendir" \in Faults
     /\ CallSetDone(IF d = Root THEN "setdone_lock" ELSE "readdir")
     /\ num_directories' = IF d = Root THEN num_directories ELSE num_directories + 1
     /\ UNCHANGED cur

ManagerStart ==
  /\ At(Manager, "start")
  /\ \/ /\ "dir" \in Kind[Root]
        /\ EnterDirectory(Root)
        /\ UNCHANGED <<mfd, total_bytes_copied, num_regular_files, num_fifo_files, opened>>
     \/ copy_file(Root)
     \/ /\ Kind[Root] \cap {"missing", "other"} # {}
        /\ CallSetDone("exited")
        /\ UNCHANGED <<cur, mfd, statVars, opened>>
  /\ UNCHANGED <<bufferVars, mutex, signalVars, unread, workVars, dst, closed, aborted>>

(* One turn of process_directory's loop.                                   *)
ReadEntry ==
  /\ At(Manager, "readdir")
  /\ ~done
  /\ \E e \in unread :
       /\ Parent[e] = cur
       /\ unread' = unread \ {e}
       /\ \/ /\ "dir" \in Kind[e]
             /\ EnterDirectory(e)
             /\ UNCHANGED <<mfd, total_bytes_copied, num_regular_files, num_fifo_files, opened>>
          \/ copy_file(e)
          \/ /\ Kind[e] \cap {"other", "missing"} # {} \/ "lstat" \in Faults
             /\ UNCHANGED <<pc, cur, mfd, after, statVars, opened>>
  /\ UNCHANGED <<bufferVars, mutex, signalVars, workVars, dst, closed, aborted>>

(* mkdir fails for the root's or a subdirectory's copy.                    *)
ManagerAborts ==
  /\ \/ At(Manager, "start") /\ "dir" \in Kind[Root]
     \/ At(Manager, "readdir") /\ ~done /\ \E e \in unread : Parent[e] = cur /\ "dir" \in Kind[e]
  /\ AbortMkdir

(* The loop ends: the directory is exhausted or SIGINT has set done.       *)
LeaveDirectory ==
  /\ At(Manager, "readdir")
  /\ done \/ \A e \in unread : Parent[e] # cur
  /\ IF cur = Root
       THEN CallSetDone("barrier") /\ UNCHANGED <<cur, num_directories>>
       ELSE /\ cur' = Parent[cur]
            /\ num_directories' = num_directories + 1
            /\ UNCHANGED <<pc, after>>
  /\ UNCHANGED <<bufferVars, mutex, signalVars, unread, mfd, workVars, total_bytes_copied,
                 num_regular_files, num_fifo_files, fileVars, aborted>>

(* buffer_add with the mutex held.  Its three outcomes: sleep, give the    *)
(* pair up because of done, or store it; copy_file then counts the file.   *)
AddSleep ==
  /\ At(Manager, "add")
  /\ IsFull /\ ~done
  /\ mutex' = NoThread
  /\ Go(Manager, "add_wait")
  /\ UNCHANGED <<bufferVars, signalVars, walkVars, workVars, statVars, fileVars, aborted>>

AddReturns ==
  /\ mutex' = NoThread
  /\ mfd' = NoFile
  /\ after' = IF mfd = Root THEN "barrier" ELSE after
  /\ num_regular_files' = num_regular_files + 1
  /\ UNCHANGED <<signalVars, cur, unread, workVars, total_bytes_copied, num_fifo_files,
                 num_directories, fileVars, aborted>>

ReturnLabel == IF mfd = Root THEN "setdone_lock" ELSE "readdir"

(* Mutant: buffer_add returns without unlocking.                           *)
AddDroppedLocked ==
  /\ At(Manager, "add")
  /\ done
  /\ Go(Manager, ReturnLabel)
  /\ mfd' = NoFile
  /\ after' = IF mfd = Root THEN "barrier" ELSE after
  /\ num_regular_files' = num_regular_files + 1
  /\ UNCHANGED <<bufferVars, mutex, signalVars, cur, unread, workVars, total_bytes_copied,
                 num_fifo_files, num_directories, fileVars, aborted>>

AddDropped ==
  /\ At(Manager, "add")
  /\ done
  /\ Go(Manager, ReturnLabel)
  /\ AddReturns
  /\ UNCHANGED bufferVars

(* Mutant: the full buffer is not waited for.                              *)
AddStoredUnchecked ==
  /\ At(Manager, "add")
  /\ ~done
  /\ Store(mfd)
  /\ SignalNotEmpty(Manager, ReturnLabel)
  /\ AddReturns

AddStored ==
  /\ At(Manager, "add")
  /\ ~done /\ ~IsFull
  /\ Store(mfd)
  /\ SignalNotEmpty(Manager, ReturnLabel)
  /\ AddReturns

(* buffer_set_done called by the manager, and the return to its caller; a  *)
(* failure of the outermost opendir leads to a second call.                *)
ManagerSetDone ==
  /\ At(Manager, "setdone")
  /\ MarkDone
  /\ WakeAll(Manager, after)
  /\ mutex' = NoThread
  /\ after' = IF after = "setdone_lock" THEN "barrier" ELSE after
  /\ UNCHANGED <<signalVars, cur, unread, mfd, workVars, statVars, fileVars, aborted>>
-----------------------------------------------------------------------------
(* The workers.                                                            *)

(* The copy buffer is allocated; without it the thread returns at once.    *)
WorkerStart(w) ==
  /\ At(w, "start")
  /\ Go(w, "loop") \/ ("malloc" \in Faults /\ Go(w, "exited"))
  /\ UNCHANGED <<bufferVars, mutex, signalVars, walkVars, workVars, statVars, fileVars, aborted>>

(* while (!done): read without the mutex.                                  *)
WorkerLoop(w) ==
  /\ At(w, "loop")
  /\ Go(w, IF done THEN "total_lock" ELSE "rm_lock")
  /\ UNCHANGED <<bufferVars, mutex, signalVars, walkVars, workVars, statVars, fileVars, aborted>>

(* buffer_remove with the mutex held: sleep, report the end, or take.      *)
RemoveSleep(w) ==
  /\ At(w, "rm")
  /\ IsEmpty /\ ~bdone /\ ~done
  /\ mutex' = NoThread
  /\ Go(w, "rm_wait")
  /\ UNCHANGED <<bufferVars, signalVars, walkVars, workVars, statVars, fileVars, aborted>>

RemoveEnd(w) ==
  /\ At(w, "rm")
  /\ IsEmpty /\ (bdone \/ done)
  /\ mutex' = NoThread
  /\ Go(w, "total_lock")
  /\ UNCHANGED <<bufferVars, signalVars, walkVars, workVars, statVars, fileVars, aborted>>

(* Mutant: after a wakeup the buffer is not tested again.                  *)
RemoveTakenUnchecked(w) ==
  /\ At(w, "rm")
  /\ TakeOut
  /\ fd' = [fd EXCEPT ![w] = fds[out]]
  /\ SignalNotFull(w, "copy")
  /\ mutex' = NoThread
  /\ UNCHANGED <<signalVars, walkVars, total_bytes, statVars, fileVars, aborted>>

RemoveTaken(w) ==
  /\ At(w, "rm")
  /\ ~IsEmpty
  /\ TakeOut
  /\ fd' = [fd EXCEPT ![w] = fds[out]]
  /\ SignalNotFull(w, "copy")
  /\ mutex' = NoThread
  /\ UNCHANGED <<signalVars, walkVars, total_bytes, statVars, fileVars, aborted>>

(* The read/write loop, one read at a time; a write loop that completes    *)
(* moves the whole chunk.                                                  *)
CopyChunk(w) ==
  /\ At(w, "copy")
  /\ dst[fd[w]] < Chunks[fd[w]]
  /\ dst' = [dst EXCEPT ![fd[w]] = @ + 1]
  /\ total_bytes' = [total_bytes EXCEPT ![w] = @ + 1]
  /\ UNCHANGED <<bufferVars, mutex, pc, signalVars, walkVars, fd, statVars, opened, closed,
                 aborted>>

(* Both descriptors are closed as the worker moves on to label.            *)
CloseAndGo(w, label) ==
  /\ At(w, "copy")
  /\ closed' = closed \cup {fd[w]}
  /\ fd' = [fd EXCEPT ![w] = NoFile]
  /\ Go(w, label)
  /\ UNCHANGED <<bufferVars, mutex, signalVars, walkVars, total_bytes, statVars, dst, opened,
                 aborted>>

(* End of file, or a read error, which is reported and nothing more.       *)
CopyEnds(w) ==
  /\ pc[w] = "copy"
  /\ dst[fd[w]] = Chunks[fd[w]] \/ "read" \in Faults
  /\ CloseAndGo(w, "loop")

(* Mutant: the descriptors stay open on the error path.                    *)
WriteFailsOpen(w) ==
  /\ "write" \in Faults
  /\ At(w, "copy")
  /\ dst[fd[w]] < Chunks[fd[w]]
  /\ fd' = [fd EXCEPT ![w] = NoFile]
  /\ Go(w, "exited")
  /\ UNCHANGED <<bufferVars, mutex, signalVars, walkVars, total_bytes, statVars, fileVars, aborted>>

(* A write error ends the thread where it is: its byte count is not added  *)
(* and the barrier is not reached.                                         *)
WriteFails(w) ==
  /\ "write" \in Faults
  /\ pc[w] = "copy"
  /\ dst[fd[w]] < Chunks[fd[w]]
  /\ CloseAndGo(w, "exited")

(* Mutant: the total is overwritten.                                       *)
SetTotal(w) ==
  /\ At(w, "total")
  /\ total_bytes_copied' = total_bytes[w]
  /\ mutex' = NoThread
  /\ Go(w, "barrier")
  /\ UNCHANGED <<bufferVars, signalVars, walkVars, workVars, num_regular_files,
                 num_fifo_files, num_directories, fileVars, aborted>>

AddTotal(w) ==
  /\ At(w, "total")
  /\ total_bytes_copied' = total_bytes_copied + total_bytes[w]
  /\ mutex' = NoThread
  /\ Go(w, "barrier")
  /\ UNCHANGED <<bufferVars, signalVars, walkVars, workVars, num_regular_files,
                 num_fifo_files, num_directories, fileVars, aborted>>
-----------------------------------------------------------------------------
(* pthread_barrier_wait with count num_workers + 1: the last arrival       *)
(* releases everybody.                                                     *)
AtBarrier == {t \in Threads : pc[t] = "at_barrier"}

(* Mutant: the barrier counts one thread too few.                          *)
BarrierTooFew(t) ==
  /\ At(t, "barrier")
  /\ IF HasBarrier /\ Cardinality(AtBarrier) < Cardinality(Workers) - 1
       THEN Go(t, "at_barrier")
       ELSE pc' = [u \in Threads |-> IF u \in AtBarrier \cup {t} THEN "exited" ELSE pc[u]]
  /\ UNCHANGED <<bufferVars, mutex, signalVars, walkVars, workVars, statVars, fileVars, aborted>>

BarrierWait(t) ==
  /\ At(t, "barrier")
  /\ IF HasBarrier /\ Cardinality(AtBarrier) < Cardinality(Workers)
       THEN Go(t, "at_barrier")
       ELSE pc' = [u \in Threads |-> IF u \in AtBarrier \cup {t} THEN "exited" ELSE pc[u]]
  /\ UNCHANGED <<bufferVars, mutex, signalVars, walkVars, workVars, statVars, fileVars, aborted>>
-----------------------------------------------------------------------------
(* Main after it has created the threads.                                  *)

JoinManager ==
  /\ At(Main, "join_manager")
  /\ pc[Manager] = "exited"
  /\ Go(Main, "join_workers")
  /\ UNCHANGED <<bufferVars, mutex, signalVars, walkVars, workVars, statVars, fileVars, aborted>>

JoinWorkers ==
  /\ At(Main, "join_workers")
  /\ \A w \in Workers : pc[w] = "exited"
  /\ Go(Main, "destroy_lock")
  /\ UNCHANGED <<bufferVars, mutex, signalVars, walkVars, workVars, statVars, fileVars, aborted>>

(* buffer_destroy closes what is left in the ring; main then prints the    *)
(* statistics and the program ends.                                        *)
buffer_destroy ==
  /\ At(Main, "destroy")
  /\ closed' = closed \cup Queued
  /\ mutex' = NoThread
  /\ Go(Main, "exited")
  /\ UNCHANGED <<bufferVars, signalVars, walkVars, workVars, statVars, dst, opened, aborted>>
-----------------------------------------------------------------------------
(* SIGINT, once, delivered to t between two of its steps or while it waits.*)
handle_signal(t) ==
  /\ ~aborted /\ ~interrupted
  /\ t \in SignalThreads
  /\ pc[t] # "exited" /\ pc[Main] # "exited"
  /\ interrupted' = TRUE
  /\ done' = TRUE
  /\ sig' = [sig EXCEPT ![t] = "lock"]
  /\ UNCHANGED <<bufferVars, mutex, pc, walkVars, workVars, statVars, fileVars, aborted>>

(* The handler's buffer_set_done takes the mutex, which its own thread may *)
(* be holding.                                                             *)
HandlerLock(t) ==
  /\ ~aborted
  /\ sig[t] = "lock"
  /\ mutex = NoThread
  /\ mutex' = t
  /\ sig' = [sig EXCEPT ![t] = "hold"]
  /\ UNCHANGED <<bufferVars, pc, done, interrupted, walkVars, workVars, statVars, fileVars,
                 aborted>>

HandlerSetDone(t) ==
  /\ ~aborted
  /\ sig[t] = "hold"
  /\ MarkDone
  /\ WakeAll(t, Awake(pc[t]))
  /\ mutex' = NoThread
  /\ sig' = [sig EXCEPT ![t] = "none"]
  /\ UNCHANGED <<done, interrupted, walkVars, workVars, statVars, fileVars, aborted>>
-----------------------------------------------------------------------------
ManagerStep == \/ ManagerStart \/ ReadEntry \/ LeaveDirectory
               \/ AddSleep \/ AddDropped \/ AddStored \/ ManagerSetDone
WorkerStep(w) == \/ WorkerStart(w) \/ WorkerLoop(w)
                 \/ RemoveSleep(w) \/ RemoveEnd(w) \/ RemoveTaken(w)
                 \/ CopyChunk(w) \/ CopyEnds(w) \/ WriteFails(w) \/ AddTotal(w)
MainStep == JoinManager \/ JoinWorkers \/ buffer_destroy

(* The process has ended.                                                  *)
Ended == pc[Main] = "exited" \/ aborted
Stays == Ended /\ UNCHANGED vars

Next ==
  \/ ManagerStep \/ ManagerAborts \/ MainStep
  \/ \E w \in Workers : WorkerStep(w)
  \/ \E t \in Threads : \/ Lock(t) \/ SpuriousWake(t) \/ BarrierWait(t)
                        \/ handle_signal(t) \/ HandlerLock(t) \/ HandlerSetDone(t)
  \/ Stays

Spec == Init /\ [][Next]_vars

(* Every thread that can run is scheduled, and a thread that keeps asking  *)
(* for a mutex which keeps being released gets it.  Nothing is assumed of  *)
(* the failures, the signal and the spurious wakeups.                      *)
ThreadStep(t) ==
  \/ t = Manager /\ ManagerStep
  \/ t = Main /\ MainStep
  \/ t \in Workers /\ WorkerStep(t)
  \/ Lock(t) \/ BarrierWait(t) \/ HandlerLock(t) \/ HandlerSetDone(t)
Fairness == \A t \in Threads : SF_vars(ThreadStep(t))

FairSpec == Spec /\ Fairness
-----------------------------------------------------------------------------
(***************************************************************************)
(* Properties                                                              *)
(***************************************************************************)

(* Custody.  Until buffer_destroy, an open pair is in at most one place:   *)
(* the manager's hand, one live slot of the ring, or one worker; and no    *)
(* pair in any of these places has been closed.  (buffer_add and           *)
(* buffer_remove hand pairs over by value, so nothing but the protocol     *)
(* prevents two owners.)                                                   *)
OpenPairs == opened \ closed
SlotsDistinct == \A i, j \in Slots : Live(i) /\ Live(j) /\ fds[i] = fds[j] => i = j
SlotsOpen == \A i \in Slots : Live(i) => fds[i] \in OpenPairs
WorkerPairs ==
  \A w \in Workers :
    /\ pc[w] = "copy" <=> fd[w] # NoFile
    /\ fd[w] # NoFile => /\ fd[w] \in OpenPairs
                         /\ \A v \in Workers : v # w => fd[v] # fd[w]
                         /\ \A i \in Slots : Live(i) => fds[i] # fd[w]
ManagerPair ==
  /\ pc[Manager] \in {"add_lock", "add", "add_wait"} <=> mfd # NoFile
  /\ mfd # NoFile => /\ mfd \in OpenPairs
                     /\ \A w \in Workers : fd[w] # mfd
                     /\ \A i \in Slots : Live(i) => fds[i] # mfd
Custody == pc[Main] # "exited" => SlotsDistinct /\ SlotsOpen /\ WorkerPairs /\ ManagerPair

(* MutexOwner.  The mutex field names exactly the thread that is inside a  *)
(* critical section, its own or its signal handler's.                      *)
Inside(t) == sig[t] = "hold" \/ pc[t] \in Holding
MutexOwner == \A t \in Threads : Inside(t) <=> mutex = t

(* NoMissedWakeup.  The manager never sleeps on not_full while there is    *)
(* room, and no worker sleeps on not_empty once buffer->done is set: the   *)
(* signal and the broadcasts are never lost between test and sleep.        *)
NoMissedWakeup ==
  /\ pc[Manager] = "add_wait" => IsFull
  /\ bdone => \A w \in Workers : pc[w] # "rm_wait"

(* LeakAtMostOne.  When the program ends, every pair opened was closed,    *)
(* except that an interrupted run may leave the one pair that buffer_add   *)
(* refused because of done.                                                *)
LeakAtMostOne ==
  pc[Main] = "exited" => Cardinality(OpenPairs) <= (IF interrupted THEN 1 ELSE 0)

(* AllCopied.  A program that ends uninterrupted, saying "Files are copy   *)
(* operation completed successfully", has copied every file it opened to   *)
(* the end, once, and its statistics say so.                               *)
AllCopied ==
  pc[Main] = "exited" /\ ~interrupted =>
    /\ \A n \in opened : dst[n] = Chunks[n]
    /\ total_bytes_copied = Sum(dst)
    /\ num_regular_files = Cardinality(opened)

(* TotalsAtBarrier.  Whoever is past the barrier finds total_bytes_copied  *)
(* final: no worker has bytes it has not added.                            *)
TotalsAtBarrier ==
  pc[Manager] = "exited" => total_bytes_copied = Sum(total_bytes)

(* ImplementsQueue.  The ring with its two indices is a bounded FIFO queue *)
(* through which each regular file passes at most once.                    *)
RegularFiles == {n \in Names : "reg" \in Kind[n]}
NotOffered == unread \cup {mfd} \cup (IF pc[Manager] = "start" THEN {Root} ELSE {})
RingQueue == IF pc[Main] = "exited" THEN <<>>
             ELSE [i \in 1 .. count |-> fds[(out + i - 1) % Size]]
FQ == INSTANCE FileQueue WITH
        Files <- RegularFiles, Capacity <- Size,
        fresh <- RegularFiles \cap NotOffered,
        queue <- RingQueue,
        held <- {fd[w] : w \in {v \in Workers : fd[v] # NoFile}}
ImplementsQueue == FQ!Spec

(* Terminates.  Main gets past its joins ("Wait for all workers to         *)
(* finish") and the program ends, interrupted or not, but for two cases: a *)
(* handler waits for the mutex of the very thread it interrupted; or some  *)
(* thread has returned early, and all who are left, which every one of     *)
(* them comes to, are at the barrier that counts on it, or the manager     *)
(* alone is left before a full ring.                                       *)
SelfLocked == \E t \in Threads : sig[t] = "lock" /\ mutex = t
Stranded ==
  LET parties == Workers \cup {Manager}
      waiting == {t \in parties : pc[t] # "exited"}
  IN /\ waiting # {} /\ waiting # parties
     /\ \/ waiting \subseteq AtBarrier
        \/ waiting = {Manager} /\ pc[Manager] = "add_wait"
Terminates == <>(Ended \/ SelfLocked \/ Stranded)

(* SigintStops.  After Ctrl-C ("Copying stopped.") the manager and every   *)
(* worker return, unless a failing mkdir ends the process first.           *)
SigintStops == interrupted ~> aborted \/ \A t \in Workers \cup {Manager} : pc[t] = "exited"
=============================================================================
