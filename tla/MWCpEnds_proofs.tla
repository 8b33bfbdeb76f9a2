--------------------------- MODULE MWCpEnds_proofs ----------------------------
(***************************************************************************)
(* Proofs about what a run of MWCp has done by the time it ends, and that  *)
(* its ring is a bounded first-in first-out queue, for every number of     *)
(* workers, buffer size and tree.                                          *)
(***************************************************************************)
EXTENDS MWCp_proofs, FiniteSetTheorems, SequenceTheorems, WellFoundedInduction

USE DEF Threads, ManagerPc, WorkerPc, MainPc
-----------------------------------------------------------------------------
(***************************************************************************)
(* Sums.  Sum adds the values of a function up in the order of a CHOOSE;   *)
(* over a finite domain the recursion behind it has a solution, and        *)
(* changing one value changes the sum by the difference.  Each proof takes *)
(* a smallest set for which the fact fails.                                *)
(***************************************************************************)
Smallest(s, B) == s \in B /\ \A t \in B : ~(t \subseteq s /\ t # s)

LEMMA SmallestExists ==
  ASSUME NEW D, IsFiniteSet(D), NEW B \in SUBSET (SUBSET D), B # {}
  PROVE  \E s \in B : Smallest(s, B)
<1>1. B \subseteq FiniteSubsetsOf(D)
  <2>1. \A s \in SUBSET D : IsFiniteSet(s)
    BY FS_Subset
  <2> QED BY <2>1 DEF FiniteSubsetsOf
<1>2. PICK s \in B : \A t \in B : ~(<<t, s>> \in StrictSubsetOrdering(D))
  BY <1>1, FS_StrictSubsetOrderingWellFounded, WFMin
<1> QED BY <1>2 DEF Smallest, StrictSubsetOrdering

Pick(s) == CHOOSE x \in s : TRUE
Without(s) == s \ {Pick(s)}

(* g adds up the values of f over every subset of S.                       *)
AddsUp(f, S, g) ==
  g = [s \in SUBSET S |-> IF s = {} THEN 0 ELSE f[Pick(s)] + g[Without(s)]]

LEMMA PickIn == ASSUME NEW s, s # {} PROVE Pick(s) \in s /\ Without(s) \subseteq s /\ Without(s) # s
BY DEF Pick, Without

LEMMA AddsUpValue ==
  ASSUME NEW f, NEW S, NEW g, AddsUp(f, S, g), NEW s \in SUBSET S
  PROVE  g[s] = IF s = {} THEN 0 ELSE f[Pick(s)] + g[Without(s)]
<1> DEFINE h == [r \in SUBSET S |-> IF r = {} THEN 0 ELSE f[Pick(r)] + g[Without(r)]]
<1>1. g = h
  BY DEF AddsUp
<1>2. h[s] = IF s = {} THEN 0 ELSE f[Pick(s)] + g[Without(s)]
  OBVIOUS
<1> HIDE DEF h
<1> QED BY <1>1, <1>2

LEMMA AddsUpOnce ==
  ASSUME NEW f, NEW S, IsFiniteSet(S), NEW T, NEW g, NEW h, AddsUp(f, S, g), AddsUp(f, T, h),
         NEW r \in SUBSET (S \cap T)
  PROVE  g[r] = h[r]
<1> DEFINE B == {s \in SUBSET (S \cap T) : g[s] # h[s]}
<1>1. SUFFICES ASSUME B # {} PROVE FALSE
  OBVIOUS
<1>2. PICK s \in B : Smallest(s, B)
  <2>1. B \in SUBSET (SUBSET S)
    OBVIOUS
  <2> QED BY <1>1, <2>1, SmallestExists
<1>3. s \in SUBSET S /\ s \in SUBSET T /\ g[s] # h[s]
  OBVIOUS
<1>4. /\ g[s] = IF s = {} THEN 0 ELSE f[Pick(s)] + g[Without(s)]
      /\ h[s] = IF s = {} THEN 0 ELSE f[Pick(s)] + h[Without(s)]
  BY <1>3, AddsUpValue
<1>5. s # {}
  BY <1>3, <1>4
<1>6. Without(s) \in SUBSET (S \cap T) /\ Without(s) \notin B
  BY <1>2, <1>3, <1>5, PickIn DEF Smallest
<1> QED BY <1>3, <1>4, <1>5, <1>6

LEMMA AddsUpExists ==
  ASSUME NEW f, NEW D, IsFiniteSet(D)
  PROVE  \E g : AddsUp(f, D, g)
<1> DEFINE B == {S \in SUBSET D : ~ \E g : AddsUp(f, S, g)}
<1>1. SUFFICES ASSUME B # {} PROVE FALSE
  OBVIOUS
<1>2. PICK S \in B : Smallest(S, B)
  BY <1>1, SmallestExists
<1>3. S \in SUBSET D /\ \A g : ~AddsUp(f, S, g)
  OBVIOUS
<1> DEFINE G(s) == CHOOSE g : AddsUp(f, s, g)
<1>4. ASSUME NEW s \in SUBSET S, s # S PROVE AddsUp(f, s, G(s))
  <2>1. s \in SUBSET D /\ s \notin B
    BY <1>2, <1>3, <1>4 DEF Smallest
  <2>2. \E g : AddsUp(f, s, g)
    BY <2>1
  <2> QED BY <2>2
<1> DEFINE V(s) == IF s = {} THEN 0 ELSE f[Pick(s)] + G(Without(s))[Without(s)]
           g == [s \in SUBSET S |-> V(s)]
<1>5. ASSUME NEW s \in SUBSET S, s # S PROVE G(s)[s] = V(s)
  <2>1. AddsUp(f, s, G(s))
    BY <1>4, <1>5
  <2>2. CASE s = {}
    <3>1. G(s)[s] = 0
      BY <2>1, <2>2, AddsUpValue
    <3> QED BY <2>2, <3>1
  <2>3. CASE s # {}
    <3>1. Without(s) \in SUBSET S /\ Without(s) # S /\ Without(s) \in SUBSET s
      BY <2>3, <1>5, PickIn
    <3>2. AddsUp(f, Without(s), G(Without(s)))
      BY <1>4, <3>1
    <3>3. IsFiniteSet(s)
      BY <1>3, FS_Subset
    <3> HIDE DEF G
    <3>4. G(s)[Without(s)] = G(Without(s))[Without(s)]
      BY <2>1, <3>1, <3>2, <3>3, AddsUpOnce
    <3>5. G(s)[s] = f[Pick(s)] + G(s)[Without(s)]
      BY <2>1, <2>3, AddsUpValue
    <3> QED BY <2>3, <3>4, <3>5
  <2> QED BY <2>2, <2>3
<1> HIDE DEF G
<1>6. ASSUME NEW s \in SUBSET S, s # {} PROVE V(s) = f[Pick(s)] + g[Without(s)]
  <2>1. Without(s) \in SUBSET S /\ Without(s) # S
    BY <1>6, PickIn
  <2>2. g[Without(s)] = V(Without(s))
    BY <2>1
  <2>3. G(Without(s))[Without(s)] = V(Without(s))
    BY <1>5, <2>1
  <2> QED BY <1>6, <2>2, <2>3
<1>7. g = [s \in SUBSET S |-> IF s = {} THEN 0 ELSE f[Pick(s)] + g[Without(s)]]
  <2> DEFINE h == [s \in SUBSET S |-> IF s = {} THEN 0 ELSE f[Pick(s)] + g[Without(s)]]
  <2>1. \A s \in SUBSET S : V(s) = IF s = {} THEN 0 ELSE f[Pick(s)] + g[Without(s)]
    BY <1>6
  <2> HIDE DEF V
  <2> QED BY <2>1
<1> HIDE DEF g
<1>8. AddsUp(f, S, g)
  BY <1>7 DEF AddsUp
<1> QED BY <1>3, <1>8

Tally(f) == CHOOSE g : AddsUp(f, DOMAIN f, g)

LEMMA SumIsTally == \A f : Sum(f) = Tally(f)[DOMAIN f]
BY DEF Sum, FoldFunction, FoldFunctionOnSet, MapThenFoldSet, Tally, AddsUp, Pick, Without

LEMMA TallyAddsUp == ASSUME NEW f, IsFiniteSet(DOMAIN f) PROVE AddsUp(f, DOMAIN f, Tally(f))
BY AddsUpExists DEF Tally

LEMMA TallyType ==
  ASSUME NEW D, IsFiniteSet(D), NEW f \in [D -> Nat], NEW r \in SUBSET D
  PROVE  Tally(f)[r] \in Nat
<1> DEFINE B == {s \in SUBSET D : Tally(f)[s] \notin Nat}
<1>1. SUFFICES ASSUME B # {} PROVE FALSE
  OBVIOUS
<1>2. PICK s \in B : Smallest(s, B)
  BY <1>1, SmallestExists
<1>3. Tally(f)[s] = IF s = {} THEN 0 ELSE f[Pick(s)] + Tally(f)[Without(s)]
  BY TallyAddsUp, AddsUpValue
<1>4. CASE s # {}
  <2>1. Pick(s) \in D /\ Without(s) \in SUBSET D /\ Without(s) \notin B
    BY <1>2, <1>4, PickIn DEF Smallest
  <2>2. f[Pick(s)] \in Nat /\ Tally(f)[Without(s)] \in Nat
    BY <2>1
  <2> QED BY <1>3, <1>4, <2>2
<1> QED BY <1>3, <1>4

LEMMA SumType == ASSUME NEW D, IsFiniteSet(D), NEW f \in [D -> Nat] PROVE Sum(f) \in Nat
BY SumIsTally, TallyType

LEMMA SumZero ==
  ASSUME NEW D, IsFiniteSet(D), NEW f \in [D -> Nat], \A x \in D : f[x] = 0
  PROVE  Sum(f) = 0
<1> DEFINE B == {s \in SUBSET D : Tally(f)[s] # 0}
<1>1. SUFFICES ASSUME B # {} PROVE FALSE
  BY SumIsTally
<1>2. PICK s \in B : Smallest(s, B)
  BY <1>1, SmallestExists
<1>3. Tally(f)[s] = IF s = {} THEN 0 ELSE f[Pick(s)] + Tally(f)[Without(s)]
  BY TallyAddsUp, AddsUpValue
<1>4. CASE s # {}
  <2>1. Pick(s) \in D /\ Without(s) \in SUBSET D /\ Without(s) \notin B
    BY <1>2, <1>4, PickIn DEF Smallest
  <2>2. f[Pick(s)] = 0 /\ Tally(f)[Without(s)] = 0
    BY <2>1
  <2> QED BY <1>3, <1>4, <2>2
<1> QED BY <1>3, <1>4

LEMMA SumChanges ==
  ASSUME NEW D, IsFiniteSet(D), NEW f \in [D -> Nat], NEW h \in [D -> Nat], NEW x \in D,
         \A y \in D : y # x => h[y] = f[y]
  PROVE  Sum(h) = Sum(f) - f[x] + h[x]
<1> DEFINE v == h[x]
           Right(s) == Tally(h)[s] = IF x \in s THEN Tally(f)[s] - f[x] + v ELSE Tally(f)[s]
           B == {s \in SUBSET D : ~Right(s)}
<1>0. /\ h \in [D -> Nat] /\ h[x] = v /\ \A y \in D : y # x => h[y] = f[y]
      /\ f[x] \in Nat /\ v \in Nat
  OBVIOUS
<1> HIDE DEF v
<1>1. SUFFICES ASSUME B # {} PROVE FALSE
  <2>1. D \in SUBSET D /\ DOMAIN h = D /\ DOMAIN f = D
    BY <1>0
  <2>2. ASSUME Right(D) PROVE Sum(h) = Sum(f) - f[x] + v
    BY <2>1, <2>2, SumIsTally
  <2> QED BY <2>1, <2>2 DEF v
<1>2. PICK s \in B : Smallest(s, B)
  BY <1>1, SmallestExists
<1>3. /\ Tally(f)[s] = IF s = {} THEN 0 ELSE f[Pick(s)] + Tally(f)[Without(s)]
      /\ Tally(h)[s] = IF s = {} THEN 0 ELSE h[Pick(s)] + Tally(h)[Without(s)]
  <2>1. DOMAIN f = D /\ DOMAIN h = D
    BY <1>0
  <2> QED BY <2>1, TallyAddsUp, AddsUpValue
<1>4. s # {}
  BY <1>3
<1>5. Pick(s) \in s /\ s \in SUBSET D /\ Without(s) \in SUBSET D /\ Without(s) \notin B
  BY <1>2, <1>4, PickIn DEF Smallest
<1>6. Right(Without(s))
  BY <1>5
<1>7. Tally(f)[Without(s)] \in Nat /\ f[Pick(s)] \in Nat
  BY <1>5, TallyType
<1>8. x \in Without(s) <=> x \in s /\ x # Pick(s)
  BY DEF Without
<1>9. Right(s)
  <2>1. CASE x = Pick(s)
    BY <1>0, <1>3, <1>4, <1>5, <1>6, <1>7, <1>8, <2>1
  <2>2. CASE x # Pick(s)
    BY <1>0, <1>3, <1>4, <1>5, <1>6, <1>7, <1>8, <2>2
  <2> QED BY <2>1, <2>2
<1> QED BY <1>9
-----------------------------------------------------------------------------
(***************************************************************************)
(* The end of main.  Threads do not come back, and main gets past its      *)
(* joins only when those it waits for have returned.                       *)
(***************************************************************************)
JoinInv ==
  /\ pc[Main] # "join_manager" => pc[Manager] = "exited"
  /\ pc[Main] \in {"destroy_lock", "destroy", "exited"} => \A w \in Workers : pc[w] = "exited"

ThreadsMove ==
  /\ \A t \in Threads : pc[t] = "exited" => pc'[t] = "exited"
  /\ \/ pc'[Main] = pc[Main]
     \/ JoinManager \/ JoinWorkers \/ buffer_destroy
     \/ pc[Main] = "destroy_lock" /\ pc'[Main] = "destroy"
  /\ done => done'
  /\ done' => done \/ interrupted'
  /\ interrupted => interrupted'

LEMMA StepMovesThreads == TypeOK /\ [Next]_vars => ThreadsMove
<1> SUFFICES ASSUME TypeOK, [Next]_vars PROVE ThreadsMove
  OBVIOUS
<1> USE ThreadAssumption DEF TypeOK
<1>1. CASE ManagerStart \/ ReadEntry \/ LeaveDirectory
  <2>1. /\ UNCHANGED signalVars
        /\ pc[Manager] # "exited"
        /\ \/ pc' = pc
           \/ \E l \in {"readdir", "add_lock", "setdone_lock"} : pc' = [pc EXCEPT ![Manager] = l]
    BY <1>1 DEF ManagerStart, ReadEntry, LeaveDirectory, EnterDirectory, copy_file, MakeFifo, OpenFile,
       AfterCopyFile, CallSetDone, Go, At, signalVars
  <2> QED BY <2>1 DEF ThreadsMove, signalVars
<1>2. CASE AddSleep \/ AddDropped \/ ManagerAborts \/ Stays \/ UNCHANGED vars
  BY <1>2 DEF AddSleep, AddDropped, AddReturns, ManagerAborts, AbortMkdir, Stays, vars, Go, At, signalVars,
     ThreadsMove
<1>3. CASE AddStored
  BY <1>3 DEF AddStored, AddReturns, SignalNotEmpty, Go, At, signalVars, ThreadsMove
<1>4. CASE ManagerSetDone
  BY <1>4 DEF ManagerSetDone, WakeAll, Awake, At, signalVars, ThreadsMove
<1>5. CASE MainStep
  BY <1>5 DEF MainStep, JoinManager, JoinWorkers, buffer_destroy, Go, At, signalVars, ThreadsMove
<1>6. ASSUME NEW w \in Workers, WorkerStep(w) PROVE ThreadsMove
  <2>1. /\ UNCHANGED signalVars
        /\ pc[w] # "exited"
        /\ \A t \in Threads : t # w /\ pc'[t] # pc[t] => t = Manager /\ pc[t] = "add_wait"
    BY <1>6 DEF WorkerStep, WorkerStart, WorkerLoop, RemoveSleep, RemoveEnd, RemoveTaken, SignalNotFull,
       CopyChunk, CopyEnds, WriteFails, CloseAndGo, AddTotal, Go, At, signalVars
  <2> QED BY <2>1 DEF ThreadsMove, signalVars
<1>7. ASSUME NEW t \in Threads, Lock(t) \/ SpuriousWake(t) \/ BarrierWait(t) PROVE ThreadsMove
  BY <1>7 DEF Lock, LockFor, SpuriousWake, Asleep, Awake, BarrierWait, AtBarrier, Go, At, signalVars, ThreadsMove
<1>8. ASSUME NEW t \in Threads, handle_signal(t) \/ HandlerLock(t) \/ HandlerSetDone(t) PROVE ThreadsMove
  BY <1>8 DEF handle_signal, HandlerLock, HandlerSetDone, WakeAll, Awake, ThreadsMove
<1> QED
  BY <1>1, <1>2, <1>3, <1>4, <1>5, <1>6, <1>7, <1>8 DEF Next, ManagerStep

LEMMA JoinInvariant == Spec => []JoinInv
<1>1. Init => JoinInv
  BY ThreadAssumption DEF Init, JoinInv
<1>2. TypeOK /\ JoinInv /\ [Next]_vars => JoinInv'
  BY StepMovesThreads, ThreadAssumption
  DEF ThreadsMove, JoinInv, JoinManager, JoinWorkers, buffer_destroy, At, Go, TypeOK
<1> QED
  BY <1>1, <1>2, TypeCorrect, PTL DEF Spec
-----------------------------------------------------------------------------
(***************************************************************************)
(* The leak.  A stray is an open pair that is nowhere: not in the ring and *)
(* in nobody's hands.  Only the buffer_add that finds done set makes one,  *)
(* and after it the manager opens nothing more.                            *)
(***************************************************************************)
Strays == OpenPairs \ (Queued \cup {mfd} \cup {fd[w] : w \in Workers})

StrayInv ==
  /\ \A x, y \in Strays : x = y
  /\ Strays # {} => done /\ ~Adding /\ pc[Manager] # "start"
  /\ done => interrupted
  /\ pc[Main] = "exited" => OpenPairs \subseteq Strays

(* Nothing becomes stray unless buffer_add gives the manager's pair up.    *)
LEMMA NoNewStrays ==
  ASSUME TypeOK, TypeOK', RingShape, Fresh, Held,
         \/ NoPairMoves \/ AddStored \/ buffer_destroy
         \/ \E e \in Names : Opens(e)
         \/ \E w \in Workers : RemoveTaken(w) \/ CopyEnds(w) \/ WriteFails(w)
  PROVE  Strays' \subseteq Strays
<1>1. CASE NoPairMoves
  BY <1>1 DEF NoPairMoves, Strays, Queued, Live, OpenPairs
<1>2. ASSUME NEW e \in Names, Opens(e) PROVE Strays' \subseteq Strays
  <2>1. mfd = NoFile
    BY <1>2 DEF Opens, Held, ManagerPair
  <2>2. NoFile \notin opened
    BY NoFileAssumption DEF TypeOK
  <2>3. Queued' = Queued
    BY <1>2 DEF Opens, Queued, Live
  <2> QED BY <1>2, <2>1, <2>2, <2>3 DEF Opens, Strays, OpenPairs
<1>3. CASE AddStored
  <2>1. /\ BufferTypeOK /\ ~IsFull /\ Store(mfd)
        /\ fd' = fd /\ opened' = opened /\ closed' = closed
    BY <1>3 DEF AddStored, AddReturns, TypeOK, workVars, fileVars
  <2>2. /\ in \in Slots /\ ~Live(in) /\ fds'[in] = mfd
        /\ \A i \in Slots : Live(i)' <=> Live(i) \/ i = in
        /\ \A i \in Slots : i # in => fds'[i] = fds[i]
    BY <2>1, StoreLive
  <2>3. Queued \cup {mfd} \subseteq Queued'
    <3>1. mfd \in Queued'
      BY <2>2 DEF Queued
    <3>2. \A i \in Slots : Live(i) => Live(i)' /\ fds'[i] = fds[i]
      BY <2>2
    <3> QED BY <3>1, <3>2 DEF Queued
  <2> QED BY <2>1, <2>3 DEF Strays, OpenPairs
<1>4. ASSUME NEW w \in Workers, RemoveTaken(w) PROVE Strays' \subseteq Strays
  <2>1. /\ BufferTypeOK /\ ~IsEmpty /\ TakeOut /\ pc[w] = "rm"
        /\ fd' = [fd EXCEPT ![w] = fds[out]]
        /\ mfd' = mfd /\ opened' = opened /\ closed' = closed
    BY <1>4 DEF RemoveTaken, At, TypeOK, walkVars, fileVars
  <2>2. /\ out \in Slots /\ fds' = fds
        /\ \A i \in Slots : Live(i)' <=> Live(i) /\ i # out
    BY <2>1, TakeOutLive
  <2>3. Queued \subseteq Queued' \cup {fds[out]}
    BY <2>2 DEF Queued
  <2>4. fd'[w] = fds[out] /\ \A v \in Workers : v # w => fd'[v] = fd[v]
    BY <2>1 DEF TypeOK
  <2>5. fd[w] = NoFile /\ NoFile \notin opened
    BY <2>1, NoFileAssumption DEF Held, WorkerPairs, TypeOK
  <2> QED BY <2>1, <2>3, <2>4, <2>5 DEF Strays, OpenPairs
<1>5. ASSUME NEW w \in Workers, CopyEnds(w) \/ WriteFails(w) PROVE Strays' \subseteq Strays
  <2>1. /\ closed' = closed \cup {fd[w]} /\ opened' = opened /\ mfd' = mfd
        /\ fd' = [fd EXCEPT ![w] = NoFile]
        /\ Queued' = Queued
    BY <1>5 DEF CopyEnds, WriteFails, CloseAndGo, bufferVars, walkVars, Queued, Live
  <2>2. \A v \in Workers : v # w => fd'[v] = fd[v]
    BY <2>1 DEF TypeOK
  <2> QED BY <2>1, <2>2 DEF Strays, OpenPairs
<1>6. CASE buffer_destroy
  BY <1>6 DEF buffer_destroy, bufferVars, walkVars, workVars, Strays, Queued, Live, OpenPairs
<1> QED
  BY <1>1, <1>2, <1>3, <1>4, <1>5, <1>6

LEMMA StrayInvariant == Spec => []StrayInv
<1>1. Init => StrayInv
  BY ThreadAssumption DEF Init, StrayInv, Strays, OpenPairs
<1>2. TypeOK /\ TypeOK' /\ JoinInv /\ CustodyInv /\ StrayInv /\ [Next]_vars => StrayInv'
  <2> SUFFICES ASSUME TypeOK, TypeOK', JoinInv, CustodyInv, StrayInv, [Next]_vars PROVE StrayInv'
    OBVIOUS
  <2> USE ThreadAssumption
  <2>1. PairMoves /\ ThreadsMove
    BY StepMovesPairs, StepMovesThreads
  <2>2. CASE pc[Main] = "exited"
    <3>1. pc[Manager] = "exited" /\ \A w \in Workers : pc[w] = "exited"
      BY <2>2 DEF JoinInv
    <3>2. NoPairMoves
      BY <2>1, <2>2, <3>1 DEF PairMoves, Opens, AddDropped, AddStored, RemoveTaken, CopyEnds, WriteFails,
         buffer_destroy, At
    <3>3. Strays' = Strays /\ OpenPairs' = OpenPairs
      BY <3>2 DEF NoPairMoves, Strays, Queued, Live, OpenPairs
    <3> QED BY <2>1, <2>2, <3>2, <3>3 DEF StrayInv, NoPairMoves, ThreadsMove
  <2>3. CASE pc[Main] # "exited"
    <3>1. RingShape /\ Fresh /\ Held
      BY <2>3 DEF CustodyInv
    <3>2. done' => interrupted'
      BY <2>1 DEF ThreadsMove, StrayInv
    <3>3. CASE AddDropped
      <4>1. /\ Strays = {} /\ done /\ done' = done
            /\ ~Adding' /\ pc'[Manager] # "start" /\ pc'[Main] # "exited"
        BY <2>3, <3>3 DEF StrayInv, Adding, AddDropped, AddReturns, ReturnLabel, At, Go, signalVars, TypeOK
      <4>2. Strays' \subseteq {mfd}
        BY <3>3, <4>1 DEF AddDropped, AddReturns, bufferVars, workVars, fileVars, Strays, Queued, Live, OpenPairs
      <4> QED BY <3>2, <4>1, <4>2 DEF StrayInv
    <3>4. CASE ~AddDropped
      <4>1. Strays' \subseteq Strays
        BY <2>1, <3>1, <3>4, NoNewStrays DEF PairMoves
      <4>2. Strays' # {} => ~Adding' /\ pc'[Manager] # "start"
        <5> SUFFICES ASSUME Strays' # {} PROVE ~Adding' /\ pc'[Manager] # "start"
          OBVIOUS
        <5>1. done /\ ~Adding /\ pc[Manager] # "start"
          BY <4>1 DEF StrayInv
        <5>2. CASE NoPairMoves
          BY <5>1, <5>2 DEF NoPairMoves
        <5>3. ASSUME NEW w \in Workers, RemoveTaken(w) \/ CopyEnds(w) \/ WriteFails(w)
              PROVE  ~Adding' /\ pc'[Manager] # "start"
          BY <5>1, <5>3 DEF RemoveTaken, SignalNotFull, CopyEnds, WriteFails, CloseAndGo, Go, Adding, TypeOK
        <5>4. CASE buffer_destroy
          BY <5>1, <5>4 DEF buffer_destroy, Go, Adding, TypeOK
        <5> QED
          BY <2>1, <3>4, <5>1, <5>2, <5>3, <5>4 DEF PairMoves, Opens, AddStored, At, Adding
      <4>3. pc'[Main] = "exited" => OpenPairs' \subseteq Strays'
        <5> SUFFICES ASSUME pc'[Main] = "exited" PROVE OpenPairs' \subseteq Strays'
          OBVIOUS
        <5>1. buffer_destroy
          BY <2>1, <2>3 DEF ThreadsMove, JoinManager, JoinWorkers, Go, TypeOK
        <5>2. pc[Main] = "destroy" /\ pc[Manager] = "exited" /\ \A w \in Workers : pc[w] = "exited"
          BY <5>1 DEF buffer_destroy, At, JoinInv
        <5>3. mfd = NoFile /\ \A w \in Workers : fd[w] = NoFile
          BY <3>1, <5>2 DEF Held, WorkerPairs, ManagerPair
        <5>4. NoFile \notin opened
          BY NoFileAssumption DEF TypeOK
        <5> QED
          BY <5>1, <5>3, <5>4 DEF buffer_destroy, bufferVars, walkVars, workVars, Strays, Queued, Live, OpenPairs
      <4> QED BY <2>1, <3>2, <4>1, <4>2, <4>3 DEF StrayInv, ThreadsMove
    <3> QED BY <3>3, <3>4
  <2> QED BY <2>2, <2>3
<1> QED
  BY <1>1, <1>2, TypeCorrect, JoinInvariant, CustodyInvariant, PTL DEF Spec

(* At its end the program has closed every pair it opened, but for one     *)
(* that an interrupted buffer_add refused.                                 *)
THEOREM AtMostOneLeak == Spec => []LeakAtMostOne
<1>1. StrayInv => LeakAtMostOne
  <2> SUFFICES ASSUME StrayInv, pc[Main] = "exited"
               PROVE  Cardinality(OpenPairs) <= (IF interrupted THEN 1 ELSE 0)
    BY DEF LeakAtMostOne
  <2>1. CASE OpenPairs = {}
    <3>1. Cardinality(OpenPairs) = 0
      BY <2>1, FS_EmptySet
    <3> QED BY <3>1
  <2>2. CASE OpenPairs # {}
    <3> PICK x \in OpenPairs : TRUE
      BY <2>2
    <3>1. OpenPairs = {x} /\ interrupted
      BY DEF StrayInv
    <3>2. Cardinality(OpenPairs) = 1
      BY <3>1, FS_Singleton
    <3> QED BY <3>1, <3>2
  <2> QED BY <2>1, <2>2
<1> QED
  BY <1>1, StrayInvariant, PTL
-----------------------------------------------------------------------------
(***************************************************************************)
(* The refinement.  Each step is a stutter of FileQueue or one of its      *)
(* steps: storing puts, buffer_remove takes, closing finishes, a file that *)
(* is skipped or refused is given up, and buffer_destroy discards.         *)
(***************************************************************************)
HeldFiles == {fd[w] : w \in {v \in Workers : fd[v] # NoFile}}
FreshFiles == RegularFiles \cap NotOffered
Line == [i \in 1 .. count |-> fds[(out + i - 1) % Size]]

LEMMA Wraps ==
  ASSUME NEW j \in 0 .. 2 * Size - 1
  PROVE  j % Size = IF j < Size THEN j ELSE j - Size
BY SizeAssumption

RingSeq(f, o, c) == [i \in 1 .. c |-> f[(o + i - 1) % Size]]

LEMMA RingSeqType ==
  ASSUME NEW f \in [Slots -> Names \cup {NoFile}], NEW o \in Slots, NEW c \in 0 .. Size
  PROVE  RingSeq(f, o, c) \in Seq(Names \cup {NoFile}) /\ Len(RingSeq(f, o, c)) = c
<1> USE SizeAssumption DEF Slots
<1>1. \A i \in 1 .. c : (o + i - 1) % Size \in Slots
  OBVIOUS
<1>2. c \in Nat /\ RingSeq(f, o, c) \in [1 .. c -> Names \cup {NoFile}]
  BY <1>1 DEF RingSeq
<1> QED BY <1>2

LEMMA LineSeq ==
  ASSUME BufferTypeOK
  PROVE  Line \in Seq(Names \cup {NoFile}) /\ Len(Line) = count
<1>1. Line = RingSeq(fds, out, count)
  BY DEF Line, RingSeq
<1> QED BY <1>1, RingSeqType DEF BufferTypeOK

LEMMA LineSeqNext ==
  ASSUME BufferTypeOK'
  PROVE  Line' \in Seq(Names \cup {NoFile}) /\ Len(Line') = count'
<1>1. Line' = RingSeq(fds', out', count')
  BY DEF Line, RingSeq
<1> QED BY <1>1, RingSeqType DEF BufferTypeOK

LEMMA StoreAppends ==
  ASSUME BufferTypeOK, BufferTypeOK', RingShape, ~IsFull, NEW f \in Names \cup {NoFile}, Store(f)
  PROVE  Line' = Append(Line, f) /\ Len(Line) < Size
<1> USE SizeAssumption DEF BufferTypeOK, Slots
<1>1. Line \in Seq(Names \cup {NoFile}) /\ Len(Line) = count
  BY LineSeq
<1>2. count < Size /\ count' = count + 1 /\ out' = out /\ fds' = [fds EXCEPT ![in] = f]
  BY DEF IsFull, Store
<1>3. /\ Append(Line, f) \in Seq(Names \cup {NoFile})
      /\ Len(Append(Line, f)) = count + 1
      /\ \A i \in 1 .. count : Append(Line, f)[i] = Line[i]
      /\ Append(Line, f)[count + 1] = f
  BY <1>1, AppendProperties
<1>4. ASSUME NEW i \in 1 .. count + 1
      PROVE  Line'[i] = Append(Line, f)[i]
  <2> DEFINE j == out + i - 1
  <2>1. j \in 0 .. 2 * Size - 1 /\ j = out + i - 1
    BY <1>2
  <2>2. Line'[i] = fds'[j % Size] /\ (i # count + 1 => Line[i] = fds[j % Size])
    BY <1>2 DEF Line
  <2> HIDE DEF j
  <2>3. j % Size = IF j < Size THEN j ELSE j - Size
    BY <2>1, Wraps
  <2>4. CASE i = count + 1
    <3>1. j % Size = in
      BY <2>1, <2>3, <2>4 DEF RingShape
    <3> QED BY <1>2, <1>3, <2>2, <2>4, <3>1
  <2>5. CASE i # count + 1
    <3>1. i \in 1 .. count
      BY <2>5
    <3>2. j % Size # in /\ j % Size \in Slots
      BY <1>2, <2>1, <2>3, <3>1 DEF RingShape
    <3> QED BY <1>2, <1>3, <2>2, <2>5, <3>1, <3>2
  <2> QED BY <2>4, <2>5
<1>5. Line' \in Seq(Names \cup {NoFile}) /\ Len(Line') = count + 1
  BY <1>2, LineSeqNext
<1>6. Line' = Append(Line, f)
  BY <1>3, <1>4, <1>5, SeqEqual
<1> QED BY <1>1, <1>2, <1>6

LEMMA TakeOutTails ==
  ASSUME BufferTypeOK, BufferTypeOK', ~IsEmpty, TakeOut
  PROVE  Line # <<>> /\ Head(Line) = fds[out] /\ Line' = Tail(Line)
<1> USE SizeAssumption DEF BufferTypeOK, Slots
<1>1. Line \in Seq(Names \cup {NoFile}) /\ Len(Line) = count
  BY LineSeq
<1>2. count > 0 /\ count' = count - 1 /\ out' = (out + 1) % Size /\ fds' = fds
  BY DEF IsEmpty, TakeOut, Next1
<1>3. Line # <<>> /\ Head(Line) = Line[1]
  <2>1. Line # <<>>
    BY <1>1, <1>2
  <2> QED BY <1>1, <2>1
<1>4. Line[1] = fds[out]
  <2>1. out + 1 - 1 = out
    OBVIOUS
  <2>2. out % Size = out
    <3>1. out \in 0 .. 2 * Size - 1 /\ out < Size
      OBVIOUS
    <3>2. out % Size = IF out < Size THEN out ELSE out - Size
      BY <3>1, Wraps
    <3> QED BY <3>1, <3>2
  <2>3. Line[1] = fds[(out + 1 - 1) % Size]
    BY <1>2 DEF Line
  <2> QED BY <2>1, <2>2, <2>3
<1>5. /\ Tail(Line) \in Seq(Names \cup {NoFile})
      /\ Len(Tail(Line)) = count - 1
      /\ \A i \in 1 .. count - 1 : Tail(Line)[i] = Line[i + 1]
  BY <1>1, <1>3, HeadTailProperties
<1>6. Line' \in Seq(Names \cup {NoFile}) /\ Len(Line') = count - 1
  BY <1>2, LineSeqNext
<1>7. ASSUME NEW i \in 1 .. count - 1
      PROVE  Line'[i] = Tail(Line)[i]
  <2> DEFINE j == out' + i - 1
             k == out + i
             n == out + 1
  <2>1. /\ j = out' + i - 1 /\ k = out + i /\ n = out + 1
        /\ k \in 0 .. 2 * Size - 1 /\ n \in 0 .. 2 * Size - 1
        /\ out' = n % Size
    BY <1>2
  <2>2. Line'[i] = fds[j % Size]
    BY <1>2 DEF Line
  <2>3. Line[i + 1] = fds[k % Size]
    <3>1. out + (i + 1) - 1 = k
      OBVIOUS
    <3>2. Line[i + 1] = fds[(out + (i + 1) - 1) % Size]
      BY <1>2 DEF Line
    <3> HIDE DEF k
    <3> QED BY <3>1, <3>2
  <2> HIDE DEF j, k, n
  <2>4. out' = IF n < Size THEN n ELSE n - Size
    <3>1. n \in 0 .. 2 * Size - 1
      BY <2>1
    <3>2. n % Size = IF n < Size THEN n ELSE n - Size
      BY <3>1, Wraps
    <3> QED BY <2>1, <3>2
  <2>5. j \in 0 .. 2 * Size - 1
    BY <1>2, <2>1, <2>4
  <2>6. /\ j % Size = IF j < Size THEN j ELSE j - Size
        /\ k % Size = IF k < Size THEN k ELSE k - Size
    BY <2>1, <2>5, Wraps
  <2>7. j % Size = k % Size
    <3>1. CASE n < Size
      <4>1. j = k
        BY <1>2, <2>1, <2>4, <3>1
      <4> QED BY <4>1
    <3>2. CASE ~(n < Size)
      <4>1. k = j + Size /\ j < Size /\ ~(k < Size)
        BY <1>2, <2>1, <2>4, <3>2
      <4> QED BY <1>2, <2>1, <2>5, <2>6, <4>1
    <3> QED BY <3>1, <3>2
  <2> QED BY <1>5, <2>2, <2>3, <2>7
<1>8. Line' = Tail(Line)
  BY <1>5, <1>6, <1>7, SeqEqual
<1> QED BY <1>3, <1>4, <1>8

(* Only regular files are opened.                                          *)
OpenedRegular == opened \subseteq RegularFiles

LEMMA OpenedRegularInvariant == Spec => []OpenedRegular
<1>1. Init => OpenedRegular
  BY DEF Init, OpenedRegular
<1>2. TypeOK /\ OpenedRegular /\ [Next]_vars => OpenedRegular'
  <2> SUFFICES ASSUME TypeOK, OpenedRegular, [Next]_vars PROVE OpenedRegular'
    OBVIOUS
  <2>1. opened' = opened \/ \E e \in RegularFiles : opened' = opened \cup {e}
    BY StepMovesPairs
    DEF PairMoves, NoPairMoves, Opens, AddDropped, AddStored, AddReturns, RemoveTaken, CopyEnds, WriteFails,
        CloseAndGo, buffer_destroy, fileVars, RegularFiles
  <2> QED BY <2>1 DEF OpenedRegular
<1> QED
  BY <1>1, <1>2, TypeCorrect, PTL DEF Spec

QueueState ==
  /\ TypeOK /\ TypeOK' /\ JoinInv /\ CustodyInv /\ OpenedRegular
  /\ PairMoves /\ ThreadsMove

LEMMA RingQueueRunning ==
  ASSUME pc[Main] # "exited" PROVE RingQueue = Line
BY DEF RingQueue, Line

LEMMA RingQueueRunningNext ==
  ASSUME pc'[Main] # "exited" PROVE RingQueue' = Line'
BY DEF RingQueue, Line

(* One case for each line of PairMoves.                                    *)
LEMMA NoPairMovesQueue ==
  ASSUME QueueState, NoPairMoves, ~buffer_destroy
  PROVE  [FQ!Next]_(FQ!queueVars)
<1> USE DEF QueueState, NoPairMoves
<1>1. RingQueue' = RingQueue
  BY ThreadAssumption DEF ThreadsMove, JoinManager, JoinWorkers, Go, At, TypeOK, RingQueue
<1>2. HeldFiles' = HeldFiles
  BY DEF HeldFiles
<1>3. FreshFiles' = FreshFiles \/ \E f \in RegularFiles : f \in FreshFiles /\ FreshFiles' = FreshFiles \ {f}
  <2>1. CASE unread' = unread
    <3>1. CASE (pc'[Manager] = "start") <=> (pc[Manager] = "start")
      BY <2>1, <3>1 DEF FreshFiles, NotOffered
    <3>2. CASE pc'[Manager] # "start" /\ pc[Manager] = "start"
      <4>1. mfd # Root
        BY <3>2, TreeAssumption, ThreadAssumption, NoFileAssumption
        DEF CustodyInv, Held, ManagerPair, JoinInv
      <4>2. Root \notin unread
        BY DEF TypeOK
      <4>3. Root \in NotOffered /\ NotOffered' = NotOffered \ {Root}
        BY <2>1, <3>2, <4>1, <4>2 DEF NotOffered
      <4> QED BY <4>3 DEF FreshFiles
    <3> QED BY <3>1, <3>2
  <2>2. ASSUME pc[Manager] # "start", NEW e \in unread, unread' = unread \ {e}
        PROVE  FreshFiles' = FreshFiles \/ \E f \in RegularFiles : f \in FreshFiles /\ FreshFiles' = FreshFiles \ {f}
    <3>1. pc'[Manager] # "start"
      BY <2>2
    <3>2. CASE mfd = e
      BY <2>2, <3>1, <3>2 DEF FreshFiles, NotOffered
    <3>3. CASE mfd # e
      <4>1. e \in NotOffered /\ NotOffered' = NotOffered \ {e}
        BY <2>2, <3>1, <3>3 DEF NotOffered
      <4> QED BY <4>1 DEF FreshFiles
    <3> QED BY <3>2, <3>3
  <2> QED BY <2>1, <2>2
<1> QED
  BY <1>1, <1>2, <1>3 DEF FQ!Next, FQ!GiveUp, FQ!queueVars, HeldFiles, FreshFiles

LEMMA OpensQueue ==
  ASSUME QueueState, NEW e, Opens(e)
  PROVE  UNCHANGED FQ!queueVars
<1> USE DEF QueueState, Opens
<1>1. pc[Main] # "exited" /\ pc'[Main] = pc[Main]
  BY ThreadAssumption DEF JoinInv, TypeOK
<1>2. RingQueue' = RingQueue
  BY <1>1 DEF RingQueue
<1>3. HeldFiles' = HeldFiles
  BY DEF HeldFiles
<1>4. FreshFiles' = FreshFiles
  <2>1. mfd = NoFile /\ NoFile \notin RegularFiles
    BY <1>1, NoFileAssumption DEF CustodyInv, Held, ManagerPair, RegularFiles
  <2>2. pc'[Manager] = "add_lock"
    BY DEF TypeOK
  <2>3. Root \notin unread
    BY DEF TypeOK
  <2>4. CASE pc[Manager] = "start"
    BY <2>1, <2>2, <2>3, <2>4 DEF FreshFiles, NotOffered
  <2>5. CASE pc[Manager] # "start"
    BY <2>1, <2>2, <2>5 DEF FreshFiles, NotOffered
  <2> QED BY <2>4, <2>5
<1> QED BY <1>2, <1>3, <1>4 DEF FQ!queueVars, HeldFiles, FreshFiles

LEMMA AddQueue ==
  ASSUME QueueState, AddDropped \/ AddStored
  PROVE  FQ!Next
<1> USE ThreadAssumption DEF QueueState
<1>1. /\ pc[Manager] = "add" /\ pc'[Manager] \in {"setdone_lock", "readdir"}
      /\ mfd' = NoFile /\ fd' = fd /\ unread' = unread
  BY DEF AddDropped, AddStored, AddReturns, ReturnLabel, SignalNotEmpty, Go, At, workVars, TypeOK
<1>2. pc[Main] # "exited" /\ pc'[Main] = pc[Main]
  BY <1>1 DEF JoinInv, AddDropped, AddStored, ReturnLabel, SignalNotEmpty, Go, TypeOK
<1>3. mfd # NoFile /\ mfd \in opened /\ mfd \in RegularFiles /\ mfd \notin unread
  BY <1>1, <1>2 DEF CustodyInv, Held, ManagerPair, OpenPairs, Fresh, OpenedRegular
<1>4. mfd \in FreshFiles /\ FreshFiles' = FreshFiles \ {mfd}
  <2>1. NoFile \notin RegularFiles
    BY NoFileAssumption DEF RegularFiles
  <2> QED BY <1>1, <1>3, <2>1 DEF FreshFiles, NotOffered
<1>5. HeldFiles' = HeldFiles
  BY <1>1 DEF HeldFiles
<1>6. CASE AddDropped
  <2>1. RingQueue' = RingQueue
    BY <1>2, <1>6 DEF RingQueue, AddDropped, bufferVars
  <2> QED
    BY <1>3, <1>4, <1>5, <2>1 DEF FQ!Next, FQ!GiveUp, HeldFiles, FreshFiles
<1>7. CASE AddStored
  <2>1. Line' = Append(Line, mfd) /\ Len(Line) < Size
    BY <1>2, <1>7, StoreAppends DEF AddStored, CustodyInv, TypeOK
  <2>2. RingQueue = Line /\ RingQueue' = Line'
    BY <1>2, RingQueueRunning, RingQueueRunningNext
  <2> QED
    BY <1>3, <1>4, <1>5, <2>1, <2>2 DEF FQ!Next, FQ!Put, HeldFiles, FreshFiles
<1> QED BY <1>6, <1>7

LEMMA TakeQueue ==
  ASSUME QueueState, NEW w \in Workers, RemoveTaken(w)
  PROVE  FQ!Take
<1> USE ThreadAssumption DEF QueueState
<1>1. /\ BufferTypeOK /\ ~IsEmpty /\ TakeOut /\ pc[w] = "rm"
      /\ fd' = [fd EXCEPT ![w] = fds[out]]
      /\ mfd' = mfd /\ unread' = unread
      /\ pc'[Manager] = "start" <=> pc[Manager] = "start"
      /\ pc'[Main] = pc[Main]
  BY DEF RemoveTaken, SignalNotFull, At, TypeOK, walkVars
<1>2. pc[Main] # "exited"
  BY <1>1 DEF JoinInv
<1>3. Held /\ RingShape
  BY <1>2 DEF CustodyInv
<1>4. RingQueue # <<>> /\ Head(RingQueue) = fds[out] /\ RingQueue' = Tail(RingQueue)
  <2>1. RingQueue = Line /\ RingQueue' = Line'
    BY <1>1, <1>2, RingQueueRunning, RingQueueRunningNext
  <2> QED BY <1>1, <1>3, <2>1, TakeOutTails DEF TypeOK
<1>5. FreshFiles' = FreshFiles
  BY <1>1 DEF FreshFiles, NotOffered
<1>6. out \in Slots /\ Live(out)
  BY <1>1, <1>3, TakeOutLive
<1>7. fds[out] # NoFile /\ fds[out] \notin HeldFiles
  <2>1. fds[out] # NoFile
    BY <1>3, <1>6, NoFileAssumption DEF Held, SlotsOpen, OpenPairs, TypeOK
  <2> QED BY <1>3, <1>6, <2>1 DEF Held, WorkerPairs, HeldFiles
<1>8. HeldFiles' = HeldFiles \cup {fds[out]}
  <2>1. fd'[w] = fds[out] /\ \A v \in Workers : v # w => fd'[v] = fd[v]
    BY <1>1 DEF TypeOK
  <2>2. fd[w] = NoFile
    BY <1>1, <1>3 DEF Held, WorkerPairs
  <2> QED BY <1>7, <2>1, <2>2 DEF HeldFiles
<1> QED
  BY <1>4, <1>5, <1>7, <1>8 DEF FQ!Take, HeldFiles, FreshFiles

LEMMA FinishQueue ==
  ASSUME QueueState, NEW w \in Workers, CopyEnds(w) \/ WriteFails(w)
  PROVE  FQ!Next
<1> USE ThreadAssumption DEF QueueState
<1>1. /\ pc[w] = "copy"
      /\ fd' = [fd EXCEPT ![w] = NoFile]
      /\ mfd' = mfd /\ unread' = unread /\ UNCHANGED bufferVars
      /\ pc'[Manager] = pc[Manager] /\ pc'[Main] = pc[Main]
  BY DEF CopyEnds, WriteFails, CloseAndGo, Go, At, TypeOK, walkVars
<1>2. pc[Main] # "exited"
  BY <1>1 DEF JoinInv
<1>3. /\ fd[w] # NoFile /\ fd[w] \in RegularFiles
      /\ \A v \in Workers : v # w => fd[v] # fd[w]
  BY <1>1, <1>2 DEF CustodyInv, Held, WorkerPairs, OpenPairs, OpenedRegular
<1>4. RingQueue' = RingQueue /\ FreshFiles' = FreshFiles
  BY <1>1 DEF RingQueue, FreshFiles, NotOffered, bufferVars
<1>5. fd[w] \in HeldFiles /\ HeldFiles' = HeldFiles \ {fd[w]}
  <2>1. fd'[w] = NoFile /\ \A v \in Workers : v # w => fd'[v] = fd[v]
    BY <1>1 DEF TypeOK
  <2> QED BY <1>3, <2>1 DEF HeldFiles
<1> QED
  BY <1>3, <1>4, <1>5 DEF FQ!Next, FQ!Finish, HeldFiles, FreshFiles

LEMMA DestroyQueue ==
  ASSUME QueueState, buffer_destroy
  PROVE  FQ!Discard
<1> USE ThreadAssumption DEF QueueState
<1>1. /\ pc[Main] = "destroy" /\ pc'[Main] = "exited" /\ pc'[Manager] = pc[Manager]
      /\ fd' = fd /\ mfd' = mfd /\ unread' = unread
  BY DEF buffer_destroy, At, Go, TypeOK, walkVars, workVars
<1>2. HeldFiles = {}
  BY <1>1 DEF JoinInv, CustodyInv, Held, WorkerPairs, HeldFiles
<1>3. RingQueue' = <<>> /\ HeldFiles' = HeldFiles /\ FreshFiles' = FreshFiles
  BY <1>1 DEF RingQueue, HeldFiles, FreshFiles, NotOffered
<1> QED BY <1>2, <1>3 DEF FQ!Discard, HeldFiles, FreshFiles

(* The ring with its two indices, the manager's hand and the workers'      *)
(* hands are a bounded first-in first-out queue.                           *)
THEOREM BufferIsQueue == Spec => ImplementsQueue
<1>1. Init => FQ!Init
  <2> SUFFICES ASSUME Init PROVE FQ!Init
    OBVIOUS
  <2>1. FreshFiles = RegularFiles
    BY TreeAssumption, ThreadAssumption DEF Init, FreshFiles, NotOffered, RegularFiles
  <2>2. HeldFiles = {}
    BY DEF Init, HeldFiles
  <2>3. RingQueue = <<>>
    BY ThreadAssumption DEF Init, buffer_init, RingQueue
  <2> QED BY <2>1, <2>2, <2>3 DEF FQ!Init, HeldFiles, FreshFiles
<1>2. TypeOK /\ TypeOK' /\ JoinInv /\ CustodyInv /\ OpenedRegular /\ [Next]_vars => [FQ!Next]_(FQ!queueVars)
  <2> SUFFICES ASSUME TypeOK, TypeOK', JoinInv, CustodyInv, OpenedRegular, [Next]_vars
               PROVE  [FQ!Next]_(FQ!queueVars)
    OBVIOUS
  <2>1. QueueState
    BY StepMovesPairs, StepMovesThreads DEF QueueState
  <2>2. CASE NoPairMoves /\ ~buffer_destroy
    BY <2>1, <2>2, NoPairMovesQueue
  <2>3. CASE \E e \in Names : Opens(e)
    BY <2>1, <2>3, OpensQueue
  <2>4. CASE AddDropped \/ AddStored
    BY <2>1, <2>4, AddQueue
  <2>5. ASSUME NEW w \in Workers, RemoveTaken(w) \/ CopyEnds(w) \/ WriteFails(w)
        PROVE  FQ!Next
    BY <2>1, <2>5, TakeQueue, FinishQueue DEF FQ!Next
  <2>6. CASE buffer_destroy
    BY <2>1, <2>6, DestroyQueue DEF FQ!Next
  <2> QED BY <2>1, <2>2, <2>3, <2>4, <2>5, <2>6 DEF QueueState, PairMoves
<1> QED
  BY <1>1, <1>2, TypeCorrect, JoinInvariant, CustodyInvariant, OpenedRegularInvariant, PTL
  DEF Spec, ImplementsQueue, FQ!Spec
-----------------------------------------------------------------------------
(***************************************************************************)
(* The totals of hw5.  The barrier lets nobody through before all workers  *)
(* and the manager are at it, so as long as no worker has returned the     *)
(* global count is the sum of the counts of those that have added theirs.  *)
(***************************************************************************)
Past == {"barrier", "at_barrier"}
Late == {"total_lock", "total"} \cup Past
Leaving == {"barrier", "at_barrier", "exited"}
SettingDone == {"setdone_lock", "setdone", "exited"}

Counted == [w \in Workers |-> IF pc[w] \in Past THEN total_bytes[w] ELSE 0]
NoneLeft == \A w \in Workers : pc[w] # "exited"
Walked == pc[Manager] = "exited" /\ opened # {}

TotalsInv ==
  /\ opened = {} => total_bytes_copied = 0 /\ \A w \in Workers : total_bytes[w] = 0
  /\ NoneLeft => total_bytes_copied = Sum(Counted)
  /\ Walked => (\A w \in Workers : pc[w] = "exited") /\ total_bytes_copied = Sum(total_bytes)
  /\ after = "exited" => opened = {} /\ pc[Manager] \in SettingDone
  /\ pc[Manager] = "start" => opened = {}

(* t is the last at the barrier.                                           *)
Passes(t) ==
  /\ t \in Threads
  /\ BarrierWait(t)
  /\ pc' # [pc EXCEPT ![t] = "at_barrier"]

LEMMA PassesAll ==
  ASSUME HasBarrier, TypeOK, NEW t, Passes(t)
  PROVE  /\ \A u \in Workers \cup {Manager} : pc[u] \in Past /\ pc'[u] = "exited"
         /\ pc'[Main] = pc[Main]
         /\ UNCHANGED <<bufferVars, signalVars, walkVars, workVars, statVars, fileVars>>
<1> USE ThreadAssumption DEF Passes, TypeOK
<1>1. /\ pc[t] = "barrier"
      /\ ~(Cardinality(AtBarrier) < Cardinality(Workers))
      /\ pc' = [u \in Threads |-> IF u \in AtBarrier \cup {t} THEN "exited" ELSE pc[u]]
      /\ UNCHANGED <<bufferVars, signalVars, walkVars, workVars, statVars, fileVars>>
  BY DEF BarrierWait, At, Go
<1>2. t \in Workers \cup {Manager} /\ t \notin AtBarrier /\ AtBarrier \subseteq Workers \cup {Manager}
  BY <1>1 DEF AtBarrier
<1>3. IsFiniteSet(Workers \cup {Manager}) /\ Cardinality(Workers \cup {Manager}) = Cardinality(Workers) + 1
  BY FS_AddElement
<1>4. IsFiniteSet(AtBarrier) /\ Cardinality(AtBarrier \cup {t}) = Cardinality(AtBarrier) + 1
  <2>1. IsFiniteSet(AtBarrier)
    BY <1>2, <1>3, FS_Subset
  <2> QED BY <1>2, <2>1, FS_AddElement
<1>5. AtBarrier \cup {t} = Workers \cup {Manager}
  <2>1. AtBarrier \cup {t} \subseteq Workers \cup {Manager}
    BY <1>2
  <2>2. Cardinality(AtBarrier) \in Nat /\ Cardinality(Workers) \in Nat
    BY <1>4, FS_CardinalityType
  <2>3. ~(Cardinality(AtBarrier \cup {t}) < Cardinality(Workers \cup {Manager}))
    BY <1>1, <1>3, <1>4, <2>2
  <2>4. Cardinality(AtBarrier \cup {t}) <= Cardinality(Workers \cup {Manager})
    BY <1>3, <2>1, FS_Subset
  <2>5. Cardinality(AtBarrier \cup {t}) = Cardinality(Workers \cup {Manager})
    BY <1>3, <1>4, <2>2, <2>3, <2>4
  <2> QED BY <1>3, <2>1, <2>5, FS_Subset
<1>6. \A u \in AtBarrier \cup {t} : pc[u] \in Past /\ pc'[u] = "exited"
  BY <1>1, <1>2 DEF AtBarrier, Past
<1>7. Main \notin AtBarrier \cup {t}
  BY <1>5
<1> QED BY <1>1, <1>5, <1>6, <1>7

TotalsMove ==
  \/ /\ UNCHANGED <<dst, total_bytes, total_bytes_copied>>
     /\ \A w \in Workers : pc'[w] \in Past <=> pc[w] \in Past
     /\ pc'[Manager] = "exited" => pc[Manager] = "exited" \/ after = "exited"
  \/ \E w \in Workers : CopyChunk(w) \/ AddTotal(w)
  \/ \E t \in Threads : Passes(t)

LEMMA StepMovesTotals == TypeOK /\ [Next]_vars => TotalsMove
<1> SUFFICES ASSUME TypeOK, [Next]_vars PROVE TotalsMove
  OBVIOUS
<1> USE ThreadAssumption DEF TypeOK, Past
<1>1. CASE ManagerStart \/ ReadEntry \/ LeaveDirectory
  <2>1. /\ dst' = dst /\ total_bytes' = total_bytes /\ total_bytes_copied' = total_bytes_copied
        /\ \/ pc' = pc /\ pc[Manager] = "readdir"
           \/ \E l \in {"readdir", "add_lock", "setdone_lock"} : pc' = [pc EXCEPT ![Manager] = l]
    BY <1>1 DEF ManagerStart, ReadEntry, LeaveDirectory, EnterDirectory, copy_file, MakeFifo, OpenFile,
       AfterCopyFile, CallSetDone, Go, At, workVars, statVars, fileVars
  <2> QED BY <2>1 DEF TotalsMove
<1>2. CASE AddSleep \/ AddDropped \/ ManagerAborts \/ Stays \/ UNCHANGED vars
  BY <1>2 DEF AddSleep, AddDropped, AddReturns, ReturnLabel, ManagerAborts, AbortMkdir, Stays, vars, Go, At,
     workVars, statVars, fileVars, TotalsMove
<1>3. CASE AddStored
  BY <1>3 DEF AddStored, AddReturns, ReturnLabel, SignalNotEmpty, Go, At, workVars, fileVars, TotalsMove
<1>4. CASE ManagerSetDone
  BY <1>4 DEF ManagerSetDone, WakeAll, Awake, At, workVars, statVars, fileVars, TotalsMove
<1>5. CASE MainStep
  BY <1>5 DEF MainStep, JoinManager, JoinWorkers, buffer_destroy, Go, At, workVars, statVars, fileVars, TotalsMove
<1>6. ASSUME NEW w \in Workers, WorkerStep(w) PROVE TotalsMove
  <2>1. CASE ~(CopyChunk(w) \/ AddTotal(w))
    BY <1>6, <2>1 DEF WorkerStep, WorkerStart, WorkerLoop, RemoveSleep, RemoveEnd, RemoveTaken, SignalNotFull,
       CopyEnds, WriteFails, CloseAndGo, Go, At, workVars, statVars, fileVars, TotalsMove
  <2> QED BY <2>1 DEF TotalsMove
<1>7. ASSUME NEW t \in Threads, Lock(t) \/ SpuriousWake(t) PROVE TotalsMove
  BY <1>7 DEF Lock, LockFor, SpuriousWake, Asleep, Awake, Go, At, workVars, statVars, fileVars, TotalsMove
<1>8. ASSUME NEW t \in Threads, BarrierWait(t) PROVE TotalsMove
  <2>1. CASE pc' = [pc EXCEPT ![t] = "at_barrier"]
    BY <1>8, <2>1 DEF BarrierWait, At, workVars, statVars, fileVars, TotalsMove
  <2> QED BY <1>8, <2>1 DEF Passes, TotalsMove
<1>9. ASSUME NEW t \in Threads, handle_signal(t) \/ HandlerLock(t) \/ HandlerSetDone(t) PROVE TotalsMove
  BY <1>9 DEF handle_signal, HandlerLock, HandlerSetDone, WakeAll, Awake, workVars, statVars, fileVars, TotalsMove
<1> QED
  BY <1>1, <1>2, <1>3, <1>4, <1>5, <1>6, <1>7, <1>8, <1>9 DEF Next, ManagerStep

(* What the manager counts, and where its buffer_set_done returns to.      *)
ManagerMove ==
  /\ num_regular_files' = num_regular_files \/ AddDropped \/ AddStored
  /\ pc'[Manager] = "start" => pc[Manager] = "start"
  /\ pc[Manager] \in Leaving => pc'[Manager] \in Leaving
  /\ after' = "exited" =>
       \/ after = "exited" /\ (pc[Manager] \in SettingDone => pc'[Manager] \in SettingDone)
       \/ pc[Manager] = "start" /\ pc'[Manager] = "setdone_lock" /\ opened' = opened
  /\ after' \in {after, "barrier", "exited"} \/ "opendir" \in Faults

LEMMA StepMovesManager == TypeOK /\ [Next]_vars => ManagerMove
<1> SUFFICES ASSUME TypeOK, [Next]_vars PROVE ManagerMove
  OBVIOUS
<1> USE ThreadAssumption DEF TypeOK, Leaving, SettingDone
<1>1. CASE ManagerStart
  BY <1>1 DEF ManagerStart, EnterDirectory, copy_file, MakeFifo, OpenFile,
     AfterCopyFile, CallSetDone, Go, At, statVars, ManagerMove
<1>2. CASE ReadEntry
  BY <1>2 DEF ReadEntry, EnterDirectory, copy_file, MakeFifo, OpenFile,
     AfterCopyFile, CallSetDone, Go, At, statVars, ManagerMove
<1>3. CASE LeaveDirectory
  BY <1>3 DEF LeaveDirectory, CallSetDone, Go, At, ManagerMove
<1>4. CASE AddSleep \/ AddDropped \/ ManagerAborts \/ Stays \/ UNCHANGED vars
  BY <1>4 DEF AddSleep, AddDropped, AddReturns, ReturnLabel, ManagerAborts, AbortMkdir, Stays, vars, Go, At,
     walkVars, statVars, ManagerMove
<1>5. CASE AddStored
  BY <1>5 DEF AddStored, AddReturns, ReturnLabel, SignalNotEmpty, Go, At, ManagerMove
<1>6. CASE ManagerSetDone
  BY <1>6 DEF ManagerSetDone, WakeAll, Awake, At, statVars, ManagerMove
<1>7. CASE MainStep
  BY <1>7 DEF MainStep, JoinManager, JoinWorkers, buffer_destroy, Go, At, walkVars, statVars, ManagerMove
<1>8. ASSUME NEW w \in Workers, WorkerStep(w) PROVE ManagerMove
  BY <1>8 DEF WorkerStep, WorkerStart, WorkerLoop, RemoveSleep, RemoveEnd, RemoveTaken, SignalNotFull, CopyChunk,
     CopyEnds, WriteFails, CloseAndGo, AddTotal, Go, At, walkVars, statVars, ManagerMove
<1>9. ASSUME NEW t \in Threads, Lock(t) \/ SpuriousWake(t) \/ BarrierWait(t) PROVE ManagerMove
  BY <1>9 DEF Lock, LockFor, SpuriousWake, Asleep, Awake, BarrierWait, AtBarrier, Go, At, walkVars, statVars,
     ManagerMove
<1>10. ASSUME NEW t \in Threads, handle_signal(t) \/ HandlerLock(t) \/ HandlerSetDone(t) PROVE ManagerMove
  BY <1>10 DEF handle_signal, HandlerLock, HandlerSetDone, WakeAll, Awake, walkVars, statVars, ManagerMove
<1> QED
  BY <1>1, <1>2, <1>3, <1>4, <1>5, <1>6, <1>7, <1>8, <1>9, <1>10 DEF Next, ManagerStep

LEMMA TotalsInvariant == HasBarrier /\ Spec => []TotalsInv
<1> SUFFICES ASSUME HasBarrier PROVE Spec => []TotalsInv
  OBVIOUS
<1> USE ThreadAssumption
<1>1. Init => TotalsInv
  <2> SUFFICES ASSUME Init PROVE TotalsInv
    OBVIOUS
  <2>1. /\ Counted \in [Workers -> Nat] /\ \A w \in Workers : Counted[w] = 0
        /\ total_bytes_copied = 0 /\ opened = {} /\ after = "barrier"
        /\ \A w \in Workers : total_bytes[w] = 0
    BY DEF Init, Counted, Past
  <2>2. Sum(Counted) = 0
    BY <2>1, SumZero
  <2> QED BY <2>1, <2>2 DEF TotalsInv, Walked
<1>2. TypeOK /\ TypeOK' /\ JoinInv /\ CustodyInv /\ TotalsInv /\ [Next]_vars => TotalsInv'
  <2> SUFFICES ASSUME TypeOK, TypeOK', JoinInv, CustodyInv, TotalsInv, [Next]_vars PROVE TotalsInv'
    OBVIOUS
  <2>1. PairMoves /\ ThreadsMove /\ TotalsMove /\ ManagerMove
    BY StepMovesPairs, StepMovesThreads, StepMovesTotals, StepMovesManager
  <2>2. /\ opened \subseteq opened'
        /\ opened' # opened => pc[Manager] \in {"start", "readdir"} /\ pc'[Manager] = "add_lock"
    BY <2>1 DEF PairMoves, NoPairMoves, Opens, AddDropped, AddStored, AddReturns, RemoveTaken, CopyEnds,
       WriteFails, CloseAndGo, buffer_destroy, fileVars, TypeOK
  <2>3. NoneLeft' => NoneLeft
    BY <2>1 DEF NoneLeft, ThreadsMove
  <2>4. Counted \in [Workers -> Nat] /\ total_bytes \in [Workers -> Nat] /\ total_bytes_copied \in Nat
    BY DEF Counted, TypeOK
  <2>5. /\ after' = "exited" => opened' = {} /\ pc'[Manager] \in SettingDone
        /\ pc'[Manager] = "start" => opened' = {}
    BY <2>1, <2>2 DEF TotalsInv, ManagerMove, SettingDone
  <2>6. CASE /\ UNCHANGED <<dst, total_bytes, total_bytes_copied>>
             /\ \A w \in Workers : pc'[w] \in Past <=> pc[w] \in Past
             /\ pc'[Manager] = "exited" => pc[Manager] = "exited" \/ after = "exited"
    <3>1. Counted' = Counted
      BY <2>6 DEF Counted
    <3>2. Walked' => Walked
      BY <2>2, <2>6 DEF Walked, TotalsInv, SettingDone
    <3> QED BY <2>1, <2>2, <2>3, <2>5, <2>6, <3>1, <3>2 DEF TotalsInv, ThreadsMove
  <2>7. ASSUME NEW w \in Workers, CopyChunk(w) PROVE TotalsInv'
    <3>1. /\ pc[w] = "copy" /\ pc' = pc /\ total_bytes_copied' = total_bytes_copied
          /\ \A v \in Workers : v # w => total_bytes'[v] = total_bytes[v]
          /\ opened' = opened
      BY <2>7 DEF CopyChunk, At, statVars, TypeOK
    <3>2. Counted' = Counted
      BY <3>1 DEF Counted, Past
    <3>3. opened # {}
      BY <3>1 DEF JoinInv, CustodyInv, Held, WorkerPairs, OpenPairs
    <3>4. ~Walked'
      BY <3>1 DEF Walked, TotalsInv
    <3> QED BY <2>3, <2>5, <3>1, <3>2, <3>3, <3>4 DEF TotalsInv
  <2>8. ASSUME NEW w \in Workers, AddTotal(w) PROVE TotalsInv'
    <3>1. /\ pc[w] = "total" /\ pc' = [pc EXCEPT ![w] = "barrier"]
          /\ total_bytes_copied' = total_bytes_copied + total_bytes[w]
          /\ total_bytes' = total_bytes /\ opened' = opened
      BY <2>8 DEF AddTotal, At, Go, workVars, fileVars
    <3>2. Counted' = [Counted EXCEPT ![w] = total_bytes[w]] /\ Counted[w] = 0
      BY <3>1 DEF Counted, Past, TypeOK
    <3>3. Sum(Counted') = Sum(Counted) - Counted[w] + total_bytes[w]
      <4>1. Counted' \in [Workers -> Nat] /\ Counted'[w] = total_bytes[w]
            /\ \A v \in Workers : v # w => Counted'[v] = Counted[v]
        BY <2>4, <3>2
      <4> QED BY <2>4, <4>1, SumChanges
    <3>4. Sum(Counted) \in Nat /\ total_bytes[w] \in Nat
      BY <2>4, SumType
    <3>5. NoneLeft' => total_bytes_copied' = Sum(Counted')
      BY <2>3, <2>4, <3>1, <3>2, <3>3, <3>4 DEF TotalsInv
    <3>6. ~Walked'
      BY <3>1 DEF Walked, TotalsInv, TypeOK
    <3>7. opened' = {} => total_bytes_copied' = 0 /\ \A v \in Workers : total_bytes'[v] = 0
      BY <3>1 DEF TotalsInv
    <3>8. Sum(Counted)' = Sum(Counted')
      OBVIOUS
    <3> QED BY <2>5, <3>5, <3>6, <3>7, <3>8 DEF TotalsInv
  <2>9. ASSUME NEW t, Passes(t) PROVE TotalsInv'
    <3>1. /\ \A u \in Workers \cup {Manager} : pc[u] \in Past /\ pc'[u] = "exited"
          /\ UNCHANGED <<total_bytes, total_bytes_copied, opened, after>>
      BY <2>9, PassesAll DEF workVars, statVars, fileVars, walkVars
    <3>2. NoneLeft /\ ~NoneLeft'
      BY <3>1 DEF NoneLeft, Past
    <3>3. Counted = total_bytes
      BY <2>4, <3>1 DEF Counted
    <3> QED BY <2>5, <3>1, <3>2, <3>3 DEF TotalsInv
  <2> QED BY <2>1, <2>6, <2>7, <2>8, <2>9 DEF TotalsMove
<1> QED
  BY <1>1, <1>2, TypeCorrect, JoinInvariant, CustodyInvariant, PTL DEF Spec

(* With the barrier of hw5, when the manager has passed it every byte a    *)
(* worker copied is in the total that main prints.                         *)
THEOREM BarrierTotals == HasBarrier /\ Spec => []TotalsAtBarrier
<1>1. TypeOK /\ TotalsInv => TotalsAtBarrier
  <2> SUFFICES ASSUME TypeOK, TotalsInv, pc[Manager] = "exited"
               PROVE  total_bytes_copied = Sum(total_bytes)
    BY DEF TotalsAtBarrier
  <2>1. CASE opened = {}
    BY <2>1, ThreadAssumption, SumZero DEF TotalsInv, TypeOK
  <2>2. CASE opened # {}
    BY <2>2 DEF TotalsInv, Walked
  <2> QED BY <2>1, <2>2
<1> QED
  BY <1>1, TypeCorrect, TotalsInvariant, PTL
-----------------------------------------------------------------------------
(***************************************************************************)
(* What an uninterrupted run has copied.  A worker leaves its loop only    *)
(* when the manager is through and the ring is empty, and a worker that    *)
(* fails to write never gets to the barrier, so nobody passes it.          *)
(***************************************************************************)
NoReadFails == HasBarrier /\ Faults \cap {"read", "opendir"} = {}

CountInv ==
  /\ Sum(dst) = Sum(total_bytes)
  /\ pc[Main] # "exited" => num_regular_files + (IF Adding THEN 1 ELSE 0) = Cardinality(opened)
  /\ pc[Main] = "exited" => num_regular_files = Cardinality(opened)

ClosedComplete == \A n \in closed : dst[n] = Chunks[n]

CopiedInv ==
  /\ after \in {"barrier", "exited"}
  /\ ~interrupted =>
     /\ \A t \in Threads : sig[t] = "none"
     /\ bdone => pc[Manager] \in Leaving
     /\ (\E w \in Workers : pc[w] \in Late) => bdone /\ count = 0
     /\ NoneLeft => ClosedComplete
     /\ Walked => count = 0 /\ ClosedComplete

(* Who marks the buffer done, and when a worker leaves its loop.           *)
DoneMove ==
  /\ bdone' = bdone \/ ManagerSetDone \/ \E t \in Threads : sig[t] = "hold"
  /\ \A w \in Workers : pc'[w] \in Late => pc[w] \in Late \/ done \/ (IsEmpty /\ bdone)
  /\ ~interrupted' /\ (\A t \in Threads : sig[t] = "none") => \A t \in Threads : sig'[t] = "none"

LEMMA StepMovesDone == TypeOK /\ [Next]_vars => DoneMove
<1> SUFFICES ASSUME TypeOK, [Next]_vars PROVE DoneMove
  OBVIOUS
<1> USE ThreadAssumption DEF TypeOK, Late, Past
<1>1. CASE ManagerStart \/ ReadEntry \/ LeaveDirectory
  <2>1. /\ bdone' = bdone /\ sig' = sig /\ interrupted' = interrupted
        /\ \/ pc' = pc
           \/ \E l \in {"readdir", "add_lock", "setdone_lock"} : pc' = [pc EXCEPT ![Manager] = l]
    BY <1>1 DEF ManagerStart, ReadEntry, LeaveDirectory, EnterDirectory, copy_file, MakeFifo, OpenFile,
       AfterCopyFile, CallSetDone, Go, At, bufferVars, signalVars
  <2> QED BY <2>1 DEF DoneMove
<1>2. CASE AddSleep \/ AddDropped \/ ManagerAborts \/ Stays \/ UNCHANGED vars
  BY <1>2 DEF AddSleep, AddDropped, AddReturns, ReturnLabel, ManagerAborts, AbortMkdir, Stays, vars, Go, At,
     bufferVars, signalVars, DoneMove
<1>3. CASE AddStored
  BY <1>3 DEF AddStored, Store, AddReturns, ReturnLabel, SignalNotEmpty, Go, At, signalVars, DoneMove
<1>4. CASE ManagerSetDone
  BY <1>4 DEF ManagerSetDone, WakeAll, Awake, At, signalVars, DoneMove
<1>5. CASE MainStep
  BY <1>5 DEF MainStep, JoinManager, JoinWorkers, buffer_destroy, Go, At, bufferVars, signalVars, DoneMove
<1>6. ASSUME NEW w \in Workers, WorkerStep(w) PROVE DoneMove
  BY <1>6 DEF WorkerStep, WorkerStart, WorkerLoop, RemoveSleep, RemoveEnd, RemoveTaken, TakeOut, SignalNotFull,
     CopyChunk, CopyEnds, WriteFails, CloseAndGo, AddTotal, Go, At, bufferVars, signalVars, DoneMove
<1>7. ASSUME NEW t \in Threads, Lock(t) \/ SpuriousWake(t) \/ BarrierWait(t) PROVE DoneMove
  BY <1>7 DEF Lock, LockFor, SpuriousWake, Asleep, Awake, BarrierWait, AtBarrier, Go, At, bufferVars, signalVars,
     DoneMove
<1>8. ASSUME NEW t \in Threads, handle_signal(t) \/ HandlerLock(t) PROVE DoneMove
  BY <1>8 DEF handle_signal, HandlerLock, bufferVars, DoneMove
<1>9. ASSUME NEW t \in Threads, HandlerSetDone(t) PROVE DoneMove
  BY <1>9 DEF HandlerSetDone, WakeAll, Awake, DoneMove
<1> QED
  BY <1>1, <1>2, <1>3, <1>4, <1>5, <1>6, <1>7, <1>8, <1>9 DEF Next, ManagerStep

LEMMA CountInvariant == HasBarrier /\ Spec => []CountInv
<1> SUFFICES ASSUME HasBarrier PROVE Spec => []CountInv
  OBVIOUS
<1> USE ThreadAssumption
<1>1. Init => CountInv
  <2> SUFFICES ASSUME Init PROVE CountInv
    OBVIOUS
  <2>1. /\ dst \in [Names -> Nat] /\ \A n \in Names : dst[n] = 0
        /\ total_bytes \in [Workers -> Nat] /\ \A w \in Workers : total_bytes[w] = 0
    BY DEF Init
  <2>2. Sum(dst) = 0 /\ Sum(total_bytes) = 0
    BY <2>1, SumZero, TreeAssumption
  <2>3. Cardinality(opened) = 0 /\ num_regular_files = 0 /\ ~Adding /\ pc[Main] # "exited"
    BY FS_EmptySet DEF Init, Adding
  <2> QED BY <2>2, <2>3 DEF CountInv
<1>2. TypeOK /\ TypeOK' /\ JoinInv /\ CustodyInv /\ CountInv /\ [Next]_vars => CountInv'
  <2> SUFFICES ASSUME TypeOK, TypeOK', JoinInv, CustodyInv, CountInv, [Next]_vars PROVE CountInv'
    OBVIOUS
  <2>1. PairMoves /\ ThreadsMove /\ TotalsMove /\ ManagerMove
    BY StepMovesPairs, StepMovesThreads, StepMovesTotals, StepMovesManager
  <2>2. Sum(dst)' = Sum(total_bytes)'
    <3>1. CASE UNCHANGED <<dst, total_bytes>>
      BY <3>1 DEF CountInv
    <3>2. ASSUME NEW w \in Workers, CopyChunk(w) PROVE Sum(dst)' = Sum(total_bytes)'
      <4>1. /\ pc[w] = "copy"
            /\ dst' = [dst EXCEPT ![fd[w]] = @ + 1]
            /\ total_bytes' = [total_bytes EXCEPT ![w] = @ + 1]
        BY <3>2 DEF CopyChunk, At
      <4>2. fd[w] \in Names
        BY <4>1 DEF JoinInv, CustodyInv, Held, WorkerPairs, OpenPairs, TypeOK
      <4>3. /\ dst \in [Names -> Nat] /\ dst' \in [Names -> Nat] /\ dst'[fd[w]] = dst[fd[w]] + 1
            /\ \A n \in Names : n # fd[w] => dst'[n] = dst[n]
        BY <4>1, <4>2 DEF TypeOK
      <4>4. /\ total_bytes \in [Workers -> Nat] /\ total_bytes' \in [Workers -> Nat]
            /\ total_bytes'[w] = total_bytes[w] + 1
            /\ \A v \in Workers : v # w => total_bytes'[v] = total_bytes[v]
        BY <4>1 DEF TypeOK
      <4>5. Sum(dst') = Sum(dst) - dst[fd[w]] + dst'[fd[w]]
        BY <4>2, <4>3, SumChanges, TreeAssumption
      <4>6. Sum(total_bytes') = Sum(total_bytes) - total_bytes[w] + total_bytes'[w]
        BY <4>4, SumChanges
      <4>7. Sum(dst) \in Nat /\ Sum(total_bytes) \in Nat /\ dst[fd[w]] \in Nat /\ total_bytes[w] \in Nat
        BY <4>2, <4>3, <4>4, SumType, TreeAssumption
      <4>8. Sum(dst') = Sum(total_bytes')
        BY <4>3, <4>4, <4>5, <4>6, <4>7 DEF CountInv
      <4> QED BY <4>8
    <3>3. ASSUME NEW w \in Workers, AddTotal(w) PROVE UNCHANGED <<dst, total_bytes>>
      BY <3>3 DEF AddTotal, workVars, fileVars
    <3>4. ASSUME NEW t, Passes(t) PROVE UNCHANGED <<dst, total_bytes>>
      BY <3>4, PassesAll DEF workVars, fileVars
    <3> QED BY <2>1, <3>1, <3>2, <3>3, <3>4 DEF TotalsMove
  <2>3. CASE pc[Main] = "exited"
    <3>1. pc[Manager] = "exited" /\ \A w \in Workers : pc[w] = "exited"
      BY <2>3 DEF JoinInv
    <3>2. opened' = opened /\ num_regular_files' = num_regular_files
      BY <2>1, <2>3, <3>1 DEF PairMoves, NoPairMoves, Opens, AddDropped, AddStored, RemoveTaken, CopyEnds, WriteFails,
         buffer_destroy, ManagerMove, At
    <3> QED BY <2>1, <2>2, <2>3, <3>2 DEF CountInv, ThreadsMove
  <2>4. CASE pc[Main] # "exited"
    <3>1. Fresh /\ Held
      BY <2>4 DEF CustodyInv
    <3>2. CASE AddDropped \/ AddStored
      <4>1. /\ Adding /\ ~Adding' /\ opened' = opened /\ num_regular_files' = num_regular_files + 1
            /\ pc'[Main] # "exited"
        BY <2>4, <3>2 DEF AddDropped, AddStored, AddReturns, ReturnLabel, SignalNotEmpty, Adding, At, Go, fileVars,
           TypeOK
      <4>2. num_regular_files' \in Nat
        BY DEF TypeOK
      <4>3. num_regular_files' = Cardinality(opened')
        BY <2>4, <4>1 DEF CountInv
      <4> QED BY <2>2, <4>1, <4>2, <4>3 DEF CountInv
    <3>3. ASSUME NEW e \in Names, Opens(e) PROVE CountInv'
      <4>1. /\ ~Adding /\ Adding' /\ pc'[Main] # "exited" /\ opened' = opened \cup {e} /\ e \notin opened
            /\ num_regular_files' = num_regular_files
        BY <2>1, <2>4, <3>1, <3>3 DEF Opens, Adding, Fresh, ManagerMove, AddDropped, AddStored, At, TypeOK
      <4>2. IsFiniteSet(opened)
        BY TreeAssumption, FS_Subset DEF TypeOK
      <4>3. Cardinality(opened') = Cardinality(opened) + 1
        BY <4>1, <4>2, FS_AddElement
      <4> QED BY <2>2, <2>4, <4>1, <4>3 DEF CountInv, TypeOK
    <3>4. CASE ~(AddDropped \/ AddStored \/ \E e \in Names : Opens(e))
      <4>1. opened' = opened /\ num_regular_files' = num_regular_files /\ (Adding' <=> Adding)
        <5>1. num_regular_files' = num_regular_files
          BY <2>1, <3>4 DEF ManagerMove
        <5>2. CASE NoPairMoves
          BY <5>1, <5>2 DEF NoPairMoves
        <5>3. ASSUME NEW w \in Workers, RemoveTaken(w) \/ CopyEnds(w) \/ WriteFails(w)
              PROVE  opened' = opened /\ (Adding' <=> Adding)
          BY <5>3 DEF RemoveTaken, SignalNotFull, CopyEnds, WriteFails, CloseAndGo, Go, Adding, fileVars, TypeOK
        <5>4. CASE buffer_destroy
          BY <5>1, <5>4 DEF buffer_destroy, Go, Adding, TypeOK
        <5> QED BY <2>1, <3>4, <5>1, <5>2, <5>3, <5>4 DEF PairMoves
      <4>2. pc'[Main] = "exited" => ~Adding
        BY <2>1, <2>4 DEF ThreadsMove, JoinManager, JoinWorkers, buffer_destroy, At, Go, JoinInv, Adding, TypeOK
      <4>3. num_regular_files \in Nat
        BY DEF TypeOK
      <4>4. pc'[Main] # "exited" => num_regular_files' + (IF Adding' THEN 1 ELSE 0) = Cardinality(opened')
        BY <2>4, <4>1 DEF CountInv
      <4>5. pc'[Main] = "exited" => num_regular_files' = Cardinality(opened')
        BY <2>4, <4>1, <4>2, <4>3 DEF CountInv
      <4> QED BY <2>2, <4>4, <4>5 DEF CountInv
    <3> QED BY <3>2, <3>3, <3>4
  <2> QED BY <2>3, <2>4
<1> QED
  BY <1>1, <1>2, TypeCorrect, JoinInvariant, CustodyInvariant, PTL DEF Spec

LEMMA CopiedInvariant == NoReadFails /\ Spec => []CopiedInv
<1> SUFFICES ASSUME NoReadFails PROVE Spec => []CopiedInv
  OBVIOUS
<1> USE ThreadAssumption
<1>0. HasBarrier /\ "opendir" \notin Faults /\ "read" \notin Faults
  BY DEF NoReadFails
<1>1. Init => CopiedInv
  BY DEF Init, buffer_init, CopiedInv, Late, Past, Leaving, Walked, ClosedComplete
<1>2. TypeOK /\ TypeOK' /\ JoinInv /\ CustodyInv /\ StrayInv /\ TotalsInv /\ CopiedInv /\ [Next]_vars => CopiedInv'
  <2> SUFFICES ASSUME TypeOK, TypeOK', JoinInv, CustodyInv, StrayInv, TotalsInv, CopiedInv, [Next]_vars
               PROVE  CopiedInv'
    OBVIOUS
  <2>1. PairMoves /\ ThreadsMove /\ TotalsMove /\ ManagerMove /\ DoneMove
    BY StepMovesPairs, StepMovesThreads, StepMovesTotals, StepMovesManager, StepMovesDone
  <2>2. after' \in {"barrier", "exited"}
    BY <1>0, <2>1 DEF ManagerMove, CopiedInv
  <2> SUFFICES ASSUME ~interrupted'
               PROVE  /\ \A t \in Threads : sig'[t] = "none"
                      /\ bdone' => pc'[Manager] \in Leaving
                      /\ (\E w \in Workers : pc'[w] \in Late) => bdone' /\ count' = 0
                      /\ NoneLeft' => ClosedComplete'
                      /\ Walked' => count' = 0 /\ ClosedComplete'
    BY <2>2 DEF CopiedInv
  <2>3. ~interrupted /\ ~done
    BY <2>1 DEF ThreadsMove, StrayInv
  <2>4. \A t \in Threads : sig[t] = "none" /\ sig'[t] = "none"
    BY <2>1, <2>3 DEF DoneMove, CopiedInv
  <2>5. bdone' => pc'[Manager] \in Leaving
    <3>1. CASE bdone' = bdone
      BY <2>1, <2>3, <3>1 DEF ManagerMove, CopiedInv
    <3>2. CASE ManagerSetDone
      BY <3>2 DEF ManagerSetDone, WakeAll, CopiedInv, Leaving
    <3> QED BY <2>1, <2>4, <3>1, <3>2 DEF DoneMove
  <2>6. count' = count \/ AddStored \/ \E w \in Workers : RemoveTaken(w)
    BY <2>1 DEF PairMoves, NoPairMoves, Opens, AddDropped, CopyEnds, WriteFails, CloseAndGo, buffer_destroy,
       bufferVars
  <2>7. bdone => bdone'
    BY <2>1, <2>4 DEF DoneMove, ManagerSetDone, MarkDone
  <2>8. bdone /\ count = 0 => bdone' /\ count' = 0
    <3> SUFFICES ASSUME bdone, count = 0 PROVE bdone' /\ count' = 0
      OBVIOUS
    <3>1. ~AddStored
      BY <2>3 DEF AddStored, At, CopiedInv, Leaving
    <3>2. \A w \in Workers : ~RemoveTaken(w)
      BY DEF RemoveTaken, IsEmpty
    <3> QED BY <2>6, <2>7, <3>1, <3>2
  <2>9. (\E w \in Workers : pc'[w] \in Late) => bdone' /\ count' = 0
    BY <2>1, <2>3, <2>8 DEF DoneMove, IsEmpty, CopiedInv
  <2>10. NoneLeft' => NoneLeft
    BY <2>1 DEF NoneLeft, ThreadsMove
  <2>11. closed' = closed \/ buffer_destroy \/ \E w \in Workers : CopyEnds(w) \/ WriteFails(w)
    BY <2>1 DEF PairMoves, NoPairMoves, Opens, AddDropped, AddStored, AddReturns, RemoveTaken, fileVars
  <2>12. CASE dst' = dst /\ closed' = closed
    <3>1. ClosedComplete' <=> ClosedComplete
      BY <2>12 DEF ClosedComplete
    <3>2. Walked' => count' = 0 /\ ClosedComplete'
      <4> SUFFICES ASSUME Walked' PROVE count' = 0 /\ ClosedComplete'
        OBVIOUS
      <4>1. CASE Walked
        <5>1. ~AddStored /\ \A w \in Workers : ~RemoveTaken(w)
          BY <4>1 DEF Walked, TotalsInv, AddStored, RemoveTaken, At
        <5> QED BY <2>3, <2>6, <3>1, <4>1, <5>1 DEF CopiedInv
      <4>2. CASE ~Walked
        <5>1. opened' = opened \/ pc'[Manager] = "add_lock"
          BY <2>1 DEF PairMoves, NoPairMoves, Opens, AddDropped, AddStored, AddReturns, RemoveTaken, CopyEnds,
             WriteFails, CloseAndGo, buffer_destroy, fileVars, TypeOK
        <5>2. opened # {} /\ pc[Manager] # "exited"
          BY <4>2, <5>1 DEF Walked
        <5>3. after # "exited"
          BY <5>2 DEF TotalsInv
        <5>4. PICK t \in Threads : Passes(t)
          <6>1. ASSUME NEW w \in Workers, CopyChunk(w) \/ AddTotal(w) PROVE pc'[Manager] # "exited"
            BY <5>2, <6>1 DEF CopyChunk, AddTotal, Go, TypeOK
          <6> QED BY <2>1, <5>2, <5>3, <6>1 DEF TotalsMove, Walked
        <5>5. (\A w \in Workers : pc[w] \in Past) /\ count' = count
          BY <1>0, <5>4, PassesAll DEF bufferVars
        <5>6. NoneLeft /\ count = 0
          BY <2>3, <5>5 DEF NoneLeft, Past, Late, CopiedInv
        <5> QED BY <2>3, <3>1, <5>5, <5>6 DEF CopiedInv
      <4> QED BY <4>1, <4>2
    <3> QED BY <2>3, <2>4, <2>5, <2>9, <2>10, <3>1, <3>2 DEF CopiedInv
  <2>13. ASSUME NEW w \in Workers, CopyChunk(w)
         PROVE  (NoneLeft' => ClosedComplete') /\ ~Walked'
    <3>1. /\ pc[w] = "copy" /\ pc' = pc /\ closed' = closed /\ opened' = opened
          /\ dst' = [dst EXCEPT ![fd[w]] = @ + 1]
      BY <2>13 DEF CopyChunk, At
    <3>2. fd[w] \notin closed
      BY <3>1 DEF JoinInv, CustodyInv, Held, WorkerPairs, OpenPairs
    <3>3. ~Walked'
      BY <3>1 DEF Walked, TotalsInv
    <3>4. ClosedComplete => ClosedComplete'
      BY <3>1, <3>2, NoFileAssumption DEF ClosedComplete, TypeOK
    <3> QED BY <2>3, <2>10, <3>3, <3>4 DEF CopiedInv
  <2>14. ASSUME NEW w \in Workers, CopyEnds(w) \/ WriteFails(w)
         PROVE  (NoneLeft' => ClosedComplete') /\ ~Walked'
    <3>1. /\ pc[w] = "copy" /\ dst' = dst /\ opened' = opened /\ closed' = closed \cup {fd[w]}
          /\ pc'[Manager] = pc[Manager]
      BY <2>14 DEF CopyEnds, WriteFails, CloseAndGo, Go, At, TypeOK
    <3>2. ~Walked'
      BY <3>1 DEF Walked, TotalsInv
    <3>3. CASE CopyEnds(w)
      <4>1. dst[fd[w]] = Chunks[fd[w]]
        BY <1>0, <3>3 DEF CopyEnds
      <4> QED BY <2>3, <2>10, <3>1, <3>2, <4>1 DEF CopiedInv, ClosedComplete
    <3>4. CASE WriteFails(w)
      <4>1. ~NoneLeft'
        BY <3>4 DEF WriteFails, CloseAndGo, Go, NoneLeft, TypeOK
      <4> QED BY <3>2, <4>1
    <3> QED BY <2>14, <3>3, <3>4
  <2>15. CASE buffer_destroy
    <3>1. /\ pc[Main] = "destroy" /\ dst' = dst /\ opened' = opened /\ closed' = closed \cup Queued
          /\ count' = count /\ pc' = [pc EXCEPT ![Main] = "exited"]
      BY <2>15 DEF buffer_destroy, Go, At, bufferVars
    <3>2. \A w \in Workers : pc'[w] = "exited"
      BY <3>1 DEF JoinInv, TypeOK
    <3>3. ~NoneLeft'
      BY <3>2 DEF NoneLeft
    <3>4. Walked' => Walked
      BY <3>1 DEF Walked, TypeOK
    <3>5. count = 0 => Queued = {}
      BY SizeAssumption DEF Queued, Live, Slots, TypeOK, BufferTypeOK
    <3>6. Walked' => count' = 0 /\ ClosedComplete'
      BY <2>3, <3>1, <3>4, <3>5 DEF CopiedInv, ClosedComplete
    <3> QED BY <2>4, <2>5, <2>9, <3>3, <3>6
  <2>16. dst' = dst \/ \E w \in Workers : CopyChunk(w)
    <3>1. ASSUME NEW w \in Workers, AddTotal(w) PROVE dst' = dst
      BY <3>1 DEF AddTotal, fileVars
    <3>2. ASSUME NEW t, Passes(t) PROVE dst' = dst
      BY <3>2 DEF Passes, BarrierWait, fileVars
    <3> QED BY <2>1, <3>1, <3>2 DEF TotalsMove
  <2> QED BY <2>4, <2>5, <2>9, <2>11, <2>12, <2>13, <2>14, <2>15, <2>16
<1> QED
  BY <1>1, <1>2, TypeCorrect, JoinInvariant, CustodyInvariant, StrayInvariant, TotalsInvariant, PTL
  DEF Spec, NoReadFails

(* With the barrier, and when neither read nor opendir fails, a run that   *)
(* ends without having been interrupted has copied every file it opened,   *)
(* and its statistics say how many and how much.                           *)
THEOREM EndsCopied == NoReadFails /\ Spec => []AllCopied
<1>1. TypeOK /\ JoinInv /\ StrayInv /\ TotalsInv /\ CountInv /\ CopiedInv => AllCopied
  <2> SUFFICES ASSUME TypeOK, JoinInv, StrayInv, TotalsInv, CountInv, CopiedInv,
                      pc[Main] = "exited", ~interrupted
               PROVE  /\ \A n \in opened : dst[n] = Chunks[n]
                      /\ total_bytes_copied = Sum(dst)
                      /\ num_regular_files = Cardinality(opened)
    BY DEF AllCopied
  <2>1. pc[Manager] = "exited" /\ opened \subseteq closed
    BY DEF JoinInv, StrayInv, OpenPairs
  <2>2. total_bytes_copied = Sum(total_bytes)
    <3>1. CASE opened = {}
      BY <3>1, ThreadAssumption, SumZero DEF TotalsInv, TypeOK
    <3>2. CASE opened # {}
      BY <2>1, <3>2 DEF TotalsInv, Walked
    <3> QED BY <3>1, <3>2
  <2> QED BY <2>1, <2>2 DEF CountInv, CopiedInv, Walked, ClosedComplete
<1> QED
  BY <1>1, TypeCorrect, JoinInvariant, StrayInvariant, TotalsInvariant, CountInvariant, CopiedInvariant, PTL
  DEF NoReadFails
=============================================================================
