------------------------- MODULE ParkingLot_proofs --------------------------
(***************************************************************************)
(* Proofs about ParkingLot for every number of owners, attendants and      *)
(* exits, every capacity and every bound on arrivals.                      *)
(***************************************************************************)
EXTENDS ParkingLot, FiniteSetTheorems, TLAPS

USE DEF Visitors, Threads, Kinds, VisitorPc, MainPc, InSection

(* The free spots and the semaphores never go below zero.                  *)
THEOREM TypeCorrect == Spec => []TypeOK
<1> USE LotAssumption DEF TypeOK
<1>1. Init => TypeOK
  <2> SUFFICES ASSUME Init PROVE TypeOK
    OBVIOUS
  <2>1. /\ pc \in [Threads -> VisitorPc \cup MainPc]
        /\ pc[Main] \in MainPc
        /\ \A t \in Visitors : pc[t] \in VisitorPc
    BY DEF Init
  <2>2. /\ new \in [Kinds -> Nat] /\ inCharge \in [Kinds -> Nat]
        /\ mutex \in [Kinds -> Threads \cup {Nobody}]
        /\ kind \in [Visitors -> Kinds]
    BY DEF Init
  <2>3. mFree \in [Kinds -> Nat] /\ permanent \in [Kinds -> Nat]
    BY DEF Init
  <2> QED
    BY <2>1, <2>2, <2>3 DEF Init
<1>2. TypeOK /\ [Next]_vars => TypeOK'
  <2> SUFFICES ASSUME TypeOK, [Next]_vars PROVE TypeOK'
    OBVIOUS
  <2> USE DEF At, Go, lotVars, semVars, mainVars
  <2>1. ASSUME NEW t \in Owners \cup Exits, NEW k \in Kinds, Draw(t, k) PROVE TypeOK'
    BY <2>1 DEF Draw
  <2>2. ASSUME NEW t \in Visitors, VisitorStep(t) PROVE TypeOK'
    <3>1. CASE TakeToken(t)
      BY <3>1 DEF TakeToken
    <3>2. CASE Enter(t)
      BY <3>2 DEF Enter
    <3>3. CASE LockMutex(t) \/ Unlock(t)
      BY <3>3 DEF LockMutex, Unlock
    <3>4. CASE PostNew(t)
      BY <3>4 DEF PostNew, Start, OtherKind
    <3>5. CASE carOwner(t)
      BY <3>5 DEF carOwner
    <3>6. CASE CallValet(t)
      BY <3>6 DEF CallValet
    <3>7. CASE carAttendant(t)
      BY <3>7 DEF carAttendant
    <3>8. CASE carExit(t)
      BY <3>8 DEF carExit
    <3>9. CASE Printed(t) \/ Cancelled(t)
      BY <3>9 DEF Printed, Cancelled
    <3> QED
      BY <2>2, <3>1, <3>2, <3>3, <3>4, <3>5, <3>6, <3>7, <3>8, <3>9 DEF VisitorStep
  <2>3. CASE check_all_spots_full
    <3>1. ASSUME NEW k \in Kinds, NEW from \in MainPc, NEW to \in MainPc, MainLock(k, from, to)
          PROVE  TypeOK'
      BY <3>1 DEF MainLock
    <3>2. ASSUME NEW k \in Kinds, NEW from \in MainPc, NEW to \in MainPc, MainUnlock(k, from, to),
                 all_spots_full' \in BOOLEAN
          PROVE  TypeOK'
      BY <3>2 DEF MainUnlock
    <3> QED
      BY <2>3, <3>1, <3>2 DEF check_all_spots_full, AllFull
  <2>4. CASE Decide \/ StartJoining \/ JoinAll \/ \E t \in Visitors : CancelOne(t)
    BY <2>4 DEF Decide, StartJoining, JoinAll, CancelOne
  <2>5. CASE signal_handler \/ Ended \/ UNCHANGED vars
    BY <2>5 DEF signal_handler, Ended, vars
  <2> QED
    BY <2>1, <2>2, <2>3, <2>4, <2>5 DEF Next, MainStep
<1> QED
  BY <1>1, <1>2, PTL DEF Spec

(* Whoever moves or leaves when, no more spots of a kind are free than     *)
(* exist: only carAttendant and carExit free a spot, the first against a   *)
(* permanent one, the second when a temporary one is taken.                *)
THEOREM SpotsBalanced == Spec => []SpotsBalance
<1> USE LotAssumption DEF TypeOK, SpotsBalance
<1>1. Init => SpotsBalance
  BY DEF Init
<1>2. TypeOK /\ SpotsBalance /\ [Next]_vars => SpotsBalance'
  <2> SUFFICES ASSUME TypeOK, SpotsBalance, [Next]_vars PROVE SpotsBalance'
    OBVIOUS
  <2> USE DEF lotVars
  <2>1. ASSUME NEW t \in Visitors, carOwner(t) \/ carExit(t) PROVE SpotsBalance'
    BY <2>1 DEF carOwner, carExit
  <2>2. ASSUME NEW t \in Visitors, carAttendant(t) PROVE SpotsBalance'
    BY <2>2 DEF carAttendant
  <2>3. CASE UNCHANGED lotVars
    BY <2>3
  <2>4. \/ \E t \in Visitors : carOwner(t) \/ carExit(t) \/ carAttendant(t)
        \/ UNCHANGED lotVars
    BY DEF Next, Draw, VisitorStep, TakeToken, Enter, LockMutex, Unlock, PostNew, CallValet, Printed, Cancelled,
       MainStep, check_all_spots_full, MainLock, MainUnlock, Decide, StartJoining, JoinAll, CancelOne,
       signal_handler, Ended, vars
  <2> QED
    BY <2>1, <2>2, <2>3, <2>4
<1> QED
  BY <1>1, <1>2, TypeCorrect, PTL DEF Spec
-----------------------------------------------------------------------------
(* The semaphore newAutomobile or newPickup as a lock: at most one thread  *)
(* has passed it, none while it is up, and the mutex behind it belongs to  *)
(* that thread or to main.  A cancelled thread that kept the mutex kept    *)
(* the semaphore too.                                                      *)
Locked == {"test", "parked", "print", "unlock"}
MutexBehind(k) ==
  \A t \in Visitors :
    /\ mutex[k] = t => kind[t] = k /\ pc[t] \in Locked \cup {"ended"}
    /\ pc[t] \in Locked /\ kind[t] = k => mutex[k] = t
SemaphoreLock(k) ==
  /\ new[k] <= 1
  /\ new[k] = 1 => \A t \in Visitors : ~HoldsSemaphore(t, k)
  /\ \A t, u \in Visitors : HoldsSemaphore(t, k) /\ HoldsSemaphore(u, k) => t = u
MainHolds ==
  /\ pc[Main] \in {"lock_pickup", "check"} => mutex["automobile"] = Main
  /\ pc[Main] \in {"check", "unlock_pickup"} => mutex["pickup"] = Main
SemaphoreInv == MainHolds /\ \A k \in Kinds : MutexBehind(k) /\ SemaphoreLock(k)

THEOREM SemaphoreInvariant == Spec => []SemaphoreInv
<1> USE LotAssumption DEF TypeOK, SemaphoreInv, MainHolds, MutexBehind, SemaphoreLock, HoldsSemaphore, Locked
<1>1. Init => SemaphoreInv
  BY DEF Init
<1>2. TypeOK /\ SemaphoreInv /\ [Next]_vars => SemaphoreInv'
  <2> SUFFICES ASSUME TypeOK, SemaphoreInv, [Next]_vars PROVE SemaphoreInv'
    OBVIOUS
  <2> USE DEF At, Go, semVars
  <2>1. ASSUME NEW t \in Owners \cup Exits, NEW k \in Kinds, Draw(t, k) PROVE SemaphoreInv'
    BY <2>1 DEF Draw
  <2>2. ASSUME NEW t \in Visitors, VisitorStep(t) PROVE SemaphoreInv'
    <3>1. CASE TakeToken(t)
      BY <3>1 DEF TakeToken
    <3>2. CASE Enter(t)
      BY <3>2 DEF Enter
    <3>3. CASE LockMutex(t)
      BY <3>3 DEF LockMutex
    <3>4. CASE Unlock(t)
      BY <3>4 DEF Unlock
    <3>5. CASE PostNew(t)
      BY <3>5 DEF PostNew, Start, OtherKind
    <3>6. CASE carOwner(t) \/ CallValet(t)
      BY <3>6 DEF carOwner, CallValet
    <3>7. CASE carAttendant(t) \/ carExit(t) \/ Printed(t)
      BY <3>7 DEF carAttendant, carExit, Printed
    <3>8. CASE Cancelled(t)
      BY <3>8 DEF Cancelled
    <3> QED
      BY <2>2, <3>1, <3>2, <3>3, <3>4, <3>5, <3>6, <3>7, <3>8 DEF VisitorStep
  <2>3. CASE check_all_spots_full
    <3>1. CASE MainLock("automobile", "poll", "lock_pickup")
      BY <3>1 DEF MainLock
    <3>2. CASE MainLock("pickup", "lock_pickup", "check")
      BY <3>2 DEF MainLock
    <3>3. CASE MainUnlock("automobile", "check", "unlock_pickup")
      BY <3>3 DEF MainUnlock
    <3>4. CASE MainUnlock("pickup", "unlock_pickup", "decide")
      BY <3>4 DEF MainUnlock
    <3> QED
      BY <2>3, <3>1, <3>2, <3>3, <3>4 DEF check_all_spots_full
  <2>4. CASE Decide \/ StartJoining \/ JoinAll \/ \E t \in Visitors : CancelOne(t)
    BY <2>4 DEF Decide, StartJoining, JoinAll, CancelOne
  <2>5. CASE signal_handler \/ Ended \/ UNCHANGED vars
    BY <2>5 DEF signal_handler, Ended, vars
  <2> QED
    BY <2>1, <2>2, <2>3, <2>4, <2>5 DEF Next, MainStep
<1> QED
  BY <1>1, <1>2, TypeCorrect, PTL DEF Spec

(* The semaphores admit one thread to the counters of a kind, and when     *)
(* pthread_cancel hits a thread that holds a mutex, nobody is or will be   *)
(* blocked on that mutex.                                                  *)
THEOREM OneVisitorOnly == Spec => []OneVisitor
<1>1. SemaphoreInv => OneVisitor
  BY DEF SemaphoreInv, SemaphoreLock, OneVisitor
<1> QED
  BY <1>1, SemaphoreInvariant, PTL

THEOREM NobodyOrphaned == Spec => []NoOrphanedWait
<1>1. TypeOK /\ SemaphoreInv => NoOrphanedWait
  BY DEF TypeOK, SemaphoreInv, SemaphoreLock, MutexBehind, HoldsSemaphore, NoOrphanedWait, Locked
<1> QED
  BY <1>1, TypeCorrect, SemaphoreInvariant, PTL
-----------------------------------------------------------------------------
(***************************************************************************)
(* Claims counts two sets of threads; one step moves one thread, so either *)
(* set gains or loses at most that thread.                                 *)
(***************************************************************************)
Going(k) == {t \in Attendants : kind[t] = k /\ pc[t] \in {"enter", "lock", "test"}}
Calling(k) == {t \in Owners : kind[t] = k /\ pc[t] = "parked"}

LEMMA ClaimParts ==
  /\ \A k : Claims(k) = inCharge[k] + Cardinality(Going(k)) + Cardinality(Calling(k))
  /\ \A k : Claims(k)' = inCharge'[k] + Cardinality(Going(k)') + Cardinality(Calling(k)')
BY DEF Claims, Going, Calling

LEMMA Finite ==
  ASSUME NEW k PROVE /\ IsFiniteSet(Going(k)) /\ IsFiniteSet(Calling(k))
                     /\ Cardinality(Going(k)) \in Nat /\ Cardinality(Calling(k)) \in Nat
<1>1. Going(k) \subseteq Visitors /\ Calling(k) \subseteq Visitors
  BY DEF Going, Calling
<1>2. IsFiniteSet(Going(k)) /\ IsFiniteSet(Calling(k))
  BY <1>1, LotAssumption, FS_Subset
<1> QED BY <1>2, FS_CardinalityType

(* A step of thread t that leaves it its kind.                             *)
GoesOn(t, k, label) == t \in Attendants /\ kind[t] = k /\ label \in {"enter", "lock", "test"}
GoesCalling(t, k, label) == t \in Owners /\ kind[t] = k /\ label = "parked"

LEMMA GoingMoved ==
  ASSUME TypeOK, NEW t \in Visitors, NEW label, pc' = [pc EXCEPT ![t] = label], kind' = kind, NEW k
  PROVE  /\ ~GoesOn(t, k, pc[t]) /\ GoesOn(t, k, label)
              => Cardinality(Going(k)') = Cardinality(Going(k)) + 1
         /\ GoesOn(t, k, pc[t]) /\ ~GoesOn(t, k, label)
              => Cardinality(Going(k)') = Cardinality(Going(k)) - 1
         /\ (GoesOn(t, k, pc[t]) <=> GoesOn(t, k, label))
              => Cardinality(Going(k)') = Cardinality(Going(k))
<1>0. /\ \A u \in Visitors : pc'[u] = IF u = t THEN label ELSE pc[u]
      /\ Owners \subseteq Visitors /\ Attendants \subseteq Visitors
  BY DEF TypeOK
<1>1. IsFiniteSet(Going(k)) /\ (t \in Going(k) <=> GoesOn(t, k, pc[t]))
  BY Finite DEF Going, GoesOn
<1>2. ASSUME ~GoesOn(t, k, pc[t]), GoesOn(t, k, label)
      PROVE  Cardinality(Going(k)') = Cardinality(Going(k)) + 1
  <2>1. Going(k)' = Going(k) \cup {t}
    BY <1>0, <1>2 DEF Going, GoesOn
  <2> QED BY <1>1, <1>2, <2>1, FS_AddElement
<1>3. ASSUME GoesOn(t, k, pc[t]), ~GoesOn(t, k, label)
      PROVE  Cardinality(Going(k)') = Cardinality(Going(k)) - 1
  <2>1. Going(k)' = Going(k) \ {t}
    BY <1>0, <1>3 DEF Going, GoesOn
  <2> QED BY <1>1, <1>3, <2>1, FS_RemoveElement
<1>4. ASSUME GoesOn(t, k, pc[t]) <=> GoesOn(t, k, label) PROVE Going(k)' = Going(k)
  BY <1>0, <1>4 DEF Going, GoesOn
<1> QED BY <1>2, <1>3, <1>4

LEMMA CallingMoved ==
  ASSUME TypeOK, NEW t \in Visitors, NEW label, pc' = [pc EXCEPT ![t] = label], kind' = kind, NEW k
  PROVE  /\ ~GoesCalling(t, k, pc[t]) /\ GoesCalling(t, k, label)
              => Cardinality(Calling(k)') = Cardinality(Calling(k)) + 1
         /\ GoesCalling(t, k, pc[t]) /\ ~GoesCalling(t, k, label)
              => Cardinality(Calling(k)') = Cardinality(Calling(k)) - 1
         /\ (GoesCalling(t, k, pc[t]) <=> GoesCalling(t, k, label))
              => Cardinality(Calling(k)') = Cardinality(Calling(k))
<1>0. /\ \A u \in Visitors : pc'[u] = IF u = t THEN label ELSE pc[u]
      /\ Owners \subseteq Visitors /\ Attendants \subseteq Visitors
  BY DEF TypeOK
<1>1. IsFiniteSet(Calling(k)) /\ (t \in Calling(k) <=> GoesCalling(t, k, pc[t]))
  BY Finite DEF Calling, GoesCalling
<1>2. ASSUME ~GoesCalling(t, k, pc[t]), GoesCalling(t, k, label)
      PROVE  Cardinality(Calling(k)') = Cardinality(Calling(k)) + 1
  <2>1. Calling(k)' = Calling(k) \cup {t}
    BY <1>0, <1>2 DEF Calling, GoesCalling
  <2> QED BY <1>1, <1>2, <2>1, FS_AddElement
<1>3. ASSUME GoesCalling(t, k, pc[t]), ~GoesCalling(t, k, label)
      PROVE  Cardinality(Calling(k)') = Cardinality(Calling(k)) - 1
  <2>1. Calling(k)' = Calling(k) \ {t}
    BY <1>0, <1>3 DEF Calling, GoesCalling
  <2> QED BY <1>1, <1>3, <2>1, FS_RemoveElement
<1>4. ASSUME GoesCalling(t, k, pc[t]) <=> GoesCalling(t, k, label) PROVE Calling(k)' = Calling(k)
  BY <1>0, <1>4 DEF Calling, GoesCalling
<1> QED BY <1>2, <1>3, <1>4

(* Only valets wait for a token.                                           *)
ValetInv == \A t \in Visitors : pc[t] = "token" => t \in Attendants

LEMMA ValetInvariant == Spec => []ValetInv
<1> USE LotAssumption DEF ValetInv
<1>1. Init => ValetInv
  BY DEF Init
<1>2. TypeOK /\ ValetInv /\ [Next]_vars => ValetInv'
  <2> SUFFICES ASSUME TypeOK, ValetInv, [Next]_vars PROVE ValetInv'
    OBVIOUS
  <2> USE DEF At, Go, TypeOK
  <2>1. ASSUME NEW t \in Owners \cup Exits, NEW k \in Kinds, Draw(t, k) PROVE ValetInv'
    BY <2>1 DEF Draw
  <2>2. ASSUME NEW t \in Visitors, VisitorStep(t) PROVE ValetInv'
    BY <2>2 DEF VisitorStep, TakeToken, Enter, LockMutex, Unlock, PostNew, Start, carOwner, CallValet,
       carAttendant, carExit, Printed, Cancelled
  <2>3. CASE MainStep \/ signal_handler \/ Ended \/ UNCHANGED vars
    BY <2>3 DEF MainStep, check_all_spots_full, MainLock, MainUnlock, Decide, StartJoining, JoinAll, CancelOne,
       signal_handler, Ended, vars
  <2> QED BY <2>1, <2>2, <2>3 DEF Next
<1> QED BY <1>1, <1>2, TypeCorrect, PTL DEF Spec

(* A step that leaves the spots, the tokens and both sets alone.           *)
Quiet ==
  /\ UNCHANGED <<mFree, permanent, inCharge>>
  /\ \A k \in Kinds : /\ Cardinality(Going(k)') = Cardinality(Going(k))
                      /\ Cardinality(Calling(k)') = Cardinality(Calling(k))
Covered(k) == permanent[k] > 0 => Capacity[k] - mFree[k] <= Claims(k)

LEMMA CoveredKept == ASSUME NEW k \in Kinds, Covered(k), Quiet PROVE Covered(k)'
BY ClaimParts DEF Covered, Quiet

LEMMA VisitorCovers ==
  ASSUME TypeOK, ValetInv, cancelled = {}, NEW k \in Kinds, Covered(k), NEW t \in Visitors, VisitorStep(t)
  PROVE  Covered(k)'
<1> USE LotAssumption DEF At, Go, lotVars, semVars
<1>0. /\ Owners \cap Attendants = {} /\ Owners \cap Exits = {} /\ Attendants \cap Exits = {}
      /\ kind[t] \in Kinds
      /\ \A j \in Kinds : /\ Capacity[j] \in Nat /\ inCharge[j] \in Nat
                          /\ permanent[j] \in Nat /\ mFree[j] \in Nat
      /\ Cardinality(Going(k)) \in Nat /\ Cardinality(Calling(k)) \in Nat
  BY Finite DEF TypeOK
(* Moves within and outside the sets.                                      *)
<1>2. CASE Enter(t) \/ LockMutex(t) \/ Unlock(t) \/ Printed(t)
  <2>1. UNCHANGED <<mFree, permanent, inCharge, kind>>
    BY <1>2 DEF Enter, LockMutex, Unlock, Printed
  <2>2. PICK label \in {"lock", "test", "post", "unlock"} :
          /\ pc' = [pc EXCEPT ![t] = label]
          /\ label \in {"lock", "test"} <=> pc[t] \in {"enter", "lock", "test"}
          /\ pc[t] # "parked"
    BY <1>2 DEF Enter, LockMutex, Unlock, Printed
  <2>3. Quiet
    <3> SUFFICES ASSUME NEW j \in Kinds
                 PROVE  /\ Cardinality(Going(j)') = Cardinality(Going(j))
                        /\ Cardinality(Calling(j)') = Cardinality(Calling(j))
      BY <2>1 DEF Quiet
    <3>1. /\ GoesOn(t, j, pc[t]) <=> GoesOn(t, j, label)
          /\ GoesCalling(t, j, pc[t]) <=> GoesCalling(t, j, label)
      BY <2>2 DEF GoesOn, GoesCalling
    <3>2. Cardinality(Going(j)') = Cardinality(Going(j))
      BY <2>1, <2>2, <3>1, GoingMoved
    <3>3. Cardinality(Calling(j)') = Cardinality(Calling(j))
      BY <2>1, <2>2, <3>1, CallingMoved
    <3> QED BY <3>2, <3>3
  <2> QED BY <2>3, CoveredKept
<1>3. CASE PostNew(t)
  <2>1. /\ UNCHANGED <<mFree, permanent, inCharge>>
        /\ pc[t] = "post" /\ pc' = [pc EXCEPT ![t] = Start(t)] /\ Start(t) \in {"token", "idle"}
        /\ \A u \in Visitors : u # t => kind'[u] = kind[u]
    BY <1>3 DEF PostNew, Start, TypeOK
  <2>2. \A u \in Visitors : pc'[u] = IF u = t THEN Start(t) ELSE pc[u]
    BY <2>1 DEF TypeOK
  <2>3. \A j \in Kinds : Going(j)' = Going(j) /\ Calling(j)' = Calling(j)
    BY <2>1, <2>2 DEF Going, Calling
  <2>4. Quiet
    BY <2>1, <2>3 DEF Quiet
  <2> QED BY <2>4, CoveredKept
(* A valet takes a token.                                                  *)
<1>4. CASE TakeToken(t)
  <2>1. /\ pc[t] = "token" /\ pc' = [pc EXCEPT ![t] = "enter"] /\ kind' = kind
        /\ inCharge[kind[t]] > 0
        /\ inCharge'[k] = IF kind[t] = k THEN inCharge[k] - 1 ELSE inCharge[k]
        /\ mFree' = mFree /\ permanent' = permanent
    BY <1>4 DEF TakeToken, TypeOK
  <2>2. /\ ~GoesOn(t, k, pc[t]) /\ (GoesOn(t, k, "enter") <=> kind[t] = k)
        /\ ~GoesCalling(t, k, pc[t]) /\ ~GoesCalling(t, k, "enter")
    BY <2>1 DEF GoesOn, GoesCalling, ValetInv
  <2>3. /\ Cardinality(Calling(k)') = Cardinality(Calling(k))
        /\ kind[t] = k => Cardinality(Going(k)') = Cardinality(Going(k)) + 1
        /\ kind[t] # k => Cardinality(Going(k)') = Cardinality(Going(k))
    BY <2>1, <2>2, GoingMoved, CallingMoved
  <2> QED BY <1>0, <2>1, <2>3, ClaimParts DEF Covered
(* An owner parks, and calls the valet.                                    *)
<1>5. CASE carOwner(t)
  <2>1. /\ pc[t] = "test" /\ t \in Owners /\ t \notin Attendants /\ kind' = kind
        /\ permanent' = permanent /\ inCharge' = inCharge
    BY <1>0, <1>5 DEF carOwner
  <2>2. PICK label \in {"parked", "print"} :
          /\ pc' = [pc EXCEPT ![t] = label]
          /\ mFree'[k] = IF kind[t] = k /\ label = "parked" THEN mFree[k] - 1 ELSE mFree[k]
    <3>1. CASE mFree' = [mFree EXCEPT ![kind[t]] = @ - 1] /\ pc' = [pc EXCEPT ![t] = "parked"]
      BY <3>1 DEF TypeOK
    <3>2. CASE mFree' = mFree /\ pc' = [pc EXCEPT ![t] = "print"]
      BY <3>2
    <3> QED BY <1>5, <3>1, <3>2 DEF carOwner
  <2>3. /\ ~GoesOn(t, k, pc[t]) /\ ~GoesOn(t, k, label)
        /\ ~GoesCalling(t, k, pc[t]) /\ (GoesCalling(t, k, label) <=> kind[t] = k /\ label = "parked")
    BY <2>1 DEF GoesOn, GoesCalling
  <2>4. /\ Cardinality(Going(k)') = Cardinality(Going(k))
        /\ kind[t] = k /\ label = "parked" => Cardinality(Calling(k)') = Cardinality(Calling(k)) + 1
        /\ ~(kind[t] = k /\ label = "parked") => Cardinality(Calling(k)') = Cardinality(Calling(k))
    <3>1. CASE GoesCalling(t, k, label)
      BY <2>1, <2>2, <2>3, <3>1, GoingMoved, CallingMoved
    <3>2. CASE ~GoesCalling(t, k, label)
      BY <2>1, <2>2, <2>3, <3>2, GoingMoved, CallingMoved
    <3> QED BY <2>3, <3>1, <3>2
  <2> QED BY <1>0, <2>1, <2>2, <2>4, ClaimParts DEF Covered
<1>6. CASE CallValet(t)
  <2>1. /\ pc[t] = "parked" /\ pc' = [pc EXCEPT ![t] = "unlock"] /\ kind' = kind
        /\ inCharge'[k] = IF kind[t] = k THEN inCharge[k] + 1 ELSE inCharge[k]
        /\ mFree' = mFree /\ permanent' = permanent
    BY <1>6 DEF CallValet, TypeOK
  <2>2. /\ ~GoesOn(t, k, pc[t]) /\ ~GoesOn(t, k, "unlock")
        /\ (GoesCalling(t, k, pc[t]) => kind[t] = k) /\ ~GoesCalling(t, k, "unlock")
    BY <2>1 DEF GoesOn, GoesCalling
  <2>3. /\ Cardinality(Going(k)') = Cardinality(Going(k))
        /\ \/ Cardinality(Calling(k)') = Cardinality(Calling(k))
           \/ kind[t] = k /\ Cardinality(Calling(k)') = Cardinality(Calling(k)) - 1
    <3>1. Cardinality(Going(k)') = Cardinality(Going(k))
      BY <2>1, <2>2, GoingMoved
    <3>2. CASE GoesCalling(t, k, pc[t])
      BY <2>1, <2>2, <3>1, <3>2, CallingMoved
    <3>3. CASE ~GoesCalling(t, k, pc[t])
      <4>1. Cardinality(Calling(k)') = Cardinality(Calling(k))
        BY <2>1, <2>2, <3>3, CallingMoved
      <4> QED BY <3>1, <4>1
    <3> QED BY <3>2, <3>3
  <2> QED BY <1>0, <2>1, <2>3, ClaimParts DEF Covered
(* A valet moves a vehicle, and with it goes its claim.                    *)
<1>7. CASE carAttendant(t)
  <2>1. /\ pc[t] = "test" /\ t \in Attendants /\ t \notin Owners /\ kind' = kind /\ inCharge' = inCharge
        /\ pc' = [pc EXCEPT ![t] = "print"]
    BY <1>0, <1>7 DEF carAttendant
  <2>2. /\ GoesOn(t, k, pc[t]) <=> kind[t] = k
        /\ ~GoesOn(t, k, "print") /\ ~GoesCalling(t, k, pc[t]) /\ ~GoesCalling(t, k, "print")
    BY <2>1 DEF GoesOn, GoesCalling
  <2>3. /\ Cardinality(Calling(k)') = Cardinality(Calling(k))
        /\ kind[t] = k => Cardinality(Going(k)') = Cardinality(Going(k)) - 1
        /\ kind[t] # k => Cardinality(Going(k)') = Cardinality(Going(k))
    BY <2>1, <2>2, GoingMoved, CallingMoved
  <2>4. \/ /\ kind[t] = k /\ permanent[k] > 0
           /\ permanent'[k] = permanent[k] - 1 /\ mFree'[k] = mFree[k] + 1
        \/ kind[t] = k /\ permanent[k] = 0 /\ permanent'[k] = permanent[k]
        \/ kind[t] # k /\ permanent'[k] = permanent[k] /\ mFree'[k] = mFree[k]
    BY <1>0, <1>7 DEF carAttendant, TypeOK
  <2> QED BY <1>0, <2>1, <2>3, <2>4, ClaimParts DEF Covered
<1>8. CASE carExit(t)
  <2>1. /\ pc[t] = "test" /\ t \notin Attendants /\ kind' = kind /\ inCharge' = inCharge
        /\ permanent' = permanent
    BY <1>0, <1>8 DEF carExit
  <2>2. PICK label \in {"print", "unlock"} : pc' = [pc EXCEPT ![t] = label]
    BY <1>8 DEF carExit
  <2>3. /\ ~GoesOn(t, k, pc[t]) /\ ~GoesOn(t, k, label)
        /\ ~GoesCalling(t, k, pc[t]) /\ ~GoesCalling(t, k, label)
    BY <2>1, <2>2 DEF GoesOn, GoesCalling
  <2>4. /\ Cardinality(Going(k)') = Cardinality(Going(k))
        /\ Cardinality(Calling(k)') = Cardinality(Calling(k))
    BY <2>1, <2>2, <2>3, GoingMoved, CallingMoved
  <2>5. mFree'[k] = mFree[k] \/ mFree'[k] = mFree[k] + 1
    BY <1>0, <1>8 DEF carExit, TypeOK
  <2> QED BY <1>0, <2>1, <2>4, <2>5, ClaimParts DEF Covered
<1>9. ~Cancelled(t)
  BY DEF Cancelled
<1> QED BY <1>2, <1>3, <1>4, <1>5, <1>6, <1>7, <1>8, <1>9 DEF VisitorStep

(* While a kind has permanent spots left and nobody has been cancelled,    *)
(* no vehicle waits in a temporary spot with no valet to come: every owner *)
(* that took a spot calls one, and every valet that answers either moves a *)
(* vehicle or finds no permanent spot left.                                *)
THEOREM NobodyForgotten == Spec => []NoForgottenVehicle
<1> DEFINE Inv == cancelled = {} => \A k \in Kinds : Covered(k)
<1> USE LotAssumption
<1>1. Init => Inv
  <2> SUFFICES ASSUME Init, NEW k \in Kinds PROVE Covered(k)
    OBVIOUS
  <2>1. mFree[k] = Capacity[k] /\ Capacity[k] \in Nat /\ inCharge[k] = 0
    BY DEF Init
  <2>2. Cardinality(Going(k)) \in Nat /\ Cardinality(Calling(k)) \in Nat
    BY Finite
  <2> QED BY <2>1, <2>2, ClaimParts DEF Covered
<1>2. TypeOK /\ ValetInv /\ Inv /\ [Next]_vars => Inv'
  <2> SUFFICES ASSUME TypeOK, ValetInv, Inv, [Next]_vars, cancelled' = {}, NEW k \in Kinds PROVE Covered(k)'
    BY DEF Covered
  <2>1. cancelled = {} /\ Covered(k)
    <3>1. cancelled \subseteq cancelled'
      BY DEF Next, Draw, VisitorStep, TakeToken, Enter, LockMutex, Unlock, PostNew, carOwner, CallValet,
         carAttendant, carExit, Printed, Cancelled, MainStep, check_all_spots_full, MainLock, MainUnlock,
         Decide, StartJoining, JoinAll, CancelOne, signal_handler, Ended, vars, mainVars
    <3> QED BY <3>1
  <2>2. ASSUME NEW t \in Visitors, VisitorStep(t) PROVE Covered(k)'
    BY <2>1, <2>2, VisitorCovers
  <2>3. ASSUME NEW t \in Owners \cup Exits, NEW j \in Kinds, Draw(t, j) PROVE Covered(k)'
    <3>1. /\ UNCHANGED <<mFree, permanent, inCharge>>
          /\ pc[t] = "idle" /\ pc' = [pc EXCEPT ![t] = "enter"] /\ kind' = [kind EXCEPT ![t] = j]
      BY <2>3 DEF Draw, At, Go, lotVars, semVars
    <3>2. /\ \A u \in Visitors : pc'[u] = IF u = t THEN "enter" ELSE pc[u]
          /\ \A u \in Visitors : u # t => kind'[u] = kind[u]
          /\ t \notin Attendants
      BY <3>1 DEF TypeOK
    <3>3. \A i \in Kinds : Going(i)' = Going(i) /\ Calling(i)' = Calling(i)
      BY <3>1, <3>2 DEF Going, Calling
    <3>4. Quiet
      BY <3>1, <3>3 DEF Quiet
    <3> QED BY <2>1, <3>4, CoveredKept
  <2>4. CASE MainStep \/ signal_handler \/ Ended \/ UNCHANGED vars
    <3>1. /\ UNCHANGED <<mFree, permanent, inCharge, kind>>
          /\ \A u \in Visitors : pc'[u] = pc[u]
      BY <2>4 DEF MainStep, check_all_spots_full, MainLock, MainUnlock, Decide, StartJoining, JoinAll, CancelOne,
         signal_handler, Ended, vars, lotVars, semVars, mainVars, At, Go, TypeOK
    <3>2. \A i \in Kinds : Going(i)' = Going(i) /\ Calling(i)' = Calling(i)
      BY <3>1 DEF Going, Calling
    <3>3. Quiet
      BY <3>1, <3>2 DEF Quiet
    <3> QED BY <2>1, <3>3, CoveredKept
  <2> QED BY <2>2, <2>3, <2>4 DEF Next
<1>3. Inv => NoForgottenVehicle
  BY DEF NoForgottenVehicle, Covered
<1> QED BY <1>1, <1>2, <1>3, TypeCorrect, ValetInvariant, PTL DEF Spec
=============================================================================
