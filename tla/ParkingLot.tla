----------------------------- MODULE ParkingLot -----------------------------
(***************************************************************************)
(* The parking lot of hw3/main.c: owners park in temporary spots,          *)
(* attendants move vehicles to permanent spots, exits empty temporary      *)
(* spots, and main polls for a full lot, then cancels and joins everybody. *)
(*                                                                         *)
(* Every visit to the counters of a kind of vehicle goes through that      *)
(* kind's semaphore (newAutomobile, newPickup) and then its mutex.         *)
(* Cancellation is deferred: it acts in sem_wait, in sleep and, possibly,  *)
(* in printf, and never in pthread_mutex_lock.                             *)
(***************************************************************************)
EXTENDS Integers, FiniteSets

CONSTANTS
  Owners, Attendants, Exits,  \* carOwner, carAttendant and carExit threads
  Main, Nobody,
  Capacity,                   \* temporary (and permanent) spots of each kind
  MaxArrivals,                \* bound of the model: arrivals in a behaviour
  SigInt                      \* whether SIGINT may arrive

Kinds == {"automobile", "pickup"}
Visitors == Owners \cup Attendants \cup Exits
Threads == Visitors \cup {Main}

ASSUME LotAssumption ==
  /\ Capacity \in [Kinds -> Nat \ {0}]
  /\ Owners \cap Attendants = {} /\ Owners \cap Exits = {} /\ Attendants \cap Exits = {}
  /\ IsFiniteSet(Visitors)
  /\ Main \notin Visitors /\ Nobody \notin Threads
  /\ MaxArrivals \in Nat
  /\ SigInt \in BOOLEAN

VARIABLES
  mFree, permanent,   \* free spots of each kind
  new,                \* the semaphores newAutomobile and newPickup
  inCharge,           \* the semaphores inChargeforAutomobile and inChargeforPickup
  mutex,              \* who holds automobile_mutex and pickup_mutex
  pc, kind,           \* where each thread is, and vehicleType (the valet's turn)
  all_spots_full,
  cancelled,          \* threads pthread_cancel was called on
  arrivals

lotVars == <<mFree, permanent>>
semVars == <<new, inCharge>>
mainVars == <<all_spots_full, cancelled>>
vars == <<lotVars, semVars, mutex, pc, kind, mainVars, arrivals>>

(* Where a thread has passed the semaphore and not given it back.          *)
InSection == {"lock", "test", "parked", "print", "unlock", "post"}
VisitorPc == {"idle", "token", "enter", "ended"} \cup InSection
MainPc == {"poll", "lock_pickup", "check", "unlock_pickup", "decide", "cancel", "join", "ended",
           "interrupted"}

TypeOK ==
  /\ mFree \in [Kinds -> Nat] /\ permanent \in [Kinds -> Nat]
  /\ new \in [Kinds -> Nat] /\ inCharge \in [Kinds -> Nat]
  /\ mutex \in [Kinds -> Threads \cup {Nobody}]
  /\ pc \in [Threads -> VisitorPc \cup MainPc]
  /\ pc[Main] \in MainPc
  /\ \A t \in Visitors : pc[t] \in VisitorPc
  /\ kind \in [Visitors -> Kinds]
  /\ all_spots_full \in BOOLEAN
  /\ cancelled \subseteq Visitors
  /\ arrivals \in Nat

(* initialize_semaphores, and the threads created.                         *)
Init ==
  /\ mFree = Capacity /\ permanent = Capacity
  /\ new = [k \in Kinds |-> 1]
  /\ inCharge = [k \in Kinds |-> 0]
  /\ mutex = [k \in Kinds |-> Nobody]
  /\ pc = [t \in Threads |-> IF t = Main THEN "poll" ELSE IF t \in Attendants THEN "token" ELSE "idle"]
  /\ kind = [t \in Visitors |-> "automobile"]
  /\ all_spots_full = FALSE
  /\ cancelled = {}
  /\ arrivals = 0
-----------------------------------------------------------------------------
Running == pc[Main] \notin {"ended", "interrupted"}
At(t, label) == Running /\ pc[t] = label
Go(t, label) == pc' = [pc EXCEPT ![t] = label]
Start(t) == IF t \in Attendants THEN "token" ELSE "idle"
OtherKind(k) == IF k = "automobile" THEN "pickup" ELSE "automobile"

(* An owner or an exit wakes up and draws a vehicle type.                  *)
Draw(t, k) ==
  /\ At(t, "idle")
  /\ t \notin cancelled
  /\ kind' = [kind EXCEPT ![t] = k]
  /\ Go(t, "enter")
  /\ IF t \in Owners THEN arrivals < MaxArrivals /\ arrivals' = arrivals + 1 ELSE UNCHANGED arrivals
  /\ UNCHANGED <<lotVars, semVars, mutex, mainVars>>

(* sem_wait(&inChargefor...): a valet waits for a vehicle of its kind.     *)
TakeToken(t) ==
  /\ At(t, "token")
  /\ t \notin cancelled
  /\ inCharge[kind[t]] > 0
  /\ inCharge' = [inCharge EXCEPT ![kind[t]] = @ - 1]
  /\ Go(t, "enter")
  /\ UNCHANGED <<lotVars, new, mutex, kind, mainVars, arrivals>>

(* Mutant: the semaphore is not waited for.                                *)
EnterUnguarded(t) ==
  /\ At(t, "enter")
  /\ t \notin cancelled
  /\ Go(t, "lock")
  /\ UNCHANGED <<lotVars, semVars, mutex, kind, mainVars, arrivals>>

(* sem_wait(&new...), pthread_mutex_lock, and the visit's last two calls.  *)
Enter(t) ==
  /\ At(t, "enter")
  /\ t \notin cancelled
  /\ new[kind[t]] > 0
  /\ new' = [new EXCEPT ![kind[t]] = @ - 1]
  /\ Go(t, "lock")
  /\ UNCHANGED <<lotVars, inCharge, mutex, kind, mainVars, arrivals>>

LockMutex(t) ==
  /\ At(t, "lock")
  /\ mutex[kind[t]] = Nobody
  /\ mutex' = [mutex EXCEPT ![kind[t]] = t]
  /\ Go(t, "test")
  /\ UNCHANGED <<lotVars, semVars, kind, mainVars, arrivals>>

Unlock(t) ==
  /\ At(t, "unlock")
  /\ mutex' = [mutex EXCEPT ![kind[t]] = Nobody]
  /\ Go(t, "post")
  /\ UNCHANGED <<lotVars, semVars, kind, mainVars, arrivals>>

PostNew(t) ==
  /\ At(t, "post")
  /\ new' = [new EXCEPT ![kind[t]] = @ + 1]
  /\ Go(t, Start(t))
  /\ kind' = IF t \in Attendants THEN [kind EXCEPT ![t] = OtherKind(@)] ELSE kind
  /\ UNCHANGED <<lotVars, inCharge, mutex, mainVars, arrivals>>
-----------------------------------------------------------------------------
(* Inside the mutex.                                                       *)

(* Mutant: the valet is not called.                                        *)
OwnerForgetsValet(t) ==
  /\ At(t, "test")
  /\ t \in Owners
  /\ mFree[kind[t]] > 0
  /\ mFree' = [mFree EXCEPT ![kind[t]] = @ - 1]
  /\ Go(t, "unlock")
  /\ UNCHANGED <<permanent, semVars, mutex, kind, mainVars, arrivals>>

(* carOwner: park if a temporary spot is free, print, and call the valet.  *)
carOwner(t) ==
  /\ At(t, "test")
  /\ t \in Owners
  /\ \/ /\ mFree[kind[t]] > 0
        /\ mFree' = [mFree EXCEPT ![kind[t]] = @ - 1]
        /\ Go(t, "parked")
     \/ /\ mFree[kind[t]] <= 0
        /\ Go(t, "print")
        /\ UNCHANGED mFree
  /\ UNCHANGED <<permanent, semVars, mutex, kind, mainVars, arrivals>>

CallValet(t) ==
  /\ At(t, "parked")
  /\ inCharge' = [inCharge EXCEPT ![kind[t]] = @ + 1]
  /\ Go(t, "unlock")
  /\ UNCHANGED <<lotVars, new, mutex, kind, mainVars, arrivals>>

(* Mutant: a vehicle is moved although no permanent spot is free.          *)
AttendantUnchecked(t) ==
  /\ At(t, "test")
  /\ t \in Attendants
  /\ permanent' = [permanent EXCEPT ![kind[t]] = @ - 1]
  /\ mFree' = [mFree EXCEPT ![kind[t]] = @ + 1]
  /\ Go(t, "print")
  /\ UNCHANGED <<semVars, mutex, kind, mainVars, arrivals>>

(* carAttendant: move the vehicle if a permanent spot is free.             *)
carAttendant(t) ==
  /\ At(t, "test")
  /\ t \in Attendants
  /\ IF permanent[kind[t]] > 0
       THEN /\ permanent' = [permanent EXCEPT ![kind[t]] = @ - 1]
            /\ mFree' = [mFree EXCEPT ![kind[t]] = @ + 1]
       ELSE UNCHANGED lotVars
  /\ Go(t, "print")
  /\ UNCHANGED <<semVars, mutex, kind, mainVars, arrivals>>

(* Mutant: a vehicle leaves although no temporary spot is taken.           *)
ExitUnchecked(t) ==
  /\ At(t, "test")
  /\ t \in Exits
  /\ mFree' = [mFree EXCEPT ![kind[t]] = @ + 1]
  /\ Go(t, "print")
  /\ UNCHANGED <<permanent, semVars, mutex, kind, mainVars, arrivals>>

(* carExit: a vehicle leaves a temporary spot, if one is taken.            *)
carExit(t) ==
  /\ At(t, "test")
  /\ t \in Exits
  /\ \/ /\ mFree[kind[t]] < Capacity[kind[t]]
        /\ mFree' = [mFree EXCEPT ![kind[t]] = @ + 1]
        /\ Go(t, "print")
     \/ /\ mFree[kind[t]] >= Capacity[kind[t]]
        /\ Go(t, "unlock")
        /\ UNCHANGED mFree
  /\ UNCHANGED <<permanent, semVars, mutex, kind, mainVars, arrivals>>

Printed(t) ==
  /\ At(t, "print")
  /\ Go(t, "unlock")
  /\ UNCHANGED <<lotVars, semVars, mutex, kind, mainVars, arrivals>>
-----------------------------------------------------------------------------
(* A cancelled thread ends at a cancellation point and leaves behind       *)
(* whatever it holds: no cleanup handler is installed.                     *)
Cancelled(t) ==
  /\ Running
  /\ t \in cancelled
  /\ pc[t] \in {"idle", "token", "enter", "parked", "print"}
  /\ Go(t, "ended")
  /\ UNCHANGED <<lotVars, semVars, mutex, kind, mainVars, arrivals>>

(* main: check_all_spots_full locks the automobiles, then the pickups.     *)
MainLock(k, from, to) ==
  /\ At(Main, from)
  /\ mutex[k] = Nobody
  /\ mutex' = [mutex EXCEPT ![k] = Main]
  /\ Go(Main, to)
  /\ UNCHANGED <<lotVars, semVars, kind, mainVars, arrivals>>

MainUnlock(k, from, to) ==
  /\ At(Main, from)
  /\ mutex' = [mutex EXCEPT ![k] = Nobody]
  /\ Go(Main, to)
  /\ UNCHANGED <<lotVars, semVars, kind, cancelled, arrivals>>

AllFull == \A k \in Kinds : permanent[k] = 0 /\ mFree[k] = 0

check_all_spots_full ==
  \/ MainLock("automobile", "poll", "lock_pickup")
  \/ MainLock("pickup", "lock_pickup", "check")
  \/ /\ MainUnlock("automobile", "check", "unlock_pickup")
     /\ all_spots_full' = (all_spots_full \/ AllFull)
  \/ /\ MainUnlock("pickup", "unlock_pickup", "decide")
     /\ UNCHANGED all_spots_full

(* Mutant: the flag's new value goes unseen.                               *)
DecideBlindly ==
  /\ At(Main, "decide")
  /\ Go(Main, "poll")
  /\ UNCHANGED <<lotVars, semVars, mutex, kind, mainVars, arrivals>>

Decide ==
  /\ At(Main, "decide")
  /\ Go(Main, IF all_spots_full THEN "cancel" ELSE "poll")
  /\ UNCHANGED <<lotVars, semVars, mutex, kind, mainVars, arrivals>>

(* The cancelling loop, one thread at a time (in any order), then joins.   *)
CancelOne(t) ==
  /\ At(Main, "cancel")
  /\ t \notin cancelled
  /\ cancelled' = cancelled \cup {t}
  /\ UNCHANGED <<lotVars, semVars, mutex, pc, kind, all_spots_full, arrivals>>

StartJoining ==
  /\ At(Main, "cancel")
  /\ cancelled = Visitors
  /\ Go(Main, "join")
  /\ UNCHANGED <<lotVars, semVars, mutex, kind, mainVars, arrivals>>

JoinAll ==
  /\ At(Main, "join")
  /\ \A t \in Visitors : pc[t] = "ended"
  /\ Go(Main, "ended")
  /\ UNCHANGED <<lotVars, semVars, mutex, kind, mainVars, arrivals>>

(* SIGINT, on whichever thread: exit(0).                                   *)
signal_handler ==
  /\ Running
  /\ SigInt
  /\ Go(Main, "interrupted")
  /\ UNCHANGED <<lotVars, semVars, mutex, kind, mainVars, arrivals>>

VisitorStep(t) ==
  \/ TakeToken(t) \/ Enter(t) \/ LockMutex(t) \/ Unlock(t) \/ PostNew(t)
  \/ carOwner(t) \/ CallValet(t) \/ carAttendant(t) \/ carExit(t) \/ Printed(t)
  \/ Cancelled(t)
MainStep == check_all_spots_full \/ Decide \/ StartJoining \/ JoinAll \/ \E t \in Visitors : CancelOne(t)
Ended == ~Running /\ UNCHANGED vars

Next ==
  \/ \E t \in Owners \cup Exits, k \in Kinds : Draw(t, k)
  \/ \E t \in Visitors : VisitorStep(t)
  \/ MainStep
  \/ signal_handler
  \/ Ended

Spec == Init /\ [][Next]_vars

(* Every thread that can run is scheduled; main gets a mutex that keeps    *)
(* being released.                                                         *)
Fairness ==
  /\ \A t \in Visitors : WF_vars(VisitorStep(t)) /\ SF_vars(LockMutex(t))
  /\ SF_vars(MainStep)
FairSpec == Spec /\ Fairness
-----------------------------------------------------------------------------
(* SpotsBalance.  The free spots of a kind, temporary and permanent, never *)
(* outnumber the spots that exist, whoever moves or leaves when.           *)
SpotsBalance ==
  \A k \in Kinds : /\ permanent[k] <= Capacity[k]
                   /\ mFree[k] + permanent[k] <= 2 * Capacity[k]

(* NoForgottenVehicle.  While a kind has permanent spots left, each of its *)
(* vehicles in a temporary spot is one a valet has been called for, or is  *)
(* on its way to, or whose owner is about to call one.                     *)
Claims(k) ==
  inCharge[k]
  + Cardinality({t \in Attendants : kind[t] = k /\ pc[t] \in {"enter", "lock", "test"}})
  + Cardinality({t \in Owners : kind[t] = k /\ pc[t] = "parked"})
NoForgottenVehicle ==
  cancelled = {} =>
    \A k \in Kinds : permanent[k] > 0 => Capacity[k] - mFree[k] <= Claims(k)

(* NoOrphanedWait.  A thread cancelled inside printf keeps its mutex for   *)
(* ever, yet no thread ever waits for that mutex: its semaphore is gone    *)
(* with it.  (pthread_mutex_lock is no cancellation point, so a thread     *)
(* that did would never be joined.)                                        *)
NoOrphanedWait ==
  \A t \in Visitors : pc[t] = "lock" =>
    \A u \in Visitors : mutex[kind[t]] = u => pc[u] # "ended"

(* OneVisitor.  The semaphore admits one thread to a kind's counters.      *)
HoldsSemaphore(t, k) ==
  \/ pc[t] \in InSection /\ kind[t] = k
  \/ pc[t] = "ended" /\ mutex[k] = t
OneVisitor ==
  \A k \in Kinds : \A t, u \in Visitors :
    HoldsSemaphore(t, k) /\ HoldsSemaphore(u, k) => t = u

(* Closes.  Once main has found the lot full, every thread ends and the    *)
(* program terminates.                                                     *)
Closes == all_spots_full ~> ~Running
=============================================================================
