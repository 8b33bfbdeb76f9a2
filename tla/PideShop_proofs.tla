-------------------------- MODULE PideShop_proofs ---------------------------
(***************************************************************************)
(* Proofs about PideShop for every number of cooks, couriers and orders    *)
(* and every capacity.                                                     *)
(***************************************************************************)
EXTENDS PideShop, FiniteSetTheorems, SequenceTheorems, TLAPS

USE DEF Threads, CookPc, CourierPc, MainPc, CompletionPc

Labels == CookPc \cup CourierPc \cup MainPc \cup CompletionPc
PcType == pc \in [Threads -> Labels]
OvenInv == PcType /\ OvenAccounting

(* A step that leaves the oven alone starts and ends no baking.            *)
NoBaking ==
  /\ UNCHANGED ovenVars
  /\ pc' \in [Threads -> Labels]
  /\ \A c \in Cooks : pc'[c] = "bake" <=> pc[c] = "bake"

LEMMA NoBakingKeeps == ASSUME OvenInv, NoBaking PROVE OvenInv'
BY DEF OvenInv, PcType, NoBaking, OvenAccounting, Baking, ovenVars

(* pthread_cond_signal wakes nobody into the oven.                         *)
LEMMA SignalKeeps ==
  ASSUME PcType, NEW sleepers, sleepers \subseteq Threads, NEW t \in Threads, NEW l \in Labels,
         \A s \in sleepers : pc[s] \in {"idle", "oven_wait", "pick_wait", "deliveries_wait", "orders_wait"},
         l # "bake", pc[t] # "bake",
         Signal(sleepers, [pc EXCEPT ![t] = l])
  PROVE  /\ pc' \in [Threads -> Labels]
         /\ \A c \in Cooks : pc'[c] = "bake" <=> pc[c] = "bake"
BY DEF PcType, Signal, Woken, Labels

LEMMA OvenAlways == Spec => []OvenInv
<1> USE ShopAssumption
<1>1. Init => OvenInv
  <2> SUFFICES ASSUME Init PROVE OvenInv
    OBVIOUS
  <2>1. PcType
    BY DEF Init, PcType, Labels
  <2>2. Baking = {}
    BY DEF Init, Baking
  <2> QED
    BY <2>1, <2>2, FS_EmptySet DEF Init, OvenInv, OvenAccounting
<1>2. OvenInv /\ [Next]_vars => OvenInv'
  <2> SUFFICES ASSUME OvenInv, [Next]_vars PROVE OvenInv'
    OBVIOUS
  <2> USE DEF OvenInv
  <2>0. IsFiniteSet(Baking) /\ Cardinality(Baking) \in Nat
    BY FS_Subset, FS_CardinalityType DEF Baking
  <2>1. CASE ClientSends \/ UNCHANGED vars
    <3>1. NoBaking
      BY <2>1 DEF ClientSends, vars, NoBaking, PcType
    <3> QED
      BY <3>1, NoBakingKeeps
  <2>2. CASE CompletionStep
    <3>1. NoBaking
      BY <2>2 DEF CompletionStep, CompletionAccepts, CompletionReads, CompletionWaits, Go, NoBaking,
         PcType, Labels
    <3> QED
      BY <3>1, NoBakingKeeps
  <2>3. CASE MainStep
    <3>1. NoBaking
      BY <2>3 DEF MainStep, MainAccepts, MainReads, MainWaitsOrders, DeliveriesRead,
         wait_for_all_deliveries, ResetTotal, ResetCompleted, ResetActive, MainUnchanged, Go, NoBaking,
         PcType, Labels
    <3> QED
      BY <3>1, NoBakingKeeps
  <2>4. ASSUME NEW o \in Orders, HandlerStep(o) PROVE OvenInv'
    <3>1. NoBaking
      BY <2>4 DEF HandlerStep, RefuseOrder, EnterOrder, CountTotal, CountOrder, HandlerUnchanged, Signal,
         OnOrderCond, Woken, NoBaking, PcType, Labels
    <3> QED
      BY <3>1, NoBakingKeeps
  <2>5. ASSUME NEW d \in Couriers, CourierStep(d) PROVE OvenInv'
    <3>1. CASE CourierTells(d) \/ decrement_pending_deliveries(d)
      <4>1. /\ OnCompletionCond \subseteq Threads /\ OnDeliveryCond \subseteq Threads
            /\ \A s \in OnCompletionCond \cup OnDeliveryCond :
                 pc[s] \in {"pick_wait", "deliveries_wait", "orders_wait"}
        BY DEF OnCompletionCond, OnDeliveryCond
      <4>2. PcType /\ pc[d] # "bake" /\ UNCHANGED ovenVars
        BY <3>1 DEF CourierTells, decrement_pending_deliveries, CourierUnchanged
      <4>3. \/ Signal(OnCompletionCond, [pc EXCEPT ![d] = "unload"])
            \/ Signal(OnDeliveryCond, [pc EXCEPT ![d] = "pick"])
        BY <3>1 DEF CourierTells, decrement_pending_deliveries
      <4>4. "unload" \in Labels /\ "pick" \in Labels
        BY DEF Labels
      <4>5. NoBaking
        BY <4>1, <4>2, <4>3, <4>4, SignalKeeps DEF NoBaking
      <4> QED
        BY <4>5, NoBakingKeeps
    <3>2. CASE ~(CourierTells(d) \/ decrement_pending_deliveries(d))
      <4>1. NoBaking
        BY <2>5, <3>2 DEF CourierStep, CourierTakes, CourierCounts, CourierSleeps, CourierLeaves,
           increment_pending_deliveries, CourierDelivers, CourierUnchanged, Go, NoBaking, PcType, Labels
      <4> QED
        BY <4>1, NoBakingKeeps
    <3> QED
      BY <3>1, <3>2
  <2>6. ASSUME NEW t \in Threads, SpuriousWake(t) PROVE OvenInv'
    <3>1. NoBaking
      BY <2>6 DEF SpuriousWake, Woken, Go, NoBaking, PcType, Labels
    <3> QED
      BY <3>1, NoBakingKeeps
  <2>7. ASSUME NEW c \in Cooks, CookStep(c) PROVE OvenInv'
    <3>1. CASE CookIdles(c) \/ CookTakes(c) \/ OvenWaits(c)
      <4>1. NoBaking
        BY <3>1 DEF CookIdles, CookTakes, OvenWaits, CookUnchanged, Go, NoBaking, PcType, Labels, ovenVars
      <4> QED
        BY <4>1, NoBakingKeeps
    <3>2. CASE CookAnnounces(c)
      <4>1. /\ OnDeliveryCond \subseteq Threads
            /\ \A s \in OnDeliveryCond : pc[s] \in {"pick_wait", "deliveries_wait"}
        BY DEF OnDeliveryCond
      <4>2. /\ PcType /\ pc[c] # "bake" /\ UNCHANGED ovenVars
            /\ Signal(OnDeliveryCond, [pc EXCEPT ![c] = "look"])
        BY <3>2 DEF CookAnnounces
      <4>3. "look" \in Labels
        BY DEF Labels
      <4>4. NoBaking
        BY <4>1, <4>2, <4>3, SignalKeeps DEF NoBaking
      <4> QED
        BY <4>4, NoBakingKeeps
    <3>3. CASE OvenStarts(c)
      <4>1. PcType' /\ c \notin Baking /\ Baking' = Baking \cup {c}
        BY <3>3 DEF OvenStarts, Go, PcType, Labels, Baking
      <4>2. Cardinality(Baking') = Cardinality(Baking) + 1
        BY <2>0, <4>1, FS_AddElement
      <4> QED
        BY <2>0, <3>3, <4>1, <4>2 DEF OvenStarts, OvenUnavailable, OvenAccounting
    <3>4. CASE OvenEnds(c)
      <4>1. PcType' /\ c \in Baking /\ Baking' = Baking \ {c}
        BY <3>4 DEF OvenEnds, Signal, OnOrderCond, Woken, PcType, Labels, Baking
      <4>2. Cardinality(Baking') = Cardinality(Baking) - 1
        BY <2>0, <4>1, FS_RemoveElement
      <4> QED
        BY <2>0, <3>4, <4>1, <4>2 DEF OvenEnds, OvenAccounting
    <3> QED
      BY <2>7, <3>1, <3>2, <3>3, <3>4 DEF CookStep
  <2> QED
    BY <2>1, <2>2, <2>3, <2>4, <2>5, <2>6, <2>7 DEF Next
<1> QED
  BY <1>1, <1>2, PTL DEF Spec

(* OvenAccounted: whatever cooks and resets do, the apparatus in use and   *)
(* the oven's occupancy are those of the cooks that are baking.            *)
THEOREM OvenAccounted == Spec => []OvenAccounting
<1>1. OvenInv => OvenAccounting
  BY DEF OvenInv
<1> QED
  BY <1>1, OvenAlways, PTL

-----------------------------------------------------------------------------
(* What becomes of the orders.                                             *)
(* The least element of a set of slots exists, so the loops of the cooks   *)
(* and couriers find an order when there is one.                           *)
LEMMA FirstIsLeast ==
  ASSUME NEW S \in SUBSET Nat, S # {}
  PROVE  First(S) \in S /\ \A j \in S : First(S) <= j
<1> DEFINE T == {0 .. i : i \in S}
<1>1. T \subseteq FiniteSubsetsOf(Nat) /\ T # {}
  <2>1. \A i \in Nat : 0 .. i \in SUBSET Nat /\ IsFiniteSet(0 .. i)
    BY FS_Interval
  <2> QED
    BY <2>1 DEF FiniteSubsetsOf
<1>2. PICK x \in T : \A y \in T : ~(<<y, x>> \in StrictSubsetOrdering(Nat))
  BY <1>1, FS_StrictSubsetOrderingWellFounded, WFMin
<1>3. PICK i \in S : x = 0 .. i
  OBVIOUS
<1>4. ASSUME NEW j \in S, j < i PROVE FALSE
  <2>1. 0 .. j \subseteq 0 .. i /\ i \in 0 .. i /\ i \notin 0 .. j
    BY <1>4
  <2>2. <<0 .. j, 0 .. i>> \in StrictSubsetOrdering(Nat)
    BY <2>1 DEF StrictSubsetOrdering
  <2> QED
    BY <1>2, <1>3, <2>2
<1>5. \A j \in S : i <= j
  BY <1>4
<1> QED
  BY <1>5 DEF First
-----------------------------------------------------------------------------
(* How pc moves.                                                           *)
PcOK ==
  /\ pc \in [Threads -> CookPc \cup CourierPc \cup MainPc \cup CompletionPc]
  /\ \A c \in Cooks : pc[c] \in CookPc
  /\ \A d \in Couriers : pc[d] \in CourierPc
  /\ pc[Main] \in MainPc /\ pc[Completion] \in CompletionPc

Fits(t, label) ==
  /\ t \in Cooks => label \in CookPc
  /\ t \in Couriers => label \in CourierPc
  /\ t = Main => label \in MainPc
  /\ t = Completion => label \in CompletionPc

Wakes == {<<"idle", "look">>, <<"oven_wait", "oven">>, <<"pick_wait", "pick">>,
          <<"orders_wait", "orders">>, <<"deliveries_wait", "deliveries">>}
Rests(t) == pc'[t] = pc[t] \/ <<pc[t], pc'[t]>> \in Wakes
Moves(t, label) == PcOK' /\ pc'[t] = label /\ \A s \in Threads \ {t} : Rests(s)
OnlyWakes == PcOK' /\ \A s \in Threads : Rests(s)

LEMMA GoMoves ==
  ASSUME PcOK, NEW t \in Threads, NEW label, Fits(t, label), Go(t, label)
  PROVE  Moves(t, label)
BY ShopAssumption DEF PcOK, Fits, Go, Moves, Rests

LEMMA SleepersSleep ==
  ASSUME PcOK, NEW sleepers \in {OnOrderCond, OnDeliveryCond, OnCompletionCond}
  PROVE  \A s \in sleepers : /\ s \in Threads /\ <<pc[s], Woken(pc[s])>> \in Wakes
                             /\ Fits(s, Woken(pc[s]))
BY ShopAssumption DEF PcOK, OnOrderCond, OnDeliveryCond, OnCompletionCond, Woken, Wakes, Fits

(* A signal wakes one thread that sleeps on the condition, or nobody.      *)
LEMMA SignalMoves ==
  ASSUME PcOK, NEW t \in Threads, NEW label, Fits(t, label),
         NEW sleepers \in {OnOrderCond, OnDeliveryCond, OnCompletionCond}, t \notin sleepers,
         Signal(sleepers, [pc EXCEPT ![t] = label])
  PROVE  Moves(t, label)
<1> DEFINE p == [pc EXCEPT ![t] = label]
<1>1. /\ p \in [Threads -> CookPc \cup CourierPc \cup MainPc \cup CompletionPc]
      /\ p[t] = label /\ \A s \in Threads \ {t} : p[s] = pc[s]
  BY DEF PcOK, Fits
<1>2. CASE pc' = p
  BY <1>1, <1>2, ShopAssumption DEF PcOK, Fits, Moves, Rests
<1>3. CASE \E s \in sleepers : pc' = [p EXCEPT ![s] = Woken(@)]
  <2>1. PICK s \in sleepers : pc' = [p EXCEPT ![s] = Woken(@)]
    BY <1>3
  <2>2. s \in Threads /\ <<pc[s], Woken(pc[s])>> \in Wakes /\ Fits(s, Woken(pc[s])) /\ s # t
    BY SleepersSleep
  <2>3. /\ pc'[s] = Woken(pc[s]) /\ pc'[t] = label /\ \A u \in Threads \ {s, t} : pc'[u] = pc[u]
        /\ pc' \in [Threads -> CookPc \cup CourierPc \cup MainPc \cup CompletionPc]
    BY <1>1, <2>1, <2>2, Zenon DEF Fits
  <2> QED
    BY <2>2, <2>3, ShopAssumption DEF PcOK, Fits, Moves, Rests
<1> QED
  BY <1>2, <1>3 DEF Signal

LEMMA CookMoves ==
  ASSUME PcOK, NEW c \in Cooks
  PROVE  /\ CookIdles(c) => Moves(c, "idle")
         /\ CookTakes(c) => Moves(c, "oven")
         /\ OvenWaits(c) => Moves(c, "oven_wait")
         /\ OvenStarts(c) => Moves(c, "bake")
         /\ OvenEnds(c) => Moves(c, "announce")
         /\ CookAnnounces(c) => Moves(c, "look")
<1>1. /\ Fits(c, "idle") /\ Fits(c, "oven") /\ Fits(c, "oven_wait") /\ Fits(c, "bake")
      /\ Fits(c, "announce") /\ Fits(c, "look")
  BY ShopAssumption DEF Fits
<1>2. /\ OvenEnds(c) => c \notin OnOrderCond
      /\ CookAnnounces(c) => c \notin OnDeliveryCond
  BY DEF OvenEnds, CookAnnounces, OnOrderCond, OnDeliveryCond
<1>3. OvenEnds(c) => Moves(c, "announce")
  BY <1>1, <1>2, SignalMoves DEF OvenEnds
<1>4. CookAnnounces(c) => Moves(c, "look")
  BY <1>1, <1>2, SignalMoves DEF CookAnnounces
<1> QED
  BY <1>1, <1>3, <1>4, GoMoves DEF CookIdles, CookTakes, OvenWaits, OvenStarts

LEMMA CourierMoves ==
  ASSUME PcOK, NEW d \in Couriers
  PROVE  /\ CourierTakes(d) => Moves(d, "count")
         /\ CourierCounts(d) => Moves(d, "pick")
         /\ CourierSleeps(d) => Moves(d, "pick_wait")
         /\ CourierLeaves(d) => Moves(d, IF bag[d] = <<>> THEN "pick" ELSE "load")
         /\ increment_pending_deliveries(d) => Moves(d, "deliver")
         /\ CourierDelivers(d) => Moves(d, IF Len(bag[d]) = 1 THEN "tell" ELSE "deliver")
         /\ CourierTells(d) => Moves(d, "unload")
         /\ decrement_pending_deliveries(d) => Moves(d, "pick")
<1>1. /\ Fits(d, "count") /\ Fits(d, "pick") /\ Fits(d, "pick_wait") /\ Fits(d, "load")
      /\ Fits(d, "deliver") /\ Fits(d, "tell") /\ Fits(d, "unload")
  BY ShopAssumption DEF Fits
<1>2. /\ CourierTells(d) => d \notin OnCompletionCond
      /\ decrement_pending_deliveries(d) => d \notin OnDeliveryCond
  BY DEF CourierTells, decrement_pending_deliveries, OnCompletionCond, OnDeliveryCond
<1>3. CourierTells(d) => Moves(d, "unload")
  BY <1>1, <1>2, SignalMoves DEF CourierTells
<1>4. decrement_pending_deliveries(d) => Moves(d, "pick")
  BY <1>1, <1>2, SignalMoves DEF decrement_pending_deliveries
<1>5. CourierLeaves(d) => Moves(d, IF bag[d] = <<>> THEN "pick" ELSE "load")
  BY <1>1, GoMoves DEF CourierLeaves
<1>6. CourierDelivers(d) => Moves(d, IF Len(bag[d]) = 1 THEN "tell" ELSE "deliver")
  BY <1>1, GoMoves DEF CourierDelivers
<1> QED
  BY <1>1, <1>3, <1>4, <1>5, <1>6, GoMoves DEF CourierTakes, CourierCounts, CourierSleeps,
     increment_pending_deliveries

LEMMA MainMoves ==
  ASSUME PcOK
  PROVE  /\ MainAccepts => Moves(Main, "orders")
         /\ MainReads => Moves(Main, "orders_read")
         /\ MainWaitsOrders =>
              Moves(Main, IF read[Main] < total_orders THEN "orders_wait" ELSE "deliveries")
         /\ DeliveriesRead => Moves(Main, "deliveries_wait") \/ Moves(Main, "deliveries_read")
         /\ wait_for_all_deliveries =>
              Moves(Main, IF read[Main] < total_orders THEN "deliveries_wait" ELSE "reset_total")
         /\ ResetTotal => Moves(Main, "reset_completed")
         /\ ResetCompleted => Moves(Main, "reset_active")
         /\ ResetActive => Moves(Main, "accept")
<1>1. \A label \in MainPc : Fits(Main, label)
  BY ShopAssumption DEF Fits
<1> QED
  BY <1>1, GoMoves DEF MainAccepts, MainReads, MainWaitsOrders, DeliveriesRead, wait_for_all_deliveries,
     ResetTotal, ResetCompleted, ResetActive

(* Steps of the other threads, after which the cooks, the couriers and     *)
(* main are where they were or have woken up.                              *)
LEMMA OthersMove ==
  ASSUME PcOK
  PROVE  /\ ClientSends \/ UNCHANGED vars => OnlyWakes
         /\ CompletionStep => PcOK' /\ \A s \in Threads \ {Completion} : Rests(s)
         /\ \A o \in Orders : HandlerStep(o) => OnlyWakes
         /\ \A t \in Threads : SpuriousWake(t) => OnlyWakes
<1>1. \A label \in CompletionPc : Fits(Completion, label)
  BY ShopAssumption DEF Fits
<1>2. CompletionStep => \/ Moves(Completion, "orders") \/ Moves(Completion, "orders_wait")
                        \/ Moves(Completion, "accept") \/ Moves(Completion, "orders_read")
  BY <1>1, GoMoves DEF CompletionStep, CompletionAccepts, CompletionReads, CompletionWaits
<1>3. ASSUME NEW o \in Orders, HandlerStep(o) PROVE OnlyWakes
  <2>1. CASE RefuseOrder(o) \/ EnterOrder(o) \/ CountTotal(o)
    BY <2>1 DEF RefuseOrder, EnterOrder, CountTotal, OnlyWakes, PcOK, Rests
  <2>2. CASE CountOrder(o)
    <3>1. Main \in Threads /\ Main \notin OnOrderCond /\ Fits(Main, pc[Main])
      BY ShopAssumption DEF OnOrderCond, Fits, PcOK
    <3>2. pc = [pc EXCEPT ![Main] = pc[Main]]
      BY DEF PcOK
    <3>3. Signal(OnOrderCond, [pc EXCEPT ![Main] = pc[Main]])
      BY <2>2, <3>2 DEF CountOrder
    <3>4. Moves(Main, pc[Main])
      BY <3>1, <3>3, SignalMoves
    <3> QED
      BY <3>4 DEF Moves, OnlyWakes, Rests
  <2> QED
    BY <1>3, <2>1, <2>2 DEF HandlerStep
<1>4. ASSUME NEW t \in Threads, SpuriousWake(t) PROVE OnlyWakes
  <2>1. <<pc[t], Woken(pc[t])>> \in Wakes /\ Fits(t, Woken(pc[t]))
    BY <1>4, ShopAssumption DEF SpuriousWake, PcOK, Woken, Wakes, Fits
  <2>2. Moves(t, Woken(pc[t]))
    BY <1>4, <2>1, GoMoves DEF SpuriousWake
  <2> QED
    BY <2>1, <2>2 DEF Moves, OnlyWakes, Rests
<1> QED
  BY <1>2, <1>3, <1>4 DEF ClientSends, vars, OnlyWakes, PcOK, Rests, Moves
-----------------------------------------------------------------------------
(* The type invariant, with what it rests on: handlers are created once    *)
(* per order, so the array never needs more slots than there are orders.   *)

(* The batches sent are the beginning of one plan, and the orders that     *)
(* have a handler thread are those of the accepted batches.                *)
PlanInv ==
  /\ batches = <<>> \/ \E plan \in Plans : /\ Len(batches) <= Len(plan)
                                           /\ batches = SubSeq(plan, 1, Len(batches))
  /\ \A o \in Orders : handler[o] # "none" => \E i \in 1 .. accepted : o \in batches[i]

(* The array has room for every order entered, and for the one that a      *)
(* handler is about to count.                                              *)
RoomInv ==
  /\ total_orders <= Cardinality(Entered)
  /\ \A o \in Orders :
       handler[o] = "total" => read[o] \in Nat /\ read[o] <= Cardinality(Entered)

(* One handler at a time has order_mutex.                                  *)
EnterInv ==
  \A o, p \in Orders :
    handler[o] \in {"total", "count"} /\ handler[p] \in {"total", "count"} => o = p

(* A courier on its way carries something.                                 *)
BagInv == \A d \in Couriers : pc[d] \in {"count", "load", "deliver"} => bag[d] # <<>>

(* pending_deliveries counts the couriers that are on the road.            *)
Road == {d \in Couriers : pc[d] \in {"deliver", "tell", "unload"}}
RoadInv == IsFiniteSet(Road) /\ pending_deliveries = Cardinality(Road)

ShopInv == TypeOK /\ PlanInv /\ RoomInv /\ EnterInv /\ BagInv /\ RoadInv

LEMMA BatchesApart ==
  ASSUME TypeOK, PlanInv, NEW i \in DOMAIN batches, NEW j \in DOMAIN batches, i # j
  PROVE  batches[i] \cap batches[j] = {}
<1>1. Len(batches) \in Nat /\ DOMAIN batches = 1 .. Len(batches)
  BY LenProperties DEF TypeOK
<1>2. PICK plan \in Plans : Len(batches) <= Len(plan) /\ batches = SubSeq(plan, 1, Len(batches))
  BY <1>1 DEF PlanInv
<1>3. plan \in Seq(SUBSET Orders) /\ Len(plan) \in Nat
  BY ShopAssumption, LenProperties
<1>4. \A k \in 1 .. Len(batches) : plan[k] \in SUBSET Orders
  BY <1>1, <1>2, <1>3, ElementOfSeq
<1>5. \A k \in 1 .. Len(batches) : SubSeq(plan, 1, Len(batches))[k] = plan[k]
  BY <1>1, <1>4, SubSeqProperties
<1>6. batches[i] = plan[i] /\ batches[j] = plan[j] /\ i \in 1 .. Len(plan) /\ j \in 1 .. Len(plan)
  BY <1>1, <1>2, <1>3, <1>5
<1> QED
  BY <1>6, ShopAssumption

(* The orders of the batch that main accepts have no handler thread yet.   *)
LEMMA NewBatch ==
  ASSUME ShopInv, accepted < Len(batches), NEW o \in batches[accepted + 1]
  PROVE  o \in Orders /\ handler[o] = "none"
<1>1. Len(batches) \in Nat /\ DOMAIN batches = 1 .. Len(batches) /\ accepted \in Nat
  BY LenProperties DEF ShopInv, TypeOK
<1>2. o \in Orders
  BY <1>1, ElementOfSeq DEF ShopInv, TypeOK
<1>3. ASSUME NEW i \in 1 .. accepted, o \in batches[i] PROVE FALSE
  BY <1>1, <1>3, BatchesApart DEF ShopInv
<1> QED
  BY <1>2, <1>3 DEF ShopInv, PlanInv

LEMMA EnteredFinite ==
  ASSUME TypeOK
  PROVE  IsFiniteSet(Entered) /\ Cardinality(Entered) \in Nat /\ Cardinality(Entered) <= Cardinality(Orders)
         /\ Cardinality(Orders) \in Nat
BY ShopAssumption, FS_Subset, FS_CardinalityType DEF Entered

LEMMA InStateFacts ==
  ASSUME TypeOK, NEW s, InState(s) # {}
  PROVE  /\ First(InState(s)) \in 1 .. total_orders
         /\ First(InState(s)) \in Slots
         /\ slots[First(InState(s))].state = s
<1>1. total_orders \in Nat /\ Cardinality(Orders) \in Nat /\ total_orders <= Cardinality(Orders)
  BY ShopAssumption, FS_CardinalityType DEF TypeOK
<1>2. InState(s) \in SUBSET Nat
  BY <1>1 DEF InState
<1>3. First(InState(s)) \in InState(s)
  BY <1>2, FirstIsLeast
<1> QED
  BY <1>1, <1>3 DEF InState, Slots

LEMMA TypePc == TypeOK => PcOK
BY DEF TypeOK, PcOK

LEMMA ShopInit == Init => ShopInv
<1> SUFFICES ASSUME Init PROVE ShopInv
  OBVIOUS
<1>1. PcOK
  BY ShopAssumption DEF Init, PcOK
<1>2. Cardinality(Orders) \in Nat
  BY ShopAssumption, FS_CardinalityType
<1>3. \A d \in Couriers : bag[d] = <<>> /\ pc[d] = "pick"
  BY ShopAssumption DEF Init
<1>4. Entered = {} /\ Cardinality(Entered) = 0
  BY FS_EmptySet DEF Init, Entered
<1>5. TypeOK
  <2>1. slots \in [Slots -> [order : Orders \cup {NoOrder}, state : Placed .. Completed]]
    BY DEF Init, Placed, Completed
  <2>2. batches \in Seq(SUBSET Orders) /\ accepted \in 0 .. Len(batches) /\ DOMAIN batches = {}
    BY DEF Init
  <2>3. client \in [DOMAIN batches -> {"sent", "asking", "told"}]
    BY <2>2 DEF Init
  <2>4. bag \in [Couriers -> Seq(Orders \cup {NoOrder})]
    BY DEF Init
  <2>5. /\ total_orders \in 0 .. Cardinality(Orders) /\ completed_orders \in Nat /\ active_orders \in Int
        /\ oven_occupancy \in Nat /\ apparatus_available \in Nat /\ pending_deliveries \in Nat
    BY <1>2, ShopAssumption DEF Init
  <2>7. torn \in BOOLEAN /\ raced \in BOOLEAN
    BY Zenon DEF Init
  <2>6. /\ delivery_mutex \in Couriers \cup {NoOne}
        /\ job \in [Cooks -> Slots \cup {0}] /\ read \in [Couriers \cup Orders \cup {Main, Completion} -> Int]
        /\ served \in [Orders -> Nat]
    BY DEF Init
  <2>8. handler \in [Orders -> Handling]
    BY DEF Init, Handling
  <2> QED
    BY <1>1, <2>1, <2>2, <2>3, <2>4, <2>5, <2>6, <2>7, <2>8 DEF TypeOK, PcOK
<1>6. Road = {}
  BY <1>3 DEF Road
<1> QED
  BY <1>3, <1>4, <1>5, <1>6, FS_EmptySet DEF Init, ShopInv, PlanInv, RoomInv, EnterInv, BagInv, RoadInv

(* The types of everything but pc.                                         *)
SlotType == [order : Orders \cup {NoOrder}, state : Placed .. Completed]
ArrayOK == slots \in [Slots -> SlotType] /\ total_orders \in 0 .. Cardinality(Orders)
CountersOK == /\ completed_orders \in Nat /\ active_orders \in Int
              /\ pending_deliveries \in Nat
              /\ read \in [Couriers \cup Orders \cup {Main, Completion} -> Int]
HandOK == /\ delivery_mutex \in Couriers \cup {NoOne}
          /\ job \in [Cooks -> Slots \cup {0}]
          /\ bag \in [Couriers -> Seq(Orders \cup {NoOrder})]
OvenOK == oven_occupancy \in Nat /\ apparatus_available \in Nat
BatchesOK == /\ handler \in [Orders -> Handling]
             /\ batches \in Seq(SUBSET Orders) /\ accepted \in 0 .. Len(batches)
             /\ client \in [DOMAIN batches -> {"sent", "asking", "told"}]
HistoryOK == served \in [Orders -> Nat] /\ torn \in BOOLEAN /\ raced \in BOOLEAN

LEMMA TypeParts ==
  /\ TypeOK <=> PcOK /\ ArrayOK /\ CountersOK /\ HandOK /\ OvenOK /\ BatchesOK /\ HistoryOK
  /\ TypeOK' <=> PcOK' /\ ArrayOK' /\ CountersOK' /\ HandOK' /\ OvenOK' /\ BatchesOK' /\ HistoryOK'
BY DEF TypeOK, PcOK, ArrayOK, SlotType, CountersOK, HandOK, OvenOK, BatchesOK, HistoryOK

(* What setting the state of a slot does, and leaves alone.                *)
LEMMA SetStateFacts ==
  ASSUME ArrayOK, NEW i, NEW s \in Placed .. Completed, SetState(i, s)
  PROVE  /\ slots' \in [Slots -> SlotType]
         /\ \A j \in Slots : slots'[j].order = slots[j].order
         /\ \A j \in Slots \ {i} : slots'[j].state = slots[j].state
         /\ i \in Slots => slots'[i].state = s
<1>1. slots \in [Slots -> SlotType]
  BY DEF ArrayOK
<1>2. slots' = [j \in Slots |-> IF j = i THEN [slots[j] EXCEPT !.state = s] ELSE slots[j]]
  BY <1>1 DEF SetState
<1>3. \A j \in Slots : /\ [slots[j] EXCEPT !.state = s] \in SlotType
                       /\ [slots[j] EXCEPT !.state = s].order = slots[j].order
                       /\ [slots[j] EXCEPT !.state = s].state = s
  BY <1>1 DEF SlotType
<1> QED
  BY <1>1, <1>2, <1>3

LEMMA StatesInRange == /\ Placed \in Placed .. Completed /\ Prepared \in Placed .. Completed
                       /\ Cooked \in Placed .. Completed /\ Delivering \in Placed .. Completed
                       /\ Completed \in Placed .. Completed
BY DEF Placed, Prepared, Cooked, Delivering, Completed

(* Once torn or raced, always so.                                          *)
LEMMA TornStays == ASSUME [Next]_vars, ~torn' PROVE ~torn
BY Zenon DEF Next, vars, histVars, ClientSends, CompletionStep, CompletionAccepts, CompletionReads,
   CompletionWaits, MainStep, MainAccepts, MainReads, MainWaitsOrders, DeliveriesRead,
   wait_for_all_deliveries, ResetTotal, ResetCompleted, ResetActive, HandlerStep, RefuseOrder,
   EnterOrder, CountTotal, CountOrder, HandlerUnchanged, CookStep, CookIdles, CookTakes, OvenWaits,
   OvenStarts, OvenEnds, CookAnnounces, CookUnchanged, CourierStep, CourierTakes, CourierCounts,
   CourierSleeps, CourierLeaves, increment_pending_deliveries, CourierDelivers, CourierTells,
   decrement_pending_deliveries, CourierUnchanged, SpuriousWake

LEMMA RacedStays == ASSUME [Next]_vars PROVE raced' = raced \/ BeginsCount
BY Zenon DEF Next, vars, histVars, ClientSends, CompletionStep, CompletionAccepts, CompletionReads,
   CompletionWaits, MainStep, MainAccepts, MainReads, MainWaitsOrders, DeliveriesRead,
   wait_for_all_deliveries, ResetTotal, ResetCompleted, ResetActive, MainUnchanged, HandlerStep,
   RefuseOrder, EnterOrder, CountTotal, CountOrder, CookStep, CookIdles, CookTakes, OvenWaits,
   OvenStarts, OvenEnds, CookAnnounces, CookUnchanged, CourierStep, CourierTakes, CourierCounts,
   CourierSleeps, CourierLeaves, increment_pending_deliveries, CourierDelivers, CourierTells,
   decrement_pending_deliveries, NoCount, SpuriousWake

LEMMA HistoryTyped ==
  ASSUME HistoryOK, [Next]_vars, served' \in [Orders -> Nat]
  PROVE  HistoryOK'
<1>1. torn' \in BOOLEAN
  BY Zenon DEF HistoryOK, Next, vars, histVars, ClientSends, CompletionStep, CompletionAccepts,
   CompletionReads, CompletionWaits, MainStep, MainAccepts, MainReads, MainWaitsOrders, DeliveriesRead,
   wait_for_all_deliveries, ResetTotal, ResetCompleted, ResetActive, HandlerStep, RefuseOrder,
   EnterOrder, CountTotal, CountOrder, HandlerUnchanged, CookStep, CookIdles, CookTakes, OvenWaits,
   OvenStarts, OvenEnds, CookAnnounces, CookUnchanged, CourierStep, CourierTakes, CourierCounts,
   CourierSleeps, CourierLeaves, increment_pending_deliveries, CourierDelivers, CourierTells,
   decrement_pending_deliveries, CourierUnchanged, SpuriousWake
<1>2. raced' \in BOOLEAN
  BY RacedStays, Zenon DEF HistoryOK, BeginsCount
<1> QED
  BY <1>1, <1>2 DEF HistoryOK

LEMMA CookStepTyped ==
  ASSUME ShopInv, NEW c \in Cooks, CookStep(c), OvenOK' PROVE ShopInv'
<1>1. TypeOK /\ PcOK /\ ArrayOK /\ CountersOK /\ HandOK /\ OvenOK /\ BatchesOK /\ HistoryOK
  BY TypeParts DEF ShopInv
<1>2. /\ CountersOK' /\ BatchesOK' /\ HistoryOK'
      /\ UNCHANGED <<total_orders, bag, delivery_mutex, read, handler, batches, accepted>>
  BY <1>1 DEF CookStep, CookIdles, CookTakes, OvenWaits, OvenStarts, OvenEnds, CookAnnounces, CookUnchanged,
     countVars, clientVars, histVars, CountersOK, BatchesOK, HistoryOK
<1>3. ArrayOK' /\ HandOK'
  <2>1. CASE UNCHANGED <<slots, job>>
    BY <1>1, <1>2, <2>1 DEF ArrayOK, HandOK
  <2>2. CASE CookTakes(c)
    BY <1>1, <1>2, <2>2, InStateFacts, SetStateFacts, StatesInRange DEF CookTakes, ArrayOK, HandOK
  <2>3. CASE OvenStarts(c) \/ OvenEnds(c)
    BY <1>1, <1>2, <2>3, SetStateFacts, StatesInRange DEF OvenStarts, OvenEnds, ArrayOK, HandOK
  <2>4. CASE CookAnnounces(c)
    BY <1>1, <1>2, <2>4 DEF CookAnnounces, ArrayOK, HandOK
  <2> QED
    BY <2>1, <2>2, <2>3, <2>4 DEF CookStep, CookIdles, OvenWaits
<1>4. \E label : Moves(c, label)
  BY <1>1, CookMoves DEF CookStep
<1>5. TypeOK'
  BY <1>2, <1>3, <1>4, TypeParts DEF Moves
<1>6. \A d \in Couriers : pc'[d] \in {"count", "load", "deliver"} => pc[d] \in {"count", "load", "deliver"}
  BY <1>4, ShopAssumption DEF Moves, Rests, Wakes
<1>7. Road' = Road /\ pending_deliveries' = pending_deliveries
  <2>1. \A d \in Couriers : pc'[d] = pc[d] \/ <<pc[d], pc'[d]>> \in Wakes
    BY <1>4, ShopAssumption DEF Moves, Rests
  <2>2. Road' = Road
    BY <2>1 DEF Road, Wakes
  <2> QED
    BY <2>2 DEF CookStep, CookIdles, CookTakes, OvenWaits, OvenStarts, OvenEnds, CookAnnounces,
       CookUnchanged
<1> QED
  BY <1>2, <1>5, <1>6, <1>7 DEF ShopInv, PlanInv, RoomInv, EnterInv, BagInv, RoadInv, Entered

LEMMA CourierStepTyped ==
  ASSUME ShopInv, NEW d \in Couriers, CourierStep(d) PROVE ShopInv'
<1>0. TypeOK /\ PcOK /\ ArrayOK /\ CountersOK /\ HandOK /\ OvenOK /\ BatchesOK /\ HistoryOK /\ d \in Threads
  BY TypeParts DEF ShopInv
<1>1. PICK label \in {"count", "pick", "pick_wait", "load", "deliver", "tell", "unload"} : Moves(d, label)
  BY <1>0, <1>0, CourierMoves DEF CourierStep
<1>2. OvenOK' /\ BatchesOK' /\ UNCHANGED <<total_orders, handler, batches, accepted>>
  BY <1>0 DEF CourierStep, CourierTakes, CourierCounts, CourierSleeps, CourierLeaves,
     increment_pending_deliveries,
     CourierDelivers, CourierTells, decrement_pending_deliveries, CourierUnchanged,
     ovenVars, clientVars, OvenOK, BatchesOK
<1>3. \A e \in Couriers \ {d} : pc'[e] = pc[e] \/ <<pc[e], pc'[e]>> \in Wakes
  BY <1>1, ShopAssumption DEF Moves, Rests
<1>4. bag[d] \in Seq(Orders \cup {NoOrder}) /\ Len(bag[d]) \in Nat
  BY <1>0, LenProperties DEF HandOK
<1>5. ArrayOK' /\ HandOK' /\ served' \in [Orders -> Nat]
  <2>1. CASE CourierTakes(d)
    <3> DEFINE i == First(InState(Delivering))
    <3>1. i \in Slots /\ SetState(i, Completed)
      BY <1>0, <2>1, InStateFacts DEF CourierTakes
    <3>2. slots[i].order \in Orders \cup {NoOrder}
      BY <1>0, <3>1 DEF ArrayOK, SlotType
    <3>3. ArrayOK'
      BY <1>0, <1>2, <3>1, SetStateFacts, StatesInRange DEF ArrayOK
    <3>4. bag' = [bag EXCEPT ![d] = Append(@, slots[i].order)]
      BY <2>1 DEF CourierTakes
    <3>5. HandOK' /\ served' \in [Orders -> Nat]
      BY <1>0, <1>4, <2>1, <3>2, <3>4, AppendProperties DEF CourierTakes, CourierUnchanged, HandOK,
         HistoryOK
    <3> QED
      BY <3>3, <3>5
  <2>2. CASE CourierDelivers(d)
    <3>1. bag[d] # <<>>
      BY <2>2 DEF CourierDelivers, ShopInv, BagInv
    <3>2. Tail(bag[d]) \in Seq(Orders \cup {NoOrder})
      BY <1>4, <3>1, HeadTailProperties
    <3>3. HandOK'
      BY <1>0, <2>2, <3>2 DEF CourierDelivers, HandOK
    <3>4. ArrayOK' /\ served' \in [Orders -> Nat]
      BY <1>0, <1>2, <2>2 DEF CourierDelivers, ArrayOK, HistoryOK
    <3> QED
      BY <3>3, <3>4
  <2>3. CASE ~(CourierTakes(d) \/ CourierDelivers(d))
    BY <1>0, <1>2, <2>3 DEF CourierStep, CourierCounts, CourierSleeps, CourierLeaves,
       increment_pending_deliveries,
       CourierTells, decrement_pending_deliveries, CourierUnchanged, ArrayOK, HandOK, HistoryOK
  <2> QED
    BY <2>1, <2>2, <2>3
<1>6. RoadInv'
  <2>0. IsFiniteSet(Road) /\ pending_deliveries = Cardinality(Road) /\ Cardinality(Road) \in Nat
    BY FS_CardinalityType DEF ShopInv, RoadInv
  <2>1. CASE increment_pending_deliveries(d)
    <3>1. Moves(d, "deliver") /\ pc[d] = "load" /\ pending_deliveries' = pending_deliveries + 1
      BY <1>0, <2>1, CourierMoves DEF increment_pending_deliveries
    <3>2. d \notin Road /\ Road' = Road \cup {d}
      BY <1>3, <3>1 DEF Moves, Road, Wakes
    <3> QED
      BY <2>0, <3>1, <3>2, FS_AddElement DEF RoadInv
  <2>2. CASE decrement_pending_deliveries(d)
    <3>1. Moves(d, "pick") /\ pc[d] = "unload" /\ pending_deliveries' = pending_deliveries - 1
      BY <1>0, <2>2, CourierMoves DEF decrement_pending_deliveries
    <3>2. d \in Road /\ Road' = Road \ {d}
      BY <1>3, <3>1 DEF Moves, Road, Wakes
    <3> QED
      BY <2>0, <3>1, <3>2, FS_RemoveElement DEF RoadInv
  <2>3. CASE ~(increment_pending_deliveries(d) \/ decrement_pending_deliveries(d))
    <3>1. pending_deliveries' = pending_deliveries /\ (d \in Road <=> pc'[d] \in {"deliver", "tell", "unload"})
      BY <1>0, <2>3, CourierMoves DEF CourierStep, CourierTakes, CourierCounts, CourierSleeps,
         CourierLeaves, CourierDelivers, CourierTells, CourierUnchanged, Road, Moves
    <3>2. Road' = Road
      BY <1>3, <3>1 DEF Road, Wakes
    <3> QED
      BY <2>0, <3>1, <3>2 DEF RoadInv
  <2> QED
    BY <2>1, <2>2, <2>3
<1>7. CountersOK'
  <2>1. pending_deliveries' \in Nat
    BY <1>6, FS_CardinalityType DEF RoadInv
  <2>2. /\ completed_orders' \in Nat /\ active_orders' \in Int
        /\ read' \in [Couriers \cup Orders \cup {Main, Completion} -> Int]
    BY <1>0 DEF Reads, Forgets, NoCount, CourierStep, CourierTakes, CourierCounts, CourierSleeps,
       CourierLeaves, increment_pending_deliveries, CourierDelivers, CourierTells,
       decrement_pending_deliveries, CourierUnchanged, CountersOK
  <2> QED
    BY <2>1, <2>2 DEF CountersOK
<1>8. TypeOK'
  <2>1. [Next]_vars
    BY Zenon DEF Next
  <2> QED
    BY <1>0, <1>1, <1>2, <1>5, <1>7, <2>1, HistoryTyped, TypeParts DEF Moves
<1>9. BagInv'
  <2>1. ASSUME NEW e \in Couriers \ {d}, pc'[e] \in {"count", "load", "deliver"} PROVE bag'[e] # <<>>
    <3>1. pc[e] \in {"count", "load", "deliver"}
      BY <1>3, <2>1 DEF Wakes
    <3>2. bag'[e] = bag[e]
      BY <1>0 DEF CourierStep, CourierTakes, CourierCounts, CourierSleeps, CourierLeaves,
         increment_pending_deliveries, CourierDelivers, CourierTells, decrement_pending_deliveries,
         CourierUnchanged, HandOK
    <3> QED
      BY <3>1, <3>2 DEF ShopInv, BagInv
  <2>2. pc'[d] \in {"count", "load", "deliver"} => bag'[d] # <<>>
    <3>1. CASE CourierTakes(d)
      <4>1. bag'[d] = Append(bag[d], slots[First(InState(Delivering))].order)
        BY <1>0, <3>1 DEF CourierTakes, HandOK
      <4>2. First(InState(Delivering)) \in Slots
        BY <1>0, <3>1, InStateFacts DEF CourierTakes
      <4>3. slots[First(InState(Delivering))].order \in Orders \cup {NoOrder}
        BY <1>0, <4>2 DEF ArrayOK, SlotType
      <4> QED
        BY <1>4, <4>1, <4>3, AppendProperties
    <3>2. CASE CourierDelivers(d)
      <4>1. bag[d] # <<>> /\ bag'[d] = Tail(bag[d])
        BY <1>0, <3>2 DEF CourierDelivers, HandOK, ShopInv, BagInv
      <4>2. Len(bag[d]) # 1 => Tail(bag[d]) # <<>>
        <5>1. Len(bag[d]) # 0 /\ Len(Tail(bag[d])) = Len(bag[d]) - 1
          BY <1>4, <4>1, HeadTailProperties, EmptySeq
        <5>2. Tail(bag[d]) = <<>> => Len(Tail(bag[d])) = 0
          BY EmptySeq, Zenon
        <5> QED
          BY <1>4, <5>1, <5>2
      <4>3. Moves(d, IF Len(bag[d]) = 1 THEN "tell" ELSE "deliver")
        BY <1>0, <3>2, CourierMoves
      <4> QED
        BY <4>1, <4>2, <4>3 DEF Moves
    <3>3. CASE CourierLeaves(d) \/ increment_pending_deliveries(d)
      BY <1>0, <3>3, CourierMoves DEF CourierLeaves, increment_pending_deliveries, Moves, ShopInv, BagInv
    <3>4. CASE CourierCounts(d) \/ CourierSleeps(d) \/ CourierTells(d) \/ decrement_pending_deliveries(d)
      BY <1>0, <3>4, CourierMoves DEF Moves
    <3> QED
      BY <3>1, <3>2, <3>3, <3>4 DEF CourierStep
  <2> QED
    BY <2>1, <2>2 DEF BagInv
<1>10. \A o \in Orders : read'[o] = read[o]
  BY <1>0, ShopAssumption DEF CourierStep, CourierTakes, CourierCounts, CourierSleeps, CourierLeaves,
     increment_pending_deliveries, CourierDelivers, CourierTells, decrement_pending_deliveries,
     Reads, Forgets, NoCount, CountersOK
<1>11. RoomInv' /\ EnterInv'
  BY <1>2, <1>10 DEF ShopInv, RoomInv, EnterInv, Entered
<1> QED
  BY <1>2, <1>6, <1>8, <1>9, <1>11 DEF ShopInv, PlanInv

(* Threads that wake up, or are neither cook nor courier, start no way.    *)
LEMMA RestsKeepsRoads ==
  ASSUME ShopInv, \A d \in Couriers : Rests(d), UNCHANGED <<bag, pending_deliveries>>
  PROVE  BagInv' /\ RoadInv'
<1>1. Road' = Road
  BY DEF Rests, Wakes, Road
<1>2. \A d \in Couriers : pc'[d] \in {"count", "load", "deliver"} => pc[d] \in {"count", "load", "deliver"}
  BY DEF Rests, Wakes
<1> QED
  BY <1>1, <1>2 DEF ShopInv, BagInv, RoadInv

LEMMA ClientStepTyped ==
  ASSUME ShopInv, ClientSends PROVE ShopInv'
<1>0. TypeOK /\ PcOK /\ ArrayOK /\ CountersOK /\ HandOK /\ OvenOK /\ BatchesOK /\ HistoryOK
  BY TypeParts DEF ShopInv
<1>1. PICK plan \in Plans : /\ Len(batches) < Len(plan) /\ batches = SubSeq(plan, 1, Len(batches))
                            /\ batches' = Append(batches, plan[Len(batches) + 1])
                            /\ client' = Append(client, "sent")
  BY DEF ClientSends
<1>2. UNCHANGED <<slots, countVars, ovenVars, pending_deliveries, delivery_mutex, pc, job, bag, read,
                  handler, accepted, histVars>>
  BY DEF ClientSends
<1>3. plan \in Seq(SUBSET Orders) /\ Len(plan) \in Nat /\ Len(batches) \in Nat /\ batches \in Seq(SUBSET Orders)
  BY <1>0, ShopAssumption, LenProperties DEF BatchesOK
<1>4. plan[Len(batches) + 1] \in SUBSET Orders
  BY <1>1, <1>3, ElementOfSeq
<1>5. /\ batches' \in Seq(SUBSET Orders) /\ Len(batches') = Len(batches) + 1
      /\ \A i \in 1 .. Len(batches) : batches'[i] = batches[i]
  BY <1>1, <1>3, <1>4, AppendProperties
<1>6. batches' = SubSeq(plan, 1, Len(batches) + 1)
  <2>1. SubSeq(plan, 1, Len(batches) + 1) = Append(SubSeq(plan, 1, Len(batches)), plan[Len(batches) + 1])
    <3>1. SubSeq(plan, 1, Len(batches)) \in Seq(SUBSET Orders)
      BY <1>1, <1>3
    <3>2. SubSeq(plan, 1, Len(batches) + 1)
            = SubSeq(plan, 1, (Len(batches) + 1) - 1) \o <<plan[Len(batches) + 1]>>
      <4>1. 1 \in 1 .. Len(plan) /\ Len(batches) + 1 \in 1 .. Len(plan)
        BY <1>1, <1>3
      <4> QED
        BY <1>3, <4>1, SubSeqRecursiveSecond
    <3>3. (Len(batches) + 1) - 1 = Len(batches)
      BY <1>3
    <3> QED
      BY <1>4, <3>1, <3>2, <3>3, AppendIsConcat
  <2> QED
    BY <1>1, <2>1
<1>7. client \in Seq({"sent", "asking", "told"}) /\ Len(client) = Len(batches)
  <2>1. DOMAIN batches = 1 .. Len(batches)
    BY <1>3, LenProperties
  <2>2. client \in [1 .. Len(batches) -> {"sent", "asking", "told"}]
    BY <1>0, <2>1 DEF BatchesOK
  <2> QED
    BY <1>3, <2>2, SeqDef
<1>8. client' \in [DOMAIN batches' -> {"sent", "asking", "told"}]
  <2>1. client' \in Seq({"sent", "asking", "told"}) /\ Len(client') = Len(client) + 1
    BY <1>1, <1>7, AppendProperties
  <2>2. DOMAIN batches' = 1 .. Len(batches) + 1
    BY <1>5, LenProperties
  <2>3. client' \in [1 .. Len(client') -> {"sent", "asking", "told"}]
    BY <2>1, LenProperties
  <2> QED
    BY <1>7, <2>1, <2>2, <2>3
<1>9. BatchesOK'
  BY <1>0, <1>2, <1>3, <1>5, <1>8 DEF BatchesOK
<1>10. TypeOK'
  BY <1>0, <1>2, <1>9, TypeParts DEF PcOK, ArrayOK, CountersOK, HandOK, OvenOK, HistoryOK,
     countVars, ovenVars, histVars
<1>11. PlanInv'
  <2>1. accepted \in Nat /\ accepted <= Len(batches)
    BY <1>0, <1>3 DEF BatchesOK
  <2>2. ASSUME NEW o \in Orders, handler'[o] # "none" PROVE \E i \in 1 .. accepted' : o \in batches'[i]
    <3>1. handler' = handler /\ accepted' = accepted
      BY <1>2
    <3>2. PICK i \in 1 .. accepted : o \in batches[i]
      BY <2>2, <3>1, Zenon DEF ShopInv, PlanInv
    <3>3. i \in 1 .. Len(batches)
      BY ONLY <1>3, <2>1, i \in 1 .. accepted
    <3>4. batches'[i] = batches[i]
      BY ONLY <1>5, <3>3
    <3> QED
      BY ONLY <3>1, <3>2, <3>4
  <2>3. Len(batches') <= Len(plan) /\ batches' = SubSeq(plan, 1, Len(batches'))
    BY <1>1, <1>3, <1>5, <1>6
  <2> QED
    BY <2>2, <2>3 DEF PlanInv
<1> QED
  BY <1>2, <1>10, <1>11, RestsKeepsRoads DEF ShopInv, RoomInv, EnterInv, Entered, countVars, Rests

LEMMA MainStepTyped ==
  ASSUME ShopInv, MainStep PROVE ShopInv'
<1>0. TypeOK /\ PcOK /\ ArrayOK /\ CountersOK /\ HandOK /\ OvenOK /\ BatchesOK /\ HistoryOK
  BY TypeParts DEF ShopInv
<1>1. PcOK' /\ \A d \in Couriers : Rests(d)
  BY <1>0, MainMoves, ShopAssumption DEF MainStep, Moves
<1>2. HandOK' /\ OvenOK' /\ UNCHANGED <<bag, pending_deliveries, slots, batches, client, served>>
  BY <1>0 DEF MainStep, MainAccepts, MainReads, MainWaitsOrders, DeliveriesRead, wait_for_all_deliveries,
     ResetTotal, ResetCompleted, ResetActive, MainUnchanged, HandOK, OvenOK, ovenVars, clientVars
<1>3. /\ completed_orders' \in {completed_orders, 0} /\ active_orders' \in {active_orders, 0}
      /\ total_orders' \in {total_orders, 0}
  BY DEF MainStep, MainAccepts, MainReads, MainWaitsOrders, DeliveriesRead, wait_for_all_deliveries,
     ResetTotal, ResetCompleted, ResetActive, countVars
<1>4. Cardinality(Orders) \in Nat /\ Cardinality(Entered) \in Nat
  BY <1>0, EnteredFinite
<1>10. read' \in [Couriers \cup Orders \cup {Main, Completion} -> Int] /\ \A o \in Orders : read'[o] = read[o]
  <2>1. CASE UNCHANGED read
    BY <1>0, <2>1 DEF CountersOK
  <2>2. CASE \E v \in Int : Reads(Main, v)
    BY <1>0, <2>2, ShopAssumption DEF CountersOK, Reads
  <2>3. Forgets(Main) => Reads(Main, 0)
    BY DEF Forgets, Reads
  <2> QED
    BY <1>0, <2>1, <2>2, <2>3 DEF MainStep, MainAccepts, MainReads, MainWaitsOrders, DeliveriesRead,
       wait_for_all_deliveries, ResetTotal, ResetCompleted, ResetActive, CountersOK
<1>5. CountersOK' /\ ArrayOK'
  BY <1>0, <1>2, <1>3, <1>4, <1>10 DEF CountersOK, ArrayOK
<1>6. HistoryOK'
  <2>1. [Next]_vars
    BY Zenon DEF Next
  <2>2. served' \in [Orders -> Nat]
    BY <1>0, <1>2 DEF HistoryOK
  <2> QED
    BY <1>0, <2>1, <2>2, HistoryTyped
<1>7. /\ BatchesOK' /\ PlanInv' /\ Entered' = Entered
      /\ \A o \in Orders : handler'[o] = handler[o] \/ handler'[o] = "start"
  <2>0. Len(batches) \in Nat /\ accepted \in Nat
    BY <1>0, LenProperties DEF BatchesOK
  <2>1. CASE MainAccepts
    <3>1. /\ handler' = [o \in Orders |-> IF o \in batches[accepted + 1] THEN "start" ELSE handler[o]]
          /\ accepted < Len(batches) /\ accepted' = accepted + 1
      BY <2>1 DEF MainAccepts
    <3>2. \A o \in batches[accepted + 1] : handler[o] = "none"
      BY <3>1, NewBatch
    <3>3. BatchesOK'
      BY <1>0, <1>2, <2>0, <3>1 DEF BatchesOK, Handling
    <3>4. \A o \in Orders : handler'[o] # "none" => \E i \in 1 .. accepted' : o \in batches'[i]
      BY <1>2, <2>0, <3>1 DEF ShopInv, PlanInv
    <3>5. Entered' = Entered
      BY <3>1, <3>2 DEF Entered
    <3> QED
      BY <1>2, <3>1, <3>3, <3>4, <3>5 DEF ShopInv, PlanInv
  <2>2. CASE ~MainAccepts
    <3>1. UNCHANGED <<accepted, handler>>
      BY <2>2 DEF MainStep, MainReads, MainWaitsOrders, DeliveriesRead, wait_for_all_deliveries,
         ResetTotal, ResetCompleted, ResetActive
    <3> QED
      BY <1>0, <1>2, <3>1 DEF BatchesOK, ShopInv, PlanInv, Entered
  <2> QED
    BY <2>1, <2>2
<1>8. TypeOK'
  BY <1>1, <1>2, <1>5, <1>6, <1>7, TypeParts
<1>9. RoomInv' /\ EnterInv'
  <2>1. \A o \in Orders : handler'[o] \in {"total", "count"} => handler[o] = handler'[o]
    BY <1>7
  <2>2. total_orders' <= Cardinality(Entered)
    BY <1>3, <1>4 DEF ShopInv, RoomInv
  <2> QED
    BY <1>7, <1>10, <2>1, <2>2 DEF ShopInv, RoomInv, EnterInv
<1> QED
  BY <1>1, <1>2, <1>7, <1>8, <1>9, RestsKeepsRoads DEF ShopInv

LEMMA HandlerStepTyped ==
  ASSUME ShopInv, NEW o \in Orders, HandlerStep(o) PROVE ShopInv'
<1>0. TypeOK /\ PcOK /\ ArrayOK /\ CountersOK /\ HandOK /\ OvenOK /\ BatchesOK /\ HistoryOK
  BY TypeParts DEF ShopInv
<1>1. PcOK' /\ \A d \in Couriers : Rests(d)
  BY <1>0, OthersMove DEF OnlyWakes
<1>2. HandOK' /\ OvenOK' /\ UNCHANGED <<bag, pending_deliveries, batches, accepted, client, served>>
  BY <1>0 DEF HandlerStep, RefuseOrder, EnterOrder, CountTotal, CountOrder, HandlerUnchanged, HandOK,
     OvenOK, ovenVars, clientVars
<1>3. BatchesOK' /\ PlanInv'
  <2>1. /\ handler' \in [Orders -> Handling]
        /\ \A x \in Orders : handler'[x] # "none" => handler[x] # "none"
    BY <1>0 DEF HandlerStep, RefuseOrder, EnterOrder, CountTotal, CountOrder, BatchesOK, Handling
  <2>2. PlanInv'
    BY <1>2, <2>1 DEF ShopInv, PlanInv
  <2> QED
    BY <1>0, <1>2, <2>1, <2>2 DEF BatchesOK
<1>4. /\ IsFiniteSet(Entered) /\ Cardinality(Entered) \in Nat /\ Cardinality(Orders) \in Nat
      /\ IsFiniteSet(Entered')
      /\ Cardinality(Entered') <= Cardinality(Orders)
  <2>1. Entered' \in SUBSET Orders
    BY DEF Entered
  <2> QED
    BY <1>0, <2>1, EnteredFinite, ShopAssumption, FS_Subset
<1>5. HistoryOK'
  <2>1. [Next]_vars
    BY Zenon DEF Next
  <2>2. served' \in [Orders -> Nat]
    BY <1>0, <1>2 DEF HistoryOK
  <2> QED
    BY <1>0, <2>1, <2>2, HistoryTyped
<1>6. \A x \in Orders \ {o} : handler'[x] = handler[x] /\ read'[x] = read[x]
  BY <1>0 DEF HandlerStep, RefuseOrder, EnterOrder, CountTotal, CountOrder, Reads, Forgets, BatchesOK,
     CountersOK
<1>7. ArrayOK' /\ CountersOK' /\ RoomInv' /\ EnterInv'
  <2>1. total_orders \in Nat
    BY <1>0, <1>4 DEF ArrayOK
  <2>2. CASE RefuseOrder(o) \/ CountOrder(o)
    <3>1. handler'[o] \notin {"total", "count"} /\ UNCHANGED <<slots, total_orders>>
      BY <1>0, <2>2 DEF RefuseOrder, CountOrder, BatchesOK
    <3>2. Entered' = Entered
      BY <1>0, <2>2 DEF RefuseOrder, CountOrder, Entered, BatchesOK
    <3>3. CountersOK'
      BY <1>0, <2>2 DEF RefuseOrder, CountOrder, HandlerUnchanged, Forgets, CountersOK
    <3> QED
      BY <1>0, <1>6, <3>1, <3>2, <3>3 DEF ArrayOK, ShopInv, RoomInv, EnterInv
  <2>3. CASE EnterOrder(o)
    <3>1. /\ handler'[o] = "total" /\ read'[o] = total_orders /\ UNCHANGED total_orders
          /\ \A x \in Orders : handler[x] \notin {"total", "count"}
      BY <1>0, <2>3 DEF EnterOrder, OrderMutexFree, Reads, BatchesOK, CountersOK
    <3>2. Entered' = Entered
      BY <1>0, <2>3 DEF EnterOrder, Entered, BatchesOK
    <3>3. [order |-> o, state |-> Placed] \in SlotType
      BY StatesInRange DEF SlotType
    <3>4. ArrayOK'
      BY <1>0, <2>3, <3>1, <3>3 DEF EnterOrder, ArrayOK
    <3>5. CountersOK'
      BY <1>0, <2>1, <2>3 DEF EnterOrder, HandlerUnchanged, Reads, CountersOK
    <3> QED
      BY <1>6, <2>1, <3>1, <3>2, <3>4, <3>5 DEF ShopInv, RoomInv, EnterInv
  <2>4. CASE CountTotal(o)
    <3>1. /\ handler[o] = "total" /\ handler'[o] = "count" /\ total_orders' = read[o] + 1 /\ UNCHANGED slots
      BY <1>0, <2>4 DEF CountTotal, BatchesOK
    <3>2. o \notin Entered /\ Entered' = Entered \cup {o}
      BY <1>0, <2>4 DEF CountTotal, Entered, BatchesOK
    <3>3. Cardinality(Entered') = Cardinality(Entered) + 1
      BY <1>4, <3>2, FS_AddElement
    <3>4. read[o] \in Nat /\ read[o] <= Cardinality(Entered)
      BY <3>1 DEF ShopInv, RoomInv
    <3>5. total_orders' <= Cardinality(Entered') /\ total_orders' \in 0 .. Cardinality(Orders)
      BY <1>4, <3>1, <3>3, <3>4
    <3>6. EnterInv'
      BY <1>6, <3>1 DEF ShopInv, EnterInv
    <3>7. \A x \in Orders : handler'[x] # "total"
      BY <1>6, <3>1 DEF ShopInv, EnterInv
    <3>8. CountersOK'
      BY <1>0, <2>4 DEF CountTotal, HandlerUnchanged, Reads, CountersOK
    <3> QED
      BY <1>0, <3>1, <3>5, <3>6, <3>7, <3>8 DEF ArrayOK, RoomInv
  <2> QED
    BY <2>2, <2>3, <2>4 DEF HandlerStep
<1>8. TypeOK'
  BY <1>1, <1>2, <1>3, <1>5, <1>7, TypeParts
<1> QED
  BY <1>1, <1>2, <1>3, <1>7, <1>8, RestsKeepsRoads DEF ShopInv

LEMMA OtherStepTyped ==
  ASSUME ShopInv, UNCHANGED vars \/ CompletionStep \/ \E t \in Threads : SpuriousWake(t) PROVE ShopInv'
<1>0. TypeOK /\ PcOK /\ ArrayOK /\ CountersOK /\ HandOK /\ OvenOK /\ BatchesOK /\ HistoryOK
  BY TypeParts DEF ShopInv
<1>1. PcOK' /\ \A d \in Couriers : Rests(d)
  BY <1>0, OthersMove, ShopAssumption DEF OnlyWakes
<1>2. UNCHANGED <<slots, countVars, ovenVars, pending_deliveries, delivery_mutex, job, bag, handler,
                  batches, accepted, histVars>>
  BY DEF vars, clientVars, CompletionStep, CompletionAccepts, CompletionReads, CompletionWaits, SpuriousWake
<1>3. client' \in [DOMAIN batches -> {"sent", "asking", "told"}]
  BY <1>0 DEF vars, clientVars, CompletionStep, CompletionAccepts, CompletionReads, CompletionWaits,
     SpuriousWake, BatchesOK
<1>4. read' \in [Couriers \cup Orders \cup {Main, Completion} -> Int] /\ \A o \in Orders : read'[o] = read[o]
  BY <1>0, ShopAssumption DEF vars, CompletionStep, CompletionAccepts, CompletionReads, CompletionWaits,
     SpuriousWake, Reads, Forgets, CountersOK
<1>5. TypeOK'
  BY <1>0, <1>1, <1>2, <1>3, <1>4, TypeParts DEF ArrayOK, CountersOK, HandOK, OvenOK, BatchesOK, HistoryOK,
     countVars, ovenVars, histVars
<1> QED
  BY <1>1, <1>2, <1>4, <1>5, RestsKeepsRoads DEF ShopInv, PlanInv, RoomInv, EnterInv, Entered, countVars

(* One step of anything.  The oven's counters come from OvenAccounted.     *)
LEMMA ShopStep == ShopInv /\ [Next]_vars /\ OvenInv /\ OvenInv' => ShopInv'
<1> SUFFICES ASSUME ShopInv, [Next]_vars, OvenInv, OvenInv' PROVE ShopInv'
  OBVIOUS
<1>1. ASSUME NEW c \in Cooks, CookStep(c) PROVE ShopInv'
  <2>1. OvenOK
    BY TypeParts DEF ShopInv
  <2>2. apparatus_available' \in Nat
    BY <1>1, <2>1 DEF OvenOK, CookStep, CookIdles, CookTakes, OvenWaits, OvenStarts, OvenUnavailable,
       OvenEnds, CookAnnounces, ovenVars
  <2>3. oven_occupancy' = Cardinality(Baking')
    BY DEF OvenInv, OvenAccounting
  <2>4. IsFiniteSet(Baking')
    BY ShopAssumption, FS_Subset DEF Baking
  <2>5. OvenOK'
    BY <2>2, <2>3, <2>4, FS_CardinalityType DEF OvenOK
  <2> QED
    BY <1>1, <2>5, CookStepTyped
<1> QED
  BY <1>1, ClientStepTyped, MainStepTyped, HandlerStepTyped, CourierStepTyped, OtherStepTyped DEF Next

(* TypeCorrect: whatever the interleaving and wherever the resets fall,    *)
(* every variable keeps its type; in particular orders[total_orders] is a  *)
(* slot of the array, and no courier delivers from an empty bag.           *)
THEOREM TypeCorrect == Spec => []TypeOK
<1>1. Spec => []OvenInv
  BY OvenAlways
<1>2. Init => ShopInv
  BY ShopInit
<1>3. ShopInv /\ OvenInv /\ [Next]_vars /\ OvenInv' => ShopInv'
  BY ShopStep
<1>4. ShopInv => TypeOK
  BY DEF ShopInv
<1> QED
  BY <1>1, <1>2, <1>3, <1>4, PTL DEF Spec
-----------------------------------------------------------------------------
(* Where the orders are.  As long as no reset has hit orders under way,    *)
(* the slots that are not completed and the bags hold different orders,    *)
(* all of them entered and not served, and an entered order that is not    *)
(* there has been served once.                                             *)
Live == {i \in 1 .. total_orders : slots[i].state # Completed}
InSlot(o) == \E i \in Live : slots[i].order = o
InBag(o) == \E d \in Couriers : \E k \in 1 .. Len(bag[d]) : bag[d][k] = o

SlotsApart ==
  \A i \in Live :
    /\ slots[i].order \in Entered /\ served[slots[i].order] = 0
    /\ ~InBag(slots[i].order)
    /\ \A j \in Live : slots[i].order = slots[j].order => i = j
BagsApart ==
  \A d \in Couriers : \A k \in 1 .. Len(bag[d]) :
    /\ bag[d][k] \in Entered /\ served[bag[d][k]] = 0
    /\ \A e \in Couriers : \A l \in 1 .. Len(bag[e]) : bag[d][k] = bag[e][l] => d = e /\ k = l
ServedOnce ==
  \A o \in Orders :
    /\ o \notin Entered => served[o] = 0
    /\ o \in Entered => served[o] = 1 \/ (served[o] = 0 /\ (InSlot(o) \/ InBag(o)))
Custody == SlotsApart /\ BagsApart /\ ServedOnce

(* A handler about to count its order has put it behind the last one.      *)
Behind ==
  \A o \in Orders :
    handler[o] = "total" => /\ read[o] = total_orders
                            /\ slots[total_orders + 1] = [order |-> o, state |-> Placed]

(* Orders entered and not served.                                           *)
Waiting == {o \in Entered : served[o] = 0}

(* The slots that cooks are at work on.                                    *)
Hot == {i \in 1 .. total_orders : slots[i].state \in {Prepared, Cooked}}
Kitchen ==
  /\ Hot = {job[c] : c \in Working}
  /\ \A c, e \in Working : job[c] = job[e] => c = e
  /\ \A c \in Working : slots[job[c]].state = IF c \in Baking THEN Cooked ELSE Prepared

LEMMA StatesDiffer ==
  /\ Placed # Prepared /\ Placed # Cooked /\ Placed # Delivering /\ Placed # Completed
  /\ Prepared # Cooked /\ Prepared # Delivering /\ Prepared # Completed
  /\ Cooked # Delivering /\ Cooked # Completed /\ Delivering # Completed
BY DEF Placed, Prepared, Cooked, Delivering, Completed

LEMMA KitchenIsApart == CooksApart <=> (~torn => Kitchen)
<1>1. Hot = InState(Prepared) \cup InState(Cooked)
  BY DEF Hot, InState
<1> QED
  BY <1>1 DEF CooksApart, Kitchen

LEMMA CustodyKeeps ==
  ASSUME Custody, Live' = Live, \A i \in Live : slots'[i].order = slots[i].order,
         UNCHANGED <<bag, served>>, Entered' = Entered
  PROVE  Custody'
BY DEF Custody, SlotsApart, BagsApart, ServedOnce, InSlot, InBag

LEMMA KitchenKeeps ==
  ASSUME Kitchen, Hot' = Hot, \A i \in Hot : slots'[i].state = slots[i].state,
         Working' = Working, Baking' = Baking, \A c \in Working : job'[c] = job[c]
  PROVE  Kitchen'
BY DEF Kitchen

LEMMA BehindKeeps ==
  ASSUME Behind, \A o \in Orders : handler'[o] = "total" => handler[o] = "total" /\ read'[o] = read[o],
         UNCHANGED total_orders, slots'[total_orders + 1] = slots[total_orders + 1]
  PROVE  Behind'
BY DEF Behind

LEMMA RestsKeepsWork ==
  ASSUME \A c \in Cooks : Rests(c) PROVE Working' = Working /\ Baking' = Baking
BY DEF Rests, Wakes, Working, Baking

LEMMA LiveSlots ==
  ASSUME ArrayOK
  PROVE  /\ 1 .. total_orders \subseteq Slots /\ Live \subseteq Slots /\ Hot \subseteq Live
         /\ total_orders \in Nat
<1>1. total_orders \in Nat /\ Cardinality(Orders) \in Nat /\ total_orders <= Cardinality(Orders)
  BY ShopAssumption, FS_CardinalityType DEF ArrayOK
<1> QED
  BY <1>1, StatesDiffer DEF Live, Slots, Hot

LEMMA CookStepCustody ==
  ASSUME ShopInv, Custody, Kitchen, NEW c \in Cooks, CookStep(c)
  PROVE  Custody' /\ Kitchen' /\ Live' = Live
<1>0. TypeOK /\ PcOK /\ ArrayOK /\ HandOK
  BY TypeParts DEF ShopInv
<1>1. UNCHANGED <<total_orders, bag, served>> /\ Entered' = Entered
  BY DEF CookStep, CookIdles, CookTakes, OvenWaits, OvenStarts, OvenEnds, CookAnnounces, CookUnchanged,
     countVars, histVars, Entered
<1>2. 1 .. total_orders \subseteq Slots /\ Live \subseteq Slots /\ Hot \subseteq Live
  BY <1>0, LiveSlots
<1>3. ASSUME NEW label, Moves(c, label)
      PROVE  /\ pc'[c] = label
             /\ \A e \in Cooks \ {c} : (e \in Working' <=> e \in Working) /\ (e \in Baking' <=> e \in Baking)
  BY <1>3 DEF Moves, Rests, Wakes, Working, Baking
<1>4. CASE CookIdles(c) \/ OvenWaits(c) \/ CookAnnounces(c)
  <2>1. Working' = Working /\ Baking' = Baking
    <3>1. (c \in Working' <=> c \in Working) /\ (c \in Baking' <=> c \in Baking)
      BY <1>0, <1>3, <1>4, CookMoves DEF CookIdles, OvenWaits, CookAnnounces, Working, Baking
    <3>2. \E label : Moves(c, label)
      BY <1>0, <1>4, CookMoves
    <3>3. \A e \in Cooks \ {c} : (e \in Working' <=> e \in Working) /\ (e \in Baking' <=> e \in Baking)
      BY <1>3, <3>2
    <3> QED
      BY <3>1, <3>3 DEF Working, Baking
  <2>2. UNCHANGED slots /\ \A e \in Working : job'[e] = job[e]
    BY <1>0, <1>4 DEF CookIdles, OvenWaits, CookAnnounces, HandOK, Working
  <2>3. Live' = Live /\ Hot' = Hot
    BY <1>1, <2>2 DEF Live, Hot
  <2> QED
    BY <1>1, <2>1, <2>2, <2>3, CustodyKeeps, KitchenKeeps
<1>5. CASE CookTakes(c)
  <2> DEFINE i == First(InState(Placed))
  <2>1. i \in 1 .. total_orders /\ i \in Slots /\ slots[i].state = Placed
    BY <1>0, <1>5, InStateFacts DEF CookTakes
  <2>7. job' = [job EXCEPT ![c] = i] /\ job'[c] = i
    BY <1>0, <1>5 DEF CookTakes, HandOK
  <2>2. SetState(i, Prepared) /\ job' = [job EXCEPT ![c] = i] /\ pc[c] = "look"
    BY <1>5, <2>7 DEF CookTakes
  <2>3. /\ \A j \in Slots : slots'[j].order = slots[j].order
        /\ \A j \in Slots \ {i} : slots'[j].state = slots[j].state
        /\ slots'[i].state = Prepared
    BY <1>0, <2>1, <2>2, SetStateFacts, StatesInRange
  <2>4. Live' = Live /\ Hot' = Hot \cup {i} /\ i \notin Hot
    BY <1>1, <1>2, <2>1, <2>3, StatesDiffer DEF Live, Hot
  <2>5. Working' = Working \cup {c} /\ Baking' = Baking /\ c \notin Working /\ Baking \subseteq Working
    <3>1. pc'[c] = "oven"
      BY <1>0, <1>3, <1>5, CookMoves
    <3>2. \A e \in Cooks \ {c} : (e \in Working' <=> e \in Working) /\ (e \in Baking' <=> e \in Baking)
      BY <1>0, <1>3, <1>5, CookMoves
    <3> QED
      BY <2>2, <3>1, <3>2 DEF Working, Baking
  <2>6. \A e \in Working : job'[e] = job[e] /\ job[e] \in Hot
    BY <1>0, <2>2, <2>5 DEF HandOK, Kitchen, Working
  <2>8. Kitchen'
    <3>1. Hot' = {job'[e] : e \in Working'}
      BY <2>4, <2>5, <2>6, <2>7 DEF Kitchen
    <3>2. \A e, f \in Working' : job'[e] = job'[f] => e = f
      BY <2>4, <2>5, <2>6, <2>7 DEF Kitchen
    <3>3. \A e \in Working : slots'[job[e]].state = slots[job[e]].state
      BY <1>2, <2>3, <2>4, <2>6
    <3>4. \A e \in Working' : slots'[job'[e]].state = IF e \in Baking' THEN Cooked ELSE Prepared
      BY <2>3, <2>5, <2>6, <2>7, <3>3 DEF Kitchen
    <3> QED
      BY <3>1, <3>2, <3>4 DEF Kitchen
  <2>9. Custody'
    BY <1>1, <1>2, <2>3, <2>4, CustodyKeeps
  <2> QED
    BY <2>4, <2>8, <2>9
<1>6. CASE OvenStarts(c)
  <2>1. SetState(job[c], Cooked) /\ UNCHANGED job /\ pc[c] = "oven"
    BY <1>6 DEF OvenStarts
  <2>2. c \in Working /\ c \notin Baking /\ job[c] \in Hot
    BY <2>1 DEF Working, Baking, Kitchen
  <2>3. /\ \A j \in Slots : slots'[j].order = slots[j].order
        /\ \A j \in Slots \ {job[c]} : slots'[j].state = slots[j].state
        /\ slots'[job[c]].state = Cooked
    BY <1>0, <1>2, <2>1, <2>2, SetStateFacts, StatesInRange
  <2>4. Live' = Live /\ Hot' = Hot
    BY <1>1, <1>2, <2>2, <2>3, StatesDiffer DEF Live, Hot
  <2>5. Working' = Working /\ Baking' = Baking \cup {c}
    <3>1. pc'[c] = "bake"
      BY <1>0, <1>3, <1>6, CookMoves
    <3>2. \A e \in Cooks \ {c} : (e \in Working' <=> e \in Working) /\ (e \in Baking' <=> e \in Baking)
      BY <1>0, <1>3, <1>6, CookMoves
    <3> QED
      BY <2>2, <3>1, <3>2 DEF Working, Baking
  <2>6. Kitchen'
    BY <1>2, <2>1, <2>2, <2>3, <2>4, <2>5 DEF Kitchen
  <2>7. Custody'
    BY <1>1, <1>2, <2>3, <2>4, CustodyKeeps
  <2> QED
    BY <2>4, <2>6, <2>7
<1>7. CASE OvenEnds(c)
  <2>1. SetState(job[c], Delivering) /\ UNCHANGED job /\ pc[c] = "bake"
    BY <1>7 DEF OvenEnds
  <2>2. c \in Working /\ job[c] \in Hot
    BY <2>1 DEF Working, Kitchen
  <2>3. /\ \A j \in Slots : slots'[j].order = slots[j].order
        /\ \A j \in Slots \ {job[c]} : slots'[j].state = slots[j].state
        /\ slots'[job[c]].state = Delivering
    BY <1>0, <1>2, <2>1, <2>2, SetStateFacts, StatesInRange
  <2>4. Live' = Live /\ Hot' = Hot \ {job[c]}
    BY <1>1, <1>2, <2>2, <2>3, StatesDiffer DEF Live, Hot
  <2>5. Working' = Working \ {c} /\ \A e \in Cooks \ {c} : e \in Baking' <=> e \in Baking
    <3>1. pc'[c] = "announce"
      BY <1>0, <1>3, <1>7, CookMoves
    <3>2. \A e \in Cooks \ {c} : (e \in Working' <=> e \in Working) /\ (e \in Baking' <=> e \in Baking)
      BY <1>0, <1>3, <1>7, CookMoves
    <3> QED
      BY <2>2, <3>1, <3>2 DEF Working
  <2>6. \A e \in Working' : e \in Working /\ job[e] # job[c] /\ job[e] \in Hot /\ e \in Cooks \ {c}
    BY <2>2, <2>5 DEF Kitchen, Working
  <2>7. Kitchen'
    <3>1. Hot' = {job'[e] : e \in Working'}
      BY <2>1, <2>4, <2>5, <2>6 DEF Kitchen
    <3>2. \A e \in Working' : slots'[job'[e]].state = IF e \in Baking' THEN Cooked ELSE Prepared
      BY <1>2, <2>1, <2>3, <2>5, <2>6 DEF Kitchen
    <3> QED
      BY <2>1, <2>6, <3>1, <3>2 DEF Kitchen
  <2>8. Custody'
    BY <1>1, <1>2, <2>3, <2>4, CustodyKeeps
  <2> QED
    BY <2>4, <2>7, <2>8
<1> QED
  BY <1>4, <1>5, <1>6, <1>7 DEF CookStep

(* A cook changes nothing behind the orders that are counted.              *)
LEMMA CookStepWithin ==
  ASSUME ShopInv, Kitchen, NEW c \in Cooks, CookStep(c), NEW i \in Slots \ (1 .. total_orders)
  PROVE  slots'[i] = slots[i]
<1>0. TypeOK /\ ArrayOK /\ HandOK
  BY TypeParts DEF ShopInv
<1>1. ASSUME NEW j \in 1 .. total_orders, NEW s, SetState(j, s) PROVE slots'[i] = slots[i]
  BY <1>0, <1>1 DEF SetState, ArrayOK
<1>2. CASE CookTakes(c)
  <2>1. First(InState(Placed)) \in 1 .. total_orders /\ SetState(First(InState(Placed)), Prepared)
    BY <1>0, <1>2, InStateFacts DEF CookTakes, HandOK
  <2> QED
    BY <1>1, <2>1
<1>3. CASE OvenStarts(c) \/ OvenEnds(c)
  <2>1. job[c] \in 1 .. total_orders
    BY <1>3 DEF OvenStarts, OvenEnds, Kitchen, Working, Hot
  <2> QED
    BY <1>1, <1>3, <2>1 DEF OvenStarts, OvenEnds
<1> QED
  BY <1>2, <1>3 DEF CookStep, CookIdles, OvenWaits, CookAnnounces

LEMMA CourierStepCustody ==
  ASSUME ShopInv, Custody, Kitchen, NEW d \in Couriers, CourierStep(d)
  PROVE  Custody' /\ Kitchen'
<1>0. TypeOK /\ PcOK /\ ArrayOK /\ HandOK /\ HistoryOK
  BY TypeParts DEF ShopInv
<1>1. UNCHANGED <<total_orders, job>> /\ Entered' = Entered
  BY DEF CourierStep, CourierTakes, CourierCounts, CourierSleeps, CourierLeaves,
     increment_pending_deliveries, CourierDelivers, CourierTells, decrement_pending_deliveries,
     CourierUnchanged, Entered
<1>2. 1 .. total_orders \subseteq Slots /\ Live \subseteq Slots /\ Hot \subseteq Live
  BY <1>0, LiveSlots
<1>3. Working' = Working /\ Baking' = Baking
  <2>1. \E label : Moves(d, label)
    BY <1>0, CourierMoves DEF CourierStep
  <2> QED
    BY <2>1, ShopAssumption, RestsKeepsWork DEF Moves
<1>4. bag[d] \in Seq(Orders \cup {NoOrder}) /\ Len(bag[d]) \in Nat
  BY <1>0, LenProperties DEF HandOK
<1>5. CASE CourierTakes(d)
  <2> DEFINE i == First(InState(Delivering))
  <2> DEFINE o == slots[i].order
  <2>1. i \in 1 .. total_orders /\ i \in Slots /\ slots[i].state = Delivering /\ i \in Live /\ i \notin Hot
    BY <1>0, <1>5, InStateFacts, StatesDiffer DEF CourierTakes, Live, Hot
  <2>2. SetState(i, Completed) /\ bag' = [bag EXCEPT ![d] = Append(@, o)] /\ UNCHANGED served
    BY <1>5 DEF CourierTakes
  <2>3. /\ \A j \in Slots : slots'[j].order = slots[j].order
        /\ \A j \in Slots \ {i} : slots'[j].state = slots[j].state
        /\ slots'[i].state = Completed
    BY <1>0, <2>1, <2>2, SetStateFacts, StatesInRange
  <2>4. Live' = Live \ {i} /\ Hot' = Hot
    BY <1>1, <1>2, <2>1, <2>3, StatesDiffer DEF Live, Hot
  <2>5. Kitchen'
    BY <1>1, <1>2, <1>3, <2>1, <2>3, <2>4, KitchenKeeps
  <2>6. /\ o \in Entered /\ o \in Orders /\ served[o] = 0 /\ ~InBag(o)
        /\ \A j \in Live : slots[j].order = o => j = i
    BY <2>1 DEF Custody, SlotsApart, Entered
  <2>7. /\ Len(bag'[d]) = Len(bag[d]) + 1
        /\ \A k \in 1 .. Len(bag[d]) : bag'[d][k] = bag[d][k]
        /\ bag'[d][Len(bag[d]) + 1] = o
        /\ \A e \in Couriers \ {d} : bag'[e] = bag[e]
    BY <1>0, <1>4, <2>2, <2>6, AppendProperties DEF HandOK
  <2>12. ASSUME NEW e \in Couriers, NEW k \in 1 .. Len(bag'[e])
         PROVE  \/ e = d /\ k = Len(bag[d]) + 1 /\ bag'[e][k] = o
                \/ k \in 1 .. Len(bag[e]) /\ bag'[e][k] = bag[e][k]
    BY <1>4, <2>7
  <2>13. ASSUME NEW e \in Couriers, NEW k \in 1 .. Len(bag[e])
         PROVE  k \in 1 .. Len(bag'[e]) /\ bag'[e][k] = bag[e][k]
    BY <1>4, <2>7
  <2>14. Len(bag[d]) + 1 \in 1 .. Len(bag'[d])
    BY <1>4, <2>7
  <2>8. \A x : InBag(x)' <=> InBag(x) \/ x = o
    <3>1. \A x : InBag(x)' => InBag(x) \/ x = o
      BY <2>12 DEF InBag
    <3>2. \A x : InBag(x) => InBag(x)'
      BY <2>13 DEF InBag
    <3>3. \A x : x = o => InBag(x)'
      BY <2>7, <2>14 DEF InBag
    <3> QED
      BY <3>1, <3>2, <3>3
  <2>9. SlotsApart'
    BY <1>1, <1>2, <2>2, <2>3, <2>4, <2>6, <2>8 DEF Custody, SlotsApart
  <2>10. BagsApart'
    <3>1. ASSUME NEW e \in Couriers, NEW k \in 1 .. Len(bag'[e])
          PROVE  \/ e = d /\ k = Len(bag[d]) + 1 /\ bag'[e][k] = o
                 \/ k \in 1 .. Len(bag[e]) /\ bag'[e][k] = bag[e][k] /\ bag[e][k] # o
      BY <2>6, <2>12 DEF InBag
    <3> QED
      BY <1>1, <2>2, <2>6, <3>1 DEF Custody, BagsApart
  <2>11. ServedOnce'
    <3>1. \A x : InSlot(x) => InSlot(x)' \/ x = o
      BY <1>2, <2>3, <2>4 DEF InSlot
    <3> QED
      BY <1>1, <2>2, <2>8, <3>1 DEF Custody, ServedOnce
  <2> QED
    BY <2>5, <2>9, <2>10, <2>11 DEF Custody
<1>6. CASE CourierDelivers(d)
  <2> DEFINE o == Head(bag[d])
  <2>1. bag[d] # <<>> /\ bag' = [bag EXCEPT ![d] = Tail(@)] /\ UNCHANGED slots
    BY <1>6 DEF CourierDelivers, ShopInv, BagInv
  <2>2. /\ Len(bag[d]) \in Nat \ {0} /\ o = bag[d][1]
        /\ Len(Tail(bag[d])) = Len(bag[d]) - 1
        /\ \A k \in 1 .. Len(bag[d]) - 1 : Tail(bag[d])[k] = bag[d][k + 1]
    BY <1>4, <2>1, EmptySeq, HeadTailProperties
  <2>3. /\ Len(bag'[d]) = Len(bag[d]) - 1
        /\ \A k \in 1 .. Len(bag[d]) - 1 : bag'[d][k] = bag[d][k + 1]
        /\ \A e \in Couriers \ {d} : bag'[e] = bag[e]
    BY <1>0, <2>1, <2>2 DEF HandOK
  <2>4. o \in Entered /\ o \in Orders /\ served[o] = 0 /\ InBag(o)
    BY <2>2 DEF Custody, BagsApart, Entered, InBag
  <2>5. served' = [served EXCEPT ![o] = 1]
    BY <1>6, <2>4 DEF CourierDelivers
  <2>6. Live' = Live /\ Hot' = Hot
    BY <1>1, <2>1 DEF Live, Hot
  <2>7. ASSUME NEW e \in Couriers, NEW k \in 1 .. Len(bag'[e])
        PROVE  \E l \in 1 .. Len(bag[e]) : /\ bag'[e][k] = bag[e][l] /\ bag[e][l] # o
                                           /\ l = IF e = d THEN k + 1 ELSE k
    <3>1. CASE e = d
      <4>1. k + 1 \in 1 .. Len(bag[d]) /\ k + 1 # 1 /\ bag'[d][k] = bag[d][k + 1] /\ 1 \in 1 .. Len(bag[d])
        BY <2>2, <2>3, <3>1
      <4> QED
        BY <2>2, <3>1, <4>1 DEF Custody, BagsApart
    <3>2. CASE e # d
      <4>1. bag'[e] = bag[e] /\ 1 \in 1 .. Len(bag[d])
        BY <2>2, <2>3, <3>2
      <4> QED
        BY <2>2, <3>2, <4>1 DEF Custody, BagsApart
    <3> QED
      BY <3>1, <3>2
  <2>8. /\ \A x : InBag(x)' => InBag(x) /\ x # o
        /\ \A x : InBag(x) /\ x # o => InBag(x)'
    <3>1. \A x : InBag(x)' => InBag(x) /\ x # o
      BY <2>7 DEF InBag
    <3>2. ASSUME NEW x, x # o, NEW e \in Couriers, NEW k \in 1 .. Len(bag[e]), bag[e][k] = x
          PROVE  InBag(x)'
      <4>1. CASE e = d
        <5>1. k # 1
          BY <2>2, <3>2, <4>1
        <5>2. k - 1 \in 1 .. Len(bag[d]) - 1 /\ (k - 1) + 1 = k
          BY <2>2, <4>1, <5>1
        <5>3. k - 1 \in 1 .. Len(bag'[d]) /\ bag'[d][k - 1] = bag[d][k]
          BY <2>3, <5>2
        <5> QED
          BY <3>2, <4>1, <5>3 DEF InBag
      <4>2. CASE e # d
        BY <2>3, <3>2, <4>2 DEF InBag
      <4> QED
        BY <4>1, <4>2
    <3>3. \A x : InBag(x) /\ x # o => InBag(x)'
      BY <3>2 DEF InBag
    <3> QED
      BY <3>1, <3>3
  <2>9. SlotsApart'
    BY <1>0, <1>1, <2>1, <2>4, <2>5, <2>6, <2>8 DEF Custody, SlotsApart, HistoryOK, Entered
  <2>10. BagsApart'
    <3>1. ASSUME NEW e \in Couriers, NEW f \in Couriers, NEW k \in 1 .. Len(bag'[e]),
                 NEW l \in 1 .. Len(bag'[f]), bag'[e][k] = bag'[f][l]
          PROVE  e = f /\ k = l
      <4>1. PICK m \in 1 .. Len(bag[e]) : bag'[e][k] = bag[e][m] /\ m = IF e = d THEN k + 1 ELSE k
        BY <2>7
      <4>2. PICK n \in 1 .. Len(bag[f]) : bag'[f][l] = bag[f][n] /\ n = IF f = d THEN l + 1 ELSE l
        BY <2>7
      <4>3. e = f /\ m = n
        <5>1. bag[e][m] = bag[f][n] /\ BagsApart
          BY <3>1, <4>1, <4>2 DEF Custody
        <5>2. \A x \in Couriers : \A y \in 1 .. Len(bag[x]) : bag[e][m] = bag[x][y] => e = x /\ m = y
          BY <5>1 DEF BagsApart
        <5> QED
          BY <5>1, <5>2
      <4>4. k \in Nat /\ l \in Nat
        OBVIOUS
      <4> QED
        BY ONLY <4>1, <4>2, <4>3, <4>4
    <3>2. \A e \in Couriers : \A k \in 1 .. Len(bag'[e]) : bag'[e][k] \in Entered /\ served'[bag'[e][k]] = 0
      <4>1. ASSUME NEW e \in Couriers, NEW k \in 1 .. Len(bag'[e])
            PROVE  bag'[e][k] \in Entered /\ served'[bag'[e][k]] = 0
        <5>1. PICK l \in 1 .. Len(bag[e]) : bag'[e][k] = bag[e][l] /\ bag[e][l] # o
          BY <2>7
        <5>2. bag[e][l] \in Entered /\ served[bag[e][l]] = 0
          BY Zenon DEF Custody, BagsApart
        <5> QED
          BY <1>0, <2>5, <5>1, <5>2 DEF HistoryOK, Entered
      <4> QED
        BY <4>1
    <3> QED
      BY <1>1, <3>1, <3>2 DEF BagsApart
  <2>11. ServedOnce'
    <3>1. \A x : InSlot(x)' <=> InSlot(x)
      BY <2>1, <2>6 DEF InSlot
    <3> QED
      BY <1>0, <1>1, <2>4, <2>5, <2>8, <3>1 DEF Custody, ServedOnce, HistoryOK
  <2>12. Kitchen'
    BY <1>1, <1>3, <2>1, <2>6, KitchenKeeps
  <2> QED
    BY <2>9, <2>10, <2>11, <2>12 DEF Custody
<1>7. CASE ~(CourierTakes(d) \/ CourierDelivers(d))
  <2>1. UNCHANGED <<slots, bag, served>>
    BY <1>7 DEF CourierStep, CourierCounts, CourierSleeps, CourierLeaves, increment_pending_deliveries,
       CourierTells, decrement_pending_deliveries
  <2>2. Live' = Live /\ Hot' = Hot
    BY <1>1, <2>1 DEF Live, Hot
  <2> QED
    BY <1>1, <1>3, <2>1, <2>2, CustodyKeeps, KitchenKeeps
<1> QED
  BY <1>5, <1>6, <1>7

(* The next slot is within the array as long as an order is not counted.   *)
LEMMA NextSlot ==
  ASSUME ShopInv, NEW o \in Orders, o \notin Entered
  PROVE  total_orders + 1 \in Slots \ (1 .. total_orders)
<1>1. TypeOK /\ ArrayOK /\ total_orders \in Nat
  BY TypeParts, LiveSlots DEF ShopInv
<1>2. Entered \cup {o} \subseteq Orders /\ IsFiniteSet(Orders) /\ IsFiniteSet(Entered)
  BY <1>1, EnteredFinite, ShopAssumption DEF Entered
<1>3. Cardinality(Entered \cup {o}) = Cardinality(Entered) + 1
  BY <1>2, FS_AddElement
<1>4. Cardinality(Entered \cup {o}) <= Cardinality(Orders) /\ Cardinality(Entered) \in Nat
      /\ Cardinality(Orders) \in Nat
  BY <1>2, FS_Subset, FS_CardinalityType
<1> QED
  BY <1>1, <1>3, <1>4 DEF ShopInv, RoomInv, Slots

LEMMA HandlerStepCustody ==
  ASSUME ShopInv, ShopInv', Custody, Kitchen, Behind, NEW o \in Orders, HandlerStep(o)
  PROVE  Custody' /\ Kitchen' /\ Behind'
<1>0. TypeOK /\ PcOK /\ ArrayOK /\ ArrayOK' /\ HandOK /\ BatchesOK /\ CountersOK
  BY TypeParts DEF ShopInv
<1>1. UNCHANGED <<bag, job, served>> /\ Working' = Working /\ Baking' = Baking
  <2>1. \A c \in Cooks : Rests(c)
    BY <1>0, OthersMove DEF OnlyWakes
  <2> QED
    BY <2>1, RestsKeepsWork DEF HandlerStep, RefuseOrder, EnterOrder, CountTotal, CountOrder,
       HandlerUnchanged
<1>2. Live \subseteq Slots /\ Hot \subseteq Live /\ total_orders \in Nat /\ 1 .. total_orders \subseteq Slots
  BY <1>0, LiveSlots
<1>3. \A x \in Orders \ {o} : handler'[x] = handler[x] /\ read'[x] = read[x]
  BY <1>0 DEF HandlerStep, RefuseOrder, EnterOrder, CountTotal, CountOrder, Reads, Forgets, BatchesOK,
     CountersOK
<1>4. CASE RefuseOrder(o) \/ CountOrder(o)
  <2>1. UNCHANGED <<slots, total_orders>> /\ Entered' = Entered /\ handler'[o] # "total"
    BY <1>0, <1>4 DEF RefuseOrder, CountOrder, Entered, BatchesOK
  <2>2. Live' = Live /\ Hot' = Hot
    BY <2>1 DEF Live, Hot
  <2>3. \A x \in Orders : handler'[x] = "total" => handler[x] = "total" /\ read'[x] = read[x]
    BY <1>3, <2>1
  <2> QED
    BY <1>1, <2>1, <2>2, <2>3, CustodyKeeps, KitchenKeeps, BehindKeeps
<1>5. CASE EnterOrder(o)
  <2> DEFINE n == total_orders + 1
  <2>1. /\ handler[o] = "start" /\ UNCHANGED total_orders
        /\ slots' = [slots EXCEPT ![n] = [order |-> o, state |-> Placed]]
        /\ \A x \in Orders : handler[x] \notin {"total", "count"}
    BY <1>5 DEF EnterOrder, OrderMutexFree
  <2>2. Entered' = Entered /\ o \notin Entered
    BY <1>0, <1>5 DEF EnterOrder, Entered, BatchesOK
  <2>3. n \in Slots \ (1 .. total_orders)
    BY <2>2, NextSlot
  <2>4. slots'[n] = [order |-> o, state |-> Placed] /\ \A i \in 1 .. total_orders : slots'[i] = slots[i]
    BY <1>0, <1>2, <2>1, <2>3 DEF ArrayOK
  <2>5. Live' = Live /\ Hot' = Hot /\ \A i \in Live : slots'[i] = slots[i]
    BY <2>1, <2>4 DEF Live, Hot
  <2>6. Behind'
    <3>1. read'[o] = total_orders
      BY <1>0, <1>5 DEF EnterOrder, Reads, CountersOK
    <3>2. \A x \in Orders : handler'[x] = "total" => x = o
      BY <1>3, <2>1
    <3> QED
      BY <2>1, <2>4, <3>1, <3>2 DEF Behind
  <2> QED
    BY <1>1, <1>2, <2>2, <2>5, <2>6, CustodyKeeps, KitchenKeeps
<1>6. CASE CountTotal(o)
  <2> DEFINE n == total_orders + 1
  <2>1. handler[o] = "total" /\ handler'[o] = "count" /\ UNCHANGED slots
    BY <1>0, <1>6 DEF CountTotal, BatchesOK
  <2>2. total_orders' = n /\ slots[n].order = o /\ slots[n].state = Placed
    <3>1. read[o] = total_orders /\ slots[n] = [order |-> o, state |-> Placed]
      BY <2>1 DEF Behind
    <3> QED
      BY <1>6, <3>1 DEF CountTotal
  <2>3. o \notin Entered /\ Entered' = Entered \cup {o}
    BY <1>0, <1>6 DEF CountTotal, Entered, BatchesOK
  <2>4. n \in Slots \ (1 .. total_orders) /\ 1 .. total_orders' = 1 .. total_orders \cup {n}
    <3>1. n \in Slots \ (1 .. total_orders)
      BY <2>3, NextSlot
    <3> QED
      BY <1>2, <2>2, <3>1
  <2>5. Live' = Live \cup {n} /\ n \notin Live /\ Hot' = Hot
    BY <2>1, <2>2, <2>4, StatesDiffer DEF Live, Hot
  <2>6. served[o] = 0 /\ ~InBag(o) /\ ~InSlot(o)
    BY <2>3 DEF Custody, ServedOnce, SlotsApart, BagsApart, InBag, InSlot
  <2>7. /\ \A x : InBag(x)' <=> InBag(x)
        /\ \A x : InSlot(x) => InSlot(x)'
        /\ InSlot(o)'
    BY <1>1, <2>1, <2>2, <2>5 DEF InBag, InSlot
  <2>8. SlotsApart'
    <3>1. \A i \in Live : slots[i].order # o
      BY <2>6 DEF InSlot
    <3> QED
      BY <1>1, <2>1, <2>2, <2>3, <2>5, <2>6, <2>7, <3>1 DEF Custody, SlotsApart
  <2>9. BagsApart' /\ ServedOnce'
    BY <1>1, <2>3, <2>6, <2>7 DEF Custody, BagsApart, ServedOnce
  <2>10. Kitchen'
    BY <1>1, <2>1, <2>5, KitchenKeeps
  <2>11. Behind'
    BY <1>3, <2>1 DEF Behind, ShopInv, EnterInv
  <2> QED
    BY <2>8, <2>9, <2>10, <2>11 DEF Custody
<1> QED
  BY <1>4, <1>5, <1>6 DEF HandlerStep

(* A reset that finds every order served finds no order anywhere.          *)
LEMMA NothingLeft ==
  ASSUME TypeOK, Custody, Unserved = {}
  PROVE  Live = {} /\ (\A d \in Couriers : Len(bag[d]) = 0) /\ Waiting = {}
<1>1. \A o \in Entered : served[o] # 0
  BY DEF Unserved, Arrived, Entered
<1>2. \A d \in Couriers : Len(bag[d]) \in Nat
  BY LenProperties DEF TypeOK
<1>3. ASSUME NEW d \in Couriers, Len(bag[d]) # 0 PROVE FALSE
  <2>1. 1 \in 1 .. Len(bag[d])
    BY <1>2, <1>3
  <2> QED
    BY <1>1, <2>1 DEF Custody, BagsApart
<1> QED
  BY <1>1, <1>3 DEF Custody, SlotsApart, Waiting

LEMMA MainStepCustody ==
  ASSUME ShopInv, Custody, Kitchen, Behind, MainStep, ~torn'
  PROVE  Custody' /\ Kitchen' /\ Behind'
<1>0. TypeOK /\ PcOK /\ CountersOK
  BY TypeParts DEF ShopInv
<1>1. UNCHANGED <<slots, bag, job, served>>
  BY DEF MainStep, MainAccepts, MainReads, MainWaitsOrders, DeliveriesRead, wait_for_all_deliveries,
     ResetTotal, ResetCompleted, ResetActive, MainUnchanged
<1>2. Working' = Working /\ Baking' = Baking
  <2>1. \A c \in Cooks : Rests(c)
    BY <1>0, MainMoves, ShopAssumption DEF MainStep, Moves
  <2> QED
    BY <2>1, RestsKeepsWork
<1>3. Entered' = Entered
  <2>1. CASE MainAccepts
    <3>1. /\ handler' = [o \in Orders |-> IF o \in batches[accepted + 1] THEN "start" ELSE handler[o]]
          /\ accepted < Len(batches)
      BY <2>1 DEF MainAccepts
    <3>2. \A o \in batches[accepted + 1] : handler[o] = "none"
      BY <3>1, NewBatch
    <3> QED
      BY <3>1, <3>2 DEF Entered
  <2>2. CASE ~MainAccepts
    BY <2>2 DEF MainStep, MainReads, MainWaitsOrders, DeliveriesRead, wait_for_all_deliveries, ResetTotal,
       ResetCompleted, ResetActive, Entered
  <2> QED
    BY <2>1, <2>2
<1>4. Live' = Live /\ Hot' = Hot
  <2>1. CASE ResetTotal
    <3>1. Unserved = {} /\ total_orders' = 0
      BY <2>1 DEF ResetTotal
    <3>2. Live = {} /\ Hot \subseteq Live
      BY <1>0, <3>1, NothingLeft, LiveSlots, TypeParts
    <3>3. Live' = {} /\ Hot' = {}
      BY <3>1 DEF Live, Hot
    <3> QED
      BY <3>2, <3>3
  <2>2. CASE ~ResetTotal
    <3>1. UNCHANGED total_orders
      BY <2>2 DEF MainStep, MainAccepts, MainReads, MainWaitsOrders, DeliveriesRead,
         wait_for_all_deliveries, ResetCompleted, ResetActive, countVars
    <3> QED
      BY <1>1, <3>1 DEF Live, Hot
  <2> QED
    BY <2>1, <2>2
<1>5. Behind'
  <2>1. \A o \in Orders : handler'[o] = "total" => handler[o] = "total" /\ read'[o] = read[o]
    BY <1>0, ShopAssumption DEF MainStep, MainAccepts, MainReads, MainWaitsOrders, DeliveriesRead,
       wait_for_all_deliveries, ResetTotal, ResetCompleted, ResetActive, Reads, Forgets, CountersOK
  <2>2. CASE ResetTotal
    <3>1. Unserved = {} /\ UNCHANGED handler
      BY <2>2 DEF ResetTotal
    <3>2. \A o \in Orders : handler[o] # "total"
      BY <3>1 DEF Unserved, Arrived, Custody, ServedOnce, Entered
    <3> QED
      BY <3>1, <3>2 DEF Behind
  <2>3. CASE ~ResetTotal
    <3>1. UNCHANGED total_orders
      BY <2>3 DEF MainStep, MainAccepts, MainReads, MainWaitsOrders, DeliveriesRead,
         wait_for_all_deliveries, ResetCompleted, ResetActive, countVars
    <3> QED
      BY <1>1, <2>1, <3>1, BehindKeeps
  <2> QED
    BY <2>2, <2>3
<1> QED
  BY <1>1, <1>2, <1>3, <1>4, <1>5, CustodyKeeps, KitchenKeeps

LEMMA OtherStepCustody ==
  ASSUME ShopInv, Custody, Kitchen, Behind,
         UNCHANGED vars \/ ClientSends \/ CompletionStep \/ \E t \in Threads : SpuriousWake(t)
  PROVE  Custody' /\ Kitchen' /\ Behind'
<1>1. UNCHANGED <<slots, total_orders, bag, job, served, handler>> /\ \A o \in Orders : read'[o] = read[o]
  BY TypeParts, ShopAssumption DEF vars, ClientSends, CompletionStep, CompletionAccepts, CompletionReads,
     CompletionWaits, SpuriousWake, Reads, Forgets, countVars, histVars, ShopInv, CountersOK
<1>2. Working' = Working /\ Baking' = Baking
  <2>1. \A c \in Cooks : Rests(c)
    BY OthersMove, TypeParts, ShopAssumption DEF OnlyWakes, ShopInv
  <2> QED
    BY <2>1, RestsKeepsWork
<1>3. Live' = Live /\ Hot' = Hot /\ Entered' = Entered
  BY <1>1 DEF Live, Hot, Entered
<1> QED
  BY <1>1, <1>2, <1>3, CustodyKeeps, KitchenKeeps, BehindKeeps

(* What cooks and couriers do is in the part of the array that is counted. *)
LEMMA BehindStep ==
  ASSUME ShopInv, Custody, Kitchen, Behind,
         (\E c \in Cooks : CookStep(c)) \/ (\E d \in Couriers : CourierStep(d))
  PROVE  Behind'
<1>0. TypeOK /\ ArrayOK /\ CountersOK
  BY TypeParts DEF ShopInv
<1>1. UNCHANGED <<total_orders, handler>> /\ \A o \in Orders : read'[o] = read[o]
  BY <1>0, ShopAssumption DEF CookStep, CookIdles, CookTakes, OvenWaits, OvenStarts, OvenEnds,
     CookAnnounces, CookUnchanged, countVars, CourierStep, CourierTakes, CourierCounts, CourierSleeps,
     CourierLeaves, increment_pending_deliveries, CourierDelivers, CourierTells,
     decrement_pending_deliveries, CourierUnchanged, NoCount, Reads, Forgets, CountersOK
<1>2. CASE \A i \in Slots \ (1 .. total_orders) : slots'[i] = slots[i]
  <2>1. \A o \in Orders : handler[o] = "total" => total_orders + 1 \in Slots \ (1 .. total_orders)
    BY NextSlot DEF Entered
  <2> QED
    BY <1>1, <1>2, <2>1 DEF Behind
<1>3. ASSUME NEW d \in Couriers, CourierStep(d), NEW i \in Slots \ (1 .. total_orders)
      PROVE  slots'[i] = slots[i]
  <2>1. CASE CourierTakes(d)
    BY <1>0, <2>1, InStateFacts DEF CourierTakes, SetState, ArrayOK
  <2>2. CASE ~CourierTakes(d)
    BY <1>3, <2>2 DEF CourierStep, CourierCounts, CourierSleeps, CourierLeaves,
       increment_pending_deliveries, CourierDelivers, CourierTells, decrement_pending_deliveries
  <2> QED
    BY <2>1, <2>2
<1> QED
  BY <1>2, <1>3, CookStepWithin

CustodyInv == ~torn => Custody /\ Kitchen /\ Behind

LEMMA CustodyInit == Init => CustodyInv
<1> SUFFICES ASSUME Init PROVE Custody /\ Kitchen /\ Behind
  BY DEF CustodyInv
<1>1. Live = {} /\ Hot = {} /\ Entered = {} /\ Working = {}
  BY ShopAssumption DEF Init, Live, Hot, Entered, Working
<1>2. \A d \in Couriers : bag[d] = <<>> /\ 1 .. Len(bag[d]) = {}
  BY DEF Init
<1>3. \A o \in Orders : served[o] = 0
  BY DEF Init
<1>4. Behind
  BY DEF Init, Behind
<1> QED
  BY <1>1, <1>2, <1>3, <1>4 DEF Custody, SlotsApart, BagsApart, ServedOnce, Kitchen

LEMMA CustodyStep == ShopInv /\ ShopInv' /\ CustodyInv /\ [Next]_vars => CustodyInv'
<1> SUFFICES ASSUME ShopInv, ShopInv', CustodyInv, [Next]_vars, ~torn' PROVE Custody' /\ Kitchen' /\ Behind'
  BY DEF CustodyInv
<1>1. Custody /\ Kitchen /\ Behind
  BY TornStays DEF CustodyInv
<1> QED
  BY <1>1, OtherStepCustody, MainStepCustody, HandlerStepCustody, CookStepCustody, CourierStepCustody,
     BehindStep DEF Next

LEMMA CustodyAlways == Spec => [](ShopInv /\ CustodyInv)
<1>1. ShopInv /\ OvenInv /\ [Next]_vars /\ OvenInv' => ShopInv'
  BY ShopStep
<1> QED
  BY <1>1, OvenAlways, ShopInit, CustodyInit, CustodyStep, PTL DEF Spec

LEMMA PlacesOfOne ==
  ASSUME TypeOK, Custody, NEW o \in Orders
  PROVE  Cardinality(Places(o)) + served[o] = IF o \in Entered THEN 1 ELSE 0
<1> DEFINE SlotsOf == {<<"slot", i>> : i \in {j \in 1 .. total_orders :
                                             slots[j].order = o /\ slots[j].state # Completed}}
<1> DEFINE BagsOf == UNION {{<<d, k>> : k \in {j \in 1 .. Len(bag[d]) : bag[d][j] = o}} : d \in Couriers}
<1>1. Places(o) = SlotsOf \cup BagsOf
  BY DEF Places
<1>2. ~InSlot(o) => SlotsOf = {}
  BY DEF InSlot, Live
<1>3. ~InBag(o) => BagsOf = {}
  BY DEF InBag
<1>4. CASE o \notin Entered \/ served[o] = 1
  <2>1. ~InSlot(o) /\ ~InBag(o)
    BY <1>4 DEF Custody, SlotsApart, BagsApart, InSlot, InBag
  <2>2. Cardinality(Places(o)) = 0
    BY <1>1, <1>2, <1>3, <2>1, FS_EmptySet
  <2> QED
    BY <1>4, <2>2 DEF Custody, ServedOnce
<1>5. CASE o \in Entered /\ served[o] = 0 /\ InSlot(o)
  <2>1. PICK i \in Live : slots[i].order = o
    BY <1>5 DEF InSlot
  <2>2. ~InBag(o) /\ \A j \in Live : slots[j].order = o => j = i
    BY <2>1 DEF Custody, SlotsApart
  <2>3. SlotsOf = {<<"slot", i>>}
    BY <2>1, <2>2 DEF Live
  <2>4. Cardinality(Places(o)) = 1
    BY <1>1, <1>3, <2>2, <2>3, FS_Singleton
  <2> QED
    BY <1>5, <2>4
<1>6. CASE o \in Entered /\ served[o] = 0 /\ InBag(o)
  <2>1. PICK d \in Couriers : \E j \in 1 .. Len(bag[d]) : bag[d][j] = o
    BY <1>6 DEF InBag
  <2>6. PICK k \in 1 .. Len(bag[d]) : bag[d][k] = o
    BY <2>1
  <2>2. ~InSlot(o)
    BY <1>6 DEF Custody, SlotsApart, InSlot
  <2>3. \A e \in Couriers : \A l \in 1 .. Len(bag[e]) : bag[e][l] = o => e = d /\ l = k
    BY <2>6 DEF Custody, BagsApart
  <2>4. BagsOf = {<<d, k>>}
    BY <2>6, <2>3
  <2>5. Cardinality(Places(o)) = 1
    BY <1>1, <1>2, <2>2, <2>4, FS_Singleton
  <2> QED
    BY <1>6, <2>5
<1> QED
  BY <1>4, <1>5, <1>6 DEF Custody, ServedOnce

(* OrdersKept: as long as no reset has hit orders under way, an order that *)
(* was entered is in one slot, in one place of one bag, or delivered once. *)
THEOREM OrdersKept == Spec => []OrderCustody
<1>1. ShopInv /\ CustodyInv => OrderCustody
  BY PlacesOfOne DEF ShopInv, CustodyInv, OrderCustody
<1> QED
  BY <1>1, CustodyAlways, PTL

(* JobsApart: under the same condition no two cooks have the same order,   *)
(* and what is prepared or baked is what cooks are at work on.             *)
THEOREM JobsApart == Spec => []CooksApart
<1>1. ShopInv /\ CustodyInv => CooksApart
  BY KitchenIsApart DEF CustodyInv
<1> QED
  BY <1>1, CustodyAlways, PTL
-----------------------------------------------------------------------------
(* The counters.  As long as no reset has hit orders under way, and except *)
(* between two of main's three assignments, total_orders is ahead of       *)
(* completed_orders by the orders not served; and as long as one thread at *)
(* a time has changed active_orders, it is the number of slots not         *)
(* completed, but for what a thread in the middle of its ++ or -- has yet  *)
(* to write.                                                               *)
CountingOrders == {o \in Orders : handler[o] = "count"}
CountingCouriers == {d \in Couriers : pc[d] = "count"}
Resetting == pc[Main] \in {"reset_completed", "reset_active"}
OneCounts ==
  /\ \A o \in CountingOrders :
       read[o] = active_orders /\ CountingCouriers = {} /\ CountingOrders = {o}
  /\ \A d \in CountingCouriers : read[d] = active_orders /\ CountingCouriers = {d}
ActiveCounted ==
  active_orders = Cardinality(Live) - Cardinality(CountingOrders) + Cardinality(CountingCouriers)
Counted ==
  /\ \A o \in CountingOrders : served[o] = 0
  /\ Resetting => total_orders = 0 /\ Unserved = {}
  /\ pc[Main] # "reset_completed" => total_orders - completed_orders = Cardinality(Waiting)
  /\ ~raced => OneCounts /\ ActiveCounted

LEMMA MainRests ==
  ASSUME Rests(Main)
  PROVE  (Resetting' <=> Resetting) /\ (pc'[Main] = "reset_completed" <=> pc[Main] = "reset_completed")
BY DEF Rests, Wakes, Resetting

LEMMA CouriersRest ==
  ASSUME \A d \in Couriers : Rests(d) PROVE CountingCouriers' = CountingCouriers
BY DEF Rests, Wakes, CountingCouriers

LEMMA CountKeeps ==
  ASSUME Counted, UNCHANGED <<total_orders, completed_orders, active_orders, handler, served, raced>>,
         \A x \in Couriers \cup Orders : read'[x] = read[x],
         Rests(Main), Live' = Live, CountingCouriers' = CountingCouriers
  PROVE  Counted'
<1>1. Waiting' = Waiting /\ Unserved' = Unserved /\ CountingOrders' = CountingOrders
  BY DEF Waiting, Entered, Unserved, Arrived, CountingOrders
<1>2. OneCounts => OneCounts'
  BY <1>1 DEF OneCounts, CountingOrders, CountingCouriers
<1>3. ActiveCounted => ActiveCounted'
  BY <1>1 DEF ActiveCounted
<1> QED
  BY <1>1, <1>2, <1>3, MainRests DEF Counted

(* Until changes of active_orders overlap, a thread that begins one is the *)
(* only one in the middle of one.                                          *)
LEMMA BeginsAlone ==
  ASSUME BeginsCount, ~raced'
  PROVE  ~raced /\ CountingOrders = {} /\ CountingCouriers = {}
BY DEF BeginsCount, Counting, CountingOrders, CountingCouriers

LEMMA FiniteCounts ==
  ASSUME TypeOK
  PROVE  /\ IsFiniteSet(Live) /\ Cardinality(Live) \in Nat
         /\ IsFiniteSet(Waiting) /\ Cardinality(Waiting) \in Nat
<1>1. Live \subseteq 1 .. total_orders /\ total_orders \in Int
  BY LiveSlots, TypeParts DEF Live
<1>2. Waiting \subseteq Orders
  BY DEF Waiting, Entered
<1>3. IsFiniteSet(1 .. total_orders) /\ IsFiniteSet(Orders)
  BY <1>1, ShopAssumption, FS_Interval
<1>4. IsFiniteSet(Live) /\ IsFiniteSet(Waiting)
  BY <1>1, <1>2, <1>3, FS_Subset
<1> QED
  BY <1>4, FS_CardinalityType

LEMMA CookStepCounted ==
  ASSUME ShopInv, Custody, Kitchen, Counted, NEW c \in Cooks, CookStep(c)
  PROVE  Counted'
<1>1. UNCHANGED <<total_orders, completed_orders, active_orders, read, handler, served, raced>>
  BY DEF CookStep, CookIdles, CookTakes, OvenWaits, OvenStarts, OvenEnds, CookAnnounces,
     CookUnchanged, countVars, histVars
<1>2. \E label : Moves(c, label)
  BY CookMoves, TypeParts DEF CookStep, ShopInv
<1>3. Rests(Main) /\ \A d \in Couriers : Rests(d)
  BY <1>2, ShopAssumption DEF Moves
<1> QED
  BY <1>1, <1>3, CookStepCustody, CouriersRest, CountKeeps

(* The order in the next slot is not yet counted.                          *)
LEMMA EnterOrderCounted ==
  ASSUME ShopInv, Custody, Counted, NEW o \in Orders, EnterOrder(o) \/ RefuseOrder(o)
  PROVE  Counted'
<1>0. TypeOK /\ PcOK /\ ArrayOK /\ CountersOK /\ BatchesOK /\ total_orders \in Nat
  BY TypeParts, LiveSlots DEF ShopInv
<1>1. /\ handler[o] = "start" /\ handler'[o] \in {"total", "refused"}
      /\ \A x \in Orders \ {o} : handler'[x] = handler[x] /\ read'[x] = read[x]
      /\ \A d \in Couriers : read'[d] = read[d]
      /\ UNCHANGED <<total_orders, completed_orders, active_orders, pc, served, raced>>
  BY <1>0, ShopAssumption DEF EnterOrder, RefuseOrder, HandlerUnchanged, Reads, BatchesOK, CountersOK
<1>2. o \notin Entered
  BY <1>1 DEF Entered
<1>3. CountingOrders' = CountingOrders /\ CountingCouriers' = CountingCouriers /\ Waiting' = Waiting
      /\ o \notin CountingOrders /\ Unserved' \subseteq Unserved
  BY <1>1 DEF CountingOrders, CountingCouriers, Waiting, Entered, Unserved, Arrived
<1>4. Live' = Live
  <2>1. \A i \in 1 .. total_orders : slots'[i] = slots[i]
    <3>1. CASE RefuseOrder(o)
      BY <3>1 DEF RefuseOrder
    <3>2. CASE EnterOrder(o)
      BY <1>0, <3>2, LiveSlots DEF EnterOrder, ArrayOK
    <3> QED
      BY <3>1, <3>2
  <2> QED
    BY <1>1, <2>1 DEF Live
<1>5. \A x \in CountingOrders : read'[x] = read[x]
  BY <1>1, <1>3 DEF CountingOrders
<1>6. OneCounts => OneCounts'
  BY <1>1, <1>3, <1>5 DEF OneCounts, CountingCouriers
<1>7. ActiveCounted => ActiveCounted'
  BY <1>1, <1>3, <1>4 DEF ActiveCounted
<1> QED
  BY <1>1, <1>3, <1>6, <1>7 DEF Counted, Resetting

LEMMA CountTotalCounted ==
  ASSUME ShopInv, ShopInv', Custody, Behind, Counted, NEW o \in Orders, CountTotal(o)
  PROVE  Counted'
<1>0. TypeOK /\ PcOK /\ ArrayOK /\ ArrayOK' /\ CountersOK /\ BatchesOK /\ total_orders \in Nat
  BY TypeParts, LiveSlots DEF ShopInv
<1>1. /\ handler[o] = "total" /\ handler' = [handler EXCEPT ![o] = "count"]
      /\ UNCHANGED <<slots, completed_orders, active_orders, pc, served>>
      /\ read' = [read EXCEPT ![o] = active_orders] /\ BeginsCount
      /\ total_orders' = total_orders + 1
      /\ slots[total_orders + 1] = [order |-> o, state |-> Placed]
  BY DEF CountTotal, HandlerUnchanged, Reads, Behind
<1>2. o \notin Entered /\ served[o] = 0 /\ o \in Unserved
  BY <1>1 DEF Entered, Custody, ServedOnce, Unserved, Arrived
<1>3. ~Resetting /\ ~Resetting' /\ pc[Main] # "reset_completed"
  BY <1>1, <1>2 DEF Counted, Resetting
<1>4. CountingCouriers' = CountingCouriers /\ CountingOrders' = CountingOrders \cup {o}
  BY <1>0, <1>1 DEF CountingCouriers, CountingOrders, BatchesOK
<1>5. Waiting' = Waiting \cup {o} /\ o \notin Waiting
  BY <1>0, <1>1, <1>2 DEF Waiting, Entered, BatchesOK
<1>6. Cardinality(Waiting') = Cardinality(Waiting) + 1 /\ Cardinality(Waiting) \in Nat
  BY <1>0, <1>5, FiniteCounts, FS_AddElement
<1>7. Live' = Live \cup {total_orders + 1} /\ total_orders + 1 \notin Live
  <2>1. 1 .. total_orders' = 1 .. total_orders \cup {total_orders + 1} /\ total_orders + 1 \notin 1 .. total_orders
    BY <1>0, <1>1
  <2>2. slots[total_orders + 1].state = Placed
    BY <1>1
  <2> QED
    BY <1>1, <2>1, <2>2, StatesDiffer DEF Live
<1>8. Cardinality(Live') = Cardinality(Live) + 1 /\ Cardinality(Live) \in Nat
  BY <1>0, <1>7, FiniteCounts, FS_AddElement
<1>9. total_orders' - completed_orders' = Cardinality(Waiting')
  BY <1>0, <1>1, <1>3, <1>6 DEF Counted, CountersOK
<1>10. \A x \in CountingOrders' : served'[x] = 0
  BY <1>1, <1>2, <1>4 DEF Counted
<1>11. ~raced' => OneCounts' /\ ActiveCounted'
  <2> SUFFICES ASSUME ~raced' PROVE OneCounts' /\ ActiveCounted'
    OBVIOUS
  <2>1. CountingOrders' = {o} /\ CountingCouriers' = {} /\ CountingOrders = {} /\ CountingCouriers = {} /\ ~raced
    BY <1>1, <1>4, BeginsAlone
  <2>2. read'[o] = active_orders'
    BY <1>0, <1>1 DEF CountersOK
  <2>3. active_orders = Cardinality(Live)
    BY <1>8, <2>1, FS_EmptySet DEF Counted, ActiveCounted
  <2>4. Cardinality(CountingOrders') = 1 /\ Cardinality(CountingCouriers') = 0
    BY <2>1, FS_EmptySet, FS_Singleton
  <2> QED
    BY <1>1, <1>8, <2>1, <2>2, <2>3, <2>4 DEF OneCounts, ActiveCounted
<1> QED
  BY <1>3, <1>9, <1>10, <1>11 DEF Counted

LEMMA CountOrderCounted ==
  ASSUME ShopInv, Counted, NEW o \in Orders, CountOrder(o)
  PROVE  Counted'
<1>0. TypeOK /\ PcOK /\ CountersOK /\ BatchesOK
  BY TypeParts DEF ShopInv
<1>1. /\ handler[o] = "count" /\ handler' = [handler EXCEPT ![o] = "done"]
      /\ UNCHANGED <<slots, total_orders, completed_orders, served, raced>>
      /\ active_orders' = read[o] + 1
  BY DEF CountOrder, HandlerUnchanged
<1>2. Rests(Main) /\ CountingCouriers' = CountingCouriers
  BY <1>0, OthersMove, CouriersRest, ShopAssumption DEF OnlyWakes, HandlerStep
<1>3. /\ Waiting' = Waiting /\ Unserved' = Unserved /\ Live' = Live
      /\ CountingOrders' = CountingOrders \ {o} /\ o \in CountingOrders
  BY <1>0, <1>1 DEF Waiting, Entered, Unserved, Arrived, Live, CountingOrders, BatchesOK
<1>4. ~raced => OneCounts' /\ ActiveCounted'
  <2> SUFFICES ASSUME ~raced PROVE OneCounts' /\ ActiveCounted'
    OBVIOUS
  <2>1. read[o] = active_orders /\ CountingOrders = {o} /\ CountingCouriers = {}
    BY <1>3 DEF Counted, OneCounts
  <2>2. CountingOrders' = {} /\ CountingCouriers' = {}
    BY <1>2, <1>3, <2>1
  <2>3. Cardinality(CountingOrders) = 1 /\ Cardinality(CountingCouriers) = 0
        /\ Cardinality(CountingOrders') = 0 /\ Cardinality(CountingCouriers') = 0
    BY <2>1, <2>2, FS_EmptySet, FS_Singleton
  <2>4. Cardinality(Live) \in Nat
    BY <1>0, FiniteCounts
  <2> QED
    BY <1>1, <1>3, <2>1, <2>2, <2>3, <2>4 DEF Counted, OneCounts, ActiveCounted
<1> QED
  BY <1>1, <1>2, <1>3, <1>4, MainRests DEF Counted

LEMMA CourierStepCounted ==
  ASSUME ShopInv, Custody, Counted, NEW d \in Couriers, CourierStep(d)
  PROVE  Counted'
<1>0. TypeOK /\ PcOK /\ ArrayOK /\ CountersOK /\ HandOK /\ HistoryOK
  BY TypeParts DEF ShopInv
<1>1. UNCHANGED <<total_orders, handler>>
  BY DEF CourierStep, CourierTakes, CourierCounts, CourierSleeps, CourierLeaves,
     increment_pending_deliveries, CourierDelivers, CourierTells, decrement_pending_deliveries,
     CourierUnchanged
<1>2. Rests(Main) /\ \A e \in Couriers \ {d} : e \in CountingCouriers' <=> e \in CountingCouriers
  <2>1. \E label : Moves(d, label)
    BY <1>0, CourierMoves DEF CourierStep
  <2> QED
    BY <2>1, ShopAssumption DEF Moves, Rests, Wakes, CountingCouriers
<1>3. CountingOrders' = CountingOrders
  BY <1>1 DEF CountingOrders
<1>4. CASE CourierTakes(d)
  <2> DEFINE i == First(InState(Delivering))
  <2>1. i \in 1 .. total_orders /\ i \in Slots /\ slots[i].state = Delivering /\ i \in Live
    BY <1>0, <1>4, InStateFacts, StatesDiffer DEF CourierTakes, Live
  <2>2. /\ SetState(i, Completed) /\ UNCHANGED <<served, active_orders, completed_orders>>
        /\ read' = [read EXCEPT ![d] = active_orders] /\ BeginsCount /\ pc[d] = "pick"
    BY <1>4 DEF CourierTakes, CourierUnchanged, Reads
  <2>3. Live' = Live \ {i}
    BY <1>0, <1>1, <2>1, <2>2, SetStateFacts, StatesInRange, LiveSlots DEF Live
  <2>4. Waiting' = Waiting /\ Unserved' = Unserved
    BY <1>1, <2>2 DEF Waiting, Entered, Unserved, Arrived
  <2>5. Cardinality(Live') = Cardinality(Live) - 1 /\ Cardinality(Live) \in Nat
    BY <1>0, <2>1, <2>3, FiniteCounts, FS_RemoveElement
  <2>6. CountingCouriers' = CountingCouriers \cup {d}
    BY <1>0, <1>2, <1>4, CourierMoves DEF Moves, CountingCouriers
  <2>7. ~raced' => OneCounts' /\ ActiveCounted'
    <3> SUFFICES ASSUME ~raced' PROVE OneCounts' /\ ActiveCounted'
      OBVIOUS
    <3>1. CountingOrders = {} /\ CountingCouriers = {} /\ CountingOrders' = {} /\ CountingCouriers' = {d} /\ ~raced
      BY <1>3, <2>2, <2>6, BeginsAlone
    <3>2. Cardinality(CountingOrders) = 0 /\ Cardinality(CountingCouriers) = 0
          /\ Cardinality(CountingOrders') = 0 /\ Cardinality(CountingCouriers') = 1
      BY <3>1, FS_EmptySet, FS_Singleton
    <3>3. read'[d] = active_orders'
      BY <1>0, <2>2 DEF CountersOK
    <3> QED
      BY <2>2, <2>5, <3>1, <3>2, <3>3 DEF Counted, OneCounts, ActiveCounted
  <2> QED
    BY <1>1, <1>2, <1>3, <2>2, <2>4, <2>7, MainRests DEF Counted
<1>5. CASE CourierCounts(d)
  <2>1. /\ UNCHANGED <<slots, served, completed_orders, raced>>
        /\ active_orders' = read[d] - 1 /\ d \in CountingCouriers
    BY <1>5 DEF CourierCounts, CourierUnchanged, CountingCouriers
  <2>2. CountingCouriers' = CountingCouriers \ {d}
    BY <1>0, <1>2, <1>5, CourierMoves DEF Moves, CountingCouriers
  <2>3. Waiting' = Waiting /\ Unserved' = Unserved /\ Live' = Live
    BY <1>1, <2>1 DEF Waiting, Entered, Unserved, Arrived, Live
  <2>4. ~raced => OneCounts' /\ ActiveCounted'
    <3> SUFFICES ASSUME ~raced PROVE OneCounts' /\ ActiveCounted'
      OBVIOUS
    <3>1. read[d] = active_orders /\ CountingCouriers = {d} /\ CountingOrders = {}
      BY <2>1 DEF Counted, OneCounts
    <3>2. CountingOrders' = {} /\ CountingCouriers' = {}
      BY <1>3, <2>2, <3>1
    <3>3. Cardinality(CountingOrders) = 0 /\ Cardinality(CountingCouriers) = 1
          /\ Cardinality(CountingOrders') = 0 /\ Cardinality(CountingCouriers') = 0
      BY <3>1, <3>2, FS_EmptySet, FS_Singleton
    <3>4. Cardinality(Live) \in Nat
      BY <1>0, FiniteCounts
    <3> QED
      BY <2>1, <2>3, <3>1, <3>2, <3>3, <3>4 DEF Counted, OneCounts, ActiveCounted
  <2> QED
    BY <1>1, <1>2, <1>3, <2>1, <2>3, <2>4, MainRests DEF Counted
<1>6. CASE CourierDelivers(d)
  <2> DEFINE o == Head(bag[d])
  <2>1. /\ UNCHANGED <<slots, active_orders, read, raced>> /\ completed_orders' = completed_orders + 1
        /\ bag[d] # <<>> /\ CountingOrders = {} /\ pc[d] = "deliver"
    BY <1>6 DEF CourierDelivers, NoCount, OrderMutexFree, CountingOrders, ShopInv, BagInv
  <2>2. 1 \in 1 .. Len(bag[d]) /\ o = bag[d][1]
    BY <1>0, <2>1, EmptySeq DEF HandOK
  <2>3. o \in Entered /\ o \in Orders /\ served[o] = 0
    BY <2>2 DEF Custody, BagsApart, Entered
  <2>4. served' = [served EXCEPT ![o] = 1]
    BY <1>6, <2>3 DEF CourierDelivers
  <2>5. Waiting' = Waiting \ {o} /\ o \in Waiting /\ Unserved' \subseteq Unserved
    BY <1>0, <1>1, <2>3, <2>4 DEF Waiting, Entered, Unserved, Arrived, HistoryOK
  <2>6. Cardinality(Waiting') = Cardinality(Waiting) - 1 /\ Cardinality(Waiting) \in Nat
    BY <1>0, <2>5, FiniteCounts, FS_RemoveElement
  <2>7. Live' = Live
    BY <1>1, <2>1 DEF Live
  <2>8. CountingCouriers' = CountingCouriers
    BY <1>0, <1>2, <1>6, <2>1, CourierMoves DEF Moves, CountingCouriers
  <2>9. pc'[Main] # "reset_completed" => total_orders' - completed_orders' = Cardinality(Waiting')
    BY <1>0, <1>1, <1>2, <2>1, <2>6, MainRests, LiveSlots DEF Counted, CountersOK
  <2> QED
    BY <1>1, <1>2, <1>3, <2>1, <2>5, <2>7, <2>8, <2>9, MainRests DEF Counted, OneCounts, ActiveCounted
<1>7. CASE ~(CourierTakes(d) \/ CourierCounts(d) \/ CourierDelivers(d))
  <2>1. UNCHANGED <<slots, served, active_orders, completed_orders, read, raced>>
    BY <1>7 DEF CourierStep, CourierSleeps, CourierLeaves, increment_pending_deliveries,
       CourierTells, decrement_pending_deliveries, CourierUnchanged, NoCount
  <2>2. d \notin CountingCouriers /\ d \notin CountingCouriers'
    BY <1>0, <1>7, CourierMoves DEF CourierStep, CourierSleeps, CourierLeaves, increment_pending_deliveries,
       CourierTells, decrement_pending_deliveries, CountingCouriers, Moves
  <2>3. CountingCouriers' = CountingCouriers
    BY <1>2, <2>2 DEF CountingCouriers
  <2>4. Live' = Live
    BY <1>1, <2>1 DEF Live
  <2> QED
    BY <1>1, <1>2, <2>1, <2>3, <2>4, CountKeeps
<1> QED
  BY <1>4, <1>5, <1>6, <1>7

LEMMA MainStepCounted ==
  ASSUME ShopInv, Custody, Counted, MainStep, ~torn'
  PROVE  Counted'
<1>0. TypeOK /\ PcOK /\ CountersOK
  BY TypeParts DEF ShopInv
<1>1. UNCHANGED <<slots, bag, served, raced>>
  BY DEF MainStep, MainAccepts, MainReads, MainWaitsOrders, DeliveriesRead, wait_for_all_deliveries,
     ResetTotal, ResetCompleted, ResetActive, MainUnchanged
<1>2. CountingCouriers' = CountingCouriers
  <2>1. \A d \in Couriers : Rests(d)
    BY <1>0, MainMoves, ShopAssumption DEF MainStep, Moves
  <2> QED
    BY <2>1, CouriersRest
<1>9. OneCounts /\ UNCHANGED active_orders /\ CountingOrders' = CountingOrders => OneCounts'
  <2>1. \A x \in Couriers \cup Orders : read'[x] = read[x]
    BY <1>0, ShopAssumption DEF MainStep, MainAccepts, MainReads, MainWaitsOrders, DeliveriesRead,
       wait_for_all_deliveries, ResetTotal, ResetCompleted, ResetActive, Reads, Forgets, CountersOK
  <2> QED
    BY <1>2, <2>1 DEF OneCounts, CountingOrders, CountingCouriers
<1>3. CASE MainAccepts
  <2>1. /\ handler' = [o \in Orders |-> IF o \in batches[accepted + 1] THEN "start" ELSE handler[o]]
        /\ accepted < Len(batches) /\ UNCHANGED countVars
    BY <1>3 DEF MainAccepts
  <2>2. \A o \in batches[accepted + 1] : handler[o] = "none"
    BY <2>1, NewBatch
  <2>3. Entered' = Entered /\ CountingOrders' = CountingOrders
    BY <2>1, <2>2 DEF Entered, CountingOrders
  <2>4. pc[Main] = "accept" /\ pc'[Main] = "orders"
    BY <1>0, <1>3, MainMoves DEF MainAccepts, Moves
  <2>5. Live' = Live /\ Waiting' = Waiting
    BY <1>1, <2>1, <2>3 DEF Live, Waiting, countVars
  <2> QED
    BY <1>1, <1>2, <1>9, <2>1, <2>3, <2>4, <2>5 DEF Counted, Resetting, ActiveCounted, countVars
<1>4. ASSUME UNCHANGED <<handler, slots, served>>
      PROVE  Waiting' = Waiting /\ Unserved' = Unserved /\ CountingOrders' = CountingOrders
  BY <1>4 DEF Waiting, Entered, Unserved, Arrived, CountingOrders
<1>5. CASE MainReads \/ MainWaitsOrders \/ DeliveriesRead \/ wait_for_all_deliveries
  <2>1. UNCHANGED <<handler, countVars>>
        /\ pc[Main] \in {"orders", "orders_read", "deliveries", "deliveries_read"}
        /\ pc'[Main] \in {"orders_read", "orders_wait", "deliveries", "deliveries_read", "deliveries_wait",
                          "reset_total"}
    BY <1>0, <1>5, MainMoves DEF MainReads, MainWaitsOrders, DeliveriesRead, wait_for_all_deliveries, Moves
  <2>2. Live' = Live
    BY <1>1, <2>1 DEF Live, countVars
  <2> QED
    BY <1>1, <1>2, <1>4, <1>9, <2>1, <2>2 DEF Counted, Resetting, ActiveCounted, countVars
<1>6. CASE ResetTotal
  <2>1. /\ Unserved = {} /\ total_orders' = 0 /\ UNCHANGED <<completed_orders, active_orders, handler>>
        /\ pc'[Main] = "reset_completed"
    BY <1>0, <1>6, MainMoves DEF ResetTotal, Moves
  <2>2. Live = {} /\ Live' = {}
    BY <1>0, <2>1, NothingLeft DEF Live
  <2> QED
    BY <1>1, <1>2, <1>4, <1>9, <2>1, <2>2 DEF Counted, ActiveCounted
<1>7. CASE ResetCompleted
  <2>1. /\ pc[Main] = "reset_completed" /\ pc'[Main] = "reset_active"
        /\ completed_orders' = 0 /\ UNCHANGED <<total_orders, active_orders, handler>>
    BY <1>0, <1>7, MainMoves DEF ResetCompleted, Moves
  <2>2. total_orders = 0 /\ Unserved = {}
    BY <2>1 DEF Counted, Resetting
  <2>3. Waiting = {} /\ Cardinality(Waiting) = 0 /\ Live' = Live
    BY <1>0, <1>1, <2>1, <2>2, NothingLeft, FS_EmptySet DEF Live
  <2> QED
    BY <1>1, <1>2, <1>4, <1>9, <2>1, <2>2, <2>3 DEF Counted, ActiveCounted
<1>8. CASE ResetActive
  <2>1. /\ pc[Main] = "reset_active" /\ pc'[Main] = "accept"
        /\ active_orders' = 0 /\ UNCHANGED <<total_orders, completed_orders, handler>>
    BY <1>0, <1>8, MainMoves DEF ResetActive, Moves
  <2>2. total_orders = 0 /\ Unserved = {}
    BY <2>1 DEF Counted, Resetting
  <2>3. Live = {} /\ Live' = Live /\ \A d \in Couriers : Len(bag[d]) = 0
    BY <1>0, <1>1, <2>1, <2>2, NothingLeft DEF Live
  <2>4. CountingOrders = {}
    BY <2>2 DEF Counted, CountingOrders, Unserved, Arrived
  <2>5. CountingCouriers = {}
    <3>1. \A d \in Couriers : bag[d] = <<>>
      BY <1>0, <2>3, EmptySeq DEF TypeOK
    <3> QED
      BY <3>1 DEF CountingCouriers, ShopInv, BagInv
  <2>6. ActiveCounted' /\ OneCounts'
    <3>1. Live' = {} /\ CountingOrders' = {} /\ CountingCouriers' = {} /\ active_orders' = 0
      BY <1>1, <1>2, <1>4, <2>1, <2>3, <2>4, <2>5
    <3> QED
      BY <3>1, FS_EmptySet DEF ActiveCounted, OneCounts
  <2> QED
    BY <1>1, <1>4, <2>1, <2>6 DEF Counted, Resetting
<1> QED
  BY <1>3, <1>5, <1>6, <1>7, <1>8 DEF MainStep

LEMMA OtherStepCounted ==
  ASSUME ShopInv, Counted,
         UNCHANGED vars \/ ClientSends \/ CompletionStep \/ \E t \in Threads : SpuriousWake(t)
  PROVE  Counted'
<1>1. /\ UNCHANGED <<slots, total_orders, completed_orders, active_orders, handler, served, raced>>
      /\ \A x \in Couriers \cup Orders : read'[x] = read[x]
  BY TypeParts, ShopAssumption DEF vars, ClientSends, CompletionStep, CompletionAccepts, CompletionReads,
     CompletionWaits, SpuriousWake, Reads, Forgets, countVars, histVars, ShopInv, CountersOK
<1>2. Rests(Main) /\ \A d \in Couriers : Rests(d)
  BY OthersMove, TypeParts, ShopAssumption DEF OnlyWakes, ShopInv
<1>3. Live' = Live
  BY <1>1 DEF Live
<1> QED
  BY <1>1, <1>2, <1>3, CouriersRest, CountKeeps

CountInv == ~torn => Counted

LEMMA CountInit == Init => CountInv
<1> SUFFICES ASSUME Init PROVE Counted
  BY DEF CountInv
<1>1. Live = {} /\ Waiting = {} /\ CountingOrders = {} /\ CountingCouriers = {} /\ pc[Main] = "accept"
  BY ShopAssumption DEF Init, Live, Waiting, Entered, CountingOrders, CountingCouriers
<1>2. total_orders = 0 /\ completed_orders = 0 /\ active_orders = 0
  BY DEF Init
<1> QED
  BY <1>1, <1>2, FS_EmptySet DEF Counted, Resetting, OneCounts, ActiveCounted

LEMMA CountStep == ShopInv /\ ShopInv' /\ CustodyInv /\ CountInv /\ [Next]_vars => CountInv'
<1> SUFFICES ASSUME ShopInv, ShopInv', CustodyInv, CountInv, [Next]_vars, ~torn' PROVE Counted'
  BY DEF CountInv
<1>1. Custody /\ Kitchen /\ Behind /\ Counted
  BY TornStays DEF CustodyInv, CountInv
<1>2. ASSUME NEW o \in Orders, HandlerStep(o) PROVE Counted'
  BY <1>1, <1>2, EnterOrderCounted, CountTotalCounted, CountOrderCounted DEF HandlerStep
<1> QED
  BY <1>1, <1>2, OtherStepCounted, MainStepCounted, CookStepCounted, CourierStepCounted DEF Next

LEMMA CountAlways == Spec => [](ShopInv /\ CustodyInv /\ CountInv)
<1> QED
  BY CustodyAlways, CountInit, CountStep, PTL DEF Spec

(* CountersRight: as long as no reset has hit orders under way,            *)
(* total_orders and completed_orders, written under two mutexes, differ by *)
(* the orders not yet delivered; and until two changes of active_orders    *)
(* overlap, it agrees with the array, the bags and the threads in the      *)
(* middle of counting.                                                     *)
THEOREM CountersRight == Spec => []CountersAgree
<1>1. CountInv => CountersAgree
  BY DEF CountInv, Counted, ActiveCounted, CountersAgree, Live, Waiting, CountingOrders, CountingCouriers
<1> QED
  BY <1>1, CountAlways, PTL
-----------------------------------------------------------------------------
(* What main has read of completed_orders is never more than what it is:   *)
(* couriers only increment it, and only main resets it.                    *)
ReadInv == pc[Main] = "deliveries_read" => read[Main] <= completed_orders

LEMMA ReadStep == ShopInv /\ ReadInv /\ [Next]_vars => ReadInv'
<1> SUFFICES ASSUME ShopInv, ReadInv, [Next]_vars PROVE ReadInv'
  OBVIOUS
<1>0. PcOK /\ CountersOK
  BY TypeParts DEF ShopInv
<1>1. ASSUME Rests(Main), read'[Main] = read[Main], completed_orders' \in {completed_orders, completed_orders + 1}
      PROVE  ReadInv'
  BY <1>0, <1>1, ShopAssumption DEF ReadInv, Rests, Wakes, CountersOK
<1>2. CASE MainStep
  <2>1. CASE DeliveriesRead
    BY <1>0, <2>1, ShopAssumption DEF DeliveriesRead, Reads, Go, PcOK, CountersOK, ReadInv, countVars
  <2>2. CASE ~DeliveriesRead
    <3>1. pc'[Main] # "deliveries_read"
      BY <1>0, <1>2, <2>2, MainMoves DEF MainStep, Moves
    <3> QED
      BY <3>1 DEF ReadInv
  <2> QED
    BY <2>1, <2>2
<1>3. CASE UNCHANGED vars \/ ClientSends \/ CompletionStep \/ \E t \in Threads : SpuriousWake(t)
  <2>1. Rests(Main)
    BY <1>0, <1>3, OthersMove, ShopAssumption DEF OnlyWakes
  <2>2. read'[Main] = read[Main] /\ UNCHANGED completed_orders
    BY <1>0, <1>3, ShopAssumption DEF vars, ClientSends, CompletionStep, CompletionAccepts, CompletionReads,
       CompletionWaits, SpuriousWake, Reads, Forgets, countVars, CountersOK
  <2> QED
    BY <1>1, <2>1, <2>2
<1>4. ASSUME NEW o \in Orders, HandlerStep(o) PROVE ReadInv'
  <2>1. Rests(Main)
    BY <1>0, <1>4, OthersMove, ShopAssumption DEF OnlyWakes
  <2>2. read'[Main] = read[Main] /\ UNCHANGED completed_orders
    BY <1>0, <1>4, ShopAssumption DEF HandlerStep, RefuseOrder, EnterOrder, CountTotal, CountOrder,
       HandlerUnchanged, Reads, Forgets, CountersOK
  <2> QED
    BY <1>1, <2>1, <2>2
<1>5. ASSUME NEW c \in Cooks, CookStep(c) PROVE ReadInv'
  <2>1. Rests(Main)
    BY <1>0, <1>5, CookMoves, ShopAssumption DEF CookStep, Moves
  <2>2. UNCHANGED <<read, completed_orders>>
    BY <1>5 DEF CookStep, CookIdles, CookTakes, OvenWaits, OvenStarts, OvenEnds, CookAnnounces,
       CookUnchanged, countVars
  <2> QED
    BY <1>1, <2>1, <2>2
<1>6. ASSUME NEW d \in Couriers, CourierStep(d) PROVE ReadInv'
  <2>1. Rests(Main)
    BY <1>0, <1>6, CourierMoves, ShopAssumption DEF CourierStep, Moves
  <2>2. read'[Main] = read[Main] /\ completed_orders' \in {completed_orders, completed_orders + 1}
    BY <1>0, <1>6, ShopAssumption DEF CourierStep, CourierTakes, CourierCounts, CourierSleeps,
       CourierLeaves, increment_pending_deliveries, CourierDelivers, CourierTells,
       decrement_pending_deliveries, CourierUnchanged, NoCount, Reads, Forgets, CountersOK
  <2> QED
    BY <1>1, <2>1, <2>2
<1> QED
  BY <1>2, <1>3, <1>4, <1>5, <1>6 DEF Next

LEMMA ReadAlways == Spec => [](ShopInv /\ CustodyInv /\ CountInv /\ ReadInv)
<1>1. Init => ReadInv
  BY ShopAssumption DEF Init, ReadInv
<1> QED
  BY <1>1, CountAlways, ReadStep, PTL DEF Spec

(* Main decides to reset only when it has read no less than there are      *)
(* orders, and there are at least as many completed.                       *)
LEMMA DecidesWhenEqual ==
  ASSUME ShopInv, ReadInv, [Next]_vars, Decides
  PROVE  completed_orders >= total_orders
<1>0. PcOK /\ CountersOK /\ total_orders \in Nat
  BY TypeParts, LiveSlots DEF ShopInv
<1>1. ~Rests(Main)
  BY DEF Decides, Rests, Wakes
<1>2. ASSUME NEW t \in Threads \ {Main}, NEW label, Moves(t, label) PROVE FALSE
  BY <1>1, <1>2, ShopAssumption DEF Moves
<1>3. MainStep
  BY <1>0, <1>1, <1>2, OthersMove, CookMoves, CourierMoves, ShopAssumption
     DEF Next, CookStep, CourierStep, OnlyWakes
<1>4. wait_for_all_deliveries
  BY <1>3 DEF MainStep, Decides, MainAccepts, MainReads, MainWaitsOrders, DeliveriesRead, ResetTotal,
     ResetCompleted, ResetActive
<1>5. ~(read[Main] < total_orders)
  BY <1>0, <1>4, MainMoves DEF Moves, Decides
<1> QED
  BY <1>0, <1>5 DEF ReadInv, Decides, CountersOK

(* ResetWhenServed: main decides to reset the counters only when every     *)
(* order entered so far has been delivered once, although it reads the two *)
(* counters one after the other without their mutex.                       *)
THEOREM ResetWhenServed == Spec => ResetAfterService
<1>1. ASSUME ShopInv, CustodyInv, CountInv, ReadInv, [Next]_vars
      PROVE  Decides /\ ~torn => \A o \in Entered : served[o] = 1
  <2> SUFFICES ASSUME Decides, ~torn, NEW o \in Entered PROVE served[o] = 1
    OBVIOUS
  <2>1. Custody /\ total_orders - completed_orders = Cardinality(Waiting)
    BY <1>1 DEF CustodyInv, CountInv, Counted, Decides
  <2>2. IsFiniteSet(Waiting) /\ Cardinality(Waiting) \in Nat /\ completed_orders \in Nat /\ total_orders \in Nat
    BY <1>1, FiniteCounts, TypeParts, LiveSlots DEF ShopInv, CountersOK
  <2>3. Cardinality(Waiting) = 0
    BY <1>1, <2>1, <2>2, DecidesWhenEqual
  <2>4. Waiting = {}
    BY <2>2, <2>3, FS_EmptySet
  <2> QED
    BY <2>1, <2>4 DEF Custody, ServedOnce, Waiting, Entered
<1>2. ShopInv /\ CustodyInv /\ CountInv /\ ReadInv /\ [Next]_vars
        => [Decides /\ ~torn => \A o \in Entered : served[o] = 1]_vars
  BY <1>1
<1> QED
  BY <1>2, ReadAlways, PTL DEF Spec, ResetAfterService
=============================================================================
