------------------------------ MODULE PideShop ------------------------------
(***************************************************************************)
(* The pide shop of final/server.c, with its client (final/client.c): a    *)
(* batch of orders arrives, one handler thread per order enters it in the  *)
(* orders array, cooks prepare and bake, couriers fill their bags and      *)
(* deliver, main waits for the batch and resets the counters, and the      *)
(* completion thread tells the client.                                     *)
(*                                                                         *)
(* A critical section that ends in an unlock or in pthread_cond_wait is    *)
(* one step, unless it reads or writes what others change without that     *)
(* mutex: then each such access is a step of its own, in the order in      *)
(* which the compiled code makes them.  Sleeping on a condition variable   *)
(* is a value of pc.                                                       *)
(***************************************************************************)
EXTENDS Integers, Sequences, FiniteSets

CONSTANTS
  Cooks, Couriers, Main, Completion, NoOne,
  Orders, NoOrder,
  Plans,            \* the sequences of batches of orders that clients may bring
  Apparatus,        \* APPARATUS
  OvenCapacity,     \* OVEN_CAPACITY
  BagCapacity       \* BAG_CAPACITY

Threads == Cooks \cup Couriers \cup {Main, Completion}
Slots == 1 .. Cardinality(Orders)

ASSUME ShopAssumption ==
  /\ IsFiniteSet(Orders) /\ NoOrder \notin Orders
  /\ Cooks \cap Couriers = {}
  /\ Main \notin Cooks \cup Couriers /\ Completion \notin Cooks \cup Couriers \cup {Main}
  /\ NoOne \notin Threads /\ Orders \cap Threads = {}
  /\ Plans \subseteq Seq(SUBSET Orders)
  /\ \A plan \in Plans : \A i, j \in 1 .. Len(plan) : i # j => plan[i] \cap plan[j] = {}
  /\ Apparatus \in Nat \ {0} /\ OvenCapacity \in Nat \ {0} /\ BagCapacity \in Nat \ {0}
  /\ IsFiniteSet(Cooks)

VARIABLES
  slots,            \* the array orders
  total_orders, completed_orders, active_orders,
  oven_occupancy, apparatus_available,
  pending_deliveries,
  delivery_mutex,   \* the courier holding it between two turns of its loop
  pc,
  job,              \* order_index of each cook
  bag,              \* what each courier carries
  read,             \* the counter a thread has read, about to compare it or to write it back
  handler,          \* each order's handle_client thread
  batches,          \* the batches of orders that clients have sent
  accepted,         \* how many of them main has accepted
  client,           \* the client of each batch: "sent", "asking", "told"
  served,           \* history: times each order was delivered
  torn,             \* history: a reset has hit orders under way
  raced             \* history: a ++ or -- of active_orders has begun during another one

countVars == <<total_orders, completed_orders, active_orders>>
ovenVars == <<oven_occupancy, apparatus_available>>
clientVars == <<batches, client>>
histVars == <<served, torn, raced>>
vars == <<slots, countVars, ovenVars, pending_deliveries, delivery_mutex, pc, job, bag, read,
          handler, accepted, clientVars, histVars>>

(* Order.state                                                             *)
Placed == 0
Prepared == 1
Cooked == 2
Delivering == 3
Completed == 4

CookPc == {"look", "idle", "oven", "oven_wait", "bake", "announce"}
CourierPc == {"pick", "pick_wait", "count", "load", "deliver", "tell", "unload"}
MainPc == {"accept", "orders", "orders_read", "orders_wait",
           "deliveries", "deliveries_read", "deliveries_wait",
           "reset_total", "reset_completed", "reset_active"}
CompletionPc == {"accept", "orders", "orders_read", "orders_wait"}
Handling == {"none", "start", "total", "count", "done", "refused"}

TypeOK ==
  /\ slots \in [Slots -> [order : Orders \cup {NoOrder}, state : Placed .. Completed]]
  /\ total_orders \in 0 .. Cardinality(Orders)
  /\ completed_orders \in Nat /\ active_orders \in Int
  /\ oven_occupancy \in Nat /\ apparatus_available \in Nat
  /\ pending_deliveries \in Nat
  /\ delivery_mutex \in Couriers \cup {NoOne}
  /\ pc \in [Threads -> CookPc \cup CourierPc \cup MainPc \cup CompletionPc]
  /\ \A c \in Cooks : pc[c] \in CookPc
  /\ \A d \in Couriers : pc[d] \in CourierPc
  /\ pc[Main] \in MainPc /\ pc[Completion] \in CompletionPc
  /\ job \in [Cooks -> Slots \cup {0}]
  /\ bag \in [Couriers -> Seq(Orders \cup {NoOrder})]
  /\ read \in [Couriers \cup Orders \cup {Main, Completion} -> Int]
  /\ handler \in [Orders -> Handling]
  /\ batches \in Seq(SUBSET Orders) /\ accepted \in 0 .. Len(batches)
  /\ client \in [DOMAIN batches -> {"sent", "asking", "told"}]
  /\ served \in [Orders -> Nat]
  /\ torn \in BOOLEAN /\ raced \in BOOLEAN

Init ==
  /\ slots = [i \in Slots |-> [order |-> NoOrder, state |-> Completed]]
  /\ total_orders = 0 /\ completed_orders = 0 /\ active_orders = 0
  /\ oven_occupancy = 0 /\ apparatus_available = Apparatus
  /\ pending_deliveries = 0
  /\ delivery_mutex = NoOne
  /\ pc = [t \in Threads |-> IF t \in Cooks THEN "look" ELSE IF t \in Couriers THEN "pick" ELSE "accept"]
  /\ job = [c \in Cooks |-> 0]
  /\ bag = [d \in Couriers |-> <<>>]
  /\ read = [x \in Couriers \cup Orders \cup {Main, Completion} |-> 0]
  /\ handler = [o \in Orders |-> "none"]
  /\ batches = <<>> /\ accepted = 0 /\ client = <<>>
  /\ served = [o \in Orders |-> 0] /\ torn = FALSE /\ raced = FALSE
-----------------------------------------------------------------------------
Go(t, label) == pc' = [pc EXCEPT ![t] = label]

(* A thread reads a counter that it will use in its next step, and forgets *)
(* it afterwards.                                                          *)
Reads(t, value) == read' = [read EXCEPT ![t] = value]
Forgets(t) == read' = [read EXCEPT ![t] = 0]

(* pthread_cond_wait on the three condition variables: where a sleeper     *)
(* continues when it is woken.                                             *)
Woken(label) ==
  CASE label = "idle" -> "look"
    [] label = "oven_wait" -> "oven"
    [] label = "pick_wait" -> "pick"
    [] label = "orders_wait" -> "orders"
    [] label = "deliveries_wait" -> "deliveries"
    [] OTHER -> label
OnOrderCond == {c \in Cooks : pc[c] \in {"idle", "oven_wait"}}
OnDeliveryCond == {t \in Couriers \cup {Main} : pc[t] \in {"pick_wait", "deliveries_wait"}}
OnCompletionCond == {t \in {Main, Completion} : pc[t] = "orders_wait"}

(* pthread_cond_signal, as the signalling thread's pc becomes p[t].        *)
Signal(sleepers, p) ==
  \/ sleepers = {} /\ pc' = p
  \/ \E s \in sleepers : pc' = [p EXCEPT ![s] = Woken(@)]
-----------------------------------------------------------------------------
(* A client sends a batch of orders, on connections that main accepts one  *)
(* after the other, and then asks for its completion.  It may come while   *)
(* another client's batch is served.                                       *)
ClientSends ==
  \E plan \in Plans :
    /\ Len(batches) < Len(plan) /\ batches = SubSeq(plan, 1, Len(batches))
    /\ batches' = Append(batches, plan[Len(batches) + 1])
    /\ client' = Append(client, "sent")
    /\ UNCHANGED <<slots, countVars, ovenVars, pending_deliveries, delivery_mutex, pc, job, bag,
                   read, handler, accepted, histVars>>

(* handle_completion_updates accepts, waits, and answers one client after  *)
(* the other, whichever batch main is serving.                             *)
CompletionAccepts ==
  /\ pc[Completion] = "accept"
  /\ \E i \in DOMAIN client : client[i] = "sent" /\ client' = [client EXCEPT ![i] = "asking"]
  /\ Go(Completion, "orders")
  /\ UNCHANGED <<slots, countVars, ovenVars, pending_deliveries, delivery_mutex, job, bag,
                 read, handler, batches, accepted, histVars>>

(* while (completed_orders < total_orders): the left operand is read, then *)
(* the right one, with completion_mutex held, which protects neither.      *)
CompletionMutexFree == pc[Main] # "orders_read" /\ pc[Completion] # "orders_read"

CompletionReads ==
  /\ pc[Completion] = "orders" /\ CompletionMutexFree
  /\ Reads(Completion, completed_orders)
  /\ Go(Completion, "orders_read")
  /\ UNCHANGED <<slots, countVars, ovenVars, pending_deliveries, delivery_mutex, job, bag,
                 handler, accepted, clientVars, histVars>>

CompletionWaits ==
  /\ pc[Completion] = "orders_read"
  /\ IF read[Completion] < total_orders
       THEN Go(Completion, "orders_wait") /\ UNCHANGED client
       ELSE /\ Go(Completion, "accept")
            /\ client' = [i \in DOMAIN client |->
                            IF client[i] = "asking" THEN "told" ELSE client[i]]
  /\ Forgets(Completion)
  /\ UNCHANGED <<slots, countVars, ovenVars, pending_deliveries, delivery_mutex, job, bag,
                 handler, batches, accepted, histVars>>
-----------------------------------------------------------------------------
(* Read-modify-writes of active_orders under way, one side under           *)
(* order_mutex, the other under delivery_mutex.                            *)
Counting == {o \in Orders : handler[o] = "count"} \cup {d \in Couriers : pc[d] = "count"}
BeginsCount == raced' = (raced \/ Counting # {})

(* A handler that enters and counts its order holds order_mutex.           *)
OrderMutexFree == \A o \in Orders : handler[o] \notin {"total", "count"}

HandlerUnchanged == UNCHANGED <<completed_orders, ovenVars, pending_deliveries, delivery_mutex,
                                job, bag, accepted, clientVars, served, torn>>

(* handle_client cannot read the order from its socket, and returns.       *)
RefuseOrder(o) ==
  /\ handler[o] = "start"
  /\ handler' = [handler EXCEPT ![o] = "refused"]
  /\ UNCHANGED <<slots, total_orders, active_orders, pc, read, raced>>
  /\ HandlerUnchanged

(* The order is entered in the next slot, and total_orders++ begins.       *)
EnterOrder(o) ==
  /\ handler[o] = "start" /\ OrderMutexFree
  /\ slots' = [slots EXCEPT ![total_orders + 1] = [order |-> o, state |-> Placed]]
  /\ Reads(o, total_orders)
  /\ handler' = [handler EXCEPT ![o] = "total"]
  /\ UNCHANGED <<total_orders, active_orders, pc, raced>>
  /\ HandlerUnchanged

(* total_orders++ ends, and active_orders++ begins.                        *)
CountTotal(o) ==
  /\ handler[o] = "total"
  /\ total_orders' = read[o] + 1
  /\ Reads(o, active_orders) /\ BeginsCount
  /\ handler' = [handler EXCEPT ![o] = "count"]
  /\ UNCHANGED <<slots, active_orders, pc>>
  /\ HandlerUnchanged

(* Mutant: no cook is told of the order.                                   *)
CountOrderSilently(o) ==
  /\ handler[o] = "count"
  /\ active_orders' = read[o] + 1
  /\ handler' = [handler EXCEPT ![o] = "done"]
  /\ Forgets(o)
  /\ UNCHANGED <<slots, total_orders, pc, raced>>
  /\ HandlerUnchanged

CountOrder(o) ==
  /\ handler[o] = "count"
  /\ active_orders' = read[o] + 1
  /\ handler' = [handler EXCEPT ![o] = "done"]
  /\ Forgets(o)
  /\ Signal(OnOrderCond, pc)
  /\ UNCHANGED <<slots, total_orders, raced>>
  /\ HandlerUnchanged
-----------------------------------------------------------------------------
(* cook_function.                                                          *)

InState(s) == {i \in 1 .. total_orders : slots[i].state = s}
First(S) == CHOOSE i \in S : \A j \in S : i <= j
SetState(i, s) == slots' = [slots EXCEPT ![i].state = s]
CookUnchanged == UNCHANGED <<countVars, pending_deliveries, delivery_mutex, bag, read, handler,
                             accepted, clientVars, histVars>>

(* while (active_orders == 0) wait.                                        *)
CookIdles(c) ==
  /\ pc[c] = "look" /\ OrderMutexFree
  /\ active_orders = 0
  /\ Go(c, "idle")
  /\ UNCHANGED <<slots, job, ovenVars>>
  /\ CookUnchanged

(* Mutant: the order's state is not advanced when a cook takes it.         *)
CookTakesUnmarked(c) ==
  /\ pc[c] = "look" /\ OrderMutexFree
  /\ active_orders # 0
  /\ InState(Placed) # {}
  /\ job' = [job EXCEPT ![c] = First(InState(Placed))]
  /\ Go(c, "oven")
  /\ UNCHANGED <<slots, ovenVars>>
  /\ CookUnchanged

(* The first placed order is taken; without one the cook looks again.      *)
CookTakes(c) ==
  /\ pc[c] = "look" /\ OrderMutexFree
  /\ active_orders # 0
  /\ InState(Placed) # {}
  /\ job' = [job EXCEPT ![c] = First(InState(Placed))]
  /\ SetState(job'[c], Prepared)
  /\ Go(c, "oven")
  /\ UNCHANGED ovenVars
  /\ CookUnchanged

OvenUnavailable == apparatus_available = 0 \/ oven_occupancy = OvenCapacity

OvenWaits(c) ==
  /\ pc[c] = "oven" /\ OrderMutexFree
  /\ OvenUnavailable
  /\ Go(c, "oven_wait")
  /\ UNCHANGED <<slots, job, ovenVars>>
  /\ CookUnchanged

(* Mutant: the wait is an if, not a while.                                 *)
OvenStartsUnchecked(c) ==
  /\ pc[c] = "oven" /\ OrderMutexFree
  /\ apparatus_available' = apparatus_available - 1
  /\ oven_occupancy' = oven_occupancy + 1
  /\ SetState(job[c], Cooked)
  /\ Go(c, "bake")
  /\ UNCHANGED job
  /\ CookUnchanged

OvenStarts(c) ==
  /\ pc[c] = "oven" /\ OrderMutexFree
  /\ ~OvenUnavailable
  /\ apparatus_available' = apparatus_available - 1
  /\ oven_occupancy' = oven_occupancy + 1
  /\ SetState(job[c], Cooked)
  /\ Go(c, "bake")
  /\ UNCHANGED job
  /\ CookUnchanged

(* Mutant: the apparatus is not given back.                                *)
OvenEndsKeeping(c) ==
  /\ pc[c] = "bake" /\ OrderMutexFree
  /\ oven_occupancy' = oven_occupancy - 1
  /\ SetState(job[c], Delivering)
  /\ Signal(OnOrderCond, [pc EXCEPT ![c] = "announce"])
  /\ UNCHANGED <<job, apparatus_available>>
  /\ CookUnchanged

OvenEnds(c) ==
  /\ pc[c] = "bake" /\ OrderMutexFree
  /\ oven_occupancy' = oven_occupancy - 1
  /\ apparatus_available' = apparatus_available + 1
  /\ SetState(job[c], Delivering)
  /\ Signal(OnOrderCond, [pc EXCEPT ![c] = "announce"])
  /\ UNCHANGED job
  /\ CookUnchanged

(* pthread_cond_signal(&delivery_cond), under delivery_mutex.              *)
CookAnnounces(c) ==
  /\ pc[c] = "announce"
  /\ delivery_mutex = NoOne
  /\ Signal(OnDeliveryCond, [pc EXCEPT ![c] = "look"])
  /\ job' = [job EXCEPT ![c] = 0]
  /\ UNCHANGED <<slots, ovenVars>>
  /\ CookUnchanged
-----------------------------------------------------------------------------
(* delivery_function.                                                      *)

HasDeliveryMutex(d) == delivery_mutex \in {NoOne, d}
BagOpen(d) == Len(bag[d]) < BagCapacity /\ active_orders > 0
CourierUnchanged == UNCHANGED <<completed_orders, total_orders, ovenVars, job, handler, accepted,
                                clientVars, torn>>
NoCount == UNCHANGED <<read, raced>>

(* Mutant: the order stays ready for other couriers.                       *)
CourierTakesUnmarked(d) ==
  /\ pc[d] = "pick" /\ HasDeliveryMutex(d)
  /\ BagOpen(d) /\ InState(Delivering) # {}
  /\ bag' = [bag EXCEPT ![d] = Append(@, slots[First(InState(Delivering))].order)]
  /\ Reads(d, active_orders) /\ BeginsCount
  /\ delivery_mutex' = d
  /\ Go(d, "count")
  /\ UNCHANGED <<slots, active_orders, pending_deliveries, served>>
  /\ CourierUnchanged

(* The first cooked order goes into the bag and active_orders-- begins.    *)
CourierTakes(d) ==
  /\ pc[d] = "pick" /\ HasDeliveryMutex(d)
  /\ BagOpen(d) /\ InState(Delivering) # {}
  /\ LET i == First(InState(Delivering))
     IN  /\ SetState(i, Completed)
         /\ bag' = [bag EXCEPT ![d] = Append(@, slots[i].order)]
  /\ Reads(d, active_orders) /\ BeginsCount
  /\ delivery_mutex' = d
  /\ Go(d, "count")
  /\ UNCHANGED <<active_orders, pending_deliveries, served>>
  /\ CourierUnchanged

(* Mutant: active_orders is decremented once per bag.                      *)
CourierCountsFirst(d) ==
  /\ pc[d] = "count"
  /\ active_orders' = IF Len(bag[d]) = 1 THEN read[d] - 1 ELSE active_orders
  /\ Forgets(d) /\ UNCHANGED raced
  /\ Go(d, "pick")
  /\ UNCHANGED <<slots, pending_deliveries, delivery_mutex, bag, served>>
  /\ CourierUnchanged

CourierCounts(d) ==
  /\ pc[d] = "count"
  /\ active_orders' = read[d] - 1
  /\ Forgets(d) /\ UNCHANGED raced
  /\ Go(d, "pick")
  /\ UNCHANGED <<slots, pending_deliveries, delivery_mutex, bag, served>>
  /\ CourierUnchanged

(* Room in the bag, orders under way, none ready: sleep, whatever is in    *)
(* the bag already.                                                        *)
CourierSleeps(d) ==
  /\ pc[d] = "pick" /\ HasDeliveryMutex(d)
  /\ BagOpen(d) /\ InState(Delivering) = {}
  /\ delivery_mutex' = NoOne
  /\ Go(d, "pick_wait")
  /\ UNCHANGED <<slots, active_orders, pending_deliveries, bag, served>>
  /\ NoCount /\ CourierUnchanged

(* The bag is full or nothing is under way: leave the loop.                *)
CourierLeaves(d) ==
  /\ pc[d] = "pick" /\ HasDeliveryMutex(d)
  /\ ~BagOpen(d)
  /\ delivery_mutex' = NoOne
  /\ Go(d, IF bag[d] = <<>> THEN "pick" ELSE "load")
  /\ UNCHANGED <<slots, active_orders, pending_deliveries, bag, served>>
  /\ NoCount /\ CourierUnchanged

(* pending_deliveries_mutex, which main holds while it compares.           *)
PendingMutexFree == pc[Main] # "deliveries_read"

increment_pending_deliveries(d) ==
  /\ pc[d] = "load" /\ PendingMutexFree
  /\ pending_deliveries' = pending_deliveries + 1
  /\ Go(d, "deliver")
  /\ UNCHANGED <<slots, active_orders, delivery_mutex, bag, served>>
  /\ NoCount /\ CourierUnchanged

(* One order of the bag is delivered, and counted under order_mutex.       *)
CourierDelivers(d) ==
  /\ pc[d] = "deliver" /\ OrderMutexFree
  /\ LET o == Head(bag[d])
     IN  served' = IF o \in Orders THEN [served EXCEPT ![o] = @ + 1] ELSE served
  /\ bag' = [bag EXCEPT ![d] = Tail(@)]
  /\ completed_orders' = completed_orders + 1
  /\ Go(d, IF Len(bag[d]) = 1 THEN "tell" ELSE "deliver")
  /\ UNCHANGED <<slots, total_orders, active_orders, pending_deliveries, delivery_mutex,
                 ovenVars, job, handler, accepted, clientVars, torn>>
  /\ NoCount

(* Mutant: nobody is told.                                                 *)
CourierTellsNobody(d) ==
  /\ pc[d] = "tell" /\ CompletionMutexFree
  /\ Go(d, "unload")
  /\ UNCHANGED <<slots, active_orders, pending_deliveries, delivery_mutex, bag, served>>
  /\ NoCount /\ CourierUnchanged

(* pthread_cond_signal(&completion_cond): main or the completion thread.   *)
CourierTells(d) ==
  /\ pc[d] = "tell" /\ CompletionMutexFree
  /\ Signal(OnCompletionCond, [pc EXCEPT ![d] = "unload"])
  /\ UNCHANGED <<slots, active_orders, pending_deliveries, delivery_mutex, bag, served>>
  /\ NoCount /\ CourierUnchanged

decrement_pending_deliveries(d) ==
  /\ pc[d] = "unload" /\ PendingMutexFree
  /\ pending_deliveries' = pending_deliveries - 1
  /\ Signal(OnDeliveryCond, [pc EXCEPT ![d] = "pick"])
  /\ UNCHANGED <<slots, active_orders, delivery_mutex, bag, served>>
  /\ NoCount /\ CourierUnchanged
-----------------------------------------------------------------------------
(* main's loop over batches.                                               *)
MainUnchanged == UNCHANGED <<slots, ovenVars, pending_deliveries, delivery_mutex, job, bag,
                             clientVars, served, raced>>

(* A batch is accepted: one handler thread per order is created.           *)
MainAccepts ==
  /\ pc[Main] = "accept"
  /\ accepted < Len(batches)
  /\ accepted' = accepted + 1
  /\ handler' = [o \in Orders |-> IF o \in batches[accepted + 1] THEN "start" ELSE handler[o]]
  /\ Go(Main, "orders")
  /\ UNCHANGED <<countVars, torn, read>>
  /\ MainUnchanged

(* while (completed_orders < total_orders) wait on completion_cond.        *)
MainReads ==
  /\ pc[Main] = "orders" /\ CompletionMutexFree
  /\ Reads(Main, completed_orders)
  /\ Go(Main, "orders_read")
  /\ UNCHANGED <<countVars, torn, accepted, handler>>
  /\ MainUnchanged

MainWaitsOrders ==
  /\ pc[Main] = "orders_read"
  /\ Go(Main, IF read[Main] < total_orders THEN "orders_wait" ELSE "deliveries")
  /\ Forgets(Main)
  /\ UNCHANGED <<countVars, torn, accepted, handler>>
  /\ MainUnchanged

(* wait_for_all_deliveries: while bags are on the road, or completed_orders *)
(* is less than total_orders, wait on delivery_cond.  Of the three         *)
(* variables, only the first is protected by the mutex that main holds.    *)
DeliveriesRead ==
  /\ pc[Main] = "deliveries"
  /\ \/ pending_deliveries > 0 /\ Go(Main, "deliveries_wait") /\ UNCHANGED read
     \/ /\ pending_deliveries <= 0
        /\ Reads(Main, completed_orders) /\ Go(Main, "deliveries_read")
  /\ UNCHANGED <<countVars, torn, accepted, handler>>
  /\ MainUnchanged

(* Mutant: only bags on the road are waited for.                           *)
wait_for_all_bags ==
  /\ pc[Main] = "deliveries_read"
  /\ Go(Main, "reset_total")
  /\ Forgets(Main)
  /\ UNCHANGED <<countVars, torn, accepted, handler>>
  /\ MainUnchanged

wait_for_all_deliveries ==
  /\ pc[Main] = "deliveries_read"
  /\ Go(Main, IF read[Main] < total_orders THEN "deliveries_wait" ELSE "reset_total")
  /\ Forgets(Main)
  /\ UNCHANGED <<countVars, torn, accepted, handler>>
  /\ MainUnchanged

(* "Reset counters for next batch of customers", without a mutex.          *)
Arrived == {o \in Orders : handler[o] \notin {"none", "refused"}}
Unserved == {o \in Arrived : served[o] = 0}

ResetTotal ==
  /\ pc[Main] = "reset_total"
  /\ total_orders' = 0
  /\ torn' = (torn \/ Unserved # {})
  /\ Go(Main, "reset_completed")
  /\ UNCHANGED <<completed_orders, active_orders, read, accepted, handler>>
  /\ MainUnchanged

ResetCompleted ==
  /\ pc[Main] = "reset_completed"
  /\ completed_orders' = 0
  /\ Go(Main, "reset_active")
  /\ UNCHANGED <<total_orders, active_orders, torn, read, accepted, handler>>
  /\ MainUnchanged

ResetActive ==
  /\ pc[Main] = "reset_active"
  /\ active_orders' = 0
  /\ Go(Main, "accept")
  /\ UNCHANGED <<total_orders, completed_orders, torn, read, accepted, handler>>
  /\ MainUnchanged
-----------------------------------------------------------------------------
(* A spurious return from pthread_cond_wait.                               *)
SpuriousWake(t) ==
  /\ pc[t] # Woken(pc[t])
  /\ Go(t, Woken(pc[t]))
  /\ UNCHANGED <<slots, countVars, ovenVars, pending_deliveries, delivery_mutex, job, bag, read,
                 handler, accepted, clientVars, histVars>>

HandlerStep(o) == RefuseOrder(o) \/ EnterOrder(o) \/ CountTotal(o) \/ CountOrder(o)
CookStep(c) == \/ CookIdles(c) \/ CookTakes(c) \/ OvenWaits(c)
               \/ OvenStarts(c) \/ OvenEnds(c) \/ CookAnnounces(c)
CourierStep(d) == \/ CourierTakes(d) \/ CourierCounts(d) \/ CourierSleeps(d) \/ CourierLeaves(d)
                  \/ increment_pending_deliveries(d) \/ CourierDelivers(d) \/ CourierTells(d)
                  \/ decrement_pending_deliveries(d)
MainStep == \/ MainAccepts \/ MainReads \/ MainWaitsOrders
            \/ DeliveriesRead \/ wait_for_all_deliveries
            \/ ResetTotal \/ ResetCompleted \/ ResetActive
CompletionStep == CompletionAccepts \/ CompletionReads \/ CompletionWaits

Next ==
  \/ ClientSends \/ CompletionStep \/ MainStep
  \/ \E o \in Orders : HandlerStep(o)
  \/ \E c \in Cooks : CookStep(c)
  \/ \E d \in Couriers : CourierStep(d)
  \/ \E t \in Threads : SpuriousWake(t)

Spec == Init /\ [][Next]_vars

(* Every thread that can run is scheduled, and one that keeps asking for a *)
(* mutex gets it.  Nothing is assumed of clients, which may never send     *)
(* what they could, nor of spurious wakeups.                               *)
Fairness ==
  /\ SF_vars(MainStep) /\ SF_vars(CompletionStep)
  /\ \A o \in Orders : SF_vars(HandlerStep(o))
  /\ \A c \in Cooks : SF_vars(CookStep(c))
  /\ \A d \in Couriers : SF_vars(CourierStep(d))
FairSpec == Spec /\ Fairness
-----------------------------------------------------------------------------
(***************************************************************************)
(* Properties                                                              *)
(***************************************************************************)

(* OvenAccounting.  However cooks and resets interleave, the apparatus in  *)
(* use and the oven's occupancy are those of the cooks that are baking.    *)
Baking == {c \in Cooks : pc[c] = "bake"}
OvenAccounting ==
  /\ apparatus_available = Apparatus - Cardinality(Baking)
  /\ oven_occupancy = Cardinality(Baking)
  /\ oven_occupancy <= OvenCapacity

(* OrderCustody.  As long as no reset has hit orders under way, an order   *)
(* that was entered is in the array, in one courier's bag, or delivered:   *)
(* never lost, doubled, or delivered again.                                *)
Places(o) ==
  {<<"slot", i>> : i \in {j \in 1 .. total_orders :
                            slots[j].order = o /\ slots[j].state # Completed}}
  \cup UNION {{<<d, k>> : k \in {j \in 1 .. Len(bag[d]) : bag[d][j] = o}} : d \in Couriers}
Entered == {o \in Orders : handler[o] \in {"count", "done"}}
OrderCustody ==
  ~torn => \A o \in Orders :
             Cardinality(Places(o)) + served[o] = IF o \in Entered THEN 1 ELSE 0

(* CooksApart.  Under the same condition, the orders being prepared or     *)
(* baked are exactly the cooks' jobs, one each.                            *)
Working == {c \in Cooks : pc[c] \in {"oven", "oven_wait", "bake"}}
CooksApart ==
  ~torn =>
    /\ InState(Prepared) \cup InState(Cooked) = {job[c] : c \in Working}
    /\ \A c, e \in Working : job[c] = job[e] => c = e
    /\ \A c \in Working : slots[job[c]].state = IF c \in Baking THEN Cooked ELSE Prepared

(* CountersAgree.  Under the same condition, total_orders is ahead of      *)
(* completed_orders by the orders not yet delivered, whichever mutex they  *)
(* are written under; and until two changes of active_orders overlap,      *)
(* which the code does not prevent, active_orders is the number of orders  *)
(* that couriers have yet to take.                                         *)
CountersAgree ==
  ~torn =>
    /\ pc[Main] # "reset_completed" =>
         total_orders - completed_orders = Cardinality({o \in Entered : served[o] = 0})
    /\ ~raced =>
         active_orders = Cardinality({i \in 1 .. total_orders : slots[i].state # Completed})
                         - Cardinality({o \in Orders : handler[o] = "count"})
                         + Cardinality({d \in Couriers : pc[d] = "count"})

(* Main goes on while orders it has accepted are not delivered.            *)
Slipped == pc[Main] \notin {"accept", "orders", "orders_read", "orders_wait"} /\ Unserved # {}

(* AllServed.  If main does not slip through its wait and no count of      *)
(* active_orders is lost, every order that was read from its client is     *)
(* delivered, although a courier sleeps with an order in its bag as long   *)
(* as there is room for another one: whoever takes the last order does not *)
(* sleep, and its signal sends the other courier off.  (With a third one,  *)
(* whose bag is empty, the signal may be lost.)                            *)
AllServed ==
  [](~Slipped /\ ~raced) =>
    \A o \in Orders : (o \in Arrived) ~> (served[o] > 0 \/ handler[o] = "refused")

(* NotBothAsleep.  Under the same condition, main and the completion       *)
(* thread are never both left asleep on completion_cond: of the signals    *)
(* that couriers send, one for each bag, the last finds completed_orders   *)
(* up to date and wakes one of them.  (One only: the other may sleep on.)  *)
NotBothAsleep ==
  [](~Slipped /\ ~raced) => []<>(OnCompletionCond # {Main, Completion})

(* ResetAfterService.  Main decides to reset the counters only when every  *)
(* order entered so far has been delivered, although it reads two counters *)
(* one after the other without their mutex, while couriers and handler     *)
(* threads change them.  (Orders that handler threads have yet to enter are torn: *)
(* main's wait cannot see them.)                                           *)
Decides == pc[Main] = "deliveries_read" /\ pc'[Main] = "reset_total"
ResetAfterService ==
  [][Decides /\ ~torn => \A o \in Entered : served[o] = 1]_vars
=============================================================================
