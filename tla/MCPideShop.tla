----------------------------- MODULE MCPideShop -----------------------------
(***************************************************************************)
(* Small shops: two orders in one batch, or one after the other.           *)
(***************************************************************************)
EXTENDS PideShop, TLC

CONSTANTS o1, o2

OneBatch == {<<{o1, o2}>>}
OneOrTwoBatches == {<<{o1, o2}>>, <<{o1}, {o2}>>}

(* The behaviours of FairSpec that AllServed is about, but for those in     *)
(* which an order cannot be read or somebody wakes without a signal.       *)
Undisturbed ==
  /\ \/ ClientSends \/ CompletionStep \/ MainStep
     \/ \E o \in Orders : EnterOrder(o) \/ CountTotal(o) \/ CountOrder(o)
     \/ \E c \in Cooks : CookStep(c)
     \/ \E d \in Couriers : CourierStep(d)
  /\ ~Slipped' /\ ~raced'
UndisturbedSpec == Init /\ [][Undisturbed]_vars /\ Fairness

(* Cooks are alike, and couriers are.                                      *)
Staff == Permutations(Cooks) \cup Permutations(Couriers)
=============================================================================
