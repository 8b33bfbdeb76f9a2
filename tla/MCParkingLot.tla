---------------------------- MODULE MCParkingLot ----------------------------
(***************************************************************************)
(* A lot with one temporary and one permanent spot of each kind.           *)
(***************************************************************************)
EXTENDS ParkingLot

OneEach == [k \in Kinds |-> 1]
=============================================================================
