----------------------------- MODULE FileQueue ------------------------------
(***************************************************************************)
(* What MWCp's buffer promises, without slots, mutex or threads: a bounded *)
(* first-in first-out queue through which each file passes at most once.   *)
(* A fresh file has not been offered, a queued one waits, a held one is    *)
(* being copied by some worker.                                            *)
(***************************************************************************)
EXTENDS Naturals, Sequences

CONSTANTS Files, Capacity

VARIABLES fresh, queue, held

queueVars == <<fresh, queue, held>>

Init == fresh = Files /\ queue = <<>> /\ held = {}

(* The manager puts a file at the end, if there is room.                   *)
Put(f) ==
  /\ f \in fresh
  /\ Len(queue) < Capacity
  /\ fresh' = fresh \ {f}
  /\ queue' = Append(queue, f)
  /\ UNCHANGED held

(* The manager gives a file up: it cannot be opened, or copying stops.     *)
GiveUp(f) ==
  /\ f \in fresh
  /\ fresh' = fresh \ {f}
  /\ UNCHANGED <<queue, held>>

(* A worker takes the oldest file.                                         *)
Take ==
  /\ queue # <<>>
  /\ Head(queue) \notin held
  /\ held' = held \cup {Head(queue)}
  /\ queue' = Tail(queue)
  /\ UNCHANGED fresh

(* A worker is through with a file.                                        *)
Finish(f) ==
  /\ f \in held
  /\ held' = held \ {f}
  /\ UNCHANGED <<fresh, queue>>

(* The queue is torn down when nobody holds a file.                        *)
Discard ==
  /\ held = {}
  /\ queue' = <<>>
  /\ UNCHANGED <<fresh, held>>

Next ==
  \/ \E f \in Files : Put(f) \/ GiveUp(f) \/ Finish(f)
  \/ Take
  \/ Discard

Spec == Init /\ [][Next]_queueVars
=============================================================================
