----------------------------- MODULE CopyBuffer -----------------------------
(***************************************************************************)
(* The bounded buffer of MWCp (hw5/src/200104004085_buffer.c; hw4 has the  *)
(* same code without the barrier): a ring of descriptor pairs under one    *)
(* mutex.  This module holds the buffer's fields and what the body of each *)
(* buffer function does to them while the mutex is held.  Who calls them,  *)
(* and who sleeps on not_full and not_empty, is in module MWCp.            *)
(***************************************************************************)
EXTENDS Integers, FiniteSets

CONSTANTS
  Size,     \* buffer_size, argv[1]
  Names,    \* names in the source tree; a regular file's name stands for its descriptor pair
  NoFile    \* the pair {-1, -1}, and an unused slot

ASSUME SizeAssumption == Size \in Nat \ {0}
ASSUME NoFileAssumption == NoFile \notin Names

VARIABLES
  fds,      \* the slots, fds[0..Size-1]
  count, in, out,
  bdone     \* buffer->done

bufferVars == <<fds, count, in, out, bdone>>

Slots == 0 .. Size - 1

(* Ring successor: (i + 1) % buffer->size.                                 *)
Next1(i) == (i + 1) % Size

BufferTypeOK ==
  /\ fds \in [Slots -> Names \cup {NoFile}]
  /\ count \in 0 .. Size
  /\ in \in Slots
  /\ out \in Slots
  /\ bdone \in BOOLEAN

buffer_init ==
  /\ fds = [i \in Slots |-> NoFile]
  /\ count = 0 /\ in = 0 /\ out = 0
  /\ bdone = FALSE

IsFull == count = Size
IsEmpty == count = 0

(* buffer_add past its waiting loop.                                       *)
Store(f) ==
  /\ fds' = [fds EXCEPT ![in] = f]
  /\ in' = Next1(in)
  /\ count' = count + 1
  /\ UNCHANGED <<out, bdone>>

(* Mutant: count is not decremented.                                       *)
TakeOutKeepsCount ==
  /\ out' = Next1(out)
  /\ UNCHANGED <<fds, count, in, bdone>>

(* buffer_remove past its waiting loop; the pair handed out is fds[out].   *)
(* The slot keeps its old content, as in the code.                         *)
TakeOut ==
  /\ out' = Next1(out)
  /\ count' = count - 1
  /\ UNCHANGED <<fds, in, bdone>>

(* buffer_set_done, apart from its broadcasts.                             *)
MarkDone ==
  /\ bdone' = TRUE
  /\ UNCHANGED <<fds, count, in, out>>

(* The slots that hold pairs: out, out+1, ..., out+count-1 around the ring *)
(* (the slots buffer_destroy walks over).                                  *)
Live(i) == IF out + count <= Size THEN out <= i /\ i < out + count
                                  ELSE out <= i \/ i < out + count - Size
Queued == {fds[i] : i \in {j \in Slots : Live(j)}}
=============================================================================
