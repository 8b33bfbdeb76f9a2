------------------------- MODULE TwoChildren_proofs -------------------------
(***************************************************************************)
(* Proofs about TwoChildren for all arrays, PIDs and delays: that children *)
(* are counted once, and under which name a result arrives.                *)
(***************************************************************************)
EXTENDS TwoChildren, FoldTheorems, SequenceTheorems

Exited == {c \in Children : pc[c] = "exited"}

PcType == pc \in [Processes -> {"nap", "start", "open1", "open2", "add", "write", "read",
                                "command", "send1", "send2", "proceeding", "poll",
                                "goodbye", "exit", "exited"}]

(* Results of children, whatever they are.                                 *)
Results ==
  /\ result = [c \in Children |-> result[c]]
  /\ collected = [c \in Children |-> collected[c]]

(* Only children that have exited are waited for.                          *)
ReapInv ==
  /\ PcType /\ Results
  /\ zombies \subseteq Exited
  /\ sigchld \in BOOLEAN /\ handling \in BOOLEAN
  /\ child_count \in Nat
  /\ Reaped

LEMMA ExitedFinite == \A S \in SUBSET Children : IsFiniteSet(S) /\ Cardinality(S) \in 0 .. 2
<1>1. IsFiniteSet(Children) /\ Cardinality(Children) = 2
  <2>1. IsFiniteSet({"child1"}) /\ Cardinality({"child1"}) = 1
    BY FS_Singleton
  <2>2. Children = {"child1"} \cup {"child2"} /\ "child2" \notin {"child1"}
    BY DEF Children
  <2> QED
    BY <2>1, <2>2, FS_AddElement
<1> SUFFICES ASSUME NEW S \in SUBSET Children
             PROVE  IsFiniteSet(S) /\ Cardinality(S) \in 0 .. 2
  OBVIOUS
<1>2. IsFiniteSet(S) /\ Cardinality(S) <= Cardinality(Children)
  BY <1>1, FS_Subset
<1> QED
  BY <1>1, <1>2, FS_CardinalityType

(* Steps that end no child and do not run the handler.                     *)
Quiet ==
  /\ UNCHANGED <<zombies, child_count, collected, parity>>
  /\ PcType' /\ Results'
  /\ Exited' = Exited
  /\ \A c \in Exited : result'[c] = result[c]
  /\ \/ UNCHANGED <<sigchld, handling>>
     \/ sigchld' = FALSE /\ handling' = TRUE

Underway == {"nap", "start", "open1", "open2", "add", "write", "read", "command", "send1",
             "send2", "proceeding", "poll", "goodbye", "exit"}

LEMMA MoveQuiet ==
  ASSUME PcType, Results, NEW p \in Processes, pc[p] # "exited",
         NEW there \in Underway, pc' = pc \/ pc' = [pc EXCEPT ![p] = there],
         UNCHANGED <<parity, signalVars>>,
         result' = result \/ \E r : result' = [result EXCEPT ![p] = r]
  PROVE  Quiet
<1>1. PcType' /\ \A q \in Processes : pc'[q] = "exited" <=> pc[q] = "exited"
  BY DEF PcType, Underway
<1>2. Exited' = Exited
  BY <1>1 DEF Exited, Children, Processes
<1>3. Results' /\ \A c \in Exited : result'[c] = result[c]
  BY DEF Results, Exited, signalVars
<1> QED
  BY <1>1, <1>2, <1>3 DEF Quiet, signalVars

LEMMA OpeningQuiet ==
  ASSUME NEW p \in Processes, NEW here, NEW there \in Underway,
         NEW others, PcType, Results, here # "exited", Opening(p, here, there, others),
         UNCHANGED parity
  PROVE  Quiet
BY MoveQuiet DEF Opening, At, Go, childVars

LEMMA StepQuiet ==
  ASSUME PcType, Results, Step
  PROVE  \/ Quiet
         \/ \E c \in Children : ChildExits(c) /\ UNCHANGED parity
         \/ signal_handler /\ UNCHANGED parity
<1>p. /\ "child1" \in Processes /\ "child2" \in Processes /\ "parent" \in Processes
      /\ "child1" \in Children /\ "child2" \in Children
  BY DEF Processes, Children
<1>w. Underway = {"nap", "start", "open1", "open2", "add", "write", "read", "command", "send1",
                  "send2", "proceeding", "poll", "goodbye", "exit"}
  BY DEF Underway
<1>u. UNCHANGED parity
  BY DEF Step, Run
<1>1. CASE Run(Child1Step)
  <2>1. CASE Child1Wakes \/ Child1Opens \/ Child1OpensSecond
    BY <1>p, <1>w, <1>u, <2>1, OpeningQuiet DEF Child1Wakes, Child1Opens, Child1OpensSecond
  <2>2. CASE Child1Adds
    <3>1. pc["child1"] = "add" /\ UNCHANGED signalVars /\ (pc' = pc \/ pc' = [pc EXCEPT !["child1"] = "open2"])
      BY <2>2 DEF Child1Adds, At, Go
    <3>2. result' = result \/ \E r : result' = [result EXCEPT !["child1"] = r]
      BY <2>2 DEF Child1Adds
    <3>3. pc["child1"] # "exited" /\ "open2" \in Underway /\ UNCHANGED <<parity, signalVars>>
      BY <1>w, <1>u, <3>1
    <3> QED
      BY ONLY <1>p, <3>1, <3>2, <3>3, PcType, Results, MoveQuiet
  <2>3. CASE Child1Writes
    BY <1>p, <1>w, <1>u, <2>3, MoveQuiet DEF Child1Writes, At, Go, childVars
  <2>4. CASE ChildExits("child1")
    BY <1>p, <1>u, <2>4
  <2> QED
    BY <1>1, <2>1, <2>2, <2>3, <2>4 DEF Run, Child1Step
<1>2. CASE Run(Child2Step)
  <2>1. CASE Child2Starts
    BY <1>p, <1>w, <1>u, <2>1, OpeningQuiet DEF Child2Starts
  <2>2. CASE Child2Opens \/ Child2Reads
    BY <1>p, <1>w, <1>u, <2>2, MoveQuiet DEF Child2Opens, Child2Reads, At, Go, Sleep, childVars
  <2>3. CASE Child2Commanded
    <3>1. pc["child2"] = "command" /\ UNCHANGED signalVars /\ (pc' = pc \/ pc' = [pc EXCEPT !["child2"] = "exit"])
      BY <2>3 DEF Child2Commanded, At, Go
    <3>2. result' = result \/ \E r : result' = [result EXCEPT !["child2"] = r]
      BY <2>3 DEF Child2Commanded
    <3>3. pc["child2"] # "exited" /\ "exit" \in Underway /\ UNCHANGED <<parity, signalVars>>
      BY <1>w, <1>u, <3>1
    <3> QED
      BY ONLY <1>p, <3>1, <3>2, <3>3, PcType, Results, MoveQuiet
  <2>4. CASE ChildExits("child2")
    BY <1>p, <1>u, <2>4
  <2> QED
    BY <1>2, <2>1, <2>2, <2>3, <2>4 DEF Run, Child2Step
<1>3. CASE Run(ParentStep)
  <2>1. CASE ParentStarts \/ ParentOpens \/ ParentOpensSecond
    BY <1>p, <1>w, <1>u, <2>1, OpeningQuiet DEF ParentStarts, ParentOpens, ParentOpensSecond
  <2>2. CASE ParentSends \/ ParentNaps \/ ParentSendsSecond
    BY <1>p, <1>w, <1>u, <2>2, MoveQuiet
       DEF ParentSends, ParentNaps, ParentSendsSecond, At, Go, Sleep, childVars
  <2>3. CASE proceeding
    BY <1>p, <1>w, <1>u, <2>3, MoveQuiet DEF proceeding, At, Go, Sleep, childVars
  <2>4. CASE Deliver
    <3>1. UNCHANGED <<pc, result, zombies, child_count, collected>> /\ sigchld' = FALSE /\ handling' = TRUE
      BY <2>4 DEF Deliver, childVars
    <3> QED
      BY <1>u, <3>1 DEF Quiet, PcType, Results, Exited
  <2>5. CASE signal_handler
    BY <1>u, <2>5
  <2> QED
    BY <1>3, <2>1, <2>2, <2>3, <2>4, <2>5 DEF Run, ParentStep
<1> QED
  BY <1>1, <1>2, <1>3 DEF Step

LEMMA TickQuiet == ASSUME PcType, Results, Tick PROVE Quiet
<1>1. UNCHANGED <<parity, pc, childVars, signalVars>>
  BY DEF Tick
<1> QED
  BY <1>1 DEF Quiet, PcType, Results, Exited, childVars, signalVars

-----------------------------------------------------------------------------
(* What a child's exit and a round of the handler do to the count.         *)

LEMMA ExitReaps ==
  ASSUME ReapInv, NEW c \in Children, ChildExits(c), UNCHANGED parity
  PROVE  /\ ReapInv' /\ Exited' = Exited \cup {c} /\ zombies' = zombies \cup {c}
         /\ UNCHANGED <<result, collected>>
<1>0. c \in Processes
  BY DEF Processes
<1>1. /\ pc[c] = "exit" /\ pc' = [pc EXCEPT ![c] = "exited"]
      /\ zombies' = zombies \cup {c} /\ sigchld' = TRUE
      /\ UNCHANGED <<handling, child_count, collected, result>>
  BY DEF ChildExits, Exit, At, Go, childVars
<1>2. PcType' /\ Results'
  BY <1>0, <1>1 DEF ReapInv, PcType, Results
<1>3. Exited' = Exited \cup {c} /\ c \notin Exited
  BY <1>0, <1>1 DEF ReapInv, PcType, Exited, Children, Processes
<1>4. zombies \in SUBSET Children /\ Exited \in SUBSET Children /\ c \notin zombies
  BY <1>3 DEF ReapInv, Exited
<1>5. Cardinality(zombies') = Cardinality(zombies) + 1 /\ Cardinality(Exited') = Cardinality(Exited) + 1
  BY <1>1, <1>3, <1>4, ExitedFinite, FS_AddElement
<1>6. Cardinality(zombies) \in Nat /\ Cardinality(Exited) \in Nat
  BY <1>4, ExitedFinite
<1>7. child_count' + Cardinality(zombies') = Cardinality(Exited')
  BY <1>1, <1>5, <1>6 DEF ReapInv, Reaped, Exited
<1> QED
  BY <1>1, <1>2, <1>3, <1>7 DEF ReapInv, Reaped, Exited

LEMMA HandlerReaps ==
  ASSUME ReapInv, signal_handler, UNCHANGED parity
  PROVE  ReapInv' /\ Exited' = Exited /\ UNCHANGED <<pc, result>>
<1>1. UNCHANGED <<pc, result, sigchld>> /\ Exited' = Exited /\ PcType'
  BY DEF signal_handler, childVars, Exited, ReapInv, PcType
<1>2. CASE zombies = {}
  BY <1>1, <1>2 DEF signal_handler, ReapInv, Reaped, Results, Exited
<1>3. CASE zombies # {}
  <2>1. PICK c \in zombies :
          /\ zombies' = zombies \ {c} /\ child_count' = child_count + 1 /\ UNCHANGED handling
          /\ collected' = [collected EXCEPT
               ![IF parity[c] = 0 THEN "child1" ELSE "child2"] = result[c] % 256]
    BY <1>3 DEF signal_handler
  <2>2. Results'
    BY <1>1, <2>1 DEF ReapInv, Results
  <2>3. zombies \in SUBSET Children
    BY DEF ReapInv, Exited
  <2>4. Cardinality(zombies') = Cardinality(zombies) - 1 /\ Cardinality(zombies) \in Nat
    BY <2>1, <2>3, ExitedFinite, FS_RemoveElement
  <2>5. child_count' + Cardinality(zombies') = Cardinality(Exited')
    BY <1>1, <2>1, <2>4 DEF ReapInv, Reaped, Exited
  <2>6. handling' /\ child_count' \in Nat /\ zombies' \subseteq Exited'
    BY <1>1, <2>1 DEF ReapInv, signal_handler
  <2> QED
    BY <1>1, <2>1, <2>2, <2>5, <2>6 DEF ReapInv, Reaped, Exited
<1> QED
  BY <1>2, <1>3

LEMMA QuietReaps == ASSUME ReapInv, Quiet PROVE ReapInv'
<1>1. child_count' + Cardinality(zombies') = Cardinality(Exited')
  BY DEF ReapInv, Reaped, Quiet, Exited
<1>2. zombies' # {} => sigchld' \/ handling'
  BY DEF ReapInv, Reaped, Quiet
<1> QED
  BY <1>1, <1>2 DEF ReapInv, Reaped, Quiet, Exited

LEMMA ReapInit == Init => ReapInv
<1> SUFFICES ASSUME Init PROVE ReapInv
  OBVIOUS
<1>1. PcType /\ Results
  BY DEF Init, PcType, Results, Processes, Children
<1>2. Exited = {}
  BY DEF Init, Exited, Children, Processes
<1>3. child_count + Cardinality(zombies) = Cardinality(Exited)
  BY <1>2, FS_EmptySet DEF Init
<1> QED
  BY <1>1, <1>2, <1>3 DEF Init, ReapInv, Reaped, Exited

LEMMA ReapStep == ReapInv /\ [Next]_vars => ReapInv'
<1> SUFFICES ASSUME ReapInv, [Next]_vars PROVE ReapInv'
  OBVIOUS
<1>0. PcType /\ Results
  BY DEF ReapInv
<1>1. CASE UNCHANGED vars
  <2>1. Quiet
    BY <1>0, <1>1 DEF vars, childVars, signalVars, Quiet, PcType, Results, Exited
  <2> QED
    BY <2>1, QuietReaps
<1>2. CASE Tick
  BY <1>0, <1>2, TickQuiet, QuietReaps
<1>3. CASE Step
  BY <1>0, <1>3, StepQuiet, QuietReaps, ExitReaps, HandlerReaps
<1> QED
  BY <1>1, <1>2, <1>3 DEF Next

(* Each child that has exited is counted once, or the handler is about to  *)
(* see it, although one SIGCHLD may stand for two.                         *)
THEOREM AllReaped == Spec => []Reaped
<1>1. ReapInv => Reaped
  BY DEF ReapInv
<1> QED
  BY <1>1, ReapInit, ReapStep, PTL DEF Spec

-----------------------------------------------------------------------------
ParityType == parity \in [Children -> {0, 1}]

ResultInv == ReapInv /\ ParityType /\ ResultsByParity

(* An exited child keeps its result, and the other child's status goes     *)
(* under the other name.                                                   *)
LEMMA ResultStep == ResultInv /\ [Next]_vars => ResultInv'
<1> SUFFICES ASSUME ResultInv, [Next]_vars PROVE ResultInv'
  OBVIOUS
<1>0. ReapInv /\ PcType /\ Results /\ ParityType /\ ResultsByParity /\ ReapInv'
  BY ReapStep DEF ResultInv, ReapInv
<1>q. ASSUME Quiet PROVE ResultInv'
  BY <1>0, <1>q DEF Quiet, ResultInv, ResultsByParity, ParityType, Exited
<1>1. CASE UNCHANGED vars
  <2>1. Quiet
    BY <1>0, <1>1 DEF vars, childVars, signalVars, Quiet, PcType, Results, Exited
  <2> QED
    BY <2>1, <1>q
<1>2. CASE Tick
  BY <1>0, <1>2, <1>q, TickQuiet
<1>3. ASSUME NEW c \in Children, ChildExits(c), UNCHANGED parity
      PROVE  ResultInv'
  <2>1. Exited' = Exited \cup {c} /\ zombies' = zombies \cup {c} /\ UNCHANGED <<result, collected>>
    BY <1>0, <1>3, ExitReaps
  <2> QED
    BY <1>0, <1>3, <2>1 DEF ResultInv, ResultsByParity, ParityType, Exited
<1>4. ASSUME signal_handler, UNCHANGED parity
      PROVE  ResultInv'
  <2>1. UNCHANGED <<pc, result>>
    BY <1>0, <1>4, HandlerReaps
  <2>2. CASE zombies = {}
    BY <1>0, <1>4, <2>1, <2>2 DEF signal_handler, ResultInv, ResultsByParity, ParityType
  <2>3. CASE zombies # {}
    <3>1. PICK c \in zombies :
            /\ zombies' = zombies \ {c}
            /\ collected' = [collected EXCEPT
                 ![IF parity[c] = 0 THEN "child1" ELSE "child2"] = result[c] % 256]
      BY <1>4, <2>3 DEF signal_handler
    <3>2. c \in Children /\ DOMAIN collected = Children
      BY <1>0 DEF ReapInv, Exited, Results
    <3>3. ResultsByParity'
      BY <1>0, <1>4, <2>1, <3>1, <3>2 DEF ResultsByParity, ParityType, Children
    <3> QED
      BY <1>0, <1>4, <3>3 DEF ResultInv, ParityType
  <2> QED
    BY <2>2, <2>3
<1>5. CASE Step
  BY <1>0, <1>5, <1>q, <1>3, <1>4, StepQuiet
<1> QED
  BY <1>1, <1>2, <1>5 DEF Next

(* The parent has each result, the low byte of it, under the name that     *)
(* goes with the parity of the child's PID, unless the children's PIDs     *)
(* agree in parity.                                                        *)
THEOREM ResultsArrive == Spec => []ResultsByParity
<1>1. Init => ResultInv
  <2> SUFFICES ASSUME Init PROVE ResultInv
    OBVIOUS
  <2>1. ParityType
    BY TwoChildrenAssumption DEF Init, ParityType
  <2>2. \A c \in Children : pc[c] # "exited"
    BY DEF Init, Children, Processes
  <2> QED
    BY <2>1, <2>2, ReapInit DEF ResultInv, ResultsByParity
<1>2. ResultInv => ResultsByParity
  BY DEF ResultInv
<1> QED
  BY <1>1, <1>2, ResultStep, PTL DEF Spec

-----------------------------------------------------------------------------
TimeInv == timer \in [Processes -> 0 .. Nap] /\ delay \in 0 .. MaxDelay

LEMMA StepTimes ==
  ASSUME TimeInv, Step
  PROVE  \/ UNCHANGED timer
         \/ \E p \in Processes, seconds \in 0 .. Nap : timer' = [timer EXCEPT ![p] = seconds]
<1>p. /\ "child1" \in Processes /\ "child2" \in Processes /\ "parent" \in Processes
      /\ 0 \in 0 .. Nap /\ Nap \in 0 .. Nap /\ Poll \in 0 .. Nap
  BY DEF Processes, Children, Nap, Poll
<1>1. CASE Run(Child1Step)
  BY <1>1 DEF Run, Child1Step, Child1Wakes, Child1Opens, Child1Adds, Child1OpensSecond, Child1Writes,
     ChildExits, Exit, Opening, Go
<1>2. CASE Run(Child2Step)
  BY <1>p, <1>2 DEF Run, Child2Step, Child2Starts, Child2Opens, Child2Reads, Child2Commanded,
     ChildExits, Exit, Opening, Go, Sleep
<1>3. CASE Run(ParentStep)
  BY <1>p, <1>3 DEF Run, ParentStep, ParentStarts, ParentOpens, ParentOpensSecond, ParentSends,
     ParentNaps, ParentSendsSecond, proceeding, Deliver, signal_handler, Opening, Go, Sleep
<1> QED
  BY <1>1, <1>2, <1>3 DEF Step

LEMMA TimeStep == TimeInv /\ [Next]_vars => TimeInv'
<1> SUFFICES ASSUME TimeInv, [Next]_vars PROVE TimeInv'
  OBVIOUS
<1>1. CASE UNCHANGED vars
  BY <1>1 DEF TimeInv, vars
<1>2. CASE Step
  <2>1. delay' = delay
    BY <1>2 DEF Step, Run
  <2> QED
    BY <1>2, <2>1, StepTimes DEF TimeInv
<1>3. CASE Tick
  <2>1. delay' \in 0 .. MaxDelay
    BY <1>3, TwoChildrenAssumption DEF Tick, TimeInv
  <2>2. timer' = [p \in Processes |-> IF timer[p] > 0 THEN timer[p] - 1 ELSE 0]
    BY <1>3 DEF Tick
  <2>3. timer' \in [Processes -> 0 .. Nap]
    BY <2>2 DEF TimeInv, Nap
  <2> QED
    BY <2>1, <2>3 DEF TimeInv
<1> QED
  BY <1>1, <1>2, <1>3 DEF Next

(* The type invariant: the parent counts no more children than it has, and *)
(* no process sleeps longer than the longest sleep.                        *)
THEOREM TypeCorrect == Spec => []TypeOK
<1>1. Init => TimeInv
  BY TwoChildrenAssumption DEF Init, TimeInv, Nap
<1>2. ReapInv /\ TimeInv => TypeOK
  <2> SUFFICES ASSUME ReapInv, TimeInv PROVE TypeOK
    OBVIOUS
  <2>1. Cardinality(zombies) \in 0 .. 2 /\ Cardinality(Exited) \in 0 .. 2
    BY ExitedFinite DEF ReapInv, Exited
  <2>2. child_count \in Nat /\ child_count + Cardinality(zombies) = Cardinality(Exited)
    BY DEF ReapInv, Reaped, Exited
  <2>3. child_count \in 0 .. 2
    BY <2>1, <2>2
  <2> QED
    BY <2>3 DEF ReapInv, TimeInv, TypeOK, PcType, Exited
<1> QED
  BY <1>1, <1>2, ReapInit, ReapStep, TimeStep, PTL DEF Spec
-----------------------------------------------------------------------------
(* What reaches child 2.  Until the parent has closed the first FIFO, what *)
(* it has yet to send is child 1's.                                        *)
Early == {"start", "open1", "open2", "send1"}

Chunks == [what : {"number", "sum", "mult", "iply", "nul"}, value : Int]

DataType ==
  /\ numbers \in Seq(0 .. 9) /\ left \in Seq(0 .. 9)
  /\ fifo1 \in Seq(Chunks) /\ fifo2 \in Seq(Chunks) /\ got \in Seq(Chunks)
  /\ timer \in [Processes -> Nat] /\ delay \in Nat
  /\ result = [c \in Children |-> result[c]]

(* Where processes may be.                                                 *)
Order ==
  /\ pc["child1"] \in {"nap", "open1", "add", "open2", "write", "exit", "exited"}
  /\ pc["child2"] \in {"start", "open2", "read", "command", "exit", "exited"}
  /\ pc["parent"] \in Early \cup {"nap", "send2", "proceeding", "poll", "goodbye"}
  /\ pc["parent"] \notin {"start", "open1"} => pc["child1"] # "nap"
  /\ pc["parent"] \notin {"start", "open1", "open2"} => pc["child2"] # "start"
  /\ pc["child1"] \in {"open2", "write", "exit", "exited"} => pc["parent"] \notin Early
  /\ pc["child1"] # "nap" => timer["child1"] = 0

(* left and the first FIFO are the ends of the array.                      *)
LeftInv ==
  /\ Len(left) <= Len(numbers)
  /\ \A i \in 1 .. Len(left) : left[i] = numbers[Len(numbers) - Len(left) + i]
  /\ pc["parent"] = "nap" => left = numbers

Unsent == IF pc["parent"] \in Early THEN Len(left) ELSE 0
Added == Len(numbers) - Unsent - Len(fifo1)

AddInv ==
  /\ Added \in 0 .. Len(numbers)
  /\ \A i \in 1 .. Len(fifo1) : fifo1[i] = Number(numbers[Added + i])
  /\ pc["child1"] \in {"nap", "open1", "add"} =>
       result["child1"] = SumOf(SubSeq(numbers, 1, Added))
  /\ pc["child1"] \in {"open2", "write"} => result["child1"] = SumOf(numbers)

(* Child 1 has written.  Until it has, it could run all the time that the  *)
(* parent sleeps, so that every second of the sleep is a delay.            *)
Wrote == pc["child1"] \in {"exit", "exited"}

SumFirst ==
  delay < Nap /\ ~Wrote =>
    /\ got = <<>> /\ fifo2 = <<>> /\ ~sigchld
    /\ pc["child2"] \in {"start", "open2", "read"}
    /\ pc["parent"] \in Early \cup {"nap", "send2"}
    /\ pc["parent"] = "send2" => left = numbers /\ timer["parent"] + delay >= Nap

(* What is written to the second FIFO, in order, and how much of it is.    *)
Stream ==
  [i \in 1 .. Len(numbers) + 4 |->
     IF i = 1 THEN Sum(SumOf(numbers))
     ELSE IF i <= Len(numbers) + 1 THEN Number(numbers[i - 1])
     ELSE Multiply[i - Len(numbers) - 1]]

Written ==
  IF pc["parent"] \in {"nap", "send2"} THEN 1 + Len(numbers) - Len(left)
                                       ELSE Len(numbers) + 4

StreamInv ==
  delay < Nap /\ Wrote =>
    /\ Len(got) + Len(fifo2) = Written
    /\ \A i \in 1 .. Len(got) : got[i] = Stream[i]
    /\ \A i \in 1 .. Len(fifo2) : fifo2[i] = Stream[Len(got) + i]
    /\ pc["child2"] \in {"start", "open2"} => got = <<>>
    /\ pc["child2"] = "read" => Len(got) <= Len(numbers)
    /\ pc["child2"] = "command" => Len(got) > Len(numbers)
    /\ pc["child2"] \in {"exit", "exited"} =>
         got # <<>> /\ result["child2"] = ProductOf(numbers)

FinalInv == DataType /\ Order /\ LeftInv /\ AddInv /\ SumFirst /\ StreamInv
(* SumOf and BytesOf, by the steps of the fold.                            *)
LEMMA SumSteps ==
  ASSUME NEW s \in Seq(Int)
  PROVE  \E c \in [0 .. Len(s) -> Int] :
           c[0] = 0 /\ (\A k \in 1 .. Len(s) : c[k] = c[k - 1] + s[k]) /\ SumOf(s) = c[Len(s)]
<1> DEFINE n == Len(s)
           h == [p \in Int \X (1 .. n) |-> p[1] + s[p[2]]]
           Folded(g) == g = [t \in SUBSET (1 .. n) |->
                               IF t = {} THEN 0 ELSE g[t \ {Max(t)}] + s[Max(t)]]
           g == CHOOSE f : Folded(f)
<1>1. n \in Nat /\ 0 \in Int /\ DOMAIN s = 1 .. n /\ h \in [Int \X (1 .. n) -> Int]
  OBVIOUS
<1>2. \A a \in Int, k \in 1 .. n : h[<<a, k>>] = a + s[k]
  OBVIOUS
<1>3. \A t \in SUBSET (1 .. n) : t # {} => Max(t) \in 1 .. n /\ t \ {Max(t)} \in SUBSET (1 .. n)
  BY <1>1, MaxIsLast
<1>4. SumOf(s) = g[1 .. n]
  BY <1>1 DEF SumOf, FoldLeft, MapThenFoldSet
<1> HIDE DEF n, h
<1>5. \E f : Folded(f)
  <2>1. PICK f \in [SUBSET (1 .. n) -> Int] : LeftFolds(f, n, 0, h)
    BY <1>1, LeftFoldExists
  <2>2. \A t \in SUBSET (1 .. n) :
          f[t] = IF t = {} THEN 0 ELSE f[t \ {Max(t)}] + s[Max(t)]
    BY <1>2, <1>3, <2>1 DEF LeftFolds
  <2> QED BY <2>1, <2>2
<1>6. Folded(g)
  BY <1>5
<1> HIDE DEF g
<1>7. /\ g[{}] = 0
      /\ \A t \in SUBSET (1 .. n) : t # {} => g[t] = g[t \ {Max(t)}] + s[Max(t)]
  BY <1>6
<1>8. LeftFoldsIn(g, n, Int, 0, h)
  BY <1>2, <1>3, <1>7 DEF LeftFoldsIn
<1>9. LeftChain(g, n, Int, 0, h)
  BY <1>1, <1>8, LeftFoldChain
<1>10. \A k \in 1 .. n : g[1 .. k] = g[1 .. k - 1] + s[k]
  <2>1. \A k \in 1 .. n : k - 1 \in 0 .. n
    BY <1>1
  <2> QED BY <1>2, <1>9, <2>1 DEF LeftChain
<1> DEFINE c == [k \in 0 .. n |-> g[1 .. k]]
<1>11. c \in [0 .. n -> Int] /\ c[0] = 0 /\ c[n] = g[1 .. n]
  BY <1>1, <1>9 DEF LeftChain
<1>12. \A k \in 1 .. n : c[k] = c[k - 1] + s[k]
  BY <1>1, <1>10
<1> QED BY <1>4, <1>11, <1>12 DEF n

LEMMA ByteSteps ==
  ASSUME NEW S, NEW s \in Seq(S)
  PROVE  \E c \in [0 .. Len(s) -> Int] :
           c[0] = 0 /\ (\A k \in 1 .. Len(s) : c[k] = c[k - 1] + Bytes(s[k])) /\ BytesOf(s) = c[Len(s)]
<1> DEFINE n == Len(s)
           h == [p \in Int \X (1 .. n) |-> p[1] + Bytes(s[p[2]])]
           Folded(g) == g = [t \in SUBSET (1 .. n) |->
                               IF t = {} THEN 0 ELSE g[t \ {Max(t)}] + Bytes(s[Max(t)])]
           g == CHOOSE f : Folded(f)
<1>1. n \in Nat /\ 0 \in Int /\ DOMAIN s = 1 .. n /\ h \in [Int \X (1 .. n) -> Int]
  BY DEF Bytes
<1>2. \A a \in Int, k \in 1 .. n : h[<<a, k>>] = a + Bytes(s[k])
  OBVIOUS
<1>3. \A t \in SUBSET (1 .. n) : t # {} => Max(t) \in 1 .. n /\ t \ {Max(t)} \in SUBSET (1 .. n)
  BY <1>1, MaxIsLast
<1>4. BytesOf(s) = g[1 .. n]
  BY <1>1 DEF BytesOf, FoldLeft, MapThenFoldSet
<1> HIDE DEF n, h
<1>5. \E f : Folded(f)
  <2>1. PICK f \in [SUBSET (1 .. n) -> Int] : LeftFolds(f, n, 0, h)
    BY <1>1, LeftFoldExists
  <2>2. \A t \in SUBSET (1 .. n) :
          f[t] = IF t = {} THEN 0 ELSE f[t \ {Max(t)}] + Bytes(s[Max(t)])
    BY <1>2, <1>3, <2>1 DEF LeftFolds
  <2> QED BY <2>1, <2>2
<1>6. Folded(g)
  BY <1>5
<1> HIDE DEF g
<1>7. /\ g[{}] = 0
      /\ \A t \in SUBSET (1 .. n) : t # {} => g[t] = g[t \ {Max(t)}] + Bytes(s[Max(t)])
  BY <1>6
<1>8. LeftFoldsIn(g, n, Int, 0, h)
  BY <1>2, <1>3, <1>7 DEF LeftFoldsIn
<1>9. LeftChain(g, n, Int, 0, h)
  BY <1>1, <1>8, LeftFoldChain
<1>10. \A k \in 1 .. n : g[1 .. k] = g[1 .. k - 1] + Bytes(s[k])
  <2>1. \A k \in 1 .. n : k - 1 \in 0 .. n
    BY <1>1
  <2> QED BY <1>2, <1>9, <2>1 DEF LeftChain
<1> DEFINE c == [k \in 0 .. n |-> g[1 .. k]]
<1>11. c \in [0 .. n -> Int] /\ c[0] = 0 /\ c[n] = g[1 .. n]
  BY <1>1, <1>9 DEF LeftChain
<1>12. \A k \in 1 .. n : c[k] = c[k - 1] + Bytes(s[k])
  BY <1>1, <1>10
<1> QED BY <1>4, <1>11, <1>12 DEF n

LEMMA SumAppend ==
  ASSUME NEW s \in Seq(Int), NEW x \in Int
  PROVE  SumOf(Append(s, x)) = SumOf(s) + x /\ SumOf(s) \in Int
<1> DEFINE t == Append(s, x)
<1>1. t \in Seq(Int) /\ Len(t) = Len(s) + 1 /\ Len(s) \in Nat /\ t[Len(s) + 1] = x
  OBVIOUS
<1>2. \A k \in 1 .. Len(s) : t[k] = s[k]
  OBVIOUS
<1>3. PICK c \in [0 .. Len(s) -> Int] :
        c[0] = 0 /\ (\A k \in 1 .. Len(s) : c[k] = c[k - 1] + s[k]) /\ SumOf(s) = c[Len(s)]
  BY SumSteps
<1>4. PICK d \in [0 .. Len(t) -> Int] :
        d[0] = 0 /\ (\A k \in 1 .. Len(t) : d[k] = d[k - 1] + t[k]) /\ SumOf(t) = d[Len(t)]
  BY <1>1, SumSteps
<1> HIDE DEF t
<1> DEFINE S == {k \in 0 .. Len(s) : c[k] = d[k]}
<1>5. 0 \in S
  BY <1>1, <1>3, <1>4
<1>6. \A k \in 0 .. Len(s) - 1 : k \in S => k + 1 \in S
  <2> SUFFICES ASSUME NEW k \in 0 .. Len(s) - 1, k \in S PROVE k + 1 \in S
    OBVIOUS
  <2>1. k + 1 \in 1 .. Len(s) /\ k + 1 \in 1 .. Len(t) /\ (k + 1) - 1 = k /\ k + 1 \in 0 .. Len(s)
    BY <1>1
  <2>2. c[k + 1] = c[k] + s[k + 1] /\ d[k + 1] = d[k] + t[k + 1]
    BY <1>3, <1>4, <2>1
  <2> QED BY <1>2, <2>1, <2>2
<1>7. Len(s) \in S
  <2> HIDE DEF S
  <2>1. Len(s) \in 0 .. Len(s)
    BY <1>1
  <2> QED BY <1>1, <1>5, <1>6, <2>1, UpTo
<1>8. c[Len(s)] = d[Len(s)] /\ c[Len(s)] \in Int
  BY <1>7
<1>9. d[Len(s) + 1] = d[Len(s)] + t[Len(s) + 1]
  <2>1. Len(s) + 1 \in 1 .. Len(t) /\ (Len(s) + 1) - 1 = Len(s)
    BY <1>1
  <2> QED BY <1>4, <2>1
<1> QED BY <1>1, <1>3, <1>4, <1>8, <1>9 DEF t

LEMMA SumEmpty == SumOf(<<>>) = 0
<1>1. <<>> \in Seq(Int) /\ Len(<<>>) = 0
  OBVIOUS
<1> QED BY <1>1, SumSteps

(* What is less than all of the command is less than nine bytes.           *)
LEMMA ShortCommand ==
  ASSUME NEW s \in Seq(Chunks), Len(s) <= 2
  PROVE  BytesOf(s) < CommandSize
<1>1. PICK c \in [0 .. Len(s) -> Int] :
        /\ c[0] = 0 /\ (\A k \in 1 .. Len(s) : c[k] = c[k - 1] + Bytes(s[k]))
        /\ BytesOf(s) = c[Len(s)]
  BY ByteSteps
<1>2. \A x : Bytes(x) \in Int /\ Bytes(x) <= 4
  BY DEF Bytes
<1>3. Len(s) = 0 \/ Len(s) = 1 \/ Len(s) = 2
  <2>1. ASSUME NEW n \in Nat, n <= 2 PROVE n = 0 \/ n = 1 \/ n = 2
    BY <2>1
  <2>2. Len(s) \in Nat
    OBVIOUS
  <2> QED BY <2>1, <2>2
<1>4. CASE Len(s) = 0
  BY <1>1, <1>4 DEF CommandSize
<1>5. CASE Len(s) = 1
  <2>1. 1 \in 1 .. Len(s)
    BY <1>5
  <2>2. c[1] = c[1 - 1] + Bytes(s[1])
    BY <1>1, <2>1
  <2> QED BY <1>1, <1>2, <1>5, <2>2 DEF CommandSize
<1>6. CASE Len(s) = 2
  <2>1. 1 \in 1 .. Len(s) /\ 2 \in 1 .. Len(s)
    BY <1>6
  <2>2. c[1] = c[1 - 1] + Bytes(s[1]) /\ c[2] = c[2 - 1] + Bytes(s[2])
    BY <1>1, <2>1
  <2> QED BY <1>1, <1>2, <1>6, <2>2 DEF CommandSize
<1> QED BY <1>3, <1>4, <1>5, <1>6

-----------------------------------------------------------------------------
DataVars == <<numbers, left, fifo1, fifo2, got, result>>

(* Moves that leave the FIFOs alone and bring nothing forward.             *)
Passages ==
  {<<"child1", "nap", "open1">>, <<"child1", "open1", "add">>,
   <<"child1", "open2", "write">>,
   <<"child2", "start", "open2">>, <<"child2", "open2", "read">>,
   <<"parent", "start", "open1">>, <<"parent", "open1", "open2">>, <<"parent", "open2", "send1">>,
   <<"parent", "proceeding", "poll">>, <<"parent", "poll", "proceeding">>,
   <<"parent", "proceeding", "goodbye">>}

LEMMA PassageKeeps ==
  ASSUME FinalInv, NEW p, NEW there, <<p, pc[p], there>> \in Passages,
         pc' = [pc EXCEPT ![p] = there],
         NEW seconds \in Nat, timer' = [timer EXCEPT ![p] = seconds],
         UNCHANGED <<DataVars, sigchld, delay>>, PcType,
         p = "child1" => seconds = 0,
         p = "parent" /\ there = "open2" => pc["child1"] # "nap",
         p = "parent" /\ there = "send1" => pc["child2"] # "start"
  PROVE  FinalInv'
<1> USE DEF FinalInv, DataVars
<1>1. p \in Processes /\ pc'[p] = there /\ \A q \in Processes : q # p => pc'[q] = pc[q] /\ timer'[q] = timer[q]
  BY DEF Passages, Processes, Children, PcType, DataType
<1>2. DataType'
  BY <1>1 DEF DataType
<1>3. Order'
  BY <1>1 DEF Order, Passages, Early, Processes, Children, PcType, DataType
<1>4. LeftInv'
  BY <1>1 DEF LeftInv, Passages, Processes, Children
<1>5. /\ pc'["parent"] \in Early <=> pc["parent"] \in Early
      /\ Wrote' <=> Wrote
      /\ pc'["child1"] \in {"nap", "open1", "add"} <=> pc["child1"] \in {"nap", "open1", "add"}
      /\ pc'["child1"] \in {"open2", "write"} <=> pc["child1"] \in {"open2", "write"}
  BY <1>1 DEF Early, Passages, Processes, Children, Wrote
<1>6. Added' = Added
  BY <1>5 DEF Added, Unsent
<1>7. AddInv'
  BY <1>5, <1>6 DEF AddInv
<1>8. SumFirst'
  BY <1>1, <1>5 DEF SumFirst, Order, Early, Passages, Processes, Children
<1>9. StreamInv'
  <2> SUFFICES ASSUME delay < Nap, Wrote PROVE StreamInv'
    BY <1>5 DEF StreamInv
  <2>1. Stream' = Stream /\ Written' = Written
    <3>1. pc'["parent"] \in {"nap", "send2"} <=> pc["parent"] \in {"nap", "send2"}
      BY <1>1 DEF Passages, Processes, Children
    <3> QED BY <3>1 DEF Stream, Written
  <2>2. /\ Len(got) + Len(fifo2) = Written
        /\ \A i \in 1 .. Len(got) : got[i] = Stream[i]
        /\ \A i \in 1 .. Len(fifo2) : fifo2[i] = Stream[Len(got) + i]
    BY DEF StreamInv
  <2>3. /\ pc'["child2"] \in {"start", "open2"} => got = <<>>
        /\ pc'["child2"] = "read" => Len(got) <= Len(numbers)
        /\ pc'["child2"] = "command" => Len(got) > Len(numbers)
        /\ pc'["child2"] \in {"exit", "exited"} => got # <<>> /\ result["child2"] = ProductOf(numbers)
    <3>1. Len(numbers) \in Nat /\ Len(<<>>) = 0
      BY DEF DataType
    <3>2. CASE p = "child2"
      BY <1>1, <3>1, <3>2 DEF StreamInv, Passages
    <3>3. CASE p # "child2"
      <4>1. pc'["child2"] = pc["child2"]
        BY <1>1, <3>3 DEF Processes, Children
      <4> QED BY <4>1 DEF StreamInv
    <3> QED BY <3>2, <3>3
  <2> QED BY <1>5, <2>1, <2>2, <2>3 DEF StreamInv
<1> QED BY <1>2, <1>3, <1>4, <1>7, <1>8, <1>9

LEMMA OpeningPasses ==
  ASSUME FinalInv, PcType, NEW p, NEW here, NEW there, NEW others,
         <<p, here, there>> \in Passages, Opening(p, here, there, others),
         p = "parent" /\ there = "open2" => pc["child1"] # "nap",
         p = "parent" /\ there = "send1" => pc["child2"] # "start",
         UNCHANGED <<numbers, delay>>
  PROVE  FinalInv'
<1>1. p \in Processes
  BY DEF Passages, Processes, Children
<1>2. /\ pc[p] = here /\ timer[p] = 0 /\ pc' = [pc EXCEPT ![p] = there]
      /\ UNCHANGED <<DataVars, sigchld, delay, timer>>
  BY DEF Opening, At, Go, DataVars, pipeVars, childVars, signalVars
<1>3. timer' = [timer EXCEPT ![p] = 0]
  BY <1>1, <1>2 DEF FinalInv, DataType
<1>4. 0 \in Nat
  OBVIOUS
<1> QED BY <1>2, <1>3, <1>4, PassageKeeps

LEMMA OpeningsKeep ==
  ASSUME FinalInv, PcType, UNCHANGED <<numbers, delay>>,
         \/ Child1Wakes \/ Child1Opens \/ Child1OpensSecond \/ Child2Starts
         \/ ParentStarts \/ ParentOpens \/ ParentOpensSecond
  PROVE  FinalInv'
<1>1. CASE Child1Wakes \/ Child1Opens \/ Child1OpensSecond \/ Child2Starts \/ ParentStarts
  <2>1. /\ <<"child1", "nap", "open1">> \in Passages /\ <<"child1", "open1", "add">> \in Passages
        /\ <<"child1", "open2", "write">> \in Passages /\ <<"child2", "start", "open2">> \in Passages
        /\ <<"parent", "start", "open1">> \in Passages
        /\ "child1" # "parent" /\ "child2" # "parent" /\ "open1" \notin {"open2", "send1"}
    BY DEF Passages
  <2>2. CASE Child1Wakes
    BY <2>1, <2>2, OpeningPasses DEF Child1Wakes
  <2>3. CASE Child1Opens
    BY <2>1, <2>3, OpeningPasses DEF Child1Opens
  <2>4. CASE Child1OpensSecond
    BY <2>1, <2>4, OpeningPasses DEF Child1OpensSecond
  <2>5. CASE Child2Starts
    BY <2>1, <2>5, OpeningPasses DEF Child2Starts
  <2>6. CASE ParentStarts
    BY <2>1, <2>6, OpeningPasses DEF ParentStarts
  <2> QED BY <1>1, <2>2, <2>3, <2>4, <2>5, <2>6
<1>2. CASE ParentOpens
  <2>1. pc["child1"] # "nap"
    BY <1>2 DEF ParentOpens, Opening
  <2>2. "open2" # "send1" /\ <<"parent", "open1", "open2">> \in Passages
    BY DEF Passages
  <2> QED BY <1>2, <2>1, <2>2, OpeningPasses DEF ParentOpens
<1>3. CASE ParentOpensSecond
  <2>1. pc["child2"] # "start"
    BY <1>3 DEF ParentOpensSecond, Opening
  <2>2. "open2" # "send1" /\ <<"parent", "open2", "send1">> \in Passages
    BY DEF Passages
  <2> QED BY <1>3, <2>1, <2>2, OpeningPasses DEF ParentOpensSecond
<1> QED BY <1>1, <1>2, <1>3

LEMMA WaitingKeeps ==
  ASSUME FinalInv, PcType, UNCHANGED <<numbers, delay>>, Child2Opens \/ proceeding
  PROVE  FinalInv'
<1>1. CASE Child2Opens
  <2>1. /\ pc["child2"] = "open2" /\ pc' = [pc EXCEPT !["child2"] = "read"]
        /\ timer' = [timer EXCEPT !["child2"] = Nap] /\ UNCHANGED <<DataVars, sigchld>>
    BY <1>1 DEF Child2Opens, At, Sleep, DataVars, pipeVars, childVars, signalVars
  <2>2. Nap \in Nat /\ <<"child2", "open2", "read">> \in Passages
    BY DEF Nap, Passages
  <2> QED BY <2>1, <2>2, PassageKeeps
<1>2. CASE proceeding
  <2>1. PICK there \in {"poll", "goodbye", "proceeding"}, seconds \in Nat :
          /\ pc' = [pc EXCEPT !["parent"] = there]
          /\ <<"parent", pc["parent"], there>> \in Passages
          /\ timer' = [timer EXCEPT !["parent"] = seconds] /\ UNCHANGED <<DataVars, sigchld>>
    <3>1. timer = [timer EXCEPT !["parent"] = 0] \/ timer["parent"] # 0
      BY DEF FinalInv, DataType
    <3>2. Poll \in Nat /\ 0 \in Nat
      BY DEF Poll
    <3> QED BY <1>2, <3>1, <3>2
            DEF proceeding, At, Go, Sleep, DataVars, pipeVars, childVars, signalVars, Passages
  <2> QED BY <2>1, PassageKeeps
<1> QED BY <1>1, <1>2

(* Steps that leave pc and the data alone.                                 *)
LEMMA HandlingKeeps ==
  ASSUME FinalInv, UNCHANGED <<numbers, delay>>, Deliver \/ signal_handler
  PROVE  FinalInv'
<1> USE DEF FinalInv
<1>1. /\ UNCHANGED <<DataVars, delay, pc>> /\ (sigchld' => sigchld)
      /\ timer' = timer \/ (sigchld /\ timer' = [timer EXCEPT !["parent"] = 0])
  BY DEF Deliver, signal_handler, DataVars, pipeVars, childVars, signalVars
<1>t. timer' \in [Processes -> Nat] /\ timer'["child1"] = timer["child1"]
  <2>1. timer \in [Processes -> Nat] /\ "child1" \in Processes /\ 0 \in Nat
    BY DEF DataType, Processes, Children
  <2>2. CASE timer' = timer
    BY <2>1, <2>2
  <2>3. CASE timer' = [timer EXCEPT !["parent"] = 0]
    <3>1. timer' \in [Processes -> Nat]
      BY <2>1, <2>3
    <3>2. timer'["child1"] = timer["child1"]
      BY <2>1, <2>3
    <3> QED BY <3>1, <3>2
  <2> QED BY <1>1, <2>2, <2>3
<1>2. DataType' /\ Order' /\ LeftInv'
  BY <1>1, <1>t DEF DataVars, DataType, Order, LeftInv
<1>3. Added' = Added /\ Stream' = Stream /\ Written' = Written /\ (Wrote' <=> Wrote)
  BY <1>1 DEF DataVars, Added, Unsent, Stream, Written, Wrote
<1>4. AddInv' /\ StreamInv'
  BY <1>1, <1>3 DEF DataVars, AddInv, StreamInv
<1>5. SumFirst'
  BY <1>1, <1>3 DEF DataVars, SumFirst
<1> QED BY <1>2, <1>4, <1>5

LEMMA ExitKeeps ==
  ASSUME FinalInv, PcType, UNCHANGED <<numbers, delay>>, NEW c \in Children, ChildExits(c)
  PROVE  FinalInv'
<1> USE DEF FinalInv
<1>1. /\ pc[c] = "exit" /\ pc' = [pc EXCEPT ![c] = "exited"] /\ c \in Processes
      /\ UNCHANGED <<DataVars, delay, timer>>
  BY DEF ChildExits, Exit, At, Go, DataVars, pipeVars, childVars, Processes
<1>2. pc'[c] = "exited" /\ \A q \in Processes : q # c => pc'[q] = pc[q]
  BY <1>1 DEF PcType
<1>3. pc'["parent"] = pc["parent"] /\ \A q \in Children : q # c => pc'[q] = pc[q]
  BY <1>2 DEF Processes, Children
<1>4. DataType' /\ LeftInv'
  BY <1>1, <1>3 DEF DataVars, DataType, LeftInv
<1>5. Order'
  BY <1>1, <1>2, <1>3 DEF Order, Children
<1>6. Added' = Added /\ Stream' = Stream /\ Written' = Written
  BY <1>1, <1>3 DEF DataVars, Added, Unsent, Stream, Written
<1>7. Wrote' <=> Wrote
  BY <1>1, <1>2, <1>3 DEF Wrote, Children
<1>8. AddInv'
  BY <1>1, <1>2, <1>3, <1>6 DEF DataVars, AddInv, Children
<1>9. StreamInv'
  BY <1>1, <1>2, <1>3, <1>6, <1>7 DEF DataVars, StreamInv, Children
<1>10. SumFirst'
  <2> SUFFICES ASSUME delay < Nap, ~Wrote PROVE FALSE
    BY <1>1, <1>7 DEF SumFirst
  <2>1. pc["child2"] \in {"start", "open2", "read"}
    BY DEF SumFirst
  <2> QED BY <1>1, <2>1 DEF Wrote, Children
<1> QED BY <1>4, <1>5, <1>8, <1>9, <1>10

LEMMA NapKeeps ==
  ASSUME FinalInv, PcType, UNCHANGED <<numbers, delay>>, ParentNaps
  PROVE  FinalInv'
<1> USE DEF FinalInv
<1>1. /\ pc["parent"] = "nap" /\ pc' = [pc EXCEPT !["parent"] = "send2"]
      /\ timer' = [timer EXCEPT !["parent"] = Nap]
      /\ UNCHANGED <<DataVars, delay, sigchld>>
  BY DEF ParentNaps, Sleep, At, DataVars, pipeVars, childVars, signalVars
<1>2. /\ pc'["parent"] = "send2" /\ timer'["parent"] = Nap
      /\ \A c \in Children : pc'[c] = pc[c] /\ timer'[c] = timer[c]
  BY <1>1 DEF PcType, DataType, Processes, Children
<1>3. timer' \in [Processes -> Nat]
  BY <1>1 DEF DataType, Nap
<1>4. DataType'
  BY <1>1, <1>3 DEF DataVars, DataType
<1>5. Order'
  BY <1>1, <1>2 DEF Order, Early, Children
<1>6. left = numbers /\ LeftInv'
  BY <1>1, <1>2 DEF DataVars, LeftInv
<1>7. Added' = Added /\ Stream' = Stream /\ Written' = Written /\ (Wrote' <=> Wrote)
  BY <1>1, <1>2 DEF DataVars, Added, Unsent, Stream, Written, Wrote, Early, Children
<1>8. AddInv'
  BY <1>1, <1>2, <1>7 DEF DataVars, AddInv, Children
<1>9. StreamInv'
  BY <1>1, <1>2, <1>7 DEF DataVars, StreamInv, Children
<1>10. SumFirst'
  <2>1. timer'["parent"] + delay' >= Nap
    BY <1>1, <1>2 DEF DataType, Nap
  <2> QED BY <1>1, <1>2, <1>6, <1>7, <2>1 DEF DataVars, SumFirst, Early, Children
<1> QED BY <1>4, <1>5, <1>6, <1>8, <1>9, <1>10

(* A second passes: if child 1 has yet to write while the parent sleeps,   *)
(* it could, and the second is a delay.                                    *)
LEMMA TickKeeps ==
  ASSUME FinalInv, Tick
  PROVE  FinalInv'
<1> USE DEF FinalInv
<1>1. /\ UNCHANGED <<DataVars, pc, sigchld>>
      /\ timer' = [p \in Processes |-> IF timer[p] > 0 THEN timer[p] - 1 ELSE 0]
      /\ delay' = delay \/ delay' = delay + 1
      /\ Ready => delay' = delay + 1
  BY DEF Tick, DataVars, pipeVars, childVars, signalVars
<1>2. timer \in [Processes -> Nat] /\ delay \in Nat
  BY DEF DataType
<1>3. timer' \in [Processes -> Nat] /\ delay' \in Nat
  BY <1>1, <1>2
<1>4. /\ timer["child1"] = 0 => timer'["child1"] = 0
      /\ timer'["parent"] + 1 >= timer["parent"] /\ timer["parent"] \in Nat /\ timer'["parent"] \in Nat
  BY <1>1, <1>2 DEF Processes, Children
<1>5. DataType'
  BY <1>1, <1>3 DEF DataVars, DataType
<1>6. Order' /\ LeftInv'
  BY <1>1, <1>4 DEF DataVars, Order, LeftInv
<1>7. Added' = Added /\ Stream' = Stream /\ Written' = Written /\ (Wrote' <=> Wrote)
  BY <1>1 DEF DataVars, Added, Unsent, Stream, Written, Wrote
<1>8. AddInv'
  BY <1>1, <1>7 DEF DataVars, AddInv
<1>9. delay' < Nap => delay < Nap
  BY <1>1, <1>2 DEF Nap
<1>10. StreamInv'
  BY <1>1, <1>7, <1>9 DEF DataVars, StreamInv
<1>11. SumFirst'
  <2> SUFFICES ASSUME delay < Nap, ~Wrote, pc["parent"] = "send2"
               PROVE  timer'["parent"] + delay' >= Nap
    BY <1>1, <1>7, <1>9 DEF DataVars, SumFirst
  <2>1. timer["parent"] + delay >= Nap
    BY DEF SumFirst
  <2>2. pc["child1"] \in {"open1", "add", "open2", "write"} /\ pc["child2"] # "start"
    BY DEF Order, Wrote
  <2>3. timer["child1"] = 0
    BY <2>2 DEF Order
  <2>4. Ready
    BY <2>2, <2>3 DEF Ready, Child1Ready
  <2>5. delay' = delay + 1
    BY <1>1, <2>4
  <2> QED BY <1>2, <1>4, <2>1, <2>5 DEF Nap
<1> QED BY <1>5, <1>6, <1>8, <1>10, <1>11

LEMMA NumbersInt == ASSUME NEW s \in Seq(0 .. 9) PROVE s \in Seq(Int)
<1>1. 0 .. 9 \subseteq Int
  OBVIOUS
<1> QED BY <1>1, SeqMonotonic

(* Child 1 takes one number off its FIFO and has added one more.           *)
LEMMA AddKeeps ==
  ASSUME FinalInv, PcType, UNCHANGED <<numbers, delay>>, Child1Adds
  PROVE  FinalInv'
<1> USE DEF FinalInv
<1>0. pc["child1"] = "add" /\ UNCHANGED <<numbers, left, fifo2, got, timer, delay, sigchld>>
  BY DEF Child1Adds, At, Go, signalVars
<1>n. Len(numbers) \in Nat /\ Len(fifo1) \in Nat
  BY DEF DataType
<1>1. CASE fifo1 # <<>>
  <2>1. /\ result' = [result EXCEPT !["child1"] = @ + Head(fifo1).value]
        /\ fifo1' = Tail(fifo1) /\ pc' = pc
    BY <1>1 DEF Child1Adds
  <2>2. /\ fifo1' \in Seq(Chunks) /\ Len(fifo1') = Len(fifo1) - 1 /\ Len(fifo1) >= 1
        /\ \A i \in 1 .. Len(fifo1') : fifo1'[i] = fifo1[i + 1]
        /\ Head(fifo1) = fifo1[1]
    BY <1>1, <2>1, HeadTailProperties, EmptySeq DEF DataType
  <2>3. /\ DOMAIN result = Children
        /\ result'["child1"] = result["child1"] + Head(fifo1).value
        /\ result'["child2"] = result["child2"]
        /\ result' = [c \in Children |-> result'[c]]
    BY <2>1 DEF DataType, Children
  <2>4. DataType' /\ Order' /\ LeftInv'
    BY <1>0, <2>1, <2>2, <2>3 DEF DataType, Order, LeftInv
  <2>5. Added' = Added + 1 /\ Added' \in 0 .. Len(numbers)
    <3>1. Added \in 0 .. Len(numbers) /\ Unsent' = Unsent /\ Unsent \in Nat
      BY <1>0, <2>1 DEF AddInv, Unsent, DataType
    <3> QED BY <1>0, <1>n, <2>2, <3>1 DEF Added
  <2>6. Head(fifo1).value = numbers[Added + 1]
    <3>1. fifo1[1] = Number(numbers[Added + 1])
      BY <1>n, <2>2 DEF AddInv
    <3> QED BY <2>2, <3>1 DEF Number
  <2>7. AddInv'
    <3>1. \A i \in 1 .. Len(fifo1') : fifo1'[i] = Number(numbers[Added' + i])
      <4> SUFFICES ASSUME NEW i \in 1 .. Len(fifo1') PROVE fifo1'[i] = Number(numbers[Added' + i])
        OBVIOUS
      <4>1. i + 1 \in 1 .. Len(fifo1) /\ Added \in Int /\ Added' + i = Added + (i + 1)
        BY <1>n, <2>2, <2>5 DEF AddInv
      <4>2. fifo1[i + 1] = Number(numbers[Added + (i + 1)])
        BY <4>1 DEF AddInv
      <4> QED BY <2>2, <4>1, <4>2
    <3>2. result'["child1"] = SumOf(SubSeq(numbers, 1, Added'))
      <4>1. result["child1"] = SumOf(SubSeq(numbers, 1, Added))
        BY <1>0 DEF AddInv
      <4>2. ASSUME NEW a \in 0 .. Len(numbers) - 1
            PROVE  /\ SubSeq(numbers, 1, a) \in Seq(Int) /\ numbers[a + 1] \in Int
                   /\ SubSeq(numbers, 1, a + 1) = Append(SubSeq(numbers, 1, a), numbers[a + 1])
        <5>1. numbers \in Seq(Int)
          BY NumbersInt DEF DataType
        <5> QED BY <5>1
      <4>3. Added \in 0 .. Len(numbers) - 1
        BY <1>n, <2>5 DEF AddInv
      <4>4. SumOf(SubSeq(numbers, 1, Added + 1)) = SumOf(SubSeq(numbers, 1, Added)) + numbers[Added + 1]
        BY <4>2, <4>3, SumAppend
      <4> QED BY <2>3, <2>5, <2>6, <4>1, <4>4
    <3> QED BY <1>0, <2>1, <2>5, <3>1, <3>2 DEF AddInv
  <2>8. Stream' = Stream /\ Written' = Written /\ (Wrote' <=> Wrote)
    BY <1>0, <2>1 DEF Stream, Written, Wrote
  <2>9. SumFirst' /\ StreamInv'
    BY <1>0, <2>1, <2>3, <2>8 DEF SumFirst, StreamInv
  <2> QED BY <2>4, <2>7, <2>9
<1>2. CASE fifo1 = <<>>
  <2>1. /\ pc["parent"] \notin Early /\ pc' = [pc EXCEPT !["child1"] = "open2"]
        /\ UNCHANGED <<fifo1, result>>
    BY <1>2 DEF Child1Adds, Go, Early
  <2>2. pc'["child1"] = "open2" /\ \A p \in Processes \ {"child1"} : pc'[p] = pc[p]
    BY <2>1 DEF PcType, Processes, Children
  <2>3. pc'["child2"] = pc["child2"] /\ pc'["parent"] = pc["parent"]
    BY <2>2 DEF Processes, Children
  <2>4. DataType' /\ LeftInv'
    BY <1>0, <2>1, <2>3 DEF DataType, LeftInv
  <2>5. Order'
    BY <1>0, <2>1, <2>2, <2>3 DEF Order, Early
  <2>6. Added = Len(numbers) /\ Added' = Added
    BY <1>0, <1>2, <1>n, <2>1, <2>3 DEF Added, Unsent
  <2>7. SubSeq(numbers, 1, Len(numbers)) = numbers
    BY DEF DataType
  <2>8. result["child1"] = SumOf(numbers)
    BY <1>0, <2>6, <2>7 DEF AddInv
  <2>9. AddInv'
    BY <1>0, <2>1, <2>2, <2>6, <2>8 DEF AddInv
  <2>10. Stream' = Stream /\ Written' = Written /\ (Wrote' <=> Wrote)
    BY <1>0, <2>1, <2>2, <2>3 DEF Stream, Written, Wrote
  <2>11. SumFirst' /\ StreamInv'
    BY <1>0, <2>1, <2>3, <2>10 DEF SumFirst, StreamInv
  <2> QED BY <2>4, <2>5, <2>9, <2>11
<1> QED BY <1>1, <1>2

(* Child 1 writes the sum: it is all that is in the FIFO, unless the       *)
(* processes have been held up for too long.                               *)
LEMMA WriteKeeps ==
  ASSUME FinalInv, PcType, UNCHANGED <<numbers, delay>>, Child1Writes
  PROVE  FinalInv'
<1> USE DEF FinalInv
<1>0. /\ pc["child1"] = "write" /\ pc' = [pc EXCEPT !["child1"] = "exit"]
      /\ fifo2' = Append(fifo2, Sum(result["child1"]))
      /\ UNCHANGED <<numbers, left, fifo1, got, result, timer, delay, sigchld>>
  BY DEF Child1Writes, At, Go, childVars, signalVars
<1>1. pc'["child1"] = "exit" /\ pc'["child2"] = pc["child2"] /\ pc'["parent"] = pc["parent"]
  BY <1>0 DEF PcType, Processes, Children
<1>2. result["child1"] = SumOf(numbers) /\ SumOf(numbers) \in Int
  <2>1. numbers \in Seq(Int)
    BY NumbersInt DEF DataType
  <2>2. SumOf(numbers) \in Int
    BY <2>1, SumAppend
  <2> QED BY <1>0, <2>2 DEF AddInv
<1>3. Sum(result["child1"]) \in Chunks
  BY <1>2 DEF Sum, Chunks
<1>4. fifo2' \in Seq(Chunks)
  BY <1>0, <1>3 DEF DataType
<1>5. DataType' /\ LeftInv'
  BY <1>0, <1>1, <1>4 DEF DataType, LeftInv
<1>6. Order'
  BY <1>0, <1>1 DEF Order
<1>7. Added' = Added
  BY <1>0, <1>1 DEF Added, Unsent
<1>8. AddInv'
  BY <1>0, <1>1, <1>7 DEF AddInv
<1>9. SumFirst'
  BY <1>1 DEF SumFirst, Wrote
<1>10. StreamInv'
  <2> SUFFICES ASSUME delay < Nap PROVE StreamInv'
    BY <1>0 DEF StreamInv
  <2>1. /\ got = <<>> /\ fifo2 = <<>> /\ pc["child2"] \in {"start", "open2", "read"}
        /\ pc["parent"] \in {"nap", "send2"} /\ left = numbers
    BY <1>0 DEF SumFirst, Wrote, Order, LeftInv
  <2>2. fifo2' = <<Sum(SumOf(numbers))>>
    BY <1>0, <1>2, <2>1
  <2>3. Len(numbers) \in Nat
    BY DEF DataType
  <2>4. Written' = 1 /\ Stream'[1] = Sum(SumOf(numbers))
    BY <1>0, <1>1, <2>1, <2>3 DEF Written, Stream
  <2>5. Len(got') = 0 /\ Len(fifo2') = 1 /\ fifo2'[1] = Sum(SumOf(numbers))
    BY <1>0, <2>1, <2>2
  <2>6. /\ \A i \in 1 .. Len(got') : got'[i] = Stream'[i]
        /\ \A i \in 1 .. Len(fifo2') : fifo2'[i] = Stream'[Len(got') + i]
    BY <2>4, <2>5
  <2> QED BY <1>0, <1>1, <2>1, <2>3, <2>4, <2>5, <2>6 DEF StreamInv
<1> QED BY <1>5, <1>6, <1>8, <1>9, <1>10

(* Child 2 reads: what it has got and what is in the FIFO stay one stream. *)
LEMMA ReadKeeps ==
  ASSUME FinalInv, PcType, UNCHANGED <<numbers, delay>>,
         fifo2 # <<>>, got' = Append(got, Head(fifo2)), fifo2' = Tail(fifo2),
         pc["child2"] \in {"read", "command"}, NEW there \in {"read", "command"},
         pc' = [pc EXCEPT !["child2"] = there],
         UNCHANGED <<left, fifo1, result, timer, sigchld>>,
         delay < Nap /\ Wrote => /\ there = "read" => Len(got') <= Len(numbers)
                                 /\ there = "command" => Len(got') > Len(numbers)
  PROVE  FinalInv'
<1> USE DEF FinalInv
<1>1. pc'["child2"] = there /\ pc'["child1"] = pc["child1"] /\ pc'["parent"] = pc["parent"]
  BY DEF PcType, Processes, Children
<1>2. /\ fifo2' \in Seq(Chunks) /\ Len(fifo2') = Len(fifo2) - 1 /\ Len(fifo2) >= 1
      /\ \A i \in 1 .. Len(fifo2') : fifo2'[i] = fifo2[i + 1]
      /\ Head(fifo2) = fifo2[1] /\ Head(fifo2) \in Chunks
  BY HeadTailProperties, EmptySeq DEF DataType
<1>3. /\ got' \in Seq(Chunks) /\ Len(got') = Len(got) + 1 /\ got'[Len(got) + 1] = fifo2[1]
      /\ \A i \in 1 .. Len(got) : got'[i] = got[i]
  BY <1>2, AppendProperties DEF DataType
<1>4. DataType' /\ LeftInv'
  BY <1>1, <1>2, <1>3 DEF DataType, LeftInv
<1>5. Order'
  BY <1>1 DEF Order
<1>6. Added' = Added /\ Stream' = Stream /\ Written' = Written /\ (Wrote' <=> Wrote)
  BY <1>1 DEF Added, Unsent, Stream, Written, Wrote
<1>7. AddInv'
  BY <1>1, <1>6 DEF AddInv
<1>8. SumFirst'
  BY <1>6 DEF SumFirst
<1>9. StreamInv'
  <2> SUFFICES ASSUME delay < Nap, Wrote PROVE StreamInv'
    BY <1>6 DEF StreamInv
  <2>0. Len(got) \in Nat /\ Len(fifo2) \in Nat
    BY DEF DataType
  <2>1. /\ Len(got) + Len(fifo2) = Written
        /\ \A i \in 1 .. Len(got) : got[i] = Stream[i]
        /\ \A i \in 1 .. Len(fifo2) : fifo2[i] = Stream[Len(got) + i]
    BY DEF StreamInv
  <2>2. Len(got') + Len(fifo2') = Written
    BY <1>2, <1>3, <2>0, <2>1
  <2>3. \A i \in 1 .. Len(got') : got'[i] = Stream[i]
    <3> SUFFICES ASSUME NEW i \in 1 .. Len(got') PROVE got'[i] = Stream[i]
      OBVIOUS
    <3>1. CASE i = Len(got) + 1
      BY <1>2, <1>3, <2>0, <2>1, <3>1
    <3>2. CASE i # Len(got) + 1
      <4>1. i \in 1 .. Len(got)
        BY <1>3, <2>0, <3>2
      <4> QED BY <1>3, <2>1, <4>1
    <3> QED BY <3>1, <3>2
  <2>4. \A i \in 1 .. Len(fifo2') : fifo2'[i] = Stream[Len(got') + i]
    <3> SUFFICES ASSUME NEW i \in 1 .. Len(fifo2') PROVE fifo2'[i] = Stream[Len(got') + i]
      OBVIOUS
    <3>1. i + 1 \in 1 .. Len(fifo2) /\ Len(got') + i = Len(got) + (i + 1)
      BY <1>2, <1>3, <2>0
    <3> QED BY <1>2, <2>1, <3>1
  <2>5. there \notin {"start", "open2", "exit", "exited"}
    OBVIOUS
  <2> QED BY <1>1, <1>6, <2>2, <2>3, <2>4, <2>5 DEF StreamInv
<1> QED BY <1>4, <1>5, <1>7, <1>8, <1>9

LEMMA ReadsKeep ==
  ASSUME FinalInv, PcType, UNCHANGED <<numbers, delay>>, Child2Reads
  PROVE  FinalInv'
<1> DEFINE there == IF Len(got') = Len(numbers) + 1 THEN "command" ELSE "read"
<1>1. /\ pc["child2"] = "read" /\ fifo2 # <<>>
      /\ got' = Append(got, Head(fifo2)) /\ fifo2' = Tail(fifo2)
      /\ pc' = [pc EXCEPT !["child2"] = there]
      /\ UNCHANGED <<left, fifo1, result, timer, sigchld>>
  BY DEF Child2Reads, At, Go, signalVars
<1>2. Len(got') = Len(got) + 1 /\ Len(got) \in Nat /\ Len(numbers) \in Nat
  BY <1>1 DEF FinalInv, DataType
<1>3. delay < Nap /\ Wrote => Len(got) <= Len(numbers)
  BY <1>1 DEF FinalInv, StreamInv
<1>4. there \in {"read", "command"}
  OBVIOUS
<1>5. delay < Nap /\ Wrote => /\ there = "read" => Len(got') <= Len(numbers)
                              /\ there = "command" => Len(got') > Len(numbers)
  BY <1>2, <1>3
<1> HIDE DEF there
<1> QED BY <1>1, <1>4, <1>5, ReadKeeps

LEMMA RestOf ==
  ASSUME NEW S, NEW s \in Seq(S), NEW n \in Nat, Len(s) > n
  PROVE  LET rest == SubSeq(s, n + 2, Len(s))
         IN  /\ rest \in Seq(S) /\ Len(rest) = Len(s) - n - 1
             /\ \A i \in 1 .. Len(rest) : rest[i] = s[n + 1 + i]
<1> DEFINE rest == SubSeq(s, n + 2, Len(s))
<1>0. Len(s) \in Nat /\ n + 2 \in Int /\ Len(s) \in Int /\ Len(s) - (n + 2) + 1 = Len(s) - n - 1
  OBVIOUS
<1>1. \A i \in n + 2 .. Len(s) : s[i] \in S
  OBVIOUS
<1>2. /\ rest \in Seq(S)
      /\ Len(rest) = IF n + 2 <= Len(s) THEN Len(s) - (n + 2) + 1 ELSE 0
      /\ \A i \in 1 .. Len(s) - (n + 2) + 1 : rest[i] = s[n + 2 + i - 1]
  BY <1>0, <1>1, SubSeqProperties
<1> HIDE DEF rest
<1>3. Len(rest) = Len(s) - n - 1
  <2>1. ASSUME NEW k \in Nat, k > n
        PROVE  k - n - 1 = IF n + 2 <= k THEN k - (n + 2) + 1 ELSE 0
    BY <2>1
  <2> QED BY <1>0, <1>2, <2>1
<1>4. \A i \in 1 .. Len(rest) : n + 2 + i - 1 = n + 1 + i
  BY <1>0, <1>3
<1> QED BY <1>0, <1>2, <1>3, <1>4 DEF rest

(* The command is there when it has nine bytes, and it is multiply.        *)
LEMMA CommandKeeps ==
  ASSUME FinalInv, PcType, UNCHANGED <<numbers, delay>>, Child2Commanded
  PROVE  FinalInv'
<1> USE DEF FinalInv
<1>0. pc["child2"] = "command" /\ UNCHANGED <<numbers, left, fifo1, timer, delay, sigchld>>
  BY DEF Child2Commanded, At, Go, signalVars
<1>n. Len(numbers) \in Nat /\ Len(got) \in Nat /\ Len(fifo2) \in Nat /\ Len(left) \in Nat
  BY DEF DataType
<1>1. CASE BytesOf(Command) < CommandSize
  <2>1. /\ fifo2 # <<>> /\ got' = Append(got, Head(fifo2)) /\ fifo2' = Tail(fifo2)
        /\ pc' = pc /\ UNCHANGED result
    BY <1>1 DEF Child2Commanded
  <2>2. pc' = [pc EXCEPT !["child2"] = "command"]
    BY <1>0, <2>1 DEF PcType
  <2>3. delay < Nap /\ Wrote => Len(got') > Len(numbers)
    <3>1. Len(got') = Len(got) + 1
      BY <2>1 DEF DataType
    <3>2. delay < Nap /\ Wrote => Len(got) > Len(numbers)
      BY <1>0 DEF StreamInv
    <3> QED BY <1>n, <3>1, <3>2
  <2>4. "command" \in {"read", "command"} /\ "command" # "read"
    OBVIOUS
  <2> HIDE DEF FinalInv
  <2> QED BY <1>0, <2>1, <2>2, <2>3, <2>4, ReadKeeps
<1>2. CASE ~(BytesOf(Command) < CommandSize)
  <2>1. /\ pc' = [pc EXCEPT !["child2"] = "exit"] /\ UNCHANGED <<got, fifo2>>
        /\ result' = [result EXCEPT !["child2"] =
                        IF Command = Multiply
                        THEN ProductOf([i \in 1 .. Len(numbers) |-> got[i + 1].value])
                        ELSE @]
    BY <1>2 DEF Child2Commanded, Go
  <2>2. pc'["child2"] = "exit" /\ pc'["child1"] = pc["child1"] /\ pc'["parent"] = pc["parent"]
    BY <2>1 DEF PcType, Processes, Children
  <2>3. result' = [c \in Children |-> result'[c]] /\ result'["child1"] = result["child1"]
    BY <2>1 DEF DataType, Children
  <2>4. DataType' /\ LeftInv' /\ Order'
    BY <1>0, <2>1, <2>2, <2>3 DEF DataType, LeftInv, Order
  <2>5. Added' = Added /\ Stream' = Stream /\ Written' = Written /\ (Wrote' <=> Wrote)
    BY <1>0, <2>1, <2>2 DEF Added, Unsent, Stream, Written, Wrote
  <2>6. AddInv'
    BY <1>0, <2>1, <2>2, <2>3, <2>5 DEF AddInv
  <2>7. ~(delay < Nap /\ ~Wrote)
    BY <1>0 DEF SumFirst
  <2>8. SumFirst'
    BY <1>0, <2>5, <2>7 DEF SumFirst
  <2>9. StreamInv'
    <3> SUFFICES ASSUME delay < Nap, Wrote PROVE StreamInv'
      BY <2>5 DEF StreamInv
    <3>1. /\ Len(got) + Len(fifo2) = Written /\ Len(got) > Len(numbers)
          /\ \A i \in 1 .. Len(got) : got[i] = Stream[i]
          /\ \A i \in 1 .. Len(fifo2) : fifo2[i] = Stream[Len(got) + i]
      BY <1>0 DEF StreamInv
    <3>2. Len(got) <= Len(numbers) + 4
      BY <1>n, <3>1 DEF Written
    <3>3. /\ Command \in Seq(Chunks) /\ Len(Command) = Len(got) - Len(numbers) - 1
          /\ \A i \in 1 .. Len(Command) : Command[i] = got[Len(numbers) + 1 + i]
      <4>1. Len(got) > Len(numbers)
        BY <3>1
      <4> HIDE DEF FinalInv
      <4>2. got \in Seq(Chunks)
        BY DEF FinalInv, DataType
      <4> QED BY ONLY <1>n, <4>1, <4>2, RestOf DEF Command
    <3>4. Len(Command) = 3
      <4>1. ~(Len(Command) <= 2)
        BY <1>2, <3>3, ShortCommand
      <4> HIDE DEF FinalInv
      <4> QED BY <1>n, <3>1, <3>2, <3>3, <4>1
    <3>5. \A i \in 1 .. 3 : Command[i] = Multiply[i]
      <4> SUFFICES ASSUME NEW i \in 1 .. 3 PROVE Command[i] = Multiply[i]
        OBVIOUS
      <4>0. i \in 1 .. Len(Command) /\ Len(numbers) + 1 + i \in 1 .. Len(got)
        <5>1. Len(got) = Len(numbers) + 4
          <6>1. ASSUME NEW k \in Nat, NEW n \in Nat, 3 = k - n - 1 PROVE k = n + 4
            BY <6>1
          <6>2. 3 = Len(got) - Len(numbers) - 1
            BY <3>3, <3>4
          <6> HIDE DEF FinalInv
          <6> QED BY ONLY <1>n, <6>1, <6>2
        <5> QED BY <1>n, <3>4, <5>1
      <4>1. Command[i] = Stream[Len(numbers) + 1 + i]
        BY <3>1, <3>3, <4>0
      <4>2. Stream[Len(numbers) + 1 + i] = Multiply[i]
        BY <1>n DEF Stream
      <4> QED BY <4>1, <4>2
    <3>6. Command = Multiply
      <4>1. Multiply \in Seq(Chunks) /\ Len(Multiply) = 3
        BY DEF Multiply, Word, Chunks
      <4> QED BY <3>3, <3>4, <3>5, <4>1, SeqEqual
    <3>7. [i \in 1 .. Len(numbers) |-> got[i + 1].value] = numbers
      <4>1. ASSUME NEW i \in 1 .. Len(numbers) PROVE got[i + 1].value = numbers[i]
        <5>1. i + 1 \in 1 .. Len(got) /\ i + 1 \in 1 .. Len(numbers) + 4
              /\ i + 1 # 1 /\ i + 1 <= Len(numbers) + 1 /\ (i + 1) - 1 = i
          BY <1>n, <3>1
        <5>2. got[i + 1] = Number(numbers[i])
          BY <3>1, <5>1 DEF Stream
        <5> QED BY <5>2 DEF Number
      <4>2. numbers = [i \in 1 .. Len(numbers) |-> numbers[i]]
        BY DEF DataType
      <4> QED BY <4>1, <4>2
    <3>8. result'["child2"] = ProductOf(numbers)
      BY <2>1, <3>6, <3>7 DEF DataType, Children
    <3>9. got # <<>>
      BY <1>n, <3>1
    <3> QED BY <1>0, <2>1, <2>2, <2>5, <3>1, <3>8, <3>9 DEF StreamInv
  <2> QED BY <2>4, <2>6, <2>8, <2>9
<1> QED BY <1>1, <1>2

(* The parent's first round: what it sends moves from left to the FIFO.    *)
LEMMA SendKeeps ==
  ASSUME FinalInv, PcType, UNCHANGED <<numbers, delay>>, ParentSends
  PROVE  FinalInv'
<1> USE DEF FinalInv
<1>0. pc["parent"] = "send1" /\ UNCHANGED <<numbers, fifo2, got, result, timer, delay, sigchld>>
  BY DEF ParentSends, At, Go, childVars, signalVars
<1>n. Len(numbers) \in Nat /\ Len(left) \in Nat /\ Len(fifo1) \in Nat /\ Len(left) <= Len(numbers)
  BY DEF DataType, LeftInv
<1>s. StreamInv'
  <2>1. ~Wrote /\ pc'["child1"] = pc["child1"]
    BY <1>0 DEF Order, Wrote, Early, ParentSends, Go, PcType, Processes, Children
  <2> QED BY <2>1 DEF StreamInv, Wrote
<1>1. CASE left # <<>>
  <2>1. /\ fifo1' = Append(fifo1, Number(Head(left))) /\ left' = Tail(left) /\ pc' = pc
    BY <1>1 DEF ParentSends
  <2>2. /\ left' \in Seq(0 .. 9) /\ Len(left') = Len(left) - 1 /\ Len(left) >= 1
        /\ \A i \in 1 .. Len(left') : left'[i] = left[i + 1]
        /\ Head(left) = left[1] /\ Head(left) \in 0 .. 9
    BY <1>1, <2>1, HeadTailProperties, EmptySeq DEF DataType
  <2>3. Number(Head(left)) \in Chunks
    BY <2>2 DEF Number, Chunks
  <2>4. /\ fifo1' \in Seq(Chunks) /\ Len(fifo1') = Len(fifo1) + 1
        /\ fifo1'[Len(fifo1) + 1] = Number(Head(left))
        /\ \A i \in 1 .. Len(fifo1) : fifo1'[i] = fifo1[i]
    BY <2>1, <2>3, AppendProperties DEF DataType
  <2>5. DataType' /\ Order'
    BY <1>0, <2>1, <2>2, <2>4 DEF DataType, Order
  <2>6. LeftInv'
    <3>1. \A i \in 1 .. Len(left') : left'[i] = numbers[Len(numbers) - Len(left') + i]
      <4> SUFFICES ASSUME NEW i \in 1 .. Len(left')
                   PROVE  left'[i] = numbers[Len(numbers) - Len(left') + i]
        OBVIOUS
      <4>1. i + 1 \in 1 .. Len(left) /\ Len(numbers) - Len(left') + i = Len(numbers) - Len(left) + (i + 1)
        BY <1>n, <2>2
      <4>2. left[i + 1] = numbers[Len(numbers) - Len(left) + (i + 1)]
        BY <4>1 DEF LeftInv
      <4> QED BY <2>2, <4>1, <4>2
    <3> QED BY <1>0, <1>n, <2>1, <2>2, <3>1 DEF LeftInv
  <2>7. Added' = Added /\ Added + Len(fifo1) + 1 = Len(numbers) - Len(left) + 1
    <3>1. Unsent = Len(left) /\ Unsent' = Len(left')
      BY <1>0, <2>1 DEF Unsent, Early
    <3>2. ASSUME NEW n \in Nat, NEW l \in Nat, NEW f \in Nat
          PROVE  n - (l - 1) - (f + 1) = n - l - f /\ (n - l - f) + f + 1 = n - l + 1
      OBVIOUS
    <3>3. /\ Added = Len(numbers) - Len(left) - Len(fifo1)
          /\ Added' = Len(numbers) - (Len(left) - 1) - (Len(fifo1) + 1)
      BY <1>0, <2>2, <2>4, <3>1 DEF Added
    <3> QED BY <1>n, <3>2, <3>3
  <2>8. AddInv'
    <3>1. Head(left) = numbers[Added + (Len(fifo1) + 1)]
      <4>1. 1 \in 1 .. Len(left)
        BY <1>n, <2>2
      <4>2. left[1] = numbers[Len(numbers) - Len(left) + 1]
        BY <4>1 DEF LeftInv
      <4>3. Added + (Len(fifo1) + 1) = Len(numbers) - Len(left) + 1
        BY <1>n, <2>7 DEF AddInv
      <4> QED BY <2>2, <4>2, <4>3
    <3>2. \A i \in 1 .. Len(fifo1') : fifo1'[i] = Number(numbers[Added + i])
      <4> SUFFICES ASSUME NEW i \in 1 .. Len(fifo1') PROVE fifo1'[i] = Number(numbers[Added + i])
        OBVIOUS
      <4>1. CASE i = Len(fifo1) + 1
        BY <2>4, <3>1, <4>1
      <4>2. CASE i # Len(fifo1) + 1
        <5>1. i \in 1 .. Len(fifo1)
          BY <1>n, <2>4, <4>2
        <5> QED BY <2>4, <5>1 DEF AddInv
      <4> QED BY <4>1, <4>2
    <3> QED BY <1>0, <2>1, <2>7, <3>2 DEF AddInv
  <2>9. SumFirst'
    <3>1. (Wrote' <=> Wrote)
      BY <2>1 DEF Wrote
    <3> QED BY <1>0, <2>1, <3>1 DEF SumFirst
  <2> QED BY <1>s, <2>5, <2>6, <2>8, <2>9
<1>2. CASE left = <<>>
  <2>1. /\ left' = numbers /\ pc' = [pc EXCEPT !["parent"] = "nap"] /\ fifo1' = fifo1
    BY <1>2 DEF ParentSends, Go
  <2>2. pc'["parent"] = "nap" /\ pc'["child1"] = pc["child1"] /\ pc'["child2"] = pc["child2"]
    BY <2>1 DEF PcType, Processes, Children
  <2>3. DataType'
    BY <1>0, <2>1 DEF DataType
  <2>4. Order'
    BY <1>0, <2>2 DEF Order, Early
  <2>5. LeftInv'
    <3>1. \A i \in 1 .. Len(numbers) : numbers[i] = numbers[Len(numbers) - Len(numbers) + i]
      BY <1>n
    <3> QED BY <1>0, <1>n, <2>1, <3>1 DEF LeftInv
  <2>6. Added' = Added
    BY <1>0, <1>2, <1>n, <2>1, <2>2 DEF Added, Unsent, Early
  <2>7. AddInv'
    BY <1>0, <2>1, <2>2, <2>6 DEF AddInv
  <2>8. SumFirst'
    <3>1. (Wrote' <=> Wrote)
      BY <2>2 DEF Wrote
    <3> QED BY <1>0, <2>1, <2>2, <3>1 DEF SumFirst
  <2> QED BY <1>s, <2>3, <2>4, <2>5, <2>7, <2>8
<1> QED BY <1>1, <1>2

(* The second round: unless the processes have been held up for too long,  *)
(* it begins when child 1 has written.                                     *)
LEMMA SecondKeeps ==
  ASSUME FinalInv, PcType, UNCHANGED <<numbers, delay>>, ParentSendsSecond
  PROVE  FinalInv'
<1> USE DEF FinalInv
<1>0. /\ pc["parent"] = "send2" /\ timer["parent"] = 0
      /\ UNCHANGED <<numbers, fifo1, got, result, timer, delay, sigchld>>
  BY DEF ParentSendsSecond, At, Go, childVars, signalVars
<1>n. /\ Len(numbers) \in Nat /\ Len(left) \in Nat /\ Len(got) \in Nat /\ Len(fifo2) \in Nat
      /\ Len(left) <= Len(numbers)
  BY DEF DataType, LeftInv
<1>w. ~(delay < Nap /\ ~Wrote)
  BY <1>0 DEF SumFirst, DataType, Nap
<1>1. CASE left # <<>>
  <2>1. /\ fifo2' = Append(fifo2, Number(Head(left))) /\ left' = Tail(left) /\ pc' = pc
    BY <1>1 DEF ParentSendsSecond
  <2>2. /\ left' \in Seq(0 .. 9) /\ Len(left') = Len(left) - 1 /\ Len(left) >= 1
        /\ \A i \in 1 .. Len(left') : left'[i] = left[i + 1]
        /\ Head(left) = left[1] /\ Head(left) \in 0 .. 9
    BY <1>1, <2>1, HeadTailProperties, EmptySeq DEF DataType
  <2>3. Number(Head(left)) \in Chunks
    BY <2>2 DEF Number, Chunks
  <2>4. /\ fifo2' \in Seq(Chunks) /\ Len(fifo2') = Len(fifo2) + 1
        /\ fifo2'[Len(fifo2) + 1] = Number(Head(left))
        /\ \A i \in 1 .. Len(fifo2) : fifo2'[i] = fifo2[i]
    BY <2>1, <2>3, AppendProperties DEF DataType
  <2>5. DataType' /\ Order'
    BY <1>0, <2>1, <2>2, <2>4 DEF DataType, Order
  <2>6. LeftInv'
    <3>1. \A i \in 1 .. Len(left') : left'[i] = numbers[Len(numbers) - Len(left') + i]
      <4> SUFFICES ASSUME NEW i \in 1 .. Len(left')
                   PROVE  left'[i] = numbers[Len(numbers) - Len(left') + i]
        OBVIOUS
      <4>1. i + 1 \in 1 .. Len(left) /\ Len(numbers) - Len(left') + i = Len(numbers) - Len(left) + (i + 1)
        BY <1>n, <2>2
      <4>2. left[i + 1] = numbers[Len(numbers) - Len(left) + (i + 1)]
        BY <4>1 DEF LeftInv
      <4> QED BY <2>2, <4>1, <4>2
    <3> QED BY <1>0, <1>n, <2>1, <2>2, <3>1 DEF LeftInv
  <2>7. Added' = Added
    BY <1>0, <2>1 DEF Added, Unsent, Early
  <2>8. AddInv'
    BY <1>0, <2>1, <2>7 DEF AddInv
  <2>9. Wrote' <=> Wrote
    BY <2>1 DEF Wrote
  <2>10. SumFirst'
    BY <1>0, <1>w, <2>9 DEF SumFirst
  <2>11. StreamInv'
    <3> SUFFICES ASSUME delay < Nap, Wrote PROVE StreamInv'
      BY <1>0, <2>9 DEF StreamInv
    <3>1. /\ Len(got) + Len(fifo2) = 1 + Len(numbers) - Len(left)
          /\ \A i \in 1 .. Len(got) : got[i] = Stream[i]
          /\ \A i \in 1 .. Len(fifo2) : fifo2[i] = Stream[Len(got) + i]
      BY <1>0 DEF StreamInv, Written
    <3>2. Stream' = Stream /\ Written' = 1 + Len(numbers) - Len(left')
      BY <1>0, <2>1 DEF Stream, Written
    <3>3. Len(got) + Len(fifo2') = Written'
      <4>1. ASSUME NEW n \in Nat, NEW l \in Nat, NEW g \in Nat, NEW f \in Nat, g + f = 1 + n - l
            PROVE  g + (f + 1) = 1 + n - (l - 1)
        BY <4>1
      <4>2. /\ Len(got) + Len(fifo2) = 1 + Len(numbers) - Len(left)
            /\ Len(fifo2') = Len(fifo2) + 1
            /\ Written' = 1 + Len(numbers) - (Len(left) - 1)
        BY <2>2, <2>4, <3>1, <3>2
      <4> HIDE DEF FinalInv
      <4> QED BY ONLY <1>n, <4>1, <4>2
    <3>4. fifo2'[Len(fifo2) + 1] = Stream[Len(got) + (Len(fifo2) + 1)]
      <4> DEFINE k == Len(got) + (Len(fifo2) + 1)
      <4>1. k \in 1 .. Len(numbers) + 4 /\ k # 1 /\ k <= Len(numbers) + 1
            /\ k - 1 = Len(numbers) - Len(left) + 1 /\ 1 \in 1 .. Len(left)
        <5> DEFINE n == Len(numbers)
                   l == Len(left)
                   g == Len(got)
                   f == Len(fifo2)
        <5>1. n \in Nat /\ l \in Nat /\ g \in Nat /\ f \in Nat /\ l <= n
          BY <1>n
        <5>2. l >= 1 /\ g + f = 1 + n - l
          BY <2>2, <3>1
        <5>3. k = g + (f + 1)
          OBVIOUS
        <5> HIDE DEF n, l, g, f, k
        <5>4. k = n - l + 2 /\ n - l \in Nat
          BY <5>1, <5>2, <5>3
        <5>5. k \in 1 .. n + 4 /\ k # 1 /\ k <= n + 1 /\ k - 1 = n - l + 1 /\ 1 \in 1 .. l
          BY <5>1, <5>2, <5>4
        <5> QED BY <5>5 DEF n, l
      <4>2. left[1] = numbers[Len(numbers) - Len(left) + 1]
        BY <4>1 DEF LeftInv
      <4> HIDE DEF k
      <4>3. Stream[k] = Number(numbers[k - 1])
        BY <4>1 DEF Stream
      <4> QED BY <2>2, <2>4, <4>1, <4>2, <4>3 DEF k
    <3>5. \A i \in 1 .. Len(fifo2') : fifo2'[i] = Stream[Len(got) + i]
      <4> SUFFICES ASSUME NEW i \in 1 .. Len(fifo2') PROVE fifo2'[i] = Stream[Len(got) + i]
        OBVIOUS
      <4>1. CASE i = Len(fifo2) + 1
        BY <3>4, <4>1
      <4>2. CASE i # Len(fifo2) + 1
        <5>1. i \in 1 .. Len(fifo2)
          BY <1>n, <2>4, <4>2
        <5> QED BY <2>4, <3>1, <5>1
      <4> QED BY <4>1, <4>2
    <3> QED BY <1>0, <2>1, <3>1, <3>2, <3>3, <3>5 DEF StreamInv
  <2> QED BY <2>5, <2>6, <2>8, <2>10, <2>11
<1>2. CASE left = <<>>
  <2>1. fifo2' = fifo2 \o Multiply /\ pc' = [pc EXCEPT !["parent"] = "proceeding"] /\ left' = left
    BY <1>2 DEF ParentSendsSecond
  <2>2. pc'["parent"] = "proceeding" /\ pc'["child1"] = pc["child1"] /\ pc'["child2"] = pc["child2"]
    BY <2>1 DEF PcType, Processes, Children
  <2>3. Multiply \in Seq(Chunks) /\ Len(Multiply) = 3
    BY DEF Multiply, Word, Chunks
  <2>4. /\ fifo2' \in Seq(Chunks) /\ Len(fifo2') = Len(fifo2) + 3
        /\ \A i \in 1 .. Len(fifo2') :
             fifo2'[i] = IF i <= Len(fifo2) THEN fifo2[i] ELSE Multiply[i - Len(fifo2)]
    <3>1. fifo2 \in Seq(Chunks)
      BY DEF DataType
    <3>2. /\ fifo2 \o Multiply \in Seq(Chunks)
          /\ Len(fifo2 \o Multiply) = Len(fifo2) + Len(Multiply)
          /\ \A i \in 1 .. Len(fifo2) + Len(Multiply) :
               (fifo2 \o Multiply)[i] =
                 IF i <= Len(fifo2) THEN fifo2[i] ELSE Multiply[i - Len(fifo2)]
      BY ONLY <2>3, <3>1, ConcatProperties
    <3> HIDE DEF FinalInv
    <3> QED BY <2>1, <2>3, <3>2
  <2>5. DataType' /\ LeftInv'
    BY <1>0, <2>1, <2>2, <2>4 DEF DataType, LeftInv
  <2>6. Order'
    BY <1>0, <2>2 DEF Order, Early
  <2>7. Added' = Added
    BY <1>0, <2>1, <2>2 DEF Added, Unsent, Early
  <2>8. AddInv'
    BY <1>0, <2>1, <2>2, <2>7 DEF AddInv, Early
  <2>9. Wrote' <=> Wrote
    BY <2>2 DEF Wrote
  <2>10. SumFirst'
    BY <1>0, <1>w, <2>9 DEF SumFirst
  <2>11. StreamInv'
    <3> SUFFICES ASSUME delay < Nap, Wrote PROVE StreamInv'
      BY <1>0, <2>9 DEF StreamInv
    <3>0. Len(left) = 0
      BY <1>2
    <3>1. /\ Len(got) + Len(fifo2) = 1 + Len(numbers)
          /\ \A i \in 1 .. Len(got) : got[i] = Stream[i]
          /\ \A i \in 1 .. Len(fifo2) : fifo2[i] = Stream[Len(got) + i]
      BY <1>0, <1>n, <3>0 DEF StreamInv, Written
    <3>2. Stream' = Stream /\ Written' = Len(numbers) + 4
      BY <1>0, <2>2 DEF Stream, Written
    <3>3. Len(got) + Len(fifo2') = Written'
      BY <1>n, <2>4, <3>1, <3>2
    <3>4. \A i \in 1 .. Len(fifo2') : fifo2'[i] = Stream[Len(got) + i]
      <4> SUFFICES ASSUME NEW i \in 1 .. Len(fifo2') PROVE fifo2'[i] = Stream[Len(got) + i]
        OBVIOUS
      <4>1. CASE i <= Len(fifo2)
        <5>1. i \in 1 .. Len(fifo2)
          BY <1>n, <4>1
        <5> QED BY <2>4, <3>1, <4>1, <5>1
      <4>2. CASE ~(i <= Len(fifo2))
        <5> DEFINE k == Len(got) + i
        <5>1. k \in 1 .. Len(numbers) + 4 /\ k # 1 /\ ~(k <= Len(numbers) + 1)
              /\ k - Len(numbers) - 1 = i - Len(fifo2)
          <6> DEFINE n == Len(numbers)
                     g == Len(got)
                     f == Len(fifo2)
          <6>1. n \in Nat /\ g \in Nat /\ f \in Nat /\ g + f = 1 + n
            BY <1>n, <3>1
          <6>2. i \in 1 .. f + 3 /\ ~(i <= f) /\ k = g + i
            BY <2>4, <4>2
          <6> HIDE DEF n, g, f, k
          <6>3. k \in 1 .. n + 4 /\ k # 1 /\ ~(k <= n + 1) /\ k - n - 1 = i - f
            BY ONLY <6>1, <6>2
          <6> QED BY <6>3 DEF n, f
        <5> HIDE DEF k
        <5>2. Stream[k] = Multiply[k - Len(numbers) - 1]
          BY <5>1 DEF Stream
        <5> QED BY <2>4, <4>2, <5>1, <5>2 DEF k
      <4> QED BY <4>1, <4>2
    <3> QED BY <1>0, <2>2, <3>1, <3>2, <3>3, <3>4 DEF StreamInv
  <2> QED BY <2>5, <2>6, <2>8, <2>10, <2>11
<1> QED BY <1>1, <1>2

LEMMA FinalStep == FinalInv /\ PcType /\ [Next]_vars => FinalInv'
<1> SUFFICES ASSUME FinalInv, PcType, [Next]_vars PROVE FinalInv'
  OBVIOUS
<1>1. CASE UNCHANGED vars
  <2>1. /\ UNCHANGED <<numbers, left, fifo1, fifo2, got, result, timer, delay, pc, sigchld>>
        /\ Added' = Added /\ Stream' = Stream /\ Written' = Written /\ (Wrote' <=> Wrote)
    BY <1>1 DEF vars, pipeVars, childVars, signalVars, Added, Unsent, Stream, Written, Wrote
  <2>2. DataType' /\ Order' /\ LeftInv'
    BY <2>1 DEF FinalInv, DataType, Order, LeftInv
  <2>3. AddInv' /\ SumFirst' /\ StreamInv'
    BY <2>1 DEF FinalInv, AddInv, SumFirst, StreamInv
  <2> QED BY <2>2, <2>3 DEF FinalInv
<1>2. CASE Tick
  BY <1>2, TickKeeps
<1>3. CASE Run(Child1Step)
  BY <1>3, OpeningsKeep, AddKeeps, WriteKeeps, ExitKeeps DEF Run, Child1Step, Children
<1>4. CASE Run(Child2Step)
  BY <1>4, OpeningsKeep, WaitingKeeps, ReadsKeep, CommandKeeps, ExitKeeps
     DEF Run, Child2Step, Children
<1>5. CASE Run(ParentStep)
  BY <1>5, OpeningsKeep, WaitingKeeps, SendKeeps, NapKeeps, SecondKeeps, HandlingKeeps
     DEF Run, ParentStep
<1> QED
  BY <1>1, <1>2, <1>3, <1>4, <1>5 DEF Next, Step

LEMMA FinalInit == Init => FinalInv
<1> SUFFICES ASSUME Init PROVE FinalInv
  OBVIOUS
<1>1. numbers \in Seq(0 .. 9) /\ Len(numbers) \in Nat
  BY TwoChildrenAssumption DEF Init
<1>2. /\ pc["child1"] = "nap" /\ pc["child2"] = "start" /\ pc["parent"] = "start"
      /\ left = numbers /\ fifo1 = <<>> /\ fifo2 = <<>> /\ got = <<>>
      /\ result["child1"] = 0 /\ ~sigchld /\ delay = 0
  BY DEF Init, Processes, Children
<1>3. timer \in [Processes -> Nat] /\ result = [c \in Children |-> result[c]]
  BY DEF Init, Nap
<1>4. DataType
  <2>1. <<>> \in Seq(Chunks)
    OBVIOUS
  <2> QED BY <1>1, <1>2, <1>3, <2>1 DEF DataType
<1>5. Order
  BY <1>2 DEF Order, Early
<1>6. LeftInv
  <2>1. \A i \in 1 .. Len(numbers) : Len(numbers) - Len(numbers) + i = i
    BY <1>1
  <2> QED BY <1>1, <1>2, <2>1 DEF LeftInv
<1>7. AddInv
  <2>1. Added = 0
    BY <1>1, <1>2 DEF Added, Unsent, Early
  <2>2. SubSeq(numbers, 1, Added) = <<>> /\ 0 \in 0 .. Len(numbers)
    BY <1>1, <2>1
  <2>3. \A i \in 1 .. Len(fifo1) : FALSE
    BY <1>2
  <2>4. result["child1"] = SumOf(SubSeq(numbers, 1, Added))
    BY <1>2, <2>2, SumEmpty
  <2> QED BY <1>2, <2>1, <2>2, <2>3, <2>4 DEF AddInv
<1>8. SumFirst
  BY <1>2 DEF SumFirst, Early
<1>9. StreamInv
  BY <1>2 DEF StreamInv, Wrote
<1> QED BY <1>4, <1>5, <1>6, <1>7, <1>8, <1>9 DEF FinalInv

(* As long as the processes have not been held up for ten seconds in all,  *)
(* child 2 reads child 1's sum first and ends with the sum and the product *)
(* of the parent's array, whatever the array.                              *)
THEOREM SumArrivesFirst == Spec => []FinalResult
<1>1. FinalInv => FinalResult
  <2> SUFFICES ASSUME FinalInv, delay < Nap
               PROVE  /\ got # <<>> => got[1] = Sum(SumOf(numbers))
                      /\ pc["child2"] \in {"exit", "exited"} => result["child2"] = ProductOf(numbers)
    BY DEF FinalResult
  <2>1. CASE ~Wrote
    BY <2>1 DEF FinalInv, SumFirst
  <2>2. CASE Wrote
    <3>1. /\ \A i \in 1 .. Len(got) : got[i] = Stream[i]
          /\ pc["child2"] \in {"exit", "exited"} => result["child2"] = ProductOf(numbers)
      BY <2>2 DEF FinalInv, StreamInv
    <3>2. got # <<>> => 1 \in 1 .. Len(got)
      BY EmptySeq DEF FinalInv, DataType
    <3>3. Stream[1] = Sum(SumOf(numbers))
      <4>1. 1 \in 1 .. Len(numbers) + 4
        BY DEF FinalInv, DataType
      <4> QED BY <4>1 DEF Stream
    <3> QED BY <3>1, <3>2, <3>3
  <2> QED BY <2>1, <2>2
<1>2. ReapInv => PcType
  BY DEF ReapInv
<1> QED
  BY <1>1, <1>2, ReapInit, ReapStep, FinalInit, FinalStep, PTL DEF Spec
=============================================================================
