---------------------------- MODULE TwoChildren -----------------------------
(***************************************************************************)
(* hw2: a parent sends numbers to two children through two FIFOs.  Child 1 *)
(* adds them up and sends the sum to child 2 through the FIFO on which the *)
(* parent sends child 2 the numbers and a command; sleeps of ten seconds   *)
(* are to bring the sum there first.  Both exit with their results, which  *)
(* the parent's SIGCHLD handler collects.                                  *)
(*                                                                         *)
(* Time passes in seconds.  While a process could run, a second that       *)
(* passes is a delay; delay counts these, up to MaxDelay.                  *)
(***************************************************************************)
EXTENDS Integers, FiniteSets, Sequences, SequencesExt

CONSTANTS
  Arrays,     \* the arrays of random numbers
  Parities,   \* the parities of the children's PIDs: functions on Children
  MaxDelay    \* bound on the seconds for which the scheduler delays processes

Children == {"child1", "child2"}
Processes == Children \cup {"parent"}

Nap == 10     \* sleep(10)
Poll == 2     \* sleep(2)

ASSUME TwoChildrenAssumption ==
  /\ Arrays \subseteq Seq(0 .. 9)
  /\ Parities \subseteq [Children -> {0, 1}]
  /\ MaxDelay \in Nat

VARIABLES
  numbers,    \* the parent's array
  parity,     \* the parity of each child's PID
  pc,         \* where each process is
  timer,      \* the seconds each process still sleeps
  fifo1,      \* what is in the first FIFO
  fifo2,      \* what is in the second one
  left,       \* the numbers the parent has yet to write to a FIFO
  got,        \* what child 2 has read
  result,     \* each child's own result
  zombies,    \* children that have exited and are not waited for
  sigchld,    \* SIGCHLD is pending for the parent
  handling,   \* the parent is in signal_handler
  child_count, collected,   \* the parent's count and results of children
  delay

pipeVars == <<fifo1, fifo2, left>>
childVars == <<got, result>>
signalVars == <<zombies, sigchld, handling, child_count, collected>>
vars == <<numbers, parity, pc, timer, pipeVars, childVars, signalVars, delay>>

(* What is written to the FIFOs, by four bytes, the last byte of the       *)
(* command apart: multiply\0 can be read as two integers and a null.       *)
Number(x) == [what |-> "number", value |-> x]
Sum(x) == [what |-> "sum", value |-> x]
Word(w) == [what |-> w, value |-> 0]
Multiply == <<Word("mult"), Word("iply"), Word("nul")>>
Bytes(chunk) == IF chunk.what = "nul" THEN 1 ELSE 4

CommandSize == 9    \* COMMAND_SIZE - 1

SumOf(s) == FoldLeft(LAMBDA a, x : a + x, 0, s)
ProductOf(s) == FoldLeft(LAMBDA a, x : a * x, 1, s)
BytesOf(s) == FoldLeft(LAMBDA a, x : a + Bytes(x), 0, s)

Init ==
  /\ numbers \in Arrays
  /\ parity \in Parities
  /\ pc = [p \in Processes |-> IF p = "child1" THEN "nap" ELSE "start"]
  /\ timer = [p \in Processes |-> IF p = "child1" THEN Nap ELSE 0]
  /\ fifo1 = <<>> /\ fifo2 = <<>> /\ left = numbers
  /\ got = <<>>
  /\ result = [c \in Children |-> IF c = "child1" THEN 0 ELSE 1]
  /\ zombies = {} /\ sigchld = FALSE /\ handling = FALSE
  /\ child_count = 0
  /\ collected = [c \in Children |-> IF c = "child1" THEN 0 ELSE 1]
  /\ delay = 0

-----------------------------------------------------------------------------
(* A process goes on, unless it sleeps; signal_handler comes first in the  *)
(* parent.                                                                 *)
At(p, here) == pc[p] = here /\ timer[p] = 0 /\ (p = "parent" => ~sigchld /\ ~handling)

Go(p, there) == pc' = [pc EXCEPT ![p] = there] /\ UNCHANGED timer

Sleep(p, there, seconds) ==
  pc' = [pc EXCEPT ![p] = there] /\ timer' = [timer EXCEPT ![p] = seconds]

(* A child exits: the low byte of its result is kept for its parent, who   *)
(* gets SIGCHLD.                                                           *)
Exit(c) ==
  /\ Go(c, "exited")
  /\ zombies' = zombies \cup {c} /\ sigchld' = TRUE
  /\ UNCHANGED <<handling, child_count, collected>>

-----------------------------------------------------------------------------
(* open of a FIFO waits for the other side's open.                         *)
Opening(p, here, there, others) ==
  /\ At(p, here)
  /\ others
  /\ Go(p, there)
  /\ UNCHANGED <<pipeVars, childVars, signalVars>>

Child1Wakes == Opening("child1", "nap", "open1", TRUE)

Child1Opens == Opening("child1", "open1", "add", pc["parent"] # "start")

(* read until the end of the FIFO: empty, and closed by the parent.        *)
Child1Adds ==
  /\ At("child1", "add")
  /\ IF fifo1 # <<>>
     THEN /\ result' = [result EXCEPT !["child1"] = @ + Head(fifo1).value]
          /\ fifo1' = Tail(fifo1)
          /\ UNCHANGED <<pc, timer>>
     ELSE /\ pc["parent"] \notin {"start", "open1", "open2", "send1"}
          /\ Go("child1", "open2")
          /\ UNCHANGED <<result, fifo1>>
  /\ UNCHANGED <<fifo2, left, got, signalVars>>

Child1OpensSecond == Opening("child1", "open2", "write", pc["child2"] # "start")

Child1Writes ==
  /\ At("child1", "write")
  /\ fifo2' = Append(fifo2, Sum(result["child1"]))
  /\ Go("child1", "exit")
  /\ UNCHANGED <<fifo1, left, childVars, signalVars>>

-----------------------------------------------------------------------------
Child2Starts == Opening("child2", "start", "open2", TRUE)

(* The parent opens the second FIFO before child 1 does.                   *)
Child2Opens ==
  /\ At("child2", "open2")
  /\ pc["parent"] \notin {"start", "open1"}
  /\ Sleep("child2", "read", Nap)
  /\ UNCHANGED <<pipeVars, childVars, signalVars>>

(* total_sum, then the numbers: whatever is in the FIFO, by four bytes.    *)
Child2Reads ==
  /\ At("child2", "read")
  /\ fifo2 # <<>>
  /\ got' = Append(got, Head(fifo2)) /\ fifo2' = Tail(fifo2)
  /\ Go("child2", IF Len(got') = Len(numbers) + 1 THEN "command" ELSE "read")
  /\ UNCHANGED <<fifo1, left, result, signalVars>>

Command == SubSeq(got, Len(numbers) + 2, Len(got))

(* Then nine bytes of command, or less at the end of the FIFO, which does  *)
(* not come: the parent has it open.  If they are "multiply", the numbers  *)
(* are multiplied.                                                         *)
Child2Commanded ==
  /\ At("child2", "command")
  /\ IF BytesOf(Command) < CommandSize
     THEN /\ fifo2 # <<>>
          /\ got' = Append(got, Head(fifo2)) /\ fifo2' = Tail(fifo2)
          /\ UNCHANGED <<pc, timer, result>>
     ELSE /\ result' = [result EXCEPT !["child2"] =
                          IF Command = Multiply
                          THEN ProductOf([i \in 1 .. Len(numbers) |-> got[i + 1].value])
                          ELSE @]
          /\ Go("child2", "exit")
          /\ UNCHANGED <<got, fifo2>>
  /\ UNCHANGED <<fifo1, left, signalVars>>

ChildExits(c) ==
  /\ At(c, "exit")
  /\ Exit(c)
  /\ UNCHANGED <<pipeVars, childVars>>

-----------------------------------------------------------------------------
ParentStarts == Opening("parent", "start", "open1", TRUE)

ParentOpens == Opening("parent", "open1", "open2", pc["child1"] # "nap")

ParentOpensSecond == Opening("parent", "open2", "send1", pc["child2"] # "start")

(* The numbers go to child 1, one write each; then the FIFO is closed.     *)
ParentSends ==
  /\ At("parent", "send1")
  /\ IF left # <<>>
     THEN /\ fifo1' = Append(fifo1, Number(Head(left)))
          /\ left' = Tail(left)
          /\ UNCHANGED <<pc, timer>>
     ELSE /\ left' = numbers
          /\ Go("parent", "nap")
          /\ UNCHANGED fifo1
  /\ UNCHANGED <<fifo2, childVars, signalVars>>

(* Mutant: the parent does not sleep before it sends to child 2.           *)
ParentNapsNot ==
  /\ At("parent", "nap")
  /\ Go("parent", "send2")
  /\ UNCHANGED <<pipeVars, childVars, signalVars>>

(* A SIGCHLD that comes before the call does not shorten the sleep.        *)
ParentNaps ==
  /\ At("parent", "nap")
  /\ Sleep("parent", "send2", Nap)
  /\ UNCHANGED <<pipeVars, childVars, signalVars>>

(* The numbers and the command go to child 2.                              *)
ParentSendsSecond ==
  /\ At("parent", "send2")
  /\ IF left # <<>>
     THEN /\ fifo2' = Append(fifo2, Number(Head(left)))
          /\ left' = Tail(left)
          /\ UNCHANGED pc
     ELSE /\ fifo2' = fifo2 \o Multiply
          /\ pc' = [pc EXCEPT !["parent"] = "proceeding"]
          /\ UNCHANGED left
  /\ UNCHANGED <<timer, fifo1, childVars, signalVars>>

(* while (child_count < 2) sleep(2), after which the parent is through.    *)
proceeding ==
  \/ /\ At("parent", "proceeding")
     /\ Go("parent", IF child_count < 2 THEN "poll" ELSE "goodbye")
     /\ UNCHANGED <<pipeVars, childVars, signalVars>>
  \/ /\ At("parent", "poll")
     /\ Sleep("parent", "proceeding", Poll)
     /\ UNCHANGED <<pipeVars, childVars, signalVars>>

(* SIGCHLD interrupts the parent; a sleep ends, although SA_RESTART is     *)
(* set, and what the parent else blocks in goes on.                        *)
Deliver ==
  /\ sigchld /\ ~handling
  /\ sigchld' = FALSE /\ handling' = TRUE
  /\ timer' = [timer EXCEPT !["parent"] = 0]
  /\ UNCHANGED <<pc, pipeVars, childVars, zombies, child_count, collected>>

(* Mutant: the handler waits for one child and returns.                    *)
signal_handler_once ==
  /\ handling
  /\ handling' = FALSE
  /\ \E c \in zombies :
       /\ zombies' = zombies \ {c}
       /\ child_count' = child_count + 1
       /\ collected' = [collected EXCEPT
            ![IF parity[c] = 0 THEN "child1" ELSE "child2"] = result[c] % 256]
  /\ UNCHANGED <<pc, timer, pipeVars, childVars, sigchld>>

(* Mutant: the loop goes on while waitpid returns 0, for want of a child   *)
(* that has exited, and counts that.                                       *)
signal_handler_polling ==
  /\ handling
  /\ IF zombies = {}
     THEN /\ handling' = (\E c \in Children : pc[c] # "exited")
          /\ child_count' = child_count + (IF handling' THEN 1 ELSE 0)
          /\ UNCHANGED <<zombies, collected>>
     ELSE \E c \in zombies :
            /\ zombies' = zombies \ {c}
            /\ child_count' = child_count + 1
            /\ UNCHANGED <<handling, collected>>
  /\ UNCHANGED <<pc, timer, pipeVars, childVars, sigchld>>

(* Mutant: the exit status is taken without the low byte's limit.          *)
signal_handler_wide ==
  /\ handling
  /\ IF zombies = {}
     THEN handling' = FALSE /\ UNCHANGED <<zombies, child_count, collected>>
     ELSE \E c \in zombies :
            /\ zombies' = zombies \ {c}
            /\ child_count' = child_count + 1
            /\ collected' = [collected EXCEPT ![c] = result[c]]
            /\ UNCHANGED handling
  /\ UNCHANGED <<pc, timer, pipeVars, childVars, sigchld>>

(* One round of the handler's loop: a child's exit status is taken for the *)
(* result of the child whose PID should have its parity.                   *)
signal_handler ==
  /\ handling
  /\ IF zombies = {}
     THEN handling' = FALSE /\ UNCHANGED <<zombies, child_count, collected>>
     ELSE \E c \in zombies :
            /\ zombies' = zombies \ {c}
            /\ child_count' = child_count + 1
            /\ collected' = [collected EXCEPT
                 ![IF parity[c] = 0 THEN "child1" ELSE "child2"] = result[c] % 256]
            /\ UNCHANGED handling
  /\ UNCHANGED <<pc, timer, pipeVars, childVars, sigchld>>

-----------------------------------------------------------------------------
Child1Step ==
  \/ Child1Wakes \/ Child1Opens \/ Child1Adds \/ Child1OpensSecond
  \/ Child1Writes \/ ChildExits("child1")

Child2Step ==
  \/ Child2Starts \/ Child2Opens \/ Child2Reads \/ Child2Commanded \/ ChildExits("child2")

ParentStep ==
  \/ ParentStarts \/ ParentOpens \/ ParentOpensSecond
  \/ ParentSends \/ ParentNaps \/ ParentSendsSecond \/ proceeding
  \/ Deliver \/ signal_handler

Run(step) == step /\ UNCHANGED <<numbers, parity, delay>>

Step == Run(Child1Step) \/ Run(Child2Step) \/ Run(ParentStep)

(* What a process waits for, besides the end of a sleep, has come.         *)
Child1Ready ==
  /\ timer["child1"] = 0
  /\ \/ pc["child1"] \in {"nap", "write", "exit"}
     \/ pc["child1"] = "open1" /\ pc["parent"] # "start"
     \/ /\ pc["child1"] = "add"
        /\ fifo1 # <<>> \/ pc["parent"] \notin {"start", "open1", "open2", "send1"}
     \/ pc["child1"] = "open2" /\ pc["child2"] # "start"

Child2Ready ==
  /\ timer["child2"] = 0
  /\ \/ pc["child2"] \in {"start", "exit"}
     \/ pc["child2"] = "open2" /\ pc["parent"] \notin {"start", "open1"}
     \/ pc["child2"] \in {"read", "command"} /\ fifo2 # <<>>
     \/ pc["child2"] = "command" /\ BytesOf(Command) >= CommandSize

ParentReady ==
  \/ sigchld \/ handling
  \/ /\ timer["parent"] = 0
     /\ \/ pc["parent"] \in {"start", "send1", "nap", "send2", "proceeding", "poll"}
        \/ pc["parent"] = "open1" /\ pc["child1"] # "nap"
        \/ pc["parent"] = "open2" /\ pc["child2"] # "start"

Ready == Child1Ready \/ Child2Ready \/ ParentReady

(* A second passes.  If a process could run (ENABLED Step), it has been    *)
(* delayed.                                                                *)
Tick ==
  /\ IF Ready
     THEN delay < MaxDelay /\ delay' = delay + 1
     ELSE (\E p \in Processes : timer[p] > 0) /\ UNCHANGED delay
  /\ timer' = [p \in Processes |-> IF timer[p] > 0 THEN timer[p] - 1 ELSE 0]
  /\ UNCHANGED <<numbers, parity, pc, pipeVars, childVars, signalVars>>

Next == Step \/ Tick

Spec == Init /\ [][Next]_vars

(* The scheduler runs every process, and time passes.                      *)
FairSpec == /\ Spec
            /\ WF_vars(Run(Child1Step)) /\ WF_vars(Run(Child2Step))
            /\ WF_vars(Run(ParentStep)) /\ WF_vars(Tick)

-----------------------------------------------------------------------------
TypeOK ==
  /\ pc \in [Processes -> {"nap", "start", "open1", "open2", "add", "write", "read",
                            "command", "send1", "send2", "proceeding", "poll",
                            "goodbye", "exit", "exited"}]
  /\ timer \in [Processes -> 0 .. Nap]
  /\ zombies \subseteq Children
  /\ sigchld \in BOOLEAN /\ handling \in BOOLEAN
  /\ child_count \in 0 .. 2
  /\ delay \in 0 .. MaxDelay

(* As long as the scheduler has not held processes up for ten seconds in   *)
(* all, child 2 reads child 1's sum before the parent's numbers and ends   *)
(* with the sum and the product of the parent's array: although child 1's  *)
(* exit cuts the parent's sleep short, and nothing else keeps the two      *)
(* writers of the FIFO apart.                                              *)
FinalResult ==
  delay < Nap =>
    /\ got # <<>> => got[1] = Sum(SumOf(numbers))
    /\ pc["child2"] \in {"exit", "exited"} => result["child2"] = ProductOf(numbers)

(* Every child that has exited is counted, or the handler is about to see  *)
(* it: one signal may stand for both children, and none is counted twice.  *)
Reaped ==
  /\ zombies # {} => sigchld \/ handling
  /\ child_count + Cardinality(zombies) = Cardinality({c \in Children : pc[c] = "exited"})

(* The parent has a child's result, the low byte of it, under the name     *)
(* that goes with the parity of the child's PID, unless the other child's  *)
(* PID has the same one and takes its place.                               *)
ResultsByParity ==
  parity["child1"] # parity["child2"] =>
    \A c \in Children :
      pc[c] = "exited" /\ c \notin zombies =>
        collected[IF parity[c] = 0 THEN "child1" ELSE "child2"] = result[c] % 256

(* The parent says goodbye, however late each process is.                  *)
Goodbye == <>(pc["parent"] = "goodbye")
=============================================================================
