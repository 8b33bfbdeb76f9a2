----------------------------- MODULE FileServer -----------------------------
(***************************************************************************)
(* The file server of midterm/server/server.c with midterm/client/client.c:*)
(* clients queue on the server's FIFO, the server gives each a slot of     *)
(* pid_array and forks a child for it, and client and child take turns on  *)
(* the client's FIFO by means of a System V semaphore.                     *)
(*                                                                         *)
(* A client is its PID p; p and p + 1 are the keys of its semaphores semid *)
(* and semid2.  A post hands the semaphore to a process that sleeps on it, *)
(* as semop does, and otherwise leaves it to whoever asks first.           *)
(***************************************************************************)
EXTENDS Integers, Sequences, FiniteSets

CONSTANTS
  Clients,          \* PIDs of clients
  NoClient,         \* a free slot of pid_array
  ArraySize,        \* of pid_array: 3
  Behind,           \* integers of unused memory behind it: 3 as the makefile builds
  Sizes,            \* the values of number_of_clients to start the server with
  Patient,          \* clients whose option is connect or tryConnect
  Commands,         \* what users may type
  MaxCommands,      \* bound of the model: commands per client before quit
  Mortal,           \* clients that may be interrupted
  SigInt            \* whether the server may be interrupted

(* "plain" gets a response; "silent" (list, readF) has no output;          *)
(* "bare" is archServer without a file name.                               *)
CommandKinds == {"plain", "silent", "bare", "killServer", "quit"}
Response == "response"

ASSUME ServerAssumption ==
  /\ Clients \subseteq Nat \ {0} /\ IsFiniteSet(Clients)
  /\ NoClient \notin Clients
  /\ ArraySize \in Nat /\ Behind \in Nat
  /\ Sizes \subseteq Int
  /\ Patient \subseteq Clients /\ Mortal \subseteq Clients
  /\ Commands \subseteq CommandKinds \ {"quit"}
  /\ MaxCommands \in Nat
  /\ SigInt \in BOOLEAN

VARIABLES
  number_of_clients,
  up, listening,     \* the server runs; its FIFO exists
  requests,          \* the server's FIFO
  current,           \* the request the server handles, or NoClient
  i,                 \* its loop index, 0 when it waits for requests
  pid_array,
  snapshot,          \* pid_array in each child
  sem,
  pc, child,         \* where each client and its child are
  fifo,              \* each client's FIFO
  typed, executed, echoed,  \* history: commands written, executed, read back unexecuted
  lost               \* history: clients whose request the server has discarded

hostVars == <<number_of_clients, up, listening>>
loopVars == <<requests, current, i, lost>>
tableVars == <<pid_array, snapshot>>
serverVars == <<hostVars, loopVars, tableVars>>
histVars == <<typed, executed, echoed>>
vars == <<serverVars, sem, pc, child, fifo, histVars>>

Slots == 1 .. ArraySize

(* What the loop takes for slots: nobody compares number_of_clients with   *)
(* the size of pid_array, and the memory behind it is zero like the array. *)
(* Behind that is server_fifo; a loop that gets there is not followed.     *)
Cells == 1 .. ArraySize + Behind
Keys == Clients \cup {c + 1 : c \in Clients}

ClientPc == {"start", "ready", "ready_sleep", "prompt", "post", "post_quit", "turn", "turn_sleep",
             "read", "gone"}
ChildPc == {"none", "setup", "turn", "turn_sleep", "read", "stuck", "dead"}

TypeOK ==
  /\ number_of_clients \in Sizes
  /\ up \in BOOLEAN /\ listening \in BOOLEAN
  /\ requests \in Seq(Clients)
  /\ current \in Clients \cup {NoClient}
  /\ i \in 0 .. ArraySize + Behind + 1
  /\ pid_array \in [Cells -> Clients \cup {NoClient}]
  /\ \A s \in Cells : s > number_of_clients => pid_array[s] = NoClient
  /\ snapshot \in [Clients -> [Cells -> Clients \cup {NoClient}]]
  /\ sem \in [Keys -> Nat]
  /\ pc \in [Clients -> ClientPc] /\ child \in [Clients -> ChildPc]
  /\ fifo \in [Clients -> Seq(CommandKinds \cup {Response})]
  /\ typed \in [Clients -> Nat] /\ executed \in [Clients -> Nat] /\ echoed \in [Clients -> Nat]
  /\ lost \subseteq Clients

Free == [s \in Cells |-> NoClient]

Init ==
  /\ number_of_clients \in Sizes
  /\ up = TRUE /\ listening = TRUE
  /\ requests = <<>> /\ current = NoClient /\ i = 0
  /\ pid_array = Free /\ snapshot = [c \in Clients |-> Free]
  /\ sem = [k \in Keys |-> 0]
  /\ pc = [c \in Clients |-> "start"] /\ child = [c \in Clients |-> "none"]
  /\ fifo = [c \in Clients |-> <<>>]
  /\ typed = [c \in Clients |-> 0] /\ executed = typed /\ echoed = typed
  /\ lost = {}
-----------------------------------------------------------------------------
(* System V semaphores.                                                    *)

(* semop(+1) on key k, as pc and child become p and q: it wakes a client   *)
(* that sleeps on semid, or a client or a child that sleeps on semid2.     *)
Post(k, p, q) ==
  LET ready == {c \in Clients : p[c] = "ready_sleep" /\ k = c}
      turn == {c \in Clients : p[c] = "turn_sleep" /\ k = c + 1}
      childTurn == {c \in Clients : q[c] = "turn_sleep" /\ k = c + 1}
  IN  \/ /\ ready \cup turn \cup childTurn = {}
         /\ sem' = [sem EXCEPT ![k] = @ + 1]
         /\ pc' = p /\ child' = q
      \/ /\ \E c \in ready : pc' = [p EXCEPT ![c] = "prompt"]
         /\ child' = q /\ UNCHANGED sem
      \/ /\ \E c \in turn : pc' = [p EXCEPT ![c] = "read"]
         /\ child' = q /\ UNCHANGED sem
      \/ /\ \E c \in childTurn : child' = [q EXCEPT ![c] = "read"]
         /\ pc' = p /\ UNCHANGED sem

(* semop(-1) on key k: the caller passes, or sleeps.                       *)
Wait(k) == sem' = [sem EXCEPT ![k] = IF @ > 0 THEN @ - 1 ELSE @]
Passes(k, awake, asleep) == IF sem[k] > 0 THEN awake ELSE asleep
-----------------------------------------------------------------------------
(* The client.                                                             *)

(* Mutant: semid2 starts with one token.                                   *)
ClientStartsWithToken(c) ==
  /\ pc[c] = "start"
  /\ listening
  /\ sem' = [sem EXCEPT ![c] = 0, ![c + 1] = 1]
  /\ requests' = Append(requests, c)
  /\ pc' = [pc EXCEPT ![c] = "ready"]
  /\ UNCHANGED <<hostVars, current, i, lost, tableVars, child, fifo, histVars>>

(* Both semaphores are set to 0; then the server's FIFO is opened, if it   *)
(* exists, and the request written.                                        *)
ClientStarts(c) ==
  /\ pc[c] = "start"
  /\ sem' = [sem EXCEPT ![c] = 0, ![c + 1] = 0]
  /\ \/ /\ listening
        /\ requests' = Append(requests, c)
        /\ pc' = [pc EXCEPT ![c] = "ready"]
     \/ /\ ~listening
        /\ pc' = [pc EXCEPT ![c] = "gone"]
        /\ UNCHANGED requests
  /\ UNCHANGED <<hostVars, current, i, lost, tableVars, child, fifo, histVars>>

ClientWaitsReady(c) ==
  /\ pc[c] = "ready"
  /\ Wait(c)
  /\ pc' = [pc EXCEPT ![c] = Passes(c, "prompt", "ready_sleep")]
  /\ UNCHANGED <<serverVars, child, fifo, histVars>>

(* A command is typed and written to the client's FIFO.                    *)
ClientTypes(c, command) ==
  /\ pc[c] = "prompt"
  /\ IF command = "quit" THEN TRUE ELSE typed[c] < MaxCommands
  /\ fifo' = [fifo EXCEPT ![c] = Append(@, command)]
  /\ typed' = [typed EXCEPT ![c] = @ + 1]
  /\ pc' = [pc EXCEPT ![c] = IF command = "quit" THEN "post_quit" ELSE "post"]
  /\ UNCHANGED <<serverVars, sem, child, executed, echoed>>

(* semaphore_signal(semid2); after quit the client leaves.                 *)
ClientPosts(c) ==
  \/ /\ pc[c] = "post"
     /\ Post(c + 1, [pc EXCEPT ![c] = "turn"], child)
     /\ UNCHANGED <<serverVars, fifo, histVars>>
  \/ /\ pc[c] = "post_quit"
     /\ Post(c + 1, [pc EXCEPT ![c] = "gone"], child)
     /\ UNCHANGED <<serverVars, fifo, histVars>>

(* semaphore_wait(semid2).                                                 *)
ClientWaits(c) ==
  /\ pc[c] = "turn"
  /\ Wait(c + 1)
  /\ pc' = [pc EXCEPT ![c] = Passes(c + 1, "read", "turn_sleep")]
  /\ UNCHANGED <<serverVars, child, fifo, histVars>>

(* Whatever the FIFO holds is displayed as the server's response.          *)
ClientReads(c) ==
  /\ pc[c] = "read"
  /\ fifo[c] # <<>>
  /\ echoed' = [echoed EXCEPT ![c] = IF Head(fifo[c]) = Response THEN @ ELSE @ + 1]
  /\ fifo' = [fifo EXCEPT ![c] = <<>>]
  /\ pc' = [pc EXCEPT ![c] = "prompt"]
  /\ UNCHANGED <<serverVars, sem, child, typed, executed>>

ClientDies(c) ==
  /\ c \in Mortal
  /\ pc[c] \notin {"start", "gone"}
  /\ pc' = [pc EXCEPT ![c] = "gone"]
  /\ UNCHANGED <<serverVars, sem, child, fifo, histVars>>
-----------------------------------------------------------------------------
(* The server's loop.                                                      *)

(* read returns all the requests that are in the FIFO; strtok keeps the    *)
(* first, the others are overwritten.                                      *)
ServerReads ==
  /\ up /\ i = 0
  /\ requests # <<>>
  /\ current' = Head(requests)
  /\ lost' = lost \cup {requests[k] : k \in 2 .. Len(requests)}
  /\ requests' = <<>>
  /\ i' = 1
  /\ UNCHANGED <<hostVars, tableVars, sem, pc, child, fifo, histVars>>

(* kill(pid, 0) succeeds for a process that is there, and for pid 0.       *)
Alive(c) == pc[c] # "gone"
FreeSlot(s) == pid_array[s] \in {NoClient} \cup {c \in Clients : ~Alive(c)}

(* Mutant: the child is forked before the slot is assigned.                *)
ServerForksFirst ==
  /\ up /\ i \in Cells /\ i <= number_of_clients
  /\ FreeSlot(i)
  /\ pid_array' = [pid_array EXCEPT ![i] = current]
  /\ snapshot' = [snapshot EXCEPT ![current] = pid_array]
  /\ child' = [child EXCEPT ![current] = "setup"]
  /\ current' = NoClient /\ i' = 0
  /\ UNCHANGED <<hostVars, requests, lost, sem, pc, fifo, histVars>>

(* Mutant: the loop runs one slot too far.                                 *)
ServerProbesTooFar ==
  /\ up /\ i \in Cells /\ i <= number_of_clients + 1
  /\ FreeSlot(i)
  /\ pid_array' = [pid_array EXCEPT ![i] = current]
  /\ snapshot' = [snapshot EXCEPT ![current] = pid_array']
  /\ child' = [child EXCEPT ![current] = "setup"]
  /\ current' = NoClient /\ i' = 0
  /\ UNCHANGED <<hostVars, requests, lost, sem, pc, fifo, histVars>>

(* A free slot is found: the client is entered and its child forked, with  *)
(* a copy of the array.                                                    *)
ServerAssigns ==
  /\ up /\ i \in Cells /\ i <= number_of_clients
  /\ FreeSlot(i)
  /\ pid_array' = [pid_array EXCEPT ![i] = current]
  /\ snapshot' = [snapshot EXCEPT ![current] = pid_array']
  /\ child' = [child EXCEPT ![current] = "setup"]
  /\ current' = NoClient /\ i' = 0
  /\ UNCHANGED <<hostVars, requests, lost, sem, pc, fifo, histVars>>

ServerProbesOn ==
  /\ up /\ i \in Cells /\ i <= number_of_clients
  /\ ~FreeSlot(i)
  /\ i' = i + 1
  /\ UNCHANGED <<hostVars, requests, current, lost, tableVars, sem, pc, child, fifo, histVars>>

(* Mutant: after the sleep the slots are not probed again.                 *)
ServerOnlySleeps ==
  /\ up /\ i > 0 /\ i > number_of_clients
  /\ current \notin Patient
  /\ lost' = lost \cup {current} /\ current' = NoClient /\ i' = 0
  /\ UNCHANGED <<hostVars, requests, tableVars, sem, pc, child, fifo, histVars>>

(* No slot is free: sleep and probe again, or drop the request.            *)
ServerFull ==
  /\ up /\ i > 0 /\ i > number_of_clients
  /\ IF current \in Patient
       THEN i' = 1 /\ UNCHANGED <<current, lost>>
       ELSE lost' = lost \cup {current} /\ current' = NoClient /\ i' = 0
  /\ UNCHANGED <<hostVars, requests, tableVars, sem, pc, child, fifo, histVars>>

(* SIGINT, which a terminal sends to the server and all its children:      *)
(* every handler kills the clients of its table, and all exit.             *)
signal_handler ==
  /\ SigInt /\ up
  /\ up' = FALSE /\ listening' = FALSE
  /\ pc' = [c \in Clients |-> IF \E s \in Cells : pid_array[s] = c THEN "gone" ELSE pc[c]]
  /\ child' = [c \in Clients |-> IF child[c] = "none" THEN "none" ELSE "dead"]
  /\ UNCHANGED <<number_of_clients, loopVars, tableVars, sem, fifo, histVars>>
-----------------------------------------------------------------------------
(* A child.                                                                *)

(* The client's FIFO is made and semid posted.                             *)
ChildReady(c) ==
  /\ child[c] = "setup"
  /\ Post(c, pc, [child EXCEPT ![c] = "turn"])
  /\ UNCHANGED <<serverVars, fifo, histVars>>

ChildWaits(c) ==
  /\ child[c] = "turn"
  /\ Wait(c + 1)
  /\ child' = [child EXCEPT ![c] = Passes(c + 1, "read", "turn_sleep")]
  /\ UNCHANGED <<serverVars, pc, fifo, histVars>>

Reads(c, kinds) == child[c] = "read" /\ fifo[c] # <<>> /\ Head(fifo[c]) \in kinds
Executes(c) == executed' = [executed EXCEPT ![c] = @ + 1] /\ UNCHANGED <<typed, echoed>>

(* Mutant: the response is written but not signalled.                      *)
ChildServesSilently(c) ==
  /\ Reads(c, {"plain", "quit"})
  /\ Executes(c)
  /\ fifo' = [fifo EXCEPT ![c] = <<Response>>]
  /\ child' = [child EXCEPT ![c] = "turn"]
  /\ UNCHANGED <<serverVars, pc, sem>>

(* Mutant: the command is executed by two of the child's children.         *)
ChildServesTwice(c) ==
  /\ Reads(c, {"plain", "quit"})
  /\ executed' = [executed EXCEPT ![c] = @ + 2] /\ UNCHANGED <<typed, echoed>>
  /\ fifo' = [fifo EXCEPT ![c] = <<Response>>]
  /\ Post(c + 1, pc, [child EXCEPT ![c] = "turn"])
  /\ UNCHANGED serverVars

(* A command is executed, its response written and semid2 posted.          *)
ChildServes(c) ==
  /\ Reads(c, {"plain", "quit"})
  /\ Executes(c)
  /\ fifo' = [fifo EXCEPT ![c] = <<Response>>]
  /\ Post(c + 1, pc, [child EXCEPT ![c] = "turn"])
  /\ UNCHANGED serverVars

(* Without output, read(fds[0]) never returns, the child itself holding    *)
(* the pipe's other end; archServer without a name ends in strlen(NULL).   *)
ChildStops(c) ==
  /\ Executes(c)
  /\ fifo' = [fifo EXCEPT ![c] = <<>>]
  /\ \/ Reads(c, {"silent"}) /\ child' = [child EXCEPT ![c] = "stuck"]
     \/ Reads(c, {"bare"}) /\ child' = [child EXCEPT ![c] = "dead"]
  /\ UNCHANGED <<serverVars, pc, sem>>

(* The child has taken back the turn it gave: it reads the beginning of    *)
(* its own response, which is taken to be no command, so that there is no  *)
(* output.                                                                 *)
ChildReadsResponse(c) ==
  /\ Reads(c, {Response})
  /\ child' = [child EXCEPT ![c] = "stuck"]
  /\ UNCHANGED <<serverVars, sem, pc, fifo, histVars>>

(* killServer signals the PIDs of the child's table in turn; PID 0 is the  *)
(* process group, with the server, its children and this child.  With no   *)
(* free slot in the table, the server is never signalled.                  *)
KillServer(c) ==
  LET table == snapshot[c]
      zeros == {s \in Slots : table[s] = NoClient}
      killed == {table[s] : s \in {t \in Slots : \A z \in zeros : t < z}}
      p == [d \in Clients |-> IF d \in killed THEN "gone" ELSE pc[d]]
  IN  /\ Reads(c, {"killServer"})
      /\ Executes(c)
      /\ listening' = FALSE
      /\ \/ /\ zeros # {}
            /\ up' = FALSE
            /\ pc' = p
            /\ child' = [d \in Clients |-> IF child[d] = "none" THEN "none" ELSE "dead"]
            /\ fifo' = [fifo EXCEPT ![c] = <<>>]
            /\ UNCHANGED sem
         \/ /\ zeros = {}
            /\ fifo' = [fifo EXCEPT ![c] = <<Response>>]
            /\ Post(c + 1, p, [child EXCEPT ![c] = "turn"])
            /\ UNCHANGED up
      /\ UNCHANGED <<number_of_clients, loopVars, tableVars>>
-----------------------------------------------------------------------------
ServerStep == ServerReads \/ ServerAssigns \/ ServerProbesOn \/ ServerFull
ChildStep(c) == \/ ChildReady(c) \/ ChildWaits(c) \/ ChildServes(c) \/ ChildStops(c)
                \/ ChildReadsResponse(c) \/ KillServer(c)
ClientStep(c) == ClientWaitsReady(c) \/ ClientPosts(c) \/ ClientWaits(c) \/ ClientReads(c)

Next ==
  \/ ServerStep \/ signal_handler
  \/ \E c \in Clients : \/ ClientStarts(c) \/ ClientStep(c) \/ ClientDies(c) \/ ChildStep(c)
                        \/ \E command \in Commands \cup {"quit"} : ClientTypes(c, command)

Spec == Init /\ [][Next]_vars

(* Every process that can run is scheduled; users type what and when they  *)
(* like.                                                                   *)
Fairness ==
  /\ WF_vars(ServerStep)
  /\ \A c \in Clients : WF_vars(ClientStep(c)) /\ WF_vars(ChildStep(c))
FairSpec == Spec /\ Fairness
-----------------------------------------------------------------------------
(***************************************************************************)
(* Properties                                                              *)
(***************************************************************************)

(* No PID follows another's, so no two semaphores share a key.             *)
KeysApart == \A c \in Clients : c + 1 \notin Clients

(* TurnTaking.  At most one of a client and its child has the turn to use  *)
(* the client's FIFO, counting a turn nobody has taken yet; and while there*)
(* is a turn, the FIFO holds one message, so nobody reads an empty one.    *)
Turns(c) == sem[c + 1] + (IF pc[c] = "read" THEN 1 ELSE 0)
                       + (IF child[c] = "read" THEN 1 ELSE 0)
TurnTaking ==
  KeysApart => \A c \in Clients : Turns(c) <= 1 /\ (Turns(c) = 1 => Len(fifo[c]) = 1)

(* SlotOwner.  As long as the server runs, a living client that has been   *)
(* given a child has exactly one slot, the one its child believes it has.  *)
SlotOwner ==
  up => \A c \in Clients : child[c] # "none" /\ Alive(c) =>
          \E s \in Cells :
            /\ s <= number_of_clients /\ snapshot[c][s] = c
            /\ \A t \in Cells : pid_array[t] = c <=> t = s

(* CommandAccounting.  Every command written is waiting in the FIFO, or    *)
(* has been executed once, or has been read back by the client: no command *)
(* is executed twice, or executed and also read back.                      *)
Unread(c) == Cardinality({k \in 1 .. Len(fifo[c]) : fifo[c][k] # Response})
CommandAccounting ==
  KeysApart => \A c \in Clients : typed[c] = executed[c] + echoed[c] + Unread(c)

(* QueueMoves.  A patient client in the queue gets its prompt, unless it   *)
(* or the server ends, its request was in the same read as another's, or   *)
(* living clients hold all slots for ever.                                 *)
AllTaken == \A s \in Cells : s <= number_of_clients => ~FreeSlot(s)
QueueMoves ==
  \A c \in Patient :
    [](pc[c] = "ready" =>
         <>(pc[c] \in {"prompt", "gone"} \/ c \in lost \/ ~up \/ []AllTaken))

(* Answered.  A client that has posted a command that has output reads the *)
(* response, unless one of the two takes the turn that it has just given:  *)
(* then the client reads its own command, or the child its own response,   *)
(* which leaves the client waiting.  Or it leaves, or its child is killed. *)
TakesOwnTurn(c) ==
  \/ pc[c] = "read" /\ fifo[c] # <<>> /\ Head(fifo[c]) # Response
  \/ Reads(c, {Response})
ReadsResponse(c) == pc[c] = "read" /\ fifo[c] # <<>> /\ Head(fifo[c]) = Response
Answered ==
  \A c \in Clients :
    pc[c] = "post" /\ fifo[c] = <<"plain">>
      ~> ReadsResponse(c) \/ TakesOwnTurn(c) \/ pc[c] = "gone" \/ child[c] = "dead"

(* Connected.  A client that waits in the queue ("Waiting for Que...")     *)
(* gets its prompt or leaves.                                              *)
Connected == \A c \in Clients : pc[c] = "ready" ~> pc[c] \in {"prompt", "gone"}
=============================================================================
