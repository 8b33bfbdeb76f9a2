-------------------------- MODULE FileServer_proofs --------------------------
(***************************************************************************)
(* Proofs about FileServer, for any set of clients, any size of pid_array  *)
(* and any number of commands.                                             *)
(***************************************************************************)
EXTENDS FileServer, FiniteSetTheorems, SequenceTheorems, TLAPS

LEMMA KeyFacts ==
  ASSUME NEW c \in Clients
  PROVE  c \in Nat /\ c # 0 /\ c \in Keys /\ c + 1 \in Keys
  BY ServerAssumption DEF Keys

PcType == pc \in [Clients -> ClientPc] /\ child \in [Clients -> ChildPc] /\ sem \in [Keys -> Nat]

(* A post and a wait keep the types of the program counters and semaphores.*)
LEMMA PostType ==
  ASSUME PcType, NEW k \in Keys,
         NEW p \in [Clients -> ClientPc], NEW q \in [Clients -> ChildPc], Post(k, p, q)
  PROVE  PcType'
  BY DEF PcType, Post, ClientPc, ChildPc

LEMMA WaitType ==
  ASSUME sem \in [Keys -> Nat], NEW k \in Keys, Wait(k)
  PROVE  sem' \in [Keys -> Nat]
  BY DEF Wait

LEMMA FreeType == Free \in [Cells -> Clients \cup {NoClient}]
  BY DEF Free

(* The part of the state that only the server's loop writes.               *)
ServerType ==
  /\ number_of_clients \in Sizes
  /\ up \in BOOLEAN /\ listening \in BOOLEAN
  /\ requests \in Seq(Clients)
  /\ current \in Clients \cup {NoClient}
  /\ i \in 0 .. ArraySize + Behind + 1
  /\ pid_array \in [Cells -> Clients \cup {NoClient}]
  /\ \A s \in Cells : s > number_of_clients => pid_array[s] = NoClient
  /\ snapshot \in [Clients -> [Cells -> Clients \cup {NoClient}]]
  /\ lost \subseteq Clients
  /\ i > 0 => current \in Clients

FifoType ==
  /\ fifo \in [Clients -> Seq(CommandKinds \cup {Response})]
  /\ typed \in [Clients -> Nat] /\ executed \in [Clients -> Nat] /\ echoed \in [Clients -> Nat]

TypeInv == ServerType /\ PcType /\ FifoType

LEMMA TypeInit == Init => TypeInv
<1> SUFFICES ASSUME Init PROVE TypeInv
  OBVIOUS
<1>1. ServerType
  BY FreeType, ServerAssumption DEF Init, ServerType, Free, Cells
<1>2. PcType /\ FifoType
  BY DEF Init, PcType, FifoType, ClientPc, ChildPc
<1> QED BY <1>1, <1>2 DEF TypeInv

LEMMA ServerTypeStep == TypeInv /\ [Next]_vars => ServerType'
<1> SUFFICES ASSUME TypeInv, [Next]_vars PROVE ServerType'
  OBVIOUS
<1> USE DEF TypeInv
<1>0. number_of_clients \in Int /\ ArraySize \in Nat /\ Behind \in Nat
  BY ServerAssumption DEF ServerType
<1>1. CASE ServerReads
  BY <1>0, <1>1 DEF ServerReads, ServerType, hostVars, tableVars
<1>2. CASE ServerAssigns
  <2>1. i \in Cells /\ i <= number_of_clients /\ current \in Clients
    BY <1>0, <1>2 DEF ServerAssigns, ServerType, Cells
  <2>2. pid_array' \in [Cells -> Clients \cup {NoClient}]
    BY <1>2, <2>1 DEF ServerAssigns, ServerType
  <2>3. \A s \in Cells : s > number_of_clients' => pid_array'[s] = NoClient
    BY <1>0, <1>2, <2>1 DEF ServerAssigns, ServerType, hostVars, Cells
  <2>4. snapshot' \in [Clients -> [Cells -> Clients \cup {NoClient}]]
    BY <1>2, <2>2 DEF ServerAssigns, ServerType
  <2> QED BY <1>0, <1>2, <2>2, <2>3, <2>4 DEF ServerAssigns, ServerType, hostVars
<1>3. CASE ServerProbesOn
  BY <1>0, <1>3 DEF ServerProbesOn, ServerType, hostVars, tableVars, Cells
<1>4. CASE ServerFull
  <2>1. current \in Clients
    BY <1>0, <1>4 DEF ServerFull, ServerType
  <2> QED BY <1>0, <1>4, <2>1 DEF ServerFull, ServerType, hostVars, tableVars
<1>5. CASE signal_handler
  BY <1>5 DEF signal_handler, ServerType, loopVars, tableVars
<1>6. ASSUME NEW c \in Clients, ClientStarts(c) PROVE ServerType'
  <2>1. requests' = Append(requests, c) \/ requests' = requests
    BY <1>6 DEF ClientStarts
  <2>2. requests' \in Seq(Clients)
    BY <2>1 DEF ServerType
  <2>3. UNCHANGED <<hostVars, current, i, lost, tableVars>>
    BY <1>6 DEF ClientStarts
  <2> QED BY <2>2, <2>3 DEF ServerType, hostVars, tableVars
<1>7. ASSUME NEW c \in Clients,
             ClientStep(c) \/ ClientDies(c) \/ \E command \in Commands \cup {"quit"} : ClientTypes(c, command)
      PROVE  ServerType'
  BY <1>7 DEF ClientStep, ClientWaitsReady, ClientPosts, ClientWaits, ClientReads, ClientDies,
              ClientTypes, ServerType, serverVars, hostVars, loopVars, tableVars
<1>8. ASSUME NEW c \in Clients, ChildStep(c) PROVE ServerType'
  <2>1. CASE KillServer(c)
    BY <2>1 DEF KillServer, ServerType, loopVars, tableVars
  <2>2. CASE ~KillServer(c)
    BY <1>8, <2>2 DEF ChildStep, ChildReady, ChildWaits, ChildServes, ChildStops,
                 ChildReadsResponse, ServerType, serverVars, hostVars, loopVars, tableVars
  <2> QED BY <2>1, <2>2
<1>9. CASE UNCHANGED vars
  BY <1>9 DEF vars, ServerType, serverVars, hostVars, loopVars, tableVars
<1> QED BY <1>1, <1>2, <1>3, <1>4, <1>5, <1>6, <1>7, <1>8, <1>9 DEF Next, ServerStep

LEMMA PcTypeStep == TypeInv /\ [Next]_vars => PcType'
<1> SUFFICES ASSUME TypeInv, [Next]_vars PROVE PcType'
  OBVIOUS
<1> USE DEF TypeInv
<1>1. CASE ServerStep
  BY <1>1 DEF ServerStep, ServerReads, ServerAssigns, ServerProbesOn, ServerFull, PcType, ChildPc
<1>2. CASE signal_handler
  BY <1>2 DEF signal_handler, PcType, ClientPc, ChildPc
<1>3. ASSUME NEW c \in Clients, ClientStarts(c) PROVE PcType'
  BY <1>3, KeyFacts DEF ClientStarts, PcType, ClientPc
<1>4. ASSUME NEW c \in Clients, ClientStep(c) PROVE PcType'
  <2>1. CASE ClientWaitsReady(c)
    BY <2>1, KeyFacts, WaitType DEF ClientWaitsReady, Passes, PcType, ClientPc
  <2>2. CASE ClientPosts(c)
    <3>1. /\ [pc EXCEPT ![c] = "turn"] \in [Clients -> ClientPc]
          /\ [pc EXCEPT ![c] = "gone"] \in [Clients -> ClientPc]
      BY DEF PcType, ClientPc
    <3>2. child \in [Clients -> ChildPc] /\ c + 1 \in Keys
      BY KeyFacts DEF PcType
    <3> QED BY <2>2, <3>1, <3>2, PostType DEF ClientPosts
  <2>3. CASE ClientWaits(c)
    BY <2>3, KeyFacts, WaitType DEF ClientWaits, Passes, PcType, ClientPc
  <2>4. CASE ClientReads(c)
    BY <2>4 DEF ClientReads, PcType, ClientPc
  <2> QED BY <1>4, <2>1, <2>2, <2>3, <2>4 DEF ClientStep
<1>5. ASSUME NEW c \in Clients,
             ClientDies(c) \/ \E command \in Commands \cup {"quit"} : ClientTypes(c, command)
      PROVE  PcType'
  BY <1>5 DEF ClientDies, ClientTypes, PcType, ClientPc
<1>6. ASSUME NEW c \in Clients, ChildStep(c) PROVE PcType'
  <2>0. /\ pc \in [Clients -> ClientPc] /\ c \in Keys /\ c + 1 \in Keys
        /\ [child EXCEPT ![c] = "turn"] \in [Clients -> ChildPc]
    BY KeyFacts DEF PcType, ChildPc
  <2>1. CASE ChildReady(c)
    BY <2>0, <2>1, PostType DEF ChildReady
  <2>2. CASE ChildWaits(c)
    BY <2>0, <2>2, WaitType DEF ChildWaits, Passes, PcType, ChildPc
  <2>3. CASE ChildServes(c)
    BY <2>0, <2>3, PostType DEF ChildServes
  <2>4. CASE ChildStops(c) \/ ChildReadsResponse(c)
    BY <2>4 DEF ChildStops, ChildReadsResponse, PcType, ChildPc
  <2>5. CASE KillServer(c)
    <3> DEFINE zeros == {s \in Slots : snapshot[c][s] = NoClient}
               killed == {snapshot[c][s] : s \in {t \in Slots : \A z \in zeros : t < z}}
               p == [d \in Clients |-> IF d \in killed THEN "gone" ELSE pc[d]]
    <3>1. p \in [Clients -> ClientPc]
      BY DEF PcType, ClientPc
    <3>2. CASE /\ pc' = p
               /\ child' = [d \in Clients |-> IF child[d] = "none" THEN "none" ELSE "dead"]
               /\ sem' = sem
      BY <3>1, <3>2 DEF PcType, ChildPc
    <3>3. CASE Post(c + 1, p, [child EXCEPT ![c] = "turn"])
      BY <2>0, <3>1, <3>3, PostType
    <3> QED BY <2>5, <3>2, <3>3 DEF KillServer
  <2> QED BY <1>6, <2>1, <2>2, <2>3, <2>4, <2>5 DEF ChildStep
<1>7. CASE UNCHANGED vars
  BY <1>7 DEF vars, PcType
<1> QED BY <1>1, <1>2, <1>3, <1>4, <1>5, <1>6, <1>7 DEF Next

LEMMA FifoTypeStep == TypeInv /\ [Next]_vars => FifoType'
<1> SUFFICES ASSUME TypeInv, [Next]_vars PROVE FifoType'
  OBVIOUS
<1> USE DEF TypeInv
<1>0. /\ <<>> \in Seq(CommandKinds \cup {Response})
      /\ <<Response>> \in Seq(CommandKinds \cup {Response})
  OBVIOUS
<1>1. CASE ServerStep
  BY <1>1 DEF ServerStep, ServerReads, ServerAssigns, ServerProbesOn, ServerFull, FifoType, histVars
<1>2. CASE signal_handler
  BY <1>2 DEF signal_handler, FifoType, histVars
<1>3. ASSUME NEW c \in Clients, ClientStarts(c) \/ ClientDies(c) PROVE FifoType'
  BY <1>3 DEF ClientStarts, ClientDies, FifoType, histVars
<1>4. ASSUME NEW c \in Clients, ClientStep(c) PROVE FifoType'
  <2>1. CASE ClientReads(c)
    <3>1. fifo' \in [Clients -> Seq(CommandKinds \cup {Response})]
      BY <2>1, <1>0 DEF ClientReads, FifoType
    <3>2. echoed' \in [Clients -> Nat]
      BY <2>1 DEF ClientReads, FifoType
    <3> QED BY <2>1, <3>1, <3>2 DEF ClientReads, FifoType
  <2>2. CASE ~ClientReads(c)
    BY <1>4, <2>2 DEF ClientStep, ClientWaitsReady, ClientPosts, ClientWaits, FifoType, histVars
  <2> QED BY <2>1, <2>2
<1>5. ASSUME NEW c \in Clients, NEW command \in Commands \cup {"quit"}, ClientTypes(c, command)
      PROVE  FifoType'
  <2>1. command \in CommandKinds
    BY ServerAssumption DEF CommandKinds
  <2> QED BY <1>5, <2>1 DEF ClientTypes, FifoType
<1>6. ASSUME NEW c \in Clients, ChildStep(c) PROVE FifoType'
  <2>1. CASE Executes(c)
    <3>1. /\ executed' \in [Clients -> Nat]
          /\ UNCHANGED <<typed, echoed>>
      BY <2>1 DEF Executes, FifoType
    <3>2. fifo' \in {[fifo EXCEPT ![c] = <<>>], [fifo EXCEPT ![c] = <<Response>>], fifo}
      BY <1>6 DEF ChildStep, ChildReady, ChildWaits, ChildServes, ChildStops,
                  ChildReadsResponse, KillServer
    <3>3. fifo' \in [Clients -> Seq(CommandKinds \cup {Response})]
      BY <1>0, <3>2 DEF FifoType
    <3> QED BY <3>1, <3>3 DEF FifoType
  <2>2. CASE ~Executes(c)
    BY <1>6, <2>2 DEF ChildStep, ChildReady, ChildWaits, ChildServes, ChildStops,
                      ChildReadsResponse, KillServer, FifoType, histVars
  <2> QED BY <2>1, <2>2
<1>7. CASE UNCHANGED vars
  BY <1>7 DEF vars, FifoType, histVars
<1> QED BY <1>1, <1>2, <1>3, <1>4, <1>5, <1>6, <1>7 DEF Next

LEMMA TypeInvariant == Spec => []TypeInv
  BY TypeInit, ServerTypeStep, PcTypeStep, FifoTypeStep, PTL DEF Spec, TypeInv

(* The state stays within its types, whatever number of clients the server *)
(* is started with; in particular the loop stays within the memory that is *)
(* modelled, and slots beyond number_of_clients are never used.            *)
THEOREM TypeCorrect == Spec => []TypeOK
<1>1. TypeInv => TypeOK
  BY DEF TypeInv, ServerType, PcType, FifoType, TypeOK
<1> QED BY <1>1, TypeInvariant, PTL
-----------------------------------------------------------------------------
(***************************************************************************)
(* TurnTaking is not inductive by itself: that a client at its prompt      *)
(* finds no turn and an empty FIFO, and a client about to post no turn and *)
(* its one command, must be carried along.                                 *)
(***************************************************************************)
TurnInv(c) ==
  /\ Turns(c) <= 1
  /\ Turns(c) = 1 => Len(fifo[c]) = 1
  /\ pc[c] \in {"start", "ready", "ready_sleep", "prompt"} => Turns(c) = 0 /\ fifo[c] = <<>>
  /\ pc[c] \in {"post", "post_quit"} => Turns(c) = 0 /\ Len(fifo[c]) = 1

(* Processes that end, and steps of others, take no turn.                  *)
LEMMA Calm ==
  ASSUME TypeInv, NEW d \in Clients, TurnInv(d),
         sem'[d + 1] = sem[d + 1], fifo'[d] = fifo[d],
         pc'[d] = pc[d] \/ pc'[d] = "gone",
         child'[d] = child[d] \/ (child'[d] # "read" /\ pc'[d] = pc[d] /\ child[d] # "read")
                              \/ child'[d] = "dead"
  PROVE  TurnInv(d)'
<1>1. sem[d + 1] \in Nat
  BY KeyFacts DEF TypeInv, PcType
<1> QED BY <1>1 DEF TurnInv, Turns

(* A post of semid2 gives one turn, to the client, the child, or nobody.   *)
LEMMA PostTurn ==
  ASSUME TypeInv, KeysApart, NEW c \in Clients,
         NEW p \in [Clients -> ClientPc], NEW q \in [Clients -> ChildPc], Post(c + 1, p, q)
  PROVE  /\ \A d \in Clients \ {c} : /\ sem'[d + 1] = sem[d + 1]
                                    /\ pc'[d] = p[d] /\ child'[d] = q[d]
         /\ \/ sem'[c + 1] = sem[c + 1] + 1 /\ pc'[c] = p[c] /\ child'[c] = q[c]
            \/ /\ sem'[c + 1] = sem[c + 1]
               /\ p[c] = "turn_sleep" /\ pc'[c] = "read" /\ child'[c] = q[c]
            \/ /\ sem'[c + 1] = sem[c + 1]
               /\ q[c] = "turn_sleep" /\ child'[c] = "read" /\ pc'[c] = p[c]
<1>1. /\ \A d \in Clients : d \in Nat /\ d + 1 \in Keys /\ (d + 1 = c + 1 => d = c)
      /\ c + 1 \notin Clients
      /\ sem \in [Keys -> Nat]
  BY KeyFacts DEF KeysApart, TypeInv, PcType
<1> QED BY <1>1 DEF Post

(* A post of semid concerns no turn.                                       *)
LEMMA PostReady ==
  ASSUME TypeInv, KeysApart, NEW c \in Clients,
         NEW p \in [Clients -> ClientPc], NEW q \in [Clients -> ChildPc], Post(c, p, q)
  PROVE  /\ \A d \in Clients : sem'[d + 1] = sem[d + 1]
         /\ child' = q
         /\ \/ pc' = p
            \/ p[c] = "ready_sleep" /\ pc' = [p EXCEPT ![c] = "prompt"]
<1>1. /\ \A d \in Clients : d \in Nat /\ d + 1 \in Keys /\ d + 1 # c
      /\ c \in Keys
      /\ sem \in [Keys -> Nat]
  BY KeyFacts DEF KeysApart, TypeInv, PcType
<1> QED BY <1>1 DEF Post

(* A wait on semid2 takes a turn if there is one.                          *)
LEMMA WaitTurn ==
  ASSUME TypeInv, NEW c \in Clients, Wait(c + 1)
  PROVE  /\ \A d \in Clients \ {c} : sem'[d + 1] = sem[d + 1]
         /\ sem'[c + 1] = IF sem[c + 1] > 0 THEN sem[c + 1] - 1 ELSE sem[c + 1]
<1>1. /\ \A d \in Clients : d \in Nat /\ d + 1 \in Keys /\ (d + 1 = c + 1 => d = c)
      /\ sem \in [Keys -> Nat]
  BY KeyFacts DEF TypeInv, PcType
<1> QED BY <1>1 DEF Wait

LEMMA TurnInit == Init => \A c \in Clients : TurnInv(c)
<1> SUFFICES ASSUME Init, NEW c \in Clients PROVE TurnInv(c)
  OBVIOUS
<1> QED BY KeyFacts DEF Init, TurnInv, Turns

LEMMA TurnClient ==
  ASSUME TypeInv, KeysApart, \A d \in Clients : TurnInv(d), NEW c \in Clients, NEW d \in Clients,
         ClientStarts(c) \/ ClientStep(c) \/ ClientDies(c)
           \/ \E command \in Commands \cup {"quit"} : ClientTypes(c, command)
  PROVE  TurnInv(d)'
<1>0. /\ pc \in [Clients -> ClientPc] /\ child \in [Clients -> ChildPc] /\ sem \in [Keys -> Nat]
      /\ fifo \in [Clients -> Seq(CommandKinds \cup {Response})]
      /\ sem[c + 1] \in Nat /\ sem[d + 1] \in Nat /\ c \in Nat /\ d \in Nat
      /\ c \in Keys /\ c + 1 \in Keys /\ d + 1 \in Keys
      /\ d + 1 # c
      /\ TurnInv(c) /\ TurnInv(d)
  BY KeyFacts DEF TypeInv, PcType, FifoType, KeysApart
<1>1. CASE ClientStarts(c)
  <2>1. sem'[d + 1] = IF d = c THEN 0 ELSE sem[d + 1]
    BY <1>0, <1>1 DEF ClientStarts
  <2>2. fifo' = fifo /\ child' = child
    BY <1>1 DEF ClientStarts
  <2>3. CASE d = c
    <3>1. pc[c] = "start" /\ pc'[c] \in {"ready", "gone"}
      BY <1>0, <1>1 DEF ClientStarts
    <3> QED BY <1>0, <2>1, <2>2, <2>3, <3>1 DEF TurnInv, Turns
  <2>4. CASE d # c
    <3>1. pc'[d] = pc[d]
      BY <1>0, <1>1, <2>4 DEF ClientStarts
    <3> QED BY <1>0, <2>1, <2>2, <2>4, <3>1, Calm
  <2> QED BY <2>3, <2>4
<1>2. CASE ClientWaitsReady(c)
  <2>1. sem'[d + 1] = sem[d + 1]
    BY <1>0, <1>2 DEF ClientWaitsReady, Wait
  <2>2. fifo' = fifo /\ child' = child
    BY <1>2 DEF ClientWaitsReady
  <2>3. CASE d = c
    <3>1. pc[c] = "ready" /\ pc'[c] \in {"prompt", "ready_sleep"}
      BY <1>0, <1>2 DEF ClientWaitsReady, Passes
    <3> QED BY <1>0, <2>1, <2>2, <2>3, <3>1 DEF TurnInv, Turns
  <2>4. CASE d # c
    <3>1. pc'[d] = pc[d]
      BY <1>0, <1>2, <2>4 DEF ClientWaitsReady
    <3> QED BY <1>0, <2>1, <2>2, <3>1, Calm
  <2> QED BY <2>3, <2>4
<1>3. CASE ClientPosts(c)
  <2>1. PICK label \in {"turn", "gone"} :
          /\ Post(c + 1, [pc EXCEPT ![c] = label], child)
          /\ pc[c] \in {"post", "post_quit"}
          /\ fifo' = fifo
    BY <1>3 DEF ClientPosts
  <2> DEFINE p == [pc EXCEPT ![c] = label]
  <2>2. /\ p \in [Clients -> ClientPc]
        /\ p[c] = label /\ label # "turn_sleep" /\ \A e \in Clients \ {c} : p[e] = pc[e]
    BY <1>0 DEF ClientPc
  <2>3. /\ \A e \in Clients \ {c} : /\ sem'[e + 1] = sem[e + 1]
                                   /\ pc'[e] = pc[e] /\ child'[e] = child[e]
        /\ \/ sem'[c + 1] = sem[c + 1] + 1 /\ pc'[c] = label /\ child'[c] = child[c]
           \/ /\ sem'[c + 1] = sem[c + 1]
              /\ child[c] = "turn_sleep" /\ child'[c] = "read" /\ pc'[c] = label
    <3>1. Post(c + 1, p, child)
      BY <2>1
    <3> HIDE DEF p
    <3>2. /\ \A e \in Clients \ {c} : /\ sem'[e + 1] = sem[e + 1]
                                     /\ pc'[e] = p[e] /\ child'[e] = child[e]
          /\ \/ sem'[c + 1] = sem[c + 1] + 1 /\ pc'[c] = p[c] /\ child'[c] = child[c]
             \/ /\ sem'[c + 1] = sem[c + 1]
                /\ p[c] = "turn_sleep" /\ pc'[c] = "read" /\ child'[c] = child[c]
             \/ /\ sem'[c + 1] = sem[c + 1]
                /\ child[c] = "turn_sleep" /\ child'[c] = "read" /\ pc'[c] = p[c]
      BY <1>0, <2>2, <3>1, PostTurn
    <3> QED BY <2>2, <3>2
  <2>4. CASE d = c
    BY <1>0, <2>1, <2>3, <2>4 DEF TurnInv, Turns
  <2>5. CASE d # c
    BY <1>0, <2>1, <2>3, <2>5, Calm
  <2> QED BY <2>4, <2>5
<1>4. CASE ClientWaits(c)
  <2>1. /\ \A e \in Clients \ {c} : sem'[e + 1] = sem[e + 1]
        /\ sem'[c + 1] = IF sem[c + 1] > 0 THEN sem[c + 1] - 1 ELSE sem[c + 1]
    BY <1>4, WaitTurn DEF ClientWaits
  <2>2. /\ pc[c] = "turn" /\ fifo' = fifo /\ child' = child
        /\ pc' = [pc EXCEPT ![c] = IF sem[c + 1] > 0 THEN "read" ELSE "turn_sleep"]
    BY <1>4 DEF ClientWaits, Passes
  <2>3. CASE d = c
    BY <1>0, <2>1, <2>2, <2>3 DEF TurnInv, Turns
  <2>4. CASE d # c
    BY <1>0, <2>1, <2>2, <2>4, Calm
  <2> QED BY <2>3, <2>4
<1>5. CASE ClientReads(c)
  <2>1. /\ pc[c] = "read" /\ pc' = [pc EXCEPT ![c] = "prompt"]
        /\ fifo' = [fifo EXCEPT ![c] = <<>>]
        /\ sem' = sem /\ child' = child
    BY <1>5 DEF ClientReads
  <2>2. CASE d = c
    BY <1>0, <2>1, <2>2 DEF TurnInv, Turns
  <2>3. CASE d # c
    BY <1>0, <2>1, <2>3, Calm
  <2> QED BY <2>2, <2>3
<1>6. CASE ClientDies(c)
  BY <1>0, <1>6, Calm DEF ClientDies
<1>7. ASSUME NEW command \in Commands \cup {"quit"}, ClientTypes(c, command) PROVE TurnInv(d)'
  <2>1. /\ pc[c] = "prompt" /\ sem' = sem /\ child' = child
        /\ fifo' = [fifo EXCEPT ![c] = Append(@, command)]
        /\ pc'[c] \in {"post", "post_quit"}
        /\ d # c => pc'[d] = pc[d]
    BY <1>0, <1>7 DEF ClientTypes
  <2>2. CASE d = c
    <3>1. fifo[c] = <<>>
      BY <1>0, <2>1 DEF TurnInv
    <3>2. Len(fifo'[c]) = 1
      BY <1>0, <2>1, <3>1
    <3> QED BY <1>0, <2>1, <2>2, <3>2 DEF TurnInv, Turns
  <2>3. CASE d # c
    BY <1>0, <2>1, <2>3, Calm
  <2> QED BY <2>2, <2>3
<1> QED BY <1>1, <1>2, <1>3, <1>4, <1>5, <1>6, <1>7 DEF ClientStep

LEMMA TurnChild ==
  ASSUME TypeInv, KeysApart, \A d \in Clients : TurnInv(d), NEW c \in Clients, NEW d \in Clients,
         ChildStep(c)
  PROVE  TurnInv(d)'
<1>0. /\ pc \in [Clients -> ClientPc] /\ child \in [Clients -> ChildPc] /\ sem \in [Keys -> Nat]
      /\ fifo \in [Clients -> Seq(CommandKinds \cup {Response})]
      /\ sem[c + 1] \in Nat /\ sem[d + 1] \in Nat
      /\ [child EXCEPT ![c] = "turn"] \in [Clients -> ChildPc]
      /\ TurnInv(c) /\ TurnInv(d)
  BY KeyFacts DEF TypeInv, PcType, FifoType, ChildPc
<1>1. CASE ChildReady(c)
  <2>1. /\ sem'[d + 1] = sem[d + 1] /\ fifo' = fifo
        /\ child[c] = "setup" /\ child' = [child EXCEPT ![c] = "turn"]
        /\ pc' = pc \/ (pc[c] = "ready_sleep" /\ pc' = [pc EXCEPT ![c] = "prompt"])
    BY <1>0, <1>1, PostReady DEF ChildReady
  <2> QED BY <1>0, <2>1 DEF TurnInv, Turns
<1>2. CASE ChildWaits(c)
  <2>1. /\ \A e \in Clients \ {c} : sem'[e + 1] = sem[e + 1]
        /\ sem'[c + 1] = IF sem[c + 1] > 0 THEN sem[c + 1] - 1 ELSE sem[c + 1]
    BY <1>2, WaitTurn DEF ChildWaits
  <2>2. /\ child[c] = "turn" /\ fifo' = fifo /\ pc' = pc
        /\ child' = [child EXCEPT ![c] = IF sem[c + 1] > 0 THEN "read" ELSE "turn_sleep"]
    BY <1>2 DEF ChildWaits, Passes
  <2>3. CASE d = c
    BY <1>0, <2>1, <2>2, <2>3 DEF TurnInv, Turns
  <2>4. CASE d # c
    BY <1>0, <2>1, <2>2, <2>4, Calm
  <2> QED BY <2>3, <2>4
(* The steps that end in a post of semid2: the child had the only turn.    *)
<1>3. ASSUME NEW p \in [Clients -> ClientPc],
             \A e \in Clients : p[e] \in {pc[e], "gone"},
             child[c] = "read", fifo' = [fifo EXCEPT ![c] = <<Response>>],
             Post(c + 1, p, [child EXCEPT ![c] = "turn"])
      PROVE  TurnInv(d)'
  <2>1. /\ \A e \in Clients \ {c} : /\ sem'[e + 1] = sem[e + 1]
                                   /\ pc'[e] = p[e] /\ child'[e] = child[e]
        /\ \/ sem'[c + 1] = sem[c + 1] + 1 /\ pc'[c] = p[c] /\ child'[c] = "turn"
           \/ /\ sem'[c + 1] = sem[c + 1]
              /\ p[c] = "turn_sleep" /\ pc'[c] = "read" /\ child'[c] = "turn"
    <3> DEFINE q == [child EXCEPT ![c] = "turn"]
    <3>1. /\ q \in [Clients -> ChildPc] /\ Post(c + 1, p, q)
          /\ q[c] = "turn" /\ \A e \in Clients \ {c} : q[e] = child[e]
      BY <1>0, <1>3
    <3> HIDE DEF q
    <3>2. /\ \A e \in Clients \ {c} : /\ sem'[e + 1] = sem[e + 1]
                                     /\ pc'[e] = p[e] /\ child'[e] = q[e]
          /\ \/ sem'[c + 1] = sem[c + 1] + 1 /\ pc'[c] = p[c] /\ child'[c] = q[c]
             \/ /\ sem'[c + 1] = sem[c + 1]
                /\ p[c] = "turn_sleep" /\ pc'[c] = "read" /\ child'[c] = q[c]
             \/ /\ sem'[c + 1] = sem[c + 1]
                /\ q[c] = "turn_sleep" /\ child'[c] = "read" /\ pc'[c] = p[c]
      BY <3>1, PostTurn
    <3> QED BY <3>1, <3>2
  <2>2. CASE d = c
    <3>1. sem[c + 1] = 0 /\ pc[c] \notin {"read", "start", "ready", "ready_sleep", "prompt", "post", "post_quit"}
      BY <1>0, <1>3 DEF TurnInv, Turns
    <3>2. Len(fifo'[c]) = 1
      BY <1>0, <1>3
    <3>3. pc'[c] = "read" \/ pc'[c] = p[c]
      BY <2>1
    <3>4. /\ p[c] \in {pc[c], "gone"}
          /\ sem'[c + 1] + (IF pc'[c] = "read" THEN 1 ELSE 0) = 1
          /\ child'[c] = "turn"
      BY <1>3, <2>1, <3>1
    <3>5. Turns(c)' = 1
      BY <3>4 DEF Turns
    <3>6. pc'[c] \notin {"start", "ready", "ready_sleep", "prompt", "post", "post_quit"}
      BY <3>1, <3>3, <3>4
    <3> QED BY <2>2, <3>2, <3>5, <3>6 DEF TurnInv
  <2>3. CASE d # c
    BY <1>0, <1>3, <2>1, <2>3, Calm
  <2> QED BY <2>2, <2>3
<1>4. CASE ChildServes(c)
  BY <1>0, <1>3, <1>4 DEF ChildServes, Reads
<1>5. CASE ChildStops(c)
  <2>1. /\ child[c] = "read" /\ pc' = pc /\ sem' = sem
        /\ fifo' = [fifo EXCEPT ![c] = <<>>]
        /\ child' \in {[child EXCEPT ![c] = "stuck"], [child EXCEPT ![c] = "dead"]}
    BY <1>5 DEF ChildStops, Reads
  <2>2. CASE d = c
    BY <1>0, <2>1, <2>2 DEF TurnInv, Turns
  <2>3. CASE d # c
    BY <1>0, <2>1, <2>3, Calm
  <2> QED BY <2>2, <2>3
<1>6. CASE ChildReadsResponse(c)
  <2>1. /\ child[c] = "read" /\ pc' = pc /\ sem' = sem /\ fifo' = fifo
        /\ child' = [child EXCEPT ![c] = "stuck"]
    BY <1>6 DEF ChildReadsResponse, Reads
  <2> QED BY <1>0, <2>1 DEF TurnInv, Turns
<1>7. CASE KillServer(c)
  <2> DEFINE zeros == {s \in Slots : snapshot[c][s] = NoClient}
             killed == {snapshot[c][s] : s \in {t \in Slots : \A z \in zeros : t < z}}
             p == [e \in Clients |-> IF e \in killed THEN "gone" ELSE pc[e]]
  <2>1. p \in [Clients -> ClientPc] /\ \A e \in Clients : p[e] \in {pc[e], "gone"}
    BY <1>0 DEF ClientPc
  <2>2. child[c] = "read"
    BY <1>7 DEF KillServer, Reads
  <2>3. CASE /\ fifo' = [fifo EXCEPT ![c] = <<Response>>]
             /\ Post(c + 1, p, [child EXCEPT ![c] = "turn"])
    BY <1>3, <2>1, <2>2, <2>3
  <2>4. CASE /\ pc' = p
             /\ child' = [e \in Clients |-> IF child[e] = "none" THEN "none" ELSE "dead"]
             /\ fifo' = [fifo EXCEPT ![c] = <<>>]
             /\ sem' = sem
    <3>1. /\ pc'[d] = pc[d] \/ pc'[d] = "gone"
          /\ child'[d] = child[d] \/ child'[d] = "dead"
          /\ child'[d] # "read"
      BY <2>1, <2>4
    <3>2. CASE d = c
      <4>1. fifo'[c] = <<>> /\ sem'[c + 1] = sem[c + 1]
        BY <1>0, <2>4
      <4> HIDE DEF p
      <4> QED BY <1>0, <2>2, <3>1, <3>2, <4>1 DEF TurnInv, Turns
    <3>3. CASE d # c
      BY <1>0, <2>4, <3>1, <3>3, Calm
    <3> QED BY <3>2, <3>3
  <2> QED BY <1>7, <2>3, <2>4 DEF KillServer
<1> QED BY <1>1, <1>2, <1>4, <1>5, <1>6, <1>7 DEF ChildStep

LEMMA TurnStep ==
  ASSUME TypeInv, KeysApart, \A d \in Clients : TurnInv(d), [Next]_vars
  PROVE  \A d \in Clients : TurnInv(d)'
<1> SUFFICES ASSUME NEW d \in Clients PROVE TurnInv(d)'
  OBVIOUS
<1>0. child \in [Clients -> ChildPc] /\ TurnInv(d)
  BY DEF TypeInv, PcType
<1>1. CASE ServerStep
  <2>1. CASE ServerAssigns
    <3>1. /\ sem' = sem /\ fifo' = fifo /\ pc' = pc
          /\ child' = [child EXCEPT ![current] = "setup"]
      BY <2>1 DEF ServerAssigns
    <3> QED BY <1>0, <3>1, KeyFacts DEF TurnInv, Turns, TypeInv, PcType
  <2>2. CASE ~ServerAssigns
    <3>1. sem' = sem /\ fifo' = fifo /\ pc' = pc /\ child' = child
      BY <1>1, <2>2 DEF ServerStep, ServerReads, ServerProbesOn, ServerFull
    <3> QED BY <1>0, <3>1, Calm
  <2> QED BY <2>1, <2>2
<1>2. CASE signal_handler
  <2>1. /\ pc'[d] = pc[d] \/ pc'[d] = "gone"
        /\ child'[d] = child[d] \/ child'[d] = "dead"
        /\ sem' = sem /\ fifo' = fifo
    BY <1>2 DEF signal_handler
  <2> QED BY <1>0, <2>1, Calm
<1>3. CASE \E c \in Clients : \/ ClientStarts(c) \/ ClientStep(c) \/ ClientDies(c) \/ ChildStep(c)
                            \/ \E command \in Commands \cup {"quit"} : ClientTypes(c, command)
  BY <1>3, TurnClient, TurnChild
<1>4. CASE UNCHANGED vars
  BY <1>0, <1>4, Calm DEF vars
<1> QED BY <1>1, <1>2, <1>3, <1>4 DEF Next

(* At most one of a client and its child has the turn, and whoever has it  *)
(* finds exactly one message in the FIFO: for any number of clients none   *)
(* of whose PIDs follows another's, whoever dies when.                     *)
THEOREM TurnsTaken == Spec => []TurnTaking
<1> DEFINE Inv == KeysApart => \A c \in Clients : TurnInv(c)
<1>1. Init => Inv
  BY TurnInit
<1>2. TypeInv /\ Inv /\ [Next]_vars => Inv'
  <2> SUFFICES ASSUME TypeInv, Inv, [Next]_vars, KeysApart PROVE \A c \in Clients : TurnInv(c)'
    BY DEF KeysApart
  <2> QED BY TurnStep
<1>3. Inv => TurnTaking
  BY DEF TurnTaking, TurnInv
<1> QED BY <1>1, <1>2, <1>3, TypeInvariant, PTL DEF Spec
-----------------------------------------------------------------------------
(***************************************************************************)
(* Accounting: a FIFO never holds more than one message, so a command that *)
(* is read is the only one there.                                          *)
(***************************************************************************)
LEMMA OneMessage ==
  ASSUME NEW M
  PROVE  /\ \A s \in Seq(M) : s # <<>> /\ Len(s) <= 1 => Len(s) = 1
         /\ \A s \in Seq(M) : Len(s) = 1 => s # <<>> /\ Head(s) = s[1]
<1>1. ASSUME NEW s \in Seq(M), s # <<>>, Len(s) <= 1 PROVE Len(s) = 1
  <2>1. Len(s) \in Nat /\ Len(s) # 0
    BY <1>1, EmptySeq, LenProperties
  <2> QED BY <1>1, <2>1
<1>2. ASSUME NEW s \in Seq(M), Len(s) = 1 PROVE s # <<>> /\ Head(s) = s[1]
  <2>1. s # <<>>
    BY <1>2, EmptySeq
  <2> QED BY <2>1
<1> QED BY <1>1, <1>2

LEMMA UnreadNone == ASSUME NEW c \in Clients, fifo[c] = <<>> PROVE Unread(c) = 0
<1>1. {k \in 1 .. Len(fifo[c]) : fifo[c][k] # Response} = {}
  OBVIOUS
<1> QED BY <1>1, FS_EmptySet DEF Unread

LEMMA UnreadOne ==
  ASSUME NEW c \in Clients, fifo[c] \in Seq(CommandKinds \cup {Response}), Len(fifo[c]) = 1
  PROVE  Unread(c) = IF Head(fifo[c]) = Response THEN 0 ELSE 1
<1>1. fifo[c] # <<>> /\ Head(fifo[c]) = fifo[c][1]
  BY OneMessage
<1>2. CASE Head(fifo[c]) = Response
  <2>1. {k \in 1 .. Len(fifo[c]) : fifo[c][k] # Response} = {}
    BY <1>1, <1>2
  <2> QED BY <1>2, <2>1, FS_EmptySet DEF Unread
<1>3. CASE Head(fifo[c]) # Response
  <2>1. {k \in 1 .. Len(fifo[c]) : fifo[c][k] # Response} = {1}
    BY <1>1, <1>3
  <2> QED BY <1>3, <2>1, FS_Singleton DEF Unread
<1> QED BY <1>2, <1>3

(* The same two facts of the state after a step.                           *)
LEMMA UnreadNoneNext == ASSUME NEW c \in Clients, fifo'[c] = <<>> PROVE Unread(c)' = 0
<1>1. {k \in 1 .. Len(fifo'[c]) : fifo'[c][k] # Response} = {}
  OBVIOUS
<1> QED BY <1>1, FS_EmptySet DEF Unread

LEMMA UnreadOneNext ==
  ASSUME NEW c \in Clients, NEW m, fifo'[c] = <<m>>
  PROVE  Unread(c)' = IF m = Response THEN 0 ELSE 1
<1>2. CASE m = Response
  <2>1. {k \in 1 .. Len(fifo'[c]) : fifo'[c][k] # Response} = {}
    BY <1>2
  <2> QED BY <1>2, <2>1, FS_EmptySet DEF Unread
<1>3. CASE m # Response
  <2>1. {k \in 1 .. Len(fifo'[c]) : fifo'[c][k] # Response} = {1}
    BY <1>3
  <2> QED BY <1>3, <2>1, FS_Singleton DEF Unread
<1> QED BY <1>2, <1>3

Accounted(c) == Len(fifo[c]) <= 1 /\ typed[c] = executed[c] + echoed[c] + Unread(c)

LEMMA AccountedInit == Init => \A c \in Clients : Accounted(c)
<1> SUFFICES ASSUME Init, NEW c \in Clients PROVE Accounted(c)
  OBVIOUS
<1>1. fifo[c] = <<>> /\ typed[c] = 0 /\ executed[c] = 0 /\ echoed[c] = 0
  BY DEF Init
<1> QED BY <1>1, UnreadNone DEF Accounted

(* A step that leaves the books and the FIFO of a client alone.            *)
LEMMA AccountedKept ==
  ASSUME NEW c \in Clients, Accounted(c), fifo'[c] = fifo[c],
         typed'[c] = typed[c], executed'[c] = executed[c], echoed'[c] = echoed[c]
  PROVE  Accounted(c)'
BY DEF Accounted, Unread

(* The client's side: only typing a command and reading the FIFO are booked.*)
LEMMA AccountedClient ==
  ASSUME TypeInv, NEW c \in Clients, TurnInv(c), \A d \in Clients : Accounted(d),
         NEW d \in Clients,
         ClientStarts(c) \/ ClientStep(c) \/ ClientDies(c)
           \/ \E command \in Commands \cup {"quit"} : ClientTypes(c, command)
  PROVE  Accounted(d)'
<1>0. /\ fifo \in [Clients -> Seq(CommandKinds \cup {Response})]
      /\ typed \in [Clients -> Nat] /\ executed \in [Clients -> Nat] /\ echoed \in [Clients -> Nat]
      /\ Accounted(c) /\ Accounted(d)
  BY DEF TypeInv, FifoType
<1>1. CASE ClientReads(c)
  <2>1. /\ pc[c] = "read" /\ fifo[c] # <<>>
        /\ fifo' = [fifo EXCEPT ![c] = <<>>]
        /\ echoed' = [echoed EXCEPT ![c] = IF Head(fifo[c]) = Response THEN @ ELSE @ + 1]
        /\ typed' = typed /\ executed' = executed
    BY <1>1 DEF ClientReads
  <2>2. CASE d = c
    <3>1. fifo[c] \in Seq(CommandKinds \cup {Response}) /\ Len(fifo[c]) = 1
      BY <1>0, <2>1, OneMessage DEF Accounted
    <3>2. /\ typed[c] = executed[c] + echoed[c] + (IF Head(fifo[c]) = Response THEN 0 ELSE 1)
          /\ typed[c] \in Nat /\ executed[c] \in Nat /\ echoed[c] \in Nat
      BY <1>0, <3>1, UnreadOne DEF Accounted
    <3>3. fifo'[c] = <<>> /\ Unread(c)' = 0
      BY <1>0, <2>1, UnreadNoneNext
    <3>4. /\ echoed'[c] = IF Head(fifo[c]) = Response THEN echoed[c] ELSE echoed[c] + 1
          /\ typed'[c] = typed[c] /\ executed'[c] = executed[c]
      BY <1>0, <2>1
    <3> QED BY <2>2, <3>2, <3>3, <3>4 DEF Accounted
  <2>3. CASE d # c
    BY <1>0, <2>1, <2>3, AccountedKept
  <2> QED BY <2>2, <2>3
<1>2. ASSUME NEW command \in Commands \cup {"quit"}, ClientTypes(c, command) PROVE Accounted(d)'
  <2>1. /\ pc[c] = "prompt"
        /\ fifo' = [fifo EXCEPT ![c] = Append(@, command)]
        /\ typed' = [typed EXCEPT ![c] = @ + 1]
        /\ echoed' = echoed /\ executed' = executed
    BY <1>2 DEF ClientTypes
  <2>2. CASE d = c
    <3>1. fifo[c] = <<>> /\ Unread(c) = 0
      BY <2>1, UnreadNone DEF TurnInv
    <3>2. command # Response
      BY ServerAssumption DEF CommandKinds, Response
    <3>3. fifo'[c] = <<command>>
      BY <1>0, <2>1, <3>1
    <3>4. Unread(c)' = 1
      BY <3>2, <3>3, UnreadOneNext
    <3>5. /\ typed[c] = executed[c] + echoed[c] /\ Len(fifo'[c]) = 1
          /\ typed[c] \in Nat /\ executed[c] \in Nat /\ echoed[c] \in Nat
      BY <1>0, <3>1, <3>3 DEF Accounted
    <3>6. typed'[c] = typed[c] + 1 /\ executed'[c] = executed[c] /\ echoed'[c] = echoed[c]
      BY <1>0, <2>1
    <3> QED BY <2>2, <3>4, <3>5, <3>6 DEF Accounted
  <2>3. CASE d # c
    BY <1>0, <2>1, <2>3, AccountedKept
  <2> QED BY <2>2, <2>3
<1>3. CASE ClientStarts(c) \/ ClientWaitsReady(c) \/ ClientPosts(c) \/ ClientWaits(c) \/ ClientDies(c)
  <2>1. fifo' = fifo /\ UNCHANGED histVars
    BY <1>3 DEF ClientStarts, ClientWaitsReady, ClientPosts, ClientWaits, ClientDies
  <2> QED BY <1>0, <2>1, AccountedKept DEF histVars
<1> QED BY <1>1, <1>2, <1>3 DEF ClientStep

(* The child's side: a command that is executed is taken out of the FIFO.  *)
LEMMA AccountedChild ==
  ASSUME TypeInv, NEW c \in Clients, \A d \in Clients : Accounted(d), NEW d \in Clients, ChildStep(c)
  PROVE  Accounted(d)'
<1>0. /\ fifo \in [Clients -> Seq(CommandKinds \cup {Response})]
      /\ typed \in [Clients -> Nat] /\ executed \in [Clients -> Nat] /\ echoed \in [Clients -> Nat]
      /\ Accounted(c) /\ Accounted(d)
  BY DEF TypeInv, FifoType
<1>1. CASE Executes(c)
  <2>1. /\ fifo[c] # <<>> /\ Head(fifo[c]) # Response
        /\ fifo' \in {[fifo EXCEPT ![c] = <<>>], [fifo EXCEPT ![c] = <<Response>>]}
    BY <1>0, <1>1 DEF ChildStep, ChildReady, ChildWaits, ChildServes, ChildStops, ChildReadsResponse,
       KillServer, Reads, Executes, Response, histVars
  <2>2. /\ executed' = [executed EXCEPT ![c] = @ + 1]
        /\ typed' = typed /\ echoed' = echoed
    BY <1>1 DEF Executes
  <2>3. CASE d = c
    <3>1. fifo[c] \in Seq(CommandKinds \cup {Response}) /\ Len(fifo[c]) = 1
      BY <1>0, <2>1, OneMessage DEF Accounted
    <3>2. /\ typed[c] = executed[c] + echoed[c] + 1
          /\ typed[c] \in Nat /\ executed[c] \in Nat /\ echoed[c] \in Nat
      BY <1>0, <2>1, <3>1, UnreadOne DEF Accounted
    <3>3. fifo'[c] = <<>> \/ fifo'[c] = <<Response>>
      BY <1>0, <2>1
    <3>4. Unread(c)' = 0 /\ Len(fifo'[c]) <= 1
      <4>1. CASE fifo'[c] = <<>>
        BY <4>1, UnreadNoneNext
      <4>2. CASE fifo'[c] = <<Response>>
        BY <4>2, UnreadOneNext
      <4> QED BY <3>3, <4>1, <4>2
    <3>5. executed'[c] = executed[c] + 1 /\ typed'[c] = typed[c] /\ echoed'[c] = echoed[c]
      BY <1>0, <2>2
    <3> QED BY <2>3, <3>2, <3>4, <3>5 DEF Accounted
  <2>4. CASE d # c
    BY <1>0, <2>1, <2>2, <2>4, AccountedKept
  <2> QED BY <2>3, <2>4
<1>2. CASE ~Executes(c)
  <2>1. fifo' = fifo /\ UNCHANGED histVars
    BY <1>2 DEF ChildStep, ChildReady, ChildWaits, ChildServes, ChildStops, ChildReadsResponse, KillServer
  <2> QED BY <1>0, <2>1, AccountedKept DEF histVars
<1> QED BY <1>1, <1>2

LEMMA AccountedStep ==
  ASSUME TypeInv, \A d \in Clients : TurnInv(d) /\ Accounted(d), [Next]_vars
  PROVE  \A d \in Clients : Accounted(d)'
<1> SUFFICES ASSUME NEW d \in Clients PROVE Accounted(d)'
  OBVIOUS
<1>1. CASE ServerStep \/ signal_handler \/ UNCHANGED vars
  <2>1. fifo' = fifo /\ UNCHANGED histVars
    BY <1>1 DEF ServerStep, ServerReads, ServerAssigns, ServerProbesOn, ServerFull, signal_handler, vars
  <2> QED BY <2>1, AccountedKept DEF histVars
<1>2. CASE \E c \in Clients : \/ ClientStarts(c) \/ ClientStep(c) \/ ClientDies(c) \/ ChildStep(c)
                            \/ \E command \in Commands \cup {"quit"} : ClientTypes(c, command)
  BY <1>2, AccountedClient, AccountedChild
<1> QED BY <1>1, <1>2 DEF Next

(* Every command a client has written is waiting in its FIFO, has been     *)
(* executed once, or has been read back by the client: for any number of   *)
(* clients none of whose PIDs follows another's, whoever dies when.        *)
THEOREM CommandsAccounted == Spec => []CommandAccounting
<1> DEFINE Inv == KeysApart => \A c \in Clients : TurnInv(c) /\ Accounted(c)
<1>1. Init => Inv
  BY TurnInit, AccountedInit
<1>2. TypeInv /\ Inv /\ [Next]_vars => Inv'
  <2> SUFFICES ASSUME TypeInv, Inv, [Next]_vars, KeysApart
               PROVE  \A c \in Clients : TurnInv(c)' /\ Accounted(c)'
    BY DEF KeysApart
  <2> QED BY TurnStep, AccountedStep
<1>3. Inv => CommandAccounting
  BY DEF CommandAccounting, Accounted
<1> QED BY <1>1, <1>2, <1>3, TypeInvariant, PTL DEF Spec
-----------------------------------------------------------------------------
(***************************************************************************)
(* Slots.  A client asks once; as long as it has no child it is in no      *)
(* slot; and a slot is taken from a client only when that is gone.         *)
(***************************************************************************)
Asked(c) == current = c \/ \E k \in 1 .. Len(requests) : requests[k] = c

OneRequest ==
  /\ \A j, k \in 1 .. Len(requests) : requests[j] = requests[k] => j = k
  /\ \A k \in 1 .. Len(requests) : requests[k] # current

Owns(c) ==
  \E s \in Cells : /\ s <= number_of_clients /\ snapshot[c][s] = c
                    /\ \A t \in Cells : pid_array[t] = c <=> t = s

OwnerInv ==
  /\ OneRequest
  /\ \A c \in Clients : Asked(c) => pc[c] # "start"
  /\ \A c \in Clients : Asked(c) \/ pc[c] = "start" => child[c] = "none"
  /\ \A c \in Clients : child[c] = "none" => \A s \in Cells : pid_array[s] # c
  /\ \A c \in Clients : child[c] # "none" /\ Alive(c) => Owns(c)

LEMMA OwnerInit == Init => OwnerInv
<1> SUFFICES ASSUME Init PROVE OwnerInv
  OBVIOUS
<1>1. /\ requests = <<>> /\ current = NoClient
      /\ \A c \in Clients : pc[c] = "start" /\ child[c] = "none" /\ NoClient # c
      /\ \A s \in Cells : pid_array[s] = NoClient
  BY ServerAssumption DEF Init, Free
<1> QED BY <1>1 DEF OwnerInv, OneRequest, Asked

(* Steps that touch neither the queue nor the table, revive nobody and     *)
(* fork no child.                                                          *)
Bystanding ==
  /\ UNCHANGED <<number_of_clients, requests, current, pid_array, snapshot>>
  /\ \A d \in Clients : /\ pc'[d] = "start" => pc[d] = "start"
                        /\ pc[d] = "gone" => pc'[d] = "gone"
                        /\ pc[d] # "start" => pc'[d] # "start"
                        /\ child'[d] = "none" <=> child[d] = "none"

LEMMA OwnerKept == OwnerInv /\ Bystanding => OwnerInv'
BY DEF OwnerInv, Bystanding, OneRequest, Asked, Owns, Alive

(* A post wakes sleepers only.                                             *)
LEMMA PostWakes ==
  ASSUME NEW k, NEW p \in [Clients -> ClientPc], NEW q \in [Clients -> ChildPc], Post(k, p, q),
         NEW d \in Clients
  PROVE  /\ pc'[d] = p[d] \/ (p[d] \in {"ready_sleep", "turn_sleep"} /\ pc'[d] \in {"prompt", "read"})
         /\ child'[d] = q[d] \/ (q[d] = "turn_sleep" /\ child'[d] = "read")
BY DEF Post

LEMMA ClientBystands ==
  ASSUME TypeInv, NEW c \in Clients,
         ClientStep(c) \/ ClientDies(c) \/ \E command \in Commands \cup {"quit"} : ClientTypes(c, command)
  PROVE  Bystanding
<1>0. /\ pc \in [Clients -> ClientPc] /\ child \in [Clients -> ChildPc]
      /\ [pc EXCEPT ![c] = "turn"] \in [Clients -> ClientPc]
      /\ [pc EXCEPT ![c] = "gone"] \in [Clients -> ClientPc]
  BY DEF TypeInv, PcType, ClientPc
<1>1. UNCHANGED <<number_of_clients, requests, current, pid_array, snapshot>>
  BY DEF ClientStep, ClientWaitsReady, ClientPosts, ClientWaits, ClientReads, ClientDies, ClientTypes,
         serverVars, hostVars, loopVars, tableVars
<1>2. ASSUME NEW d \in Clients
      PROVE  /\ pc'[d] = "start" => pc[d] = "start"
             /\ pc[d] = "gone" => pc'[d] = "gone"
             /\ pc[d] # "start" => pc'[d] # "start"
             /\ child'[d] = "none" <=> child[d] = "none"
  <2>1. CASE ClientPosts(c)
    <3>1. PICK label \in {"turn", "gone"} :
            Post(c + 1, [pc EXCEPT ![c] = label], child) /\ pc[c] \in {"post", "post_quit"}
      BY <2>1 DEF ClientPosts
    <3> DEFINE p == [pc EXCEPT ![c] = label]
    <3>2. /\ p \in [Clients -> ClientPc] /\ Post(c + 1, p, child)
          /\ p[d] = IF d = c THEN label ELSE pc[d]
      BY <1>0, <3>1
    <3> HIDE DEF p
    <3>3. /\ pc'[d] = p[d] \/ (p[d] \in {"ready_sleep", "turn_sleep"} /\ pc'[d] \in {"prompt", "read"})
          /\ child'[d] = child[d] \/ (child[d] = "turn_sleep" /\ child'[d] = "read")
      BY <1>0, <3>2, PostWakes
    <3> QED BY <3>1, <3>2, <3>3
  <2>2. CASE ~ClientPosts(c)
    <3>1. child' = child /\ pc[c] \notin {"start", "gone"}
      BY <2>2 DEF ClientStep, ClientWaitsReady, ClientWaits, ClientReads, ClientDies, ClientTypes
    <3>2. \E label \in ClientPc \ {"start"} : pc' = [pc EXCEPT ![c] = label]
      BY <2>2 DEF ClientStep, ClientWaitsReady, ClientWaits, ClientReads, ClientDies, ClientTypes, Passes,
         ClientPc
    <3> QED BY <1>0, <3>1, <3>2
  <2> QED BY <2>1, <2>2
<1> QED BY <1>1, <1>2 DEF Bystanding

LEMMA ChildBystands ==
  ASSUME TypeInv, NEW c \in Clients, ChildStep(c) PROVE Bystanding
<1>0. /\ pc \in [Clients -> ClientPc] /\ child \in [Clients -> ChildPc]
      /\ [child EXCEPT ![c] = "turn"] \in [Clients -> ChildPc]
  BY DEF TypeInv, PcType, ChildPc
<1>1. UNCHANGED <<number_of_clients, requests, current, pid_array, snapshot>>
  BY DEF ChildStep, ChildReady, ChildWaits, ChildServes, ChildStops, ChildReadsResponse, KillServer,
         serverVars, hostVars, loopVars, tableVars
<1>2. child[c] # "none"
  BY DEF ChildStep, ChildReady, ChildWaits, ChildServes, ChildStops, ChildReadsResponse, KillServer, Reads
<1>3. ASSUME NEW k, NEW p \in [Clients -> ClientPc], \A e \in Clients : p[e] \in {pc[e], "gone"},
             Post(k, p, [child EXCEPT ![c] = "turn"])
      PROVE  Bystanding
  <2>1. ASSUME NEW d \in Clients
        PROVE  /\ pc'[d] = "start" => pc[d] = "start"
               /\ pc[d] = "gone" => pc'[d] = "gone"
               /\ pc[d] # "start" => pc'[d] # "start"
               /\ child'[d] = "none" <=> child[d] = "none"
    <3> DEFINE q == [child EXCEPT ![c] = "turn"]
    <3>1. /\ q \in [Clients -> ChildPc] /\ Post(k, p, q)
          /\ q[d] = IF d = c THEN "turn" ELSE child[d]
      BY <1>0, <1>3
    <3> HIDE DEF q
    <3>2. /\ pc'[d] = p[d] \/ (p[d] \in {"ready_sleep", "turn_sleep"} /\ pc'[d] \in {"prompt", "read"})
          /\ child'[d] = q[d] \/ (q[d] = "turn_sleep" /\ child'[d] = "read")
      BY <3>1, PostWakes
    <3>3. p[d] \in {pc[d], "gone"}
      BY <1>3
    <3> QED BY <1>2, <3>1, <3>2, <3>3
  <2> QED BY <1>1, <2>1 DEF Bystanding
<1>4. CASE ChildReady(c) \/ ChildServes(c)
  BY <1>0, <1>3, <1>4 DEF ChildReady, ChildServes
<1>5. CASE ChildWaits(c) \/ ChildStops(c) \/ ChildReadsResponse(c)
  <2>1. pc' = pc
    BY <1>5 DEF ChildWaits, ChildStops, ChildReadsResponse
  <2>2. \E label \in ChildPc \ {"none"} : child' = [child EXCEPT ![c] = label]
    BY <1>5 DEF ChildWaits, ChildStops, ChildReadsResponse, Passes, ChildPc
  <2> QED BY <1>0, <1>1, <1>2, <2>1, <2>2 DEF Bystanding
<1>6. CASE KillServer(c)
  <2> DEFINE zeros == {s \in Slots : snapshot[c][s] = NoClient}
             killed == {snapshot[c][s] : s \in {t \in Slots : \A z \in zeros : t < z}}
             p == [e \in Clients |-> IF e \in killed THEN "gone" ELSE pc[e]]
  <2>1. p \in [Clients -> ClientPc] /\ \A e \in Clients : p[e] \in {pc[e], "gone"}
    BY <1>0 DEF ClientPc
  <2>2. CASE Post(c + 1, p, [child EXCEPT ![c] = "turn"])
    BY <1>3, <2>1, <2>2
  <2>3. CASE /\ pc' = p
             /\ child' = [e \in Clients |-> IF child[e] = "none" THEN "none" ELSE "dead"]
    <3> HIDE DEF p
    <3> QED BY <1>1, <2>1, <2>3 DEF Bystanding
  <2> QED BY <1>6, <2>2, <2>3 DEF KillServer
<1> QED BY <1>4, <1>5, <1>6 DEF ChildStep

LEMMA OwnerStep == TypeInv /\ OwnerInv /\ [Next]_vars => OwnerInv'
<1> SUFFICES ASSUME TypeInv, OwnerInv, [Next]_vars PROVE OwnerInv'
  OBVIOUS
<1>0. /\ requests \in Seq(Clients) /\ pid_array \in [Cells -> Clients \cup {NoClient}]
      /\ snapshot \in [Clients -> [Cells -> Clients \cup {NoClient}]]
      /\ child \in [Clients -> ChildPc] /\ pc \in [Clients -> ClientPc]
      /\ number_of_clients \in Int
      /\ NoClient \notin Clients
      /\ i > 0 => current \in Clients
  BY ServerAssumption DEF TypeInv, ServerType, PcType
<1>1. ASSUME NEW c \in Clients, ClientStarts(c) PROVE OwnerInv'
  <2>1. /\ pc[c] = "start" /\ child' = child /\ current' = current /\ number_of_clients' = number_of_clients
        /\ pid_array' = pid_array /\ snapshot' = snapshot
        /\ \E label \in {"ready", "gone"} : pc' = [pc EXCEPT ![c] = label]
        /\ (requests' = Append(requests, c) /\ pc'[c] = "ready") \/ requests' = requests
    BY <1>0, <1>1 DEF ClientStarts, hostVars, tableVars
  <2>2. ~Asked(c) /\ child[c] = "none"
    BY <2>1 DEF OwnerInv
  <2>3. /\ \A d \in Clients \ {c} : pc'[d] = pc[d]
        /\ pc'[c] # "start"
    BY <1>0, <2>1
  <2>4. OneRequest' /\ \A d \in Clients : Asked(d)' => Asked(d) \/ d = c
    <3>1. CASE requests' = Append(requests, c)
      <4>1. /\ Len(requests') = Len(requests) + 1 /\ Len(requests) \in Nat
            /\ requests'[Len(requests) + 1] = c
            /\ \A k \in 1 .. Len(requests) : requests'[k] = requests[k]
        BY <1>0, <3>1
      <4>2. \A k \in 1 .. Len(requests') : k \in 1 .. Len(requests) \/ k = Len(requests) + 1
        BY <4>1
      <4>3. current # c /\ \A k \in 1 .. Len(requests) : requests[k] # c
        BY <2>2 DEF Asked
      <4> QED BY <2>1, <4>1, <4>2, <4>3 DEF OwnerInv, OneRequest, Asked
    <3>2. CASE requests' = requests
      BY <2>1, <3>2 DEF OwnerInv, OneRequest, Asked
    <3> QED BY <2>1, <3>1, <3>2
  <2> QED BY <2>1, <2>2, <2>3, <2>4 DEF OwnerInv, Owns, Alive
<1>2. CASE ServerReads
  <2>1. /\ requests # <<>> /\ current' = requests[1] /\ requests' = <<>>
        /\ UNCHANGED <<number_of_clients, pid_array, snapshot, pc, child>>
    BY <1>0, <1>2 DEF ServerReads, hostVars, tableVars
  <2>2. 1 \in 1 .. Len(requests)
    BY <1>0, <2>1
  <2>3. OneRequest' /\ \A d \in Clients : Asked(d)' => Asked(d)
    BY <2>1, <2>2 DEF OneRequest, Asked
  <2> QED BY <2>1, <2>3 DEF OwnerInv, Owns, Alive
<1>3. CASE ServerAssigns
  <2>0. PICK me \in Clients : me = current
    BY <1>0, <1>3 DEF ServerAssigns, Cells
  <2>1. /\ i \in Cells /\ i <= number_of_clients /\ current = me /\ FreeSlot(i)
        /\ pid_array' = [pid_array EXCEPT ![i] = me]
        /\ snapshot' = [snapshot EXCEPT ![me] = pid_array']
        /\ child' = [child EXCEPT ![me] = "setup"]
        /\ current' = NoClient
        /\ UNCHANGED <<number_of_clients, requests, pc>>
    BY <1>0, <1>3, <2>0 DEF ServerAssigns, hostVars
  <2>2. child[me] = "none" /\ \A s \in Cells : pid_array[s] # me
    BY <2>1 DEF OwnerInv, Asked
  <2>3. OneRequest' /\ \A d \in Clients : Asked(d)' => Asked(d) /\ d # me
    BY <1>0, <2>1 DEF OwnerInv, OneRequest, Asked
  <2>4. \A s \in Cells : pid_array'[s] = IF s = i THEN me ELSE pid_array[s]
    BY <1>0, <2>1
  <2>5. \A d \in Clients : child'[d] = "none" => child[d] = "none" /\ d # me
    BY <1>0, <2>1
  <2>6. \A d \in Clients : d # me => child'[d] = child[d] /\ snapshot'[d] = snapshot[d]
    BY <1>0, <2>1
  <2>7. Owns(me)'
    <3>1. snapshot'[me][i] = me
      BY <1>0, <2>1, <2>4
    <3>2. \A t \in Cells : pid_array'[t] = me <=> t = i
      BY <2>1, <2>2, <2>4
    <3> QED BY <2>1, <3>1, <3>2 DEF Owns
  <2>8. ASSUME NEW d \in Clients, d # me, child'[d] # "none", Alive(d)' PROVE Owns(d)'
    <3>1. Alive(d) /\ Owns(d)
      BY <2>1, <2>6, <2>8 DEF OwnerInv, Alive
    <3>2. PICK s \in Cells :
            /\ s <= number_of_clients /\ snapshot[d][s] = d
            /\ \A t \in Cells : pid_array[t] = d <=> t = s
      BY <3>1 DEF Owns
    <3>3. pid_array[i] # d
      BY <1>0, <2>1, <3>1 DEF FreeSlot, Alive
    <3>4. s # i
      BY <3>2, <3>3
    <3>5. \A t \in Cells : pid_array'[t] = d <=> t = s
      BY <2>4, <2>8, <3>2, <3>4
    <3> QED BY <2>1, <2>6, <2>8, <3>2, <3>5 DEF Owns
  <2>9. \A d \in Clients : child'[d] # "none" /\ Alive(d)' => Owns(d)'
    <3> SUFFICES ASSUME NEW d \in Clients, child'[d] # "none", Alive(d)' PROVE Owns(d)'
      BY DEF Alive, Owns
    <3> QED BY <2>7, <2>8
  <2>10. \A d \in Clients : child'[d] = "none" => \A s \in Cells : pid_array'[s] # d
    BY <2>4, <2>5 DEF OwnerInv
  <2>11. \A d \in Clients : Asked(d)' \/ pc'[d] = "start" => child'[d] = "none"
    BY <2>1, <2>3, <2>6 DEF OwnerInv, Asked
  <2>12. \A d \in Clients : Asked(d)' => pc'[d] # "start"
    BY <2>1, <2>3 DEF OwnerInv
  <2> QED BY <2>3, <2>9, <2>10, <2>11, <2>12 DEF OwnerInv
<1>4. CASE ServerProbesOn \/ ServerFull
  <2>1. /\ UNCHANGED <<number_of_clients, requests, pid_array, snapshot, pc, child>>
        /\ current' = current \/ current' = NoClient
    BY <1>4 DEF ServerProbesOn, ServerFull, hostVars, tableVars
  <2>2. \A k \in 1 .. Len(requests) : requests[k] # NoClient
    BY <1>0
  <2>3. OneRequest' /\ \A d \in Clients : Asked(d)' => Asked(d)
    BY <1>0, <2>1, <2>2 DEF OwnerInv, OneRequest, Asked
  <2> QED BY <2>1, <2>3 DEF OwnerInv, Owns, Alive
<1>5. CASE signal_handler
  <2>1. Bystanding
    BY <1>0, <1>5 DEF signal_handler, Bystanding, loopVars, tableVars
  <2> QED BY <2>1, OwnerKept
<1>6. ASSUME NEW c \in Clients,
             \/ ClientStep(c) \/ ClientDies(c) \/ ChildStep(c)
             \/ \E command \in Commands \cup {"quit"} : ClientTypes(c, command)
      PROVE  OwnerInv'
  BY <1>6, ClientBystands, ChildBystands, OwnerKept
<1>7. CASE UNCHANGED vars
  BY <1>7, OwnerKept DEF Bystanding, vars, serverVars, hostVars, loopVars, tableVars
<1> QED BY <1>1, <1>2, <1>3, <1>4, <1>5, <1>6, <1>7 DEF Next, ServerStep

(* A living client with a child has exactly one slot, the one in its       *)
(* child's copy of the table: no slot is given away under a client, and no *)
(* client has two.                                                         *)
THEOREM SlotsOwned == Spec => []SlotOwner
<1>1. OwnerInv => SlotOwner
  BY DEF OwnerInv, Owns, SlotOwner
<1> QED BY <1>1, OwnerInit, OwnerStep, TypeInvariant, PTL DEF Spec
=============================================================================
