------------------------ MODULE ConsulRegistryProofs ------------------------
(***************************************************************************)
(* Theorems about ConsulRegistry, for every set of processes, agents,      *)
(* services and heartbeat goroutines and every combination of faults: the  *)
(* type invariant, and that Close and the heartbeat goroutines never send  *)
(* on a closed channel, close one twice or fill one up.                    *)
(***************************************************************************)
EXTENDS ConsulRegistry, TLAPS

CloseSteps == {"send", "locks", "await", "shut", "clear"}

(* Where Close is between its send over chHeartbeat and the answer.        *)
Releasing == {"locks", "await"}

(* A goroutine that executes something of a service has an id, and a       *)
(* heartbeat goroutine has a process.                                      *)
Assigned ==
  /\ \A g \in Goroutine :
       task[g].pc \notin CloseSteps \cup {"idle"} => task[g].id \in Id
  /\ \A b \in Beat : task[b].pc # "idle" => task[b].node \in Node

(* The protocol of Close, process by process:                              *)
(*  - only an open store is in use by its application;                     *)
(*  - the channels are closed by the last step but one of Close;           *)
(*  - at most one heartbeat goroutine was told to end: from then on, until *)
(*    it has answered and the answer has been taken, Close waits for it;   *)
(*  - hearbeatPresent is TRUE while one that has started is there, so that *)
(*    Close does not pass by its answer.                                   *)
Protocol ==
  /\ \A n \in Node : task[n].pc # "idle" => status[n] = "open"
  /\ \A n \in Node : shut[n] /\ status[n] = "open" => task[n].pc = "clear"
  /\ \A n \in Node : ends[n] > 0 /\ status[n] = "open" =>
       ends[n] = 1 /\ task[n].pc \in Releasing /\ present[n]
  /\ \A b \in Beat : task[b].pc = "end" => task[b].brk
  /\ \A b \in Beat : task[b].pc = "new" => ~task[b].brk
  /\ \A n \in Node : \A b \in Beat :
       task[b].node = n /\ task[b].pc # "new" => present[n]
  /\ \A n \in Node : \A b \in Beat :
       task[b].node = n /\ task[b].brk => task[n].pc \in Releasing /\ ends[n] = 0
  /\ \A b, c \in Beat :
       task[b].node = task[c].node /\ task[b].brk /\ task[c].brk => b = c

IInv == TypeOK /\ Assigned /\ Protocol

LEMMA IdleType ==
  /\ Idle \in Tasks
  /\ Idle.pc = "idle" /\ Idle.node = None /\ ~Idle.brk
  /\ None \notin Node
  BY RegistryAssumption DEF RegistryAssumption, Idle, Tasks

(* A heartbeat goroutine as Register starts it.                            *)
LEMMA NewBeatFacts ==
  ASSUME NEW g
  PROVE  /\ NewBeat(g).pc = "new" /\ NewBeat(g).node = NodeOf(g)
         /\ NewBeat(g).id = task[g].id /\ ~NewBeat(g).brk
         /\ NewBeat(g).all <=> task[g].id \in Vague
         /\ NodeOf(g) \in Node /\ task[g].id \in Id => NewBeat(g) \in Tasks
<1> DEFINE v == task[g].id \in Vague
           t == [Idle EXCEPT !.pc = "new", !.node = NodeOf(g), !.id = task[g].id,
                             !.all = v]
<1>1. v \in BOOLEAN /\ NewBeat(g) = t
  BY DEF NewBeat
<1> HIDE DEF v
<1>2. /\ t.pc = "new" /\ t.node = NodeOf(g) /\ t.id = task[g].id /\ ~t.brk
      /\ t.all = v
  BY DEF Idle
<1>3. NodeOf(g) \in Node /\ task[g].id \in Id => t \in Tasks
  BY <1>1 DEF Idle, Tasks
<1> HIDE DEF t
<1> QED
  BY <1>1, <1>2, <1>3 DEF v

(* The protocol allows no bad use of a channel. *)
LEMMA ProtocolIsSafe == IInv => ChannelsSafe
<1> SUFFICES ASSUME IInv, NEW n \in Node
             PROVE  /\ task[n].pc \in {"send", "locks", "await", "shut"} => ~shut[n]
                    /\ \A b \in BeatsOf(n) :
                         task[b].pc = "end" => ~shut[n] /\ ends[n] < EndCapacity
  BY DEF ChannelsSafe
<1>1. task[n].pc \in {"send", "locks", "await", "shut"} => ~shut[n]
  BY DEF IInv, Protocol
<1>2. ASSUME NEW b \in BeatsOf(n), task[b].pc = "end"
      PROVE  ~shut[n] /\ ends[n] < EndCapacity
  <2>1. b \in Beat /\ task[b].node = n /\ task[b].brk
    BY <1>2 DEF BeatsOf, IInv, Protocol
  <2>2. task[n].pc \in Releasing /\ ends[n] = 0
    BY <2>1 DEF IInv, Protocol
  <2> QED
    BY <1>1, <2>2 DEF Releasing, EndCapacity
<1> QED
  BY <1>1, <1>2

LEMMA InitInv == Init => IInv
<1> SUFFICES ASSUME Init PROVE IInv
  OBVIOUS
<1> USE IdleType
<1>1. TypeOK
  BY DEF Init, TypeOK, EndCapacity
<1>2. Assigned
  BY DEF Init, Assigned, Goroutine
<1>3. Protocol
  BY DEF Init, Protocol, Goroutine
<1> QED
  BY <1>1, <1>2, <1>3 DEF IInv

(* A process may end at any time: nothing of it stays. *)
LEMMA DieInv ==
  ASSUME IInv, NEW n \in Node, Stop(n),
         services' \in [Agent -> SUBSET Id],
         passing' \in [Agent -> SUBSET Id],
         \A a \in Agent : passing'[a] \subseteq services'[a]
  PROVE  IInv'
<1> USE IdleType DEF Stop
<1>1. \A g \in Goroutine : task'[g] = Idle \/ (task'[g] = task[g] /\ g # n)
  OBVIOUS
<1>2. \A b \in Beat : task'[b].node # n
  BY DEF Goroutine, BeatsOf
<1>3. TypeOK'
  BY <1>1 DEF IInv, TypeOK
<1>4. Assigned'
  BY <1>1 DEF IInv, Assigned, Goroutine
<1>5. \A m \in Node : m # n =>
        status'[m] = status[m] /\ task'[m] = task[m]
  BY RegistryAssumption DEF Goroutine, BeatsOf, RegistryAssumption, IInv, TypeOK
<1>6. status'[n] = "dead" /\ task'[n] = Idle
  BY DEF IInv, TypeOK, Goroutine
<1>7. \A b \in Beat : task'[b] = Idle \/ task'[b] = task[b]
  BY <1>1 DEF Goroutine
<1>8. Protocol'
  <2>1. \A m \in Node : task'[m].pc # "idle" => status'[m] = "open"
    BY <1>5, <1>6 DEF IInv, Protocol
  <2>2. ASSUME NEW m \in Node, shut'[m], status'[m] = "open"
        PROVE  task'[m].pc = "clear"
    <3>1. m # n
      BY <1>6, <2>2
    <3>2. shut[m] /\ status[m] = "open" /\ task'[m] = task[m]
      BY <1>5, <2>2, <3>1
    <3> QED
      BY <3>2 DEF IInv, Protocol
  <2>3. \A m \in Node : ends'[m] > 0 /\ status'[m] = "open" =>
          ends'[m] = 1 /\ task'[m].pc \in Releasing /\ present'[m]
    BY <1>5, <1>6 DEF IInv, Protocol
  <2>4. /\ \A b \in Beat : task'[b].pc = "end" => task'[b].brk
        /\ \A b \in Beat : task'[b].pc = "new" => ~task'[b].brk
    BY <1>7 DEF IInv, Protocol
  <2>5. \A m \in Node : \A b \in Beat : task'[b].node = m =>
          m # n /\ task'[b] = task[b] /\ task'[m] = task[m]
    BY <1>2, <1>5, <1>7
  <2>6. \A m \in Node : \A b \in Beat :
          task'[b].node = m /\ task'[b].pc # "new" => present'[m]
    BY <2>5 DEF IInv, Protocol
  <2>7. ASSUME NEW m \in Node, NEW b \in Beat, task'[b].node = m, task'[b].brk
        PROVE  task'[m].pc \in Releasing /\ ends'[m] = 0
    <3>1. task[b].node = m /\ task[b].brk /\ task'[m] = task[m]
      BY <2>5, <2>7
    <3> QED
      BY <3>1 DEF IInv, Protocol
  <2>8. ASSUME NEW b \in Beat, NEW c \in Beat,
               task'[b].node = task'[c].node, task'[b].brk, task'[c].brk
        PROVE  b = c
    <3>1. task'[b] # Idle /\ task'[c] # Idle
      BY <2>8
    <3>2. task'[b] = task[b] /\ task'[c] = task[c]
      BY <1>7, <3>1
    <3> QED
      BY <2>8, <3>2 DEF IInv, Protocol
  <2> QED
    BY <2>1, <2>2, <2>3, <2>4, <2>6, <2>7, <2>8 DEF Protocol
<1> QED
  BY <1>3, <1>4, <1>8 DEF IInv

LEMMA DiesInv ==
  ASSUME IInv, NEW n \in Node, Die(n)
  PROVE  IInv'
<1>1. /\ services' \in [Agent -> SUBSET Id]
      /\ passing' \in [Agent -> SUBSET Id]
      /\ \A a \in Agent : passing'[a] \subseteq services'[a]
  BY DEF Die, IInv, TypeOK
<1> QED
  BY <1>1, DieInv DEF Die

(* A step that leaves the fields of the stores alone, moves no application *)
(* into, out of or through its Close, tells no heartbeat goroutine to end  *)
(* and starts at most new ones, keeps the protocol.                        *)
LEMMA ProtocolKept ==
  ASSUME IInv, UNCHANGED <<status, present, shut, ends>>,
         \A n \in Node :
           \/ task'[n].pc = task[n].pc
           \/ /\ task[n].pc \notin CloseSteps /\ task'[n].pc \notin CloseSteps
              /\ task'[n].pc # "idle" => status[n] = "open",
         \A b \in Beat :
           \/ task'[b].node \notin Node /\ task'[b].pc # "end" /\ ~task'[b].brk
           \/ task'[b].pc = "new" /\ ~task'[b].brk
           \/ /\ task'[b].node = task[b].node /\ task'[b].brk = task[b].brk
              /\ task'[b].pc = "new" <=> task[b].pc = "new"
              /\ task'[b].pc = "end" => task'[b].brk
  PROVE  Protocol'
<1>1. \A n \in Node : task'[n].pc # "idle" => status'[n] = "open"
  BY DEF IInv, Protocol, CloseSteps
<1>2. \A n \in Node : shut'[n] /\ status'[n] = "open" => task'[n].pc = "clear"
  BY DEF IInv, Protocol, CloseSteps
<1>3. \A n \in Node : task[n].pc \in Releasing => task'[n].pc \in Releasing
  BY DEF Releasing, CloseSteps
<1>4. \A n \in Node : ends'[n] > 0 /\ status'[n] = "open" =>
        ends'[n] = 1 /\ task'[n].pc \in Releasing /\ present'[n]
  BY <1>3 DEF IInv, Protocol
<1>5. /\ \A b \in Beat : task'[b].pc = "end" => task'[b].brk
      /\ \A b \in Beat : task'[b].pc = "new" => ~task'[b].brk
  BY DEF IInv, Protocol
<1>6. \A n \in Node : \A b \in Beat :
        task'[b].node = n /\ task'[b].pc # "new" => present'[n]
  BY DEF IInv, Protocol
<1>7. \A n \in Node : \A b \in Beat :
        task'[b].node = n /\ task'[b].brk => task'[n].pc \in Releasing /\ ends'[n] = 0
  BY <1>3 DEF IInv, Protocol
<1>8. \A b, c \in Beat :
        task'[b].node = task'[c].node /\ task'[b].brk /\ task'[c].brk => b = c
  BY DEF IInv, Protocol
<1> QED
  BY <1>1, <1>2, <1>4, <1>5, <1>6, <1>7, <1>8 DEF Protocol

(* One goroutine goes on with its call. *)
LEMMA MovesInv ==
  ASSUME IInv, NEW g \in Goroutine, NEW t \in Tasks,
         task' = [task EXCEPT ![g] = t],
         UNCHANGED <<status, present, shut, ends>>,
         services' \in [Agent -> SUBSET Id],
         passing' \in [Agent -> SUBSET Id],
         \A a \in Agent : passing'[a] \subseteq services'[a],
         t.pc \notin CloseSteps \cup {"idle"} => t.id \in Id,
         g \in Node => /\ task[g].pc \notin CloseSteps /\ t.pc \notin CloseSteps
                       /\ t.pc # "idle" => status[g] = "open",
         g \in Beat => /\ t.node = task[g].node /\ t.brk = task[g].brk
                       /\ t.node \in Node /\ t.pc # "new"
                       /\ task[g].pc # "new"
                       /\ t.pc = "end" => t.brk
  PROVE  IInv'
<1>1. TypeOK'
  BY DEF IInv, TypeOK
<1>2. Assigned'
  BY DEF IInv, TypeOK, Assigned, Goroutine
<1>3. \A n \in Node : task'[n] = IF n = g THEN t ELSE task[n]
  BY DEF IInv, TypeOK, Goroutine
<1>4. \A b \in Beat : task'[b] = IF b = g THEN t ELSE task[b]
  BY DEF IInv, TypeOK, Goroutine
<1>5. \A b \in Beat : task[b].pc = "end" => task[b].brk
  BY DEF IInv, Protocol
<1>6. Protocol'
  BY <1>3, <1>4, <1>5, ProtocolKept
<1> QED
  BY <1>1, <1>2, <1>6 DEF IInv

-----------------------------------------------------------------------------
(* The steps of Register and Deregister, whoever executes them.            *)

InCall == {"query", "register", "deregister", "fast", "slow", "remove"}

LEMMA CallerFacts ==
  ASSUME IInv, NEW g \in Goroutine, task[g].pc # "idle"
  PROVE  /\ task[g] \in Tasks
         /\ NodeOf(g) \in Node /\ Host(g) \in Agent
         /\ g \in Beat => g \notin Node /\ task[g].node \in Node
         /\ g \in Node => status[g] = "open"
         /\ task[g].pc \notin CloseSteps => task[g].id \in Id
<1> USE RegistryAssumption DEF RegistryAssumption
<1>1. task[g] \in Tasks
  BY DEF IInv, TypeOK
<1>2. g \in Beat => g \notin Node /\ task[g].node \in Node
  BY DEF IInv, Assigned
<1>3. g \in Node => status[g] = "open"
  BY DEF IInv, Protocol
<1>4. task[g].pc \notin CloseSteps => task[g].id \in Id
  BY DEF IInv, Assigned
<1>5. NodeOf(g) \in Node
  BY <1>2 DEF NodeOf, Goroutine
<1>6. Host(g) \in Agent
  BY <1>5 DEF Host
<1> QED
  BY <1>1, <1>2, <1>3, <1>4, <1>5, <1>6

(* The next step of a call. *)
LEMMA GotoInv ==
  ASSUME IInv, NEW g \in Goroutine, task[g].pc \in InCall,
         NEW pc \in InCall, Goto(g, pc),
         services' \in [Agent -> SUBSET Id],
         passing' \in [Agent -> SUBSET Id],
         \A a \in Agent : passing'[a] \subseteq services'[a],
         UNCHANGED <<status, present, shut, ends>>
  PROVE  IInv'
<1> DEFINE t == [task[g] EXCEPT !.pc = pc]
<1>0. pc \notin CloseSteps /\ pc \notin {"idle", "new", "end"} /\ task[g].pc \notin CloseSteps
       /\ task[g].pc \notin {"idle", "new", "end"}
  BY DEF InCall, CloseSteps
<1>1. task[g] \in Tasks
  BY <1>0, CallerFacts
<1>2. /\ t \in Tasks /\ t.pc = pc /\ t.id = task[g].id
      /\ t.node = task[g].node /\ t.brk = task[g].brk
  BY <1>1 DEF Tasks, InCall
<1>3. task' = [task EXCEPT ![g] = t]
  BY DEF Goto
<1> HIDE DEF t
<1> QED
  BY <1>0, <1>1, <1>2, <1>3, CallerFacts, MovesInv

(* Its end. *)
LEMMA ReturnInv ==
  ASSUME IInv, NEW g \in Goroutine, task[g].pc \in InCall, Return(g),
         services' \in [Agent -> SUBSET Id],
         passing' \in [Agent -> SUBSET Id],
         \A a \in Agent : passing'[a] \subseteq services'[a],
         UNCHANGED <<status, present, shut, ends>>
  PROVE  IInv'
<1>0. task[g].pc \notin CloseSteps /\ task[g].pc \notin {"idle", "new", "end"}
  BY DEF InCall, CloseSteps
<1>1. task[g] \in Tasks
  BY <1>0, CallerFacts
<1>2. task' = [task EXCEPT ![g] = Back(g)]
  BY DEF Return
<1>3. CASE g \in Node
  <2>1. Back(g) = Idle
    BY <1>3 DEF Back
  <2>2. g \notin Beat
    BY <1>3, RegistryAssumption DEF RegistryAssumption
  <2> QED
    BY <1>0, <1>2, <1>3, <2>1, <2>2, IdleType, MovesInv DEF CloseSteps
<1>4. CASE g \notin Node
  <2> DEFINE t == Back(g)
  <2>1. t = [task[g] EXCEPT !.pc = IF task[g].brk THEN "end" ELSE "select",
                            !.taken = {}]
    BY <1>4 DEF Back
  <2>2. /\ t \in Tasks /\ t.pc \in {"end", "select"} /\ t.id = task[g].id
        /\ t.node = task[g].node /\ t.brk = task[g].brk
        /\ t.pc = "end" => t.brk
    BY <1>1, <2>1 DEF Tasks
  <2>3. g \in Beat
    BY <1>4 DEF Goroutine
  <2> HIDE DEF t
  <2>4. task' = [task EXCEPT ![g] = t]
    BY <1>2 DEF t
  <2> QED
    BY <1>0, <1>1, <1>4, <2>2, <2>3, <2>4, CallerFacts, MovesInv DEF CloseSteps
<1> QED
  BY <1>3, <1>4

LEMMA QueryInv ==
  ASSUME IInv, NEW g \in Goroutine, Query(g)
  PROVE  IInv'
<1>1. task[g].pc \in InCall
  BY DEF Query, InCall
<1>2. NodeOf(g) \in Node
  BY <1>1, CallerFacts DEF InCall
<1>3. CASE IsOpen(g)
  <2>1. /\ Return(g) \/ Goto(g, "register")
        /\ UNCHANGED <<services, passing, status, present, shut, ends>>
    BY <1>3 DEF Query
  <2>2. /\ services' \in [Agent -> SUBSET Id] /\ passing' \in [Agent -> SUBSET Id]
        /\ \A a \in Agent : passing'[a] \subseteq services'[a]
    BY <2>1 DEF IInv, TypeOK
  <2> QED
    BY <1>1, <2>1, <2>2, ReturnInv, GotoInv DEF InCall
<1>4. CASE ~IsOpen(g)
  BY <1>2, <1>4, DiesInv DEF Query
<1> QED
  BY <1>3, <1>4

(* What the agents keep stays of its type when one is registered, or some  *)
(* are taken off.                                                          *)
LEMMA AddType ==
  ASSUME IInv, NEW a \in Agent, NEW i \in Id,
         services' = [services EXCEPT ![a] = @ \cup {i}], passing' = passing
  PROVE  /\ services' \in [Agent -> SUBSET Id] /\ passing' \in [Agent -> SUBSET Id]
         /\ \A x \in Agent : passing'[x] \subseteq services'[x]
  BY DEF IInv, TypeOK

LEMMA DropType ==
  ASSUME IInv, NEW a \in Agent, NEW S, Drop(a, S)
  PROVE  /\ services' \in [Agent -> SUBSET Id] /\ passing' \in [Agent -> SUBSET Id]
         /\ \A x \in Agent : passing'[x] \subseteq services'[x]
  BY DEF IInv, TypeOK, Drop

LEMMA SameType ==
  ASSUME IInv, services' = services, passing' = passing
  PROVE  /\ services' \in [Agent -> SUBSET Id] /\ passing' \in [Agent -> SUBSET Id]
         /\ \A x \in Agent : passing'[x] \subseteq services'[x]
  BY DEF IInv, TypeOK

LEMMA BeginInv ==
  ASSUME IInv, NEW g \in Goroutine, Begin(g)
  PROVE  IInv'
<1>1. task[g].pc \in InCall
  BY DEF Begin, InCall
<1>2. NodeOf(g) \in Node
  BY <1>1, CallerFacts DEF InCall
<1>3. CASE IsOpen(g)
  <2>1. PICK pc \in {"slow", "fast"} : Goto(g, pc)
    BY <1>3 DEF Begin
  <2>2. UNCHANGED <<services, passing, status, present, shut, ends>>
    BY <1>3 DEF Begin
  <2> QED
    BY <1>1, <2>1, <2>2, SameType, GotoInv DEF InCall
<1>4. CASE ~IsOpen(g)
  BY <1>2, <1>4, DiesInv DEF Begin
<1> QED
  BY <1>3, <1>4

LEMMA DeregisterFastInv ==
  ASSUME IInv, NEW g \in Goroutine, DeregisterFast(g)
  PROVE  IInv'
<1>1. task[g].pc \in InCall
  BY DEF DeregisterFast, InCall
<1>2. NodeOf(g) \in Node /\ Host(g) \in Agent
  BY <1>1, CallerFacts DEF InCall
<1>3. CASE Die(NodeOf(g))
  BY <1>2, <1>3, DiesInv
<1>4. ASSUME NEW id, NEW answer,
             IF answer = "fail" THEN UNCHANGED <<services, passing>>
             ELSE Drop(Host(g), {id}),
             IF answer = "ok" THEN Return(g) ELSE Goto(g, "slow"),
             UNCHANGED <<status, present, shut, ends>>
      PROVE  IInv'
  <2>1. /\ services' \in [Agent -> SUBSET Id] /\ passing' \in [Agent -> SUBSET Id]
        /\ \A x \in Agent : passing'[x] \subseteq services'[x]
    <3>1. CASE answer = "fail"
      BY <1>4, <3>1, SameType
    <3>2. CASE answer # "fail"
      BY <1>2, <1>4, <3>2, DropType
    <3> QED
      BY <3>1, <3>2
  <2>2. Return(g) \/ Goto(g, "slow")
    BY <1>4
  <2> QED
    BY <1>1, <1>4, <2>1, <2>2, ReturnInv, GotoInv DEF InCall
<1> QED
  BY <1>3, <1>4 DEF DeregisterFast

LEMMA LookInv ==
  ASSUME IInv, NEW g \in Goroutine, Look(g)
  PROVE  IInv'
<1>1. /\ task[g].pc = "slow" /\ task[g].pc \in InCall
      /\ task[g].pc \notin CloseSteps
      /\ task[g].pc \notin {"idle", "new", "end"}
  BY DEF Look, InCall, CloseSteps
<1>2. NodeOf(g) \in Node /\ task[g] \in Tasks
  BY <1>1, CallerFacts
<1>3. CASE Die(NodeOf(g))
  BY <1>2, <1>3, DiesInv
<1>4. CASE /\ Return(g)
           /\ UNCHANGED <<services, passing, status, present, shut, ends>>
  BY <1>1, <1>4, SameType, ReturnInv
<1>5. CASE /\ task' = [task EXCEPT ![g].pc = "remove", ![g].taken = Taken(g)]
           /\ UNCHANGED <<services, passing, status, present, shut, ends>>
  <2> DEFINE t == [task[g] EXCEPT !.pc = "remove", !.taken = Taken(g)]
  <2>1. Taken(g) \in SUBSET Id
    BY DEF Taken, Instances, IInv, TypeOK
  <2>2. /\ t \in Tasks /\ t.pc = "remove" /\ t.id = task[g].id
        /\ t.node = task[g].node /\ t.brk = task[g].brk
    BY <1>2, <2>1 DEF Tasks
  <2>3. task' = [task EXCEPT ![g] = t]
    BY <1>2, <1>5 DEF IInv, TypeOK, Tasks
  <2> HIDE DEF t
  <2>4. t.pc \notin CloseSteps
    BY <2>2 DEF CloseSteps
  <2>5. /\ services' \in [Agent -> SUBSET Id] /\ passing' \in [Agent -> SUBSET Id]
        /\ \A a \in Agent : passing'[a] \subseteq services'[a]
        /\ UNCHANGED <<status, present, shut, ends>>
    BY <1>5, SameType
  <2>6. /\ g \in Beat => g \notin Node /\ t.node \in Node
        /\ g \in Node => status[g] = "open"
        /\ t.id \in Id
    BY <1>1, <2>2, CallerFacts
  <2> QED
    BY <1>1, <2>2, <2>3, <2>4, <2>5, <2>6, MovesInv
<1> QED
  BY <1>3, <1>4, <1>5 DEF Look

LEMMA RemoveInv ==
  ASSUME IInv, NEW g \in Goroutine, Remove(g)
  PROVE  IInv'
<1>1. task[g].pc \in InCall
  BY DEF Remove, InCall
<1>2. NodeOf(g) \in Node /\ Host(g) \in Agent
  BY <1>1, CallerFacts DEF InCall
<1>3. ASSUME NEW S, Drop(Host(g), S), Stop(NodeOf(g))
      PROVE  IInv'
  BY <1>2, <1>3, DropType, DieInv
<1>4. CASE /\ Drop(Host(g), task[g].taken)
           /\ Return(g)
           /\ UNCHANGED <<status, present, shut, ends>>
  BY <1>1, <1>2, <1>4, DropType, ReturnInv
<1> QED
  BY <1>3, <1>4 DEF Remove

LEMMA ServiceRegisterInv ==
  ASSUME IInv, NEW g \in Goroutine, ServiceRegister(g)
  PROVE  IInv'
<1>1. /\ task[g].pc = "register" /\ task[g].pc \in InCall
      /\ task[g].pc # "idle" /\ task[g].pc \notin CloseSteps
  BY DEF ServiceRegister, InCall, CloseSteps
<1>2. /\ NodeOf(g) \in Node /\ Host(g) \in Agent /\ task[g].id \in Id
      /\ task[g] \in Tasks
      /\ g \in Beat => g \notin Node /\ task[g].node \in Node
  BY <1>1, CallerFacts
<1>3. CASE ~IsOpen(g)
  BY <1>2, <1>3, DiesInv DEF ServiceRegister
<1>4. CASE IsOpen(g)
  <2>1. PICK answer \in Answers :
          /\ services' = IF answer = "fail" THEN services
                         ELSE [services EXCEPT ![Host(g)] = @ \cup {task[g].id}]
          /\ UNCHANGED passing
          /\ IF answer = "ok"
             THEN /\ \E b \in Free :
                       task' = [task EXCEPT ![g] = Back(g), ![b] = NewBeat(g)]
                  /\ UNCHANGED <<status, present, shut, ends>>
             ELSE Stop(NodeOf(g))
    BY <1>4 DEF ServiceRegister
  <2>2. /\ services' \in [Agent -> SUBSET Id] /\ passing' \in [Agent -> SUBSET Id]
        /\ \A a \in Agent : passing'[a] \subseteq services'[a]
    <3>1. CASE answer = "fail"
      BY <2>1, <3>1, SameType
    <3>2. CASE answer # "fail"
      BY <1>2, <2>1, <3>2, AddType
    <3> QED
      BY <3>1, <3>2
  <2>3. CASE answer # "ok"
    BY <1>2, <2>1, <2>2, <2>3, DieInv
  <2>4. CASE answer = "ok"
    <3>1. UNCHANGED <<status, present, shut, ends>>
      BY <2>1, <2>4
    <3> DEFINE u == NewBeat(g)
               t == Back(g)
    <3>2. PICK b \in Free : task' = [task EXCEPT ![g] = t, ![b] = u]
      BY <2>1, <2>4
    <3>3. /\ u \in Tasks /\ u.pc = "new" /\ u.node \in Node
          /\ u.id \in Id /\ ~u.brk
      BY <1>2, NewBeatFacts
    <3>4. b \in Beat /\ b # g /\ b \in Goroutine /\ b \notin Node
      BY <1>1, IdleType, RegistryAssumption DEF Free, Goroutine, RegistryAssumption
    <3>5. CASE g \in Node
      <4>1. t = Idle /\ g \notin Beat
        BY <3>5, RegistryAssumption DEF Back, RegistryAssumption
      <4>2. \A x \in Goroutine :
              task'[x] = IF x = b THEN u ELSE IF x = g THEN Idle ELSE task[x]
        BY <3>2, <4>1 DEF IInv, TypeOK
      <4>3. task' \in [Goroutine -> Tasks]
        BY <3>2, <3>3, <4>1, IdleType DEF IInv, TypeOK
      <4> HIDE DEF u, t
      <4>4. TypeOK'
        BY <2>2, <3>1, <4>3 DEF IInv, TypeOK
      <4>5. Assigned'
        BY <3>3, <3>4, <4>2, IdleType DEF IInv, Assigned, Goroutine
      <4>6. \A n \in Node : task'[n] = IF n = g THEN Idle ELSE task[n]
        BY <3>4, <4>2 DEF Goroutine
      <4>7. \A x \in Beat : task'[x] = IF x = b THEN u ELSE task[x]
        BY <4>1, <4>2 DEF Goroutine
      <4>8. Protocol'
        <5>1. \A x \in Beat : task[x].pc = "end" => task[x].brk
          BY DEF IInv, Protocol
        <5> QED
          BY <1>1, <3>1, <3>3, <4>6, <4>7, <5>1, IdleType, ProtocolKept DEF CloseSteps
      <4> QED
        BY <4>4, <4>5, <4>8 DEF IInv
    <3>6. CASE g \notin Node
      <4>1. t = [task[g] EXCEPT !.pc = IF task[g].brk THEN "end" ELSE "select",
                                !.taken = {}]
        BY <3>6 DEF Back
      <4>2. /\ t \in Tasks /\ t.pc \in {"end", "select"} /\ t.id = task[g].id
            /\ t.node = task[g].node /\ t.brk = task[g].brk
            /\ t.pc = "end" => t.brk
        BY <1>2, <4>1 DEF Tasks
      <4>3. g \in Beat
        BY <3>6 DEF Goroutine
      <4> HIDE DEF u, t
      <4>4. \A x \in Goroutine :
              task'[x] = IF x = b THEN u ELSE IF x = g THEN t ELSE task[x]
        BY <3>2 DEF IInv, TypeOK
      <4>5. task' \in [Goroutine -> Tasks]
        BY <3>2, <3>3, <4>2 DEF IInv, TypeOK
      <4>6. TypeOK'
        BY <2>2, <3>1, <4>5 DEF IInv, TypeOK
      <4>7. Assigned'
        BY <1>2, <3>3, <3>4, <4>2, <4>3, <4>4 DEF IInv, Assigned, Goroutine
      <4>8. \A n \in Node : task'[n] = task[n]
        BY <3>4, <3>6, <4>4 DEF Goroutine
      <4>9. \A x \in Beat :
              task'[x] = IF x = b THEN u ELSE IF x = g THEN t ELSE task[x]
        BY <4>4 DEF Goroutine
      <4>10. Protocol'
        <5>1. \A x \in Beat : task[x].pc = "end" => task[x].brk
          BY DEF IInv, Protocol
        <5> QED
          BY <1>1, <3>1, <3>3, <4>2, <4>8, <4>9, <5>1, ProtocolKept
      <4> QED
        BY <4>6, <4>7, <4>10 DEF IInv
    <3> QED
      BY <3>5, <3>6
  <2> QED
    BY <2>3, <2>4
<1> QED
  BY <1>3, <1>4

-----------------------------------------------------------------------------
(* The calls of the application.                                           *)

LEMMA RegisterInv ==
  ASSUME IInv, NEW n \in Node, NEW id \in Id, Register(n, id)
  PROVE  IInv'
<1> DEFINE t == [Idle EXCEPT !.pc = "query", !.id = id]
<1>1. /\ t \in Tasks /\ t.pc = "query" /\ t.id = id
  BY DEF Idle, Tasks
<1>2. /\ task' = [task EXCEPT ![n] = t] /\ task[n].pc = "idle" /\ status[n] = "open"
      /\ UNCHANGED <<services, passing, status, present, shut, ends>>
  BY IdleType DEF Register
<1>3. n \in Goroutine /\ n \notin Beat
  BY RegistryAssumption DEF Goroutine, RegistryAssumption
<1> HIDE DEF t
<1> QED
  BY <1>1, <1>2, <1>3, SameType, MovesInv DEF CloseSteps

LEMMA DeregisterInv ==
  ASSUME IInv, NEW n \in Node, NEW id \in Id, NEW all \in BOOLEAN,
         Deregister(n, id, all)
  PROVE  IInv'
<1> DEFINE t == [Idle EXCEPT !.pc = "deregister", !.id = id, !.all = all]
<1>1. /\ t \in Tasks /\ t.pc = "deregister" /\ t.id = id
  BY DEF Idle, Tasks
<1>2. /\ task' = [task EXCEPT ![n] = t] /\ task[n].pc = "idle" /\ status[n] = "open"
      /\ UNCHANGED <<services, passing, status, present, shut, ends>>
  BY IdleType DEF Deregister
<1>3. n \in Goroutine /\ n \notin Beat
  BY RegistryAssumption DEF Goroutine, RegistryAssumption
<1> HIDE DEF t
<1> QED
  BY <1>1, <1>2, <1>3, SameType, MovesInv DEF CloseSteps

(* The application's step through Close, and perhaps a heartbeat           *)
(* goroutine's along with it: the type of what they change.                *)
LEMMA SetType ==
  ASSUME IInv, NEW g \in Goroutine, NEW pc, Goto(g, pc),
         pc \in {"select", "deregister", "query", "send", "locks", "await", "shut", "clear"}
  PROVE  /\ task' \in [Goroutine -> Tasks]
         /\ task'[g].pc = pc
         /\ task'[g].id = task[g].id /\ task'[g].node = task[g].node
         /\ task'[g].brk = task[g].brk
         /\ \A h \in Goroutine : h # g => task'[h] = task[h]
<1> DEFINE t == [task[g] EXCEPT !.pc = pc]
<1>1. task[g] \in Tasks /\ task \in [Goroutine -> Tasks]
  BY DEF IInv, TypeOK
<1>2. /\ t \in Tasks /\ t.pc = pc /\ t.id = task[g].id
      /\ t.node = task[g].node /\ t.brk = task[g].brk
  BY <1>1 DEF Tasks
<1>3. task' = [task EXCEPT ![g] = t]
  BY DEF Goto
<1> HIDE DEF t
<1> QED
  BY <1>1, <1>2, <1>3

(* One application goes from one place in its Close to another. *)
LEMMA ClosingAssigned ==
  ASSUME IInv, NEW n \in Node, NEW pc \in CloseSteps, Goto(n, pc)
  PROVE  /\ Assigned' /\ task' \in [Goroutine -> Tasks]
         /\ task'[n].pc = pc
         /\ \A m \in Node : m # n => task'[m] = task[m]
         /\ \A b \in Beat : task'[b] = task[b]
<1>1. n \in Goroutine /\ n \notin Beat
  BY RegistryAssumption DEF Goroutine, RegistryAssumption
<1>2. /\ task' \in [Goroutine -> Tasks]
      /\ task'[n].pc = pc
      /\ \A h \in Goroutine : h # n => task'[h] = task[h]
  BY <1>1, SetType DEF CloseSteps
<1>3. Assigned'
  BY <1>1, <1>2 DEF IInv, Assigned, Goroutine
<1> QED
  BY <1>1, <1>2, <1>3 DEF Goroutine

LEMMA CloseInv ==
  ASSUME IInv, NEW n \in Node, Close(n)
  PROVE  IInv'
<1>1. PICK pc \in {"send", "locks"} : Goto(n, pc) /\ (pc = "locks" => ~present[n])
  BY DEF Close
<1>2. /\ status[n] = "open" /\ task[n].pc = "idle"
      /\ UNCHANGED <<services, passing, status, present, shut, ends>>
  BY IdleType DEF Close
<1>3. /\ Assigned' /\ task' \in [Goroutine -> Tasks]
      /\ task'[n].pc = pc
      /\ \A m \in Node : m # n => task'[m] = task[m]
      /\ \A b \in Beat : task'[b] = task[b]
  BY <1>1, ClosingAssigned DEF CloseSteps
<1>4. TypeOK'
  BY <1>2, <1>3 DEF IInv, TypeOK
<1>5. \A b \in Beat : task[b].node = n => ~task[b].brk
  BY <1>2 DEF IInv, Protocol, Releasing
<1>6. ~shut[n] /\ ~(ends[n] > 0)
  BY <1>2 DEF IInv, Protocol, Releasing
<1>7. Protocol'
  BY <1>2, <1>3, <1>5, <1>6 DEF IInv, Protocol
<1> QED
  BY <1>3, <1>4, <1>7 DEF IInv

LEMMA ReleaseLocksInv ==
  ASSUME IInv, NEW n \in Node, ReleaseLocks(n)
  PROVE  IInv'
<1>1. PICK pc \in {"await", "shut"} : Goto(n, pc) /\ (pc = "shut" => ~present[n])
  BY DEF ReleaseLocks
<1>2. /\ task[n].pc = "locks"
      /\ UNCHANGED <<services, passing, status, present, shut, ends>>
  BY DEF ReleaseLocks
<1>3. /\ Assigned' /\ task' \in [Goroutine -> Tasks]
      /\ task'[n].pc = pc
      /\ \A m \in Node : m # n => task'[m] = task[m]
      /\ \A b \in Beat : task'[b] = task[b]
  BY <1>1, ClosingAssigned DEF CloseSteps
<1>4. TypeOK'
  BY <1>2, <1>3 DEF IInv, TypeOK
<1>5. status[n] = "open" /\ ~shut[n]
  BY <1>2 DEF IInv, Protocol
<1>6. \A b \in Beat : task[b].node = n /\ task[b].brk => present[n]
  BY DEF IInv, Protocol
<1>7. ends[n] > 0 => ends[n] = 1 /\ present[n]
  BY <1>5 DEF IInv, Protocol
<1>8. Protocol'
  <2>1. \A m \in Node : task'[m].pc # "idle" => status'[m] = "open"
    BY <1>2, <1>3, <1>5 DEF IInv, Protocol
  <2>2. \A m \in Node : shut'[m] /\ status'[m] = "open" => task'[m].pc = "clear"
    BY <1>2, <1>3, <1>5 DEF IInv, Protocol
  <2>3. \A m \in Node : ends'[m] > 0 /\ status'[m] = "open" =>
          ends'[m] = 1 /\ task'[m].pc \in Releasing /\ present'[m]
    BY <1>1, <1>2, <1>3, <1>7 DEF IInv, Protocol, Releasing
  <2>4. \A m \in Node : \A b \in Beat :
          task'[b].node = m /\ task'[b].brk => task'[m].pc \in Releasing /\ ends'[m] = 0
    BY <1>1, <1>2, <1>3, <1>6 DEF IInv, Protocol, Releasing
  <2> QED
    BY <1>2, <1>3, <2>1, <2>2, <2>3, <2>4 DEF IInv, Protocol
<1> QED
  BY <1>3, <1>4, <1>8 DEF IInv

LEMMA AwaitInv ==
  ASSUME IInv, NEW n \in Node, Await(n)
  PROVE  IInv'
<1>1. /\ task[n].pc = "await" /\ ends[n] > 0
      /\ ends' = [ends EXCEPT ![n] = @ - 1] /\ Goto(n, "shut")
      /\ UNCHANGED <<services, passing, status, present, shut>>
  BY DEF Await
<1>2. /\ Assigned' /\ task' \in [Goroutine -> Tasks]
      /\ task'[n].pc = "shut"
      /\ \A m \in Node : m # n => task'[m] = task[m]
      /\ \A b \in Beat : task'[b] = task[b]
  BY <1>1, ClosingAssigned DEF CloseSteps
<1>3. status[n] = "open" /\ ~shut[n]
  BY <1>1 DEF IInv, Protocol
<1>4. ends[n] = 1 /\ ends \in [Node -> 0 .. EndCapacity]
  BY <1>1, <1>3 DEF IInv, Protocol, TypeOK
<1>5. /\ ends'[n] = 0 /\ \A m \in Node : m # n => ends'[m] = ends[m]
      /\ ends' \in [Node -> 0 .. EndCapacity]
  BY <1>1, <1>4 DEF EndCapacity
<1>6. TypeOK'
  BY <1>1, <1>2, <1>5 DEF IInv, TypeOK
<1>7. \A b \in Beat : task[b].node = n => ~task[b].brk
  BY <1>4 DEF IInv, Protocol
<1>8. Protocol'
  <2>1. \A m \in Node : ends'[m] > 0 /\ status'[m] = "open" =>
          ends'[m] = 1 /\ task'[m].pc \in Releasing /\ present'[m]
    BY <1>1, <1>2, <1>5 DEF IInv, Protocol
  <2>2. \A m \in Node : \A b \in Beat :
          task'[b].node = m /\ task'[b].brk => task'[m].pc \in Releasing /\ ends'[m] = 0
    BY <1>2, <1>5, <1>7 DEF IInv, Protocol
  <2>3. \A m \in Node : task'[m].pc # "idle" => status'[m] = "open"
    BY <1>1, <1>2, <1>3 DEF IInv, Protocol
  <2>4. \A m \in Node : shut'[m] /\ status'[m] = "open" => task'[m].pc = "clear"
    BY <1>1, <1>2, <1>3 DEF IInv, Protocol
  <2> QED
    BY <1>1, <1>2, <2>1, <2>2, <2>3, <2>4 DEF IInv, Protocol
<1> QED
  BY <1>2, <1>6, <1>8 DEF IInv

LEMMA CloseChannelsInv ==
  ASSUME IInv, NEW n \in Node, CloseChannels(n)
  PROVE  IInv'
<1>1. /\ task[n].pc = "shut" /\ shut' = [shut EXCEPT ![n] = TRUE] /\ Goto(n, "clear")
      /\ UNCHANGED <<services, passing, status, present, ends>>
  BY DEF CloseChannels
<1>2. /\ Assigned' /\ task' \in [Goroutine -> Tasks]
      /\ task'[n].pc = "clear"
      /\ \A m \in Node : m # n => task'[m] = task[m]
      /\ \A b \in Beat : task'[b] = task[b]
  BY <1>1, ClosingAssigned DEF CloseSteps
<1>3. status[n] = "open" /\ ~(ends[n] > 0)
  BY <1>1 DEF IInv, Protocol, Releasing
<1>4. \A b \in Beat : task[b].node = n => ~task[b].brk
  BY <1>1 DEF IInv, Protocol, Releasing
<1>5. \A m \in Node : m # n => shut'[m] = shut[m]
  BY <1>1 DEF IInv, TypeOK
<1>6. TypeOK'
  BY <1>1, <1>2 DEF IInv, TypeOK
<1>7. Protocol'
  <2>1. \A m \in Node : shut'[m] /\ status'[m] = "open" => task'[m].pc = "clear"
    BY <1>1, <1>2, <1>5 DEF IInv, Protocol
  <2> QED
    BY <1>1, <1>2, <1>3, <1>4, <2>1 DEF IInv, Protocol
<1> QED
  BY <1>2, <1>6, <1>7 DEF IInv

LEMMA ClearClientInv ==
  ASSUME IInv, NEW n \in Node, ClearClient(n)
  PROVE  IInv'
<1>1. /\ task[n].pc = "clear" /\ status' = [status EXCEPT ![n] = "closed"]
      /\ task' = [task EXCEPT ![n] = Idle]
      /\ UNCHANGED <<services, passing, present, shut, ends>>
  BY DEF ClearClient
<1>2. n \in Goroutine /\ n \notin Beat
  BY RegistryAssumption DEF Goroutine, RegistryAssumption
<1>3. /\ task'[n] = Idle
      /\ \A m \in Node : m # n => task'[m] = task[m] /\ status'[m] = status[m]
      /\ \A b \in Beat : task'[b] = task[b]
      /\ status'[n] = "closed"
  BY <1>1, <1>2 DEF IInv, TypeOK, Goroutine
<1>4. \A b \in Beat : task[b].node = n => ~task[b].brk
  BY <1>1 DEF IInv, Protocol, Releasing
<1>5. TypeOK'
  BY <1>1, IdleType DEF IInv, TypeOK
<1>6. Assigned'
  BY <1>2, <1>3, IdleType DEF IInv, Assigned, Goroutine
<1>7. Protocol'
  BY <1>1, <1>3, <1>4, IdleType DEF IInv, Protocol
<1> QED
  BY <1>5, <1>6, <1>7 DEF IInv

-----------------------------------------------------------------------------
(* The heartbeat goroutines.                                               *)

LEMMA StartInv ==
  ASSUME IInv, NEW b \in Beat, Start(b)
  PROVE  IInv'
<1>1. /\ task[b].pc = "new" /\ present' = [present EXCEPT ![NodeOf(b)] = TRUE]
      /\ Goto(b, "select")
      /\ UNCHANGED <<services, passing, status, shut, ends>>
  BY DEF Start
<1>2. /\ b \in Goroutine /\ b \notin Node /\ task[b].node \in Node
      /\ NodeOf(b) = task[b].node /\ task[b].id \in Id
  BY <1>1, CallerFacts DEF Goroutine, NodeOf, CloseSteps
<1>3. /\ task' \in [Goroutine -> Tasks] /\ task'[b].pc = "select"
      /\ task'[b].id = task[b].id /\ task'[b].node = task[b].node
      /\ task'[b].brk = task[b].brk
      /\ \A h \in Goroutine : h # b => task'[h] = task[h]
  BY <1>1, <1>2, SetType
<1>4. TypeOK'
  BY <1>1, <1>2, <1>3 DEF IInv, TypeOK
<1>5. Assigned'
  BY <1>2, <1>3 DEF IInv, Assigned, Goroutine
<1>6. /\ \A n \in Node : task'[n] = task[n]
      /\ \A c \in Beat : c # b => task'[c] = task[c]
  BY <1>2, <1>3 DEF Goroutine
<1>7. /\ \A n \in Node : present[n] => present'[n]
      /\ present'[task[b].node]
  BY <1>1, <1>2 DEF IInv, TypeOK
<1>8. Protocol'
  BY <1>1, <1>3, <1>6, <1>7 DEF IInv, Protocol
<1> QED
  BY <1>4, <1>5, <1>8 DEF IInv

LEMMA SelectInv ==
  ASSUME IInv, NEW b \in Beat, task[b].pc = "select",
         NEW pc \in {"query", "deregister"}, Goto(b, pc),
         services' \in [Agent -> SUBSET Id],
         passing' \in [Agent -> SUBSET Id],
         \A a \in Agent : passing'[a] \subseteq services'[a],
         UNCHANGED <<status, present, shut, ends>>
  PROVE  IInv'
<1> DEFINE t == [task[b] EXCEPT !.pc = pc]
<1>1. /\ b \in Goroutine /\ b \notin Node /\ task[b].node \in Node
      /\ task[b].id \in Id /\ task[b] \in Tasks
  BY CallerFacts DEF Goroutine, CloseSteps
<1>2. /\ t \in Tasks /\ t.pc = pc /\ t.id = task[b].id
      /\ t.node = task[b].node /\ t.brk = task[b].brk
  BY <1>1 DEF Tasks
<1>3. task' = [task EXCEPT ![b] = t]
  BY DEF Goto
<1> HIDE DEF t
<1> QED
  BY <1>1, <1>2, <1>3, MovesInv

LEMMA HeartbeatInv ==
  ASSUME IInv, NEW b \in Beat, Heartbeat(b)
  PROVE  IInv'
<1>1. task[b].pc = "select"
  BY DEF Heartbeat
<1>2. b \in Goroutine /\ NodeOf(b) \in Node /\ Host(b) \in Agent /\ task[b].id \in Id
  BY <1>1, CallerFacts DEF Goroutine, CloseSteps
<1>3. CASE ~IsOpen(b)
  BY <1>2, <1>3, DiesInv DEF Heartbeat
<1>4. CASE IsOpen(b)
  <2>1. PICK answer \in IF Has(Host(b), task[b].id) THEN Answers ELSE {"fail"} :
          /\ passing' = IF answer = "fail" THEN passing
                        ELSE [passing EXCEPT ![Host(b)] = @ \cup {task[b].id}]
          /\ IF answer = "ok" THEN UNCHANGED task
             ELSE Room /\ Goto(b, "query")
    BY <1>4 DEF Heartbeat
  <2>2. UNCHANGED <<services, status, present, shut, ends>>
    BY <1>4 DEF Heartbeat
  <2>3. /\ services' \in [Agent -> SUBSET Id] /\ passing' \in [Agent -> SUBSET Id]
        /\ \A x \in Agent : passing'[x] \subseteq services'[x]
    <3>1. CASE answer = "fail"
      BY <2>1, <2>2, <3>1, SameType
    <3>2. CASE answer # "fail"
      <4>1. task[b].id \in services[Host(b)]
        BY <3>2 DEF Has
      <4> QED
        BY <1>2, <2>1, <2>2, <3>2, <4>1 DEF IInv, TypeOK
    <3> QED
      BY <3>1, <3>2
  <2>4. CASE UNCHANGED task
    <3>1. TypeOK'
      BY <2>2, <2>3, <2>4 DEF IInv, TypeOK
    <3>2. Assigned'
      BY <2>4 DEF IInv, Assigned
    <3>3. Protocol'
      BY <2>2, <2>4 DEF IInv, Protocol
    <3> QED
      BY <3>1, <3>2, <3>3 DEF IInv
  <2>5. CASE Goto(b, "query")
    BY <1>1, <2>2, <2>3, <2>5, SelectInv
  <2> QED
    BY <2>1, <2>4, <2>5
<1> QED
  BY <1>3, <1>4

LEMMA ReceiveClosedInv ==
  ASSUME IInv, NEW b \in Beat, ReceiveClosed(b)
  PROVE  IInv'
  BY SameType, SelectInv DEF ReceiveClosed

LEMMA ReceiveInv ==
  ASSUME IInv, NEW n \in Node, NEW b \in Beat, Receive(n, b)
  PROVE  IInv'
<1>1. /\ task[n].pc = "send" /\ task[b].node = n /\ task[b].pc = "select"
      /\ task' = [task EXCEPT ![n].pc = "locks",
                              ![b].pc = "deregister", ![b].brk = TRUE]
      /\ UNCHANGED <<services, passing, status, present, shut, ends>>
  BY DEF Receive, BeatsOf
<1>2. /\ n \in Goroutine /\ n \notin Beat /\ b \in Goroutine /\ b \notin Node /\ b # n
  BY RegistryAssumption DEF Goroutine, RegistryAssumption
<1>3. /\ task \in [Goroutine -> Tasks] /\ task[n] \in Tasks /\ task[b] \in Tasks
  BY <1>2 DEF IInv, TypeOK
<1> DEFINE u == [task[n] EXCEPT !.pc = "locks"]
           t == [task[b] EXCEPT !.pc = "deregister", !.brk = TRUE]
<1>4. /\ u \in Tasks /\ u.pc = "locks" /\ u.id = task[n].id
      /\ t \in Tasks /\ t.pc = "deregister" /\ t.id = task[b].id
      /\ t.node = n /\ t.brk
  BY <1>1, <1>3 DEF Tasks
<1>5. \A h \in Goroutine :
        task'[h] = IF h = b THEN t ELSE IF h = n THEN u ELSE task[h]
  BY <1>1, <1>2, <1>3
<1>6. task' \in [Goroutine -> Tasks]
  BY <1>1, <1>2, <1>3, <1>4, <1>5
<1> HIDE DEF u, t
<1>7. TypeOK'
  BY <1>1, <1>6 DEF IInv, TypeOK
<1>8. task[b].id \in Id
  BY <1>1, <1>2 DEF IInv, Assigned, CloseSteps
<1>9. Assigned'
  BY <1>2, <1>4, <1>5, <1>8 DEF IInv, Assigned, Goroutine, CloseSteps
<1>10. /\ task'[n] = u /\ \A m \in Node : m # n => task'[m] = task[m]
       /\ task'[b] = t /\ \A c \in Beat : c # b => task'[c] = task[c]
  BY <1>2, <1>5 DEF Goroutine
<1>11. /\ status[n] = "open" /\ present[n] /\ ~shut[n]
       /\ \A c \in Beat : task[c].node = n => ~task[c].brk
  BY <1>1 DEF IInv, Protocol, Releasing
<1>12. ends[n] = 0
  <2>1. ~(ends[n] > 0)
    BY <1>1, <1>11 DEF IInv, Protocol, Releasing
  <2>2. ends[n] \in 0 .. EndCapacity
    BY DEF IInv, TypeOK
  <2> QED
    BY <2>1, <2>2 DEF EndCapacity
<1>13. UNCHANGED <<status, present, shut, ends>>
  BY <1>1
<1>14. Protocol'
  <2>1. \A m \in Node : task'[m].pc # "idle" => status'[m] = "open"
    BY <1>13, <1>4, <1>10, <1>11 DEF IInv, Protocol
  <2>2. \A m \in Node : shut'[m] /\ status'[m] = "open" => task'[m].pc = "clear"
    BY <1>13, <1>10, <1>11 DEF IInv, Protocol
  <2>3. \A m \in Node : ends'[m] > 0 /\ status'[m] = "open" =>
          ends'[m] = 1 /\ task'[m].pc \in Releasing /\ present'[m]
    BY <1>13, <1>10, <1>12 DEF IInv, Protocol
  <2>4. /\ \A c \in Beat : task'[c].pc = "end" => task'[c].brk
        /\ \A c \in Beat : task'[c].pc = "new" => ~task'[c].brk
    BY <1>4, <1>10 DEF IInv, Protocol
  <2>5. \A m \in Node : \A c \in Beat :
          task'[c].node = m /\ task'[c].pc # "new" => present'[m]
    BY <1>13, <1>4, <1>10, <1>11 DEF IInv, Protocol
  <2>6. \A m \in Node : \A c \in Beat :
          task'[c].node = m /\ task'[c].brk => task'[m].pc \in Releasing /\ ends'[m] = 0
    BY <1>13, <1>4, <1>10, <1>11, <1>12 DEF IInv, Protocol, Releasing
  <2>7. ASSUME NEW c \in Beat, NEW d \in Beat,
               task'[c].node = task'[d].node, task'[c].brk, task'[d].brk
        PROVE  c = d
    <3>1. CASE c = b \/ d = b
      BY <1>4, <1>10, <1>11, <2>7, <3>1
    <3>2. CASE c # b /\ d # b
      <4>1. task'[c] = task[c] /\ task'[d] = task[d]
        BY <1>10, <3>2
      <4> QED
        BY <2>7, <4>1 DEF IInv, Protocol
    <3> QED
      BY <3>1, <3>2
  <2> QED
    BY <2>1, <2>2, <2>3, <2>4, <2>5, <2>6, <2>7 DEF Protocol
<1> QED
  BY <1>7, <1>9, <1>14 DEF IInv

LEMMA EndInv ==
  ASSUME IInv, NEW b \in Beat, End(b)
  PROVE  IInv'
<1>1. task[b].pc = "end"
  BY DEF End
<1> DEFINE n == task[b].node
<1>2. /\ b \in Goroutine /\ b \notin Node /\ n \in Node /\ NodeOf(b) = n
  BY <1>1, CallerFacts DEF Goroutine, NodeOf
<1> HIDE DEF n
<1>3. CASE shut[n]
  BY <1>2, <1>3, DiesInv DEF End
<1>4. CASE ~shut[n]
  <2>1. /\ ends[n] < EndCapacity
        /\ ends' = [ends EXCEPT ![n] = @ + 1]
        /\ task' = [task EXCEPT ![b] = Idle]
        /\ UNCHANGED <<services, passing, status, present, shut>>
    BY <1>2, <1>4 DEF End
  <2>2. task[b].brk /\ task[b].node = n
    BY <1>1 DEF IInv, Protocol, n
  <2>3. /\ task[n].pc \in Releasing /\ ends[n] = 0
        /\ \A c \in Beat : task[c].node = n /\ task[c].brk => c = b
    BY <1>2, <2>2 DEF IInv, Protocol
  <2>4. present[n]
    BY <1>1, <1>2, <2>2 DEF IInv, Protocol
  <2>5. /\ ends'[n] = 1 /\ \A m \in Node : m # n => ends'[m] = ends[m]
        /\ ends' \in [Node -> 0 .. EndCapacity]
    BY <1>2, <2>1, <2>3 DEF IInv, TypeOK, EndCapacity
  <2>6. /\ task' \in [Goroutine -> Tasks] /\ task'[b] = Idle
        /\ \A h \in Goroutine : h # b => task'[h] = task[h]
    BY <1>2, <2>1, IdleType DEF IInv, TypeOK
  <2>7. UNCHANGED <<services, passing, status, present, shut>>
    BY <2>1
  <2>8. TypeOK'
    BY <2>5, <2>6, <2>7 DEF IInv, TypeOK
  <2>9. Assigned'
    BY <1>2, <2>6, IdleType DEF IInv, Assigned, Goroutine
  <2>10. /\ \A m \in Node : task'[m] = task[m]
         /\ \A c \in Beat : c # b => task'[c] = task[c]
    BY <1>2, <2>6 DEF Goroutine
  <2>11. Protocol'
    <3>1. \A m \in Node : task'[m].pc # "idle" => status'[m] = "open"
      BY <2>7, <2>10 DEF IInv, Protocol
    <3>2. \A m \in Node : shut'[m] /\ status'[m] = "open" => task'[m].pc = "clear"
      BY <2>7, <2>10 DEF IInv, Protocol
    <3>3. \A m \in Node : ends'[m] > 0 /\ status'[m] = "open" =>
            ends'[m] = 1 /\ task'[m].pc \in Releasing /\ present'[m]
      BY <2>3, <2>4, <2>5, <2>7, <2>10 DEF IInv, Protocol
    <3>4. /\ \A c \in Beat : task'[c].pc = "end" => task'[c].brk
          /\ \A c \in Beat : task'[c].pc = "new" => ~task'[c].brk
      BY <2>6, <2>10, IdleType DEF IInv, Protocol
    <3>5. \A m \in Node : \A c \in Beat :
            task'[c].node = m /\ task'[c].pc # "new" => present'[m]
      BY <2>6, <2>7, <2>10, IdleType DEF IInv, Protocol
    <3>6. ASSUME NEW m \in Node, NEW c \in Beat, task'[c].node = m, task'[c].brk
          PROVE  task'[m].pc \in Releasing /\ ends'[m] = 0
      <4>1. c # b
        BY <2>6, <3>6, IdleType
      <4>2. task[c].node = m /\ task[c].brk
        BY <2>10, <3>6, <4>1
      <4>3. m # n
        BY <2>3, <4>1, <4>2
      <4> QED
        BY <2>5, <2>10, <4>2, <4>3 DEF IInv, Protocol
    <3>7. ASSUME NEW c \in Beat, NEW d \in Beat,
                 task'[c].node = task'[d].node, task'[c].brk, task'[d].brk
          PROVE  c = d
      <4>1. c # b /\ d # b
        BY <2>6, <3>7, IdleType
      <4>2. task'[c] = task[c] /\ task'[d] = task[d]
        BY <2>10, <4>1
      <4> QED
        BY <3>7, <4>2 DEF IInv, Protocol
    <3> QED
      BY <3>1, <3>2, <3>3, <3>4, <3>5, <3>6, <3>7 DEF Protocol
  <2> QED
    BY <2>8, <2>9, <2>11 DEF IInv
<1> QED
  BY <1>3, <1>4

-----------------------------------------------------------------------------
(* Processes and agents.                                                   *)

LEMMA RestartInv ==
  ASSUME IInv, NEW n \in Node, Restart(n)
  PROVE  IInv'
<1>1. /\ status[n] # "open" /\ status' = [status EXCEPT ![n] = "open"]
      /\ present' = [present EXCEPT ![n] = FALSE]
      /\ shut' = [shut EXCEPT ![n] = FALSE]
      /\ ends' = [ends EXCEPT ![n] = 0]
      /\ task' = [g \in Goroutine |-> IF g \in BeatsOf(n) THEN Idle ELSE task[g]]
      /\ UNCHANGED <<services, passing>>
  BY DEF Restart
<1>2. \A g \in Goroutine : task'[g] = Idle \/ task'[g] = task[g]
  BY <1>1
<1>3. \A m \in Node : task'[m] = task[m]
  BY <1>1, RegistryAssumption DEF Goroutine, BeatsOf, RegistryAssumption
<1>4. ASSUME NEW b \in Beat
      PROVE  task'[b] = Idle \/ (task'[b] = task[b] /\ task[b].node # n)
  <2>1. b \in Goroutine /\ (b \in BeatsOf(n) <=> task[b].node = n)
    BY DEF Goroutine, BeatsOf
  <2>2. task'[b] = IF b \in BeatsOf(n) THEN Idle ELSE task[b]
    BY <1>1, <2>1
  <2> QED
    BY <2>1, <2>2
<1>5. /\ status'[n] = "open" /\ ~present'[n] /\ ~shut'[n] /\ ends'[n] = 0
      /\ \A m \in Node : m # n => /\ status'[m] = status[m] /\ present'[m] = present[m]
                                 /\ shut'[m] = shut[m] /\ ends'[m] = ends[m]
  BY <1>1 DEF IInv, TypeOK
<1>6. TypeOK'
  <2>1. task' \in [Goroutine -> Tasks]
    BY <1>1, <1>2, IdleType DEF IInv, TypeOK
  <2>2. ends' \in [Node -> 0 .. EndCapacity]
    BY <1>1 DEF IInv, TypeOK, EndCapacity
  <2> QED
    BY <1>1, <2>1, <2>2 DEF IInv, TypeOK
<1>7. Assigned'
  <2>1. \A g \in Goroutine :
          task'[g].pc \notin CloseSteps \cup {"idle"} => task'[g].id \in Id
    BY <1>2, IdleType DEF IInv, Assigned
  <2>2. \A b \in Beat : task'[b].pc # "idle" => task'[b].node \in Node
    BY <1>4, IdleType DEF IInv, Assigned
  <2> QED
    BY <2>1, <2>2 DEF Assigned
<1>8. Protocol'
  <2>1. \A m \in Node : task'[m].pc # "idle" => status'[m] = "open"
    BY <1>3, <1>5 DEF IInv, Protocol
  <2>2. ASSUME NEW m \in Node, shut'[m], status'[m] = "open"
        PROVE  task'[m].pc = "clear"
    <3>1. m # n
      BY <1>5, <2>2
    <3>2. shut[m] /\ status[m] = "open" /\ task'[m] = task[m]
      BY <1>3, <1>5, <2>2, <3>1
    <3> QED
      BY <3>2 DEF IInv, Protocol
  <2>3. \A m \in Node : ends'[m] > 0 /\ status'[m] = "open" =>
          ends'[m] = 1 /\ task'[m].pc \in Releasing /\ present'[m]
    BY <1>3, <1>5 DEF IInv, Protocol
  <2>4. /\ \A b \in Beat : task'[b].pc = "end" => task'[b].brk
        /\ \A b \in Beat : task'[b].pc = "new" => ~task'[b].brk
    BY <1>4, IdleType DEF IInv, Protocol
  <2>5. \A m \in Node : \A b \in Beat : task'[b].node = m =>
          m # n /\ task'[b] = task[b] /\ task'[m] = task[m]
    BY <1>3, <1>4, IdleType
  <2>6. \A m \in Node : \A b \in Beat :
          task'[b].node = m /\ task'[b].pc # "new" => present'[m]
    BY <1>5, <2>5 DEF IInv, Protocol
  <2>7. ASSUME NEW m \in Node, NEW b \in Beat, task'[b].node = m, task'[b].brk
        PROVE  task'[m].pc \in Releasing /\ ends'[m] = 0
    <3>1. m # n /\ task[b].node = m /\ task[b].brk /\ task'[m] = task[m]
      BY <2>5, <2>7
    <3> QED
      BY <1>5, <3>1 DEF IInv, Protocol
  <2>8. ASSUME NEW b \in Beat, NEW c \in Beat,
               task'[b].node = task'[c].node, task'[b].brk, task'[c].brk
        PROVE  b = c
    <3>1. task'[b] = task[b] /\ task'[c] = task[c]
      BY <1>4, <2>8, IdleType
    <3> QED
      BY <2>8, <3>1 DEF IInv, Protocol
  <2> QED
    BY <2>1, <2>2, <2>3, <2>4, <2>6, <2>7, <2>8 DEF Protocol
<1> QED
  BY <1>6, <1>7, <1>8 DEF IInv

(* Nothing in the processes changes. *)
LEMMA AgentsInv ==
  ASSUME IInv, UNCHANGED <<status, present, shut, ends, task>>,
         services' \in [Agent -> SUBSET Id],
         passing' \in [Agent -> SUBSET Id],
         \A a \in Agent : passing'[a] \subseteq services'[a]
  PROVE  IInv'
<1>1. TypeOK'
  BY DEF IInv, TypeOK
<1>2. Assigned'
  BY DEF IInv, Assigned
<1>3. Protocol'
  BY DEF IInv, Protocol
<1> QED
  BY <1>1, <1>2, <1>3 DEF IInv

LEMMA LapseInv ==
  ASSUME IInv, NEW a \in Agent, NEW id \in Id, Lapse(a, id)
  PROVE  IInv'
<1>1. /\ passing' = [passing EXCEPT ![a] = @ \ {id}]
      /\ UNCHANGED <<services, status, present, shut, ends, task>>
  BY DEF Lapse
<1>2. /\ services' \in [Agent -> SUBSET Id] /\ passing' \in [Agent -> SUBSET Id]
      /\ \A x \in Agent : passing'[x] \subseteq services'[x]
  BY <1>1 DEF IInv, TypeOK
<1> QED
  BY <1>1, <1>2, AgentsInv

LEMMA ReapInv ==
  ASSUME IInv, NEW a \in Agent, NEW id \in Id, Reap(a, id)
  PROVE  IInv'
  BY DropType, AgentsInv DEF Reap

-----------------------------------------------------------------------------
LEMMA StepInv ==
  ASSUME IInv, [Next]_vars
  PROVE  IInv'
<1>1. CASE UNCHANGED vars
  BY <1>1, SameType, AgentsInv DEF vars
<1>2. ASSUME NEW n \in Node, NEW id \in Id, Register(n, id)
      PROVE  IInv'
  BY <1>2, RegisterInv
<1>3. ASSUME NEW n \in Node, NEW id \in Id, NEW all \in BOOLEAN, Deregister(n, id, all)
      PROVE  IInv'
  BY <1>3, DeregisterInv
<1>4. ASSUME NEW n \in Node, Close(n) \/ Closing(n)
      PROVE  IInv'
  BY <1>4, CloseInv, ReleaseLocksInv, AwaitInv, CloseChannelsInv, ClearClientInv DEF Closing
<1>5. ASSUME NEW n \in Node, Crash(n) \/ Restart(n)
      PROVE  IInv'
  BY <1>5, DiesInv, RestartInv DEF Crash
<1>6. ASSUME NEW n \in Node, NEW b \in Beat, Receive(n, b)
      PROVE  IInv'
  BY <1>6, ReceiveInv
<1>7. ASSUME NEW g \in Goroutine, Calling(g)
      PROVE  IInv'
  BY <1>7, QueryInv, ServiceRegisterInv, BeginInv, DeregisterFastInv,
     LookInv, RemoveInv DEF Calling
<1>8. ASSUME NEW b \in Beat, Beating(b) \/ Heartbeat(b)
      PROVE  IInv'
  BY <1>8, StartInv, ReceiveClosedInv, EndInv, HeartbeatInv DEF Beating
<1>9. ASSUME NEW a \in Agent, NEW id \in Id, Lapse(a, id) \/ Reap(a, id)
      PROVE  IInv'
  BY <1>9, LapseInv, ReapInv
<1> QED
  BY <1>1, <1>2, <1>3, <1>4, <1>5, <1>6, <1>7, <1>8, <1>9 DEF Next

(* Every variable stays in its type, and the checks an agent counts as     *)
(* passing are those of services it has: whichever goroutine of Register,  *)
(* Deregister, heartbeatRoutine and Close takes the next step, whatever    *)
(* fails.                                                                  *)
THEOREM TypeCorrect == Spec => []TypeOK
<1>1. IInv => TypeOK
  BY DEF IInv
<1> QED
  BY <1>1, InitInv, StepInv, PTL DEF Spec

(* No step of Close or of a heartbeat goroutine sends on a closed channel, *)
(* closes one twice or fills chHeartbeatEnd, however many goroutines       *)
(* Register has started.                                                   *)
THEOREM ChannelsAreSafe == Spec => []ChannelsSafe
<1> QED
  BY ProtocolIsSafe, InitInv, StepInv, PTL DEF Spec
-----------------------------------------------------------------------------
(* The refinement of Handshake.                                            *)

(* One process moves at most; the steps are those of Handshake.            *)
Moves(n) ==
  /\ \A m \in Node \ {n} : Phase(m)' = Phase(m)
  /\ \/ Phase(n)' = Phase(n)
     \/ Phase(n) = "up" /\ Phase(n)' = "asked"
     \/ Phase(n) = "asked" /\ Phase(n)' = "answered"
     \/ Phase(n) \in {"up", "answered"} /\ Phase(n)' = "closing"
     \/ Phase(n) = "closing" /\ Phase(n)' = "down"
     \/ Phase(n) # "gone" /\ Phase(n)' = "gone"
     \/ Phase(n) = "gone" /\ Phase(n)' = "up"

LEMMA MoveIsHandshake ==
  ASSUME NEW n \in Node, Moves(n)
  PROVE  [H!Next]_(H!vars)
<1> DEFINE now == [m \in Node |-> Phase(m)]
<1>1. now' = [now EXCEPT ![n] = Phase(n)'] /\ now[n] = Phase(n)
  BY DEF Moves
<1>2. Phase(n) \in {"up", "asked", "answered", "closing", "down", "gone"}
  BY DEF Phase
<1>3. CASE Phase(n)' = Phase(n)
  BY <1>3 DEF Moves, H!vars
<1>4. CASE Phase(n) = "up" /\ Phase(n)' = "asked"
  BY <1>1, <1>4 DEF H!Next, H!Ask, H!Move
<1>5. CASE Phase(n) = "asked" /\ Phase(n)' = "answered"
  BY <1>1, <1>5 DEF H!Next, H!Answer, H!Move
<1>6. CASE Phase(n) \in {"up", "answered"} /\ Phase(n)' = "closing"
  BY <1>1, <1>6 DEF H!Next, H!GoOn, H!Move
<1>7. CASE Phase(n) = "closing" /\ Phase(n)' = "down"
  BY <1>1, <1>7 DEF H!Next, H!Shut, H!Move
<1>8. CASE Phase(n) # "gone" /\ Phase(n)' = "gone"
  BY <1>1, <1>2, <1>8 DEF H!Next, H!Go, H!Move
<1>9. CASE Phase(n) = "gone" /\ Phase(n)' = "up"
  BY <1>1, <1>9 DEF H!Next, H!Return, H!Move
<1> QED
  BY <1>3, <1>4, <1>5, <1>6, <1>7, <1>8, <1>9 DEF Moves

(* Nothing of what Phase looks at changes for n. *)
Stays(n) ==
  /\ status'[n] = status[n] /\ shut'[n] = shut[n] /\ ends'[n] = ends[n]
  /\ task'[n].pc = "shut" <=> task[n].pc = "shut"
  /\ \A b \in Beat : task'[b].node = n /\ task'[b].brk
                       <=> task[b].node = n /\ task[b].brk

LEMMA StaysInPhase ==
  ASSUME NEW n \in Node, Stays(n)
  PROVE  Phase(n)' = Phase(n)
<1>1. Asked(n)' <=> Asked(n)
  BY DEF Stays, Asked, BeatsOf
<1> QED
  BY <1>1 DEF Stays, Phase

LEMMA AllStay ==
  ASSUME \A n \in Node : Stays(n)
  PROVE  [H!Next]_(H!vars)
  BY StaysInPhase DEF H!vars

(* The process ends. *)
LEMMA StopMoves ==
  ASSUME IInv, NEW n \in Node, Stop(n)
  PROVE  Moves(n)
<1> USE IdleType DEF Stop
<1>1. \A m \in Node \ {n} : task'[m] = task[m] /\ status'[m] = status[m]
  BY RegistryAssumption DEF RegistryAssumption, Goroutine, BeatsOf, IInv, TypeOK
<1>2. \A b \in Beat : task'[b] = IF task[b].node = n THEN Idle ELSE task[b]
  BY RegistryAssumption DEF RegistryAssumption, Goroutine, BeatsOf
<1>3. \A m \in Node \ {n} : Stays(m)
  BY <1>1, <1>2 DEF Stays
<1>4. Phase(n)' = "gone"
  BY DEF IInv, TypeOK, Phase
<1> QED
  BY <1>3, <1>4, StaysInPhase DEF Moves

(* One goroutine goes on, and is not told to end by it. *)
LEMMA GoesOnStays ==
  ASSUME IInv, UNCHANGED <<status, shut, ends>>, NEW g \in Goroutine,
         \A h \in Goroutine : h # g => task'[h] = task[h],
         task'[g].pc # "shut", task[g].pc # "shut",
         g \in Beat => task'[g].node = task[g].node /\ task'[g].brk = task[g].brk
  PROVE  \A n \in Node : Stays(n)
<1>1. \A n \in Node : n \in Goroutine
  BY DEF Goroutine
<1>2. \A b \in Beat : b \in Goroutine
  BY DEF Goroutine
<1> QED
  BY <1>1, <1>2 DEF Stays

LEMMA BackFacts ==
  ASSUME IInv, NEW g \in Goroutine, task[g].pc \in InCall
  PROVE  /\ Back(g).pc # "shut"
         /\ g \in Beat => /\ Back(g).node = task[g].node
                          /\ Back(g).brk = task[g].brk
<1>1. task[g] \in Tasks
  BY DEF IInv, TypeOK
<1>2. CASE g \in Node
  BY <1>2, IdleType, RegistryAssumption DEF Back, RegistryAssumption
<1>3. CASE g \notin Node
  BY <1>1, <1>3 DEF Back, Tasks
<1> QED
  BY <1>2, <1>3

LEMMA ReturnStays ==
  ASSUME IInv, NEW g \in Goroutine, task[g].pc \in InCall, Return(g),
         UNCHANGED <<status, shut, ends>>
  PROVE  \A n \in Node : Stays(n)
<1>1. task' = [task EXCEPT ![g] = Back(g)] /\ task[g].pc # "shut"
  BY DEF Return, InCall
<1>2. task'[g] = Back(g) /\ \A h \in Goroutine : h # g => task'[h] = task[h]
  BY <1>1 DEF IInv, TypeOK
<1> QED
  BY <1>1, <1>2, BackFacts, GoesOnStays

LEMMA GotoStays ==
  ASSUME IInv, NEW g \in Goroutine, task[g].pc # "shut",
         NEW pc, pc # "shut", Goto(g, pc),
         UNCHANGED <<status, shut, ends>>
  PROVE  \A n \in Node : Stays(n)
<1>1. task[g] \in Tasks
  BY DEF IInv, TypeOK
<1> DEFINE t == [task[g] EXCEPT !.pc = pc]
<1>2. t.pc = pc /\ t.node = task[g].node /\ t.brk = task[g].brk
  BY <1>1 DEF Tasks
<1>3. task' = [task EXCEPT ![g] = t]
  BY DEF Goto
<1> HIDE DEF t
<1>4. task'[g] = t /\ \A h \in Goroutine : h # g => task'[h] = task[h]
  BY <1>3 DEF IInv, TypeOK
<1> QED
  BY <1>2, <1>4, GoesOnStays

(* A service is registered and has a heartbeat, which is new and was not   *)
(* told to end.                                                            *)
LEMMA SpawnStays ==
  ASSUME IInv, NEW g \in Goroutine, task[g].pc = "register", NEW b \in Free,
         task' = [task EXCEPT ![g] = Back(g), ![b] = NewBeat(g)],
         UNCHANGED <<status, shut, ends>>
  PROVE  \A n \in Node : Stays(n)
<1> DEFINE u == NewBeat(g)
           t == Back(g)
<1>1. ~u.brk /\ ~task[b].brk
  BY IdleType, NewBeatFacts DEF Free
<1>2. b \in Beat /\ b # g /\ b \in Goroutine /\ b \notin Node
  BY IdleType, RegistryAssumption DEF Free, Goroutine, RegistryAssumption
<1>3. /\ t.pc # "shut"
      /\ g \in Beat => t.node = task[g].node /\ t.brk = task[g].brk
  BY BackFacts DEF InCall
<1>4. task' = [task EXCEPT ![g] = t, ![b] = u]
  OBVIOUS
<1> HIDE DEF t, u
<1>5. \A h \in Goroutine : task'[h] = IF h = b THEN u ELSE IF h = g THEN t ELSE task[h]
  BY <1>4 DEF IInv, TypeOK
<1>6. \A n \in Node : n \in Goroutine
  BY DEF Goroutine
<1>7. \A c \in Beat : c \in Goroutine
  BY DEF Goroutine
<1>8. ASSUME NEW n \in Node PROVE task'[n].pc = "shut" <=> task[n].pc = "shut"
  <2>1. task'[n] = IF n = g THEN t ELSE task[n]
    BY <1>2, <1>5, <1>6
  <2> QED
    BY <1>3, <2>1
<1>9. ASSUME NEW n \in Node, NEW c \in Beat
      PROVE  task'[c].node = n /\ task'[c].brk <=> task[c].node = n /\ task[c].brk
  <2>1. task'[c] = IF c = b THEN u ELSE IF c = g THEN t ELSE task[c]
    BY <1>5, <1>7
  <2> QED
    BY <1>1, <1>3, <2>1
<1> QED
  BY <1>8, <1>9 DEF Stays

LEMMA CallingMoves ==
  ASSUME IInv, NEW g \in Goroutine, Calling(g)
  PROVE  [H!Next]_(H!vars)
<1>0. task[g].pc \in InCall /\ task[g].pc # "shut" /\ task[g].pc # "idle"
  BY DEF Calling, Query, ServiceRegister, Begin, DeregisterFast, Look, Remove, InCall
<1>1. NodeOf(g) \in Node
  BY <1>0, CallerFacts
<1>2. ASSUME Stop(NodeOf(g)) PROVE [H!Next]_(H!vars)
  BY <1>1, <1>2, StopMoves, MoveIsHandshake
<1>3. ASSUME Return(g), UNCHANGED <<status, shut, ends>>
      PROVE  [H!Next]_(H!vars)
  BY <1>0, <1>3, ReturnStays, AllStay
<1>4. ASSUME NEW pc \in InCall, Goto(g, pc), UNCHANGED <<status, shut, ends>>
      PROVE  [H!Next]_(H!vars)
  <2>1. pc # "shut"
    BY <1>4 DEF InCall
  <2> QED
    BY <1>0, <1>4, <2>1, GotoStays, AllStay
<1>5. CASE Query(g)
  BY <1>2, <1>3, <1>4, <1>5 DEF Query, Die, InCall
<1>6. CASE ServiceRegister(g)
  <2>1. CASE Die(NodeOf(g))
    BY <1>2, <2>1 DEF Die
  <2>2. CASE ~Die(NodeOf(g))
    <3>1. PICK answer \in Answers :
            IF answer = "ok"
            THEN /\ \E b \in Free :
                       task' = [task EXCEPT ![g] = Back(g), ![b] = NewBeat(g)]
                 /\ UNCHANGED <<status, present, shut, ends>>
            ELSE Stop(NodeOf(g))
      BY <1>6, <2>2 DEF ServiceRegister
    <3>2. task[g].pc = "register"
      BY <1>6 DEF ServiceRegister
    <3> QED
      BY <1>2, <3>1, <3>2, SpawnStays, AllStay
  <2> QED
    BY <2>1, <2>2
<1>7. CASE Begin(g)
  <2>1. CASE IsOpen(g)
    <3>1. PICK pc \in {"slow", "fast"} : Goto(g, pc)
      BY <1>7, <2>1 DEF Begin
    <3> QED
      BY <1>4, <1>7, <2>1, <3>1 DEF Begin, InCall
  <2> QED
    BY <1>2, <1>7, <2>1 DEF Begin, Die
<1>8. CASE DeregisterFast(g)
  <2>1. Die(NodeOf(g)) \/ ((Return(g) \/ Goto(g, "slow")) /\ UNCHANGED <<status, shut, ends>>)
    BY <1>8 DEF DeregisterFast
  <2> QED
    BY <1>2, <1>3, <1>4, <2>1 DEF Die, InCall
<1>9. CASE Look(g)
  <2>1. CASE task' = [task EXCEPT ![g].pc = "remove", ![g].taken = Taken(g)]
             /\ UNCHANGED <<status, shut, ends>>
    <3>1. task[g] \in Tasks
      BY DEF IInv, TypeOK
    <3> DEFINE t == [task[g] EXCEPT !.pc = "remove", !.taken = Taken(g)]
    <3>2. t.pc # "shut" /\ t.node = task[g].node /\ t.brk = task[g].brk
      BY <3>1 DEF Tasks
    <3>3. task' = [task EXCEPT ![g] = t]
      BY <2>1, <3>1 DEF IInv, TypeOK, Tasks
    <3> HIDE DEF t
    <3>4. task'[g] = t /\ \A h \in Goroutine : h # g => task'[h] = task[h]
      BY <3>3 DEF IInv, TypeOK
    <3> QED
      BY <1>0, <2>1, <3>2, <3>4, GoesOnStays, AllStay
  <2> QED
    BY <1>2, <1>3, <1>9, <2>1 DEF Look, Die
<1>10. CASE Remove(g)
  BY <1>2, <1>3, <1>10 DEF Remove
<1> QED
  BY <1>5, <1>6, <1>7, <1>8, <1>9, <1>10 DEF Calling

(* The application at a step of Close: the others stay where they are.     *)
LEMMA CloserStays ==
  ASSUME IInv, NEW n \in Node, NEW pc \in CloseSteps, Goto(n, pc),
         \A m \in Node \ {n} : /\ status'[m] = status[m] /\ shut'[m] = shut[m]
                               /\ ends'[m] = ends[m]
  PROVE  /\ \A m \in Node \ {n} : Phase(m)' = Phase(m)
         /\ task'[n].pc = pc
         /\ Asked(n)' <=> Asked(n)
<1>1. /\ task'[n].pc = pc
      /\ \A m \in Node : m # n => task'[m] = task[m]
      /\ \A b \in Beat : task'[b] = task[b]
  BY ClosingAssigned
<1>2. \A m \in Node \ {n} : Stays(m)
  BY <1>1 DEF Stays
<1> QED
  BY <1>1, <1>2, StaysInPhase DEF Asked, BeatsOf

LEMMA ClosingMoves ==
  ASSUME IInv, NEW n \in Node, Close(n) \/ Closing(n)
  PROVE  Moves(n)
<1>1. CASE Close(n)
  <2>1. PICK pc \in {"send", "locks"} : Goto(n, pc)
    BY <1>1 DEF Close
  <2>2. task[n].pc = "idle" /\ UNCHANGED <<status, shut, ends>>
    BY <1>1, IdleType DEF Close
  <2>3. /\ \A m \in Node \ {n} : Phase(m)' = Phase(m)
        /\ task'[n].pc = pc /\ (Asked(n)' <=> Asked(n))
    BY <2>1, <2>2, CloserStays DEF CloseSteps
  <2>4. Phase(n)' = Phase(n)
    BY <2>1, <2>2, <2>3 DEF Phase
  <2> QED
    BY <2>3, <2>4 DEF Moves
<1>2. CASE ReleaseLocks(n)
  <2>1. PICK pc \in {"await", "shut"} : Goto(n, pc) /\ (pc = "shut" => ~present[n])
    BY <1>2 DEF ReleaseLocks
  <2>2. task[n].pc = "locks" /\ UNCHANGED <<status, shut, ends>>
    BY <1>2 DEF ReleaseLocks
  <2>3. /\ \A m \in Node \ {n} : Phase(m)' = Phase(m)
        /\ task'[n].pc = pc /\ (Asked(n)' <=> Asked(n))
    BY <2>1, <2>2, CloserStays DEF CloseSteps
  <2>4. status[n] = "open" /\ ~shut[n]
    BY <2>2 DEF IInv, Protocol
  <2>5. CASE pc = "await"
    <3>1. Phase(n)' = Phase(n)
      BY <2>2, <2>3, <2>5 DEF Phase
    <3> QED
      BY <2>3, <3>1 DEF Moves
  <2>6. CASE pc = "shut"
    <3>1. ~Asked(n) /\ ~(ends[n] > 0)
      BY <2>1, <2>4, <2>6 DEF IInv, Protocol, Asked, BeatsOf
    <3>2. Phase(n) = "up"
      BY <2>2, <2>4, <3>1 DEF Phase
    <3>3. Phase(n)' = "closing"
      BY <2>2, <2>3, <2>4, <2>6 DEF Phase
    <3> QED
      BY <2>3, <3>2, <3>3 DEF Moves
  <2> QED
    BY <2>5, <2>6
<1>3. CASE Await(n)
  <2>1. /\ task[n].pc = "await" /\ ends[n] > 0 /\ Goto(n, "shut")
        /\ ends' = [ends EXCEPT ![n] = @ - 1] /\ UNCHANGED <<status, shut>>
    BY <1>3 DEF Await
  <2>2. /\ \A m \in Node \ {n} : Phase(m)' = Phase(m)
        /\ task'[n].pc = "shut"
    BY <2>1, CloserStays DEF CloseSteps, IInv, TypeOK
  <2>3. status[n] = "open" /\ ~shut[n]
    BY <2>1 DEF IInv, Protocol
  <2>4. ends[n] = 1
    BY <2>1, <2>3 DEF IInv, Protocol
  <2>5. ~Asked(n)
    BY <2>4 DEF IInv, Protocol, Asked, BeatsOf
  <2>6. Phase(n) = "answered"
    BY <2>1, <2>3, <2>5 DEF Phase
  <2>7. Phase(n)' = "closing"
    BY <2>1, <2>2, <2>3 DEF Phase
  <2> QED
    BY <2>2, <2>6, <2>7 DEF Moves
<1>4. CASE CloseChannels(n)
  <2>1. /\ task[n].pc = "shut" /\ Goto(n, "clear")
        /\ shut' = [shut EXCEPT ![n] = TRUE] /\ UNCHANGED <<status, ends>>
    BY <1>4 DEF CloseChannels
  <2>2. \A m \in Node \ {n} : Phase(m)' = Phase(m)
    BY <2>1, CloserStays DEF CloseSteps, IInv, TypeOK
  <2>3. status[n] = "open" /\ ~shut[n]
    BY <2>1 DEF IInv, Protocol
  <2>4. shut'[n]
    BY <2>1 DEF IInv, TypeOK
  <2>5. Phase(n) = "closing"
    BY <2>1, <2>3 DEF Phase
  <2>6. Phase(n)' = "down"
    BY <2>1, <2>3, <2>4 DEF Phase
  <2> QED
    BY <2>2, <2>5, <2>6 DEF Moves
<1>5. CASE ClearClient(n)
  <2>1. /\ status' = [status EXCEPT ![n] = "closed"] /\ task' = [task EXCEPT ![n] = Idle]
        /\ UNCHANGED <<shut, ends>>
    BY <1>5 DEF ClearClient
  <2>2. \A m \in Node \ {n} : Stays(m)
    BY <2>1, RegistryAssumption DEF Stays, IInv, TypeOK, Goroutine, RegistryAssumption
  <2>3. Phase(n)' = "gone"
    BY <2>1 DEF Phase, IInv, TypeOK
  <2> QED
    BY <2>2, <2>3, StaysInPhase DEF Moves
<1> QED
  BY <1>1, <1>2, <1>3, <1>4, <1>5 DEF Closing

(* A heartbeat goroutine is told to end, the only one of its process. *)
LEMMA ReceiveMoves ==
  ASSUME IInv, NEW n \in Node, NEW b \in Beat, Receive(n, b)
  PROVE  Moves(n)
<1>1. /\ task[n].pc = "send" /\ task[b].node = n
      /\ task' = [task EXCEPT ![n].pc = "locks",
                              ![b].pc = "deregister", ![b].brk = TRUE]
      /\ UNCHANGED <<status, shut, ends>>
  BY DEF Receive, BeatsOf
<1>2. /\ n \in Goroutine /\ n \notin Beat /\ b \in Goroutine /\ b \notin Node /\ b # n
  BY RegistryAssumption DEF Goroutine, RegistryAssumption
<1>3. /\ task \in [Goroutine -> Tasks] /\ task[n] \in Tasks /\ task[b] \in Tasks
  BY <1>2 DEF IInv, TypeOK
<1> DEFINE u == [task[n] EXCEPT !.pc = "locks"]
           t == [task[b] EXCEPT !.pc = "deregister", !.brk = TRUE]
<1>4. u.pc = "locks" /\ t.node = n /\ t.brk
  BY <1>1, <1>3 DEF Tasks
<1>5. \A h \in Goroutine :
        task'[h] = IF h = b THEN t ELSE IF h = n THEN u ELSE task[h]
  BY <1>1, <1>2, <1>3
<1> HIDE DEF u, t
<1>6. /\ task'[n] = u /\ \A m \in Node : m # n => task'[m] = task[m]
      /\ task'[b] = t /\ \A c \in Beat : c # b => task'[c] = task[c]
  BY <1>2, <1>5 DEF Goroutine
<1>7. \A m \in Node \ {n} : Stays(m)
  BY <1>1, <1>4, <1>6 DEF Stays
<1>8. /\ status[n] = "open" /\ ~shut[n] /\ ~(ends[n] > 0)
      /\ \A c \in Beat : task[c].node = n => ~task[c].brk
  BY <1>1 DEF IInv, Protocol, Releasing
<1>9. Phase(n) = "up"
  BY <1>1, <1>8 DEF Phase, Asked, BeatsOf
<1>10. Asked(n)'
  BY <1>4, <1>6 DEF Asked, BeatsOf
<1>11. Phase(n)' = "asked"
  BY <1>1, <1>4, <1>6, <1>8, <1>10 DEF Phase
<1> QED
  BY <1>7, <1>9, <1>11, StaysInPhase DEF Moves

(* It answers. *)
LEMMA EndMoves ==
  ASSUME IInv, NEW b \in Beat, End(b)
  PROVE  \E n \in Node : Moves(n)
<1>1. task[b].pc = "end"
  BY DEF End
<1>2. PICK n \in Node : n = task[b].node
  BY <1>1 DEF IInv, Assigned
<1>3. b \in Goroutine /\ b \notin Node /\ NodeOf(b) = n
  BY <1>2, RegistryAssumption DEF Goroutine, NodeOf, RegistryAssumption
<1>4. CASE shut[n]
  BY <1>3, <1>4, StopMoves DEF End, Die
<1>5. CASE ~shut[n]
  <2>1. /\ ends' = [ends EXCEPT ![n] = @ + 1]
        /\ task' = [task EXCEPT ![b] = Idle]
        /\ UNCHANGED <<status, shut>>
    BY <1>3, <1>5 DEF End
  <2>2. task[b].brk /\ task[b].node = n
    BY <1>1, <1>2 DEF IInv, Protocol
  <2>3. /\ task[n].pc \in Releasing /\ ends[n] = 0
        /\ \A c \in Beat : task[c].node = n /\ task[c].brk => c = b
    BY <2>2 DEF IInv, Protocol
  <2>4. status[n] = "open"
    BY <2>3 DEF IInv, Protocol, Releasing
  <2>5. /\ ends'[n] = 1 /\ \A m \in Node : m # n => ends'[m] = ends[m]
    BY <2>1, <2>3 DEF IInv, TypeOK
  <2>6. /\ task'[b] = Idle
        /\ \A m \in Node : task'[m] = task[m]
        /\ \A c \in Beat : c # b => task'[c] = task[c]
    BY <1>3, <2>1 DEF IInv, TypeOK, Goroutine
  <2>7. \A m \in Node \ {n} : Stays(m)
    BY <2>1, <2>2, <2>5, <2>6, IdleType DEF Stays
  <2>8. Asked(n)
    BY <2>2 DEF Asked, BeatsOf
  <2>9. ~Asked(n)'
    BY <2>3, <2>6, IdleType DEF Asked, BeatsOf
  <2>10. Phase(n) = "asked"
    BY <1>5, <2>3, <2>4, <2>8 DEF Phase, Releasing
  <2>11. Phase(n)' = "answered"
    BY <1>5, <2>1, <2>3, <2>4, <2>5, <2>6, <2>9 DEF Phase, Releasing
  <2> QED
    BY <2>7, <2>10, <2>11, StaysInPhase DEF Moves
<1> QED
  BY <1>4, <1>5

LEMMA RestartMoves ==
  ASSUME IInv, NEW n \in Node, Restart(n)
  PROVE  Moves(n)
<1>1. /\ status[n] # "open" /\ status' = [status EXCEPT ![n] = "open"]
      /\ shut' = [shut EXCEPT ![n] = FALSE]
      /\ ends' = [ends EXCEPT ![n] = 0]
      /\ task' = [g \in Goroutine |-> IF g \in BeatsOf(n) THEN Idle ELSE task[g]]
  BY DEF Restart
<1>2. \A m \in Node : task'[m] = task[m]
  BY <1>1, RegistryAssumption DEF Goroutine, BeatsOf, RegistryAssumption
<1>3. \A b \in Beat : task'[b] = IF task[b].node = n THEN Idle ELSE task[b]
  BY <1>1 DEF Goroutine, BeatsOf
<1>4. /\ status'[n] = "open" /\ ~shut'[n] /\ ends'[n] = 0
      /\ \A m \in Node : m # n => /\ status'[m] = status[m] /\ shut'[m] = shut[m]
                                  /\ ends'[m] = ends[m]
  BY <1>1 DEF IInv, TypeOK
<1>5. ASSUME NEW m \in Node \ {n} PROVE Stays(m)
  <2>1. \A b \in Beat : task'[b].node = m /\ task'[b].brk
                            <=> task[b].node = m /\ task[b].brk
    BY <1>3, IdleType
  <2> QED
    BY <1>2, <1>4, <2>1 DEF Stays
<1>6. Phase(n) = "gone"
  BY <1>1 DEF Phase
<1>7. ~Asked(n)'
  BY <1>3, IdleType DEF Asked, BeatsOf
<1>8. task'[n].pc = "idle"
  <2>1. task[n].pc # "idle" => status[n] = "open"
    BY DEF IInv, Protocol
  <2> QED
    BY <1>1, <1>2, <2>1
<1>9. Phase(n)' = "up"
  <2>1. task'[n].pc # "shut" /\ ~(ends'[n] > 0)
    BY <1>4, <1>8
  <2> QED
    BY <1>4, <1>7, <2>1 DEF Phase
<1> QED
  BY <1>5, <1>6, <1>9, StaysInPhase DEF Moves

LEMMA StepIsHandshake ==
  ASSUME IInv, [Next]_vars
  PROVE  [H!Next]_(H!vars)
<1>1. CASE UNCHANGED vars
  BY <1>1, AllStay DEF vars, Stays
<1>2. ASSUME NEW n \in Node, NEW id \in Id, Register(n, id)
      PROVE  [H!Next]_(H!vars)
  <2> DEFINE t == [Idle EXCEPT !.pc = "query", !.id = id]
  <2>1. task' = [task EXCEPT ![n] = t] /\ task[n] = Idle /\ UNCHANGED <<status, shut, ends>>
    BY <1>2 DEF Register
  <2>2. t.pc = "query"
    BY DEF Idle
  <2>3. n \in Goroutine /\ n \notin Beat
    BY RegistryAssumption DEF Goroutine, RegistryAssumption
  <2> HIDE DEF t
  <2>4. task'[n] = t /\ \A h \in Goroutine : h # n => task'[h] = task[h]
    BY <2>1, <2>3 DEF IInv, TypeOK
  <2> QED
    BY <2>1, <2>2, <2>3, <2>4, IdleType, GoesOnStays, AllStay
<1>3. ASSUME NEW n \in Node, NEW id \in Id, NEW all \in BOOLEAN, Deregister(n, id, all)
      PROVE  [H!Next]_(H!vars)
  <2> DEFINE t == [Idle EXCEPT !.pc = "deregister", !.id = id, !.all = all]
  <2>1. task' = [task EXCEPT ![n] = t] /\ task[n] = Idle /\ UNCHANGED <<status, shut, ends>>
    BY <1>3 DEF Deregister
  <2>2. t.pc = "deregister"
    BY DEF Idle
  <2>3. n \in Goroutine /\ n \notin Beat
    BY RegistryAssumption DEF Goroutine, RegistryAssumption
  <2> HIDE DEF t
  <2>4. task'[n] = t /\ \A h \in Goroutine : h # n => task'[h] = task[h]
    BY <2>1, <2>3 DEF IInv, TypeOK
  <2> QED
    BY <2>1, <2>2, <2>3, <2>4, IdleType, GoesOnStays, AllStay
<1>4. ASSUME NEW n \in Node, Close(n) \/ Closing(n)
      PROVE  [H!Next]_(H!vars)
  BY <1>4, ClosingMoves, MoveIsHandshake
<1>5. ASSUME NEW n \in Node, Crash(n) \/ Restart(n)
      PROVE  [H!Next]_(H!vars)
  BY <1>5, StopMoves, RestartMoves, MoveIsHandshake DEF Crash, Die
<1>6. ASSUME NEW n \in Node, NEW b \in Beat, Receive(n, b)
      PROVE  [H!Next]_(H!vars)
  BY <1>6, ReceiveMoves, MoveIsHandshake
<1>7. ASSUME NEW g \in Goroutine, Calling(g)
      PROVE  [H!Next]_(H!vars)
  BY <1>7, CallingMoves
<1>8. ASSUME NEW b \in Beat, End(b)
      PROVE  [H!Next]_(H!vars)
  BY <1>8, EndMoves, MoveIsHandshake
<1>9. ASSUME NEW b \in Beat, Start(b) \/ ReceiveClosed(b) \/ Heartbeat(b)
      PROVE  [H!Next]_(H!vars)
  <2>0. b \in Goroutine /\ task[b].pc # "idle" /\ task[b].pc # "shut"
    BY <1>9 DEF Goroutine, Start, ReceiveClosed, Heartbeat
  <2>1. NodeOf(b) \in Node
    BY <2>0, CallerFacts
  <2>2. CASE Die(NodeOf(b))
    BY <2>1, <2>2, StopMoves, MoveIsHandshake DEF Die
  <2>3. CASE ~Die(NodeOf(b))
    <3>1. /\ UNCHANGED <<status, shut, ends>>
          /\ \/ UNCHANGED task
             \/ Goto(b, "select") \/ Goto(b, "deregister") \/ Goto(b, "query")
      BY <1>9, <2>3 DEF Start, ReceiveClosed, Heartbeat
    <3>2. CASE UNCHANGED task
      BY <3>1, <3>2, AllStay DEF Stays
    <3>3. CASE Goto(b, "select") \/ Goto(b, "deregister") \/ Goto(b, "query")
      BY <2>0, <3>1, <3>3, GotoStays, AllStay
    <3> QED
      BY <3>1, <3>2, <3>3
  <2> QED
    BY <2>2, <2>3
<1>10. ASSUME NEW a \in Agent, NEW id \in Id, Lapse(a, id) \/ Reap(a, id)
      PROVE  [H!Next]_(H!vars)
  BY <1>10, AllStay DEF Lapse, Reap, Stays
<1> QED
  BY <1>1, <1>2, <1>3, <1>4, <1>5, <1>6, <1>7, <1>8, <1>9, <1>10 DEF Next, Beating

(* Close implements the handshake: with any number of heartbeat goroutines *)
(* per process, each at any place of its loop or of a Register or          *)
(* Deregister, one is asked, it answers, and nothing is closed before.     *)
THEOREM CloseImplementsHandshake == Spec => ClosesByHandshake
<1>1. Init => H!Init
  <2> SUFFICES ASSUME Init PROVE H!Init
    OBVIOUS
  <2>1. ASSUME NEW n \in Node PROVE Phase(n) = "up"
    <3>1. ~Asked(n) /\ task[n].pc = "idle"
      BY IdleType DEF Init, Asked, BeatsOf, Goroutine
    <3>2. status[n] = "open" /\ ~shut[n] /\ ~(ends[n] > 0)
      BY DEF Init
    <3> QED
      BY <3>1, <3>2 DEF Phase
  <2> QED
    BY <2>1 DEF H!Init
<1> QED
  BY InitInv, StepInv, StepIsHandshake, <1>1, PTL DEF Spec, ClosesByHandshake, H!Spec
=============================================================================
