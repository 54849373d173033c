-------------------------- MODULE ConsulCalmProofs --------------------------
(***************************************************************************)
(* Theorems about ConsulRegistry where no request is refused and no        *)
(* service is deregistered but by Close, for every set of processes and    *)
(* services, with crashes and with answers that are lost: an instance has  *)
(* one heartbeat, a heartbeat beats for what is registered, and one that   *)
(* ends has taken the registration of its instance with it, unless its     *)
(* address was left open and nothing can be searched for.                  *)
(***************************************************************************)
EXTENDS ConsulRegistryProofs

(* Processes may crash and answers may be lost; those at one agent have    *)
(* services of their own, and each service has one instance.               *)
Calm ==
  /\ Faults \subseteq {"lost", "crash"} /\ Uses \subseteq {"close"}
  /\ \A n, m \in Node :
       AgentOf[n] = AgentOf[m] /\ n # m => IdsOf[n] \cap IdsOf[m] = {}
  /\ \A i, j \in Id : ServiceOf[i] = ServiceOf[j] => i = j

(* The agent of n has the service.                                         *)
Listed(n, id) == id \in services[AgentOf[n]]

(* Of a service with an unspecified address nothing is deregistered while  *)
(* there is no consulapi service.                                          *)
Remains(id) == id \in Vague /\ FALSE \in ConsulApi

(* What a heartbeat goroutine of n can be doing while the channels are     *)
(* open: beating for what the agent has, or, told to end, taking it off:   *)
(* the fast way and, when the answer to that was lost, the slow way, on    *)
(* which there is nothing left to do, or the slow way alone.               *)
Serving(n, b) ==
  /\ task[b].all <=> task[b].id \in Vague
  /\ \/ /\ ~task[b].brk /\ task[b].pc \in {"new", "select", "query"}
        /\ Listed(n, task[b].id)
     \/ task[b].brk /\ task[b].pc \in {"deregister", "fast"}
     \/ /\ task[b].brk /\ task[b].pc = "slow"
        /\ Listed(n, task[b].id) => task[b].id \in Vague
     \/ /\ task[b].brk /\ task[b].pc = "remove"
        /\ task[b].taken \subseteq {task[b].id}
        /\ Listed(n, task[b].id) => task[b].id \in task[b].taken
     \/ /\ task[b].brk /\ task[b].pc = "end"
        /\ Listed(n, task[b].id) => Remains(task[b].id)

(* There is one for an id, and none for what n is about to register.       *)
InOrder(n) ==
  /\ \A b \in Beat : task[b].node = n => Serving(n, b)
  /\ \A b, c \in Beat :
       task[b].node = n /\ task[c].node = n /\ task[b].id = task[c].id => b = c
  /\ \A b \in Beat :
       task[b].node = n /\ task[n].pc = "register" => task[b].id # task[n].id

CalmInv ==
  /\ \A n \in Node : task[n].pc \notin {"deregister", "fast", "slow", "remove"}
  /\ \A n \in Node : shut[n] \/ InOrder(n)

Unused == {"deregister", "fast", "slow", "remove"}

(* A goroutine g with task t is busy with what its process registers, and  *)
(* a heartbeat goroutine decides to take off what it serves at most.       *)
Own(g, t) ==
  /\ g \in Node /\ t.pc \in {"query", "register"} => t.id \in IdsOf[g]
  /\ g \in Beat /\ t.node \in Node => t.id \in IdsOf[t.node]
  /\ g \in Beat /\ t.pc = "remove" => t.taken \subseteq {t.id}

OwnInv == \A g \in Goroutine : Own(g, task[g])

-----------------------------------------------------------------------------
(* A step of process m may change what agents have of the ids in S.        *)
Changes(m, S) ==
  \A a \in Agent, id \in Id :
    a # AgentOf[m] \/ id \notin S => (id \in services'[a] <=> id \in services[a])

(* A step of process m leaves the others and their goroutines alone, and   *)
(* what they have at the agents.                                           *)
Touches(m) ==
  /\ \A n \in Node : n # m => task'[n] = task[n] /\ shut'[n] = shut[n]
  /\ \A b \in Beat : task'[b] = task[b] \/ task'[b].node \in {m, None}
  /\ Changes(m, IdsOf[m])

LEMMA Kept ==
  ASSUME OwnInv, NEW n \in Node, InOrder(n),
         \A b \in Beat : task'[b].node = n => task'[b] = task[b],
         \A id \in IdsOf[n] : Listed(n, id)' <=> Listed(n, id),
         task'[n].pc = "register" => task'[n] = task[n]
  PROVE  InOrder(n)'
<1>1. ASSUME NEW b \in Beat, task'[b].node = n PROVE Serving(n, b)'
  <2>1. task[b].id \in IdsOf[n]
    BY <1>1 DEF OwnInv, Own, Goroutine
  <2> QED
    BY <1>1, <2>1 DEF InOrder, Serving
<1>2. ASSUME NEW b \in Beat, NEW c \in Beat, task'[b].node = n,
             task'[c].node = n, task'[b].id = task'[c].id
      PROVE  b = c
  BY <1>2 DEF InOrder
<1>3. ASSUME NEW b \in Beat, task'[b].node = n, task'[n].pc = "register"
      PROVE  task'[b].id # task'[n].id
  BY <1>3 DEF InOrder
<1> QED
  BY <1>1, <1>2, <1>3 DEF InOrder

LEMMA StepOfOne ==
  ASSUME Calm, OwnInv, CalmInv, NEW m \in Node, Touches(m),
         task'[m].pc \notin Unused, shut'[m] \/ InOrder(m)'
  PROVE  CalmInv'
<1>1. ASSUME NEW n \in Node, n # m
      PROVE  task'[n].pc \notin Unused /\ (shut'[n] \/ InOrder(n)')
  <2>1. task'[n] = task[n] /\ shut'[n] = shut[n]
    BY <1>1 DEF Touches
  <2>2. \A b \in Beat : task'[b].node = n => task'[b] = task[b]
    BY <1>1, RegistryAssumption DEF Touches, RegistryAssumption
  <2>3. /\ AgentOf[n] \in Agent /\ IdsOf[n] \subseteq Id
        /\ AgentOf[n] = AgentOf[m] => IdsOf[n] \cap IdsOf[m] = {}
    BY <1>1, RegistryAssumption DEF Calm, RegistryAssumption
  <2>4. \A id \in IdsOf[n] : Listed(n, id)' <=> Listed(n, id)
    BY <2>3 DEF Touches, Changes, Listed
  <2> QED
    BY <2>1, <2>2, <2>4, Kept DEF CalmInv, Unused
<1> QED
  BY <1>1 DEF CalmInv, Unused

(* A process that ends leaves no goroutine. *)
LEMMA StopCalm ==
  ASSUME Calm, IInv, OwnInv, CalmInv, NEW m \in Node, Stop(m),
         Changes(m, IdsOf[m])
  PROVE  CalmInv'
<1>1. /\ task' = [g \in Goroutine |-> IF g = m \/ g \in BeatsOf(m) THEN Idle ELSE task[g]]
      /\ UNCHANGED shut
  BY DEF Stop
<1>2. \A b \in Beat : b # m /\ b \in Goroutine
  BY RegistryAssumption DEF RegistryAssumption, Goroutine
<1>3. \A b \in Beat : task'[b] = Idle \/ (task'[b] = task[b] /\ task[b].node # m)
  BY <1>1, <1>2 DEF BeatsOf
<1>4. \A n \in Node : n # m => task'[n] = task[n]
  BY <1>1, RegistryAssumption DEF RegistryAssumption, Goroutine, BeatsOf
<1>5. task'[m] = Idle
  BY <1>1 DEF Goroutine
<1>6. Touches(m)
  BY <1>1, <1>3, <1>4, IdleType DEF Touches
<1>7. \A b \in Beat : task'[b].node # m
  BY <1>3, IdleType
<1>8. InOrder(m)'
  BY <1>7 DEF InOrder
<1> QED
  BY <1>5, <1>6, <1>8, IdleType, StepOfOne DEF Unused

LEMMA DieCalm ==
  ASSUME Calm, IInv, OwnInv, CalmInv, NEW m \in Node, Die(m)
  PROVE  CalmInv'
  BY StopCalm DEF Die, Changes

(* The application goes on in a call, or calls. *)
LEMMA OwnCalm ==
  ASSUME Calm, IInv, OwnInv, CalmInv, NEW n \in Node, NEW t,
         task' = [task EXCEPT ![n] = t], t.pc \notin Unused \cup {"register"},
         services' = services, \A m \in Node : m # n => shut'[m] = shut[m],
         shut'[n] \/ ~shut[n]
  PROVE  CalmInv'
<1>1. /\ \A b \in Beat : task'[b] = task[b]
      /\ \A m \in Node : m # n => task'[m] = task[m]
      /\ task'[n] = t
  BY RegistryAssumption DEF RegistryAssumption, IInv, TypeOK, Goroutine
<1>2. Touches(n)
  BY <1>1 DEF Touches, Changes
<1>3. shut'[n] \/ InOrder(n)'
  BY <1>1, Kept DEF CalmInv, Listed
<1> QED
  BY <1>1, <1>2, <1>3, StepOfOne

(* A heartbeat goroutine of n goes on, and the registrations stay.         *)
LEMMA BeatCalm ==
  ASSUME Calm, IInv, OwnInv, CalmInv, NEW n \in Node, NEW b \in Beat, task[b].node = n,
         NEW t, t.node \in {n, None}, t.node = n => t.id = task[b].id,
         task'[b] = t,
         \A g \in Goroutine : g # b => task'[g] = task[g]
           \/ (g = n /\ task'[n].pc \notin Unused \cup {"register"}),
         services' = services, shut' = shut,
         InOrder(n) /\ ~shut[n] /\ t.node = n => Serving(n, b)'
  PROVE  CalmInv'
<1>1. /\ \A c \in Beat : c # b => task'[c] = task[c]
      /\ \A m \in Node : m # n => task'[m] = task[m]
      /\ task'[n] = task[n] \/ task'[n].pc \notin Unused \cup {"register"}
  BY RegistryAssumption DEF RegistryAssumption, Goroutine
<1>2. Touches(n)
  BY <1>1 DEF Touches, Changes
<1>3. task'[n].pc \notin Unused
  BY <1>1 DEF CalmInv, Unused
<1>4. ASSUME ~shut[n] PROVE InOrder(n)'
  <2>1. InOrder(n)
    BY <1>4 DEF CalmInv
  <2>2. ASSUME NEW c \in Beat, task'[c].node = n
        PROVE  Serving(n, c)' /\ task[c].node = n /\ task'[c].id = task[c].id
    <3>1. CASE c = b
      BY <1>4, <2>1, <2>2, <3>1
    <3>2. CASE c # b
      BY <1>1, <2>1, <2>2, <3>2 DEF InOrder, Serving, Listed
    <3> QED
      BY <3>1, <3>2
  <2>3. ASSUME NEW c \in Beat, task'[c].node = n, task'[n].pc = "register"
        PROVE  task'[c].id # task'[n].id
    BY <1>1, <2>1, <2>2, <2>3 DEF InOrder
  <2>4. ASSUME NEW c \in Beat, NEW d \in Beat, task'[c].node = n,
               task'[d].node = n, task'[c].id = task'[d].id
        PROVE  c = d
    BY <2>1, <2>2, <2>4 DEF InOrder
  <2> QED
    BY <2>2, <2>3, <2>4 DEF InOrder
<1> QED
  BY <1>2, <1>3, <1>4, StepOfOne

-----------------------------------------------------------------------------
(* Once the channels of a process are closed anything goes.                *)
LEMMA ShutCalm ==
  ASSUME Calm, OwnInv, CalmInv, NEW n \in Node, shut[n], shut' = shut, Touches(n),
         task'[n] = task[n]
  PROVE  CalmInv'
  BY StepOfOne DEF CalmInv, Unused

(* Before, a heartbeat goroutine registers nothing.                        *)
LEMMA OpenBeat ==
  ASSUME CalmInv, NEW n \in Node, ~shut[n], NEW b \in Beat, task[b].node = n
  PROVE  Serving(n, b) /\ task[b].pc \notin {"register", "idle"}
  BY DEF CalmInv, InOrder, Serving

LEMMA Lands ==
  ASSUME IInv, NEW g \in Goroutine, NEW pc, Goto(g, pc)
  PROVE  /\ \A h \in Goroutine : h # g => task'[h] = task[h]
         /\ task'[g].pc = pc /\ task'[g].node = task[g].node
         /\ task'[g].id = task[g].id /\ task'[g].all = task[g].all
         /\ task'[g].brk = task[g].brk
<1>1. task[g] \in Tasks /\ task \in [Goroutine -> Tasks]
  BY DEF IInv, TypeOK
<1>2. task' = [task EXCEPT ![g] = [task[g] EXCEPT !.pc = pc]]
  BY <1>1 DEF Goto
<1>3. task'[g] = [task[g] EXCEPT !.pc = pc]
  BY <1>1, <1>2
<1> QED
  BY <1>1, <1>2, <1>3 DEF Tasks

LEMMA Returns ==
  ASSUME IInv, NEW g \in Goroutine, Return(g)
  PROVE  /\ \A h \in Goroutine : h # g => task'[h] = task[h]
         /\ g \in Node => task'[g] = Idle
         /\ g \notin Node =>
              /\ task'[g].pc = IF task[g].brk THEN "end" ELSE "select"
              /\ task'[g].node = task[g].node /\ task'[g].id = task[g].id
              /\ task'[g].all = task[g].all /\ task'[g].brk = task[g].brk
<1>1. task[g] \in Tasks /\ task \in [Goroutine -> Tasks]
  BY DEF IInv, TypeOK
<1>2. task'[g] = Back(g) /\ \A h \in Goroutine : h # g => task'[h] = task[h]
  BY <1>1 DEF Return
<1>3. g \in Node => Back(g) = Idle
  BY DEF Back
<1>4. ASSUME g \notin Node
      PROVE  /\ task'[g].pc = IF task[g].brk THEN "end" ELSE "select"
             /\ task'[g].node = task[g].node /\ task'[g].id = task[g].id
             /\ task'[g].all = task[g].all /\ task'[g].brk = task[g].brk
  <2> DEFINE pc == IF task[g].brk THEN "end" ELSE "select"
  <2>1. task'[g] = [task[g] EXCEPT !.pc = pc, !.taken = {}]
    BY <1>2, <1>4 DEF Back
  <2> HIDE DEF pc
  <2>2. /\ task'[g].pc = pc
        /\ task'[g].node = task[g].node /\ task'[g].id = task[g].id
        /\ task'[g].all = task[g].all /\ task'[g].brk = task[g].brk
    BY <1>1, <2>1 DEF Tasks
  <2> QED
    BY <2>2 DEF pc
<1> QED
  BY <1>2, <1>3, <1>4

(* A heartbeat goroutine that goes on touches its own process only.        *)
LEMMA BeatTouches ==
  ASSUME NEW n \in Node, NEW b \in Beat, b \notin Node,
         \A h \in Goroutine : h # b => task'[h] = task[h],
         task'[b].node \in {n, None}, shut' = shut,
         Changes(n, IdsOf[n])
  PROVE  Touches(n) /\ task'[n] = task[n]
  BY RegistryAssumption DEF RegistryAssumption, Goroutine, Touches

LEMMA Apart == Node \cap Beat = {}
  BY RegistryAssumption DEF RegistryAssumption

LEMMA HostOf ==
  ASSUME NEW g \in Goroutine
  PROVE  /\ g \in Node => NodeOf(g) = g /\ Host(g) = AgentOf[g]
         /\ g \in Beat => NodeOf(g) = task[g].node /\ Host(g) = AgentOf[task[g].node]
  BY Apart DEF NodeOf, Host

LEMMA QueryCalm ==
  ASSUME Calm, IInv, OwnInv, CalmInv, NEW g \in Goroutine, Query(g)
  PROVE  CalmInv'
<1> DEFINE n == NodeOf(g)
<1>1. task[g].pc = "query" /\ n \in Node
  BY CallerFacts DEF Query
<1>2. CASE ~IsOpen(g)
  BY <1>1, <1>2, DieCalm DEF Query
<1>3. CASE IsOpen(g) /\ g \in Node
  <2>1. n = g /\ Host(g) = AgentOf[g] /\ status[g] = "open" /\ g \notin Beat
    BY <1>3, HostOf, Apart DEF IsOpen
  <2>2. ~shut[g]
    BY <1>1, <1>3, <2>1 DEF IInv, Protocol
  <2>3. UNCHANGED <<services, shut>>
    BY <1>3 DEF Query
  <2>4. CASE Return(g)
    <3>1. task' = [task EXCEPT ![g] = Idle]
      BY <1>3, <2>4 DEF Return, Back
    <3>2. Idle.pc \notin Unused \cup {"register"}
      BY IdleType DEF Unused
    <3> QED
      BY <1>3, <2>2, <2>3, <3>1, <3>2, OwnCalm
  <2>5. CASE Goto(g, "register") /\ ~Has(Host(g), task[g].id)
    <3>1. /\ \A h \in Goroutine : h # g => task'[h] = task[h]
          /\ task'[g].pc = "register" /\ task'[g].id = task[g].id
      BY <2>5, Lands
    <3>2. \A b \in Beat : task'[b] = task[b]
      BY <2>1, <3>1 DEF Goroutine
    <3>3. Touches(g)
      BY <2>3, <3>1, <3>2 DEF Touches, Changes, Goroutine
    <3>4. InOrder(g)
      BY <1>3, <2>2 DEF CalmInv
    <3>5. ASSUME NEW b \in Beat, task[b].node = g
          PROVE  task[b].id # task[g].id
      <4>1. ~task[b].brk
        BY <1>1, <1>3, <3>5 DEF IInv, Protocol, Releasing
      <4>2. Listed(g, task[b].id)
        BY <3>4, <3>5, <4>1 DEF InOrder, Serving
      <4> QED
        BY <2>1, <2>5, <4>2 DEF Has, Listed
    <3>6. InOrder(g)'
      <4>1. \A b \in Beat : task'[b].node = g => Serving(g, b)'
        BY <2>3, <3>2, <3>4 DEF InOrder, Serving, Listed
      <4>2. \A b, c \in Beat : task'[b].node = g /\ task'[c].node = g
                                 /\ task'[b].id = task'[c].id => b = c
        BY <3>2, <3>4 DEF InOrder
      <4>3. \A b \in Beat : task'[b].node = g => task'[b].id # task'[g].id
        BY <3>1, <3>2, <3>5
      <4> QED
        BY <4>1, <4>2, <4>3 DEF InOrder
    <3> QED
      BY <1>3, <3>1, <3>3, <3>6, StepOfOne DEF Unused
  <2> QED
    BY <1>3, <2>4, <2>5 DEF Query, Calm
<1>4. CASE IsOpen(g) /\ g \notin Node
  <2>1. g \in Beat /\ n = task[g].node
    BY <1>4, HostOf DEF Goroutine
  <2>2. UNCHANGED <<services, shut>>
    BY <1>4 DEF Query
  <2>3. CASE shut[n]
    <3>1. /\ \A h \in Goroutine : h # g => task'[h] = task[h]
          /\ task'[g].node = n
      BY <1>4, <2>1, Returns, Lands DEF Query
    <3> QED
      BY <1>1, <1>4, <2>1, <2>2, <2>3, <3>1, BeatTouches, ShutCalm DEF Changes
  <2>4. CASE ~shut[n]
    <3> PICK m \in Node : m = task[g].node
      BY <1>1, <2>1
    <3>1. Serving(m, g) /\ ~shut[m]
      BY <2>1, <2>4, OpenBeat
    <3>2. /\ task[g].all <=> task[g].id \in Vague
          /\ ~task[g].brk /\ Listed(m, task[g].id)
      BY <1>1, <3>1 DEF Serving
    <3>3. Has(Host(g), task[g].id)
      BY <2>1, <3>2, HostOf DEF Has, Listed
    <3>4. Return(g)
      BY <1>4, <3>3 DEF Query, Calm
    <3>5. /\ \A h \in Goroutine : h # g => task'[h] = task[h]
          /\ task'[g].pc = "select" /\ task'[g].node = task[g].node
          /\ task'[g].id = task[g].id /\ task'[g].all = task[g].all
          /\ task'[g].brk = task[g].brk
      BY <1>4, <3>2, <3>4, Returns
    <3>6. Serving(m, g)'
      BY <2>2, <3>2, <3>5 DEF Serving, Listed
    <3> QED
      BY <2>1, <2>2, <3>5, <3>6, BeatCalm
  <2> QED
    BY <2>3, <2>4
<1> QED
  BY <1>2, <1>3, <1>4

(* What is registered is the process's own.                                *)
LEMMA Adds ==
  ASSUME IInv, OwnInv, NEW g \in Goroutine, task[g].pc = "register",
         services' = [services EXCEPT ![Host(g)] = @ \cup {task[g].id}]
  PROVE  Changes(NodeOf(g), IdsOf[NodeOf(g)])
<1>1. NodeOf(g) \in Node /\ Host(g) \in Agent /\ services \in [Agent -> SUBSET Id]
  BY CallerFacts DEF IInv, TypeOK
<1>2. task[g].id \in IdsOf[NodeOf(g)]
  BY <1>1, HostOf DEF OwnInv, Own, Goroutine
<1> QED
  BY <1>1, <1>2 DEF Changes, Host

(* Only the application registers while the channels are open, and finds a *)
(* goroutine for what nobody serves.                                       *)
LEMMA ServiceRegisterCalm ==
  ASSUME Calm, IInv, OwnInv, CalmInv, NEW g \in Goroutine, ServiceRegister(g)
  PROVE  CalmInv'
<1> DEFINE n == NodeOf(g)
<1>1. task[g].pc = "register" /\ n \in Node /\ task[g].id \in Id
      /\ task[g].id # None
  BY CallerFacts, RegistryAssumption
     DEF ServiceRegister, CloseSteps, RegistryAssumption
<1>2. CASE ~IsOpen(g)
  BY <1>1, <1>2, DieCalm DEF ServiceRegister
<1>3. CASE /\ services' = [services EXCEPT ![Host(g)] = @ \cup {task[g].id}]
           /\ Stop(n)
  <2>1. Changes(n, IdsOf[n])
    BY <1>1, <1>3, Adds
  <2> QED
    BY <1>1, <1>3, <2>1, StopCalm
<1>4. CASE /\ IsOpen(g)
           /\ services' = [services EXCEPT ![Host(g)] = @ \cup {task[g].id}]
           /\ \E b \in Free :
                task' = [task EXCEPT ![g] = Back(g), ![b] = NewBeat(g)]
           /\ shut' = shut
  <2>1. /\ services' = [services EXCEPT ![Host(g)] = @ \cup {task[g].id}]
        /\ \E b \in Free :
             task' = [task EXCEPT ![g] = Back(g), ![b] = NewBeat(g)]
        /\ shut' = shut
    BY <1>4
  <2> DEFINE t == NewBeat(g)
  <2>2. PICK b \in Free : task' = [task EXCEPT ![g] = Back(g), ![b] = t]
    BY <2>1
  <2>3. /\ t.pc = "new" /\ t.node = n /\ t.id = task[g].id /\ ~t.brk
        /\ t.all <=> task[g].id \in Vague
    BY NewBeatFacts
  <2>4. b \in Beat /\ task[b] = Idle /\ b # g
    BY <1>1, <2>2, IdleType DEF Free
  <2>6. Changes(n, IdsOf[n])
    BY <1>1, <2>1, Adds
  <2> HIDE DEF t, n
  <2>5. /\ task'[b] = t /\ task'[g] = Back(g)
        /\ \A h \in Goroutine : h # g /\ h # b => task'[h] = task[h]
    BY <2>2, <2>4 DEF IInv, TypeOK, Goroutine
  <2>7. CASE g \in Node
    <3>1. n = g /\ Host(g) = AgentOf[g] /\ status[g] = "open"
          /\ g \notin Beat /\ b \notin Node
      BY <1>4, <2>4, <2>7, HostOf, Apart DEF IsOpen, n
    <3>2. ~shut[g]
      BY <1>1, <2>7, <3>1 DEF IInv, Protocol
    <3>3. InOrder(g)
      BY <2>7, <3>2 DEF CalmInv
    <3>4. task'[g] = Idle
      BY <2>5, <2>7 DEF Back
    <3>5. \A c \in Beat : c # b => task'[c] = task[c]
      BY <2>5, <3>1 DEF Goroutine
    <3>6. Touches(g)
      BY <2>1, <2>3, <2>4, <2>5, <2>6, <3>1, <3>5 DEF Touches, Goroutine
    <3>7. services'[AgentOf[g]] = services[AgentOf[g]] \cup {task[g].id}
      BY <2>1, <2>7, <3>1, CallerFacts, <1>1 DEF IInv, TypeOK
    <3>8. ASSUME NEW c \in Beat, task'[c].node = g
          PROVE  Serving(g, c)'
      <4>1. CASE c = b
        BY <2>3, <2>5, <3>7, <4>1 DEF Serving, Listed
      <4>2. CASE c # b
        <5>1. task'[c] = task[c] /\ task[c].node = g
          BY <3>5, <3>8, <4>2
        <5>2. ~task[c].brk
          BY <1>1, <2>7, <5>1 DEF IInv, Protocol, Releasing
        <5> QED
          BY <3>3, <3>7, <5>1, <5>2 DEF InOrder, Serving, Listed
      <4> QED
        BY <4>1, <4>2
    <3>9. \A c \in Beat : task[c].node = g => task[c].id # task[g].id
      BY <1>1, <3>3 DEF InOrder
    <3>10. ASSUME NEW c \in Beat, NEW d \in Beat, task'[c].node = g,
                  task'[d].node = g, task'[c].id = task'[d].id
           PROVE  c = d
      BY <2>3, <2>5, <3>3, <3>5, <3>9, <3>10 DEF InOrder
    <3>11. InOrder(g)'
      BY <3>4, <3>8, <3>10, IdleType DEF InOrder
    <3> QED
      BY <2>7, <3>4, <3>6, <3>11, IdleType, StepOfOne DEF Unused
  <2>8. CASE g \notin Node
    <3>1. g \in Beat /\ n = task[g].node /\ Host(g) = AgentOf[n] /\ b \notin Node
      BY <2>4, <2>8, HostOf, Apart DEF Goroutine, n
    <3>2. shut[n]
      BY <1>1, <3>1, OpenBeat DEF n
    <3>3. task'[g].node = n
      <4>1. Back(g) = [task[g] EXCEPT !.pc = IF task[g].brk THEN "end" ELSE "select",
                                      !.taken = {}]
        BY <2>8 DEF Back
      <4>2. task[g] \in Tasks
        BY DEF IInv, TypeOK
      <4> DEFINE pc == IF task[g].brk THEN "end" ELSE "select"
      <4>3. Back(g) = [task[g] EXCEPT !.pc = pc, !.taken = {}]
        BY <4>1
      <4> HIDE DEF pc
      <4> QED
        BY <2>5, <3>1, <4>2, <4>3 DEF Tasks
    <3>4. \A m \in Node : task'[m] = task[m]
      BY <2>5, <2>8, <3>1 DEF Goroutine
    <3>5. \A c \in Beat : c # g /\ c # b => task'[c] = task[c]
      BY <2>5 DEF Goroutine
    <3>6. Touches(n)
      BY <2>1, <2>3, <2>5, <2>6, <3>1, <3>3, <3>4, <3>5 DEF Touches
    <3> QED
      BY <1>1, <2>1, <3>2, <3>4, <3>6, ShutCalm DEF n
  <2> QED
    BY <2>7, <2>8
<1> QED
  BY <1>2, <1>3, <1>4 DEF ServiceRegister, Answers, Calm

(* Deregister is executed by heartbeat goroutines only. *)
LEMMA BeginCalm ==
  ASSUME Calm, IInv, OwnInv, CalmInv, NEW g \in Goroutine, Begin(g)
  PROVE  CalmInv'
<1>1. task[g].pc = "deregister" /\ NodeOf(g) \in Node
  BY CallerFacts DEF Begin
<1>2. g \notin Node /\ g \in Beat /\ NodeOf(g) = task[g].node
  BY <1>1, HostOf DEF CalmInv, Goroutine
<1>3. CASE ~IsOpen(g)
  BY <1>1, <1>3, DieCalm DEF Begin
<1>4. CASE IsOpen(g)
  <2> PICK n \in Node : n = task[g].node
    BY <1>1, <1>2
  <2> DEFINE pc == IF task[g].all THEN "slow" ELSE "fast"
  <2>1. Goto(g, pc) /\ UNCHANGED <<services, shut>>
    BY <1>4 DEF Begin
  <2> HIDE DEF pc
  <2>2. /\ \A h \in Goroutine : h # g => task'[h] = task[h]
        /\ task'[g].pc = pc /\ task'[g].node = task[g].node
        /\ task'[g].id = task[g].id /\ task'[g].all = task[g].all
        /\ task'[g].brk = task[g].brk
    BY <2>1, Lands
  <2>3. ASSUME InOrder(n) PROVE Serving(n, g)'
    <3>1. (task[g].all <=> task[g].id \in Vague) /\ task[g].brk
      BY <1>1, <1>2, <2>3 DEF InOrder, Serving
    <3> QED
      BY <2>2, <3>1 DEF Serving, pc
  <2> QED
    BY <1>1, <1>2, <2>1, <2>2, <2>3, BeatCalm
<1> QED
  BY <1>3, <1>4

LEMMA OwnId ==
  ASSUME OwnInv, NEW b \in Beat, task[b].node \in Node
  PROVE  task[b].id \in IdsOf[task[b].node]
  BY DEF OwnInv, Own, Goroutine

(* A heartbeat goroutine of n takes off what it serves, or nothing.        *)
LEMMA OffCalm ==
  ASSUME Calm, IInv, OwnInv, CalmInv, NEW n \in Node, ~shut[n], shut' = shut,
         NEW g \in Beat, g \notin Node, task[g].node = n,
         \A h \in Goroutine : h # g => task'[h] = task[h],
         task'[g].node = n, task'[g].id = task[g].id,
         NEW S \in SUBSET {task[g].id},
         services' = [services EXCEPT ![AgentOf[n]] = @ \ S],
         Serving(n, g)'
  PROVE  CalmInv'
<1>1. services \in [Agent -> SUBSET Id] /\ AgentOf[n] \in Agent
  BY RegistryAssumption DEF RegistryAssumption, IInv, TypeOK
<1>2. Changes(n, IdsOf[n])
  BY <1>1, OwnId DEF Changes
<1>3. Touches(n) /\ task'[n] = task[n]
  BY <1>2, BeatTouches
<1>4. InOrder(n)
  BY DEF CalmInv
<1>5. ASSUME NEW c \in Beat, task'[c].node = n
      PROVE  /\ Serving(n, c)'
             /\ task[c].node = n /\ task'[c].id = task[c].id
  <2>1. CASE c = g
    BY <2>1
  <2>2. CASE c # g
    <3>1. task'[c] = task[c] /\ task[c].node = n
      BY <1>5, <2>2 DEF Goroutine
    <3>2. task[c].id # task[g].id
      BY <1>4, <2>2, <3>1 DEF InOrder
    <3>3. Listed(n, task[c].id)' <=> Listed(n, task[c].id)
      BY <1>1, <3>1, <3>2 DEF Listed
    <3> QED
      BY <1>4, <3>1, <3>3 DEF InOrder, Serving, Listed
  <2> QED
    BY <2>1, <2>2
<1>6. InOrder(n)'
  <2>1. \A c \in Beat : task'[c].node = n => Serving(n, c)'
    BY <1>5
  <2>2. \A c, d \in Beat : task'[c].node = n /\ task'[d].node = n
                            /\ task'[c].id = task'[d].id => c = d
    BY <1>4, <1>5 DEF InOrder
  <2>3. \A c \in Beat : task'[c].node = n /\ task'[n].pc = "register"
                         => task'[c].id # task'[n].id
    BY <1>3, <1>4, <1>5 DEF InOrder
  <2> QED
    BY <2>1, <2>2, <2>3 DEF InOrder
<1> QED
  BY <1>3, <1>6, StepOfOne DEF CalmInv, Unused

(* The instance it takes off is its own, and nobody else's.                *)
LEMMA DeregisterFastCalm ==
  ASSUME Calm, IInv, OwnInv, CalmInv, NEW g \in Goroutine, DeregisterFast(g)
  PROVE  CalmInv'
<1>1. task[g].pc = "fast" /\ NodeOf(g) \in Node /\ task[g].id \in Id
  BY CallerFacts DEF DeregisterFast, CloseSteps
<1> PICK n \in Node : n = task[g].node
  BY <1>1, HostOf DEF CalmInv, Goroutine
<1>2. g \notin Node /\ g \in Beat /\ NodeOf(g) = n /\ Host(g) = AgentOf[n]
  BY <1>1, HostOf DEF CalmInv, Goroutine
<1>3. CASE Die(NodeOf(g))
  BY <1>1, <1>3, DieCalm
<1>4. CASE \E id \in Instances(Host(g), ServiceOf[task[g].id]) :
             Drop(Host(g), {id}) /\ (Return(g) \/ Goto(g, "slow")) /\ shut' = shut
  <2>1. PICK id \in Instances(Host(g), ServiceOf[task[g].id]) :
               Drop(Host(g), {id}) /\ (Return(g) \/ Goto(g, "slow")) /\ shut' = shut
    BY <1>4
  <2>2. Host(g) \in Agent /\ services \in [Agent -> SUBSET Id]
    BY <1>1, CallerFacts DEF IInv, TypeOK
  <2>3. id = task[g].id
    <3>1. id \in Id /\ ServiceOf[id] = ServiceOf[task[g].id]
      BY <2>1, <2>2 DEF Instances
    <3> QED
      BY <1>1, <3>1 DEF Calm
  <2>4. /\ \A a \in Agent : a # AgentOf[n] => services'[a] = services[a]
        /\ services'[AgentOf[n]] = services[AgentOf[n]] \ {task[g].id}
    BY <1>2, <2>1, <2>2, <2>3 DEF Drop
  <2>9. Changes(n, IdsOf[n])
    BY <1>2, <2>4, OwnId DEF Changes
  <2>5. /\ \A h \in Goroutine : h # g => task'[h] = task[h]
        /\ task[g].brk => task'[g].pc \in {"end", "slow"}
        /\ task'[g].node = task[g].node /\ task'[g].id = task[g].id
        /\ task'[g].all = task[g].all /\ task'[g].brk = task[g].brk
    BY <1>2, <2>1, Returns, Lands
  <2>6. Touches(n) /\ task'[n] = task[n]
    BY <1>1, <1>2, <2>1, <2>5, <2>9, BeatTouches
  <2>7. CASE shut[n]
    BY <1>1, <1>2, <2>1, <2>6, <2>7, ShutCalm
  <2>8. CASE ~shut[n]
    <3>1. (task[g].all <=> task[g].id \in Vague) /\ task[g].brk
      BY <1>1, <1>2, <2>8, OpenBeat DEF Serving
    <3>2. services' = [services EXCEPT ![AgentOf[n]] = @ \ {task[g].id}]
      BY <1>2, <2>1, <2>3 DEF Drop
    <3>3. Serving(n, g)'
      BY <2>4, <2>5, <3>1 DEF Serving, Listed
    <3> QED
      BY <1>2, <2>1, <2>5, <2>8, <3>2, <3>3, OffCalm
  <2> QED
    BY <2>7, <2>8
<1> QED
  BY <1>3, <1>4 DEF DeregisterFast, Answers, Calm

(* The slow way finds, of a service with one instance, that instance, and  *)
(* takes it when it takes all.                                             *)
LEMMA TakesItsOwn ==
  ASSUME Calm, IInv, NEW g \in Goroutine, task[g].id \in Id
  PROVE  /\ Taken(g) \subseteq {task[g].id}
         /\ \A n \in Node :
              task[g].all /\ Listed(n, task[g].id) => task[g].id \in Taken(g)
<1>1. ASSUME NEW i \in Taken(g) PROVE i = task[g].id
  <2>1. PICK a \in Agent : i \in Instances(a, ServiceOf[task[g].id])
    BY <1>1 DEF Taken
  <2>2. i \in Id /\ ServiceOf[i] = ServiceOf[task[g].id]
    BY <2>1 DEF Instances, IInv, TypeOK
  <2> QED
    BY <2>2 DEF Calm
<1>2. ASSUME NEW n \in Node, task[g].all, Listed(n, task[g].id)
      PROVE  task[g].id \in Taken(g)
  <2>1. AgentOf[n] \in Agent
    BY RegistryAssumption DEF RegistryAssumption
  <2> QED
    BY <1>2, <2>1 DEF Taken, Instances, Listed
<1> QED
  BY <1>1, <1>2

(* While the channels are open it takes off the instance, if it is there.  *)
LEMMA SlowCalm ==
  ASSUME Calm, IInv, OwnInv, CalmInv, NEW g \in Goroutine, Look(g) \/ Remove(g)
  PROVE  CalmInv'
<1>1. task[g].pc \in {"slow", "remove"} /\ NodeOf(g) \in Node /\ task[g].id \in Id
  BY CallerFacts DEF Look, Remove, CloseSteps
<1> PICK n \in Node : n = task[g].node
  BY <1>1, HostOf DEF CalmInv, Goroutine
<1>2. g \notin Node /\ g \in Beat /\ NodeOf(g) = n /\ Host(g) = AgentOf[n]
  BY <1>1, HostOf DEF CalmInv, Goroutine
<1>3. CASE Die(NodeOf(g))
  BY <1>1, <1>3, DieCalm
<1>4. ASSUME /\ shut' = shut /\ \A h \in Goroutine : h # g => task'[h] = task[h]
             /\ task'[g].node = task[g].node
             /\ Changes(n, IdsOf[n]),
             shut[n]
      PROVE  CalmInv'
  BY <1>1, <1>2, <1>4, BeatTouches, ShutCalm
<1>5. ASSUME ~shut[n]
      PROVE  /\ task[g].brk /\ (task[g].all <=> task[g].id \in Vague)
             /\ task[g].pc = "slow" /\ Listed(n, task[g].id) => task[g].id \in Vague
             /\ task[g].pc = "remove" =>
                  /\ task[g].taken \subseteq {task[g].id}
                  /\ Listed(n, task[g].id) => task[g].id \in task[g].taken
  BY <1>1, <1>2, <1>5, OpenBeat DEF Serving
<1>6. CASE Look(g) /\ ~Die(NodeOf(g))
  <2>1. UNCHANGED <<services, shut>>
    BY <1>6 DEF Look
  <2>2. /\ \A h \in Goroutine : h # g => task'[h] = task[h]
        /\ task'[g].node = task[g].node /\ task'[g].id = task[g].id
        /\ task'[g].all = task[g].all /\ task'[g].brk = task[g].brk
        /\ \/ /\ task'[g].pc = IF task[g].brk THEN "end" ELSE "select"
              /\ FALSE \in ConsulApi
           \/ task'[g].pc = "remove" /\ task'[g].taken = Taken(g)
    <3>1. CASE Return(g) /\ FALSE \in ConsulApi
      BY <1>2, <3>1, Returns
    <3>2. CASE task' = [task EXCEPT ![g].pc = "remove", ![g].taken = Taken(g)]
      <4>1. task[g] \in Tasks /\ task \in [Goroutine -> Tasks]
        BY DEF IInv, TypeOK
      <4> DEFINE S == Taken(g)
                 t == [task[g] EXCEPT !.pc = "remove", !.taken = S]
      <4> HIDE DEF S
      <4>2. /\ t.pc = "remove" /\ t.node = task[g].node /\ t.id = task[g].id
            /\ t.all = task[g].all /\ t.brk = task[g].brk /\ t.taken = S
        BY <4>1 DEF Tasks
      <4>3. task' = [task EXCEPT ![g] = t]
        BY <3>2, <4>1 DEF Tasks, S
      <4> HIDE DEF t
      <4>4. task'[g] = t /\ \A h \in Goroutine : h # g => task'[h] = task[h]
        BY <4>1, <4>3
      <4> QED
        BY <4>2, <4>4 DEF S
    <3> QED
      BY <1>6, <3>1, <3>2 DEF Look
  <2>3. CASE shut[n]
    BY <1>4, <2>1, <2>2, <2>3 DEF Changes
  <2>4. CASE ~shut[n]
    <3>1. /\ Taken(g) \subseteq {task[g].id}
          /\ task[g].all /\ Listed(n, task[g].id) => task[g].id \in Taken(g)
      BY <1>1, TakesItsOwn
    <3>2. task[g].pc = "slow"
      BY <1>6 DEF Look
    <3>3. Serving(n, g)'
      BY <1>5, <2>1, <2>2, <2>4, <3>1, <3>2 DEF Serving, Listed, Remains
    <3> QED
      BY <1>2, <2>1, <2>2, <3>3, BeatCalm
  <2> QED
    BY <2>3, <2>4
<1>7. CASE Remove(g)
  <2>1. Drop(Host(g), task[g].taken) /\ Return(g) /\ shut' = shut /\ task[g].pc = "remove"
    BY <1>7 DEF Remove, Calm
  <2>2. /\ services \in [Agent -> SUBSET Id]
        /\ services' = [services EXCEPT ![AgentOf[n]] = @ \ task[g].taken]
    BY <1>2, <2>1 DEF Drop, IInv, TypeOK
  <2>3. /\ \A h \in Goroutine : h # g => task'[h] = task[h]
        /\ task'[g].pc = IF task[g].brk THEN "end" ELSE "select"
        /\ task'[g].node = task[g].node /\ task'[g].id = task[g].id
        /\ task'[g].all = task[g].all /\ task'[g].brk = task[g].brk
    BY <1>2, <2>1, Returns
  <2>6. Changes(n, IdsOf[n])
    BY <1>2, <2>1, <2>2, OwnId DEF OwnInv, Own, Changes
  <2>4. CASE shut[n]
    BY <1>4, <2>1, <2>3, <2>4, <2>6
  <2>5. CASE ~shut[n]
    <3>1. task[g].taken \in SUBSET {task[g].id}
      BY <1>5, <2>1, <2>5
    <3>2. AgentOf[n] \in Agent
      BY RegistryAssumption DEF RegistryAssumption
    <3>3. ~Listed(n, task[g].id)'
      BY <1>5, <2>1, <2>2, <2>3, <2>5, <3>2 DEF Listed
    <3>4. Serving(n, g)'
      BY <1>5, <2>3, <2>5, <3>3 DEF Serving, Listed
    <3> QED
      BY <1>2, <2>1, <2>2, <2>3, <2>5, <3>1, <3>4, OffCalm
  <2> QED
    BY <2>4, <2>5
<1> QED
  BY <1>3, <1>6, <1>7

-----------------------------------------------------------------------------
(* heartbeatRoutine. *)

LEMMA SameCalm ==
  ASSUME CalmInv, UNCHANGED <<services, shut, task>>
  PROVE  CalmInv'
  BY DEF CalmInv, InOrder, Serving, Listed

LEMMA StartCalm ==
  ASSUME Calm, IInv, OwnInv, CalmInv, NEW b \in Beat, Start(b)
  PROVE  CalmInv'
<1>1. task[b].pc = "new" /\ b \in Goroutine /\ NodeOf(b) \in Node
      /\ NodeOf(b) = task[b].node
  BY CallerFacts, HostOf DEF Start, Goroutine
<1> PICK n \in Node : n = task[b].node
  BY <1>1
<1>2. Goto(b, "select") /\ UNCHANGED <<services, shut>>
  BY DEF Start
<1>3. /\ \A h \in Goroutine : h # b => task'[h] = task[h]
      /\ task'[b].pc = "select" /\ task'[b].node = task[b].node
      /\ task'[b].id = task[b].id /\ task'[b].all = task[b].all
      /\ task'[b].brk = task[b].brk
  BY <1>1, <1>2, Lands
<1>4. ASSUME InOrder(n) PROVE Serving(n, b)'
  BY <1>1, <1>2, <1>3, <1>4 DEF InOrder, Serving, Listed
<1> QED
  BY <1>2, <1>3, <1>4, BeatCalm

(* The agent knows what a heartbeat is for, while the channels are open.   *)
LEMMA HeartbeatCalm ==
  ASSUME Calm, IInv, OwnInv, CalmInv, NEW b \in Beat, Heartbeat(b)
  PROVE  CalmInv'
<1>1. task[b].pc = "select" /\ b \in Goroutine /\ NodeOf(b) \in Node
      /\ NodeOf(b) = task[b].node /\ b \notin Node
      /\ Host(b) = AgentOf[task[b].node]
  BY CallerFacts, HostOf, Apart DEF Heartbeat, Goroutine
<1>2. CASE ~IsOpen(b)
  BY <1>1, <1>2, DieCalm DEF Heartbeat
<1>3. CASE UNCHANGED <<services, shut, task>>
  BY <1>3, SameCalm
<1>4. CASE Goto(b, "query") /\ UNCHANGED <<services, shut>>
  <2>1. task[b].node \in Node /\ task[b].id \in Id
    BY <1>1, CallerFacts DEF CloseSteps
  <2>2. CASE shut[task[b].node]
    <3>1. /\ \A h \in Goroutine : h # b => task'[h] = task[h]
          /\ task'[b].node = task[b].node
      BY <1>1, <1>4, Lands
    <3> QED
      BY <1>1, <1>4, <2>1, <2>2, <3>1, BeatTouches, ShutCalm DEF Changes
  <2>3. CASE ~shut[task[b].node]
    <3> PICK n \in Node : n = task[b].node
      BY <2>1
    <3>1. Serving(n, b)
      BY <2>3, OpenBeat
    <3>2. /\ \A h \in Goroutine : h # b => task'[h] = task[h]
          /\ task'[b].pc = "query" /\ task'[b].node = task[b].node
          /\ task'[b].id = task[b].id /\ task'[b].all = task[b].all
          /\ task'[b].brk = task[b].brk
      BY <1>1, <1>4, Lands
    <3>3. Serving(n, b)'
      BY <1>1, <1>4, <3>1, <3>2 DEF Serving, Listed
    <3> QED
      BY <1>4, <3>2, <3>3, BeatCalm
  <2> QED
    BY <2>2, <2>3
<1> QED
  BY <1>2, <1>3, <1>4 DEF Heartbeat, Answers, Calm

LEMMA ReceiveClosedCalm ==
  ASSUME Calm, IInv, OwnInv, CalmInv, NEW b \in Beat, ReceiveClosed(b)
  PROVE  CalmInv'
<1>1. task[b].pc = "select" /\ b \in Goroutine /\ task[b].node \in Node
      /\ NodeOf(b) = task[b].node /\ b \notin Node
  BY CallerFacts, HostOf, Apart DEF ReceiveClosed, Goroutine
<1>2. Goto(b, "deregister") /\ UNCHANGED <<services, shut>> /\ shut[task[b].node]
  BY <1>1 DEF ReceiveClosed
<1>3. /\ \A h \in Goroutine : h # b => task'[h] = task[h]
      /\ task'[b].node = task[b].node
  BY <1>1, <1>2, Lands
<1> QED
  BY <1>1, <1>2, <1>3, BeatTouches, ShutCalm DEF Changes

LEMMA ReceiveCalm ==
  ASSUME Calm, IInv, OwnInv, CalmInv, NEW n \in Node, NEW b \in Beat, Receive(n, b)
  PROVE  CalmInv'
<1>1. task[b].node = n /\ b # n /\ b \in Goroutine /\ n \in Goroutine
  BY Apart DEF Receive, BeatsOf, Goroutine
<1>2. /\ task[b] \in Tasks /\ task[n] \in Tasks
      /\ task \in [Goroutine -> Tasks]
  BY <1>1 DEF IInv, TypeOK
<1>3. /\ task' = [task EXCEPT ![n].pc = "locks",
                              ![b].pc = "deregister", ![b].brk = TRUE]
      /\ UNCHANGED <<services, shut>>
  BY DEF Receive
<1> DEFINE t == [task[b] EXCEPT !.pc = "deregister", !.brk = TRUE]
           u == [task[n] EXCEPT !.pc = "locks"]
<1>4. task'[b] = t /\ task'[n] = u
      /\ \A g \in Goroutine : g # b /\ g # n => task'[g] = task[g]
  BY <1>1, <1>2, <1>3
<1>5. /\ t.node = n /\ t.id = task[b].id /\ t.all = task[b].all
      /\ t.pc = "deregister" /\ t.brk /\ u.pc = "locks"
  BY <1>1, <1>2 DEF Tasks
<1> HIDE DEF t, u
<1>6. ASSUME InOrder(n) PROVE Serving(n, b)'
  BY <1>1, <1>4, <1>5, <1>6 DEF InOrder, Serving
<1>7. task'[n].pc \notin Unused \cup {"register"}
  BY <1>4, <1>5 DEF Unused
<1>8. \A g \in Goroutine : g # b => task'[g] = task[g]
        \/ (g = n /\ task'[n].pc \notin Unused \cup {"register"})
  BY <1>4, <1>7
<1>9. t.node \in {n, None} /\ (t.node = n => t.id = task[b].id) /\ task'[b] = t
  BY <1>4, <1>5
<1>10. InOrder(n) /\ ~shut[n] /\ t.node = n => Serving(n, b)'
  BY <1>6
<1>11. services' = services /\ shut' = shut
  BY <1>3
<1> QED
  BY <1>1, <1>8, <1>9, <1>10, <1>11, BeatCalm

LEMMA EndCalm ==
  ASSUME Calm, IInv, OwnInv, CalmInv, NEW b \in Beat, End(b)
  PROVE  CalmInv'
<1>1. task[b].pc = "end" /\ b \in Goroutine /\ NodeOf(b) \in Node
      /\ NodeOf(b) = task[b].node /\ b \notin Node
  BY CallerFacts, HostOf, Apart DEF End, Goroutine
<1> PICK n \in Node : n = task[b].node
  BY <1>1
<1>2. CASE Die(NodeOf(b))
  BY <1>1, <1>2, DieCalm
<1>3. CASE task' = [task EXCEPT ![b] = Idle] /\ UNCHANGED <<services, shut>>
  <2>1. task'[b] = Idle /\ \A h \in Goroutine : h # b => task'[h] = task[h]
    BY <1>1, <1>3 DEF IInv, TypeOK
  <2> QED
    BY <1>1, <1>3, <2>1, IdleType, BeatCalm
<1> QED
  BY <1>2, <1>3 DEF End

-----------------------------------------------------------------------------
(* The calls of the application, up to their first request, and Close.     *)

LEMMA AppCalm ==
  ASSUME Calm, IInv, OwnInv, CalmInv, NEW n \in Node,
         \/ \E id \in Id : Register(n, id)
         \/ Close(n) \/ Closing(n)
  PROVE  CalmInv'
<1>1. n \in Goroutine /\ task[n] \in Tasks
  BY DEF Goroutine, IInv, TypeOK
<1>2. ASSUME NEW id \in Id, Register(n, id) PROVE CalmInv'
  <2> DEFINE t == [Idle EXCEPT !.pc = "query", !.id = id]
  <2>1. t.pc \notin Unused \cup {"register"}
    BY DEF Idle, Unused
  <2>2. task' = [task EXCEPT ![n] = t] /\ UNCHANGED <<services, shut>>
    BY <1>2 DEF Register
  <2>3. shut'[n] \/ ~shut[n]
    BY <1>2, IdleType DEF Register, IInv, Protocol
  <2> HIDE DEF t
  <2> QED
    BY <2>1, <2>2, <2>3, OwnCalm
<1>3. ASSUME NEW pc \in CloseSteps, Goto(n, pc), UNCHANGED services,
             \A m \in Node : m # n => shut'[m] = shut[m], shut'[n] \/ ~shut[n]
      PROVE  CalmInv'
  <2> DEFINE t == [task[n] EXCEPT !.pc = pc]
  <2>1. t.pc = pc
    BY <1>1 DEF Tasks
  <2>2. t.pc \notin Unused \cup {"register"}
    BY <2>1 DEF CloseSteps, Unused
  <2>3. task' = [task EXCEPT ![n] = t]
    BY <1>3 DEF Goto
  <2> HIDE DEF t
  <2> QED
    BY <1>3, <2>2, <2>3, OwnCalm
<1>4. CASE Close(n) \/ ReleaseLocks(n) \/ Await(n)
  <2>1. UNCHANGED <<services, shut>>
    BY <1>4 DEF Close, ReleaseLocks, Await
  <2>2. \E pc \in CloseSteps : Goto(n, pc)
    BY <1>4 DEF Close, ReleaseLocks, Await, CloseSteps
  <2> QED
    BY <1>3, <2>1, <2>2
<1>5. CASE CloseChannels(n)
  <2>1. Goto(n, "clear") /\ UNCHANGED services
        /\ shut' = [shut EXCEPT ![n] = TRUE]
    BY <1>5 DEF CloseChannels
  <2>2. shut'[n] /\ \A m \in Node : m # n => shut'[m] = shut[m]
    BY <2>1 DEF IInv, TypeOK
  <2> QED
    BY <1>3, <2>1, <2>2 DEF CloseSteps
<1>6. CASE ClearClient(n)
  <2>1. task' = [task EXCEPT ![n] = Idle] /\ UNCHANGED <<services, shut>>
    BY <1>6 DEF ClearClient
  <2> QED
    BY <2>1, IdleType, OwnCalm DEF Unused
<1> QED
  BY <1>2, <1>4, <1>5, <1>6 DEF Closing

(* A new process starts with no goroutine. *)
LEMMA RestartCalm ==
  ASSUME Calm, IInv, OwnInv, CalmInv, NEW n \in Node, Restart(n)
  PROVE  CalmInv'
<1>1. /\ task' = [g \in Goroutine |-> IF g \in BeatsOf(n) THEN Idle ELSE task[g]]
      /\ shut' = [shut EXCEPT ![n] = FALSE] /\ UNCHANGED services
      /\ status[n] # "open"
  BY DEF Restart
<1>2. \A m \in Node : task'[m] = task[m] /\ (m # n => shut'[m] = shut[m])
  BY <1>1, Apart DEF BeatsOf, Goroutine, IInv, TypeOK
<1>3. \A b \in Beat : task'[b] = Idle \/ (task'[b] = task[b] /\ task[b].node # n)
  BY <1>1 DEF BeatsOf, Goroutine
<1>4. Touches(n)
  BY <1>1, <1>2, <1>3, IdleType DEF Touches, Changes
<1>5. InOrder(n)'
  BY <1>3, IdleType DEF InOrder
<1> QED
  BY <1>2, <1>4, <1>5, StepOfOne DEF CalmInv, Unused

(* consul takes off what nobody serves only. *)
LEMMA AgentsCalm ==
  ASSUME Calm, IInv, OwnInv, CalmInv, NEW a \in Agent, NEW id \in Id,
         Lapse(a, id) \/ Reap(a, id)
  PROVE  CalmInv'
<1>1. CASE Lapse(a, id)
  BY <1>1, SameCalm DEF Lapse
<1>2. CASE Reap(a, id)
  <2>1. /\ services' = [services EXCEPT ![a] = @ \ {id}]
        /\ ~Served(a, id) /\ UNCHANGED <<shut, task>>
    BY <1>2 DEF Reap, Drop, Calm
  <2>2. ASSUME NEW n \in Node, ~shut[n] PROVE InOrder(n)'
    <3>1. InOrder(n)
      BY <2>2 DEF CalmInv
    <3>2. services'[AgentOf[n]] = IF AgentOf[n] = a THEN services[a] \ {id}
                                  ELSE services[AgentOf[n]]
      BY <2>1, RegistryAssumption DEF RegistryAssumption, IInv, TypeOK
    <3>3. ASSUME NEW b \in Beat, task[b].node = n PROVE Serving(n, b)'
      <4>1. AgentOf[n] = a => task[b].id # id
        BY <2>1, <3>3, HostOf, RegistryAssumption
           DEF Served, RegistryAssumption, Goroutine
      <4> QED
        BY <2>1, <3>1, <3>2, <3>3, <4>1 DEF InOrder, Serving, Listed
    <3> QED
      BY <2>1, <3>1, <3>3 DEF InOrder
  <2> QED
    BY <2>1, <2>2 DEF CalmInv
<1> QED
  BY <1>1, <1>2

-----------------------------------------------------------------------------
(* Goroutines stay busy with what is their process's own.                  *)

LEMMA IdleOwn == \A g \in Goroutine : Own(g, Idle)
  BY IdleType DEF Own

LEMMA InitOwn == Init => OwnInv
  BY IdleOwn DEF Init, OwnInv

LEMMA OthersOwn ==
  ASSUME OwnInv, NEW g, \A h \in Goroutine : h # g => task'[h] = task[h],
         g \in Goroutine => Own(g, task'[g])
  PROVE  OwnInv'
<1>1. \A h \in Goroutine : Own(h, task'[h])
  BY DEF OwnInv
<1> QED
  BY <1>1 DEF OwnInv, Own

LEMMA GotoOwn ==
  ASSUME IInv, OwnInv, NEW g \in Goroutine, NEW pc, Goto(g, pc), pc # "remove",
         pc \in {"query", "register"} => task[g].pc = "query" \/ g \notin Node
  PROVE  OwnInv'
<1>1. /\ \A h \in Goroutine : h # g => task'[h] = task[h]
      /\ task'[g].pc = pc /\ task'[g].node = task[g].node
      /\ task'[g].id = task[g].id
  BY Lands
<1>2. Own(g, task'[g])
  BY <1>1 DEF OwnInv, Own
<1> QED
  BY <1>1, <1>2, OthersOwn

LEMMA BackOwn ==
  ASSUME IInv, OwnInv, NEW g \in Goroutine
  PROVE  Own(g, Back(g))
<1>1. CASE g \in Node
  BY <1>1, IdleOwn DEF Back
<1>2. CASE g \notin Node
  <2> DEFINE pc == IF task[g].brk THEN "end" ELSE "select"
             t == [task[g] EXCEPT !.pc = pc, !.taken = {}]
  <2>1. task[g] \in Tasks /\ Back(g) = t
    BY <1>2 DEF Back, IInv, TypeOK
  <2>2. pc # "remove"
    OBVIOUS
  <2> HIDE DEF pc
  <2>3. t.pc = pc /\ t.node = task[g].node /\ t.id = task[g].id
    BY <2>1 DEF Tasks
  <2> HIDE DEF t
  <2> QED
    BY <1>2, <2>1, <2>2, <2>3 DEF OwnInv, Own
<1> QED
  BY <1>1, <1>2

LEMMA ReturnOwn ==
  ASSUME IInv, OwnInv, NEW g \in Goroutine, Return(g)
  PROVE  OwnInv'
<1>1. task'[g] = Back(g) /\ \A h \in Goroutine : h # g => task'[h] = task[h]
  BY DEF Return, IInv, TypeOK
<1> QED
  BY <1>1, BackOwn, OthersOwn

LEMMA StopOwn ==
  ASSUME OwnInv, NEW n, Stop(n)
  PROVE  OwnInv'
<1>1. \A h \in Goroutine : task'[h] = Idle \/ task'[h] = task[h]
  BY DEF Stop
<1>2. \A h \in Goroutine : Own(h, task'[h])
  BY <1>1, IdleOwn DEF OwnInv
<1> QED
  BY <1>2 DEF OwnInv, Own

(* A new heartbeat goroutine gets the id that was registered. *)
LEMMA SpawnOwn ==
  ASSUME IInv, OwnInv, NEW g \in Goroutine, task[g].pc = "register",
         NEW b \in Free,
         task' = [task EXCEPT ![g] = Back(g), ![b] = NewBeat(g)]
  PROVE  OwnInv'
<1> DEFINE t == NewBeat(g)
<1>1. t.pc = "new" /\ t.node = NodeOf(g) /\ t.id = task[g].id
  BY NewBeatFacts
<1>2. task[g].id \in IdsOf[NodeOf(g)]
  BY CallerFacts, HostOf DEF OwnInv, Own, Goroutine
<1>3. b \in Beat /\ b \notin Node /\ b # g
  BY Apart, IdleType DEF Free
<1> HIDE DEF t
<1>4. Own(b, t)
  BY <1>1, <1>2, <1>3 DEF Own
<1>5. /\ task'[b] = t /\ task'[g] = Back(g)
      /\ \A h \in Goroutine : h # g /\ h # b => task'[h] = task[h]
  BY <1>3 DEF IInv, TypeOK, Goroutine, t
<1>6. \A h \in Goroutine : Own(h, task'[h])
  BY <1>4, <1>5, BackOwn DEF OwnInv
<1> QED
  BY <1>6 DEF OwnInv, Own

LEMMA CallingOwn ==
  ASSUME Calm, IInv, OwnInv, NEW g \in Goroutine, Calling(g)
  PROVE  OwnInv'
<1>1. CASE Query(g)
  <2>1. CASE Return(g) \/ Die(NodeOf(g))
    BY <2>1, ReturnOwn, StopOwn DEF Die
  <2>2. CASE Goto(g, "register") /\ task[g].pc = "query"
    BY <2>2, GotoOwn
  <2> QED
    BY <1>1, <2>1, <2>2 DEF Query
<1>2. CASE ServiceRegister(g)
  BY <1>2, StopOwn, SpawnOwn DEF ServiceRegister, Die
<1>3. CASE Begin(g)
  <2>1. ASSUME NEW pc \in {"slow", "fast"}, Goto(g, pc) PROVE OwnInv'
    BY <2>1, GotoOwn
  <2> QED
    BY <1>3, <2>1, StopOwn DEF Begin, Die
<1>4. CASE DeregisterFast(g)
  <2>1. CASE Goto(g, "slow")
    BY <2>1, GotoOwn
  <2> QED
    BY <1>4, <2>1, ReturnOwn, StopOwn DEF DeregisterFast, Die
<1>5. CASE Look(g)
  <2>1. CASE /\ task[g].pc = "slow"
             /\ task' = [task EXCEPT ![g].pc = "remove", ![g].taken = Taken(g)]
    <3> DEFINE S == Taken(g)
               t == [task[g] EXCEPT !.pc = "remove", !.taken = S]
    <3>1. task[g] \in Tasks /\ task \in [Goroutine -> Tasks] /\ task[g].id \in Id
      BY <2>1, CallerFacts DEF IInv, TypeOK, CloseSteps
    <3>2. S \subseteq {task[g].id}
      BY <3>1, TakesItsOwn
    <3> HIDE DEF S
    <3>3. /\ t.pc = "remove" /\ t.node = task[g].node /\ t.id = task[g].id
          /\ t.taken = S
      BY <3>1 DEF Tasks
    <3>4. task' = [task EXCEPT ![g] = t]
      BY <2>1, <3>1 DEF Tasks, S
    <3> HIDE DEF t
    <3>5. task'[g] = t /\ \A h \in Goroutine : h # g => task'[h] = task[h]
      BY <3>1, <3>4
    <3>6. Own(g, t)
      BY <3>2, <3>3 DEF OwnInv, Own
    <3> QED
      BY <3>5, <3>6, OthersOwn
  <2> QED
    BY <1>5, <2>1, ReturnOwn, StopOwn DEF Look, Die
<1>6. CASE Remove(g)
  BY <1>6, ReturnOwn, StopOwn DEF Remove
<1> QED
  BY <1>1, <1>2, <1>3, <1>4, <1>5, <1>6 DEF Calling

LEMMA ReceiveOwn ==
  ASSUME IInv, OwnInv, NEW n \in Node, NEW b \in Beat, Receive(n, b)
  PROVE  OwnInv'
<1>1. b # n /\ b \in Goroutine /\ n \in Goroutine
  BY Apart DEF Goroutine
<1>2. /\ task[b] \in Tasks /\ task[n] \in Tasks
      /\ task \in [Goroutine -> Tasks]
  BY <1>1 DEF IInv, TypeOK
<1> DEFINE t == [task[b] EXCEPT !.pc = "deregister", !.brk = TRUE]
           u == [task[n] EXCEPT !.pc = "locks"]
<1>3. task'[b] = t /\ task'[n] = u
      /\ \A g \in Goroutine : g # b /\ g # n => task'[g] = task[g]
  BY <1>1, <1>2 DEF Receive
<1>4. /\ t.node = task[b].node /\ t.id = task[b].id /\ t.pc = "deregister"
      /\ u.pc = "locks"
  BY <1>2 DEF Tasks
<1> HIDE DEF t, u
<1>5. Own(b, t) /\ Own(n, u)
  BY <1>1, <1>4, Apart DEF OwnInv, Own
<1>6. \A h \in Goroutine : Own(h, task'[h])
  BY <1>3, <1>5 DEF OwnInv
<1> QED
  BY <1>6 DEF OwnInv, Own

LEMMA AppOwn ==
  ASSUME IInv, OwnInv, NEW n \in Node,
         \/ \E id \in Id : Register(n, id)
         \/ Close(n) \/ Closing(n) \/ Restart(n)
  PROVE  OwnInv'
<1>1. n \in Goroutine /\ task \in [Goroutine -> Tasks]
  BY DEF Goroutine, IInv, TypeOK
<1>2. ASSUME NEW id \in Id, Register(n, id) PROVE OwnInv'
  <2> DEFINE t == [Idle EXCEPT !.pc = "query", !.id = id]
  <2>1. t.pc = "query" /\ t.id = id
    BY DEF Idle
  <2>2. task' = [task EXCEPT ![n] = t] /\ id \in IdsOf[n]
    BY <1>2 DEF Register
  <2> HIDE DEF t
  <2>3. Own(n, t)
    BY <2>1, <2>2, Apart DEF Own
  <2> QED
    BY <1>1, <2>2, <2>3, OthersOwn
<1>3. ASSUME NEW pc \in CloseSteps, Goto(n, pc) PROVE OwnInv'
  BY <1>1, <1>3, GotoOwn DEF CloseSteps
<1>4. CASE Close(n) \/ ReleaseLocks(n) \/ Await(n) \/ CloseChannels(n)
  <2>1. \E pc \in CloseSteps : Goto(n, pc)
    BY <1>4 DEF Close, ReleaseLocks, Await, CloseChannels, CloseSteps
  <2> QED
    BY <1>3, <2>1
<1>5. CASE ClearClient(n)
  BY <1>1, <1>5, IdleOwn, OthersOwn DEF ClearClient
<1>6. CASE Restart(n)
  <2>1. \A h \in Goroutine : Own(h, task'[h])
    BY <1>6, IdleOwn DEF Restart, OwnInv
  <2> QED
    BY <2>1 DEF OwnInv, Own
<1> QED
  BY <1>2, <1>4, <1>5, <1>6 DEF Closing

LEMMA BeatOwn ==
  ASSUME IInv, OwnInv, NEW b \in Beat, Beating(b) \/ Heartbeat(b)
  PROVE  OwnInv'
<1>1. b \in Goroutine /\ b \notin Node
  BY Apart DEF Goroutine
<1>2. ASSUME NEW pc \in {"select", "deregister", "query"}, Goto(b, pc)
      PROVE  OwnInv'
  BY <1>1, <1>2, GotoOwn
<1>3. CASE Start(b) \/ ReceiveClosed(b)
  BY <1>2, <1>3 DEF Start, ReceiveClosed
<1>4. CASE End(b)
  <2>1. CASE task' = [task EXCEPT ![b] = Idle]
    <3>1. task'[b] = Idle /\ \A h \in Goroutine : h # b => task'[h] = task[h]
      BY <1>1, <2>1 DEF IInv, TypeOK
    <3> QED
      BY <3>1, IdleOwn, OthersOwn
  <2> QED
    BY <1>4, <2>1, StopOwn DEF End, Die
<1>5. CASE Heartbeat(b)
  <2>1. CASE UNCHANGED task
    BY <2>1 DEF OwnInv, Own
  <2> QED
    BY <1>2, <1>5, <2>1, StopOwn DEF Heartbeat, Die
<1> QED
  BY <1>3, <1>4, <1>5 DEF Beating

LEMMA StepOwn ==
  ASSUME Calm, IInv, OwnInv, [Next]_vars
  PROVE  OwnInv'
<1>1. ASSUME UNCHANGED task PROVE OwnInv'
  BY <1>1 DEF OwnInv, Own
<1>2. ASSUME NEW n \in Node, Crash(n) PROVE OwnInv'
  BY <1>2, StopOwn DEF Crash, Die
<1>3. ASSUME NEW n \in Node, NEW id \in Id, NEW all \in BOOLEAN, Deregister(n, id, all)
      PROVE  OwnInv'
  BY <1>3 DEF Deregister, Calm
<1>4. ASSUME NEW n \in Node, \E b \in Beat : Receive(n, b) PROVE OwnInv'
  BY <1>4, ReceiveOwn
<1>5. ASSUME NEW n \in Node,
             \/ \E id \in Id : Register(n, id)
             \/ Close(n) \/ Closing(n) \/ Restart(n)
      PROVE  OwnInv'
  BY <1>5, AppOwn
<1>6. ASSUME NEW g \in Goroutine, Calling(g) PROVE OwnInv'
  BY <1>6, CallingOwn
<1>7. ASSUME NEW b \in Beat, Beating(b) \/ Heartbeat(b) PROVE OwnInv'
  BY <1>7, BeatOwn
<1>8. ASSUME NEW a \in Agent, NEW id \in Id, Lapse(a, id) \/ Reap(a, id)
      PROVE  OwnInv'
  BY <1>1, <1>8 DEF Lapse, Reap
<1>9. CASE UNCHANGED vars
  BY <1>1, <1>9 DEF vars
<1> QED
  BY <1>2, <1>3, <1>4, <1>5, <1>6, <1>7, <1>8, <1>9 DEF Next

-----------------------------------------------------------------------------
LEMMA InitCalm == Init => CalmInv
<1> SUFFICES ASSUME Init PROVE CalmInv
  OBVIOUS
<1>1. \A g \in Goroutine : task[g] = Idle
  BY DEF Init
<1> QED
  BY <1>1, IdleType DEF CalmInv, InOrder, Goroutine

LEMMA StepCalm ==
  ASSUME Calm, IInv, OwnInv, CalmInv, [Next]_vars
  PROVE  CalmInv'
<1>1. CASE UNCHANGED vars
  BY <1>1, SameCalm DEF vars
<1>2. ASSUME NEW n \in Node,
             \/ \E id \in Id : Register(n, id)
             \/ Close(n) \/ Closing(n) \/ Crash(n) \/ Restart(n)
      PROVE  CalmInv'
  BY <1>2, AppCalm, DieCalm, RestartCalm DEF Crash
<1>3. ASSUME NEW n \in Node, NEW id \in Id, NEW all \in BOOLEAN, Deregister(n, id, all)
      PROVE  CalmInv'
  BY <1>3 DEF Deregister, Calm
<1>4. ASSUME NEW n \in Node, NEW b \in Beat, Receive(n, b)
      PROVE  CalmInv'
  BY <1>4, ReceiveCalm
<1>5. ASSUME NEW g \in Goroutine, Calling(g)
      PROVE  CalmInv'
  BY <1>5, QueryCalm, ServiceRegisterCalm, BeginCalm, DeregisterFastCalm,
     SlowCalm DEF Calling
<1>6. ASSUME NEW b \in Beat, Beating(b) \/ Heartbeat(b)
      PROVE  CalmInv'
  BY <1>6, StartCalm, ReceiveClosedCalm, EndCalm, HeartbeatCalm DEF Beating
<1>7. ASSUME NEW a \in Agent, NEW id \in Id, Lapse(a, id) \/ Reap(a, id)
      PROVE  CalmInv'
  BY <1>7, AgentsCalm
<1> QED
  BY <1>1, <1>2, <1>3, <1>4, <1>5, <1>6, <1>7 DEF Next

(* However often Register, crashes and restarts follow one another, while  *)
(* the channels are open an instance has one heartbeat goroutine.          *)
THEOREM InstancesBeatOnce ==
  ASSUME Calm
  PROVE  Spec => []OneHeartbeat
<1>1. IInv /\ CalmInv => OneHeartbeat
  <2> SUFFICES ASSUME IInv, CalmInv, NEW b \in Beat, NEW c \in Beat,
                      task[b].node # None, ~shut[task[b].node],
                      task[b].node = task[c].node, task[b].id = task[c].id
               PROVE  b = c
    BY DEF OneHeartbeat
  <2>1. task[b].node \in Node
    BY DEF IInv, TypeOK, Tasks, Goroutine
  <2> QED
    BY <2>1 DEF CalmInv, InOrder
<1> QED
  BY <1>1, InitInv, StepInv, InitOwn, StepOwn,
     InitCalm, StepCalm, PTL DEF Spec

(* While the channels are open no heartbeat goroutine beats for a service  *)
(* the agent does not have, whatever answers are lost.                     *)
THEOREM BeatsAreRegistered ==
  ASSUME Calm
  PROVE  Spec => []AliveIsRegistered
<1>1. ASSUME IInv, CalmInv, NEW b \in Beat, task[b].pc = "select", ~shut[NodeOf(b)]
      PROVE  Has(Host(b), task[b].id)
  <2>1. b \in Goroutine /\ NodeOf(b) \in Node
    BY <1>1, CallerFacts DEF Goroutine
  <2>2. NodeOf(b) = task[b].node /\ Host(b) = AgentOf[task[b].node]
    BY <2>1, HostOf
  <2>3. Serving(task[b].node, b)
    BY <1>1, <2>1, <2>2, OpenBeat
  <2> QED
    BY <1>1, <2>2, <2>3 DEF Serving, Has, Listed
<1>2. IInv /\ CalmInv => AliveIsRegistered
  BY <1>1 DEF AliveIsRegistered
<1> QED
  BY <1>2, InitInv, StepInv, InitOwn, StepOwn,
     InitCalm, StepCalm, PTL DEF Spec

(* The heartbeat goroutine that Close has asked to end has taken the       *)
(* registration of its instance off the agent before it answers, the fast  *)
(* way or the slow one; but what was registered without an address stays   *)
(* where no consulapi service is.                                          *)
THEOREM EndsDeregistered ==
  ASSUME Calm
  PROVE  Spec => EndLeavesNothing
<1>1. ASSUME IInv, CalmInv, NEW b \in Beat, End(b)
      PROVE  \/ task[b].id \notin services[Host(b)]
             \/ task[b].id \in Vague /\ FALSE \in ConsulApi
  <2>1. task[b].pc = "end" /\ task[b].node \in Node
        /\ Host(b) = AgentOf[task[b].node]
    BY <1>1, CallerFacts, HostOf DEF End, Goroutine
  <2>2. ~shut[task[b].node]
    <3>1. task[b].brk
      BY <1>1, <2>1 DEF IInv, Protocol
    <3>2. task[task[b].node].pc \in Releasing
      BY <1>1, <2>1, <3>1 DEF IInv, Protocol
    <3> QED
      BY <1>1, <2>1, <3>2 DEF IInv, Protocol, Releasing
  <2>3. Serving(task[b].node, b)
    BY <1>1, <2>1, <2>2, OpenBeat
  <2> QED
    BY <2>1, <2>3 DEF Serving, Listed, Remains
<1>2. IInv /\ CalmInv /\ [Next]_vars =>
        [\A b \in Beat :
           End(b) => \/ task[b].id \notin services[Host(b)]
                     \/ task[b].id \in Vague /\ FALSE \in ConsulApi]_vars
  BY <1>1
<1> QED
  BY <1>2, InitInv, StepInv, InitOwn, StepOwn,
     InitCalm, StepCalm, PTL DEF Spec, EndLeavesNothing
=============================================================================
