--------------------------- MODULE ConsulRegistry ---------------------------
(***************************************************************************)
(* The service registry of KVStoreConsul (Register, heartbeatRoutine,      *)
(* Deregister and Close of src/consul/core.go).  Each process (Node) has   *)
(* one store, on the consul agent of its host.  Register and Deregister    *)
(* are executed by the application's goroutine, which goes by the name of  *)
(* its node, and by the heartbeat goroutines (Beat) that Register starts:  *)
(* these register again what the agent has lost, and deregister when Close *)
(* tells them to over chHeartbeat.  One action is one request to consul,   *)
(* one channel operation or one access to a field both kinds share.        *)
(***************************************************************************)
EXTENDS Naturals, FiniteSets

CONSTANTS
  Node,        \* processes
  Agent,       \* consul agents
  AgentOf,     \* the agent each process talks to
  Id,          \* service ids
  Service,     \* service names
  ServiceOf,   \* the service an id is an instance of
  IdsOf,       \* the ids each process registers
  Vague,       \* the ids registered with an unspecified ip or with port 0
  Beat,        \* heartbeat goroutines (bounds how many ever run at a time)
  None,        \* no id, no node
  ConsulApi,   \* whether a search finds an agent by its "consulapi" service
  Uses,        \* the calls applications make: "deregister", "close"
  Faults       \* what may go wrong: "fail", "lost", "late", "crash"

ASSUME RegistryAssumption ==
  /\ AgentOf \in [Node -> Agent]
  /\ ServiceOf \in [Id -> Service]
  /\ IdsOf \in [Node -> SUBSET Id] /\ Vague \subseteq Id
  /\ Node \cap Beat = {}
  /\ None \notin Node \cup Id
  /\ ConsulApi \subseteq BOOLEAN
  /\ Uses \subseteq {"deregister", "close"}
  /\ Faults \subseteq {"fail", "lost", "late", "crash"}

VARIABLES
  services,    \* the ids registered at each agent
  passing,     \* those whose TTL check passes
  status,      \* "open", "closed" (s.Client = nil) or "dead"
  present,     \* s.hearbeatPresent
  shut,        \* whether chHeartbeat and chHeartbeatEnd are closed
  ends,        \* the values buffered in chHeartbeatEnd
  task         \* what each goroutine is doing

vars == <<services, passing, status, present, shut, ends, task>>

EndCapacity == 3

-----------------------------------------------------------------------------
(* Goroutines.                                                             *)

(* all is that of the Deregister a goroutine executes or, for a heartbeat, *)
(* will execute; brk, shouldBeBreak; taken, what is to be taken off.       *)
Idle ==
  [pc |-> "idle", node |-> None, id |-> None, all |-> FALSE, brk |-> FALSE,
   taken |-> {}]

Goroutine == Node \cup Beat

NodeOf(g) == IF g \in Node THEN g ELSE task[g].node

BeatsOf(n) == {b \in Beat : task[b].node = n}

Host(g) == AgentOf[NodeOf(g)]

IsOpen(g) == status[NodeOf(g)] = "open"

Free == {b \in Beat : task[b] = Idle}

(* Bound: there is a goroutine left for every Register under way.          *)
Room ==
  Cardinality(Free)
    > Cardinality({g \in Goroutine : task[g].pc \in {"query", "register"}})

Goto(g, pc) == task' = [task EXCEPT ![g].pc = pc]

(* Where a goroutine goes when its Register or Deregister returns.         *)
Back(g) ==
  IF g \in Node THEN Idle
  ELSE [task[g] EXCEPT !.pc = IF task[g].brk THEN "end" ELSE "select", !.taken = {}]

Return(g) == task' = [task EXCEPT ![g] = Back(g)]

(* The process ends: log.Fatal, a nil s.Client, a closed channel, a crash. *)
Stop(n) ==
  /\ status' = [status EXCEPT ![n] = "dead"]
  /\ task' = [g \in Goroutine |->
                IF g = n \/ g \in BeatsOf(n) THEN Idle ELSE task[g]]
  /\ UNCHANGED <<present, shut, ends>>

Die(n) == Stop(n) /\ UNCHANGED <<services, passing>>

(* How a request ends: done, refused, or done with the answer lost.        *)
Answers == {"ok"} \cup (Faults \cap {"fail", "lost"})

Has(a, id) == id \in services[a]

(* Services are deregistered, and their checks with them.                  *)
Drop(a, S) ==
  /\ services' = [services EXCEPT ![a] = @ \ S]
  /\ passing' = [passing EXCEPT ![a] = @ \ S]

Instances(a, name) == {i \in services[a] : ServiceOf[i] = name}

-----------------------------------------------------------------------------
(* Register, by the application or by a heartbeat goroutine.               *)

Register(n, id) ==
  /\ id \in IdsOf[n]
  /\ status[n] = "open" /\ task[n] = Idle /\ Room
  /\ task' = [task EXCEPT ![n] = [Idle EXCEPT !.pc = "query", !.id = id]]
  /\ UNCHANGED <<services, passing, status, present, shut, ends>>

(* Mutant of Query: the answer of the agent is not looked at.              *)
QueryIgnored(g) ==
  /\ task[g].pc = "query"
  /\ IF IsOpen(g)
     THEN /\ Goto(g, "register")
          /\ UNCHANGED <<services, passing, status, present, shut, ends>>
     ELSE Die(NodeOf(g))

(* QueryServiceByID: an id the agent knows is not registered again, and    *)
(* gets no heartbeat.  After 100 refusals the id counts as unknown.        *)
Query(g) ==
  /\ task[g].pc = "query"
  /\ IF IsOpen(g)
     THEN /\ \/ Has(Host(g), task[g].id) /\ Return(g)
             \/ /\ ~Has(Host(g), task[g].id) \/ "fail" \in Faults
                /\ Goto(g, "register")
          /\ UNCHANGED <<services, passing, status, present, shut, ends>>
     ELSE Die(NodeOf(g))

(* The heartbeat goroutine gets the id, the ip and the port of Register:   *)
(* its own Deregister is one of all if ip is unspecified or port is 0.     *)
NewBeat(g) ==
  [Idle EXCEPT !.pc = "new", !.node = NodeOf(g), !.id = task[g].id,
               !.all = task[g].id \in Vague]

(* ServiceRegister; the TTL check of a new service is critical.  An error  *)
(* is fatal.  The heartbeat goroutine is started, and Register returns.    *)
ServiceRegister(g) ==
  /\ task[g].pc = "register"
  /\ IF IsOpen(g)
     THEN \E answer \in Answers :
            /\ services' = IF answer = "fail" THEN services
                           ELSE [services EXCEPT ![Host(g)] = @ \cup {task[g].id}]
            /\ UNCHANGED passing
            /\ IF answer = "ok"
               THEN /\ \E b \in Free :
                         task' = [task EXCEPT ![g] = Back(g), ![b] = NewBeat(g)]
                    /\ UNCHANGED <<status, present, shut, ends>>
               ELSE Stop(NodeOf(g))
     ELSE Die(NodeOf(g))

-----------------------------------------------------------------------------
(* Deregister, DeregisterAll, by the application or a heartbeat goroutine. *)

(* all: DeregisterAll, or an unspecified ip or port 0, with or without id. *)
Deregister(n, id, all) ==
  /\ "deregister" \in Uses
  /\ status[n] = "open" /\ task[n] = Idle
  /\ task' = [task EXCEPT ![n] =
                [Idle EXCEPT !.pc = "deregister", !.id = id, !.all = all]]
  /\ UNCHANGED <<services, passing, status, present, shut, ends>>

(* deregister() reads s.Client; "all" skips deregisterServiceFast.         *)
Begin(g) ==
  /\ task[g].pc = "deregister"
  /\ IF IsOpen(g)
     THEN /\ Goto(g, IF task[g].all THEN "slow" ELSE "fast")
          /\ UNCHANGED <<services, passing, status, present, shut, ends>>
     ELSE Die(NodeOf(g))

(* deregisterServiceFast: the first instance of the service the agent      *)
(* lists, in the order of a Go map, is taken off, whatever its id.  None   *)
(* in 100 tries is fatal; an error of the removal leads to the slow way.   *)
DeregisterFast(g) ==
  /\ task[g].pc = "fast"
  /\ \/ \E id \in Instances(Host(g), ServiceOf[task[g].id]) : \E answer \in Answers :
          /\ IF answer = "fail" THEN UNCHANGED <<services, passing>>
             ELSE Drop(Host(g), {id})
          /\ IF answer = "ok" THEN Return(g) ELSE Goto(g, "slow")
          /\ UNCHANGED <<status, present, shut, ends>>
     \/ /\ \/ Instances(Host(g), ServiceOf[task[g].id]) = {}
           \/ "fail" \in Faults
        /\ Die(NodeOf(g))

(* Whether i has the ip and the port of the call: 0 and 0.0.0.0 are asked  *)
(* for with all only.                                                      *)
Meant(g, i) == i = task[g].id /\ i \notin Vague

(* Mutant of Taken: those of other services too.                           *)
TakenAny(g) ==
  {i \in UNION {services[a] : a \in Agent} :
     task[g].all \/ Meant(g, i) \/ \A a \in Agent : i \notin passing[a]}

(* The instances deregisterService takes, of those in the whole catalog:   *)
(* every one, or those not passing and the one at its ip and port.         *)
Taken(g) ==
  {i \in UNION {Instances(a, ServiceOf[task[g].id]) : a \in Agent} :
     task[g].all \/ Meant(g, i) \/ \A a \in Agent : i \notin passing[a]}

(* opThatClient, and the queries of deregisterService: whichever agent is  *)
(* found, the store's own is asked, as it is when the search fails.  With  *)
(* no agent found nothing is done; an error of the queries is fatal.       *)
Look(g) ==
  /\ task[g].pc = "slow"
  /\ IF IsOpen(g)
     THEN \/ /\ TRUE \in ConsulApi \/ "fail" \in Faults
             /\ task' = [task EXCEPT ![g].pc = "remove", ![g].taken = Taken(g)]
             /\ UNCHANGED <<services, passing, status, present, shut, ends>>
          \/ /\ FALSE \in ConsulApi /\ Return(g)
             /\ UNCHANGED <<services, passing, status, present, shut, ends>>
          \/ "fail" \in Faults /\ Die(NodeOf(g))
     ELSE Die(NodeOf(g))

(* ... and what it does about what it saw: an agent ignores ids that it    *)
(* does not know; an error is fatal, when some are off and some are not.   *)
Remove(g) ==
  /\ task[g].pc = "remove"
  /\ \/ /\ Drop(Host(g), task[g].taken)
        /\ Return(g)
        /\ UNCHANGED <<status, present, shut, ends>>
     \/ /\ "fail" \in Faults
        /\ \E S \in SUBSET task[g].taken : Drop(Host(g), S)
        /\ Stop(NodeOf(g))

-----------------------------------------------------------------------------
(* heartbeatRoutine.                                                       *)

Start(b) ==
  /\ task[b].pc = "new"
  /\ present' = [present EXCEPT ![NodeOf(b)] = TRUE]
  /\ Goto(b, "select")
  /\ UNCHANGED <<services, passing, status, shut, ends>>

(* Mutant of Heartbeat: what the agent does not know is updated as well.   *)
HeartbeatUnknown(b) ==
  /\ task[b].pc = "select"
  /\ IF IsOpen(b)
     THEN /\ passing' = [passing EXCEPT ![Host(b)] = @ \cup {task[b].id}]
          /\ UNCHANGED <<services, status, present, shut, ends, task>>
     ELSE Die(NodeOf(b))

(* case <-heartbeat: UpdateTTL; on an error the service is registered      *)
(* again, which starts another goroutine like this one.                    *)
Heartbeat(b) ==
  /\ task[b].pc = "select"
  /\ IF IsOpen(b)
     THEN /\ \E answer \in IF Has(Host(b), task[b].id) THEN Answers ELSE {"fail"} :
               /\ passing' = IF answer = "fail" THEN passing
                             ELSE [passing EXCEPT ![Host(b)] = @ \cup {task[b].id}]
               /\ IF answer = "ok" THEN UNCHANGED task
                  ELSE Room /\ Goto(b, "query")
          /\ UNCHANGED <<services, status, present, shut, ends>>
     ELSE Die(NodeOf(b))

(* Mutant of Receive: the goroutine ends and deregisters nothing.          *)
ReceiveOnlyEnds(n, b) ==
  /\ task[n].pc = "send" /\ b \in BeatsOf(n) /\ task[b].pc = "select"
  /\ task' = [task EXCEPT ![n].pc = "locks", ![b].pc = "end", ![b].brk = TRUE]
  /\ UNCHANGED <<services, passing, status, present, shut, ends>>

(* case <-s.chHeartbeat: Close sends true, which also ends the loop.       *)
Receive(n, b) ==
  /\ task[n].pc = "send" /\ b \in BeatsOf(n) /\ task[b].pc = "select"
  /\ task' = [task EXCEPT ![n].pc = "locks",
                          ![b].pc = "deregister", ![b].brk = TRUE]
  /\ UNCHANGED <<services, passing, status, present, shut, ends>>

(* A closed channel gives false, and the loop goes on.                     *)
ReceiveClosed(b) ==
  /\ task[b].pc = "select" /\ shut[NodeOf(b)]
  /\ Goto(b, "deregister")
  /\ UNCHANGED <<services, passing, status, present, shut, ends>>

(* Mutant of End: the goroutine ends without a word.                       *)
EndSilently(b) ==
  /\ task[b].pc = "end"
  /\ task' = [task EXCEPT ![b] = Idle]
  /\ UNCHANGED <<services, passing, status, present, shut, ends>>

(* s.chHeartbeatEnd <- true.                                               *)
End(b) ==
  /\ task[b].pc = "end"
  /\ IF shut[NodeOf(b)]
     THEN Die(NodeOf(b))
     ELSE /\ ends[NodeOf(b)] < EndCapacity
          /\ ends' = [ends EXCEPT ![NodeOf(b)] = @ + 1]
          /\ task' = [task EXCEPT ![b] = Idle]
          /\ UNCHANGED <<services, passing, status, present, shut>>

-----------------------------------------------------------------------------
(* Close.                                                                  *)

Close(n) ==
  /\ "close" \in Uses
  /\ status[n] = "open" /\ task[n] = Idle
  /\ Goto(n, IF present[n] THEN "send" ELSE "locks")
  /\ UNCHANGED <<services, passing, status, present, shut, ends>>

(* Mutant of ReleaseLocks: nobody waits for chHeartbeatEnd.                *)
ReleaseLocksAtOnce(n) ==
  /\ task[n].pc = "locks"
  /\ Goto(n, "shut")
  /\ UNCHANGED <<services, passing, status, present, shut, ends>>

(* After the locks are released hearbeatPresent is read a second time.     *)
ReleaseLocks(n) ==
  /\ task[n].pc = "locks"
  /\ Goto(n, IF present[n] THEN "await" ELSE "shut")
  /\ UNCHANGED <<services, passing, status, present, shut, ends>>

Await(n) ==
  /\ task[n].pc = "await" /\ ends[n] > 0
  /\ ends' = [ends EXCEPT ![n] = @ - 1]
  /\ Goto(n, "shut")
  /\ UNCHANGED <<services, passing, status, present, shut>>

CloseChannels(n) ==
  /\ task[n].pc = "shut"
  /\ shut' = [shut EXCEPT ![n] = TRUE]
  /\ Goto(n, "clear")
  /\ UNCHANGED <<services, passing, status, present, ends>>

ClearClient(n) ==
  /\ task[n].pc = "clear"
  /\ status' = [status EXCEPT ![n] = "closed"]
  /\ task' = [task EXCEPT ![n] = Idle]
  /\ UNCHANGED <<services, passing, present, shut, ends>>

-----------------------------------------------------------------------------
(* Processes and agents.                                                   *)

Crash(n) ==
  /\ "crash" \in Faults
  /\ status[n] # "dead"
  /\ Die(n)

(* The process ends, if it has not, and is started again with a new store. *)
Restart(n) ==
  /\ status[n] \in {"closed", "dead"}
  /\ status' = [status EXCEPT ![n] = "open"]
  /\ present' = [present EXCEPT ![n] = FALSE]
  /\ shut' = [shut EXCEPT ![n] = FALSE]
  /\ ends' = [ends EXCEPT ![n] = 0]
  /\ task' = [g \in Goroutine |-> IF g \in BeatsOf(n) THEN Idle ELSE task[g]]
  /\ UNCHANGED <<services, passing>>

Served(a, id) ==
  \E b \in Beat : task[b].id = id /\ task[b].node # None /\ Host(b) = a

(* The TTL of a check runs out.  A heartbeat comes once per TTL, so that   *)
(* it may be too late for the check of a service that is served.           *)
Lapse(a, id) ==
  /\ id \in passing[a]
  /\ "late" \in Faults \/ ~Served(a, id)
  /\ passing' = [passing EXCEPT ![a] = @ \ {id}]
  /\ UNCHANGED <<services, status, present, shut, ends, task>>

(* DeregisterCriticalServiceAfter has passed.                              *)
Reap(a, id) ==
  /\ Has(a, id) /\ id \notin passing[a]
  /\ "late" \in Faults \/ ~Served(a, id)
  /\ Drop(a, {id})
  /\ UNCHANGED <<status, present, shut, ends, task>>

-----------------------------------------------------------------------------
Init ==
  /\ services = [a \in Agent |-> {}]
  /\ passing = [a \in Agent |-> {}]
  /\ status = [n \in Node |-> "open"]
  /\ present = [n \in Node |-> FALSE]
  /\ shut = [n \in Node |-> FALSE]
  /\ ends = [n \in Node |-> 0]
  /\ task = [g \in Goroutine |-> Idle]

Calling(g) ==
  Query(g) \/ ServiceRegister(g) \/ Begin(g) \/ DeregisterFast(g)
    \/ Look(g) \/ Remove(g)

Closing(n) == ReleaseLocks(n) \/ Await(n) \/ CloseChannels(n) \/ ClearClient(n)

Beating(b) == Start(b) \/ ReceiveClosed(b) \/ End(b)

Next ==
  \/ \E n \in Node :
       \/ \E id \in Id : Register(n, id) \/ \E all \in BOOLEAN : Deregister(n, id, all)
       \/ Close(n) \/ Closing(n) \/ Crash(n) \/ Restart(n)
       \/ \E b \in Beat : Receive(n, b)
  \/ \E g \in Goroutine : Calling(g)
  \/ \E b \in Beat : Beating(b) \/ Heartbeat(b)
  \/ \E a \in Agent, id \in Id : Lapse(a, id) \/ Reap(a, id)

Spec == Init /\ [][Next]_vars

(* Goroutines are scheduled; a select that finds Close waiting again and   *)
(* again takes its case some time.                                         *)
Fairness ==
  /\ \A g \in Goroutine : WF_vars(Calling(g))
  /\ \A n \in Node : WF_vars(Closing(n)) /\ SF_vars(\E b \in Beat : Receive(n, b))
  /\ \A b \in Beat : WF_vars(Beating(b))

FairSpec == Spec /\ Fairness

-----------------------------------------------------------------------------
(* Properties.                                                             *)

Tasks ==
  [pc : {"idle", "query", "register", "deregister", "fast", "slow", "remove",
         "new", "select", "end", "send", "locks", "await", "shut", "clear"},
   node : Node \cup {None}, id : Id \cup {None}, all : BOOLEAN, brk : BOOLEAN,
   taken : SUBSET Id]

TypeOK ==
  /\ services \in [Agent -> SUBSET Id]
  /\ passing \in [Agent -> SUBSET Id]
  /\ \A a \in Agent : passing[a] \subseteq services[a]
  /\ status \in [Node -> {"open", "closed", "dead"}]
  /\ present \in [Node -> BOOLEAN] /\ shut \in [Node -> BOOLEAN]
  /\ ends \in [Node -> 0 .. EndCapacity]
  /\ task \in [Goroutine -> Tasks]

(* Close and the heartbeat goroutines never use a channel in a way that    *)
(* panics, however many goroutines there are and whoever is slow: nobody   *)
(* sends on a closed channel, none is closed twice, none fills up.         *)
ChannelsSafe ==
  \A n \in Node :
    /\ task[n].pc \in {"send", "locks", "await", "shut"} => ~shut[n]
    /\ \A b \in BeatsOf(n) :
         task[b].pc = "end" => ~shut[n] /\ ends[n] < EndCapacity

Asked(n) == \E b \in BeatsOf(n) : task[b].brk

Phase(n) ==
  IF status[n] # "open" THEN "gone"
  ELSE IF shut[n] THEN "down"
  ELSE IF task[n].pc = "shut" THEN "closing"
  ELSE IF Asked(n) THEN "asked"
  ELSE IF ends[n] > 0 THEN "answered"
  ELSE "up"

H == INSTANCE Handshake WITH
       Client <- Node,
       phase <- [n \in Node |-> Phase(n)]

(* Close is a handshake with the heartbeats: of several one is told to end *)
(* and deregisters, its answer is the one Close waits for, and the         *)
(* channels are closed after it and by nobody else, although the heartbeat *)
(* goroutines only ever look at channels and at a flag that is late.       *)
ClosesByHandshake == H!Spec

(* Registering once more what the agent knows already starts no second     *)
(* heartbeat before Close has closed the channels: one would survive.      *)
(* (For a process whose services have no other instance and are not        *)
(* deregistered, by consul or by hand.)                                    *)
OneHeartbeat ==
  \A b, c \in Beat :
    /\ task[b].node # None /\ ~shut[task[b].node]
    /\ task[b].node = task[c].node /\ task[b].id = task[c].id
    => b = c

(* A heartbeat that waits for its next turn has its service at the agent:  *)
(* crashes and restarts of the process, answers that were lost and the     *)
(* heartbeats of its other services do not make one beat for nothing, as   *)
(* long as the channels are open.  (On the same condition.)                *)
AliveIsRegistered ==
  \A b \in Beat :
    task[b].pc = "select" /\ ~shut[NodeOf(b)] => Has(Host(b), task[b].id)

(* When a heartbeat goroutine ends, its registration has gone with it, on  *)
(* the same condition, and unless its ip or port was not specified and     *)
(* there is no consulapi service: then nothing is deregistered at all.     *)
EndLeavesNothing ==
  [][\A b \in Beat :
       End(b) => \/ task[b].id \notin services[Host(b)]
                 \/ task[b].id \in Vague /\ FALSE \in ConsulApi]_vars

(* A Close that has found the heartbeat present gets to its end, or the    *)
(* process does, however many heartbeats there are and whatever they do.   *)
CloseGetsOut == \A n \in Node : task[n].pc = "send" ~> task[n].pc = "idle"

-----------------------------------------------------------------------------
(* What comments say of the registry and the code does not do.             *)

(* "heartbeatRoutine keeps the registration of the service up to date":    *)
(* a Register that returned without an error has left a heartbeat.         *)
RegisteredBeats ==
  [][\A n \in Node :
       Query(n) /\ status'[n] = "open" /\ task'[n].pc = "idle" =>
         \E b \in BeatsOf(n) : task[b].id = task[n].id]_vars

(* "defer x.Close()": a Close returns, or the process ends.                *)
CloseReturns == \A n \in Node : task[n].pc = "locks" ~> task[n].pc = "idle"
=============================================================================
