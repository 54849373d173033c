---------------------------- MODULE EtcdRegistry ----------------------------
(***************************************************************************)
(* The service registry KVStoreEtcd keeps below services/<name>/peers      *)
(* (Register, Deregister, NameResolverAll of src/etcd/core.go), for one    *)
(* service name.                                                           *)
(*                                                                         *)
(* An instance is three entries: <id>/tags and <id>/meta, put once, and    *)
(* <id>/addr, put under a lease of TTL+1 seconds by a goroutine of its own *)
(* that puts it again, under a new lease, every TTL seconds for as long as *)
(* its store is open.  Every Put and Grant is one action; a clock tick is  *)
(* a second.  The directory markers the puts leave behind are the subject  *)
(* of EtcdStore; readers of the registry skip them.                        *)
(***************************************************************************)
EXTENDS Naturals, FiniteSets

CONSTANTS
  Node,        \* processes, each with one store
  Id,          \* service ids
  IdPrefix,    \* the pairs <<i, j>> of ids such that the bytes of i begin j
  Beat,        \* goroutines Register may start (bounds the registrations)
  TTL,         \* Register's ttl, in seconds (8 when the caller gives 0)
  None,        \* no node, no id
  Faults       \* what may go wrong: "put", "lost", "grant", "crash", "slow"

ASSUME RegistryAssumption ==
  /\ IdPrefix \subseteq Id \X Id
  /\ \A i \in Id : <<i, i>> \in IdPrefix
  /\ TTL \in Nat \ {0}
  /\ None \notin Node \cup Id
  /\ Faults \subseteq {"put", "lost", "grant", "crash", "slow"}

VARIABLES
  tags, meta,  \* the ids whose entry of that name is there
  addr,        \* seconds the lease of each <id>/addr still runs, 0: no entry
  status,      \* "open", "closing", "closed" (s.Client = nil) or "dead"
  call,        \* the Register each process is executing
  beat,        \* the heartbeat goroutines
  disturbed,   \* history: ids deregistered, or whose heartbeat was refused or
               \* late, since a full lease last renewed them
  struck,      \* history: ids deregistered since they were last completed
  quiet        \* history: seconds for which no goroutine has served an id

vars == <<tags, meta, addr, status, call, beat, disturbed, struck, quiet>>

Lease == TTL + 1

(* The wait after a failed heartbeat, (ttl + 2) / 3; 1 for small ttls.     *)
Retry == IF (TTL + 2) \div 3 = 0 THEN 1 ELSE (TTL + 2) \div 3

-----------------------------------------------------------------------------
Idle == [pc |-> "idle", id |-> None]

(* pc of a goroutine: "grant" and "put" are the two requests of PutTTL,    *)
(* which the first round makes before the loop ("first" is TRUE then).     *)
NoBeat ==
  [pc |-> "none", node |-> None, id |-> None, first |-> FALSE, lease |-> 0,
   sleep |-> 0]

BeatsOf(n) == {b \in Beat : beat[b].node = n}

Serving(id) == \E b \in Beat : beat[b].id = id

Fails(n) == "put" \in Faults \/ status[n] = "closing"

(* How a Put ends: done, refused, or done with the answer lost.            *)
Answers(n) ==
  {"ok"} \cup (IF Fails(n) THEN {"fail"} ELSE {}) \cup (Faults \cap {"lost"})

(* The process of node n ends, and with it its goroutines.                 *)
Die(n) ==
  /\ status' = [status EXCEPT ![n] = "dead"]
  /\ call' = [call EXCEPT ![n] = Idle]
  /\ beat' = [b \in Beat |-> IF b \in BeatsOf(n) THEN NoBeat ELSE beat[b]]
  /\ UNCHANGED <<tags, meta, addr, disturbed, struck, quiet>>

-----------------------------------------------------------------------------
(* Register.                                                               *)

(* Bound: there is a goroutine left for every Register under way.          *)
Register(n, id) ==
  /\ status[n] = "open" /\ call[n] = Idle
  /\ Cardinality({b \in Beat : beat[b] = NoBeat})
       > Cardinality({m \in Node : call[m] # Idle})
  /\ call' = [call EXCEPT ![n] = [pc |-> "tags", id |-> id]]
  /\ UNCHANGED <<tags, meta, addr, status, beat, disturbed, struck, quiet>>

(* PutYaml of the tags; an error is returned to the caller.                *)
PutTags(n) ==
  /\ call[n].pc = "tags"
  /\ \E answer \in Answers(n) :
       /\ tags' = IF answer = "fail" THEN tags ELSE tags \cup {call[n].id}
       /\ call' = [call EXCEPT ![n] =
                     IF answer = "ok" THEN [@ EXCEPT !.pc = "meta"] ELSE Idle]
  /\ UNCHANGED <<meta, addr, status, beat, disturbed, struck, quiet>>

(* Mutant of PutMeta: an error of the put does not end the Register.       *)
PutMetaIgnoresError(n) ==
  LET id == call[n].id
  IN  /\ call[n].pc = "meta"
      /\ \E answer \in Answers(n) :
           meta' = IF answer = "fail" THEN meta ELSE meta \cup {id}
      /\ \E b \in Beat :
           /\ beat[b] = NoBeat
           /\ beat' = [beat EXCEPT ![b] =
                [NoBeat EXCEPT !.pc = "grant", !.node = n, !.id = id, !.first = TRUE]]
      /\ quiet' = [quiet EXCEPT ![id] = 0]
      /\ struck' = IF id \in tags THEN struck \ {id} ELSE struck
      /\ call' = [call EXCEPT ![n] = Idle]
      /\ UNCHANGED <<tags, addr, status, disturbed>>

(* PutYaml of the meta data; then the goroutine is started, and Register   *)
(* returns nil before anything is listed.                                  *)
PutMeta(n) ==
  LET id == call[n].id
  IN  /\ call[n].pc = "meta"
      /\ \E answer \in Answers(n) :
           /\ meta' = IF answer = "fail" THEN meta ELSE meta \cup {id}
           /\ IF answer = "ok"
              THEN /\ \E b \in Beat :
                        /\ beat[b] = NoBeat
                        /\ beat' = [beat EXCEPT ![b] =
                             [NoBeat EXCEPT !.pc = "grant", !.node = n,
                                            !.id = id, !.first = TRUE]]
                   /\ quiet' = [quiet EXCEPT ![id] = 0]
                   /\ struck' = IF id \in tags THEN struck \ {id} ELSE struck
              ELSE UNCHANGED <<beat, quiet, struck>>
      /\ call' = [call EXCEPT ![n] = Idle]
      /\ UNCHANGED <<tags, addr, status, disturbed>>

-----------------------------------------------------------------------------
(* The heartbeat goroutine.                                                *)

(* for ; s.IsOpen(); : the goroutine ends with its store.                  *)
CheckOpen(b) ==
  /\ beat[b].pc = "open"
  /\ beat' = [beat EXCEPT ![b] =
       IF status[@.node] = "closed" THEN NoBeat ELSE [@ EXCEPT !.pc = "grant"]]
  /\ UNCHANGED <<tags, meta, addr, status, call, disturbed, struck, quiet>>

(* Mutant of Grant: a lease a second longer.                               *)
GrantLonger(b) ==
  /\ beat[b].pc = "grant"
  /\ status[beat[b].node] # "closed"
  /\ beat' = [beat EXCEPT ![b].pc = "put", ![b].lease = Lease + 1]
  /\ UNCHANGED <<tags, meta, addr, status, call, disturbed, struck, quiet>>

(* PutTTLLite's Grant.  Its error is only logged, and the nil response is  *)
(* dereferenced next; so is s.Client once Close has cleared it.            *)
Grant(b) ==
  /\ beat[b].pc = "grant"
  /\ \/ /\ status[beat[b].node] # "closed"
        /\ beat' = [beat EXCEPT ![b].pc = "put", ![b].lease = Lease]
        /\ UNCHANGED <<tags, meta, addr, status, call, disturbed, struck, quiet>>
     \/ /\ "grant" \in Faults \/ status[beat[b].node] \in {"closing", "closed"}
        /\ Die(beat[b].node)

(* In its loop, a goroutine sleeps or goes on.                             *)
Looping(r, pc, sleep) ==
  [pc |-> pc, node |-> r.node, id |-> r.id, first |-> FALSE, lease |-> 0,
   sleep |-> sleep]

(* Mutant of AfterPut: the heartbeat waits out its whole lease.            *)
AfterPutSleepsLease(r, answer) ==
  IF r.first THEN IF answer = "ok" THEN Looping(r, "open", 0) ELSE NoBeat
  ELSE Looping(r, "sleep", IF answer = "ok" THEN Lease ELSE Retry)

(* What the goroutine goes on to after a put: the first one is not retried *)
(* and enters the loop at once, a later one is followed by a sleep.        *)
AfterPut(r, answer) ==
  IF r.first THEN IF answer = "ok" THEN Looping(r, "open", 0) ELSE NoBeat
  ELSE Looping(r, "sleep", IF answer = "ok" THEN TTL ELSE Retry)

(* ... and its Put, which etcd refuses when the lease has run out.         *)
PutAddr(b) ==
  LET r == beat[b]
  IN  /\ r.pc = "put"
      /\ \/ /\ status[r.node] # "closed"
            /\ \E answer \in IF r.lease = 0 THEN {"fail"} ELSE Answers(r.node) :
                 /\ addr' = IF answer = "fail" THEN addr
                            ELSE [addr EXCEPT ![r.id] = r.lease]
                 /\ disturbed' = IF answer # "fail" /\ r.lease = Lease
                                 THEN disturbed \ {r.id}
                                 ELSE disturbed \cup {r.id}
                 /\ beat' = [beat EXCEPT ![b] = AfterPut(r, answer)]
            /\ UNCHANGED <<tags, meta, status, call, struck, quiet>>
         \/ /\ status[r.node] = "closed"
            /\ Die(r.node)

WakeUp(b) ==
  /\ beat[b].pc = "sleep" /\ beat[b].sleep = 0
  /\ beat' = [beat EXCEPT ![b].pc = "open"]
  /\ UNCHANGED <<tags, meta, addr, status, call, disturbed, struck, quiet>>

-----------------------------------------------------------------------------
(* Deregister, DeregisterAll.                                              *)

(* The ids deregister() takes: all of them when it is not given an ip and  *)
(* a port (named is FALSE then), even if it is given an id; else those     *)
(* whose key has the key of id as its prefix.                              *)
Taken(id, named) ==
  IF named THEN {j \in Id : <<id, j>> \in IdPrefix} ELSE Id

Deregister(n, id, named) ==
  /\ status[n] = "open" /\ call[n] = Idle
  /\ tags' = tags \ Taken(id, named)
  /\ meta' = meta \ Taken(id, named)
  /\ addr' = [i \in Id |-> IF i \in Taken(id, named) THEN 0 ELSE addr[i]]
  /\ disturbed' = disturbed \cup Taken(id, named)
  /\ struck' = struck \cup Taken(id, named)
  /\ UNCHANGED <<status, call, beat, quiet>>

-----------------------------------------------------------------------------
(* The process and the world.                                              *)

Close(n) ==
  /\ status[n] = "open" /\ call[n] = Idle
  /\ status' = [status EXCEPT ![n] = "closing"]
  /\ UNCHANGED <<tags, meta, addr, call, beat, disturbed, struck, quiet>>

(* Mutants of CloseDone: closing takes the addresses the store has listed  *)
(* with it; s.Client is not cleared.                                       *)
CloseDelists(n) ==
  /\ status[n] = "closing"
  /\ status' = [status EXCEPT ![n] = "closed"]
  /\ addr' = [i \in Id |-> IF \E b \in BeatsOf(n) : beat[b].id = i THEN 0 ELSE addr[i]]
  /\ UNCHANGED <<tags, meta, call, beat, disturbed, struck, quiet>>
CloseKeepsClient(n) ==
  /\ status[n] = "closing"
  /\ UNCHANGED vars

CloseDone(n) ==
  /\ status[n] = "closing"
  /\ status' = [status EXCEPT ![n] = "closed"]
  /\ UNCHANGED <<tags, meta, addr, call, beat, disturbed, struck, quiet>>

Crash(n) ==
  /\ "crash" \in Faults
  /\ status[n] # "dead"
  /\ Die(n)

(* The process is started again, with a new store.                         *)
Restart(n) ==
  /\ status[n] \in {"closed", "dead"}
  /\ status' = [status EXCEPT ![n] = "open"]
  /\ beat' = [b \in Beat |-> IF b \in BeatsOf(n) THEN NoBeat ELSE beat[b]]
  /\ UNCHANGED <<tags, meta, addr, call, disturbed, struck, quiet>>

Runnable(b) ==
  beat[b].pc \notin {"none", "sleep"} \/ (beat[b].pc = "sleep" /\ beat[b].sleep = 0)

(* The ids of heartbeats that a second finds behind their time.            *)
Overdue == {beat[b].id : b \in {b \in Beat : Runnable(b)}}

Less(x) == IF x = 0 THEN 0 ELSE x - 1

(* A second goes by.  Unless the machine is slow, a goroutine that can run *)
(* has run before that.                                                    *)
Tick ==
  /\ "slow" \in Faults \/ \A b \in Beat : ~Runnable(b)
  /\ addr' = [i \in Id |-> Less(addr[i])]
  /\ beat' = [b \in Beat |-> [beat[b] EXCEPT !.sleep = Less(@), !.lease = Less(@)]]
  /\ quiet' = [i \in Id |-> IF Serving(i) \/ quiet[i] > Lease
                            THEN quiet[i] ELSE quiet[i] + 1]
  /\ disturbed' = disturbed \cup Overdue
  /\ UNCHANGED <<tags, meta, status, call, struck>>

-----------------------------------------------------------------------------
Init ==
  /\ tags = {} /\ meta = {}
  /\ addr = [i \in Id |-> 0]
  /\ status = [n \in Node |-> "open"]
  /\ call = [n \in Node |-> Idle]
  /\ beat = [b \in Beat |-> NoBeat]
  /\ disturbed = {} /\ struck = {}
  /\ quiet = [i \in Id |-> 0]

Proceed(b) == CheckOpen(b) \/ Grant(b) \/ PutAddr(b) \/ WakeUp(b)

Next ==
  \/ \E n \in Node :
       \/ \E id \in Id :
            Register(n, id) \/ \E named \in BOOLEAN : Deregister(n, id, named)
       \/ PutTags(n) \/ PutMeta(n)
       \/ Close(n) \/ CloseDone(n) \/ Crash(n) \/ Restart(n)
  \/ \E b \in Beat : Proceed(b)
  \/ Tick

Spec == Init /\ [][Next]_vars

(* Time passes, and the goroutines are scheduled; so is the rest of Close. *)
Fairness ==
  /\ WF_vars(Tick)
  /\ \A b \in Beat : WF_vars(Proceed(b))
  /\ \A n \in Node : WF_vars(CloseDone(n))

FairSpec == Spec /\ Fairness

-----------------------------------------------------------------------------
(* Properties.                                                             *)

Calls == [pc : {"idle", "tags", "meta"}, id : Id \cup {None}]

Beats ==
  [pc : {"none", "open", "grant", "put", "sleep"}, node : Node \cup {None},
   id : Id \cup {None}, first : BOOLEAN, lease : 0 .. Lease, sleep : Nat]

TypeOK ==
  /\ tags \subseteq Id /\ meta \subseteq Id
  /\ addr \in [Id -> 0 .. Lease]
  /\ status \in [Node -> {"open", "closing", "closed", "dead"}]
  /\ call \in [Node -> Calls]
  /\ beat \in [Beat -> Beats]
  /\ disturbed \subseteq Id /\ struck \subseteq Id
  /\ quiet \in [Id -> Nat]

(* An instance is listed for as long as its heartbeat loop runs, through   *)
(* every change of lease, lost answer, crash of another process and second *)
(* registration of the same id, until a heartbeat is refused or late or a  *)
(* Deregister strikes it, and again from the next full lease on: the       *)
(* second Register adds to the lease always covers the sleep.              *)
AliveIsListed ==
  \A b \in Beat :
    beat[b].pc # "none" /\ ~beat[b].first /\ beat[b].id \notin disturbed
    => addr[beat[b].id] > 0

(* How long the registry may list an instance nobody serves any more,      *)
(* whatever crashed, failed or was lost: never beyond TTL + 1 seconds.     *)
StaleBound == \A i \in Id : addr[i] > 0 => addr[i] + quiet[i] <= Lease

(* An address is not listed without its tags and meta, for Register starts *)
(* the heartbeat after both; a half instance is one that a Deregister and  *)
(* a running heartbeat or registration have fought over.                   *)
ListedIsComplete ==
  \A i \in Id : addr[i] > 0 => i \in struck \/ (i \in tags /\ i \in meta)

Registry ==
  INSTANCE Membership
    WITH Server <- Beat, Instance <- Id, Term <- Lease,
         serves <- [b \in Beat |-> beat[b].id],
         word <- [b \in Beat |-> beat[b].lease],
         left <- addr

(* The registry as its readers may take it.  Whatever is refused, lost,    *)
(* late or killed: an address is listed only by the put of a goroutine     *)
(* that serves it, for what is left of the term that began with its Grant, *)
(* and no lease is put twice; goroutines that end, a Close, a crash or a   *)
(* restart list nothing and take nothing away; and an address is gone only *)
(* with its time or by a Deregister, which is on record (struck) until the *)
(* id is registered anew.                                                  *)
ListsItsMembers == Registry!Spec

(* The goroutines of a store that is closed come to their end, in whatever *)
(* request or sleep the Close finds them: each looks at the store again.   *)
CloseEndsBeats == \A n \in Node : status[n] = "closing" ~> BeatsOf(n) = {}

(* What a comment says of the heartbeat and the code does not do.  "Within *)
(* the threshold at which the TTL lapses, the heartbeat is renewed": no    *)
(* second ends the listing of an instance whose heartbeat loop runs on.    *)
RenewedInTime ==
  [][Tick => \A b \in Beat :
       /\ beat[b].pc # "none" /\ ~beat[b].first /\ status[beat[b].node] = "open"
       /\ addr[beat[b].id] > 0
       => addr'[beat[b].id] > 0]_vars
=============================================================================
