------------------------- MODULE EtcdRegistryProofs -------------------------
(***************************************************************************)
(* Theorems about EtcdRegistry, for every set of nodes, ids and heartbeat  *)
(* goroutines, every TTL and every combination of faults: the type         *)
(* invariant, the bound on how long the registry lists an instance that    *)
(* nobody serves, that what it lists is complete and what is alive is      *)
(* listed, and that it implements Membership.                              *)
(***************************************************************************)
EXTENDS EtcdRegistry, TLAPS

(* A goroutine has an id exactly while it runs; so has a Register.         *)
Assigned ==
  /\ \A b \in Beat : beat[b].id = None <=> beat[b].pc = "none"
  /\ \A n \in Node : call[n].pc # "idle" => call[n].id \in Id

(* The seconds of quiet are counted only while no goroutine serves the id. *)
ServedIsNotQuiet == \A b \in Beat : beat[b].pc # "none" => quiet[beat[b].id] = 0

IInv == TypeOK /\ Assigned /\ ServedIsNotQuiet /\ StaleBound

LEMMA LeaseNat == Lease \in Nat /\ Retry \in Nat
  BY RegistryAssumption DEF RegistryAssumption, Lease, Retry

LEMMA NoBeatType ==
  /\ NoBeat \in Beats
  /\ NoBeat.pc = "none" /\ NoBeat.id = None
  BY LeaseNat, RegistryAssumption DEF RegistryAssumption, NoBeat, Beats

LEMMA IdleType == Idle \in Calls /\ Idle.pc = "idle"
  BY DEF Idle, Calls

(* The initial state satisfies the invariant. *)
LEMMA InitInv == Init => IInv
<1> SUFFICES ASSUME Init PROVE IInv
  OBVIOUS
<1> USE LeaseNat, NoBeatType, IdleType
<1>1. TypeOK
  BY DEF Init, TypeOK
<1>2. Assigned /\ ServedIsNotQuiet /\ StaleBound
  BY DEF Init, Assigned, ServedIsNotQuiet, StaleBound
<1> QED
  BY <1>1, <1>2 DEF IInv

(* Whatever part of the goroutines ends, the rest keeps the invariant. *)
LEMMA BeatsEnd ==
  ASSUME IInv, NEW S,
         beat' = [b \in Beat |-> IF b \in S THEN NoBeat ELSE beat[b]],
         quiet' = quiet
  PROVE  /\ beat' \in [Beat -> Beats]
         /\ \A b \in Beat : beat'[b].id = None <=> beat'[b].pc = "none"
         /\ ServedIsNotQuiet'
<1> USE NoBeatType
<1>1. beat' \in [Beat -> Beats]
  BY DEF IInv, TypeOK
<1>2. \A b \in Beat : beat'[b].id = None <=> beat'[b].pc = "none"
  BY DEF IInv, Assigned
<1>3. ServedIsNotQuiet'
  BY DEF IInv, ServedIsNotQuiet
<1> QED
  BY <1>1, <1>2, <1>3

(* The death of a process keeps it. *)
LEMMA DieInv ==
  ASSUME IInv, NEW n, Die(n)
  PROVE  IInv'
<1> USE IdleType
<1>1. /\ beat' \in [Beat -> Beats]
      /\ \A b \in Beat : beat'[b].id = None <=> beat'[b].pc = "none"
      /\ ServedIsNotQuiet'
  BY BeatsEnd DEF Die
<1>2. TypeOK'
  BY <1>1 DEF IInv, TypeOK, Die
<1>3. Assigned'
  BY <1>1 DEF IInv, Assigned, TypeOK, Die
<1>4. StaleBound'
  BY DEF IInv, StaleBound, Die
<1> QED
  BY <1>1, <1>2, <1>3, <1>4 DEF IInv

(* So does a step of one goroutine that leaves it its id, its node and the *)
(* registry alone.                                                         *)
LEMMA BeatStep ==
  ASSUME IInv, NEW b \in Beat, beat[b].pc # "none",
         NEW r \in Beats, r.pc # "none" => r.id = beat[b].id,
         r.id = None <=> r.pc = "none",
         beat' = [beat EXCEPT ![b] = r],
         UNCHANGED <<tags, meta, addr, status, call, disturbed, struck, quiet>>
  PROVE  IInv'
<1>1. TypeOK'
  BY DEF IInv, TypeOK
<1>2. Assigned'
  BY DEF IInv, TypeOK, Assigned
<1>3. ServedIsNotQuiet'
  BY DEF IInv, TypeOK, ServedIsNotQuiet
<1>4. StaleBound'
  BY DEF IInv, StaleBound
<1> QED
  BY <1>1, <1>2, <1>3, <1>4 DEF IInv

(* The record an answered put leaves its goroutine in. *)
LEMMA AfterPutType ==
  ASSUME NEW r \in Beats, r.pc # "none", r.id # None, NEW answer
  PROVE  /\ AfterPut(r, answer) \in Beats
         /\ AfterPut(r, answer).pc # "none" => AfterPut(r, answer).id = r.id
         /\ AfterPut(r, answer).id = None <=> AfterPut(r, answer).pc = "none"
<1>1. /\ Looping(r, "open", 0) \in Beats
      /\ Looping(r, "sleep", IF answer = "ok" THEN TTL ELSE Retry) \in Beats
  BY LeaseNat, RegistryAssumption DEF RegistryAssumption, Looping, Beats
<1>2. \A pc, sleep : Looping(r, pc, sleep).pc = pc /\ Looping(r, pc, sleep).id = r.id
  BY DEF Looping
<1>3. \/ AfterPut(r, answer) = NoBeat
      \/ AfterPut(r, answer) = Looping(r, "open", 0)
      \/ AfterPut(r, answer) = Looping(r, "sleep", IF answer = "ok" THEN TTL ELSE Retry)
  BY DEF AfterPut
<1> QED
  BY <1>1, <1>2, <1>3, NoBeatType

LEMMA PutMetaInv ==
  ASSUME IInv, NEW n \in Node, PutMeta(n)
  PROVE  IInv'
<1> DEFINE id == call[n].id
<1> USE NoBeatType, IdleType, LeaseNat
<1>1. id \in Id /\ call[n] \in Calls
  BY DEF IInv, Assigned, PutMeta, TypeOK
<1>2. call' = [call EXCEPT ![n] = Idle] /\ UNCHANGED <<tags, addr, status, disturbed>>
  BY DEF PutMeta
<1>3. meta' \subseteq Id
  BY <1>1 DEF PutMeta, IInv, TypeOK
<1>4. CASE UNCHANGED <<beat, quiet, struck>>
  BY <1>1, <1>2, <1>3, <1>4
     DEF IInv, TypeOK, Assigned, ServedIsNotQuiet, StaleBound
<1>5. CASE ~UNCHANGED <<beat, quiet, struck>>
  <2>1. PICK b \in Beat :
          /\ beat[b] = NoBeat
          /\ beat' = [beat EXCEPT ![b] =
               [NoBeat EXCEPT !.pc = "grant", !.node = n,
                              !.id = id, !.first = TRUE]]
    BY <1>5 DEF PutMeta
  <2>2. /\ quiet' = [quiet EXCEPT ![id] = 0]
        /\ struck' = IF id \in tags THEN struck \ {id} ELSE struck
    BY <1>5 DEF PutMeta
  <2> DEFINE r == [NoBeat EXCEPT !.pc = "grant", !.node = n,
                                 !.id = id, !.first = TRUE]
  <2>3. r \in Beats /\ r.pc = "grant" /\ r.id = id /\ id # None
    BY <1>1, RegistryAssumption DEF Beats, NoBeat, RegistryAssumption
  <2> HIDE DEF r
  <2>4. TypeOK'
    BY <1>1, <1>2, <1>3, <2>1, <2>2, <2>3 DEF IInv, TypeOK, r
  <2>5. Assigned'
    BY <1>1, <1>2, <2>1, <2>3 DEF IInv, TypeOK, Assigned, r
  <2>6. ServedIsNotQuiet'
    BY <1>1, <2>1, <2>2, <2>3 DEF IInv, TypeOK, ServedIsNotQuiet, r
  <2>7. StaleBound'
    BY <1>1, <1>2, <2>2 DEF IInv, TypeOK, StaleBound
  <2> QED
    BY <2>4, <2>5, <2>6, <2>7 DEF IInv
<1> QED
  BY <1>4, <1>5

LEMMA PutAddrInv ==
  ASSUME IInv, NEW b \in Beat, PutAddr(b)
  PROVE  IInv'
<1> DEFINE r == beat[b]
<1>1. r \in Beats /\ r.pc = "put" /\ r.id \in Id /\ r.id # None /\ quiet[r.id] = 0
  BY RegistryAssumption
     DEF IInv, TypeOK, Assigned, ServedIsNotQuiet, PutAddr, Beats, RegistryAssumption
<1>2. CASE status[r.node] = "closed"
  BY <1>2, DieInv DEF PutAddr
<1>3. CASE status[r.node] # "closed"
  <2>1. PICK answer :
          /\ addr' = IF answer = "fail" THEN addr ELSE [addr EXCEPT ![r.id] = r.lease]
          /\ disturbed' = IF answer # "fail" /\ r.lease = Lease
                          THEN disturbed \ {r.id} ELSE disturbed \cup {r.id}
          /\ beat' = [beat EXCEPT ![b] = AfterPut(r, answer)]
    BY <1>3 DEF PutAddr
  <2>2. UNCHANGED <<tags, meta, status, call, struck, quiet>>
    BY <1>3 DEF PutAddr
  <2> DEFINE q == AfterPut(r, answer)
  <2>3. q \in Beats /\ (q.pc # "none" => q.id = r.id) /\ (q.id = None <=> q.pc = "none")
    BY <1>1, AfterPutType
  <2> HIDE DEF q
  <2>4. TypeOK'
    BY <1>1, <2>1, <2>2, <2>3 DEF IInv, TypeOK, q, Beats
  <2>5. Assigned'
    BY <1>1, <2>1, <2>2, <2>3 DEF IInv, TypeOK, Assigned, q
  <2>6. ServedIsNotQuiet'
    BY <1>1, <2>1, <2>2, <2>3 DEF IInv, TypeOK, ServedIsNotQuiet, q
  <2>7. StaleBound'
    BY <1>1, <2>1, <2>2, LeaseNat DEF IInv, TypeOK, StaleBound, Beats
  <2> QED
    BY <2>4, <2>5, <2>6, <2>7 DEF IInv
<1> QED
  BY <1>2, <1>3

(* A tick moves no goroutine, and lists nothing. *)
LEMMA TickMoves ==
  ASSUME IInv, Tick
  PROVE  /\ \A b \in Beat : beat'[b] \in Beats /\ beat'[b].id = beat[b].id
                              /\ beat'[b].pc = beat[b].pc
         /\ \A i \in Id : addr[i] \in Nat /\ addr'[i] = Less(addr[i])
<1>1. \A b \in Beat : beat'[b] \in Beats /\ beat'[b].id = beat[b].id
                        /\ beat'[b].pc = beat[b].pc
  <2> TAKE b \in Beat
  <2>1. beat[b] \in Beats
    BY DEF IInv, TypeOK
  <2>2. Less(beat[b].sleep) \in Nat /\ Less(beat[b].lease) \in 0 .. Lease
    BY <2>1, LeaseNat DEF Beats, Less
  <2> QED
    BY <2>1, <2>2 DEF Tick, Beats
<1>2. \A i \in Id : addr[i] \in Nat
  BY LeaseNat DEF IInv, TypeOK
<1>3. \A i \in Id : addr'[i] = Less(addr[i])
  BY DEF Tick
<1> QED
  BY <1>1, <1>2, <1>3

LEMMA TickInv ==
  ASSUME IInv, Tick
  PROVE  IInv'
<1> USE LeaseNat
<1>1. \A x \in Nat : Less(x) \in Nat /\ (x > 0 => Less(x) = x - 1) /\ Less(0) = 0
  BY DEF Less
<1>2. /\ addr' = [i \in Id |-> Less(addr[i])]
      /\ beat' = [b \in Beat |-> [beat[b] EXCEPT !.sleep = Less(@), !.lease = Less(@)]]
      /\ quiet' = [i \in Id |-> IF Serving(i) \/ quiet[i] > Lease
                                THEN quiet[i] ELSE quiet[i] + 1]
      /\ disturbed' = disturbed \cup Overdue
      /\ UNCHANGED <<tags, meta, status, call, struck>>
  BY DEF Tick
<1>3. \A b \in Beat :
        /\ beat'[b] \in Beats /\ beat'[b].id = beat[b].id /\ beat'[b].pc = beat[b].pc
  BY TickMoves
<1>4. TypeOK'
  <2>1. \A i \in Id : addr'[i] \in 0 .. Lease /\ quiet'[i] \in Nat
    <3> TAKE i \in Id
    <3>1. addr[i] \in Nat /\ addr[i] <= Lease /\ quiet[i] \in Nat
      BY DEF IInv, TypeOK
    <3>2. Less(addr[i]) \in Nat /\ Less(addr[i]) <= Lease
      BY <1>1, <3>1
    <3>3. addr'[i] = Less(addr[i]) /\ (quiet'[i] = quiet[i] \/ quiet'[i] = quiet[i] + 1)
      BY <1>2
    <3> QED
      BY <3>1, <3>2, <3>3
  <2>2. beat' \in [Beat -> Beats]
    BY <1>2, <1>3
  <2>3. disturbed' \subseteq Id
    BY <1>2 DEF Overdue, Runnable, IInv, TypeOK, Assigned, Beats
  <2> QED
    BY <1>2, <2>1, <2>2, <2>3 DEF IInv, TypeOK
<1>5. Assigned'
  BY <1>2, <1>3 DEF IInv, Assigned
<1>6. ServedIsNotQuiet'
  <2> SUFFICES ASSUME NEW b \in Beat, beat'[b].pc # "none"
               PROVE  quiet'[beat'[b].id] = 0
    BY DEF ServedIsNotQuiet
  <2>1. beat[b].pc # "none" /\ beat[b].id \in Id /\ quiet[beat[b].id] = 0
    BY <1>3 DEF IInv, TypeOK, Assigned, ServedIsNotQuiet, Beats
  <2>2. Serving(beat[b].id)
    BY DEF Serving
  <2> QED
    BY <1>2, <1>3, <2>1, <2>2
<1>7. StaleBound'
  <2> SUFFICES ASSUME NEW i \in Id, addr'[i] > 0
               PROVE  addr'[i] + quiet'[i] <= Lease
    BY DEF StaleBound
  <2>1. addr[i] \in 0 .. Lease /\ quiet[i] \in Nat
    BY DEF IInv, TypeOK
  <2>2. addr[i] > 0 /\ addr'[i] = addr[i] - 1
    <3>1. addr[i] \in Nat
      BY <2>1
    <3>2. addr'[i] = Less(addr[i])
      BY <1>2
    <3> QED
      BY <1>1, <3>1, <3>2
  <2>3. addr[i] + quiet[i] <= Lease
    BY <2>2 DEF IInv, StaleBound
  <2>4. quiet'[i] = quiet[i] \/ quiet'[i] = quiet[i] + 1
    BY <1>2
  <2> QED
    BY <2>1, <2>2, <2>3, <2>4
<1> QED
  BY <1>4, <1>5, <1>6, <1>7 DEF IInv

(* Every step keeps the invariant. *)
LEMMA StepInv == IInv /\ [Next]_vars => IInv'
<1> SUFFICES ASSUME IInv, [Next]_vars PROVE IInv'
  OBVIOUS
<1> USE NoBeatType, IdleType, LeaseNat
<1>1. ASSUME NEW n \in Node, NEW id \in Id, Register(n, id) PROVE IInv'
  <2>1. [pc |-> "tags", id |-> id] \in Calls
    BY DEF Calls
  <2> QED
    BY <1>1, <2>1
       DEF Register, IInv, TypeOK, Assigned, ServedIsNotQuiet, StaleBound
<1>2. ASSUME NEW n \in Node, PutTags(n) PROVE IInv'
  <2>1. call[n] \in Calls /\ call[n].id \in Id
    BY <1>2 DEF PutTags, IInv, TypeOK, Assigned
  <2>2. [call[n] EXCEPT !.pc = "meta"] \in Calls
    BY <2>1 DEF Calls
  <2>3. PICK answer : call' = [call EXCEPT ![n] =
                        IF answer = "ok" THEN [call[n] EXCEPT !.pc = "meta"] ELSE Idle]
    BY <1>2 DEF PutTags
  <2>4. tags' \subseteq Id /\ UNCHANGED <<meta, addr, status, beat, disturbed, struck, quiet>>
    BY <1>2, <2>1 DEF PutTags, IInv, TypeOK
  <2>5. [call[n] EXCEPT !.pc = "meta"].id = call[n].id
    BY <2>1 DEF Calls
  <2>6. call' \in [Node -> Calls]
    BY <2>2, <2>3 DEF IInv, TypeOK
  <2>7. Assigned'
    BY <2>1, <2>3, <2>4, <2>5 DEF IInv, TypeOK, Assigned
  <2> QED
    BY <2>4, <2>6, <2>7 DEF IInv, TypeOK, ServedIsNotQuiet, StaleBound
<1>3. ASSUME NEW n \in Node, PutMeta(n) PROVE IInv'
  BY <1>3, PutMetaInv
<1>4. ASSUME NEW b \in Beat, CheckOpen(b) PROVE IInv'
  <2> DEFINE r == IF status[beat[b].node] = "closed" THEN NoBeat
                  ELSE [beat[b] EXCEPT !.pc = "grant"]
  <2>1. beat[b] \in Beats /\ beat[b].pc = "open" /\ beat[b].id # None
    BY <1>4 DEF CheckOpen, IInv, TypeOK, Assigned
  <2>2. r \in Beats /\ (r.pc # "none" => r.id = beat[b].id) /\ (r.id = None <=> r.pc = "none")
    BY <2>1 DEF Beats
  <2>3. beat' = [beat EXCEPT ![b] = r]
    BY <1>4 DEF CheckOpen
  <2> HIDE DEF r
  <2> QED
    BY <1>4, <2>1, <2>2, <2>3, BeatStep DEF CheckOpen
<1>5. ASSUME NEW b \in Beat, Grant(b) PROVE IInv'
  <2>1. beat[b] \in Beats /\ beat[b].pc = "grant" /\ beat[b].id # None
    BY <1>5 DEF Grant, IInv, TypeOK, Assigned
  <2>2. CASE Die(beat[b].node)
    BY <2>2, DieInv
  <2>3. CASE ~Die(beat[b].node)
    <3> DEFINE r == [beat[b] EXCEPT !.pc = "put", !.lease = Lease]
    <3>1. Lease \in 0 .. Lease
      BY LeaseNat
    <3>2. r \in Beats /\ r.id = beat[b].id /\ r.pc = "put"
      BY <2>1, <3>1 DEF Beats
    <3>3. beat' = [beat EXCEPT ![b] = r]
      BY <1>5, <2>3 DEF Grant
    <3>4. UNCHANGED <<tags, meta, addr, status, call, disturbed, struck, quiet>>
      BY <1>5, <2>3 DEF Grant
    <3> HIDE DEF r
    <3> QED
      BY <2>1, <3>2, <3>3, <3>4, BeatStep
  <2> QED
    BY <2>2, <2>3
<1>6. ASSUME NEW b \in Beat, PutAddr(b) PROVE IInv'
  BY <1>6, PutAddrInv
<1>7. ASSUME NEW b \in Beat, WakeUp(b) PROVE IInv'
  <2> DEFINE r == [beat[b] EXCEPT !.pc = "open"]
  <2>1. beat[b] \in Beats /\ beat[b].pc = "sleep" /\ beat[b].id # None
    BY <1>7 DEF WakeUp, IInv, TypeOK, Assigned
  <2>2. r \in Beats /\ r.id = beat[b].id /\ r.pc = "open"
    BY <2>1 DEF Beats
  <2>3. beat' = [beat EXCEPT ![b] = r]
    BY <1>7 DEF WakeUp
  <2> HIDE DEF r
  <2> QED
    BY <1>7, <2>1, <2>2, <2>3, BeatStep DEF WakeUp
<1>8. ASSUME NEW n \in Node, NEW id \in Id, NEW named \in BOOLEAN,
             Deregister(n, id, named)
      PROVE  IInv'
  <2>1. Taken(id, named) \subseteq Id
    BY DEF Taken
  <2>2. addr' \in [Id -> 0 .. Lease]
    BY <1>8 DEF Deregister, IInv, TypeOK
  <2>3. StaleBound'
    BY <1>8 DEF Deregister, IInv, StaleBound
  <2> QED
    BY <1>8, <2>1, <2>2, <2>3 DEF Deregister, IInv, TypeOK, Assigned, ServedIsNotQuiet
<1>9. ASSUME NEW n \in Node, Close(n) \/ CloseDone(n) PROVE IInv'
  BY <1>9 DEF Close, CloseDone, IInv, TypeOK, Assigned, ServedIsNotQuiet, StaleBound
<1>10. ASSUME NEW n \in Node, Crash(n) PROVE IInv'
  BY <1>10, DieInv DEF Crash
<1>11. ASSUME NEW n \in Node, Restart(n) PROVE IInv'
  <2>1. /\ beat' \in [Beat -> Beats]
        /\ \A b \in Beat : beat'[b].id = None <=> beat'[b].pc = "none"
        /\ ServedIsNotQuiet'
    BY <1>11, BeatsEnd DEF Restart
  <2> QED
    BY <1>11, <2>1 DEF Restart, IInv, TypeOK, Assigned, StaleBound
<1>12. CASE Tick
  BY <1>12, TickInv
<1>13. CASE UNCHANGED vars
  BY <1>13 DEF vars, IInv, TypeOK, Assigned, ServedIsNotQuiet, StaleBound
<1> QED
  BY <1>1, <1>2, <1>3, <1>4, <1>5, <1>6, <1>7, <1>8, <1>9, <1>10, <1>11, <1>12,
     <1>13 DEF Next, Proceed

(* The variables of EtcdRegistry have their types in every reachable state *)
(* of every instance.                                                      *)
THEOREM TypeCorrect == Spec => []TypeOK
<1>1. IInv => TypeOK
  BY DEF IInv
<1> QED
  BY InitInv, StepInv, <1>1, PTL DEF Spec

(* The registry never lists an instance that no goroutine has served for   *)
(* more than TTL + 1 seconds, whatever fails, crashes, restarts, is lost   *)
(* or is slow: the leases etcd keeps stand in for the cleaning up that     *)
(* deregister() would have done.                                           *)
THEOREM ListingIsBounded == Spec => []StaleBound
<1>1. IInv => StaleBound
  BY DEF IInv
<1> QED
  BY InitInv, StepInv, <1>1, PTL DEF Spec

-----------------------------------------------------------------------------
(* What makes ListedIsComplete inductive: an id is complete, or has been   *)
(* struck, from the time its goroutine is started; its tags are there, or  *)
(* have been struck, from the time Register goes on to its meta data.      *)
Complete(i) == i \in struck \/ (i \in tags /\ i \in meta)

CompleteInv ==
  /\ \A n \in Node : call[n].pc = "meta" => call[n].id \in tags \cup struck
  /\ \A b \in Beat : beat[b].pc # "none" => Complete(beat[b].id)
  /\ ListedIsComplete

(* A step that adds to the entries and strikes at most more keeps it, if   *)
(* it starts no goroutine, no Register at its meta data and lists nothing. *)
LEMMA CompleteKept ==
  ASSUME CompleteInv, tags \subseteq tags', meta \subseteq meta', struck' = struck,
         \A n \in Node : call'[n].pc = "meta" =>
            (call[n].pc = "meta" /\ call'[n].id = call[n].id) \/ call'[n].id \in tags',
         \A b \in Beat : beat'[b].pc # "none" =>
            beat[b].pc # "none" /\ beat'[b].id = beat[b].id,
         \A i \in Id : addr'[i] > 0 =>
            addr[i] > 0 \/ \E b \in Beat : beat[b].pc # "none" /\ beat[b].id = i
  PROVE  CompleteInv'
<1>1. \A i : Complete(i) => Complete(i)'
  BY DEF Complete
<1>2. \A n \in Node : call'[n].pc = "meta" => call'[n].id \in tags' \cup struck'
  BY DEF CompleteInv
<1>3. \A b \in Beat : beat'[b].pc # "none" => Complete(beat[b].id)' /\ beat'[b].id = beat[b].id
  BY <1>1 DEF CompleteInv
<1>4. \A i \in Id : addr'[i] > 0 => Complete(i)'
  BY <1>1 DEF CompleteInv, ListedIsComplete, Complete
<1> QED
  BY <1>2, <1>3, <1>4 DEF CompleteInv, ListedIsComplete, Complete

LEMMA CompleteStep == IInv /\ CompleteInv /\ [Next]_vars => CompleteInv'
<1> SUFFICES ASSUME IInv, CompleteInv, [Next]_vars PROVE CompleteInv'
  OBVIOUS
<1> USE NoBeatType, IdleType
<1>0. ASSUME NEW n, Die(n) PROVE CompleteInv'
  BY <1>0, CompleteKept DEF Die, IInv, TypeOK
<1>1. ASSUME NEW n \in Node, NEW id \in Id, Register(n, id) PROVE CompleteInv'
  BY <1>1, CompleteKept DEF Register, IInv, TypeOK
<1>2. ASSUME NEW n \in Node, PutTags(n) PROVE CompleteInv'
  <2>1. PICK answer :
          /\ tags' = IF answer = "fail" THEN tags ELSE tags \cup {call[n].id}
          /\ call' = [call EXCEPT ![n] =
                IF answer = "ok" THEN [call[n] EXCEPT !.pc = "meta"] ELSE Idle]
    BY <1>2 DEF PutTags
  <2>2. call[n] \in Calls
    BY DEF IInv, TypeOK
  <2>3. [call[n] EXCEPT !.pc = "meta"].id = call[n].id
    BY <2>2 DEF Calls
  <2> QED
    BY <1>2, <2>1, <2>2, <2>3, CompleteKept DEF PutTags, IInv, TypeOK
<1>3. ASSUME NEW n \in Node, PutMeta(n) PROVE CompleteInv'
  <2> DEFINE id == call[n].id
  <2>1. call' = [call EXCEPT ![n] = Idle] /\ UNCHANGED <<tags, addr, status, disturbed>>
        /\ meta \subseteq meta'
    BY <1>3 DEF PutMeta
  <2>2. CASE UNCHANGED <<beat, struck>>
    BY <2>1, <2>2, CompleteKept DEF IInv, TypeOK
  <2>3. CASE ~UNCHANGED <<beat, struck>>
    <3>1. PICK b \in Beat :
            beat' = [beat EXCEPT ![b] =
               [NoBeat EXCEPT !.pc = "grant", !.node = n,
                              !.id = id, !.first = TRUE]]
      BY <2>3, <1>3 DEF PutMeta
    <3>2. /\ id \in meta'
          /\ struck' = IF id \in tags THEN struck \ {id} ELSE struck
      BY <2>3, <1>3 DEF PutMeta
    <3>3. id \in tags \cup struck
      BY <1>3 DEF PutMeta, CompleteInv
    <3> HIDE DEF id
    <3> DEFINE Whole(i) == i \in struck' \/ (i \in tags' /\ i \in meta')
    <3>4. Whole(id)
      BY <2>1, <3>2, <3>3
    <3>5. \A i : i # id /\ Complete(i) => Whole(i)
      BY <2>1, <3>2 DEF Complete
    <3> HIDE DEF Whole
    <3>6. \A c \in Beat : beat'[c].pc # "none" => Whole(beat'[c].id)
      <4> TAKE c \in Beat
      <4>1. beat'[b].id = id
        BY <3>1 DEF IInv, TypeOK, NoBeat
      <4>2. c # b => beat'[c] = beat[c]
        BY <3>1 DEF IInv, TypeOK
      <4>3. CASE c = b
        BY <3>4, <4>1, <4>3
      <4>4. CASE c # b
        BY <3>4, <3>5, <4>2, <4>4 DEF CompleteInv
      <4> QED
        BY <4>3, <4>4
    <3>7. \A m \in Node : call'[m].pc = "meta" => call'[m].id \in tags' \cup struck'
      BY <2>1, <3>2 DEF CompleteInv, IInv, TypeOK
    <3>8. \A i \in Id : addr'[i] > 0 => Whole(i)
      BY <2>1, <3>4, <3>5 DEF CompleteInv, ListedIsComplete, Complete
    <3> QED
      BY <3>6, <3>7, <3>8 DEF CompleteInv, ListedIsComplete, Complete, Whole
  <2> QED
    BY <2>2, <2>3
<1>4. ASSUME NEW b \in Beat, CheckOpen(b) PROVE CompleteInv'
  <2>1. beat[b] \in Beats
    BY DEF IInv, TypeOK
  <2>2. [beat[b] EXCEPT !.pc = "grant"].id = beat[b].id
    BY <2>1 DEF Beats
  <2> QED
    BY <1>4, <2>2, CompleteKept DEF CheckOpen, IInv, TypeOK
<1>5. ASSUME NEW b \in Beat, Grant(b) PROVE CompleteInv'
  <2>1. CASE Die(beat[b].node)
    BY <1>0, <2>1
  <2>2. CASE ~Die(beat[b].node)
    <3>1. beat[b] \in Beats
      BY DEF IInv, TypeOK
    <3>2. [beat[b] EXCEPT !.pc = "put", !.lease = Lease].id = beat[b].id
      BY <3>1 DEF Beats
    <3>3. beat' = [beat EXCEPT ![b] = [beat[b] EXCEPT !.pc = "put", !.lease = Lease]]
      BY <1>5, <2>2 DEF Grant
    <3> QED
      BY <1>5, <2>2, <3>2, <3>3, CompleteKept DEF Grant, IInv, TypeOK
  <2> QED
    BY <2>1, <2>2
<1>6. ASSUME NEW b \in Beat, PutAddr(b) PROVE CompleteInv'
  <2>1. CASE status[beat[b].node] = "closed"
    BY <1>0, <1>6, <2>1 DEF PutAddr
  <2>2. CASE status[beat[b].node] # "closed"
    <3>1. PICK answer :
            /\ addr' = addr \/ addr' = [addr EXCEPT ![beat[b].id] = beat[b].lease]
            /\ beat' = [beat EXCEPT ![b] = AfterPut(beat[b], answer)]
      BY <1>6, <2>2 DEF PutAddr
    <3>2. beat[b] \in Beats /\ beat[b].pc = "put" /\ beat[b].id # None
      BY <1>6 DEF PutAddr, IInv, TypeOK, Assigned
    <3>3. AfterPut(beat[b], answer).pc # "none" => AfterPut(beat[b], answer).id = beat[b].id
      BY <3>2, AfterPutType
    <3>4. \A i \in Id : addr'[i] > 0 => addr[i] > 0 \/ beat[b].id = i
      BY <3>1 DEF IInv, TypeOK
    <3>5. \A c \in Beat : beat'[c].pc # "none" =>
             beat[c].pc # "none" /\ beat'[c].id = beat[c].id
      BY <3>1, <3>2, <3>3 DEF IInv, TypeOK
    <3>6. UNCHANGED <<tags, meta, call, struck>>
      BY <1>6, <2>2 DEF PutAddr
    <3> QED
      BY <3>2, <3>4, <3>5, <3>6, CompleteKept
  <2> QED
    BY <2>1, <2>2
<1>7. ASSUME NEW b \in Beat, WakeUp(b) PROVE CompleteInv'
  <2>1. beat[b] \in Beats
    BY DEF IInv, TypeOK
  <2>2. [beat[b] EXCEPT !.pc = "open"].id = beat[b].id
    BY <2>1 DEF Beats
  <2> QED
    BY <1>7, <2>2, CompleteKept DEF WakeUp, IInv, TypeOK
<1>8. ASSUME NEW n \in Node, NEW id \in Id, NEW named \in BOOLEAN,
             Deregister(n, id, named)
      PROVE  CompleteInv'
  <2>1. /\ tags' = tags \ Taken(id, named) /\ meta' = meta \ Taken(id, named)
        /\ struck' = struck \cup Taken(id, named)
        /\ UNCHANGED <<call, beat>>
    BY <1>8 DEF Deregister
  <2>2. \A i : Complete(i) => Complete(i)'
    BY <2>1 DEF Complete
  <2>3. \A i \in Id : addr'[i] > 0 => addr[i] > 0
    BY <1>8 DEF Deregister
  <2>4. ListedIsComplete'
    BY <2>2, <2>3 DEF CompleteInv, ListedIsComplete, Complete
  <2>5. \A b \in Beat : beat'[b].pc # "none" => Complete(beat[b].id)'
    BY <2>1, <2>2 DEF CompleteInv
  <2>6. \A m \in Node : call'[m].pc = "meta" => call'[m].id \in tags' \cup struck'
    BY <2>1 DEF CompleteInv
  <2> QED
    BY <2>4, <2>5, <2>6 DEF CompleteInv, Complete
<1>9. ASSUME NEW n \in Node, Close(n) \/ CloseDone(n) PROVE CompleteInv'
  BY <1>9, CompleteKept DEF Close, CloseDone
<1>10. ASSUME NEW n \in Node, Crash(n) PROVE CompleteInv'
  BY <1>0, <1>10 DEF Crash
<1>11. ASSUME NEW n \in Node, Restart(n) PROVE CompleteInv'
  BY <1>11, CompleteKept DEF Restart
<1>12. CASE Tick
  <2>1. \A b \in Beat : beat'[b].pc = beat[b].pc /\ beat'[b].id = beat[b].id
    BY <1>12, TickMoves
  <2>2. \A i \in Id : addr'[i] > 0 => addr[i] > 0
    <3> TAKE i \in Id
    <3>1. addr[i] \in Nat /\ addr'[i] = Less(addr[i])
      BY <1>12, TickMoves
    <3> QED
      BY <3>1 DEF Less
  <2>3. UNCHANGED <<tags, meta, call, struck>>
    BY <1>12 DEF Tick
  <2> QED
    BY <2>1, <2>2, <2>3, CompleteKept
<1>13. CASE UNCHANGED vars
  BY <1>13, CompleteKept DEF vars
<1> QED
  BY <1>1, <1>2, <1>3, <1>4, <1>5, <1>6, <1>7, <1>8, <1>9, <1>10, <1>11, <1>12,
     <1>13 DEF Next, Proceed

(* An instance is never listed without its tags and its meta data, unless  *)
(* a Deregister has struck its id since it was last complete.              *)
THEOREM ListingIsComplete == Spec => []ListedIsComplete
<1>1. Init => CompleteInv
  BY NoBeatType, IdleType DEF Init, CompleteInv, ListedIsComplete
<1>2. IInv /\ CompleteInv /\ [Next]_vars => (IInv /\ CompleteInv)'
  BY StepInv, CompleteStep
<1>3. CompleteInv => ListedIsComplete
  BY DEF CompleteInv
<1> QED
  BY InitInv, <1>1, <1>2, <1>3, PTL DEF Spec

-----------------------------------------------------------------------------
(* What makes AliveIsListed inductive: no sleep is longer than the TTL,    *)
(* and a goroutine in its loop wakes up before the lease it counts on has  *)
(* run out, with a second to spare for the requests it makes then.         *)
SleepInv == \A b \in Beat : beat[b].sleep <= TTL

Looks(r) == r.pc # "none" /\ ~r.first

HeardInv ==
  \A b \in Beat :
    Looks(beat[b]) /\ beat[b].id \notin disturbed => addr[beat[b].id] > beat[b].sleep

AliveInv == SleepInv /\ HeardInv

(* The retry of a failed heartbeat does not sleep longer than a heartbeat. *)
LEMMA RetryWithinTTL == TTL \in Nat /\ TTL >= 1 /\ Retry \in Nat /\ Retry <= TTL /\ Lease = TTL + 1
<1>1. TTL \in Nat /\ TTL >= 1
  BY RegistryAssumption DEF RegistryAssumption
<1>2. (TTL + 2) \div 3 \in Nat /\ (TTL + 2) \div 3 <= TTL
  BY <1>1
<1> QED
  BY <1>1, <1>2 DEF Retry, Lease

(* A step that starts no loop, lengthens no sleep, takes no listing away   *)
(* and forgets no disturbance keeps it.                                    *)
LEMMA AliveKept ==
  ASSUME IInv, AliveInv, addr' = addr, disturbed' = disturbed,
         \A b \in Beat :
           \/ beat'[b] = NoBeat
           \/ /\ beat'[b].id = beat[b].id /\ beat'[b].sleep = beat[b].sleep
              /\ Looks(beat'[b]) => Looks(beat[b])
           \/ beat'[b].first /\ beat'[b].sleep = 0
  PROVE  AliveInv'
<1>1. NoBeat.sleep = 0 /\ ~Looks(NoBeat) /\ TTL >= 0
  BY RetryWithinTTL DEF NoBeat, Looks
<1>2. SleepInv'
  BY <1>1 DEF AliveInv, SleepInv
<1>3. HeardInv'
  <2> SUFFICES ASSUME NEW b \in Beat, Looks(beat'[b]), beat'[b].id \notin disturbed'
               PROVE  addr'[beat'[b].id] > beat'[b].sleep
    BY DEF HeardInv
  <2>1. beat'[b] # NoBeat /\ ~beat'[b].first
    BY <1>1 DEF Looks
  <2>2. beat'[b].id = beat[b].id /\ beat'[b].sleep = beat[b].sleep /\ Looks(beat[b])
    BY <2>1
  <2> QED
    BY <2>2 DEF AliveInv, HeardInv
<1> QED
  BY <1>2, <1>3 DEF AliveInv

LEMMA AlivePutAddr ==
  ASSUME IInv, AliveInv, NEW b \in Beat, PutAddr(b), status[beat[b].node] # "closed"
  PROVE  AliveInv'
<1> DEFINE r == beat[b]
<1>1. PICK answer :
        /\ addr' = IF answer = "fail" THEN addr ELSE [addr EXCEPT ![r.id] = r.lease]
        /\ disturbed' = IF answer # "fail" /\ r.lease = Lease
                        THEN disturbed \ {r.id} ELSE disturbed \cup {r.id}
        /\ beat' = [beat EXCEPT ![b] = AfterPut(r, answer)]
        /\ r.pc = "put"
  BY DEF PutAddr
<1> DEFINE q == AfterPut(r, answer)
<1>2. r \in Beats /\ r.id # None /\ r.id \in Id
  BY <1>1, RegistryAssumption DEF IInv, TypeOK, Assigned, Beats, RegistryAssumption
<1>3. q.sleep \in Nat /\ q.sleep <= TTL
  BY RetryWithinTTL DEF AfterPut, Looping, NoBeat
<1>4. Looks(q) => q.id = r.id
  BY DEF AfterPut, Looping, NoBeat, Looks
<1> HIDE DEF q
<1>5. \A c \in Beat : beat'[c] = IF c = b THEN q ELSE beat[c]
  BY <1>1 DEF IInv, TypeOK, q
<1>6. SleepInv'
  BY <1>3, <1>5 DEF AliveInv, SleepInv
<1>7. HeardInv'
  <2> SUFFICES ASSUME NEW c \in Beat, Looks(beat'[c]), beat'[c].id \notin disturbed'
               PROVE  addr'[beat'[c].id] > beat'[c].sleep
    BY DEF HeardInv
  <2>1. beat'[c].sleep <= TTL /\ beat'[c].sleep \in Nat
    BY <1>3, <1>5 DEF AliveInv, SleepInv, IInv, TypeOK, Beats
  <2>2. CASE beat'[c].id = r.id
    <3>0. r.id \notin disturbed'
      BY <2>2
    <3>1. answer # "fail" /\ r.lease = Lease
      BY <1>1, <3>0
    <3>2. addr'[beat'[c].id] = Lease
      BY <1>1, <1>2, <2>2, <3>1 DEF IInv, TypeOK
    <3> QED
      BY <2>1, <3>2, RetryWithinTTL
  <2>3. CASE beat'[c].id # r.id
    <3>1. c # b /\ beat'[c] = beat[c]
      BY <1>4, <1>5, <2>3
    <3>2. beat[c].id \notin disturbed
      BY <1>1, <2>3, <3>1
    <3>3. addr'[beat[c].id] = addr[beat[c].id]
      BY <1>1, <1>2, <2>3, <3>1 DEF IInv, TypeOK
    <3> QED
      BY <3>1, <3>2, <3>3 DEF AliveInv, HeardInv
  <2> QED
    BY <2>2, <2>3
<1> QED
  BY <1>6, <1>7 DEF AliveInv

LEMMA AliveTick ==
  ASSUME IInv, AliveInv, Tick
  PROVE  AliveInv'
<1>1. \A x \in Nat : Less(x) \in Nat /\ Less(x) <= x /\ (x > 0 => Less(x) = x - 1)
  BY DEF Less
<1>2. \A b \in Beat : /\ beat[b] \in Beats /\ beat[b].sleep \in Nat
                      /\ beat'[b].sleep = Less(beat[b].sleep)
                      /\ beat'[b].first = beat[b].first
  BY DEF Tick, IInv, TypeOK, Beats
<1>3. disturbed' = disturbed \cup Overdue
  BY DEF Tick
<1>4. SleepInv'
  BY <1>1, <1>2, RetryWithinTTL DEF AliveInv, SleepInv
<1>5. HeardInv'
  <2> SUFFICES ASSUME NEW b \in Beat, Looks(beat'[b]), beat'[b].id \notin disturbed'
               PROVE  addr'[beat'[b].id] > beat'[b].sleep
    BY DEF HeardInv
  <2>1. beat'[b].id = beat[b].id /\ beat'[b].pc = beat[b].pc
    BY TickMoves
  <2>2. Looks(beat[b])
    BY <1>2, <2>1 DEF Looks
  <2>3. beat[b].id \notin disturbed /\ ~Runnable(b)
    BY <1>3, <2>1 DEF Overdue
  <2>4. beat[b].sleep > 0
    BY <1>2, <2>2, <2>3 DEF Runnable, Looks
  <2>5. addr[beat[b].id] > beat[b].sleep
    BY <2>2, <2>3 DEF AliveInv, HeardInv
  <2>6. beat[b].id \in Id
    BY <2>2 DEF IInv, TypeOK, Assigned, Looks, Beats
  <2>7. addr[beat[b].id] \in Nat /\ addr'[beat[b].id] = Less(addr[beat[b].id])
    BY <2>6, TickMoves
  <2> QED
    BY <1>1, <1>2, <2>1, <2>4, <2>5, <2>7
<1> QED
  BY <1>4, <1>5 DEF AliveInv

LEMMA AliveStep == IInv /\ AliveInv /\ [Next]_vars => AliveInv'
<1> SUFFICES ASSUME IInv, AliveInv, [Next]_vars PROVE AliveInv'
  OBVIOUS
<1>0. ASSUME NEW n, Die(n) PROVE AliveInv'
  BY <1>0, AliveKept DEF Die, IInv, TypeOK
<1>1. ASSUME NEW n \in Node, NEW id \in Id, Register(n, id) PROVE AliveInv'
  BY <1>1, AliveKept DEF Register
<1>2. ASSUME NEW n \in Node, PutTags(n) PROVE AliveInv'
  BY <1>2, AliveKept DEF PutTags
<1>3. ASSUME NEW n \in Node, PutMeta(n) PROVE AliveInv'
  <2>1. UNCHANGED <<addr, disturbed>>
    BY <1>3 DEF PutMeta
  <2>2. CASE beat' = beat
    BY <2>1, <2>2, AliveKept
  <2>3. CASE beat' # beat
    <3> DEFINE r == [NoBeat EXCEPT !.pc = "grant", !.node = n,
                                   !.id = call[n].id, !.first = TRUE]
    <3>1. r.first /\ r.sleep = 0
      BY DEF NoBeat
    <3>2. PICK b \in Beat : beat' = [beat EXCEPT ![b] = r]
      BY <1>3, <2>3 DEF PutMeta
    <3> HIDE DEF r
    <3>3. \A c \in Beat : beat'[c] = IF c = b THEN r ELSE beat[c]
      BY <3>2 DEF IInv, TypeOK
    <3> QED
      BY <2>1, <3>1, <3>3, AliveKept
  <2> QED
    BY <2>2, <2>3
<1>4. ASSUME NEW b \in Beat, NEW pc \in {"open", "grant", "put"}, NEW lease,
             beat[b].pc # "none", beat' = [beat EXCEPT ![b] = [beat[b] EXCEPT !.pc = pc, !.lease = lease]],
             UNCHANGED <<addr, disturbed>>
      PROVE  AliveInv'
  <2> DEFINE r == [beat[b] EXCEPT !.pc = pc, !.lease = lease]
  <2>1. beat[b] \in Beats
    BY DEF IInv, TypeOK
  <2>2. r.id = beat[b].id /\ r.sleep = beat[b].sleep /\ r.first = beat[b].first
    BY <2>1 DEF Beats
  <2> HIDE DEF r
  <2>3. \A c \in Beat : beat'[c] = IF c = b THEN r ELSE beat[c]
    BY <1>4 DEF IInv, TypeOK, r
  <2> QED
    BY <1>4, <2>2, <2>3, AliveKept DEF Looks
<1>5. ASSUME NEW b \in Beat, CheckOpen(b) PROVE AliveInv'
  <2>1. beat[b] \in Beats /\ UNCHANGED <<addr, disturbed>>
    BY <1>5 DEF CheckOpen, IInv, TypeOK
  <2>2. CASE status[beat[b].node] = "closed"
    BY <1>5, <2>1, <2>2, AliveKept DEF CheckOpen, IInv, TypeOK
  <2>3. CASE status[beat[b].node] # "closed"
    <3>1. beat' = [beat EXCEPT ![b] = [beat[b] EXCEPT !.pc = "grant"]]
      BY <1>5, <2>3 DEF CheckOpen
    <3>2. [beat[b] EXCEPT !.pc = "grant"]
             = [beat[b] EXCEPT !.pc = "grant", !.lease = beat[b].lease]
      BY <2>1 DEF Beats
    <3>3. beat' = [beat EXCEPT ![b] =
                     [beat[b] EXCEPT !.pc = "grant", !.lease = beat[b].lease]]
      BY <3>1, <3>2
    <3>4. beat[b].pc # "none"
      BY <1>5 DEF CheckOpen
    <3> QED
      BY <1>4, <2>1, <3>3, <3>4
  <2> QED
    BY <2>2, <2>3
<1>6. ASSUME NEW b \in Beat, Grant(b) PROVE AliveInv'
  <2>1. CASE Die(beat[b].node)
    BY <1>0, <2>1
  <2>2. CASE ~Die(beat[b].node)
    <3>1. beat' = [beat EXCEPT ![b] = [beat[b] EXCEPT !.pc = "put", !.lease = Lease]]
      BY <1>6, <2>2 DEF Grant
    <3> QED
      BY <1>4, <1>6, <2>2, <3>1 DEF Grant
  <2> QED
    BY <2>1, <2>2
<1>7. ASSUME NEW b \in Beat, PutAddr(b) PROVE AliveInv'
  <2>1. CASE status[beat[b].node] = "closed"
    BY <1>0, <1>7, <2>1 DEF PutAddr
  <2> QED
    BY <1>7, <2>1, AlivePutAddr
<1>8. ASSUME NEW b \in Beat, WakeUp(b) PROVE AliveInv'
  <2>1. beat[b] \in Beats
    BY DEF IInv, TypeOK
  <2>2. beat' = [beat EXCEPT ![b] = [beat[b] EXCEPT !.pc = "open"]]
    BY <1>8 DEF WakeUp
  <2>3. [beat[b] EXCEPT !.pc = "open"] = [beat[b] EXCEPT !.pc = "open", !.lease = beat[b].lease]
    BY <2>1 DEF Beats
  <2>4. beat' = [beat EXCEPT ![b] = [beat[b] EXCEPT !.pc = "open", !.lease = beat[b].lease]]
    BY <2>2, <2>3
  <2>5. beat[b].pc # "none" /\ UNCHANGED <<addr, disturbed>>
    BY <1>8 DEF WakeUp
  <2> QED
    BY <1>4, <2>4, <2>5
<1>9. ASSUME NEW n \in Node, NEW id \in Id, NEW named \in BOOLEAN,
             Deregister(n, id, named)
      PROVE  AliveInv'
  <2>1. beat' = beat /\ disturbed' = disturbed \cup Taken(id, named)
    BY <1>9 DEF Deregister
  <2>2. \A i \in Id \ Taken(id, named) : addr'[i] = addr[i]
    BY <1>9 DEF Deregister
  <2>3. \A b \in Beat : Looks(beat[b]) => beat[b].id \in Id
    BY DEF IInv, TypeOK, Assigned, Beats, Looks
  <2> QED
    BY <2>1, <2>2, <2>3 DEF AliveInv, SleepInv, HeardInv
<1>10. ASSUME NEW n \in Node, Close(n) \/ CloseDone(n) PROVE AliveInv'
  BY <1>10, AliveKept DEF Close, CloseDone
<1>11. ASSUME NEW n \in Node, Crash(n) PROVE AliveInv'
  BY <1>0, <1>11 DEF Crash
<1>12. ASSUME NEW n \in Node, Restart(n) PROVE AliveInv'
  BY <1>12, AliveKept DEF Restart
<1>13. CASE Tick
  BY <1>13, AliveTick
<1>14. CASE UNCHANGED vars
  BY <1>14, AliveKept DEF vars
<1> QED
  BY <1>1, <1>2, <1>3, <1>5, <1>6, <1>7, <1>8, <1>9, <1>10, <1>11, <1>12, <1>13,
     <1>14 DEF Next, Proceed

(* For every TTL, any number of processes, ids and goroutines and every    *)
(* combination of faults: an instance whose heartbeat loop runs is listed  *)
(* from one full lease to the next, unless a heartbeat was refused or late *)
(* or a Deregister struck it.  No interleaving of the goroutines, crash of *)
(* another process, restart or lost answer can open a gap.                 *)
THEOREM AliveStaysListed == Spec => []AliveIsListed
<1>1. Init => AliveInv
  BY RetryWithinTTL DEF Init, AliveInv, SleepInv, HeardInv, Looks, NoBeat
<1>2. IInv /\ AliveInv => AliveIsListed
  <2> SUFFICES ASSUME IInv, AliveInv, NEW b \in Beat, Looks(beat[b]),
                      beat[b].id \notin disturbed
               PROVE  addr[beat[b].id] > 0
    BY DEF AliveIsListed, Looks
  <2>1. beat[b] \in Beats /\ beat[b].sleep \in Nat /\ beat[b].id \in Id
    BY DEF IInv, TypeOK, Assigned, Beats, Looks
  <2>2. addr[beat[b].id] \in Nat
    BY <2>1, LeaseNat DEF IInv, TypeOK
  <2>3. addr[beat[b].id] > beat[b].sleep
    BY DEF AliveInv, HeardInv
  <2> QED
    BY <2>1, <2>2, <2>3
<1>3. IInv /\ AliveInv /\ [Next]_vars => (IInv /\ AliveInv)'
  BY StepInv, AliveStep
<1> QED
  BY InitInv, <1>1, <1>2, <1>3, PTL DEF Spec

-----------------------------------------------------------------------------
(* The refinement.                                                         *)

Serves == [b \in Beat |-> beat[b].id]
Word == [b \in Beat |-> beat[b].lease]

(* The goroutines of S end. *)
LEMMA EndLeaves ==
  ASSUME NEW S \in SUBSET Beat, UNCHANGED <<addr, struck>>,
         beat' = [b \in Beat |-> IF b \in S THEN NoBeat ELSE beat[b]]
  PROVE  Registry!Next
<1>1. NoBeat.id = None /\ NoBeat.lease = 0
  BY DEF NoBeat
<1>2. Serves' = [b \in Beat |-> IF b \in S THEN None ELSE Serves[b]]
  BY <1>1 DEF Serves
<1>3. Word' = [b \in Beat |-> IF b \in S THEN 0 ELSE Word[b]]
  BY <1>1 DEF Word
<1>4. Registry!Leave(S)
  BY <1>2, <1>3 DEF Registry!Leave, Serves, Word
<1> QED
  BY <1>4 DEF Registry!Next

LEMMA DieLeaves == ASSUME NEW n, Die(n) PROVE Registry!Next
<1>1. BeatsOf(n) \in SUBSET Beat
  BY DEF BeatsOf
<1> QED
  BY <1>1, EndLeaves DEF Die

(* One goroutine moves on. *)
LEMMA OneMoves ==
  ASSUME IInv, NEW b \in Beat, NEW r, beat' = [beat EXCEPT ![b] = r]
  PROVE  /\ Serves' = [Serves EXCEPT ![b] = r.id]
         /\ Word' = [Word EXCEPT ![b] = r.lease]
<1>1. beat' = [c \in Beat |-> IF c = b THEN r ELSE beat[c]]
  BY DEF IInv, TypeOK
<1> QED
  BY <1>1 DEF Serves, Word

(* One goroutine moves on and keeps its id. *)
LEMMA OneKeepsId ==
  ASSUME IInv, NEW b \in Beat, NEW r, beat' = [beat EXCEPT ![b] = r], r.id = beat[b].id
  PROVE  Serves' = Serves /\ Word' = [Word EXCEPT ![b] = r.lease]
<1>1. beat' = [c \in Beat |-> IF c = b THEN r ELSE beat[c]]
  BY DEF IInv, TypeOK
<1>2. \A c \in Beat : beat'[c].id = beat[c].id
  BY <1>1
<1>3. Serves' = Serves
  BY <1>2 DEF Serves
<1> QED
  BY <1>3, OneMoves

LEMMA OneEnds ==
  ASSUME IInv, NEW b \in Beat, beat' = [beat EXCEPT ![b] = NoBeat],
         UNCHANGED <<addr, struck>>
  PROVE  Registry!Next
<1>1. beat' = [c \in Beat |-> IF c \in {b} THEN NoBeat ELSE beat[c]]
  BY DEF IInv, TypeOK
<1> QED
  BY <1>1, EndLeaves

(* Neither id nor lease of any goroutine changes. *)
LEMMA OneStays ==
  ASSUME IInv, NEW b \in Beat, NEW r, beat' = [beat EXCEPT ![b] = r],
         r.id = beat[b].id, r.lease = beat[b].lease, UNCHANGED <<addr, struck>>
  PROVE  UNCHANGED Registry!vars
<1>1. Serves' = Serves /\ Word' = Word
  BY OneMoves DEF Serves, Word
<1> QED
  BY <1>1 DEF Registry!vars, Serves, Word

LEMMA CheckOpenMaps ==
  ASSUME IInv, NEW b \in Beat, CheckOpen(b)
  PROVE  Registry!Next \/ UNCHANGED Registry!vars
<1>1. beat[b] \in Beats /\ UNCHANGED <<addr, struck>>
  BY DEF CheckOpen, IInv, TypeOK
<1>2. CASE beat' = [beat EXCEPT ![b] = NoBeat]
  BY <1>1, <1>2, OneEnds
<1>3. CASE beat' = [beat EXCEPT ![b] = [beat[b] EXCEPT !.pc = "grant"]]
  <2> DEFINE r == [beat[b] EXCEPT !.pc = "grant"]
  <2>1. r.id = beat[b].id /\ r.lease = beat[b].lease
    BY <1>1 DEF Beats
  <2>2. beat' = [beat EXCEPT ![b] = r]
    BY <1>3
  <2> HIDE DEF r
  <2> QED
    BY <1>1, <2>1, <2>2, OneStays
<1> QED
  BY <1>2, <1>3 DEF CheckOpen

LEMMA WakeUpMaps ==
  ASSUME IInv, NEW b \in Beat, WakeUp(b)
  PROVE  UNCHANGED Registry!vars
<1> DEFINE r == [beat[b] EXCEPT !.pc = "open"]
<1>1. beat[b] \in Beats /\ UNCHANGED <<addr, struck>>
  BY DEF WakeUp, IInv, TypeOK
<1>2. r.id = beat[b].id /\ r.lease = beat[b].lease
  BY <1>1 DEF Beats
<1>3. beat' = [beat EXCEPT ![b] = r]
  BY DEF WakeUp
<1> HIDE DEF r
<1> QED
  BY <1>1, <1>2, <1>3, OneStays

(* A Grant is the word of the goroutine. *)
LEMMA GrantMaps == ASSUME IInv, NEW b \in Beat, Grant(b) PROVE Registry!Next
<1>1. CASE Die(beat[b].node)
  BY <1>1, DieLeaves
<1>2. CASE ~Die(beat[b].node)
  <2> DEFINE r == [beat[b] EXCEPT !.pc = "put", !.lease = Lease]
  <2>1. beat[b] \in Beats
    BY DEF IInv, TypeOK
  <2>2. r.id = beat[b].id /\ r.lease = Lease
    BY <2>1 DEF Beats
  <2>3. beat' = [beat EXCEPT ![b] = r] /\ UNCHANGED <<addr, struck>>
    BY <1>2 DEF Grant
  <2>4. beat[b].id # None
    BY DEF IInv, Assigned, Grant
  <2> HIDE DEF r
  <2>5. Serves' = Serves /\ Word' = [Word EXCEPT ![b] = Lease]
    BY <2>2, <2>3, OneKeepsId
  <2>6. Registry!Promise(b)
    BY <2>3, <2>4, <2>5 DEF Registry!Promise, Serves, Word
  <2> QED
    BY <2>6 DEF Registry!Next
<1> QED
  BY <1>1, <1>2

(* The put of an address takes the word of a goroutine that serves it.     *)
LEMMA PutAddrMaps == ASSUME IInv, NEW b \in Beat, PutAddr(b) PROVE Registry!Next
<1> DEFINE r == beat[b]
<1>1. r \in Beats /\ r.lease \in Nat
  <2>1. r \in Beats
    BY DEF IInv, TypeOK
  <2>2. r.lease \in 0 .. Lease
    BY <2>1 DEF Beats
  <2> QED
    BY <2>1, <2>2, LeaseNat
<1>2. CASE status[r.node] = "closed"
  BY <1>2, DieLeaves DEF PutAddr
<1>3. CASE status[r.node] # "closed"
  <2>1. PICK answer \in IF r.lease = 0 THEN {"fail"} ELSE Answers(r.node) :
          /\ addr' = IF answer = "fail" THEN addr ELSE [addr EXCEPT ![r.id] = r.lease]
          /\ beat' = [beat EXCEPT ![b] = AfterPut(r, answer)]
    BY <1>3 DEF PutAddr
  <2>2. UNCHANGED struck
    BY <1>3 DEF PutAddr
  <2>3. PICK q : q = AfterPut(r, answer)
    OBVIOUS
  <2>4. q.lease = 0 /\ (q = NoBeat \/ q.id = r.id)
    BY <2>3 DEF AfterPut, Looping, NoBeat
  <2>5. beat' = [beat EXCEPT ![b] = q]
    BY <2>1, <2>3
  <2>6. CASE answer = "fail"
    <3>1. addr' = addr
      BY <2>1, <2>6
    <3>2. CASE q = NoBeat
      BY <2>2, <2>5, <3>1, <3>2, OneEnds
    <3>3. CASE q.id = r.id
      <4>1. Serves' = Serves /\ Word' = [Word EXCEPT ![b] = 0]
        BY <2>4, <2>5, <3>3, OneKeepsId
      <4>2. Registry!Withdraw(b)
        BY <2>2, <3>1, <4>1 DEF Registry!Withdraw, Serves, Word
      <4> QED
        BY <4>2 DEF Registry!Next
    <3> QED
      BY <2>4, <3>2, <3>3
  <2>7. CASE answer # "fail"
    <3>1. Serves[b] = r.id /\ Word[b] = r.lease
      BY DEF Serves, Word
    <3>2. Word[b] > 0 /\ addr' = [addr EXCEPT ![Serves[b]] = Word[b]]
      <4>1. r.lease # 0
        BY <2>1, <2>7
      <4>2. r.lease > 0
        BY <1>1, <4>1
      <4> QED
        BY <2>1, <2>7, <3>1, <4>2
    <3>3. /\ Serves' \in {Serves, [Serves EXCEPT ![b] = None]}
          /\ Word' = [Word EXCEPT ![b] = 0]
      <4>1. NoBeat.id = None
        BY DEF NoBeat
      <4>2. Serves' = [Serves EXCEPT ![b] = q.id] /\ Word' = [Word EXCEPT ![b] = 0]
        BY <2>4, <2>5, OneMoves
      <4>3. [Serves EXCEPT ![b] = r.id] = Serves
        BY DEF Serves
      <4> QED
        BY <2>4, <4>1, <4>2, <4>3
    <3>4. Registry!Renew(b)
      BY <2>2, <3>2, <3>3 DEF Registry!Renew, Serves, Word
    <3> QED
      BY <3>4 DEF Registry!Next
  <2> QED
    BY <2>6, <2>7
<1> QED
  BY <1>2, <1>3

LEMMA PutMetaMaps ==
  ASSUME IInv, NEW n \in Node, PutMeta(n)
  PROVE  Registry!Next \/ UNCHANGED Registry!vars
<1>1. PICK id \in Id : id = call[n].id /\ UNCHANGED addr
  BY DEF IInv, Assigned, PutMeta
<1>2. CASE UNCHANGED <<beat, struck>>
  BY <1>1, <1>2 DEF Registry!vars
<1>3. CASE ~UNCHANGED <<beat, struck>>
  <2>1. PICK b \in Beat :
          /\ beat[b] = NoBeat
          /\ beat' = [beat EXCEPT ![b] =
               [NoBeat EXCEPT !.pc = "grant", !.node = n,
                              !.id = id, !.first = TRUE]]
    BY <1>1, <1>3 DEF PutMeta
  <2>2. struck' \in {struck, struck \ {id}}
    BY <1>1, <1>3 DEF PutMeta
  <2>3. PICK r : r = [NoBeat EXCEPT !.pc = "grant", !.node = n,
                                   !.id = id, !.first = TRUE]
    OBVIOUS
  <2>9. r.id = id /\ r.lease = 0
    BY <2>3 DEF NoBeat
  <2>4. beat' = [beat EXCEPT ![b] = r]
    BY <2>1, <2>3
  <2>5. Serves[b] = None /\ Word[b] = 0
    BY <2>1 DEF Serves, Word, NoBeat
  <2>6. Serves' = [Serves EXCEPT ![b] = id] /\ Word' = Word
    <3>1. Serves' = [Serves EXCEPT ![b] = id] /\ Word' = [Word EXCEPT ![b] = Word[b]]
      <4>1. r.lease = Word[b]
        BY <2>5, <2>9
      <4>2. /\ Serves' = [Serves EXCEPT ![b] = r.id]
            /\ Word' = [Word EXCEPT ![b] = r.lease]
        BY <2>4, OneMoves
      <4> QED
        BY <2>9, <4>1, <4>2
    <3>2. [Word EXCEPT ![b] = Word[b]] = Word
      BY DEF Word
    <3> QED
      BY <3>1, <3>2
  <2>7. Registry!Join(b, id)
    BY <1>1, <2>2, <2>5, <2>6 DEF Registry!Join, Serves, Word
  <2>8. b \in Beat /\ id \in Id
    OBVIOUS
  <2> QED
    BY <2>7, <2>8 DEF Registry!Next
<1> QED
  BY <1>2, <1>3

(* A second passes for the words given and for what is listed. *)
LEMMA TickMaps == ASSUME IInv, Tick PROVE Registry!Next
<1>1. beat \in [Beat -> Beats]
  BY DEF IInv, TypeOK
<1>2. beat' = [b \in Beat |-> [beat[b] EXCEPT !.sleep = Less(@), !.lease = Less(@)]]
      /\ addr' = [i \in Id |-> Less(addr[i])] /\ UNCHANGED struck
  BY DEF Tick
<1>3. ASSUME NEW b \in Beat
      PROVE  beat'[b].id = beat[b].id /\ beat'[b].lease = Less(beat[b].lease)
  BY <1>1, <1>2 DEF Beats
<1>4. Serves' = Serves /\ Word' = [b \in Beat |-> Less(Word[b])]
  BY <1>3 DEF Serves, Word
<1>5. \A x : Registry!Less(x) = Less(x)
  BY DEF Registry!Less, Less
<1>6. Registry!Pass
  BY <1>2, <1>4, <1>5 DEF Registry!Pass, Serves, Word
<1> QED
  BY <1>6 DEF Registry!Next

(* Every step of EtcdRegistry is a step of Membership, or none.            *)
LEMMA StepLists == IInv /\ [Next]_vars => [Registry!Next]_(Registry!vars)
<1> SUFFICES ASSUME IInv, [Next]_vars PROVE Registry!Next
                                            \/ UNCHANGED Registry!vars
  OBVIOUS
<1>1. ASSUME UNCHANGED <<addr, beat, struck>> PROVE UNCHANGED Registry!vars
  BY <1>1 DEF Registry!vars
<1>2. ASSUME NEW n \in Node,
             \/ \E id \in Id : Register(n, id)
             \/ PutTags(n) \/ Close(n) \/ CloseDone(n)
      PROVE  UNCHANGED Registry!vars
  BY <1>1, <1>2 DEF Register, PutTags, Close, CloseDone
<1>3. ASSUME NEW n \in Node, PutMeta(n) PROVE Registry!Next \/ UNCHANGED Registry!vars
  BY <1>3, PutMetaMaps
<1>4. ASSUME NEW b \in Beat, Proceed(b) PROVE Registry!Next \/ UNCHANGED Registry!vars
  BY <1>4, CheckOpenMaps, GrantMaps, PutAddrMaps, WakeUpMaps DEF Proceed
<1>5. ASSUME NEW n \in Node, NEW id \in Id, NEW named \in BOOLEAN,
             Deregister(n, id, named)
      PROVE  Registry!Next
  <2>1. Taken(id, named) \in SUBSET Id
    BY DEF Taken
  <2>2. Registry!Strike(Taken(id, named))
    BY <1>5 DEF Deregister, Registry!Strike
  <2> QED
    BY <2>1, <2>2 DEF Registry!Next
<1>6. ASSUME NEW n \in Node, Crash(n) PROVE Registry!Next
  BY <1>6, DieLeaves DEF Crash
<1>7. ASSUME NEW n \in Node, Restart(n) PROVE Registry!Next
  <2>1. BeatsOf(n) \in SUBSET Beat
    BY DEF BeatsOf
  <2> QED
    BY <1>7, <2>1, EndLeaves DEF Restart
<1>8. CASE Tick
  BY <1>8, TickMaps
<1>9. CASE UNCHANGED vars
  BY <1>1, <1>9 DEF vars
<1> QED
  BY <1>2, <1>3, <1>4, <1>5, <1>6, <1>7, <1>8, <1>9 DEF Next

(* For its readers the registry is one on leases, whatever the requests,   *)
(* goroutines and processes behind it do and suffer: an address is listed  *)
(* by the word of one who serves it, for what is left of the lease it was  *)
(* granted, and goes only with its time or struck by a Deregister.         *)
THEOREM RegistryImplementsMembership == Spec => ListsItsMembers
<1>1. Init => Registry!Init
  <2> SUFFICES ASSUME Init PROVE Registry!Init
    OBVIOUS
  <2>1. \A b \in Beat : beat[b] = NoBeat
    BY DEF Init
  <2>2. NoBeat.id = None /\ NoBeat.lease = 0
    BY DEF NoBeat
  <2> QED
    BY <2>1, <2>2 DEF Init, Registry!Init
<1> QED
  BY InitInv, StepInv, <1>1, StepLists, PTL DEF Spec, ListsItsMembers, Registry!Spec
=============================================================================
