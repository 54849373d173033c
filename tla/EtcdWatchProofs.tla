--------------------------- MODULE EtcdWatchProofs ---------------------------
(***************************************************************************)
(* Theorems about EtcdWatch, for any number of watches on any keys, any    *)
(* number of writes and every grouping of the events in responses: the     *)
(* type invariant, and that each watch implements Feed.                    *)
(***************************************************************************)
EXTENDS EtcdWatch, TLAPS

(* The goroutine stands where its last call was made, or where it began.   *)
InStep ==
  \A w \in Watch :
    /\ run[w] = "none" => told[w] = << >>
    /\ pos[w] = IF told[w] = << >> THEN from[w] ELSE told[w][Len(told[w])]

IInv == TypeOK /\ InStep

LEMMA InitInv == Init => IInv
  BY WatchAssumption DEF WatchAssumption, Init, IInv, TypeOK, InStep

(* What a call does to its watch: the next event is told.                  *)
LEMMA CallTells ==
  ASSUME IInv, NEW w \in Watch, Call(w)
  PROVE  \E r \in Events(w, pos[w] + 1 .. got[w]) :
           /\ \A q \in Events(w, pos[w] + 1 .. got[w]) : r <= q
           /\ r \in 1 .. Len(log) /\ pos[w] < r /\ r <= got[w] /\ log[r] \in Wants[w]
           /\ told' = [told EXCEPT ![w] = Append(told[w], r)]
           /\ pos' = [pos EXCEPT ![w] = r]
<1>1. PICK r \in Events(w, pos[w] + 1 .. got[w]) :
        /\ \A q \in Events(w, pos[w] + 1 .. got[w]) : r <= q
        /\ told' = [told EXCEPT ![w] = Append(told[w], r)]
        /\ pos' = [pos EXCEPT ![w] = r]
  BY DEF Call
<1>2. pos[w] \in Nat /\ got[w] \in Nat /\ Len(log) \in Nat
  BY DEF IInv, TypeOK
<1>3. /\ r \in pos[w] + 1 .. got[w] /\ r \in 1 .. Len(log) /\ log[r] \in Wants[w]
  BY <1>1 DEF Events, Revisions
<1>4. pos[w] < r /\ r <= got[w]
  BY <1>2, <1>3
<1> QED
  BY <1>1, <1>3, <1>4

LEMMA StepInv == IInv /\ [Next]_vars => IInv'
<1> SUFFICES ASSUME IInv, [Next]_vars PROVE IInv'
  OBVIOUS
<1>1. ASSUME NEW k \in Key, Write(k) PROVE IInv'
  <2>1. log' = Append(log, k) /\ log \in Seq(Key) /\ UNCHANGED <<client, watches>>
    BY <1>1 DEF Write, IInv, TypeOK
  <2>2. log' \in Seq(Key) /\ Len(log') = Len(log) + 1 /\ Len(log) \in Nat
    BY <2>1
  <2>3. \A w \in Watch : got[w] \in Nat /\ got[w] <= Len(log')
    BY <2>2 DEF IInv, TypeOK
  <2> QED
    BY <2>1, <2>2, <2>3 DEF IInv, TypeOK, InStep, watches
<1>2. ASSUME NEW w \in Watch, Start(w) PROVE IInv'
  <2>1. Len(log) \in Nat
    BY DEF IInv, TypeOK
  <2>2. /\ from' = [from EXCEPT ![w] = Len(log)] /\ got' = [got EXCEPT ![w] = Len(log)]
        /\ pos' = [pos EXCEPT ![w] = Len(log)] /\ run' = [run EXCEPT ![w] = "range"]
        /\ UNCHANGED <<log, client, calls, main, told>>
        /\ told[w] = << >>
    BY <1>2 DEF Start, IInv, InStep
  <2>3. TypeOK'
    BY <2>1, <2>2 DEF IInv, TypeOK
  <2>4. InStep'
    BY <2>2 DEF IInv, TypeOK, InStep
  <2> QED
    BY <2>3, <2>4 DEF IInv
<1>3. ASSUME NEW w \in Watch, Respond(w) PROVE IInv'
  <2>1. PICK r \in Events(w, pos[w] + 1 .. Len(log)) : got' = [got EXCEPT ![w] = r]
    BY <1>3 DEF Respond
  <2>2. pos[w] \in Nat /\ Len(log) \in Nat
    BY DEF IInv, TypeOK
  <2>3. r \in pos[w] + 1 .. Len(log)
    BY <2>1 DEF Events
  <2>4. r \in Nat /\ pos[w] <= r /\ r <= Len(log)
    BY <2>2, <2>3
  <2>5. run' = [run EXCEPT ![w] = "events"] /\ UNCHANGED <<log, client, from, pos, calls, main, told>>
        /\ run[w] = "range"
    BY <1>3 DEF Respond
  <2>6. TypeOK'
    BY <2>1, <2>4, <2>5 DEF IInv, TypeOK
  <2>7. InStep'
    BY <2>5 DEF IInv, TypeOK, InStep
  <2> QED
    BY <2>6, <2>7 DEF IInv
<1>4. ASSUME NEW w \in Watch, Call(w) PROVE IInv'
  <2>1. PICK r \in 1 .. Len(log) :
          /\ pos[w] < r /\ r <= got[w]
          /\ told' = [told EXCEPT ![w] = Append(told[w], r)]
          /\ pos' = [pos EXCEPT ![w] = r]
    BY <1>4, CallTells
  <2>2. /\ run[w] = "events" /\ run' \in [Watch -> {"none", "range", "events", "send", "ended"}]
        /\ \A v \in Watch : run'[v] = "none" => v # w /\ run[v] = "none"
        /\ calls' \in [Watch -> 0 .. Limit]
    BY <1>4, WatchAssumption DEF Call, IInv, TypeOK, WatchAssumption
  <2>3. UNCHANGED <<log, client, from, got, main>>
    BY <1>4 DEF Call
  <2>4. r \in Nat /\ from[w] <= r /\ told[w] \in Seq(Nat)
    BY <2>1 DEF IInv, TypeOK
  <2> DEFINE q == Append(told[w], r)
  <2>5. q \in Seq(Nat) /\ q # << >> /\ q[Len(q)] = r
    BY <2>4
  <2> HIDE DEF q
  <2>6. told' = [told EXCEPT ![w] = q]
    BY <2>1 DEF q
  <2>7. TypeOK'
    <3>1. told' \in [Watch -> Seq(Nat)]
      BY <2>5, <2>6 DEF IInv, TypeOK
    <3>2. pos' \in [Watch -> Nat]
      BY <2>1, <2>4 DEF IInv, TypeOK
    <3>3. \A v \in Watch : from[v] <= pos'[v] /\ pos'[v] <= got[v] /\ got[v] <= Len(log)
      BY <2>1, <2>4 DEF IInv, TypeOK
    <3> QED
      BY <2>2, <2>3, <3>1, <3>2, <3>3 DEF IInv, TypeOK
  <2>8. InStep'
    <3> SUFFICES ASSUME NEW v \in Watch
                 PROVE  /\ run'[v] = "none" => told'[v] = << >>
                        /\ pos'[v] = IF told'[v] = << >> THEN from'[v]
                                     ELSE told'[v][Len(told'[v])]
      BY DEF InStep
    <3>1. CASE v = w
      BY <2>1, <2>2, <2>5, <2>6, <3>1 DEF IInv, TypeOK
    <3>2. CASE v # w
      BY <2>1, <2>2, <2>3, <2>6, <3>2 DEF IInv, TypeOK, InStep
    <3> QED
      BY <3>1, <3>2
  <2> QED
    BY <2>7, <2>8 DEF IInv
<1>5. ASSUME NEW w \in Watch, Handled(w) \/ End(w) \/ Block(w) \/ Handover(w) PROVE IInv'
  <2>1. UNCHANGED <<log, client, from, got, pos, calls, told>>
    BY <1>5 DEF Handled, End, Block, Handover
  <2>2. /\ run' \in [Watch -> {"none", "range", "events", "send", "ended"}]
        /\ main' \in [Watch -> {"idle", "receive", "done"}]
        /\ \A v \in Watch : run'[v] = "none" => run[v] = "none"
    BY <1>5 DEF Handled, End, Block, Handover, IInv, TypeOK
  <2> QED
    BY <2>1, <2>2 DEF IInv, TypeOK, InStep
<1>6. CASE Close \/ UNCHANGED vars
  BY <1>6 DEF Close, vars, watches, IInv, TypeOK, InStep
<1> QED
  BY <1>1, <1>2, <1>3, <1>4, <1>5, <1>6 DEF Next, Watcher

(* The variables of EtcdWatch have their types, and no goroutine is ahead  *)
(* of what etcd has sent it, in every reachable state of every instance.   *)
THEOREM TypeCorrect == Spec => []TypeOK
<1>1. IInv => TypeOK
  BY DEF IInv
<1> QED
  BY InitInv, StepInv, <1>1, PTL DEF Spec

-----------------------------------------------------------------------------
(* The refinement.                                                         *)

(* Every step of EtcdWatch is, for each watch, a step of Feed or none.     *)
LEMMA StepFeeds ==
  ASSUME IInv, [Next]_vars, NEW w \in Watch
  PROVE  FeedOf(w)!Next \/ UNCHANGED <<log, from[w], told[w]>>
<1>1. ASSUME NEW k \in Key, Write(k) PROVE FeedOf(w)!Next
  <2>1. log' = Append(log, k) /\ UNCHANGED <<from, told>>
    BY <1>1 DEF Write, watches
  <2> QED
    BY <2>1 DEF FeedOf!Next, FeedOf!Happen
<1>2. ASSUME NEW v \in Watch, Start(v)
      PROVE  FeedOf(w)!Next \/ UNCHANGED <<log, from[w], told[w]>>
  <2>1. /\ from' = [from EXCEPT ![v] = Len(log)] /\ UNCHANGED <<log, told>>
        /\ told[v] = << >>
    BY <1>2 DEF Start, IInv, InStep
  <2> QED
    BY <2>1 DEF FeedOf!Next, FeedOf!Subscribe, IInv, TypeOK
<1>3. ASSUME NEW v \in Watch, Call(v)
      PROVE  FeedOf(w)!Next \/ UNCHANGED <<log, from[w], told[w]>>
  <2>1. UNCHANGED <<log, from>>
    BY <1>3 DEF Call
  <2>2. PICK r \in Events(v, pos[v] + 1 .. got[v]) :
          /\ \A q \in Events(v, pos[v] + 1 .. got[v]) : r <= q
          /\ r \in 1 .. Len(log) /\ pos[v] < r /\ r <= got[v] /\ log[r] \in Wants[v]
          /\ told' = [told EXCEPT ![v] = Append(told[v], r)]
    BY <1>3, CallTells
  <2>3. CASE v # w
    BY <2>1, <2>2, <2>3 DEF IInv, TypeOK
  <2>4. CASE v = w
    <3>1. FeedOf(w)!At = pos[w]
      BY DEF FeedOf!At, IInv, InStep
    <3>2. r \in FeedOf(w)!Wanted
      BY <2>2, <2>4 DEF FeedOf!Wanted
    <3>3. ASSUME NEW q \in FeedOf(w)!Wanted, pos[w] < q PROVE r <= q
      <4>1. q \in 1 .. Len(log) /\ log[q] \in Wants[w]
        BY <3>3 DEF FeedOf!Wanted
      <4>2. pos[w] \in Nat /\ got[w] \in Nat /\ Len(log) \in Nat
        BY DEF IInv, TypeOK
      <4>3. CASE q <= got[w]
        <5>1. q \in pos[w] + 1 .. got[w]
          BY <3>3, <4>1, <4>2, <4>3
        <5>2. q \in Events(w, pos[w] + 1 .. got[w])
          BY <4>1, <5>1 DEF Events, Revisions
        <5> QED
          BY <2>2, <2>4, <5>2
      <4>4. CASE q > got[w]
        BY <2>2, <2>4, <4>1, <4>2, <4>4
      <4> QED
        BY <4>1, <4>2, <4>3, <4>4
    <3>4. told'[w] = Append(told[w], r)
      BY <2>2, <2>4 DEF IInv, TypeOK
    <3>5. from'[w] = from[w]
      BY <2>1
    <3>6. FeedOf(w)!Tell
      BY <2>1, <2>2, <2>4, <3>1, <3>2, <3>3, <3>4, <3>5 DEF FeedOf!Tell
    <3> QED
      BY <3>6 DEF FeedOf!Next
  <2> QED
    BY <2>3, <2>4
<1>4. ASSUME NEW v \in Watch,
             Respond(v) \/ Handled(v) \/ End(v) \/ Block(v) \/ Handover(v)
      PROVE  UNCHANGED <<log, from[w], told[w]>>
  BY <1>4 DEF Respond, Handled, End, Block, Handover
<1>5. CASE Close \/ UNCHANGED vars
  BY <1>5 DEF Close, vars, watches
<1> QED
  BY <1>1, <1>2, <1>3, <1>4, <1>5 DEF Next, Watcher

(* Whatever the grouping in responses, the speed of the functions, the     *)
(* other watches and the time of Close, the calls of every watch are the   *)
(* events on its keys from its creation on, in order, without a gap and    *)
(* without a repetition.                                                   *)
THEOREM WatchImplementsFeed == Spec => FeedsInOrder
<1>1. Init => \A w \in Watch : FeedOf(w)!Init
  <2> SUFFICES ASSUME Init, NEW w \in Watch PROVE FeedOf(w)!Init
    OBVIOUS
  <2>1. log = << >> /\ from[w] = 0 /\ told[w] = << >>
    BY DEF Init
  <2> QED
    BY <2>1 DEF FeedOf!Init
<1>2. IInv /\ [Next]_vars =>
        [\A w \in Watch : [FeedOf(w)!Next]_(FeedOf(w)!vars)]_vars
  BY StepFeeds DEF FeedOf!vars
<1> QED
  BY InitInv, StepInv, <1>1, <1>2, PTL DEF Spec, FeedsInOrder
=============================================================================
