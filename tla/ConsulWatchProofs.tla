------------------------- MODULE ConsulWatchProofs -------------------------
(***************************************************************************)
(* Theorems about ConsulWatch, for every number of keys and writes and     *)
(* every Limit: the type invariant, that the comparison by places reports  *)
(* every modification there is something to compare with, and that Watch   *)
(* is exact about its key.                                                 *)
(***************************************************************************)
EXTENDS ConsulWatch, TLAPS

(* Versions are numbered by the index, and the plan has seen consul as it  *)
(* was at lastIndex: what was not written since is in its last result.     *)
InTime ==
  /\ lastIndex <= index
  /\ \A k \in DOMAIN kv : kv[k].modify <= index
  /\ \A k \in DOMAIN last : last[k].modify <= lastIndex
  /\ \A k \in DOMAIN Watched :
       kv[k].modify <= lastIndex => k \in DOMAIN last /\ last[k] = kv[k]

(* Between two results nothing is left to report, and WatchPrefix compares *)
(* with the last one.                                                      *)
Settled ==
  run = "query" => todo = {} /\ (kind = "keyprefix" => saved = last)

(* What makes UpdatesTold inductive: while a result is being handled, what *)
(* is due and was not told yet is still to come.                           *)
ToldOrComing ==
  \A k \in DOMAIN last : Due(last, k) => k \in todo \/ Told(last, k)

IInv == TypeOK /\ InTime /\ Settled /\ ToldOrComing

LEMMA WatchedIsPart ==
  /\ DOMAIN Watched \subseteq DOMAIN kv
  /\ \A k \in DOMAIN Watched : Watched[k] = kv[k]
  /\ kind = "key" => DOMAIN Watched \subseteq {1}
  BY DEF Watched

LEMMA WatchedType == TypeOK => Versions(Watched, Pair)
  BY DEF TypeOK, Versions, Watched

LEMMA InitInv == Init => IInv
<1> SUFFICES ASSUME Init PROVE IInv
  OBVIOUS
<1>1. DOMAIN Nothing = {}
  BY DEF Nothing
<1>2. Versions(Nothing, Pair) /\ Versions(Nothing, Nat)
  <2>1. ASSUME NEW S PROVE Nothing \in [{} -> S]
    BY DEF Nothing
  <2> QED
    BY <1>1, <2>1 DEF Versions
<1>3. TypeOK
  <2>1. Versions(kv, Pair) /\ Versions(last, Pair)
        /\ Versions(saved, Pair) /\ Versions(told, Nat)
    BY <1>2 DEF Init
  <2>2. calls \in 0 .. Limit
    BY WatchAssumption DEF Init, WatchAssumption
  <2> QED
    BY <2>1, <2>2 DEF Init, TypeOK
<1>4. InTime
  BY <1>1, WatchedIsPart DEF Init, InTime
<1>5. Settled /\ ToldOrComing
  BY <1>1 DEF Init, Settled, ToldOrComing
<1> QED
  BY <1>3, <1>4, <1>5 DEF IInv

(* A write gets an index the plan has not seen. *)
LEMMA PutInv ==
  ASSUME IInv, NEW k \in Key, Put(k)
  PROVE  IInv'
<1> USE DEF watcher
<1>1. index \in Nat /\ index' = index + 1 /\ lastIndex \in Nat
  BY DEF IInv, TypeOK, Put
<1>2. /\ DOMAIN kv' = DOMAIN kv \cup {k}
      /\ \A j \in DOMAIN kv' : j # k => kv'[j] = kv[j]
      /\ kv'[k].modify = index + 1
      /\ kv'[k] \in Pair
  BY <1>1 DEF IInv, TypeOK, Put, Versions, Pair
<1>3. Versions(kv', Pair)
  <2>1. DOMAIN kv' \subseteq Key
    BY <1>2 DEF IInv, TypeOK, Versions
  <2>2. \A j \in DOMAIN kv' : kv'[j] \in Pair
    BY <1>2 DEF IInv, TypeOK, Versions
  <2>3. kv' = [j \in DOMAIN kv' |-> kv'[j]]
    BY DEF Put
  <2> QED
    BY <2>1, <2>2, <2>3 DEF Versions
<1>4. TypeOK'
  BY <1>1, <1>3 DEF IInv, TypeOK, Put, Versions
<1>5. InTime'
  <2>1. lastIndex' <= index'
    BY <1>1 DEF IInv, InTime, Put
  <2>2. ASSUME NEW j \in DOMAIN kv' PROVE kv'[j].modify <= index'
    <3>1. CASE j = k
      BY <3>1, <1>1, <1>2
    <3>2. CASE j # k
      <4>1. kv[j] \in Pair /\ kv[j].modify <= index
        BY <3>2, <1>2 DEF IInv, TypeOK, Versions, InTime
      <4> QED
        BY <3>2, <4>1, <1>1, <1>2 DEF Pair
    <3> QED
      BY <3>1, <3>2
  <2>3. \A j \in DOMAIN last' : last'[j].modify <= lastIndex'
    BY DEF IInv, InTime, Put
  <2>4. ASSUME NEW j \in DOMAIN Watched', kv'[j].modify <= lastIndex'
        PROVE  j \in DOMAIN last' /\ last'[j] = kv'[j]
    <3>1. j # k
      BY <2>4, <1>1, <1>2 DEF IInv, InTime, Put
    <3>2. j \in DOMAIN Watched /\ kv'[j] = kv[j]
      BY <2>4, <3>1, <1>2 DEF Watched, Put
    <3> QED
      BY <2>4, <3>2 DEF IInv, InTime, Put
  <2> QED
    BY <2>1, <2>2, <2>3, <2>4 DEF InTime
<1>6. Settled' /\ ToldOrComing'
  BY DEF IInv, Settled, ToldOrComing, Due, Told, Put
<1> QED
  BY <1>4, <1>5, <1>6 DEF IInv

(* A removal takes an index too, and leaves the other pairs as they are. *)
LEMMA RemoveInv ==
  ASSUME IInv, NEW S, Remove(S)
  PROVE  IInv'
<1> USE DEF watcher
<1>1. index \in Nat /\ index' = index + 1 /\ lastIndex \in Nat
  BY DEF IInv, TypeOK, Remove
<1>2. /\ DOMAIN kv' = DOMAIN kv \ S
      /\ \A j \in DOMAIN kv' : kv'[j] = kv[j]
  BY DEF Remove
<1>3. Versions(kv', Pair)
  BY DEF IInv, TypeOK, Remove, Versions
<1>4. TypeOK'
  BY <1>1, <1>3 DEF IInv, TypeOK, Remove, Versions
<1>5. InTime'
  <2>1. lastIndex' <= index'
    BY <1>1 DEF IInv, InTime, Remove
  <2>2. ASSUME NEW j \in DOMAIN kv' PROVE kv'[j].modify <= index'
    <3>1. kv[j] \in Pair /\ kv[j].modify <= index
      BY <1>2 DEF IInv, TypeOK, Versions, InTime
    <3> QED
      BY <3>1, <1>1, <1>2 DEF Pair
  <2>3. \A j \in DOMAIN last' : last'[j].modify <= lastIndex'
    BY DEF IInv, InTime, Remove
  <2>4. ASSUME NEW j \in DOMAIN Watched', kv'[j].modify <= lastIndex'
        PROVE  j \in DOMAIN last' /\ last'[j] = kv'[j]
    <3>1. j \in DOMAIN Watched /\ kv'[j] = kv[j]
      BY <2>4, <1>2 DEF Watched, Remove
    <3> QED
      BY <2>4, <3>1 DEF IInv, InTime, Remove
  <2> QED
    BY <2>1, <2>2, <2>3, <2>4 DEF InTime
<1>6. Settled' /\ ToldOrComing'
  BY DEF IInv, Settled, ToldOrComing, Due, Told, Remove
<1> QED
  BY <1>4, <1>5, <1>6 DEF IInv

(* The heart of it: a pair of the new listing that is not reported was     *)
(* never modified, or is in the old listing as it is.  Whatever pair is at *)
(* its place there has a version the plan had seen by then.                *)
LEMMA UnreportedIsOld ==
  ASSUME IInv, run = "query", kind = "keyprefix", saved # Nothing,
         NEW k \in DOMAIN Watched, k \notin Reports(Watched),
         Due(kv, k)
  PROVE  k \in DOMAIN last /\ last[k] = kv[k]
<1>1. saved = last
  BY DEF IInv, Settled
<1>2. PICK j \in DOMAIN last : kv[k].modify = last[j].modify
  BY <1>1, WatchedIsPart DEF Reports, Checked, Due
<1>3. kv[k].modify <= lastIndex
  BY <1>2 DEF IInv, InTime
<1> QED
  BY <1>3 DEF IInv, InTime

(* A result: what it does not report is known already, or not due, for all *)
(* that is in a first listing is as old as the listing.                    *)
LEMMA QueryInv ==
  ASSUME IInv, Query
  PROVE  IInv'
<1> USE DEF consul
<1>1. kv' = kv /\ index' = index /\ kind' = kind /\ saved' = saved
      /\ lastIndex' = index /\ index \in Nat /\ run = "query" /\ told' = told
  BY DEF Query, IInv, TypeOK
<1>2. Watched' = Watched
  BY <1>1 DEF Watched
<1>3. Versions(Watched, Pair)
  BY WatchedType DEF IInv
<1>4. CASE lastIndex # 0 /\ Watched = last
  <2>1. last' = last /\ todo' = todo /\ run' = run /\ base' = base
    BY <1>4 DEF Query
  <2>2. TypeOK'
    BY <1>1, <2>1 DEF IInv, TypeOK, Query, Versions
  <2>3. ASSUME NEW k \in DOMAIN last PROVE last[k].modify <= index
    BY <1>1, <1>4, WatchedIsPart DEF IInv, InTime
  <2>4. InTime'
    BY <1>1, <1>2, <1>4, <2>1, <2>3, WatchedIsPart DEF IInv, InTime
  <2>5. Settled' /\ ToldOrComing'
    BY <1>1, <2>1 DEF IInv, Settled, ToldOrComing, Due, Told
  <2> QED
    BY <2>2, <2>4, <2>5 DEF IInv
<1>5. CASE ~(lastIndex # 0 /\ Watched = last)
  <2>1. /\ last' = Watched /\ todo' = Reports(Watched) /\ run' = "report"
        /\ base' = IF kind = "keyprefix" /\ last = Nothing THEN index ELSE base
    BY <1>5 DEF Query
  <2>2. Reports(Watched) \subseteq Key
    <3>1. DOMAIN Watched \subseteq Key
      BY <1>3 DEF Versions
    <3>2. 1 \in Key
      BY WatchAssumption DEF WatchAssumption, Key
    <3> QED
      BY <3>1, <3>2 DEF Reports
  <2>3. TypeOK'
    BY <1>1, <1>3, <2>1, <2>2 DEF IInv, TypeOK, Query, Versions
  <2>4. InTime'
    BY <1>1, <1>2, <2>1, WatchedIsPart DEF IInv, InTime
  <2>5. Settled'
    BY <2>1 DEF Settled
  <2>6. ASSUME NEW k \in DOMAIN Watched, k \notin Reports(Watched),
               Watched[k].modify # Watched[k].create,
               Watched[k].modify > base'
        PROVE  k \in DOMAIN told /\ told[k] = Watched[k].modify
    <3>1. kind = "keyprefix"
      BY <2>6, WatchedIsPart DEF Reports, IInv, TypeOK
    <3>2. Watched[k] = kv[k] /\ kv[k] \in Pair /\ kv[k].modify <= index
      BY <1>3, WatchedIsPart DEF IInv, InTime, Versions
    <3>3. last # Nothing
      BY <1>1, <2>1, <2>6, <3>1, <3>2 DEF Pair
    <3>4. saved # Nothing /\ Due(kv, k)
      BY <1>1, <2>1, <2>6, <3>1, <3>2, <3>3 DEF IInv, Settled, Due
    <3>5. k \in DOMAIN last /\ last[k] = kv[k]
      BY <1>1, <2>6, <3>1, <3>4, UnreportedIsOld
    <3>6. k \notin todo /\ Due(last, k)
      BY <1>1, <3>4, <3>5 DEF IInv, Settled, Due
    <3> QED
      BY <3>2, <3>5, <3>6 DEF IInv, ToldOrComing, Told
  <2>7. ToldOrComing'
    BY <1>1, <2>1, <2>6 DEF ToldOrComing, Due, Told
  <2> QED
    BY <2>3, <2>4, <2>5, <2>7 DEF IInv
<1> QED
  BY <1>4, <1>5

(* A call tells the version of the result. *)
LEMMA ReportInv ==
  ASSUME IInv, Report
  PROVE  IInv'
<1> USE DEF consul
<1>1. PICK k \in todo :
        /\ todo' = todo \ {k}
        /\ told' = IF k \in DOMAIN last
                   THEN [j \in DOMAIN told \cup {k} |->
                           IF j = k THEN last[k].modify ELSE told[j]]
                   ELSE [j \in DOMAIN told \ {k} |-> told[j]]
  BY DEF Report
<1>2. /\ kv' = kv /\ index' = index /\ kind' = kind /\ saved' = saved
      /\ last' = last /\ lastIndex' = lastIndex /\ base' = base /\ main' = main
      /\ stopped' = stopped /\ run' \in {"send", "report"}
  BY DEF Report
<1>3. calls' \in 0 .. Limit
  BY WatchAssumption DEF Report, IInv, TypeOK, WatchAssumption
<1>4. Versions(told', Nat)
  <2>1. k \in Key /\ Versions(told, Nat) /\ Versions(last, Pair)
    BY DEF IInv, TypeOK
  <2>2. CASE k \in DOMAIN last
    <3>1. last[k].modify \in Nat
      BY <2>1, <2>2 DEF Versions, Pair
    <3> QED
      BY <1>1, <2>1, <2>2, <3>1 DEF Versions
  <2>3. CASE k \notin DOMAIN last
    BY <1>1, <2>1, <2>3 DEF Versions
  <2> QED
    BY <2>2, <2>3
<1>5. TypeOK'
  BY <1>1, <1>2, <1>3, <1>4 DEF IInv, TypeOK, Versions
<1>6. InTime'
  <2>1. Watched' = Watched
    BY <1>2 DEF Watched
  <2> QED
    BY <1>2, <2>1 DEF IInv, InTime
<1>7. Settled'
  BY <1>2 DEF Settled
<1>8. ToldOrComing'
  BY <1>1, <1>2 DEF IInv, ToldOrComing, Due, Told
<1> QED
  BY <1>5, <1>6, <1>7, <1>8 DEF IInv

LEMMA HandledInv ==
  ASSUME IInv, Handled
  PROVE  IInv'
<1> USE DEF consul
<1>1. /\ kv' = kv /\ index' = index /\ kind' = kind /\ told' = told
      /\ last' = last /\ lastIndex' = lastIndex /\ todo' = todo /\ base' = base
      /\ todo = {}
      /\ saved' = IF kind = "key" THEN saved ELSE last
  BY DEF Handled
<1>2. TypeOK'
  BY <1>1 DEF Handled, IInv, TypeOK, Versions
<1>3. InTime'
  <2>1. Watched' = Watched
    BY <1>1 DEF Watched
  <2> QED
    BY <1>1, <2>1 DEF IInv, InTime
<1>4. Settled' /\ ToldOrComing'
  BY <1>1 DEF IInv, Settled, ToldOrComing, Due, Told
<1> QED
  BY <1>2, <1>3, <1>4 DEF IInv

(* The other steps touch neither consul nor the listings. *)
LEMMA OtherInv ==
  ASSUME IInv, End \/ Block \/ Handover \/ Stop \/ UNCHANGED vars
  PROVE  IInv'
<1> USE DEF End, Block, Handover, Stop, vars, consul, watcher
<1>1. /\ kv' = kv /\ index' = index /\ kind' = kind /\ told' = told
      /\ last' = last /\ lastIndex' = lastIndex /\ todo' = todo /\ base' = base
      /\ saved' = saved /\ calls' = calls
  OBVIOUS
<1>2. run' = run \/ run' \in {"report", "ended"}
  OBVIOUS
<1>3. main' \in {"idle", "receive", "stop", "done"} /\ stopped' \in BOOLEAN
  BY DEF IInv, TypeOK
<1>4. TypeOK'
  BY <1>1, <1>2, <1>3 DEF IInv, TypeOK, Versions
<1>5. InTime'
  <2>1. Watched' = Watched
    BY <1>1 DEF Watched
  <2> QED
    BY <1>1, <2>1 DEF IInv, InTime
<1>6. Settled' /\ ToldOrComing'
  BY <1>1, <1>2 DEF IInv, Settled, ToldOrComing, Due, Told
<1> QED
  BY <1>4, <1>5, <1>6 DEF IInv

LEMMA StepInv == IInv /\ [Next]_vars => IInv'
<1> SUFFICES ASSUME IInv, [Next]_vars PROVE IInv'
  OBVIOUS
<1>1. CASE \E k \in Key : Put(k)
  BY <1>1, PutInv
<1>4. CASE \/ \E k \in Key : Delete(k)
           \/ \E S \in Prefixes : DeletePrefix(S)
  BY <1>4, RemoveInv DEF Delete, DeletePrefix
<1>2. CASE Query \/ Report \/ Handled
  BY <1>2, QueryInv, ReportInv, HandledInv
<1>3. CASE End \/ Block \/ Handover \/ Stop \/ UNCHANGED vars
  BY <1>3, OtherInv
<1> QED
  BY <1>1, <1>2, <1>3, <1>4 DEF Next, Watcher, Caller

LEMMA Inductive == Spec => []IInv
  BY InitInv, StepInv, PTL DEF Spec

(* The types: every version kept, told or in consul is one of a key of     *)
(* consul, and the goroutine and the caller are where the code can be.     *)
THEOREM TypeCorrect == Spec => []TypeOK
<1>1. IInv => TypeOK
  BY DEF IInv
<1> QED
  BY <1>1, Inductive, PTL

(* Although WatchPrefix compares by places, every modification there is a  *)
(* listing to compare with is told: when a listing has been handled, the   *)
(* last call about a key had the version of the key in it, for every key   *)
(* modified since it was created and since the first listing, or the first *)
(* after an empty one.                                                     *)
THEOREM ModificationsAreTold == Spec => []UpdatesTold
<1>1. IInv => UpdatesTold
  BY DEF IInv, Settled, ToldOrComing, UpdatesTold
<1> QED
  BY <1>1, Inductive, PTL

-----------------------------------------------------------------------------
(* Watch: the result, what is to report and what is known are of key 1.    *)

Latest == [k \in DOMAIN last |-> last[k].modify]

OfOneKey ==
  kind = "key" =>
    /\ DOMAIN last \subseteq {1} /\ DOMAIN told \subseteq {1} /\ todo \subseteq {1}
    /\ todo = {} => told = Latest

(* The one call for a result makes what is known equal to it.              *)
LEMMA ReportExact ==
  ASSUME IInv, OfOneKey, kind = "key", Report
  PROVE  DOMAIN told' \subseteq {1} /\ todo' = {} /\ told' = Latest
<1>1. PICK k \in todo :
        /\ todo' = todo \ {k}
        /\ told' = IF k \in DOMAIN last
                   THEN [j \in DOMAIN told \cup {k} |->
                           IF j = k THEN last[k].modify ELSE told[j]]
                   ELSE [j \in DOMAIN told \ {k} |-> told[j]]
  BY DEF Report
<1>2. k = 1 /\ todo = {1} /\ DOMAIN last \subseteq {1} /\ DOMAIN told \subseteq {1}
  BY <1>1 DEF OfOneKey
<1>3. CASE 1 \in DOMAIN last
  <2>1. DOMAIN last = {1} /\ DOMAIN told \cup {1} = {1}
    BY <1>2, <1>3
  <2>2. told' = [j \in {1} |-> IF j = 1 THEN last[1].modify ELSE told[j]]
    BY <1>1, <1>2, <1>3, <2>1
  <2>3. told' = [j \in {1} |-> last[j].modify]
    BY <2>2
  <2> QED
    BY <1>1, <1>2, <2>1, <2>3 DEF Latest
<1>4. CASE 1 \notin DOMAIN last
  <2>1. DOMAIN last = {} /\ DOMAIN told \ {1} = {}
    BY <1>2, <1>4
  <2>2. told' = [j \in {} |-> told[j]]
    BY <1>1, <1>2, <1>4, <2>1
  <2>3. Latest = [j \in {} |-> last[j].modify]
    BY <2>1 DEF Latest
  <2> QED
    BY <1>1, <1>2, <2>2, <2>3
<1> QED
  BY <1>3, <1>4

LEMMA StepOneKey == IInv /\ OfOneKey /\ [Next]_vars => OfOneKey'
<1> SUFFICES ASSUME IInv, OfOneKey, [Next]_vars, kind' = "key" PROVE OfOneKey'
  BY DEF OfOneKey
<1>1. CASE Query
  <2>1. kind = "key"
    BY <1>1 DEF Query
  <2>2. CASE lastIndex # 0 /\ Watched = last
    BY <1>1, <2>1, <2>2 DEF Query, OfOneKey, Latest
  <2>3. CASE ~(lastIndex # 0 /\ Watched = last)
    <3>1. last' = Watched /\ todo' = {1} /\ told' = told
      BY <1>1, <2>1, <2>3 DEF Query, Reports
    <3> QED
      BY <2>1, <3>1, WatchedIsPart DEF OfOneKey
  <2> QED
    BY <2>2, <2>3
<1>2. CASE Report
  <2>1. kind = "key" /\ last' = last
    BY <1>2 DEF Report
  <2>2. Latest' = Latest
    BY <2>1 DEF Latest
  <2> QED
    BY <1>2, <2>1, <2>2, ReportExact DEF OfOneKey
<1>3. ASSUME NEW k \in Key, Put(k) PROVE OfOneKey'
  BY <1>3 DEF Put, watcher, OfOneKey, Latest
<1>4. ASSUME NEW S, Remove(S) PROVE OfOneKey'
  BY <1>4 DEF Remove, watcher, OfOneKey, Latest
<1>5. CASE Handled \/ End \/ Caller \/ UNCHANGED vars
  <2>1. UNCHANGED <<kind, last, told, todo>>
    BY <1>5 DEF Handled, End, Caller, Block, Handover, Stop, vars, watcher
  <2> QED
    BY <2>1 DEF OfOneKey, Latest
<1> QED
  BY <1>1, <1>2, <1>3, <1>4, <1>5 DEF Next, Watcher, Delete, DeletePrefix

(* What Watch has told its subscriber is the last result to the letter,    *)
(* the removal of the key included, whenever it waits for the next one.    *)
THEOREM KeyIsTold == Spec => []KeyIsExact
<1>1. Init => OfOneKey
  BY DEF Init, OfOneKey, Nothing, Latest
<1>2. IInv /\ OfOneKey => KeyIsExact
  BY DEF IInv, Settled, OfOneKey, KeyIsExact, Latest
<1> QED
  BY <1>1, <1>2, Inductive, StepOneKey, PTL DEF Spec
=============================================================================
