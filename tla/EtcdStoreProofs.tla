--------------------------- MODULE EtcdStoreProofs ---------------------------
(***************************************************************************)
(* Theorems about EtcdStore, for any stores, goroutines, roots, keys and   *)
(* faults: the type invariant, which takes that a walk up the directories  *)
(* never leaves the key it started from, and that no call is set back.     *)
(***************************************************************************)
EXTENDS EtcdStore, TLAPS

(* A walk is at a directory of its key, and is over above the topmost; a    *)
(* key that is to be put under a lease has a name for it to start from.    *)
Fits(c) ==
  /\ c \in Calls
  /\ c.n <= Len(c.key)
  /\ c.pc \in {"check", "mark"} => c.n >= 1
  /\ c.pc \in {"putTTL", "putTTLLite"} => Len(c.key) >= 1

CallsFit == \A g \in Caller : Fits(call[g])

IInv == TypeOK /\ CallsFit

-----------------------------------------------------------------------------
(* Paths.                                                                  *)

LEMMA FullPath ==
  ASSUME NEW r \in Path, NEW k \in Path
  PROVE  Full(r, k) \in Path
  BY DEF Full, Path

LEMMA CutPath ==
  ASSUME NEW k \in Path, NEW n \in 0 .. Len(k)
  PROVE  Cut(k, n) \in Path
  BY DEF Cut, Path

LEMMA KeysArePaths ==
  /\ Roots \subseteq Path
  /\ PutKeys \subseteq Path /\ LiteKeys \subseteq Path /\ MarkKeys \subseteq Path
  /\ \A k \in PutKeys \cup LiteKeys \cup MarkKeys : Len(k) >= 1
  /\ DIR_TAG \notin Value
  /\ ClientOf \in [Caller -> Client]
<1>1. ASSUME NEW k \in Path, k # << >> PROVE Len(k) >= 1
  BY <1>1 DEF Path
<1> QED
  BY <1>1, StoreAssumption DEF StoreAssumption

LEMMA DirsArePaths ==
  ASSUME NEW k \in Path
  PROVE  Dirs(k) \subseteq Path
<1>1. ASSUME NEW i \in 1 .. Len(k) - 1 PROVE Cut(k, i) \in Path
  <2>1. Len(k) \in Nat
    BY DEF Path
  <2>2. i \in 0 .. Len(k)
    BY <2>1
  <2> QED
    BY <2>2, CutPath
<1> QED
  BY <1>1 DEF Dirs

LEMMA OwedArePaths ==
  ASSUME NEW r \in Path, NEW k \in Path, NEW n \in Nat, n <= Len(k)
  PROVE  OwedBy(r, k, n) \subseteq Path
<1>1. ASSUME NEW i \in 1 .. n PROVE Full(r, Cut(k, i)) \in Path
  <2>1. Len(k) \in Nat
    BY DEF Path
  <2>2. i \in 0 .. Len(k)
    BY <2>1
  <2> QED
    BY <2>2, CutPath, FullPath
<1> QED
  BY <1>1 DEF OwedBy

LEMMA IdleCall == Fits(Idle)
  BY DEF Fits, Idle, Calls, Path

LEMMA WalkCall ==
  ASSUME NEW k \in Path, NEW n \in Nat, n <= Len(k)
  PROVE  Fits(Walk(k, n))
<1>1. CASE n = 0
  BY <1>1, IdleCall DEF Walk
<1>2. CASE n # 0
  BY <1>2 DEF Fits, Walk, Calls, Path
<1> QED
  BY <1>1, <1>2

(* The fields of a call. *)
LEMMA CallFields ==
  ASSUME IInv, NEW g \in Caller
  PROVE  /\ call[g] \in Calls
         /\ call[g].key \in Path /\ call[g].full \in Path
         /\ call[g].n \in Nat /\ call[g].n <= Len(call[g].key)
         /\ RootOf(g) \in Roots /\ RootOf(g) \in seen[g]
         /\ seen[g] \subseteq Roots /\ Roots \subseteq Path
<1>1. call[g] \in Calls /\ call[g].n <= Len(call[g].key)
  BY DEF IInv, CallsFit, Fits
<1>2. RootOf(g) \in Roots /\ RootOf(g) \in seen[g] /\ seen[g] \subseteq Roots
  BY KeysArePaths DEF IInv, TypeOK, RootOf
<1> QED
  BY <1>1, <1>2, KeysArePaths DEF Calls

LEMMA HereIsPath ==
  ASSUME IInv, NEW g \in Caller, NEW R \in Roots
  PROVE  Here(g, R) \in Path
<1>1. Len(call[g].key) \in Nat
  BY CallFields DEF Path
<1>2. call[g].n \in 0 .. Len(call[g].key)
  BY <1>1, CallFields
<1>3. Cut(call[g].key, call[g].n) \in Path
  BY <1>2, CallFields, CutPath
<1> QED
  BY <1>3, CallFields, FullPath DEF Here

(* A request uses up what was seen, and leaves the root there is. *)
LEMMA SeenAfter ==
  ASSUME IInv, NEW g \in Caller, root' = root, Requested(g) \/ seen' = seen
  PROVE  /\ seen' \in [Caller -> SUBSET Roots]
         /\ \A h \in Caller : RootOf(h)' \in seen'[h]
<1>1. /\ seen \in [Caller -> SUBSET Roots]
      /\ \A h \in Caller : RootOf(h)' = RootOf(h) /\ RootOf(h) \in seen[h] /\ RootOf(h) \in Roots
  BY CallFields DEF IInv, TypeOK, RootOf
<1>2. CASE Requested(g)
  <2>1. seen' = [seen EXCEPT ![g] = {RootOf(g)}]
    BY <1>2 DEF Requested
  <2>2. \A h \in Caller : seen'[h] = IF h = g THEN {RootOf(g)} ELSE seen[h]
    BY <1>1, <2>1
  <2>3. seen' \in [Caller -> SUBSET Roots]
    BY <1>1, <2>1
  <2>4. \A h \in Caller : RootOf(h) \in seen'[h]
    BY <1>1, <2>2
  <2> QED
    BY <1>1, <2>3, <2>4
<1>3. CASE seen' = seen
  BY <1>1, <1>3
<1> QED
  BY <1>2, <1>3

(* A call of one goroutine is replaced by a call. *)
LEMMA NewCall ==
  ASSUME IInv, NEW g \in Caller, NEW c,
         Fits(c), call' = [call EXCEPT ![g] = c]
  PROVE  call' \in [Caller -> Calls] /\ CallsFit'
<1>1. c \in Calls
  BY DEF Fits
<1>2. call \in [Caller -> Calls]
  BY DEF IInv, TypeOK
<1>3. \A h \in Caller : call'[h] = c \/ call'[h] = call[h]
  BY <1>2
<1> QED
  BY <1>1, <1>2, <1>3 DEF IInv, CallsFit

LEMMA WrittenType ==
  ASSUME IInv, NEW k \in Path, NEW v \in Value \cup {DIR_TAG}, NEW leased \in BOOLEAN,
         kv' = Written(k, v, leased)
  PROVE  DOMAIN kv' \subseteq Path /\ kv' \in [DOMAIN kv' -> Entry]
<1>1. [val |-> v, leased |-> leased] \in Entry
  BY DEF Entry
<1>2. DOMAIN kv \subseteq Path /\ kv \in [DOMAIN kv -> Entry]
  BY DEF IInv, TypeOK
<1> QED
  BY <1>1, <1>2 DEF Written

LEMMA WithoutType ==
  ASSUME IInv, NEW S, kv' = Without(S)
  PROVE  DOMAIN kv' \subseteq Path /\ kv' \in [DOMAIN kv' -> Entry]
  BY DEF IInv, TypeOK, Without

-----------------------------------------------------------------------------
(* The steps.                                                              *)

LEMMA InitInv == Init => IInv
<1> SUFFICES ASSUME Init PROVE IInv
  OBVIOUS
<1>1. kv = << >> /\ DOMAIN kv = {}
  BY DEF Init
<1>2. kv \in [DOMAIN kv -> Entry] /\ DOMAIN kv \subseteq Path
  BY <1>1
<1>3. CallsFit /\ call \in [Caller -> Calls]
  BY IdleCall DEF Init, CallsFit, Fits
<1>4. /\ seen \in [Caller -> SUBSET Roots]
      /\ \A g \in Caller : RootOf(g) \in seen[g]
  BY KeysArePaths DEF Init, RootOf
<1> QED
  BY <1>2, <1>3, <1>4 DEF Init, IInv, TypeOK

LEMMA WriteKeyInv ==
  ASSUME IInv, NEW g \in Caller, NEW full \in Path, NEW key \in Path,
         Len(key) >= 1, NEW v \in Value \cup {DIR_TAG}, NEW leased \in BOOLEAN,
         NEW walks \in BOOLEAN, WriteKey(g, full, key, v, leased, walks)
  PROVE  IInv'
<1> DEFINE N(answer) ==
      IF answer = "ok" /\ walks /\ v # DIR_TAG THEN Len(key) - 1 ELSE 0
<1>1. PICK answer \in Answers(g) :
        /\ call' = [call EXCEPT ![g] = Walk(key, N(answer))]
        /\ \/ answer = "fail" /\ UNCHANGED <<kv, bare>>
           \/ /\ kv' = Written(full, v, leased)
              /\ bare' \subseteq bare \cup Unmarked(Dirs(full)) \cup Marked({full})
        /\ Requested(g)
        /\ UNCHANGED <<root, status>>
  BY DEF WriteKey
<1>2. N(answer) \in Nat /\ N(answer) <= Len(key)
  BY DEF Path
<1>3. call' \in [Caller -> Calls] /\ CallsFit'
  <2> HIDE DEF N
  <2>1. Fits(Walk(key, N(answer)))
    BY <1>2, WalkCall
  <2> QED
    BY <1>1, <2>1, NewCall
<1>4. DOMAIN kv' \subseteq Path /\ kv' \in [DOMAIN kv' -> Entry]
  <2> HIDE DEF N
  <2>1. CASE kv' = kv
    BY <2>1 DEF IInv, TypeOK
  <2>2. CASE kv' = Written(full, v, leased)
    BY <2>2, WrittenType
  <2> QED
    BY <1>1, <2>1, <2>2
<1>5. bare' \subseteq Path
  <2> HIDE DEF N
  <2>1. bare \subseteq Path
    BY DEF IInv, TypeOK
  <2>2. Unmarked(Dirs(full)) \subseteq Path /\ Marked({full}) \subseteq Path
    BY DirsArePaths DEF Unmarked, Marked
  <2> QED
    BY <1>1, <2>1, <2>2
<1>6. root' \in [Client -> Roots] /\ status' \in [Client -> {"open", "closed", "dead"}]
  BY <1>1 DEF IInv, TypeOK
<1>7. seen' \in [Caller -> SUBSET Roots] /\ \A h \in Caller : RootOf(h)' \in seen'[h]
  BY <1>1, SeenAfter
<1> QED
  BY <1>3, <1>4, <1>5, <1>6, <1>7 DEF IInv, TypeOK

LEMMA OwedInArePaths ==
  ASSUME IInv, NEW c \in Client
  PROVE  Unmarked(OwedIn(c)) \subseteq Path
<1>1. ASSUME NEW g \in Caller PROVE Owed(g) \subseteq Path
  <2>1. OwedBy(RootOf(g), call[g].key, call[g].n) \subseteq Path
    BY CallFields, OwedArePaths
  <2> QED
    BY <2>1 DEF Owed
<1> QED
  BY <1>1 DEF OwedIn, Unmarked

LEMMA DieInv ==
  ASSUME IInv, NEW c \in Client, Die(c)
  PROVE  IInv'
<1>1. bare' \subseteq Path
  BY OwedInArePaths DEF Die, IInv, TypeOK
<1>2. call' \in [Caller -> Calls] /\ CallsFit'
  BY IdleCall DEF Die, IInv, TypeOK, CallsFit, Fits
<1>3. DOMAIN kv' \subseteq Path /\ kv' \in [DOMAIN kv' -> Entry]
  BY DEF Die, IInv, TypeOK
<1>4. root' \in [Client -> Roots] /\ status' \in [Client -> {"open", "closed", "dead"}]
  BY DEF Die, IInv, TypeOK
<1>5. seen' \in [Caller -> SUBSET Roots] /\ \A h \in Caller : RootOf(h)' \in seen'[h]
  BY DEF Die, IInv, TypeOK, RootOf
<1> QED
  BY <1>1, <1>2, <1>3, <1>4, <1>5 DEF IInv, TypeOK

(* Put and PutLite. *)
LEMMA PutInv ==
  ASSUME IInv, NEW g \in Caller, NEW key \in PutKeys \cup LiteKeys \cup MarkKeys,
         NEW v \in Value \cup {DIR_TAG}, Put(g, key, v) \/ PutLite(g, key, v)
  PROVE  IInv'
<1>1. key \in Path /\ Len(key) >= 1
  BY KeysArePaths
<1>2. ASSUME NEW R \in seen[g] PROVE Full(R, key) \in Path
  BY <1>1, CallFields, FullPath
<1>3. CASE Put(g, key, v)
  BY <1>1, <1>2, <1>3, WriteKeyInv DEF Put
<1>4. CASE PutLite(g, key, v)
  BY <1>1, <1>2, <1>4, WriteKeyInv DEF PutLite
<1> QED
  BY <1>3, <1>4

LEMMA GrantInv ==
  ASSUME IInv, NEW g \in Caller, NEW key \in PutKeys \cup LiteKeys,
         NEW pc \in {"putTTL", "putTTLLite"}, Grant(g, key, pc)
  PROVE  IInv'
<1>1. key \in Path /\ Len(key) >= 1
  BY KeysArePaths
<1>2. CASE Die(ClientOf[g])
  BY <1>2, DieInv, KeysArePaths
<1>3. ASSUME NEW R \in seen[g],
             call' = [call EXCEPT ![g] =
                        [pc |-> pc, key |-> key, n |-> 0, full |-> Full(R, key)]],
             Requested(g), UNCHANGED <<kv, root, status, bare>>
      PROVE  IInv'
  <2>1. Full(R, key) \in Path
    BY <1>1, CallFields, FullPath
  <2>2. Fits([pc |-> pc, key |-> key, n |-> 0, full |-> Full(R, key)])
    BY <1>1, <2>1 DEF Fits, Calls, Path
  <2>3. call' \in [Caller -> Calls] /\ CallsFit'
    BY <1>3, <2>2, NewCall
  <2>4. seen' \in [Caller -> SUBSET Roots] /\ \A h \in Caller : RootOf(h)' \in seen'[h]
    BY <1>3, SeenAfter
  <2> QED
    BY <1>3, <2>3, <2>4 DEF IInv, TypeOK
<1> QED
  BY <1>2, <1>3 DEF Grant

LEMMA PutLeasedInv ==
  ASSUME IInv, NEW g \in Caller, NEW v \in Value, PutLeased(g, v)
  PROVE  IInv'
<1>1. /\ call[g].pc \in {"putTTL", "putTTLLite"}
      /\ WriteKey(g, call[g].full, call[g].key, v, TRUE, call[g].pc = "putTTL")
  BY DEF PutLeased
<1>2. Len(call[g].key) >= 1
  BY <1>1 DEF IInv, CallsFit, Fits
<1>3. (call[g].pc = "putTTL") \in BOOLEAN
  OBVIOUS
<1> QED
  BY <1>1, <1>2, <1>3, CallFields, WriteKeyInv

(* The next round of a walk. *)
LEMMA NextRound ==
  ASSUME IInv, NEW g \in Caller, call[g].pc \in {"check", "mark"}
  PROVE  Fits(Walk(call[g].key, call[g].n - 1))
<1> call[g].n >= 1
  BY DEF IInv, CallsFit, Fits
<1>1. Len(call[g].key) \in Nat
  BY CallFields DEF Path
<1>2. call[g].n - 1 \in Nat /\ call[g].n - 1 <= Len(call[g].key)
  BY <1>1, CallFields
<1> QED
  BY <1>2, CallFields, WalkCall

LEMMA CheckInv ==
  ASSUME IInv, NEW g \in Caller, Check(g)
  PROVE  IInv'
<1>1. call[g].pc = "check" /\ UNCHANGED <<kv, root, status, bare>> /\ Requested(g)
  BY DEF Check
<1>2. seen' \in [Caller -> SUBSET Roots] /\ \A h \in Caller : RootOf(h)' \in seen'[h]
  BY <1>1, SeenAfter
<1>3. CASE call' = [call EXCEPT ![g] = Walk(call[g].key, call[g].n - 1)]
  <2>1. call' \in [Caller -> Calls] /\ CallsFit'
    BY <1>1, <1>3, NextRound, NewCall
  <2> QED
    BY <1>1, <1>2, <2>1 DEF IInv, TypeOK
<1>4. CASE call' = [call EXCEPT ![g].pc = "mark"]
  <2> DEFINE c == [call[g] EXCEPT !.pc = "mark"]
  <2>1. Fits(c)
    <3>1. call[g] \in Calls /\ Fits(call[g])
      BY DEF IInv, CallsFit, Fits
    <3> QED
      BY <1>1, <3>1 DEF Fits, Calls
  <2>2. call' = [call EXCEPT ![g] = c]
    BY <1>4
  <2> HIDE DEF c
  <2>3. call' \in [Caller -> Calls] /\ CallsFit'
    BY <2>1, <2>2, NewCall
  <2> QED
    BY <1>1, <1>2, <2>3 DEF IInv, TypeOK
<1> QED
  BY <1>3, <1>4 DEF Check

LEMMA MarkInv ==
  ASSUME IInv, NEW g \in Caller, Mark(g)
  PROVE  IInv'
<1>1. /\ call[g].pc = "mark"
      /\ call' = [call EXCEPT ![g] = Walk(call[g].key, call[g].n - 1)]
      /\ Requested(g)
      /\ UNCHANGED <<root, status>>
  BY DEF Mark
<1>2. call' \in [Caller -> Calls] /\ CallsFit'
  BY <1>1, NextRound, NewCall
<1>3. seen' \in [Caller -> SUBSET Roots] /\ \A h \in Caller : RootOf(h)' \in seen'[h]
  BY <1>1, SeenAfter
<1>4. PICK R \in seen[g] :
        \/ bare' = bare \cup Unmarked({Here(g, R)}) /\ kv' = kv
        \/ /\ kv' = Written(Here(g, R), DIR_TAG, FALSE)
           /\ bare' \subseteq bare \cup Unmarked(Dirs(Here(g, R)))
  BY DEF Mark
<1>5. Here(g, R) \in Path
  BY CallFields, HereIsPath
<1>6. bare' \subseteq Path
  <2>1. bare \subseteq Path
    BY DEF IInv, TypeOK
  <2>2. Unmarked({Here(g, R)}) \subseteq Path /\ Unmarked(Dirs(Here(g, R))) \subseteq Path
    BY <1>5, DirsArePaths DEF Unmarked
  <2> QED
    BY <1>4, <2>1, <2>2
<1>7. DOMAIN kv' \subseteq Path /\ kv' \in [DOMAIN kv' -> Entry]
  <2>1. CASE kv' = kv
    BY <2>1 DEF IInv, TypeOK
  <2>2. CASE kv' = Written(Here(g, R), DIR_TAG, FALSE)
    BY <1>5, <2>2, WrittenType
  <2> QED
    BY <1>4, <2>1, <2>2
<1> QED
  BY <1>1, <1>2, <1>3, <1>6, <1>7 DEF IInv, TypeOK

(* Entries are deleted, by a call or with their lease. *)
LEMMA RemoveInv ==
  ASSUME IInv, NEW g \in Caller, Requested(g) \/ seen' = seen,
         NEW S, kv' = Without(S), bare' \subseteq Path,
         UNCHANGED <<root, status, call>>
  PROVE  IInv'
<1>1. DOMAIN kv' \subseteq Path /\ kv' \in [DOMAIN kv' -> Entry]
  BY WithoutType
<1>2. seen' \in [Caller -> SUBSET Roots] /\ \A h \in Caller : RootOf(h)' \in seen'[h]
  BY SeenAfter
<1> QED
  BY <1>1, <1>2 DEF IInv, TypeOK, CallsFit

LEMMA DeleteInv ==
  ASSUME IInv, NEW g \in Caller,
         \/ \E key \in DeleteKeys : Delete(g, key)
         \/ \E keyPrefix \in PrefixKeys : DeletePrefix(g, keyPrefix)
  PROVE  IInv'
<1> DeleteKeys \subseteq Path
  BY StoreAssumption DEF StoreAssumption
<1>1. bare \subseteq Path
  BY DEF IInv, TypeOK
<1>2. ASSUME NEW key \in DeleteKeys, Delete(g, key) PROVE IInv'
  <2>1. PICK R \in seen[g] :
          kv' = Without({Full(R, key)}) /\ bare' = bare \cup Marked({Full(R, key)})
    BY <1>2 DEF Delete
  <2>2. Full(R, key) \in Path
    BY CallFields, FullPath
  <2>3. bare' \subseteq Path
    BY <1>1, <2>1, <2>2 DEF Marked
  <2> QED
    BY <1>2, <2>1, <2>3, RemoveInv DEF Delete
<1>3. ASSUME NEW keyPrefix \in PrefixKeys, DeletePrefix(g, keyPrefix) PROVE IInv'
  BY <1>1, <1>3, RemoveInv DEF DeletePrefix
<1> QED
  BY <1>2, <1>3

LEMMA ExpireInv ==
  ASSUME IInv, NEW k, Expire(k)
  PROVE  IInv'
<1>1. DOMAIN kv' \subseteq Path /\ kv' \in [DOMAIN kv' -> Entry]
  BY WithoutType DEF Expire
<1> QED
  BY <1>1 DEF Expire, IInv, TypeOK, CallsFit, RootOf

LEMMA SetRootInv ==
  ASSUME IInv, NEW g \in Caller, NEW R \in Roots, SetRoot(g, R)
  PROVE  IInv'
<1> ClientOf \in [Caller -> Client]
  BY KeysArePaths
<1>1. bare' \subseteq Path
  BY OwedInArePaths DEF SetRoot, IInv, TypeOK
<1>2. root' \in [Client -> Roots] /\ root' = [root EXCEPT ![ClientOf[g]] = R]
  BY DEF SetRoot, IInv, TypeOK
<1>3. seen' = [h \in Caller |-> IF h = g THEN {R}
                              ELSE IF ClientOf[h] = ClientOf[g] THEN seen[h] \cup {R}
                              ELSE seen[h]]
  BY DEF SetRoot
<1>4. seen' \in [Caller -> SUBSET Roots]
  BY <1>3 DEF IInv, TypeOK
<1>5. ASSUME NEW h \in Caller PROVE RootOf(h)' \in seen'[h]
  <2>1. CASE ClientOf[h] = ClientOf[g]
    <3>1. RootOf(h)' = R
      BY <1>2, <2>1 DEF RootOf, IInv, TypeOK
    <3> QED
      BY <1>3, <2>1, <3>1
  <2>2. CASE ClientOf[h] # ClientOf[g]
    <3>1. RootOf(h)' = RootOf(h)
      BY <1>2, <2>2 DEF RootOf, IInv, TypeOK
    <3>2. seen'[h] = seen[h]
      BY <1>3, <2>2
    <3> QED
      BY <3>1, <3>2, CallFields
  <2> QED
    BY <2>1, <2>2
<1> QED
  BY <1>1, <1>2, <1>4, <1>5 DEF SetRoot, IInv, TypeOK, CallsFit

LEMMA CloseInv ==
  ASSUME IInv, NEW g \in Caller, Close(g)
  PROVE  IInv'
<1>1. CASE Die(ClientOf[g])
  BY <1>1, DieInv, KeysArePaths
<1>2. CASE /\ call' = [call EXCEPT ![g].pc = "closing"]
           /\ UNCHANGED <<kv, root, status, seen, bare>>
  <2> DEFINE c == [call[g] EXCEPT !.pc = "closing"]
  <2>1. Fits(c)
    <3>1. call[g] \in Calls /\ Fits(call[g])
      BY DEF IInv, CallsFit, Fits
    <3> QED
      BY <3>1 DEF Fits, Calls
  <2>2. call' = [call EXCEPT ![g] = c]
    BY <1>2
  <2> HIDE DEF c
  <2>3. call' \in [Caller -> Calls] /\ CallsFit'
    BY <2>1, <2>2, NewCall
  <2> QED
    BY <1>2, <2>3 DEF IInv, TypeOK, RootOf
<1> QED
  BY <1>1, <1>2 DEF Close

LEMMA CloseDoneInv ==
  ASSUME IInv, NEW g \in Caller, CloseDone(g)
  PROVE  IInv'
<1>1. call' \in [Caller -> Calls] /\ CallsFit'
  BY IdleCall, NewCall DEF CloseDone
<1>2. status' \in [Client -> {"open", "closed", "dead"}]
  BY DEF CloseDone, IInv, TypeOK
<1> QED
  BY <1>1, <1>2 DEF CloseDone, IInv, TypeOK, RootOf

LEMMA NewInv ==
  ASSUME IInv, NEW c \in Client, NEW R \in Roots, New(c, R)
  PROVE  IInv'
<1>1. /\ root' \in [Client -> Roots]
      /\ status' \in [Client -> {"open", "closed", "dead"}]
      /\ seen' \in [Caller -> SUBSET Roots]
  BY DEF New, IInv, TypeOK
<1>2. ASSUME NEW g \in Caller PROVE RootOf(g)' \in seen'[g]
  <2>1. /\ RootOf(g)' = IF ClientOf[g] = c THEN R ELSE RootOf(g)
        /\ seen'[g] = IF ClientOf[g] = c THEN {R} ELSE seen[g]
    BY KeysArePaths DEF New, RootOf, IInv, TypeOK
  <2> QED
    BY <2>1, CallFields
<1> QED
  BY <1>1, <1>2 DEF New, IInv, TypeOK, CallsFit

LEMMA BeginInv ==
  ASSUME IInv, NEW g \in Caller, Begin(g)
  PROVE  IInv'
<1>1. CASE \E key \in PutKeys : PutTTL(g, key) \/ \E v \in Value : Put(g, key, v)
  BY <1>1, GrantInv, PutInv DEF PutTTL
<1>2. CASE \E key \in LiteKeys :
             PutTTLLite(g, key) \/ \E v \in Value : PutLite(g, key, v)
  BY <1>2, GrantInv, PutInv DEF PutTTLLite
<1>3. CASE \E key \in MarkKeys : Put(g, key, DIR_TAG)
  BY <1>3, PutInv
<1>4. CASE \E key \in DeleteKeys : Delete(g, key)
  BY <1>4, DeleteInv
<1>5. CASE \E keyPrefix \in PrefixKeys : DeletePrefix(g, keyPrefix)
  BY <1>5, DeleteInv
<1>6. CASE \E R \in Roots : SetRoot(g, R)
  BY <1>6, SetRootInv
<1>7. CASE Close(g)
  BY <1>7, CloseInv
<1> QED
  BY <1>1, <1>2, <1>3, <1>4, <1>5, <1>6, <1>7 DEF Begin

LEMMA StepInv == IInv /\ [Next]_vars => IInv'
<1> SUFFICES ASSUME IInv, [Next]_vars PROVE IInv'
  OBVIOUS
<1>1. ASSUME NEW g \in Caller, Begin(g) PROVE IInv'
  BY <1>1, BeginInv
<1>2. ASSUME NEW g \in Caller, Proceed(g) PROVE IInv'
  BY <1>2, PutLeasedInv, CheckInv, MarkInv, CloseDoneInv DEF Proceed
<1>3. ASSUME NEW g \in Caller, Panic(g) PROVE IInv'
  BY <1>3, DieInv, KeysArePaths DEF Panic
<1>4. ASSUME NEW k \in DOMAIN kv, Expire(k) PROVE IInv'
  BY <1>4, ExpireInv
<1>5. ASSUME NEW c \in Client, Crash(c) PROVE IInv'
  BY <1>5, DieInv DEF Crash
<1>6. ASSUME NEW c \in Client, NEW R \in Roots, New(c, R) PROVE IInv'
  BY <1>6, NewInv
<1>7. CASE UNCHANGED vars
  BY <1>7 DEF vars, IInv, TypeOK, CallsFit, RootOf
<1> QED
  BY <1>1, <1>2, <1>3, <1>4, <1>5, <1>6, <1>7 DEF Next

LEMMA Inductive == Spec => []IInv
  BY InitInv, StepInv, PTL DEF Spec

(* The types: every key in etcd is a path, every walk is at a directory of *)
(* a path, and what was left bare is a path.                               *)
THEOREM TypeCorrect == Spec => []TypeOK
<1>1. IInv => TypeOK
  BY DEF IInv
<1> QED
  BY <1>1, Inductive, PTL

-----------------------------------------------------------------------------
(* The end of calls.                                                       *)

LEMMA StepsOfIdle == StepsLeft(Idle) = 0
  BY DEF StepsLeft, Idle

(* A call that is not over has a step to make.                             *)
LEMMA StepsToMake ==
  ASSUME IInv, NEW g \in Caller, call[g].pc # "idle"
  PROVE  StepsLeft(call[g]) \in Nat /\ StepsLeft(call[g]) >= 1
<1> DEFINE c == call[g]
<1>1. /\ c.pc \in {"putTTL", "putTTLLite", "check", "mark", "closing"}
      /\ c.n \in Nat /\ Len(c.key) \in Nat
      /\ c.pc \in {"check", "mark"} => c.n >= 1
      /\ c.pc \in {"putTTL", "putTTLLite"} => Len(c.key) >= 1
  BY CallFields DEF IInv, CallsFit, Fits, Calls, Path
<1> HIDE DEF c
<1>2. CASE c.pc \in {"putTTLLite", "closing"}
  <2>1. StepsLeft(c) = 1
    BY <1>2 DEF StepsLeft
  <2> QED
    BY <2>1 DEF c
<1>3. CASE c.pc = "putTTL"
  <2>1. StepsLeft(c) = 2 * Len(c.key) - 1
    BY <1>3 DEF StepsLeft
  <2> QED
    BY <1>1, <1>3, <2>1 DEF c
<1>4. CASE c.pc = "check"
  <2>1. StepsLeft(c) = 2 * c.n
    BY <1>4 DEF StepsLeft
  <2> QED
    BY <1>1, <1>4, <2>1 DEF c
<1>5. CASE c.pc = "mark"
  <2>1. StepsLeft(c) = 2 * c.n - 1
    BY <1>5 DEF StepsLeft
  <2> QED
    BY <1>1, <1>5, <2>1 DEF c
<1> QED
  BY <1>1, <1>2, <1>3, <1>4, <1>5

LEMMA StepsOfWalk ==
  ASSUME NEW key, NEW n \in Nat
  PROVE  StepsLeft(Walk(key, n)) = 2 * n
<1>1. CASE n = 0
  BY <1>1, StepsOfIdle DEF Walk
<1>2. CASE n # 0
  <2> DEFINE c == [pc |-> "check", key |-> key, n |-> n, full |-> << >>]
  <2>1. c.pc = "check" /\ c.n = n
    OBVIOUS
  <2>2. Walk(key, n) = c
    BY <1>2 DEF Walk
  <2> HIDE DEF c
  <2>3. StepsLeft(c) = 2 * c.n
    BY <2>1 DEF StepsLeft
  <2> QED
    BY <2>1, <2>2, <2>3
<1> QED
  BY <1>1, <1>2

(* What the property asks of a step, for one goroutine.                    *)
NotSetBack(g) ==
  call[g].pc # "idle" =>
    call'[g] = call[g] \/ StepsLeft(call'[g]) < StepsLeft(call[g])

(* The call of one goroutine goes on, to no more steps than one less.      *)
LEMMA GoesOn ==
  ASSUME IInv, NEW g \in Caller, NEW c, call' = [call EXCEPT ![g] = c],
         call[g].pc # "idle" => StepsLeft(c) < StepsLeft(call[g])
  PROVE  \A h \in Caller : NotSetBack(h)
  BY DEF IInv, TypeOK, NotSetBack

LEMMA DieShortens ==
  ASSUME IInv, NEW c \in Client, Die(c)
  PROVE  \A g \in Caller : NotSetBack(g)
<1> TAKE g \in Caller
<1>1. call'[g] = Idle \/ call'[g] = call[g]
  BY DEF Die
<1> QED
  BY <1>1, StepsOfIdle, StepsToMake DEF NotSetBack

(* A goroutine that makes a call, or a request of none, was in none.       *)
LEMMA BeginShortens ==
  ASSUME IInv, NEW g \in Caller, Begin(g)
  PROVE  \A h \in Caller : NotSetBack(h)
<1>1. CASE \E c \in Client : Die(c)
  BY <1>1, DieShortens
<1>2. CASE UNCHANGED call
  BY <1>2 DEF NotSetBack
<1>3. CASE call[g].pc = "idle" /\ \E c : call' = [call EXCEPT ![g] = c]
  BY <1>3, GoesOn
<1>4. ASSUME NEW full, NEW key, NEW v, NEW leased, NEW walks,
             Ready(g), WriteKey(g, full, key, v, leased, walks)
      PROVE  call[g].pc = "idle" /\ \E c : call' = [call EXCEPT ![g] = c]
  BY <1>4 DEF WriteKey, Ready
<1>5. ASSUME NEW key, NEW pc, Grant(g, key, pc)
      PROVE  \/ \E c \in Client : Die(c)
             \/ call[g].pc = "idle" /\ \E c : call' = [call EXCEPT ![g] = c]
  BY <1>5, KeysArePaths DEF Grant, Ready
<1>6. CASE Close(g)
  <2>1. \/ \E c \in Client : Die(c)
        \/ call[g].pc = "idle" /\ \E c : call' = [call EXCEPT ![g] = c]
    BY <1>6, KeysArePaths DEF Close, Ready
  <2> QED
    BY <1>1, <1>3, <2>1
<1>7. CASE \/ \E key \in DeleteKeys : Delete(g, key)
           \/ \E keyPrefix \in PrefixKeys : DeletePrefix(g, keyPrefix)
           \/ \E R \in Roots : SetRoot(g, R)
  BY <1>2, <1>7 DEF Delete, DeletePrefix, SetRoot
<1>8. CASE \/ \E key, v : Put(g, key, v) \/ PutLite(g, key, v)
           \/ \E key : PutTTL(g, key) \/ PutTTLLite(g, key)
  <2>1. ASSUME NEW key, NEW v, Put(g, key, v) \/ PutLite(g, key, v)
        PROVE  call[g].pc = "idle" /\ \E c : call' = [call EXCEPT ![g] = c]
    BY <1>4, <2>1 DEF Put, PutLite
  <2>2. ASSUME NEW key, PutTTL(g, key) \/ PutTTLLite(g, key)
        PROVE  \/ \E c \in Client : Die(c)
               \/ call[g].pc = "idle" /\ \E c : call' = [call EXCEPT ![g] = c]
    BY <1>5, <2>2 DEF PutTTL, PutTTLLite
  <2> QED
    BY <1>1, <1>3, <1>8, <2>1, <2>2
<1> QED
  <2>1. \/ Close(g)
        \/ \E key \in DeleteKeys : Delete(g, key)
        \/ \E keyPrefix \in PrefixKeys : DeletePrefix(g, keyPrefix)
        \/ \E R \in Roots : SetRoot(g, R)
        \/ \E key, v : Put(g, key, v) \/ PutLite(g, key, v)
        \/ \E key : PutTTL(g, key) \/ PutTTLLite(g, key)
    BY DEF Begin
  <2> QED
    BY <1>6, <1>7, <1>8, <2>1

LEMMA PutLeasedShortens ==
  ASSUME IInv, NEW g \in Caller, NEW v \in Value, PutLeased(g, v)
  PROVE  \A h \in Caller : NotSetBack(h)
<1>1. /\ call[g].pc \in {"putTTL", "putTTLLite"} /\ Len(call[g].key) \in Nat
      /\ Len(call[g].key) >= 1
  BY CallFields DEF PutLeased, IInv, CallsFit, Fits, Path
<1>2. PICK n : /\ call' = [call EXCEPT ![g] = Walk(call[g].key, n)]
               /\ n = 0 \/ (n = Len(call[g].key) - 1 /\ call[g].pc = "putTTL")
  BY DEF PutLeased, WriteKey
<1>3. n \in Nat
  BY <1>1, <1>2
<1>4. StepsLeft(Walk(call[g].key, n)) = 2 * n
  BY <1>3, StepsOfWalk
<1>5. 2 * n < StepsLeft(call[g])
  <2>1. CASE n = 0
    BY <1>1, <2>1, StepsToMake
  <2>2. CASE n # 0
    <3>1. n = Len(call[g].key) - 1 /\ call[g].pc = "putTTL"
      BY <1>2, <2>2
    <3>2. StepsLeft(call[g]) = 2 * Len(call[g].key) - 1
      BY <3>1 DEF StepsLeft
    <3> QED
      BY <1>1, <3>1, <3>2
  <2> QED
    BY <2>1, <2>2
<1> QED
  BY <1>2, <1>4, <1>5, GoesOn

(* The walk: from the look at a directory to its marker, and to the next.  *)
LEMMA RoundShortens ==
  ASSUME IInv, NEW g \in Caller, Check(g) \/ Mark(g)
  PROVE  \A h \in Caller : NotSetBack(h)
<1>1. call[g].n \in Nat /\ call[g].n >= 1 /\ call[g].pc \in {"check", "mark"}
  BY CallFields DEF Check, Mark, IInv, CallsFit, Fits
<1>2. /\ call[g].pc = "check" => StepsLeft(call[g]) = 2 * call[g].n
      /\ call[g].pc = "mark" => StepsLeft(call[g]) = 2 * call[g].n - 1
  <2>1. ASSUME call[g].pc = "check" PROVE StepsLeft(call[g]) = 2 * call[g].n
    BY <2>1 DEF StepsLeft
  <2>2. ASSUME call[g].pc = "mark" PROVE StepsLeft(call[g]) = 2 * call[g].n - 1
    BY <2>2 DEF StepsLeft
  <2> QED
    BY <2>1, <2>2
<1>3. CASE call' = [call EXCEPT ![g] = Walk(call[g].key, call[g].n - 1)]
  <2>1. StepsLeft(Walk(call[g].key, call[g].n - 1)) = 2 * (call[g].n - 1)
    BY <1>1, StepsOfWalk
  <2>2. 2 * (call[g].n - 1) < StepsLeft(call[g])
    BY <1>1, <1>2
  <2> QED
    BY <1>3, <2>1, <2>2, GoesOn
<1>4. CASE call[g].pc = "check" /\ call' = [call EXCEPT ![g].pc = "mark"]
  <2> DEFINE c == [call[g] EXCEPT !.pc = "mark"]
  <2>1. c.pc = "mark" /\ c.n = call[g].n
    BY CallFields DEF Calls
  <2>2. call' = [call EXCEPT ![g] = c]
    BY <1>4
  <2> HIDE DEF c
  <2>3. StepsLeft(c) = 2 * c.n - 1
    BY <2>1 DEF StepsLeft
  <2>4. StepsLeft(c) < StepsLeft(call[g])
    BY <1>1, <1>2, <1>4, <2>1, <2>3
  <2> QED
    BY <2>2, <2>4, GoesOn
<1> QED
  BY <1>3, <1>4 DEF Check, Mark

LEMMA StepShortens == IInv /\ [Next]_vars => \A g \in Caller : NotSetBack(g)
<1> SUFFICES ASSUME IInv, [Next]_vars PROVE \A g \in Caller : NotSetBack(g)
  OBVIOUS
<1>1. ASSUME NEW g \in Caller, Begin(g) PROVE \A h \in Caller : NotSetBack(h)
  BY <1>1, BeginShortens
<1>2. ASSUME NEW g \in Caller, CloseDone(g) PROVE \A h \in Caller : NotSetBack(h)
  <2>1. call[g].pc = "closing" /\ call' = [call EXCEPT ![g] = Idle]
    BY <1>2 DEF CloseDone
  <2>2. StepsLeft(Idle) < StepsLeft(call[g])
    BY <2>1, StepsOfIdle, StepsToMake
  <2> QED
    BY <2>1, <2>2, GoesOn
<1>3. ASSUME NEW g \in Caller, Proceed(g) PROVE \A h \in Caller : NotSetBack(h)
  BY <1>2, <1>3, PutLeasedShortens, RoundShortens DEF Proceed
<1>4. ASSUME NEW g \in Caller, Panic(g) PROVE \A h \in Caller : NotSetBack(h)
  BY <1>4, DieShortens, KeysArePaths DEF Panic
<1>5. ASSUME NEW c \in Client, Crash(c) PROVE \A h \in Caller : NotSetBack(h)
  BY <1>5, DieShortens DEF Crash
<1>6. CASE \/ \E k \in DOMAIN kv : Expire(k)
           \/ \E c \in Client, R \in Roots : New(c, R)
           \/ UNCHANGED vars
  <2>1. UNCHANGED call
    BY <1>6 DEF Expire, New, vars
  <2> QED
    BY <2>1 DEF NotSetBack
<1> QED
  BY <1>1, <1>3, <1>4, <1>5, <1>6 DEF Next

(* No call makes more requests than its key has directories to look at and *)
(* to mark, and one for the key itself: what remains to be done never      *)
(* grows, in whatever way the calls interleave and fail.                   *)
THEOREM CallsComeToTheirEnd == Spec => CallsShorten
<1>1. IInv /\ [Next]_vars =>
        [\A g \in Caller : call[g].pc # "idle" =>
           call'[g] = call[g] \/ StepsLeft(call'[g]) < StepsLeft(call[g])]_vars
  BY StepShortens DEF NotSetBack
<1> QED
  BY <1>1, Inductive, PTL DEF Spec, CallsShorten
=============================================================================
