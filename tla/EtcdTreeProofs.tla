--------------------------- MODULE EtcdTreeProofs ---------------------------
(***************************************************************************)
(* That the marked tree of EtcdStore stays closed, that nothing else than  *)
(* the deletion or the overwriting of a directory hides an entry, and that *)
(* what is visible implements DirTree, for any stores, goroutines, roots,  *)
(* keys, directories deleted and overwritten, and faults.                  *)
(***************************************************************************)
EXTENDS EtcdStoreProofs, SequenceTheorems

(* A marker is never leased, so that it does not expire. *)
MarkersStay == \A x \in DOMAIN kv : kv[x].leased => kv[x].val # DIR_TAG

ValueKeys == Below(PutKeys \cup LiteKeys)

(* Ordinary values are where they were put. *)
Plain == \A x \in DOMAIN kv : kv[x].val # DIR_TAG => x \in ValueKeys

(* Only a walk owes markers, and what is to be put under a lease is a      *)
(* value, at a key below one of the roots.                                 *)
Honest(c) ==
  /\ c.pc \notin {"check", "mark"} => c.n = 0
  /\ c.pc \in {"putTTL", "putTTLLite"} => c.full \in ValueKeys

CallsHonest == \A g \in Caller : Honest(call[g])

TInv == IInv /\ MarkersStay /\ Plain /\ CallsHonest

-----------------------------------------------------------------------------
(* Paths below roots.                                                      *)

LEMMA LenIsNat == \A k \in Path : Len(k) \in Nat
  BY DEF Path

LEMMA CutIs ==
  ASSUME NEW k \in Path, NEW n \in 0 .. Len(k)
  PROVE  /\ Cut(k, n) \in Path
         /\ Len(Cut(k, n)) = n
         /\ \A i \in 1 .. n : Cut(k, n)[i] = k[i]
<1>1. Len(k) \in Nat /\ n \in Nat
  BY LenIsNat
<1>2. \A i \in 1 .. n : k[i] \in Name
  BY <1>1, ElementOfSeq DEF Path
<1>3. /\ Len(SubSeq(k, 1, n)) = IF 1 <= n THEN n - 1 + 1 ELSE 0
      /\ \A i \in 1 .. n - 1 + 1 : SubSeq(k, 1, n)[i] = k[1 + i - 1]
  BY <1>1, <1>2, SubSeqProperties
<1>4. n - 1 + 1 = n /\ \A i \in 1 .. n : 1 + i - 1 = i
  BY <1>1
<1>5. Len(Cut(k, n)) = n
  BY <1>1, <1>3 DEF Cut
<1>6. ASSUME NEW i \in 1 .. n PROVE Cut(k, n)[i] = k[i]
  BY <1>3, <1>4 DEF Cut
<1> QED
  BY <1>5, <1>6, CutPath

LEMMA FullIs ==
  ASSUME NEW r \in Path, NEW k \in Path
  PROVE  /\ Full(r, k) \in Path
         /\ Len(Full(r, k)) = Len(r) + Len(k)
         /\ \A i \in 1 .. Len(r) : Full(r, k)[i] = r[i]
         /\ \A i \in 1 .. Len(k) : Full(r, k)[Len(r) + i] = k[i]
<1>1. Len(k) \in Nat /\ Len(r) \in Nat
  BY LenIsNat
<1>2. /\ Len(r \o k) = Len(r) + Len(k)
      /\ \A i \in 1 .. Len(r) + Len(k) :
           (r \o k)[i] = IF i <= Len(r) THEN r[i] ELSE k[i - Len(r)]
  BY ConcatProperties DEF Path
<1>3. ASSUME NEW i \in 1 .. Len(r) PROVE Full(r, k)[i] = r[i]
  BY <1>1, <1>2 DEF Full
<1>4. ASSUME NEW i \in 1 .. Len(k) PROVE Full(r, k)[Len(r) + i] = k[i]
  <2>1. /\ Len(r) + i \in 1 .. Len(r) + Len(k)
        /\ ~(Len(r) + i <= Len(r))
        /\ Len(r) + i - Len(r) = i
    BY <1>1
  <2> QED
    BY <1>2, <2>1 DEF Full
<1> QED
  BY <1>2, <1>3, <1>4, FullPath DEF Full

(* A directory is a cut of its key, and under nothing but its own cuts. *)
LEMMA CutIsUnder ==
  ASSUME NEW k \in Path, NEW i \in 1 .. Len(k) - 1
  PROVE  Under(Cut(k, i), k)
<1>1. i \in 0 .. Len(k) /\ i < Len(k)
  BY LenIsNat
<1> QED
  BY <1>1, CutIs DEF Under

LEMMA DirIs ==
  ASSUME NEW k \in Path, NEW d \in Dirs(k)
  PROVE  /\ d \in Path /\ Under(d, k)
         /\ \E R \in Roots : Under(R, k) /\ Len(R) < Len(d)
<1>1. PICK i \in 1 .. Len(k) - 1 :
        d = Cut(k, i) /\ \E R \in Roots : Under(R, k) /\ Len(R) < i
  BY DEF Dirs
<1>2. i \in 0 .. Len(k)
  BY LenIsNat
<1> QED
  BY <1>1, <1>2, CutIs, CutIsUnder

(* Roots are not nested: there is one root at most above a path. *)
LEMMA OneRoot ==
  ASSUME RootsApart, NEW R \in Roots, NEW S \in Roots, NEW x \in Path,
         Under(R, x), Under(S, x)
  PROVE  R = S
<1>1. R \in Path /\ S \in Path
  BY KeysArePaths
<1>2. Len(R) \in Nat /\ Len(S) \in Nat
  BY <1>1, LenIsNat
<1>3. /\ \A i \in 1 .. Len(R) : R[i] = x[i]
      /\ \A i \in 1 .. Len(S) : S[i] = x[i]
  BY DEF Under
<1>4. ~Under(R, S) /\ ~Under(S, R)
  BY DEF RootsApart
<1>5. ~(Len(R) < Len(S))
  BY <1>2, <1>3, <1>4 DEF Under
<1>6. ~(Len(S) < Len(R))
  BY <1>2, <1>3, <1>4 DEF Under
<1>7. Len(R) = Len(S)
  BY <1>2, <1>5, <1>6
<1>8. \A i \in 1 .. Len(R) : R[i] = S[i]
  BY <1>3, <1>7
<1> QED
  BY <1>1, <1>7, <1>8, SeqEqual DEF Path

LEMMA RootIsAbove ==
  ASSUME NEW R \in Path, NEW k \in Path, Len(k) >= 1
  PROVE  Under(R, Full(R, k))
<1>1. Len(R) \in Nat /\ Len(k) \in Nat
  BY LenIsNat
<1>2. Len(R) < Len(Full(R, k))
  BY <1>1, FullIs
<1> QED
  BY <1>2, FullIs DEF Under

(* The directories of a key cut at n are what a walk at n - 1 still owes.   *)
LEMMA DirsAreOwed ==
  ASSUME RootsApart, NEW R \in Roots, NEW k \in Path, NEW n \in 1 .. Len(k),
         NEW d \in Dirs(Full(R, Cut(k, n)))
  PROVE  d \in OwedBy(R, k, n - 1)
<1> DEFINE q == Cut(k, n)
           x == Full(R, q)
<1>1. R \in Path /\ Len(R) \in Nat /\ Len(k) \in Nat /\ n \in Nat /\ n \in 0 .. Len(k) /\ n >= 1
  <2>1. R \in Path
    BY KeysArePaths
  <2> QED
    BY <2>1, LenIsNat
<1>2. q \in Path /\ Len(q) = n /\ \A i \in 1 .. n : q[i] = k[i]
  BY <1>1, CutIs
<1>3. d \in Dirs(x)
  OBVIOUS
<1> HIDE DEF q
<1>4. /\ x \in Path /\ Len(x) = Len(R) + n
      /\ \A i \in 1 .. Len(R) : x[i] = R[i]
      /\ \A i \in 1 .. n : x[Len(R) + i] = q[i]
  BY <1>1, <1>2, FullIs
<1>5. Under(R, x)
  BY <1>1, <1>2, RootIsAbove
<1> HIDE DEF x
<1>6. PICK i \in 1 .. Len(x) - 1 :
        d = Cut(x, i) /\ \E S \in Roots : Under(S, x) /\ Len(S) < i
  BY <1>3 DEF Dirs
<1>7. Len(R) < i
  BY <1>4, <1>5, <1>6, OneRoot
<1> DEFINE m == i - Len(R)
<1>8. m \in 1 .. n - 1 /\ i \in 0 .. Len(x) /\ m \in 0 .. Len(k) /\ m \in Nat
      /\ Len(R) + m = i /\ i \in Nat
  BY <1>1, <1>4, <1>7
<1> HIDE DEF m
<1>9. /\ Cut(x, i) \in Path /\ Len(Cut(x, i)) = i
      /\ \A e \in 1 .. i : Cut(x, i)[e] = x[e]
  BY <1>4, <1>8, CutIs
<1>10. /\ Cut(k, m) \in Path /\ Len(Cut(k, m)) = m
       /\ \A e \in 1 .. m : Cut(k, m)[e] = k[e]
  BY <1>8, CutIs
<1>11. /\ Full(R, Cut(k, m)) \in Path /\ Len(Full(R, Cut(k, m))) = i
       /\ \A e \in 1 .. Len(R) : Full(R, Cut(k, m))[e] = R[e]
       /\ \A e \in 1 .. m : Full(R, Cut(k, m))[Len(R) + e] = Cut(k, m)[e]
  <2> DEFINE c == Cut(k, m)
  <2>1. c \in Path /\ Len(c) = m
    BY <1>10
  <2> HIDE DEF c
  <2>2. /\ Full(R, c) \in Path /\ Len(Full(R, c)) = i
        /\ \A e \in 1 .. Len(R) : Full(R, c)[e] = R[e]
        /\ \A e \in 1 .. m : Full(R, c)[Len(R) + e] = c[e]
    BY <1>1, <1>8, <2>1, FullIs
  <2> QED
    BY <2>2 DEF c
<1>12. ASSUME NEW e \in 1 .. i PROVE Cut(x, i)[e] = Full(R, Cut(k, m))[e]
  <2>1. Cut(x, i)[e] = x[e]
    BY <1>9
  <2>2. CASE e <= Len(R)
    <3>1. e \in 1 .. Len(R)
      BY <1>1, <2>2
    <3> QED
      BY <1>4, <1>11, <2>1, <3>1
  <2>3. CASE ~(e <= Len(R))
    <3> DEFINE f == e - Len(R)
    <3>1. f \in 1 .. m /\ f \in 1 .. n /\ Len(R) + f = e
      BY <1>1, <1>8, <2>3
    <3> HIDE DEF f
    <3>2. x[e] = q[f] /\ q[f] = k[f]
      BY <1>2, <1>4, <3>1
    <3>3. Full(R, Cut(k, m))[e] = Cut(k, m)[f] /\ Cut(k, m)[f] = k[f]
      BY <1>10, <1>11, <3>1
    <3> QED
      BY <2>1, <3>2, <3>3
  <2> QED
    BY <2>2, <2>3
<1>13. Cut(x, i) = Full(R, Cut(k, m))
  BY <1>8, <1>9, <1>11, <1>12, SeqEqual DEF Path
<1> QED
  BY <1>6, <1>8, <1>13 DEF OwedBy

LEMMA WholeCut ==
  ASSUME NEW k \in Path
  PROVE  Cut(k, Len(k)) = k
<1>1. Len(k) \in Nat /\ Len(k) \in 0 .. Len(k)
  BY LenIsNat
<1>2. /\ Cut(k, Len(k)) \in Path /\ Len(Cut(k, Len(k))) = Len(k)
      /\ \A i \in 1 .. Len(k) : Cut(k, Len(k))[i] = k[i]
  BY <1>1, CutIs
<1> QED
  BY <1>2, SeqEqual DEF Path

(* A prefix of a directory is one of the entries in it. *)
LEMMA PrefixOfDir ==
  ASSUME NEW p \in Path, NEW k \in Path, NEW d \in Path, Under(d, k), HasPrefix(p, d)
  PROVE  HasPrefix(p, k)
<1>1. Len(p) \in Nat /\ Len(d) \in Nat /\ Len(k) \in Nat
  BY LenIsNat
<1>2. Len(d) < Len(k) /\ \A i \in 1 .. Len(d) : d[i] = k[i]
  BY DEF Under
<1>3. CASE p = << >>
  BY <1>3 DEF HasPrefix
<1>4. CASE p # << >>
  <2>1. Len(p) >= 1
    BY <1>4 DEF Path
  <2>2. /\ Len(p) <= Len(d) /\ \A i \in 1 .. Len(p) - 1 : p[i] = d[i]
        /\ <<p[Len(p)], d[Len(p)]>> \in NamePrefix
    BY <1>4 DEF HasPrefix
  <2>3. Len(p) <= Len(k) /\ Len(p) \in 1 .. Len(d)
    BY <1>1, <1>2, <2>1, <2>2
  <2>4. ASSUME NEW i \in 1 .. Len(p) - 1 PROVE p[i] = k[i]
    <3>1. i \in 1 .. Len(d)
      BY <1>1, <2>2
    <3> QED
      BY <1>2, <2>2, <3>1
  <2>5. d[Len(p)] = k[Len(p)]
    BY <1>2, <2>3
  <2> QED
    BY <2>2, <2>3, <2>4, <2>5 DEF HasPrefix
<1> QED
  BY <1>3, <1>4

LEMMA CutOfCut ==
  ASSUME NEW k \in Path, NEW i \in 0 .. Len(k), NEW m \in 0 .. i
  PROVE  Cut(Cut(k, i), m) = Cut(k, m)
<1> DEFINE x == Cut(k, i)
<1>1. Len(k) \in Nat /\ i \in Nat /\ m \in Nat /\ m \in 0 .. Len(k)
  BY LenIsNat
<1>2. x \in Path /\ Len(x) = i /\ \A e \in 1 .. i : x[e] = k[e]
  BY CutIs
<1> HIDE DEF x
<1>3. /\ Cut(x, m) \in Path /\ Len(Cut(x, m)) = m
      /\ \A e \in 1 .. m : Cut(x, m)[e] = x[e]
  BY <1>2, CutIs
<1>4. /\ Cut(k, m) \in Path /\ Len(Cut(k, m)) = m
      /\ \A e \in 1 .. m : Cut(k, m)[e] = k[e]
  BY <1>1, CutIs
<1>5. \A e \in 1 .. m : Cut(x, m)[e] = Cut(k, m)[e]
  BY <1>1, <1>2, <1>3, <1>4
<1>6. Cut(x, m) = Cut(k, m)
  BY <1>3, <1>4, <1>5, SeqEqual DEF Path
<1> QED
  BY <1>6 DEF x

LEMMA UnderTwice ==
  ASSUME NEW d \in Path, NEW x \in Path, NEW k \in Path, Under(d, x), Under(x, k)
  PROVE  Under(d, k)
  BY LenIsNat DEF Under

(* The directories of a directory are those of what is in it. *)
LEMMA DirOfDir ==
  ASSUME NEW k \in Path, NEW x \in Dirs(k), NEW d \in Dirs(x)
  PROVE  d \in Dirs(k)
<1>1. x \in Path /\ Under(x, k)
  BY DirIs
<1>2. PICK i \in 1 .. Len(k) - 1 : x = Cut(k, i)
  BY DEF Dirs
<1>3. PICK m \in 1 .. Len(x) - 1 :
        d = Cut(x, m) /\ \E R \in Roots : Under(R, x) /\ Len(R) < m
  BY DEF Dirs
<1>4. Len(k) \in Nat /\ i \in 0 .. Len(k) /\ Len(x) = i
  BY <1>2, LenIsNat, CutIs
<1>5. m \in 0 .. i /\ m \in 1 .. Len(k) - 1
  BY <1>4
<1>6. d = Cut(k, m)
  BY <1>2, <1>3, <1>4, <1>5, CutOfCut
<1>7. PICK R \in Roots : Under(R, x) /\ Len(R) < m
  BY <1>3
<1>8. Under(R, k)
  BY <1>1, <1>7, UnderTwice, KeysArePaths
<1> QED
  BY <1>5, <1>6, <1>7, <1>8 DEF Dirs

(* An entry below a root is a directory of all that is under it. *)
LEMMA UnderIsDir ==
  ASSUME NEW x \in Path, NEW k \in Path, NEW R \in Roots, Under(R, x), Under(x, k)
  PROVE  x \in Dirs(k)
<1> DEFINE i == Len(x)
<1>1. Len(x) \in Nat /\ Len(k) \in Nat /\ Len(R) \in Nat /\ R \in Path
  BY LenIsNat, KeysArePaths
<1>2. /\ i \in 0 .. Len(k) /\ i \in 1 .. Len(k) - 1 /\ Len(R) < i
      /\ \A e \in 1 .. i : x[e] = k[e]
  BY <1>1 DEF Under
<1>3. /\ Cut(k, i) \in Path /\ Len(Cut(k, i)) = i
      /\ \A e \in 1 .. i : Cut(k, i)[e] = k[e]
  BY <1>2, CutIs
<1>4. x = Cut(k, i)
  BY <1>2, <1>3, SeqEqual DEF Path
<1>5. Under(R, k)
  BY <1>1, UnderTwice
<1> HIDE DEF i
<1> QED
  BY <1>2, <1>4, <1>5 DEF Dirs

(* A key that a call is given is below a root. *)
LEMMA BelowIs ==
  ASSUME NEW x \in Below(PutKeys \cup LiteKeys \cup MarkKeys \cup DeleteKeys)
  PROVE  x \in Path /\ \E R \in Roots : Under(R, x)
<1>1. PICK R \in Roots, key \in PutKeys \cup LiteKeys \cup MarkKeys \cup DeleteKeys :
        x = Full(R, key)
  BY DEF Below
<1>2. key \in Path /\ Len(key) >= 1 /\ R \in Path
  <2>1. key \in Path /\ key # << >>
    BY StoreAssumption DEF StoreAssumption
  <2>2. Len(key) >= 1
    BY <2>1 DEF Path
  <2> QED
    BY <2>1, <2>2, KeysArePaths
<1> QED
  BY <1>1, <1>2, RootIsAbove, FullPath

LEMMA PrefixIsPath ==
  ASSUME NEW p \in Below(PrefixKeys)
  PROVE  p \in Path
<1>1. PICK R \in Roots, keyPrefix \in PrefixKeys : p = Full(R, keyPrefix)
  BY DEF Below
<1>2. R \in Path /\ keyPrefix \in Path
  BY StoreAssumption DEF StoreAssumption
<1> QED
  BY <1>1, <1>2, FullPath

LEMMA DirOfEntry ==
  ASSUME IInv, NEW k \in DOMAIN kv, NEW d \in Dirs(k)
  PROVE  k \in Path /\ d \in Path /\ Under(d, k) /\ d # k
<1>1. k \in Path
  BY DEF IInv, TypeOK
<1>2. d \in Path /\ Under(d, k)
  BY <1>1, DirIs
<1>3. d # k
  BY <1>1, <1>2, LenIsNat DEF Under
<1> QED
  BY <1>1, <1>2, <1>3

-----------------------------------------------------------------------------
(* The effect of a step on the entries: nothing, a marker, a value, the    *)
(* removal of one entry or of a prefix, an expiry.                         *)

Marks ==
  \E x \in Path : (\E R \in Roots : Under(R, x)) /\ kv' = Written(x, DIR_TAG, FALSE)

Values ==
  \E x \in ValueKeys, v \in Value, leased \in BOOLEAN : kv' = Written(x, v, leased)

Removes == \E x \in Below(DeleteKeys) : DeletedAlone(x) /\ kv' = Without({x})

Fades == \E x \in DOMAIN kv : kv[x].leased /\ kv' = Without({x})

Prunes ==
  \E p \in Below(PrefixKeys) : kv' = Without({k \in DOMAIN kv : HasPrefix(p, k)})

Effect == kv' = kv \/ Marks \/ Values \/ Removes \/ Fades \/ Prunes

LEMMA WriteEffect ==
  ASSUME NEW g \in Caller, NEW full, NEW key, NEW v \in Value, NEW leased \in BOOLEAN,
         NEW walks, full \in ValueKeys, WriteKey(g, full, key, v, leased, walks)
  PROVE  Effect
<1>1. kv' = kv \/ kv' = Written(full, v, leased)
  BY DEF WriteKey
<1> QED
  BY <1>1 DEF Effect, Values

LEMMA PutEffect ==
  ASSUME TInv, NEW g \in Caller, NEW key \in PutKeys \cup LiteKeys, NEW v \in Value,
         Put(g, key, v) \/ PutLite(g, key, v)
  PROVE  Effect
<1>1. PICK R \in seen[g], walks \in BOOLEAN : WriteKey(g, Full(R, key), key, v, FALSE, walks)
  BY DEF Put, PutLite
<1>2. Full(R, key) \in ValueKeys
  BY CallFields DEF TInv, ValueKeys, Below
<1> QED
  BY <1>1, <1>2, WriteEffect

LEMMA BeginEffect ==
  ASSUME TInv, NEW g \in Caller, Begin(g)
  PROVE  Effect
<1>1. seen[g] \subseteq Roots
  BY CallFields DEF TInv
<1>2. CASE kv' = kv
  BY <1>2 DEF Effect
<1>3. CASE \E key \in PutKeys : PutTTL(g, key) \/ \E v \in Value : Put(g, key, v)
  BY <1>2, <1>3, PutEffect DEF PutTTL, Grant, Die
<1>4. CASE \E key \in LiteKeys :
             PutTTLLite(g, key) \/ \E v \in Value : PutLite(g, key, v)
  BY <1>2, <1>4, PutEffect DEF PutTTLLite, Grant, Die
<1>5. ASSUME NEW key \in MarkKeys, Put(g, key, DIR_TAG) PROVE Effect
  <2>1. PICK R \in seen[g] : kv' = kv \/ kv' = Written(Full(R, key), DIR_TAG, FALSE)
    BY <1>5 DEF Put, WriteKey
  <2>2. Full(R, key) \in Path /\ \E S \in Roots : Under(S, Full(R, key))
    BY <1>1, BelowIs DEF Below
  <2> QED
    BY <1>2, <2>1, <2>2 DEF Effect, Marks
<1>6. ASSUME NEW key \in DeleteKeys, Delete(g, key) PROVE Effect
  <2>1. PICK R \in seen[g] : kv' = Without({Full(R, key)})
    BY <1>6 DEF Delete
  <2>2. Full(R, key) \in Below(DeleteKeys)
    BY <1>1 DEF Below
  <2>3. DeletedAlone(Full(R, key))
    BY <1>6, <2>1 DEF DeletedAlone
  <2> QED
    BY <2>1, <2>2, <2>3 DEF Effect, Removes
<1>7. ASSUME NEW keyPrefix \in PrefixKeys, DeletePrefix(g, keyPrefix) PROVE Effect
  <2>1. PICK R \in seen[g] :
          kv' = Without({k \in DOMAIN kv : HasPrefix(Full(R, keyPrefix), k)})
    BY <1>7 DEF DeletePrefix
  <2>2. Full(R, keyPrefix) \in Below(PrefixKeys)
    BY <1>1 DEF Below
  <2> QED
    BY <2>1, <2>2 DEF Effect, Prunes
<1>8. CASE (\E R \in Roots : SetRoot(g, R)) \/ Close(g)
  BY <1>2, <1>8 DEF SetRoot, Close, Die
<1> QED
  BY <1>3, <1>4, <1>5, <1>6, <1>7, <1>8 DEF Begin

(* A walk is at one of the directories of its key, below a root. *)
LEMMA WalkingCall ==
  ASSUME IInv, NEW g \in Caller, call[g].pc \in {"check", "mark"}, NEW R \in seen[g]
  PROVE  /\ call[g].key \in Path
         /\ call[g].n \in 1 .. Len(call[g].key)
         /\ RootOf(g) \in Roots /\ R \in Roots
         /\ Here(g, R) = Full(R, Cut(call[g].key, call[g].n))
         /\ Here(g, R) \in Path /\ Under(R, Here(g, R))
<1>1. call[g].n >= 1
  BY DEF IInv, CallsFit, Fits
<1>2. /\ RootOf(g) \in Roots /\ R \in Roots /\ R \in Path
      /\ call[g].key \in Path /\ call[g].n \in Nat /\ call[g].n <= Len(call[g].key)
  BY CallFields
<1>3. call[g].n \in 1 .. Len(call[g].key) /\ call[g].n \in 0 .. Len(call[g].key)
  BY <1>1, <1>2, LenIsNat
<1>4. /\ Cut(call[g].key, call[g].n) \in Path
      /\ Len(Cut(call[g].key, call[g].n)) >= 1
  BY <1>1, <1>2, <1>3, CutIs
<1>5. Full(R, Cut(call[g].key, call[g].n)) \in Path
  BY <1>2, <1>4, FullPath
<1>6. Under(R, Full(R, Cut(call[g].key, call[g].n)))
  BY <1>2, <1>4, RootIsAbove
<1> QED
  BY <1>2, <1>3, <1>5, <1>6 DEF Here

LEMMA StepEffect ==
  ASSUME TInv, [Next]_vars
  PROVE  Effect
<1>1. CASE kv' = kv
  BY <1>1 DEF Effect
<1>2. ASSUME NEW g \in Caller, NEW v \in Value, PutLeased(g, v) PROVE Effect
  <2>1. call[g].full \in ValueKeys
    BY <1>2 DEF PutLeased, TInv, CallsHonest, Honest
  <2> QED
    BY <1>2, <2>1, WriteEffect DEF PutLeased
<1>3. ASSUME NEW g \in Caller, Mark(g) PROVE Effect
  <2>1. PICK R \in seen[g] : kv' = kv \/ kv' = Written(Here(g, R), DIR_TAG, FALSE)
    BY <1>3 DEF Mark
  <2>2. Here(g, R) \in Path /\ R \in Roots /\ Under(R, Here(g, R))
    BY <1>3, WalkingCall DEF Mark, TInv
  <2> QED
    BY <1>1, <2>1, <2>2 DEF Effect, Marks
<1>4. ASSUME NEW g \in Caller, Check(g) \/ CloseDone(g) \/ Panic(g) PROVE Effect
  BY <1>1, <1>4 DEF Check, CloseDone, Panic, Die
<1>5. ASSUME NEW x \in DOMAIN kv, Expire(x) PROVE Effect
  BY <1>5 DEF Expire, Effect, Fades
<1>6. ASSUME NEW c \in Client, Crash(c) \/ \E R \in Roots : New(c, R) PROVE Effect
  BY <1>1, <1>6 DEF Crash, Die, New
<1>7. CASE UNCHANGED vars
  BY <1>1, <1>7 DEF vars
<1> QED
  BY <1>2, <1>3, <1>4, <1>5, <1>6, <1>7, BeginEffect DEF Next, Proceed

LEMMA EntriesStep ==
  ASSUME TInv, Effect
  PROVE  MarkersStay' /\ Plain'
<1> ValueKeys' = ValueKeys
  BY DEF ValueKeys, Below
<1>1. CASE kv' = kv
  BY <1>1 DEF TInv, MarkersStay, Plain
<1>2. CASE Marks
  BY <1>2 DEF Marks, TInv, MarkersStay, Plain, Written
<1>3. CASE Values
  <2>1. PICK x \in ValueKeys, v \in Value, leased \in BOOLEAN : kv' = Written(x, v, leased)
    BY <1>3 DEF Values
  <2>2. v # DIR_TAG
    BY KeysArePaths
  <2> QED
    BY <2>1, <2>2 DEF TInv, MarkersStay, Plain, Written
<1>4. ASSUME NEW S, kv' = Without(S) PROVE MarkersStay' /\ Plain'
  BY <1>4 DEF TInv, MarkersStay, Plain, Without
<1>5. CASE Removes
  BY <1>4, <1>5 DEF Removes
<1>6. CASE Fades
  BY <1>4, <1>6 DEF Fades
<1>7. CASE Prunes
  BY <1>4, <1>7 DEF Prunes
<1> QED
  BY <1>1, <1>2, <1>3, <1>5, <1>6, <1>7 DEF Effect

-----------------------------------------------------------------------------
(* The steps keep the calls honest.                                        *)

LEMMA HonestIdle == Honest(Idle)
  BY DEF Honest, Idle

LEMMA HonestWalk ==
  ASSUME NEW key, NEW n
  PROVE  Honest(Walk(key, n))
<1>1. CASE n = 0
  BY <1>1, HonestIdle DEF Walk
<1>2. CASE n # 0
  BY <1>2 DEF Walk, Honest
<1> QED
  BY <1>1, <1>2

LEMMA HonestCalls ==
  ASSUME IInv, CallsHonest, NEW g \in Caller, NEW c, Honest(c),
         call' = [call EXCEPT ![g] = c]
  PROVE  CallsHonest'
<1>1. \A h \in Caller : call'[h] = c \/ call'[h] = call[h]
  BY DEF IInv, TypeOK
<1> QED
  BY <1>1 DEF CallsHonest, Honest, ValueKeys, Below

LEMMA SameCalls ==
  ASSUME CallsHonest, call' = call
  PROVE  CallsHonest'
  BY DEF CallsHonest, Honest, ValueKeys, Below

LEMMA DieHonest ==
  ASSUME CallsHonest, NEW c, Die(c)
  PROVE  CallsHonest'
  BY HonestIdle DEF Die, CallsHonest, Honest, ValueKeys, Below

LEMMA GrantHonest ==
  ASSUME TInv, NEW g \in Caller, NEW key \in PutKeys \cup LiteKeys,
         NEW pc \in {"putTTL", "putTTLLite"}, Grant(g, key, pc)
  PROVE  CallsHonest'
<1>1. CASE Die(ClientOf[g])
  BY <1>1, DieHonest DEF TInv
<1>2. ASSUME NEW R \in seen[g],
             call' = [call EXCEPT ![g] =
                        [pc |-> pc, key |-> key, n |-> 0, full |-> Full(R, key)]]
      PROVE  CallsHonest'
  <2>1. Full(R, key) \in ValueKeys
    BY CallFields DEF TInv, ValueKeys, Below
  <2>2. Honest([pc |-> pc, key |-> key, n |-> 0, full |-> Full(R, key)])
    BY <2>1 DEF Honest
  <2> QED
    BY <1>2, <2>2, HonestCalls DEF TInv
<1> QED
  BY <1>1, <1>2 DEF Grant

LEMMA WriteKeyHonest ==
  ASSUME TInv, NEW g \in Caller, NEW full, NEW key, NEW v, NEW leased, NEW walks,
         WriteKey(g, full, key, v, leased, walks)
  PROVE  CallsHonest'
<1>1. PICK n : call' = [call EXCEPT ![g] = Walk(key, n)]
  BY DEF WriteKey
<1> QED
  BY <1>1, HonestWalk, HonestCalls DEF TInv

LEMMA BeginHonest ==
  ASSUME TInv, NEW g \in Caller, Begin(g)
  PROVE  CallsHonest'
<1>1. ASSUME NEW key, NEW v, Put(g, key, v) \/ PutLite(g, key, v) PROVE CallsHonest'
  BY <1>1, WriteKeyHonest DEF Put, PutLite
<1>2. CASE \/ \E key \in DeleteKeys : Delete(g, key)
           \/ \E keyPrefix \in PrefixKeys : DeletePrefix(g, keyPrefix)
           \/ \E R \in Roots : SetRoot(g, R)
  BY <1>2, SameCalls DEF Delete, DeletePrefix, SetRoot, TInv
<1>3. CASE Close(g)
  <2>1. CASE Die(ClientOf[g])
    BY <2>1, DieHonest DEF TInv
  <2>2. CASE call' = [call EXCEPT ![g].pc = "closing"]
    <3> DEFINE c == [call[g] EXCEPT !.pc = "closing"]
    <3>1. call[g].n = 0 /\ call[g] \in Calls
      BY <1>3, CallFields DEF Close, Ready, TInv, CallsHonest, Honest
    <3>2. Honest(c)
      BY <3>1 DEF Calls, Honest
    <3>3. call' = [call EXCEPT ![g] = c]
      BY <2>2
    <3> HIDE DEF c
    <3> QED
      BY <3>2, <3>3, HonestCalls DEF TInv
  <2> QED
    BY <1>3, <2>1, <2>2 DEF Close
<1> QED
  BY <1>1, <1>2, <1>3, GrantHonest DEF Begin, PutTTL, PutTTLLite

LEMMA ProceedHonest ==
  ASSUME TInv, NEW g \in Caller, Proceed(g)
  PROVE  CallsHonest'
<1>1. ASSUME NEW v \in Value, PutLeased(g, v) PROVE CallsHonest'
  BY <1>1, WriteKeyHonest DEF PutLeased
<1>2. CASE call' = [call EXCEPT ![g] = Walk(call[g].key, call[g].n - 1)]
  BY <1>2, HonestWalk, HonestCalls DEF TInv
<1>3. CASE call' = [call EXCEPT ![g].pc = "mark"]
  <2> DEFINE c == [call[g] EXCEPT !.pc = "mark"]
  <2>1. Honest(c)
    BY CallFields DEF TInv, Calls, Honest
  <2>2. call' = [call EXCEPT ![g] = c]
    BY <1>3
  <2> HIDE DEF c
  <2> QED
    BY <2>1, <2>2, HonestCalls DEF TInv
<1>4. CASE CloseDone(g)
  BY <1>4, HonestIdle, HonestCalls DEF CloseDone, TInv
<1> QED
  BY <1>1, <1>2, <1>3, <1>4 DEF Proceed, Check, Mark

LEMMA TInvStep == TInv /\ [Next]_vars => TInv'
<1> SUFFICES ASSUME TInv, [Next]_vars PROVE TInv'
  OBVIOUS
<1>1. IInv' /\ MarkersStay' /\ Plain'
  BY StepInv, StepEffect, EntriesStep DEF TInv
<1>2. ASSUME NEW g \in Caller, Panic(g) PROVE CallsHonest'
  BY <1>2, DieHonest DEF Panic, TInv
<1>3. ASSUME NEW c \in Client, Crash(c) PROVE CallsHonest'
  BY <1>3, DieHonest DEF Crash, TInv
<1>4. ASSUME NEW k \in DOMAIN kv, Expire(k) PROVE CallsHonest'
  BY <1>4, SameCalls DEF Expire, TInv
<1>5. ASSUME NEW c \in Client, NEW R \in Roots, New(c, R) PROVE CallsHonest'
  BY <1>5, SameCalls DEF New, TInv
<1>6. ASSUME UNCHANGED vars PROVE CallsHonest'
  BY <1>6, SameCalls DEF vars, TInv
<1>7. CallsHonest'
  BY <1>2, <1>3, <1>4, <1>5, <1>6, BeginHonest, ProceedHonest DEF Next
<1> QED
  BY <1>1, <1>7 DEF TInv

LEMMA TInvInit == Init => TInv
<1> SUFFICES ASSUME Init PROVE TInv
  OBVIOUS
<1>1. DOMAIN kv = {}
  BY DEF Init
<1>2. CallsHonest
  BY HonestIdle DEF Init, CallsHonest
<1> QED
  BY <1>1, <1>2, InitInv DEF TInv, MarkersStay, Plain

-----------------------------------------------------------------------------
(* The steps keep the tree closed.                                         *)

TreeInv == TInv /\ TreeClosed

(* How a directory is accounted for. *)
Kept(d) == IsDir(d) \/ d \in bare \/ \E g \in Caller : d \in Owed(g)

LEMMA ClosedIsKept == TreeClosed <=> \A k \in DOMAIN kv : \A d \in Dirs(k) : Kept(d)
  BY DEF TreeClosed, Kept

(* A goroutine that is not walking owes nothing. *)
LEMMA OwesNothing ==
  ASSUME TInv, NEW g \in Caller, call[g].pc \notin {"check", "mark"}
  PROVE  Owed(g) = {}
<1>1. call[g].n = 0
  BY DEF TInv, CallsHonest, Honest
<1> QED
  BY <1>1 DEF Owed, OwedBy

LEMMA OwesTheSame ==
  ASSUME NEW g \in Caller, call'[g] = call[g], seen'[g] = seen[g],
         root'[ClientOf[g]] = root[ClientOf[g]]
  PROVE  Owed(g)' = Owed(g)
  BY DEF Owed, RootOf

(* A request moves nobody else's walk. *)
LEMMA OthersOwe ==
  ASSUME IInv, NEW g \in Caller, root' = root, Requested(g), NEW h \in Caller, h # g,
         call'[h] = call[h]
  PROVE  Owed(h)' = Owed(h)
<1>1. seen'[h] = seen[h]
  BY DEF Requested, IInv, TypeOK
<1> QED
  BY <1>1, OwesTheSame

(* No entry changes: each directory a call no longer owes is accounted for. *)
LEMMA SameEntries ==
  ASSUME TreeClosed, kv' = kv, bare \subseteq bare',
         \A g \in Caller : \A d \in Owed(g) :
           IsDir(d) \/ d \in bare' \/ d \in Owed(g)'
  PROVE  TreeClosed'
<1> SUFFICES ASSUME NEW k \in DOMAIN kv', NEW d \in Dirs(k)
             PROVE  IsDir(d)' \/ d \in bare' \/ \E g \in Caller : d \in Owed(g)'
  BY DEF TreeClosed
<1>1. Kept(d)
  BY ClosedIsKept
<1>2. IsDir(d) => IsDir(d)'
  BY DEF IsDir
<1> QED
  BY <1>1, <1>2 DEF Kept

(* The calls of a store are cut off: what they owed is given up. *)
LEMMA GivenUp ==
  ASSUME TreeClosed, NEW c, kv' = kv, bare' = bare \cup Unmarked(OwedIn(c)),
         \A g \in Caller : ClientOf[g] # c => Owed(g)' = Owed(g)
  PROVE  TreeClosed'
<1>1. ASSUME NEW g \in Caller, NEW d \in Owed(g)
      PROVE  IsDir(d) \/ d \in bare' \/ d \in Owed(g)'
  <2>1. CASE ClientOf[g] = c
    <3>1. d \in OwedIn(c)
      BY <2>1 DEF OwedIn
    <3> QED
      BY <3>1 DEF Unmarked
  <2>2. CASE ClientOf[g] # c
    BY <2>2
  <2> QED
    BY <2>1, <2>2
<1> QED
  BY <1>1, SameEntries

LEMMA DieClosed ==
  ASSUME TreeClosed, NEW c, Die(c)
  PROVE  TreeClosed'
<1>1. ASSUME NEW g \in Caller, ClientOf[g] # c PROVE Owed(g)' = Owed(g)
  BY <1>1, OwesTheSame DEF Die
<1> QED
  BY <1>1, GivenUp DEF Die

LEMMA SetRootClosed ==
  ASSUME IInv, TreeClosed, NEW g \in Caller, NEW R \in Roots, SetRoot(g, R)
  PROVE  TreeClosed'
<1>1. ASSUME NEW h \in Caller, ClientOf[h] # ClientOf[g] PROVE Owed(h)' = Owed(h)
  <2>1. root'[ClientOf[h]] = root[ClientOf[h]] /\ seen'[h] = seen[h]
    BY <1>1, KeysArePaths DEF SetRoot, IInv, TypeOK
  <2> QED
    BY <2>1, OwesTheSame DEF SetRoot
<1> QED
  BY <1>1, GivenUp DEF SetRoot

(* Entries and what is given up do not change, nor do the walks. *)
LEMMA NoWalkMoves ==
  ASSUME TreeClosed, kv' = kv, bare' = bare,
         \A g \in Caller : Owed(g) = {} \/ Owed(g)' = Owed(g)
  PROVE  TreeClosed'
  BY SameEntries

LEMMA GrantClosed ==
  ASSUME TreeInv, NEW g \in Caller, NEW key, NEW pc, Grant(g, key, pc)
  PROVE  TreeClosed'
<1>1. CASE Die(ClientOf[g])
  BY <1>1, DieClosed DEF TreeInv
<1>2. ASSUME NEW c, call' = [call EXCEPT ![g] = c], Requested(g),
             UNCHANGED <<kv, root, status, bare>>
      PROVE  TreeClosed'
  <2>1. Owed(g) = {}
    BY OwesNothing DEF Grant, Ready, TreeInv
  <2>2. ASSUME NEW h \in Caller, h # g PROVE Owed(h)' = Owed(h)
    <3>1. call'[h] = call[h]
      BY <1>2, <2>2 DEF TreeInv, TInv, IInv, TypeOK
    <3> QED
      BY <1>2, <2>2, <3>1, OthersOwe DEF TreeInv, TInv
  <2> QED
    BY <1>2, <2>1, <2>2, NoWalkMoves DEF TreeInv
<1> QED
  BY <1>1, <1>2 DEF Grant

LEMMA CloseClosed ==
  ASSUME TreeInv, NEW g \in Caller, Close(g) \/ CloseDone(g)
  PROVE  TreeClosed'
<1>1. CASE Die(ClientOf[g])
  BY <1>1, DieClosed DEF TreeInv
<1>2. CASE /\ call[g].pc \in {"idle", "closing"} /\ UNCHANGED <<kv, root, seen, bare>>
           /\ \A h \in Caller : h # g => call'[h] = call[h]
  <2>1. Owed(g) = {}
    BY <1>2, OwesNothing DEF TreeInv
  <2>2. ASSUME NEW h \in Caller, h # g PROVE Owed(h)' = Owed(h)
    BY <1>2, <2>2, OwesTheSame
  <2> QED
    BY <1>2, <2>1, <2>2, NoWalkMoves DEF TreeInv
<1>3. call \in [Caller -> Calls]
  BY DEF TreeInv, TInv, IInv, TypeOK
<1>4. ASSUME Close(g), ~Die(ClientOf[g]) PROVE TreeClosed'
  BY <1>2, <1>3, <1>4 DEF Close, Ready
<1>5. ASSUME CloseDone(g) PROVE TreeClosed'
  BY <1>2, <1>3, <1>5 DEF CloseDone
<1> QED
  BY <1>1, <1>4, <1>5

LEMMA NewClosed ==
  ASSUME TreeInv, NEW c \in Client, NEW R \in Roots, New(c, R)
  PROVE  TreeClosed'
<1>1. ASSUME NEW g \in Caller PROVE Owed(g) = {} \/ Owed(g)' = Owed(g)
  <2>1. CASE ClientOf[g] = c
    BY <2>1, OwesNothing DEF New, TreeInv
  <2>2. CASE ClientOf[g] # c
    <3>1. root'[ClientOf[g]] = root[ClientOf[g]] /\ seen'[g] = seen[g]
      BY <2>2, KeysArePaths DEF New, TreeInv, TInv, IInv, TypeOK
    <3> QED
      BY <3>1, OwesTheSame DEF New
  <2> QED
    BY <2>1, <2>2
<1> QED
  BY <1>1, NoWalkMoves DEF New, TreeInv

(* Entries go: a marker among them is given up if there are entries below. *)
LEMMA RemoveClosed ==
  ASSUME TreeClosed, NEW S, kv' = Without(S),
         \A g \in Caller : Owed(g) = {} \/ Owed(g)' = Owed(g),
         \A k \in DOMAIN kv \ S : \A d \in Dirs(k) :
           /\ IsDir(d) => d \notin S \/ d \in bare'
           /\ d \in bare => d \in bare'
  PROVE  TreeClosed'
<1> SUFFICES ASSUME NEW k \in DOMAIN kv', NEW d \in Dirs(k)
             PROVE  IsDir(d)' \/ d \in bare' \/ \E g \in Caller : d \in Owed(g)'
  BY DEF TreeClosed
<1>1. k \in DOMAIN kv \ S
  BY DEF Without
<1>2. Kept(d)
  BY <1>1, ClosedIsKept
<1>3. IsDir(d) => IsDir(d)' \/ d \in bare'
  <2> SUFFICES ASSUME IsDir(d), d \notin bare' PROVE IsDir(d)'
    OBVIOUS
  <2>1. d \in DOMAIN kv \ S
    BY <1>1 DEF IsDir
  <2> QED
    BY <2>1 DEF IsDir, Without
<1> QED
  BY <1>1, <1>2, <1>3 DEF Kept

(* A delete moves no walk. *)
LEMMA DeletingOwes ==
  ASSUME TInv, NEW g \in Caller, Ready(g), Requested(g), UNCHANGED <<root, call>>
  PROVE  \A h \in Caller : Owed(h) = {} \/ Owed(h)' = Owed(h)
<1> SUFFICES ASSUME NEW h \in Caller PROVE Owed(h) = {} \/ Owed(h)' = Owed(h)
  OBVIOUS
<1>1. CASE h = g
  BY <1>1, OwesNothing DEF Ready
<1>2. CASE h # g
  BY <1>2, OthersOwe DEF TInv
<1> QED
  BY <1>1, <1>2

LEMMA DeleteClosed ==
  ASSUME TreeInv, NEW g \in Caller, NEW key \in DeleteKeys, Delete(g, key)
  PROVE  TreeClosed'
<1>1. PICK R \in seen[g] :
        kv' = Without({Full(R, key)}) /\ bare' = bare \cup Marked({Full(R, key)})
  BY DEF Delete
<1>2. \A h \in Caller : Owed(h) = {} \/ Owed(h)' = Owed(h)
  BY DeletingOwes DEF Delete, TreeInv
<1>3. \A d : IsDir(d) => d \notin {Full(R, key)} \/ d \in bare'
  BY <1>1 DEF Marked
<1> QED
  BY <1>1, <1>2, <1>3, RemoveClosed DEF TreeInv

LEMMA DeletePrefixClosed ==
  ASSUME TreeInv, NEW g \in Caller, NEW keyPrefix \in PrefixKeys, DeletePrefix(g, keyPrefix)
  PROVE  TreeClosed'
<1>1. PICK R \in seen[g] :
        /\ kv' = Without({k \in DOMAIN kv : HasPrefix(Full(R, keyPrefix), k)})
        /\ bare' = {d \in bare : ~HasPrefix(Full(R, keyPrefix), d)}
  BY DEF DeletePrefix
<1> DEFINE p == Full(R, keyPrefix)
           S == {k \in DOMAIN kv : HasPrefix(p, k)}
<1>2. p \in Path
  <2>1. keyPrefix \in Path
    BY StoreAssumption DEF StoreAssumption
  <2>2. R \in Path
    BY CallFields DEF TreeInv, TInv
  <2> QED
    BY <2>1, <2>2, FullPath
<1>3. kv' = Without(S) /\ bare' = {d \in bare : ~HasPrefix(p, d)}
  BY <1>1
<1>4. \A h \in Caller : Owed(h) = {} \/ Owed(h)' = Owed(h)
  BY DeletingOwes DEF DeletePrefix, TreeInv
<1> HIDE DEF p
<1>5. ASSUME NEW k \in DOMAIN kv \ S, NEW d \in Dirs(k)
      PROVE  ~HasPrefix(p, d)
  <2>1. k \in Path /\ d \in Path /\ Under(d, k)
    BY DirOfEntry DEF TreeInv, TInv
  <2>2. ~HasPrefix(p, k)
    OBVIOUS
  <2> QED
    BY <1>2, <2>1, <2>2, PrefixOfDir
<1>6. \A k \in DOMAIN kv \ S : \A d \in Dirs(k) :
        d \notin S /\ (d \in bare => d \in bare')
  BY <1>3, <1>5
<1> HIDE DEF S
<1> QED
  BY <1>3, <1>4, <1>6, RemoveClosed DEF TreeInv

LEMMA ExpireClosed ==
  ASSUME TreeInv, NEW x \in DOMAIN kv, Expire(x)
  PROVE  TreeClosed'
<1>1. ~IsDir(x)
  BY DEF Expire, TreeInv, TInv, MarkersStay, IsDir
<1>2. \A d : IsDir(d) => d \notin {x}
  BY <1>1
<1>3. \A h \in Caller : Owed(h)' = Owed(h)
  BY OwesTheSame DEF Expire
<1> QED
  BY <1>2, <1>3, RemoveClosed DEF Expire, TreeInv

(* What is owed after a request that leaves n directories of a key.        *)
LEMMA OwedAfter ==
  ASSUME IInv, NEW g \in Caller, NEW key, NEW n, n # 0,
         call' = [call EXCEPT ![g] = Walk(key, n)], root' = root, Requested(g)
  PROVE  Owed(g)' = OwedBy(RootOf(g), key, n)
<1>1. call'[g].key = key /\ call'[g].n = n
  BY DEF Walk, IInv, TypeOK
<1>2. RootOf(g)' = RootOf(g) /\ seen'[g] = {RootOf(g)}
  BY DEF RootOf, Requested, IInv, TypeOK
<1> QED
  BY <1>1, <1>2 DEF Owed

LEMMA OwedNext ==
  ASSUME IInv, NEW g \in Caller, Requested(g),
         call' = [call EXCEPT ![g] = Walk(call[g].key, call[g].n - 1)], root' = root,
         NEW d \in OwedBy(RootOf(g), call[g].key, call[g].n - 1)
  PROVE  d \in Owed(g)'
<1>1. call[g].n \in Nat
  BY CallFields
<1>2. call[g].n - 1 # 0
  BY <1>1 DEF OwedBy
<1> QED
  BY <1>2, OwedAfter

LEMMA OwedOrHere ==
  ASSUME IInv, NEW g \in Caller, NEW R \in seen[g], NEW d \in Owed(g)
  PROVE  \/ R = RootOf(g) /\ d = Here(g, R)
         \/ d \in OwedBy(RootOf(g), call[g].key, call[g].n - 1)
<1>1. call[g].n \in Nat
  BY CallFields
<1>2. seen[g] = {RootOf(g)} /\ d \in OwedBy(RootOf(g), call[g].key, call[g].n)
  BY DEF Owed
<1>3. PICK i \in 1 .. call[g].n : d = Full(RootOf(g), Cut(call[g].key, i))
  BY <1>2 DEF OwedBy
<1>4. CASE i = call[g].n
  BY <1>2, <1>3, <1>4 DEF Here
<1>5. CASE i # call[g].n
  <2>1. i \in 1 .. call[g].n - 1
    BY <1>1, <1>5
  <2> QED
    BY <1>3, <2>1 DEF OwedBy
<1> QED
  BY <1>4, <1>5

LEMMA CheckClosed ==
  ASSUME TreeInv, NEW g \in Caller, Check(g)
  PROVE  TreeClosed'
<1>1. /\ call[g].pc = "check" /\ UNCHANGED <<kv, root, status, bare>> /\ Requested(g)
      /\ call \in [Caller -> Calls]
  BY DEF Check, TreeInv, TInv, IInv, TypeOK
<1>2. ASSUME NEW h \in Caller, h # g PROVE Owed(h)' = Owed(h)
  <2>1. call'[h] = call[h]
    BY <1>1, <1>2 DEF Check
  <2> QED
    BY <1>1, <1>2, <2>1, OthersOwe DEF TreeInv, TInv
<1>3. ASSUME NEW R \in seen[g], IsDir(Here(g, R)),
             call' = [call EXCEPT ![g] = Walk(call[g].key, call[g].n - 1)]
      PROVE  TreeClosed'
  <2>1. ASSUME NEW d \in Owed(g) PROVE IsDir(d) \/ d \in Owed(g)'
    BY <1>1, <1>3, OwedOrHere, OwedNext DEF TreeInv, TInv
  <2> QED
    BY <1>1, <1>2, <2>1, SameEntries DEF TreeInv
<1>4. CASE call' = [call EXCEPT ![g].pc = "mark"]
  <2>1. call'[g].key = call[g].key /\ call'[g].n = call[g].n
    <3>1. call[g] \in Calls
      BY <1>1
    <3> QED
      BY <1>1, <1>4, <3>1 DEF Calls
  <2>2. Owed(g) \subseteq Owed(g)'
    <3>1. RootOf(g)' = RootOf(g) /\ seen'[g] = {RootOf(g)}
      BY <1>1 DEF RootOf, Requested, TreeInv, TInv, IInv, TypeOK
    <3> QED
      BY <2>1, <3>1 DEF Owed
  <2> QED
    BY <1>1, <1>2, <2>2, SameEntries DEF TreeInv
<1> QED
  BY <1>3, <1>4 DEF Check

LEMMA MarkClosed ==
  ASSUME RootsApart, TreeInv, NEW g \in Caller, Mark(g)
  PROVE  TreeClosed'
<1>1. /\ call[g].pc = "mark" /\ root' = root /\ Requested(g)
      /\ call' = [call EXCEPT ![g] = Walk(call[g].key, call[g].n - 1)]
      /\ call \in [Caller -> Calls]
  BY DEF Mark, TreeInv, TInv, IInv, TypeOK
<1>2. ASSUME NEW h \in Caller, h # g PROVE Owed(h)' = Owed(h)
  <2>1. call'[h] = call[h]
    BY <1>1, <1>2
  <2> QED
    BY <1>1, <1>2, <2>1, OthersOwe DEF TreeInv, TInv
<1>3. ASSUME NEW R \in seen[g], kv' = kv, bare' = bare \cup Unmarked({Here(g, R)})
      PROVE  TreeClosed'
  <2>1. IsDir(Here(g, R)) \/ Here(g, R) \in bare'
    BY <1>3 DEF Unmarked
  <2>2. ASSUME NEW d \in Owed(g) PROVE d = Here(g, R) \/ d \in Owed(g)'
    BY <1>1, <2>2, OwedOrHere, OwedNext DEF TreeInv, TInv
  <2> QED
    BY <1>2, <1>3, <2>1, <2>2, SameEntries DEF TreeInv
<1>4. ASSUME NEW R \in seen[g], NEW missed, kv' = Written(Here(g, R), DIR_TAG, FALSE),
             bare' = (bare \cup missed) \ {Here(g, R)},
             R # RootOf(g) => missed = Unmarked(Dirs(Here(g, R)))
      PROVE  TreeClosed'
  <2>0. PICK here : here = Here(g, R)
    OBVIOUS
  <2> SUFFICES ASSUME NEW k \in DOMAIN kv', NEW d \in Dirs(k)
               PROVE  IsDir(d)' \/ d \in bare' \/ \E h \in Caller : d \in Owed(h)'
    BY DEF TreeClosed
  <2>1. /\ here \in Path /\ R \in Roots /\ RootOf(g) \in Roots
        /\ here = Full(R, Cut(call[g].key, call[g].n))
        /\ call[g].key \in Path /\ call[g].n \in 1 .. Len(call[g].key)
    BY <1>1, <2>0, WalkingCall DEF TreeInv, TInv
  <2>2. kv' = Written(here, DIR_TAG, FALSE) /\ bare' = (bare \cup missed) \ {here}
    BY <1>4, <2>0
  <2>3. R # RootOf(g) => missed = Unmarked(Dirs(here))
    BY <1>4, <2>0
  <2>4. ASSUME NEW e \in Owed(g) PROVE e = here \/ e \in Owed(g)'
    BY <1>1, <2>0, <2>4, OwedOrHere, OwedNext DEF TreeInv, TInv
  <2>5. d # here /\ IsDir(d) => IsDir(d)'
    BY <2>2 DEF IsDir, Written
  <2>6. IsDir(here)'
    BY <2>2 DEF IsDir, Written
  <2>7. CASE k = here
    <3>1. CASE R = RootOf(g)
      <4>1. d \in OwedBy(RootOf(g), call[g].key, call[g].n - 1)
        BY <2>1, <2>7, <3>1, DirsAreOwed
      <4> QED
        BY <1>1, <4>1, OwedNext DEF TreeInv, TInv
    <3>2. CASE R # RootOf(g)
      <4>1. d # here
        BY <2>1, <2>7, DirIs, LenIsNat DEF Under
      <4>2. IsDir(d) \/ d \in missed
        BY <2>3, <2>7, <3>2 DEF Unmarked
      <4> QED
        BY <2>2, <2>5, <4>1, <4>2
    <3> QED
      BY <3>1, <3>2
  <2>8. CASE k # here
    <3>1. k \in DOMAIN kv
      BY <2>2, <2>8 DEF Written
    <3>2. Kept(d)
      BY <3>1, ClosedIsKept DEF TreeInv
    <3> QED
      BY <1>2, <2>2, <2>4, <2>5, <2>6, <3>2 DEF Kept
  <2> QED
    BY <2>7, <2>8
<1> QED
  BY <1>3, <1>4 DEF Mark

(* The write of an entry: its own directories are owed or given up, and a  *)
(* marker in whose place it comes is given up, or is a marker again.       *)
LEMMA WriteKeyClosed ==
  ASSUME RootsApart, TreeInv, NEW g \in Caller, call[g].pc \notin {"check", "mark"},
         NEW key \in Path, Len(key) >= 1, NEW full \in Path, NEW v, NEW leased,
         NEW walks, WriteKey(g, full, key, v, leased, walks)
  PROVE  TreeClosed'
<1> DEFINE N(answer) ==
      IF answer = "ok" /\ walks /\ v # DIR_TAG THEN Len(key) - 1 ELSE 0
           Pays(answer) == N(answer) = Len(key) - 1 /\ full = Full(RootOf(g), key)
<1>1. PICK answer \in Answers(g) :
        /\ call' = [call EXCEPT ![g] = Walk(key, N(answer))]
        /\ IF answer = "fail" THEN UNCHANGED <<kv, bare>>
           ELSE /\ kv' = Written(full, v, leased)
                /\ bare' = IF v = DIR_TAG
                           THEN (bare \cup (IF Pays(answer) THEN {} ELSE Unmarked(Dirs(full))))
                                  \ {full}
                           ELSE bare \cup (IF Pays(answer) THEN {} ELSE Unmarked(Dirs(full)))
                                  \cup Marked({full})
        /\ Requested(g)
        /\ UNCHANGED <<root, status>>
  BY DEF WriteKey
<1> HIDE DEF N
<1>2. call \in [Caller -> Calls]
  BY DEF TreeInv, TInv, IInv, TypeOK
<1>3. ASSUME NEW h \in Caller, h # g PROVE Owed(h)' = Owed(h)
  <2>1. call'[h] = call[h]
    BY <1>1, <1>2, <1>3
  <2> QED
    BY <1>1, <1>3, <2>1, OthersOwe DEF TreeInv, TInv
<1>4. Owed(g) = {}
  BY OwesNothing DEF TreeInv
<1>5. CASE answer = "fail"
  BY <1>1, <1>3, <1>4, <1>5, NoWalkMoves DEF TreeInv
<1>6. CASE answer # "fail"
  <2> SUFFICES ASSUME NEW k \in DOMAIN kv', NEW d \in Dirs(k)
               PROVE  IsDir(d)' \/ d \in bare' \/ \E h \in Caller : d \in Owed(h)'
    BY DEF TreeClosed
  <2>1. kv' = Written(full, v, leased)
    BY <1>1, <1>6
  <2>2. /\ full \in DOMAIN kv' /\ kv'[full].val = v
        /\ \A x \in DOMAIN kv : x \in DOMAIN kv' /\ (x # full => kv'[x] = kv[x])
        /\ \A x \in DOMAIN kv' : x = full \/ x \in DOMAIN kv
    BY <2>1 DEF Written
  <2>3. /\ \A x \in bare : x \in bare' \/ (v = DIR_TAG /\ x = full)
        /\ v # DIR_TAG /\ IsDir(full) => full \in bare'
        /\ ~Pays(answer) => \A x \in Unmarked(Dirs(full)) : x \in bare' \/ x = full
    BY <1>1, <1>6 DEF Marked
  <2>4. CASE k = full
    <3>1. d # full
      BY <2>4, DirIs, LenIsNat DEF Under
    <3>2. CASE IsDir(d)
      BY <2>2, <3>1, <3>2 DEF IsDir
    <3>3. CASE ~IsDir(d) /\ ~Pays(answer)
      BY <2>3, <2>4, <3>1, <3>3 DEF Unmarked
    <3>4. CASE Pays(answer)
      <4>1. RootOf(g) \in Roots /\ Len(key) \in 1 .. Len(key) /\ Len(key) \in Nat
        BY LenIsNat, CallFields DEF TreeInv, TInv
      <4>2. full = Full(RootOf(g), Cut(key, Len(key)))
        BY <3>4, WholeCut
      <4>3. d \in OwedBy(RootOf(g), key, Len(key) - 1)
        BY <2>4, <4>1, <4>2, DirsAreOwed
      <4>4. N(answer) = Len(key) - 1 /\ N(answer) # 0
        <5>1. OwedBy(RootOf(g), key, 0) = {}
          BY DEF OwedBy
        <5>2. Len(key) - 1 # 0
          BY <4>3, <5>1
        <5>3. N(answer) = Len(key) - 1
          BY <3>4
        <5> QED
          BY <5>2, <5>3
      <4>5. Owed(g)' = OwedBy(RootOf(g), key, N(answer))
        BY <1>1, <4>4, OwedAfter DEF TreeInv, TInv
      <4> QED
        BY <4>3, <4>4, <4>5
    <3> QED
      BY <3>2, <3>3, <3>4
  <2>5. CASE k # full
    <3>1. k \in DOMAIN kv
      BY <2>2, <2>5
    <3>2. Kept(d)
      BY <3>1, ClosedIsKept DEF TreeInv
    <3>3. IsDir(d) => IsDir(d)' \/ d \in bare'
      BY <2>2, <2>3 DEF IsDir
    <3>4. d \in bare => IsDir(d)' \/ d \in bare'
      BY <2>2, <2>3 DEF IsDir
    <3>5. \A h \in Caller : d \in Owed(h) => d \in Owed(h)'
      BY <1>3, <1>4
    <3> QED
      BY <3>2, <3>3, <3>4, <3>5 DEF Kept
  <2> QED
    BY <2>4, <2>5
<1> QED
  BY <1>5, <1>6

(* Put and PutLite, of a value or of a marker. *)
LEMMA PutClosed ==
  ASSUME RootsApart, TreeInv, NEW g \in Caller,
         NEW key \in PutKeys \cup LiteKeys \cup MarkKeys, NEW v,
         Put(g, key, v) \/ PutLite(g, key, v)
  PROVE  TreeClosed'
<1>1. PICK R \in seen[g], walks \in BOOLEAN : WriteKey(g, Full(R, key), key, v, FALSE, walks)
  BY DEF Put, PutLite
<1>2. key \in Path /\ Len(key) >= 1 /\ Full(R, key) \in Path
  BY KeysArePaths, CallFields, FullPath DEF TreeInv, TInv
<1>3. call[g].pc \notin {"check", "mark"}
  BY DEF Put, PutLite, Ready
<1> QED
  BY <1>1, <1>2, <1>3, WriteKeyClosed

LEMMA PutLeasedClosed ==
  ASSUME RootsApart, TreeInv, NEW g \in Caller, NEW v \in Value, PutLeased(g, v)
  PROVE  TreeClosed'
<1>1. /\ call[g].pc \in {"putTTL", "putTTLLite"}
      /\ WriteKey(g, call[g].full, call[g].key, v, TRUE, call[g].pc = "putTTL")
  BY DEF PutLeased
<1>2. call[g].key \in Path /\ call[g].full \in Path /\ Len(call[g].key) >= 1
  BY <1>1, CallFields DEF TreeInv, TInv, IInv, CallsFit, Fits
<1>3. call[g].pc \notin {"check", "mark"}
  BY <1>1
<1> QED
  BY <1>1, <1>2, <1>3, WriteKeyClosed

LEMMA BeginClosed ==
  ASSUME RootsApart, TreeInv, NEW g \in Caller, Begin(g)
  PROVE  TreeClosed'
<1>1. CASE \E key \in PutKeys : PutTTL(g, key) \/ \E v \in Value : Put(g, key, v)
  BY <1>1, GrantClosed, PutClosed DEF PutTTL
<1>2. CASE \E key \in LiteKeys :
             PutTTLLite(g, key) \/ \E v \in Value : PutLite(g, key, v)
  BY <1>2, GrantClosed, PutClosed DEF PutTTLLite
<1>3. CASE \E key \in MarkKeys : Put(g, key, DIR_TAG)
  BY <1>3, PutClosed
<1>4. CASE \E key \in DeleteKeys : Delete(g, key)
  BY <1>4, DeleteClosed
<1>5. CASE \E keyPrefix \in PrefixKeys : DeletePrefix(g, keyPrefix)
  BY <1>5, DeletePrefixClosed
<1>6. CASE \E R \in Roots : SetRoot(g, R)
  BY <1>6, SetRootClosed DEF TreeInv, TInv
<1>7. CASE Close(g)
  BY <1>7, CloseClosed
<1> QED
  BY <1>1, <1>2, <1>3, <1>4, <1>5, <1>6, <1>7 DEF Begin

LEMMA TreeStep ==
  ASSUME RootsApart, TreeInv, [Next]_vars
  PROVE  TreeInv'
<1>1. TInv'
  BY TInvStep DEF TreeInv
<1>2. ASSUME NEW g \in Caller, Proceed(g) PROVE TreeClosed'
  <2>1. ASSUME NEW v \in Value, PutLeased(g, v) PROVE TreeClosed'
    BY <2>1, PutLeasedClosed
  <2> QED
    BY <1>2, <2>1, CheckClosed, MarkClosed, CloseClosed DEF Proceed
<1>3. ASSUME NEW g \in Caller, Panic(g) PROVE TreeClosed'
  BY <1>3, DieClosed DEF Panic, TreeInv
<1>4. ASSUME NEW k \in DOMAIN kv, Expire(k) PROVE TreeClosed'
  BY <1>4, ExpireClosed
<1>5. ASSUME NEW c \in Client, Crash(c) PROVE TreeClosed'
  BY <1>5, DieClosed DEF Crash, TreeInv
<1>6. ASSUME NEW c \in Client, NEW R \in Roots, New(c, R) PROVE TreeClosed'
  BY <1>6, NewClosed
<1>7. ASSUME UNCHANGED vars PROVE TreeClosed'
  BY <1>7, OwesTheSame, NoWalkMoves DEF vars, TreeInv
<1>8. TreeClosed'
  BY <1>2, <1>3, <1>4, <1>5, <1>6, <1>7, BeginClosed DEF Next
<1> QED
  BY <1>1, <1>8 DEF TreeInv

LEMMA TreeInit == Init => TreeInv
<1> SUFFICES ASSUME Init PROVE TreeInv
  OBVIOUS
<1>1. DOMAIN kv = {}
  BY DEF Init
<1> QED
  BY <1>1, TInvInit DEF TreeInv, TreeClosed

(* Whatever calls, deletes, expiries, faults and root changes interleave   *)
(* with it, before a request too, buildForDirectory leaves no entry        *)
(* without the markers of its directories but those that are still owed    *)
(* and those some call left without one.                                   *)
THEOREM TreeStaysClosed ==
  ASSUME RootsApart
  PROVE  Spec => []TreeClosed
<1>1. TreeInv /\ [Next]_vars => TreeInv'
  BY TreeStep
<1>2. TreeInv => TreeClosed
  BY DEF TreeInv
<1> QED
  BY TreeInit, <1>1, <1>2, PTL DEF Spec

-----------------------------------------------------------------------------
(* Nothing else hides an entry.                                            *)

(* How the marker above an entry that stays can go. *)
LEMMA MarkerGoes ==
  ASSUME TInv, [Next]_vars, NEW k \in DOMAIN kv, k \in DOMAIN kv',
         NEW d \in Dirs(k), IsDir(d), ~IsDir(d)'
  PROVE  DeletedAlone(d) \/ Overwritten(d)
<1>1. Effect
  BY StepEffect
<1>2. d \in DOMAIN kv /\ kv[d].val = DIR_TAG
  BY DEF IsDir
<1>3. CASE kv' = kv
  BY <1>3 DEF IsDir
<1>4. CASE Marks
  BY <1>4 DEF Marks, IsDir, Written
<1>5. CASE Values
  <2>1. PICK x \in ValueKeys, v \in Value, leased \in BOOLEAN : kv' = Written(x, v, leased)
    BY <1>5 DEF Values
  <2>2. d = x
    BY <1>2, <2>1 DEF IsDir, Written
  <2>3. d \in DOMAIN kv' /\ kv'[d].val = v
    BY <2>1, <2>2 DEF Written
  <2> QED
    BY <2>3 DEF Overwritten
<1>6. CASE Removes
  <2>1. PICK x \in Below(DeleteKeys) : DeletedAlone(x) /\ kv' = Without({x})
    BY <1>6 DEF Removes
  <2>2. d = x
    BY <1>2, <2>1 DEF IsDir, Without
  <2> QED
    BY <2>1, <2>2
<1>7. CASE Fades
  <2>1. PICK x \in DOMAIN kv : kv[x].leased /\ kv' = Without({x})
    BY <1>7 DEF Fades
  <2>2. x # d
    BY <1>2, <2>1 DEF TInv, MarkersStay
  <2> QED
    BY <1>2, <2>1, <2>2 DEF IsDir, Without
<1>8. CASE Prunes
  <2>1. PICK p \in Below(PrefixKeys) : kv' = Without({x \in DOMAIN kv : HasPrefix(p, x)})
    BY <1>8 DEF Prunes
  <2>2. p \in Path
    BY <2>1, PrefixIsPath
  <2>3. ~HasPrefix(p, k)
    BY <2>1 DEF Without
  <2>4. ~HasPrefix(p, d)
    BY <2>2, <2>3, DirOfEntry, PrefixOfDir DEF TInv
  <2> QED
    BY <1>2, <2>1, <2>4 DEF IsDir, Without
<1> QED
  BY <1>1, <1>3, <1>4, <1>5, <1>6, <1>7, <1>8 DEF Effect

(* An entry a tree browser shows is shown for as long as it is stored,     *)
(* unless one of its directories is deleted alone or given a value:        *)
(* deleted prefixes, expiries, walks, faults and root changes hide nothing.*)
THEOREM NothingElseHides == Spec => NeverHidden
<1>1. TInv /\ [Next]_vars =>
        [\A k \in Visible : k \in DOMAIN kv' =>
           \/ k \in Visible'
           \/ \E d \in Dirs(k) : IsDir(d) /\ (DeletedAlone(d) \/ Overwritten(d))]_vars
  <2> SUFFICES ASSUME TInv, [Next]_vars, NEW k \in Visible, k \in DOMAIN kv', k \notin Visible'
               PROVE  \E d \in Dirs(k) : IsDir(d) /\ (DeletedAlone(d) \/ Overwritten(d))
    OBVIOUS
  <2>1. PICK d \in Dirs(k) : ~IsDir(d)'
    BY DEF Visible
  <2>2. k \in DOMAIN kv /\ IsDir(d)
    BY DEF Visible
  <2>3. DeletedAlone(d) \/ Overwritten(d)
    BY <2>1, <2>2, MarkerGoes
  <2> QED
    BY <2>2, <2>3
<1> QED
  BY TInvInit, TInvStep, <1>1, PTL DEF Spec, NeverHidden

-----------------------------------------------------------------------------
(* The refinement of DirTree.                                              *)

(* DirTree reads paths as the store does. *)
LEMMA BrowserPaths ==
  ASSUME NEW d, NEW k
  PROVE  /\ Browser!Under(d, k) <=> Under(d, k)
         /\ Browser!HasPrefix(d, k) <=> HasPrefix(d, k)
  BY DEF Browser!Under, Under, Browser!HasPrefix, HasPrefix

(* A path below a root, and what may be seen there. *)
Inner(x) == x \in Path /\ \E R \in Roots : Under(R, x)

(* What is under a path is seen only if the path is a directory in sight.  *)
LEMMA SeenBelow ==
  ASSUME TInv, NEW x, Inner(x), NEW k \in Visible, Under(x, k)
  PROVE  x \in Dirs(k) /\ IsDir(x) /\ x \in Visible
<1>1. k \in DOMAIN kv /\ k \in Path /\ \A d \in Dirs(k) : IsDir(d)
  BY DEF Visible, TInv, IInv, TypeOK
<1>2. x \in Dirs(k)
  BY <1>1, UnderIsDir DEF Inner
<1>3. \A d \in Dirs(x) : IsDir(d)
  BY <1>1, <1>2, DirOfDir
<1> QED
  BY <1>1, <1>2, <1>3 DEF Visible, IsDir

(* A path is no directory any more: what is under it cannot be seen, the   *)
(* rest is as it was.                                                      *)
LEMMA Uncovered ==
  ASSUME TInv, NEW x, Inner(x), ~IsDir(x)',
         \A y : y # x => (y \in DOMAIN kv' <=> y \in DOMAIN kv)
                         /\ (IsDir(y)' <=> IsDir(y))
  PROVE  \A k : k # x => (k \in Visible' <=> k \in Visible /\ ~Under(x, k))
<1> SUFFICES ASSUME NEW k, k # x
             PROVE  k \in Visible' <=> k \in Visible /\ ~Under(x, k)
  OBVIOUS
<1>1. k \in DOMAIN kv' <=> k \in DOMAIN kv
  OBVIOUS
<1>2. ASSUME k \in Visible' PROVE k \in Visible /\ ~Under(x, k)
  <2>1. k \in DOMAIN kv /\ \A d \in Dirs(k) : IsDir(d)'
    BY <1>1, <1>2 DEF Visible
  <2>2. x \notin Dirs(k)
    BY <2>1
  <2>3. \A d \in Dirs(k) : IsDir(d)
    BY <2>1, <2>2
  <2>4. k \in Visible
    BY <2>1, <2>3 DEF Visible
  <2> QED
    BY <2>2, <2>4, SeenBelow
<1>3. ASSUME k \in Visible, ~Under(x, k) PROVE k \in Visible'
  <2>1. k \in DOMAIN kv /\ \A d \in Dirs(k) : IsDir(d)
    BY <1>3 DEF Visible
  <2>2. x \notin Dirs(k)
    BY <1>3, <2>1, DirOfEntry DEF TInv
  <2> QED
    BY <1>1, <2>1, <2>2 DEF Visible
<1> QED
  BY <1>2, <1>3

LEMMA MarkShows ==
  ASSUME TInv, Marks
  PROVE  [Browser!Next]_Visible
<1>1. PICK x \in Path : (\E R \in Roots : Under(R, x)) /\ kv' = Written(x, DIR_TAG, FALSE)
  BY DEF Marks
<1>2. /\ DOMAIN kv' = DOMAIN kv \cup {x} /\ IsDir(x)'
      /\ \A y : y # x => (IsDir(y)' <=> IsDir(y))
  BY <1>1 DEF Written, IsDir
<1>3. \A y : IsDir(y) => IsDir(y)'
  BY <1>2
<1>4. Visible \subseteq Visible'
  BY <1>2, <1>3 DEF Visible
<1>5. ASSUME NEW j \in Visible', j \notin Visible, j # x
      PROVE  j \in DOMAIN kv /\ x \in Dirs(j) /\ ~IsDir(x) /\ j \in Path /\ Under(x, j)
  <2>1. j \in DOMAIN kv /\ \A d \in Dirs(j) : IsDir(d)'
    BY <1>2, <1>5 DEF Visible
  <2>2. PICK d \in Dirs(j) : ~IsDir(d)
    BY <1>5, <2>1 DEF Visible
  <2>3. d = x
    BY <1>2, <2>1, <2>2
  <2> QED
    BY <2>1, <2>2, <2>3, DirOfEntry DEF TInv
<1>6. ASSUME NEW j \in Visible', j \notin Visible
      PROVE  \E k \in Visible' : Browser!Grow(k) \/ Browser!Open(k)
  <2>1. x \in Visible'
    <3>1. CASE j = x
      BY <1>6, <3>1
    <3>2. CASE j # x
      <4>1. j \in Path /\ x \in Dirs(j) /\ \A d \in Dirs(j) : IsDir(d)'
        BY <1>5, <1>6, <3>2 DEF Visible
      <4>2. \A d \in Dirs(x) : IsDir(d)'
        BY <4>1, DirOfDir
      <4> QED
        BY <1>2, <4>2 DEF Visible
    <3> QED
      BY <3>1, <3>2
  <2>2. Browser!Shows(x)
    <3>1. \A i \in Visible' \ Visible : i = x \/ Under(x, i)
      BY <1>5
    <3> QED
      BY <1>4, <2>1, <3>1, BrowserPaths DEF Browser!Shows
  <2>3. CASE x \notin Visible
    BY <2>1, <2>2, <2>3 DEF Browser!Grow
  <2>4. CASE x \in Visible
    <3>1. ~IsDir(x)
      BY <1>5, <1>6, <2>4
    <3>2. \A i \in Visible : ~Under(x, i)
      BY <1>1, <3>1, SeenBelow DEF Inner
    <3> QED
      BY <2>1, <2>2, <2>4, <3>2, BrowserPaths DEF Browser!Open
  <2> QED
    BY <2>3, <2>4
<1>7. CASE Visible' = Visible
  BY <1>7
<1>8. CASE \E j \in Visible' : j \notin Visible
  BY <1>6, <1>8 DEF Browser!Next
<1> QED
  BY <1>4, <1>7, <1>8

LEMMA ValueCovers ==
  ASSUME TInv, Values
  PROVE  [Browser!Next]_Visible
<1>1. PICK x \in ValueKeys, v \in Value, leased \in BOOLEAN : kv' = Written(x, v, leased)
  BY DEF Values
<1>2. Inner(x)
  BY <1>1, BelowIs DEF Inner, ValueKeys, Below
<1>3. ~Under(x, x)
  BY <1>2, LenIsNat DEF Inner, Under
<1>4. /\ x \in DOMAIN kv' /\ ~IsDir(x)'
      /\ \A y : y # x => (y \in DOMAIN kv' <=> y \in DOMAIN kv) /\ (IsDir(y)' <=> IsDir(y))
  BY <1>1, KeysArePaths DEF Written, IsDir
<1>5. \A k : k # x => (k \in Visible' <=> k \in Visible /\ ~Under(x, k))
  BY <1>2, <1>4, Uncovered
<1>6. x \in Visible' <=> \A d \in Dirs(x) : IsDir(d)
  <2>1. x \notin Dirs(x)
    BY <1>2, <1>3, DirIs DEF Inner
  <2> QED
    BY <1>4, <2>1 DEF Visible
<1>7. CASE x \in Visible
  <2>1. Visible' = {j \in Visible : ~Under(x, j)}
    BY <1>3, <1>5, <1>6, <1>7 DEF Visible
  <2>2. Browser!Cover(x)
    BY <1>1, <2>1, BrowserPaths DEF Browser!Cover, ValueKeys
  <2> QED
    BY <1>7, <2>2 DEF Browser!Next
<1>8. CASE x \notin Visible
  <2>1. \A j \in Visible : ~Under(x, j)
    BY <1>2, <1>8, SeenBelow
  <2>2. CASE x \notin Visible'
    BY <1>5, <1>8, <2>1, <2>2
  <2>3. CASE x \in Visible'
    <3>1. Visible' = Visible \cup {x}
      BY <1>5, <2>1, <2>3
    <3>2. Browser!Grow(x)
      BY <1>8, <3>1 DEF Browser!Grow, Browser!Shows
    <3> QED
      BY <2>3, <3>2 DEF Browser!Next
  <2> QED
    BY <2>2, <2>3
<1> QED
  BY <1>7, <1>8

(* An entry is taken alone: what is under it goes out of sight with it.    *)
LEMMA OneTaken ==
  ASSUME TInv, NEW x, Inner(x), kv' = Without({x})
  PROVE  /\ Visible' = {j \in Visible : j # x /\ ~Under(x, j)}
         /\ x \notin Visible => Visible' = Visible
<1>1. /\ x \notin DOMAIN kv' /\ ~IsDir(x)'
      /\ \A y : y # x => (y \in DOMAIN kv' <=> y \in DOMAIN kv) /\ (IsDir(y)' <=> IsDir(y))
  BY DEF Without, IsDir
<1>2. \A k : k # x => (k \in Visible' <=> k \in Visible /\ ~Under(x, k))
  BY <1>1, Uncovered
<1>3. x \notin Visible'
  BY <1>1 DEF Visible
<1>4. Visible' = {j \in Visible : j # x /\ ~Under(x, j)}
  BY <1>2, <1>3
<1>5. x \notin Visible => \A j \in Visible : ~Under(x, j)
  BY SeenBelow
<1> QED
  BY <1>4, <1>5

LEMMA RemoveDrops ==
  ASSUME TInv, Removes
  PROVE  [Browser!Next]_Visible
<1>1. PICK x \in Below(DeleteKeys) : kv' = Without({x})
  BY DEF Removes
<1>2. Inner(x)
  BY <1>1, BelowIs DEF Inner, Below
<1>3. CASE x \in Visible
  <2>1. Browser!Drop(x)
    BY <1>1, <1>2, OneTaken, BrowserPaths DEF Browser!Drop
  <2> QED
    BY <1>3, <2>1 DEF Browser!Next
<1>4. CASE x \notin Visible
  BY <1>1, <1>2, <1>4, OneTaken
<1> QED
  BY <1>3, <1>4

LEMMA ExpiryFades ==
  ASSUME TInv, Fades
  PROVE  [Browser!Next]_Visible
<1>1. PICK x \in DOMAIN kv : kv[x].leased /\ kv' = Without({x})
  BY DEF Fades
<1>2. x \in ValueKeys /\ ~IsDir(x)
  BY <1>1 DEF TInv, MarkersStay, Plain, IsDir
<1>3. Inner(x)
  BY <1>2, BelowIs DEF Inner, ValueKeys, Below
<1>4. CASE x \in Visible
  <2>1. \A j \in Visible : ~Under(x, j)
    BY <1>2, <1>3, SeenBelow
  <2>2. Visible' = Visible \ {x}
    BY <1>1, <1>3, <2>1, OneTaken
  <2>3. Browser!Fade(x)
    BY <1>2, <1>4, <2>1, <2>2, BrowserPaths DEF Browser!Fade, ValueKeys
  <2> QED
    BY <1>4, <2>3 DEF Browser!Next
<1>5. CASE x \notin Visible
  BY <1>1, <1>3, <1>5, OneTaken
<1> QED
  BY <1>4, <1>5

(* A prefix takes the directories of an entry only along with the entry.   *)
LEMMA PrunePrunes ==
  ASSUME TInv, Prunes
  PROVE  [Browser!Next]_Visible
<1>1. PICK p \in Below(PrefixKeys) : kv' = Without({k \in DOMAIN kv : HasPrefix(p, k)})
  BY DEF Prunes
<1>2. p \in Path
  BY <1>1, PrefixIsPath
<1>3. /\ DOMAIN kv' = {k \in DOMAIN kv : ~HasPrefix(p, k)}
      /\ \A y \in DOMAIN kv' : kv'[y] = kv[y]
  BY <1>1 DEF Without
<1>4. ASSUME NEW k \in DOMAIN kv', NEW d \in Dirs(k) PROVE IsDir(d)' <=> IsDir(d)
  <2>1. ~HasPrefix(p, d)
    BY <1>2, <1>3, DirOfEntry, PrefixOfDir DEF TInv
  <2> QED
    BY <1>3, <2>1 DEF IsDir
<1>5. Visible' = {k \in Visible : ~HasPrefix(p, k)}
  BY <1>3, <1>4 DEF Visible
<1>6. Browser!Prune(p)
  BY <1>5, BrowserPaths DEF Browser!Prune
<1> QED
  BY <1>6 DEF Browser!Next

(* The store implements DirTree: whatever the interleaving of requests and *)
(* whatever goes wrong, what a tree browser shows grows at one place at a  *)
(* time, and shrinks by a prefix, by an entry deleted with what is below   *)
(* it, by one that expires, or by a value over a directory.                *)
THEOREM StoreImplementsDirTree == Spec => BrowsesAsATree
<1>1. Init => Browser!Init
  <2> SUFFICES ASSUME Init PROVE Browser!Init
    OBVIOUS
  <2>1. DOMAIN kv = {}
    BY DEF Init
  <2> QED
    BY <2>1 DEF Visible, Browser!Init
<1>2. TInv /\ [Next]_vars => [Browser!Next]_Visible
  <2> SUFFICES ASSUME TInv, [Next]_vars PROVE [Browser!Next]_Visible
    OBVIOUS
  <2>1. CASE kv' = kv
    BY <2>1 DEF Visible, IsDir
  <2> QED
    BY <2>1, StepEffect, MarkShows, ValueCovers, RemoveDrops, ExpiryFades, PrunePrunes
    DEF Effect
<1> QED
  BY TInvInit, TInvStep, <1>1, <1>2, PTL DEF Spec, BrowsesAsATree, Browser!Spec
=============================================================================
