----------------------------- MODULE EtcdStore -----------------------------
(***************************************************************************)
(* KVStoreEtcd (src/etcd/core.go): several goroutines (Caller) use several *)
(* stores (Client, one KVStoreEtcd and its Etcdtool in a process of its    *)
(* own) on one etcd cluster.                                               *)
(*                                                                         *)
(* etcd has no directories.  To make one show up in a tree browser, every  *)
(* Put walks up from the key it wrote and gives each directory above it a  *)
(* marker: an entry whose value is DIR_TAG (buildForDirectory).  The walk  *)
(* is a sequence of separate requests, which other callers' writes and     *)
(* deletes, lost answers, crashes, lease expiry, SetRoot and Close         *)
(* interleave with.  One action below is one request to etcd together with *)
(* the local code up to the next request.                                  *)
(***************************************************************************)
EXTENDS EtcdPaths, FiniteSets

CONSTANTS
  Client,      \* KVStoreEtcd objects, each in a process of its own
  Caller,      \* goroutines
  ClientOf,    \* the store each goroutine uses
  Roots,       \* values Etcdtool.Root takes
  Value,       \* values of ordinary entries
  DIR_TAG,     \* the value of a directory marker
  PutKeys,     \* keys (below the root) that callers Put, PutTTL or PutYaml
  LiteKeys,    \* keys that callers put with a Lite call
  MarkKeys,    \* keys that callers put DIR_TAG at themselves
  DeleteKeys,  \* keys that callers pass to Delete
  PrefixKeys,  \* prefixes that callers pass to DeletePrefix
  Faults       \* what may go wrong: "fail", "lost", "crash"

ASSUME StoreAssumption ==
  /\ ClientOf \in [Caller -> Client]
  /\ Roots \subseteq Path /\ Roots # {}
  /\ PutKeys \subseteq Path \ {<< >>}
  /\ LiteKeys \subseteq Path \ {<< >>}
  /\ MarkKeys \subseteq Path \ {<< >>}
  /\ DeleteKeys \subseteq Path \ {<< >>}
  /\ PrefixKeys \subseteq Path
  /\ DIR_TAG \notin Value
  /\ Faults \subseteq {"fail", "lost", "crash"}

VARIABLES
  kv,       \* the entries of the cluster: path -> [val, leased]
  root,     \* s.e.Root of each store
  status,   \* "open", "closed" (s.Client = nil) or "dead" (process gone)
  call,     \* what each goroutine is executing
  seen,     \* the roots its store has had since each goroutine's last step
  bare      \* history: directories some call left without their marker

vars == <<kv, root, status, call, seen, bare>>

-----------------------------------------------------------------------------
(* The contents of the cluster.                                            *)

Entry == [val : Value \cup {DIR_TAG}, leased : BOOLEAN]

IsDir(k) == k \in DOMAIN kv /\ kv[k].val = DIR_TAG

Written(k, v, leased) ==
  [x \in DOMAIN kv \cup {k} |->
     IF x = k THEN [val |-> v, leased |-> leased] ELSE kv[x]]

Without(S) == [x \in DOMAIN kv \ S |-> kv[x]]

-----------------------------------------------------------------------------
(* The goroutines.  key and n are key_old and len(sc) of the walk up the   *)
(* directories; full is the key computed before the lease was granted.     *)

Idle == [pc |-> "idle", key |-> << >>, n |-> 0, full |-> << >>]

(* Mutants of Walk: the loop leaves the topmost directory out; the loop    *)
(* has no bound.                                                           *)
WalkSkipsTop(key, n) ==
  IF n <= 1 THEN Idle
            ELSE [pc |-> "check", key |-> key, n |-> n, full |-> << >>]
WalkUnbounded(key, n) == [pc |-> "check", key |-> key, n |-> n, full |-> << >>]

Walk(key, n) ==
  IF n = 0 THEN Idle
           ELSE [pc |-> "check", key |-> key, n |-> n, full |-> << >>]

RootOf(g) == root[ClientOf[g]]

(* A request is made below the root that was read before it, which another *)
(* goroutine may have changed since: any of seen[g].  With the request the *)
(* goroutine has used what it read.                                        *)
Requested(g) == seen' = [seen EXCEPT ![g] = {RootOf(g)}]

Up(g) == status[ClientOf[g]] = "open"

Ready(g) == Up(g) /\ call[g].pc = "idle"

Full(r, key) == r \o key

(* Mutant of Here: the marker is put without the root.                     *)
HereWithoutRoot(g, R) == Cut(call[g].key, call[g].n)

(* The directory the loop of buildForDirectory is at, below root R.        *)
Here(g, R) == Full(R, Cut(call[g].key, call[g].n))

Closing(c) == \E g \in Caller : ClientOf[g] = c /\ call[g].pc = "closing"

(* How a request ends: done, refused, or done with the answer lost.        *)
(* A client that is being closed refuses the requests in flight.           *)
Answers(g) ==
  {"ok"} \cup (Faults \cap {"fail", "lost"})
         \cup (IF Closing(ClientOf[g]) THEN {"fail"} ELSE {})

-----------------------------------------------------------------------------
(* Which markers a key wants, which are still coming, which are not.       *)

Dirs(k) ==
  {Cut(k, i) : i \in {j \in 1 .. Len(k) - 1 :
                        \E R \in Roots : Under(R, k) /\ Len(R) < j}}

OwedBy(r, key, n) == {Full(r, Cut(key, i)) : i \in 1 .. n}

(* A walk is good for the directories it has before it, as long as the     *)
(* root stays what it was at its last step.                                *)
Owed(g) ==
  IF seen[g] = {RootOf(g)} THEN OwedBy(RootOf(g), call[g].key, call[g].n) ELSE {}

Unmarked(D) == {d \in D : ~IsDir(d)}

Marked(D) == {d \in D : IsDir(d)}

OwedIn(c) == UNION {Owed(g) : g \in {h \in Caller : ClientOf[h] = c}}

-----------------------------------------------------------------------------
(* Writing the key itself: PutLite, PutTTLLite and PutYamlLite up to the   *)
(* return of the request, and the entry of the walk for the calls that     *)
(* have one.  An error ends the call before the walk, whether the write    *)
(* took place or not.                                                      *)
WriteKey(g, full, key, v, leased, walks) ==
  \E answer \in Answers(g) :
    LET n == IF answer = "ok" /\ walks /\ v # DIR_TAG THEN Len(key) - 1 ELSE 0
        missed == IF n = Len(key) - 1 /\ full = Full(RootOf(g), key)
                  THEN {} ELSE Unmarked(Dirs(full))
    IN  /\ call' = [call EXCEPT ![g] = Walk(key, n)]
        /\ IF answer = "fail"
           THEN UNCHANGED <<kv, bare>>
           ELSE /\ kv' = Written(full, v, leased)
                /\ bare' = IF v = DIR_TAG THEN (bare \cup missed) \ {full}
                           ELSE bare \cup missed \cup Marked({full})
        /\ Requested(g)
        /\ UNCHANGED <<root, status>>

(* The process of store c ends, and with it every call in progress.        *)
Die(c) ==
  /\ status' = [status EXCEPT ![c] = "dead"]
  /\ call' = [g \in Caller |-> IF ClientOf[g] = c THEN Idle ELSE call[g]]
  /\ bare' = bare \cup Unmarked(OwedIn(c))
  /\ UNCHANGED <<kv, root, seen>>

-----------------------------------------------------------------------------
(* Operations.                                                             *)

(* Put, PutYaml: write, then walk up the directories.                      *)
Put(g, key, v) ==
  /\ Ready(g)
  /\ \E R \in seen[g] : WriteKey(g, Full(R, key), key, v, FALSE, TRUE)

(* PutLite, PutYamlLite: write only.                                       *)
PutLite(g, key, v) ==
  /\ Ready(g)
  /\ \E R \in seen[g] : WriteKey(g, Full(R, key), key, v, FALSE, FALSE)

(* PutTTL, PutTTLLite up to the grant of the lease.  When Grant fails the  *)
(* error is only logged, and resp.ID dereferences the nil response.        *)
Grant(g, key, pc) ==
  /\ Ready(g)
  /\ \/ /\ \E R \in seen[g] :
             call' = [call EXCEPT ![g] =
                        [pc |-> pc, key |-> key, n |-> 0, full |-> Full(R, key)]]
        /\ Requested(g)
        /\ UNCHANGED <<kv, root, status, bare>>
     \/ /\ "fail" \in Answers(g)
        /\ Die(ClientOf[g])

PutTTL(g, key) == Grant(g, key, "putTTL")

PutTTLLite(g, key) == Grant(g, key, "putTTLLite")

(* ... and the write under the lease, at the key computed before.          *)
PutLeased(g, v) ==
  /\ Up(g)
  /\ call[g].pc \in {"putTTL", "putTTLLite"}
  /\ WriteKey(g, call[g].full, call[g].key, v, TRUE, call[g].pc = "putTTL")

(* One round of buildForDirectory, its Get: a directory that has its       *)
(* marker is passed.  A failed Get returns "", which is not the marker.    *)
Check(g) ==
  /\ Up(g)
  /\ call[g].pc = "check"
  /\ \E R \in seen[g] :
       \/ /\ IsDir(Here(g, R))
          /\ call' = [call EXCEPT ![g] = Walk(@.key, @.n - 1)]
       \/ /\ ~IsDir(Here(g, R)) \/ "fail" \in Answers(g)
          /\ call' = [call EXCEPT ![g].pc = "mark"]
  /\ Requested(g)
  /\ UNCHANGED <<kv, root, status, bare>>

(* Mutants of Mark: the marker is put under a lease; a failed put of it is *)
(* tried again.                                                            *)
MarkLeased(g) ==
  /\ Up(g)
  /\ call[g].pc = "mark"
  /\ \E R \in seen[g] : kv' = Written(Here(g, R), DIR_TAG, TRUE)
  /\ call' = [call EXCEPT ![g] = Walk(@.key, @.n - 1)]
  /\ Requested(g)
  /\ UNCHANGED <<root, status, bare>>
MarkRetries(g) ==
  /\ Up(g)
  /\ call[g].pc = "mark"
  /\ \/ /\ "fail" \in Answers(g)
        /\ call' = [call EXCEPT ![g].pc = "check"]
        /\ UNCHANGED kv
     \/ /\ \E R \in seen[g] : kv' = Written(Here(g, R), DIR_TAG, FALSE)
        /\ call' = [call EXCEPT ![g] = Walk(@.key, @.n - 1)]
  /\ Requested(g)
  /\ UNCHANGED <<root, status, bare>>

(* ... and its Put of the marker, whose error is dropped.  Below a root    *)
(* that is no longer the store's it is a marker nobody walks up from.      *)
Mark(g) ==
  /\ Up(g)
  /\ call[g].pc = "mark"
  /\ \E R \in seen[g], answer \in Answers(g) :
       LET here == Here(g, R)
           missed == IF R = RootOf(g) THEN {} ELSE Unmarked(Dirs(here))
       IN  IF answer = "fail"
           THEN /\ bare' = bare \cup Unmarked({here})
                /\ UNCHANGED kv
           ELSE /\ kv' = Written(here, DIR_TAG, FALSE)
                /\ bare' = (bare \cup missed) \ {here}
  /\ call' = [call EXCEPT ![g] = Walk(@.key, @.n - 1)]
  /\ Requested(g)
  /\ UNCHANGED <<root, status>>

(* Delete, DeletePrefix.  A refused request changes nothing, and a lost    *)
(* answer changes what a done one does: no case of their own.  With an     *)
(* empty prefix the root itself is the prefix.                             *)
Delete(g, key) ==
  /\ Ready(g)
  /\ \E R \in seen[g] :
       /\ kv' = Without({Full(R, key)})
       /\ bare' = bare \cup Marked({Full(R, key)})
  /\ Requested(g)
  /\ UNCHANGED <<root, status, call>>

(* Mutant of DeletePrefix: WithPrefix() is forgotten.                      *)
DeletePrefixExact(g, keyPrefix) ==
  /\ Ready(g)
  /\ \E R \in seen[g] : kv' = Without({Full(R, keyPrefix)})
  /\ Requested(g)
  /\ UNCHANGED <<root, status, call, bare>>

DeletePrefix(g, keyPrefix) ==
  /\ Ready(g)
  /\ \E R \in seen[g] :
       LET p == Full(R, keyPrefix)
       IN  /\ kv' = Without({k \in DOMAIN kv : HasPrefix(p, k)})
           /\ bare' = {d \in bare : ~HasPrefix(p, d)}
  /\ Requested(g)
  /\ UNCHANGED <<root, status, call>>

(* SetRoot changes the root under the feet of every call on that store:    *)
(* the walks go on below the new one.                                      *)
SetRoot(g, R) ==
  LET c == ClientOf[g]
  IN  /\ status[c] # "dead"
      /\ call[g].pc = "idle"
      /\ R # root[c]
      /\ root' = [root EXCEPT ![c] = R]
      /\ seen' = [h \in Caller |-> IF h = g THEN {R}
                                   ELSE IF ClientOf[h] = c THEN seen[h] \cup {R}
                                   ELSE seen[h]]
      /\ bare' = bare \cup Unmarked(OwedIn(c))
      /\ UNCHANGED <<kv, status, call>>

(* Close: a second Close that also saw s.Client != nil closes the exit     *)
(* channel again, and panics.                                              *)
Close(g) ==
  /\ Ready(g)
  /\ IF Closing(ClientOf[g])
     THEN Die(ClientOf[g])
     ELSE /\ call' = [call EXCEPT ![g].pc = "closing"]
          /\ UNCHANGED <<kv, root, status, seen, bare>>

CloseDone(g) ==
  /\ call[g].pc = "closing"
  /\ status' = [status EXCEPT ![ClientOf[g]] = "closed"]
  /\ call' = [call EXCEPT ![g] = Idle]
  /\ UNCHANGED <<kv, root, seen, bare>>

(* Any request after that goes through the nil s.Client and panics.        *)
Panic(g) ==
  /\ status[ClientOf[g]] = "closed"
  /\ Die(ClientOf[g])

-----------------------------------------------------------------------------
(* The environment.                                                        *)

(* etcd deletes an entry whose lease has run out.                          *)
Expire(k) ==
  /\ k \in DOMAIN kv /\ kv[k].leased
  /\ kv' = Without({k})
  /\ UNCHANGED <<root, status, call, seen, bare>>

Crash(c) ==
  /\ "crash" \in Faults
  /\ status[c] # "dead"
  /\ Die(c)

(* New: a store on a fresh client, after a crash or after a Close.         *)
New(c, R) ==
  /\ status[c] # "open"
  /\ \A g \in Caller : ClientOf[g] = c => call[g].pc = "idle"
  /\ status' = [status EXCEPT ![c] = "open"]
  /\ root' = [root EXCEPT ![c] = R]
  /\ seen' = [g \in Caller |-> IF ClientOf[g] = c THEN {R} ELSE seen[g]]
  /\ UNCHANGED <<kv, call, bare>>

-----------------------------------------------------------------------------
Init ==
  /\ kv = << >>
  /\ root \in [Client -> Roots]
  /\ status = [c \in Client |-> "open"]
  /\ call = [g \in Caller |-> Idle]
  /\ seen = [g \in Caller |-> {RootOf(g)}]
  /\ bare = {}

(* What a goroutine does on its own once a call is under way.              *)
Proceed(g) ==
  \/ \E v \in Value : PutLeased(g, v)
  \/ Check(g)
  \/ Mark(g)
  \/ CloseDone(g)

Begin(g) ==
  \/ \E key \in PutKeys : PutTTL(g, key) \/ \E v \in Value : Put(g, key, v)
  \/ \E key \in LiteKeys : PutTTLLite(g, key) \/ \E v \in Value : PutLite(g, key, v)
  \/ \E key \in MarkKeys : Put(g, key, DIR_TAG)
  \/ \E key \in DeleteKeys : Delete(g, key)
  \/ \E keyPrefix \in PrefixKeys : DeletePrefix(g, keyPrefix)
  \/ \E R \in Roots : SetRoot(g, R)
  \/ Close(g)

Next ==
  \/ \E g \in Caller : Begin(g) \/ Proceed(g) \/ Panic(g)
  \/ \E k \in DOMAIN kv : Expire(k)
  \/ \E c \in Client : Crash(c) \/ (\E R \in Roots : New(c, R))

Spec == Init /\ [][Next]_vars

-----------------------------------------------------------------------------
(* Properties.                                                             *)

Calls ==
  [pc : {"idle", "putTTL", "putTTLLite", "check", "mark", "closing"},
   key : Path, n : Nat, full : Path]

TypeOK ==
  /\ DOMAIN kv \subseteq Path
  /\ kv \in [DOMAIN kv -> Entry]
  /\ root \in [Client -> Roots]
  /\ status \in [Client -> {"open", "closed", "dead"}]
  /\ call \in [Caller -> Calls]
  /\ seen \in [Caller -> SUBSET Roots]
  /\ \A g \in Caller : RootOf(g) \in seen[g]
  /\ bare \subseteq Path

(* What TreeClosed assumes: no root is below another, for a walk never     *)
(* marks its root nor what is above it.                                    *)
RootsApart == \A R, S \in Roots : ~Under(R, S)

(* buildForDirectory's purpose, whatever the interleaving: every entry has *)
(* a marker at each of its directories, except at those a running call is  *)
(* still to mark and those some call left without one: it deleted that     *)
(* very directory or put a value over it, it failed or its process ended   *)
(* before the marker, the root moved between what it put and what it was   *)
(* still to mark, or it was a Lite call, which marks nothing.  Other than  *)
(* that nothing may: a prefix deleted in the middle of a walk must not     *)
(* leave an entry whose directories are gone.                              *)
TreeClosed ==
  \A k \in DOMAIN kv : \A d \in Dirs(k) :
    IsDir(d) \/ d \in bare \/ \E g \in Caller : d \in Owed(g)

(* What a tree browser shows: the entries reachable through markers.       *)
Visible == {k \in DOMAIN kv : \A d \in Dirs(k) : IsDir(d)}

DeletedAlone(d) ==
  \E g \in Caller, key \in DeleteKeys : Delete(g, key) /\ kv' = Without({d})

Overwritten(d) == d \in DOMAIN kv' /\ kv'[d].val \in Value

(* An entry that could be seen does not get hidden while it is stored but  *)
(* by the step that deletes one of its directories alone, or puts a value  *)
(* over one: no prefix, no expiry, no walk, no fault takes the marker of a *)
(* directory and leaves what is in it.                                     *)
NeverHidden ==
  [][\A k \in Visible : k \in DOMAIN kv' =>
       \/ k \in Visible'
       \/ \E d \in Dirs(k) : IsDir(d) /\ (DeletedAlone(d) \/ Overwritten(d))]_vars

Below(Keys) == {Full(R, key) : R \in Roots, key \in Keys}

(* The abstract promise, implemented by what can be seen.                  *)
Browser == INSTANCE DirTree WITH
  tree <- Visible,
  Prefixes <- Below(PrefixKeys),
  Removed <- Below(DeleteKeys),
  Valued <- Below(PutKeys \cup LiteKeys)

(* Puts, deletes, expiries and everything that goes wrong with them only   *)
(* ever grow the browsed tree at one place or take away what was asked     *)
(* for: the store implements DirTree.                                      *)
BrowsesAsATree == Browser!Spec

(* The requests a call has at most still to make, or steps of Close.       *)
StepsLeft(c) ==
  CASE c.pc = "idle" -> 0
    [] c.pc \in {"closing", "putTTLLite"} -> 1
    [] c.pc = "putTTL" -> 2 * Len(c.key) - 1
    [] c.pc = "check" -> 2 * c.n
    [] c.pc = "mark" -> 2 * c.n - 1

(* A call makes two requests at most for every directory of its key, and   *)
(* what it meets makes them no more: whatever fails or is lost, wherever   *)
(* others move the root, delete the markers it has put or close the store, *)
(* each step of it brings it nearer to its end and no step of anybody else *)
(* sets it back.                                                           *)
CallsShorten ==
  [][\A g \in Caller : call[g].pc # "idle" =>
       call'[g] = call[g] \/ StepsLeft(call'[g]) < StepsLeft(call[g])]_vars
=============================================================================
