----------------------------- MODULE ConsulWatch -----------------------------
(***************************************************************************)
(* Watch and WatchPrefix of KVStoreConsul (src/consul/core.go): one watch  *)
(* on a few keys of consul.                                                *)
(*                                                                         *)
(* A goroutine (run) asks consul for the watched pairs whenever its index  *)
(* has moved, which skips over all the writes in between, and hands what   *)
(* it gets to the handler.  WatchPrefix keeps the listing before and       *)
(* compares the two, place by place, to find out what to call the          *)
(* subscriber's function with.  The function ends the watch by a send over *)
(* the unbuffered stopCh, which the block function (main) receives.        *)
(***************************************************************************)
EXTENDS Naturals, FiniteSets

CONSTANTS
  Keys,      \* number of keys; they are numbered in the order consul lists them
  Prefixes,  \* the sets of keys that begin with a prefix given to DeletePrefix
  MaxIndex,  \* bound on the index of consul, and so on the writes
  Limit      \* how many calls the function takes before it ends the watch

ASSUME WatchAssumption ==
  /\ Keys \in Nat \ {0} /\ MaxIndex \in Nat /\ Limit \in Nat
  /\ Prefixes \subseteq SUBSET (1 .. Keys)

VARIABLES
  kind,       \* "key" (Watch, of the first key) or "keyprefix" (WatchPrefix)
  kv, index,  \* consul: key -> [create, modify], the index of the last write
  last,       \* the result the plan got last ...
  lastIndex,  \* ... at this index; 0 before the first one
  saved,      \* savedSate of the handler, nil when it is empty
  todo,       \* the keys the handler has still to call the function with
  calls,      \* how many calls there have been, counted up to Limit
  run, main,  \* what the goroutine and the caller are doing
  stopped,    \* whether the plan was stopped
  told,       \* history: the version in the last call about each key
  base        \* history: the index at which the plan last got a listing after
              \* none or an empty one, with which there is nothing to compare

consul == <<kv, index>>
watcher == <<kind, last, lastIndex, saved, todo, calls, run, told, base>>
vars == <<consul, watcher, main, stopped>>

Key == 1 .. Keys

(* A value is known by the index at which it was written.                  *)
Pair == [create : Nat, modify : Nat]

Versions(f, S) == DOMAIN f \subseteq Key /\ f \in [DOMAIN f -> S]

Nothing == [k \in {} |-> 0]

-----------------------------------------------------------------------------
(* The store, each call one request; a failed one changes nothing.         *)

(* Put, PutLite, PutYaml: there are no directories to mark on the way.     *)
Put(k) ==
  /\ index < MaxIndex
  /\ index' = index + 1
  /\ kv' = [j \in DOMAIN kv \cup {k} |->
              IF j # k THEN kv[j]
              ELSE [create |-> IF k \in DOMAIN kv THEN kv[k].create ELSE index + 1,
                    modify |-> index + 1]]
  /\ UNCHANGED <<watcher, main, stopped>>

(* What is there of S is gone at one index, for Delete and DeletePrefix.   *)
Remove(S) ==
  /\ index < MaxIndex
  /\ S \cap DOMAIN kv # {}
  /\ index' = index + 1
  /\ kv' = [j \in DOMAIN kv \ S |-> kv[j]]
  /\ UNCHANGED <<watcher, main, stopped>>

Delete(k) == Remove({k})

DeletePrefix(S) == Remove(S)

Watched == [k \in {j \in DOMAIN kv : kind = "keyprefix" \/ j = 1} |-> kv[k]]

-----------------------------------------------------------------------------
(* The handler.                                                            *)

Place(L, k) == Cardinality({j \in DOMAIN L : j < k})

(* Mutant of Checked: the loop ends with the shorter of the two listings.  *)
CheckedShort(new, old, k) ==
  \E j \in DOMAIN old :
    /\ Place(old, j) = Place(new, k)
    /\ new[k].modify # new[k].create
    /\ new[k].modify # old[j].modify

(* Whether the k of the new listing is reported: there is no pair at its   *)
(* place in the old one, or else k was modified since it was created, and  *)
(* by another write than the pair at its place, whatever key that has.     *)
Checked(new, old, k) ==
  \A j \in DOMAIN old :
    Place(old, j) = Place(new, k) =>
      /\ new[k].modify # new[k].create
      /\ new[k].modify # old[j].modify

(* Mutant of Reports: the place in the listing, from 0, goes for the key.  *)
ReportsPlaces(new) ==
  IF kind = "key" THEN {1}
  ELSE {Place(new, k) : k \in {j \in DOMAIN new :
                                 saved # Nothing /\ Checked(new, saved, j)}}

(* The calls the handler makes for a result: none if nothing was saved.    *)
(* Pairs that are gone are never reported by WatchPrefix.                  *)
Reports(new) ==
  IF kind = "key" THEN {1}
  ELSE {k \in DOMAIN new : saved # Nothing /\ Checked(new, saved, k)}

-----------------------------------------------------------------------------
(* The goroutine: watch.Plan.Run of the consul library and the handlers.   *)

(* A new result; the same result again does not reach the handler.         *)
Query ==
  /\ run = "query" /\ ~stopped
  /\ index # lastIndex
  /\ lastIndex' = index
  /\ IF lastIndex # 0 /\ Watched = last
     THEN UNCHANGED <<last, todo, run, base>>
     ELSE /\ last' = Watched
          /\ todo' = Reports(Watched)
          /\ run' = "report"
          /\ base' = IF kind = "keyprefix" /\ last = Nothing THEN index ELSE base
  /\ UNCHANGED <<consul, kind, saved, calls, told, main, stopped>>

(* Mutant of Report: the function is not called for a pair that is gone.   *)
ReportPairs ==
  /\ run = "report"
  /\ \E k \in todo :
       /\ \A j \in todo : k <= j
       /\ todo' = todo \ {k}
       /\ told' = IF k \in DOMAIN last
                  THEN [j \in DOMAIN told \cup {k} |->
                          IF j = k THEN last[k].modify ELSE told[j]]
                  ELSE told
  /\ run' = IF calls = Limit THEN "send" ELSE "report"
  /\ calls' = IF calls = Limit THEN calls ELSE calls + 1
  /\ UNCHANGED <<consul, kind, last, lastIndex, saved, base, main, stopped>>

(* A call of the function, in the order of the listing: PUT with the pair, *)
(* or DELETE for the one key of Watch.  After Limit calls it wants to end   *)
(* the watch, with each call again.                                        *)
Report ==
  /\ run = "report"
  /\ \E k \in todo :
       /\ \A j \in todo : k <= j
       /\ todo' = todo \ {k}
       /\ told' = IF k \in DOMAIN last
                  THEN [j \in DOMAIN told \cup {k} |->
                          IF j = k THEN last[k].modify ELSE told[j]]
                  ELSE [j \in DOMAIN told \ {k} |-> told[j]]
  /\ run' = IF calls = Limit THEN "send" ELSE "report"
  /\ calls' = IF calls = Limit THEN calls ELSE calls + 1
  /\ UNCHANGED <<consul, kind, last, lastIndex, saved, base, main, stopped>>

(* Mutant of Handled: the listing goes to a variable of its own.           *)
HandledShadows ==
  /\ run = "report" /\ todo = {}
  /\ run' = "query"
  /\ UNCHANGED <<consul, kind, last, lastIndex, saved, todo, calls, told, base, main, stopped>>

Handled ==
  /\ run = "report" /\ todo = {}
  /\ run' = "query"
  /\ saved' = IF kind = "key" THEN saved ELSE last
  /\ UNCHANGED <<consul, kind, last, lastIndex, todo, calls, told, base, main, stopped>>

End ==
  /\ run = "query" /\ stopped
  /\ run' = "ended"
  /\ UNCHANGED <<consul, kind, last, lastIndex, saved, todo, calls, told, base, main, stopped>>

-----------------------------------------------------------------------------
(* The caller: blockFunc().                                                *)

(* It waits for stopCh, but does not if there is none.                     *)
Block ==
  /\ main = "idle"
  /\ main' \in {"receive", "stop"}
  /\ UNCHANGED <<consul, watcher, stopped>>

(* stopCh <- true in the function, <-stopCh in blockFunc.                  *)
Handover ==
  /\ run = "send" /\ main = "receive"
  /\ run' = "report" /\ main' = "stop"
  /\ UNCHANGED <<consul, kind, last, lastIndex, saved, todo, calls, told, base, stopped>>

(* Mutant of Stop: the plan is stopped only between two results.           *)
StopBetween ==
  /\ main = "stop" /\ run = "query"
  /\ main' = "done" /\ stopped' = TRUE
  /\ UNCHANGED <<consul, watcher>>

Stop ==
  /\ main = "stop"
  /\ main' = "done" /\ stopped' = TRUE
  /\ UNCHANGED <<consul, watcher>>

-----------------------------------------------------------------------------
(* index is 1 at least: consul has written something of its own.           *)
Init ==
  /\ kind \in {"key", "keyprefix"}
  /\ kv = Nothing /\ index = 1
  /\ last = Nothing /\ lastIndex = 0
  /\ saved = Nothing /\ todo = {}
  /\ calls = 0
  /\ run = "query" /\ main = "idle" /\ stopped = FALSE
  /\ told = Nothing /\ base = 0

Watcher == Query \/ Report \/ Handled \/ End

Caller == Block \/ Handover \/ Stop

Next ==
  \/ \E k \in Key : Put(k) \/ Delete(k)
  \/ \E S \in Prefixes : DeletePrefix(S)
  \/ Watcher \/ Caller

(* The goroutine and the caller are scheduled.                             *)
Fairness == WF_vars(Watcher) /\ WF_vars(Caller)

Spec == Init /\ [][Next]_vars

FairSpec == Spec /\ Fairness

-----------------------------------------------------------------------------
(* Properties.                                                             *)

TypeOK ==
  /\ kind \in {"key", "keyprefix"}
  /\ Versions(kv, Pair) /\ Versions(last, Pair) /\ Versions(saved, Pair)
  /\ index \in Nat /\ lastIndex \in Nat
  /\ todo \subseteq Key
  /\ calls \in 0 .. Limit
  /\ run \in {"query", "report", "send", "ended"}
  /\ main \in {"idle", "receive", "stop", "done"}
  /\ stopped \in BOOLEAN
  /\ Versions(told, Nat)
  /\ base \in Nat

(* What the subscriber has to be told of: a key that was modified since it *)
(* was created, and since the plan had a first listing to compare with.    *)
Due(L, k) == L[k].modify # L[k].create /\ L[k].modify > base

Told(L, k) == k \in DOMAIN told /\ told[k] = L[k].modify

(* As soon as a result has been handled, the function has been called with *)
(* the version in it of every key that is due, although WatchPrefix        *)
(* compares by places, and keys move when others come and go.  It calls    *)
(* nothing for what it finds when it starts, or when the prefix has been   *)
(* empty, for removals, and for new keys in the middle of a listing.       *)
UpdatesTold ==
  run = "query" => \A k \in DOMAIN last : Due(last, k) => Told(last, k)

(* What Watch tells of its one key is exact, and not only for updates:     *)
(* when a result has been handled, the subscriber has the version of the   *)
(* key in it, or knows that the key is not there.                          *)
KeyIsExact ==
  kind = "key" /\ run = "query" => told = [k \in DOMAIN last |-> last[k].modify]

(* Whatever writes were skipped over, the function is called in the end    *)
(* with the final version of every key that is due, unless the watch is    *)
(* ended or blocked.                                                       *)
EventuallyTold ==
  <>[](\/ run \in {"send", "ended"}
       \/ \A k \in DOMAIN Watched : Due(kv, k) => Told(kv, k))

(* A caller waiting in blockFunc when the function first sends returns.    *)
SendEndsBlocking == run = "send" /\ ~stopped ~> main = "done"
=============================================================================
