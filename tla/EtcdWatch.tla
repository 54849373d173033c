------------------------------ MODULE EtcdWatch ------------------------------
(***************************************************************************)
(* Watch and WatchPrefix of KVStoreEtcd (src/etcd/core.go): the watches of *)
(* one store.                                                              *)
(*                                                                         *)
(* Each watch has a goroutine (run), which ranges over the channel of the  *)
(* etcd client and calls the subscriber's function once for every event of *)
(* every response.  The function ends the wait of the caller (main) in     *)
(* blockFunc by a send over the unbuffered stopCh.  Nothing ends a watch   *)
(* but the end of its channel, when the client is closed or etcd has given *)
(* the watch up.                                                           *)
(***************************************************************************)
EXTENDS Naturals, Sequences

CONSTANTS
  Watch,      \* calls of Watch or WatchPrefix
  Key,        \* keys written in etcd, directory markers included
  Wants,      \* the keys of each watch: the one it names or, for WatchPrefix,
              \* all those whose bytes begin with its prefix
  NoStop,     \* the watches whose stopCh is nil
  MaxEvents,  \* bound on the writes
  Limit,      \* how many calls a function takes before it sends
  Faults      \* "cancel": etcd gives a watch up; "close": the store is closed

ASSUME WatchAssumption ==
  /\ Wants \in [Watch -> SUBSET Key]
  /\ NoStop \subseteq Watch
  /\ MaxEvents \in Nat /\ Limit \in Nat
  /\ Faults \subseteq {"cancel", "close"}

VARIABLES
  log,      \* etcd: the key of every event, one for each revision
  client,   \* "open" or "closed"
  from,     \* from[w]: the revision of etcd when w was created ...
  got,      \* ... that of the last event of the response at hand ...
  pos,      \* ... and how far the loops over responses and events have come
  calls,    \* how many calls of its function there have been, up to Limit
  run,      \* what the goroutine of w is doing
  main,     \* what the caller of w is doing
  told      \* history: the revisions w was told of, in the order of the calls

watches == <<from, got, pos, calls, run, main, told>>
vars == <<log, client, watches>>

-----------------------------------------------------------------------------
(* etcd.                                                                   *)

Revisions == 1 .. Len(log)

(* The events of w among the revisions of S. *)
Events(w, S) == {r \in S \cap Revisions : log[r] \in Wants[w]}

Write(k) ==
  /\ Len(log) < MaxEvents
  /\ log' = Append(log, k)
  /\ UNCHANGED <<client, watches>>

-----------------------------------------------------------------------------
(* The goroutine.                                                          *)

(* Client.Watch, which returns when etcd has taken the watch, and go.      *)
Start(w) ==
  /\ run[w] = "none" /\ client = "open"
  /\ from' = [from EXCEPT ![w] = Len(log)]
  /\ got' = [got EXCEPT ![w] = Len(log)]
  /\ pos' = [pos EXCEPT ![w] = Len(log)]
  /\ run' = [run EXCEPT ![w] = "range"]
  /\ UNCHANGED <<log, client, calls, main, told>>

(* Mutant of Respond: a response is taken to end at the revision the next  *)
(* one begins with.                                                        *)
RespondNext(w) ==
  /\ run[w] = "range" /\ client = "open"
  /\ \E r \in Events(w, pos[w] + 1 .. Len(log)) :
       got' = [got EXCEPT ![w] = r + 1]
  /\ run' = [run EXCEPT ![w] = "events"]
  /\ UNCHANGED <<log, client, from, pos, calls, main, told>>

(* for wresp := range rch: the next response, with one event or several.   *)
(* The client takes up a broken connection where it was.                   *)
Respond(w) ==
  /\ run[w] = "range" /\ client = "open"
  /\ \E r \in Events(w, pos[w] + 1 .. Len(log)) :
       got' = [got EXCEPT ![w] = r]
  /\ run' = [run EXCEPT ![w] = "events"]
  /\ UNCHANGED <<log, client, from, pos, calls, main, told>>

(* Mutant of Call: the loop takes the first event of a response only.      *)
CallFirst(w) ==
  /\ run[w] = "events"
  /\ \E r \in Events(w, pos[w] + 1 .. got[w]) :
       /\ \A q \in Events(w, pos[w] + 1 .. got[w]) : r <= q
       /\ told' = [told EXCEPT ![w] = Append(@, r)]
  /\ pos' = [pos EXCEPT ![w] = got[w]]
  /\ run' = [run EXCEPT ![w] =
               IF calls[w] = Limit /\ w \notin NoStop THEN "send" ELSE "events"]
  /\ calls' = [calls EXCEPT ![w] = IF @ = Limit THEN @ ELSE @ + 1]
  /\ UNCHANGED <<log, client, from, got, main>>

(* for _, ev := range wresp.Events: the call of the function, which after  *)
(* Limit calls sends over stopCh, and does so again with each call.        *)
Call(w) ==
  /\ run[w] = "events"
  /\ \E r \in Events(w, pos[w] + 1 .. got[w]) :
       /\ \A q \in Events(w, pos[w] + 1 .. got[w]) : r <= q
       /\ told' = [told EXCEPT ![w] = Append(@, r)]
       /\ pos' = [pos EXCEPT ![w] = r]
  /\ run' = [run EXCEPT ![w] =
               IF calls[w] = Limit /\ w \notin NoStop THEN "send" ELSE "events"]
  /\ calls' = [calls EXCEPT ![w] = IF @ = Limit THEN @ ELSE @ + 1]
  /\ UNCHANGED <<log, client, from, got, main>>

Handled(w) ==
  /\ run[w] = "events" /\ pos[w] = got[w]
  /\ run' = [run EXCEPT ![w] = "range"]
  /\ UNCHANGED <<log, client, from, got, pos, calls, main, told>>

(* Mutant of End: the goroutine does not see the end of its channel.       *)
EndNever(w) == FALSE

(* The channel is closed: by Close, or by the client when the revisions a  *)
(* watch has still to get were compacted while it was cut off.  Then the   *)
(* last response holds no event but an error that nobody looks at.         *)
End(w) ==
  /\ run[w] = "range"
  /\ \/ client = "closed"
     \/ "cancel" \in Faults /\ Events(w, pos[w] + 1 .. Len(log)) # {}
  /\ run' = [run EXCEPT ![w] = "ended"]
  /\ UNCHANGED <<log, client, from, got, pos, calls, main, told>>

-----------------------------------------------------------------------------
(* The callers: blockFunc(), and Close by one of them.                     *)

(* It waits for stopCh, but does not if there is none.                     *)
Block(w) ==
  /\ main[w] = "idle" /\ run[w] # "none"
  /\ main' = [main EXCEPT ![w] = IF w \in NoStop THEN "done" ELSE "receive"]
  /\ UNCHANGED <<log, client, from, got, pos, calls, run, told>>

(* stopCh <- true in the function, <-stopCh in blockFunc.  The goroutine   *)
(* goes on with its events.                                                *)
Handover(w) ==
  /\ run[w] = "send" /\ main[w] = "receive"
  /\ run' = [run EXCEPT ![w] = "events"]
  /\ main' = [main EXCEPT ![w] = "done"]
  /\ UNCHANGED <<log, client, from, got, pos, calls, told>>

(* s.Client.Close() ends the channels of all watches at once, and what was *)
(* buffered in them is gone; responses at hand stay with their goroutines. *)
Close ==
  /\ "close" \in Faults
  /\ client = "open"
  /\ client' = "closed"
  /\ UNCHANGED <<log, watches>>

-----------------------------------------------------------------------------
Init ==
  /\ log = << >>
  /\ client = "open"
  /\ from = [w \in Watch |-> 0]
  /\ got = [w \in Watch |-> 0]
  /\ pos = [w \in Watch |-> 0]
  /\ calls = [w \in Watch |-> 0]
  /\ run = [w \in Watch |-> "none"]
  /\ main = [w \in Watch |-> "idle"]
  /\ told = [w \in Watch |-> << >>]

Watcher(w) == Respond(w) \/ Call(w) \/ Handled(w) \/ End(w)

Next ==
  \/ \E k \in Key : Write(k)
  \/ \E w \in Watch : Start(w) \/ Watcher(w) \/ Block(w) \/ Handover(w)
  \/ Close

Spec == Init /\ [][Next]_vars

(* The goroutines are scheduled, the client gets its responses.            *)
Fairness == \A w \in Watch : WF_vars(Watcher(w)) /\ WF_vars(Handover(w))

FairSpec == Spec /\ Fairness

-----------------------------------------------------------------------------
(* Properties.                                                             *)

TypeOK ==
  /\ log \in Seq(Key)
  /\ client \in {"open", "closed"}
  /\ from \in [Watch -> Nat] /\ got \in [Watch -> Nat] /\ pos \in [Watch -> Nat]
  /\ calls \in [Watch -> 0 .. Limit]
  /\ run \in [Watch -> {"none", "range", "events", "send", "ended"}]
  /\ main \in [Watch -> {"idle", "receive", "done"}]
  /\ told \in [Watch -> Seq(Nat)]
  /\ \A w \in Watch : from[w] <= pos[w] /\ pos[w] <= got[w] /\ got[w] <= Len(log)

FeedOf(w) ==
  INSTANCE Feed WITH Wants <- Wants[w], from <- from[w], told <- told[w]

(* However etcd groups the events in responses, however slow a function is *)
(* and wherever Close finds the goroutines, the calls of each watch are    *)
(* the events on its keys since it was created: none is left out, told     *)
(* twice or told before an earlier one.                                    *)
FeedsInOrder ==
  /\ \A w \in Watch : FeedOf(w)!Init
  /\ [][\A w \in Watch : [FeedOf(w)!Next]_(FeedOf(w)!vars)]_vars

Told(w) == {told[w][i] : i \in DOMAIN told[w]}

(* Every event reaches the subscriber some time, also while the function   *)
(* of another watch of the client is stuck in its send; unless the watch   *)
(* has ended or its own function is stuck.                                 *)
EventuallyTold ==
  \A w \in Watch :
    <>[](\/ run[w] \in {"none", "send", "ended"}
         \/ Events(w, from[w] + 1 .. Len(log)) \subseteq Told(w))

(* "When the client is closed ...": each goroutine ends, with what it had  *)
(* at hand told, or is in a send over stopCh.                              *)
CloseEndsWatches ==
  \A w \in Watch : client = "closed" ~> run[w] \in {"none", "send", "ended"}

(* What a comment says of Close and the code does not do: when the client  *)
(* is closed all goroutines of watches are properly cleaned up.  (For a    *)
(* caller who has been through blockFunc, as in TestEtcdWatch.)            *)
CloseCleansUp ==
  \A w \in Watch :
    client = "closed" /\ main[w] = "done" ~> run[w] \in {"none", "ended"}
=============================================================================
