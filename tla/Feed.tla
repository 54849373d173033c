-------------------------------- MODULE Feed --------------------------------
(***************************************************************************)
(* What a watch promises to its subscriber: from the time of the           *)
(* subscription on he is told of every event on the keys he wants, once,   *)
(* one at a time and in the order in which they happened; he may be late,  *)
(* and may never be told of what is left.  There are no responses, no      *)
(* goroutines and no end of a watch here.                                  *)
(***************************************************************************)
EXTENDS Naturals, Sequences

CONSTANTS
  Key,   \* keys
  Wants  \* the keys the subscriber wants

VARIABLES
  log,   \* the key of every event, in order
  from,  \* how many events there were at the subscription
  told   \* the events the subscriber was told of, by their places in log

vars == <<log, from, told>>

(* The place of the last event told, or of the subscription.               *)
At == IF told = << >> THEN from ELSE told[Len(told)]

Wanted == {r \in 1 .. Len(log) : log[r] \in Wants}

Init == log = << >> /\ from = 0 /\ told = << >>

Happen ==
  /\ \E k \in Key : log' = Append(log, k)
  /\ UNCHANGED <<from, told>>

Subscribe ==
  /\ told = << >>
  /\ from' = Len(log)
  /\ UNCHANGED <<log, told>>

(* The subscriber is told of the next event: none is passed over.          *)
Tell ==
  /\ \E r \in Wanted :
       /\ At < r
       /\ \A q \in Wanted : At < q => r <= q
       /\ told' = Append(told, r)
  /\ UNCHANGED <<log, from>>

Next == Happen \/ Subscribe \/ Tell

Spec == Init /\ [][Next]_vars
=============================================================================
