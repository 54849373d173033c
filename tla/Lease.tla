------------------------------- MODULE Lease -------------------------------
(***************************************************************************)
(* What a lock that can be revoked promises to those who work under it: at *)
(* most one is in, he is asked to stop only once he is astray, that is no  *)
(* longer or never was protected by the lock, or once it is in doubt       *)
(* whether he is, and every step is a step of one of them: nobody is put   *)
(* in another's place, nobody comes in by the back door.  There are no     *)
(* sessions, channels or processes here.                                   *)
(***************************************************************************)
CONSTANT Client

VARIABLES
  stage,     \* "out", "in" (at work, under the lock) or "astray" (without)
  doubted,   \* of whom it is not known whether they still have the lock
  cancelled  \* who was asked to stop

vars == <<stage, doubted, cancelled>>

Init == stage = [w \in Client |-> "out"] /\ doubted = {} /\ cancelled = {}

Enter(w) ==
  /\ stage[w] = "out"
  /\ \A v \in Client : stage[v] # "in"
  /\ stage' = [stage EXCEPT ![w] = "in"]
  /\ UNCHANGED <<doubted, cancelled>>

(* w loses the lock, or sets out without one.                              *)
Stray(w) ==
  /\ stage[w] # "astray"
  /\ stage' = [stage EXCEPT ![w] = "astray"]
  /\ UNCHANGED <<doubted, cancelled>>

Doubt(w) ==
  /\ stage[w] # "out"
  /\ doubted' = doubted \cup {w}
  /\ UNCHANGED <<stage, cancelled>>

Cancel(w) ==
  /\ stage[w] = "astray" \/ w \in doubted
  /\ cancelled' = cancelled \cup {w}
  /\ UNCHANGED <<stage, doubted>>

(* w is done, gives in or dies.                                            *)
Leave(w) ==
  /\ stage[w] # "out"
  /\ stage' = [stage EXCEPT ![w] = "out"]
  /\ doubted' = doubted \ {w}
  /\ cancelled' = cancelled \ {w}

Next == \E w \in Client : Enter(w) \/ Stray(w) \/ Doubt(w) \/ Cancel(w) \/ Leave(w)

Spec == Init /\ [][Next]_vars
=============================================================================
