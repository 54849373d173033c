----------------------------- MODULE Handshake -----------------------------
(***************************************************************************)
(* How a process takes leave of its heartbeats: it is up; one heartbeat is *)
(* asked to end; that one answers when it is done; only then does the      *)
(* process take the answer and go on, shut the channels and be gone.       *)
(* Without anybody asked it may go on at once.  An asked heartbeat is      *)
(* never passed over and a process that shuts never asks.  It can be       *)
(* killed at any point, and be started again.  There are no channels, no   *)
(* goroutines and no requests here.                                        *)
(***************************************************************************)
CONSTANT Client

VARIABLE phase  \* of each client: "up", "asked", "answered", "closing",
                \* "down" or "gone"

vars == <<phase>>

Init == phase = [p \in Client |-> "up"]

Move(p, from, to) ==
  /\ phase[p] \in from
  /\ phase' = [phase EXCEPT ![p] = to]

Ask(p) == Move(p, {"up"}, "asked")

Answer(p) == Move(p, {"asked"}, "answered")

GoOn(p) == Move(p, {"up", "answered"}, "closing")

Shut(p) == Move(p, {"closing"}, "down")

(* Its own end, or any other.                                              *)
Go(p) == Move(p, {"up", "asked", "answered", "closing", "down"}, "gone")

Return(p) == Move(p, {"gone"}, "up")

Next ==
  \E p \in Client :
    Ask(p) \/ Answer(p) \/ GoOn(p) \/ Shut(p) \/ Go(p) \/ Return(p)

Spec == Init /\ [][Next]_vars
=============================================================================
