---------------------------- MODULE MCConsulLock ----------------------------
(* Two callers, each with a lock object of his own. *)
EXTENDS ConsulLock, TLC

CONSTANTS c1, c2

MCObject == [c \in Caller |-> c]
=============================================================================
