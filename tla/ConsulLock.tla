----------------------------- MODULE ConsulLock -----------------------------
(***************************************************************************)
(* The locks of KVStoreConsul (src/consul/core.go): callers of Acquire on  *)
(* lock objects for one key of consul.                                     *)
(*                                                                         *)
(* Acquire waits for the lock, lets a goroutine (work) do something under  *)
(* it and unlock it, and returns a function (main: "block") that waits for *)
(* the lock to be gone and then cancels the work.  The lock objects are    *)
(* those of the consul library: a Lock makes a session, which holds the    *)
(* key in consul as long as it is renewed, and a monitor, which closes the *)
(* channel Lock returned when the session no longer holds the key.         *)
(***************************************************************************)
CONSTANTS
  Caller,  \* callers, each with at most one Acquire and its goroutine at a time
  Lock,    \* lock objects of one key
  Object,  \* the lock object each caller uses
  Faults   \* which of "fail" (requests to consul), "lose" (sessions), "watch"
           \* (the request of a monitor) and "crash" (of a process) happen

ASSUME LockAssumption == Object \in [Caller -> Lock]

(* A lock object is not shared: nothing in Acquire tells whose session it  *)
(* unlocks.                                                                *)
ASSUME OwnObject == \A c, d \in Caller : Object[c] = Object[d] => c = d

None == "none"

ASSUME CallerAssumption == None \notin Caller

VARIABLES
  holder,   \* consul: the caller whose session holds the key, or None
  session,  \* session[l]: the caller l is held for (isHeld, lockSession), or None
  ch,       \* ch[c]: lockCh, what Lock returned to c: "nil" if it failed
  main,     \* what c is doing ...
  work,     \* ... and its goroutine
  ctx,      \* ctx[c]: cancelCtx is done
  lost,     \* history: lost[c]: not the goroutine of c ended its hold
  blind     \* history: blind[c]: c's monitor gave up while c still held the key

local == <<ch, main, work, ctx>>
vars == <<holder, session, local, lost, blind>>

(* The mutex of the library's Lock is held while a caller waits in Lock.   *)
Entered(l) == \E d \in Caller : Object[d] = l /\ main[d] = "lock"

-----------------------------------------------------------------------------
(* The consul library, and consul.                                         *)

(* Unlock of l: an error if it is not held; the session is no longer       *)
(* renewed, but a failed request leaves the key to it.                     *)
Unlock(l) ==
  /\ ~Entered(l)
  /\ session' = [session EXCEPT ![l] = None]
  /\ IF session[l] # None /\ holder = session[l]
     THEN holder' = None \/ ("fail" \in Faults /\ holder' = holder)
     ELSE holder' = holder

(* The key is taken from its holder.                                       *)
TakeAway ==
  /\ holder # None
  /\ lost' = [lost EXCEPT ![holder] = TRUE]
  /\ holder' = None
  /\ UNCHANGED <<session, local, blind>>

Renewed(c) == session[Object[c]] = c

(* A session that is not renewed comes to its end; others may.             *)
Lapse(c) ==
  /\ holder = c
  /\ Renewed(c) => "lose" \in Faults
  /\ TakeAway

(* The monitor closes lockCh when the key is not held for it any more, or  *)
(* when it cannot find out, held or not.                                   *)
Notice(c) ==
  /\ ch[c] = "open"
  /\ \/ holder # c /\ UNCHANGED blind
     \/ holder = c /\ "watch" \in Faults /\ blind' = [blind EXCEPT ![c] = TRUE]
  /\ ch' = [ch EXCEPT ![c] = "closed"]
  /\ UNCHANGED <<holder, session, main, work, ctx, lost>>

(* The end of a process; its session lives until it lapses.                *)
Crash(c) ==
  /\ "crash" \in Faults
  /\ session' = [session EXCEPT ![Object[c]] = None]
  /\ ch' = [ch EXCEPT ![c] = None]
  /\ main' = [main EXCEPT ![c] = "idle"]
  /\ work' = [work EXCEPT ![c] = "idle"]
  /\ ctx' = [ctx EXCEPT ![c] = FALSE]
  /\ blind' = [blind EXCEPT ![c] = FALSE]
  /\ UNCHANGED <<holder, lost>>

-----------------------------------------------------------------------------
(* Acquire.                                                                *)

(* Mutant of Acquire: the goroutine is started before lock.Lock.           *)
AcquireWorks(c) ==
  /\ main[c] = "idle" /\ work[c] = "idle"
  /\ ~Entered(Object[c])
  /\ main' = [main EXCEPT ![c] = "lock"]
  /\ work' = [work EXCEPT ![c] = "doing"]
  /\ UNCHANGED <<holder, session, ch, ctx, lost, blind>>

(* The call, up to lock.Lock.                                              *)
Acquire(c) ==
  /\ main[c] = "idle" /\ work[c] = "idle"
  /\ ~Entered(Object[c])
  /\ main' = [main EXCEPT ![c] = "lock"]
  /\ UNCHANGED <<holder, session, ch, work, ctx, lost, blind>>

(* The rest of it, with what Lock returned: the goroutine is started even  *)
(* when there is no lock.                                                  *)
Start(c, lockCh) ==
  /\ ch' = [ch EXCEPT ![c] = lockCh]
  /\ ctx' = [ctx EXCEPT ![c] = FALSE]
  /\ main' = [main EXCEPT ![c] = "return"]
  /\ work' = [work EXCEPT ![c] = "doing"]
  /\ blind' = [blind EXCEPT ![c] = FALSE]

(* Lock waits for the key as long as it takes: nothing closes its stopCh.  *)
Locked(c) ==
  /\ main[c] = "lock"
  /\ session[Object[c]] = None /\ holder = None
  /\ holder' = c
  /\ session' = [session EXCEPT ![Object[c]] = c]
  /\ lost' = [lost EXCEPT ![c] = FALSE]
  /\ Start(c, "open")

(* An error: the object is already held, or consul did not answer.         *)
NotLocked(c) ==
  /\ main[c] = "lock"
  /\ session[Object[c]] # None \/ "fail" \in Faults
  /\ Start(c, "nil")
  /\ UNCHANGED <<holder, session, lost>>

(* The goroutine: doingSth has returned ...                                *)
Doing(c) ==
  /\ work[c] = "doing"
  /\ work' = [work EXCEPT ![c] = "select"]
  /\ UNCHANGED <<holder, session, ch, main, ctx, lost, blind>>

(* Mutant of Select: the lock is unlocked before doneFunc.                 *)
SelectUnlocks(c) ==
  /\ work[c] = "select"
  /\ IF ctx[c] THEN UNCHANGED <<holder, session>> ELSE Unlock(Object[c])
  /\ work' = [work EXCEPT ![c] = IF ctx[c] THEN "idle" ELSE "unlock"]
  /\ UNCHANGED <<ch, main, ctx, lost, blind>>

(* ... then cancelledFunc if cancelCtx is done, else doneFunc ...          *)
Select(c) ==
  /\ work[c] = "select"
  /\ work' = [work EXCEPT ![c] = IF ctx[c] THEN "idle" ELSE "unlock"]
  /\ UNCHANGED <<holder, session, ch, main, ctx, lost, blind>>

(* Mutant of Done: the goroutine ends without unlocking.                   *)
DoneKeeps(c) ==
  /\ work[c] = "unlock"
  /\ work' = [work EXCEPT ![c] = "idle"]
  /\ UNCHANGED <<holder, session, ch, main, ctx, lost, blind>>

(* ... and Unlock, of the object the caller used.                          *)
Done(c) ==
  /\ work[c] = "unlock"
  /\ Unlock(Object[c])
  /\ work' = [work EXCEPT ![c] = "idle"]
  /\ UNCHANGED <<ch, main, ctx, lost, blind>>

(* The caller with the function Acquire returned: he calls it, or not.     *)
Block(c) ==
  /\ main[c] = "return"
  /\ \E to \in {"block", "idle"} : main' = [main EXCEPT ![c] = to]
  /\ UNCHANGED <<holder, session, ch, work, ctx, lost, blind>>

(* Mutant of Wake: the function cancels without waiting for lockCh.        *)
WakeAtOnce(c) ==
  /\ main[c] = "block"
  /\ ctx' = [ctx EXCEPT ![c] = TRUE]
  /\ main' = [main EXCEPT ![c] = "idle"]
  /\ UNCHANGED <<holder, session, ch, work, lost, blind>>

(* <-lockCh, which is for ever if it is nil; then cancelRequest().         *)
Wake(c) ==
  /\ main[c] = "block" /\ ch[c] = "closed"
  /\ ctx' = [ctx EXCEPT ![c] = TRUE]
  /\ main' = [main EXCEPT ![c] = "idle"]
  /\ UNCHANGED <<holder, session, ch, work, lost, blind>>

-----------------------------------------------------------------------------
(* Others: KVStoreConsul.Unlock of a lock object (Destroy then deletes the *)
(* key only if nobody holds it), and Delete or DeleteTTL of the key, which *)
(* do not ask who holds it.                                                *)

UnlockObject(l) ==
  /\ Unlock(l)
  /\ lost' = IF session[l] = None THEN lost ELSE [lost EXCEPT ![session[l]] = TRUE]
  /\ UNCHANGED <<local, blind>>

Delete == TakeAway

-----------------------------------------------------------------------------
Init ==
  /\ holder = None
  /\ session = [l \in Lock |-> None]
  /\ ch = [c \in Caller |-> None]
  /\ main = [c \in Caller |-> "idle"]
  /\ work = [c \in Caller |-> "idle"]
  /\ ctx = [c \in Caller |-> FALSE]
  /\ lost = [c \in Caller |-> FALSE]
  /\ blind = [c \in Caller |-> FALSE]

Worker(c) == Doing(c) \/ Select(c) \/ Done(c)

Library(c) == Lapse(c) \/ Notice(c)

Call(c) == Acquire(c) \/ Locked(c) \/ NotLocked(c) \/ Block(c) \/ Wake(c)

Next ==
  \/ \E c \in Caller : Worker(c) \/ Library(c) \/ Call(c) \/ Crash(c)
  \/ \E l \in Lock : UnlockObject(l)
  \/ Delete

Spec == Init /\ [][Next]_vars

(* doingSth returns; monitors see what happens in consul, and consul ends  *)
(* the sessions that are not renewed.                                      *)
Fairness ==
  \A c \in Caller :
    /\ WF_vars(Worker(c))
    /\ WF_vars(Notice(c) /\ holder # c)
    /\ WF_vars(Lapse(c) /\ ~Renewed(c))
    /\ WF_vars(Wake(c))

FairSpec == Spec /\ Fairness

-----------------------------------------------------------------------------
(* Properties.                                                             *)

TypeOK ==
  /\ holder \in Caller \cup {None}
  /\ session \in [Lock -> Caller \cup {None}]
  /\ ch \in [Caller -> {None, "nil", "open", "closed"}]
  /\ main \in [Caller -> {"idle", "lock", "return", "block"}]
  /\ work \in [Caller -> {"idle", "doing", "select", "unlock"}]
  /\ ctx \in [Caller -> BOOLEAN]
  /\ lost \in [Caller -> BOOLEAN]
  /\ blind \in [Caller -> BOOLEAN]
  /\ \A c \in Caller : ch[c] = None => work[c] = "idle"  \* not before Lock returns

(* c is at work under a lock it was given and has not lost since.          *)
Rightful(c) ==
  /\ work[c] # "idle"
  /\ ch[c] \notin {None, "nil"}
  /\ ~lost[c]

(* No two callers are at work under the lock, doneFunc included, but for   *)
(* those that work on after losing it or that never got it.                *)
Exclusive == \A c, d \in Caller : Rightful(c) /\ Rightful(d) => c = d

(* The work is cancelled under way only if its lock was taken from it, or  *)
(* if its monitor failed to find out whether it was: then a held lock is   *)
(* cancelled.  What the caller and the work do themselves, whenever the    *)
(* caller blocks and whatever becomes of other locks, cancels nothing.     *)
CancelledHasCause ==
  \A c \in Caller : ctx[c] /\ work[c] \in {"doing", "select"} => lost[c] \/ blind[c]

Stage(c) ==
  CASE work[c] = "idle" -> "out"
    [] Rightful(c) -> "in"
    [] OTHER -> "astray"

L == INSTANCE Lease WITH
       Client <- Caller,
       stage <- [c \in Caller |-> Stage(c)],
       doubted <- {c \in Caller : blind[c] /\ work[c] # "idle"},
       cancelled <- {c \in Caller : ctx[c] /\ work[c] \in {"doing", "select"}}

(* The work of the callers goes as under a lock that can be revoked: the   *)
(* steps of consul, monitors, goroutines and other clients, between which  *)
(* lock, lockCh and cancelCtx are at odds, show as one move of one caller. *)
WorksUnderLease == L!Spec

(* A caller that waits for the end of a lock he was given returns, however *)
(* it ends.                                                                *)
BlockReturns ==
  \A c \in Caller : main[c] = "block" /\ ch[c] # "nil" ~> main[c] # "block"

(* The work was cancelled, and its object is still held.                   *)
Abandoned(c) == Renewed(c) /\ work[c] = "idle" /\ ctx[c]

(* Whoever's session is still renewed is at work, or his work was          *)
(* cancelled, for a lock that was taken from it or that its monitor lost   *)
(* sight of: no other way through Acquire leaves an object held, also if   *)
(* it was held already when the call began.                                *)
OnlyCancelledKeeps ==
  \A c \in Caller : Renewed(c) /\ work[c] = "idle" => ctx[c] /\ (lost[c] \/ blind[c])

(* Nobody keeps the key for ever, crashed or alive, except by a work that  *)
(* was cancelled for a failed request of its monitor: it does not unlock.  *)
Freed == \A c \in Caller : holder = c ~> holder # c \/ Abandoned(c)
=============================================================================
