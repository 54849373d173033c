-------------------------- MODULE ConsulLockProofs --------------------------
(***************************************************************************)
(* Theorems about ConsulLock, for any callers with lock objects of their   *)
(* own and every combination of faults: the type invariant, that nobody    *)
(* works under a lock that another one works under, that a work is         *)
(* cancelled only when its lock is lost or its monitor blind, and that     *)
(* Acquire implements Lease.                                               *)
(***************************************************************************)
EXTENDS ConsulLock, TLAPS

(* A lock object is only ever held for the caller who uses it. *)
OwnSession == \A l \in Lock : session[l] # None => Object[session[l]] = l

(* Who works under a lock and has not lost it has it in consul, and will   *)
(* unlock it.                                                              *)
RightfulHolds == \A c \in Caller : Rightful(c) => holder = c /\ Renewed(c)

(* What a monitor that closes lockCh under way has seen, or not. *)
Cause(c) == lost[c] \/ blind[c]

ClosedHasCause ==
  \A c \in Caller : ch[c] = "closed" /\ work[c] # "idle" => Cause(c)

IInv == TypeOK /\ OwnSession /\ RightfulHolds /\ ClosedHasCause /\ CancelledHasCause

LEMMA InitInv == Init => IInv
<1> SUFFICES ASSUME Init PROVE IInv
  OBVIOUS
<1>1. TypeOK
  BY DEF Init, TypeOK
<1>2. OwnSession /\ RightfulHolds /\ ClosedHasCause /\ CancelledHasCause
  BY DEF Init, OwnSession, RightfulHolds, Rightful, ClosedHasCause, CancelledHasCause, Cause
<1> QED
  BY <1>1, <1>2 DEF IInv

(* Unlock of an object touches the hold of its own caller only. *)
LEMMA UnlockOthers ==
  ASSUME IInv, NEW l \in Lock, Unlock(l)
  PROVE  /\ holder' \in Caller \cup {None}
         /\ session' \in [Lock -> Caller \cup {None}]
         /\ OwnSession'
         /\ \A d \in Caller : Object[d] # l /\ holder = d /\ Renewed(d)
                                => holder' = d /\ Renewed(d)'
         /\ session[l] = None => holder' = holder /\ session' = session
<1>1. session' = [session EXCEPT ![l] = None]
      /\ (holder' = holder \/ (holder' = None /\ session[l] # None /\ holder = session[l]))
  BY DEF Unlock
<1>2. session \in [Lock -> Caller \cup {None}] /\ holder \in Caller \cup {None}
      /\ OwnSession
  BY DEF IInv, TypeOK
<1>3. OwnSession'
  BY <1>1, <1>2, CallerAssumption DEF OwnSession
<1>4. ASSUME NEW d \in Caller, Object[d] # l, holder = d, Renewed(d)
      PROVE  holder' = d /\ Renewed(d)'
  <2>1. session[l] # d
    BY <1>2, <1>4, CallerAssumption DEF OwnSession
  <2>2. Object[d] \in Lock
    BY LockAssumption DEF LockAssumption
  <2> QED
    BY <1>1, <1>2, <1>4, <2>1, <2>2 DEF Renewed
<1>5. session[l] = None => holder' = holder /\ session' = session
  BY <1>1, <1>2
<1> QED
  BY <1>1, <1>2, <1>3, <1>4, <1>5

LEMMA TakeAwayInv ==
  ASSUME IInv, TakeAway
  PROVE  IInv'
<1> USE DEF TakeAway, local
<1>1. TypeOK'
  BY DEF IInv, TypeOK
<1>2. holder \in Caller /\ lost \in [Caller -> BOOLEAN]
  BY DEF IInv, TypeOK
<1>3. /\ \A c \in Caller : (lost[c] => lost'[c]) /\ (holder = c => lost'[c])
      /\ blind' = blind
  BY <1>2
<1>4. RightfulHolds'
  BY <1>3 DEF IInv, RightfulHolds, Rightful
<1>5. OwnSession' /\ ClosedHasCause' /\ CancelledHasCause'
  BY <1>3 DEF IInv, OwnSession, ClosedHasCause, CancelledHasCause, Cause
<1> QED
  BY <1>1, <1>4, <1>5 DEF IInv

LEMMA NoticeInv ==
  ASSUME IInv, NEW c \in Caller, Notice(c)
  PROVE  IInv'
<1>1. TypeOK'
  BY DEF IInv, TypeOK, Notice, None
<1>2. /\ ch' = [ch EXCEPT ![c] = "closed"] /\ ch[c] = "open"
      /\ holder # c \/ blind' = [blind EXCEPT ![c] = TRUE]
      /\ blind' = blind \/ blind' = [blind EXCEPT ![c] = TRUE]
      /\ UNCHANGED <<holder, session, main, work, ctx, lost>>
      /\ ch \in [Caller -> {None, "nil", "open", "closed"}]
      /\ blind \in [Caller -> BOOLEAN]
  BY DEF Notice, IInv, TypeOK
<1>3. \A d \in Caller : Cause(d) => Cause(d)'
  BY <1>2 DEF Cause
<1>4. work[c] # "idle" => Cause(c)'
  <2>1. CASE holder # c
    <3>1. ~Rightful(c)
      BY <2>1 DEF IInv, RightfulHolds
    <3> QED
      BY <1>2, <3>1 DEF Rightful, None, Cause
  <2>2. CASE blind' = [blind EXCEPT ![c] = TRUE]
    BY <1>2, <2>2 DEF Cause
  <2> QED
    BY <1>2, <2>1, <2>2
<1>5. \A d \in Caller : Rightful(d)' => Rightful(d)
  BY <1>2 DEF Rightful, None
<1>6. OwnSession' /\ RightfulHolds'
  BY <1>2, <1>5 DEF IInv, OwnSession, RightfulHolds, Renewed
<1>7. ClosedHasCause'
  BY <1>2, <1>3, <1>4 DEF IInv, ClosedHasCause
<1>8. CancelledHasCause'
  BY <1>2, <1>3 DEF IInv, CancelledHasCause, Cause
<1> QED
  BY <1>1, <1>6, <1>7, <1>8 DEF IInv

LEMMA CrashInv ==
  ASSUME IInv, NEW c \in Caller, Crash(c)
  PROVE  IInv'
<1>1. TypeOK'
  BY LockAssumption DEF IInv, TypeOK, Crash, None
<1>2. /\ session' = [session EXCEPT ![Object[c]] = None]
      /\ ch' = [ch EXCEPT ![c] = None]
      /\ work' = [work EXCEPT ![c] = "idle"]
      /\ ctx' = [ctx EXCEPT ![c] = FALSE]
      /\ blind' = [blind EXCEPT ![c] = FALSE]
      /\ UNCHANGED <<holder, lost>>
      /\ blind \in [Caller -> BOOLEAN]
      /\ session \in [Lock -> Caller \cup {None}]
      /\ ch \in [Caller -> {None, "nil", "open", "closed"}]
      /\ work \in [Caller -> {"idle", "doing", "select", "unlock"}]
      /\ ctx \in [Caller -> BOOLEAN]
  BY DEF Crash, IInv, TypeOK
<1>3. OwnSession'
  BY <1>2 DEF IInv, OwnSession
<1>4. ASSUME NEW d \in Caller, Rightful(d)'
      PROVE  (holder = d /\ Renewed(d))'
  <2>1. d # c
    BY <1>2, <1>4 DEF Rightful
  <2>2. Object[d] # Object[c] /\ Object[d] \in Lock
    BY <2>1, OwnObject, LockAssumption DEF OwnObject, LockAssumption
  <2>3. Rightful(d)
    BY <1>2, <1>4, <2>1 DEF Rightful
  <2> QED
    BY <1>2, <2>2, <2>3 DEF IInv, RightfulHolds, Renewed
<1>5. RightfulHolds'
  BY <1>4 DEF RightfulHolds
<1>6. ClosedHasCause' /\ CancelledHasCause'
  BY <1>2 DEF IInv, ClosedHasCause, CancelledHasCause, Cause
<1> QED
  BY <1>1, <1>3, <1>5, <1>6 DEF IInv

(* The lock is given to one who works when nobody has it. *)
LEMMA LockedInv ==
  ASSUME IInv, NEW c \in Caller, Locked(c)
  PROVE  IInv'
<1> USE DEF Locked, Start
<1>1. TypeOK'
  BY LockAssumption DEF IInv, TypeOK, LockAssumption, None
<1>2. /\ holder = None /\ holder' = c
      /\ session' = [session EXCEPT ![Object[c]] = c]
      /\ lost' = [lost EXCEPT ![c] = FALSE]
      /\ blind' = [blind EXCEPT ![c] = FALSE]
      /\ blind \in [Caller -> BOOLEAN]
      /\ ch' = [ch EXCEPT ![c] = "open"]
      /\ ctx' = [ctx EXCEPT ![c] = FALSE]
      /\ work' = [work EXCEPT ![c] = "doing"]
      /\ session \in [Lock -> Caller \cup {None}]
      /\ ch \in [Caller -> {None, "nil", "open", "closed"}]
      /\ work \in [Caller -> {"idle", "doing", "select", "unlock"}]
      /\ ctx \in [Caller -> BOOLEAN]
      /\ lost \in [Caller -> BOOLEAN]
  BY DEF IInv, TypeOK
<1>3. OwnSession'
  BY <1>2 DEF IInv, OwnSession
<1>4. ASSUME NEW d \in Caller, Rightful(d)'
      PROVE  (holder = d /\ Renewed(d))'
  <2>1. CASE d = c
    BY <1>2, <2>1, LockAssumption DEF Renewed, LockAssumption
  <2>2. CASE d # c
    <3>1. Rightful(d)
      BY <1>2, <1>4, <2>2 DEF Rightful
    <3> QED
      BY <1>2, <3>1, CallerAssumption DEF IInv, RightfulHolds, CallerAssumption
  <2> QED
    BY <2>1, <2>2
<1>5. RightfulHolds'
  BY <1>4 DEF RightfulHolds
<1>6. ClosedHasCause' /\ CancelledHasCause'
  BY <1>2 DEF IInv, ClosedHasCause, CancelledHasCause, Cause
<1> QED
  BY <1>1, <1>3, <1>5, <1>6 DEF IInv

LEMMA NotLockedInv ==
  ASSUME IInv, NEW c \in Caller, NotLocked(c)
  PROVE  IInv'
<1> USE DEF NotLocked, Start
<1>1. TypeOK'
  BY DEF IInv, TypeOK, None
<1>2. /\ UNCHANGED <<holder, session, lost>>
      /\ blind' = [blind EXCEPT ![c] = FALSE]
      /\ blind \in [Caller -> BOOLEAN]
      /\ ch' = [ch EXCEPT ![c] = "nil"]
      /\ ctx' = [ctx EXCEPT ![c] = FALSE]
      /\ work' = [work EXCEPT ![c] = "doing"]
      /\ ch \in [Caller -> {None, "nil", "open", "closed"}]
      /\ work \in [Caller -> {"idle", "doing", "select", "unlock"}]
      /\ ctx \in [Caller -> BOOLEAN]
  BY DEF IInv, TypeOK
<1>3. \A d \in Caller : Rightful(d)' => Rightful(d)
  BY <1>2 DEF Rightful
<1>4. OwnSession' /\ RightfulHolds'
  BY <1>2, <1>3 DEF IInv, OwnSession, RightfulHolds, Renewed
<1>5. ClosedHasCause' /\ CancelledHasCause'
  BY <1>2 DEF IInv, ClosedHasCause, CancelledHasCause, Cause
<1> QED
  BY <1>1, <1>4, <1>5 DEF IInv

(* The goroutine unlocks when it is no longer at work. *)
LEMMA DoneInv ==
  ASSUME IInv, NEW c \in Caller, Done(c)
  PROVE  IInv'
<1>1. /\ Unlock(Object[c]) /\ Object[c] \in Lock
      /\ work' = [work EXCEPT ![c] = "idle"]
      /\ UNCHANGED <<ch, main, ctx, lost, blind>>
      /\ work \in [Caller -> {"idle", "doing", "select", "unlock"}]
  BY LockAssumption DEF Done, IInv, TypeOK, LockAssumption
<1>2. /\ holder' \in Caller \cup {None}
      /\ session' \in [Lock -> Caller \cup {None}]
      /\ OwnSession'
      /\ \A d \in Caller : Object[d] # Object[c] /\ holder = d /\ Renewed(d)
                             => holder' = d /\ Renewed(d)'
  BY <1>1, UnlockOthers
<1>3. TypeOK'
  BY <1>1, <1>2 DEF IInv, TypeOK
<1>4. ASSUME NEW d \in Caller, Rightful(d)'
      PROVE  (holder = d /\ Renewed(d))'
  <2>1. d # c /\ Rightful(d)
    BY <1>1, <1>4 DEF Rightful
  <2>2. Object[d] # Object[c]
    BY <2>1, OwnObject DEF OwnObject
  <2>3. holder = d /\ Renewed(d)
    BY <2>1 DEF IInv, RightfulHolds
  <2> QED
    BY <1>2, <2>2, <2>3
<1>5. RightfulHolds'
  BY <1>4 DEF RightfulHolds
<1>6. ClosedHasCause' /\ CancelledHasCause'
  BY <1>1 DEF IInv, ClosedHasCause, CancelledHasCause, Cause
<1> QED
  BY <1>2, <1>3, <1>5, <1>6 DEF IInv

(* Another's Unlock of an object counts as a loss for its caller. *)
LEMMA UnlockObjectInv ==
  ASSUME IInv, NEW l \in Lock, UnlockObject(l)
  PROVE  IInv'
<1>1. /\ Unlock(l)
      /\ ch' = ch /\ main' = main /\ work' = work /\ ctx' = ctx /\ blind' = blind
      /\ lost' = IF session[l] = None THEN lost ELSE [lost EXCEPT ![session[l]] = TRUE]
      /\ session \in [Lock -> Caller \cup {None}]
      /\ lost \in [Caller -> BOOLEAN]
  BY DEF UnlockObject, local, IInv, TypeOK
<1>2. /\ holder' \in Caller \cup {None}
      /\ session' \in [Lock -> Caller \cup {None}]
      /\ OwnSession'
      /\ \A d \in Caller : Object[d] # l /\ holder = d /\ Renewed(d)
                             => holder' = d /\ Renewed(d)'
      /\ session[l] = None => holder' = holder /\ session' = session
  BY <1>1, UnlockOthers
<1>3. \A d \in Caller : lost[d] => lost'[d]
  BY <1>1
<1>4. TypeOK'
  BY <1>1, <1>2 DEF IInv, TypeOK
<1>5. ASSUME NEW d \in Caller, Rightful(d)'
      PROVE  (holder = d /\ Renewed(d))'
  <2>1. Rightful(d)
    BY <1>1, <1>3, <1>5 DEF Rightful
  <2>2. holder = d /\ Renewed(d)
    BY <2>1 DEF IInv, RightfulHolds
  <2>3. CASE Object[d] = l
    <3>1. session[l] = d /\ d # None
      BY <2>2, <2>3, CallerAssumption DEF Renewed, CallerAssumption
    <3>2. lost'[d]
      BY <1>1, <3>1
    <3> QED
      BY <1>5, <3>2 DEF Rightful
  <2>4. CASE Object[d] # l
    BY <1>2, <2>2, <2>4
  <2> QED
    BY <2>3, <2>4
<1>6. RightfulHolds'
  BY <1>5 DEF RightfulHolds
<1>7. ClosedHasCause' /\ CancelledHasCause'
  BY <1>1, <1>3 DEF IInv, ClosedHasCause, CancelledHasCause, Cause
<1> QED
  BY <1>2, <1>4, <1>6, <1>7 DEF IInv

(* The channel that wakes the caller was closed for a lock that is lost. *)
LEMMA WakeInv ==
  ASSUME IInv, NEW c \in Caller, Wake(c)
  PROVE  IInv'
<1> USE DEF Wake
<1>1. TypeOK'
  BY DEF IInv, TypeOK
<1>2. ctx \in [Caller -> BOOLEAN] /\ ch[c] = "closed"
  BY DEF IInv, TypeOK
<1>3. OwnSession' /\ RightfulHolds' /\ ClosedHasCause'
  BY DEF IInv, OwnSession, RightfulHolds, Rightful, Renewed, ClosedHasCause, Cause
<1>4. CancelledHasCause'
  BY <1>2 DEF IInv, ClosedHasCause, CancelledHasCause, Cause
<1> QED
  BY <1>1, <1>3, <1>4 DEF IInv

(* Steps of the caller or the goroutine that touch no lock. *)
LEMMA OtherInv ==
  ASSUME IInv, NEW c \in Caller, Acquire(c) \/ Doing(c) \/ Select(c) \/ Block(c)
  PROVE  IInv'
<1>1. UNCHANGED <<holder, session, ch, ctx, lost, blind>>
  BY DEF Acquire, Doing, Select, Block
<1>2. TypeOK'
  BY DEF IInv, TypeOK, Acquire, Doing, Select, Block
<1>3. \A d \in Caller :
        /\ work'[d] # "idle" => work[d] # "idle"
        /\ work'[d] \in {"doing", "select"} => work[d] \in {"doing", "select"}
  BY DEF IInv, TypeOK, Acquire, Doing, Select, Block
<1>4. \A d \in Caller : Rightful(d)' => Rightful(d)
  BY <1>1, <1>3 DEF Rightful
<1>5. OwnSession' /\ RightfulHolds'
  BY <1>1, <1>4 DEF IInv, OwnSession, RightfulHolds, Renewed
<1>6. ClosedHasCause' /\ CancelledHasCause'
  BY <1>1, <1>3 DEF IInv, ClosedHasCause, CancelledHasCause, Cause
<1> QED
  BY <1>2, <1>5, <1>6 DEF IInv

LEMMA StepInv == IInv /\ [Next]_vars => IInv'
<1> SUFFICES ASSUME IInv, [Next]_vars PROVE IInv'
  OBVIOUS
<1>1. ASSUME NEW c \in Caller, Worker(c) PROVE IInv'
  BY <1>1, OtherInv, DoneInv DEF Worker
<1>2. ASSUME NEW c \in Caller, Library(c) PROVE IInv'
  BY <1>2, TakeAwayInv, NoticeInv DEF Library, Lapse
<1>3. ASSUME NEW c \in Caller, Call(c) PROVE IInv'
  BY <1>3, OtherInv, LockedInv, NotLockedInv, WakeInv DEF Call
<1>4. ASSUME NEW c \in Caller, Crash(c) PROVE IInv'
  BY <1>4, CrashInv
<1>5. ASSUME NEW l \in Lock, UnlockObject(l) PROVE IInv'
  BY <1>5, UnlockObjectInv
<1>6. CASE Delete
  BY <1>6, TakeAwayInv DEF Delete
<1>7. CASE UNCHANGED vars
  BY <1>7 DEF vars, local, IInv, TypeOK, OwnSession, RightfulHolds, Rightful,
     Renewed, ClosedHasCause, CancelledHasCause, Cause
<1> QED
  BY <1>1, <1>2, <1>3, <1>4, <1>5, <1>6, <1>7 DEF Next

LEMMA Inductive == Spec => []IInv
  BY InitInv, StepInv, PTL DEF Spec

(* The types: holder and sessions are callers, and the program counters    *)
(* are where the code can be.                                              *)
THEOREM TypeCorrect == Spec => []TypeOK
<1>1. IInv => TypeOK
  BY DEF IInv
<1> QED
  BY <1>1, Inductive, PTL

(* The lock excludes: of all the callers at work under a lock they were    *)
(* given and have not lost, there is one at most.                          *)
THEOREM WorkIsExclusive == Spec => []Exclusive
<1>1. IInv => Exclusive
  BY DEF IInv, RightfulHolds, Exclusive
<1> QED
  BY <1>1, Inductive, PTL

(* cancelledFunc is called for a lock that was lost or whose monitor could *)
(* not find out, which may be a lock still held; never for a caller that   *)
(* merely waits in the block function.                                     *)
THEOREM OnlyWithCauseCancelled == Spec => []CancelledHasCause
<1>1. IInv => CancelledHasCause
  BY DEF IInv
<1> QED
  BY <1>1, Inductive, PTL

(* The goroutine that unlocks is the last to know of the lock. *)
LEMMA KeepsStep == IInv /\ OnlyCancelledKeeps /\ [Next]_vars => OnlyCancelledKeeps'
<1> SUFFICES ASSUME IInv, OnlyCancelledKeeps, [Next]_vars, NEW c \in Caller,
                    Renewed(c)', work'[c] = "idle"
             PROVE  ctx'[c] /\ Cause(c)'
  BY DEF OnlyCancelledKeeps, Cause
<1> USE DEF IInv, TypeOK
<1>a. /\ Object[c] \in Lock /\ c # None
      /\ Renewed(c) /\ work[c] = "idle" => ctx[c] /\ Cause(c)
  BY LockAssumption, CallerAssumption DEF LockAssumption, CallerAssumption,
     OnlyCancelledKeeps, Cause
<1>1. ASSUME NEW d \in Caller, Acquire(d) \/ Doing(d) \/ Block(d) PROVE ctx'[c] /\ Cause(c)'
  <2>1. UNCHANGED <<session, ctx, lost, blind>> /\ (work'[c] = "idle" => work[c] = "idle")
    BY <1>1 DEF Acquire, Doing, Block
  <2> QED
    BY <1>a, <2>1 DEF Renewed, Cause
<1>2. ASSUME NEW d \in Caller, Select(d) PROVE ctx'[c] /\ Cause(c)'
  <2>1. UNCHANGED <<session, ctx, lost, blind>>
    BY <1>2 DEF Select
  <2>2. CASE work[c] = "idle"
    BY <1>a, <2>1, <2>2 DEF Renewed, Cause
  <2>3. CASE work[c] # "idle"
    <3>1. c = d /\ work[c] = "select" /\ ctx[c]
      BY <1>2, <2>3 DEF Select
    <3> QED
      BY <2>1, <3>1 DEF CancelledHasCause, Cause
  <2> QED
    BY <2>2, <2>3
<1>3. ASSUME NEW d \in Caller, Done(d) PROVE ctx'[c] /\ Cause(c)'
  <2>1. /\ UNCHANGED <<ctx, lost, blind>> /\ session' = [session EXCEPT ![Object[d]] = None]
        /\ work' = [work EXCEPT ![d] = "idle"]
    BY <1>3 DEF Done, Unlock
  <2>2. c # d /\ Renewed(c)
    BY <1>a, <2>1 DEF Renewed, Cause
  <2> QED
    BY <1>a, <2>1, <2>2 DEF Cause
<1>4. ASSUME NEW l \in Lock, UnlockObject(l) PROVE ctx'[c] /\ Cause(c)'
  <2>1. /\ UNCHANGED <<ctx, work, blind>> /\ session' = [session EXCEPT ![l] = None]
        /\ \A d \in Caller : lost[d] => lost'[d]
    BY <1>4 DEF UnlockObject, Unlock, local
  <2>2. Renewed(c)
    BY <1>a, <2>1 DEF Renewed, Cause
  <2> QED
    BY <1>a, <2>1, <2>2 DEF Cause
<1>5. ASSUME NEW d \in Caller, Crash(d) PROVE ctx'[c] /\ Cause(c)'
  <2>1. /\ session' = [session EXCEPT ![Object[d]] = None] /\ lost' = lost
        /\ work' = [work EXCEPT ![d] = "idle"] /\ ctx' = [ctx EXCEPT ![d] = FALSE]
        /\ blind' = [blind EXCEPT ![d] = FALSE]
    BY <1>5 DEF Crash
  <2>2. c # d /\ Renewed(c)
    BY <1>a, <2>1 DEF Renewed, Cause
  <2> QED
    BY <1>a, <2>1, <2>2 DEF Cause
<1>6. ASSUME NEW d \in Caller, Locked(d) \/ NotLocked(d) PROVE ctx'[c] /\ Cause(c)'
  <2>1. work'[d] = "doing"
    BY <1>6 DEF Locked, NotLocked, Start
  <2>2. c # d
    BY <2>1
  <2>3. work'[c] = work[c] /\ ctx'[c] = ctx[c] /\ lost'[c] = lost[c]
        /\ blind'[c] = blind[c]
    BY <1>6, <2>2 DEF Locked, NotLocked, Start
  <2>4. Renewed(c)
    <3>1. Object[d] # Object[c]
      BY <2>2, OwnObject DEF OwnObject
    <3> QED
      BY <1>6, <1>a, <3>1 DEF Locked, NotLocked, Renewed
  <2> QED
    BY <1>a, <2>3, <2>4 DEF Cause
<1>7. ASSUME TakeAway \/ (\E d \in Caller : Notice(d) \/ Wake(d))
      PROVE  ctx'[c] /\ Cause(c)'
  <2>1. /\ UNCHANGED <<session, work>>
        /\ lost[c] => lost'[c]
        /\ blind[c] => blind'[c]
        /\ ctx[c] => ctx'[c]
    BY <1>7 DEF TakeAway, Notice, Wake, local
  <2> QED
    BY <1>a, <2>1 DEF Renewed, Cause
<1>8. CASE UNCHANGED vars
  BY <1>a, <1>8 DEF vars, local, Renewed, Cause
<1> QED
  BY <1>1, <1>2, <1>3, <1>4, <1>5, <1>6, <1>7, <1>8
     DEF Next, Worker, Library, Lapse, Call, Delete

(* A lock object stays held when its work is over in one case only: the    *)
(* work was cancelled, after its lock had been taken or its monitor had    *)
(* lost sight of it.  Every other way through Acquire, crashes and         *)
(* failures included, lets it go.                                          *)
THEOREM HeldIsWorkedOrCancelled == Spec => []OnlyCancelledKeeps
<1>1. Init => OnlyCancelledKeeps
  BY CallerAssumption, LockAssumption
     DEF Init, OnlyCancelledKeeps, Renewed, CallerAssumption, LockAssumption
<1> QED
  BY InitInv, StepInv, KeepsStep, <1>1, PTL DEF Spec

-----------------------------------------------------------------------------
(* The refinement of Lease.                                                *)

(* Lock is called when the goroutine of the last call is at its end. *)
Fresh == \A c \in Caller : main[c] = "lock" => work[c] = "idle"

LEMMA FreshStep == IInv /\ Fresh /\ [Next]_vars => Fresh'
<1> SUFFICES ASSUME IInv, Fresh, [Next]_vars PROVE Fresh'
  OBVIOUS
<1>1. /\ main \in [Caller -> {"idle", "lock", "return", "block"}]
      /\ work \in [Caller -> {"idle", "doing", "select", "unlock"}]
  BY DEF IInv, TypeOK
<1>2. ASSUME NEW c \in Caller, Worker(c) \/ Call(c) \/ Crash(c)
      PROVE  Fresh'
  BY <1>1, <1>2 DEF Fresh, Worker, Doing, Select, Done, Call, Acquire, Locked,
     NotLocked, Start, Block, Wake, Crash
<1>3. ASSUME NEW c \in Caller, Library(c)
      PROVE  Fresh'
  BY <1>3 DEF Fresh, Library, Lapse, TakeAway, Notice, local
<1>4. ASSUME NEW l \in Lock, UnlockObject(l)
      PROVE  Fresh'
  BY <1>4 DEF Fresh, UnlockObject, local
<1>5. CASE Delete \/ UNCHANGED vars
  BY <1>5 DEF Fresh, Delete, TakeAway, vars, local
<1> QED
  BY <1>2, <1>3, <1>4, <1>5 DEF Next

Stages == [c \in Caller |-> Stage(c)]

Asked == {c \in Caller : ctx[c] /\ work[c] \in {"doing", "select"}}

Doubted == {c \in Caller : blind[c] /\ work[c] # "idle"}

(* One caller moves at most; what is asked of a step is what becomes of    *)
(* him and that the others stay as they are.                               *)
Still(d) ==
  /\ Stage(d)' = Stage(d)
  /\ d \in Asked' <=> d \in Asked
  /\ d \in Doubted' <=> d \in Doubted

Moves(c) ==
  /\ \A d \in Caller \ {c} : Still(d)
  /\ \/ Still(c)
     \/ /\ Stage(c) = "out" /\ Stage(c)' = "in"
        /\ \A d \in Caller : Stage(d) # "in"
        /\ c \in Asked' <=> c \in Asked
        /\ c \in Doubted' <=> c \in Doubted
     \/ /\ Stage(c) # "astray" /\ Stage(c)' = "astray"
        /\ c \in Asked' <=> c \in Asked
        /\ c \in Doubted' <=> c \in Doubted
     \/ /\ Stage(c) # "out" /\ Stage(c)' = Stage(c)
        /\ c \in Asked' <=> c \in Asked
        /\ c \in Doubted'
     \/ /\ Stage(c) = "astray" \/ c \in Doubted
        /\ Stage(c)' = Stage(c)
        /\ c \in Asked'
        /\ c \in Doubted' <=> c \in Doubted
     \/ /\ Stage(c) # "out" /\ Stage(c)' = "out"
        /\ c \notin Asked' /\ c \notin Doubted'

LEMMA StagesApart ==
  ASSUME NEW c \in Caller
  PROVE  /\ Stage(c) = "out" <=> work[c] = "idle"
         /\ Stage(c) = "in" <=> Rightful(c)
         /\ Stage(c) \in {"out", "in", "astray"}
  BY DEF Stage, Rightful

LEMMA MoveIsLease ==
  ASSUME NEW c \in Caller, Moves(c)
  PROVE  [L!Next]_(L!vars)
<1>1. Stages' = [Stages EXCEPT ![c] = Stage(c)']
  BY DEF Moves, Still, Stages
<1>2. \A d \in Caller : Stages[d] = Stage(d)
  BY DEF Stages
<1>3. /\ Asked \subseteq Caller /\ Asked' \subseteq Caller
      /\ Doubted \subseteq Caller /\ Doubted' \subseteq Caller
  BY DEF Asked, Doubted
<1>4. \A d \in Caller \ {c} :
        (d \in Asked' <=> d \in Asked) /\ (d \in Doubted' <=> d \in Doubted)
  BY DEF Moves, Still
<1>5. ASSUME c \in Asked' <=> c \in Asked PROVE Asked' = Asked
  BY <1>3, <1>4, <1>5
<1>6. ASSUME c \in Asked' PROVE Asked' = Asked \cup {c}
  BY <1>3, <1>4, <1>6
<1>7. ASSUME c \notin Asked' PROVE Asked' = Asked \ {c}
  BY <1>3, <1>4, <1>7
<1>8. ASSUME Stage(c)' = Stage(c) PROVE Stages' = Stages
  BY <1>1, <1>8 DEF Stages
<1>9. ASSUME c \in Doubted' <=> c \in Doubted PROVE Doubted' = Doubted
  BY <1>3, <1>4, <1>9
<1>10. ASSUME c \in Doubted' PROVE Doubted' = Doubted \cup {c}
  BY <1>3, <1>4, <1>10
<1>11. ASSUME c \notin Doubted' PROVE Doubted' = Doubted \ {c}
  BY <1>3, <1>4, <1>11
<1> QED
  <2>1. CASE Still(c)
    BY <2>1, <1>5, <1>8, <1>9 DEF Still, L!vars, Stages, Asked, Doubted
  <2>2. CASE /\ Stage(c) = "out" /\ Stage(c)' = "in"
             /\ \A d \in Caller : Stage(d) # "in"
             /\ c \in Asked' <=> c \in Asked
             /\ c \in Doubted' <=> c \in Doubted
    <3>1. L!Enter(c)
      BY <2>2, <1>1, <1>2, <1>5, <1>9 DEF L!Enter, Stages, Asked, Doubted
    <3> QED
      BY <3>1 DEF L!Next
  <2>3. CASE /\ Stage(c) # "astray" /\ Stage(c)' = "astray"
             /\ c \in Asked' <=> c \in Asked
             /\ c \in Doubted' <=> c \in Doubted
    <3>1. L!Stray(c)
      BY <2>3, <1>1, <1>2, <1>5, <1>9 DEF L!Stray, Stages, Asked, Doubted
    <3> QED
      BY <3>1 DEF L!Next
  <2>4. CASE /\ Stage(c) # "out" /\ Stage(c)' = Stage(c)
             /\ c \in Asked' <=> c \in Asked
             /\ c \in Doubted'
    <3>1. L!Doubt(c)
      BY <2>4, <1>2, <1>5, <1>8, <1>10 DEF L!Doubt, Stages, Asked, Doubted
    <3> QED
      BY <3>1 DEF L!Next
  <2>5. CASE /\ Stage(c) = "astray" \/ c \in Doubted
             /\ Stage(c)' = Stage(c)
             /\ c \in Asked'
             /\ c \in Doubted' <=> c \in Doubted
    <3>1. L!Cancel(c)
      BY <2>5, <1>2, <1>6, <1>8, <1>9 DEF L!Cancel, Stages, Asked, Doubted
    <3> QED
      BY <3>1 DEF L!Next
  <2>6. CASE /\ Stage(c) # "out" /\ Stage(c)' = "out"
             /\ c \notin Asked' /\ c \notin Doubted'
    <3>1. L!Leave(c)
      BY <2>6, <1>1, <1>2, <1>7, <1>11 DEF L!Leave, Stages, Asked, Doubted
    <3> QED
      BY <3>1 DEF L!Next
  <2> QED
    BY <2>1, <2>2, <2>3, <2>4, <2>5, <2>6 DEF Moves

(* A step that leaves a caller's goroutine, channel, context and loss alone *)
(* does not move him.                                                      *)
LEMMA StillIfSame ==
  ASSUME NEW d \in Caller, work'[d] = work[d], ch'[d] = ch[d],
         ctx'[d] = ctx[d], lost'[d] = lost[d], blind'[d] = blind[d]
  PROVE  Still(d)
  BY DEF Still, Stage, Rightful, Asked, Doubted

(* The key is gone for c, who may have been at work.                       *)
LEMMA LosingMoves ==
  ASSUME TypeOK, NEW c \in Caller, lost' = [lost EXCEPT ![c] = TRUE],
         UNCHANGED <<local, blind>>
  PROVE  Moves(c)
<1>1. \A d \in Caller \ {c} : Still(d)
  BY StillIfSame DEF TypeOK, local
<1>2. lost'[c]
  BY DEF TypeOK
<1>3. (c \in Asked' <=> c \in Asked) /\ (c \in Doubted' <=> c \in Doubted)
  BY DEF Asked, Doubted, local
<1>4. CASE Rightful(c)
  BY <1>1, <1>2, <1>3, <1>4 DEF Moves, Stage, Rightful, local
<1>5. CASE ~Rightful(c)
  BY <1>1, <1>2, <1>3, <1>5 DEF Moves, Still, Stage, Rightful, local
<1> QED
  BY <1>4, <1>5

LEMMA NoticeMoves ==
  ASSUME IInv, NEW c \in Caller, Notice(c)
  PROVE  Moves(c)
<1>1. \A d \in Caller \ {c} : Still(d)
  BY StillIfSame DEF IInv, TypeOK, Notice
<1>2. c \in Asked' <=> c \in Asked
  BY DEF Asked, Notice
<1>3. ch[c] = "open" /\ ch'[c] = "closed" /\ work' = work /\ lost' = lost
  BY DEF IInv, TypeOK, Notice
<1>4. Stage(c)' = Stage(c)
  BY <1>3 DEF Stage, Rightful, None
<1>5. CASE blind' = blind
  <2>1. c \in Doubted' <=> c \in Doubted
    BY <1>3, <1>5 DEF Doubted
  <2> QED
    BY <1>1, <1>2, <1>4, <2>1 DEF Moves, Still
<1>6. CASE blind' = [blind EXCEPT ![c] = TRUE]
  <2>1. blind'[c]
    BY <1>6 DEF IInv, TypeOK
  <2>2. CASE work[c] = "idle"
    <3>1. c \notin Doubted' /\ c \notin Doubted
      BY <1>3, <2>2 DEF Doubted
    <3> QED
      BY <1>1, <1>2, <1>4, <3>1 DEF Moves, Still
  <2>3. CASE work[c] # "idle"
    <3>1. c \in Doubted' /\ Stage(c) # "out"
      BY <1>3, <2>1, <2>3, StagesApart DEF Doubted
    <3> QED
      BY <1>1, <1>2, <1>4, <3>1 DEF Moves
  <2> QED
    BY <2>2, <2>3
<1> QED
  BY <1>5, <1>6 DEF Notice

LEMMA CallMoves ==
  ASSUME IInv, Fresh, NEW c \in Caller, Call(c)
  PROVE  Moves(c)
<1> USE DEF IInv, TypeOK
<1>1. \A d \in Caller \ {c} : Still(d)
  BY StillIfSame DEF Call, Acquire, Locked, NotLocked, Start, Block, Wake
<1>2. CASE Acquire(c) \/ Block(c)
  <2>1. Still(c)
    BY <1>2, StillIfSame DEF Acquire, Block
  <2> QED
    BY <1>1, <2>1 DEF Moves
<1>3. CASE Locked(c)
  <2>1. work[c] = "idle" /\ c \notin Asked /\ c \notin Doubted
    BY <1>3 DEF Locked, Fresh, Asked, Doubted
  <2>2. work'[c] = "doing" /\ ch'[c] = "open" /\ ~lost'[c] /\ ~ctx'[c] /\ ~blind'[c]
    BY <1>3 DEF Locked, Start
  <2>3. \A d \in Caller : ~Rightful(d)
    BY <1>3, CallerAssumption DEF Locked, RightfulHolds
  <2>4. Stage(c) = "out" /\ \A d \in Caller : Stage(d) # "in"
    BY <2>1, <2>3 DEF Stage
  <2>5. Stage(c)' = "in"
    BY <2>2 DEF Stage, Rightful, None
  <2>6. c \notin Asked' /\ c \notin Doubted'
    BY <2>2 DEF Asked, Doubted
  <2> QED
    BY <1>1, <2>1, <2>4, <2>5, <2>6 DEF Moves
<1>4. CASE NotLocked(c)
  <2>1. work[c] = "idle" /\ c \notin Asked /\ c \notin Doubted
    BY <1>4 DEF NotLocked, Fresh, Asked, Doubted
  <2>2. work'[c] = "doing" /\ ch'[c] = "nil" /\ ~ctx'[c] /\ ~blind'[c]
    BY <1>4 DEF NotLocked, Start
  <2>3. Stage(c) = "out" /\ Stage(c)' = "astray"
    BY <2>1, <2>2 DEF Stage, Rightful
  <2>4. c \notin Asked' /\ c \notin Doubted'
    BY <2>2 DEF Asked, Doubted
  <2> QED
    BY <1>1, <2>1, <2>3, <2>4 DEF Moves
<1>5. CASE Wake(c)
  <2>1. ch[c] = "closed" /\ UNCHANGED <<work, ch, lost, blind>> /\ ctx'[c]
    BY <1>5 DEF Wake
  <2>5. c \in Doubted' <=> c \in Doubted
    BY <2>1 DEF Doubted
  <2>2. Stage(c)' = Stage(c)
    BY <2>1 DEF Stage, Rightful
  <2>3. CASE work[c] \in {"doing", "select"}
    <3>1. Stage(c) = "astray" \/ c \in Doubted
      BY <2>1, <2>3 DEF Stage, Rightful, ClosedHasCause, Cause, Doubted
    <3>2. c \in Asked'
      BY <2>1, <2>3 DEF Asked
    <3> QED
      BY <1>1, <2>2, <2>5, <3>1, <3>2 DEF Moves
  <2>4. CASE work[c] \notin {"doing", "select"}
    <3>1. c \in Asked' <=> c \in Asked
      BY <2>1, <2>4 DEF Asked
    <3> QED
      BY <1>1, <2>2, <2>5, <3>1 DEF Moves, Still
  <2> QED
    BY <2>3, <2>4
<1> QED
  BY <1>2, <1>3, <1>4, <1>5 DEF Call

LEMMA WorkerMoves ==
  ASSUME IInv, NEW c \in Caller, Worker(c) \/ Crash(c)
  PROVE  Moves(c)
<1> USE DEF IInv, TypeOK
<1>1. \A d \in Caller \ {c} : Still(d)
  BY StillIfSame DEF Worker, Doing, Select, Done, Crash
<1>2. CASE Doing(c) \/ (Select(c) /\ ~ctx[c])
  <2>1. /\ work[c] # "idle" /\ work'[c] # "idle"
        /\ UNCHANGED <<ch, ctx, lost, blind>>
    BY <1>2 DEF Doing, Select
  <2>2. Stage(c)' = Stage(c)
    BY <2>1 DEF Stage, Rightful
  <2>3. (c \in Asked' <=> c \in Asked) /\ (c \in Doubted' <=> c \in Doubted)
    BY <1>2, <2>1 DEF Asked, Doubted, Doing, Select
  <2> QED
    BY <1>1, <2>2, <2>3 DEF Moves, Still
<1>3. CASE (Select(c) /\ ctx[c]) \/ Done(c) \/ Crash(c)
  <2>1. work'[c] = "idle"
    BY <1>3 DEF Select, Done, Crash
  <2>2. Stage(c)' = "out" /\ c \notin Asked' /\ c \notin Doubted'
    BY <2>1 DEF Stage, Rightful, Asked, Doubted
  <2>3. CASE work[c] = "idle"
    <3>1. Stage(c) = "out" /\ c \notin Asked /\ c \notin Doubted
      BY <2>3 DEF Stage, Rightful, Asked, Doubted
    <3> QED
      BY <1>1, <2>2, <3>1 DEF Moves, Still
  <2>4. CASE work[c] # "idle"
    <3>1. Stage(c) # "out"
      BY <2>4 DEF Stage
    <3> QED
      BY <1>1, <2>2, <3>1 DEF Moves
  <2> QED
    BY <2>3, <2>4
<1> QED
  BY <1>2, <1>3 DEF Worker

LEMMA StepIsLease ==
  ASSUME IInv, Fresh, [Next]_vars
  PROVE  [L!Next]_(L!vars)
<1>1. ASSUME NEW c \in Caller, Worker(c) \/ Call(c) \/ Crash(c)
      PROVE  [L!Next]_(L!vars)
  BY <1>1, WorkerMoves, CallMoves, MoveIsLease
<1>2. ASSUME TakeAway PROVE [L!Next]_(L!vars)
  <2>1. holder \in Caller
    BY <1>2 DEF IInv, TypeOK, TakeAway
  <2>2. Moves(holder)
    BY <1>2, <2>1, LosingMoves DEF IInv, TakeAway
  <2> QED
    BY <2>1, <2>2, MoveIsLease
<1>3. ASSUME NEW c \in Caller, Library(c) PROVE [L!Next]_(L!vars)
  BY <1>2, <1>3, NoticeMoves, MoveIsLease DEF Library, Lapse
<1>4. ASSUME UNCHANGED <<local, lost, blind>> PROVE [L!Next]_(L!vars)
  <2>1. UNCHANGED L!vars
    BY <1>4 DEF local, L!vars, Stage, Rightful
  <2> QED
    BY <2>1
<1>5. ASSUME NEW l \in Lock, UnlockObject(l) PROVE [L!Next]_(L!vars)
  <2>1. CASE session[l] = None
    BY <1>4, <1>5, <2>1 DEF UnlockObject
  <2>2. CASE session[l] # None
    <3>1. session[l] \in Caller
      BY <2>2 DEF IInv, TypeOK
    <3>2. Moves(session[l])
      BY <1>5, <2>2, <3>1, LosingMoves DEF IInv, UnlockObject
    <3> QED
      BY <3>1, <3>2, MoveIsLease
  <2> QED
    BY <2>1, <2>2
<1>6. CASE UNCHANGED vars
  BY <1>4, <1>6 DEF vars
<1> QED
  BY <1>1, <1>2, <1>3, <1>5, <1>6 DEF Next, Delete

(* Acquire implements a lock that can be revoked: with every interleaving  *)
(* of callers, goroutines, monitors and consul, one at most is at work     *)
(* under it, he is asked to stop only when he has lost it or his monitor   *)
(* cannot tell, and nothing moves but one caller at a time.                *)
THEOREM AcquireImplementsLease == Spec => WorksUnderLease
<1>1. Init => L!Init /\ Fresh
  <2> SUFFICES ASSUME Init PROVE L!Init /\ Fresh
    OBVIOUS
  <2>1. \A c \in Caller : Stage(c) = "out"
    BY DEF Init, Stage, Rightful
  <2>2. Asked = {} /\ Doubted = {}
    BY DEF Init, Asked, Doubted
  <2>3. Fresh
    BY DEF Init, Fresh
  <2> QED
    BY <2>1, <2>2, <2>3 DEF L!Init, Asked, Doubted
<1>2. IInv /\ Fresh /\ [Next]_vars => [L!Next]_(L!vars)
  BY StepIsLease
<1> QED
  BY InitInv, StepInv, FreshStep, <1>1, <1>2, PTL DEF Spec, WorksUnderLease, L!Spec
=============================================================================
