----------------------------- MODULE Membership -----------------------------
(***************************************************************************)
(* What a registry of instances on leases promises to those who read it.   *)
(* Each server serves one instance.  It gives its word, which is good for  *)
(* one term from that moment on, and the listing it then makes of its own  *)
(* instance runs for what is left of that term: nobody's word lists the    *)
(* instance of another, and none is used twice.  A server that ends takes  *)
(* its word with it and no listing.  A listing ends with its time, or      *)
(* because somebody struck it, and that it was struck is on record until a *)
(* server joins for it anew.  There are no requests or processes here.     *)
(***************************************************************************)
EXTENDS Naturals

CONSTANTS
  Server,
  Instance,
  None,      \* no instance
  Term       \* how long a word is good

VARIABLES
  serves,    \* the instance of each server, None when it serves no more
  word,      \* how long the word each server has given is good, 0: none
  left,      \* how long each listing still runs, 0: not listed
  struck     \* the instances struck, and not joined for since

vars == <<serves, word, left, struck>>

Init ==
  /\ serves = [s \in Server |-> None]
  /\ word = [s \in Server |-> 0]
  /\ left = [i \in Instance |-> 0]
  /\ struck = {}

Join(s, i) ==
  /\ serves[s] = None
  /\ serves' = [serves EXCEPT ![s] = i]
  /\ struck' \in {struck, struck \ {i}}
  /\ UNCHANGED <<word, left>>

(* Servers end or die.                                                     *)
Leave(S) ==
  /\ serves' = [s \in Server |-> IF s \in S THEN None ELSE serves[s]]
  /\ word' = [s \in Server |-> IF s \in S THEN 0 ELSE word[s]]
  /\ UNCHANGED <<left, struck>>

Promise(s) ==
  /\ serves[s] # None
  /\ word' = [word EXCEPT ![s] = Term]
  /\ UNCHANGED <<serves, left, struck>>

(* The word is not taken.                                                  *)
Withdraw(s) ==
  /\ word' = [word EXCEPT ![s] = 0]
  /\ UNCHANGED <<serves, left, struck>>

(* The word is taken, be it the server's last.                             *)
Renew(s) ==
  /\ word[s] > 0
  /\ left' = [left EXCEPT ![serves[s]] = word[s]]
  /\ word' = [word EXCEPT ![s] = 0]
  /\ serves' \in {serves, [serves EXCEPT ![s] = None]}
  /\ UNCHANGED struck

Strike(S) ==
  /\ left' = [i \in Instance |-> IF i \in S THEN 0 ELSE left[i]]
  /\ struck' = struck \cup S
  /\ UNCHANGED <<serves, word>>

Less(x) == IF x = 0 THEN 0 ELSE x - 1

Pass ==
  /\ left' = [i \in Instance |-> Less(left[i])]
  /\ word' = [s \in Server |-> Less(word[s])]
  /\ UNCHANGED <<serves, struck>>

Next ==
  \/ \E s \in Server :
       \/ \E i \in Instance : Join(s, i)
       \/ Promise(s) \/ Withdraw(s) \/ Renew(s)
  \/ \E S \in SUBSET Server : Leave(S)
  \/ \E S \in SUBSET Instance : Strike(S)
  \/ Pass

Spec == Init /\ [][Next]_vars
=============================================================================
