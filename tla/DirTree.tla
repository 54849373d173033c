------------------------------ MODULE DirTree ------------------------------
(***************************************************************************)
(* What a tree browser on the etcd cluster (e3w) is promised: a set of     *)
(* paths that grows at one place at a time and shrinks only where someone  *)
(* asked for it, by one of the prefixes or one of the entries that are     *)
(* ever deleted, by an entry with nothing below it that expires, or by a   *)
(* value put over a directory.  EtcdStore implements it with Visible.      *)
(***************************************************************************)
EXTENDS EtcdPaths

CONSTANTS
  Prefixes,   \* the full prefixes that are deleted
  Removed,    \* the full keys that are deleted by themselves
  Valued      \* the full keys that are given values, some of them for a time

VARIABLE tree       \* the paths that can be seen

Init == tree = {}

(* Nothing goes, and what comes into sight is k or below it.               *)
Shows(k) ==
  /\ k \in tree' /\ tree \subseteq tree'
  /\ \A j \in tree' \ tree : j = k \/ Under(k, j)

(* k comes into sight, and with it the entries that waited below it.       *)
Grow(k) == k \notin tree /\ Shows(k)

(* An entry with nothing below it becomes a directory.                     *)
Open(k) == k \in tree /\ (\A j \in tree : ~Under(k, j)) /\ Shows(k)

(* A directory is given a value: what is below it is hidden.               *)
Cover(k) == k \in Valued /\ tree' = {j \in tree : ~Under(k, j)}

(* An entry is deleted by itself: what is below it is hidden.              *)
Drop(k) == k \in Removed /\ tree' = {j \in tree : j # k /\ ~Under(k, j)}

(* An entry expires, one with nothing below it.                            *)
Fade(k) ==
  /\ k \in tree \cap Valued
  /\ \A j \in tree : ~Under(k, j)
  /\ tree' = tree \ {k}

Prune(p) == tree' = {k \in tree : ~HasPrefix(p, k)}

Next ==
  \/ \E k \in tree' : Grow(k) \/ Open(k)
  \/ \E k \in tree : Cover(k) \/ Drop(k) \/ Fade(k)
  \/ \E p \in Prefixes : Prune(p)

Spec == Init /\ [][Next]_tree
=============================================================================
