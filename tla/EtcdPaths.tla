----------------------------- MODULE EtcdPaths -----------------------------
(***************************************************************************)
(* Keys of the etcd backend.  A key string "a/b/c" is the path             *)
(* <<"a", "b", "c">> of the names between its slashes, which is what       *)
(* strings.Split(key, "/") makes of it.  Two relations matter:             *)
(*  - Under(d, k): d is a proper directory of k, a cut at a slash;         *)
(*  - HasPrefix(p, k): the BYTES of p begin the bytes of k, which is what  *)
(*    clientv3.WithPrefix() selects.  "a/b" begins "a/b/c" and "a/bc".     *)
(***************************************************************************)
EXTENDS Naturals, Sequences

CONSTANTS
  Name,        \* the names a path is made of
  NamePrefix   \* the pairs <<m, n>> of names such that m begins n

(* Every name begins itself; nothing else is assumed of the byte order.    *)
ASSUME NameAssumption ==
  /\ NamePrefix \subseteq Name \X Name
  /\ \A n \in Name : <<n, n>> \in NamePrefix

Path == Seq(Name)

Under(d, k) ==
  /\ Len(d) < Len(k)
  /\ \A i \in 1 .. Len(d) : d[i] = k[i]

HasPrefix(p, k) ==
  \/ p = << >>
  \/ /\ Len(p) <= Len(k)
     /\ \A i \in 1 .. Len(p) - 1 : p[i] = k[i]
     /\ <<p[Len(p)], k[Len(p)]>> \in NamePrefix

(* The first n names of k: a Go slice sc[0:n] joined with "/" again.       *)
Cut(k, n) == SubSeq(k, 1, n)
=============================================================================
