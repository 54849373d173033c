---------------------------- MODULE MCEtcdStore ----------------------------
(* Small instances of EtcdStore.  "a" begins "ab" and "r" begins "rs", as   *)
(* bytes.                                                                  *)
EXTENDS EtcdStore, TLC

CONSTANTS c1, c2, g1, g2, v1

MCName == {"r", "rs", "a", "ab", "x"}
MCNamePrefix ==
  {<<n, n>> : n \in MCName} \cup {<<"a", "ab">>, <<"r", "rs">>}

(* Two goroutines on one store. *)
SharedStore == (g1 :> c1) @@ (g2 :> c1)
(* A goroutine on a store of its own, each. *)
TwoStores == (g1 :> c1) @@ (g2 :> c2)

OneRoot == {<<"r">>}
(* DeletePrefix of all of "r" takes the keys below "rs" with it. *)
BesideRoots == {<<"r">>, <<"rs">>}

(* "a" and "a/a" are directories of a key: one is marked and deleted, the  *)
(* other is given a value.                                                 *)
DeepKeys == {<<"a", "a", "x">>, <<"ab", "x">>}
InnerKey == {<<"a", "a">>}
OuterKey == {<<"a">>}
DeepDeletes == DeepKeys \cup OuterKey
DeepPrefixes == {<< >>, <<"a">>, <<"a", "a">>}

ShortKeys == {<<"a", "a", "x">>}
ShortPrefixes == {<< >>, <<"a">>}

(* The roots are of the kind the theorem TreeStaysClosed is about.         *)
ASSUME SmallRoots == RootsApart
=============================================================================
