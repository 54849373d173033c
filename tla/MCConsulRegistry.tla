-------------------------- MODULE MCConsulRegistry --------------------------
(* Small instances of ConsulRegistry.                                      *)
EXTENDS ConsulRegistry, TLC

CONSTANTS n1, n2, a1, i1, i2, i3, b1, b2, b3, web, api, db

OneNode == n1 :> a1
SameAgent == (n1 :> a1) @@ (n2 :> a1)

OneId == i1 :> web
ThreeServices == (i1 :> web) @@ (i2 :> api) @@ (i3 :> db)

AllIds == [n \in Node |-> Id]
OneAndTwo == (n1 :> {i1}) @@ (n2 :> {i2, i3})

BeatSymmetry == Permutations(Beat)
=============================================================================
