----------------------------- MODULE MCEtcdWatch -----------------------------
(* Small instances of EtcdWatch: a watch on one key, with a stop channel,  *)
(* and a watch on the prefix of two keys, without.                        *)
EXTENDS EtcdWatch, TLC

CONSTANTS w1, w2, k1, k2

MCWants == (w1 :> {k1}) @@ (w2 :> {k1, k2})
=============================================================================
