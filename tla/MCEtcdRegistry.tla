--------------------------- MODULE MCEtcdRegistry ---------------------------
(* Small instances of EtcdRegistry, with one id.                           *)
EXTENDS EtcdRegistry

CONSTANTS n1, n2, b1, b2, web80

Alone == {<<i, i>> : i \in Id}
=============================================================================
