----------------------------- MODULE MCLSMTree -----------------------------
(***************************************************************************)
(* Small instances of the storage engine for TLC.                          *)
(***************************************************************************)
EXTENDS LSMTreeProperties, TLC

CONSTANTS c1, c2, k1, k2, d1, d2, t1, t2

(* One client writing every key; two clients with keys of their own; two   *)
(* clients sharing every key.                                              *)
OneWriter == (t1 :> Keys)
OwnKeys == (t1 :> {k1}) @@ (t2 :> {k2})
SharedKeys == (t1 :> Keys) @@ (t2 :> Keys)

MinusOne == -1
=============================================================================
