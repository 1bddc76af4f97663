----------------------------- MODULE MCHashmap -----------------------------
(***************************************************************************)
(* A small instance of Hashmap: two pointers for one of the names, and     *)
(* others that collide with it in all of the hash, or in its last bit.     *)
(***************************************************************************)
EXTENDS Hashmap, TLC

CONSTANTS a1, a2, b, c, v

MCKey == {a1, a2, b, c}
MCName == {"a", "b", "c"}
MCNameOf == a1 :> "a" @@ a2 :> "a" @@ b :> "b" @@ c :> "c"
MCHashOf == a1 :> 5 @@ a2 :> 5 @@ b :> 5 @@ c :> 3
MCValue == {NULL, v}
=============================================================================
