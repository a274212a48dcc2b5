-------------------------- MODULE MCKeyValueStore --------------------------
(* An instance of KeyValueStore for TLC: two domains, one with two keys. *)
EXTENDS KeyValueStore

MCNames == {<<1, 1>>, <<1, 2>>, <<2, 1>>}
=============================================================================
