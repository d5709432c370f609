------------------------------ MODULE MCKVNode ------------------------------
(***************************************************************************)
(* Two keys and two values, blocks in which keys are overwritten within    *)
(* and across blocks, with transactions that are not valid between them.   *)
(***************************************************************************)
EXTENDS KVNode

A1 == <<"a", "=", "1">>
A2 == <<"a", "=", "2">>
B1 == <<"b", "=", "1">>
Erased == <<"a", "=">>                 \* sets the empty value
NoPair == <<"a", "1">>
TwoEqs == <<"=", "=", "2">>
NoKey == <<"=", "1">>
Reserved == <<"!", "b", "=", "1">>

MCChar == {"a", "b", "1", "2", "=", "!"}

\* No key, one with the prefix that badger keeps for itself, and one that is too long.
MCRefusedKeys == {<<>>, <<"!", "b">>, <<"a", "a", "a">>}

MCBlocks == {
  <<>>,
  <<A1>>,
  <<A2, NoPair, B1>>,
  <<A1, TwoEqs, Erased>>,
  <<A1, NoKey, B1>>,
  <<B1, Reserved>>,
  <<B1, A1, A2>>}                      \* one entry too many

\* Fewer of them, and one whose second transaction has no key.
MCNoKey == {<<A1>>, <<B1, NoKey, A2>>, <<A2, B1>>}
=============================================================================
