----------------------------- MODULE MCByteStore ----------------------------
(***************************************************************************)
(* Byte strings for checking ByteStore with TLC: of two lengths, such that *)
(* one begins with another and lengths look like bytes of a field.         *)
(***************************************************************************)
EXTENDS ByteStore

DelegatorBytes == {<<1>>, <<2, 1>>}
ValidatorBytes == {<<1>>, <<1, 2>>}
DenomBytes == {<<1>>, <<2, 1>>}
NoSlashes == {}
=============================================================================
