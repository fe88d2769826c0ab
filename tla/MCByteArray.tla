---------------------------- MODULE MCByteArray ----------------------------
(***************************************************************************)
(* Instances of ByteArray for TLC: bytes of two bits, so that three-bit    *)
(* varints take one to three bytes and a string of four does not fit a     *)
(* one-byte length.                                                        *)
(***************************************************************************)
EXTENDS ByteArray

SomeInts == {-3}
SomeStrings == {<<>>, <<2>>, <<1, 2, 2, 1>>}
=============================================================================
