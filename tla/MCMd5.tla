------------------------------- MODULE MCMd5 -------------------------------
(***************************************************************************)
(* Blocks of four bytes, two of them before the length, two bits to a byte *)
(* and words below 16: messages end at every place of a block, the low     *)
(* word overflows by a carry and within the length of one update, and the  *)
(* file is read in pieces that do not fit the blocks.                      *)
(***************************************************************************)
EXTENDS Md5Properties

MCByte == {0, 128}
Tail1(n) == [j \in 1 .. n |-> IF j = 1 THEN 0 ELSE 128]
MCData == UNION {[1 .. n -> MCByte] : n \in 0 .. 7} \cup {Tail1(n) : n \in 8 .. 15}
=============================================================================
