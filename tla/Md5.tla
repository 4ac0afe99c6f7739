-------------------------------- MODULE Md5 --------------------------------
(***************************************************************************)
(* make.md5 and make.file.md5 (lmakelib.cpp) over MD5Init, MD5Update and   *)
(* MD5Final (md5.c): how a message becomes the blocks that are given to    *)
(* MD5Transform.  The transformation itself is left out: a digest is the   *)
(* sequence of the blocks.                                                 *)
(*                                                                         *)
(* The sizes are parameters: 64 bytes in a block, padding up to byte 56,   *)
(* 8 bits in a byte, words below 2^32, 4096 bytes in one read.             *)
(***************************************************************************)
EXTENDS Integers, Sequences, SequencesExt

CONSTANTS
    Byte,
    Block, PadTo,   \* bytes in a block, and before its length field
    Bits,           \* bits in a byte
    Word,           \* modulus of an unsigned int
    ReadSize,       \* sizeof(buffer) in make_file_md5
    Data            \* the strings and file contents to digest

ASSUME Md5Assumption ==
    /\ Block \in Nat \ {0} /\ PadTo \in 1 .. Block - 1
    /\ Bits \in Nat \ {0} /\ ReadSize \in Nat \ {0}
    /\ Word \in Nat \ {0} /\ Word % (Bits * Block) = 0
    /\ ReadSize < Word
    /\ {0, 128} \subseteq Byte /\ Byte \subseteq Nat
    /\ Data \subseteq {d \in Seq(Byte) : Len(d) < Word}

VARIABLES
    data,       \* the string, or the contents of the file
    isFile,
    readFailed, \* a ReadFile has failed; its result is not looked at
    pos,        \* bytes given to MD5Update so far
    i,          \* mdContext->i: the number of bits, low word first
    in,         \* mdContext->in, Junk where it was never written
    blocks,     \* what MD5Transform was given, in place of mdContext->buf
    pc          \* "update", "final", "done"

vars == <<data, isFile, readFailed, pos, i, in, blocks, pc>>

Junk == -1
MD5Init == [i |-> <<0, 0>>, in |-> [j \in 1 .. Block |-> Junk], blocks |-> <<>>]
ctx == [i |-> i, in |-> in, blocks |-> blocks]

(***************************************************************************)
(* MD5Update: the count of bits, and the loop over the bytes.              *)
(***************************************************************************)
Mdi(c) == (c.i[1] \div Bits) % Block

CountNoCarry(n, len) ==         \* mutant
    <<(n[1] + len * Bits) % Word, (n[2] + ((len * Bits) \div Word)) % Word>>

Count(n, len) ==
    LET low == (n[1] + ((len * Bits) % Word)) % Word
        carry == IF low < n[1] THEN 1 ELSE 0
    IN  <<low, (n[2] + carry + ((len * Bits) \div Word)) % Word>>

PutByte(s, b) ==
    LET in2 == [s.in EXCEPT ![s.mdi + 1] = b]
    IN  IF s.mdi + 1 = Block
        THEN [mdi |-> 0, in |-> in2, blocks |-> Append(s.blocks, in2)]
        ELSE [mdi |-> s.mdi + 1, in |-> in2, blocks |-> s.blocks]

MD5Update(c, bytes) ==
    LET loop[n \in 0 .. Len(bytes)] ==
            IF n = 0 THEN [mdi |-> Mdi(c), in |-> c.in, blocks |-> c.blocks]
                     ELSE PutByte(loop[n - 1], bytes[n])
        s == loop[Len(bytes)]
    IN  [i |-> Count(c.i, Len(bytes)), in |-> s.in, blocks |-> s.blocks]

(***************************************************************************)
(* MD5Final: the count is saved, the padding goes through MD5Update, and   *)
(* the last block is the head of `in' with the saved count behind it.      *)
(***************************************************************************)
PADDING(n) == [j \in 1 .. n |-> IF j = 1 THEN 128 ELSE 0]
PadNone(mdi) == IF mdi <= PadTo THEN PadTo - mdi ELSE Block + PadTo - mdi  \* mutant
PadLen(mdi) == IF mdi < PadTo THEN PadTo - mdi ELSE Block + PadTo - mdi

MD5Final(c) ==
    LET padded == MD5Update(c, PADDING(PadLen(Mdi(c))))
        last == SubSeq(padded.in, 1, PadTo) \o c.i
    IN  [padded EXCEPT !.blocks = Append(@, last)]

-----------------------------------------------------------------------------
ApplyContext(c) == i' = c.i /\ in' = c.in /\ blocks' = c.blocks

(***************************************************************************)
(* make_md5: one update with the whole string.                             *)
(***************************************************************************)
DigestString ==
    /\ pc = "update" /\ ~isFile
    /\ ApplyContext(MD5Update(ctx, data))
    /\ pos' = Len(data)
    /\ pc' = "final"
    /\ UNCHANGED <<data, isFile, readFailed>>

(***************************************************************************)
(* make_file_md5: read until a read is short.  A read that fails leaves 0  *)
(* in dwRead.  Nobody writes the file: it is open without write sharing.   *)
(***************************************************************************)
LoopEnd(n) == IF n = ReadSize THEN "update" ELSE "final"

Shorter(a, b) == IF a < b THEN a ELSE b
ReadChunk ==
    /\ pc = "update" /\ isFile
    /\ LET n == Shorter(ReadSize, Len(data) - pos)
       IN  /\ ApplyContext(MD5Update(ctx, SubSeq(data, pos + 1, pos + n)))
           /\ pos' = pos + n
           /\ pc' = LoopEnd(n)
    /\ UNCHANGED <<data, isFile, readFailed>>

ReadFails ==
    /\ pc = "update" /\ isFile
    /\ readFailed' = TRUE
    /\ ApplyContext(MD5Update(ctx, <<>>))
    /\ pc' = LoopEnd(0)
    /\ UNCHANGED <<data, isFile, pos>>

Finalize ==
    /\ pc = "final"
    /\ ApplyContext(MD5Final(ctx))
    /\ pc' = "done"
    /\ UNCHANGED <<data, isFile, readFailed, pos>>

Terminated == pc = "done" /\ UNCHANGED vars

Init ==
    /\ data \in Data
    /\ isFile \in BOOLEAN
    /\ readFailed = FALSE
    /\ pos = 0
    /\ i = MD5Init.i /\ in = MD5Init.in /\ blocks = MD5Init.blocks
    /\ pc = "update"

Next == DigestString \/ ReadChunk \/ ReadFails \/ Finalize \/ Terminated

Spec == Init /\ [][Next]_vars
=============================================================================
