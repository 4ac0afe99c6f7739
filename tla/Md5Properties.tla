--------------------------- MODULE Md5Properties ---------------------------
(***************************************************************************)
(* What the blocks of a digest are.                                        *)
(***************************************************************************)
EXTENDS Md5

Consumed == SubSeq(data, 1, pos)

(***************************************************************************)
(* MD5 as RFC 1321 defines it, which md5.c says it implements: the message,*)
(* one bit 1, the fewest bits 0 that bring it to PadTo in a block, and its *)
(* length in bits, low word first.                                         *)
(***************************************************************************)
Zeros(n) == [j \in 1 .. n |-> 0]
PaddedTo(m, k) == m \o <<128>> \o Zeros(k)
Fits(m, k) == Len(PaddedTo(m, k)) % Block = PadTo
Padding(m) == CHOOSE k \in 0 .. Block - 1 : Fits(m, k)
LengthField(m) ==
    LET n == Len(m) * Bits IN <<n % Word, (n \div Word) % Word>>
Padded(m) == PaddedTo(m, Padding(m)) \o LengthField(m)

(***************************************************************************)
(* The context's types, and that what was transformed is whole blocks of   *)
(* bytes that were given: never what `in' held before it was filled.       *)
(***************************************************************************)
TypeOK ==
    /\ i \in Seq(0 .. Word - 1) /\ Len(i) = 2
    /\ in \in [1 .. Block -> Byte \cup {Junk}]
    /\ pos \in 0 .. Len(data)
    /\ pc \in {"update", "final", "done"}
    /\ \A b \in Range(blocks) : Junk \notin Range(b)

(***************************************************************************)
(* Between two updates nothing is lost, doubled or reordered: the blocks   *)
(* and the first mdi bytes of `in' are the bytes given so far, and the two *)
(* words count their bits, across the carry.                               *)
(***************************************************************************)
ContextHolds ==
    pc # "done" =>
        /\ TypeOK
        /\ FlattenSeq(blocks) \o SubSeq(in, 1, Mdi(ctx)) = Consumed
        /\ i[1] + Word * i[2] = Len(Consumed) * Bits

(***************************************************************************)
(* The digest is that of the bytes read, whatever pieces they came in, and *)
(* those are the whole string, or the whole file unless a read failed.     *)
(***************************************************************************)
DigestRight ==
    pc = "done" =>
        /\ FlattenSeq(blocks) = Padded(Consumed)
        /\ Consumed = data \/ readFailed
=============================================================================
