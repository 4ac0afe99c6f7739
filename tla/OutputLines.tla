---------------------------- MODULE OutputLines ----------------------------
(***************************************************************************)
(* make_proc_flushio_helper: a chunk of a process's output is cut into     *)
(* lines.  A line ends at a carriage return; a line feed right behind it   *)
(* in the same chunk is skipped.  What follows the last carriage return is *)
(* left over for the next chunk.  The output is text: it holds no NUL,     *)
(* behind which the helper would drop the rest of the chunk.               *)
(***************************************************************************)
EXTENDS Integers, Sequences, SequencesExt

CONSTANTS CR, LF, Letter    \* Letter: every other character

ASSUME CharAssumption ==
    /\ CR # LF
    /\ Letter \cap {CR, LF} = {}

Char == Letter \cup {CR, LF}
LineEnd == {CR, LF}

(***************************************************************************)
(* The state of the helper's loop: the lines printed so far, the line not  *)
(* ended yet (leftovers and the text since line_start), and whether the    *)
(* last character was a carriage return.                                   *)
(***************************************************************************)
Open(left) == [lines |-> <<>>, left |-> left, afterCR |-> FALSE]

PutKeepsLeft(s, c) ==           \* mutant: the leftovers are not erased
    IF c = CR THEN [s EXCEPT !.lines = Append(@, s.left), !.afterCR = TRUE]
    ELSE IF c = LF /\ s.afterCR THEN [s EXCEPT !.afterCR = FALSE]
    ELSE [s EXCEPT !.left = Append(@, c), !.afterCR = FALSE]

PutKeepsLF(s, c) ==             \* mutant: the line feed is not skipped
    IF c = CR THEN [lines |-> Append(s.lines, s.left), left |-> <<>>,
                    afterCR |-> TRUE]
    ELSE [s EXCEPT !.left = Append(@, c), !.afterCR = FALSE]

Put(s, c) ==
    IF c = CR THEN [lines |-> Append(s.lines, s.left), left |-> <<>>,
                    afterCR |-> TRUE]
    ELSE IF c = LF /\ s.afterCR THEN [s EXCEPT !.afterCR = FALSE]
    ELSE [s EXCEPT !.left = Append(@, c), !.afterCR = FALSE]

Cut(left, chunk) ==
    LET loop[n \in 0 .. Len(chunk)] ==
            IF n = 0 THEN Open(left) ELSE Put(loop[n - 1], chunk[n])
    IN  loop[Len(chunk)]

-----------------------------------------------------------------------------
(***************************************************************************)
(* What the lines of a whole text are, said without the loop.              *)
(***************************************************************************)
Without(s, C) ==
    LET kept[n \in 0 .. Len(s)] ==
            IF n = 0 THEN <<>>
            ELSE IF s[n] \in C THEN kept[n - 1] ELSE Append(kept[n - 1], s[n])
    IN  kept[Len(s)]

\* The places where a line ends, in order; the last is the end of the text.
Breaks(s) == {i \in DOMAIN s : s[i] = CR} \cup {Len(s) + 1}
Ends(s) ==
    CHOOSE e \in [1 .. Cardinality(Breaks(s)) -> Breaks(s)] :
        \A i, j \in DOMAIN e : i < j => e[i] < e[j]
From(s, n) ==
    IF n = 1 THEN 1
    ELSE LET e == Ends(s)[n - 1]
         IN  IF e < Len(s) /\ s[e + 1] = LF THEN e + 2 ELSE e + 1
Line(s, n) == SubSeq(s, From(s, n), Ends(s)[n] - 1)

(***************************************************************************)
(* The last piece, behind the last carriage return, may be empty: then it  *)
(* is no line.                                                             *)
(***************************************************************************)
LinesOf(s) ==
    LET n == IF Line(s, Len(Ends(s))) = <<>> THEN Len(Ends(s)) - 1 ELSE Len(Ends(s))
    IN  [i \in 1 .. n |-> Line(s, i)]

(***************************************************************************)
(* A chunk that ends between a carriage return and its line feed puts the  *)
(* line feed at the head of the next line; at the very end it becomes a    *)
(* line of its own.                                                        *)
(***************************************************************************)
SameUpToTornEnds(shown, lines) ==
    /\ \/ Len(shown) = Len(lines)
       \/ Len(shown) = Len(lines) + 1 /\ Last(shown) = <<LF>>
    /\ \A i \in DOMAIN lines :
          shown[i] = lines[i] \/ (i > 1 /\ shown[i] = <<LF>> \o lines[i])
=============================================================================
