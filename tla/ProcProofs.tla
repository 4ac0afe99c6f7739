----------------------------- MODULE ProcProofs -----------------------------
(***************************************************************************)
(* make.run and its processes: exit codes, wake-ups, and the output, for   *)
(* any number of processes, any texts, buffer and pipe.                    *)
(*                                                                         *)
(* The first half rests on IInv: the types, whom the dispatcher looks at   *)
(* (RoundInv), what a handle tells (HandleInv), the outstanding read and   *)
(* its event (ReadInv).  The output adds to it                             *)
(*   Delivered   what presto has taken of a text is followed by what is in *)
(*               the buffer and in the pipe                                *)
(*   OpenInv     when flushio sees an output closed, nothing is on its way *)
(*   ShownInv    what was taken is shown or left over                      *)
(*   LeftInv     what is left over is an end of it, without line end       *)
(*   LineInv     the lines are those of one cut, up to torn line ends      *)
(* and what the first section says of Cut.                                 *)
(***************************************************************************)
EXTENDS ProcProperties, Recursion

-----------------------------------------------------------------------------
(***************************************************************************)
(* What the line cutter of make_proc_flushio_helper computes, for every    *)
(* text and every way to cut it in chunks: it keeps the text (CutText),    *)
(* leaves over an end of it without carriage return (CutEnd), finds the    *)
(* lines of a text in one piece (LinesFound), and those of a text in       *)
(* chunks up to line ends torn apart (CutAgrees, LinesAtEnd).  Each is an  *)
(* induction over the characters (AppendInduction).                        *)
(***************************************************************************)
CutState == [lines : Seq(Seq(Char)), left : Seq(Char), afterCR : BOOLEAN]

-----------------------------------------------------------------------------
(***************************************************************************)
(* Cut, one character after the other.                                     *)
(***************************************************************************)
LEMMA PutTyped ==
    ASSUME NEW s \in CutState, NEW c \in Char
    PROVE  Put(s, c) \in CutState
<1>1. s.lines \in Seq(Seq(Char)) /\ s.left \in Seq(Char) /\ s.afterCR \in BOOLEAN
  BY DEF CutState
<1>2. Append(s.lines, s.left) \in Seq(Seq(Char)) /\ Append(s.left, c) \in Seq(Char)
  BY <1>1
<1>3. <<>> \in Seq(Char)
  OBVIOUS
<1> QED
  BY <1>2, <1>3 DEF Put, CutState

\* Where a cut starts is a state of the loop.
LEMMA OpenTyped ==
    ASSUME NEW left \in Seq(Char)
    PROVE  Open(left) \in CutState
BY DEF Open, CutState

IsLoop(f, left, chunk) ==
    f = [n \in 0 .. Len(chunk) |-> IF n = 0 THEN Open(left) ELSE Put(f[n - 1], chunk[n])]
Loop(left, chunk) == CHOOSE f : IsLoop(f, left, chunk)

\* The recursive function in Cut exists, and computes what it says it does.
LEMMA Loops ==
    ASSUME NEW left \in Seq(Char), NEW chunk \in Seq(Char)
    PROVE  /\ Cut(left, chunk) = Loop(left, chunk)[Len(chunk)]
           /\ Loop(left, chunk)[0] = Open(left)
           /\ \A n \in 1 .. Len(chunk) :
                 Loop(left, chunk)[n] = Put(Loop(left, chunk)[n - 1], chunk[n])
<1> DEFINE F == [n \in 1 .. Len(chunk) |-> [s \in CutState |-> Put(s, chunk[n])]]
<1>1. Len(chunk) \in Nat /\ \A n \in 1 .. Len(chunk) : chunk[n] \in Char
  OBVIOUS
<1>2. F \in [1 .. Len(chunk) -> [CutState -> CutState]] /\ Open(left) \in CutState
  BY <1>1, PutTyped, OpenTyped
<1>3. PICK f \in [0 .. Len(chunk) -> CutState] : Iterates(f, Len(chunk), Open(left), F)
  <2> HIDE DEF F
  <2> QED
    BY <1>1, <1>2, IterationExists
<1>4. ASSUME NEW n \in 0 .. Len(chunk), n # 0
      PROVE  F[n][f[n - 1]] = Put(f[n - 1], chunk[n])
  <2>1. n \in 1 .. Len(chunk) /\ n - 1 \in 0 .. Len(chunk)
    BY <1>4
  <2>2. f[n - 1] \in CutState
    BY <2>1
  <2> QED
    BY <2>1, <2>2
<1>5. IsLoop(f, left, chunk)
  <2> HIDE DEF F
  <2> QED
    BY <1>3, <1>4 DEF Iterates, IsLoop
<1>6. IsLoop(Loop(left, chunk), left, chunk)
  BY <1>5 DEF Loop
<1>7. Cut(left, chunk) = Loop(left, chunk)[Len(chunk)]
  BY DEF Cut, Loop, IsLoop
<1> DEFINE g == Loop(left, chunk)
           h == [n \in 0 .. Len(chunk) |->
                    IF n = 0 THEN Open(left) ELSE Put(g[n - 1], chunk[n])]
<1>8. g = h
  BY <1>6 DEF IsLoop
<1>9. h[0] = Open(left) /\ \A n \in 1 .. Len(chunk) : h[n] = Put(g[n - 1], chunk[n])
  <2>1. \A n \in 1 .. Len(chunk) : n \in 0 .. Len(chunk) /\ n # 0
    OBVIOUS
  <2> QED
    BY <2>1
<1>10. g[0] = Open(left) /\ \A n \in 1 .. Len(chunk) : g[n] = Put(g[n - 1], chunk[n])
  <2> HIDE DEF g, h
  <2> QED
    BY <1>8, <1>9
<1> QED
  BY <1>7, <1>10

\* Cutting nothing, and cutting one character more.
LEMMA CutSteps ==
    ASSUME NEW left \in Seq(Char)
    PROVE  /\ Cut(left, <<>>) = Open(left)
           /\ \A chunk \in Seq(Char), c \in Char :
                 Cut(left, Append(chunk, c)) = Put(Cut(left, chunk), c)
<1>1. Cut(left, <<>>) = Open(left)
  <2>1. <<>> \in Seq(Char) /\ Len(<<>>) = 0
    OBVIOUS
  <2> QED
    BY <2>1, Loops
<1>2. ASSUME NEW chunk \in Seq(Char), NEW c \in Char
      PROVE  Cut(left, Append(chunk, c)) = Put(Cut(left, chunk), c)
  <2> DEFINE f == Loop(left, chunk)
             longer == Append(chunk, c)
             g == Loop(left, longer)
             T == {n \in Nat : n <= Len(chunk) => f[n] = g[n]}
  <2>1. /\ longer \in Seq(Char) /\ Len(longer) = Len(chunk) + 1 /\ longer[Len(chunk) + 1] = c
        /\ \A n \in 1 .. Len(chunk) : longer[n] = chunk[n]
    OBVIOUS
  <2> HIDE DEF longer
  <2>2. /\ Cut(left, chunk) = f[Len(chunk)] /\ f[0] = Open(left)
        /\ \A n \in 1 .. Len(chunk) : f[n] = Put(f[n - 1], chunk[n])
    BY Loops
  <2>3. /\ Cut(left, longer) = g[Len(chunk) + 1] /\ g[0] = Open(left)
        /\ \A n \in 1 .. Len(chunk) + 1 : g[n] = Put(g[n - 1], longer[n])
    BY <2>1, Loops
  <2> HIDE DEF f, g
  <2>4. 0 \in T
    BY <2>2, <2>3
  <2>5. ASSUME NEW n \in 0 .. Len(chunk) - 1, n \in T PROVE n + 1 \in T
    <3>1. n + 1 \in 1 .. Len(chunk) /\ n + 1 \in 1 .. Len(chunk) + 1 /\ (n + 1) - 1 = n /\ n <= Len(chunk)
      OBVIOUS
    <3>2. f[n + 1] = Put(f[n], chunk[n + 1]) /\ g[n + 1] = Put(g[n], longer[n + 1])
      BY <2>2, <2>3, <3>1
    <3> QED
      BY <2>1, <2>5, <3>1, <3>2
  <2>6. 0 .. Len(chunk) \subseteq T
    <3> HIDE DEF T
    <3>1. Len(chunk) \in Nat
      OBVIOUS
    <3> QED
      BY <2>4, <2>5, <3>1, Induction
  <2>7. f[Len(chunk)] = g[Len(chunk)]
    BY <2>6
  <2>8. g[Len(chunk) + 1] = Put(g[Len(chunk)], c)
    <3>1. Len(chunk) + 1 \in 1 .. Len(chunk) + 1 /\ (Len(chunk) + 1) - 1 = Len(chunk)
      OBVIOUS
    <3> QED
      BY <2>1, <2>3, <3>1
  <2> QED
    BY <2>2, <2>3, <2>7, <2>8 DEF longer
<1> QED
  BY <1>1, <1>2

\* Cut ends in a state of the loop, whatever the chunk.
LEMMA CutTyped ==
    ASSUME NEW left \in Seq(Char), NEW chunk \in Seq(Char)
    PROVE  Cut(left, chunk) \in CutState
<1> DEFINE T == {s \in Seq(Char) : Cut(left, s) \in CutState}
<1>1. <<>> \in T
  BY CutSteps, OpenTyped
<1>2. \A s \in Seq(Char), c \in Char : s \in T => Append(s, c) \in T
  BY CutSteps, PutTyped
<1>3. Seq(Char) \subseteq T
  <2> HIDE DEF T
  <2> QED
    BY <1>1, <1>2, AppendInduction
<1> QED
  BY <1>3

-----------------------------------------------------------------------------
(***************************************************************************)
(* Without, and the text of some lines, one element after the other.       *)
(***************************************************************************)
Keep(w, c, C) == IF c \in C THEN w ELSE Append(w, c)
IsKept(f, s, C) ==
    f = [n \in 0 .. Len(s) |-> IF n = 0 THEN <<>>
                               ELSE IF s[n] \in C THEN f[n - 1] ELSE Append(f[n - 1], s[n])]
Kept(s, C) == CHOOSE f : IsKept(f, s, C)

\* The recursive function in Without exists.
LEMMA Keeping ==
    ASSUME NEW s \in Seq(Char), NEW C
    PROVE  /\ Without(s, C) = Kept(s, C)[Len(s)]
           /\ Kept(s, C)[0] = <<>>
           /\ \A n \in 1 .. Len(s) : Kept(s, C)[n] = Keep(Kept(s, C)[n - 1], s[n], C)
<1> DEFINE F == [n \in 1 .. Len(s) |-> [w \in Seq(Char) |-> Keep(w, s[n], C)]]
<1>1. Len(s) \in Nat /\ \A n \in 1 .. Len(s) : s[n] \in Char
  OBVIOUS
<1>2. F \in [1 .. Len(s) -> [Seq(Char) -> Seq(Char)]] /\ <<>> \in Seq(Char)
  BY <1>1 DEF Keep
<1>3. PICK f \in [0 .. Len(s) -> Seq(Char)] : Iterates(f, Len(s), <<>>, F)
  <2> HIDE DEF F
  <2> QED
    BY <1>1, <1>2, IterationExists
<1>4. ASSUME NEW n \in 0 .. Len(s), n # 0
      PROVE  F[n][f[n - 1]] = Keep(f[n - 1], s[n], C)
  <2>1. n \in 1 .. Len(s) /\ n - 1 \in 0 .. Len(s)
    BY <1>4
  <2>2. f[n - 1] \in Seq(Char)
    BY <2>1
  <2> QED
    BY <2>1, <2>2
<1>5. IsKept(f, s, C)
  <2> HIDE DEF F
  <2> QED
    BY <1>3, <1>4 DEF Iterates, IsKept, Keep
<1>6. IsKept(Kept(s, C), s, C)
  BY <1>5 DEF Kept
<1>7. Without(s, C) = Kept(s, C)[Len(s)]
  BY DEF Without, Kept, IsKept
<1> DEFINE g == Kept(s, C)
           h == [n \in 0 .. Len(s) |-> IF n = 0 THEN <<>> ELSE Keep(g[n - 1], s[n], C)]
<1>8. g = h
  BY <1>6 DEF IsKept, Keep
<1>9. h[0] = <<>> /\ \A n \in 1 .. Len(s) : h[n] = Keep(g[n - 1], s[n], C)
  <2>1. \A n \in 1 .. Len(s) : n \in 0 .. Len(s) /\ n # 0
    OBVIOUS
  <2> QED
    BY <2>1
<1>10. g[0] = <<>> /\ \A n \in 1 .. Len(s) : g[n] = Keep(g[n - 1], s[n], C)
  <2> HIDE DEF g, h
  <2> QED
    BY <1>8, <1>9
<1> QED
  BY <1>7, <1>10

\* Without of nothing, and of one character more.
LEMMA WithoutSteps ==
    ASSUME NEW C
    PROVE  /\ Without(<<>>, C) = <<>>
           /\ \A s \in Seq(Char), c \in Char :
                 Without(Append(s, c), C) = Keep(Without(s, C), c, C)
<1>1. Without(<<>>, C) = <<>>
  <2>1. <<>> \in Seq(Char) /\ Len(<<>>) = 0
    OBVIOUS
  <2> QED
    BY <2>1, Keeping
<1>2. ASSUME NEW s \in Seq(Char), NEW c \in Char
      PROVE  Without(Append(s, c), C) = Keep(Without(s, C), c, C)
  <2> DEFINE f == Kept(s, C)
             longer == Append(s, c)
             g == Kept(longer, C)
             T == {n \in Nat : n <= Len(s) => f[n] = g[n]}
  <2>1. /\ longer \in Seq(Char) /\ Len(longer) = Len(s) + 1 /\ longer[Len(s) + 1] = c
        /\ \A n \in 1 .. Len(s) : longer[n] = s[n]
    OBVIOUS
  <2> HIDE DEF longer
  <2>2. /\ Without(s, C) = f[Len(s)] /\ f[0] = <<>>
        /\ \A n \in 1 .. Len(s) : f[n] = Keep(f[n - 1], s[n], C)
    BY Keeping
  <2>3. /\ Without(longer, C) = g[Len(s) + 1] /\ g[0] = <<>>
        /\ \A n \in 1 .. Len(s) + 1 : g[n] = Keep(g[n - 1], longer[n], C)
    BY <2>1, Keeping
  <2> HIDE DEF f, g
  <2>4. 0 \in T
    BY <2>2, <2>3
  <2>5. ASSUME NEW n \in 0 .. Len(s) - 1, n \in T PROVE n + 1 \in T
    <3>1. n + 1 \in 1 .. Len(s) /\ n + 1 \in 1 .. Len(s) + 1 /\ (n + 1) - 1 = n /\ n <= Len(s)
      OBVIOUS
    <3>2. f[n + 1] = Keep(f[n], s[n + 1], C) /\ g[n + 1] = Keep(g[n], longer[n + 1], C)
      BY <2>2, <2>3, <3>1
    <3> QED
      BY <2>1, <2>5, <3>1, <3>2
  <2>6. 0 .. Len(s) \subseteq T
    <3> HIDE DEF T
    <3>1. Len(s) \in Nat
      OBVIOUS
    <3> QED
      BY <2>4, <2>5, <3>1, Induction
  <2>7. f[Len(s)] = g[Len(s)]
    BY <2>6
  <2>8. g[Len(s) + 1] = Keep(g[Len(s)], c, C)
    <3>1. Len(s) + 1 \in 1 .. Len(s) + 1 /\ (Len(s) + 1) - 1 = Len(s)
      OBVIOUS
    <3> QED
      BY <2>1, <2>3, <3>1
  <2> QED
    BY <2>2, <2>3, <2>7, <2>8 DEF longer
<1> QED
  BY <1>1, <1>2

\* Keeping a character does not look at what was kept before.
LEMMA KeepConcat ==
    ASSUME NEW a \in Seq(Char), NEW b \in Seq(Char), NEW c \in Char, NEW C
    PROVE  Keep(a \o b, c, C) = a \o Keep(b, c, C)
<1>1. a \o b \in Seq(Char)
  BY ConcatAppend
<1>2. a \o Append(b, c) = Append(a \o b, c)
  BY ConcatAppend
<1>3. c \in C => Keep(a \o b, c, C) = a \o Keep(b, c, C)
  BY DEF Keep
<1>4. c \notin C => Keep(a \o b, c, C) = Append(a \o b, c) /\ Keep(b, c, C) = Append(b, c)
  BY DEF Keep
<1> QED
  BY <1>2, <1>3, <1>4

\* Without can be taken of the parts of a text.
LEMMA WithoutConcat ==
    ASSUME NEW s \in Seq(Char), NEW t \in Seq(Char), NEW C
    PROVE  /\ Without(s, C) \in Seq(Char)
           /\ Without(s \o t, C) = Without(s, C) \o Without(t, C)
<1> DEFINE T == {u \in Seq(Char) : Without(u, C) \in Seq(Char)}
           U == {u \in Seq(Char) : Without(s \o u, C) = Without(s, C) \o Without(u, C)}
<1>e. <<>> \in Seq(Char) /\ s \o <<>> = s
  OBVIOUS
<1>1. Seq(Char) \subseteq T
  <2>1. <<>> \in T
    BY <1>e, WithoutSteps
  <2>2. ASSUME NEW u \in Seq(Char), NEW c \in Char, u \in T PROVE Append(u, c) \in T
    <3>1. Without(Append(u, c), C) = Keep(Without(u, C), c, C)
      BY WithoutSteps
    <3>3. Append(u, c) \in Seq(Char)
      OBVIOUS
    <3>2. \A w \in Seq(Char) : Keep(w, c, C) \in Seq(Char)
      BY DEF Keep
    <3> QED
      BY <2>2, <3>1, <3>2, <3>3
  <2> HIDE DEF T
  <2> QED
    BY <2>1, <2>2, AppendInduction
<1>2. \A u \in Seq(Char) : Without(u, C) \in Seq(Char)
  BY <1>1
<1>3. Seq(Char) \subseteq U
  <2>1. <<>> \in U
    <3>1. Without(s, C) \o <<>> = Without(s, C)
      BY <1>2
    <3> QED
      BY <1>e, <3>1, WithoutSteps
  <2>2. ASSUME NEW u \in Seq(Char), NEW c \in Char, u \in U PROVE Append(u, c) \in U
    <3>1. s \o Append(u, c) = Append(s \o u, c) /\ s \o u \in Seq(Char)
      BY ConcatAppend
    <3>2. Without(s \o Append(u, c), C) = Keep(Without(s, C) \o Without(u, C), c, C)
      BY <2>2, <3>1, WithoutSteps
    <3>3. Without(Append(u, c), C) = Keep(Without(u, C), c, C)
      BY WithoutSteps
    <3>4. Without(s, C) \in Seq(Char) /\ Without(u, C) \in Seq(Char)
      BY <1>2
    <3>5. Without(s \o Append(u, c), C) = Without(s, C) \o Without(Append(u, c), C)
      BY <3>2, <3>3, <3>4, KeepConcat
    <3>6. Append(u, c) \in Seq(Char)
      OBVIOUS
    <3> QED
      BY <3>5, <3>6
  <2> HIDE DEF U
  <2> QED
    BY <2>1, <2>2, AppendInduction
<1> QED
  BY <1>2, <1>3

-----------------------------------------------------------------------------
(***************************************************************************)
(* What Cut makes of a chunk: right behind a carriage return nothing is    *)
(* left over; no character but line ends is lost; what is left over is the *)
(* end of what came in and has no carriage return in it.                   *)
(***************************************************************************)
LEMMA CutAfterCR ==
    ASSUME NEW left \in Seq(Char), NEW chunk \in Seq(Char), Cut(left, chunk).afterCR
    PROVE  /\ Cut(left, chunk).left = <<>> /\ Cut(left, chunk).lines # <<>>
           /\ chunk # <<>> /\ Last(chunk) = CR
<1> DEFINE P(s) == Cut(left, s).afterCR =>
                      /\ Cut(left, s).left = <<>> /\ Cut(left, s).lines # <<>>
                      /\ s # <<>> /\ Last(s) = CR
           T == {s \in Seq(Char) : P(s)}
<1>1. <<>> \in T
  <2>1. Cut(left, <<>>) = Open(left) /\ <<>> \in Seq(Char)
    BY CutSteps
  <2> QED
    BY <2>1 DEF Open
<1>2. ASSUME NEW s \in Seq(Char), NEW c \in Char, s \in T PROVE Append(s, c) \in T
  <2> DEFINE w == Cut(left, s)
  <2>1. /\ w \in CutState
        /\ Cut(left, Append(s, c)) = Put(w, c)
    BY CutTyped, CutSteps
  <2>2. Append(s, c) \in Seq(Char) /\ Append(s, c) # <<>> /\ Last(Append(s, c)) = c
    BY DEF Last
  <2> HIDE DEF w
  <2>3. Put(w, c).afterCR => c = CR /\ Put(w, c) = [lines |-> Append(w.lines, w.left), left |-> <<>>, afterCR |-> TRUE]
    BY <2>1 DEF Put, CutState
  <2>4. Append(w.lines, w.left) # <<>>
    <3>1. w.lines \in Seq(Seq(Char)) /\ w.left \in Seq(Char)
      BY <2>1 DEF CutState
    <3>2. ASSUME NEW a \in Seq(Seq(Char)), NEW b \in Seq(Char) PROVE Append(a, b) # <<>>
      BY AppendProperties
    <3> QED
      BY <3>1, <3>2
  <2> QED
    BY <2>1, <2>2, <2>3, <2>4
<1>3. Seq(Char) \subseteq T
  <2> HIDE DEF T
  <2> QED
    BY <1>1, <1>2, AppendInduction
<1> QED
  BY <1>3

TextOf(w) == FlattenSeq(w.lines) \o w.left

\* Cut loses and invents nothing but line ends.
LEMMA CutText ==
    ASSUME NEW left \in Seq(Char), NEW chunk \in Seq(Char)
    PROVE  Without(TextOf(Cut(left, chunk)), LineEnd) = Without(left \o chunk, LineEnd)
<1> DEFINE T == {s \in Seq(Char) : Without(TextOf(Cut(left, s)), LineEnd)
                                      = Without(left \o s, LineEnd)}
<1>1. <<>> \in T
  <2>1. Cut(left, <<>>) = Open(left) /\ <<>> \in Seq(Char)
    BY CutSteps
  <2>2. TextOf(Open(left)) = <<>> \o left
    BY FlattenEmpty DEF TextOf, Open
  <2>3. <<>> \o left = left /\ left \o <<>> = left
    OBVIOUS
  <2> QED
    BY <2>1, <2>2, <2>3
<1>2. ASSUME NEW s \in Seq(Char), NEW c \in Char, s \in T PROVE Append(s, c) \in T
  <2> DEFINE w == Cut(left, s)
             L == FlattenSeq(w.lines)
  <2>1. /\ w \in CutState
        /\ Cut(left, Append(s, c)) = Put(w, c)
    BY CutTyped, CutSteps
  <2>2. w.lines \in Seq(Seq(Char)) /\ w.left \in Seq(Char)
    BY <2>1 DEF CutState
  <2>3. L \in Seq(Char) /\ FlattenSeq(Append(w.lines, w.left)) = L \o w.left
    BY <2>2, FlattenSteps, FlattenConcat
  <2>4. Append(s, c) \in Seq(Char)
    OBVIOUS
  <2>5. left \o Append(s, c) = Append(left \o s, c) /\ left \o s \in Seq(Char)
    BY ConcatAppend
  <2>6. Without(left \o Append(s, c), LineEnd) = Keep(Without(left \o s, LineEnd), c, LineEnd)
    BY <2>5, WithoutSteps
  <2>7. TextOf(w) = L \o w.left /\ TextOf(w) \in Seq(Char)
    BY <2>2, <2>3 DEF TextOf
  <2> HIDE DEF w, L
  <2>8. CASE c = CR
    <3>1. Put(w, c).lines = Append(w.lines, w.left) /\ Put(w, c).left = <<>>
      BY <2>8 DEF Put
    <3>2. TextOf(Put(w, c)) = (L \o w.left) \o <<>>
      BY <2>3, <3>1 DEF TextOf
    <3>3. (L \o w.left) \o <<>> = TextOf(w)
      BY <2>7
    <3>4. Keep(Without(left \o s, LineEnd), c, LineEnd) = Without(left \o s, LineEnd)
      BY <2>8 DEF Keep, LineEnd
    <3>5. Without(TextOf(w), LineEnd) = Without(left \o s, LineEnd)
      BY <1>2 DEF w
    <3> QED
      BY <2>1, <2>4, <2>6, <3>2, <3>3, <3>4, <3>5
  <2>9. CASE c = LF /\ w.afterCR
    <3>1. Put(w, c).lines = w.lines /\ Put(w, c).left = w.left
      BY <2>1, <2>9, CharAssumption DEF Put, CutState
    <3>2. TextOf(Put(w, c)) = TextOf(w)
      BY <3>1 DEF TextOf
    <3>4. Keep(Without(left \o s, LineEnd), c, LineEnd) = Without(left \o s, LineEnd)
      BY <2>9 DEF Keep, LineEnd
    <3>5. Without(TextOf(w), LineEnd) = Without(left \o s, LineEnd)
      BY <1>2 DEF w
    <3> QED
      BY <2>1, <2>4, <2>6, <3>2, <3>4, <3>5
  <2>10. CASE c # CR /\ ~(c = LF /\ w.afterCR)
    <3>1. Put(w, c).lines = w.lines /\ Put(w, c).left = Append(w.left, c)
      BY <2>1, <2>10 DEF Put, CutState
    <3>2. TextOf(Put(w, c)) = L \o Append(w.left, c)
      BY <3>1 DEF TextOf, L
    <3>l. w.left \in Seq(Char) /\ L \in Seq(Char)
      BY <2>2, <2>3
    <3>3. L \o Append(w.left, c) = Append(L \o w.left, c)
      BY <3>l, ConcatAppend
    <3>4. Without(TextOf(Put(w, c)), LineEnd) = Keep(Without(TextOf(w), LineEnd), c, LineEnd)
      BY <2>7, <3>2, <3>3, WithoutSteps
    <3>5. Without(TextOf(w), LineEnd) = Without(left \o s, LineEnd)
      BY <1>2 DEF w
    <3> QED
      BY <2>1, <2>4, <2>6, <3>4, <3>5
  <2> QED
    BY <2>8, <2>9, <2>10
<1>3. Seq(Char) \subseteq T
  <2> HIDE DEF T
  <2> QED
    BY <1>1, <1>2, AppendInduction
<1> QED
  BY <1>3

EndOf(l, s) == \E k \in 1 .. Len(s) + 1 : l = SubSeq(s, k, Len(s)) /\ ~Contains(l, CR)

\* An end without carriage return grows with its text.
LEMMA EndGrows ==
    ASSUME NEW l \in Seq(Char), NEW s \in Seq(Char), NEW c \in Char
    PROVE  /\ EndOf(<<>>, s)
           /\ EndOf(l, s) /\ c # CR => EndOf(Append(l, c), Append(s, c))
<1>1. EndOf(<<>>, s)
  <2>1. SubSeq(s, Len(s) + 1, Len(s)) = <<>> /\ Len(s) + 1 \in 1 .. Len(s) + 1
    BY SubSeqEmpty
  <2>2. ~Contains(<<>>, CR)
    BY DEF Contains
  <2> QED
    BY <2>1, <2>2 DEF EndOf
<1>2. ASSUME EndOf(l, s), c # CR PROVE EndOf(Append(l, c), Append(s, c))
  <2>1. PICK k \in 1 .. Len(s) + 1 : l = SubSeq(s, k, Len(s)) /\ ~Contains(l, CR)
    BY <1>2 DEF EndOf
  <2>2. k \in 1 .. Len(Append(s, c)) + 1
    OBVIOUS
  <2>3. SubSeq(Append(s, c), k, Len(Append(s, c))) = Append(SubSeq(s, k, Len(s)), c)
    OBVIOUS
  <2>4. ~Contains(Append(l, c), CR)
    <3>1. /\ Len(Append(l, c)) = Len(l) + 1 /\ Append(l, c)[Len(l) + 1] = c
          /\ \A i \in 1 .. Len(l) : Append(l, c)[i] = l[i]
      BY AppendProperties
    <3>2. \A i \in 1 .. Len(l) + 1 : i \in 1 .. Len(l) \/ i = Len(l) + 1
      OBVIOUS
    <3> QED
      BY <1>2, <2>1, <3>1, <3>2 DEF Contains
  <2> QED
    BY <2>1, <2>2, <2>3, <2>4 DEF EndOf
<1> QED
  BY <1>1, <1>2

\* What Cut leaves over is an end of the text without carriage return.
LEMMA CutEnd ==
    ASSUME NEW left \in Seq(Char), NEW chunk \in Seq(Char), NEW before \in Seq(Char),
           EndOf(left, before)
    PROVE  EndOf(Cut(left, chunk).left, before \o chunk)
<1> DEFINE T == {s \in Seq(Char) : EndOf(Cut(left, s).left, before \o s)}
<1>1. <<>> \in T
  <2>1. Cut(left, <<>>).left = left /\ before \o <<>> = before /\ <<>> \in Seq(Char)
    BY CutSteps DEF Open
  <2> QED
    BY <2>1
<1>2. ASSUME NEW s \in Seq(Char), NEW c \in Char, s \in T PROVE Append(s, c) \in T
  <2> DEFINE w == Cut(left, s)
  <2>1. /\ w \in CutState
        /\ Cut(left, Append(s, c)) = Put(w, c)
    BY CutTyped, CutSteps
  <2>2. w.left \in Seq(Char)
    BY <2>1 DEF CutState
  <2>3. before \o Append(s, c) = Append(before \o s, c) /\ before \o s \in Seq(Char)
    BY ConcatAppend
  <2>4. Append(s, c) \in Seq(Char) /\ Append(before \o s, c) \in Seq(Char)
    BY <2>3
  <2>5. w.afterCR => w.left = <<>>
    BY CutAfterCR
  <2>6. EndOf(w.left, before \o s)
    BY <1>2
  <2> HIDE DEF w
  <2>7. Put(w, c).left = <<>> \/ (c # CR /\ Put(w, c).left = Append(w.left, c))
    BY <2>1, <2>5 DEF Put, CutState
  <2>8. EndOf(Put(w, c).left, Append(before \o s, c))
    BY <2>2, <2>3, <2>4, <2>6, <2>7, EndGrows
  <2> QED
    BY <2>1, <2>3, <2>4, <2>8
<1>3. Seq(Char) \subseteq T
  <2> HIDE DEF T
  <2> QED
    BY <1>1, <1>2, AppendInduction
<1> QED
  BY <1>3

-----------------------------------------------------------------------------
(***************************************************************************)
(* The lines of a whole text.  First, the places where they end: there is  *)
(* only one way to count a finite set of numbers upwards.                  *)
(***************************************************************************)
Counts(e, B) ==
    /\ e \in [1 .. Cardinality(B) -> B]
    /\ \A i, j \in DOMAIN e : i < j => e[i] < e[j]

\* Counting upwards meets every number of the set.
LEMMA CountsAll ==
    ASSUME NEW B \in SUBSET Nat, IsFiniteSet(B), NEW e, Counts(e, B)
    PROVE  \A b \in B : \E i \in 1 .. Cardinality(B) : e[i] = b
<1>1. Cardinality(B) \in Nat /\ DOMAIN e = 1 .. Cardinality(B) /\ e \in [1 .. Cardinality(B) -> B]
  BY FS_CardinalityType DEF Counts
<1>2. \A i, j \in 1 .. Cardinality(B) : e[i] = e[j] => i = j
  <2> SUFFICES ASSUME NEW i \in 1 .. Cardinality(B), NEW j \in 1 .. Cardinality(B), e[i] = e[j]
               PROVE  i = j
    OBVIOUS
  <2>1. e[i] \in Nat /\ e[j] \in Nat
    BY <1>1
  <2>2. ~(i < j) /\ ~(j < i)
    BY <1>1, <2>1 DEF Counts
  <2> QED
    BY <1>1, <2>2
<1>3. e \in Injection(1 .. Cardinality(B), B)
  BY <1>1, <1>2 DEF Injection, IsInjective
<1>4. Cardinality(1 .. Cardinality(B)) = Cardinality(B)
  BY <1>1, FS_Interval
<1>5. e \in Surjection(1 .. Cardinality(B), B)
  BY <1>3, <1>4, FS_Injection
<1> QED
  BY <1>5 DEF Surjection

\* There is one way to count upwards.
LEMMA CountsOnce ==
    ASSUME NEW B \in SUBSET Nat, IsFiniteSet(B), NEW e, Counts(e, B), NEW f, Counts(f, B)
    PROVE  e = f
<1> DEFINE m == Cardinality(B)
           D == {i \in 1 .. m : e[i] # f[i]}
<1>1. m \in Nat /\ e \in [1 .. m -> B] /\ f \in [1 .. m -> B]
  BY FS_CardinalityType DEF Counts
<1>2. \A i, j \in 1 .. m : i < j => e[i] < e[j] /\ f[i] < f[j]
  BY <1>1 DEF Counts
<1>a. \A b \in B : \E i \in 1 .. m : e[i] = b
  BY CountsAll
<1>b. \A b \in B : \E i \in 1 .. m : f[i] = b
  BY CountsAll
<1>3. ASSUME D # {} PROVE FALSE
  <2>1. PICK d \in D : \A k \in D : d <= k
    <3>1. D \in SUBSET Nat
      OBVIOUS
    <3> HIDE DEF D
    <3> QED
      BY <1>3, <3>1, Least
  <2>2. \A i \in 1 .. m : i < d => e[i] = f[i]
    BY <1>1, <2>1
  <2>3. d \in 1 .. m /\ e[d] # f[d] /\ e[d] \in B /\ f[d] \in B
    BY <1>1, <2>1
  <2>4. PICK i \in 1 .. m : f[i] = e[d]
    BY <2>3, <1>b
  <2>5. PICK j \in 1 .. m : e[j] = f[d]
    BY <2>3, <1>a
  <2> HIDE DEF D, m
  <2>6. \A k \in 1 .. m : e[k] \in Nat /\ f[k] \in Nat
    BY <1>1
  <2>7. i > d
    <3>1. i # d
      BY <2>3, <2>4
    <3>2. ~(i < d)
      <4> SUFFICES ASSUME i < d PROVE FALSE
        OBVIOUS
      <4>1. e[i] = e[d] /\ e[i] < e[d]
        BY <1>2, <2>2, <2>3, <2>4
      <4> QED
        BY <2>3, <2>6, <4>1
    <3> QED
      BY <2>3, <3>1, <3>2
  <2>8. j > d
    <3>1. j # d
      BY <2>3, <2>5
    <3>2. ~(j < d)
      <4> SUFFICES ASSUME j < d PROVE FALSE
        OBVIOUS
      <4>1. f[j] = f[d] /\ f[j] < f[d]
        BY <1>2, <2>2, <2>3, <2>5
      <4> QED
        BY <2>3, <2>6, <4>1
    <3> QED
      BY <2>3, <3>1, <3>2
  <2>9. f[d] < e[d] /\ e[d] < f[d]
    BY <1>2, <2>3, <2>4, <2>5, <2>7, <2>8
  <2> QED
    BY <2>3, <2>6, <2>9
<1> QED
  BY <1>1, <1>3

\* The breaks of a text are finitely many, and at least one.
LEMMA BreaksFinite ==
    ASSUME NEW s \in Seq(Char)
    PROVE  /\ Breaks(s) \in SUBSET Nat /\ Breaks(s) \subseteq 1 .. Len(s) + 1
           /\ IsFiniteSet(Breaks(s))
           /\ Cardinality(Breaks(s)) \in Nat \ {0}
<1>1. Breaks(s) \subseteq 1 .. Len(s) + 1 /\ Len(s) + 1 \in Breaks(s) /\ Len(s) \in Nat
  BY DEF Breaks
<1>2. IsFiniteSet(1 .. Len(s) + 1)
  BY <1>1, FS_Interval
<1>3. IsFiniteSet(Breaks(s))
  BY <1>1, <1>2, FS_Subset
<1>4. Cardinality(Breaks(s)) \in Nat /\ Cardinality(Breaks(s)) # 0
  BY <1>1, <1>3, FS_CardinalityType, FS_EmptySet
<1> QED
  BY <1>1, <1>3, <1>4

\* Ends is the one way to count the breaks.
LEMMA EndsAre ==
    ASSUME NEW s \in Seq(Char), NEW e, Counts(e, Breaks(s))
    PROVE  Ends(s) = e
<1>1. \E f \in [1 .. Cardinality(Breaks(s)) -> Breaks(s)] :
         \A i, j \in DOMAIN f : i < j => f[i] < f[j]
  BY DEF Counts
<1>2. Counts(Ends(s), Breaks(s))
  BY <1>1 DEF Ends, Counts
<1> QED
  BY <1>2, BreaksFinite, CountsOnce

(***************************************************************************)
(* The ends of the lines when a character is added to the text.            *)
(***************************************************************************)
LEMMA BreaksGrow ==
    ASSUME NEW s \in Seq(Char), NEW c \in Char
    PROVE  /\ c # CR => /\ Breaks(Append(s, c)) = (Breaks(s) \ {Len(s) + 1}) \cup {Len(s) + 2}
                        /\ Cardinality(Breaks(Append(s, c))) = Cardinality(Breaks(s))
           /\ c = CR => /\ Breaks(Append(s, c)) = Breaks(s) \cup {Len(s) + 2}
                        /\ Cardinality(Breaks(Append(s, c))) = Cardinality(Breaks(s)) + 1
<1>1. /\ Len(Append(s, c)) = Len(s) + 1 /\ Append(s, c)[Len(s) + 1] = c /\ Len(s) \in Nat
      /\ \A i \in 1 .. Len(s) : Append(s, c)[i] = s[i]
      /\ DOMAIN Append(s, c) = 1 .. Len(s) + 1 /\ DOMAIN s = 1 .. Len(s)
  OBVIOUS
<1>2. /\ Breaks(s) \subseteq 1 .. Len(s) + 1 /\ IsFiniteSet(Breaks(s))
      /\ Cardinality(Breaks(s)) \in Nat \ {0}
  BY BreaksFinite
<1>3. Len(s) + 1 \in Breaks(s) /\ Len(s) + 2 \notin Breaks(s)
  BY <1>1, <1>2 DEF Breaks
<1>4. ASSUME c # CR
      PROVE  Breaks(Append(s, c)) = (Breaks(s) \ {Len(s) + 1}) \cup {Len(s) + 2}
  BY <1>1, <1>4 DEF Breaks
<1>5. ASSUME c = CR
      PROVE  Breaks(Append(s, c)) = Breaks(s) \cup {Len(s) + 2}
  BY <1>1, <1>5 DEF Breaks
<1>6. Cardinality(Breaks(s) \cup {Len(s) + 2}) = Cardinality(Breaks(s)) + 1
  BY <1>2, <1>3, FS_AddElement
<1>7. Cardinality((Breaks(s) \ {Len(s) + 1}) \cup {Len(s) + 2}) = Cardinality(Breaks(s))
  <2> DEFINE R == Breaks(s) \ {Len(s) + 1}
  <2>1. IsFiniteSet(R) /\ Cardinality(R) = Cardinality(Breaks(s)) - 1
    BY <1>2, <1>3, FS_RemoveElement
  <2>2. Len(s) + 2 \notin R
    BY <1>3
  <2>3. Cardinality(R \cup {Len(s) + 2}) = Cardinality(R) + 1
    <3> HIDE DEF R
    <3> QED
      BY <2>1, <2>2, FS_AddElement
  <2> QED
    BY <1>2, <2>1, <2>3
<1> QED
  BY <1>4, <1>5, <1>6, <1>7

\* The counted breaks of a text that is one character longer.
LEMMA EndsGrow ==
    ASSUME NEW s \in Seq(Char), NEW c \in Char, NEW e, Counts(e, Breaks(s)),
           NEW m, m = Cardinality(Breaks(s)), e[m] = Len(s) + 1
    PROVE  /\ c # CR => Counts([e EXCEPT ![m] = Len(s) + 2], Breaks(Append(s, c)))
           /\ c = CR => Counts([i \in 1 .. m + 1 |-> IF i <= m THEN e[i] ELSE Len(s) + 2],
                               Breaks(Append(s, c)))
<1>1. /\ m \in Nat \ {0} /\ Breaks(s) \subseteq 1 .. Len(s) + 1 /\ Len(s) \in Nat
      /\ e \in [1 .. m -> Breaks(s)]
      /\ \A i, j \in 1 .. m : i < j => e[i] < e[j]
  BY BreaksFinite DEF Counts
<1>2. \A i \in 1 .. m : e[i] \in Breaks(s) /\ e[i] \in 1 .. Len(s) + 1
  BY <1>1
<1>3. \A i \in 1 .. m : i # m => e[i] < Len(s) + 1
  BY <1>1
<1>4. ASSUME c # CR PROVE Counts([e EXCEPT ![m] = Len(s) + 2], Breaks(Append(s, c)))
  <2> DEFINE f == [e EXCEPT ![m] = Len(s) + 2]
             B == Breaks(Append(s, c))
  <2>1. B = (Breaks(s) \ {Len(s) + 1}) \cup {Len(s) + 2} /\ Cardinality(B) = m
    BY <1>4, BreaksGrow
  <2>2. DOMAIN f = 1 .. m /\ \A i \in 1 .. m : f[i] = IF i = m THEN Len(s) + 2 ELSE e[i]
    BY <1>1
  <2> HIDE DEF f, B
  <2>3. \A i \in 1 .. m : f[i] \in B
    BY <1>2, <1>3, <2>1, <2>2
  <2>4. f \in [1 .. m -> B]
    <3>1. f = [i \in 1 .. m |-> f[i]]
      BY <1>1 DEF f
    <3> QED
      BY <2>3, <3>1
  <2>5. \A i, j \in 1 .. m : i < j => f[i] < f[j]
    BY <1>1, <1>2, <2>2
  <2> QED
    BY <2>1, <2>2, <2>4, <2>5 DEF Counts, f, B
<1>5. ASSUME c = CR
      PROVE  Counts([i \in 1 .. m + 1 |-> IF i <= m THEN e[i] ELSE Len(s) + 2],
                    Breaks(Append(s, c)))
  <2> DEFINE f == [i \in 1 .. m + 1 |-> IF i <= m THEN e[i] ELSE Len(s) + 2]
             B == Breaks(Append(s, c))
  <2>1. B = Breaks(s) \cup {Len(s) + 2} /\ Cardinality(B) = m + 1
    BY <1>5, BreaksGrow
  <2>2. /\ DOMAIN f = 1 .. m + 1
        /\ \A i \in 1 .. m + 1 : f[i] = IF i <= m THEN e[i] ELSE Len(s) + 2
    OBVIOUS
  <2>0. f = [i \in 1 .. m + 1 |-> f[i]]
    OBVIOUS
  <2> HIDE DEF f, B
  <2>3. \A i \in 1 .. m + 1 : f[i] \in B
    BY <1>1, <1>2, <2>1, <2>2
  <2>4. f \in [1 .. m + 1 -> B]
    BY <2>0, <2>3
  <2>5. \A i, j \in 1 .. m + 1 : i < j => f[i] < f[j]
    <3> SUFFICES ASSUME NEW i \in 1 .. m + 1, NEW j \in 1 .. m + 1, i < j
                 PROVE  f[i] < f[j]
      OBVIOUS
    <3>1. i \in 1 .. m /\ f[i] = e[i]
      BY <1>1, <2>2
    <3>2. CASE j <= m
      BY <1>1, <2>2, <3>1, <3>2
    <3>3. CASE ~(j <= m)
      BY <1>1, <1>2, <2>2, <3>1, <3>3
    <3> QED
      BY <3>2, <3>3
  <2> QED
    BY <2>1, <2>2, <2>4, <2>5 DEF Counts, f, B
<1> QED
  BY <1>4, <1>5

(***************************************************************************)
(* Cut finds these lines: the last piece is what is left over.             *)
(***************************************************************************)
Pieces(s, w, m) ==
    /\ m = Len(w.lines) + 1 /\ m = Cardinality(Breaks(s))
    /\ Counts(Ends(s), Breaks(s)) /\ Ends(s)[m] = Len(s) + 1
    /\ \A i \in 1 .. m - 1 : Line(s, i) = w.lines[i]
    /\ Line(s, m) = w.left
    /\ w.afterCR <=> m > 1 /\ Ends(s)[m - 1] = Len(s)

\* Nothing read is one piece, empty.
LEMMA PiecesStart == \A w : w = Open(<<>>) => Pieces(<<>>, w, 1)
<1>1. Breaks(<<>>) = {1} /\ Len(<<>>) = 0 /\ <<>> \in Seq(Char)
  BY DEF Breaks
<1>2. Cardinality({1}) = 1
  BY FS_Singleton
<1> DEFINE e == [i \in 1 .. 1 |-> 1]
<1>3. Counts(e, Breaks(<<>>))
  BY <1>1, <1>2 DEF Counts
<1>4. Ends(<<>>) = e
  <2> HIDE DEF e
  <2> QED
    BY <1>1, <1>3, EndsAre
<1>5. e[1] = 1
  OBVIOUS
<1>6. Line(<<>>, 1) = <<>>
  <2>1. Line(<<>>, 1) = SubSeq(<<>>, 1, 0)
    BY <1>4, <1>5 DEF Line, From
  <2>2. SubSeq(<<>>, 1, 0) = <<>>
    BY SubSeqEmpty
  <2> QED
    BY <2>1, <2>2
<1>7. Counts(Ends(<<>>), Breaks(<<>>)) /\ Ends(<<>>)[1] = 1 /\ Cardinality(Breaks(<<>>)) = 1
  <2> HIDE DEF e
  <2> QED
    BY <1>1, <1>2, <1>3, <1>4, <1>5
<1> SUFFICES ASSUME NEW w, w = Open(<<>>) PROVE Pieces(<<>>, w, 1)
  OBVIOUS
<1>8. w.lines = <<>> /\ w.left = <<>> /\ w.afterCR = FALSE
  BY DEF Open
<1> HIDE DEF e
<1> QED
  BY <1>1, <1>6, <1>7, <1>8 DEF Pieces

\* One more character, put by the loop, keeps lines and pieces the same.
LEMMA PiecesGrow ==
    ASSUME NEW s \in Seq(Char), NEW c \in Char, NEW w \in CutState, NEW m, Pieces(s, w, m),
           w.afterCR => w.left = <<>>
    PROVE  \E n : Pieces(Append(s, c), Put(w, c), n)
<1> DEFINE t == Append(s, c)
           e == Ends(s)
           B == Breaks(s)
<1>1. /\ m \in Nat \ {0} /\ m = Cardinality(B) /\ Counts(e, B) /\ e[m] = Len(s) + 1
      /\ m = Len(w.lines) + 1
      /\ B \subseteq 1 .. Len(s) + 1 /\ Len(s) \in Nat
  BY BreaksFinite DEF Pieces
<1>2. /\ t \in Seq(Char) /\ Len(t) = Len(s) + 1 /\ t[Len(s) + 1] = c
      /\ \A i \in 1 .. Len(s) : t[i] = s[i]
  OBVIOUS
<1>3. /\ e \in [1 .. m -> B]
      /\ \A i, j \in 1 .. m : i < j => e[i] < e[j]
  BY <1>1 DEF Counts
<1>4. \A i \in 1 .. m - 1 : e[i] \in 1 .. Len(s) /\ i \in 1 .. m /\ i + 1 \in 1 .. m
  <2> SUFFICES ASSUME NEW i \in 1 .. m - 1
               PROVE  e[i] \in 1 .. Len(s) /\ i \in 1 .. m /\ i + 1 \in 1 .. m
    OBVIOUS
  <2>1. i \in 1 .. m /\ m \in 1 .. m /\ i < m /\ i + 1 \in 1 .. m
    BY <1>1
  <2>2. e[i] \in 1 .. Len(s) + 1 /\ e[i] < e[m]
    BY <1>1, <1>3, <2>1
  <2> QED
    BY <1>1, <2>1, <2>2
<1>5. /\ w.lines \in Seq(Seq(Char)) /\ w.left \in Seq(Char) /\ w.afterCR \in BOOLEAN
  BY DEF CutState
<1>6. /\ \A i \in 1 .. m - 1 : Line(s, i) = w.lines[i]
      /\ Line(s, m) = w.left
      /\ w.afterCR <=> m > 1 /\ e[m - 1] = Len(s)
  BY DEF Pieces
<1> DEFINE f == Ends(t)
<1>7. \A a \in 1 .. Len(s) + 1, b \in 0 .. Len(s) : SubSeq(t, a, b) = SubSeq(s, a, b)
  <2> SUFFICES ASSUME NEW a \in 1 .. Len(s) + 1, NEW b \in 0 .. Len(s)
               PROVE  SubSeq(t, a, b) = SubSeq(s, a, b)
    OBVIOUS
  <2>1. \A i \in a .. b : s[i] \in Char /\ t[i] \in Char /\ t[i] = s[i]
    BY <1>1, <1>2
  <2> HIDE DEF t
  <2> QED
    BY <1>1, <1>2, <2>1
\* The pieces before the last stay as they are.
<1>8. ASSUME \A i \in 1 .. m - 1 : f[i] = e[i]
      PROVE  \A i \in 1 .. m - 1 : Line(t, i) = w.lines[i]
  <2> SUFFICES ASSUME NEW i \in 1 .. m - 1 PROVE Line(t, i) = Line(s, i)
    BY <1>6
  <2> HIDE DEF t, f, e
  <2>1. e[i] \in 1 .. Len(s) /\ f[i] = e[i] /\ i \in 1 .. m
    BY <1>4, <1>8
  <2>2. From(t, i) = From(s, i) /\ From(s, i) \in 1 .. Len(s) + 1
    <3>1. CASE i = 1
      BY <1>1, <3>1 DEF From
    <3>2. CASE i # 1
      <4>1. i - 1 \in 1 .. m - 1 /\ i - 1 \in 1 .. m /\ i - 1 < i
        BY <1>1, <3>2
      <4>2. e[i - 1] \in 1 .. Len(s) /\ f[i - 1] = e[i - 1] /\ e[i - 1] < e[i]
        BY <1>3, <1>4, <1>8, <2>1, <4>1
      <4>3. e[i - 1] < Len(s) /\ e[i - 1] < Len(t) /\ e[i - 1] + 1 \in 1 .. Len(s)
        BY <1>1, <1>2, <2>1, <4>2
      <4>4. t[e[i - 1] + 1] = s[e[i - 1] + 1]
        BY <1>2, <4>3
      <4>5. /\ From(t, i) = IF t[e[i - 1] + 1] = LF THEN e[i - 1] + 2 ELSE e[i - 1] + 1
            /\ From(s, i) = IF s[e[i - 1] + 1] = LF THEN e[i - 1] + 2 ELSE e[i - 1] + 1
        BY <3>2, <4>2, <4>3 DEF From, e, f
      <4> QED
        BY <1>1, <4>2, <4>3, <4>4, <4>5
    <3> QED
      BY <3>1, <3>2
  <2>3. e[i] - 1 \in 0 .. Len(s)
    BY <1>1, <2>1
  <2> QED
    BY <1>7, <2>1, <2>2, <2>3 DEF Line, e, f
\* Where the last piece begins.
<1>9. ASSUME \A i \in 1 .. m - 1 : f[i] = e[i]
      PROVE  /\ From(s, m) \in 1 .. Len(s) + 1
             /\ From(t, m) = IF w.afterCR /\ c = LF THEN Len(s) + 2 ELSE From(s, m)
  <2> HIDE DEF t, f, e
  <2>1. CASE m = 1
    BY <1>1, <1>6, <2>1 DEF From
  <2>2. CASE m # 1
    <3>1. m - 1 \in 1 .. m - 1 /\ m > 1
      BY <1>1, <2>2
    <3>2. e[m - 1] \in 1 .. Len(s) /\ f[m - 1] = e[m - 1]
      BY <1>4, <1>9, <3>1
    <3>3. CASE e[m - 1] = Len(s)
      <4>1. w.afterCR
        BY <1>6, <3>1, <3>3
      <4>2. ~(e[m - 1] < Len(s)) /\ e[m - 1] < Len(t) /\ t[e[m - 1] + 1] = c
        BY <1>1, <1>2, <3>3
      <4>3. /\ From(s, m) = e[m - 1] + 1
            /\ From(t, m) = IF c = LF THEN e[m - 1] + 2 ELSE e[m - 1] + 1
        BY <2>2, <3>2, <4>2 DEF From, e, f
      <4> QED
        BY <1>1, <3>3, <4>1, <4>3
    <3>4. CASE e[m - 1] # Len(s)
      <4>1. ~w.afterCR
        BY <1>6, <3>4
      <4>2. e[m - 1] < Len(s) /\ e[m - 1] < Len(t) /\ e[m - 1] + 1 \in 1 .. Len(s)
        BY <1>1, <1>2, <3>2, <3>4
      <4>3. t[e[m - 1] + 1] = s[e[m - 1] + 1]
        BY <1>2, <4>2
      <4>4. /\ From(t, m) = IF t[e[m - 1] + 1] = LF THEN e[m - 1] + 2 ELSE e[m - 1] + 1
            /\ From(s, m) = IF s[e[m - 1] + 1] = LF THEN e[m - 1] + 2 ELSE e[m - 1] + 1
        BY <2>2, <3>2, <4>2 DEF From, e, f
      <4>5. From(t, m) = From(s, m)
        BY <4>3, <4>4
      <4>6. From(s, m) \in 1 .. Len(s) + 1
        BY <1>1, <3>2, <4>2, <4>4
      <4> QED
        BY <4>1, <4>5, <4>6
    <3> QED
      BY <3>3, <3>4
  <2> QED
    BY <2>1, <2>2
<1>10. ASSUME c = CR PROVE Pieces(t, Put(w, c), m + 1)
  <2> DEFINE g == [i \in 1 .. m + 1 |-> IF i <= m THEN e[i] ELSE Len(s) + 2]
  <2>1. Counts(g, Breaks(t))
    BY <1>1, <1>10, EndsGrow
  <2>2. f = g
    <3> HIDE DEF g, t
    <3> QED
      BY <1>2, <2>1, EndsAre
  <2>3. g[m + 1] = Len(s) + 2 /\ g[m] = e[m] /\ \A i \in 1 .. m - 1 : g[i] = e[i]
    BY <1>1
  <2>4. Cardinality(Breaks(t)) = m + 1
    BY <1>1, <1>10, BreaksGrow
  <2>5. Put(w, c) = [lines |-> Append(w.lines, w.left), left |-> <<>>, afterCR |-> TRUE]
    BY <1>10 DEF Put
  <2> HIDE DEF f, g, t, e
  <2>6. /\ Len(Put(w, c).lines) = m /\ Put(w, c).lines[m] = w.left
        /\ \A i \in 1 .. m - 1 : Put(w, c).lines[i] = w.lines[i]
    BY <1>1, <1>5, <2>5
  <2>7. \A i \in 1 .. m - 1 : Line(t, i) = w.lines[i]
    BY <1>8, <2>2, <2>3
  <2>8. Line(t, m) = w.left
    <3>1. From(t, m) = From(s, m) /\ From(s, m) \in 1 .. Len(s) + 1
      BY <1>9, <1>10, <2>2, <2>3, CharAssumption
    <3>2. f[m] - 1 = Len(s) /\ e[m] - 1 = Len(s) /\ Len(s) \in 0 .. Len(s)
      BY <1>1, <2>2, <2>3
    <3>3. Line(t, m) = SubSeq(t, From(s, m), Len(s))
      BY <3>1, <3>2 DEF Line, f
    <3>4. Line(s, m) = SubSeq(s, From(s, m), Len(s))
      BY <3>2 DEF Line, e
    <3> QED
      BY <1>6, <1>7, <3>1, <3>2, <3>3, <3>4
  <2>9. Line(t, m + 1) = <<>>
    <3>1. (m + 1) - 1 = m /\ m + 1 # 1 /\ f[m] = Len(t) /\ ~(f[m] < Len(t))
      BY <1>1, <1>2, <2>2, <2>3
    <3>2. From(t, m + 1) = Len(t) + 1
      BY <3>1 DEF From, f
    <3>3. f[m + 1] - 1 = Len(t)
      BY <1>1, <1>2, <2>2, <2>3
    <3>4. Line(t, m + 1) = SubSeq(t, Len(t) + 1, Len(t))
      BY <3>2, <3>3 DEF Line, f
    <3> QED
      BY <1>1, <1>2, <3>4, SubSeqEmpty
  <2>10. f[(m + 1) - 1] = Len(t) /\ f[m + 1] = Len(t) + 1 /\ m + 1 > 1
    BY <1>1, <1>2, <2>2, <2>3
  <2>11. \A i \in 1 .. (m + 1) - 1 : Line(t, i) = Put(w, c).lines[i]
    <3> SUFFICES ASSUME NEW i \in 1 .. (m + 1) - 1 PROVE Line(t, i) = Put(w, c).lines[i]
      OBVIOUS
    <3>1. i \in 1 .. m - 1 \/ i = m
      BY <1>1
    <3> QED
      BY <2>6, <2>7, <2>8, <3>1
  <2>12. Put(w, c).left = <<>> /\ Put(w, c).afterCR
    BY <2>5
  <2>13. Counts(Ends(t), Breaks(t))
    BY <2>1, <2>2 DEF f
  <2>14. m + 1 = Len(Put(w, c).lines) + 1
    BY <2>6
  <2> QED
    BY <2>4, <2>9, <2>10, <2>11, <2>12, <2>13, <2>14 DEF Pieces, f
<1>11. ASSUME c # CR PROVE Pieces(t, Put(w, c), m)
  <2> DEFINE g == [e EXCEPT ![m] = Len(s) + 2]
  <2>1. Counts(g, Breaks(t))
    BY <1>1, <1>11, EndsGrow
  <2>2. f = g
    <3> HIDE DEF g, t
    <3> QED
      BY <1>2, <2>1, EndsAre
  <2>3. g[m] = Len(s) + 2 /\ \A i \in 1 .. m - 1 : g[i] = e[i]
    <3>1. m \in 1 .. m /\ \A i \in 1 .. m - 1 : i \in 1 .. m /\ i # m
      BY <1>1
    <3> QED
      BY <1>3, <3>1
  <2>4. Cardinality(Breaks(t)) = m
    BY <1>1, <1>11, BreaksGrow
  <2>5. Put(w, c) = IF c = LF /\ w.afterCR THEN [w EXCEPT !.afterCR = FALSE]
                    ELSE [w EXCEPT !.left = Append(w.left, c), !.afterCR = FALSE]
    BY <1>11 DEF Put
  <2>6. /\ Put(w, c).lines = w.lines /\ Put(w, c).afterCR = FALSE
        /\ Put(w, c).left = IF c = LF /\ w.afterCR THEN w.left ELSE Append(w.left, c)
    BY <2>5 DEF CutState
  <2> HIDE DEF f, g, t, e
  <2>7. \A i \in 1 .. m - 1 : Line(t, i) = w.lines[i]
    BY <1>8, <2>2, <2>3
  <2>8. /\ From(s, m) \in 1 .. Len(s) + 1
        /\ From(t, m) = IF w.afterCR /\ c = LF THEN Len(s) + 2 ELSE From(s, m)
    BY <1>9, <2>2, <2>3
  <2>9. f[m] - 1 = Len(s) + 1 /\ e[m] - 1 = Len(s)
    BY <1>1, <2>2, <2>3
  <2>10. Line(t, m) = Put(w, c).left
    <3>1. CASE w.afterCR /\ c = LF
      <4>1. Line(t, m) = SubSeq(t, Len(s) + 2, Len(s) + 1)
        BY <2>8, <2>9, <3>1 DEF Line, f
      <4>2. SubSeq(t, Len(s) + 2, Len(s) + 1) = <<>>
        BY <1>1, SubSeqEmpty
      <4> QED
        BY <2>6, <3>1, <4>1, <4>2
    <3>2. CASE ~(w.afterCR /\ c = LF)
      <4>1. Line(t, m) = SubSeq(t, From(s, m), Len(s) + 1)
        BY <2>8, <2>9, <3>2 DEF Line, f
      <4>2. w.left = SubSeq(s, From(s, m), Len(s))
        BY <1>6, <2>9 DEF Line, e
      <4>3. ASSUME NEW a \in 1 .. Len(s) + 1
            PROVE  SubSeq(t, a, Len(s) + 1) = Append(SubSeq(s, a, Len(s)), c)
        BY <1>1 DEF t
      <4>4. SubSeq(t, From(s, m), Len(s) + 1) = Append(w.left, c)
        BY <2>8, <4>2, <4>3
      <4> QED
        BY <2>6, <3>2, <4>1, <4>4
    <3> QED
      BY <3>1, <3>2
  <2>11. f[m] = Len(t) + 1 /\ (m > 1 => f[m - 1] # Len(t))
    <3>1. f[m] = Len(t) + 1
      BY <1>1, <1>2, <2>2, <2>3
    <3>2. ASSUME m > 1 PROVE f[m - 1] # Len(t)
      <4>1. m - 1 \in 1 .. m - 1
        BY <1>1, <3>2
      <4>2. f[m - 1] = e[m - 1] /\ e[m - 1] \in 1 .. Len(s)
        BY <1>4, <2>2, <2>3, <4>1
      <4> QED
        BY <1>1, <1>2, <4>2
    <3> QED
      BY <3>1, <3>2
  <2>12. Counts(Ends(t), Breaks(t))
    BY <2>1, <2>2 DEF f
  <2> QED
    BY <1>1, <2>4, <2>6, <2>7, <2>10, <2>11, <2>12 DEF Pieces, f
<1> QED
  BY <1>10, <1>11

\* The lines of a text are what Cut finds in it in one piece.
LEMMA LinesFound ==
    ASSUME NEW s \in Seq(Char), NEW w, w = Cut(<<>>, s)
    PROVE  LinesOf(s) = IF w.left = <<>> THEN w.lines ELSE Append(w.lines, w.left)
<1> DEFINE T == {u \in Seq(Char) : \E m : Pieces(u, Cut(<<>>, u), m)}
<1>e. <<>> \in Seq(Char)
  OBVIOUS
<1>1. <<>> \in T
  BY <1>e, CutSteps, PiecesStart
<1>2. ASSUME NEW u \in Seq(Char), NEW c \in Char, u \in T PROVE Append(u, c) \in T
  <2>1. PICK m : Pieces(u, Cut(<<>>, u), m)
    BY <1>2
  <2>2. Cut(<<>>, u) \in CutState /\ (Cut(<<>>, u).afterCR => Cut(<<>>, u).left = <<>>)
    BY <1>e, CutTyped, CutAfterCR
  <2>3. Cut(<<>>, Append(u, c)) = Put(Cut(<<>>, u), c)
    BY <1>e, CutSteps
  <2>4. \E n : Pieces(Append(u, c), Put(Cut(<<>>, u), c), n)
    BY <2>1, <2>2, PiecesGrow
  <2>5. Append(u, c) \in Seq(Char)
    OBVIOUS
  <2> QED
    BY <2>3, <2>4, <2>5
<1>3. Seq(Char) \subseteq T
  <2> HIDE DEF T
  <2> QED
    BY <1>1, <1>2, AppendInduction
<1>4. PICK m : Pieces(s, w, m)
  BY <1>3
<1>5. /\ w.lines \in Seq(Seq(Char)) /\ w.left \in Seq(Char)
  BY <1>e, CutTyped DEF CutState
<1>6. /\ m = Len(w.lines) + 1 /\ m \in Nat \ {0}
      /\ Ends(s) \in [1 .. m -> Breaks(s)]
      /\ \A i \in 1 .. m - 1 : Line(s, i) = w.lines[i]
      /\ Line(s, m) = w.left
  BY <1>4, <1>5 DEF Pieces, Counts
<1>7. Len(Ends(s)) = m
  BY <1>6
<1>8. CASE w.left = <<>>
  <2>1. LinesOf(s) = [i \in 1 .. m - 1 |-> Line(s, i)]
    BY <1>6, <1>7, <1>8 DEF LinesOf
  <2>2. w.lines = [i \in 1 .. m - 1 |-> w.lines[i]]
    <3>1. ASSUME NEW L \in Seq(Seq(Char)), m = Len(L) + 1
          PROVE  L = [i \in 1 .. m - 1 |-> L[i]]
      BY <3>1
    <3> QED
      BY <1>5, <1>6, <3>1
  <2> QED
    BY <1>6, <1>8, <2>1, <2>2
<1>9. CASE w.left # <<>>
  <2> DEFINE L == Append(w.lines, w.left)
  <2>1. LinesOf(s) = [i \in 1 .. m |-> Line(s, i)]
    BY <1>6, <1>7, <1>9 DEF LinesOf
  <2>2. /\ L = [i \in 1 .. m |-> L[i]] /\ L[m] = w.left
        /\ \A i \in 1 .. m - 1 : L[i] = w.lines[i]
    BY <1>5, <1>6
  <2> HIDE DEF L
  <2>3. \A i \in 1 .. m : i \in 1 .. m - 1 \/ i = m
    BY <1>6
  <2>4. \A i \in 1 .. m : L[i] = Line(s, i)
    BY <1>6, <2>2, <2>3
  <2>5. LinesOf(s) = L
    BY <2>1, <2>2, <2>4
  <2> QED
    BY <1>9, <2>5 DEF L
<1> QED
  BY <1>8, <1>9

-----------------------------------------------------------------------------
(***************************************************************************)
(* A text cut in chunks against the same text in one piece: torn line ends *)
(* are all that can differ.  `apart' says whether a chunk ended at a       *)
(* carriage return.                                                        *)
(***************************************************************************)
Near(i, a, b, apart) == a = b \/ (apart /\ i > 1 /\ a = <<LF>> \o b)
NearLines(p, lines, apart) ==
    Len(p) = Len(lines) /\ \A i \in 1 .. Len(p) : Near(i, p[i], lines[i], apart)
Agrees(p, l, w, apart) ==
    /\ NearLines(p, w.lines, apart)
    /\ Near(Len(p) + 1, l, w.left, apart)
    /\ w.afterCR => apart /\ l = <<>>

\* The same in the midst of a chunk, when p was printed before it.
Follow(p, k, w, apart) ==
    /\ NearLines(p \o k.lines, w.lines, apart)
    /\ Near(Len(p \o k.lines) + 1, k.left, w.left, apart)
    /\ k.afterCR => w.afterCR
    /\ w.afterCR => k.left = <<>> /\ w.left = <<>> /\ w.lines # <<>>
    /\ w.afterCR /\ ~k.afterCR => apart

\* A torn line end stays torn when the line goes on.
LEMMA NearAppend ==
    ASSUME NEW i, NEW a \in Seq(Char), NEW b \in Seq(Char), NEW c \in Char, NEW apart,
           Near(i, a, b, apart)
    PROVE  Near(i, Append(a, c), Append(b, c), apart)
<1>1. <<LF>> \in Seq(Char)
  BY DEF Char
<1>2. <<LF>> \o Append(b, c) = Append(<<LF>> \o b, c)
  BY <1>1, ConcatAppend
<1> QED
  BY <1>2 DEF Near

\* One more line on either side.
LEMMA NearLinesAppend ==
    ASSUME NEW p \in Seq(Seq(Char)), NEW lines \in Seq(Seq(Char)),
           NEW a \in Seq(Char), NEW b \in Seq(Char), NEW apart,
           NearLines(p, lines, apart), Near(Len(p) + 1, a, b, apart)
    PROVE  NearLines(Append(p, a), Append(lines, b), apart)
<1>1. /\ Len(Append(p, a)) = Len(p) + 1 /\ Append(p, a)[Len(p) + 1] = a /\ Len(p) \in Nat
      /\ \A i \in 1 .. Len(p) : Append(p, a)[i] = p[i]
  BY AppendProperties, LenProperties
<1>2. /\ Len(Append(lines, b)) = Len(lines) + 1 /\ Append(lines, b)[Len(lines) + 1] = b
      /\ \A i \in 1 .. Len(lines) : Append(lines, b)[i] = lines[i]
  BY AppendProperties, LenProperties
<1>3. Len(p) = Len(lines) /\ \A i \in 1 .. Len(p) : Near(i, p[i], lines[i], apart)
  BY DEF NearLines
<1>4. ASSUME NEW i \in 1 .. Len(p) + 1
      PROVE  Near(i, Append(p, a)[i], Append(lines, b)[i], apart)
  <2>1. CASE i \in 1 .. Len(p)
    BY <1>1, <1>2, <1>3, <2>1
  <2>2. CASE i = Len(p) + 1
    BY <1>1, <1>2, <1>3, <2>2
  <2>3. i \in 1 .. Len(p) \/ i = Len(p) + 1
    BY <1>1
  <2> QED
    BY <2>1, <2>2, <2>3
<1> QED
  BY <1>1, <1>2, <1>3, <1>4 DEF NearLines

\* The same character put to the chunk and to the whole text.
LEMMA PutFollows ==
    ASSUME NEW p \in Seq(Seq(Char)), NEW k \in CutState, NEW w \in CutState, NEW apart,
           NEW c \in Char, Follow(p, k, w, apart)
    PROVE  Follow(p, Put(k, c), Put(w, c), apart)
<1>1. /\ k.lines \in Seq(Seq(Char)) /\ k.left \in Seq(Char) /\ k.afterCR \in BOOLEAN
      /\ w.lines \in Seq(Seq(Char)) /\ w.left \in Seq(Char) /\ w.afterCR \in BOOLEAN
  BY DEF CutState
<1> DEFINE r == p \o k.lines
<1>2. r \in Seq(Seq(Char)) /\ Len(r) \in Nat
  BY <1>1
<1>3. p \o Append(k.lines, k.left) = Append(r, k.left)
  BY <1>1, ConcatAppend
<1>4. /\ NearLines(r, w.lines, apart) /\ Near(Len(r) + 1, k.left, w.left, apart)
      /\ k.afterCR => w.afterCR
      /\ w.afterCR => k.left = <<>> /\ w.left = <<>> /\ w.lines # <<>>
      /\ w.afterCR /\ ~k.afterCR => apart
  BY DEF Follow
<1> HIDE DEF r
<1>5. CASE c = CR
  <2>1. /\ Put(k, c) = [lines |-> Append(k.lines, k.left), left |-> <<>>, afterCR |-> TRUE]
        /\ Put(w, c) = [lines |-> Append(w.lines, w.left), left |-> <<>>, afterCR |-> TRUE]
    BY <1>5 DEF Put
  <2>2. /\ Put(w, c).lines = Append(w.lines, w.left)
        /\ Put(k, c).left = <<>> /\ Put(w, c).left = <<>>
        /\ Put(k, c).afterCR = TRUE /\ Put(w, c).afterCR = TRUE
    BY <2>1
  <2>6. Put(k, c).lines = Append(k.lines, k.left)
    BY <2>1
  <2>7. p \o Put(k, c).lines = Append(r, k.left)
    BY <1>3, <2>6
  <2>3. NearLines(Append(r, k.left), Append(w.lines, w.left), apart)
    BY <1>1, <1>2, <1>4, NearLinesAppend
  <2>8. ASSUME NEW a \in Seq(Seq(Char)), NEW b \in Seq(Char) PROVE Append(a, b) # <<>>
    BY AppendProperties
  <2>4. Append(w.lines, w.left) # <<>>
    BY <1>1, <2>8
  <2>5. \A i : Near(i, <<>>, <<>>, apart)
    BY DEF Near
  <2> QED
    BY <2>2, <2>3, <2>4, <2>5, <2>7 DEF Follow
<1>6. CASE c # CR
  <2>1. /\ Put(k, c).lines = k.lines /\ Put(w, c).lines = w.lines
        /\ Put(k, c).afterCR = FALSE /\ Put(w, c).afterCR = FALSE
        /\ Put(k, c).left = IF c = LF /\ k.afterCR THEN k.left ELSE Append(k.left, c)
        /\ Put(w, c).left = IF c = LF /\ w.afterCR THEN w.left ELSE Append(w.left, c)
    BY <1>6 DEF Put, CutState
  <2>2. Near(Len(r) + 1, Put(k, c).left, Put(w, c).left, apart)
    <3>1. CASE c = LF /\ k.afterCR
      BY <1>4, <2>1, <3>1
    <3>2. CASE c = LF /\ w.afterCR /\ ~k.afterCR
      <4>1. Put(k, c).left = Append(<<>>, LF) /\ Put(w, c).left = <<>> /\ apart
        BY <1>4, <2>1, <3>2
      <4>2. Append(<<>>, LF) = <<LF>> \o <<>>
        OBVIOUS
      <4>3. Len(r) + 1 > 1
        <5>1. Len(r) = Len(w.lines) /\ Len(w.lines) # 0
          BY <1>1, <1>4, <3>2 DEF NearLines
        <5> QED
          BY <1>2, <5>1
      <4> QED
        BY <4>1, <4>2, <4>3 DEF Near
    <3>3. CASE ~(c = LF /\ w.afterCR)
      <4>1. ~(c = LF /\ k.afterCR)
        BY <1>4, <3>3
      <4> QED
        BY <1>1, <1>4, <2>1, <3>3, <4>1, NearAppend
    <3> QED
      BY <1>1, <3>1, <3>2, <3>3
  <2> QED
    BY <1>4, <2>1, <2>2 DEF Follow, r
<1> QED
  BY <1>5, <1>6

\* A chunk cut behind what was cut before agrees with the whole text cut at
\* once.
LEMMA CutAgrees ==
    ASSUME NEW p \in Seq(Seq(Char)), NEW l \in Seq(Char), NEW apart,
           NEW before \in Seq(Char), NEW chunk \in Seq(Char), chunk # <<>>,
           Agrees(p, l, Cut(<<>>, before), apart)
    PROVE  Agrees(p \o Cut(l, chunk).lines, Cut(l, chunk).left, Cut(<<>>, before \o chunk),
                  apart \/ Last(chunk) = CR)
<1> DEFINE T == {s \in Seq(Char) : Follow(p, Cut(l, s), Cut(<<>>, before \o s), apart)}
<1>e. <<>> \in Seq(Char)
  OBVIOUS
<1>1. <<>> \in T
  <2>1. Cut(l, <<>>) = Open(l) /\ before \o <<>> = before
    BY CutSteps
  <2>2. Open(l).lines = <<>> /\ Open(l).left = l /\ Open(l).afterCR = FALSE /\ p \o <<>> = p
    BY DEF Open
  <2>3. Cut(<<>>, before).afterCR =>
           Cut(<<>>, before).left = <<>> /\ Cut(<<>>, before).lines # <<>>
    BY <1>e, CutAfterCR
  <2>4. Follow(p, Open(l), Cut(<<>>, before), apart)
    BY <2>2, <2>3 DEF Agrees, Follow
  <2> QED
    BY <1>e, <2>1, <2>4
<1>2. ASSUME NEW s \in Seq(Char), NEW c \in Char, s \in T PROVE Append(s, c) \in T
  <2>1. before \o Append(s, c) = Append(before \o s, c) /\ before \o s \in Seq(Char)
    BY ConcatAppend
  <2>8. ASSUME NEW u \in Seq(Char) PROVE Cut(<<>>, Append(u, c)) = Put(Cut(<<>>, u), c)
    BY <1>e, CutSteps
  <2>2. Cut(<<>>, before \o Append(s, c)) = Put(Cut(<<>>, before \o s), c)
    BY <2>1, <2>8
  <2>3. Cut(l, Append(s, c)) = Put(Cut(l, s), c)
    BY CutSteps
  <2>4. Cut(l, s) \in CutState /\ Cut(<<>>, before \o s) \in CutState
    BY <1>e, <2>1, CutTyped
  <2>5. Follow(p, Cut(l, s), Cut(<<>>, before \o s), apart)
    BY <1>2
  <2>6. Follow(p, Put(Cut(l, s), c), Put(Cut(<<>>, before \o s), c), apart)
    BY <2>4, <2>5, PutFollows
  <2>7. Append(s, c) \in Seq(Char)
    OBVIOUS
  <2> QED
    BY <2>2, <2>3, <2>6, <2>7
<1>3. Seq(Char) \subseteq T
  <2> HIDE DEF T
  <2> QED
    BY <1>1, <1>2, AppendInduction
<1>4. Follow(p, Cut(l, chunk), Cut(<<>>, before \o chunk), apart)
  BY <1>3
<1>5. before \o chunk \in Seq(Char) /\ Last(before \o chunk) = Last(chunk)
  BY DEF Last
<1>6. Cut(<<>>, before \o chunk).afterCR => Last(chunk) = CR
  BY <1>e, <1>5, CutAfterCR
<1>7. \A i, a, b : Near(i, a, b, apart) => Near(i, a, b, apart \/ Last(chunk) = CR)
  BY DEF Near
<1> QED
  BY <1>4, <1>6, <1>7 DEF Follow, Agrees, NearLines

(***************************************************************************)
(* At the end of the output what is left over becomes the last line: the   *)
(* lines are then those of the whole text, up to torn line ends.           *)
(***************************************************************************)
LEMMA LinesAtEnd ==
    ASSUME NEW p \in Seq(Seq(Char)), NEW l \in Seq(Char), NEW s \in Seq(Char), NEW apart,
           Agrees(p, l, Cut(<<>>, s), apart),
           NEW f, f = IF l = <<>> THEN p ELSE Append(p, l)
    PROVE  f = LinesOf(s) \/ (apart /\ SameUpToTornEnds(f, LinesOf(s)))
<1> DEFINE w == Cut(<<>>, s)
           lines == w.lines
           left == w.left
<1>1. w \in CutState
  <2>1. <<>> \in Seq(Char)
    OBVIOUS
  <2> QED
    BY <2>1, CutTyped
<1>2. lines \in Seq(Seq(Char)) /\ left \in Seq(Char)
  BY <1>1 DEF CutState
<1>3. LinesOf(s) = IF left = <<>> THEN lines ELSE Append(lines, left)
  BY LinesFound
<1>4. NearLines(p, lines, apart) /\ Near(Len(p) + 1, l, left, apart)
  BY DEF Agrees
<1> HIDE DEF w, lines, left
<1>5. CASE ~apart
  <2>1. l = left
    BY <1>4, <1>5 DEF Near
  <2>2. Len(p) = Len(lines) /\ \A i \in 1 .. Len(p) : p[i] = lines[i]
    BY <1>4, <1>5 DEF NearLines, Near
  <2>3. p = lines
    BY <1>2, <2>2, SeqEqual
  <2> QED
    BY <1>3, <2>1, <2>3
<1>6. ASSUME apart, NEW a \in Seq(Seq(Char)), NEW b \in Seq(Seq(Char)), NearLines(a, b, apart)
      PROVE  SameUpToTornEnds(a, b)
  <2>1. DOMAIN b = 1 .. Len(b) /\ Len(a) = Len(b)
    BY <1>6 DEF NearLines
  <2> QED
    BY <1>6, <2>1 DEF NearLines, Near, SameUpToTornEnds
<1>7. CASE apart /\ left = <<>> /\ l = <<>>
  BY <1>2, <1>3, <1>4, <1>6, <1>7
<1>8. CASE apart /\ left = <<>> /\ l # <<>>
  <2>1. l = <<LF>>
    <3>1. l = <<LF>> \o <<>>
      BY <1>4, <1>8 DEF Near
    <3>2. <<LF>> \in Seq(Char)
      BY DEF Char
    <3> QED
      BY <3>1, <3>2
  <2>2. /\ Len(Append(p, l)) = Len(p) + 1 /\ Append(p, l)[Len(p) + 1] = l
        /\ \A i \in 1 .. Len(p) : Append(p, l)[i] = p[i]
    BY AppendProperties
  <2>3. Last(Append(p, l)) = <<LF>>
    BY <2>1, <2>2 DEF Last
  <2>4. Len(p) = Len(lines) /\ DOMAIN lines = 1 .. Len(lines)
    BY <1>2, <1>4 DEF NearLines
  <2>5. \A i \in DOMAIN lines :
           Append(p, l)[i] = lines[i] \/ (i > 1 /\ Append(p, l)[i] = <<LF>> \o lines[i])
    BY <1>4, <2>2, <2>4 DEF NearLines, Near
  <2>6. SameUpToTornEnds(Append(p, l), lines)
    BY <2>2, <2>3, <2>4, <2>5 DEF SameUpToTornEnds
  <2> QED
    BY <1>3, <1>8, <2>6
<1>9. CASE apart /\ left # <<>>
  <2>1. l # <<>>
    <3>1. l = left \/ l = <<LF>> \o left
      BY <1>4 DEF Near
    <3>2. <<LF>> \in Seq(Char)
      BY DEF Char
    <3>3. ASSUME NEW a \in Seq(Char), NEW b \in Seq(Char), b # <<>> PROVE a \o b # <<>>
      BY <3>3
    <3> QED
      BY <1>2, <1>9, <3>1, <3>2, <3>3
  <2>2. NearLines(Append(p, l), Append(lines, left), apart)
    BY <1>2, <1>4, NearLinesAppend
  <2>3. Append(p, l) \in Seq(Seq(Char)) /\ Append(lines, left) \in Seq(Seq(Char))
    BY <1>2
  <2> QED
    BY <1>3, <1>6, <1>9, <2>1, <2>2, <2>3
<1> QED
  BY <1>5, <1>7, <1>8, <1>9

\* Concatenation of texts is associative.
LEMMA RegroupTexts ==
    ASSUME NEW x \in Seq(Char), NEW y \in Seq(Char), NEW z \in Seq(Char)
    PROVE  x \o (y \o z) = (x \o y) \o z
BY ConcatAssociative, SMTT(30)

Plain(s) == Without(s, LineEnd)

\* Leaving out the line ends, part by part.
LEMMA PlainConcat ==
    ASSUME NEW s \in Seq(Char), NEW t \in Seq(Char)
    PROVE  Plain(s) \in Seq(Char) /\ Plain(s \o t) = Plain(s) \o Plain(t)
BY WithoutConcat DEF Plain

\* What is put behind a text makes it longer and keeps it as a prefix.
LEMMA Grow ==
    ASSUME NEW s \in Seq(Char), NEW t \in Seq(Char)
    PROVE  IsPrefix(s, s \o t) /\ (t # <<>> => Len(s) < Len(s \o t))
<1>1. /\ s \o t \in Seq(Char) /\ Len(s \o t) = Len(s) + Len(t)
      /\ Len(s) \in Nat /\ Len(t) \in Nat
  BY Regroup
<1>2. SubSeq(s, 1, Len(s)) = s
  BY SubSeqFull
<1>3. SubSeq(s \o t, 1, Len(s)) = s
  <2>1. SubSeq(s \o t, 1, Len(s \o t)) = s \o t
    BY <1>1, SubSeqFull
  <2>2. Len(s \o t) \in 0 .. Len(s \o t)
    BY <1>1
  <2> QED
    BY <1>1, <2>1, <2>2, PrefixOf
<1>4. t # <<>> => Len(t) # 0
  OBVIOUS
<1> QED
  BY <1>1, <1>2, <1>3, <1>4 DEF IsPrefix

\* The same, with two things put behind it.
LEMMA GrowTwice ==
    ASSUME NEW a \in Seq(Char), NEW b \in Seq(Char), NEW c \in Seq(Char)
    PROVE  IsPrefix(a, (a \o b) \o c)
<1>1. (a \o b) \o c = a \o (b \o c)
  BY Regroup
<1>2. b \o c \in Seq(Char)
  OBVIOUS
<1> QED
  BY <1>1, <1>2, Grow

(***************************************************************************)
(* What is shown is a prefix of what was written: with what is left over   *)
(* it is what was taken, and the rest of the text is on its way.           *)
(***************************************************************************)
LEMMA ShownFirst ==
    ASSUME NEW shown \in Seq(Char), NEW left \in Seq(Char), NEW taken \in Seq(Char),
           NEW stock \in Seq(Char), Plain(shown \o left) = Plain(taken)
    PROVE  /\ IsPrefix(Plain(shown), Plain(taken \o stock))
           /\ left = <<>> /\ stock = <<>> => Plain(taken \o stock) = Plain(shown)
<1> DEFINE a == Plain(shown)
           b == Plain(left)
           c == Plain(stock)
<1>1. a \in Seq(Char) /\ b \in Seq(Char) /\ c \in Seq(Char)
  BY PlainConcat
<1>2. Plain(taken \o stock) = Plain(taken) \o c
  BY PlainConcat
<1>3. Plain(shown \o left) = a \o b
  BY PlainConcat
<1> HIDE DEF a, b, c
<1>5. Plain(taken \o stock) = (a \o b) \o c
  BY <1>2, <1>3
<1>6. IsPrefix(a, Plain(taken \o stock))
  BY <1>1, <1>5, GrowTwice
<1>7. ASSUME left = <<>>, stock = <<>> PROVE Plain(taken \o stock) = a
  <2>1. shown \o <<>> = shown /\ taken \o <<>> = taken
    OBVIOUS
  <2> QED
    BY <1>7, <2>1 DEF a
<1> QED
  BY <1>6, <1>7 DEF a

-----------------------------------------------------------------------------
Typed ==
    /\ TypeOK
    /\ text \in [Process -> Seq(Char)]
    /\ sent \in [Process -> Nat]
    /\ pipe \in [Process -> Seq(Char)] /\ buffer \in [Process -> Seq(Char)]

\* Whom the dispatcher looks at, and what it knows of a process by its handle.
RoundInv ==
    /\ round.todo \subseteq Running /\ round.waiting \subseteq Running
    /\ round.todo \cap round.waiting = {}
    /\ pc \in {"poll", "read", "broken"} =>
          cur \in Running \ (round.todo \cup round.waiting)

HandleInv ==
    \A q \in Process :
        /\ job[q] = "new" => child[q] = "none"
        /\ job[q] = "running" =>
              /\ child[q] \in {"live", "ended", "never"}
              /\ handle[q] \in {"open", "null"}
              /\ handle[q] = "null" <=> child[q] = "never"

\* The outstanding read, its event, and what the pipe may hold meanwhile.
ReadInv ==
    /\ \A q \in Process :
          /\ io[q] = "idle" => ~bWaiting[q] /\ q \notin round.waiting
          /\ job[q] = "new" => io[q] = "idle"
          /\ job[q] = "running" /\ ~bWaiting[q] => io[q] = "idle"
          /\ io[q] = "pending" => ~event[q] /\ pipe[q] = <<>> /\ out[q]
          /\ io[q] \in {"complete", "broken"} => event[q]
    /\ pc = "poll" => bWaiting[cur]
    /\ pc = "read" => ~bWaiting[cur]

IInv == Typed /\ RoundInv /\ HandleInv /\ ReadInv /\ ExitCodeTrue

-----------------------------------------------------------------------------
(***************************************************************************)
(* The types; a write puts into the buffer what an outstanding read asked  *)
(* for and the rest into the pipe, so neither overflows.                   *)
(***************************************************************************)
LEMMA TypedStep ==
    ASSUME Typed, RoundInv, ReadInv, [Next]_vars
    PROVE  Typed'
<1>0. CASE UNCHANGED vars
  BY <1>0 DEF vars, inputVars, childVars, structVars, lineVars, prestoVars,
       Typed, TypeOK, RoundInv, Running
<1>1. ASSUME NEW q \in Process, Spawn(q) PROVE Typed'
  BY <1>1 DEF Spawn, Spawned, inputVars, lineVars, Typed, TypeOK, RoundInv,
       Running
<1>2. ASSUME NEW q \in Process, SpawnRaises(q) PROVE Typed'
  BY <1>2 DEF SpawnRaises, inputVars, childVars, structVars, lineVars, Typed,
       TypeOK, RoundInv, Running
<1>3. ASSUME NEW q \in Process, Resume(q) PROVE Typed'
  BY <1>3 DEF Resume, inputVars, childVars, structVars, lineVars, Typed,
       TypeOK, RoundInv, Running
<1>4. CASE BeginRound
  BY <1>4 DEF BeginRound, inputVars, childVars, structVars, lineVars, Typed,
       TypeOK, RoundInv, Running
<1>5. CASE EndRound
  BY <1>5 DEF EndRound, inputVars, childVars, structVars, lineVars, Typed,
       TypeOK, RoundInv, Running
<1>6. CASE WaitReturns
  BY <1>6 DEF WaitReturns, inputVars, childVars, structVars, lineVars, Typed,
       TypeOK, RoundInv, Running
<1>7. CASE PollPending
  BY <1>7 DEF PollPending, Yield, inputVars, childVars, structVars, lineVars,
       Typed, TypeOK, RoundInv, Running
<1>8. CASE PollData
  <2>1. /\ buffer' \in [Process -> Seq(Char)]
        /\ io' \in [Process -> {"idle", "pending", "complete", "broken"}]
        /\ bWaiting' \in [Process -> BOOLEAN]
    BY <1>8 DEF PollData, Typed, TypeOK
  <2>2. \A q \in Process : Len(buffer'[q]) <= BufferSize
    BY <1>8, ProcAssumption DEF PollData, Typed, TypeOK
  <2>3. \A q \in Process : io'[q] = "complete" <=> buffer'[q] # <<>>
    BY <1>8 DEF PollData, Typed, TypeOK
  <2>4. UNCHANGED <<text, child, code, out, sent, pipe, event, handle, exitCode, job,
                    cur, round>>
    BY <1>8 DEF PollData, inputVars, childVars
  <2>5. pc' = "read"
    BY <1>8 DEF PollData
  <2> QED
    BY <2>1, <2>2, <2>3, <2>4, <2>5 DEF Typed, TypeOK
<1>9. CASE PollBroken
  BY <1>9 DEF PollBroken, inputVars, childVars, structVars, lineVars, Typed,
       TypeOK, RoundInv, Running
<1>10. CASE ReadData
  <2> DEFINE m == Shorter(BufferSize, Len(pipe[cur]))
  <2>1. cur \in Process /\ pipe[cur] \in Seq(Char) /\ pipe[cur] # <<>>
    BY <1>10 DEF ReadData, Typed, TypeOK
  <2>2. m \in 1 .. Len(pipe[cur])
    BY <2>1, ProcAssumption DEF Shorter
  <2>3. pipe' = [pipe EXCEPT ![cur] = SubSeq(pipe[cur], m + 1, Len(pipe[cur]))]
    BY <1>10 DEF ReadData
  <2> HIDE DEF m
  <2>4. /\ SubSeq(pipe[cur], m + 1, Len(pipe[cur])) \in Seq(Char)
        /\ Len(SubSeq(pipe[cur], m + 1, Len(pipe[cur]))) <= Len(pipe[cur])
    BY <2>1, <2>2
  <2>5. pipe' \in [Process -> Seq(Char)] /\ \A q \in Process : Len(pipe'[q]) <= PipeSize
    BY <2>1, <2>3, <2>4, ProcAssumption DEF Typed, TypeOK
  <2>6. event' \in [Process -> BOOLEAN]
    BY <1>10 DEF ReadData, Typed, TypeOK
  <2>7. UNCHANGED <<text, child, code, out, sent, io, buffer, handle, bWaiting,
                    exitCode, job, pc, cur, round>>
    BY <1>10 DEF ReadData, inputVars, childVars, structVars
  <2> QED
    BY <2>5, <2>6, <2>7 DEF Typed, TypeOK
<1>11. CASE ReadPending
  <2>1. io[cur] = "idle" /\ cur \in Process
    BY <1>11 DEF ReadPending, Typed, TypeOK, RoundInv, Running, ReadInv
  <2>2. /\ io' \in [Process -> {"idle", "pending", "complete", "broken"}]
        /\ event' \in [Process -> BOOLEAN] /\ bWaiting' \in [Process -> BOOLEAN]
    BY <1>11 DEF ReadPending, SetWaiting, Typed, TypeOK
  <2>3. \A q \in Process : io'[q] = "complete" <=> buffer'[q] # <<>>
    BY <1>11, <2>1 DEF ReadPending, Typed, TypeOK
  <2>4. pc' = "round" /\ round' \in [todo : SUBSET Process, waiting : SUBSET Process]
    BY <1>11 DEF ReadPending, Yield, Typed, TypeOK
  <2>5. UNCHANGED <<text, child, code, out, sent, pipe, buffer, handle, exitCode,
                    job, cur>>
    BY <1>11 DEF ReadPending, inputVars, childVars
  <2> QED
    BY <2>2, <2>3, <2>4, <2>5 DEF Typed, TypeOK
<1>12. CASE ReadBroken
  BY <1>12 DEF ReadBroken, inputVars, childVars, structVars, lineVars, Typed,
       TypeOK, RoundInv, Running
<1>13. CASE Finish
  <2>1. CodeRead \in Codes
    BY ProcAssumption DEF CodeRead, Typed, TypeOK
  <2>2. /\ exitCode' \in [Process -> Codes]
        /\ handle' \in [Process -> {"none", "open", "null", "closed"}]
        /\ bWaiting' \in [Process -> BOOLEAN]
        /\ job' \in [Process -> {"new", "running", "ok", "failed"}]
    BY <1>13, <2>1 DEF Finish, Typed, TypeOK
  <2>3. pc' = "round"
    BY <1>13 DEF Finish
  <2>4. UNCHANGED <<text, child, code, out, sent, pipe, io, event, buffer, cur, round>>
    BY <1>13 DEF Finish, inputVars, childVars
  <2> QED
    BY <2>2, <2>3, <2>4 DEF Typed, TypeOK
<1>14. ASSUME NEW q \in Process, NEW n \in 1 .. Len(text[q]), Write(q, n) PROVE Typed'
  <2> DEFINE piece == SubSeq(text[q], sent[q] + 1, sent[q] + n)
             taken == IF io[q] = "pending" THEN Shorter(BufferSize, n) ELSE 0
             rest == SubSeq(piece, taken + 1, n)
  <2>1. /\ text[q] \in Seq(Char) /\ sent[q] \in Nat /\ n \in Nat \ {0}
        /\ sent[q] + n <= Len(text[q]) /\ pipe[q] \in Seq(Char)
    BY <1>14 DEF Write, Typed
  <2>2. piece \in Seq(Char) /\ Len(piece) = n
    BY <2>1
  <2>3. /\ taken \in 0 .. n
        /\ io[q] = "pending" => taken \in 1 .. n /\ taken <= BufferSize
    BY <2>1, ProcAssumption DEF Shorter
  <2>4. /\ sent' = [sent EXCEPT ![q] = sent[q] + n]
        /\ pipe' = [pipe EXCEPT ![q] = pipe[q] \o rest]
        /\ Len(pipe[q]) + n - taken <= PipeSize
    BY <1>14 DEF Write
  <2>5. IF io[q] = "pending"
        THEN /\ io' = [io EXCEPT ![q] = "complete"]
             /\ event' = [event EXCEPT ![q] = TRUE]
             /\ buffer' = [buffer EXCEPT ![q] = SubSeq(piece, 1, taken)]
        ELSE UNCHANGED <<io, event, buffer>>
    BY <1>14 DEF Write
  <2>6. UNCHANGED <<text, child, code, out, handle, bWaiting, exitCode, job, pc, cur,
                    round>>
    BY <1>14 DEF Write, inputVars, structVars, prestoVars
  <2> HIDE DEF piece, taken
  <2>7. rest \in Seq(Char) /\ Len(rest) = n - taken
    BY <2>1, <2>2, <2>3
  <2>8. io[q] = "pending" =>
           LET front == SubSeq(piece, 1, taken)
           IN  front \in Seq(Char) /\ Len(front) = taken /\ front # <<>>
    BY <2>1, <2>2, <2>3
  <2> HIDE DEF rest
  <2>9. pipe[q] \o rest \in Seq(Char) /\ Len(pipe[q] \o rest) <= PipeSize
    BY <2>1, <2>3, <2>4, <2>7, ProcAssumption
  <2>10. pipe' \in [Process -> Seq(Char)] /\ \A r \in Process : Len(pipe'[r]) <= PipeSize
    BY <2>4, <2>9 DEF Typed, TypeOK
  <2>11. /\ sent' \in [Process -> Nat]
         /\ \A r \in Process : sent'[r] \in 0 .. Len(text[r])
    BY <2>1, <2>4 DEF Typed, TypeOK
  <2>12. /\ event' \in [Process -> BOOLEAN]
         /\ io' \in [Process -> {"idle", "pending", "complete", "broken"}]
    BY <2>5 DEF Typed, TypeOK
  <2>13. buffer' \in [Process -> Seq(Char)]
    BY <2>5, <2>8 DEF Typed, TypeOK
  <2>14. \A r \in Process : Len(buffer'[r]) <= BufferSize
    <3>1. CASE io[q] = "pending"
      <4>1. buffer' = [buffer EXCEPT ![q] = SubSeq(piece, 1, taken)]
        BY <3>1, <2>5
      <4>2. Len(SubSeq(piece, 1, taken)) <= BufferSize
        BY <3>1, <2>3, <2>8
      <4> QED
        BY <4>1, <4>2 DEF Typed, TypeOK
    <3>2. CASE io[q] # "pending"
      BY <3>2, <2>5 DEF Typed, TypeOK
    <3> QED
      BY <3>1, <3>2
  <2>15. \A r \in Process : io'[r] = "complete" <=> buffer'[r] # <<>>
    <3>1. CASE io[q] = "pending"
      <4>1. /\ io' = [io EXCEPT ![q] = "complete"]
            /\ buffer' = [buffer EXCEPT ![q] = SubSeq(piece, 1, taken)]
        BY <3>1, <2>5
      <4>2. SubSeq(piece, 1, taken) # <<>>
        BY <3>1, <2>8
      <4> QED
        BY <4>1, <4>2 DEF Typed, TypeOK
    <3>2. CASE io[q] # "pending"
      BY <3>2, <2>5 DEF Typed, TypeOK
    <3> QED
      BY <3>1, <3>2
  <2> QED
    BY <2>6, <2>10, <2>11, <2>12, <2>13, <2>14, <2>15 DEF Typed, TypeOK
<1>15. ASSUME NEW q \in Process, CloseOutput(q) PROVE Typed'
  <2>1. /\ out' \in [Process -> BOOLEAN] /\ event' \in [Process -> BOOLEAN]
        /\ io' \in [Process -> {"idle", "pending", "complete", "broken"}]
    BY <1>15 DEF CloseOutput, Typed, TypeOK
  <2>2. \A r \in Process : io'[r] = "complete" <=> io[r] = "complete"
    BY <1>15 DEF CloseOutput, Typed, TypeOK
  <2>3. UNCHANGED <<text, child, code, sent, pipe, buffer, handle, bWaiting, exitCode,
                    job, pc, cur, round>>
    BY <1>15 DEF CloseOutput, inputVars, structVars, prestoVars
  <2> QED
    BY <2>1, <2>2, <2>3 DEF Typed, TypeOK
<1>16. ASSUME NEW q \in Process, End(q) PROVE Typed'
  <2>1. code' \in [Process -> Codes]
    BY <1>16 DEF End, Typed, TypeOK
  <2>2. child' \in [Process -> {"none", "live", "ended", "never"}]
    BY <1>16 DEF End, Typed, TypeOK
  <2>3. UNCHANGED <<text, out, sent, pipe, io, event, buffer, handle, bWaiting,
                    exitCode, job, pc, cur, round>>
    BY <1>16 DEF End, inputVars, structVars, prestoVars
  <2> QED
    BY <2>1, <2>2, <2>3 DEF Typed, TypeOK
<1>17. CASE Terminated
  BY <1>17 DEF Terminated, vars, inputVars, childVars, structVars, lineVars,
       prestoVars, Typed, TypeOK, RoundInv, Running
<1> QED
  BY <1>0, <1>1, <1>2, <1>3, <1>4, <1>5, <1>6, <1>7, <1>8, <1>9,
     <1>10, <1>11, <1>12, <1>13, <1>14, <1>15, <1>16, <1>17
  DEF Next, Presto, Children, Writes

(***************************************************************************)
(* A round looks at each running job once, and a job that is waited for    *)
(* runs.                                                                   *)
(***************************************************************************)
LEMMA RoundStep ==
    ASSUME Typed, RoundInv, [Next]_vars
    PROVE  RoundInv'
<1>0. CASE UNCHANGED vars
  BY <1>0 DEF vars, inputVars, childVars, structVars, lineVars, prestoVars,
       Typed, TypeOK, RoundInv, Running
<1>1. ASSUME NEW q \in Process, Spawn(q) PROVE RoundInv'
  BY <1>1 DEF Spawn, Spawned, inputVars, lineVars, Typed, TypeOK, RoundInv,
       Running
<1>2. ASSUME NEW q \in Process, SpawnRaises(q) PROVE RoundInv'
  BY <1>2 DEF SpawnRaises, inputVars, childVars, structVars, lineVars, Typed,
       TypeOK, RoundInv, Running
<1>3. ASSUME NEW q \in Process, Resume(q) PROVE RoundInv'
  BY <1>3 DEF Resume, inputVars, childVars, structVars, lineVars, Typed,
       TypeOK, RoundInv, Running
<1>4. CASE BeginRound
  BY <1>4 DEF BeginRound, inputVars, childVars, structVars, lineVars, Typed,
       TypeOK, RoundInv, Running
<1>5. CASE EndRound
  BY <1>5 DEF EndRound, inputVars, childVars, structVars, lineVars, Typed,
       TypeOK, RoundInv, Running
<1>6. CASE WaitReturns
  BY <1>6 DEF WaitReturns, inputVars, childVars, structVars, lineVars, Typed,
       TypeOK, RoundInv, Running
<1>7. CASE PollPending
  BY <1>7 DEF PollPending, Yield, inputVars, childVars, structVars, lineVars,
       Typed, TypeOK, RoundInv, Running
<1>8. CASE PollData
  BY <1>8 DEF PollData, Feed, inputVars, childVars, Typed, TypeOK, RoundInv,
       Running
<1>9. CASE PollBroken
  BY <1>9 DEF PollBroken, inputVars, childVars, structVars, lineVars, Typed,
       TypeOK, RoundInv, Running
<1>10. CASE ReadData
  BY <1>10 DEF ReadData, Feed, Shorter, inputVars, childVars, structVars,
       Typed, TypeOK, RoundInv, Running
<1>11. CASE ReadPending
  BY <1>11 DEF ReadPending, SetWaiting, Yield, inputVars, childVars, lineVars,
       Typed, TypeOK, RoundInv, Running
<1>12. CASE ReadBroken
  BY <1>12 DEF ReadBroken, inputVars, childVars, structVars, lineVars, Typed,
       TypeOK, RoundInv, Running
<1>13. CASE Finish
  BY <1>13 DEF Finish, ProcessGone, PrintRest, CodeRead, Ended, inputVars,
       childVars, Typed, TypeOK, RoundInv, Running
<1>14. ASSUME NEW q \in Process, NEW n \in 1 .. Len(text[q]), Write(q, n) PROVE RoundInv'
  BY <1>14 DEF Write, Shorter, inputVars, structVars, lineVars, prestoVars,
       Typed, TypeOK, RoundInv, Running
<1>15. ASSUME NEW q \in Process, CloseOutput(q) PROVE RoundInv'
  BY <1>15 DEF CloseOutput, inputVars, structVars, lineVars, prestoVars, Typed,
       TypeOK, RoundInv, Running
<1>16. ASSUME NEW q \in Process, End(q) PROVE RoundInv'
  BY <1>16 DEF End, inputVars, structVars, lineVars, prestoVars, Typed, TypeOK,
       RoundInv, Running
<1>17. CASE Terminated
  BY <1>17 DEF Terminated, vars, inputVars, childVars, structVars, lineVars,
       prestoVars, Typed, TypeOK, RoundInv, Running
<1> QED
  BY <1>0, <1>1, <1>2, <1>3, <1>4, <1>5, <1>6, <1>7, <1>8, <1>9,
     <1>10, <1>11, <1>12, <1>13, <1>14, <1>15, <1>16, <1>17
  DEF Next, Presto, Children, Writes

\* A handle tells whether there is a process.
LEMMA HandleStep ==
    ASSUME Typed, RoundInv, HandleInv, [Next]_vars
    PROVE  HandleInv'
<1>0. CASE UNCHANGED vars
  BY <1>0 DEF vars, inputVars, childVars, structVars, lineVars, prestoVars,
       Typed, TypeOK, RoundInv, Running, HandleInv
<1>1. ASSUME NEW q \in Process, Spawn(q) PROVE HandleInv'
  BY <1>1 DEF Spawn, Spawned, inputVars, lineVars, Typed, TypeOK, RoundInv,
       Running, HandleInv
<1>2. ASSUME NEW q \in Process, SpawnRaises(q) PROVE HandleInv'
  BY <1>2 DEF SpawnRaises, inputVars, childVars, structVars, lineVars, Typed,
       TypeOK, RoundInv, Running, HandleInv
<1>3. ASSUME NEW q \in Process, Resume(q) PROVE HandleInv'
  BY <1>3 DEF Resume, inputVars, childVars, structVars, lineVars, Typed,
       TypeOK, RoundInv, Running, HandleInv
<1>4. CASE BeginRound
  BY <1>4 DEF BeginRound, inputVars, childVars, structVars, lineVars, Typed,
       TypeOK, RoundInv, Running, HandleInv
<1>5. CASE EndRound
  BY <1>5 DEF EndRound, inputVars, childVars, structVars, lineVars, Typed,
       TypeOK, RoundInv, Running, HandleInv
<1>6. CASE WaitReturns
  BY <1>6 DEF WaitReturns, inputVars, childVars, structVars, lineVars, Typed,
       TypeOK, RoundInv, Running, HandleInv
<1>7. CASE PollPending
  BY <1>7 DEF PollPending, Yield, inputVars, childVars, structVars, lineVars,
       Typed, TypeOK, RoundInv, Running, HandleInv
<1>8. CASE PollData
  BY <1>8 DEF PollData, Feed, inputVars, childVars, Typed, TypeOK, RoundInv,
       Running, HandleInv
<1>9. CASE PollBroken
  BY <1>9 DEF PollBroken, inputVars, childVars, structVars, lineVars, Typed,
       TypeOK, RoundInv, Running, HandleInv
<1>10. CASE ReadData
  BY <1>10 DEF ReadData, Feed, Shorter, inputVars, childVars, structVars,
       Typed, TypeOK, RoundInv, Running, HandleInv
<1>11. CASE ReadPending
  BY <1>11 DEF ReadPending, SetWaiting, Yield, inputVars, childVars, lineVars,
       Typed, TypeOK, RoundInv, Running, HandleInv
<1>12. CASE ReadBroken
  BY <1>12 DEF ReadBroken, inputVars, childVars, structVars, lineVars, Typed,
       TypeOK, RoundInv, Running, HandleInv
<1>13. CASE Finish
  BY <1>13 DEF Finish, ProcessGone, PrintRest, CodeRead, Ended, inputVars,
       childVars, Typed, TypeOK, RoundInv, Running, HandleInv
<1>14. ASSUME NEW q \in Process, NEW n \in 1 .. Len(text[q]), Write(q, n) PROVE HandleInv'
  BY <1>14 DEF Write, Shorter, inputVars, structVars, lineVars, prestoVars,
       Typed, TypeOK, RoundInv, Running, HandleInv
<1>15. ASSUME NEW q \in Process, CloseOutput(q) PROVE HandleInv'
  BY <1>15 DEF CloseOutput, inputVars, structVars, lineVars, prestoVars, Typed,
       TypeOK, RoundInv, Running, HandleInv
<1>16. ASSUME NEW q \in Process, End(q) PROVE HandleInv'
  BY <1>16 DEF End, inputVars, structVars, lineVars, prestoVars, Typed, TypeOK,
       RoundInv, Running, HandleInv
<1>17. CASE Terminated
  BY <1>17 DEF Terminated, vars, inputVars, childVars, structVars, lineVars,
       prestoVars, Typed, TypeOK, RoundInv, Running, HandleInv
<1> QED
  BY <1>0, <1>1, <1>2, <1>3, <1>4, <1>5, <1>6, <1>7, <1>8, <1>9,
     <1>10, <1>11, <1>12, <1>13, <1>14, <1>15, <1>16, <1>17
  DEF Next, Presto, Children, Writes

(***************************************************************************)
(* No step of presto or of a child leaves data behind an event that is not *)
(* set.                                                                    *)
(***************************************************************************)
LEMMA ReadStep ==
    ASSUME Typed, RoundInv, ReadInv, [Next]_vars
    PROVE  ReadInv'
<1>0. CASE UNCHANGED vars
  BY <1>0 DEF vars, inputVars, childVars, structVars, lineVars, prestoVars,
       Typed, TypeOK, RoundInv, Running, ReadInv
<1>1. ASSUME NEW q \in Process, Spawn(q) PROVE ReadInv'
  BY <1>1 DEF Spawn, Spawned, inputVars, lineVars, Typed, TypeOK, RoundInv,
       Running, ReadInv
<1>2. ASSUME NEW q \in Process, SpawnRaises(q) PROVE ReadInv'
  BY <1>2 DEF SpawnRaises, inputVars, childVars, structVars, lineVars, Typed,
       TypeOK, RoundInv, Running, ReadInv
<1>3. ASSUME NEW q \in Process, Resume(q) PROVE ReadInv'
  BY <1>3 DEF Resume, inputVars, childVars, structVars, lineVars, Typed,
       TypeOK, RoundInv, Running, ReadInv
<1>4. CASE BeginRound
  BY <1>4 DEF BeginRound, inputVars, childVars, structVars, lineVars, Typed,
       TypeOK, RoundInv, Running, ReadInv
<1>5. CASE EndRound
  BY <1>5 DEF EndRound, inputVars, childVars, structVars, lineVars, Typed,
       TypeOK, RoundInv, Running, ReadInv
<1>6. CASE WaitReturns
  BY <1>6 DEF WaitReturns, inputVars, childVars, structVars, lineVars, Typed,
       TypeOK, RoundInv, Running, ReadInv
<1>7. CASE PollPending
  BY <1>7 DEF PollPending, Yield, inputVars, childVars, structVars, lineVars,
       Typed, TypeOK, RoundInv, Running, ReadInv
<1>8. CASE PollData
  BY <1>8 DEF PollData, Feed, inputVars, childVars, Typed, TypeOK, RoundInv,
       Running, ReadInv
<1>9. CASE PollBroken
  BY <1>9 DEF PollBroken, inputVars, childVars, structVars, lineVars, Typed,
       TypeOK, RoundInv, Running, ReadInv
<1>10. CASE ReadData
  BY <1>10 DEF ReadData, Feed, Shorter, inputVars, childVars, structVars,
       Typed, TypeOK, RoundInv, Running, ReadInv
<1>11. CASE ReadPending
  BY <1>11 DEF ReadPending, SetWaiting, Yield, inputVars, childVars, lineVars,
       Typed, TypeOK, RoundInv, Running, ReadInv
<1>12. CASE ReadBroken
  BY <1>12 DEF ReadBroken, inputVars, childVars, structVars, lineVars, Typed,
       TypeOK, RoundInv, Running, ReadInv
<1>13. CASE Finish
  BY <1>13 DEF Finish, ProcessGone, PrintRest, CodeRead, Ended, inputVars,
       childVars, Typed, TypeOK, RoundInv, Running, ReadInv
<1>14. ASSUME NEW q \in Process, NEW n \in 1 .. Len(text[q]), Write(q, n) PROVE ReadInv'
  <2>1. \A r \in Process : r # q => pipe'[r] = pipe[r] /\ io'[r] = io[r] /\ event'[r] = event[r]
    BY <1>14 DEF Write, Typed, TypeOK
  <2>2. IF io[q] = "pending" THEN io'[q] = "complete" /\ event'[q]
                             ELSE io'[q] = io[q] /\ event'[q] = event[q]
    BY <1>14 DEF Write, Typed, TypeOK
  <2>3. UNCHANGED <<out, bWaiting, job, round, pc, cur>>
    BY <1>14 DEF Write, structVars, prestoVars
  <2> QED
    BY <2>1, <2>2, <2>3, <1>14 DEF ReadInv
<1>15. ASSUME NEW q \in Process, CloseOutput(q) PROVE ReadInv'
  BY <1>15 DEF CloseOutput, inputVars, structVars, lineVars, prestoVars, Typed,
       TypeOK, RoundInv, Running, ReadInv
<1>16. ASSUME NEW q \in Process, End(q) PROVE ReadInv'
  BY <1>16 DEF End, inputVars, structVars, lineVars, prestoVars, Typed, TypeOK,
       RoundInv, Running, ReadInv
<1>17. CASE Terminated
  BY <1>17 DEF Terminated, vars, inputVars, childVars, structVars, lineVars,
       prestoVars, Typed, TypeOK, RoundInv, Running, ReadInv
<1> QED
  BY <1>0, <1>1, <1>2, <1>3, <1>4, <1>5, <1>6, <1>7, <1>8, <1>9,
     <1>10, <1>11, <1>12, <1>13, <1>14, <1>15, <1>16, <1>17
  DEF Next, Presto, Children, Writes

(***************************************************************************)
(* The exit code is read from a process that has ended and cannot change   *)
(* any more.                                                               *)
(***************************************************************************)
LEMMA ExitCodeStep ==
    ASSUME Typed, RoundInv, HandleInv, ExitCodeTrue, [Next]_vars
    PROVE  ExitCodeTrue'
<1>0. CASE UNCHANGED vars
  BY <1>0 DEF vars, inputVars, childVars, structVars, lineVars, prestoVars,
       Typed, TypeOK, RoundInv, Running, HandleInv, ExitCodeTrue
<1>1. ASSUME NEW q \in Process, Spawn(q) PROVE ExitCodeTrue'
  BY <1>1 DEF Spawn, Spawned, inputVars, lineVars, Typed, TypeOK, RoundInv,
       Running, HandleInv, ExitCodeTrue
<1>2. ASSUME NEW q \in Process, SpawnRaises(q) PROVE ExitCodeTrue'
  BY <1>2 DEF SpawnRaises, inputVars, childVars, structVars, lineVars, Typed,
       TypeOK, RoundInv, Running, HandleInv, ExitCodeTrue
<1>3. ASSUME NEW q \in Process, Resume(q) PROVE ExitCodeTrue'
  BY <1>3 DEF Resume, inputVars, childVars, structVars, lineVars, Typed,
       TypeOK, RoundInv, Running, HandleInv, ExitCodeTrue
<1>4. CASE BeginRound
  BY <1>4 DEF BeginRound, inputVars, childVars, structVars, lineVars, Typed,
       TypeOK, RoundInv, Running, HandleInv, ExitCodeTrue
<1>5. CASE EndRound
  BY <1>5 DEF EndRound, inputVars, childVars, structVars, lineVars, Typed,
       TypeOK, RoundInv, Running, HandleInv, ExitCodeTrue
<1>6. CASE WaitReturns
  BY <1>6 DEF WaitReturns, inputVars, childVars, structVars, lineVars, Typed,
       TypeOK, RoundInv, Running, HandleInv, ExitCodeTrue
<1>7. CASE PollPending
  BY <1>7 DEF PollPending, Yield, inputVars, childVars, structVars, lineVars,
       Typed, TypeOK, RoundInv, Running, HandleInv, ExitCodeTrue
<1>8. CASE PollData
  BY <1>8 DEF PollData, Feed, inputVars, childVars, Typed, TypeOK, RoundInv,
       Running, HandleInv, ExitCodeTrue
<1>9. CASE PollBroken
  BY <1>9 DEF PollBroken, inputVars, childVars, structVars, lineVars, Typed,
       TypeOK, RoundInv, Running, HandleInv, ExitCodeTrue
<1>10. CASE ReadData
  BY <1>10 DEF ReadData, Feed, Shorter, inputVars, childVars, structVars,
       Typed, TypeOK, RoundInv, Running, HandleInv, ExitCodeTrue
<1>11. CASE ReadPending
  BY <1>11 DEF ReadPending, SetWaiting, Yield, inputVars, childVars, lineVars,
       Typed, TypeOK, RoundInv, Running, HandleInv, ExitCodeTrue
<1>12. CASE ReadBroken
  BY <1>12 DEF ReadBroken, inputVars, childVars, structVars, lineVars, Typed,
       TypeOK, RoundInv, Running, HandleInv, ExitCodeTrue
<1>13. CASE Finish
  BY <1>13 DEF Finish, ProcessGone, PrintRest, CodeRead, Ended, inputVars,
       childVars, Typed, TypeOK, RoundInv, Running, HandleInv, ExitCodeTrue
<1>14. ASSUME NEW q \in Process, NEW n \in 1 .. Len(text[q]), Write(q, n) PROVE ExitCodeTrue'
  BY <1>14 DEF Write, Shorter, inputVars, structVars, lineVars, prestoVars,
       Typed, TypeOK, RoundInv, Running, HandleInv, ExitCodeTrue
<1>15. ASSUME NEW q \in Process, CloseOutput(q) PROVE ExitCodeTrue'
  BY <1>15 DEF CloseOutput, inputVars, structVars, lineVars, prestoVars, Typed,
       TypeOK, RoundInv, Running, HandleInv, ExitCodeTrue
<1>16. ASSUME NEW q \in Process, End(q) PROVE ExitCodeTrue'
  BY <1>16 DEF End, inputVars, structVars, lineVars, prestoVars, Typed, TypeOK,
       RoundInv, Running, HandleInv, ExitCodeTrue
<1>17. CASE Terminated
  BY <1>17 DEF Terminated, vars, inputVars, childVars, structVars, lineVars,
       prestoVars, Typed, TypeOK, RoundInv, Running, HandleInv, ExitCodeTrue
<1> QED
  BY <1>0, <1>1, <1>2, <1>3, <1>4, <1>5, <1>6, <1>7, <1>8, <1>9,
     <1>10, <1>11, <1>12, <1>13, <1>14, <1>15, <1>16, <1>17
  DEF Next, Presto, Children, Writes

\* The inductive invariant holds at the start, and in every run.
LEMMA InitInv == Init => IInv
<1> SUFFICES ASSUME Init PROVE IInv
  OBVIOUS
<1>1. Typed
  <2>1. cur \in Process
    BY ProcAssumption DEF Init
  <2>2. text \in [Process -> Seq(Char)]
    BY ProcAssumption DEF Init
  <2>3. \A q \in Process : sent[q] \in 0 .. Len(text[q])
    BY <2>2 DEF Init
  <2> QED
    BY <2>1, <2>2, <2>3, ProcAssumption DEF Init, Typed, TypeOK
<1>2. RoundInv /\ HandleInv /\ ReadInv /\ ExitCodeTrue
  BY DEF Init, RoundInv, Running, HandleInv, ReadInv, ExitCodeTrue
<1> QED
  BY <1>1, <1>2 DEF IInv

\* Each of its parts is kept with the help of the others.
LEMMA IInvStep == IInv /\ [Next]_vars => IInv'
BY TypedStep, RoundStep, HandleStep, ReadStep, ExitCodeStep DEF IInv

\* So it holds in every run.
LEMMA IInvHolds == Spec => []IInv
BY InitInv, IInvStep, PTL DEF Spec

(***************************************************************************)
(* The types hold in every run, with the sizes of the buffer and of the    *)
(* pipe.                                                                   *)
(***************************************************************************)
THEOREM ProcTyped == Spec => []TypeOK
<1>1. IInv => TypeOK
  BY DEF IInv, Typed
<1> QED
  BY <1>1, IInvHolds, PTL

(***************************************************************************)
(* However many processes write, close their output and end in whatever    *)
(* order: a command succeeds or fails by the exit code of its process.     *)
(***************************************************************************)
THEOREM ExitCodesTrue == Spec => []ExitCodeTrue
<1>1. IInv => ExitCodeTrue
  BY DEF IInv
<1> QED
  BY <1>1, IInvHolds, PTL

(***************************************************************************)
(* presto never sleeps while a process it waits for has ended, closed its  *)
(* output or written something.                                            *)
(***************************************************************************)
THEOREM NoWakeupLost == Spec => []NoLostWakeup
<1>1. IInv => NoLostWakeup
  <2> SUFFICES ASSUME IInv, Asleep, NEW q \in round.waiting
               PROVE  /\ child[q] = "live" /\ out[q]
                      /\ buffer[q] = <<>> /\ pipe[q] = <<>>
    BY DEF NoLostWakeup
  <2>1. q \in Process /\ job[q] = "running"
    BY DEF IInv, RoundInv, Running
  <2>2. handle[q] # "null" /\ child[q] # "ended" /\ ~event[q]
    BY DEF Asleep, Signalled, Ended
  <2>3. io[q] = "pending"
    BY <2>1, <2>2 DEF IInv, ReadInv, Typed, TypeOK
  <2> QED
    BY <2>1, <2>2, <2>3 DEF IInv, ReadInv, HandleInv, Typed, TypeOK
<1> QED
  BY <1>1, IInvHolds, PTL

-----------------------------------------------------------------------------
(***************************************************************************)
(* The output.  What presto has taken of a text, and that the buffer and   *)
(* the pipe hold what follows; when an output is open, and that nothing is *)
(* on its way any more when flushio has seen it closed.                    *)
(***************************************************************************)
LineTyped ==
    /\ printed \in [Process -> Seq(Seq(Char))]
    /\ leftovers \in [Process -> Seq(Char)]
    /\ text \in Texts

Stock(q) == buffer[q] \o pipe[q]
Consumed(q) == SubSeq(text[q], 1, sent[q] - Len(Stock(q)))
Delivered ==
    \A q \in Process :
        /\ Len(Stock(q)) <= sent[q]
        /\ Written(q) = Consumed(q) \o Stock(q)

Dry(q) == ~out[q] /\ pipe[q] = <<>> /\ buffer[q] = <<>>
OpenInv ==
    /\ \A q \in Process :
          /\ out[q] => job[q] = "running" /\ child[q] \in {"live", "ended"}
          /\ job[q] = "new" => sent[q] = 0 /\ leftovers[q] = <<>> /\ printed[q] = <<>>
          /\ job[q] = "new" \/ Finished(q) \/ io[q] = "broken" => Dry(q)
          /\ Finished(q) => leftovers[q] = <<>>
    /\ pc = "broken" => Dry(cur)

(***************************************************************************)
(* A write, as the output sees it: the piece goes behind what is on its    *)
(* way, whether a read was outstanding or not, and nothing is taken.       *)
(***************************************************************************)
LEMMA WriteSends ==
    ASSUME Typed, ReadInv, Delivered, NEW q \in Process, NEW n \in 1 .. Len(text[q]),
           Write(q, n)
    PROVE  \E piece \in Seq(Char) :
              /\ piece # <<>>
              /\ Stock(q)' = Stock(q) \o piece
              /\ Written(q)' = Written(q) \o piece
              /\ Written(q) \in Seq(Char) /\ Stock(q) \in Seq(Char)
              /\ Consumed(q)' = Consumed(q) /\ Len(Stock(q)') <= sent'[q]
<1> DEFINE piece == SubSeq(text[q], sent[q] + 1, sent[q] + n)
           taken == IF io[q] = "pending" THEN Shorter(BufferSize, n) ELSE 0
<1>a. /\ text[q] \in Seq(Char) /\ sent[q] \in Nat /\ n \in Nat \ {0}
      /\ sent[q] + n <= Len(text[q])
  BY DEF Write, Typed
<1>b. pipe[q] \in Seq(Char) /\ buffer[q] \in Seq(Char)
  BY DEF Typed
<1>c. /\ sent' = [sent EXCEPT ![q] = sent[q] + n]
      /\ pipe' = [pipe EXCEPT ![q] = pipe[q] \o SubSeq(piece, taken + 1, n)]
      /\ text' = text
  BY DEF Write, inputVars
<1>d. IF io[q] = "pending"
      THEN buffer' = [buffer EXCEPT ![q] = SubSeq(piece, 1, taken)]
      ELSE buffer' = buffer
  BY DEF Write
<1>3. taken \in 0 .. n
  BY <1>a, ProcAssumption DEF Shorter
<1>f. io[q] # "pending" => taken = 0
  OBVIOUS
<1>2. /\ piece \in Seq(Char) /\ Len(piece) = n
      /\ SubSeq(text[q], 1, sent[q]) \o piece = SubSeq(text[q], 1, sent[q] + n)
  <2>1. text[q] \in Seq(Char) /\ sent[q] \in Nat
    BY <1>a
  <2>2. n \in Nat /\ sent[q] + n <= Len(text[q])
    BY <1>a
  <2>3. ASSUME NEW s \in Seq(Char), NEW m \in Nat, NEW k \in Nat, m + k <= Len(s)
        PROVE  /\ SubSeq(s, m + 1, m + k) \in Seq(Char) /\ Len(SubSeq(s, m + 1, m + k)) = k
               /\ SubSeq(s, 1, m) \o SubSeq(s, m + 1, m + k) = SubSeq(s, 1, m + k)
    BY <2>3, Following
  <2> QED
    BY <2>1, <2>2, <2>3
<1> HIDE DEF piece, taken
<1>4. /\ SubSeq(piece, 1, taken) \in Seq(Char) /\ SubSeq(piece, taken + 1, n) \in Seq(Char)
      /\ SubSeq(piece, 1, taken) \o SubSeq(piece, taken + 1, n) = piece
  BY <1>2, <1>3, SplitAt
<1>5. sent'[q] = sent[q] + n
  BY <1>c DEF Typed
<1>7. Written(q)' = Written(q) \o piece
  BY <1>2, <1>5, <1>c DEF Written
<1>8. Stock(q) \in Seq(Char)
  BY <1>b DEF Stock
<1>9. Stock(q)' = Stock(q) \o piece
  <2>1. pipe'[q] = pipe[q] \o SubSeq(piece, taken + 1, n)
    BY <1>c DEF Typed
  <2>2. CASE io[q] = "pending"
    <3>1. buffer[q] = <<>> /\ pipe[q] = <<>>
      BY <2>2 DEF Typed, TypeOK, ReadInv
    <3>2. buffer'[q] = SubSeq(piece, 1, taken)
      BY <1>d, <2>2 DEF Typed
    <3>3. pipe'[q] = SubSeq(piece, taken + 1, n)
      BY <1>4, <2>1, <3>1
    <3>4. Stock(q)' = piece
      BY <1>4, <3>2, <3>3 DEF Stock
    <3>5. Stock(q) = <<>>
      BY <3>1 DEF Stock
    <3>6. <<>> \o piece = piece
      BY <1>2
    <3> QED
      BY <3>4, <3>5, <3>6
  <2>3. CASE io[q] # "pending"
    <3>1. taken = 0 /\ buffer' = buffer
      BY <1>d, <1>f, <2>3
    <3>2. SubSeq(piece, 1, Len(piece)) = piece
      BY <1>2, SubSeqFull
    <3>7. taken + 1 = 1 /\ n = Len(piece)
      BY <1>2, <3>1
    <3>3. pipe'[q] = pipe[q] \o piece
      BY <2>1, <3>2, <3>7
    <3>5. piece \in Seq(Char)
      BY <1>2
    <3>6. ASSUME NEW a \in Seq(Char), NEW b \in Seq(Char), NEW c \in Seq(Char)
          PROVE  (a \o b) \o c = a \o (b \o c)
      BY ConcatAssociative
    <3>4. (buffer[q] \o pipe[q]) \o piece = buffer[q] \o (pipe[q] \o piece)
      BY <1>b, <3>5, <3>6
    <3> QED
      BY <3>1, <3>3, <3>4 DEF Stock
  <2> QED
    BY <2>2, <2>3
<1>10. Written(q) \in Seq(Char)
  BY <1>a, Following DEF Written
<1>11. /\ Len(Stock(q) \o piece) = Len(Stock(q)) + n /\ Len(Stock(q)) \in Nat
  <2>1. Len(piece) = n /\ piece \in Seq(Char)
    BY <1>2
  <2>2. ASSUME NEW a \in Seq(Char), NEW b \in Seq(Char)
        PROVE  Len(a \o b) = Len(a) + Len(b) /\ Len(a) \in Nat
    OBVIOUS
  <2> QED
    BY <1>8, <2>1, <2>2
<1>12. sent'[q] - Len(Stock(q)') = sent[q] - Len(Stock(q))
  BY <1>a, <1>5, <1>9, <1>11
<1>13. Consumed(q)' = Consumed(q)
  BY <1>c, <1>12 DEF Consumed
<1>14. Len(Stock(q)') <= sent'[q]
  <2>1. Len(Stock(q)) <= sent[q]
    BY DEF Delivered
  <2> QED
    BY <1>a, <1>5, <1>9, <1>11, <2>1
<1>15. piece # <<>>
  BY <1>a, <1>2
<1> QED
  BY <1>2, <1>7, <1>8, <1>9, <1>10, <1>13, <1>14, <1>15

(***************************************************************************)
(* To the output a step is one of four: none of its business; a write; a   *)
(* completed read, asked for or immediate, whose data goes to the helper;  *)
(* the end of a job.                                                       *)
(***************************************************************************)
Aside ==
    /\ UNCHANGED <<text, sent, lineVars>>
    /\ \A q \in Process :
          /\ Stock(q)' = Stock(q)
          /\ job'[q] = job[q] \/ (job[q] = "new" /\ job'[q] \in {"running", "failed"})

Fed(chunk) ==
    /\ Feed(chunk)
    /\ chunk \in Seq(Char) /\ chunk # <<>>
    /\ Stock(cur)' \in Seq(Char) /\ Stock(cur) = chunk \o Stock(cur)'
    /\ \A q \in Process \ {cur} : Stock(q)' = Stock(q)
    /\ cur \in Process /\ job[cur] = "running"
    /\ UNCHANGED <<text, sent, job, cur>>

\* A completed read feeds the helper with the buffer.
LEMMA PollFeeds == ASSUME IInv, PollData PROVE Fed(buffer[cur])
<1>1. cur \in Process /\ job[cur] = "running" /\ io[cur] = "complete"
  BY DEF PollData, IInv, RoundInv, Running
<1>2. buffer[cur] \in Seq(Char) /\ pipe[cur] \in Seq(Char) /\ buffer[cur] # <<>>
  BY <1>1 DEF IInv, Typed, TypeOK
<1>3. buffer'[cur] = <<>> /\ pipe' = pipe /\ \A q \in Process \ {cur} : buffer'[q] = buffer[q]
  BY <1>1 DEF PollData, IInv, Typed
<1>4. <<>> \o pipe[cur] = pipe[cur]
  BY <1>2
<1>8. cur' = cur
  BY DEF PollData
<1>5. Stock(cur)' = pipe[cur]
  BY <1>3, <1>4, <1>8 DEF Stock
<1>6. \A q \in Process \ {cur} : Stock(q)' = Stock(q)
  BY <1>3 DEF Stock
<1>7. Feed(buffer[cur]) /\ UNCHANGED <<text, sent, job, cur>>
  BY DEF PollData, inputVars, childVars
<1> QED
  BY <1>1, <1>2, <1>5, <1>6, <1>7 DEF Fed, Stock

\* An immediate read feeds it with the front of the pipe.
LEMMA ReadFeeds == ASSUME IInv, ReadData PROVE \E chunk : Fed(chunk)
<1> DEFINE n == Shorter(BufferSize, Len(pipe[cur]))
           chunk == SubSeq(pipe[cur], 1, n)
           rest == SubSeq(pipe[cur], n + 1, Len(pipe[cur]))
<1>1. cur \in Process /\ job[cur] = "running" /\ ~bWaiting[cur]
  BY DEF ReadData, IInv, RoundInv, ReadInv, Running
<1>2. buffer[cur] = <<>>
  BY <1>1 DEF IInv, ReadInv, Typed, TypeOK
<1>3. pipe[cur] \in Seq(Char) /\ pipe[cur] # <<>>
  BY <1>1 DEF ReadData, IInv, Typed
<1>4. n \in 1 .. Len(pipe[cur])
  BY <1>3, ProcAssumption DEF Shorter
<1>5. /\ pipe' = [pipe EXCEPT ![cur] = rest] /\ buffer' = buffer
      /\ Feed(chunk) /\ UNCHANGED <<text, sent, job, cur>>
  BY DEF ReadData, inputVars, childVars
<1> HIDE DEF n
<1>6. /\ chunk \in Seq(Char) /\ rest \in Seq(Char) /\ Len(chunk) = n
      /\ chunk \o rest = pipe[cur]
  <2>1. ASSUME NEW s \in Seq(Char), NEW m \in 0 .. Len(s)
        PROVE  /\ SubSeq(s, 1, m) \in Seq(Char) /\ SubSeq(s, m + 1, Len(s)) \in Seq(Char)
               /\ Len(SubSeq(s, 1, m)) = m
               /\ SubSeq(s, 1, m) \o SubSeq(s, m + 1, Len(s)) = s
    BY SplitAt
  <2>2. n \in 0 .. Len(pipe[cur])
    BY <1>3, <1>4
  <2> QED
    BY <1>3, <2>1, <2>2
<1> HIDE DEF chunk, rest
<1>7. pipe'[cur] = rest /\ \A q \in Process \ {cur} : pipe'[q] = pipe[q]
  BY <1>1, <1>5 DEF IInv, Typed
<1>8. <<>> \o rest = rest /\ <<>> \o pipe[cur] = pipe[cur]
  BY <1>3, <1>6
<1>9. Stock(cur)' = rest /\ Stock(cur) = pipe[cur]
  BY <1>2, <1>5, <1>7, <1>8 DEF Stock
<1>10. \A q \in Process \ {cur} : Stock(q)' = Stock(q)
  BY <1>5, <1>7 DEF Stock
<1>11. chunk # <<>>
  BY <1>4, <1>6
<1>12. Fed(chunk)
  BY <1>1, <1>5, <1>6, <1>9, <1>10, <1>11 DEF Fed
<1> QED
  BY <1>12

\* There are no other steps.
LEMMA OutputSteps ==
    ASSUME IInv, [Next]_vars
    PROVE  \/ Aside
           \/ \E q \in Process : \E n \in 1 .. Len(text[q]) : Write(q, n)
           \/ \E chunk : Fed(chunk)
           \/ Finish
<1>0. ASSUME UNCHANGED <<text, sent, pipe, buffer, lineVars>>,
             \A q \in Process : job'[q] = job[q]
                   \/ (job[q] = "new" /\ job'[q] \in {"running", "failed"})
      PROVE  Aside
  BY <1>0 DEF Aside, Stock
<1>1. CASE UNCHANGED vars
  BY <1>0, <1>1 DEF vars, inputVars, childVars, prestoVars
<1>2. ASSUME NEW q \in Process, Spawn(q) PROVE Aside
  BY <1>0, <1>2 DEF Spawn, Spawned, inputVars, IInv, Typed, TypeOK
<1>3. ASSUME NEW q \in Process, SpawnRaises(q) PROVE Aside
  BY <1>0, <1>3 DEF SpawnRaises, inputVars, childVars, IInv, Typed, TypeOK
<1>4. ASSUME NEW q \in Process, Resume(q) PROVE Aside
  BY <1>0, <1>4 DEF Resume, inputVars, childVars
<1>5. ASSUME BeginRound \/ EndRound \/ WaitReturns PROVE Aside
  BY <1>0, <1>5 DEF BeginRound, EndRound, WaitReturns, inputVars, childVars
<1>6. ASSUME PollPending \/ PollBroken \/ ReadBroken PROVE Aside
  BY <1>0, <1>6 DEF PollPending, PollBroken, ReadBroken, Yield, inputVars, childVars
<1>7. ASSUME ReadPending PROVE Aside
  BY <1>0, <1>7 DEF ReadPending, inputVars, childVars
<1>8. ASSUME NEW q \in Process, CloseOutput(q) \/ End(q) PROVE Aside
  BY <1>0, <1>8 DEF CloseOutput, End, inputVars, childVars, prestoVars
<1>9. CASE Terminated
  BY <1>1, <1>9 DEF Terminated
<1> QED
  BY <1>1, <1>2, <1>3, <1>4, <1>5, <1>6, <1>7, <1>8, <1>9, PollFeeds, ReadFeeds
     DEF Next, Presto, Children, Writes

(***************************************************************************)
(* What was printed and what is left over is made of characters.           *)
(***************************************************************************)
LEMMA LineTypedStep ==
    ASSUME IInv, LineTyped, [Next]_vars
    PROVE  LineTyped'
<1>1. CASE Aside
  BY <1>1 DEF Aside, lineVars, LineTyped
<1>2. ASSUME NEW q \in Process, NEW n \in 1 .. Len(text[q]), Write(q, n) PROVE LineTyped'
  BY <1>2 DEF Write, lineVars, inputVars, LineTyped
<1>3. ASSUME NEW chunk, Fed(chunk) PROVE LineTyped'
  <2> DEFINE cut == Cut(leftovers[cur], chunk)
  <2>1. leftovers[cur] \in Seq(Char) /\ printed[cur] \in Seq(Seq(Char)) /\ chunk \in Seq(Char)
    BY <1>3 DEF Fed, LineTyped
  <2>2. cut.lines \in Seq(Seq(Char)) /\ cut.left \in Seq(Char)
    BY <2>1, CutTyped DEF CutState
  <2>3. /\ printed' = [printed EXCEPT ![cur] = printed[cur] \o cut.lines]
        /\ leftovers' = [leftovers EXCEPT ![cur] = cut.left]
    BY <1>3 DEF Fed, Feed
  <2> HIDE DEF cut
  <2>4. printed[cur] \o cut.lines \in Seq(Seq(Char)) /\ text' = text
    BY <1>3, <2>1, <2>2 DEF Fed
  <2> QED
    BY <2>2, <2>3, <2>4 DEF LineTyped
<1>4. CASE Finish
  <2>1. cur \in Process
    BY DEF IInv, Typed, TypeOK
  <2>2. leftovers[cur] \in Seq(Char) /\ printed[cur] \in Seq(Seq(Char))
    BY <2>1 DEF LineTyped
  <2>3. Append(printed[cur], leftovers[cur]) \in Seq(Seq(Char))
    BY <2>2
  <2>4. /\ leftovers' = [leftovers EXCEPT ![cur] = <<>>]
        /\ printed' = [printed EXCEPT ![cur] = IF leftovers[cur] = <<>> THEN printed[cur]
                                               ELSE Append(printed[cur], leftovers[cur])]
    BY <1>4 DEF Finish, PrintRest
  <2>e. <<>> \in Seq(Char)
    OBVIOUS
  <2>5. leftovers' \in [Process -> Seq(Char)]
    BY <2>4, <2>e DEF LineTyped
  <2>6. printed' \in [Process -> Seq(Seq(Char))]
    BY <2>2, <2>3, <2>4 DEF LineTyped
  <2>7. text' = text
    BY <1>4 DEF Finish, inputVars
  <2> QED
    BY <2>5, <2>6, <2>7 DEF LineTyped
<1> QED
  BY <1>1, <1>2, <1>3, <1>4, OutputSteps

(***************************************************************************)
(* What is on its way follows what was taken: a read takes the front of    *)
(* it, a write puts its piece behind it.                                   *)
(***************************************************************************)
LEMMA FedTakes ==
    ASSUME IInv, Delivered, NEW chunk, Fed(chunk)
    PROVE  /\ Consumed(cur)' = Consumed(cur) \o chunk
           /\ \A q \in Process \ {cur} : Consumed(q)' = Consumed(q)
           /\ \A q \in Process : /\ Written(q)' = Written(q)
                                 /\ Len(Stock(q)') <= sent'[q]
                                 /\ Written(q)' = Consumed(q)' \o Stock(q)'
<1>1. UNCHANGED <<text, sent, cur>> /\ cur \in Process
  BY DEF Fed
<1>2. \A q \in Process \ {cur} : Consumed(q)' = Consumed(q) /\ Stock(q)' = Stock(q)
  BY <1>1 DEF Fed, Consumed
<1>3. \A q \in Process : Written(q)' = Written(q)
  BY <1>1 DEF Written
<1> DEFINE a == Consumed(cur)
           rest == Stock(cur)'
<1>4. chunk \in Seq(Char) /\ rest \in Seq(Char) /\ Stock(cur) = chunk \o rest
  BY DEF Fed
<1>5. /\ text[cur] \in Seq(Char) /\ sent[cur] \in 0 .. Len(text[cur])
      /\ Len(Stock(cur)) <= sent[cur]
      /\ SubSeq(text[cur], 1, sent[cur]) = a \o Stock(cur)
  BY <1>1 DEF IInv, Typed, TypeOK, Delivered, Written
<1>6. ASSUME NEW x \in Seq(Char), NEW y \in Seq(Char), NEW z \in Seq(Char)
      PROVE  /\ x \o (y \o z) = (x \o y) \o z /\ x \o y \in Seq(Char)
             /\ Len(x \o y) = Len(x) + Len(y) /\ Len(x) \in Nat
  BY Regroup
<1>7. a \in Seq(Char)
  <2>1. Len(Stock(cur)) \in Nat
    BY <1>4, <1>6
  <2>2. ASSUME NEW s \in Seq(Char), NEW m \in 0 .. Len(s) PROVE SubSeq(s, 1, m) \in Seq(Char)
    BY SplitAt
  <2>3. sent[cur] - Len(Stock(cur)) \in 0 .. Len(text[cur])
    BY <1>5, <2>1
  <2> QED
    BY <1>5, <2>2, <2>3 DEF Consumed
<1>8. sent'[cur] = sent[cur] /\ text'[cur] = text[cur]
  BY <1>1
<1> HIDE DEF a, rest
<1>9. a \o chunk \in Seq(Char) /\ SubSeq(text[cur], 1, sent[cur]) = (a \o chunk) \o rest
  <2>1. a \o (chunk \o rest) = (a \o chunk) \o rest /\ a \o chunk \in Seq(Char)
    BY <1>4, <1>6, <1>7
  <2>2. SubSeq(text[cur], 1, sent[cur]) = a \o (chunk \o rest)
    BY <1>4, <1>5
  <2> QED
    BY <2>1, <2>2
<1>10. /\ Len(a \o chunk) = sent[cur] - Len(rest)
       /\ SubSeq(text[cur], 1, Len(a \o chunk)) = a \o chunk
  <2>1. ASSUME NEW s \in Seq(Char), NEW x \in Seq(Char), NEW y \in Seq(Char),
               NEW n \in 0 .. Len(s), SubSeq(s, 1, n) = x \o y
        PROVE  Len(x) = n - Len(y) /\ SubSeq(s, 1, Len(x)) = x
    BY <2>1, PrefixOf
  <2> QED
    BY <1>4, <1>5, <1>9, <2>1
<1>11. Consumed(cur)' = a \o chunk
  BY <1>1, <1>8, <1>10 DEF Consumed, rest
<1>12. Len(rest) <= sent[cur]
  <2>1. Len(chunk) \in Nat /\ Len(rest) \in Nat /\ Len(Stock(cur)) = Len(chunk) + Len(rest)
    BY <1>4, <1>6
  <2> QED
    BY <1>5, <2>1
<1>13. ASSUME NEW q \in Process
       PROVE  Len(Stock(q)') <= sent'[q] /\ Written(q)' = Consumed(q)' \o Stock(q)'
  <2>1. CASE q = cur
    BY <1>1, <1>3, <1>5, <1>8, <1>9, <1>11, <1>12, <2>1 DEF rest, Written
  <2>2. CASE q # cur
    BY <1>1, <1>2, <1>3, <2>2 DEF Delivered
  <2> QED
    BY <2>1, <2>2
<1> QED
  BY <1>2, <1>3, <1>11, <1>13 DEF a

\* So what was taken and what is on its way are what was written.
LEMMA DeliveredStep ==
    ASSUME IInv, Delivered, [Next]_vars
    PROVE  Delivered'
<1>1. CASE Aside
  <2>1. UNCHANGED <<text, sent>> /\ \A q \in Process : Stock(q)' = Stock(q)
    BY <1>1 DEF Aside
  <2>2. \A q \in Process : Consumed(q)' = Consumed(q) /\ Written(q)' = Written(q)
    BY <2>1 DEF Consumed, Written
  <2> QED
    BY <2>1, <2>2 DEF Delivered
<1>2. ASSUME NEW q \in Process, NEW n \in 1 .. Len(text[q]), Write(q, n) PROVE Delivered'
  <2>1. PICK piece \in Seq(Char) :
              /\ Stock(q)' = Stock(q) \o piece
              /\ Written(q)' = Written(q) \o piece
              /\ Written(q) \in Seq(Char) /\ Stock(q) \in Seq(Char)
              /\ Consumed(q)' = Consumed(q) /\ Len(Stock(q)') <= sent'[q]
    BY <1>2, WriteSends DEF IInv
  <2>2. Written(q) = Consumed(q) \o Stock(q)
    BY DEF Delivered
  <2>3. Consumed(q) \in Seq(Char)
    <3>1. Len(Stock(q)) \in Nat
      BY <2>1
    <3>2. ASSUME NEW s \in Seq(Char), NEW m \in 0 .. Len(s) PROVE SubSeq(s, 1, m) \in Seq(Char)
      BY SplitAt
    <3>3. sent[q] - Len(Stock(q)) \in 0 .. Len(text[q]) /\ text[q] \in Seq(Char)
      BY <3>1 DEF IInv, Typed, TypeOK, Delivered
    <3> QED
      BY <3>2, <3>3 DEF Consumed
  <2>4. ASSUME NEW x \in Seq(Char), NEW y \in Seq(Char), NEW z \in Seq(Char)
        PROVE  x \o (y \o z) = (x \o y) \o z
    BY RegroupTexts
  <2>5. Written(q)' = Consumed(q)' \o Stock(q)'
    BY <2>1, <2>2, <2>3, <2>4
  <2>6. ASSUME NEW r \in Process, r # q
        PROVE  /\ Stock(r)' = Stock(r) /\ sent'[r] = sent[r]
               /\ Consumed(r)' = Consumed(r) /\ Written(r)' = Written(r)
    <3>1. text' = text /\ sent'[r] = sent[r] /\ pipe'[r] = pipe[r] /\ buffer'[r] = buffer[r]
      BY <1>2, <2>6 DEF Write, inputVars, IInv, Typed
    <3> QED
      BY <3>1 DEF Stock, Consumed, Written
  <2> QED
    BY <2>1, <2>5, <2>6 DEF Delivered
<1>3. ASSUME NEW chunk, Fed(chunk) PROVE Delivered'
  BY <1>3, FedTakes DEF Delivered
<1>4. CASE Finish
  <2>1. UNCHANGED <<text, sent, pipe, buffer>>
    BY <1>4 DEF Finish, inputVars, childVars
  <2> QED
    BY <2>1 DEF Delivered, Stock, Consumed, Written
<1> QED
  BY <1>1, <1>2, <1>3, <1>4, OutputSteps

(***************************************************************************)
(* An output is open while its job runs.  flushio finds it closed only     *)
(* when nothing is on its way: the read that was outstanding then had an   *)
(* empty pipe, and the read that fails at once had one too.                *)
(***************************************************************************)
LEMMA OpenStep ==
    ASSUME IInv, LineTyped, OpenInv, [Next]_vars
    PROVE  OpenInv'
<1>t. /\ \A q \in Process : io[q] # "complete" => buffer[q] = <<>>
      /\ cur \in Process
  BY DEF IInv, Typed, TypeOK
<1>0. CASE UNCHANGED vars
  BY <1>0 DEF vars, inputVars, childVars, structVars, lineVars, prestoVars, OpenInv,
       Dry, Finished
<1>1. ASSUME NEW q \in Process, Spawn(q) PROVE OpenInv'
  <2>1. /\ job[q] = "new" /\ pc = "idle" /\ pc' = "idle" /\ job'[q] = "running"
        /\ child'[q] \in {"live", "never"} /\ (out'[q] => child'[q] = "live")
    BY <1>1 DEF Spawn, Spawned, IInv, Typed, TypeOK
  <2>2. \A r \in Process \ {q} : job'[r] = job[r] /\ out'[r] = out[r] /\ child'[r] = child[r]
    BY <1>1 DEF Spawn, Spawned, IInv, Typed, TypeOK
  <2>3. UNCHANGED <<sent, pipe, io, buffer, leftovers, printed, cur>>
    BY <1>1 DEF Spawn, lineVars
  <2>4. io[q] # "broken"
    BY <2>1 DEF IInv, ReadInv
  <2> QED
    BY <2>1, <2>2, <2>3, <2>4 DEF OpenInv, Dry, Finished
<1>2. ASSUME NEW q \in Process, SpawnRaises(q) PROVE OpenInv'
  <2>1. /\ job[q] = "new" /\ pc = "idle" /\ pc' = "idle" /\ job'[q] = "failed"
        /\ \A r \in Process \ {q} : job'[r] = job[r]
    BY <1>2 DEF SpawnRaises, IInv, Typed, TypeOK
  <2>2. UNCHANGED <<child, out, sent, pipe, io, buffer, leftovers, printed, cur>>
    BY <1>2 DEF SpawnRaises, childVars, lineVars
  <2>3. out[q] = FALSE /\ leftovers[q] = <<>> /\ pipe[q] = <<>> /\ buffer[q] = <<>>
    BY <2>1 DEF OpenInv, Dry, IInv, Typed, TypeOK
  <2> QED
    BY <2>1, <2>2, <2>3 DEF OpenInv, Dry, Finished
<1>3. ASSUME NEW q \in Process, Resume(q) PROVE OpenInv'
  BY <1>3 DEF Resume, childVars, lineVars, OpenInv, Dry, Finished
<1>4. ASSUME BeginRound \/ EndRound \/ WaitReturns \/ PollPending PROVE OpenInv'
  BY <1>4 DEF BeginRound, EndRound, WaitReturns, PollPending, Yield, childVars,
       lineVars, OpenInv, Dry, Finished
<1>5. CASE PollBroken
  <2>1. Dry(cur) /\ pc' = "broken"
    BY <1>5, <1>t DEF PollBroken, OpenInv
  <2>2. UNCHANGED <<child, out, sent, pipe, io, buffer, leftovers, printed, job, cur>>
    BY <1>5 DEF PollBroken, childVars, lineVars
  <2> QED
    BY <2>1, <2>2 DEF OpenInv, Dry, Finished
<1>6. CASE ReadBroken
  <2>1. io[cur] = "idle" /\ ~out[cur] /\ pipe[cur] = <<>> /\ pc' = "broken"
    BY <1>6 DEF ReadBroken, IInv, RoundInv, ReadInv, Running
  <2>2. UNCHANGED <<child, out, sent, pipe, io, buffer, leftovers, printed, job, cur>>
    BY <1>6 DEF ReadBroken, childVars, lineVars
  <2> QED
    BY <1>t, <2>1, <2>2 DEF OpenInv, Dry, Finished
<1>7. ASSUME PollData \/ ReadData PROVE OpenInv'
  <2>1. /\ cur \in Process /\ job[cur] = "running" /\ cur' = cur /\ pc' = "read"
        /\ UNCHANGED <<child, out, sent, job>>
    BY <1>7 DEF PollData, ReadData, childVars, IInv, RoundInv, Running
  <2>2. io'[cur] = "idle"
    BY <1>7 DEF PollData, ReadData, IInv, RoundInv, ReadInv, Running, Typed, TypeOK
  <2>3. \A r \in Process \ {cur} :
           /\ io'[r] = io[r] /\ pipe'[r] = pipe[r] /\ buffer'[r] = buffer[r]
           /\ leftovers'[r] = leftovers[r] /\ printed'[r] = printed[r]
    BY <1>7 DEF PollData, ReadData, Feed, IInv, Typed, TypeOK, LineTyped
  <2> QED
    BY <2>1, <2>2, <2>3 DEF OpenInv, Dry, Finished
<1>8. CASE ReadPending
  <2>1. /\ io' = [io EXCEPT ![cur] = "pending"] /\ pc' = "round" /\ cur' = cur
        /\ UNCHANGED <<child, out, sent, pipe, buffer, leftovers, printed, job>>
    BY <1>8 DEF ReadPending, Yield, childVars, lineVars
  <2> QED
    BY <2>1 DEF OpenInv, Dry, Finished, IInv, Typed, TypeOK
<1>9. CASE Finish
  <2>1. /\ Dry(cur) /\ cur \in Process /\ job[cur] = "running" /\ pc' = "round" /\ cur' = cur
        /\ UNCHANGED <<child, out, sent, pipe, io, buffer>>
    BY <1>9 DEF Finish, childVars, OpenInv, IInv, RoundInv, Running
  <2>2. leftovers'[cur] = <<>> /\ job'[cur] \in {"ok", "failed"}
    BY <1>9, <2>1 DEF Finish, IInv, Typed, TypeOK, LineTyped
  <2>3. \A r \in Process \ {cur} : /\ leftovers'[r] = leftovers[r] /\ job'[r] = job[r]
                                   /\ printed'[r] = printed[r]
    BY <1>9, <2>1 DEF Finish, PrintRest, IInv, Typed, TypeOK, LineTyped
  <2> QED
    BY <2>1, <2>2, <2>3 DEF OpenInv, Dry, Finished
<1>10. ASSUME NEW q \in Process, NEW n \in 1 .. Len(text[q]), Write(q, n) PROVE OpenInv'
  <2>1. out[q] /\ UNCHANGED <<child, out, leftovers, printed, job, pc, cur>>
    BY <1>10 DEF Write, lineVars, prestoVars
  <2>2. \A r \in Process \ {q} : /\ io'[r] = io[r] /\ pipe'[r] = pipe[r]
                                 /\ buffer'[r] = buffer[r] /\ sent'[r] = sent[r]
    BY <1>10 DEF Write, IInv, Typed, TypeOK
  <2>3. io'[q] # "broken"
    BY <1>10, <2>1 DEF Write, OpenInv, Dry, IInv, Typed, TypeOK
  <2>4. job[q] = "running" /\ (pc = "broken" => cur # q)
    BY <2>1 DEF OpenInv, Dry
  <2> QED
    BY <1>t, <2>1, <2>2, <2>3, <2>4 DEF OpenInv, Dry, Finished
<1>11. ASSUME NEW q \in Process, CloseOutput(q) PROVE OpenInv'
  <2>1. /\ out[q] /\ out' = [out EXCEPT ![q] = FALSE]
        /\ UNCHANGED <<child, sent, pipe, buffer, leftovers, printed, job, pc, cur>>
    BY <1>11 DEF CloseOutput, lineVars, prestoVars
  <2>2. \A r \in Process \ {q} : io'[r] = io[r]
    BY <1>11 DEF CloseOutput, IInv, Typed, TypeOK
  <2>3. io'[q] = "broken" => pipe[q] = <<>> /\ buffer[q] = <<>>
    BY <1>11, <1>t DEF CloseOutput, OpenInv, Dry, IInv, ReadInv, Typed, TypeOK
  <2>4. ~out'[q] /\ \A r \in Process \ {q} : out'[r] = out[r]
    BY <2>1 DEF IInv, Typed, TypeOK
  <2>5. \A r \in Process : Dry(r) => r # q /\ Dry(r)'
    BY <2>1, <2>4 DEF Dry
  <2>6. io'[q] = "broken" => Dry(q)'
    BY <2>1, <2>3, <2>4 DEF Dry
  <2>7. Dry(cur) => Dry(cur)'
    BY <1>t, <2>1, <2>5
  <2>8. \A r \in Process : out'[r] => r # q /\ out[r]
    BY <2>1, <2>4
  <2>9. \A r \in Process : Finished(r)' <=> Finished(r)
    BY <2>1 DEF Finished
  <2> QED
    BY <2>1, <2>2, <2>5, <2>6, <2>7, <2>8, <2>9 DEF OpenInv
<1>12. ASSUME NEW q \in Process, End(q) PROVE OpenInv'
  <2>1. /\ child' = [child EXCEPT ![q] = "ended"]
        /\ UNCHANGED <<out, sent, pipe, io, buffer, leftovers, printed, job, pc, cur>>
    BY <1>12 DEF End, lineVars, prestoVars
  <2> QED
    BY <2>1 DEF OpenInv, Dry, Finished, IInv, Typed, TypeOK
<1>13. CASE Terminated
  BY <1>0, <1>13 DEF Terminated
<1> QED
  BY <1>0, <1>1, <1>2, <1>3, <1>4, <1>5, <1>6, <1>7, <1>8, <1>9, <1>10, <1>11, <1>12,
     <1>13 DEF Next, Presto, Children, Writes

-----------------------------------------------------------------------------
(***************************************************************************)
(* What the lines printed and the rest left over owe to what was taken:    *)
(* all its text; an end of it without a carriage return; the lines a cut   *)
(* of it in one piece gives, up to torn line ends.                         *)
(***************************************************************************)
ShownInv == \A q \in Process : Plain(Shown(q) \o leftovers[q]) = Plain(Consumed(q))
LeftInv == \A q \in Process : EndOf(leftovers[q], Consumed(q))
LineInv ==
    \A q \in Process :
        ~Finished(q) =>
            Agrees(printed[q], leftovers[q], Cut(<<>>, Consumed(q)), q \in torn)

LInv == IInv /\ LineTyped /\ Delivered /\ OpenInv

\* All these texts are made of characters.
LEMMA Characters ==
    ASSUME LInv, NEW q \in Process
    PROVE  /\ Consumed(q) \in Seq(Char) /\ Written(q) \in Seq(Char) /\ Stock(q) \in Seq(Char)
           /\ printed[q] \in Seq(Seq(Char)) /\ leftovers[q] \in Seq(Char)
           /\ Shown(q) \in Seq(Char)
<1>1. /\ text[q] \in Seq(Char) /\ sent[q] \in 0 .. Len(text[q])
      /\ pipe[q] \in Seq(Char) /\ buffer[q] \in Seq(Char)
      /\ printed[q] \in Seq(Seq(Char)) /\ leftovers[q] \in Seq(Char)
      /\ Len(Stock(q)) <= sent[q]
  BY DEF LInv, IInv, Typed, TypeOK, LineTyped, Delivered
<1>2. ASSUME NEW s \in Seq(Char), NEW m \in 0 .. Len(s) PROVE SubSeq(s, 1, m) \in Seq(Char)
  BY SplitAt
<1>3. Stock(q) \in Seq(Char) /\ Len(Stock(q)) \in Nat
  <2>1. ASSUME NEW a \in Seq(Char), NEW b \in Seq(Char)
        PROVE  a \o b \in Seq(Char) /\ Len(a \o b) \in Nat
    OBVIOUS
  <2> QED
    BY <1>1, <2>1 DEF Stock
<1>4. sent[q] - Len(Stock(q)) \in 0 .. Len(text[q])
  BY <1>1, <1>3
<1>5. Consumed(q) \in Seq(Char)
  BY <1>1, <1>2, <1>4 DEF Consumed
<1>6. Written(q) \in Seq(Char)
  BY <1>1, <1>2 DEF Written
<1>7. Shown(q) \in Seq(Char)
  <2>1. ASSUME NEW p \in Seq(Seq(Char)) PROVE FlattenSeq(p) \in Seq(Char)
    BY FlattenConcat
  <2> QED
    BY <1>1, <2>1 DEF Shown
<1> QED
  BY <1>1, <1>3, <1>5, <1>6, <1>7

\* A step that is neither a read nor the end of a job leaves all of this alone.
LEMMA LinesAlone ==
    ASSUME LInv, [Next]_vars
    PROVE  \/ /\ UNCHANGED lineVars
              /\ \A q \in Process : Consumed(q)' = Consumed(q)
              /\ \A q \in Process :
                    \/ job'[q] = job[q]
                    \/ job[q] = "new" /\ job'[q] \in {"running", "failed"}
           \/ \E chunk : Fed(chunk)
           \/ Finish
<1>1. ASSUME Aside
      PROVE  UNCHANGED lineVars /\ \A q \in Process : Consumed(q)' = Consumed(q)
  BY <1>1 DEF Aside, Consumed
<1>2. ASSUME NEW q \in Process, NEW n \in 1 .. Len(text[q]), Write(q, n)
      PROVE  UNCHANGED <<lineVars, job>> /\ \A r \in Process : Consumed(r)' = Consumed(r)
  <2>1. Consumed(q)' = Consumed(q)
    BY <1>2, WriteSends DEF LInv, IInv
  <2>2. ASSUME NEW r \in Process \ {q} PROVE Consumed(r)' = Consumed(r)
    <3>1. text' = text /\ sent'[r] = sent[r] /\ pipe'[r] = pipe[r] /\ buffer'[r] = buffer[r]
      BY <1>2 DEF Write, inputVars, LInv, IInv, Typed
    <3> QED
      BY <3>1 DEF Stock, Consumed
  <2> QED
    BY <1>2, <2>1, <2>2 DEF Write, prestoVars
<1> QED
  BY <1>1, <1>2, OutputSteps DEF LInv, Aside

\* What the helper does to the output of `cur', and what flushio does at its end.
LEMMA FedLines ==
    ASSUME LInv, NEW chunk, Fed(chunk)
    PROVE  /\ printed'[cur] = printed[cur] \o Cut(leftovers[cur], chunk).lines
           /\ leftovers'[cur] = Cut(leftovers[cur], chunk).left
           /\ \A q \in Process \ {cur} : /\ printed'[q] = printed[q]
                                         /\ leftovers'[q] = leftovers[q]
                                         /\ q \in torn' <=> q \in torn
           /\ cur \in torn' <=> (cur \in torn \/ Last(chunk) = CR)
           /\ Cut(leftovers[cur], chunk).lines \in Seq(Seq(Char))
           /\ Cut(leftovers[cur], chunk).left \in Seq(Char)
<1>1. cur \in Process /\ chunk \in Seq(Char) /\ leftovers[cur] \in Seq(Char)
  BY DEF Fed, LInv, LineTyped
<1>2. /\ Cut(leftovers[cur], chunk).lines \in Seq(Seq(Char))
      /\ Cut(leftovers[cur], chunk).left \in Seq(Char)
  BY <1>1, CutTyped DEF CutState
<1>3. /\ printed' = [printed EXCEPT ![cur] = printed[cur] \o Cut(leftovers[cur], chunk).lines]
      /\ leftovers' = [leftovers EXCEPT ![cur] = Cut(leftovers[cur], chunk).left]
      /\ torn' = IF Last(chunk) = CR THEN torn \cup {cur} ELSE torn
  BY DEF Fed, Feed
<1> QED
  BY <1>1, <1>2, <1>3 DEF LInv, LineTyped

\* What flushio does to the output of a job at its end.
LEMMA FinishLines ==
    ASSUME LInv, Finish
    PROVE  /\ cur \in Process /\ job[cur] = "running" /\ Stock(cur) = <<>>
           /\ printed'[cur] = IF leftovers[cur] = <<>> THEN printed[cur]
                              ELSE Append(printed[cur], leftovers[cur])
           /\ leftovers'[cur] = <<>> /\ job'[cur] \in {"ok", "failed"}
           /\ \A q \in Process \ {cur} : /\ printed'[q] = printed[q]
                                         /\ leftovers'[q] = leftovers[q]
                                         /\ job'[q] = job[q]
           /\ torn' = torn /\ cur' = cur
           /\ \A q \in Process : Consumed(q)' = Consumed(q) /\ Written(q)' = Written(q)
<1>1. cur \in Process /\ job[cur] = "running" /\ Dry(cur)
  BY DEF Finish, LInv, IInv, RoundInv, Running, OpenInv
<1>2. Stock(cur) = <<>>
  BY <1>1 DEF Dry, Stock
<1>3. UNCHANGED <<text, sent, pipe, buffer, torn, cur>>
  BY DEF Finish, inputVars, childVars
<1>4. /\ leftovers' = [leftovers EXCEPT ![cur] = <<>>]
      /\ job' = [job EXCEPT ![cur] = IF CodeRead = 0 THEN "ok" ELSE "failed"]
      /\ printed' = [printed EXCEPT ![cur] = IF leftovers[cur] = <<>> THEN printed[cur]
                                             ELSE Append(printed[cur], leftovers[cur])]
  BY DEF Finish, PrintRest
<1>5. /\ leftovers'[cur] = <<>>
      /\ printed'[cur] = IF leftovers[cur] = <<>> THEN printed[cur]
                         ELSE Append(printed[cur], leftovers[cur])
  BY <1>1, <1>4 DEF LInv, LineTyped
<1>6. job'[cur] \in {"ok", "failed"}
  BY <1>1, <1>4 DEF LInv, IInv, Typed, TypeOK
<1>7. \A q \in Process \ {cur} : /\ printed'[q] = printed[q]
                                 /\ leftovers'[q] = leftovers[q]
                                 /\ job'[q] = job[q]
  BY <1>4 DEF LInv, LineTyped, IInv, Typed, TypeOK
<1>8. \A q \in Process : Consumed(q)' = Consumed(q) /\ Written(q)' = Written(q)
  BY <1>3 DEF Consumed, Written, Stock
<1> QED
  BY <1>1, <1>2, <1>3, <1>5, <1>6, <1>7, <1>8

\* What the helper prints and leaves over is the chunk behind what was left
\* over before.
LEMMA ShownStep ==
    ASSUME LInv, ShownInv, [Next]_vars
    PROVE  ShownInv'
<1>1. ASSUME UNCHANGED lineVars, \A q \in Process : Consumed(q)' = Consumed(q)
      PROVE  ShownInv'
  BY <1>1 DEF ShownInv, Shown, lineVars
<1>2. ASSUME NEW chunk, Fed(chunk) PROVE ShownInv'
  <2> DEFINE left == leftovers[cur]
             cut == Cut(left, chunk)
             lines == cut.lines
             rest == cut.left
             old == Shown(cur)
             more == FlattenSeq(lines)
             taken == Consumed(cur)
  <2>1. chunk \in Seq(Char) /\ cur \in Process
    BY <1>2 DEF Fed
  <2>2. left \in Seq(Char) /\ old \in Seq(Char) /\ printed[cur] \in Seq(Seq(Char))
        /\ taken \in Seq(Char)
    BY <2>1, Characters
  <2>3. lines \in Seq(Seq(Char)) /\ rest \in Seq(Char)
    BY <1>2, FedLines
  <2>4. more \in Seq(Char) /\ FlattenSeq(printed[cur] \o lines) = old \o more
    <3>1. ASSUME NEW a \in Seq(Seq(Char)), NEW b \in Seq(Seq(Char))
          PROVE  /\ FlattenSeq(b) \in Seq(Char)
                 /\ FlattenSeq(a \o b) = FlattenSeq(a) \o FlattenSeq(b)
      BY FlattenConcat
    <3> QED
      BY <2>2, <2>3, <3>1 DEF Shown
  <2>5. Plain(more \o rest) = Plain(left \o chunk)
    BY <2>1, <2>2, CutText DEF TextOf, Plain
  <2>6. Plain(old \o left) = Plain(taken)
    BY <2>1 DEF ShownInv
  <2>7. printed'[cur] = printed[cur] \o lines /\ leftovers'[cur] = rest /\ cur' = cur
    BY <1>2, FedLines DEF Fed
  <2>8. Consumed(cur)' = taken \o chunk
    BY <1>2, FedTakes DEF LInv
  <2>9. Shown(cur)' = old \o more
    BY <2>4, <2>7 DEF Shown
  <2> HIDE DEF left, cut, lines, rest, old, more, taken
  <2>10. Plain((old \o more) \o rest) = Plain(taken \o chunk)
    <3>1. Plain((old \o more) \o rest) = Plain(old) \o Plain(more \o rest)
      <4>1. old \in Seq(Char) /\ more \in Seq(Char) /\ rest \in Seq(Char)
        BY <2>2, <2>3, <2>4
      <4>2. (old \o more) \o rest = old \o (more \o rest) /\ more \o rest \in Seq(Char)
        BY <4>1, Regroup
      <4>3. Plain(old \o (more \o rest)) = Plain(old) \o Plain(more \o rest)
        BY <4>1, <4>2, PlainConcat
      <4> QED
        BY <4>2, <4>3
    <3>2. Plain(left \o chunk) = Plain(left) \o Plain(chunk)
          /\ Plain(left) \in Seq(Char) /\ Plain(chunk) \in Seq(Char)
      BY <2>1, <2>2, PlainConcat
    <3>3. Plain(taken \o chunk) = Plain(taken) \o Plain(chunk)
          /\ Plain(old \o left) = Plain(old) \o Plain(left) /\ Plain(old) \in Seq(Char)
      BY <2>1, <2>2, PlainConcat
    <3>4. (Plain(old) \o Plain(left)) \o Plain(chunk) = Plain(old) \o (Plain(left) \o Plain(chunk))
      BY <3>2, <3>3, Regroup
    <3> QED
      BY <2>5, <2>6, <3>1, <3>2, <3>3, <3>4
  <2>11. ASSUME NEW q \in Process
         PROVE  (Plain(Shown(q) \o leftovers[q]) = Plain(Consumed(q)))'
    <3>1. CASE q = cur
      BY <2>7, <2>8, <2>9, <2>10, <3>1
    <3>2. CASE q # cur
      <4>1. printed'[q] = printed[q] /\ leftovers'[q] = leftovers[q]
        BY <1>2, <3>2, FedLines
      <4>2. Consumed(q)' = Consumed(q)
        BY <1>2, <3>2, FedTakes DEF LInv
      <4> QED
        BY <4>1, <4>2 DEF ShownInv, Shown
    <3> QED
      BY <3>1, <3>2
  <2> QED
    BY <2>11 DEF ShownInv
<1>3. CASE Finish
  <2>1. ASSUME NEW q \in Process \ {cur}
        PROVE  (Plain(Shown(q) \o leftovers[q]) = Plain(Consumed(q)))'
    BY <1>3, FinishLines DEF ShownInv, Shown
  <2>2. (Shown(cur) \o leftovers[cur])' = Shown(cur) \o leftovers[cur]
    <3>1. cur \in Process /\ cur' = cur
      BY <1>3, FinishLines
    <3>2. Shown(cur) \in Seq(Char) /\ leftovers[cur] \in Seq(Char) /\ printed[cur] \in Seq(Seq(Char))
      BY <3>1, Characters
    <3>3. leftovers'[cur] = <<>>
      BY <1>3, FinishLines
    <3>4. CASE leftovers[cur] = <<>>
      BY <1>3, <3>1, <3>3, <3>4, FinishLines DEF Shown
    <3>5. CASE leftovers[cur] # <<>>
      <4>1. printed'[cur] = Append(printed[cur], leftovers[cur])
        BY <1>3, <3>5, FinishLines
      <4>2. Shown(cur)' = Shown(cur) \o leftovers[cur]
        BY <3>1, <3>2, <4>1, FlattenSteps DEF Shown
      <4>3. ASSUME NEW a \in Seq(Char), NEW b \in Seq(Char) PROVE (a \o b) \o <<>> = a \o b
        OBVIOUS
      <4> QED
        BY <3>1, <3>2, <3>3, <4>2, <4>3
    <3> QED
      BY <3>4, <3>5
  <2>3. (Plain(Shown(cur) \o leftovers[cur]) = Plain(Consumed(cur)))'
    BY <1>3, <2>2, FinishLines DEF ShownInv
  <2> QED
    BY <1>3, <2>1, <2>3, FinishLines DEF ShownInv
<1> QED
  BY <1>1, <1>2, <1>3, LinesAlone

\* What is left over is an end of what was taken.
LEMMA LeftStep ==
    ASSUME LInv, LeftInv, [Next]_vars
    PROVE  LeftInv'
<1>1. ASSUME UNCHANGED lineVars, \A q \in Process : Consumed(q)' = Consumed(q)
      PROVE  LeftInv'
  BY <1>1 DEF LeftInv, lineVars
<1>2. ASSUME NEW chunk, Fed(chunk) PROVE LeftInv'
  <2>1. chunk \in Seq(Char) /\ cur \in Process /\ cur' = cur
    BY <1>2 DEF Fed
  <2>2. leftovers[cur] \in Seq(Char) /\ Consumed(cur) \in Seq(Char)
    BY <2>1, Characters
  <2>3. EndOf(leftovers[cur], Consumed(cur))
    BY <2>1 DEF LeftInv
  <2>4. EndOf(Cut(leftovers[cur], chunk).left, Consumed(cur) \o chunk)
    BY <2>1, <2>2, <2>3, CutEnd
  <2>5. EndOf(leftovers'[cur], Consumed(cur)')
    BY <1>2, <2>4, FedLines, FedTakes DEF LInv
  <2>6. ASSUME NEW q \in Process \ {cur} PROVE EndOf(leftovers'[q], Consumed(q)')
    <3>1. leftovers'[q] = leftovers[q] /\ Consumed(q)' = Consumed(q)
      BY <1>2, FedLines, FedTakes DEF LInv
    <3> QED
      BY <3>1 DEF LeftInv
  <2> QED
    BY <2>1, <2>5, <2>6 DEF LeftInv
<1>3. CASE Finish
  <2>1. cur \in Process /\ leftovers'[cur] = <<>>
    BY <1>3, FinishLines
  <2>2. Consumed(cur) \in Seq(Char)
    BY <2>1, Characters
  <2>3. EndOf(<<>>, Consumed(cur))
    <3>1. <<>> \in Seq(Char) /\ CR \in Char
      BY DEF Char
    <3> QED
      BY <2>2, <3>1, EndGrows
  <2>4. \A q \in Process : Consumed(q)' = Consumed(q)
    BY <1>3, FinishLines
  <2>5. ASSUME NEW q \in Process \ {cur} PROVE EndOf(leftovers'[q], Consumed(q)')
    <3>1. leftovers'[q] = leftovers[q]
      BY <1>3, FinishLines
    <3> QED
      BY <2>4, <3>1 DEF LeftInv
  <2>6. ASSUME NEW q \in Process PROVE EndOf(leftovers'[q], Consumed(q)')
    BY <2>1, <2>3, <2>4, <2>5
  <2> QED
    BY <2>6 DEF LeftInv
<1> QED
  BY <1>1, <1>2, <1>3, LinesAlone

\* The lines agree with the whole text as far as it was taken.
LEMMA LineStep ==
    ASSUME LInv, LineInv, [Next]_vars
    PROVE  LineInv'
<1>1. ASSUME UNCHANGED lineVars, \A q \in Process : Consumed(q)' = Consumed(q),
             \A q \in Process :
                \/ job'[q] = job[q]
                \/ job[q] = "new" /\ job'[q] \in {"running", "failed"}
      PROVE  LineInv'
  <2> SUFFICES ASSUME NEW q \in Process, ~Finished(q)'
               PROVE  Agrees(printed'[q], leftovers'[q], Cut(<<>>, Consumed(q)'), q \in torn')
    BY DEF LineInv
  <2>1. ~Finished(q)
    BY <1>1 DEF Finished
  <2> QED
    BY <1>1, <2>1 DEF LineInv, lineVars
<1>2. ASSUME NEW chunk, Fed(chunk) PROVE LineInv'
  <2> SUFFICES ASSUME NEW q \in Process, ~Finished(q)'
               PROVE  Agrees(printed'[q], leftovers'[q], Cut(<<>>, Consumed(q)'), q \in torn')
    BY DEF LineInv
  <2>1. chunk \in Seq(Char) /\ chunk # <<>> /\ cur \in Process /\ job' = job
    BY <1>2 DEF Fed
  <2>2. Agrees(printed[q], leftovers[q], Cut(<<>>, Consumed(q)), q \in torn)
    BY <2>1 DEF LineInv, Finished
  <2>3. CASE q = cur
    <3> DEFINE p == printed[cur]
               l == leftovers[cur]
               before == Consumed(cur)
               apart == cur \in torn
    <3>1. p \in Seq(Seq(Char)) /\ l \in Seq(Char) /\ before \in Seq(Char)
      BY <2>1, Characters
    <3>2. Agrees(p, l, Cut(<<>>, before), apart)
      BY <2>2, <2>3
    <3>3. Agrees(p \o Cut(l, chunk).lines, Cut(l, chunk).left, Cut(<<>>, before \o chunk),
                 apart \/ Last(chunk) = CR)
      BY <2>1, <3>1, <3>2, CutAgrees
    <3>4. /\ printed'[cur] = p \o Cut(l, chunk).lines
          /\ leftovers'[cur] = Cut(l, chunk).left
          /\ cur \in torn' <=> (apart \/ Last(chunk) = CR)
      BY <1>2, FedLines
    <3>5. Consumed(cur)' = before \o chunk /\ cur' = cur
      BY <1>2, FedTakes DEF LInv, Fed
    <3> HIDE DEF p, l, before, apart
    <3> QED
      BY <2>3, <3>3, <3>4, <3>5 DEF Agrees, NearLines, Near
  <2>4. CASE q # cur
    <3>1. /\ printed'[q] = printed[q] /\ leftovers'[q] = leftovers[q]
          /\ q \in torn' <=> q \in torn
      BY <1>2, <2>4, FedLines
    <3>2. Consumed(q)' = Consumed(q)
      BY <1>2, <2>4, FedTakes DEF LInv
    <3> QED
      BY <2>2, <3>1, <3>2 DEF Agrees, NearLines, Near
  <2> QED
    BY <2>3, <2>4
<1>3. CASE Finish
  <2> SUFFICES ASSUME NEW q \in Process, ~Finished(q)'
               PROVE  Agrees(printed'[q], leftovers'[q], Cut(<<>>, Consumed(q)'), q \in torn')
    BY DEF LineInv
  <2>1. q # cur
    BY <1>3, FinishLines DEF Finished
  <2>2. /\ printed'[q] = printed[q] /\ leftovers'[q] = leftovers[q] /\ job'[q] = job[q]
        /\ torn' = torn
    BY <1>3, <2>1, FinishLines
  <2>3. Consumed(q)' = Consumed(q)
    BY <1>3, FinishLines
  <2>4. ~Finished(q)
    BY <2>2 DEF Finished
  <2> QED
    BY <2>2, <2>3, <2>4 DEF LineInv
<1> QED
  BY <1>1, <1>2, <1>3, LinesAlone

(***************************************************************************)
(* A job that is done has no text to come, so its lines stay what they     *)
(* were when it finished.  One that never started has none.                *)
(***************************************************************************)
LEMMA WrittenStays ==
    ASSUME LInv, [Next]_vars, NEW q \in Process, ~out[q], ~out'[q]
    PROVE  Written(q)' = Written(q)
<1>1. CASE Aside
  BY <1>1 DEF Aside, Written
<1>2. ASSUME NEW r \in Process, NEW n \in 1 .. Len(text[r]), Write(r, n)
      PROVE  Written(q)' = Written(q)
  BY <1>2 DEF Write, inputVars, Written, LInv, IInv, Typed
<1>3. ASSUME NEW chunk, Fed(chunk) PROVE Written(q)' = Written(q)
  BY <1>3 DEF Fed, Written
<1>4. CASE Finish
  BY <1>4, FinishLines
<1> QED
  BY <1>1, <1>2, <1>3, <1>4, OutputSteps DEF LInv

\* A job that has not started has no lines.
LEMMA NothingWritten ==
    ASSUME LInv, NEW q \in Process, job[q] = "new"
    PROVE  Written(q) = <<>> /\ printed[q] = <<>> /\ LinesOf(<<>>) = <<>>
<1>1. sent[q] = 0 /\ printed[q] = <<>>
  BY DEF LInv, OpenInv
<1>2. Written(q) = <<>>
  BY <1>1, SubSeqEmpty DEF Written
<1>3. <<>> \in Seq(Char)
  OBVIOUS
<1>4. Cut(<<>>, <<>>) = Open(<<>>)
  BY <1>3, CutSteps
<1>5. LinesOf(<<>>) = <<>>
  <2>1. ASSUME NEW s \in Seq(Char), NEW w, w = Cut(<<>>, s)
        PROVE  LinesOf(s) = IF w.left = <<>> THEN w.lines ELSE Append(w.lines, w.left)
    BY <2>1, LinesFound
  <2>2. Open(<<>>).left = <<>> /\ Open(<<>>).lines = <<>>
    BY DEF Open
  <2> QED
    BY <1>3, <1>4, <2>1, <2>2
<1> QED
  BY <1>1, <1>2, <1>5

\* At the end of a job its lines are those of the text.
LEMMA WholeStep ==
    ASSUME LInv, LInv', LineInv, LinesWhole, [Next]_vars
    PROVE  LinesWhole'
<1> DEFINE Right(q) == \/ printed[q] = LinesOf(Written(q))
                       \/ q \in torn /\ SameUpToTornEnds(printed[q], LinesOf(Written(q)))
<1>1. SUFFICES ASSUME NEW q \in Process, Finished(q)' PROVE Right(q)'
  BY DEF LinesWhole
<1>2. ASSUME printed'[q] = printed[q], q \in torn' <=> q \in torn, job'[q] = job[q]
      PROVE  Right(q)'
  <2>1. Finished(q) /\ Right(q)
    BY <1>1, <1>2 DEF Finished, LinesWhole
  <2>2. ~out[q] /\ ~out'[q]
    BY <1>1, <2>1 DEF LInv, OpenInv, Dry
  <2>3. Written(q)' = Written(q)
    BY <2>2, WrittenStays
  <2> QED
    BY <1>2, <2>1, <2>3
<1>3. ASSUME UNCHANGED lineVars, job[q] = "new" PROVE Right(q)'
  <2>1. printed[q] = <<>> /\ Written(q) = <<>> /\ LinesOf(<<>>) = <<>>
    BY <1>3, NothingWritten
  <2>2. ~out[q] /\ ~out'[q]
    BY <1>1, <1>3 DEF LInv, OpenInv, Dry
  <2>3. Written(q)' = Written(q)
    BY <2>2, WrittenStays
  <2> QED
    BY <1>3, <2>1, <2>3 DEF lineVars
<1>4. ASSUME NEW chunk, Fed(chunk) PROVE Right(q)'
  <2>1. q # cur /\ job'[q] = job[q]
    BY <1>1, <1>4 DEF Fed, Finished
  <2> QED
    BY <1>2, <1>4, <2>1, FedLines
<1>5. CASE Finish
  <2>1. CASE q # cur
    BY <1>2, <1>5, <2>1, FinishLines
  <2>2. CASE q = cur
    <3>1. /\ job[q] = "running" /\ Stock(q) = <<>> /\ torn' = torn
          /\ Written(q)' = Written(q)
          /\ printed'[q] = IF leftovers[q] = <<>> THEN printed[q]
                           ELSE Append(printed[q], leftovers[q])
      BY <1>5, <2>2, FinishLines
    <3>2. /\ printed[q] \in Seq(Seq(Char)) /\ leftovers[q] \in Seq(Char)
          /\ Consumed(q) \in Seq(Char)
      BY Characters
    <3>3. Written(q) = Consumed(q)
      <4>1. Written(q) = Consumed(q) \o Stock(q)
        BY DEF LInv, Delivered
      <4>2. Consumed(q) \o <<>> = Consumed(q)
        BY <3>2
      <4> QED
        BY <3>1, <4>1, <4>2
    <3>4. Agrees(printed[q], leftovers[q], Cut(<<>>, Consumed(q)), q \in torn)
      BY <3>1 DEF LineInv, Finished
    <3>5. \/ printed'[q] = LinesOf(Consumed(q))
          \/ q \in torn /\ SameUpToTornEnds(printed'[q], LinesOf(Consumed(q)))
      BY <3>1, <3>2, <3>4, LinesAtEnd
    <3> QED
      BY <3>1, <3>3, <3>5
  <2> QED
    BY <2>1, <2>2
<1> HIDE DEF Right
<1> QED
  BY <1>2, <1>3, <1>4, <1>5, LinesAlone DEF lineVars

-----------------------------------------------------------------------------
(***************************************************************************)
(* The inductive invariant of the output.                                  *)
(***************************************************************************)
OutputInv == LInv /\ ShownInv /\ LeftInv /\ LineInv /\ LinesWhole

\* All of it holds at the start.
LEMMA OutputInit == Init => OutputInv
<1> SUFFICES ASSUME Init PROVE OutputInv
  OBVIOUS
<1>1. IInv
  BY InitInv
<1>2. LineTyped
  BY DEF Init, LineTyped
<1>3. ASSUME NEW q \in Process
      PROVE  /\ text[q] \in Seq(Char) /\ sent[q] = 0 /\ job[q] = "new" /\ ~out[q]
             /\ buffer[q] = <<>> /\ pipe[q] = <<>> /\ io[q] = "idle"
             /\ leftovers[q] = <<>> /\ printed[q] = <<>>
  BY <1>1 DEF Init, IInv, Typed
<1>4. ASSUME NEW q \in Process
      PROVE  /\ Stock(q) = <<>> /\ Len(Stock(q)) = 0 /\ Written(q) = <<>>
             /\ Consumed(q) = <<>>
  <2>1. Stock(q) = <<>>
    BY <1>3 DEF Stock
  <2>2. SubSeq(text[q], 1, 0) = <<>>
    BY SubSeqEmpty
  <2> QED
    BY <1>3, <2>1, <2>2 DEF Written, Consumed
<1>5. Delivered
  <2>1. <<>> \o <<>> = <<>>
    OBVIOUS
  <2>2. ASSUME NEW q \in Process
        PROVE  Len(Stock(q)) <= sent[q] /\ Written(q) = Consumed(q) \o Stock(q)
    <3>1. Len(Stock(q)) <= sent[q]
      BY <1>3, <1>4
    <3>2. Written(q) = Consumed(q) \o Stock(q)
      BY <1>4, <2>1
    <3> QED
      BY <3>1, <3>2
  <2> QED
    BY <2>2 DEF Delivered
<1>6. OpenInv
  BY <1>3 DEF OpenInv, Dry, Finished, Init
<1>7. ShownInv
  <2>1. FlattenSeq(<<>>) \o <<>> = <<>>
    BY FlattenEmpty
  <2> QED
    BY <1>3, <1>4, <2>1 DEF ShownInv, Shown
<1>8. <<>> \in Seq(Char) /\ CR \in Char
  BY DEF Char
<1>9. LeftInv
  <2>1. EndOf(<<>>, <<>>)
    BY <1>8, EndGrows
  <2> QED
    BY <1>3, <1>4, <2>1 DEF LeftInv
<1>10. LineInv
  <2>1. Cut(<<>>, <<>>) = Open(<<>>)
    BY <1>8, CutSteps
  <2>2. /\ Open(<<>>).lines = <<>> /\ Open(<<>>).left = <<>> /\ Open(<<>>).afterCR = FALSE
    BY DEF Open
  <2>3. ASSUME NEW q \in Process
        PROVE  Agrees(printed[q], leftovers[q], Cut(<<>>, Consumed(q)), q \in torn)
    BY <1>3, <1>4, <2>1, <2>2 DEF Agrees, NearLines, Near
  <2> QED
    BY <2>3 DEF LineInv
<1>11. LinesWhole
  BY <1>3 DEF LinesWhole, Finished
<1> QED
  BY <1>1, <1>2, <1>5, <1>6, <1>7, <1>9, <1>10, <1>11 DEF OutputInv, LInv

\* The parts of the invariant that do not speak of lines.
LEMMA LInvStep == LInv /\ [Next]_vars => LInv'
<1> SUFFICES ASSUME LInv, [Next]_vars PROVE LInv'
  OBVIOUS
<1>1. IInv'
  BY IInvStep DEF LInv
<1>2. LineTyped' /\ Delivered' /\ OpenInv'
  BY LineTypedStep, DeliveredStep, OpenStep DEF LInv
<1> QED
  BY <1>1, <1>2 DEF LInv

\* The parts that do.
LEMMA OutputStep == OutputInv /\ [Next]_vars => OutputInv'
<1> SUFFICES ASSUME OutputInv, [Next]_vars PROVE OutputInv'
  OBVIOUS
<1>1. LInv /\ LInv'
  BY LInvStep DEF OutputInv
<1>2. ShownInv' /\ LeftInv' /\ LineInv'
  BY <1>1, ShownStep, LeftStep, LineStep DEF OutputInv
<1>3. LinesWhole'
  BY <1>1, WholeStep DEF OutputInv
<1> QED
  BY <1>1, <1>2, <1>3 DEF OutputInv

\* So all of it holds in every run.
LEMMA OutputHolds == Spec => []OutputInv
BY OutputInit, OutputStep, PTL DEF Spec

(***************************************************************************)
(* No character that is no line end is lost, doubled or moved, however the *)
(* writes and the reads fall: what was written is shown, left over, in the *)
(* buffer or in the pipe.                                                  *)
(***************************************************************************)
THEOREM NothingLost == Spec => []Conserved
<1>1. OutputInv => Conserved
  <2> SUFFICES ASSUME OutputInv, NEW q \in Process
               PROVE  Plain(Shown(q) \o leftovers[q] \o buffer[q] \o pipe[q])
                         = Plain(Written(q))
    BY DEF Conserved, Plain
  <2> DEFINE a == Shown(q) \o leftovers[q]
             b == buffer[q]
             c == pipe[q]
             s == Consumed(q)
  <2>0. LInv
    BY DEF OutputInv
  <2>1. Shown(q) \in Seq(Char) /\ leftovers[q] \in Seq(Char) /\ s \in Seq(Char)
    BY <2>0, Characters
  <2>2. b \in Seq(Char) /\ c \in Seq(Char)
    BY <2>0 DEF LInv, IInv, Typed
  <2>3. a \in Seq(Char)
    BY <2>1
  <2>4. Plain(a) = Plain(s)
    BY DEF OutputInv, ShownInv
  <2>5. Written(q) = s \o (b \o c)
    BY <2>0 DEF LInv, Delivered, Stock
  <2> HIDE DEF a, b, c, s
  <2>6. (a \o b) \o c = a \o (b \o c) /\ b \o c \in Seq(Char)
    BY <2>2, <2>3, Regroup
  <2>7. Plain(a \o (b \o c)) = Plain(a) \o Plain(b \o c)
    BY <2>3, <2>6, PlainConcat
  <2>8. Plain(s \o (b \o c)) = Plain(s) \o Plain(b \o c)
    BY <2>1, <2>6, PlainConcat
  <2> QED
    BY <2>4, <2>5, <2>6, <2>7, <2>8 DEF a, b, c
<1> QED
  BY <1>1, OutputHolds, PTL

(***************************************************************************)
(* A finished job has shown the lines of its text, up to line feeds torn   *)
(* off their carriage return by a read that ended between the two.         *)
(***************************************************************************)
THEOREM LinesComeWhole == Spec => []LinesWhole
<1>1. OutputInv => LinesWhole
  BY DEF OutputInv
<1> QED
  BY <1>1, OutputHolds, PTL

(***************************************************************************)
(* leftovers holds an end of the text taken, with no carriage return in    *)
(* it: it fits while no stretch of the text without one fills the room.    *)
(***************************************************************************)
THEOREM LeftoversStayIn == Spec => []LeftoversFit
<1>1. OutputInv => LeftoversFit
  <2> SUFFICES ASSUME OutputInv, NEW q \in Process PROVE Len(leftovers[q]) < Room
    BY DEF LeftoversFit
  <2> DEFINE s == Consumed(q)
             t == text[q]
  <2>0. LInv
    BY DEF OutputInv
  <2>1. s \in Seq(Char) /\ leftovers[q] \in Seq(Char)
    BY <2>0, Characters
  <2>2. PICK k \in 1 .. Len(s) + 1 : leftovers[q] = SubSeq(s, k, Len(s)) /\ ~Contains(leftovers[q], CR)
    BY DEF OutputInv, LeftInv, EndOf
  <2>3. t \in Seq(Char)
    BY <2>0 DEF LInv, IInv, Typed
  <2>4. \A i, j \in DOMAIN t : Contains(SubSeq(t, i, j), CR) \/ Len(SubSeq(t, i, j)) < Room
    BY <2>0, TextAssumption DEF LInv, LineTyped
  <2>5. CASE k = Len(s) + 1
    <3>1. leftovers[q] = <<>>
      BY <2>1, <2>2, <2>5, SubSeqEmpty
    <3> QED
      BY <3>1, ProcAssumption
  <2>6. CASE k # Len(s) + 1
    <3> DEFINE m == sent[q] - Len(Stock(q))
    <3>1. m \in 0 .. Len(t) /\ s = SubSeq(t, 1, m)
      <4>1. Len(Stock(q)) \in Nat
        BY <2>0, Characters
      <4>2. Len(Stock(q)) <= sent[q] /\ sent[q] \in 0 .. Len(t)
        BY <2>0 DEF LInv, Delivered, IInv, Typed, TypeOK
      <4> QED
        BY <2>3, <4>1, <4>2 DEF Consumed
    <3> HIDE DEF m, s, t
    <3>2. Len(s) = m /\ m \in Nat
      BY <2>3, <3>1, SplitAt
    <3>3. k \in 1 .. m /\ m \in 1 .. Len(t)
      BY <2>6, <3>1, <3>2
    <3>4. ASSUME NEW x \in Seq(Char), NEW n \in 1 .. Len(x), NEW i \in 1 .. n
          PROVE  SubSeq(SubSeq(x, 1, n), i, n) = SubSeq(x, i, n)
      <4>1. 1 \in 1 .. Len(x) /\ i \in 1 .. n - 1 + 1 /\ n \in 1 .. n - 1 + 1
        OBVIOUS
      <4>2. SubSeq(SubSeq(x, 1, n), i, n) = SubSeq(x, 1 + i - 1, 1 + n - 1)
        BY <4>1, SubSeqOfSubSeq
      <4> QED
        BY <4>2
    <3>5. SubSeq(s, k, m) = SubSeq(t, k, m)
      BY <2>3, <3>1, <3>3, <3>4
    <3>6. leftovers[q] = SubSeq(t, k, m)
      BY <2>2, <3>2, <3>5
    <3>7. k \in DOMAIN t /\ m \in DOMAIN t
      BY <2>3, <3>3
    <3> QED
      BY <2>2, <2>4, <3>6, <3>7
  <2> QED
    BY <2>5, <2>6
<1> QED
  BY <1>1, OutputHolds, PTL

-----------------------------------------------------------------------------
(***************************************************************************)
(* make.run keeps its promise: the steps of spawn, flushio, wait and the   *)
(* children are steps of RunPromise or change nothing it speaks of.        *)
(***************************************************************************)
LEMMA Elsewhere ==
    ASSUME NEW q \in Process,
           \A r \in Process \ {q} : /\ child'[r] = child[r] /\ printed'[r] = printed[r]
                                    /\ job'[r] = job[r] /\ Written(r)' = Written(r)
    PROVE  /\ Life' = [Life EXCEPT ![q] = Life'[q]] /\ Said' = [Said EXCEPT ![q] = Said'[q]]
           /\ OnScreen' = [OnScreen EXCEPT ![q] = OnScreen'[q]]
           /\ Result' = [Result EXCEPT ![q] = Result'[q]]
<1>1. Life' = [Life EXCEPT ![q] = Life'[q]]
  BY DEF Life
<1>2. Said' = [Said EXCEPT ![q] = Said'[q]]
  BY DEF Said
<1>3. OnScreen' = [OnScreen EXCEPT ![q] = OnScreen'[q]]
  BY DEF OnScreen, Shown
<1>4. Result' = [Result EXCEPT ![q] = Result'[q]]
  BY DEF Result, Finished
<1> QED
  BY <1>1, <1>2, <1>3, <1>4

\* What a step leaves alone, RunPromise does not see change.
LEMMA SameAt ==
    ASSUME NEW q \in Process
    PROVE  /\ child'[q] = child[q] => Life'[q] = Life[q]
           /\ Written(q)' = Written(q) => Said'[q] = Said[q]
           /\ printed'[q] = printed[q] => OnScreen'[q] = OnScreen[q]
           /\ job'[q] = job[q] => Result'[q] = Result[q]
BY DEF Life, Said, OnScreen, Shown, Result, Finished

\* A step that leaves all of it alone is a stutter there.
LEMMA Unseen ==
    ASSUME UNCHANGED <<text, sent, printed, job, child, code>>
    PROVE  UNCHANGED Promise!vars
BY DEF Promise!vars, Life, Said, OnScreen, Result, Written, Shown, Finished

\* presto starts as RunPromise does.
LEMMA PromiseInit == Init => Promise!Init
<1> SUFFICES ASSUME Init PROVE Promise!Init
  OBVIOUS
<1>1. ASSUME NEW q \in Process
      PROVE  /\ child[q] = "none" /\ sent[q] = 0 /\ printed[q] = <<>> /\ job[q] = "new"
  BY DEF Init
<1>2. ASSUME NEW q \in Process PROVE Plain(Written(q)) = <<>> /\ Plain(Shown(q)) = <<>>
  <2>1. Written(q) = <<>>
    BY <1>1, SubSeqEmpty DEF Written
  <2>2. Shown(q) = <<>>
    BY <1>1, FlattenEmpty DEF Shown
  <2> QED
    BY <2>1, <2>2, WithoutSteps DEF Plain
<1>3. Life = [q \in Process |-> "none"] /\ Result = [q \in Process |-> "pending"]
  BY <1>1 DEF Life, Result, Finished
<1>4. Said = [q \in Process |-> <<>>] /\ OnScreen = [q \in Process |-> <<>>]
  BY <1>2 DEF Said, OnScreen, Plain
<1>5. code = [q \in Process |-> 0]
  BY DEF Init
<1> QED
  BY <1>3, <1>4, <1>5 DEF Promise!Init

\* Spawn starts or refuses, Write says, End dies, Feed shows and Finish
\* finishes; every other step stutters.
LEMMA PromiseStep ==
    ASSUME OutputInv, OutputInv', [Next]_vars
    PROVE  [Promise!Next]_(Promise!vars)
<1>l. LInv /\ LInv'
  BY DEF OutputInv
<1>0. ASSUME UNCHANGED <<text, sent, printed, job, child, code>> PROVE UNCHANGED Promise!vars
  BY <1>0, Unseen
<1>1. CASE UNCHANGED vars
  BY <1>0, <1>1 DEF vars, inputVars, childVars, lineVars, prestoVars
<1>2. ASSUME NEW q \in Process, Spawn(q) PROVE Promise!Start(q)
  <2>1. /\ job[q] = "new" /\ job'[q] = "running" /\ child'[q] \in {"live", "never"}
        /\ UNCHANGED <<text, sent, printed, code>>
        /\ \A r \in Process \ {q} : child'[r] = child[r] /\ job'[r] = job[r]
    BY <1>2, <1>l DEF Spawn, Spawned, inputVars, lineVars, LInv, IInv, Typed, TypeOK
  <2>2. child[q] = "none"
    BY <1>l, <2>1 DEF LInv, IInv, HandleInv
  <2>3. \A r \in Process : Written(r)' = Written(r)
    BY <2>1 DEF Written
  <2>4. /\ Life' = [Life EXCEPT ![q] = Life'[q]] /\ Said' = Said /\ OnScreen' = OnScreen
        /\ Result' = [Result EXCEPT ![q] = Result'[q]]
    BY <2>1, <2>3, Elsewhere DEF Said, OnScreen, Shown
  <2>5. /\ Life[q] = "none" /\ Life'[q] \in {"live", "never"}
        /\ Result[q] = "pending" /\ Result'[q] = "pending"
    BY <2>1, <2>2 DEF Life, Result, Finished
  <2>6. Result' = Result
    BY <2>4, <2>5 DEF Result
  <2> QED
    BY <2>1, <2>4, <2>5, <2>6 DEF Promise!Start
<1>3. ASSUME NEW q \in Process, SpawnRaises(q) PROVE Promise!Refuse(q)
  <2>1. /\ job[q] = "new" /\ job'[q] = "failed"
        /\ UNCHANGED <<text, sent, printed, code, child>>
        /\ \A r \in Process \ {q} : job'[r] = job[r]
    BY <1>3, <1>l DEF SpawnRaises, inputVars, childVars, lineVars, LInv, IInv, Typed, TypeOK
  <2>2. child[q] = "none"
    BY <1>l, <2>1 DEF LInv, IInv, HandleInv
  <2>3. \A r \in Process : Written(r)' = Written(r)
    BY <2>1 DEF Written
  <2>4. /\ Life' = Life /\ Said' = Said /\ OnScreen' = OnScreen
        /\ Result' = [Result EXCEPT ![q] = Result'[q]]
    BY <2>1, <2>3, Elsewhere DEF Life, Said, OnScreen, Shown
  <2>5. Life[q] = "none" /\ Result[q] = "pending" /\ Result'[q] = "failed"
    BY <2>1, <2>2 DEF Life, Result, Finished
  <2> QED
    BY <2>1, <2>4, <2>5 DEF Promise!Refuse
<1>4. ASSUME NEW q \in Process, Resume(q) PROVE UNCHANGED Promise!vars
  BY <1>0, <1>4 DEF Resume, inputVars, childVars, lineVars
<1>5. ASSUME BeginRound \/ EndRound \/ WaitReturns PROVE UNCHANGED Promise!vars
  BY <1>0, <1>5 DEF BeginRound, EndRound, WaitReturns, inputVars, childVars, lineVars
<1>6. ASSUME PollPending \/ PollBroken \/ ReadBroken PROVE UNCHANGED Promise!vars
  BY <1>0, <1>6 DEF PollPending, PollBroken, ReadBroken, Yield, inputVars, childVars, lineVars
<1>7. ASSUME ReadPending PROVE UNCHANGED Promise!vars
  BY <1>0, <1>7 DEF ReadPending, inputVars, childVars, lineVars
<1>8. ASSUME NEW q \in Process, CloseOutput(q) PROVE UNCHANGED Promise!vars
  BY <1>0, <1>8 DEF CloseOutput, inputVars, lineVars, prestoVars
<1>9. ASSUME NEW q \in Process, End(q) PROVE Promise!Die(q)
  <2>1. /\ child[q] = "live" /\ child' = [child EXCEPT ![q] = "ended"]
        /\ \E c \in Codes : code' = [code EXCEPT ![q] = c]
        /\ UNCHANGED <<text, sent, printed, job>>
    BY <1>9 DEF End, inputVars, lineVars, prestoVars
  <2>2. code' = [code EXCEPT ![q] = code'[q]]
    BY <1>l, <2>1 DEF LInv, IInv, Typed, TypeOK
  <2>3. /\ \A r \in Process \ {q} : child'[r] = child[r]
        /\ child'[q] = "ended"
    BY <1>l, <2>1 DEF LInv, IInv, Typed, TypeOK
  <2>4. \A r \in Process : Written(r)' = Written(r)
    BY <2>1 DEF Written
  <2>5. /\ Life' = [Life EXCEPT ![q] = Life'[q]] /\ Said' = Said /\ OnScreen' = OnScreen
        /\ Result' = Result
    BY <2>1, <2>3, <2>4, Elsewhere DEF Said, OnScreen, Shown, Result, Finished
  <2>6. Life[q] = "live" /\ Life'[q] = "dead"
    BY <2>1, <2>3 DEF Life
  <2> QED
    BY <2>2, <2>5, <2>6 DEF Promise!Die, Promise!OnlyAt
<1>10. ASSUME NEW q \in Process, NEW n \in 1 .. Len(text[q]), Write(q, n)
       PROVE  Promise!Say(q) \/ UNCHANGED Promise!vars
  <2>1. PICK piece \in Seq(Char) : Written(q)' = Written(q) \o piece /\ Written(q) \in Seq(Char)
    BY <1>10, <1>l, WriteSends DEF LInv, IInv
  <2>2. /\ out[q] /\ UNCHANGED <<text, child, code, printed, job>>
        /\ \A r \in Process \ {q} : sent'[r] = sent[r]
    BY <1>10, <1>l DEF Write, inputVars, lineVars, prestoVars, LInv, IInv, Typed
  <2>3. job[q] = "running" /\ child[q] \in {"live", "ended"}
    BY <1>l, <2>2 DEF LInv, OpenInv
  <2>4. \A r \in Process \ {q} : Written(r)' = Written(r)
    BY <2>2 DEF Written
  <2>5. /\ Said' = [Said EXCEPT ![q] = Said'[q]] /\ Life' = Life /\ OnScreen' = OnScreen
        /\ Result' = Result
    BY <2>2, <2>4, Elsewhere DEF Life, OnScreen, Shown, Result, Finished
  <2>6. Result[q] = "pending" /\ Life[q] \in {"live", "dead"}
    BY <2>3 DEF Life, Result, Finished
  <2>7. Said[q] = Plain(Written(q)) /\ Said'[q] = Plain(Written(q)')
    BY DEF Said, Plain
  <2>8. /\ Plain(Written(q)) \in Seq(Char) /\ Plain(piece) \in Seq(Char)
        /\ Said'[q] = Said[q] \o Plain(piece)
    BY <2>1, <2>7, PlainConcat
  <2>9. CASE Plain(piece) = <<>>
    <3>1. Said'[q] = Said[q]
      BY <2>7, <2>8, <2>9
    <3>2. Said' = Said
      BY <2>5, <3>1 DEF Said
    <3> QED
      BY <2>2, <2>5, <3>2 DEF Promise!vars
  <2>10. CASE Plain(piece) # <<>>
    <3>1. Promise!Grows(Said[q], Said'[q])
      BY <2>7, <2>8, <2>10, Grow DEF Promise!Grows, Promise!IsPrefix, IsPrefix
    <3> QED
      BY <2>2, <2>5, <2>6, <3>1 DEF Promise!Say, Promise!OnlyAt
  <2> QED
    BY <2>9, <2>10
<1>c. ASSUME NEW q \in Process
      PROVE  /\ Promise!IsPrefix(OnScreen'[q], Said'[q])
             /\ leftovers'[q] = <<>> /\ buffer'[q] = <<>> /\ pipe'[q] = <<>> =>
                   OnScreen'[q] = Said'[q]
  <2>1. /\ printed'[q] \in Seq(Seq(Char)) /\ leftovers'[q] \in Seq(Char)
        /\ buffer'[q] \in Seq(Char) /\ pipe'[q] \in Seq(Char)
    BY <1>l DEF LInv, LineTyped, IInv, Typed
  <2>2. Shown(q)' \in Seq(Char)
    <3>1. ASSUME NEW p \in Seq(Seq(Char)) PROVE FlattenSeq(p) \in Seq(Char)
      BY FlattenConcat
    <3> QED
      BY <2>1, <3>1 DEF Shown
  <2>5. OnScreen'[q] = Plain(Shown(q)') /\ Said'[q] = Plain(Written(q)')
    BY DEF OnScreen, Said, Plain
  <2> DEFINE shown == Shown(q)'
             left == leftovers'[q]
             taken == Consumed(q)'
             stock == Stock(q)'
  <2>4. Plain(shown \o left) = Plain(taken)
    BY DEF OutputInv, ShownInv
  <2>6. Written(q)' = taken \o stock
    BY <1>l DEF LInv, Delivered
  <2>7. left = <<>> /\ buffer'[q] = <<>> /\ pipe'[q] = <<>> => stock = <<>>
    BY DEF Stock
  <2>8. shown \in Seq(Char) /\ left \in Seq(Char) /\ stock \in Seq(Char)
    BY <2>1, <2>2 DEF Stock
  <2>9. taken \in Seq(Char)
    <3>1. text'[q] \in Seq(Char) /\ sent'[q] \in 0 .. Len(text'[q])
          /\ Len(stock) <= sent'[q]
      BY <1>l DEF LInv, IInv, Typed, TypeOK, Delivered
    <3>2. ASSUME NEW s \in Seq(Char), NEW m \in 0 .. Len(s) PROVE SubSeq(s, 1, m) \in Seq(Char)
      BY SplitAt
    <3>3. Len(stock) \in Nat
      BY <2>8
    <3>4. sent'[q] - Len(stock) \in 0 .. Len(text'[q])
      BY <3>1, <3>3
    <3> QED
      BY <3>1, <3>2, <3>4 DEF Consumed
  <2> HIDE DEF shown, left, taken, stock
  <2>10. /\ IsPrefix(Plain(shown), Plain(taken \o stock))
         /\ left = <<>> /\ stock = <<>> => Plain(taken \o stock) = Plain(shown)
    BY <2>4, <2>8, <2>9, ShownFirst
  <2>11. Promise!IsPrefix(Plain(shown), Plain(taken \o stock))
    BY <2>10 DEF Promise!IsPrefix, IsPrefix
  <2> QED
    BY <2>5, <2>6, <2>7, <2>10, <2>11 DEF shown, left
<1>11. ASSUME NEW chunk, Fed(chunk), UNCHANGED <<child, code>>
       PROVE  Promise!Show(cur) \/ UNCHANGED Promise!vars
  <2> DEFINE more == FlattenSeq(Cut(leftovers[cur], chunk).lines)
  <2>1. cur \in Process /\ job[cur] = "running" /\ UNCHANGED <<text, sent, job, cur>>
    BY <1>11 DEF Fed
  <2>2. /\ printed'[cur] = printed[cur] \o Cut(leftovers[cur], chunk).lines
        /\ Cut(leftovers[cur], chunk).lines \in Seq(Seq(Char))
        /\ \A r \in Process \ {cur} : printed'[r] = printed[r]
    BY <1>11, <1>l, FedLines
  <2>3. \A r \in Process : Written(r)' = Written(r)
    BY <2>1 DEF Written
  <2>4. /\ OnScreen' = [OnScreen EXCEPT ![cur] = OnScreen'[cur]]
        /\ Life' = Life /\ Said' = Said /\ Result' = Result
    BY <1>11, <2>1, <2>2, <2>3, Elsewhere DEF Life, Said, Result, Finished
  <2>5. printed[cur] \in Seq(Seq(Char)) /\ Shown(cur) \in Seq(Char)
    BY <1>l, <2>1, Characters
  <2>6. more \in Seq(Char) /\ Shown(cur)' = Shown(cur) \o more
    <3>1. ASSUME NEW a \in Seq(Seq(Char)), NEW b \in Seq(Seq(Char))
          PROVE  /\ FlattenSeq(b) \in Seq(Char)
                 /\ FlattenSeq(a \o b) = FlattenSeq(a) \o FlattenSeq(b)
      BY FlattenConcat
    <3> QED
      BY <2>1, <2>2, <2>5, <3>1 DEF Shown
  <2>7. OnScreen[cur] = Plain(Shown(cur)) /\ OnScreen'[cur] = Plain(Shown(cur)')
    BY <2>1 DEF OnScreen, Plain
  <2> HIDE DEF more
  <2>8. /\ Plain(Shown(cur)) \in Seq(Char) /\ Plain(more) \in Seq(Char)
        /\ OnScreen'[cur] = OnScreen[cur] \o Plain(more)
    BY <2>5, <2>6, <2>7, PlainConcat
  <2>9. CASE Plain(more) = <<>>
    <3>1. OnScreen'[cur] = OnScreen[cur]
      BY <2>7, <2>8, <2>9
    <3>2. OnScreen' = OnScreen
      BY <2>4, <3>1 DEF OnScreen
    <3> QED
      BY <1>11, <2>4, <3>2 DEF Promise!vars
  <2>10. CASE Plain(more) # <<>>
    <3>1. Promise!Grows(OnScreen[cur], OnScreen'[cur])
      BY <2>7, <2>8, <2>10, Grow DEF Promise!Grows, Promise!IsPrefix, IsPrefix
    <3>2. Promise!IsPrefix(OnScreen'[cur], Said[cur])
      BY <1>c, <2>1, <2>4
    <3>3. Result[cur] = "pending"
      BY <2>1 DEF Result, Finished
    <3> QED
      BY <1>11, <2>4, <3>1, <3>2, <3>3 DEF Promise!Show, Promise!OnlyAt
  <2> QED
    BY <2>9, <2>10
<1>12. ASSUME Finish PROVE Promise!Finish(cur)
  <2>1. /\ cur \in Process /\ job[cur] = "running" /\ cur' = cur
        /\ leftovers'[cur] = <<>> /\ job'[cur] \in {"ok", "failed"}
        /\ \A r \in Process \ {cur} : printed'[r] = printed[r] /\ job'[r] = job[r]
        /\ \A r \in Process : Written(r)' = Written(r)
    BY <1>12, <1>l, FinishLines
  <2>2. /\ UNCHANGED <<child, code, buffer, pipe>> /\ ProcessGone
        /\ job' = [job EXCEPT ![cur] = IF CodeRead = 0 THEN "ok" ELSE "failed"]
    BY <1>12 DEF Finish, childVars
  <2>3. buffer[cur] = <<>> /\ pipe[cur] = <<>>
    BY <1>l, <1>12 DEF Finish, LInv, OpenInv, Dry
  <2>4. /\ OnScreen' = [OnScreen EXCEPT ![cur] = OnScreen'[cur]]
        /\ Result' = [Result EXCEPT ![cur] = Result'[cur]]
        /\ Life' = Life /\ Said' = Said
    BY <2>1, <2>2, Elsewhere DEF Life, Said
  <2>5. OnScreen'[cur] = Said[cur]
    BY <1>c, <2>1, <2>2, <2>3, <2>4
  <2>6. child[cur] = "ended" \/ child[cur] = "never"
    BY <1>l, <2>1, <2>2 DEF ProcessGone, Ended, LInv, IInv, HandleInv
  <2>7. job'[cur] = IF CodeRead = 0 THEN "ok" ELSE "failed"
    BY <1>l, <2>1, <2>2 DEF LInv, IInv, Typed, TypeOK
  <2>8. Life[cur] \in {"dead", "never"} /\ Result[cur] = "pending"
    BY <2>1, <2>6 DEF Life, Result, Finished
  <2>9. Result'[cur] = job'[cur]
    BY <2>1 DEF Result, Finished
  <2>10. Life[cur] = "dead" <=> child[cur] = "ended"
    BY <2>1, <2>6 DEF Life
  <2>11. Result'[cur] = IF Life[cur] = "dead" /\ code[cur] # 0 THEN "failed" ELSE "ok"
    BY <2>7, <2>9, <2>10 DEF CodeRead, Ended
  <2> QED
    BY <2>2, <2>4, <2>5, <2>8, <2>11 DEF Promise!Finish
<1>13. ASSUME PollData \/ ReadData PROVE Promise!Show(cur) \/ UNCHANGED Promise!vars
  <2>1. UNCHANGED <<child, code>>
    BY <1>13 DEF PollData, ReadData, childVars
  <2>2. \E chunk : Fed(chunk)
    BY <1>13, <1>l, PollFeeds, ReadFeeds DEF LInv
  <2> QED
    BY <1>11, <2>1, <2>2
<1>14. cur \in Process
  BY <1>l DEF LInv, IInv, Typed, TypeOK
<1>15. CASE Terminated
  BY <1>1, <1>15 DEF Terminated
<1> QED
  BY <1>1, <1>2, <1>3, <1>4, <1>5, <1>6, <1>7, <1>8, <1>9, <1>10, <1>12, <1>13, <1>14,
     <1>15 DEF Next, Presto, Children, Writes, Promise!Next

(***************************************************************************)
(* Spawning, reading in overlapped calls and waiting add up to running a   *)
(* program and showing what it says: Proc implements RunPromise.           *)
(***************************************************************************)
THEOREM RunKeepsPromise == Spec => KeepsPromise
<1>1. OutputInv /\ OutputInv' /\ [Next]_vars => [Promise!Next]_(Promise!vars)
  BY PromiseStep
<1> QED
  BY <1>1, PromiseInit, OutputHolds, PTL DEF Spec, KeepsPromise, Promise!Spec
=============================================================================
