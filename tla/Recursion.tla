------------------------------ MODULE Recursion ------------------------------
(***************************************************************************)
(* Induction and recursion on natural numbers, with sets and functions in  *)
(* place of predicates and operators: what is proved here can be cited by  *)
(* name with any set or function.  All of it rests on the strict subsets   *)
(* of a finite set being well founded.                                     *)
(***************************************************************************)
EXTENDS Integers, FiniteSets, SequencesExt, FiniteSetTheorems, SequenceTheorems,
        TLAPS

(***************************************************************************)
(* A set of natural numbers that is not empty has a least element.         *)
(***************************************************************************)
LEMMA Least ==
    ASSUME NEW T \in SUBSET Nat, T # {}
    PROVE  \E m \in T : \A k \in T : m <= k
<1>1. PICK n \in T : TRUE
  OBVIOUS
<1> DEFINE F == {0 .. m : m \in {k \in T : k <= n}}
<1>2. IsFiniteSet(0 .. n)
  BY FS_Interval
<1>3. F \subseteq SUBSET (0 .. n) /\ F # {}
  BY <1>1
<1>4. IsWellFoundedOn(StrictSubsetOrdering(0 .. n), FiniteSubsetsOf(0 .. n))
  BY FS_StrictSubsetOrderingWellFounded
<1>5. F \subseteq FiniteSubsetsOf(0 .. n)
  BY <1>2, <1>3, FS_Subset DEF FiniteSubsetsOf
<1>6. PICK x \in F : \A y \in F : <<y, x>> \notin StrictSubsetOrdering(0 .. n)
  <2> HIDE DEF F
  <2> QED
    BY <1>3, <1>4, <1>5, WFMin
<1>7. PICK m \in T : m <= n /\ x = 0 .. m
  OBVIOUS
<1>8. ASSUME NEW k \in T, k < m PROVE FALSE
  <2>1. 0 .. k \in F /\ 0 .. k \subseteq x /\ m \in x /\ m \notin 0 .. k
    BY <1>7, <1>8
  <2>2. <<0 .. k, x>> \in StrictSubsetOrdering(0 .. n)
    BY <2>1, <1>3 DEF StrictSubsetOrdering
  <2> QED
    BY <1>6, <2>1, <2>2
<1> QED
  BY <1>7, <1>8

(***************************************************************************)
(* Induction on the numbers up to N.                                       *)
(***************************************************************************)
LEMMA Induction ==
    ASSUME NEW N \in Nat, NEW T, 0 \in T,
           \A n \in 0 .. N - 1 : n \in T => n + 1 \in T
    PROVE  0 .. N \subseteq T
<1> DEFINE U == {n \in 0 .. N : n \notin T}
<1>1. U \subseteq Nat
  OBVIOUS
<1>2. ASSUME U # {} PROVE FALSE
  <2>1. PICK m \in U : \A k \in U : m <= k
    <3> HIDE DEF U
    <3> QED
      BY <1>1, <1>2, Least
  <2>2. m - 1 \in 0 .. N - 1 /\ m - 1 \notin U
    BY <2>1
  <2> QED
    BY <2>1, <2>2
<1> QED
  BY <1>2

(***************************************************************************)
(* A function is defined by its value at 0 and, at every other number up   *)
(* to N, by the value before it.                                           *)
(***************************************************************************)
Iterates(f, N, base, F) ==
    f = [n \in 0 .. N |-> IF n = 0 THEN base ELSE F[n][f[n - 1]]]

\* A function can be iterated a given number of times.
LEMMA IterationExists ==
    ASSUME NEW N \in Nat, NEW S, NEW base \in S, NEW F \in [1 .. N -> [S -> S]]
    PROVE  \E f \in [0 .. N -> S] : Iterates(f, N, base, F)
<1> DEFINE T == {n \in 0 .. N : \E f \in [0 .. n -> S] : Iterates(f, n, base, F)}
<1>1. 0 \in T
  <2> DEFINE g == [n \in 0 .. 0 |-> base]
  <2>1. g \in [0 .. 0 -> S] /\ Iterates(g, 0, base, F)
    BY DEF Iterates
  <2> HIDE DEF g
  <2> QED
    BY <2>1
<1>2. ASSUME NEW m \in 0 .. N - 1, m \in T PROVE m + 1 \in T
  <2>1. PICK f \in [0 .. m -> S] : Iterates(f, m, base, F)
    BY <1>2
  <2> DEFINE g == [n \in 0 .. m + 1 |-> IF n <= m THEN f[n] ELSE F[m + 1][f[m]]]
  <2>2. f[m] \in S /\ m + 1 \in 1 .. N /\ F[m + 1] \in [S -> S] /\ F[m + 1][f[m]] \in S
    OBVIOUS
  <2>3. g \in [0 .. m + 1 -> S]
    BY <2>2
  <2>4. ASSUME NEW n \in 0 .. m + 1
        PROVE  g[n] = IF n = 0 THEN base ELSE F[n][g[n - 1]]
    <3>1. CASE n = m + 1
      BY <3>1
    <3>2. CASE n # m + 1 /\ n # 0
      <4>1. n \in 0 .. m /\ n - 1 \in 0 .. m
        BY <3>2
      <4>2. g[n] = f[n] /\ g[n - 1] = f[n - 1]
        BY <4>1
      <4>3. f[n] = F[n][f[n - 1]]
        BY <2>1, <3>2, <4>1 DEF Iterates
      <4> QED
        BY <3>2, <4>2, <4>3
    <3>3. CASE n = 0
      <4>1. f[0] = base
        BY <2>1 DEF Iterates
      <4> QED
        BY <3>3, <4>1
    <3> QED
      BY <3>1, <3>2, <3>3
  <2>5. Iterates(g, m + 1, base, F)
    <3>1. g = [n \in 0 .. m + 1 |-> g[n]]
      OBVIOUS
    <3> HIDE DEF g
    <3> QED
      BY <2>4, <3>1 DEF Iterates
  <2> HIDE DEF g
  <2> QED
    BY <2>3, <2>5
<1>3. 0 .. N \subseteq T
  <2> HIDE DEF T
  <2> QED
    BY <1>1, <1>2, Induction
<1> QED
  BY <1>3

-----------------------------------------------------------------------------
(***************************************************************************)
(* Induction on sequences: a set that has the empty sequence, and with a   *)
(* sequence each one that is longer by an element, has all of them.        *)
(***************************************************************************)
LEMMA AppendInduction ==
    ASSUME NEW S, NEW T, <<>> \in T,
           \A s \in Seq(S), c \in S : s \in T => Append(s, c) \in T
    PROVE  Seq(S) \subseteq T
<1> SUFFICES ASSUME NEW s \in Seq(S) PROVE s \in T
  OBVIOUS
<1> DEFINE U == {n \in Nat : n <= Len(s) => SubSeq(s, 1, n) \in T}
<1>1. 0 \in U
  <2>1. SubSeq(s, 1, 0) = <<>>
    BY SubSeqEmpty
  <2> QED
    BY <2>1
<1>2. ASSUME NEW n \in 0 .. Len(s) - 1, n \in U PROVE n + 1 \in U
  <2>1. n \in 0 .. Len(s) /\ n + 1 \in 1 .. Len(s) /\ n + 1 \in Nat /\ n <= Len(s)
    OBVIOUS
  <2>2. SubSeq(s, 1, n) \in T /\ SubSeq(s, 1, n) \in Seq(S) /\ s[n + 1] \in S
    BY <1>2, <2>1
  <2>3. SubSeq(s, 1, n + 1) = Append(SubSeq(s, 1, n), s[n + 1])
    BY <2>1
  <2>4. SubSeq(s, 1, n + 1) \in T
    BY <2>2, <2>3
  <2> QED
    BY <2>1, <2>4
<1>3. Len(s) \in Nat /\ SubSeq(s, 1, Len(s)) = s
  BY LenProperties, SubSeqFull
<1>4. 0 .. Len(s) \subseteq U
  <2> HIDE DEF U
  <2> QED
    BY <1>1, <1>2, <1>3, Induction
<1>5. SubSeq(s, 1, Len(s)) \in T
  BY <1>3, <1>4
<1> QED
  BY <1>3, <1>5, Zenon

(***************************************************************************)
(* To append to the second of two is to append to both.                    *)
(***************************************************************************)
LEMMA ConcatAppend ==
    ASSUME NEW S, NEW s \in Seq(S), NEW t \in Seq(S), NEW e \in S
    PROVE  /\ s \o t \in Seq(S)
           /\ s \o Append(t, e) = Append(s \o t, e)
<1>1. s \o t \in Seq(S) /\ <<e>> \in Seq(S)
  OBVIOUS
<1>2. Append(t, e) = t \o <<e>> /\ Append(s \o t, e) = (s \o t) \o <<e>>
  BY <1>1, AppendIsConcat
<1>3. (s \o t) \o <<e>> = s \o (t \o <<e>>)
  BY <1>1, ConcatAssociative
<1> QED
  BY <1>1, <1>2, <1>3

IsFlat(f, lines) ==
    f = [i \in 1 .. Len(lines) |-> IF i = 1 THEN lines[i] ELSE f[i - 1] \o lines[i]]
Flat(lines) == CHOOSE f : IsFlat(f, lines)

\* The fold in FlattenSeq is a recursion over the lines.
LEMMA Flattening ==
    ASSUME NEW S, NEW lines \in Seq(Seq(S)), lines # <<>>
    PROVE  /\ FlattenSeq(lines) = Flat(lines)[Len(lines)]
           /\ Flat(lines)[1] = lines[1]
           /\ \A n \in 2 .. Len(lines) :
                 Flat(lines)[n] = Flat(lines)[n - 1] \o lines[n]
<1> DEFINE F == [n \in 1 .. Len(lines) |-> [w \in Seq(S) |-> w \o lines[n]]]
<1>1. Len(lines) \in Nat \ {0} /\ \A n \in 1 .. Len(lines) : lines[n] \in Seq(S)
  OBVIOUS
<1>2. F \in [1 .. Len(lines) -> [Seq(S) -> Seq(S)]] /\ <<>> \in Seq(S)
  BY <1>1
<1>3. PICK f \in [0 .. Len(lines) -> Seq(S)] : Iterates(f, Len(lines), <<>>, F)
  <2> HIDE DEF F
  <2> QED
    BY <1>1, <1>2, IterationExists
<1>4. ASSUME NEW n \in 1 .. Len(lines)
      PROVE  f[n] = IF n = 1 THEN lines[n] ELSE f[n - 1] \o lines[n]
  <2>1. n \in 0 .. Len(lines) /\ n # 0 /\ n - 1 \in 0 .. Len(lines)
    BY <1>1
  <2>2. f[n] = F[n][f[n - 1]]
    <3> HIDE DEF F
    <3> QED
      BY <1>3, <2>1 DEF Iterates
  <2>3. f[n - 1] \in Seq(S)
    BY <2>1
  <2>4. f[n] = f[n - 1] \o lines[n]
    BY <2>2, <2>3
  <2>5. f[0] = <<>>
    <3>1. 0 \in 0 .. Len(lines)
      BY <1>1
    <3> HIDE DEF F
    <3> QED
      BY <1>3, <3>1 DEF Iterates
  <2>6. n = 1 => <<>> \o lines[n] = lines[n]
    BY <1>1
  <2>7. ASSUME n = 1 PROVE f[n] = lines[n]
    <3>1. f[n - 1] = <<>>
      BY <2>5, <2>7
    <3> QED
      BY <2>4, <2>6, <2>7, <3>1
  <2> QED
    BY <2>4, <2>7
<1> DEFINE e == [n \in 1 .. Len(lines) |-> f[n]]
<1>5. IsFlat(e, lines)
  <2>1. ASSUME NEW n \in 1 .. Len(lines)
        PROVE  e[n] = IF n = 1 THEN lines[n] ELSE e[n - 1] \o lines[n]
    <3>1. n # 1 => n - 1 \in 1 .. Len(lines)
      BY <1>1
    <3>2. e[n] = f[n] /\ (n # 1 => e[n - 1] = f[n - 1])
      BY <3>1
    <3> HIDE DEF e
    <3> QED
      BY <1>4, <3>2
  <2>2. e = [n \in 1 .. Len(lines) |-> e[n]]
    OBVIOUS
  <2> HIDE DEF e
  <2> QED
    BY <2>1, <2>2 DEF IsFlat
<1>6. IsFlat(Flat(lines), lines)
  BY <1>5 DEF Flat
<1>7. FlattenSeq(lines) = Flat(lines)[Len(lines)]
  BY <1>1 DEF FlattenSeq, Flat, IsFlat
<1> DEFINE g == Flat(lines)
           h == [i \in 1 .. Len(lines) |-> IF i = 1 THEN lines[i] ELSE g[i - 1] \o lines[i]]
<1>8. g = h
  BY <1>6 DEF IsFlat
<1>9. h[1] = lines[1] /\ \A n \in 2 .. Len(lines) : h[n] = g[n - 1] \o lines[n]
  <2>1. 1 \in 1 .. Len(lines) /\ \A n \in 2 .. Len(lines) : n \in 1 .. Len(lines) /\ n # 1
    BY <1>1
  <2> QED
    BY <2>1
<1>10. g[1] = lines[1] /\ \A n \in 2 .. Len(lines) : g[n] = g[n - 1] \o lines[n]
  <2> HIDE DEF g, h
  <2> QED
    BY <1>8, <1>9
<1> QED
  BY <1>7, <1>10

\* The text of no lines, and of one line more.
LEMMA FlattenEmpty == FlattenSeq(<<>>) = <<>>
  BY DEF FlattenSeq

LEMMA FlattenSteps ==
    ASSUME NEW S, NEW lines \in Seq(Seq(S)), NEW l \in Seq(S)
    PROVE  FlattenSeq(Append(lines, l)) = FlattenSeq(lines) \o l
<1> DEFINE longer == Append(lines, l)
<1>1. /\ longer \in Seq(Seq(S)) /\ Len(longer) = Len(lines) + 1 /\ longer[Len(lines) + 1] = l
      /\ \A n \in 1 .. Len(lines) : longer[n] = lines[n]
      /\ longer # <<>> /\ Len(lines) \in Nat
  BY AppendProperties, LenProperties
<1> DEFINE f == Flat(lines)
           g == Flat(longer)
           T == {n \in Nat : n \in 1 .. Len(lines) => f[n] = g[n]}
<1> HIDE DEF longer
<1>2. /\ FlattenSeq(longer) = g[Len(lines) + 1] /\ g[1] = longer[1]
      /\ \A n \in 2 .. Len(lines) + 1 : g[n] = g[n - 1] \o longer[n]
  BY <1>1, Flattening
<1>3. CASE lines = <<>>
  <2>1. Len(lines) = 0 /\ <<>> \o l = l
    BY <1>3
  <2>2. FlattenSeq(longer) = l
    BY <1>1, <1>2, <2>1
  <2> QED
    BY FlattenEmpty, <1>3, <2>1, <2>2 DEF longer
<1>4. CASE lines # <<>>
  <2>1. /\ FlattenSeq(lines) = f[Len(lines)] /\ f[1] = lines[1]
        /\ \A n \in 2 .. Len(lines) : f[n] = f[n - 1] \o lines[n]
    BY <1>4, Flattening
  <2>n. Len(lines) \in Nat \ {0}
    BY <1>4
  <2> HIDE DEF f, g
  <2>2. 0 \in T
    OBVIOUS
  <2>3. ASSUME NEW n \in 0 .. Len(lines) - 1, n \in T PROVE n + 1 \in T
    <3>1. n + 1 \in 1 .. Len(lines) /\ n + 1 \in Nat
      BY <2>n
    <3>2. CASE n = 0
      <4>1. f[1] = g[1]
        BY <1>1, <1>2, <2>1, <3>1, <3>2
      <4> QED
        BY <3>2, <4>1
    <3>3. CASE n # 0
      <4>1. /\ n + 1 \in 2 .. Len(lines) /\ n + 1 \in 2 .. Len(lines) + 1
            /\ n \in 1 .. Len(lines) /\ (n + 1) - 1 = n
        BY <2>n, <3>3
      <4>2. f[n + 1] = f[n] \o lines[n + 1] /\ g[n + 1] = g[n] \o longer[n + 1]
        BY <1>2, <2>1, <4>1
      <4>3. f[n] = g[n] /\ longer[n + 1] = lines[n + 1]
        BY <1>1, <2>3, <3>1, <4>1
      <4> QED
        BY <3>1, <4>2, <4>3
    <3> QED
      BY <3>2, <3>3
  <2>4. 0 .. Len(lines) \subseteq T
    <3> HIDE DEF T
    <3> QED
      BY <2>2, <2>3, <2>n, Induction
  <2>5. f[Len(lines)] = g[Len(lines)]
    <3>1. Len(lines) \in 0 .. Len(lines) /\ Len(lines) \in 1 .. Len(lines)
      BY <2>n
    <3> QED
      BY <2>4, <3>1
  <2>6. Len(lines) + 1 \in 2 .. Len(lines) + 1 /\ (Len(lines) + 1) - 1 = Len(lines)
    BY <2>n
  <2>7. g[Len(lines) + 1] = g[Len(lines)] \o l
    BY <1>1, <1>2, <2>6
  <2> QED
    BY <1>2, <2>1, <2>5, <2>7 DEF longer
<1> QED
  BY <1>3, <1>4

\* The text of lines is that of their parts.
LEMMA FlattenConcat ==
    ASSUME NEW S, NEW s \in Seq(Seq(S)), NEW t \in Seq(Seq(S))
    PROVE  /\ FlattenSeq(s) \in Seq(S)
           /\ FlattenSeq(s \o t) = FlattenSeq(s) \o FlattenSeq(t)
<1> DEFINE T == {u \in Seq(Seq(S)) : FlattenSeq(u) \in Seq(S)}
           U == {u \in Seq(Seq(S)) : FlattenSeq(s \o u) = FlattenSeq(s) \o FlattenSeq(u)}
<1>e. <<>> \in Seq(S) /\ <<>> \in Seq(Seq(S)) /\ s \o <<>> = s
  OBVIOUS
<1>1. Seq(Seq(S)) \subseteq T
  <2>1. <<>> \in T
    BY <1>e, FlattenEmpty
  <2>2. ASSUME NEW u \in Seq(Seq(S)), NEW l \in Seq(S), u \in T PROVE Append(u, l) \in T
    <3>1. FlattenSeq(Append(u, l)) = FlattenSeq(u) \o l
      BY FlattenSteps
    <3>2. Append(u, l) \in Seq(Seq(S))
      OBVIOUS
    <3>3. FlattenSeq(u) \o l \in Seq(S)
      BY <2>2
    <3> QED
      BY <3>1, <3>2, <3>3
  <2> HIDE DEF T
  <2> QED
    BY <2>1, <2>2, AppendInduction
<1>2. \A u \in Seq(Seq(S)) : FlattenSeq(u) \in Seq(S)
  BY <1>1
<1>3. Seq(Seq(S)) \subseteq U
  <2>1. <<>> \in U
    <3>1. FlattenSeq(s) \o <<>> = FlattenSeq(s)
      BY <1>2
    <3> QED
      BY <1>e, <3>1, FlattenEmpty
  <2>2. ASSUME NEW u \in Seq(Seq(S)), NEW l \in Seq(S), u \in U PROVE Append(u, l) \in U
    <3>1. s \o Append(u, l) = Append(s \o u, l) /\ s \o u \in Seq(Seq(S))
      BY ConcatAppend
    <3>2. FlattenSeq(s \o Append(u, l)) = (FlattenSeq(s) \o FlattenSeq(u)) \o l
      BY <2>2, <3>1, FlattenSteps
    <3>3. FlattenSeq(Append(u, l)) = FlattenSeq(u) \o l
      BY FlattenSteps
    <3>4. (FlattenSeq(s) \o FlattenSeq(u)) \o l = FlattenSeq(s) \o (FlattenSeq(u) \o l)
      <4>1. FlattenSeq(s) \in Seq(S) /\ FlattenSeq(u) \in Seq(S)
        BY <1>2
      <4> QED
        BY <4>1, ConcatAssociative
    <3>5. Append(u, l) \in Seq(Seq(S))
      OBVIOUS
    <3> QED
      BY <3>2, <3>3, <3>4, <3>5
  <2> HIDE DEF U
  <2> QED
    BY <2>1, <2>2, AppendInduction
<1> QED
  BY <1>2, <1>3

(***************************************************************************)
(* A prefix of a text and what comes behind it.                            *)
(***************************************************************************)
LEMMA PrefixOf ==
    ASSUME NEW S, NEW s \in Seq(S), NEW a \in Seq(S), NEW b \in Seq(S),
           NEW n \in 0 .. Len(s), SubSeq(s, 1, n) = a \o b
    PROVE  Len(a) = n - Len(b) /\ SubSeq(s, 1, Len(a)) = a
<1>1. SubSeq(s, 1, n) \in Seq(S) /\ Len(SubSeq(s, 1, n)) = n
  OBVIOUS
<1>2. Len(a \o b) = Len(a) + Len(b) /\ Len(a) \in Nat /\ Len(b) \in Nat
  OBVIOUS
<1>3. Len(a) = n - Len(b) /\ Len(a) \in 0 .. n
  BY <1>1, <1>2
<1>4. SubSeq(s, 1, Len(a)) \in Seq(S) /\ Len(SubSeq(s, 1, Len(a))) = Len(a)
  BY <1>3
<1>5. \A i \in 1 .. Len(a) : SubSeq(s, 1, Len(a))[i] = s[i]
  BY <1>3
<1>6. \A i \in 1 .. Len(a) : (a \o b)[i] = a[i]
  OBVIOUS
<1>7. \A i \in 1 .. Len(a) : SubSeq(s, 1, n)[i] = s[i]
  BY <1>3
<1>8. \A i \in 1 .. Len(a) : SubSeq(s, 1, Len(a))[i] = a[i]
  BY <1>5, <1>6, <1>7
<1> QED
  BY <1>3, <1>4, <1>8, SeqEqual

\* A piece of a text behind a prefix of it.
LEMMA Following ==
    ASSUME NEW S, NEW s \in Seq(S), NEW m \in Nat, NEW n \in Nat, m + n <= Len(s)
    PROVE  /\ SubSeq(s, m + 1, m + n) \in Seq(S) /\ Len(SubSeq(s, m + 1, m + n)) = n
           /\ SubSeq(s, 1, m) \in Seq(S) /\ Len(SubSeq(s, 1, m)) = m
           /\ SubSeq(s, 1, m) \o SubSeq(s, m + 1, m + n) = SubSeq(s, 1, m + n)
<1>1. Len(s) \in Nat
  OBVIOUS
<1>2. 1 \in 1 .. Len(s) + 1 /\ m \in 1 - 1 .. Len(s) /\ m + n \in m .. Len(s)
  BY <1>1
<1>3. SubSeq(s, 1, m) \o SubSeq(s, m + 1, m + n) = SubSeq(s, 1, m + n)
  BY <1>2, ConcatAdjacentSubSeq
<1>4. \A i \in m + 1 .. m + n : i \in 1 .. Len(s)
  BY <1>1
<1>5. /\ SubSeq(s, m + 1, m + n) \in Seq(S)
      /\ Len(SubSeq(s, m + 1, m + n)) = n
  BY <1>1, <1>4
<1>6. SubSeq(s, 1, m) \in Seq(S) /\ Len(SubSeq(s, 1, m)) = m
  BY <1>1
<1> QED
  BY <1>3, <1>5, <1>6

\* Concatenation is associative, and adds the lengths.
LEMMA Regroup ==
    ASSUME NEW S, NEW x \in Seq(S), NEW y \in Seq(S), NEW z \in Seq(S)
    PROVE  /\ (x \o y) \o z = x \o (y \o z)
           /\ x \o y \in Seq(S) /\ Len(x) \in Nat /\ Len(x \o y) = Len(x) + Len(y)
<1>1. (x \o y) \o z = x \o (y \o z)
  BY ConcatAssociative
<1>2. x \o y \in Seq(S) /\ Len(x) \in Nat /\ Len(x \o y) = Len(x) + Len(y)
  OBVIOUS
<1> QED
  BY <1>1, <1>2

\* A text is a prefix of it and what comes behind.
LEMMA SplitAt ==
    ASSUME NEW S, NEW s \in Seq(S), NEW n \in 0 .. Len(s)
    PROVE  /\ SubSeq(s, 1, n) \in Seq(S) /\ SubSeq(s, n + 1, Len(s)) \in Seq(S)
           /\ Len(SubSeq(s, 1, n)) = n
           /\ SubSeq(s, 1, n) \o SubSeq(s, n + 1, Len(s)) = s
<1> DEFINE m == Len(s) - n
<1>1. m \in Nat /\ n \in Nat /\ n + m = Len(s)
  OBVIOUS
<1> HIDE DEF m
<1>2. /\ SubSeq(s, n + 1, n + m) \in Seq(S)
      /\ SubSeq(s, 1, n) \in Seq(S) /\ Len(SubSeq(s, 1, n)) = n
      /\ SubSeq(s, 1, n) \o SubSeq(s, n + 1, n + m) = SubSeq(s, 1, n + m)
  BY <1>1, Following
<1>3. SubSeq(s, 1, Len(s)) = s
  BY SubSeqFull
<1> QED
  BY <1>1, <1>2, <1>3
=============================================================================
