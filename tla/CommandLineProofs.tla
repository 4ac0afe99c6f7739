-------------------------- MODULE CommandLineProofs --------------------------
(***************************************************************************)
(* The two passes over the command line, for any words and any number of   *)
(* them.                                                                   *)
(***************************************************************************)
EXTENDS CommandLineProperties, Recursion

-----------------------------------------------------------------------------
(***************************************************************************)
(* The least and the greatest of a set of numbers.                         *)
(***************************************************************************)
LEMMA MinIs ==
    ASSUME NEW T \in SUBSET Nat, NEW m \in T, \A k \in T : m <= k
    PROVE  Min(T) = m
<1>1. \A x, y \in Nat : x <= y /\ y <= x => x = y
  OBVIOUS
<1>2. Min(T) \in T /\ \A k \in T : Min(T) <= k
  BY DEF Min
<1>3. Min(T) \in Nat /\ m \in Nat /\ Min(T) <= m /\ m <= Min(T)
  BY <1>2
<1> QED
  BY <1>1, <1>3

LEMMA MaxIs ==
    ASSUME NEW T \in SUBSET Nat, NEW m \in T, \A k \in T : k <= m
    PROVE  Max(T) = m
<1>1. \A x, y \in Nat : x <= y /\ y <= x => x = y
  OBVIOUS
<1>2. Max(T) \in T /\ \A k \in T : Max(T) >= k
  BY DEF Max
<1>3. Max(T) \in Nat /\ m \in Nat /\ Max(T) <= m /\ m <= Max(T)
  BY <1>2
<1> QED
  BY <1>1, <1>3

LEMMA MinIn ==
    ASSUME NEW T \in SUBSET Nat, T # {}
    PROVE  Min(T) \in T /\ \A k \in T : Min(T) <= k
<1>1. PICK m \in T : \A k \in T : m <= k
  BY Least
<1>2. Min(T) = m
  BY <1>1, MinIs
<1> QED
  BY <1>1, <1>2

LEMMA MaxIn ==
    ASSUME NEW N \in Nat, NEW T \in SUBSET (1 .. N), T # {}
    PROVE  Max(T) \in T /\ \A k \in T : k <= Max(T)
<1> DEFINE U == {N - k : k \in T}
<1>n. T \in SUBSET Nat /\ \A k \in T : N - k \in Nat
  OBVIOUS
<1>1. U \in SUBSET Nat /\ U # {}
  BY <1>n
<1>2. PICK u \in U : \A k \in U : u <= k
  <2> HIDE DEF U
  <2> QED
    BY <1>1, Least
<1>3. PICK m \in T : u = N - m
  OBVIOUS
<1>4. ASSUME NEW k \in T PROVE k <= m
  <2>1. N - k \in U
    OBVIOUS
  <2>2. N - m <= N - k
    BY <1>2, <1>3, <2>1
  <2>3. k \in Nat /\ m \in Nat
    OBVIOUS
  <2> QED
    BY <2>2, <2>3
<1>5. Max(T) = m
  BY <1>n, <1>4, MaxIs
<1> QED
  BY <1>4, <1>5

-----------------------------------------------------------------------------
(***************************************************************************)
(* What a word is, by the one before it: the recursion in Roles.           *)
(***************************************************************************)
Role == {"none", "rest", "argument", "word", "--", "long", "switches"}
RoleAfter(r, v, w) ==
    IF r \in {"--", "rest"} THEN "rest"
    ELSE IF r = "switches" /\ WantsNext(v) THEN "argument"
    ELSE FirstRole(w)
IsRole(f, l) ==
    f = [k \in DOMAIN l |->
            IF k > 1 /\ f[k - 1] \in {"--", "rest"} THEN "rest"
            ELSE IF k > 1 /\ f[k - 1] = "switches" /\ WantsNext(l[k - 1])
                 THEN "argument"
            ELSE FirstRole(l[k])]

LEMMA RoleTyped ==
    ASSUME NEW r, NEW v, NEW w
    PROVE  FirstRole(w) \in Role /\ RoleAfter(r, v, w) \in Role
BY DEF FirstRole, RoleAfter, Role

LEMMA RoleSteps ==
    ASSUME NEW l \in Seq(Word)
    PROVE  /\ \A k \in DOMAIN l : Roles(l)[k] \in Role
           /\ 1 \in DOMAIN l => Roles(l)[1] = FirstRole(l[1])
           /\ \A k \in 1 .. Len(l) - 1 :
                 Roles(l)[k + 1] = RoleAfter(Roles(l)[k], l[k], l[k + 1])
<1> DEFINE F == [n \in 1 .. Len(l) |->
                    [r \in Role |-> RoleAfter(r, l[n - 1], l[n])]]
<1>1. Len(l) \in Nat /\ DOMAIN l = 1 .. Len(l)
  OBVIOUS
<1>2. F \in [1 .. Len(l) -> [Role -> Role]] /\ "none" \in Role
  BY RoleTyped DEF Role
<1>3. PICK f \in [0 .. Len(l) -> Role] : Iterates(f, Len(l), "none", F)
  <2> HIDE DEF F
  <2> QED
    BY <1>1, <1>2, IterationExists
<1>4. f[0] = "none"
  <2>1. 0 \in 0 .. Len(l)
    BY <1>1
  <2> HIDE DEF F
  <2> QED
    BY <1>3, <2>1 DEF Iterates
<1>5. ASSUME NEW n \in 1 .. Len(l)
      PROVE  f[n] = RoleAfter(f[n - 1], l[n - 1], l[n]) /\ f[n - 1] \in Role
  <2>1. n \in 0 .. Len(l) /\ n # 0 /\ n - 1 \in 0 .. Len(l)
    BY <1>1
  <2>2. f[n] = F[n][f[n - 1]]
    <3> HIDE DEF F
    <3> QED
      BY <1>3, <2>1 DEF Iterates
  <2>3. f[n - 1] \in Role
    BY <2>1
  <2> QED
    BY <2>2, <2>3
<1> DEFINE e == [n \in DOMAIN l |-> f[n]]
<1>6. IsRole(e, l)
  <2>1. ASSUME NEW n \in DOMAIN l
        PROVE  e[n] = IF n > 1 /\ e[n - 1] \in {"--", "rest"} THEN "rest"
                      ELSE IF n > 1 /\ e[n - 1] = "switches" /\ WantsNext(l[n - 1])
                           THEN "argument"
                      ELSE FirstRole(l[n])
    <3>1. n \in 1 .. Len(l) /\ e[n] = f[n] /\ (n > 1 => e[n - 1] = f[n - 1])
      BY <1>1
    <3>2. n > 1 \/ (n = 1 /\ n - 1 = 0)
      BY <1>1
    <3> HIDE DEF e
    <3>3. CASE n > 1
      BY <1>5, <3>1, <3>3 DEF RoleAfter
    <3>4. CASE n = 1 /\ n - 1 = 0
      <4>1. ~(n > 1)
        BY <3>4
      <4>2. f[n] = RoleAfter("none", l[n - 1], l[n])
        BY <1>4, <1>5, <3>1, <3>4
      <4>3. RoleAfter("none", l[n - 1], l[n]) = FirstRole(l[n])
        BY DEF RoleAfter
      <4> QED
        BY <3>1, <4>1, <4>2, <4>3
    <3> QED
      BY <3>2, <3>3, <3>4
  <2>2. e = [n \in DOMAIN l |-> e[n]]
    OBVIOUS
  <2> HIDE DEF e
  <2> QED
    BY <2>1, <2>2 DEF IsRole
<1> DEFINE g == Roles(l)
<1>7. g = CHOOSE h : IsRole(h, l)
  BY DEF Roles, IsRole
<1>8. IsRole(g, l)
  <2> HIDE DEF e, g
  <2> QED
    BY <1>6, <1>7
<1> DEFINE h == [k \in DOMAIN l |->
                    IF k > 1 /\ g[k - 1] \in {"--", "rest"} THEN "rest"
                    ELSE IF k > 1 /\ g[k - 1] = "switches" /\ WantsNext(l[k - 1])
                         THEN "argument"
                    ELSE FirstRole(l[k])]
<1>9. g = h
  BY <1>8 DEF IsRole
<1>10. \A k \in DOMAIN l : h[k] \in Role
  BY RoleTyped DEF Role
<1>11. 1 \in DOMAIN l => h[1] = FirstRole(l[1])
  OBVIOUS
<1>12. ASSUME NEW k \in 1 .. Len(l) - 1
       PROVE  h[k + 1] = RoleAfter(g[k], l[k], l[k + 1])
  <2>1. k + 1 \in DOMAIN l /\ k + 1 > 1 /\ (k + 1) - 1 = k
    BY <1>1
  <2> HIDE DEF g
  <2> QED
    BY <2>1 DEF RoleAfter
<1>13. /\ \A k \in DOMAIN l : g[k] \in Role
       /\ 1 \in DOMAIN l => g[1] = FirstRole(l[1])
       /\ \A k \in 1 .. Len(l) - 1 : g[k + 1] = RoleAfter(g[k], l[k], l[k + 1])
  <2> HIDE DEF g, h
  <2> QED
    BY <1>9, <1>10, <1>11, <1>12
<1> QED
  BY <1>13

-----------------------------------------------------------------------------
(***************************************************************************)
(* What a word of switches says, letter by letter: everything before its   *)
(* first letter that takes an argument is a flag.                          *)
(***************************************************************************)
LEMMA LettersApart ==
    /\ FlagLetters \cap ArgLetters = {}
    /\ CodeLetters \subseteq ArgLetters /\ {"C", "j", "f"} \subseteq ArgLetters
    /\ {"C", "j"} \cap CodeLetters = {} /\ "C" # "j"
BY DEF FlagLetters, ArgLetters, CodeLetters

\* The letters of a word that count are the first n.
LEMMA LettersAre ==
    ASSUME NEW w \in Word, NEW n \in 1 .. Len(w), Letters(w) = SubSeq(w, 2, n)
    PROVE  Range(Letters(w)) = {w[m] : m \in 2 .. n} /\ (n >= 2 => Last(Letters(w)) = w[n])
<1> DEFINE s == SubSeq(w, 2, n)
<1>1. /\ Len(w) \in Nat /\ n \in Nat /\ n >= 1 /\ DOMAIN s = 1 .. n - 1 /\ Len(s) = n - 1
      /\ \A k \in 1 .. n - 1 : s[k] = w[k + 1]
  BY DEF Word
<1> HIDE DEF s
<1>2. Range(s) = {w[m] : m \in 2 .. n}
  <2>1. ASSUME NEW m \in 2 .. n PROVE m - 1 \in 1 .. n - 1 /\ (m - 1) + 1 = m
    BY <1>1
  <2>2. ASSUME NEW k \in 1 .. n - 1 PROVE k + 1 \in 2 .. n
    BY <1>1
  <2>3. ASSUME NEW k \in 1 .. n - 1 PROVE s[k] \in {w[m] : m \in 2 .. n}
    BY <1>1, <2>2, <2>3
  <2>4. ASSUME NEW m \in 2 .. n PROVE w[m] \in {s[k] : k \in 1 .. n - 1}
    BY <1>1, <2>1, <2>4
  <2>5. Range(s) = {s[k] : k \in 1 .. n - 1}
    BY <1>1 DEF Range
  <2> QED
    BY <2>3, <2>4, <2>5
<1>3. n >= 2 => s[n - 1] = w[n]
  <2> SUFFICES ASSUME n >= 2 PROVE s[n - 1] = w[n]
    OBVIOUS
  <2>1. n - 1 \in 1 .. n - 1 /\ (n - 1) + 1 = n
    BY <1>1
  <2> QED
    BY <1>1, <2>1
<1> QED
  BY <1>1, <1>2, <1>3 DEF Last, s

LEMMA AllFlagsWord ==
    ASSUME NEW w \in Word, w # <<>>, \A m \in 2 .. Len(w) : w[m] \in FlagLetters
    PROVE  Takers(w) = {} /\ ~WantsNext(w) /\ Range(Letters(w)) = {w[m] : m \in 2 .. Len(w)}
<1>1. Takers(w) = {}
  BY LettersApart DEF Takers
<1>2. Len(w) \in 1 .. Len(w) /\ Letters(w) = SubSeq(w, 2, Len(w))
  BY <1>1 DEF Letters, Word
<1> QED
  BY <1>1, <1>2, LettersAre DEF WantsNext

LEMMA FirstTaker ==
    ASSUME NEW w \in Word, NEW n \in 2 .. Len(w), w[n] \in ArgLetters,
           \A m \in 2 .. n - 1 : w[m] \in FlagLetters
    PROVE  /\ Takers(w) # {} /\ Min(Takers(w)) = n /\ Taker(w) = w[n]
           /\ Range(Letters(w)) = {w[m] : m \in 2 .. n}
           /\ WantsNext(w) = (n = Len(w))
<1>1. n \in Takers(w) /\ Takers(w) \in SUBSET Nat
  BY DEF Takers
<1>2. ASSUME NEW k \in Takers(w) PROVE n <= k
  <2>1. k \in 2 .. Len(w) /\ w[k] \notin FlagLetters /\ Len(w) \in Nat
    BY LettersApart DEF Takers, Word
  <2>2. k \notin 2 .. n - 1
    BY <2>1
  <2> QED
    BY <2>1, <2>2
<1>3. Min(Takers(w)) = n
  BY <1>1, <1>2, MinIs
<1>4. n \in 1 .. Len(w) /\ Letters(w) = SubSeq(w, 2, n) /\ n >= 2
  BY <1>1, <1>3 DEF Letters, Word
<1> QED
  BY <1>1, <1>3, <1>4, LettersAre DEF WantsNext, Taker

-----------------------------------------------------------------------------
(***************************************************************************)
(* A place in the line l: n words have been taken, of the last of them the *)
(* letters s are left; b, whether switches are looked for.                 *)
(***************************************************************************)
Boundary(l, n, b) ==
    n < Len(l) => Roles(l)[n + 1] = IF b THEN FirstRole(l[n + 1]) ELSE "rest"
InWord(l, n, s) ==
    /\ n \in Switches(l) /\ s \in Seq(Symbol) /\ Len(s) < Len(l[n])
    /\ s = SubSeq(l[n], Len(l[n]) - Len(s) + 1, Len(l[n]))
    /\ \A m \in 2 .. Len(l[n]) - Len(s) : l[n][m] \in FlagLetters
PlaceAt(l, n, s, b) ==
    /\ n \in 0 .. Len(l)
    /\ s = <<>> => Boundary(l, n, b)
    /\ s # <<>> => InWord(l, n, s) /\ b

\* The words that are done with, and the flags seen in them and in the last.
DoneAt(n, s) == IF s = <<>> THEN n ELSE n - 1
Noted(l, n, s) == IF s = <<>> THEN {} ELSE {l[n][m] : m \in 2 .. Len(l[n]) - Len(s)}
Seen(l, n, s) == FlagsTo(l, DoneAt(n, s)) \cup Noted(l, n, s)

(***************************************************************************)
(* The words that end the program, promised by the usage text or not.      *)
(***************************************************************************)
Bad(l) == \E k \in DOMAIN l : BadWord(l, k)

LEMMA BadWordIs ==
    ASSUME NEW l, NEW k
    PROVE  BadWord(l, k) <=>
             \/ Roles(l)[k] = "long"
             \/ /\ k \in Switches(l)
                /\ \/ Range(Letters(l[k])) \ (FlagLetters \cup ArgLetters) # {}
                   \/ WantsNext(l[k]) /\ k = Len(l)
                   \/ k \in With(l, {"C"})
             \/ k \in Goals(l)
<1>1. k \in With(l, {"C"}) => k \in Switches(l)
  BY DEF With
<1> QED
  BY <1>1 DEF BadWord, Mistake, Refused, LastTaker

(***************************************************************************)
(* From one place to the next none of them is passed, and what is passed are *)
(* the flags f, the places a of switches with an argument, and the places  *)
(* x of assignments.                                                       *)
(***************************************************************************)
Passes(l, d, e, a, x) ==
    /\ d \in 0 .. Len(l) /\ e \in d .. Len(l)
    /\ \A k \in d + 1 .. e : ~BadWord(l, k)
    /\ \A L : With(l, L) \cap 1 .. e = With(l, L) \cap (1 .. d \cup a)
    /\ Assignments(l) \cap 1 .. e = (Assignments(l) \cap 1 .. d) \cup x

\* The flags of one word more.
LEMMA FlagsStep ==
    ASSUME NEW l \in Seq(Word), NEW k \in DOMAIN l
    PROVE  /\ FlagsTo(l, k) =
                 FlagsTo(l, k - 1) \cup
                 (IF k \in Switches(l) THEN Range(Letters(l[k])) \cap FlagLetters ELSE {})
           /\ 1 .. k = 1 .. k - 1 \cup {k} /\ k \in 1 .. Len(l) /\ Len(l) \in Nat
<1>1. k \in 1 .. Len(l) /\ Len(l) \in Nat
  OBVIOUS
<1>2. 1 .. k = 1 .. k - 1 \cup {k}
  BY <1>1
<1> DEFINE R(j) == Range(Letters(l[j]))
<1> DEFINE K == Switches(l) \cap 1 .. k
           J == Switches(l) \cap 1 .. k - 1
<1>3. K = J \cup (IF k \in Switches(l) THEN {k} ELSE {})
  BY <1>2
<1>4. FlagsTo(l, k) = FlagLetters \cap UNION {R(j) : j \in K}
  BY DEF FlagsTo
<1>5. FlagsTo(l, k - 1) = FlagLetters \cap UNION {R(j) : j \in J}
  BY DEF FlagsTo
<1> HIDE DEF R, K, J
<1>6. FlagsTo(l, k) = FlagsTo(l, k - 1)
                       \cup (IF k \in Switches(l) THEN R(k) \cap FlagLetters ELSE {})
  <2>1. CASE k \in Switches(l)
    <3>1. K = J \cup {k}
      BY <1>3, <2>1
    <3>2. UNION {R(j) : j \in K} = (UNION {R(j) : j \in J}) \cup R(k)
      BY <3>1
    <3> QED
      BY <1>4, <1>5, <2>1, <3>2
  <2>2. CASE k \notin Switches(l)
    <3>1. K = J
      BY <1>3, <2>2
    <3> QED
      BY <1>4, <1>5, <2>2, <3>1
  <2> QED
    BY <2>1, <2>2
<1> QED
  BY <1>1, <1>2, <1>6 DEF R

\* A word that is no switch and no mistake, from the words before to behind it.
LEMMA PassWord ==
    ASSUME NEW l \in Seq(Word), NEW k \in DOMAIN l,
           Roles(l)[k] \in {"--", "argument"} \/ k \in Assignments(l)
    PROVE  /\ Passes(l, k - 1, k, {}, IF k \in Assignments(l) THEN {k} ELSE {})
           /\ FlagsTo(l, k) = FlagsTo(l, k - 1)
           /\ Roles(l)[k] = "--" => Boundary(l, k, FALSE)
           /\ Roles(l)[k] = "rest" => Boundary(l, k, FALSE)
           /\ Roles(l)[k] \in {"argument", "word"} => Boundary(l, k, TRUE)
<1>1. k \in Assignments(l) => Roles(l)[k] \in {"word", "rest"}
  BY DEF Assignments, Plain
<1>2. k \notin Switches(l) /\ Roles(l)[k] \in {"--", "argument", "word", "rest"}
  BY <1>1 DEF Switches
<1>3. ~BadWord(l, k)
  <2>1. k \notin Goals(l)
    BY DEF Goals, Plain
  <2> QED
    BY <1>2, <2>1, BadWordIs
<1>4. \A L : k \notin With(l, L)
  BY <1>2 DEF With
<1>5. k \in 1 .. Len(l) /\ Len(l) \in Nat /\ 1 .. k = 1 .. k - 1 \cup {k}
  BY FlagsStep
<1>6. Passes(l, k - 1, k, {}, IF k \in Assignments(l) THEN {k} ELSE {})
  <2>1. k - 1 \in 0 .. Len(l) /\ k \in k - 1 .. Len(l) /\ \A j \in (k - 1) + 1 .. k : j = k
    BY <1>5
  <2>2. \A L : With(l, L) \cap 1 .. k = With(l, L) \cap (1 .. k - 1 \cup {})
    BY <1>4, <1>5
  <2>3. Assignments(l) \cap 1 .. k =
          (Assignments(l) \cap 1 .. k - 1) \cup (IF k \in Assignments(l) THEN {k} ELSE {})
    BY <1>5
  <2> QED
    BY <1>3, <2>1, <2>2, <2>3 DEF Passes
<1>7. FlagsTo(l, k) = FlagsTo(l, k - 1)
  <2>1. FlagsTo(l, k) = FlagsTo(l, k - 1) \cup
          (IF k \in Switches(l) THEN Range(Letters(l[k])) \cap FlagLetters ELSE {})
    BY FlagsStep
  <2> QED
    BY <1>2, <2>1
<1>8. k < Len(l) => Roles(l)[k + 1] = RoleAfter(Roles(l)[k], l[k], l[k + 1])
  BY <1>5, RoleSteps
<1> QED
  BY <1>2, <1>6, <1>7, <1>8 DEF Boundary, RoleAfter

\* A word of switches is not empty; if it is all flags, it is passed so.
LEMMA SwitchWordIs ==
    ASSUME NEW l \in Seq(Word), NEW k \in Switches(l)
    PROVE  /\ k \in DOMAIN l /\ k \in 1 .. Len(l) /\ Len(l) \in Nat
           /\ l[k] \in Word /\ l[k] # <<>> /\ Len(l[k]) \in Nat \ {0}
           /\ k \notin Assignments(l) /\ k \notin Goals(l) /\ Roles(l)[k] = "switches"
<1>1. k \in 1 .. Len(l) /\ k \in DOMAIN l /\ Len(l) \in Nat /\ l[k] \in Word /\ Roles(l)[k] = "switches"
  BY DEF Switches
<1>2. FirstRole(l[k]) = "switches"
  <2>1. CASE k = 1
    BY <1>1, <2>1, RoleSteps
  <2>2. CASE k # 1
    <3>1. k - 1 \in 1 .. Len(l) - 1 /\ (k - 1) + 1 = k
      BY <1>1, <2>2
    <3>2. Roles(l)[k] = RoleAfter(Roles(l)[k - 1], l[k - 1], l[k])
      BY <3>1, RoleSteps
    <3> QED
      BY <1>1, <3>2 DEF RoleAfter
  <2> QED
    BY <2>1, <2>2
<1>3. l[k] # <<>>
  BY <1>2 DEF FirstRole
<1>4. Len(l[k]) \in Nat \ {0}
  BY <1>1, <1>3 DEF Word
<1> QED
  BY <1>1, <1>3, <1>4 DEF Assignments, Goals, Plain

LEMMA PassFlags ==
    ASSUME NEW l \in Seq(Word), NEW k \in Switches(l),
           \A m \in 2 .. Len(l[k]) : l[k][m] \in FlagLetters
    PROVE  /\ Passes(l, k - 1, k, {}, {})
           /\ Boundary(l, k, TRUE)
           /\ FlagsTo(l, k) = FlagsTo(l, k - 1) \cup {l[k][m] : m \in 2 .. Len(l[k])}
<1>1. /\ k \in DOMAIN l /\ k \in 1 .. Len(l) /\ Len(l) \in Nat /\ l[k] \in Word /\ l[k] # <<>>
      /\ k \notin Assignments(l) /\ k \notin Goals(l) /\ Roles(l)[k] = "switches"
  BY SwitchWordIs
<1>2. /\ Takers(l[k]) = {} /\ ~WantsNext(l[k])
      /\ Range(Letters(l[k])) = {l[k][m] : m \in 2 .. Len(l[k])}
  BY <1>1, AllFlagsWord
<1>3. Range(Letters(l[k])) \subseteq FlagLetters
  BY <1>2
<1>4. \A L : k \notin With(l, L)
  BY <1>2 DEF With
<1>5. ~BadWord(l, k)
  BY <1>1, <1>2, <1>3, <1>4, BadWordIs
<1>6. 1 .. k = 1 .. k - 1 \cup {k}
  BY <1>1
<1>7. Passes(l, k - 1, k, {}, {})
  <2>1. k - 1 \in 0 .. Len(l) /\ k \in k - 1 .. Len(l) /\ \A j \in (k - 1) + 1 .. k : j = k
    BY <1>1
  <2>2. \A L : With(l, L) \cap 1 .. k = With(l, L) \cap (1 .. k - 1 \cup {})
    BY <1>4, <1>6
  <2>3. Assignments(l) \cap 1 .. k = (Assignments(l) \cap 1 .. k - 1) \cup {}
    BY <1>1, <1>6
  <2> QED
    BY <1>5, <2>1, <2>2, <2>3 DEF Passes
<1>8. k < Len(l) => Roles(l)[k + 1] = RoleAfter(Roles(l)[k], l[k], l[k + 1])
  BY <1>1, RoleSteps
<1>9. FlagsTo(l, k) = FlagsTo(l, k - 1) \cup Range(Letters(l[k]))
  <2>1. FlagsTo(l, k) = FlagsTo(l, k - 1) \cup
          (IF k \in Switches(l) THEN Range(Letters(l[k])) \cap FlagLetters ELSE {})
    BY <1>1, FlagsStep
  <2> QED
    BY <1>3, <2>1
<1> QED
  BY <1>1, <1>2, <1>7, <1>8, <1>9 DEF Boundary, RoleAfter

\* Nothing is passed by standing still.
LEMMA PassNothing ==
    ASSUME NEW l \in Seq(Word), NEW d \in 0 .. Len(l)
    PROVE  Passes(l, d, d, {}, {})
<1>1. Len(l) \in Nat /\ d \in d .. Len(l) /\ d + 1 .. d = {}
  OBVIOUS
<1> QED
  BY <1>1 DEF Passes

\* Into a word of switches.
LEMMA EnterWord ==
    ASSUME NEW l \in Seq(Word), NEW k \in Switches(l), NEW s, s = Tail(l[k])
    PROVE  /\ PlaceAt(l, k, s, TRUE)
           /\ Passes(l, k - 1, DoneAt(k, s), {}, {})
           /\ Seen(l, k, s) = FlagsTo(l, k - 1)
<1>1. /\ k \in DOMAIN l /\ k \in 0 .. Len(l) /\ k - 1 \in 0 .. Len(l) /\ Len(l) \in Nat
      /\ l[k] \in Seq(Symbol) /\ l[k] # <<>> /\ Len(l[k]) \in Nat \ {0}
  BY SwitchWordIs DEF Word
<1>2. s \in Seq(Symbol) /\ Len(s) = Len(l[k]) - 1 /\ s = SubSeq(l[k], 2, Len(l[k]))
  BY <1>1
<1>3. CASE s = <<>>
  <2>1. Len(l[k]) = 1
    BY <1>1, <1>2, <1>3
  <2>2. \A m \in 2 .. Len(l[k]) : FALSE
    BY <2>1
  <2>3. /\ Passes(l, k - 1, k, {}, {}) /\ Boundary(l, k, TRUE)
        /\ FlagsTo(l, k) = FlagsTo(l, k - 1) \cup {l[k][m] : m \in 2 .. Len(l[k])}
    BY <2>2, PassFlags
  <2> QED
    BY <1>1, <1>3, <2>2, <2>3 DEF PlaceAt, DoneAt, Seen, Noted
<1>4. CASE s # <<>>
  <2>1. Len(l[k]) - Len(s) = 1 /\ Len(l[k]) - Len(s) + 1 = 2 /\ Len(s) < Len(l[k])
    BY <1>1, <1>2
  <2>2. \A m \in 2 .. Len(l[k]) - Len(s) : FALSE
    BY <2>1
  <2>3. InWord(l, k, s)
    BY <1>1, <1>2, <2>1, <2>2 DEF InWord
  <2>4. DoneAt(k, s) = k - 1 /\ Noted(l, k, s) = {}
    BY <1>4, <2>2 DEF DoneAt, Noted
  <2> QED
    BY <1>1, <1>4, <2>3, <2>4, PassNothing DEF PlaceAt, Seen
<1> QED
  BY <1>3, <1>4

\* Where the next letter stands.
LEMMA LetterAt ==
    ASSUME NEW l \in Seq(Word), NEW k, NEW s, s # <<>>, InWord(l, k, s)
    PROVE  /\ k \in Switches(l) /\ l[k] \in Seq(Symbol) /\ s \in Seq(Symbol)
           /\ Len(l[k]) \in Nat /\ Len(s) \in Nat \ {0} /\ Len(Tail(s)) = Len(s) - 1
           /\ Len(l[k]) - Len(s) \in 1 .. Len(l[k]) - 1
           /\ Head(s) = l[k][Len(l[k]) - Len(s) + 1]
           /\ Tail(s) = SubSeq(l[k], Len(l[k]) - Len(s) + 2, Len(l[k]))
<1> DEFINE w == l[k]
           n == Len(l[k]) - Len(s) + 1
<1>1. /\ k \in Switches(l) /\ w \in Seq(Symbol) /\ Len(w) \in Nat /\ Len(s) < Len(w)
      /\ s = SubSeq(w, n, Len(w))
  BY SwitchWordIs DEF InWord, Word
<1> HIDE DEF w
<1>2. s \in Seq(Symbol) /\ Len(s) \in Nat \ {0} /\ Len(Tail(s)) = Len(s) - 1
  BY DEF InWord
<1>3. Len(w) - Len(s) \in 1 .. Len(w) - 1 /\ n \in 2 .. Len(w) /\ n + 1 = Len(w) - Len(s) + 2
  BY <1>1, <1>2 DEF w
<1> HIDE DEF n
<1>4. Head(s) = w[n]
  BY <1>1, <1>2, <1>3
<1>5. Tail(s) = SubSeq(w, n + 1, Len(w))
  BY <1>1, <1>3, HeadTailOfSubSeq
<1> QED
  BY <1>1, <1>2, <1>3, <1>4, <1>5 DEF w, n

\* Over a letter that is a flag.
LEMMA PassFlag ==
    ASSUME NEW l \in Seq(Word), NEW k, NEW s, s # <<>>, InWord(l, k, s), Head(s) \in FlagLetters
    PROVE  /\ PlaceAt(l, k, Tail(s), TRUE)
           /\ Passes(l, k - 1, DoneAt(k, Tail(s)), {}, {})
           /\ Seen(l, k, Tail(s)) = Seen(l, k, s) \cup {Head(s)}
<1> DEFINE t == Tail(s)
           n == Len(l[k]) - Len(s) + 1
<1>1. /\ k \in Switches(l) /\ l[k] \in Seq(Symbol) /\ s \in Seq(Symbol)
      /\ Len(l[k]) \in Nat /\ Len(s) \in Nat \ {0} /\ Len(t) = Len(s) - 1
      /\ Len(l[k]) - Len(s) \in 1 .. Len(l[k]) - 1
      /\ Head(s) = l[k][n]
      /\ t = SubSeq(l[k], Len(l[k]) - Len(s) + 2, Len(l[k])) /\ t \in Seq(Symbol)
  <2>1. /\ k \in Switches(l) /\ l[k] \in Seq(Symbol) /\ s \in Seq(Symbol)
        /\ Len(l[k]) \in Nat /\ Len(s) \in Nat \ {0} /\ Len(t) = Len(s) - 1
        /\ Len(l[k]) - Len(s) \in 1 .. Len(l[k]) - 1
        /\ Head(s) = l[k][n]
        /\ t = SubSeq(l[k], Len(l[k]) - Len(s) + 2, Len(l[k]))
    BY LetterAt
  <2>2. t \in Seq(Symbol)
    BY <2>1
  <2> HIDE DEF t, n
  <2> QED
    BY <2>1, <2>2
<1>2. k \in 1 .. Len(l) /\ k \in 0 .. Len(l) /\ Len(l) \in Nat /\ k - 1 \in 0 .. Len(l)
  BY <1>1, SwitchWordIs
<1> HIDE DEF t
<1>3. /\ n \in 2 .. Len(l[k]) /\ Len(l[k]) - Len(t) = n /\ n - 1 = Len(l[k]) - Len(s)
      /\ Len(l[k]) - Len(s) + 2 = n + 1 /\ 2 .. n = 2 .. n - 1 \cup {n}
  BY <1>1
<1> HIDE DEF n
<1>4. \A m \in 2 .. n - 1 : l[k][m] \in FlagLetters
  BY <1>3 DEF InWord
<1>5. \A m \in 2 .. n : l[k][m] \in FlagLetters
  BY <1>1, <1>3, <1>4
<1>6. {l[k][m] : m \in 2 .. n} = {l[k][m] : m \in 2 .. n - 1} \cup {Head(s)}
  BY <1>1, <1>3
<1>7. Seen(l, k, s) = FlagsTo(l, k - 1) \cup {l[k][m] : m \in 2 .. n - 1}
  BY <1>3 DEF Seen, Noted, DoneAt
<1>8. CASE t = <<>>
  <2>0. Len(t) = 0
    BY <1>8
  <2>1. n = Len(l[k])
    BY <1>1, <1>3, <2>0
  <2>2. /\ Passes(l, k - 1, k, {}, {}) /\ Boundary(l, k, TRUE)
        /\ FlagsTo(l, k) = FlagsTo(l, k - 1) \cup {l[k][m] : m \in 2 .. n}
    BY <1>1, <1>5, <2>1, PassFlags
  <2>3. Seen(l, k, t) = FlagsTo(l, k) /\ DoneAt(k, t) = k
    BY <1>8 DEF Seen, Noted, DoneAt
  <2>4. Seen(l, k, t) = Seen(l, k, s) \cup {Head(s)}
    BY <1>6, <1>7, <2>2, <2>3
  <2> QED
    BY <1>2, <1>8, <2>2, <2>3, <2>4 DEF PlaceAt, t
<1>9. CASE t # <<>>
  <2>1. InWord(l, k, t)
    BY <1>1, <1>3, <1>5 DEF InWord
  <2>2. Seen(l, k, t) = FlagsTo(l, k - 1) \cup {l[k][m] : m \in 2 .. n} /\ DoneAt(k, t) = k - 1
    BY <1>3, <1>9 DEF Seen, Noted, DoneAt
  <2>3. Seen(l, k, t) = Seen(l, k, s) \cup {Head(s)}
    BY <1>6, <1>7, <2>2
  <2> QED
    BY <1>2, <1>9, <2>1, <2>2, <2>3, PassNothing DEF PlaceAt, t
<1> QED
  BY <1>8, <1>9

(***************************************************************************)
(* Over a letter that takes an argument: to the end of its word, or over   *)
(* the next word.                                                          *)
(***************************************************************************)
ArgumentUpTo(l, k, s, e) ==
    IF Len(s) > 1 THEN e = k ELSE k < Len(l) /\ e = k + 1
Behind(l, k, s, e) ==
    /\ PlaceAt(l, e, <<>>, TRUE) /\ k \in 1 .. Len(l) /\ e \in {k, k + 1}
    /\ Head(s) # "C" => Passes(l, k - 1, e, {k}, {})
    /\ FlagsTo(l, e) = Seen(l, k, s)
    /\ \A L : k \in With(l, L) <=> Head(s) \in L
    /\ \A L : e # k => e \notin With(l, L)
    /\ Taker(l[k]) = Head(s)
    /\ Argument(l, k) = IF Len(s) > 1 THEN Tail(s) ELSE l[k + 1]

LEMMA PassArgument ==
    ASSUME NEW l \in Seq(Word), NEW k \in Nat, NEW s, s # <<>>, InWord(l, k, s),
           Head(s) \in ArgLetters, NEW e \in Nat, ArgumentUpTo(l, k, s, e)
    PROVE  Behind(l, k, s, e)
<1>0. (Len(s) > 1 /\ e = k) \/ (~(Len(s) > 1) /\ k < Len(l) /\ e = k + 1)
  BY DEF ArgumentUpTo
<1> DEFINE n == Len(l[k]) - Len(s) + 1
<1>1. /\ k \in Switches(l) /\ l[k] \in Seq(Symbol) /\ s \in Seq(Symbol)
      /\ Len(l[k]) \in Nat /\ Len(s) \in Nat \ {0}
      /\ Len(l[k]) - Len(s) \in 1 .. Len(l[k]) - 1
      /\ Head(s) = l[k][n]
      /\ Tail(s) = SubSeq(l[k], Len(l[k]) - Len(s) + 2, Len(l[k]))
  BY LetterAt
<1>2. /\ k \in 1 .. Len(l) /\ k \in DOMAIN l /\ Len(l) \in Nat /\ k - 1 \in 0 .. Len(l)
      /\ k \notin Assignments(l) /\ k \notin Goals(l) /\ Roles(l)[k] = "switches"
      /\ 1 .. k = 1 .. k - 1 \cup {k}
  BY <1>1, SwitchWordIs
<1>3. /\ n \in 2 .. Len(l[k]) /\ n - 1 = Len(l[k]) - Len(s)
      /\ Len(l[k]) - Len(s) + 2 = n + 1 
      /\ (Len(s) > 1 => n < Len(l[k])) /\ (~(Len(s) > 1) => n = Len(l[k]) /\ k # Len(l))
  BY <1>0, <1>1, <1>2
<1> HIDE DEF n
<1>4. \A m \in 2 .. n - 1 : l[k][m] \in FlagLetters
  BY <1>3 DEF InWord
<1>5. /\ Takers(l[k]) # {} /\ Min(Takers(l[k])) = n /\ Taker(l[k]) = Head(s)
      /\ Range(Letters(l[k])) = {l[k][m] : m \in 2 .. n}
      /\ WantsNext(l[k]) <=> ~(Len(s) > 1)
  <2>1. /\ Takers(l[k]) # {} /\ Min(Takers(l[k])) = n /\ Taker(l[k]) = Head(s)
        /\ Range(Letters(l[k])) = {l[k][m] : m \in 2 .. n}
    BY <1>1, <1>3, <1>4, FirstTaker DEF Word
  <2>2. WantsNext(l[k]) <=> n = Len(l[k])
    BY <2>1 DEF WantsNext
  <2>3. n = Len(l[k]) <=> ~(Len(s) > 1)
    BY <1>1, <1>3
  <2> QED
    BY <2>1, <2>2, <2>3
<1>6. Argument(l, k) = IF Len(s) > 1 THEN Tail(s) ELSE l[k + 1]
  <2>1. CASE Len(s) > 1
    BY <1>1, <1>3, <1>5, <2>1 DEF Argument
  <2>2. CASE ~(Len(s) > 1)
    <3>1. k # Len(l) /\ WantsNext(l[k])
      BY <1>2, <1>3, <1>5, <2>2
    <3> QED
      BY <2>2, <3>1 DEF Argument
  <2> QED
    BY <2>1, <2>2
<1>7. \A L : k \in With(l, L) <=> Head(s) \in L
  BY <1>1, <1>5 DEF With
<1>8. /\ {l[k][m] : m \in 2 .. n} \subseteq FlagLetters \cup ArgLetters
      /\ FlagLetters \cap {l[k][m] : m \in 2 .. n} = {l[k][m] : m \in 2 .. n - 1}
  <2>1. 2 .. n = 2 .. n - 1 \cup {n}
    BY <1>3
  <2>2. l[k][n] \in ArgLetters /\ l[k][n] \notin FlagLetters
    BY <1>1, LettersApart
  <2> QED
    BY <1>4, <2>1, <2>2
<1>9. FlagsTo(l, k) = Seen(l, k, s)
  <2>1. FlagsTo(l, k) = FlagsTo(l, k - 1) \cup
          (IF k \in Switches(l) THEN Range(Letters(l[k])) \cap FlagLetters ELSE {})
    BY <1>2, FlagsStep
  <2>2. Seen(l, k, s) = FlagsTo(l, k - 1) \cup {l[k][m] : m \in 2 .. n - 1}
    BY <1>3 DEF Seen, Noted, DoneAt
  <2> QED
    BY <1>1, <1>5, <1>8, <2>1, <2>2
<1>10. Head(s) # "C" => ~BadWord(l, k)
  <2> SUFFICES ASSUME Head(s) # "C" PROVE ~BadWord(l, k)
    OBVIOUS
  <2>1. Range(Letters(l[k])) \ (FlagLetters \cup ArgLetters) = {}
    BY <1>5, <1>8
  <2>2. ~(WantsNext(l[k]) /\ k = Len(l))
    BY <1>2, <1>3, <1>5
  <2>3. k \notin With(l, {"C"})
    BY <1>7
  <2> QED
    BY <1>2, <2>1, <2>2, <2>3, BadWordIs
<1>11. Head(s) # "C" => Passes(l, k - 1, k, {k}, {})
  <2>1. k - 1 \in 0 .. Len(l) /\ k \in k - 1 .. Len(l) /\ \A j \in (k - 1) + 1 .. k : j = k
    BY <1>2
  <2>2. \A L : With(l, L) \cap 1 .. k = With(l, L) \cap (1 .. k - 1 \cup {k})
    BY <1>2
  <2>3. Assignments(l) \cap 1 .. k = (Assignments(l) \cap 1 .. k - 1) \cup {}
    BY <1>2
  <2> QED
    BY <1>10, <2>1, <2>2, <2>3 DEF Passes
<1>12. k < Len(l) =>
         Roles(l)[k + 1] = IF WantsNext(l[k]) THEN "argument" ELSE FirstRole(l[k + 1])
  <2>1. k < Len(l) => Roles(l)[k + 1] = RoleAfter(Roles(l)[k], l[k], l[k + 1])
    BY <1>2, RoleSteps
  <2> QED
    BY <1>2, <2>1 DEF RoleAfter
<1>13. CASE Len(s) > 1
  <2>1. e = k /\ Boundary(l, k, TRUE)
    BY <1>0, <1>3, <1>5, <1>12, <1>13 DEF Boundary
  <2>2. k \in 0 .. Len(l)
    BY <1>2
  <2> QED
    BY <1>2, <1>5, <1>6, <1>7, <1>9, <1>11, <2>1, <2>2 DEF PlaceAt, Behind
<1>14. CASE ~(Len(s) > 1)
  <2>1. e = k + 1 /\ k < Len(l) /\ e \in 1 .. Len(l) /\ e \in DOMAIN l /\ e - 1 = k /\ e \in 0 .. Len(l)
    BY <1>0, <1>2, <1>14
  <2>2. Roles(l)[e] = "argument"
    BY <1>3, <1>5, <1>12, <1>14, <2>1
  <2>3. e \notin Assignments(l) /\ \A L : e \notin With(l, L)
    BY <2>2 DEF Assignments, Plain, With, Switches
  <2>4. Passes(l, k, e, {}, {}) /\ FlagsTo(l, e) = FlagsTo(l, k) /\ Boundary(l, e, TRUE)
    BY <2>1, <2>2, <2>3, PassWord
  <2>5. ASSUME Head(s) # "C" PROVE Passes(l, k - 1, e, {k}, {})
    <3>1. Passes(l, k - 1, k, {k}, {})
      BY <1>11, <2>5
    <3>2. e \in k - 1 .. Len(l) /\ (k - 1) + 1 .. e = ((k - 1) + 1 .. k) \cup (k + 1 .. e)
      BY <1>2, <2>1
    <3>3. \A j \in (k - 1) + 1 .. e : ~BadWord(l, j)
      BY <2>4, <3>1, <3>2 DEF Passes
    <3>4. /\ \A L : With(l, L) \cap 1 .. e = With(l, L) \cap (1 .. k - 1 \cup {k})
          /\ Assignments(l) \cap 1 .. e = (Assignments(l) \cap 1 .. k - 1) \cup {}
      BY <2>4, <3>1 DEF Passes
    <3> QED
      BY <1>2, <3>2, <3>3, <3>4 DEF Passes
  <2> QED
    BY <1>2, <1>5, <1>6, <1>7, <1>9, <2>1, <2>3, <2>4, <2>5 DEF PlaceAt, Behind
<1> QED
  BY <1>13, <1>14

-----------------------------------------------------------------------------
(***************************************************************************)
(* The code that the words up to d ask for.                                *)
(***************************************************************************)
Chunk == (Symbol \X Word)
           \cup {<<"mkinit">>, <<"mksite">>, <<"PRESTO_INIT">>, <<"makefile">>}
CodeOf(l, k) == <<Taker(l[k]), Argument(l, k)>>
IsAsked(f, l) ==
    f = [k \in 0 .. Len(l) |->
            IF k = 0 THEN <<>>
            ELSE IF k \in With(l, CodeLetters)
                 THEN Append(f[k - 1], <<Taker(l[k]), Argument(l, k)>>)
            ELSE f[k - 1]]

LEMMA CodeTyped ==
    ASSUME NEW l \in Seq(Word), NEW L, NEW k \in With(l, L)
    PROVE  CodeOf(l, k) \in Chunk
<1> DEFINE w == l[k]
           T == Takers(w)
           n == Min(T)
<1>1. k \in 1 .. Len(l) /\ Len(l) \in Nat /\ k \in DOMAIN l /\ w \in Word /\ T # {}
  BY SwitchWordIs DEF With
<1>2. w \in Seq(Symbol) /\ Len(w) \in Nat /\ T \in SUBSET Nat
  BY <1>1 DEF Takers, Word
<1>3. n \in T
  <2> HIDE DEF T
  <2> QED
    BY <1>1, <1>2, MinIn
<1>4. n \in 2 .. Len(w) /\ n \in 1 .. Len(w) /\ n + 1 \in Nat /\ n + 1 \in 1 .. Len(w) + 1
  BY <1>2, <1>3 DEF Takers
<1>5. Letters(w) = SubSeq(w, 2, n)
  BY <1>1 DEF Letters
<1>6. Taker(w) = w[n] /\ w[n] \in Symbol
  <2>1. n >= 2
    BY <1>2, <1>4
  <2> HIDE DEF w, n
  <2>2. Last(Letters(w)) = w[n]
    BY <1>1, <1>4, <1>5, <2>1, LettersAre
  <2> QED
    BY <1>2, <1>4, <2>2 DEF Taker
<1>7. SubSeq(w, n + 1, Len(w)) \in Word
  <2> HIDE DEF w, n
  <2> QED
    BY <1>2, <1>4, SubSeqProperties DEF Word
<1>8. k # Len(l) => l[k + 1] \in Word
  BY <1>1
<1>9. Argument(l, k) \in Word
  BY <1>7, <1>8 DEF Argument, Word
<1> QED
  BY <1>6, <1>9 DEF CodeOf, Chunk

LEMMA CodeSteps ==
    ASSUME NEW l \in Seq(Word)
    PROVE  /\ CodeTo(l, 0) = <<>>
           /\ \A k \in 1 .. Len(l) :
                 CodeTo(l, k) = IF k \in With(l, CodeLetters)
                                THEN Append(CodeTo(l, k - 1), CodeOf(l, k))
                                ELSE CodeTo(l, k - 1)
           /\ \A d \in 0 .. Len(l) : CodeTo(l, d) \in Seq(Chunk)
<1> DEFINE W == With(l, CodeLetters)
           F == [n \in 1 .. Len(l) |->
                    [c \in Seq(Chunk) |-> IF n \in W THEN Append(c, CodeOf(l, n)) ELSE c]]
<1>1. Len(l) \in Nat /\ <<>> \in Seq(Chunk)
  OBVIOUS
<1>2. ASSUME NEW c \in Seq(Chunk), NEW n \in W PROVE Append(c, CodeOf(l, n)) \in Seq(Chunk)
  BY CodeTyped
<1> HIDE DEF W
<1>3. F \in [1 .. Len(l) -> [Seq(Chunk) -> Seq(Chunk)]]
  BY <1>2
<1>4. PICK f \in [0 .. Len(l) -> Seq(Chunk)] : Iterates(f, Len(l), <<>>, F)
  <2> HIDE DEF F
  <2> QED
    BY <1>1, <1>3, IterationExists
<1>5. ASSUME NEW n \in 0 .. Len(l)
      PROVE  f[n] = IF n = 0 THEN <<>>
                    ELSE IF n \in W THEN Append(f[n - 1], <<Taker(l[n]), Argument(l, n)>>)
                    ELSE f[n - 1]
  <2>1. f[n] = IF n = 0 THEN <<>> ELSE F[n][f[n - 1]]
    <3> HIDE DEF F
    <3> QED
      BY <1>4 DEF Iterates
  <2>2. n # 0 => n \in 1 .. Len(l) /\ f[n - 1] \in Seq(Chunk)
    BY <1>1
  <2> QED
    BY <2>1, <2>2 DEF CodeOf
<1>6. IsAsked(f, l)
  <2>1. f = [n \in 0 .. Len(l) |-> f[n]]
    OBVIOUS
  <2> QED
    BY <1>5, <2>1 DEF IsAsked, W
<1> DEFINE g == CHOOSE h : IsAsked(h, l)
<1>7. IsAsked(g, l)
  BY <1>6
<1>8. \A d : CodeTo(l, d) = g[d]
  BY DEF CodeTo, IsAsked
<1> HIDE DEF g
<1>9. \A n \in 0 .. Len(l) :
          g[n] = IF n = 0 THEN <<>>
                 ELSE IF n \in W THEN Append(g[n - 1], CodeOf(l, n)) ELSE g[n - 1]
  BY <1>7 DEF IsAsked, W, CodeOf
<1>10. \A k \in 1 .. Len(l) : g[k] = IF k \in W THEN Append(g[k - 1], CodeOf(l, k)) ELSE g[k - 1]
  <2>1. \A k \in 1 .. Len(l) : k \in 0 .. Len(l) /\ k # 0
    BY <1>1
  <2> QED
    BY <1>9, <2>1
<1>11. g[0] = <<>>
  BY <1>1, <1>9
<1>12. \A d \in 0 .. Len(l) : g[d] \in Seq(Chunk)
  <2> DEFINE V == {d \in Nat : g[d] \in Seq(Chunk)}
  <2>1. 0 \in V
    BY <1>1, <1>11
  <2>2. ASSUME NEW n \in 0 .. Len(l) - 1, n \in V PROVE n + 1 \in V
    <3>1. n + 1 \in 1 .. Len(l) /\ (n + 1) - 1 = n /\ n + 1 \in Nat
      BY <1>1
    <3>2. g[n + 1] = IF n + 1 \in W THEN Append(g[n], CodeOf(l, n + 1)) ELSE g[n]
      BY <1>10, <3>1
    <3> QED
      BY <1>2, <2>2, <3>1, <3>2
  <2> HIDE DEF V
  <2>3. 0 .. Len(l) \subseteq V
    BY <1>1, <2>1, <2>2, Induction
  <2> QED
    BY <2>3 DEF V
<1> QED
  BY <1>8, <1>10, <1>11, <1>12 DEF W

\* Where no word asks for code, the code stays.
LEMMA CodeSame ==
    ASSUME NEW l \in Seq(Word), NEW d \in 0 .. Len(l), NEW e \in d .. Len(l),
           With(l, CodeLetters) \cap (d + 1 .. e) = {}
    PROVE  CodeTo(l, e) = CodeTo(l, d)
<1> DEFINE T == {n \in Nat : d + n <= e => CodeTo(l, d + n) = CodeTo(l, d)}
<1>1. Len(l) \in Nat /\ d \in Nat /\ e \in Nat /\ e - d \in Nat /\ d + (e - d) = e /\ d + 0 = d
  OBVIOUS
<1>2. 0 \in T
  BY <1>1
<1>3. ASSUME NEW n \in 0 .. (e - d) - 1, n \in T PROVE n + 1 \in T
  <2>1. /\ d + (n + 1) \in 1 .. Len(l) /\ d + (n + 1) \in d + 1 .. e /\ n + 1 \in Nat
        /\ (d + (n + 1)) - 1 = d + n /\ d + n <= e
    BY <1>1
  <2>2. CodeTo(l, d + (n + 1)) = CodeTo(l, d + n)
    <3>1. d + (n + 1) \notin With(l, CodeLetters)
      BY <2>1
    <3> QED
      BY <2>1, <3>1, CodeSteps
  <2> QED
    BY <1>3, <2>1, <2>2
<1> HIDE DEF T
<1>4. e - d \in T
  <2>1. 0 .. e - d \subseteq T
    BY <1>1, <1>2, <1>3, Induction
  <2> QED
    BY <1>1, <2>1
<1> QED
  BY <1>1, <1>4 DEF T

\* The code that the first words ask for is the first that is asked for.
LEMMA CodePrefix ==
    ASSUME NEW l \in Seq(Word), NEW d \in 0 .. Len(l)
    PROVE  IsPrefix(CodeTo(l, d), CodeTo(l, Len(l)))
<1> DEFINE c == CodeTo(l, d)
           T == {n \in Nat : d + n <= Len(l) => IsPrefix(c, CodeTo(l, d + n))}
<1>1. Len(l) \in Nat /\ d \in Nat /\ Len(l) - d \in Nat /\ d + (Len(l) - d) = Len(l) /\ d + 0 = d
  OBVIOUS
<1>2. c \in Seq(Chunk)
  BY CodeSteps
<1>3. 0 \in T
  BY <1>1, <1>2 DEF IsPrefix
<1>4. ASSUME NEW n \in 0 .. (Len(l) - d) - 1, n \in T PROVE n + 1 \in T
  <2>1. /\ d + (n + 1) \in 1 .. Len(l) /\ n + 1 \in Nat /\ d + n \in 0 .. Len(l)
        /\ (d + (n + 1)) - 1 = d + n /\ d + n <= Len(l)
    BY <1>1
  <2> DEFINE a == CodeTo(l, d + n)
             b == CodeTo(l, d + (n + 1))
  <2>2. a \in Seq(Chunk) /\ IsPrefix(c, a)
    BY <1>4, <2>1, CodeSteps
  <2>3. b = a \/ (d + (n + 1) \in With(l, CodeLetters) /\ b = Append(a, CodeOf(l, d + (n + 1))))
    BY <2>1, CodeSteps
  <2> HIDE DEF a, b
  <2>4. IsPrefix(c, b)
    <3>1. CASE b = a
      BY <2>2, <3>1
    <3>2. CASE d + (n + 1) \in With(l, CodeLetters) /\ b = Append(a, CodeOf(l, d + (n + 1)))
      <4>1. CodeOf(l, d + (n + 1)) \in Chunk
        BY <3>2, CodeTyped
      <4>2. Len(b) = Len(a) + 1 /\ b \in Seq(Chunk) /\ \A j \in 1 .. Len(a) : b[j] = a[j]
        BY <2>2, <3>2, <4>1
      <4>3. Len(c) \in 0 .. Len(a) /\ Len(a) \in Nat
        BY <1>2, <2>2 DEF IsPrefix
      <4>4. SubSeq(b, 1, Len(c)) = SubSeq(a, 1, Len(c))
        BY <1>2, <2>2, <4>2, <4>3
      <4> QED
        BY <2>2, <4>2, <4>3, <4>4 DEF IsPrefix
    <3> QED
      BY <2>3, <3>1, <3>2
  <2> QED
    BY <2>1, <2>4 DEF b
<1> HIDE DEF T
<1>5. Len(l) - d \in T
  <2>1. 0 .. Len(l) - d \subseteq T
    BY <1>1, <1>3, <1>4, Induction
  <2> QED
    BY <1>1, <2>1
<1> QED
  BY <1>1, <1>5 DEF T

(***************************************************************************)
(* The chunks of a history that stand on the line.                         *)
(***************************************************************************)
Ran == [chunk : Chunk, sets : BOOLEAN, at : Nat]
IsCodeIn(f, h, l) ==
    f = [n \in 0 .. Len(h) |->
            IF n = 0 THEN <<>>
            ELSE IF h[n].at \in DOMAIN l THEN Append(f[n - 1], h[n].chunk)
            ELSE f[n - 1]]
CodeInOf(h, l) == CHOOSE f : IsCodeIn(f, h, l)

LEMMA CodeInIs ==
    ASSUME NEW l, NEW h \in Seq(Ran)
    PROVE  /\ CodeIn(h, l) = CodeInOf(h, l)[Len(h)]
           /\ CodeInOf(h, l)[0] = <<>>
           /\ \A n \in 1 .. Len(h) :
                CodeInOf(h, l)[n] = IF h[n].at \in DOMAIN l
                                    THEN Append(CodeInOf(h, l)[n - 1], h[n].chunk)
                                    ELSE CodeInOf(h, l)[n - 1]
<1> DEFINE F == [n \in 1 .. Len(h) |->
                    [c \in Seq(Chunk) |->
                        IF h[n].at \in DOMAIN l THEN Append(c, h[n].chunk) ELSE c]]
<1>1. Len(h) \in Nat /\ <<>> \in Seq(Chunk) /\ \A n \in 1 .. Len(h) : h[n].chunk \in Chunk
  <2>1. Len(h) \in Nat /\ \A n \in 1 .. Len(h) : h[n] \in Ran
    OBVIOUS
  <2>2. \A r \in Ran : r.chunk \in Chunk
    BY DEF Ran
  <2>3. <<>> \in Seq(Chunk)
    OBVIOUS
  <2> QED
    BY <2>1, <2>2, <2>3
<1>2. F \in [1 .. Len(h) -> [Seq(Chunk) -> Seq(Chunk)]]
  BY <1>1
<1>3. PICK f \in [0 .. Len(h) -> Seq(Chunk)] : Iterates(f, Len(h), <<>>, F)
  <2> HIDE DEF F
  <2> QED
    BY <1>1, <1>2, IterationExists
<1>4. ASSUME NEW n \in 0 .. Len(h)
      PROVE  f[n] = IF n = 0 THEN <<>>
                    ELSE IF h[n].at \in DOMAIN l THEN Append(f[n - 1], h[n].chunk)
                    ELSE f[n - 1]
  <2>1. f[n] = IF n = 0 THEN <<>> ELSE F[n][f[n - 1]]
    <3> HIDE DEF F
    <3> QED
      BY <1>3 DEF Iterates
  <2>2. n # 0 => n \in 1 .. Len(h) /\ f[n - 1] \in Seq(Chunk)
    BY <1>1
  <2> QED
    BY <2>1, <2>2
<1>5. IsCodeIn(f, h, l)
  <2>1. f = [n \in 0 .. Len(h) |-> f[n]]
    OBVIOUS
  <2> QED
    BY <1>4, <2>1 DEF IsCodeIn
<1> DEFINE g == CodeInOf(h, l)
<1>6. IsCodeIn(g, h, l)
  BY <1>5 DEF CodeInOf
<1>7. CodeIn(h, l) = g[Len(h)]
  BY DEF CodeIn, CodeInOf, IsCodeIn
<1> HIDE DEF g
<1>8. \A n \in 0 .. Len(h) :
          g[n] = IF n = 0 THEN <<>>
                 ELSE IF h[n].at \in DOMAIN l THEN Append(g[n - 1], h[n].chunk) ELSE g[n - 1]
  BY <1>6 DEF IsCodeIn
<1>9. \A n \in 1 .. Len(h) : n \in 0 .. Len(h) /\ n # 0
  BY <1>1
<1>10. \A n \in 1 .. Len(h) :
          g[n] = IF h[n].at \in DOMAIN l THEN Append(g[n - 1], h[n].chunk) ELSE g[n - 1]
  BY <1>8, <1>9
<1>11. g[0] = <<>>
  BY <1>1, <1>8
<1> QED
  BY <1>7, <1>10, <1>11 DEF g

LEMMA CodeInNone ==
    ASSUME NEW l
    PROVE  CodeIn(<<>>, l) = <<>>
<1> DEFINE e == <<>>
<1>1. e \in Seq(Ran) /\ Len(e) = 0
  OBVIOUS
<1> HIDE DEF e
<1>2. CodeIn(e, l) = CodeInOf(e, l)[Len(e)] /\ CodeInOf(e, l)[0] = <<>>
  BY <1>1, CodeInIs
<1> QED
  BY <1>1, <1>2 DEF e

LEMMA CodeInSteps ==
    ASSUME NEW l, NEW h \in Seq(Ran), NEW r \in Ran
    PROVE  CodeIn(Append(h, r), l) = IF r.at \in DOMAIN l
                                     THEN Append(CodeIn(h, l), r.chunk) ELSE CodeIn(h, l)
<1> DEFINE longer == Append(h, r)
           f == CodeInOf(h, l)
           g == CodeInOf(longer, l)
           T == {n \in Nat : n <= Len(h) => g[n] = f[n]}
<1>1. /\ longer \in Seq(Ran) /\ Len(h) \in Nat /\ Len(longer) = Len(h) + 1
      /\ longer[Len(h) + 1] = r /\ \A n \in 1 .. Len(h) : longer[n] = h[n]
  OBVIOUS
<1> HIDE DEF longer
<1>2. /\ CodeIn(longer, l) = g[Len(h) + 1] /\ g[0] = <<>>
      /\ \A n \in 1 .. Len(h) + 1 :
            g[n] = IF longer[n].at \in DOMAIN l THEN Append(g[n - 1], longer[n].chunk)
                   ELSE g[n - 1]
  BY <1>1, CodeInIs
<1>3. /\ CodeIn(h, l) = f[Len(h)] /\ f[0] = <<>>
      /\ \A n \in 1 .. Len(h) :
            f[n] = IF h[n].at \in DOMAIN l THEN Append(f[n - 1], h[n].chunk) ELSE f[n - 1]
  BY CodeInIs
<1> HIDE DEF f, g
<1>4. 0 \in T
  BY <1>2, <1>3
<1>5. ASSUME NEW n \in 0 .. Len(h) - 1, n \in T PROVE n + 1 \in T
  <2>1. /\ n + 1 \in 1 .. Len(h) /\ n + 1 \in 1 .. Len(h) + 1 /\ (n + 1) - 1 = n
        /\ n + 1 \in Nat /\ n <= Len(h)
    BY <1>1
  <2> QED
    BY <1>1, <1>2, <1>3, <1>5, <2>1
<1> HIDE DEF T
<1>6. g[Len(h)] = f[Len(h)]
  <2>1. 0 .. Len(h) \subseteq T
    BY <1>1, <1>4, <1>5, Induction
  <2> QED
    BY <1>1, <2>1 DEF T
<1>7. Len(h) + 1 \in 1 .. Len(h) + 1 /\ (Len(h) + 1) - 1 = Len(h)
  BY <1>1
<1> QED
  BY <1>1, <1>2, <1>3, <1>6, <1>7 DEF longer

-----------------------------------------------------------------------------
(***************************************************************************)
(* The last -j of the words up to d.                                       *)
(***************************************************************************)
SlotsOf(w) == IF Atoi(w) = 0 THEN Ridiculous ELSE Atoi(w)

LEMMA JobsSame ==
    ASSUME NEW l, NEW d, NEW e, With(l, {"j"}) \cap (1 .. d) = With(l, {"j"}) \cap (1 .. e)
    PROVE  JobsTo(l, d) = JobsTo(l, e)
BY DEF JobsTo

LEMMA JobsNew ==
    ASSUME NEW l \in Seq(Word), NEW k \in With(l, {"j"}), NEW e,
           With(l, {"j"}) \cap (1 .. e) = With(l, {"j"}) \cap (1 .. k - 1 \cup {k})
    PROVE  /\ JobsTo(l, e) = SlotsOf(Argument(l, k))
           /\ With(l, {"j"}) \cap (1 .. e) # {}
<1> DEFINE J == With(l, {"j"}) \cap (1 .. e)
<1>1. k \in 1 .. Len(l) /\ Len(l) \in Nat
  BY SwitchWordIs DEF With
<1>2. k \in J /\ J \in SUBSET Nat /\ \A j \in J : j <= k
  BY <1>1
<1> HIDE DEF J
<1>3. Max(J) = k
  BY <1>2, MaxIs
<1>4. J # {}
  BY <1>2
<1> QED
  BY <1>3, <1>4 DEF JobsTo, SlotsOf, J

-----------------------------------------------------------------------------
(***************************************************************************)
(* The variables that the words up to d set.                               *)
(***************************************************************************)
LEMMA HoldSame ==
    ASSUME NEW l, NEW d, NEW x, NEW e, NEW h,
           Assignments(l) \cap (1 .. x) = Assignments(l) \cap (1 .. d),
           VariablesHold(l, d, e, h)
    PROVE  VariablesHold(l, x, e, h)
<1>1. \A name : Named(l, name, x) = Named(l, name, d)
  BY DEF Named
<1> QED
  BY <1>1 DEF VariablesHold

LEMMA HoldNothing ==
    ASSUME NEW l, NEW e, NEW h
    PROVE  VariablesHold(l, 0, e, h)
<1>1. 1 .. 0 = {}
  OBVIOUS
<1> QED
  BY <1>1 DEF VariablesHold

\* An assignment is the last one of its name so far, and leaves the others.
LEMMA HoldAssigned ==
    ASSUME NEW l \in Seq(Word), NEW k \in Assignments(l), NEW e, NEW h, NEW f,
           f = IF ValueOf(l[k]) = <<>> THEN Unset(e, NameOf(l[k]))
               ELSE Put(e, NameOf(l[k]), ValueOf(l[k])),
           VariablesHold(l, k - 1, e, h)
    PROVE  VariablesHold(l, k, f, h)
<1>1. k \in 1 .. Len(l) /\ Len(l) \in Nat /\ k \in Nat /\ k - 1 \in Nat /\ 1 .. k = 1 .. k - 1 \cup {k}
  BY DEF Assignments, Plain
<1> DEFINE mine == NameOf(l[k])
<1> SUFFICES ASSUME NEW j \in Assignments(l) \cap (1 .. k)
             PROVE  ~SetBehind(h, NameOf(l[j]), Max(Named(l, NameOf(l[j]), k))) =>
                      Holds(f, NameOf(l[j]), ValueOf(l[Max(Named(l, NameOf(l[j]), k))]))
  BY DEF VariablesHold
<1>2. CASE NameOf(l[j]) = mine
  <2> DEFINE K == Named(l, mine, k)
  <2>1. k \in K /\ K \in SUBSET Nat /\ \A m \in K : m <= k
    BY <1>1 DEF Named
  <2> HIDE DEF K
  <2>2. Max(K) = k
    BY <2>1, MaxIs
  <2>3. Holds(f, mine, ValueOf(l[k]))
    BY DEF Holds, Unset, Put
  <2> QED
    BY <1>2, <2>2, <2>3 DEF K
<1>3. CASE NameOf(l[j]) # mine
  <2> DEFINE name == NameOf(l[j])
             m == Max(Named(l, name, k))
  <2>1. Named(l, name, k) = Named(l, name, k - 1) /\ j \in 1 .. k - 1
    BY <1>1, <1>3 DEF Named
  <2>2. ~SetBehind(h, name, m) => Holds(e, name, ValueOf(l[m]))
    BY <2>1 DEF VariablesHold
  <2> HIDE DEF m
  <2>3. (name \in DOMAIN f <=> name \in DOMAIN e) /\ (name \in DOMAIN e => f[name] = e[name])
    BY <1>3 DEF Unset, Put
  <2>4. ~SetBehind(h, name, m) => Holds(f, name, ValueOf(l[m]))
    <3> HIDE DEF name
    <3> QED
      BY <2>2, <2>3 DEF Holds
  <2> QED
    BY <2>4 DEF m
<1> QED
  BY <1>2, <1>3

\* A chunk behind the assignments can change only a variable it sets.
LEMMA HoldRun ==
    ASSUME NEW l \in Seq(Word), NEW d \in 0 .. Len(l), NEW e, NEW h \in Seq(Ran), NEW r \in Ran,
           \A m \in Assignments(l) \cap (1 .. d) : m < r.at,
           NEW f, f = IF r.sets THEN Put(e, Shared, "chunk") ELSE e,
           VariablesHold(l, d, e, h)
    PROVE  VariablesHold(l, d, f, Append(h, r))
<1> SUFFICES ASSUME NEW k \in Assignments(l) \cap (1 .. d)
             PROVE  ~SetBehind(Append(h, r), NameOf(l[k]), Max(Named(l, NameOf(l[k]), d))) =>
                      Holds(f, NameOf(l[k]), ValueOf(l[Max(Named(l, NameOf(l[k]), d))]))
  BY DEF VariablesHold
<1> DEFINE name == NameOf(l[k])
           K == Named(l, name, d)
           m == Max(K)
<1>1. d \in Nat /\ k \in K /\ K \in SUBSET (1 .. d) /\ K \subseteq Assignments(l)
  BY DEF Named
<1>2. m \in K
  <2> HIDE DEF K
  <2> QED
    BY <1>1, MaxIn
<1>3. r.at > m
  <2>1. m \in Assignments(l) \cap (1 .. d) /\ m \in Nat
    BY <1>1, <1>2
  <2>2. r.at \in Nat
    BY DEF Ran
  <2> HIDE DEF m
  <2> QED
    BY <2>1, <2>2
<1>4. ~SetBehind(h, name, m) => Holds(e, name, ValueOf(l[m]))
  BY DEF VariablesHold
<1> HIDE DEF m, K, name
<1>5. /\ Append(h, r)[Len(h) + 1] = r /\ Len(h) + 1 \in DOMAIN Append(h, r)
      /\ \A n \in DOMAIN h : n \in DOMAIN Append(h, r) /\ Append(h, r)[n] = h[n]
  OBVIOUS
<1>6. Range(h) \subseteq Range(Append(h, r)) /\ r \in Range(Append(h, r))
  BY <1>5 DEF Range
<1>7. SetBehind(h, name, m) => SetBehind(Append(h, r), name, m)
  BY <1>6 DEF SetBehind
<1>8. r.sets /\ name = Shared => SetBehind(Append(h, r), name, m)
  BY <1>3, <1>6 DEF SetBehind
<1>9. ~(r.sets /\ name = Shared) =>
        (name \in DOMAIN f <=> name \in DOMAIN e) /\ (name \in DOMAIN e => f[name] = e[name])
  BY DEF Put
<1>10. ~SetBehind(Append(h, r), name, m) => Holds(f, name, ValueOf(l[m]))
  BY <1>4, <1>7, <1>8, <1>9 DEF Holds
<1> QED
  BY <1>10 DEF name, K, m

-----------------------------------------------------------------------------
\* A flag is one of the flags of the line.
LEMMA FlagCounts ==
    ASSUME NEW l \in Seq(Word), NEW k, NEW s, s # <<>>, InWord(l, k, s), Head(s) \in FlagLetters
    PROVE  Head(s) \in FlagsTo(l, Len(l))
<1> DEFINE w == l[k]
           n == Len(l[k]) - Len(s) + 1
           T == Takers(w)
           last == IF T = {} THEN Len(w) ELSE Min(T)
<1>1. /\ k \in Switches(l) /\ l[k] \in Seq(Symbol) /\ Len(l[k]) \in Nat /\ Len(s) \in Nat \ {0}
      /\ Len(l[k]) - Len(s) \in 1 .. Len(l[k]) - 1 /\ Head(s) = l[k][Len(l[k]) - Len(s) + 1]
  BY LetterAt
<1>2. k \in Switches(l) \cap (1 .. Len(l)) /\ w \in Word
  BY <1>1, SwitchWordIs
<1>3. /\ n \in 2 .. Len(w) /\ n - 1 = Len(w) - Len(s) /\ w[n] \in FlagLetters
      /\ Len(w) \in Nat
  BY <1>1
<1>4. \A m \in 2 .. n - 1 : w[m] \in FlagLetters
  BY <1>3 DEF InWord
<1> HIDE DEF n, w
<1>5. T \in SUBSET Nat /\ \A t \in T : t \in 2 .. Len(w) /\ t \notin 2 .. n
  <2>1. \A t \in T : t \in 2 .. Len(w) /\ w[t] \notin FlagLetters
    BY LettersApart DEF Takers
  <2>2. \A t \in 2 .. n : w[t] \in FlagLetters
    BY <1>3, <1>4
  <2> HIDE DEF T
  <2> QED
    BY <2>1, <2>2
<1>6. last \in 1 .. Len(w) /\ n \in 2 .. last
  <2>1. CASE T = {}
    BY <1>3, <2>1
  <2>2. CASE T # {}
    <3>1. Min(T) \in T
      <4> HIDE DEF T
      <4> QED
        BY <1>5, <2>2, MinIn
    <3>2. Min(T) \in 2 .. Len(w) /\ Min(T) \notin 2 .. n
      BY <1>5, <3>1
    <3> HIDE DEF T
    <3> QED
      BY <1>3, <2>2, <3>2
  <2> QED
    BY <2>1, <2>2
<1>7. Letters(w) = SubSeq(w, 2, last)
  BY DEF Letters
<1> HIDE DEF last, T
<1>8. w[n] \in Range(Letters(w))
  <2>1. Range(Letters(w)) = {w[m] : m \in 2 .. last}
    BY <1>2, <1>6, <1>7, LettersAre
  <2> QED
    BY <1>6, <2>1
<1>9. Head(s) = w[n]
  BY <1>1 DEF w, n
<1> QED
  BY <1>2, <1>3, <1>8, <1>9 DEF FlagsTo, w

-----------------------------------------------------------------------------
(***************************************************************************)
(* The invariant.  Each pass is at a place of the line, has done with the  *)
(* words before it, and holds what they ask for: the flags seen and the    *)
(* last -j in the first pass, the code and the variables in the second.    *)
(***************************************************************************)
Here == DoneAt(i, sw)

TypeInv ==
    /\ line \in Seq(Word)
    /\ pc \in {"pass1", "mkinit", "mksite", "init", "pass2", "makefile", "build", "exit"}
    /\ status \in {0, 1} /\ (pc # "exit" => status = 0)
    /\ ran \in Seq(Ran)
    /\ built \in BOOLEAN

PlaceInv == Parsing => PlaceAt(line, i, sw, switches)

GoodInv ==
    /\ Parsing => \A k \in 1 .. Here : ~BadWord(line, k)
    /\ pc \notin {"pass1", "exit"} => ~Bad(line)
    /\ ran # <<>> \/ built \/ (pc = "exit" /\ status = 0) => ~Bad(line)

FlagInv ==
    /\ quit = ("Q" \in flags)
    /\ pc = "pass1" => flags = Seen(line, i, sw)
    /\ pc \notin {"pass1", "exit"} \/ ran # <<>> \/ (pc = "exit" /\ status = 0) =>
           flags = AllFlags

\* Until the second pass meets a -j, the last one of the first pass holds.
JobsAt(l, d) == JobsTo(l, IF With(l, {"j"}) \cap (1 .. d) = {} THEN Len(l) ELSE d)
JobInv ==
    /\ pc = "pass1" => slots = JobsTo(line, Here)
    /\ pc = "pass2" => slots = JobsAt(line, Here)
    /\ pc \in {"mkinit", "mksite", "init", "makefile", "build"} => slots = JobsAsked

SetupRan(h) == Len(h) >= 2 /\ h[1].chunk = <<"mkinit">> /\ h[2].chunk = <<"mksite">>
CodeInv ==
    /\ pc \in {"pass1", "mkinit"} => ran = <<>>
    /\ pc = "mksite" => Len(ran) = 1 /\ ran[1].chunk = <<"mkinit">>
    /\ pc \in {"mksite", "init"} => CodeRun = <<>>
    /\ pc \in {"init", "pass2", "makefile", "build"} \/ CodeRun # <<>> => SetupRan(ran)
    /\ pc = "pass2" => CodeRun = CodeTo(line, Here)
    /\ pc \in {"makefile", "build"} \/ built \/ (pc = "exit" /\ status = 0) =>
           CodeRun = CodeAsked
    /\ \E d \in 0 .. Len(line) : CodeRun = CodeTo(line, d)

EnvInv ==
    /\ pc = "pass2" => VariablesHold(line, Here, env, ran)
    /\ pc \in {"makefile", "build"} => VariablesHold(line, Len(line), env, ran)

EndInv ==
    /\ loaded => With(line, {"f"}) # {}
    /\ pc \in {"makefile", "build"} => ~quit
    /\ pc = "build" => loaded \/ makefile
    /\ built => pc = "exit" /\ ~quit /\ (loaded \/ makefile)
    /\ pc = "exit" /\ status = 0 => built \/ quit

Inv ==
    /\ TypeInv /\ PlaceInv /\ GoodInv /\ FlagInv /\ JobInv /\ CodeInv /\ EnvInv
    /\ EndInv

LEMMA Starts == Init => Inv
<1> SUFFICES ASSUME Init PROVE Inv
  OBVIOUS
<1>1. line \in Seq(Word) /\ Len(line) \in Nat /\ DOMAIN line = 1 .. Len(line)
  BY LineAssumption DEF Init
<1>2. /\ pc = "pass1" /\ i = 0 /\ sw = <<>> /\ switches = TRUE /\ flags = {} /\ slots = 1
      /\ loaded = FALSE /\ quit = FALSE /\ status = 0 /\ ran = <<>> /\ built = FALSE
  BY DEF Init
<1>3. Here = 0 /\ 1 .. 0 = {}
  BY <1>2 DEF Here, DoneAt
<1>4. TypeInv
  <2>1. ran \in Seq(Ran)
    BY <1>2
  <2> QED
    BY <1>1, <1>2, <2>1 DEF TypeInv
<1>5. PlaceInv
  <2>1. 0 < Len(line) => Roles(line)[0 + 1] = FirstRole(line[0 + 1])
    BY <1>1, RoleSteps
  <2> QED
    BY <1>1, <1>2, <2>1 DEF PlaceInv, PlaceAt, Boundary
<1>6. GoodInv
  BY <1>2, <1>3 DEF GoodInv
<1>7. FlagInv
  <2>1. FlagsTo(line, 0) = {}
    BY <1>3 DEF FlagsTo
  <2>2. Seen(line, i, sw) = {}
    BY <1>2, <2>1 DEF Seen, Noted, DoneAt
  <2>3. quit = ("Q" \in flags)
    <3>1. quit <=> "Q" \in flags
      BY <1>2
    <3>2. quit \in BOOLEAN
      BY <1>2
    <3> QED
      BY <3>1, <3>2
  <2> QED
    BY <1>2, <2>2, <2>3 DEF FlagInv
<1>8. JobInv
  BY <1>2, <1>3 DEF JobInv, JobsTo
<1>9. CodeInv
  <2>1. CodeRun = <<>> /\ CodeTo(line, 0) = <<>> /\ 0 \in 0 .. Len(line)
    BY <1>1, <1>2, CodeSteps, CodeInNone DEF CodeRun
  <2> QED
    BY <1>2, <2>1 DEF CodeInv
<1>10. EnvInv /\ EndInv
  BY <1>2 DEF EnvInv, EndInv
<1> QED
  BY <1>4, <1>5, <1>6, <1>7, <1>8, <1>9, <1>10 DEF Inv

-----------------------------------------------------------------------------
(***************************************************************************)
(* Steps that fail.                                                        *)
(***************************************************************************)
LEMMA Fails ==
    ASSUME Inv, pc' = "exit", status' = 1,
           UNCHANGED <<line, makefile, flags, loaded, quit, ran, built>>
    PROVE  Inv'
<1>1. TypeInv'
  BY DEF Inv, TypeInv
<1>2. PlaceInv' /\ JobInv' /\ EnvInv'
  BY DEF PlaceInv, JobInv, EnvInv, Parsing
<1>3. GoodInv'
  BY DEF Inv, GoodInv, Parsing
<1>4. FlagInv'
  BY DEF Inv, FlagInv, AllFlags
<1>5. CodeInv'
  BY DEF Inv, CodeInv, CodeRun, CodeAsked
<1>6. EndInv'
  <2>1. built' => ~quit' /\ (loaded' \/ makefile')
    BY DEF Inv, EndInv
  <2>2. loaded' => With(line', {"f"}) # {}
    BY DEF Inv, EndInv
  <2> QED
    BY <2>1, <2>2 DEF EndInv
<1> QED
  BY <1>1, <1>2, <1>3, <1>4, <1>5, <1>6 DEF Inv

(***************************************************************************)
(* Steps of a pass over words and letters.                                 *)
(***************************************************************************)
LEMMA MovesPlace ==
    ASSUME Inv, Parsing, UNCHANGED <<line, pc, status, built>>, ran' \in Seq(Ran),
           pc = "pass1" => ran' = ran,
           PlaceAt(line, i', sw', switches'), NEW a, NEW x, Passes(line, Here, Here', a, x)
    PROVE  TypeInv' /\ PlaceInv' /\ GoodInv'
<1>1. TypeInv'
  BY DEF Inv, TypeInv
<1>2. PlaceInv'
  BY DEF PlaceInv
<1>3. \A k \in 1 .. Here' : ~BadWord(line, k)
  <2>1. \A k \in 1 .. Here' : k \in 1 .. Here \/ k \in Here + 1 .. Here'
    BY DEF Passes
  <2>2. \A k \in 1 .. Here : ~BadWord(line, k)
    BY DEF Inv, GoodInv
  <2>3. \A k \in Here + 1 .. Here' : ~BadWord(line, k)
    BY DEF Passes
  <2> QED
    BY <2>1, <2>2, <2>3
<1>4. GoodInv'
  BY <1>3 DEF Inv, GoodInv, CodeInv, Parsing
<1> QED
  BY <1>1, <1>2, <1>4

LEMMA MovesNoCode ==
    ASSUME Inv, Parsing, UNCHANGED <<line, makefile, pc, status, loaded, ran, built>>,
           NEW a, NEW x, Passes(line, Here, Here', a, x),
           pc = "pass2" => a \cap With(line, CodeLetters) = {}
    PROVE  CodeInv' /\ EndInv'
<1>1. pc = "pass2" => CodeTo(line, Here') = CodeTo(line, Here)
  <2> SUFFICES ASSUME pc = "pass2" PROVE CodeTo(line, Here') = CodeTo(line, Here)
    OBVIOUS
  <2> DEFINE W == With(line, CodeLetters)
  <2>1. line \in Seq(Word) /\ Here \in 0 .. Len(line) /\ Here' \in Here .. Len(line)
    BY DEF Inv, TypeInv, Passes
  <2>2. W \cap (1 .. Here') = W \cap (1 .. Here \cup a)
    BY DEF Passes
  <2>3. W \cap (1 .. Here') = W \cap (1 .. Here)
    BY <2>2
  <2>4. \A k \in Here + 1 .. Here' : k \in 1 .. Here' /\ k \notin 1 .. Here
    BY <2>1
  <2>5. W \cap (Here + 1 .. Here') = {}
    <3> HIDE DEF W
    <3> QED
      BY <2>3, <2>4
  <2> QED
    BY <2>1, <2>5, CodeSame
<1>2. CodeRun' = CodeRun
  BY DEF CodeRun
<1>3. CodeInv'
  BY <1>1, <1>2 DEF Inv, CodeInv, Parsing, CodeAsked
<1>4. EndInv'
  BY DEF Inv, EndInv, Parsing
<1> QED
  BY <1>3, <1>4

LEMMA KeepsFlags ==
    ASSUME Inv, Parsing, UNCHANGED <<line, pc, flags, quit>>, pc = "pass1" => ran' = ran,
           Seen(line, i', sw') = Seen(line, i, sw)
    PROVE  FlagInv'
BY DEF Inv, FlagInv, CodeInv, Parsing, AllFlags

LEMMA KeepsJobs ==
    ASSUME Inv, Parsing, UNCHANGED <<line, pc, slots>>,
           With(line, {"j"}) \cap (1 .. Here') = With(line, {"j"}) \cap (1 .. Here)
    PROVE  JobInv'
<1>1. JobsTo(line, Here') = JobsTo(line, Here)
  BY JobsSame
<1>2. JobsAt(line, Here') = JobsAt(line, Here)
  BY <1>1 DEF JobsAt
<1> QED
  BY <1>1, <1>2 DEF Inv, JobInv, Parsing

LEMMA KeepsVariables ==
    ASSUME Inv, Parsing, UNCHANGED <<line, pc, env, ran>>,
           Assignments(line) \cap (1 .. Here') = Assignments(line) \cap (1 .. Here)
    PROVE  EnvInv'
<1>1. pc = "pass2" => VariablesHold(line, Here', env, ran)
  BY HoldSame DEF Inv, EnvInv
<1> QED
  BY <1>1 DEF EnvInv, Parsing

\* The next word, where all before it are done with.
LEMMA WordAt ==
    ASSUME Inv, AtWord
    PROVE  /\ line \in Seq(Word) /\ i + 1 \in DOMAIN line /\ (i + 1) - 1 = i /\ Here = i
           /\ Current = line[i + 1] /\ Current \in Word /\ Seen(line, i, sw) = FlagsTo(line, i)
           /\ Roles(line)[i + 1] = IF switches THEN FirstRole(Current) ELSE "rest"
<1>1. line \in Seq(Word) /\ PlaceAt(line, i, sw, switches) /\ sw = <<>> /\ i < Len(line)
  BY DEF Inv, TypeInv, PlaceInv, AtWord
<1>2. i \in 0 .. Len(line) /\ Boundary(line, i, switches) /\ Len(line) \in Nat
  BY <1>1 DEF PlaceAt
<1>3. i + 1 \in DOMAIN line /\ (i + 1) - 1 = i
  BY <1>1, <1>2
<1>4. Roles(line)[i + 1] = IF switches THEN FirstRole(line[i + 1]) ELSE "rest"
  BY <1>1, <1>2 DEF Boundary
<1> QED
  BY <1>1, <1>3, <1>4 DEF Here, DoneAt, Seen, Noted, Current

LEMMA EndOfSwitchesSafe ==
    ASSUME Inv, EndOfSwitches, UNCHANGED built
    PROVE  Inv'
<1> DEFINE k == i + 1
<1>1. /\ line \in Seq(Word) /\ k \in DOMAIN line /\ k - 1 = i /\ Here = i
      /\ Seen(line, i, sw) = FlagsTo(line, i)
      /\ Roles(line)[k] = IF switches THEN FirstRole(Current) ELSE "rest"
  BY WordAt DEF EndOfSwitches
<1>2. /\ UNCHANGED <<line, makefile, pc, status, loaded, flags, quit, slots, env, ran>>
      /\ Parsing /\ sw = <<>> /\ sw' = <<>> /\ i' = k /\ switches' = FALSE
      /\ FirstRole(Current) = "--" /\ switches
  BY DEF EndOfSwitches, AtWord, DoubleDash, LooksLikeSwitch, FirstRole, given, settings
<1>3. Roles(line)[k] = "--" /\ k \notin Assignments(line)
  BY <1>1, <1>2 DEF Assignments, Plain
<1> HIDE DEF k
<1>4. Passes(line, i, k, {}, {}) /\ FlagsTo(line, k) = FlagsTo(line, i) /\ Boundary(line, k, FALSE)
  BY <1>1, <1>3, PassWord
<1>5. Here' = k /\ Seen(line, i', sw') = Seen(line, i, sw) /\ k \in 0 .. Len(line)
  BY <1>1, <1>2, <1>4 DEF Here, DoneAt, Seen, Noted, Passes
<1>6. PlaceAt(line, i', sw', switches') /\ Passes(line, Here, Here', {}, {})
  BY <1>1, <1>2, <1>4, <1>5 DEF PlaceAt
<1>7. TypeInv' /\ PlaceInv' /\ GoodInv'
  BY <1>2, <1>6, MovesPlace DEF Inv, TypeInv
<1>8. CodeInv' /\ EndInv'
  BY <1>2, <1>6, MovesNoCode
<1>9. FlagInv'
  BY <1>2, <1>5, KeepsFlags
<1>10. JobInv'
  BY <1>2, <1>6, KeepsJobs DEF Passes
<1>11. EnvInv'
  BY <1>2, <1>6, KeepsVariables DEF Passes
<1> QED
  BY <1>7, <1>8, <1>9, <1>10, <1>11 DEF Inv

LEMMA SwitchWordSafe ==
    ASSUME Inv, SwitchWord, UNCHANGED built
    PROVE  Inv'
<1> DEFINE k == i + 1
<1>1. /\ line \in Seq(Word) /\ k \in DOMAIN line /\ k - 1 = i /\ Here = i /\ Current = line[k]
      /\ Seen(line, i, sw) = FlagsTo(line, i)
      /\ Roles(line)[k] = IF switches THEN FirstRole(Current) ELSE "rest"
  BY WordAt DEF SwitchWord
<1>2. /\ UNCHANGED <<line, makefile, pc, status, loaded, flags, quit, slots, env, ran>>
      /\ Parsing /\ sw = <<>> /\ sw' = Tail(Current) /\ i' = k /\ switches' = switches
      /\ FirstRole(Current) = "switches" /\ switches
  BY DEF SwitchWord, AtWord, DoubleDash, LooksLikeSwitch, FirstRole, given, settings
<1>3. k \in Switches(line)
  BY <1>1, <1>2 DEF Switches
<1> HIDE DEF k
<1>4. /\ PlaceAt(line, k, sw', TRUE) /\ Passes(line, i, DoneAt(k, sw'), {}, {})
      /\ Seen(line, k, sw') = FlagsTo(line, i)
  BY <1>1, <1>2, <1>3, EnterWord
<1>5. /\ Here' = DoneAt(k, sw') /\ Seen(line, i', sw') = Seen(line, i, sw)
      /\ PlaceAt(line, i', sw', switches')
  <2>1. switches' = TRUE \/ switches' # TRUE
    OBVIOUS
  <2>2. PlaceAt(line, i', sw', switches')
    BY <1>2, <1>4 DEF PlaceAt, Boundary
  <2> QED
    BY <1>1, <1>2, <1>4, <2>2 DEF Here
<1>6. Passes(line, Here, Here', {}, {})
  BY <1>1, <1>4, <1>5
<1>7. TypeInv' /\ PlaceInv' /\ GoodInv'
  BY <1>2, <1>5, <1>6, MovesPlace DEF Inv, TypeInv
<1>8. CodeInv' /\ EndInv'
  BY <1>2, <1>6, MovesNoCode
<1>9. FlagInv'
  BY <1>2, <1>5, KeepsFlags
<1>10. JobInv'
  BY <1>2, <1>6, KeepsJobs DEF Passes
<1>11. EnvInv'
  BY <1>2, <1>6, KeepsVariables DEF Passes
<1> QED
  BY <1>7, <1>8, <1>9, <1>10, <1>11 DEF Inv

LEMMA AssignmentSafe ==
    ASSUME Inv, Assignment, UNCHANGED built
    PROVE  Inv'
<1> DEFINE k == i + 1
<1>1. /\ line \in Seq(Word) /\ k \in DOMAIN line /\ k - 1 = i /\ Here = i /\ Current = line[k]
      /\ Seen(line, i, sw) = FlagsTo(line, i)
      /\ Roles(line)[k] = IF switches THEN FirstRole(Current) ELSE "rest"
  BY WordAt DEF Assignment
<1>2. /\ UNCHANGED <<line, makefile, pc, status, loaded, flags, quit, slots, ran>>
      /\ Parsing /\ sw = <<>> /\ sw' = <<>> /\ i' = k /\ switches' = switches
      /\ switches => FirstRole(Current) = "word"
      /\ Contains(Current, "=") /\ env' = Assign(Current)
  BY DEF Assignment, AtWord, LooksLikeSwitch, FirstRole, given
<1> HIDE DEF k
<1>3. /\ k \in Assignments(line)
      /\ Roles(line)[k] = IF switches THEN "word" ELSE "rest"
  BY <1>1, <1>2 DEF Assignments, Plain
<1>4. /\ Passes(line, i, k, {}, {k}) /\ FlagsTo(line, k) = FlagsTo(line, i)
      /\ IF switches THEN Boundary(line, k, TRUE) ELSE Boundary(line, k, FALSE)
  BY <1>1, <1>3, PassWord
<1>5. Here' = k /\ Seen(line, i', sw') = Seen(line, i, sw) /\ k \in 0 .. Len(line)
  BY <1>1, <1>2, <1>4 DEF Here, DoneAt, Seen, Noted, Passes
<1>6. PlaceAt(line, i', sw', switches') /\ Passes(line, Here, Here', {}, {k})
  BY <1>1, <1>2, <1>4, <1>5 DEF PlaceAt, Boundary
<1>7. TypeInv' /\ PlaceInv' /\ GoodInv'
  BY <1>2, <1>6, MovesPlace DEF Inv, TypeInv
<1>8. CodeInv' /\ EndInv'
  BY <1>2, <1>6, MovesNoCode
<1>9. FlagInv'
  BY <1>2, <1>5, KeepsFlags
<1>10. JobInv'
  BY <1>2, <1>6, KeepsJobs DEF Passes
<1>11. EnvInv'
  <2>1. VariablesHold(line, i, env, ran) => VariablesHold(line, k, env', ran)
    BY <1>1, <1>2, <1>3, HoldAssigned DEF Assign
  <2>2. pc = "pass2" => VariablesHold(line, i, env, ran)
    BY <1>1 DEF Inv, EnvInv
  <2> QED
    BY <1>2, <1>5, <2>1, <2>2 DEF EnvInv, Parsing
<1> QED
  BY <1>7, <1>8, <1>9, <1>10, <1>11 DEF Inv

\* The next letter, where the words before its own are done with.
LEMMA AtLetterIs ==
    ASSUME Inv, AtLetter
    PROVE  /\ line \in Seq(Word) /\ InWord(line, i, sw) /\ sw # <<>> /\ switches /\ Parsing
           /\ Here = i - 1
BY DEF Inv, TypeInv, PlaceInv, AtLetter, PlaceAt, Here, DoneAt

LEMMA FlagSafe ==
    ASSUME Inv, Flag, UNCHANGED built
    PROVE  Inv'
<1>1. /\ line \in Seq(Word) /\ InWord(line, i, sw) /\ sw # <<>> /\ switches /\ Parsing
      /\ Here = i - 1
  BY AtLetterIs DEF Flag
<1>2. /\ UNCHANGED <<line, makefile, pc, status, loaded, slots, env, ran, i, switches>>
      /\ Head(sw) \in FlagLetters /\ flags' = flags \cup {Head(sw)}
      /\ quit' = (quit \/ Head(sw) = "Q") /\ sw' = Tail(sw)
  BY DEF Flag, Letter, given
<1>3. /\ PlaceAt(line, i, sw', TRUE) /\ Passes(line, i - 1, DoneAt(i, sw'), {}, {})
      /\ Seen(line, i, sw') = Seen(line, i, sw) \cup {Head(sw)}
  BY <1>1, <1>2, PassFlag
<1>4. PlaceAt(line, i', sw', switches') /\ Passes(line, Here, Here', {}, {})
  BY <1>1, <1>2, <1>3 DEF Here, PlaceAt
<1>5. TypeInv' /\ PlaceInv' /\ GoodInv'
  BY <1>1, <1>2, <1>4, MovesPlace DEF Inv, TypeInv
<1>6. CodeInv' /\ EndInv'
  BY <1>1, <1>2, <1>4, MovesNoCode
<1>7. FlagInv'
  <2>1. Head(sw) \in AllFlags
    BY <1>1, <1>2, FlagCounts DEF AllFlags
  <2>2. quit' = ("Q" \in flags')
    <3>1. quit = ("Q" \in flags)
      BY DEF Inv, FlagInv
    <3>2. quit' <=> "Q" \in flags'
      BY <1>2, <3>1
    <3>3. quit' \in BOOLEAN
      BY <1>2
    <3> QED
      BY <3>2, <3>3
  <2>3. pc = "pass1" => flags' = Seen(line, i, sw')
    BY <1>2, <1>3 DEF Inv, FlagInv
  <2>4. pc = "pass2" => flags' = AllFlags
    BY <1>2, <2>1 DEF Inv, FlagInv
  <2>5. pc = "pass1" => ran = <<>>
    BY DEF Inv, CodeInv
  <2>6. AllFlags' = AllFlags
    BY <1>2 DEF AllFlags
  <2> QED
    BY <1>1, <1>2, <2>2, <2>3, <2>4, <2>5, <2>6 DEF FlagInv, Parsing
<1>8. JobInv'
  BY <1>1, <1>2, <1>4, KeepsJobs DEF Passes
<1>9. EnvInv'
  BY <1>1, <1>2, <1>4, KeepsVariables DEF Passes
<1> QED
  BY <1>5, <1>6, <1>7, <1>8, <1>9 DEF Inv

\* A letter with an argument, and what is behind the argument.
LEMMA AtArgument ==
    ASSUME Inv, AtLetter, HasArg, TakeArg, Letter \in ArgLetters, Letter # "C",
           UNCHANGED switches, NEW l, l = line
    PROVE  /\ l \in Seq(Word) /\ Parsing /\ Here = i - 1 /\ Here' = i'
           /\ PlaceAt(l, i', sw', switches') /\ Passes(l, Here, Here', {i}, {})
           /\ i \in 1 .. Len(l) /\ i' \in {i, i + 1}
           /\ Seen(l, i', sw') = Seen(l, i, sw)
           /\ \A L : i \in With(l, L) <=> Letter \in L
           /\ \A L : i' # i => i' \notin With(l, L)
           /\ CodeOf(l, i) = <<Letter, Arg>> /\ Argument(l, i) = Arg
<1>1. /\ l \in Seq(Word) /\ InWord(l, i, sw) /\ sw # <<>> /\ switches /\ Parsing
      /\ Here = i - 1
  BY AtLetterIs
<1>2. /\ Head(sw) \in ArgLetters /\ Head(sw) # "C" /\ Letter = Head(sw)
      /\ (Len(sw) > 1 \/ i < Len(l)) /\ sw' = <<>> /\ switches' = switches
      /\ i' = IF Len(sw) > 1 THEN i ELSE i + 1
  BY DEF HasArg, TakeArg, SkipArg, Letter
<1>3. /\ PlaceAt(l, i', <<>>, TRUE) /\ i \in 1 .. Len(l) /\ i' \in {i, i + 1}
      /\ Passes(l, i - 1, i', {i}, {})
      /\ FlagsTo(l, i') = Seen(l, i, sw)
      /\ \A L : i \in With(l, L) <=> Head(sw) \in L
      /\ \A L : i' # i => i' \notin With(l, L)
      /\ Taker(l[i]) = Head(sw)
      /\ Argument(l, i) = IF Len(sw) > 1 THEN Tail(sw) ELSE l[i + 1]
  <2>1. i \in Nat
    BY <1>1, SwitchWordIs DEF InWord
  <2>2. i' \in Nat /\ ArgumentUpTo(l, i, sw, i')
    BY <1>2, <2>1 DEF ArgumentUpTo
  <2>3. Behind(l, i, sw, i')
    BY <1>1, <1>2, <2>1, <2>2, PassArgument
  <2> QED
    BY <1>2, <2>3 DEF Behind
<1>4. sw' = <<>> /\ switches' = switches
  BY DEF TakeArg
<1>5. Here' = i' /\ Seen(l, i', sw') = FlagsTo(l, i')
  BY <1>4 DEF Here, DoneAt, Seen, Noted
<1>6. PlaceAt(l, i', sw', switches')
  BY <1>1, <1>3, <1>4 DEF PlaceAt, Boundary
<1>7. Argument(l, i) = Arg
  BY <1>3 DEF Arg
<1> QED
  BY <1>1, <1>2, <1>3, <1>5, <1>6, <1>7 DEF CodeOf

LEMMA MaxJobsSafe ==
    ASSUME Inv, MaxJobs, UNCHANGED built
    PROVE  Inv'
<1>1. /\ UNCHANGED <<line, makefile, pc, status, loaded, flags, quit, env, ran, switches>>
      /\ AtLetter /\ HasArg /\ TakeArg /\ Letter = "j" /\ slots' = SlotsOf(Arg)
  BY DEF MaxJobs, given, SlotsOf
<1>2. /\ line \in Seq(Word) /\ Parsing /\ Here = i - 1 /\ Here' = i'
      /\ PlaceAt(line, i', sw', switches') /\ Passes(line, Here, Here', {i}, {})
      /\ Seen(line, i', sw') = Seen(line, i, sw)
      /\ \A L : i \in With(line, L) <=> Letter \in L
      /\ Argument(line, i) = Arg
  BY <1>1, LettersApart, AtArgument
<1>3. i \in With(line, {"j"}) /\ i \notin With(line, CodeLetters)
  BY <1>1, <1>2, LettersApart
<1>4. TypeInv' /\ PlaceInv' /\ GoodInv'
  BY <1>1, <1>2, MovesPlace DEF Inv, TypeInv
<1>5. CodeInv' /\ EndInv'
  BY <1>1, <1>2, <1>3, MovesNoCode
<1>6. FlagInv'
  BY <1>1, <1>2, KeepsFlags
<1>7. JobInv'
  <2>1. With(line, {"j"}) \cap (1 .. i') = With(line, {"j"}) \cap (1 .. i - 1 \cup {i})
    BY <1>2 DEF Passes
  <2>2. JobsTo(line, i') = SlotsOf(Arg) /\ With(line, {"j"}) \cap (1 .. i') # {}
    BY <1>2, <1>3, <2>1, JobsNew
  <2>3. JobsAt(line, i') = SlotsOf(Arg)
    BY <2>2 DEF JobsAt
  <2> QED
    BY <1>1, <1>2, <2>2, <2>3 DEF JobInv, Parsing
<1>8. EnvInv'
  BY <1>1, <1>2, KeepsVariables DEF Passes
<1> QED
  BY <1>4, <1>5, <1>6, <1>7, <1>8 DEF Inv

LEMMA SkipCodeSafe ==
    ASSUME Inv, SkipCode, UNCHANGED built
    PROVE  Inv'
<1>1. /\ UNCHANGED <<line, makefile, pc, status, loaded, flags, quit, slots, env, ran, switches>>
      /\ AtLetter /\ HasArg /\ TakeArg /\ Letter \in CodeLetters /\ pc = "pass1"
  BY DEF SkipCode, given, settings
<1>2. Letter \in ArgLetters /\ Letter # "C" /\ Letter # "j"
  BY <1>1, LettersApart
<1>3. /\ line \in Seq(Word) /\ Parsing /\ Here = i - 1 /\ Here' = i'
      /\ PlaceAt(line, i', sw', switches') /\ Passes(line, Here, Here', {i}, {})
      /\ Seen(line, i', sw') = Seen(line, i, sw)
      /\ \A L : i \in With(line, L) <=> Letter \in L
  BY <1>1, <1>2, AtArgument
<1>4. i \notin With(line, {"j"})
  BY <1>2, <1>3
<1>5. TypeInv' /\ PlaceInv' /\ GoodInv'
  BY <1>1, <1>3, MovesPlace DEF Inv, TypeInv
<1>6. CodeInv' /\ EndInv'
  BY <1>1, <1>3, MovesNoCode
<1>7. FlagInv'
  BY <1>1, <1>3, KeepsFlags
<1>8. JobInv'
  <2>1. With(line, {"j"}) \cap (1 .. Here') = With(line, {"j"}) \cap (1 .. Here)
    BY <1>3, <1>4 DEF Passes
  <2> QED
    BY <1>1, <1>3, <2>1, KeepsJobs
<1>9. EnvInv'
  BY <1>1, <1>3, KeepsVariables DEF Passes
<1> QED
  BY <1>5, <1>6, <1>7, <1>8, <1>9 DEF Inv

\* A chunk that runs is noted, and the program goes on or ends.
Goes(r, next) ==
    /\ r \in Ran /\ ran' = Append(ran, r)
    /\ env' = IF r.sets THEN Put(env, Shared, "chunk") ELSE env
    /\ (pc' = next /\ status' = status) \/ (pc' = "exit" /\ status' = 1)

LEMMA RunsIs ==
    ASSUME NEW c \in Chunk, NEW at \in Nat, NEW next, Runs(c, at, next)
    PROVE  \E r : Goes(r, next) /\ r.chunk = c /\ r.at = at
<1>1. PICK sets \in BOOLEAN, ok \in BOOLEAN :
          /\ ran' = Append(ran, [chunk |-> c, sets |-> sets, at |-> at])
          /\ env' = IF sets THEN Put(env, Shared, "chunk") ELSE env
          /\ IF ok THEN pc' = next /\ UNCHANGED status ELSE Exit(1)
  BY DEF Runs
<1> DEFINE r == [chunk |-> c, sets |-> sets, at |-> at]
<1>2. r \in Ran /\ r.chunk = c /\ r.sets = sets /\ r.at = at
  BY DEF Ran
<1> HIDE DEF r
<1>3. Goes(r, next)
  BY <1>1, <1>2 DEF Goes, Exit, r
<1> QED
  BY <1>2, <1>3

\* What a run leaves of the invariant, whether it is of the line or not.
LEMMA RanIs ==
    ASSUME TypeInv, NEW r, NEW next, Goes(r, next), UNCHANGED line
    PROVE  /\ ran' \in Seq(Ran) /\ ran' # <<>> /\ Len(ran) \in Nat /\ Len(ran') = Len(ran) + 1
           /\ ran'[Len(ran) + 1] = r /\ \A n \in 1 .. Len(ran) : ran'[n] = ran[n]
           /\ SetupRan(ran) => SetupRan(ran')
           /\ CodeRun' = IF r.at \in DOMAIN line THEN Append(CodeRun, r.chunk) ELSE CodeRun
<1>1. ran \in Seq(Ran) /\ r \in Ran /\ ran' = Append(ran, r)
  BY DEF TypeInv, Goes
<1>2. /\ ran' \in Seq(Ran) /\ ran' # <<>> /\ Len(ran) \in Nat /\ Len(ran') = Len(ran) + 1
      /\ ran'[Len(ran) + 1] = r /\ \A n \in 1 .. Len(ran) : ran'[n] = ran[n]
  BY <1>1
<1>3. SetupRan(ran) => SetupRan(ran')
  <2> SUFFICES ASSUME SetupRan(ran) PROVE SetupRan(ran')
    OBVIOUS
  <2>1. 1 \in 1 .. Len(ran) /\ 2 \in 1 .. Len(ran) /\ Len(ran') >= 2
    BY <1>2 DEF SetupRan
  <2> QED
    BY <1>2, <2>1 DEF SetupRan
<1>4. CodeRun' = CodeIn(Append(ran, r), line)
  BY <1>1 DEF CodeRun
<1>5. CodeRun' = IF r.at \in DOMAIN line THEN Append(CodeRun, r.chunk) ELSE CodeRun
  BY <1>1, <1>4, CodeInSteps DEF CodeRun
<1> QED
  BY <1>2, <1>3, <1>5

LEMMA RunCodeSafe ==
    ASSUME Inv, RunCode, UNCHANGED built
    PROVE  Inv'
<1>1. /\ UNCHANGED <<line, makefile, flags, slots, quit, switches>>
      /\ AtLetter /\ HasArg /\ TakeArg /\ Letter \in CodeLetters /\ pc = "pass2"
      /\ Runs(<<Letter, Arg>>, i', pc)
      /\ loaded' = (loaded \/ (Letter = "f" /\ status' = 0))
  BY DEF RunCode, given, ExecuteCode
<1>2. Letter \in ArgLetters /\ Letter # "C" /\ Letter # "j"
  BY <1>1, LettersApart
<1>3. /\ line \in Seq(Word) /\ Parsing /\ Here = i - 1 /\ Here' = i'
      /\ PlaceAt(line, i', sw', switches') /\ Passes(line, Here, Here', {i}, {})
      /\ i \in 1 .. Len(line) /\ i' \in {i, i + 1}
      /\ \A L : i \in With(line, L) <=> Letter \in L
      /\ \A L : i' # i => i' \notin With(line, L)
      /\ CodeOf(line, i) = <<Letter, Arg>>
  BY <1>1, <1>2, AtArgument
<1>4. i \in With(line, CodeLetters) /\ i \notin With(line, {"j"})
  BY <1>1, <1>2, <1>3
<1>5. <<Letter, Arg>> \in Chunk
  BY <1>3, <1>4, CodeTyped
<1>6. i' \in 1 .. Len(line) /\ i' \in Nat /\ i' \in DOMAIN line /\ i - 1 \in 0 .. Len(line)
      /\ Len(line) \in Nat
  <2>1. Len(line) \in Nat /\ i' \in 0 .. Len(line)
    BY <1>3 DEF PlaceAt
  <2> QED
    BY <1>3, <2>1
<1>7. PICK r : Goes(r, pc) /\ r.chunk = <<Letter, Arg>> /\ r.at = i'
  BY <1>1, <1>5, <1>6, RunsIs
<1>8. /\ ran' \in Seq(Ran) /\ ran' # <<>>
      /\ SetupRan(ran) => SetupRan(ran')
      /\ CodeRun' = Append(CodeRun, CodeOf(line, i))
  BY <1>1, <1>3, <1>6, <1>7, RanIs DEF Inv
<1>9. (pc' = "pass2" /\ status' = status) \/ (pc' = "exit" /\ status' = 1)
  BY <1>1, <1>7 DEF Goes
<1>10. status = 0 /\ ~built /\ ~Bad(line) /\ flags = AllFlags /\ slots = JobsAt(line, i - 1)
       /\ CodeRun = CodeTo(line, i - 1) /\ SetupRan(ran) /\ VariablesHold(line, i - 1, env, ran)
  BY <1>1, <1>3 DEF Inv, TypeInv, GoodInv, FlagInv, JobInv, CodeInv, EnvInv, EndInv
<1>11. TypeInv'
  BY <1>1, <1>3, <1>8, <1>9, <1>10 DEF Inv, TypeInv
<1>12. PlaceInv'
  BY <1>1, <1>3 DEF PlaceInv
<1>13. GoodInv'
  <2>1. \A k \in 1 .. Here' : k \in DOMAIN line
    BY <1>3, <1>6
  <2>2. \A k \in 1 .. Here' : ~BadWord(line, k)
    BY <1>10, <2>1 DEF Bad
  <2> QED
    BY <1>1, <1>10, <2>2 DEF GoodInv
<1>14. FlagInv'
  <2>1. AllFlags' = AllFlags
    BY <1>1 DEF AllFlags
  <2>2. quit = ("Q" \in flags)
    BY DEF Inv, FlagInv
  <2> QED
    BY <1>1, <1>9, <1>10, <2>1, <2>2 DEF FlagInv
<1>15. JobInv'
  <2>1. With(line, {"j"}) \cap (1 .. i') = With(line, {"j"}) \cap (1 .. i - 1)
    BY <1>3, <1>4 DEF Passes
  <2>2. JobsTo(line, i') = JobsTo(line, i - 1)
    BY <2>1, JobsSame
  <2>3. slots' = JobsAt(line, i')
    BY <1>1, <1>10, <2>1, <2>2 DEF JobsAt
  <2> QED
    BY <1>1, <1>3, <1>9, <2>3 DEF JobInv
<1>16. CodeInv'
  <2>1. CodeTo(line, i) = Append(CodeTo(line, i - 1), CodeOf(line, i))
    BY <1>3, <1>4, CodeSteps
  <2>2. CodeTo(line, i') = CodeTo(line, i)
    <3>1. CASE i' = i
      BY <3>1
    <3>2. CASE i' = i + 1
      <4>1. i' - 1 = i /\ i' # i
        BY <1>3, <3>2
      <4>2. i' \notin With(line, CodeLetters)
        BY <1>3, <4>1
      <4> QED
        BY <1>3, <1>6, <4>1, <4>2, CodeSteps
    <3> QED
      BY <1>3, <3>1, <3>2
  <2>3. CodeRun' = CodeTo(line, i')
    BY <1>8, <1>10, <2>1, <2>2
  <2>4. \E d \in 0 .. Len(line) : CodeRun' = CodeTo(line, d)
    <3>1. i' \in 0 .. Len(line)
      BY <1>6
    <3> QED
      BY <2>3, <3>1
  <2>5. SetupRan(ran') /\ CodeRun' = CodeTo(line', Here') /\ line' = line
    BY <1>1, <1>3, <1>8, <1>10, <2>3
  <2>6. /\ pc' \notin {"pass1", "mkinit", "mksite", "init", "makefile", "build"}
        /\ ~built' /\ ~(pc' = "exit" /\ status' = 0)
    BY <1>1, <1>9, <1>10
  <2>7. \E d \in 0 .. Len(line') : CodeRun' = CodeTo(line', d)
    BY <2>4, <2>5
  <2> QED
    BY <2>5, <2>6, <2>7 DEF CodeInv
<1>17. EnvInv'
  <2>1. \A m \in Assignments(line) \cap (1 .. i - 1) : m < r.at
    BY <1>3, <1>6, <1>7
  <2>2. ran \in Seq(Ran) /\ r \in Ran /\ ran' = Append(ran, r)
        /\ env' = IF r.sets THEN Put(env, Shared, "chunk") ELSE env
    BY <1>7 DEF Inv, TypeInv, Goes
  <2>3. VariablesHold(line, i - 1, env', ran')
    BY <1>3, <1>6, <1>10, <2>1, <2>2, HoldRun
  <2>4. Assignments(line) \cap (1 .. i') = Assignments(line) \cap (1 .. i - 1)
    BY <1>3 DEF Passes
  <2>5. VariablesHold(line, i', env', ran')
    BY <2>3, <2>4, HoldSame
  <2> QED
    BY <1>1, <1>3, <1>9, <2>5 DEF EnvInv
<1>18. EndInv'
  <2>1. loaded' => With(line, {"f"}) # {}
    <3>1. loaded => With(line, {"f"}) # {}
      BY DEF Inv, EndInv
    <3>2. Letter = "f" => i \in With(line, {"f"})
      BY <1>3
    <3> QED
      BY <1>1, <3>1, <3>2
  <2> QED
    BY <1>1, <1>9, <1>10, <2>1 DEF EndInv
<1> QED
  BY <1>11, <1>12, <1>13, <1>14, <1>15, <1>16, <1>17, <1>18 DEF Inv

-----------------------------------------------------------------------------
(***************************************************************************)
(* Steps of pmain between and after the passes.                            *)
(***************************************************************************)
LEMMA ParsedIs ==
    ASSUME Inv, Parsed
    PROVE  line \in Seq(Word) /\ Here = Len(line) /\ Seen(line, i, sw) = AllFlags /\ ~Bad(line)
<1>1. line \in Seq(Word) /\ DOMAIN line = 1 .. Len(line) /\ Here = Len(line)
  BY DEF Inv, TypeInv, Parsed, Here, DoneAt
<1>2. Seen(line, i, sw) = AllFlags
  BY DEF Parsed, Seen, Noted, DoneAt, AllFlags
<1>3. ~Bad(line)
  BY <1>1 DEF Inv, GoodInv, Parsed, Bad
<1> QED
  BY <1>1, <1>2, <1>3

LEMMA EndPass1Safe ==
    ASSUME Inv, EndPass1, UNCHANGED built
    PROVE  Inv'
<1>1. /\ UNCHANGED <<line, makefile, status, flags, slots, env, loaded, quit, ran>>
      /\ Parsed /\ pc = "pass1" /\ pc' = "mkinit"
  BY DEF EndPass1, given, settings
<1>2. Here = Len(line) /\ Seen(line, i, sw) = AllFlags /\ ~Bad(line)
  BY <1>1, ParsedIs
<1>3. TypeInv' /\ PlaceInv' /\ EnvInv'
  BY <1>1 DEF Inv, TypeInv, PlaceInv, EnvInv, Parsing
<1>4. GoodInv'
  BY <1>1, <1>2 DEF GoodInv, Parsing
<1>5. FlagInv'
  BY <1>1, <1>2 DEF Inv, FlagInv, AllFlags
<1>6. JobInv'
  BY <1>1, <1>2 DEF Inv, JobInv, JobsAsked
<1>7. CodeInv'
  <2>1. CodeRun' = CodeRun
    BY <1>1 DEF CodeRun
  <2> QED
    BY <1>1, <2>1 DEF Inv, CodeInv, EndInv
<1>8. EndInv'
  BY <1>1 DEF Inv, EndInv
<1> QED
  BY <1>3, <1>4, <1>5, <1>6, <1>7, <1>8 DEF Inv

\* A chunk that is not of the line keeps flags and jobs, and what ran of it.
LEMMA OtherRun ==
    ASSUME Inv, NEW r, NEW next, Goes(r, next), r.at \notin DOMAIN line,
           next \in {"mksite", "init", "pass2", "build"}, pc \in {"mkinit", "mksite", "init", "makefile"},
           UNCHANGED <<line, makefile, flags, slots, loaded, quit, built>>
    PROVE  /\ TypeInv' /\ FlagInv' /\ ran' # <<>> /\ CodeRun' = CodeRun
           /\ (pc' = next /\ status' = 0) \/ (pc' = "exit" /\ status' = 1)
           /\ ~Bad(line) /\ ~built /\ slots' = JobsAsked /\ ran' = Append(ran, r)
           /\ Len(ran) \in Nat /\ Len(ran') = Len(ran) + 1
           /\ ran'[Len(ran) + 1] = r /\ \A n \in 1 .. Len(ran) : ran'[n] = ran[n]
           /\ SetupRan(ran) => SetupRan(ran')
<1>1. /\ ran' \in Seq(Ran) /\ ran' # <<>> /\ CodeRun' = CodeRun
      /\ Len(ran) \in Nat /\ Len(ran') = Len(ran) + 1
      /\ ran'[Len(ran) + 1] = r /\ \A n \in 1 .. Len(ran) : ran'[n] = ran[n]
      /\ SetupRan(ran) => SetupRan(ran')
  BY RanIs DEF Inv
<1>2. ~built /\ status = 0 /\ ~Bad(line) /\ flags = AllFlags /\ slots = JobsAsked
  BY DEF Inv, TypeInv, GoodInv, FlagInv, JobInv, EndInv
<1>3. (pc' = next /\ status' = 0) \/ (pc' = "exit" /\ status' = 1)
  BY <1>2 DEF Goes
<1>4. TypeInv'
  BY <1>1, <1>3 DEF Inv, TypeInv
<1>5. FlagInv'
  BY <1>2, <1>3 DEF Inv, FlagInv, AllFlags
<1>6. ran' = Append(ran, r)
  BY DEF Goes
<1> QED
  BY <1>1, <1>2, <1>3, <1>4, <1>5, <1>6

LEMMA SetupSafe ==
    ASSUME Inv, Setup, UNCHANGED built
    PROVE  Inv'
<1>1. UNCHANGED <<line, makefile, flags, slots, loaded, quit>>
  BY DEF Setup, given
<1>2. <<"mkinit">> \in Chunk /\ <<"mksite">> \in Chunk /\ 0 \in Nat /\ 0 \notin DOMAIN line
  BY DEF Chunk, Inv, TypeInv
<1>3. CASE pc = "mkinit"
  <2>1. Runs(<<"mkinit">>, 0, "mksite")
    BY <1>3 DEF Setup
  <2>2. PICK r : Goes(r, "mksite") /\ r.chunk = <<"mkinit">> /\ r.at = 0
    BY <1>2, <2>1, RunsIs
  <2>3. /\ TypeInv' /\ FlagInv' /\ ran' # <<>> /\ CodeRun' = CodeRun
        /\ (pc' = "mksite" /\ status' = 0) \/ (pc' = "exit" /\ status' = 1)
        /\ ~Bad(line) /\ ~built /\ slots' = JobsAsked
        /\ Len(ran) \in Nat /\ Len(ran') = Len(ran) + 1
        /\ ran'[Len(ran) + 1] = r
    BY <1>1, <1>2, <1>3, <2>2, OtherRun
  <2>4. ran = <<>> /\ CodeRun = <<>>
    <3>1. ran = <<>>
      BY <1>3 DEF Inv, CodeInv
    <3> QED
      BY <3>1, CodeInNone DEF CodeRun
  <2>5. Len(ran') = 1 /\ ran'[1].chunk = <<"mkinit">>
    BY <2>2, <2>3, <2>4
  <2>6. PlaceInv' /\ GoodInv' /\ EnvInv'
    BY <1>1, <2>3 DEF PlaceInv, GoodInv, EnvInv, Parsing
  <2>7. JobInv'
    BY <1>1, <2>3 DEF JobInv, JobsAsked
  <2>8. CodeInv'
    <3>1. 0 \in 0 .. Len(line) /\ CodeTo(line, 0) = <<>>
      BY CodeSteps DEF Inv, TypeInv
    <3> QED
      BY <1>1, <2>3, <2>4, <2>5, <3>1 DEF CodeInv
  <2>9. EndInv'
    BY <1>1, <2>3 DEF Inv, EndInv
  <2> QED
    BY <2>3, <2>6, <2>7, <2>8, <2>9 DEF Inv
<1>4. CASE pc = "mksite"
  <2>1. Runs(<<"mksite">>, 0, "init")
    BY <1>4 DEF Setup
  <2>2. PICK r : Goes(r, "init") /\ r.chunk = <<"mksite">> /\ r.at = 0
    BY <1>2, <2>1, RunsIs
  <2>3. /\ TypeInv' /\ FlagInv' /\ ran' # <<>> /\ CodeRun' = CodeRun
        /\ (pc' = "init" /\ status' = 0) \/ (pc' = "exit" /\ status' = 1)
        /\ ~Bad(line) /\ ~built /\ slots' = JobsAsked
        /\ Len(ran) \in Nat /\ Len(ran') = Len(ran) + 1
        /\ ran'[Len(ran) + 1] = r
        /\ \A n \in 1 .. Len(ran) : ran'[n] = ran[n]
    BY <1>1, <1>2, <1>4, <2>2, OtherRun
  <2>4. Len(ran) = 1 /\ ran[1].chunk = <<"mkinit">> /\ CodeRun = <<>>
    BY <1>4 DEF Inv, CodeInv
  <2>5. SetupRan(ran')
    BY <2>2, <2>3, <2>4 DEF SetupRan
  <2>6. PlaceInv' /\ GoodInv' /\ EnvInv'
    BY <1>1, <2>3 DEF PlaceInv, GoodInv, EnvInv, Parsing
  <2>7. JobInv'
    BY <1>1, <2>3 DEF JobInv, JobsAsked
  <2>8. CodeInv'
    <3>1. 0 \in 0 .. Len(line) /\ CodeTo(line, 0) = <<>>
      BY CodeSteps DEF Inv, TypeInv
    <3> QED
      BY <1>1, <2>3, <2>4, <2>5, <3>1 DEF CodeInv
  <2>9. EndInv'
    BY <1>1, <2>3 DEF Inv, EndInv
  <2> QED
    BY <2>3, <2>6, <2>7, <2>8, <2>9 DEF Inv
<1> QED
  BY <1>3, <1>4 DEF Setup

LEMMA PrestoInitSafe ==
    ASSUME Inv, PrestoInit, UNCHANGED built
    PROVE  Inv'
<1>1. /\ UNCHANGED <<line, makefile, flags, slots, loaded, quit>> /\ pc = "init"
      /\ i' = 0 /\ sw' = <<>> /\ switches' = TRUE
  BY DEF PrestoInit, given, BeginPass
<1>2. /\ <<"PRESTO_INIT">> \in Chunk /\ 0 \in Nat /\ 0 \notin DOMAIN line
      /\ line \in Seq(Word) /\ Len(line) \in Nat /\ DOMAIN line = 1 .. Len(line)
  BY DEF Chunk, Inv, TypeInv
<1>3. CodeRun = <<>> /\ SetupRan(ran) /\ ~Bad(line) /\ ~built
  BY <1>1 DEF Inv, CodeInv, GoodInv, EndInv
<1>4. /\ TypeInv' /\ FlagInv' /\ CodeRun' = <<>> /\ SetupRan(ran') /\ slots' = JobsAsked
      /\ (pc' = "pass2" /\ status' = 0) \/ (pc' = "exit" /\ status' = 1)
  <2>1. CASE init
    <3>1. Runs(<<"PRESTO_INIT">>, 0, "pass2")
      BY <2>1 DEF PrestoInit
    <3>2. PICK r : Goes(r, "pass2") /\ r.chunk = <<"PRESTO_INIT">> /\ r.at = 0
      BY <1>2, <3>1, RunsIs
    <3> QED
      BY <1>1, <1>2, <1>3, <3>2, OtherRun
  <2>2. CASE ~init
    <3>1. pc' = "pass2" /\ UNCHANGED <<env, status, ran>>
      BY <2>2 DEF PrestoInit
    <3>2. TypeInv'
      BY <1>1, <3>1 DEF Inv, TypeInv
    <3>3. FlagInv'
      BY <1>1, <3>1 DEF Inv, FlagInv, AllFlags
    <3>4. CodeRun' = <<>> /\ SetupRan(ran')
      BY <1>1, <1>3, <3>1 DEF CodeRun
    <3>5. slots' = JobsAsked /\ status' = 0
      BY <1>1, <3>1 DEF Inv, TypeInv, JobInv
    <3> QED
      BY <3>1, <3>2, <3>3, <3>4, <3>5
  <2> QED
    BY <2>1, <2>2
<1>5. Here' = 0 /\ 1 .. 0 = {} /\ 0 \in 0 .. Len(line) /\ CodeTo(line, 0) = <<>>
  BY <1>1, <1>2, CodeSteps DEF Here, DoneAt
<1>6. PlaceInv'
  <2>1. 0 < Len(line) => Roles(line)[0 + 1] = FirstRole(line[0 + 1])
    BY <1>2, RoleSteps
  <2> QED
    BY <1>1, <1>2, <2>1 DEF PlaceInv, PlaceAt, Boundary
<1>7. GoodInv'
  BY <1>1, <1>3, <1>4, <1>5 DEF GoodInv
<1>8. JobInv'
  <2>1. JobsAt(line, 0) = JobsAsked
    BY <1>5 DEF JobsAt, JobsAsked
  <2> QED
    BY <1>1, <1>4, <1>5, <2>1 DEF JobInv
<1>9. CodeInv'
  BY <1>1, <1>3, <1>4, <1>5 DEF CodeInv
<1>10. EnvInv'
  BY <1>1, <1>4, <1>5, HoldNothing DEF EnvInv
<1>11. EndInv'
  BY <1>1, <1>3, <1>4 DEF Inv, EndInv
<1> QED
  BY <1>4, <1>6, <1>7, <1>8, <1>9, <1>10, <1>11 DEF Inv

LEMMA EndPass2Safe ==
    ASSUME Inv, EndPass2, UNCHANGED built
    PROVE  Inv'
<1>1. /\ UNCHANGED <<line, makefile, flags, slots, env, loaded, quit, ran>>
      /\ Parsed /\ pc = "pass2"
      /\ \/ quit /\ pc' = "exit" /\ status' = 0
         \/ ~quit /\ loaded /\ pc' = "build" /\ status' = status
         \/ ~quit /\ ~loaded /\ pc' = "makefile" /\ status' = status
  BY DEF EndPass2, QuitFirst, AfterPass2, Exit, given, settings
<1>2. Here = Len(line) /\ ~Bad(line)
  BY <1>1, ParsedIs
<1>3. status = 0 /\ ~built /\ CodeRun = CodeAsked
  BY <1>1, <1>2 DEF Inv, TypeInv, EndInv, CodeInv, CodeAsked
<1>4. TypeInv'
  BY <1>1, <1>3 DEF Inv, TypeInv
<1>5. PlaceInv' /\ GoodInv'
  BY <1>1, <1>2 DEF PlaceInv, GoodInv, Parsing
<1>6. FlagInv'
  BY <1>1 DEF Inv, FlagInv, AllFlags
<1>7. JobInv'
  <2>1. JobsAt(line, Len(line)) = JobsAsked
    BY DEF JobsAt, JobsAsked
  <2> QED
    BY <1>1, <1>2, <2>1 DEF Inv, JobInv, JobsAsked
<1>8. CodeInv'
  <2>1. CodeRun' = CodeRun /\ CodeAsked' = CodeAsked
    BY <1>1 DEF CodeRun, CodeAsked
  <2> QED
    BY <1>1, <1>3, <2>1 DEF Inv, CodeInv
<1>9. EnvInv'
  BY <1>1, <1>2 DEF Inv, EnvInv
<1>10. EndInv'
  BY <1>1, <1>3 DEF Inv, EndInv
<1> QED
  BY <1>4, <1>5, <1>6, <1>7, <1>8, <1>9, <1>10 DEF Inv

LEMMA DefaultMakefileSafe ==
    ASSUME Inv, DefaultMakefile, UNCHANGED built
    PROVE  Inv'
<1>1. /\ UNCHANGED <<line, makefile, flags, slots, loaded, quit>> /\ pc = "makefile" /\ makefile
      /\ Runs(<<"makefile">>, Len(line) + 1, "build")
  BY DEF DefaultMakefile, given
<1>2. /\ line \in Seq(Word) /\ Len(line) \in Nat /\ DOMAIN line = 1 .. Len(line)
      /\ Len(line) + 1 \in Nat /\ Len(line) + 1 \notin DOMAIN line /\ <<"makefile">> \in Chunk
  BY DEF Chunk, Inv, TypeInv
<1>3. PICK r : Goes(r, "build") /\ r.chunk = <<"makefile">> /\ r.at = Len(line) + 1
  BY <1>1, <1>2, RunsIs
<1>4. /\ TypeInv' /\ FlagInv' /\ ran' # <<>> /\ CodeRun' = CodeRun
      /\ (pc' = "build" /\ status' = 0) \/ (pc' = "exit" /\ status' = 1)
      /\ ~Bad(line) /\ ~built /\ slots' = JobsAsked /\ ran' = Append(ran, r)
      /\ SetupRan(ran) => SetupRan(ran')
  BY <1>1, <1>2, <1>3, OtherRun
<1>5. PlaceInv' /\ GoodInv'
  BY <1>1, <1>4 DEF PlaceInv, GoodInv, Parsing
<1>6. JobInv'
  BY <1>1, <1>4 DEF JobInv, JobsAsked
<1>7. CodeInv'
  <2>1. SetupRan(ran') /\ CodeRun' = CodeAsked' /\ Len(line) \in 0 .. Len(line)
    BY <1>1, <1>2, <1>4 DEF Inv, CodeInv, CodeAsked
  <2> QED
    BY <1>1, <1>4, <2>1 DEF CodeInv, CodeAsked
<1>8. EnvInv'
  <2>1. VariablesHold(line, Len(line), env, ran)
    BY <1>1 DEF Inv, EnvInv
  <2>2. \A m \in Assignments(line) \cap (1 .. Len(line)) : m < r.at
    BY <1>2, <1>3
  <2>3. ran \in Seq(Ran) /\ r \in Ran /\ Len(line) \in 0 .. Len(line)
        /\ env' = IF r.sets THEN Put(env, Shared, "chunk") ELSE env
    BY <1>2, <1>3 DEF Inv, TypeInv, Goes
  <2>4. VariablesHold(line, Len(line), env', ran')
    BY <1>2, <1>4, <2>1, <2>2, <2>3, HoldRun
  <2> QED
    BY <1>1, <1>4, <2>4 DEF EnvInv
<1>9. EndInv'
  BY <1>1, <1>4 DEF Inv, EndInv
<1> QED
  BY <1>4, <1>5, <1>6, <1>7, <1>8, <1>9 DEF Inv

LEMMA UpdateGoalsSafe ==
    ASSUME Inv, UpdateGoals
    PROVE  Inv'
<1>1. /\ UNCHANGED <<line, makefile, flags, slots, env, loaded, quit, ran>> /\ pc = "build"
      /\ built' = TRUE /\ pc' = "exit" /\ status' \in {0, 1}
  BY DEF UpdateGoals, Raises, Exit, given, settings
<1>2. TypeInv' /\ PlaceInv' /\ JobInv' /\ EnvInv'
  BY <1>1 DEF Inv, TypeInv, PlaceInv, JobInv, EnvInv, Parsing
<1>3. GoodInv'
  BY <1>1 DEF Inv, GoodInv, Parsing
<1>4. FlagInv'
  BY <1>1 DEF Inv, FlagInv, AllFlags
<1>5. CodeInv'
  <2>1. CodeRun' = CodeRun /\ CodeAsked' = CodeAsked
    BY <1>1 DEF CodeRun, CodeAsked
  <2> QED
    BY <1>1, <2>1 DEF Inv, CodeInv
<1>6. EndInv'
  BY <1>1 DEF Inv, EndInv
<1> QED
  BY <1>2, <1>3, <1>4, <1>5, <1>6 DEF Inv

\* The steps that end the program with a message.
LEMMA MistakesSafe ==
    ASSUME Inv, LongSwitch \/ Goal \/ VersionOrUsage \/ ChangeDir \/ NoMakefile, UNCHANGED built
    PROVE  Inv'
<1>1. pc' = "exit" /\ status' = 1
  BY DEF LongSwitch, Goal, VersionOrUsage, ChangeDir, NoMakefile, BadUsage, Raises, Exit
<1>2. UNCHANGED <<line, makefile, flags, loaded, quit, ran, built>>
  BY DEF LongSwitch, Goal, VersionOrUsage, ChangeDir, NoMakefile, BadUsage, given, settings
<1> QED
  BY <1>1, <1>2, Fails

LEMMA Stutters ==
    ASSUME Inv, UNCHANGED vars
    PROVE  Inv'
BY DEF vars, given, place, settings, Inv, TypeInv, PlaceInv, GoodInv, FlagInv, JobInv, CodeInv,
       EnvInv, EndInv, Here, Parsing, AllFlags, JobsAsked, CodeRun, CodeAsked

(***************************************************************************)
(* No step of parse_commandline or pmain breaks the invariant.             *)
(***************************************************************************)
THEOREM Invariance == Spec => []Inv
<1>1. ASSUME Inv, [Next]_vars PROVE Inv'
  <2>1. CASE ParseStep /\ UNCHANGED built
    BY <1>1, <2>1, EndOfSwitchesSafe, SwitchWordSafe, AssignmentSafe, FlagSafe, MaxJobsSafe,
       SkipCodeSafe, RunCodeSafe, MistakesSafe DEF ParseStep
  <2>2. CASE MainStep /\ UNCHANGED built
    BY <1>1, <2>2, EndPass1Safe, SetupSafe, PrestoInitSafe, EndPass2Safe, DefaultMakefileSafe,
       MistakesSafe DEF MainStep
  <2>3. CASE UpdateGoals
    BY <1>1, <2>3, UpdateGoalsSafe
  <2>4. CASE UNCHANGED vars
    BY <1>1, <2>4, Stutters
  <2> QED
    BY <1>1, <2>1, <2>2, <2>3, <2>4 DEF Next, Terminated
<1> QED
  BY Starts, <1>1, PTL DEF Spec

-----------------------------------------------------------------------------
(***************************************************************************)
(* A command line with a mistake anywhere runs no code, not even that of   *)
(* the switches before the mistake, and fails (make.cpp: the first pass    *)
(* reads every switch before any Lua state is set up).                     *)
(***************************************************************************)
THEOREM MistakesRunNothing == Spec => []NothingRunsOnBadLine
<1>0. Mistaken(line) => Bad(line)
  BY DEF Mistaken, Bad, BadWord
<1>1. Inv => NothingRunsOnBadLine
  BY <1>0 DEF Inv, TypeInv, GoodInv, NothingRunsOnBadLine
<1> QED
  BY Invariance, <1>1, PTL

(***************************************************************************)
(* The code sees the flags and the -j of the whole line (make.cpp: both    *)
(* passes parse them, the first before the code).                          *)
(***************************************************************************)
THEOREM SwitchesComeFirst == Spec => []SwitchesBeforeCode
<1>1. Inv => SwitchesBeforeCode
  <2> SUFFICES ASSUME Inv PROVE SwitchesBeforeCode
    OBVIOUS
  <2>1. ran # <<>> => flags = AllFlags /\ quit = ("Q" \in AllFlags)
    BY DEF Inv, FlagInv
  <2>2. pc \in {"mkinit", "mksite", "init", "makefile", "build"} => slots = JobsAsked
    BY DEF Inv, JobInv
  <2> QED
    BY <2>1, <2>2 DEF SwitchesBeforeCode
<1> QED
  BY Invariance, <1>1, PTL

(***************************************************************************)
(* The code of the line runs once and in order, after the setup code, and  *)
(* all of it before the build (make.cpp: the second pass, then pmain).     *)
(***************************************************************************)
THEOREM CodeRunsInOrder == Spec => []CodeInOrder
<1>1. Inv => CodeInOrder
  <2> SUFFICES ASSUME Inv PROVE CodeInOrder
    OBVIOUS
  <2>1. IsPrefix(CodeRun, CodeAsked)
    <3>1. PICK d \in 0 .. Len(line) : CodeRun = CodeTo(line, d)
      BY DEF Inv, CodeInv
    <3> QED
      BY <3>1, CodePrefix DEF Inv, TypeInv, CodeAsked
  <2>2. CodeRun # <<>> => SetupRan(ran)
    BY DEF Inv, CodeInv
  <2>3. built => CodeRun = CodeAsked
    BY DEF Inv, CodeInv
  <2> QED
    BY <2>1, <2>2, <2>3 DEF CodeInOrder, SetupRan
<1> QED
  BY Invariance, <1>1, PTL

(***************************************************************************)
(* NAME=VALUE holds at the build, the last of a name counting, except that *)
(* code behind it may set the variable (make.cpp: parse_commandline sets   *)
(* it in both passes).                                                     *)
(***************************************************************************)
THEOREM AssignmentsWin == Spec => []VariablesWin
<1>1. Inv => VariablesWin
  BY DEF Inv, EnvInv, VariablesWin
<1> QED
  BY Invariance, <1>1, PTL

(***************************************************************************)
(* Exit code 0 means that all the code of the line has run and, without    *)
(* -Q, that a makefile was read and the goals were built.                  *)
(***************************************************************************)
THEOREM SuccessIsHonest == Spec => []SuccessMeansBuilt
<1>1. Inv => SuccessMeansBuilt
  <2> SUFFICES ASSUME Inv, pc = "exit" /\ status = 0
               PROVE  /\ CodeRun = CodeAsked
                      /\ built = ("Q" \notin AllFlags)
                      /\ built => With(line, {"f"}) # {} \/ makefile
    BY DEF SuccessMeansBuilt
  <2>1. CodeRun = CodeAsked
    BY DEF Inv, CodeInv
  <2>2. built = ("Q" \notin AllFlags)
    <3>1. quit = ("Q" \in AllFlags)
      BY DEF Inv, FlagInv
    <3>2. (built => ~quit) /\ (built \/ quit) /\ built \in BOOLEAN
      BY DEF Inv, EndInv, TypeInv
    <3>3. built <=> "Q" \notin AllFlags
      BY <3>1, <3>2
    <3> QED
      BY <3>2, <3>3
  <2>3. built => With(line, {"f"}) # {} \/ makefile
    BY DEF Inv, EndInv
  <2> QED
    BY <2>1, <2>2, <2>3
<1> QED
  BY Invariance, <1>1, PTL
=============================================================================
