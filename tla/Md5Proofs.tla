----------------------------- MODULE Md5Proofs -----------------------------
(***************************************************************************)
(* The blocks of a digest, for messages, blocks, bytes and words of any    *)
(* size.                                                                   *)
(***************************************************************************)
EXTENDS Md5Properties, Recursion

-----------------------------------------------------------------------------
(***************************************************************************)
(* Division: what it gives, and that nothing else is it.                   *)
(***************************************************************************)
LEMMA Dividing ==
    ASSUME NEW a \in Nat, NEW b \in Nat \ {0}
    PROVE  a = b * (a \div b) + (a % b) /\ a % b \in 0 .. b - 1 /\ a \div b \in Nat
OBVIOUS

LEMMA DividedBy ==
    ASSUME NEW a \in Int, NEW b \in Nat \ {0}, NEW q \in Int, NEW r \in 0 .. b - 1,
           a = b * q + r
    PROVE  a \div b = q /\ a % b = r
OBVIOUS

LEMMA Times ==
    ASSUME NEW a \in Int, NEW b \in Int, NEW c \in Int
    PROVE  /\ a * b \in Int /\ a * b = b * a /\ a * (b * c) = (a * b) * c
           /\ a * (b + c) = a * b + a * c /\ a * (b - c) = a * b - a * c
OBVIOUS

LEMMA TimesNat ==
    ASSUME NEW a \in Nat, NEW b \in Nat
    PROVE  a * b \in Nat /\ (b # 0 => a <= a * b)
OBVIOUS

LEMMA Small ==
    ASSUME NEW b \in Nat \ {0}, NEW a \in 0 .. b - 1
    PROVE  a % b = a
OBVIOUS

\* The remainder of one more.
LEMMA NextRemainder ==
    ASSUME NEW a \in Nat, NEW b \in Nat \ {0}
    PROVE  (a + 1) % b = IF (a % b) + 1 = b THEN 0 ELSE (a % b) + 1
<1> DEFINE q == a \div b
           r == a % b
<1>1. a = b * q + r /\ r \in 0 .. b - 1 /\ q \in Nat
  BY Dividing
<1> HIDE DEF q, r
<1>2. CASE r + 1 = b
  <2>1. a + 1 = b * (q + 1) + 0
    BY <1>1, <1>2, Times
  <2>2. a + 1 \in Int /\ q + 1 \in Int /\ 0 \in 0 .. b - 1
    BY <1>1
  <2> QED
    BY <1>2, <2>1, <2>2, DividedBy DEF r
<1>3. CASE r + 1 # b
  <2>1. a + 1 = b * q + (r + 1) /\ r + 1 \in 0 .. b - 1 /\ a + 1 \in Int /\ q \in Int
    BY <1>1, <1>3
  <2>2. (a + 1) % b = r + 1
    BY <2>1, DividedBy
  <2> QED
    BY <1>3, <2>2 DEF r
<1> QED
  BY <1>2, <1>3

-----------------------------------------------------------------------------
(***************************************************************************)
(* The loop of MD5Update: what a context holds of the message m.           *)
(***************************************************************************)
Content == [1 .. Block -> Byte \cup {Junk}]
State == [mdi : 0 .. Block - 1, in : Content, blocks : Seq(Seq(Byte \cup {Junk}))]
StateOf(c) == [mdi |-> Mdi(c), in |-> c.in, blocks |-> c.blocks]

Holds(s, m) ==
    /\ s \in State /\ s.blocks \in Seq(Seq(Byte))
    /\ \A j \in 1 .. s.mdi : s.in[j] \in Byte
    /\ Len(m) % Block = s.mdi
    /\ FlattenSeq(s.blocks) \o SubSeq(s.in, 1, s.mdi) = m

LEMMA Sizes ==
    /\ Block \in Nat \ {0} /\ PadTo \in 1 .. Block - 1 /\ Bits \in Nat \ {0}
    /\ Word \in Nat \ {0} /\ Word % (Bits * Block) = 0
    /\ 0 \in Byte /\ 128 \in Byte /\ Byte \subseteq Nat /\ Junk \notin Byte
BY Md5Assumption DEF Junk

LEMMA PutTyped ==
    ASSUME NEW s \in State, NEW b \in Byte
    PROVE  /\ PutByte(s, b) \in State
           /\ s.mdi \in 0 .. Block - 1 /\ s.mdi + 1 \in 1 .. Block
           /\ s.in \in Content /\ [s.in EXCEPT ![s.mdi + 1] = b] \in Content
<1> DEFINE in2 == [s.in EXCEPT ![s.mdi + 1] = b]
<1>1. /\ s.mdi \in 0 .. Block - 1 /\ s.in \in Content
      /\ s.blocks \in Seq(Seq(Byte \cup {Junk})) /\ Block \in Nat \ {0}
  BY Sizes DEF State
<1>2. s.mdi + 1 \in 1 .. Block /\ (s.mdi + 1 # Block => s.mdi + 1 \in 0 .. Block - 1)
      /\ 0 \in 0 .. Block - 1
  BY <1>1
<1>3. in2 \in Content /\ in2 \in Seq(Byte \cup {Junk})
  <2>1. in2 \in Content
    BY <1>1 DEF Content
  <2>2. \A f \in [1 .. Block -> Byte \cup {Junk}] : f \in Seq(Byte \cup {Junk})
    BY <1>1
  <2> QED
    BY <2>1, <2>2 DEF Content
<1> HIDE DEF in2
<1>4. Append(s.blocks, in2) \in Seq(Seq(Byte \cup {Junk}))
  BY <1>1, <1>3
<1>5. PutByte(s, b) = IF s.mdi + 1 = Block
                      THEN [mdi |-> 0, in |-> in2, blocks |-> Append(s.blocks, in2)]
                      ELSE [mdi |-> s.mdi + 1, in |-> in2, blocks |-> s.blocks]
  BY DEF PutByte, in2
<1>6. PutByte(s, b) \in State
  BY <1>1, <1>2, <1>3, <1>4, <1>5 DEF State
<1> QED
  BY <1>1, <1>2, <1>3, <1>6 DEF in2

\* One byte more.
LEMMA PutHolds ==
    ASSUME NEW m \in Seq(Byte), NEW s, Holds(s, m), NEW b \in Byte
    PROVE  Holds(PutByte(s, b), Append(m, b))
<1> DEFINE in2 == [s.in EXCEPT ![s.mdi + 1] = b]
           flat == FlattenSeq(s.blocks)
           t == PutByte(s, b)
<1>1. /\ s \in State /\ s.blocks \in Seq(Seq(Byte)) /\ Len(m) % Block = s.mdi
      /\ \A j \in 1 .. s.mdi : s.in[j] \in Byte
      /\ flat \o SubSeq(s.in, 1, s.mdi) = m
  BY DEF Holds
<1>2. /\ t \in State /\ s.mdi \in 0 .. Block - 1 /\ s.mdi + 1 \in 1 .. Block
      /\ s.in \in Content /\ in2 \in Content /\ Block \in Nat \ {0}
  BY <1>1, PutTyped, Sizes
<1>3. in2[s.mdi + 1] = b /\ \A j \in 1 .. Block : j # s.mdi + 1 => in2[j] = s.in[j]
  BY <1>2 DEF Content
<1>4. t = IF s.mdi + 1 = Block
          THEN [mdi |-> 0, in |-> in2, blocks |-> Append(s.blocks, in2)]
          ELSE [mdi |-> s.mdi + 1, in |-> in2, blocks |-> s.blocks]
  BY DEF PutByte
<1> HIDE DEF in2, t
<1>5. \A j \in 1 .. s.mdi + 1 : in2[j] \in Byte
  <2>1. \A j \in 1 .. s.mdi + 1 : j = s.mdi + 1 \/ (j \in 1 .. s.mdi /\ j \in 1 .. Block /\ j # s.mdi + 1)
    BY <1>2
  <2> QED
    BY <1>1, <1>3, <2>1
<1>6. /\ s.in \in Seq(Byte \cup {Junk}) /\ in2 \in Seq(Byte \cup {Junk})
      /\ Len(s.in) = Block /\ Len(in2) = Block
  <2>1. \A f \in [1 .. Block -> Byte \cup {Junk}] :
           f \in Seq(Byte \cup {Junk}) /\ Len(f) = Block
    BY <1>2
  <2> QED
    BY <1>2, <2>1 DEF Content
<1> DEFINE head == SubSeq(s.in, 1, s.mdi)
<1>7. /\ head \in Seq(Byte) /\ Len(head) = s.mdi
      /\ \A j \in 1 .. s.mdi : head[j] = s.in[j]
  <2>1. Len(head) = s.mdi /\ head \in Seq(Byte \cup {Junk}) /\ \A j \in 1 .. s.mdi : head[j] = s.in[j]
    BY <1>2, <1>6
  <2>2. \A j \in 1 .. Len(head) : head[j] \in Byte
    BY <1>1, <2>1
  <2> HIDE DEF head
  <2>3. head \in Seq(Byte)
    BY <2>1, <2>2
  <2> QED
    BY <2>1, <2>3
<1>8. SubSeq(in2, 1, s.mdi + 1) = Append(head, b)
  <2> HIDE DEF head
  <2> DEFINE x == SubSeq(in2, 1, s.mdi + 1)
  <2>1. /\ x \in Seq(Byte \cup {Junk}) /\ Len(x) = s.mdi + 1
        /\ \A j \in 1 .. s.mdi + 1 : x[j] = in2[j]
    BY <1>2, <1>6
  <2>2. /\ Append(head, b) \in Seq(Byte) /\ Len(Append(head, b)) = s.mdi + 1
        /\ Append(head, b)[s.mdi + 1] = b /\ \A j \in 1 .. s.mdi : Append(head, b)[j] = head[j]
    BY <1>7
  <2>3. \A j \in 1 .. s.mdi + 1 : x[j] = Append(head, b)[j]
    <3>1. \A j \in 1 .. s.mdi + 1 :
             j = s.mdi + 1 \/ (j \in 1 .. s.mdi /\ j \in 1 .. Block /\ j # s.mdi + 1)
      BY <1>2
    <3> QED
      BY <1>3, <1>7, <2>1, <2>2, <3>1
  <2> HIDE DEF x
  <2>4. x = Append(head, b)
    BY <2>1, <2>2, <2>3, SeqEqual
  <2> QED
    BY <2>4 DEF x
<1>9. flat \in Seq(Byte)
  <2>1. s.blocks \o s.blocks \in Seq(Seq(Byte))
    BY <1>1
  <2> QED
    BY <1>1, FlattenConcat
<1>10. flat \o Append(head, b) = Append(m, b)
  <2> HIDE DEF flat, head
  <2>1. flat \o head = m
    BY <1>1 DEF head
  <2> QED
    BY <1>7, <1>9, <2>1, ConcatAppend
<1>11. Len(Append(m, b)) % Block = IF s.mdi + 1 = Block THEN 0 ELSE s.mdi + 1
  <2>1. Len(m) \in Nat /\ Len(Append(m, b)) = Len(m) + 1
    OBVIOUS
  <2>2. (Len(m) + 1) % Block =
          IF (Len(m) % Block) + 1 = Block THEN 0 ELSE (Len(m) % Block) + 1
    BY <1>2, <2>1, NextRemainder
  <2> QED
    BY <1>1, <2>1, <2>2
<1>12. CASE s.mdi + 1 = Block
  <2>1. t.mdi = 0 /\ t.in = in2 /\ t.blocks = Append(s.blocks, in2)
    BY <1>4, <1>12
  <2>2. in2 = Append(head, b)
    <3>1. SubSeq(in2, 1, Block) = in2
      BY <1>6
    <3> QED
      BY <1>8, <1>12, <3>1
  <2>3. in2 \in Seq(Byte)
    BY <1>7, <2>2
  <2>4. Append(s.blocks, in2) \in Seq(Seq(Byte))
    BY <1>1, <2>3
  <2>5. FlattenSeq(t.blocks) = Append(m, b)
    <3>1. FlattenSeq(Append(s.blocks, in2)) = FlattenSeq(s.blocks) \o in2
      BY <1>1, <2>3, FlattenSteps
    <3> QED
      BY <1>10, <2>1, <2>2, <3>1
  <2>6. FlattenSeq(t.blocks) \o SubSeq(t.in, 1, t.mdi) = Append(m, b)
    <3>1. SubSeq(t.in, 1, t.mdi) = <<>>
      BY <1>6, <2>1, SubSeqEmpty
    <3>2. Append(m, b) \o <<>> = Append(m, b)
      OBVIOUS
    <3> QED
      BY <2>5, <3>1, <3>2
  <2>7. \A j \in 1 .. t.mdi : t.in[j] \in Byte
    BY <2>1
  <2> QED
    BY <1>2, <1>11, <1>12, <2>1, <2>4, <2>6, <2>7 DEF Holds, t
<1>13. CASE s.mdi + 1 # Block
  <2>1. t.mdi = s.mdi + 1 /\ t.in = in2 /\ t.blocks = s.blocks
    BY <1>4, <1>13
  <2>2. FlattenSeq(t.blocks) \o SubSeq(t.in, 1, t.mdi) = Append(m, b)
    BY <1>8, <1>10, <2>1
  <2> QED
    BY <1>1, <1>2, <1>5, <1>11, <1>13, <2>1, <2>2 DEF Holds, t
<1> QED
  BY <1>12, <1>13

(***************************************************************************)
(* The loop over the bytes.                                                *)
(***************************************************************************)
IsLoop(f, s, bytes) ==
    f = [n \in 0 .. Len(bytes) |-> IF n = 0 THEN s ELSE PutByte(f[n - 1], bytes[n])]
Loop(s, bytes) == CHOOSE f : IsLoop(f, s, bytes)

LEMMA LoopSteps ==
    ASSUME NEW s \in State, NEW bytes \in Seq(Byte)
    PROVE  /\ Loop(s, bytes)[0] = s
           /\ \A n \in 1 .. Len(bytes) :
                 Loop(s, bytes)[n] = PutByte(Loop(s, bytes)[n - 1], bytes[n])
<1> DEFINE F == [n \in 1 .. Len(bytes) |-> [t \in State |-> PutByte(t, bytes[n])]]
<1>1. Len(bytes) \in Nat /\ \A n \in 1 .. Len(bytes) : bytes[n] \in Byte
  OBVIOUS
<1>2. F \in [1 .. Len(bytes) -> [State -> State]]
  BY <1>1, PutTyped
<1>3. PICK f \in [0 .. Len(bytes) -> State] : Iterates(f, Len(bytes), s, F)
  <2> HIDE DEF F
  <2> QED
    BY <1>1, <1>2, IterationExists
<1>4. ASSUME NEW n \in 0 .. Len(bytes)
      PROVE  f[n] = IF n = 0 THEN s ELSE PutByte(f[n - 1], bytes[n])
  <2>1. f[n] = IF n = 0 THEN s ELSE F[n][f[n - 1]]
    <3> HIDE DEF F
    <3> QED
      BY <1>3 DEF Iterates
  <2>2. n # 0 => n \in 1 .. Len(bytes) /\ f[n - 1] \in State
    BY <1>1
  <2> QED
    BY <2>1, <2>2
<1>5. IsLoop(f, s, bytes)
  <2>1. f = [n \in 0 .. Len(bytes) |-> f[n]]
    OBVIOUS
  <2> QED
    BY <1>4, <2>1 DEF IsLoop
<1> DEFINE g == Loop(s, bytes)
<1>6. IsLoop(g, s, bytes)
  BY <1>5 DEF Loop
<1> HIDE DEF g
<1>7. \A n \in 0 .. Len(bytes) : g[n] = IF n = 0 THEN s ELSE PutByte(g[n - 1], bytes[n])
  BY <1>6 DEF IsLoop
<1>8. \A n \in 1 .. Len(bytes) : n \in 0 .. Len(bytes) /\ n # 0
  BY <1>1
<1>9. 0 \in 0 .. Len(bytes)
  BY <1>1
<1> QED
  BY <1>7, <1>8, <1>9 DEF g

LEMMA LoopHolds ==
    ASSUME NEW m \in Seq(Byte), NEW s, Holds(s, m), NEW bytes \in Seq(Byte)
    PROVE  Holds(Loop(s, bytes)[Len(bytes)], m \o bytes)
<1> DEFINE f == Loop(s, bytes)
           T == {n \in Nat : n <= Len(bytes) => Holds(f[n], m \o SubSeq(bytes, 1, n))}
<1>1. f[0] = s /\ \A n \in 1 .. Len(bytes) : f[n] = PutByte(f[n - 1], bytes[n])
  BY LoopSteps DEF Holds
<1>2. Len(bytes) \in Nat /\ \A n \in 1 .. Len(bytes) : bytes[n] \in Byte
  OBVIOUS
<1> HIDE DEF f
<1>3. 0 \in T
  <2>1. SubSeq(bytes, 1, 0) = <<>> /\ m \o <<>> = m
    BY SubSeqEmpty
  <2> QED
    BY <1>1, <2>1
<1>4. ASSUME NEW n \in 0 .. Len(bytes) - 1, n \in T PROVE n + 1 \in T
  <2> DEFINE x == SubSeq(bytes, 1, n)
             b == bytes[n + 1]
  <2>1. /\ n + 1 \in 1 .. Len(bytes) /\ (n + 1) - 1 = n /\ n + 1 \in Nat /\ n <= Len(bytes)
        /\ n \in 0 .. Len(bytes) /\ b \in Byte /\ x \in Seq(Byte)
    BY <1>2
  <2>2. SubSeq(bytes, 1, n + 1) = Append(x, b)
    BY <2>1, SubSeqRecursiveSecond
  <2>3. Holds(f[n], m \o x)
    BY <1>4, <2>1
  <2> HIDE DEF x, b
  <2>4. m \o x \in Seq(Byte) /\ m \o Append(x, b) = Append(m \o x, b)
    BY <2>1, ConcatAppend
  <2>5. Holds(PutByte(f[n], b), Append(m \o x, b))
    BY <2>1, <2>3, <2>4, PutHolds
  <2>6. f[n + 1] = PutByte(f[n], b)
    BY <1>1, <2>1 DEF b
  <2>7. Holds(f[n + 1], m \o SubSeq(bytes, 1, n + 1))
    BY <2>2, <2>4, <2>5, <2>6
  <2> QED
    BY <2>1, <2>7
<1>5. SubSeq(bytes, 1, Len(bytes)) = bytes
  OBVIOUS
<1>6. Len(bytes) \in T
  <2> HIDE DEF T
  <2>1. 0 .. Len(bytes) \subseteq T
    BY <1>2, <1>3, <1>4, Induction
  <2> QED
    BY <1>2, <2>1
<1>7. Holds(f[Len(bytes)], m \o SubSeq(bytes, 1, Len(bytes)))
  BY <1>2, <1>6
<1> HIDE DEF T
<1>8. Holds(f[Len(bytes)], m \o bytes)
  BY <1>5, <1>7
<1> QED
  BY <1>8 DEF f

-----------------------------------------------------------------------------
(***************************************************************************)
(* The two words that count the bits.                                      *)
(***************************************************************************)
Counter == [1 .. 2 -> 0 .. Word - 1]
Counts(n, len) == n \in Counter /\ n[1] + Word * n[2] = len * Bits

\* Some whole number of blocks has as many bits as a word can count.
LEMMA WholeBlocks ==
    \E w \in Nat \ {0} : Word = (Bits * Block) * w /\ Bits <= Word
<1> DEFINE b == Bits * Block
           w == Word \div b
<1>1. b \in Nat \ {0} /\ Word \in Nat \ {0} /\ Word % b = 0 /\ Bits <= b
  BY Sizes, TimesNat
<1> HIDE DEF b
<1>2. Word = b * w /\ w \in Nat
  <2>1. Word = b * w + (Word % b) /\ w \in Nat
    BY <1>1, Dividing
  <2>2. b * w \in Nat
    BY <1>1, <2>1
  <2> HIDE DEF w
  <2> QED
    BY <1>1, <2>1, <2>2
<1> HIDE DEF w
<1>3. w # 0
  BY <1>1, <1>2
<1>4. b <= b * w
  BY <1>1, <1>2, <1>3, TimesNat
<1>5. Bits <= Word
  BY <1>1, <1>2, <1>4, Sizes
<1> QED
  BY <1>2, <1>3, <1>5 DEF b

\* The place in the block, which MD5Update takes from the low word alone.
LEMMA PlaceCounted ==
    ASSUME NEW len \in Nat, NEW n, Counts(n, len)
    PROVE  (n[1] \div Bits) % Block = len % Block
<1>1. PICK w \in Nat \ {0} : Word = (Bits * Block) * w
  BY WholeBlocks
<1> DEFINE h == n[2]
           q == len - Block * (w * h)
           d == len \div Block
           r == len % Block
<1>2. /\ n[1] \in Nat /\ h \in Nat /\ n[1] + Word * h = len * Bits /\ w \in Nat
      /\ Bits \in Nat \ {0} /\ Block \in Nat \ {0} /\ Word \in Nat \ {0}
  <2>1. n[1] \in 0 .. Word - 1 /\ n[2] \in 0 .. Word - 1 /\ n[1] + Word * n[2] = len * Bits
    BY DEF Counts, Counter
  <2> QED
    BY <2>1, Sizes
<1>3. len = Block * d + r /\ r \in 0 .. Block - 1 /\ d \in Nat
  BY <1>2, Dividing
<1> HIDE DEF h, d, r
<1>4. Word * h = Bits * (Block * (w * h)) /\ w * h \in Int /\ Block * (w * h) \in Int
  <2>1. Word * h = ((Bits * Block) * w) * h
    BY <1>1
  <2>2. ((Bits * Block) * w) * h = (Bits * Block) * (w * h)
    BY <1>2
  <2>3. (Bits * Block) * (w * h) = Bits * (Block * (w * h))
    BY <1>2
  <2>4. w * h \in Int /\ Block * (w * h) \in Int
    BY <1>2
  <2> QED
    BY <2>1, <2>2, <2>3, <2>4
<1>5. n[1] = Bits * q + 0 /\ q \in Int
  <2> DEFINE y == Block * (w * h)
  <2>1. y \in Int /\ Word * h = Bits * y /\ q = len - y
    BY <1>4
  <2> HIDE DEF y, q
  <2>2. Bits * (len - y) = Bits * len - Bits * y /\ Bits * len = len * Bits
    BY <1>2, <2>1, Times
  <2> QED
    BY <1>2, <2>1, <2>2
<1>6. q = Block * (d - w * h) + r /\ d - w * h \in Int
  <2> DEFINE z == w * h
  <2>1. z \in Int
    BY <1>4
  <2> HIDE DEF z
  <2>2. Block * (d - z) = Block * d - Block * z
    BY <1>2, <1>3, <2>1, Times
  <2>3. len - Block * z = Block * (d - z) + r /\ d - z \in Int
    BY <1>2, <1>3, <2>1, <2>2
  <2> QED
    BY <2>3 DEF z
<1> HIDE DEF q
<1>7. n[1] \div Bits = q
  <2>1. n[1] \in Int /\ 0 \in 0 .. Bits - 1
    BY <1>2
  <2> QED
    BY <1>2, <1>5, <2>1, DividedBy
<1>8. q % Block = r
  BY <1>2, <1>3, <1>5, <1>6, DividedBy
<1> QED
  BY <1>7, <1>8 DEF r

\* The sum of two words' counts, with the carry.
LEMMA CountAdds ==
    ASSUME NEW len \in Nat, NEW n, Counts(n, len), NEW more \in Nat,
           (len + more) * Bits < Word * Word
    PROVE  Counts(Count(n, more), len + more)
<1> DEFINE x == more * Bits
           xm == x % Word
           xd == x \div Word
           low == (n[1] + xm) % Word
           carry == IF low < n[1] THEN 1 ELSE 0
           high == n[2] + carry + xd
<1>1. /\ n[1] \in 0 .. Word - 1 /\ n[2] \in 0 .. Word - 1 /\ n[1] + Word * n[2] = len * Bits
      /\ Bits \in Nat \ {0} /\ Word \in Nat \ {0}
  BY Sizes DEF Counts, Counter
<1>2. x \in Nat /\ (len + more) * Bits = len * Bits + x /\ len * Bits \in Nat
  BY <1>1
<1>3. Count(n, more) = <<low, high % Word>>
  BY DEF Count
<1> HIDE DEF x
<1>4. x = Word * xd + xm /\ xm \in 0 .. Word - 1 /\ xd \in Nat
  BY <1>1, <1>2, Dividing
<1> HIDE DEF xm, xd
<1>5. /\ low \in 0 .. Word - 1 /\ carry \in {0, 1}
      /\ n[1] + xm = low + Word * carry
  <2>1. CASE n[1] + xm < Word
    <3>1. n[1] + xm = Word * 0 + (n[1] + xm) /\ n[1] + xm \in 0 .. Word - 1 /\ n[1] + xm \in Int
      BY <1>1, <1>4, <2>1
    <3>2. low = n[1] + xm
      BY <1>1, <3>1, DividedBy
    <3> HIDE DEF low
    <3>3. carry = 0
      BY <1>1, <1>4, <3>2
    <3> QED
      BY <1>1, <1>4, <3>1, <3>2, <3>3
  <2>2. CASE ~(n[1] + xm < Word)
    <3> DEFINE y == n[1] + xm - Word
    <3>1. n[1] + xm = Word * 1 + y /\ y \in 0 .. Word - 1 /\ n[1] + xm \in Int /\ y < n[1]
      BY <1>1, <1>4, <2>2
    <3> HIDE DEF y
    <3>2. low = y
      BY <1>1, <3>1, DividedBy
    <3> HIDE DEF low
    <3>3. carry = 1
      BY <1>1, <3>1, <3>2
    <3> QED
      BY <1>1, <3>1, <3>2, <3>3
  <2> QED
    BY <2>1, <2>2
<1> HIDE DEF low, carry
<1>6. low + Word * high = (len + more) * Bits /\ high \in Nat
  <2>1. high \in Nat /\ Word * high = Word * n[2] + Word * carry + Word * xd
    BY <1>1, <1>4, <1>5
  <2>2. /\ Word * n[2] \in Nat /\ Word * carry \in Nat /\ Word * xd \in Nat
    BY <1>1, <1>4, <1>5
  <2> HIDE DEF high
  <2> QED
    BY <1>1, <1>2, <1>4, <1>5, <2>1, <2>2
<1> HIDE DEF high
<1>7. high < Word
  <2> SUFFICES ASSUME high >= Word PROVE FALSE
    BY <1>1, <1>6
  <2>1. Word * high >= Word * Word
    BY <1>1, <1>6
  <2>2. Word * high \in Nat /\ Word * Word \in Nat
    BY <1>1, <1>6
  <2> QED
    BY <1>5, <1>6, <2>1, <2>2
<1>8. high % Word = high
  <2>1. high \in 0 .. Word - 1
    BY <1>1, <1>6, <1>7
  <2> QED
    BY <1>1, <2>1, Small
<1>9. Count(n, more) \in Counter
  <2>1. low \in 0 .. Word - 1 /\ high \in 0 .. Word - 1
    BY <1>1, <1>5, <1>6, <1>7
  <2> QED
    BY <1>3, <1>8, <2>1 DEF Counter
<1> QED
  BY <1>3, <1>6, <1>8, <1>9 DEF Counts

-----------------------------------------------------------------------------
(***************************************************************************)
(* MD5Update and MD5Final.                                                 *)
(***************************************************************************)
HoldsContext(c, m) == Holds(StateOf(c), m) /\ Counts(c.i, Len(m))

LEMMA UpdateIs ==
    ASSUME NEW c, NEW m \in Seq(Byte), Holds(StateOf(c), m), NEW bytes \in Seq(Byte)
    PROVE  \E s : /\ Holds(s, m \o bytes)
                  /\ MD5Update(c, bytes) =
                        [i |-> Count(c.i, Len(bytes)), in |-> s.in, blocks |-> s.blocks]
<1> DEFINE s == Loop(StateOf(c), bytes)[Len(bytes)]
<1>1. Holds(s, m \o bytes)
  BY LoopHolds
<1>2. MD5Update(c, bytes) = [i |-> Count(c.i, Len(bytes)), in |-> s.in, blocks |-> s.blocks]
  BY DEF MD5Update, Loop, IsLoop, StateOf
<1> QED
  BY <1>1, <1>2

\* Where there is room for the count, an update takes its bytes.
LEMMA UpdateHolds ==
    ASSUME NEW c, NEW m \in Seq(Byte), HoldsContext(c, m), NEW bytes \in Seq(Byte),
           Len(m) + Len(bytes) < Word
    PROVE  HoldsContext(MD5Update(c, bytes), m \o bytes)
<1> DEFINE all == m \o bytes
           d == MD5Update(c, bytes)
<1>1. PICK s : /\ Holds(s, all)
               /\ d = [i |-> Count(c.i, Len(bytes)), in |-> s.in, blocks |-> s.blocks]
  BY UpdateIs DEF HoldsContext
<1>2. /\ Len(m) \in Nat /\ Len(bytes) \in Nat /\ Len(all) = Len(m) + Len(bytes)
      /\ all \in Seq(Byte) /\ Len(all) \in Nat
  OBVIOUS
<1> HIDE DEF all, d
<1>3. Counts(d.i, Len(all))
  <2>1. Bits \in Nat \ {0} /\ Word \in Nat \ {0} /\ Bits <= Word
    BY Sizes, WholeBlocks
  <2>2. (Len(m) + Len(bytes)) * Bits < Word * Word
    <3> DEFINE x == Len(m) + Len(bytes)
    <3>1. x \in Nat /\ x < Word
      BY <1>2
    <3> HIDE DEF x
    <3>2. x * Bits <= x * Word
      BY <2>1, <3>1
    <3>3. x * Word < Word * Word
      BY <2>1, <3>1
    <3>4. x * Bits \in Nat /\ x * Word \in Nat /\ Word * Word \in Nat
      BY <2>1, <3>1
    <3> QED
      BY <3>2, <3>3, <3>4 DEF x
  <2>3. Counts(Count(c.i, Len(bytes)), Len(m) + Len(bytes))
    BY <1>2, <2>2, CountAdds DEF HoldsContext
  <2> QED
    BY <1>1, <1>2, <2>3
<1>4. StateOf(d) = s
  <2>1. s \in State /\ Len(all) % Block = s.mdi
    BY <1>1 DEF Holds
  <2>2. Mdi(d) = s.mdi
    BY <1>2, <1>3, <2>1, PlaceCounted DEF Mdi
  <2>3. d.in = s.in /\ d.blocks = s.blocks
    BY <1>1
  <2> QED
    BY <2>1, <2>2, <2>3 DEF StateOf, State
<1> QED
  BY <1>1, <1>3, <1>4 DEF HoldsContext, all, d

LEMMA BytesAreNumbers ==
    ASSUME NEW m \in Seq(Byte)
    PROVE  m \in Seq(Nat) /\ Len(m) \in Nat
<1>1. m \in [1 .. Len(m) -> Byte] /\ Len(m) \in Nat
  OBVIOUS
<1>2. m \in [1 .. Len(m) -> Nat]
  BY <1>1, Sizes
<1> QED
  BY <1>1, <1>2

LEMMA Numbers128 == <<128>> \in Seq(Nat) /\ Len(<<128>>) = 1
OBVIOUS

LEMMA ZerosTyped ==
    ASSUME NEW k \in Nat
    PROVE  Zeros(k) \in Seq(Nat) /\ Len(Zeros(k)) = k /\ \A j \in 1 .. k : Zeros(k)[j] = 0
BY DEF Zeros

LEMMA Joined ==
    ASSUME NEW x \in Seq(Nat), NEW y \in Seq(Nat)
    PROVE  x \o y \in Seq(Nat) /\ Len(x \o y) = Len(x) + Len(y)
OBVIOUS

LEMMA Reassociated ==
    ASSUME NEW x \in Seq(Nat), NEW y \in Seq(Nat), NEW z \in Seq(Nat)
    PROVE  (x \o y) \o z = x \o (y \o z)
<1> DEFINE S == Nat
<1>1. x \in Seq(S) /\ y \in Seq(S) /\ z \in Seq(S)
  OBVIOUS
<1> HIDE DEF S
<1> QED
  BY <1>1, Regroup

LEMMA Beginning ==
    ASSUME NEW S, NEW T, NEW w \in Seq(S), NEW k \in 0 .. Len(w), \A j \in 1 .. k : w[j] \in T
    PROVE  SubSeq(w, 1, k) \in Seq(T)
<1> DEFINE h == SubSeq(w, 1, k)
<1>1. h \in Seq(S) /\ Len(h) = k /\ k \in Nat /\ \A j \in 1 .. k : h[j] = w[j]
  OBVIOUS
<1> HIDE DEF h
<1>2. h \in [1 .. k -> T]
  BY <1>1
<1>3. h \in Seq(T)
  BY <1>1, <1>2
<1> QED
  BY <1>3 DEF h

\* The padding is the only one that fits.
LEMMA PaddingIs ==
    ASSUME NEW m \in Seq(Byte), NEW mdi, mdi = Len(m) % Block
    PROVE  /\ PadLen(mdi) - 1 \in 0 .. Block - 1
           /\ Padding(m) = PadLen(mdi) - 1
           /\ (Len(m) + PadLen(mdi)) % Block = PadTo
           /\ PadLen(mdi) \in Nat \ {0}
<1> DEFINE len == Len(m)
           d == len \div Block
           p == PadLen(mdi)
<1>1. Block \in Nat \ {0} /\ PadTo \in 1 .. Block - 1 /\ len \in Nat
  BY Sizes
<1>2. len = Block * d + mdi /\ mdi \in 0 .. Block - 1 /\ d \in Nat
  BY <1>1, Dividing
<1> HIDE DEF d
<1>3. p - 1 \in 0 .. Block - 1 /\ p \in 1 .. Block
  BY <1>1, <1>2 DEF PadLen
<1>4. PICK e \in {0, 1} : mdi + p = Block * e + PadTo
  <2>1. CASE mdi < PadTo
    <3>1. mdi + p = Block * 0 + PadTo
      BY <1>1, <1>2, <2>1 DEF PadLen
    <3> QED
      BY <3>1
  <2>2. CASE ~(mdi < PadTo)
    <3>1. mdi + p = Block * 1 + PadTo
      BY <1>1, <1>2, <2>2 DEF PadLen
    <3> QED
      BY <3>1
  <2> QED
    BY <2>1, <2>2
<1> HIDE DEF p, len
<1>5. len + p = Block * (d + e) + PadTo /\ d + e \in Nat /\ PadTo \in 0 .. Block - 1
  <2>1. e \in Nat /\ d \in Nat /\ Block \in Nat
    BY <1>1, <1>2
  <2>2. Block * (d + e) = Block * d + Block * e /\ Block * d \in Nat /\ Block * e \in Nat
    BY <2>1
  <2>3. p \in Nat /\ mdi \in Nat
    BY <1>1, <1>2, <1>3
  <2> DEFINE x == Block * d
             y == Block * e
             z == Block * (d + e)
  <2>4. len = x + mdi /\ mdi + p = y + PadTo /\ z = x + y /\ x \in Nat /\ y \in Nat
    BY <1>2, <1>4, <2>2
  <2> HIDE DEF x, y, z
  <2>5. len + p = z + PadTo
    BY <1>1, <2>3, <2>4
  <2>6. PadTo \in 0 .. Block - 1
    BY <1>1
  <2> QED
    BY <2>1, <2>5, <2>6 DEF z
<1>6. (len + p) % Block = PadTo
  <2>1. len + p \in Int /\ d + e \in Int
    BY <1>1, <1>3, <1>5
  <2> QED
    BY <1>1, <1>5, <2>1, DividedBy
<1>7. \A k \in 0 .. Block - 1 : Len(PaddedTo(m, k)) = len + k + 1
  <2> SUFFICES ASSUME NEW k \in 0 .. Block - 1 PROVE Len(PaddedTo(m, k)) = len + k + 1
    OBVIOUS
  <2> DEFINE z == Zeros(k)
             one == <<128>>
  <2>1. k \in Nat
    BY <1>1
  <2>2. z \in Seq(Nat) /\ Len(z) = k
    BY <2>1, ZerosTyped
  <2>3. m \in Seq(Nat) /\ one \in Seq(Nat) /\ Len(one) = 1 /\ Len(m) = len
    BY BytesAreNumbers, Numbers128 DEF len
  <2> HIDE DEF z, one
  <2> DEFINE mo == m \o one
  <2>4. mo \in Seq(Nat) /\ Len(mo) = len + 1
    BY <2>3, Joined
  <2> HIDE DEF mo
  <2>5. Len(mo \o z) = (len + 1) + k
    BY <2>2, <2>4, Joined
  <2> QED
    BY <1>1, <2>1, <2>5 DEF PaddedTo, z, one, mo
<1>8. Fits(m, p - 1)
  <2>1. Len(PaddedTo(m, p - 1)) = len + p
    BY <1>1, <1>3, <1>7
  <2> QED
    BY <1>6, <2>1 DEF Fits
<1>9. ASSUME NEW k \in 0 .. Block - 1, Fits(m, k) PROVE k = p - 1
  <2>1. (len + (k + 1)) % Block = PadTo
    <3>1. Len(PaddedTo(m, k)) = len + (k + 1)
      BY <1>1, <1>7
    <3> QED
      BY <1>9, <3>1 DEF Fits
  <2> DEFINE f == (len + (k + 1)) \div Block
             g == d + e
  <2>2. len + (k + 1) = Block * f + PadTo /\ f \in Nat
    <3>1. len + (k + 1) \in Nat
      BY <1>1
    <3> QED
      BY <1>1, <2>1, <3>1, Dividing
  <2>3. len + p = Block * g + PadTo /\ g \in Nat
    BY <1>5
  <2> HIDE DEF f, g
  <2>4. (k + 1) - p = Block * (f - g) /\ f - g \in Int
    <3>1. Block * (f - g) = Block * f - Block * g /\ Block * f \in Int /\ Block * g \in Int
      BY <1>1, <2>2, <2>3
    <3> QED
      BY <1>1, <1>3, <2>2, <2>3, <3>1
  <2>5. (k + 1) - p < Block /\ -Block < (k + 1) - p
    BY <1>1, <1>3
  <2>6. f - g = 0
    <3> DEFINE x == f - g
    <3>1. x \in Int /\ Block * x < Block /\ -Block < Block * x
      BY <2>4, <2>5
    <3> HIDE DEF x
    <3>2. x = 0
      BY <1>1, <3>1
    <3> QED
      BY <3>2 DEF x
  <2>7. (k + 1) - p = 0
    BY <1>1, <2>4, <2>6
  <2> QED
    BY <1>3, <2>7
<1>10. Padding(m) = p - 1
  BY <1>3, <1>8, <1>9 DEF Padding
<1>11. p \in Nat \ {0}
  BY <1>1, <1>3
<1> QED
  BY <1>3, <1>6, <1>10, <1>11 DEF p, len

\* The saved count is the length field of the message.
LEMMA LengthCounted ==
    ASSUME NEW m \in Seq(Byte), NEW n, Counts(n, Len(m))
    PROVE  n = LengthField(m) /\ n \in Seq(Nat)
<1> DEFINE x == Len(m) * Bits
<1>1. n \in Counter /\ n[1] + Word * n[2] = x /\ Word \in Nat \ {0} /\ x \in Int
  BY Sizes DEF Counts
<1> HIDE DEF x
<1>2. /\ n[1] \in 0 .. Word - 1 /\ n[2] \in 0 .. Word - 1 /\ n[1] \in Int /\ n[2] \in Int
      /\ x = Word * n[2] + n[1]
  <2>1. n[1] \in 0 .. Word - 1 /\ n[2] \in 0 .. Word - 1
    BY <1>1 DEF Counter
  <2>2. Word * n[2] \in Int
    BY <1>1, <2>1
  <2> QED
    BY <1>1, <2>1, <2>2
<1>3. x \div Word = n[2] /\ x % Word = n[1]
  BY <1>1, <1>2, DividedBy
<1>4. n[2] % Word = n[2]
  BY <1>1, <1>2, Small
<1>5. LengthField(m) = <<n[1], n[2]>>
  BY <1>3, <1>4 DEF LengthField, x
<1>6. n \in Seq(Nat) /\ Len(n) = 2
  <2>1. n \in [1 .. 2 -> Nat]
    BY <1>1 DEF Counter
  <2> DEFINE two == 2
  <2>2. two \in Nat /\ n \in [1 .. two -> Nat]
    BY <2>1
  <2> HIDE DEF two
  <2>3. n \in Seq(Nat) /\ Len(n) = two
    BY <2>2
  <2> QED
    BY <2>3 DEF two
<1>7. n = <<n[1], n[2]>>
  BY <1>6
<1> QED
  BY <1>5, <1>6, <1>7

\* What MD5Final makes is the padded message.
LEMMA FinalIs ==
    ASSUME NEW c, NEW m \in Seq(Byte), HoldsContext(c, m)
    PROVE  FlattenSeq(MD5Final(c).blocks) = Padded(m)
<1> DEFINE mdi == Mdi(c)
           n == PadLen(mdi)
           pad == PADDING(n)
           all == m \o pad
<1>1. mdi = Len(m) % Block
  BY DEF HoldsContext, Holds, StateOf
<1> HIDE DEF mdi
<1>2. /\ n - 1 \in 0 .. Block - 1 /\ Padding(m) = n - 1 /\ (Len(m) + n) % Block = PadTo
      /\ Block \in Nat \ {0} /\ n \in Nat \ {0}
  BY <1>1, PaddingIs, Sizes
<1> HIDE DEF n
<1>3. n \in Nat \ {0}
  BY <1>2
<1>4. /\ pad \in Seq(Byte) /\ Len(pad) = n /\ pad = <<128>> \o Zeros(n - 1)
      /\ Zeros(n - 1) \in Seq(Nat)
  <2>1. pad \in Seq(Byte) /\ Len(pad) = n
    BY <1>3, Sizes DEF PADDING
  <2> DEFINE z == Zeros(n - 1)
  <2>2. z \in Seq(Nat) /\ Len(z) = n - 1 /\ \A j \in 1 .. n - 1 : z[j] = 0
    BY <1>3 DEF Zeros
  <2> HIDE DEF z
  <2>3. <<128>> \o z \in Seq(Nat) /\ Len(<<128>> \o z) = n
    BY <1>3, <2>2, Numbers128
  <2>4. \A j \in 1 .. n : (<<128>> \o z)[j] = IF j = 1 THEN 128 ELSE 0
    BY <1>3, <2>2, Numbers128
  <2>5. \A j \in 1 .. n : pad[j] = IF j = 1 THEN 128 ELSE 0
    BY DEF PADDING
  <2>6. pad \in Seq(Nat)
    BY <2>1, BytesAreNumbers
  <2> HIDE DEF pad
  <2>7. pad = <<128>> \o z
    BY <2>1, <2>3, <2>4, <2>5, <2>6, SeqEqual
  <2> QED
    BY <2>1, <2>2, <2>7 DEF z
<1> HIDE DEF pad
<1>5. PICK s : /\ Holds(s, all)
               /\ MD5Update(c, pad) = [i |-> Count(c.i, Len(pad)), in |-> s.in, blocks |-> s.blocks]
  BY <1>4, UpdateIs DEF HoldsContext
<1>6. Len(all) % Block = PadTo /\ all \in Seq(Byte)
  <2>1. Len(all) = Len(m) + n /\ all \in Seq(Byte)
    BY <1>4
  <2> HIDE DEF all
  <2> QED
    BY <1>2, <2>1
<1>7. s.mdi = PadTo /\ s.in \in Content /\ s.blocks \in Seq(Seq(Byte))
      /\ FlattenSeq(s.blocks) \o SubSeq(s.in, 1, PadTo) = all
      /\ \A j \in 1 .. PadTo : s.in[j] \in Byte
  BY <1>5, <1>6 DEF Holds, State
<1> DEFINE head == SubSeq(s.in, 1, PadTo)
           last == head \o c.i
<1>8. c.i = LengthField(m) /\ c.i \in Seq(Nat)
  BY LengthCounted DEF HoldsContext
<1>9. head \in Seq(Nat)
  <2>1. s.in \in Seq(Byte \cup {Junk}) /\ Len(s.in) = Block
    <3>1. \A f \in [1 .. Block -> Byte \cup {Junk}] :
             f \in Seq(Byte \cup {Junk}) /\ Len(f) = Block
      BY <1>2
    <3> QED
      BY <1>7, <3>1 DEF Content
  <2> DEFINE w == s.in
  <2>2. w \in Seq(Byte \cup {Junk}) /\ Len(w) = Block /\ \A j \in 1 .. PadTo : w[j] \in Byte
    BY <1>7, <2>1
  <2> HIDE DEF w
  <2>3. PadTo \in 0 .. Len(w)
    BY <2>2, Sizes
  <2>4. SubSeq(w, 1, PadTo) \in Seq(Byte)
    BY <2>2, <2>3, Beginning
  <2>5. head \in Seq(Byte)
    BY <2>4 DEF w
  <2> HIDE DEF head
  <2> QED
    BY <2>5, BytesAreNumbers
<1> HIDE DEF head
<1>10. MD5Final(c).blocks = Append(s.blocks, last)
  <2> DEFINE u == MD5Update(c, pad)
  <2>1. u.blocks = s.blocks /\ u.in = s.in /\ DOMAIN u = {"i", "in", "blocks"}
    BY <1>5
  <2>2. MD5Final(c) = [u EXCEPT !.blocks = Append(u.blocks, SubSeq(u.in, 1, PadTo) \o c.i)]
    BY DEF MD5Final, mdi, n, pad
  <2> HIDE DEF u
  <2>3. MD5Final(c).blocks = Append(u.blocks, SubSeq(u.in, 1, PadTo) \o c.i)
    BY <2>1, <2>2
  <2> QED
    BY <2>1, <2>3 DEF last, head
<1>11. s.blocks \in Seq(Seq(Nat)) /\ last \in Seq(Nat) /\ FlattenSeq(s.blocks) \in Seq(Nat)
  <2>1. s.blocks \in Seq(Seq(Nat))
    <3>1. Seq(Byte) \subseteq Seq(Nat)
      BY BytesAreNumbers
    <3>2. Seq(Seq(Byte)) \subseteq Seq(Seq(Nat))
      BY <3>1, SeqMonotonic
    <3> QED
      BY <1>7, <3>2
  <2>2. last \in Seq(Nat)
    BY <1>8, <1>9
  <2> HIDE DEF last
  <2> QED
    BY <2>1, <2>2, FlattenConcat
<1>12. FlattenSeq(MD5Final(c).blocks) = FlattenSeq(s.blocks) \o last
  <2> HIDE DEF last
  <2> QED
    BY <1>10, <1>11, FlattenSteps
<1>13. FlattenSeq(s.blocks) \o last = all \o c.i
  <2> DEFINE flat == FlattenSeq(s.blocks)
  <2>1. flat \o head = all /\ flat \in Seq(Nat)
    BY <1>7, <1>11 DEF head
  <2> DEFINE z == c.i
  <2>2. z \in Seq(Nat)
    BY <1>8
  <2> HIDE DEF flat, all, z
  <2>3. flat \in Seq(Nat) /\ head \in Seq(Nat) /\ z \in Seq(Nat)
    BY <1>9, <2>1, <2>2
  <2>4. (flat \o head) \o z = flat \o (head \o z)
    BY <2>3, Reassociated
  <2> QED
    BY <2>1, <2>4 DEF flat, z
<1>14. all = PaddedTo(m, Padding(m))
  <2>1. m \in Seq(Nat) /\ <<128>> \in Seq(Nat)
    BY BytesAreNumbers, Numbers128
  <2>2. (m \o <<128>>) \o Zeros(n - 1) = m \o (<<128>> \o Zeros(n - 1))
    BY <1>4, <2>1, Regroup
  <2> QED
    BY <1>2, <1>4, <2>2 DEF PaddedTo
<1> QED
  BY <1>8, <1>12, <1>13, <1>14 DEF Padded

-----------------------------------------------------------------------------
(***************************************************************************)
(* The inductive invariant: until the digest is made, the context holds    *)
(* what was read, and its last update was not given more than there was.   *)
(***************************************************************************)
Typed ==
    /\ data \in Data
    /\ isFile \in BOOLEAN /\ readFailed \in BOOLEAN
    /\ pos \in 0 .. Len(data)
    /\ pc \in {"update", "final", "done"}

MdInv ==
    /\ Typed
    /\ pc = "update" /\ ~isFile => pos = 0
    /\ pc # "done" => HoldsContext(ctx, Consumed)
    /\ pc # "update" => Consumed = data \/ readFailed
    /\ pc = "done" => FlattenSeq(blocks) = Padded(Consumed)

LEMMA DataTyped ==
    ASSUME Typed
    PROVE  /\ data \in Seq(Byte) /\ Len(data) \in Nat /\ Len(data) < Word
           /\ pos \in Nat /\ pos <= Len(data)
           /\ Consumed \in Seq(Byte) /\ Len(Consumed) = pos
<1>1. data \in Seq(Byte) /\ Len(data) \in Nat /\ Len(data) < Word
  BY Md5Assumption DEF Typed
<1>2. pos \in 0 .. Len(data) /\ pos \in Nat /\ pos <= Len(data)
  BY <1>1 DEF Typed
<1> QED
  BY <1>1, <1>2, SplitAt DEF Consumed

\* The empty context holds the empty message.
LEMMA EmptyHolds == HoldsContext(MD5Init, <<>>)
<1> DEFINE e == <<>>
           c == MD5Init
<1>1. /\ e \in Seq(Byte) /\ e \in Seq(Seq(Byte)) /\ e \in Seq(Seq(Byte \cup {Junk}))
      /\ Len(e) = 0 /\ FlattenSeq(e) = e /\ \A f : SubSeq(f, 1, 0) = e
  BY FlattenEmpty
<1>2. c.i = <<0, 0>> /\ c.in \in Content /\ c.blocks = e
  BY DEF MD5Init, Content
<1>3. /\ Block \in Nat \ {0} /\ Bits \in Nat \ {0} /\ Word \in Nat \ {0}
      /\ 0 % Block = 0 /\ 0 \div Bits = 0 /\ 0 * Bits = 0 /\ Word * 0 = 0
  <2>1. Block \in Nat \ {0} /\ Bits \in Nat \ {0} /\ Word \in Nat \ {0}
    BY Sizes
  <2>2. 0 = Block * 0 + 0 /\ 0 \in 0 .. Block - 1 /\ 0 = Bits * 0 + 0 /\ 0 \in 0 .. Bits - 1
    BY <2>1
  <2> QED
    BY <2>1, <2>2, DividedBy
<1>4. Counts(c.i, 0)
  <2>1. <<0, 0>> \in Counter
    BY <1>3 DEF Counter
  <2> QED
    BY <1>2, <1>3, <2>1 DEF Counts
<1>5. Mdi(c) = 0
  BY <1>2, <1>3 DEF Mdi
<1> HIDE DEF e, c
<1>6. e \o e = e
  BY DEF e
<1>7. Holds(StateOf(c), e)
  <2>1. StateOf(c) = [mdi |-> 0, in |-> c.in, blocks |-> e]
    BY <1>2, <1>5 DEF StateOf
  <2>2. StateOf(c) \in State
    BY <1>1, <1>2, <1>3, <2>1 DEF State
  <2>3. FlattenSeq(e) \o SubSeq(c.in, 1, 0) = e
    BY <1>1, <1>6
  <2> QED
    BY <1>1, <1>3, <2>1, <2>2, <2>3 DEF Holds
<1> QED
  BY <1>1, <1>4, <1>7 DEF HoldsContext, e, c

\* An action that updates the context with what follows in the data.
LEMMA UpdateKeeps ==
    ASSUME MdInv, pc = "update", NEW n \in Nat, pos + n <= Len(data),
           NEW bytes, bytes = SubSeq(data, pos + 1, pos + n),
           ApplyContext(MD5Update(ctx, bytes)), data' = data, pos' = pos + n
    PROVE  /\ pos' \in 0 .. Len(data) /\ HoldsContext(ctx', Consumed')
           /\ pos' = Len(data) => Consumed' = data
<1>1. /\ data \in Seq(Byte) /\ Len(data) \in Nat /\ Len(data) < Word /\ pos \in Nat
      /\ Consumed \in Seq(Byte) /\ Len(Consumed) = pos
  BY DataTyped DEF MdInv
<1>2. /\ bytes \in Seq(Byte) /\ Len(bytes) = n
      /\ Consumed \o bytes = SubSeq(data, 1, pos + n)
  BY <1>1, Following DEF Consumed
<1>3. Consumed' = SubSeq(data, 1, pos + n)
  BY DEF Consumed
<1>4. HoldsContext(ctx, Consumed)
  BY DEF MdInv
<1>5. HoldsContext(MD5Update(ctx, bytes), Consumed \o bytes)
  <2>1. Len(Consumed) + Len(bytes) < Word
    BY <1>1, <1>2, Sizes
  <2> QED
    BY <1>1, <1>2, <1>4, <2>1, UpdateHolds
<1>6. ctx' = MD5Update(ctx, bytes)
  <2>1. \E s : MD5Update(ctx, bytes) =
                  [i |-> Count(ctx.i, Len(bytes)), in |-> s.in, blocks |-> s.blocks]
    BY DEF MD5Update
  <2> QED
    BY <2>1 DEF ApplyContext, ctx
<1>7. pos + n = Len(data) => SubSeq(data, 1, pos + n) = data
  BY <1>1
<1>8. HoldsContext(ctx', Consumed')
  <2>1. Consumed' = Consumed \o bytes
    BY <1>2, <1>3
  <2> QED
    BY <1>5, <1>6, <2>1
<1>9. pos' \in 0 .. Len(data)
  BY <1>1
<1> QED
  BY <1>3, <1>7, <1>8, <1>9

LEMMA MdInit == Init => MdInv
<1> SUFFICES ASSUME Init PROVE MdInv
  OBVIOUS
<1>1. Typed /\ pos = 0 /\ pc = "update"
  <2>1. data \in Seq(Byte)
    BY Md5Assumption DEF Init
  <2>2. 0 \in 0 .. Len(data)
    BY <2>1
  <2> QED
    BY <2>2 DEF Init, Typed
<1>2. ctx = MD5Init
  BY DEF Init, ctx, MD5Init
<1>3. Consumed = <<>>
  BY <1>1, DataTyped DEF Consumed
<1> QED
  BY <1>1, <1>2, <1>3, EmptyHolds DEF MdInv

LEMMA MdStep == MdInv /\ [Next]_vars => MdInv'
<1> SUFFICES ASSUME MdInv, [Next]_vars PROVE MdInv'
  OBVIOUS
<1>1. /\ data \in Seq(Byte) /\ Len(data) \in Nat /\ Len(data) < Word
      /\ pos \in Nat /\ pos <= Len(data)
      /\ Consumed \in Seq(Byte) /\ Len(Consumed) = pos /\ Typed
  BY DataTyped DEF MdInv
<1>2. CASE DigestString
  <2>1. pos = 0 /\ pc = "update" /\ data' = data /\ isFile' = isFile /\ readFailed' = readFailed
    BY <1>2 DEF DigestString, MdInv
  <2>2. data = SubSeq(data, pos + 1, pos + Len(data))
    BY <1>1, <2>1
  <2>3. /\ ApplyContext(MD5Update(ctx, data)) /\ pos' = pos + Len(data)
        /\ pos + Len(data) <= Len(data) /\ pos' = Len(data) /\ pc' = "final"
    BY <1>1, <1>2, <2>1 DEF DigestString
  <2>4. /\ pos' \in 0 .. Len(data) /\ HoldsContext(ctx', Consumed')
        /\ pos' = Len(data) => Consumed' = data
    BY <1>1, <2>1, <2>2, <2>3, UpdateKeeps
  <2> QED
    BY <1>1, <2>1, <2>3, <2>4 DEF MdInv, Typed
<1>3. CASE ReadChunk
  <2> DEFINE n == Shorter(ReadSize, Len(data) - pos)
             bytes == SubSeq(data, pos + 1, pos + n)
  <2>1. /\ pc = "update" /\ isFile
        /\ data' = data /\ isFile' = isFile /\ readFailed' = readFailed
        /\ ApplyContext(MD5Update(ctx, bytes)) /\ pos' = pos + n
        /\ pc' = LoopEnd(n)
    BY <1>3 DEF ReadChunk
  <2>2. n \in Nat /\ pos + n <= Len(data) /\ (n # ReadSize => pos + n = Len(data))
    BY <1>1, Md5Assumption DEF Shorter
  <2>3. pc' \in {"update", "final"} /\ (pc' = "final" => n # ReadSize)
    BY <2>1 DEF LoopEnd
  <2> HIDE DEF n
  <2>4. /\ pos' \in 0 .. Len(data) /\ HoldsContext(ctx', Consumed')
        /\ pos' = Len(data) => Consumed' = data
    <3> HIDE DEF bytes
    <3>1. bytes = SubSeq(data, pos + 1, pos + n)
      BY DEF bytes
    <3> QED
      BY <2>1, <2>2, <3>1, UpdateKeeps
  <2> QED
    BY <1>1, <2>1, <2>2, <2>3, <2>4 DEF MdInv, Typed
<1>4. CASE ReadFails
  <2> DEFINE e == <<>>
  <2>1. /\ pc = "update" /\ isFile /\ readFailed' = TRUE
        /\ data' = data /\ isFile' = isFile
        /\ ApplyContext(MD5Update(ctx, e)) /\ pos' = pos
        /\ pc' = LoopEnd(0)
    BY <1>4 DEF ReadFails
  <2>2. pc' \in {"update", "final"}
    BY <2>1 DEF LoopEnd
  <2>3. e = SubSeq(data, pos + 1, pos + 0)
    BY <1>1
  <2> HIDE DEF e
  <2>4. pos' = pos + 0 /\ 0 \in Nat /\ pos + 0 <= Len(data)
    BY <1>1, <2>1
  <2>5. pos' \in 0 .. Len(data) /\ HoldsContext(ctx', Consumed')
    BY <2>1, <2>3, <2>4, UpdateKeeps
  <2> QED
    BY <1>1, <2>1, <2>2, <2>5 DEF MdInv, Typed
<1>5. CASE Finalize
  <2>1. /\ pc = "final" /\ pc' = "done" /\ pos' = pos
        /\ data' = data /\ isFile' = isFile /\ readFailed' = readFailed
        /\ ApplyContext(MD5Final(ctx)) /\ Consumed' = Consumed
    BY <1>5 DEF Finalize, Consumed
  <2>2. HoldsContext(ctx, Consumed)
    BY <2>1 DEF MdInv
  <2>3. FlattenSeq(MD5Final(ctx).blocks) = Padded(Consumed)
    BY <1>1, <2>2, FinalIs
  <2>4. blocks' = MD5Final(ctx).blocks
    BY <2>1 DEF ApplyContext
  <2>5. FlattenSeq(blocks') = Padded(Consumed)
    BY <2>3, <2>4
  <2>6. Consumed = data \/ readFailed
    BY <2>1 DEF MdInv
  <2> QED
    BY <1>1, <2>1, <2>5, <2>6 DEF MdInv, Typed
<1>6. CASE UNCHANGED vars
  BY <1>6 DEF vars, MdInv, Typed, Consumed, ctx
<1>7. Terminated => UNCHANGED vars
  BY DEF Terminated
<1> QED
  BY <1>2, <1>3, <1>4, <1>5, <1>6, <1>7 DEF Next

(***************************************************************************)
(* make_md5, make_file_md5: the invariant holds of every digest.           *)
(***************************************************************************)
THEOREM MdInvariance == Spec => []MdInv
<1> QED
  BY MdInit, MdStep, PTL DEF Spec

-----------------------------------------------------------------------------
(***************************************************************************)
(* MD5Update: whatever pieces the message comes in, its context has every  *)
(* byte so far in its place, counted, and nothing that was never written   *)
(* goes to MD5Transform.                                                   *)
(***************************************************************************)
LEMMA ContextFollows == MdInv => ContextHolds
<1> SUFFICES ASSUME MdInv, pc # "done" PROVE ContextHolds
  BY DEF ContextHolds
<1>1. HoldsContext(ctx, Consumed)
  BY DEF MdInv
<1>2. ctx.i = i /\ ctx.in = in /\ ctx.blocks = blocks
  BY DEF ctx
<1>3. /\ StateOf(ctx) = [mdi |-> Mdi(ctx), in |-> in, blocks |-> blocks]
      /\ Holds(StateOf(ctx), Consumed) /\ Counts(i, Len(Consumed))
  BY <1>1, <1>2 DEF HoldsContext, StateOf
<1>4. /\ in \in Content /\ blocks \in Seq(Seq(Byte))
      /\ FlattenSeq(blocks) \o SubSeq(in, 1, Mdi(ctx)) = Consumed
  BY <1>3 DEF Holds, State
<1>5. i[1] + Word * i[2] = Len(Consumed) * Bits /\ i \in Counter
  BY <1>3 DEF Counts
<1>6. i \in Seq(0 .. Word - 1) /\ Len(i) = 2
  <2> DEFINE two == 2
             W == 0 .. Word - 1
  <2>1. two \in Nat /\ i \in [1 .. two -> W]
    BY <1>5 DEF Counter
  <2> HIDE DEF two, W
  <2>2. i \in Seq(W) /\ Len(i) = two
    BY <2>1
  <2> QED
    BY <2>2 DEF two, W
<1>7. \A b \in Range(blocks) : Junk \notin Range(b)
  <2>1. \A b \in Range(blocks) : b \in Seq(Byte)
    BY <1>4 DEF Range
  <2>2. \A b \in Seq(Byte) : Junk \notin Range(b)
    BY Sizes DEF Range
  <2> QED
    BY <2>1, <2>2
<1>8. TypeOK
  BY <1>4, <1>6, <1>7 DEF TypeOK, MdInv, Typed, Content
<1> QED
  BY <1>4, <1>5, <1>8 DEF ContextHolds

THEOREM NothingLost == Spec => []ContextHolds
<1> QED
  BY MdInvariance, ContextFollows, PTL

(***************************************************************************)
(* MD5Final: the blocks of a digest are the padded message with its length *)
(* behind it, for every message whose length an unsigned int holds, and    *)
(* the message is the whole string or file unless a read failed.           *)
(***************************************************************************)
THEOREM DigestIsRight == Spec => []DigestRight
<1>1. MdInv => DigestRight
  BY DEF MdInv, DigestRight
<1> QED
  BY <1>1, MdInvariance, PTL
=============================================================================
