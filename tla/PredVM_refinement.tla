------------------------- MODULE PredVM_refinement -------------------------
(***************************************************************************)
(* Proof that the bytes of the virtual machine behave as the values and    *)
(* variables of StackMachine, for every program.                           *)
(***************************************************************************)
EXTENDS PredVM_proofs

(***************************************************************************)
(* Decoding, of any memory m.                                              *)
(***************************************************************************)
Memory == [Address -> Byte]

\* What a sequence of bytes is decoded to.
Item(m, a) == <<m[a][1], m[a][2]>>
NoItem == <<"junk", 0>>
Items == {<<b[1], b[2]>> : b \in Byte}

IsWhole(m, a, to) ==
  /\ m[a][1] \in {"int", "float"}
  /\ a + SizeOf(m[a][1]) <= to
  /\ [k \in 1 .. SizeOf(m[a][1]) |-> m[a + k - 1]] = Bytes(<<m[a][1], m[a][2]>>)

\* d[a] decodes what is left from a on.
FromHere(m, to, d, a) ==
  IF a = to THEN <<>>
  ELSE IF IsWhole(m, a, to) THEN << Item(m, a) >> \o d[a + SizeOf(m[a][1])]
  ELSE << NoItem >> \o d[a + 1]

Decodes(d, m, from, to) == d = [a \in from .. to |-> FromHere(m, to, d, a)]

DecodeIn(m, from, to) == (CHOOSE d : Decodes(d, m, from, to))[from]

LEMMA DecodeIsIn ==
  ASSUME NEW from, NEW to
  PROVE  Decode(from, to) = DecodeIn(mem, from, to)
BY Zenon DEF Decode, DecodeIn, Decodes, FromHere, IsWhole, Item, NoItem, ReadBytes

LEMMA ValuesDecoded ==
  /\ Values = DecodeIn(mem, stack_ptr, STACK_SIZE)
  /\ Values' = DecodeIn(mem', stack_ptr', STACK_SIZE)
BY Zenon DEF Values, Decode, DecodeIn, Decodes, FromHere, IsWhole, Item, NoItem, ReadBytes

\* A value is whole if its bytes are in order.
LEMMA WholeBytes ==
  ASSUME NEW m, NEW a \in Nat, NEW to \in Nat
  PROVE  IsWhole(m, a, to) <=>
           /\ m[a][1] \in {"int", "float"}
           /\ a + SizeOf(m[a][1]) <= to
           /\ \A k \in 0 .. SizeOf(m[a][1]) - 1 : m[a + k] = <<m[a][1], m[a][2], k>>
<1> DEFINE n == SizeOf(m[a][1])
<1> DEFINE f == [k \in 1 .. n |-> m[a + k - 1]]
<1>1. n \in Nat
  BY Sizes
<1>2. Bytes(<<m[a][1], m[a][2]>>) = [k \in 1 .. n |-> <<m[a][1], m[a][2], k - 1>>]
  BY DEF Bytes
<1> HIDE DEF n
<1>3. ASSUME f = [k \in 1 .. n |-> <<m[a][1], m[a][2], k - 1>>],
             NEW k \in 0 .. n - 1
      PROVE  m[a + k] = <<m[a][1], m[a][2], k>>
  <2>1. k + 1 \in 1 .. n /\ a + (k + 1) - 1 = a + k /\ (k + 1) - 1 = k
    BY <1>1
  <2>2. f[k + 1] = m[a + (k + 1) - 1]
    BY <2>1
  <2>3. f[k + 1] = <<m[a][1], m[a][2], (k + 1) - 1>>
    BY <1>3, <2>1, Zenon
  <2> QED
    BY <2>1, <2>2, <2>3
<1>4. ASSUME \A k \in 0 .. n - 1 : m[a + k] = <<m[a][1], m[a][2], k>>
      PROVE  f = [k \in 1 .. n |-> <<m[a][1], m[a][2], k - 1>>]
  <2>1. ASSUME NEW k \in 1 .. n
        PROVE  m[a + k - 1] = <<m[a][1], m[a][2], k - 1>>
    <3>1. k - 1 \in 0 .. n - 1 /\ a + (k - 1) = a + k - 1
      BY <1>1
    <3> QED
      BY <1>4, <3>1
  <2> QED
    BY <2>1
<1> QED
  BY <1>2, <1>3, <1>4 DEF IsWhole, n

LEMMA ItemsThere ==
  ASSUME NEW m \in Memory
  PROVE  NoItem \in Items /\ \A a \in Address : Item(m, a) \in Items
<1>1. Junk \in Byte
  BY DEF Byte
<1>2. NoItem = <<Junk[1], Junk[2]>>
  BY DEF NoItem, Junk
<1>3. NoItem \in Items
  BY <1>1, <1>2, Zenon DEF Items
<1>4. ASSUME NEW a \in Address
      PROVE  Item(m, a) \in Items
  <2>1. m[a] \in Byte
    BY DEF Memory
  <2> QED
    BY <2>1, Zenon DEF Items, Item
<1> QED
  BY <1>3, <1>4

Solution(d, m, from, to) ==
  /\ d \in [from .. to -> Seq(Items)]
  /\ \A a \in from .. to : d[a] = FromHere(m, to, d, a)

LEMMA DecodeExists ==
  ASSUME NEW m \in Memory, NEW to \in 0 .. STACK_SIZE, NEW from \in 0 .. to
  PROVE  \E d : Solution(d, m, from, to)
<1> DEFINE T == {k \in 0 .. to - from : \E d : Solution(d, m, to - k, to)}
<1> USE VMAssumption
<1>1. 0 \in T
  <2> DEFINE d == [a \in to .. to |-> <<>>]
  <2>1. d \in [to .. to -> Seq(Items)]
    OBVIOUS
  <2>2. \A a \in to .. to : d[a] = FromHere(m, to, d, a)
    BY DEF FromHere
  <2> HIDE DEF d
  <2>3. Solution(d, m, to - 0, to)
    BY <2>1, <2>2 DEF Solution
  <2> QED
    BY <2>3
<1>2. ASSUME NEW k \in 0 .. (to - from) - 1, k \in T
      PROVE  k + 1 \in T
  <2>1. PICK d : Solution(d, m, to - k, to)
    BY <1>2
  <2> DEFINE q == to - (k + 1)
  <2> DEFINE s == SizeOf(m[q][1])
  <2> DEFINE x == IF IsWhole(m, q, to) THEN << Item(m, q) >> \o d[q + s] ELSE << NoItem >> \o d[q + 1]
  <2> DEFINE e == [a \in q .. to |-> IF a = q THEN x ELSE d[a]]
  <2>2. q \in Address /\ q + 1 \in to - k .. to /\ q # to /\ q + 1 = to - k /\ q \in Nat
    BY DEF Address
  <2>3. s \in {2, 4}
    BY Sizes
  <2>4. IsWhole(m, q, to) => q + s \in to - k .. to
    <3> HIDE DEF q
    <3> QED
      BY <2>2, <2>3 DEF IsWhole
  <2>5. x \in Seq(Items)
    <3>1. << Item(m, q) >> \in Seq(Items) /\ << NoItem >> \in Seq(Items)
      <4> HIDE DEF q
      <4> QED
        BY <2>2, ItemsThere
    <3>2. \A a \in to - k .. to : d[a] \in Seq(Items)
      BY <2>1 DEF Solution
    <3> HIDE DEF q, s
    <3> QED
      BY <2>2, <2>4, <3>1, <3>2, ConcatProperties
  <2>6. e \in [q .. to -> Seq(Items)]
    <3>1. ASSUME NEW a \in q .. to PROVE a = q \/ a \in to - k .. to
      OBVIOUS
    <3> HIDE DEF q, x
    <3> QED
      BY <2>1, <2>5, <3>1 DEF Solution
  <2>7. ASSUME NEW a \in q .. to
        PROVE  e[a] = FromHere(m, to, e, a)
    <3>1. ASSUME NEW p \in to - k .. to
          PROVE  p \in q .. to /\ p # q /\ e[p] = d[p]
      <4>1. p \in q .. to /\ p # q
        OBVIOUS
      <4> HIDE DEF x, q
      <4> QED
        BY <4>1
    <3>2. CASE a = q
      <4>1. e[q] = x
        <5>1. q \in q .. to
          OBVIOUS
        <5> HIDE DEF x, q
        <5> QED
          BY <5>1
      <4>2. IsWhole(m, q, to) => e[q + s] = d[q + s]
        BY <2>4, <3>1
      <4>3. e[q + 1] = d[q + 1]
        BY <2>2, <3>1
      <4> HIDE DEF e, q
      <4> QED
        BY <2>2, <3>2, <4>1, <4>2, <4>3 DEF FromHere
    <3>3. CASE a # q
      <4>1. a \in to - k .. to
        BY <3>3
      <4>2. e[a] = d[a] /\ d[a] = FromHere(m, to, d, a)
        BY <2>1, <3>1, <4>1 DEF Solution
      <4> DEFINE w == SizeOf(m[a][1])
      <4>3. w \in {2, 4}
        BY Sizes
      <4> HIDE DEF w
      <4>4. IsWhole(m, a, to) => a + w \in to - k .. to
        BY <4>1, <4>3 DEF IsWhole, w
      <4>5. a # to => a + 1 \in to - k .. to
        BY <4>1
      <4> HIDE DEF e, q, x
      <4>6. (IsWhole(m, a, to) => e[a + w] = d[a + w]) /\ (a # to => e[a + 1] = d[a + 1])
        BY <3>1, <4>4, <4>5
      <4> QED
        BY <4>2, <4>6 DEF FromHere, w
    <3> QED
      BY <3>2, <3>3
  <2>8. k + 1 \in 0 .. to - from
    OBVIOUS
  <2>9. Solution(e, m, q, to)
    <3> HIDE DEF e, q
    <3> QED
      BY <2>6, <2>7 DEF Solution
  <2> HIDE DEF e
  <2> QED
    BY <2>8, <2>9
<1>3. to - from \in Nat /\ to - from \in 0 .. to - from /\ to - (to - from) = from
  OBVIOUS
<1> HIDE DEF T
<1>4. to - from \in T
  BY <1>1, <1>2, <1>3, UpTo
<1> QED
  BY <1>3, <1>4 DEF T

\* The n bytes before to1 are those before to2.
SameBytes(m1, to1, m2, to2, n) == \A i \in 1 .. n : m1[to1 - i] = m2[to2 - i]

Solved(d, m, from, to) == \A a \in from .. to : d[a] = FromHere(m, to, d, a)

\* The same bytes are decoded alike, wherever they are.
LEMMA SolvedAlike ==
  ASSUME NEW m1, NEW to1 \in Nat, NEW from1 \in 0 .. to1,
         NEW m2, NEW to2 \in Nat, NEW from2 \in 0 .. to2,
         NEW n, n = to1 - from1, n = to2 - from2,
         SameBytes(m1, to1, m2, to2, n),
         NEW d1, Solved(d1, m1, from1, to1),
         NEW d2, Solved(d2, m2, from2, to2)
  PROVE  d1[from1] = d2[from2]
<1>0. /\ n \in Nat /\ n <= to1 /\ n <= to2 /\ to1 - n = from1 /\ to2 - n = from2
      /\ Solved(d1, m1, to1 - n, to1) /\ Solved(d2, m2, to2 - n, to2)
  OBVIOUS
<1> DEFINE T == {k \in 0 .. n : \A j \in 0 .. k : d1[to1 - j] = d2[to2 - j]}
<1>1. 0 \in T
  <2>0. to1 \in to1 - n .. to1 /\ to2 \in to2 - n .. to2 /\ 0 \in 0 .. n
    BY <1>0
  <2>1. d1[to1] = <<>> /\ d2[to2] = <<>>
    BY <1>0, <2>0 DEF Solved, FromHere
  <2>2. to1 - 0 = to1 /\ to2 - 0 = to2
    OBVIOUS
  <2>3. \A j \in 0 .. 0 : d1[to1 - j] = d2[to2 - j]
    BY <2>1, <2>2
  <2> QED
    BY <2>0, <2>3
<1>2. ASSUME NEW k \in 0 .. n - 1, k \in T
      PROVE  k + 1 \in T
  <2> DEFINE a1 == to1 - (k + 1)
  <2> DEFINE a2 == to2 - (k + 1)
  <2> DEFINE w == SizeOf(m1[a1][1])
  <2>1. /\ a1 \in Nat /\ a1 # to1 /\ a1 \in to1 - n .. to1
        /\ a2 \in Nat /\ a2 # to2 /\ a2 \in to2 - n .. to2
        /\ k + 1 \in 1 .. n /\ k \in Nat
    BY <1>0
  <2>2. m1[a1] = m2[a2]
    BY <2>1 DEF SameBytes
  <2>3. w \in {2, 4} /\ w = SizeOf(m2[a2][1])
    BY <2>2, Sizes
  <2>4. IsWhole(m1, a1, to1) <=> IsWhole(m2, a2, to2)
    <3>1. a1 + w <= to1 <=> a2 + w <= to2
      BY <2>3
    <3>2. ASSUME a1 + w <= to1, NEW i \in 0 .. w - 1
          PROVE  m1[a1 + i] = m2[a2 + i]
      <4>1. (k + 1) - i \in 1 .. n /\ a1 + i = to1 - ((k + 1) - i) /\ a2 + i = to2 - ((k + 1) - i)
        BY <1>0, <2>1, <2>3, <3>2
      <4> HIDE DEF w, a1, a2
      <4> QED
        BY <4>1 DEF SameBytes
    <3>3. IsWhole(m1, a1, to1) <=>
            /\ m1[a1][1] \in {"int", "float"} /\ a1 + w <= to1
            /\ \A i \in 0 .. w - 1 : m1[a1 + i] = <<m1[a1][1], m1[a1][2], i>>
      <4> HIDE DEF a1
      <4> QED
        BY <2>1, WholeBytes DEF w
    <3>4. IsWhole(m2, a2, to2) <=>
            /\ m2[a2][1] \in {"int", "float"} /\ a2 + w <= to2
            /\ \A i \in 0 .. w - 1 : m2[a2 + i] = <<m2[a2][1], m2[a2][2], i>>
      <4> HIDE DEF a2
      <4> QED
        BY <2>1, <2>3, WholeBytes
    <3> HIDE DEF a1, a2, w
    <3>5. ASSUME a1 + w <= to1
          PROVE  (\A i \in 0 .. w - 1 : m1[a1 + i] = <<m1[a1][1], m1[a1][2], i>>)
                   <=> (\A i \in 0 .. w - 1 : m2[a2 + i] = <<m2[a2][1], m2[a2][2], i>>)
      BY <2>2, <3>2, <3>5
    <3> QED
      BY <2>2, <3>1, <3>3, <3>4, <3>5
  <2>5. IsWhole(m1, a1, to1) => d1[a1 + w] = d2[a2 + w]
    <3>1. IsWhole(m1, a1, to1) => a1 + w <= to1
      BY DEF IsWhole
    <3>2. ASSUME a1 + w <= to1
          PROVE  (k + 1) - w \in 0 .. k /\ a1 + w = to1 - ((k + 1) - w) /\ a2 + w = to2 - ((k + 1) - w)
      BY <2>1, <2>3, <3>2
    <3> HIDE DEF a1, a2, w
    <3> QED
      BY <1>2, <3>1, <3>2
  <2>6. d1[a1 + 1] = d2[a2 + 1]
    <3>1. k \in 0 .. k /\ a1 + 1 = to1 - k /\ a2 + 1 = to2 - k
      BY <2>1
    <3> HIDE DEF a1, a2, w
    <3> QED
      BY <1>2, <3>1
  <2>7. Item(m1, a1) = Item(m2, a2)
    BY <2>2 DEF Item
  <2>8. d1[a1] = d2[a2]
    <3>1. d1[a1] = FromHere(m1, to1, d1, a1) /\ d2[a2] = FromHere(m2, to2, d2, a2)
      BY <1>0, <2>1 DEF Solved
    <3> HIDE DEF a1, a2
    <3> QED
      BY <2>1, <2>3, <2>4, <2>5, <2>6, <2>7, <3>1 DEF FromHere, w
  <2>9. \A j \in 0 .. k + 1 : j \in 0 .. k \/ j = k + 1
    BY <2>1
  <2>10. k + 1 \in 0 .. n
    BY <2>1
  <2> QED
    BY <1>2, <2>8, <2>9, <2>10
<1>3. n \in 0 .. n
  BY <1>0
<1> HIDE DEF T
<1>4. n \in T
  BY <1>0, <1>1, <1>2, <1>3, UpTo
<1> QED
  BY <1>0, <1>3, <1>4 DEF T

LEMMA DecodeSolved ==
  ASSUME NEW m \in Memory, NEW to \in 0 .. STACK_SIZE, NEW from \in 0 .. to
  PROVE  \E d : Solution(d, m, from, to) /\ DecodeIn(m, from, to) = d[from]
<1> USE VMAssumption
<1>1. PICK d : Solution(d, m, from, to)
  BY DecodeExists
<1>2. Decodes(d, m, from, to)
  BY <1>1 DEF Solution, Decodes
<1> DEFINE c == CHOOSE e : Decodes(e, m, from, to)
<1>3. Decodes(c, m, from, to)
  BY <1>2
<1> HIDE DEF c
<1>4. Solved(c, m, from, to) /\ Solved(d, m, from, to)
  BY <1>1, <1>3, Zenon DEF Decodes, Solved, Solution
<1>5. SameBytes(m, to, m, to, to - from) /\ to \in Nat
  BY DEF SameBytes
<1>6. c[from] = d[from]
  BY <1>4, <1>5, SolvedAlike
<1> QED
  BY <1>1, <1>6 DEF DecodeIn, c

\* Equal bytes, from address from1 of m1 and from address from2 of m2.
LEMMA DecodeAlike ==
  ASSUME NEW m1 \in Memory, NEW to1 \in 0 .. STACK_SIZE, NEW from1 \in 0 .. to1,
         NEW m2 \in Memory, NEW to2 \in 0 .. STACK_SIZE, NEW from2 \in 0 .. to2,
         to1 - from1 = to2 - from2,
         \A i \in 0 .. (to1 - from1) - 1 : m1[from1 + i] = m2[from2 + i]
  PROVE  DecodeIn(m1, from1, to1) = DecodeIn(m2, from2, to2)
<1> USE VMAssumption
<1> DEFINE n == to1 - from1
<1>1. /\ n \in Nat /\ n <= to1 /\ n <= to2 /\ to1 \in Nat /\ to2 \in Nat
      /\ to1 - n = from1 /\ to2 - n = from2
  OBVIOUS
<1>2. PICK d1 : Solution(d1, m1, from1, to1) /\ DecodeIn(m1, from1, to1) = d1[from1]
  BY DecodeSolved
<1>3. PICK d2 : Solution(d2, m2, from2, to2) /\ DecodeIn(m2, from2, to2) = d2[from2]
  BY DecodeSolved
<1>4. Solved(d1, m1, from1, to1) /\ Solved(d2, m2, from2, to2)
  BY <1>2, <1>3 DEF Solution, Solved
<1>5. SameBytes(m1, to1, m2, to2, n)
  <2> SUFFICES ASSUME NEW i \in 1 .. n
               PROVE  m1[to1 - i] = m2[to2 - i]
    BY DEF SameBytes
  <2>1. n - i \in 0 .. (to1 - from1) - 1 /\ from1 + (n - i) = to1 - i /\ from2 + (n - i) = to2 - i
    BY <1>1
  <2> HIDE DEF n
  <2> QED
    BY <2>1
<1>6. d1[from1] = d2[from2]
  <2>1. /\ n = to1 - from1 /\ n = to2 - from2
        /\ from1 \in 0 .. to1 /\ from2 \in 0 .. to2
    OBVIOUS
  <2> HIDE DEF n
  <2> QED
    BY ONLY <1>1, <1>4, <1>5, <2>1, SolvedAlike
<1> QED
  BY <1>2, <1>3, <1>6

\* Decoding goes on where the first item ends.
LEMMA DecodeEquation ==
  ASSUME NEW m \in Memory, NEW to \in 0 .. STACK_SIZE, NEW from \in 0 .. to
  PROVE  /\ DecodeIn(m, from, to) \in Seq(Items)
         /\ from = to => DecodeIn(m, from, to) = <<>>
         /\ from # to /\ IsWhole(m, from, to) =>
              DecodeIn(m, from, to) =
                << Item(m, from) >> \o DecodeIn(m, from + SizeOf(m[from][1]), to)
         /\ from # to /\ ~IsWhole(m, from, to) =>
              DecodeIn(m, from, to) = << NoItem >> \o DecodeIn(m, from + 1, to)
<1> USE VMAssumption
<1>1. PICK d : Solution(d, m, from, to) /\ DecodeIn(m, from, to) = d[from]
  BY DecodeSolved
<1>2. ASSUME NEW a \in from .. to
      PROVE  d[a] = DecodeIn(m, a, to)
  <2>1. a \in 0 .. to
    OBVIOUS
  <2>2. PICK e : Solution(e, m, a, to) /\ DecodeIn(m, a, to) = e[a]
    BY <2>1, DecodeSolved
  <2>3. Solved(d, m, a, to)
    <3>1. \A p \in a .. to : p \in from .. to
      OBVIOUS
    <3> QED
      BY <1>1, <3>1 DEF Solution, Solved
  <2>4. Solved(e, m, a, to)
    BY <2>2 DEF Solution, Solved
  <2>5. SameBytes(m, to, m, to, to - a) /\ to \in Nat
    BY DEF SameBytes
  <2>6. d[a] = e[a]
    BY <2>1, <2>3, <2>4, <2>5, SolvedAlike
  <2> QED
    BY <2>2, <2>6
<1>3. from \in from .. to /\ d[from] = FromHere(m, to, d, from) /\ d[from] \in Seq(Items)
  BY <1>1 DEF Solution
<1>4. from # to => from + 1 \in from .. to
  OBVIOUS
<1>5. IsWhole(m, from, to) => from + SizeOf(m[from][1]) \in from .. to
  <2> DEFINE w == SizeOf(m[from][1])
  <2>1. w \in {2, 4} /\ (IsWhole(m, from, to) => from + w <= to)
    BY Sizes DEF IsWhole
  <2> HIDE DEF w
  <2>2. IsWhole(m, from, to) => from + w \in from .. to
    BY <2>1
  <2> QED
    BY <2>2 DEF w
<1> QED
  BY <1>1, <1>2, <1>3, <1>4, <1>5 DEF FromHere

(***************************************************************************)
(* The first items, and what follows them.                                 *)
(***************************************************************************)
After(s, k) == SubSeq(s, k + 1, Len(s))

LEMMA Cons ==
  ASSUME NEW S, NEW x \in S, NEW s \in Seq(S), NEW t, t = <<x>> \o s
  PROVE  t \in Seq(S) /\ Len(t) = Len(s) + 1 /\ t[1] = x /\ After(t, 1) = s
<1>1. <<x>> \in Seq(S) /\ Len(<<x>>) = 1 /\ Len(s) \in Nat
  BY LenProperties
<1>2. /\ t \in Seq(S) /\ Len(t) = Len(s) + 1
      /\ \A i \in 1 .. Len(s) + 1 : t[i] = IF i <= 1 THEN x ELSE s[i - 1]
  BY <1>1, ConcatProperties
<1>3. t[1] = x
  BY <1>1, <1>2
<1>4. \A i \in 2 .. Len(t) : t[i] \in S
  BY <1>1, <1>2, ElementOfSeq
<1>5. /\ SubSeq(t, 2, Len(t)) \in Seq(S)
      /\ Len(SubSeq(t, 2, Len(t))) = Len(s)
      /\ \A i \in 1 .. Len(s) : SubSeq(t, 2, Len(t))[i] = t[i + 1]
  <2>1. /\ SubSeq(t, 2, Len(t)) \in Seq(S)
        /\ Len(SubSeq(t, 2, Len(t))) = IF 2 <= Len(t) THEN Len(t) - 2 + 1 ELSE 0
        /\ \A i \in 1 .. Len(t) - 2 + 1 : SubSeq(t, 2, Len(t))[i] = t[2 + i - 1]
    BY <1>1, <1>2, <1>4, SubSeqProperties
  <2> QED
    BY <1>1, <1>2, <2>1
<1>6. \A i \in 1 .. Len(s) : SubSeq(t, 2, Len(t))[i] = s[i]
  <2> SUFFICES ASSUME NEW i \in 1 .. Len(s)
               PROVE  t[i + 1] = s[i]
    BY <1>5
  <2>1. i + 1 \in 1 .. Len(s) + 1 /\ ~(i + 1 <= 1) /\ (i + 1) - 1 = i
    BY <1>1
  <2> QED
    BY <1>2, <2>1
<1> QED
  BY <1>2, <1>3, <1>5, <1>6, SeqEqual DEF After

LEMMA AfterIs ==
  ASSUME NEW S, NEW s \in Seq(S), NEW k \in 0 .. Len(s)
  PROVE  /\ After(s, k) \in Seq(S) /\ Len(After(s, k)) = Len(s) - k
         /\ After(s, 0) = s
         /\ k = Len(s) => After(s, k) = <<>>
         /\ k < Len(s) => /\ After(s, k)[1] = s[k + 1]
                          /\ After(After(s, k), 1) = After(s, k + 1)
<1>1. Len(s) \in Nat
  BY LenProperties
<1>2. \A i \in k + 1 .. Len(s) : s[i] \in S
  BY <1>1, ElementOfSeq
<1>3. /\ SubSeq(s, k + 1, Len(s)) \in Seq(S)
      /\ Len(SubSeq(s, k + 1, Len(s))) = Len(s) - k
  <2>1. /\ SubSeq(s, k + 1, Len(s)) \in Seq(S)
        /\ Len(SubSeq(s, k + 1, Len(s)))
             = IF k + 1 <= Len(s) THEN Len(s) - (k + 1) + 1 ELSE 0
    BY <1>1, <1>2, SubSeqProperties
  <2> QED
    BY <1>1, <2>1
<1>4. SubSeq(s, 0 + 1, Len(s)) = s
  BY SubSeqFull
<1>5. k = Len(s) => SubSeq(s, k + 1, Len(s)) = <<>>
  BY <1>1, SubSeqEmpty
<1>6. ASSUME k < Len(s)
      PROVE  /\ After(s, k)[1] = s[k + 1]
             /\ After(After(s, k), 1) = After(s, k + 1)
  <2>1. SubSeq(s, k + 1, Len(s)) = << s[k + 1] >> \o SubSeq(s, (k + 1) + 1, Len(s))
    BY <1>1, <1>6, SubSeqRecursiveFirst
  <2>2. SubSeq(s, (k + 1) + 1, Len(s)) \in Seq(S)
    <3>1. \A i \in (k + 1) + 1 .. Len(s) : s[i] \in S
      BY <1>1, ElementOfSeq
    <3> QED
      BY <1>1, <3>1, SubSeqProperties
  <2>3. s[k + 1] \in S
    BY <1>1, <1>2, <1>6
  <2> QED
    BY <2>1, <2>2, <2>3, Cons DEF After
<1> QED
  BY <1>3, <1>4, <1>5, <1>6 DEF After

\* What is decoded to a value has its bytes in order.
LEMMA FirstItem ==
  ASSUME NEW m \in Memory, NEW to \in 0 .. STACK_SIZE, NEW from \in 0 .. to,
         NEW s, s = DecodeIn(m, from, to), Len(s) >= 1, s[1][1] \in {"int", "float"}
  PROVE  /\ IsWhole(m, from, to) /\ from # to
         /\ s[1] = Item(m, from) /\ s[1][1] = m[from][1]
         /\ from + SizeOf(s[1][1]) \in 0 .. to
         /\ After(s, 1) = DecodeIn(m, from + SizeOf(s[1][1]), to)
<1> USE VMAssumption
<1>1. from # to
  <2>1. from = to => s = <<>>
    BY DecodeEquation
  <2>2. Len(<<>>) = 0
    OBVIOUS
  <2> QED
    BY <2>1, <2>2
<1>2. from \in Address /\ from + 1 \in 0 .. to
  BY <1>1 DEF Address
<1>3. IsWhole(m, from, to)
  <2> SUFFICES ASSUME ~IsWhole(m, from, to)
               PROVE  FALSE
    OBVIOUS
  <2>1. s = << NoItem >> \o DecodeIn(m, from + 1, to)
    BY <1>1, DecodeEquation
  <2>2. DecodeIn(m, from + 1, to) \in Seq(Items)
    BY <1>2, DecodeEquation
  <2>3. s[1] = NoItem
    BY <2>1, <2>2, ItemsThere, Cons
  <2> QED
    BY <2>3 DEF NoItem
<1> DEFINE w == SizeOf(m[from][1])
<1>4. from + w \in 0 .. to
  <2>1. w \in {2, 4} /\ from + w <= to
    BY <1>3, Sizes DEF IsWhole
  <2> HIDE DEF w
  <2> QED
    BY <2>1
<1> HIDE DEF w
<1>5. s = << Item(m, from) >> \o DecodeIn(m, from + w, to)
  BY <1>1, <1>3, DecodeEquation DEF w
<1>6. DecodeIn(m, from + w, to) \in Seq(Items)
  BY <1>4, DecodeEquation
<1>7. s[1] = Item(m, from) /\ After(s, 1) = DecodeIn(m, from + w, to)
  <2>1. Item(m, from) \in Items
    BY <1>2, ItemsThere
  <2> DEFINE x == Item(m, from)
  <2> DEFINE t == DecodeIn(m, from + w, to)
  <2>2. s = <<x>> \o t /\ x \in Items /\ t \in Seq(Items)
    BY <1>5, <1>6, <2>1
  <2> HIDE DEF x, t
  <2>3. s[1] = x /\ After(s, 1) = t
    BY ONLY <2>2, Cons
  <2> QED
    BY <2>3 DEF x, t
<1>8. s[1][1] = m[from][1]
  BY <1>7 DEF Item
<1> QED
  BY <1>1, <1>3, <1>4, <1>7, <1>8 DEF w

\* The bytes of a value start at address a.
Spells(m, a, type, worth) ==
  \A k \in 0 .. SizeOf(type) - 1 : m[a + k] = <<type, worth, k>>

\* They decode to it.
LEMMA FirstValue ==
  ASSUME NEW m \in Memory, NEW to \in 0 .. STACK_SIZE, NEW from \in 0 .. to,
         NEW type \in {"int", "float"}, NEW worth, from + SizeOf(type) <= to,
         Spells(m, from, type, worth)
  PROVE  /\ IsWhole(m, from, to) /\ from # to /\ Item(m, from) = <<type, worth>>
         /\ DecodeIn(m, from, to) = << <<type, worth>> >> \o DecodeIn(m, from + SizeOf(type), to)
<1> USE VMAssumption
<1>1. SizeOf(type) \in {2, 4}
  BY Sizes
<1>2. 0 \in 0 .. SizeOf(type) - 1 /\ from + 0 = from /\ from # to
  BY <1>1
<1>3. m[from] = <<type, worth, 0>>
  BY <1>2 DEF Spells
<1>4. m[from][1] = type /\ Item(m, from) = <<type, worth>> /\ m[from][2] = worth
  BY <1>3 DEF Item
<1>5. IsWhole(m, from, to)
  <2>1. from \in Nat /\ to \in Nat
    OBVIOUS
  <2> QED
    BY <1>4, <2>1, WholeBytes DEF Spells
<1> QED
  BY <1>2, <1>4, <1>5, DecodeEquation

(***************************************************************************)
(* Records.                                                                *)
(***************************************************************************)
LEMMA RecordLength ==
  /\ Len(Record) \in Nat /\ Len(Record) >= 1 /\ DOMAIN Record = 1 .. Len(Record)
  /\ \A k \in 1 .. Len(Record) : Record[k] \in {"int", "float"}
BY BytecodeAssumption, LenProperties, EmptySeq, ElementOfSeq

\* The fields of a record are at their offsets, and what follows it after data_size.
LEMMA RecordDecoded ==
  ASSUME NEW m \in Memory, NEW to \in 0 .. STACK_SIZE, NEW from \in 0 .. to,
         NEW s, s = DecodeIn(m, from, to), Machine!Typed(s, Record)
  PROVE  /\ \A k \in 0 .. Len(Record) :
              /\ from + FieldOffset(k + 1) \in 0 .. to
              /\ After(s, k) = DecodeIn(m, from + FieldOffset(k + 1), to)
         /\ \A k \in 1 .. Len(Record) :
              /\ IsWhole(m, from + FieldOffset(k), to)
              /\ from + FieldOffset(k) + SizeOf(Record[k]) <= to
              /\ s[k] = Item(m, from + FieldOffset(k))
              /\ m[from + FieldOffset(k)][1] = Record[k]
<1> USE VMAssumption
<1> DEFINE n == Len(Record)
<1> DEFINE T == {k \in 0 .. n : /\ from + FieldOffset(k + 1) \in 0 .. to
                                /\ After(s, k) = DecodeIn(m, from + FieldOffset(k + 1), to)}
<1>1. s \in Seq(Items) /\ n <= Len(s) /\ Len(s) \in Nat /\ n \in Nat
  BY DecodeEquation, RecordLength, LenProperties DEF Machine!Typed
<1>2. 0 \in T
  <2>1. 0 \in 0 .. n /\ 0 \in 0 .. Len(s) /\ from + FieldOffset(0 + 1) = from
    BY <1>1, Offsets
  <2>2. After(s, 0) = s
    BY <1>1, <2>1, AfterIs
  <2> QED
    BY <2>1, <2>2
<1>3. ASSUME NEW k \in 0 .. n - 1, k \in T
      PROVE  /\ k + 1 \in T
             /\ LET a == from + FieldOffset(k + 1)
                IN  /\ IsWhole(m, a, to) /\ a + SizeOf(Record[k + 1]) <= to
                    /\ s[k + 1] = Item(m, a) /\ m[a][1] = Record[k + 1]
  <2> DEFINE a == from + FieldOffset(k + 1)
  <2> DEFINE u == After(s, k)
  <2>1. a \in 0 .. to /\ u = DecodeIn(m, a, to)
    BY <1>3
  <2>2. k + 1 \in 1 .. n /\ k \in 0 .. Len(s) /\ k < Len(s) /\ k + 1 \in 0 .. n
    BY <1>1
  <2>3. Len(u) >= 1 /\ u[1] = s[k + 1] /\ After(u, 1) = After(s, k + 1)
    <3>1. /\ Len(u) = Len(s) - k /\ u[1] = s[k + 1]
          /\ After(u, 1) = After(s, k + 1)
      BY <1>1, <2>2, AfterIs
    <3> QED
      BY <1>1, <2>2, <3>1
  <2>4. u[1][1] = Record[k + 1] /\ Record[k + 1] \in {"int", "float"}
    BY <2>2, <2>3, RecordLength DEF Machine!Typed
  <2> HIDE DEF a, u
  <2>5. /\ IsWhole(m, a, to) /\ u[1] = Item(m, a) /\ u[1][1] = m[a][1]
        /\ a + SizeOf(u[1][1]) \in 0 .. to
        /\ After(u, 1) = DecodeIn(m, a + SizeOf(u[1][1]), to)
    BY <2>1, <2>3, <2>4, FirstItem
  <2>6. a + SizeOf(Record[k + 1]) = from + FieldOffset((k + 1) + 1)
    <3>1. FieldOffset((k + 1) + 1) = FieldOffset(k + 1) + SizeOf(Record[k + 1])
      BY <2>2, Offsets
    <3>2. FieldOffset(k + 1) \in Nat /\ SizeOf(Record[k + 1]) \in Nat
      <4>1. k + 1 \in 1 .. Len(Record) + 1
        BY <1>1, <2>2
      <4> QED
        BY <4>1, Offsets, Sizes
    <3> QED
      BY <3>1, <3>2 DEF a
  <2>7. k + 1 \in T
    BY <2>2, <2>3, <2>4, <2>5, <2>6
  <2>8. a + SizeOf(Record[k + 1]) <= to
    BY <2>4, <2>5
  <2> QED
    BY <2>3, <2>4, <2>5, <2>7, <2>8 DEF a
<1> HIDE DEF T
<1>4. \A k \in 0 .. n : k \in T
  BY <1>1, <1>2, <1>3, UpTo
<1>5. ASSUME NEW k \in 1 .. n
      PROVE  /\ IsWhole(m, from + FieldOffset(k), to)
             /\ from + FieldOffset(k) + SizeOf(Record[k]) <= to
             /\ s[k] = Item(m, from + FieldOffset(k))
             /\ m[from + FieldOffset(k)][1] = Record[k]
  <2>1. k - 1 \in 0 .. n - 1 /\ (k - 1) + 1 = k /\ k - 1 \in 0 .. n
    BY <1>1
  <2>2. k - 1 \in T
    BY <1>4, <2>1
  <2> DEFINE j == k - 1
  <2>3. j \in 0 .. n - 1 /\ j \in T /\ j + 1 = k
    BY <2>1, <2>2
  <2> HIDE DEF j
  <2> QED
    BY <1>3, <2>3
<1> QED
  BY <1>4, <1>5 DEF T

LEMMA FieldBytes ==
  ASSUME NEW at \in Nat, NEW o \in Nat, NEW w \in {2, 4}, NEW d \in Nat, NEW to \in Nat,
         o + w <= d, at + d <= to
  PROVE  /\ at + o \in 0 .. to /\ at + o + w \in 0 .. to
         /\ at + o + w <= to /\ at + o + w = at + (o + w)
         /\ \A i \in 0 .. w - 1 : o + i \in 0 .. d - 1 /\ at + (o + i) = at + o + i
OBVIOUS

\* m2 holds at address `at' what m holds from `from' on.
Copied(m, from, m2, at, size) == \A i \in 0 .. size - 1 : m2[at + i] = m[from + i]

\* A record, s, lies at address `from' of m.
RecordIn(m, from, s) ==
  /\ from \in Nat /\ from + data_size <= STACK_SIZE
  /\ s = DecodeIn(m, from, from + data_size) /\ Machine!Typed(s, Record)

\* A copy of a record decodes to the same values, wherever it ends.
LEMMA RecordCopied ==
  ASSUME NEW m \in Memory, NEW from, NEW s, RecordIn(m, from, s),
         NEW m2 \in Memory, NEW to \in 0 .. STACK_SIZE, NEW at \in 0 .. to,
         at + data_size <= to, Copied(m, from, m2, at, data_size)
  PROVE  /\ Len(s) = Len(Record)
         /\ DecodeIn(m2, at, to) = s \o DecodeIn(m2, at + data_size, to)
<1> USE VMAssumption DEF Copied, RecordIn
<1> DEFINE n == Len(Record)
<1> DEFINE end == from + data_size
<1>0. data_size \in Nat /\ end \in 0 .. STACK_SIZE /\ from \in 0 .. end /\ n \in Nat
  BY Sizes, RecordLength
<1>a. /\ m2 \in Memory /\ to \in 0 .. STACK_SIZE /\ at \in 0 .. to /\ at + data_size <= to
      /\ at \in Nat /\ to \in Nat
  OBVIOUS
<1>1. s \in Seq(Items) /\ Len(s) \in Nat /\ n <= Len(s)
  <2> HIDE DEF end
  <2>1. s = DecodeIn(m, from, end)
    BY DEF end
  <2>2. s \in Seq(Items)
    BY <1>0, <2>1, DecodeEquation
  <2> QED
    BY <2>2, LenProperties DEF Machine!Typed
<1>2. /\ \A k \in 0 .. n :
           /\ from + FieldOffset(k + 1) \in 0 .. end
           /\ After(s, k) = DecodeIn(m, from + FieldOffset(k + 1), end)
      /\ \A k \in 1 .. n :
           /\ IsWhole(m, from + FieldOffset(k), end)
           /\ from + FieldOffset(k) + SizeOf(Record[k]) <= end
           /\ s[k] = Item(m, from + FieldOffset(k))
           /\ m[from + FieldOffset(k)][1] = Record[k]
  <2>1. s = DecodeIn(m, from, end)
    BY DEF end
  <2> HIDE DEF end, n
  <2> QED
    BY <1>0, <2>1, RecordDecoded DEF n
<1>3. Len(s) = n
  <2>1. After(s, n) = DecodeIn(m, end, end)
    <3>1. n \in 0 .. n
      BY <1>0
    <3> QED
      BY <1>2, <3>1 DEF data_size
  <2>2. DecodeIn(m, end, end) = <<>>
    <3>1. end \in 0 .. end
      BY <1>0
    <3> QED
      BY <1>0, <3>1, DecodeEquation
  <2>3. Len(After(s, n)) = Len(s) - n
    BY <1>0, <1>1, AfterIs
  <2>4. Len(<<>>) = 0
    OBVIOUS
  <2> QED
    BY <1>0, <1>1, <2>1, <2>2, <2>3, <2>4
<1> DEFINE T == {k \in 0 .. n : DecodeIn(m2, at, to)
                                  = SubSeq(s, 1, k) \o DecodeIn(m2, at + FieldOffset(k + 1), to)}
<1>4. 0 \in T
  <2>1. at + FieldOffset(0 + 1) = at /\ 0 \in 0 .. n
    BY <1>0, Offsets
  <2>2. SubSeq(s, 1, 0) = <<>>
    BY SubSeqEmpty
  <2>3. DecodeIn(m2, at, to) \in Seq(Items)
    BY DecodeEquation
  <2>4. <<>> \o DecodeIn(m2, at, to) = DecodeIn(m2, at, to)
    BY <2>3, ConcatEmptySeq
  <2> QED
    BY <2>1, <2>2, <2>4
<1>5. ASSUME NEW k \in 0 .. n - 1, k \in T
      PROVE  k + 1 \in T
  <2> DEFINE o == FieldOffset(k + 1)
  <2> DEFINE type == Record[k + 1]
  <2>1. k + 1 \in 1 .. n /\ k + 1 \in 0 .. n
    BY <1>0
  <2>2. /\ type \in {"int", "float"} /\ o \in Nat /\ SizeOf(type) \in {2, 4}
        /\ o + SizeOf(type) <= data_size
        /\ FieldOffset((k + 1) + 1) = o + SizeOf(type)
    BY <2>1, Offsets, FieldsInside, RecordLength, Sizes
  <2>3. IsWhole(m, from + o, end) /\ s[k + 1] = Item(m, from + o) /\ m[from + o][1] = type
    BY <1>2, <2>1
  <2> HIDE DEF o, type
  <2> DEFINE worth == m[from + o][2]
  <2>4. s[k + 1] = <<type, worth>>
    BY <2>3 DEF Item
  <2>5. ASSUME NEW i \in 0 .. SizeOf(type) - 1
        PROVE  m2[at + o + i] = <<type, worth, i>>
    <3>1. from + o \in Nat /\ end \in Nat
      BY <1>0, <2>2
    <3>2. m[from + o + i] = <<type, worth, i>>
      <4> HIDE DEF end
      <4> QED
        BY <2>3, <3>1, WholeBytes
    <3>3. o + i \in 0 .. data_size - 1 /\ at + (o + i) = at + o + i
      BY <1>0, <2>2, FieldBytes, SMTT(30)
    <3>4. from + (o + i) = from + o + i
      BY <1>0, <2>2, FieldBytes
    <3> QED
      BY <3>2, <3>3, <3>4
  <2> HIDE DEF worth
  <2>6. /\ at + o \in 0 .. to /\ at + o + SizeOf(type) <= to
        /\ at + o + SizeOf(type) = at + FieldOffset((k + 1) + 1)
        /\ at + o + SizeOf(type) \in 0 .. to
    <3> DEFINE w == SizeOf(type)
    <3> DEFINE d == data_size
    <3> DEFINE next == FieldOffset((k + 1) + 1)
    <3>1. /\ o \in Nat /\ w \in {2, 4} /\ d \in Nat /\ at \in Nat /\ to \in Nat
          /\ o + w <= d /\ at + d <= to /\ next = o + w
      BY <1>0, <1>a, <2>2
    <3> HIDE DEF w, d, next
    <3>2. at + o \in 0 .. to /\ at + o + w <= to /\ at + o + w = at + next /\ at + o + w \in 0 .. to
      BY ONLY <3>1
    <3> QED
      BY <3>2 DEF w, next
  <2>7. DecodeIn(m2, at + o, to)
          = << s[k + 1] >> \o DecodeIn(m2, at + FieldOffset((k + 1) + 1), to)
    <3> DEFINE p == at + o
    <3>1. p \in 0 .. to /\ p + SizeOf(type) <= to
      BY <2>6
    <3>2. Spells(m2, p, type, worth)
      BY <2>5 DEF Spells
    <3> HIDE DEF p
    <3>3. DecodeIn(m2, p, to) = << <<type, worth>> >> \o DecodeIn(m2, p + SizeOf(type), to)
      BY ONLY <1>a, <2>2, <3>1, <3>2, FirstValue, SMTT(30)
    <3> QED
      BY <2>4, <2>6, <3>3 DEF p
  <2> DEFINE rest == DecodeIn(m2, at + FieldOffset((k + 1) + 1), to)
  <2>8. rest \in Seq(Items)
    BY <2>6, DecodeEquation
  <2>9. DecodeIn(m2, at, to) = SubSeq(s, 1, k) \o (<< s[k + 1] >> \o rest)
    BY <1>5, <2>7 DEF o
  <2> HIDE DEF rest
  <2>10. s[k + 1] \in Items /\ SubSeq(s, 1, k) \in Seq(Items) /\ << s[k + 1] >> \in Seq(Items)
    <3>1. \A i \in 1 .. k + 1 : s[i] \in Items
      BY <1>0, <1>1, ElementOfSeq
    <3>2. k + 1 \in 1 .. k + 1 /\ \A i \in 1 .. k : s[i] \in Items
      BY <1>0, <3>1
    <3>3. SubSeq(s, 1, k) \in Seq(Items)
      BY <3>2, SubSeqProperties
    <3> QED
      BY <3>1, <3>2, <3>3
  <2>11. SubSeq(s, 1, k) \o << s[k + 1] >> = SubSeq(s, 1, k + 1)
    <3>1. k + 1 \in 1 .. Len(s) /\ 1 \in 1 .. Len(s) /\ k + 1 \in 1 .. Len(s) /\ (k + 1) - 1 = k
      BY <1>0, <1>1, <1>3
    <3>2. SubSeq(s, 1, k + 1) = SubSeq(s, 1, (k + 1) - 1) \o << s[k + 1] >>
      BY <1>1, <3>1, SubSeqRecursiveSecond
    <3> QED
      BY <3>1, <3>2
  <2>12. SubSeq(s, 1, k) \o (<< s[k + 1] >> \o rest) = (SubSeq(s, 1, k) \o << s[k + 1] >>) \o rest
    <3> DEFINE before == SubSeq(s, 1, k)
    <3> DEFINE one == << s[k + 1] >>
    <3>1. before \in Seq(Items) /\ one \in Seq(Items)
      BY <2>10
    <3> HIDE DEF before, one
    <3>2. before \o (one \o rest) = (before \o one) \o rest
      BY ONLY <2>8, <3>1, ConcatAssociative, SMTT(30)
    <3> QED
      BY <3>2, Zenon DEF before, one
  <2>13. DecodeIn(m2, at, to) = SubSeq(s, 1, k + 1) \o rest
    BY <2>9, <2>11, <2>12, Zenon
  <2> QED
    <3>1. DecodeIn(m2, at, to)
            = SubSeq(s, 1, k + 1) \o DecodeIn(m2, at + FieldOffset((k + 1) + 1), to)
      BY <2>13 DEF rest
    <3> QED
      BY <2>1, <3>1, Zenon
<1> HIDE DEF T
<1>6. n \in T
  <2>1. n \in Nat /\ n \in 0 .. n
    BY <1>0
  <2> HIDE DEF n
  <2>2. \A k \in 0 .. n : k \in T
    BY ONLY <1>4, <1>5, <2>1, UpTo
  <2> QED
    BY <2>1, <2>2
<1>7. SubSeq(s, 1, n) = s
  BY <1>1, <1>3, SubSeqFull
<1> QED
  BY <1>3, <1>6, <1>7 DEF T, data_size

LEMMA WiderSeq ==
  ASSUME NEW S, NEW T, S \subseteq T, NEW s \in Seq(S)
  PROVE  s \in Seq(T)
<1>1. Len(s) \in Nat /\ s = [k \in 1 .. Len(s) |-> s[k]] /\ \A k \in 1 .. Len(s) : s[k] \in T
  BY LenProperties, ElementOfSeq
<1> QED
  BY <1>1, SeqOf

(***************************************************************************)
(* The bytes that values take.                                             *)
(***************************************************************************)
\* One for what is no value.
BytesFor(v) == IF v[1] \in {"int", "float"} THEN SizeOf(v[1]) ELSE 1

\* g[k] is the width of the first k values.
Widths(g, values, n) ==
  /\ g[0] = 0
  /\ \A k \in 0 .. n : g[k] \in Nat
  /\ \A k \in 0 .. n - 1 : g[k + 1] = g[k] + BytesFor(values[k + 1])

LEMMA WidthAdds ==
  ASSUME NEW n \in Nat, NEW values, Len(values) = n
  PROVE  \E g : Widths(g, values, n) /\ Machine!Width(values) = g[n]
<1> DEFINE step == [k \in 1 .. n |-> [v \in Nat |-> v + BytesFor(values[k])]]
<1>0. \A v : BytesFor(v) \in Nat
  BY Sizes DEF BytesFor
<1>1. step \in Steps(n, Nat)
  <2>1. ASSUME NEW k \in 1 .. n, NEW v \in Nat
        PROVE  v + BytesFor(values[k]) \in Nat
    <3>1. BytesFor(values[k]) \in Nat
      BY <1>0
    <3> QED
      BY <3>1
  <2> QED
    BY <2>1 DEF Steps
<1>2. PICK g : Iterates(g, n, Nat, 0, step)
  <2> HIDE DEF step
  <2> QED
    BY <1>1, Iteration
<1>3. \A k \in 1 .. n, v \in Nat : step[k][v] = v + BytesFor(values[k])
  OBVIOUS
<1> HIDE DEF step
<1> DEFINE Def(h) == h = [k \in 0 .. Len(values) |->
                            IF k = 0 THEN 0 ELSE h[k - 1] + BytesFor(values[k])]
<1>4. Def(g)
  <2>1. g = [k \in 0 .. n |-> g[k]]
    BY <1>2 DEF Iterates
  <2>2. ASSUME NEW k \in 0 .. n
        PROVE  g[k] = IF k = 0 THEN 0 ELSE g[k - 1] + BytesFor(values[k])
    <3>1. CASE k = 0
      BY <1>2, <3>1 DEF Iterates
    <3>2. CASE k # 0
      <4>1. k \in 1 .. n /\ k - 1 \in 0 .. n
        BY <3>2
      <4>2. g[k - 1] \in Nat /\ g[k] = step[k][g[k - 1]]
        BY <1>2, <4>1 DEF Iterates
      <4> QED
        BY <1>3, <3>2, <4>1, <4>2
    <3> QED
      BY <3>1, <3>2
  <2> QED
    BY <2>1, <2>2
<1> DEFINE o == CHOOSE h : Def(h)
<1>5. Def(o)
  <2> HIDE DEF Def
  <2> QED
    BY <1>4
<1>6. Machine!Width(values) = o[n]
  BY Zenon DEF Machine!Width, Machine!SizeOf, SizeOf, BytesFor
<1> HIDE DEF o
<1>7. o[0] = 0
  BY <1>5
<1>8. \A k \in 0 .. n - 1 : o[k + 1] = o[k] + BytesFor(values[k + 1])
  <2> SUFFICES ASSUME NEW k \in 0 .. n - 1
               PROVE  o[k + 1] = o[k] + BytesFor(values[k + 1])
    OBVIOUS
  <2>1. k + 1 \in 0 .. n /\ k + 1 # 0 /\ (k + 1) - 1 = k
    OBVIOUS
  <2> QED
    BY <1>5, <2>1
<1> HIDE DEF Def
<1> DEFINE T == {k \in 0 .. n : o[k] \in Nat}
<1>9. 0 \in T
  BY <1>7
<1>10. ASSUME NEW k \in 0 .. n - 1, k \in T
       PROVE  k + 1 \in T
  <2>1. o[k + 1] = o[k] + BytesFor(values[k + 1]) /\ BytesFor(values[k + 1]) \in Nat
    BY <1>0, <1>8
  <2>2. o[k] \in Nat /\ k + 1 \in 0 .. n
    BY <1>10
  <2> QED
    BY <2>1, <2>2
<1>11. \A k \in 0 .. n : k \in T
  <2> HIDE DEF T
  <2> QED
    BY <1>9, <1>10, UpTo
<1>12. Widths(o, values, n)
  BY <1>7, <1>8, <1>11 DEF Widths
<1> QED
  BY <1>6, <1>12

LEMMA WidthIs ==
  ASSUME NEW n \in Nat, NEW values, Len(values) = n
  PROVE  /\ Machine!Width(values) \in Nat
         /\ n = 0 => Machine!Width(values) = 0
         /\ n = 1 => Machine!Width(values) = BytesFor(values[1])
<1>1. PICK g : Widths(g, values, n) /\ Machine!Width(values) = g[n]
  BY WidthAdds
<1>2. g[0] = 0 /\ g[n] \in Nat
  BY <1>1 DEF Widths
<1>3. ASSUME n = 1
      PROVE  g[n] = BytesFor(values[1])
  <2>1. 0 \in 0 .. n - 1 /\ 0 + 1 = 1
    BY <1>3
  <2>2. g[0 + 1] = g[0] + BytesFor(values[0 + 1])
    BY <1>1, <2>1 DEF Widths
  <2>3. BytesFor(values[1]) \in Nat
    BY Sizes DEF BytesFor
  <2> QED
    BY <1>2, <1>3, <2>1, <2>2, <2>3
<1> QED
  BY <1>1, <1>2, <1>3

LEMMA WidthConcat ==
  ASSUME NEW S, NEW s \in Seq(S), NEW t \in Seq(S)
  PROVE  /\ Machine!Width(s) \in Nat /\ Machine!Width(t) \in Nat
         /\ Machine!Width(s \o t) = Machine!Width(s) + Machine!Width(t)
<1> DEFINE n == Len(s)
<1> DEFINE l == Len(t)
<1> DEFINE c == s \o t
<1>1. n \in Nat /\ l \in Nat /\ n + l \in Nat /\ Len(c) = n + l
      /\ \A i \in 1 .. n + l : c[i] = IF i <= n THEN s[i] ELSE t[i - n]
  BY LenProperties, ConcatProperties
<1>2. PICK gs : Widths(gs, s, n) /\ Machine!Width(s) = gs[n]
  BY <1>1, WidthAdds
<1>3. PICK gt : Widths(gt, t, l) /\ Machine!Width(t) = gt[l]
  BY <1>1, WidthAdds
<1> HIDE DEF n, l, c
<1>4. PICK gc : Widths(gc, c, n + l) /\ Machine!Width(c) = gc[n + l]
  BY <1>1, WidthAdds
<1> DEFINE A == {k \in 0 .. n : gc[k] = gs[k]}
<1>5. 0 \in A
  BY <1>1, <1>2, <1>4 DEF Widths
<1>6. ASSUME NEW k \in 0 .. n - 1, k \in A
      PROVE  k + 1 \in A
  <2>1. k + 1 \in 1 .. n /\ k \in 0 .. (n + l) - 1 /\ k + 1 \in 1 .. n + l /\ k + 1 <= n
    BY <1>1
  <2>2. c[k + 1] = s[k + 1]
    BY <1>1, <2>1
  <2>3. gs[k + 1] = gs[k] + BytesFor(s[k + 1]) /\ gc[k + 1] = gc[k] + BytesFor(c[k + 1])
    BY <1>2, <1>4, <2>1 DEF Widths
  <2> QED
    BY <1>6, <2>1, <2>2, <2>3
<1>7. gc[n] = gs[n]
  <2>1. n \in 0 .. n
    BY <1>1
  <2> HIDE DEF A
  <2>2. n \in A
    BY <1>1, <1>5, <1>6, <2>1, UpTo
  <2> QED
    BY <2>2 DEF A
<1> DEFINE B == {k \in 0 .. l : gc[n + k] = gs[n] + gt[k]}
<1>8. gs[n] \in Nat /\ gt[0] = 0 /\ gt[l] \in Nat
  <2>1. n \in 0 .. n /\ l \in 0 .. l
    BY <1>1
  <2> QED
    BY <1>2, <1>3, <2>1 DEF Widths
<1>9. 0 \in B
  BY <1>1, <1>7, <1>8
<1>10. ASSUME NEW k \in 0 .. l - 1, k \in B
       PROVE  k + 1 \in B
  <2>1. /\ k + 1 \in 0 .. l /\ n + k \in 0 .. (n + l) - 1 /\ n + (k + 1) \in 1 .. n + l
        /\ ~(n + (k + 1) <= n) /\ (n + (k + 1)) - n = k + 1 /\ (n + k) + 1 = n + (k + 1)
    BY <1>1
  <2>2. c[n + (k + 1)] = t[k + 1]
    BY <1>1, <2>1
  <2>3. gc[(n + k) + 1] = gc[n + k] + BytesFor(c[(n + k) + 1])
    BY <1>4, <2>1 DEF Widths
  <2>4. gt[k + 1] = gt[k] + BytesFor(t[k + 1]) /\ gt[k] \in Nat
    BY <1>1, <1>3 DEF Widths
  <2>5. BytesFor(t[k + 1]) \in Nat
    BY Sizes DEF BytesFor
  <2>6. gc[n + k] = gs[n] + gt[k]
    BY <1>10
  <2>7. gc[n + (k + 1)] = gs[n] + gt[k + 1]
    BY <1>8, <2>1, <2>2, <2>3, <2>4, <2>5, <2>6
  <2> QED
    BY <2>1, <2>7
<1>11. gc[n + l] = gs[n] + gt[l]
  <2>1. l \in 0 .. l
    BY <1>1
  <2> HIDE DEF B
  <2>2. l \in B
    BY <1>1, <1>9, <1>10, <2>1, UpTo
  <2> QED
    BY <2>2 DEF B
<1> QED
  BY <1>2, <1>3, <1>4, <1>8, <1>11 DEF c

\* The bytes from one address to another are as many as what they are decoded to takes.
LEMMA WidthDecoded ==
  ASSUME NEW m \in Memory, NEW to \in 0 .. STACK_SIZE, NEW from \in 0 .. to
  PROVE  Machine!Width(DecodeIn(m, from, to)) = to - from
<1> DEFINE W(a) == Machine!Width(DecodeIn(m, a, to))
<1> DEFINE T == {k \in 0 .. to : \A a \in 0 .. to : to - a <= k => W(a) = to - a}
<1>0. to \in Nat /\ STACK_SIZE \in Nat /\ from \in Nat
  BY VMAssumption
<1>1. ASSUME NEW a \in 0 .. to, a = to
      PROVE  W(a) = to - a
  <2>1. DecodeIn(m, a, to) = <<>>
    BY <1>1, DecodeEquation
  <2>2. Len(<<>>) = 0 /\ 0 \in Nat
    OBVIOUS
  <2>3. Machine!Width(<<>>) = 0
    BY <2>2, WidthIs
  <2> QED
    BY <1>0, <1>1, <2>1, <2>3
<1>2. ASSUME NEW a \in 0 .. to, a # to, \A b \in 0 .. to : b > a => W(b) = to - b
      PROVE  W(a) = to - a
  <2> DEFINE whole == IsWhole(m, a, to)
  <2> DEFINE size == IF whole THEN SizeOf(m[a][1]) ELSE 1
  <2> DEFINE v == IF whole THEN Item(m, a) ELSE NoItem
  <2>1. size \in Nat /\ size >= 1 /\ a + size \in 0 .. to
    <3>1. whole => SizeOf(m[a][1]) \in {2, 4} /\ a + SizeOf(m[a][1]) <= to
      BY Sizes DEF IsWhole
    <3> HIDE DEF whole
    <3>2. CASE whole
      BY <1>0, <3>1, <3>2
    <3>3. CASE ~whole
      BY <1>0, <1>2, <3>3
    <3> QED
      BY <3>2, <3>3
  <2>2. BytesFor(v) = size
    BY DEF BytesFor, IsWhole, Item, NoItem
  <2>3. DecodeIn(m, a, to) = <<v>> \o DecodeIn(m, a + size, to)
    <3>1. IsWhole(m, a, to) =>
            DecodeIn(m, a, to) = << Item(m, a) >> \o DecodeIn(m, a + SizeOf(m[a][1]), to)
      BY <1>2, DecodeEquation
    <3>2. ~IsWhole(m, a, to) => DecodeIn(m, a, to) = << NoItem >> \o DecodeIn(m, a + 1, to)
      BY <1>2, DecodeEquation
    <3> QED
      BY <3>1, <3>2, Zenon
  <2> HIDE DEF v, size
  <2> DEFINE t == DecodeIn(m, a + size, to)
  <2> DEFINE S == Items \cup {v}
  <2>4. <<v>> \in Seq(S) /\ t \in Seq(S)
    <3>1. t \in Seq(Items)
      BY <2>1, DecodeEquation
    <3>2. v \in S /\ Items \subseteq S
      OBVIOUS
    <3> HIDE DEF t, S
    <3>3. <<v>> \in Seq(S)
      BY <3>2
    <3> QED
      BY <3>1, <3>2, <3>3, WiderSeq
  <2>5. Machine!Width(t) = to - (a + size)
    BY <1>0, <1>2, <2>1
  <2>6. Machine!Width(<<v>>) = size
    <3> DEFINE p == <<v>>
    <3>1. Len(p) = 1 /\ 1 \in Nat /\ p[1] = v
      OBVIOUS
    <3> HIDE DEF p
    <3>2. Machine!Width(p) = BytesFor(p[1])
      BY <3>1, WidthIs
    <3> QED
      BY <2>2, <3>1, <3>2 DEF p
  <2> HIDE DEF t, S
  <2>7. Machine!Width(<<v>> \o t) = size + (to - (a + size))
    BY <2>4, <2>5, <2>6, WidthConcat
  <2>8. size + (to - (a + size)) = to - a
    BY <1>0, <2>1
  <2> QED
    BY <2>3, <2>7, <2>8 DEF t
<1> HIDE DEF W
<1>3. 0 \in T
  <2>1. \A a \in 0 .. to : to - a <= 0 => a = to
    BY <1>0
  <2> QED
    BY <1>0, <1>1, <2>1
<1>4. ASSUME NEW k \in 0 .. to - 1, k \in T
      PROVE  k + 1 \in T
  <2>1. k + 1 \in 0 .. to
    BY <1>0
  <2>2. ASSUME NEW a \in 0 .. to, to - a <= k + 1
        PROVE  W(a) = to - a
    <3>1. \A b \in 0 .. to : b > a => to - b <= k
      BY <1>0, <2>2
    <3>2. \A b \in 0 .. to : b > a => W(b) = to - b
      BY <1>4, <3>1
    <3> QED
      BY <1>1, <1>2, <3>2
  <2> QED
    BY <2>1, <2>2
<1>5. to \in T
  <2>1. to \in 0 .. to
    BY <1>0
  <2> HIDE DEF T
  <2> QED
    BY <1>0, <1>3, <1>4, <2>1, UpTo
<1>6. W(from) = to - from
  BY <1>0, <1>5
<1> QED
  BY <1>6 DEF W

(***************************************************************************)
(* The operators of Bytecode are those that StackMachine takes from it.    *)
(***************************************************************************)
LEMMA SameSizes == \A i : Machine!ArgSize(i) = ArgSize(i)
BY Zenon DEF Machine!ArgSize, ArgSize, Machine!SizeOf, SizeOf, Machine!Jumps, Jumps

LEMMA SameOperations ==
  /\ Machine!Operations = Operations /\ Machine!OnInts = OnInts
  /\ Machine!FloatArithmetic = FloatArithmetic
BY Zenon DEF
  Machine!Operations, Operations, Machine!OnInts, OnInts,
  Machine!IntArithmetic, IntArithmetic, Machine!IntComparison, IntComparison,
  Machine!Logic, Logic, Machine!FloatArithmetic, FloatArithmetic,
  Machine!FloatComparison, FloatComparison

LEMMA SameOperandType ==
  ASSUME NEW op
  PROVE  Machine!OperandType(op) = OperandType(op)
BY SameOperations DEF Machine!OperandType, OperandType

LEMMA SameApplied ==
  ASSUME NEW op, NEW a, NEW b
  PROVE  Machine!Applied(op, a, b) = Applied(op, a, b)
BY SameOperations, Zenon DEF Machine!Applied, Applied, Machine!Operands, Operands

LEMMA SameDivision ==
  ASSUME NEW op, NEW a, NEW b
  PROVE  Machine!Divides0(op, a, b) <=> Divides0(op, a, b)
BY Zenon DEF Machine!Divides0, Divides0, Machine!Operands, Operands

LEMMA SameSum ==
  ASSUME NEW records, NEW f
  PROVE  Machine!FieldSum(records, f) = FieldSum(records, f)
BY Zenon DEF Machine!FieldSum, FieldSum

LEMMA SameInstruction ==
  /\ Machine!instr = instr /\ Machine!opcode = instr[1] /\ Machine!arg = arg
  /\ Machine!Following = Following
  /\ Machine!Running = Running /\ \A v : Machine!Returned(v) = Returned(v)
BY SameSizes, Zenon DEF Machine!instr, instr, Machine!opcode, Machine!arg, arg,
  Machine!Following, Following, Machine!Running, Running, Machine!Returned, Returned

(***************************************************************************)
(* What the heap keeps of a variable, whatever is stored to it: a number   *)
(* starts where its value is, so that no name runs into it; the third and  *)
(* fourth byte of a float never start one; and only n1 is an array.        *)
(***************************************************************************)
HeapOK ==
  \A k \in DOMAIN variable_regs :
    /\ mem[variable_regs[k].location][1] \in {"int", "float"}
    /\ variable_regs[k].type = "user" => variable_regs[k].length >= 1
    /\ variable_regs[k].type # "user" => variable_regs[k].length = 0
    /\ variable_regs[k].type = "float" =>
         \A i \in 2 .. 3 : mem[variable_regs[k].location + i][3] # 0

MachineInv == MemInv /\ RestOK /\ HeapOK

LEMMA VariableLies ==
  ASSUME MemInv, NEW k \in DOMAIN variable_regs, NEW reg, reg = variable_regs[k]
  PROVE  /\ reg \in Variable /\ reg.name \in Nat /\ reg.location \in Nat /\ End(reg) \in Nat
         /\ reg.name < reg.location /\ reg.location + 2 <= End(reg)
         /\ reg.type = "float" => reg.location + 4 <= End(reg)
         /\ End(reg) <= heap_ptr /\ heap_ptr <= STACK_SIZE
         /\ heap_ptr \in Nat /\ STACK_SIZE \in Nat
         /\ Elements(reg) \in Nat /\ Elements(reg) >= 1
         /\ reg.length \in Nat
<1>1. /\ reg \in Variable /\ reg.name < reg.location /\ End(reg) <= heap_ptr
      /\ heap_ptr <= STACK_SIZE /\ heap_ptr \in Nat /\ STACK_SIZE \in Nat
  BY LenProperties, ElementOfSeq, VMAssumption DEF MemInv, MemoryDisjoint
<1>2. End(reg) \in Nat /\ End(reg) >= reg.location + 2
  BY <1>1, EndOf
<1>3. reg.name \in Nat /\ reg.location \in Nat /\ reg.length \in nint /\ reg.length >= 0
  BY <1>1 DEF Variable
<1>4. reg.length \in Nat
  <2>1. reg.length \in Int
    BY <1>3, BytecodeAssumption
  <2> QED
    BY ONLY <1>3, <2>1
<1>5. Elements(reg) \in Nat /\ Elements(reg) >= 1
  BY <1>4 DEF Elements
<1>6. reg.type = "float" => reg.location + 4 <= End(reg)
  <2> SUFFICES ASSUME reg.type = "float" PROVE reg.location + 4 <= End(reg)
    OBVIOUS
  <2>1. variable_type_size(reg.type) = 4
    BY DEF variable_type_size, SizeOf
  <2>2. Elements(reg) * 4 >= 4 /\ Elements(reg) * 4 \in Nat
    BY <1>5, ProductAtLeast
  <2> QED
    BY <1>3, <2>1, <2>2 DEF End
<1> QED
  BY <1>1, <1>2, <1>3, <1>4, <1>5, <1>6

LEMMA VariablesApart ==
  ASSUME MemInv, NEW k \in DOMAIN variable_regs, NEW l \in DOMAIN variable_regs, k # l
  PROVE  \/ End(variable_regs[k]) <= variable_regs[l].name
         \/ End(variable_regs[l]) <= variable_regs[k].name
<1>1. DOMAIN variable_regs = 1 .. Len(variable_regs) /\ Len(variable_regs) \in Nat
  BY LenProperties DEF MemInv
<1>2. k < l \/ l < k
  BY <1>1
<1> QED
  BY <1>2 DEF MemInv, MemoryDisjoint

\* A value that is written, and what is not written over.
LEMMA WrittenSpells ==
  ASSUME NEW a \in Nat, NEW type \in {"int", "float"}, NEW worth, a + SizeOf(type) <= STACK_SIZE
  PROVE  /\ Spells(Written(a, Bytes(<<type, worth>>)), a, type, worth)
         /\ \A b \in Address : b < a \/ b >= a + SizeOf(type) =>
              Written(a, Bytes(<<type, worth>>))[b] = mem[b]
<1> DEFINE bytes == Bytes(<<type, worth>>)
<1>1. IsBytes(bytes) /\ Len(bytes) = SizeOf(type) /\ SizeOf(type) \in {2, 4}
  BY BytesOfValue, Sizes
<1>2. DOMAIN bytes = 1 .. SizeOf(type) /\ \A k \in 1 .. SizeOf(type) : bytes[k] = <<type, worth, k - 1>>
  BY DEF Bytes
<1> HIDE DEF bytes
<1>3. ASSUME NEW k \in 0 .. SizeOf(type) - 1
      PROVE  Written(a, bytes)[a + k] = <<type, worth, k>>
  <2>1. a + k \in Address /\ (a + k) - a + 1 = k + 1 /\ k + 1 \in 1 .. SizeOf(type) /\ (k + 1) - 1 = k
    BY <1>1, VMAssumption DEF Address
  <2> QED
    BY <1>2, <2>1 DEF Written
<1>4. \A b \in Address : b < a \/ b >= a + SizeOf(type) => Written(a, bytes)[b] = mem[b]
  BY <1>1, WrittenApart
<1> QED
  BY <1>3, <1>4 DEF Spells, bytes

LEMMA HeapOKInitially == Init => HeapOK
<1> SUFFICES ASSUME Init PROVE HeapOK
  OBVIOUS
<1> DEFINE heap == NameBytes(ArrayName) \o Flatten([k \in DOMAIN Array |-> AllBytes(Array[k])])
<1> DEFINE a == StringSize[ArrayName]
<1>1. /\ variable_regs = <<ArrayReg>> /\ ArrayReg.location = a
      /\ ArrayReg.type = "user" /\ ArrayReg.length = Len(Array)
      /\ mem = [p \in Address |-> IF p + 1 \in DOMAIN heap THEN heap[p + 1] ELSE Junk]
  BY DEF Init, ArrayReg
<1>2. Len(Array) >= 1
  <2> DEFINE V == Seq({"int"} \X nint \cup {"float"} \X nfloat)
  <2>1. Array \in Seq(V) /\ Array # <<>>
    BY VMAssumption
  <2> HIDE DEF V
  <2> QED
    BY ONLY <2>1, EmptySeq
<1>3. heap \in Seq(Byte) /\ Len(heap) > a /\ heap[a + 1][1] = Record[1]
  <2>1. /\ heap \in Seq(Byte) /\ Len(heap) > a
        /\ heap[a + 1] = <<Record[1], Array[1][1][2], 0>>
    BY HeapInitially
  <2> HIDE DEF heap, a
  <2> QED
    BY <2>1
<1> HIDE DEF heap
<1>4. a \in Nat
  BY VMAssumption, Sizes
<1>5. a \in Address
  <2>1. MemInv /\ 1 \in DOMAIN variable_regs /\ ArrayReg = variable_regs[1]
    BY <1>1, MemoryInitially
  <2>2. a + 2 <= End(ArrayReg) /\ End(ArrayReg) <= heap_ptr /\ heap_ptr <= STACK_SIZE
        /\ End(ArrayReg) \in Nat /\ heap_ptr \in Nat /\ STACK_SIZE \in Nat
    BY <1>1, <2>1, VariableLies
  <2> QED
    BY <1>4, <2>2 DEF Address
<1>6. a + 1 \in DOMAIN heap
  BY <1>3, <1>4, LenProperties
<1>7. mem[a][1] \in {"int", "float"}
  <2>1. Record[1] \in {"int", "float"}
    BY RecordLength
  <2> QED
    BY <1>1, <1>3, <1>5, <1>6, <2>1
<1> HIDE DEF a
<1> QED
  BY <1>1, <1>2, <1>7 DEF HeapOK

\* What HeapOK says of the bytes of one variable, in memory m.
KeepsItsBytes(m, reg) ==
  /\ m[reg.location][1] \in {"int", "float"}
  /\ reg.type = "user" => reg.length >= 1
  /\ reg.type # "user" => reg.length = 0
  /\ reg.type = "float" => \A i \in 2 .. 3 : m[reg.location + i][3] # 0

LEMMA HeapOKIs ==
  /\ HeapOK <=> \A k \in DOMAIN variable_regs : KeepsItsBytes(mem, variable_regs[k])
  /\ HeapOK' <=> \A k \in DOMAIN variable_regs' : KeepsItsBytes(mem', variable_regs'[k])
BY DEF HeapOK, KeepsItsBytes

LEMMA HeapKeptOK ==
  ASSUME MemInv, HeapOK, HeapKept, NEW k \in DOMAIN variable_regs
  PROVE  KeepsItsBytes(mem', variable_regs[k])
<1> DEFINE reg == variable_regs[k]
<1>1. /\ reg.location \in Nat /\ reg.location + 2 <= heap_ptr /\ heap_ptr \in Nat
      /\ heap_ptr <= STACK_SIZE /\ STACK_SIZE \in Nat
      /\ reg.type = "float" => reg.location + 4 <= heap_ptr
  BY VariableLies
<1>2. KeepsItsBytes(mem, reg)
  BY HeapOKIs
<1> HIDE DEF reg
<1>3. mem'[reg.location] = mem[reg.location]
  BY <1>1 DEF HeapKept, Address
<1>4. ASSUME reg.type = "float", NEW i \in 2 .. 3
      PROVE  mem'[reg.location + i] = mem[reg.location + i]
  <2>1. reg.location + i \in Address /\ reg.location + i < heap_ptr
    BY <1>1, <1>4 DEF Address
  <2> QED
    BY <2>1 DEF HeapKept
<1>5. KeepsItsBytes(mem', reg)
  BY <1>2, <1>3, <1>4 DEF KeepsItsBytes
<1> QED
  BY <1>5 DEF reg

LEMMA StoreHeapOK ==
  ASSUME MemInv, HeapOK, NEW op, NEW type \in {"int", "float"}, Store(op, type)
  PROVE  HeapOK'
<1>1. CASE mem' = mem
  <2>1. UNCHANGED variable_regs
    BY DEF Store
  <2> QED
    BY <1>1, <2>1 DEF HeapOK
<1>2. CASE mem' # mem
  <2> DEFINE a == get_variable(arg).location
  <2>1. /\ Known(arg) /\ Inside(a, SizeOf(type)) /\ UNCHANGED variable_regs
        /\ \E v : mem' = Written(a, Bytes(<<type, v>>))
    BY <1>2 DEF Store, FailUnchanged, Lose
  <2>2. PICK v : mem' = Written(a, Bytes(<<type, v>>))
    BY <2>1
  <2>3. PICK c \in DOMAIN variable_regs : a = variable_regs[c].location
    BY <2>1, FoundVariable DEF Matching
  <2>4. a \in Nat /\ a + SizeOf(type) <= STACK_SIZE
    BY <2>1, <2>3, VariableLies DEF Inside
  <2> HIDE DEF a
  <2>5. Spells(mem', a, type, v)
    BY <2>2, <2>4, WrittenSpells
  <2>6. \A b \in Address : b < a \/ b >= a + SizeOf(type) => mem'[b] = mem[b]
    BY <2>2, <2>4, WrittenSpells
  <2>7. SizeOf(type) \in {2, 4}
    BY Sizes
  <2>8. ASSUME NEW b \in Address
        PROVE  \/ mem'[b] = mem[b]
               \/ b - a \in Nat /\ mem'[b] = <<type, v, b - a>>
    <3>1. CASE b < a \/ b >= a + SizeOf(type)
      BY <2>6, <3>1
    <3>2. CASE b >= a /\ b < a + SizeOf(type)
      <4>1. b - a \in 0 .. SizeOf(type) - 1 /\ a + (b - a) = b
        BY <2>4, <2>7, <3>2, VMAssumption DEF Address
      <4> QED
        BY <2>5, <4>1 DEF Spells
    <3> QED
      BY <2>4, <2>7, <3>1, <3>2, VMAssumption DEF Address
  <2>9. ASSUME NEW k \in DOMAIN variable_regs
        PROVE  KeepsItsBytes(mem', variable_regs[k])
    <3> DEFINE reg == variable_regs[k]
    <3>1. /\ reg.name \in Nat /\ reg.location \in Nat /\ reg.location + 2 <= End(reg)
          /\ End(reg) \in Nat /\ End(reg) <= STACK_SIZE
          /\ reg.name < reg.location /\ STACK_SIZE \in Nat
          /\ reg.type = "float" => reg.location + 4 <= End(reg)
      BY VariableLies
    <3>2. KeepsItsBytes(mem, reg)
      BY HeapOKIs
    <3>3. reg.location # a => a < reg.location \/ a >= End(reg)
      <4>1. CASE k = c
        BY <2>3, <4>1
      <4>2. CASE k # c
        <5>1. \/ End(variable_regs[k]) <= variable_regs[c].name
              \/ End(variable_regs[c]) <= variable_regs[k].name
          BY <4>2, VariablesApart
        <5>2. /\ variable_regs[c].name \in Nat /\ End(variable_regs[c]) \in Nat
              /\ variable_regs[c].name < a /\ a + 2 <= End(variable_regs[c])
          BY <2>3, VariableLies
        <5> QED
          BY <2>4, <3>1, <5>1, <5>2
      <4> QED
        BY <4>1, <4>2
    <3> HIDE DEF reg
    <3>4. mem'[reg.location][1] \in {"int", "float"}
      <4>1. reg.location \in Address
        BY <3>1 DEF Address
      <4> QED
        BY <2>8, <3>2, <4>1 DEF KeepsItsBytes
    <3>5. ASSUME reg.type = "float", NEW i \in 2 .. 3
          PROVE  mem'[reg.location + i][3] # 0
      <4>1. reg.location + i \in Address
        BY <3>1, <3>5 DEF Address
      <4>2. mem[reg.location + i][3] # 0
        BY <3>2, <3>5 DEF KeepsItsBytes
      <4>3. (reg.location + i) - a # 0
        <5>1. reg.location + 4 <= End(reg) /\ reg.location \in Nat /\ End(reg) \in Nat
          BY <3>1, <3>5
        <5>2. i \in {2, 3}
          OBVIOUS
        <5>3. CASE reg.location = a
          BY <2>4, <5>2, <5>3
        <5>4. CASE a < reg.location
          BY <2>4, <5>1, <5>2, <5>4
        <5>5. CASE a >= End(reg)
          BY <2>4, <5>1, <5>2, <5>5
        <5> QED
          BY <3>3, <5>3, <5>4, <5>5
      <4> QED
        BY <2>8, <4>1, <4>2, <4>3
    <3>6. KeepsItsBytes(mem', reg)
      BY <3>2, <3>4, <3>5 DEF KeepsItsBytes
    <3> QED
      BY <3>6 DEF reg
  <2> QED
    BY <2>1, <2>9, HeapOKIs
<1> QED
  BY <1>1, <1>2

(***************************************************************************)
(* Names.                                                                  *)
(***************************************************************************)
NameAt(m, reg, x) ==
  /\ reg.name + StringSize[x] <= STACK_SIZE
  /\ \A i \in 0 .. StringSize[x] - 1 : m[reg.name + i] = <<"name", x, i>>

Zero(type) == <<type, IF type = "int" THEN 0 ELSE FloatOf(0)>>

\* The variable a CreateVariable makes, with its name and its value.
LEMMA Created ==
  ASSUME MemInv, NEW op \in {"IVAR", "FVAR"}, NEW type \in {"int", "float"},
         CreateVariable(op, type), variable_regs' # variable_regs,
         NEW reg, reg = [name |-> heap_ptr, location |-> heap_ptr + StringSize[arg],
                         type |-> type, length |-> 0]
  PROVE  /\ arg \in Name /\ reg \in Variable
         /\ Continue(Following) /\ UNCHANGED <<stack_ptr, error>>
         /\ heap_ptr' = End(reg) /\ End(reg) = reg.location + SizeOf(type)
         /\ End(reg) \in Nat /\ End(reg) <= stack_ptr
         /\ DOMAIN variable_regs' = 1 .. Len(variable_regs) + 1
         /\ DOMAIN variable_regs = 1 .. Len(variable_regs) /\ Len(variable_regs) \in Nat
         /\ \A k \in 1 .. Len(variable_regs) : variable_regs'[k] = variable_regs[k]
         /\ variable_regs'[Len(variable_regs) + 1] = reg
         /\ NameAt(mem', reg, arg)
         /\ Spells(mem', reg.location, type, Zero(type)[2])
         /\ \A b \in Address : b < heap_ptr \/ b >= heap_ptr' => mem'[b] = mem[b]
<1> DEFINE n == StringSize[arg]
<1> DEFINE size == SizeOf(type)
<1> DEFINE bytes == NameBytes(arg) \o Bytes(Zero(type))
<1>1. arg \in Name
  BY DEF CreateVariable, Fetching, MemInv, IsCode, instr, arg, OnVariables
<1>2. n \in Nat /\ n >= 1 /\ size \in {2, 4} /\ variable_type_size(type) = size
  BY <1>1, Sizes DEF variable_type_size
<1>3. /\ heap_alloc(n + size) /\ Continue(Following)
      /\ heap_ptr' = heap_ptr + n + size
      /\ mem' = Written(heap_ptr, bytes)
      /\ variable_regs' = Append(variable_regs, reg)
      /\ UNCHANGED <<stack_ptr, error>>
  BY <1>2 DEF CreateVariable, Zero
<1>4. heap_ptr \in Nat /\ stack_ptr \in Nat /\ heap_ptr + n + size <= stack_ptr /\ stack_ptr <= STACK_SIZE
  BY <1>2, <1>3 DEF MemInv, MemoryDisjoint, heap_alloc
<1>5. reg \in Variable /\ reg.name = heap_ptr /\ reg.location = heap_ptr + n /\ reg.type = type /\ reg.length = 0
  BY <1>2, <1>4, BytecodeAssumption DEF Variable
<1>6. End(reg) = reg.location + size /\ End(reg) = heap_ptr + n + size
  BY <1>2, <1>4, <1>5 DEF End, Elements
<1>7. /\ DOMAIN variable_regs' = 1 .. Len(variable_regs) + 1
      /\ DOMAIN variable_regs = 1 .. Len(variable_regs) /\ Len(variable_regs) \in Nat
      /\ \A k \in 1 .. Len(variable_regs) : variable_regs'[k] = variable_regs[k]
      /\ variable_regs'[Len(variable_regs) + 1] = reg
  BY <1>3, <1>5, LenProperties, AppendProperties DEF MemInv
<1>8. /\ IsBytes(bytes) /\ Len(bytes) = n + size
      /\ \A i \in 1 .. n : bytes[i] = <<"name", arg, i - 1>>
      /\ \A i \in 1 .. size : bytes[n + i] = <<type, Zero(type)[2], i - 1>>
  <2> DEFINE s == NameBytes(arg)
  <2> DEFINE t == Bytes(Zero(type))
  <2> DEFINE S == {s[k] : k \in 1 .. n} \cup {t[k] : k \in 1 .. size}
  <2>1. \A k \in 1 .. n : s[k] = <<"name", arg, k - 1>>
    BY DEF NameBytes
  <2>2. \A k \in 1 .. size : t[k] = <<type, Zero(type)[2], k - 1>>
    BY DEF Bytes, Zero
  <2>3. s = [k \in 1 .. n |-> s[k]] /\ t = [k \in 1 .. size |-> t[k]]
    BY DEF NameBytes, Bytes, Zero
  <2>4. size \in Nat /\ IsBytes(bytes)
    BY <1>1, <1>2, BytesOfVariable
  <2> HIDE DEF s, t, n, size
  <2>5. /\ \A k \in 1 .. n : s[k] \in S
        /\ \A k \in 1 .. size : t[k] \in S
    OBVIOUS
  <2> HIDE DEF S
  <2>6. s \in Seq(S) /\ t \in Seq(S)
    BY <1>2, <2>3, <2>4, <2>5, SeqOf
  <2>7. Len(s) = n /\ Len(t) = size
    BY <1>2, <2>3, <2>4, LengthOf
  <2>8. Len(s \o t) = n + size /\ \A i \in 1 .. n + size : (s \o t)[i] = IF i <= n THEN s[i] ELSE t[i - n]
    BY <2>6, <2>7, ConcatProperties
  <2>9. ASSUME NEW i \in 1 .. n
        PROVE  (s \o t)[i] = <<"name", arg, i - 1>>
    <3>1. i \in 1 .. n + size /\ i <= n
      BY <1>2, <2>4
    <3> QED
      BY <2>1, <2>8, <3>1
  <2>10. ASSUME NEW i \in 1 .. size
         PROVE  (s \o t)[n + i] = <<type, Zero(type)[2], i - 1>>
    <3>1. n + i \in 1 .. n + size /\ ~(n + i <= n) /\ (n + i) - n = i
      BY <1>2, <2>4
    <3> QED
      BY <2>2, <2>8, <3>1
  <2> QED
    BY <2>4, <2>8, <2>9, <2>10 DEF s, t
<1> HIDE DEF bytes, n, size
<1>9. ASSUME NEW i \in 0 .. (n + size) - 1
      PROVE  mem'[heap_ptr + i] = bytes[i + 1]
  <2>1. heap_ptr + i \in Address /\ (heap_ptr + i) - heap_ptr + 1 = i + 1 /\ i + 1 \in 1 .. n + size
    BY <1>2, <1>4, VMAssumption DEF Address
  <2>2. DOMAIN bytes = 1 .. n + size
    BY <1>8 DEF IsBytes
  <2> QED
    BY <1>3, <2>1, <2>2 DEF Written
<1>10. NameAt(mem', reg, arg)
  <2>1. heap_ptr + n <= STACK_SIZE
    BY <1>2, <1>4, VMAssumption
  <2>2. ASSUME NEW i \in 0 .. n - 1
        PROVE  mem'[heap_ptr + i] = <<"name", arg, i>>
    <3>1. i \in 0 .. (n + size) - 1 /\ i + 1 \in 1 .. n /\ (i + 1) - 1 = i
      BY <1>2
    <3> QED
      BY <1>8, <1>9, <3>1
  <2> QED
    BY <1>5, <2>1, <2>2 DEF NameAt, n
<1>11. Spells(mem', reg.location, type, Zero(type)[2])
  <2> SUFFICES ASSUME NEW i \in 0 .. size - 1
               PROVE  mem'[reg.location + i] = <<type, Zero(type)[2], i>>
    BY DEF Spells, size
  <2>1. /\ n + i \in 0 .. (n + size) - 1 /\ i + 1 \in 1 .. size /\ (i + 1) - 1 = i
        /\ (n + i) + 1 = n + (i + 1) /\ heap_ptr + (n + i) = heap_ptr + n + i
    BY <1>2, <1>4
  <2>2. mem'[heap_ptr + (n + i)] = bytes[n + (i + 1)]
    BY <1>9, <2>1
  <2> QED
    BY <1>5, <1>8, <2>1, <2>2
<1>12. \A b \in Address : b < heap_ptr \/ b >= heap_ptr' => mem'[b] = mem[b]
  <2>1. heap_ptr + Len(bytes) = heap_ptr'
    BY <1>2, <1>3, <1>4, <1>8
  <2> QED
    BY <1>3, <1>4, <1>8, <2>1, WrittenApart
<1>13. /\ heap_ptr' = End(reg) /\ End(reg) = reg.location + SizeOf(type)
       /\ End(reg) \in Nat /\ End(reg) <= stack_ptr
  BY <1>2, <1>3, <1>4, <1>6 DEF size
<1> QED
  BY <1>1, <1>3, <1>5, <1>7, <1>10, <1>11, <1>12, <1>13

LEMMA CreateHeapOK ==
  ASSUME MemInv, HeapOK, NEW op \in {"IVAR", "FVAR"}, NEW type \in {"int", "float"},
         CreateVariable(op, type)
  PROVE  HeapOK'
<1>1. HeapKept
  BY CreateKeeps
<1>2. CASE variable_regs' = variable_regs
  BY <1>1, <1>2, HeapKeptOK, HeapOKIs
<1>3. CASE variable_regs' # variable_regs
  <2> DEFINE reg == [name |-> heap_ptr, location |-> heap_ptr + StringSize[arg],
                     type |-> type, length |-> 0]
  <2>1. /\ DOMAIN variable_regs' = 1 .. Len(variable_regs) + 1
        /\ DOMAIN variable_regs = 1 .. Len(variable_regs) /\ Len(variable_regs) \in Nat
        /\ \A k \in 1 .. Len(variable_regs) : variable_regs'[k] = variable_regs[k]
        /\ variable_regs'[Len(variable_regs) + 1] = reg
        /\ reg \in Variable
        /\ Spells(mem', reg.location, type, Zero(type)[2])
    BY <1>3, Created
  <2>2. reg.type = type /\ reg.length = 0
    OBVIOUS
  <2> HIDE DEF reg
  <2>3. KeepsItsBytes(mem', reg)
    <3>1. reg.location \in Nat /\ reg.location + 0 = reg.location
      BY <2>1 DEF Variable
    <3>2. 0 \in 0 .. SizeOf(type) - 1 /\ (type = "float" => \A i \in 2 .. 3 : i \in 0 .. SizeOf(type) - 1)
      BY Sizes
    <3>3. mem'[reg.location] = <<type, Zero(type)[2], 0>>
      BY <2>1, <3>1, <3>2 DEF Spells
    <3>4. type = "float" => \A i \in 2 .. 3 : mem'[reg.location + i] = <<type, Zero(type)[2], i>>
      BY <2>1, <3>2 DEF Spells
    <3>5. type = "float" => \A i \in 2 .. 3 : mem'[reg.location + i][3] # 0
      BY <3>4
    <3> QED
      BY <2>2, <3>3, <3>5 DEF KeepsItsBytes
  <2>4. ASSUME NEW k \in DOMAIN variable_regs'
        PROVE  KeepsItsBytes(mem', variable_regs'[k])
    <3>1. CASE k \in 1 .. Len(variable_regs)
      BY <1>1, <2>1, <3>1, HeapKeptOK
    <3>2. CASE k = Len(variable_regs) + 1
      BY <2>1, <2>3, <3>2
    <3> QED
      BY <2>1, <3>1, <3>2
  <2> QED
    BY <2>4, HeapOKIs
<1> QED
  BY <1>2, <1>3

\* It holds, as MemoryDisjoint does, of every program.
LEMMA HeapOKStep ==
  ASSUME MemInv, HeapOK, [Next]_vars
  PROVE  HeapOK'
<1>1. ASSUME HeapKept, UNCHANGED variable_regs
      PROVE  HeapOK'
  BY <1>1, HeapKeptOK, HeapOKIs
<1>2. CASE Push \/ IPop \/ FPop \/ Cast("ICASTF", "int") \/ Cast("FCASTI", "float")
  <2>1. UNCHANGED variable_regs
    BY <1>2 DEF Push, IPop, FPop, Cast
  <2> QED
    BY <1>1, <1>2, <2>1, PlainKeep
<1>3. CASE Operation \/ InPlace
  <2>1. UNCHANGED variable_regs
    BY <1>3 DEF Operation, InPlace
  <2> QED
    BY <1>1, <1>3, <2>1, OperateKeeps
<1>4. CASE \/ Fetch("IFETCH", "int") \/ Fetch("FFETCH", "float")
           \/ ArrayFetch \/ ArrayLength \/ ArraySum \/ Call
  <2>1. UNCHANGED variable_regs
    BY <1>4 DEF Fetch, ArrayFetch, ArrayLength, ArraySum, Call
  <2> QED
    BY <1>1, <1>4, <2>1, ReadKeeps
<1>5. CASE Jump \/ JumpIf \/ Halt \/ EndOfProgram \/ Astray
  <2>1. UNCHANGED variable_regs
    BY <1>5 DEF Jump, JumpIf, Halt, EndOfProgram, Astray
  <2> QED
    BY <1>1, <1>5, <2>1, ControlKeeps
<1>6. CASE CreateVariable("IVAR", "int") \/ CreateVariable("FVAR", "float")
  BY <1>6, CreateHeapOK
<1>7. CASE Store("ISTORE", "int") \/ Store("FSTORE", "float")
  BY <1>7, StoreHeapOK
<1>8. CASE UNCHANGED vars
  BY <1>8 DEF vars, HeapOK
<1> QED
  BY <1>2, <1>3, <1>4, <1>5, <1>6, <1>7, <1>8 DEF Next

LEMMA MachineInvariant == Spec => []MachineInv
<1>1. Init => MachineInv
  BY MemoryInitially, TypesInitially, HeapOKInitially DEF MachineInv
<1>2. MachineInv /\ [Next]_vars => MachineInv'
  BY EveryStep, EveryStepTyped, HeapOKStep DEF MachineInv
<1> QED
  BY <1>1, <1>2, PTL DEF Spec

(***************************************************************************)
(* The variables that names stand for, and what they hold.                 *)
(***************************************************************************)
ElementsIn(m, reg) ==
  [k \in 1 .. Elements(reg) |->
     DecodeIn(m, reg.location + (k - 1) * variable_type_size(reg.type),
              reg.location + k * variable_type_size(reg.type))]

Cell(m, reg) == [elems |-> ElementsIn(m, reg), length |-> reg.length]

LEMMA ContentsAre ==
  /\ Contents = [x \in {n \in Name : Known(n)} |-> Cell(mem, get_variable(x))]
  /\ Contents' = [x \in {n \in Name : Known(n)'} |-> Cell(mem', get_variable(x)')]
BY Zenon DEF Contents, Cell, ElementsIn, ElementsOf, Elements, variable_type_size,
  Decode, DecodeIn, Decodes, FromHere, IsWhole, Item, NoItem, ReadBytes

HasNameIn(m, reg, x) ==
  /\ Inside(reg.name, StringSize[x])
  /\ [k \in 1 .. StringSize[x] |-> m[reg.name + k - 1]] = NameBytes(x)

LEMMA NameBytesAre ==
  ASSUME NEW m, NEW reg, reg.name \in Nat, NEW x \in Name
  PROVE  HasNameIn(m, reg, x) <=> NameAt(m, reg, x)
<1> DEFINE n == StringSize[x]
<1> DEFINE f == [k \in 1 .. n |-> m[reg.name + k - 1]]
<1>1. n \in Nat
  BY Sizes
<1>2. NameBytes(x) = [k \in 1 .. n |-> <<"name", x, k - 1>>]
  BY DEF NameBytes
<1> HIDE DEF n
<1>3. ASSUME f = [k \in 1 .. n |-> <<"name", x, k - 1>>], NEW k \in 0 .. n - 1
      PROVE  m[reg.name + k] = <<"name", x, k>>
  <2>1. k + 1 \in 1 .. n /\ reg.name + (k + 1) - 1 = reg.name + k /\ (k + 1) - 1 = k
    BY <1>1
  <2>2. f[k + 1] = m[reg.name + (k + 1) - 1]
    BY <2>1
  <2>3. f[k + 1] = <<"name", x, (k + 1) - 1>>
    BY <1>3, <2>1, Zenon
  <2> QED
    BY <2>1, <2>2, <2>3
<1>4. ASSUME \A k \in 0 .. n - 1 : m[reg.name + k] = <<"name", x, k>>
      PROVE  f = [k \in 1 .. n |-> <<"name", x, k - 1>>]
  <2>1. ASSUME NEW k \in 1 .. n
        PROVE  m[reg.name + k - 1] = <<"name", x, k - 1>>
    <3>1. k - 1 \in 0 .. n - 1 /\ reg.name + (k - 1) = reg.name + k - 1
      BY <1>1
    <3> QED
      BY <1>4, <3>1
  <2> QED
    BY <2>1
<1>5. Inside(reg.name, n) <=> reg.name + n <= STACK_SIZE
  BY DEF Inside
<1> QED
  BY <1>2, <1>3, <1>4, <1>5 DEF HasNameIn, NameAt, n

LEMMA MatchingIs ==
  ASSUME MemInv, MemInv', NEW x \in Name
  PROVE  /\ Matching(x) = {k \in DOMAIN variable_regs : NameAt(mem, variable_regs[k], x)}
         /\ Matching(x)' = {k \in DOMAIN variable_regs' : NameAt(mem', variable_regs'[k], x)}
<1>1. /\ Matching(x) = {k \in DOMAIN variable_regs : HasNameIn(mem, variable_regs[k], x)}
      /\ Matching(x)' = {k \in DOMAIN variable_regs' : HasNameIn(mem', variable_regs'[k], x)}
  BY Zenon DEF Matching, HasName, HasNameIn, ReadBytes
<1>2. \A k \in DOMAIN variable_regs : variable_regs[k].name \in Nat
  BY VariableLies
<1>3. \A k \in DOMAIN variable_regs' : variable_regs'[k].name \in Nat
  <2> SUFFICES ASSUME NEW k \in DOMAIN variable_regs' PROVE variable_regs'[k].name \in Nat
    OBVIOUS
  <2>1. variable_regs' \in Seq(Variable)
    BY DEF MemInv
  <2>2. variable_regs'[k] \in Variable
    BY <2>1, ElementOfSeq, LenProperties
  <2> QED
    BY <2>2 DEF Variable
<1>4. ASSUME NEW k \in DOMAIN variable_regs
      PROVE  HasNameIn(mem, variable_regs[k], x) <=> NameAt(mem, variable_regs[k], x)
  BY <1>2, NameBytesAre
<1>5. ASSUME NEW k \in DOMAIN variable_regs'
      PROVE  HasNameIn(mem', variable_regs'[k], x) <=> NameAt(mem', variable_regs'[k], x)
  BY <1>3, NameBytesAre
<1> QED
  BY <1>1, <1>4, <1>5

\* A name stops before the value it belongs to.
LEMMA NameStops ==
  ASSUME NEW m, NEW reg, reg.name \in Nat, reg.location \in Nat, reg.name < reg.location,
         NEW x \in Name, NameAt(m, reg, x), m[reg.location][1] \in {"int", "float"}
  PROVE  reg.name + StringSize[x] <= reg.location
<1>1. StringSize[x] \in Nat
  BY Sizes
<1> SUFFICES ASSUME reg.name + StringSize[x] > reg.location PROVE FALSE
  BY <1>1
<1>2. /\ reg.location - reg.name \in 0 .. StringSize[x] - 1
      /\ reg.name + (reg.location - reg.name) = reg.location
  BY <1>1
<1>3. m[reg.location] = <<"name", x, reg.location - reg.name>>
  BY <1>2 DEF NameAt
<1> QED
  BY <1>3

LEMMA NameKept ==
  ASSUME NEW m1, NEW m2, NEW reg, reg.name \in Nat, reg.location \in Nat,
         reg.name < reg.location, NEW x \in Name,
         m1[reg.location][1] \in {"int", "float"},
         \A b \in reg.name .. reg.location - 1 : m1[b] = m2[b],
         NameAt(m1, reg, x)
  PROVE  NameAt(m2, reg, x)
<1>1. reg.name + StringSize[x] <= reg.location /\ StringSize[x] \in Nat
  BY NameStops, Sizes
<1>2. \A i \in 0 .. StringSize[x] - 1 : reg.name + i \in reg.name .. reg.location - 1
  BY <1>1
<1> QED
  BY <1>2 DEF NameAt

LEMMA OneName ==
  ASSUME NEW m, NEW reg, reg.name \in Nat, NEW x \in Name, NEW y \in Name,
         NameAt(m, reg, x), NameAt(m, reg, y)
  PROVE  x = y
<1>1. /\ 0 \in 0 .. StringSize[x] - 1 /\ 0 \in 0 .. StringSize[y] - 1
      /\ reg.name + 0 = reg.name
  BY Sizes
<1>2. m[reg.name] = <<"name", x, 0>> /\ m[reg.name] = <<"name", y, 0>>
  BY <1>1 DEF NameAt
<1> QED
  BY <1>2

\* An element of a variable lies inside of it.
LEMMA ElementLies ==
  ASSUME NEW reg, reg.location \in Nat, Elements(reg) \in Nat,
         End(reg) \in Nat, End(reg) <= STACK_SIZE, NEW k \in 1 .. Elements(reg),
         NEW s, s = variable_type_size(reg.type), NEW from, from = reg.location + (k - 1) * s
  PROVE  /\ s \in Nat /\ s >= 2 /\ from \in Nat /\ from >= reg.location
         /\ reg.location + k * s = from + s /\ from + s <= End(reg)
         /\ from + s \in 0 .. STACK_SIZE /\ from \in 0 .. from + s
<1>1. s \in Nat /\ s >= 2
  BY Sizes
<1>2. k - 1 \in Nat /\ k - 1 < Elements(reg)
  OBVIOUS
<1>3. (k - 1) * s \in Nat /\ (k - 1) * s + s <= Elements(reg) * s /\ Elements(reg) * s \in Nat
  BY <1>1, <1>2, ElementInside
<1>4. k * s = (k - 1) * s + s
  BY <1>1
<1>5. End(reg) = reg.location + Elements(reg) * s
  BY DEF End
<1>6. STACK_SIZE \in Nat
  BY VMAssumption
<1> DEFINE p == (k - 1) * s
<1> DEFINE e == Elements(reg) * s
<1>7. /\ p \in Nat /\ p + s <= e /\ e \in Nat /\ k * s = p + s
      /\ from = reg.location + p /\ End(reg) = reg.location + e
  BY <1>3, <1>4, <1>5
<1> HIDE DEF p, e
<1>8. reg.location + k * s = from + s
  BY <1>1, <1>7
<1> QED
  BY ONLY <1>1, <1>6, <1>7, <1>8, reg.location \in Nat, End(reg) <= STACK_SIZE

LEMMA ElementsSame ==
  ASSUME NEW m1 \in Memory, NEW m2 \in Memory, NEW reg, reg.location \in Nat,
         Elements(reg) \in Nat, End(reg) \in Nat, End(reg) <= STACK_SIZE,
         \A b \in reg.location .. End(reg) - 1 : m1[b] = m2[b]
  PROVE  ElementsIn(m1, reg) = ElementsIn(m2, reg)
<1> DEFINE s == variable_type_size(reg.type)
<1> SUFFICES ASSUME NEW k \in 1 .. Elements(reg)
             PROVE  DecodeIn(m1, reg.location + (k - 1) * s, reg.location + k * s)
                      = DecodeIn(m2, reg.location + (k - 1) * s, reg.location + k * s)
  BY DEF ElementsIn
<1> DEFINE from == reg.location + (k - 1) * s
<1>1. /\ s \in Nat /\ from \in Nat /\ from >= reg.location
      /\ reg.location + k * s = from + s /\ from + s <= End(reg)
      /\ from + s \in 0 .. STACK_SIZE /\ from \in 0 .. from + s
  BY ElementLies
<1> HIDE DEF from, s
<1>2. \A i \in 0 .. ((from + s) - from) - 1 : m1[from + i] = m2[from + i]
  <2> SUFFICES ASSUME NEW i \in 0 .. ((from + s) - from) - 1
               PROVE  m1[from + i] = m2[from + i]
    OBVIOUS
  <2>1. from + i \in reg.location .. End(reg) - 1
    BY <1>1
  <2> QED
    BY <2>1
<1>3. DecodeIn(m1, from, from + s) = DecodeIn(m2, from, from + s)
  BY <1>1, <1>2, DecodeAlike
<1> QED
  BY <1>1, <1>3 DEF from

NamesKept ==
  \A k \in DOMAIN variable_regs :
    \A b \in variable_regs[k].name .. variable_regs[k].location - 1 : mem'[b] = mem[b]

\* The same variables have the same names as long as the bytes of the names are kept.
LEMMA VariablesSame ==
  ASSUME MemInv, MemInv', HeapOK, HeapOK', UNCHANGED variable_regs, NamesKept, NEW x \in Name
  PROVE  /\ Matching(x)' = Matching(x)
         /\ Known(x)' <=> Known(x)
         /\ get_variable(x)' = get_variable(x)
<1>1. ASSUME NEW k \in DOMAIN variable_regs
      PROVE  NameAt(mem, variable_regs[k], x) <=> NameAt(mem', variable_regs[k], x)
  <2> DEFINE reg == variable_regs[k]
  <2>1. reg.name \in Nat /\ reg.location \in Nat /\ reg.name < reg.location
    BY VariableLies
  <2>2. mem[reg.location][1] \in {"int", "float"} /\ mem'[reg.location][1] \in {"int", "float"}
    BY HeapOKIs DEF KeepsItsBytes
  <2>3. \A b \in reg.name .. reg.location - 1 : mem[b] = mem'[b]
    BY DEF NamesKept
  <2> HIDE DEF reg
  <2>4. NameAt(mem, reg, x) => NameAt(mem', reg, x)
    BY <2>1, <2>2, <2>3, NameKept
  <2>5. NameAt(mem', reg, x) => NameAt(mem, reg, x)
    BY <2>1, <2>2, <2>3, NameKept
  <2> QED
    BY <2>4, <2>5 DEF reg
<1>2. Matching(x)' = Matching(x)
  BY <1>1, MatchingIs
<1>3. Known(x)' <=> Known(x)
  BY <1>2 DEF Known
<1>4. get_variable(x)' = get_variable(x)
  BY <1>2, Zenon DEF get_variable
<1> QED
  BY <1>2, <1>3, <1>4

VariablesKept ==
  \A k \in DOMAIN variable_regs :
    \A b \in variable_regs[k].name .. End(variable_regs[k]) - 1 : mem'[b] = mem[b]

\* What a variable holds.
LEMMA CellSame ==
  ASSUME MemInv, NEW m1 \in Memory, NEW m2 \in Memory, NEW k \in DOMAIN variable_regs,
         NEW reg, reg = variable_regs[k],
         \A b \in reg.location .. End(reg) - 1 : m1[b] = m2[b]
  PROVE  Cell(m1, reg) = Cell(m2, reg)
<1>1. /\ reg.location \in Nat /\ Elements(reg) \in Nat
      /\ End(reg) \in Nat /\ End(reg) <= STACK_SIZE
  BY VariableLies
<1>2. ElementsIn(m1, reg) = ElementsIn(m2, reg)
  BY <1>1, ElementsSame
<1> QED
  BY <1>2 DEF Cell

LEMMA Found ==
  ASSUME MemInv, NEW x, Known(x)
  PROVE  \E k \in DOMAIN variable_regs : k \in Matching(x) /\ get_variable(x) = variable_regs[k]
<1>1. PICK k \in Matching(x) : get_variable(x) = variable_regs[k]
  BY FoundVariable
<1> QED
  BY <1>1 DEF Matching

LEMMA ContentsSame ==
  ASSUME MachineInv, MachineInv', UNCHANGED variable_regs, VariablesKept
  PROVE  Contents' = Contents
<1> USE DEF MachineInv
<1>1. mem \in Memory /\ mem' \in Memory
  BY DEF RestOK, Memory
<1>2. NamesKept
  <2> SUFFICES ASSUME NEW k \in DOMAIN variable_regs,
                      NEW b \in variable_regs[k].name .. variable_regs[k].location - 1
               PROVE  mem'[b] = mem[b]
    BY DEF NamesKept
  <2>1. b \in variable_regs[k].name .. End(variable_regs[k]) - 1
    BY VariableLies
  <2> QED
    BY <2>1 DEF VariablesKept
<1>3. \A x \in Name : (Known(x)' <=> Known(x)) /\ get_variable(x)' = get_variable(x)
  BY <1>2, VariablesSame
<1>4. ASSUME NEW x \in Name, Known(x)
      PROVE  Cell(mem', get_variable(x)') = Cell(mem, get_variable(x))
  <2>1. PICK k \in DOMAIN variable_regs : get_variable(x) = variable_regs[k]
    BY <1>4, Found
  <2>2. \A b \in variable_regs[k].location .. End(variable_regs[k]) - 1 : mem[b] = mem'[b]
    <3> SUFFICES ASSUME NEW b \in variable_regs[k].location .. End(variable_regs[k]) - 1
                 PROVE  mem[b] = mem'[b]
      OBVIOUS
    <3>1. b \in variable_regs[k].name .. End(variable_regs[k]) - 1
      BY VariableLies
    <3> QED
      BY <3>1 DEF VariablesKept
  <2>3. Cell(mem, variable_regs[k]) = Cell(mem', variable_regs[k])
    BY <1>1, <2>2, CellSame
  <2> QED
    BY <1>3, <2>1, <2>3
<1>5. {n \in Name : Known(n)'} = {n \in Name : Known(n)}
  BY <1>3
<1> QED
  BY <1>4, <1>5, ContentsAre

\* An instruction that writes nothing below heap_ptr leaves the variables alone.
LEMMA HeapKeptContents ==
  ASSUME MachineInv, MachineInv', HeapKept, UNCHANGED variable_regs
  PROVE  Contents' = Contents
<1> SUFFICES VariablesKept
  BY ContentsSame
<1> SUFFICES ASSUME NEW k \in DOMAIN variable_regs,
                    NEW b \in variable_regs[k].name .. End(variable_regs[k]) - 1
             PROVE  mem'[b] = mem[b]
  BY DEF VariablesKept
<1>1. b \in Address /\ b < heap_ptr
  BY VariableLies DEF MachineInv, Address
<1> QED
  BY <1>1 DEF HeapKept

(***************************************************************************)
(* What an instruction leaves on the stack.                                *)
(***************************************************************************)
SameFrom(m1, m2, a) == \A b \in Address : b >= a => m1[b] = m2[b]

LEMMA TailSame ==
  ASSUME NEW m1 \in Memory, NEW m2 \in Memory, NEW a \in 0 .. STACK_SIZE, SameFrom(m1, m2, a)
  PROVE  DecodeIn(m1, a, STACK_SIZE) = DecodeIn(m2, a, STACK_SIZE)
<1> DEFINE n == STACK_SIZE - a
<1>1. STACK_SIZE \in Nat /\ STACK_SIZE \in 0 .. STACK_SIZE /\ n \in Nat /\ n = STACK_SIZE - a
  BY VMAssumption
<1>2. PICK d1 : Solution(d1, m1, a, STACK_SIZE) /\ DecodeIn(m1, a, STACK_SIZE) = d1[a]
  BY <1>1, DecodeSolved
<1>3. PICK d2 : Solution(d2, m2, a, STACK_SIZE) /\ DecodeIn(m2, a, STACK_SIZE) = d2[a]
  BY <1>1, DecodeSolved
<1>4. Solved(d1, m1, a, STACK_SIZE) /\ Solved(d2, m2, a, STACK_SIZE)
  BY <1>2, <1>3 DEF Solution, Solved
<1>5. SameBytes(m1, STACK_SIZE, m2, STACK_SIZE, n)
  <2> SUFFICES ASSUME NEW i \in 1 .. n
               PROVE  m1[STACK_SIZE - i] = m2[STACK_SIZE - i]
    BY DEF SameBytes
  <2>1. STACK_SIZE - i \in Address /\ STACK_SIZE - i >= a
    BY <1>1 DEF Address
  <2> QED
    BY <2>1 DEF SameFrom
<1> HIDE DEF n
<1>6. d1[a] = d2[a]
  BY <1>1, <1>4, <1>5, SolvedAlike
<1> QED
  BY <1>2, <1>3, <1>6

LEMMA PushedBytes ==
  ASSUME MachineInv, MachineInv', NEW popped \in Nat, Holds(popped),
         NEW bytes, IsBytes(bytes), PopPush(popped, bytes), UNCHANGED variable_regs
  PROVE  /\ Contents' = Contents
         /\ \/ Fail /\ (stack_ptr + popped) - Len(bytes) < heap_ptr
            \/ /\ Continue(Following) /\ error' = error /\ heap_ptr' = heap_ptr
               /\ stack_ptr + popped \in 0 .. STACK_SIZE /\ stack_ptr' \in 0 .. STACK_SIZE
               /\ stack_ptr' + Len(bytes) = stack_ptr + popped
               /\ \A i \in 0 .. Len(bytes) - 1 : mem'[stack_ptr' + i] = bytes[i + 1]
               /\ DecodeIn(mem', stack_ptr + popped, STACK_SIZE)
                    = DecodeIn(mem, stack_ptr + popped, STACK_SIZE)
<1> DEFINE sp == stack_ptr + popped
<1> DEFINE a == sp - Len(bytes)
<1>0. /\ MemInv /\ mem \in Memory /\ mem' \in Memory
      /\ stack_ptr \in Nat /\ heap_ptr \in Nat /\ STACK_SIZE \in Nat
      /\ heap_ptr <= stack_ptr /\ stack_ptr <= STACK_SIZE /\ Len(bytes) \in Nat
  BY VMAssumption DEF MachineInv, MemInv, MemoryDisjoint, RestOK, Memory, IsBytes
<1>1. Contents' = Contents
  <2>1. HeapKept
    BY <1>0, PopPushKeeps
  <2> QED
    BY <2>1, HeapKeptContents
<1>2. CASE a < heap_ptr
  <2>1. Fail
    BY <1>2 DEF PopPush
  <2> QED
    BY <1>1, <1>2, <2>1
<1>3. CASE ~(a < heap_ptr)
  <2>1. /\ Continue(Following) /\ error' = error /\ heap_ptr' = heap_ptr
        /\ mem' = Written(a, bytes) /\ stack_ptr' = a
    BY <1>3 DEF PopPush
  <2>2. sp \in 0 .. STACK_SIZE /\ a \in 0 .. STACK_SIZE /\ a + Len(bytes) = sp
    BY <1>0, <1>3 DEF Holds
  <2>3. \A i \in 0 .. Len(bytes) - 1 : mem'[a + i] = bytes[i + 1]
    <3> SUFFICES ASSUME NEW i \in 0 .. Len(bytes) - 1
                 PROVE  mem'[a + i] = bytes[i + 1]
      OBVIOUS
    <3>1. a + i \in Address /\ (a + i) - a + 1 = i + 1 /\ i + 1 \in DOMAIN bytes
      BY <1>0, <2>2 DEF Address, IsBytes
    <3> HIDE DEF a
    <3> QED
      BY <2>1, <3>1 DEF Written
  <2>4. SameFrom(mem', mem, sp)
    <3> SUFFICES ASSUME NEW b \in Address, b >= sp PROVE mem'[b] = mem[b]
      BY DEF SameFrom
    <3>1. b >= a + Len(bytes) /\ a \in Nat
      BY <2>2
    <3> HIDE DEF a, sp
    <3>2. Written(a, bytes)[b] = mem[b]
      BY ONLY <3>1, b \in Address, IsBytes(bytes), WrittenApart
    <3> QED
      BY <2>1, <3>2
  <2> HIDE DEF a, sp
  <2>5. DecodeIn(mem', sp, STACK_SIZE) = DecodeIn(mem, sp, STACK_SIZE)
    BY <1>0, <2>2, <2>4, TailSame
  <2> QED
    BY <1>1, <2>1, <2>2, <2>3, <2>5 DEF sp
<1> QED
  BY <1>2, <1>3

\* A value is pushed.
LEMMA Pushed ==
  ASSUME MachineInv, MachineInv', NEW popped \in Nat, Holds(popped),
         NEW type \in {"int", "float"}, NEW worth,
         PopPush(popped, Bytes(<<type, worth>>)), UNCHANGED variable_regs
  PROVE  /\ Contents' = Contents
         /\ \/ Fail /\ (stack_ptr + popped) - SizeOf(type) < heap_ptr
            \/ /\ Continue(Following) /\ error' = error /\ heap_ptr' = heap_ptr
               /\ Values' = << <<type, worth>> >> \o DecodeIn(mem, stack_ptr + popped, STACK_SIZE)
<1> DEFINE bytes == Bytes(<<type, worth>>)
<1>1. IsBytes(bytes) /\ Len(bytes) = SizeOf(type)
  BY BytesOfValue
<1>2. \A i \in 0 .. SizeOf(type) - 1 : bytes[i + 1] = <<type, worth, i>>
  <2> SUFFICES ASSUME NEW i \in 0 .. SizeOf(type) - 1
               PROVE  bytes[i + 1] = <<type, worth, i>>
    OBVIOUS
  <2>1. i + 1 \in 1 .. SizeOf(type) /\ (i + 1) - 1 = i
    BY Sizes
  <2>2. bytes = [k \in 1 .. SizeOf(type) |-> <<type, worth, k - 1>>]
    BY DEF Bytes
  <2> QED
    BY <2>1, <2>2
<1> HIDE DEF bytes
<1>3. PopPush(popped, bytes)
  BY DEF bytes
<1>4. /\ Contents' = Contents
      /\ \/ Fail /\ (stack_ptr + popped) - Len(bytes) < heap_ptr
         \/ /\ Continue(Following) /\ error' = error /\ heap_ptr' = heap_ptr
            /\ stack_ptr + popped \in 0 .. STACK_SIZE /\ stack_ptr' \in 0 .. STACK_SIZE
            /\ stack_ptr' + Len(bytes) = stack_ptr + popped
            /\ \A i \in 0 .. Len(bytes) - 1 : mem'[stack_ptr' + i] = bytes[i + 1]
            /\ DecodeIn(mem', stack_ptr + popped, STACK_SIZE)
                 = DecodeIn(mem, stack_ptr + popped, STACK_SIZE)
  BY <1>1, <1>3, PushedBytes
<1>5. ASSUME stack_ptr + popped \in 0 .. STACK_SIZE, stack_ptr' \in 0 .. STACK_SIZE,
             stack_ptr' + Len(bytes) = stack_ptr + popped,
             \A i \in 0 .. Len(bytes) - 1 : mem'[stack_ptr' + i] = bytes[i + 1],
             DecodeIn(mem', stack_ptr + popped, STACK_SIZE)
               = DecodeIn(mem, stack_ptr + popped, STACK_SIZE)
      PROVE  Values' = << <<type, worth>> >> \o DecodeIn(mem, stack_ptr + popped, STACK_SIZE)
  <2>1. Spells(mem', stack_ptr', type, worth)
    BY <1>1, <1>2, <1>5 DEF Spells
  <2>2. mem' \in Memory /\ STACK_SIZE \in Nat
    BY VMAssumption DEF MachineInv, RestOK, Memory
  <2>3. /\ stack_ptr' \in 0 .. STACK_SIZE /\ STACK_SIZE \in 0 .. STACK_SIZE
        /\ stack_ptr' + SizeOf(type) = stack_ptr + popped
        /\ stack_ptr' + SizeOf(type) <= STACK_SIZE
    BY <1>1, <1>5, <2>2
  <2>4. DecodeIn(mem', stack_ptr', STACK_SIZE)
          = << <<type, worth>> >> \o DecodeIn(mem', stack_ptr' + SizeOf(type), STACK_SIZE)
    BY <2>1, <2>2, <2>3, FirstValue
  <2> QED
    BY <1>5, <2>3, <2>4, ValuesDecoded
<1> QED
  BY <1>1, <1>4, <1>5

\* A value that is whole is what is read.
LEMMA WholeRead ==
  ASSUME NEW a, NEW to, IsWhole(mem, a, to)
  PROVE  ReadAs(mem[a][1], a) = {mem[a][2]}
BY Zenon DEF IsWhole, ReadAs, ReadBytes

\* An operand is read from the stack as the value it is.
LEMMA Operand ==
  ASSUME MachineInv, NEW from \in 0 .. STACK_SIZE, NEW s, s = DecodeIn(mem, from, STACK_SIZE),
         Len(s) >= 1, NEW type \in {"int", "float"}, s[1][1] = type
  PROVE  /\ from + SizeOf(type) \in 0 .. STACK_SIZE
         /\ ReadAs(type, from) = {s[1][2]} /\ s[1] = <<type, s[1][2]>>
         /\ s[1][2] \in Worths(type)
         /\ After(s, 1) = DecodeIn(mem, from + SizeOf(type), STACK_SIZE)
<1>1. mem \in Memory /\ STACK_SIZE \in 0 .. STACK_SIZE
  BY VMAssumption DEF MachineInv, RestOK, Memory
<1>2. /\ IsWhole(mem, from, STACK_SIZE) /\ from # STACK_SIZE
      /\ s[1] = Item(mem, from) /\ s[1][1] = mem[from][1]
      /\ from + SizeOf(s[1][1]) \in 0 .. STACK_SIZE
      /\ After(s, 1) = DecodeIn(mem, from + SizeOf(s[1][1]), STACK_SIZE)
  BY <1>1, FirstItem
<1>3. ReadAs(mem[from][1], from) = {mem[from][2]}
  BY <1>2, WholeRead
<1>4. s[1] = <<mem[from][1], mem[from][2]>> /\ s[1][2] = mem[from][2]
  BY <1>2 DEF Item
<1>5. mem[from][2] \in Worths(type)
  <2>1. mem[from] \in Byte
    BY <1>1, <1>2, VMAssumption DEF Memory, Address
  <2> QED
    BY <1>2, <2>1, WorthOfByte DEF Worths
<1> QED
  BY <1>2, <1>3, <1>4, <1>5

LEMMA StackIs ==
  ASSUME MachineInv
  PROVE  /\ Values \in Seq(Items) /\ Len(Values) \in Nat
         /\ stack_ptr \in 0 .. STACK_SIZE /\ stack_ptr \in Nat /\ STACK_SIZE \in Nat
         /\ After(Values, 0) = Values
         /\ stack_ptr + 0 = stack_ptr /\ Holds(0)
<1>1. mem \in Memory /\ STACK_SIZE \in 0 .. STACK_SIZE /\ STACK_SIZE \in Nat
      /\ stack_ptr \in 0 .. STACK_SIZE
  BY VMAssumption DEF MachineInv, RestOK, Memory, MemInv, MemoryDisjoint
<1>2. Values \in Seq(Items)
  BY <1>1, ValuesDecoded, DecodeEquation
<1>3. Len(Values) \in Nat
  BY <1>2, LenProperties
<1>4. After(Values, 0) = Values
  BY <1>2, <1>3, AfterIs
<1>5. Holds(0)
  BY <1>1 DEF Holds
<1> QED
  BY <1>1, <1>2, <1>3, <1>4, <1>5

\* The top of the stack, and what is below it.
LEMMA TopOperand ==
  ASSUME MachineInv, NEW type \in {"int", "float"}, Machine!Typed(Values, <<type>>)
  PROVE  /\ Holds(SizeOf(type)) /\ SizeOf(type) \in Nat
         /\ ReadAs(type, stack_ptr) = {Values[1][2]} /\ Values[1] = <<type, Values[1][2]>>
         /\ Values[1][2] \in Worths(type)
         /\ After(Values, 1) = DecodeIn(mem, stack_ptr + SizeOf(type), STACK_SIZE)
<1>1. Len(Values) >= 1 /\ Values[1][1] = type
  BY DEF Machine!Typed
<1>2. /\ stack_ptr + SizeOf(type) \in 0 .. STACK_SIZE
      /\ ReadAs(type, stack_ptr) = {Values[1][2]} /\ Values[1] = <<type, Values[1][2]>>
      /\ Values[1][2] \in Worths(type)
      /\ After(Values, 1) = DecodeIn(mem, stack_ptr + SizeOf(type), STACK_SIZE)
  BY <1>1, StackIs, ValuesDecoded, Operand
<1>3. Holds(SizeOf(type)) /\ SizeOf(type) \in Nat
  BY <1>2, StackIs, Sizes DEF Holds
<1> QED
  BY <1>2, <1>3

\* Two of them.
LEMMA TwoOperands ==
  ASSUME MachineInv, NEW type \in {"int", "float"}, Machine!Typed(Values, <<type, type>>),
         NEW size, size = SizeOf(type)
  PROVE  /\ Holds(2 * size) /\ 2 * size \in Nat
         /\ ReadAs(type, stack_ptr) = {Values[1][2]}
         /\ ReadAs(type, stack_ptr + size) = {Values[2][2]}
         /\ Values[1][2] \in Worths(type) /\ Values[2][2] \in Worths(type)
         /\ After(Values, 2) = DecodeIn(mem, stack_ptr + 2 * size, STACK_SIZE)
<1>1. Len(Values) >= 2 /\ Values[1][1] = type /\ Values[2][1] = type
  BY DEF Machine!Typed
<1>2. size \in Nat
  BY Sizes
<1> DEFINE rest == After(Values, 1)
<1>3. /\ stack_ptr + size \in 0 .. STACK_SIZE
      /\ ReadAs(type, stack_ptr) = {Values[1][2]}
      /\ Values[1][2] \in Worths(type)
      /\ rest = DecodeIn(mem, stack_ptr + size, STACK_SIZE)
  BY <1>1, StackIs, ValuesDecoded, Operand
<1>4. /\ Len(rest) = Len(Values) - 1 /\ rest[1] = Values[2]
      /\ After(rest, 1) = After(Values, 2)
  <2>1. Values \in Seq(Items) /\ 1 \in 0 .. Len(Values) /\ 1 < Len(Values) /\ 1 + 1 = 2
    BY <1>1, StackIs
  <2> QED
    BY <2>1, AfterIs
<1>5. Len(rest) >= 1 /\ rest[1][1] = type
  BY <1>1, <1>4, StackIs
<1> HIDE DEF rest
<1>6. /\ (stack_ptr + size) + size \in 0 .. STACK_SIZE
      /\ ReadAs(type, stack_ptr + size) = {rest[1][2]}
      /\ rest[1][2] \in Worths(type)
      /\ After(rest, 1) = DecodeIn(mem, (stack_ptr + size) + size, STACK_SIZE)
  BY <1>3, <1>5, Operand
<1>7. (stack_ptr + size) + size = stack_ptr + 2 * size /\ 2 * size \in Nat
  BY <1>2, StackIs
<1>8. Holds(2 * size)
  BY <1>6, <1>7, StackIs DEF Holds
<1> QED
  BY <1>3, <1>4, <1>6, <1>7, <1>8

(***************************************************************************)
(* Steps of the machine as steps of StackMachine.                          *)
(***************************************************************************)
LEMMA Execution ==
  ASSUME MachineInv', result = Running, current \in DOMAIN program.at, instr[1] # "HALT",
         Machine!Defined, current' = Machine!NextCurrent, Values' = Machine!NextVals,
         Contents' = Machine!NextStore, UNCHANGED <<program, error, result>>,
         heap_ptr' = heap_ptr + Machine!Taken,
         Machine!Creates => Len(variable_regs) < MAXIMUM_VARIABLES /\ StringSize[arg] > 1,
         Len(variable_regs') = IF Machine!Creates THEN Len(variable_regs) + 1
                               ELSE Len(variable_regs)
  PROVE  Machine!Next
<1>1. /\ Machine!Width(Values') = STACK_SIZE - stack_ptr'
      /\ heap_ptr' <= stack_ptr' /\ heap_ptr' \in Nat /\ stack_ptr' \in Nat /\ STACK_SIZE \in Nat
  <2>1. /\ stack_ptr' \in 0 .. STACK_SIZE /\ STACK_SIZE \in 0 .. STACK_SIZE /\ mem' \in Memory
        /\ heap_ptr' <= stack_ptr' /\ heap_ptr' \in Nat /\ stack_ptr' \in Nat /\ STACK_SIZE \in Nat
    BY VMAssumption DEF MachineInv, MemInv, MemoryDisjoint, RestOK, Memory
  <2>2. Machine!Width(DecodeIn(mem', stack_ptr', STACK_SIZE)) = STACK_SIZE - stack_ptr'
    BY <2>1, WidthDecoded
  <2> QED
    BY <2>1, <2>2, ValuesDecoded
<1>2. (heap_ptr + Machine!Taken) + Machine!Width(Machine!NextVals) <= STACK_SIZE
  <2>1. heap_ptr' + Machine!Width(Values') <= STACK_SIZE
    BY <1>1
  <2> QED
    BY <2>1
<1>3. Machine!Fits
  BY <1>2, SameInstruction DEF Machine!Fits
<1> QED
  BY <1>3, SameInstruction DEF Machine!Next, Machine!Executes, Machine!Fetching

\* Those that create no variable.
LEMMA CreatesNothing ==
  ASSUME instr[1] \notin {"IVAR", "FVAR"}
  PROVE  ~Machine!Creates /\ Machine!Taken = 0
BY SameInstruction DEF Machine!Creates, Machine!Taken

LEMMA PlainExecution ==
  ASSUME MachineInv, MachineInv',
         result = Running, current \in DOMAIN program.at, instr[1] \notin {"HALT", "IVAR", "FVAR"},
         Machine!Defined, current' = Machine!NextCurrent,
         Values' = Machine!Pushes \o After(Values, Len(Machine!Pops)),
         Contents' = Machine!NextStore,
         UNCHANGED <<program, error, result, heap_ptr, variable_regs>>
  PROVE  Machine!Next
<1>1. ~Machine!Creates /\ Machine!Taken = 0
  BY CreatesNothing
<1>2. heap_ptr' = heap_ptr + Machine!Taken
  BY <1>1 DEF MachineInv, MemInv
<1>3. Values' = Machine!NextVals
  BY DEF Machine!NextVals, After
<1> QED
  BY <1>1, <1>2, <1>3, Execution

LEMMA NoPromise ==
  ASSUME result = Running, current \in DOMAIN program.at, instr[1] # "HALT",
         ~Machine!Defined, UNCHANGED program
  PROVE  Machine!Next
BY SameInstruction DEF Machine!Next, Machine!Undefined, Machine!Fetching, Machine!AtStop

LEMMA Failure ==
  ASSUME result = Running, current \in DOMAIN program.at, Machine!Defined, ~Machine!Fits,
         Fail, Contents' = Contents
  PROVE  Machine!Next
BY SameInstruction DEF Machine!Next, Machine!GivesUp, Machine!Fetching, Fail

\* There is no room for values s in place of the operands.
LEMMA NoRoom ==
  ASSUME MachineInv, instr[1] \notin {"IVAR", "FVAR"},
         NEW popped \in Nat, Holds(popped),
         After(Values, Len(Machine!Pops)) = DecodeIn(mem, stack_ptr + popped, STACK_SIZE),
         NEW S, NEW s \in Seq(S), s = Machine!Pushes,
         (stack_ptr + popped) - Machine!Width(s) < heap_ptr
  PROVE  ~Machine!Fits
<1> DEFINE rest == DecodeIn(mem, stack_ptr + popped, STACK_SIZE)
<1>1. /\ stack_ptr + popped \in 0 .. STACK_SIZE /\ STACK_SIZE \in 0 .. STACK_SIZE
      /\ mem \in Memory /\ heap_ptr \in Nat /\ stack_ptr \in Nat /\ STACK_SIZE \in Nat
  BY StackIs DEF Holds, MachineInv, MemInv, RestOK, Memory
<1>2. Machine!Width(rest) = STACK_SIZE - (stack_ptr + popped)
  BY <1>1, WidthDecoded
<1>3. rest \in Seq(Items)
  BY <1>1, DecodeEquation
<1> HIDE DEF rest
<1>4. Machine!Width(s) \in Nat /\ Machine!Width(s \o rest) = Machine!Width(s) + Machine!Width(rest)
  <2>1. s \in Seq(S \cup Items) /\ rest \in Seq(S \cup Items)
    BY <1>3, WiderSeq
  <2> QED
    BY <2>1, WidthConcat
<1>5. Machine!NextVals = s \o rest
  BY DEF Machine!NextVals, After, rest
<1>6. ~(heap_ptr + 0 + Machine!Width(Machine!NextVals) <= STACK_SIZE)
  BY <1>1, <1>2, <1>4, <1>5
<1>7. Machine!Taken = 0
  BY CreatesNothing
<1> QED
  BY <1>6, <1>7 DEF Machine!Fits

\* The instruction pushes one value, or fails for want of room.
LEMMA Performs ==
  ASSUME MachineInv, MachineInv',
         result = Running, current \in DOMAIN program.at, instr[1] \notin {"HALT", "IVAR", "FVAR"},
         Machine!Defined,
         NEW popped \in Nat, Holds(popped), NEW type \in {"int", "float"}, NEW worth,
         PopPush(popped, Bytes(<<type, worth>>)), UNCHANGED variable_regs,
         Machine!Pushes = << <<type, worth>> >>,
         Machine!NextCurrent = Following, Machine!NextStore = Contents,
         After(Values, Len(Machine!Pops)) = DecodeIn(mem, stack_ptr + popped, STACK_SIZE)
  PROVE  Machine!Next
<1>1. /\ Contents' = Contents
      /\ \/ Fail /\ (stack_ptr + popped) - SizeOf(type) < heap_ptr
         \/ /\ Continue(Following) /\ error' = error /\ heap_ptr' = heap_ptr
            /\ Values' = << <<type, worth>> >> \o DecodeIn(mem, stack_ptr + popped, STACK_SIZE)
  BY Pushed
<1>2. CASE Fail /\ (stack_ptr + popped) - SizeOf(type) < heap_ptr
  <2> DEFINE p == << <<type, worth>> >>
  <2> DEFINE S == { <<type, worth>> }
  <2>1. Len(p) = 1 /\ 1 \in Nat /\ p[1][1] = type /\ p \in Seq(S) /\ p = Machine!Pushes
    OBVIOUS
  <2> HIDE DEF p, S
  <2>2. Machine!Width(p) = SizeOf(type)
    <3>1. Machine!Width(p) = BytesFor(p[1])
      BY <2>1, WidthIs
    <3> QED
      BY <2>1, <3>1 DEF BytesFor
  <2>3. (stack_ptr + popped) - Machine!Width(p) < heap_ptr
    BY <1>2, <2>2
  <2>4. ~Machine!Fits
    BY <2>1, <2>3, NoRoom
  <2> QED
    BY <1>1, <1>2, <2>4, Failure
<1>3. CASE /\ Continue(Following) /\ error' = error /\ heap_ptr' = heap_ptr
           /\ Values' = << <<type, worth>> >> \o DecodeIn(mem, stack_ptr + popped, STACK_SIZE)
  <2>1. current' = Following /\ UNCHANGED <<program, error, result, heap_ptr, variable_regs>>
    BY <1>3 DEF Continue
  <2> QED
    BY <1>1, <1>3, <2>1, PlainExecution
<1> QED
  BY <1>1, <1>2, <1>3

NoOperation ==
  {"IPUSH", "FPUSH", "IPOP", "FPOP", "IFETCH", "FFETCH", "ISTORE", "FSTORE", "AFETCH", "ALEN",
   "ASUM", "CALL", "ICASTF", "FCASTI", "JMP", "JZ", "JNZ", "IINC", "NOT", "IVAR", "FVAR", "HALT"}

LEMMA Opcodes == \A op \in NoOperation : op \notin Machine!Operations
<1>1. \A op \in NoOperation : op \notin Operations
  BY DEF NoOperation, Operations, OnInts, IntArithmetic, IntComparison, Logic, FloatArithmetic,
     FloatComparison
<1> QED
  BY <1>1, SameOperations

LEMMA PushSimulated ==
  ASSUME MachineInv, MachineInv', Push
  PROVE  Machine!Next
<1> DEFINE type == IF instr[1] = "IPUSH" THEN "int" ELSE "float"
<1>1. /\ result = Running /\ current \in DOMAIN program.at /\ instr[1] \in {"IPUSH", "FPUSH"}
      /\ PopPush(0, Bytes(<<type, arg>>)) /\ UNCHANGED variable_regs
  BY DEF Push, Fetching
<1>2. Machine!Pops = <<>> /\ Len(Machine!Pops) = 0
  BY <1>1, SameInstruction, Opcodes DEF Machine!Pops, NoOperation
<1>3. Machine!Defined
  BY <1>1, <1>2, SameInstruction, Opcodes, StackIs DEF Machine!Defined, Machine!Typed, NoOperation
<1>4. Machine!Pushes = << <<type, arg>> >>
  BY <1>1, SameInstruction, Opcodes DEF Machine!Pushes, NoOperation
<1>5. Machine!NextCurrent = Following /\ Machine!NextStore = Contents
  BY <1>1, SameInstruction DEF Machine!NextCurrent, Machine!NextStore
<1>6. /\ After(Values, Len(Machine!Pops)) = DecodeIn(mem, stack_ptr + 0, STACK_SIZE)
      /\ Holds(0) /\ 0 \in Nat
  BY <1>2, StackIs, ValuesDecoded
<1>7. instr[1] \notin {"HALT", "IVAR", "FVAR"} /\ type \in {"int", "float"}
  BY <1>1
<1> HIDE DEF type
<1> QED
  BY <1>1, <1>3, <1>4, <1>5, <1>6, <1>7, Performs

\* The instruction takes its operands from the stack and puts nothing back.
LEMMA PopsOnly ==
  ASSUME MachineInv, MachineInv',
         result = Running, current \in DOMAIN program.at, instr[1] \notin {"HALT", "IVAR", "FVAR"},
         Machine!Defined,
         NEW popped \in Nat, Holds(popped), NEW c, PopTo(popped, c), UNCHANGED variable_regs,
         Machine!Pushes = <<>>, Machine!NextCurrent = c, Machine!NextStore = Contents,
         After(Values, Len(Machine!Pops)) = DecodeIn(mem, stack_ptr + popped, STACK_SIZE)
  PROVE  Machine!Next
<1>1. Contents' = Contents
  BY PopToKeeps, HeapKeptContents DEF MachineInv
<1>2. /\ current' = c /\ UNCHANGED <<program, error, result, heap_ptr, variable_regs>>
      /\ mem' = mem /\ stack_ptr' = stack_ptr + popped
  BY DEF PopTo, Continue
<1> DEFINE rest == DecodeIn(mem, stack_ptr + popped, STACK_SIZE)
<1>3. rest \in Seq(Items)
  <2>1. stack_ptr + popped \in 0 .. STACK_SIZE /\ STACK_SIZE \in 0 .. STACK_SIZE
    BY StackIs DEF Holds
  <2>2. mem \in Memory
    BY DEF MachineInv, RestOK, Memory
  <2> QED
    BY <2>1, <2>2, DecodeEquation
<1>4. <<>> \o rest = rest
  BY <1>3, ConcatEmptySeq
<1>5. Values' = rest
  BY <1>2, ValuesDecoded
<1> HIDE DEF rest
<1>6. After(Values, Len(Machine!Pops)) = rest
  BY DEF rest
<1>7. Values' = Machine!Pushes \o After(Values, Len(Machine!Pops))
  BY <1>4, <1>5, <1>6
<1> QED
  BY <1>1, <1>2, <1>7, PlainExecution

\* What the instructions on the top of the stack take.
LEMMA OneOperand ==
  ASSUME MachineInv, NEW type \in {"int", "float"},
         \/ type = "int" /\ instr[1] \in {"IPOP", "ICASTF", "JZ", "JNZ", "IINC", "NOT"}
         \/ type = "float" /\ instr[1] \in {"FPOP", "FCASTI"}
  PROVE  /\ Machine!Pops = <<type>> /\ Len(Machine!Pops) = 1
         /\ Machine!Defined <=> Machine!Typed(Values, <<type>>)
         /\ Machine!NextStore = Contents
<1>1. Machine!Pops = <<type>> /\ Len(Machine!Pops) = 1
  BY SameInstruction, Opcodes DEF Machine!Pops, NoOperation
<1>2. Machine!Defined <=> Machine!Typed(Values, <<type>>)
  BY <1>1, SameInstruction, Opcodes DEF Machine!Defined, NoOperation
<1>3. Machine!NextStore = Contents
  BY SameInstruction DEF Machine!NextStore
<1> QED
  BY <1>1, <1>2, <1>3

LEMMA PopSimulated ==
  ASSUME MachineInv, MachineInv', IPop \/ FPop
  PROVE  Machine!Next
<1>1. /\ result = Running /\ current \in DOMAIN program.at /\ instr[1] \in {"IPOP", "FPOP"}
      /\ UNCHANGED variable_regs
  BY DEF IPop, FPop, Fetching
<1>2. UNCHANGED program
  BY DEF IPop, FPop, PopTo, Continue, FailUnchanged, Fail, Lose
<1> DEFINE type == IF instr[1] = "IPOP" THEN "int" ELSE "float"
<1>3. type \in {"int", "float"} /\ instr[1] \notin {"HALT", "IVAR", "FVAR"}
  BY <1>1
<1>4. /\ Machine!Pops = <<type>> /\ Len(Machine!Pops) = 1
      /\ Machine!Defined <=> Machine!Typed(Values, <<type>>)
      /\ Machine!NextStore = Contents
  BY <1>1, OneOperand
<1>5. CASE Machine!Typed(Values, <<type>>)
  <2>1. /\ Holds(SizeOf(type)) /\ SizeOf(type) \in Nat
        /\ After(Values, 1) = DecodeIn(mem, stack_ptr + SizeOf(type), STACK_SIZE)
    BY <1>3, <1>5, TopOperand
  <2>2. PopTo(SizeOf(type), Following)
    BY <1>1, <2>1, Sizes DEF IPop, FPop, Fetching
  <2>3. Machine!Pushes = <<>> /\ Machine!NextCurrent = Following
    BY <1>1, SameInstruction, Opcodes DEF Machine!Pushes, Machine!NextCurrent, NoOperation
  <2> HIDE DEF type
  <2> QED
    BY <1>1, <1>3, <1>4, <1>5, <2>1, <2>2, <2>3, PopsOnly
<1>6. CASE ~Machine!Typed(Values, <<type>>)
  BY <1>1, <1>2, <1>3, <1>4, <1>6, NoPromise
<1> QED
  BY <1>5, <1>6

LEMMA JumpIfSimulated ==
  ASSUME MachineInv, MachineInv', JumpIf
  PROVE  Machine!Next
<1>1. /\ result = Running /\ current \in DOMAIN program.at /\ instr[1] \in {"JZ", "JNZ"}
      /\ UNCHANGED variable_regs
  BY DEF JumpIf, Fetching
<1>2. UNCHANGED program
  BY DEF JumpIf, PopTo, Continue, FailUnchanged, Fail
<1>3. /\ Machine!Pops = <<"int">> /\ Len(Machine!Pops) = 1
      /\ Machine!Defined <=> Machine!Typed(Values, <<"int">>)
      /\ Machine!NextStore = Contents
  BY <1>1, OneOperand
<1>4. CASE Machine!Typed(Values, <<"int">>)
  <2>1. /\ Holds(2) /\ 2 \in Nat
        /\ ReadAs("int", stack_ptr) = {Values[1][2]}
        /\ After(Values, 1) = DecodeIn(mem, stack_ptr + 2, STACK_SIZE)
    BY <1>4, TopOperand, Sizes
  <2> DEFINE c == IF Taken(Values[1][2]) THEN arg ELSE Following
  <2>2. PopTo(2, c)
    BY <2>1 DEF JumpIf
  <2>3. Machine!Pushes = <<>>
    BY <1>1, SameInstruction, Opcodes DEF Machine!Pushes, NoOperation
  <2>4. Machine!NextCurrent = c
    BY <1>1, SameInstruction DEF Machine!NextCurrent, Taken
  <2> HIDE DEF c
  <2> QED
    BY <1>1, <1>3, <1>4, <2>1, <2>2, <2>3, <2>4, PopsOnly
<1>5. CASE ~Machine!Typed(Values, <<"int">>)
  BY <1>1, <1>2, <1>3, <1>5, NoPromise
<1> QED
  BY <1>4, <1>5

LEMMA JumpSimulated ==
  ASSUME MachineInv, MachineInv', Jump
  PROVE  Machine!Next
<1>1. /\ result = Running /\ current \in DOMAIN program.at /\ instr[1] = "JMP"
      /\ current' = arg /\ UNCHANGED <<program, mem, stack_ptr, heap_ptr, error, variable_regs, result>>
  BY DEF Jump, Fetching, Continue
<1>2. Machine!Pops = <<>> /\ Len(Machine!Pops) = 0
  BY <1>1, SameInstruction, Opcodes DEF Machine!Pops, NoOperation
<1>3. Machine!Defined
  BY <1>1, <1>2, SameInstruction, Opcodes, StackIs DEF Machine!Defined, Machine!Typed, NoOperation
<1>4. Machine!Pushes = <<>>
  BY <1>1, SameInstruction, Opcodes DEF Machine!Pushes, NoOperation
<1>5. Machine!NextCurrent = arg /\ Machine!NextStore = Contents
  BY <1>1, SameInstruction DEF Machine!NextCurrent, Machine!NextStore
<1>6. Values' = Values
  BY <1>1, ValuesDecoded
<1>7. Contents' = Contents
  <2>1. HeapKept
    BY <1>1, ControlKeeps DEF MachineInv
  <2> QED
    BY <1>1, <2>1, HeapKeptContents
<1>8. <<>> \o Values = Values
  BY StackIs, ConcatEmptySeq
<1>9. Values' = Machine!Pushes \o After(Values, Len(Machine!Pops))
  BY <1>2, <1>4, <1>6, <1>8, StackIs
<1> QED
  BY <1>1, <1>3, <1>5, <1>7, <1>9, PlainExecution

LEMMA CastSimulated ==
  ASSUME MachineInv, MachineInv', NEW op, NEW from,
         <<op, from>> \in {<<"ICASTF", "int">>, <<"FCASTI", "float">>}, Cast(op, from)
  PROVE  Machine!Next
<1>1. /\ result = Running /\ current \in DOMAIN program.at /\ instr[1] = op
      /\ UNCHANGED variable_regs
  BY DEF Cast, Fetching
<1>2. \/ op = "ICASTF" /\ from = "int"
      \/ op = "FCASTI" /\ from = "float"
  OBVIOUS
<1>3. UNCHANGED program
  BY DEF Cast, PopPush, Continue, FailUnchanged, Fail
<1>4. /\ Machine!Pops = <<from>> /\ Len(Machine!Pops) = 1
      /\ Machine!Defined <=> Machine!Typed(Values, <<from>>)
      /\ Machine!NextStore = Contents
      /\ from \in {"int", "float"}
  BY <1>1, <1>2, OneOperand
<1>5. CASE Machine!Typed(Values, <<from>>)
  <2>1. /\ Holds(SizeOf(from)) /\ SizeOf(from) \in Nat
        /\ ReadAs(from, stack_ptr) = {Values[1][2]} /\ Values[1] = <<from, Values[1][2]>>
        /\ After(Values, 1) = DecodeIn(mem, stack_ptr + SizeOf(from), STACK_SIZE)
    BY <1>4, <1>5, TopOperand
  <2> DEFINE type == IF from = "int" THEN "float" ELSE "int"
  <2> DEFINE worth == IF from = "int" THEN FloatOf(Values[1][2]) ELSE IntOf(Values[1][2])
  <2>2. PopPush(SizeOf(from), Bytes(<<type, worth>>))
    <3>1. PICK v \in ReadAs(from, stack_ptr) :
            PopPush(SizeOf(from),
                    Bytes(IF from = "int" THEN <<"float", FloatOf(v)>> ELSE <<"int", IntOf(v)>>))
      BY <2>1, Zenon DEF Cast
    <3>2. v = Values[1][2]
      BY <2>1, <3>1
    <3>3. (IF from = "int" THEN <<"float", FloatOf(v)>> ELSE <<"int", IntOf(v)>>) = <<type, worth>>
      BY <3>2
    <3> HIDE DEF type, worth
    <3> QED
      BY <3>1, <3>3
  <2>3. Machine!Pushes = << <<type, worth>> >>
    BY <1>1, <1>2, SameInstruction, Opcodes DEF Machine!Pushes, NoOperation
  <2>4. Machine!NextCurrent = Following
    BY <1>1, <1>2, SameInstruction DEF Machine!NextCurrent
  <2>5. type \in {"int", "float"} /\ instr[1] \notin {"HALT", "IVAR", "FVAR"}
    BY <1>1, <1>2
  <2>6. After(Values, Len(Machine!Pops)) = DecodeIn(mem, stack_ptr + SizeOf(from), STACK_SIZE)
    BY <1>4, <2>1
  <2> HIDE DEF type, worth
  <2> QED
    BY <1>1, <1>4, <1>5, <2>1, <2>2, <2>3, <2>4, <2>5, <2>6, Performs
<1>6. CASE ~Machine!Typed(Values, <<from>>)
  BY <1>1, <1>2, <1>3, <1>4, <1>6, NoPromise
<1> QED
  BY <1>5, <1>6

\* The operations are none of the other instructions.
LEMMA OperationsApart ==
  ASSUME NEW op \in Operations
  PROVE  op \in Machine!Operations /\ op \notin NoOperation
BY Opcodes, SameOperations

LEMMA OperationSimulated ==
  ASSUME MachineInv, MachineInv', Operation
  PROVE  Machine!Next
<1> DEFINE op == instr[1]
<1> DEFINE type == OperandType(op)
<1> DEFINE size == SizeOf(type)
<1>1. /\ result = Running /\ current \in DOMAIN program.at /\ op \in Operations
      /\ UNCHANGED variable_regs
  BY DEF Operation, Fetching
<1>2. UNCHANGED program
  BY DEF Operation, PopPush, Continue, FailUnchanged, Fail, Lose
<1>3. type \in {"int", "float"} /\ op # "HALT" /\ op \notin NoOperation
  BY <1>1, OperationsApart DEF OperandType, NoOperation
<1>4. Machine!Pops = <<type, type>> /\ Len(Machine!Pops) = 2
  BY <1>1, <1>3, SameInstruction, SameOperations, SameOperandType DEF Machine!Pops, NoOperation
<1>5. Machine!Defined <=>
        /\ Machine!Typed(Values, <<type, type>>)
        /\ ~Divides0(op, Values[1][2], Values[2][2])
  <2>1. Machine!opcode = op /\ op \in Machine!Operations /\ op \notin NoOperation
    BY <1>1, <1>3, SameInstruction, SameOperations
  <2> DEFINE operands == <<type, type>>
  <2>2. Machine!Pops = operands
    BY <1>4
  <2>3. Machine!Divides0(op, Values[1][2], Values[2][2]) <=> Divides0(op, Values[1][2], Values[2][2])
    BY SameDivision
  <2> HIDE DEF op, operands
  <2>4. Machine!Defined <=>
          Machine!Typed(Values, operands) /\ ~Machine!Divides0(op, Values[1][2], Values[2][2])
    BY <2>1, <2>2 DEF Machine!Defined, NoOperation
  <2> QED
    BY <2>3, <2>4 DEF operands
<1>6. CASE Machine!Defined
  <2>1. /\ Holds(2 * size) /\ 2 * size \in Nat
        /\ ReadAs(type, stack_ptr) = {Values[1][2]}
        /\ ReadAs(type, stack_ptr + size) = {Values[2][2]}
        /\ Values[1][2] \in Worths(type) /\ Values[2][2] \in Worths(type)
        /\ After(Values, 2) = DecodeIn(mem, stack_ptr + 2 * size, STACK_SIZE)
    BY <1>3, <1>5, <1>6, TwoOperands
  <2>2. PICK restype \in {"int", "float"} :
          \E v \in Worths(restype) : Applied(op, Values[1][2], Values[2][2]) = <<restype, v>>
    BY <1>1, <1>5, <1>6, <2>1, AppliedTyped
  <2>9. PICK w \in Worths(restype) : Applied(op, Values[1][2], Values[2][2]) = <<restype, w>>
    BY <2>2
  <2>3. PopPush(2 * size, Bytes(<<restype, w>>))
    <3>1. \E first \in ReadAs(type, stack_ptr), second \in ReadAs(type, stack_ptr + size) :
            IF Divides0(op, first, second) THEN Lose
            ELSE PopPush(2 * size, Bytes(Applied(op, first, second)))
      BY <2>1, Zenon DEF Operation
    <3>2. IF Divides0(op, Values[1][2], Values[2][2]) THEN Lose
          ELSE PopPush(2 * size, Bytes(Applied(op, Values[1][2], Values[2][2])))
      BY <2>1, <3>1, Zenon
    <3> QED
      BY <1>5, <1>6, <2>9, <3>2
  <2>4. Machine!Pushes = << <<restype, w>> >>
    <3>1. Machine!Applied(op, Values[1][2], Values[2][2]) = <<restype, w>>
      BY <2>9, SameApplied
    <3>2. Machine!opcode = op /\ op \in Machine!Operations /\ op \notin NoOperation
      BY <1>1, <1>3, SameInstruction, SameOperations
    <3> HIDE DEF op
    <3>3. Machine!Pushes = << Machine!Applied(op, Values[1][2], Values[2][2]) >>
      BY <3>2 DEF Machine!Pushes, NoOperation
    <3> QED
      BY <3>1, <3>3
  <2>5. Machine!NextCurrent = Following /\ Machine!NextStore = Contents
    BY <1>1, <1>3, SameInstruction DEF Machine!NextCurrent, Machine!NextStore, NoOperation
  <2>6. After(Values, Len(Machine!Pops)) = DecodeIn(mem, stack_ptr + 2 * size, STACK_SIZE)
    BY <1>4, <2>1
  <2>7. op \notin {"HALT", "IVAR", "FVAR"} /\ op = instr[1]
    BY <1>3 DEF NoOperation
  <2> DEFINE popped == 2 * size
  <2> HIDE DEF popped, size, type, op
  <2> QED
    BY <1>1, <1>6, <2>1, <2>3, <2>4, <2>5, <2>6, <2>7, Performs
<1>7. CASE ~Machine!Defined
  BY <1>1, <1>2, <1>3, <1>7, NoPromise
<1> QED
  BY <1>6, <1>7

\* What is changed in place might as well be popped and pushed.
LEMMA InPlaceSimulated ==
  ASSUME MachineInv, MachineInv', InPlace
  PROVE  Machine!Next
<1>1. /\ result = Running /\ current \in DOMAIN program.at /\ instr[1] \in {"IINC", "NOT"}
      /\ UNCHANGED variable_regs
  BY DEF InPlace, Fetching
<1>2. UNCHANGED program
  BY DEF InPlace, Continue, FailUnchanged, Fail
<1>3. /\ Machine!Pops = <<"int">> /\ Len(Machine!Pops) = 1
      /\ Machine!Defined <=> Machine!Typed(Values, <<"int">>)
      /\ Machine!NextStore = Contents
  BY <1>1, OneOperand
<1>4. CASE Machine!Typed(Values, <<"int">>)
  <2>1. /\ Holds(2) /\ 2 \in Nat
        /\ ReadAs("int", stack_ptr) = {Values[1][2]}
        /\ After(Values, 1) = DecodeIn(mem, stack_ptr + 2, STACK_SIZE)
    BY <1>4, TopOperand, Sizes
  <2> DEFINE v == Values[1][2]
  <2> DEFINE worth == IF instr[1] = "IINC" THEN IntOp("IADD", v, 1) ELSE IF v = 0 THEN 1 ELSE 0
  <2>2. /\ mem' = Written(stack_ptr, Bytes(<<"int", worth>>))
        /\ Continue(Following) /\ UNCHANGED <<stack_ptr, heap_ptr, error>>
    BY <2>1 DEF InPlace
  <2>3. Machine!Pushes = << <<"int", worth>> >>
    BY <1>1, SameInstruction, Opcodes DEF Machine!Pushes, NoOperation
  <2>4. Machine!NextCurrent = Following
    BY <1>1, SameInstruction DEF Machine!NextCurrent
  <2> HIDE DEF worth
  <2>5. PopPush(2, Bytes(<<"int", worth>>))
    <3>1. Len(Bytes(<<"int", worth>>)) = 2
      BY BytesOfValue, Sizes
    <3>2. /\ (stack_ptr + 2) - 2 = stack_ptr /\ ~(stack_ptr < heap_ptr)
          /\ stack_ptr' = stack_ptr /\ heap_ptr' = heap_ptr /\ error' = error
      BY <2>2, StackIs DEF MachineInv, MemInv, MemoryDisjoint
    <3> QED
      BY <2>2, <3>1, <3>2 DEF PopPush
  <2>6. instr[1] \notin {"HALT", "IVAR", "FVAR"} /\ "int" \in {"int", "float"}
    BY <1>1
  <2> QED
    BY <1>1, <1>3, <1>4, <2>1, <2>3, <2>4, <2>5, <2>6, Performs
<1>5. CASE ~Machine!Typed(Values, <<"int">>)
  BY <1>1, <1>2, <1>3, <1>5, NoPromise
<1> QED
  BY <1>4, <1>5

\* The program stops, or goes where no instruction is.
LEMMA StopSimulated ==
  ASSUME MachineInv, MachineInv', Halt \/ EndOfProgram \/ Astray
  PROVE  Machine!Next
<1>1. result = Running /\ UNCHANGED <<program, variable_regs>>
  BY DEF Halt, EndOfProgram, Astray, Fetching, FailUnchanged, Fail, Lose
<1>2. \A o \in DOMAIN program.at : o < program.length
  BY DEF MachineInv, MemInv, IsCode
<1>3. current \in Nat /\ program.length \in Nat
  BY DEF MachineInv, MemInv, RestOK, IsCode
<1>4. CASE Halt \/ EndOfProgram
  <2>1. /\ Halt => current \in DOMAIN program.at /\ instr[1] = "HALT"
        /\ EndOfProgram => current >= program.length /\ current \notin DOMAIN program.at
    BY <1>2, <1>3 DEF Halt, EndOfProgram, Fetching
  <2>2. CASE Machine!Typed(Values, <<"int">>)
    <3>1. Holds(2) /\ ReadAs("int", stack_ptr) = {Values[1][2]}
      BY <2>2, TopOperand, Sizes
    <3>2. /\ result' = Returned(Values[1][2])
          /\ UNCHANGED <<program, current, mem, stack_ptr, heap_ptr, error>>
      BY <1>4, <3>1 DEF Halt, EndOfProgram
    <3>3. Values' = Values
      BY <3>2, ValuesDecoded
    <3>4. Contents' = Contents
      <4>1. HeapKept
        BY <3>2 DEF HeapKept
      <4> QED
        BY <1>1, <4>1, HeapKeptContents
    <3>5. Machine!AtStop
      BY <1>4, <2>1, <2>2, SameInstruction DEF Machine!AtStop
    <3>6. Machine!Running = Running /\ Machine!Returned(Values[1][2]) = Returned(Values[1][2])
      BY Zenon DEF Machine!Running, Running, Machine!Returned, Returned
    <3> QED
      BY <1>1, <3>2, <3>3, <3>4, <3>5, <3>6 DEF Machine!Next, Machine!Stops
  <2>3. CASE ~Machine!Typed(Values, <<"int">>)
    <3>1. ~Machine!AtStop
      BY <2>3 DEF Machine!AtStop
    <3>2. Machine!Fetching => Machine!opcode = "HALT"
      BY <1>4, <2>1, SameInstruction DEF Machine!Fetching
    <3> QED
      BY <1>1, <3>1, <3>2, SameInstruction DEF Machine!Next, Machine!Undefined
  <2> QED
    BY <2>2, <2>3
<1>5. CASE Astray
  <2>1. current \notin DOMAIN program.at /\ ~(current >= program.length)
    BY <1>3, <1>5 DEF Astray
  <2>2. ~Machine!AtStop /\ ~Machine!Fetching
    BY <2>1 DEF Machine!AtStop, Machine!Fetching
  <2> QED
    BY <1>1, <2>2, SameInstruction DEF Machine!Next, Machine!Undefined
<1> QED
  BY <1>4, <1>5

(***************************************************************************)
(* Instructions on variables.                                              *)
(***************************************************************************)
LEMMA VariableIs ==
  ASSUME NEW x \in Name
  PROVE  /\ x \in DOMAIN Contents <=> Known(x)
         /\ Known(x) => /\ Contents[x].elems = ElementsIn(mem, get_variable(x))
                        /\ Contents[x].length = get_variable(x).length
<1>1. x \in DOMAIN Contents <=> Known(x)
  BY ContentsAre
<1>2. ASSUME Known(x)
      PROVE  Contents[x] = Cell(mem, get_variable(x))
  BY <1>2, ContentsAre
<1> QED
  BY <1>1, <1>2 DEF Cell

LEMMA FirstElement ==
  ASSUME MachineInv, NEW x \in Name, Known(x), NEW reg, reg = get_variable(x),
         NEW size, size = variable_type_size(reg.type)
  PROVE  /\ 1 \in DOMAIN Contents[x].elems
         /\ Contents[x].elems[1] = DecodeIn(mem, reg.location, reg.location + size)
         /\ reg.location + size \in 0 .. STACK_SIZE
         /\ reg.location \in 0 .. reg.location + size /\ size \in Nat
<1>1. PICK k \in DOMAIN variable_regs : get_variable(x) = variable_regs[k]
  BY Found DEF MachineInv
<1>2. /\ reg.location \in Nat /\ Elements(reg) \in Nat /\ Elements(reg) >= 1
      /\ End(reg) \in Nat /\ End(reg) <= STACK_SIZE
  BY <1>1, VariableLies DEF MachineInv
<1>3. 1 \in 1 .. Elements(reg) /\ size \in Nat
  BY <1>2, Sizes
<1>4. reg.location + (1 - 1) * size = reg.location /\ reg.location + 1 * size = reg.location + size
  BY <1>2, <1>3
<1>5. Contents[x].elems = ElementsIn(mem, reg)
  BY VariableIs
<1>6. /\ 1 \in DOMAIN ElementsIn(mem, reg)
      /\ ElementsIn(mem, reg)[1] =
           DecodeIn(mem, reg.location + (1 - 1) * size, reg.location + 1 * size)
  BY <1>3 DEF ElementsIn
<1>7. reg.location + size \in 0 .. STACK_SIZE
  <2> DEFINE from == reg.location + (1 - 1) * size
  <2>1. from + size \in 0 .. STACK_SIZE
    BY <1>2, <1>3, ElementLies
  <2> QED
    BY <1>4, <2>1
<1> QED
  BY <1>2, <1>3, <1>4, <1>5, <1>6, <1>7

\* The arguments of an instruction on a variable.
LEMMA NameOfVariable ==
  ASSUME MachineInv, current \in DOMAIN program.at, instr[1] \in OnVariables
  PROVE  arg \in Name
BY DEF MachineInv, MemInv, IsCode, instr, arg

\* Instructions that take nothing from the stack.
LEMMA NoOperands ==
  ASSUME MachineInv, instr[1] \in {"IFETCH", "FFETCH", "ALEN", "ASUM", "IVAR", "FVAR"}
  PROVE  /\ Machine!Pops = <<>> /\ Len(Machine!Pops) = 0
         /\ Machine!Typed(Values, Machine!Pops)
         /\ After(Values, Len(Machine!Pops)) = DecodeIn(mem, stack_ptr + 0, STACK_SIZE)
         /\ Holds(0) /\ 0 \in Nat
         /\ Machine!NextCurrent = Following
<1>1. Machine!Pops = <<>> /\ Len(Machine!Pops) = 0
  BY SameInstruction, Opcodes DEF Machine!Pops, NoOperation
<1>2. Machine!Typed(Values, Machine!Pops)
  BY <1>1, StackIs DEF Machine!Typed
<1>3. After(Values, Len(Machine!Pops)) = DecodeIn(mem, stack_ptr + 0, STACK_SIZE) /\ Holds(0)
  BY <1>1, StackIs, ValuesDecoded
<1>4. Machine!NextCurrent = Following
  BY SameInstruction DEF Machine!NextCurrent
<1> QED
  BY <1>1, <1>2, <1>3, <1>4

LEMMA FetchSimulated ==
  ASSUME MachineInv, MachineInv', NEW op, NEW type,
         <<op, type>> \in {<<"IFETCH", "int">>, <<"FFETCH", "float">>}, Fetch(op, type)
  PROVE  Machine!Next
<1>1. /\ result = Running /\ current \in DOMAIN program.at /\ instr[1] = op
      /\ UNCHANGED variable_regs
  BY DEF Fetch, Fetching
<1>2. \/ op = "IFETCH" /\ type = "int"
      \/ op = "FFETCH" /\ type = "float"
  OBVIOUS
<1>3. UNCHANGED program
  BY DEF Fetch, PopPush, Continue, FailUnchanged, Fail, Lose
<1>4. arg \in Name
  BY <1>1, <1>2, NameOfVariable DEF OnVariables
<1>5. instr[1] \notin {"HALT", "IVAR", "FVAR"} /\ type \in {"int", "float"}
  BY <1>1, <1>2
<1>6. /\ Machine!Pops = <<>> /\ Len(Machine!Pops) = 0
      /\ Machine!Typed(Values, Machine!Pops)
      /\ After(Values, Len(Machine!Pops)) = DecodeIn(mem, stack_ptr + 0, STACK_SIZE)
      /\ Holds(0) /\ 0 \in Nat
      /\ Machine!NextCurrent = Following
  BY <1>1, <1>2, NoOperands
<1>7. Machine!Defined <=> Known(arg) /\ Machine!Typed(Contents[arg].elems[1], <<type>>)
  <2>1. Machine!Known <=> Known(arg)
    BY <1>4, VariableIs, SameInstruction DEF Machine!Known
  <2> QED
    BY <1>1, <1>2, <1>6, <2>1, SameInstruction, Opcodes DEF Machine!Defined, NoOperation
<1>8. CASE Machine!Defined
  <2> DEFINE reg == get_variable(arg)
  <2> DEFINE a == reg.location
  <2> DEFINE size == variable_type_size(reg.type)
  <2> DEFINE s == Contents[arg].elems[1]
  <2>1. /\ s = DecodeIn(mem, a, a + size) /\ a + size \in 0 .. STACK_SIZE
        /\ a \in 0 .. a + size /\ size \in Nat
    BY <1>4, <1>7, <1>8, FirstElement
  <2>2. Len(s) >= 1 /\ s[1][1] = type
    BY <1>7, <1>8 DEF Machine!Typed
  <2>3. mem \in Memory
    BY DEF MachineInv, RestOK, Memory
  <2> HIDE DEF s, size, a
  <2>4. /\ IsWhole(mem, a, a + size) /\ s[1] = Item(mem, a) /\ s[1][1] = mem[a][1]
        /\ a + SizeOf(type) \in 0 .. a + size
    BY <1>5, <2>1, <2>2, <2>3, FirstItem
  <2>5. ReadAs(type, a) = {mem[a][2]} /\ s[1] = <<type, mem[a][2]>>
    BY <2>2, <2>4, WholeRead DEF Item
  <2>6. Inside(a, SizeOf(type))
    BY <2>1, <2>4, StackIs, Sizes DEF Inside
  <2>7. PopPush(0, Bytes(<<type, mem[a][2]>>))
    BY <1>7, <1>8, <2>5, <2>6 DEF Fetch, a
  <2>8. Machine!Pushes = << <<type, mem[a][2]>> >>
    <3>1. Machine!Pushes = << s[1] >>
      BY <1>1, <1>2, SameInstruction, Opcodes DEF Machine!Pushes, NoOperation, s
    <3> QED
      BY <2>5, <3>1
  <2>9. Machine!NextStore = Contents
    BY <1>1, <1>2, SameInstruction DEF Machine!NextStore
  <2> QED
    BY <1>1, <1>5, <1>6, <1>8, <2>7, <2>8, <2>9, Performs
<1>9. CASE ~Machine!Defined
  BY <1>1, <1>3, <1>5, <1>9, NoPromise
<1> QED
  BY <1>8, <1>9

LEMMA LengthSimulated ==
  ASSUME MachineInv, MachineInv', ArrayLength
  PROVE  Machine!Next
<1>1. /\ result = Running /\ current \in DOMAIN program.at /\ instr[1] = "ALEN"
      /\ UNCHANGED variable_regs
  BY DEF ArrayLength, Fetching
<1>2. UNCHANGED program
  BY DEF ArrayLength, PopPush, Continue, FailUnchanged, Fail
<1>3. arg \in Name
  BY <1>1, NameOfVariable DEF OnVariables
<1>4. /\ Machine!Pops = <<>> /\ Len(Machine!Pops) = 0
      /\ Machine!Typed(Values, Machine!Pops)
      /\ After(Values, Len(Machine!Pops)) = DecodeIn(mem, stack_ptr + 0, STACK_SIZE)
      /\ Holds(0) /\ 0 \in Nat
      /\ Machine!NextCurrent = Following
  BY <1>1, NoOperands
<1>5. Machine!Defined <=> Known(arg)
  <2>1. Machine!Known <=> Known(arg)
    BY <1>3, VariableIs, SameInstruction DEF Machine!Known
  <2> QED
    BY <1>1, <1>4, <2>1, SameInstruction, Opcodes DEF Machine!Defined, NoOperation
<1>6. CASE Machine!Defined
  <2>1. PopPush(0, Bytes(<<"int", get_variable(arg).length>>))
    BY <1>5, <1>6 DEF ArrayLength
  <2>2. Machine!Pushes = << <<"int", get_variable(arg).length>> >>
    <3>1. Machine!Pushes = << <<"int", Contents[arg].length>> >>
      BY <1>1, SameInstruction, Opcodes DEF Machine!Pushes, NoOperation
    <3>2. Contents[arg].length = get_variable(arg).length
      BY <1>3, <1>5, <1>6, VariableIs
    <3> QED
      BY <3>1, <3>2
  <2>3. /\ Machine!NextStore = Contents /\ "int" \in {"int", "float"}
        /\ instr[1] \notin {"HALT", "IVAR", "FVAR"}
    BY <1>1, SameInstruction DEF Machine!NextStore
  <2> QED
    BY <1>1, <1>4, <1>6, <2>1, <2>2, <2>3, Performs
<1>7. CASE ~Machine!Defined
  BY <1>1, <1>2, <1>7, NoPromise
<1> QED
  BY <1>6, <1>7

LEMMA Smallest ==
  ASSUME NEW M \in SUBSET Nat, NEW k \in M, \A l \in M : k <= l
  PROVE  (CHOOSE c \in M : \A l \in M : c <= l) = k
<1> DEFINE c == CHOOSE c \in M : \A l \in M : c <= l
<1>1. c \in M /\ \A l \in M : c <= l
  OBVIOUS
<1> HIDE DEF c
<1>2. c = k
  BY <1>1
<1> QED
  BY <1>2 DEF c

\* A name that was known still stands for the same variable.
LEMMA CreatedNames ==
  ASSUME MachineInv, MachineInv',
         NEW op \in {"IVAR", "FVAR"}, NEW type \in {"int", "float"},
         CreateVariable(op, type), variable_regs' # variable_regs,
         NEW reg, reg = [name |-> heap_ptr, location |-> heap_ptr + StringSize[arg],
                         type |-> type, length |-> 0],
         NEW x \in Name
  PROVE  /\ Known(x)' <=> Known(x) \/ x = arg
         /\ Known(x) => get_variable(x)' = get_variable(x)
         /\ ~Known(x) /\ x = arg => get_variable(x)' = reg
<1> USE DEF MachineInv
<1> DEFINE n == Len(variable_regs)
<1>1. /\ arg \in Name
      /\ DOMAIN variable_regs' = 1 .. n + 1 /\ DOMAIN variable_regs = 1 .. n /\ n \in Nat
      /\ \A k \in 1 .. n : variable_regs'[k] = variable_regs[k]
      /\ variable_regs'[n + 1] = reg
      /\ NameAt(mem', reg, arg)
      /\ \A b \in Address : b < heap_ptr \/ b >= heap_ptr' => mem'[b] = mem[b]
  BY Created
<1> HIDE DEF n
<1>2. NameAt(mem', reg, x) <=> x = arg
  <2>1. reg.name \in Nat
    BY DEF MemInv
  <2> QED
    BY <1>1, <2>1, OneName
<1>3. ASSUME NEW k \in 1 .. n
      PROVE  NameAt(mem', variable_regs[k], x) <=> NameAt(mem, variable_regs[k], x)
  <2> DEFINE r == variable_regs[k]
  <2>1. r.name \in Nat /\ r.location \in Nat /\ r.name < r.location /\ k \in DOMAIN variable_regs
        /\ r.location <= heap_ptr /\ heap_ptr \in Nat /\ heap_ptr <= STACK_SIZE /\ STACK_SIZE \in Nat
    <3>1. k \in DOMAIN variable_regs
      BY <1>1
    <3>2. /\ r.name \in Nat /\ r.location \in Nat /\ End(r) \in Nat
          /\ r.name < r.location /\ r.location + 2 <= End(r)
          /\ End(r) <= heap_ptr /\ heap_ptr <= STACK_SIZE
          /\ heap_ptr \in Nat /\ STACK_SIZE \in Nat
      BY <3>1, VariableLies
    <3> QED
      BY <3>1, <3>2
  <2>2. mem[r.location][1] \in {"int", "float"}
    BY <2>1, HeapOKIs DEF KeepsItsBytes
  <2>3. mem'[r.location][1] \in {"int", "float"}
    <3>1. k \in DOMAIN variable_regs' /\ variable_regs'[k] = variable_regs[k]
      BY <1>1
    <3>2. KeepsItsBytes(mem', variable_regs'[k])
      BY <3>1, HeapOKIs
    <3> QED
      BY <3>1, <3>2 DEF KeepsItsBytes
  <2>4. \A b \in r.name .. r.location - 1 : mem[b] = mem'[b]
    <3> SUFFICES ASSUME NEW b \in r.name .. r.location - 1 PROVE mem[b] = mem'[b]
      OBVIOUS
    <3>1. b \in Address /\ b < heap_ptr
      BY <2>1 DEF Address
    <3> QED
      BY <1>1, <3>1
  <2> HIDE DEF r
  <2>5. NameAt(mem, r, x) => NameAt(mem', r, x)
    BY <2>1, <2>2, <2>4, NameKept
  <2>6. NameAt(mem', r, x) => NameAt(mem, r, x)
    BY <2>1, <2>3, <2>4, NameKept
  <2> QED
    BY <2>5, <2>6 DEF r
<1>4. Matching(x) \subseteq 1 .. n
  BY <1>1 DEF Matching
<1>5. Matching(x)' = IF x = arg THEN Matching(x) \cup {n + 1} ELSE Matching(x)
  <2>1. /\ Matching(x) = {k \in 1 .. n : NameAt(mem, variable_regs[k], x)}
        /\ Matching(x)' = {k \in 1 .. n + 1 : NameAt(mem', variable_regs'[k], x)}
    BY <1>1, MatchingIs
  <2>2. \A k \in 1 .. n + 1 : k \in 1 .. n \/ k = n + 1
    BY <1>1
  <2>3. \A k \in 1 .. n : k \in 1 .. n + 1
    BY <1>1
  <2>4. n + 1 \in 1 .. n + 1
    BY <1>1
  <2> QED
    BY <1>1, <1>2, <1>3, <2>1, <2>2, <2>3, <2>4
<1>6. Known(x)' <=> Known(x) \/ x = arg
  BY <1>5 DEF Known
<1> DEFINE M == Matching(x)'
<1>7. get_variable(x)' = variable_regs'[CHOOSE c \in M : \A l \in M : c <= l]
  BY Zenon DEF get_variable
<1>8. M \in SUBSET Nat
  BY <1>1, <1>4, <1>5
<1>9. ASSUME Known(x)
      PROVE  get_variable(x)' = get_variable(x)
  <2>1. PICK k \in Matching(x) :
          (\A l \in Matching(x) : k <= l) /\ get_variable(x) = variable_regs[k]
    BY <1>9, FoundVariable
  <2>2. k \in M /\ \A l \in M : k <= l
    BY <1>1, <1>4, <1>5, <2>1
  <2>3. (CHOOSE c \in M : \A l \in M : c <= l) = k
    BY <1>8, <2>2, Smallest
  <2> QED
    BY <1>1, <1>4, <1>7, <2>1, <2>3
<1>10. ASSUME ~Known(x), x = arg
       PROVE  get_variable(x)' = reg
  <2>1. M = {n + 1}
    BY <1>5, <1>10 DEF Known
  <2>2. n + 1 \in M /\ \A l \in M : n + 1 <= l
    BY <1>1, <2>1
  <2>3. (CHOOSE c \in M : \A l \in M : c <= l) = n + 1
    BY <1>8, <2>2, Smallest
  <2> QED
    BY <1>1, <1>7, <2>3
<1> QED
  BY <1>6, <1>9, <1>10

\* What a new variable holds.
LEMMA FreshCell ==
  ASSUME NEW m \in Memory, NEW reg, reg.location \in Nat, NEW type \in {"int", "float"},
         reg.type = type, reg.length = 0, reg.location + SizeOf(type) <= STACK_SIZE,
         Spells(m, reg.location, type, Zero(type)[2])
  PROVE  Cell(m, reg) = [elems |-> << << Zero(type) >> >>, length |-> 0]
<1> DEFINE a == reg.location
<1> DEFINE s == SizeOf(type)
<1> DEFINE w == Zero(type)[2]
<1>1. variable_type_size(type) = s
  BY DEF variable_type_size
<1>2. /\ s \in Nat /\ a \in Nat /\ a + s \in 0 .. STACK_SIZE /\ a \in 0 .. a + s
      /\ a + s \in 0 .. a + s /\ a + s <= a + s /\ STACK_SIZE \in Nat
  BY Sizes, VMAssumption
<1>3. Elements(reg) = 1
  BY DEF Elements
<1>4. a + (1 - 1) * s = a /\ a + 1 * s = a + s
  BY <1>2
<1>5. Zero(type) = <<type, w>>
  BY DEF Zero
<1>6. DecodeIn(m, a, a + s) = << Zero(type) >>
  <2> HIDE DEF a, w
  <2>1. Spells(m, a, type, w)
    BY DEF a, w
  <2>2. DecodeIn(m, a, a + s) = << <<type, w>> >> \o DecodeIn(m, a + s, a + s)
    <3> DEFINE to == a + s
    <3>1. /\ to \in 0 .. STACK_SIZE /\ a \in 0 .. to
          /\ a + SizeOf(type) <= to /\ a + SizeOf(type) = to
      BY <1>2
    <3> HIDE DEF to
    <3>2. DecodeIn(m, a, to) = << <<type, w>> >> \o DecodeIn(m, a + SizeOf(type), to)
      BY ONLY <2>1, <3>1, m \in Memory, type \in {"int", "float"}, FirstValue
    <3> QED
      BY <3>1, <3>2 DEF to
  <2>3. DecodeIn(m, a + s, a + s) = <<>>
    BY <1>2, DecodeEquation
  <2>4. << <<type, w>> >> \o <<>> = << <<type, w>> >>
    OBVIOUS
  <2> QED
    BY <1>5, <2>2, <2>3, <2>4
<1> HIDE DEF s
<1>7. ElementsIn(m, reg) = [k \in 1 .. 1 |-> DecodeIn(m, a + (k - 1) * s, a + k * s)]
  BY <1>1, <1>3 DEF ElementsIn
<1> HIDE DEF a, w
<1>8. ElementsIn(m, reg) = << << Zero(type) >> >>
  <2>1. [k \in 1 .. 1 |-> DecodeIn(m, a + (k - 1) * s, a + k * s)]
          = << DecodeIn(m, a + (1 - 1) * s, a + 1 * s) >>
    OBVIOUS
  <2> QED
    BY <1>4, <1>6, <1>7, <2>1
<1> QED
  BY <1>8 DEF Cell

LEMMA FreshIs ==
  ASSUME NEW type
  PROVE  Machine!Fresh(type) =
           [elems |-> << << IF type = "int" THEN <<"int", 0>> ELSE <<"float", FloatOf(0)>> >> >>,
            length |-> 0]
BY DEF Machine!Fresh

LEMMA CreatedContents ==
  ASSUME MachineInv, MachineInv',
         NEW op, NEW type, <<op, type>> \in {<<"IVAR", "int">>, <<"FVAR", "float">>},
         CreateVariable(op, type), variable_regs' # variable_regs,
         current \in DOMAIN program.at, instr[1] = op
  PROVE  Contents' = Machine!NextStore
<1> USE DEF MachineInv
<1>0. /\ op \in {"IVAR", "FVAR"} /\ type \in {"int", "float"}
      /\ \/ op = "IVAR" /\ type = "int"
         \/ op = "FVAR" /\ type = "float"
  OBVIOUS
<1> DEFINE reg == [name |-> heap_ptr, location |-> heap_ptr + StringSize[arg],
                   type |-> type, length |-> 0]
<1>1. /\ arg \in Name /\ reg \in Variable
      /\ End(reg) = reg.location + SizeOf(type) /\ End(reg) \in Nat /\ End(reg) <= stack_ptr
      /\ Spells(mem', reg.location, type, Zero(type)[2])
      /\ \A b \in Address : b < heap_ptr \/ b >= heap_ptr' => mem'[b] = mem[b]
  BY <1>0, Created
<1>2. mem \in Memory /\ mem' \in Memory
  BY DEF RestOK, Memory
<1>3. Cell(mem', reg) = Machine!Fresh(type)
  <2>1. /\ reg.location \in Nat /\ reg.type = type /\ reg.length = 0
        /\ reg.location + SizeOf(type) <= STACK_SIZE
    BY <1>1, VMAssumption DEF Variable, MemInv, MemoryDisjoint
  <2> HIDE DEF reg
  <2>2. Cell(mem', reg) = [elems |-> << << Zero(type) >> >>, length |-> 0]
    BY <1>0, <1>1, <1>2, <2>1, FreshCell
  <2>3. Zero(type) = IF type = "int" THEN <<"int", 0>> ELSE <<"float", FloatOf(0)>>
    BY <1>0 DEF Zero
  <2> QED
    BY <2>2, <2>3, FreshIs
<1>4. ASSUME NEW x \in Name
      PROVE  /\ Known(x)' <=> Known(x) \/ x = arg
             /\ Known(x) => get_variable(x)' = get_variable(x)
             /\ ~Known(x) /\ x = arg => get_variable(x)' = reg
  BY <1>0, CreatedNames
<1>5. ASSUME NEW x \in Name, Known(x)
      PROVE  Cell(mem', get_variable(x)') = Contents[x]
  <2>1. PICK k \in DOMAIN variable_regs : get_variable(x) = variable_regs[k]
    BY <1>5, Found
  <2> DEFINE r == variable_regs[k]
  <2>2. /\ r.location \in Nat /\ End(r) \in Nat /\ End(r) <= heap_ptr
        /\ heap_ptr <= STACK_SIZE /\ heap_ptr \in Nat /\ STACK_SIZE \in Nat
    BY VariableLies
  <2>3. \A b \in r.location .. End(r) - 1 : mem[b] = mem'[b]
    <3> SUFFICES ASSUME NEW b \in r.location .. End(r) - 1 PROVE mem[b] = mem'[b]
      OBVIOUS
    <3>1. b \in Address /\ b < heap_ptr
      BY <2>2 DEF Address
    <3> QED
      BY <1>1, <3>1
  <2>4. Cell(mem, r) = Cell(mem', r)
    BY <1>2, <2>3, CellSame
  <2> QED
    BY <1>4, <1>5, <2>1, <2>4, ContentsAre
<1> DEFINE new == [x \in DOMAIN Contents \cup {arg} |->
                     IF x = arg THEN Machine!Fresh(type) ELSE Contents[x]]
<1> HIDE DEF reg
<1>6. DOMAIN Contents = {x \in Name : Known(x)}
  BY ContentsAre
<1>7. Contents' = [x \in {y \in Name : Known(y) \/ y = arg} |-> Cell(mem', get_variable(x)')]
  BY <1>4, ContentsAre
<1>8. CASE Known(arg)
  <2>1. {y \in Name : Known(y) \/ y = arg} = {y \in Name : Known(y)}
    BY <1>8
  <2>2. Contents' = Contents
    BY <1>5, <1>7, <2>1, ContentsAre
  <2>3. Machine!Known
    BY <1>1, <1>8, VariableIs, SameInstruction DEF Machine!Known
  <2>4. Machine!NextStore = Contents
    BY <1>0, <2>3, SameInstruction DEF Machine!NextStore
  <2> QED
    BY <2>2, <2>4
<1>9. CASE ~Known(arg)
  <2>1. {y \in Name : Known(y) \/ y = arg} = DOMAIN Contents \cup {arg}
    BY <1>1, <1>6
  <2>2. ASSUME NEW x \in DOMAIN Contents \cup {arg}
        PROVE  Cell(mem', get_variable(x)') = IF x = arg THEN Machine!Fresh(type) ELSE Contents[x]
    <3>1. CASE x = arg
      BY <1>1, <1>3, <1>4, <1>9, <3>1
    <3>2. CASE x # arg
      BY <1>5, <1>6, <3>2
    <3> QED
      BY <3>1, <3>2
  <2>3. Contents' = new
    BY <1>7, <2>1, <2>2
  <2>4. ~Machine!Known
    BY <1>1, <1>9, VariableIs, SameInstruction DEF Machine!Known
  <2>5. Machine!NextStore = new
    BY <1>0, <2>4, SameInstruction DEF Machine!NextStore
  <2> QED
    BY <2>3, <2>5
<1> QED
  BY <1>8, <1>9

LEMMA CreateSimulated ==
  ASSUME MachineInv, MachineInv',
         NEW op, NEW type, <<op, type>> \in {<<"IVAR", "int">>, <<"FVAR", "float">>},
         CreateVariable(op, type)
  PROVE  Machine!Next
<1>0. /\ op \in {"IVAR", "FVAR"} /\ type \in {"int", "float"}
  OBVIOUS
<1>1. result = Running /\ current \in DOMAIN program.at /\ instr[1] = op /\ instr[1] # "HALT"
  BY <1>0 DEF CreateVariable, Fetching
<1>2. /\ Machine!Pops = <<>> /\ Len(Machine!Pops) = 0
      /\ Machine!Typed(Values, Machine!Pops)
      /\ Machine!NextCurrent = Following
  BY <1>0, <1>1, NoOperands
<1>3. Machine!Defined
  BY <1>0, <1>1, <1>2, SameInstruction, Opcodes DEF Machine!Defined, NoOperation
<1> DEFINE n == StringSize[arg]
<1> DEFINE size == SizeOf(type)
<1>4. /\ arg \in Name /\ n \in Nat /\ n >= 1 /\ size \in Nat /\ variable_type_size(type) = size
      /\ heap_ptr \in Nat /\ stack_ptr \in Nat /\ STACK_SIZE \in Nat
  <2>1. arg \in Name
    BY <1>0, <1>1, NameOfVariable DEF OnVariables
  <2> QED
    BY <1>0, <2>1, StackIs, Sizes DEF variable_type_size, MachineInv, MemInv
<1>5. Machine!NextVals = Values /\ Machine!Pushes = <<>>
  <2>1. Machine!Pushes = <<>>
    BY <1>0, <1>1, SameInstruction, Opcodes DEF Machine!Pushes, NoOperation
  <2>2. <<>> \o Values = Values
    BY StackIs, ConcatEmptySeq
  <2>3. SubSeq(Values, Len(Machine!Pops) + 1, Len(Values)) = Values
    BY <1>2, StackIs DEF After
  <2> QED
    BY <2>1, <2>2, <2>3 DEF Machine!NextVals
<1>6. Machine!Creates /\ Machine!Taken = n + size
  <2>1. (IF op = "IVAR" THEN "int" ELSE "float") = type
    OBVIOUS
  <2>2. Machine!SizeOf(type) = size
    BY Zenon DEF Machine!SizeOf, SizeOf
  <2>3. Machine!opcode = op /\ Machine!arg = arg
    BY <1>1, SameInstruction
  <2>4. Machine!Creates
    BY <1>0, <2>3 DEF Machine!Creates
  <2> QED
    BY <2>1, <2>2, <2>3, <2>4 DEF Machine!Taken
<1>7. Machine!Width(Values) = STACK_SIZE - stack_ptr
  <2>1. mem \in Memory /\ stack_ptr \in 0 .. STACK_SIZE /\ STACK_SIZE \in 0 .. STACK_SIZE
    BY StackIs DEF MachineInv, RestOK, Memory
  <2> QED
    BY <2>1, ValuesDecoded, WidthDecoded
<1> HIDE DEF n, size
<1>8. HeapKept
  BY <1>0, CreateKeeps DEF MachineInv
<1>9. CASE variable_regs' = variable_regs
  <2>1. Contents' = Contents
    BY <1>8, <1>9, HeapKeptContents
  <2>2. Fail
    <3>1. \A r : Append(variable_regs, r) # variable_regs
      <4> SUFFICES ASSUME NEW r PROVE Append(variable_regs, r) # variable_regs
        OBVIOUS
      <4>1. variable_regs \in Seq(Variable) /\ Len(variable_regs) \in Nat
        BY LenProperties DEF MachineInv, MemInv
      <4>2. Len(Append(variable_regs, r)) = Len(variable_regs) + 1
        BY <4>1
      <4> QED
        BY <4>1, <4>2
    <3> QED
      BY <1>9, <3>1 DEF CreateVariable, FailUnchanged
  <2>3. RegistryFull \/ Unnamed(arg) \/ ~heap_alloc(n) \/ ~heap_alloc(n + size)
    <3> SUFFICES ASSUME ~RegistryFull, ~Unnamed(arg), heap_alloc(n), heap_alloc(n + size)
                 PROVE  FALSE
      OBVIOUS
    <3>1. Continue(Following)
      BY <1>4 DEF CreateVariable, n
    <3> QED
      BY <1>1, <2>2, <3>1 DEF Continue, Fail, Running, Returned
  <2>4. ~heap_alloc(n) \/ ~heap_alloc(n + size) =>
          ~((heap_ptr + (n + size)) + (STACK_SIZE - stack_ptr) <= STACK_SIZE)
    BY <1>4 DEF heap_alloc
  <2>5. ~Machine!Fits
    <3>1. Machine!arg = arg
      BY SameInstruction
    <3>2. Unnamed(arg) => ~(StringSize[arg] > 1)
      BY DEF Unnamed
    <3>3. RegistryFull => ~(Len(variable_regs) < MAXIMUM_VARIABLES)
      BY VMAssumption DEF RegistryFull
    <3> QED
      BY <1>5, <1>6, <1>7, <2>3, <2>4, <3>1, <3>2, <3>3 DEF Machine!Fits
  <2> QED
    BY <1>0, <1>1, <1>3, <2>1, <2>2, <2>5, Failure
<1>10. CASE variable_regs' # variable_regs
  <2> DEFINE reg == [name |-> heap_ptr, location |-> heap_ptr + StringSize[arg],
                     type |-> type, length |-> 0]
  <2>1. /\ Continue(Following) /\ UNCHANGED <<stack_ptr, error>>
        /\ heap_ptr' = End(reg) /\ End(reg) <= stack_ptr
        /\ \A b \in Address : b < heap_ptr \/ b >= heap_ptr' => mem'[b] = mem[b]
    BY <1>0, <1>10, Created DEF MachineInv
  <2>2. Contents' = Machine!NextStore
    BY <1>1, <1>10, CreatedContents
  <2>3. Values' = Values
    <3>1. SameFrom(mem', mem, stack_ptr)
      <4> SUFFICES ASSUME NEW b \in Address, b >= stack_ptr PROVE mem'[b] = mem[b]
        BY DEF SameFrom
      <4>1. heap_ptr' \in Nat /\ heap_ptr' <= stack_ptr
        BY <2>1 DEF MachineInv, MemInv
      <4>2. b >= heap_ptr'
        BY <4>1, StackIs DEF Address
      <4> QED
        BY <2>1, <4>2
    <3>2. mem \in Memory /\ mem' \in Memory
      BY DEF MachineInv, RestOK, Memory
    <3>3. DecodeIn(mem', stack_ptr, STACK_SIZE) = DecodeIn(mem, stack_ptr, STACK_SIZE)
      BY <3>1, <3>2, StackIs, TailSame
    <3> QED
      BY <2>1, <3>3, ValuesDecoded
  <2>4. /\ heap_ptr' = heap_ptr + Machine!Taken
        /\ ~RegistryFull /\ ~Unnamed(arg)
        /\ Len(variable_regs') = Len(variable_regs) + 1
    <3>1. /\ ~RegistryFull /\ ~Unnamed(arg) /\ heap_ptr' = heap_ptr + n + size
          /\ \E r : variable_regs' = Append(variable_regs, r)
      BY <1>4, <1>10 DEF CreateVariable, n
    <3>2. heap_ptr + n + size = heap_ptr + (n + size)
      BY <1>4
    <3>3. variable_regs \in Seq(Variable)
      BY DEF MachineInv, MemInv
    <3> QED
      BY <1>6, <3>1, <3>2, <3>3
  <2>5. Len(variable_regs) < MAXIMUM_VARIABLES /\ StringSize[arg] > 1
    <3>1. /\ Len(variable_regs) <= MAXIMUM_VARIABLES /\ Len(variable_regs) # MAXIMUM_VARIABLES
          /\ Len(variable_regs) \in Nat /\ MAXIMUM_VARIABLES \in Nat
      BY <2>4, VMAssumption, LenProperties DEF RegistryFull, MachineInv, RestOK, MemInv
    <3>2. StringSize[arg] # 1
      BY <2>4 DEF Unnamed
    <3> QED
      BY <1>4, <3>1, <3>2 DEF n
  <2>6. Values' = Machine!NextVals
    BY <1>5, <2>3
  <2> QED
    BY <1>1, <1>2, <1>3, <1>6, <2>1, <2>2, <2>4, <2>5, <2>6, Execution DEF Continue
<1> QED
  BY <1>9, <1>10

(***************************************************************************)
(* Stores.                                                                 *)
(***************************************************************************)
LEMMA FirstReplaced ==
  ASSUME NEW S, NEW s \in Seq(S), Len(s) >= 1, NEW v \in S
  PROVE  << v >> \o After(s, 1) = [s EXCEPT ![1] = v]
<1> DEFINE r == After(s, 1)
<1> DEFINE t == << v >> \o r
<1>1. Len(s) \in Nat /\ 1 \in 0 .. Len(s)
  BY LenProperties
<1>2. r \in Seq(S) /\ Len(r) = Len(s) - 1
  BY <1>1, AfterIs
<1>3. \A k \in 1 .. Len(s) - 1 : r[k] = s[k + 1]
  BY <1>1, SubSeqProperties DEF After
<1> HIDE DEF r
<1>4. t \in Seq(S) /\ Len(t) = Len(s) /\ t[1] = v
  BY <1>1, <1>2, ConcatProperties
<1>5. \A k \in 1 .. Len(s) - 1 : t[k + 1] = r[k]
  <2> SUFFICES ASSUME NEW k \in 1 .. Len(s) - 1 PROVE t[k + 1] = r[k]
    OBVIOUS
  <2> QED
    BY <1>1, <1>2, ConcatProperties
<1> HIDE DEF t
<1> DEFINE u == [s EXCEPT ![1] = v]
<1>6. DOMAIN s = 1 .. Len(s) /\ DOMAIN t = 1 .. Len(s)
  BY <1>4, LenProperties
<1>7. s = [k \in 1 .. Len(s) |-> s[k]] /\ t = [k \in 1 .. Len(s) |-> t[k]]
  BY <1>4, <1>6, SeqDef
<1>8. \A k \in 1 .. Len(s) : t[k] = u[k]
  <2> SUFFICES ASSUME NEW k \in 1 .. Len(s) PROVE t[k] = u[k]
    OBVIOUS
  <2>1. CASE k = 1
    BY <1>4, <1>6, <2>1
  <2>2. CASE k # 1
    <3>1. k - 1 \in 1 .. Len(s) - 1 /\ (k - 1) + 1 = k
      BY <1>1, <2>2
    <3>2. t[k] = r[k - 1] /\ r[k - 1] = s[k]
      BY <1>3, <1>5, <3>1
    <3> QED
      BY <1>6, <2>2, <3>2
  <2> QED
    BY <2>1, <2>2
<1>9. DOMAIN u = 1 .. Len(s) /\ u = [k \in 1 .. Len(s) |-> u[k]]
  BY <1>6, <1>7
<1>10. t = u
  BY <1>7, <1>8, <1>9
<1> QED
  BY <1>10 DEF t, r

\* Beyond the value that is stored nothing changes.
SameBeyond(m1, m2, from, to) == \A b \in from .. to - 1 : m1[b] = m2[b]

LEMMA PartSame ==
  ASSUME NEW m1 \in Memory, NEW m2 \in Memory, NEW to \in 0 .. STACK_SIZE, NEW a \in 0 .. to,
         NEW from \in Int, NEW end \in Int, from <= a, to <= end, SameBeyond(m1, m2, from, end)
  PROVE  DecodeIn(m1, a, to) = DecodeIn(m2, a, to)
<1> DEFINE n == to - a
<1>1. to \in Nat /\ n \in Nat /\ n = to - a /\ STACK_SIZE \in Nat
  BY VMAssumption
<1>2. PICK d1 : Solution(d1, m1, a, to) /\ DecodeIn(m1, a, to) = d1[a]
  BY DecodeSolved
<1>3. PICK d2 : Solution(d2, m2, a, to) /\ DecodeIn(m2, a, to) = d2[a]
  BY DecodeSolved
<1>4. Solved(d1, m1, a, to) /\ Solved(d2, m2, a, to)
  BY <1>2, <1>3 DEF Solution, Solved
<1>5. SameBytes(m1, to, m2, to, n)
  <2> SUFFICES ASSUME NEW i \in 1 .. n
               PROVE  m1[to - i] = m2[to - i]
    BY DEF SameBytes
  <2>1. to - i \in from .. end - 1
    BY <1>1
  <2> QED
    BY <2>1 DEF SameBeyond
<1> HIDE DEF n
<1>6. d1[a] = d2[a]
  BY <1>1, <1>4, <1>5, SolvedAlike
<1> QED
  BY <1>2, <1>3, <1>6

\* The first value of the first element gives way to another of its type.
LEMMA StoredElements ==
  ASSUME NEW m1 \in Memory, NEW m2 \in Memory, NEW reg, reg.location \in Nat,
         Elements(reg) \in Nat, Elements(reg) >= 1, End(reg) \in Nat, End(reg) <= STACK_SIZE,
         NEW size, size = variable_type_size(reg.type),
         NEW s, s = DecodeIn(m1, reg.location, reg.location + size),
         NEW type \in {"int", "float"}, Len(s) >= 1, s[1][1] = type,
         NEW w, Spells(m2, reg.location, type, w), <<type, w>> \in Items,
         SameBeyond(m1, m2, reg.location + SizeOf(type), End(reg))
  PROVE  ElementsIn(m2, reg)
           = [ElementsIn(m1, reg) EXCEPT ![1] = [ElementsIn(m1, reg)[1] EXCEPT ![1] = <<type, w>>]]
<1> DEFINE a == reg.location
<1> DEFINE b == a + SizeOf(type)
<1> DEFINE to == a + size
<1>1. 1 \in 1 .. Elements(reg) /\ size \in Nat /\ a \in Nat /\ STACK_SIZE \in Nat
  BY Sizes, VMAssumption
<1>2. a + (1 - 1) * size = a /\ a + 1 * size = to
  BY <1>1
<1>3. /\ to \in 0 .. STACK_SIZE /\ a \in 0 .. to /\ to <= End(reg)
  <2> DEFINE from == a + (1 - 1) * size
  <2>1. from + size <= End(reg) /\ from + size \in 0 .. STACK_SIZE /\ from \in 0 .. from + size
    BY <1>1, ElementLies
  <2> QED
    BY <1>2, <2>1
<1>4. s = DecodeIn(m1, a, to) /\ s \in Seq(Items)
  BY <1>3, DecodeEquation
<1> HIDE DEF to, b
<1>5. b \in 0 .. to /\ After(s, 1) = DecodeIn(m1, b, to)
  BY <1>3, <1>4, FirstItem DEF b
<1>6. DecodeIn(m2, a, to) = << <<type, w>> >> \o DecodeIn(m2, b, to)
  <2>1. a + SizeOf(type) <= to /\ Spells(m2, a, type, w)
    BY <1>3, <1>5 DEF b
  <2> HIDE DEF a
  <2>2. DecodeIn(m2, a, to) = << <<type, w>> >> \o DecodeIn(m2, a + SizeOf(type), to)
    BY ONLY <1>3, <2>1, type \in {"int", "float"}, m2 \in Memory, FirstValue
  <2> QED
    BY <2>2 DEF b
<1>7. DecodeIn(m1, b, to) = DecodeIn(m2, b, to)
  <2>1. SameBeyond(m1, m2, b, End(reg)) /\ b \in Int /\ b <= b
    BY <1>3, <1>5 DEF b
  <2> QED
    BY <1>3, <1>5, <2>1, PartSame
<1>8. DecodeIn(m2, a, to) = [s EXCEPT ![1] = <<type, w>>]
  <2> DEFINE v == <<type, w>>
  <2>1. v \in Items
    OBVIOUS
  <2> HIDE DEF v
  <2>2. << v >> \o After(s, 1) = [s EXCEPT ![1] = v]
    BY ONLY <1>4, <2>1, Len(s) >= 1, FirstReplaced
  <2> QED
    BY <1>5, <1>6, <1>7, <2>2 DEF v
<1> DEFINE e1 == ElementsIn(m1, reg)
<1> DEFINE e2 == ElementsIn(m2, reg)
<1>9. /\ DOMAIN e1 = 1 .. Elements(reg) /\ DOMAIN e2 = 1 .. Elements(reg)
      /\ e1 = [k \in 1 .. Elements(reg) |-> e1[k]]
      /\ e2 = [k \in 1 .. Elements(reg) |-> e2[k]]
  BY DEF ElementsIn
<1>10. e1[1] = s /\ e2[1] = [s EXCEPT ![1] = <<type, w>>]
  <2>1. /\ e1[1] = DecodeIn(m1, a + (1 - 1) * size, a + 1 * size)
        /\ e2[1] = DecodeIn(m2, a + (1 - 1) * size, a + 1 * size)
    BY <1>1 DEF ElementsIn
  <2> QED
    BY <1>2, <1>4, <1>8, <2>1
<1>11. ASSUME NEW k \in 1 .. Elements(reg), k # 1
       PROVE  e1[k] = e2[k]
  <2> DEFINE from == a + (k - 1) * size
  <2>1. /\ e1[k] = DecodeIn(m1, from, a + k * size)
        /\ e2[k] = DecodeIn(m2, from, a + k * size)
    BY DEF ElementsIn
  <2>2. /\ from \in Nat /\ a + k * size = from + size /\ from + size <= End(reg)
        /\ from + size \in 0 .. STACK_SIZE /\ from \in 0 .. from + size
    BY ElementLies
  <2>3. from >= to
    <3>1. k - 1 \in Nat /\ k - 1 >= 1
      BY <1>11
    <3>2. (k - 1) * size >= size /\ (k - 1) * size \in Nat
      BY <1>1, <3>1, ProductAtLeast
    <3> QED
      BY <1>1, <3>2 DEF to
  <2> HIDE DEF from
  <2>4. SameBeyond(m1, m2, b, End(reg)) /\ b \in Int /\ b <= from
    BY <1>3, <1>5, <2>2, <2>3 DEF b
  <2>5. DecodeIn(m1, from, from + size) = DecodeIn(m2, from, from + size)
    BY <2>2, <2>4, PartSame
  <2> QED
    BY <2>1, <2>2, <2>5
<1> HIDE DEF e1, e2
<1>12. e2 = [e1 EXCEPT ![1] = [e1[1] EXCEPT ![1] = <<type, w>>]]
  BY <1>1, <1>9, <1>10, <1>11
<1> QED
  BY <1>12 DEF e1, e2

\* A name stands for the variable that bears it.
LEMMA NamedApart ==
  ASSUME MemInv, MemInv', NEW x \in Name, NEW y \in Name, x # y,
         NEW k \in DOMAIN variable_regs, k \in Matching(x),
         NEW l \in DOMAIN variable_regs, l \in Matching(y)
  PROVE  k # l
<1> SUFFICES ASSUME k = l PROVE FALSE
  OBVIOUS
<1>1. NameAt(mem, variable_regs[k], x) /\ NameAt(mem, variable_regs[k], y)
  BY MatchingIs
<1>2. variable_regs[k].name \in Nat
  BY VariableLies
<1> QED
  BY <1>1, <1>2, OneName

LEMMA StoredContents ==
  ASSUME MachineInv, MachineInv', UNCHANGED variable_regs,
         NEW x \in Name, Known(x), NEW reg, reg = get_variable(x),
         NEW type \in {"int", "float"}, Machine!Typed(Contents[x].elems[1], <<type>>),
         NEW w, <<type, w>> \in Items, mem' = Written(reg.location, Bytes(<<type, w>>))
  PROVE  /\ Contents' = [Contents EXCEPT ![x].elems[1][1] = <<type, w>>]
         /\ DecodeIn(mem', stack_ptr, STACK_SIZE) = DecodeIn(mem, stack_ptr, STACK_SIZE)
<1> USE DEF MachineInv
<1> DEFINE a == reg.location
<1> DEFINE size == variable_type_size(reg.type)
<1> DEFINE s == Contents[x].elems[1]
<1>1. PICK k \in DOMAIN variable_regs : k \in Matching(x) /\ reg = variable_regs[k]
  BY Found
<1>2. /\ a \in Nat /\ reg.name \in Nat /\ reg.name < a
      /\ Elements(reg) \in Nat /\ Elements(reg) >= 1
      /\ End(reg) \in Nat /\ End(reg) <= heap_ptr
      /\ heap_ptr <= STACK_SIZE /\ heap_ptr \in Nat /\ STACK_SIZE \in Nat
  BY <1>1, VariableLies
<1>3. /\ s = DecodeIn(mem, a, a + size) /\ a + size \in 0 .. STACK_SIZE
      /\ a \in 0 .. a + size /\ size \in Nat
  BY FirstElement
<1>4. Len(s) >= 1 /\ s[1][1] = type
  BY DEF Machine!Typed
<1>5. mem \in Memory /\ mem' \in Memory
  BY DEF RestOK, Memory
<1>6. a + SizeOf(type) <= a + size /\ a + size <= End(reg)
  <2> HIDE DEF s, a, size
  <2>1. a + SizeOf(type) \in 0 .. a + size
    BY <1>3, <1>4, <1>5, FirstItem
  <2>2. a + size <= End(reg)
    <3> DEFINE e == Elements(reg)
    <3>1. End(reg) = a + e * size
      BY DEF End, a, size
    <3>2. e * size >= size /\ e * size \in Nat
      BY <1>2, <1>3, ProductAtLeast
    <3> HIDE DEF e
    <3> QED
      BY <1>2, <1>3, <3>1, <3>2
  <2> QED
    BY <1>3, <2>1, <2>2
<1>7. /\ Spells(mem', a, type, w)
      /\ \A b \in Address : b < a \/ b >= a + SizeOf(type) => mem'[b] = mem[b]
  <2>1. a + SizeOf(type) <= STACK_SIZE
    BY <1>2, <1>3, <1>6, Sizes
  <2> QED
    BY <1>2, <2>1, WrittenSpells
<1>8. SizeOf(type) \in Nat
  BY Sizes
<1> HIDE DEF s, a, size
\* The bytes of the other variables, and of all names, stay.
<1>9. ASSUME NEW l \in DOMAIN variable_regs, l # k,
             NEW b \in variable_regs[l].name .. End(variable_regs[l]) - 1
      PROVE  mem'[b] = mem[b]
  <2>1. /\ variable_regs[l].name \in Nat /\ End(variable_regs[l]) \in Nat
        /\ End(variable_regs[l]) <= heap_ptr
    BY VariableLies
  <2>2. End(variable_regs[k]) <= variable_regs[l].name \/ End(variable_regs[l]) <= variable_regs[k].name
    BY <1>1, <1>9, VariablesApart
  <2>3. b \in Address /\ (b < a \/ b >= a + SizeOf(type))
    BY <1>1, <1>2, <1>3, <1>6, <1>8, <2>1, <2>2 DEF Address
  <2> QED
    BY <1>7, <2>3
<1>10. NamesKept
  <2> SUFFICES ASSUME NEW l \in DOMAIN variable_regs,
                      NEW b \in variable_regs[l].name .. variable_regs[l].location - 1
               PROVE  mem'[b] = mem[b]
    BY DEF NamesKept
  <2>1. /\ variable_regs[l].name \in Nat /\ End(variable_regs[l]) \in Nat
        /\ variable_regs[l].location \in Nat
        /\ variable_regs[l].location + 2 <= End(variable_regs[l])
        /\ End(variable_regs[l]) <= heap_ptr
    BY VariableLies
  <2>2. CASE l = k
    <3>1. b < a /\ b \in Address
      BY <1>1, <1>2, <2>1, <2>2 DEF Address, a
    <3> QED
      BY <1>7, <3>1
  <2>3. CASE l # k
    <3>1. b \in variable_regs[l].name .. End(variable_regs[l]) - 1
      BY <2>1
    <3> QED
      BY <1>9, <2>3, <3>1
  <2> QED
    BY <2>2, <2>3
<1>11. \A y \in Name : (Known(y)' <=> Known(y)) /\ get_variable(y)' = get_variable(y)
  BY <1>10, VariablesSame
<1>12. ASSUME NEW y \in Name, Known(y), y # x
       PROVE  Cell(mem', get_variable(y)') = Contents[y]
  <2>1. PICK l \in DOMAIN variable_regs : l \in Matching(y) /\ get_variable(y) = variable_regs[l]
    BY <1>12, Found
  <2>2. l # k
    BY <1>1, <1>12, <2>1, NamedApart
  <2> DEFINE r == variable_regs[l]
  <2>3. \A b \in r.location .. End(r) - 1 : mem[b] = mem'[b]
    <3> SUFFICES ASSUME NEW b \in r.location .. End(r) - 1 PROVE mem[b] = mem'[b]
      OBVIOUS
    <3>1. b \in r.name .. End(r) - 1
      BY VariableLies
    <3> QED
      BY <1>9, <2>2, <3>1
  <2>4. Cell(mem, r) = Cell(mem', r)
    BY <1>5, <2>3, CellSame
  <2> QED
    BY <1>11, <1>12, <2>1, <2>4, ContentsAre
<1>13. Contents[x] = [elems |-> ElementsIn(mem, reg), length |-> reg.length]
  BY ContentsAre DEF Cell
<1> DEFINE e == ElementsIn(mem, reg)
<1>14. e[1] = s /\ Contents[x].elems = e
  BY <1>13 DEF s
<1>15. ElementsIn(mem', reg) = [e EXCEPT ![1] = [e[1] EXCEPT ![1] = <<type, w>>]]
  <2>1. SameBeyond(mem, mem', a + SizeOf(type), End(reg))
    <3> SUFFICES ASSUME NEW b \in a + SizeOf(type) .. End(reg) - 1 PROVE mem[b] = mem'[b]
      BY DEF SameBeyond
    <3>1. b \in Address /\ b >= a + SizeOf(type)
      BY <1>2, <1>8 DEF Address
    <3> QED
      BY <1>7, <3>1
  <2>2. s = DecodeIn(mem, reg.location, reg.location + size) /\ size = variable_type_size(reg.type)
    BY <1>3 DEF a, size
  <2>3. /\ Spells(mem', reg.location, type, w) /\ reg.location \in Nat
        /\ SameBeyond(mem, mem', reg.location + SizeOf(type), End(reg))
        /\ Elements(reg) \in Nat /\ Elements(reg) >= 1
        /\ End(reg) \in Nat /\ End(reg) <= STACK_SIZE
        /\ type \in {"int", "float"} /\ <<type, w>> \in Items
    BY <1>2, <1>7, <2>1 DEF a
  <2> HIDE DEF e
  <2>4. ElementsIn(mem', reg)
          = [ElementsIn(mem, reg) EXCEPT ![1] = [ElementsIn(mem, reg)[1] EXCEPT ![1] = <<type, w>>]]
    BY ONLY <1>4, <1>5, <2>2, <2>3, StoredElements
  <2> QED
    BY <2>4 DEF e
<1>16. Cell(mem', get_variable(x)') =
         [elems |-> [e EXCEPT ![1] = [e[1] EXCEPT ![1] = <<type, w>>]], length |-> reg.length]
  BY <1>11, <1>15 DEF Cell
<1> HIDE DEF e
<1>17. Contents' = [Contents EXCEPT ![x].elems[1][1] = <<type, w>>]
  <2> DEFINE new == [Contents EXCEPT ![x].elems[1][1] = <<type, w>>]
  <2>1. DOMAIN Contents = {y \in Name : Known(y)}
        /\ Contents' = [y \in DOMAIN Contents |-> Cell(mem', get_variable(y)')]
    BY <1>11, ContentsAre
  <2>2. x \in DOMAIN Contents
    BY <2>1
  <2>3. new[x] = [elems |-> [e EXCEPT ![1] = [e[1] EXCEPT ![1] = <<type, w>>]], length |-> reg.length]
    BY <1>13, <1>14, <2>2
  <2>4. \A y \in DOMAIN Contents : y # x => new[y] = Contents[y]
    OBVIOUS
  <2>5. new = [y \in DOMAIN Contents |-> new[y]]
    OBVIOUS
  <2> HIDE DEF new
  <2>6. \A y \in DOMAIN Contents : Cell(mem', get_variable(y)') = new[y]
    BY <1>12, <1>16, <2>1, <2>3, <2>4
  <2> QED
    BY <2>1, <2>5, <2>6 DEF new
<1>18. DecodeIn(mem', stack_ptr, STACK_SIZE) = DecodeIn(mem, stack_ptr, STACK_SIZE)
  <2>1. SameFrom(mem', mem, stack_ptr)
    <3> SUFFICES ASSUME NEW b \in Address, b >= stack_ptr PROVE mem'[b] = mem[b]
      BY DEF SameFrom
    <3>1. b >= a + SizeOf(type)
      BY <1>2, <1>3, <1>6, <1>8, StackIs DEF Address, MemInv, MemoryDisjoint
    <3> QED
      BY <1>7, <3>1
  <2> QED
    BY <1>5, <2>1, StackIs, TailSame
<1> QED
  BY <1>17, <1>18

LEMMA StoreSimulated ==
  ASSUME MachineInv, MachineInv', NEW op, NEW type,
         <<op, type>> \in {<<"ISTORE", "int">>, <<"FSTORE", "float">>}, Store(op, type)
  PROVE  Machine!Next
<1>1. /\ result = Running /\ current \in DOMAIN program.at /\ instr[1] = op
      /\ UNCHANGED variable_regs
  BY DEF Store, Fetching
<1>2. /\ type \in {"int", "float"} /\ op \notin {"HALT", "IVAR", "FVAR"}
      /\ \/ op = "ISTORE" /\ type = "int"
         \/ op = "FSTORE" /\ type = "float"
  OBVIOUS
<1>3. UNCHANGED program
  BY DEF Store, Continue, FailUnchanged, Fail, Lose
<1>4. arg \in Name
  BY <1>1, <1>2, NameOfVariable DEF OnVariables
<1>5. Machine!Pops = <<type>> /\ Len(Machine!Pops) = 1
  BY <1>1, <1>2, SameInstruction, Opcodes DEF Machine!Pops, NoOperation
<1>6. Machine!Defined <=> /\ Machine!Typed(Values, <<type>>) /\ Known(arg)
                          /\ Machine!Typed(Contents[arg].elems[1], <<type>>)
  <2>1. Machine!Known <=> Known(arg)
    BY <1>4, VariableIs, SameInstruction DEF Machine!Known
  <2> QED
    BY <1>1, <1>2, <1>5, <2>1, SameInstruction, Opcodes DEF Machine!Defined, NoOperation
<1>7. CASE Machine!Defined
  <2> DEFINE reg == get_variable(arg)
  <2> DEFINE size == variable_type_size(reg.type)
  <2> DEFINE s == Contents[arg].elems[1]
  <2> DEFINE w == Values[1][2]
  <2>1. /\ Holds(SizeOf(type)) /\ ReadAs(type, stack_ptr) = {w} /\ Values[1] = <<type, w>>
    BY <1>2, <1>6, <1>7, TopOperand
  <2>2. Inside(reg.location, SizeOf(type))
    <3> DEFINE a == reg.location
    <3>1. /\ s = DecodeIn(mem, a, a + size) /\ a + size \in 0 .. STACK_SIZE
          /\ a \in 0 .. a + size /\ size \in Nat
      BY <1>4, <1>6, <1>7, FirstElement
    <3>2. Len(s) >= 1 /\ s[1][1] = type
      BY <1>6, <1>7 DEF Machine!Typed
    <3>3. mem \in Memory
      BY DEF MachineInv, RestOK, Memory
    <3> HIDE DEF s, size, a
    <3>4. a + SizeOf(type) \in 0 .. a + size
      BY <1>2, <3>1, <3>2, <3>3, FirstItem
    <3>5. Inside(a, SizeOf(type))
      BY <3>1, <3>4, StackIs, Sizes DEF Inside
    <3> QED
      BY <3>5 DEF a
  <2>3. /\ mem' = Written(reg.location, Bytes(<<type, w>>))
        /\ Continue(Following) /\ UNCHANGED <<stack_ptr, heap_ptr, error>>
    BY <1>6, <1>7, <2>1, <2>2 DEF Store
  <2>4. <<type, w>> \in Items
    <3>1. Len(Values) >= 1
      BY <1>6, <1>7 DEF Machine!Typed
    <3>2. Values \in Seq(Items) /\ 1 \in 1 .. Len(Values)
      BY <3>1, StackIs
    <3>3. Values[1] \in Items
      BY <3>2, ElementOfSeq
    <3> QED
      BY <2>1, <3>3
  <2> HIDE DEF reg, size, s, w
  <2>5. /\ Contents' = [Contents EXCEPT ![arg].elems[1][1] = <<type, w>>]
        /\ DecodeIn(mem', stack_ptr, STACK_SIZE) = DecodeIn(mem, stack_ptr, STACK_SIZE)
    BY <1>1, <1>2, <1>4, <1>6, <1>7, <2>3, <2>4, StoredContents DEF reg
  <2>6. Machine!NextStore = Contents'
    <3>1. Machine!NextStore = [Contents EXCEPT ![arg].elems[1][1] = Values[1]]
      BY <1>1, <1>2, SameInstruction DEF Machine!NextStore
    <3> QED
      BY <2>1, <2>5, <3>1
  <2>7. Machine!Pushes = << Values[1] >>
    BY <1>1, <1>2, SameInstruction, Opcodes DEF Machine!Pushes, NoOperation
  <2>8. Values' = Machine!Pushes \o After(Values, Len(Machine!Pops))
    <3>1. Values' = Values
      BY <2>3, <2>5, ValuesDecoded
    <3>2. /\ Len(Values) >= 1 /\ Values \in Seq(Items) /\ Values[1] \in Items
      BY <1>6, <1>7, <2>1, <2>4, StackIs DEF Machine!Typed
    <3>3. << Values[1] >> \o After(Values, 1) = [Values EXCEPT ![1] = Values[1]]
      BY <3>2, FirstReplaced
    <3>4. [Values EXCEPT ![1] = Values[1]] = Values
      BY <3>2
    <3> QED
      BY <1>5, <2>7, <3>1, <3>3, <3>4
  <2>9. Machine!NextCurrent = Following
    BY <1>1, <1>2, SameInstruction DEF Machine!NextCurrent
  <2> QED
    BY <1>1, <1>2, <1>7, <2>3, <2>6, <2>8, <2>9, PlainExecution DEF Continue
<1>8. CASE ~Machine!Defined
  BY <1>1, <1>2, <1>3, <1>8, NoPromise
<1> QED
  BY <1>7, <1>8

(***************************************************************************)
(* Records.                                                                *)
(***************************************************************************)
LEMMA WholeIsRead ==
  ASSUME NEW a, NEW to, IsWhole(mem, a, to)
  PROVE  ReadBytes(a, SizeOf(mem[a][1])) = Bytes(<<mem[a][1], mem[a][2]>>)
BY Zenon DEF IsWhole, ReadBytes

LEMMA CallSimulated ==
  ASSUME MachineInv, MachineInv', Call
  PROVE  Machine!Next
<1>1. /\ result = Running /\ current \in DOMAIN program.at /\ instr[1] = "CALL"
      /\ UNCHANGED variable_regs /\ instr[1] \notin {"HALT", "IVAR", "FVAR"}
  BY DEF Call, Fetching
<1>2. UNCHANGED program
  BY DEF Call, PopPush, Continue, FailUnchanged, Fail
<1>3. Machine!Pops = Record
  BY <1>1, SameInstruction, Opcodes DEF Machine!Pops, NoOperation
<1>4. Machine!Defined <=> Machine!Typed(Values, Record) /\ arg \in DOMAIN Fn
  BY <1>1, <1>3, SameInstruction, Opcodes DEF Machine!Defined, NoOperation
<1>5. CASE Machine!Defined
  <2> DEFINE f == Fn[arg]
  <2> DEFINE a == stack_ptr + FieldOffset(f)
  <2> DEFINE w == mem[a][2]
  <2>1. f \in 1 .. Len(Record) /\ Len(Record) \in Nat /\ Record[f] \in {"int", "float"}
    BY <1>4, <1>5, RecordLength, BytecodeAssumption
  <2>2. mem \in Memory /\ STACK_SIZE \in 0 .. STACK_SIZE /\ stack_ptr \in 0 .. STACK_SIZE
    BY StackIs DEF MachineInv, RestOK, Memory
  <2>3. /\ \A k \in 0 .. Len(Record) :
             /\ stack_ptr + FieldOffset(k + 1) \in 0 .. STACK_SIZE
             /\ After(Values, k) = DecodeIn(mem, stack_ptr + FieldOffset(k + 1), STACK_SIZE)
        /\ \A k \in 1 .. Len(Record) :
             /\ IsWhole(mem, stack_ptr + FieldOffset(k), STACK_SIZE)
             /\ Values[k] = Item(mem, stack_ptr + FieldOffset(k))
             /\ mem[stack_ptr + FieldOffset(k)][1] = Record[k]
    BY <1>4, <1>5, <2>2, ValuesDecoded, RecordDecoded
  <2>4. /\ stack_ptr + data_size \in 0 .. STACK_SIZE
        /\ After(Values, Len(Record)) = DecodeIn(mem, stack_ptr + data_size, STACK_SIZE)
    BY <2>1, <2>3 DEF data_size
  <2>5. /\ IsWhole(mem, a, STACK_SIZE) /\ Values[f] = <<Record[f], w>> /\ mem[a][1] = Record[f]
    BY <2>1, <2>3 DEF Item
  <2>6. Holds(data_size) /\ data_size \in Nat
    BY <2>2, <2>4, StackIs, FieldsInside DEF Holds
  <2>7. PopPush(data_size, ReadBytes(a, SizeOf(Record[f])))
    BY <1>4, <1>5, <2>6 DEF Call
  <2>8. ReadBytes(a, SizeOf(Record[f])) = Bytes(<<Record[f], w>>)
    <3>1. ReadBytes(a, SizeOf(mem[a][1])) = Bytes(<<mem[a][1], mem[a][2]>>)
      BY <2>5, WholeIsRead
    <3> QED
      BY <2>5, <3>1
  <2>9. Machine!Pushes = << Values[f] >>
    BY <1>1, SameInstruction, Opcodes DEF Machine!Pushes, NoOperation
  <2>10. Machine!NextCurrent = Following /\ Machine!NextStore = Contents
    BY <1>1, SameInstruction DEF Machine!NextCurrent, Machine!NextStore
  <2> DEFINE type == Record[f]
  <2>11. /\ PopPush(data_size, Bytes(<<type, w>>)) /\ Machine!Pushes = << <<type, w>> >>
         /\ type \in {"int", "float"}
    BY <2>1, <2>5, <2>7, <2>8, <2>9
  <2>12. After(Values, Len(Machine!Pops)) = DecodeIn(mem, stack_ptr + data_size, STACK_SIZE)
    BY <1>3, <2>4
  <2> HIDE DEF type, w, a, f
  <2> QED
    BY <1>1, <1>5, <2>6, <2>10, <2>11, <2>12, Performs
<1>6. CASE ~Machine!Defined
  BY <1>1, <1>2, <1>6, NoPromise
<1> QED
  BY <1>5, <1>6

LEMMA SameFieldSum ==
  ASSUME NEW n \in Nat, NEW r, NEW q, Len(r) = n, Len(q) = n, NEW f \in DOMAIN Fn,
         Numbers(r, f, n) \in [1 .. n -> nfloat], Numbers(q, f, n) = Numbers(r, f, n)
  PROVE  FieldSum(q, f) = FieldSum(r, f)
<1> DEFINE step == Adding(Numbers(r, f, n), n)
<1>1. PICK g : Iterates(g, n, nfloat, FloatOf(0), step) /\ FieldSum(r, f) = g[n]
  BY FieldSumAdds
<1>2. PICK h : Iterates(h, n, nfloat, FloatOf(0), step) /\ FieldSum(q, f) = h[n]
  <2>1. Numbers(q, f, n) \in [1 .. n -> nfloat]
    OBVIOUS
  <2>2. \E h : /\ Iterates(h, n, nfloat, FloatOf(0), Adding(Numbers(q, f, n), n))
               /\ FieldSum(q, f) = h[n]
    BY <2>1, FieldSumAdds
  <2> QED
    BY <2>2
<1> HIDE DEF step
<1>3. g[n] = h[n]
  BY <1>1, <1>2, IteratesOnce
<1> QED
  BY <1>1, <1>2, <1>3

\* The elements of a variable.
LEMMA ElementAt ==
  ASSUME MachineInv, NEW x \in Name, Known(x), NEW reg, reg = get_variable(x),
         NEW size, size = variable_type_size(reg.type), NEW k \in 1 .. Elements(reg),
         NEW from, from = reg.location + (k - 1) * size
  PROVE  /\ Contents[x].elems[k] = DecodeIn(mem, from, from + size)
         /\ from + size \in 0 .. STACK_SIZE /\ from \in 0 .. from + size
         /\ from \in Nat /\ size \in Nat /\ from + size <= STACK_SIZE
<1>1. PICK l \in DOMAIN variable_regs : get_variable(x) = variable_regs[l]
  BY Found DEF MachineInv
<1>2. /\ reg.location \in Nat /\ Elements(reg) \in Nat
      /\ End(reg) \in Nat /\ End(reg) <= STACK_SIZE
  BY <1>1, VariableLies DEF MachineInv
<1>3. Contents[x].elems = ElementsIn(mem, reg)
  BY VariableIs
<1>4. ElementsIn(mem, reg)[k] = DecodeIn(mem, from, reg.location + k * size)
  BY DEF ElementsIn
<1>5. /\ size \in Nat /\ from \in Nat
      /\ reg.location + k * size = from + size
      /\ from + size \in 0 .. STACK_SIZE /\ from \in 0 .. from + size
  BY <1>2, ElementLies
<1>6. from + size <= STACK_SIZE
  BY <1>5, VMAssumption
<1> QED
  BY <1>3, <1>4, <1>5, <1>6

LEMMA ElementsAre ==
  ASSUME NEW x \in Name, Known(x)
  PROVE  DOMAIN Contents[x].elems = 1 .. Elements(get_variable(x))
BY VariableIs DEF ElementsIn

\* A record that is there is read field by field.
LEMMA RecordRead ==
  ASSUME MachineInv, NEW to \in 0 .. STACK_SIZE, NEW from \in 0 .. to,
         NEW s, s = DecodeIn(mem, from, to), Machine!Typed(s, Record), NEW f \in 1 .. Len(Record)
  PROVE  /\ ReadAs(Record[f], from + FieldOffset(f)) = {s[f][2]}
         /\ s[f] = <<Record[f], s[f][2]>>
<1> DEFINE a == from + FieldOffset(f)
<1>1. mem \in Memory
  BY DEF MachineInv, RestOK, Memory
<1>2. IsWhole(mem, a, to) /\ s[f] = Item(mem, a) /\ mem[a][1] = Record[f]
  BY <1>1, RecordDecoded
<1> HIDE DEF a
<1>3. ReadAs(mem[a][1], a) = {mem[a][2]}
  BY <1>2, WholeRead
<1>4. s[f] = <<Record[f], mem[a][2]>> /\ s[f][2] = mem[a][2]
  BY <1>2 DEF Item
<1> QED
  BY <1>2, <1>3, <1>4 DEF a

\* The records an ASUM reads are those that are there.
LEMMA RecordsRead ==
  ASSUME MachineInv, NEW x \in Name, Known(x), NEW reg, reg = get_variable(x),
         reg.type = "user", reg.length >= 1, NEW records, RecordsOf(reg, records),
         NEW k \in 1 .. reg.length, NEW s, s = Contents[x].elems[k], Machine!Typed(s, Record),
         NEW f \in 1 .. Len(Record)
  PROVE  records[k][f] = s[f]
<1> DEFINE from == reg.location + (k - 1) * data_size
<1>1. variable_type_size(reg.type) = data_size /\ k \in 1 .. Elements(reg)
  BY DEF variable_type_size, Elements
<1>2. /\ s = DecodeIn(mem, from, from + data_size)
      /\ from + data_size \in 0 .. STACK_SIZE /\ from \in 0 .. from + data_size
  BY <1>1, ElementAt
<1>3. f \in DOMAIN Record
  BY RecordLength
<1>4. /\ records[k] \in [DOMAIN Record -> {"int", "float"} \X (nint \cup nfloat)]
      /\ records[k][f][1] = Record[f]
      /\ records[k][f][2] \in ReadAs(Record[f], from + FieldOffset(f))
  BY <1>3 DEF RecordsOf, RecordsAt
<1> HIDE DEF from
<1>5. /\ ReadAs(Record[f], from + FieldOffset(f)) = {s[f][2]}
      /\ s[f] = <<Record[f], s[f][2]>>
  <2> DEFINE to == from + data_size
  <2>2. s = DecodeIn(mem, from, to) /\ to \in 0 .. STACK_SIZE /\ from \in 0 .. to
    BY <1>2
  <2> HIDE DEF to
  <2> QED
    BY ONLY <2>2, Machine!Typed(s, Record), MachineInv, f \in 1 .. Len(Record), RecordRead
<1>6. records[k][f] = <<records[k][f][1], records[k][f][2]>>
  BY <1>3, <1>4
<1> QED
  BY <1>4, <1>5, <1>6

LEMMA SameSums ==
  ASSUME MachineInv, NEW x \in Name, Known(x), NEW reg, reg = get_variable(x),
         reg.type = "user", reg.length >= 1, NEW records, RecordsOf(reg, records),
         NEW elems, elems = Contents[x].elems,
         \A k \in 1 .. reg.length : Machine!Typed(elems[k], Record),
         NEW f \in DOMAIN Fn
  PROVE  FieldSum(records, f) = FieldSum(elems, f)
<1> DEFINE n == reg.length
<1>1. Fn[f] \in 1 .. Len(Record)
  BY BytecodeAssumption, RecordLength
<1>2. /\ n \in Nat /\ Len(records) = n
      /\ Numbers(records, f, n) \in [1 .. n -> nfloat]
  BY NumbersTyped DEF MachineInv
<1>3. ASSUME NEW k \in 1 .. n
      PROVE  Number(records[k][Fn[f]]) = Number(elems[k][Fn[f]])
  <2>1. records[k][Fn[f]] = elems[k][Fn[f]]
    BY <1>1, RecordsRead
  <2> QED
    BY <2>1
<1>4. Numbers(elems, f, n) = Numbers(records, f, n)
  BY <1>3 DEF Numbers
<1>5. Len(elems) = n
  <2>1. Elements(reg) = n
    BY DEF Elements
  <2>2. elems = [k \in 1 .. n |-> elems[k]]
    <3>1. elems = ElementsIn(mem, reg)
      BY VariableIs
    <3> QED
      BY <2>1, <3>1 DEF ElementsIn
  <2> QED
    BY <1>2, <2>2, LengthOf
<1> HIDE DEF n
<1> QED
  BY <1>2, <1>4, <1>5, SameFieldSum

LEMMA SumSimulated ==
  ASSUME MachineInv, MachineInv', ArraySum
  PROVE  Machine!Next
<1>1. /\ result = Running /\ current \in DOMAIN program.at /\ instr[1] = "ASUM"
      /\ UNCHANGED variable_regs /\ instr[1] \notin {"HALT", "IVAR", "FVAR"}
  BY DEF ArraySum, Fetching
<1>2. UNCHANGED program
  BY DEF ArraySum, PopPush, Continue, FailUnchanged, Fail
<1>3. arg \in Name
  BY <1>1, NameOfVariable DEF OnVariables
<1>4. /\ Machine!Pops = <<>> /\ Len(Machine!Pops) = 0
      /\ Machine!Typed(Values, Machine!Pops)
      /\ After(Values, Len(Machine!Pops)) = DecodeIn(mem, stack_ptr + 0, STACK_SIZE)
      /\ Holds(0) /\ 0 \in Nat
      /\ Machine!NextCurrent = Following
  BY <1>1, NoOperands
<1> DEFINE f == instr[3]
<1> DEFINE elems == Contents[arg].elems
<1>5. Machine!Defined <=>
        /\ Known(arg) /\ f \in DOMAIN Fn /\ Contents[arg].length > 0
        /\ \A k \in DOMAIN elems : Machine!Typed(elems[k], Record)
  <2>1. Machine!Known <=> Known(arg)
    BY <1>3, VariableIs, SameInstruction DEF Machine!Known
  <2> QED
    BY <1>1, <1>4, <2>1, SameInstruction, Opcodes DEF Machine!Defined, NoOperation
<1>6. CASE Machine!Defined
  <2> DEFINE sum == FieldSum(elems, f)
  <2>1. Machine!Pushes = << <<"float", sum>> >>
    <3>1. Machine!Pushes = << <<"float", Machine!FieldSum(elems, f)>> >>
      BY <1>1, SameInstruction, Opcodes DEF Machine!Pushes, NoOperation
    <3>2. Machine!FieldSum(elems, f) = sum
      BY SameSum
    <3> QED
      BY <3>1, <3>2
  <2>2. Machine!NextStore = Contents
    BY <1>1, SameInstruction DEF Machine!NextStore
  <2> DEFINE reg == get_variable(arg)
  <2>3. PICK l \in DOMAIN variable_regs : reg = variable_regs[l]
    BY <1>5, <1>6, Found DEF MachineInv
  <2>4. reg.type = "user" /\ reg.length >= 1 /\ Elements(reg) = reg.length
    <3>1. Contents[arg].length = reg.length
      BY <1>3, <1>5, <1>6, VariableIs
    <3>2. reg.type # "user" => reg.length = 0
      BY <2>3 DEF MachineInv, HeapOK
    <3>3. reg.type = "user"
      BY <1>5, <1>6, <3>1, <3>2
    <3> QED
      BY <2>3, <3>3 DEF MachineInv, HeapOK, Elements
  <2>5. PICK records \in {q \in [1 .. reg.length -> UNION {RecordsAt(reg, k) : k \in 1 .. reg.length}] :
                            \A k \in 1 .. reg.length : q[k] \in RecordsAt(reg, k)} :
          PopPush(0, Bytes(<<"float", FieldSum(records, f)>>))
    BY <1>5, <1>6, <2>4 DEF ArraySum
  <2>6. RecordsOf(reg, records)
    BY <2>5 DEF RecordsOf
  <2>7. DOMAIN elems = 1 .. reg.length
    BY <1>3, <1>5, <1>6, <2>4, ElementsAre
  <2>8. /\ Known(arg) /\ reg = get_variable(arg)
        /\ f \in DOMAIN Fn /\ elems = Contents[arg].elems
        /\ \A k \in 1 .. reg.length : Machine!Typed(elems[k], Record)
    BY <1>5, <1>6, <2>7
  <2> HIDE DEF reg, f, elems
  <2>9. FieldSum(records, f) = FieldSum(elems, f)
    BY <1>3, <2>4, <2>6, <2>8, SameSums
  <2>10. PopPush(0, Bytes(<<"float", sum>>)) /\ "float" \in {"int", "float"}
    BY <2>5, <2>9
  <2> HIDE DEF sum
  <2> QED
    BY <1>1, <1>4, <1>6, <2>1, <2>2, <2>10, Performs
<1>7. CASE ~Machine!Defined
  BY <1>1, <1>2, <1>7, NoPromise
<1> QED
  BY <1>6, <1>7

\* The third byte of a number does not start another.
LEMMA JunkByte ==
  ASSUME NEW m \in Memory, NEW to \in 0 .. STACK_SIZE, NEW from \in 0 .. to, from # to,
         m[from][3] # 0
  PROVE  DecodeIn(m, from, to) = << NoItem >> \o DecodeIn(m, from + 1, to)
<1>1. ~IsWhole(m, from, to)
  <2> SUFFICES ASSUME IsWhole(m, from, to) PROVE FALSE
    OBVIOUS
  <2>1. from \in Nat /\ to \in Nat /\ 0 \in 0 .. SizeOf(m[from][1]) - 1 /\ from + 0 = from
    BY VMAssumption, Sizes
  <2>2. m[from] = <<m[from][1], m[from][2], 0>>
    BY <2>1, WholeBytes
  <2> QED
    BY <2>2
<1> QED
  BY <1>1, DecodeEquation

LEMMA OneField ==
  ASSUME Len(Record) = 1
  PROVE  data_size = SizeOf(Record[1])
<1>1. data_size = FieldOffset(1 + 1)
  BY DEF data_size
<1>2. 1 \in 1 .. Len(Record) /\ 1 \in 1 .. Len(Record) + 1
  OBVIOUS
<1>3. FieldOffset(1 + 1) = 0 + SizeOf(Record[1])
  BY <1>2, Offsets
<1> QED
  BY <1>1, <1>3, Sizes

LEMMA FourBytes ==
  ASSUME data_size <= 4
  PROVE  data_size \in {2, 4} /\ (data_size = 2 => Len(Record) = 1 /\ Record[1] = "int")
<1>1. /\ Len(Record) \in Nat /\ Len(Record) >= 1
      /\ \A k \in 1 .. Len(Record) : Record[k] \in {"int", "float"}
  BY RecordLength
<1>2. CASE Len(Record) = 1
  <2>1. data_size = SizeOf(Record[1]) /\ 1 \in 1 .. Len(Record)
    BY <1>2, OneField
  <2> QED
    BY <1>1, <1>2, <2>1, Sizes
<1>3. CASE Len(Record) # 1
  <2>1. 1 \in 1 .. Len(Record) /\ 2 \in 1 .. Len(Record) /\ 1 + 1 = 2
    <3> DEFINE l == Len(Record)
    <3>1. l \in Nat /\ l >= 1 /\ l # 1
      BY <1>1, <1>3
    <3> HIDE DEF l
    <3>2. 1 \in 1 .. l /\ 2 \in 1 .. l /\ 1 + 1 = 2
      BY ONLY <3>1
    <3> QED
      BY <3>2 DEF l
  <2>2. FieldOffset(2) = 0 + SizeOf(Record[1])
    BY <2>1, Offsets
  <2>3. FieldOffset(2) + SizeOf(Record[2]) <= data_size
    BY <2>1, FieldsInside
  <2>4. SizeOf(Record[1]) \in {2, 4} /\ SizeOf(Record[2]) \in {2, 4} /\ data_size \in Nat
    BY Sizes
  <2> QED
    BY <2>2, <2>3, <2>4
<1> QED
  BY <1>2, <1>3

LEMMA FourConcat ==
  ASSUME NEW S, NEW i \in S, NEW j \in S, NEW rest \in Seq(S)
  PROVE  << i >> \o (<< j >> \o (<< j >> \o rest)) = (<< i >> \o (<< j >> \o (<< j >> \o <<>>))) \o rest
<1>1. << i >> \in Seq(S) /\ << j >> \in Seq(S) /\ << j >> \o <<>> = << j >>
  OBVIOUS
<1>2. << j >> \o << j >> \in Seq(S)
  BY <1>1, ConcatProperties
<1>3. (<< i >> \o (<< j >> \o << j >>)) \o rest = << i >> \o ((<< j >> \o << j >>) \o rest)
  BY <1>1, <1>2, ConcatAssociative
<1>4. (<< j >> \o << j >>) \o rest = << j >> \o (<< j >> \o rest)
  BY <1>1, ConcatAssociative
<1> QED
  BY <1>1, <1>3, <1>4

\* No number starts at address p, nor at the next.
StartNothing(m, p) == m[p][3] # 0 /\ m[p + 1][3] # 0

LEMMA JunkBytes ==
  ASSUME NEW m \in Memory, NEW to \in 0 .. STACK_SIZE,
         NEW p \in 0 .. to, NEW end \in 0 .. to, end = p + 2, StartNothing(m, p)
  PROVE  DecodeIn(m, p, to) = << NoItem >> \o (<< NoItem >> \o DecodeIn(m, end, to))
<1> DEFINE q == p + 1
<1>1. p # to /\ q # to /\ q \in 0 .. to /\ end = q + 1
  BY VMAssumption
<1>2. m[p][3] # 0 /\ m[q][3] # 0
  BY DEF StartNothing
<1>3. DecodeIn(m, p, to) = << NoItem >> \o DecodeIn(m, q, to)
  BY <1>1, <1>2, JunkByte
<1> HIDE DEF q
<1>4. DecodeIn(m, q, to) = << NoItem >> \o DecodeIn(m, q + 1, to)
  BY <1>1, <1>2, JunkByte
<1> QED
  BY <1>1, <1>3, <1>4

\* The four bytes of a float hold an integer, and two bytes that start nothing.
HoldsInt(m, from, s) ==
  /\ from + 4 <= STACK_SIZE
  /\ s = DecodeIn(m, from, from + 4) /\ Len(s) >= 1 /\ s[1][1] = "int"
  /\ m[from + 2][3] # 0 /\ m[from + 3][3] # 0

\* They are copied as that integer and two such bytes.
LEMMA FloatCopied ==
  ASSUME NEW m \in Memory, NEW from \in Nat, NEW s, HoldsInt(m, from, s),
         NEW m2 \in Memory, NEW at \in Nat, NEW end \in 0 .. STACK_SIZE, end = at + 4,
         Copied(m, from, m2, at, 4)
  PROVE  /\ Len(s) = 3
         /\ DecodeIn(m2, at, STACK_SIZE) = s \o DecodeIn(m2, end, STACK_SIZE)
<1> DEFINE to == from + 4
<1> DEFINE w == m[from][2]
<1> DEFINE I == <<"int", w>>
<1> DEFINE rest == DecodeIn(m2, end, STACK_SIZE)
<1>0. STACK_SIZE \in Nat /\ STACK_SIZE \in 0 .. STACK_SIZE
  BY VMAssumption
<1>1. /\ to \in 0 .. STACK_SIZE /\ from \in 0 .. to /\ to \in 0 .. to /\ from # to /\ from \in Address
      /\ s = DecodeIn(m, from, to) /\ Len(s) >= 1 /\ s[1][1] = "int"
  BY <1>0 DEF HoldsInt, Address
<1> HIDE DEF to
<1>2. IsWhole(m, from, to) /\ m[from][1] = "int" /\ SizeOf("int") = 2
  BY <1>1, FirstItem, Sizes
<1>3. s = << I >> \o DecodeIn(m, from + 2, to)
  <2>1. DecodeIn(m, from, to) = << Item(m, from) >> \o DecodeIn(m, from + SizeOf(m[from][1]), to)
    BY <1>1, <1>2, DecodeEquation
  <2> QED
    BY <1>1, <1>2, <2>1 DEF Item
<1>4. DecodeIn(m, from + 2, to) = << NoItem >> \o (<< NoItem >> \o <<>>)
  <2> DEFINE p == from + 2
  <2>1. p \in 0 .. to /\ to = p + 2
    BY DEF to
  <2>2. StartNothing(m, p)
    <3>1. p + 1 = from + 3
      OBVIOUS
    <3> QED
      BY <3>1 DEF HoldsInt, StartNothing
  <2> HIDE DEF p
  <2>3. DecodeIn(m, p, to) = << NoItem >> \o (<< NoItem >> \o DecodeIn(m, to, to))
    BY <1>1, <2>1, <2>2, JunkBytes
  <2>4. DecodeIn(m, to, to) = <<>>
    BY <1>1, DecodeEquation
  <2> QED
    BY <2>3, <2>4 DEF p
<1>5. DecodeIn(m2, at + 2, STACK_SIZE) = << NoItem >> \o (<< NoItem >> \o rest)
  <2> DEFINE p == at + 2
  <2>1. p \in 0 .. STACK_SIZE /\ end = p + 2
    BY <1>0
  <2>2. StartNothing(m2, p)
    <3>1. 2 \in 0 .. 4 - 1 /\ 3 \in 0 .. 4 - 1 /\ p + 1 = at + 3
      OBVIOUS
    <3> QED
      BY <3>1 DEF Copied, HoldsInt, StartNothing
  <2> HIDE DEF p
  <2>3. DecodeIn(m2, p, STACK_SIZE) = << NoItem >> \o (<< NoItem >> \o rest)
    BY <1>0, <2>1, <2>2, JunkBytes
  <2> QED
    BY <2>3 DEF p
<1>6. DecodeIn(m2, at, STACK_SIZE) = << I >> \o DecodeIn(m2, at + 2, STACK_SIZE)
  <2>1. Spells(m2, at, "int", w)
    <3>1. \A k \in 0 .. SizeOf(m[from][1]) - 1 : m[from + k] = <<m[from][1], m[from][2], k>>
      <4>1. to \in Nat
        BY <1>0, <1>1
      <4> QED
        BY <1>1, <1>2, <4>1, WholeBytes
    <3>2. \A k \in 0 .. 2 - 1 : m[from + k] = <<"int", w, k>>
      BY <1>2, <3>1
    <3>3. \A k \in 0 .. 2 - 1 : k \in 0 .. 4 - 1
      OBVIOUS
    <3>4. \A k \in 0 .. 2 - 1 : m2[at + k] = <<"int", w, k>>
      BY <3>2, <3>3 DEF Copied
    <3> QED
      BY <1>2, <3>4 DEF Spells
  <2> DEFINE size == SizeOf("int")
  <2>2. at \in 0 .. STACK_SIZE /\ at + size <= STACK_SIZE /\ at + size = at + 2
    BY <1>0, <1>2
  <2> HIDE DEF w, size
  <2>3. DecodeIn(m2, at, STACK_SIZE) = << <<"int", w>> >> \o DecodeIn(m2, at + size, STACK_SIZE)
    BY <1>0, <2>1, <2>2, FirstValue DEF size
  <2> QED
    BY <2>2, <2>3
<1>7. rest \in Seq(Items)
  BY <1>0, DecodeEquation
<1>8. I \in Items /\ NoItem \in Items
  BY <1>1, <1>2, ItemsThere DEF Item
<1> HIDE DEF rest, I
<1>9. << I >> \o (<< NoItem >> \o (<< NoItem >> \o rest))
         = (<< I >> \o (<< NoItem >> \o (<< NoItem >> \o <<>>))) \o rest
  BY <1>7, <1>8, FourConcat
<1>10. Len(<< I >> \o (<< NoItem >> \o (<< NoItem >> \o <<>>))) = 3
  OBVIOUS
<1> QED
  BY <1>3, <1>4, <1>5, <1>6, <1>9, <1>10 DEF rest

\* The element is then that of a float variable, whose third and fourth byte start nothing.
LEMMA FloatHolds ==
  ASSUME MachineInv, NEW x \in Name, Known(x), NEW reg, reg = get_variable(x),
         NEW size, size = variable_type_size(reg.type), size # data_size,
         NEW k \in 1 .. Elements(reg),
         NEW from, from = reg.location + (k - 1) * size,
         NEW s, s = Contents[x].elems[k], Machine!Typed(s, Record)
  PROVE  size = 4 /\ HoldsInt(mem, from, s)
<1>1. /\ s = DecodeIn(mem, from, from + size) /\ from + size \in 0 .. STACK_SIZE
      /\ from \in 0 .. from + size /\ from \in Nat /\ size \in Nat /\ from + size <= STACK_SIZE
  BY ElementAt
<1>2. mem \in Memory
  BY DEF MachineInv, RestOK, Memory
<1>3. s \in Seq(Items) /\ Len(s) \in Nat
  <2> DEFINE to == from + size
  <2>1. s = DecodeIn(mem, from, to) /\ to \in 0 .. STACK_SIZE /\ from \in 0 .. to
    BY <1>1
  <2> HIDE DEF to
  <2>2. s \in Seq(Items)
    BY ONLY <1>2, <2>1, DecodeEquation
  <2> QED
    BY <2>2, LenProperties
<1>4. Len(Record) \in Nat /\ Len(Record) >= 1 /\ Len(Record) <= Len(s) /\ s[1][1] = Record[1]
  <2>1. DOMAIN Record = 1 .. Len(Record) /\ Len(Record) >= 1 /\ Len(Record) \in Nat
    BY RecordLength
  <2> QED
    BY <2>1 DEF Machine!Typed
<1>5. from + data_size \in 0 .. from + size
  <2>1. from + FieldOffset(Len(Record) + 1) \in 0 .. from + size
    <3>1. \A i \in 0 .. Len(Record) : from + FieldOffset(i + 1) \in 0 .. from + size
      BY <1>1, <1>2, RecordDecoded
    <3> QED
      BY <1>4, <3>1
  <2> QED
    BY <2>1 DEF data_size
<1>6. size = SizeOf(reg.type) /\ size \in {2, 4}
  BY Sizes DEF variable_type_size
<1>7. data_size <= size /\ data_size \in Nat
  BY <1>1, <1>5, Sizes
<1>8. data_size \in {2, 4} /\ (data_size = 2 => Len(Record) = 1 /\ Record[1] = "int")
  BY <1>6, <1>7, FourBytes
<1>9. size = 4 /\ Record[1] = "int"
  BY <1>6, <1>7, <1>8
<1>10. PICK l \in DOMAIN variable_regs : reg = variable_regs[l]
  BY Found DEF MachineInv
<1>11. reg.type = "float"
  <2>1. reg.type \in {"int", "float", "user"} /\ reg.type # "user"
    BY <1>10, VariableLies DEF Variable, variable_type_size, MachineInv
  <2>2. SizeOf("int") = 2
    BY Sizes
  <2>3. ASSUME reg.type = "int" PROVE FALSE
    <3>1. 4 = 2
      BY <1>6, <1>9, <2>2, <2>3, Zenon
    <3> QED
      BY <3>1
  <2> QED
    BY <1>6, <1>9, <2>1, <2>3
<1>12. reg.length = 0 /\ \A i \in 2 .. 3 : mem[reg.location + i][3] # 0
  BY <1>10, <1>11 DEF MachineInv, HeapOK
<1>13. from = reg.location
  <2>1. Elements(reg) = 1 /\ reg.location \in Nat
    BY <1>10, <1>12, VariableLies DEF Elements, MachineInv
  <2>2. k = 1
    BY <2>1
  <2> QED
    BY <1>9, <2>1, <2>2
<1>14. mem[from + 2][3] # 0 /\ mem[from + 3][3] # 0
  BY <1>12, <1>13
<1> QED
  BY <1>1, <1>3, <1>4, <1>9, <1>14 DEF HoldsInt

\* Element k of variable x is a record, s, in `size' bytes at address `from'.
IsRecord(x, k, from, size, s) ==
  /\ x \in Name /\ Known(x) /\ k \in 1 .. Elements(get_variable(x))
  /\ size = variable_type_size(get_variable(x).type)
  /\ from = get_variable(x).location + (k - 1) * size
  /\ s = Contents[x].elems[k] /\ Machine!Typed(s, Record)

\* An element that holds a record is copied as it is, from wherever it lies.
LEMMA ElementCopied ==
  ASSUME MachineInv, NEW x, NEW k, NEW size, NEW from, NEW s, IsRecord(x, k, from, size, s),
         NEW m2 \in Memory, NEW at \in 0 .. STACK_SIZE, at + size <= STACK_SIZE,
         Copied(mem, from, m2, at, size)
  PROVE  DecodeIn(m2, at, STACK_SIZE) = s \o DecodeIn(m2, at + size, STACK_SIZE)
<1> DEFINE reg == get_variable(x)
<1>0. /\ MachineInv /\ x \in Name /\ Known(x) /\ reg = get_variable(x)
      /\ size = variable_type_size(reg.type) /\ k \in 1 .. Elements(reg)
      /\ from = reg.location + (k - 1) * size
      /\ s = Contents[x].elems[k] /\ Machine!Typed(s, Record)
  BY DEF IsRecord
<1> HIDE DEF reg
<1>1. /\ s = DecodeIn(mem, from, from + size) /\ from + size \in 0 .. STACK_SIZE
      /\ from \in 0 .. from + size /\ from \in Nat /\ size \in Nat /\ from + size <= STACK_SIZE
  BY ONLY <1>0, ElementAt
<1>2. /\ mem \in Memory /\ STACK_SIZE \in 0 .. STACK_SIZE /\ at \in Nat
      /\ m2 \in Memory /\ at \in 0 .. STACK_SIZE
  BY VMAssumption DEF MachineInv, RestOK, Memory
<1>3. CASE size = data_size
  <2>1. /\ RecordIn(mem, from, s)
        /\ at + data_size <= STACK_SIZE /\ Copied(mem, from, m2, at, data_size)
    BY <1>0, <1>1, <1>3 DEF RecordIn
  <2>2. DecodeIn(m2, at, STACK_SIZE) = s \o DecodeIn(m2, at + data_size, STACK_SIZE)
    <3> DEFINE to == STACK_SIZE
    <3>1. /\ mem \in Memory /\ m2 \in Memory /\ RecordIn(mem, from, s) /\ to \in 0 .. STACK_SIZE
          /\ at \in 0 .. to /\ at + data_size <= to /\ Copied(mem, from, m2, at, data_size)
      BY <1>2, <2>1
    <3> HIDE DEF to
    <3>2. DecodeIn(m2, at, to) = s \o DecodeIn(m2, at + data_size, to)
      BY ONLY <3>1, RecordCopied
    <3> QED
      BY <3>2 DEF to
  <2> QED
    BY <1>3, <2>2
<1>4. CASE size # data_size
  <2>1. size = 4 /\ HoldsInt(mem, from, s)
    BY ONLY <1>0, <1>4, FloatHolds
  <2> DEFINE end == at + size
  <2>2. /\ m2 \in Memory /\ mem \in Memory /\ from \in Nat /\ at \in Nat
        /\ end \in 0 .. STACK_SIZE /\ end = at + 4
        /\ HoldsInt(mem, from, s) /\ Copied(mem, from, m2, at, 4)
    BY <1>1, <1>2, <2>1
  <2> HIDE DEF end
  <2>3. DecodeIn(m2, at, STACK_SIZE) = s \o DecodeIn(m2, end, STACK_SIZE)
    BY ONLY <2>2, FloatCopied
  <2> QED
    BY <2>3 DEF end
<1> QED
  BY <1>3, <1>4

\* AFETCH: what the copy of the bytes of an element does to the stack.
LEMMA ElementPushed ==
  ASSUME MachineInv, MachineInv', NEW x \in Name, Known(x), NEW reg, reg = get_variable(x),
         NEW size, size = variable_type_size(reg.type), NEW k \in 1 .. Elements(reg),
         NEW from, from = reg.location + (k - 1) * size,
         NEW s, s = Contents[x].elems[k], Machine!Typed(s, Record),
         Holds(2), PopPush(2, ReadBytes(from, size)), UNCHANGED variable_regs
  PROVE  /\ Contents' = Contents
         /\ \/ /\ Fail /\ (stack_ptr + 2) - Machine!Width(s) < heap_ptr
               /\ s \in Seq(Items)
            \/ /\ Continue(Following) /\ error' = error /\ heap_ptr' = heap_ptr
               /\ Values' = s \o DecodeIn(mem, stack_ptr + 2, STACK_SIZE)
<1> DEFINE bytes == ReadBytes(from, size)
<1>1. from \in Nat /\ size \in Nat /\ size >= 2
  BY ElementAt, Sizes
<1>2. IsBytes(bytes) /\ Len(bytes) = size
  BY <1>1, BytesRead
<1>3. \A i \in 0 .. size - 1 : bytes[i + 1] = mem[from + i]
  <2> SUFFICES ASSUME NEW i \in 0 .. size - 1 PROVE bytes[i + 1] = mem[from + i]
    OBVIOUS
  <2>1. i + 1 \in 1 .. size /\ from + (i + 1) - 1 = from + i
    BY <1>1
  <2> QED
    BY <2>1 DEF ReadBytes
<1> HIDE DEF bytes
<1>4. PopPush(2, bytes) /\ 2 \in Nat
  BY DEF bytes
<1>5. /\ Contents' = Contents
      /\ \/ Fail /\ (stack_ptr + 2) - Len(bytes) < heap_ptr
         \/ /\ Continue(Following) /\ error' = error /\ heap_ptr' = heap_ptr
            /\ stack_ptr + 2 \in 0 .. STACK_SIZE /\ stack_ptr' \in 0 .. STACK_SIZE
            /\ stack_ptr' + Len(bytes) = stack_ptr + 2
            /\ \A i \in 0 .. Len(bytes) - 1 : mem'[stack_ptr' + i] = bytes[i + 1]
            /\ DecodeIn(mem', stack_ptr + 2, STACK_SIZE) = DecodeIn(mem, stack_ptr + 2, STACK_SIZE)
  BY <1>2, <1>4, PushedBytes
<1>6. s \in Seq(Items) /\ Machine!Width(s) = Len(bytes)
  <2> DEFINE to == from + size
  <2>1. s = DecodeIn(mem, from, to) /\ to \in 0 .. STACK_SIZE /\ from \in 0 .. to
    BY ElementAt
  <2>2. to - from = Len(bytes)
    BY <1>1, <1>2
  <2>3. mem \in Memory
    BY DEF MachineInv, RestOK, Memory
  <2> HIDE DEF to
  <2>4. DecodeIn(mem, from, to) \in Seq(Items) /\ Machine!Width(DecodeIn(mem, from, to)) = to - from
    BY ONLY <2>1, <2>3, DecodeEquation, WidthDecoded
  <2> QED
    BY <2>1, <2>2, <2>4
<1>7. ASSUME stack_ptr + 2 \in 0 .. STACK_SIZE, stack_ptr' \in 0 .. STACK_SIZE,
             stack_ptr' + Len(bytes) = stack_ptr + 2,
             \A i \in 0 .. Len(bytes) - 1 : mem'[stack_ptr' + i] = bytes[i + 1],
             DecodeIn(mem', stack_ptr + 2, STACK_SIZE) = DecodeIn(mem, stack_ptr + 2, STACK_SIZE)
      PROVE  Values' = s \o DecodeIn(mem, stack_ptr + 2, STACK_SIZE)
  <2>1. Copied(mem, from, mem', stack_ptr', size)
    BY <1>2, <1>3, <1>7 DEF Copied
  <2>2. mem' \in Memory /\ STACK_SIZE \in Nat
    BY VMAssumption DEF MachineInv, RestOK, Memory
  <2>3. stack_ptr' + size = stack_ptr + 2 /\ stack_ptr' + size <= STACK_SIZE
    BY <1>2, <1>7, <2>2
  <2>4. DecodeIn(mem', stack_ptr', STACK_SIZE)
          = s \o DecodeIn(mem', stack_ptr' + size, STACK_SIZE)
    <3> DEFINE m2 == mem'
    <3> DEFINE at == stack_ptr'
    <3>1. /\ MachineInv /\ IsRecord(x, k, from, size, s)
          /\ m2 \in Memory /\ at \in 0 .. STACK_SIZE /\ at + size <= STACK_SIZE
          /\ Copied(mem, from, m2, at, size)
      BY <1>7, <2>1, <2>2, <2>3 DEF IsRecord
    <3> HIDE DEF m2, at
    <3>2. DecodeIn(m2, at, STACK_SIZE) = s \o DecodeIn(m2, at + size, STACK_SIZE)
      BY ONLY <3>1, ElementCopied
    <3> QED
      BY <3>2 DEF m2, at
  <2> QED
    BY <1>7, <2>3, <2>4, ValuesDecoded
<1> QED
  BY <1>5, <1>6, <1>7

LEMMA ArrayFetchSimulated ==
  ASSUME MachineInv, MachineInv', ArrayFetch
  PROVE  Machine!Next
<1>1. /\ result = Running /\ current \in DOMAIN program.at /\ instr[1] = "AFETCH"
      /\ UNCHANGED variable_regs /\ instr[1] \notin {"HALT", "IVAR", "FVAR"}
  BY DEF ArrayFetch, Fetching
<1>2. UNCHANGED program
  BY DEF ArrayFetch, PopPush, Continue, FailUnchanged, Fail, Lose
<1>3. arg \in Name
  BY <1>1, NameOfVariable DEF OnVariables
<1>4. Machine!Pops = <<"int">> /\ Len(Machine!Pops) = 1
  BY <1>1, SameInstruction, Opcodes DEF Machine!Pops, NoOperation
<1> DEFINE elems == Contents[arg].elems
<1> DEFINE v == Values[1][2]
<1>5. Machine!Defined <=>
        /\ Machine!Typed(Values, <<"int">>) /\ Known(arg)
        /\ v + 1 \in DOMAIN elems /\ Machine!Typed(elems[v + 1], Record)
  <2>1. Machine!Known <=> Known(arg)
    BY <1>3, VariableIs, SameInstruction DEF Machine!Known
  <2> QED
    BY <1>1, <1>4, <2>1, SameInstruction, Opcodes DEF Machine!Defined, NoOperation
<1>6. CASE Machine!Defined
  <2> DEFINE reg == get_variable(arg)
  <2> DEFINE size == variable_type_size(reg.type)
  <2> DEFINE k == v + 1
  <2> DEFINE from == reg.location + (k - 1) * size
  <2> DEFINE s == elems[k]
  <2>1. Machine!Typed(Values, <<"int">>) /\ Known(arg) /\ Machine!Typed(s, Record)
    BY <1>5, <1>6
  <2>2. /\ Holds(2) /\ ReadAs("int", stack_ptr) = {v} /\ v \in Int
        /\ After(Values, 1) = DecodeIn(mem, stack_ptr + 2, STACK_SIZE)
        /\ Values[1] = <<"int", v>>
    <3>1. SizeOf("int") = 2
      BY Sizes
    <3> HIDE DEF v
    <3> QED
      BY <2>1, <3>1, TopOperand, BytecodeAssumption DEF v, Worths
  <2>3. k \in 1 .. Elements(reg)
    BY <1>3, <1>5, <1>6, ElementsAre
  <2>4. v \in 0 .. Elements(reg) - 1 /\ k - 1 = v
    <3>1. Elements(reg) \in Nat
      <4>1. PICK l \in DOMAIN variable_regs : reg = variable_regs[l]
        BY <2>1, Found DEF MachineInv
      <4> QED
        BY <4>1, VariableLies DEF MachineInv
    <3> HIDE DEF v, reg
    <3> QED
      BY <2>2, <2>3, <3>1
  <2>5. PopPush(2, ReadBytes(from, size))
    <3>1. PopPush(2, ReadBytes(reg.location + v * size, size))
      <4>1. \E i \in ReadAs("int", stack_ptr) :
              IF i \in 0 .. Elements(reg) - 1
              THEN PopPush(2, ReadBytes(reg.location + i * size, size))
              ELSE Lose
        BY <2>1, <2>2 DEF ArrayFetch
      <4> HIDE DEF v, reg, size
      <4> QED
        BY <2>2, <2>4, <4>1
    <3> HIDE DEF v, reg, size, k
    <3> QED
      BY <2>4, <3>1
  <2>6. Machine!Pushes = s
    BY <1>1, SameInstruction, Opcodes DEF Machine!Pushes, NoOperation
  <2>7. Machine!NextCurrent = Following /\ Machine!NextStore = Contents
    BY <1>1, SameInstruction DEF Machine!NextCurrent, Machine!NextStore
  <2>8. reg = get_variable(arg) /\ size = variable_type_size(reg.type)
        /\ from = reg.location + (k - 1) * size /\ s = Contents[arg].elems[k]
    OBVIOUS
  <2> HIDE DEF reg, size, k, from, s, elems, v
  <2>9. /\ Contents' = Contents
         /\ \/ /\ Fail /\ (stack_ptr + 2) - Machine!Width(s) < heap_ptr
               /\ s \in Seq(Items)
            \/ /\ Continue(Following) /\ error' = error /\ heap_ptr' = heap_ptr
               /\ Values' = s \o DecodeIn(mem, stack_ptr + 2, STACK_SIZE)
    BY ONLY <1>1, <1>3, <2>1, <2>2, <2>3, <2>5, <2>8, MachineInv, MachineInv', ElementPushed
  <2>10. CASE Fail /\ (stack_ptr + 2) - Machine!Width(s) < heap_ptr /\ s \in Seq(Items)
    <3>1. After(Values, Len(Machine!Pops)) = DecodeIn(mem, stack_ptr + 2, STACK_SIZE) /\ 2 \in Nat
      BY <1>4, <2>2
    <3>2. ~Machine!Fits
      BY <1>1, <2>2, <2>6, <2>10, <3>1, NoRoom
    <3> QED
      BY <1>1, <1>6, <2>9, <2>10, <3>2, Failure
  <2>11. CASE /\ Continue(Following) /\ error' = error /\ heap_ptr' = heap_ptr
              /\ Values' = s \o DecodeIn(mem, stack_ptr + 2, STACK_SIZE)
    <3>1. Values' = Machine!Pushes \o After(Values, Len(Machine!Pops))
      BY <1>4, <2>2, <2>6, <2>11
    <3>2. current' = Machine!NextCurrent /\ Contents' = Machine!NextStore
          /\ UNCHANGED <<program, error, result, heap_ptr, variable_regs>>
      BY <1>1, <2>7, <2>9, <2>11 DEF Continue
    <3> QED
      BY <1>1, <1>6, <3>1, <3>2, PlainExecution
  <2> QED
    BY <2>9, <2>10, <2>11
<1>7. CASE ~Machine!Defined
  BY <1>1, <1>2, <1>7, NoPromise
<1> QED
  BY <1>6, <1>7

(***************************************************************************)
(* Every step of the bytes is a step of the values, or changes none.       *)
(***************************************************************************)
LEMMA StepSimulated ==
  ASSUME MachineInv, MachineInv', [Next]_vars
  PROVE  [Machine!Next]_(Machine!avars)
<1>1. CASE Push \/ IPop \/ FPop \/ Jump \/ JumpIf \/ Operation \/ InPlace
  BY <1>1, PushSimulated, PopSimulated, JumpSimulated, JumpIfSimulated, OperationSimulated,
     InPlaceSimulated
<1>2. CASE ArrayFetch \/ ArrayLength \/ ArraySum \/ Call
  BY <1>2, ArrayFetchSimulated, LengthSimulated, SumSimulated, CallSimulated
<1>3. CASE Fetch("IFETCH", "int") \/ Fetch("FFETCH", "float")
  BY <1>3, FetchSimulated
<1>4. CASE Store("ISTORE", "int") \/ Store("FSTORE", "float")
  BY <1>4, StoreSimulated
<1>5. CASE Cast("ICASTF", "int") \/ Cast("FCASTI", "float")
  BY <1>5, CastSimulated
<1>6. CASE CreateVariable("IVAR", "int") \/ CreateVariable("FVAR", "float")
  BY <1>6, CreateSimulated
<1>7. CASE Halt \/ EndOfProgram \/ Astray
  BY <1>7, StopSimulated
<1>8. CASE UNCHANGED vars
  <2>1. UNCHANGED <<program, current, mem, stack_ptr, heap_ptr, variable_regs, error, result>>
    BY <1>8 DEF vars
  <2>2. Values' = Values
    BY <2>1, ValuesDecoded
  <2>3. Contents' = Contents
    <3>1. HeapKept
      BY <2>1 DEF HeapKept
    <3> QED
      BY <2>1, <3>1, HeapKeptContents
  <2> QED
    BY <2>1, <2>2, <2>3 DEF Machine!avars
<1> QED
  BY <1>1, <1>2, <1>3, <1>4, <1>5, <1>6, <1>7, <1>8 DEF Next

\* The bytes of the virtual machine behave as the values and variables of
\* StackMachine, whatever the program, the array and the size of memory:
\* evaluate() and the helpers it calls (predlang.c:64-326, 572-935) take the
\* operands from the stack, put results where the next instruction looks for
\* them, keep variables apart from each other and from the stack, and report an
\* error exactly where there is no room for a result or a variable, or no name.
THEOREM ImplementsMachine == Spec => ImplementsStackMachine
<1>1. MachineInv /\ MachineInv' /\ [Next]_vars => [Machine!Next]_(Machine!avars)
  BY StepSimulated
<1> QED
  BY <1>1, MachineInvariant, PTL DEF Spec, ImplementsStackMachine

=============================================================================
