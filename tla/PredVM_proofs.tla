--------------------------- MODULE PredVM_proofs ---------------------------
(***************************************************************************)
(* Proofs about the memory of the virtual machine, for every program, and  *)
(* every size of the array and of the user's data.                         *)
(***************************************************************************)
EXTENDS PredVM, SequenceTheorems, WellFoundedInduction, TLAPS

(***************************************************************************)
(* Sizes and sequences of bytes.                                           *)
(***************************************************************************)
LEMMA SmallestIndex ==
  ASSUME NEW T \in SUBSET Nat, T # {}
  PROVE  \E k \in T : \A l \in T : k <= l
<1> DEFINE R == OpToRel(<, Nat)
<1>1. \E k \in T : \A l \in T : ~(<<l, k>> \in R)
  <2>1. IsWellFoundedOn(R, Nat)
    BY NatLessThanWellFounded
  <2> HIDE DEF R
  <2> QED
    BY <2>1, WFMin, Zenon
<1>2. ASSUME NEW k \in T, NEW l \in T, ~(<<l, k>> \in R)
      PROVE  k <= l
  <2>1. l \in Nat /\ k \in Nat
    OBVIOUS
  <2>2. ~(l < k)
    BY <1>2, <2>1, Zenon DEF OpToRel
  <2> HIDE DEF R
  <2> QED
    BY <2>1, <2>2
<1> HIDE DEF R
<1> QED
  BY <1>1, <1>2

(***************************************************************************)
(* Recursion.  What holds of 0 and is passed on holds of all numbers up to *)
(* n, and a function may be defined on them one value after the other.     *)
(***************************************************************************)
LEMMA UpTo ==
  ASSUME NEW n \in Nat, NEW T, 0 \in T,
         \A k \in 0 .. n - 1 : k \in T => k + 1 \in T
  PROVE  \A k \in 0 .. n : k \in T
<1> DEFINE Others == {k \in 0 .. n : k \notin T}
<1>1. ASSUME Others # {}
      PROVE  FALSE
  <2>0. Others \in SUBSET Nat
    OBVIOUS
  <2>1. PICK k \in Others : \A l \in Others : k <= l
    <3> HIDE DEF Others
    <3> QED
      BY <1>1, <2>0, SmallestIndex
  <2>2. k \in 1 .. n /\ k \notin T
    BY <2>1
  <2>3. k - 1 \in 0 .. n - 1 /\ k - 1 \in T
    BY <2>1, <2>2
  <2>4. (k - 1) + 1 \in T /\ (k - 1) + 1 = k
    BY <2>2, <2>3
  <2> QED
    BY <2>2, <2>4
<1> QED
  BY <1>1

Steps(n, S) == [1 .. n -> [S -> S]]

\* The values on the way from a, by n steps.
Iterates(g, n, S, a, step) ==
  /\ g \in [0 .. n -> S]
  /\ g[0] = a
  /\ \A k \in 1 .. n : g[k] = step[k][g[k - 1]]

LEMMA Iteration ==
  ASSUME NEW n \in Nat, NEW S, NEW a \in S, NEW step \in Steps(n, S)
  PROVE  \E g : Iterates(g, n, S, a, step)
<1> DEFINE T == {m \in 0 .. n : \E g : Iterates(g, m, S, a, step)}
<1>1. 0 \in T
  <2>1. Iterates([k \in 0 .. 0 |-> a], 0, S, a, step)
    BY DEF Iterates
  <2>2. 0 \in 0 .. n
    OBVIOUS
  <2> QED
    BY <2>1, <2>2
<1>2. ASSUME NEW m \in 0 .. n - 1, m \in T
      PROVE  m + 1 \in T
  <2>1. PICK g : Iterates(g, m, S, a, step)
    BY <1>2
  <2> DEFINE h == [k \in 0 .. m + 1 |-> IF k = m + 1 THEN step[m + 1][g[m]] ELSE g[k]]
  <2>2. step[m + 1][g[m]] \in S
    <3>1. step[m + 1] \in [S -> S] /\ g[m] \in S
      BY <1>2, <2>1 DEF Iterates, Steps
    <3> QED
      BY <3>1
  <2>3. h \in [0 .. m + 1 -> S] /\ h[0] = a
    BY <2>1, <2>2 DEF Iterates
  <2>4. ASSUME NEW k \in 1 .. m + 1
        PROVE  h[k] = step[k][h[k - 1]]
    <3>1. CASE k = m + 1
      BY <3>1
    <3>2. CASE k # m + 1
      <4>1. k \in 1 .. m /\ k - 1 \in 0 .. m
        BY <3>2
      <4>2. h[k] = g[k] /\ h[k - 1] = g[k - 1]
        BY <3>2, <4>1
      <4> HIDE DEF h
      <4> QED
        BY <2>1, <4>1, <4>2 DEF Iterates
    <3> QED
      BY <3>1, <3>2
  <2> HIDE DEF h
  <2>5. Iterates(h, m + 1, S, a, step)
    BY <2>3, <2>4 DEF Iterates
  <2>6. m + 1 \in 0 .. n
    OBVIOUS
  <2> QED
    BY <2>5, <2>6
<1> HIDE DEF T
<1>3. n \in T
  <2>1. n \in 0 .. n
    OBVIOUS
  <2> QED
    BY <1>1, <1>2, <2>1, UpTo
<1> QED
  BY <1>3 DEF T

\* A function on 1 .. n is a sequence of length n.
LEMMA LengthOf ==
  ASSUME NEW n \in Nat, NEW s, s = [k \in 1 .. n |-> s[k]]
  PROVE  Len(s) = n /\ DOMAIN s = 1 .. n /\ s \in Seq({s[k] : k \in 1 .. n})
<1> DEFINE S == {s[k] : k \in 1 .. n}
<1>1. s \in [1 .. n -> S]
  OBVIOUS
<1>2. s \in Seq(S)
  BY <1>1, SeqDef
<1>3. Len(s) \in Nat /\ DOMAIN s = 1 .. Len(s) /\ DOMAIN s = 1 .. n
  BY <1>1, <1>2, LenProperties
<1> HIDE DEF S
<1>4. Len(s) = n
  BY <1>3
<1> QED
  BY <1>2, <1>3, <1>4 DEF S

\* Bytes of some number, one after the other.
IsBytes(s) == Len(s) \in Nat /\ DOMAIN s = 1 .. Len(s)

\* The fields of a record follow each other, in data_size bytes (predlang.c:150-163).
LEMMA Offsets ==
  /\ FieldOffset(1) = 0
  /\ \A k \in 1 .. Len(Record) + 1 : FieldOffset(k) \in Nat
  /\ \A k \in 1 .. Len(Record) : FieldOffset(k + 1) = FieldOffset(k) + SizeOf(Record[k])
<1> DEFINE n == Len(Record)
<1> DEFINE step == [k \in 1 .. n |-> [v \in Nat |-> v + SizeOf(Record[k])]]
<1>1. n \in Nat
  BY BytecodeAssumption, LenProperties
<1> HIDE DEF n
<1>2. step \in Steps(n, Nat)
  BY DEF Steps, SizeOf
<1>3. \A k \in 1 .. n, v \in Nat : step[k][v] = v + SizeOf(Record[k])
  OBVIOUS
<1> HIDE DEF step
<1>4. PICK g : Iterates(g, n, Nat, 0, step)
  <2>1. 0 \in Nat
    OBVIOUS
  <2> QED
    BY <1>1, <1>2, <2>1, Iteration
<1>5. ASSUME NEW k \in 1 .. n
      PROVE  g[k] = g[k - 1] + SizeOf(Record[k])
  <2>1. g[k - 1] \in Nat
    BY <1>1, <1>4 DEF Iterates
  <2> QED
    BY <1>3, <1>4, <2>1 DEF Iterates
<1>6. ASSUME NEW k \in 1 .. n + 1
      PROVE  FieldOffset(k) = g[k - 1]
  <2> DEFINE Def(h) == h = [j \in 1 .. k |-> IF j = 1 THEN 0 ELSE h[j - 1] + SizeOf(Record[j - 1])]
  <2> DEFINE o == CHOOSE h : Def(h)
  <2>1. Def([j \in 1 .. k |-> g[j - 1]])
    <3> DEFINE h == [j \in 1 .. k |-> g[j - 1]]
    <3>1. ASSUME NEW j \in 1 .. k
          PROVE  h[j] = IF j = 1 THEN 0 ELSE h[j - 1] + SizeOf(Record[j - 1])
      <4>1. CASE j = 1
        BY <1>4, <4>1 DEF Iterates
      <4>2. CASE j # 1
        <5>1. j - 1 \in 1 .. n /\ j - 1 \in 1 .. k
          BY <1>1, <4>2
        <5>2. h[j] = g[j - 1] /\ h[j - 1] = g[(j - 1) - 1]
          BY <5>1
        <5> HIDE DEF h
        <5> QED
          BY <1>5, <4>2, <5>1, <5>2
      <4> QED
        BY <4>1, <4>2
    <3>2. h = [j \in 1 .. k |-> h[j]]
      OBVIOUS
    <3> HIDE DEF h
    <3>3. h = [j \in 1 .. k |-> IF j = 1 THEN 0 ELSE h[j - 1] + SizeOf(Record[j - 1])]
      BY <3>1, <3>2
    <3> QED
      BY <3>3 DEF h
  <2>2. Def(o)
    BY <2>1
  <2>3. FieldOffset(k) = o[k]
    BY Zenon DEF FieldOffset
  <2> HIDE DEF o
  <2> DEFINE T == {j \in 0 .. k - 1 : o[j + 1] = g[j]}
  <2>4. 0 \in T
    BY <1>4, <2>2 DEF Iterates
  <2>5. ASSUME NEW j \in 0 .. (k - 1) - 1, j \in T
        PROVE  j + 1 \in T
    <3>1. j + 1 \in 1 .. n /\ j + 1 \in 1 .. k /\ j + 2 \in 1 .. k /\ j + 1 \in 0 .. k - 1
      BY <1>1
    <3>2. o[j + 2] = o[j + 1] + SizeOf(Record[j + 1])
      <4>1. (j + 2) - 1 = j + 1 /\ j + 2 # 1
        OBVIOUS
      <4> QED
        BY <2>2, <3>1, <4>1
    <3>3. o[(j + 1) + 1] = g[j + 1]
      <4>1. (j + 1) - 1 = j /\ (j + 1) + 1 = j + 2
        OBVIOUS
      <4> QED
        BY <1>5, <2>5, <3>1, <3>2, <4>1
    <3> QED
      BY <3>1, <3>3
  <2>6. k - 1 \in T
    <3> HIDE DEF T
    <3>1. k - 1 \in Nat /\ k - 1 \in 0 .. k - 1
      BY <1>1
    <3> QED
      BY <2>4, <2>5, <3>1, UpTo
  <2> QED
    BY <2>3, <2>6
<1>7. FieldOffset(1) = 0
  BY <1>1, <1>4, <1>6 DEF Iterates
<1>8. \A k \in 1 .. n + 1 : FieldOffset(k) \in Nat
  BY <1>1, <1>4, <1>6 DEF Iterates
<1>9. ASSUME NEW k \in 1 .. n
      PROVE  FieldOffset(k + 1) = FieldOffset(k) + SizeOf(Record[k])
  <2>1. k \in 1 .. n + 1 /\ k + 1 \in 1 .. n + 1 /\ (k + 1) - 1 = k
    BY <1>1
  <2> QED
    BY <1>5, <1>6, <2>1
<1> QED
  BY <1>7, <1>8, <1>9 DEF n

LEMMA FieldsInside ==
  /\ data_size \in Nat /\ data_size >= 2
  /\ \A k \in 1 .. Len(Record) : FieldOffset(k) + SizeOf(Record[k]) <= data_size
<1> DEFINE n == Len(Record)
<1>1. n \in Nat \ {0}
  BY BytecodeAssumption, LenProperties, EmptySeq
<1>2. data_size = FieldOffset(n + 1) /\ data_size \in Nat
  BY <1>1, Offsets DEF data_size
<1> HIDE DEF n
<1>3. ASSUME NEW k \in 1 .. n
      PROVE  FieldOffset(k) + SizeOf(Record[k]) <= data_size
  <2> DEFINE T == {j \in 0 .. n - k : FieldOffset(k) + SizeOf(Record[k]) <= FieldOffset(k + 1 + j)}
  <2>1. 0 \in T
    <3>1. k + 1 + 0 = k + 1 /\ 0 \in 0 .. n - k /\ FieldOffset(k + 1) \in Nat
      BY <1>1, Offsets DEF n
    <3> QED
      BY <3>1, Offsets DEF n
  <2>2. ASSUME NEW j \in 0 .. (n - k) - 1, j \in T
        PROVE  j + 1 \in T
    <3>1. /\ k + 1 + j \in 1 .. n /\ k + 1 + (j + 1) = (k + 1 + j) + 1 /\ j + 1 \in 0 .. n - k
          /\ k \in 1 .. n + 1 /\ k + 1 + j \in 1 .. n + 1
      BY <1>1
    <3>2. FieldOffset(k + 1 + (j + 1)) = FieldOffset(k + 1 + j) + SizeOf(Record[k + 1 + j])
      BY <3>1, Offsets DEF n
    <3>3. /\ FieldOffset(k + 1 + j) \in Nat /\ FieldOffset(k) \in Nat
          /\ SizeOf(Record[k + 1 + j]) \in Nat /\ SizeOf(Record[k]) \in Nat
      BY <3>1, Offsets DEF n, SizeOf
    <3> QED
      BY <2>2, <3>1, <3>2, <3>3
  <2>3. n - k \in T
    <3> HIDE DEF T
    <3>1. n - k \in Nat /\ n - k \in 0 .. n - k
      BY <1>1
    <3> QED
      BY <2>1, <2>2, <3>1, UpTo
  <2>4. k + 1 + (n - k) = n + 1
    BY <1>1
  <2> QED
    BY <1>2, <2>3, <2>4
<1>4. data_size >= 2
  <2>1. 1 \in 1 .. n /\ SizeOf(Record[1]) \in {2, 4}
    BY <1>1 DEF SizeOf
  <2> QED
    BY <1>2, <1>3, <2>1, Offsets
<1> QED
  BY <1>2, <1>3, <1>4 DEF n

\* The values on the way are those of one function.
LEMMA IteratesOnce ==
  ASSUME NEW n \in Nat, NEW S, NEW a, NEW step, NEW g, NEW h,
         Iterates(g, n, S, a, step), Iterates(h, n, S, a, step)
  PROVE  g[n] = h[n] /\ g[n] \in S
<1> DEFINE T == {k \in 0 .. n : g[k] = h[k]}
<1>1. 0 \in T
  BY DEF Iterates
<1>2. ASSUME NEW k \in 0 .. n - 1, k \in T
      PROVE  k + 1 \in T
  <2>1. k + 1 \in 1 .. n /\ (k + 1) - 1 = k /\ k + 1 \in 0 .. n
    OBVIOUS
  <2> QED
    BY <1>2, <2>1 DEF Iterates
<1>3. n \in 0 .. n
  OBVIOUS
<1> HIDE DEF T
<1>4. n \in T
  BY <1>1, <1>2, <1>3, UpTo
<1> QED
  BY <1>3, <1>4 DEF T, Iterates

Number(v) == IF v[1] = "int" THEN FloatOf(v[2]) ELSE v[2]

Adding(numbers, n) == [k \in 1 .. n |-> [s \in nfloat |-> FloatOp("FADD", s, numbers[k])]]

Numbers(records, f, n) == [k \in 1 .. n |-> Number(records[k][Fn[f]])]

\* FieldSum adds the numbers one after the other.
LEMMA FieldSumAdds ==
  ASSUME NEW n \in Nat, NEW records, Len(records) = n, NEW f,
         Numbers(records, f, n) \in [1 .. n -> nfloat]
  PROVE  \E g : /\ Iterates(g, n, nfloat, FloatOf(0), Adding(Numbers(records, f, n), n))
                /\ FieldSum(records, f) = g[n]
<1> DEFINE ns == Numbers(records, f, n)
<1> DEFINE step == Adding(ns, n)
<1>1. FloatOf(0) \in nfloat
  BY BytecodeAssumption
<1>2. step \in Steps(n, nfloat)
  <2>1. "FADD" \in FloatArithmetic
    BY DEF FloatArithmetic
  <2>2. \A x, y \in nfloat : FloatOp("FADD", x, y) \in nfloat
    BY <2>1, BytecodeAssumption
  <2> HIDE DEF ns
  <2> QED
    BY <2>2 DEF Adding, Steps, ns
<1>3. PICK g : Iterates(g, n, nfloat, FloatOf(0), step)
  <2> HIDE DEF step
  <2> QED
    BY <1>1, <1>2, Iteration
<1> DEFINE Def(h) ==
      h = [k \in 0 .. Len(records) |->
             IF k = 0 THEN FloatOf(0)
             ELSE FloatOp("FADD", h[k - 1], IF records[k][Fn[f]][1] = "int"
                                            THEN FloatOf(records[k][Fn[f]][2])
                                            ELSE records[k][Fn[f]][2])]
<1>4. ASSUME NEW k \in 1 .. n, NEW x \in nfloat
      PROVE  step[k][x] = FloatOp("FADD", x, IF records[k][Fn[f]][1] = "int"
                                             THEN FloatOf(records[k][Fn[f]][2])
                                             ELSE records[k][Fn[f]][2])
  BY DEF Adding, Numbers, Number
<1> HIDE DEF step
<1>5. Def(g)
  <2>1. g = [k \in 0 .. n |-> g[k]]
    BY <1>3 DEF Iterates
  <2>2. ASSUME NEW k \in 0 .. n
        PROVE  g[k] = IF k = 0 THEN FloatOf(0)
                      ELSE FloatOp("FADD", g[k - 1], IF records[k][Fn[f]][1] = "int"
                                                     THEN FloatOf(records[k][Fn[f]][2])
                                                     ELSE records[k][Fn[f]][2])
    <3>1. CASE k = 0
      BY <1>3, <3>1 DEF Iterates
    <3>2. CASE k # 0
      <4>1. k \in 1 .. n /\ k - 1 \in 0 .. n
        BY <3>2
      <4>2. g[k - 1] \in nfloat /\ g[k] = step[k][g[k - 1]]
        BY <1>3, <4>1 DEF Iterates
      <4> QED
        BY <1>4, <3>2, <4>1, <4>2
    <3> QED
      BY <3>1, <3>2
  <2> QED
    BY <2>1, <2>2
<1> DEFINE o == CHOOSE h : Def(h)
<1>6. Def(o)
  <2> HIDE DEF Def
  <2> QED
    BY <1>5
<1>7. FieldSum(records, f) = o[n]
  BY Zenon DEF FieldSum
<1> HIDE DEF o
<1> DEFINE T == {k \in 0 .. n : o[k] = g[k]}
<1>8. 0 \in T
  BY <1>3, <1>6 DEF Iterates
<1>9. ASSUME NEW k \in 0 .. n - 1, k \in T
      PROVE  k + 1 \in T
  <2>1. k + 1 \in 1 .. n /\ (k + 1) - 1 = k /\ k + 1 \in 0 .. n /\ k + 1 # 0
    OBVIOUS
  <2>2. g[k] \in nfloat /\ g[k + 1] = step[k + 1][g[k]]
    BY <1>3, <2>1 DEF Iterates
  <2> QED
    BY <1>4, <1>6, <1>9, <2>1, <2>2
<1>10. n \in 0 .. n
  OBVIOUS
<1>11. n \in T
  <2> HIDE DEF T
  <2> QED
    BY <1>8, <1>9, <1>10, UpTo
<1> QED
  BY <1>3, <1>7, <1>11 DEF step

StartsWith(s, u) == Len(s) >= Len(u) /\ \A i \in 1 .. Len(u) : s[i] = u[i]

LEMMA StartOfConcat ==
  ASSUME NEW S, NEW s \in Seq(S), NEW t \in Seq(S), NEW u \in Seq(S)
  PROVE  /\ s \o t \in Seq(S)
         /\ StartsWith(s, u) => StartsWith(s \o t, u)
         /\ StartsWith(<<>> \o u, u)
<1>1. /\ s \o t \in Seq(S)
      /\ Len(s \o t) = Len(s) + Len(t)
      /\ \A i \in 1 .. Len(s) + Len(t) : (s \o t)[i] = IF i <= Len(s) THEN s[i] ELSE t[i - Len(s)]
  BY ConcatProperties
<1>2. Len(s) \in Nat /\ Len(t) \in Nat /\ Len(u) \in Nat
  BY LenProperties
<1>3. <<>> \o u = u
  BY ConcatEmptySeq
<1>4. StartsWith(<<>> \o u, u)
  BY <1>2, <1>3 DEF StartsWith
<1> DEFINE c == s \o t
<1>5. ASSUME StartsWith(s, u)
      PROVE  StartsWith(c, u)
  <2>1. Len(c) >= Len(u)
    BY <1>1, <1>2, <1>5 DEF StartsWith
  <2>2. ASSUME NEW i \in 1 .. Len(u)
        PROVE  c[i] = u[i]
    <3>1. i \in 1 .. Len(s) + Len(t) /\ i <= Len(s)
      BY <1>2, <1>5 DEF StartsWith
    <3> QED
      BY <1>1, <1>5, <3>1 DEF StartsWith
  <2> QED
    BY <2>1, <2>2 DEF StartsWith
<1> QED
  BY <1>1, <1>4, <1>5

\* Bytes of the parts one after the other, the first part first.
LEMMA FlattenBytes ==
  ASSUME NEW n \in Nat, NEW S, NEW seqs \in [1 .. n -> Seq(S)]
  PROVE  /\ Flatten(seqs) \in Seq(S)
         /\ n >= 1 => StartsWith(Flatten(seqs), seqs[1])
<1> DEFINE step == [k \in 1 .. n |-> [s \in Seq(S) |-> s \o seqs[k]]]
<1>0. Len(seqs) = n
  <2>1. seqs = [k \in 1 .. n |-> seqs[k]]
    OBVIOUS
  <2> QED
    BY <2>1, LengthOf
<1>1. step \in Steps(n, Seq(S))
  <2>1. \A s, t \in Seq(S) : s \o t \in Seq(S)
    BY ConcatProperties
  <2> QED
    BY <2>1 DEF Steps
<1>2. PICK g : Iterates(g, n, Seq(S), <<>>, step)
  <2>1. <<>> \in Seq(S)
    BY EmptySeq
  <2> HIDE DEF step
  <2> QED
    BY <1>1, <2>1, Iteration
<1> DEFINE Def(h) == h = [k \in 0 .. Len(seqs) |-> IF k = 0 THEN <<>> ELSE h[k - 1] \o seqs[k]]
<1>3. \A k \in 1 .. n, s \in Seq(S) : step[k][s] = s \o seqs[k]
  OBVIOUS
<1> HIDE DEF step
<1>4. /\ g[0] = <<>>
      /\ \A k \in 0 .. n : g[k] \in Seq(S)
      /\ \A k \in 1 .. n : g[k] = g[k - 1] \o seqs[k]
  <2>1. \A k \in 1 .. n : k - 1 \in 0 .. n
    OBVIOUS
  <2> QED
    BY <1>2, <1>3, <2>1 DEF Iterates
<1>5. Def(g)
  <2>1. g = [k \in 0 .. n |-> g[k]]
    BY <1>2 DEF Iterates
  <2>2. ASSUME NEW k \in 0 .. n
        PROVE  g[k] = IF k = 0 THEN <<>> ELSE g[k - 1] \o seqs[k]
    <3>1. k # 0 => k \in 1 .. n
      OBVIOUS
    <3> QED
      BY <1>4, <3>1
  <2> QED
    BY <1>0, <2>1, <2>2
<1> DEFINE o == CHOOSE h : Def(h)
<1>6. Def(o)
  <2> HIDE DEF Def
  <2> QED
    BY <1>5
<1>7. Flatten(seqs) = o[n]
  BY <1>0, Zenon DEF Flatten
<1> HIDE DEF o
<1> DEFINE T == {k \in 0 .. n : o[k] = g[k] /\ (k >= 1 => StartsWith(o[k], seqs[1]))}
<1>8. 0 \in T
  BY <1>0, <1>4, <1>6
<1>9. ASSUME NEW k \in 0 .. n - 1, k \in T
      PROVE  k + 1 \in T
  <2>1. k + 1 \in 1 .. n /\ (k + 1) - 1 = k /\ k + 1 \in 0 .. n /\ k + 1 # 0 /\ k \in 0 .. n
    OBVIOUS
  <2>2. o[k + 1] = o[k] \o seqs[k + 1]
    <3>1. o[k + 1] = o[(k + 1) - 1] \o seqs[k + 1]
      BY <1>0, <1>6, <2>1, Zenon
    <3> QED
      BY <2>1, <3>1
  <2>3. o[k] = g[k] /\ o[k] \in Seq(S) /\ seqs[k + 1] \in Seq(S) /\ seqs[1] \in Seq(S)
    BY <1>4, <1>9, <2>1, SMTT(30)
  <2>4. g[k + 1] = g[k] \o seqs[k + 1]
    BY <1>4, <2>1
  <2>5. StartsWith(o[k + 1], seqs[1])
    <3>1. CASE k = 0
      <4>1. o[k] = <<>> /\ k + 1 = 1
        BY <1>4, <2>3, <3>1
      <4>2. o[k + 1] = <<>> \o seqs[1]
        BY <2>2, <4>1
      <4> QED
        BY <2>3, <4>2, StartOfConcat
    <3>2. CASE k # 0
      BY <1>9, <2>2, <2>3, <3>2, StartOfConcat
    <3> QED
      BY <3>1, <3>2
  <2> QED
    BY <2>1, <2>2, <2>3, <2>4, <2>5
<1>10. n \in 0 .. n
  OBVIOUS
<1>11. n \in T
  <2> HIDE DEF T
  <2> QED
    BY <1>8, <1>9, <1>10, UpTo
<1> QED
  BY <1>4, <1>7, <1>10, <1>11

LEMMA Sizes ==
  /\ \A type : SizeOf(type) \in {2, 4} /\ SizeOf("int") = 2 /\ SizeOf("float") = 4
  /\ \A type : variable_type_size(type) \in Nat /\ variable_type_size(type) >= 2
  /\ data_size \in Nat /\ data_size >= 2
  /\ \A x \in Name : StringSize[x] \in Nat /\ StringSize[x] >= 1
BY FieldsInside, BytecodeAssumption DEF SizeOf, variable_type_size

LEMMA BytesOfValue ==
  ASSUME NEW v
  PROVE  IsBytes(Bytes(v)) /\ Len(Bytes(v)) = SizeOf(v[1])
<1>1. SizeOf(v[1]) \in Nat
  BY Sizes
<1>2. Bytes(v) = [k \in 1 .. SizeOf(v[1]) |-> Bytes(v)[k]]
  BY DEF Bytes
<1> HIDE DEF Bytes
<1> QED
  BY <1>1, <1>2, LengthOf DEF IsBytes

LEMMA BytesRead ==
  ASSUME NEW a, NEW size \in Nat
  PROVE  IsBytes(ReadBytes(a, size)) /\ Len(ReadBytes(a, size)) = size
<1>1. ReadBytes(a, size) = [k \in 1 .. size |-> ReadBytes(a, size)[k]]
  BY DEF ReadBytes
<1> HIDE DEF ReadBytes
<1> QED
  BY <1>1, LengthOf DEF IsBytes

\* The name and the value of a new variable.
LEMMA BytesOfVariable ==
  ASSUME NEW x \in Name, NEW v
  PROVE  IsBytes(NameBytes(x)) /\ IsBytes(NameBytes(x) \o Bytes(v))
<1> DEFINE S == {NameBytes(x)[k] : k \in 1 .. StringSize[x]}
<1> DEFINE V == {Bytes(v)[k] : k \in 1 .. SizeOf(v[1])}
<1>1. NameBytes(x) \in Seq(S) /\ IsBytes(NameBytes(x))
  <2>1. NameBytes(x) = [k \in 1 .. StringSize[x] |-> NameBytes(x)[k]]
    BY DEF NameBytes
  <2>2. StringSize[x] \in Nat
    BY Sizes
  <2> QED
    BY <2>1, <2>2, LengthOf DEF IsBytes
<1>2. Bytes(v) \in Seq(V)
  <2>1. Bytes(v) = [k \in 1 .. SizeOf(v[1]) |-> Bytes(v)[k]]
    BY DEF Bytes
  <2>2. SizeOf(v[1]) \in Nat
    BY Sizes
  <2> QED
    BY <2>1, <2>2, LengthOf
<1> HIDE DEF S, V
<1>3. NameBytes(x) \in Seq(S \cup V) /\ Bytes(v) \in Seq(S \cup V)
  BY <1>1, <1>2, SeqMonotonic
<1>4. NameBytes(x) \o Bytes(v) \in Seq(S \cup V)
  BY <1>3, ConcatProperties
<1> QED
  BY <1>1, <1>4, LenProperties DEF IsBytes

\* Writing changes nothing outside of what is written.
LEMMA WrittenApart ==
  ASSUME NEW a \in Nat, NEW bytes, IsBytes(bytes), NEW b \in Address,
         b < a \/ b >= a + Len(bytes)
  PROVE  Written(a, bytes)[b] = mem[b]
<1>1. b \in Int
  BY VMAssumption DEF Address
<1>2. b - a + 1 \notin DOMAIN bytes
  BY <1>1 DEF IsBytes
<1> QED
  BY <1>2 DEF Written

LEMMA ProductAtLeast ==
  ASSUME NEW e \in Nat, NEW s \in Nat, e >= 1
  PROVE  e * s \in Nat /\ e * s >= s
OBVIOUS

\* A variable has room for two bytes or more.
LEMMA EndOf ==
  ASSUME NEW reg \in Variable
  PROVE  End(reg) \in Nat /\ End(reg) >= reg.location + 2
<1>1. Elements(reg) \in Nat /\ Elements(reg) >= 1 /\ reg.location \in Nat
  <2>1. \A l \in nint : l >= 0 => l \in Nat
    BY BytecodeAssumption
  <2>2. reg.length \in Nat /\ reg.location \in Nat
    BY <2>1 DEF Variable
  <2> QED
    BY <2>2 DEF Elements
<1>2. variable_type_size(reg.type) \in Nat /\ variable_type_size(reg.type) >= 2
  BY Sizes
<1> DEFINE p == Elements(reg) * variable_type_size(reg.type)
<1>3. p \in Nat /\ p >= 2
  BY <1>1, <1>2, ProductAtLeast
<1> HIDE DEF p
<1>4. End(reg) = reg.location + p
  BY DEF End, p
<1> QED
  BY <1>1, <1>3, <1>4

(***************************************************************************)
(* Steps.  Every instruction but a store leaves what is below heap_ptr.    *)
(***************************************************************************)
HeapKept == \A b \in Address : b < heap_ptr => mem'[b] = mem[b]

LEMMA MemoryInitially == Init => MemInv
<1> SUFFICES ASSUME Init PROVE MemInv
  OBVIOUS
<1> USE VMAssumption DEF Init
<1>1. IsCode(program)
  OBVIOUS
<1>2. ArrayReg \in Variable /\ ArrayReg.name < ArrayReg.location
  <2>1. Len(Array) \in Nat
    BY LenProperties
  <2>2. StringSize[ArrayName] \in Nat /\ StringSize[ArrayName] >= 1
    BY Sizes
  <2> QED
    BY <2>1, <2>2 DEF ArrayReg, Variable
<1>3. End(ArrayReg) \in Nat /\ End(ArrayReg) > ArrayReg.location
  <2>1. ArrayReg.location \in Nat
    BY <1>2 DEF Variable
  <2> QED
    BY <1>2, <2>1, EndOf
<1>4. /\ variable_regs \in Seq(Variable) /\ DOMAIN variable_regs = {1}
      /\ variable_regs[1] = ArrayReg
  BY <1>2
<1> QED
  BY <1>1, <1>2, <1>3, <1>4 DEF MemInv, MemoryDisjoint

\* An instruction that pops and pushes.
LEMMA PopPushKeeps ==
  ASSUME MemInv, NEW popped \in Nat, Holds(popped),
         NEW bytes, IsBytes(bytes), PopPush(popped, bytes), UNCHANGED variable_regs
  PROVE  MemInv' /\ HeapKept
<1> DEFINE sp == stack_ptr + popped
<1> USE VMAssumption
<1>1. sp \in Nat /\ heap_ptr <= sp /\ sp <= STACK_SIZE
  BY DEF MemInv, MemoryDisjoint, Holds
<1>2. CASE sp - Len(bytes) < heap_ptr
  <2>1. mem' = mem /\ stack_ptr' = sp /\ UNCHANGED <<heap_ptr, program, variable_regs>>
    BY <1>2 DEF PopPush, Fail
  <2> QED
    BY <1>1, <2>1 DEF MemInv, MemoryDisjoint, HeapKept, End, Elements, Variable
<1>3. CASE sp - Len(bytes) >= heap_ptr
  <2> DEFINE a == sp - Len(bytes)
  <2>1. a \in Nat /\ a <= STACK_SIZE
    BY <1>1, <1>3 DEF IsBytes, MemInv
  <2>2. /\ mem' = Written(a, bytes) /\ stack_ptr' = a
        /\ UNCHANGED <<heap_ptr, program, variable_regs>>
    BY <1>3, <2>1 DEF PopPush, Continue, MemInv
  <2> HIDE DEF a
  <2>3. heap_ptr <= a
    BY <1>3 DEF a
  <2>4. MemInv'
    BY <2>1, <2>2, <2>3 DEF MemInv, MemoryDisjoint, End, Elements, Variable
  <2>5. HeapKept
    <3> SUFFICES ASSUME NEW b \in Address, b < heap_ptr PROVE mem'[b] = mem[b]
      BY DEF HeapKept
    <3>1. b < a
      BY <2>1, <2>3 DEF MemInv, Address
    <3> QED
      BY <2>1, <2>2, <3>1, WrittenApart
  <2> QED
    BY <2>4, <2>5
<1> QED
  BY <1>1, <1>2, <1>3 DEF IsBytes, MemInv

\* An instruction that only pops.
LEMMA PopToKeeps ==
  ASSUME MemInv, NEW popped \in Nat, Holds(popped), NEW c, PopTo(popped, c),
         UNCHANGED variable_regs
  PROVE  MemInv' /\ HeapKept
BY VMAssumption DEF MemInv, MemoryDisjoint, HeapKept, PopTo, Continue, Holds, End, Elements

\* An instruction that leaves the memory alone.
LEMMA UnchangedKeeps ==
  ASSUME MemInv, UNCHANGED <<mem, stack_ptr, heap_ptr, variable_regs, program>>
  PROVE  MemInv' /\ HeapKept
BY DEF MemInv, MemoryDisjoint, HeapKept, End, Elements

LEMMA FailKeeps ==
  ASSUME MemInv, FailUnchanged \/ Lose, UNCHANGED variable_regs
  PROVE  MemInv' /\ HeapKept
BY UnchangedKeeps DEF FailUnchanged, Fail, Lose

\* The variable a name stands for.
LEMMA FoundVariable ==
  ASSUME MemInv, NEW x, Known(x)
  PROVE  \E k \in Matching(x) :
           /\ \A l \in Matching(x) : k <= l
           /\ get_variable(x) = variable_regs[k]
           /\ get_variable(x) \in Variable
<1>1. DOMAIN variable_regs \subseteq Nat
  BY LenProperties DEF MemInv
<1>2. Matching(x) \in SUBSET Nat /\ Matching(x) # {} /\ Matching(x) \subseteq DOMAIN variable_regs
  BY <1>1 DEF Matching, Known
<1>3. \E k \in Matching(x) : \A l \in Matching(x) : k <= l
  BY <1>2, SmallestIndex
<1> DEFINE c == CHOOSE k \in Matching(x) : \A l \in Matching(x) : k <= l
<1>4. c \in Matching(x) /\ \A l \in Matching(x) : c <= l
  BY <1>3
<1>5. get_variable(x) = variable_regs[c]
  BY DEF get_variable
<1> HIDE DEF c
<1>6. variable_regs[c] \in Variable
  BY <1>2, <1>4, LenProperties, ElementOfSeq DEF MemInv
<1> QED
  BY <1>4, <1>5, <1>6

(***************************************************************************)
(* The instructions that neither store nor create.                         *)
(***************************************************************************)
LEMMA Nothing == MemInv => Holds(0)
BY VMAssumption DEF MemInv, MemoryDisjoint, Holds

\* Instructions on constants and on the top of the stack.
LEMMA PlainKeep ==
  ASSUME MemInv,
         Push \/ IPop \/ FPop \/ Cast("ICASTF", "int") \/ Cast("FCASTI", "float")
  PROVE  MemInv' /\ HeapKept
<1>1. CASE Push
  BY <1>1, Nothing, BytesOfValue, PopPushKeeps DEF Push
<1>2. CASE IPop
  <2>1. CASE Holds(2)
    BY <1>2, <2>1, PopToKeeps DEF IPop
  <2>2. CASE ~Holds(2)
    <3>1. UNCHANGED <<mem, stack_ptr, heap_ptr, variable_regs, program>>
      BY <1>2, <2>2 DEF IPop, Continue
    <3> QED
      BY <3>1, UnchangedKeeps
  <2> QED
    BY <2>1, <2>2
<1>3. CASE FPop
  <2>1. CASE Holds(4)
    BY <1>3, <2>1, PopToKeeps DEF FPop
  <2>2. CASE ~Holds(4)
    BY <1>3, <2>2, FailKeeps DEF FPop
  <2> QED
    BY <2>1, <2>2
<1>4. ASSUME NEW op, NEW from, Cast(op, from)
      PROVE  MemInv' /\ HeapKept
  <2>1. CASE Holds(SizeOf(from))
    <3>1. PICK v : PopPush(SizeOf(from), Bytes(v))
      BY <1>4, <2>1 DEF Cast
    <3>2. SizeOf(from) \in Nat /\ UNCHANGED variable_regs
      BY <1>4, Sizes DEF Cast
    <3> QED
      BY <2>1, <3>1, <3>2, BytesOfValue, PopPushKeeps
  <2>2. CASE ~Holds(SizeOf(from))
    BY <1>4, <2>2, FailKeeps DEF Cast
  <2> QED
    BY <2>1, <2>2
<1> QED
  BY <1>1, <1>2, <1>3, <1>4

\* OPERATION_POP, IINC and NOT.
LEMMA OperateKeeps ==
  ASSUME MemInv, Operation \/ InPlace
  PROVE  MemInv' /\ HeapKept
<1>1. CASE Operation
  <2> DEFINE size == SizeOf(OperandType(instr[1]))
  <2>1. size \in Nat /\ 2 * size \in Nat
    BY Sizes
  <2> HIDE DEF size
  <2>2. CASE FailUnchanged \/ Lose
    BY <1>1, <2>2, FailKeeps DEF Operation
  <2>3. CASE Holds(2 * size) /\ \E v : PopPush(2 * size, Bytes(v))
    BY <1>1, <2>1, <2>3, BytesOfValue, PopPushKeeps DEF Operation
  <2> QED
    BY <1>1, <2>2, <2>3 DEF Operation, size
<1>2. CASE InPlace
  <2>1. CASE Holds(2)
    <3>1. PICK v : /\ mem' = Written(stack_ptr, Bytes(v))
                   /\ UNCHANGED <<program, stack_ptr, heap_ptr, variable_regs>>
      BY <1>2, <2>1 DEF InPlace, Continue
    <3>2. MemInv'
      BY <3>1 DEF MemInv, MemoryDisjoint, End, Elements
    <3>3. HeapKept
      <4> SUFFICES ASSUME NEW b \in Address, b < heap_ptr PROVE mem'[b] = mem[b]
        BY DEF HeapKept
      <4>1. b < stack_ptr /\ stack_ptr \in Nat
        BY VMAssumption DEF MemInv, MemoryDisjoint, Address
      <4> QED
        BY <3>1, <4>1, BytesOfValue, WrittenApart
    <3> QED
      BY <3>2, <3>3
  <2>2. CASE ~Holds(2)
    BY <1>2, <2>2, FailKeeps DEF InPlace
  <2> QED
    BY <2>1, <2>2
<1> QED
  BY <1>1, <1>2

\* Instructions that read variables.
LEMMA ReadKeeps ==
  ASSUME MemInv,
         \/ Fetch("IFETCH", "int") \/ Fetch("FFETCH", "float")
         \/ ArrayFetch \/ ArrayLength \/ ArraySum \/ Call
  PROVE  MemInv' /\ HeapKept
<1>1. ASSUME NEW op, NEW type, Fetch(op, type)
      PROVE  MemInv' /\ HeapKept
  <2>1. UNCHANGED variable_regs
    BY <1>1 DEF Fetch
  <2>2. FailUnchanged \/ Lose \/ \E v : PopPush(0, Bytes(v))
    BY <1>1 DEF Fetch
  <2> QED
    BY <2>1, <2>2, FailKeeps, Nothing, BytesOfValue, PopPushKeeps
<1>2. CASE ArrayFetch
  <2> DEFINE size == variable_type_size(get_variable(arg).type)
  <2>1. UNCHANGED variable_regs /\ size \in Nat
    BY <1>2, Sizes DEF ArrayFetch
  <2>2. FailUnchanged \/ Lose \/ (Holds(2) /\ \E a : PopPush(2, ReadBytes(a, size)))
    BY <1>2 DEF ArrayFetch
  <2> HIDE DEF size
  <2> QED
    BY <2>1, <2>2, FailKeeps, BytesRead, PopPushKeeps
<1>3. CASE ArrayLength
  <2>1. UNCHANGED variable_regs /\ (FailUnchanged \/ \E v : PopPush(0, Bytes(v)))
    BY <1>3 DEF ArrayLength
  <2> QED
    BY <2>1, FailKeeps, Nothing, BytesOfValue, PopPushKeeps
<1>4. CASE ArraySum
  <2>1. UNCHANGED variable_regs /\ (FailUnchanged \/ \E v : PopPush(0, Bytes(v)))
    BY <1>4 DEF ArraySum
  <2> QED
    BY <2>1, FailKeeps, Nothing, BytesOfValue, PopPushKeeps
<1>5. CASE Call
  <2>1. CASE FailUnchanged
    BY <1>5, <2>1, FailKeeps DEF Call
  <2>2. CASE ~FailUnchanged
    <3> DEFINE size == SizeOf(Record[Fn[arg]])
    <3>1. size \in Nat
      BY Sizes
    <3>2. Holds(data_size) /\ \E a : PopPush(data_size, ReadBytes(a, size))
      BY <1>5, <2>2 DEF Call
    <3>3. UNCHANGED variable_regs
      BY <1>5 DEF Call
    <3> HIDE DEF size
    <3> QED
      BY <3>1, <3>2, <3>3, Sizes, BytesRead, PopPushKeeps
  <2> QED
    BY <2>1, <2>2
<1> QED
  BY <1>1, <1>2, <1>3, <1>4, <1>5

\* Jumps and the ends of a program.
LEMMA ControlKeeps ==
  ASSUME MemInv, Jump \/ JumpIf \/ Halt \/ EndOfProgram \/ Astray
  PROVE  MemInv' /\ HeapKept
<1>1. CASE Jump
  BY <1>1, UnchangedKeeps DEF Jump, Continue
<1>2. CASE JumpIf
  <2>1. CASE Holds(2)
    <3>1. (\E c : PopTo(2, c)) /\ UNCHANGED variable_regs
      BY <1>2, <2>1 DEF JumpIf
    <3> QED
      BY <2>1, <3>1, PopToKeeps
  <2>2. CASE ~Holds(2)
    BY <1>2, <2>2, FailKeeps DEF JumpIf
  <2> QED
    BY <2>1, <2>2
<1>3. CASE Halt \/ EndOfProgram \/ Astray
  <2>1. CASE FailUnchanged \/ Lose
    BY <1>3, <2>1, FailKeeps DEF Halt, EndOfProgram, Astray
  <2>2. CASE UNCHANGED <<program, mem, stack_ptr, heap_ptr, variable_regs>>
    BY <2>2, UnchangedKeeps
  <2> QED
    BY <1>3, <2>1, <2>2 DEF Halt, EndOfProgram, Astray
<1> QED
  BY <1>1, <1>2, <1>3

(***************************************************************************)
(* Creating a variable: it is put above all others, below the stack.       *)
(***************************************************************************)
LEMMA CreateKeeps ==
  ASSUME MemInv, NEW op \in {"IVAR", "FVAR"}, NEW type \in {"int", "float"},
         CreateVariable(op, type)
  PROVE  MemInv' /\ HeapKept
<1> DEFINE n == StringSize[arg]
<1> DEFINE size == variable_type_size(type)
<1> DEFINE zero == <<type, IF type = "int" THEN 0 ELSE FloatOf(0)>>
<1> DEFINE reg == [name |-> heap_ptr, location |-> heap_ptr + n, type |-> type, length |-> 0]
<1>1. arg \in Name
  BY DEF CreateVariable, Fetching, MemInv, IsCode, instr, arg, OnVariables
<1>2. n \in Nat /\ n >= 1 /\ size \in Nat /\ size >= 2
  BY <1>1, Sizes
<1>3. /\ IsBytes(NameBytes(arg)) /\ IsBytes(NameBytes(arg) \o Bytes(zero))
  BY <1>1, BytesOfVariable
<1>4. heap_ptr \in Nat /\ stack_ptr \in Nat /\ heap_ptr <= stack_ptr /\ stack_ptr <= STACK_SIZE
  BY DEF MemInv, MemoryDisjoint
<1>5. ASSUME NEW bytes, IsBytes(bytes), mem' = Written(heap_ptr, bytes) PROVE HeapKept
  BY <1>4, <1>5, WrittenApart DEF HeapKept
<1>6. CASE FailUnchanged /\ UNCHANGED variable_regs
  BY <1>6, FailKeeps
<1>7. CASE /\ heap_alloc(n) /\ ~heap_alloc(n + size)
           /\ Fail /\ heap_ptr' = heap_ptr + n
           /\ mem' = Written(heap_ptr, NameBytes(arg))
           /\ UNCHANGED <<stack_ptr, variable_regs>>
  <2>1. HeapKept
    BY <1>3, <1>5, <1>7
  <2>2. MemInv'
    <3>1. heap_ptr' \in Nat /\ heap_ptr' >= heap_ptr /\ heap_ptr' <= stack_ptr'
      BY <1>2, <1>4, <1>7 DEF heap_alloc
    <3>2. \A k \in DOMAIN variable_regs : End(variable_regs[k]) \in Nat
      BY EndOf, LenProperties, ElementOfSeq DEF MemInv
    <3>3. IsCode(program') /\ UNCHANGED <<stack_ptr, variable_regs>>
      BY <1>7 DEF Fail, MemInv
    <3> HIDE DEF n
    <3> QED
      BY <1>4, <3>1, <3>2, <3>3, VMAssumption DEF MemInv, MemoryDisjoint, End, Elements
  <2> QED
    BY <1>7, <2>1, <2>2
<1>8. CASE /\ heap_alloc(n + size)
           /\ Continue(Following)
           /\ heap_ptr' = heap_ptr + n + size
           /\ mem' = Written(heap_ptr, NameBytes(arg) \o Bytes(zero))
           /\ variable_regs' = Append(variable_regs, reg)
           /\ UNCHANGED <<stack_ptr, error>>
  <2>1. HeapKept
    BY <1>3, <1>5, <1>8
  <2>2. reg \in Variable /\ reg.name = heap_ptr /\ reg.location = heap_ptr + n
    BY <1>2, <1>4, BytecodeAssumption DEF Variable
  <2>3. End(reg) = heap_ptr + n + size
    BY <1>2, <1>4 DEF End, Elements
  <2>4. heap_ptr' \in Nat /\ heap_ptr' >= heap_ptr /\ heap_ptr' <= stack_ptr'
    BY <1>2, <1>4, <1>8 DEF heap_alloc
  <2> HIDE DEF reg
  <2>5. /\ variable_regs' \in Seq(Variable)
        /\ DOMAIN variable_regs' = 1 .. Len(variable_regs) + 1
        /\ \A k \in 1 .. Len(variable_regs) : variable_regs'[k] = variable_regs[k]
        /\ variable_regs'[Len(variable_regs) + 1] = reg
        /\ DOMAIN variable_regs = 1 .. Len(variable_regs)
        /\ Len(variable_regs) \in Nat
    BY <1>8, <2>2, LenProperties, AppendProperties DEF MemInv
  <2>6. \A k \in 1 .. Len(variable_regs) :
          /\ variable_regs[k].name < variable_regs[k].location
          /\ variable_regs[k].location < End(variable_regs[k])
          /\ End(variable_regs[k]) <= heap_ptr
          /\ End(variable_regs[k]) \in Nat
    BY <2>5, EndOf, ElementOfSeq DEF MemInv, MemoryDisjoint
  <2>7. MemoryDisjoint'
    <3>1. \A k \in DOMAIN variable_regs' :
            /\ variable_regs'[k].name < variable_regs'[k].location
            /\ variable_regs'[k].location < End(variable_regs'[k])
            /\ End(variable_regs'[k]) <= heap_ptr'
      <4> SUFFICES ASSUME NEW k \in DOMAIN variable_regs'
                   PROVE  /\ variable_regs'[k].name < variable_regs'[k].location
                          /\ variable_regs'[k].location < End(variable_regs'[k])
                          /\ End(variable_regs'[k]) <= heap_ptr'
        OBVIOUS
      <4>1. CASE k \in 1 .. Len(variable_regs)
        BY <1>4, <2>4, <2>5, <2>6, <4>1
      <4>2. CASE k = Len(variable_regs) + 1
        BY <1>2, <1>4, <1>8, <2>2, <2>3, <2>5, <4>2
      <4> QED
        BY <2>5, <4>1, <4>2
    <3>2. \A k, l \in DOMAIN variable_regs' : k < l => End(variable_regs'[k]) <= variable_regs'[l].name
      <4> SUFFICES ASSUME NEW k \in DOMAIN variable_regs', NEW l \in DOMAIN variable_regs', k < l
                   PROVE  End(variable_regs'[k]) <= variable_regs'[l].name
        OBVIOUS
      <4>1. k \in 1 .. Len(variable_regs)
        BY <2>5
      <4>2. CASE l \in 1 .. Len(variable_regs)
        BY <2>5, <4>1, <4>2 DEF MemInv, MemoryDisjoint
      <4>3. CASE l = Len(variable_regs) + 1
        BY <2>2, <2>5, <2>6, <4>1, <4>3
      <4> QED
        BY <2>5, <4>2, <4>3
    <3> QED
      BY <1>4, <1>8, <2>4, <3>1, <3>2 DEF MemoryDisjoint, End, Elements
  <2>8. MemInv'
    BY <1>4, <1>8, <2>4, <2>5, <2>7 DEF MemInv, Continue
  <2> QED
    BY <2>1, <2>5, <2>8
<1> QED
  BY <1>6, <1>7, <1>8 DEF CreateVariable

(***************************************************************************)
(* A store writes inside of the variable it names, unless it stores more   *)
(* than there is room for.                                                 *)
(***************************************************************************)
StoreInPlace ==
  ~StoresTooMuch => \A k \in DOMAIN variable_regs : Kept(k) \/ StoresTo(k)

LEMMA StoreKeeps ==
  ASSUME MemInv,
         NEW op, NEW type,
         \/ op = "ISTORE" /\ type = "int"
         \/ op = "FSTORE" /\ type = "float",
         Store(op, type)
  PROVE  MemInv' /\ StoreInPlace
<1>1. MemInv'
  <2>1. UNCHANGED <<stack_ptr, heap_ptr, variable_regs>> /\ UNCHANGED program
    BY DEF Store, FailUnchanged, Fail, Lose, Continue
  <2> QED
    BY <2>1 DEF MemInv, MemoryDisjoint, End, Elements
<1>2. StoreInPlace
  <2> SUFFICES ASSUME ~StoresTooMuch, NEW k \in DOMAIN variable_regs, ~StoresTo(k)
               PROVE  Kept(k)
    BY DEF StoreInPlace
  <2>1. CASE mem' = mem
    BY <2>1 DEF Kept
  <2>2. CASE mem' # mem
    <3> DEFINE reg == get_variable(arg)
    <3>1. /\ Fetching({op}) /\ Known(arg)
          /\ \E v : mem' = Written(reg.location, Bytes(<<type, v>>))
      BY <2>2 DEF Store, FailUnchanged, Lose
    <3>2. PICK c \in Matching(arg) :
            /\ \A l \in Matching(arg) : c <= l
            /\ reg = variable_regs[c] /\ reg \in Variable
      BY <3>1, FoundVariable
    <3>3. StoresTo(c)
      BY <3>1, <3>2 DEF StoresTo, Fetching
    <3>4. c \in DOMAIN variable_regs /\ c # k
      BY <3>2, <3>3 DEF Matching
    <3>5. reg.location + SizeOf(type) <= End(reg)
      <4>1. CASE type = "int"
        BY <3>2, <4>1, EndOf, Sizes
      <4>2. CASE op = "FSTORE" /\ type = "float"
        <5>1. ~(reg.location + SizeOf("float") > End(reg))
          BY <3>1, <4>2 DEF StoresTooMuch
        <5>2. reg.location \in Nat /\ End(reg) \in Nat
          BY <3>2, EndOf DEF Variable
        <5> HIDE DEF reg
        <5> QED
          BY <4>2, <5>1, <5>2, Sizes
      <4> QED
        BY <4>1, <4>2
    <3>6. /\ variable_regs[k] \in Variable
          /\ DOMAIN variable_regs = 1 .. Len(variable_regs) /\ Len(variable_regs) \in Nat
      BY LenProperties, ElementOfSeq DEF MemInv
    <3>7. PICK v : mem' = Written(reg.location, Bytes(<<type, v>>))
      BY <3>1
    <3> DEFINE bytes == Bytes(<<type, v>>)
    <3>8. IsBytes(bytes) /\ Len(bytes) = SizeOf(type)
      BY BytesOfValue
    <3> HIDE DEF bytes
    <3>9. /\ variable_regs[c].name < variable_regs[c].location
          /\ End(variable_regs[k]) <= heap_ptr
          /\ heap_ptr \in Nat /\ heap_ptr <= stack_ptr /\ stack_ptr \in Nat /\ stack_ptr <= STACK_SIZE
          /\ c < k => End(variable_regs[c]) <= variable_regs[k].name
          /\ k < c => End(variable_regs[k]) <= variable_regs[c].name
      BY <3>4, <3>6 DEF MemInv, MemoryDisjoint
    <3>10. /\ variable_regs[c].name \in Nat /\ variable_regs[c].location \in Nat
           /\ variable_regs[k].name \in Nat
           /\ End(variable_regs[c]) \in Nat /\ End(variable_regs[k]) \in Nat
      BY <3>2, <3>6, EndOf DEF Variable
    <3>11. ASSUME NEW a \in variable_regs[k].name .. End(variable_regs[k]) - 1
           PROVE  mem'[a] = mem[a]
      <4>1. a \in Address
        BY <3>9, <3>10, VMAssumption DEF Address
      <4>2. c < k \/ k < c
        BY <3>4, <3>6
      <4>3. SizeOf(type) \in Nat
        BY Sizes
      <4>4. a < reg.location \/ a >= reg.location + SizeOf(type)
        <5>1. CASE c < k
          BY <3>2, <3>5, <3>9, <3>10, <4>3, <5>1
        <5>2. CASE k < c
          BY <3>2, <3>9, <3>10, <5>2
        <5> QED
          BY <4>2, <5>1, <5>2
      <4>5. reg.location \in Nat
        BY <3>2, <3>10
      <4> HIDE DEF reg
      <4> QED
        BY <3>7, <3>8, <4>1, <4>4, <4>5, WrittenApart DEF bytes
    <3> QED
      BY <3>11 DEF Kept
  <2> QED
    BY <2>1, <2>2
<1> QED
  BY <1>1, <1>2

(***************************************************************************)
(* What is below heap_ptr is where the variables are.                      *)
(***************************************************************************)
LEMMA HeapKeptVariablesKept ==
  ASSUME MemInv, HeapKept
  PROVE  StoreInPlace
<1> SUFFICES ASSUME NEW k \in DOMAIN variable_regs,
                    NEW a \in variable_regs[k].name .. End(variable_regs[k]) - 1
             PROVE  mem'[a] = mem[a]
  BY DEF StoreInPlace, Kept
<1>1. variable_regs[k] \in Variable
  BY LenProperties, ElementOfSeq DEF MemInv
<1>2. variable_regs[k].name \in Nat /\ End(variable_regs[k]) \in Nat
  BY <1>1, EndOf DEF Variable
<1>3. End(variable_regs[k]) <= heap_ptr /\ heap_ptr <= stack_ptr /\ stack_ptr <= STACK_SIZE
  BY DEF MemInv, MemoryDisjoint
<1>4. a \in Address /\ a < heap_ptr
  BY <1>2, <1>3, VMAssumption DEF MemInv, Address
<1> QED
  BY <1>4 DEF HeapKept

LEMMA EveryStep ==
  ASSUME MemInv, [Next]_vars
  PROVE  MemInv' /\ StoreInPlace
<1>1. CASE Push \/ IPop \/ FPop \/ Cast("ICASTF", "int") \/ Cast("FCASTI", "float")
  BY <1>1, PlainKeep, HeapKeptVariablesKept
<1>2. CASE Operation \/ InPlace
  BY <1>2, OperateKeeps, HeapKeptVariablesKept
<1>3. CASE \/ Fetch("IFETCH", "int") \/ Fetch("FFETCH", "float")
           \/ ArrayFetch \/ ArrayLength \/ ArraySum \/ Call
  BY <1>3, ReadKeeps, HeapKeptVariablesKept
<1>4. CASE Jump \/ JumpIf \/ Halt \/ EndOfProgram \/ Astray
  BY <1>4, ControlKeeps, HeapKeptVariablesKept
<1>5. CASE CreateVariable("IVAR", "int") \/ CreateVariable("FVAR", "float")
  BY <1>5, CreateKeeps, HeapKeptVariablesKept
<1>6. CASE Store("ISTORE", "int") \/ Store("FSTORE", "float")
  BY <1>6, StoreKeeps
<1>7. CASE UNCHANGED vars
  <2>1. UNCHANGED <<mem, stack_ptr, heap_ptr, variable_regs, program>>
    BY <1>7 DEF vars
  <2> QED
    BY <2>1, UnchangedKeeps, HeapKeptVariablesKept
<1> QED
  BY <1>1, <1>2, <1>3, <1>4, <1>5, <1>6, <1>7 DEF Next

LEMMA MemoryInvariant == Spec => []MemInv
<1>1. MemInv /\ [Next]_vars => MemInv'
  BY EveryStep
<1> QED
  BY <1>1, MemoryInitially, PTL DEF Spec

\* Stack and heap do not meet and variables do not overlap, whatever the program
\* pushes, pops and creates (heap_alloc, push_stack, pop_stack, create_variable).
THEOREM MemoryStaysDisjoint == Spec => []MemoryDisjoint
<1>1. MemInv => MemoryDisjoint
  BY DEF MemInv
<1> QED
  BY <1>1, MemoryInvariant, PTL

\* An instruction changes no byte of a variable but a store to it, unless it
\* stores a float where there is room for less (evaluate).
THEOREM VariablesAreKept == Spec => OnlyStoresChangeVariables
<1>1. MemInv /\ [Next]_vars =>
        [~StoresTooMuch => \A k \in DOMAIN variable_regs : Kept(k) \/ StoresTo(k)]_vars
  BY EveryStep DEF StoreInPlace
<1> QED
  BY <1>1, MemoryInvariant, PTL DEF Spec, OnlyStoresChangeVariables

(***************************************************************************)
(* Types.                                                                  *)
(***************************************************************************)
\* What TypeOK says beside MemInv.
RestOK ==
  /\ current \in Nat
  /\ mem \in [Address -> Byte]
  /\ Len(variable_regs) <= MAXIMUM_VARIABLES
  /\ error \in BOOLEAN
  /\ result \in {Running, LostTrack} \cup {Returned(v) : v \in nint}

\* What a value of a type may be worth.
Worths(type) == IF type = "int" THEN nint ELSE nfloat

LEMMA SeqOf ==
  ASSUME NEW n \in Nat, NEW s, NEW S, s = [k \in 1 .. n |-> s[k]], \A k \in 1 .. n : s[k] \in S
  PROVE  s \in Seq(S)
<1>1. s \in [1 .. n -> S]
  OBVIOUS
<1> QED
  BY <1>1, SeqDef

LEMMA BytesAre ==
  ASSUME NEW b
  PROVE  b \in Byte <=>
           \/ \E v \in nint, k \in 0 .. 1 : b = <<"int", v, k>>
           \/ \E v \in nfloat, k \in 0 .. 3 : b = <<"float", v, k>>
           \/ \E x \in Name : \E k \in 0 .. StringSize[x] - 1 : b = <<"name", x, k>>
           \/ b = Junk
BY SMT DEF Byte

LEMMA BytesTyped ==
  /\ \A type \in {"int", "float"} : \A v \in Worths(type) : Bytes(<<type, v>>) \in Seq(Byte)
  /\ \A x \in Name : NameBytes(x) \in Seq(Byte)
<1>1. ASSUME NEW type \in {"int", "float"}, NEW v \in Worths(type)
      PROVE  Bytes(<<type, v>>) \in Seq(Byte)
  <2> DEFINE s == Bytes(<<type, v>>)
  <2>1. SizeOf(type) \in Nat /\ s = [k \in 1 .. SizeOf(type) |-> s[k]]
    BY Sizes DEF Bytes
  <2>2. ASSUME NEW k \in 1 .. SizeOf(type)
        PROVE  s[k] \in Byte
    <3>1. s[k] = <<type, v, k - 1>>
      BY DEF Bytes
    <3>2. CASE type = "int"
      <4>1. k - 1 \in 0 .. 1 /\ v \in nint
        BY <3>2 DEF SizeOf, Worths
      <4> QED
        BY <3>1, <3>2, <4>1, BytesAre, Zenon
    <3>3. CASE type = "float"
      <4>1. k - 1 \in 0 .. 3 /\ v \in nfloat
        BY <3>3 DEF SizeOf, Worths
      <4> QED
        BY <3>1, <3>3, <4>1, BytesAre, Zenon
    <3> QED
      BY <3>2, <3>3
  <2> HIDE DEF s
  <2>3. s \in Seq(Byte)
    BY <2>1, <2>2, SeqOf
  <2> QED
    BY <2>3 DEF s
<1>2. ASSUME NEW x \in Name
      PROVE  NameBytes(x) \in Seq(Byte)
  <2> DEFINE s == NameBytes(x)
  <2>1. StringSize[x] \in Nat /\ s = [k \in 1 .. StringSize[x] |-> s[k]]
    BY Sizes DEF NameBytes
  <2>2. ASSUME NEW k \in 1 .. StringSize[x]
        PROVE  s[k] \in Byte
    <3>1. s[k] = <<"name", x, k - 1>> /\ k - 1 \in 0 .. StringSize[x] - 1
      BY <2>1 DEF NameBytes
    <3> QED
      BY <3>1, BytesAre, Zenon
  <2> HIDE DEF s
  <2>3. s \in Seq(Byte)
    BY <2>1, <2>2, SeqOf
  <2> QED
    BY <2>3 DEF s
<1> QED
  BY <1>1, <1>2

LEMMA WorthOfByte ==
  ASSUME NEW b \in Byte
  PROVE  /\ b[1] = "int" => b[2] \in nint
         /\ b[1] = "float" => b[2] \in nfloat
BY BytesAre DEF Junk

LEMMA ReadAsTyped ==
  ASSUME RestOK, NEW a \in Address, NEW type \in {"int", "float"}
  PROVE  ReadAs(type, a) \subseteq Worths(type)
<1>1. mem[a] \in Byte
  BY DEF RestOK
<1> QED
  BY <1>1, WorthOfByte DEF ReadAs, Worths

LEMMA WrittenTyped ==
  ASSUME RestOK, NEW a, NEW bytes \in Seq(Byte)
  PROVE  Written(a, bytes) \in [Address -> Byte]
<1>1. \A i \in DOMAIN bytes : bytes[i] \in Byte
  BY LenProperties, ElementOfSeq
<1> QED
  BY <1>1 DEF Written, RestOK

\* The bytes an instruction copies are in the array.
LEMMA ReadBytesTyped ==
  ASSUME RestOK, NEW a \in Nat, NEW size \in Nat, a + size <= STACK_SIZE
  PROVE  ReadBytes(a, size) \in Seq(Byte)
<1> DEFINE s == ReadBytes(a, size)
<1>1. s = [k \in 1 .. size |-> s[k]]
  BY DEF ReadBytes
<1>2. ASSUME NEW k \in 1 .. size
      PROVE  s[k] \in Byte
  <2>1. a + k - 1 \in Address
    BY VMAssumption DEF Address
  <2> QED
    BY <2>1 DEF ReadBytes, RestOK
<1> HIDE DEF s
<1>3. s \in Seq(Byte)
  BY <1>1, <1>2, SeqOf
<1> QED
  BY <1>3 DEF s

LEMMA FollowingTyped ==
  ASSUME MemInv, RestOK, current \in DOMAIN program.at,
         instr[1] = "CALL" => arg \in DOMAIN Fn,
         instr[1] = "ASUM" => instr[3] \in DOMAIN Fn
  PROVE  Following \in Nat
<1>1. instr[1] \in OnVariables => arg \in Name
  BY DEF MemInv, IsCode, instr, arg
<1>2. \A x \in Name \cup DOMAIN Fn : StringSize[x] \in Nat
  BY BytecodeAssumption
<1>3. instr[1] \in OnVariables \/ instr[1] = "CALL" => StringSize[instr[2]] \in Nat
  BY <1>1, <1>2 DEF arg
<1>4. instr[1] = "ASUM" => StringSize[instr[3]] \in Nat
  BY <1>2
<1>5. ArgSize(instr) \in Nat
  BY <1>3, <1>4 DEF ArgSize, OnVariables, SizeOf
<1> QED
  BY <1>5 DEF Following, RestOK

LEMMA PopPushTypes ==
  ASSUME MemInv, RestOK, NEW popped \in Nat, NEW bytes \in Seq(Byte), Following \in Nat,
         PopPush(popped, bytes), UNCHANGED variable_regs
  PROVE  RestOK'
<1>0. Len(bytes) \in Nat
  BY LenProperties
<1>1. 0 \in nint
  BY BytecodeAssumption
<1> DEFINE a == stack_ptr + popped - Len(bytes)
<1>2. CASE a < heap_ptr
  <2>1. /\ error' = TRUE /\ result' = Returned(0)
        /\ UNCHANGED <<current, mem>>
    BY <1>0, <1>2 DEF PopPush, Fail, MemInv
  <2> QED
    BY <1>1, <2>1 DEF RestOK
<1>3. CASE ~(a < heap_ptr)
  <2>1. /\ current' = Following /\ UNCHANGED <<result, error>>
        /\ mem' = Written(a, bytes)
    BY <1>0, <1>3 DEF PopPush, Continue, MemInv
  <2>2. mem' \in [Address -> Byte]
    BY <2>1, WrittenTyped
  <2> QED
    BY <2>1, <2>2 DEF RestOK
<1> QED
  BY <1>2, <1>3

\* Control goes on and the memory stays; or the instruction fails, or is lost.
LEMMA PlainTypes ==
  ASSUME MemInv, RestOK, UNCHANGED <<mem, variable_regs>>,
         \/ current' \in Nat /\ error' \in BOOLEAN /\ UNCHANGED result
         \/ FailUnchanged
         \/ Lose
  PROVE  RestOK'
<1>1. 0 \in nint
  BY BytecodeAssumption
<1> QED
  BY <1>1 DEF RestOK, FailUnchanged, Fail, Lose

\* The array n1 as main() fills it: its name, then its first value, then the others.
LEMMA HeapInitially ==
  ASSUME NEW heap, heap = NameBytes(ArrayName) \o Flatten([k \in DOMAIN Array |-> AllBytes(Array[k])])
  PROVE  /\ heap \in Seq(Byte)
         /\ Len(heap) > StringSize[ArrayName]
         /\ heap[StringSize[ArrayName] + 1] = <<Record[1], Array[1][1][2], 0>>
<1> DEFINE V == {"int"} \X nint \cup {"float"} \X nfloat
<1> DEFINE Starts1(bytes) == Len(bytes) >= 1 /\ bytes[1] = <<Record[1], Array[1][1][2], 0>>
<1>1. /\ Array \in [1 .. Len(Array) -> Seq(V)] /\ DOMAIN Array = 1 .. Len(Array)
      /\ Len(Array) \in Nat /\ Len(Array) >= 1
  BY VMAssumption, LenProperties, EmptySeq
<1>2. Len(Record) \in Nat /\ Len(Record) >= 1 /\ DOMAIN Record = 1 .. Len(Record)
  BY BytecodeAssumption, LenProperties, EmptySeq
<1>3. \A v \in V : Bytes(v) \in Seq(Byte) /\ Len(Bytes(v)) >= 1 /\ Bytes(v)[1] = <<v[1], v[2], 0>>
  <2> SUFFICES ASSUME NEW v \in V
               PROVE  Bytes(v) \in Seq(Byte) /\ Len(Bytes(v)) >= 1 /\ Bytes(v)[1] = <<v[1], v[2], 0>>
    OBVIOUS
  <2>1. v[1] \in {"int", "float"} /\ v[2] \in Worths(v[1]) /\ v = <<v[1], v[2]>>
    BY DEF Worths
  <2>2. Bytes(<<v[1], v[2]>>) \in Seq(Byte)
    BY <2>1, BytesTyped
  <2>3. Len(Bytes(v)) = SizeOf(v[1]) /\ SizeOf(v[1]) \in {2, 4}
    BY BytesOfValue, Sizes
  <2>4. Bytes(v)[1] = <<v[1], v[2], 0>>
    BY <2>3 DEF Bytes
  <2>5. Bytes(v) = Bytes(<<v[1], v[2]>>)
    BY DEF Bytes
  <2>6. Len(Bytes(v)) >= 1
    BY <2>3
  <2> QED
    BY <2>2, <2>4, <2>5, <2>6
<1>4. ASSUME NEW k \in DOMAIN Array
      PROVE  AllBytes(Array[k]) \in Seq(Byte) /\ (k = 1 => Starts1(AllBytes(Array[k])))
  <2> DEFINE parts == [f \in DOMAIN Array[k] |-> Bytes(Array[k][f])]
  <2>1. /\ Array[k] \in Seq(V) /\ Len(Array[k]) = Len(Record)
        /\ DOMAIN Array[k] = 1 .. Len(Record)
        /\ \A f \in 1 .. Len(Record) : Array[k][f] \in V /\ Array[k][f][1] = Record[f]
    <3>1. Len(Array[k]) = Len(Record) /\ \A f \in 1 .. Len(Record) : Array[k][f][1] = Record[f]
      BY <1>2, VMAssumption
    <3>2. Array \in Seq(Seq(V)) /\ k \in 1 .. Len(Array)
      BY VMAssumption, LenProperties
    <3> HIDE DEF V
    <3>3. Array[k] \in Seq(V)
      BY <3>2, ElementOfSeq
    <3>4. DOMAIN Array[k] = 1 .. Len(Record)
      BY <3>1, <3>3, LenProperties
    <3>5. \A f \in 1 .. Len(Record) : Array[k][f] \in V
      BY <3>1, <3>3, ElementOfSeq
    <3> QED
      BY <3>1, <3>3, <3>4, <3>5
  <2>2. parts \in [1 .. Len(Record) -> Seq(Byte)]
    <3> HIDE DEF V
    <3> QED
      BY <1>3, <2>1
  <2>3. parts[1] = Bytes(Array[k][1]) /\ Array[k][1] \in V
    BY <1>2, <2>1
  <2> HIDE DEF parts
  <2>4. Flatten(parts) \in Seq(Byte) /\ StartsWith(Flatten(parts), parts[1])
    BY <1>2, <2>2, FlattenBytes
  <2>5. ASSUME k = 1
        PROVE  Starts1(Flatten(parts))
    <3>1. Len(parts[1]) >= 1 /\ parts[1][1] = <<Record[1], Array[1][1][2], 0>>
      <4> HIDE DEF V
      <4> QED
        BY <1>2, <1>3, <2>1, <2>3, <2>5
    <3>2. Len(parts[1]) \in Nat /\ Len(Flatten(parts)) \in Nat
      BY <1>2, <2>2, <2>4, LenProperties
    <3> QED
      BY <2>4, <3>1, <3>2 DEF StartsWith
  <2> QED
    BY <2>4, <2>5 DEF AllBytes, parts
<1> DEFINE records == [k \in DOMAIN Array |-> AllBytes(Array[k])]
<1>5. records \in [1 .. Len(Array) -> Seq(Byte)] /\ Starts1(records[1])
  BY <1>1, <1>4
<1> HIDE DEF records
<1>6. Flatten(records) \in Seq(Byte) /\ Starts1(Flatten(records))
  <2>1. Flatten(records) \in Seq(Byte) /\ StartsWith(Flatten(records), records[1])
    BY <1>1, <1>5, FlattenBytes
  <2>2. Len(records[1]) \in Nat /\ Len(Flatten(records)) \in Nat
    BY <1>1, <1>5, <2>1, LenProperties
  <2> QED
    BY <1>5, <2>1, <2>2 DEF StartsWith
<1>7. /\ NameBytes(ArrayName) \in Seq(Byte) /\ Len(NameBytes(ArrayName)) = StringSize[ArrayName]
      /\ StringSize[ArrayName] \in Nat
  <2>1. ArrayName \in Name /\ StringSize[ArrayName] \in Nat
    BY VMAssumption, Sizes
  <2>2. NameBytes(ArrayName) = [k \in 1 .. StringSize[ArrayName] |-> NameBytes(ArrayName)[k]]
    BY DEF NameBytes
  <2> QED
    BY <2>1, <2>2, LengthOf, BytesTyped
<1>8. /\ heap \in Seq(Byte)
      /\ Len(heap) = StringSize[ArrayName] + Len(Flatten(records))
      /\ \A i \in 1 .. StringSize[ArrayName] + Len(Flatten(records)) :
           heap[i] = IF i <= StringSize[ArrayName] THEN NameBytes(ArrayName)[i]
                     ELSE Flatten(records)[i - StringSize[ArrayName]]
  <2> DEFINE name == NameBytes(ArrayName)
             user == Flatten(records)
  <2>1. name \in Seq(Byte) /\ user \in Seq(Byte) /\ Len(name) = StringSize[ArrayName]
    BY <1>6, <1>7
  <2>2. heap = name \o user
    BY DEF records
  <2> HIDE DEF name, user
  <2>3. /\ name \o user \in Seq(Byte)
        /\ Len(name \o user) = Len(name) + Len(user)
        /\ \A i \in 1 .. Len(name) + Len(user) :
             (name \o user)[i] = IF i <= Len(name) THEN name[i] ELSE user[i - Len(name)]
    BY <2>1, ConcatProperties, Zenon
  <2> QED
    BY <2>1, <2>2, <2>3, Zenon DEF name, user
<1>9. Len(Flatten(records)) \in Nat
  BY <1>6, LenProperties
<1>10. /\ StringSize[ArrayName] + 1 \in 1 .. StringSize[ArrayName] + Len(Flatten(records))
       /\ ~(StringSize[ArrayName] + 1 <= StringSize[ArrayName])
       /\ (StringSize[ArrayName] + 1) - StringSize[ArrayName] = 1
       /\ StringSize[ArrayName] + Len(Flatten(records)) > StringSize[ArrayName]
  BY <1>6, <1>7, <1>9
<1> QED
  BY <1>6, <1>8, <1>10

LEMMA TypesInitially == Init => RestOK
<1> SUFFICES ASSUME Init PROVE RestOK
  OBVIOUS
<1> DEFINE heap == NameBytes(ArrayName) \o Flatten([k \in DOMAIN Array |-> AllBytes(Array[k])])
<1>1. \A i \in DOMAIN heap : heap[i] \in Byte
  <2>1. heap \in Seq(Byte)
    BY HeapInitially
  <2> HIDE DEF heap
  <2> QED
    BY <2>1, LenProperties, ElementOfSeq
<1>2. Junk \in Byte
  BY BytesAre
<1>3. mem = [a \in Address |-> IF a + 1 \in DOMAIN heap THEN heap[a + 1] ELSE Junk]
  BY DEF Init
<1> HIDE DEF heap
<1>4. mem \in [Address -> Byte]
  BY <1>1, <1>2, <1>3
<1>5. Len(variable_regs) <= MAXIMUM_VARIABLES
  BY VMAssumption DEF Init
<1> QED
  BY <1>4, <1>5 DEF Init, RestOK

LEMMA TopInside ==
  ASSUME MemInv, NEW size \in Nat, Holds(size)
  PROVE  \A k \in 0 .. size - 1 : stack_ptr + k \in Address
BY VMAssumption DEF MemInv, MemoryDisjoint, Holds, Address

\* The value on top of the stack, whatever was pushed.
LEMMA TopTyped ==
  ASSUME MemInv, RestOK, NEW type \in {"int", "float"}, Holds(SizeOf(type))
  PROVE  ReadAs(type, stack_ptr) \subseteq Worths(type)
<1>1. 0 \in 0 .. SizeOf(type) - 1 /\ SizeOf(type) \in Nat
  BY Sizes
<1>2. stack_ptr + 0 = stack_ptr
  BY DEF MemInv
<1>3. stack_ptr \in Address
  BY <1>1, <1>2, TopInside
<1> QED
  BY <1>3, ReadAsTyped

LEMMA PlainTyped ==
  ASSUME MemInv, RestOK,
         Push \/ IPop \/ FPop \/ Cast("ICASTF", "int") \/ Cast("FCASTI", "float")
  PROVE  RestOK'
<1>1. UNCHANGED variable_regs /\ current \in DOMAIN program.at
  BY DEF Push, IPop, FPop, Cast, Fetching
<1>2. instr[1] \notin {"CALL", "ASUM"} => Following \in Nat
  BY <1>1, FollowingTyped
<1>3. CASE Push
  <2> DEFINE type == IF instr[1] = "IPUSH" THEN "int" ELSE "float"
  <2>1. arg \in Worths(type) /\ instr[1] \notin {"CALL", "ASUM"}
    BY <1>1, <1>3 DEF Push, Fetching, MemInv, IsCode, instr, arg, Worths
  <2>2. PopPush(0, Bytes(<<type, arg>>))
    BY <1>3 DEF Push
  <2>3. Bytes(<<type, arg>>) \in Seq(Byte)
    BY <2>1, BytesTyped
  <2> HIDE DEF type
  <2> QED
    BY <1>1, <1>2, <2>1, <2>2, <2>3, PopPushTypes
<1>4. CASE IPop \/ FPop
  <2>1. instr[1] \notin {"CALL", "ASUM"} /\ UNCHANGED mem
    BY <1>4 DEF IPop, FPop, Fetching, PopTo, Lose, FailUnchanged
  <2>2. \/ current' \in Nat /\ error' \in BOOLEAN /\ UNCHANGED result
        \/ FailUnchanged
        \/ Lose
    BY <1>2, <1>4, <2>1 DEF IPop, FPop, PopTo, Continue, RestOK
  <2> QED
    BY <1>1, <2>1, <2>2, PlainTypes
<1>5. ASSUME NEW op, NEW from, <<op, from>> \in {<<"ICASTF", "int">>, <<"FCASTI", "float">>},
             Cast(op, from)
      PROVE  RestOK'
  <2>1. instr[1] \notin {"CALL", "ASUM"}
    BY <1>5 DEF Cast, Fetching
  <2>2. CASE Holds(SizeOf(from))
    <3>1. PICK v \in ReadAs(from, stack_ptr) :
            PopPush(SizeOf(from),
                    Bytes(IF from = "int" THEN <<"float", FloatOf(v)>> ELSE <<"int", IntOf(v)>>))
      BY <1>5, <2>2 DEF Cast
    <3>2. v \in Worths(from) /\ SizeOf(from) \in Nat
      BY <1>5, <2>2, TopTyped, Sizes
    <3>3. Bytes(IF from = "int" THEN <<"float", FloatOf(v)>> ELSE <<"int", IntOf(v)>>) \in Seq(Byte)
      <4>1. CASE from = "int"
        <5>1. FloatOf(v) \in Worths("float")
          BY <3>2, <4>1, BytecodeAssumption DEF Worths
        <5> QED
          BY <4>1, <5>1, BytesTyped
      <4>2. CASE from = "float"
        <5>1. IntOf(v) \in Worths("int")
          BY <3>2, <4>2, BytecodeAssumption DEF Worths
        <5> QED
          BY <4>2, <5>1, BytesTyped
      <4> QED
        BY <1>5, <4>1, <4>2
    <3> QED
      BY <1>1, <1>2, <2>1, <3>1, <3>2, <3>3, PopPushTypes
  <2>3. CASE ~Holds(SizeOf(from))
    <3>1. FailUnchanged
      BY <1>5, <2>3 DEF Cast
    <3> QED
      BY <1>1, <3>1, PlainTypes DEF FailUnchanged
  <2> QED
    BY <2>2, <2>3
<1>6. CASE Cast("ICASTF", "int")
  BY <1>5, <1>6
<1>7. CASE Cast("FCASTI", "float")
  BY <1>5, <1>7
<1> QED
  BY <1>3, <1>4, <1>6, <1>7

LEMMA AppliedTyped ==
  ASSUME NEW op \in Operations,
         NEW a \in Worths(OperandType(op)), NEW b \in Worths(OperandType(op)),
         ~Divides0(op, a, b)
  PROVE  \E type \in {"int", "float"} : \E v \in Worths(type) : Applied(op, a, b) = <<type, v>>
<1> DEFINE x == Operands(op, a, b)[1]
<1> DEFINE y == Operands(op, a, b)[2]
<1>1. x \in Worths(OperandType(op)) /\ y \in Worths(OperandType(op))
  BY DEF Operands
<1>2. op \in {"IDIV1", "IDIV2"} => y # 0
  BY DEF Divides0
<1>3. CASE op \in OnInts
  <2>1. x \in nint /\ y \in nint
    BY <1>1, <1>3 DEF OperandType, Worths
  <2> HIDE DEF x, y
  <2>2. IntOp(op, x, y) \in Worths("int")
    BY <1>2, <1>3, <2>1, BytecodeAssumption DEF Worths
  <2>3. Applied(op, a, b) = <<"int", IntOp(op, x, y)>>
    BY <1>3 DEF Applied, x, y
  <2> QED
    BY <2>2, <2>3
<1>4. CASE op \notin OnInts
  <2>1. x \in nfloat /\ y \in nfloat
    BY <1>1, <1>4 DEF OperandType, Worths
  <2>2. op \in FloatArithmetic \/ op \in FloatComparison
    BY <1>4 DEF Operations
  <2> HIDE DEF x, y
  <2>3. CASE op \in FloatArithmetic
    <3>1. FloatOp(op, x, y) \in Worths("float")
      BY <2>1, <2>3, BytecodeAssumption DEF Worths
    <3>2. Applied(op, a, b) = <<"float", FloatOp(op, x, y)>>
      BY <1>4, <2>3 DEF Applied, x, y
    <3> QED
      BY <3>1, <3>2
  <2>4. CASE op \notin FloatArithmetic
    <3>1. FloatTest(op, x, y) \in Worths("int")
      BY <2>1, <2>2, <2>4, BytecodeAssumption DEF Worths
    <3>2. Applied(op, a, b) = <<"int", FloatTest(op, x, y)>>
      BY <1>4, <2>4 DEF Applied, x, y
    <3> QED
      BY <3>1, <3>2
  <2> QED
    BY <2>3, <2>4
<1> QED
  BY <1>3, <1>4

LEMMA OperateTyped ==
  ASSUME MemInv, RestOK, Operation \/ InPlace
  PROVE  RestOK'
<1>1. /\ UNCHANGED variable_regs /\ current \in DOMAIN program.at
      /\ instr[1] \in Operations \cup {"IINC", "NOT"}
  BY DEF Operation, InPlace, Fetching
<1>2. Following \in Nat
  <2>1. instr[1] \notin {"CALL", "ASUM"}
    BY <1>1 DEF Operations, OnInts, IntArithmetic, IntComparison, Logic, FloatArithmetic, FloatComparison
  <2> QED
    BY <1>1, <2>1, FollowingTyped
<1>3. CASE Operation
  <2> DEFINE type == OperandType(instr[1])
  <2> DEFINE size == SizeOf(type)
  <2>1. type \in {"int", "float"} /\ size \in Nat /\ size >= 2 /\ 2 * size \in Nat
    BY Sizes DEF OperandType
  <2>2. CASE FailUnchanged \/ Lose
    BY <1>1, <2>2, PlainTypes DEF FailUnchanged, Lose
  <2>3. ASSUME Holds(2 * size), NEW first \in ReadAs(type, stack_ptr),
               NEW second \in ReadAs(type, stack_ptr + size),
               ~Divides0(instr[1], first, second),
               PopPush(2 * size, Bytes(Applied(instr[1], first, second)))
        PROVE  RestOK'
    <3> HIDE DEF type, size
    <3>1. stack_ptr + 0 \in Address /\ stack_ptr + size \in Address /\ stack_ptr + 0 = stack_ptr
      <4>1. 0 \in 0 .. (2 * size) - 1 /\ size \in 0 .. (2 * size) - 1
        BY <2>1
      <4> QED
        BY <2>1, <2>3, <4>1, TopInside DEF MemInv
    <3>2. first \in Worths(type) /\ second \in Worths(type)
      BY <2>1, <2>3, <3>1, ReadAsTyped
    <3>3. PICK t \in {"int", "float"} :
            \E v \in Worths(t) : Applied(instr[1], first, second) = <<t, v>>
      <4>1. instr[1] \in Operations
        BY <1>3 DEF Operation, Fetching
      <4> QED
        BY <2>3, <3>2, <4>1, AppliedTyped DEF type
    <3>4. Bytes(Applied(instr[1], first, second)) \in Seq(Byte)
      BY <3>3, BytesTyped
    <3> QED
      BY <1>1, <1>2, <2>1, <2>3, <3>3, <3>4, PopPushTypes
  <2> QED
    BY <1>3, <2>2, <2>3 DEF Operation
<1>4. CASE InPlace
  <2>1. CASE Holds(2)
    <3> DEFINE new(v) == IF instr[1] = "IINC" THEN IntOp("IADD", v, 1) ELSE IF v = 0 THEN 1 ELSE 0
    <3>1. PICK v \in ReadAs("int", stack_ptr) :
            /\ mem' = Written(stack_ptr, Bytes(<<"int", new(v)>>))
            /\ Continue(Following)
            /\ UNCHANGED <<stack_ptr, heap_ptr, error>>
      BY <1>4, <2>1 DEF InPlace
    <3>2. v \in nint
      <4>1. SizeOf("int") = 2
        BY Sizes
      <4> QED
        BY <2>1, <4>1, TopTyped DEF Worths
    <3>3. new(v) \in Worths("int")
      <4>1. IntOp("IADD", v, 1) \in nint /\ {0, 1} \subseteq nint
        BY <3>2, BytecodeAssumption DEF OnInts, IntArithmetic
      <4> QED
        BY <4>1 DEF Worths
    <3> HIDE DEF new
    <3>4. mem' \in [Address -> Byte]
      BY <3>1, <3>3, BytesTyped, WrittenTyped
    <3> QED
      BY <1>1, <1>2, <3>1, <3>4 DEF RestOK, Continue
  <2>2. CASE ~Holds(2)
    <3>1. FailUnchanged
      BY <1>4, <2>2 DEF InPlace
    <3> QED
      BY <1>1, <3>1, PlainTypes DEF FailUnchanged
  <2> QED
    BY <2>1, <2>2
<1> QED
  BY <1>3, <1>4

LEMMA ControlTyped ==
  ASSUME MemInv, RestOK, Jump \/ JumpIf \/ Halt \/ EndOfProgram \/ Astray
  PROVE  RestOK'
<1>1. UNCHANGED <<mem, variable_regs>>
  BY DEF Jump, JumpIf, Halt, EndOfProgram, Astray, PopTo, FailUnchanged, Lose
<1>2. CASE Jump \/ JumpIf
  <2>1. /\ current \in DOMAIN program.at /\ instr[1] \in Jumps
    BY <1>2 DEF Jump, JumpIf, Fetching, Jumps
  <2>2. arg \in Nat
    BY <2>1 DEF MemInv, IsCode, instr, arg
  <2>3. Following \in Nat
    BY <2>1, FollowingTyped DEF Jumps
  <2>4. \/ current' \in Nat /\ error' \in BOOLEAN /\ UNCHANGED result
        \/ FailUnchanged
    BY <1>2, <2>2, <2>3 DEF Jump, JumpIf, PopTo, Continue, RestOK
  <2> QED
    BY <1>1, <2>4, PlainTypes
<1>3. CASE Halt \/ EndOfProgram \/ Astray
  <2>1. CASE FailUnchanged \/ Lose
    BY <1>1, <2>1, PlainTypes
  <2>2. CASE /\ Holds(2) /\ UNCHANGED <<current, error>>
             /\ \E v \in ReadAs("int", stack_ptr) : result' = Returned(v)
    <3>1. PICK v \in ReadAs("int", stack_ptr) : result' = Returned(v)
      BY <2>2
    <3>2. v \in nint
      <4>1. SizeOf("int") = 2
        BY Sizes
      <4> QED
        BY <2>2, <4>1, TopTyped DEF Worths
    <3> QED
      BY <1>1, <2>2, <3>1, <3>2 DEF RestOK
  <2> QED
    BY <1>3, <2>1, <2>2 DEF Halt, EndOfProgram, Astray
<1> QED
  BY <1>2, <1>3

LEMMA ElementInside ==
  ASSUME NEW e \in Nat, NEW k \in Nat, NEW s \in Nat, k < e
  PROVE  k * s \in Nat /\ k * s + s <= e * s
<1> DEFINE d == e - k - 1
<1>1. d \in Nat /\ e = k + 1 + d
  OBVIOUS
<1>2. d * s \in Nat /\ k * s \in Nat
  BY <1>1
<1>3. (k + 1 + d) * s = k * s + s + d * s
  BY <1>1
<1> QED
  BY <1>1, <1>2, <1>3

\* The elements of a variable are in the array.
LEMMA ElementsInside ==
  ASSUME MemInv, NEW x, Known(x), NEW reg, reg = get_variable(x),
         NEW k \in 0 .. Elements(reg) - 1
  PROVE  /\ reg \in Variable
         /\ k * variable_type_size(reg.type) \in Nat
         /\ reg.location + k * variable_type_size(reg.type) \in Nat
         /\ reg.location + k * variable_type_size(reg.type) + variable_type_size(reg.type)
              <= STACK_SIZE
<1> DEFINE s == variable_type_size(reg.type)
<1>1. PICK l \in Matching(x) : reg = variable_regs[l] /\ reg \in Variable
  BY FoundVariable
<1>2. End(reg) <= heap_ptr /\ heap_ptr <= stack_ptr /\ stack_ptr <= STACK_SIZE
  BY <1>1 DEF Matching, MemInv, MemoryDisjoint
<1>3. s \in Nat /\ reg.location \in Nat
  BY <1>1, Sizes DEF Variable
<1>4. Elements(reg) \in Nat
  <2>1. \A i \in nint : i >= 0 => i \in Nat
    BY BytecodeAssumption
  <2>2. reg.length \in Nat
    BY <1>1, <2>1 DEF Variable
  <2> QED
    BY <2>2 DEF Elements
<1>5. End(reg) = reg.location + Elements(reg) * s
  BY DEF End
<1> HIDE DEF s
<1>6. k * s \in Nat /\ k * s + s <= Elements(reg) * s
  <2>1. k \in Nat /\ k < Elements(reg)
    BY <1>4
  <2> QED
    BY <1>3, <1>4, <2>1, ElementInside
<1>7. Elements(reg) * s \in Nat
  BY <1>3, <1>4
<1>8. reg.location + k * s + s <= STACK_SIZE
  BY <1>2, <1>3, <1>5, <1>6, <1>7, VMAssumption DEF MemInv
<1> QED
  BY <1>1, <1>3, <1>6, <1>8 DEF s

LEMMA OffsetInside ==
  ASSUME NEW l \in Nat, NEW p \in Nat, NEW o \in Nat, NEW d \in Nat, NEW n \in Nat,
         l + p + d <= n, o + 2 <= d
  PROVE  l + p + o \in 0 .. n - 1
OBVIOUS

RecordsOf(reg, records) ==
  /\ records \in [1 .. reg.length -> UNION {RecordsAt(reg, k) : k \in 1 .. reg.length}]
  /\ \A k \in 1 .. reg.length : records[k] \in RecordsAt(reg, k)

\* An ASUM adds up floats, whatever the bytes of the array are.
LEMMA NumbersTyped ==
  ASSUME MemInv, RestOK, NEW x, Known(x), NEW reg, reg = get_variable(x), reg.type = "user",
         NEW f \in DOMAIN Fn,
         NEW records, RecordsOf(reg, records)
  PROVE  /\ reg.length \in Nat /\ Len(records) = reg.length
         /\ Numbers(records, f, reg.length) \in [1 .. reg.length -> nfloat]
<1> USE DEF RecordsOf
<1> DEFINE n == reg.length
<1>1. n \in Nat /\ reg \in Variable
  <2>1. reg \in Variable
    BY FoundVariable
  <2>2. \A l \in nint : l >= 0 => l \in Nat
    BY BytecodeAssumption
  <2> QED
    BY <2>1, <2>2 DEF Variable
<1>2. Len(records) = n
  <2>1. records = [k \in 1 .. n |-> records[k]]
    OBVIOUS
  <2> QED
    BY <1>1, <2>1, LengthOf
<1>3. Fn[f] \in 1 .. Len(Record) /\ DOMAIN Record = 1 .. Len(Record)
  BY BytecodeAssumption, LenProperties
<1>4. ASSUME NEW k \in 1 .. n
      PROVE  Number(records[k][Fn[f]]) \in nfloat
  <2> DEFINE a == reg.location + (k - 1) * data_size + FieldOffset(Fn[f])
  <2> DEFINE v == records[k][Fn[f]]
  <2>1. v[1] = Record[Fn[f]] /\ v[2] \in ReadAs(Record[Fn[f]], a)
    BY <1>3 DEF RecordsAt
  <2>2. Record[Fn[f]] \in {"int", "float"}
    BY <1>3, BytecodeAssumption, ElementOfSeq
  <2>3. a \in Address
    <3>1. k - 1 \in 0 .. Elements(reg) - 1 /\ variable_type_size(reg.type) = data_size
      BY <1>1 DEF Elements, variable_type_size
    <3>2. /\ (k - 1) * data_size \in Nat
          /\ reg.location + (k - 1) * data_size + data_size <= STACK_SIZE
      BY <3>1, ElementsInside
    <3>3. FieldOffset(Fn[f]) \in Nat /\ FieldOffset(Fn[f]) + SizeOf(Record[Fn[f]]) <= data_size
      <4>1. Fn[f] \in 1 .. Len(Record) + 1
        BY <1>3, BytecodeAssumption, LenProperties
      <4> QED
        BY <1>3, <4>1, Offsets, FieldsInside
    <3>4. reg.location \in Nat /\ SizeOf(Record[Fn[f]]) \in {2, 4} /\ data_size \in Nat
      BY <1>1, Sizes DEF Variable
    <3> DEFINE p == (k - 1) * data_size
    <3> HIDE DEF p
    <3>5. a = reg.location + p + FieldOffset(Fn[f])
      BY DEF p
    <3>6. p \in Nat /\ reg.location + p + data_size <= STACK_SIZE
      BY <3>2 DEF p
    <3> HIDE DEF a
    <3>7. FieldOffset(Fn[f]) + 2 <= data_size
      BY <3>3, <3>4
    <3>8. STACK_SIZE \in Nat
      BY VMAssumption
    <3>9. reg.location + p + FieldOffset(Fn[f]) \in 0 .. STACK_SIZE - 1
      BY <3>3, <3>4, <3>6, <3>7, <3>8, OffsetInside
    <3> QED
      BY <3>5, <3>9 DEF Address
  <2>4. v[2] \in Worths(Record[Fn[f]])
    <3> HIDE DEF v, a
    <3> QED
      BY <2>1, <2>2, <2>3, ReadAsTyped
  <2> HIDE DEF a
  <2>5. Number(v) \in nfloat
    <3> HIDE DEF v
    <3>1. CASE v[1] = "int"
      BY <2>1, <2>4, <3>1, BytecodeAssumption DEF Number, Worths
    <3>2. CASE v[1] # "int"
      BY <2>1, <2>4, <3>2 DEF Number, Worths
    <3> QED
      BY <3>1, <3>2
  <2> QED
    BY <2>5
<1>5. Numbers(records, f, n) \in [1 .. n -> nfloat]
  BY <1>4 DEF Numbers
<1> QED
  BY <1>1, <1>2, <1>5

LEMMA SumTyped ==
  ASSUME MemInv, RestOK, NEW x, Known(x), NEW reg, reg = get_variable(x), reg.type = "user",
         NEW f \in DOMAIN Fn,
         NEW records, RecordsOf(reg, records)
  PROVE  FieldSum(records, f) \in nfloat
<1> DEFINE n == reg.length
<1>1. n \in Nat /\ Len(records) = n /\ Numbers(records, f, n) \in [1 .. n -> nfloat]
  BY NumbersTyped
<1> HIDE DEF n
<1>2. PICK g : /\ Iterates(g, n, nfloat, FloatOf(0), Adding(Numbers(records, f, n), n))
               /\ FieldSum(records, f) = g[n]
  BY <1>1, FieldSumAdds
<1> QED
  BY <1>1, <1>2, IteratesOnce

LEMMA ReadTyped ==
  ASSUME MemInv, RestOK,
         \/ Fetch("IFETCH", "int") \/ Fetch("FFETCH", "float")
         \/ ArrayFetch \/ ArrayLength \/ ArraySum \/ Call
  PROVE  RestOK'
<1>1. UNCHANGED variable_regs /\ current \in DOMAIN program.at
  BY DEF Fetch, ArrayFetch, ArrayLength, ArraySum, Call, Fetching
<1>2. CASE FailUnchanged \/ Lose
  BY <1>1, <1>2, PlainTypes DEF FailUnchanged, Lose
<1>3. ASSUME NEW op, NEW type, <<op, type>> \in {<<"IFETCH", "int">>, <<"FFETCH", "float">>},
             Fetch(op, type), ~FailUnchanged, ~Lose
      PROVE  RestOK'
  <2> DEFINE a == get_variable(arg).location
  <2>1. Known(arg) /\ Inside(a, SizeOf(type)) /\ type \in {"int", "float"}
    BY <1>3 DEF Fetch
  <2>2. PICK v \in ReadAs(type, a) : PopPush(0, Bytes(<<type, v>>))
    BY <1>3 DEF Fetch
  <2>3. a \in Address
    <3>1. a \in Nat
      BY <2>1, FoundVariable DEF Variable
    <3>2. SizeOf(type) \in {2, 4}
      BY Sizes
    <3> HIDE DEF a
    <3> QED
      BY <2>1, <3>1, <3>2, VMAssumption DEF Inside, Address
  <2> HIDE DEF a
  <2>4. Bytes(<<type, v>>) \in Seq(Byte)
    BY <2>1, <2>3, ReadAsTyped, BytesTyped
  <2>5. Following \in Nat
    BY <1>1, <1>3, FollowingTyped DEF Fetch, Fetching
  <2> QED
    BY <1>1, <2>2, <2>4, <2>5, PopPushTypes
<1>4. CASE ArrayFetch /\ ~FailUnchanged /\ ~Lose
  <2> DEFINE reg == get_variable(arg)
  <2> DEFINE size == variable_type_size(reg.type)
  <2>1. Known(arg)
    BY <1>4 DEF ArrayFetch
  <2>2. PICK k \in 0 .. Elements(reg) - 1 : PopPush(2, ReadBytes(reg.location + k * size, size))
    BY <1>4 DEF ArrayFetch
  <2>3. size \in Nat
    BY Sizes
  <2>4. reg.location + k * size \in Nat /\ reg.location + k * size + size <= STACK_SIZE
    BY <2>1, ElementsInside
  <2> DEFINE a == reg.location + k * size
  <2> HIDE DEF reg, size, a
  <2>5. ReadBytes(a, size) \in Seq(Byte)
    BY <2>3, <2>4, ReadBytesTyped DEF a
  <2>6. Following \in Nat
    BY <1>1, <1>4, FollowingTyped DEF ArrayFetch, Fetching
  <2> QED
    BY <1>1, <2>2, <2>5, <2>6, PopPushTypes DEF a
<1>5. CASE ArrayLength /\ ~FailUnchanged
  <2>1. Known(arg) /\ PopPush(0, Bytes(<<"int", get_variable(arg).length>>))
    BY <1>5 DEF ArrayLength
  <2>2. get_variable(arg).length \in Worths("int")
    BY <2>1, FoundVariable DEF Variable, Worths
  <2>3. Following \in Nat
    BY <1>1, <1>5, FollowingTyped DEF ArrayLength, Fetching
  <2> QED
    BY <1>1, <2>1, <2>2, <2>3, BytesTyped, PopPushTypes
<1>6. CASE ArraySum /\ ~FailUnchanged
  <2> DEFINE reg == get_variable(arg)
  <2>1. Known(arg) /\ instr[3] \in DOMAIN Fn /\ reg.type = "user"
    BY <1>6 DEF ArraySum
  <2>2. PICK records \in {q \in [1 .. reg.length -> UNION {RecordsAt(reg, k) : k \in 1 .. reg.length}] :
                           \A k \in 1 .. reg.length : q[k] \in RecordsAt(reg, k)} :
          PopPush(0, Bytes(<<"float", FieldSum(records, instr[3])>>))
    BY <1>6 DEF ArraySum
  <2>3. FieldSum(records, instr[3]) \in Worths("float")
    <3> HIDE DEF reg
    <3>1. reg = get_variable(arg)
      BY DEF reg
    <3> QED
      BY <2>1, <2>2, <3>1, SumTyped DEF Worths, RecordsOf
  <2>4. Following \in Nat
    BY <1>1, <1>6, <2>1, FollowingTyped DEF ArraySum, Fetching
  <2> QED
    BY <1>1, <2>2, <2>3, <2>4, BytesTyped, PopPushTypes
<1>7. CASE Call /\ ~FailUnchanged
  <2> DEFINE f == Fn[arg]
  <2>1. /\ Holds(data_size) /\ arg \in DOMAIN Fn
        /\ PopPush(data_size, ReadBytes(stack_ptr + FieldOffset(f), SizeOf(Record[f])))
    BY <1>7 DEF Call
  <2>2. f \in 1 .. Len(Record) /\ f \in 1 .. Len(Record) + 1
    BY <2>1, BytecodeAssumption, LenProperties
  <2> HIDE DEF f
  <2>3. /\ FieldOffset(f) \in Nat /\ FieldOffset(f) + SizeOf(Record[f]) <= data_size
        /\ SizeOf(Record[f]) \in Nat /\ data_size \in Nat
    BY <2>2, Offsets, FieldsInside, Sizes
  <2>4. ReadBytes(stack_ptr + FieldOffset(f), SizeOf(Record[f])) \in Seq(Byte)
    <3>1. /\ stack_ptr + FieldOffset(f) \in Nat
          /\ stack_ptr + FieldOffset(f) + SizeOf(Record[f]) <= STACK_SIZE
      BY <2>1, <2>3, VMAssumption DEF Holds, MemInv
    <3> QED
      BY <2>3, <3>1, ReadBytesTyped
  <2>5. Following \in Nat
    BY <1>1, <1>7, <2>1, FollowingTyped DEF Call, Fetching
  <2> QED
    BY <1>1, <2>1, <2>3, <2>4, <2>5, PopPushTypes
<1>8. CASE Fetch("IFETCH", "int")
  BY <1>2, <1>3, <1>8
<1>9. CASE Fetch("FFETCH", "float")
  BY <1>2, <1>3, <1>9
<1> QED
  BY <1>2, <1>4, <1>5, <1>6, <1>7, <1>8, <1>9

LEMMA StoreTyped ==
  ASSUME MemInv, RestOK,
         NEW op, NEW type, <<op, type>> \in {<<"ISTORE", "int">>, <<"FSTORE", "float">>},
         Store(op, type)
  PROVE  RestOK'
<1>1. UNCHANGED variable_regs /\ current \in DOMAIN program.at
  BY DEF Store, Fetching
<1>2. CASE FailUnchanged \/ Lose
  BY <1>1, <1>2, PlainTypes DEF FailUnchanged, Lose
<1>3. CASE ~FailUnchanged /\ ~Lose
  <2> DEFINE a == get_variable(arg).location
  <2>1. Holds(SizeOf(type))
    BY <1>3 DEF Store
  <2>2. PICK v \in ReadAs(type, stack_ptr) :
          /\ mem' = Written(a, Bytes(<<type, v>>))
          /\ Continue(Following)
          /\ UNCHANGED <<stack_ptr, heap_ptr, error>>
    BY <1>3 DEF Store
  <2>3. type \in {"int", "float"}
    OBVIOUS
  <2>4. Bytes(<<type, v>>) \in Seq(Byte)
    BY <2>1, <2>3, TopTyped, BytesTyped
  <2> HIDE DEF a
  <2>5. mem' \in [Address -> Byte]
    BY <2>2, <2>4, WrittenTyped
  <2>6. Following \in Nat
    BY <1>1, FollowingTyped DEF Store, Fetching
  <2> QED
    BY <1>1, <2>2, <2>5, <2>6 DEF RestOK, Continue
<1> QED
  BY <1>2, <1>3

LEMMA CreateTyped ==
  ASSUME MemInv, RestOK, NEW op \in {"IVAR", "FVAR"}, NEW type \in {"int", "float"},
         CreateVariable(op, type)
  PROVE  RestOK'
<1> DEFINE n == StringSize[arg]
<1> DEFINE size == variable_type_size(type)
<1> DEFINE zero == <<type, IF type = "int" THEN 0 ELSE FloatOf(0)>>
<1> DEFINE reg == [name |-> heap_ptr, location |-> heap_ptr + n, type |-> type, length |-> 0]
<1>1. arg \in Name /\ current \in DOMAIN program.at
  BY DEF CreateVariable, Fetching, MemInv, IsCode, instr, arg, OnVariables
<1>2. NameBytes(arg) \in Seq(Byte) /\ Bytes(zero) \in Seq(Byte)
  <2>1. (IF type = "int" THEN 0 ELSE FloatOf(0)) \in Worths(type)
    BY BytecodeAssumption DEF Worths
  <2> QED
    BY <1>1, <2>1, BytesTyped
<1>3. CASE FailUnchanged /\ UNCHANGED variable_regs
  BY <1>3, PlainTypes DEF FailUnchanged
<1>4. CASE /\ Fail
           /\ mem' = Written(heap_ptr, NameBytes(arg))
           /\ UNCHANGED variable_regs
  <2>1. mem' \in [Address -> Byte]
    BY <1>2, <1>4, WrittenTyped
  <2>2. 0 \in nint
    BY BytecodeAssumption
  <2> QED
    BY <1>4, <2>1, <2>2 DEF RestOK, Fail
<1>5. CASE /\ ~RegistryFull
           /\ Continue(Following)
           /\ mem' = Written(heap_ptr, NameBytes(arg) \o Bytes(zero))
           /\ variable_regs' = Append(variable_regs, reg)
           /\ UNCHANGED error
  <2>1. Len(variable_regs') <= MAXIMUM_VARIABLES
    <3>1. Len(variable_regs') = Len(variable_regs) + 1 /\ Len(variable_regs) \in Nat
      BY <1>5, LenProperties DEF MemInv
    <3> QED
      BY <1>5, <3>1, VMAssumption DEF RegistryFull, RestOK
  <2>2. mem' \in [Address -> Byte]
    <3>1. NameBytes(arg) \o Bytes(zero) \in Seq(Byte)
      BY <1>2, ConcatProperties
    <3> QED
      BY <1>5, <3>1, WrittenTyped
  <2>3. Following \in Nat
    BY <1>1, FollowingTyped DEF CreateVariable, Fetching
  <2> QED
    BY <1>5, <2>1, <2>2, <2>3 DEF RestOK, Continue
<1> QED
  BY <1>3, <1>4, <1>5 DEF CreateVariable

LEMMA EveryStepTyped ==
  ASSUME MemInv, RestOK, [Next]_vars
  PROVE  RestOK'
<1>1. CASE Push \/ IPop \/ FPop \/ Cast("ICASTF", "int") \/ Cast("FCASTI", "float")
  BY <1>1, PlainTyped
<1>2. CASE Operation \/ InPlace
  BY <1>2, OperateTyped
<1>3. CASE \/ Fetch("IFETCH", "int") \/ Fetch("FFETCH", "float")
           \/ ArrayFetch \/ ArrayLength \/ ArraySum \/ Call
  BY <1>3, ReadTyped
<1>4. CASE Jump \/ JumpIf \/ Halt \/ EndOfProgram \/ Astray
  BY <1>4, ControlTyped
<1>5. CASE CreateVariable("IVAR", "int") \/ CreateVariable("FVAR", "float")
  BY <1>5, CreateTyped
<1>6. CASE Store("ISTORE", "int") \/ Store("FSTORE", "float")
  BY <1>6, StoreTyped
<1>7. CASE UNCHANGED vars
  BY <1>7 DEF vars, RestOK
<1> QED
  BY <1>1, <1>2, <1>3, <1>4, <1>5, <1>6, <1>7 DEF Next

\* Every byte of the array is that of a number, of a name or what was there at the
\* start, and the registry never overflows, whatever the program (evaluate).
THEOREM MachineTypeCorrect == Spec => []TypeOK
<1>1. Init => MemInv /\ RestOK
  BY MemoryInitially, TypesInitially
<1>2. MemInv /\ RestOK /\ [Next]_vars => (MemInv /\ RestOK)'
  BY EveryStep, EveryStepTyped
<1>3. MemInv /\ RestOK => TypeOK
  BY DEF MemInv, RestOK, TypeOK
<1> QED
  BY <1>1, <1>2, <1>3, PTL DEF Spec

=============================================================================
