----------------------- MODULE BoundedByteBufferProofs -----------------------
(* Proofs about BoundedByteBuffer: what it holds, what it answers, and that it  *)
(* keeps the promise of RetainedTail.  The argument never adds up lengths: a    *)
(* byte is its position in the stream, so neighbouring chunks are linked by     *)
(* their end and their start, and what FlattenSeq() makes of linked chunks is   *)
(* read off the first and the last of them (LinkedFlat, the one induction).     *)
EXTENDS BoundedByteBuffer, SequenceTheorems, WellFoundedInduction, TLAPS

\* (that a position is positive is never needed)
Bytes == Seq(Int)
Chunks == Seq(Bytes)

\* The n bytes of the stream that follow position a
Stretch(a, n) == [j \in 1..n |-> a + j]
First(c) == c[1]
End(c) == c[Len(c)]

\* A chunk is a stretch that is not empty.
IsStretch(c) == /\ c \in Bytes /\ c # <<>>
                /\ \A j \in 1..Len(c) : c[j] = First(c) + j - 1

\* Chunks that follow one another in the stream
Linked(cs) ==
  /\ cs \in Chunks
  /\ \A i \in 1..Len(cs) : IsStretch(cs[i])
  /\ \A i \in 1..(Len(cs) - 1) : First(cs[i + 1]) = End(cs[i]) + 1
-----------------------------------------------------------------------------
(* A set of natural numbers that is not empty has a least element.              *)
LEMMA LeastNatural ==
  ASSUME NEW T \in SUBSET Nat, T # {}
  PROVE  \E m \in T : \A k \in T : m <= k
<1> DEFINE R == OpToRel(<, Nat)
<1>1. IsWellFoundedOn(R, Nat)
  BY NatLessThanWellFounded
<1>2. \A x, y \in Nat : <<y, x>> \in R <=> y < x
  BY DEF OpToRel
<1> HIDE DEF R
<1>3. PICK m \in T : \A y \in T : ~ (<<y, m>> \in R)
  BY <1>1, WFMin
<1>4. ASSUME NEW k \in T PROVE m <= k
  <2>1. k \in Nat /\ m \in Nat /\ ~(k < m)
    BY <1>2, <1>3
  <2> QED  BY <2>1
<1> QED  BY <1>4

(* A set of numbers up to n that is not empty has a greatest element.           *)
LEMMA GreatestNatural ==
  ASSUME NEW n \in Nat, NEW T \in SUBSET (0..n), T # {}
  PROVE  \E m \in T : \A k \in T : k <= m
<1> DEFINE U == {u \in Nat : \E k \in T : u = n - k}
<1>1. U \in SUBSET Nat /\ U # {}
  <2>1. PICK k \in T : k \in 0..n
    OBVIOUS
  <2>2. n - k \in U
    BY <2>1
  <2> QED  BY <2>2
<1>2. PICK u \in U : \A v \in U : u <= v
  BY <1>1, LeastNatural
<1>3. PICK m \in T : u = n - m
  BY <1>2
<1>4. ASSUME NEW k \in T PROVE k <= m
  <2>1. u <= n - k
    BY <1>2
  <2> QED  BY <1>3, <2>1
<1> QED  BY <1>4

(* What Max() returns for such a set                                            *)
LEMMA MaxOf ==
  ASSUME NEW n \in Nat, NEW T \in SUBSET (0..n), T # {}
  PROVE  Max(T) \in T /\ \A k \in T : k <= Max(T)
BY GreatestNatural DEF Max
-----------------------------------------------------------------------------
(* FlattenSeq(), one chunk at a time                                            *)
IsFlat(f, cs) == f = [i \in 1..Len(cs) |-> IF i = 1 THEN cs[i] ELSE f[i - 1] \o cs[i]]
Unfolds(f, cs) == \A i \in 1..Len(cs) : f[i] = IF i = 1 THEN cs[i] ELSE f[i - 1] \o cs[i]

LEMMA FlattenIs ==
  ASSUME NEW cs \in Chunks, cs # <<>>
  PROVE  FlattenSeq(cs) = (CHOOSE f : IsFlat(f, cs))[Len(cs)]
BY DEF FlattenSeq, IsFlat, Chunks

LEMMA FlatExists ==
  ASSUME NEW cs \in Chunks
  PROVE  \E f : IsFlat(f, cs)
<1> DEFINE Good(n) == \E f : f = [i \in 1..n |-> IF i = 1 THEN cs[i] ELSE f[i - 1] \o cs[i]]
           T == {n \in Nat : n <= Len(cs) /\ ~Good(n)}
<1>1. Good(0)
  <2>1. \A f : [i \in 1..0 |-> IF i = 1 THEN cs[i] ELSE f[i - 1] \o cs[i]] = [i \in 1..0 |-> 0]
    OBVIOUS
  <2> QED  BY <2>1
<1>2. ASSUME NEW n \in Nat, n < Len(cs), Good(n) PROVE Good(n + 1)
  <2>1. PICK f : f = [i \in 1..n |-> IF i = 1 THEN cs[i] ELSE f[i - 1] \o cs[i]]
    BY <1>2
  <2> DEFINE g == [i \in 1..(n + 1) |->
                 IF i # n + 1 THEN f[i] ELSE IF i = 1 THEN cs[i] ELSE f[i - 1] \o cs[i]]
  <2>2. ASSUME NEW i \in 1..(n + 1)
        PROVE  g[i] = IF i = 1 THEN cs[i] ELSE g[i - 1] \o cs[i]
    <3>1. CASE i = n + 1
      <4>1. CASE i = 1
        BY <4>1, <3>1
      <4>2. CASE i # 1
        <5>1. i - 1 \in 1..(n + 1) /\ i - 1 # n + 1
          BY <3>1, <4>2
        <5>2. g[i - 1] = f[i - 1]
          BY <5>1
        <5> QED  BY <3>1, <4>2, <5>2
      <4> QED  BY <4>1, <4>2
    <3>2. CASE i # n + 1
      <4>1. i \in 1..n /\ (i # 1 => i - 1 \in 1..n)
        BY <3>2
      <4>2. g[i] = f[i] /\ (i # 1 => g[i - 1] = f[i - 1])
        BY <4>1
      <4> HIDE DEF g
      <4> QED  BY <2>1, <4>1, <4>2
    <3> QED  BY <3>1, <3>2
  <2>3. g = [i \in 1..(n + 1) |-> IF i = 1 THEN cs[i] ELSE g[i - 1] \o cs[i]]
    <3>1. \A i \in 1..(n + 1) : g[i] = IF i = 1 THEN cs[i] ELSE g[i - 1] \o cs[i]
      BY <2>2
    <3>2. g = [i \in 1..(n + 1) |-> g[i]]
      OBVIOUS
    <3> HIDE DEF g
    <3> QED  BY <3>1, <3>2
  <2> QED  BY <2>3
<1> HIDE DEF Good
<1>3. T = {}
  <2> SUFFICES ASSUME T # {} PROVE FALSE  OBVIOUS
  <2>1. PICK m \in T : \A k \in T : m <= k
    BY LeastNatural
  <2>2. m # 0
    BY <1>1
  <2>3. m - 1 \in Nat /\ m - 1 \notin T /\ m - 1 < Len(cs)
    BY <2>1, <2>2 DEF Chunks
  <2>4. Good(m - 1)
    BY <2>3
  <2>5. Good(m - 1 + 1)
    BY <1>2, <2>3, <2>4
  <2> QED  BY <2>5
<1>4. Len(cs) \in Nat
  BY DEF Chunks
<1>5. Good(Len(cs))
  BY <1>3, <1>4
<1> QED  BY <1>5 DEF Good, IsFlat

LEMMA FlattenUnfolds ==
  ASSUME NEW cs \in Chunks, cs # <<>>
  PROVE  \E f : Unfolds(f, cs) /\ FlattenSeq(cs) = f[Len(cs)]
<1>1. PICK f : f = CHOOSE g : IsFlat(g, cs)
  OBVIOUS
<1>2. IsFlat(f, cs)
  BY <1>1, FlatExists
<1>3. FlattenSeq(cs) = f[Len(cs)]
  BY <1>1, FlattenIs
<1>4. Unfolds(f, cs)
  BY <1>2 DEF IsFlat, Unfolds
<1> QED  BY <1>3, <1>4

LEMMA FlattenEmpty == FlattenSeq(<<>>) = <<>>
BY DEF FlattenSeq

LEMMA StretchFacts ==
  ASSUME NEW a \in Int, NEW n \in Nat
  PROVE  /\ Stretch(a, n) \in Bytes /\ Len(Stretch(a, n)) = n
         /\ \A j \in 1..n : Stretch(a, n)[j] = a + j
BY DEF Stretch, Bytes

LEMMA StretchJoin ==
  ASSUME NEW a \in Int, NEW n \in Nat, NEW m \in Nat
  PROVE  Stretch(a, n) \o Stretch(a + n, m) = Stretch(a, n + m)
<1>1. PICK s \in Bytes : s = Stretch(a, n) /\ Len(s) = n /\ \A j \in 1..n : s[j] = a + j
  BY StretchFacts
<1>2. PICK t \in Bytes : /\ t = Stretch(a + n, m) /\ Len(t) = m
                         /\ \A j \in 1..m : t[j] = a + n + j
  BY StretchFacts
<1>3. PICK u \in Bytes : /\ u = Stretch(a, n + m) /\ Len(u) = n + m
                         /\ \A j \in 1..(n + m) : u[j] = a + j
  BY StretchFacts
<1>4. /\ s \o t \in Bytes /\ Len(s \o t) = n + m
      /\ \A j \in 1..(n + m) : (s \o t)[j] = IF j <= n THEN s[j] ELSE t[j - n]
  <2>1. /\ s \o t \in Seq(Int) /\ Len(s \o t) = Len(s) + Len(t)
        /\ \A j \in 1..(Len(s) + Len(t)) :
             (s \o t)[j] = IF j <= Len(s) THEN s[j] ELSE t[j - Len(s)]
    BY ConcatProperties DEF Bytes
  <2> QED  BY <1>1, <1>2, <2>1 DEF Bytes
<1>5. \A j \in 1..(n + m) : (s \o t)[j] = u[j]
  <2> TAKE j \in 1..(n + m)
  <2>1. CASE j <= n
    BY <2>1, <1>1, <1>3, <1>4
  <2>2. CASE ~(j <= n)
    <3>1. j - n \in 1..m
      BY <2>2
    <3>2. t[j - n] = a + n + (j - n)
      BY <3>1, <1>2
    <3> QED  BY <3>2, <2>2, <1>3, <1>4
  <2> QED  BY <2>1, <2>2
<1>6. s \o t = u
  BY <1>3, <1>4, <1>5, SeqEqual DEF Bytes
<1> QED  BY <1>1, <1>2, <1>3, <1>6

LEMMA StretchIs ==
  ASSUME NEW c, IsStretch(c)
  PROVE  /\ c = Stretch(First(c) - 1, Len(c)) /\ Len(c) \in Nat \ {0} /\ First(c) \in Int
         /\ End(c) = First(c) + Len(c) - 1 /\ End(c) \in Int
<1>1. c \in Bytes /\ Len(c) \in Nat \ {0} /\ 1 \in 1..Len(c) /\ Len(c) \in 1..Len(c)
  BY EmptySeq DEF IsStretch, Bytes
<1>2. First(c) \in Int
  BY <1>1, ElementOfSeq DEF First, Bytes
<1>3. End(c) = First(c) + Len(c) - 1
  BY <1>1 DEF IsStretch, End
<1>4. PICK u \in Bytes : /\ u = Stretch(First(c) - 1, Len(c)) /\ Len(u) = Len(c)
                         /\ \A j \in 1..Len(c) : u[j] = First(c) - 1 + j
  <2>1. First(c) - 1 \in Int /\ Len(c) \in Nat
    BY <1>1, <1>2
  <2> QED  BY <2>1, StretchFacts
<1>5. \A j \in 1..Len(c) : c[j] = u[j]
  BY <1>1, <1>2, <1>4 DEF IsStretch
<1>6. c = u
  BY <1>1, <1>4, <1>5, SeqEqual DEF Bytes
<1> QED  BY <1>1, <1>2, <1>3, <1>4, <1>6

(* What FlattenSeq() makes of stretches that follow one another, the i-th of    *)
(* them after position s[i]                                                     *)
LEMMA StretchesFlat ==
  ASSUME NEW cs \in Chunks, cs # <<>>, NEW s,
         \A i \in 1..Len(cs) : s[i] \in Int /\ cs[i] = Stretch(s[i], Len(cs[i])),
         \A i \in 1..(Len(cs) - 1) : s[i + 1] = s[i] + Len(cs[i])
  PROVE  \E n \in Nat : /\ n = s[Len(cs)] + Len(cs[Len(cs)]) - s[1]
                        /\ FlattenSeq(cs) = Stretch(s[1], n)
<1>1. /\ Len(cs) \in Nat \ {0} /\ Len(cs) \in 1..Len(cs) /\ 1 \in 1..Len(cs)
      /\ \A i \in 1..Len(cs) : Len(cs[i]) \in Nat
  BY EmptySeq, ElementOfSeq, LenProperties DEF Chunks, Bytes
<1>2. PICK f : Unfolds(f, cs) /\ FlattenSeq(cs) = f[Len(cs)]
  BY <1>1, FlattenUnfolds
<1>3. PICK a \in Int : a = s[1]
  BY <1>1
<1> DEFINE Good(k) == \E n \in Nat : n = s[k] + Len(cs[k]) - a /\ f[k] = Stretch(a, n)
           T == {k \in Nat : k \in 1..Len(cs) /\ ~Good(k)}
<1>4. Good(1)
  <2>1. f[1] = cs[1] /\ cs[1] = Stretch(a, Len(cs[1]))
    BY <1>1, <1>2, <1>3 DEF Unfolds
  <2>2. Len(cs[1]) = s[1] + Len(cs[1]) - a
    BY <1>1, <1>3
  <2> QED  BY <1>1, <2>1, <2>2
<1>5. ASSUME NEW k \in 1..Len(cs), k # 1, Good(k - 1) PROVE Good(k)
  <2>1. k - 1 \in 1..(Len(cs) - 1) /\ k - 1 + 1 = k /\ k - 1 \in 1..Len(cs)
    BY <1>1, <1>5
  <2>2. f[k] = f[k - 1] \o cs[k]
    BY <1>2, <1>5, <2>1 DEF Unfolds
  <2>3. PICK n \in Nat : n = s[k - 1] + Len(cs[k - 1]) - a /\ f[k - 1] = Stretch(a, n)
    BY <1>5
  <2>4. PICK m \in Nat : m = Len(cs[k])
    BY <1>1
  <2>5. s[k] = s[k - 1] + Len(cs[k - 1]) /\ s[k - 1] \in Int /\ Len(cs[k - 1]) \in Nat
    BY <1>1, <2>1
  <2>6. s[k] = a + n
    BY <2>3, <2>5
  <2>7. f[k] = Stretch(a, n) \o Stretch(a + n, m)
    BY <2>2, <2>3, <2>4, <2>6
  <2>8. f[k] = Stretch(a, n + m)
    BY <2>7, StretchJoin
  <2>9. n + m \in Nat /\ n + m = s[k] + Len(cs[k]) - a
    <3>1. s[k] + Len(cs[k]) - a = a + n + m - a
      BY <2>4, <2>6
    <3>2. a + n + m - a = n + m
      OBVIOUS
    <3> QED  BY <3>1, <3>2
  <2> QED  BY <2>8, <2>9
<1> HIDE DEF Good
<1>6. T = {}
  <2> SUFFICES ASSUME T # {} PROVE FALSE  OBVIOUS
  <2>1. PICK m \in T : \A k \in T : m <= k
    BY LeastNatural
  <2>2. m \in 1..Len(cs) /\ m # 1 /\ ~Good(m)
    BY <1>4
  <2>3. m - 1 \in Nat /\ m - 1 \in 1..Len(cs) /\ m - 1 \notin T
    BY <2>1, <2>2, <1>1
  <2>4. Good(m - 1)
    BY <2>3
  <2> QED  BY <1>5, <2>2, <2>4
<1>7. Good(Len(cs))
  BY <1>1, <1>6
<1> QED  BY <1>2, <1>3, <1>7 DEF Good

(* The first and last positions of linked chunks give what they flatten to.     *)
LEMMA LinkedFlat ==
  ASSUME NEW cs, Linked(cs), cs # <<>>
  PROVE  \E n \in Nat : /\ n = End(cs[Len(cs)]) - First(cs[1]) + 1
                        /\ FlattenSeq(cs) = Stretch(First(cs[1]) - 1, n)
<1>1. /\ cs \in Chunks /\ Len(cs) \in Nat \ {0} /\ Len(cs) \in 1..Len(cs)
      /\ 1 \in 1..Len(cs)
  BY EmptySeq DEF Linked, Chunks
<1>2. \A i \in 1..Len(cs) :
        /\ cs[i] = Stretch(First(cs[i]) - 1, Len(cs[i])) /\ First(cs[i]) \in Int
        /\ End(cs[i]) = First(cs[i]) + Len(cs[i]) - 1 /\ Len(cs[i]) \in Nat
  BY StretchIs DEF Linked
<1> DEFINE s == [i \in 1..Len(cs) |-> First(cs[i]) - 1]
<1>3. \A i \in 1..Len(cs) : s[i] \in Int /\ s[i] = First(cs[i]) - 1
  BY <1>2
<1>4. \A i \in 1..(Len(cs) - 1) : s[i + 1] = s[i] + Len(cs[i])
  <2> TAKE i \in 1..(Len(cs) - 1)
  <2>1. i \in 1..Len(cs) /\ i + 1 \in 1..Len(cs)
    BY <1>1
  <2>2. First(cs[i + 1]) = End(cs[i]) + 1
    BY DEF Linked
  <2>3. s[i + 1] = First(cs[i + 1]) - 1 /\ s[i] = First(cs[i]) - 1
    BY <1>3, <2>1
  <2>4. End(cs[i]) = First(cs[i]) + Len(cs[i]) - 1 /\ First(cs[i]) \in Int /\ Len(cs[i]) \in Nat
    BY <1>2, <2>1
  <2> HIDE DEF s
  <2> QED  BY <2>2, <2>3, <2>4
<1> HIDE DEF s
<1>5. PICK n \in Nat : /\ n = s[Len(cs)] + Len(cs[Len(cs)]) - s[1]
                       /\ FlattenSeq(cs) = Stretch(s[1], n)
  <2>1. \A i \in 1..Len(cs) : s[i] \in Int /\ cs[i] = Stretch(s[i], Len(cs[i]))
    BY <1>2, <1>3
  <2> QED  BY <1>1, <1>4, <2>1, StretchesFlat
<1>6. n = End(cs[Len(cs)]) - First(cs[1]) + 1
  <2>1. /\ End(cs[Len(cs)]) = First(cs[Len(cs)]) + Len(cs[Len(cs)]) - 1
        /\ First(cs[Len(cs)]) \in Int /\ Len(cs[Len(cs)]) \in Nat /\ First(cs[1]) \in Int
    BY <1>1, <1>2
  <2>2. s[Len(cs)] = First(cs[Len(cs)]) - 1 /\ s[1] = First(cs[1]) - 1
    BY <1>1, <1>3
  <2> QED  BY <1>5, <2>1, <2>2
<1> QED  BY <1>1, <1>3, <1>5, <1>6

(* ... and what they flatten to with the pending bytes behind them              *)
FlatWith(cs, p, k, w) ==
  \E n \in Nat : /\ n = IF cs = <<>> THEN k ELSE w - First(cs[1]) + 1
                 /\ FlattenSeq(Append(cs, p)) = Stretch(w - n, n)

LEMMA LinkedFlatPending ==
  ASSUME NEW cs, Linked(cs), NEW w \in Int, NEW k \in Nat, NEW p, p = Stretch(w - k, k),
         cs # <<>> => End(cs[Len(cs)]) = w - k
  PROVE  FlatWith(cs, p, k, w)
<1>1. cs \in Seq(Bytes) /\ Len(cs) \in Nat /\ p \in Bytes /\ Len(p) = k /\ w - k \in Int
  BY StretchFacts DEF Linked, Chunks
<1>2. PICK ds \in Chunks :
        /\ ds = Append(cs, p) /\ ds # <<>> /\ Len(ds) = Len(cs) + 1
        /\ \A i \in 1..Len(cs) : ds[i] = cs[i]
        /\ ds[Len(cs) + 1] = p
  BY <1>1, AppendProperties DEF Chunks
<1>3. \A i \in 1..Len(cs) :
        /\ cs[i] = Stretch(First(cs[i]) - 1, Len(cs[i])) /\ First(cs[i]) \in Int
        /\ End(cs[i]) = First(cs[i]) + Len(cs[i]) - 1 /\ Len(cs[i]) \in Nat
  BY StretchIs DEF Linked
<1> DEFINE s == [i \in 1..(Len(cs) + 1) |-> IF i = Len(cs) + 1 THEN w - k ELSE First(cs[i]) - 1]
<1>4. /\ \A i \in 1..Len(cs) : s[i] \in Int /\ s[i] = First(cs[i]) - 1
      /\ s[Len(cs) + 1] = w - k /\ Len(cs) + 1 \in 1..(Len(cs) + 1)
  BY <1>1, <1>3
<1> HIDE DEF s
<1>5. \A i \in 1..Len(ds) : s[i] \in Int /\ ds[i] = Stretch(s[i], Len(ds[i]))
  <2> TAKE i \in 1..Len(ds)
  <2>1. CASE i = Len(cs) + 1
    BY <1>1, <1>2, <1>4, <2>1
  <2>2. CASE i # Len(cs) + 1
    <3>1. i \in 1..Len(cs)
      BY <1>1, <1>2, <2>2
    <3> QED  BY <1>2, <1>3, <1>4, <3>1
  <2> QED  BY <2>1, <2>2
<1>6. \A i \in 1..(Len(ds) - 1) : s[i + 1] = s[i] + Len(ds[i])
  <2> TAKE i \in 1..(Len(ds) - 1)
  <2>1. i \in 1..Len(cs) /\ ds[i] = cs[i]
    BY <1>1, <1>2
  <2>2. CASE i = Len(cs)
    <3>1. cs # <<>> /\ End(cs[i]) = w - k
      BY <1>1, <2>1, <2>2
    <3>2. s[i + 1] = w - k /\ s[i] = First(cs[i]) - 1
      BY <1>4, <2>1, <2>2
    <3>3. End(cs[i]) = First(cs[i]) + Len(cs[i]) - 1 /\ First(cs[i]) \in Int /\ Len(cs[i]) \in Nat
      BY <1>3, <2>1
    <3>4. s[i] + Len(cs[i]) = End(cs[i])
      BY <3>2, <3>3
    <3> QED  BY <2>1, <3>1, <3>2, <3>4
  <2>3. CASE i # Len(cs)
    <3>1. i + 1 \in 1..Len(cs) /\ i \in 1..(Len(cs) - 1)
      BY <1>1, <2>1, <2>3
    <3>2. First(cs[i + 1]) = End(cs[i]) + 1
      BY <3>1 DEF Linked
    <3>3. s[i + 1] = First(cs[i + 1]) - 1 /\ s[i] = First(cs[i]) - 1
      BY <1>4, <2>1, <3>1
    <3>4. End(cs[i]) = First(cs[i]) + Len(cs[i]) - 1 /\ First(cs[i]) \in Int /\ Len(cs[i]) \in Nat
      BY <1>3, <2>1
    <3> QED  BY <2>1, <3>2, <3>3, <3>4
  <2> QED  BY <2>2, <2>3
<1>7. PICK n \in Nat : /\ n = s[Len(ds)] + Len(ds[Len(ds)]) - s[1]
                       /\ FlattenSeq(ds) = Stretch(s[1], n)
  BY <1>2, <1>5, <1>6, StretchesFlat
<1>8. n = w - s[1] /\ s[1] \in Int
  <2>1. 1 \in 1..Len(ds)
    BY <1>1, <1>2
  <2>2. s[1] \in Int
    BY <1>5, <2>1
  <2>3. s[Len(ds)] = w - k /\ Len(ds[Len(ds)]) = k
    BY <1>1, <1>2, <1>4
  <2> QED  BY <1>7, <2>2, <2>3
<1>9. w - n = s[1]
  BY <1>8
<1>10. n = IF cs = <<>> THEN k ELSE w - First(cs[1]) + 1
  <2>1. CASE cs = <<>>
    BY <1>4, <1>8, <2>1
  <2>2. CASE cs # <<>>
    <3>1. 1 \in 1..Len(cs)
      BY <1>1, <2>2, EmptySeq
    <3>2. s[1] = First(cs[1]) - 1 /\ First(cs[1]) \in Int
      BY <1>3, <1>4, <3>1
    <3> QED  BY <1>8, <2>2, <3>2
  <2> QED  BY <2>1, <2>2
<1> QED  BY <1>2, <1>7, <1>9, <1>10 DEF FlatWith
-----------------------------------------------------------------------------
(* Cutting and joining linked chunks                                            *)
LEMMA StretchDrop ==
  ASSUME NEW c, IsStretch(c), NEW h \in Nat, h < Len(c)
  PROVE  /\ IsStretch(Drop(c, h)) /\ First(Drop(c, h)) = First(c) + h
         /\ Len(Drop(c, h)) = Len(c) - h /\ End(Drop(c, h)) = End(c)
<1>1. c \in Bytes /\ Len(c) \in Nat \ {0} /\ First(c) \in Int
  BY StretchIs DEF IsStretch
<1>2. \A i \in (h + 1)..Len(c) : c[i] \in Int
  <2> TAKE i \in (h + 1)..Len(c)
  <2>1. i \in 1..Len(c)
    BY <1>1
  <2> QED  BY <1>1, <2>1, ElementOfSeq DEF Bytes
<1>3. /\ SubSeq(c, h + 1, Len(c)) \in Seq(Int)
      /\ Len(SubSeq(c, h + 1, Len(c))) = IF h + 1 <= Len(c) THEN Len(c) - (h + 1) + 1 ELSE 0
      /\ \A i \in 1..(Len(c) - (h + 1) + 1) : SubSeq(c, h + 1, Len(c))[i] = c[h + 1 + i - 1]
  <2>1. h + 1 \in Int /\ Len(c) \in Int
    BY <1>1
  <2> QED  BY <1>2, <2>1, SubSeqProperties
<1>4. PICK d \in Bytes : /\ d = Drop(c, h) /\ Len(d) = Len(c) - h
                         /\ \A i \in 1..(Len(c) - h) : d[i] = c[h + i]
  <2>1. Len(c) - (h + 1) + 1 = Len(c) - h /\ h + 1 <= Len(c)
    BY <1>1
  <2>2. \A i \in 1..(Len(c) - h) : h + 1 + i - 1 = h + i
    BY <1>1
  <2> DEFINE d == SubSeq(c, h + 1, Len(c))
  <2>3. d \in Bytes /\ Len(d) = Len(c) - h
    BY <1>3, <2>1 DEF Bytes
  <2>4. \A i \in 1..(Len(c) - h) : d[i] = c[h + i]
    <3> TAKE i \in 1..(Len(c) - h)
    <3>1. d[i] = c[h + 1 + i - 1]
      BY <1>3, <2>1
    <3> QED  BY <2>2, <3>1
  <2>5. d = Drop(c, h)
    BY DEF Drop
  <2> HIDE DEF d
  <2> QED  BY <2>3, <2>4, <2>5
<1>5. \A i \in 1..(Len(c) - h) : d[i] = First(c) + h + i - 1
  <2> TAKE i \in 1..(Len(c) - h)
  <2>1. h + i \in 1..Len(c)
    BY <1>1
  <2> QED  BY <1>1, <1>4, <2>1 DEF IsStretch
<1>6. First(d) = First(c) + h
  <2>1. 1 \in 1..(Len(c) - h)
    BY <1>1
  <2> QED  BY <1>1, <1>5, <2>1 DEF First
<1>7. End(d) = End(c)
  <2>1. Len(c) - h \in 1..(Len(c) - h) /\ h + (Len(c) - h) = Len(c)
    BY <1>1
  <2> QED  BY <1>4, <2>1 DEF End
<1>8. IsStretch(d)
  <2>1. d # <<>>
    BY <1>1, <1>4
  <2>2. \A j \in 1..Len(d) : d[j] = First(d) + j - 1
    BY <1>4, <1>5, <1>6
  <2> QED  BY <2>1, <2>2 DEF IsStretch
<1> QED  BY <1>4, <1>6, <1>7, <1>8

LEMMA LinkedSub ==
  ASSUME NEW cs, Linked(cs), NEW m \in 1..(Len(cs) + 1), NEW n \in (m - 1)..Len(cs)
  PROVE  /\ Linked(SubSeq(cs, m, n)) /\ Len(SubSeq(cs, m, n)) = n - m + 1
         /\ \A i \in 1..(n - m + 1) : SubSeq(cs, m, n)[i] = cs[m + i - 1]
<1>1. cs \in Seq(Bytes) /\ Len(cs) \in Nat
  BY DEF Linked, Chunks
<1>2. \A i \in m..n : cs[i] \in Bytes
  <2> TAKE i \in m..n
  <2>1. i \in 1..Len(cs)
    BY <1>1
  <2> QED  BY <1>1, <2>1, ElementOfSeq
<1>3. PICK ds \in Seq(Bytes) :
        /\ ds = SubSeq(cs, m, n) /\ Len(ds) = n - m + 1
        /\ \A i \in 1..(n - m + 1) : ds[i] = cs[m + i - 1]
  <2>1. m \in Int /\ n \in Int /\ (~(m <= n) => n - m + 1 = 0)
    BY <1>1
  <2>2. /\ SubSeq(cs, m, n) \in Seq(Bytes)
        /\ Len(SubSeq(cs, m, n)) = IF m <= n THEN n - m + 1 ELSE 0
        /\ \A i \in 1..(n - m + 1) : SubSeq(cs, m, n)[i] = cs[m + i - 1]
    BY <1>2, <2>1, SubSeqProperties
  <2>3. Len(SubSeq(cs, m, n)) = n - m + 1
    BY <2>1, <2>2
  <2> QED  BY <2>2, <2>3
<1>4. \A i \in 1..Len(ds) : IsStretch(ds[i])
  <2> TAKE i \in 1..Len(ds)
  <2>1. m + i - 1 \in 1..Len(cs)
    BY <1>1, <1>3
  <2> QED  BY <1>3, <2>1 DEF Linked
<1>5. \A i \in 1..(Len(ds) - 1) : First(ds[i + 1]) = End(ds[i]) + 1
  <2> TAKE i \in 1..(Len(ds) - 1)
  <2>1. m + i - 1 \in 1..(Len(cs) - 1) /\ m + (i + 1) - 1 = m + i - 1 + 1
        /\ i \in 1..(n - m + 1) /\ i + 1 \in 1..(n - m + 1)
    BY <1>1, <1>3
  <2>2. ds[i] = cs[m + i - 1] /\ ds[i + 1] = cs[m + i - 1 + 1]
    BY <1>3, <2>1
  <2> QED  BY <2>1, <2>2 DEF Linked
<1> QED  BY <1>3, <1>4, <1>5 DEF Linked, Chunks

\* ds is cs with the chunk c behind it.
Longer(ds, cs, c) == /\ Linked(ds) /\ ds # <<>>
                     /\ Len(ds) = Len(cs) + 1 /\ ds[Len(cs) + 1] = c
                     /\ \A i \in 1..Len(cs) : ds[i] = cs[i]

LEMMA LinkedAppend ==
  ASSUME NEW cs, Linked(cs), NEW c, IsStretch(c),
         cs # <<>> => First(c) = End(cs[Len(cs)]) + 1
  PROVE  Longer(Append(cs, c), cs, c)
<1>1. cs \in Seq(Bytes) /\ Len(cs) \in Nat /\ c \in Bytes
  BY DEF Linked, Chunks, IsStretch
<1>2. PICK ds \in Seq(Bytes) :
        /\ ds = Append(cs, c) /\ ds # <<>> /\ Len(ds) = Len(cs) + 1
        /\ \A i \in 1..Len(cs) : ds[i] = cs[i]
        /\ ds[Len(cs) + 1] = c
  BY <1>1, AppendProperties
<1>3. \A i \in 1..Len(ds) : IsStretch(ds[i])
  <2> TAKE i \in 1..Len(ds)
  <2>1. i \in 1..Len(cs) \/ i = Len(cs) + 1
    BY <1>1, <1>2
  <2> QED  BY <1>2, <2>1 DEF Linked
<1>4. \A i \in 1..(Len(ds) - 1) : First(ds[i + 1]) = End(ds[i]) + 1
  <2> TAKE i \in 1..(Len(ds) - 1)
  <2>1. i \in 1..Len(cs) /\ ds[i] = cs[i]
    BY <1>1, <1>2
  <2>2. CASE i = Len(cs)
    BY <1>1, <1>2, <2>1, <2>2
  <2>3. CASE i # Len(cs)
    <3>1. i + 1 \in 1..Len(cs) /\ i \in 1..(Len(cs) - 1)
      BY <1>1, <2>1, <2>3
    <3> QED  BY <1>2, <2>1, <3>1 DEF Linked
  <2> QED  BY <2>2, <2>3
<1> QED  BY <1>2, <1>3, <1>4 DEF Linked, Chunks, Longer

\* ds is cs without its first h bytes, all of them in the first chunk.
Shorter(ds, cs, h) ==
  /\ Linked(ds) /\ ds # <<>> /\ Len(ds) = Len(cs)
  /\ First(ds[1]) = First(cs[1]) + h /\ Len(ds[1]) = Len(cs[1]) - h
  /\ End(ds[Len(cs)]) = End(cs[Len(cs)])
  /\ \A i \in 2..Len(cs) : ds[i] = cs[i]

LEMMA LinkedCut ==
  ASSUME NEW cs, Linked(cs), cs # <<>>, NEW h \in Nat, h < Len(cs[1])
  PROVE  Shorter([cs EXCEPT ![1] = Drop(@, h)], cs, h)
<1>1. cs \in Seq(Bytes) /\ Len(cs) \in Nat \ {0} /\ 1 \in 1..Len(cs) /\ IsStretch(cs[1])
  BY EmptySeq DEF Linked, Chunks
<1>2. PICK d : d = Drop(cs[1], h)
  OBVIOUS
<1>3. /\ IsStretch(d) /\ First(d) = First(cs[1]) + h /\ d \in Bytes
      /\ Len(d) = Len(cs[1]) - h /\ End(d) = End(cs[1])
  <2>1. IsStretch(d) /\ First(d) = First(cs[1]) + h
        /\ Len(d) = Len(cs[1]) - h /\ End(d) = End(cs[1])
    BY <1>1, <1>2, StretchDrop
  <2> QED  BY <2>1 DEF IsStretch
<1>4. PICK ds \in Seq(Bytes) :
        /\ ds = [cs EXCEPT ![1] = Drop(@, h)] /\ Len(ds) = Len(cs)
        /\ \A i \in 1..Len(cs) : ds[i] = IF i = 1 THEN d ELSE cs[i]
  <2>1. [cs EXCEPT ![1] = Drop(@, h)] = [cs EXCEPT ![1] = d]
    BY <1>2
  <2> QED  BY <1>1, <1>3, <2>1, ExceptSeq
<1>5. \A i \in 1..Len(cs) : IsStretch(ds[i]) /\ End(ds[i]) = End(cs[i])
  BY <1>3, <1>4 DEF Linked
<1>6. \A i \in 1..(Len(cs) - 1) : First(ds[i + 1]) = End(ds[i]) + 1
  <2> TAKE i \in 1..(Len(cs) - 1)
  <2>1. i \in 1..Len(cs) /\ i + 1 \in 1..Len(cs) /\ i + 1 # 1
    BY <1>1
  <2> QED  BY <1>4, <1>5, <2>1 DEF Linked
<1>7. Linked(ds)
  BY <1>4, <1>5, <1>6 DEF Linked, Chunks
<1>8. ds[1] = d /\ (\A i \in 2..Len(cs) : ds[i] = cs[i]) /\ Len(cs) \in 1..Len(cs)
  BY <1>1, <1>4
<1>9. ds # <<>>
  BY <1>1, <1>4
<1> QED  BY <1>3, <1>4, <1>5, <1>7, <1>8, <1>9 DEF Shorter
-----------------------------------------------------------------------------
(* A buffer b that holds the newest b.size bytes of a stream of w               *)
Buffers == [chunks : Chunks, head : Nat, pending : Bytes, size : Nat, dropped : Nat]

Holds(b, w) ==
  /\ b \in Buffers /\ Linked(b.chunks)
  /\ b.pending = Stretch(w - Len(b.pending), Len(b.pending))
  /\ b.chunks = <<>> => b.head = 0 /\ b.size = Len(b.pending)
  /\ b.chunks # <<>> => /\ First(b.chunks[1]) = w - b.size - b.head + 1
                        /\ End(b.chunks[Len(b.chunks)]) = w - Len(b.pending)
                        /\ b.head < Len(b.chunks[1])

\* Of two neighbouring chunks behind the head, one is not a small write.
Large(c) == Len(c) >= coalesceSize
Spaced(cs) == /\ Len(cs) >= 2 => Large(cs[Len(cs)])
              /\ \A i \in 3..Len(cs) : Large(cs[i - 1]) \/ Large(cs[i])

LEMMA BufferTypes ==
  ASSUME NEW b \in Buffers
  PROVE  /\ b.chunks \in Chunks /\ b.head \in Nat /\ b.pending \in Bytes
         /\ b.size \in Nat /\ b.dropped \in Nat
         /\ Len(b.chunks) \in Nat /\ Len(b.pending) \in Nat
BY DEF Buffers, Chunks, Bytes

LEMMA BufferMade ==
  ASSUME NEW cs \in Chunks, NEW h \in Nat, NEW p \in Bytes, NEW n \in Nat, NEW d \in Nat, NEW e,
         e = [chunks |-> cs, head |-> h, pending |-> p, size |-> n, dropped |-> d]
  PROVE  /\ e \in Buffers /\ e.chunks = cs /\ e.head = h /\ e.pending = p
         /\ e.size = n /\ e.dropped = d
BY DEF Buffers

LEMMA HoldsMade ==
  ASSUME NEW e \in Buffers, Linked(e.chunks), e.chunks # <<>>, NEW v,
         e.pending = Stretch(v - Len(e.pending), Len(e.pending)),
         First(e.chunks[1]) = v - e.size - e.head + 1,
         End(e.chunks[Len(e.chunks)]) = v - Len(e.pending),
         e.head < Len(e.chunks[1])
  PROVE  Holds(e, v)
BY DEF Holds

LEMMA OverflowIs ==
  ASSUME maxsize \in (Nat \ {0}) \cup {None}, NEW n \in Nat
  PROVE  /\ Overflow(n) \in 0..n
         /\ maxsize # None => n - Overflow(n) <= maxsize
         /\ maxsize # None /\ Overflow(n) # 0 => n - Overflow(n) = maxsize
         /\ maxsize = None => Overflow(n) = 0
BY BufferAssumption DEF Overflow

(* The tail of linked chunks that begins with chunk k + 1                       *)
LEMMA LinkedTail ==
  ASSUME NEW cs, Linked(cs), Spaced(cs), NEW k \in 0..(Len(cs) - 1)
  PROVE  /\ Linked(Drop(cs, k)) /\ Len(Drop(cs, k)) = Len(cs) - k
         /\ Drop(cs, k) # <<>> /\ Drop(cs, k)[1] = cs[k + 1]
         /\ Drop(cs, k)[Len(cs) - k] = cs[Len(cs)]
         /\ Spaced(Drop(cs, k))
<1>1. Len(cs) \in Nat /\ k + 1 \in 1..(Len(cs) + 1) /\ Len(cs) \in (k + 1 - 1)..Len(cs)
  BY DEF Linked, Chunks
<1>2. PICK ds : ds = Drop(cs, k)
  OBVIOUS
<1>3. /\ Linked(ds) /\ Len(ds) = Len(cs) - (k + 1) + 1
      /\ \A i \in 1..(Len(cs) - (k + 1) + 1) : ds[i] = cs[k + 1 + i - 1]
  BY <1>1, <1>2, LinkedSub DEF Drop
<1>4. Len(ds) = Len(cs) - k /\ \A i \in 1..Len(ds) : ds[i] = cs[k + i]
  <2>1. Len(cs) - (k + 1) + 1 = Len(cs) - k
    BY <1>1
  <2>2. \A i \in 1..(Len(cs) - k) : k + 1 + i - 1 = k + i
    BY <1>1
  <2> QED  BY <1>3, <2>1, <2>2
<1>5. 1 \in 1..Len(ds) /\ Len(cs) - k \in 1..Len(ds) /\ k + (Len(cs) - k) = Len(cs)
  BY <1>1, <1>4
<1>6. ds[1] = cs[k + 1] /\ ds[Len(cs) - k] = cs[Len(cs)] /\ ds # <<>>
  <2>1. ds[1] = cs[k + 1] /\ ds[Len(cs) - k] = cs[k + (Len(cs) - k)]
    BY <1>4, <1>5
  <2>2. ds # <<>>
    BY <1>5
  <2> QED  BY <1>5, <2>1, <2>2
<1>7. Spaced(ds)
  <2>1. Len(ds) >= 2 => Large(ds[Len(ds)])
    BY <1>1, <1>4, <1>6 DEF Spaced
  <2>2. ASSUME NEW i \in 3..Len(ds) PROVE Large(ds[i - 1]) \/ Large(ds[i])
    <3>1. /\ i \in 1..Len(ds) /\ i - 1 \in 1..Len(ds) /\ k + i \in 3..Len(cs)
          /\ k + (i - 1) = k + i - 1
      BY <1>1, <1>4
    <3>2. ds[i] = cs[k + i] /\ ds[i - 1] = cs[k + i - 1]
      BY <1>4, <3>1
    <3>3. Large(cs[k + i - 1]) \/ Large(cs[k + i])
      BY <3>1 DEF Spaced
    <3> QED  BY <3>2, <3>3
  <2> QED  BY <2>1, <2>2 DEF Spaced
<1> QED  BY <1>2, <1>3, <1>4, <1>6, <1>7

(* The lengths of the first chunks, as _evict_excess() adds them up             *)
LEMMA TotalOfFirst ==
  ASSUME NEW cs, Linked(cs), NEW k \in 1..Len(cs)
  PROVE  Total(SubSeq(cs, 1, k)) = End(cs[k]) - First(cs[1]) + 1
<1>1. Len(cs) \in Nat /\ 1 \in 1..(Len(cs) + 1) /\ k \in (1 - 1)..Len(cs)
  BY DEF Linked, Chunks
<1>2. PICK ds : ds = SubSeq(cs, 1, k)
  OBVIOUS
<1>3. /\ Linked(ds) /\ Len(ds) = k - 1 + 1
      /\ \A i \in 1..(k - 1 + 1) : ds[i] = cs[1 + i - 1]
  BY <1>1, <1>2, LinkedSub
<1>4. Len(ds) = k /\ ds # <<>> /\ ds[1] = cs[1] /\ ds[k] = cs[k]
  BY <1>1, <1>3
<1>5. PICK n \in Nat : /\ n = End(cs[k]) - First(cs[1]) + 1
                       /\ FlattenSeq(ds) = Stretch(First(cs[1]) - 1, n)
  BY <1>3, <1>4, LinkedFlat
<1>6. First(cs[1]) - 1 \in Int
  <2>1. 1 \in 1..Len(cs)
    BY <1>1
  <2>2. First(cs[1]) \in Int
    BY <2>1, StretchIs DEF Linked
  <2> QED  BY <2>2
<1> QED  BY <1>2, <1>5, <1>6, StretchFacts DEF Total

(* The pending bytes without their first n                                      *)
LEMMA PendingDrop ==
  ASSUME NEW a \in Int, NEW k \in Nat, NEW p, p = Stretch(a, k), NEW n \in 0..k
  PROVE  /\ Drop(p, n) \in Bytes /\ Len(Drop(p, n)) = k - n
         /\ Drop(p, n) = Stretch(a + n, k - n)
<1>1. p \in Bytes /\ Len(p) = k /\ \A j \in 1..k : p[j] = a + j
  BY StretchFacts
<1>2. /\ SubSeq(p, n + 1, Len(p)) \in Seq(Int)
      /\ Len(SubSeq(p, n + 1, Len(p))) = IF n + 1 <= k THEN k - (n + 1) + 1 ELSE 0
      /\ \A i \in 1..(k - (n + 1) + 1) : SubSeq(p, n + 1, Len(p))[i] = p[n + 1 + i - 1]
  <2>1. \A i \in (n + 1)..k : p[i] \in Int
    BY <1>1
  <2>2. n + 1 \in Int /\ k \in Int
    OBVIOUS
  <2> QED  BY <1>1, <2>1, <2>2, SubSeqProperties
<1>3. PICK d : d = Drop(p, n)
  OBVIOUS
<1>4. d \in Bytes /\ Len(d) = k - n
  <2>1. (IF n + 1 <= k THEN k - (n + 1) + 1 ELSE 0) = k - n
    OBVIOUS
  <2> QED  BY <1>2, <1>3, <2>1 DEF Drop, Bytes
<1>5. \A i \in 1..(k - n) : d[i] = a + n + i
  <2> TAKE i \in 1..(k - n)
  <2>1. i \in 1..(k - (n + 1) + 1) /\ n + 1 + i - 1 = n + i /\ n + i \in 1..k
    OBVIOUS
  <2>2. d[i] = p[n + i]
    BY <1>2, <1>3, <2>1 DEF Drop
  <2>3. a + (n + i) = a + n + i
    OBVIOUS
  <2> QED  BY <1>1, <2>1, <2>2, <2>3
<1>6. /\ Stretch(a + n, k - n) \in Bytes /\ Len(Stretch(a + n, k - n)) = k - n
      /\ \A i \in 1..(k - n) : Stretch(a + n, k - n)[i] = a + n + i
  <2>1. a + n \in Int /\ k - n \in Nat
    OBVIOUS
  <2> QED  BY <2>1, StretchFacts
<1>7. d = Stretch(a + n, k - n)
  BY <1>4, <1>5, <1>6, SeqEqual DEF Bytes
<1> QED  BY <1>3, <1>4, <1>7
-----------------------------------------------------------------------------
(* _evict_excess() lets go of the oldest bytes, exactly those past maxsize.     *)
Evicted(b, e) == /\ e.size = b.size - Overflow(b.size)
                 /\ e.dropped = b.dropped + Overflow(b.size)
                 /\ Len(e.pending) <= Len(b.pending)

LEMMA SizeIs ==
  ASSUME NEW w \in Int, NEW b, Holds(b, w)
  PROVE  /\ Len(b.pending) <= b.size
         /\ b.chunks # <<>> => Total(b.chunks) = b.size + b.head - Len(b.pending)
         /\ b.chunks = <<>> => Total(b.chunks) = 0
<1>1. /\ b \in Buffers /\ Linked(b.chunks) /\ b.head \in Nat /\ b.size \in Nat
      /\ Len(b.pending) \in Nat /\ Len(b.chunks) \in Nat
  BY BufferTypes DEF Holds
<1>a. PICK sz \in Nat, hd \in Nat, pd \in Nat : sz = b.size /\ hd = b.head /\ pd = Len(b.pending)
  BY <1>1
<1>2. CASE b.chunks = <<>>
  BY <1>1, <1>2, FlattenEmpty DEF Holds, Total
<1>3. CASE b.chunks # <<>>
  <2>1. /\ First(b.chunks[1]) = w - b.size - b.head + 1 /\ b.head < Len(b.chunks[1])
        /\ End(b.chunks[Len(b.chunks)]) = w - Len(b.pending)
    BY <1>3 DEF Holds
  <2>2. PICK ds :
          /\ Linked(ds) /\ ds # <<>> /\ Len(ds) = Len(b.chunks)
          /\ First(ds[1]) = First(b.chunks[1]) + b.head
          /\ End(ds[Len(b.chunks)]) = End(b.chunks[Len(b.chunks)])
    <3>1. Shorter([b.chunks EXCEPT ![1] = Drop(@, b.head)], b.chunks, b.head)
      BY <1>1, <1>3, <2>1, LinkedCut
    <3> QED  BY <3>1 DEF Shorter
  <2>3. PICK n \in Nat : n = End(ds[Len(ds)]) - First(ds[1]) + 1
    BY <2>2, LinkedFlat
  <2>4. n = w - pd - (w - sz - hd + 1 + hd) + 1
    BY <1>a, <2>1, <2>2, <2>3
  <2>5. pd <= sz
    BY <2>4
  <2>6. PICK m \in Nat : /\ m = End(b.chunks[Len(b.chunks)]) - First(b.chunks[1]) + 1
                         /\ FlattenSeq(b.chunks) = Stretch(First(b.chunks[1]) - 1, m)
    BY <1>1, <1>3, LinkedFlat
  <2>7. m = w - pd - (w - sz - hd + 1) + 1 /\ First(b.chunks[1]) = w - sz - hd + 1
    BY <1>a, <2>1, <2>6
  <2>8. m = sz + hd - pd /\ First(b.chunks[1]) - 1 \in Int
    BY <2>7
  <2>9. Total(b.chunks) = m
    BY <2>6, <2>8, StretchFacts DEF Total
  <2> QED  BY <1>a, <1>3, <2>5, <2>8, <2>9
<1> QED  BY <1>2, <1>3

LEMMA EvictHolds ==
  ASSUME maxsize \in (Nat \ {0}) \cup {None}, NEW w \in Int, NEW b, Holds(b, w), Spaced(b.chunks)
  PROVE  Holds(Evict(b), w) /\ Spaced(Evict(b).chunks) /\ Evicted(b, Evict(b))
<1>1. /\ b \in Buffers /\ Linked(b.chunks) /\ Len(b.chunks) \in Nat /\ Len(b.pending) \in Nat
      /\ b.head \in Nat /\ b.size \in Nat /\ b.dropped \in Nat
      /\ Overflow(b.size) \in 0..b.size
  BY BufferTypes, OverflowIs DEF Holds
<1>a. PICK sz \in Nat, hd \in Nat, n \in Nat, p \in Nat, excess \in Nat :
        /\ sz = b.size /\ hd = b.head /\ n = Len(b.chunks) /\ p = Len(b.pending)
        /\ excess = Overflow(b.size) /\ excess <= sz
  BY <1>1
<1> DEFINE Freed(k) == IF k = 0 THEN 0 ELSE Total(SubSeq(b.chunks, 1, k)) - hd
           K == {i \in 0..n : Freed(i) <= excess}
<1>2. CASE excess = 0
  <2>1. Evict(b) = b
    BY <1>2, <1>a DEF Evict
  <2> QED  BY <1>1, <1>2, <1>a, <2>1 DEF Evicted
<1>3. CASE excess # 0
  <2>1. \A k \in 1..n : /\ Freed(k) = End(b.chunks[k]) - First(b.chunks[1]) + 1 - hd
                         /\ End(b.chunks[k]) \in Int /\ First(b.chunks[1]) \in Int
                         /\ First(b.chunks[k]) \in Int /\ Len(b.chunks[k]) \in Nat \ {0}
                         /\ End(b.chunks[k]) = First(b.chunks[k]) + Len(b.chunks[k]) - 1
    <3> TAKE k \in 1..n
    <3>1. Total(SubSeq(b.chunks, 1, k)) = End(b.chunks[k]) - First(b.chunks[1]) + 1
      BY <1>1, <1>a, TotalOfFirst
    <3>2. 1 \in 1..n /\ k # 0
      OBVIOUS
    <3>3. IsStretch(b.chunks[1]) /\ IsStretch(b.chunks[k])
      BY <1>1, <1>a, <3>2 DEF Linked
    <3>4. Freed(k) = End(b.chunks[k]) - First(b.chunks[1]) + 1 - hd
      <4>1. Freed(k) = Total(SubSeq(b.chunks, 1, k)) - hd
        BY <3>2
      <4>2. PICK x \in Int, y \in Int : x = End(b.chunks[k]) /\ y = First(b.chunks[1])
        BY <3>3, StretchIs
      <4>3. Total(SubSeq(b.chunks, 1, k)) = x - y + 1
        BY <3>1, <4>2
      <4> HIDE DEF Freed, K
      <4> QED  BY <4>1, <4>2, <4>3
    <3> HIDE DEF Freed
    <3> QED  BY <3>3, <3>4, StretchIs
  <2>2. K \in SUBSET (0..n) /\ 0 \in K
    BY <1>1
  <2>3. PICK k \in K : k = Max(K) /\ \A i \in K : i <= k
    BY <1>1, <2>2, MaxOf
  <2>4. k \in 0..n /\ Freed(k) <= excess
    BY <2>3
  <2>5. k # n => ~(Freed(k + 1) <= excess)
    <3> SUFFICES ASSUME k # n, Freed(k + 1) <= excess PROVE FALSE
      OBVIOUS
    <3>1. k + 1 \in 0..n
      BY <1>1, <2>4
    <3>2. k + 1 \in K
      BY <3>1
    <3> QED  BY <2>3, <2>4, <3>2
  <2>6. Evict(b) = [chunks |-> Drop(b.chunks, k),
                    head |-> IF k = n THEN 0 ELSE IF k = 0 THEN hd + (excess - Freed(k))
                             ELSE excess - Freed(k),
                    pending |-> IF k = n THEN Drop(b.pending, excess - Freed(k)) ELSE b.pending,
                    size |-> sz - excess,
                    dropped |-> b.dropped + excess]
    BY <1>3, <1>a, <2>3 DEF Evict
  <2>7. PICK r \in Nat : r = excess - Freed(k)
    <3>1. CASE k = 0
      <4>1. Freed(k) = 0
        BY <3>1
      <4> HIDE DEF Freed
      <4> QED  BY <1>1, <4>1
    <3>2. CASE k # 0
      <4>1. k \in 1..n
        BY <1>1, <2>4, <3>2
      <4> HIDE DEF Freed
      <4>2. Freed(k) \in Int
        BY <2>1, <4>1
      <4> QED  BY <1>1, <2>4, <4>2
    <3> QED  BY <3>1, <3>2
  <2> HIDE DEF Freed, K
  <2>8. /\ p <= sz /\ b.pending = Stretch(w - p, p) /\ sz - excess \in Nat
        /\ b.dropped + excess \in Nat
    <3>1. p <= sz
      BY <1>a, SizeIs
    <3>2. b.pending = Stretch(w - p, p)
      BY <1>a DEF Holds
    <3>3. sz - excess \in Nat
      BY <1>a
    <3> QED  BY <1>1, <3>1, <3>2, <3>3
  <2>9. CASE k = n
    \* Every chunk goes, and some of the pending bytes.
    <3>1. Freed(k) = sz - p
      <4>1. CASE n = 0
        <5>1. b.chunks = <<>>
          BY <4>1, <1>1, <1>a, EmptySeq DEF Linked, Chunks
        <5>2. sz = p
          BY <1>a, <5>1 DEF Holds
        <5> QED  BY <1>1, <2>9, <4>1, <5>2 DEF Freed
      <4>2. CASE n # 0
        <5>1. b.chunks # <<>> /\ n \in 1..n /\ 1 \in 1..n
          BY <4>2, <1>a
        <5>2. /\ First(b.chunks[1]) = w - sz - hd + 1
              /\ End(b.chunks[n]) = w - p
          BY <1>a, <5>1 DEF Holds
        <5>3. Freed(k) = w - p - (w - sz - hd + 1) + 1 - hd
          BY <2>1, <2>9, <5>1, <5>2
        <5> HIDE DEF Freed
        <5>4. w - p - (w - sz - hd + 1) + 1 - hd = sz - p
          OBVIOUS
        <5> QED  BY <5>3, <5>4
      <4> QED  BY <4>1, <4>2
    <3>2. r \in 0..p /\ r = excess - (sz - p) /\ p - r = sz - excess
      BY <1>1, <2>7, <2>8, <3>1
    <3>3. PICK d \in Bytes : /\ d = Drop(b.pending, r) /\ Len(d) = p - r
                             /\ d = Stretch(w - (p - r), p - r)
      <4>1. PICK a \in Int : a = w - p
        OBVIOUS
      <4>2. b.pending = Stretch(a, p) /\ r \in 0..p
        BY <2>8, <3>2, <4>1
      <4>3. /\ Drop(b.pending, r) \in Bytes /\ Len(Drop(b.pending, r)) = p - r
            /\ Drop(b.pending, r) = Stretch(a + r, p - r)
        <5>1. Drop(b.pending, r) \in Bytes
          BY <4>2, PendingDrop
        <5>2. Len(Drop(b.pending, r)) = p - r
          BY <4>2, PendingDrop
        <5>3. Drop(b.pending, r) = Stretch(a + r, p - r)
          BY <4>2, PendingDrop
        <5> QED  BY <5>1, <5>2, <5>3
      <4>4. a + r = w - (p - r)
        BY <4>1
      <4> QED  BY <4>3, <4>4
    <3>4. Drop(b.chunks, k) = <<>>
      BY <1>1, <1>a, <2>9, SubSeqEmpty DEF Drop
    <3>5. PICK e : /\ e = Evict(b)
                   /\ e = [chunks |-> <<>>, head |-> 0, pending |-> d,
                           size |-> sz - excess, dropped |-> b.dropped + excess]
      BY <2>6, <2>7, <2>9, <3>3, <3>4
    <3>6. Linked(<<>>) /\ Spaced(<<>>) /\ <<>> \in Chunks
      BY EmptySeq DEF Linked, Spaced, Chunks
    <3>7. e \in Buffers
      <4>1. PICK y \in Nat, z \in Nat : y = sz - excess /\ z = b.dropped + excess
        BY <2>8
      <4>2. PICK cs \in Chunks, h \in Nat : cs = <<>> /\ h = 0
        BY <3>6
      <4>3. e = [chunks |-> cs, head |-> h, pending |-> d, size |-> y, dropped |-> z]
        BY <3>5, <4>1, <4>2
      <4> QED  BY <4>3, BufferMade
    <3>8. /\ e.chunks = <<>> /\ e.head = 0 /\ e.size = sz - excess
          /\ e.pending = d /\ e.dropped = b.dropped + excess
      BY <3>5
    <3>9. Holds(e, w)
      BY <1>a, <3>2, <3>3, <3>6, <3>7, <3>8 DEF Holds
    <3>10. Evicted(b, e)
      BY <1>a, <3>2, <3>3, <3>8 DEF Evicted
    <3> QED  BY <3>5, <3>6, <3>8, <3>9, <3>10
  <2>10. CASE k # n
    \* Chunk k + 1 becomes the head.
    <3>1. k \in 0..(n - 1) /\ k + 1 \in 1..n /\ n \in 1..n /\ 1 \in 1..n /\ b.chunks # <<>>
      BY <1>a, <2>4, <2>10
    <3>2. /\ First(b.chunks[1]) = w - sz - hd + 1
          /\ End(b.chunks[n]) = w - p /\ hd < Len(b.chunks[1])
      BY <1>a, <3>1 DEF Holds
    <3>3. PICK ds : /\ ds = Drop(b.chunks, k) /\ Linked(ds) /\ Len(ds) = n - k /\ ds # <<>>
                    /\ ds[1] = b.chunks[k + 1] /\ ds[n - k] = b.chunks[n] /\ Spaced(ds)
      BY <1>1, <1>a, <3>1, LinkedTail
    <3>4. PICK h \in Nat : /\ h = IF k = 0 THEN hd + r ELSE r
                           /\ First(ds[1]) = w - (sz - excess) - h + 1
                           /\ h < Len(ds[1])
      <4>1. /\ Freed(k + 1) = End(b.chunks[k + 1]) - First(b.chunks[1]) + 1 - hd
            /\ First(b.chunks[k + 1]) \in Int /\ Len(b.chunks[k + 1]) \in Nat \ {0}
            /\ End(b.chunks[k + 1]) = First(b.chunks[k + 1]) + Len(b.chunks[k + 1]) - 1
        BY <2>1, <3>1
      <4>2. PICK l \in Nat : l = Len(b.chunks[k + 1])
        BY <4>1
      <4>3. PICK f \in Int : f = First(b.chunks[k + 1])
        BY <4>1
      <4>4. Freed(k + 1) = f + l - 1 - (w - sz - hd + 1) + 1 - hd
        BY <3>2, <4>1, <4>2, <4>3
      <4>5. f + l - 1 - w + sz > excess
        <5>1. Freed(k + 1) = f + l - 1 - w + sz
          BY <1>1, <4>4
        <5> QED  BY <1>1, <2>5, <2>10, <5>1
      <4>6. CASE k = 0
        <5>1. Freed(k) = 0 /\ f = w - sz - hd + 1
          BY <3>2, <4>3, <4>6 DEF Freed
        <5>2. r = excess
          BY <1>1, <2>7, <5>1
        <5>3. f = w - (sz - excess) - (hd + r) + 1 /\ hd + r < l
          BY <1>1, <4>5, <5>1, <5>2
        <5>4. hd + r \in Nat
          OBVIOUS
        <5> QED  BY <3>3, <4>2, <4>3, <4>6, <5>3, <5>4
      <4>7. CASE k # 0
        <5>1. k \in 1..(n - 1) /\ k \in 1..n
          BY <3>1, <4>7
        <5>2. First(b.chunks[k + 1]) = End(b.chunks[k]) + 1
          BY <1>1, <1>a, <5>1 DEF Linked
        <5>3. Freed(k) = End(b.chunks[k]) - (w - sz - hd + 1) + 1 - hd
              /\ End(b.chunks[k]) \in Int
          BY <2>1, <3>2, <5>1
        <5>4. End(b.chunks[k]) = f - 1
          BY <4>3, <5>2, <5>3
        <5>5. Freed(k) = f - 1 - w + sz
          BY <1>1, <5>3, <5>4
        <5>6. f = w - (sz - excess) - r + 1 /\ r < l
          BY <1>1, <2>7, <4>5, <5>5
        <5> QED  BY <3>3, <4>2, <4>3, <4>7, <5>6
      <4> QED  BY <4>6, <4>7
    <3>5. PICK e : /\ e = Evict(b)
                   /\ e = [chunks |-> ds, head |-> h, pending |-> b.pending,
                           size |-> sz - excess, dropped |-> b.dropped + excess]
      BY <2>6, <2>7, <2>10, <3>3, <3>4
    <3>6. ds \in Chunks /\ b.pending \in Bytes
      BY <1>1, <3>3, BufferTypes DEF Linked
    <3>7. e \in Buffers
      BY <1>a, <2>8, <3>5, <3>6 DEF Buffers
    <3>8. /\ e.chunks = ds /\ e.head = h /\ e.size = sz - excess
          /\ e.pending = b.pending /\ e.dropped = b.dropped + excess
      BY <3>5
    <3>9. Holds(e, w)
      BY <1>a, <2>8, <3>2, <3>3, <3>4, <3>7, <3>8 DEF Holds
    <3>10. Evicted(b, e)
      BY <1>a, <3>8 DEF Evicted
    <3> QED  BY <3>3, <3>5, <3>8, <3>9, <3>10
  <2> QED  BY <2>9, <2>10
<1> QED  BY <1>2, <1>3
-----------------------------------------------------------------------------
(* What arrives, and what becomes of it                                         *)
LEMMA DataStretch ==
  ASSUME NEW a \in Int, NEW n \in Nat, n # 0, NEW d, d = Stretch(a, n)
  PROVE  /\ IsStretch(d) /\ d \in Bytes /\ Len(d) = n /\ First(d) = a + 1 /\ End(d) = a + n
<1>1. d \in Bytes /\ Len(d) = n /\ \A j \in 1..n : d[j] = a + j
  BY StretchFacts
<1>2. 1 \in 1..n /\ n \in 1..n
  OBVIOUS
<1>3. First(d) = a + 1 /\ End(d) = a + n
  BY <1>1, <1>2 DEF First, End
<1>4. d # <<>>
  BY <1>1
<1>5. \A j \in 1..Len(d) : d[j] = First(d) + j - 1
  <2> TAKE j \in 1..Len(d)
  <2>1. d[j] = a + j
    BY <1>1
  <2>2. a + j = a + 1 + j - 1
    BY <1>1
  <2> QED  BY <1>3, <2>1, <2>2
<1> QED  BY <1>1, <1>3, <1>4, <1>5 DEF IsStretch

LEMMA SpacedAppend ==
  ASSUME NEW cs, Linked(cs), Spaced(cs), NEW c, IsStretch(c),
         cs # <<>> => First(c) = End(cs[Len(cs)]) + 1, Large(c)
  PROVE  Spaced(Append(cs, c))
<1>1. PICK ds : /\ ds = Append(cs, c) /\ Len(ds) = Len(cs) + 1 /\ ds[Len(cs) + 1] = c
                /\ \A i \in 1..Len(cs) : ds[i] = cs[i]
  <2>1. Longer(Append(cs, c), cs, c)
    BY LinkedAppend
  <2> QED  BY <2>1 DEF Longer
<1>2. Len(cs) \in Nat
  BY DEF Linked, Chunks
<1>3. Large(ds[Len(ds)])
  BY <1>1
<1>4. ASSUME NEW i \in 3..Len(ds) PROVE Large(ds[i - 1]) \/ Large(ds[i])
  <2>1. CASE i = Len(cs) + 1
    BY <1>1, <2>1
  <2>2. CASE i # Len(cs) + 1
    <3>1. i \in 3..Len(cs) /\ i \in 1..Len(cs) /\ i - 1 \in 1..Len(cs)
      BY <1>1, <1>2, <2>2
    <3>2. ds[i] = cs[i] /\ ds[i - 1] = cs[i - 1]
      BY <1>1, <3>1
    <3>3. Large(cs[i - 1]) \/ Large(cs[i])
      BY <3>1 DEF Spaced
    <3> QED  BY <3>2, <3>3
  <2> QED  BY <2>1, <2>2
<1> QED  BY <1>1, <1>3, <1>4 DEF Spaced

\* A small chunk may come between two large ones.
LEMMA SpacedAppendBoth ==
  ASSUME NEW cs, Linked(cs), Spaced(cs), NEW p, IsStretch(p), NEW c, IsStretch(c),
         cs # <<>> => First(p) = End(cs[Len(cs)]) + 1, First(c) = End(p) + 1, Large(c)
  PROVE  Spaced(Append(Append(cs, p), c))
<1>1. PICK ds : /\ ds = Append(cs, p) /\ Len(ds) = Len(cs) + 1 /\ ds[Len(cs) + 1] = p
                /\ Linked(ds) /\ \A i \in 1..Len(cs) : ds[i] = cs[i]
  <2>1. Longer(Append(cs, p), cs, p)
    BY LinkedAppend
  <2> QED  BY <2>1 DEF Longer
<1>2. Len(cs) \in Nat
  BY DEF Linked, Chunks
<1>3. First(c) = End(ds[Len(ds)]) + 1
  BY <1>1
<1>4. PICK es : /\ es = Append(ds, c) /\ Len(es) = Len(ds) + 1 /\ es[Len(ds) + 1] = c
                /\ \A i \in 1..Len(ds) : es[i] = ds[i]
  <2>1. ds # <<>> => First(c) = End(ds[Len(ds)]) + 1
    BY <1>3
  <2>2. Longer(Append(ds, c), ds, c)
    BY <1>1, <2>1, LinkedAppend
  <2> QED  BY <2>2 DEF Longer
<1>5. Large(es[Len(es)])
  BY <1>4
<1>6. ASSUME NEW i \in 3..Len(es) PROVE Large(es[i - 1]) \/ Large(es[i])
  <2>1. CASE i = Len(ds) + 1
    BY <1>4, <2>1
  <2>2. CASE i = Len(cs) + 1
    <3>1. i - 1 = Len(cs) /\ Len(cs) >= 2 /\ Len(cs) \in 1..Len(cs) /\ Len(cs) \in 1..Len(ds)
      BY <1>1, <1>2, <2>2
    <3>2. es[i - 1] = cs[Len(cs)]
      BY <1>1, <1>4, <3>1
    <3>3. Large(cs[Len(cs)])
      BY <3>1 DEF Spaced
    <3> QED  BY <3>2, <3>3
  <2>3. CASE i # Len(ds) + 1 /\ i # Len(cs) + 1
    <3>1. /\ i \in 3..Len(cs) /\ i \in 1..Len(cs) /\ i - 1 \in 1..Len(cs)
          /\ i \in 1..Len(ds) /\ i - 1 \in 1..Len(ds)
      BY <1>1, <1>2, <1>4, <2>3
    <3>2. es[i] = cs[i] /\ es[i - 1] = cs[i - 1]
      BY <1>1, <1>4, <3>1
    <3>3. Large(cs[i - 1]) \/ Large(cs[i])
      BY <3>1 DEF Spaced
    <3> QED  BY <3>2, <3>3
  <2> QED  BY <2>1, <2>2, <2>3
<1> QED  BY <1>1, <1>4, <1>5, <1>6 DEF Spaced

\* A sealed buffer holds what it held.
Sealed(c, b, w) ==
  /\ Holds(c, w) /\ c.pending = <<>> /\ c.size = b.size /\ c.dropped = b.dropped
  /\ c.chunks = IF b.pending = <<>> THEN b.chunks ELSE Append(b.chunks, b.pending)
  /\ b.pending # <<>> => /\ IsStretch(b.pending)
                         /\ First(b.pending) = w - Len(b.pending) + 1
                         /\ End(b.pending) = w

LEMMA SealHolds ==
  ASSUME NEW w \in Int, NEW b, Holds(b, w)
  PROVE  Sealed(Seal(b), b, w)
<1>1. /\ b \in Buffers /\ Linked(b.chunks) /\ b.head \in Nat /\ b.size \in Nat
      /\ Len(b.pending) \in Nat /\ Len(b.chunks) \in Nat /\ b.dropped \in Nat
      /\ b.pending \in Bytes
  BY BufferTypes DEF Holds
<1>2. CASE b.pending = <<>>
  BY <1>2 DEF Seal, Sealed
<1>3. CASE b.pending # <<>>
  <2>1. PICK k \in Nat, a \in Int : k = Len(b.pending) /\ a = w - k /\ k # 0
    BY <1>1, <1>3, EmptySeq DEF Bytes
  <2>2. b.pending = Stretch(a, k)
    BY <2>1 DEF Holds
  <2>3. IsStretch(b.pending) /\ First(b.pending) = a + 1 /\ End(b.pending) = a + k
    BY <2>1, <2>2, DataStretch
  <2>4. First(b.pending) = w - k + 1 /\ End(b.pending) = w
    BY <2>1, <2>3
  <2>5. b.chunks # <<>> => /\ First(b.chunks[1]) = w - b.size - b.head + 1
                           /\ End(b.chunks[Len(b.chunks)]) = w - k
                           /\ b.head < Len(b.chunks[1])
    BY <2>1 DEF Holds
  <2>6. b.chunks # <<>> => First(b.pending) = End(b.chunks[Len(b.chunks)]) + 1
    BY <2>4, <2>5
  <2>7. PICK ds :
          /\ ds = Append(b.chunks, b.pending) /\ Linked(ds) /\ ds # <<>>
          /\ Len(ds) = Len(b.chunks) + 1 /\ ds[Len(b.chunks) + 1] = b.pending
          /\ \A i \in 1..Len(b.chunks) : ds[i] = b.chunks[i]
    <3>1. Longer(Append(b.chunks, b.pending), b.chunks, b.pending)
      BY <1>1, <2>3, <2>6, LinkedAppend
    <3> QED  BY <3>1 DEF Longer
  <2>8. PICK q \in Bytes : q = <<>> /\ Len(q) = 0 /\ q = Stretch(w - 0, 0)
    <3>1. <<>> \in Bytes
      BY EmptySeq DEF Bytes
    <3>2. <<>> = Stretch(w - 0, 0)
      BY DEF Stretch
    <3> QED  BY <3>1, <3>2
  <2>9. PICK e : e = Seal(b)
    OBVIOUS
  <2>10. /\ e = [b EXCEPT !.chunks = Append(@, b.pending), !.pending = <<>>]
    BY <1>3, <2>9 DEF Seal
  <2>11. ds \in Chunks
    BY <2>7 DEF Linked
  <2>12. /\ e \in Buffers /\ e.chunks = ds /\ e.pending = q /\ e.head = b.head
         /\ e.size = b.size /\ e.dropped = b.dropped
    BY <1>1, <2>7, <2>8, <2>10, <2>11 DEF Buffers
  <2>13. /\ First(ds[1]) = w - b.size - b.head + 1 /\ b.head < Len(ds[1])
    <3>1. CASE b.chunks = <<>>
      <4>1. ds[1] = b.pending /\ b.head = 0 /\ b.size = k
        BY <2>1, <2>7, <3>1 DEF Holds
      <4> QED  BY <2>1, <2>4, <4>1
    <3>2. CASE b.chunks # <<>>
      <4>1. 1 \in 1..Len(b.chunks)
        BY <1>1, <3>2, EmptySeq DEF Linked, Chunks
      <4> QED  BY <2>5, <2>7, <3>2, <4>1
    <3> QED  BY <3>1, <3>2
  <2>14. End(ds[Len(ds)]) = w - Len(q)
    BY <2>4, <2>7, <2>8
  <2>15. Holds(e, w)
    BY <2>7, <2>8, <2>12, <2>13, <2>14 DEF Holds
  <2> QED  BY <1>3, <2>1, <2>3, <2>4, <2>7, <2>8, <2>9, <2>12, <2>15 DEF Sealed
<1> QED  BY <1>2, <1>3
-----------------------------------------------------------------------------
(* What a write of n bytes leaves behind: a buffer that holds the longer        *)
(* stream, accounts for every byte and is not far beyond its limit              *)
Kept(n) == n - Overflow(n)
Accounts(e, n, d) == Kept(e.size) = Kept(n) /\ e.dropped + Overflow(e.size) = d + Overflow(n)
Tidy(b) == /\ Spaced(b.chunks) /\ Len(b.pending) < coalesceSize
           /\ maxsize # None => b.size <= maxsize + Len(b.pending)
Grown(e, b, w, n) == Holds(e, w + n) /\ Tidy(e) /\ Accounts(e, b.size + n, b.dropped)

\* An eviction of a buffer that holds the stream already, with little pending
LEMMA EvictGrows ==
  ASSUME maxsize \in (Nat \ {0}) \cup {None}, NEW v \in Int, NEW c, Holds(c, v),
         Spaced(c.chunks), Len(c.pending) < coalesceSize, coalesceSize \in Nat
  PROVE  Holds(Evict(c), v) /\ Tidy(Evict(c)) /\ Accounts(Evict(c), c.size, c.dropped)
<1>1. PICK e : e = Evict(c)
  OBVIOUS
<1>2. Holds(e, v) /\ Spaced(e.chunks) /\ Evicted(c, e)
  BY <1>1, EvictHolds
<1>3. /\ e.size \in Nat /\ e.dropped \in Nat /\ Len(e.pending) \in Nat
      /\ c.size \in Nat /\ c.dropped \in Nat /\ Len(c.pending) \in Nat
  BY <1>2, BufferTypes DEF Holds
<1>4. PICK n \in Nat, x \in Nat : /\ n = c.size /\ x = Overflow(c.size) /\ x <= n
                                  /\ maxsize # None => n - x <= maxsize
  <2>1. Overflow(c.size) \in 0..c.size
    BY <1>3, OverflowIs
  <2>2. maxsize # None => c.size - Overflow(c.size) <= maxsize
    BY <1>3, OverflowIs
  <2> QED  BY <1>3, <2>1, <2>2
<1>5. PICK m \in Nat : m = n - x
  BY <1>4
<1>6. e.size = m /\ e.dropped = c.dropped + x /\ Len(e.pending) < coalesceSize
  BY <1>2, <1>3, <1>4, <1>5 DEF Evicted
<1>7. Overflow(m) = 0
  BY <1>4, <1>5, BufferAssumption DEF Overflow
<1>8. Kept(e.size) = Kept(c.size)
  BY <1>4, <1>5, <1>6, <1>7 DEF Kept
<1>9. e.dropped + Overflow(e.size) = c.dropped + Overflow(c.size)
  BY <1>3, <1>4, <1>6, <1>7
<1>10. maxsize # None => e.size <= maxsize + Len(e.pending)
  <2> SUFFICES ASSUME maxsize # None PROVE e.size <= maxsize + Len(e.pending)
    OBVIOUS
  <2>1. maxsize \in Nat /\ m <= maxsize
    BY <1>4, <1>5
  <2> QED  BY <1>3, <1>6, <2>1
<1> QED  BY <1>1, <1>2, <1>6, <1>8, <1>9, <1>10 DEF Tidy, Accounts

LEMMA ReplacedHolds ==
  ASSUME maxsize \in Nat \ {0}, coalesceSize \in Nat \ {0}, NEW w \in Nat, NEW b, Holds(b, w),
         NEW n \in Nat, n >= maxsize, NEW data, data = Stretch(w, n)
  PROVE  Grown(Replaced(b, data), b, w, n)
<1>v. PICK v \in Int : v = w + n
  OBVIOUS
<1>1. /\ b \in Buffers /\ b.size \in Nat /\ b.dropped \in Nat
  BY BufferTypes DEF Holds
<1>2. PICK m \in Nat \ {0} : m = maxsize
  OBVIOUS
<1>3. PICK h \in Nat : h = n - m
  BY <1>2
<1>4. IsStretch(data) /\ Len(data) = n /\ First(data) = w + 1 /\ End(data) = v
  <2>1. n # 0
    BY <1>2
  <2> QED  BY <1>v, <2>1, DataStretch
<1>5. PICK c : /\ c = Drop(data, h) /\ IsStretch(c) /\ First(c) = w + 1 + h
               /\ Len(c) = n - h /\ End(c) = v
  <2>1. h < Len(data)
    BY <1>2, <1>3, <1>4
  <2>2. IsStretch(Drop(data, h))
    BY <1>4, <2>1, StretchDrop
  <2>3. First(Drop(data, h)) = First(data) + h
    BY <1>4, <2>1, StretchDrop
  <2>4. Len(Drop(data, h)) = Len(data) - h
    BY <1>4, <2>1, StretchDrop
  <2>5. End(Drop(data, h)) = End(data)
    BY <1>4, <2>1, StretchDrop
  <2> QED  BY <1>4, <2>2, <2>3, <2>4, <2>5
<1>6. Len(c) = m /\ First(c) = v - m + 1
  BY <1>v, <1>2, <1>3, <1>5
<1>7. PICK cs \in Chunks : cs = <<c>> /\ Linked(cs) /\ cs # <<>> /\ Len(cs) = 1 /\ cs[1] = c
  <2>1. Linked(<<>>) /\ <<>> \in Chunks /\ Len(<<>>) = 0
    BY EmptySeq DEF Linked, Chunks
  <2>2. Longer(Append(<<>>, c), <<>>, c)
    BY <1>5, <2>1, LinkedAppend
  <2>3. Append(<<>>, c) = <<c>>
    BY <1>5, AppendIsConcat, ConcatEmptySeq DEF Chunks
  <2>4. <<c>> \in Chunks /\ Len(<<c>>) = 1 /\ <<c>>[1] = c /\ <<c>> # <<>>
    BY <1>5 DEF Chunks, IsStretch
  <2> QED  BY <2>2, <2>3, <2>4 DEF Longer
<1>8. PICK q \in Bytes : q = <<>> /\ Len(q) = 0 /\ q = Stretch(v - 0, 0)
  <2>1. <<>> \in Bytes
    BY EmptySeq DEF Bytes
  <2>2. <<>> = Stretch(v - 0, 0)
    BY DEF Stretch
  <2> QED  BY <2>1, <2>2
<1>9. PICK z \in Nat : z = b.dropped + b.size + Len(data) - maxsize
  BY <1>1, <1>2, <1>4
<1>10. PICK e : e = Replaced(b, data)
  OBVIOUS
<1>11. e = [chunks |-> cs, head |-> 0, pending |-> q, size |-> m, dropped |-> z]
  BY <1>2, <1>3, <1>4, <1>5, <1>7, <1>8, <1>9, <1>10 DEF Replaced
<1>12. /\ e \in Buffers /\ e.chunks = cs /\ e.head = 0 /\ e.pending = q
       /\ e.size = m /\ e.dropped = z
  BY <1>11, BufferMade
<1>13. Holds(e, v)
  <2>1. e.pending = Stretch(v - Len(e.pending), Len(e.pending))
    BY <1>8, <1>12
  <2>2. /\ First(e.chunks[1]) = v - e.size - e.head + 1
        /\ End(e.chunks[Len(e.chunks)]) = v - Len(e.pending)
        /\ e.head < Len(e.chunks[1])
    BY <1>5, <1>6, <1>7, <1>8, <1>12
  <2>3. Linked(e.chunks) /\ e.chunks # <<>>
    BY <1>7, <1>12
  <2>4. e \in Buffers
    BY <1>12
  <2> QED  BY <2>1, <2>2, <2>3, <2>4, HoldsMade
<1>14. Tidy(e)
  <2>1. Spaced(e.chunks)
    BY <1>7, <1>12 DEF Spaced
  <2> QED  BY <1>2, <1>8, <1>12, <2>1 DEF Tidy
<1>15. Accounts(e, b.size + n, b.dropped)
  <2>2. Overflow(b.size + n) = b.size + n - m /\ Overflow(m) = 0
    BY <1>1, <1>2, BufferAssumption DEF Overflow
  <2>3. Kept(b.size + n) = m /\ Kept(e.size) = m
    BY <1>1, <1>2, <1>12, <2>2 DEF Kept
  <2>4. z = b.dropped + Overflow(b.size + n)
    BY <1>1, <1>2, <1>4, <1>9, <2>2
  <2> QED  BY <1>12, <2>2, <2>3, <2>4 DEF Accounts
<1> QED  BY <1>v, <1>10, <1>13, <1>14, <1>15 DEF Grown

LEMMA ChunkedHolds ==
  ASSUME maxsize \in (Nat \ {0}) \cup {None}, coalesceSize \in Nat \ {0},
         NEW w \in Nat, NEW b, Holds(b, w), Spaced(b.chunks),
         NEW n \in Nat, n # 0, n >= coalesceSize, NEW data, data = Stretch(w, n)
  PROVE  Grown(Chunked(b, data), b, w, n)
<1>v. PICK v \in Int : v = w + n
  OBVIOUS
<1>1. /\ b \in Buffers /\ b.size \in Nat /\ b.dropped \in Nat /\ b.pending \in Bytes
      /\ b.head \in Nat /\ Len(b.pending) \in Nat /\ Linked(b.chunks)
  BY BufferTypes DEF Holds
<1>2. PICK c : /\ c = Seal(b) /\ Holds(c, w) /\ c.pending = <<>> /\ c.size = b.size
               /\ c.dropped = b.dropped
               /\ c.chunks = IF b.pending = <<>> THEN b.chunks ELSE Append(b.chunks, b.pending)
  <2>1. Sealed(Seal(b), b, w)
    BY SealHolds
  <2> QED  BY <2>1 DEF Sealed
<1>3. /\ IsStretch(data) /\ Len(data) = n /\ First(data) = w + 1 /\ End(data) = v
      /\ data \in Bytes
  BY <1>v, DataStretch
<1>4. /\ c \in Buffers /\ Linked(c.chunks) /\ c.head \in Nat /\ Len(c.chunks) \in Nat
      /\ c.chunks \in Chunks
  BY <1>2, BufferTypes DEF Holds
<1>5. /\ c.chunks # <<>> => /\ First(c.chunks[1]) = w - b.size - c.head + 1
                            /\ End(c.chunks[Len(c.chunks)]) = w
                            /\ c.head < Len(c.chunks[1])
      /\ c.chunks = <<>> => c.head = 0 /\ b.size = 0
  <2>1. Len(c.pending) = 0
    BY <1>2
  <2> QED  BY <1>2, <2>1 DEF Holds
<1>6. PICK ds : ds = Append(c.chunks, data) /\ Longer(ds, c.chunks, data)
  BY <1>3, <1>4, <1>5, LinkedAppend
<1>7. /\ Linked(ds) /\ ds # <<>> /\ Len(ds) = Len(c.chunks) + 1 /\ ds[Len(ds)] = data
      /\ ds \in Chunks /\ \A i \in 1..Len(c.chunks) : ds[i] = c.chunks[i]
  BY <1>6 DEF Longer, Linked
<1>8. PICK e : e = [Seal([b EXCEPT !.size = @ + Len(data)]) EXCEPT !.chunks = Append(@, data)]
  OBVIOUS
<1>9. PICK q \in Bytes : q = <<>> /\ Len(q) = 0 /\ q = Stretch(v - 0, 0)
  <2>1. <<>> \in Bytes
    BY EmptySeq DEF Bytes
  <2>2. <<>> = Stretch(v - 0, 0)
    BY DEF Stretch
  <2> QED  BY <2>1, <2>2
<1>10. PICK z \in Nat : z = b.size + n
  BY <1>1
<1>11. e = [c EXCEPT !.size = z, !.chunks = ds]
  <2>1. PICK g : g = [b EXCEPT !.size = @ + Len(data)]
    OBVIOUS
  <2>2. /\ g \in Buffers /\ g.size = z /\ g.pending = b.pending /\ g.chunks = b.chunks
        /\ g.head = b.head /\ g.dropped = b.dropped
    BY <1>1, <1>3, <1>10, <2>1 DEF Buffers
  <2>3. CASE b.pending = <<>>
    <3>1. Seal(g) = g /\ c = b
      BY <1>2, <2>2, <2>3 DEF Seal
    <3> QED  BY <1>1, <1>6, <1>8, <1>10, <1>3, <2>1, <3>1 DEF Buffers
  <2>4. CASE b.pending # <<>>
    <3>1. /\ Seal(g) = [g EXCEPT !.chunks = Append(@, g.pending), !.pending = <<>>]
          /\ c = [b EXCEPT !.chunks = Append(@, b.pending), !.pending = <<>>]
      BY <1>2, <2>2, <2>4 DEF Seal
    <3> QED  BY <1>1, <1>6, <1>8, <1>10, <1>3, <2>1, <2>2, <3>1 DEF Buffers
  <2> QED  BY <2>3, <2>4
<1>12. /\ e \in Buffers /\ e.chunks = ds /\ e.pending = q /\ e.head = c.head
       /\ e.size = z /\ e.dropped = b.dropped
  BY <1>2, <1>4, <1>7, <1>9, <1>11 DEF Buffers
<1>13. First(ds[1]) = v - z - c.head + 1 /\ c.head < Len(ds[1])
  <2>1. CASE c.chunks = <<>>
    <3>1. ds[1] = data /\ c.head = 0 /\ z = n
      BY <1>5, <1>7, <1>10, <2>1
    <3> QED  BY <1>v, <1>3, <3>1
  <2>2. CASE c.chunks # <<>>
    <3>1. 1 \in 1..Len(c.chunks)
      BY <1>4, <2>2, EmptySeq DEF Chunks
    <3>2. ds[1] = c.chunks[1]
      BY <1>7, <3>1
    <3>3. PICK sz \in Nat, hd \in Nat : sz = b.size /\ hd = c.head
      BY <1>1, <1>4
    <3>4. w - sz - hd + 1 = v - z - hd + 1
      BY <1>v, <1>10, <3>3
    <3> QED  BY <1>5, <2>2, <3>2, <3>3, <3>4
  <2> QED  BY <2>1, <2>2
<1>14. Holds(e, v)
  <2>1. e.pending = Stretch(v - Len(e.pending), Len(e.pending))
    BY <1>9, <1>12
  <2>2. /\ First(e.chunks[1]) = v - e.size - e.head + 1
        /\ End(e.chunks[Len(e.chunks)]) = v - Len(e.pending)
        /\ e.head < Len(e.chunks[1])
    <3>1. First(e.chunks[1]) = v - e.size - e.head + 1 /\ e.head < Len(e.chunks[1])
      BY <1>12, <1>13
    <3>2. End(e.chunks[Len(e.chunks)]) = v /\ Len(e.pending) = 0
      BY <1>3, <1>7, <1>9, <1>12
    <3> QED  BY <3>1, <3>2
  <2>3. Linked(e.chunks) /\ e.chunks # <<>>
    BY <1>7, <1>12
  <2>4. e \in Buffers
    BY <1>12
  <2> QED  BY <2>1, <2>2, <2>3, <2>4, HoldsMade
<1>15. Spaced(e.chunks)
  <2>1. Large(data)
    BY <1>3 DEF Large
  <2>2. CASE b.pending = <<>>
    <3>1. c.chunks = b.chunks
      BY <1>2, <2>2
    <3>2. b.chunks # <<>> => First(data) = End(b.chunks[Len(b.chunks)]) + 1
      BY <1>3, <1>5, <3>1
    <3> QED  BY <1>1, <1>3, <1>6, <1>12, <2>1, <3>1, <3>2, SpacedAppend
  <2>3. CASE b.pending # <<>>
    <3>1. /\ c.chunks = Append(b.chunks, b.pending) /\ IsStretch(b.pending)
          /\ First(b.pending) = w - Len(b.pending) + 1 /\ End(b.pending) = w
      <4>1. Sealed(Seal(b), b, w)
        BY SealHolds
      <4> QED  BY <1>2, <2>3, <4>1 DEF Sealed
    <3>2. b.chunks # <<>> => First(b.pending) = End(b.chunks[Len(b.chunks)]) + 1
      BY <3>1 DEF Holds
    <3>3. First(data) = End(b.pending) + 1
      BY <1>3, <3>1
    <3>4. Spaced(Append(Append(b.chunks, b.pending), data))
      BY <1>1, <1>3, <2>1, <3>1, <3>2, <3>3, SpacedAppendBoth
    <3> QED  BY <1>6, <1>12, <3>1, <3>4
  <2> QED  BY <2>2, <2>3
<1>16. Holds(Evict(e), v) /\ Tidy(Evict(e)) /\ Accounts(Evict(e), e.size, e.dropped)
  <2>1. Len(e.pending) < coalesceSize /\ v \in Int /\ coalesceSize \in Nat
    BY <1>9, <1>12
  <2> QED  BY <1>14, <1>15, <2>1, EvictGrows
<1> QED  BY <1>v, <1>8, <1>10, <1>12, <1>16 DEF Grown, Chunked

LEMMA CoalescedHolds ==
  ASSUME maxsize \in (Nat \ {0}) \cup {None}, coalesceSize \in Nat \ {0},
         NEW w \in Nat, NEW b, Holds(b, w), Tidy(b),
         NEW n \in Nat, n # 0, NEW data, data = Stretch(w, n)
  PROVE  Grown(Coalesced(b, data), b, w, n)
<1>1. /\ b \in Buffers /\ b.size \in Nat /\ b.dropped \in Nat /\ b.pending \in Bytes
      /\ b.head \in Nat /\ Len(b.pending) \in Nat /\ Linked(b.chunks) /\ b.chunks \in Chunks
  BY BufferTypes DEF Holds
<1>2. PICK k \in Nat, sz \in Nat, hd \in Nat : k = Len(b.pending) /\ sz = b.size /\ hd = b.head
  BY <1>1
<1>3. data \in Bytes /\ Len(data) = n
  BY DataStretch
<1>4. PICK q \in Bytes : /\ q = b.pending \o data /\ Len(q) = k + n
                         /\ q = Stretch(w + n - (k + n), k + n)
  <2>1. PICK a \in Int : a = w - k
    OBVIOUS
  <2>2. b.pending = Stretch(a, k) /\ data = Stretch(a + k, n)
    BY <1>2, <2>1 DEF Holds
  <2>3. b.pending \o data = Stretch(a, k + n)
    <3>1. Stretch(a, k) \o Stretch(a + k, n) = Stretch(a, k + n)
      BY StretchJoin
    <3> QED  BY <2>2, <3>1
  <2>4. PICK y \in Nat : y = k + n
    OBVIOUS
  <2>5. Stretch(a, y) \in Bytes /\ Len(Stretch(a, y)) = y
    BY StretchFacts
  <2>6. a = w + n - (k + n)
    BY <2>1
  <2> QED  BY <2>3, <2>4, <2>5, <2>6
<1>5. PICK z \in Nat : z = sz + n
  OBVIOUS
<1>6. PICK e : e = [b EXCEPT !.size = @ + Len(data), !.pending = @ \o data]
  OBVIOUS
<1>7. /\ e \in Buffers /\ e.chunks = b.chunks /\ e.pending = q /\ e.head = b.head
      /\ e.size = z /\ e.dropped = b.dropped
  BY <1>1, <1>2, <1>3, <1>4, <1>5, <1>6 DEF Buffers
<1>8. Holds(e, w + n)
  <2>1. e.pending = Stretch(w + n - Len(e.pending), Len(e.pending))
    BY <1>4, <1>7
  <2>2. ASSUME b.chunks # <<>>
        PROVE  /\ First(e.chunks[1]) = w + n - e.size - e.head + 1
               /\ End(e.chunks[Len(e.chunks)]) = w + n - Len(e.pending)
               /\ e.head < Len(e.chunks[1])
    <3>1. /\ First(b.chunks[1]) = w - sz - hd + 1
          /\ End(b.chunks[Len(b.chunks)]) = w - k
          /\ b.head < Len(b.chunks[1])
      BY <1>2, <2>2 DEF Holds
    <3>2. w - sz - hd + 1 = w + n - z - hd + 1 /\ w - k = w + n - (k + n)
      BY <1>5
    <3> QED  BY <1>2, <1>4, <1>7, <3>1, <3>2
  <2>3. b.chunks = <<>> => e.head = 0 /\ e.size = Len(e.pending)
    <3>1. b.chunks = <<>> => b.head = 0 /\ sz = k
      BY <1>2 DEF Holds
    <3> QED  BY <1>4, <1>5, <1>7, <3>1
  <2> QED  BY <1>1, <1>7, <2>1, <2>2, <2>3 DEF Holds
<1>9. Spaced(b.chunks) /\ k < coalesceSize /\ (maxsize # None => sz <= maxsize + k)
  BY <1>2 DEF Tidy
<1>10. CASE k + n >= coalesceSize
  <2>1. Coalesced(b, data) = Evict(Seal(e))
    BY <1>4, <1>6, <1>7, <1>10 DEF Coalesced
  <2>2. PICK c : c = Seal(e) /\ Sealed(c, e, w + n)
    <3>1. w + n \in Int
      OBVIOUS
    <3>2. Sealed(Seal(e), e, w + n)
      BY <1>8, <3>1, SealHolds
    <3> QED  BY <3>2
  <2>3. q # <<>>
    BY <1>4
  <2>4. c.chunks = Append(b.chunks, q) /\ IsStretch(q) /\ First(q) = w + n - Len(q) + 1
    BY <1>7, <2>2, <2>3 DEF Sealed
  <2>5. b.chunks # <<>> => First(q) = End(b.chunks[Len(b.chunks)]) + 1
    <3>1. b.chunks # <<>> => End(b.chunks[Len(b.chunks)]) = w - k
      BY <1>2 DEF Holds
    <3> QED  BY <1>4, <2>4, <3>1
  <2>6. Large(q)
    BY <1>4, <1>10 DEF Large
  <2>7. Spaced(c.chunks)
    BY <1>1, <1>9, <2>4, <2>5, <2>6, SpacedAppend
  <2>8. Len(c.pending) < coalesceSize /\ w + n \in Int /\ coalesceSize \in Nat
    BY <2>2, EmptySeq DEF Sealed
  <2>9. Holds(Evict(c), w + n) /\ Tidy(Evict(c)) /\ Accounts(Evict(c), c.size, c.dropped)
    BY <2>2, <2>7, <2>8, EvictGrows DEF Sealed
  <2> QED  BY <1>2, <1>5, <1>7, <2>1, <2>2, <2>9 DEF Grown, Sealed
<1>11. CASE ~(k + n >= coalesceSize)
  <2>1. Coalesced(b, data) = e
    BY <1>4, <1>6, <1>7, <1>11 DEF Coalesced
  <2>2. Tidy(e)
    <3>1. maxsize # None => z <= maxsize + (k + n)
      <4> SUFFICES ASSUME maxsize # None PROVE z <= maxsize + (k + n)
        OBVIOUS
      <4>1. maxsize \in Nat
        OBVIOUS
      <4> QED  BY <1>5, <1>9, <4>1
    <3>2. Len(e.pending) < coalesceSize
      BY <1>4, <1>7, <1>11
    <3> QED  BY <1>4, <1>7, <1>9, <3>1, <3>2 DEF Tidy
  <2>3. Accounts(e, z, b.dropped)
    BY <1>7 DEF Accounts
  <2> QED  BY <1>2, <1>5, <1>8, <2>1, <2>2, <2>3 DEF Grown
<1> QED  BY <1>10, <1>11
-----------------------------------------------------------------------------
(* __bytes__() cuts the head chunk; what it returns is what is held.            *)
Cut(g, e, w) == Holds(g, w) /\ g.size = e.size /\ g.dropped = e.dropped /\ g.pending = e.pending
                /\ g.head = 0 /\ (Spaced(e.chunks) => Spaced(g.chunks))

LEMMA SlicedHolds ==
  ASSUME NEW w \in Int, NEW e, Holds(e, w)
  PROVE  Cut(Sliced(e), e, w)
<1>1. /\ e \in Buffers /\ Linked(e.chunks) /\ e.head \in Nat /\ e.size \in Nat
      /\ Len(e.chunks) \in Nat
  BY BufferTypes DEF Holds
<1>2. CASE e.head = 0
  <2>1. Sliced(e) = e
    BY <1>2 DEF Sliced
  <2> QED  BY <1>2, <2>1 DEF Cut
<1>3. CASE e.head # 0
  <2>1. /\ e.chunks # <<>> /\ First(e.chunks[1]) = w - e.size - e.head + 1
        /\ End(e.chunks[Len(e.chunks)]) = w - Len(e.pending)
        /\ e.head < Len(e.chunks[1])
        /\ e.pending = Stretch(w - Len(e.pending), Len(e.pending))
    BY <1>3 DEF Holds
  <2>2. PICK ds : /\ ds = [e.chunks EXCEPT ![1] = Drop(@, e.head)]
                  /\ Linked(ds) /\ ds # <<>> /\ Len(ds) = Len(e.chunks)
                  /\ First(ds[1]) = First(e.chunks[1]) + e.head
                  /\ Len(ds[1]) = Len(e.chunks[1]) - e.head
                  /\ End(ds[Len(e.chunks)]) = End(e.chunks[Len(e.chunks)])
                  /\ \A i \in 2..Len(e.chunks) : ds[i] = e.chunks[i]
    <3>1. Shorter([e.chunks EXCEPT ![1] = Drop(@, e.head)], e.chunks, e.head)
      BY <1>1, <2>1, LinkedCut
    <3> QED  BY <3>1 DEF Shorter
  <2>3. PICK g : g = Sliced(e)
    OBVIOUS
  <2>4. g = [e EXCEPT !.chunks = ds, !.head = 0]
    <3>1. g = [e EXCEPT !.chunks[1] = Drop(@, e.head), !.head = 0]
      BY <1>3, <2>3 DEF Sliced
    <3> QED  BY <1>1, <2>2, <3>1 DEF Buffers
  <2>5. ds \in Chunks
    BY <2>2 DEF Linked
  <2>6. /\ g \in Buffers /\ g.chunks = ds /\ g.head = 0 /\ g.pending = e.pending
        /\ g.size = e.size /\ g.dropped = e.dropped
    BY <1>1, <2>4, <2>5 DEF Buffers
  <2>7. PICK sz \in Nat, hd \in Nat : sz = e.size /\ hd = e.head
    BY <1>1
  <2>8. First(ds[1]) = w - sz - 0 + 1
    <3>1. w - sz - hd + 1 + hd = w - sz - 0 + 1
      OBVIOUS
    <3> QED  BY <2>1, <2>2, <2>7, <3>1
  <2>9. 0 < Len(ds[1])
    <3>1. 1 \in 1..Len(e.chunks)
      BY <1>1, <2>1, EmptySeq DEF Linked, Chunks
    <3>2. Len(e.chunks[1]) \in Nat
      BY <1>1, <3>1, StretchIs DEF Linked
    <3> QED  BY <1>1, <2>1, <2>2, <3>2
  <2>10. Holds(g, w)
    <3>1. g.pending = Stretch(w - Len(g.pending), Len(g.pending))
      BY <2>1, <2>6
    <3>2. First(g.chunks[1]) = w - g.size - g.head + 1 /\ g.head < Len(g.chunks[1])
      BY <2>6, <2>7, <2>8, <2>9
    <3>3. End(g.chunks[Len(g.chunks)]) = w - Len(g.pending)
      BY <2>1, <2>2, <2>6
    <3>4. g \in Buffers /\ Linked(g.chunks) /\ g.chunks # <<>>
      BY <2>2, <2>6
    <3> QED  BY <3>1, <3>2, <3>3, <3>4, HoldsMade
  <2>11. ASSUME Spaced(e.chunks) PROVE Spaced(ds)
    <3>1. ASSUME Len(ds) >= 2 PROVE Large(ds[Len(ds)])
      <4>1. Len(ds) \in 2..Len(e.chunks)
        BY <1>1, <2>2, <3>1
      <4>2. ds[Len(ds)] = e.chunks[Len(e.chunks)]
        BY <2>2, <4>1
      <4> QED  BY <2>2, <2>11, <3>1, <4>2 DEF Spaced
    <3>2. ASSUME NEW i \in 3..Len(ds) PROVE Large(ds[i - 1]) \/ Large(ds[i])
      <4>1. i \in 2..Len(e.chunks) /\ i - 1 \in 2..Len(e.chunks) /\ i \in 3..Len(e.chunks)
        BY <1>1, <2>2
      <4>2. ds[i] = e.chunks[i] /\ ds[i - 1] = e.chunks[i - 1]
        BY <2>2, <4>1
      <4>3. Large(e.chunks[i - 1]) \/ Large(e.chunks[i])
        BY <2>11, <4>1 DEF Spaced
      <4> QED  BY <4>2, <4>3
    <3> QED  BY <3>1, <3>2 DEF Spaced
  <2> QED  BY <2>3, <2>6, <2>10, <2>11 DEF Cut
<1> QED  BY <1>2, <1>3

LEMMA ContentsOf ==
  ASSUME NEW w \in Int, NEW g, Holds(g, w), g.head = 0
  PROVE  FlattenSeq(Append(g.chunks, g.pending)) = Stretch(w - g.size, g.size)
<1>1. /\ g \in Buffers /\ Linked(g.chunks) /\ Len(g.pending) \in Nat /\ g.size \in Nat
  BY BufferTypes DEF Holds
<1>2. PICK k \in Nat, sz \in Nat : k = Len(g.pending) /\ sz = g.size
  BY <1>1
<1>3. /\ g.pending = Stretch(w - k, k)
      /\ g.chunks # <<>> => /\ End(g.chunks[Len(g.chunks)]) = w - k
                            /\ First(g.chunks[1]) = w - sz - 0 + 1
      /\ g.chunks = <<>> => sz = k
  BY <1>2 DEF Holds
<1>4. PICK n \in Nat : /\ n = IF g.chunks = <<>> THEN k ELSE w - First(g.chunks[1]) + 1
                       /\ FlattenSeq(Append(g.chunks, g.pending)) = Stretch(w - n, n)
  <2>1. FlatWith(g.chunks, g.pending, k, w)
    BY <1>1, <1>3, LinkedFlatPending
  <2> QED  BY <2>1 DEF FlatWith
<1>5. n = sz
  <2>1. w - (w - sz - 0 + 1) + 1 = sz
    OBVIOUS
  <2> QED  BY <1>3, <1>4, <2>1
<1> QED  BY <1>2, <1>4, <1>5

LEMMA KeptIs ==
  ASSUME maxsize \in (Nat \ {0}) \cup {None}, NEW n \in Nat
  PROVE  Kept(n) \in Nat /\ Kept(n) = IF maxsize = None \/ n <= maxsize THEN n ELSE maxsize
BY BufferAssumption DEF Kept, Overflow

\* Once cut to the limit, a tail that grows by n bytes ends as if it had never been cut.
LEMMA KeptTwice ==
  ASSUME maxsize \in (Nat \ {0}) \cup {None}, NEW m \in Nat, NEW n \in Nat
  PROVE  Kept(Kept(m) + n) = Kept(m + n)
<1>1. CASE maxsize = None
  BY <1>1, KeptIs
<1>2. CASE maxsize # None
  <2>1. PICK x \in Nat : x = maxsize
    BY <1>2
  <2>2. PICK y \in Nat : y = Kept(m) /\ y = IF m <= x THEN m ELSE x
    BY <1>2, <2>1, KeptIs
  <2>3. PICK u \in Nat, v \in Nat : u = y + n /\ v = m + n
    OBVIOUS
  <2>4. /\ Kept(u) = IF u <= x THEN u ELSE x
        /\ Kept(v) = IF v <= x THEN v ELSE x
    BY <1>2, <2>1, KeptIs
  <2> QED  BY <2>2, <2>3, <2>4
<1> QED  BY <1>1, <1>2

\* What RetainedTail keeps of a stretch
LEMMA NewestIs ==
  ASSUME maxsize \in (Nat \ {0}) \cup {None}, NEW a \in Int, NEW n \in Nat
  PROVE  Promise!Newest(Stretch(a, n)) = Stretch(a + n - Kept(n), Kept(n))
<1>1. PICK s \in Bytes : s = Stretch(a, n) /\ Len(s) = n
  BY StretchFacts
<1>2. PICK k \in Nat : k = Kept(n) /\ k = IF maxsize = None \/ n <= maxsize THEN n ELSE maxsize
  BY KeptIs
<1>3. CASE maxsize = None \/ n <= maxsize
  <2>1. Promise!Newest(s) = s
    BY <1>1, <1>3 DEF Promise!Newest
  <2>2. k = n /\ a + n - k = a
    BY <1>2, <1>3
  <2> QED  BY <1>1, <1>2, <2>1, <2>2
<1>4. CASE ~(maxsize = None \/ n <= maxsize)
  <2>1. k = maxsize /\ k <= n
    BY <1>2, <1>4
  <2>2. Promise!Newest(s) = SubSeq(s, n - k + 1, Len(s))
    BY <1>1, <1>4, <2>1 DEF Promise!Newest
  <2>3. PICK h \in 0..n : h = n - k
    BY <2>1
  <2>4. Promise!Newest(s) = Drop(s, h)
    BY <2>2, <2>3 DEF Drop
  <2>5. Drop(s, h) = Stretch(a + h, n - h)
    BY <1>1, PendingDrop
  <2>6. a + h = a + n - k /\ n - h = k
    BY <2>1, <2>3
  <2> QED  BY <1>1, <1>2, <2>4, <2>5, <2>6
<1> QED  BY <1>3, <1>4
-----------------------------------------------------------------------------
(* The inductive invariant: the buffer holds the newest bytes of what has been  *)
(* written, and is not far beyond its limit.                                    *)
IInv == /\ maxsize \in Limits /\ coalesceSize \in CoalesceSizes /\ written \in Nat
        /\ Holds(Buffer, written) /\ Tidy(Buffer)

LEMMA Parameters ==
  ASSUME IInv
  PROVE  maxsize \in (Nat \ {0}) \cup {None} /\ coalesceSize \in Nat \ {0}
BY BufferAssumption DEF IInv

LEMMA BufferIs ==
  /\ Buffer.chunks = chunks /\ Buffer.head = headOffset /\ Buffer.pending = pending
  /\ Buffer.size = size /\ Buffer.dropped = dropped
BY DEF Buffer

LEMMA BecomesIs ==
  ASSUME NEW e \in Buffers, Becomes(e)
  PROVE  Buffer' = e /\ UNCHANGED <<maxsize, coalesceSize>>
BY DEF Becomes, Buffer, Buffers

\* The buffer of __init__() and of clear()
LEMMA EmptyHolds ==
  ASSUME NEW w \in Nat, NEW d \in Nat, coalesceSize \in Nat \ {0},
         maxsize \in (Nat \ {0}) \cup {None}, NEW e,
         e = [chunks |-> <<>>, head |-> 0, pending |-> <<>>, size |-> 0, dropped |-> d]
  PROVE  Holds(e, w) /\ Tidy(e) /\ e \in Buffers /\ e.size = 0 /\ e.dropped = d
<1>1. PICK cs \in Chunks, q \in Bytes :
        /\ cs = <<>> /\ Linked(cs) /\ Spaced(cs) /\ q = <<>> /\ Len(q) = 0
        /\ q = Stretch(w - 0, 0)
  <2>1. Linked(<<>>) /\ Spaced(<<>>) /\ <<>> \in Chunks /\ <<>> \in Bytes
    BY EmptySeq DEF Linked, Spaced, Chunks, Bytes
  <2>2. <<>> = Stretch(w - 0, 0)
    BY DEF Stretch
  <2> QED  BY <2>1, <2>2
<1>2. PICK z \in Nat : z = 0
  OBVIOUS
<1>3. e = [chunks |-> cs, head |-> z, pending |-> q, size |-> z, dropped |-> d]
  BY <1>1, <1>2
<1>4. /\ e \in Buffers /\ e.chunks = cs /\ e.head = z /\ e.pending = q /\ e.size = z
      /\ e.dropped = d
  BY <1>3, BufferMade
<1>5. Holds(e, w)
  BY <1>1, <1>2, <1>4 DEF Holds
<1>6. Tidy(e)
  BY <1>1, <1>2, <1>4 DEF Tidy
<1> QED  BY <1>2, <1>4, <1>5, <1>6

\* One write
LEMMA WriteGrows ==
  ASSUME IInv, NEW n \in Nat \ {0}, NEW data, data = Stretch(written, n)
  PROVE  Grown(Extended(Buffer, data), Buffer, written, n)
<1>1. maxsize \in (Nat \ {0}) \cup {None} /\ coalesceSize \in Nat \ {0}
  BY Parameters
<1>2. written \in Nat /\ Holds(Buffer, written) /\ Tidy(Buffer) /\ Spaced(Buffer.chunks)
  BY DEF IInv, Tidy
<1>3. Len(data) = n
  BY <1>2, StretchFacts
<1>4. CASE maxsize # None /\ n >= maxsize
  <2>1. Extended(Buffer, data) = Replaced(Buffer, data)
    BY <1>1, <1>3, <1>4 DEF Extended
  <2>2. maxsize \in Nat \ {0}
    BY <1>1, <1>4
  <2>3. Grown(Replaced(Buffer, data), Buffer, written, n)
    BY <1>1, <1>2, <1>4, <2>2, ReplacedHolds
  <2> QED  BY <2>1, <2>3
<1>5. CASE ~(maxsize # None /\ n >= maxsize) /\ n >= coalesceSize
  <2>1. Extended(Buffer, data) = Chunked(Buffer, data)
    BY <1>1, <1>3, <1>5 DEF Extended
  <2>2. Grown(Chunked(Buffer, data), Buffer, written, n)
    BY <1>1, <1>2, <1>5, ChunkedHolds
  <2> QED  BY <2>1, <2>2
<1>6. CASE ~(maxsize # None /\ n >= maxsize) /\ ~(n >= coalesceSize)
  <2>1. Extended(Buffer, data) = Coalesced(Buffer, data)
    BY <1>1, <1>3, <1>6 DEF Extended
  <2>2. Grown(Coalesced(Buffer, data), Buffer, written, n)
    BY <1>1, <1>2, CoalescedHolds
  <2> QED  BY <2>1, <2>2
<1> QED  BY <1>4, <1>5, <1>6

\* One read
LEMMA ReadKeeps ==
  ASSUME IInv, NEW g, g = Sliced(Evict(Buffer))
  PROVE  /\ Holds(g, written) /\ Tidy(g) /\ g.head = 0
         /\ g.size = Kept(size) /\ Accounts(g, size, dropped)
<1>1. maxsize \in (Nat \ {0}) \cup {None} /\ coalesceSize \in Nat \ {0}
  BY Parameters
<1>2. /\ written \in Int /\ Holds(Buffer, written) /\ Spaced(Buffer.chunks)
      /\ Len(Buffer.pending) < coalesceSize /\ coalesceSize \in Nat
  BY <1>1 DEF IInv, Tidy
<1>3. PICK e : e = Evict(Buffer)
  OBVIOUS
<1>4. Holds(e, written) /\ Tidy(e) /\ Accounts(e, size, dropped)
  BY <1>1, <1>2, <1>3, EvictGrows, BufferIs
<1>5. e.size = Kept(size)
  <2>1. Evicted(Buffer, Evict(Buffer))
    BY <1>1, <1>2, EvictHolds
  <2> QED  BY <1>3, <2>1, BufferIs DEF Evicted, Kept
<1>6. Cut(g, e, written)
  BY <1>2, <1>3, <1>4, SlicedHolds
<1> QED  BY <1>4, <1>5, <1>6 DEF Cut, Tidy, Accounts

(* What bytes(), len() and dropped answer, from the invariant                   *)
Answered == /\ Length \in Nat /\ Length = Kept(size)
            /\ Contents = Stretch(written - Length, Length)
            /\ Dropped = dropped + Overflow(size)

LEMMA Answers == IInv => Answered
<1> SUFFICES ASSUME IInv PROVE Answered
  OBVIOUS
<1>1. PICK g : g = Sliced(Evict(Buffer))
  OBVIOUS
<1>2. Holds(g, written) /\ g.head = 0 /\ g.size = Kept(size) /\ written \in Int
  BY <1>1, ReadKeeps DEF IInv
<1>3. Length = g.size
  BY <1>2 DEF Length, Kept
<1>4. g.size \in Nat
  BY <1>2, BufferTypes DEF Holds
<1>5. FlattenSeq(Append(g.chunks, g.pending)) = Stretch(written - g.size, g.size)
  BY <1>2, ContentsOf
<1>6. Contents = FlattenSeq(Append(g.chunks, g.pending))
  BY <1>1 DEF Contents
<1> QED  BY <1>2, <1>3, <1>4, <1>5, <1>6 DEF Dropped, Answered

LEMMA AnswersNext == IInv' => Answered'
<1> QED  BY Answers, PTL
-----------------------------------------------------------------------------
(* What each step does, in the terms of the invariant                           *)
Accounted(n) == /\ UNCHANGED maxsize
                /\ Kept(size)' = Kept(size + n)
                /\ (dropped + Overflow(size))' = dropped + Overflow(size + n)

LEMMA GrownStep ==
  ASSUME NEW e, NEW n \in Nat, Becomes(e), written' = written + n, IInv,
         Holds(e, written + n), Tidy(e), Accounts(e, size + n, dropped)
  PROVE  IInv' /\ Accounted(n)
<1>1. PICK v \in Nat : v = written + n
  BY DEF IInv
<1>2. e \in Buffers /\ Holds(e, v)
  BY <1>1 DEF Holds
<1>3. Buffer' = e /\ UNCHANGED <<maxsize, coalesceSize>> /\ written' = v
  BY <1>1, <1>2, BecomesIs
<1>4. Holds(Buffer, written)'
  BY <1>2, <1>3 DEF Holds
<1>5. Tidy(Buffer)'
  BY <1>3 DEF Tidy, Spaced, Large
<1>6. IInv'
  BY <1>3, <1>4, <1>5 DEF IInv
<1>7. e.size = size' /\ e.dropped = dropped'
  BY DEF Becomes
<1>8. Kept(size)' = Kept(size + n)
  BY <1>3, <1>7 DEF Accounts, Kept, Overflow
<1>9. (dropped + Overflow(size))' = dropped + Overflow(size + n)
  BY <1>3, <1>7 DEF Accounts, Overflow
<1> QED  BY <1>3, <1>6, <1>8, <1>9 DEF Accounted

LEMMA ExtendStep ==
  ASSUME IInv, Extend
  PROVE  IInv' /\ \E n \in Nat \ {0} : /\ Stretch(written, n) \in Writes
                                       /\ written' = written + n /\ Accounted(n)
<1>1. PICK data \in Writes : /\ Becomes(Extended(Buffer, data))
                             /\ written' = written + Len(data)
  BY DEF Extend
<1>2. PICK n \in Nat \ {0} : data = Stretch(written, n)
  BY DEF Writes, Stretch
<1>3. Len(data) = n
  BY <1>2, StretchFacts DEF IInv
<1>4. PICK e : e = Extended(Buffer, data)
  OBVIOUS
<1>5. Grown(e, Buffer, written, n)
  BY <1>2, <1>4, WriteGrows
<1>6. Holds(e, written + n) /\ Tidy(e) /\ Accounts(e, size + n, dropped)
  BY <1>5, BufferIs DEF Grown
<1>7. IInv' /\ Accounted(n)
  BY <1>1, <1>3, <1>4, <1>6, GrownStep
<1> QED  BY <1>1, <1>2, <1>3, <1>7

LEMMA ClearStep ==
  ASSUME IInv, Clear
  PROVE  /\ IInv' /\ UNCHANGED maxsize /\ Kept(size)' = 0
         /\ (dropped + Overflow(size))' = dropped + Overflow(size)
<1>1. /\ maxsize \in (Nat \ {0}) \cup {None} /\ coalesceSize \in Nat \ {0}
      /\ written \in Nat /\ size \in Nat /\ dropped \in Nat
  BY Parameters, BufferTypes, BufferIs DEF IInv, Holds
<1>2. PICK d \in Nat : d = dropped + Overflow(size)
  BY <1>1, OverflowIs
<1>3. PICK e : e = [chunks |-> <<>>, head |-> 0, pending |-> <<>>, size |-> 0, dropped |-> d]
  OBVIOUS
<1>4. Holds(e, written) /\ Tidy(e) /\ e \in Buffers /\ e.size = 0 /\ e.dropped = d
  BY <1>1, <1>3, EmptyHolds
<1>5. Becomes(e) /\ UNCHANGED written
  BY <1>2, <1>3 DEF Clear
<1>6. Buffer' = e /\ UNCHANGED <<maxsize, coalesceSize, written>>
  BY <1>4, <1>5, BecomesIs
<1>7. Holds(Buffer, written)'
  BY <1>4, <1>6 DEF Holds
<1>8. Tidy(Buffer)'
  BY <1>4, <1>6 DEF Tidy, Spaced, Large
<1>9. IInv'
  BY <1>6, <1>7, <1>8 DEF IInv
<1>10. size' = 0 /\ dropped' = d
  BY <1>4, <1>5 DEF Becomes
<1>11. Overflow(size)' = 0
  BY <1>1, <1>6, <1>10 DEF Overflow
<1> QED  BY <1>2, <1>6, <1>9, <1>10, <1>11 DEF Kept

LEMMA ReadStep ==
  ASSUME IInv, Read
  PROVE  IInv' /\ Accounted(0) /\ UNCHANGED written
<1>1. PICK g : g = Sliced(Evict(Buffer))
  OBVIOUS
<1>2. Holds(g, written) /\ Tidy(g) /\ Accounts(g, size, dropped)
  BY <1>1, ReadKeeps
<1>3. Becomes(g) /\ written' = written
  BY <1>1 DEF Read
<1>4. written \in Nat /\ size \in Nat /\ written + 0 = written /\ size + 0 = size
  BY BufferTypes, BufferIs DEF IInv, Holds
<1>5. IInv' /\ Accounted(0)
  BY <1>2, <1>3, <1>4, GrownStep
<1> QED  BY <1>3, <1>5

LEMMA InitIInv == Init => IInv
<1> SUFFICES ASSUME Init PROVE IInv
  OBVIOUS
<1>1. /\ maxsize \in (Nat \ {0}) \cup {None} /\ coalesceSize \in Nat \ {0} /\ written = 0
  BY BufferAssumption DEF Init
<1>2. Buffer = [chunks |-> <<>>, head |-> 0, pending |-> <<>>, size |-> 0, dropped |-> 0]
  BY DEF Init, Buffer
<1>3. Holds(Buffer, written) /\ Tidy(Buffer)
  BY <1>1, <1>2, EmptyHolds
<1> QED  BY <1>1, <1>3 DEF IInv, Init

LEMMA NextIInv == IInv /\ [Next]_vars => IInv'
<1> SUFFICES ASSUME IInv, [Next]_vars PROVE IInv'
  OBVIOUS
<1>1. CASE Extend
  BY <1>1, ExtendStep
<1>2. CASE Clear
  BY <1>2, ClearStep
<1>3. CASE Read
  BY <1>3, ReadStep
<1>4. CASE UNCHANGED vars
  <2>1. Buffer' = Buffer /\ UNCHANGED <<maxsize, coalesceSize, written>>
    BY <1>4 DEF vars, Buffer
  <2> QED  BY <2>1 DEF IInv, Holds, Tidy, Spaced, Large
<1> QED  BY <1>1, <1>2, <1>3, <1>4 DEF Next
-----------------------------------------------------------------------------
LEMMA IInvHoldsLittleMore == IInv => HoldsLittleMore
<1> SUFFICES ASSUME IInv PROVE HoldsLittleMore
  OBVIOUS
<1>1. /\ maxsize \in (Nat \ {0}) \cup {None} /\ coalesceSize \in Nat \ {0} /\ written \in Int
      /\ size \in Nat /\ headOffset \in Nat /\ Len(pending) \in Nat /\ Len(chunks) \in Nat
      /\ Linked(chunks) /\ Spaced(chunks) /\ Holds(Buffer, written)
  BY Parameters, BufferTypes, BufferIs DEF IInv, Holds, Tidy
<1>2. maxsize # None => size < maxsize + coalesceSize
  <2> SUFFICES ASSUME maxsize # None PROVE size < maxsize + coalesceSize
    OBVIOUS
  <2>1. maxsize \in Nat
    BY <1>1
  <2>2. size <= maxsize + Len(pending) /\ Len(pending) < coalesceSize
    BY BufferIs DEF IInv, Tidy
  <2> QED  BY <1>1, <2>1, <2>2
<1>3. Total(chunks) - headOffset + Len(pending) = size
  <2>1. PICK k \in Nat, sz \in Nat, hd \in Nat : k = Len(pending) /\ sz = size /\ hd = headOffset
    BY <1>1
  <2>2. /\ chunks # <<>> => Total(chunks) = sz + hd - k
        /\ chunks = <<>> => Total(chunks) = 0 /\ hd = 0 /\ sz = k
    BY <1>1, <2>1, SizeIs, BufferIs DEF Holds
  <2>3. Total(chunks) - hd + k = sz
    BY <2>2
  <2> QED  BY <2>1, <2>3
<1>4. chunks # <<>> => headOffset < Len(chunks[1])
  BY <1>1, BufferIs DEF Holds
<1>5. ASSUME NEW i \in 3..Len(chunks)
      PROVE  Len(chunks[i - 1]) + Len(chunks[i]) >= coalesceSize
  <2>1. i \in 1..Len(chunks) /\ i - 1 \in 1..Len(chunks)
    BY <1>1
  <2>2. Len(chunks[i]) \in Nat /\ Len(chunks[i - 1]) \in Nat
    BY <1>1, <2>1, StretchIs DEF Linked
  <2>3. Len(chunks[i - 1]) >= coalesceSize \/ Len(chunks[i]) >= coalesceSize
    BY <1>1 DEF Spaced, Large
  <2>4. PICK x \in Nat, y \in Nat, c \in Nat :
          x = Len(chunks[i - 1]) /\ y = Len(chunks[i]) /\ c = coalesceSize
    BY <1>1, <2>2
  <2>5. x + y >= c
    <3>1. x >= c \/ y >= c
      BY ONLY <2>3, <2>4
    <3> QED  BY ONLY <3>1, x \in Nat, y \in Nat, c \in Nat
  <2> QED  BY <2>4, <2>5
<1> QED  BY <1>2, <1>3, <1>4, <1>5 DEF HoldsLittleMore

(* For every limit, coalesce size and sequence of writes, reads and clears:     *)
(* never coalesce_size bytes or more beyond the limit, the sizes of the parts   *)
(* add up to what len() counts, the offset stays inside the head chunk, and     *)
(* small chunks do not pile up (recording.py:50-56).                            *)
THEOREM BufferHoldsLittleMore == Spec => []HoldsLittleMore
<1> QED  BY InitIInv, NextIInv, IInvHoldsLittleMore, PTL DEF Spec
-----------------------------------------------------------------------------
(* The step that a write is in the abstract specification                       *)
LEMMA ExtendRefines ==
  ASSUME IInv, IInv', NEW n \in Nat \ {0}, written' = written + n, Accounted(n),
         NEW data, data = Stretch(written, n)
  PROVE  Promise!Extend(data)
<1>1. /\ maxsize \in (Nat \ {0}) \cup {None} /\ maxsize' = maxsize
      /\ written \in Nat /\ size \in Nat /\ dropped \in Nat
  BY Parameters, BufferTypes, BufferIs DEF IInv, Holds, Accounted
<1>2. PICK l \in Nat : /\ l = Length /\ l = Kept(size) /\ Contents = Stretch(written - l, l)
                       /\ Dropped = dropped + Overflow(size)
  BY Answers DEF Answered
<1>3. PICK m \in Nat : /\ m = Length' /\ m = Kept(size)' /\ Contents' = Stretch(written' - m, m)
                       /\ Dropped' = (dropped + Overflow(size))'
  <2>1. Length' \in Nat /\ Length' = Kept(size)' /\ Contents' = Stretch(written' - Length', Length')
        /\ Dropped' = (dropped + Overflow(size))'
    BY AnswersNext DEF Answered
  <2> QED  BY <2>1
<1>4. m = Kept(size + n) /\ Dropped' = dropped + Overflow(size + n)
  BY <1>3 DEF Accounted
<1>5. m = Kept(l + n)
  BY <1>1, <1>2, <1>4, KeptTwice
<1>6. PICK a \in Int : a = written - l
  BY <1>1
<1>7. Contents \o data = Stretch(a, l + n)
  <2>1. Stretch(a, l) \o Stretch(a + l, n) = Stretch(a, l + n)
    BY StretchJoin
  <2>2. a + l = written
    BY <1>1, <1>6
  <2> QED  BY <1>2, <1>6, <2>1, <2>2
<1>8. Contents' = Promise!Newest(Contents \o data)
  <2>1. PICK k \in Nat : k = l + n
    OBVIOUS
  <2>2. Promise!Newest(Stretch(a, k)) = Stretch(a + k - Kept(k), Kept(k))
    BY <1>1, NewestIs
  <2>3. Kept(k) = m
    BY <1>5, <2>1
  <2>4. a + k - m = written' - m
    BY <1>1, <1>6, <2>1
  <2> QED  BY <1>3, <1>7, <2>1, <2>2, <2>3, <2>4
<1>9. Len(Contents') = m
  <2>1. PICK v \in Int : v = written' - m
    BY <1>1
  <2> QED  BY <1>3, <2>1, StretchFacts
<1>10. Len(Contents) = l /\ Len(data) = n
  BY <1>1, <1>2, <1>6, StretchFacts
<1>11. Dropped' = Dropped + Len(Contents) + Len(data) - Len(Contents')
  <2>1. PICK x \in Nat, y \in Nat, sz \in Nat, d \in Nat :
          x = Overflow(size) /\ y = Overflow(size + n) /\ sz = size /\ d = dropped
    <3>1. Overflow(size) \in Nat
      BY <1>1, OverflowIs
    <3>2. PICK k \in Nat : k = size + n
      BY <1>1
    <3>3. Overflow(k) \in Nat
      BY <1>1, OverflowIs
    <3> QED  BY <1>1, <3>1, <3>2, <3>3
  <2>2. l = sz - x /\ m = sz + n - y
    BY <1>2, <1>4, <2>1 DEF Kept
  <2>3. Dropped = d + x /\ Dropped' = d + y
    BY <1>2, <1>4, <2>1
  <2>4. d + y = d + x + l + n - m
    BY <2>2
  <2> QED  BY <1>9, <1>10, <2>3, <2>4
<1> QED  BY <1>1, <1>3, <1>8, <1>9, <1>11 DEF Promise!Extend

LEMMA ClearRefines ==
  ASSUME IInv, IInv', Clear
  PROVE  Promise!Clear
<1>1. /\ maxsize' = maxsize /\ Kept(size)' = 0
      /\ (dropped + Overflow(size))' = dropped + Overflow(size)
  BY ClearStep
<1>2. Length' = 0 /\ Contents' = Stretch(written' - Length', Length')
      /\ Dropped' = (dropped + Overflow(size))'
  BY <1>1, AnswersNext DEF Answered
<1>3. Contents' = <<>>
  <2>1. \A v : Stretch(v, 0) = <<>>
    BY DEF Stretch
  <2> QED  BY <1>2, <2>1
<1>4. Dropped = dropped + Overflow(size)
  BY Answers DEF Answered
<1> QED  BY <1>1, <1>2, <1>3, <1>4 DEF Promise!Clear

LEMMA ReadRefines ==
  ASSUME IInv, IInv', Read
  PROVE  UNCHANGED Promise!vars
<1>1. Accounted(0) /\ UNCHANGED written /\ size \in Nat /\ size + 0 = size
  BY ReadStep, BufferTypes, BufferIs DEF IInv, Holds
<1>2. /\ Length = Kept(size) /\ Contents = Stretch(written - Length, Length)
      /\ Dropped = dropped + Overflow(size)
  BY Answers DEF Answered
<1>3. /\ Length' = Kept(size)' /\ Contents' = Stretch(written' - Length', Length')
      /\ Dropped' = (dropped + Overflow(size))'
  BY AnswersNext DEF Answered
<1> QED  BY <1>1, <1>2, <1>3 DEF Accounted, Promise!vars

(* Each operation is the one of the same name there.                            *)
LEMMA StepAlike ==
  ASSUME IInv, IInv'
  PROVE  Alike
<1>1. ASSUME Extend PROVE \E data \in Writes : Promise!Extend(data)
  <2>1. PICK n \in Nat \ {0} : /\ Stretch(written, n) \in Writes
                               /\ written' = written + n /\ Accounted(n)
    BY <1>1, ExtendStep
  <2>2. PICK data \in Writes : data = Stretch(written, n)
    BY <2>1
  <2>3. Promise!Extend(data)
    BY <2>1, <2>2, ExtendRefines
  <2> QED  BY <2>3
<1> QED  BY <1>1, ClearRefines, ReadRefines DEF Alike

LEMMA StepRefines ==
  ASSUME IInv, IInv', [Next]_vars
  PROVE  [Promise!Next(Writes)]_(Promise!vars)
<1>1. CASE Extend
  BY <1>1, StepAlike DEF Alike, Promise!Next
<1>2. CASE Clear
  BY <1>2, StepAlike DEF Alike, Promise!Next
<1>3. CASE Read
  BY <1>3, StepAlike DEF Alike
<1>4. CASE UNCHANGED vars
  <2>1. Buffer' = Buffer /\ UNCHANGED <<maxsize, size, dropped>>
    BY <1>4 DEF vars, Buffer
  <2>2. Contents' = Contents
    BY <2>1 DEF Contents, Evict, Sliced, Overflow
  <2> QED  BY <2>1, <2>2 DEF Promise!vars, Length, Dropped, Overflow
<1> QED  BY <1>1, <1>2, <1>3, <1>4 DEF Next

LEMMA InitRefines == Init => Promise!Init
<1> SUFFICES ASSUME Init PROVE Promise!Init
  OBVIOUS
<1>1. IInv /\ size = 0 /\ dropped = 0
  BY InitIInv DEF Init
<1>2. maxsize \in (Nat \ {0}) \cup {None}
  BY <1>1, Parameters
<1>3. Overflow(size) = 0
  BY <1>1, <1>2 DEF Overflow
<1>4. Length = 0 /\ Dropped = 0
  BY <1>1, <1>3 DEF Length, Dropped
<1>5. Contents = Stretch(written - Length, Length)
  BY <1>1, Answers DEF Answered
<1>6. Contents = <<>>
  <2>1. \A v : Stretch(v, 0) = <<>>
    BY DEF Stretch
  <2> QED  BY <1>4, <1>5, <2>1
<1> QED  BY <1>4, <1>6 DEF Promise!Init

(* The buffer keeps its promise: for every limit, coalesce size and sequence of *)
(* operations its contents, len() and dropped are those of the plain tail of    *)
(* the stream, each write a write there, each clear a clear, and a read nothing *)
(* (recording.py:39-168).                                                       *)
THEOREM BufferKeepsTail == Spec => KeepsTail
<1>1. Spec => []IInv
  BY InitIInv, NextIInv, PTL DEF Spec
<1>2. IInv /\ IInv' /\ [Next]_vars => [Promise!Next(Writes)]_(Promise!vars)
  BY StepRefines
<1>3. IInv /\ IInv' /\ [Next]_vars => [Alike]_vars
  BY StepAlike
<1> QED  BY <1>1, <1>2, <1>3, InitRefines, PTL DEF Spec, KeepsTail
=============================================================================
