------------------------- MODULE RequestParserProofs -------------------------
(* Proofs about RequestParser.tla: every byte of the stream is in one place and   *)
(* in stream order, however the reads split it, and httptools hears each byte of  *)
(* a chunked body once.  The module has five parts: the sums Sizes() counts,      *)
(* parts of sequences and stretches of stream positions, what the chunk scanner   *)
(* and the budget answer, where a round of the parser leaves the bytes, and the   *)
(* inductive invariant ByteInv.                                                   *)
EXTENDS RequestParser, FiniteSetTheorems, SequenceTheorems, WellFoundedInduction, TLAPS

(* The bytes of spans, as the fold of the library counts them: any span may be  *)
(* taken out first.                                                             *)
Pick(s) == CHOOSE x \in s : TRUE
Adds(g, c, s) == IF s = {} THEN 0
                 ELSE g[s \ {Pick(s)}] + c[Pick(s)][2] - c[Pick(s)][1]
Counts(g, c, D) == \A s \in D : g[s] = Adds(g, c, s)
IsCount(g, c, S) == g = [s \in SUBSET S |->
  IF s = {} THEN 0 ELSE g[s \ {Pick(s)}] + c[Pick(s)][2] - c[Pick(s)][1]]
Spanned(c, S) == \A x \in S : c[x][1] \in Int /\ c[x][2] \in Int

LEMMA SizesIs ==
  ASSUME NEW c
  PROVE  Sizes(c) = (CHOOSE g : IsCount(g, c, DOMAIN c))[DOMAIN c]
BY DEF Sizes, FoldSeq, FoldFunction, FoldFunctionOnSet, MapThenFoldSet, IsCount, Pick

(* Induction: a set of numbers that has 0 and the successors of its members     *)
LEMMA Counted ==
  ASSUME NEW T \in SUBSET Nat, 0 \in T, \A n \in T : n + 1 \in T
  PROVE  T = Nat
<1> DEFINE R == OpToRel(<, Nat)
           U == Nat \ T
<1>1. IsWellFoundedOn(R, Nat)
  BY NatLessThanWellFounded
<1>2. \A x, y \in Nat : <<y, x>> \in R <=> y < x
  BY DEF OpToRel
<1> HIDE DEF R
<1> SUFFICES ASSUME U # {} PROVE FALSE
  OBVIOUS
<1>3. PICK m \in U : \A y \in U : ~ (<<y, m>> \in R)
  BY <1>1, WFMin
<1>4. m \in Nat \ {0} /\ m - 1 \in Nat
  OBVIOUS
<1>5. m - 1 \notin U
  <2>1. \A y \in U : ~(y < m)
    BY <1>2, <1>3
  <2>2. m - 1 < m
    BY <1>4
  <2> QED  BY <2>1, <2>2
<1>6. m - 1 + 1 \in T
  BY <1>4, <1>5
<1> QED  BY <1>4, <1>6

\* The subsets of S of at most n elements
Small(S, n) == {s \in SUBSET S : Cardinality(s) <= n}

LEMMA PickIs ==
  ASSUME NEW S, IsFiniteSet(S), NEW s \in SUBSET S, s # {}
  PROVE  /\ Pick(s) \in s /\ IsFiniteSet(s)
         /\ \A x \in s : /\ Cardinality(s) \in Nat \ {0} /\ s \ {x} \in SUBSET S
                         /\ Cardinality(s \ {x}) = Cardinality(s) - 1
<1>1. Pick(s) \in s
  BY DEF Pick
<1>2. IsFiniteSet(s) /\ Cardinality(s) \in Nat
  BY FS_Subset, FS_CardinalityType
<1>3. ASSUME NEW x \in s
      PROVE  /\ Cardinality(s) \in Nat \ {0} /\ s \ {x} \in SUBSET S
             /\ Cardinality(s \ {x}) = Cardinality(s) - 1
  BY <1>2, FS_RemoveElement, FS_EmptySet
<1> QED  BY <1>1, <1>2, <1>3

LEMMA SmallSets ==
  ASSUME NEW S, IsFiniteSet(S)
  PROVE  /\ \A s \in SUBSET S : IsFiniteSet(s) /\ Cardinality(s) \in Nat
         /\ \A s \in SUBSET S : Cardinality(s) = 0 <=> s = {}
         /\ Small(S, Cardinality(S)) = SUBSET S
<1>1. ASSUME NEW s \in SUBSET S
      PROVE  /\ IsFiniteSet(s) /\ Cardinality(s) \in Nat /\ Cardinality(s) <= Cardinality(S)
             /\ Cardinality(s) = 0 <=> s = {}
  BY FS_Subset, FS_CardinalityType, FS_EmptySet
<1> QED  BY <1>1 DEF Small

LEMMA CountExists ==
  ASSUME NEW S, IsFiniteSet(S), NEW c, Spanned(c, S)
  PROVE  \E g \in [SUBSET S -> Int] : IsCount(g, c, S)
<1> DEFINE T == {n \in Nat : \E g \in [Small(S, n) -> Int] : Counts(g, c, Small(S, n))}
<1>1. 0 \in T
  <2>1. Small(S, 0) = {{}}
    <3>1. \A s \in SUBSET S : Cardinality(s) <= 0 <=> s = {}
      BY SmallSets
    <3> QED  BY <3>1 DEF Small
  <2> DEFINE g == [s \in Small(S, 0) |-> 0]
  <2>2. g \in [Small(S, 0) -> Int] /\ Counts(g, c, Small(S, 0))
    BY <2>1 DEF Counts, Adds
  <2> QED  BY <2>2
<1>2. ASSUME NEW n \in T PROVE n + 1 \in T
  <2>1. PICK g \in [Small(S, n) -> Int] : Counts(g, c, Small(S, n))
    OBVIOUS
  <2> DEFINE D == Small(S, n + 1)
             h == [s \in D |-> Adds(g, c, s)]
  <2>2. ASSUME NEW s \in D, s # {}
        PROVE  s \ {Pick(s)} \in Small(S, n) /\ Pick(s) \in S /\ s \ {Pick(s)} \in D
    <3>1. s \in SUBSET S /\ Cardinality(s) <= n + 1 /\ n \in Nat
      BY DEF Small
    <3>2. /\ Pick(s) \in s /\ Cardinality(s) \in Nat
          /\ s \ {Pick(s)} \in SUBSET S /\ Cardinality(s \ {Pick(s)}) = Cardinality(s) - 1
      BY <2>2, <3>1, PickIs
    <3> QED  BY <3>1, <3>2 DEF Small
  <2>3. h \in [D -> Int]
    BY <2>2 DEF Adds, Spanned
  <2>4. \A s \in Small(S, n) : s \in D /\ h[s] = g[s]
    <3>1. \A s \in Small(S, n) : s \in D
      BY SmallSets DEF Small
    <3> QED  BY <2>1, <3>1 DEF Counts
  <2>5. Counts(h, c, D)
    BY <2>2, <2>4 DEF Counts, Adds
  <2>6. \E k \in [D -> Int] : Counts(k, c, D)
    <3> HIDE DEF h, D
    <3> QED  BY <2>3, <2>5
  <2>7. n + 1 \in Nat
    OBVIOUS
  <2> QED  BY <2>6, <2>7
<1>3. T = Nat
  <2> HIDE DEF T
  <2>1. T \in SUBSET Nat
    BY DEF T
  <2> QED  BY <1>1, <1>2, <2>1, Counted
<1>4. Cardinality(S) \in T
  BY <1>3, FS_CardinalityType
<1>5. PICK g \in [SUBSET S -> Int] : Counts(g, c, SUBSET S)
  BY <1>4, SmallSets
<1>6. IsCount(g, c, S)
  BY <1>5 DEF Counts, Adds, IsCount
<1> QED  BY <1>6

(* A property of the empty set and of every set that has it without its pick    *)
LEMMA BySize ==
  ASSUME NEW S, IsFiniteSet(S), NEW P \in SUBSET SUBSET S, {} \in P,
         \A s \in SUBSET S :
           s # {} /\ (\A t \in SUBSET S : Cardinality(t) < Cardinality(s) => t \in P)
                               => s \in P
  PROVE  P = SUBSET S
<1> DEFINE T == {n \in Nat : Small(S, n) \subseteq P}
<1>1. 0 \in T
  <2>1. \A s \in SUBSET S : Cardinality(s) <= 0 => s = {}
    BY SmallSets
  <2>2. Small(S, 0) \subseteq {{}}
    BY <2>1 DEF Small
  <2> QED  BY <2>2
<1>2. ASSUME NEW n \in T PROVE n + 1 \in T
  <2>1. ASSUME NEW s \in Small(S, n + 1), s # {} PROVE s \in P
    <3>1. s \in SUBSET S /\ Cardinality(s) <= n + 1 /\ n \in Nat /\ Small(S, n) \subseteq P
      BY DEF Small
    <3>2. \A t \in SUBSET S : Cardinality(t) \in Nat /\ Cardinality(s) \in Nat
      BY <3>1, SmallSets
    <3>3. ASSUME NEW t \in SUBSET S, Cardinality(t) < Cardinality(s) PROVE t \in P
      <4>1. Cardinality(t) <= n
        BY <3>1, <3>2, <3>3
      <4> QED  BY <3>1, <4>1 DEF Small
    <3> QED  BY <2>1, <3>1, <3>3
  <2> QED  BY <2>1
<1>3. T = Nat
  <2> HIDE DEF T
  <2>1. T \in SUBSET Nat
    BY DEF T
  <2> QED  BY <1>1, <1>2, <2>1, Counted
<1>4. Cardinality(S) \in T
  BY <1>3, FS_CardinalityType
<1> QED  BY <1>4, SmallSets

(* Any span may be taken out of a count.                                        *)
TakesOut(g, c, S) ==
  \A s \in SUBSET S : /\ g[s] \in Int
                     /\ \A x \in s : g[s] = g[s \ {x}] + c[x][2] - c[x][1]
LEMMA TakeOut ==
  ASSUME NEW S, IsFiniteSet(S), NEW c, Spanned(c, S), NEW g, Counts(g, c, SUBSET S)
  PROVE  TakesOut(g, c, S)
<1> DEFINE P == {s \in SUBSET S : /\ g[s] \in Int
                                  /\ \A x \in s : g[s] = g[s \ {x}] + c[x][2] - c[x][1]}
<1>1. {} \in P
  <2>1. {} \in SUBSET S
    OBVIOUS
  <2>2. g[{}] = 0
    BY <2>1 DEF Counts, Adds
  <2> QED  BY <2>1, <2>2
<1>2. ASSUME NEW s \in SUBSET S, s # {},
             \A t \in SUBSET S : Cardinality(t) < Cardinality(s) => t \in P
      PROVE  s \in P
  <2>1. PICK p \in s : p = Pick(s)
    BY <1>2, PickIs
  <2>2. g[s] = g[s \ {p}] + c[p][2] - c[p][1]
    BY <1>2, <2>1 DEF Counts, Adds
  <2>3. s \ {p} \in SUBSET S /\ Cardinality(s \ {p}) < Cardinality(s)
    BY <1>2, PickIs
  <2>4. g[s \ {p}] \in Int /\ g[s] \in Int
    BY <1>2, <2>2, <2>3 DEF Spanned
  <2>5. ASSUME NEW x \in s PROVE g[s] = g[s \ {x}] + c[x][2] - c[x][1]
    <3>1. CASE x = p
      BY <2>2, <3>1
    <3>2. CASE x # p
      <4>1. s \ {x} \in SUBSET S /\ Cardinality(s \ {x}) < Cardinality(s)
        BY <1>2, PickIs
      <4>2. PICK a \in Int, b \in Int, d \in Int, e \in Int :
              a = c[x][1] /\ b = c[x][2] /\ d = c[p][1] /\ e = c[p][2]
        BY DEF Spanned
      <4>3. g[s \ {p}] = g[(s \ {p}) \ {x}] + b - a
        BY <1>2, <2>3, <3>2, <4>2
      <4>4. g[s \ {x}] = g[(s \ {x}) \ {p}] + e - d
        BY <1>2, <3>2, <4>1, <4>2
      <4>5. /\ (s \ {p}) \ {x} = (s \ {x}) \ {p}
            /\ (s \ {p}) \ {x} \in SUBSET S
        OBVIOUS
      <4>6. Cardinality((s \ {p}) \ {x}) < Cardinality(s)
        <5>1. s \ {p} # {} /\ x \in s \ {p}
          BY <3>2
        <5>2. Cardinality((s \ {p}) \ {x}) = Cardinality(s \ {p}) - 1
          BY <2>3, <5>1, PickIs
        <5>3. Cardinality(s) \in Nat /\ Cardinality(s \ {p}) \in Nat
          BY <2>3, SmallSets
        <5> QED  BY <2>3, <5>2, <5>3
      <4>7. PICK r \in Int : r = g[(s \ {p}) \ {x}]
        BY <1>2, <4>5, <4>6
      <4>8. g[s \ {p}] = r + b - a /\ g[s \ {x}] = r + e - d
        BY <4>3, <4>4, <4>5, <4>7
      <4>9. g[s] = (r + b - a) + e - d
        BY <2>2, <4>2, <4>8
      <4>10. (r + b - a) + e - d = (r + e - d) + b - a
        OBVIOUS
      <4> QED  BY <4>2, <4>8, <4>9, <4>10
    <3> QED  BY <3>1, <3>2
  <2> QED  BY <2>4, <2>5
<1>3. P = SUBSET S
  <2> HIDE DEF P
  <2>1. P \in SUBSET SUBSET S
    BY DEF P
  <2> QED  BY <1>1, <1>2, <2>1, BySize
<1> QED  BY <1>3 DEF TakesOut

(* A count depends on the spans counted, not on the set they are part of.       *)
SameOn(c, e, S) == \A x \in S : c[x] = e[x]
CountSame(g, c, S, h, e, D) ==
  /\ S \subseteq D /\ IsFiniteSet(D)
  /\ Counts(g, c, SUBSET S) /\ Counts(h, e, SUBSET D) /\ SameOn(c, e, S)
LEMMA CountsAgree ==
  ASSUME NEW g, NEW c, NEW S, NEW h, NEW e, NEW D, CountSame(g, c, S, h, e, D)
  PROVE  g[S] = h[S]
<1> USE DEF CountSame
<1>f. IsFiniteSet(S)
  BY FS_Subset
<1> DEFINE P == {s \in SUBSET S : g[s] = h[s]}
<1>1. {} \in P
  BY DEF Counts, Adds
<1>2. ASSUME NEW s \in SUBSET S, s # {},
             \A t \in SUBSET S : Cardinality(t) < Cardinality(s) => t \in P
      PROVE  s \in P
  <2>1. /\ Pick(s) \in S /\ s \ {Pick(s)} \in SUBSET S
        /\ Cardinality(s \ {Pick(s)}) < Cardinality(s)
    BY <1>f, <1>2, PickIs
  <2>2. g[s \ {Pick(s)}] = h[s \ {Pick(s)}]
    BY <1>2, <2>1
  <2>3. g[s] = Adds(g, c, s) /\ h[s] = Adds(h, e, s)
    <3>1. s \in SUBSET D
      OBVIOUS
    <3> QED  BY <3>1 DEF Counts
  <2> QED  BY <1>2, <2>1, <2>2, <2>3 DEF SameOn, Adds
<1>3. P = SUBSET S
  <2> HIDE DEF P
  <2>1. P \in SUBSET SUBSET S
    BY DEF P
  <2> QED  BY <1>f, <1>1, <1>2, <2>1, BySize
<1> QED  BY <1>3

LEMMA SizesCount ==
  ASSUME NEW c, IsFiniteSet(DOMAIN c), Spanned(c, DOMAIN c)
  PROVE  \E g : Counts(g, c, SUBSET DOMAIN c) /\ Sizes(c) = g[DOMAIN c]
<1>1. PICK g : g = CHOOSE k : IsCount(k, c, DOMAIN c)
  OBVIOUS
<1>2. IsCount(g, c, DOMAIN c)
  BY <1>1, CountExists
<1>3. Sizes(c) = g[DOMAIN c]
  BY <1>1, SizesIs
<1>4. Counts(g, c, SUBSET DOMAIN c)
  BY <1>2 DEF IsCount, Counts, Adds
<1> QED  BY <1>3, <1>4

(* The bytes of a list of spans                                                 *)
LEMMA SizesEmpty == Sizes(<<>>) = 0
<1>1. PICK c : c = <<>>
  OBVIOUS
<1>2. DOMAIN c = {}
  BY <1>1
<1>3. PICK g : Counts(g, c, SUBSET DOMAIN c) /\ Sizes(c) = g[DOMAIN c]
  BY <1>2, SizesCount, FS_EmptySet DEF Spanned
<1>4. g[{}] = 0
  BY <1>2, <1>3 DEF Counts, Adds
<1> QED  BY <1>1, <1>2, <1>3, <1>4

LEMMA SizesInt ==
  ASSUME NEW c \in Seq(Nat \X Nat)
  PROVE  Sizes(c) \in Int /\ IsFiniteSet(DOMAIN c) /\ Spanned(c, DOMAIN c)
<1>1. DOMAIN c = 1..Len(c) /\ Len(c) \in Nat /\ \A x \in DOMAIN c : c[x] \in Nat \X Nat
  OBVIOUS
<1>2. IsFiniteSet(DOMAIN c)
  BY <1>1, FS_Interval
<1>3. Spanned(c, DOMAIN c)
  BY <1>1 DEF Spanned
<1>4. PICK g : Counts(g, c, SUBSET DOMAIN c) /\ Sizes(c) = g[DOMAIN c]
  BY <1>2, <1>3, SizesCount
<1>5. TakesOut(g, c, DOMAIN c)
  BY <1>2, <1>3, <1>4, TakeOut
<1>6. g[DOMAIN c] \in Int
  BY <1>5 DEF TakesOut
<1> QED  BY <1>2, <1>3, <1>4, <1>6

LEMMA SizesMore ==
  ASSUME NEW c \in Seq(Nat \X Nat), NEW x \in Nat \X Nat
  PROVE  Sizes(Append(c, x)) = Sizes(c) + x[2] - x[1]
<1>1. PICK e \in Seq(Nat \X Nat) : e = Append(c, x)
  BY AppendProperties
<1>2. PICK n \in Nat : n = Len(c)
  OBVIOUS
<1>d. /\ DOMAIN c = 1..n /\ DOMAIN e = 1..(n + 1)
      /\ e[n + 1] = x /\ \A i \in 1..n : e[i] = c[i]
  <2>1. Len(e) = n + 1 /\ \A i \in 1..n : e[i] = c[i]
    BY <1>1, <1>2, AppendProperties
  <2>2. e[n + 1] = x
    BY <1>1, <1>2, AppendProperties
  <2> QED  BY <1>2, <2>1, <2>2
<1>3. PICK g : Counts(g, c, SUBSET DOMAIN c) /\ Sizes(c) = g[DOMAIN c]
  BY SizesInt, SizesCount
<1>4. PICK h : Counts(h, e, SUBSET DOMAIN e) /\ Sizes(e) = h[DOMAIN e]
  BY SizesInt, SizesCount
<1>5. PICK S, D : S = DOMAIN c /\ D = DOMAIN e
  OBVIOUS
<1>6. S \subseteq D /\ D \ {n + 1} = S /\ n + 1 \in D
  BY <1>d, <1>5
<1>7. IsFiniteSet(D) /\ SameOn(c, e, S) /\ TakesOut(h, e, D)
  BY <1>d, <1>4, <1>5, SizesInt, TakeOut DEF SameOn
<1>8. g[S] = h[S]
  <2>1. Counts(g, c, SUBSET S) /\ Counts(h, e, SUBSET D)
    BY <1>3, <1>4, <1>5
  <2>2. CountSame(g, c, S, h, e, D)
    BY <1>6, <1>7, <2>1 DEF CountSame
  <2> QED  BY <2>2, CountsAgree
<1>9. h[D] = h[S] + e[n + 1][2] - e[n + 1][1]
  BY <1>6, <1>7 DEF TakesOut
<1> QED  BY <1>1, <1>d, <1>3, <1>4, <1>5, <1>8, <1>9
-----------------------------------------------------------------------------
(* Parts of sequences, and stretches: the n positions of the stream that follow *)
(* position a                                                                   *)
Bytes == Seq(Int)
Stretch(a, n) == [j \in 1..n |-> a + j]

LEMMA PrefixIs ==
  ASSUME NEW S, NEW c \in Seq(S), NEW n \in 0..Len(c)
  PROVE  /\ Prefix(c, n) \in Seq(S) /\ Len(Prefix(c, n)) = n
         /\ \A i \in 1..n : Prefix(c, n)[i] = c[i]
<1>1. Len(c) \in Nat /\ n \in Nat /\ n \in Int /\ 1 \in Int /\ \A i \in 1..n : c[i] \in S
  OBVIOUS
<1>2. /\ SubSeq(c, 1, n) \in Seq(S) /\ Len(SubSeq(c, 1, n)) = IF 1 <= n THEN n - 1 + 1 ELSE 0
      /\ \A i \in 1..(n - 1 + 1) : SubSeq(c, 1, n)[i] = c[1 + i - 1]
  BY <1>1, SubSeqProperties
<1>3. n - 1 + 1 = n /\ (IF 1 <= n THEN n - 1 + 1 ELSE 0) = n
  BY <1>1
<1>4. \A i \in 1..n : 1 + i - 1 = i
  BY <1>1
<1> QED  BY <1>2, <1>3, <1>4 DEF Prefix

LEMMA FromIs ==
  ASSUME NEW S, NEW c \in Seq(S), NEW n \in 0..Len(c)
  PROVE  /\ From(c, n) \in Seq(S) /\ Len(From(c, n)) = Len(c) - n
         /\ \A i \in 1..(Len(c) - n) : From(c, n)[i] = c[n + i]
<1>1. PICK k \in Nat : k = Len(c)
  OBVIOUS
<1>2. /\ SubSeq(c, n + 1, k) \in Seq(S)
      /\ Len(SubSeq(c, n + 1, k)) = IF n + 1 <= k THEN k - (n + 1) + 1 ELSE 0
      /\ \A i \in 1..(k - (n + 1) + 1) : SubSeq(c, n + 1, k)[i] = c[n + 1 + i - 1]
  <2>1. \A i \in (n + 1)..k : c[i] \in S
    BY <1>1
  <2>2. n + 1 \in Int /\ k \in Int
    BY <1>1
  <2> QED  BY <2>1, <2>2, SubSeqProperties
<1>3. k - (n + 1) + 1 = k - n /\ (IF n + 1 <= k THEN k - (n + 1) + 1 ELSE 0) = k - n
  BY <1>1
<1>4. \A i \in 1..(k - n) : n + 1 + i - 1 = n + i
  BY <1>1
<1> QED  BY <1>1, <1>2, <1>3, <1>4 DEF From

LEMMA StretchIs ==
  ASSUME NEW a \in Int, NEW n \in Nat
  PROVE  /\ Stretch(a, n) \in Bytes /\ Len(Stretch(a, n)) = n
         /\ \A j \in 1..n : Stretch(a, n)[j] = a + j
BY DEF Stretch, Bytes

LEMMA StretchEmpty ==
  ASSUME NEW a \in Int
  PROVE  Stretch(a, 0) = <<>>
BY DEF Stretch

LEMMA IsStretch ==
  ASSUME NEW a \in Int, NEW n \in Nat, NEW c \in Bytes, Len(c) = n,
         \A j \in 1..n : c[j] = a + j
  PROVE  c = Stretch(a, n)
<1>1. PICK t \in Bytes : t = Stretch(a, n) /\ Len(t) = n /\ \A j \in 1..n : t[j] = a + j
  BY StretchIs
<1> QED  BY <1>1, SeqEqual DEF Bytes

\* n positions after a, then m after b, are the k positions after a.
Joins(a, n, b, m, k) ==
  /\ a \in Int /\ n \in Nat /\ b \in Int /\ m \in Nat /\ k \in Nat
  /\ b = a + n /\ k = n + m

LEMMA StretchJoin ==
  ASSUME NEW a, NEW n, NEW b, NEW m, NEW k, Joins(a, n, b, m, k)
  PROVE  Stretch(a, n) \o Stretch(b, m) = Stretch(a, k)
<1>0. a \in Int /\ n \in Nat /\ b \in Int /\ m \in Nat /\ k \in Nat /\ b = a + n /\ k = n + m
  BY DEF Joins
<1>1. PICK s \in Bytes : s = Stretch(a, n) /\ Len(s) = n /\ \A j \in 1..n : s[j] = a + j
  BY <1>0, StretchIs
<1>2. PICK t \in Bytes : t = Stretch(b, m) /\ Len(t) = m /\ \A j \in 1..m : t[j] = a + n + j
  BY <1>0, StretchIs
<1>3. /\ s \o t \in Bytes /\ Len(s \o t) = n + m
      /\ \A j \in 1..(n + m) : (s \o t)[j] = IF j <= n THEN s[j] ELSE t[j - n]
  <2>1. /\ s \o t \in Seq(Int) /\ Len(s \o t) = Len(s) + Len(t)
        /\ \A j \in 1..(Len(s) + Len(t)) :
             (s \o t)[j] = IF j <= Len(s) THEN s[j] ELSE t[j - Len(s)]
    BY ConcatProperties DEF Bytes
  <2> QED  BY <1>1, <1>2, <2>1 DEF Bytes
<1>4. ASSUME NEW j \in 1..(n + m) PROVE (s \o t)[j] = a + j
  <2>0. j \in Int /\ j >= 1 /\ j <= n + m
    BY <1>0
  <2>1. CASE j <= n
    BY <2>0, <2>1, <1>0, <1>1, <1>3
  <2>2. CASE ~(j <= n)
    <3>1. j - n \in 1..m /\ a + n + (j - n) = a + j
      BY <1>0, <2>0, <2>2
    <3> QED  BY <3>1, <2>2, <1>2, <1>3
  <2> QED  BY <1>0, <2>0, <2>1, <2>2
<1> QED  BY <1>0, <1>1, <1>2, <1>3, <1>4, IsStretch

LEMMA StretchParts ==
  ASSUME NEW a, NEW m, NEW b, NEW k, NEW n, Joins(a, m, b, k, n)
  PROVE  /\ Prefix(Stretch(a, n), m) = Stretch(a, m)
         /\ From(Stretch(a, n), m) = Stretch(b, k)
<1>0. /\ a \in Int /\ n \in Nat /\ b \in Int /\ m \in Nat /\ k \in Nat /\ b = a + m
      /\ n = m + k /\ m \in 0..n
  BY DEF Joins
<1>1. PICK s \in Bytes : s = Stretch(a, n) /\ Len(s) = n /\ \A j \in 1..n : s[j] = a + j
  BY <1>0, StretchIs
<1>p. s \in Seq(Int) /\ m \in 0..Len(s)
  BY <1>0, <1>1 DEF Bytes
<1>2. /\ Prefix(s, m) \in Bytes /\ Len(Prefix(s, m)) = m
      /\ \A j \in 1..m : Prefix(s, m)[j] = a + j
  <2>1. /\ Prefix(s, m) \in Seq(Int) /\ Len(Prefix(s, m)) = m
        /\ \A j \in 1..m : Prefix(s, m)[j] = s[j]
    BY <1>p, PrefixIs
  <2> QED  BY <1>0, <1>1, <2>1 DEF Bytes
<1>3. /\ From(s, m) \in Bytes /\ Len(From(s, m)) = k
      /\ \A j \in 1..k : From(s, m)[j] = b + j
  <2>1. /\ From(s, m) \in Bytes /\ Len(From(s, m)) = n - m
        /\ \A j \in 1..(n - m) : From(s, m)[j] = s[m + j]
    <3>1. /\ From(s, m) \in Seq(Int) /\ Len(From(s, m)) = Len(s) - m
          /\ \A j \in 1..(Len(s) - m) : From(s, m)[j] = s[m + j]
      BY <1>p, FromIs
    <3> QED  BY <1>1, <3>1 DEF Bytes
  <2>2. k = n - m /\ \A j \in 1..k : m + j \in 1..n /\ a + (m + j) = b + j
    BY <1>0
  <2> QED  BY <1>1, <2>1, <2>2
<1> QED  BY <1>0, <1>1, <1>2, <1>3, IsStretch
-----------------------------------------------------------------------------
(* What a scan of a buffer of n bytes answers: the spans are in the buffer, a   *)
(* whole chunk's CRLF too.                                                      *)
Whole(n) == {span \in Nat \X Nat : span[1] <= span[2] /\ span[2] < n}
Part(n) == {span \in Nat \X Nat : span[1] <= span[2] /\ span[2] <= n}
Scans(n) == [payloads : Seq(Whole(n)), partial : Part(n) \cup {None},
             end : (1..n) \cup {None}, resume : 0..n, left : Nat, bad : (1..n) \cup {None}]

\* A size line begins after r bytes, and the data it announces after start.
LineOf(buf, r, start) ==
  SizeLine(buf, r).is = "line" /\ SizeLine(buf, r).size > 0 /\ SizeLine(buf, r).start = start

\* Data is still to come of a chunk of which only the size line is there.
Awaits(s) == s.partial # None /\ s.left # 0 /\ s.partial[2] <= s.partial[1]

\* The scan from the boundary i bytes into the buffer
Begun(buf, i, s) ==
  /\ s \in Scans(Len(buf)) /\ s.resume >= i
  /\ Awaits(s) => LineOf(buf, s.resume, Len(buf))

LEMMA LineIs ==
  ASSUME NEW buf \in Bytes, NEW i \in Nat
  PROVE  LET line == SizeLine(buf, i)
         IN /\ line.is \in {"incomplete", "bad", "line"}
            /\ line.is = "bad" => line.start \in 1..Len(buf)
            /\ line.is = "line" => line.size \in Nat /\ line.start \in (i + 2)..Len(buf)
<1>1. PICK a, t, u : a = At(buf, i) /\ t = At(buf, i + 1) /\ u = At(buf, i + 2)
  OBVIOUS
<1>2. Len(buf) \in Nat
  BY DEF Bytes
<1>3. /\ a # "none" => i < Len(buf)
      /\ t # "none" => i + 1 < Len(buf)
      /\ u # "none" => i + 2 < Len(buf)
  BY <1>1 DEF At
<1>4. \A d \in Digits : SizeOf[d] \in Nat /\ d # "none"
  BY DEF Digits, SizeOf
<1>5. PICK line : line = SizeLine(buf, i)
  OBVIOUS
<1>6. CASE a = "none"
  <2>1. line = [is |-> "incomplete", size |-> 0, start |-> 0]
    BY <1>1, <1>4, <1>5, <1>6 DEF SizeLine
  <2> QED  BY <1>5, <2>1
<1>7. CASE a \notin Digits \cup {"none"}
  <2>1. line = [is |-> "bad", size |-> 0, start |-> i + 1]
    BY <1>1, <1>5, <1>7 DEF SizeLine
  <2> QED  BY <1>2, <1>3, <1>5, <1>7, <2>1
<1>8. CASE a \in Digits
  <2>1. CASE t = "none"
    <3>1. line = [is |-> "incomplete", size |-> 0, start |-> 0]
      BY <1>1, <1>4, <1>5, <1>8, <2>1 DEF SizeLine
    <3> QED  BY <1>5, <3>1
  <2>2. CASE t = "nl"
    <3>1. line = [is |-> "line", size |-> SizeOf[a], start |-> i + 2]
      BY <1>1, <1>4, <1>5, <1>8, <2>2 DEF SizeLine
    <3> QED  BY <1>2, <1>3, <1>4, <1>5, <1>8, <2>2, <3>1
  <2>3. CASE t = "e"
    <3>1. line = IF u = "nl" THEN [is |-> "line", size |-> SizeOf[a], start |-> i + 3]
                 ELSE [is |-> "incomplete", size |-> 0, start |-> 0]
      BY <1>1, <1>4, <1>5, <1>8, <2>3 DEF SizeLine
    <3>2. CASE u = "nl"
      BY <1>2, <1>3, <1>4, <1>5, <1>8, <3>1, <3>2
    <3>3. CASE u # "nl"
      BY <1>5, <3>1, <3>3
    <3> QED  BY <3>2, <3>3
  <2>4. CASE t \notin {"none", "nl", "e"}
    <3>1. line = [is |-> "bad", size |-> 0, start |-> i + 2]
      BY <1>1, <1>4, <1>5, <1>8, <2>4 DEF SizeLine
    <3> QED  BY <1>2, <1>3, <1>5, <2>4, <3>1
  <2> QED  BY <2>1, <2>2, <2>3, <2>4
<1> QED  BY <1>6, <1>7, <1>8

LEMMA MinOfTwo ==
  ASSUME NEW a \in Int, NEW b \in Int
  PROVE  Min({a, b}) = IF a <= b THEN a ELSE b
<1>1. PICK m : m = Min({a, b})
  OBVIOUS
<1>2. \E x \in {a, b} : \A y \in {a, b} : x <= y
  OBVIOUS
<1>3. m \in {a, b} /\ \A y \in {a, b} : m <= y
  BY <1>1, <1>2 DEF Min
<1> QED  BY <1>1, <1>3

LEMMA MaxOfTwo ==
  ASSUME NEW a \in Int, NEW b \in Int
  PROVE  Max({a, b}) = IF a <= b THEN b ELSE a
<1>1. PICK m : m = Max({a, b})
  OBVIOUS
<1>2. \E x \in {a, b} : \A y \in {a, b} : x >= y
  OBVIOUS
<1>3. m \in {a, b} /\ \A y \in {a, b} : m >= y
  BY <1>1, <1>2 DEF Max
<1> QED  BY <1>1, <1>3

LEMMA ChunkIs ==
  ASSUME NEW buf \in Bytes, NEW i \in 0..Len(buf), NEW size \in Nat,
         NEW start \in i..Len(buf), NEW next,
         size > 0 /\ start + size + 1 <= Len(buf) => Begun(buf, start + size + 1, next)
  PROVE  LET s == Chunk(buf, i, size, start, next)
         IN /\ s \in Scans(Len(buf))
            /\ s.resume = i \/ s.resume > start + size
            /\ Awaits(s) => \/ s.resume = i /\ start = Len(buf) /\ size > 0
                            \/ LineOf(buf, s.resume, Len(buf))
<1>1. PICK n \in Nat : n = Len(buf)
  BY DEF Bytes
<1>2. i \in Nat /\ start \in Nat /\ i <= n /\ start <= n /\ i <= start
  BY <1>1
<1>3. At(buf, start) = "nl" => start < n
  BY <1>1 DEF At
<1>4. PICK s : s = Chunk(buf, i, size, start, next)
  OBVIOUS
<1>5. <<>> \in Seq(Whole(n))
  OBVIOUS
<1>6. CASE size = 0
  <2>1. CASE At(buf, start) = "nl"
    <3>1. s = Scan(<<>>, None, start + 1, start + 1, 0, None)
      BY <1>4, <1>6, <2>1 DEF Chunk
    <3>2. s \in Scans(n) /\ s.resume = start + 1 /\ s.partial = None
      BY <1>2, <1>3, <1>5, <2>1, <3>1 DEF Scan, Scans
    <3> QED  BY <1>1, <1>2, <1>4, <1>6, <3>2 DEF Awaits
  <2>2. CASE At(buf, start) # "nl"
    <3>1. s = Scan(<<>>, None, None, i, 0, None)
      BY <1>4, <1>6, <2>2 DEF Chunk
    <3> QED  BY <1>1, <1>2, <1>4, <1>5, <3>1 DEF Scan, Scans, Awaits
  <2> QED  BY <2>1, <2>2
<1>7. CASE size > 0
  <2>1. CASE start + size + 1 > n
    <3>1. PICK l \in Nat : l = start + size - n
      BY <1>2, <2>1
    <3>2. Min({start + size, n}) = n /\ Max({start + size - n, 0}) = l
      BY <1>2, <2>1, <3>1, MinOfTwo, MaxOfTwo
    <3>3. s = Scan(<<>>, <<start, n>>, None, i, l, None)
      <4>1. size # 0 /\ start + size + 1 > n /\ ~(start + size + 1 <= n)
        BY <1>2, <1>7, <2>1
      <4>2. start \in Nat /\ Len(buf) \in Nat /\ start + size + 1 > Len(buf)
        BY <1>1, <1>2, <2>1
      <4>3. s = LET end == start + size
                IN Scan(<<>>, <<start, Min({end, Len(buf)})>>, None, i,
                        Max({end - Len(buf), 0}), None)
        BY <1>4, <1>7, <4>1, <4>2, MinOfTwo, MaxOfTwo DEF Chunk, Scan
      <4>4. PICK e : e = start + size
        OBVIOUS
      <4>5. s = Scan(<<>>, <<start, Min({e, n})>>, None, i, Max({e - n, 0}), None)
        BY <1>1, <4>3, <4>4
      <4> QED  BY <3>2, <4>4, <4>5
    <3>4. <<start, n>> \in Part(n) /\ <<start, n>>[1] = start /\ <<start, n>>[2] = n
      BY <1>2 DEF Part
    <3>5. s \in Scans(n) /\ s.resume = i /\ s.partial = <<start, n>>
      BY <1>2, <1>5, <3>1, <3>3, <3>4 DEF Scan, Scans
    <3>6. Awaits(s) => start = n
      BY <1>2, <3>4, <3>5 DEF Awaits
    <3> QED  BY <1>1, <1>4, <1>7, <3>5, <3>6
  <2>2. CASE start + size + 1 <= n /\ At(buf, start + size) # "nl"
    <3>1. s = Scan(<<>>, None, None, i, 0, start + size + 1)
      BY <1>1, <1>2, <1>4, <1>7, <2>2 DEF Chunk
    <3> QED  BY <1>1, <1>2, <1>4, <1>5, <1>7, <2>2, <3>1 DEF Scan, Scans, Awaits
  <2>3. CASE start + size + 1 <= n /\ At(buf, start + size) = "nl"
    <3>1. s = [next EXCEPT !.payloads = <<<<start, start + size>>>> \o @]
      BY <1>1, <1>2, <1>4, <1>7, <2>3 DEF Chunk
    <3>2. Begun(buf, start + size + 1, next)
      BY <1>1, <1>7, <2>3
    <3>3. next \in Scans(n) /\ next.resume \in Nat /\ next.resume >= start + size + 1
      BY <1>1, <3>2 DEF Begun, Scans
    <3>4. <<start, start + size>> \in Whole(n)
      BY <1>2, <2>3 DEF Whole
    <3>5. <<<<start, start + size>>>> \o next.payloads \in Seq(Whole(n))
      BY <3>3, <3>4 DEF Scans
    <3>6. /\ s \in Scans(n) /\ s.resume = next.resume /\ s.partial = next.partial
          /\ s.left = next.left
      BY <3>1, <3>3, <3>5 DEF Scans
    <3>7. Awaits(s) => LineOf(buf, s.resume, Len(buf))
      BY <3>2, <3>6 DEF Awaits, Begun
    <3> QED  BY <1>1, <1>2, <1>4, <3>3, <3>6, <3>7
  <2> QED  BY <1>1, <1>2, <2>1, <2>2, <2>3
<1> QED  BY <1>6, <1>7

(* The scans from the boundaries of a buffer, each from those behind it         *)
Step(f, buf, i) ==
  LET line == SizeLine(buf, i)
  IN IF line.is = "line"
     THEN Chunk(buf, i, line.size, line.start, f[line.start + line.size + 1])
     ELSE Scan(<<>>, None, None, i, 0, IF line.is = "bad" THEN line.start ELSE None)
IsBoundary(f, buf) == f = [i \in 0..Len(buf) |->
  LET line == SizeLine(buf, i)
  IN IF line.is = "line"
     THEN Chunk(buf, i, line.size, line.start, f[line.start + line.size + 1])
     ELSE Scan(<<>>, None, None, i, 0, IF line.is = "bad" THEN line.start ELSE None)]

LEMMA ScanIs ==
  ASSUME NEW buf, NEW left
  PROVE  \E f : /\ f = CHOOSE g : IsBoundary(g, buf)
                /\ ScanChunks(buf, left) =
                     IF left > 0 THEN Chunk(buf, 0, left, 0, f[left + 1]) ELSE f[0]
<1>1. ScanChunks(buf, left) =
        IF left > 0 THEN Chunk(buf, 0, left, 0, (CHOOSE g : IsBoundary(g, buf))[left + 1])
        ELSE (CHOOSE g : IsBoundary(g, buf))[0]
  BY DEF ScanChunks, IsBoundary
<1>2. PICK f : f = CHOOSE g : IsBoundary(g, buf)
  OBVIOUS
<1> QED  BY <1>1, <1>2

LEMMA StepSame ==
  ASSUME NEW buf \in Bytes, NEW i \in 0..Len(buf), NEW f, NEW g,
         \A j \in (i + 1)..Len(buf) : f[j] = g[j]
  PROVE  Step(f, buf, i) = Step(g, buf, i)
<1>1. PICK n \in Nat : n = Len(buf)
  BY DEF Bytes
<1>2. PICK line : line = SizeLine(buf, i)
  OBVIOUS
<1>3. /\ line.is \in {"incomplete", "bad", "line"}
      /\ line.is = "line" => line.size \in Nat /\ line.start \in (i + 2)..n
  BY <1>1, <1>2, LineIs
<1>4. CASE line.is # "line"
  BY <1>2, <1>3, <1>4 DEF Step
<1>5. CASE line.is = "line"
  <2>1. PICK z \in Nat, a \in Nat : z = line.size /\ a = line.start /\ a >= i + 2
    BY <1>3, <1>5
  <2>2. \A h : Step(h, buf, i) = Chunk(buf, i, z, a, h[a + z + 1])
    BY <1>2, <1>5, <2>1 DEF Step
  <2>3. CASE z > 0 /\ a + z + 1 <= n
    <3>1. f[a + z + 1] = g[a + z + 1]
      BY <1>1, <2>1, <2>3
    <3> QED  BY <2>2, <3>1
  <2>4. CASE ~(z > 0 /\ a + z + 1 <= n)
    <3>1. ASSUME NEW x, NEW y PROVE Chunk(buf, i, z, a, x) = Chunk(buf, i, z, a, y)
      BY <1>1, <2>1, <2>4 DEF Chunk, Scan
    <3> QED  BY <2>2, <3>1
  <2> QED  BY <2>3, <2>4
<1> QED  BY <1>4, <1>5

LEMMA BoundaryExists ==
  ASSUME NEW buf \in Bytes
  PROVE  \E f : IsBoundary(f, buf)
<1>1. PICK n \in Nat : n = Len(buf)
  BY DEF Bytes
<1> DEFINE Good(f, k) == \A i \in 0..n : i > n - k => f[i] = Step(f, buf, i)
           T == {k \in Nat : \E f : Good(f, k)}
<1>2. 0 \in T
  <2>1. \A f : Good(f, 0)
    BY <1>1
  <2> QED  BY <2>1
<1>3. ASSUME NEW k \in T PROVE k + 1 \in T
  <2>1. PICK g : Good(g, k)
    OBVIOUS
  <2> DEFINE h == [i \in 0..n |-> IF i = n - k THEN Step(g, buf, i) ELSE g[i]]
  <2>2. ASSUME NEW i \in 0..n, i > n - (k + 1) PROVE h[i] = Step(h, buf, i)
    <3>1. \A j \in (i + 1)..n : h[j] = g[j]
      BY <1>1, <2>2
    <3>2. Step(h, buf, i) = Step(g, buf, i)
      <4> HIDE DEF h
      <4> QED  BY <1>1, <3>1, StepSame
    <3>3. CASE i = n - k
      BY <3>2, <3>3
    <3>4. CASE i # n - k
      <4>1. i > n - k
        BY <1>1, <2>2, <3>4
      <4> QED  BY <2>1, <3>2, <3>4, <4>1
    <3> QED  BY <3>3, <3>4
  <2>3. \E f : Good(f, k + 1)
    <3> HIDE DEF h
    <3> QED  BY <2>2
  <2> QED  BY <2>3
<1>4. T = Nat
  <2>1. T \in SUBSET Nat
    OBVIOUS
  <2> HIDE DEF T
  <2> QED  BY <1>2, <1>3, <2>1, Counted
<1>5. PICK f : Good(f, n + 1)
  <2>1. n + 1 \in T
    <3> HIDE DEF T
    <3> QED  BY <1>4
  <2> QED  BY <2>1
<1> DEFINE e == [i \in 0..n |-> f[i]]
<1>6. ASSUME NEW i \in 0..n PROVE e[i] = Step(e, buf, i)
  <2>1. \A j \in (i + 1)..n : e[j] = f[j]
    BY <1>1
  <2>2. Step(e, buf, i) = Step(f, buf, i)
    <3> HIDE DEF e
    <3> QED  BY <1>1, <2>1, StepSame
  <2>3. f[i] = Step(f, buf, i)
    BY <1>1, <1>5
  <2> QED  BY <2>2, <2>3
<1>7. e = [i \in 0..n |-> e[i]]
  OBVIOUS
<1>8. e = [i \in 0..n |-> Step(e, buf, i)]
  <2> HIDE DEF e
  <2> QED  BY <1>6, <1>7
<1>9. IsBoundary(e, buf)
  <2> HIDE DEF e
  <2> QED  BY <1>1, <1>8 DEF IsBoundary, Step
<1> QED  BY <1>9

LEMMA BoundariesBegun ==
  ASSUME NEW buf \in Bytes, NEW f, IsBoundary(f, buf)
  PROVE  \A i \in 0..Len(buf) : f[i] = Step(f, buf, i) /\ Begun(buf, i, f[i])
<1>1. PICK n \in Nat : n = Len(buf)
  BY DEF Bytes
<1>2. \A i \in 0..n : f[i] = Step(f, buf, i)
  BY <1>1 DEF IsBoundary, Step
<1> DEFINE T == {k \in Nat : \A i \in 0..n : i > n - k => Begun(buf, i, f[i])}
<1>3. 0 \in T
  BY <1>1
<1>4. ASSUME NEW k \in T PROVE k + 1 \in T
  <2>1. ASSUME NEW i \in 0..n, i > n - (k + 1) PROVE Begun(buf, i, f[i])
    <3>1. PICK line : line = SizeLine(buf, i)
      OBVIOUS
    <3>2. /\ line.is \in {"incomplete", "bad", "line"}
          /\ line.is = "bad" => line.start \in 1..n
          /\ line.is = "line" => line.size \in Nat /\ line.start \in (i + 2)..n
      BY <1>1, <3>1, LineIs
    <3>3. <<>> \in Seq(Whole(n)) /\ i \in 0..n /\ 0 \in Nat
      OBVIOUS
    <3>4. CASE line.is = "incomplete"
      <4>1. f[i] = Scan(<<>>, None, None, i, 0, None)
        BY <1>2, <3>1, <3>4 DEF Step
      <4> QED  BY <1>1, <3>3, <4>1 DEF Scan, Scans, Begun, Awaits
    <3>5. CASE line.is = "bad"
      <4>1. f[i] = Scan(<<>>, None, None, i, 0, line.start)
        BY <1>2, <3>1, <3>5 DEF Step
      <4> QED  BY <1>1, <3>2, <3>3, <3>5, <4>1 DEF Scan, Scans, Begun, Awaits
    <3>6. CASE line.is = "line"
      <4>1. PICK z \in Nat, a \in Nat : z = line.size /\ a = line.start /\ a \in i..n
        BY <3>2, <3>6
      <4>2. f[i] = Chunk(buf, i, z, a, f[a + z + 1])
        BY <1>2, <3>1, <3>6, <4>1 DEF Step
      <4>3. z > 0 /\ a + z + 1 <= n => Begun(buf, a + z + 1, f[a + z + 1])
        <5>1. a + z + 1 > n - k /\ a + z + 1 \in Nat
          BY <1>1, <2>1, <4>1
        <5> QED  BY <1>1, <5>1
      <4>4. PICK s : s = f[i]
        OBVIOUS
      <4>5. /\ s \in Scans(n) /\ (s.resume = i \/ s.resume > a + z)
            /\ Awaits(s) => \/ s.resume = i /\ a = n /\ z > 0
                            \/ LineOf(buf, s.resume, n)
        BY <1>1, <4>1, <4>2, <4>3, <4>4, ChunkIs
      <4>6. s.resume \in Nat /\ s.resume >= i
        BY <4>1, <4>5 DEF Scans
      <4>7. s.resume = i /\ a = n /\ z > 0 => LineOf(buf, s.resume, n)
        BY <3>1, <3>6, <4>1 DEF LineOf
      <4> QED  BY <1>1, <4>4, <4>5, <4>6, <4>7 DEF Begun
    <3> QED  BY <3>2, <3>4, <3>5, <3>6
  <2> QED  BY <2>1
<1>5. T = Nat
  <2>1. T \in SUBSET Nat
    OBVIOUS
  <2> HIDE DEF T
  <2> QED  BY <1>3, <1>4, <2>1, Counted
<1>6. n + 1 \in T
  <2> HIDE DEF T
  <2> QED  BY <1>5
<1> QED  BY <1>1, <1>2, <1>6

(* What scan_chunk_payloads() answers of a buffer                               *)
LEMMA ScanGood ==
  ASSUME NEW buf \in Bytes, NEW left \in Nat
  PROVE  LET s == ScanChunks(buf, left)
         IN /\ s \in Scans(Len(buf))
            /\ Awaits(s) => \/ LineOf(buf, s.resume, Len(buf))
                            \/ left > 0 /\ Len(buf) = 0 /\ s.resume = 0
            /\ \A fed \in 0..Len(buf) :
                 left = 0 /\ LineOf(buf, 0, fed) => s.resume = 0 \/ s.resume > fed
<1>1. PICK n \in Nat : n = Len(buf)
  BY DEF Bytes
<1>2. PICK f : /\ f = CHOOSE g : IsBoundary(g, buf)
               /\ ScanChunks(buf, left) =
                    IF left > 0 THEN Chunk(buf, 0, left, 0, f[left + 1]) ELSE f[0]
  BY ScanIs
<1>3. IsBoundary(f, buf)
  BY <1>2, BoundaryExists
<1>4. \A i \in 0..n : f[i] = Step(f, buf, i) /\ Begun(buf, i, f[i])
  BY <1>1, <1>3, BoundariesBegun
<1>5. PICK s : s = ScanChunks(buf, left)
  OBVIOUS
<1>6. CASE left > 0
  <2>1. s = Chunk(buf, 0, left, 0, f[left + 1])
    BY <1>2, <1>5, <1>6
  <2>2. 0 + left + 1 <= n => Begun(buf, 0 + left + 1, f[left + 1])
    BY <1>1, <1>4, <1>6
  <2>3. 0 \in 0..n
    BY <1>1
  <2>4. /\ s \in Scans(n)
        /\ Awaits(s) => \/ s.resume = 0 /\ 0 = n /\ left > 0
                        \/ LineOf(buf, s.resume, n)
    BY <1>1, <2>1, <2>2, <2>3, ChunkIs
  <2> QED  BY <1>1, <1>5, <1>6, <2>4
<1>7. CASE left = 0
  <2>1. s = f[0] /\ 0 \in 0..n
    BY <1>1, <1>2, <1>5, <1>7
  <2>2. s = Step(f, buf, 0) /\ Begun(buf, 0, s)
    BY <1>4, <2>1
  <2>3. ASSUME NEW fed \in 0..n, LineOf(buf, 0, fed)
        PROVE  s.resume = 0 \/ s.resume > fed
    <3>1. PICK z \in Nat : z = SizeLine(buf, 0).size
      BY LineIs, <2>3 DEF LineOf
    <3>2. s = Chunk(buf, 0, z, fed, f[fed + z + 1])
      BY <2>2, <2>3, <3>1 DEF Step, LineOf
    <3>3. z > 0 /\ fed + z + 1 <= n => Begun(buf, fed + z + 1, f[fed + z + 1])
      BY <1>1, <1>4
    <3>4. s.resume = 0 \/ s.resume > fed + z
      BY <1>1, <2>1, <3>2, <3>3, ChunkIs
    <3>5. s.resume \in Nat
      BY <2>2 DEF Begun, Scans
    <3> QED  BY <3>4, <3>5
  <2> QED  BY <1>1, <1>5, <2>2, <2>3 DEF Begun
<1> QED  BY <1>6, <1>7

(* A size line stays the same when the bytes before it go and bytes are added.  *)
LEMMA LineForm ==
  ASSUME NEW buf, NEW i \in Nat, NEW start
  PROVE  LineOf(buf, i, start) <=>
           /\ At(buf, i) \in Digits /\ SizeOf[At(buf, i)] > 0
           /\ \/ At(buf, i + 1) = "nl" /\ start = i + 2
              \/ At(buf, i + 1) = "e" /\ At(buf, i + 2) = "nl" /\ start = i + 3
<1>1. PICK a, t, u : a = At(buf, i) /\ t = At(buf, i + 1) /\ u = At(buf, i + 2)
  OBVIOUS
<1>2. \A d \in Digits : SizeOf[d] \in Nat /\ d # "none"
  BY DEF Digits, SizeOf
<1>3. PICK line : line = SizeLine(buf, i)
  OBVIOUS
<1>4. CASE a \notin Digits
  <2>1. line.is # "line"
    <3>1. CASE a = "none"
      <4>1. line = [is |-> "incomplete", size |-> 0, start |-> 0]
        BY <1>1, <1>2, <1>3, <3>1 DEF SizeLine
      <4> QED  BY <4>1
    <3>2. CASE a # "none"
      <4>1. line = [is |-> "bad", size |-> 0, start |-> i + 1]
        BY <1>1, <1>3, <1>4, <3>2 DEF SizeLine
      <4> QED  BY <4>1
    <3> QED  BY <3>1, <3>2
  <2> QED  BY <1>1, <1>3, <1>4, <2>1 DEF LineOf
<1>5. CASE a \in Digits
  <2>1. CASE t = "nl"
    <3>1. line = [is |-> "line", size |-> SizeOf[a], start |-> i + 2]
      BY <1>1, <1>2, <1>3, <1>5, <2>1 DEF SizeLine
    <3> QED  BY <1>1, <1>3, <1>5, <2>1, <3>1 DEF LineOf
  <2>2. CASE t = "e"
    <3>1. line = IF u = "nl" THEN [is |-> "line", size |-> SizeOf[a], start |-> i + 3]
                 ELSE [is |-> "incomplete", size |-> 0, start |-> 0]
      BY <1>1, <1>2, <1>3, <1>5, <2>2 DEF SizeLine
    <3>2. CASE u = "nl"
      BY <1>1, <1>3, <1>5, <2>2, <3>1, <3>2 DEF LineOf
    <3>3. CASE u # "nl"
      BY <1>1, <1>3, <1>5, <2>2, <3>1, <3>3 DEF LineOf
    <3> QED  BY <3>2, <3>3
  <2>3. CASE t \notin {"nl", "e"}
    <3>1. line.is # "line"
      <4>1. CASE t = "none"
        <5>1. line = [is |-> "incomplete", size |-> 0, start |-> 0]
          BY <1>1, <1>2, <1>3, <1>5, <4>1 DEF SizeLine
        <5> QED  BY <5>1
      <4>2. CASE t # "none"
        <5>1. line = [is |-> "bad", size |-> 0, start |-> i + 2]
          BY <1>1, <1>2, <1>3, <1>5, <2>3, <4>2 DEF SizeLine
        <5> QED  BY <5>1
      <4> QED  BY <4>1, <4>2
    <3> QED  BY <1>1, <1>3, <2>3, <3>1 DEF LineOf
  <2> QED  BY <2>1, <2>2, <2>3
<1> QED  BY <1>4, <1>5

LEMMA LineShifts ==
  ASSUME NEW buf \in Bytes, NEW r \in 0..Len(buf), LineOf(buf, r, Len(buf))
  PROVE  LineOf(From(buf, r), 0, Len(From(buf, r)))
<1>1. PICK n \in Nat : n = Len(buf)
  BY DEF Bytes
<1>2. PICK c : c = From(buf, r)
  OBVIOUS
<1>3. c \in Seq(Int) /\ Len(c) = n - r /\ \A i \in 1..(n - r) : c[i] = buf[r + i]
  BY <1>1, <1>2, FromIs DEF Bytes
<1>4. ASSUME NEW j \in Nat PROVE At(c, j) = At(buf, r + j)
  <2>1. CASE j < n - r
    <3>1. j + 1 \in 1..(n - r) /\ r + (j + 1) = r + j + 1 /\ r + j < n
      BY <1>1, <2>1
    <3>2. c[j + 1] = buf[r + j + 1]
      BY <1>3, <3>1
    <3> QED  BY <1>1, <1>3, <2>1, <3>1, <3>2 DEF At
  <2>2. CASE ~(j < n - r)
    <3>1. ~(r + j < n)
      BY <1>1, <2>2
    <3> QED  BY <1>1, <1>3, <2>2, <3>1 DEF At
  <2> QED  BY <2>1, <2>2
<1>5. /\ At(c, 0) = At(buf, r) /\ At(c, 0 + 1) = At(buf, r + 1) /\ At(c, 0 + 2) = At(buf, r + 2)
  BY <1>4
<1>6. /\ At(buf, r) \in Digits /\ SizeOf[At(buf, r)] > 0
      /\ \/ At(buf, r + 1) = "nl" /\ n = r + 2
         \/ At(buf, r + 1) = "e" /\ At(buf, r + 2) = "nl" /\ n = r + 3
  BY <1>1, LineForm
<1>7. n = r + 2 => Len(c) = 0 + 2
  BY <1>1, <1>3
<1>8. n = r + 3 => Len(c) = 0 + 3
  BY <1>1, <1>3
<1>9. LineOf(c, 0, Len(c))
  BY <1>5, <1>6, <1>7, <1>8, LineForm
<1> QED  BY <1>2, <1>9

LEMMA LineStays ==
  ASSUME NEW buf \in Bytes, NEW data \in Bytes, NEW start, LineOf(buf, 0, start)
  PROVE  LineOf(buf \o data, 0, start)
<1>1. PICK n \in Nat, m \in Nat : n = Len(buf) /\ m = Len(data)
  BY DEF Bytes
<1>2. PICK c : c = buf \o data
  OBVIOUS
<1>3. Len(c) = n + m /\ \A i \in 1..n : c[i] = buf[i]
  BY <1>1, <1>2, ConcatProperties DEF Bytes
<1>4. ASSUME NEW j \in Nat, At(buf, j) # "none" PROVE At(c, j) = At(buf, j)
  <2>1. j < n /\ j + 1 \in 1..n /\ j < n + m
    BY <1>1, <1>4 DEF At
  <2> QED  BY <1>1, <1>3, <2>1 DEF At
<1>5. /\ At(buf, 0) \in Digits /\ SizeOf[At(buf, 0)] > 0
      /\ \/ At(buf, 0 + 1) = "nl" /\ start = 0 + 2
         \/ At(buf, 0 + 1) = "e" /\ At(buf, 0 + 2) = "nl" /\ start = 0 + 3
  BY LineForm
<1>6. At(buf, 0) # "none"
  BY <1>5 DEF Digits, SizeOf
<1>7. At(c, 0) = At(buf, 0) /\ (At(buf, 0 + 1) # "none" => At(c, 0 + 1) = At(buf, 0 + 1))
      /\ (At(buf, 0 + 2) # "none" => At(c, 0 + 2) = At(buf, 0 + 2))
  BY <1>4, <1>6
<1>8. LineOf(c, 0, start)
  BY <1>5, <1>7, LineForm
<1> QED  BY <1>2, <1>8

(* The least of a set of natural numbers                                        *)
LEMMA MinIs ==
  ASSUME NEW T \in SUBSET Nat, T # {}
  PROVE  Min(T) \in T /\ \A y \in T : Min(T) <= y
<1> DEFINE R == OpToRel(<, Nat)
<1>1. IsWellFoundedOn(R, Nat)
  BY NatLessThanWellFounded
<1>2. \A x, y \in Nat : <<y, x>> \in R <=> y < x
  BY DEF OpToRel
<1> HIDE DEF R
<1>3. PICK m \in T : \A y \in T : ~(<<y, m>> \in R)
  BY <1>1, WFMin
<1>4. \A y \in T : ~(y < m)
  BY <1>2, <1>3
<1>5. \A y \in T : m <= y
  BY <1>4
<1> QED  BY <1>5 DEF Min

LEMMA PrefixMore ==
  ASSUME NEW S, NEW p \in Seq(S), NEW j \in 1..Len(p)
  PROVE  Prefix(p, j - 1) \in Seq(S) /\ Prefix(p, j) = Append(Prefix(p, j - 1), p[j])
<1>1. Len(p) \in Nat /\ 1 \in 1..Len(p) /\ j - 1 \in 0..Len(p) /\ p[j] \in S
  OBVIOUS
<1>2. SubSeq(p, 1, j) = SubSeq(p, 1, j - 1) \o <<p[j]>>
  BY <1>1, SubSeqRecursiveSecond
<1>3. Prefix(p, j - 1) \in Seq(S)
  BY <1>1, PrefixIs
<1> QED  BY <1>1, <1>2, <1>3, AppendIsConcat DEF Prefix

(* Where a number of payload bytes ends, and that none is past it when it does  *)
(* not end                                                                      *)
LEMMA LimitIs ==
  ASSUME None \notin Nat, NEW n \in Nat, NEW s \in Scans(n), NEW allowed \in Nat
  PROVE  LET l == LimitOffset(s, allowed)
         IN /\ l # None => l \in 0..n
            /\ l = None => /\ Sizes(s.payloads) <= allowed
                           /\ s.partial # None => Sizes(Spans(s)) <= allowed
<1>1. PICK p \in Seq(Whole(n)) : p = s.payloads
  BY DEF Scans
<1>2. PICK m \in Nat : m = Len(p)
  OBVIOUS
<1>3. p \in Seq(Nat \X Nat) /\ DOMAIN p = 1..m
  <2>1. Whole(n) \subseteq Nat \X Nat
    BY DEF Whole
  <2> QED  BY <1>2, <2>1, SeqMonotonic
<1> DEFINE Before(k) == Sizes(Prefix(p, k - 1))
           reached == {k \in DOMAIN p : Before(k + 1) >= allowed}
           k == Min(reached)
           more == k < Len(p) \/ s.partial # None
<1>l. PICK l : l = LimitOffset(s, allowed)
  OBVIOUS
<1> SUFFICES /\ l # None => l \in 0..n
             /\ l = None => Sizes(p) <= allowed /\ (s.partial # None => Sizes(Spans(s)) <= allowed)
  BY <1>1, <1>l
<1>4. l = IF allowed = 0 THEN IF Spans(s) # <<>> THEN 0 ELSE None
          ELSE IF reached # {}
          THEN IF Before(k + 1) > allowed THEN p[k][1] + allowed - Before(k)
               ELSE IF more THEN p[k][2] + 1 ELSE None
          ELSE IF s.partial # None /\ Sizes(Spans(s)) >= allowed
          THEN s.partial[1] + allowed - Sizes(p)
          ELSE None
  BY <1>1, <1>l DEF LimitOffset
<1>5. ASSUME NEW j \in 1..m
      PROVE  /\ Before(j) \in Int /\ p[j][1] \in Nat /\ p[j][2] \in Nat
             /\ p[j][1] <= p[j][2] /\ p[j][2] < n
             /\ Before(j + 1) = Before(j) + p[j][2] - p[j][1]
  <2>1. p[j] \in Whole(n) /\ p[j] \in Nat \X Nat
    BY <1>2 DEF Whole
  <2>2. PICK c \in Seq(Nat \X Nat) : c = Prefix(p, j - 1) /\ Prefix(p, j) = Append(c, p[j])
    BY <1>2, <1>3, PrefixMore
  <2>3. Sizes(c) \in Int /\ Sizes(Append(c, p[j])) = Sizes(c) + p[j][2] - p[j][1]
    BY <2>1, SizesInt, SizesMore
  <2>4. Before(j) = Sizes(c) /\ Before(j + 1) = Sizes(Append(c, p[j]))
    <3>1. j + 1 - 1 = j
      OBVIOUS
    <3>2. Prefix(p, j + 1 - 1) = Append(c, p[j])
      BY <2>2, <3>1
    <3>3. Sizes(Prefix(p, j - 1)) = Sizes(c)
      BY <2>2
    <3>4. Sizes(Prefix(p, j + 1 - 1)) = Sizes(Append(c, p[j]))
      BY <3>2
    <3> QED  BY <3>3, <3>4
  <2>5. p[j][1] \in Nat /\ p[j][2] \in Nat /\ p[j][1] <= p[j][2] /\ p[j][2] < n
    BY <2>1 DEF Whole
  <2> HIDE DEF Before
  <2> QED  BY <2>3, <2>4, <2>5
<1>6. Before(1) = 0
  <2>1. Prefix(p, 1 - 1) = <<>>
    BY <1>3, SubSeqEmpty DEF Prefix
  <2> QED  BY <2>1, SizesEmpty
<1>7. Before(m + 1) = Sizes(p) /\ Sizes(p) \in Int
  <2>1. Prefix(p, m + 1 - 1) = p
    <3>1. SubSeq(p, 1, Len(p)) = p
      BY <1>3, SubSeqFull
    <3>2. m + 1 - 1 = m
      OBVIOUS
    <3> QED  BY <1>2, <3>1, <3>2 DEF Prefix
  <2> QED  BY <1>3, <2>1, SizesInt
<1>8. s.partial # None =>
        /\ s.partial[1] \in Nat /\ s.partial[2] \in Nat
        /\ s.partial[1] <= s.partial[2] /\ s.partial[2] <= n
        /\ Sizes(Spans(s)) = Sizes(p) + s.partial[2] - s.partial[1]
        /\ Spans(s) # <<>>
  <2> SUFFICES ASSUME s.partial # None
               PROVE  /\ s.partial[1] \in Nat /\ s.partial[2] \in Nat
                      /\ s.partial[1] <= s.partial[2] /\ s.partial[2] <= n
                      /\ Sizes(Spans(s)) = Sizes(p) + s.partial[2] - s.partial[1]
                      /\ Spans(s) # <<>>
    OBVIOUS
  <2>1. PICK x \in Nat \X Nat : x = s.partial /\ x \in Part(n)
    BY DEF Scans, Part
  <2>2. Spans(s) = Append(p, x)
    BY <1>1, <2>1 DEF Spans
  <2>3. Append(p, x) # <<>>
    BY <1>3, AppendProperties
  <2>s. Sizes(Append(p, x)) = Sizes(p) + x[2] - x[1]
    BY <1>3, SizesMore
  <2>4. x[1] \in Nat /\ x[2] \in Nat /\ x[1] <= x[2] /\ x[2] <= n
    BY <2>1 DEF Part
  <2> QED  BY <2>1, <2>2, <2>3, <2>s, <2>4
<1>9. s.partial = None => Spans(s) = p
  BY <1>1 DEF Spans
<1>10. CASE allowed = 0
  <2>1. l = IF Spans(s) # <<>> THEN 0 ELSE None
    BY <1>4, <1>10
  <2>2. Spans(s) = <<>> => Sizes(p) = 0 /\ s.partial = None
    BY <1>8, <1>9, SizesEmpty
  <2> QED  BY <1>10, <2>1, <2>2
<1>11. CASE allowed # 0 /\ reached # {}
  <2>1. k \in reached /\ \A y \in reached : k <= y
    <3>1. reached \in SUBSET Nat
      BY <1>3
    <3> HIDE DEF reached
    <3> QED  BY <1>11, <3>1, MinIs
  <2>2. k \in 1..m /\ Before(k + 1) >= allowed
    <3> HIDE DEF k
    <3> QED  BY <1>3, <2>1
  <2>3. Before(k) < allowed
    <3> HIDE DEF k
    <3>1. CASE k = 1
      BY <1>6, <1>11, <3>1
    <3>2. CASE k # 1
      <4>1. k - 1 \in 1..m /\ k - 1 + 1 = k /\ k - 1 < k
        BY <2>2, <3>2
      <4>2. k - 1 \notin reached
        BY <2>1, <2>2, <4>1
      <4>3. ~(Before(k - 1 + 1) >= allowed)
        BY <1>3, <4>1, <4>2
      <4> QED  BY <1>5, <2>2, <4>1, <4>3
    <3> QED  BY <3>1, <3>2
  <2>4. PICK b \in Int, a \in Nat, e \in Nat :
          /\ b = Before(k) /\ a = p[k][1] /\ e = p[k][2] /\ a <= e /\ e < n
          /\ Before(k + 1) = b + e - a
    <3> HIDE DEF k, Before
    <3> QED  BY <1>5, <2>2
  <2>5. l = IF b + e - a > allowed THEN a + allowed - b ELSE IF more THEN e + 1 ELSE None
    <3> HIDE DEF k, Before, reached, more
    <3> QED  BY <1>4, <1>11, <2>4
  <2>6. ~more => Sizes(p) = b + e - a /\ s.partial = None
    <3>1. ~more => k = m /\ s.partial = None
      <4> HIDE DEF k
      <4> QED  BY <1>2, <2>2
    <3> HIDE DEF k, more
    <3> QED  BY <1>7, <2>4, <3>1
  <2>7. b < allowed
    BY <2>3, <2>4
  <2> HIDE DEF more, reached, k, Before
  <2>8. CASE b + e - a > allowed
    <3>1. a <= e /\ e < n
      BY <2>4
    <3>2. a + allowed - b \in 0..n
      BY <2>7, <2>8, <3>1
    <3>3. l = a + allowed - b
      BY <2>5, <2>8
    <3> QED  BY <3>2, <3>3
  <2>9. CASE ~(b + e - a > allowed) /\ more
    <3>1. l = e + 1 /\ e + 1 \in 0..n
      BY <2>4, <2>5, <2>9
    <3> QED  BY <3>1
  <2>10. CASE ~(b + e - a > allowed) /\ ~more
    <3>1. l = None /\ Sizes(p) <= allowed /\ s.partial = None
      BY <2>5, <2>6, <2>10
    <3> QED  BY <3>1
  <2> QED  BY <2>8, <2>9, <2>10
<1>12. CASE allowed # 0 /\ reached = {}
  <2>1. Sizes(p) < allowed
    <3>1. CASE m = 0
      <4>1. Before(m + 1) = 0
        BY <1>6, <3>1
      <4> QED  BY <1>7, <1>12, <4>1
    <3>2. CASE m # 0
      <4>1. m \in DOMAIN p
        BY <1>3, <3>2
      <4>2. ~(Before(m + 1) >= allowed)
        BY <1>12, <4>1
      <4> QED  BY <1>7, <4>2
    <3> QED  BY <3>1, <3>2
  <2>2. l = IF s.partial # None /\ Sizes(Spans(s)) >= allowed
            THEN s.partial[1] + allowed - Sizes(p) ELSE None
    BY <1>4, <1>12
  <2> HIDE DEF Before, reached, k, more
  <2>3. Sizes(p) \in Int /\ Sizes(p) <= allowed
    BY <1>7, <2>1
  <2>4. CASE s.partial # None
    <3>1. PICK x \in Nat, y \in Nat, z \in Int :
            /\ x = s.partial[1] /\ y = s.partial[2] /\ z = Sizes(p) /\ x <= y /\ y <= n
            /\ Sizes(Spans(s)) = z + y - x /\ z < allowed
      BY <1>7, <1>8, <2>1, <2>4
    <3>2. l = IF z + y - x >= allowed THEN x + allowed - z ELSE None
      BY <2>2, <2>4, <3>1
    <3>3. CASE z + y - x >= allowed
      <4>1. x <= y /\ y <= n /\ z < allowed /\ z + y - x >= allowed
        BY <3>1, <3>3
      <4>2. x + allowed - z \in 0..n
        BY <4>1
      <4> QED  BY <3>2, <3>3, <4>2
    <3>4. CASE ~(z + y - x >= allowed)
      <4>1. z + y - x <= allowed
        BY <3>1, <3>4
      <4> QED  BY <2>3, <3>1, <3>2, <3>4, <4>1
    <3> QED  BY <3>3, <3>4
  <2>5. CASE s.partial = None
    BY <2>2, <2>3, <2>5
  <2> QED  BY <2>4, <2>5
<1> QED  BY <1>10, <1>11, <1>12
-----------------------------------------------------------------------------
(* Where the bytes of the stream are: attributed, held, given back, to come     *)
FlowAt(sk, bf, un, rs, n, s, b, u, r, c, d) ==
  /\ sk = Stretch(0, s) /\ bf = Stretch(s, b) /\ un = Stretch(c, u) /\ rs = Stretch(d, r)
  /\ s \in Nat /\ b \in Nat /\ u \in Nat /\ r \in Nat /\ c \in Nat /\ d \in Nat
  /\ c = s + b /\ d = c + u /\ n = d + r
Flow(sk, bf, un, rs, n) ==
  \E s, b, u, r, c, d : FlowAt(sk, bf, un, rs, n, s, b, u, r, c, d)

LEMMA FlowPick ==
  ASSUME NEW sk, NEW bf, NEW un, NEW rs, NEW n, Flow(sk, bf, un, rs, n)
  PROVE  \E s, b, u, r, c, d \in Nat : FlowAt(sk, bf, un, rs, n, s, b, u, r, c, d)
BY DEF Flow, FlowAt

LEMMA FlowIs ==
  ASSUME NEW sk, NEW bf, NEW un, NEW rs, NEW n, Flow(sk, bf, un, rs, n)
  PROVE  /\ sk \in Bytes /\ bf \in Bytes /\ un \in Bytes /\ rs \in Bytes
         /\ Len(sk) \in Nat /\ Len(bf) \in Nat
         /\ bf = Stretch(Len(sk), Len(bf))
<1>1. PICK s, b, u, r, c, d \in Nat : FlowAt(sk, bf, un, rs, n, s, b, u, r, c, d)
  BY FlowPick
<1>2. sk = Stretch(0, s) /\ bf = Stretch(s, b) /\ un = Stretch(c, u) /\ rs = Stretch(d, r)
  BY <1>1 DEF FlowAt
<1>3. sk \in Bytes /\ Len(sk) = s
  BY <1>2, StretchIs
<1>4. bf \in Bytes /\ Len(bf) = b
  BY <1>2, StretchIs
<1>5. un \in Bytes /\ rs \in Bytes
  BY <1>2, StretchIs
<1> QED  BY <1>2, <1>3, <1>4, <1>5

LEMMA FlowCut ==
  ASSUME NEW sk, NEW bf, NEW un, NEW rs, NEW n, Flow(sk, bf, un, rs, n), NEW m \in 0..Len(bf)
  PROVE  Flow(sk \o Prefix(bf, m), From(bf, m), un, rs, n)
<1>1. PICK s, b, u, r, c, d \in Nat : FlowAt(sk, bf, un, rs, n, s, b, u, r, c, d)
  BY FlowPick
<1>2. bf = Stretch(s, b) /\ sk = Stretch(0, s) /\ c = s + b
  BY <1>1 DEF FlowAt
<1>3. m \in 0..b
  BY <1>2, StretchIs
<1>4. PICK e \in Nat, k \in Nat : e = s + m /\ b = m + k /\ c = e + k
  <2>1. b - m \in Nat /\ s + m \in Nat /\ b = m + (b - m) /\ c = s + m + (b - m)
    BY <1>2, <1>3
  <2> QED  BY <2>1
<1>5. Prefix(bf, m) = Stretch(s, m) /\ From(bf, m) = Stretch(e, k)
  <2>1. Joins(s, m, e, k, b)
    BY <1>3, <1>4 DEF Joins
  <2> QED  BY <1>2, <2>1, StretchParts
<1>6. sk \o Prefix(bf, m) = Stretch(0, e)
  <2>1. Joins(0, s, s, m, e)
    BY <1>3, <1>4 DEF Joins
  <2>2. Stretch(0, s) \o Stretch(s, m) = Stretch(0, e)
    BY <2>1, StretchJoin
  <2> QED  BY <1>2, <1>5, <2>2
<1>7. FlowAt(sk \o Prefix(bf, m), From(bf, m), un, rs, n, e, k, u, r, c, d)
  BY <1>1, <1>4, <1>5, <1>6 DEF FlowAt
<1> QED  BY <1>7 DEF Flow

LEMMA FlowGiven ==
  ASSUME NEW sk, NEW bf, NEW un, NEW rs, NEW n, Flow(sk, bf, un, rs, n)
  PROVE  Flow(sk, <<>>, bf \o un, rs, n)
<1>1. PICK s, b, u, r, c, d \in Nat : FlowAt(sk, bf, un, rs, n, s, b, u, r, c, d)
  BY FlowPick
<1>2. bf = Stretch(s, b) /\ un = Stretch(c, u) /\ c = s + b /\ d = c + u
  BY <1>1 DEF FlowAt
<1>3. PICK k \in Nat : k = b + u /\ s = s + 0 /\ d = s + k
  BY <1>2
<1>4. <<>> = Stretch(s, 0)
  BY StretchEmpty
<1>5. bf \o un = Stretch(s, k)
  <2>1. Joins(s, b, c, u, k)
    BY <1>2, <1>3 DEF Joins
  <2> QED  BY <1>2, <2>1, StretchJoin
<1>6. FlowAt(sk, <<>>, bf \o un, rs, n, s, 0, k, r, s, d)
  BY <1>1, <1>3, <1>4, <1>5 DEF FlowAt
<1> QED  BY <1>6 DEF Flow

LEMMA FlowRead ==
  ASSUME NEW n, Flow(sink, buffer, unread, rest, n),
         NEW max \in Nat, maxRead \in Nat \ {0}, NEW r \in Reads(max)
  PROVE  r.data \in Bytes /\ Flow(sink, buffer \o r.data, r.held, r.rest, n)
<1>1. PICK s, b, u, t, c, d \in Nat : FlowAt(sink, buffer, unread, rest, n, s, b, u, t, c, d)
  BY FlowPick
<1>2. /\ sink = Stretch(0, s) /\ buffer = Stretch(s, b) /\ unread = Stretch(c, u)
      /\ rest = Stretch(d, t) /\ c = s + b /\ d = c + u /\ n = d + t
  BY <1>1 DEF FlowAt
<1>3. Len(unread) = u
  BY <1>2, StretchIs
<1>4. Len(rest) = t
  BY <1>2, StretchIs
<1>5. CASE unread # <<>>
  <2>1. PICK m : m = Min({max, Len(unread)})
    OBVIOUS
  <2>2. r = [data |-> Prefix(unread, m), held |-> From(unread, m), rest |-> rest]
    BY <1>5, <2>1 DEF Reads
  <2>3. m \in 0..u /\ m \in Nat
    BY <1>3, <2>1, MinOfTwo
  <2>4. PICK e \in Nat, k \in Nat, f \in Nat :
          e = c + m /\ u = m + k /\ f = b + m /\ e = s + f /\ d = e + k
    <3>1. u - m \in Nat /\ u = m + (u - m) /\ c + m = s + (b + m) /\ d = c + m + (u - m)
      BY <1>2, <2>3
    <3> QED  BY <2>3, <3>1
  <2>5. Prefix(unread, m) = Stretch(c, m) /\ From(unread, m) = Stretch(e, k)
    <3>1. Joins(c, m, e, k, u)
      BY <2>3, <2>4 DEF Joins
    <3> QED  BY <1>2, <3>1, StretchParts
  <2>6. buffer \o Stretch(c, m) = Stretch(s, f)
    <3>1. Joins(s, b, c, m, f)
      BY <1>2, <2>3, <2>4 DEF Joins
    <3> QED  BY <1>2, <3>1, StretchJoin
  <2>7. FlowAt(sink, buffer \o Prefix(unread, m), From(unread, m), rest, n, s, f, k, t, e, d)
    BY <1>2, <2>4, <2>5, <2>6 DEF FlowAt
  <2>8. Stretch(c, m) \in Bytes
    BY <2>3, StretchIs
  <2> QED  BY <2>2, <2>5, <2>7, <2>8 DEF Flow
<1>6. CASE unread = <<>>
  <2>1. u = 0
    BY <1>3, <1>6
  <2>2. PICK m \in 1..Min({maxRead, Len(rest)}) :
          r = [data |-> Prefix(rest, m), held |-> <<>>, rest |-> From(rest, m)]
    BY <1>6 DEF Reads
  <2>3. m \in 0..t /\ m \in Nat
    BY <1>4, MinOfTwo
  <2>4. PICK e \in Nat, k \in Nat, f \in Nat :
          e = d + m /\ t = m + k /\ f = b + m /\ e = s + f /\ d = c /\ e = e + 0 /\ n = e + k
    <3>1. /\ t - m \in Nat /\ t = m + (t - m) /\ d + m = s + (b + m) /\ d = c
          /\ n = d + m + (t - m)
      BY <1>2, <2>1, <2>3
    <3>2. \A e \in Nat : e = e + 0
      OBVIOUS
    <3> QED  BY <2>3, <3>1, <3>2
  <2>5. Prefix(rest, m) = Stretch(d, m) /\ From(rest, m) = Stretch(e, k)
    <3>1. Joins(d, m, e, k, t)
      BY <2>3, <2>4 DEF Joins
    <3> QED  BY <1>2, <3>1, StretchParts
  <2>6. buffer \o Stretch(d, m) = Stretch(s, f)
    <3>1. Joins(s, b, d, m, f)
      BY <1>2, <2>3, <2>4 DEF Joins
    <3> QED  BY <1>2, <3>1, StretchJoin
  <2>7. <<>> = Stretch(e, 0)
    BY StretchEmpty
  <2>8. FlowAt(sink, buffer \o Prefix(rest, m), <<>>, From(rest, m), n, s, f, 0, k, e, e)
    BY <1>2, <2>4, <2>5, <2>6, <2>7 DEF FlowAt
  <2>9. Stretch(d, m) \in Bytes
    BY <2>3, StretchIs
  <2> QED  BY <2>2, <2>5, <2>8, <2>9 DEF Flow
<1> QED  BY <1>5, <1>6

LEMMA FlowShows ==
  ASSUME NEW sk, NEW bf, NEW un, NEW rs, NEW n, Flow(sk, bf, un, rs, n)
  PROVE  sk \o bf \o un \o rs = [i \in 1..n |-> i]
<1>1. PICK s, b, u, r, c, d \in Nat : FlowAt(sk, bf, un, rs, n, s, b, u, r, c, d)
  BY FlowPick
<1>2. /\ sk = Stretch(0, s) /\ bf = Stretch(s, b) /\ un = Stretch(c, u) /\ rs = Stretch(d, r)
      /\ c = s + b /\ d = c + u /\ n = d + r
  BY <1>1 DEF FlowAt
<1>3. Joins(0, s, s, b, c) /\ Joins(0, c, c, u, d) /\ Joins(0, d, d, r, n)
  BY <1>2 DEF Joins
<1>4. /\ Stretch(0, s) \o Stretch(s, b) = Stretch(0, c)
      /\ Stretch(0, c) \o Stretch(c, u) = Stretch(0, d)
      /\ Stretch(0, d) \o Stretch(d, r) = Stretch(0, n)
  BY <1>3, StretchJoin
<1>6. ((sk \o bf) \o un) \o rs = Stretch(0, n)
  BY <1>2, <1>4
<1>7. Stretch(0, n) = [i \in 1..n |-> i]
  <2>1. \A i \in 1..n : 0 + i = i
    BY <1>2
  <2> QED  BY <2>1 DEF Stretch
<1> QED  BY <1>6, <1>7
-----------------------------------------------------------------------------
(* What a parse keeps of the parser's state                                     *)
Shape(p) == DOMAIN p = {"wire", "cut", "left", "fed", "counted", "body", "size", "heard",
                        "parsed", "complete"}
Same(p, q) == /\ Shape(q) /\ q.left = p.left /\ q.fed = p.fed /\ q.counted = p.counted
              /\ q.heard = p.heard

LEMMA KeepIs ==
  ASSUME NEW p, Shape(p), NEW data
  PROVE  Same(p, Keep(p, data)) /\ Keep(p, data).size = p.size + Len(data)
BY DEF Keep, Same, Shape

LEMMA AttributeIs ==
  ASSUME NEW p, Shape(p), NEW data, NEW n
  PROVE  Same(p, Attribute(p, data, n)) /\ Attribute(p, data, n).size = p.size
BY DEF Attribute, Same, Shape

LEMMA DeliverIs ==
  ASSUME NEW p, Shape(p), NEW buf, NEW n
  PROVE  Same(p, Deliver(p, buf, n))
<1>1. \A data, m, x : Same(p, Keep(Attribute(p, data, m), x))
  BY KeepIs, AttributeIs DEF Same
<1> QED  BY <1>1 DEF Deliver

LEMMA DeliverLengthIs ==
  ASSUME NEW p, Shape(p), NEW data
  PROVE  Same(p, DeliverLength(p, data)) /\ DeliverLength(p, data).size = p.size + Len(data)
<1>1. ASSUME NEW m
      PROVE  /\ Same(p, Keep(Attribute(p, data, m), data))
             /\ Keep(Attribute(p, data, m), data).size = p.size + Len(data)
  <2>1. PICK q : q = Attribute(p, data, m)
    OBVIOUS
  <2>2. Same(p, q) /\ Shape(q) /\ q.size = p.size
    BY <2>1, AttributeIs DEF Same
  <2>3. Same(q, Keep(q, data)) /\ Keep(q, data).size = q.size + Len(data)
    BY <2>2, KeepIs
  <2> QED  BY <2>1, <2>2, <2>3 DEF Same
<1> QED  BY <1>1 DEF DeliverLength

(* What httptools has heard is a stretch, up to the bytes it was fed ahead of   *)
(* their attribution.                                                           *)
Consecutive(h) == h \in Bytes /\ \A i \in 1..(Len(h) - 1) : h[i + 1] = h[i] + 1
HeardTo(h, n) == Consecutive(h) /\ (h # <<>> => h[Len(h)] = n)

LEMMA HeardMore ==
  ASSUME NEW h, NEW a \in Nat, HeardTo(h, a), NEW m \in Nat
  PROVE  HeardTo(h \o Stretch(a, m), a + m)
<1>1. PICK k \in Nat : k = Len(h) /\ h \in Seq(Int)
  BY DEF HeardTo, Consecutive, Bytes
<1>2. PICK t \in Bytes : t = Stretch(a, m) /\ Len(t) = m /\ \A j \in 1..m : t[j] = a + j
  <2>1. a \in Int /\ m \in Nat
    OBVIOUS
  <2>2. /\ Stretch(a, m) \in Bytes /\ Len(Stretch(a, m)) = m
        /\ \A j \in 1..m : Stretch(a, m)[j] = a + j
    BY <2>1, StretchIs
  <2> QED  BY <2>2
<1>3. PICK c : c = h \o t
  OBVIOUS
<1>4. /\ c \in Seq(Int) /\ Len(c) = k + m
      /\ \A j \in 1..(k + m) : c[j] = IF j <= k THEN h[j] ELSE t[j - k]
  <2>1. /\ h \o t \in Seq(Int) /\ Len(h \o t) = Len(h) + Len(t)
        /\ \A j \in 1..(Len(h) + Len(t)) :
             (h \o t)[j] = IF j <= Len(h) THEN h[j] ELSE t[j - Len(h)]
    BY <1>1, ConcatProperties DEF Bytes
  <2> QED  BY <1>1, <1>2, <1>3, <2>1
<1>5. \A j \in 1..k : c[j] = h[j]
  BY <1>4
<1>6. ASSUME NEW j \in (k + 1)..(k + m) PROVE c[j] = a + (j - k)
  <2>1. j - k \in 1..m /\ j \in 1..(k + m) /\ ~(j <= k)
    OBVIOUS
  <2> QED  BY <1>2, <1>4, <2>1
<1>7. k # 0 => h # <<>> /\ h[k] = a
  BY <1>1 DEF HeardTo
<1>8. ASSUME NEW i \in 1..(Len(c) - 1) PROVE c[i + 1] = c[i] + 1
  <2>1. i \in 1..(k + m - 1)
    BY <1>4
  <2>2. CASE i < k
    <3>1. i \in 1..k /\ i + 1 \in 1..k /\ i \in 1..(k - 1)
      BY <2>1, <2>2
    <3> QED  BY <1>1, <1>5, <3>1 DEF HeardTo, Consecutive
  <2>3. CASE i = k
    <3>1. k # 0 /\ i \in 1..k /\ i + 1 \in (k + 1)..(k + m) /\ a + (i + 1 - k) = a + 1
      BY <2>1, <2>3
    <3> QED  BY <1>5, <1>6, <1>7, <2>3, <3>1
  <2>4. CASE i > k
    <3>1. /\ i \in (k + 1)..(k + m) /\ i + 1 \in (k + 1)..(k + m)
          /\ a + (i + 1 - k) = a + (i - k) + 1
      BY <2>1, <2>4
    <3> QED  BY <1>6, <3>1
  <2> QED  BY <2>1, <2>2, <2>3, <2>4
<1>9. ASSUME c # <<>> PROVE c[Len(c)] = a + m
  <2>1. CASE m = 0
    <3>1. Len(c) = k /\ k # 0 /\ k \in 1..k
      BY <1>4, <1>9, <2>1
    <3> QED  BY <1>5, <1>7, <2>1, <3>1
  <2>2. CASE m # 0
    <3>1. k + m \in (k + 1)..(k + m) /\ a + (k + m - k) = a + m
      BY <2>2
    <3> QED  BY <1>4, <1>6, <3>1
  <2> QED  BY <2>1, <2>2
<1> QED  BY <1>2, <1>3, <1>4, <1>8, <1>9 DEF HeardTo, Consecutive, Bytes

LEMMA FeedIs ==
  ASSUME NEW p, Shape(p), p.fed \in Nat, NEW s \in Nat, NEW b \in Nat, NEW buf,
         buf = Stretch(s, b), NEW n \in 0..b, HeardTo(p.heard, s + p.fed),
         Heading.upgrade => p.heard = <<>>
  PROVE  LET q == Feed(p, buf, n)
         IN /\ Shape(q) /\ q.left = p.left /\ q.fed = p.fed /\ q.counted = p.counted
            /\ Consecutive(q.heard) /\ (Heading.upgrade => q.heard = <<>>)
            /\ p.fed <= n => HeardTo(q.heard, s + n)
<1>1. CASE Heading.upgrade
  <2>1. Feed(p, buf, n) = p /\ p.heard = <<>>
    BY <1>1 DEF Feed
  <2>2. HeardTo(<<>>, s + n)
    BY DEF HeardTo, Consecutive, Bytes
  <2> QED  BY <2>1, <2>2 DEF HeardTo
<1>2. CASE ~Heading.upgrade
  <2>1. PICK h : h = p.heard \o From(Prefix(buf, n), p.fed)
    OBVIOUS
  <2>2. PICK q : q = Feed(p, buf, n)
    OBVIOUS
  <2>3. q = [p EXCEPT !.heard = h]
    BY <1>2, <2>1, <2>2 DEF Feed
  <2>4. Shape(q) /\ q.left = p.left /\ q.fed = p.fed /\ q.counted = p.counted /\ q.heard = h
    BY <2>3 DEF Shape
  <2>5. Prefix(buf, n) = Stretch(s, n) /\ n \in Nat
    <3>1. Joins(s, n, s + n, b - n, b)
      BY DEF Joins
    <3> QED  BY <3>1, StretchParts
  <2>6. CASE p.fed <= n
    <3>1. PICK e \in Nat, k \in Nat : e = s + p.fed /\ n = p.fed + k /\ e + k = s + n
      <4>1. s + p.fed \in Nat /\ n - p.fed \in Nat /\ s + p.fed + (n - p.fed) = s + n
            /\ n = p.fed + (n - p.fed)
        BY <2>5, <2>6
      <4> QED  BY <4>1
    <3>2. From(Stretch(s, n), p.fed) = Stretch(e, k)
      <4>1. Joins(s, p.fed, e, k, n)
        BY <2>5, <3>1 DEF Joins
      <4> QED  BY <4>1, StretchParts
    <3>3. HeardTo(h, s + n)
      <4>1. HeardTo(p.heard \o Stretch(e, k), e + k)
        BY <3>1, HeardMore
      <4> QED  BY <2>1, <2>5, <3>1, <3>2, <4>1
    <3> QED  BY <1>2, <2>2, <2>4, <3>3 DEF HeardTo
  <2>7. CASE ~(p.fed <= n)
    <3>1. Len(Stretch(s, n)) = n
      BY <2>5, StretchIs
    <3>2. From(Stretch(s, n), p.fed) = <<>>
      <4>1. p.fed + 1 \in Int /\ n \in Int /\ n < p.fed + 1
        BY <2>5, <2>7
      <4> QED  BY <3>1, <4>1, SubSeqEmpty DEF From
    <3>3. h = p.heard
      BY <2>1, <2>5, <3>2, ConcatEmptySeq DEF HeardTo, Consecutive, Bytes
    <3> QED  BY <1>2, <2>2, <2>4, <2>7, <3>3 DEF HeardTo
  <2> QED  BY <2>6, <2>7
<1> QED  BY <1>1, <1>2
-----------------------------------------------------------------------------
(* A parse call returns, having attributed n of the bytes it holds.             *)
Ends(buf, held) == \E q, n, stop :
  /\ Returns(q, buf, n, stop, held) /\ n \in 0..Len(buf) /\ Shape(q) /\ Consecutive(q.heard)

(* What a round of a chunked body begins with: bytes fed ahead of their         *)
(* attribution are one size line, at the start of the buffer, which begins at s *)
ChunkReady(p, s, buf) ==
  /\ Shape(p) /\ p.left \in Nat /\ p.fed \in 0..Len(buf) /\ p.counted \in Int
  /\ budget # None => p.counted <= budget
  /\ p.fed # 0 => p.left = 0 /\ LineOf(buf, 0, p.fed)
  /\ HeardTo(p.heard, s + p.fed)
  /\ Heading.upgrade => p.heard = <<>>

LEMMA Ended ==
  ASSUME NEW N, NEW buf, NEW held, NEW rs, Flow(sink, buf, held, rs, N), Ends(buf, held)
  PROVE  /\ Flow(sink', buffer', unread', rs, N)
         /\ pc' = "over" /\ Shape(parser') /\ Consecutive(parser'.heard)
         /\ \E o : outcomes' = Append(outcomes, o)
<1>1. PICK q, n, stop : /\ Returns(q, buf, n, stop, held) /\ n \in 0..Len(buf)
                        /\ Shape(q) /\ Consecutive(q.heard)
  BY DEF Ends
<1>2. /\ sink' = sink \o Prefix(buf, n) /\ unread' = From(buf, n) \o held /\ buffer' = <<>>
      /\ parser' = q /\ pc' = "over" /\ \E o : outcomes' = Append(outcomes, o)
  BY <1>1 DEF Returns
<1>3. Flow(sink \o Prefix(buf, n), From(buf, n), held, rs, N)
  BY <1>1, FlowCut
<1>4. Flow(sink \o Prefix(buf, n), <<>>, From(buf, n) \o held, rs, N)
  BY <1>3, FlowGiven
<1> QED  BY <1>1, <1>2, <1>4

LEMMA SameHeard ==
  ASSUME NEW p, NEW q, Same(p, q), Consecutive(p.heard)
  PROVE  Shape(q) /\ Consecutive(q.heard)
BY DEF Same

(* What httptools is fed next follows what it has heard.                         *)
LEMMA FeedShows ==
  ASSUME NEW p, NEW s \in Nat, NEW b \in Nat, NEW buf, buf = Stretch(s, b),
         ChunkReady(p, s, buf), NEW n \in 0..b
  PROVE  Shape(Feed(p, buf, n)) /\ Consecutive(Feed(p, buf, n).heard)
<1>1. /\ Shape(p) /\ HeardTo(p.heard, s + p.fed) /\ p.fed \in Nat
      /\ (Heading.upgrade => p.heard = <<>>)
  <2>1. Len(buf) = b
    BY StretchIs
  <2> QED  BY <2>1 DEF ChunkReady
<1> QED  BY <1>1, FeedIs

LEMMA ErrorEnds ==
  ASSUME NEW p, NEW s \in Nat, NEW b \in Nat, NEW buf, buf = Stretch(s, b),
         ChunkReady(p, s, buf), NEW n \in 0..b, Refused(Prefix(buf, n)) # {}, NEW held,
         BodyParseError(p, buf, n, held)
  PROVE  Ends(buf, held)
<1>0. buf \in Bytes /\ Len(buf) = b
  BY StretchIs
<1> DEFINE T == Refused(Prefix(buf, n))
<1>1. T \subseteq 1..n
  <2>1. Prefix(buf, n) \in Seq(Int) /\ Len(Prefix(buf, n)) = n
    BY <1>0, PrefixIs DEF Bytes
  <2>2. DOMAIN Prefix(buf, n) = 1..n
    BY <2>1
  <2> QED  BY <2>2 DEF Refused
<1>2. PICK bad : bad = Min(T)
  OBVIOUS
<1>3. bad \in T
  <2>1. T \in SUBSET Nat
    BY <1>1
  <2> HIDE DEF T
  <2>2. T # {}
    BY DEF T
  <2> QED  BY <1>2, <2>1, <2>2, MinIs
<1>4. bad \in 0..Len(buf)
  BY <1>0, <1>1, <1>3
<1>5. PICK f : f = Feed(p, buf, n)
  OBVIOUS
<1>6. Shape(f) /\ Consecutive(f.heard)
  BY <1>5, FeedShows
<1>7. Returns(Deliver(f, buf, bad), buf, bad, "parse_error", held)
  BY <1>2, <1>5 DEF BodyParseError
<1>8. Shape(Deliver(f, buf, bad)) /\ Consecutive(Deliver(f, buf, bad).heard)
  BY <1>6, DeliverIs, SameHeard
<1> QED  BY <1>4, <1>7, <1>8 DEF Ends

LEMMA FinishEnds ==
  ASSUME NEW p, NEW s \in Nat, NEW b \in Nat, NEW buf, buf = Stretch(s, b),
         ChunkReady(p, s, buf), NEW n \in 0..b, NEW stop, NEW complete, NEW held,
         FinishPrefix(p, buf, n, stop, complete, held)
  PROVE  Ends(buf, held)
<1>1. buf \in Bytes /\ Len(buf) = b
  BY StretchIs
<1>3. CASE Refused(Prefix(buf, n)) # {}
  <2>1. BodyParseError(p, buf, n, held)
    BY <1>3 DEF FinishPrefix
  <2> QED  BY <1>3, <2>1, ErrorEnds
<1>4. CASE Refused(Prefix(buf, n)) = {}
  <2>1. PICK f : f = Feed(p, buf, n)
    OBVIOUS
  <2>2. Shape(f) /\ Consecutive(f.heard)
    BY <2>1, FeedShows
  <2>3. PICK g : g = Deliver(f, buf, n)
    OBVIOUS
  <2>4. Shape(g) /\ Consecutive(g.heard)
    BY <2>2, <2>3, DeliverIs, SameHeard
  <2>5. PICK q : q = [g EXCEPT !.complete = complete]
    OBVIOUS
  <2>6. Shape(q) /\ Consecutive(q.heard)
    BY <2>4, <2>5 DEF Shape
  <2>7. Returns(q, buf, n, stop, held)
    BY <1>4, <2>1, <2>3, <2>5 DEF FinishPrefix
  <2> QED  BY <1>1, <2>6, <2>7 DEF Ends
<1> QED  BY <1>3, <1>4

LEMMA ScanErrorEnds ==
  ASSUME None \notin Nat, budget \in Nat \cup {None},
         NEW p, NEW s \in Nat, NEW b \in Nat, NEW buf, buf = Stretch(s, b),
         ChunkReady(p, s, buf), NEW bad \in 1..b, NEW held, ScanError(p, buf, bad, held)
  PROVE  Ends(buf, held)
<1>1. buf \in Bytes /\ Len(buf) = b
  BY StretchIs
<1>2. /\ p.left \in Nat
      /\ p.counted \in Int /\ (budget # None => p.counted <= budget)
  BY DEF ChunkReady
<1> DEFINE valid == ScanChunks(Prefix(buf, bad - 1), p.left)
           left == budget - p.counted
           limit == IF budget = None THEN None
                    ELSE IF LimitOffset(valid, left) = None /\ Sizes(valid.payloads) = left
                    THEN valid.resume ELSE LimitOffset(valid, left)
           accepted == Prefix(buf, Min({bad} \cup Refused(Prefix(buf, bad))) - 1)
           payload == Payload(accepted, ScanChunks(accepted, p.left))
           keep == WireKeep(p, Prefix(buf, bad - 1), Len(payload))
           fed == Feed(p, buf, bad)
<1>3. IF limit # None THEN FinishPrefix(p, buf, limit, "complete", FALSE, held)
      ELSE Returns(Keep(Attribute(fed, Prefix(buf, bad), keep), payload), buf, bad,
                   "parse_error", held)
  BY DEF ScanError
<1>4. valid \in Scans(bad - 1)
  <2>1. bad - 1 \in 0..Len(buf) /\ bad - 1 \in Nat
    BY <1>1
  <2>2. Prefix(buf, bad - 1) \in Bytes /\ Len(Prefix(buf, bad - 1)) = bad - 1
    BY <1>1, <2>1, PrefixIs DEF Bytes
  <2> QED  BY <1>2, <2>2, ScanGood
<1>5. limit # None => limit \in 0..b
  <2> SUFFICES ASSUME limit # None PROVE limit \in 0..b
    OBVIOUS
  <2>1. budget \in Nat /\ left \in Nat
    BY <1>2
  <2>2. bad - 1 \in Nat /\ valid.resume \in 0..(bad - 1)
    BY <1>4 DEF Scans
  <2>3. limit = valid.resume \/ limit = LimitOffset(valid, left)
    <3> HIDE DEF valid, left
    <3> QED  OBVIOUS
  <2>4. LimitOffset(valid, left) # None => LimitOffset(valid, left) \in 0..(bad - 1)
    <3> HIDE DEF valid, left
    <3> QED  BY <1>4, <2>1, <2>2, LimitIs
  <2> HIDE DEF limit, valid, left
  <2>5. limit \in 0..(bad - 1)
    BY <2>2, <2>3, <2>4
  <2> QED  BY <2>5
<1>8. Shape(fed) /\ Consecutive(fed.heard)
  <2>1. bad \in 0..b
    OBVIOUS
  <2> QED  BY <2>1, FeedShows
<1> HIDE DEF limit, valid, left, accepted, payload, keep, fed
<1>6. CASE limit # None
  BY <1>3, <1>5, <1>6, FinishEnds
<1>7. CASE limit = None
  <2>1. PICK g, q : g = Attribute(fed, Prefix(buf, bad), keep) /\ q = Keep(g, payload)
    OBVIOUS
  <2>2. Shape(g) /\ Consecutive(g.heard)
    BY <1>8, <2>1, AttributeIs, SameHeard
  <2>3. Shape(q) /\ Consecutive(q.heard)
    BY <2>1, <2>2, KeepIs, SameHeard
  <2>4. Returns(q, buf, bad, "parse_error", held)
    BY <1>3, <1>7, <2>1
  <2>5. bad \in 0..Len(buf)
    BY <1>1
  <2> QED  BY <2>3, <2>4, <2>5 DEF Ends
<1> QED  BY <1>6, <1>7
-----------------------------------------------------------------------------
(* A round that ends neither the body nor the call                              *)
Rounds(buf, held, s) == \E n \in 0..Len(buf) :
  /\ sink' = sink \o Prefix(buf, n) /\ buffer' = From(buf, n) /\ unread' = held
  /\ pc' = "chunked" /\ outcomes' = outcomes /\ ChunkReady(parser', s + n, buffer')

(* _chunk_delivery: where the bytes attributed and the bytes fed end            *)
LEMMA DeliveryIs ==
  ASSUME NEW buf \in Bytes, NEW left \in Nat, NEW b \in Nat, b = Len(buf),
         NEW scan, scan = ScanChunks(buf, left), NEW d, d = Delivery(scan, b)
  PROVE  /\ d.length \in 0..b /\ d.feed \in 0..b /\ d.length <= d.feed /\ d.left \in Nat
         /\ \/ d.payload = Sizes(scan.payloads)
            \/ d.payload = Sizes(Spans(scan)) /\ scan.partial # None
         /\ d.feed # d.length => d.left = 0 /\ d.feed = b /\ LineOf(buf, d.length, b)
         /\ d.feed = scan.resume \/ d.feed = b
<1>1. /\ scan \in Scans(b)
      /\ Awaits(scan) => LineOf(buf, scan.resume, b) \/ b = 0
  BY ScanGood
<1>2. scan.resume \in 0..b /\ scan.left \in Nat
  BY <1>1 DEF Scans
<1>3. CASE scan.partial = None \/ scan.left = 0
  <2>1. d = [length |-> scan.resume, feed |-> scan.resume, left |-> 0,
             payload |-> Sizes(scan.payloads)]
    BY <1>3 DEF Delivery
  <2> QED  BY <1>2, <2>1
<1>4. CASE scan.partial # None /\ scan.left # 0 /\ scan.partial[2] > scan.partial[1]
  <2>1. d = [length |-> b, feed |-> b, left |-> scan.left, payload |-> Sizes(Spans(scan))]
    BY <1>4 DEF Delivery
  <2> QED  BY <1>2, <1>4, <2>1
<1>5. CASE scan.partial # None /\ scan.left # 0 /\ ~(scan.partial[2] > scan.partial[1])
  <2>1. d = [length |-> scan.resume, feed |-> b, left |-> 0, payload |-> Sizes(scan.payloads)]
    BY <1>5 DEF Delivery
  <2>2. scan.partial \in Nat \X Nat
    BY <1>1, <1>5 DEF Scans, Part
  <2>3. Awaits(scan)
    BY <1>5, <2>2 DEF Awaits
  <2>4. LineOf(buf, scan.resume, b) \/ b = 0
    BY <1>1, <2>3
  <2> QED  BY <1>2, <2>1, <2>4
<1> QED  BY <1>3, <1>4, <1>5

LEMMA ChunkRoundIs ==
  ASSUME None \notin Nat, budget \in Nat \cup {None},
         NEW p, NEW s \in Nat, NEW b \in Nat, NEW buf, buf = Stretch(s, b),
         ChunkReady(p, s, buf), NEW held, ChunkRound(p, buf, held)
  PROVE  Ends(buf, held) \/ Rounds(buf, held, s)
<1>1. buf \in Bytes /\ Len(buf) = b
  BY StretchIs
<1>2. /\ Shape(p) /\ Consecutive(p.heard) /\ HeardTo(p.heard, s + p.fed) /\ p.left \in Nat
      /\ p.counted \in Int /\ (budget # None => p.counted <= budget) /\ p.fed \in 0..b
      /\ (p.fed # 0 => p.left = 0 /\ LineOf(buf, 0, p.fed))
      /\ (Heading.upgrade => p.heard = <<>>)
  BY <1>1 DEF ChunkReady, HeardTo
<1>3. PICK scan : scan = ScanChunks(buf, p.left)
  OBVIOUS
<1>4. PICK d : d = Delivery(scan, b)
  OBVIOUS
<1>5. PICK limit : limit = IF budget = None THEN None ELSE LimitOffset(scan, budget - p.counted)
  OBVIOUS
<1>6. IF scan.bad # None THEN ScanError(p, buf, scan.bad, held)
      ELSE IF limit # None THEN FinishPrefix(p, buf, limit, "complete", FALSE, held)
      ELSE IF scan.end # None THEN FinishPrefix(p, buf, scan.end, "complete", TRUE, held)
      ELSE IF Refused(Prefix(buf, d.feed)) # {} THEN BodyParseError(p, buf, d.feed, held)
      ELSE /\ parser' = IF d.feed = 0 THEN p
                        ELSE [Deliver(Feed(p, buf, d.feed), buf, d.length) EXCEPT
                                !.left = d.left, !.fed = d.feed - d.length,
                                !.counted = @ + d.payload]
           /\ sink' = sink \o Prefix(buf, d.length) /\ buffer' = From(buf, d.length)
           /\ unread' = held /\ pc' = "chunked" /\ UNCHANGED outcomes
  BY <1>1, <1>3, <1>4, <1>5 DEF ChunkRound
<1>7. /\ scan \in Scans(b)
      /\ p.fed # 0 => scan.resume = 0 \/ scan.resume > p.fed
  BY <1>1, <1>2, <1>3, ScanGood
<1>8. /\ scan.bad # None => scan.bad \in 1..b
      /\ scan.end # None => scan.end \in 0..b
      /\ scan.resume \in 0..b
  BY <1>7 DEF Scans
<1>9. budget # None => budget \in Nat /\ budget - p.counted \in Nat
  BY <1>2
<1>10. limit # None => limit \in 0..b
  BY <1>5, <1>7, <1>9, LimitIs
<1>11. CASE scan.bad # None
  <2>1. ScanError(p, buf, scan.bad, held) /\ scan.bad \in 1..b
    BY <1>6, <1>8, <1>11
  <2> QED  BY <2>1, ScanErrorEnds
<1>12. CASE scan.bad = None /\ limit # None
  <2>1. FinishPrefix(p, buf, limit, "complete", FALSE, held) /\ limit \in 0..b
    BY <1>6, <1>10, <1>12
  <2> QED  BY <2>1, FinishEnds
<1>13. CASE scan.bad = None /\ limit = None /\ scan.end # None
  <2>1. FinishPrefix(p, buf, scan.end, "complete", TRUE, held) /\ scan.end \in 0..b
    BY <1>6, <1>8, <1>13
  <2> QED  BY <2>1, FinishEnds
<1>14. /\ d.length \in 0..b /\ d.feed \in 0..b /\ d.length <= d.feed /\ d.left \in Nat
       /\ \/ d.payload = Sizes(scan.payloads)
          \/ d.payload = Sizes(Spans(scan)) /\ scan.partial # None
       /\ d.feed # d.length => d.left = 0 /\ d.feed = b /\ LineOf(buf, d.length, b)
       /\ d.feed = scan.resume \/ d.feed = b
  BY <1>1, <1>2, <1>3, <1>4, DeliveryIs
<1>15. CASE scan.bad = None /\ limit = None /\ scan.end = None /\ Refused(Prefix(buf, d.feed)) # {}
  <2>1. PICK m \in 0..b : m = d.feed
    BY <1>14
  <2>2. BodyParseError(p, buf, m, held) /\ Refused(Prefix(buf, m)) # {}
    BY <1>6, <1>15, <2>1
  <2> QED  BY <2>2, ErrorEnds
<1>16. CASE scan.bad = None /\ limit = None /\ scan.end = None /\ Refused(Prefix(buf, d.feed)) = {}
  <2>1. PICK n \in 0..b, m \in 0..b : n = d.length /\ m = d.feed /\ n <= m
    BY <1>14
  <2>2. /\ parser' = IF m = 0 THEN p
                     ELSE [Deliver(Feed(p, buf, m), buf, n) EXCEPT
                             !.left = d.left, !.fed = m - n, !.counted = @ + d.payload]
        /\ sink' = sink \o Prefix(buf, n) /\ buffer' = From(buf, n)
        /\ unread' = held /\ pc' = "chunked" /\ outcomes' = outcomes
    BY <1>6, <1>16, <2>1
  <2>3. ChunkReady(parser', s + n, buffer')
    <3>1. CASE m = 0
      <4>1. n = 0 /\ s + n = s /\ parser' = p
        BY <2>1, <2>2, <3>1
      <4>2. From(buf, 0) = buf
        <5>1. SubSeq(buf, 1, Len(buf)) = buf
          BY <1>1, SubSeqFull DEF Bytes
        <5> QED  BY <5>1 DEF From
      <4> QED  BY <2>2, <4>1, <4>2
    <3>2. CASE m # 0
      <4>1. p.fed <= m
        BY <1>2, <1>7, <1>8, <1>14, <2>1, <3>2
      <4>2. PICK f : f = Feed(p, buf, m)
        OBVIOUS
      <4>3. /\ Shape(f) /\ f.counted = p.counted /\ HeardTo(f.heard, s + m)
            /\ (Heading.upgrade => f.heard = <<>>)
        BY <1>2, <4>1, <4>2, FeedIs
      <4>4. PICK g : g = Deliver(f, buf, n)
        OBVIOUS
      <4>5. Shape(g) /\ g.counted = p.counted /\ g.heard = f.heard
        BY <4>3, <4>4, DeliverIs DEF Same
      <4>6. PICK q : q = [g EXCEPT !.left = d.left, !.fed = m - n, !.counted = @ + d.payload]
        OBVIOUS
      <4>7. /\ Shape(q) /\ q.left = d.left /\ q.fed = m - n /\ q.heard = f.heard
            /\ q.counted = p.counted + d.payload
        BY <4>5, <4>6 DEF Shape
      <4>8. parser' = q
        BY <2>2, <3>2, <4>2, <4>4, <4>6
      <4>9. PICK c : c = From(buf, n)
        OBVIOUS
      <4>10. Len(c) = b - n
        BY <1>1, <4>9, FromIs DEF Bytes
      <4>11. d.payload \in Int /\ (budget # None => p.counted + d.payload <= budget)
        <5>1. Sizes(scan.payloads) \in Int /\ (scan.partial # None => Sizes(Spans(scan)) \in Int)
          <6>1. /\ scan.payloads \in Seq(Nat \X Nat)
                /\ scan.partial # None => scan.partial \in Nat \X Nat
            <7>1. Whole(b) \subseteq Nat \X Nat /\ Part(b) \subseteq Nat \X Nat
              BY DEF Whole, Part
            <7>2. scan.payloads \in Seq(Whole(b)) /\ scan.partial \in Part(b) \cup {None}
              BY <1>7 DEF Scans
            <7> QED  BY <7>1, <7>2, SeqMonotonic
          <6>2. scan.partial # None => Spans(scan) \in Seq(Nat \X Nat)
            BY <6>1, AppendProperties DEF Spans
          <6> QED  BY <6>1, <6>2, SizesInt
        <5>2. d.payload \in Int
          BY <1>14, <5>1
        <5>3. ASSUME budget # None PROVE d.payload <= budget - p.counted
          <6>1. /\ Sizes(scan.payloads) <= budget - p.counted
                /\ scan.partial # None => Sizes(Spans(scan)) <= budget - p.counted
            <7>1. LimitOffset(scan, budget - p.counted) = None
              BY <1>5, <1>16, <5>3
            <7> QED  BY <1>7, <1>9, <5>3, <7>1, LimitIs
          <6> QED  BY <1>14, <6>1
        <5> QED  BY <1>2, <1>9, <5>2, <5>3
      <4>12. q.fed # 0 => q.left = 0 /\ LineOf(c, 0, q.fed)
        <5> SUFFICES ASSUME q.fed # 0 PROVE q.left = 0 /\ LineOf(c, 0, q.fed)
          OBVIOUS
        <5>1. m # n
          BY <2>1, <4>7
        <5>2. d.left = 0 /\ m = b /\ LineOf(buf, n, b)
          BY <1>14, <2>1, <5>1
        <5>3. LineOf(c, 0, Len(c))
          BY <1>1, <4>9, <5>2, LineShifts
        <5> QED  BY <4>7, <4>10, <5>2, <5>3
      <4>13. HeardTo(q.heard, s + n + q.fed)
        <5>1. s + n + q.fed = s + m
          BY <2>1, <4>7
        <5> QED  BY <4>3, <4>7, <5>1
      <4>14. q.fed \in 0..Len(c)
        BY <2>1, <4>7, <4>10
      <4>15. ChunkReady(q, s + n, c)
        BY <1>14, <1>2, <4>3, <4>7, <4>11, <4>12, <4>13, <4>14 DEF ChunkReady
      <4> QED  BY <2>2, <4>8, <4>9, <4>15
    <3> QED  BY <3>1, <3>2
  <2> QED  BY <1>1, <2>2, <2>3 DEF Rounds
<1> QED  BY <1>11, <1>12, <1>13, <1>15, <1>16
-----------------------------------------------------------------------------
(* The inductive invariant                                                      *)
Fresh(p) == /\ Shape(p) /\ p.heard = <<>> /\ p.fed = 0 /\ p.left = 0 /\ p.counted = 0
            /\ p.size = 0

SettingOk == stream \in Scenarios /\ maxRead \in MaxReads /\ budget \in Limits
HeadingOk == /\ \E S : outcomes \in Seq(S)
             /\ pc # "over" => Len(outcomes) < Len(stream.heads)
\* Once a cancelled call has lost bytes, nothing holds any and no request follows.
LossEnds == lost # <<>> => /\ pc = "over" /\ buffer = <<>> /\ outcomes # <<>>
                           /\ Last(outcomes).stop = "cancelled"
                           /\ Last(outcomes).p.size = 0 /\ Last(outcomes).p.heard = <<>>
Held == IF lost = <<>> THEN buffer ELSE lost
Placed == LossEnds /\ Flow(sink, Held, unread, rest, Len(stream.bytes))
ParserReady ==
  /\ Shape(parser) /\ Consecutive(parser.heard)
  /\ pc \in {"head", "between"} => Fresh(parser)
  /\ pc = "length" => buffer = <<>> /\ parser.size \in Nat /\ parser.size < Target
  /\ pc = "chunked" => ChunkReady(parser, Len(sink), buffer)
ByteInv == SettingOk /\ HeadingOk /\ Placed /\ ParserReady

LEMMA SettingTypes ==
  ASSUME ByteInv
  PROVE  /\ None \notin Nat /\ maxRead \in Nat \ {0} /\ budget \in Nat \cup {None}
         /\ pc # "over" => Heading \in Heads /\ Heading.length \in Nat /\ Target \in Nat
<1>1. /\ None \notin Nat /\ maxRead \in Nat \ {0} /\ budget \in Nat \cup {None}
      /\ stream.heads \in Seq(Heads)
  BY ParserAssumption DEF ByteInv, SettingOk
<1>2. ASSUME pc # "over" PROVE Heading \in Heads
  <2>1. PICK S : outcomes \in Seq(S)
    BY DEF ByteInv, HeadingOk
  <2>2. Len(outcomes) \in Nat /\ Len(outcomes) < Len(stream.heads)
    BY <1>2, <2>1 DEF ByteInv, HeadingOk
  <2>3. Len(outcomes) + 1 \in 1..Len(stream.heads)
    BY <1>1, <2>2
  <2> QED  BY <1>1, <2>3 DEF Heading
<1>3. ASSUME pc # "over" PROVE Heading.length \in Nat
  BY <1>2, <1>3 DEF Heads
<1>4. ASSUME pc # "over" PROVE Target \in Nat
  <2>1. budget # None => budget \in Nat /\ Min({budget, Heading.length}) \in Nat
    BY <1>1, <1>3, <1>4, MinOfTwo
  <2> QED  BY <1>3, <1>4, <2>1 DEF Target
<1> QED  BY <1>1, <1>2, <1>3, <1>4

LEMMA NothingLost ==
  ASSUME ByteInv, pc # "over"
  PROVE  lost = <<>> /\ Flow(sink, buffer, unread, rest, Len(stream.bytes))
BY DEF ByteInv, Placed, LossEnds, Held

LEMMA PlacedNext ==
  ASSUME lost' = <<>>, stream' = stream,
         Flow(sink', buffer', unread', rest', Len(stream.bytes))
  PROVE  Placed'
BY DEF Placed, LossEnds, Held

LEMMA LineNext ==
  ASSUME stream' = stream, LineOf(buffer', 0, parser'.fed)
  PROVE  LineOf(buffer, 0, parser.fed)'
BY DEF LineOf, SizeLine, At, Sym

LEMMA ChunkReadyNext ==
  ASSUME UNCHANGED <<stream, budget, outcomes>>, ChunkReady(parser', Len(sink'), buffer')
  PROVE  ChunkReady(parser, Len(sink), buffer)'
<1>1. parser'.fed # 0 => LineOf(buffer, 0, parser.fed)'
  BY LineNext DEF ChunkReady
<1>2. Heading' = Heading
  BY DEF Heading
<1> QED  BY <1>1, <1>2 DEF ChunkReady

LEMMA EndsKeeps ==
  ASSUME ByteInv, pc # "over", NEW buf, NEW held,
         Flow(sink, buf, held, rest', Len(stream.bytes)), Ends(buf, held), UNCHANGED fixed
  PROVE  ByteInv'
<1>1. /\ Flow(sink', buffer', unread', rest', Len(stream.bytes))
      /\ pc' = "over" /\ Shape(parser') /\ Consecutive(parser'.heard)
      /\ \E o : outcomes' = Append(outcomes, o)
  BY Ended
<1>2. UNCHANGED <<stream, maxRead, budget>> /\ lost' = lost
  BY DEF fixed, setting
<1>3. \E S : outcomes' \in Seq(S)
  <2>1. PICK S, o : outcomes \in Seq(S) /\ outcomes' = Append(outcomes, o)
    BY <1>1 DEF ByteInv, HeadingOk
  <2>2. outcomes \in Seq(S \cup {o}) /\ o \in S \cup {o}
    BY <2>1, SeqMonotonic
  <2>3. outcomes' \in Seq(S \cup {o})
    BY <2>1, <2>2, AppendProperties
  <2> QED  BY <2>3
<1>4. HeadingOk'
  BY <1>1, <1>3 DEF HeadingOk
<1>5. Placed'
  BY <1>1, <1>2, NothingLost, PlacedNext
<1>6. SettingOk'
  BY <1>2 DEF ByteInv, SettingOk
<1>7. ParserReady'
  BY <1>1 DEF ParserReady
<1> QED  BY <1>4, <1>5, <1>6, <1>7 DEF ByteInv

LEMMA RoundsKeep ==
  ASSUME ByteInv, pc # "over", NEW buf, NEW held,
         Flow(sink, buf, held, rest', Len(stream.bytes)),
         Rounds(buf, held, Len(sink)), UNCHANGED fixed
  PROVE  ByteInv'
<1>1. PICK n \in 0..Len(buf) :
        /\ sink' = sink \o Prefix(buf, n) /\ buffer' = From(buf, n) /\ unread' = held
        /\ pc' = "chunked" /\ outcomes' = outcomes /\ ChunkReady(parser', Len(sink) + n, buffer')
  BY DEF Rounds
<1>2. UNCHANGED <<stream, maxRead, budget>> /\ lost' = lost
  BY DEF fixed, setting
<1>3. Flow(sink', buffer', unread', rest', Len(stream.bytes))
  BY <1>1, FlowCut
<1>4. Len(sink') = Len(sink) + n
  <2>1. sink \in Seq(Int) /\ buf \in Seq(Int)
    BY FlowIs DEF Bytes
  <2>2. Prefix(buf, n) \in Seq(Int) /\ Len(Prefix(buf, n)) = n
    BY <2>1, PrefixIs
  <2> QED  BY <1>1, <2>1, <2>2, ConcatProperties
<1>5. ChunkReady(parser', Len(sink'), buffer')
  BY <1>1, <1>4
<1>6. ChunkReady(parser, Len(sink), buffer)'
  BY <1>1, <1>2, <1>5, ChunkReadyNext
<1>7. Shape(parser') /\ Consecutive(parser'.heard)
  BY <1>5 DEF ChunkReady, HeardTo
<1>8. SettingOk' /\ HeadingOk'
  BY <1>1, <1>2 DEF ByteInv, SettingOk, HeadingOk
<1>9. Placed'
  BY <1>2, <1>3, NothingLost, PlacedNext
<1>10. ParserReady'
  BY <1>1, <1>6, <1>7 DEF ParserReady
<1> QED  BY <1>8, <1>9, <1>10 DEF ByteInv
-----------------------------------------------------------------------------
(* One lemma per action                                                         *)
LEMMA ReadHeadKeeps ==
  ASSUME ByteInv, ReadHead
  PROVE  ByteInv'
<1>1. PICK r \in Reads(maxRead) :
        /\ pc = "head" /\ HeadRound(parser, buffer \o r.data, r.held)
        /\ rest' = r.rest /\ UNCHANGED fixed
  BY DEF ReadHead
<1>2. UNCHANGED <<stream, maxRead, budget>> /\ lost' = lost
  BY <1>1 DEF fixed, setting
<1>3. PICK buf, held, N : buf = buffer \o r.data /\ held = r.held /\ N = Len(stream.bytes)
  OBVIOUS
<1>4. Flow(sink, buf, held, rest', N)
  <2>1. maxRead \in Nat /\ maxRead \in Nat \ {0} /\ Flow(sink, buffer, unread, rest, N)
    BY <1>1, <1>3, SettingTypes, NothingLost
  <2>2. Flow(sink, buffer \o r.data, r.held, r.rest, N)
    BY <2>1, FlowRead
  <2> QED  BY <1>1, <1>3, <2>2
<1>5. buf \in Bytes
  BY <1>4, FlowIs
<1>6. Fresh(parser) /\ Shape(parser) /\ Consecutive(parser.heard)
  BY <1>1 DEF ByteInv, ParserReady
<1> DEFINE ends == {i \in DOMAIN buf : Sym(buf[i]) = "H"}
           bad == {i \in DOMAIN buf : Sym(buf[i]) = "x" /\ \A j \in ends : i < j}
           end == Min(ends)
           q == [parser EXCEPT !.wire = Prefix(buf, end), !.parsed = TRUE]
<1>7. IF bad # {}
      THEN Returns([parser EXCEPT !.wire = Prefix(buf, Min(bad))], buf, Min(bad),
                   "parse_error", held)
      ELSE IF ends = {}
      THEN buffer' = buf /\ unread' = held /\ UNCHANGED <<sink, parser, pc, outcomes>>
      ELSE IF Heading.framing = "refused" THEN Returns(q, buf, end, "parse_error", held)
      ELSE /\ parser' = [q EXCEPT !.complete = CompleteAtHead]
           /\ sink' = sink \o Prefix(buf, end) /\ buffer' = From(buf, end)
           /\ unread' = held /\ pc' = "between" /\ UNCHANGED outcomes
  BY <1>1, <1>3 DEF HeadRound
<1>8. /\ ends \in SUBSET Nat /\ bad \in SUBSET Nat
      /\ ends \subseteq 0..Len(buf) /\ bad \subseteq 0..Len(buf)
  <2>1. DOMAIN buf \subseteq 0..Len(buf) /\ DOMAIN buf \subseteq Nat
    BY <1>5 DEF Bytes
  <2> QED  BY <2>1
<1>9. Shape(q) /\ Fresh(q) /\ Consecutive(q.heard)
  BY <1>6 DEF Fresh, Shape
<1> HIDE DEF ends, bad, end, q
<1>10. CASE bad # {}
  <2>1. PICK x : x = [parser EXCEPT !.wire = Prefix(buf, Min(bad))]
    OBVIOUS
  <2>2. Shape(x) /\ Consecutive(x.heard)
    BY <1>6, <2>1 DEF Shape
  <2>3. Min(bad) \in bad
    BY <1>8, <1>10, MinIs
  <2>4. Min(bad) \in 0..Len(buf)
    BY <1>8, <2>3
  <2>5. Ends(buf, held)
    BY <1>7, <1>10, <2>1, <2>2, <2>4 DEF Ends
  <2> QED  BY <1>1, <1>3, <1>4, <2>5, EndsKeeps
<1>11. CASE bad = {} /\ ends = {}
  <2>1. buffer' = buf /\ unread' = held /\ UNCHANGED <<sink, parser, pc, outcomes>>
    BY <1>7, <1>11
  <2>2. Placed'
    BY <1>1, <1>2, <1>3, <1>4, <2>1, NothingLost, PlacedNext
  <2>3. SettingOk' /\ HeadingOk'
    BY <1>2, <2>1 DEF ByteInv, SettingOk, HeadingOk
  <2>4. ParserReady'
    BY <1>1, <1>6, <2>1 DEF ParserReady
  <2> QED  BY <2>2, <2>3, <2>4 DEF ByteInv
<1>12. CASE bad = {} /\ ends # {}
  <2>1. end \in 0..Len(buf)
    <3>1. end \in ends
      BY <1>8, <1>12, MinIs DEF end
    <3> QED  BY <1>8, <3>1
  <2>2. CASE Heading.framing = "refused"
    <3>1. Ends(buf, held)
      BY <1>7, <1>9, <1>12, <2>1, <2>2 DEF Ends
    <3> QED  BY <1>1, <1>3, <1>4, <3>1, EndsKeeps
  <2>3. CASE Heading.framing # "refused"
    <3>1. /\ parser' = [q EXCEPT !.complete = CompleteAtHead]
          /\ sink' = sink \o Prefix(buf, end) /\ buffer' = From(buf, end)
          /\ unread' = held /\ pc' = "between" /\ outcomes' = outcomes
      BY <1>7, <1>12, <2>3
    <3>2. Fresh(parser') /\ Shape(parser') /\ Consecutive(parser'.heard)
      BY <1>9, <3>1 DEF Fresh, Shape
    <3>3. Flow(sink \o Prefix(buf, end), From(buf, end), held, rest', N)
      BY <1>4, <2>1, FlowCut
    <3>4. Placed'
      BY <1>1, <1>2, <1>3, <3>1, <3>3, NothingLost, PlacedNext
    <3>5. SettingOk' /\ HeadingOk'
      BY <1>1, <1>2, <3>1 DEF ByteInv, SettingOk, HeadingOk
    <3>6. ParserReady'
      BY <3>1, <3>2 DEF ParserReady
    <3> QED  BY <3>4, <3>5, <3>6 DEF ByteInv
  <2> QED  BY <2>2, <2>3
<1> QED  BY <1>10, <1>11, <1>12
-----------------------------------------------------------------------------
LEMMA ChunkReadyMore ==
  ASSUME NEW p, NEW s, NEW buf \in Bytes, NEW data \in Bytes, ChunkReady(p, s, buf)
  PROVE  ChunkReady(p, s, buf \o data)
<1>1. PICK b \in Nat, d \in Nat : b = Len(buf) /\ d = Len(data)
  BY DEF Bytes
<1>2. Len(buf \o data) = b + d
  BY <1>1, ConcatProperties DEF Bytes
<1>3. p.fed \in 0..Len(buf \o data)
  <2>1. p.fed \in 0..b
    BY <1>1 DEF ChunkReady
  <2> QED  BY <1>2, <2>1
<1>4. p.fed # 0 => LineOf(buf \o data, 0, p.fed)
  BY LineStays DEF ChunkReady
<1> QED  BY <1>3, <1>4 DEF ChunkReady

LEMMA ReadChunkedKeeps ==
  ASSUME ByteInv, ReadChunked
  PROVE  ByteInv'
<1>1. PICK r \in Reads(maxRead) :
        /\ pc = "chunked" /\ ChunkRound(parser, buffer \o r.data, r.held)
        /\ rest' = r.rest /\ UNCHANGED fixed
  BY DEF ReadChunked
<1>2. PICK buf, held, N : buf = buffer \o r.data /\ held = r.held /\ N = Len(stream.bytes)
  OBVIOUS
<1>3. r.data \in Bytes /\ Flow(sink, buf, held, rest', N) /\ buffer \in Bytes
  <2>1. maxRead \in Nat /\ maxRead \in Nat \ {0} /\ Flow(sink, buffer, unread, rest, N)
    BY <1>1, <1>2, SettingTypes, NothingLost
  <2>2. r.data \in Bytes /\ Flow(sink, buffer \o r.data, r.held, r.rest, N)
    BY <2>1, FlowRead
  <2>3. buffer \in Bytes
    BY <2>1, FlowIs
  <2> QED  BY <1>1, <1>2, <2>2, <2>3
<1>4. PICK s \in Nat, b \in Nat : s = Len(sink) /\ buf = Stretch(s, b)
  BY <1>3, FlowIs
<1>5. ChunkReady(parser, s, buf)
  <2>1. ChunkReady(parser, s, buffer)
    BY <1>1, <1>4 DEF ByteInv, ParserReady
  <2> QED  BY <1>2, <1>3, <2>1, ChunkReadyMore
<1>6. Ends(buf, held) \/ Rounds(buf, held, s)
  <2>1. ChunkRound(parser, buf, held)
    BY <1>1, <1>2
  <2>2. None \notin Nat /\ budget \in Nat \cup {None}
    BY SettingTypes
  <2> QED  BY <1>4, <1>5, <2>1, <2>2, ChunkRoundIs
<1>7. CASE Ends(buf, held)
  BY <1>1, <1>2, <1>3, <1>7, EndsKeeps
<1>8. CASE Rounds(buf, held, s)
  <2>1. pc # "over" /\ Rounds(buf, held, Len(sink))
    BY <1>1, <1>4, <1>8
  <2> QED  BY <1>1, <1>2, <1>3, <2>1, RoundsKeep
<1> QED  BY <1>6, <1>7, <1>8

LEMMA LengthRoundKeeps ==
  ASSUME ByteInv, pc # "over", NEW p, Shape(p), Consecutive(p.heard), p.size \in Nat,
         p.size <= Target, NEW buf, NEW held, Flow(sink, buf, held, rest', Len(stream.bytes)),
         LengthRound(p, buf, held), UNCHANGED fixed
  PROVE  ByteInv'
<1>1. UNCHANGED <<stream, maxRead, budget>> /\ lost' = lost
  BY DEF fixed, setting
<1>2. PICK b \in Nat : b = Len(buf) /\ buf \in Seq(Int)
  BY FlowIs DEF Bytes
<1>3. PICK t \in Nat, z \in Nat : t = Target /\ z = p.size /\ z <= t
  BY SettingTypes
<1>4. PICK n : n = Min({b, t - z})
  OBVIOUS
<1>5. n \in 0..b /\ (n = b \/ n = t - z) /\ n <= t - z
  <2>1. t - z \in Nat
    BY <1>3
  <2> QED  BY <1>4, <2>1, MinOfTwo
<1>6. PICK g : g = DeliverLength(p, Prefix(buf, n))
  OBVIOUS
<1>7. PICK q : q = [g EXCEPT !.complete = p.size + n = Heading.length]
  OBVIOUS
<1>8. Shape(q) /\ Consecutive(q.heard) /\ q.size = z + n
  <2>1. Len(Prefix(buf, n)) = n
    BY <1>2, <1>5, PrefixIs
  <2>2. Same(p, g) /\ g.size = p.size + n
    BY <1>6, <2>1, DeliverLengthIs
  <2>3. Shape(g) /\ Consecutive(g.heard)
    BY <2>2, SameHeard
  <2>4. Shape(q) /\ q.heard = g.heard /\ q.size = g.size
    BY <1>7, <2>3 DEF Shape
  <2> QED  BY <1>3, <2>2, <2>3, <2>4
<1>9. IF q.size = t THEN Returns(q, buf, n, "complete", held)
      ELSE /\ parser' = q /\ sink' = sink \o buf /\ buffer' = <<>>
           /\ unread' = held /\ pc' = "length" /\ UNCHANGED outcomes
  BY <1>2, <1>3, <1>4, <1>6, <1>7 DEF LengthRound
<1>10. CASE q.size = t
  <2>1. Ends(buf, held)
    BY <1>2, <1>5, <1>8, <1>9, <1>10 DEF Ends
  <2> QED  BY <2>1, EndsKeeps
<1>11. CASE q.size # t
  <2>1. /\ parser' = q /\ sink' = sink \o buf /\ buffer' = <<>>
        /\ unread' = held /\ pc' = "length" /\ outcomes' = outcomes
    BY <1>9, <1>11
  <2>2. n = b /\ z + n \in Nat /\ z + n < t
    BY <1>3, <1>5, <1>8, <1>11
  <2>3. Prefix(buf, b) = buf /\ From(buf, b) = <<>>
    <3>1. SubSeq(buf, 1, Len(buf)) = buf
      BY <1>2, SubSeqFull
    <3>2. b + 1 \in Int /\ b \in Int /\ b < b + 1
      OBVIOUS
    <3>3. SubSeq(buf, b + 1, b) = <<>>
      BY <3>2, SubSeqEmpty
    <3> QED  BY <1>2, <3>1, <3>3 DEF Prefix, From
  <2>4. Flow(sink \o Prefix(buf, b), From(buf, b), held, rest', Len(stream.bytes))
    <3>1. b \in 0..Len(buf)
      BY <1>2
    <3> QED  BY <3>1, FlowCut
  <2>5. Placed'
    BY <1>1, <2>1, <2>3, <2>4, NothingLost, PlacedNext
  <2>6. SettingOk' /\ HeadingOk'
    BY <1>1, <2>1 DEF ByteInv, SettingOk, HeadingOk
  <2>7. Target' = Target
    BY <1>1, <2>1 DEF Target, Heading
  <2>8. ParserReady'
    BY <1>3, <1>8, <2>1, <2>2, <2>7 DEF ParserReady
  <2> QED  BY <2>5, <2>6, <2>8 DEF ByteInv
<1> QED  BY <1>10, <1>11

LEMMA ReadLengthKeeps ==
  ASSUME ByteInv, ReadLength
  PROVE  ByteInv'
<1>1. /\ pc = "length" /\ UNCHANGED fixed
      /\ \E r \in Reads(Min({maxRead, Target - parser.size})) :
           LengthRound(parser, r.data, r.held) /\ rest' = r.rest
  BY DEF ReadLength
<1>2. PICK max : max = Min({maxRead, Target - parser.size})
  OBVIOUS
<1>3. PICK r \in Reads(max) : LengthRound(parser, r.data, r.held) /\ rest' = r.rest
  BY <1>1, <1>2
<1>4. /\ Shape(parser) /\ Consecutive(parser.heard) /\ buffer = <<>>
      /\ parser.size \in Nat /\ parser.size < Target /\ Target \in Nat /\ maxRead \in Nat \ {0}
  BY <1>1, SettingTypes DEF ByteInv, ParserReady
<1>5. max \in Nat
  <2>1. Target - parser.size \in Nat /\ maxRead \in Nat
    BY <1>4
  <2> QED  BY <1>2, <2>1, MinOfTwo
<1>6. Flow(sink, r.data, r.held, rest', Len(stream.bytes))
  <2>1. Flow(sink, buffer, unread, rest, Len(stream.bytes))
    BY <1>1, NothingLost
  <2>2. r.data \in Bytes /\ Flow(sink, buffer \o r.data, r.held, r.rest, Len(stream.bytes))
    BY <1>4, <1>5, <2>1, FlowRead
  <2>3. buffer \o r.data = r.data
    BY <1>4, <2>2, ConcatEmptySeq DEF Bytes
  <2> QED  BY <1>3, <2>2, <2>3
<1>7. parser.size <= Target /\ pc # "over"
  BY <1>1, <1>4
<1> QED  BY <1>1, <1>3, <1>4, <1>6, <1>7, LengthRoundKeeps

LEMMA ContinueKeeps ==
  ASSUME ByteInv, Continue
  PROVE  ByteInv'
<1>1. pc = "between" /\ UNCHANGED fixed /\ rest' = rest
  BY DEF Continue
<1>2. \/ Returns(parser, buffer, 0, "complete", unread)
      \/ ChunkRound(parser, buffer, unread)
      \/ LengthRound(parser, buffer, unread)
  BY DEF Continue
<1>3. /\ Flow(sink, buffer, unread, rest', Len(stream.bytes))
      /\ Fresh(parser) /\ Shape(parser) /\ Consecutive(parser.heard)
  BY <1>1, NothingLost DEF ByteInv, ParserReady
<1>4. PICK s \in Nat, b \in Nat : s = Len(sink) /\ b = Len(buffer) /\ buffer = Stretch(s, b)
  BY <1>3, FlowIs
<1>5. /\ None \notin Nat /\ budget \in Nat \cup {None} /\ Target \in Nat
  BY <1>1, SettingTypes
<1>6. CASE Returns(parser, buffer, 0, "complete", unread)
  <2>1. Ends(buffer, unread)
    BY <1>3, <1>4, <1>6 DEF Ends
  <2> QED  BY <1>1, <1>3, <2>1, EndsKeeps
<1>7. CASE ChunkRound(parser, buffer, unread)
  <2>1. HeardTo(parser.heard, s + parser.fed)
    BY <1>3 DEF HeardTo, Fresh
  <2>2. ChunkReady(parser, s, buffer)
    BY <1>3, <1>4, <1>5, <2>1 DEF ChunkReady, Fresh
  <2>3. Ends(buffer, unread) \/ Rounds(buffer, unread, s)
    BY <1>4, <1>5, <1>7, <2>2, ChunkRoundIs
  <2>4. CASE Ends(buffer, unread)
    BY <1>1, <1>3, <2>4, EndsKeeps
  <2>5. CASE Rounds(buffer, unread, s)
    <3>1. Rounds(buffer, unread, Len(sink)) /\ pc # "over"
      BY <1>1, <1>4, <2>5
    <3> QED  BY <1>1, <1>3, <3>1, RoundsKeep
  <2> QED  BY <2>3, <2>4, <2>5
<1>8. CASE LengthRound(parser, buffer, unread)
  <2>1. parser.size \in Nat /\ parser.size <= Target /\ pc # "over"
    BY <1>1, <1>3, <1>5 DEF Fresh
  <2> QED  BY <1>1, <1>3, <1>8, <2>1, LengthRoundKeeps
<1> QED  BY <1>2, <1>6, <1>7, <1>8

(* The bytes held when a read fails or the caller is cancelled                  *)
LEMMA StopKeeps ==
  ASSUME ByteInv, UNCHANGED <<fixed, rest>>, NEW stop,
         \/ \E q : /\ pc = "head" /\ Same(parser, q)
                   /\ Returns(q, buffer, Len(buffer), stop, unread)
         \/ pc = "length" /\ Returns(parser, <<>>, 0, stop, unread)
         \/ pc = "chunked" /\ FinishPrefix(parser, buffer, Len(buffer), stop, FALSE, unread)
  PROVE  ByteInv'
<1>1. UNCHANGED fixed /\ rest' = rest
  OBVIOUS
<1>2. /\ Flow(sink, buffer, unread, rest', Len(stream.bytes)) /\ pc # "over"
      /\ Shape(parser) /\ Consecutive(parser.heard)
  <2>1. pc # "over"
    OBVIOUS
  <2> QED  BY <1>1, <2>1, NothingLost DEF ByteInv, ParserReady
<1>3. PICK s \in Nat, b \in Nat : s = Len(sink) /\ b = Len(buffer) /\ buffer = Stretch(s, b)
  BY <1>2, FlowIs
<1>4. Len(buffer) \in 0..Len(buffer) /\ b \in 0..b
  BY <1>3
<1>5. CASE \E q : /\ pc = "head" /\ Same(parser, q)
                  /\ Returns(q, buffer, Len(buffer), stop, unread)
  <2>1. Ends(buffer, unread)
    BY <1>2, <1>4, <1>5, SameHeard DEF Ends
  <2> QED  BY <1>1, <1>2, <2>1, EndsKeeps
<1>6. CASE pc = "length" /\ Returns(parser, <<>>, 0, stop, unread)
  <2>1. buffer = <<>>
    BY <1>6 DEF ByteInv, ParserReady
  <2>2. Ends(buffer, unread)
    BY <1>2, <1>6, <2>1 DEF Ends
  <2> QED  BY <1>1, <1>2, <2>2, EndsKeeps
<1>7. CASE pc = "chunked" /\ FinishPrefix(parser, buffer, Len(buffer), stop, FALSE, unread)
  <2>1. ChunkReady(parser, s, buffer)
    BY <1>3, <1>7 DEF ByteInv, ParserReady
  <2>2. FinishPrefix(parser, buffer, b, stop, FALSE, unread)
    BY <1>3, <1>7
  <2>3. Ends(buffer, unread)
    BY <1>3, <1>4, <2>1, <2>2, FinishEnds
  <2> QED  BY <1>1, <1>2, <2>3, EndsKeeps
<1> QED  BY <1>5, <1>6, <1>7

LEMMA StreamEndsKeeps ==
  ASSUME ByteInv, StreamEnds
  PROVE  ByteInv'
<1>1. PICK stop \in {"eof", "read_error"} :
        /\ unread = <<>>
        /\ \/ pc = "head" /\ Returns([parser EXCEPT !.wire = buffer], buffer, Len(buffer), stop,
                                     <<>>)
           \/ pc = "length" /\ Returns(parser, <<>>, 0, stop, <<>>)
           \/ pc = "chunked" /\ FinishPrefix(parser, buffer, Len(buffer), stop, FALSE, <<>>)
        /\ UNCHANGED <<fixed, rest>>
  BY DEF StreamEnds
<1>2. Same(parser, [parser EXCEPT !.wire = buffer])
  BY DEF ByteInv, ParserReady, Same, Shape
<1> QED  BY <1>1, <1>2, StopKeeps

LEMMA CancelKeeps ==
  ASSUME ByteInv, Cancel
  PROVE  ByteInv'
<1>1. UNCHANGED <<setting, rest>> /\ lost' = IF pc \in {"head", "between"} THEN buffer ELSE <<>>
  BY DEF Cancel
<1>2. \/ pc = "chunked" /\ FinishPrefix(parser, buffer, Len(buffer), "cancelled", FALSE, unread)
      \/ pc = "length" /\ Returns(parser, <<>>, 0, "cancelled", unread)
      \/ /\ pc \in {"head", "between"} /\ pc' = "over" /\ buffer' = <<>>
         /\ outcomes' = Append(outcomes, Outcome(parser, "cancelled", Len(sink), Len(sink)))
         /\ UNCHANGED <<unread, sink, parser>>
  BY DEF Cancel
<1>3. CASE \/ pc = "chunked"
              /\ FinishPrefix(parser, buffer, Len(buffer), "cancelled", FALSE, unread)
           \/ pc = "length" /\ Returns(parser, <<>>, 0, "cancelled", unread)
  <2>1. lost' = lost
    BY <1>1, <1>3, NothingLost
  <2>2. UNCHANGED <<fixed, rest>>
    BY <1>1, <2>1 DEF fixed
  <2> QED  BY <1>3, <2>2, StopKeeps
<1>4. CASE /\ pc \in {"head", "between"} /\ pc' = "over" /\ buffer' = <<>>
           /\ outcomes' = Append(outcomes, Outcome(parser, "cancelled", Len(sink), Len(sink)))
           /\ UNCHANGED <<unread, sink, parser>>
  <2>1. PICK S, o : /\ outcomes \in Seq(S) /\ outcomes' = Append(outcomes, o)
                    /\ o = Outcome(parser, "cancelled", Len(sink), Len(sink))
    BY <1>4 DEF ByteInv, HeadingOk
  <2>2. outcomes \in Seq(S \cup {o}) /\ o \in S \cup {o}
    BY <2>1, SeqMonotonic
  <2>3. /\ outcomes' \in Seq(S \cup {o})
        /\ Len(outcomes') = Len(outcomes) + 1 /\ outcomes'[Len(outcomes) + 1] = o
    BY <2>1, <2>2, AppendProperties
  <2>4. HeadingOk'
    BY <1>4, <2>3 DEF HeadingOk
  <2>5. outcomes' # <<>> /\ Last(outcomes') = o
    <3>1. Len(outcomes) \in Nat
      BY <2>1
    <3>2. Len(outcomes') # 0
      BY <2>3, <3>1
    <3> QED  BY <2>3, <3>2, EmptySeq DEF Last
  <2>6. o.stop = "cancelled" /\ o.p.size = 0 /\ o.p.heard = <<>>
    BY <1>4, <2>1 DEF ByteInv, ParserReady, Fresh, Outcome
  <2>7. LossEnds'
    BY <1>4, <2>5, <2>6 DEF LossEnds
  <2>8. /\ Flow(sink, buffer, unread, rest, Len(stream.bytes)) /\ lost' = buffer
        /\ UNCHANGED <<stream, maxRead, budget, sink, unread, rest>> /\ buffer' = <<>>
    BY <1>1, <1>4, NothingLost DEF setting
  <2>9. Held' = buffer
    BY <2>8 DEF Held
  <2>10. SettingOk' /\ Placed'
    BY <2>7, <2>8, <2>9 DEF ByteInv, SettingOk, Placed
  <2>11. ParserReady'
    BY <1>4 DEF ByteInv, ParserReady
  <2> QED  BY <2>4, <2>10, <2>11 DEF ByteInv
<1> QED  BY <1>2, <1>3, <1>4

LEMMA NextRequestKeeps ==
  ASSUME ByteInv, NextRequest
  PROVE  ByteInv'
<1>1. /\ pc' = "head" /\ parser' = NewParser /\ Len(outcomes) < Len(stream.heads)
      /\ outcomes[Len(outcomes)].stop = "complete"
      /\ UNCHANGED <<fixed, unread, rest, buffer, sink, outcomes>>
  BY DEF NextRequest
<1>2. Fresh(NewParser) /\ Shape(NewParser) /\ Consecutive(NewParser.heard)
  BY DEF NewParser, Fresh, Shape, Consecutive, Bytes
<1>3. lost = <<>> /\ UNCHANGED <<stream, maxRead, budget, lost>>
  BY <1>1 DEF ByteInv, Placed, LossEnds, Last, fixed, setting
<1>4. SettingOk' /\ Placed'
  <2>1. Flow(sink, buffer, unread, rest, Len(stream.bytes))
    BY <1>3 DEF ByteInv, Placed, Held
  <2>2. Placed'
    BY <1>1, <1>3, <2>1, PlacedNext
  <2> QED  BY <1>3, <2>2 DEF ByteInv, SettingOk
<1>5. HeadingOk'
  BY <1>1, <1>3 DEF ByteInv, HeadingOk
<1>6. ParserReady'
  BY <1>1, <1>2 DEF ParserReady
<1> QED  BY <1>4, <1>5, <1>6 DEF ByteInv

LEMMA StartsFresh == Init => ByteInv
<1> SUFFICES ASSUME Init PROVE ByteInv
  OBVIOUS
<1>1. /\ stream \in Scenarios /\ unread = <<>> /\ rest = [i \in 1..Len(stream.bytes) |-> i]
      /\ buffer = <<>> /\ lost = <<>> /\ sink = <<>> /\ parser = NewParser
      /\ maxRead \in MaxReads /\ budget \in Limits /\ pc = "head" /\ outcomes = <<>>
  BY DEF Init
<1>2. PICK n \in Nat : n = Len(stream.bytes)
  BY <1>1, ParserAssumption
<1>3. Placed
  <2>1. rest = Stretch(0, n)
    <3>1. \A i \in 1..n : 0 + i = i
      BY <1>2
    <3> QED  BY <1>1, <1>2, <3>1 DEF Stretch
  <2>2. <<>> = Stretch(0, 0)
    BY StretchEmpty
  <2>3. FlowAt(sink, buffer, unread, rest, n, 0, 0, 0, n, 0, 0)
    BY <1>1, <2>1, <2>2 DEF FlowAt
  <2> QED  BY <1>1, <1>2, <2>3 DEF Flow, Placed, LossEnds, Held
<1>4. HeadingOk
  <2>1. stream.heads \in Seq(Heads) /\ stream.heads # <<>>
    BY <1>1, ParserAssumption
  <2>2. Len(stream.heads) \in Nat /\ Len(stream.heads) # 0
    BY <2>1, EmptySeq
  <2>3. outcomes \in Seq({}) /\ Len(outcomes) = 0
    BY <1>1
  <2> QED  BY <2>2, <2>3 DEF HeadingOk
<1>5. Fresh(NewParser) /\ Shape(NewParser) /\ Consecutive(NewParser.heard)
  BY DEF NewParser, Fresh, Shape, Consecutive, Bytes
<1>6. ParserReady
  BY <1>1, <1>5 DEF ParserReady
<1> QED  BY <1>1, <1>3, <1>4, <1>6 DEF ByteInv, SettingOk

LEMMA ByteInvHolds == Spec => []ByteInv
<1>1. ByteInv /\ [Next]_vars => ByteInv'
  <2> SUFFICES ASSUME ByteInv, [Next]_vars PROVE ByteInv'
    OBVIOUS
  <2>1. CASE UNCHANGED vars
    BY <2>1 DEF vars, ByteInv, SettingOk, HeadingOk, Placed, LossEnds, Held, ParserReady,
                Target, Heading, ChunkReady, LineOf, SizeLine, At, Sym
  <2> QED  BY <2>1, ReadHeadKeeps, ReadChunkedKeeps, ReadLengthKeeps, ContinueKeeps,
              StreamEndsKeeps, CancelKeeps, NextRequestKeeps DEF Next
<1> QED  BY <1>1, StartsFresh, PTL DEF Spec

(* EveryByteOnce                                                                *)
THEOREM BytesOnce == Spec => []EveryByteOnce
<1>1. ByteInv => EveryByteOnce
  <2> SUFFICES ASSUME ByteInv PROVE EveryByteOnce
    OBVIOUS
  <2>1. sink \o Held \o unread \o rest = [i \in 1..Len(stream.bytes) |-> i]
    BY FlowShows DEF ByteInv, Placed
  <2>3. sink \o lost \o buffer = sink \o Held
    <3>1. Flow(sink, Held, unread, rest, Len(stream.bytes)) /\ LossEnds
      BY DEF ByteInv, Placed
    <3>2. sink \in Seq(Int) /\ Held \in Seq(Int)
      BY <3>1, FlowIs DEF Bytes
    <3>3. sink \o <<>> = sink /\ (sink \o Held) \o <<>> = sink \o Held
      BY <3>2, ConcatEmptySeq, ConcatProperties
    <3>4. CASE lost = <<>>
      BY <3>3, <3>4 DEF Held
    <3>5. CASE lost # <<>>
      BY <3>1, <3>3, <3>5 DEF Held, LossEnds
    <3> QED  BY <3>4, <3>5
  <2>4. LostToCancel
    BY DEF ByteInv, Placed, LossEnds, LostToCancel
  <2>2. \A i \in 1..(Len(parser.heard) - 1) : parser.heard[i + 1] = parser.heard[i] + 1
    BY DEF ByteInv, ParserReady, Consecutive
  <2> QED  BY <2>1, <2>2, <2>3, <2>4 DEF EveryByteOnce
<1> QED  BY <1>1, ByteInvHolds, PTL
=============================================================================
