------------------------------ MODULE QueryProofs ------------------------------
(***************************************************************************)
(* Proofs about what a frame answers (CameraFrames) and about the binary    *)
(* point cloud (Pcd1), for every size of the image, every region and every  *)
(* cloud.  A loop is a recursive function on an interval of numbers; what   *)
(* it computes is proved from the least number for which it would be wrong. *)
(***************************************************************************)
EXTENDS CameraFrames, Pcd1, MountProofs, SequenceTheorems, FiniteSetTheorems, WellFoundedInduction

-----------------------------------------------------------------------------
(***************************************************************************)
(* Numbers, recursive functions and sequences.                             *)
(***************************************************************************)
\* A set of naturals that is not empty has a least element.
LEMMA LeastElement ==
  ASSUME NEW S \in SUBSET Nat, S # {}
  PROVE  \E n \in S : \A m \in S : n <= m
<1> DEFINE R == {ss \in Nat \X Nat : ss[1] < ss[2]}
<1>1. IsWellFoundedOn(R, Nat)
  BY NatLessThanWellFounded, Zenon DEF OpToRel
<1> HIDE DEF R
<1>2. PICK n \in S : \A m \in S : ~(<<m, n>> \in R)
  BY <1>1, WFMin
<1>3. \A m \in S : ~(m < n)
  BY <1>2 DEF R
<1>4. QED
  BY <1>3

\* What holds up to a number: a set of numbers that has 0 and, with a number, the
\* next one, has them all.
LEMMA UpTo ==
  ASSUME NEW n \in Nat, NEW Good, 0 \in Good,
         \A i \in 1 .. n : i - 1 \in Good => i \in Good
  PROVE  \A i \in 0 .. n : i \in Good
<1> DEFINE Bad == {i \in 0 .. n : i \notin Good}
<1>1. SUFFICES ASSUME Bad # {}
               PROVE  FALSE
  OBVIOUS
<1>2. Bad \in SUBSET Nat
  OBVIOUS
<1>3. PICK i \in Bad : \A j \in Bad : i <= j
  <2> HIDE DEF Bad
  <2>1. QED
    BY <1>1, <1>2, LeastElement
<1>4. i # 0 /\ i \in 1 .. n /\ i - 1 \in 0 .. n /\ ~(i <= i - 1)
  OBVIOUS
<1>5. i - 1 \in Good
  BY <1>3, <1>4
<1>6. QED
  BY <1>4, <1>5

\* f is defined on 0 .. n by recursion: G gives a value from its argument and the
\* value before.
IsRecursive(n, T, base, G, f) ==
  /\ f \in [0 .. n -> T] /\ f[0] = base
  /\ \A i \in 1 .. n : f[i] = G[<<i, f[i - 1]>>]

\* Such a function exists.
LEMMA RecursiveFunction ==
  ASSUME NEW n \in Nat, NEW T, NEW base \in T, NEW G \in [(1 .. n) \X T -> T]
  PROVE  \E f : IsRecursive(n, T, base, G, f)
<1> USE DEF IsRecursive
<1> DEFINE Is(m, f) == IsRecursive(m, T, base, G, f)
           Good == {m \in 0 .. n : \E f : Is(m, f)}
<1>1. 0 \in Good
  <2> DEFINE f == [i \in 0 .. 0 |-> base]
  <2>1. Is(0, f)
    OBVIOUS
  <2>2. \E g : Is(0, g)
    BY <2>1, Zenon
  <2>3. QED
    BY <2>2
<1>2. ASSUME NEW m \in 1 .. n, m - 1 \in Good
      PROVE  m \in Good
  <2>1. PICK f : Is(m - 1, f)
    BY <1>2
  <2> DEFINE g == [i \in 0 .. m |-> IF i = m THEN G[<<m, f[m - 1]>>] ELSE f[i]]
  <2>2. f[m - 1] \in T /\ m - 1 \in 0 .. m /\ m - 1 # m /\ m # 0
    BY <2>1
  <2>3. g \in [0 .. m -> T]
    <3>1. <<m, f[m - 1]>> \in (1 .. n) \X T
      BY <2>2
    <3>2. G[<<m, f[m - 1]>>] \in T
      BY <3>1
    <3>3. \A i \in 0 .. m : i # m => i \in 0 .. m - 1
      OBVIOUS
    <3>4. \A i \in 0 .. m : i # m => f[i] \in T
      BY <2>1, <3>3
    <3>5. QED
      BY <3>2, <3>4
  <2>4. g[0] = base
    BY <2>1, <2>2
  <2>5. ASSUME NEW i \in 1 .. m
        PROVE  g[i] = G[<<i, g[i - 1]>>]
    <3>1. i - 1 \in 0 .. m /\ i - 1 # m /\ i \in 0 .. m
      OBVIOUS
    <3>2. g[i - 1] = f[i - 1]
      BY <3>1
    <3>3. CASE i = m
      BY <3>1, <3>2, <3>3
    <3>4. CASE i # m
      <4>1. i \in 1 .. m - 1
        BY <3>4
      <4>2. g[i] = f[i]
        BY <3>1, <3>4
      <4>3. QED
        BY <2>1, <3>2, <4>1, <4>2
    <3>5. QED
      BY <3>3, <3>4
  <2> HIDE DEF g
  <2>6. Is(m, g)
    BY <2>3, <2>4, <2>5
  <2>7. QED
    BY <2>6
<1>3. n \in Good
  <2> HIDE DEF Good
  <2>1. \A i \in 0 .. n : i \in Good
    BY <1>1, <1>2, UpTo
  <2>2. QED
    BY <2>1
<1>4. QED
  BY <1>3

\* No member twice, and the members.
Distinct(s) == \A i, j \in 1 .. Len(s) : i # j => s[i] # s[j]
Members(s) == {s[i] : i \in 1 .. Len(s)}

\* A sequence of distinct members has as many as it is long.
LEMMA DistinctCount ==
  ASSUME NEW S, NEW s \in Seq(S), Distinct(s)
  PROVE  IsFiniteSet(Members(s)) /\ Cardinality(Members(s)) = Len(s)
<1>1. Len(s) \in Nat /\ s \in [1 .. Len(s) -> S]
  BY LenProperties
<1>2. IsFiniteSet(1 .. Len(s)) /\ Cardinality(1 .. Len(s)) = Len(s)
  BY <1>1, FS_Interval
<1>3. s \in [1 .. Len(s) -> Members(s)]
  BY <1>1 DEF Members
<1>4. s \in Bijection(1 .. Len(s), Members(s))
  BY <1>3 DEF Bijection, Injection, Surjection, IsInjective, Distinct, Members
<1>5. ExistsBijection(1 .. Len(s), Members(s))
  BY <1>4 DEF ExistsBijection
<1>6. QED
  BY <1>2, <1>5, FS_Bijection

\* A sequence given by its members.
LEMMA SequenceOf ==
  ASSUME NEW n \in Nat, NEW S, NEW s \in [1 .. n -> S]
  PROVE  s \in Seq(S) /\ Len(s) = n
<1>1. s \in Seq(S)
  <2>1. \A i \in 1 .. n : s[i] \in S
    OBVIOUS
  <2>2. s = [i \in 1 .. n |-> s[i]]
    OBVIOUS
  <2>3. [i \in 1 .. n |-> s[i]] \in Seq(S)
    BY <2>1, IsASeq
  <2>4. QED
    BY <2>2, <2>3
<1>2. DOMAIN s = 1 .. n
  OBVIOUS
<1>3. Len(s) \in Nat /\ DOMAIN s = 1 .. Len(s)
  BY <1>1, LenProperties
<1>4. QED
  BY <1>1, <1>2, <1>3

-----------------------------------------------------------------------------
(***************************************************************************)
(* The pixels of a scan that have a depth.                                 *)
(***************************************************************************)
\* The scan keeps every pixel with a depth, each once and no other.
LEMMA KeptPixels ==
  ASSUME NEW frame, NEW P, NEW pixels \in Seq(P), Distinct(pixels)
  PROVE  LET kept == WithDepth(frame, pixels)
         IN /\ kept \in Seq(P) /\ Distinct(kept)
            /\ Members(kept) = {p \in Members(pixels) : DepthAt(frame, p) > 0}
<1> DEFINE n == Len(pixels)
           Has(i) == DepthAt(frame, pixels[i]) > 0
           Body(f) == [i \in 0 .. n |-> IF i = 0 THEN <<>>
                                       ELSE IF Has(i) THEN Append(f[i - 1], pixels[i])
                                       ELSE f[i - 1]]
           kept == CHOOSE f : f = Body(f)
           Is(i) == /\ kept[i] \in Seq(P) /\ Distinct(kept[i])
                    /\ Members(kept[i]) = {pixels[j] : j \in {k \in 1 .. i : Has(k)}}
<1>1. n \in Nat /\ \A i \in 1 .. n : pixels[i] \in P
  BY LenProperties
<1> HIDE DEF n, Has
<1>2. kept = Body(kept)
  <2> DEFINE G == [x \in (1 .. n) \X Seq(P) |->
                     IF Has(x[1]) THEN Append(x[2], pixels[x[1]]) ELSE x[2]]
  <2>1. G \in [(1 .. n) \X Seq(P) -> Seq(P)]
    <3>1. ASSUME NEW x \in (1 .. n) \X Seq(P)
          PROVE  (IF Has(x[1]) THEN Append(x[2], pixels[x[1]]) ELSE x[2]) \in Seq(P)
      <4>1. x[1] \in 1 .. n /\ x[2] \in Seq(P) /\ pixels[x[1]] \in P
        BY <1>1
      <4>2. Append(x[2], pixels[x[1]]) \in Seq(P)
        BY <4>1, AppendProperties
      <4>3. QED
        BY <4>1, <4>2
    <3>2. QED
      BY <3>1
  <2>2. <<>> \in Seq(P)
    BY EmptySeq
  <2>3. PICK f : IsRecursive(n, Seq(P), <<>>, G, f)
    <3> HIDE DEF G
    <3>1. QED
      BY <1>1, <2>1, <2>2, RecursiveFunction, Zenon
  <2>4. ASSUME NEW i \in 1 .. n
        PROVE  f[i] = IF Has(i) THEN Append(f[i - 1], pixels[i]) ELSE f[i - 1]
    <3>1. i - 1 \in 0 .. n
      BY <1>1
    <3>2. <<i, f[i - 1]>> \in (1 .. n) \X Seq(P)
      BY <2>3, <3>1 DEF IsRecursive
    <3>3. QED
      BY <2>3, <3>2 DEF IsRecursive
  <2>5. f = Body(f)
    <3>1. \A i \in 0 .. n : i # 0 => i \in 1 .. n
      BY <1>1
    <3>2. f[0] = <<>> /\ f = [i \in 0 .. n |-> f[i]]
      BY <2>3 DEF IsRecursive
    <3>3. QED
      BY <2>4, <3>1, <3>2
  <2> HIDE DEF Body
  <2>6. QED
    BY <2>5
<1>3. WithDepth(frame, pixels) = kept[n]
  BY Zenon DEF WithDepth, n, Has
<1> HIDE DEF kept
<1>4. kept[0] = <<>>
  <2>1. 0 \in 0 .. n
    BY <1>1
  <2>2. Body(kept)[0] = <<>>
    BY <2>1
  <2>3. QED
    BY <1>2, <2>2
<1>5. ASSUME NEW i \in 1 .. n
      PROVE  kept[i] = IF Has(i) THEN Append(kept[i - 1], pixels[i]) ELSE kept[i - 1]
  <2>1. i \in 0 .. n /\ i # 0
    BY <1>1
  <2>2. Body(kept)[i] = IF Has(i) THEN Append(kept[i - 1], pixels[i]) ELSE kept[i - 1]
    BY <2>1
  <2> HIDE DEF Body
  <2>3. QED
    BY <1>2, <2>2
<1> DEFINE Good == {i \in 0 .. n : Is(i)}
<1>6. 0 \in Good
  <2>1. <<>> \in Seq(P) /\ Len(<<>>) = 0 /\ 1 .. 0 = {}
    BY EmptySeq
  <2>2. Is(0)
    BY <1>4, <2>1 DEF Distinct, Members
  <2> HIDE DEF Is
  <2>3. QED
    BY <1>1, <2>2
<1>7. ASSUME NEW i \in 1 .. n, i - 1 \in Good
      PROVE  i \in Good
  <2> DEFINE s == kept[i - 1]
             before == {k \in 1 .. i - 1 : Has(k)}
  <2>1. s \in Seq(P) /\ Distinct(s) /\ Members(s) = {pixels[j] : j \in before}
    BY <1>7
  <2>2. i \in 0 .. n /\ pixels[i] \in P
    BY <1>1
  <2> HIDE DEF s, Good
  <2>3. CASE ~Has(i)
    <3>1. kept[i] = s
      BY <1>5, <2>3 DEF s
    <3>2. {k \in 1 .. i : Has(k)} = before
      BY <1>1, <2>3
    <3>3. QED
      BY <2>1, <2>2, <3>1, <3>2 DEF Good
  <2>4. CASE Has(i)
    <3> DEFINE t == Append(s, pixels[i])
    <3>1. kept[i] = t
      BY <1>5, <2>4 DEF s
    <3>2. {k \in 1 .. i : Has(k)} = before \cup {i}
      BY <1>1, <2>4
    <3>3. /\ t \in Seq(P) /\ Len(t) = Len(s) + 1 /\ Len(s) \in Nat
          /\ \A j \in 1 .. Len(s) : t[j] = s[j]
          /\ t[Len(s) + 1] = pixels[i]
      BY <2>1, <2>2, AppendProperties, LenProperties
    <3> HIDE DEF t
    <3>4. 1 .. Len(t) = (1 .. Len(s)) \cup {Len(s) + 1}
      BY <3>3
    <3>5. pixels[i] \notin Members(s)
      <4>1. \A j \in before : j \in 1 .. n /\ j # i
        BY <1>1
      <4>2. \A j \in before : pixels[j] # pixels[i]
        BY <4>1 DEF Distinct, n
      <4> HIDE DEF before
      <4>3. QED
        BY <2>1, <4>2
    <3>6. Distinct(t)
      <4>1. \A j \in 1 .. Len(s) : s[j] # pixels[i]
        BY <3>5 DEF Members
      <4>2. QED
        BY <2>1, <3>3, <3>4, <4>1 DEF Distinct
    <3>7. Members(t) = Members(s) \cup {pixels[i]}
      BY <3>3, <3>4 DEF Members
    <3>8. {pixels[j] : j \in before \cup {i}} = {pixels[j] : j \in before} \cup {pixels[i]}
      <4> HIDE DEF before
      <4>1. QED
        OBVIOUS
    <3>9. Is(i)
      <4> HIDE DEF before
      <4>1. QED
        BY <2>1, <3>1, <3>2, <3>3, <3>6, <3>7, <3>8
    <3>10. QED
      BY <2>2, <3>9 DEF Good
  <2>5. QED
    BY <2>3, <2>4
<1>8. Is(n)
  <2>1. n \in Good
    <3> HIDE DEF Good
    <3>1. \A i \in 0 .. n : i \in Good
      BY <1>1, <1>6, <1>7, UpTo
    <3>2. QED
      BY <1>1, <3>1
  <2>2. QED
    BY <2>1
<1>9. {pixels[j] : j \in {k \in 1 .. n : Has(k)}} = {p \in Members(pixels) : DepthAt(frame, p) > 0}
  BY DEF Has, Members, n
<1>10. QED
  BY <1>3, <1>8, <1>9

-----------------------------------------------------------------------------
(***************************************************************************)
(* Sums over sets of pixels.                                               *)
(***************************************************************************)
\* The fold of a set takes one element after another.
Chosen(s) == CHOOSE x \in s : TRUE
OneTaken(f, s) == IF s = {} THEN 0 ELSE PixelDepth(Chosen(s)) + f[s \ {Chosen(s)}]
SumBody(U, f) == [s \in SUBSET U |-> OneTaken(f, s)]

\* DepthSum takes the pixels out of the set one by one.
LEMMA DepthSumIs ==
  ASSUME NEW U
  PROVE  DepthSum(U) = (CHOOSE f : f = SumBody(U, f))[U]
BY Zenon DEF DepthSum, MapThenSumSet, MapThenFoldSet, SumBody, OneTaken, Chosen

\* CHOOSE takes a member of a set that has one.
LEMMA ChosenIsMember ==
  ASSUME NEW s, s # {}
  PROVE  Chosen(s) \in s
BY DEF Chosen

\* A set without its chosen element.
LEMMA ChosenTaken ==
  ASSUME NEW U, IsFiniteSet(U), NEW s \in SUBSET U, s # {}
  PROVE  /\ s \ {Chosen(s)} \in SUBSET U
         /\ Cardinality(s) \in Nat \ {0}
         /\ Cardinality(s \ {Chosen(s)}) = Cardinality(s) - 1
<1>1. IsFiniteSet(s)
  BY FS_Subset
<1>2. Chosen(s) \in s
  BY ChosenIsMember
<1>3. Cardinality(s) \in Nat /\ Cardinality(s) # 0
  BY <1>1, FS_CardinalityType, FS_EmptySet
<1>4. Cardinality(s \ {Chosen(s)}) = Cardinality(s) - 1
  BY <1>1, <1>2, FS_RemoveElement
<1>5. QED
  BY <1>3, <1>4

\* The recursive function exists.
LEMMA SumExists ==
  ASSUME NEW U, IsFiniteSet(U)
  PROVE  (CHOOSE f : f = SumBody(U, f)) = SumBody(U, CHOOSE f : f = SumBody(U, f))
<1> DEFINE n == Cardinality(U)
           Small(k) == {s \in SUBSET U : Cardinality(s) <= k}
           Is(k, f) == f = [s \in Small(k) |-> OneTaken(f, s)]
           Good == {k \in 0 .. n : \E f : Is(k, f)}
<1>1. n \in Nat /\ \A s \in SUBSET U : Cardinality(s) \in 0 .. n
  BY FS_CardinalityType, FS_Subset
<1>2. 0 \in Good
  <2> DEFINE f == [s \in Small(0) |-> 0]
  <2>1. \A s \in Small(0) : s = {}
    BY <1>1, FS_EmptySet, FS_Subset
  <2>2. \A s \in Small(0) : OneTaken(f, s) = 0
    BY <2>1 DEF OneTaken
  <2>3. Is(0, f)
    <3> HIDE DEF Small
    <3>1. QED
      BY <2>2
  <2> HIDE DEF f, Is
  <2>4. QED
    BY <1>1, <2>3
<1>3. ASSUME NEW k \in 1 .. n, k - 1 \in Good
      PROVE  k \in Good
  <2>1. PICK f : Is(k - 1, f)
    BY <1>3
  <2> DEFINE g == [s \in Small(k) |-> OneTaken(f, s)]
  <2>2. ASSUME NEW s \in Small(k - 1)
        PROVE  g[s] = f[s]
    <3>1. s \in Small(k)
      BY <1>1
    <3>2. g[s] = OneTaken(f, s)
      BY <3>1
    <3>3. f[s] = OneTaken(f, s)
      <4> HIDE DEF Small
      <4>1. [t \in Small(k - 1) |-> OneTaken(f, t)][s] = OneTaken(f, s)
        OBVIOUS
      <4>2. QED
        BY <2>1, <4>1
    <3>4. QED
      BY <3>2, <3>3
  <2>3. ASSUME NEW s \in Small(k)
        PROVE  OneTaken(g, s) = OneTaken(f, s)
    <3>1. CASE s = {}
      BY <3>1 DEF OneTaken
    <3>2. CASE s # {}
      <4>1. s \ {Chosen(s)} \in Small(k - 1)
        BY <1>1, <3>2, ChosenTaken
      <4>2. g[s \ {Chosen(s)}] = f[s \ {Chosen(s)}]
        BY <2>2, <4>1
      <4> HIDE DEF g
      <4>3. QED
        BY <4>2 DEF OneTaken
    <3>3. QED
      BY <3>1, <3>2
  <2>4. Is(k, g)
    <3> HIDE DEF Small
    <3>1. QED
      BY <2>3
  <2> HIDE DEF g, Is
  <2>5. QED
    BY <2>4
<1>4. n \in Good
  <2> HIDE DEF Good
  <2>1. \A i \in 0 .. n : i \in Good
    BY <1>1, <1>2, <1>3, UpTo
  <2>2. QED
    BY <1>1, <2>1
<1>5. Small(n) = SUBSET U
  BY <1>1
<1>6. \E f : f = SumBody(U, f)
  <2> HIDE DEF Small
  <2>1. QED
    BY <1>4, <1>5 DEF SumBody
<1>7. QED
  BY <1>6

\* The sum over a set is a number, and does not depend on which element is taken out
\* first.
LEMMA AnyTaken ==
  ASSUME NEW U, IsFiniteSet(U), \A p \in U : PixelDepth(p) \in Int,
         NEW f, f = SumBody(U, f)
  PROVE  \A s \in SUBSET U : /\ f[s] \in Int
                             /\ \A x \in s : f[s] = PixelDepth(x) + f[s \ {x}]
<1> DEFINE n == Cardinality(U)
           Is(s) == f[s] \in Int /\ \A x \in s : f[s] = PixelDepth(x) + f[s \ {x}]
           Good == {k \in 0 .. n : \A s \in SUBSET U : Cardinality(s) <= k => Is(s)}
<1>1. n \in Nat /\ \A s \in SUBSET U : Cardinality(s) \in 0 .. n
  BY FS_CardinalityType, FS_Subset
<1>2. \A s \in SUBSET U : f[s] = OneTaken(f, s)
  <2>1. \A s \in SUBSET U : SumBody(U, f)[s] = OneTaken(f, s)
    BY DEF SumBody
  <2>2. QED
    BY <2>1
<1>3. f[{}] = 0
  BY <1>2 DEF OneTaken
<1>4. 0 \in Good
  <2>1. ASSUME NEW s \in SUBSET U, Cardinality(s) <= 0
        PROVE  s = {}
    BY <1>1, <2>1, FS_EmptySet, FS_Subset
  <2>2. Is({})
    BY <1>3
  <2> HIDE DEF Is
  <2>3. QED
    BY <1>1, <2>1, <2>2
<1>5. ASSUME NEW k \in 1 .. n, k - 1 \in Good
      PROVE  k \in Good
  <2>1. ASSUME NEW s \in SUBSET U, Cardinality(s) <= k, s # {}
        PROVE  Is(s)
    <3> DEFINE c == Chosen(s)
    <3>1. /\ c \in s /\ s \ {c} \in SUBSET U /\ Cardinality(s) \in Nat
          /\ Cardinality(s \ {c}) = Cardinality(s) - 1
      BY <2>1, ChosenIsMember, ChosenTaken
    <3>2. Is(s \ {c})
      <4>1. \A t \in SUBSET U : Cardinality(t) <= k - 1 => Is(t)
        BY <1>5
      <4>2. Cardinality(s \ {c}) <= k - 1
        BY <2>1, <3>1
      <4> HIDE DEF Is, c
      <4>3. QED
        BY <3>1, <4>1, <4>2
    <3>3. f[s] = PixelDepth(c) + f[s \ {c}] /\ PixelDepth(c) \in Int
      BY <1>2, <2>1, <3>1 DEF OneTaken
    <3> HIDE DEF c
    <3>4. ASSUME NEW x \in s
          PROVE  f[s] = PixelDepth(x) + f[s \ {x}]
      <4>1. CASE x = c
        BY <3>3, <4>1
      <4>2. CASE x # c
        <5> DEFINE rest == (s \ {c}) \ {x}
        <5>1. f[s \ {c}] = PixelDepth(x) + f[rest]
          BY <3>1, <3>2, <4>2
        <5>2. Cardinality(s \ {x}) = Cardinality(s) - 1
          <6>1. IsFiniteSet(s)
            BY FS_Subset
          <6>2. QED
            BY <6>1, FS_RemoveElement
        <5>3. s \ {x} \in SUBSET U /\ Cardinality(s \ {x}) <= k - 1 /\ c \in s \ {x}
          BY <2>1, <3>1, <4>2, <5>2
        <5>4. Is(s \ {x})
          BY <1>5, <5>3
        <5>5. (s \ {x}) \ {c} = rest
          OBVIOUS
        <5>6. f[s \ {x}] = PixelDepth(c) + f[rest]
          BY <5>3, <5>4, <5>5
        <5>7. f[rest] \in Int
          <6>1. rest \in SUBSET U /\ Cardinality(rest) <= k - 1
            <7>1. IsFiniteSet(s \ {c})
              BY <3>1, FS_Subset
            <7>2. Cardinality(rest) = Cardinality(s \ {c}) - 1
              BY <3>1, <4>2, <7>1, FS_RemoveElement
            <7>3. QED
              BY <2>1, <3>1, <7>2
          <6>2. QED
            BY <1>5, <6>1
        <5> HIDE DEF rest
        <5>8. PixelDepth(x) \in Int
          OBVIOUS
        <5>9. QED
          BY <3>3, <5>1, <5>6, <5>7, <5>8
      <4>3. QED
        BY <4>1, <4>2
    <3>5. f[s] \in Int
      BY <3>2, <3>3
    <3>6. QED
      BY <3>4, <3>5
  <2>2. Is({})
    BY <1>3
  <2> HIDE DEF Is
  <2>3. QED
    BY <2>1, <2>2
<1>6. n \in Good
  <2> HIDE DEF Good
  <2>1. \A i \in 0 .. n : i \in Good
    BY <1>1, <1>4, <1>5, UpTo
  <2>2. QED
    BY <1>1, <2>1
<1>7. QED
  <2> HIDE DEF Is
  <2>1. \A s \in SUBSET U : Is(s)
    BY <1>1, <1>6
  <2>2. QED
    BY <2>1 DEF Is

\* Nor on the larger set the sum is part of.
LEMMA SumAgrees ==
  ASSUME NEW U, IsFiniteSet(U), NEW T \in SUBSET U, NEW f, f = SumBody(U, f),
         NEW g, g = SumBody(T, g)
  PROVE  \A s \in SUBSET T : g[s] = f[s]
<1> DEFINE n == Cardinality(U)
           Good == {k \in 0 .. n : \A s \in SUBSET T : Cardinality(s) <= k => g[s] = f[s]}
<1>1. n \in Nat /\ \A s \in SUBSET U : Cardinality(s) \in 0 .. n
  BY FS_CardinalityType, FS_Subset
<1>2. \A s \in SUBSET T : f[s] = OneTaken(f, s) /\ g[s] = OneTaken(g, s)
  <2>1. \A s \in SUBSET T : SumBody(U, f)[s] = OneTaken(f, s) /\ SumBody(T, g)[s] = OneTaken(g, s)
    BY DEF SumBody
  <2>2. QED
    BY <2>1
<1>3. g[{}] = f[{}]
  BY <1>2 DEF OneTaken
<1>4. 0 \in Good
  <2>1. ASSUME NEW s \in SUBSET T, Cardinality(s) <= 0
        PROVE  s = {}
    BY <1>1, <2>1, FS_EmptySet, FS_Subset
  <2>2. QED
    BY <1>1, <1>3, <2>1
<1>5. ASSUME NEW k \in 1 .. n, k - 1 \in Good
      PROVE  k \in Good
  <2>1. ASSUME NEW s \in SUBSET T, Cardinality(s) <= k, s # {}
        PROVE  g[s] = f[s]
    <3> DEFINE r == s \ {Chosen(s)}
    <3>1. r \in SUBSET T /\ Cardinality(s) \in Nat /\ Cardinality(r) = Cardinality(s) - 1
      <4>1. s \in SUBSET U
        OBVIOUS
      <4>2. QED
        BY <2>1, <4>1, ChosenTaken
    <3>2. g[r] = f[r]
      BY <1>5, <2>1, <3>1
    <3> HIDE DEF r
    <3>3. QED
      BY <1>2, <2>1, <3>2 DEF OneTaken, r
  <2>2. \A s \in SUBSET T : Cardinality(s) <= k => g[s] = f[s]
    BY <1>3, <2>1
  <2>3. QED
    BY <2>2
<1>6. n \in Good
  <2> HIDE DEF Good
  <2>1. \A i \in 0 .. n : i \in Good
    BY <1>1, <1>4, <1>5, UpTo
  <2>2. QED
    BY <1>1, <2>1
<1>7. QED
  BY <1>1, <1>6

\* There is nothing to add up.
LEMMA EmptyDepthSum == DepthSum({}) = 0
<1> DEFINE f == CHOOSE f : f = SumBody({}, f)
<1>1. f = SumBody({}, f)
  BY FS_EmptySet, SumExists
<1>2. DepthSum({}) = f[{}]
  BY DepthSumIs
<1> HIDE DEF f
<1>3. SumBody({}, f)[{}] = 0
  BY DEF SumBody, OneTaken
<1>4. QED
  BY <1>1, <1>2, <1>3

\* A pixel of a set adds its depth to the sum.
LEMMA DepthSumOfMember ==
  ASSUME NEW U, IsFiniteSet(U), \A p \in U : PixelDepth(p) \in Int, NEW x \in U
  PROVE  DepthSum(U) = DepthSum(U \ {x}) + PixelDepth(x) /\ DepthSum(U \ {x}) \in Int
<1> DEFINE T == U \ {x}
           f == CHOOSE f : f = SumBody(U, f)
           g == CHOOSE g : g = SumBody(T, g)
<1>1. T \in SUBSET U /\ IsFiniteSet(T)
  BY FS_Subset
<1>2. f = SumBody(U, f) /\ DepthSum(U) = f[U]
  BY SumExists, DepthSumIs
<1>3. g = SumBody(T, g) /\ DepthSum(T) = g[T]
  <2> HIDE DEF T
  <2>1. QED
    BY <1>1, SumExists, DepthSumIs
<1> HIDE DEF f, g
<1>4. g[T] = f[T]
  <2> HIDE DEF T
  <2>1. QED
    BY <1>1, <1>2, <1>3, SumAgrees
<1>5. f[U] = PixelDepth(x) + f[T] /\ f[T] \in Int
  BY <1>1, <1>2, AnyTaken
<1>6. PixelDepth(x) \in Int
  OBVIOUS
<1> HIDE DEF T
<1>7. DepthSum(U) = DepthSum(T) + PixelDepth(x) /\ DepthSum(T) \in Int
  BY <1>2, <1>3, <1>4, <1>5, <1>6
<1>8. QED
  BY <1>7 DEF T

\* What the scan accumulates is the sum over the set of its samples.
LEMMA TotalIsDepthSum ==
  ASSUME NEW frame, NEW P, NEW samples \in Seq(P), Distinct(samples),
         \A p \in Members(samples) : DepthAt(frame, p) = PixelDepth(p) /\ PixelDepth(p) \in Int
  PROVE  Total(frame, samples) = DepthSum(Members(samples))
<1> DEFINE n == Len(samples)
           Body(f) == [i \in 0 .. n |-> IF i = 0 THEN 0 ELSE f[i - 1] + DepthAt(frame, samples[i])]
           sum == CHOOSE f : f = Body(f)
           First(i) == {samples[j] : j \in 1 .. i}
<1>1. n \in Nat /\ IsFiniteSet(Members(samples))
  BY LenProperties, DistinctCount
<1>2. \A i \in 1 .. n : /\ samples[i] \in Members(samples)
                        /\ DepthAt(frame, samples[i]) = PixelDepth(samples[i])
                        /\ DepthAt(frame, samples[i]) \in Int
  BY DEF Members
<1> HIDE DEF n
<1>3. sum = Body(sum)
  <2> DEFINE G == [x \in (1 .. n) \X Int |-> x[2] + DepthAt(frame, samples[x[1]])]
  <2>1. G \in [(1 .. n) \X Int -> Int]
    BY <1>2
  <2>2. PICK f : IsRecursive(n, Int, 0, G, f)
    <3>1. 0 \in Int
      OBVIOUS
    <3> HIDE DEF G
    <3>2. QED
      BY <1>1, <2>1, <3>1, RecursiveFunction, Zenon
  <2>3. ASSUME NEW i \in 1 .. n
        PROVE  f[i] = f[i - 1] + DepthAt(frame, samples[i])
    <3>1. i - 1 \in 0 .. n
      BY <1>1
    <3>2. <<i, f[i - 1]>> \in (1 .. n) \X Int
      BY <2>2, <3>1 DEF IsRecursive
    <3>3. QED
      BY <2>2, <3>2 DEF IsRecursive
  <2>4. f = Body(f)
    <3>1. \A i \in 0 .. n : i # 0 => i \in 1 .. n
      BY <1>1
    <3>2. f[0] = 0 /\ f = [i \in 0 .. n |-> f[i]]
      BY <2>2 DEF IsRecursive
    <3>3. QED
      BY <2>3, <3>1, <3>2
  <2> HIDE DEF Body
  <2>5. QED
    BY <2>4
<1>4. Total(frame, samples) = sum[n]
  BY Zenon DEF Total, n
<1> HIDE DEF sum
<1>5. sum[0] = 0 /\ \A i \in 1 .. n : sum[i] = sum[i - 1] + DepthAt(frame, samples[i])
  <2>1. \A i \in 0 .. n : Body(sum)[i] = IF i = 0 THEN 0 ELSE sum[i - 1] + DepthAt(frame, samples[i])
    OBVIOUS
  <2>2. 0 \in 0 .. n /\ \A i \in 1 .. n : i \in 0 .. n /\ i # 0
    BY <1>1
  <2> HIDE DEF Body
  <2>3. QED
    BY <1>3, <2>1, <2>2
<1> DEFINE Good == {i \in 0 .. n : sum[i] = DepthSum(First(i))}
<1>6. 0 \in Good
  <2>1. First(0) = {}
    OBVIOUS
  <2> HIDE DEF First
  <2>2. sum[0] = DepthSum(First(0))
    BY <1>5, <2>1, EmptyDepthSum
  <2>3. 0 \in 0 .. n
    BY <1>1
  <2>4. QED
    BY <2>2, <2>3
<1>7. ASSUME NEW i \in 1 .. n, i - 1 \in Good
      PROVE  i \in Good
  <2>1. First(i) \in SUBSET Members(samples) /\ samples[i] \in First(i)
    BY <1>1 DEF Members, n
  <2>2. IsFiniteSet(First(i)) /\ \A p \in First(i) : PixelDepth(p) \in Int
    BY <1>1, <2>1, FS_Subset
  <2>3. First(i) \ {samples[i]} = First(i - 1)
    <3>1. \A j \in 1 .. i - 1 : j \in 1 .. n /\ j # i
      BY <1>1
    <3>2. \A j \in 1 .. i - 1 : samples[j] # samples[i]
      BY <3>1 DEF Distinct, n
    <3>3. 1 .. i = (1 .. i - 1) \cup {i}
      BY <1>1
    <3>4. QED
      BY <3>2, <3>3
  <2> HIDE DEF First
  <2>4. DepthSum(First(i)) = DepthSum(First(i - 1)) + PixelDepth(samples[i])
    BY <2>1, <2>2, <2>3, DepthSumOfMember
  <2>5. sum[i] = DepthSum(First(i))
    BY <1>2, <1>5, <1>7, <2>4
  <2>6. i \in 0 .. n
    BY <1>1
  <2>7. QED
    BY <2>5, <2>6
<1>8. sum[n] = DepthSum(First(n))
  <2>1. n \in Good
    <3> HIDE DEF Good
    <3>1. \A i \in 0 .. n : i \in Good
      BY <1>1, <1>6, <1>7, UpTo
    <3>2. QED
      BY <1>1, <3>1
  <2>2. QED
    BY <2>1
<1>9. First(n) = Members(samples)
  BY DEF Members, n
<1>10. QED
  BY <1>4, <1>8, <1>9

-----------------------------------------------------------------------------
(***************************************************************************)
(* The sorted depths.                                                      *)
(***************************************************************************)
\* Finitely many numbers have an upper bound.
LEMMA UpperBound ==
  ASSUME NEW n \in Nat, NEW d \in [1 .. n -> Nat]
  PROVE  \E b \in Nat : \A i \in 1 .. n : d[i] <= b
<1> DEFINE Good == {k \in 0 .. n : \E b \in Nat : \A i \in 1 .. k : d[i] <= b}
<1>1. 0 \in Good
  OBVIOUS
<1>2. ASSUME NEW k \in 1 .. n, k - 1 \in Good
      PROVE  k \in Good
  <2>1. PICK b \in Nat : \A i \in 1 .. k - 1 : d[i] <= b
    BY <1>2
  <2>2. d[k] \in Nat /\ \A i \in 1 .. k : i \in 1 .. k - 1 \/ i = k
    OBVIOUS
  <2>3. \A i \in 1 .. k : d[i] \in Nat
    OBVIOUS
  <2>4. b + d[k] \in Nat /\ \A i \in 1 .. k : d[i] <= b + d[k]
    BY <2>1, <2>2, <2>3
  <2>5. \E c \in Nat : \A i \in 1 .. k : d[i] <= c
    BY <2>4, Zenon
  <2>6. QED
    BY <2>5
<1>3. n \in Good
  <2> HIDE DEF Good
  <2>1. \A i \in 0 .. n : i \in Good
    BY <1>1, <1>2, UpTo
  <2>2. QED
    BY <2>1
<1>4. QED
  BY <1>3

\* The indices of what is less than v, and of what is not more.
Below(d, v) == {i \in DOMAIN d : d[i] < v}
NotAbove(d, v) == {i \in DOMAIN d : d[i] <= v}

\* Among n numbers there is a k-th: fewer than k are below it, k or more not above it.
LEMMA KthExists ==
  ASSUME NEW n \in Nat, NEW d \in [1 .. n -> Nat \ {0}], NEW k \in 1 .. n
  PROVE  \E v \in {d[i] : i \in 1 .. n} :
           Cardinality(Below(d, v)) < k /\ k <= Cardinality(NotAbove(d, v))
<1> DEFINE Enough == {v \in Nat : k <= Cardinality(NotAbove(d, v))}
<1>1. IsFiniteSet(1 .. n) /\ Cardinality(1 .. n) = n
  BY FS_Interval
<1>2. ASSUME NEW v
      PROVE  /\ IsFiniteSet(NotAbove(d, v)) /\ Cardinality(NotAbove(d, v)) \in Nat
             /\ IsFiniteSet(Below(d, v)) /\ Cardinality(Below(d, v)) \in Nat
  <2>1. NotAbove(d, v) \in SUBSET (1 .. n) /\ Below(d, v) \in SUBSET (1 .. n)
    BY DEF NotAbove, Below
  <2>2. QED
    BY <1>1, <2>1, FS_Subset, FS_CardinalityType
<1>3. PICK b \in Nat : \A i \in 1 .. n : d[i] <= b
  <2>1. d \in [1 .. n -> Nat]
    OBVIOUS
  <2>2. QED
    BY <2>1, UpperBound
<1>4. b \in Enough
  <2>1. NotAbove(d, b) = 1 .. n
    BY <1>3 DEF NotAbove
  <2>2. QED
    BY <1>1, <2>1
<1>5. PICK v \in Enough : \A u \in Enough : v <= u
  <2>1. Enough \in SUBSET Nat
    OBVIOUS
  <2> HIDE DEF Enough
  <2>2. QED
    BY <1>4, <2>1, LeastElement
<1>6. v \in Nat /\ k <= Cardinality(NotAbove(d, v))
  OBVIOUS
<1>7. v # 0
  <2>1. NotAbove(d, 0) = {}
    BY DEF NotAbove
  <2>2. Cardinality(NotAbove(d, 0)) = 0
    BY <2>1, FS_EmptySet
  <2>3. QED
    BY <1>6, <2>2
<1>8. v - 1 \in Nat /\ v - 1 \notin Enough
  BY <1>5, <1>6, <1>7
<1>9. Cardinality(NotAbove(d, v - 1)) < k
  BY <1>2, <1>8
<1>10. Below(d, v) = NotAbove(d, v - 1)
  BY <1>6 DEF Below, NotAbove
<1>11. \E i \in 1 .. n : d[i] = v
  <2>1. SUFFICES ASSUME \A i \in 1 .. n : d[i] # v
                 PROVE  FALSE
    OBVIOUS
  <2>2. NotAbove(d, v) = NotAbove(d, v - 1)
    BY <1>6, <2>1 DEF NotAbove
  <2>3. QED
    BY <1>2, <1>6, <1>9, <2>2
<1>12. QED
  BY <1>6, <1>9, <1>10, <1>11

\* The depths after the sort.
LEMMA KthDepth ==
  ASSUME NEW frame, NEW P, NEW samples \in Seq(P),
         \A i \in 1 .. Len(samples) : DepthAt(frame, samples[i]) \in Nat \ {0},
         NEW k \in 1 .. Len(samples)
  PROVE  LET d == [i \in 1 .. Len(samples) |-> DepthAt(frame, samples[i])]
             v == SortedDepths(frame, samples)[k]
         IN /\ \E i \in 1 .. Len(samples) : v = d[i]
            /\ Cardinality(Below(d, v)) < k /\ k <= Cardinality(NotAbove(d, v))
<1> DEFINE n == Len(samples)
           d == [i \in 1 .. n |-> DepthAt(frame, samples[i])]
           Is(v) == Cardinality(Below(d, v)) < k /\ k <= Cardinality(NotAbove(d, v))
           depths == {DepthAt(frame, samples[i]) : i \in 1 .. n}
<1>1. n \in Nat /\ d \in [1 .. n -> Nat \ {0}] /\ k \in 1 .. n
  BY LenProperties
<1>2. \E v \in {d[i] : i \in 1 .. n} : Is(v)
  <2> HIDE DEF d, n
  <2>1. QED
    BY <1>1, KthExists
<1>3. {d[i] : i \in 1 .. n} = depths
  OBVIOUS
<1>4. SortedDepths(frame, samples)[k] = CHOOSE v \in depths : Is(v)
  <2>1. ASSUME NEW v
        PROVE  /\ {i \in 1 .. n : DepthAt(frame, samples[i]) < v} = Below(d, v)
               /\ {i \in 1 .. n : DepthAt(frame, samples[i]) <= v} = NotAbove(d, v)
    BY DEF Below, NotAbove
  <2>2. SortedDepths(frame, samples)[k] =
          CHOOSE v \in depths :
            /\ Cardinality({i \in 1 .. n : DepthAt(frame, samples[i]) < v}) < k
            /\ k <= Cardinality({i \in 1 .. n : DepthAt(frame, samples[i]) <= v})
    BY DEF SortedDepths
  <2> HIDE DEF d, depths, n
  <2>3. QED
    BY <2>1, <2>2, Zenon
<1> HIDE DEF Is
<1>5. (CHOOSE v \in depths : Is(v)) \in depths /\ Is(CHOOSE v \in depths : Is(v))
  <2> HIDE DEF depths
  <2>1. QED
    BY <1>2, <1>3
<1>6. QED
  BY <1>4, <1>5 DEF Is

\* Two sets are finite and have equally many members.
SameCount(S, T) ==
  /\ IsFiniteSet(S) /\ IsFiniteSet(T)
  /\ Cardinality(S) = Cardinality(T) /\ Cardinality(T) \in Nat

\* Of a sequence of distinct members, the members at some indices are as many as these.
LEMMA SelectedCount ==
  ASSUME NEW P, NEW samples \in Seq(P), Distinct(samples), NEW I \in SUBSET (1 .. Len(samples))
  PROVE  SameCount({samples[i] : i \in I}, I)
<1> DEFINE S == {samples[i] : i \in I}
           f == [i \in I |-> samples[i]]
<1>1. IsFiniteSet(1 .. Len(samples))
  BY LenProperties, FS_Interval
<1>2. IsFiniteSet(I) /\ Cardinality(I) \in Nat
  BY <1>1, FS_Subset, FS_CardinalityType
<1>3. f \in Bijection(I, S)
  BY DEF Bijection, Injection, Surjection, IsInjective, Distinct
<1>4. ExistsBijection(I, S)
  BY <1>3 DEF ExistsBijection
<1> HIDE DEF S
<1>5. IsFiniteSet(S) /\ Cardinality(S) = Cardinality(I)
  BY <1>2, <1>4, FS_Bijection
<1>6. QED
  BY <1>2, <1>5 DEF S, SameCount

\* The extremes and the upper median of the samples, as sets of pixels.
LEMMA OrderStatistics ==
  ASSUME NEW frame, NEW P, NEW samples \in Seq(P), Distinct(samples), Len(samples) # 0,
         \A p \in Members(samples) : DepthAt(frame, p) = PixelDepth(p) /\ PixelDepth(p) \in Nat \ {0}
  PROVE  LET n == Len(samples)
             depths == SortedDepths(frame, samples)
             S == Members(samples)
         IN /\ \A k \in {1, n, (n \div 2) + 1} : \E p \in S : depths[k] = PixelDepth(p)
            /\ \A p \in S : depths[1] <= PixelDepth(p) /\ PixelDepth(p) <= depths[n]
            /\ IsUpperMedian(S, depths[(n \div 2) + 1])
<1> DEFINE n == Len(samples)
           h == (n \div 2) + 1
           S == Members(samples)
           depths == SortedDepths(frame, samples)
           d == [i \in 1 .. n |-> DepthAt(frame, samples[i])]
<1>1. n \in Nat \ {0} /\ IsFiniteSet(1 .. n) /\ Cardinality(1 .. n) = n
  BY LenProperties, FS_Interval
<1>2. \A i \in 1 .. n : /\ samples[i] \in S /\ d[i] = PixelDepth(samples[i])
                        /\ d[i] = DepthAt(frame, samples[i]) /\ d[i] \in Nat \ {0}
  BY DEF Members
<1>3. 1 \in 1 .. n /\ n \in 1 .. n /\ h \in 1 .. n /\ 2 * (h - 1) <= n /\ 2 * (n - h) < n
  BY <1>1
<1>4. ASSUME NEW k \in 1 .. n
      PROVE  /\ \E i \in 1 .. n : depths[k] = d[i]
             /\ Cardinality(Below(d, depths[k])) < k /\ k <= Cardinality(NotAbove(d, depths[k]))
  BY <1>2, KthDepth
<1>5. \A v : Below(d, v) \in SUBSET (1 .. n) /\ NotAbove(d, v) \in SUBSET (1 .. n)
  BY DEF Below, NotAbove
<1> HIDE DEF depths
<1>6. ASSUME NEW k \in 1 .. n
      PROVE  depths[k] \in Nat /\ \E p \in S : depths[k] = PixelDepth(p)
  <2> HIDE DEF d
  <2>1. QED
    BY <1>2, <1>4
<1>7. ASSUME NEW p \in S
      PROVE  depths[1] <= PixelDepth(p) /\ PixelDepth(p) <= depths[n]
  <2>1. PICK i \in 1 .. n : p = samples[i]
    BY DEF Members
  <2>2. d[i] = PixelDepth(p) /\ d[i] \in Nat
    BY <1>2, <2>1
  <2>3. depths[1] <= d[i]
    <3>1. Cardinality(Below(d, depths[1])) \in Nat /\ IsFiniteSet(Below(d, depths[1]))
      BY <1>1, <1>5, FS_Subset, FS_CardinalityType
    <3>2. Cardinality(Below(d, depths[1])) = 0
      BY <1>3, <1>4, <3>1
    <3>3. Below(d, depths[1]) = {}
      BY <3>1, <3>2, FS_EmptySet
    <3>4. ~(d[i] < depths[1])
      BY <3>3 DEF Below
    <3>5. QED
      BY <1>3, <1>6, <2>2, <3>4
  <2>4. d[i] <= depths[n]
    <3>1. n <= Cardinality(NotAbove(d, depths[n])) /\ NotAbove(d, depths[n]) \in SUBSET (1 .. n)
      BY <1>3, <1>4, <1>5
    <3>2. Cardinality(NotAbove(d, depths[n])) \in Nat /\ Cardinality(NotAbove(d, depths[n])) <= n
      BY <1>1, <3>1, FS_Subset, FS_CardinalityType
    <3>3. Cardinality(NotAbove(d, depths[n])) = Cardinality(1 .. n)
      BY <1>1, <3>1, <3>2
    <3>4. NotAbove(d, depths[n]) = 1 .. n
      BY <1>1, <3>1, <3>3, FS_Subset
    <3>5. QED
      BY <3>4 DEF NotAbove
  <2>5. QED
    BY <2>2, <2>3, <2>4
<1>8. IsUpperMedian(S, depths[h])
  <2> DEFINE v == depths[h]
             below == Below(d, v)
             notAbove == NotAbove(d, v)
             above == (1 .. n) \ notAbove
             nearer == {p \in S : PixelDepth(p) < v}
             farther == {p \in S : PixelDepth(p) > v}
  <2>1. below \in SUBSET (1 .. n) /\ notAbove \in SUBSET (1 .. n) /\ above \in SUBSET (1 .. n)
    BY <1>5
  <2>2. v \in Nat
    BY <1>3, <1>6
  <2>3. nearer = {samples[i] : i \in below}
    BY <1>2 DEF Below, Members
  <2>4. farther = {samples[i] : i \in above}
    <3>1. above = {i \in 1 .. n : PixelDepth(samples[i]) > v}
      BY <1>2, <2>2 DEF NotAbove
    <3>2. farther = {samples[i] : i \in {j \in 1 .. n : PixelDepth(samples[j]) > v}}
      BY DEF Members
    <3>3. QED
      BY <3>1, <3>2
  <2>5. Cardinality(nearer) = Cardinality(below) /\ Cardinality(below) \in Nat
    <3> HIDE DEF below, nearer
    <3>1. SameCount({samples[i] : i \in below}, below)
      BY <2>1, SelectedCount
    <3>2. QED
      BY <2>3, <3>1 DEF SameCount
  <2>6. Cardinality(farther) = Cardinality(above) /\ Cardinality(above) \in Nat
    <3> HIDE DEF above, farther
    <3>1. SameCount({samples[i] : i \in above}, above)
      BY <2>1, SelectedCount
    <3>2. QED
      BY <2>4, <3>1 DEF SameCount
  <2>7. Cardinality(above) = n - Cardinality(notAbove)
    <3>1. (1 .. n) \cap notAbove = notAbove
      BY <2>1
    <3> DEFINE all == 1 .. n
    <3>2. IsFiniteSet(all) /\ Cardinality(all) = n
      BY <1>1
    <3> HIDE DEF notAbove, all
    <3>3. Cardinality(all \ notAbove) = Cardinality(all) - Cardinality(all \cap notAbove)
      BY <3>2, FS_Difference
    <3>4. QED
      BY <3>1, <3>2, <3>3 DEF all
  <2>8. Cardinality(notAbove) \in Nat
    BY <1>1, <2>1, FS_Subset, FS_CardinalityType
  <2>9. Cardinality(below) < h /\ h <= Cardinality(notAbove)
    BY <1>3, <1>4
  <2>10. Cardinality(S) = n
    BY DistinctCount
  <2>11. 2 * Cardinality(nearer) <= n /\ 2 * Cardinality(farther) < n
    <3> HIDE DEF nearer, farther, above, below, notAbove, h, n
    <3>1. h \in Nat /\ n \in Nat
      BY <1>1, <1>3
    <3>2. QED
      BY <1>3, <2>5, <2>6, <2>7, <2>8, <2>9, <3>1
  <2>12. QED
    BY <2>10, <2>11 DEF IsUpperMedian
<1>9. QED
  BY <1>3, <1>6, <1>7, <1>8 DEF depths

-----------------------------------------------------------------------------
(***************************************************************************)
(* Images and regions, row by row.                                         *)
(***************************************************************************)
\* Quotient and remainder are unique.
LEMMA Division ==
  ASSUME NEW w \in Nat \ {0}, NEW x \in 0 .. w - 1, NEW y \in Int
  PROVE  (y * w + x) % w = x /\ (y * w + x) \div w = y
<1> DEFINE n == y * w + x
           q == n \div w
           r == n % w
<1>1. n \in Int
  OBVIOUS
<1>2. q \in Int /\ r \in 0 .. w - 1 /\ n = w * q + r
  <2> HIDE DEF n
  <2>1. QED
    BY <1>1
<1> HIDE DEF q, r
<1>3. w * (y - q) = r - x
  BY <1>2
<1> DEFINE e == y - q
<1>4. e \in Int /\ w * e < w /\ w * e > -w
  BY <1>2, <1>3
<1> HIDE DEF e
<1>5. ~(e >= 1)
  <2>1. e >= 1 => w * e >= w * 1
    BY <1>4
  <2>2. QED
    BY <1>4, <2>1
<1>6. ~(e <= -1)
  <2>1. e <= -1 => w * e <= w * (-1)
    BY <1>4
  <2>2. QED
    BY <1>4, <2>1
<1>7. e = 0
  BY <1>4, <1>5, <1>6
<1>8. y = q /\ r = x
  BY <1>2, <1>3, <1>7 DEF e
<1>9. QED
  BY <1>8 DEF q, r

\* The cells of a grid of w columns and h rows, numbered row by row.
Across(w, i) == (i - 1) % w
Down(w, i) == (i - 1) \div w
Cell(w, c, r) == r * w + c + 1

CellsNumbered(w, h) ==
  /\ w * h \in Nat
  /\ \A i \in 1 .. w * h : Across(w, i) \in 0 .. w - 1 /\ Down(w, i) \in 0 .. h - 1
  /\ \A c \in 0 .. w - 1, r \in 0 .. h - 1 :
       /\ Cell(w, c, r) \in 1 .. w * h
       /\ Across(w, Cell(w, c, r)) = c /\ Down(w, Cell(w, c, r)) = r
  /\ \A i, j \in 1 .. w * h : Across(w, i) = Across(w, j) /\ Down(w, i) = Down(w, j) => i = j

\* Every cell has one number.
LEMMA Cells ==
  ASSUME NEW w \in Nat \ {0}, NEW h \in Nat \ {0}
  PROVE  CellsNumbered(w, h)
<1> DEFINE n == w * h
<1>1. n \in Nat
  OBVIOUS
<1>2. ASSUME NEW i \in 1 .. n
      PROVE  /\ (i - 1) % w \in 0 .. w - 1 /\ (i - 1) \div w \in 0 .. h - 1
             /\ i - 1 = w * ((i - 1) \div w) + ((i - 1) % w)
  <2> DEFINE q == (i - 1) \div w
             r == (i - 1) % w
  <2>1. i - 1 \in Nat /\ i - 1 < w * h
    BY <1>1
  <2>2. q \in Int /\ r \in 0 .. w - 1 /\ i - 1 = w * q + r
    <3> HIDE DEF n
    <3>1. QED
      BY <2>1
  <2> HIDE DEF q, r
  <2>3. ~(q <= -1)
    <3>1. q <= -1 => w * q <= w * (-1)
      BY <2>2
    <3>2. QED
      BY <2>1, <2>2, <3>1
  <2>4. ~(q >= h)
    <3>1. q >= h => w * q >= w * h
      BY <2>2
    <3>2. QED
      BY <2>1, <2>2, <3>1
  <2>5. q \in 0 .. h - 1
    BY <2>2, <2>3, <2>4
  <2>6. QED
    BY <2>2, <2>5 DEF q, r
<1>3. ASSUME NEW c \in 0 .. w - 1, NEW r \in 0 .. h - 1
      PROVE  /\ r * w + c + 1 \in 1 .. n
             /\ (r * w + c + 1 - 1) % w = c /\ (r * w + c + 1 - 1) \div w = r
  <2>1. (r * w + c) % w = c /\ (r * w + c) \div w = r
    BY Division
  <2>2. r * w \in Nat /\ r * w <= (h - 1) * w
    OBVIOUS
  <2>3. r * w + c + 1 \in 1 .. n
    <3>1. (h - 1) * w = n - w
      OBVIOUS
    <3>2. QED
      BY <1>1, <2>2, <3>1
  <2>4. r * w + c + 1 - 1 = r * w + c
    BY <2>2
  <2>5. QED
    BY <2>1, <2>3, <2>4
<1> HIDE DEF n
<1>4. ASSUME NEW i \in 1 .. n, NEW j \in 1 .. n,
             (i - 1) % w = (j - 1) % w, (i - 1) \div w = (j - 1) \div w
      PROVE  i = j
  <2>1. i - 1 = j - 1
    BY <1>2, <1>4, Zenon
  <2>2. QED
    BY <1>1, <2>1
<1>5. QED
  BY <1>1, <1>2, <1>3, <1>4 DEF n, CellsNumbered, Across, Down, Cell

\* The scan of a region visits every pixel of it once.
LEMMA ScanIs ==
  ASSUME NEW roi, roi.x \in Int, roi.y \in Int, roi.width \in Nat \ {0}, roi.height \in Nat \ {0}
  PROVE  /\ Scan(roi) \in Seq(Int \X Int) /\ Len(Scan(roi)) = roi.width * roi.height
         /\ Distinct(Scan(roi))
         /\ Members(Scan(roi)) = {p \in Int \X Int : InRoi(roi, p)}
<1> DEFINE w == roi.width
           h == roi.height
           n == w * h
           s == Scan(roi)
<1>1. /\ n \in Nat
      /\ \A i \in 1 .. n : Across(w, i) \in 0 .. w - 1 /\ Down(w, i) \in 0 .. h - 1
      /\ \A c \in 0 .. w - 1, r \in 0 .. h - 1 :
           \E i \in 1 .. n : Across(w, i) = c /\ Down(w, i) = r
      /\ \A i, j \in 1 .. n : Across(w, i) = Across(w, j) /\ Down(w, i) = Down(w, j) => i = j
  <2>1. w \in Nat \ {0} /\ h \in Nat \ {0}
    OBVIOUS
  <2> HIDE DEF w, h
  <2>2. CellsNumbered(w, h)
    BY <2>1, Cells
  <2>3. QED
    BY <2>2, Zenon DEF CellsNumbered
<1>2. s = [i \in 1 .. n |-> <<roi.x + Across(w, i), roi.y + Down(w, i)>>]
  BY DEF Scan, Across, Down
<1> HIDE DEF s, n
<1>3. w \in Nat \ {0} /\ h \in Nat \ {0}
  OBVIOUS
<1>4. \A i \in 1 .. n : Across(w, i) \in Int /\ Down(w, i) \in Int
  BY <1>1, <1>3
<1> HIDE DEF w, h
<1>5. s \in [1 .. n -> Int \X Int]
  BY <1>2, <1>4
<1>6. s \in Seq(Int \X Int) /\ Len(s) = n
  BY <1>1, <1>5, SequenceOf, Zenon
<1>7. Distinct(s)
  <2>1. ASSUME NEW i \in 1 .. n, NEW j \in 1 .. n, s[i] = s[j]
        PROVE  i = j
    <3>1. roi.x + Across(w, i) = roi.x + Across(w, j) /\ roi.y + Down(w, i) = roi.y + Down(w, j)
      BY <1>2, <2>1
    <3>2. Across(w, i) = Across(w, j) /\ Down(w, i) = Down(w, j)
      BY <1>4, <3>1
    <3>3. QED
      BY <1>1, <3>2
  <2>2. QED
    BY <1>6, <2>1 DEF Distinct
<1>8. ASSUME NEW i \in 1 .. n
      PROVE  s[i] \in Int \X Int /\ InRoi(roi, s[i])
  <2>1. s[i] = <<roi.x + Across(w, i), roi.y + Down(w, i)>>
    BY <1>2
  <2>2. Across(w, i) \in 0 .. w - 1 /\ Down(w, i) \in 0 .. h - 1
    BY <1>1
  <2>3. QED
    BY <1>3, <2>1, <2>2 DEF InRoi, w, h
<1>9. ASSUME NEW p \in Int \X Int, InRoi(roi, p)
      PROVE  \E i \in 1 .. n : p = s[i]
  <2>1. p[1] - roi.x \in 0 .. w - 1 /\ p[2] - roi.y \in 0 .. h - 1
    BY <1>3, <1>9 DEF InRoi, w, h
  <2>2. PICK i \in 1 .. n : Across(w, i) = p[1] - roi.x /\ Down(w, i) = p[2] - roi.y
    BY <1>1, <2>1
  <2>3. p = <<roi.x + Across(w, i), roi.y + Down(w, i)>>
    BY <2>2
  <2>4. QED
    BY <1>2, <2>3
<1>10. Members(s) = {p \in Int \X Int : InRoi(roi, p)}
  BY <1>6, <1>8, <1>9 DEF Members
<1>11. QED
  BY <1>6, <1>7, <1>10 DEF s, n, w, h

\* The multiples of the stride along a side.
LEMMA Slots ==
  ASSUME NEW side \in Nat \ {0}, NEW stride \in Nat \ {0}
  PROVE  LET slots == (side + stride - 1) \div stride
         IN /\ slots \in Nat \ {0}
            /\ \A c \in 0 .. slots - 1 : stride * c \in 0 .. side - 1 /\ (stride * c) % stride = 0
            /\ \A x \in 0 .. side - 1 : x % stride = 0 =>
                 x \div stride \in 0 .. slots - 1 /\ x = stride * (x \div stride)
<1> DEFINE m == side + stride - 1
           slots == m \div stride
<1>1. m \in Nat /\ m >= stride
  OBVIOUS
<1>2. slots \in Int /\ stride * slots <= m /\ m < stride * slots + stride
  <2> HIDE DEF m
  <2>1. QED
    BY <1>1
<1> HIDE DEF slots
<1>3. slots \in Nat \ {0}
  <2>1. slots <= 0 => stride * slots <= 0
    BY <1>2
  <2>2. QED
    BY <1>1, <1>2, <2>1
<1>4. ASSUME NEW c \in 0 .. slots - 1
      PROVE  stride * c \in 0 .. side - 1 /\ (stride * c) % stride = 0
  <2>1. c <= slots - 1 => stride * c <= stride * (slots - 1)
    BY <1>3
  <2>2. stride * (slots - 1) = stride * slots - stride
    BY <1>2
  <2>3. stride * c \in Nat
    BY <1>3
  <2>4. stride * c <= side - 1
    BY <1>2, <1>3, <2>1, <2>2, <2>3
  <2>5. (c * stride + 0) % stride = 0
    <3>1. c \in Int /\ 0 \in 0 .. stride - 1
      OBVIOUS
    <3>2. QED
      BY <3>1, Division
  <2>6. stride * c = c * stride + 0
    BY <1>3
  <2>7. QED
    BY <2>3, <2>4, <2>5, <2>6
<1>5. ASSUME NEW x \in 0 .. side - 1, x % stride = 0
      PROVE  x \div stride \in 0 .. slots - 1 /\ x = stride * (x \div stride)
  <2> DEFINE q == x \div stride
  <2>1. q \in Int /\ x = stride * q
    BY <1>5
  <2> HIDE DEF q
  <2>2. ~(q <= -1)
    <3>1. q <= -1 => stride * q <= stride * (-1)
      BY <2>1
    <3>2. QED
      BY <2>1, <3>1
  <2>3. ~(q >= slots)
    <3>1. q >= slots => stride * q >= stride * slots
      BY <1>3, <2>1
    <3>2. QED
      BY <1>2, <1>3, <2>1, <3>1
  <2>4. q \in 0 .. slots - 1
    BY <1>3, <2>1, <2>2, <2>3
  <2>5. QED
    BY <2>1, <2>4 DEF q
<1>6. QED
  BY <1>3, <1>4, <1>5 DEF slots

\* The pixels of the image whose coordinates are multiples of the stride.
GridOf(profile, stride) == {p \in Pixels(profile) : p[1] % stride = 0 /\ p[2] % stride = 0}

\* The two loops visit every one of them once.
LEMMA SampledIs ==
  ASSUME NEW profile, profile.width \in Nat \ {0}, profile.height \in Nat \ {0},
         NEW stride \in Nat \ {0}
  PROVE  /\ Sampled(profile, stride) \in Seq(Int \X Int)
         /\ Len(Sampled(profile, stride)) = CountSampleSlots(profile, stride)
         /\ Distinct(Sampled(profile, stride))
         /\ Members(Sampled(profile, stride)) = GridOf(profile, stride)
<1> DEFINE w == (profile.width + stride - 1) \div stride
           h == (profile.height + stride - 1) \div stride
           n == w * h
           s == Sampled(profile, stride)
<1>1. /\ w \in Nat \ {0}
      /\ \A c \in 0 .. w - 1 : stride * c \in 0 .. profile.width - 1 /\ (stride * c) % stride = 0
      /\ \A x \in 0 .. profile.width - 1 : x % stride = 0 =>
           x \div stride \in 0 .. w - 1 /\ x = stride * (x \div stride)
  BY Slots
<1>2. /\ h \in Nat \ {0}
      /\ \A r \in 0 .. h - 1 : stride * r \in 0 .. profile.height - 1 /\ (stride * r) % stride = 0
      /\ \A y \in 0 .. profile.height - 1 : y % stride = 0 =>
           y \div stride \in 0 .. h - 1 /\ y = stride * (y \div stride)
  BY Slots
<1>3. CountSampleSlots(profile, stride) = n
  BY DEF CountSampleSlots
<1>4. s = [i \in 1 .. n |-> <<stride * Across(w, i), stride * Down(w, i)>>]
  BY DEF Sampled, Across, Down, CountSampleSlots
<1> HIDE DEF w, h, s
<1>5. /\ n \in Nat
      /\ \A i \in 1 .. n : Across(w, i) \in 0 .. w - 1 /\ Down(w, i) \in 0 .. h - 1
      /\ \A c \in 0 .. w - 1, r \in 0 .. h - 1 :
           \E i \in 1 .. n : Across(w, i) = c /\ Down(w, i) = r
      /\ \A i, j \in 1 .. n : Across(w, i) = Across(w, j) /\ Down(w, i) = Down(w, j) => i = j
  <2>1. CellsNumbered(w, h)
    BY <1>1, <1>2, Cells
  <2>2. QED
    BY <2>1, Zenon DEF CellsNumbered
<1> HIDE DEF n
<1>6. ASSUME NEW i \in 1 .. n
      PROVE  /\ s[i] = <<stride * Across(w, i), stride * Down(w, i)>>
             /\ stride * Across(w, i) \in 0 .. profile.width - 1
             /\ stride * Down(w, i) \in 0 .. profile.height - 1
             /\ (stride * Across(w, i)) % stride = 0 /\ (stride * Down(w, i)) % stride = 0
  BY <1>1, <1>2, <1>4, <1>5
<1>7. ASSUME NEW i \in 1 .. n
      PROVE  s[i] \in Int \X Int /\ s[i] \in GridOf(profile, stride)
  <2> DEFINE a == stride * Across(w, i)
             b == stride * Down(w, i)
  <2>1. /\ s[i] = <<a, b>> /\ a \in 0 .. profile.width - 1 /\ b \in 0 .. profile.height - 1
        /\ a % stride = 0 /\ b % stride = 0
    BY <1>6
  <2> HIDE DEF a, b
  <2>2. a \in Int /\ b \in Int
    BY <2>1
  <2>3. <<a, b>> \in GridOf(profile, stride)
    BY <2>1 DEF GridOf, Pixels
  <2>4. QED
    BY <2>1, <2>2, <2>3
<1>8. s \in [1 .. n -> Int \X Int]
  BY <1>4, <1>7
<1>9. s \in Seq(Int \X Int) /\ Len(s) = n
  BY <1>5, <1>8, SequenceOf, Zenon
<1>10. Distinct(s)
  <2>1. ASSUME NEW i \in 1 .. n, NEW j \in 1 .. n, s[i] = s[j]
        PROVE  i = j
    <3>1. ASSUME NEW a \in Int, NEW b \in Int, stride * a = stride * b
          PROVE  a = b
      <4>1. a < b => stride * a < stride * b
        OBVIOUS
      <4>2. b < a => stride * b < stride * a
        OBVIOUS
      <4>3. QED
        BY <3>1, <4>1, <4>2
    <3>2. /\ stride * Across(w, i) = stride * Across(w, j)
          /\ stride * Down(w, i) = stride * Down(w, j)
      BY <1>6, <2>1
    <3>3. /\ Across(w, i) \in Int /\ Across(w, j) \in Int
          /\ Down(w, i) \in Int /\ Down(w, j) \in Int
      BY <1>1, <1>2, <1>5
    <3>4. Across(w, i) = Across(w, j) /\ Down(w, i) = Down(w, j)
      BY <3>1, <3>2, <3>3, Zenon
    <3>5. QED
      BY <1>5, <3>4
  <2>2. QED
    BY <1>9, <2>1 DEF Distinct
<1>11. ASSUME NEW p \in GridOf(profile, stride)
       PROVE  \E i \in 1 .. n : p = s[i]
  <2>1. /\ p[1] \in 0 .. profile.width - 1 /\ p[2] \in 0 .. profile.height - 1
        /\ p[1] % stride = 0 /\ p[2] % stride = 0 /\ p = <<p[1], p[2]>>
    BY DEF GridOf, Pixels
  <2>2. /\ p[1] \div stride \in 0 .. w - 1 /\ p[1] = stride * (p[1] \div stride)
        /\ p[2] \div stride \in 0 .. h - 1 /\ p[2] = stride * (p[2] \div stride)
    BY <1>1, <1>2, <2>1
  <2>3. PICK i \in 1 .. n : Across(w, i) = p[1] \div stride /\ Down(w, i) = p[2] \div stride
    BY <1>5, <2>2
  <2>4. s[i] = p
    BY <1>6, <2>1, <2>2, <2>3, Zenon
  <2>5. QED
    BY <2>4
<1>12. Members(s) = GridOf(profile, stride)
  BY <1>7, <1>9, <1>11 DEF Members
<1>13. QED
  BY <1>3, <1>9, <1>10, <1>12 DEF s

\* A scan of a region that may have no pixels.
LEMMA AnyScanIs ==
  ASSUME NEW roi, roi.x \in Int, roi.y \in Int, roi.width \in Nat, roi.height \in Nat
  PROVE  /\ Scan(roi) \in Seq(Int \X Int) /\ Len(Scan(roi)) = roi.width * roi.height
         /\ Distinct(Scan(roi))
         /\ Members(Scan(roi)) = {p \in Int \X Int : InRoi(roi, p)}
<1>1. CASE roi.width # 0 /\ roi.height # 0
  BY <1>1, ScanIs
<1>2. CASE roi.width = 0 \/ roi.height = 0
  <2>1. roi.width * roi.height = 0
    BY <1>2
  <2>2. Scan(roi) \in [1 .. 0 -> Int \X Int]
    BY <2>1 DEF Scan
  <2>3. Scan(roi) \in Seq(Int \X Int) /\ Len(Scan(roi)) = 0
    BY <2>2, SequenceOf, Zenon
  <2>4. \A p \in Int \X Int : ~InRoi(roi, p)
    BY <1>2 DEF InRoi
  <2>5. Distinct(Scan(roi)) /\ Members(Scan(roi)) = {}
    BY <2>3 DEF Distinct, Members
  <2>6. QED
    BY <2>1, <2>3, <2>4, <2>5
<1>3. QED
  BY <1>1, <1>2

\* The clamped region is the part of the region that is in the image.
LEMMA ClampedIs ==
  ASSUME NEW profile, profile.width \in Nat, profile.height \in Nat,
         NEW roi, roi.x \in Int, roi.y \in Int, roi.width \in Nat \ {0}, roi.height \in Nat \ {0}
  PROVE  LET clamped == ClampedRoi(profile, roi)
         IN /\ clamped.x \in Int /\ clamped.y \in Int
            /\ clamped.width \in Nat /\ clamped.height \in Nat
            /\ {p \in Int \X Int : InRoi(clamped, p)} = {p \in Pixels(profile) : InRoi(roi, p)}
            /\ {p \in Pixels(profile) : InRoi(clamped, p)} = {p \in Pixels(profile) : InRoi(roi, p)}
<1> DEFINE clamped == ClampedRoi(profile, roi)
           w == profile.width
           h == profile.height
           minX == Clamp(roi.x, 0, w)
           minY == Clamp(roi.y, 0, h)
           maxX == Clamp(roi.x + roi.width, 0, w)
           maxY == Clamp(roi.y + roi.height, 0, h)
<1>1. ASSUME NEW a \in Int, NEW length \in Nat \ {0}, NEW side \in Nat
      PROVE  LET low == Clamp(a, 0, side)
                 high == Clamp(a + length, 0, side)
             IN /\ low \in Int /\ high \in Int /\ low <= high
                /\ \A x \in Int : (low <= x /\ x < high) <=>
                                  (0 <= x /\ x < side /\ a <= x /\ x < a + length)
  BY DEF Clamp
<1>2. /\ minX \in Int /\ maxX \in Int /\ minX <= maxX
      /\ \A x \in Int : (minX <= x /\ x < maxX) <=>
                        (0 <= x /\ x < w /\ roi.x <= x /\ x < roi.x + roi.width)
  BY <1>1
<1>3. /\ minY \in Int /\ maxY \in Int /\ minY <= maxY
      /\ \A y \in Int : (minY <= y /\ y < maxY) <=>
                        (0 <= y /\ y < h /\ roi.y <= y /\ y < roi.y + roi.height)
  BY <1>1
<1>4. clamped = Roi(minX, minY, AtLeastZero(maxX - minX), AtLeastZero(maxY - minY))
  BY DEF ClampedRoi
<1> HIDE DEF minX, minY, maxX, maxY, clamped
<1>5. /\ clamped.x = minX /\ clamped.y = minY
      /\ clamped.width = maxX - minX /\ clamped.height = maxY - minY
      /\ clamped.width \in Nat /\ clamped.height \in Nat
  BY <1>2, <1>3, <1>4 DEF Roi, AtLeastZero
<1>6. ASSUME NEW p \in Int \X Int
      PROVE  InRoi(clamped, p) <=> p \in Pixels(profile) /\ InRoi(roi, p)
  <2>1. p[1] \in Int /\ p[2] \in Int /\ p = <<p[1], p[2]>>
    OBVIOUS
  <2>2. InRoi(clamped, p) <=> (minX <= p[1] /\ p[1] < maxX) /\ (minY <= p[2] /\ p[2] < maxY)
    BY <1>2, <1>3, <1>5, <2>1 DEF InRoi
  <2>3. p \in Pixels(profile) <=> (0 <= p[1] /\ p[1] < w) /\ (0 <= p[2] /\ p[2] < h)
    BY <2>1 DEF Pixels
  <2>4. InRoi(roi, p) <=> /\ roi.x <= p[1] /\ p[1] < roi.x + roi.width
                          /\ roi.y <= p[2] /\ p[2] < roi.y + roi.height
    BY <2>1 DEF InRoi
  <2>5. QED
    BY <1>2, <1>3, <2>1, <2>2, <2>3, <2>4
<1>7. Pixels(profile) \subseteq Int \X Int
  BY DEF Pixels
<1>8. /\ {p \in Int \X Int : InRoi(clamped, p)} = {p \in Pixels(profile) : InRoi(roi, p)}
      /\ {p \in Pixels(profile) : InRoi(clamped, p)} = {p \in Pixels(profile) : InRoi(roi, p)}
  BY <1>6, <1>7, Zenon
<1>9. QED
  BY <1>2, <1>3, <1>5, <1>8 DEF clamped

\* A frame has the depth and the color of a pixel of the fake camera where its index says.
Shows(f, profile, number, seed, x, y) ==
  /\ f.depth[Index(profile, x, y)] = FakeDepth(x, y)
  /\ f.color[Index(profile, x, y)] = FakeColor(number, seed, x, y)

-----------------------------------------------------------------------------
(***************************************************************************)
(* The queries of the fake camera.                                         *)
(***************************************************************************)
\* The buffers of makeFrame hold the depth and the color of a pixel at its index.
LEMMA BufferOfPixel ==
  ASSUME NEW profile, profile.width \in Nat \ {0}, profile.height \in Nat \ {0},
         NEW seed, NEW generation, NEW number,
         NEW x \in 0 .. profile.width - 1, NEW y \in 0 .. profile.height - 1
  PROVE  Shows(FakeFrame(profile, seed, generation, number), profile, number, seed, x, y)
<1> DEFINE i == Index(profile, x, y)
           w == profile.width
           h == profile.height
<1>1. i % w = x /\ i \div w = y
  <2>1. w \in Nat \ {0} /\ x \in 0 .. w - 1 /\ y \in Int
    OBVIOUS
  <2> HIDE DEF w
  <2>2. (y * w + x) % w = x /\ (y * w + x) \div w = y
    BY <2>1, Division, Zenon
  <2>3. QED
    BY <2>2 DEF Index, w
<1>2. i \in Indices(profile)
  <2>1. CellsNumbered(w, h)
    BY Cells
  <2>2. y * w + x + 1 \in 1 .. w * h
    BY <2>1 DEF CellsNumbered, Cell
  <2>3. y * w \in Nat /\ w * h \in Nat
    OBVIOUS
  <2> DEFINE a == y * w
             b == w * h
  <2> HIDE DEF a, b
  <2>4. a + x \in 0 .. b - 1
    BY <2>2, <2>3 DEF a, b
  <2>5. QED
    BY <2>4 DEF Indices, Index, a, b
<1> HIDE DEF i
<1>3. Column(profile, i) = x /\ Row(profile, i) = y
  BY <1>1 DEF Column, Row
<1>4. QED
  BY <1>2, <1>3 DEF Shows, FakeFrame, i

\* The depths are numbers.
LEMMA FakeDepthType ==
  ASSUME NEW x \in Nat, NEW y \in Nat
  PROVE  FakeDepth(x, y) \in Nat
BY DEF FakeDepth

\* queryPixelPoint answers for the pixel that was asked for.
THEOREM PixelAnswerMatches ==
  ASSUME NEW profile, profile.width \in Nat \ {0}, profile.height \in Nat \ {0},
         NEW seed, NEW generation, NEW number,
         NEW x \in 0 .. profile.width - 1, NEW y \in 0 .. profile.height - 1
  PROVE  LET result == QueryPixelPoint(FakeFrame(profile, seed, generation, number), x, y)
         IN /\ result.x = x /\ result.y = y
            /\ result.identity.generation = generation /\ result.identity.number = number
            /\ result.valid <=> FakeDepth(x, y) > 0
            /\ result.valid => /\ result.depth = FakeDepth(x, y)
                               /\ result.point = Deproject(x, y, FakeDepth(x, y))
<1> DEFINE f == FakeFrame(profile, seed, generation, number)
<1>1. f.depth[Index(profile, x, y)] = FakeDepth(x, y) /\ FakeDepth(x, y) \in Nat
  <2>1. Shows(f, profile, number, seed, x, y)
    BY BufferOfPixel
  <2> HIDE DEF f
  <2>2. QED
    BY <2>1, FakeDepthType DEF Shows
<1>2. f.profile = profile /\ f.identity.generation = generation /\ f.identity.number = number
  BY DEF FakeFrame
<1>3. ~(x < 0 \/ y < 0 \/ x >= profile.width \/ y >= profile.height)
  OBVIOUS
<1> HIDE DEF f
<1>4. CASE FakeDepth(x, y) <= 0
  <2>1. QueryPixelPoint(f, x, y) = [identity |-> f.identity, x |-> x, y |-> y,
                                    valid |-> FALSE, reason |-> "invalid_depth"]
    BY <1>1, <1>2, <1>3, <1>4 DEF QueryPixelPoint
  <2>2. QED
    BY <1>1, <1>2, <1>4, <2>1 DEF f
<1>5. CASE ~(FakeDepth(x, y) <= 0)
  <2>1. QueryPixelPoint(f, x, y) =
          [identity |-> f.identity, x |-> x, y |-> y, valid |-> TRUE, depth |-> FakeDepth(x, y),
           point |-> Deproject(x, y, FakeDepth(x, y))]
    BY <1>1, <1>2, <1>3, <1>5 DEF QueryPixelPoint
  <2>2. QED
    BY <1>1, <1>2, <1>5, <2>1 DEF f
<1>6. QED
  BY <1>4, <1>5

\* The scan of a set of pixels of the fake camera keeps those that have a depth.
LEMMA KeptOfFrame ==
  ASSUME NEW profile, profile.width \in Nat \ {0}, profile.height \in Nat \ {0},
         NEW seed, NEW generation, NEW number,
         NEW pixels \in Seq(Int \X Int), Distinct(pixels), Members(pixels) \subseteq Pixels(profile)
  PROVE  LET f == FakeFrame(profile, seed, generation, number)
             kept == WithDepth(f, pixels)
         IN /\ kept \in Seq(Int \X Int) /\ Distinct(kept) /\ Len(kept) \in Nat
            /\ Members(kept) = {p \in Members(pixels) : PixelDepth(p) > 0}
            /\ Cardinality(Members(kept)) = Len(kept)
            /\ \A p \in Members(kept) :
                 DepthAt(f, p) = PixelDepth(p) /\ PixelDepth(p) \in Nat \ {0}
<1> DEFINE f == FakeFrame(profile, seed, generation, number)
           kept == WithDepth(f, pixels)
<1>1. /\ kept \in Seq(Int \X Int) /\ Distinct(kept)
      /\ Members(kept) = {p \in Members(pixels) : DepthAt(f, p) > 0}
  <2> HIDE DEF f
  <2>1. QED
    BY KeptPixels
<1>2. ASSUME NEW p \in Pixels(profile)
      PROVE  DepthAt(f, p) = PixelDepth(p) /\ PixelDepth(p) \in Nat
  <2>1. p[1] \in 0 .. profile.width - 1 /\ p[2] \in 0 .. profile.height - 1
    BY DEF Pixels
  <2>2. f.depth[Index(profile, p[1], p[2])] = FakeDepth(p[1], p[2])
    <3>1. Shows(f, profile, number, seed, p[1], p[2])
      BY <2>1, BufferOfPixel
    <3> HIDE DEF f
    <3>2. QED
      BY <3>1 DEF Shows
  <2>3. FakeDepth(p[1], p[2]) \in Nat
    <3>1. p[1] \in Nat /\ p[2] \in Nat
      BY <2>1
    <3>2. QED
      BY <3>1, FakeDepthType
  <2>4. f.profile = profile
    BY DEF FakeFrame
  <2> HIDE DEF f
  <2>5. QED
    BY <2>2, <2>3, <2>4 DEF DepthAt, PixelDepth
<1> HIDE DEF f, kept
<1>3. Len(kept) \in Nat /\ Cardinality(Members(kept)) = Len(kept)
  BY <1>1, LenProperties, DistinctCount
<1>4. Members(kept) = {p \in Members(pixels) : PixelDepth(p) > 0}
  BY <1>1, <1>2
<1>5. \A p \in Members(kept) : DepthAt(f, p) = PixelDepth(p) /\ PixelDepth(p) \in Nat \ {0}
  BY <1>2, <1>4
<1>6. QED
  BY <1>1, <1>3, <1>4, <1>5 DEF f, kept

\* queryDepthInRoi answers for the part of the region that is in the image, for every
\* region with an area.
THEOREM RoiAnswerMatches ==
  ASSUME NEW profile, profile.width \in Nat \ {0}, profile.height \in Nat \ {0},
         NEW seed, NEW generation, NEW number,
         NEW x \in Int, NEW y \in Int, NEW width \in Nat \ {0}, NEW height \in Nat \ {0},
         NEW result \in QueryDepthInRoi(FakeFrame(profile, seed, generation, number),
                                        Roi(x, y, width, height))
  PROVE  /\ RoiMatches(profile, Roi(x, y, width, height), result)
         /\ result.valid \in BOOLEAN
         /\ result.medianPoint =
              IF result.valid
              THEN Deproject(result.medianPixel[1], result.medianPixel[2], PixelDepth(result.medianPixel))
              ELSE <<0, 0, 0>>
<1> DEFINE f == FakeFrame(profile, seed, generation, number)
           roi == Roi(x, y, width, height)
           clamped == ClampedRoi(f.profile, roi)
           samples == RoiSamples(f, clamped)
           depths == SortedDepths(f, samples)
           n == Len(samples)
           median == depths[(n \div 2) + 1]
           region == {p \in Pixels(profile) : InRoi(roi, p)}
           S == Samples(profile, roi)
           area == clamped.width * clamped.height
           counted == [EmptyRoiResult(f, roi) EXCEPT
                         !.roi = clamped, !.pixels = area, !.validPixels = n]
           full == [counted EXCEPT
                      !.valid = TRUE, !.min = depths[1], !.max = depths[n], !.sum = Total(f, samples),
                      !.median = median]
           answer(pixel) == [full EXCEPT !.medianPixel = pixel,
                                         !.medianPoint = Deproject(pixel[1], pixel[2], median)]
<1>1. f.profile = profile /\ f.adapter = "fake"
  BY DEF FakeFrame
<1>2. roi.x = x /\ roi.y = y /\ roi.width = width /\ roi.height = height
  BY DEF Roi
<1> HIDE DEF f, roi
<1>3. /\ clamped.x \in Int /\ clamped.y \in Int
      /\ clamped.width \in Nat /\ clamped.height \in Nat
      /\ {p \in Int \X Int : InRoi(clamped, p)} = region
      /\ {p \in Pixels(profile) : InRoi(clamped, p)} = region
  <2>1. clamped = ClampedRoi(profile, roi)
    BY <1>1
  <2> HIDE DEF clamped
  <2>2. QED
    BY <1>2, <2>1, ClampedIs
<1> HIDE DEF clamped
<1>4. /\ Scan(clamped) \in Seq(Int \X Int) /\ Len(Scan(clamped)) = area
      /\ Distinct(Scan(clamped)) /\ Members(Scan(clamped)) = region
  BY <1>3, AnyScanIs
<1>5. Cardinality(region) = area
  BY <1>4, DistinctCount
<1>6. /\ samples \in Seq(Int \X Int) /\ Distinct(samples) /\ n \in Nat
      /\ Members(samples) = S /\ Cardinality(S) = n
      /\ \A p \in S : DepthAt(f, p) = PixelDepth(p) /\ PixelDepth(p) \in Nat \ {0}
  <2>1. Members(Scan(clamped)) \subseteq Pixels(profile)
    BY <1>4
  <2>2. /\ samples \in Seq(Int \X Int) /\ Distinct(samples) /\ n \in Nat
        /\ Members(samples) = {p \in Members(Scan(clamped)) : PixelDepth(p) > 0}
        /\ Cardinality(Members(samples)) = n
        /\ \A p \in Members(samples) : DepthAt(f, p) = PixelDepth(p) /\ PixelDepth(p) \in Nat \ {0}
    BY <1>4, <2>1, KeptOfFrame DEF RoiSamples, f
  <2>3. S = {p \in region : PixelDepth(p) > 0}
    BY DEF Samples
  <2> HIDE DEF samples, S, region
  <2>4. QED
    BY <1>4, <2>2, <2>3
<1> HIDE DEF samples
<1>7. n = 0 <=> S = {}
  BY <1>6, DistinctCount, FS_EmptySet
<1>8. Total(f, samples) = DepthSum(S)
  <2>1. \A p \in Members(samples) : DepthAt(f, p) = PixelDepth(p) /\ PixelDepth(p) \in Int
    BY <1>6
  <2>2. QED
    BY <1>6, <2>1, TotalIsDepthSum
<1>9. ASSUME n # 0
      PROVE  /\ \A k \in {1, n, (n \div 2) + 1} : \E p \in S : depths[k] = PixelDepth(p)
             /\ \A p \in S : depths[1] <= PixelDepth(p) /\ PixelDepth(p) <= depths[n]
             /\ IsUpperMedian(S, median)
  <2> DEFINE T == Members(samples)
  <2>1. \A p \in T : DepthAt(f, p) = PixelDepth(p) /\ PixelDepth(p) \in Nat \ {0}
    BY <1>6
  <2>2. /\ \A k \in {1, n, (n \div 2) + 1} : \E p \in T : depths[k] = PixelDepth(p)
        /\ \A p \in T : depths[1] <= PixelDepth(p) /\ PixelDepth(p) <= depths[n]
        /\ IsUpperMedian(T, median)
    BY <1>6, <1>9, <2>1, OrderStatistics
  <2>3. T = S
    BY <1>6
  <2> HIDE DEF T, S, depths, n, median
  <2>4. QED
    BY <2>2, <2>3
<1>10. result \in IF n = 0 THEN {counted}
                  ELSE {answer(pixel) : pixel \in {p \in ToSet(samples) : DepthAt(f, p) = median}}
  <2>1. result \in QueryDepthInRoi(f, roi)
    BY DEF f, roi
  <2>2. ~(roi.width <= 0 \/ roi.height <= 0) /\ f.adapter # "intel_d435"
    BY <1>1, <1>2
  <2> DEFINE answers == IF n = 0 THEN {counted}
                        ELSE {answer(pixel) : pixel \in {p \in ToSet(samples) : DepthAt(f, p) = median}}
  <2>3. QueryDepthInRoi(f, roi) =
          IF roi.width <= 0 \/ roi.height <= 0 THEN {InvalidArgument}
          ELSE IF f.adapter = "intel_d435" THEN {EmptyRoiResult(f, roi)}
          ELSE answers
    BY Zenon DEF QueryDepthInRoi, clamped, samples
  <2> HIDE DEF answers
  <2>4. result \in answers
    BY <2>1, <2>2, <2>3
  <2>5. QED
    BY <2>4 DEF answers
<1>11. ToSet(samples) = S
  BY <1>6, LenProperties DEF ToSet, Members
<1> HIDE DEF depths, n, median, S, region, area
<1>12. CASE n = 0
  <2>1. result = counted
    BY <1>10, <1>12
  <2>2. /\ result.roi = clamped /\ result.pixels = area /\ result.validPixels = n
        /\ result.valid = FALSE /\ result.medianPoint = <<0, 0, 0>>
    BY <2>1 DEF EmptyRoiResult
  <2>3. QED
    BY <1>3, <1>5, <1>6, <1>7, <1>12, <2>2 DEF RoiMatches, region, S, roi
<1>13. CASE n # 0
  <2>1. PICK pixel \in S : DepthAt(f, pixel) = median /\ result = answer(pixel)
    BY <1>10, <1>11, <1>13
  <2>2. /\ result.roi = clamped /\ result.pixels = area /\ result.validPixels = n
        /\ result.valid = TRUE /\ result.min = depths[1] /\ result.max = depths[n]
        /\ result.sum = Total(f, samples) /\ result.median = median
        /\ result.medianPixel = pixel
        /\ result.medianPoint = Deproject(pixel[1], pixel[2], median)
    BY <2>1 DEF EmptyRoiResult
  <2>3. median = PixelDepth(pixel)
    BY <1>6, <2>1
  <2>4. /\ \A p \in S : result.min <= PixelDepth(p) /\ PixelDepth(p) <= result.max
        /\ \E p \in S : result.min = PixelDepth(p)
        /\ \E p \in S : result.max = PixelDepth(p)
        /\ IsUpperMedian(S, result.median)
    BY <1>9, <1>13, <2>2
  <2>5. RoiMatches(profile, roi, result)
    <3>1. /\ {p \in Pixels(profile) : InRoi(result.roi, p)} = region
          /\ result.pixels = Cardinality(region) /\ result.validPixels = Cardinality(S)
          /\ result.valid <=> S # {}
      BY <1>3, <1>5, <1>6, <2>1, <2>2
    <3>2. /\ result.medianPixel \in S /\ result.median = PixelDepth(result.medianPixel)
          /\ result.sum = DepthSum(S)
      BY <1>8, <2>1, <2>2, <2>3
    <3>3. QED
      BY <2>4, <3>1, <3>2, Zenon DEF RoiMatches, region, S
  <2>6. QED
    BY <2>2, <2>3, <2>5 DEF roi
<1>14. QED
  BY <1>12, <1>13

-----------------------------------------------------------------------------
(***************************************************************************)
(* Point clouds.                                                           *)
(***************************************************************************)
\* One slot is left of a side that is shorter than the stride.
LEMMA OneSlot ==
  ASSUME NEW side \in Nat \ {0}, NEW stride \in Nat \ {0}, side <= stride
  PROVE  (side + stride - 1) \div stride = 1
<1> DEFINE n == side + stride - 1
           q == n \div stride
<1>1. n \in Nat /\ stride <= n /\ n < 2 * stride
  OBVIOUS
<1> HIDE DEF n
<1>2. q \in Int /\ stride * q <= n /\ n < stride * q + stride
  BY <1>1
<1> HIDE DEF q
<1>3. ~(q <= 0)
  <2>1. q <= 0 => stride * q <= 0
    BY <1>2
  <2>2. QED
    BY <1>1, <1>2, <2>1
<1>4. ~(q >= 2)
  <2>1. q >= 2 => stride * q >= stride * 2
    BY <1>2
  <2>2. QED
    BY <1>1, <1>2, <2>1
<1>5. q = 1
  BY <1>2, <1>3, <1>4
<1>6. QED
  BY <1>5 DEF q, n

\* The loop of buildPointCloudSnapshot that widens the stride ends, at the first stride that
\* is wide enough: the point cloud fits, and no finer grid would have.
THEOREM StrideIsFinest ==
  ASSUME NEW profile, profile.width \in Nat \ {0}, profile.height \in Nat \ {0},
         NEW maxPoints \in Nat \ {0}, NEW requested \in Nat \ {0}
  PROVE  LET stride == EffectiveStride(profile, maxPoints, requested)
         IN /\ stride \in Nat \ {0} /\ stride >= requested
            /\ stride <= requested + profile.width + profile.height
            /\ CountSampleSlots(profile, stride) <= maxPoints
            /\ \A finer \in requested .. stride - 1 : CountSampleSlots(profile, finer) > maxPoints
<1> DEFINE widest == requested + profile.width + profile.height
           Wider(stride) == stride < widest /\ CountSampleSlots(profile, stride) > maxPoints
           Strides == requested .. widest
           Body(f) == [stride \in Strides |-> IF Wider(stride) THEN f[stride + 1] ELSE stride]
           Ends(stride, end) == /\ end \in stride .. widest /\ ~Wider(end)
                                /\ \A t \in stride .. end - 1 : Wider(t)
           end == [stride \in Strides |-> CHOOSE t \in Strides : Ends(stride, t)]
<1>1. widest \in Nat /\ requested <= widest /\ ~Wider(widest)
      /\ \A stride \in Strides : stride \in Nat
  OBVIOUS
<1>2. \A stride \in Strides : Wider(stride) => stride + 1 \in Strides
  OBVIOUS
<1> HIDE DEF Wider
<1>3. ASSUME NEW stride \in Strides
      PROVE  end[stride] \in Strides /\ Ends(stride, end[stride])
  <2> DEFINE S == {t \in stride .. widest : ~Wider(t)}
  <2>1. S \in SUBSET Nat /\ widest \in S
    BY <1>1
  <2>2. PICK n \in S : \A m \in S : n <= m
    <3> HIDE DEF S
    <3>1. QED
      BY <2>1, LeastElement
  <2>3. n \in stride .. widest /\ ~Wider(n) /\ \A t \in stride .. n - 1 : t \notin S
    BY <1>1, <2>2
  <2>4. \A t \in stride .. n - 1 : t \in stride .. widest
    BY <1>1, <2>3
  <2>5. n \in Strides /\ Ends(stride, n)
    BY <1>1, <2>3, <2>4
  <2> HIDE DEF Ends, Strides
  <2>6. QED
    BY <2>5
<1>4. ASSUME NEW stride \in Strides, NEW a, NEW b, Ends(stride, a), Ends(stride, b)
      PROVE  a = b
  <2>1. a \in Int /\ b \in Int /\ stride \in Int
    BY <1>1, <1>4
  <2>2. ~(a < b)
    BY <1>4, <2>1
  <2>3. ~(b < a)
    BY <1>4, <2>1
  <2>4. QED
    BY <2>1, <2>2, <2>3
<1>5. end = Body(end)
  <2>1. ASSUME NEW stride \in Strides, Wider(stride)
        PROVE  end[stride] = end[stride + 1]
    <3>1. stride + 1 \in Strides /\ stride \in Nat
      BY <1>1, <1>2, <2>1
    <3>2. Ends(stride + 1, end[stride + 1])
      BY <1>3, <3>1
    <3>3. Ends(stride, end[stride + 1])
      BY <2>1, <3>1, <3>2
    <3>4. Ends(stride, end[stride])
      BY <1>3, <2>1
    <3> HIDE DEF Ends, end
    <3>5. QED
      BY <1>4, <2>1, <3>3, <3>4
  <2>2. ASSUME NEW stride \in Strides, ~Wider(stride)
        PROVE  end[stride] = stride
    <3>1. Ends(stride, stride)
      BY <1>1, <2>2
    <3>2. QED
      BY <1>3, <1>4, <2>2, <3>1
  <2>3. end = [stride \in Strides |-> end[stride]]
    OBVIOUS
  <2> HIDE DEF Ends, Strides, end
  <2>4. QED
    BY <2>1, <2>2, <2>3
<1>6. ASSUME NEW f, f = Body(f)
      PROVE  Ends(requested, f[requested])
  <2> DEFINE Bad == {n \in Nat : widest - n \in Strides /\ ~Ends(widest - n, f[widest - n])}
  <2>1. \A stride \in Strides : f[stride] = IF Wider(stride) THEN f[stride + 1] ELSE stride
    BY <1>6
  <2>2. ASSUME NEW n \in Bad, \A m \in Bad : n <= m
        PROVE  FALSE
    <3> DEFINE stride == widest - n
    <3>1. stride \in Strides /\ ~Ends(stride, f[stride]) /\ stride \in Nat /\ n \in Nat
      BY <1>1, <2>2
    <3>2. Wider(stride) /\ f[stride] = f[stride + 1]
      <4>1. Ends(stride, stride) \/ Wider(stride)
        BY <1>1, <3>1
      <4>2. QED
        BY <2>1, <3>1, <4>1
    <3>3. stride + 1 \in Strides /\ stride + 1 = widest - (n - 1)
      BY <1>1, <1>2, <3>1, <3>2
    <3>4. n - 1 \in Nat
      BY <1>1, <3>1, <3>3
    <3>5. ~Ends(stride + 1, f[stride + 1])
      <4>1. ASSUME Ends(stride + 1, f[stride])
            PROVE  Ends(stride, f[stride])
        BY <3>1, <3>2, <4>1
      <4>2. QED
        BY <3>1, <3>2, <4>1
    <3>6. n - 1 \in Bad
      <4> HIDE DEF Ends
      <4>1. QED
        BY <3>3, <3>4, <3>5
    <3>7. QED
      BY <2>2, <3>1, <3>6
  <2>3. Bad = {}
    <3> HIDE DEF Bad
    <3>1. Bad \in SUBSET Nat
      BY DEF Bad
    <3>2. QED
      BY <2>2, <3>1, LeastElement
  <2>4. requested \in Strides /\ widest - requested \in Nat /\ widest - (widest - requested) = requested
    BY <1>1
  <2> HIDE DEF Ends
  <2>5. QED
    BY <2>3, <2>4
<1>7. EffectiveStride(profile, maxPoints, requested) = (CHOOSE f : f = Body(f))[requested]
  BY DEF EffectiveStride, Wider
<1>8. Ends(requested, EffectiveStride(profile, maxPoints, requested))
  <2> HIDE DEF Body, Ends
  <2>1. (CHOOSE f : f = Body(f)) = Body(CHOOSE f : f = Body(f))
    BY <1>5
  <2>2. Ends(requested, (CHOOSE f : f = Body(f))[requested])
    BY <1>6, <2>1
  <2>3. QED
    BY <1>7, <2>2
<1>9. CountSampleSlots(profile, widest) = 1
  <2>1. /\ widest \in Nat \ {0} /\ profile.width <= widest /\ profile.height <= widest
    OBVIOUS
  <2>2. /\ (profile.width + widest - 1) \div widest = 1
        /\ (profile.height + widest - 1) \div widest = 1
    <3> HIDE DEF widest
    <3>1. QED
      BY <2>1, OneSlot
  <2>3. QED
    BY <2>2 DEF CountSampleSlots
<1>10. QED
  <2> DEFINE last == EffectiveStride(profile, maxPoints, requested)
  <2>1. /\ last \in requested .. widest /\ ~Wider(last)
        /\ \A t \in requested .. last - 1 : Wider(t)
    BY <1>8
  <2> HIDE DEF last
  <2>2. last \in Nat \ {0} /\ last >= requested /\ last <= widest
    BY <1>1, <2>1
  <2>3. CountSampleSlots(profile, last) <= maxPoints
    <3>1. CASE last = widest
      BY <1>9, <3>1
    <3>2. CASE last # widest
      <4>1. last < widest
        BY <1>1, <2>1, <3>2
      <4>2. ~(CountSampleSlots(profile, last) > maxPoints)
        BY <2>1, <4>1 DEF Wider
      <4>3. CountSampleSlots(profile, last) \in Int
        BY <2>2 DEF CountSampleSlots
      <4>4. QED
        BY <4>2, <4>3
    <3>3. QED
      BY <3>1, <3>2
  <2>4. \A finer \in requested .. last - 1 : CountSampleSlots(profile, finer) > maxPoints
    BY <2>1 DEF Wider
  <2>5. QED
    BY <2>2, <2>3, <2>4 DEF last

\* What a pixel of the fake camera is in a point cloud.
PointAt(number, seed, p) ==
  [point |-> Deproject(p[1], p[2], PixelDepth(p)), color |-> FakeColor(number, seed, p[1], p[2])]

\* A point cloud of a frame, field by field.
CloudIsFrom(f, profile, seed, number, maxPoints, requested, cloud) ==
  LET n == Len(cloud.points)
      stride == EffectiveStride(profile, maxPoints, requested)
  IN /\ CloudMatches(profile, number, seed, maxPoints, cloud)
     /\ cloud = [identity |-> f.identity, profile |-> profile,
                 intrinsics |-> <<FocalLength, FocalLength, 0, 0>>,
                 requestedStride |-> requested, stride |-> stride, points |-> cloud.points]
     /\ stride \in Nat \ {0} /\ stride <= requested + profile.width + profile.height
     /\ n \in Nat /\ n <= maxPoints
     /\ cloud.points \in [1 .. n -> {PointAt(number, seed, p) : p \in Pixels(profile)}]

\* What buildPointCloudSnapshot returns: the points are those of the finest grid that fits.
LEMMA FakeCloud ==
  ASSUME NEW profile, profile.width \in Nat \ {0}, profile.height \in Nat \ {0},
         NEW seed, NEW generation, NEW number,
         NEW maxPoints \in Nat \ {0}, NEW requested \in Nat \ {0}
  PROVE  LET f == FakeFrame(profile, seed, generation, number)
         IN CloudIsFrom(f, profile, seed, number, maxPoints, requested,
                        BuildPointCloudSnapshot(f, maxPoints, requested))
<1> DEFINE f == FakeFrame(profile, seed, generation, number)
           cloud == BuildPointCloudSnapshot(f, maxPoints, requested)
           stride == EffectiveStride(profile, maxPoints, requested)
           kept == WithDepth(f, Sampled(profile, stride))
           grid == GridOf(profile, stride)
           valid == {p \in grid : PixelDepth(p) > 0}
           point(p) == PointAt(number, seed, p)
           points == [i \in DOMAIN kept |->
                        [point |-> Deproject(kept[i][1], kept[i][2], DepthAt(f, kept[i])),
                         color |-> f.color[Index(profile, kept[i][1], kept[i][2])]]]
<1>1. f.profile = profile /\ f.adapter = "fake"
  BY DEF FakeFrame
<1>2. /\ cloud.requestedStride = requested /\ cloud.stride = stride /\ cloud.points = points
      /\ cloud = [identity |-> f.identity, profile |-> profile,
                  intrinsics |-> <<FocalLength, FocalLength, 0, 0>>,
                  requestedStride |-> requested, stride |-> stride, points |-> points]
  <2>1. ~(maxPoints = 0 \/ requested <= 0) /\ f.adapter # "intel_d435"
    BY <1>1
  <2>2. cloud = [identity |-> f.identity, profile |-> f.profile,
                 intrinsics |-> <<FocalLength, FocalLength, 0, 0>>,
                 requestedStride |-> requested, stride |-> stride, points |-> points]
    <3> HIDE DEF f
    <3>1. QED
      BY <1>1, <2>1 DEF BuildPointCloudSnapshot
  <2> HIDE DEF points, stride, cloud, f
  <2>3. QED
    BY <1>1, <2>2
<1>3. /\ stride \in Nat \ {0} /\ stride >= requested
      /\ stride <= requested + profile.width + profile.height
      /\ CountSampleSlots(profile, stride) <= maxPoints
      /\ \A finer \in requested .. stride - 1 : CountSampleSlots(profile, finer) > maxPoints
  BY StrideIsFinest
<1> HIDE DEF stride, f, cloud
<1>4. ASSUME NEW s \in Nat \ {0}
      PROVE  Cardinality(GridOf(profile, s)) = CountSampleSlots(profile, s)
  BY <1>4, SampledIs, DistinctCount
<1>5. /\ kept \in Seq(Int \X Int) /\ Distinct(kept) /\ Len(kept) \in Nat
      /\ Members(kept) = valid /\ Cardinality(valid) = Len(kept)
      /\ \A p \in valid : DepthAt(f, p) = PixelDepth(p)
  <2> DEFINE pixels == Sampled(profile, stride)
  <2>1. /\ pixels \in Seq(Int \X Int) /\ Distinct(pixels) /\ Members(pixels) = grid
    BY <1>3, SampledIs
  <2>2. grid \subseteq Pixels(profile)
    BY DEF GridOf
  <2> HIDE DEF pixels
  <2>3. /\ WithDepth(f, pixels) \in Seq(Int \X Int) /\ Distinct(WithDepth(f, pixels))
        /\ Len(WithDepth(f, pixels)) \in Nat
        /\ Members(WithDepth(f, pixels)) = {p \in Members(pixels) : PixelDepth(p) > 0}
        /\ Cardinality(Members(WithDepth(f, pixels))) = Len(WithDepth(f, pixels))
        /\ \A p \in Members(WithDepth(f, pixels)) : DepthAt(f, p) = PixelDepth(p)
    BY <2>1, <2>2, KeptOfFrame DEF f
  <2>4. Members(WithDepth(f, pixels)) = valid
    BY <2>1, <2>3
  <2> HIDE DEF valid
  <2>5. QED
    BY <2>3, <2>4 DEF pixels
<1>6. DOMAIN kept = 1 .. Len(kept)
  BY <1>5, LenProperties
<1> HIDE DEF kept
<1>7. ASSUME NEW i \in 1 .. Len(kept)
      PROVE  kept[i] \in valid /\ points[i] = point(kept[i])
  <2> DEFINE p == kept[i]
  <2>1. p \in valid
    BY <1>5 DEF Members
  <2>2. p[1] \in 0 .. profile.width - 1 /\ p[2] \in 0 .. profile.height - 1
    BY <2>1 DEF GridOf, Pixels
  <2>3. f.color[Index(profile, p[1], p[2])] = FakeColor(number, seed, p[1], p[2])
    <3>1. Shows(f, profile, number, seed, p[1], p[2])
      BY <2>2, BufferOfPixel DEF f
    <3>2. QED
      BY <3>1 DEF Shows
  <2>4. DepthAt(f, p) = PixelDepth(p)
    BY <1>5, <2>1
  <2> HIDE DEF valid
  <2>5. QED
    BY <1>6, <2>1, <2>3, <2>4 DEF PointAt
<1>8. Len(points) = Cardinality(valid) /\ DOMAIN points = 1 .. Len(kept)
  <2>1. points \in [1 .. Len(kept) -> {points[i] : i \in 1 .. Len(kept)}]
    BY <1>6
  <2> DEFINE range == {points[i] : i \in 1 .. Len(kept)}
  <2> HIDE DEF points, range
  <2>2. Len(points) = Len(kept)
    BY <1>5, <2>1, SequenceOf, Zenon
  <2>3. QED
    BY <1>5, <2>1, <2>2
<1>9. ToSet(points) = {point(p) : p \in valid}
  <2>1. \A p \in valid : \E i \in 1 .. Len(kept) : p = kept[i]
    BY <1>5 DEF Members
  <2> HIDE DEF points, point, valid
  <2>2. QED
    BY <1>7, <1>8, <2>1 DEF ToSet
<1>10. requested \in Nat \ {0} /\ \A s \in requested .. stride - 1 : s \in Nat \ {0}
  BY <1>3
<1>11. CloudMatches(profile, number, seed, maxPoints, cloud)
  <2>1. Cardinality(GridOf(profile, cloud.stride)) <= maxPoints
    BY <1>2, <1>3, <1>4
  <2>2. \A s \in cloud.requestedStride .. cloud.stride - 1 : Cardinality(GridOf(profile, s)) > maxPoints
    BY <1>2, <1>3, <1>4, <1>10
  <2>3. Len(cloud.points) = Cardinality({p \in GridOf(profile, cloud.stride) : PixelDepth(p) > 0})
    BY <1>2, <1>8
  <2>4. ToSet(cloud.points) = {point(p) : p \in {q \in GridOf(profile, cloud.stride) : PixelDepth(q) > 0}}
    BY <1>2, <1>9
  <2> HIDE DEF points
  <2>5. QED
    BY <2>1, <2>2, <2>3, <2>4 DEF CloudMatches, GridOf, PointAt
<1>12. Len(points) \in Nat /\ Len(points) <= maxPoints
  <2>1. Cardinality(grid) \in Nat /\ Cardinality(grid) <= maxPoints /\ IsFiniteSet(grid)
    <3>1. Cardinality(grid) <= maxPoints
      BY <1>3, <1>4
    <3>2. Sampled(profile, stride) \in Seq(Int \X Int) /\ Distinct(Sampled(profile, stride))
          /\ Members(Sampled(profile, stride)) = grid
      BY <1>3, SampledIs
    <3>3. IsFiniteSet(grid)
      BY <3>2, DistinctCount
    <3>4. QED
      BY <3>1, <3>3, FS_CardinalityType
  <2>2. valid \subseteq grid
    OBVIOUS
  <2> HIDE DEF valid, grid, points
  <2>3. Cardinality(valid) <= Cardinality(grid)
    BY <2>1, <2>2, FS_Subset
  <2>4. QED
    BY <1>5, <1>8, <2>1, <2>3
<1>13. points \in [1 .. Len(points) -> {point(p) : p \in Pixels(profile)}]
  <2>1. valid \subseteq Pixels(profile)
    BY DEF GridOf
  <2>2. DOMAIN points = 1 .. Len(points) /\ points = [i \in DOMAIN points |-> points[i]]
    BY <1>5, <1>8
  <2> HIDE DEF points, point, valid
  <2>3. \A i \in DOMAIN points : points[i] \in {point(p) : p \in Pixels(profile)}
    BY <1>7, <1>8, <2>1
  <2>4. QED
    BY <2>2, <2>3
<1>14. cloud.points = points /\ points = cloud.points
  BY <1>2
<1> HIDE DEF points
<1>15. CloudIsFrom(f, profile, seed, number, maxPoints, requested, cloud)
  BY <1>2, <1>3, <1>11, <1>12, <1>13, <1>14, Zenon DEF CloudIsFrom, stride
<1>16. QED
  BY <1>15 DEF cloud, f

\* buildPointCloudSnapshot gives the points of the finest grid that fits, each with the
\* color of its pixel.
THEOREM CloudAnswerMatches ==
  ASSUME NEW profile, profile.width \in Nat \ {0}, profile.height \in Nat \ {0},
         NEW seed, NEW generation, NEW number,
         NEW maxPoints \in Nat \ {0}, NEW requested \in Nat \ {0}
  PROVE  CloudMatches(profile, number, seed, maxPoints,
                      BuildPointCloudSnapshot(FakeFrame(profile, seed, generation, number),
                                              maxPoints, requested))
BY FakeCloud, Zenon DEF CloudIsFrom

-----------------------------------------------------------------------------
(***************************************************************************)
(* The binary point cloud: the matrix of the mount.                        *)
(***************************************************************************)
\* Four integers are a sequence.
LEMMA RowIsSequence ==
  ASSUME NEW v \in [1..4 -> Int]
  PROVE  v \in Seq(Int) /\ Len(v) = 4
<1>1. v = <<v[1], v[2], v[3], v[4]>>
  OBVIOUS
<1>2. <<v[1], v[2], v[3], v[4]>> \in Seq(Int) /\ Len(<<v[1], v[2], v[3], v[4]>>) = 4
  OBVIOUS
<1>3. QED
  BY <1>1, <1>2

\* Two sequences one after the other.
LEMMA ConcatParts ==
  ASSUME NEW a \in Seq(Int), NEW b \in Seq(Int)
  PROVE  /\ a \o b \in Seq(Int) /\ Len(a \o b) = Len(a) + Len(b)
         /\ \A j \in 1..Len(a) : (a \o b)[j] = a[j]
         /\ \A j \in 1..Len(b) : (a \o b)[Len(a) + j] = b[j]
<1>1. Len(a) \in Nat /\ Len(b) \in Nat
  BY LenProperties
<1>2. QED
  BY <1>1, ConcatProperties

\* s is three rows.
AreRows(s, a, b, c) ==
  /\ s \in Seq(Int) /\ Len(s) = 12
  /\ \A j \in 1..4 : s[j] = a[j] /\ s[4 + j] = b[j] /\ s[8 + j] = c[j]

\* Three rows one after another.
LEMMA RowsOfRows ==
  ASSUME NEW a \in Seq(Int), Len(a) = 4, NEW b \in Seq(Int), Len(b) = 4,
         NEW c \in Seq(Int), Len(c) = 4
  PROVE  AreRows(a \o b \o c, a, b, c)
<1> DEFINE two == a \o b
<1>1. /\ two \in Seq(Int) /\ Len(two) = 8
      /\ \A j \in 1..4 : two[j] = a[j] /\ two[4 + j] = b[j]
  <2>1. /\ two \in Seq(Int) /\ Len(two) = Len(a) + Len(b)
        /\ \A j \in 1..Len(a) : two[j] = a[j]
        /\ \A j \in 1..Len(b) : two[Len(a) + j] = b[j]
    BY ConcatParts, Zenon
  <2> HIDE DEF two
  <2>2. QED
    BY <2>1
<1> HIDE DEF two
<1> DEFINE three == two \o c
<1>2. /\ three \in Seq(Int) /\ Len(three) = 12
      /\ \A j \in 1..8 : three[j] = two[j]
      /\ \A j \in 1..4 : three[8 + j] = c[j]
  <2>1. /\ three \in Seq(Int) /\ Len(three) = Len(two) + Len(c)
        /\ \A j \in 1..Len(two) : three[j] = two[j]
        /\ \A j \in 1..Len(c) : three[Len(two) + j] = c[j]
    BY <1>1, ConcatParts, Zenon
  <2> HIDE DEF three
  <2>2. QED
    BY <1>1, <2>1
<1> HIDE DEF three
<1>3. \A j \in 1..4 : j \in 1..8 /\ 4 + j \in 1..8
  OBVIOUS
<1>4. \A j \in 1..4 : three[j] = a[j] /\ three[4 + j] = b[j] /\ three[8 + j] = c[j]
  BY <1>1, <1>2, <1>3
<1>5. QED
  BY <1>2, <1>4 DEF AreRows, two, three

\* The matrix of a point cloud is the rows of the mount, one after another.
LEMMA MatrixEntries ==
  ASSUME NEW m \in Matrices
  PROVE  /\ Matrix3x4(m) \in Seq(Int) /\ Len(Matrix3x4(m)) = 12
         /\ \A j \in 1..4 : /\ Matrix3x4(m)[j] = m[1][j] /\ Matrix3x4(m)[4 + j] = m[2][j]
                            /\ Matrix3x4(m)[8 + j] = m[3][j]
<1> DEFINE s == Matrix3x4(m)
<1>1. \A i \in 1..3 : m[i] \in Seq(Int) /\ Len(m[i]) = 4
  <2>1. \A i \in 1..3 : m[i] \in [1..4 -> Int]
    BY DEF Matrices
  <2>2. QED
    BY <2>1, RowIsSequence
<1>2. /\ s \in Seq(Int) /\ Len(s) = 12
      /\ \A j \in 1..4 : s[j] = m[1][j] /\ s[4 + j] = m[2][j] /\ s[8 + j] = m[3][j]
  <2>1. s = m[1] \o m[2] \o m[3]
    BY DEF Matrix3x4
  <2>2. /\ m[1] \in Seq(Int) /\ Len(m[1]) = 4 /\ m[2] \in Seq(Int) /\ Len(m[2]) = 4
        /\ m[3] \in Seq(Int) /\ Len(m[3]) = 4
    BY <1>1
  <2>3. AreRows(s, m[1], m[2], m[3])
    BY <2>1, <2>2, RowsOfRows
  <2> HIDE DEF s
  <2>4. QED
    BY <2>3 DEF AreRows
<1>3. QED
  BY <1>2

\* The matrix of a point cloud, cut into rows again.
LEMMA MatrixRows ==
  ASSUME NEW m \in Matrices, IsRotation(m)
  PROVE  IsRotation(Rows(Matrix3x4(m)))
<1> DEFINE s == Matrix3x4(m)
<1>1. /\ s \in Seq(Int) /\ Len(s) = 12
      /\ \A j \in 1..4 : s[j] = m[1][j] /\ s[4 + j] = m[2][j] /\ s[8 + j] = m[3][j]
  BY MatrixEntries
<1> HIDE DEF s
<1>2. ASSUME NEW row \in 1..3, NEW j \in 1..4
      PROVE  Rows(s)[row][j] = m[row][j]
  <2>1. Rows(s)[row] = SubSeq(s, 4 * row - 3, 4 * row)
    BY DEF Rows
  <2>2. SubSeq(s, 4 * row - 3, 4 * row)[j] = s[4 * row - 3 + j - 1]
    BY <1>1, SubSeqProperties
  <2>3. s[4 * row - 3 + j - 1] = m[row][j]
    <3>1. CASE row = 1
      BY <1>1, <3>1
    <3>2. CASE row = 2
      BY <1>1, <3>2
    <3>3. CASE row = 3
      BY <1>1, <3>3
    <3>4. QED
      BY <3>1, <3>2, <3>3
  <2>4. QED
    BY <2>1, <2>2, <2>3
<1>3. QED
  <2> DEFINE r == Rows(s)
  <2>1. \A row \in 1..3, j \in 1..3 : r[row][j] = m[row][j]
    BY <1>2
  <2> HIDE DEF r
  <2>2. IsRotation(r)
    BY <2>1 DEF IsRotation, Determinant, Dot, Cross
  <2>3. QED
    BY <2>2 DEF r, s


-----------------------------------------------------------------------------
(***************************************************************************)
(* The binary point cloud: words.                                          *)
(***************************************************************************)
\* A value divided by 256 again and again.
LEMMA ShiftedIs ==
  ASSUME NEW v \in Int
  PROVE  /\ Shifted(v) \in [0 .. 8 -> Int] /\ Shifted(v)[0] = v
         /\ \A i \in 1 .. 8 : Shifted(v)[i] = Shifted(v)[i - 1] \div 256
<1> DEFINE Body(f) == [i \in 0 .. 8 |-> IF i = 0 THEN v ELSE f[i - 1] \div 256]
           shifted == CHOOSE f : f = Body(f)
           G == [x \in (1 .. 8) \X Int |-> x[2] \div 256]
<1>1. PICK f : IsRecursive(8, Int, v, G, f)
  <2>1. G \in [(1 .. 8) \X Int -> Int] /\ 8 \in Nat
    OBVIOUS
  <2> HIDE DEF G
  <2>2. QED
    BY <2>1, RecursiveFunction, Zenon
<1>2. f \in [0 .. 8 -> Int] /\ f[0] = v /\ \A i \in 1 .. 8 : f[i] = f[i - 1] \div 256
  <2>1. ASSUME NEW i \in 1 .. 8
        PROVE  f[i] = f[i - 1] \div 256
    <3>1. i - 1 \in 0 .. 8
      OBVIOUS
    <3>2. <<i, f[i - 1]>> \in (1 .. 8) \X Int
      BY <1>1, <3>1 DEF IsRecursive
    <3>3. QED
      BY <1>1, <3>2 DEF IsRecursive
  <2>2. QED
    BY <1>1, <2>1 DEF IsRecursive
<1> HIDE DEF G
<1>3. shifted = Body(shifted)
  <2>1. f = Body(f)
    <3>1. \A i \in 0 .. 8 : i # 0 => i \in 1 .. 8
      OBVIOUS
    <3>2. f = [i \in 0 .. 8 |-> f[i]]
      BY <1>2
    <3>3. QED
      BY <1>2, <3>1, <3>2
  <2> HIDE DEF Body
  <2>2. QED
    BY <2>1
<1>4. Shifted(v) = shifted
  BY Zenon DEF Shifted
<1> HIDE DEF shifted
<1>5. ASSUME NEW i \in 0 .. 8
      PROVE  shifted[i] = IF i = 0 THEN v ELSE shifted[i - 1] \div 256
  <2>1. Body(shifted)[i] = IF i = 0 THEN v ELSE shifted[i - 1] \div 256
    OBVIOUS
  <2> HIDE DEF Body
  <2>2. QED
    BY <1>3, <2>1
<1>6. shifted[0] = v /\ \A i \in 1 .. 8 : shifted[i] = shifted[i - 1] \div 256
  BY <1>5
<1> DEFINE Good == {i \in 0 .. 8 : shifted[i] \in Int}
<1>7. \A i \in 0 .. 8 : i \in Good
  <2>1. 0 \in Good
    BY <1>6
  <2>2. \A i \in 1 .. 8 : i - 1 \in Good => i \in Good
    BY <1>6
  <2> HIDE DEF Good
  <2>3. QED
    BY <2>1, <2>2, UpTo
<1>8. shifted \in [0 .. 8 -> Int]
  <2>1. shifted = [i \in 0 .. 8 |-> IF i = 0 THEN v ELSE shifted[i - 1] \div 256]
    BY <1>3
  <2>2. \A i \in 0 .. 8 : shifted[i] \in Int
    BY <1>7
  <2>3. DOMAIN shifted = 0 .. 8 /\ shifted = [i \in 0 .. 8 |-> shifted[i]]
    BY <1>5, <2>1
  <2>4. QED
    BY <2>2, <2>3
<1>9. QED
  BY <1>4, <1>6, <1>8

\* word is the sequence of the low bytes of v.
IsWord(word, v, bytes) ==
  /\ word \in Seq(Int) /\ Len(word) = bytes
  /\ \A i \in 1 .. bytes : word[i] = Shifted(v)[i - 1] % 256 /\ word[i] \in 0 .. 255

\* A word is a sequence of bytes.
LEMMA WordType ==
  ASSUME NEW v \in Int, NEW bytes \in 1 .. 8
  PROVE  IsWord(Word(v, bytes), v, bytes)
<1> DEFINE word == Word(v, bytes)
           shifted == Shifted(v)
<1>1. bytes \in Nat /\ \A i \in 1 .. bytes : i - 1 \in 0 .. 8
  OBVIOUS
<1>2. shifted \in [0 .. 8 -> Int]
  BY ShiftedIs
<1>3. word = [i \in 1 .. bytes |-> shifted[i - 1] % 256]
  BY DEF Word
<1> HIDE DEF word, shifted
<1>4. ASSUME NEW i \in 1 .. bytes
      PROVE  word[i] = shifted[i - 1] % 256 /\ word[i] \in 0 .. 255
  <2> DEFINE x == shifted[i - 1]
  <2>1. x \in Int
    BY <1>1, <1>2
  <2>2. word[i] = x % 256
    BY <1>3
  <2> HIDE DEF x
  <2>3. x % 256 \in 0 .. 255
    BY <2>1
  <2>4. QED
    BY <2>2, <2>3 DEF x
<1>5. word \in [1 .. bytes -> Int]
  <2>1. \A i \in 1 .. bytes : word[i] \in Int
    BY <1>4
  <2>2. word = [i \in 1 .. bytes |-> word[i]]
    BY <1>3
  <2>3. QED
    BY <2>1, <2>2
<1>6. word \in Seq(Int) /\ Len(word) = bytes
  BY <1>1, <1>5, SequenceOf
<1>7. QED
  BY <1>4, <1>6 DEF IsWord, word, shifted

\* The bytes of v are in input from an offset on.
BytesAt(input, offset, v, bytes) == \A j \in 1 .. bytes : input[offset + j] = Word(v, bytes)[j]

\* The bytes of a word, from the last one down, give its value back.
LEMMA AssembledWord ==
  ASSUME NEW v \in Int, NEW bytes \in 1 .. 8, NEW offset \in Nat, NEW input,
         BytesAt(input, offset, v, bytes)
  PROVE  Assembled(input, offset, bytes, Shifted(v)[bytes]) = v
<1> DEFINE shifted == Shifted(v)
           extension == shifted[bytes]
           byte(i) == input[offset + bytes + 1 - i]
           Body(f) == [i \in 0 .. bytes |->
                         IF i = 0 THEN extension
                         ELSE f[i - 1] * 256 + input[offset + bytes + 1 - i]]
           value == CHOOSE f : f = Body(f)
<1>1. /\ bytes \in Nat /\ bytes \in 0 .. 8 /\ shifted \in [0 .. 8 -> Int] /\ shifted[0] = v
      /\ \A i \in 1 .. 8 : shifted[i] = shifted[i - 1] \div 256
  BY ShiftedIs
<1> HIDE DEF shifted
<1>2. ASSUME NEW i \in 1 .. bytes
      PROVE  /\ byte(i) = shifted[bytes - i] % 256 /\ byte(i) \in Int
             /\ shifted[bytes - i] \in Int
             /\ shifted[bytes - i] = shifted[bytes - (i - 1)] * 256 + byte(i)
  <2> DEFINE j == bytes + 1 - i
             x == shifted[bytes - i]
  <2>1. /\ j \in 1 .. bytes /\ j \in 1 .. 8 /\ offset + j = offset + bytes + 1 - i
        /\ j - 1 = bytes - i /\ bytes - i \in 0 .. 8 /\ bytes - (i - 1) = j
    BY <1>1
  <2>2. x \in Int
    BY <1>1, <2>1
  <2>3. byte(i) = x % 256
    <3>1. byte(i) = Word(v, bytes)[j]
      BY <2>1 DEF BytesAt
    <3>2. Word(v, bytes)[j] = Shifted(v)[j - 1] % 256
      <4>1. IsWord(Word(v, bytes), v, bytes)
        BY WordType
      <4>2. QED
        BY <2>1, <4>1 DEF IsWord
    <3>3. QED
      BY <2>1, <3>1, <3>2 DEF shifted
  <2>4. shifted[j] = x \div 256
    BY <1>1, <2>1
  <2> DEFINE b == byte(i)
             y == shifted[j]
  <2> HIDE DEF x, byte, b, y
  <2>5. b = x % 256 /\ y = x \div 256
    BY <2>3, <2>4 DEF b, y
  <2>6. b \in Int /\ x = y * 256 + b
    BY <2>2, <2>5
  <2>7. QED
    BY <2>1, <2>2, <2>3, <2>6 DEF x, b, y
<1>3. extension \in Int
  BY <1>1
<1> HIDE DEF extension
<1>4. value = Body(value)
  <2> DEFINE G == [x \in (1 .. bytes) \X Int |-> x[2] * 256 + byte(x[1])]
  <2>1. G \in [(1 .. bytes) \X Int -> Int]
    <3>1. \A x \in (1 .. bytes) \X Int : x[2] * 256 + byte(x[1]) \in Int
      <4> HIDE DEF byte
      <4>1. QED
        BY <1>2
    <3>2. QED
      BY <3>1
  <2>2. PICK f : IsRecursive(bytes, Int, extension, G, f)
    <3> HIDE DEF G
    <3>1. QED
      BY <1>1, <1>3, <2>1, RecursiveFunction, Zenon
  <2>3. ASSUME NEW i \in 1 .. bytes
        PROVE  f[i] = f[i - 1] * 256 + byte(i)
    <3>1. i - 1 \in 0 .. bytes
      BY <1>1
    <3>2. <<i, f[i - 1]>> \in (1 .. bytes) \X Int
      BY <2>2, <3>1 DEF IsRecursive
    <3>3. QED
      BY <2>2, <3>2 DEF IsRecursive
  <2>4. f = Body(f)
    <3>1. \A i \in 0 .. bytes : i # 0 => i \in 1 .. bytes
      BY <1>1
    <3>2. f[0] = extension /\ f = [i \in 0 .. bytes |-> f[i]]
      BY <2>2 DEF IsRecursive
    <3>3. QED
      BY <2>3, <3>1, <3>2
  <2> HIDE DEF Body
  <2>5. QED
    BY <2>4
<1>5. Assembled(input, offset, bytes, extension) = value[bytes]
  BY Zenon DEF Assembled
<1> HIDE DEF value
<1>6. value[0] = extension /\ \A i \in 1 .. bytes : value[i] = value[i - 1] * 256 + byte(i)
  <2>1. \A i \in 0 .. bytes : Body(value)[i] = IF i = 0 THEN extension ELSE value[i - 1] * 256 + byte(i)
    OBVIOUS
  <2>2. 0 \in 0 .. bytes /\ \A i \in 1 .. bytes : i \in 0 .. bytes /\ i # 0
    BY <1>1
  <2> HIDE DEF Body
  <2>3. QED
    BY <1>4, <2>1, <2>2
<1> DEFINE Good == {i \in 0 .. bytes : value[i] = shifted[bytes - i]}
<1>7. 0 \in Good
  BY <1>1, <1>6 DEF extension
<1>8. ASSUME NEW i \in 1 .. bytes, i - 1 \in Good
      PROVE  i \in Good
  <2>1. value[i - 1] = shifted[bytes - (i - 1)] /\ i \in 0 .. bytes
    BY <1>1, <1>8
  <2>2. value[i] = shifted[bytes - (i - 1)] * 256 + byte(i)
    BY <1>6, <2>1
  <2> HIDE DEF byte
  <2>3. value[i] = shifted[bytes - i]
    BY <1>2, <2>2
  <2>4. QED
    BY <2>1, <2>3
<1>9. bytes \in Good
  <2> HIDE DEF Good
  <2>1. \A i \in 0 .. bytes : i \in Good
    BY <1>1, <1>7, <1>8, UpTo
  <2>2. bytes \in 0 .. bytes
    BY <1>1
  <2>3. QED
    BY <2>1, <2>2
<1>10. value[bytes] = v
  BY <1>1, <1>9
<1>11. QED
  BY <1>5, <1>10 DEF extension, shifted

\* A value that is not negative, and the two's complement of a value, in so many bytes.
FitsUnsigned(v, bytes) == v \in Nat /\ Shifted(v)[bytes] = 0
FitsSigned(v, bytes) == v \in Int /\ Shifted(v)[bytes - 1] \in -128 .. 127

\* What fits a word is a number.
LEMMA FitsIsNumber ==
  ASSUME NEW v, NEW bytes
  PROVE  (FitsUnsigned(v, bytes) => v \in Nat /\ v \in Int) /\ (FitsSigned(v, bytes) => v \in Int)
BY DEF FitsUnsigned, FitsSigned

\* part is in input from an offset on.
At(input, offset, part) == \A j \in 1 .. Len(part) : input[offset + j] = part[j]

\* appendUint and readUint undo each other.
LEMMA UnsignedWord ==
  ASSUME NEW bytes \in 1 .. 8, NEW v, FitsUnsigned(v, bytes), NEW offset \in Nat, NEW input,
         At(input, offset, Word(v, bytes))
  PROVE  Unsigned(input, offset, bytes) = v
<1>1. v \in Int /\ Shifted(v)[bytes] = 0
  BY DEF FitsUnsigned
<1>2. BytesAt(input, offset, v, bytes)
  <2>1. IsWord(Word(v, bytes), v, bytes)
    BY <1>1, WordType
  <2>2. QED
    BY <2>1 DEF IsWord, At, BytesAt
<1>3. Assembled(input, offset, bytes, Shifted(v)[bytes]) = v
  BY <1>1, <1>2, AssembledWord
<1>4. QED
  BY <1>1, <1>3 DEF Unsigned

\* appendInt64 and readInt64, and appendFloat32 and readFloat32, undo each other.
LEMMA SignedWord ==
  ASSUME NEW bytes \in 1 .. 8, NEW v, FitsSigned(v, bytes), NEW offset \in Nat, NEW input,
         At(input, offset, Word(v, bytes))
  PROVE  Signed(input, offset, bytes) = v
<1> DEFINE x == Shifted(v)[bytes - 1]
<1>1. v \in Int /\ x \in -128 .. 127
  BY DEF FitsSigned
<1>2. BytesAt(input, offset, v, bytes)
  <2>1. IsWord(Word(v, bytes), v, bytes)
    BY <1>1, WordType
  <2>2. QED
    BY <2>1 DEF IsWord, At, BytesAt
<1>3. Assembled(input, offset, bytes, Shifted(v)[bytes]) = v
  BY <1>1, <1>2, AssembledWord
<1>4. Shifted(v)[bytes] = x \div 256
  <2>1. \A i \in 1 .. 8 : Shifted(v)[i] = Shifted(v)[i - 1] \div 256
    BY <1>1, ShiftedIs
  <2>2. QED
    BY <2>1
<1>5. input[offset + bytes] = x % 256
  <2>1. bytes \in 1 .. bytes
    OBVIOUS
  <2>2. Word(v, bytes)[bytes] = x % 256
    <3>1. IsWord(Word(v, bytes), v, bytes)
      BY <1>1, WordType
    <3>2. QED
      BY <2>1, <3>1 DEF IsWord
  <2>3. QED
    BY <1>2, <2>1, <2>2 DEF BytesAt
<1> HIDE DEF x
<1>6. x \div 256 = IF x % 256 >= 128 THEN -1 ELSE 0
  BY <1>1
<1>7. QED
  BY <1>3, <1>4, <1>5, <1>6 DEF Signed

-----------------------------------------------------------------------------
(***************************************************************************)
(* The binary point cloud: where its parts are.                            *)
(***************************************************************************)
\* A word of four bytes.
LEMMA Word32Is ==
  ASSUME NEW v \in Int
  PROVE  /\ Len(Word32(v)) = 4 /\ Word32(v) \in Seq(Int)
         /\ \A j \in 1 .. 4 : Word32(v)[j] \in Int
<1> DEFINE word == Word(v, 4)
<1>1. word \in Seq(Int) /\ Len(word) = 4
  <2>1. 4 \in 1 .. 8
    OBVIOUS
  <2>2. IsWord(word, v, 4)
    BY <2>1, WordType
  <2>3. QED
    BY <2>2 DEF IsWord
<1>2. word = Word32(v)
  BY DEF Word32
<1> HIDE DEF word
<1>3. \A j \in 1 .. 4 : word[j] \in Int
  BY <1>1, ElementOfSeq
<1>4. QED
  BY <1>1, <1>2, <1>3, Zenon

\* Every value of a sequence has its word.
LEMMA Words32Is ==
  ASSUME NEW n \in Nat, NEW values \in [1 .. n -> Int]
  PROVE  /\ Words32(values) \in Seq(Int) /\ Len(Words32(values)) = 4 * n
         /\ \A i \in 1 .. n : /\ Len(Word32(values[i])) = 4
                              /\ At(Words32(values), 4 * (i - 1), Word32(values[i]))
<1> DEFINE words == Words32(values)
           value(k) == values[((k - 1) \div 4) + 1]
           place(k) == ((k - 1) % 4) + 1
<1>1. values \in Seq(Int) /\ Len(values) = n
  BY SequenceOf
<1>2. words = [k \in 1 .. 4 * n |-> Word32(value(k))[place(k)]]
  BY <1>1 DEF Words32
<1>3. ASSUME NEW k \in 1 .. 4 * n
      PROVE  ((k - 1) \div 4) + 1 \in 1 .. n /\ place(k) \in 1 .. 4
  <2>1. k - 1 \in Nat /\ k - 1 < 4 * n
    OBVIOUS
  <2> DEFINE q == (k - 1) \div 4
             r == (k - 1) % 4
             m == k - 1
  <2>2. q = m \div 4 /\ r = m % 4
    OBVIOUS
  <2> HIDE DEF q, r, m
  <2>3. m \in Nat /\ m < 4 * n
    BY <2>1 DEF m
  <2>4. q \in Nat /\ q < n /\ r \in 0 .. 3
    BY <2>2, <2>3
  <2>5. QED
    BY <2>4 DEF q, r
<1> HIDE DEF words
<1>4. ASSUME NEW v \in Int
      PROVE  /\ Len(Word32(v)) = 4 /\ Word32(v) \in Seq(Int)
             /\ \A j \in 1 .. 4 : Word32(v)[j] \in Int
  BY Word32Is
<1>5. words \in [1 .. 4 * n -> Int]
  <2>1. \A k \in 1 .. 4 * n : Word32(value(k))[place(k)] \in Int
    BY <1>3, <1>4
  <2> HIDE DEF value, place
  <2>2. QED
    BY <1>2, <2>1
<1>6. words \in Seq(Int) /\ Len(words) = 4 * n
  <2>1. 4 * n \in Nat
    OBVIOUS
  <2>2. QED
    BY <1>5, <2>1, SequenceOf, Zenon
<1>7. ASSUME NEW i \in 1 .. n
      PROVE  Len(Word32(values[i])) = 4 /\ At(words, 4 * (i - 1), Word32(values[i]))
  <2>1. Len(Word32(values[i])) = 4
    BY <1>4
  <2>2. ASSUME NEW j \in 1 .. 4
        PROVE  words[4 * (i - 1) + j] = Word32(values[i])[j]
    <3> DEFINE k == 4 * (i - 1) + j
    <3>1. k \in 1 .. 4 * n
      OBVIOUS
    <3>2. k - 1 = (i - 1) * 4 + (j - 1) /\ j - 1 \in 0 .. 4 - 1 /\ i - 1 \in Int
      OBVIOUS
    <3>3. (k - 1) % 4 = j - 1 /\ (k - 1) \div 4 = i - 1
      <4> DEFINE x == j - 1
                 y == i - 1
      <4>1. x \in 0 .. 4 - 1 /\ y \in Int /\ 4 \in Nat \ {0} /\ k - 1 = y * 4 + x
        BY <3>2
      <4> HIDE DEF x, y, k
      <4>2. (y * 4 + x) % 4 = x /\ (y * 4 + x) \div 4 = y
        BY <4>1, Division
      <4>3. QED
        BY <4>1, <4>2 DEF x, y
    <3>4. value(k) = values[i] /\ place(k) = j
      <4> HIDE DEF k
      <4>1. (i - 1) + 1 = i /\ (j - 1) + 1 = j
        OBVIOUS
      <4>2. QED
        BY <3>3, <4>1
    <3> HIDE DEF k, value, place
    <3>5. words[k] = Word32(values[i])[j]
      BY <1>2, <3>1, <3>4
    <3>6. QED
      BY <3>5 DEF k
  <2>3. QED
    BY <2>1, <2>2 DEF At
<1>8. QED
  BY <1>6, <1>7 DEF words

\* Every triple of a sequence has its three places.
LEMMA TriplesIs ==
  ASSUME NEW n \in Nat, NEW triples \in [1 .. n -> [1 .. 3 -> Int]]
  PROVE  /\ Triples(triples) \in [1 .. 3 * n -> Int]
         /\ Triples(triples) \in Seq(Int) /\ Len(Triples(triples)) = 3 * n
         /\ \A i \in 1 .. n, j \in 1 .. 3 :
              3 * (i - 1) + j \in 1 .. 3 * n /\ Triples(triples)[3 * (i - 1) + j] = triples[i][j]
<1> DEFINE all == Triples(triples)
           triple(k) == triples[((k - 1) \div 3) + 1]
           place(k) == ((k - 1) % 3) + 1
<1>1. triples \in Seq([1 .. 3 -> Int]) /\ Len(triples) = n
  BY SequenceOf
<1>2. all = [k \in 1 .. 3 * n |-> triple(k)[place(k)]]
  BY <1>1 DEF Triples
<1>3. ASSUME NEW k \in 1 .. 3 * n
      PROVE  ((k - 1) \div 3) + 1 \in 1 .. n /\ place(k) \in 1 .. 3
  <2> DEFINE q == (k - 1) \div 3
             r == (k - 1) % 3
             m == k - 1
  <2>1. m \in Nat /\ m < 3 * n /\ q = m \div 3 /\ r = m % 3
    OBVIOUS
  <2> HIDE DEF q, r, m
  <2>2. q \in Nat /\ q < n /\ r \in 0 .. 2
    BY <2>1
  <2>3. QED
    BY <2>2 DEF q, r
<1> HIDE DEF all
<1>4. all \in [1 .. 3 * n -> Int]
  <2>1. \A k \in 1 .. 3 * n : triple(k)[place(k)] \in Int
    BY <1>3
  <2> HIDE DEF triple, place
  <2>2. QED
    BY <1>2, <2>1
<1>5. all \in Seq(Int) /\ Len(all) = 3 * n
  <2>1. 3 * n \in Nat
    OBVIOUS
  <2>2. QED
    BY <1>4, <2>1, SequenceOf, Zenon
<1>6. ASSUME NEW i \in 1 .. n, NEW j \in 1 .. 3
      PROVE  3 * (i - 1) + j \in 1 .. 3 * n /\ all[3 * (i - 1) + j] = triples[i][j]
  <2> DEFINE k == 3 * (i - 1) + j
  <2>1. k \in 1 .. 3 * n
    OBVIOUS
  <2>2. (k - 1) % 3 = j - 1 /\ (k - 1) \div 3 = i - 1
    <3> DEFINE x == j - 1
               y == i - 1
    <3>1. x \in 0 .. 3 - 1 /\ y \in Int /\ 3 \in Nat \ {0} /\ k - 1 = y * 3 + x
      OBVIOUS
    <3> HIDE DEF x, y, k
    <3>2. (y * 3 + x) % 3 = x /\ (y * 3 + x) \div 3 = y
      BY <3>1, Division
    <3>3. QED
      BY <3>1, <3>2 DEF x, y
  <2>3. triple(k) = triples[i] /\ place(k) = j
    <3> HIDE DEF k
    <3>1. (i - 1) + 1 = i /\ (j - 1) + 1 = j
      OBVIOUS
    <3>2. QED
      BY <2>2, <3>1
  <2> HIDE DEF k, triple, place
  <2>4. all[k] = triples[i][j]
    BY <1>2, <2>1, <2>3
  <2>5. QED
    BY <2>1, <2>4 DEF k
<1>7. QED
  BY <1>4, <1>5, <1>6 DEF all

\* A part of a part is a part.
LEMMA PartOfPart ==
  ASSUME NEW input, NEW offset \in Nat, NEW whole, NEW inner \in Nat, NEW part,
         Len(whole) \in Nat, Len(part) \in Nat, inner + Len(part) <= Len(whole),
         At(input, offset, whole), At(whole, inner, part)
  PROVE  At(input, offset + inner, part)
<1> SUFFICES ASSUME NEW j \in 1 .. Len(part)
             PROVE  input[offset + inner + j] = part[j]
  BY DEF At
<1>1. inner + j \in 1 .. Len(whole) /\ offset + (inner + j) = offset + inner + j
  OBVIOUS
<1>2. QED
  BY <1>1 DEF At

\* The i-th word from an offset on is read as the i-th value.
ReadsWord(input, offset, values, i) ==
  /\ FitsUnsigned(values[i], 4) => Unsigned(input, offset + 4 * (i - 1), 4) = values[i]
  /\ FitsSigned(values[i], 4) => Signed(input, offset + 4 * (i - 1), 4) = values[i]

\* The words of a sequence are read back one by one.
LEMMA ReadWords32 ==
  ASSUME NEW n \in Nat, NEW values \in [1 .. n -> Int], NEW input, NEW offset \in Nat,
         At(input, offset, Words32(values)), NEW i \in 1 .. n
  PROVE  ReadsWord(input, offset, values, i)
<1> DEFINE words == Words32(values)
           word == Word32(values[i])
           inner == 4 * (i - 1)
<1>1. Len(words) = 4 * n /\ Len(word) = 4 /\ At(words, inner, word)
  BY Words32Is
<1>2. inner \in Nat /\ inner + 4 <= 4 * n /\ 4 * n \in Nat
  OBVIOUS
<1> HIDE DEF words, inner, word
<1>3. At(input, offset + inner, word)
  <2>1. /\ Len(words) \in Nat /\ Len(word) \in Nat /\ inner + Len(word) <= Len(words)
        /\ At(input, offset, words)
    BY <1>1, <1>2 DEF words
  <2>2. QED
    BY <1>1, <1>2, <2>1, PartOfPart, Zenon
<1>4. At(input, offset + inner, Word(values[i], 4))
  BY <1>3 DEF word, Word32
<1>5. 4 \in 1 .. 8 /\ offset + inner \in Nat
  BY <1>2
<1>6. QED
  BY <1>4, <1>5, UnsignedWord, SignedWord, Zenon DEF inner, ReadsWord

\* t begins with the first k members of s.
Begins(t, s, k) == \A j \in 1 .. k : t[j] = s[j]

\* To begin with another sequence is transitive.
LEMMA BeginsOfBegins ==
  ASSUME NEW t, NEW s, NEW r, NEW k \in Nat, NEW m \in Nat, m <= k, Begins(t, s, k), Begins(s, r, m)
  PROVE  Begins(t, r, m)
<1>1. \A j \in 1 .. m : j \in 1 .. k
  OBVIOUS
<1>2. QED
  BY <1>1 DEF Begins

\* What is in the beginning of a sequence is in the sequence.
LEMMA AtBeginning ==
  ASSUME NEW t, NEW s, NEW k \in Nat, NEW offset \in Nat, NEW part, NEW n \in Nat, Len(part) = n,
         offset + n <= k, Begins(t, s, k), At(s, offset, part)
  PROVE  At(t, offset, part)
<1>1. \A j \in 1 .. n : offset + j \in 1 .. k
  OBVIOUS
<1>2. QED
  BY <1>1 DEF Begins, At

\* Two sequences one after the other.
LEMMA ConcatBegins ==
  ASSUME NEW a \in Seq(Int), NEW b \in Seq(Int), NEW m \in Nat, NEW n \in Nat, Len(a) = m, Len(b) = n
  PROVE  /\ a \o b \in Seq(Int) /\ Len(a \o b) = m + n
         /\ Begins(a \o b, a, m) /\ At(a \o b, m, b)
<1> DEFINE s == a \o b
<1>1. /\ s \in Seq(Int) /\ Len(s) = Len(a) + Len(b)
      /\ \A j \in 1 .. Len(a) : s[j] = a[j]
      /\ \A j \in 1 .. Len(b) : s[Len(a) + j] = b[j]
  BY ConcatParts, Zenon
<1> HIDE DEF s
<1>2. QED
  BY <1>1 DEF Begins, At, s

\* The nine parts of a payload of n points, each in its place.
InPlace(s, n, a1, a2, a3, a4, a5, a6, a7, a8, a9) ==
  /\ s \in Seq(Int) /\ Len(s) = 112 + 15 * n
  /\ At(s, 0, a1) /\ At(s, 4, a2) /\ At(s, 8, a3) /\ At(s, 16, a4) /\ At(s, 24, a5)
  /\ At(s, 48, a6) /\ At(s, 64, a7) /\ At(s, 112, a8) /\ At(s, 112 + 12 * n, a9)

\* Where each of nine sequences is when they follow one another.
LEMMA NineParts ==
  ASSUME NEW a1 \in Seq(Int), NEW a2 \in Seq(Int), NEW a3 \in Seq(Int), NEW a4 \in Seq(Int),
         NEW a5 \in Seq(Int), NEW a6 \in Seq(Int), NEW a7 \in Seq(Int), NEW a8 \in Seq(Int),
         NEW a9 \in Seq(Int), NEW n \in Nat,
         Len(a1) = 4, Len(a2) = 4, Len(a3) = 8, Len(a4) = 8, Len(a5) = 24, Len(a6) = 16,
         Len(a7) = 48, Len(a8) = 12 * n, Len(a9) = 3 * n,
         NEW s, s = a1 \o a2 \o a3 \o a4 \o a5 \o a6 \o a7 \o a8 \o a9
  PROVE  InPlace(s, n, a1, a2, a3, a4, a5, a6, a7, a8, a9)
<1> DEFINE s2 == a1 \o a2
           s3 == s2 \o a3
           s4 == s3 \o a4
           s5 == s4 \o a5
           s6 == s5 \o a6
           s7 == s6 \o a7
           s8 == s7 \o a8
           s9 == s8 \o a9
<1>1. /\ {4, 8, 24, 16, 48, 64, 112, 12 * n, 3 * n, 112 + 12 * n} \subseteq Nat
      /\ 4 \in Nat /\ 8 \in Nat /\ 24 \in Nat /\ 16 \in Nat /\ 48 \in Nat /\ 64 \in Nat
      /\ 112 \in Nat /\ 12 * n \in Nat /\ 3 * n \in Nat /\ 112 + 12 * n \in Nat
  OBVIOUS
<1>2. /\ s2 \in Seq(Int) /\ Len(s2) = 8
      /\ Begins(s2, a1, 4) /\ At(s2, 4, a2)
  <2>1. /\ s2 \in Seq(Int) /\ Len(s2) = 4 + 4
        /\ Begins(s2, a1, 4) /\ At(s2, 4, a2)
    BY <1>1, ConcatBegins
  <2> HIDE DEF s2
  <2>2. QED
    BY <2>1
<1> HIDE DEF s2
<1>3. /\ s3 \in Seq(Int) /\ Len(s3) = 16
      /\ Begins(s3, s2, 8) /\ At(s3, 8, a3)
  <2>1. /\ s3 \in Seq(Int) /\ Len(s3) = 8 + 8
        /\ Begins(s3, s2, 8) /\ At(s3, 8, a3)
    BY <1>1, <1>2, ConcatBegins
  <2> HIDE DEF s3
  <2>2. QED
    BY <2>1
<1> HIDE DEF s3
<1>4. /\ s4 \in Seq(Int) /\ Len(s4) = 24
      /\ Begins(s4, s3, 16) /\ At(s4, 16, a4)
  <2>1. /\ s4 \in Seq(Int) /\ Len(s4) = 16 + 8
        /\ Begins(s4, s3, 16) /\ At(s4, 16, a4)
    BY <1>1, <1>3, ConcatBegins
  <2> HIDE DEF s4
  <2>2. QED
    BY <2>1
<1> HIDE DEF s4
<1>5. /\ s5 \in Seq(Int) /\ Len(s5) = 48
      /\ Begins(s5, s4, 24) /\ At(s5, 24, a5)
  <2>1. /\ s5 \in Seq(Int) /\ Len(s5) = 24 + 24
        /\ Begins(s5, s4, 24) /\ At(s5, 24, a5)
    BY <1>1, <1>4, ConcatBegins
  <2> HIDE DEF s5
  <2>2. QED
    BY <2>1
<1> HIDE DEF s5
<1>6. /\ s6 \in Seq(Int) /\ Len(s6) = 64
      /\ Begins(s6, s5, 48) /\ At(s6, 48, a6)
  <2>1. /\ s6 \in Seq(Int) /\ Len(s6) = 48 + 16
        /\ Begins(s6, s5, 48) /\ At(s6, 48, a6)
    BY <1>1, <1>5, ConcatBegins
  <2> HIDE DEF s6
  <2>2. QED
    BY <2>1
<1> HIDE DEF s6
<1>7. /\ s7 \in Seq(Int) /\ Len(s7) = 112
      /\ Begins(s7, s6, 64) /\ At(s7, 64, a7)
  <2>1. /\ s7 \in Seq(Int) /\ Len(s7) = 64 + 48
        /\ Begins(s7, s6, 64) /\ At(s7, 64, a7)
    <3> DEFINE c == 48
               h == 64
    <3>1. c \in Nat /\ h \in Nat /\ s6 \in Seq(Int) /\ Len(s6) = h /\ Len(a7) = c
      BY <1>6
    <3> HIDE DEF c, h
    <3>2. /\ s7 \in Seq(Int) /\ Len(s7) = h + c /\ Begins(s7, s6, h) /\ At(s7, h, a7)
      BY <3>1, ConcatBegins
    <3> HIDE DEF s7
    <3>3. QED
      BY <3>2 DEF c, h
  <2> HIDE DEF s7
  <2>2. QED
    BY <2>1
<1> HIDE DEF s7
<1>8. /\ s8 \in Seq(Int) /\ Len(s8) = 112 + 12 * n
      /\ Begins(s8, s7, 112) /\ At(s8, 112, a8)
  <2>1. /\ s8 \in Seq(Int) /\ Len(s8) = 112 + 12 * n
        /\ Begins(s8, s7, 112) /\ At(s8, 112, a8)
    <3> DEFINE c == 12 * n
               h == 112
    <3>1. c \in Nat /\ h \in Nat /\ s7 \in Seq(Int) /\ Len(s7) = h /\ Len(a8) = c
      BY <1>7
    <3> HIDE DEF c, h
    <3>2. /\ s8 \in Seq(Int) /\ Len(s8) = h + c /\ Begins(s8, s7, h) /\ At(s8, h, a8)
      BY <3>1, ConcatBegins
    <3> HIDE DEF s8
    <3>3. QED
      BY <3>2, Zenon DEF c, h
  <2> HIDE DEF s8
  <2>2. QED
    BY <2>1
<1> HIDE DEF s8
<1>9. /\ s9 \in Seq(Int) /\ Len(s9) = 112 + 15 * n
      /\ Begins(s9, s8, 112 + 12 * n) /\ At(s9, 112 + 12 * n, a9)
  <2>1. /\ s9 \in Seq(Int) /\ Len(s9) = (112 + 12 * n) + 3 * n
        /\ Begins(s9, s8, 112 + 12 * n) /\ At(s9, 112 + 12 * n, a9)
    BY <1>1, <1>8, ConcatBegins
  <2> HIDE DEF s9
  <2>2. QED
    BY <2>1
<1> HIDE DEF s9
<1>10. Begins(s9, s7, 112)
  <2>1. 112 <= 112 + 12 * n
    OBVIOUS
  <2>2. QED
    BY <1>1, <1>8, <1>9, <2>1, BeginsOfBegins
<1>11. Begins(s9, s6, 64)
  <2>1. 64 <= 112
    OBVIOUS
  <2>2. QED
    BY <1>1, <1>7, <1>10, <2>1, BeginsOfBegins
<1>12. Begins(s9, s5, 48)
  <2>1. 48 <= 64
    OBVIOUS
  <2>2. QED
    BY <1>1, <1>6, <1>11, <2>1, BeginsOfBegins
<1>13. Begins(s9, s4, 24)
  <2>1. 24 <= 48
    OBVIOUS
  <2>2. QED
    BY <1>1, <1>5, <1>12, <2>1, BeginsOfBegins
<1>14. Begins(s9, s3, 16)
  <2>1. 16 <= 24
    OBVIOUS
  <2>2. QED
    BY <1>1, <1>4, <1>13, <2>1, BeginsOfBegins
<1>15. Begins(s9, s2, 8)
  <2>1. 8 <= 16
    OBVIOUS
  <2>2. QED
    BY <1>1, <1>3, <1>14, <2>1, BeginsOfBegins
<1>16. Begins(s9, a1, 4)
  <2>1. 4 <= 8
    OBVIOUS
  <2>2. QED
    BY <1>1, <1>2, <1>15, <2>1, BeginsOfBegins
<1>17. At(s9, 0, a1)
  BY <1>16 DEF At, Begins
<1>18. At(s9, 4, a2)
  <2>1. 4 + 4 <= 8
    OBVIOUS
  <2>2. QED
    BY <1>1, <1>2, <1>15, <2>1, AtBeginning
<1>19. At(s9, 8, a3)
  <2>1. 8 + 8 <= 16
    OBVIOUS
  <2>2. QED
    BY <1>1, <1>3, <1>14, <2>1, AtBeginning
<1>20. At(s9, 16, a4)
  <2>1. 16 + 8 <= 24
    OBVIOUS
  <2>2. QED
    BY <1>1, <1>4, <1>13, <2>1, AtBeginning
<1>21. At(s9, 24, a5)
  <2>1. 24 + 24 <= 48
    OBVIOUS
  <2>2. QED
    BY <1>1, <1>5, <1>12, <2>1, AtBeginning
<1>22. At(s9, 48, a6)
  <2> DEFINE h == 64
             o == 48
             m == 16
  <2>1. /\ h \in Nat /\ o \in Nat /\ m \in Nat /\ Len(a6) = m /\ o + m <= h
        /\ Begins(s9, s6, h) /\ At(s6, o, a6)
    BY <1>6, <1>11
  <2> HIDE DEF h, o, m
  <2>2. At(s9, o, a6)
    BY <2>1, AtBeginning
  <2>3. QED
    BY <2>2 DEF o
<1>23. At(s9, 64, a7)
  <2> DEFINE h == 112
             o == 64
             m == 48
  <2>1. /\ h \in Nat /\ o \in Nat /\ m \in Nat /\ Len(a7) = m /\ o + m <= h
        /\ Begins(s9, s7, h) /\ At(s7, o, a7)
    BY <1>7, <1>10
  <2> HIDE DEF h, o, m
  <2>2. At(s9, o, a7)
    BY <2>1, AtBeginning, Zenon
  <2>3. QED
    BY <2>2 DEF o
<1>24. At(s9, 112, a8)
  <2>1. 112 + 12 * n <= 112 + 12 * n
    OBVIOUS
  <2>2. QED
    BY <1>1, <1>8, <1>9, <2>1, AtBeginning
<1>25. s9 = s
  BY DEF s9, s8, s7, s6, s5, s4, s3, s2
<1>26. QED
  BY <1>9, <1>17, <1>18, <1>19, <1>20, <1>21, <1>22, <1>23, <1>24, <1>25 DEF InPlace

-----------------------------------------------------------------------------
(***************************************************************************)
(* The binary point cloud: what is written is read back.                   *)
(***************************************************************************)
\* Three coordinates and three bytes of color.
Points == [point : [1 .. 3 -> Int], color : [1 .. 3 -> Int]]

\* The numbers of a point cloud fit their words.
Writable(cloud) ==
  /\ FitsUnsigned(cloud.identity.number, 8) /\ FitsSigned(cloud.identity.time, 8)
  /\ FitsUnsigned(cloud.profile.width, 4) /\ FitsUnsigned(cloud.profile.height, 4)
  /\ FitsUnsigned(cloud.requestedStride, 4) /\ FitsUnsigned(cloud.stride, 4)
  /\ cloud.points \in Seq(Points) /\ FitsUnsigned(Len(cloud.points), 4)
  /\ \A i \in 1 .. Len(cloud.points), j \in 1 .. 3 : FitsSigned(cloud.points[i].point[j], 4)
  /\ cloud.intrinsics \in [1 .. 4 -> Int] /\ \A i \in 1 .. 4 : FitsSigned(cloud.intrinsics[i], 4)
  /\ cloud.matrix \in [1 .. 12 -> Int] /\ \A i \in 1 .. 12 : FitsSigned(cloud.matrix[i], 4)

\* The parts of the payload that are sequences of words.
Sizes(cloud) == <<cloud.profile.width, cloud.profile.height, cloud.requestedStride,
                  cloud.stride, Len(cloud.points), 0>>
CoordinatesOf(cloud) == Triples([i \in 1 .. Len(cloud.points) |-> cloud.points[i].point])
ColorsOf(cloud) == Triples([i \in 1 .. Len(cloud.points) |-> cloud.points[i].color])

\* input begins with the header of a point cloud.
HeaderIn(input, cloud) ==
  /\ At(input, 0, Magic) /\ At(input, 4, Word32(FORMAT_VERSION))
  /\ At(input, 8, Word64(cloud.identity.number)) /\ At(input, 16, Word64(cloud.identity.time))
  /\ At(input, 24, Words32(Sizes(cloud)))
  /\ At(input, 48, Words32(cloud.intrinsics)) /\ At(input, 64, Words32(cloud.matrix))

\* A byte fits a word.
LEMMA SmallFits ==
  ASSUME NEW v \in 0 .. 255
  PROVE  FitsUnsigned(v, 4)
<1> DEFINE s == Shifted(v)
<1>1. s[0] = v /\ \A i \in 1 .. 8 : s[i] = s[i - 1] \div 256
  BY ShiftedIs
<1> HIDE DEF s
<1>2. s[1] = 0
  BY <1>1
<1>3. s[2] = 0
  BY <1>1, <1>2
<1>4. s[3] = 0
  BY <1>1, <1>3
<1>5. s[4] = 0
  BY <1>1, <1>4
<1>6. QED
  BY <1>5 DEF FitsUnsigned, s

\* The sizes of a writable cloud fit their words.
LEMMA SizesFit ==
  ASSUME NEW cloud, Writable(cloud)
  PROVE  /\ Sizes(cloud) \in [1 .. 6 -> Int]
         /\ \A i \in 1 .. 6 : FitsUnsigned(Sizes(cloud)[i], 4)
<1> DEFINE w == cloud.profile.width
           h == cloud.profile.height
           r == cloud.requestedStride
           t == cloud.stride
           n == Len(cloud.points)
           sizes == <<w, h, r, t, n, 0>>
<1>1. /\ FitsUnsigned(w, 4) /\ FitsUnsigned(h, 4) /\ FitsUnsigned(r, 4) /\ FitsUnsigned(t, 4)
      /\ FitsUnsigned(n, 4)
  BY DEF Writable
<1>2. FitsUnsigned(0, 4)
  BY SmallFits
<1>3. Sizes(cloud) = sizes
  BY DEF Sizes
<1> HIDE DEF w, h, r, t, n
<1>4. w \in Int /\ h \in Int /\ r \in Int /\ t \in Int /\ n \in Int
  BY <1>1, FitsIsNumber, Zenon
<1>5. sizes \in [1 .. 6 -> Int]
  BY <1>4
<1>6. /\ sizes[1] = w /\ sizes[2] = h /\ sizes[3] = r /\ sizes[4] = t /\ sizes[5] = n /\ sizes[6] = 0
  OBVIOUS
<1> HIDE DEF sizes
<1>7. \A i \in 1 .. 6 : i = 1 \/ i = 2 \/ i = 3 \/ i = 4 \/ i = 5 \/ i = 6
  OBVIOUS
<1>8. \A i \in 1 .. 6 : FitsUnsigned(sizes[i], 4)
  BY <1>1, <1>2, <1>6, <1>7, Zenon
<1>9. QED
  BY <1>3, <1>5, <1>8, Zenon

\* The coordinates and the colors of the points of a writable cloud.
LEMMA PointsOf ==
  ASSUME NEW cloud, Writable(cloud)
  PROVE  LET n == Len(cloud.points) IN
         /\ n \in Nat /\ cloud.points \in [1 .. n -> Points]
         /\ CoordinatesOf(cloud) \in [1 .. 3 * n -> Int]
         /\ ColorsOf(cloud) \in Seq(Int) /\ Len(ColorsOf(cloud)) = 3 * n
         /\ \A i \in 1 .. n, j \in 1 .. 3 :
              /\ 3 * (i - 1) + j \in 1 .. 3 * n
              /\ CoordinatesOf(cloud)[3 * (i - 1) + j] = cloud.points[i].point[j]
              /\ ColorsOf(cloud)[3 * (i - 1) + j] = cloud.points[i].color[j]
<1> DEFINE points == cloud.points
           n == Len(points)
           p == [i \in 1 .. n |-> points[i].point]
           c == [i \in 1 .. n |-> points[i].color]
<1>1. points \in Seq(Points)
  BY DEF Writable
<1> HIDE DEF points
<1>2. n \in Nat /\ points \in [1 .. n -> Points]
  BY <1>1, LenProperties
<1> HIDE DEF n
<1>3. \A i \in 1 .. n : points[i].point \in [1 .. 3 -> Int] /\ points[i].color \in [1 .. 3 -> Int]
  BY <1>2 DEF Points
<1>4. p \in [1 .. n -> [1 .. 3 -> Int]] /\ c \in [1 .. n -> [1 .. 3 -> Int]]
  BY <1>3
<1>5. \A i \in 1 .. n : p[i] = points[i].point /\ c[i] = points[i].color
  OBVIOUS
<1>6. CoordinatesOf(cloud) = Triples(p) /\ ColorsOf(cloud) = Triples(c)
  BY DEF CoordinatesOf, ColorsOf, n, points
<1> HIDE DEF p, c
<1>7. /\ Triples(p) \in [1 .. 3 * n -> Int]
      /\ \A i \in 1 .. n, j \in 1 .. 3 :
           3 * (i - 1) + j \in 1 .. 3 * n /\ Triples(p)[3 * (i - 1) + j] = p[i][j]
  BY <1>2, <1>4, TriplesIs, Zenon
<1>8. /\ Triples(c) \in Seq(Int) /\ Len(Triples(c)) = 3 * n
      /\ \A i \in 1 .. n, j \in 1 .. 3 :
           3 * (i - 1) + j \in 1 .. 3 * n /\ Triples(c)[3 * (i - 1) + j] = c[i][j]
  BY <1>2, <1>4, TriplesIs, Zenon
<1>9. ASSUME NEW i \in 1 .. n, NEW j \in 1 .. 3
      PROVE  /\ 3 * (i - 1) + j \in 1 .. 3 * n
             /\ Triples(p)[3 * (i - 1) + j] = points[i].point[j]
             /\ Triples(c)[3 * (i - 1) + j] = points[i].color[j]
  <2>1. /\ 3 * (i - 1) + j \in 1 .. 3 * n /\ Triples(p)[3 * (i - 1) + j] = p[i][j]
        /\ Triples(c)[3 * (i - 1) + j] = c[i][j]
    BY <1>7, <1>8, Zenon
  <2>2. QED
    BY <1>5, <2>1, Zenon
<1> DEFINE P == CoordinatesOf(cloud)
           C == ColorsOf(cloud)
<1> HIDE DEF P, C
<1>10. P = Triples(p) /\ C = Triples(c)
  BY <1>6 DEF P, C
<1>11. /\ P \in [1 .. 3 * n -> Int] /\ C \in Seq(Int) /\ Len(C) = 3 * n
  BY <1>7, <1>8, <1>10
<1>12. \A i \in 1 .. n, j \in 1 .. 3 :
         /\ 3 * (i - 1) + j \in 1 .. 3 * n
         /\ P[3 * (i - 1) + j] = points[i].point[j]
         /\ C[3 * (i - 1) + j] = points[i].color[j]
  BY <1>9, <1>10, Zenon
<1>13. QED
  BY <1>2, <1>11, <1>12, Zenon DEF n, points, P, C

\* There are six of them.
LEMMA SizesLength ==
  ASSUME NEW cloud, Writable(cloud)
  PROVE  Words32(Sizes(cloud)) \in Seq(Int) /\ Len(Words32(Sizes(cloud))) = 24
<1> DEFINE six == 6
           words == Words32(Sizes(cloud))
<1>1. Sizes(cloud) \in [1 .. six -> Int] /\ six \in Nat
  BY SizesFit
<1> HIDE DEF six
<1>2. words \in Seq(Int) /\ Len(words) = 4 * six
  BY <1>1, Words32Is, Zenon
<1> HIDE DEF words
<1>3. QED
  BY <1>2 DEF six, words

\* writePcd1V2 puts every part in its place.
LEMMA PayloadIs ==
  ASSUME NEW cloud, Writable(cloud), ValidPointCloud(cloud)
  PROVE  LET bytes == WritePcd1V2(cloud).bytes
             n == Len(cloud.points)
         IN /\ bytes \in Seq(Int) /\ Len(bytes) = 112 + 15 * n /\ HeaderIn(bytes, cloud)
            /\ At(bytes, 112, Words32(CoordinatesOf(cloud)))
            /\ At(bytes, 112 + 12 * n, ColorsOf(cloud))
<1> DEFINE n == Len(cloud.points)
           a1 == Magic
           a2 == Word32(FORMAT_VERSION)
           a3 == Word64(cloud.identity.number)
           a4 == Word64(cloud.identity.time)
           a5 == Words32(Sizes(cloud))
           a6 == Words32(cloud.intrinsics)
           a7 == Words32(cloud.matrix)
           a8 == Words32(CoordinatesOf(cloud))
           a9 == ColorsOf(cloud)
           bytes == WritePcd1V2(cloud).bytes
<1>1. n \in Nat /\ CoordinatesOf(cloud) \in [1 .. 3 * n -> Int] /\ a9 \in Seq(Int) /\ Len(a9) = 3 * n
  BY PointsOf
<1>2. a1 \in Seq(Int) /\ Len(a1) = 4
  BY DEF Magic
<1>3. a2 \in Seq(Int) /\ Len(a2) = 4
  BY Word32Is DEF FORMAT_VERSION
<1>4. ASSUME NEW v \in Int
      PROVE  Word64(v) \in Seq(Int) /\ Len(Word64(v)) = 8
  <2>1. 8 \in 1 .. 8
    OBVIOUS
  <2>2. IsWord(Word64(v), v, 8)
    BY <1>4, <2>1, WordType DEF Word64
  <2>3. QED
    BY <2>2 DEF IsWord
<1>5. cloud.identity.number \in Int /\ cloud.identity.time \in Int
  BY FitsIsNumber, Zenon DEF Writable
<1>6. a3 \in Seq(Int) /\ Len(a3) = 8 /\ a4 \in Seq(Int) /\ Len(a4) = 8
  BY <1>4, <1>5
<1>7. a5 \in Seq(Int) /\ Len(a5) = 24
  BY SizesLength
<1>8. a6 \in Seq(Int) /\ Len(a6) = 16
  <2> DEFINE four == 4
  <2>1. cloud.intrinsics \in [1 .. four -> Int] /\ four \in Nat
    BY DEF Writable
  <2> HIDE DEF four
  <2>2. a6 \in Seq(Int) /\ Len(a6) = 4 * four
    BY <2>1, Words32Is, Zenon
  <2>3. QED
    BY <2>2 DEF four
<1>9. a7 \in Seq(Int) /\ Len(a7) = 48
  <2> DEFINE twelve == 12
  <2>1. cloud.matrix \in [1 .. twelve -> Int] /\ twelve \in Nat
    BY DEF Writable
  <2> HIDE DEF twelve
  <2>2. a7 \in Seq(Int) /\ Len(a7) = 4 * twelve
    BY <2>1, Words32Is, Zenon
  <2>3. QED
    BY <2>2 DEF twelve
<1>10. a8 \in Seq(Int) /\ Len(a8) = 12 * n
  <2> DEFINE m == 3 * n
  <2>1. m \in Nat /\ CoordinatesOf(cloud) \in [1 .. m -> Int] /\ 4 * m = 12 * n
    BY <1>1
  <2> HIDE DEF m, n
  <2>2. a8 \in Seq(Int) /\ Len(a8) = 4 * m
    BY <2>1, Words32Is, Zenon
  <2>3. QED
    BY <2>1, <2>2
<1>11. bytes = a1 \o a2 \o a3 \o a4 \o a5 \o a6 \o a7 \o a8 \o a9
  BY DEF WritePcd1V2, Header, Sizes, CoordinatesOf, ColorsOf
<1> HIDE DEF n, a1, a2, a3, a4, a5, a6, a7, a8, a9, bytes
<1>12. InPlace(bytes, n, a1, a2, a3, a4, a5, a6, a7, a8, a9)
  BY <1>1, <1>2, <1>3, <1>6, <1>7, <1>8, <1>9, <1>10, <1>11, NineParts
<1>13. HeaderIn(bytes, cloud)
  BY <1>12 DEF InPlace, HeaderIn, a1, a2, a3, a4, a5, a6, a7
<1>14. /\ bytes \in Seq(Int) /\ Len(bytes) = 112 + 15 * n
       /\ At(bytes, 112, a8) /\ At(bytes, 112 + 12 * n, a9)
  BY <1>12 DEF InPlace
<1>15. QED
  BY <1>13, <1>14 DEF bytes, n, a8, a9

\* The words of the sizes, and what is read of them.
LEMMA ReadSizes ==
  ASSUME NEW cloud, Writable(cloud), NEW input, At(input, 24, Words32(Sizes(cloud)))
  PROVE  /\ Unsigned(input, 24, 4) = cloud.profile.width
         /\ Unsigned(input, 28, 4) = cloud.profile.height
         /\ Unsigned(input, 32, 4) = cloud.requestedStride
         /\ Unsigned(input, 36, 4) = cloud.stride
         /\ Unsigned(input, 40, 4) = Len(cloud.points)
         /\ Unsigned(input, 44, 4) = 0
<1> DEFINE sizes == Sizes(cloud)
           n == 6
<1>1. /\ sizes[1] = cloud.profile.width /\ sizes[2] = cloud.profile.height
      /\ sizes[3] = cloud.requestedStride /\ sizes[4] = cloud.stride
      /\ sizes[5] = Len(cloud.points) /\ sizes[6] = 0
  BY DEF Sizes
<1>2. sizes \in [1 .. n -> Int] /\ n \in Nat
  BY SizesFit
<1>3. \A i \in 1 .. n : FitsUnsigned(sizes[i], 4)
  BY SizesFit
<1>4. At(input, 24, Words32(sizes))
  OBVIOUS
<1> HIDE DEF sizes
<1>5. ASSUME NEW i \in 1 .. n
      PROVE  Unsigned(input, 24 + 4 * (i - 1), 4) = sizes[i]
  <2>1. 24 \in Nat /\ i \in 1 .. n
    OBVIOUS
  <2> HIDE DEF n
  <2>2. FitsUnsigned(sizes[i], 4)
    BY <1>3
  <2>3. ReadsWord(input, 24, sizes, i)
    BY <1>2, <1>4, <2>1, ReadWords32
  <2>4. QED
    BY <2>2, <2>3 DEF ReadsWord
<1>6. /\ 24 = 24 + 4 * (1 - 1) /\ 28 = 24 + 4 * (2 - 1) /\ 32 = 24 + 4 * (3 - 1)
      /\ 36 = 24 + 4 * (4 - 1) /\ 40 = 24 + 4 * (5 - 1) /\ 44 = 24 + 4 * (6 - 1)
      /\ 1 \in 1 .. n /\ 2 \in 1 .. n /\ 3 \in 1 .. n /\ 4 \in 1 .. n /\ 5 \in 1 .. n /\ 6 \in 1 .. n
  OBVIOUS
<1>7. QED
  BY <1>1, <1>5, <1>6

\* readPcd1V2 reads the header it is given.
LEMMA ReadHeader ==
  ASSUME NEW cloud, Writable(cloud), NEW input, HeaderIn(input, cloud)
  PROVE  /\ Unsigned(input, 4, 4) = FORMAT_VERSION
         /\ Unsigned(input, 8, 8) = cloud.identity.number
         /\ Signed(input, 16, 8) = cloud.identity.time
         /\ Unsigned(input, 24, 4) = cloud.profile.width
         /\ Unsigned(input, 28, 4) = cloud.profile.height
         /\ Unsigned(input, 32, 4) = cloud.requestedStride
         /\ Unsigned(input, 36, 4) = cloud.stride
         /\ Unsigned(input, 40, 4) = Len(cloud.points)
         /\ Unsigned(input, 44, 4) = 0
         /\ \A i \in 1 .. 4 : Signed(input, 48 + 4 * (i - 1), 4) = cloud.intrinsics[i]
         /\ \A i \in 1 .. 12 : Signed(input, 64 + 4 * (i - 1), 4) = cloud.matrix[i]
<1>1. FitsUnsigned(2, 4)
  BY SmallFits
<1>2. Unsigned(input, 4, 4) = FORMAT_VERSION
  BY <1>1, UnsignedWord DEF HeaderIn, Word32, FORMAT_VERSION
<1>3. Unsigned(input, 8, 8) = cloud.identity.number /\ Signed(input, 16, 8) = cloud.identity.time
  <2> DEFINE number == cloud.identity.number
             time == cloud.identity.time
             bytes == 8
  <2>1. /\ FitsUnsigned(number, bytes) /\ FitsSigned(time, bytes) /\ bytes \in 1 .. 8
        /\ At(input, 8, Word(number, bytes)) /\ At(input, 16, Word(time, bytes))
    BY DEF HeaderIn, Word64, Writable
  <2>2. 8 \in Nat /\ 16 \in Nat
    OBVIOUS
  <2> HIDE DEF bytes
  <2>3. Unsigned(input, 8, bytes) = number
    BY <2>1, <2>2, UnsignedWord, Zenon
  <2>4. Signed(input, 16, bytes) = time
    BY <2>1, <2>2, SignedWord, Zenon
  <2>5. QED
    BY <2>3, <2>4 DEF bytes
<1>4. /\ Unsigned(input, 24, 4) = cloud.profile.width
      /\ Unsigned(input, 28, 4) = cloud.profile.height
      /\ Unsigned(input, 32, 4) = cloud.requestedStride
      /\ Unsigned(input, 36, 4) = cloud.stride
      /\ Unsigned(input, 40, 4) = Len(cloud.points)
      /\ Unsigned(input, 44, 4) = 0
  <2>1. At(input, 24, Words32(Sizes(cloud)))
    BY DEF HeaderIn
  <2>2. QED
    BY <2>1, ReadSizes
<1>5. ASSUME NEW i \in 1 .. 4
      PROVE  Signed(input, 48 + 4 * (i - 1), 4) = cloud.intrinsics[i]
  <2> DEFINE n == 4
             offset == 48
             values == cloud.intrinsics
  <2>1. /\ n \in Nat /\ offset \in Nat /\ i \in 1 .. n /\ values \in [1 .. n -> Int]
        /\ FitsSigned(values[i], 4) /\ At(input, offset, Words32(values))
    BY <1>5 DEF HeaderIn, Writable
  <2> HIDE DEF n, offset, values
  <2>2. ReadsWord(input, offset, values, i)
    BY <2>1, ReadWords32
  <2>3. Signed(input, offset + 4 * (i - 1), 4) = values[i]
    BY <2>1, <2>2 DEF ReadsWord
  <2>4. QED
    BY <2>3 DEF offset, values
<1>6. ASSUME NEW i \in 1 .. 12
      PROVE  Signed(input, 64 + 4 * (i - 1), 4) = cloud.matrix[i]
  <2> DEFINE n == 12
             offset == 64
             values == cloud.matrix
  <2>1. /\ n \in Nat /\ offset \in Nat /\ i \in 1 .. n /\ values \in [1 .. n -> Int]
        /\ FitsSigned(values[i], 4) /\ At(input, offset, Words32(values))
    BY <1>6 DEF HeaderIn, Writable
  <2> HIDE DEF n, offset, values
  <2>2. ReadsWord(input, offset, values, i)
    BY <2>1, ReadWords32
  <2>3. Signed(input, offset + 4 * (i - 1), 4) = values[i]
    BY <2>1, <2>2 DEF ReadsWord
  <2>4. QED
    BY <2>3 DEF offset, values
<1>7. QED
  BY <1>2, <1>3, <1>4, <1>5, <1>6

\* All the words of a sequence are read back.
ReadsBack(input, offset, values, n) ==
  \A i \in 1 .. n : FitsSigned(values[i], 4) => Signed(input, offset + 4 * (i - 1), 4) = values[i]

\* The values of a sequence of words.
LEMMA ReadAllSigned ==
  ASSUME NEW n \in Nat, NEW values \in [1 .. n -> Int], NEW input, NEW offset \in Nat,
         At(input, offset, Words32(values))
  PROVE  ReadsBack(input, offset, values, n)
<1>1. ASSUME NEW i \in 1 .. n, FitsSigned(values[i], 4)
      PROVE  Signed(input, offset + 4 * (i - 1), 4) = values[i]
  <2>1. ReadsWord(input, offset, values, i)
    BY ReadWords32
  <2>2. QED
    BY <1>1, <2>1 DEF ReadsWord
<1>2. QED
  BY <1>1 DEF ReadsBack

\* The coordinates of the points are read back, three to a point.
CoordinatesRead(input, h, P, n) ==
  \A i \in 1 .. n, j \in 1 .. 3 :
    FitsSigned(P[3 * (i - 1) + j], 4) =>
      Signed(input, h + 12 * (i - 1) + 4 * (j - 1), 4) = P[3 * (i - 1) + j]

\* The coordinates of a payload.
LEMMA ReadCoordinates ==
  ASSUME NEW n \in Nat, NEW P, P \in [1 .. 3 * n -> Int], NEW input, NEW h \in Nat,
         At(input, h, Words32(P))
  PROVE  CoordinatesRead(input, h, P, n)
<1> DEFINE m == 3 * n
<1>1. m \in Nat /\ P \in [1 .. m -> Int]
  OBVIOUS
<1> HIDE DEF m
<1>2. ReadsBack(input, h, P, m)
  BY <1>1, ReadAllSigned, Zenon
<1>3. ASSUME NEW i \in 1 .. n, NEW j \in 1 .. 3, FitsSigned(P[3 * (i - 1) + j], 4)
      PROVE  Signed(input, h + 12 * (i - 1) + 4 * (j - 1), 4) = P[3 * (i - 1) + j]
  <2> DEFINE l == 3 * (i - 1) + j
  <2>1. l \in 1 .. m /\ h + 12 * (i - 1) + 4 * (j - 1) = h + 4 * (l - 1)
    BY DEF m
  <2>2. FitsSigned(P[l], 4)
    BY <1>3
  <2> HIDE DEF l
  <2>3. Signed(input, h + 4 * (l - 1), 4) = P[l]
    BY <1>2, <2>1, <2>2 DEF ReadsBack
  <2>4. QED
    BY <2>1, <2>3 DEF l
<1>4. QED
  BY <1>3 DEF CoordinatesRead

\* Three members of a sequence.
LEMMA ThreeOf ==
  ASSUME NEW s \in Seq(Int), NEW first \in Int, NEW last \in Int, 1 <= first, last = first + 2,
         last <= Len(s)
  PROVE  /\ SubSeq(s, first, last) \in [1 .. 3 -> Int]
         /\ \A j \in 1 .. 3 : SubSeq(s, first, last)[j] = s[first + j - 1]
<1> DEFINE part == SubSeq(s, first, last)
<1>1. \A l \in first .. last : s[l] \in Int
  <2>1. Len(s) \in Nat /\ \A l \in first .. last : l \in 1 .. Len(s)
    BY LenProperties
  <2>2. QED
    BY <2>1, ElementOfSeq
<1>2. part \in Seq(Int)
  BY <1>1, SubSeqProperties
<1>3. Len(part) = 3
  BY <1>1, SubSeqProperties
<1>4. ASSUME NEW j \in 1 .. 3
      PROVE  part[j] = s[first + j - 1]
  BY <1>1, <1>4, SubSeqProperties
<1> HIDE DEF part
<1>5. part \in [1 .. 3 -> Int]
  <2>1. part \in [1 .. Len(part) -> Int]
    BY <1>2, LenProperties
  <2>2. QED
    BY <1>3, <2>1
<1>6. QED
  BY <1>4, <1>5 DEF part

\* The point that is read of the payload after a header of so many bytes.
PointRead(input, h, n, i, p) ==
  /\ \A j \in 1 .. 3 : Signed(input, h + 12 * (i - 1) + 4 * (j - 1), 4) = p.point[j]
  /\ SubSeq(input, h + 12 * n + 3 * i - 2, h + 12 * n + 3 * i) = p.color

\* readPcd1V2 reads the points that follow the header.
LEMMA ReadPoints ==
  ASSUME NEW cloud, Writable(cloud), NEW input \in Seq(Int), NEW h \in Nat,
         NEW n \in Nat, n = Len(cloud.points),
         Len(input) = h + 15 * n,
         At(input, h, Words32(CoordinatesOf(cloud))), At(input, h + 12 * n, ColorsOf(cloud)),
         NEW i \in 1 .. n
  PROVE  PointRead(input, h, n, i, cloud.points[i])
<1> DEFINE p == cloud.points[i].point
           c == cloud.points[i].color
           P == CoordinatesOf(cloud)
           C == ColorsOf(cloud)
           k(j) == 3 * (i - 1) + j
<1>1. /\ p \in [1 .. 3 -> Int] /\ c \in [1 .. 3 -> Int] /\ P \in [1 .. 3 * n -> Int]
      /\ Len(C) = 3 * n
  <2>1. /\ cloud.points \in [1 .. n -> Points] /\ P \in [1 .. 3 * n -> Int] /\ Len(C) = 3 * n
    BY PointsOf
  <2>2. cloud.points[i] \in Points
    BY <2>1
  <2>3. QED
    BY <2>1, <2>2 DEF Points
<1>2. ASSUME NEW j \in 1 .. 3
      PROVE  k(j) \in 1 .. 3 * n /\ P[k(j)] = p[j] /\ C[k(j)] = c[j]
  BY <1>2, PointsOf
<1>3. ASSUME NEW j \in 1 .. 3
      PROVE  FitsSigned(p[j], 4)
  BY <1>3 DEF Writable
<1> HIDE DEF p, c, P, C
<1>4. ASSUME NEW j \in 1 .. 3
      PROVE  Signed(input, h + 12 * (i - 1) + 4 * (j - 1), 4) = p[j]
  <2>1. FitsSigned(P[3 * (i - 1) + j], 4) /\ P[3 * (i - 1) + j] = p[j]
    BY <1>2, <1>3
  <2>2. At(input, h, Words32(P))
    BY DEF P
  <2>3. Signed(input, h + 12 * (i - 1) + 4 * (j - 1), 4) = P[3 * (i - 1) + j]
    <3>1. CoordinatesRead(input, h, P, n)
      BY <1>1, <2>2, ReadCoordinates
    <3>2. QED
      BY <2>1, <3>1 DEF CoordinatesRead
  <2>4. QED
    BY <2>1, <2>3
<1>5. SubSeq(input, h + 12 * n + 3 * i - 2, h + 12 * n + 3 * i) = c
  <2> DEFINE first == h + 12 * n + 3 * i - 2
             last == h + 12 * n + 3 * i
             part == SubSeq(input, first, last)
             a == 12 * n
             b == 3 * i
  <2>1. first \in Int /\ last \in Int /\ 1 <= first /\ last = first + 2 /\ last <= Len(input)
    <3>1. a \in Nat /\ b \in Nat /\ 3 <= b /\ Len(input) = h + a + 3 * n /\ b <= 3 * n
      OBVIOUS
    <3>2. first = h + a + b - 2 /\ last = h + a + b
      OBVIOUS
    <3> HIDE DEF a, b, first, last
    <3>3. QED
      BY <3>1, <3>2
  <2>2. ASSUME NEW j \in 1 .. 3
        PROVE  first + j - 1 = h + 12 * n + k(j)
    <3>1. a \in Nat /\ b \in Nat /\ first = h + a + b - 2 /\ k(j) = b - 3 + j
      OBVIOUS
    <3> HIDE DEF a, b, first, k
    <3>2. first + j - 1 = h + a + k(j)
      BY <3>1
    <3>3. QED
      BY <3>2 DEF a
  <2> HIDE DEF first, last
  <2>3. part \in [1 .. 3 -> Int] /\ \A j \in 1 .. 3 : part[j] = input[first + j - 1]
    BY <2>1, ThreeOf, Zenon
  <2> HIDE DEF part
  <2>4. ASSUME NEW j \in 1 .. 3
        PROVE  part[j] = c[j]
    <3>1. input[h + 12 * n + k(j)] = C[k(j)]
      BY <1>1, <1>2 DEF At, C
    <3>2. part[j] = input[h + 12 * n + k(j)]
      <4> HIDE DEF k
      <4>1. QED
        BY <2>2, <2>3
    <3>3. QED
      BY <1>2, <3>1, <3>2
  <2>5. part = c
    <3>1. part = [j \in 1 .. 3 |-> part[j]] /\ c = [j \in 1 .. 3 |-> c[j]]
      BY <1>1, <2>3
    <3>2. QED
      BY <2>4, <3>1, Zenon
  <2>6. QED
    BY <2>5 DEF part, first, last
<1>6. QED
  BY <1>4, <1>5 DEF PointRead, p, c

\* What readPcd1V2 takes from a payload, before it validates it.
ReadCloud(input) ==
  LET floats(offset, n) == [i \in 1 .. n |-> Signed(input, offset + 4 * (i - 1), 4)]
      count == Unsigned(input, 40, 4)
      colors == HEADER_SIZE + 12 * count
      color(i) == SubSeq(input, colors + 3 * i - 2, colors + 3 * i)
  IN [number |-> Unsigned(input, 8, 8), time |-> Signed(input, 16, 8),
      profile |-> [width |-> Unsigned(input, 24, 4), height |-> Unsigned(input, 28, 4)],
      requestedStride |-> Unsigned(input, 32, 4), stride |-> Unsigned(input, 36, 4),
      intrinsics |-> floats(48, 4), matrix |-> floats(64, 12),
      points |-> [i \in 1 .. count |->
        [point |-> floats(HEADER_SIZE + 12 * (i - 1), 3), color |-> color(i)]]]

\* readPcd1V2, with its tests and its result named.
LEMMA ReadIs ==
  ASSUME NEW input
  PROVE  ReadPcd1V2(input) =
           IF /\ Len(input) >= HEADER_SIZE /\ SubSeq(input, 1, 4) = Magic
              /\ Unsigned(input, 4, 4) = FORMAT_VERSION /\ Unsigned(input, 44, 4) = 0
              /\ Len(input) = HEADER_SIZE + POINT_SIZE * Unsigned(input, 40, 4)
              /\ ValidPointCloud(ReadCloud(input))
           THEN ReadCloud(input) ELSE [error |-> "invalid_argument"]
BY Zenon DEF ReadPcd1V2, ReadCloud

\* What is read of a payload in which everything is in its place.
LEMMA CloudIsRead ==
  ASSUME NEW cloud, Writable(cloud), NEW input \in Seq(Int), HeaderIn(input, cloud),
         NEW n \in Nat, n = Len(cloud.points), Len(input) = 112 + 15 * n,
         At(input, 112, Words32(CoordinatesOf(cloud))), At(input, 112 + 12 * n, ColorsOf(cloud))
  PROVE  ReadCloud(input) = Readable(cloud)
<1> DEFINE intrinsics == [i \in 1 .. 4 |-> Signed(input, 48 + 4 * (i - 1), 4)]
           matrix == [i \in 1 .. 12 |-> Signed(input, 64 + 4 * (i - 1), 4)]
           point(i) == [j \in 1 .. 3 |-> Signed(input, HEADER_SIZE + 12 * (i - 1) + 4 * (j - 1), 4)]
           color(i) == SubSeq(input, HEADER_SIZE + 12 * n + 3 * i - 2, HEADER_SIZE + 12 * n + 3 * i)
           points == [i \in 1 .. n |-> [point |-> point(i), color |-> color(i)]]
<1>1. /\ Unsigned(input, 8, 8) = cloud.identity.number
      /\ Signed(input, 16, 8) = cloud.identity.time
      /\ Unsigned(input, 24, 4) = cloud.profile.width
      /\ Unsigned(input, 28, 4) = cloud.profile.height
      /\ Unsigned(input, 32, 4) = cloud.requestedStride
      /\ Unsigned(input, 36, 4) = cloud.stride
      /\ Unsigned(input, 40, 4) = n
  BY ReadHeader
<1>2. intrinsics = cloud.intrinsics
  <2>1. \A i \in 1 .. 4 : Signed(input, 48 + 4 * (i - 1), 4) = cloud.intrinsics[i]
    BY ReadHeader
  <2>2. cloud.intrinsics = [i \in 1 .. 4 |-> cloud.intrinsics[i]]
    BY DEF Writable
  <2>3. QED
    BY <2>1, <2>2
<1>3. matrix = cloud.matrix
  <2>1. \A i \in 1 .. 12 : Signed(input, 64 + 4 * (i - 1), 4) = cloud.matrix[i]
    BY ReadHeader
  <2>2. cloud.matrix = [i \in 1 .. 12 |-> cloud.matrix[i]]
    BY DEF Writable
  <2>3. QED
    BY <2>1, <2>2
<1>4. cloud.points \in [1 .. n -> Points]
  BY PointsOf
<1>5. ASSUME NEW i \in 1 .. n
      PROVE  [point |-> point(i), color |-> color(i)] = cloud.points[i]
  <2>1. /\ \A j \in 1 .. 3 : Signed(input, 112 + 12 * (i - 1) + 4 * (j - 1), 4) = cloud.points[i].point[j]
        /\ SubSeq(input, 112 + 12 * n + 3 * i - 2, 112 + 12 * n + 3 * i) = cloud.points[i].color
    <3>1. PointRead(input, 112, n, i, cloud.points[i])
      BY ReadPoints
    <3>2. QED
      BY <3>1 DEF PointRead
  <2>2. cloud.points[i] \in Points
    BY <1>4
  <2>3. color(i) = cloud.points[i].color
    BY <2>1 DEF HEADER_SIZE
  <2>4. point(i) = cloud.points[i].point
    <3>1. cloud.points[i].point = [j \in 1 .. 3 |-> cloud.points[i].point[j]]
      BY <2>2 DEF Points
    <3>2. QED
      BY <2>1, <3>1 DEF HEADER_SIZE
  <2> HIDE DEF point, color
  <2>5. QED
    BY <2>2, <2>3, <2>4 DEF Points
<1>6. points = cloud.points
  <2>1. cloud.points = [i \in 1 .. n |-> cloud.points[i]]
    BY <1>4
  <2> HIDE DEF point, color
  <2>2. QED
    BY <1>5, <2>1
<1>7. ReadCloud(input) =
        [number |-> cloud.identity.number, time |-> cloud.identity.time,
         profile |-> [width |-> cloud.profile.width, height |-> cloud.profile.height],
         requestedStride |-> cloud.requestedStride, stride |-> cloud.stride,
         intrinsics |-> intrinsics, matrix |-> matrix, points |-> points]
  BY <1>1, Zenon DEF ReadCloud
<1> HIDE DEF intrinsics, matrix, points
<1>8. QED
  BY <1>2, <1>3, <1>6, <1>7, Zenon DEF Readable

\* Four bytes at the beginning are a sequence's first four.
LEMMA MagicIs ==
  ASSUME NEW input \in Seq(Int), Len(input) >= 4, At(input, 0, Magic)
  PROVE  SubSeq(input, 1, 4) = Magic
<1>1. /\ Magic = <<80, 67, 68, 49>> /\ Len(Magic) = 4
  BY DEF Magic
<1>2. input[1] = 80 /\ input[2] = 67 /\ input[3] = 68 /\ input[4] = 49
  BY <1>1 DEF At
<1> DEFINE part == SubSeq(input, 1, 4)
<1>3. \A i \in 1 .. 4 : input[i] \in Int
  BY <1>2
<1>4. part \in Seq(Int) /\ Len(part) = 4
  BY <1>3, SubSeqProperties
<1>5. ASSUME NEW j \in 1 .. 4
      PROVE  part[j] = input[j]
  BY <1>3, SubSeqProperties
<1> HIDE DEF part
<1>6. part = <<part[1], part[2], part[3], part[4]>>
  BY <1>4
<1>7. QED
  BY <1>1, <1>2, <1>5, <1>6 DEF part

\* readPcd1V2 gives back what writePcd1V2 wrote, and refuses a payload that lost or gained
\* a byte: the count of the header says how long it must be.
THEOREM PointCloudRoundTrips ==
  ASSUME NEW cloud, Writable(cloud), ValidPointCloud(cloud)
  PROVE  LET bytes == WritePcd1V2(cloud).bytes
         IN /\ ReadPcd1V2(bytes) = Readable(cloud)
            /\ Throws(ReadPcd1V2(Append(bytes, 0))) /\ Throws(ReadPcd1V2(Front(bytes)))
<1> DEFINE bytes == WritePcd1V2(cloud).bytes
           n == Len(cloud.points)
<1>1. /\ bytes \in Seq(Int) /\ Len(bytes) = 112 + 15 * n /\ HeaderIn(bytes, cloud)
      /\ At(bytes, 112, Words32(CoordinatesOf(cloud)))
      /\ At(bytes, 112 + 12 * n, ColorsOf(cloud))
  BY PayloadIs
<1>2. n \in Nat
  BY PointsOf
<1> HIDE DEF bytes
<1>3. ReadCloud(bytes) = Readable(cloud)
  BY <1>1, <1>2, CloudIsRead
<1>4. ValidPointCloud(Readable(cloud))
  BY DEF ValidPointCloud, Readable
<1>5. ReadPcd1V2(bytes) = Readable(cloud)
  <2>1. /\ Unsigned(bytes, 4, 4) = FORMAT_VERSION /\ Unsigned(bytes, 44, 4) = 0
        /\ Unsigned(bytes, 40, 4) = n
    BY <1>1, ReadHeader
  <2>2. Len(bytes) >= HEADER_SIZE /\ Len(bytes) = HEADER_SIZE + POINT_SIZE * n
    BY <1>1, <1>2 DEF HEADER_SIZE, POINT_SIZE
  <2>3. SubSeq(bytes, 1, 4) = Magic
    <3>1. At(bytes, 0, Magic) /\ Len(bytes) >= 4
      BY <1>1, <1>2 DEF HeaderIn
    <3>2. QED
      BY <1>1, <3>1, MagicIs
  <2> HIDE DEF n
  <2>4. QED
    BY <1>3, <1>4, <2>1, <2>2, <2>3, ReadIs, Zenon
<1>6. ASSUME NEW input, Len(input) \in Nat, Len(input) # 112 + 15 * n,
             Len(input) >= 112 => Begins(input, bytes, 112)
      PROVE  Throws(ReadPcd1V2(input))
  <2>1. Throws([error |-> "invalid_argument"])
    BY DEF Throws
  <2>2. CASE ~(Len(input) >= HEADER_SIZE)
    BY <2>1, <2>2, ReadIs, Zenon
  <2>3. CASE Len(input) >= HEADER_SIZE
    <3>1. Begins(input, bytes, 112)
      BY <1>6, <2>3 DEF HEADER_SIZE
    <3>2. At(bytes, 24, Words32(Sizes(cloud))) /\ Len(Words32(Sizes(cloud))) = 24
      BY <1>1, SizesLength DEF HeaderIn
    <3>3. At(input, 24, Words32(Sizes(cloud)))
      <4> DEFINE part == Words32(Sizes(cloud))
                 h == 112
                 o == 24
      <4>1. /\ h \in Nat /\ o \in Nat /\ Len(part) = o /\ o + o <= h
            /\ Begins(input, bytes, h) /\ At(bytes, o, part)
        BY <3>1, <3>2
      <4> HIDE DEF part, h, o
      <4>2. At(input, o, part)
        BY <4>1, AtBeginning
      <4>3. QED
        BY <4>2 DEF part, o
    <3>4. Unsigned(input, 40, 4) = n
      BY <3>3, ReadSizes
    <3>5. Len(input) # HEADER_SIZE + POINT_SIZE * n
      BY <1>6 DEF HEADER_SIZE, POINT_SIZE
    <3> HIDE DEF n
    <3>6. QED
      BY <2>1, <3>4, <3>5, ReadIs, Zenon
  <2>4. QED
    BY <2>2, <2>3
<1>7. Throws(ReadPcd1V2(Append(bytes, 0)))
  <2> DEFINE longer == Append(bytes, 0)
  <2>1. Len(longer) = Len(bytes) + 1 /\ \A i \in 1 .. Len(bytes) : longer[i] = bytes[i]
    BY <1>1, AppendProperties
  <2> HIDE DEF longer
  <2>2. Len(longer) \in Nat /\ Len(longer) # 112 + 15 * n
    BY <1>1, <1>2, <2>1
  <2>3. Begins(longer, bytes, 112)
    <3>1. \A i \in 1 .. 112 : i \in 1 .. Len(bytes)
      BY <1>1, <1>2
    <3>2. QED
      BY <2>1, <3>1 DEF Begins
  <2>4. QED
    BY <1>6, <2>2, <2>3 DEF longer
<1>8. Throws(ReadPcd1V2(Front(bytes)))
  <2> DEFINE shorter == SubSeq(bytes, 1, Len(bytes) - 1)
             k == Len(bytes) - 1
  <2>1. k \in Nat /\ k = 111 + 15 * n
    BY <1>1, <1>2
  <2>2. \A i \in 1 .. k : bytes[i] \in Int
    <3>1. \A i \in 1 .. k : i \in 1 .. Len(bytes)
      BY <1>1, <1>2
    <3> HIDE DEF k
    <3>2. QED
      BY <1>1, <3>1, ElementOfSeq
  <2> HIDE DEF k
  <2>3. Len(SubSeq(bytes, 1, k)) = k
    BY <2>1, <2>2, SubSeqProperties
  <2>4. ASSUME NEW i \in 1 .. k
        PROVE  SubSeq(bytes, 1, k)[i] = bytes[i]
    BY <2>1, <2>2, SubSeqProperties
  <2>5. Front(bytes) = shorter /\ shorter = SubSeq(bytes, 1, k)
    BY DEF Front, k
  <2> HIDE DEF shorter
  <2>6. Len(shorter) \in Nat /\ Len(shorter) # 112 + 15 * n
    BY <2>1, <2>3, <2>5
  <2>7. Len(shorter) >= 112 => Begins(shorter, bytes, 112)
    <3>1. \A i \in 1 .. k : shorter[i] = bytes[i]
      BY <2>4, <2>5, Zenon
    <3>2. Len(shorter) >= 112 => \A i \in 1 .. 112 : i \in 1 .. k
      BY <2>1, <2>3, <2>5
    <3>3. QED
      BY <3>1, <3>2 DEF Begins
  <2>8. Throws(ReadPcd1V2(shorter))
    BY <1>6, <2>6, <2>7
  <2>9. QED
    BY <2>5, <2>8
<1>9. QED
  BY <1>5, <1>7, <1>8 DEF bytes

-----------------------------------------------------------------------------
(***************************************************************************)
(* The binary point cloud: what fits its words.                            *)
(***************************************************************************)
\* Coordinates up to 2^31 fit the word of a float.
LEMMA CoordinateFits ==
  ASSUME NEW v \in Int, -128 * 256 * 256 * 256 <= v, v < 128 * 256 * 256 * 256
  PROVE  FitsSigned(v, 4)
<1> DEFINE s == Shifted(v)
<1>1. s[0] = v /\ \A i \in 1 .. 8 : s[i] = s[i - 1] \div 256
  BY ShiftedIs
<1> HIDE DEF s
<1>2. s[1] \in Int /\ -128 * 256 * 256 <= s[1] /\ s[1] < 128 * 256 * 256
  BY <1>1
<1>3. s[2] \in Int /\ -128 * 256 <= s[2] /\ s[2] < 128 * 256
  BY <1>1, <1>2
<1>4. s[3] \in -128 .. 127
  BY <1>1, <1>3
<1>5. QED
  BY <1>4 DEF FitsSigned, s

\* Sizes and counts up to 2^24 fit an unsigned word.
LEMMA CountFits ==
  ASSUME NEW v \in Nat, v < 256 * 256 * 256
  PROVE  FitsUnsigned(v, 4)
<1> DEFINE s == Shifted(v)
<1>1. s[0] = v /\ \A i \in 1 .. 8 : s[i] = s[i - 1] \div 256
  BY ShiftedIs
<1> HIDE DEF s
<1>2. s[1] \in Nat /\ s[1] < 256 * 256
  BY <1>1
<1>3. s[2] \in Nat /\ s[2] < 256
  BY <1>1, <1>2
<1>4. s[3] = 0
  BY <1>1, <1>3
<1>5. s[4] = 0
  BY <1>1, <1>4
<1>6. QED
  BY <1>5 DEF FitsUnsigned, s

\* A value that is not above the largest one fits eight bytes, as that does.
LEMMA Int64Fits ==
  ASSUME NEW top \in Nat, Shifted(top)[7] < 128, NEW v \in 0 .. top
  PROVE  FitsUnsigned(v, 8) /\ FitsSigned(v, 8)
<1> DEFINE s == Shifted(v)
           t == Shifted(top)
           Good == {i \in 0 .. 8 : s[i] \in Nat /\ t[i] \in Nat /\ s[i] <= t[i]}
<1>1. s[0] = v /\ \A i \in 1 .. 8 : s[i] = s[i - 1] \div 256
  BY ShiftedIs
<1>2. t[0] = top /\ \A i \in 1 .. 8 : t[i] = t[i - 1] \div 256
  BY ShiftedIs
<1> HIDE DEF s, t
<1>3. 0 \in Good
  BY <1>1, <1>2
<1>4. ASSUME NEW i \in 1 .. 8, i - 1 \in Good
      PROVE  i \in Good
  <2> DEFINE a == s[i - 1]
             b == t[i - 1]
  <2>1. a \in Nat /\ b \in Nat /\ a <= b
    BY <1>4
  <2>2. s[i] = a \div 256 /\ t[i] = b \div 256 /\ i \in 0 .. 8
    BY <1>1, <1>2
  <2> HIDE DEF a, b
  <2>3. a \div 256 \in Nat /\ b \div 256 \in Nat /\ a \div 256 <= b \div 256
    BY <2>1
  <2>4. QED
    BY <2>2, <2>3
<1>5. 7 \in Good
  <2> HIDE DEF Good
  <2>1. 8 \in Nat /\ 7 \in 0 .. 8
    OBVIOUS
  <2>2. \A i \in 0 .. 8 : i \in Good
    BY <1>3, <1>4, <2>1, UpTo
  <2>3. QED
    BY <2>1, <2>2
<1>6. s[7] \in 0 .. 127
  BY <1>5 DEF t
<1>7. s[8] = 0
  BY <1>1, <1>6
<1>8. QED
  BY <1>6, <1>7 DEF FitsUnsigned, FitsSigned, s

\* A coordinate of a pixel at a depth, in an image of the largest size.
LEMMA DeprojectedFits ==
  ASSUME NEW x \in Nat, x < 4096, NEW d \in Nat, d < 2000 * 1000
  PROVE  (x * d) \div 100 \in Nat /\ (x * d) \div 100 < 128 * 256 * 256 * 256
<1> DEFINE n == x * d
<1>1. n \in Nat /\ n <= 4096 * d
  <2>1. x <= 4096 => x * d <= 4096 * d
    OBVIOUS
  <2>2. QED
    BY <2>1
<1> HIDE DEF n
<1>2. n <= 4096 * (2000 * 1000)
  BY <1>1
<1>3. n \div 100 \in Nat /\ n \div 100 < 128 * 256 * 256 * 256
  BY <1>1, <1>2
<1>4. QED
  BY <1>3 DEF n

\* The points of the fake camera can be written.
LEMMA PointFits ==
  ASSUME NEW profile, profile.width \in Nat, profile.width <= 4096,
         profile.height \in Nat, profile.height <= 4096,
         NEW number \in Nat, NEW seed \in Nat, NEW p \in Pixels(profile)
  PROVE  /\ PointAt(number, seed, p) \in Points
         /\ \A j \in 1 .. 3 : FitsSigned(PointAt(number, seed, p).point[j], 4)
<1> DEFINE x == p[1]
           y == p[2]
           d == PixelDepth(p)
           c == FakeColor(number, seed, x, y)
           q == Deproject(x, y, d)
<1>1. x \in Nat /\ x < 4096 /\ y \in Nat /\ y < 4096
  BY DEF Pixels
<1>2. PixelDepth(p) = FakeDepth(x, y)
  BY DEF PixelDepth
<1>3. PointAt(number, seed, p) = [point |-> q, color |-> c]
  BY DEF PointAt
<1> HIDE DEF x, y
<1>4. d \in Nat /\ d < 2000 * 1000
  BY <1>1, <1>2 DEF FakeDepth
<1> HIDE DEF d
<1>5. c \in [1 .. 3 -> Int]
  <2>1. (x + number + seed) % 256 \in Int /\ (y + seed) % 256 \in Int /\ number % 256 \in Int
    BY <1>1
  <2>2. QED
    BY <2>1 DEF FakeColor
<1>6. /\ (x * d) \div 100 \in Nat /\ (x * d) \div 100 < 128 * 256 * 256 * 256
      /\ (y * d) \div 100 \in Nat /\ (y * d) \div 100 < 128 * 256 * 256 * 256
  BY <1>1, <1>4, DeprojectedFits
<1> DEFINE a == (x * d) \div 100
           b == (y * d) \div 100
<1>7. q = <<a, b, d>>
  BY DEF Deproject, FocalLength
<1>8. /\ a \in Nat /\ a < 128 * 256 * 256 * 256 /\ b \in Nat /\ b < 128 * 256 * 256 * 256
  BY <1>6
<1> HIDE DEF a, b, q, c
<1>9. FitsSigned(a, 4) /\ FitsSigned(b, 4) /\ FitsSigned(d, 4)
  BY <1>4, <1>8, CoordinateFits
<1>10. q \in [1 .. 3 -> Int] /\ q[1] = a /\ q[2] = b /\ q[3] = d
  BY <1>4, <1>7, <1>8
<1>11. \A j \in 1 .. 3 : FitsSigned(q[j], 4)
  <2>1. FitsSigned(q[1], 4) /\ FitsSigned(q[2], 4) /\ FitsSigned(q[3], 4)
    BY <1>9, <1>10
  <2>2. QED
    BY <2>1
<1>12. QED
  BY <1>3, <1>5, <1>10, <1>11 DEF Points

\* Whole numbers whose squares add up to one are -1, 0 or 1.
LEMMA UnitSquare ==
  ASSUME NEW a \in Int, NEW b \in Int, NEW c \in Int, a * a + b * b + c * c = 1
  PROVE  a \in -1 .. 1 /\ b \in -1 .. 1 /\ c \in -1 .. 1
<1>1. ASSUME NEW x \in Int
      PROVE  x * x >= 0 /\ (x * x <= 1 => x \in -1 .. 1)
  <2>1. x >= 2 => x * x >= 2 * x
    OBVIOUS
  <2>2. x <= -2 => x * x >= -2 * x
    OBVIOUS
  <2>3. x * x >= 0
    OBVIOUS
  <2>4. x * x \in Int
    OBVIOUS
  <2> DEFINE square == x * x
  <2> HIDE DEF square
  <2>5. square >= 0 /\ (square <= 1 => x \in -1 .. 1)
    BY <2>1, <2>2, <2>3, <2>4 DEF square
  <2>6. QED
    BY <2>5 DEF square
<1> DEFINE aa == a * a
           bb == b * b
           cc == c * c
<1>2. /\ aa \in Int /\ aa >= 0 /\ (aa <= 1 => a \in -1 .. 1)
      /\ bb \in Int /\ bb >= 0 /\ (bb <= 1 => b \in -1 .. 1)
      /\ cc \in Int /\ cc >= 0 /\ (cc <= 1 => c \in -1 .. 1)
  BY <1>1
<1>3. aa + bb + cc = 1
  OBVIOUS
<1> HIDE DEF aa, bb, cc
<1>4. aa <= 1 /\ bb <= 1 /\ cc <= 1
  BY <1>2, <1>3
<1>5. QED
  BY <1>2, <1>4

\* The matrix of a mount that is not too far away can be written.
LEMMA MatrixFits ==
  ASSUME NEW m \in Matrices, IsRotation(m), NEW reach \in Nat, reach < 256 * 256,
         \A row \in 1 .. 3 : -reach <= m[row][4] /\ m[row][4] <= reach
  PROVE  /\ Matrix3x4(m) \in [1 .. 12 -> Int]
         /\ \A i \in 1 .. 12 : FitsSigned(Matrix3x4(m)[i], 4)
<1> DEFINE s == Matrix3x4(m)
<1>1. /\ s \in Seq(Int) /\ Len(s) = 12
      /\ \A j \in 1..4 : s[j] = m[1][j] /\ s[4 + j] = m[2][j] /\ s[8 + j] = m[3][j]
  BY MatrixEntries
<1> HIDE DEF s
<1>2. ASSUME NEW row \in 1 .. 3, NEW j \in 1 .. 4
      PROVE  FitsSigned(m[row][j], 4)
  <2>1. /\ m[row][1] \in Int /\ m[row][2] \in Int /\ m[row][3] \in Int /\ m[row][4] \in Int
    BY DEF Matrices
  <2>2. Dot(m[row], m[row]) = 1
    BY DEF IsRotation
  <2> DEFINE a == m[row][1]
             b == m[row][2]
             c == m[row][3]
             d == m[row][4]
  <2>3. a * a + b * b + c * c = 1
    BY <2>2 DEF Dot
  <2>4. a \in Int /\ b \in Int /\ c \in Int /\ d \in Int /\ -reach <= d /\ d <= reach
    BY <2>1
  <2> HIDE DEF a, b, c, d
  <2>5. a \in -1 .. 1 /\ b \in -1 .. 1 /\ c \in -1 .. 1
    BY <2>3, <2>4, UnitSquare
  <2>6. FitsSigned(a, 4) /\ FitsSigned(b, 4) /\ FitsSigned(c, 4)
    BY <2>4, <2>5, CoordinateFits
  <2>7. FitsSigned(d, 4)
    BY <2>4, CoordinateFits
  <2>8. j = 1 \/ j = 2 \/ j = 3 \/ j = 4
    OBVIOUS
  <2>9. QED
    BY <2>6, <2>7, <2>8 DEF a, b, c, d
<1>3. ASSUME NEW i \in 1 .. 12
      PROVE  FitsSigned(s[i], 4)
  <2>1. CASE i \in 1 .. 4
    BY <1>1, <1>2, <2>1
  <2>2. CASE i \in 5 .. 8
    <3>1. i - 4 \in 1 .. 4 /\ 4 + (i - 4) = i
      BY <2>2
    <3>2. s[4 + (i - 4)] = m[2][i - 4]
      BY <1>1, <3>1
    <3>3. QED
      BY <1>2, <3>1, <3>2
  <2>3. CASE i \in 9 .. 12
    <3>1. i - 8 \in 1 .. 4 /\ 8 + (i - 8) = i
      BY <2>3
    <3>2. s[8 + (i - 8)] = m[3][i - 8]
      BY <1>1, <3>1
    <3>3. QED
      BY <1>2, <3>1, <3>2
  <2>4. QED
    BY <2>1, <2>2, <2>3
<1>4. s \in [1 .. 12 -> Int]
  BY <1>1, LenProperties
<1>5. QED
  BY <1>3, <1>4 DEF s
===============================================================================
