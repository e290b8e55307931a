------------------------- MODULE PoolPublisherProofs -------------------------
(* Proofs about module PoolPublisher, for every word and page size, every   *)
(* rank, every length and every descriptor and array a caller may fill in.  *)
EXTENDS PoolPublisher, WellFoundedInduction, TLAPS

-----------------------------------------------------------------------------
(* The inductive invariants.                                                *)

\* A publisher has a size from its creation on, and a pool that exists; a buffer
\* is acquired from a publisher.
OwnerInv ==
  /\ pub.size = 0 => pub.cached = 0 /\ hand = "none"
  /\ pool.gen = 0 => pool = NoPool /\ pub.size = 0

\* What cache_pool() announces: the size of the publisher, and the buffers of the
\* generation it has noted.
BundleInv ==
  /\ pub.cached =< pool.gen
  /\ pub.cached # 0 => bundle.size = pub.size
  /\ pub.cached # 0 /\ pub.cached = pool.gen =>
       bundle.gen = pool.gen /\ bundle.bytes = pool.bytes

\* A consumer knows the size of the publisher, and faults where its buffers are
\* shorter than that.
ClientInv ==
  /\ client.live => pub.size # 0 /\ client.size = pub.size
  /\ faulted => client.bytes < client.size

\* Published frames, and the views of them, end inside the size of the publisher.
Inside(f) == f.end =< pub.size /\ (f.sized => f.arrayEnd =< f.end)
FrameInv == Inside(slot) /\ Inside(view)

IInv == TypeOK /\ OwnerInv /\ BundleInv /\ ClientInv /\ FrameInv /\ VerdictsExact

-----------------------------------------------------------------------------
(* Numbers.                                                                 *)

LEMMA Bounds ==
  /\ Word \in Nat /\ Word >= 2 /\ Word # Exact /\ Exact \in Nat
  /\ PageSize \in Nat /\ PageSize >= 1
  /\ Lengths \subseteq Nat /\ Sizes \subseteq Nat /\ Surfaces \subseteq Nat
PROOF
  BY WordIsLarge, SizesAreLengths DEF Lengths, Exact

LEMMA LessThanWellFounded == IsWellFoundedOn({ss \in Nat \X Nat : ss[1] < ss[2]}, Nat)
PROOF
  BY NatLessThanWellFounded DEF OpToRel

\* A set of numbers that has 0 and every successor has every number.
LEMMA Numbers ==
  ASSUME NEW S \in SUBSET Nat, 0 \in S, \A n \in S : n + 1 \in S
  PROVE  S = Nat
PROOF
<1> DEFINE R == {ss \in Nat \X Nat : ss[1] < ss[2]}
<1>1. SUFFICES ASSUME Nat \ S # {}
               PROVE  FALSE
  OBVIOUS
<1>2. IsWellFoundedOn(R, Nat)
  BY LessThanWellFounded
<1>3. PICK x \in Nat \ S : \A y \in Nat \ S : ~(<<y, x>> \in R)
  <2> HIDE DEF R
  <2>1. QED
    BY <1>1, <1>2, WFMin
<1>4. x - 1 \in Nat /\ x - 1 < x
  OBVIOUS
<1>5. x - 1 \in S
  <2>1. SUFFICES ASSUME x - 1 \in Nat \ S
                 PROVE  FALSE
    BY <1>4
  <2>2. PICK y \in Nat \ S : y = x - 1
    BY <2>1
  <2>3. <<y, x>> \in Nat \X Nat /\ <<y, x>>[1] = y /\ <<y, x>>[2] = x
    OBVIOUS
  <2>4. <<y, x>> \in R
    BY <1>4, <2>2, <2>3
  <2>5. QED
    BY <1>3, <2>4
<1>6. QED
  BY <1>5

\* What is left after whole words are taken off is the remainder.
LEMMA Remainder ==
  ASSUME NEW w \in Nat, w >= 1, NEW q \in Int, NEW r \in 0..(w - 1)
  PROVE  (q * w + r) % w = r
PROOF
<1> DEFINE a == q * w + r
           k == a \div w
           m == a % w
<1>1. a \in Int /\ k \in Int /\ m \in 0..(w - 1) /\ a = w * k + m
  OBVIOUS
<1>2. (q - k) * w = m - r
  BY <1>1
<1>3. m - r < w /\ r - m < w
  BY <1>1
<1>4. CASE q - k >= 1
  <2>1. (q - k) * w >= w
    BY <1>1, <1>4
  <2>2. QED
    BY <1>1, <1>2, <1>3, <2>1
<1>5. CASE q - k =< -1
  <2>1. (q - k) * w =< -w
    BY <1>1, <1>5
  <2>2. QED
    BY <1>1, <1>2, <1>3, <2>1
<1>6. CASE q - k = 0
  BY <1>1, <1>6
<1>7. QED
  BY <1>1, <1>4, <1>5, <1>6

\* A factor may be reduced before a product is.
LEMMA TimesReduced ==
  ASSUME NEW w \in Nat, w >= 1, NEW a \in Nat, NEW b \in Nat
  PROVE  ((a % w) * b) % w = (a * b) % w
PROOF
<1> DEFINE q == a \div w
           r == a % w
           p == (r * b) \div w
           t == (r * b) % w
<1>1. q \in Int /\ r \in 0..(w - 1) /\ a = w * q + r
  OBVIOUS
<1>2. r * b \in Nat
  BY <1>1
<1>3. p \in Int /\ t \in 0..(w - 1) /\ r * b = w * p + t
  BY <1>2
<1>4. a * b = (q * b + p) * w + t
  <2> HIDE DEF q, r, p, t
  <2>1. QED
    BY <1>1, <1>3
<1>5. (a * b) % w = t
  <2> HIDE DEF q, r, p, t
  <2>1. q * b + p \in Int
    BY <1>1, <1>3
  <2>2. QED
    BY <1>3, <1>4, <2>1, Remainder
<1>6. QED
  BY <1>5

-----------------------------------------------------------------------------
(* Products.                                                                *)

\* f holds the products of the first numbers of s, up to the first m.
Multiplies(f, s, w, m) ==
  /\ f \in [0..m -> Nat]
  /\ f[0] = 1
  /\ \A i \in 1..m : f[i] = Times(f[i - 1], s[i], w)

LEMMA TimesNat ==
  ASSUME NEW a \in Nat, NEW b \in Nat, NEW w \in Nat
  PROVE  Times(a, b, w) \in Nat
PROOF
<1>1. a * b \in Nat
  OBVIOUS
<1>2. CASE w = Exact
  BY <1>1, <1>2 DEF Times
<1>3. CASE w # Exact
  <2>1. w >= 1
    BY <1>3 DEF Exact
  <2>2. (a * b) % w \in Nat
    BY <1>1, <2>1
  <2>3. QED
    BY <1>3, <2>2 DEF Times
<1>4. QED
  BY <1>2, <1>3

\* The loop over the dimensions has a result, however many there are.
LEMMA ProductsExist ==
  ASSUME NEW s \in Seq(Nat), NEW w \in Nat
  PROVE  \A m \in 0..Len(s) : \E f : Multiplies(f, s, w, m)
PROOF
<1> DEFINE S == {m \in Nat : m =< Len(s) => \E f : Multiplies(f, s, w, m)}
<1>1. 0 \in S
  <2>1. Multiplies([i \in 0..0 |-> 1], s, w, 0)
    BY DEF Multiplies
  <2>2. QED
    BY <2>1
<1>2. ASSUME NEW n \in S PROVE n + 1 \in S
  <2>1. SUFFICES ASSUME n + 1 =< Len(s)
                 PROVE  \E f : Multiplies(f, s, w, n + 1)
    OBVIOUS
  <2>2. PICK f : Multiplies(f, s, w, n)
    BY <1>2, <2>1
  <2>3. n \in 0..n /\ n + 1 \in 1..Len(s) /\ n + 1 \notin 0..n
    BY <1>2, <2>1
  <2>4. f[n] \in Nat /\ s[n + 1] \in Nat
    BY <2>2, <2>3 DEF Multiplies
  <2> DEFINE t == Times(f[n], s[n + 1], w)
             g == [i \in 0..(n + 1) |-> IF i = n + 1 THEN t ELSE f[i]]
  <2>5. t \in Nat
    BY <2>4, TimesNat
  <2> HIDE DEF t
  <2>6. \A i \in 0..n : g[i] = f[i] /\ f[i] \in Nat
    BY <2>2, <2>3 DEF Multiplies
  <2>7. g[n + 1] = t
    BY <1>2
  <2>8. g \in [0..(n + 1) -> Nat]
    <3>1. ASSUME NEW i \in 0..(n + 1) PROVE i = n + 1 \/ i \in 0..n
      BY <1>2
    <3>2. \A i \in 0..(n + 1) : (IF i = n + 1 THEN t ELSE f[i]) \in Nat
      BY <2>5, <2>6, <3>1
    <3>3. QED
      BY <3>2
  <2>9. g[0] = 1
    BY <1>2, <2>2, <2>6 DEF Multiplies
  <2> HIDE DEF g
  <2>10. ASSUME NEW i \in 1..(n + 1) PROVE g[i] = Times(g[i - 1], s[i], w)
    <3>1. CASE i = n + 1
      <4>1. i - 1 = n /\ g[n] = f[n]
        BY <1>2, <2>6, <3>1
      <4>2. QED
        BY <2>7, <3>1, <4>1 DEF t
    <3>2. CASE i # n + 1
      <4>1. i \in 1..n /\ i \in 0..n /\ i - 1 \in 0..n
        BY <1>2, <3>2
      <4>2. QED
        BY <2>2, <2>6, <4>1 DEF Multiplies
    <3>3. QED
      BY <3>1, <3>2
  <2>11. QED
    BY <2>8, <2>9, <2>10 DEF Multiplies
<1>3. S = Nat
  <2> HIDE DEF S
  <2>1. S \in SUBSET Nat
    BY DEF S
  <2>2. QED
    BY <1>1, <1>2, <2>1, Numbers
<1>4. QED
  BY <1>3

LEMMA ProductIs ==
  ASSUME NEW s \in Seq(Nat), NEW w \in Nat
  PROVE  \E f : Multiplies(f, s, w, Len(s)) /\ Product(s, w) = f[Len(s)]
PROOF
<1> DEFINE Loop(f) == f = [i \in 0..Len(s) |-> IF i = 0 THEN 1 ELSE Times(f[i - 1], s[i], w)]
           n == CHOOSE f : Loop(f)
<1>1. Product(s, w) = n[Len(s)]
  BY DEF Product
<1>2. PICK g : Multiplies(g, s, w, Len(s))
  BY ProductsExist
<1>3. Loop(g)
  <2>1. DOMAIN g = 0..Len(s)
    BY <1>2 DEF Multiplies
  <2>2. \A i \in 0..Len(s) : g[i] = IF i = 0 THEN 1 ELSE Times(g[i - 1], s[i], w)
    BY <1>2 DEF Multiplies
  <2>3. g = [i \in 0..Len(s) |-> g[i]]
    BY <1>2 DEF Multiplies
  <2>4. QED
    BY <2>2, <2>3, Zenon
<1>4. Loop(n)
  BY <1>3, Zenon
<1>5. /\ DOMAIN n = 0..Len(s)
      /\ \A i \in 0..Len(s) : n[i] = IF i = 0 THEN 1 ELSE Times(n[i - 1], s[i], w)
  <2> HIDE DEF n
  <2>1. QED
    BY <1>4
<1>6. n[0] = 1 /\ \A i \in 1..Len(s) : n[i] = Times(n[i - 1], s[i], w)
  <2> HIDE DEF n
  <2>1. Len(s) \in Nat
    OBVIOUS
  <2>2. QED
    BY <1>5, <2>1
<1>7. n \in [0..Len(s) -> Nat]
  <2> HIDE DEF n
  <2> DEFINE S == {i \in Nat : i =< Len(s) => n[i] \in Nat}
  <2>1. 0 \in S
    BY <1>6
  <2>2. ASSUME NEW i \in S PROVE i + 1 \in S
    <3>1. SUFFICES ASSUME i + 1 =< Len(s)
                   PROVE  n[i + 1] \in Nat
      OBVIOUS
    <3>2. i + 1 \in 1..Len(s) /\ (i + 1) - 1 = i
      BY <2>2, <3>1
    <3>3. n[i] \in Nat /\ s[i + 1] \in Nat
      BY <2>2, <3>1, <3>2
    <3>4. n[i + 1] = Times(n[i], s[i + 1], w)
      BY <1>6, <3>2
    <3>5. Times(n[i], s[i + 1], w) \in Nat
      BY <3>3, TimesNat
    <3>6. QED
      BY <3>4, <3>5
  <2>3. S = Nat
    <3> HIDE DEF S
    <3>1. S \in SUBSET Nat
      BY DEF S
    <3>2. QED
      BY <2>1, <2>2, <3>1, Numbers
  <2>4. \A i \in 0..Len(s) : n[i] \in Nat
    BY <2>3
  <2>5. n = [i \in 0..Len(s) |-> n[i]]
    BY <1>4
  <2>6. QED
    BY <2>4, <2>5
<1>8. Multiplies(n, s, w, Len(s))
  <2> HIDE DEF n
  <2>1. QED
    BY <1>6, <1>7 DEF Multiplies
<1>9. QED
  BY <1>1, <1>8

LEMMA WordReduced ==
  /\ 1 % Word = 1
  /\ \A a, b \in Nat : ((a % Word) * b) % Word = (a * b) % Word
PROOF
<1>1. 1 % Word = 1
  BY Bounds
<1>2. ASSUME NEW a \in Nat, NEW b \in Nat PROVE ((a % Word) * b) % Word = (a * b) % Word
  <2>1. Word \in Nat /\ Word >= 1
    BY Bounds
  <2>2. QED
    BY ONLY <2>1, TimesReduced, a \in Nat, b \in Nat, Zenon
<1>3. QED
  BY <1>1, <1>2

LEMMA ProductNat ==
  ASSUME NEW s \in Seq(Nat), NEW w \in Nat
  PROVE  Product(s, w) \in Nat
PROOF
<1>1. PICK f : Multiplies(f, s, w, Len(s)) /\ Product(s, w) = f[Len(s)]
  BY ProductIs
<1>2. Len(s) \in 0..Len(s)
  OBVIOUS
<1>3. QED
  BY <1>1, <1>2 DEF Multiplies

\* Wrapping at each dimension wraps no more than once at the end.
LEMMA ProductReduced ==
  ASSUME NEW s \in Seq(Nat)
  PROVE  Product(s, Word) = Product(s, Exact) % Word
PROOF
<1>1. PICK f : Multiplies(f, s, Word, Len(s)) /\ Product(s, Word) = f[Len(s)]
  BY ProductIs, Bounds
<1>2. PICK e : Multiplies(e, s, Exact, Len(s)) /\ Product(s, Exact) = e[Len(s)]
  BY ProductIs, Bounds
<1> DEFINE S == {i \in Nat : i =< Len(s) => f[i] = e[i] % Word}
<1>3. 0 \in S
  <2>1. f[0] = 1 /\ e[0] = 1
    BY <1>1, <1>2 DEF Multiplies
  <2>2. f[0] = e[0] % Word
    BY <2>1, WordReduced
  <2>3. QED
    BY <2>2
<1>4. ASSUME NEW i \in S PROVE i + 1 \in S
  <2>1. SUFFICES ASSUME i + 1 =< Len(s)
                 PROVE  f[i + 1] = e[i + 1] % Word
    OBVIOUS
  <2>2. i + 1 \in 1..Len(s) /\ (i + 1) - 1 = i /\ i \in 0..Len(s)
    BY <1>4, <2>1
  <2>3. s[i + 1] \in Nat /\ e[i] \in Nat /\ f[i] = e[i] % Word
    <3>1. s[i + 1] \in Nat
      BY <2>2
    <3>2. e[i] \in Nat
      BY <1>2, <2>2 DEF Multiplies
    <3>3. f[i] = e[i] % Word
      BY <1>4, <2>2
    <3>4. QED
      BY <3>1, <3>2, <3>3
  <2>4. f[i + 1] = (f[i] * s[i + 1]) % Word
    BY <1>1, <2>2, Bounds DEF Multiplies, Times
  <2>5. e[i + 1] = e[i] * s[i + 1]
    BY <1>2, <2>2 DEF Multiplies, Times
  <2>6. ((e[i] % Word) * s[i + 1]) % Word = (e[i] * s[i + 1]) % Word
    BY <2>3, WordReduced, Zenon
  <2>7. QED
    BY <2>3, <2>4, <2>5, <2>6
<1>5. S = Nat
  <2> HIDE DEF S
  <2>1. S \in SUBSET Nat
    BY DEF S
  <2>2. QED
    BY <1>3, <1>4, <2>1, Numbers
<1>6. Len(s) \in S
  <2>1. Len(s) \in Nat
    OBVIOUS
  <2>2. QED
    BY <1>5, <2>1
<1>7. QED
  BY <1>1, <1>2, <1>6

-----------------------------------------------------------------------------
(* Descriptors.                                                             *)

Descriptor(d) ==
  /\ d.offset \in Nat /\ d.size \in Nat /\ d.pitch \in Nat
  /\ d.shape \in Seq(Nat) /\ d.dtype \in Nat

LEMMA FrontAndLast ==
  ASSUME NEW s \in Seq(Nat), Len(s) >= 1
  PROVE  Front(s) \in Seq(Nat) /\ Last(s) \in Nat
PROOF
<1>1. Len(s) \in 1..Len(s)
  OBVIOUS
<1>2. Last(s) \in Nat
  BY <1>1 DEF Last
<1>3. Front(s) \in Seq(Nat)
  BY DEF Front
<1>4. QED
  BY <1>2, <1>3

\* image_bytes() is the true footprint in 64 bits.
LEMMA ImageBytesReduced ==
  ASSUME NEW d, Descriptor(d), Len(d.shape) >= 1, d.pitch # 0
  PROVE  /\ ImageBytes(d, Exact) \in Nat
         /\ ImageBytes(d, Word) = ImageBytes(d, Exact) % Word
PROOF
<1> DEFINE P == Product(Front(d.shape), Exact)
<1>1. Front(d.shape) \in Seq(Nat) /\ d.pitch \in Nat
  BY FrontAndLast DEF Descriptor
<1>2. P \in Nat /\ Product(Front(d.shape), Word) = P % Word
  BY <1>1, ProductNat, ProductReduced, Bounds
<1> HIDE DEF P
<1>3. ImageBytes(d, Exact) = P * d.pitch
  BY DEF ImageBytes, RowStride, Times, P
<1>4. ImageBytes(d, Word) = ((P % Word) * d.pitch) % Word
  BY <1>2, Bounds DEF ImageBytes, RowStride, Times
<1>5. ((P % Word) * d.pitch) % Word = (P * d.pitch) % Word
  BY <1>1, <1>2, WordReduced, Zenon
<1>6. P * d.pitch \in Nat
  BY <1>1, <1>2
<1>7. QED
  BY <1>3, <1>4, <1>5, <1>6

\* Two subtractions ask whether offset + size is past the end.
LEMMA OutsideIs ==
  ASSUME NEW d, Descriptor(d), NEW length \in Nat
  PROVE  Outside(d, length) <=> d.offset + d.size > length
PROOF
  BY DEF Outside, Descriptor

\* descriptor_error() decides whether a frame fits, unless its footprint wraps.
LEMMA VerdictIsExact ==
  ASSUME NEW d, Descriptor(d), NEW length \in Nat, ~Wraps(d)
  PROVE  DescriptorError(d, length) = "0" <=> Fits(d, length)
PROOF
<1>1. CASE Malformed(d)
  <2>1. DescriptorError(d, length) = "EINVAL"
    BY <1>1 DEF DescriptorError
  <2>2. ~Fits(d, length)
    BY <1>1 DEF Malformed, Fits, Descriptor
  <2>3. QED
    BY <2>1, <2>2
<1>2. CASE ~Malformed(d) /\ Outside(d, length)
  <2>1. DescriptorError(d, length) = "EMSGSIZE"
    BY <1>2 DEF DescriptorError
  <2>2. ~Fits(d, length)
    BY <1>2, OutsideIs DEF Fits, Descriptor
  <2>3. QED
    BY <2>1, <2>2
<1>3. CASE ~Malformed(d) /\ ~Outside(d, length)
  <2>1. DescriptorError(d, length) = "0" <=> ~BadPitch(d)
    BY <1>3 DEF DescriptorError
  <2>2. /\ Len(d.shape) \in 1..MaxRank /\ d.dtype > 0 /\ d.size > 0
        /\ d.offset + d.size =< length /\ Len(d.shape) >= 1
    BY <1>3, OutsideIs, WordIsLarge DEF Malformed, Descriptor
  <2>3. CASE d.pitch = 0
    BY <2>1, <2>2, <2>3 DEF BadPitch, Fits
  <2>4. CASE d.pitch # 0
    <3> DEFINE X == ImageBytes(d, Exact)
               packed == Last(d.shape) * d.dtype
    <3>1. X \in Nat /\ ImageBytes(d, Word) = X % Word
      BY <2>2, <2>4, ImageBytesReduced
    <3>2. X < Word
      BY <2>2, <3>1, Bounds DEF Wraps
    <3>3. ImageBytes(d, Word) = X
      <4> HIDE DEF X
      <4>1. QED
        BY <3>1, <3>2, Bounds
    <3>4. packed \in Nat /\ d.pitch \in Nat /\ d.size \in Nat
      BY <2>2, FrontAndLast DEF Descriptor
    <3>5. BadPitch(d) <=> d.pitch < packed \/ X > d.size
      BY <2>4, <3>3 DEF BadPitch
    <3>6. Fits(d, length) <=> d.pitch >= packed /\ X <= d.size
      BY <2>2, <2>4 DEF Fits
    <3>7. QED
      <4> HIDE DEF X, packed
      <4>1. QED
        BY <2>1, <3>1, <3>4, <3>5, <3>6
  <2>5. QED
    BY <2>3, <2>4
<1>4. QED
  BY <1>1, <1>2, <1>3

-----------------------------------------------------------------------------
(* Typing, in three parts.                                                  *)

PoolTypes == pool \in [size : Nat, gen : Nat, bytes : Nat, live : BOOLEAN] /\ nvbuf \in BOOLEAN
SharedTypes ==
  /\ pub \in [size : Nat, cached : Nat]
  /\ bundle \in Bundles /\ client \in Bundles /\ faulted \in BOOLEAN
  /\ view \in [end : Nat, arrayEnd : Nat, sized : BOOLEAN]
FrameTypes ==
  /\ slot \in [gen : Nat, end : Nat, arrayEnd : Nat, sized : BOOLEAN, fits : BOOLEAN]
  /\ verdict \in [accepted : BOOLEAN, fits : BOOLEAN, wraps : BOOLEAN]

LEMMA TypeParts ==
  TypeOK <=> PoolTypes /\ SharedTypes /\ FrameTypes /\ hand \in {"none", "buffer", "empty"}
PROOF
  BY DEF TypeOK, PoolTypes, SharedTypes, FrameTypes

LEMMA TypePartsPrime ==
  TypeOK' <=> /\ PoolTypes' /\ SharedTypes' /\ FrameTypes'
              /\ hand' \in {"none", "buffer", "empty"}
PROOF
  BY DEF TypeOK, PoolTypes, SharedTypes, FrameTypes

LEMMA InitInv ==
  ASSUME Init
  PROVE  IInv
PROOF
<1>1. TypeOK
  BY DEF Init, TypeOK, Bundles, NoPool, NoPub, NoBundle, NoFrame, NoView, NoVerdict
<1>2. OwnerInv /\ BundleInv
  BY DEF Init, OwnerInv, BundleInv, NoPool, NoPub, NoBundle
<1>3. ClientInv /\ FrameInv /\ VerdictsExact
  BY DEF Init, ClientInv, FrameInv, Inside, VerdictsExact, NoPub, NoBundle, NoFrame, NoView,
         NoVerdict
<1>4. QED
  BY <1>1, <1>2, <1>3 DEF IInv

LEMMA PagesNat ==
  ASSUME NEW n \in Nat
  PROVE  PageRoundUp(n) \in Nat
PROOF
<1> DEFINE m == (n + PageSize - 1) % Word
<1>1. m \in Nat
  BY Bounds
<1>2. m % PageSize \in Nat /\ m % PageSize =< m
  <2> HIDE DEF m
  <2>1. QED
    BY <1>1, Bounds
<1>3. PageRoundUp(n) = m - (m % PageSize)
  BY DEF PageRoundUp
<1>4. QED
  <2> HIDE DEF m
  <2>1. QED
    BY <1>1, <1>2, <1>3

\* Whatever allocate() finds, the pool has buffers of one generation.
LEMMA Allocated ==
  ASSUME NEW s \in Sizes, NEW g \in Nat, Allocate(s, g)
  PROVE  pool' \in [size : Nat, gen : Nat, bytes : Nat, live : BOOLEAN] /\ pool'.gen = g
PROOF
<1>1. \A n \in Sizes \cup Surfaces : PageRoundUp(n) \in Nat
  BY PagesNat, Bounds
<1>2. PICK n \in Sizes \cup Surfaces, b \in Nat, l \in BOOLEAN :
        pool' = [size |-> PageRoundUp(n), gen |-> g, bytes |-> b, live |-> l]
  <2>1. ASSUME NEW n \in IF nvbuf THEN Surfaces ELSE {s},
               pool' = [size |-> PageRoundUp(n), gen |-> g, bytes |-> PageRoundUp(n), live |-> TRUE]
        PROVE  \E k \in Sizes \cup Surfaces, b \in Nat, l \in BOOLEAN :
                 pool' = [size |-> PageRoundUp(k), gen |-> g, bytes |-> b, live |-> l]
    <3>1. n \in Sizes \cup Surfaces /\ PageRoundUp(n) \in Nat
      BY <1>1
    <3>2. QED
      BY <2>1, <3>1
  <2>2. ASSUME pool' = [size |-> PageRoundUp(s), gen |-> g, bytes |-> 0, live |-> FALSE]
        PROVE  \E k \in Sizes \cup Surfaces, b \in Nat, l \in BOOLEAN :
                 pool' = [size |-> PageRoundUp(k), gen |-> g, bytes |-> b, live |-> l]
    BY <2>2
  <2>3. QED
    BY <2>1, <2>2 DEF Allocate
<1>3. QED
  BY <1>1, <1>2

-----------------------------------------------------------------------------
(* cache_pool() and a handshake that may follow it.                         *)

Announces == \/ pub.cached = pool.gen /\ UNCHANGED <<pub, bundle>>
             \/ pub' = [pub EXCEPT !.cached = pool.gen] /\ bundle' = Bundle

LEMMA Cached ==
  ASSUME CachePool(FALSE)
  PROVE  Announces
PROOF
  BY DEF CachePool, Announces

\* The announcement is of the pool as it is, of the publisher's size.
LEMMA AnnouncementIsCurrent ==
  ASSUME TypeOK, OwnerInv, BundleInv, pub.size # 0, Announces
  PROVE  /\ pub'.size = pub.size /\ pub'.cached = pool.gen /\ pub' \in [size : Nat, cached : Nat]
         /\ bundle'.size = pub.size /\ bundle'.gen = pool.gen /\ bundle'.bytes = pool.bytes
         /\ bundle' \in Bundles
PROOF
<1>1. PoolTypes /\ SharedTypes
  BY TypeParts
<1>2. pool.gen # 0
  BY DEF OwnerInv
<1>3. CASE pub.cached = pool.gen /\ UNCHANGED <<pub, bundle>>
  BY <1>1, <1>2, <1>3 DEF BundleInv, SharedTypes
<1>4. CASE pub' = [pub EXCEPT !.cached = pool.gen] /\ bundle' = Bundle
  BY <1>1, <1>4 DEF Bundle, Bundles, PoolTypes, SharedTypes
<1>5. QED
  BY <1>3, <1>4 DEF Announces

LEMMA Handshake ==
  ASSUME TypeOK, OwnerInv, BundleInv, ClientInv, Inside(view), pub.size # 0, pool' = pool,
         Announces, AcceptOrNot
  PROVE  /\ SharedTypes' /\ BundleInv' /\ ClientInv' /\ Inside(view)'
         /\ pub'.size = pub.size
         /\ client' # client => client'.gen = pool.gen /\ client'.bytes = pool.bytes
PROOF
<1>1. PoolTypes /\ SharedTypes
  BY TypeParts
<1>2. /\ pub'.size = pub.size /\ pub'.cached = pool.gen /\ pub' \in [size : Nat, cached : Nat]
      /\ bundle'.size = pub.size /\ bundle'.gen = pool.gen /\ bundle'.bytes = pool.bytes
      /\ bundle' \in Bundles
  BY AnnouncementIsCurrent
<1>3. BundleInv'
  BY <1>1, <1>2 DEF BundleInv, PoolTypes
<1>4. CASE UNCHANGED <<client, faulted, view>>
  BY <1>1, <1>2, <1>3, <1>4 DEF SharedTypes, ClientInv, Inside
<1>5. CASE /\ client' = bundle' /\ view' = NoView
           /\ faulted' = (bundle'.live /\ bundle'.bytes < bundle'.size)
  <2>1. SharedTypes'
    BY <1>2, <1>5 DEF SharedTypes, Bundles, NoView
  <2>2. ClientInv'
    BY <1>2, <1>5 DEF ClientInv
  <2>3. Inside(view)'
    BY <1>1, <1>2, <1>5 DEF Inside, NoView, SharedTypes
  <2>4. QED
    BY <1>2, <1>3, <1>5, <2>1, <2>2, <2>3
<1>6. QED
  BY <1>4, <1>5 DEF AcceptOrNot

-----------------------------------------------------------------------------
(* publish() of a descriptor.                                               *)

LEMMA ImpliedNat ==
  ASSUME NEW d, d.shape \in Seq(Nat), d.dtype \in Nat, NEW w \in Nat
  PROVE  Implied(d, w) \in Nat
PROOF
<1>1. Product(d.shape, w) \in Nat
  BY ProductNat
<1>2. QED
  BY <1>1, TimesNat DEF Implied

\* A frame that passes the check ends inside the publisher's size, and so does the
\* array of its shape when its size covers it.
LEMMA Accepted ==
  ASSUME TypeOK, NEW d, Descriptor(d), DescriptorError(d, pub.size) = "0"
  PROVE  Inside(Stored(d))
PROOF
<1>1. pub.size \in Nat
  BY DEF TypeOK
<1>2. ~Malformed(d) /\ ~Outside(d, pub.size)
  BY DEF DescriptorError
<1>3. d.offset \in Nat /\ d.size \in Nat
  BY DEF Descriptor
<1>4. d.offset + d.size =< pub.size
  BY <1>1, <1>2, <1>3, OutsideIs
<1>5. Implied(d, Exact) \in Nat
  BY ImpliedNat, Bounds DEF Descriptor
<1>6. /\ Stored(d).end = d.offset + d.size
      /\ Stored(d).arrayEnd = d.offset + Implied(d, Exact)
      /\ Stored(d).sized => d.size >= Implied(d, Exact)
  BY DEF Stored
<1>7. Stored(d).sized => d.offset + Implied(d, Exact) =< d.offset + d.size
  BY <1>3, <1>5, <1>6
<1>8. QED
  BY <1>4, <1>6, <1>7 DEF Inside

LEMMA StoredTyped ==
  ASSUME TypeOK, NEW d, Descriptor(d)
  PROVE  Stored(d) \in [gen : Nat, end : Nat, arrayEnd : Nat, sized : BOOLEAN, fits : BOOLEAN]
PROOF
<1>1. Implied(d, Exact) \in Nat
  BY ImpliedNat, Bounds DEF Descriptor
<1>2. d.offset + d.size \in Nat /\ d.offset + Implied(d, Exact) \in Nat
  BY <1>1 DEF Descriptor
<1>3. pool.gen \in Nat
  BY DEF TypeOK
<1>4. QED
  BY <1>2, <1>3 DEF Stored

LEMMA Published ==
  ASSUME IInv, NEW d, Descriptor(d), pub.size # 0, pool' = pool, PublishFrame(d)
  PROVE  /\ SharedTypes' /\ FrameTypes' /\ pub'.size = pub.size
         /\ BundleInv' /\ ClientInv' /\ FrameInv' /\ VerdictsExact'
         /\ client' # client => client'.gen = pool.gen /\ client'.bytes = pool.bytes
PROOF
<1>1. TypeOK /\ SharedTypes /\ FrameTypes /\ pub.size \in Nat
  BY TypeParts DEF IInv, SharedTypes
<1>2. verdict' = [accepted |-> DescriptorError(d, pub.size) = "0",
                  fits |-> Fits(d, pub.size), wraps |-> Wraps(d)]
  BY DEF PublishFrame
<1>3. VerdictsExact' /\ verdict' \in [accepted : BOOLEAN, fits : BOOLEAN, wraps : BOOLEAN]
  <2>1. Fits(d, pub.size) \in BOOLEAN /\ Wraps(d) \in BOOLEAN
    BY DEF Fits, Wraps
  <2>2. Wraps(d) \/ ((DescriptorError(d, pub.size) = "0") = Fits(d, pub.size))
    BY <1>1, <2>1, VerdictIsExact
  <2>3. QED
    BY <1>2, <2>1, <2>2 DEF VerdictsExact
<1>4. CASE DescriptorError(d, pub.size) = "0"
  <2>0. verdict'.accepted
    BY <1>2, <1>4
  <2>1. slot' = Stored(d) /\ CachePool(FALSE) /\ AcceptOrNot
    BY <2>0 DEF PublishFrame
  <2>2. /\ SharedTypes' /\ BundleInv' /\ ClientInv' /\ Inside(view)'
        /\ pub'.size = pub.size
        /\ client' # client => client'.gen = pool.gen /\ client'.bytes = pool.bytes
    BY <2>1, Cached, Handshake DEF IInv, FrameInv
  <2>3. slot' \in [gen : Nat, end : Nat, arrayEnd : Nat, sized : BOOLEAN, fits : BOOLEAN]
    BY <1>1, <2>1, StoredTyped
  <2>4. Inside(Stored(d))
    BY <1>1, <1>4, Accepted
  <2>5. Inside(slot)'
    BY <2>1, <2>2, <2>4 DEF Inside
  <2>6. QED
    BY <1>3, <2>2, <2>3, <2>5 DEF FrameInv, FrameTypes
<1>5. CASE DescriptorError(d, pub.size) # "0"
  <2>0. ~verdict'.accepted
    BY <1>2, <1>5
  <2>1. UNCHANGED <<slot, pub, bundle, client, faulted, view>>
    BY <2>0 DEF PublishFrame
  <2>2. SharedTypes' /\ FrameTypes'
    BY <1>1, <1>3, <2>1 DEF SharedTypes, FrameTypes
  <2>3. BundleInv' /\ ClientInv' /\ FrameInv'
    BY <2>1 DEF IInv, BundleInv, ClientInv, FrameInv, Inside
  <2>4. QED
    BY <1>3, <2>1, <2>2, <2>3
<1>6. QED
  BY <1>4, <1>5

LEMMA SequencesOfLengths ==
  ASSUME NEW s \in Seq(Lengths)
  PROVE  s \in Seq(Nat)
PROOF
<1>1. Len(s) \in Nat /\ s = [i \in 1..Len(s) |-> s[i]] /\ \A i \in 1..Len(s) : s[i] \in Lengths
  OBVIOUS
<1>2. \A i \in 1..Len(s) : s[i] \in Nat
  BY <1>1, Bounds
<1>3. QED
  BY <1>1, <1>2

LEMMA FrameIsDescriptor ==
  ASSUME NEW d \in Frames
  PROVE  Descriptor(d)
PROOF
<1>1. d.shape \in Seq(Nat)
  BY FramesAreDescriptors, SequencesOfLengths
<1>2. QED
  BY <1>1, FramesAreDescriptors, Bounds DEF Descriptor

LEMMA ArrayIsDescriptor ==
  ASSUME NEW a \in Arrays, NEW size \in Nat
  PROVE  /\ a.shape \in Seq(Nat) /\ a.itemsize \in Nat /\ a.dtype \in Nat
         /\ Descriptor([shape |-> a.shape, dtype |-> a.dtype, offset |-> 0, size |-> size,
                        pitch |-> 0])
PROOF
<1>1. a.shape \in Seq(Nat)
  BY ArraysHaveShapes, SequencesOfLengths
<1>2. a.itemsize \in Nat /\ a.dtype \in Nat
  BY ArraysHaveShapes, Bounds
<1>3. QED
  BY <1>1, <1>2 DEF Descriptor

LEMMA CopiedNat ==
  ASSUME NEW a \in Arrays
  PROVE  Copied(a) \in Nat
PROOF
<1>1. a.shape \in Seq(Nat) /\ a.itemsize \in Nat
  BY ArrayIsDescriptor
<1>2. Product(a.shape, Exact) \in Nat
  BY <1>1, ProductNat, Bounds
<1>3. QED
  BY <1>1, <1>2 DEF Copied

-----------------------------------------------------------------------------
(* One step.                                                                *)

Current == client' # client => client'.gen = pool.gen /\ client'.bytes = pool.bytes

\* A frame published by a caller, whatever becomes of the buffer it was written in.
LEMMA PublishStep ==
  ASSUME IInv, NEW d, Descriptor(d), pub.size # 0, PublishFrame(d),
         UNCHANGED <<pool, nvbuf>>, hand' \in {hand, "none"}
  PROVE  IInv' /\ Current
PROOF
<1>1. /\ SharedTypes' /\ FrameTypes' /\ pub'.size = pub.size
      /\ BundleInv' /\ ClientInv' /\ FrameInv' /\ VerdictsExact'
      /\ Current
  BY Published DEF Current
<1>2. TypeOK'
  BY <1>1, TypeParts, TypePartsPrime DEF IInv, PoolTypes
<1>3. OwnerInv'
  BY <1>1 DEF IInv, OwnerInv
<1>4. QED
  BY <1>1, <1>2, <1>3 DEF IInv

\* A handshake asked for by its own call.
LEMMA HandshakeStep ==
  ASSUME IInv, pub.size # 0, Announces, AcceptOrNot, UNCHANGED <<pool, nvbuf, hand, slot, verdict>>
  PROVE  IInv' /\ Current
PROOF
<1>1. /\ SharedTypes' /\ BundleInv' /\ ClientInv' /\ Inside(view)'
      /\ pub'.size = pub.size /\ Current
  BY Handshake DEF IInv, FrameInv, Current
<1>2. FrameInv'
  BY <1>1 DEF IInv, FrameInv, Inside
<1>3. TypeOK'
  BY <1>1, TypeParts, TypePartsPrime DEF IInv, PoolTypes, FrameTypes
<1>4. OwnerInv' /\ VerdictsExact'
  BY <1>1 DEF IInv, OwnerInv, VerdictsExact
<1>5. QED
  BY <1>1, <1>2, <1>3, <1>4 DEF IInv

\* The pool is made, or retired and made again.
LEMMA PoolStep ==
  ASSUME IInv, NEW g \in Nat, g > pool.gen, NEW s \in Sizes, Allocate(s, g),
         UNCHANGED <<nvbuf, pub, bundle, hand, slot, client, faulted, view, verdict>>
  PROVE  IInv' /\ Current
PROOF
<1>1. PoolTypes /\ SharedTypes
  BY TypeParts DEF IInv
<1>2. pool' \in [size : Nat, gen : Nat, bytes : Nat, live : BOOLEAN] /\ pool'.gen = g
  BY Allocated
<1>3. TypeOK'
  BY <1>2, TypeParts, TypePartsPrime DEF IInv, PoolTypes, SharedTypes, FrameTypes
<1>4. pool.gen \in Nat /\ pub.cached \in Nat
  BY <1>1 DEF PoolTypes, SharedTypes
<1>5. OwnerInv'
  BY <1>2, <1>4 DEF IInv, OwnerInv
<1>6. pub.cached =< pool.gen
  BY DEF IInv, BundleInv
<1>7. pub.cached < g
  BY <1>4, <1>6
<1>8. BundleInv'
  BY <1>2, <1>4, <1>7 DEF IInv, BundleInv
<1>9. ClientInv' /\ FrameInv' /\ VerdictsExact'
  BY DEF IInv, ClientInv, FrameInv, Inside, VerdictsExact
<1>10. QED
  BY <1>3, <1>5, <1>8, <1>9 DEF IInv, Current

LEMMA StepInv ==
  ASSUME IInv, [Next]_vars
  PROVE  IInv' /\ Current
PROOF
<1>1. TypeOK /\ OwnerInv /\ PoolTypes /\ SharedTypes /\ FrameTypes
  BY TypeParts DEF IInv
<1>2. pub.size # 0 <=> pub # NoPub
  BY <1>1 DEF OwnerInv, SharedTypes, NoPub
<1>3. hand # "none" => pub.size # 0
  BY <1>1 DEF OwnerInv
<1>4. CASE PoolCreate
  <2>1. PICK s \in Sizes : Allocate(s, 1)
    BY <1>4 DEF PoolCreate
  <2>2. 1 \in Nat /\ 1 > pool.gen
    BY <1>4 DEF PoolCreate, NoPool
  <2>3. QED
    BY <1>4, <2>1, <2>2, PoolStep DEF PoolCreate
<1>5. CASE Retire
  <2>1. PICK s \in Sizes : Allocate(s, pool.gen + 1)
    BY <1>5 DEF Retire
  <2>2. pool.gen + 1 \in Nat /\ pool.gen + 1 > pool.gen
    BY <1>1 DEF PoolTypes
  <2>3. QED
    BY <1>5, <2>1, <2>2, PoolStep DEF Retire
<1>6. CASE PubCreate
  <2>1. PICK size \in Nat : size # 0 /\ pub' = [size |-> size, cached |-> 0]
    BY <1>1, <1>6 DEF PubCreate, PoolTypes
  <2>2. pub.size = 0 /\ pub.cached = 0
    BY <1>6 DEF PubCreate, NoPub
  <2>3. UNCHANGED <<pool, nvbuf, bundle, hand, slot, client, faulted, view, verdict>>
    BY <1>6 DEF PubCreate
  <2>4. TypeOK'
    BY <2>1, <2>3, TypePartsPrime, TypeParts DEF IInv, PoolTypes, SharedTypes, FrameTypes
  <2>5. pool.gen # 0
    BY <1>1, <1>6 DEF PubCreate, OwnerInv
  <2>6. OwnerInv'
    BY <2>1, <2>3, <2>5 DEF OwnerInv
  <2>7. BundleInv' /\ VerdictsExact'
    BY <1>1, <2>1, <2>3 DEF IInv, BundleInv, VerdictsExact, PoolTypes
  <2>8. ClientInv'
    BY <2>1, <2>2, <2>3 DEF IInv, ClientInv
  <2>9. FrameInv'
    BY <1>1, <2>1, <2>2, <2>3 DEF IInv, FrameInv, Inside, SharedTypes, FrameTypes
  <2>10. QED
    BY <2>3, <2>4, <2>6, <2>7, <2>8, <2>9 DEF IInv, Current
<1>7. CASE HandshakePool
  BY <1>2, <1>7, Cached, HandshakeStep DEF HandshakePool
<1>8. CASE Reannounce
  BY <1>2, <1>8, HandshakeStep DEF Reannounce, Announces
<1>9. CASE Acquire
  <2>1. /\ UNCHANGED <<pool, nvbuf, pub, bundle, slot, client, faulted, view, verdict>>
        /\ hand' \in {"buffer", "empty"} /\ pub.size # 0
    BY <1>2, <1>9 DEF Acquire
  <2>2. TypeOK' /\ OwnerInv'
    BY <1>1, <2>1 DEF TypeOK, OwnerInv
  <2>3. BundleInv' /\ ClientInv' /\ FrameInv' /\ VerdictsExact'
    BY <2>1 DEF IInv, BundleInv, ClientInv, FrameInv, Inside, VerdictsExact
  <2>4. QED
    BY <2>1, <2>2, <2>3 DEF IInv, Current
<1>10. CASE Publish
  <2>1. PICK d \in Frames : PublishFrame(d)
    BY <1>10 DEF Publish
  <2>2. Descriptor(d) /\ pub.size # 0 /\ UNCHANGED <<pool, nvbuf>> /\ hand' = "none"
    BY <1>3, <1>10, FrameIsDescriptor DEF Publish
  <2>3. QED
    BY <2>1, <2>2, PublishStep
<1>11. CASE UNCHANGED vars
  <2>1. TypeOK' /\ OwnerInv' /\ BundleInv'
    BY <1>1, <1>11 DEF IInv, TypeOK, OwnerInv, BundleInv, vars
  <2>2. ClientInv' /\ FrameInv' /\ VerdictsExact'
    BY <1>11 DEF IInv, ClientInv, FrameInv, Inside, VerdictsExact, vars
  <2>3. QED
    BY <1>11, <2>1, <2>2 DEF IInv, Current, vars
<1>12. CASE PyPublish
  <2>1. PICK a \in Arrays :
          \/ UNCHANGED <<slot, pub, bundle, client, faulted, view, verdict>>
          \/ PublishFrame([shape |-> a.shape, dtype |-> a.dtype, offset |-> 0,
                           size |-> Copied(a), pitch |-> 0])
    BY <1>12 DEF PyPublish
  <2>2. UNCHANGED <<pool, nvbuf, hand>> /\ pub.size # 0
    BY <1>2, <1>12 DEF PyPublish
  <2>3. CASE UNCHANGED <<slot, pub, bundle, client, faulted, view, verdict>>
    BY <1>11, <2>2, <2>3 DEF vars
  <2>4. CASE PublishFrame([shape |-> a.shape, dtype |-> a.dtype, offset |-> 0,
                           size |-> Copied(a), pitch |-> 0])
    BY <2>2, <2>4, CopiedNat, ArrayIsDescriptor, PublishStep
  <2>5. QED
    BY <2>1, <2>3, <2>4
<1>13. CASE PyPublishDevice
  <2>1. PICK a \in Arrays :
          PublishFrame([shape |-> a.shape, dtype |-> a.dtype, offset |-> 0,
                        size |-> Implied(a, Word), pitch |-> 0])
    BY <1>13 DEF PyPublishDevice
  <2>2. UNCHANGED <<pool, nvbuf>> /\ hand' = "none" /\ pub.size # 0
    BY <1>3, <1>13 DEF PyPublishDevice
  <2>3. a.shape \in Seq(Nat) /\ a.dtype \in Nat
    BY ArrayIsDescriptor
  <2>4. Implied(a, Word) \in Nat
    BY <2>3, ImpliedNat, Bounds
  <2>5. Descriptor([shape |-> a.shape, dtype |-> a.dtype, offset |-> 0,
                    size |-> Implied(a, Word), pitch |-> 0])
    BY <2>4, ArrayIsDescriptor
  <2>6. QED
    BY <2>1, <2>2, <2>5, PublishStep
<1>14. CASE LatestView
  <2>1. /\ UNCHANGED <<pool, nvbuf, pub, bundle, hand, slot, client, faulted, verdict>>
        /\ view' = [end |-> slot.end, arrayEnd |-> slot.arrayEnd, sized |-> slot.sized]
    BY <1>14 DEF LatestView
  <2>2. TypeOK'
    BY <1>1, <2>1 DEF TypeOK
  <2>3. FrameInv'
    BY <2>1 DEF IInv, FrameInv, Inside
  <2>4. OwnerInv' /\ BundleInv' /\ ClientInv' /\ VerdictsExact'
    BY <2>1 DEF IInv, OwnerInv, BundleInv, ClientInv, VerdictsExact
  <2>5. QED
    BY <2>1, <2>2, <2>3, <2>4 DEF IInv, Current
<1>15. QED
  BY <1>4, <1>5, <1>6, <1>7, <1>8, <1>9, <1>10, <1>11, <1>12, <1>13, <1>14 DEF Next

-----------------------------------------------------------------------------
(* The results.                                                             *)

\* Sizes, bundles, frames and views keep the invariant in every reachable state,
\* whatever is published and however the pool is reallocated.
THEOREM Invariance == Spec => []IInv
PROOF
<1>1. Init => IInv
  BY InitInv
<1>2. IInv /\ [Next]_vars => IInv'
  BY StepInv
<1>3. QED
  BY <1>1, <1>2, PTL DEF Spec

\* The pool, the publisher and its consumer keep their types.
THEOREM TypeCorrectness == Spec => []TypeOK
PROOF
<1>1. IInv => TypeOK
  BY DEF IInv
<1>2. QED
  BY <1>1, Invariance, PTL

\* descriptor_error() accepts the frames that fit and no others, for every
\* descriptor whose footprint is a 64-bit number.
THEOREM VerdictsAreExact == Spec => []VerdictsExact
PROOF
<1>1. IInv => VerdictsExact
  BY DEF IInv
<1>2. QED
  BY <1>1, Invariance, PTL

\* A view, and the array Python builds over it, ends inside the buffers that the
\* consumer attached, if those are as long as they were announced to be.
THEOREM ViewsStayInsideBuffers == Spec => []ViewsInsideBuffers
PROOF
<1>1. IInv => ViewsInsideBuffers
  <2>1. SUFFICES ASSUME IInv, client.live /\ client.bytes >= client.size
                 PROVE  /\ ~faulted
                        /\ view.end <= client.bytes
                        /\ view.sized => view.arrayEnd <= client.bytes
    BY DEF ViewsInsideBuffers
  <2>2. SharedTypes /\ client.size = pub.size
    BY <2>1, TypeParts DEF IInv, ClientInv
  <2>3. ~faulted
    BY <2>1, <2>2 DEF IInv, ClientInv, SharedTypes, Bundles
  <2>4. view.end <= client.bytes
    BY <2>1, <2>2 DEF IInv, FrameInv, Inside, SharedTypes, Bundles
  <2>5. view.sized => view.arrayEnd <= client.bytes
    BY <2>1, <2>2, <2>4 DEF IInv, FrameInv, Inside, SharedTypes, Bundles
  <2>6. QED
    BY <2>3, <2>4, <2>5
<1>2. QED
  BY <1>1, Invariance, PTL

\* Every handshake hands out the pool as it is at that moment, never the buffers
\* of a generation that a retire has closed.
THEOREM HandshakesStayCurrent == Spec => HandshakesAreCurrent
PROOF
<1>1. IInv /\ [Next]_vars =>
        [client' # client => client'.gen = pool.gen /\ client'.bytes = pool.bytes]_vars
  BY StepInv DEF Current
<1>2. QED
  BY <1>1, Invariance, PTL DEF Spec, HandshakesAreCurrent
=============================================================================
