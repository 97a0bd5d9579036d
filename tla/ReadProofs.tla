----------------------------- MODULE ReadProofs -----------------------------
(* The reads of the API and of the web application, each for any values of    *)
(* its constants: an inductive invariant per part, kept by every step, from   *)
(* which what a reader is promised follows. ServicesProofs composes them.     *)
EXTENDS CachedReads, ResponseCompression, AccountReads, PagedReads, CandleChart,
        FiniteSetTheorems, WellFoundedInduction, TLAPS

-----------------------------------------------------------------------------
(* Numbers and sequences *)

\* A set of naturals that has one has a least one,
LEMMA LeastNatural ==
    ASSUME NEW S, S \subseteq Nat, S # {}
    PROVE  \E n \in S : \A m \in S : n <= m
<1> DEFINE R == OpToRel(<, Nat)
<1>1. PICK n \in S : \A m \in S : ~ <<m, n>> \in R
  <2> HIDE DEF R
  <2>1. IsWellFoundedOn(R, Nat)
    BY NatLessThanWellFounded, Zenon DEF R
  <2> QED BY <2>1, WFMin, Zenon
<1>2. \A m \in S : ~ m < n
  BY <1>1, Zenon DEF OpToRel
<1> QED BY <1>2

\* and a largest one if they are bounded.
LEMMA LargestNatural ==
    ASSUME NEW n \in Nat, NEW S, S \subseteq 0 .. n, S # {}
    PROVE  \E m \in S : \A k \in S : m >= k
<1> DEFINE T == {n - s : s \in S}
<1>0. PICK e \in S : TRUE
  OBVIOUS
<1>1. T \subseteq Nat /\ n - e \in T
  OBVIOUS
<1>2. PICK t \in T : \A u \in T : t <= u
  BY <1>1, LeastNatural
<1>3. PICK m \in S : t = n - m
  OBVIOUS
<1>4. ASSUME NEW k \in S PROVE m >= k
  <2>1. n - m <= n - k
    BY <1>2, <1>3
  <2>2. m \in Nat /\ k \in Nat
    OBVIOUS
  <2> QED BY <2>1, <2>2
<1> QED BY <1>4

\* A set of numbers that has zero and the successor of each of its members has
\* them all.
LEMMA Climb ==
    ASSUME NEW S, 0 \in S, \A n \in S \cap Nat : n + 1 \in S
    PROVE  Nat \subseteq S
<1> SUFFICES ASSUME Nat \ S # {} PROVE FALSE
  OBVIOUS
<1>1. PICK e \in Nat \ S : \A f \in Nat \ S : e <= f
  BY LeastNatural
<1>2. e \in Nat /\ e # 0 /\ e - 1 \in Nat /\ ~(e <= e - 1) /\ (e - 1) + 1 = e
  BY <1>1
<1>3. e - 1 \in S
  BY <1>1, <1>2
<1> QED BY <1>1, <1>2, <1>3

\* The recursion of FlattenSeq.
Flattens(f, seqs, n) == f = [i \in 1 .. n |-> IF i = 1 THEN seqs[i] ELSE f[i - 1] \o seqs[i]]

\* It has a value for any number of parts, by climbing along that number,
LEMMA FlattenExists ==
    ASSUME NEW seqs, NEW n \in Nat
    PROVE  \E f : Flattens(f, seqs, n)
<1> DEFINE ValueAt(f, i) == IF i = 1 THEN seqs[i] ELSE f[i - 1] \o seqs[i]
           Good == {m \in Nat : \E f : f = [i \in 1 .. m |-> ValueAt(f, i)]}
<1>1. 0 \in Good
  <2> DEFINE f == [i \in 1 .. 0 |-> 0]
  <2>1. f = [i \in 1 .. 0 |-> ValueAt(f, i)]
    <3>1. \A i \in 1 .. 0 : FALSE
      OBVIOUS
    <3> HIDE DEF ValueAt
    <3> QED BY <3>1
  <2> HIDE DEF f, ValueAt
  <2> QED BY <2>1
<1>2. ASSUME NEW m \in Good \cap Nat PROVE m + 1 \in Good
  <2>1. PICK f : f = [i \in 1 .. m |-> ValueAt(f, i)]
    OBVIOUS
  <2> DEFINE h == [i \in 1 .. m + 1 |-> ValueAt(f, i)]
  <2>2. \A i \in 1 .. m : h[i] = f[i]
    <3>1. \A i \in 1 .. m : i \in 1 .. m + 1
      OBVIOUS
    <3> HIDE DEF ValueAt
    <3> QED BY <2>1, <3>1
  <2>3. ASSUME NEW i \in 1 .. m + 1 PROVE ValueAt(f, i) = ValueAt(h, i)
    <3>1. CASE i = 1
      BY <3>1
    <3>2. CASE i # 1
      <4>1. i - 1 \in 1 .. m
        BY <3>2
      <4> HIDE DEF h
      <4> QED BY <2>2, <4>1
    <3> QED BY <3>1, <3>2
  <2>4. h = [i \in 1 .. m + 1 |-> ValueAt(h, i)]
    <3> DEFINE g == h
    <3>1. g = [i \in 1 .. m + 1 |-> ValueAt(f, i)] /\ \A i \in 1 .. m + 1 : ValueAt(f, i) = ValueAt(g, i)
      BY <2>3
    <3> HIDE DEF g, ValueAt
    <3>2. g = [i \in 1 .. m + 1 |-> ValueAt(g, i)]
      BY <3>1
    <3> QED BY <3>2 DEF g
  <2> HIDE DEF h, ValueAt
  <2> QED BY <2>4
<1>3. Nat \subseteq Good
  <2> HIDE DEF Good
  <2> QED BY <1>1, <1>2, Climb
<1>4. PICK f : f = [i \in 1 .. n |-> ValueAt(f, i)]
  BY <1>3
<1> QED BY <1>4, Zenon DEF Flattens

\* and FlattenSeq takes its last.
LEMMA FlattenSeqFlattens ==
    ASSUME NEW seqs, NEW n \in Nat \ {0}, Len(seqs) = n
    PROVE  \E f : Flattens(f, seqs, n) /\ FlattenSeq(seqs) = f[n]
<1> DEFINE flatten == CHOOSE f : Flattens(f, seqs, n)
<1>1. FlattenSeq(seqs) = flatten[n]
  <2>1. Len(seqs) # 0
    OBVIOUS
  <2> QED BY <2>1, Zenon DEF FlattenSeq, Flattens
<1>2. Flattens(flatten, seqs, n)
  <2>1. n \in Nat
    OBVIOUS
  <2> QED BY <2>1, FlattenExists, Zenon
<1> QED BY <1>1, <1>2

\* A concatenation, by its elements.
LEMMA CatElements ==
    ASSUME NEW T, NEW a \in Seq(T), NEW b \in Seq(T)
    PROVE  /\ a \o b \in Seq(T) /\ Len(a \o b) = Len(a) + Len(b) /\ Len(a) \in Nat /\ Len(b) \in Nat
           /\ \A i \in 1..Len(a) : (a \o b)[i] = a[i]
           /\ \A i \in 1..Len(b) : (a \o b)[Len(a) + i] = b[i]
  OBVIOUS

\* Two sequences that agree at every place are one.
LEMMA SameSeq ==
    ASSUME NEW T, NEW a \in Seq(T), NEW b \in Seq(T), Len(a) = Len(b), \A i \in 1..Len(a) : a[i] = b[i]
    PROVE  a = b
  OBVIOUS

\* Concatenation is associative.
LEMMA CatAssoc ==
    ASSUME NEW T, NEW a \in Seq(T), NEW b \in Seq(T), NEW c \in Seq(T)
    PROVE  (a \o b) \o c = a \o (b \o c)
  <1> DEFINE l == (a \o b) \o c  r == a \o (b \o c)
  <1>1. /\ a \o b \in Seq(T) /\ b \o c \in Seq(T) /\ Len(a \o b) = Len(a) + Len(b)
        /\ Len(b \o c) = Len(b) + Len(c) /\ Len(a) \in Nat /\ Len(b) \in Nat /\ Len(c) \in Nat
    BY CatElements
  <1>2. /\ l \in Seq(T) /\ r \in Seq(T) /\ Len(l) = Len(a) + Len(b) + Len(c) /\ Len(r) = Len(l)
    BY <1>1, CatElements
  <1>3. ASSUME NEW i \in 1..Len(a) PROVE l[i] = r[i]
    <2>1. r[i] = a[i] /\ (a \o b)[i] = a[i]
      BY <1>1, CatElements
    <2>2. i \in 1..Len(a \o b)
      BY <1>1
    <2>3. l[i] = (a \o b)[i]
      BY <1>1, <2>2, CatElements
    <2> QED BY <2>1, <2>3
  <1>4. ASSUME NEW i \in 1..Len(b) PROVE l[Len(a) + i] = r[Len(a) + i]
    <2>1. Len(a) + i \in 1..Len(a \o b) /\ i \in 1..Len(b \o c)
      BY <1>1
    <2>2. l[Len(a) + i] = (a \o b)[Len(a) + i]
      BY <1>1, <2>1, CatElements
    <2>3. r[Len(a) + i] = (b \o c)[i]
      BY <1>1, <2>1, CatElements
    <2> QED BY <2>2, <2>3, CatElements
  <1>5. ASSUME NEW i \in 1..Len(c) PROVE l[Len(a) + (Len(b) + i)] = r[Len(a) + (Len(b) + i)]
    <2>1. Len(b) + i \in 1..Len(b \o c) /\ Len(a) + (Len(b) + i) = Len(a \o b) + i
      BY <1>1
    <2>2. l[Len(a \o b) + i] = c[i]
      BY <1>1, CatElements
    <2>3. r[Len(a) + (Len(b) + i)] = (b \o c)[Len(b) + i]
      BY <1>1, <2>1, CatElements
    <2>4. (b \o c)[Len(b) + i] = c[i]
      BY CatElements
    <2> QED BY <2>1, <2>2, <2>3, <2>4
  <1> HIDE DEF l, r
  <1>6. ASSUME NEW j \in 1..Len(l) PROVE l[j] = r[j]
    <2>1. CASE j <= Len(a)
      BY <1>1, <1>3, <2>1
    <2>2. CASE j > Len(a) /\ j <= Len(a) + Len(b)
      <3>1. j - Len(a) \in 1..Len(b) /\ Len(a) + (j - Len(a)) = j
        BY <1>1, <2>2
      <3> QED BY <1>4, <3>1
    <2>3. CASE j > Len(a) + Len(b)
      <3>1. j - Len(a) - Len(b) \in 1..Len(c) /\ Len(a) + (Len(b) + (j - Len(a) - Len(b))) = j
        BY <1>1, <1>2, <2>3
      <3> QED BY <1>5, <3>1
    <2> QED BY <1>1, <1>2, <2>1, <2>2, <2>3
  <1>7. l = r
    BY <1>2, <1>6, SameSeq
  <1> QED BY <1>7 DEF l, r

\* More places than elements cannot be filled one to one.
LEMMA Crowded ==
    ASSUME NEW n \in Nat, NEW S, IsFiniteSet(S), NEW f, \A i \in 1..n : f[i] \in S,
           \A i, j \in 1..n : f[i] = f[j] => i = j
    PROVE  n <= Cardinality(S)
  <1> DEFINE g == [i \in 1..n |-> f[i]]
  <1>1. g \in Injection(1..n, S)
    BY DEF Injection, IsInjective
  <1> HIDE DEF g
  <1>2. Cardinality(1..n) <= Cardinality(S)
    BY <1>1, FS_Injection
  <1>3. Cardinality(1..n) = n
    BY FS_Interval
  <1> QED BY <1>2, <1>3

\* One to one into as many is onto.
LEMMA Filled ==
    ASSUME NEW S, NEW T, IsFiniteSet(S), IsFiniteSet(T), Cardinality(S) = Cardinality(T), NEW f \in [S -> T],
           \A i, j \in S : f[i] = f[j] => i = j
    PROVE  \A x \in T : \E i \in S : f[i] = x
  <1>1. f \in Injection(S, T)
    BY DEF Injection, IsInjective
  <1>2. f \in Surjection(S, T)
    BY <1>1, FS_Injection
  <1> QED BY <1>2 DEF Surjection

\* The rows of a set in some order.
LEMMA InOrder ==
    ASSUME NEW S, IsFiniteSet(S), NEW s \in SetToSeqs(S)
    PROVE  /\ s \in Seq(S) /\ Len(s) = Cardinality(S) /\ Len(s) \in Nat /\ DOMAIN s = 1..Len(s)
           /\ \A i \in 1..Len(s) : s[i] \in S
           /\ \A i, j \in 1..Len(s) : s[i] = s[j] => i = j
           /\ \A x \in S : \E i \in 1..Len(s) : s[i] = x
  <1> DEFINE n == Cardinality(S)
  <1>1. n \in Nat
    BY FS_CardinalityType
  <1>2. s \in [1..n -> S] /\ \A i, j \in 1..n : i # j => s[i] # s[j]
    BY DEF SetToSeqs
  <1> HIDE DEF n
  <1>3. s \in Seq(S) /\ Len(s) = n
    BY <1>1, <1>2
  <1>4. IsFiniteSet(1..n) /\ Cardinality(1..n) = n
    BY <1>1, FS_Interval
  <1>5. \A x \in S : \E i \in 1..n : s[i] = x
    <2> DEFINE D == 1..n
    <2>1. /\ IsFiniteSet(D) /\ Cardinality(D) = Cardinality(S) /\ s \in [D -> S]
          /\ \A i, j \in D : s[i] = s[j] => i = j
      BY <1>2, <1>4 DEF n
    <2> HIDE DEF D
    <2>2. \A x \in S : \E i \in D : s[i] = x
      BY <2>1, Filled
    <2> QED BY <2>2 DEF D
  <1> QED BY <1>1, <1>2, <1>3, <1>5 DEF n

\* A strict order of a finite set puts each element behind those before it.
LEMMA OrderExists ==
    ASSUME NEW S, IsFiniteSet(S), NEW R,
           \A x \in S : <<x, x>> \notin R,
           \A x, y \in S : x # y => <<x, y>> \in R \/ <<y, x>> \in R,
           \A x, y, z \in S : <<x, y>> \in R /\ <<y, z>> \in R => <<x, z>> \in R
    PROVE  \E s \in SetToSeqs(S) : \A i, j \in DOMAIN s : i < j => <<s[i], s[j]>> \in R
  <1> DEFINE n == Cardinality(S)
             Nearer(x) == {y \in S : <<y, x>> \in R}
             place == [x \in S |-> Cardinality(Nearer(x)) + 1]
  <1>1. n \in Nat /\ IsFiniteSet(1..n) /\ Cardinality(1..n) = n
    BY FS_CardinalityType, FS_Interval
  <1>2. \A x \in S : IsFiniteSet(Nearer(x)) /\ Cardinality(Nearer(x)) \in Nat
    BY FS_Subset, FS_CardinalityType
  <1>3. ASSUME NEW x \in S PROVE place[x] \in 1..n
    <2>1. Nearer(x) \in SUBSET S /\ Nearer(x) # S
      OBVIOUS
    <2>2. Cardinality(Nearer(x)) <= n /\ Cardinality(Nearer(x)) # n
      <3> HIDE DEF Nearer
      <3> QED BY <2>1, FS_Subset
    <2>3. Cardinality(Nearer(x)) \in Nat
      BY <1>2
    <2> HIDE DEF Nearer
    <2>4. Cardinality(Nearer(x)) + 1 \in 1..n
      BY <1>1, <2>2, <2>3
    <2> QED BY <2>4
  <1>4. ASSUME NEW x \in S, NEW y \in S, <<x, y>> \in R PROVE place[x] < place[y]
    <2>1. Nearer(x) \in SUBSET Nearer(y) /\ x \in Nearer(y) /\ x \notin Nearer(x)
      BY <1>4
    <2>2. Cardinality(Nearer(x)) <= Cardinality(Nearer(y)) /\ Cardinality(Nearer(x)) # Cardinality(Nearer(y))
      <3>1. IsFiniteSet(Nearer(y))
        BY <1>2
      <3> HIDE DEF Nearer
      <3> QED BY <2>1, <3>1, FS_Subset
    <2>3. Cardinality(Nearer(x)) \in Nat /\ Cardinality(Nearer(y)) \in Nat
      BY <1>2
    <2> HIDE DEF Nearer
    <2>4. Cardinality(Nearer(x)) + 1 < Cardinality(Nearer(y)) + 1
      BY <2>2, <2>3
    <2> QED BY <2>4
  <1>5. place \in [S -> 1..n]
    BY <1>3
  <1> HIDE DEF place
  <1>6. \A x, y \in S : place[x] = place[y] => x = y
    <2> SUFFICES ASSUME NEW x \in S, NEW y \in S, x # y PROVE place[x] # place[y]
      OBVIOUS
    <2>1. place[x] < place[y] \/ place[y] < place[x]
      BY <1>4
    <2>2. place[x] \in Int /\ place[y] \in Int
      BY <1>5
    <2> QED BY <2>1, <2>2
  <1>7. \A k \in 1..n : \E x \in S : place[x] = k
    <2> DEFINE D == 1..n
    <2>1. IsFiniteSet(D) /\ Cardinality(S) = Cardinality(D) /\ place \in [S -> D]
      BY <1>1, <1>5
    <2> HIDE DEF D
    <2>2. \A k \in D : \E x \in S : place[x] = k
      BY <1>6, <2>1, Filled
    <2> QED BY <2>2 DEF D
  <1> DEFINE s == [k \in 1..n |-> CHOOSE x \in S : place[x] = k]
  <1>8. \A k \in 1..n : s[k] \in S /\ place[s[k]] = k
    BY <1>7
  <1>9. DOMAIN s = 1..n /\ s \in [1..n -> S]
    BY <1>8
  <1> HIDE DEF s
  <1>10. \A i, j \in 1..n : i # j => s[i] # s[j]
    BY <1>8
  <1>11. s \in SetToSeqs(S)
    BY <1>9, <1>10 DEF SetToSeqs
  <1>12. ASSUME NEW i \in 1..n, NEW j \in 1..n, i < j PROVE <<s[i], s[j]>> \in R
    <2>1. s[i] # s[j] /\ s[i] \in S /\ s[j] \in S /\ place[s[i]] = i /\ place[s[j]] = j
      BY <1>8, <1>10, <1>12
    <2>2. ~(j < i)
      BY <1>1, <1>12
    <2>3. <<s[j], s[i]>> \notin R
      BY <1>4, <2>1, <2>2
    <2> QED BY <2>1, <2>3
  <1> QED BY <1>9, <1>11, <1>12

\* The first so many.
LEMMA FirstPart ==
    ASSUME NEW T, NEW s \in Seq(T), NEW n \in Nat
    PROVE  LET k == IF Len(s) < n THEN Len(s) ELSE n
           IN /\ SubSeq(s, 1, k) \in Seq(T) /\ Len(SubSeq(s, 1, k)) = k /\ k \in Nat /\ k <= Len(s) /\ k <= n
              /\ \A i \in 1..k : SubSeq(s, 1, k)[i] = s[i] /\ i \in 1..Len(s)
  OBVIOUS

\* A part, from anywhere to within the end.
LEMMA PartTyped ==
    ASSUME NEW T, NEW s \in Seq(T), NEW from \in Nat, from >= 1, NEW to \in Nat, to <= Len(s)
    PROVE  SubSeq(s, from, to) \in Seq(T)
  OBVIOUS

\* The rest behind the first so many.
LEMMA RestPart ==
    ASSUME NEW T, NEW s \in Seq(T), NEW n \in Nat
    PROVE  LET k == IF Len(s) < n THEN 0 ELSE Len(s) - n
           IN /\ SubSeq(s, n + 1, Len(s)) \in Seq(T) /\ Len(SubSeq(s, n + 1, Len(s))) = k
              /\ k \in Nat
              /\ \A i \in 1..k : SubSeq(s, n + 1, Len(s))[i] = s[n + i] /\ n + i \in 1..Len(s)
  OBVIOUS

\* One place is changed.
LEMMA PlaceChanged ==
    ASSUME NEW T, NEW s \in Seq(T), NEW i \in DOMAIN s, NEW x \in T, NEW q, q = [s EXCEPT ![i] = x]
    PROVE  /\ DOMAIN q = DOMAIN s /\ q \in Seq(T)
           /\ \A j \in DOMAIN s : q[j] = IF j = i THEN x ELSE s[j]
  OBVIOUS

\* A sequence, by its places.
LEMMA SeqElements ==
    ASSUME NEW T, NEW s \in Seq(T)
    PROVE  DOMAIN s = 1..Len(s) /\ Len(s) \in Nat /\ \A i \in DOMAIN s : s[i] \in T
  OBVIOUS

\* A series of a set is one of any larger set.
LEMMA SeqWider ==
    ASSUME NEW S, NEW T, S \subseteq T, NEW s \in Seq(S)
    PROVE  s \in Seq(T)
  <1>1. DOMAIN s = 1..Len(s) /\ Len(s) \in Nat /\ \A i \in 1..Len(s) : s[i] \in T
    OBVIOUS
  <1>2. s = [i \in 1..Len(s) |-> s[i]]
    OBVIOUS
  <1> QED BY <1>1, <1>2

\* A series and one more.
LEMMA FlattenAppend ==
    ASSUME NEW T, NEW seqs \in Seq(Seq(T)), NEW x \in Seq(T)
    PROVE  /\ FlattenSeq(seqs) \in Seq(T)
           /\ FlattenSeq(Append(seqs, x)) = FlattenSeq(seqs) \o x
<1> DEFINE n == Len(seqs)  more == Append(seqs, x)
<1>0. n \in Nat /\ Len(more) = n + 1 /\ more[n + 1] = x /\ \A i \in 1..n : more[i] = seqs[i] /\ seqs[i] \in Seq(T)
  OBVIOUS
<1>1. PICK g : Flattens(g, more, n + 1) /\ FlattenSeq(more) = g[n + 1]
  <2> HIDE DEF more, n
  <2> QED BY <1>0, FlattenSeqFlattens
<1>2. g = [i \in 1 .. n + 1 |-> IF i = 1 THEN more[i] ELSE g[i - 1] \o more[i]]
  BY <1>1 DEF Flattens
<1> HIDE DEF more
<1>3. CASE n = 0
  <2>1. seqs = <<>>
    BY <1>3
  <2>2. FlattenSeq(seqs) = seqs
    BY <1>3, Zenon DEF FlattenSeq
  <2>3. g[1] = x
    BY <1>0, <1>2, <1>3
  <2>4. <<>> \o x = x /\ <<>> \in Seq(T)
    OBVIOUS
  <2>5. FlattenSeq(Append(seqs, x)) = x
    BY <1>1, <1>3, <2>3 DEF more
  <2>6. FlattenSeq(seqs) = <<>>
    BY <2>1, <2>2
  <2> QED BY <2>4, <2>5, <2>6
<1>4. CASE n # 0
  <2>1. PICK f : Flattens(f, seqs, n) /\ FlattenSeq(seqs) = f[n]
    <3> HIDE DEF n
    <3>1. n \in Nat \ {0}
      BY <1>0, <1>4
    <3> QED BY <3>1, FlattenSeqFlattens DEF n
  <2>2. f = [i \in 1 .. n |-> IF i = 1 THEN seqs[i] ELSE f[i - 1] \o seqs[i]]
    BY <2>1 DEF Flattens
  <2> HIDE DEF n
  <2> DEFINE Good == {k \in Nat : k + 1 <= n => f[k + 1] = g[k + 1] /\ f[k + 1] \in Seq(T)}
  <2>3. 0 \in Good
    BY <1>0, <1>2, <2>2
  <2>4. ASSUME NEW k \in Good \cap Nat PROVE k + 1 \in Good
    <3> SUFFICES ASSUME k + 2 <= n PROVE f[k + 2] = g[k + 2] /\ f[k + 2] \in Seq(T)
      OBVIOUS
    <3>1. f[k + 1] = g[k + 1] /\ f[k + 1] \in Seq(T)
      BY <1>0
    <3> DEFINE j == k + 2
    <3>0. j \in 1..n /\ j \in 1..n + 1 /\ j # 1 /\ j - 1 = k + 1
      BY <1>0
    <3> HIDE DEF j
    <3>2. f[j] = f[j - 1] \o seqs[j]
      BY <2>2, <3>0
    <3>3. g[j] = g[j - 1] \o more[j]
      BY <1>2, <3>0
    <3>4. more[j] = seqs[j] /\ seqs[j] \in Seq(T)
      BY <1>0, <3>0
    <3>5. f[j - 1] = g[j - 1] /\ f[j - 1] \in Seq(T)
      BY <3>0, <3>1
    <3>6. f[j - 1] \o seqs[j] \in Seq(T)
      BY <3>4, <3>5
    <3>7. f[j] = g[j] /\ f[j] \in Seq(T)
      BY <3>2, <3>3, <3>4, <3>5, <3>6
    <3> QED BY <3>7 DEF j
  <2>5. Nat \subseteq Good
    <3> HIDE DEF Good
    <3> QED BY <2>3, <2>4, Climb
  <2>6. n - 1 \in Nat /\ (n - 1) + 1 = n
    BY <1>0, <1>4
  <2>7. f[n] = g[n] /\ f[n] \in Seq(T)
    BY <2>5, <2>6
  <2>8. g[n + 1] = g[n] \o x
    <3> DEFINE j == n + 1
    <3>1. j \in 1..n + 1 /\ j # 1 /\ j - 1 = n
      BY <1>0, <1>4
    <3> HIDE DEF j
    <3>2. g[j] = g[j - 1] \o more[j]
      BY <1>2, <3>1
    <3> QED BY <1>0, <3>1, <3>2 DEF j
  <2> QED BY <1>0, <1>1, <2>1, <2>7, <2>8 DEF more
<1> QED BY <1>3, <1>4

-----------------------------------------------------------------------------
(* CachedReads: a pool's detail. Deletions overtake loads, and locks end or  *)
(* are released by others; what a request has got is compared with the oldest *)
(* version it may answer.                                                     *)

DetailPcs == {"idle", "lock", "find", "fill", "release", "fail", "wait", "again", "direct",
              "served", "failed"}
DetailRequests == [pc : DetailPcs, got : Missing..MaxRecord, floor : 0..MaxRecord,
                   overtaken : BOOLEAN]

\* What a request's state says of the row: it is not asked for less than there is; who
\* loaded the row and has not filled the entry yet knows of every deletion since, and
\* nobody loads a row that is older than when the request began.
RequestSound(q, oldest, deleted) ==
    /\ q.floor <= oldest
    /\ q.pc = "fill" => q.got >= 1 /\ (q.got >= deleted \/ q.overtaken)
    /\ q.pc \in {"fill", "release"} => q.got >= q.floor
    /\ q.pc = "served" => q.got >= q.floor \/ (q.overtaken /\ q.got > 0)

\* The entry is of the row's last deletion or later, unless a load put it back.
EntrySound ==
    /\ settled <= record
    /\ entry # Missing => entry >= 1 /\ (entry >= settled \/ putBack)

CurrentInv == EntrySound /\ \A r \in Readers : RequestSound(reader[r], Oldest, settled)

\* Every request that loads holds the lock, or was let in by its end or by an outage.
Loads(q) == q.pc \in {"find", "fill", "release", "fail"}
Loading == {r \in Readers : Loads(reader[r])}

LoadInv ==
    /\ IsFiniteSet(Loading)
    /\ Cardinality(Loading) <= (IF lock THEN 1 ELSE 0) + expiries + blind

\* What the detail's requests leave as it is.
Aside == UNCHANGED <<fetchVars, takeVars>>

\* CacheTypeOK without its sets of values.
LEMMA CacheTyped ==
    CacheTypeOK <=>
        /\ record \in 0..MaxRecord /\ settled \in 0..MaxRecord /\ entry \in Missing..MaxRecord
        /\ lock \in BOOLEAN /\ available \in BOOLEAN /\ putBack \in BOOLEAN
        /\ dropping \subseteq {"stream", "liquidity"}
        /\ blind \in Nat /\ expiries \in Nat /\ losses \in Nat
        /\ reader \in [Readers -> DetailRequests]
        /\ fetch \in [Fetches -> [pc : {"idle", "get", "missed", "fetch", "set", "joined", "value",
                                        "CacheError", "error"}, guarded : BOOLEAN]]
        /\ inflight \in Fetches \cup {NoFetch} /\ threw \subseteq Fetches
        /\ bucket \in [count : Nat, granted : Nat, ticking : BOOLEAN]
        /\ taken \in [Takers -> {"none", "allowed", "limited", "open", "unavailable"}]
  <1>1. {lock, available, putBack} \subseteq BOOLEAN
          <=> lock \in BOOLEAN /\ available \in BOOLEAN /\ putBack \in BOOLEAN
    OBVIOUS
  <1>2. {blind, expiries, losses} \subseteq Nat <=> blind \in Nat /\ expiries \in Nat /\ losses \in Nat
    OBVIOUS
  <1> QED BY <1>1, <1>2 DEF CacheTypeOK, DetailRequests, DetailPcs

\* A command that fails is counted.
LEMMA LossesTyped ==
    ASSUME losses \in Nat, Reaches \/ Fails
    PROVE  losses' \in Nat
  BY DEF Reaches, Fails

\* One request goes on, the others stay.
LEMMA RequestMoves ==
    ASSUME reader \in [Readers -> DetailRequests], NEW r \in Readers, NEW q \in DetailRequests,
           Step(r, q)
    PROVE  /\ reader' \in [Readers -> DetailRequests]
           /\ reader'[r] = q
           /\ \A o \in Readers : o # r => reader'[o] = reader[o]
  BY DEF Step

\* What is loaded when one request goes on.
LEMMA LoadMoves ==
    ASSUME reader \in [Readers -> DetailRequests], NEW r \in Readers, NEW q \in DetailRequests,
           Step(r, q), IsFiniteSet(Loading)
    PROVE  /\ IsFiniteSet(Loading') /\ Cardinality(Loading') \in Nat /\ Cardinality(Loading) \in Nat
           /\ Cardinality(Loading') <= Cardinality(Loading) + (IF Loads(q) THEN 1 ELSE 0)
           /\ Loads(reader[r]) /\ ~Loads(q) => Cardinality(Loading') = Cardinality(Loading) - 1
           /\ Loads(reader[r]) => Cardinality(Loading') <= Cardinality(Loading)
  <1>1. Loading' = IF Loads(q) THEN Loading \cup {r} ELSE Loading \ {r}
    BY RequestMoves DEF Loading, Loads
  <1>2. Loads(reader[r]) <=> r \in Loading
    BY DEF Loading
  <1>3. /\ IsFiniteSet(Loading \cup {r})
        /\ Cardinality(Loading \cup {r}) = IF r \in Loading THEN Cardinality(Loading) ELSE Cardinality(Loading) + 1
    BY FS_AddElement
  <1>4. /\ IsFiniteSet(Loading \ {r})
        /\ Cardinality(Loading \ {r}) = IF r \in Loading THEN Cardinality(Loading) - 1 ELSE Cardinality(Loading)
    BY FS_RemoveElement
  <1>5. Cardinality(Loading) \in Nat /\ Cardinality(Loading \ {r}) \in Nat
    BY <1>4, FS_CardinalityType
  <1> QED BY <1>1, <1>2, <1>3, <1>4, <1>5

\* The version asked for can only grow.
LEMMA OldestGrows ==
    ASSUME record \in 0..MaxRecord, settled \in 0..MaxRecord, settled <= record,
           record' \in 0..MaxRecord, record' >= record, settled' \in {settled, record}
    PROVE  /\ Oldest \in 0..MaxRecord /\ Oldest <= Oldest' /\ Oldest <= record
           /\ settled <= Oldest /\ (record > 0 => Oldest >= 1)
  BY CacheAssumption DEF Oldest

\* What a request may answer it may still answer when more is asked of others.
LEMMA SoundLater ==
    ASSUME NEW q \in DetailRequests, NEW o \in Nat, NEW p \in Nat, o <= p, NEW d \in Nat,
           RequestSound(q, o, d)
    PROVE  RequestSound(q, p, d)
  BY CacheAssumption DEF RequestSound, DetailRequests, Missing

\* Nobody's request changes: so little is to be shown of the rest.
LEMMA RequestsStay ==
    ASSUME CacheTypeOK, CurrentInv, LoadInv, UNCHANGED <<reader, settled>>,
           record' \in 0..MaxRecord, record' >= record,
           \/ lock' = lock /\ expiries' = expiries /\ blind' = blind
           \/ /\ expiries' = expiries + 1 /\ blind' = blind /\ lock' \in BOOLEAN
           \/ /\ expiries' = expiries /\ blind' = blind /\ lock' = TRUE
    PROVE  (\A r \in Readers : RequestSound(reader[r], Oldest, settled))' /\ LoadInv'
  <1>0. /\ record \in 0..MaxRecord /\ settled \in 0..MaxRecord /\ reader \in [Readers -> DetailRequests]
        /\ lock \in BOOLEAN /\ expiries \in Nat /\ blind \in Nat
    BY CacheTyped
  <1>1. Oldest \in Nat /\ Oldest' \in Nat /\ Oldest <= Oldest'
    BY <1>0, CacheAssumption, OldestGrows DEF CurrentInv, EntrySound, Oldest
  <1>2. (\A r \in Readers : RequestSound(reader[r], Oldest, settled))'
    <2>1. ASSUME NEW r \in Readers PROVE RequestSound(reader[r], Oldest', settled)
      <3>1. reader[r] \in DetailRequests /\ RequestSound(reader[r], Oldest, settled) /\ settled \in Nat
        BY <1>0, CacheAssumption DEF CurrentInv
      <3> QED BY <1>1, <3>1, SoundLater
    <2> QED BY <2>1
  <1>3. Loading' = Loading
    BY DEF Loading, Loads
  <1>4. Cardinality(Loading) \in Nat
    BY FS_CardinalityType DEF LoadInv
  <1>5. LoadInv'
    BY <1>0, <1>3, <1>4 DEF LoadInv
  <1> QED BY <1>2, <1>5

\* One request goes on, and the row's version and deletion stay.
LEMMA RequestKeeps ==
    ASSUME CacheTypeOK, CurrentInv, LoadInv, NEW r \in Readers, NEW q \in DetailRequests,
           Step(r, q), UNCHANGED <<record, settled, dropping, entry, putBack, available, expiries, fetchVars, takeVars>>,
           losses' \in Nat, lock' \in BOOLEAN, blind' \in Nat,
           RequestSound(q, Oldest, settled),
           \/ Loads(q) /\ ~lock /\ lock' /\ blind' = blind
           \/ Loads(q) /\ lock' = lock /\ blind' = blind + 1
           \/ (Loads(q) => Loads(reader[r])) /\ lock' = lock /\ blind' = blind
           \/ Loads(reader[r]) /\ ~Loads(q) /\ blind' = blind
    PROVE  CacheTypeOK' /\ CurrentInv' /\ LoadInv'
  <1>0. /\ reader \in [Readers -> DetailRequests] /\ lock \in BOOLEAN /\ expiries \in Nat /\ blind \in Nat
    BY CacheTyped
  <1>1. /\ reader' \in [Readers -> DetailRequests] /\ reader'[r] = q
        /\ \A o \in Readers : o # r => reader'[o] = reader[o]
    BY <1>0, RequestMoves
  <1>2. CacheTypeOK'
    <2>1. /\ record \in 0..MaxRecord /\ settled \in 0..MaxRecord /\ entry \in Missing..MaxRecord
          /\ available \in BOOLEAN /\ putBack \in BOOLEAN
          /\ dropping \subseteq {"stream", "liquidity"}
          /\ fetch \in [Fetches -> [pc : {"idle", "get", "missed", "fetch", "set", "joined", "value",
                                          "CacheError", "error"}, guarded : BOOLEAN]]
          /\ inflight \in Fetches \cup {NoFetch} /\ threw \subseteq Fetches
          /\ bucket \in [count : Nat, granted : Nat, ticking : BOOLEAN]
          /\ taken \in [Takers -> {"none", "allowed", "limited", "open", "unavailable"}]
      BY CacheTyped
    <2> QED BY <1>0, <1>1, <2>1 DEF CacheTypeOK, fetchVars, takeVars, DetailRequests, DetailPcs
  <1>3. CurrentInv'
    <2>1. EntrySound'
      BY DEF CurrentInv, EntrySound
    <2>2. Oldest' = Oldest
      BY DEF Oldest
    <2>3. \A o \in Readers : RequestSound(reader'[o], Oldest, settled)
      BY <1>1 DEF CurrentInv
    <2> QED BY <2>1, <2>2, <2>3 DEF CurrentInv
  <1>4. LoadInv'
    <2> DEFINE was == Cardinality(Loading)  now == Cardinality(Loading')
    <2>0. IsFiniteSet(Loading)
      BY DEF LoadInv
    <2>1. /\ IsFiniteSet(Loading') /\ now \in Nat /\ was \in Nat
          /\ now <= was + (IF Loads(q) THEN 1 ELSE 0)
          /\ Loads(reader[r]) /\ ~Loads(q) => now = was - 1
          /\ Loads(reader[r]) => now <= was
      BY <1>0, <2>0, LoadMoves
    <2>2. was <= (IF lock THEN 1 ELSE 0) + expiries + blind
      BY DEF LoadInv
    <2> HIDE DEF was, now
    <2>3. now <= (IF lock' THEN 1 ELSE 0) + expiries + blind'
      <3>1. CASE Loads(q) /\ ~lock /\ lock' /\ blind' = blind
        BY <1>0, <2>1, <2>2, <3>1
      <3>2. CASE Loads(q) /\ lock' = lock /\ blind' = blind + 1
        BY <1>0, <2>1, <2>2, <3>2
      <3>3. CASE (Loads(q) => Loads(reader[r])) /\ lock' = lock /\ blind' = blind
        BY <1>0, <2>1, <2>2, <3>3
      <3>4. CASE Loads(reader[r]) /\ ~Loads(q) /\ blind' = blind
        BY <1>0, <2>1, <2>2, <3>4
      <3> QED BY <3>1, <3>2, <3>3, <3>4
    <2>4. expiries' = expiries
      OBVIOUS
    <2> QED BY <2>1, <2>3, <2>4 DEF LoadInv, now
  <1> QED BY <1>2, <1>3, <1>4

\* CacheService.get: what the entry gives, the request may have.
LEMMA LookKeeps ==
    ASSUME CacheTypeOK, CurrentInv, LoadInv, NEW r \in Readers, NEW q \in DetailRequests,
           ~Loads(q), q.pc # "served", RequestSound(q, Oldest, settled), Look(r, q)
    PROVE  CacheTypeOK' /\ CurrentInv' /\ LoadInv'
  <1>0. /\ record \in 0..MaxRecord /\ settled \in 0..MaxRecord /\ entry \in Missing..MaxRecord
        /\ lock \in BOOLEAN /\ putBack \in BOOLEAN /\ losses \in Nat /\ blind \in Nat
    BY CacheTyped
  <1> DEFINE served == [q EXCEPT !.pc = "served", !.got = entry, !.overtaken = putBack]
  <1>1. /\ UNCHANGED <<record, settled, dropping, entry, putBack, lock, blind, available, expiries, fetchVars, takeVars>>
        /\ Reaches \/ Fails
        /\ Step(r, q) \/ (entry # Missing /\ Step(r, served))
    BY DEF Look
  <1>2. losses' \in Nat
    BY <1>0, <1>1, LossesTyped
  <1>3. CASE Step(r, q)
    BY <1>0, <1>1, <1>2, <1>3, RequestKeeps
  <1>4. CASE entry # Missing /\ Step(r, served)
    <2>1. /\ served \in DetailRequests /\ served.pc = "served" /\ served.got = entry
          /\ served.overtaken = putBack /\ served.floor = q.floor
      BY <1>0 DEF DetailRequests, DetailPcs
    <2> HIDE DEF served
    <2>2. q.floor <= Oldest /\ entry >= 1 /\ (entry >= settled \/ putBack)
      BY <1>4 DEF RequestSound, CurrentInv, EntrySound
    <2>3. q.floor \in Nat /\ entry \in Nat
      BY <1>0, <2>2, CacheAssumption DEF DetailRequests, Missing
    <2>4. entry >= q.floor \/ (putBack /\ entry > 0)
      BY <1>0, <2>2, <2>3, CacheAssumption DEF Oldest
    <2>5. RequestSound(served, Oldest, settled)
      BY <2>1, <2>2, <2>4 DEF RequestSound
    <2>6. ~Loads(served)
      BY <2>1 DEF Loads
    <2> QED BY <1>0, <1>1, <1>2, <1>4, <2>1, <2>5, <2>6, RequestKeeps
  <1> QED BY <1>1, <1>3, <1>4

\* A step of a request keeps what the entry, the requests and the locks promise.
LEMMA ReaderStep ==
    ASSUME CacheTypeOK, CurrentInv, LoadInv, NEW r \in Readers,
           \/ GetPool(r) \/ Acquire(r) \/ Find(r) \/ Fill(r) \/ Release(r)
           \/ WaitEnds(r) \/ GetAgain(r) \/ FindDirect(r)
    PROVE  CacheTypeOK' /\ CurrentInv' /\ LoadInv'
  <1> DEFINE q == reader[r]
  <1>0. /\ record \in 0..MaxRecord /\ settled \in 0..MaxRecord /\ entry \in Missing..MaxRecord
        /\ lock \in BOOLEAN /\ putBack \in BOOLEAN /\ losses \in Nat /\ blind \in Nat
        /\ q \in DetailRequests /\ settled <= record /\ RequestSound(q, Oldest, settled)
    BY CacheTyped DEF CurrentInv, EntrySound
  <1>a. Oldest \in 0..MaxRecord /\ Oldest <= record
    BY <1>0, CacheAssumption DEF Oldest
  <1>b. \A n \in 0..MaxRecord : n \in Missing..MaxRecord
    BY CacheAssumption DEF Missing
  <1>1. CASE GetPool(r)
    <2> DEFINE p == [q EXCEPT !.pc = "lock", !.floor = Oldest]
    <2>1. p \in DetailRequests /\ p.pc = "lock" /\ p.floor = Oldest
      BY <1>0, <1>a DEF DetailRequests, DetailPcs
    <2>2. Look(r, p)
      BY <1>1 DEF GetPool
    <2> HIDE DEF p
    <2>3. RequestSound(p, Oldest, settled) /\ ~Loads(p)
      BY <1>a, <2>1, CacheAssumption DEF RequestSound, Loads
    <2> QED BY <2>1, <2>2, <2>3, LookKeeps
  <1>2. CASE GetAgain(r)
    <2> DEFINE p == [q EXCEPT !.pc = "direct"]
    <2>1. p \in DetailRequests /\ p.pc = "direct" /\ p.floor = q.floor
      BY <1>0 DEF DetailRequests, DetailPcs
    <2>2. Look(r, p)
      BY <1>2 DEF GetAgain
    <2> HIDE DEF p
    <2>3. RequestSound(p, Oldest, settled) /\ ~Loads(p)
      BY <1>0, <2>1 DEF RequestSound, Loads
    <2> QED BY <2>1, <2>2, <2>3, LookKeeps
  \* Only what the request is at changes, and no row is read.
  <1>3. ASSUME NEW pc \in DetailPcs \ {"fill", "release", "served"}
        PROVE  LET p == [q EXCEPT !.pc = pc]
               IN p \in DetailRequests /\ p.pc = pc /\ RequestSound(p, Oldest, settled)
    <2> DEFINE p == [q EXCEPT !.pc = pc]
    <2>1. p \in DetailRequests /\ p.pc = pc /\ p.floor = q.floor
      BY <1>0 DEF DetailRequests
    <2> HIDE DEF p
    <2>2. RequestSound(p, Oldest, settled)
      BY <1>0, <2>1 DEF RequestSound
    <2> QED BY <2>1, <2>2 DEF p
  <1>4. CASE Acquire(r)
    <2> DEFINE find == [q EXCEPT !.pc = "find"]  refused == [q EXCEPT !.pc = "wait"]
    <2>1. /\ find \in DetailRequests /\ Loads(find) /\ RequestSound(find, Oldest, settled)
          /\ refused \in DetailRequests /\ ~Loads(refused) /\ RequestSound(refused, Oldest, settled)
      BY <1>3 DEF DetailPcs, Loads
    <2>2. /\ UNCHANGED <<record, dropping, settled, putBack, entry, available, expiries, fetchVars, takeVars>>
          /\ Reaches \/ Fails
          /\ \/ lock' = TRUE /\ lock /\ Step(r, refused) /\ blind' = blind
             \/ lock' = TRUE /\ ~lock /\ Step(r, find) /\ blind' = blind
             \/ lock' = lock /\ Step(r, find) /\ blind' = blind + 1
      BY <1>4 DEF Acquire, Refused
    <2>3. losses' \in Nat
      BY <1>0, <2>2, LossesTyped
    <2> HIDE DEF find, refused
    <2>4. lock' \in BOOLEAN /\ blind' \in Nat
      <3>1. lock' = TRUE \/ lock' = lock
        BY <2>2
      <3>2. blind' = blind \/ blind' = blind + 1
        BY <2>2
      <3>3. blind' \in Nat
        BY <1>0, <3>2
      <3> QED BY <1>0, <3>1, <3>3
    <2>5. CASE lock' = TRUE /\ lock /\ Step(r, refused) /\ blind' = blind
      BY <1>0, <2>1, <2>2, <2>3, <2>4, <2>5, RequestKeeps
    <2>6. CASE lock' = TRUE /\ ~lock /\ Step(r, find) /\ blind' = blind
      BY <1>0, <2>1, <2>2, <2>3, <2>4, <2>6, RequestKeeps
    <2>7. CASE lock' = lock /\ Step(r, find) /\ blind' = blind + 1
      BY <1>0, <2>1, <2>2, <2>3, <2>4, <2>7, RequestKeeps
    <2> QED BY <2>2, <2>5, <2>6, <2>7
  <1>5. CASE Find(r)
    <2>1. PICK next \in {IF record > 0 THEN "fill" ELSE "release", "fail"} :
             Step(r, [q EXCEPT !.pc = next, !.got = IF next = "fail" THEN Missing ELSE record])
      BY <1>5 DEF Find
    <2> DEFINE p == [q EXCEPT !.pc = next, !.got = IF next = "fail" THEN Missing ELSE record]
    <2>2. /\ p \in DetailRequests /\ p.pc = next /\ p.floor = q.floor
          /\ next # "fail" => p.got = record
      <3>1. record \in Missing..MaxRecord /\ Missing \in Missing..MaxRecord /\ next \in DetailPcs
        BY <1>0, <1>b, CacheAssumption DEF Missing, DetailPcs
      <3> QED BY <1>0, <3>1 DEF DetailRequests
    <2>3. Step(r, p)
      BY <2>1
    <2> HIDE DEF p
    <2>4. q.floor \in Nat /\ q.floor <= Oldest
      BY <1>0 DEF DetailRequests, RequestSound
    <2>5. RequestSound(p, Oldest, settled)
      BY <1>0, <1>a, <2>2, <2>4, CacheAssumption DEF RequestSound
    <2>6. Loads(p) /\ Loads(q)
      BY <1>5, <2>2 DEF Loads, Find
    <2>7. UNCHANGED <<record, lock, dropping, settled, putBack, blind, entry, available, expiries, losses,
                      fetchVars, takeVars>>
      BY <1>5 DEF Find
    <2> QED BY <1>0, <2>2, <2>3, <2>5, <2>6, <2>7, RequestKeeps
  <1>6. CASE Release(r)
    <2> DEFINE p == [q EXCEPT !.pc = IF @ = "fail" THEN "failed" ELSE "served"]
    <2>1. /\ p \in DetailRequests /\ p.pc = (IF q.pc = "fail" THEN "failed" ELSE "served")
          /\ p.floor = q.floor /\ p.got = q.got
      BY <1>0 DEF DetailRequests, DetailPcs
    <2>2. /\ Step(r, p) /\ q.pc \in {"release", "fail"}
          /\ Reaches \/ Fails
          /\ lock' = FALSE \/ lock' = lock
          /\ UNCHANGED <<record, dropping, settled, putBack, blind, entry, available, expiries,
                         fetchVars, takeVars>>
      BY <1>6 DEF Release
    <2> HIDE DEF p
    <2>3. RequestSound(p, Oldest, settled) /\ ~Loads(p) /\ Loads(q)
      BY <1>0, <2>1, <2>2 DEF RequestSound, Loads
    <2>4. losses' \in Nat /\ lock' \in BOOLEAN
      BY <1>0, <2>2, LossesTyped
    <2> QED BY <1>0, <2>1, <2>2, <2>3, <2>4, RequestKeeps
  <1>7. CASE WaitEnds(r)
    <2>1. PICK next \in {"again", "direct"} : Step(r, [q EXCEPT !.pc = next])
      BY <1>7 DEF WaitEnds
    <2> DEFINE p == [q EXCEPT !.pc = next]
    <2>2. p \in DetailRequests /\ p.pc = next /\ RequestSound(p, Oldest, settled)
      BY <1>3 DEF DetailPcs
    <2>3. Step(r, p)
      BY <2>1
    <2> HIDE DEF p
    <2>4. ~Loads(p)
      BY <2>2 DEF Loads
    <2>5. UNCHANGED <<record, lock, dropping, settled, putBack, blind, entry, available, expiries,
                      losses, fetchVars, takeVars>>
      BY <1>7 DEF WaitEnds
    <2> QED BY <1>0, <2>2, <2>3, <2>4, <2>5, RequestKeeps
  <1>8. CASE FindDirect(r)
    <2> DEFINE served == [q EXCEPT !.pc = "served", !.got = record]  fallen == [q EXCEPT !.pc = "failed"]
    <2>1. served \in DetailRequests /\ served.pc = "served" /\ served.got = record /\ served.floor = q.floor
      BY <1>0, <1>b DEF DetailRequests, DetailPcs
    <2>2. fallen \in DetailRequests /\ fallen.pc = "failed" /\ RequestSound(fallen, Oldest, settled)
      BY <1>3 DEF DetailPcs
    <2>3. Step(r, served) \/ Step(r, fallen)
      BY <1>8 DEF FindDirect
    <2> HIDE DEF served, fallen
    <2>4. q.floor \in Nat /\ q.floor <= Oldest
      BY <1>0 DEF DetailRequests, RequestSound
    <2>5. RequestSound(served, Oldest, settled)
      BY <1>0, <1>a, <2>1, <2>4, CacheAssumption DEF RequestSound
    <2>6. ~Loads(served) /\ ~Loads(fallen)
      BY <2>1, <2>2 DEF Loads
    <2>7. UNCHANGED <<record, lock, dropping, settled, putBack, blind, entry, available, expiries,
                      losses, fetchVars, takeVars>>
      BY <1>8 DEF FindDirect
    <2>8. CASE Step(r, served)
      BY <1>0, <2>1, <2>5, <2>6, <2>7, <2>8, RequestKeeps
    <2>9. CASE Step(r, fallen)
      BY <1>0, <2>2, <2>6, <2>7, <2>9, RequestKeeps
    <2> QED BY <2>3, <2>8, <2>9
  <1>9. CASE Fill(r)
    <2> DEFINE p == [q EXCEPT !.pc = "release", !.overtaken = FALSE]
    <2>1. /\ p \in DetailRequests /\ p.pc = "release" /\ p.floor = q.floor /\ p.got = q.got
      BY <1>0 DEF DetailRequests, DetailPcs
    <2>2. /\ Step(r, p) /\ q.pc = "fill"
          /\ \/ Reaches /\ entry' = q.got /\ putBack' = q.overtaken
             \/ Fails /\ entry' = entry /\ putBack' = putBack
          /\ UNCHANGED <<record, lock, dropping, settled, blind, available, expiries, fetchVars,
                         takeVars>>
      BY <1>9 DEF Fill
    <2> HIDE DEF p
    <2>3. /\ q.got \in Missing..MaxRecord /\ q.overtaken \in BOOLEAN /\ q.got >= 1
          /\ q.got >= settled \/ q.overtaken
      BY <1>0, <2>2 DEF DetailRequests, RequestSound
    <2>4. losses' \in Nat /\ entry' \in Missing..MaxRecord /\ putBack' \in BOOLEAN
      BY <1>0, <2>2, <2>3, LossesTyped
    <2>5. EntrySound'
      BY <1>0, <2>2, <2>3 DEF CurrentInv, EntrySound
    <2>6. RequestSound(p, Oldest, settled)
      BY <1>0, <2>1, <2>2 DEF RequestSound
    <2>7. /\ reader \in [Readers -> DetailRequests] /\ reader' \in [Readers -> DetailRequests] /\ reader'[r] = p
          /\ \A o \in Readers : o # r => reader'[o] = reader[o]
      BY <2>1, <2>2, CacheTyped, RequestMoves
    <2>8. CacheTypeOK'
      <3>1. /\ record \in 0..MaxRecord /\ settled \in 0..MaxRecord /\ lock \in BOOLEAN
            /\ available \in BOOLEAN
            /\ dropping \subseteq {"stream", "liquidity"} /\ expiries \in Nat /\ blind \in Nat
            /\ fetch \in [Fetches -> [pc : {"idle", "get", "missed", "fetch", "set", "joined", "value",
                                            "CacheError", "error"}, guarded : BOOLEAN]]
            /\ inflight \in Fetches \cup {NoFetch} /\ threw \subseteq Fetches
            /\ bucket \in [count : Nat, granted : Nat, ticking : BOOLEAN]
            /\ taken \in [Takers -> {"none", "allowed", "limited", "open", "unavailable"}]
        BY CacheTyped
      <3> QED BY <2>2, <2>4, <2>7, <3>1 DEF CacheTypeOK, fetchVars, takeVars, DetailRequests, DetailPcs
    <2>9. CurrentInv'
      <3>1. Oldest' = Oldest
        BY <2>2 DEF Oldest
      <3>2. \A o \in Readers : RequestSound(reader'[o], Oldest, settled)
        BY <2>6, <2>7 DEF CurrentInv
      <3> QED BY <2>2, <2>5, <3>1, <3>2 DEF CurrentInv
    <2>10. LoadInv'
      <3>1. Loads(p) /\ Loads(q)
        BY <2>1, <2>2 DEF Loads
      <3>2. Loading' = Loading
        BY <2>7, <3>1 DEF Loading
      <3> QED BY <2>2, <3>2 DEF LoadInv
    <2> QED BY <2>8, <2>9, <2>10
  <1> QED BY <1>1, <1>2, <1>4, <1>5, <1>6, <1>7, <1>8, <1>9

\* What is dropped leaves requests that load in the knowledge of it.
LEMMA DropKeeps ==
    ASSUME CacheTypeOK, CurrentInv, LoadInv, NEW who, Drop(who)
    PROVE  CacheTypeOK' /\ CurrentInv' /\ LoadInv'
  <1>0. /\ record \in 0..MaxRecord /\ settled \in 0..MaxRecord /\ entry \in Missing..MaxRecord
        /\ lock \in BOOLEAN /\ available \in BOOLEAN /\ putBack \in BOOLEAN
        /\ dropping \subseteq {"stream", "liquidity"} /\ reader \in [Readers -> DetailRequests]
        /\ expiries \in Nat /\ losses \in Nat /\ blind \in Nat
        /\ settled <= record
    BY CacheTyped DEF CurrentInv, EntrySound
  <1>1. /\ UNCHANGED <<record, lock, blind, available, expiries, fetchVars, takeVars>>
        /\ dropping' = dropping \ {who}
        /\ Reaches \/ Fails
    BY DEF Drop
  <1>2. losses' \in Nat
    BY <1>0, <1>1, LossesTyped
  <1> DEFINE q(r) == [reader[r] EXCEPT !.overtaken = @ \/ reader[r].pc = "fill"]
  <1>3. CASE UNCHANGED <<entry, settled, putBack, reader>>
    <2>1. CacheTypeOK'
      BY <1>0, <1>1, <1>2, <1>3 DEF CacheTypeOK, fetchVars, takeVars
    <2>2. CurrentInv'
      BY <1>1, <1>3 DEF CurrentInv, EntrySound, Oldest
    <2>3. LoadInv'
      BY <1>1, <1>3 DEF LoadInv, Loading, Loads
    <2> QED BY <2>1, <2>2, <2>3
  <1>4. CASE /\ entry' = Dropped /\ settled' = record /\ putBack' = FALSE
             /\ reader' = [r \in Readers |-> q(r)]
    <2>1. ASSUME NEW r \in Readers
          PROVE  /\ q(r) \in DetailRequests /\ q(r).pc = reader[r].pc /\ q(r).got = reader[r].got
                 /\ q(r).floor = reader[r].floor
                 /\ q(r).overtaken <=> reader[r].overtaken \/ reader[r].pc = "fill"
      <3> DEFINE x == reader[r]
      <3>1. x \in DetailRequests
        BY <1>0
      <3>2. [x EXCEPT !.overtaken = @ \/ x.pc = "fill"] = [x EXCEPT !.overtaken = x.overtaken \/ x.pc = "fill"]
        BY <3>1 DEF DetailRequests
      <3>3. (x.overtaken \/ x.pc = "fill") \in BOOLEAN
        OBVIOUS
      <3> HIDE DEF x
      <3>4. LET y == [x EXCEPT !.overtaken = x.overtaken \/ x.pc = "fill"]
            IN /\ y \in DetailRequests /\ y.pc = x.pc /\ y.got = x.got /\ y.floor = x.floor
               /\ y.overtaken = (x.overtaken \/ x.pc = "fill")
        BY <3>1, <3>3, Zenon DEF DetailRequests
      <3> QED BY <3>2, <3>4 DEF x
    <2>2. reader' \in [Readers -> DetailRequests] /\ \A r \in Readers : reader'[r] = q(r)
      BY <1>4, <2>1
    <2> HIDE DEF q
    <2>3. CacheTypeOK'
      <3>1. entry' \in Missing..MaxRecord /\ settled' \in 0..MaxRecord
        BY <1>0, <1>4, CacheAssumption DEF Dropped, Missing
      <3>2. /\ fetch' \in [Fetches -> [pc : {"idle", "get", "missed", "fetch", "set", "joined", "value",
                                            "CacheError", "error"}, guarded : BOOLEAN]]
            /\ inflight' \in Fetches \cup {NoFetch} /\ threw' \subseteq Fetches
            /\ bucket' \in [count : Nat, granted : Nat, ticking : BOOLEAN]
            /\ taken' \in [Takers -> {"none", "allowed", "limited", "open", "unavailable"}]
        BY <1>1, CacheTyped DEF fetchVars, takeVars
      <3>3. record' \in 0..MaxRecord /\ {lock, available, putBack}' \subseteq BOOLEAN
            /\ dropping' \subseteq {"stream", "liquidity"}
            /\ {blind, expiries, losses}' \subseteq Nat
        BY <1>0, <1>1, <1>2, <1>4
      <3> QED BY <2>2, <3>1, <3>2, <3>3, Zenon DEF CacheTypeOK, DetailRequests, DetailPcs
    <2>4. Oldest \in 0..MaxRecord /\ Oldest' = record
      BY <1>0, <1>1, <1>4, CacheAssumption DEF Oldest
    <2>5. CurrentInv'
      <3>1. EntrySound'
        BY <1>0, <1>1, <1>4 DEF EntrySound, Dropped
      <3>2. ASSUME NEW r \in Readers PROVE RequestSound(reader'[r], Oldest', settled')
        <4>1. /\ RequestSound(reader[r], Oldest, settled) /\ reader[r] \in DetailRequests
              /\ reader[r].floor \in Nat /\ Oldest <= record
          BY <1>0, CacheAssumption DEF CurrentInv, Oldest, DetailRequests
        <4>2. reader'[r].overtaken <=> reader[r].overtaken \/ reader[r].pc = "fill"
          BY <2>1, <2>2
        <4>3. /\ reader'[r].pc = reader[r].pc /\ reader'[r].got = reader[r].got
              /\ reader'[r].floor = reader[r].floor
          BY <2>1, <2>2
        <4>4. reader[r].floor <= record
          BY <1>0, <2>4, <4>1 DEF RequestSound
        <4> QED BY <1>4, <2>4, <4>1, <4>2, <4>3, <4>4 DEF RequestSound
      <3> QED BY <3>1, <3>2 DEF CurrentInv
    <2>6. LoadInv'
      <3>1. Loading' = Loading
        BY <2>1, <2>2 DEF Loading, Loads
      <3> QED BY <1>1, <3>1 DEF LoadInv
    <2> QED BY <2>3, <2>5, <2>6
  <1> QED BY <1>3, <1>4 DEF Drop

LEMMA DetailStep ==
    ASSUME CacheTypeOK, CurrentInv, LoadInv, [DetailNext]_cacheVars
    PROVE  CacheTypeOK' /\ CurrentInv' /\ LoadInv'
  <1>0. /\ record \in 0..MaxRecord /\ settled \in 0..MaxRecord /\ entry \in Missing..MaxRecord
        /\ lock \in BOOLEAN /\ available \in BOOLEAN /\ putBack \in BOOLEAN
        /\ dropping \subseteq {"stream", "liquidity"}
        /\ expiries \in Nat /\ losses \in Nat /\ blind \in Nat
        /\ settled <= record
    BY CacheTyped DEF CurrentInv, EntrySound
  \* The rest of the world, which leaves the requests as they are.
  <1>1. ASSUME /\ UNCHANGED <<reader, settled, putBack, blind, fetchVars, takeVars>>
               /\ record' \in 0..MaxRecord /\ record' >= record
               /\ entry' \in {entry, Missing} /\ available' \in BOOLEAN /\ losses' \in Nat
               /\ dropping' \subseteq {"stream", "liquidity"}
               /\ \/ lock' = lock /\ expiries' = expiries
                  \/ lock' \in {lock, FALSE} /\ expiries' = expiries + 1
        PROVE  CacheTypeOK' /\ CurrentInv' /\ LoadInv'
    <2>0. lock' \in BOOLEAN /\ expiries' \in Nat /\ entry' \in Missing..MaxRecord
      <3>1. lock' = lock \/ lock' = FALSE
        BY <1>1
      <3>2. expiries' = expiries \/ expiries' = expiries + 1
        BY <1>1
      <3>3. entry' \in Missing..MaxRecord
        BY <1>0, <1>1, CacheAssumption DEF Missing
      <3>4. expiries' \in Nat
        BY <1>0, <3>2
      <3> QED BY <1>0, <3>1, <3>3, <3>4
    <2>1. (\A r \in Readers : RequestSound(reader[r], Oldest, settled))' /\ LoadInv'
      <3>1. \/ lock' = lock /\ expiries' = expiries /\ blind' = blind
            \/ /\ expiries' = expiries + 1 /\ blind' = blind /\ lock' \in BOOLEAN
        BY <1>1, <2>0
      <3> QED BY <1>1, <3>1, RequestsStay
    <2>2. EntrySound'
      BY <1>0, <1>1 DEF CurrentInv, EntrySound
    <2>3. CacheTypeOK'
      <3>1. /\ fetch' \in [Fetches -> [pc : {"idle", "get", "missed", "fetch", "set", "joined", "value",
                                            "CacheError", "error"}, guarded : BOOLEAN]]
            /\ inflight' \in Fetches \cup {NoFetch} /\ threw' \subseteq Fetches
            /\ bucket' \in [count : Nat, granted : Nat, ticking : BOOLEAN]
            /\ taken' \in [Takers -> {"none", "allowed", "limited", "open", "unavailable"}]
        BY <1>1, CacheTyped DEF fetchVars, takeVars
      <3>2. reader' \in [Readers -> DetailRequests] /\ putBack' \in BOOLEAN /\ settled' \in 0..MaxRecord
            /\ blind' \in Nat
        BY <1>0, <1>1, CacheTyped
      <3>3. {lock, available, putBack}' \subseteq BOOLEAN /\ {blind, expiries, losses}' \subseteq Nat
        BY <1>1, <2>0, <3>2
      <3> QED BY <1>1, <2>0, <3>1, <3>2, <3>3, Zenon DEF CacheTypeOK, DetailRequests, DetailPcs
    <2> QED BY <2>1, <2>2, <2>3 DEF CurrentInv
  <1>2. ASSUME Unreachable \/ Reconnected \/ EntryExpires \/ LockExpires
        PROVE  CacheTypeOK' /\ CurrentInv' /\ LoadInv'
    <2>1. /\ UNCHANGED <<reader, settled, putBack, blind, record, dropping, fetchVars, takeVars>>
          /\ entry' = entry \/ entry' = Missing
          /\ available' = TRUE \/ available' = FALSE \/ available' = available
          /\ losses' = losses \/ losses' = losses + 1
          /\ \/ lock' = lock /\ expiries' = expiries
             \/ (lock' = lock \/ lock' = FALSE) /\ expiries' = expiries + 1
      BY <1>2, Zenon DEF Unreachable, Reconnected, EntryExpires, LockExpires, detailVars
    <2>2. available' \in BOOLEAN
      BY <1>0, <2>1
    <2>3. losses' \in Nat /\ record' >= record /\ record' \in 0..MaxRecord
      <3>1. (losses' = losses \/ losses' = losses + 1) /\ record' = record
        BY <2>1
      <3> QED BY <1>0, <3>1
    <2> QED BY <1>0, <1>1, <2>1, <2>2, <2>3
  <1>3. ASSUME Project \/ PatchRow \/ MutationFinds
        PROVE  CacheTypeOK' /\ CurrentInv' /\ LoadInv'
    <2>1. /\ record' \in 0..MaxRecord /\ record' >= record
          /\ dropping' \subseteq {"stream", "liquidity"}
          /\ UNCHANGED <<reader, settled, putBack, blind, lock, expiries, entry, available, losses, fetchVars, takeVars>>
      <3>1. /\ \/ record' = record
               \/ record < MaxRecord /\ (record' = record + 1 \/ (record = 0 /\ record' = 0))
            /\ dropping' \in {dropping, dropping \cup {"stream"}, dropping \cup {"liquidity"}}
            /\ UNCHANGED <<reader, settled, putBack, blind, lock, expiries, entry, available, losses, fetchVars, takeVars>>
        BY <1>3, Zenon DEF Project, PatchRow, MutationFinds
      <3>2. record' \in 0..MaxRecord /\ record' >= record
        <4>1. \/ record' = record
              \/ record < MaxRecord /\ (record' = record + 1 \/ (record = 0 /\ record' = 0))
          BY <3>1
        <4> QED BY <1>0, <4>1, CacheAssumption
      <3>3. dropping' \subseteq {"stream", "liquidity"}
        BY <1>0, <3>1
      <3> QED BY <3>1, <3>2, <3>3
    <2> QED BY <1>0, <1>1, <2>1
  <1>4. CASE UNCHANGED cacheVars
    <2>1. UNCHANGED <<reader, settled, putBack, blind, lock, expiries, entry, available, losses, fetchVars, takeVars,
                      record, dropping>>
      BY <1>4 DEF cacheVars, detailVars
    <2>2. record' >= record
      BY <1>0, <2>1
    <2> QED BY <1>0, <1>1, <2>1, <2>2
  <1>5. ASSUME NEW r \in Readers,
               \/ GetPool(r) \/ Acquire(r) \/ Find(r) \/ Fill(r) \/ Release(r)
               \/ WaitEnds(r) \/ GetAgain(r) \/ FindDirect(r)
        PROVE  CacheTypeOK' /\ CurrentInv' /\ LoadInv'
    BY <1>5, ReaderStep
  <1>6. ASSUME NEW who, Drop(who)
        PROVE  CacheTypeOK' /\ CurrentInv' /\ LoadInv'
    BY <1>6, DropKeeps
  <1> QED BY <1>2, <1>3, <1>4, <1>5, <1>6 DEF DetailNext

\* Nobody asks for the detail where another of the cache's uses is looked at.
NobodyReads == reader = [r \in Readers |-> Unasked]

\* Nobody asks, nobody is answered.
LEMMA NobodyMeans == NobodyReads /\ blind \in Nat /\ expiries \in Nat => AnswersCurrent /\ FewLoad
  <1> SUFFICES ASSUME NobodyReads, blind \in Nat, expiries \in Nat PROVE AnswersCurrent /\ FewLoad
    OBVIOUS
  <1>1. \A r \in Readers : reader[r].pc = "idle"
    BY DEF NobodyReads, Unasked
  <1>2. {r \in Readers : reader[r].pc \in {"find", "fill", "release", "fail"}} = {}
    BY <1>1
  <1>3. FewLoad
    <2>1. Cardinality({r \in Readers : reader[r].pc \in {"find", "fill", "release", "fail"}}) = 0
      BY <1>2, FS_EmptySet, Zenon
    <2>2. 0 <= 1 + expiries + blind
      OBVIOUS
    <2> QED BY <2>1, <2>2 DEF FewLoad
  <1> QED BY <1>1, <1>3 DEF AnswersCurrent

\* An answer is of the last deletion or later, and few load at once.
LEMMA DetailMeans ==
    ASSUME CacheTypeOK, CurrentInv, LoadInv
    PROVE  AnswersCurrent /\ FewLoad
  <1>1. AnswersCurrent
    BY DEF CurrentInv, RequestSound, AnswersCurrent
  <1>2. FewLoad
    <2> DEFINE n == Cardinality(Loading)
    <2>1. n <= (IF lock THEN 1 ELSE 0) + expiries + blind /\ IsFiniteSet(Loading)
      BY DEF LoadInv
    <2>2. n \in Nat /\ expiries \in Nat /\ blind \in Nat /\ lock \in BOOLEAN
      BY <2>1, CacheTyped, FS_CardinalityType
    <2>3. n = Cardinality({r \in Readers : reader[r].pc \in {"find", "fill", "release", "fail"}})
      BY DEF Loading, Loads
    <2> HIDE DEF n
    <2>4. n <= 1 + expiries + blind
      BY <2>1, <2>2
    <2> QED BY <2>3, <2>4 DEF FewLoad
  <1> QED BY <1>1, <1>2

-----------------------------------------------------------------------------
(* CachedReads: getOrFetch and checkRateLimit                                 *)

FetchPcs == {"idle", "get", "missed", "fetch", "set", "joined", "value", "CacheError", "error"}
FetchCalls == [pc : FetchPcs, guarded : BOOLEAN]

FetchTyped ==
    /\ fetch \in [Fetches -> FetchCalls]
    /\ inflight \in Fetches \cup {NoFetch} /\ threw \subseteq Fetches

Running == {f \in Fetches : fetch[f].pc \in {"fetch", "set"}}

\* OneFetch, by the set of calls that run.
LEMMA OneFetchMeans ==
    OneFetch <=> /\ Running \subseteq {inflight}
                 /\ inflight # NoFetch => inflight \in Running \cup threw
                 /\ (\E f \in Fetches : fetch[f].pc = "joined") => Running # {}
  BY DEF OneFetch, Running

\* One call goes on.
LEMMA CallMoves ==
    ASSUME FetchTyped, NEW f \in Fetches, NEW pc \in FetchPcs, Move(f, pc)
    PROVE  /\ fetch' \in [Fetches -> FetchCalls]
           /\ fetch'[f].pc = pc
           /\ \A g \in Fetches : g # f => fetch'[g] = fetch[g]
  <1>1. [fetch EXCEPT ![f].pc = pc] = [fetch EXCEPT ![f] = [fetch[f] EXCEPT !.pc = pc]]
    BY DEF FetchTyped
  <1>2. /\ [fetch[f] EXCEPT !.pc = pc] \in FetchCalls
        /\ [fetch[f] EXCEPT !.pc = pc].pc = pc
    BY DEF FetchTyped, FetchCalls
  <1> QED BY <1>1, <1>2 DEF Move, FetchTyped

LEMMA FailureTyped == ASSUME NEW f PROVE Failure(f) \in FetchPcs /\ Failure(f) \in {"CacheError", "error"}
  BY DEF Failure, FetchPcs

\* One that neither ran nor joined before or after.
LEMMA CallAside ==
    ASSUME FetchTyped, OneFetch, NEW f \in Fetches, NEW c \in FetchCalls,
           fetch' = [fetch EXCEPT ![f] = c],
           fetch[f].pc \notin {"fetch", "set"}, c.pc \notin {"fetch", "set", "joined"},
           UNCHANGED <<inflight, threw>>
    PROVE  FetchTyped' /\ OneFetch'
  <1>1. FetchTyped'
    BY DEF FetchTyped
  <1>2. Running' = Running
    BY DEF FetchTyped, Running
  <1>3. \A g \in Fetches : fetch'[g].pc = "joined" => fetch[g].pc = "joined"
    BY DEF FetchTyped
  <1>4. OneFetch'
    BY <1>2, <1>3, OneFetchMeans DEF OneFetch, Running
  <1> QED BY <1>1, <1>4

\* Who threw before the promise was in the map has its failure for good.
FetchInv ==
    /\ FetchTyped /\ OneFetch
    /\ \A f \in threw : fetch[f].pc \in {"CacheError", "error"}

LEMMA FetchStep ==
    ASSUME FetchInv, [FetchNext]_cacheVars
    PROVE  FetchInv'
  <1>0. FetchTyped /\ OneFetch /\ "none" \notin Fetches
    BY CacheAssumption DEF FetchInv
  <1>1. CASE UNCHANGED fetchVars
    BY <1>1 DEF FetchInv, FetchTyped, OneFetch, fetchVars
  \* Calls that neither run nor join.
  <1>2. ASSUME NEW f \in Fetches, NEW c \in FetchCalls, fetch' = [fetch EXCEPT ![f] = c],
               fetch[f].pc \in {"idle", "get", "missed"}, c.pc \notin {"fetch", "set", "joined"},
               UNCHANGED <<inflight, threw>>
        PROVE  FetchInv'
    <2>1. FetchTyped' /\ OneFetch'
      BY <1>0, <1>2, CallAside
    <2>2. \A g \in threw' : fetch'[g].pc \in {"CacheError", "error"}
      BY <1>0, <1>2 DEF FetchInv, FetchTyped
    <2> QED BY <2>1, <2>2 DEF FetchInv
  <1>3. ASSUME NEW f \in Fetches, NEW pc \in FetchPcs, Move(f, pc)
        PROVE  LET c == [fetch[f] EXCEPT !.pc = pc]
               IN c \in FetchCalls /\ c.pc = pc /\ fetch' = [fetch EXCEPT ![f] = c]
    BY <1>0, <1>3 DEF Move, FetchTyped, FetchCalls
  <1>4. ASSUME NEW f \in Fetches, NEW guarded \in BOOLEAN, CallFetch(f, guarded) PROVE FetchInv'
    <2> DEFINE c == [pc |-> IF guarded /\ ~available THEN "CacheError" ELSE "get", guarded |-> guarded]
    <2>1. c \in FetchCalls /\ c.pc \in {"CacheError", "get"}
      BY DEF FetchCalls, FetchPcs
    <2>2. fetch[f].pc = "idle" /\ fetch' = [fetch EXCEPT ![f] = c] /\ UNCHANGED <<inflight, threw>>
      BY <1>4 DEF CallFetch
    <2> HIDE DEF c
    <2> QED BY <1>2, <2>1, <2>2
  <1>5. ASSUME NEW f \in Fetches, ReadCached(f) PROVE FetchInv'
    <2>1. PICK pc \in {"value", "missed"} : Move(f, pc)
      BY <1>5 DEF ReadCached
    <2>2. pc \in FetchPcs
      BY DEF FetchPcs
    <2>3. fetch[f].pc = "get" /\ UNCHANGED <<inflight, threw>>
      BY <1>5 DEF ReadCached
    <2> DEFINE c == [fetch[f] EXCEPT !.pc = pc]
    <2>4. c \in FetchCalls /\ c.pc = pc /\ fetch' = [fetch EXCEPT ![f] = c]
      BY <1>3, <2>1, <2>2
    <2> HIDE DEF c
    <2> QED BY <1>2, <2>1, <2>3, <2>4
  <1>6. ASSUME NEW f \in Fetches, Coalesce(f) PROVE FetchInv'
    <2>1. fetch[f].pc = "missed" /\ inflight # NoFetch /\ UNCHANGED <<inflight, threw>>
      BY <1>6 DEF Coalesce, Coalescing
    <2>2. CASE inflight \in threw
      <3>1. Move(f, fetch[inflight].pc) /\ fetch[inflight].pc \in {"CacheError", "error"}
        BY <1>6, <2>2 DEF Coalesce, FetchInv
      <3>2. fetch[inflight].pc \in FetchPcs
        BY <3>1 DEF FetchPcs
      <3> DEFINE c == [fetch[f] EXCEPT !.pc = fetch[inflight].pc]
      <3>3. c \in FetchCalls /\ c.pc = fetch[inflight].pc /\ fetch' = [fetch EXCEPT ![f] = c]
        BY <1>3, <3>1, <3>2
      <3> HIDE DEF c
      <3> QED BY <1>2, <2>1, <3>1, <3>3
    <2>3. CASE inflight \notin threw
      <3>1. Move(f, "joined") /\ "joined" \in FetchPcs
        BY <1>6, <2>3 DEF Coalesce, FetchPcs
      <3>2. /\ fetch' \in [Fetches -> FetchCalls] /\ fetch'[f].pc = "joined"
            /\ \A g \in Fetches : g # f => fetch'[g] = fetch[g]
        BY <1>0, <3>1, CallMoves
      <3>3. Running' = Running
        BY <2>1, <3>2 DEF Running
      <3>4. inflight \in Running
        BY <1>0, <2>1, <2>3, OneFetchMeans
      <3>5. OneFetch'
        BY <1>0, <2>1, <3>3, <3>4, OneFetchMeans DEF OneFetch, Running
      <3>6. FetchTyped'
        BY <1>0, <2>1, <3>2 DEF FetchTyped
      <3>7. \A g \in threw' : fetch'[g].pc \in {"CacheError", "error"}
        BY <1>0, <2>1, <3>2 DEF FetchInv, FetchTyped
      <3> QED BY <3>5, <3>6, <3>7 DEF FetchInv
    <2> QED BY <2>2, <2>3
  <1>7. ASSUME NEW f \in Fetches, StartFetch(f) PROVE FetchInv'
    <2>1. fetch[f].pc = "missed" /\ inflight = NoFetch /\ inflight' = f
      BY <1>7 DEF StartFetch, Coalescing
    <2>2. Running = {} /\ ~\E g \in Fetches : fetch[g].pc = "joined"
      <3>1. Running \subseteq {NoFetch} /\ Running \subseteq Fetches
        BY <1>0, <2>1, OneFetchMeans DEF Running
      <3>2. Running = {}
        BY <1>0, <3>1 DEF NoFetch
      <3> QED BY <1>0, <3>2, OneFetchMeans
    <2>3. CASE Move(f, "fetch") /\ threw' = threw
      <3>1. /\ fetch' \in [Fetches -> FetchCalls] /\ fetch'[f].pc = "fetch"
            /\ \A g \in Fetches : g # f => fetch'[g] = fetch[g]
        BY <1>0, <2>3, CallMoves DEF FetchPcs
      <3>2. Running' = {f}
        BY <2>2, <3>1 DEF Running
      <3>3. OneFetch'
        BY <2>1, <3>2 DEF OneFetch, Running
      <3>4. FetchTyped' /\ \A g \in threw' : fetch'[g].pc \in {"CacheError", "error"}
        BY <1>0, <2>1, <2>3, <3>1 DEF FetchInv, FetchTyped
      <3> QED BY <3>3, <3>4 DEF FetchInv
    <2>4. CASE Move(f, Failure(f)) /\ threw' = threw \cup {f}
      <3>1. /\ fetch' \in [Fetches -> FetchCalls] /\ fetch'[f].pc = Failure(f)
            /\ \A g \in Fetches : g # f => fetch'[g] = fetch[g]
        BY <1>0, <2>4, CallMoves, FailureTyped
      <3>2. Running' = {} /\ ~\E g \in Fetches : fetch'[g].pc = "joined"
        BY <2>2, <3>1, FailureTyped DEF Running
      <3>3. OneFetch'
        BY <2>1, <2>4, <3>2 DEF OneFetch, Running
      <3>4. FetchTyped' /\ \A g \in threw' : fetch'[g].pc \in {"CacheError", "error"}
        BY <1>0, <2>1, <2>4, <3>1, FailureTyped DEF FetchInv, FetchTyped
      <3> QED BY <3>3, <3>4 DEF FetchInv
    <2> QED BY <1>7, <2>3, <2>4 DEF StartFetch
  \* The promise settles.
  <1>8. ASSUME NEW f \in Fetches, NEW outcome \in {"value", "CacheError", "error"}, fetch[f].pc \in {"fetch", "set"},
               Settles(f, outcome), threw' = threw
        PROVE  FetchInv'
    <2> DEFINE ends(g) == g = f \/ (fetch[g].pc = "joined" /\ inflight = f)
    <2>1. Running \subseteq {f} /\ inflight = f
      <3>1. f \in Running /\ Running \subseteq {inflight}
        BY <1>0, <1>8, OneFetchMeans DEF Running
      <3> QED BY <3>1
    <2>2. /\ fetch' = [g \in Fetches |-> IF ends(g) THEN [fetch[g] EXCEPT !.pc = outcome] ELSE fetch[g]]
          /\ inflight' = NoFetch
      BY <1>8 DEF Settles
    <2>3. \A g \in Fetches : [fetch[g] EXCEPT !.pc = outcome] \in FetchCalls
                             /\ [fetch[g] EXCEPT !.pc = outcome].pc = outcome
      BY <1>0 DEF FetchTyped, FetchCalls, FetchPcs
    <2>4. /\ fetch' \in [Fetches -> FetchCalls]
          /\ \A g \in Fetches : IF ends(g) THEN fetch'[g].pc = outcome ELSE fetch'[g] = fetch[g]
      BY <1>0, <2>2, <2>3 DEF FetchTyped
    <2>5. Running' = {} /\ ~\E g \in Fetches : fetch'[g].pc = "joined"
      BY <2>1, <2>4 DEF Running
    <2>6. OneFetch'
      BY <2>2, <2>5 DEF OneFetch, Running
    <2>7. \A g \in threw' : fetch'[g].pc \in {"CacheError", "error"}
      <3>1. \A g \in threw : g \in Fetches /\ fetch[g].pc \in {"CacheError", "error"}
        BY <1>0 DEF FetchInv, FetchTyped
      <3>2. \A g \in threw : ~ends(g)
        BY <1>8, <3>1
      <3> QED BY <1>8, <2>4, <3>1, <3>2
    <2>8. FetchTyped'
      BY <1>0, <1>8, <2>2, <2>4 DEF FetchTyped
    <2> QED BY <2>6, <2>7, <2>8 DEF FetchInv
  <1>9. ASSUME NEW f \in Fetches, FetcherReturns(f) PROVE FetchInv'
    <2>1. fetch[f].pc = "fetch" /\ threw' = threw
      BY <1>9 DEF FetcherReturns
    <2>2. CASE Settles(f, Failure(f))
      BY <1>8, <2>1, <2>2, FailureTyped
    <2>3. CASE Move(f, "set") /\ inflight' = inflight
      <3>1. /\ fetch' \in [Fetches -> FetchCalls] /\ fetch'[f].pc = "set"
            /\ \A g \in Fetches : g # f => fetch'[g] = fetch[g]
        BY <1>0, <2>3, CallMoves DEF FetchPcs
      <3>2. Running' = Running
        BY <2>1, <3>1 DEF Running
      <3>3. OneFetch'
        BY <1>0, <2>1, <2>3, <3>1, <3>2, OneFetchMeans DEF OneFetch, Running
      <3>4. FetchTyped' /\ \A g \in threw' : fetch'[g].pc \in {"CacheError", "error"}
        BY <1>0, <2>1, <2>3, <3>1 DEF FetchInv, FetchTyped
      <3> QED BY <3>3, <3>4 DEF FetchInv
    <2> QED BY <1>9, <2>2, <2>3 DEF FetcherReturns
  <1>10. ASSUME NEW f \in Fetches, StoreFetched(f) PROVE FetchInv'
    BY <1>8, <1>10 DEF StoreFetched
  <1>11. ASSUME Unreachable \/ Reconnected \/ EntryExpires PROVE FetchInv'
    BY <1>1, <1>11 DEF Unreachable, Reconnected, EntryExpires
  <1>12. CASE UNCHANGED cacheVars
    BY <1>1, <1>12 DEF cacheVars
  <1> QED BY <1>4, <1>5, <1>6, <1>7, <1>9, <1>10, <1>11, <1>12 DEF FetchNext

\* A caller that is told it is within the limit has been counted.
BudgetInv ==
    /\ bucket \in [count : Nat, granted : Nat, ticking : BOOLEAN]
    /\ bucket.granted <= bucket.count /\ BudgetKept

LEMMA TakeStep ==
    ASSUME BudgetInv, [TakeNext]_cacheVars
    PROVE  BudgetInv'
  <1>0. /\ bucket.count \in Nat /\ bucket.granted \in Nat /\ bucket.ticking \in BOOLEAN
        /\ bucket.granted <= bucket.count /\ bucket.granted <= Budget /\ Budget \in Nat
        /\ bucket.count > 0 => bucket.ticking
    BY CacheAssumption DEF BudgetInv, BudgetKept
  <1>1. CASE UNCHANGED bucket
    BY <1>1 DEF BudgetInv, BudgetKept
  <1>2. CASE bucket' = [count |-> 0, granted |-> 0, ticking |-> FALSE]
    <2>1. 0 <= Budget /\ 0 \in Nat
      BY <1>0
    <2> QED BY <1>2, <2>1 DEF BudgetInv, BudgetKept
  <1>3. ASSUME NEW t \in Takers, NEW guarded \in BOOLEAN, Take(t, guarded) PROVE BudgetInv'
    <2>1. PICK counted, answered \in BOOLEAN :
             /\ answered => counted
             /\ LET count == bucket.count + (IF counted THEN 1 ELSE 0)
                    outcome == IF ~answered THEN IF guarded THEN "unavailable" ELSE "open"
                               ELSE IF Within(count) THEN "allowed" ELSE "limited"
                IN bucket' = [count |-> count, ticking |-> bucket.ticking \/ counted,
                              granted |-> bucket.granted + (IF outcome = "allowed" THEN 1 ELSE 0)]
      BY <1>3 DEF Take
    <2> DEFINE count == bucket.count + (IF counted THEN 1 ELSE 0)
               allowed == answered /\ count <= Budget
               granted == bucket.granted + (IF allowed THEN 1 ELSE 0)
               ticking == bucket.ticking \/ counted
    <2>2. bucket' = [count |-> count, ticking |-> ticking, granted |-> granted]
      BY <2>1 DEF Within
    <2>3. count \in Nat /\ granted \in Nat /\ granted <= count /\ granted <= Budget
      <3>1. CASE counted
        BY <1>0, <2>1, <3>1
      <3>2. CASE ~counted
        <4>1. ~allowed /\ count = bucket.count + 0 /\ granted = bucket.granted + 0
          BY <2>1, <3>2
        <4> HIDE DEF count, granted, allowed
        <4> QED BY <1>0, <4>1
      <3> QED BY <3>1, <3>2
    <2>4. count > 0 => ticking
      <3>1. CASE counted
        BY <3>1
      <3>2. CASE ~counted
        <4>1. count = bucket.count + 0
          BY <3>2
        <4>2. count > 0 => bucket.count > 0
          <5> HIDE DEF count
          <5> QED BY <1>0, <4>1
        <4> QED BY <1>0, <4>2
      <3> QED BY <3>1, <3>2
    <2>5. ticking \in BOOLEAN
      BY <1>0
    <2> HIDE DEF count, granted, ticking
    <2>6. bucket'.count = count /\ bucket'.granted = granted /\ bucket'.ticking = ticking
          /\ bucket' \in [count : Nat, granted : Nat, ticking : BOOLEAN]
      BY <2>2, <2>3, <2>5
    <2> QED BY <2>3, <2>4, <2>6 DEF BudgetInv, BudgetKept
  <1>4. CASE UNCHANGED cacheVars
    BY <1>1, <1>4 DEF cacheVars, takeVars
  <1>5. CASE Unreachable \/ Reconnected
    BY <1>1, <1>5 DEF Unreachable, Reconnected, takeVars
  <1>6. CASE BucketExpires
    BY <1>2, <1>6 DEF BucketExpires
  <1> QED BY <1>3, <1>4, <1>5, <1>6 DEF TakeNext

\* What the two leave of the rest.
LEMMA RedisKeeps ==
    ASSUME CacheTypeOK, UNCHANGED detailVars,
           entry' \in {entry, Missing, record},
           available' = available \/ available' \in BOOLEAN,
           losses' = losses \/ losses' = losses + 1,
           expiries' = expiries \/ expiries' = expiries + 1,
           FetchTyped',
           bucket' \in [count : Nat, granted : Nat, ticking : BOOLEAN],
           taken' \in [Takers -> {"none", "allowed", "limited", "open", "unavailable"}]
    PROVE  CacheTypeOK'
  <1>0. /\ record \in 0..MaxRecord /\ settled \in 0..MaxRecord /\ entry \in Missing..MaxRecord
        /\ lock \in BOOLEAN /\ available \in BOOLEAN /\ putBack \in BOOLEAN
        /\ dropping \subseteq {"stream", "liquidity"}
        /\ blind \in Nat /\ expiries \in Nat /\ losses \in Nat
        /\ reader \in [Readers -> DetailRequests]
    BY CacheTyped
  <1>1. entry' \in Missing..MaxRecord
    BY <1>0, CacheAssumption DEF Missing
  <1>2. losses' \in Nat /\ expiries' \in Nat
    BY <1>0
  <1>3. available' \in BOOLEAN
    BY <1>0
  <1>4. /\ record' \in 0..MaxRecord /\ settled' \in 0..MaxRecord
        /\ lock' \in BOOLEAN /\ putBack' \in BOOLEAN
        /\ dropping' \subseteq {"stream", "liquidity"}
        /\ blind' \in Nat
        /\ reader' \in [Readers -> DetailRequests]
    BY <1>0 DEF detailVars
  <1>5. {lock, available, putBack}' \subseteq BOOLEAN /\ {blind, expiries, losses}' \subseteq Nat
    BY <1>2, <1>3, <1>4
  <1> QED BY <1>1, <1>4, <1>5, Zenon DEF CacheTypeOK, DetailRequests, DetailPcs, FetchTyped, FetchCalls, FetchPcs

\* A call of getOrFetch leaves the requests of the pool's detail alone,
LEMMA FetchTypes ==
    ASSUME CacheTypeOK, FetchInv, [FetchNext]_cacheVars
    PROVE  CacheTypeOK' /\ reader' = reader
  <1>0. /\ bucket \in [count : Nat, granted : Nat, ticking : BOOLEAN]
        /\ taken \in [Takers -> {"none", "allowed", "limited", "open", "unavailable"}]
        /\ available \in BOOLEAN
    BY CacheTyped
  <1>1. FetchTyped'
    BY FetchStep DEF FetchInv
  <1>2. /\ UNCHANGED <<detailVars, takeVars>>
        /\ entry' \in {entry, Missing, record}
        /\ available' = available \/ available' \in BOOLEAN
        /\ losses' = losses \/ losses' = losses + 1
        /\ expiries' = expiries \/ expiries' = expiries + 1
    BY DEF FetchNext, Unreachable, Reconnected, EntryExpires, CallFetch, ReadCached, Coalesce, StartFetch,
           FetcherReturns, StoreFetched, Reaches, Fails, cacheVars
  <1>3. CacheTypeOK'
    BY <1>0, <1>1, <1>2, RedisKeeps DEF takeVars
  <1> QED BY <1>2, <1>3 DEF detailVars

\* and so does a call of checkRateLimit.
LEMMA TakeTypes ==
    ASSUME CacheTypeOK, BudgetInv, [TakeNext]_cacheVars
    PROVE  CacheTypeOK' /\ reader' = reader
  <1>0. /\ taken \in [Takers -> {"none", "allowed", "limited", "open", "unavailable"}]
        /\ available \in BOOLEAN /\ FetchTyped
    BY CacheTyped DEF FetchTyped, FetchCalls, FetchPcs
  <1>1. bucket' \in [count : Nat, granted : Nat, ticking : BOOLEAN]
    BY TakeStep DEF BudgetInv
  <1>2. /\ UNCHANGED <<detailVars, fetchVars, entry>>
        /\ available' = available \/ available' \in BOOLEAN
        /\ losses' = losses \/ losses' = losses + 1
        /\ expiries' = expiries \/ expiries' = expiries + 1
    BY DEF TakeNext, Unreachable, Reconnected, BucketExpires, Take, Reaches, Fails, cacheVars
  <1>3. taken' \in [Takers -> {"none", "allowed", "limited", "open", "unavailable"}]
    <2>1. ASSUME NEW t \in Takers, NEW guarded \in BOOLEAN, Take(t, guarded)
          PROVE  taken' \in [Takers -> {"none", "allowed", "limited", "open", "unavailable"}]
      <3>1. \E v \in {"allowed", "limited", "open", "unavailable"} : taken' = [taken EXCEPT ![t] = v]
        BY <2>1 DEF Take
      <3> QED BY <1>0, <3>1
    <2>2. taken' = taken \/ \E t \in Takers, guarded \in BOOLEAN : Take(t, guarded)
      BY DEF TakeNext, Unreachable, Reconnected, BucketExpires, cacheVars, takeVars
    <2> QED BY <1>0, <2>1, <2>2
  <1>4. FetchTyped'
    BY <1>0, <1>2 DEF FetchTyped, fetchVars
  <1>5. CacheTypeOK'
    BY <1>1, <1>2, <1>3, <1>4, RedisKeeps
  <1> QED BY <1>2, <1>5 DEF detailVars

LEMMA CacheInitial ==
    CacheInit => /\ CacheTypeOK /\ CurrentInv /\ LoadInv /\ FetchInv /\ BudgetInv /\ NobodyReads
  <1> SUFFICES ASSUME CacheInit
               PROVE  /\ CacheTypeOK /\ CurrentInv /\ LoadInv /\ FetchInv /\ BudgetInv /\ NobodyReads
    OBVIOUS
  <1>0. Budget \in Nat /\ MaxRecord \in Nat /\ MaxRecord >= 1
    BY CacheAssumption
  <1>1. /\ record \in 0..MaxRecord /\ settled \in 0..MaxRecord /\ entry \in Missing..MaxRecord
        /\ blind \in Nat /\ expiries \in Nat /\ losses \in Nat
    BY <1>0 DEF CacheInit, Missing
  <1>2. Unasked \in DetailRequests
    BY <1>0 DEF Unasked, DetailRequests, DetailPcs, Missing
  <1>3. FetchTyped /\ threw = {} /\ inflight = NoFetch /\ \A f \in Fetches : fetch[f].pc = "idle"
    BY DEF CacheInit, FetchTyped, FetchCalls, FetchPcs
  <1>4. bucket = [count |-> 0, granted |-> 0, ticking |-> FALSE]
    BY DEF CacheInit
  <1>5. BudgetInv
    BY <1>0, <1>4 DEF BudgetInv, BudgetKept
  <1>6. NobodyReads
    BY DEF CacheInit, NobodyReads
  <1>7. CacheTypeOK
    <2>1. reader \in [Readers -> DetailRequests]
      BY <1>2, <1>6 DEF NobodyReads
    <2>2. taken \in [Takers -> {"none", "allowed", "limited", "open", "unavailable"}]
      BY DEF CacheInit
    <2>3. lock \in BOOLEAN /\ available \in BOOLEAN /\ putBack \in BOOLEAN
          /\ dropping \subseteq {"stream", "liquidity"}
      BY DEF CacheInit
    <2> QED BY <1>1, <1>3, <1>5, <2>1, <2>2, <2>3, CacheTyped, Zenon DEF FetchTyped, FetchCalls, FetchPcs, BudgetInv
  <1>8. FetchInv
    <2>1. Running = {}
      BY <1>3 DEF Running
    <2>2. OneFetch
      BY <1>3, <2>1 DEF OneFetch, Running
    <2> QED BY <1>3, <2>2 DEF FetchInv
  <1>9. CurrentInv
    <2>1. EntrySound
      BY <1>1, CacheAssumption DEF CacheInit, EntrySound, Missing
    <2>2. Oldest >= 0
      BY <1>1, CacheAssumption DEF Oldest
    <2>3. \A r \in Readers : RequestSound(reader[r], Oldest, settled)
      BY <1>6, <2>2 DEF NobodyReads, Unasked, RequestSound
    <2> QED BY <2>1, <2>3 DEF CurrentInv
  <1>10. LoadInv
    <2>1. Loading = {}
      BY <1>6 DEF NobodyReads, Unasked, Loading, Loads
    <2>2. IsFiniteSet(Loading) /\ Cardinality(Loading) = 0
      BY <2>1, FS_EmptySet, Zenon
    <2>3. 0 <= (IF lock THEN 1 ELSE 0) + expiries + blind
      <3>1. lock = FALSE /\ expiries = 0 /\ blind = 0
        BY DEF CacheInit
      <3> QED BY <3>1
    <2> QED BY <2>2, <2>3 DEF LoadInv
  <1> QED BY <1>5, <1>6, <1>7, <1>8, <1>9, <1>10

-----------------------------------------------------------------------------
(* ResponseCompression: what was sent and what is held are together the body  *)
(* that was written so far.                                                   *)

\* Nothing, of no pieces.
LEMMA EmptyFlat == ASSUME NEW f, f = <<>> PROVE FlattenSeq([i \in DOMAIN f |-> f[i].chunks]) = <<>>
  <1>1. [i \in DOMAIN f |-> f[i].chunks] = <<>>
    OBVIOUS
  <1>2. Len(<<>>) = 0
    OBVIOUS
  <1>3. FlattenSeq(<<>>) = <<>>
    BY <1>2, Zenon DEF FlattenSeq
  <1> QED BY <1>1, <1>3

Pieces == [as : Codings \cup {Identity}, chunks : Seq(Nat)]

\* The chunks up to the n-th.
UpTo(n) == [i \in 1..n |-> i]

\* The body grows by its next chunk, held or sent.
LEMMA UpToNext ==
    ASSUME NEW n \in Nat, NEW s \in Seq(Nat), NEW t \in Seq(Nat), s \o t = UpTo(n)
    PROVE  s \o Append(t, n + 1) = UpTo(n + 1) /\ s \o (t \o <<n + 1>>) = UpTo(n + 1)
  <1>1. UpTo(n) \in Seq(Nat) /\ Len(UpTo(n)) = n /\ UpTo(n + 1) = Append(UpTo(n), n + 1)
    <2>1. UpTo(n) \in Seq(Nat) /\ Len(UpTo(n)) = n
      BY DEF UpTo
    <2>2. UpTo(n + 1) \in Seq(Nat) /\ Len(UpTo(n + 1)) = n + 1
      BY DEF UpTo
    <2>3. \A i \in 1..n + 1 : UpTo(n + 1)[i] = i
      BY DEF UpTo
    <2>4. \A i \in 1..n : UpTo(n)[i] = i
      BY DEF UpTo
    <2>5. \A i \in 1..n + 1 : i \in 1..n \/ i = n + 1
      OBVIOUS
    <2> HIDE DEF UpTo
    <2> QED BY <2>1, <2>2, <2>3, <2>4, <2>5, SMTT(20)
  <1>2. s \o Append(t, n + 1) = Append(s \o t, n + 1)
    BY ONLY SMTT(20)
  <1>3. t \o <<n + 1>> = Append(t, n + 1)
    BY ONLY SMTT(20)
  <1> QED BY <1>1, <1>2, <1>3

\* Held back are numbers; a body in work or held back has sent nothing, and one that
\* is being compressed fit the middleware's conditions.
CompressionInv ==
    /\ CompressionTypeOK /\ ResponseWhole
    /\ payload \in Seq(Pieces)
    /\ hooked => ~exempt /\ NegotiateEncoding # Identity /\ phase = "handling" /\ payload = <<>>
    /\ ~hooked /\ phase = "handling" => held = <<>>
    /\ coding # Identity => phase = "sent"
    /\ phase = "arrived" => payload = <<>> /\ held = <<>> /\ ~hooked
    /\ phase = "compressing" => /\ ~headersSent /\ transformable /\ ~exempt /\ ~hooked
                                /\ NegotiateEncoding # Identity
                                /\ payload = <<>> /\ Len(held) >= MinBytes

LEMMA NumbersJoin == \A a, b, c \in Seq(Nat) : (a \o b) \o c = a \o (b \o c)
  <1> SUFFICES ASSUME NEW a \in Seq(Nat), NEW b \in Seq(Nat), NEW c \in Seq(Nat)
               PROVE  (a \o b) \o c = a \o (b \o c)
    BY Zenon
  <1> QED BY CatAssoc, SMTT(30)

\* What is received when a piece more is sent.
LEMMA ReceivedNext ==
    ASSUME payload \in Seq(Pieces), NEW x \in Pieces, payload' = Append(payload, x)
    PROVE  /\ payload' \in Seq(Pieces) /\ Received \in Seq(Nat)
           /\ Received' = Received \o x.chunks
  <1> DEFINE chunks == [i \in DOMAIN payload |-> payload[i].chunks]
             next == [i \in DOMAIN payload' |-> payload'[i].chunks]
  <1>1. chunks \in Seq(Seq(Nat)) /\ x.chunks \in Seq(Nat)
    <2>1. DOMAIN payload = 1..Len(payload) /\ Len(payload) \in Nat /\ \A i \in 1..Len(payload) : payload[i] \in Pieces
      OBVIOUS
    <2>2. \A y \in Pieces : y.chunks \in Seq(Nat)
      BY DEF Pieces
    <2>3. \A i \in 1..Len(payload) : payload[i].chunks \in Seq(Nat)
      BY <2>1, <2>2
    <2> QED BY <2>1, <2>2, <2>3
  <1>2. next = Append(chunks, x.chunks)
    <2>1. Len(payload') = Len(payload) + 1 /\ Len(payload) \in Nat
      OBVIOUS
    <2>2. \A i \in 1..Len(payload) : payload'[i] = payload[i]
      OBVIOUS
    <2>3. payload'[Len(payload) + 1] = x
      OBVIOUS
    <2>4. DOMAIN payload' = 1..Len(payload) + 1 /\ DOMAIN payload = 1..Len(payload)
      BY <2>1
    <2>5. Append(chunks, x.chunks) = [i \in 1..Len(payload) + 1 |->
                                       IF i = Len(payload) + 1 THEN x.chunks ELSE payload[i].chunks]
      BY <1>1, <2>4
    <2>6. \A i \in 1..Len(payload) + 1 : i = Len(payload) + 1 \/ i \in 1..Len(payload)
      BY <2>1
    <2> QED BY <2>2, <2>3, <2>4, <2>5, <2>6
  <1>3. Received = FlattenSeq(chunks) /\ Received' = FlattenSeq(next)
    BY DEF Received
  <1> HIDE DEF chunks, next
  <1>4. payload' \in Seq(Pieces)
    OBVIOUS
  <1> QED BY <1>1, <1>2, <1>3, <1>4, FlattenAppend

\* What is sent as it is counts its own chunks.
LEMMA PlainPiece ==
    ASSUME NEW s \in Seq(Nat)
    PROVE  Plain(s) \in Pieces /\ Plain(s).chunks = s /\ Plain(s).as = Identity
  BY DEF Plain, Pieces

\* What is held back are numbers.
LEMMA HeldTyped == held \in Seq(1..MaxChunks) => held \in Seq(Nat)
  <1>1. 1..MaxChunks \subseteq Nat
    BY CompressionAssumption
  <1> QED BY <1>1, SeqWider

LEMMA ProduceKeeps ==
    ASSUME CompressionInv, Produce
    PROVE  /\ phase = "handling" /\ produced' = produced + 1 /\ produced' \in 1..MaxChunks
           /\ produced \in Nat /\ held \in Seq(Nat) /\ Received \o held = UpTo(produced)
  <1>1. produced \in 0..MaxChunks /\ produced < MaxChunks /\ produced' = produced + 1 /\ phase = "handling"
    BY DEF CompressionInv, CompressionTypeOK, Produce
  <1> QED BY <1>1, HeldTyped, CompressionAssumption DEF CompressionInv, CompressionTypeOK, ResponseWhole, UpTo

\* All that was held back is sent, and what came with it.
LEMMA HeldSent ==
    ASSUME CompressionInv, NEW x \in Pieces, NEW more \in Seq(Nat), NEW n \in Nat,
           x.chunks = held \o more, (Received \o held) \o more = UpTo(n),
           payload' = Append(payload, x), held' = <<>>
    PROVE  /\ payload' \in Seq(Pieces) /\ (Received \o held)' = UpTo(n)
           /\ \A i \in DOMAIN payload' :
                 payload'[i] = x \/ (i \in DOMAIN payload /\ payload'[i] = payload[i])
  <1>0. payload \in Seq(Pieces) /\ held \in Seq(Nat)
    BY HeldTyped DEF CompressionInv, CompressionTypeOK
  <1>1. payload' \in Seq(Pieces) /\ Received \in Seq(Nat) /\ Received' = Received \o x.chunks
    BY <1>0, ReceivedNext
  <1>2. Received \o x.chunks = (Received \o held) \o more
    <2>1. (Received \o held) \o more = Received \o (held \o more)
      BY <1>0, <1>1, NumbersJoin, Zenon
    <2> QED BY <2>1
  <1>3. Received' \in Seq(Nat)
    BY <1>0, <1>1
  <1>4. Received' \o held' = Received'
    BY <1>3
  <1>5. \A i \in DOMAIN payload' :
           payload'[i] = x \/ (i \in DOMAIN payload /\ payload'[i] = payload[i])
    BY <1>0
  <1> QED BY <1>1, <1>2, <1>4, <1>5

\* The last chunk that comes with the end.
LEMMA LastChunkNext ==
    ASSUME CompressionInv, NEW more \in LastChunk
    PROVE  /\ more \in Seq(Nat) /\ Len(more) \in {0, 1} /\ produced + Len(more) \in 0..MaxChunks
           /\ held \o more \in Seq(1..MaxChunks)
           /\ (Received \o held) \o more = UpTo(produced + Len(more))
           /\ Received \o (held \o more) = UpTo(produced + Len(more))
           /\ Len(held \o more) = Len(held) + Len(more)
  <1>0. /\ produced \in 0..MaxChunks /\ held \in Seq(1..MaxChunks) /\ MaxChunks \in Nat
        /\ Received \o held = UpTo(produced) /\ held \in Seq(Nat) /\ payload \in Seq(Pieces)
    BY HeldTyped, CompressionAssumption DEF CompressionInv, CompressionTypeOK, ResponseWhole, UpTo
  <1>1. Received \in Seq(Nat)
    <2> DEFINE chunks == [i \in DOMAIN payload |-> payload[i].chunks]
    <2>1. chunks \in Seq(Seq(Nat))
      <3>1. \A y \in Pieces : y.chunks \in Seq(Nat)
        BY DEF Pieces
      <3>2. DOMAIN payload = 1..Len(payload) /\ Len(payload) \in Nat /\ \A i \in 1..Len(payload) : payload[i] \in Pieces
        BY <1>0
      <3>3. \A i \in 1..Len(payload) : payload[i].chunks \in Seq(Nat)
        BY <3>1, <3>2
      <3> QED BY <3>2, <3>3
    <2>2. Received = FlattenSeq(chunks)
      BY DEF Received
    <2> HIDE DEF chunks
    <2>3. <<>> \in Seq(Nat)
      OBVIOUS
    <2> QED BY <2>1, <2>2, <2>3, FlattenAppend
  <1>2. CASE more = <<>>
    <2>1. held \o more = held /\ more \in Seq(Nat) /\ Len(more) = 0
      BY <1>0, <1>2
    <2>2. UpTo(produced) \in Seq(Nat)
      BY <1>0 DEF UpTo
    <2>3. UpTo(produced) \o <<>> = UpTo(produced)
      BY <2>2
    <2>4. produced + 0 = produced /\ Len(held) + 0 = Len(held)
      BY <1>0
    <2> QED BY <1>0, <1>2, <2>1, <2>3, <2>4
  <1>3. CASE more = <<produced + 1>> /\ produced < MaxChunks
    <2>1. more \in Seq(Nat) /\ Len(more) = 1 /\ produced + 1 \in 1..MaxChunks
      BY <1>0, <1>3
    <2>2. held \o more \in Seq(1..MaxChunks) /\ Len(held \o more) = Len(held) + 1
      <3>1. more \in Seq(1..MaxChunks)
        BY <1>3, <2>1
      <3>2. held \in Seq(1..MaxChunks)
        BY <1>0
      <3> DEFINE T == 1..MaxChunks
      <3> HIDE DEF T
      <3>3. held \in Seq(T) /\ more \in Seq(T)
        BY <3>1, <3>2 DEF T
      <3>4. held \o more \in Seq(T) /\ Len(held \o more) = Len(held) + Len(more)
        BY <3>3, CatElements
      <3> QED BY <2>1, <3>4 DEF T
    <2>3. Received \o (held \o more) = UpTo(produced + 1)
      <3>1. produced \in Nat
        BY <1>0
      <3>2. Received \o (held \o <<produced + 1>>) = UpTo(produced + 1)
        BY <1>0, <1>1, <3>1, UpToNext
      <3> QED BY <1>3, <3>2
    <2>4. (Received \o held) \o more = Received \o (held \o more)
      BY <1>0, <1>1, <2>1, NumbersJoin
    <2>5. produced + 1 \in 0..MaxChunks
      BY <1>0, <2>1
    <2> QED BY <2>1, <2>2, <2>3, <2>4, <2>5
  <1>4. more = <<>> \/ (more = <<produced + 1>> /\ produced < MaxChunks)
    BY DEF LastChunk
  <1> QED BY <1>2, <1>3, <1>4

LEMMA EndHeldKeeps == CompressionInv /\ EndHeld => CompressionInv'
  <1> SUFFICES ASSUME CompressionInv, EndHeld PROVE CompressionInv'
    OBVIOUS
  <1>0. /\ accepts \in [Codings \cup {"*"} -> {Absent} \cup (0..10)]
        /\ exempt \in BOOLEAN /\ headersSent \in BOOLEAN /\ transformable \in BOOLEAN
        /\ produced \in 0..MaxChunks /\ held \in Seq(1..MaxChunks)
        /\ payload \in Seq(Pieces) /\ held \in Seq(Nat) /\ produced \in Nat
        /\ MaxChunks \in Nat /\ MinBytes \in Nat /\ MaxBuffer \in Nat
    BY HeldTyped, CompressionAssumption DEF CompressionInv, CompressionTypeOK
  <1>1. PICK more \in LastChunk :
           /\ produced' = produced + Len(more)
           /\ IF Skipped(held \o more)
              THEN /\ payload' = payload \o <<Plain(held \o more)>>
                   /\ headersSent' = TRUE /\ phase' = "sent" /\ held' = <<>>
              ELSE /\ phase' = "compressing" /\ held' = held \o more
                   /\ UNCHANGED <<payload, headersSent>>
    BY DEF EndHeld
  <1>2. /\ phase = "handling" /\ hooked /\ hooked' = FALSE
        /\ UNCHANGED <<accepts, exempt, transformable, coding>>
    BY DEF EndHeld
  <1>3. /\ ~exempt /\ NegotiateEncoding # Identity /\ payload = <<>> /\ coding = Identity
    BY <1>2 DEF CompressionInv
  <1> DEFINE body == held \o more
  <1>4. /\ more \in Seq(Nat) /\ produced + Len(more) \in 0..MaxChunks
        /\ body \in Seq(1..MaxChunks) /\ Received \o body = UpTo(produced + Len(more))
        /\ (Received \o held) \o more = UpTo(produced + Len(more))
    BY LastChunkNext
  <1>5. body \in Seq(Nat) /\ produced + Len(more) \in Nat
    BY <1>0, <1>4
  <1>6. CASE Skipped(body)
    <2>1. payload' = Append(payload, Plain(body)) /\ headersSent' = TRUE /\ phase' = "sent" /\ held' = <<>>
      <3>1. payload' = payload \o <<Plain(body)>> /\ headersSent' = TRUE /\ phase' = "sent" /\ held' = <<>>
        BY <1>1, <1>6
      <3> QED BY <1>0, <3>1
    <2>2. Plain(body) \in Pieces /\ Plain(body).chunks = held \o more /\ Plain(body).as = Identity
      BY <1>5, PlainPiece
    <2>3. /\ payload' \in Seq(Pieces) /\ (Received \o held)' = UpTo(produced + Len(more))
          /\ \A i \in DOMAIN payload' :
                payload'[i] = Plain(body) \/ (i \in DOMAIN payload /\ payload'[i] = payload[i])
      BY <1>4, <1>5, <2>1, <2>2, HeldSent
    <2>4. ResponseWhole'
      <3>1. \A i \in DOMAIN payload' : payload'[i].as = Identity
        BY <1>3, <2>2, <2>3
      <3> QED BY <1>1, <1>2, <1>3, <2>1, <2>3, <3>1 DEF ResponseWhole, UpTo
    <2>5. <<>> \in Seq(1..MaxChunks)
      OBVIOUS
    <2>6. CompressionTypeOK'
      BY <1>0, <1>1, <1>2, <1>3, <1>4, <2>1, <2>5, Zenon DEF CompressionTypeOK
    <2> QED BY <1>2, <1>3, <2>1, <2>3, <2>4, <2>6 DEF CompressionInv
  <1>7. CASE ~Skipped(body)
    <2>1. phase' = "compressing" /\ held' = body /\ payload' = payload /\ headersSent' = headersSent
      BY <1>1, <1>7
    <2>2. ~headersSent /\ transformable /\ Len(body) \in Nat /\ Len(body) >= MinBytes
      <3>1. ~headersSent /\ transformable /\ ~(Len(body) < MinBytes)
        BY <1>7 DEF Skipped
      <3>2. Len(body) \in Nat
        BY <1>5
      <3> HIDE DEF body
      <3> QED BY <1>0, <3>1, <3>2
    <2>3. (Received \o held)' = UpTo(produced')
      BY <1>1, <1>4, <2>1 DEF Received
    <2>4. ResponseWhole'
      BY <1>2, <1>3, <2>1, <2>3 DEF ResponseWhole, UpTo
    <2>5. CompressionTypeOK'
      BY <1>0, <1>1, <1>2, <1>3, <1>4, <2>1, Zenon DEF CompressionTypeOK
    <2>6. NegotiateEncoding' = NegotiateEncoding
      BY <1>2 DEF NegotiateEncoding, WeightOf
    <2> QED BY <1>0, <1>2, <1>3, <2>1, <2>2, <2>4, <2>5, <2>6 DEF CompressionInv
  <1> QED BY <1>1, <1>6, <1>7

\* Of the weights, the coding that is negotiated has the greatest.
LEMMA NegotiatedBest ==
    ASSUME accepts \in [Codings \cup {"*"} -> {Absent} \cup (0..10)], NegotiateEncoding # Identity
    PROVE  LET c == NegotiateEncoding
           IN /\ c \in Codings
              /\ accepts[c] > 0 \/ (accepts[c] = Absent /\ accepts["*"] > 0)
              /\ \A d \in Codings : WeightOf(d) <= WeightOf(c)
              /\ c = "gzip" => WeightOf("br") < WeightOf("gzip")
  <1> DEFINE b == accepts["br"]  g == accepts["gzip"]  s == accepts["*"]
  <1>1. b \in {Absent} \cup (0..10) /\ g \in {Absent} \cup (0..10) /\ s \in {Absent} \cup (0..10)
    BY DEF Codings
  <1>2. /\ WeightOf("br") = (IF b # Absent THEN b ELSE IF s # Absent THEN s ELSE 0)
        /\ WeightOf("gzip") = (IF g # Absent THEN g ELSE IF s # Absent THEN s ELSE 0)
    BY DEF WeightOf
  <1>3. WeightOf("br") \in Int /\ WeightOf("gzip") \in Int
    BY <1>1, <1>2 DEF Absent
  <1> HIDE DEF b, g, s
  <1>4. CASE NegotiateEncoding = "br"
    <2>1. WeightOf("br") >= WeightOf("gzip") /\ ~(WeightOf("br") <= 0 /\ WeightOf("gzip") <= 0)
      BY <1>4 DEF NegotiateEncoding, Identity
    <2>2. WeightOf("br") > 0
      BY <1>3, <2>1
    <2>3. b > 0 \/ (b = Absent /\ s > 0)
      BY <1>1, <1>2, <2>2 DEF Absent
    <2>4. WeightOf("gzip") <= WeightOf("br") /\ WeightOf("br") <= WeightOf("br")
      BY <1>3, <2>1
    <2> QED BY <1>4, <2>3, <2>4 DEF Codings, b, s
  <1>5. CASE NegotiateEncoding # "br"
    <2>1. /\ NegotiateEncoding = "gzip"
          /\ ~(WeightOf("br") >= WeightOf("gzip")) /\ ~(WeightOf("br") <= 0 /\ WeightOf("gzip") <= 0)
      BY <1>5 DEF NegotiateEncoding, Identity
    <2>2. WeightOf("gzip") > 0 /\ WeightOf("br") < WeightOf("gzip")
      BY <1>3, <2>1
    <2>3. g > 0 \/ (g = Absent /\ s > 0)
      BY <1>1, <1>2, <2>2 DEF Absent
    <2>4. WeightOf("br") <= WeightOf("gzip") /\ WeightOf("gzip") <= WeightOf("gzip")
      BY <1>3, <2>2
    <2> QED BY <2>1, <2>2, <2>3, <2>4 DEF Codings, g, s
  <1> QED BY <1>4, <1>5

LEMMA CompressedKeeps == CompressionInv /\ (Compressed \/ CompressionFails) => CompressionInv'
  <1> SUFFICES ASSUME CompressionInv, Compressed \/ CompressionFails PROVE CompressionInv'
    OBVIOUS
  <1>0. /\ accepts \in [Codings \cup {"*"} -> {Absent} \cup (0..10)]
        /\ exempt \in BOOLEAN /\ transformable \in BOOLEAN /\ hooked \in BOOLEAN
        /\ produced \in 0..MaxChunks /\ held \in Seq(1..MaxChunks)
        /\ payload \in Seq(Pieces) /\ held \in Seq(Nat) /\ produced \in Nat
        /\ MaxChunks \in Nat /\ MinBytes \in Nat /\ MaxBuffer \in Nat
    BY HeldTyped, CompressionAssumption DEF CompressionInv, CompressionTypeOK
  <1>1. phase = "compressing"
    BY DEF Compressed, CompressionFails
  <1>2. /\ ~headersSent /\ transformable /\ ~exempt /\ ~hooked /\ NegotiateEncoding # Identity
        /\ payload = <<>> /\ Len(held) >= MinBytes /\ coding = Identity
        /\ Received \o held = UpTo(produced)
    BY <1>1 DEF CompressionInv, ResponseWhole, UpTo
  <1>3. /\ UNCHANGED <<accepts, exempt, hooked, produced, transformable>>
        /\ held' = <<>> /\ headersSent' = TRUE /\ phase' = "sent"
    BY DEF Compressed, CompressionFails
  <1>4. PICK x \in {[as |-> NegotiateEncoding, chunks |-> held], Plain(held)} :
           payload' = Append(payload, x) /\ coding' = x.as
    BY <1>2 DEF Compressed, CompressionFails, Plain
  <1>5. x \in Pieces /\ x.chunks = held /\ x.as \in {NegotiateEncoding, Identity}
    BY <1>0, <1>2, NegotiatedBest DEF Pieces, Plain
  <1>6. /\ payload' \in Seq(Pieces) /\ (Received \o held)' = UpTo(produced)
        /\ \A i \in DOMAIN payload' :
              payload'[i] = x \/ (i \in DOMAIN payload /\ payload'[i] = payload[i])
    <2>1. <<>> \in Seq(Nat) /\ x.chunks = held \o <<>>
      BY <1>0, <1>5
    <2>2. UpTo(produced) \in Seq(Nat)
      BY <1>0 DEF UpTo
    <2>3. (Received \o held) \o <<>> = UpTo(produced)
      BY <1>2, <2>2
    <2> QED BY <1>0, <1>3, <1>4, <1>5, <2>1, <2>3, HeldSent
  <1>7. produced >= MinBytes
    <2>1. Received \in Seq(Nat)
      BY <1>0, <1>4, <1>5, ReceivedNext
    <2>2. Len(Received \o held) = Len(Received) + Len(held) /\ Len(Received) \in Nat /\ Len(held) \in Nat
      BY <1>0, <2>1
    <2>3. Len(UpTo(produced)) = produced
      BY <1>0 DEF UpTo
    <2> QED BY <1>0, <1>2, <2>2, <2>3
  <1>8. ResponseWhole'
    <2>1. \A i \in DOMAIN payload' : payload'[i].as = coding'
      BY <1>2, <1>4, <1>6
    <2>2. coding' # Identity =>
             /\ accepts[coding'] > 0 \/ (accepts[coding'] = Absent /\ accepts["*"] > 0)
             /\ \A c \in Codings : WeightOf(c) <= WeightOf(coding')
             /\ coding' = "gzip" => WeightOf("br") < WeightOf("gzip")
      BY <1>0, <1>2, <1>4, <1>5, NegotiatedBest
    <2>3. \A c : WeightOf(c)' = WeightOf(c)
      BY <1>3 DEF WeightOf
    <2> QED BY <1>2, <1>3, <1>6, <1>7, <2>1, <2>2, <2>3 DEF ResponseWhole, UpTo, WeightOf
  <1>9. CompressionTypeOK'
    <2>1. <<>> \in Seq(1..MaxChunks)
      OBVIOUS
    <2>2. coding' \in Codings \cup {Identity}
      BY <1>0, <1>2, <1>4, <1>5, NegotiatedBest
    <2> QED BY <1>0, <1>3, <2>1, <2>2, Zenon DEF CompressionTypeOK
  <1> QED BY <1>2, <1>3, <1>6, <1>8, <1>9 DEF CompressionInv

\* A plain piece more, of what is not held back.
LEMMA PlainSent ==
    ASSUME CompressionInv, NEW more \in Seq(Nat), NEW n \in Nat, held = <<>>, coding = Identity,
           (Received \o held) \o more = UpTo(n), payload' = Append(payload, Plain(more)), held' = <<>>
    PROVE  /\ payload' \in Seq(Pieces) /\ (Received \o held)' = UpTo(n)
           /\ \A i \in DOMAIN payload' : payload'[i].as = Identity
  <1>1. Plain(more) \in Pieces /\ Plain(more).chunks = more /\ Plain(more).as = Identity
    BY PlainPiece
  <1>2. held \o more = more
    BY SMT
  <1>3. /\ payload' \in Seq(Pieces) /\ (Received \o held)' = UpTo(n)
        /\ \A i \in DOMAIN payload' :
              payload'[i] = Plain(more) \/ (i \in DOMAIN payload /\ payload'[i] = payload[i])
    BY <1>1, <1>2, HeldSent
  <1>4. \A i \in DOMAIN payload : payload[i].as = Identity
    BY DEF CompressionInv, ResponseWhole
  <1> QED BY <1>1, <1>3, <1>4

LEMMA WriteThroughKeeps == CompressionInv /\ WriteThrough => CompressionInv'
  <1> SUFFICES ASSUME CompressionInv, WriteThrough PROVE CompressionInv'
    OBVIOUS
  <1>0. CompressionTypeOK
    BY DEF CompressionInv
  <1>1. /\ ~hooked /\ Produce /\ payload' = Append(payload, Plain(<<produced'>>)) /\ headersSent' = TRUE
        /\ UNCHANGED <<accepts, exempt, hooked, held, transformable, coding, phase>>
    BY DEF WriteThrough
  <1>2. /\ phase = "handling" /\ produced' = produced + 1 /\ produced' \in 1..MaxChunks
        /\ produced \in Nat /\ held \in Seq(Nat) /\ Received \o held = UpTo(produced)
    BY <1>1, ProduceKeeps
  <1>3. held = <<>> /\ coding = Identity
    BY <1>1, <1>2 DEF CompressionInv
  <1>4. <<produced'>> \in Seq(Nat) /\ produced + 1 \in Nat /\ <<>> \in Seq(Nat)
    BY <1>2
  <1>5. (Received \o held) \o <<produced'>> = UpTo(produced + 1)
    <2>1. UpTo(produced) \in Seq(Nat) /\ UpTo(produced) \o <<>> = UpTo(produced)
      BY <1>2 DEF UpTo
    <2>2. UpTo(produced) \o (<<>> \o <<produced + 1>>) = UpTo(produced + 1)
      BY <1>2, <1>4, <2>1, UpToNext
    <2>3. <<>> \o <<produced + 1>> = <<produced + 1>>
      BY <1>2
    <2> QED BY <1>2, <2>2, <2>3
  <1>6. held' = <<>>
    BY <1>1, <1>3
  <1>7. /\ payload' \in Seq(Pieces) /\ (Received \o held)' = UpTo(produced + 1)
        /\ \A i \in DOMAIN payload' : payload'[i].as = Identity
    BY <1>1, <1>3, <1>4, <1>5, <1>6, PlainSent
  <1>8. (phase = "handling" => Len(held) <= MaxBuffer)'
    BY <1>3, <1>6, <1>1 DEF CompressionInv, ResponseWhole
  <1>9. ResponseWhole'
    BY <1>1, <1>2, <1>3, <1>6, <1>7, <1>8 DEF ResponseWhole, UpTo
  <1>10. CompressionTypeOK'
    <2>1. produced' \in 0..MaxChunks
      BY <1>2, CompressionAssumption
    <2> QED BY <1>0, <1>1, <1>2, <2>1, Zenon DEF CompressionTypeOK
  <1> QED BY <1>1, <1>2, <1>3, <1>6, <1>7, <1>9, <1>10 DEF CompressionInv

LEMMA HoldChunkKeeps == CompressionInv /\ HoldChunk => CompressionInv'
  <1> SUFFICES ASSUME CompressionInv, HoldChunk PROVE CompressionInv'
    OBVIOUS
  <1>0. CompressionTypeOK
    BY DEF CompressionInv
  <1>1. /\ hooked /\ Produce /\ Len(held) + 1 <= MaxBuffer /\ held' = Append(held, produced')
        /\ UNCHANGED <<accepts, exempt, hooked, headersSent, transformable, coding, payload, phase>>
    BY DEF HoldChunk
  <1>2. /\ phase = "handling" /\ produced' = produced + 1 /\ produced' \in 1..MaxChunks
        /\ produced \in Nat /\ held \in Seq(Nat) /\ Received \o held = UpTo(produced)
    BY <1>1, ProduceKeeps
  <1>3. coding = Identity /\ payload = <<>> /\ ~exempt /\ NegotiateEncoding # Identity
    BY <1>1, <1>2 DEF CompressionInv
  <1>4. Received = <<>>
    BY <1>3, Zenon, EmptyFlat DEF Received
  <1>5. (Received \o held)' = UpTo(produced')
    <2>1. <<>> \in Seq(Nat)
      OBVIOUS
    <2>2. <<>> \o Append(held, produced + 1) = UpTo(produced + 1)
      BY <1>2, <1>4, <2>1, UpToNext
    <2>3. Received' = Received
      BY <1>1 DEF Received
    <2> QED BY <1>1, <1>2, <1>4, <2>2, <2>3
  <1>6. held' \in Seq(1..MaxChunks) /\ Len(held') <= MaxBuffer
    <2>1. held \in Seq(1..MaxChunks)
      BY <1>0 DEF CompressionTypeOK
    <2>2. Append(held, produced') \in Seq(1..MaxChunks)
      BY <1>2, <2>1
    <2>3. Len(Append(held, produced')) = Len(held) + 1
      BY <1>2
    <2> QED BY <1>1, <2>2, <2>3
  <1>7. ResponseWhole'
    <2>1. payload' = <<>> /\ coding' = Identity /\ phase' # "sent"
      BY <1>1, <1>2, <1>3
    <2>2. \A i \in DOMAIN payload' : FALSE
      BY <2>1
    <2> QED BY <1>5, <1>6, <2>1, <2>2, Zenon DEF ResponseWhole, UpTo
  <1>8. CompressionTypeOK'
    <2>1. produced' \in 0..MaxChunks
      BY <1>2, CompressionAssumption
    <2> QED BY <1>0, <1>1, <1>2, <1>6, <2>1, Zenon DEF CompressionTypeOK
  <1>9. NegotiateEncoding' = NegotiateEncoding
    BY <1>1 DEF NegotiateEncoding, WeightOf
  <1>10. payload' \in Seq(Pieces)
    BY <1>1 DEF CompressionInv
  <1> QED BY <1>1, <1>2, <1>3, <1>7, <1>8, <1>9, <1>10 DEF CompressionInv

LEMMA SwitchKeeps == CompressionInv /\ SwitchToPassthrough => CompressionInv'
  <1> SUFFICES ASSUME CompressionInv, SwitchToPassthrough PROVE CompressionInv'
    OBVIOUS
  <1>0. CompressionTypeOK /\ payload \in Seq(Pieces)
    BY DEF CompressionInv
  <1>1. /\ hooked /\ Produce /\ hooked' = FALSE /\ held' = <<>> /\ headersSent' = TRUE
        /\ payload' = payload \o Flushed(Append(held, produced'))
        /\ UNCHANGED <<accepts, exempt, transformable, coding, phase>>
    BY DEF SwitchToPassthrough
  <1>2. /\ phase = "handling" /\ produced' = produced + 1 /\ produced' \in 1..MaxChunks
        /\ produced \in Nat /\ held \in Seq(Nat) /\ Received \o held = UpTo(produced)
    BY <1>1, ProduceKeeps
  <1>3. coding = Identity /\ payload = <<>>
    BY <1>1, <1>2 DEF CompressionInv
  <1>4. Received = <<>>
    BY <1>3, Zenon, EmptyFlat DEF Received
  <1> DEFINE body == Append(held, produced')
  <1>5. body \in Seq(Nat) /\ body = held \o <<produced'>> /\ <<produced'>> \in Seq(Nat)
    BY <1>2
  <1>6. (Received \o held) \o <<produced'>> = UpTo(produced + 1)
    <2>1. <<>> \in Seq(Nat)
      OBVIOUS
    <2>2. Received \o (held \o <<produced + 1>>) = UpTo(produced + 1)
      BY <1>2, <1>4, <2>1, UpToNext
    <2> QED BY <1>2, <1>4, <1>5, <2>1, <2>2, NumbersJoin
  <1>7. payload' = Append(payload, Plain(body))
    <2>1. Plain(body) \in Pieces
      BY <1>5, PlainPiece
    <2>2. payload' = payload \o <<Plain(body)>>
      BY <1>1 DEF Flushed
    <2> HIDE DEF body
    <2> QED BY <1>0, <2>1, <2>2
  <1>8. Plain(body) \in Pieces /\ Plain(body).chunks = held \o <<produced'>> /\ Plain(body).as = Identity
    BY <1>5, PlainPiece
  <1>9. /\ payload' \in Seq(Pieces) /\ (Received \o held)' = UpTo(produced + 1)
        /\ \A i \in DOMAIN payload' :
              payload'[i] = Plain(body) \/ (i \in DOMAIN payload /\ payload'[i] = payload[i])
    <2>1. produced + 1 \in Nat
      BY <1>2
    <2> HIDE DEF body
    <2> QED BY <1>1, <1>5, <1>6, <1>7, <1>8, <2>1, HeldSent
  <1>10. \A i \in DOMAIN payload' : payload'[i].as = Identity
    BY <1>3, <1>8, <1>9
  <1>11. Len(held') <= MaxBuffer
    BY <1>1, CompressionAssumption
  <1>12. ResponseWhole'
    BY <1>1, <1>2, <1>3, <1>9, <1>10, <1>11 DEF ResponseWhole, UpTo
  <1>13. CompressionTypeOK'
    <2>1. produced' \in 0..MaxChunks
      BY <1>2, CompressionAssumption
    <2>2. <<>> \in Seq(1..MaxChunks)
      OBVIOUS
    <2> QED BY <1>0, <1>1, <1>2, <2>1, <2>2, Zenon DEF CompressionTypeOK
  <1> QED BY <1>1, <1>2, <1>3, <1>9, <1>12, <1>13 DEF CompressionInv

LEMMA EndThroughKeeps == CompressionInv /\ EndThrough => CompressionInv'
  <1> SUFFICES ASSUME CompressionInv, EndThrough PROVE CompressionInv'
    OBVIOUS
  <1>0. CompressionTypeOK /\ payload \in Seq(Pieces)
    BY DEF CompressionInv
  <1>1. /\ phase = "handling" /\ ~hooked /\ headersSent' = TRUE /\ phase' = "sent"
        /\ UNCHANGED <<accepts, exempt, hooked, held, transformable, coding>>
    BY DEF EndThrough
  <1>2. PICK more \in LastChunk :
           /\ produced' = produced + Len(more)
           /\ payload' = IF more = <<>> THEN payload ELSE Append(payload, Plain(more))
    BY DEF EndThrough
  <1>3. held = <<>> /\ coding = Identity
    BY <1>1 DEF CompressionInv
  <1>4. /\ more \in Seq(Nat) /\ Len(more) \in {0, 1} /\ produced' \in 0..MaxChunks
        /\ (Received \o held) \o more = UpTo(produced')
    BY <1>2, LastChunkNext
  <1>5. /\ payload' \in Seq(Pieces) /\ (Received \o held)' = UpTo(produced')
        /\ \A i \in DOMAIN payload' : payload'[i].as = Identity
    <2>1. CASE more = <<>>
      <3>1. payload' = payload /\ produced' = produced
        BY <1>0, <1>2, <2>1 DEF CompressionTypeOK
      <3>2. \A i \in DOMAIN payload : payload[i].as = Identity
        BY <1>3 DEF CompressionInv, ResponseWhole
      <3>3. Received' = Received
        BY <3>1 DEF Received
      <3>4. Received \o held = UpTo(produced)
        BY DEF CompressionInv, ResponseWhole, UpTo
      <3> QED BY <1>0, <1>1, <3>1, <3>2, <3>3, <3>4
    <2>2. CASE more # <<>>
      <3>1. payload' = Append(payload, Plain(more))
        BY <1>2, <2>2
      <3>2. produced' \in Nat
        BY <1>4, CompressionAssumption
      <3> QED BY <1>1, <1>3, <1>4, <3>1, <3>2, PlainSent
    <2> QED BY <2>1, <2>2
  <1>6. ResponseWhole'
    BY <1>1, <1>3, <1>5 DEF ResponseWhole, UpTo
  <1>7. CompressionTypeOK'
    BY <1>0, <1>1, <1>4, Zenon DEF CompressionTypeOK
  <1> QED BY <1>1, <1>3, <1>5, <1>6, <1>7 DEF CompressionInv

LEMMA CompressionStep ==
    ASSUME CompressionInv, CompressionNext \/ UNCHANGED compressionVars
    PROVE  CompressionInv'
  <1>1. CASE UNCHANGED compressionVars
    BY <1>1 DEF compressionVars, CompressionInv, CompressionTypeOK, ResponseWhole, Received, WeightOf,
                NegotiateEncoding
  <1>2. CASE Use
    <2>0. CompressionTypeOK
      BY DEF CompressionInv
    <2>1. /\ phase = "arrived" /\ phase' = "handling"
          /\ hooked' = (~exempt /\ NegotiateEncoding # Identity)
          /\ UNCHANGED <<accepts, exempt, produced, held, headersSent, transformable, coding, payload>>
      BY <1>2 DEF Use
    <2>2. payload = <<>> /\ held = <<>> /\ coding = Identity
      BY <2>1 DEF CompressionInv
    <2>3. Received' = Received
      BY <2>1 DEF Received
    <2>4. Len(held') <= MaxBuffer
      BY <2>1, <2>2, CompressionAssumption
    <2>5. ResponseWhole'
      BY <2>1, <2>2, <2>3, <2>4 DEF CompressionInv, ResponseWhole
    <2>6. CompressionTypeOK'
      BY <2>0, <2>1, Zenon DEF CompressionTypeOK
    <2>7. NegotiateEncoding' = NegotiateEncoding
      BY <2>1 DEF NegotiateEncoding, WeightOf
    <2> QED BY <2>1, <2>2, <2>5, <2>6, <2>7 DEF CompressionInv
  <1>3. CASE SendHeaders
    <2>0. CompressionTypeOK
      BY DEF CompressionInv
    <2>1. /\ phase = "handling" /\ headersSent' = TRUE
          /\ UNCHANGED <<accepts, exempt, hooked, produced, held, transformable, coding, payload, phase>>
      BY <1>3 DEF SendHeaders
    <2>2. Received' = Received
      BY <2>1 DEF Received
    <2>3. ResponseWhole'
      BY <2>1, <2>2 DEF CompressionInv, ResponseWhole, WeightOf
    <2>4. CompressionTypeOK'
      BY <2>0, <2>1, Zenon DEF CompressionTypeOK
    <2>5. NegotiateEncoding' = NegotiateEncoding
      BY <2>1 DEF NegotiateEncoding, WeightOf
    <2> QED BY <2>1, <2>3, <2>4, <2>5 DEF CompressionInv
  <1> QED BY <1>1, <1>2, <1>3, WriteThroughKeeps, HoldChunkKeeps, SwitchKeeps, EndThroughKeeps,
             EndHeldKeeps, CompressedKeeps DEF CompressionNext

LEMMA CompressionInitial == CompressionInit => CompressionInv
  <1> SUFFICES ASSUME CompressionInit PROVE CompressionInv
    OBVIOUS
  <1>1. CompressionTypeOK
    <2>1. <<>> \in Seq(1..MaxChunks)
      OBVIOUS
    <2>2. accepts \in [Codings \cup {"*"} -> {Absent} \cup (0..10)]
      BY DEF CompressionInit
    <2>3. /\ exempt \in BOOLEAN /\ hooked = FALSE /\ produced = 0 /\ held = <<>> /\ headersSent = FALSE
          /\ transformable \in BOOLEAN /\ coding = Identity /\ phase = "arrived"
      BY Zenon DEF CompressionInit
    <2>4. 0 \in 0..MaxChunks
      BY CompressionAssumption
    <2> QED BY <2>1, <2>2, <2>3, <2>4, Zenon DEF CompressionTypeOK
  <1>2. Received \o held = [i \in 1..produced |-> i]
    <2>1. payload = <<>> /\ held = <<>> /\ produced = 0
      BY DEF CompressionInit
    <2>2. Received = <<>>
      BY <2>1, Zenon, EmptyFlat DEF Received
    <2> QED BY <2>1, <2>2
  <1>3. ResponseWhole
    BY <1>2, CompressionAssumption DEF CompressionInit, ResponseWhole
  <1>4. payload \in Seq(Pieces)
    BY DEF CompressionInit
  <1> QED BY <1>1, <1>3, <1>4 DEF CompressionInit, CompressionInv

-----------------------------------------------------------------------------
(* AccountReads: balances                                                     *)

\* Each balance got is one seen meanwhile, and the present ones are seen.
BalancesInv ==
    /\ chain \in [TokenRows -> 0..MaxBalance]
    /\ reading \in [pc : {"none", "calling", "answered", "failed"}, todo : SUBSET TokenRows,
                    got : UNION {[S -> [whole : Int, frac : Int]] : S \in SUBSET TokenRows},
                    refused : SUBSET TokenRows, seen : [TokenRows -> SUBSET Int]]
    /\ reading.pc = "none" => reading.got = <<>> /\ reading.refused = {}
    /\ reading.pc = "calling" =>
          /\ \A t \in TokenRows : chain[t] \in reading.seen[t]
          /\ DOMAIN reading.got = (TokenRows \ reading.todo) \ reading.refused
          /\ reading.refused \cap reading.todo = {}
          /\ \A t \in DOMAIN reading.got : BaseUnits(reading.got[t]) \in reading.seen[t]
    /\ BalancesReal

\* A number written in decimals is that number.
LEMMA DecimalExact ==
    ASSUME NEW n \in Nat
    PROVE  Decimal(n) \in [whole : Int, frac : Int] /\ BaseUnits(Decimal(n)) = n
  <1>1. PICK k \in Nat : n \div 2 = k /\ (n = 2 * k \/ n = 2 * k + 1)
    OBVIOUS
  <1>2. (2 * k) % 2 = 0 /\ (2 * k + 1) % 2 = 1
    OBVIOUS
  <1>3. CASE n = 2 * k
    <2>1. n \div 2 = k /\ n % 2 = 0 /\ k * 2 + 0 = n /\ k \in Int
      BY <1>1, <1>2, <1>3
    <2> QED BY <2>1 DEF Decimal, BaseUnits
  <1>4. CASE n = 2 * k + 1
    <2>1. n \div 2 = k /\ n % 2 = 1 /\ k * 2 + 1 = n /\ k \in Int
      BY <1>1, <1>2, <1>4
    <2> QED BY <2>1 DEF Decimal, BaseUnits
  <1> QED BY <1>1, <1>3, <1>4

LEMMA EmptyMap == <<>> \in UNION {[S -> [whole : Int, frac : Int]] : S \in SUBSET TokenRows} /\ DOMAIN <<>> = {}
  <1>1. <<>> \in [{} -> [whole : Int, frac : Int]] /\ DOMAIN <<>> = {}
    OBVIOUS
  <1> QED BY <1>1

LEMMA BalanceChangesKeeps ==
    ASSUME BalancesInv, NEW u \in TokenRows, NEW v \in 0..MaxBalance, BalanceChanges(u, v)
    PROVE  BalancesInv'
  <1>1. chain' = [chain EXCEPT ![u] = v] /\ chain' \in [TokenRows -> 0..MaxBalance]
    BY DEF BalanceChanges, BalancesInv
  <1>2. v \in Int
    OBVIOUS
  <1>3. CASE reading.pc = "calling"
    <2>1. reading' = [reading EXCEPT !.seen[u] = @ \cup {v}]
      BY <1>3 DEF BalanceChanges
    <2>2. /\ reading'.pc = "calling" /\ reading'.todo = reading.todo /\ reading'.got = reading.got
          /\ reading'.refused = reading.refused
          /\ reading'.seen = [reading.seen EXCEPT ![u] = @ \cup {v}]
      BY <1>3, <2>1 DEF BalancesInv
    <2>3. \A t \in TokenRows : reading'.seen[t] = IF t = u THEN reading.seen[t] \cup {v} ELSE reading.seen[t]
      BY <2>2 DEF BalancesInv
    <2>4. reading'.seen \in [TokenRows -> SUBSET Int]
      BY <1>2, <2>2 DEF BalancesInv
    <2>5. reading' \in [pc : {"none", "calling", "answered", "failed"}, todo : SUBSET TokenRows,
                    got : UNION {[S -> [whole : Int, frac : Int]] : S \in SUBSET TokenRows},
                    refused : SUBSET TokenRows, seen : [TokenRows -> SUBSET Int]]
      BY <1>2, <2>1, <2>4 DEF BalancesInv
    <2>6. \A t \in TokenRows : chain'[t] \in reading'.seen[t]
      BY <1>1, <1>3, <2>3 DEF BalancesInv
    <2>7. \A t \in DOMAIN reading.got : BaseUnits(reading.got[t]) \in reading'.seen[t]
      BY <1>3, <2>3 DEF BalancesInv
    <2> QED BY <1>1, <1>3, <2>2, <2>5, <2>6, <2>7 DEF BalancesInv, BalancesReal
  <1>4. CASE reading.pc # "calling"
    <2>1. reading' = reading
      BY <1>4 DEF BalanceChanges
    <2> QED BY <1>1, <1>4, <2>1 DEF BalancesInv, BalancesReal
  <1> QED BY <1>3, <1>4

LEMMA CallBalanceKeeps ==
    ASSUME BalancesInv, NEW u \in TokenRows, CallBalance(u)
    PROVE  BalancesInv'
  <1>1. reading.pc = "calling" /\ u \in reading.todo /\ chain' = chain
    BY DEF CallBalance
  <1>2. chain[u] \in Nat /\ chain[u] \in reading.seen[u]
    BY <1>1, ReadsAssumption DEF BalancesInv
  <1>3. CASE reading' = [reading EXCEPT !.todo = @ \ {u}, !.got = Got(u, Decimal(chain[u]))]
    <2>1. /\ reading'.pc = "calling" /\ reading'.todo = reading.todo \ {u}
          /\ reading'.got = Got(u, Decimal(chain[u]))
          /\ reading'.refused = reading.refused /\ reading'.seen = reading.seen
      BY <1>1, <1>3 DEF BalancesInv
    <2> DEFINE D == DOMAIN reading.got \cup {u}
    <2>2. Decimal(chain[u]) \in [whole : Int, frac : Int] /\ BaseUnits(Decimal(chain[u])) = chain[u]
      BY <1>2, DecimalExact
    <2>3. \A t \in DOMAIN reading.got : reading.got[t] \in [whole : Int, frac : Int]
      BY DEF BalancesInv
    <2>4. DOMAIN reading.got \subseteq TokenRows
      BY DEF BalancesInv
    <2>5. Got(u, Decimal(chain[u])) \in [D -> [whole : Int, frac : Int]]
      BY <2>2, <2>3 DEF Got
    <2>6. Got(u, Decimal(chain[u])) \in UNION {[S -> [whole : Int, frac : Int]] : S \in SUBSET TokenRows}
      BY <2>4, <2>5
    <2>7. DOMAIN reading'.got = D
      BY <2>1, <2>5
    <2>8. \A t \in D : reading'.got[t] = IF t = u THEN Decimal(chain[u]) ELSE reading.got[t]
      BY <2>1 DEF Got
    <2>9. \A t \in D : BaseUnits(reading'.got[t]) \in reading'.seen[t]
      BY <1>1, <1>2, <2>1, <2>2, <2>8 DEF BalancesInv
    <2>10. D = (TokenRows \ reading'.todo) \ reading'.refused
      BY <1>1, <2>1 DEF BalancesInv
    <2>11. reading' \in [pc : {"none", "calling", "answered", "failed"}, todo : SUBSET TokenRows,
                    got : UNION {[S -> [whole : Int, frac : Int]] : S \in SUBSET TokenRows},
                    refused : SUBSET TokenRows, seen : [TokenRows -> SUBSET Int]]
      BY <1>3, <2>6 DEF BalancesInv
    <2> HIDE DEF D
    <2> QED BY <1>1, <2>1, <2>7, <2>9, <2>10, <2>11 DEF BalancesInv, BalancesReal
  <1>4. CASE reading' = [reading EXCEPT !.todo = @ \ {u}, !.got = Omitted(u), !.refused = @ \cup {u}]
    <2>1. /\ reading'.pc = "calling" /\ reading'.todo = reading.todo \ {u}
          /\ reading'.got = reading.got
          /\ reading'.refused = reading.refused \cup {u} /\ reading'.seen = reading.seen
      BY <1>1, <1>4 DEF BalancesInv, Omitted
    <2>2. reading' \in [pc : {"none", "calling", "answered", "failed"}, todo : SUBSET TokenRows,
                    got : UNION {[S -> [whole : Int, frac : Int]] : S \in SUBSET TokenRows},
                    refused : SUBSET TokenRows, seen : [TokenRows -> SUBSET Int]]
      BY <1>4 DEF BalancesInv, Omitted
    <2>3. DOMAIN reading.got = (TokenRows \ reading'.todo) \ reading'.refused
      BY <1>1, <2>1 DEF BalancesInv
    <2> QED BY <1>1, <2>1, <2>2, <2>3 DEF BalancesInv, BalancesReal
  <1> QED BY <1>3, <1>4 DEF CallBalance

LEMMA BalancesStep ==
    ASSUME BalancesInv, BalancesNext \/ UNCHANGED balanceVars
    PROVE  BalancesInv'
  <1>1. CASE UNCHANGED balanceVars
    BY <1>1 DEF balanceVars, BalancesInv, BalancesReal
  <1>2. CASE AskBalances
    <2> DEFINE seen == [t \in TokenRows |-> {chain[t]}]
    <2>1. /\ reading.pc = "none" /\ chain' = chain
          /\ reading' = [reading EXCEPT !.pc = "calling", !.todo = TokenRows, !.seen = seen]
      BY <1>2 DEF AskBalances
    <2>2. /\ reading'.pc = "calling" /\ reading'.todo = TokenRows /\ reading'.seen = seen
          /\ reading'.got = <<>> /\ reading'.refused = {}
      BY <2>1 DEF BalancesInv
    <2>3. seen \in [TokenRows -> SUBSET Int] /\ \A t \in TokenRows : chain[t] \in seen[t]
      BY DEF BalancesInv
    <2> HIDE DEF seen
    <2>4. reading' \in [pc : {"none", "calling", "answered", "failed"}, todo : SUBSET TokenRows,
                    got : UNION {[S -> [whole : Int, frac : Int]] : S \in SUBSET TokenRows},
                    refused : SUBSET TokenRows, seen : [TokenRows -> SUBSET Int]]
      BY <2>1, <2>3 DEF BalancesInv
    <2> QED BY <2>1, <2>2, <2>3, <2>4, EmptyMap DEF BalancesInv, BalancesReal
  <1>3. CASE AnswerBalances
    <2>1. reading.pc = "calling" /\ reading.todo = {} /\ chain' = chain /\ reading' = [reading EXCEPT !.pc = "answered"]
      BY <1>3 DEF AnswerBalances
    <2>2. /\ reading'.pc = "answered" /\ reading'.todo = {} /\ reading'.seen = reading.seen
          /\ reading'.got = reading.got /\ reading'.refused = reading.refused
      BY <2>1 DEF BalancesInv
    <2>3. reading' \in [pc : {"none", "calling", "answered", "failed"}, todo : SUBSET TokenRows,
                    got : UNION {[S -> [whole : Int, frac : Int]] : S \in SUBSET TokenRows},
                    refused : SUBSET TokenRows, seen : [TokenRows -> SUBSET Int]]
      BY <2>1 DEF BalancesInv
    <2> QED BY <2>1, <2>2, <2>3 DEF BalancesInv, BalancesReal
  <1>4. CASE BalancesFail
    <2>1. chain' = chain /\ reading' = [reading EXCEPT !.pc = "failed", !.got = <<>>]
      BY <1>4 DEF BalancesFail
    <2>2. reading'.pc = "failed" /\ reading'.got = <<>>
      BY <2>1 DEF BalancesInv
    <2>3. reading' \in [pc : {"none", "calling", "answered", "failed"}, todo : SUBSET TokenRows,
                    got : UNION {[S -> [whole : Int, frac : Int]] : S \in SUBSET TokenRows},
                    refused : SUBSET TokenRows, seen : [TokenRows -> SUBSET Int]]
      BY <2>1, EmptyMap DEF BalancesInv
    <2> QED BY <2>1, <2>2, <2>3, EmptyMap DEF BalancesInv, BalancesReal
  <1>5. QED BY <1>1, <1>2, <1>3, <1>4, BalanceChangesKeeps, CallBalanceKeeps DEF BalancesNext

LEMMA BalancesInitial == BalancesInit => BalancesInv
  <1> SUFFICES ASSUME BalancesInit PROVE BalancesInv
    OBVIOUS
  <1>1. chain \in [TokenRows -> 0..MaxBalance]
    BY ReadsAssumption DEF BalancesInit
  <1>2. reading = [pc |-> "none", todo |-> {}, got |-> <<>>, refused |-> {}, seen |-> [t \in TokenRows |-> {}]]
    BY DEF BalancesInit
  <1>3. [t \in TokenRows |-> {}] \in [TokenRows -> SUBSET Int]
    OBVIOUS
  <1> QED BY <1>1, <1>2, <1>3, EmptyMap DEF BalancesInv, BalancesReal

-----------------------------------------------------------------------------
(* AccountReads: positions in bulk                                            *)

BulkItems == [id : Nat, closed : BOOLEAN, pool : HalfTicks, price : HalfTicks \cup {NoSpot},
              range : {Unread, "none", "in-range", "out-of-range"}]

\* What an answer says of one position.
ItemTrue(it) ==
    LET counted == LowerTick <= it.price \div 2 /\ it.price \div 2 < UpperTick
    IN /\ it.closed <=> it.range = "none"
       /\ ~it.closed => /\ it.range = "in-range" => counted
                        /\ counted /\ it.range # "in-range" => it.price = 2 * LowerTick

\* Of the positions the rows are the newest.
NewestOf(ids, all) == /\ ids \subseteq all
                      /\ \A left \in all \ ids : Cardinality(ids) = BulkCap /\ \A id \in ids : left < id

BulkIds == {bulk.items[i].id : i \in DOMAIN bulk.items}

BulkInv ==
    /\ holding \in Seq(BOOLEAN)
    /\ poolPrice \in HalfTicks /\ spot \in HalfTicks \cup {NoSpot}
    /\ bulk \in [pc : {"none", "reading", "answered", "failed"}, status : {"active", "closed", "all"},
                 left : SUBSET {"count", "rows"}, total : Nat, began : SUBSET Nat, still : BOOLEAN,
                 items : Seq(BulkItems)]
    /\ bulk.pc = "none" => bulk.left = {"count", "rows"} /\ bulk.items = <<>>
    /\ bulk.pc = "answered" => bulk.left = {} /\ \A i \in DOMAIN bulk.items : bulk.items[i].range # Unread
    /\ bulk.pc = "reading" /\ bulk.still => Wanted = bulk.began
    /\ bulk.pc \in {"reading", "answered"} =>
          /\ bulk.still /\ "count" \notin bulk.left => bulk.total = Cardinality(bulk.began)
          /\ bulk.still /\ "rows" \notin bulk.left => NewestOf(BulkIds, bulk.began)
          /\ "rows" \in bulk.left => bulk.items = <<>>
    /\ \A i, j \in DOMAIN bulk.items : i < j => bulk.items[i].id > bulk.items[j].id
    /\ \A i \in DOMAIN bulk.items :
          /\ bulk.status # "all" => bulk.items[i].closed = (bulk.status = "closed")
          /\ bulk.items[i].range = Unread \/ ItemTrue(bulk.items[i])

\* Positions in bulk: ordered, of the status asked for, the newest while nothing moved,
\* and in range by the price they were computed at.
LEMMA BulkMeans == BulkInv => BulkTrue
  <1> SUFFICES ASSUME BulkInv, bulk.pc = "answered" PROVE BulkTrue
    BY DEF BulkTrue
  <1>1. bulk.left = {}
    BY DEF BulkInv
  <1>2. bulk.still => NewestOf(BulkIds, bulk.began) /\ bulk.total = Cardinality(bulk.began)
    BY <1>1 DEF BulkInv
  <1>3. \A i \in DOMAIN bulk.items : ItemTrue(bulk.items[i])
    BY DEF BulkInv
  <1>4. \A i, j \in DOMAIN bulk.items : i < j => bulk.items[i].id > bulk.items[j].id
    BY DEF BulkInv
  <1>5. \A i \in DOMAIN bulk.items : bulk.status # "all" => bulk.items[i].closed = (bulk.status = "closed")
    BY DEF BulkInv
  <1> QED BY <1>2, <1>3, <1>4, <1>5 DEF BulkTrue, ItemTrue, NewestOf, BulkIds

\* The rows the query returns are the newest, each once.
LEMMA NewestFirst ==
    ASSUME NEW ids, ids \subseteq Nat, IsFiniteSet(ids)
    PROVE  /\ NewestRows(ids) \in Seq(ids)
           /\ \A i, j \in DOMAIN NewestRows(ids) : i < j => NewestRows(ids)[i] > NewestRows(ids)[j]
           /\ NewestOf({NewestRows(ids)[i] : i \in DOMAIN NewestRows(ids)}, ids)
  <1> DEFINE R == {p \in ids \X ids : p[1] > p[2]}
             Sorted == {s \in SetToSeqs(ids) : \A i, j \in DOMAIN s : i < j => ~(s[j] > s[i])}
             s == CHOOSE s \in Sorted : TRUE
             n == IF Len(s) < BulkCap THEN Len(s) ELSE BulkCap
             rows == SubSeq(s, 1, n)
  <1>1. NewestRows(ids) = rows
    BY DEF NewestRows, FirstOf, Ordered
  <1>2. \E q \in SetToSeqs(ids) : \A i, j \in DOMAIN q : i < j => <<q[i], q[j]>> \in R
    <2>1. \A x \in ids : <<x, x>> \notin R
      OBVIOUS
    <2>2. \A x, y \in ids : x # y => <<x, y>> \in R \/ <<y, x>> \in R
      OBVIOUS
    <2>3. \A x, y, z \in ids : <<x, y>> \in R /\ <<y, z>> \in R => <<x, z>> \in R
      OBVIOUS
    <2> HIDE DEF R
    <2> QED BY <2>1, <2>2, <2>3, OrderExists
  <1>3. Sorted # {}
    <2>1. PICK q \in SetToSeqs(ids) : \A i, j \in DOMAIN q : i < j => <<q[i], q[j]>> \in R
      BY <1>2
    <2>2. \A i, j \in DOMAIN q : q[i] \in ids /\ q[j] \in ids
      BY InOrder
    <2>3. \A i, j \in DOMAIN q : i < j => q[i] > q[j]
      BY <2>1
    <2>4. ASSUME NEW i \in DOMAIN q, NEW j \in DOMAIN q, i < j PROVE ~(q[j] > q[i])
      <3>1. q[i] \in Nat /\ q[j] \in Nat
        BY <2>2
      <3>2. q[i] > q[j]
        BY <2>3, <2>4
      <3> QED BY <3>1, <3>2
    <2>5. q \in Sorted
      BY <2>4
    <2> QED BY <2>5
  <1>4. s \in Sorted
    BY <1>3
  <1> HIDE DEF s
  <1>5. /\ s \in Seq(ids) /\ Len(s) = Cardinality(ids) /\ Len(s) \in Nat /\ DOMAIN s = 1..Len(s)
        /\ \A i \in 1..Len(s) : s[i] \in ids
        /\ \A i, j \in 1..Len(s) : s[i] = s[j] => i = j
        /\ \A x \in ids : \E i \in 1..Len(s) : s[i] = x
    BY <1>4, InOrder
  <1>6. \A i, j \in 1..Len(s) : i < j => s[i] > s[j]
    <2> SUFFICES ASSUME NEW i \in 1..Len(s), NEW j \in 1..Len(s), i < j PROVE s[i] > s[j]
      OBVIOUS
    <2>1. ~(s[j] > s[i])
      BY <1>4, <1>5
    <2>2. s[i] \in Nat /\ s[j] \in Nat
      BY <1>5
    <2>3. s[i] # s[j]
      <3>1. i # j
        OBVIOUS
      <3> QED BY <1>5, <3>1
    <2> QED BY <2>1, <2>2, <2>3
  <1>7. /\ rows \in Seq(ids) /\ Len(rows) = n /\ n \in Nat /\ n <= Len(s) /\ n <= BulkCap
        /\ \A i \in 1..n : rows[i] = s[i] /\ i \in 1..Len(s)
    BY <1>5, FirstPart, ReadsAssumption
  <1>8. DOMAIN rows = 1..n
    BY <1>7
  <1>8a. n < Len(s) => n = BulkCap
    BY ReadsAssumption, <1>5
  <1> HIDE DEF rows, n, Sorted
  <1>9. \A i, j \in 1..n : i < j => rows[i] > rows[j]
    BY <1>6, <1>7
  <1> DEFINE got == {rows[i] : i \in 1..n}
  <1>10. got \subseteq ids
    BY <1>5, <1>7
  <1>11. Cardinality(got) = n
    <2> DEFINE f == [i \in 1..n |-> rows[i]]
    <2>1. f \in Surjection(1..n, got)
      BY DEF Surjection
    <2>2. f \in Injection(1..n, got)
      <3>1. f \in [1..n -> got]
        OBVIOUS
      <3>2. \A i, j \in 1..n : f[i] = f[j] => i = j
        BY <1>5, <1>7
      <3> HIDE DEF f, got
      <3> QED BY <3>1, <3>2 DEF Injection, IsInjective
    <2> HIDE DEF f, got
    <2>3. IsFiniteSet(1..n) /\ Cardinality(1..n) = n
      BY <1>7, FS_Interval
    <2> QED BY <2>1, <2>2, <2>3, FS_Surjection
  <1>12. ASSUME NEW left \in ids \ got
         PROVE  Cardinality(got) = BulkCap /\ \A id \in got : left < id
    <2>1. PICK k \in 1..Len(s) : s[k] = left
      BY <1>5
    <2>2. k \notin 1..n
      BY <1>7, <2>1
    <2>3. n < k /\ n = BulkCap
      BY <1>5, <1>7, <1>8a, <2>2
    <2>4. \A i \in 1..n : left < rows[i]
      BY <1>6, <1>7, <2>1, <2>3
    <2> QED BY <1>11, <2>3, <2>4
  <1>13. NewestOf(got, ids)
    <2> HIDE DEF got
    <2> QED BY <1>10, <1>12 DEF NewestOf
  <1> QED BY <1>1, <1>7, <1>8, <1>9, <1>13

BulkRecord == [pc : {"none", "reading", "answered", "failed"}, status : {"active", "closed", "all"},
               left : SUBSET {"count", "rows"}, total : Nat, began : SUBSET Nat, still : BOOLEAN,
               items : Seq(BulkItems)]

\* The positions of a status are finitely many numbers.
LEMMA MatchingTyped ==
    ASSUME holding \in Seq(BOOLEAN), NEW status
    PROVE  Matching(status) \subseteq Nat /\ IsFiniteSet(Matching(status)) /\ Cardinality(Matching(status)) \in Nat
  <1>1. DOMAIN holding = 1..Len(holding) /\ Len(holding) \in Nat
    OBVIOUS
  <1>2. IsFiniteSet(1..Len(holding))
    BY <1>1, FS_Interval
  <1>3. Matching(status) \in SUBSET (1..Len(holding))
    BY <1>1 DEF Matching
  <1> QED BY <1>2, <1>3, FS_Subset, FS_CardinalityType

\* A position opens or closes.
LEMMA HoldingMoves ==
    ASSUME BulkInv, holding' \in Seq(BOOLEAN), Disturbed, UNCHANGED <<poolPrice, spot>>
    PROVE  BulkInv'
  <1>1. bulk' = [bulk EXCEPT !.still = @ /\ bulk.pc # "reading"] /\ bulk \in BulkRecord
    BY DEF Disturbed, BulkInv, BulkRecord
  <1>2. (bulk.still /\ bulk.pc # "reading") \in BOOLEAN
    OBVIOUS
  <1>3. /\ bulk'.pc = bulk.pc /\ bulk'.status = bulk.status /\ bulk'.left = bulk.left
        /\ bulk'.total = bulk.total /\ bulk'.began = bulk.began /\ bulk'.items = bulk.items
        /\ bulk' \in BulkRecord
    BY <1>1, <1>2 DEF BulkRecord
  <1>4. bulk'.still => bulk.still /\ bulk.pc # "reading"
    BY <1>1 DEF BulkRecord
  <1>5. BulkIds' = BulkIds
    BY <1>3 DEF BulkIds
  <1>6. bulk'.pc = "reading" /\ bulk'.still => FALSE
    BY <1>3, <1>4
  <1> QED BY <1>3, <1>4, <1>5, <1>6 DEF BulkInv, BulkRecord

LEMMA CountBulkKeeps == BulkInv /\ CountBulk => BulkInv'
  <1> SUFFICES ASSUME BulkInv, CountBulk PROVE BulkInv'
    OBVIOUS
  <1>1. /\ bulk.pc = "reading" /\ "count" \in bulk.left /\ UNCHANGED <<holding, poolPrice, spot>>
        /\ bulk' = [bulk EXCEPT !.total = Cardinality(Wanted), !.left = @ \ {"count"}]
    BY DEF CountBulk
  <1>2. Cardinality(Wanted) \in Nat
    BY MatchingTyped DEF Wanted, BulkInv
  <1>3. /\ bulk'.pc = bulk.pc /\ bulk'.status = bulk.status /\ bulk'.left = bulk.left \ {"count"}
        /\ bulk'.total = Cardinality(Wanted) /\ bulk'.began = bulk.began /\ bulk'.items = bulk.items
        /\ bulk'.still = bulk.still /\ bulk' \in BulkRecord
    BY <1>1, <1>2 DEF BulkInv, BulkRecord
  <1>4. BulkIds' = BulkIds /\ Wanted' = Wanted
    BY <1>1, <1>3 DEF BulkIds, Wanted, Matching
  <1>5. bulk.still => Wanted = bulk.began
    BY <1>1 DEF BulkInv
  <1> QED BY <1>1, <1>3, <1>4, <1>5 DEF BulkInv, BulkRecord

LEMMA RowsBulkKeeps == BulkInv /\ RowsBulk => BulkInv'
  <1> SUFFICES ASSUME BulkInv, RowsBulk PROVE BulkInv'
    OBVIOUS
  <1> DEFINE ids == NewestRows(Wanted)
             items == [i \in DOMAIN ids |->
                         [id |-> ids[i], closed |-> holding[ids[i]], pool |-> poolPrice,
                          price |-> NoSpot, range |-> Unread]]
  <1>1. /\ bulk.pc = "reading" /\ "rows" \in bulk.left /\ UNCHANGED <<holding, poolPrice, spot>>
        /\ bulk' = [bulk EXCEPT !.left = @ \ {"rows"}, !.items = items]
    BY DEF RowsBulk
  <1>2. /\ Wanted \subseteq Nat /\ IsFiniteSet(Wanted) /\ holding \in Seq(BOOLEAN)
        /\ poolPrice \in HalfTicks /\ bulk \in BulkRecord
    BY MatchingTyped DEF Wanted, BulkInv, BulkRecord
  <1>3. /\ ids \in Seq(Wanted) /\ \A i, j \in DOMAIN ids : i < j => ids[i] > ids[j]
        /\ NewestOf({ids[i] : i \in DOMAIN ids}, Wanted)
    BY <1>2, NewestFirst
  <1>4. \A i \in DOMAIN ids : ids[i] \in Wanted /\ ids[i] \in Nat
    <2> HIDE DEF ids
    <2>1. DOMAIN ids = 1..Len(ids) /\ \A i \in 1..Len(ids) : ids[i] \in Wanted
      BY <1>3
    <2> QED BY <1>2, <2>1
  <1>5. \A id \in Wanted : id \in DOMAIN holding /\ holding[id] \in BOOLEAN
                            /\ (bulk.status # "all" => holding[id] = (bulk.status = "closed"))
    <2>1. \A id \in DOMAIN holding : holding[id] \in BOOLEAN
      BY <1>2
    <2> QED BY <2>1 DEF Wanted, Matching
  <1> HIDE DEF ids
  <1>6. \A i \in DOMAIN ids : /\ items[i].id = ids[i] /\ items[i].closed = holding[ids[i]]
                               /\ items[i].range = Unread /\ items[i] \in BulkItems
    BY <1>2, <1>4, <1>5 DEF BulkItems
  <1>7. DOMAIN items = DOMAIN ids /\ items \in Seq(BulkItems)
    <2>1. DOMAIN ids = 1..Len(ids) /\ Len(ids) \in Nat
      BY <1>3
    <2>2. \A i \in 1..Len(ids) : items[i] \in BulkItems
      BY <1>6, <2>1
    <2>3. items = [i \in 1..Len(ids) |-> items[i]]
      BY <2>1
    <2>4. DOMAIN items = DOMAIN ids
      OBVIOUS
    <2> HIDE DEF items
    <2> QED BY <2>1, <2>2, <2>3, <2>4
  <1> HIDE DEF items
  <1>8. /\ bulk'.pc = bulk.pc /\ bulk'.status = bulk.status /\ bulk'.left = bulk.left \ {"rows"}
        /\ bulk'.total = bulk.total /\ bulk'.began = bulk.began /\ bulk'.items = items
        /\ bulk'.still = bulk.still /\ bulk' \in BulkRecord
    BY <1>1, <1>2, <1>7 DEF BulkRecord
  <1>9. BulkIds' = {ids[i] : i \in DOMAIN ids} /\ Wanted' = Wanted
    <2>1. \A i \in DOMAIN items : items[i].id = ids[i]
      BY <1>6, <1>7
    <2>2. BulkIds' = {items[i].id : i \in DOMAIN items}
      BY <1>8 DEF BulkIds
    <2> QED BY <1>1, <1>7, <1>8, <2>1, <2>2 DEF Wanted, Matching
  <1>10. bulk.still => Wanted = bulk.began
    BY <1>1 DEF BulkInv
  <1>11. \A i, j \in DOMAIN items : i < j => items[i].id > items[j].id
    BY <1>3, <1>6, <1>7
  <1>12. \A i \in DOMAIN items :
          /\ bulk.status # "all" => items[i].closed = (bulk.status = "closed")
          /\ items[i].range = Unread
    BY <1>4, <1>5, <1>6, <1>7
  <1>13. bulk'.still => NewestOf(BulkIds', bulk'.began)
    BY <1>3, <1>8, <1>9, <1>10
  <1> QED BY <1>1, <1>2, <1>8, <1>9, <1>10, <1>11, <1>12, <1>13 DEF BulkInv, BulkRecord

\* In range is what the contract counts, but for the bound.
LEMMA RangeCounted ==
    ASSUME NEW p \in Nat
    PROVE  /\ InRange(p) => LowerTick <= p \div 2 /\ p \div 2 < UpperTick
           /\ LowerTick <= p \div 2 /\ p \div 2 < UpperTick /\ ~InRange(p) => p = 2 * LowerTick
  BY DEF InRange, LowerTick, UpperTick

LEMMA PriceItemKeeps == ASSUME BulkInv, NEW i, PriceItem(i) PROVE BulkInv'
  <1> DEFINE p == IF spot # NoSpot THEN spot ELSE bulk.items[i].pool
             word == IF bulk.items[i].closed THEN "none" ELSE IF InRange(p) THEN "in-range" ELSE "out-of-range"
             it == [bulk.items[i] EXCEPT !.price = p, !.range = word]
  <1>1. /\ bulk.pc = "reading" /\ bulk.left = {} /\ i \in DOMAIN bulk.items
        /\ UNCHANGED <<holding, poolPrice, spot>>
        /\ bulk' = [bulk EXCEPT !.items[i].price = p, !.items[i].range = word]
    BY DEF PriceItem
  <1>2. bulk \in BulkRecord /\ bulk.items \in Seq(BulkItems)
    BY DEF BulkInv, BulkRecord
  <1>3. bulk.items[i] \in BulkItems
    BY <1>1, <1>2
  <1>4. p \in HalfTicks /\ p \in Nat /\ bulk.items[i].closed \in BOOLEAN
    BY <1>3, ReadsAssumption DEF BulkInv, BulkItems
  <1>5. word \in {"none", "in-range", "out-of-range"}
    OBVIOUS
  <1> HIDE DEF p, word
  <1>6. it \in BulkItems /\ it.price = p /\ it.range = word /\ it.id = bulk.items[i].id
        /\ it.closed = bulk.items[i].closed
    BY <1>3, <1>4, <1>5 DEF BulkItems
  <1>7. ItemTrue(it)
    <2>1. CASE it.closed
      BY <1>6, <2>1 DEF ItemTrue, word
    <2>2. CASE ~it.closed
      <3>1. word = IF InRange(p) THEN "in-range" ELSE "out-of-range"
        BY <1>6, <2>2 DEF word
      <3>2. it.price = p /\ it.range = word
        BY <1>6
      <3> HIDE DEF it
      <3> QED BY <1>4, <2>2, <3>1, <3>2, RangeCounted, Zenon DEF ItemTrue
    <2> QED BY <2>1, <2>2
  <1>8. /\ bulk'.pc = bulk.pc /\ bulk'.status = bulk.status /\ bulk'.left = bulk.left
        /\ bulk'.total = bulk.total /\ bulk'.began = bulk.began /\ bulk'.still = bulk.still
        /\ bulk'.items = [bulk.items EXCEPT ![i] = it]
    BY <1>1, <1>2 DEF BulkRecord
  <1> HIDE DEF it
  <1>9. /\ DOMAIN bulk'.items = DOMAIN bulk.items /\ bulk'.items \in Seq(BulkItems)
        /\ \A j \in DOMAIN bulk.items : bulk'.items[j] = IF j = i THEN it ELSE bulk.items[j]
    <2>1. /\ bulk.items \in Seq(BulkItems) /\ i \in DOMAIN bulk.items /\ it \in BulkItems
          /\ bulk'.items = [bulk.items EXCEPT ![i] = it]
      BY ONLY <1>1, <1>2, <1>6, <1>8, Zenon
    <2> QED BY ONLY <2>1, PlaceChanged, SMTT(20)
  <1>10. bulk' \in BulkRecord
    <2>1. bulk' = [bulk EXCEPT !.items = bulk'.items]
      BY <1>1, <1>2 DEF BulkRecord
    <2> QED BY <1>2, <1>9, <2>1 DEF BulkRecord
  <1>11. \A j \in DOMAIN bulk.items : bulk'.items[j].id = bulk.items[j].id /\ bulk'.items[j].closed = bulk.items[j].closed
    BY <1>6, <1>9
  <1>12. BulkIds' = BulkIds /\ Wanted' = Wanted
    BY <1>1, <1>8, <1>9, <1>11 DEF BulkIds, Wanted, Matching
  <1>13. \A j, k \in DOMAIN bulk'.items : j < k => bulk'.items[j].id > bulk'.items[k].id
    BY <1>9, <1>11 DEF BulkInv
  <1>14. \A j \in DOMAIN bulk'.items :
          /\ bulk'.status # "all" => bulk'.items[j].closed = (bulk'.status = "closed")
          /\ bulk'.items[j].range = Unread \/ ItemTrue(bulk'.items[j])
    <2> SUFFICES ASSUME NEW j \in DOMAIN bulk.items
                 PROVE  /\ bulk.status # "all" => bulk'.items[j].closed = (bulk.status = "closed")
                        /\ bulk'.items[j].range = Unread \/ ItemTrue(bulk'.items[j])
      BY <1>8, <1>9
    <2>1. bulk.status # "all" => bulk'.items[j].closed = (bulk.status = "closed")
      BY <1>11 DEF BulkInv
    <2>2. bulk'.items[j].range = Unread \/ ItemTrue(bulk'.items[j])
      <3>1. bulk.items[j].range = Unread \/ ItemTrue(bulk.items[j])
        BY DEF BulkInv
      <3>2. CASE j = i
        BY ONLY <1>7, <1>9, <3>2, Zenon
      <3>3. CASE j # i
        BY ONLY <1>9, <3>1, <3>3, Zenon
      <3> QED BY ONLY <3>2, <3>3, Zenon
    <2> QED BY <2>1, <2>2
  <1> QED BY <1>1, <1>8, <1>10, <1>12, <1>13, <1>14, SMTT(30) DEF BulkInv, BulkRecord

LEMMA BulkStep == ASSUME BulkInv, BulkNext \/ UNCHANGED bulkVars PROVE BulkInv'
  <1>0. holding \in Seq(BOOLEAN) /\ bulk \in BulkRecord
    BY DEF BulkInv, BulkRecord
  <1>1. CASE UNCHANGED bulkVars
    BY <1>1 DEF bulkVars, BulkInv, BulkIds, Wanted, Matching
  <1>2. CASE PositionOpens
    <2>1. holding' = Append(holding, FALSE) /\ Disturbed /\ UNCHANGED <<poolPrice, spot>>
      BY <1>2 DEF PositionOpens
    <2>2. holding' \in Seq(BOOLEAN)
      BY <1>0, <2>1
    <2> QED BY <2>1, <2>2, HoldingMoves
  <1>3. ASSUME NEW id \in DOMAIN holding, PositionCloses(id) PROVE BulkInv'
    <2>1. holding' = [holding EXCEPT ![id] = TRUE] /\ Disturbed /\ UNCHANGED <<poolPrice, spot>>
      BY <1>3 DEF PositionCloses
    <2>2. holding' \in Seq(BOOLEAN)
      BY <1>0, <2>1
    <2> QED BY <2>1, <2>2, HoldingMoves
  <1>4. ASSUME UNCHANGED <<holding, bulk>>, poolPrice' \in HalfTicks, spot' \in HalfTicks \cup {NoSpot} PROVE BulkInv'
    BY <1>4 DEF BulkInv, BulkIds, Wanted, Matching
  <1>5. CASE SpotKept \/ SpotExpires \/ \E p \in HalfTicks : PriceMoves(p)
    <2>1. UNCHANGED <<holding, bulk>> /\ poolPrice' \in HalfTicks /\ spot' \in HalfTicks \cup {NoSpot}
      BY <1>5 DEF SpotKept, SpotExpires, PriceMoves, BulkInv
    <2> QED BY <1>4, <2>1
  <1>6. ASSUME NEW status \in {"active", "closed", "all"}, AskBulk(status) PROVE BulkInv'
    <2>1. /\ bulk.pc = "none" /\ UNCHANGED <<holding, poolPrice, spot>>
          /\ bulk' = [bulk EXCEPT !.pc = "reading", !.status = status, !.began = Matching(status)]
      BY <1>6 DEF AskBulk
    <2>2. Matching(status) \subseteq Nat
      BY <1>0, MatchingTyped
    <2>3. /\ bulk'.pc = "reading" /\ bulk'.status = status /\ bulk'.left = bulk.left
          /\ bulk'.total = bulk.total /\ bulk'.began = Matching(status) /\ bulk'.items = bulk.items
          /\ bulk'.still = bulk.still /\ bulk' \in BulkRecord
      BY <1>0, <2>1, <2>2 DEF BulkRecord
    <2>4. bulk.left = {"count", "rows"} /\ bulk.items = <<>>
      BY <2>1 DEF BulkInv
    <2>5. Wanted' = bulk'.began
      BY <2>1, <2>3 DEF Wanted, Matching
    <2>6. DOMAIN bulk'.items = {}
      BY <2>3, <2>4
    <2> QED BY <2>1, <2>3, <2>4, <2>5, <2>6 DEF BulkInv, BulkRecord
  <1>7. ASSUME NEW pc \in {"answered", "failed"}, bulk.pc = "reading", UNCHANGED <<holding, poolPrice, spot>>,
               bulk' = [bulk EXCEPT !.pc = pc],
               pc = "answered" => bulk.left = {} /\ \A i \in DOMAIN bulk.items : bulk.items[i].range # Unread
        PROVE  BulkInv'
    <2>1. /\ bulk'.pc = pc /\ bulk'.status = bulk.status /\ bulk'.left = bulk.left
          /\ bulk'.total = bulk.total /\ bulk'.began = bulk.began /\ bulk'.items = bulk.items
          /\ bulk'.still = bulk.still /\ bulk' \in BulkRecord
      BY <1>0, <1>7 DEF BulkRecord
    <2>2. BulkIds' = BulkIds
      BY <2>1 DEF BulkIds
    <2> QED BY <1>7, <2>1, <2>2 DEF BulkInv, BulkRecord
  <1>8. CASE AnswerBulk \/ BulkFails
    <2>1. /\ bulk.pc = "reading" /\ UNCHANGED <<holding, poolPrice, spot>>
          /\ \/ /\ bulk' = [bulk EXCEPT !.pc = "answered"] /\ bulk.left = {}
                /\ \A i \in DOMAIN bulk.items : bulk.items[i].range # Unread
             \/ bulk' = [bulk EXCEPT !.pc = "failed"]
      BY <1>8 DEF AnswerBulk, BulkFails
    <2> QED BY <1>7, <2>1
  <1> QED BY <1>1, <1>2, <1>3, <1>5, <1>6, <1>8, CountBulkKeeps, RowsBulkKeeps, PriceItemKeeps DEF BulkNext

LEMMA BulkInitial == BulkInit => BulkInv
  <1> SUFFICES ASSUME BulkInit PROVE BulkInv
    OBVIOUS
  <1>1. /\ holding = <<>> /\ poolPrice \in HalfTicks /\ spot = NoSpot
        /\ bulk = [pc |-> "none", status |-> "all", left |-> {"count", "rows"}, total |-> 0,
                    began |-> {}, still |-> TRUE, items |-> <<>>]
    BY DEF BulkInit
  <1>2. <<>> \in Seq(BOOLEAN) /\ <<>> \in Seq(BulkItems) /\ DOMAIN <<>> = {}
    OBVIOUS
  <1> QED BY <1>1, <1>2 DEF BulkInv

-----------------------------------------------------------------------------
(* AccountReads: the list of pools                                            *)

\* A set has one order only, if of two elements one is before the other.
LEMMA OrderUnique ==
    ASSUME NEW S, IsFiniteSet(S), NEW R, NEW s \in SetToSeqs(S), NEW t \in SetToSeqs(S),
           \A x, y \in S : x # y => <<x, y>> \in R \/ <<y, x>> \in R,
           \A i, j \in DOMAIN s : i < j => <<s[j], s[i]>> \notin R,
           \A i, j \in DOMAIN t : i < j => <<t[j], t[i]>> \notin R
    PROVE  s = t
  <1>1. /\ s \in Seq(S) /\ Len(s) = Cardinality(S) /\ Len(s) \in Nat /\ DOMAIN s = 1..Len(s)
        /\ \A i \in 1..Len(s) : s[i] \in S
        /\ \A i, j \in 1..Len(s) : s[i] = s[j] => i = j
        /\ \A x \in S : \E i \in 1..Len(s) : s[i] = x
    BY InOrder
  <1>2. /\ t \in Seq(S) /\ Len(t) = Cardinality(S) /\ Len(t) \in Nat /\ DOMAIN t = 1..Len(t)
        /\ \A i \in 1..Len(t) : t[i] \in S
        /\ \A i, j \in 1..Len(t) : t[i] = t[j] => i = j
        /\ \A x \in S : \E i \in 1..Len(t) : t[i] = x
    BY InOrder
  <1> DEFINE n == Len(s)  Odd == {i \in 1..n : s[i] # t[i]}
  <1>3. Odd = {}
    <2> SUFFICES ASSUME Odd # {} PROVE FALSE
      OBVIOUS
    <2>1. PICK k \in Odd : \A m \in Odd : k <= m
      <3>1. Odd \subseteq Nat
        OBVIOUS
      <3> HIDE DEF Odd
      <3> QED BY <3>1, LeastNatural
    <2>2. k \in 1..n /\ s[k] # t[k] /\ s[k] \in S /\ t[k] \in S
      BY <1>1, <1>2
    <2>3. \A i \in 1..n : i < k => s[i] = t[i]
      BY <2>1
    <2>4. PICK m \in 1..n : t[m] = s[k]
      BY <1>1, <1>2, <2>2
    <2>5. PICK l \in 1..n : s[l] = t[k]
      BY <1>1, <1>2, <2>2
    <2>6. m > k
      <3>1. m # k
        BY <2>2, <2>4
      <3>2. ~(m < k)
        <4> SUFFICES ASSUME m < k PROVE FALSE
          OBVIOUS
        <4>1. s[m] = s[k]
          BY <2>3, <2>4
        <4> QED BY <1>1, <2>2, <3>1, <4>1
      <3> QED BY <1>1, <2>2, <3>1, <3>2
    <2>7. l > k
      <3>1. l # k
        BY <2>2, <2>5
      <3>2. ~(l < k)
        <4> SUFFICES ASSUME l < k PROVE FALSE
          OBVIOUS
        <4>1. t[l] = t[k]
          BY <2>3, <2>5
        <4>2. k \in 1..Len(t) /\ l \in 1..Len(t)
          BY <1>1, <1>2, <2>2
        <4> QED BY <1>2, <3>1, <4>1, <4>2
      <3> QED BY <1>1, <2>2, <3>1, <3>2
    <2>8. <<t[k], s[k]>> \notin R
      BY <1>1, <2>2, <2>5, <2>7
    <2>9. <<s[k], t[k]>> \notin R
      BY <1>1, <1>2, <2>2, <2>4, <2>6
    <2> QED BY <2>2, <2>8, <2>9
  <1>4. \A i \in 1..n : s[i] = t[i]
    BY <1>3
  <1> HIDE DEF n, Odd
  <1> QED BY <1>1, <1>2, <1>4, SameSeq DEF n

\* How many rows are before a page, and on it.
Offset(page, limit) == (page - 1) * limit
OnPage(n, o, limit) == IF n < o THEN 0 ELSE IF n - o < limit THEN n - o ELSE limit

\* A page of a list, by its elements.
LEMMA PageElements ==
    ASSUME NEW T, NEW s \in Seq(T), NEW page \in 1..2, NEW limit \in Nat \ {0},
           NEW i \in 1..OnPage(Len(s), Offset(page, limit), limit)
    PROVE  Slice(s, page, limit)[i] = s[Offset(page, limit) + i] /\ Offset(page, limit) + i \in 1..Len(s)
  <1> DEFINE o == Offset(page, limit)
             rest == SubSeq(s, o + 1, Len(s))
             r == IF Len(s) < o THEN 0 ELSE Len(s) - o
             n == IF Len(rest) < limit THEN Len(rest) ELSE limit
             cut == SubSeq(rest, 1, n)
  <1>1. o \in Nat /\ Len(s) \in Nat
    BY DEF Offset
  <1>4. Slice(s, page, limit) = cut
    BY DEF Slice, FirstOf, Offset
  <1> HIDE DEF o
  <1>2. /\ rest \in Seq(T) /\ Len(rest) = r /\ r \in Nat
        /\ \A k \in 1..r : rest[k] = s[o + k] /\ o + k \in 1..Len(s)
    BY <1>1, RestPart
  <1> HIDE DEF rest
  <1>3. \A k \in 1..n : cut[k] = rest[k] /\ k \in 1..Len(rest)
    BY <1>2, FirstPart
  <1>5. i \in 1..n
    BY <1>1, <1>2 DEF OnPage, o
  <1> HIDE DEF cut, n, r
  <1> QED BY <1>2, <1>3, <1>4, <1>5 DEF o

\* A page of a list, by its length.
LEMMA PageCut ==
    ASSUME NEW T, NEW s \in Seq(T), NEW page \in 1..2, NEW limit \in Nat \ {0}
    PROVE  /\ Slice(s, page, limit) \in Seq(T)
           /\ Len(Slice(s, page, limit)) = OnPage(Len(s), Offset(page, limit), limit)
           /\ OnPage(Len(s), Offset(page, limit), limit) \in Nat /\ Offset(page, limit) \in Nat
           /\ DOMAIN Slice(s, page, limit) = 1..OnPage(Len(s), Offset(page, limit), limit)
  <1> DEFINE o == Offset(page, limit)
             rest == SubSeq(s, o + 1, Len(s))
             r == IF Len(s) < o THEN 0 ELSE Len(s) - o
             n == IF Len(rest) < limit THEN Len(rest) ELSE limit
             cut == SubSeq(rest, 1, n)
  <1>1. o \in Nat /\ Len(s) \in Nat
    BY DEF Offset
  <1>2. Slice(s, page, limit) = cut
    BY DEF Slice, FirstOf, Offset
  <1> HIDE DEF o
  <1>3. rest \in Seq(T) /\ Len(rest) = r /\ r \in Nat
    BY <1>1, RestPart
  <1> HIDE DEF rest
  <1>4. cut \in Seq(T) /\ Len(cut) = n /\ n \in Nat
    BY <1>3, FirstPart
  <1>5. OnPage(Len(s), o, limit) = n
    BY <1>1, <1>3 DEF OnPage
  <1>6. DOMAIN cut = 1..Len(cut)
    BY <1>4
  <1> HIDE DEF cut, n, r
  <1> QED BY <1>1, <1>2, <1>4, <1>5, <1>6 DEF o

Markets == [Listed -> [tvl : 0..MaxTvl, active : BOOLEAN]]
Active(row) == {p \in Listed : row[p].active}
Better(row) ==
    {w \in Listed \X Listed : \/ row[w[1]].tvl > row[w[2]].tvl
                              \/ row[w[1]].tvl = row[w[2]].tvl /\ w[1] < w[2]}

\* A list is a page of the pools activeNow at an edition, in the order of the answer.
MadeOf(list, page, row) ==
    \E s \in SetToSeqs(Active(row)) :
       /\ \A i, j \in DOMAIN s : i < j => <<s[j], s[i]>> \notin Better(row)
       /\ list.total = Cardinality(Active(row))
       /\ list.items = [i \in DOMAIN Slice(s, page, ListLimit) |->
                           [id |-> Slice(s, page, ListLimit)[i], tvl |-> row[Slice(s, page, ListLimit)[i]].tvl]]

Kept(list, page, H) == list = NoList \/ (list.edition \in 0..edition /\ MadeOf(list, page, H[list.edition]))

\* What the pools have been.
ListHistory(H) ==
    /\ H \in [Nat -> Markets] /\ H[edition] = pools
    /\ \A n \in 1..2 : Kept(listCache[n], n, H) /\ Kept(copy[n].list, n, H)
    /\ listing.pc \in {"store", "tag", "answered"} => Kept(listing.list, listing.page, H)

ListInv ==
    /\ pools \in Markets /\ edition \in Nat
    /\ listCache = [n \in 1..2 |-> listCache[n]]
    /\ copy = [n \in 1..2 |-> [list |-> copy[n].list, tag |-> copy[n].tag]]
    /\ listing = [pc |-> listing.pc, page |-> listing.page, list |-> listing.list, status |-> listing.status]
    /\ listing.page \in 1..2 /\ listing.status \in {0, 200, 304}
    /\ \A n \in 1..2 : copy[n].tag = <<>> \/ copy[n].tag = Tag(copy[n].list)
    /\ listing.pc = "answered" =>
          /\ copy[listing.page].list.items = listing.list.items
          /\ copy[listing.page].list.total = listing.list.total
    /\ \E H : ListHistory(H)

LEMMA ActiveFinite ==
    ASSUME NEW row PROVE IsFiniteSet(Active(row)) /\ Active(row) \subseteq Listed /\ Cardinality(Active(row)) \in Nat
  <1>1. Active(row) \in SUBSET Listed
    BY DEF Active
  <1> QED BY <1>1, ReadsAssumption, FS_Subset, FS_CardinalityType

\* The order of the list leaves no two pools of a page level.
LEMMA BetterTotal ==
    ASSUME NEW row \in Markets
    PROVE  \A x, y \in Active(row) : x # y => <<x, y>> \in Better(row) \/ <<y, x>> \in Better(row)
  <1> SUFFICES ASSUME NEW x \in Active(row), NEW y \in Active(row), x # y
               PROVE  <<x, y>> \in Better(row) \/ <<y, x>> \in Better(row)
    OBVIOUS
  <1>1. x \in Listed /\ y \in Listed /\ x \in Int /\ y \in Int
    <2>1. Active(row) \subseteq Listed
      BY ActiveFinite
    <2>2. Listed \subseteq Nat
      BY ReadsAssumption
    <2>3. x \in Nat /\ y \in Nat
      BY <2>1, <2>2
    <2> QED BY <2>1, <2>3
  <1>2. row[x].tvl \in Int /\ row[y].tvl \in Int
    BY <1>1 DEF Markets
  <1>3. \/ row[x].tvl > row[y].tvl
        \/ row[y].tvl > row[x].tvl
        \/ row[x].tvl = row[y].tvl /\ x < y
        \/ row[y].tvl = row[x].tvl /\ y < x
    <2> DEFINE a == row[x].tvl  b == row[y].tvl
    <2>1. a \in Int /\ b \in Int
      BY <1>2
    <2> HIDE DEF a, b
    <2>2. a > b \/ b > a \/ (a = b /\ x < y) \/ (b = a /\ y < x)
      BY <1>1, <2>1
    <2> QED BY <2>2, Zenon DEF a, b
  <1> QED BY <1>1, <1>3 DEF Better

\* Two pages of one edition are parts of one order.
LEMMA PagesApart ==
    ASSUME NEW row \in Markets, NEW one, NEW two, MadeOf(one, 1, row), MadeOf(two, 2, row)
    PROVE  /\ ItemIds(one) \cap ItemIds(two) = {}
           /\ Cardinality(ItemIds(one) \cup ItemIds(two)) =
                   (IF one.total < 2 * ListLimit THEN one.total ELSE 2 * ListLimit)
  <1> DEFINE S == Active(row)
  <1>1. PICK s \in SetToSeqs(S) :
           /\ \A i, j \in DOMAIN s : i < j => <<s[j], s[i]>> \notin Better(row)
           /\ one.total = Cardinality(S)
           /\ one.items = [i \in DOMAIN Slice(s, 1, ListLimit) |->
                           [id |-> Slice(s, 1, ListLimit)[i], tvl |-> row[Slice(s, 1, ListLimit)[i]].tvl]]
    BY DEF MadeOf
  <1>2. PICK t \in SetToSeqs(S) :
           /\ \A i, j \in DOMAIN t : i < j => <<t[j], t[i]>> \notin Better(row)
           /\ two.items = [i \in DOMAIN Slice(t, 2, ListLimit) |->
                           [id |-> Slice(t, 2, ListLimit)[i], tvl |-> row[Slice(t, 2, ListLimit)[i]].tvl]]
    BY DEF MadeOf
  <1>3. s = t
    <2>1. \A x, y \in S : x # y => <<x, y>> \in Better(row) \/ <<y, x>> \in Better(row)
      BY BetterTotal
    <2>2. IsFiniteSet(S)
      BY ActiveFinite
    <2> HIDE DEF S
    <2> QED BY <1>1, <1>2, <2>1, <2>2, OrderUnique
  <1>4. /\ s \in Seq(S) /\ Len(s) = Cardinality(S) /\ Len(s) \in Nat
        /\ \A i, j \in 1..Len(s) : s[i] = s[j] => i = j
    BY ActiveFinite, InOrder
  <1> DEFINE n == Len(s)  L == ListLimit
             k1 == IF n < L THEN n ELSE L
             k2 == IF n < L THEN 0 ELSE IF n - L < L THEN n - L ELSE L
             p1 == Slice(s, 1, L)  p2 == Slice(s, 2, L)
  <1>5. L \in Nat \ {0} /\ n \in Nat
    BY <1>4, ReadsAssumption
  <1>6. DOMAIN p1 = 1..k1 /\ \A i \in 1..k1 : p1[i] = s[i]
    <2>1. 1 \in 1..2 /\ s \in Seq(S) /\ L \in Nat \ {0}
      BY <1>4, <1>5
    <2>2. Offset(1, L) = 0 /\ OnPage(n, 0, L) = k1 /\ k1 \in Nat
      BY <1>5 DEF Offset, OnPage
    <2> HIDE DEF L, S, k1
    <2>3. DOMAIN p1 = 1..k1
      BY <2>1, <2>2, PageCut
    <2>4. ASSUME NEW i \in 1..k1 PROVE p1[i] = s[i]
      <3>1. p1[i] = s[Offset(1, L) + i]
        BY <2>1, <2>2, PageElements
      <3>2. Offset(1, L) + i = i
        BY <2>2
      <3> QED BY <3>1, <3>2
    <2> QED BY <2>3, <2>4
  <1>7. DOMAIN p2 = 1..k2 /\ \A i \in 1..k2 : p2[i] = s[L + i]
    <2>1. 2 \in 1..2 /\ s \in Seq(S) /\ L \in Nat \ {0}
      BY <1>4, <1>5
    <2>2. Offset(2, L) = L /\ OnPage(n, L, L) = k2
      BY <1>5 DEF Offset, OnPage
    <2> HIDE DEF L, S, k2
    <2>3. DOMAIN p2 = 1..k2
      BY <2>1, <2>2, PageCut
    <2>4. ASSUME NEW i \in 1..k2 PROVE p2[i] = s[L + i]
      BY <2>1, <2>2, PageElements
    <2> QED BY <2>3, <2>4
  <1>8. ItemIds(one) = {s[i] : i \in 1..k1}
    <2> HIDE DEF p1, k1
    <2>1. one.items = [i \in 1..k1 |-> [id |-> p1[i], tvl |-> row[p1[i]].tvl]]
      BY <1>1, <1>6 DEF p1
    <2>2. ItemIds(one) = {one.items[i].id : i \in 1..k1}
      BY <2>1 DEF ItemIds
    <2>3. \A i \in 1..k1 : one.items[i].id = s[i]
      BY <1>6, <2>1
    <2> QED BY <2>2, <2>3
  <1>9. ItemIds(two) = {s[L + i] : i \in 1..k2}
    <2> HIDE DEF p2, k2
    <2>1. two.items = [i \in 1..k2 |-> [id |-> p2[i], tvl |-> row[p2[i]].tvl]]
      BY <1>2, <1>3, <1>7 DEF p2
    <2>2. ItemIds(two) = {two.items[i].id : i \in 1..k2}
      BY <2>1 DEF ItemIds
    <2>3. \A i \in 1..k2 : two.items[i].id = s[L + i]
      BY <1>7, <2>1
    <2> QED BY <2>2, <2>3
  <1> DEFINE k == IF n < 2 * L THEN n ELSE 2 * L
  <1> HIDE DEF p1, p2, L, n, S
  <1>10. /\ k1 \in Nat /\ k2 \in Nat /\ k \in Nat /\ k <= n /\ k1 <= n /\ (k2 # 0 => L + k2 <= n)
         /\ k1 <= L /\ k1 + k2 = k /\ (k2 # 0 => k1 = L)
    BY <1>5
  <1> HIDE DEF k1, k2, k
  <1>11. ItemIds(one) \cap ItemIds(two) = {}
    <2> SUFFICES ASSUME NEW x \in ItemIds(one), x \in ItemIds(two) PROVE FALSE
      OBVIOUS
    <2>1. PICK i \in 1..k1 : s[i] = x
      BY <1>8
    <2>2. PICK j \in 1..k2 : s[L + j] = x
      BY <1>9
    <2>3. i \in 1..n /\ L + j \in 1..n /\ i # L + j
      BY <1>5, <1>10
    <2> QED BY <1>4, <2>1, <2>2, <2>3 DEF n
  <1>12. ItemIds(one) \cup ItemIds(two) = {s[i] : i \in 1..k}
    <2>1. ASSUME NEW x \in ItemIds(one) \cup ItemIds(two) PROVE x \in {s[i] : i \in 1..k}
      <3>1. CASE x \in ItemIds(one)
        <4>1. PICK i \in 1..k1 : s[i] = x
          BY <1>8, <3>1
        <4>2. i \in 1..k
          BY <1>10
        <4> QED BY <4>1, <4>2
      <3>2. CASE x \in ItemIds(two)
        <4>1. PICK j \in 1..k2 : s[L + j] = x
          BY <1>9, <3>2
        <4>2. L + j \in 1..k
          BY <1>5, <1>10
        <4> QED BY <4>1, <4>2
      <3> QED BY <3>1, <3>2
    <2>2. ASSUME NEW i \in 1..k PROVE s[i] \in ItemIds(one) \cup ItemIds(two)
      <3>1. CASE i <= k1
        <4>1. i \in 1..k1
          BY <1>10, <3>1
        <4> QED BY <1>8, <4>1
      <3>2. CASE i > k1
        <4>1. i - L \in 1..k2 /\ L + (i - L) = i
          BY <1>5, <1>10, <3>2
        <4> QED BY <1>9, <4>1
      <3> QED BY <1>10, <3>1, <3>2
    <2> QED BY <2>1, <2>2
  <1>13. Cardinality({s[i] : i \in 1..k}) = k
    <2> DEFINE f == [i \in 1..k |-> s[i]]  T == {s[i] : i \in 1..k}
    <2>1. f \in Surjection(1..k, T)
      BY DEF Surjection
    <2>2. f \in Injection(1..k, T)
      <3>1. f \in [1..k -> T]
        OBVIOUS
      <3>2. \A i, j \in 1..k : f[i] = f[j] => i = j
        BY <1>4, <1>10 DEF n
      <3> HIDE DEF f, T
      <3> QED BY <3>1, <3>2 DEF Injection, IsInjective
    <2> HIDE DEF f, T
    <2>3. IsFiniteSet(1..k) /\ Cardinality(1..k) = k
      BY <1>10, FS_Interval
    <2>4. Cardinality(T) = k
      BY <2>1, <2>2, <2>3, FS_Surjection
    <2> QED BY <2>4 DEF T
  <1>14. k = (IF one.total < 2 * ListLimit THEN one.total ELSE 2 * ListLimit)
    BY <1>1, <1>4 DEF k, n, L
  <1> QED BY <1>11, <1>12, <1>13, <1>14

\* The answer is the copy the client holds, and two pages of one edition share no pool.
LEMMA ListMeans == ListInv => ListTrue
  <1> SUFFICES ASSUME ListInv, copy[1].list.total >= 0, copy[2].list.total >= 0,
                      copy[1].list.edition = copy[2].list.edition
               PROVE  /\ ItemIds(copy[1].list) \cap ItemIds(copy[2].list) = {}
                      /\ Cardinality(ItemIds(copy[1].list) \cup ItemIds(copy[2].list)) =
                            (IF copy[1].list.total < 2 * ListLimit THEN copy[1].list.total ELSE 2 * ListLimit)
    BY DEF ListTrue, ListInv
  <1>1. PICK H : ListHistory(H)
    BY DEF ListInv
  <1>2. Kept(copy[1].list, 1, H) /\ Kept(copy[2].list, 2, H) /\ H \in [Nat -> Markets]
    BY <1>1 DEF ListHistory
  <1>3. copy[1].list # NoList /\ copy[2].list # NoList
    <2>1. NoList.total = -1
      BY DEF NoList
    <2> QED BY <2>1
  <1> DEFINE row == H[copy[1].list.edition]
  <1>4. copy[1].list.edition \in 0..edition /\ MadeOf(copy[1].list, 1, row) /\ MadeOf(copy[2].list, 2, row)
    BY <1>2, <1>3 DEF Kept
  <1>5. row \in Markets
    BY <1>2, <1>4 DEF ListInv
  <1> HIDE DEF row
  <1> QED BY <1>4, <1>5, PagesApart

\* A step that leaves the history of the pools as it is.
LEMMA ListMoves ==
    ASSUME ListInv, UNCHANGED <<pools, edition>>,
           listCache' = [n \in 1..2 |-> listCache'[n]],
           copy' = [n \in 1..2 |-> [list |-> copy'[n].list, tag |-> copy'[n].tag]],
           listing' = [pc |-> listing'.pc, page |-> listing'.page, list |-> listing'.list,
                       status |-> listing'.status],
           listing'.page \in 1..2, listing'.status \in {0, 200, 304},
           \A n \in 1..2 : copy'[n].tag = <<>> \/ copy'[n].tag = Tag(copy'[n].list),
           listing'.pc = "answered" =>
              /\ copy'[listing'.page].list.items = listing'.list.items
              /\ copy'[listing'.page].list.total = listing'.list.total,
           \A H : ListHistory(H) =>
              /\ \A n \in 1..2 : Kept(listCache'[n], n, H) /\ Kept(copy'[n].list, n, H)
              /\ listing'.pc \in {"store", "tag", "answered"} => Kept(listing'.list, listing'.page, H)
    PROVE  ListInv'
  <1>1. PICK H : ListHistory(H)
    BY DEF ListInv
  <1>2. /\ \A n \in 1..2 : Kept(listCache'[n], n, H) /\ Kept(copy'[n].list, n, H)
        /\ listing'.pc \in {"store", "tag", "answered"} => Kept(listing'.list, listing'.page, H)
    BY <1>1
  <1>3. \A list, page : Kept(list, page, H) <=> (list = NoList \/ (list.edition \in 0..edition' /\ MadeOf(list, page, H[list.edition])))
    BY DEF Kept
  <1>4. H \in [Nat -> Markets] /\ H[edition'] = pools'
    BY <1>1 DEF ListHistory
  <1>5. ListHistory(H)'
    BY <1>2, <1>3, <1>4 DEF ListHistory, Kept
  <1>6. \E G : ListHistory(G)'
    BY <1>5
  <1> QED BY <1>6 DEF ListInv

LEMMA PoolChangesKeeps ==
    ASSUME ListInv, NEW p \in Listed, NEW row \in [tvl : 0..MaxTvl, active : BOOLEAN], PoolChanges(p, row)
    PROVE  ListInv'
  <1>1. /\ pools' = [pools EXCEPT ![p] = row] /\ edition' = edition + 1
        /\ UNCHANGED <<listCache, copy, listing, gets>>
    BY DEF PoolChanges
  <1>2. pools \in Markets /\ edition \in Nat
    BY DEF ListInv
  <1>3. pools' \in Markets /\ edition' \in Nat
    BY <1>1, <1>2 DEF Markets
  <1>4. PICK H : ListHistory(H)
    BY DEF ListInv
  <1> DEFINE G == [H EXCEPT ![edition'] = pools']
  <1>5. G \in [Nat -> Markets] /\ G[edition'] = pools'
    BY <1>3, <1>4 DEF ListHistory
  <1>6. \A e \in 0..edition : G[e] = H[e] /\ e \in 0..edition'
    BY <1>1, <1>2, <1>4 DEF ListHistory
  <1>6a. PICK F : F = G
    OBVIOUS
  <1> HIDE DEF G
  <1>7. \A list, page : Kept(list, page, H) =>
           list = NoList \/ (list.edition \in 0..edition' /\ MadeOf(list, page, F[list.edition]))
    BY <1>6, <1>6a DEF Kept
  <1>8. ListHistory(F)'
    BY <1>1, <1>4, <1>5, <1>6a, <1>7 DEF ListHistory, Kept
  <1>9. \E L : ListHistory(L)'
    BY <1>8
  <1> QED BY <1>1, <1>3, <1>9 DEF ListInv, Tag

LEMMA ListActivePoolsKeeps == ListInv /\ ListActivePools => ListInv'
  <1> SUFFICES ASSUME ListInv, ListActivePools PROVE ListInv'
    OBVIOUS
  <1> DEFINE activeNow == {p \in Listed : pools[p].active}
  <1>1. PICK sorted \in Ordered(activeNow, Ahead) :
           LET page == Slice(sorted, listing.page, ListLimit)
           IN listing' = [listing EXCEPT !.pc = "store",
                 !.list = [items |-> [i \in DOMAIN page |-> [id |-> page[i], tvl |-> pools[page[i]].tvl]],
                           total |-> Cardinality(activeNow), edition |-> edition]]
    BY DEF ListActivePools
  <1>2. UNCHANGED <<pools, edition, listCache, copy, gets>>
    BY DEF ListActivePools
  <1> DEFINE page == Slice(sorted, listing.page, ListLimit)
             list == [items |-> [i \in DOMAIN page |-> [id |-> page[i], tvl |-> pools[page[i]].tvl]],
                      total |-> Cardinality(activeNow), edition |-> edition]
  <1>3. listing = [pc |-> listing.pc, page |-> listing.page, list |-> listing.list, status |-> listing.status]
    BY DEF ListInv
  <1>4. listing' = [listing EXCEPT !.pc = "store", !.list = list]
    BY <1>1
  <1>5. list.edition = edition /\ MadeOf(list, listing.page, pools)
    <2>1. sorted \in SetToSeqs(activeNow) /\ \A i, j \in DOMAIN sorted : i < j => ~Ahead(sorted[j], sorted[i])
      BY <1>1 DEF Ordered
    <2>2. \A i \in DOMAIN sorted : sorted[i] \in Listed
      <3>1. IsFiniteSet(activeNow)
        BY ActiveFinite DEF Active
      <3> HIDE DEF activeNow
      <3>2. \A i \in DOMAIN sorted : sorted[i] \in activeNow
        BY <2>1, <3>1, InOrder
      <3> QED BY <3>2 DEF activeNow
    <2>3. \A i, j \in DOMAIN sorted : i < j => <<sorted[j], sorted[i]>> \notin Better(pools)
      BY <2>1, <2>2 DEF Better, Ahead
    <2>4. activeNow = Active(pools)
      BY DEF Active
    <2>5. list.total = Cardinality(activeNow) /\ list.edition = edition
          /\ list.items = [i \in DOMAIN page |-> [id |-> page[i], tvl |-> pools[page[i]].tvl]]
      OBVIOUS
    <2> HIDE DEF list, activeNow
    <2> QED BY <2>1, <2>3, <2>4, <2>5 DEF MadeOf
  <1> HIDE DEF list, page, activeNow
  <1>6. /\ listing'.pc = "store" /\ listing'.page = listing.page /\ listing'.list = list
        /\ listing'.status = listing.status
        /\ listing' = [pc |-> "store", page |-> listing.page, list |-> list, status |-> listing.status]
    BY <1>3, <1>4
  <1>7. \A H : ListHistory(H) =>
              /\ \A n \in 1..2 : Kept(listCache'[n], n, H) /\ Kept(copy'[n].list, n, H)
              /\ listing'.pc \in {"store", "tag", "answered"} => Kept(listing'.list, listing'.page, H)
    <2>1. edition \in 0..edition
      BY DEF ListInv
    <2> QED BY <1>2, <1>5, <1>6, <2>1 DEF ListHistory, Kept
  <1>8. /\ listCache = [n \in 1..2 |-> listCache[n]]
        /\ copy = [n \in 1..2 |-> [list |-> copy[n].list, tag |-> copy[n].tag]]
        /\ listing.page \in 1..2 /\ listing.status \in {0, 200, 304}
        /\ \A n \in 1..2 : copy[n].tag = <<>> \/ copy[n].tag = Tag(copy[n].list)
    BY DEF ListInv
  <1> QED BY <1>2, <1>6, <1>7, <1>8, ListMoves

LEMMA ListStep == ASSUME ListInv, ListNext \/ UNCHANGED listVars PROVE ListInv'
  <1>0. /\ listCache = [n \in 1..2 |-> listCache[n]]
        /\ copy = [n \in 1..2 |-> [list |-> copy[n].list, tag |-> copy[n].tag]]
        /\ listing = [pc |-> listing.pc, page |-> listing.page, list |-> listing.list, status |-> listing.status]
        /\ listing.page \in 1..2 /\ listing.status \in {0, 200, 304}
        /\ \A n \in 1..2 : copy[n].tag = <<>> \/ copy[n].tag = Tag(copy[n].list)
        /\ listing.pc = "answered" =>
              /\ copy[listing.page].list.items = listing.list.items
              /\ copy[listing.page].list.total = listing.list.total
    BY DEF ListInv
  <1>1. CASE UNCHANGED listVars
    <2>1. UNCHANGED <<pools, edition, listCache, copy, listing>>
      BY <1>1 DEF listVars
    <2> QED BY <1>0, <2>1, ListMoves DEF ListHistory
  <1>2. ASSUME NEW page \in 1..2, ListExpires(page) PROVE ListInv'
    <2>1. listCache' = [listCache EXCEPT ![page] = NoList] /\ UNCHANGED <<pools, edition, copy, listing>>
      BY <1>2 DEF ListExpires
    <2>2. listCache' = [n \in 1..2 |-> IF n = page THEN NoList ELSE listCache[n]]
      BY <1>0, <2>1
    <2>3. listCache' = [n \in 1..2 |-> listCache'[n]] /\ \A n \in 1..2 : listCache'[n] \in {NoList, listCache[n]}
      BY <2>2
    <2>4. \A H : ListHistory(H) =>
              /\ \A n \in 1..2 : Kept(listCache'[n], n, H) /\ Kept(copy'[n].list, n, H)
              /\ listing'.pc \in {"store", "tag", "answered"} => Kept(listing'.list, listing'.page, H)
      BY <2>1, <2>3 DEF ListHistory, Kept
    <2> QED BY <1>0, <2>1, <2>3, <2>4, ListMoves
  <1>3. ASSUME NEW page \in 1..2, GetPools(page) PROVE ListInv'
    <2>1. /\ UNCHANGED <<pools, edition, listCache, copy>>
          /\ listing' = [pc |-> IF listCache[page] = NoList THEN "miss" ELSE "tag", page |-> page,
                         list |-> listCache[page], status |-> 0]
      BY <1>3 DEF GetPools
    <2>2. /\ listing'.page = page /\ listing'.list = listCache[page] /\ listing'.status = 0
          /\ listing'.pc \in {"miss", "tag"}
      BY <2>1
    <2>3. listing' = [pc |-> listing'.pc, page |-> listing'.page, list |-> listing'.list, status |-> listing'.status]
      BY <2>1
    <2>4. \A H : ListHistory(H) =>
              /\ \A n \in 1..2 : Kept(listCache'[n], n, H) /\ Kept(copy'[n].list, n, H)
              /\ listing'.pc \in {"store", "tag", "answered"} => Kept(listing'.list, listing'.page, H)
      BY <2>1, <2>2 DEF ListHistory
    <2> QED BY <1>0, <2>1, <2>2, <2>3, <2>4, ListMoves
  <1>4. CASE StoreList
    <2>1. /\ listing.pc = "store" /\ listing' = [listing EXCEPT !.pc = "tag"]
          /\ listCache' \in {listCache, [listCache EXCEPT ![listing.page] = listing.list]}
          /\ UNCHANGED <<pools, edition, copy>>
      BY <1>4 DEF StoreList
    <2>2. /\ listing'.pc = "tag" /\ listing'.page = listing.page /\ listing'.list = listing.list
          /\ listing'.status = listing.status
          /\ listing' = [pc |-> listing'.pc, page |-> listing'.page, list |-> listing'.list, status |-> listing'.status]
      BY <1>0, <2>1
    <2>3. \/ listCache' = listCache
          \/ listCache' = [n \in 1..2 |-> IF n = listing.page THEN listing.list ELSE listCache[n]]
      BY <1>0, <2>1
    <2>4. /\ listCache' = [n \in 1..2 |-> listCache'[n]]
          /\ \A n \in 1..2 : listCache'[n] = listCache[n] \/ (n = listing.page /\ listCache'[n] = listing.list)
      BY <1>0, <2>3
    <2>5. \A H : ListHistory(H) =>
              /\ \A n \in 1..2 : Kept(listCache'[n], n, H) /\ Kept(copy'[n].list, n, H)
              /\ listing'.pc \in {"store", "tag", "answered"} => Kept(listing'.list, listing'.page, H)
      BY <2>1, <2>2, <2>4 DEF ListHistory
    <2> QED BY <1>0, <2>1, <2>2, <2>4, <2>5, ListMoves
  <1>5. CASE AnswerList
    <2> DEFINE tag == Tag(listing.list)
               same == copy[listing.page].tag = tag
    <2>1. /\ listing.pc = "tag" /\ UNCHANGED <<pools, edition, listCache>>
          /\ copy' = IF same THEN copy
                     ELSE [copy EXCEPT ![listing.page] = [list |-> listing.list, tag |-> tag]]
          /\ listing' = [listing EXCEPT !.pc = "answered", !.status = IF same THEN 304 ELSE 200]
      BY <1>5 DEF AnswerList
    <2>2. /\ listing'.pc = "answered" /\ listing'.page = listing.page /\ listing'.list = listing.list
          /\ listing'.status \in {200, 304}
          /\ listing' = [pc |-> listing'.pc, page |-> listing'.page, list |-> listing'.list, status |-> listing'.status]
      <3>1. PICK status \in {200, 304} : listing' = [listing EXCEPT !.pc = "answered", !.status = status]
        BY <2>1
      <3> QED BY <1>0, <3>1
    <2>2a. /\ listCache' = [n \in 1..2 |-> listCache'[n]] /\ UNCHANGED <<pools, edition>>
           /\ listing'.page \in 1..2 /\ listing'.status \in {0, 200, 304}
      BY <1>0, <2>1, <2>2
    <2> HIDE DEF same, tag
    <2>3. CASE same
      <3>1. copy' = copy
        BY <2>1, <2>3
      <3>2. Tag(copy[listing.page].list) = Tag(listing.list)
        <4>1. copy[listing.page].tag = Tag(listing.list)
          BY <2>3 DEF same, tag
        <4>2. Tag(listing.list) # <<>>
          BY DEF Tag
        <4> QED BY <1>0, <4>1, <4>2
      <3>3. /\ copy[listing.page].list.items = listing.list.items
            /\ copy[listing.page].list.total = listing.list.total
        BY <3>2 DEF Tag
      <3>4. \A H : ListHistory(H) =>
              /\ \A n \in 1..2 : Kept(listCache'[n], n, H) /\ Kept(copy'[n].list, n, H)
              /\ listing'.pc \in {"store", "tag", "answered"} => Kept(listing'.list, listing'.page, H)
        BY <2>1, <2>2, <3>1 DEF ListHistory
      <3>5. /\ copy' = [n \in 1..2 |-> [list |-> copy'[n].list, tag |-> copy'[n].tag]]
            /\ \A n \in 1..2 : copy'[n].tag = <<>> \/ copy'[n].tag = Tag(copy'[n].list)
        BY <1>0, <3>1
      <3>6. /\ copy'[listing'.page].list.items = listing'.list.items
            /\ copy'[listing'.page].list.total = listing'.list.total
        BY <2>2, <3>1, <3>3
      <3> QED BY <2>2, <2>2a, <3>4, <3>5, <3>6, ListMoves
    <2>4. CASE ~same
      <3>0. tag = Tag(listing.list)
        BY DEF tag
      <3>1. copy' = [n \in 1..2 |-> IF n = listing.page THEN [list |-> listing.list, tag |-> tag] ELSE copy[n]]
        BY <1>0, <2>1, <2>4
      <3>2. \A n \in 1..2 : IF n = listing.page THEN copy'[n].list = listing.list /\ copy'[n].tag = tag
                             ELSE copy'[n] = copy[n]
        BY <3>1
      <3>3. \A n \in 1..2 : copy'[n] = [list |-> copy'[n].list, tag |-> copy'[n].tag]
        BY <1>0, <3>1
      <3>4. copy' = [n \in 1..2 |-> [list |-> copy'[n].list, tag |-> copy'[n].tag]]
        BY <3>1, <3>3
      <3>5. \A n \in 1..2 : copy'[n].tag = <<>> \/ copy'[n].tag = Tag(copy'[n].list)
        BY <1>0, <3>0, <3>2
      <3>6. \A H : ListHistory(H) =>
              /\ \A n \in 1..2 : Kept(listCache'[n], n, H) /\ Kept(copy'[n].list, n, H)
              /\ listing'.pc \in {"store", "tag", "answered"} => Kept(listing'.list, listing'.page, H)
        BY <2>1, <2>2, <3>2 DEF ListHistory
      <3>7. copy'[listing.page].list = listing.list
        BY <1>0, <3>2
      <3>8. /\ copy'[listing'.page].list.items = listing'.list.items
            /\ copy'[listing'.page].list.total = listing'.list.total
        BY <2>2, <3>7
      <3> QED BY <2>2, <2>2a, <3>4, <3>5, <3>6, <3>8, ListMoves
    <2> QED BY <2>3, <2>4
  <1>6. ASSUME NEW p \in Listed, NEW tvl \in 0..MaxTvl, NEW activeNow \in BOOLEAN,
               PoolChanges(p, [tvl |-> tvl, active |-> activeNow])
        PROVE  ListInv'
    <2>1. [tvl |-> tvl, active |-> activeNow] \in [tvl : 0..MaxTvl, active : BOOLEAN]
      OBVIOUS
    <2> QED BY <1>6, <2>1, PoolChangesKeeps
  <1> QED BY <1>1, <1>2, <1>3, <1>4, <1>5, <1>6, ListActivePoolsKeeps DEF ListNext

LEMMA ListInitial == ListInit => ListInv
  <1> SUFFICES ASSUME ListInit PROVE ListInv
    OBVIOUS
  <1>1. /\ pools = [p \in Listed |-> [tvl |-> 0, active |-> TRUE]] /\ edition = 0
        /\ listCache = [n \in 1..2 |-> NoList] /\ copy = [n \in 1..2 |-> NoCopy]
        /\ listing = [pc |-> "none", page |-> 1, list |-> NoList, status |-> 0]
    BY DEF ListInit
  <1>2. pools \in Markets
    BY <1>1, ReadsAssumption DEF Markets
  <1> DEFINE H == [e \in Nat |-> pools]
  <1>3. ListHistory(H)
    BY <1>1, <1>2 DEF ListHistory, Kept, NoCopy
  <1>4. \E G : ListHistory(G)
    BY <1>3
  <1>5. \A n \in 1..2 : copy[n] = NoCopy /\ listCache[n] = NoList
    BY <1>1
  <1> HIDE DEF H
  <1> QED BY <1>1, <1>2, <1>4, <1>5 DEF ListInv, NoCopy

-----------------------------------------------------------------------------
(* AccountReads: the feed of activity. A row that a table's cap cuts off has a *)
(* cap's worth of newer rows of its table before it.                          *)

Events == [table : 1..3, id : Nat, at : 1..2]
Falling(s) == \A i, j \in DOMAIN s : i < j => s[i].at >= s[j].at

Behind(rows, t) == IF t = 1 THEN 0 ELSE IF t = 2 THEN Len(rows[1]) ELSE Len(rows[1]) + Len(rows[2])

\* Each entry of the three tables has its place behind one another, and each place an entry.
LEMMA TablesConcatenated ==
    ASSUME NEW rows \in [1..3 -> Seq(Events)]
    PROVE  /\ Concatenated(rows) \in Seq(Events) /\ DOMAIN Concatenated(rows) = 1..Len(Concatenated(rows))
           /\ Len(Concatenated(rows)) \in Nat
           /\ \A t \in 1..3 : \A j \in 1..Len(rows[t]) :
                 /\ Behind(rows, t) + j \in 1..Len(Concatenated(rows))
                 /\ Concatenated(rows)[Behind(rows, t) + j] = rows[t][j]
           /\ \A i \in 1..Len(Concatenated(rows)) :
                 \E t \in 1..3 : \E j \in 1..Len(rows[t]) : i = Behind(rows, t) + j
  <1> DEFINE a == rows[1]  b == rows[2]  c == rows[3]  all == (a \o b) \o c
  <1>1. a \in Seq(Events) /\ b \in Seq(Events) /\ c \in Seq(Events)
    OBVIOUS
  <1>2. Concatenated(rows) = all
    BY DEF Concatenated
  <1>3. Behind(rows, 1) = 0 /\ Behind(rows, 2) = Len(a) /\ Behind(rows, 3) = Len(a) + Len(b)
    BY DEF Behind
  <1> HIDE DEF a, b, c
  <1>4. /\ a \o b \in Seq(Events) /\ Len(a \o b) = Len(a) + Len(b) /\ Len(a) \in Nat /\ Len(b) \in Nat
        /\ Len(c) \in Nat
        /\ \A i \in 1..Len(a) : (a \o b)[i] = a[i]
        /\ \A i \in 1..Len(b) : (a \o b)[Len(a) + i] = b[i]
    BY <1>1, CatElements
  <1>5. /\ all \in Seq(Events) /\ Len(all) = Len(a \o b) + Len(c)
        /\ \A i \in 1..Len(a \o b) : all[i] = (a \o b)[i]
        /\ \A i \in 1..Len(c) : all[Len(a \o b) + i] = c[i]
    BY <1>1, <1>4, CatElements
  <1>6. DOMAIN all = 1..Len(all)
    BY <1>5
  <1> HIDE DEF all
  <1>7. ASSUME NEW j \in 1..Len(a) PROVE 0 + j \in 1..Len(all) /\ all[0 + j] = a[j]
    <2>1. j \in 1..Len(a \o b) /\ 0 + j = j /\ j \in 1..Len(all)
      BY <1>4, <1>5
    <2> QED BY <1>4, <1>5, <2>1
  <1>8. ASSUME NEW j \in 1..Len(b) PROVE Len(a) + j \in 1..Len(all) /\ all[Len(a) + j] = b[j]
    <2>1. Len(a) + j \in 1..Len(a \o b) /\ Len(a) + j \in 1..Len(all)
      BY <1>4, <1>5
    <2> QED BY <1>4, <1>5, <2>1
  <1>9. ASSUME NEW j \in 1..Len(c)
        PROVE (Len(a) + Len(b)) + j \in 1..Len(all) /\ all[(Len(a) + Len(b)) + j] = c[j]
    <2>1. (Len(a) + Len(b)) + j \in 1..Len(all)
      <3>1. PICK f \in Nat, g \in Nat, e \in Nat : f = Len(a) /\ g = Len(b) /\ e = Len(c)
        BY ONLY <1>4, Zenon
      <3>2. Len(all) = (f + g) + e /\ j \in 1..e
        BY ONLY <1>4, <1>5, <1>9, <3>1, Zenon
      <3>3. (f + g) + j \in 1..(f + g) + e
        BY ONLY <3>1, <3>2
      <3> QED BY ONLY <3>1, <3>2, <3>3, Zenon
    <2>2. all[(Len(a) + Len(b)) + j] = c[j]
      BY ONLY <1>4, <1>5, <1>9, Zenon
    <2> QED BY ONLY <2>1, <2>2, Zenon
  <1>10. ASSUME NEW t \in 1..3, NEW j \in 1..Len(rows[t])
         PROVE  Behind(rows, t) + j \in 1..Len(all) /\ all[Behind(rows, t) + j] = rows[t][j]
    <2>1. t = 1 \/ t = 2 \/ t = 3
      OBVIOUS
    <2>2. CASE t = 1
      BY <1>3, <1>7, <2>2 DEF a
    <2>3. CASE t = 2
      BY <1>3, <1>8, <2>3 DEF b
    <2>4. CASE t = 3
      BY <1>3, <1>9, <2>4 DEF c
    <2> QED BY <2>1, <2>2, <2>3, <2>4
  <1>11. ASSUME NEW i \in 1..Len(all)
         PROVE  \E t \in 1..3 : \E j \in 1..Len(rows[t]) : i = Behind(rows, t) + j
    <2>1. CASE i <= Len(a)
      <3>1. i \in 1..Len(rows[1]) /\ i = Behind(rows, 1) + i
        BY <1>3, <1>4, <2>1 DEF a
      <3> QED BY <3>1
    <2>2. CASE i > Len(a) /\ i <= Len(a) + Len(b)
      <3>1. i - Len(a) \in 1..Len(rows[2]) /\ i = Behind(rows, 2) + (i - Len(a))
        <4>1. i - Len(a) \in 1..Len(b) /\ i = Len(a) + (i - Len(a))
          BY <1>4, <2>2
        <4> QED BY <1>3, <4>1 DEF b
      <3> QED BY <3>1
    <2>3. CASE i > Len(a) + Len(b)
      <3> DEFINE j == i - (Len(a) + Len(b))
      <3>1. j \in 1..Len(c) /\ i = (Len(a) + Len(b)) + j
        BY <1>4, <1>5, <2>3
      <3> HIDE DEF j
      <3>2. j \in 1..Len(rows[3]) /\ i = Behind(rows, 3) + j
        BY <1>3, <3>1 DEF c
      <3> QED BY <3>2
    <2> QED BY <1>4, <2>1, <2>2, <2>3
  <1>12. Len(all) \in Nat
    BY <1>4, <1>5
  <1> QED BY <1>2, <1>5, <1>6, <1>10, <1>11, <1>12

\* An order a query may return exists.
LEMMA SomeOrder ==
    ASSUME NEW S, IsFiniteSet(S), NEW R,
           \A x \in S : <<x, x>> \notin R,
           \A x, y \in S : x # y => <<x, y>> \in R \/ <<y, x>> \in R,
           \A x, y, z \in S : <<x, y>> \in R /\ <<y, z>> \in R => <<x, z>> \in R
    PROVE  \E s \in SetToSeqs(S) : \A i, j \in DOMAIN s : i < j => <<s[i], s[j]>> \in R /\ <<s[j], s[i]>> \notin R
  <1>1. PICK s \in SetToSeqs(S) : \A i, j \in DOMAIN s : i < j => <<s[i], s[j]>> \in R
    BY OrderExists
  <1>2. \A i \in DOMAIN s : s[i] \in S
    BY InOrder
  <1>3. ASSUME NEW i \in DOMAIN s, NEW j \in DOMAIN s, i < j PROVE <<s[j], s[i]>> \notin R
    BY <1>1, <1>2, <1>3
  <1> QED BY <1>1, <1>3

\* The sort moves the entries and makes their times fall.
LEMMA MergedSorts ==
    ASSUME NEW rows \in [1..3 -> Seq(Events)]
    PROVE  /\ Merged(rows) \in Seq(Events) /\ Len(Merged(rows)) = Len(Concatenated(rows))
           /\ Falling(Merged(rows))
           /\ \E order \in SetToSeqs(DOMAIN Concatenated(rows)) :
                 Merged(rows) = [k \in DOMAIN Concatenated(rows) |-> Concatenated(rows)[order[k]]]
  <1> DEFINE all == rows[1] \o rows[2] \o rows[3]
             D == DOMAIN all
             n == Len(all)
             Ahd(i, j) == \/ all[i].at > all[j].at
                          \/ all[i].at = all[j].at /\ i < j
             Sorted == {s \in SetToSeqs(D) : \A i, j \in DOMAIN s : i < j => ~Ahd(s[j], s[i])}
             order == CHOOSE s \in Sorted : TRUE
             made == [k \in D |-> all[order[k]]]
             R == {p \in D \X D : Ahd(p[1], p[2])}
  <1>1. Merged(rows) = made
    BY DEF Merged, Ordered
  <1>2. Concatenated(rows) = all
    BY DEF Concatenated
  <1>3. all \in Seq(Events) /\ D = 1..n /\ n \in Nat
    BY <1>2, TablesConcatenated
  <1> HIDE DEF all
  <1>4. \A i \in D : all[i] \in Events /\ all[i].at \in Int /\ i \in Int
    <2>1. \A i \in D : all[i] \in Events /\ i \in Int
      BY <1>3
    <2> QED BY <2>1 DEF Events
  <1>5. IsFiniteSet(D)
    BY <1>3, FS_Interval
  <1>6. \A x, y \in D : <<x, y>> \in R <=> Ahd(x, y)
    OBVIOUS
  <1>7. /\ \A x \in D : ~Ahd(x, x)
        /\ \A x, y \in D : x # y => Ahd(x, y) \/ Ahd(y, x)
        /\ \A x, y, z \in D : Ahd(x, y) /\ Ahd(y, z) => Ahd(x, z)
    BY <1>4
  <1> HIDE DEF D, n, R, Ahd
  <1>8. /\ \A x \in D : <<x, x>> \notin R
        /\ \A x, y \in D : x # y => <<x, y>> \in R \/ <<y, x>> \in R
        /\ \A x, y, z \in D : <<x, y>> \in R /\ <<y, z>> \in R => <<x, z>> \in R
    BY <1>6, <1>7
  <1>9. PICK q \in SetToSeqs(D) : \A i, j \in DOMAIN q : i < j => <<q[i], q[j]>> \in R /\ <<q[j], q[i]>> \notin R
    BY <1>5, <1>8, SomeOrder
  <1>10. \A i \in DOMAIN q : q[i] \in D
    BY <1>5, InOrder
  <1>11. q \in Sorted
    BY <1>6, <1>9, <1>10
  <1>12. order \in Sorted
    BY <1>11
  <1> HIDE DEF order
  <1>13. order \in SetToSeqs(D) /\ \A i, j \in DOMAIN order : i < j => ~Ahd(order[j], order[i])
    BY <1>12
  <1>14. /\ Len(order) = Cardinality(D) /\ Len(order) \in Nat /\ DOMAIN order = 1..Len(order)
         /\ \A i \in 1..Len(order) : order[i] \in D
    BY <1>5, <1>13, InOrder
  <1>15. Cardinality(D) = n
    BY <1>3, FS_Interval
  <1>16. \A k \in D : made[k] \in Events
    BY <1>3, <1>4, <1>14, <1>15
  <1>17. made \in Seq(Events) /\ Len(made) = n
    <2>1. made = [k \in 1..n |-> made[k]]
      BY <1>3
    <2>2. \A k \in 1..n : made[k] \in Events
      BY <1>3, <1>16
    <2>3. n \in Nat
      BY <1>3
    <2> HIDE DEF made
    <2>4. made \in Seq(Events)
      <3>1. made \in [1..n -> Events]
        BY <2>1, <2>2
      <3> QED BY <2>3, <3>1
    <2>5. Len(made) = n
      BY <2>1, <2>3
    <2> QED BY <2>4, <2>5
  <1>18. Falling(made)
    <2> SUFFICES ASSUME NEW i \in D, NEW j \in D, i < j PROVE made[i].at >= made[j].at
      BY DEF Falling
    <2>1. order[i] \in D /\ order[j] \in D /\ ~Ahd(order[j], order[i])
      BY <1>3, <1>13, <1>14, <1>15
    <2>2. all[order[i]].at \in Int /\ all[order[j]].at \in Int
      BY <1>4, <2>1
    <2>3. ~(all[order[j]].at > all[order[i]].at)
      BY <2>1 DEF Ahd
    <2>4. made[i] = all[order[i]] /\ made[j] = all[order[j]]
      OBVIOUS
    <2> HIDE DEF made
    <2> QED BY <2>2, <2>3, <2>4
  <1> HIDE DEF made
  <1>19. made = [k \in D |-> all[order[k]]]
    BY DEF made
  <1> QED BY <1>1, <1>2, <1>13, <1>17, <1>18, <1>19 DEF n, D

\* What a query of one of the tables gives: rows of the table, each once; and what
\* is left out is behind a full answer.
TableRead(rows, t, began) ==
    /\ \A i \in DOMAIN rows[t] : rows[t][i].table = t
    /\ IsInjective(rows[t])
    /\ \A r \in began : r.table = t =>
          \/ r \in Range(rows[t])
          \/ Len(rows[t]) = FeedCap /\ \A i \in DOMAIN rows[t] : rows[t][i].at >= r.at

\* As many entries as the cap are not behind r.
Crowds(s, r) ==
    \E f : /\ \A i \in 1..FeedCap : f[i] \in Range(s) /\ f[i].at >= r.at
           /\ \A i, j \in 1..FeedCap : f[i] = f[j] => i = j

\* The numbers up to m are m.
LEMMA CountTo ==
    ASSUME NEW m \in Nat
    PROVE  IsFiniteSet(1..m) /\ Cardinality(1..m) = m
  <1>1. PICK one \in Int, k \in Int : one = 1 /\ k = m
    OBVIOUS
  <1>2. IsFiniteSet(one..k) /\ Cardinality(one..k) = (IF one > k THEN 0 ELSE k - one + 1)
    BY ONLY <1>1, FS_Interval, Zenon
  <1>3. (IF one > k THEN 0 ELSE k - one + 1) = m
    BY <1>1
  <1> QED BY ONLY <1>1, <1>2, <1>3, Zenon

\* The merged feed repeats nothing, and what is missing from it is crowded out
\* of its table by a cap's worth of newer rows.
LEMMA MergedHas ==
    ASSUME NEW rows \in [1..3 -> Seq(Events)], NEW began, began \subseteq Events,
           \A t \in 1..3 : TableRead(rows, t, began)
    PROVE  /\ IsInjective(Merged(rows))
           /\ \A x \in Range(Merged(rows)) : \E t \in 1..3 : x \in Range(rows[t])
           /\ \A r \in began \ Range(Merged(rows)) : Crowds(Merged(rows), r)
  <1> DEFINE all == Concatenated(rows)  m == Merged(rows)  n == Len(all)
  <1>1. /\ all \in Seq(Events) /\ DOMAIN all = 1..n /\ n \in Nat
        /\ \A t \in 1..3 : \A j \in 1..Len(rows[t]) :
              Behind(rows, t) + j \in 1..n /\ all[Behind(rows, t) + j] = rows[t][j]
        /\ \A i \in 1..n : \E t \in 1..3 : \E j \in 1..Len(rows[t]) : i = Behind(rows, t) + j
    BY TablesConcatenated
  <1>2. PICK order \in SetToSeqs(DOMAIN all) : m = [k \in DOMAIN all |-> all[order[k]]]
    BY MergedSorts
  <1>3. m \in Seq(Events) /\ Len(m) = n
    BY MergedSorts
  <1> HIDE DEF all, m
  <1> DEFINE D == 1..n
  <1>3a. IsFiniteSet(D) /\ Cardinality(D) = n /\ order \in SetToSeqs(D)
    <2> HIDE DEF n
    <2>1. n \in Nat /\ DOMAIN all = 1..n
      BY ONLY <1>1, Zenon
    <2>2. IsFiniteSet(1..n) /\ Cardinality(1..n) = n
      BY ONLY <2>1, CountTo, Zenon
    <2> QED BY ONLY <1>2, <2>1, <2>2, Zenon DEF D
  <1> HIDE DEF D
  <1>4. /\ Len(order) = n
        /\ \A i \in 1..Len(order) : order[i] \in D
        /\ \A i, j \in 1..Len(order) : order[i] = order[j] => i = j
        /\ \A x \in D : \E i \in 1..Len(order) : order[i] = x
    BY <1>3a, InOrder
  <1>5. /\ \A i \in D : order[i] \in D /\ m[i] = all[order[i]]
        /\ \A i, j \in D : order[i] = order[j] => i = j
        /\ \A x \in D : \E i \in D : order[i] = x
        /\ DOMAIN m = D
    BY <1>1, <1>2, <1>4 DEF D
  <1>6. \A t \in 1..3 : /\ DOMAIN rows[t] = 1..Len(rows[t]) /\ IsInjective(rows[t])
                        /\ \A i \in 1..Len(rows[t]) : rows[t][i].table = t
    <2> SUFFICES ASSUME NEW t \in 1..3
                 PROVE  /\ DOMAIN rows[t] = 1..Len(rows[t]) /\ IsInjective(rows[t])
                        /\ \A i \in 1..Len(rows[t]) : rows[t][i].table = t
      OBVIOUS
    <2>1. DOMAIN rows[t] = 1..Len(rows[t])
      OBVIOUS
    <2> QED BY <2>1 DEF TableRead
  <1>7. ASSUME NEW i \in D, NEW j \in D, all[i] = all[j] PROVE i = j
    <2>1. PICK t \in 1..3 : \E a \in 1..Len(rows[t]) : i = Behind(rows, t) + a
      BY <1>1 DEF D
    <2>2. PICK a \in 1..Len(rows[t]) : i = Behind(rows, t) + a
      BY <2>1
    <2>3. PICK u \in 1..3 : \E b \in 1..Len(rows[u]) : j = Behind(rows, u) + b
      BY <1>1 DEF D
    <2>4. PICK b \in 1..Len(rows[u]) : j = Behind(rows, u) + b
      BY <2>3
    <2>5. all[i] = rows[t][a] /\ all[j] = rows[u][b]
      BY <1>1, <2>2, <2>4
    <2>6. t = u
      <3>1. rows[t][a].table = t /\ rows[u][b].table = u
        BY <1>6
      <3> QED BY <1>7, <2>5, <3>1
    <2>7. a = b
      <3>1. a \in DOMAIN rows[t] /\ b \in DOMAIN rows[t] /\ rows[t][a] = rows[t][b]
        BY <1>6, <1>7, <2>5, <2>6
      <3>2. IsInjective(rows[t])
        BY <1>6
      <3> QED BY <3>1, <3>2 DEF IsInjective
    <2> QED BY <2>2, <2>4, <2>6, <2>7
  <1>8. IsInjective(m)
    BY <1>5, <1>7 DEF IsInjective
  <1>9. ASSUME NEW x \in Range(m) PROVE \E t \in 1..3 : x \in Range(rows[t])
    <2>1. PICK k \in D : x = m[k]
      BY <1>5 DEF Range
    <2>2. order[k] \in 1..n /\ x = all[order[k]]
      BY <1>5, <2>1 DEF D
    <2>3. PICK t \in 1..3 : \E a \in 1..Len(rows[t]) : order[k] = Behind(rows, t) + a
      BY <1>1, <2>2
    <2>4. PICK a \in 1..Len(rows[t]) : order[k] = Behind(rows, t) + a
      BY <2>3
    <2>5. x = rows[t][a]
      BY <1>1, <2>2, <2>4
    <2> QED BY <1>6, <2>5 DEF Range
  <1>10. \A t \in 1..3 : \A j \in 1..Len(rows[t]) : rows[t][j] \in Range(m)
    <2> SUFFICES ASSUME NEW t \in 1..3, NEW j \in 1..Len(rows[t]) PROVE rows[t][j] \in Range(m)
      OBVIOUS
    <2>1. Behind(rows, t) + j \in D /\ all[Behind(rows, t) + j] = rows[t][j]
      BY <1>1 DEF D
    <2>2. PICK k \in D : order[k] = Behind(rows, t) + j
      BY <1>5, <2>1
    <2>3. m[k] = rows[t][j]
      BY <1>5, <2>1, <2>2
    <2> QED BY <1>5, <2>3 DEF Range
  <1>11. ASSUME NEW r \in began, r \notin Range(m) PROVE Crowds(m, r)
    <2>1. r.table \in 1..3
      BY DEF Events
    <2> DEFINE t == r.table
    <2>2. Len(rows[t]) = FeedCap /\ \A i \in 1..Len(rows[t]) : rows[t][i].at >= r.at
      <3>1. r \notin Range(rows[t])
        <4> SUFFICES ASSUME r \in Range(rows[t]) PROVE FALSE
          OBVIOUS
        <4>1. PICK i \in DOMAIN rows[t] : rows[t][i] = r
          BY DEF Range
        <4>2. i \in 1..Len(rows[t])
          BY <1>6, <2>1
        <4> QED BY <1>10, <1>11, <2>1, <4>1, <4>2
      <3> QED BY <1>6, <2>1, <3>1 DEF TableRead
    <2>3. \A i \in 1..FeedCap : rows[t][i] \in Range(m) /\ rows[t][i].at >= r.at
      BY <1>10, <2>1, <2>2
    <2>4. \A i, j \in 1..FeedCap : rows[t][i] = rows[t][j] => i = j
      BY <1>6, <2>1, <2>2 DEF IsInjective
    <2> HIDE DEF t
    <2> QED BY <2>3, <2>4 DEF Crowds
  <1> QED BY <1>8, <1>9, <1>11 DEF m

\* Entries newer than the k-th of a falling series stand before it.
LEMMA AheadFew ==
    ASSUME NEW s \in Seq(Events), Falling(s), NEW k \in 1..Len(s), NEW n \in Nat, NEW f,
           \A i \in 1..n : f[i] \in Range(s) /\ f[i].at > s[k].at,
           \A i, j \in 1..n : f[i] = f[j] => i = j
    PROVE  n < k
  <1>1. DOMAIN s = 1..Len(s) /\ Len(s) \in Nat /\ \A i \in DOMAIN s : s[i] \in Events
    BY SeqElements
  <1>2. \A i \in 1..Len(s) : s[i].at \in Int
    <2>1. \A i \in 1..Len(s) : s[i] \in Events
      BY ONLY <1>1, Zenon
    <2>2. \A x \in Events : x.at \in Int
      BY ONLY SMT DEF Events
    <2> QED BY ONLY <2>1, <2>2, Zenon
  <1> DEFINE place == [i \in 1..n |-> CHOOSE q \in 1..Len(s) : s[q] = f[i]]
             S == 1..(k - 1)
  <1>3. \A i \in 1..n : place[i] \in 1..Len(s) /\ s[place[i]] = f[i]
    <2>1. \A i \in 1..n : \E q \in 1..Len(s) : s[q] = f[i]
      BY <1>1 DEF Range
    <2> QED BY <2>1
  <1> HIDE DEF place
  <1>4. ASSUME NEW i \in 1..n PROVE place[i] \in S
    <2>1. place[i] \in 1..Len(s) /\ s[place[i]].at > s[k].at
      BY <1>3
    <2>2. place[i] # k
      BY <1>2, <2>1
    <2>3. ~(k < place[i])
      <3> SUFFICES ASSUME k < place[i] PROVE FALSE
        OBVIOUS
      <3>1. s[k].at >= s[place[i]].at
        BY <1>1, <2>1 DEF Falling
      <3> QED BY <1>2, <2>1, <3>1
    <2>4. PICK q \in 1..Len(s) : q = place[i]
      BY <2>1
    <2>5. Len(s) \in Nat /\ q # k /\ ~(k < q)
      BY <1>1, <2>2, <2>3, <2>4
    <2> HIDE DEF place
    <2>6. q \in 1..(k - 1)
      BY <2>5
    <2> QED BY <2>4, <2>6
  <1>5. \A i, j \in 1..n : place[i] = place[j] => i = j
    BY <1>3
  <1>6. IsFiniteSet(S) /\ Cardinality(S) = k - 1
    <2>1. PICK m \in Nat : m = k - 1
      BY <1>1
    <2>2. IsFiniteSet(1..m) /\ Cardinality(1..m) = m
      BY CountTo
    <2> QED BY <2>1, <2>2
  <1>7. n <= Cardinality(S)
    <2> HIDE DEF S
    <2> QED BY <1>4, <1>5, <1>6, Crowded
  <1> QED BY <1>1, <1>6, <1>7

FeedRows(m, began) ==
    /\ m \in Seq(Events) /\ Falling(m) /\ IsInjective(m)
    /\ began \subseteq Events
    /\ \A r \in began \ Range(m) : Crowds(m, r)

\* An entry of the feed older than a missing row stands beyond the cap,
LEMMA RowsBehind ==
    ASSUME NEW m, NEW began, FeedRows(m, began), NEW r \in began, r \notin Range(m), NEW k \in 1..Len(m),
           ~(m[k].at >= r.at)
    PROVE  FeedCap < k
  <1>1. PICK f : /\ \A i \in 1..FeedCap : f[i] \in Range(m) /\ f[i].at >= r.at
                 /\ \A i, j \in 1..FeedCap : f[i] = f[j] => i = j
    BY DEF FeedRows, Crowds
  <1>2. m \in Seq(Events) /\ Falling(m) /\ FeedCap \in Nat
    BY ReadsAssumption DEF FeedRows
  <1>3. \A x \in Range(m) : x.at \in Int
    <2>1. DOMAIN m = 1..Len(m) /\ \A i \in DOMAIN m : m[i] \in Events
      BY <1>2, SeqElements
    <2>2. \A x \in Range(m) : x \in Events
      BY <2>1 DEF Range
    <2> QED BY <2>2 DEF Events
  <1>4. m[k].at \in Int /\ r.at \in Int
    <2>1. m[k] \in Range(m)
      BY <1>2 DEF Range
    <2>2. r \in Events
      BY DEF FeedRows
    <2> QED BY <1>3, <2>1, <2>2 DEF Events
  <1>5. \A i \in 1..FeedCap : f[i] \in Range(m) /\ f[i].at > m[k].at
    <2> SUFFICES ASSUME NEW i \in 1..FeedCap PROVE f[i] \in Range(m) /\ f[i].at > m[k].at
      OBVIOUS
    <2>1. f[i] \in Range(m) /\ f[i].at >= r.at /\ f[i].at \in Int
      BY <1>1, <1>3
    <2> QED BY <1>4, <2>1
  <1> QED BY <1>1, <1>2, <1>5, AheadFew

\* A cap's worth of entries that are not behind r.
LEMMA RowsEnough ==
    ASSUME NEW m, NEW began, FeedRows(m, began), NEW r \in began, r \notin Range(m)
    PROVE  FeedCap <= Len(m)
  <1>1. PICK f : /\ \A i \in 1..FeedCap : f[i] \in Range(m)
                 /\ \A i, j \in 1..FeedCap : f[i] = f[j] => i = j
    BY DEF FeedRows, Crowds
  <1>2. m \in Seq(Events) /\ FeedCap \in Nat
    BY ReadsAssumption DEF FeedRows
  <1>3. DOMAIN m = 1..Len(m) /\ Len(m) \in Nat
    BY <1>2, SeqElements
  <1> DEFINE place == [i \in 1..FeedCap |-> CHOOSE q \in 1..Len(m) : m[q] = f[i]]
             S == 1..Len(m)
  <1>4. \A i \in 1..FeedCap : place[i] \in S /\ m[place[i]] = f[i]
    <2>1. \A i \in 1..FeedCap : \E q \in 1..Len(m) : m[q] = f[i]
      BY <1>1, <1>3 DEF Range
    <2> QED BY <2>1
  <1>5. IsFiniteSet(S) /\ Cardinality(S) = Len(m)
    <2>1. IsFiniteSet(1..Len(m)) /\ Cardinality(1..Len(m)) = Len(m)
      <3>1. PICK q \in Nat : q = Len(m)
        BY <1>3
      <3>2. IsFiniteSet(1..q) /\ Cardinality(1..q) = q
        BY FS_Interval
      <3> QED BY <3>1, <3>2
    <2> QED BY <2>1
  <1>6. \A i, j \in 1..FeedCap : place[i] = place[j] => i = j
    <2> HIDE DEF place
    <2> QED BY <1>1, <1>4
  <1>7. FeedCap <= Cardinality(S)
    <2> HIDE DEF S, place
    <2> QED BY <1>2, <1>4, <1>5, <1>6, Crowded
  <1> QED BY <1>5, <1>7

\* so the first page lacks only what is no newer than its last entry,
LEMMA FirstPageTrue ==
    ASSUME NEW m, NEW began, FeedRows(m, began), NEW r \in began, r \notin Range(Slice(m, 1, FeedLimit))
    PROVE  Len(Slice(m, 1, FeedLimit)) = FeedLimit /\ r.at <= Last(Slice(m, 1, FeedLimit)).at
  <1> DEFINE L == FeedLimit  items == Slice(m, 1, L)  n == Len(m)  k == OnPage(n, 0, L)
  <1>1. L \in Nat \ {0} /\ FeedCap \in Nat /\ L <= FeedCap /\ 1 \in 1..2
    BY ReadsAssumption
  <1>2. m \in Seq(Events) /\ Falling(m) /\ DOMAIN m = 1..n /\ n \in Nat /\ \A i \in 1..n : m[i] \in Events
    <2>1. m \in Seq(Events) /\ Falling(m)
      BY DEF FeedRows
    <2> QED BY <2>1, SeqElements
  <1>3. Offset(1, L) = 0
    BY <1>1 DEF Offset
  <1> HIDE DEF L
  <1>4. items \in Seq(Events) /\ Len(items) = k /\ k \in Nat /\ DOMAIN items = 1..k
    BY <1>1, <1>2, <1>3, PageCut
  <1>5. ASSUME NEW i \in 1..k PROVE items[i] = m[i] /\ i \in 1..n
    <2>1. items[i] = m[Offset(1, L) + i] /\ Offset(1, L) + i \in 1..n
      BY <1>1, <1>2, <1>3, PageElements
    <2>2. Offset(1, L) + i = i
      BY <1>3
    <2> QED BY <2>1, <2>2
  <1>6. k = IF n < L THEN n ELSE L
    BY <1>1, <1>2 DEF OnPage
  <1> HIDE DEF items, n, k
  <1>7. \A i \in 1..n : m[i].at \in Int
    BY <1>2 DEF Events
  <1>8. r.at \in Int
    <2>1. r \in Events
      BY DEF FeedRows
    <2> QED BY <2>1 DEF Events
  <1>9. L <= n /\ m[L].at >= r.at
    <2>1. CASE r \in Range(m)
      <3>1. PICK q \in 1..n : m[q] = r
        BY <1>2, <2>1 DEF Range
      <3>2. q \notin 1..k
        <4> SUFFICES ASSUME q \in 1..k PROVE FALSE
          OBVIOUS
        <4>1. items[q] = r
          BY <1>5, <3>1
        <4>2. r \in Range(items)
          BY <1>4, <4>1 DEF Range
        <4> QED BY <4>2 DEF items, L
      <3>3. L < q /\ L \in 1..n
        BY <1>1, <1>2, <1>6, <3>2
      <3> QED BY <1>2, <3>1, <3>3 DEF Falling
    <2>2. CASE r \notin Range(m)
      <3>1. FeedCap <= n
        BY <2>2, RowsEnough DEF n
      <3>2. L \in 1..n
        BY <1>1, <1>2, <3>1
      <3>3. m[L].at >= r.at
        <4> SUFFICES ASSUME ~(m[L].at >= r.at) PROVE FALSE
          OBVIOUS
        <4>1. FeedCap < L
          BY <2>2, <3>2, RowsBehind DEF n
        <4> QED BY <1>1, <4>1
      <3> QED BY <3>2, <3>3
    <2> QED BY <2>1, <2>2
  <1>10. k = L /\ L \in 1..k
    BY <1>1, <1>2, <1>6, <1>9
  <1>11. Last(items) = items[L]
    BY <1>4, <1>10 DEF Last
  <1>12. Last(items).at = m[L].at /\ m[L].at \in Int
    BY <1>5, <1>7, <1>10, <1>11
  <1>13. Len(items) = L /\ r.at <= Last(items).at
    BY <1>4, <1>8, <1>9, <1>10, <1>12
  <1> QED BY <1>13 DEF items, L


\* Nothing came meanwhile: up to the cap, the times are those of all the rows.
LEMMA SameTimes ==
    ASSUME NEW m, NEW began, FeedRows(m, began), Range(m) \subseteq began, IsFiniteSet(began),
           NEW e \in SetToSeqs(began), \A i, j \in DOMAIN e : i < j => ~(e[j].at > e[i].at)
    PROVE  /\ e \in Seq(Events) /\ Len(m) <= Len(e) /\ (Len(m) < Len(e) => FeedCap <= Len(m))
           /\ \A k \in 1..Len(m) : k <= FeedCap => m[k].at = e[k].at
  <1> DEFINE n == Len(m)  b == Len(e)
  <1>1. /\ e \in Seq(began) /\ b = Cardinality(began) /\ b \in Nat /\ DOMAIN e = 1..b
        /\ \A i \in 1..b : e[i] \in began
        /\ \A i, j \in 1..b : e[i] = e[j] => i = j
        /\ \A x \in began : \E i \in 1..b : e[i] = x
    BY InOrder
  <1>2. began \subseteq Events /\ m \in Seq(Events) /\ Falling(m) /\ IsInjective(m) /\ FeedCap \in Nat
    BY ReadsAssumption DEF FeedRows
  <1>3. DOMAIN m = 1..n /\ n \in Nat /\ \A i \in 1..n : m[i] \in Events
    BY <1>2, SeqElements
  <1>4. e \in Seq(Events)
    BY <1>1, <1>2, SeqWider
  <1>5. \A x \in Events : x.at \in Int
    BY DEF Events
  <1>6. Falling(e)
    <2> SUFFICES ASSUME NEW i \in 1..b, NEW j \in 1..b, i < j PROVE e[i].at >= e[j].at
      BY <1>1 DEF Falling
    <2>1. e[i].at \in Int /\ e[j].at \in Int
      BY <1>1, <1>2, <1>5
    <2>2. ~(e[j].at > e[i].at)
      BY <1>1
    <2> QED BY <2>1, <2>2
  <1>7. \A i \in 1..n : m[i] \in began /\ m[i] \in Range(m) /\ m[i] \in Range(e)
    <2>1. \A i \in 1..n : m[i] \in Range(m)
      BY <1>3 DEF Range
    <2>2. \A x \in began : x \in Range(e)
      BY <1>1 DEF Range
    <2> QED BY <2>1, <2>2
  <1>8. \A i, j \in 1..n : m[i] = m[j] => i = j
    BY <1>2, <1>3 DEF IsInjective
  <1>9. n <= b
    <2>1. n <= Cardinality(began)
      BY <1>3, <1>7, <1>8, Crowded
    <2> QED BY <1>1, <2>1
  <1>10. n < b => FeedCap <= n
    <2> SUFFICES ASSUME n < b PROVE FeedCap <= n
      OBVIOUS
    <2>1. CASE \E r \in began : r \notin Range(m)
      BY <2>1, RowsEnough
    <2>2. CASE \A r \in began : r \in Range(m)
      <3> DEFINE place == [i \in 1..b |-> CHOOSE q \in 1..n : m[q] = e[i]]  S == 1..n
      <3>1. \A i \in 1..b : \E q \in 1..n : m[q] = e[i]
        BY <1>1, <1>3, <2>2 DEF Range
      <3>2. \A i \in 1..b : place[i] \in S /\ m[place[i]] = e[i]
        BY <3>1
      <3>3. IsFiniteSet(1..n) /\ Cardinality(1..n) = n
        <4>1. PICK q \in Nat : q = n
          BY <1>3
        <4> HIDE DEF n, b, S, place
        <4>2. IsFiniteSet(1..q) /\ Cardinality(1..q) = q
          BY FS_Interval
        <4> QED BY <4>1, <4>2
      <3>4. IsFiniteSet(S) /\ Cardinality(S) = n
        BY <3>3
      <3> HIDE DEF place, S
      <3>5. \A i, j \in 1..b : place[i] = place[j] => i = j
        BY <1>1, <3>2
      <3>6. b <= Cardinality(S)
        BY <1>1, <3>2, <3>4, <3>5, Crowded
      <3> QED BY <1>1, <1>3, <3>4, <3>6
    <2> QED BY <2>1, <2>2
  <1>11. ASSUME NEW k \in 1..n, k <= FeedCap PROVE m[k].at = e[k].at
    <2>1. /\ k \in 1..b /\ k \in Nat /\ \A i \in 1..k : i \in 1..n /\ i \in 1..b
      BY <1>1, <1>3, <1>9
    <2>2. m[k].at \in Int /\ e[k].at \in Int
      BY <1>1, <1>2, <1>3, <1>5, <2>1
    <2>3. \A i \in 1..k : m[i].at \in Int /\ m[i].at >= m[k].at
      <3> SUFFICES ASSUME NEW i \in 1..k PROVE m[i].at \in Int /\ m[i].at >= m[k].at
        OBVIOUS
      <3>1. m[i].at \in Int
        BY <1>3, <1>5, <2>1
      <3>2. i < k => m[i].at >= m[k].at
        BY <1>2, <1>3, <2>1 DEF Falling
      <3> QED BY <2>1, <2>2, <3>1, <3>2
    <2>4. \A i \in 1..k : e[i].at \in Int /\ e[i].at >= e[k].at
      <3> SUFFICES ASSUME NEW i \in 1..k PROVE e[i].at \in Int /\ e[i].at >= e[k].at
        OBVIOUS
      <3>1. e[i].at \in Int
        BY <1>1, <1>2, <1>5, <2>1
      <3>2. i < k => e[i].at >= e[k].at
        BY <1>1, <1>6, <2>1 DEF Falling
      <3> QED BY <2>1, <2>2, <3>1, <3>2
    <2>5. ~(m[k].at > e[k].at)
      <3> SUFFICES ASSUME m[k].at > e[k].at PROVE FALSE
        OBVIOUS
      <3>1. \A i \in 1..k : m[i] \in Range(e) /\ m[i].at > e[k].at
        BY <1>7, <2>1, <2>2, <2>3
      <3>2. \A i, j \in 1..k : m[i] = m[j] => i = j
        BY <1>8, <2>1
      <3>3. k < k
        BY <1>4, <1>6, <2>1, <3>1, <3>2, AheadFew
      <3> QED BY <2>1, <3>3
    <2>6. ~(e[k].at > m[k].at)
      <3> SUFFICES ASSUME e[k].at > m[k].at PROVE FALSE
        OBVIOUS
      <3>1. CASE \A i \in 1..k : e[i] \in Range(m)
        <4>1. \A i \in 1..k : e[i] \in Range(m) /\ e[i].at > m[k].at
          BY <2>2, <2>4, <3>1
        <4>2. \A i, j \in 1..k : e[i] = e[j] => i = j
          BY <1>1, <2>1
        <4>3. k < k
          BY <1>2, <2>1, <4>1, <4>2, AheadFew
        <4> QED BY <2>1, <4>3
      <3>2. CASE ~ \A i \in 1..k : e[i] \in Range(m)
        <4>1. PICK i \in 1..k : e[i] \notin Range(m)
          BY <3>2
        <4>2. ~(m[k].at >= e[i].at) /\ e[i] \in began
          BY <1>1, <2>1, <2>2, <2>4
        <4>3. FeedCap < k
          BY <4>1, <4>2, RowsBehind
        <4> QED BY <1>2, <1>11, <2>1, <4>3
      <3> QED BY <3>1, <3>2
    <2> QED BY <2>2, <2>5, <2>6
  <1> QED BY <1>4, <1>9, <1>10, <1>11

Times(s) == [i \in DOMAIN s |-> s[i].at]

\* and the pages within the cap show the times the whole feed would.
LEMMA TimesTrue ==
    ASSUME NEW m, NEW began, FeedRows(m, began), Range(m) \subseteq began, IsFiniteSet(began),
           NEW e \in SetToSeqs(began), \A i, j \in DOMAIN e : i < j => ~(e[j].at > e[i].at),
           NEW page \in 1..2, page * FeedLimit <= FeedCap
    PROVE  Times(Slice(m, page, FeedLimit)) = Times(Slice(e, page, FeedLimit))
  <1> DEFINE L == FeedLimit  o == Offset(page, L)  n == Len(m)  b == Len(e)
             k == OnPage(n, o, L)
             x == Slice(m, page, L)  y == Slice(e, page, L)
  <1>1. L \in Nat \ {0} /\ FeedCap \in Nat
    BY ReadsAssumption
  <1>2. o \in Nat /\ o + L <= FeedCap
    <2>1. page = 1 \/ page = 2
      OBVIOUS
    <2>2. CASE page = 1
      BY <1>1, <2>2 DEF Offset
    <2>3. CASE page = 2
      BY <1>1, <2>3 DEF Offset
    <2> QED BY <2>1, <2>2, <2>3
  <1>3. /\ e \in Seq(Events) /\ n <= b /\ (n < b => FeedCap <= n)
        /\ \A i \in 1..n : i <= FeedCap => m[i].at = e[i].at
    BY SameTimes
  <1>4. m \in Seq(Events)
    BY DEF FeedRows
  <1>5. n \in Nat /\ b \in Nat
    <2> HIDE DEF o, L
    <2>1. e \in Seq(Events)
      BY ONLY <1>3, Zenon
    <2>2. Len(m) \in Nat
      BY ONLY <1>4
    <2>3. Len(e) \in Nat
      BY ONLY <2>1
    <2> QED BY ONLY <2>2, <2>3, Zenon DEF n, b
  <1> HIDE DEF L
  <1>6. /\ DOMAIN x = 1..k /\ DOMAIN y = 1..OnPage(b, o, L) /\ k \in Nat
    <2>1. m \in Seq(Events) /\ e \in Seq(Events) /\ L \in Nat \ {0}
      BY ONLY <1>1, <1>3, <1>4, Zenon
    <2>2. DOMAIN Slice(m, page, L) = 1..OnPage(Len(m), Offset(page, L), L)
          /\ OnPage(Len(m), Offset(page, L), L) \in Nat
      BY <2>1, PageCut, Zenon
    <2>3. DOMAIN Slice(e, page, L) = 1..OnPage(Len(e), Offset(page, L), L)
      BY <2>1, PageCut, Zenon
    <2> QED BY ONLY <2>2, <2>3, Zenon DEF x, y, k, o, n, b, L
  <1>7. ASSUME NEW i \in 1..k PROVE x[i] = m[o + i] /\ o + i \in 1..n
    BY <1>1, <1>4, PageElements
  <1>8. ASSUME NEW i \in 1..OnPage(b, o, L) PROVE y[i] = e[o + i] /\ o + i \in 1..b
    BY <1>1, <1>3, PageElements
  <1> HIDE DEF o, n, b, x, y, k
  <1>9. OnPage(b, o, L) = k /\ k <= L
    BY <1>1, <1>2, <1>3, <1>5 DEF OnPage, k
  <1>10. ASSUME NEW i \in 1..k PROVE x[i].at = y[i].at
    <2>1. x[i] = m[o + i] /\ o + i \in 1..n /\ y[i] = e[o + i]
      BY <1>7, <1>8, <1>9
    <2>2. o + i <= FeedCap
      BY <1>1, <1>2, <1>6, <1>9
    <2> QED BY <1>3, <2>1, <2>2
  <1>11. Times(x) = Times(y)
    BY <1>6, <1>9, <1>10 DEF Times
  <1> QED BY <1>11 DEF x, y, L

FeedRequests ==
    [pc : {"none", "reading", "answered", "failed"}, page : 1..2, left : SUBSET (1..3),
     rows : [1..3 -> Seq(activity)], began : SUBSET activity, still : BOOLEAN, items : Seq(Events), total : Nat]

FeedInv ==
    /\ activity \subseteq [table : 1..3, id : Nat, at : 1..2] /\ IsFiniteSet(activity)
    /\ \A r \in activity : r.id <= Cardinality(activity)
    /\ \A r, s \in activity : r.id = s.id => r = s
    /\ feed \in FeedRequests
    /\ feed.pc = "none" => feed.left = 1..3
    /\ \A t \in 1..3 : t \notin feed.left =>
          /\ TableRead(feed.rows, t, feed.began)
          /\ feed.still => Range(feed.rows[t]) \subseteq feed.began
    /\ feed.pc = "reading" /\ feed.still => activity = feed.began
    /\ feed.pc = "answered" => feed.left = {} /\ feed.items = Slice(Merged(feed.rows), feed.page, FeedLimit)

\* More rows in the tables leave what a request has read as it is.
LEMMA FeedTyped ==
    ASSUME NEW f \in FeedRequests, activity \subseteq activity'
    PROVE  f \in FeedRequests'
  <1>1. /\ f.pc \in {"none", "reading", "answered", "failed"} /\ f.page \in 1..2 /\ f.left \in SUBSET (1..3)
        /\ f.rows \in [1..3 -> Seq(activity)] /\ f.began \in SUBSET activity /\ f.still \in BOOLEAN
        /\ f.items \in Seq(Events) /\ f.total \in Nat
        /\ f = [pc |-> f.pc, page |-> f.page, left |-> f.left, rows |-> f.rows, began |-> f.began,
                still |-> f.still, items |-> f.items, total |-> f.total]
    BY DEF FeedRequests
  <1>2. \A s \in Seq(activity) : s \in Seq(activity')
    BY SeqWider
  <1>3. f.rows \in [1..3 -> Seq(activity')] /\ f.began \in SUBSET activity'
    BY <1>1, <1>2
  <1> QED BY <1>1, <1>3 DEF FeedRequests

LEMMA ActivityIndexedKeeps == FeedInv /\ ActivityIndexed => FeedInv'
  <1> SUFFICES ASSUME FeedInv, ActivityIndexed PROVE FeedInv'
    OBVIOUS
  <1>1. PICK t \in 1..3, at \in 1..2 :
          activity' = activity \cup {[table |-> t, id |-> Cardinality(activity) + 1, at |-> at]}
    BY DEF ActivityIndexed
  <1>2. feed' = [feed EXCEPT !.still = @ /\ feed.pc # "reading"]
    BY DEF ActivityIndexed
  <1> DEFINE n == Cardinality(activity)
             new == [table |-> t, id |-> n + 1, at |-> at]
  <1>3. /\ n \in Nat /\ IsFiniteSet(activity) /\ activity \subseteq [table : 1..3, id : Nat, at : 1..2]
        /\ \A r \in activity : r.id <= n /\ r.id \in Nat
    BY FS_CardinalityType DEF FeedInv
  <1>4. new \notin activity /\ new \in [table : 1..3, id : Nat, at : 1..2] /\ new.id = n + 1
    BY <1>3
  <1>5. activity' = activity \cup {new}
    BY <1>1
  <1> HIDE DEF new
  <1>6. IsFiniteSet(activity') /\ Cardinality(activity') = n + 1
    BY <1>3, <1>4, <1>5, FS_AddElement
  <1> HIDE DEF n
  <1>7. activity' \subseteq [table : 1..3, id : Nat, at : 1..2]
    BY <1>3, <1>4, <1>5
  <1>8. \A r \in activity' : r.id <= Cardinality(activity')
    BY <1>3, <1>4, <1>5, <1>6
  <1>9. \A r, s \in activity' : r.id = s.id => r = s
    <2>1. \A r \in activity : r.id # new.id
      BY <1>3, <1>4
    <2> QED BY <1>5, <2>1 DEF FeedInv
  <1>10. /\ feed' \in FeedRequests
         /\ feed'.pc = feed.pc /\ feed'.page = feed.page /\ feed'.left = feed.left /\ feed'.rows = feed.rows
         /\ feed'.began = feed.began /\ feed'.items = feed.items
         /\ feed'.still = (feed.still /\ feed.pc # "reading")
    BY <1>2 DEF FeedInv, FeedRequests
  <1>11. feed' \in FeedRequests'
    <2>1. PICK f : f = feed'
      OBVIOUS
    <2>2. f \in FeedRequests /\ activity \subseteq activity'
      BY <1>5, <1>10, <2>1
    <2> QED BY <2>1, <2>2, FeedTyped
  <1>12. \A u \in 1..3 : u \notin feed'.left =>
            /\ TableRead(feed'.rows, u, feed'.began)
            /\ feed'.still => Range(feed'.rows[u]) \subseteq feed'.began
    BY <1>10 DEF FeedInv
  <1>13. /\ feed'.pc = "none" => feed'.left = 1..3
         /\ ~(feed'.pc = "reading" /\ feed'.still)
         /\ feed'.pc = "answered" => feed'.left = {} /\ feed'.items = Slice(Merged(feed'.rows), feed'.page, FeedLimit)
    BY <1>10 DEF FeedInv
  <1> QED BY <1>6, <1>7, <1>8, <1>9, <1>11, <1>12, <1>13, Zenon DEF FeedInv

LEMMA ReadTableKeeps ==
    ASSUME FeedInv, NEW t \in 1..3, ReadTable(t)
    PROVE  FeedInv'
  <1> DEFINE S == {r \in activity : r.table = t}
  <1>1. PICK s \in Ordered(S, Newest) :
           feed' = [feed EXCEPT !.rows[t] = FirstOf(s, FeedCap), !.left = @ \ {t}]
    BY DEF ReadTable
  <1>2. UNCHANGED activity /\ feed.pc = "reading"
    BY DEF ReadTable
  <1>3. /\ feed \in FeedRequests /\ IsFiniteSet(activity) /\ activity \subseteq Events /\ FeedCap \in Nat
        /\ feed.began \subseteq activity
    BY ReadsAssumption DEF FeedInv, FeedRequests, Events
  <1>4. s \in SetToSeqs(S) /\ \A i, j \in DOMAIN s : i < j => ~(s[j].at > s[i].at)
    <2> HIDE DEF S
    <2> QED BY DEF Ordered, Newest
  <1>5. IsFiniteSet(S) /\ S \subseteq activity
    BY <1>3, FS_Subset
  <1> HIDE DEF S
  <1>6. /\ s \in Seq(S) /\ Len(s) \in Nat /\ DOMAIN s = 1..Len(s)
        /\ \A i \in 1..Len(s) : s[i] \in S
        /\ \A i, j \in 1..Len(s) : s[i] = s[j] => i = j
        /\ \A x \in S : \E i \in 1..Len(s) : s[i] = x
    BY <1>4, <1>5, InOrder
  <1> DEFINE k == IF Len(s) < FeedCap THEN Len(s) ELSE FeedCap
             got == SubSeq(s, 1, k)
  <1>7. FirstOf(s, FeedCap) = got
    BY DEF FirstOf
  <1>8. /\ got \in Seq(S) /\ Len(got) = k /\ k \in Nat /\ k <= Len(s) /\ k <= FeedCap
        /\ \A i \in 1..k : got[i] = s[i] /\ i \in 1..Len(s)
    BY <1>3, <1>6, FirstPart
  <1>9. DOMAIN got = 1..k /\ got \in Seq(activity)
    <2> HIDE DEF got, k
    <2> QED BY <1>5, <1>8, SeqElements, SeqWider
  <1>10. k < Len(s) => k = FeedCap
    OBVIOUS
  <1> HIDE DEF got, k
  <1> DEFINE rows == [feed.rows EXCEPT ![t] = got]
  <1>11. feed' = [feed EXCEPT !.rows = rows, !.left = feed.left \ {t}]
    BY <1>1, <1>3, <1>7 DEF FeedRequests
  <1>12. rows \in [1..3 -> Seq(activity)] /\ rows[t] = got /\ \A u \in 1..3 : u # t => rows[u] = feed.rows[u]
    BY <1>3, <1>9 DEF FeedRequests
  <1> HIDE DEF rows
  <1>13. /\ feed' \in FeedRequests
         /\ feed'.pc = "reading" /\ feed'.page = feed.page /\ feed'.left = feed.left \ {t} /\ feed'.rows = rows
         /\ feed'.began = feed.began /\ feed'.items = feed.items /\ feed'.still = feed.still
    BY <1>2, <1>3, <1>11, <1>12 DEF FeedRequests
  <1>14. TableRead(rows, t, feed.began)
    <2>1. \A i \in DOMAIN got : got[i].table = t
      BY <1>6, <1>8, <1>9 DEF S
    <2>2. IsInjective(got)
      BY <1>6, <1>8, <1>9 DEF IsInjective
    <2>3. ASSUME NEW r \in feed.began, r.table = t, r \notin Range(got)
          PROVE  Len(got) = FeedCap /\ \A i \in DOMAIN got : got[i].at >= r.at
      <3>1. r \in S
        BY <1>3, <2>3 DEF S
      <3>2. PICK j \in 1..Len(s) : s[j] = r
        BY <1>6, <3>1
      <3>3. j \notin 1..k
        BY <1>8, <1>9, <2>3, <3>2 DEF Range
      <3>4. k < j /\ k < Len(s)
        BY <1>6, <1>8, <3>3
      <3>5. ASSUME NEW i \in 1..k PROVE got[i].at >= r.at
        <4>1. ~(r.at > s[i].at)
          <5>1. i < j /\ i \in DOMAIN s /\ j \in DOMAIN s
            BY <1>6, <1>8, <3>4
          <5> QED BY <1>4, <3>2, <5>1
        <4>2. r \in Events /\ s[i] \in Events
          BY <1>3, <1>5, <1>6, <1>8
        <4>3. r.at \in Int /\ s[i].at \in Int
          BY <4>2 DEF Events
        <4> QED BY <1>8, <4>1, <4>3
      <3> QED BY <1>8, <1>9, <1>10, <3>4, <3>5
    <2> QED BY <1>12, <2>1, <2>2, <2>3 DEF TableRead
  <1>15. feed.still => Range(rows[t]) \subseteq feed.began
    <2> SUFFICES ASSUME feed.still PROVE Range(got) \subseteq feed.began
      BY <1>12
    <2>1. activity = feed.began
      BY <1>2 DEF FeedInv
    <2>2. \A i \in DOMAIN got : got[i] \in activity
      BY <1>9, SeqElements
    <2> QED BY <2>1, <2>2 DEF Range
  <1>16. ASSUME NEW u \in 1..3, u \notin feed'.left
         PROVE  /\ TableRead(feed'.rows, u, feed'.began)
                /\ feed'.still => Range(feed'.rows[u]) \subseteq feed'.began
    <2>1. CASE u = t
      BY <1>13, <1>14, <1>15, <2>1
    <2>2. CASE u # t
      <3>1. u \notin feed.left /\ rows[u] = feed.rows[u]
        BY <1>12, <1>13, <1>16, <2>2
      <3>2. TableRead(feed.rows, u, feed.began) /\ (feed.still => Range(feed.rows[u]) \subseteq feed.began)
        BY <3>1 DEF FeedInv
      <3>3. TableRead(rows, u, feed.began)
        BY <3>1, <3>2 DEF TableRead
      <3> QED BY <1>13, <3>1, <3>2, <3>3
    <2> QED BY <2>1, <2>2
  <1>17. FeedRequests' = FeedRequests
    BY <1>2 DEF FeedRequests
  <1>18. /\ activity \subseteq [table : 1..3, id : Nat, at : 1..2] /\ IsFiniteSet(activity)
         /\ \A r \in activity : r.id <= Cardinality(activity)
         /\ \A r, q \in activity : r.id = q.id => r = q
    BY DEF FeedInv
  <1>19. feed'.still => activity = feed'.began
    BY <1>2, <1>13 DEF FeedInv
  <1> QED BY <1>2, <1>13, <1>16, <1>17, <1>18, <1>19 DEF FeedInv

LEMMA AskFeedKeeps ==
    ASSUME FeedInv, NEW page \in 1..2, AskFeed(page)
    PROVE  FeedInv'
  <1>1. /\ feed.pc = "none" /\ UNCHANGED activity
        /\ feed' = [feed EXCEPT !.pc = "reading", !.page = page, !.began = activity]
    BY DEF AskFeed
  <1>2. /\ feed' \in FeedRequests /\ feed'.pc = "reading" /\ feed'.left = feed.left /\ feed'.began = activity
    BY <1>1 DEF FeedInv, FeedRequests
  <1>3. feed'.left = 1..3
    BY <1>1, <1>2 DEF FeedInv
  <1>4. FeedRequests' = FeedRequests
    BY <1>1 DEF FeedRequests
  <1>5. /\ activity \subseteq [table : 1..3, id : Nat, at : 1..2] /\ IsFiniteSet(activity)
        /\ \A r \in activity : r.id <= Cardinality(activity)
        /\ \A r, q \in activity : r.id = q.id => r = q
    BY DEF FeedInv
  <1> QED BY <1>1, <1>2, <1>3, <1>4, <1>5 DEF FeedInv

LEMMA AnswerFeedKeeps == FeedInv /\ AnswerFeed => FeedInv'
  <1> SUFFICES ASSUME FeedInv, AnswerFeed PROVE FeedInv'
    OBVIOUS
  <1> DEFINE m == Merged(feed.rows)  items == Slice(m, feed.page, FeedLimit)
  <1>1. /\ feed.left = {} /\ UNCHANGED activity
        /\ feed' = [feed EXCEPT !.pc = "answered", !.total = Len(m), !.items = items]
    BY DEF AnswerFeed
  <1>2. feed \in FeedRequests /\ feed.rows \in [1..3 -> Seq(activity)] /\ activity \subseteq Events
        /\ feed.page \in 1..2 /\ FeedLimit \in Nat \ {0}
    BY ReadsAssumption DEF FeedInv, FeedRequests, Events
  <1>3. feed.rows \in [1..3 -> Seq(Events)]
    <2>1. \A t \in 1..3 : feed.rows[t] \in Seq(Events)
      BY <1>2, SeqWider
    <2> QED BY <1>2, <2>1
  <1>4. m \in Seq(Events)
    BY <1>3, MergedSorts
  <1> HIDE DEF m
  <1>5. items \in Seq(Events) /\ Len(m) \in Nat
    BY <1>2, <1>4, PageCut, SeqElements
  <1> HIDE DEF items
  <1>6. /\ feed' \in FeedRequests
        /\ feed'.pc = "answered" /\ feed'.page = feed.page /\ feed'.left = feed.left /\ feed'.rows = feed.rows
        /\ feed'.began = feed.began /\ feed'.items = items /\ feed'.still = feed.still
    BY <1>1, <1>2, <1>5 DEF FeedRequests
  <1>7. FeedRequests' = FeedRequests
    BY <1>1 DEF FeedRequests
  <1>8. /\ activity \subseteq [table : 1..3, id : Nat, at : 1..2] /\ IsFiniteSet(activity)
        /\ \A r \in activity : r.id <= Cardinality(activity)
        /\ \A r, q \in activity : r.id = q.id => r = q
    BY DEF FeedInv
  <1>9. \A u \in 1..3 : u \notin feed'.left =>
           /\ TableRead(feed'.rows, u, feed'.began)
           /\ feed'.still => Range(feed'.rows[u]) \subseteq feed'.began
    BY <1>6 DEF FeedInv
  <1>10. feed'.left = {} /\ feed'.items = Slice(Merged(feed'.rows), feed'.page, FeedLimit)
    BY <1>1, <1>6 DEF items, m
  <1> QED BY <1>1, <1>6, <1>7, <1>8, <1>9, <1>10 DEF FeedInv

LEMMA FeedStep ==
    ASSUME FeedInv, FeedNext \/ UNCHANGED feedVars
    PROVE  FeedInv'
  <1>1. CASE UNCHANGED feedVars
    <2>1. UNCHANGED <<activity, feed>>
      BY <1>1 DEF feedVars
    <2>2. FeedRequests' = FeedRequests
      BY <2>1 DEF FeedRequests
    <2> QED BY <2>1, <2>2 DEF FeedInv
  <1>2. CASE FeedFails
    <2>1. feed' = [feed EXCEPT !.pc = "failed"] /\ UNCHANGED activity
      BY <1>2 DEF FeedFails
    <2>2. /\ feed' \in FeedRequests /\ feed'.pc = "failed" /\ feed'.left = feed.left /\ feed'.rows = feed.rows
          /\ feed'.began = feed.began /\ feed'.still = feed.still
      BY <2>1 DEF FeedInv, FeedRequests
    <2>3. FeedRequests' = FeedRequests
      BY <2>1 DEF FeedRequests
    <2> QED BY <2>1, <2>2, <2>3 DEF FeedInv
  <1> QED BY <1>1, <1>2, ActivityIndexedKeeps, AnswerFeedKeeps, AskFeedKeeps, ReadTableKeeps DEF FeedNext

LEMMA FeedInitial == FeedInit => FeedInv
  <1> SUFFICES ASSUME FeedInit PROVE FeedInv
    OBVIOUS
  <1>1. /\ activity = {}
        /\ feed = [pc |-> "none", page |-> 1, left |-> 1..3, rows |-> [t \in 1..3 |-> <<>>], began |-> {},
                   still |-> TRUE, items |-> <<>>, total |-> 0]
    BY DEF FeedInit
  <1>2. IsFiniteSet(activity)
    BY <1>1, FS_EmptySet
  <1>3. [t \in 1..3 |-> <<>>] \in [1..3 -> Seq(activity)] /\ <<>> \in Seq(Events)
    OBVIOUS
  <1>4. feed \in FeedRequests
    BY <1>1, <1>3 DEF FeedRequests
  <1> QED BY <1>1, <1>2, <1>4 DEF FeedInv

\* The feed is what an undivided read would have answered, up to the cap.
LEMMA FeedMeans == FeedInv => FeedExact
  <1> SUFFICES ASSUME FeedInv, feed.pc = "answered" PROVE FeedExact
    BY DEF FeedExact
  <1> DEFINE rows == feed.rows  began == feed.began  page == feed.page  m == Merged(rows)  L == FeedLimit
             items == Slice(m, page, L)
             Whole == {s \in SetToSeqs(began) : \A i, j \in DOMAIN s : i < j => ~Newest(s[j], s[i])}
             all == CHOOSE s \in Whole : TRUE
  <1>1. /\ rows \in [1..3 -> Seq(activity)] /\ activity \subseteq Events /\ page \in 1..2 /\ feed.items = items
        /\ began \subseteq activity /\ IsFiniteSet(activity) /\ L \in Nat \ {0}
        /\ \A t \in 1..3 : /\ TableRead(rows, t, began)
                           /\ feed.still => Range(rows[t]) \subseteq began
    BY ReadsAssumption DEF FeedInv, FeedRequests, Events
  <1>2. rows \in [1..3 -> Seq(Events)]
    <2>1. \A t \in 1..3 : rows[t] \in Seq(Events)
      BY <1>1, SeqWider
    <2> HIDE DEF rows
    <2> QED BY <1>1, <2>1
  <1> HIDE DEF rows, began, page
  <1>3. FeedRows(m, began)
    <2>1. began \subseteq Events
      BY <1>1
    <2>2. m \in Seq(Events) /\ Falling(m)
      BY <1>2, MergedSorts
    <2>3. IsInjective(m) /\ \A r \in began \ Range(m) : Crowds(m, r)
      BY <1>1, <1>2, <2>1, MergedHas
    <2> QED BY <2>1, <2>2, <2>3 DEF FeedRows
  <1>4. feed.still => Range(m) \subseteq began
    <2> SUFFICES ASSUME feed.still, NEW x \in Range(m) PROVE x \in began
      OBVIOUS
    <2>1. began \subseteq Events
      BY <1>1
    <2>2. PICK t \in 1..3 : x \in Range(rows[t])
      BY <1>1, <1>2, <2>1, MergedHas
    <2> QED BY <1>1, <2>2
  <1> HIDE DEF m, L
  <1>5. IsFiniteSet(began)
    BY <1>1, FS_Subset
  <1>6. all \in Whole
    <2> DEFINE R == {p \in began \X began : p[1].at > p[2].at \/ (p[1].at = p[2].at /\ p[1].id < p[2].id)}
    <2>1. \A x \in began : x.at \in Int /\ x.id \in Int
      BY <1>1 DEF Events
    <2>2. \A x, y \in began : x # y => x.id # y.id
      BY <1>1 DEF FeedInv
    <2>3. \A x, y \in began : <<x, y>> \in R <=> x.at > y.at \/ (x.at = y.at /\ x.id < y.id)
      OBVIOUS
    <2>4. /\ \A x \in began : <<x, x>> \notin R
          /\ \A x, y \in began : x # y => <<x, y>> \in R \/ <<y, x>> \in R
          /\ \A x, y, z \in began : <<x, y>> \in R /\ <<y, z>> \in R => <<x, z>> \in R
      <3> HIDE DEF R
      <3>1. \A x \in began : <<x, x>> \notin R
        BY <2>1, <2>3
      <3>2. \A x, y \in began : x # y => <<x, y>> \in R \/ <<y, x>> \in R
        BY <2>1, <2>2, <2>3
      <3>3. \A x, y, z \in began : <<x, y>> \in R /\ <<y, z>> \in R => <<x, z>> \in R
        BY <2>1, <2>3
      <3> QED BY <3>1, <3>2, <3>3
    <2> HIDE DEF R
    <2>5. PICK s \in SetToSeqs(began) : \A i, j \in DOMAIN s : i < j => <<s[i], s[j]>> \in R /\ <<s[j], s[i]>> \notin R
      BY <1>5, <2>4, SomeOrder
    <2>6. \A i \in DOMAIN s : s[i] \in began
      BY <1>5, InOrder
    <2>7. s \in Whole
      <3> SUFFICES ASSUME NEW i \in DOMAIN s, NEW j \in DOMAIN s, i < j PROVE ~Newest(s[j], s[i])
        OBVIOUS
      <3>1. <<s[j], s[i]>> \notin R
        BY <2>5
      <3> QED BY <2>3, <2>6, <3>1 DEF Newest
    <2> QED BY <2>7
  <1> HIDE DEF all
  <1>7. all \in SetToSeqs(began) /\ \A i, j \in DOMAIN all : i < j => ~(all[j].at > all[i].at)
    BY <1>6 DEF Newest
  <1> DEFINE o == Offset(page, L)  n == Len(m)  k == OnPage(n, o, L)
  <1>8. m \in Seq(Events) /\ Falling(m) /\ IsInjective(m) /\ DOMAIN m = 1..n
    <2>1. m \in Seq(Events) /\ Falling(m) /\ IsInjective(m)
      BY <1>3 DEF FeedRows
    <2> QED BY <2>1, SeqElements
  <1>9. items \in Seq(Events) /\ DOMAIN items = 1..k /\ k \in Nat /\ o \in Nat
    <2>1. m \in Seq(Events) /\ page \in 1..2 /\ L \in Nat \ {0}
      BY <1>1, <1>8
    <2>2. /\ Slice(m, page, L) \in Seq(Events)
          /\ OnPage(Len(m), Offset(page, L), L) \in Nat /\ Offset(page, L) \in Nat
          /\ DOMAIN Slice(m, page, L) = 1..OnPage(Len(m), Offset(page, L), L)
      BY <2>1, PageCut
    <2> QED BY <2>2
  <1>10. ASSUME NEW i \in 1..k PROVE items[i] = m[o + i] /\ o + i \in DOMAIN m
    BY <1>1, <1>8, PageElements
  <1> HIDE DEF items, o, n, k
  <1>11. IsInjective(items)
    <2> SUFFICES ASSUME NEW i \in 1..k, NEW j \in 1..k, items[i] = items[j] PROVE i = j
      BY <1>9 DEF IsInjective
    <2>1. o + i = o + j
      BY <1>8, <1>10 DEF IsInjective
    <2> QED BY <1>9, <2>1
  <1>12. \A i, j \in DOMAIN items : i < j => items[i].at >= items[j].at
    <2> SUFFICES ASSUME NEW i \in 1..k, NEW j \in 1..k, i < j PROVE items[i].at >= items[j].at
      BY <1>9
    <2>1. o + i < o + j
      BY <1>9
    <2> QED BY <1>8, <1>10, <2>1 DEF Falling
  <1>13. page = 1 => \A r \in began \ Range(items) : Len(items) = L /\ r.at <= Last(items).at
    BY <1>3, FirstPageTrue DEF items, L
  <1>14. feed.still /\ page * L <= FeedCap => Times(items) = Times(Slice(all, page, L))
    BY <1>1, <1>3, <1>4, <1>5, <1>7, TimesTrue DEF items, L
  <1>15. Times(items) = [i \in DOMAIN items |-> items[i].at]
         /\ Times(Slice(all, page, L)) = [i \in DOMAIN Slice(all, page, L) |-> Slice(all, page, L)[i].at]
    BY DEF Times
  <1>16. all = CHOOSE s \in Ordered(began, Newest) : TRUE
    BY DEF all, Ordered
  <1>17. /\ IsInjective(feed.items)
         /\ \A i, j \in DOMAIN feed.items : i < j => feed.items[i].at >= feed.items[j].at
         /\ feed.page = 1 => \A r \in feed.began \ Range(feed.items) :
                                Len(feed.items) = FeedLimit /\ r.at <= Last(feed.items).at
         /\ feed.still /\ feed.page * FeedLimit <= FeedCap =>
               Times(feed.items) = Times(Slice(CHOOSE s \in Ordered(feed.began, Newest) : TRUE, feed.page, FeedLimit))
    BY <1>1, <1>11, <1>12, <1>13, <1>14, <1>16, Zenon DEF page, began, L
  <1> QED BY <1>17, Zenon DEF FeedExact, Times

-----------------------------------------------------------------------------
(* PagedReads: the portfolio                                                  *)

Runs == [wallet : Holders \cup {Nobody}, got : Seq(1..MaxPositions), page : Nat \ {0}, total : Nat,
         counted : BOOLEAN, began : Nat, torn : BOOLEAN]

\* A refresh has positions of its wallet, and knows how many there are unless one
\* came since it counted.
RunTrue(r) ==
    /\ r.counted => r.wallet # Nobody
    /\ r.wallet # Nobody =>
          /\ r.began <= owned[r.wallet]
          /\ r.counted /\ ~r.torn => r.total = owned[r.wallet]
          /\ \A i \in DOMAIN r.got : r.got[i] <= owned[r.wallet]

Waited == requestId > 0 /\ refreshes[requestId].wallet # Nobody

ShownTrue ==
    display.wallet # Nobody =>
          /\ account # Nobody
          /\ ~fetching /\ ~failed => display.wallet = account
          /\ IsInjective(display.got)
          /\ ~display.torn => 1..display.began \subseteq Range(display.got)

PortfolioInv ==
    /\ owned \in [Holders -> 0..MaxPositions]
    /\ account \in Holders \cup {Nobody}
    /\ requestId \in 0..MaxRefreshes
    /\ fetching \in BOOLEAN /\ failed \in BOOLEAN
    /\ refreshes \in [1..MaxRefreshes -> Runs] /\ display \in Runs
    /\ \A n \in 1..MaxRefreshes : RunTrue(refreshes[n]) /\ (refreshes[n].wallet # Nobody => n <= requestId)
    /\ fetching <=> Waited
    /\ Waited => refreshes[requestId].wallet = account
    /\ ShownTrue

\* A refresh that begins has got nothing.
LEMMA RefreshingTyped ==
    ASSUME NEW w \in Holders \cup {Nobody}, NEW n \in Nat
    PROVE  /\ Refreshing(w, n) \in Runs /\ Refreshing(w, n).wallet = w /\ Refreshing(w, n).began = n
           /\ Refreshing(w, n).counted = FALSE /\ Refreshing(w, n).got = <<>>
  <1>1. <<>> \in Seq(1..MaxPositions)
    OBVIOUS
  <1>2. PICK S : S = Seq(1..MaxPositions)
    OBVIOUS
  <1>3. Refreshing(w, n) \in [wallet : Holders \cup {Nobody}, got : S, page : Nat \ {0}, total : Nat,
                              counted : BOOLEAN, began : Nat, torn : BOOLEAN]
    BY <1>1, <1>2, SMTT(20) DEF Refreshing
  <1>4. Refreshing(w, n) \in Runs
    BY ONLY <1>2, <1>3, Zenon DEF Runs
  <1>5. /\ Refreshing(w, n).wallet = w /\ Refreshing(w, n).began = n
        /\ Refreshing(w, n).counted = FALSE /\ Refreshing(w, n).got = <<>>
    BY DEF Refreshing
  <1> QED BY ONLY <1>4, <1>5, Zenon

LEMMA NotRunningTyped == NotRunning \in Runs /\ NotRunning.wallet = Nobody /\ RunTrue(NotRunning)
  <1>1. NotRunning = Refreshing(Nobody, 0) /\ 0 \in Nat
    BY DEF NotRunning
  <1>2. /\ Refreshing(Nobody, 0) \in Runs /\ Refreshing(Nobody, 0).wallet = Nobody
        /\ Refreshing(Nobody, 0).counted = FALSE
    <2>1. PICK a \in Holders \cup {Nobody}, k \in Nat : a = Nobody /\ k = 0
      OBVIOUS
    <2> QED BY ONLY <2>1, RefreshingTyped, Zenon
  <1> QED BY <1>1, <1>2 DEF RunTrue

LEMMA PositionMintedKeeps ==
    ASSUME PortfolioInv, NEW w \in Holders, PositionMinted(w)
    PROVE  PortfolioInv'
  <1>1. /\ owned[w] < MaxPositions /\ owned' = [owned EXCEPT ![w] = @ + 1]
        /\ refreshes' = [n \in DOMAIN refreshes |->
                           IF refreshes[n].wallet = w /\ refreshes[n].counted
                           THEN [refreshes[n] EXCEPT !.torn = TRUE] ELSE refreshes[n]]
        /\ UNCHANGED <<account, requestId, fetching, failed, display>>
    BY DEF PositionMinted
  <1>2. owned \in [Holders -> 0..MaxPositions] /\ refreshes \in [1..MaxRefreshes -> Runs] /\ MaxPositions \in Nat
    BY PagedAssumption DEF PortfolioInv
  <1>3. owned' \in [Holders -> 0..MaxPositions]
    BY <1>1, <1>2
  <1>4. \A v \in Holders : owned'[v] = IF v = w THEN owned[v] + 1 ELSE owned[v]
    BY <1>1, <1>2
  <1>5. ASSUME NEW n \in 1..MaxRefreshes
        PROVE  /\ refreshes'[n] \in Runs /\ refreshes'[n].wallet = refreshes[n].wallet
               /\ RunTrue(refreshes[n])'
    <2> DEFINE r == refreshes[n]
    <2>1. r \in Runs /\ RunTrue(r)
      BY <1>2 DEF PortfolioInv
    <2>2. refreshes'[n] = IF r.wallet = w /\ r.counted THEN [r EXCEPT !.torn = TRUE] ELSE r
      BY <1>1, <1>2
    <2>3. /\ r.wallet \in Holders \cup {Nobody} /\ r.got \in Seq(1..MaxPositions) /\ r.began \in Nat
          /\ Nobody \notin Holders
      BY <2>1, PagedAssumption DEF Runs, Nobody
    <2>3a. \A i \in DOMAIN r.got : r.got[i] \in Nat
      <3>1. \A i \in DOMAIN r.got : r.got[i] \in 1..MaxPositions
        BY <2>3, SeqElements
      <3>2. 1..MaxPositions \subseteq Nat
        OBVIOUS
      <3> QED BY <3>1, <3>2
    <2> HIDE DEF r
    <2>4. CASE r.wallet = w /\ r.counted
      <3>1. refreshes'[n] = [r EXCEPT !.torn = TRUE]
        BY <2>2, <2>4
      <3>2. /\ refreshes'[n] \in Runs /\ refreshes'[n].wallet = r.wallet /\ refreshes'[n].torn = TRUE
            /\ refreshes'[n].began = r.began /\ refreshes'[n].got = r.got /\ refreshes'[n].counted = r.counted
        BY <2>1, <3>1 DEF Runs
      <3>3. r.wallet \in Holders /\ owned'[r.wallet] = owned[r.wallet] + 1 /\ owned[r.wallet] \in Nat
        BY <1>2, <1>4, <2>4
      <3>4. r.began <= owned'[r.wallet] /\ \A i \in DOMAIN r.got : r.got[i] <= owned'[r.wallet]
        <4>1. r.began <= owned[r.wallet] /\ \A i \in DOMAIN r.got : r.got[i] <= owned[r.wallet]
          BY <2>1, <2>3, <3>3 DEF RunTrue
        <4> QED BY <2>3, <2>3a, <3>3, <4>1
      <3> QED BY <2>1, <3>2, <3>4 DEF RunTrue, r
    <2>5. CASE ~(r.wallet = w /\ r.counted)
      <3>1. refreshes'[n] = r
        BY <2>2, <2>5
      <3>2. r.wallet # Nobody =>
               /\ r.wallet \in Holders /\ owned[r.wallet] \in Nat
               /\ owned'[r.wallet] = (IF r.wallet = w THEN owned[r.wallet] + 1 ELSE owned[r.wallet])
        BY <1>2, <1>4, <2>3
      <3>3. r.wallet # Nobody => r.began <= owned'[r.wallet] /\ \A i \in DOMAIN r.got : r.got[i] <= owned'[r.wallet]
        <4> SUFFICES ASSUME r.wallet # Nobody
                     PROVE  r.began <= owned'[r.wallet] /\ \A i \in DOMAIN r.got : r.got[i] <= owned'[r.wallet]
          OBVIOUS
        <4>1. r.began <= owned[r.wallet] /\ \A i \in DOMAIN r.got : r.got[i] <= owned[r.wallet]
          BY <2>1 DEF RunTrue
        <4>2. owned'[r.wallet] \in Nat /\ owned[r.wallet] \in Nat /\ owned[r.wallet] <= owned'[r.wallet]
          BY <3>2
        <4> QED BY <2>3, <2>3a, <4>1, <4>2
      <3>4. r.wallet # Nobody /\ r.counted /\ ~r.torn => r.total = owned'[r.wallet]
        BY <2>1, <2>5, <3>2 DEF RunTrue
      <3> QED BY <2>1, <3>1, <3>3, <3>4 DEF RunTrue, r
    <2> QED BY <2>4, <2>5
  <1>6. refreshes' \in [1..MaxRefreshes -> Runs]
    BY <1>1, <1>2, <1>5
  <1>7. Waited' <=> Waited
    BY <1>1, <1>5 DEF Waited, PortfolioInv
  <1>8. Waited => refreshes'[requestId].wallet = account
    <2>1. Waited => requestId \in 1..MaxRefreshes
      BY DEF Waited, PortfolioInv
    <2> QED BY <1>5, <2>1 DEF PortfolioInv
  <1>9. ShownTrue'
    BY <1>1 DEF ShownTrue, PortfolioInv
  <1> QED BY <1>1, <1>3, <1>5, <1>6, <1>7, <1>8, <1>9 DEF PortfolioInv

\* A refresh begins.
LEMMA StartKeeps ==
    ASSUME PortfolioInv, NEW w \in Holders, StartRefresh(w, requestId + 1), account' = w,
           UNCHANGED <<owned, display>>
    PROVE  PortfolioInv'
  <1>1. /\ requestId + 1 <= MaxRefreshes /\ requestId' = requestId + 1 /\ fetching' = TRUE /\ failed' = FALSE
        /\ refreshes' = [refreshes EXCEPT ![requestId + 1] = Refreshing(w, owned[w])]
    BY DEF StartRefresh
  <1>2. /\ owned \in [Holders -> 0..MaxPositions] /\ refreshes \in [1..MaxRefreshes -> Runs]
        /\ requestId \in 0..MaxRefreshes /\ MaxRefreshes \in Nat /\ MaxPositions \in Nat /\ Nobody \notin Holders
    BY PagedAssumption DEF PortfolioInv, Nobody
  <1>3. requestId' \in 1..MaxRefreshes /\ owned[w] \in Nat
    <2>1. owned[w] \in 0..MaxPositions
      BY ONLY <1>2, Zenon
    <2>2. PICK k \in Nat : k = requestId
      <3>1. requestId \in 0..MaxRefreshes /\ MaxRefreshes \in Nat
        BY ONLY <1>2, Zenon
      <3>2. requestId \in Nat
        BY ONLY <3>1
      <3> QED BY ONLY <3>2, Zenon
    <2>3. MaxRefreshes \in Nat /\ k + 1 <= MaxRefreshes /\ requestId' = k + 1
      BY ONLY <1>1, <1>2, <2>2, Zenon
    <2>4. requestId' \in 1..MaxRefreshes
      BY ONLY <2>2, <2>3
    <2>5. owned[w] \in Nat
      BY ONLY <2>1
    <2> QED BY ONLY <2>4, <2>5, Zenon
  <1> DEFINE r == Refreshing(w, owned[w])
  <1>4. r \in Runs /\ r.wallet = w /\ r.began = owned[w] /\ r.counted = FALSE /\ r.got = <<>>
    <2>1. w \in Holders \cup {Nobody} /\ owned[w] \in Nat
      BY <1>3
    <2>2. PICK k \in Nat : k = owned[w]
      BY ONLY <2>1, Zenon
    <2>3. PICK v \in Holders \cup {Nobody} : v = w
      BY ONLY <2>1, Zenon
    <2>4. /\ Refreshing(v, k) \in Runs /\ Refreshing(v, k).wallet = v /\ Refreshing(v, k).began = k
          /\ Refreshing(v, k).counted = FALSE /\ Refreshing(v, k).got = <<>>
      BY RefreshingTyped, Zenon
    <2>5. r = Refreshing(v, k)
      BY ONLY <2>2, <2>3, Zenon DEF r
    <2> QED BY ONLY <2>2, <2>3, <2>4, <2>5, Zenon
  <1> HIDE DEF r
  <1>5. refreshes' = [refreshes EXCEPT ![requestId'] = r]
    BY <1>1 DEF r
  <1>6. \A n \in 1..MaxRefreshes : refreshes'[n] = IF n = requestId' THEN r ELSE refreshes[n]
    BY <1>2, <1>5
  <1>7. refreshes' \in [1..MaxRefreshes -> Runs]
    BY <1>2, <1>4, <1>5
  <1>8. \A x : RunTrue(x)' <=> RunTrue(x)
    BY DEF RunTrue
  <1>9. RunTrue(r)
    BY <1>2, <1>3, <1>4 DEF RunTrue
  <1>10. \A n \in 1..MaxRefreshes : RunTrue(refreshes[n])' /\ (refreshes'[n].wallet # Nobody => n <= requestId')
    <2> SUFFICES ASSUME NEW n \in 1..MaxRefreshes
                 PROVE  RunTrue(refreshes[n])' /\ (refreshes'[n].wallet # Nobody => n <= requestId')
      OBVIOUS
    <2>1. RunTrue(refreshes[n])'
      BY <1>6, <1>9 DEF PortfolioInv, RunTrue
    <2>2. CASE n = requestId'
      BY <1>3, <2>1, <2>2
    <2>3. CASE n # requestId'
      BY <1>1, <1>2, <1>6, <2>1, <2>3 DEF PortfolioInv
    <2> QED BY <2>2, <2>3
  <1>11. Waited' /\ refreshes'[requestId'].wallet = account'
    BY <1>2, <1>3, <1>4, <1>6 DEF Waited
  <1>12. ShownTrue'
    BY <1>1, <1>2 DEF ShownTrue, PortfolioInv
  <1>13. owned' \in [Holders -> 0..MaxPositions] /\ account' \in Holders \cup {Nobody} /\ display' \in Runs
    BY DEF PortfolioInv
  <1>14. requestId' \in 0..MaxRefreshes
    BY <1>2, <1>3
  <1>15. fetching' \in BOOLEAN /\ failed' \in BOOLEAN
    BY <1>1
  <1> QED BY <1>1, <1>7, <1>10, <1>11, <1>12, <1>13, <1>14, <1>15, Zenon DEF PortfolioInv

LEMMA SignOutKeeps == PortfolioInv /\ SignOut => PortfolioInv'
  <1> SUFFICES ASSUME PortfolioInv, SignOut PROVE PortfolioInv'
    OBVIOUS
  <1>1. /\ requestId < MaxRefreshes /\ account' = Nobody /\ requestId' = requestId + 1
        /\ display' = NotRunning /\ failed' = FALSE /\ fetching' = FALSE /\ UNCHANGED <<owned, refreshes>>
    BY DEF SignOut
  <1>2. requestId \in 0..MaxRefreshes /\ MaxRefreshes \in Nat
    BY PagedAssumption DEF PortfolioInv
  <1>3. requestId' \in 1..MaxRefreshes /\ ~(requestId' <= requestId)
    BY <1>1, <1>2
  <1>4. ~Waited'
    BY <1>1, <1>3 DEF Waited, PortfolioInv
  <1>5. ShownTrue'
    BY <1>1, NotRunningTyped DEF ShownTrue
  <1>6. \A n \in 1..MaxRefreshes : RunTrue(refreshes[n])' /\ (refreshes'[n].wallet # Nobody => n <= requestId')
    <2> SUFFICES ASSUME NEW n \in 1..MaxRefreshes
                 PROVE  RunTrue(refreshes[n])' /\ (refreshes'[n].wallet # Nobody => n <= requestId')
      OBVIOUS
    <2>1. RunTrue(refreshes[n])'
      BY <1>1 DEF RunTrue, PortfolioInv
    <2>2. refreshes[n].wallet # Nobody => n <= requestId
      BY DEF PortfolioInv
    <2> QED BY <1>1, <1>2, <2>1, <2>2
  <1>7. /\ owned' \in [Holders -> 0..MaxPositions] /\ account' \in Holders \cup {Nobody} /\ display' \in Runs
        /\ refreshes' \in [1..MaxRefreshes -> Runs]
    BY <1>1, NotRunningTyped DEF PortfolioInv
  <1>8. requestId' \in 0..MaxRefreshes
    BY <1>2, <1>3
  <1>9. fetching' \in BOOLEAN /\ failed' \in BOOLEAN
    BY <1>1
  <1> QED BY <1>1, <1>4, <1>5, <1>6, <1>7, <1>8, <1>9, Zenon DEF PortfolioInv

LEMMA CountPositionsKeeps ==
    ASSUME PortfolioInv, NEW n \in 1..MaxRefreshes, CountPositions(n)
    PROVE  PortfolioInv'
  <1> DEFINE r == refreshes[n]
             s == [r EXCEPT !.counted = TRUE, !.total = owned[r.wallet]]
  <1>1. /\ r.wallet # Nobody /\ ~r.counted
        /\ refreshes' = [refreshes EXCEPT ![n].counted = TRUE, ![n].total = owned[refreshes[n].wallet]]
        /\ UNCHANGED <<owned, account, requestId, fetching, failed, display>>
    BY DEF CountPositions
  <1>2. /\ owned \in [Holders -> 0..MaxPositions] /\ refreshes \in [1..MaxRefreshes -> Runs]
        /\ r \in Runs /\ RunTrue(r) /\ MaxPositions \in Nat
    BY PagedAssumption DEF PortfolioInv
  <1>3. r.wallet \in Holders /\ owned[r.wallet] \in Nat
    BY <1>1, <1>2 DEF Runs
  <1>4. refreshes' = [refreshes EXCEPT ![n] = s]
    BY <1>1, <1>2 DEF Runs
  <1>5. /\ s \in Runs /\ s.wallet = r.wallet /\ s.counted = TRUE /\ s.total = owned[r.wallet]
        /\ s.began = r.began /\ s.got = r.got
    BY <1>2, <1>3 DEF Runs
  <1> HIDE DEF s
  <1>6. RunTrue(s)
    BY <1>1, <1>2, <1>5 DEF RunTrue
  <1>7. \A m \in 1..MaxRefreshes : refreshes'[m] = IF m = n THEN s ELSE refreshes[m]
    BY <1>2, <1>4
  <1>8. refreshes' \in [1..MaxRefreshes -> Runs]
    BY <1>2, <1>4, <1>5
  <1>9. \A m \in 1..MaxRefreshes : RunTrue(refreshes[m])' /\ (refreshes'[m].wallet # Nobody => m <= requestId')
    <2> SUFFICES ASSUME NEW m \in 1..MaxRefreshes
                 PROVE  RunTrue(refreshes[m])' /\ (refreshes'[m].wallet # Nobody => m <= requestId')
      OBVIOUS
    <2>1. RunTrue(refreshes[m])'
      BY <1>1, <1>6, <1>7 DEF PortfolioInv, RunTrue
    <2>2. refreshes'[m].wallet = refreshes[m].wallet
      BY <1>5, <1>7
    <2> QED BY <1>1, <2>1, <2>2 DEF PortfolioInv
  <1>10. (Waited' <=> Waited) /\ (Waited => refreshes'[requestId].wallet = refreshes[requestId].wallet)
    <2>1. requestId > 0 => requestId \in 1..MaxRefreshes
      BY DEF PortfolioInv
    <2>2. \A m \in 1..MaxRefreshes : refreshes'[m].wallet = refreshes[m].wallet
      BY <1>5, <1>7
    <2> QED BY <1>1, <2>1, <2>2 DEF Waited
  <1>11. ShownTrue'
    BY <1>1 DEF ShownTrue, PortfolioInv
  <1>12. /\ owned' \in [Holders -> 0..MaxPositions] /\ account' \in Holders \cup {Nobody} /\ display' \in Runs
         /\ requestId' \in 0..MaxRefreshes /\ fetching' \in BOOLEAN /\ failed' \in BOOLEAN
    BY <1>1, Zenon DEF PortfolioInv
  <1> QED BY <1>1, <1>8, <1>9, <1>10, <1>11, <1>12, Zenon DEF PortfolioInv

\* A refresh leaves, with what it shows or with none of it.
LEMMA EndedKeeps ==
    ASSUME PortfolioInv, NEW n \in 1..MaxRefreshes, refreshes[n].wallet # Nobody, Ended(n),
           UNCHANGED <<owned, account, requestId>>,
           display' \in Runs, fetching' \in BOOLEAN, failed' \in BOOLEAN,
           n = requestId => fetching' = FALSE,
           n # requestId => fetching' = fetching,
           ShownTrue'
    PROVE  PortfolioInv'
  <1>1. refreshes' = [refreshes EXCEPT ![n] = NotRunning]
    BY DEF Ended
  <1>2. refreshes \in [1..MaxRefreshes -> Runs] /\ requestId \in 0..MaxRefreshes
    BY DEF PortfolioInv
  <1>3. \A m \in 1..MaxRefreshes : refreshes'[m] = IF m = n THEN NotRunning ELSE refreshes[m]
    BY <1>1, <1>2
  <1>4. refreshes' \in [1..MaxRefreshes -> Runs]
    BY <1>1, <1>2, NotRunningTyped
  <1>5. \A m \in 1..MaxRefreshes : RunTrue(refreshes[m])' /\ (refreshes'[m].wallet # Nobody => m <= requestId')
    <2> SUFFICES ASSUME NEW m \in 1..MaxRefreshes
                 PROVE  RunTrue(refreshes[m])' /\ (refreshes'[m].wallet # Nobody => m <= requestId')
      OBVIOUS
    <2>1. CASE m = n
      BY <1>3, <2>1, NotRunningTyped DEF RunTrue
    <2>2. CASE m # n
      BY <1>3, <2>2 DEF PortfolioInv, RunTrue
    <2> QED BY <2>1, <2>2
  <1>6. CASE n = requestId
    <2>1. ~Waited'
      BY <1>3, <1>6, NotRunningTyped DEF Waited
    <2>2. fetching' = FALSE
      BY <1>6
    <2>3. /\ owned' \in [Holders -> 0..MaxPositions] /\ account' \in Holders \cup {Nobody}
          /\ requestId' \in 0..MaxRefreshes
      BY DEF PortfolioInv
    <2> QED BY <1>4, <1>5, <2>1, <2>2, <2>3, Zenon DEF PortfolioInv
  <1>7. CASE n # requestId
    <2>1. requestId > 0 => requestId \in 1..MaxRefreshes
      BY <1>2
    <2>2. Waited' <=> Waited
      BY <1>3, <1>7, <2>1 DEF Waited
    <2>3. Waited => refreshes'[requestId] = refreshes[requestId]
      BY <1>3, <1>7, <2>1 DEF Waited
    <2>4. /\ owned' \in [Holders -> 0..MaxPositions] /\ account' \in Holders \cup {Nobody}
          /\ requestId' \in 0..MaxRefreshes
      BY DEF PortfolioInv
    <2>5. fetching' = fetching
      BY <1>7
    <2> QED BY <1>4, <1>5, <2>2, <2>3, <2>4, <2>5, Zenon DEF PortfolioInv
  <1> QED BY <1>6, <1>7

LEMMA RefreshFailsKeeps ==
    ASSUME PortfolioInv, NEW n \in 1..MaxRefreshes, RefreshFails(n)
    PROVE  PortfolioInv'
  <1>1. /\ refreshes[n].wallet # Nobody /\ Ended(n) /\ UNCHANGED <<owned, account, requestId, display>>
        /\ IF n = requestId THEN failed' = TRUE /\ fetching' = FALSE ELSE UNCHANGED <<failed, fetching>>
    BY DEF RefreshFails
  <1>2. display' \in Runs /\ fetching' \in BOOLEAN /\ failed' \in BOOLEAN
    BY <1>1, Zenon DEF PortfolioInv
  <1>3. ShownTrue'
    BY <1>1 DEF ShownTrue, PortfolioInv
  <1> QED BY <1>1, <1>2, <1>3, EndedKeeps

\* The rows of a page are positions of the wallet.
LEMMA PageTyped ==
    ASSUME NEW w, owned[w] \in Nat, NEW page \in Nat \ {0}
    PROVE  PageOf(w, page) \in Seq(1..owned[w])
  <1> DEFINE n == owned[w]
             ascending == [i \in 1..n |-> i]
             down == Reverse(ascending)
             from == (page - 1) * PageSize + 1
             to == Min({page * PageSize, n})
  <1>1. Len(ascending) = n
    OBVIOUS
  <1>2. down = [i \in 1..n |-> ascending[(n - i) + 1]]
    <2> HIDE DEF ascending
    <2> QED BY <1>1 DEF Reverse
  <1>3. \A i \in 1..n : down[i] \in 1..n
    <2> SUFFICES ASSUME NEW i \in 1..n PROVE down[i] \in 1..n
      OBVIOUS
    <2> DEFINE j == (n - i) + 1
    <2>1. j \in 1..n
      OBVIOUS
    <2>2. ascending[j] = j
      BY <2>1
    <2>3. down[i] = ascending[j]
      <3> HIDE DEF down, ascending
      <3> QED BY <1>2
    <2> QED BY <2>1, <2>2, <2>3
  <1>4. down \in Seq(1..n) /\ Len(down) = n
    <2> DEFINE A == 1..n
    <2>1. down = [i \in 1..n |-> down[i]]
      BY <1>2
    <2>2. \A i \in 1..n : down[i] \in A
      BY <1>3
    <2> HIDE DEF down, A
    <2>3. down \in Seq(A) /\ Len(down) = n
      <3>1. n \in Nat
        OBVIOUS
      <3> HIDE DEF n
      <3> QED BY <2>1, <2>2, <3>1
    <2> QED BY <2>3 DEF A
  <1>5. page * PageSize \in Nat /\ from \in Nat /\ from >= 1
    <2>1. PageSize \in Nat /\ page - 1 \in Nat
      BY PagedAssumption
    <2>2. (page - 1) * PageSize \in Nat
      BY <2>1
    <2> HIDE DEF from
    <2>3. from = (page - 1) * PageSize + 1
      BY DEF from
    <2> QED BY <2>1, <2>2, <2>3
  <1>6. to \in Nat /\ to <= n
    <2> DEFINE a == page * PageSize
    <2> HIDE DEF a
    <2>1. a \in Nat
      BY <1>5 DEF a
    <2>2. \E x \in {a, n} : \A y \in {a, n} : x =< y
      BY <2>1
    <2>3. Min({a, n}) \in {a, n} /\ \A y \in {a, n} : Min({a, n}) =< y
      BY <2>2 DEF Min
    <2>4. Min({a, n}) \in Nat /\ Min({a, n}) <= n
      <3>1. n \in Nat /\ n \in {a, n}
        BY <1>5
      <3> HIDE DEF from, to, down
      <3> QED BY <2>1, <2>3, <3>1
    <2> QED BY <2>4 DEF a
  <1> HIDE DEF down, from, to
  <1>7. SubSeq(down, from, to) \in Seq(1..n)
    <2>1. down \in Seq(1..n) /\ from \in Nat /\ from >= 1 /\ to \in Nat /\ to <= Len(down)
      BY ONLY <1>4, <1>5, <1>6, Zenon
    <2> QED BY ONLY <2>1, PartTyped, Zenon
  <1> QED BY <1>7 DEF PageOf, down, from, to

\* As many different ones as there are, are all.
LEMMA AllShown ==
    ASSUME NEW m \in Nat, NEW got \in Seq(1..m), IsInjective(got), Len(got) = m
    PROVE  1..m \subseteq Range(got)
  <1>1. PICK D : D = 1..m
    OBVIOUS
  <1>2. IsFiniteSet(D)
    BY <1>1, FS_Interval
  <1>3. DOMAIN got = D /\ \A i \in D : got[i] \in D
    BY <1>1, SeqElements
  <1>4. got = [i \in D |-> got[i]]
    BY <1>3
  <1>5. got \in [D -> D] /\ \A i, j \in D : got[i] = got[j] => i = j
    BY <1>3, <1>4 DEF IsInjective
  <1>6. got \in Injection(D, D)
    BY <1>5 DEF Injection, IsInjective
  <1>7. got \in Surjection(D, D)
    BY <1>2, <1>6, FS_Injection
  <1> QED BY <1>1, <1>3, <1>7 DEF Range, Surjection

LEMMA ReadPageKeeps ==
    ASSUME PortfolioInv, NEW n \in 1..MaxRefreshes, ReadPage(n)
    PROVE  PortfolioInv'
  <1> DEFINE r == refreshes[n]
             rows == PageOf(r.wallet, r.page)
             got == r.got \o rows
  <1>1. /\ r.counted /\ Consistent(got, rows, r.total) /\ UNCHANGED <<owned, account, requestId, failed>>
        /\ IF Len(got) < r.total
           THEN /\ refreshes' = [refreshes EXCEPT ![n].got = got, ![n].page = @ + 1, ![n].counted = FALSE]
                /\ UNCHANGED <<display, fetching>>
           ELSE /\ Ended(n)
                /\ IF n = requestId
                   THEN display' = [r EXCEPT !.got = got] /\ fetching' = FALSE
                   ELSE UNCHANGED <<display, fetching>>
    BY Zenon DEF ReadPage
  <1>2. /\ owned \in [Holders -> 0..MaxPositions] /\ refreshes \in [1..MaxRefreshes -> Runs]
        /\ r \in Runs /\ RunTrue(r) /\ MaxPositions \in Nat /\ Nobody \notin Holders
    BY PagedAssumption DEF PortfolioInv, Nobody
  <1>3. r.wallet # Nobody /\ r.wallet \in Holders /\ owned[r.wallet] \in 0..MaxPositions
    BY <1>1, <1>2 DEF RunTrue, Runs
  <1>3a. /\ r.page \in Nat \ {0} /\ r.got \in Seq(1..MaxPositions) /\ r.total \in Nat /\ r.torn \in BOOLEAN
         /\ r.began \in Nat
    BY <1>2 DEF Runs
  <1> HIDE DEF r
  <1> DEFINE m == owned[r.wallet]
  <1>4. m \in Nat /\ 1..m \subseteq 1..MaxPositions
    BY <1>2, <1>3
  <1>5. r.got \in Seq(1..m)
    <2>1. \A i \in DOMAIN r.got : r.got[i] \in 1..m
      <3> SUFFICES ASSUME NEW i \in DOMAIN r.got PROVE r.got[i] \in 1..m
        OBVIOUS
      <3>1. r.got[i] \in 1..MaxPositions
        BY <1>3a, SeqElements
      <3>2. r.got[i] <= m
        BY <1>2, <1>3 DEF RunTrue
      <3> QED BY <1>2, <1>4, <3>1, <3>2
    <2>2. DOMAIN r.got = 1..Len(r.got) /\ Len(r.got) \in Nat
      BY <1>3a, SeqElements
    <2>3. r.got = [i \in 1..Len(r.got) |-> r.got[i]]
      BY <1>3a
    <2> DEFINE A == 1..m
    <2>4. \A i \in 1..Len(r.got) : r.got[i] \in A
      BY <2>1, <2>2
    <2> HIDE DEF m, A
    <2>5. r.got \in Seq(A)
      BY <2>2, <2>3, <2>4
    <2> QED BY <2>5 DEF A
  <1>6. rows \in Seq(1..m)
    BY <1>3a, <1>4, PageTyped
  <1> HIDE DEF rows, m
  <1>7. got \in Seq(1..m) /\ Len(got) \in Nat
    BY <1>5, <1>6, CatElements, SeqElements
  <1>8. got \in Seq(1..MaxPositions)
    <2> DEFINE A == 1..m  B == 1..MaxPositions
    <2> HIDE DEF A, B
    <2>1. got \in Seq(A) /\ A \subseteq B
      BY <1>4, <1>7 DEF A, B
    <2>2. got \in Seq(B)
      <3> HIDE DEF got
      <3> QED BY <2>1, SeqWider
    <2> QED BY <2>2 DEF B
  <1>9. \A i \in DOMAIN got : got[i] <= m
    <2> DEFINE A == 1..m
    <2>1. \A i \in DOMAIN got : got[i] \in A
      <3> HIDE DEF A, got
      <3>1. got \in Seq(A)
        BY <1>7 DEF A
      <3> QED BY <3>1, SeqElements
    <2> QED BY <1>4, <2>1
  <1> HIDE DEF got
  <1>10. CASE Len(got) < r.total
    <2> DEFINE s == [r EXCEPT !.got = got, !.page = @ + 1, !.counted = FALSE]
    <2>1. /\ refreshes' = [refreshes EXCEPT ![n].got = got, ![n].page = @ + 1, ![n].counted = FALSE]
          /\ UNCHANGED <<display, fetching>>
      BY <1>1, <1>10
    <2>2. refreshes' = [refreshes EXCEPT ![n] = s]
      BY <1>2, <2>1 DEF Runs, r
    <2>3. /\ s \in Runs /\ s.wallet = r.wallet /\ s.counted = FALSE /\ s.began = r.began /\ s.got = got
      <3>1. r \in Runs /\ r.page + 1 \in Nat \ {0}
        <4>1. r \in Runs
          BY <1>2 DEF r
        <4> QED BY <1>3a, <4>1
      <3> QED BY <1>8, <3>1 DEF Runs
    <2> HIDE DEF s
    <2>4. RunTrue(s)
      BY <1>2, <1>3, <1>9, <2>3 DEF RunTrue, m
    <2>5. \A k \in 1..MaxRefreshes : refreshes'[k] = IF k = n THEN s ELSE refreshes[k]
      BY <1>2, <2>2
    <2>6. refreshes' \in [1..MaxRefreshes -> Runs]
      BY <1>2, <2>2, <2>3
    <2>7. \A k \in 1..MaxRefreshes : refreshes'[k].wallet = refreshes[k].wallet
      BY <2>3, <2>5 DEF r
    <2>8. \A k \in 1..MaxRefreshes : RunTrue(refreshes[k])' /\ (refreshes'[k].wallet # Nobody => k <= requestId')
      <3> SUFFICES ASSUME NEW k \in 1..MaxRefreshes
                   PROVE  RunTrue(refreshes[k])' /\ (refreshes'[k].wallet # Nobody => k <= requestId')
        OBVIOUS
      <3>1. RunTrue(refreshes[k])'
        BY <1>1, <2>4, <2>5 DEF PortfolioInv, RunTrue
      <3> QED BY <1>1, <2>7, <3>1 DEF PortfolioInv
    <2>9. (Waited' <=> Waited) /\ (Waited => refreshes'[requestId].wallet = refreshes[requestId].wallet)
      <3>1. requestId > 0 => requestId \in 1..MaxRefreshes
        BY DEF PortfolioInv
      <3> QED BY <1>1, <2>7, <3>1 DEF Waited
    <2>10. ShownTrue'
      BY <1>1, <2>1 DEF ShownTrue, PortfolioInv
    <2>11. /\ owned' \in [Holders -> 0..MaxPositions] /\ account' \in Holders \cup {Nobody} /\ display' \in Runs
           /\ requestId' \in 0..MaxRefreshes /\ fetching' \in BOOLEAN /\ failed' \in BOOLEAN
      BY <1>1, <2>1, Zenon DEF PortfolioInv
    <2> QED BY <1>1, <2>1, <2>6, <2>8, <2>9, <2>10, <2>11, Zenon DEF PortfolioInv
  <1>11. CASE ~(Len(got) < r.total) /\ n # requestId
    <2>1. Ended(n) /\ UNCHANGED <<display, fetching>>
      BY <1>1, <1>11
    <2>2. ShownTrue'
      BY <1>1, <2>1 DEF ShownTrue, PortfolioInv
    <2>3. display' \in Runs /\ fetching' \in BOOLEAN /\ failed' \in BOOLEAN
      BY <1>1, <2>1, Zenon DEF PortfolioInv
    <2> QED BY <1>1, <1>3, <1>11, <2>1, <2>2, <2>3, EndedKeeps DEF r
  <1>12. CASE ~(Len(got) < r.total) /\ n = requestId
    <2>1. Ended(n) /\ display' = [r EXCEPT !.got = got] /\ fetching' = FALSE
      BY <1>1, <1>12
    <2>2. /\ display' \in Runs /\ display'.wallet = r.wallet /\ display'.got = got /\ display'.began = r.began
          /\ display'.torn = r.torn
      BY <1>2, <1>8, <2>1 DEF Runs
    <2>3. r.wallet = account
      <3>1. requestId > 0
        BY <1>12
      <3>2. Waited
        BY <1>3, <1>12, <3>1 DEF Waited, r
      <3> QED BY <1>12, <3>2 DEF PortfolioInv, r
    <2>4. IsInjective(got) /\ Len(got) = r.total
      <3>1. IsInjective(got) /\ ~(Len(got) > r.total) /\ ~(Len(got) < r.total)
        BY <1>1, <1>12, Zenon DEF Consistent
      <3> QED BY <1>3a, <1>7, <3>1
    <2>5. ~r.torn => 1..r.began \subseteq Range(got)
      <3> SUFFICES ASSUME ~r.torn PROVE 1..r.began \subseteq Range(got)
        OBVIOUS
      <3>1. r.total = m /\ r.began <= m
        BY <1>1, <1>2, <1>3 DEF RunTrue, m
      <3>2. 1..m \subseteq Range(got)
        BY <1>4, <1>7, <2>4, <3>1, AllShown
      <3> QED BY <1>3a, <1>4, <3>1, <3>2
    <2>6. ShownTrue'
      BY <1>1, <1>3, <2>2, <2>3, <2>4, <2>5 DEF ShownTrue
    <2>7. fetching' \in BOOLEAN /\ failed' \in BOOLEAN
      BY <1>1, <2>1, Zenon DEF PortfolioInv
    <2> QED BY <1>1, <1>3, <1>12, <2>1, <2>2, <2>6, <2>7, EndedKeeps DEF r
  <1> QED BY <1>10, <1>11, <1>12

LEMMA PortfolioStep ==
    ASSUME PortfolioInv, PortfolioNext \/ UNCHANGED portfolioVars
    PROVE  PortfolioInv'
  <1>1. CASE UNCHANGED portfolioVars
    <2>1. UNCHANGED <<owned, account, requestId, refreshes, fetching, failed, display>>
      BY <1>1 DEF portfolioVars
    <2>2. (Waited' <=> Waited) /\ (ShownTrue' <=> ShownTrue) /\ \A r : RunTrue(r)' <=> RunTrue(r)
      BY <2>1 DEF Waited, ShownTrue, RunTrue
    <2>3. \A n \in 1..MaxRefreshes : RunTrue(refreshes[n])' <=> RunTrue(refreshes[n])
      BY <2>1 DEF RunTrue
    <2> QED BY <2>1, <2>2, <2>3, Zenon DEF PortfolioInv
  <1>2. ASSUME NEW w \in Holders, SignInAs(w) PROVE PortfolioInv'
    BY <1>2, StartKeeps DEF SignInAs
  <1>3. CASE RefreshAgain
    <2>1. account \in Holders
      BY <1>3 DEF RefreshAgain, PortfolioInv
    <2> QED BY <1>3, <2>1, StartKeeps DEF RefreshAgain
  <1> QED BY <1>1, <1>2, <1>3, SignOutKeeps, PositionMintedKeeps, CountPositionsKeeps, ReadPageKeeps,
             RefreshFailsKeeps DEF PortfolioNext

LEMMA PortfolioInitial == PagedInit => PortfolioInv
  <1> SUFFICES ASSUME PagedInit PROVE PortfolioInv
    OBVIOUS
  <1>1. /\ owned = [w \in Holders |-> 0] /\ account = Nobody /\ requestId = 0
        /\ refreshes = [n \in 1..MaxRefreshes |-> NotRunning]
        /\ fetching = FALSE /\ failed = FALSE /\ display = NotRunning
    BY DEF PagedInit
  <1>2. owned \in [Holders -> 0..MaxPositions] /\ requestId \in 0..MaxRefreshes
    BY <1>1, PagedAssumption
  <1>3. refreshes \in [1..MaxRefreshes -> Runs] /\ display \in Runs
    BY <1>1, NotRunningTyped
  <1>4. \A n \in 1..MaxRefreshes : RunTrue(refreshes[n]) /\ (refreshes[n].wallet # Nobody => n <= requestId)
    BY <1>1, NotRunningTyped
  <1>5. ~Waited
    BY <1>1 DEF Waited
  <1>6. ShownTrue
    BY <1>1, NotRunningTyped DEF ShownTrue
  <1>7. account \in Holders \cup {Nobody} /\ fetching = FALSE /\ fetching \in BOOLEAN /\ failed \in BOOLEAN
    BY <1>1
  <1> QED BY <1>2, <1>3, <1>4, <1>5, <1>6, <1>7, Zenon DEF PortfolioInv

-----------------------------------------------------------------------------
(* PagedReads: the walk by key                                                *)

\* The smaller of two numbers.
LEMMA Smaller ==
    ASSUME NEW a \in Nat, NEW b \in Nat
    PROVE  Min({a, b}) = IF b < a THEN b ELSE a
  <1>1. \E x \in {a, b} : \A y \in {a, b} : x =< y
    OBVIOUS
  <1>2. Min({a, b}) \in {a, b} /\ \A y \in {a, b} : Min({a, b}) =< y
    BY <1>1 DEF Min
  <1> QED BY <1>2

WalkRows == [at : Nat, id : Nat]

Placed(r) == r \in WalkRows

\* The key of a walk orders the rows strictly, and totally by id.
LEMMA BeforeOrders ==
    ASSUME NEW r \in WalkRows, NEW s \in WalkRows, NEW t \in WalkRows
    PROVE  /\ ~Before(r, r)
           /\ Before(r, s) /\ Before(s, t) => Before(r, t)
           /\ r.id # s.id => Before(r, s) \/ Before(s, r)
  BY DEF WalkRows, Before

Rising(s) == \A i, j \in DOMAIN s : i < j => Before(s[i], s[j])

\* What a walk has seen ends at its cursor, and what it is to see lies beyond.
WalkInv ==
    /\ inserted \subseteq [at : Nat, id : Nat \ {0}] /\ IsFiniteSet(inserted)
    /\ \A r \in inserted : r.id <= Cardinality(inserted)
    /\ \A r, s \in inserted : r.id = s.id => r = s
    /\ walk \in [kind : {"volume", "ticks"}, cursor : inserted \cup {NoCursor}, seen : Seq(inserted),
                 began : SUBSET inserted, upTo : Nat, status : {"none", "walking", "done", "failed"}]
    /\ \A r \in walk.began : InWindow(r)
    /\ Rising(walk.seen)
    /\ \A i \in DOMAIN walk.seen : walk.seen[i] = walk.cursor \/ Before(walk.seen[i], walk.cursor)
    /\ \A r \in walk.began : r \in Range(walk.seen) \/ Before(walk.cursor, r)
    /\ walk.status = "none" => walk.began = {} /\ walk.seen = <<>> /\ walk.cursor = NoCursor
    /\ walk.status = "done" => walk.began \subseteq Range(walk.seen)

\* A walk that is done has seen each row it began with, once.
LEMMA WalkMeans ==
    ASSUME WalkInv
    PROVE  walk.status = "done" => IsInjective(walk.seen) /\ walk.began \subseteq Range(walk.seen)
  <1> SUFFICES ASSUME walk.status = "done" PROVE IsInjective(walk.seen)
    BY DEF WalkInv
  <1> DEFINE s == walk.seen
  <1>1. s \in Seq(inserted) /\ Rising(s) /\ inserted \subseteq WalkRows
    BY DEF WalkInv, WalkRows
  <1> HIDE DEF s
  <1>2. DOMAIN s = 1..Len(s) /\ Len(s) \in Nat /\ \A i \in DOMAIN s : s[i] \in WalkRows
    BY <1>1, SeqElements
  <1>3. ASSUME NEW i \in DOMAIN s, NEW j \in DOMAIN s, s[i] = s[j], i # j PROVE FALSE
    <2>1. i \in Int /\ j \in Int
      BY <1>2
    <2>2. i < j \/ j < i
      BY <1>3, <2>1
    <2>3. Before(s[i], s[i])
      BY <1>1, <1>3, <2>2 DEF Rising
    <2> QED BY <1>2, <2>3, BeforeOrders
  <1>4. IsInjective(s)
    BY <1>3 DEF IsInjective
  <1> QED BY <1>4 DEF s

LEMMA RowInsertedKeeps == WalkInv /\ RowInserted => WalkInv'
  <1> SUFFICES ASSUME WalkInv, RowInserted PROVE WalkInv'
    OBVIOUS
  <1>1. PICK at \in Instants : inserted' = inserted \cup {[at |-> at, id |-> Cardinality(inserted) + 1]}
    BY DEF RowInserted
  <1>2. UNCHANGED walk
    BY DEF RowInserted
  <1> DEFINE n == Cardinality(inserted)
             new == [at |-> at, id |-> n + 1]
  <1>3. /\ n \in Nat /\ at \in Nat /\ IsFiniteSet(inserted) /\ inserted \subseteq [at : Nat, id : Nat \ {0}]
        /\ \A r \in inserted : r.id <= n /\ r.id \in Nat
    BY FS_CardinalityType, PagedAssumption DEF WalkInv
  <1>4. new \notin inserted /\ new \in [at : Nat, id : Nat \ {0}] /\ new.id = n + 1
    BY <1>3
  <1>5. inserted' = inserted \cup {new}
    BY <1>1
  <1> HIDE DEF new
  <1>6. IsFiniteSet(inserted') /\ Cardinality(inserted') = n + 1
    <2>1. inserted' \in {inserted \cup {new}}
      BY <1>5
    <2> QED BY <1>3, <1>4, <1>5, FS_AddElement
  <1> HIDE DEF n
  <1>7. inserted' \subseteq [at : Nat, id : Nat \ {0}]
    BY <1>3, <1>4, <1>5
  <1>8. \A r \in inserted' : r.id <= Cardinality(inserted')
    BY <1>3, <1>4, <1>5, <1>6
  <1>9. \A r, s \in inserted' : r.id = s.id => r = s
    <2>1. \A r \in inserted : r.id # new.id
      BY <1>3, <1>4
    <2> QED BY <1>5, <2>1 DEF WalkInv
  <1>10. walk' \in [kind : {"volume", "ticks"}, cursor : inserted' \cup {NoCursor}, seen : Seq(inserted'),
                    began : SUBSET inserted', upTo : Nat, status : {"none", "walking", "done", "failed"}]
    <2>1. walk.seen \in Seq(inserted) /\ inserted \subseteq inserted'
      BY <1>5 DEF WalkInv
    <2>2. walk.seen \in Seq(inserted')
      BY <2>1, SeqWider
    <2> QED BY <1>2, <2>1, <2>2 DEF WalkInv
  <1>11. (\A r : InWindow(r)' <=> InWindow(r)) /\ (Rising(walk.seen)' <=> Rising(walk.seen))
    BY <1>2 DEF InWindow, Rising
  <1> QED BY <1>2, <1>6, <1>7, <1>8, <1>9, <1>10, <1>11 DEF WalkInv, InWindow

LEMMA StartWalkKeeps == WalkInv /\ StartWalk => WalkInv'
  <1> SUFFICES ASSUME WalkInv, StartWalk PROVE WalkInv'
    OBVIOUS
  <1>1. PICK end \in Instants :
          walk' = [walk EXCEPT !.status = "walking", !.upTo = end,
                               !.began = {r \in inserted : walk.kind = "volume" => r.at < end}]
    BY DEF StartWalk
  <1>2. walk.status = "none" /\ UNCHANGED inserted /\ end \in Nat
    BY PagedAssumption DEF StartWalk
  <1>3. walk.seen = <<>> /\ walk.cursor = NoCursor
    BY <1>2 DEF WalkInv
  <1> DEFINE all == {r \in inserted : walk.kind = "volume" => r.at < end}
  <1>4. /\ walk' \in [kind : {"volume", "ticks"}, cursor : inserted \cup {NoCursor}, seen : Seq(inserted),
                      began : SUBSET inserted, upTo : Nat, status : {"none", "walking", "done", "failed"}]
        /\ walk'.kind = walk.kind /\ walk'.cursor = walk.cursor /\ walk'.seen = walk.seen
        /\ walk'.began = all /\ walk'.upTo = end /\ walk'.status = "walking"
    BY <1>1, <1>2 DEF WalkInv
  <1>5. \A r \in walk'.began : InWindow(r)'
    BY <1>4 DEF InWindow
  <1>6. \A r \in walk'.began : Before(walk'.cursor, r)
    <2> SUFFICES ASSUME NEW r \in inserted PROVE Before(NoCursor, r)
      BY <1>3, <1>4
    <2>1. r.at \in Nat /\ r.id \in Nat \ {0}
      BY DEF WalkInv
    <2> QED BY <2>1 DEF Before, NoCursor
  <1>7. Rising(walk'.seen) /\ \A i \in DOMAIN walk'.seen : FALSE
    BY <1>3, <1>4 DEF Rising
  <1>8. Rising(walk.seen)'
    BY <1>7 DEF Rising
  <1> HIDE DEF all
  <1> QED BY <1>2, <1>4, <1>5, <1>6, <1>7, <1>8 DEF WalkInv

\* The rows beyond the cursor have an order.
LEMMA RowsSorted ==
    ASSUME WalkInv
    PROVE  \E s \in SetToSeqs(Beyond) : \A i, j \in DOMAIN s : i < j => Before(s[i], s[j])
  <1>1. IsFiniteSet(Beyond) /\ Beyond \subseteq inserted
    BY FS_Subset DEF Beyond, WalkInv
  <1> DEFINE R == {p \in Beyond \X Beyond : Before(p[1], p[2])}
  <1>2. \A x, y \in Beyond : <<x, y>> \in R <=> Before(x, y)
    OBVIOUS
  <1>3. \A x \in Beyond : x \in WalkRows
    BY <1>1 DEF WalkInv, WalkRows
  <1>4. \A x, y \in Beyond : x # y => Before(x, y) \/ Before(y, x)
    BY <1>1, <1>3, BeforeOrders DEF WalkInv
  <1>5. \A x \in Beyond : ~Before(x, x)
    BY <1>3, BeforeOrders
  <1>6. \A x, y, z \in Beyond : Before(x, y) /\ Before(y, z) => Before(x, z)
    BY <1>3, BeforeOrders
  <1>7. /\ \A x \in Beyond : <<x, x>> \notin R
        /\ \A x, y \in Beyond : x # y => <<x, y>> \in R \/ <<y, x>> \in R
        /\ \A x, y, z \in Beyond : <<x, y>> \in R /\ <<y, z>> \in R => <<x, z>> \in R
    BY <1>2, <1>4, <1>5, <1>6
  <1> HIDE DEF R
  <1>8. PICK s \in SetToSeqs(Beyond) : \A i, j \in DOMAIN s : i < j => <<s[i], s[j]>> \in R
    BY <1>1, <1>7, OrderExists
  <1>9. \A i \in DOMAIN s : s[i] \in Beyond
    BY <1>1, InOrder
  <1> QED BY <1>2, <1>8, <1>9


Fewer(a, b) == IF b < a THEN b ELSE a

\* The first rows of a series, or all of it.
LEMMA FirstCut ==
    ASSUME NEW T, NEW s \in Seq(T), NEW n \in Nat
    PROVE  /\ SubSeq(s, 1, Min({n, Len(s)})) \in Seq(T)
           /\ Len(SubSeq(s, 1, Min({n, Len(s)}))) = Fewer(n, Len(s))
           /\ Fewer(n, Len(s)) \in Nat /\ Fewer(n, Len(s)) <= Len(s) /\ Fewer(n, Len(s)) <= n
           /\ \A i \in 1..Fewer(n, Len(s)) : SubSeq(s, 1, Min({n, Len(s)}))[i] = s[i]
  <1> DEFINE k == Min({n, Len(s)})
  <1>1. Len(s) \in Nat
    OBVIOUS
  <1>2. k = Fewer(n, Len(s)) /\ k \in Nat /\ k <= Len(s) /\ k <= n
    BY <1>1, Smaller DEF Fewer
  <1> HIDE DEF k
  <1>3. /\ SubSeq(s, 1, k) \in Seq(T) /\ Len(SubSeq(s, 1, k)) = k
        /\ \A i \in 1..k : SubSeq(s, 1, k)[i] = s[i]
    BY <1>1, <1>2
  <1> QED BY <1>2, <1>3 DEF k

\* A page is the first rows beyond the cursor, and all of them if it is the last.
LEMMA PageOfRows ==
    ASSUME WalkInv, WalkPage
    PROVE  \E sorted \in SetToSeqs(Beyond), page \in Seq(Beyond) :
              /\ \A i, j \in DOMAIN sorted : i < j => Before(sorted[i], sorted[j])
              /\ Len(page) = Fewer(PageSize, Len(sorted))
              /\ \A i \in 1..Len(page) : page[i] = sorted[i]
              /\ \E last \in BOOLEAN :
                    /\ last => Len(page) = Len(sorted)
                    /\ walk' = [walk EXCEPT !.seen = @ \o page,
                                            !.cursor = IF page = <<>> THEN @ ELSE Last(page),
                                            !.status = IF last THEN "done" ELSE @]
  <1> DEFINE sorted == CHOOSE s \in SetToSeqs(Beyond) : \A i, j \in DOMAIN s : i < j => Before(s[i], s[j])
             more == IF walk.kind = "ticks" THEN 1 ELSE 0
             rows == FirstRows(PageSize + more)
             page == SubSeq(rows, 1, Min({PageSize, Len(rows)}))
             last == IF walk.kind = "ticks" THEN Len(rows) <= PageSize ELSE Len(rows) < PageSize
  <1>1. sorted \in SetToSeqs(Beyond) /\ \A i, j \in DOMAIN sorted : i < j => Before(sorted[i], sorted[j])
    BY RowsSorted
  <1>2. rows = SubSeq(sorted, 1, Min({PageSize + more, Len(sorted)}))
    BY DEF FirstRows
  <1>3. walk' = [walk EXCEPT !.seen = @ \o page,
                             !.cursor = IF page = <<>> THEN @ ELSE Last(page),
                             !.status = IF last THEN "done" ELSE @]
    BY DEF WalkPage
  <1>4. IsFiniteSet(Beyond)
    BY FS_Subset DEF Beyond, WalkInv
  <1> HIDE DEF sorted
  <1>5. sorted \in Seq(Beyond) /\ Len(sorted) \in Nat
    BY <1>1, <1>4, InOrder
  <1>6. PageSize \in Nat \ {0} /\ PageSize + more \in Nat
    BY PagedAssumption
  <1> DEFINE n == PageSize + more  l == Len(sorted)
  <1>7. n = PageSize \/ n = PageSize + 1
    BY <1>6
  <1>8. walk.kind = "ticks" => n = PageSize + 1
    OBVIOUS
  <1>9. rows = SubSeq(sorted, 1, Min({n, Len(sorted)}))
    BY <1>2
  <1>9a. n \in Nat
    BY <1>6
  <1> HIDE DEF rows, n
  <1>10. /\ rows \in Seq(Beyond) /\ Len(rows) = Fewer(n, l)
         /\ \A i \in 1..Fewer(n, l) : rows[i] = sorted[i]
    BY <1>5, <1>9, <1>9a, FirstCut
  <1>10a. PageSize \in Nat
    BY <1>6
  <1>11. /\ page \in Seq(Beyond) /\ Len(page) = Fewer(PageSize, Len(rows))
         /\ \A i \in 1..Fewer(PageSize, Len(rows)) : page[i] = rows[i]
    BY <1>10, <1>10a, FirstCut
  <1> HIDE DEF page
  <1>12. Fewer(PageSize, Len(rows)) = Fewer(PageSize, l) /\ Fewer(PageSize, l) <= Fewer(n, l)
    <2>1. l \in Nat
      BY <1>5
    <2> HIDE DEF l
    <2> QED BY <1>6, <1>7, <1>9a, <1>10, <2>1 DEF Fewer
  <1>13. \A i \in 1..Len(page) : page[i] = sorted[i]
    <2>1. Fewer(PageSize, l) \in Nat /\ Fewer(n, l) \in Nat
      BY <1>5, <1>9a, <1>10a DEF Fewer
    <2>2. \A i \in 1..Fewer(PageSize, l) : i \in 1..Fewer(n, l)
      BY <1>12, <2>1
    <2> QED BY <1>10, <1>11, <1>12, <2>2
  <1>14. last => Len(page) = l
    <2>1. l \in Nat
      BY <1>5
    <2> SUFFICES ASSUME last PROVE Len(page) = l
      OBVIOUS
    <2>2. (walk.kind = "ticks" /\ Len(rows) <= PageSize) \/ Len(rows) < PageSize
      OBVIOUS
    <2> HIDE DEF last, l
    <2>3. CASE Len(rows) < PageSize
      BY <1>6, <1>7, <1>9a, <1>10, <1>11, <1>12, <2>1, <2>3 DEF Fewer
    <2>4. CASE walk.kind = "ticks" /\ Len(rows) <= PageSize
      BY <1>6, <1>8, <1>9a, <1>10, <1>11, <1>12, <2>1, <2>4 DEF Fewer
    <2> QED BY <2>2, <2>3, <2>4
  <1> HIDE DEF last
  <1>15. PICK end \in BOOLEAN : end <=> last
    OBVIOUS
  <1>16. walk' = [walk EXCEPT !.seen = @ \o page,
                              !.cursor = IF page = <<>> THEN @ ELSE Last(page),
                              !.status = IF end THEN "done" ELSE @]
    BY <1>3, <1>15, Zenon
  <1> QED BY <1>1, <1>11, <1>12, <1>13, <1>14, <1>15, <1>16

LEMMA WalkPageKeeps == WalkInv /\ WalkPage => WalkInv'
  <1> SUFFICES ASSUME WalkInv, WalkPage PROVE WalkInv'
    OBVIOUS
  <1>1. PICK sorted \in SetToSeqs(Beyond), page \in Seq(Beyond), last \in BOOLEAN :
              /\ \A i, j \in DOMAIN sorted : i < j => Before(sorted[i], sorted[j])
              /\ Len(page) = Fewer(PageSize, Len(sorted))
              /\ \A i \in 1..Len(page) : page[i] = sorted[i]
              /\ last => Len(page) = Len(sorted)
              /\ walk' = [walk EXCEPT !.seen = @ \o page,
                                      !.cursor = IF page = <<>> THEN @ ELSE Last(page),
                                      !.status = IF last THEN "done" ELSE @]
    BY PageOfRows
  <1>2. walk.status = "walking" /\ UNCHANGED inserted
    BY DEF WalkPage
  <1> DEFINE seen == walk.seen
             cursor == walk.cursor
             later == IF page = <<>> THEN cursor ELSE Last(page)
             m == Len(seen)
             k == Len(page)
             l == Len(sorted)
             both == seen \o page
  <1>3. /\ seen \in Seq(inserted) /\ Beyond \subseteq inserted /\ page \in Seq(inserted)
        /\ cursor \in inserted \cup {NoCursor} /\ inserted \subseteq WalkRows /\ NoCursor \in WalkRows
    <2>1. Beyond \subseteq inserted
      BY DEF Beyond
    <2>2. page \in Seq(inserted)
      BY <2>1, SeqWider
    <2> QED BY <2>1, <2>2 DEF WalkInv, WalkRows, NoCursor
  <1>4. /\ both \in Seq(inserted) /\ Len(both) = m + k /\ m \in Nat /\ k \in Nat
        /\ \A i \in 1..m : both[i] = seen[i]
        /\ \A i \in 1..k : both[m + i] = page[i]
    BY <1>3, CatElements
  <1>5. IsFiniteSet(Beyond)
    BY FS_Subset DEF Beyond, WalkInv
  <1>6. /\ l \in Nat /\ DOMAIN sorted = 1..l /\ \A i \in 1..l : sorted[i] \in Beyond
        /\ \A x \in Beyond : \E i \in 1..l : sorted[i] = x
    BY <1>5, InOrder
  <1>7. k <= l /\ (k = 0 => l = 0)
    BY <1>1, <1>4, <1>6, PagedAssumption DEF Fewer
  <1>8. IF k = 0 THEN later = cursor ELSE later = sorted[k] /\ k \in 1..l
    <2>1. page = <<>> <=> k = 0
      BY <1>1
    <2>2. k # 0 => Last(page) = page[k] /\ k \in 1..k
      BY <1>4 DEF Last
    <2> QED BY <1>1, <1>4, <1>6, <1>7, <2>1, <2>2
  <1>9. walk' = [walk EXCEPT !.seen = both, !.cursor = later, !.status = IF last THEN "done" ELSE @]
    BY <1>1, Zenon
  <1>10. later \in inserted \cup {NoCursor}
    BY <1>3, <1>6, <1>8
  <1> HIDE DEF both, later
  <1>11. /\ walk' \in [kind : {"volume", "ticks"}, cursor : inserted \cup {NoCursor}, seen : Seq(inserted),
                       began : SUBSET inserted, upTo : Nat, status : {"none", "walking", "done", "failed"}]
         /\ walk'.kind = walk.kind /\ walk'.cursor = later /\ walk'.seen = both
         /\ walk'.began = walk.began /\ walk'.upTo = walk.upTo
         /\ walk'.status = IF last THEN "done" ELSE "walking"
    BY <1>2, <1>4, <1>9, <1>10 DEF WalkInv
  <1>12. \A r \in Beyond : r \in inserted /\ r \in WalkRows /\ Before(cursor, r)
    BY <1>3 DEF Beyond
  <1>13. \A i \in 1..m : seen[i] \in WalkRows /\ (seen[i] = cursor \/ Before(seen[i], cursor))
    BY <1>3, SeqElements DEF WalkInv
  <1>14. cursor \in WalkRows
    BY <1>3
  <1>15. \A i \in 1..m, r \in Beyond : Before(seen[i], r)
    BY <1>12, <1>13, <1>14, BeforeOrders
  <1>16. \A i \in 1..k : page[i] = sorted[i] /\ i \in 1..l /\ sorted[i] \in Beyond
    BY <1>1, <1>4, <1>6, <1>7
  <1>17. DOMAIN both = 1..m + k /\ DOMAIN seen = 1..m
    BY <1>3, <1>4
  <1> DEFINE A == 1..m  B == 1..k
  <1>18. ASSUME NEW i \in 1..m + k
         PROVE  \/ i \in 1..m /\ both[i] = seen[i]
                \/ \E j \in 1..k : i = m + j /\ both[i] = sorted[j] /\ sorted[j] \in Beyond /\ j \in 1..l
    <2>1. CASE i <= m
      BY <1>4, <2>1
    <2>2. CASE i > m
      <3> DEFINE j == i - m
      <3>1. j \in 1..k /\ i = m + j
        BY <1>4, <2>2
      <3> HIDE DEF j
      <3> QED BY <1>4, <1>16, <3>1
    <2> QED BY <1>4, <2>1, <2>2
  <1>19. Rising(both)
    <2> SUFFICES ASSUME NEW i \in 1..m + k, NEW j \in 1..m + k, i < j PROVE Before(both[i], both[j])
      BY <1>17 DEF Rising
    <2>1. CASE j \in 1..m
      <3>1. i \in 1..m
        BY <1>4, <2>1
      <3>2. both[i] = seen[i] /\ both[j] = seen[j]
        BY <1>4, <2>1, <3>1
      <3> QED BY <1>17, <2>1, <3>1, <3>2 DEF WalkInv, Rising
    <2>2. CASE j \notin 1..m
      <3>1. PICK b \in 1..k : j = m + b /\ both[j] = sorted[b] /\ sorted[b] \in Beyond /\ b \in 1..l
        BY <1>18, <2>2
      <3>2. CASE i \in 1..m
        BY <1>4, <1>15, <3>1, <3>2
      <3>3. CASE i \notin 1..m
        <4>1. PICK a \in 1..k : i = m + a /\ both[i] = sorted[a] /\ sorted[a] \in Beyond /\ a \in 1..l
          BY <1>18, <3>3
        <4>2. a < b
          BY <1>4, <3>1, <4>1
        <4> QED BY <1>1, <1>6, <3>1, <4>1, <4>2
      <3> QED BY <3>2, <3>3
    <2> QED BY <2>1, <2>2
  <1>20. \A i \in 1..m + k : both[i] = later \/ Before(both[i], later)
    <2> SUFFICES ASSUME NEW i \in 1..m + k PROVE both[i] = later \/ Before(both[i], later)
      OBVIOUS
    <2>1. CASE i \in 1..m
      <3>1. both[i] = seen[i]
        BY <1>4, <2>1
      <3> QED BY <1>6, <1>8, <1>13, <1>15, <2>1, <3>1
    <2>2. CASE i \notin 1..m
      <3>1. PICK b \in 1..k : both[i] = sorted[b] /\ b \in 1..l
        BY <1>18, <2>2
      <3>2. k # 0 /\ (b = k \/ b < k)
        BY <1>4, <3>1
      <3> QED BY <1>1, <1>6, <1>8, <3>1, <3>2
    <2> QED BY <2>1, <2>2
  <1>21. \A r \in Range(seen) : r \in Range(both)
    <2>1. \A i \in 1..m : i \in 1..m + k
      BY <1>4
    <2> QED BY <1>4, <1>17, <2>1 DEF Range
  <1>22. \A i \in 1..k : sorted[i] \in Range(both)
    <2> SUFFICES ASSUME NEW i \in 1..k PROVE sorted[i] \in Range(both)
      OBVIOUS
    <2>1. m + i \in 1..m + k /\ both[m + i] = sorted[i]
      BY <1>4, <1>16
    <2> QED BY <1>17, <2>1 DEF Range
  <1>23. ASSUME NEW r \in walk.began
         PROVE  /\ r \in Range(both) \/ Before(later, r)
                /\ last => r \in Range(both)
    <2>1. CASE r \in Range(seen)
      BY <1>21, <2>1
    <2>2. CASE r \notin Range(seen)
      <3>1. r \in Beyond
        BY <2>2 DEF WalkInv, Beyond
      <3>2. PICK i \in 1..l : sorted[i] = r
        BY <1>6, <3>1
      <3>3. CASE i \in 1..k
        BY <1>22, <3>2, <3>3
      <3>4. CASE i \notin 1..k
        <4>1. k < i
          BY <1>4, <1>6, <3>4
        <4>2. k # 0
          BY <1>6, <1>7, <3>2
        <4>3. Before(sorted[k], sorted[i])
          BY <1>1, <1>6, <1>8, <4>1, <4>2
        <4>4. ~last
          BY <1>1, <1>4, <1>6, <4>1
        <4> QED BY <1>8, <3>2, <4>2, <4>3, <4>4
      <3> QED BY <3>3, <3>4
    <2> QED BY <2>1, <2>2
  <1>24. \A r : InWindow(r)' <=> InWindow(r)
    BY <1>11 DEF InWindow
  <1>25. Rising(walk.seen)'
    BY <1>11, <1>19 DEF Rising
  <1>26. \A r \in walk'.began : InWindow(r)'
    BY <1>11, <1>24 DEF WalkInv, InWindow
  <1>27. walk'.status # "none" /\ (walk'.status = "done" => last)
    BY <1>11
  <1>28. \A i \in DOMAIN walk'.seen : walk'.seen[i] = walk'.cursor \/ Before(walk'.seen[i], walk'.cursor)
    BY <1>11, <1>17, <1>20
  <1>29. /\ \A r \in walk'.began : r \in Range(walk'.seen) \/ Before(walk'.cursor, r)
         /\ walk'.status = "done" => walk'.began \subseteq Range(walk'.seen)
    BY <1>11, <1>23, <1>27
  <1>30. /\ inserted \subseteq [at : Nat, id : Nat \ {0}] /\ IsFiniteSet(inserted)
         /\ \A r \in inserted : r.id <= Cardinality(inserted)
         /\ \A r, s \in inserted : r.id = s.id => r = s
    BY DEF WalkInv
  <1> HIDE DEF A, B, m, k, l, seen, cursor
  <1> QED BY <1>2, <1>11, <1>25, <1>26, <1>27, <1>28, <1>29, <1>30, Zenon DEF WalkInv

LEMMA WalkStep ==
    ASSUME WalkInv, WalkNext \/ UNCHANGED walkVars
    PROVE  WalkInv'
  <1>1. CASE UNCHANGED walkVars
    <2>1. UNCHANGED <<inserted, walk>>
      BY <1>1 DEF walkVars
    <2>2. Rising(walk.seen)' <=> Rising(walk.seen)
      BY <2>1 DEF Rising
    <2>3. (\A r \in walk.began : InWindow(r))' <=> (\A r \in walk.began : InWindow(r))
      BY <2>1 DEF InWindow
    <2> QED BY <2>1, <2>2, <2>3, Zenon DEF WalkInv
  <1>2. CASE WalkFails
    <2>1. walk' = [walk EXCEPT !.status = "failed"] /\ UNCHANGED inserted
      BY <1>2 DEF WalkFails
    <2>2. /\ walk' \in [kind : {"volume", "ticks"}, cursor : inserted \cup {NoCursor}, seen : Seq(inserted),
                       began : SUBSET inserted, upTo : Nat, status : {"none", "walking", "done", "failed"}]
          /\ walk'.kind = walk.kind /\ walk'.cursor = walk.cursor /\ walk'.seen = walk.seen
          /\ walk'.began = walk.began /\ walk'.upTo = walk.upTo /\ walk'.status = "failed"
      BY <2>1 DEF WalkInv
    <2>3. Rising(walk.seen)'
      BY <2>2 DEF WalkInv, Rising
    <2>4. \A r \in walk'.began : InWindow(r)'
      BY <2>2 DEF WalkInv, InWindow
    <2> QED BY <2>1, <2>2, <2>3, <2>4 DEF WalkInv
  <1> QED BY <1>1, <1>2, RowInsertedKeeps, StartWalkKeeps, WalkPageKeeps DEF WalkNext

LEMMA WalkInitial == PagedInit => WalkInv
  <1> SUFFICES ASSUME PagedInit PROVE WalkInv
    OBVIOUS
  <1>1. /\ inserted = {}
        /\ walk \in [kind : {"volume", "ticks"}, cursor : {NoCursor}, seen : {<<>>}, began : {{}},
                     upTo : {0}, status : {"none"}]
    BY DEF PagedInit
  <1>2. IsFiniteSet(inserted)
    BY <1>1, FS_EmptySet
  <1>3. /\ walk.cursor = NoCursor /\ walk.seen = <<>> /\ walk.began = {} /\ walk.upTo = 0 /\ walk.status = "none"
        /\ walk \in [kind : {"volume", "ticks"}, cursor : inserted \cup {NoCursor}, seen : Seq(inserted),
                     began : SUBSET inserted, upTo : Nat, status : {"none", "walking", "done", "failed"}]
    <2>1. <<>> \in Seq(inserted) /\ {} \in SUBSET inserted
      OBVIOUS
    <2>2. /\ walk.cursor = NoCursor /\ walk.seen = <<>> /\ walk.began = {} /\ walk.upTo = 0
          /\ walk.status = "none" /\ walk.kind \in {"volume", "ticks"}
      BY <1>1
    <2>3. walk = [kind |-> walk.kind, cursor |-> walk.cursor, seen |-> walk.seen, began |-> walk.began,
                  upTo |-> walk.upTo, status |-> walk.status]
      BY <1>1
    <2>4. /\ walk.seen \in Seq(inserted) /\ walk.began \in SUBSET inserted /\ walk.upTo \in Nat
          /\ walk.cursor \in inserted \cup {NoCursor} /\ walk.status \in {"none", "walking", "done", "failed"}
      BY <2>1, <2>2
    <2> QED BY <2>2, <2>3, <2>4
  <1>4. \A i \in DOMAIN walk.seen : FALSE
    BY <1>3
  <1> QED BY <1>1, <1>2, <1>3, <1>4 DEF WalkInv, Rising

-----------------------------------------------------------------------------
(* CandleChart: gaps are filled piece by piece, one bar and the flat ones     *)
(* behind it; every statement about the filled series climbs along the pieces. *)

Bars == [time : Int, close : Nat, gap : BOOLEAN, of : Pairs]

LEMMA FlattenNothing == FlattenSeq(<<>>) = <<>>
  <1>1. Len(<<>>) = 0
    OBVIOUS
  <1> QED BY <1>1, Zenon DEF FlattenSeq

\* The pieces one after the other.
LEMMA FlattenRuns ==
    ASSUME NEW T, NEW pieces \in Seq(Seq(T)), Len(pieces) # 0
    PROVE  \E f : /\ f[1] = pieces[1] /\ FlattenSeq(pieces) = f[Len(pieces)]
                  /\ \A i \in 1..(Len(pieces) - 1) : f[i + 1] = f[i] \o pieces[i + 1]
  <1>1. PICK n \in Nat \ {0} : n = Len(pieces)
    OBVIOUS
  <1>2. PICK f : Flattens(f, pieces, n) /\ FlattenSeq(pieces) = f[n]
    BY <1>1, FlattenSeqFlattens
  <1>3. f = [i \in 1..n |-> IF i = 1 THEN pieces[i] ELSE f[i - 1] \o pieces[i]]
    BY <1>2 DEF Flattens
  <1>4. f[1] = pieces[1]
    BY <1>3
  <1>5. ASSUME NEW i \in 1..(n - 1) PROVE f[i + 1] = f[i] \o pieces[i + 1]
    <2> DEFINE j == i + 1
    <2>1. j \in 1..n /\ j # 1 /\ j - 1 = i
      OBVIOUS
    <2> HIDE DEF j
    <2>2. f[j] = f[j - 1] \o pieces[j]
      BY <1>3, <2>1
    <2> QED BY <2>1, <2>2 DEF j
  <1> QED BY <1>1, <1>2, <1>4, <1>5

\* r is what h picks from the first n of s, in its order.
Picked(r, s, n, h) ==
    /\ h \in [1..Len(r) -> 1..n]
    /\ \A i, j \in 1..Len(r) : i < j => h[i] < h[j]
    /\ \A i \in 1..Len(r) : r[i] = s[h[i]]

\* A pick of a series' places goes on with the next place,
LEMMA PickMore ==
    ASSUME NEW T, NEW s, NEW r \in Seq(T), NEW n \in Nat, s[n + 1] \in T, NEW h, Picked(r, s, n, h), NEW P,
           \A i \in 1..Len(r) : h[i] \in P, n + 1 \in P
    PROVE  \E g : /\ Picked(Append(r, s[n + 1]), s, n + 1, g)
                  /\ \A i \in 1..Len(Append(r, s[n + 1])) : g[i] \in P
  <1> DEFINE x == s[n + 1]  m == Len(r)  q == Append(r, x)
             g == [i \in 1..m + 1 |-> IF i = m + 1 THEN n + 1 ELSE h[i]]
  <1>1. /\ m \in Nat /\ Len(q) = m + 1 /\ q[m + 1] = x /\ \A i \in 1..m : q[i] = r[i]
    OBVIOUS
  <1>2. /\ \A i \in 1..m : h[i] \in 1..n /\ r[i] = s[h[i]]
        /\ \A i, j \in 1..m : i < j => h[i] < h[j]
    BY DEF Picked
  <1>3. \A i \in 1..m + 1 : i \in 1..m \/ i = m + 1
    BY <1>1
  <1> HIDE DEF q, m
  <1>4. g[m + 1] = n + 1 /\ \A i \in 1..m : g[i] = h[i] /\ i # m + 1
    <2>1. m + 1 \in 1..m + 1 /\ \A i \in 1..m : i \in 1..m + 1 /\ i # m + 1
      BY <1>1
    <2> QED BY <2>1
  <1>5. g \in [1..m + 1 -> 1..n + 1]
    <2>1. \A i \in 1..m : h[i] \in 1..n + 1
      BY <1>2
    <2>2. n + 1 \in 1..n + 1
      OBVIOUS
    <2> QED BY <1>3, <2>1, <2>2
  <1> HIDE DEF g
  <1>6. ASSUME NEW i \in 1..m + 1, NEW j \in 1..m + 1, i < j PROVE g[i] < g[j]
    <2>1. i \in 1..m
      BY <1>1, <1>6
    <2>2. CASE j \in 1..m
      BY <1>2, <1>4, <1>6, <2>1, <2>2
    <2>3. CASE j = m + 1
      <3>1. g[i] \in 1..n /\ g[j] = n + 1
        BY <1>2, <1>4, <2>1, <2>3
      <3> QED BY <3>1
    <2> QED BY <1>3, <2>2, <2>3
  <1>7. ASSUME NEW i \in 1..m + 1 PROVE q[i] = s[g[i]] /\ g[i] \in P
    <2>1. CASE i \in 1..m
      BY <1>1, <1>2, <1>4, <2>1 DEF m
    <2>2. CASE i = m + 1
      BY <1>1, <1>4, <2>2
    <2> QED BY <1>3, <2>1, <2>2
  <1>8. Picked(q, s, n + 1, g) /\ \A i \in 1..Len(q) : g[i] \in P
    BY <1>1, <1>5, <1>6, <1>7 DEF Picked
  <1> QED BY <1>8 DEF q

\* or passes it over.
LEMMA PickWider ==
    ASSUME NEW s, NEW r, NEW n \in Nat, NEW h, Picked(r, s, n, h) PROVE Picked(r, s, n + 1, h)
  <1>1. 1..n \subseteq 1..n + 1
    OBVIOUS
  <1>2. h \in [1..Len(r) -> 1..n + 1]
    BY <1>1 DEF Picked
  <1> QED BY <1>2 DEF Picked

PickedOf(r, s, pieces) ==
    \E h : Picked(r, s, Len(s), h) /\ \A i \in 1..Len(r) : pieces[h[i]] # <<>>

\* PiecesOf of at most one element each.
LEMMA Filtering ==
    ASSUME NEW T, NEW s \in Seq(T), NEW pieces \in Seq(Seq(T)), Len(pieces) = Len(s),
           \A i \in 1..Len(s) : pieces[i] = <<>> \/ pieces[i] = <<s[i]>>
    PROVE  /\ FlattenSeq(pieces) \in Seq(T) /\ Len(FlattenSeq(pieces)) \in Nat
           /\ Len(FlattenSeq(pieces)) <= Len(s)
           /\ PickedOf(FlattenSeq(pieces), s, pieces)
  <1> DEFINE n == Len(s)
             P == {i \in 1..n : pieces[i] # <<>>}
             FitsIn(r, m) == /\ r \in Seq(T) /\ Len(r) <= m
                           /\ \E h : Picked(r, s, m, h) /\ \A i \in 1..Len(r) : h[i] \in P
  <1>1. n \in Nat /\ \A i \in 1..n : s[i] \in T
    BY SeqElements
  <1>2. ASSUME NEW r \in Seq(T), Len(r) = 0, NEW m \in Nat PROVE FitsIn(r, m)
    <2> DEFINE h == [i \in 1..0 |-> 0]
    <2>1. \A i \in 1..0 : FALSE
      OBVIOUS
    <2>2. h \in [1..0 -> 1..m]
      BY <2>1
    <2> HIDE DEF h, P
    <2>3. Picked(r, s, m, h)
      BY <1>2, <2>1, <2>2 DEF Picked
    <2> QED BY <1>2, <2>1, <2>3
  <1>3. ASSUME NEW r, NEW m \in Nat, m + 1 \in 1..n, FitsIn(r, m) PROVE FitsIn(r \o pieces[m + 1], m + 1)
    <2>0. r \in Seq(T) /\ Len(r) \in Nat /\ Len(r) <= m /\ s[m + 1] \in T
      BY <1>1, <1>3
    <2>1. PICK h : Picked(r, s, m, h) /\ \A i \in 1..Len(r) : h[i] \in P
      BY <1>3
    <2>2. CASE pieces[m + 1] = <<>>
      <3>1. r \o pieces[m + 1] = r
        BY <2>0, <2>2
      <3>2. Picked(r, s, m + 1, h)
        BY <2>1, PickWider
      <3>3. Len(r) <= m + 1
        BY <2>0
      <3>4. FitsIn(r, m + 1)
        <4> HIDE DEF P
        <4> QED BY <2>0, <2>1, <3>2, <3>3
      <3> HIDE DEF FitsIn
      <3> QED BY <3>1, <3>4
    <2>3. CASE pieces[m + 1] # <<>>
      <3>1. pieces[m + 1] = <<s[m + 1]>> /\ m + 1 \in P
        BY <1>3, <2>3
      <3> DEFINE q == Append(r, s[m + 1])
      <3>2. r \o pieces[m + 1] = q /\ q \in Seq(T) /\ Len(q) = Len(r) + 1
        BY <2>0, <3>1
      <3> HIDE DEF P
      <3>3. \E g : Picked(q, s, m + 1, g) /\ \A i \in 1..Len(q) : g[i] \in P
        BY <2>0, <2>1, <3>1, PickMore
      <3>4. Len(q) <= m + 1
        BY <2>0, <3>2
      <3> HIDE DEF q
      <3>5. FitsIn(q, m + 1)
        BY <3>2, <3>3, <3>4
      <3> HIDE DEF FitsIn
      <3> QED BY <3>2, <3>5
    <2> QED BY <2>2, <2>3
  <1>4. FitsIn(FlattenSeq(pieces), n)
    <2>1. CASE n = 0
      <3>1. pieces = <<>>
        BY <2>1
      <3>2. FlattenSeq(pieces) = <<>> /\ <<>> \in Seq(T) /\ Len(<<>>) = 0
        BY <3>1, FlattenNothing
      <3> HIDE DEF FitsIn
      <3> QED BY <1>1, <1>2, <3>2
    <2>2. CASE n # 0
      <3>1. PICK f : /\ f[1] = pieces[1] /\ FlattenSeq(pieces) = f[n]
                     /\ \A i \in 1..(n - 1) : f[i + 1] = f[i] \o pieces[i + 1]
        <4>1. Len(pieces) # 0 /\ Len(pieces) = n
          BY <2>2
        <4>2. \E f : /\ f[1] = pieces[1] /\ FlattenSeq(pieces) = f[Len(pieces)]
                     /\ \A i \in 1..(Len(pieces) - 1) : f[i + 1] = f[i] \o pieces[i + 1]
          BY <4>1, FlattenRuns
        <4> HIDE DEF n
        <4> QED BY <4>1, <4>2
      <3> DEFINE Good == {k \in Nat : k + 1 <= n => FitsIn(f[k + 1], k + 1)}
      <3>2. 0 \in Good
        <4>1. <<>> \in Seq(T) /\ Len(<<>>) = 0 /\ 0 + 1 \in 1..n
          BY <1>1, <2>2
        <4>2. FitsIn(<<>>, 0)
          <5> HIDE DEF FitsIn
          <5> QED BY <1>2, <4>1
        <4>3. FitsIn(<<>> \o pieces[0 + 1], 0 + 1)
          <5> HIDE DEF FitsIn
          <5> QED BY <1>3, <4>1, <4>2
        <4>4. <<>> \o pieces[0 + 1] = f[0 + 1]
          <5>1. pieces[0 + 1] \in Seq(T)
            BY <4>1
          <5> QED BY <3>1, <5>1
        <4> HIDE DEF FitsIn
        <4> QED BY <4>3, <4>4
      <3>3. ASSUME NEW k \in Good \cap Nat PROVE k + 1 \in Good
        <4> SUFFICES ASSUME (k + 1) + 1 <= n PROVE FitsIn(f[(k + 1) + 1], (k + 1) + 1)
          <5> HIDE DEF FitsIn
          <5> QED OBVIOUS
        <4> DEFINE j == k + 1
        <4>1. j \in Nat /\ j + 1 \in 1..n /\ j \in 1..(n - 1) /\ k + 1 <= n
          BY <1>1
        <4>2. FitsIn(f[j], j)
          <5> HIDE DEF FitsIn
          <5> QED BY <4>1
        <4> HIDE DEF j
        <4>3. FitsIn(f[j] \o pieces[j + 1], j + 1)
          <5> HIDE DEF FitsIn
          <5> QED BY <1>3, <4>1, <4>2
        <4>4. f[j + 1] = f[j] \o pieces[j + 1]
          BY <3>1, <4>1
        <4>5. FitsIn(f[j + 1], j + 1)
          <5> HIDE DEF FitsIn
          <5> QED BY <4>3, <4>4
        <4> HIDE DEF FitsIn
        <4> QED BY <4>5 DEF j
      <3>4. n - 1 \in Good /\ n - 1 \in Nat /\ (n - 1) + 1 = n
        <4>1. Nat \subseteq Good
          <5> HIDE DEF Good
          <5> QED BY <3>2, <3>3, Climb
        <4>2. n - 1 \in Nat /\ (n - 1) + 1 = n
          BY <1>1, <2>2
        <4> HIDE DEF Good
        <4> QED BY <4>1, <4>2
      <3>5. FitsIn(f[(n - 1) + 1], (n - 1) + 1)
        <4> HIDE DEF FitsIn
        <4>1. (n - 1) + 1 <= n
          BY <1>1, <3>4
        <4> QED BY <3>4, <4>1
      <3> HIDE DEF FitsIn
      <3> QED BY <3>1, <3>4, <3>5
    <2> QED BY <2>1, <2>2
  <1>5. Len(FlattenSeq(pieces)) \in Nat
    BY <1>4
  <1>6. PICK h : Picked(FlattenSeq(pieces), s, n, h) /\ \A i \in 1..Len(FlattenSeq(pieces)) : h[i] \in P
    BY <1>4
  <1>7. \A i \in 1..Len(FlattenSeq(pieces)) : pieces[h[i]] # <<>>
    BY <1>6
  <1>8. PickedOf(FlattenSeq(pieces), s, pieces)
    BY <1>6, <1>7 DEF PickedOf
  <1> QED BY <1>4, <1>5, <1>8

\* The same recursion, as an induction.
LEMMA FlattenInduct ==
    ASSUME NEW T, NEW n \in Nat \ {0}, NEW pieces \in Seq(Seq(T)), Len(pieces) = n, NEW G,
           <<pieces[1], 1>> \in G,
           \A e \in Seq(T), i \in 1..(n - 1) : <<e, i>> \in G => <<e \o pieces[i + 1], i + 1>> \in G
    PROVE  FlattenSeq(pieces) \in Seq(T) /\ <<FlattenSeq(pieces), n>> \in G
  <1>0. \A i \in 1..n : pieces[i] \in Seq(T)
    OBVIOUS
  <1>1. PICK f : /\ f[1] = pieces[1] /\ FlattenSeq(pieces) = f[n]
                 /\ \A i \in 1..(n - 1) : f[i + 1] = f[i] \o pieces[i + 1]
    BY FlattenRuns
  <1> DEFINE Good == {k \in Nat : k + 1 <= n => f[k + 1] \in Seq(T) /\ <<f[k + 1], k + 1>> \in G}
  <1>2. 0 \in Good
    <2>1. pieces[1] \in Seq(T) /\ 0 + 1 = 1 /\ 0 \in Nat
      BY <1>0
    <2> QED BY <1>1, <2>1
  <1>3. ASSUME NEW k \in Good \cap Nat PROVE k + 1 \in Good
    <2> SUFFICES ASSUME (k + 1) + 1 <= n
                 PROVE  f[(k + 1) + 1] \in Seq(T) /\ <<f[(k + 1) + 1], (k + 1) + 1>> \in G
      OBVIOUS
    <2> DEFINE j == k + 1
    <2>1. j \in 1..(n - 1) /\ j + 1 \in 1..n /\ k + 1 <= n
      OBVIOUS
    <2>2. f[j] \in Seq(T) /\ <<f[j], j>> \in G
      BY <2>1
    <2> HIDE DEF j, Good
    <2>3. <<f[j] \o pieces[j + 1], j + 1>> \in G
      BY <2>1, <2>2
    <2>4. f[j] \o pieces[j + 1] \in Seq(T)
      BY <1>0, <2>1, <2>2
    <2>5. f[j + 1] = f[j] \o pieces[j + 1]
      BY <1>1, <2>1
    <2>6. f[j + 1] \in Seq(T) /\ <<f[j + 1], j + 1>> \in G
      BY <2>3, <2>4, <2>5
    <2> QED BY <2>6 DEF j
  <1>4. n - 1 \in Nat /\ (n - 1) + 1 = n /\ (n - 1) + 1 <= n
    OBVIOUS
  <1>5. Nat \subseteq Good
    <2> HIDE DEF Good
    <2> QED BY <1>2, <1>3, Climb
  <1>6. f[(n - 1) + 1] \in Seq(T) /\ <<f[(n - 1) + 1], (n - 1) + 1>> \in G
    BY <1>4, <1>5
  <1> QED BY <1>1, <1>4, <1>6

\* Going up one to one, there are no more steps than places.
LEMMA Ascends ==
    ASSUME NEW m \in Nat, NEW n \in Nat, NEW h \in [1..m -> 1..n],
           \A i, j \in 1..m : i < j => h[i] < h[j]
    PROVE  m <= n
  <1>1. \A i, j \in 1..m : h[i] = h[j] => i = j
    <2> SUFFICES ASSUME NEW i \in 1..m, NEW j \in 1..m, h[i] = h[j] PROVE i = j
      OBVIOUS
    <2>1. h[i] \in Int /\ h[j] \in Int
      OBVIOUS
    <2>2. ~ (i < j) /\ ~ (j < i)
      BY <2>1
    <2> QED BY <2>2
  <1>2. PICK N \in Nat : N = n
    OBVIOUS
  <1> DEFINE S == 1..N
  <1>3. IsFiniteSet(S) /\ Cardinality(S) = N
    BY FS_Interval
  <1>4. \A i \in 1..m : h[i] \in S
    BY <1>2
  <1> HIDE DEF S
  <1>5. m <= Cardinality(S)
    BY <1>1, <1>3, <1>4, Crowded
  <1> QED BY <1>2, <1>3, <1>5

\* Between two multiples of d that are q apart there are q - 1 others.
LEMMA SuccDiv ==
    ASSUME NEW q \in Nat \ {0}, NEW d \in Nat \ {0}
    PROVE  (q * d - 1) \div d = q - 1
  <1>1. PICK p \in Nat : q = p + 1
    <2>1. q - 1 \in Nat /\ q = (q - 1) + 1
      OBVIOUS
    <2> QED BY <2>1
  <1>2. p * d \in Int /\ q * d = p * d + d
    BY <1>1
  <1>3. q * d - 1 = d * p + (d - 1) /\ d - 1 \in 0..(d - 1)
    BY <1>2
  <1>4. (d * p + (d - 1)) \div d = p
    OBVIOUS
  <1> QED BY <1>1, <1>3, <1>4

LEMMA LargerOf ==
    ASSUME NEW x \in Int
    PROVE  Max({0, x}) = IF x > 0 THEN x ELSE 0
  <1>1. \E m \in {0, x} : \A y \in {0, x} : m >= y
    <2>1. CASE x > 0
      BY <2>1
    <2>2. CASE ~ x > 0
      BY <2>2
    <2> QED BY <2>1, <2>2
  <1>2. Max({0, x}) \in {0, x} /\ \A y \in {0, x} : Max({0, x}) >= y
    BY <1>1, Zenon DEF Max
  <1> QED BY <1>2

\* Candle i with the flat ones behind it, j of them before.
Held(c, j, d) == IF j = 0 THEN c ELSE [time |-> c.time + j * d, close |-> c.close, gap |-> TRUE, of |-> c.of]

Filling(s, d) == [i \in 1..Len(s) |-> <<s[i]>> \o Flats(s, i, d)]

LEMMA Flattened ==
    ASSUME NEW c \in Bars, NEW g
    PROVE  [c EXCEPT !.gap = g] = [time |-> c.time, close |-> c.close, gap |-> g, of |-> c.of]
  BY DEF Bars

\* The bars put into a gap: as many as the steps it skips, each held at the bar before.
LEMMA FlatsAre ==
    ASSUME NEW s \in Seq(Bars), NEW i \in 1..Len(s), NEW d \in Nat \ {0}
    PROVE  /\ Flats(s, i, d) \in Seq(Bars) /\ Len(Flats(s, i, d)) \in Nat
           /\ \A j \in 1..Len(Flats(s, i, d)) : Flats(s, i, d)[j] = Held(s[i], j, d)
           /\ i = Len(s) => Len(Flats(s, i, d)) = 0
           /\ i < Len(s) /\ s[i].time # NoTime =>
                 Len(Flats(s, i, d)) = Max({0, (s[i + 1].time - s[i].time - 1) \div d})
  <1> DEFINE c == s[i]
  <1>1. c \in Bars /\ c.time \in Int /\ c.close \in Nat /\ c.of \in Pairs
    <2>1. c \in Bars
      OBVIOUS
    <2> HIDE DEF c
    <2> QED BY <2>1 DEF Bars
  <1>2. CASE i = Len(s) \/ s[i].time = NoTime
    <2>1. Flats(s, i, d) = <<>>
      BY <1>2 DEF Flats
    <2> QED BY <1>2, <2>1
  <1>3. CASE i # Len(s) /\ s[i].time # NoTime
    <2> DEFINE x == (s[i + 1].time - s[i].time - 1) \div d
    <2>0. i + 1 \in 1..Len(s) /\ s[i + 1] \in Bars
      BY <1>3
    <2>1. x \in Int
      <3>1. s[i + 1].time \in Int
        BY <2>0 DEF Bars
      <3>2. (s[i + 1].time - s[i].time - 1) \in Int
        BY <1>1, <3>1
      <3> DEFINE y == s[i + 1].time - s[i].time - 1
      <3>3. y \in Int
        BY <3>2
      <3> HIDE DEF y
      <3>4. y \div d \in Int
        BY <3>3
      <3> QED BY <3>4 DEF y
    <2> HIDE DEF x
    <2>2. PICK K \in Nat : K = Max({0, x})
      BY <2>1, LargerOf
    <2>3. Flats(s, i, d) = [k \in 1..K |-> [c EXCEPT !.time = @ + k * d, !.gap = TRUE]]
      BY <1>3, <2>2 DEF Flats, x
    <2>4. ASSUME NEW k \in 1..K
          PROVE  /\ [c EXCEPT !.time = @ + k * d, !.gap = TRUE] = Held(c, k, d)
                 /\ Held(c, k, d) \in Bars
      <3>1. c = [time |-> c.time, close |-> c.close, gap |-> c.gap, of |-> c.of]
        BY <1>1 DEF Bars
      <3>2. k * d \in Int /\ k # 0
        OBVIOUS
      <3> HIDE DEF c
      <3>3. [c EXCEPT !.time = @ + k * d, !.gap = TRUE] = Held(c, k, d)
        <4> DEFINE w == k * d
        <4>1. w \in Int
          BY <3>2
        <4> HIDE DEF w
        <4>2. [c EXCEPT !.time = @ + w, !.gap = TRUE]
                 = [time |-> c.time + w, close |-> c.close, gap |-> TRUE, of |-> c.of]
          <5> DEFINE v == c.time + w  b == [c EXCEPT !.time = v]
          <5>1. [c EXCEPT !.time = @ + w, !.gap = TRUE] = [b EXCEPT !.gap = TRUE]
            OBVIOUS
          <5>2. v \in Int
            BY <1>1, <4>1
          <5>3. c \in Bars
            BY <1>1
          <5> HIDE DEF v
          <5>4. b \in Bars /\ b.time = v /\ b.close = c.close /\ b.of = c.of
            BY <5>2, <5>3 DEF Bars
          <5> HIDE DEF b
          <5>5. [b EXCEPT !.gap = TRUE] = [time |-> b.time, close |-> b.close, gap |-> TRUE, of |-> b.of]
            BY <5>4, Flattened
          <5> QED BY <5>1, <5>4, <5>5 DEF v
        <4>3. Held(c, k, d) = [time |-> c.time + w, close |-> c.close, gap |-> TRUE, of |-> c.of]
          BY <3>2 DEF Held, w
        <4> QED BY <4>2, <4>3 DEF w
      <3>4. c.time + k * d \in Int
        BY <1>1, <3>2
      <3>5. Held(c, k, d) \in Bars
        BY <1>1, <3>2, <3>4 DEF Held, Bars
      <3> QED BY <3>3, <3>5
    <2> DEFINE F == [k \in 1..K |-> Held(c, k, d)]
    <2>5. Flats(s, i, d) = F
      <3> HIDE DEF c
      <3> QED BY <2>3, <2>4
    <2>6. F \in [1..K -> Bars] /\ \A k \in 1..K : F[k] = Held(c, k, d)
      <3> HIDE DEF c
      <3> QED BY <2>4
    <2> HIDE DEF F, c
    <2>7. F \in Seq(Bars) /\ Len(F) = K
      BY <2>6
    <2> QED BY <1>3, <2>2, <2>5, <2>6, <2>7 DEF c, x
  <1> QED BY <1>2, <1>3

\* A piece is a candle with the flat ones that hold it.
LEMMA PieceIs ==
    ASSUME NEW s \in Seq(Bars), NEW i \in 1..Len(s), NEW d \in Nat \ {0}
    PROVE  \E K \in Nat : /\ Filling(s, d)[i] \in Seq(Bars) /\ Len(Filling(s, d)[i]) = K + 1
                          /\ \A j \in 1..K + 1 : Filling(s, d)[i][j] = Held(s[i], j - 1, d)
                          /\ i = Len(s) => K = 0
                          /\ i < Len(s) /\ s[i].time # NoTime =>
                                K = Max({0, (s[i + 1].time - s[i].time - 1) \div d})
  <1> DEFINE q == Flats(s, i, d)  p == <<s[i]>> \o q  K == Len(q)
  <1>1. Filling(s, d)[i] = p
    BY DEF Filling
  <1>2. /\ q \in Seq(Bars) /\ K \in Nat
        /\ \A j \in 1..K : q[j] = Held(s[i], j, d)
        /\ i = Len(s) => K = 0
        /\ i < Len(s) /\ s[i].time # NoTime =>
                 K = Max({0, (s[i + 1].time - s[i].time - 1) \div d})
    <2> HIDE DEF q
    <2>1. /\ q \in Seq(Bars) /\ Len(q) \in Nat
          /\ \A j \in 1..Len(q) : q[j] = Held(s[i], j, d)
          /\ i = Len(s) => Len(q) = 0
          /\ i < Len(s) /\ s[i].time # NoTime =>
                 Len(q) = Max({0, (s[i + 1].time - s[i].time - 1) \div d})
      BY FlatsAre DEF q
    <2> QED BY <2>1
  <1>3. s[i] \in Bars
    OBVIOUS
  <1> HIDE DEF q
  <1>4. p \in Seq(Bars) /\ Len(p) = K + 1 /\ p[1] = s[i] /\ \A j \in 1..K : p[j + 1] = q[j]
    BY <1>2, <1>3
  <1>5. ASSUME NEW j \in 1..K + 1 PROVE p[j] = Held(s[i], j - 1, d)
    <2>1. CASE j = 1
      BY <1>4, <2>1 DEF Held
    <2>2. CASE j # 1
      <3>1. PICK k \in 1..K : j = k + 1
        <4>1. j - 1 \in 1..K /\ j = (j - 1) + 1
          BY <1>2, <2>2
        <4> QED BY <4>1
      <3>2. p[j] = Held(s[i], k, d) /\ j - 1 = k
        <4> HIDE DEF p, K
        <4>1. p[k + 1] = q[k] /\ q[k] = Held(s[i], k, d)
          BY <1>2, <1>4, <3>1
        <4>2. j - 1 = k
          BY <1>2, <3>1
        <4> QED BY <3>1, <4>1, <4>2
      <3> QED BY <3>2
    <2> QED BY <2>1, <2>2
  <1> HIDE DEF p, K
  <1> QED BY <1>1, <1>2, <1>4, <1>5

\* A gap holds the close before it.
GapsFlat(e) == \A j \in 1..Len(e) : e[j].gap => j > 1 /\ e[j].close = e[j - 1].close

\* e is what the first i candles of s are filled to: each of e stems from one of
\* them, and one that is no gap from a later one than those before it.
FilledTo(e, s, i) ==
    /\ e \in Seq(Bars)
    /\ i > 0 => Len(e) > 0 /\ e[Len(e)].close = s[i].close
    /\ i > 0 /\ i = Len(s) => e[Len(e)] = s[i]
    /\ GapsFlat(s) => GapsFlat(e)
    /\ \E o \in [1..Len(e) -> 1..i] :
          /\ \A a \in 1..Len(e) : e[a].of = s[o[a]].of
          /\ \A a, b \in 1..Len(e) : a < b /\ ~e[b].gap => o[a] < o[b]

\* The filled series grows by a bar and the flat ones behind it,
LEMMA FilledMore ==
    ASSUME NEW s \in Seq(Bars), NEW d \in Nat \ {0}, NEW n \in Nat, n = Len(s), NEW i \in 0..(n - 1),
           NEW e, FilledTo(e, s, i)
    PROVE  FilledTo(e \o Filling(s, d)[i + 1], s, i + 1)
  <1>1. i \in Nat /\ i + 1 \in 1..n /\ i + 1 \in 1..Len(s)
    OBVIOUS
  <1> DEFINE p == Filling(s, d)[i + 1]  c == s[i + 1]  q == e \o p
  <1>2. PICK K \in Nat : /\ p \in Seq(Bars) /\ Len(p) = K + 1
                         /\ \A j \in 1..K + 1 : p[j] = Held(c, j - 1, d)
                         /\ i + 1 = Len(s) => K = 0
    <2> HIDE DEF p, c
    <2>1. PICK k \in 1..Len(s) : k = i + 1
      BY <1>1
    <2>2. \E K \in Nat : /\ Filling(s, d)[k] \in Seq(Bars) /\ Len(Filling(s, d)[k]) = K + 1
                         /\ \A j \in 1..K + 1 : Filling(s, d)[k][j] = Held(s[k], j - 1, d)
                         /\ k = Len(s) => K = 0
                         /\ k < Len(s) /\ s[k].time # NoTime =>
                                K = Max({0, (s[k + 1].time - s[k].time - 1) \div d})
      BY PieceIs
    <2> QED BY <2>1, <2>2 DEF p, c
  <1> HIDE DEF p
  <1>3. PICK L \in Nat : L = Len(e) /\ e \in Seq(Bars)
    BY DEF FilledTo
  <1>4. /\ q \in Seq(Bars) /\ Len(q) = L + K + 1
        /\ \A j \in 1..L : q[j] = e[j]
        /\ \A j \in 1..K + 1 : q[L + j] = Held(c, j - 1, d)
    <2>1. /\ q \in Seq(Bars) /\ Len(q) = Len(e) + Len(p)
          /\ \A j \in 1..Len(e) : q[j] = e[j]
          /\ \A j \in 1..Len(p) : q[Len(e) + j] = p[j]
      <3>1. e \in Seq(Bars) /\ p \in Seq(Bars)
        BY <1>2, <1>3
      <3> HIDE DEF c
      <3> QED BY <3>1, CatElements, SMTT(30)
    <2> HIDE DEF q, c
    <2>2. Len(q) = L + (K + 1) /\ \A j \in 1..K + 1 : q[L + j] = p[j]
      BY <1>2, <1>3, <2>1
    <2>3. \A j \in 1..L : q[j] = e[j]
      BY <1>3, <2>1
    <2>4. L + (K + 1) = L + K + 1
      OBVIOUS
    <2> QED BY <1>2, <2>1, <2>2, <2>3, <2>4
  <1> HIDE DEF q
  <1>5. c \in Bars /\ \A j \in Nat : /\ Held(c, j, d).close = c.close /\ Held(c, j, d).of = c.of
                                     /\ j # 0 => Held(c, j, d).gap
    <2>1. c \in Bars
      BY <1>1
    <2> HIDE DEF c
    <2>2. ASSUME NEW j \in Nat
          PROVE  /\ Held(c, j, d).close = c.close /\ Held(c, j, d).of = c.of
                 /\ j # 0 => Held(c, j, d).gap
      BY <2>1 DEF Held, Bars
    <2> QED BY <2>1, <2>2
  <1>6. \A j \in 1..L + K + 1 : j \in 1..L \/ \E k \in 1..K + 1 : j = L + k
    <2> SUFFICES ASSUME NEW j \in 1..L + K + 1, j \notin 1..L PROVE \E k \in 1..K + 1 : j = L + k
      OBVIOUS
    <2>1. j - L \in 1..K + 1 /\ j = L + (j - L)
      OBVIOUS
    <2> QED BY <2>1
  <1>7. Held(c, 0, d) = c
    BY DEF Held
  <1> HIDE DEF c
  <1>8. q[L + K + 1].close = c.close /\ L + K + 1 > 0 /\ (i + 1 = Len(s) => q[L + K + 1] = c)
    <2>1. K + 1 \in 1..K + 1 /\ (K + 1) - 1 = K /\ L + (K + 1) = L + K + 1
      OBVIOUS
    <2>2. q[L + (K + 1)] = Held(c, K, d)
      BY <1>4, <2>1
    <2>3. L + K + 1 > 0
      OBVIOUS
    <2> QED BY <1>2, <1>5, <1>7, <2>1, <2>2, <2>3
  <1>9. ASSUME GapsFlat(s) PROVE GapsFlat(q)
    <2>1. GapsFlat(e)
      BY <1>9 DEF FilledTo
    <2> SUFFICES ASSUME NEW j \in 1..L + K + 1, q[j].gap PROVE j > 1 /\ q[j].close = q[j - 1].close
      BY <1>4 DEF GapsFlat
    <2>2. CASE j \in 1..L
      <3>1. e[j].gap
        BY <1>4, <2>2
      <3>2. j > 1 /\ e[j].close = e[j - 1].close
        BY <1>3, <2>1, <2>2, <3>1 DEF GapsFlat
      <3>3. j - 1 \in 1..L
        BY <2>2, <3>2
      <3> QED BY <1>4, <2>2, <3>2, <3>3
    <2>3. CASE j = L + 1
      <3>1. q[j] = c
        <4>1. 1 \in 1..K + 1 /\ 1 - 1 = 0
          OBVIOUS
        <4>2. q[L + 1] = Held(c, 0, d)
          BY <1>4, <4>1
        <4> QED BY <1>7, <2>3, <4>2
      <3>2. i + 1 > 1 /\ c.close = s[(i + 1) - 1].close
        BY <1>1, <1>9, <3>1 DEF GapsFlat, c
      <3>3. i > 0 /\ (i + 1) - 1 = i
        BY <1>1, <3>2
      <3>4. L > 0 /\ e[L].close = s[i].close
        BY <1>3, <3>3 DEF FilledTo
      <3>5. j > 1 /\ j - 1 = L /\ L \in 1..L
        BY <2>3, <3>4
      <3> QED BY <1>4, <3>1, <3>2, <3>3, <3>4, <3>5
    <2>4. CASE \E k \in 1..K + 1 : j = L + k /\ k # 1
      <3>1. PICK k \in 1..K + 1 : j = L + k /\ k # 1
        BY <2>4
      <3>2. k - 1 \in 1..K + 1 /\ k - 1 \in Nat /\ (k - 1) - 1 \in Nat /\ j - 1 = L + (k - 1) /\ j > 1
        BY <3>1
      <3>3. q[j] = Held(c, k - 1, d) /\ q[j - 1] = Held(c, (k - 1) - 1, d)
        BY <1>4, <3>1, <3>2
      <3> QED BY <1>5, <3>2, <3>3
    <2> QED BY <1>6, <2>2, <2>3, <2>4
  <1>10. \E o \in [1..Len(q) -> 1..i + 1] :
             /\ \A a \in 1..Len(q) : q[a].of = s[o[a]].of
             /\ \A a, b \in 1..Len(q) : a < b /\ ~q[b].gap => o[a] < o[b]
    <2>1. PICK o \in [1..L -> 1..i] :
             /\ \A a \in 1..L : e[a].of = s[o[a]].of
             /\ \A a, b \in 1..L : a < b /\ ~e[b].gap => o[a] < o[b]
      BY <1>3 DEF FilledTo
    <2> DEFINE g == [a \in 1..L + K + 1 |-> IF a <= L THEN o[a] ELSE i + 1]
    <2>2. \A a \in 1..L : g[a] = o[a] /\ o[a] \in 1..i /\ a \in 1..L + K + 1
      OBVIOUS
    <2>3. \A k \in 1..K + 1 : g[L + k] = i + 1
      <3>1. \A k \in 1..K + 1 : L + k \in 1..L + K + 1 /\ ~ (L + k <= L)
        OBVIOUS
      <3> QED BY <3>1
    <2>4. g \in [1..L + K + 1 -> 1..i + 1]
      <3>1. 1..i \subseteq 1..i + 1 /\ i + 1 \in 1..i + 1
        BY <1>1
      <3>2. \A a \in 1..L + K + 1 : (IF a <= L THEN o[a] ELSE i + 1) \in 1..i + 1
        <4>1. \A a \in 1..L + K + 1 : a <= L => a \in 1..L
          OBVIOUS
        <4> QED BY <2>1, <3>1, <4>1
      <3> QED BY <3>2
    <2> HIDE DEF g
    <2>5. ASSUME NEW a \in 1..L + K + 1 PROVE q[a].of = s[g[a]].of
      <3>1. CASE a \in 1..L
        BY <1>4, <2>1, <2>2, <3>1
      <3>2. CASE \E k \in 1..K + 1 : a = L + k
        <4>1. PICK k \in 1..K + 1 : a = L + k
          BY <3>2
        <4>2. k - 1 \in Nat
          OBVIOUS
        <4>3. q[a] = Held(c, k - 1, d) /\ g[a] = i + 1
          BY <1>4, <2>3, <4>1
        <4> QED BY <1>5, <4>2, <4>3 DEF c
      <3> QED BY <1>6, <3>1, <3>2
    <2>6. ASSUME NEW a \in 1..L + K + 1, NEW b \in 1..L + K + 1, a < b, ~q[b].gap PROVE g[a] < g[b]
      <3>1. CASE b \in 1..L
        <4>1. a \in 1..L
          BY <2>6, <3>1
        <4>2. ~e[b].gap
          BY <1>4, <2>6, <3>1
        <4>3. o[a] < o[b]
          BY <2>1, <2>6, <3>1, <4>1, <4>2
        <4> QED BY <2>2, <3>1, <4>1, <4>3
      <3>2. CASE \E k \in 1..K + 1 : b = L + k
        <4>1. PICK k \in 1..K + 1 : b = L + k
          BY <3>2
        <4>2. k = 1
          <5> SUFFICES ASSUME k # 1 PROVE FALSE
            OBVIOUS
          <5>1. k - 1 \in Nat /\ k - 1 # 0
            OBVIOUS
          <5>2. q[b] = Held(c, k - 1, d)
            BY <1>4, <4>1
          <5> QED BY <1>5, <2>6, <5>1, <5>2
        <4>3. a \in 1..L
          BY <2>6, <4>1, <4>2
        <4>4. g[a] \in 1..i /\ g[b] = i + 1
          BY <2>2, <2>3, <4>1, <4>3
        <4> QED BY <1>1, <4>4
      <3> QED BY <1>6, <3>1, <3>2
    <2> QED BY <1>4, <2>4, <2>5, <2>6
  <1>11. (i + 1) > 0 => Len(q) > 0 /\ q[Len(q)].close = s[i + 1].close
    BY <1>4, <1>8 DEF c
  <1>12. (i + 1) > 0 /\ i + 1 = Len(s) => q[Len(q)] = s[i + 1]
    BY <1>4, <1>8 DEF c
  <1>13. FilledTo(q, s, i + 1)
    BY <1>4, <1>9, <1>10, <1>11, <1>12 DEF FilledTo
  <1> QED BY <1>13 DEF q, p

\* piece by piece,
LEMMA FillingIs ==
    ASSUME NEW s \in Seq(Bars), NEW d \in Nat \ {0}
    PROVE  /\ FillGaps(s, d) = FlattenSeq(Filling(s, d))
           /\ Filling(s, d) \in Seq(Seq(Bars)) /\ Len(Filling(s, d)) = Len(s)
  <1>1. FillGaps(s, d) = FlattenSeq(Filling(s, d))
    BY Zenon DEF FillGaps, Filling
  <1>2. PICK n \in Nat : n = Len(s)
    OBVIOUS
  <1>3. \A i \in 1..n : Filling(s, d)[i] \in Seq(Bars)
    BY <1>2, PieceIs
  <1>4. Filling(s, d) = [i \in 1..n |-> Filling(s, d)[i]]
    BY <1>2 DEF Filling
  <1>5. Filling(s, d) \in [1..n -> Seq(Bars)]
    BY <1>3, <1>4
  <1>6. Filling(s, d) \in Seq(Seq(Bars)) /\ Len(Filling(s, d)) = n
    BY <1>5
  <1> QED BY <1>1, <1>2, <1>6

\* to the whole.
LEMMA Fills ==
    ASSUME NEW s \in Seq(Bars), NEW d \in Nat \ {0}
    PROVE  FilledTo(FillGaps(s, d), s, Len(s))
  <1>1. PICK n \in Nat : n = Len(s)
    OBVIOUS
  <1> DEFINE pieces == Filling(s, d)
  <1>2. FillGaps(s, d) = FlattenSeq(pieces) /\ pieces \in Seq(Seq(Bars)) /\ Len(pieces) = n
    BY <1>1, FillingIs
  <1>3. FilledTo(<<>>, s, 0)
    <2>1. <<>> \in Seq(Bars) /\ Len(<<>>) = 0 /\ \A a \in 1..0 : FALSE
      OBVIOUS
    <2> DEFINE none == [a \in 1..0 |-> 0]
    <2>2. none \in [1..0 -> 1..0]
      BY <2>1
    <2> HIDE DEF none
    <2>3. GapsFlat(<<>>)
      BY <2>1 DEF GapsFlat
    <2>4. \E o \in [1..Len(<<>>) -> 1..0] :
             /\ \A a \in 1..Len(<<>>) : <<>>[a].of = s[o[a]].of
             /\ \A a, b \in 1..Len(<<>>) : a < b /\ ~<<>>[b].gap => o[a] < o[b]
      BY <2>1, <2>2
    <2>5. ~ (0 > 0)
      OBVIOUS
    <2> QED BY <2>1, <2>3, <2>4, <2>5, Zenon DEF FilledTo
  <1>4. CASE n = 0
    <2>1. pieces = <<>>
      BY <1>2, <1>4
    <2> HIDE DEF pieces
    <2>2. FillGaps(s, d) = <<>>
      BY <1>2, <2>1, FlattenNothing
    <2> QED BY <1>1, <1>3, <1>4, <2>2
  <1>5. CASE n # 0
    <2> DEFINE G == {p \in Seq(Bars) \X Nat : FilledTo(p[1], s, p[2])}
    <2>1. <<pieces[1], 1>> \in G
      <3>1. 0 \in 0..(n - 1) /\ 0 + 1 = 1
        BY <1>5
      <3>2. FilledTo(<<>> \o pieces[0 + 1], s, 0 + 1)
        BY <1>1, <1>3, <3>1, FilledMore
      <3>3. <<>> \o pieces[1] = pieces[1] /\ pieces[1] \in Seq(Bars)
        <4> HIDE DEF pieces
        <4>1. pieces[1] \in Seq(Bars)
          BY <1>2, <1>5
        <4> QED BY <4>1
      <3> HIDE DEF pieces
      <3> QED BY <3>1, <3>2, <3>3
    <2>2. ASSUME NEW e \in Seq(Bars), NEW i \in 1..(n - 1), <<e, i>> \in G
          PROVE  <<e \o pieces[i + 1], i + 1>> \in G
      <3>1. i \in 0..(n - 1) /\ i + 1 \in 1..n /\ i + 1 \in Nat
        OBVIOUS
      <3>2. FilledTo(e, s, i)
        BY <2>2
      <3>3. FilledTo(e \o pieces[i + 1], s, i + 1)
        BY <1>1, <3>1, <3>2, FilledMore
      <3>4. e \o pieces[i + 1] \in Seq(Bars)
        BY <3>3 DEF FilledTo
      <3> HIDE DEF pieces
      <3> QED BY <3>1, <3>3, <3>4
    <2> HIDE DEF pieces, G
    <2>3. <<FlattenSeq(pieces), n>> \in G
      BY <1>2, <1>5, <2>1, <2>2, FlattenInduct
    <2>4. FilledTo(FlattenSeq(pieces), s, n)
      BY <2>3 DEF G
    <2> QED BY <1>1, <1>2, <2>4
  <1> QED BY <1>4, <1>5

\* Candles one after the other, and apart, at multiples of d.
Level(e, m, d) == \A j \in 1..Len(e) : e[j].time = (m + j) * d
Spaced(s, w, d) ==
    /\ w \in [1..Len(s) -> Nat \ {0}]
    /\ \A i, j \in 1..Len(s) : i < j => w[i] < w[j]
    /\ \A i \in 1..Len(s) : s[i].time = w[i] * d

\* Products distribute.
LEMMA Multiples == \A a, b, d \in Int : (a + b) * d = a * d + b * d /\ (a - b) * d = a * d - b * d
  OBVIOUS

LeveledPiece(s, w, i, d) ==
    \E K \in Nat : /\ Filling(s, d)[i] \in Seq(Bars) /\ Len(Filling(s, d)[i]) = K + 1
                   /\ \A j \in 1..K + 1 : Filling(s, d)[i][j].time = (w[i] + (j - 1)) * d
                   /\ i < Len(s) => w[i] + K + 1 = w[i + 1]

\* A bar and the flat ones behind it climb by the step and reach the next bar,
LEMMA PieceLevel ==
    ASSUME NEW s \in Seq(Bars), NEW d \in Nat \ {0}, NEW n \in Nat, n = Len(s), NEW i \in 1..n,
           NEW w, Spaced(s, w, d)
    PROVE  LeveledPiece(s, w, i, d)
  <1>1. PICK K \in Nat : /\ Filling(s, d)[i] \in Seq(Bars) /\ Len(Filling(s, d)[i]) = K + 1
                         /\ \A j \in 1..K + 1 : Filling(s, d)[i][j] = Held(s[i], j - 1, d)
                         /\ i = Len(s) => K = 0
                         /\ i < Len(s) /\ s[i].time # NoTime =>
                                K = Max({0, (s[i + 1].time - s[i].time - 1) \div d})
    BY PieceIs
  <1> DEFINE p == Filling(s, d)[i]  c == s[i]
  <1>2. c \in Bars /\ w[i] \in Nat \ {0} /\ c.time = w[i] * d
    BY DEF Spaced
  <1>3. PICK u \in Nat \ {0} : u = w[i]
    BY <1>2
  <1> HIDE DEF p, c
  <1>4. u * d \in Int /\ c.time = u * d /\ u * d # NoTime
    <2>1. u * d \in Nat
      OBVIOUS
    <2> QED BY <1>2, <1>3, <2>1 DEF NoTime
  <1>5. ASSUME NEW j \in 1..K + 1 PROVE p[j].time = (u + (j - 1)) * d
    <2>1. PICK k \in Nat : k = j - 1
      OBVIOUS
    <2>2. Held(c, k, d).time = u * d + k * d
      <3>1. CASE k = 0
        <4>1. k * d = 0
          BY <3>1
        <4> QED BY <1>4, <3>1, <4>1 DEF Held
      <3>2. CASE k # 0
        <4> DEFINE kd == k * d  ud == u * d
        <4>1. Held(c, k, d).time = c.time + kd
          <5> HIDE DEF kd
          <5>1. Held(c, k, d) = [time |-> c.time + k * d, close |-> c.close, gap |-> TRUE, of |-> c.of]
            BY <3>2 DEF Held
          <5> QED BY <5>1 DEF kd
        <4> QED BY <1>4, <4>1
      <3> QED BY <3>1, <3>2
    <2>3. u * d + k * d = (u + k) * d
      BY Multiples
    <2>4. p[j] = Held(c, j - 1, d)
      BY <1>1 DEF p, c
    <2> QED BY <2>1, <2>2, <2>3, <2>4
  <1>6. ASSUME i < n PROVE w[i] + K + 1 = w[i + 1]
    <2>1. i + 1 \in 1..n /\ i < i + 1
      BY <1>6
    <2>2. w[i + 1] \in Nat \ {0} /\ w[i] < w[i + 1] /\ s[i + 1].time = w[i + 1] * d
      BY <2>1 DEF Spaced
    <2>3. PICK v \in Nat \ {0} : v = w[i + 1]
      BY <2>2
    <2>4. PICK q \in Nat \ {0} : v = u + q
      <3>1. u < v
        BY ONLY <1>3, <2>2, <2>3, Zenon
      <3>2. PICK a \in Nat : a = u
        BY <1>3
      <3>3. v - a \in Nat \ {0} /\ v = a + (v - a)
        BY ONLY <2>3, <3>1, <3>2
      <3> QED BY ONLY <3>2, <3>3, Zenon
    <2>5. s[i + 1].time - s[i].time - 1 = q * d - 1
      <3>1. v * d = u * d + q * d /\ u * d \in Int /\ q * d \in Int
        BY <2>4, Multiples
      <3>2. s[i + 1].time = v * d /\ s[i].time = u * d
        BY <1>4, <2>2, <2>3 DEF c
      <3> DEFINE vd == v * d  ud == u * d  qd == q * d
      <3>3. vd = ud + qd /\ ud \in Int /\ qd \in Int /\ s[i + 1].time = vd /\ s[i].time = ud
        BY <3>1, <3>2
      <3> HIDE DEF vd, ud, qd
      <3>4. s[i + 1].time - s[i].time - 1 = qd - 1
        BY <3>3
      <3> QED BY <3>4 DEF qd
    <2>6. (s[i + 1].time - s[i].time - 1) \div d = q - 1
      BY <2>5, SuccDiv
    <2>7. q - 1 \in Nat /\ Max({0, q - 1}) = q - 1
      <3>1. q - 1 \in Int
        OBVIOUS
      <3>2. Max({0, q - 1}) = IF q - 1 > 0 THEN q - 1 ELSE 0
        BY <3>1, LargerOf
      <3> QED BY <3>2
    <2>8. s[i].time # NoTime /\ i < Len(s)
      BY <1>4, <1>6 DEF c
    <2>9. K = q - 1
      BY <1>1, <2>6, <2>7, <2>8
    <2> QED BY <1>3, <2>3, <2>4, <2>9
  <1>7. \A j \in 1..K + 1 : Filling(s, d)[i][j].time = (w[i] + (j - 1)) * d
    BY <1>3, <1>5 DEF p
  <1> QED BY <1>1, <1>6, <1>7 DEF LeveledPiece

Leveled(e, s, w, i, d) ==
    /\ e \in Seq(Bars) /\ Level(e, w[1] - 1, d)
    /\ i < Len(s) => w[1] + Len(e) = w[i + 1]

\* and so does what they are appended to.
LEMMA LevelMore ==
    ASSUME NEW s \in Seq(Bars), NEW d \in Nat \ {0}, NEW n \in Nat, n = Len(s), NEW i \in 0..(n - 1),
           NEW w, Spaced(s, w, d), NEW e, Leveled(e, s, w, i, d)
    PROVE  Leveled(e \o Filling(s, d)[i + 1], s, w, i + 1, d)
  <1> DEFINE p == Filling(s, d)[i + 1]  q == e \o p
  <1>1. i \in Nat /\ i + 1 \in 1..n /\ 1 \in 1..n /\ i < n
    OBVIOUS
  <1>2. PICK u \in Nat \ {0} : u = w[1]
    BY <1>1 DEF Spaced
  <1>3. PICK v \in Nat \ {0} : v = w[i + 1]
    BY <1>1 DEF Spaced
  <1>4. PICK L \in Nat : L = Len(e) /\ e \in Seq(Bars) /\ u + L = v /\ \A j \in 1..L : e[j].time = ((u - 1) + j) * d
    BY <1>1, <1>2, <1>3 DEF Leveled, Level
  <1>5. PICK K \in Nat : /\ p \in Seq(Bars) /\ Len(p) = K + 1
                         /\ \A j \in 1..K + 1 : p[j].time = (v + (j - 1)) * d
                         /\ i + 1 < n => v + K + 1 = w[(i + 1) + 1]
    <2> HIDE DEF p
    <2>1. PICK k \in 1..n : k = i + 1
      BY <1>1
    <2>2. LeveledPiece(s, w, k, d)
      BY PieceLevel
    <2> QED BY <1>3, <2>1, <2>2 DEF p, LeveledPiece
  <1> HIDE DEF p
  <1>6. /\ q \in Seq(Bars) /\ Len(q) = L + K + 1
        /\ \A j \in 1..L : q[j] = e[j]
        /\ \A j \in 1..K + 1 : q[L + j] = p[j]
    <2>1. /\ q \in Seq(Bars) /\ Len(q) = Len(e) + Len(p)
          /\ \A j \in 1..Len(e) : q[j] = e[j]
          /\ \A j \in 1..Len(p) : q[Len(e) + j] = p[j]
      <3>1. e \in Seq(Bars) /\ p \in Seq(Bars)
        BY <1>4, <1>5
      <3> QED BY <3>1, CatElements
    <2> HIDE DEF q
    <2>2. Len(q) = L + (K + 1) /\ \A j \in 1..K + 1 : q[L + j] = p[j]
      BY <1>4, <1>5, <2>1
    <2>3. \A j \in 1..L : q[j] = e[j]
      BY <1>4, <2>1
    <2>4. L + (K + 1) = L + K + 1
      OBVIOUS
    <2> QED BY <2>1, <2>2, <2>3, <2>4
  <1> HIDE DEF q
  <1>7. ASSUME NEW j \in 1..L + K + 1 PROVE q[j].time = ((u - 1) + j) * d
    <2>1. CASE j \in 1..L
      BY <1>4, <1>6, <2>1
    <2>2. CASE j \notin 1..L
      <3>1. PICK k \in 1..K + 1 : j = L + k
        <4>1. j - L \in 1..K + 1 /\ j = L + (j - L)
          BY <2>2
        <4> QED BY <4>1
      <3>2. q[j].time = (v + (k - 1)) * d
        BY <1>5, <1>6, <3>1
      <3>3. v + (k - 1) = (u - 1) + j
        <4>1. u + L = v
          BY <1>4
        <4>2. k \in Int /\ j = L + k
          BY <3>1
        <4> QED BY <4>1, <4>2
      <3> QED BY <3>2, <3>3
    <2> QED BY <2>1, <2>2
  <1>8. Level(q, w[1] - 1, d)
    BY <1>2, <1>6, <1>7 DEF Level
  <1>9. i + 1 < n => w[1] + Len(q) = w[(i + 1) + 1]
    <2>1. u + (L + K + 1) = v + K + 1
      BY <1>4
    <2> QED BY <1>2, <1>5, <1>6, <2>1
  <1>10. Leveled(q, s, w, i + 1, d)
    BY <1>6, <1>8, <1>9 DEF Leveled
  <1> QED BY <1>10 DEF q, p

\* Apart at multiples of d, candles are filled to one at each multiple.
LEMMA FillsLevel ==
    ASSUME NEW s \in Seq(Bars), NEW d \in Nat \ {0}, NEW w, Spaced(s, w, d)
    PROVE  \E m \in Nat : Level(FillGaps(s, d), m, d)
  <1>1. PICK n \in Nat : n = Len(s)
    OBVIOUS
  <1> DEFINE pieces == Filling(s, d)
  <1>2. FillGaps(s, d) = FlattenSeq(pieces) /\ pieces \in Seq(Seq(Bars)) /\ Len(pieces) = n
    BY <1>1, FillingIs
  <1>4. CASE n = 0
    <2>1. pieces = <<>>
      BY <1>2, <1>4
    <2> HIDE DEF pieces
    <2>2. FillGaps(s, d) = <<>>
      BY <1>2, <2>1, FlattenNothing
    <2>3. Level(<<>>, 0, d) /\ 0 \in Nat
      <3>1. Len(<<>>) = 0 /\ \A a \in 1..0 : FALSE
        OBVIOUS
      <3> QED BY <3>1 DEF Level
    <2> QED BY <2>2, <2>3
  <1>5. CASE n # 0
    <2> DEFINE G == {p \in Seq(Bars) \X Nat : Leveled(p[1], s, w, p[2], d)}
    <2>1. <<pieces[1], 1>> \in G
      <3>1. 0 \in 0..(n - 1) /\ 0 + 1 = 1
        BY <1>5
      <3>0. Leveled(<<>>, s, w, 0, d)
        <4>1. <<>> \in Seq(Bars) /\ Len(<<>>) = 0 /\ \A a \in 1..0 : FALSE
          OBVIOUS
        <4>2. Level(<<>>, w[1] - 1, d)
          BY <4>1 DEF Level
        <4>3. w[1] \in Nat /\ w[1] + 0 = w[0 + 1]
          BY <1>1, <1>5 DEF Spaced
        <4> QED BY <4>1, <4>2, <4>3 DEF Leveled
      <3>2. Leveled(<<>> \o pieces[0 + 1], s, w, 0 + 1, d)
        BY <1>1, <3>0, <3>1, LevelMore
      <3>3. <<>> \o pieces[1] = pieces[1] /\ pieces[1] \in Seq(Bars)
        <4> HIDE DEF pieces
        <4>1. pieces[1] \in Seq(Bars)
          BY <1>2, <1>5
        <4> QED BY <4>1
      <3> HIDE DEF pieces
      <3> QED BY <3>1, <3>2, <3>3
    <2>2. ASSUME NEW e \in Seq(Bars), NEW i \in 1..(n - 1), <<e, i>> \in G
          PROVE  <<e \o pieces[i + 1], i + 1>> \in G
      <3>1. i \in 0..(n - 1) /\ i + 1 \in 1..n /\ i + 1 \in Nat
        OBVIOUS
      <3>2. Leveled(e, s, w, i, d)
        BY <2>2
      <3>3. Leveled(e \o pieces[i + 1], s, w, i + 1, d)
        BY <1>1, <3>1, <3>2, LevelMore
      <3>4. e \o pieces[i + 1] \in Seq(Bars)
        BY <3>3 DEF Leveled
      <3> HIDE DEF pieces
      <3> QED BY <3>1, <3>3, <3>4
    <2> HIDE DEF pieces, G
    <2>3. <<FlattenSeq(pieces), n>> \in G
      BY <1>2, <1>5, <2>1, <2>2, FlattenInduct
    <2>4. Leveled(FlattenSeq(pieces), s, w, n, d)
      BY <2>3 DEF G
    <2>5. PICK u \in Nat \ {0} : u = w[1]
      BY <1>1, <1>5 DEF Spaced
    <2>6. u - 1 \in Nat
      OBVIOUS
    <2> QED BY <1>2, <2>4, <2>5, <2>6 DEF Leveled
  <1> QED BY <1>4, <1>5

\* The bars that are no gaps are picked in their order,
LEMMA RealIs ==
    ASSUME NEW s \in Seq(Bars)
    PROVE  /\ Real(s) \in Seq(Bars) /\ Len(Real(s)) \in Nat /\ Len(Real(s)) <= Len(s)
           /\ \E h : Picked(Real(s), s, Len(s), h) /\ \A i \in 1..Len(Real(s)) : ~s[h[i]].gap
  <1> DEFINE pieces == [i \in DOMAIN s |-> IF s[i].gap THEN <<>> ELSE <<s[i]>>]
  <1>1. Real(s) = FlattenSeq(pieces)
    BY Zenon DEF Real
  <1>2. PICK n \in Nat : n = Len(s) /\ DOMAIN s = 1..n /\ \A i \in 1..n : s[i] \in Bars
    BY SeqElements
  <1>3. ASSUME NEW i \in 1..n
        PROVE  /\ pieces[i] = <<>> \/ pieces[i] = <<s[i]>>
               /\ pieces[i] # <<>> => ~s[i].gap
               /\ pieces[i] \in Seq(Bars)
    <2>1. pieces[i] = IF s[i].gap THEN <<>> ELSE <<s[i]>>
      BY <1>2
    <2>2. <<>> \in Seq(Bars) /\ <<s[i]>> \in Seq(Bars)
      BY <1>2
    <2> HIDE DEF pieces
    <2>3. CASE s[i].gap
      BY <2>1, <2>2, <2>3
    <2>4. CASE ~s[i].gap
      BY <2>1, <2>2, <2>4
    <2> QED BY <2>3, <2>4
  <1>4. pieces \in [1..n -> Seq(Bars)]
    <2>1. pieces = [i \in 1..n |-> pieces[i]]
      BY <1>2
    <2> HIDE DEF pieces
    <2> QED BY <1>3, <2>1
  <1> HIDE DEF pieces
  <1>5. pieces \in Seq(Seq(Bars)) /\ Len(pieces) = Len(s)
    BY <1>2, <1>4
  <1>6. /\ FlattenSeq(pieces) \in Seq(Bars) /\ Len(FlattenSeq(pieces)) \in Nat
        /\ Len(FlattenSeq(pieces)) <= Len(s)
        /\ PickedOf(FlattenSeq(pieces), s, pieces)
    <2>1. \A i \in 1..Len(s) : pieces[i] = <<>> \/ pieces[i] = <<s[i]>>
      BY <1>2, <1>3
    <2> QED BY <1>5, <2>1, Filtering
  <1>7. PICK h : /\ Picked(Real(s), s, n, h)
                 /\ \A i \in 1..Len(Real(s)) : pieces[h[i]] # <<>>
    BY <1>1, <1>2, <1>6 DEF PickedOf
  <1>8. \A i \in 1..Len(Real(s)) : ~s[h[i]].gap
    <2>1. \A i \in 1..Len(Real(s)) : h[i] \in 1..n
      BY <1>7 DEF Picked
    <2> QED BY <1>3, <1>7, <2>1
  <1>9. \E g : Picked(Real(s), s, Len(s), g) /\ \A i \in 1..Len(Real(s)) : ~s[g[i]].gap
    BY <1>2, <1>7, <1>8
  <1> QED BY <1>1, <1>6, <1>9

\* and so are those with a usable time.
LEMMA SanitizeIs ==
    ASSUME NEW s \in Seq(Bars), NEW d \in Nat
    PROVE  /\ Sanitize(s, d) \in Seq(Bars) /\ Len(Sanitize(s, d)) \in Nat /\ Len(Sanitize(s, d)) <= Len(s)
           /\ \E h : /\ Picked(Sanitize(s, d), s, Len(s), h)
                     /\ \A i \in 1..Len(Sanitize(s, d)) : stamped /\ s[h[i]].time > 0
  <1> DEFINE Clean(c) == stamped /\ c.time > 0 /\ c.time <= Clock + d
             pieces == [i \in DOMAIN s |-> IF Clean(s[i]) THEN <<s[i]>> ELSE <<>>]
             r == Sanitize(s, d)
  <1>1. r = FlattenSeq(pieces)
    BY Zenon DEF Sanitize
  <1>2. PICK n \in Nat : n = Len(s) /\ DOMAIN s = 1..n /\ \A i \in 1..n : s[i] \in Bars
    BY SeqElements
  <1>3. ASSUME NEW i \in 1..n
        PROVE  /\ pieces[i] = <<>> \/ pieces[i] = <<s[i]>>
               /\ pieces[i] # <<>> => stamped /\ s[i].time > 0
               /\ pieces[i] \in Seq(Bars)
    <2>1. pieces[i] = IF Clean(s[i]) THEN <<s[i]>> ELSE <<>>
      BY <1>2
    <2>2. <<>> \in Seq(Bars) /\ <<s[i]>> \in Seq(Bars)
      BY <1>2
    <2> HIDE DEF pieces
    <2>3. CASE ~Clean(s[i])
      <3>1. pieces[i] = <<>>
        BY <2>1, <2>3
      <3> QED BY <2>2, <3>1
    <2>4. CASE Clean(s[i])
      <3>1. pieces[i] = <<s[i]>>
        BY <2>1, <2>4
      <3>2. stamped /\ s[i].time > 0
        BY <2>4
      <3> QED BY <2>2, <3>1, <3>2
    <2> QED BY <2>3, <2>4
  <1>4. pieces \in [1..n -> Seq(Bars)]
    <2>1. pieces = [i \in 1..n |-> pieces[i]]
      BY <1>2
    <2> HIDE DEF pieces
    <2> QED BY <1>3, <2>1
  <1> HIDE DEF pieces, Clean, r
  <1>5. pieces \in Seq(Seq(Bars)) /\ Len(pieces) = Len(s)
    BY <1>2, <1>4
  <1>6. /\ FlattenSeq(pieces) \in Seq(Bars) /\ Len(FlattenSeq(pieces)) \in Nat
        /\ Len(FlattenSeq(pieces)) <= Len(s)
        /\ PickedOf(FlattenSeq(pieces), s, pieces)
    <2>1. \A i \in 1..Len(s) : pieces[i] = <<>> \/ pieces[i] = <<s[i]>>
      BY <1>2, <1>3
    <2> QED BY <1>5, <2>1, Filtering
  <1>7. PICK h : /\ Picked(r, s, n, h)
                 /\ \A i \in 1..Len(r) : pieces[h[i]] # <<>>
    BY <1>1, <1>2, <1>6 DEF PickedOf
  <1>8. \A i \in 1..Len(r) : stamped /\ s[h[i]].time > 0
    <2>1. \A i \in 1..Len(r) : h[i] \in 1..n
      BY <1>7 DEF Picked
    <2> QED BY <1>3, <1>7, <2>1
  <1>9. \E g : Picked(r, s, Len(s), g) /\ \A i \in 1..Len(r) : stamped /\ s[g[i]].time > 0
    BY <1>2, <1>7, <1>8
  <1>10. r \in Seq(Bars) /\ Len(r) \in Nat /\ Len(r) <= Len(s)
    BY <1>1, <1>6
  <1> QED BY <1>9, <1>10 DEF r

\* The gaps add no real candle.
LEMMA RealFills ==
    ASSUME NEW s \in Seq(Bars), NEW d \in Nat \ {0}
    PROVE  Len(Real(FillGaps(s, d))) <= Len(s)
  <1> DEFINE e == FillGaps(s, d)  r == Real(e)
  <1>1. FilledTo(e, s, Len(s))
    BY Fills
  <1> HIDE DEF e
  <1>2. PICK o \in [1..Len(e) -> 1..Len(s)] : \A a, b \in 1..Len(e) : a < b /\ ~e[b].gap => o[a] < o[b]
    BY <1>1 DEF FilledTo
  <1>3. e \in Seq(Bars)
    BY <1>1 DEF FilledTo
  <1>4. PICK h : Picked(r, e, Len(e), h) /\ \A i \in 1..Len(r) : ~e[h[i]].gap
    BY <1>3, RealIs
  <1>5. PICK m \in Nat : m = Len(r)
    BY <1>3, RealIs
  <1>6. PICK n \in Nat : n = Len(s)
    OBVIOUS
  <1> HIDE DEF r
  <1>7. \A i \in 1..m : h[i] \in 1..Len(e)
    BY <1>4, <1>5 DEF Picked
  <1> DEFINE g == [i \in 1..m |-> o[h[i]]]
  <1>8. g \in [1..m -> 1..n]
    BY <1>2, <1>6, <1>7
  <1>9. ASSUME NEW i \in 1..m, NEW j \in 1..m, i < j PROVE g[i] < g[j]
    <2>1. h[i] < h[j]
      BY <1>4, <1>5, <1>9 DEF Picked
    <2>2. ~e[h[j]].gap
      BY <1>4, <1>5
    <2>3. o[h[i]] < o[h[j]]
      BY <1>2, <1>7, <2>1, <2>2
    <2> QED BY <2>3
  <1> HIDE DEF g
  <1>10. m <= n
    BY <1>8, <1>9, Ascends
  <1> QED BY <1>5, <1>6, <1>10 DEF r, e

\* A live bar counts once among the real ones.
LEMMA RealAppend ==
    ASSUME NEW a \in Seq(Bars), NEW x \in Bars, ~x.gap
    PROVE  Real(a) \in Seq(Bars) /\ Len(Real(Append(a, x))) = Len(Real(a)) + 1
  <1> DEFINE Piece(c) == IF c.gap THEN <<>> ELSE <<c>>
             PiecesOf(s) == [i \in DOMAIN s |-> Piece(s[i])]
  <1>1. Real(a) = FlattenSeq(PiecesOf(a)) /\ Real(Append(a, x)) = FlattenSeq(PiecesOf(Append(a, x)))
    BY Zenon DEF Real
  <1>2. ASSUME NEW s \in Seq(Bars)
        PROVE  /\ PiecesOf(s) \in Seq(Seq(Bars)) /\ Len(PiecesOf(s)) = Len(s)
               /\ \A i \in 1..Len(s) : PiecesOf(s)[i] = Piece(s[i])
    <2>1. PICK n \in Nat : n = Len(s) /\ DOMAIN s = 1..n /\ \A i \in 1..n : s[i] \in Bars
      BY SeqElements
    <2>2. ASSUME NEW i \in 1..n PROVE Piece(s[i]) \in Seq(Bars)
      <3>1. <<>> \in Seq(Bars) /\ <<s[i]>> \in Seq(Bars)
        BY <2>1
      <3> QED BY <3>1
    <2> HIDE DEF Piece
    <2>3. PiecesOf(s) \in [1..n -> Seq(Bars)] /\ \A i \in 1..n : PiecesOf(s)[i] = Piece(s[i])
      BY <2>1, <2>2
    <2> HIDE DEF PiecesOf
    <2>4. PiecesOf(s) \in Seq(Seq(Bars)) /\ Len(PiecesOf(s)) = n
      BY <2>3
    <2> QED BY <2>1, <2>3, <2>4
  <1>3. Piece(x) = <<x>> /\ <<x>> \in Seq(Bars)
    OBVIOUS
  <1> DEFINE b == Append(a, x)
  <1>4. PICK n \in Nat : /\ n = Len(a) /\ b \in Seq(Bars) /\ Len(b) = n + 1 /\ b[n + 1] = x
                         /\ \A i \in 1..n : b[i] = a[i]
    OBVIOUS
  <1> HIDE DEF Piece, PiecesOf, b
  <1>5. PiecesOf(b) = Append(PiecesOf(a), <<x>>)
    <2> DEFINE l == PiecesOf(b)  r == Append(PiecesOf(a), <<x>>)
    <2>1. /\ l \in Seq(Seq(Bars)) /\ Len(l) = n + 1 /\ \A i \in 1..n + 1 : l[i] = Piece(b[i])
      BY <1>2, <1>4
    <2>2. /\ PiecesOf(a) \in Seq(Seq(Bars)) /\ Len(PiecesOf(a)) = n /\ \A i \in 1..n : PiecesOf(a)[i] = Piece(a[i])
      BY <1>2, <1>4
    <2>3. /\ r \in Seq(Seq(Bars)) /\ Len(r) = n + 1 /\ r[n + 1] = <<x>>
          /\ \A i \in 1..n : r[i] = PiecesOf(a)[i]
      BY <1>3, <2>2
    <2> HIDE DEF l, r
    <2>4. ASSUME NEW i \in 1..n + 1 PROVE l[i] = r[i]
      <3>1. CASE i \in 1..n
        BY <1>4, <2>1, <2>2, <2>3, <3>1
      <3>2. CASE i = n + 1
        BY <1>3, <1>4, <2>1, <2>3, <3>2
      <3> QED BY <3>1, <3>2
    <2>5. l = r
      BY <2>1, <2>3, <2>4, SameSeq
    <2> QED BY <2>5 DEF l, r
  <1>6. /\ FlattenSeq(PiecesOf(a)) \in Seq(Bars)
        /\ FlattenSeq(Append(PiecesOf(a), <<x>>)) = FlattenSeq(PiecesOf(a)) \o <<x>>
    <2>1. PiecesOf(a) \in Seq(Seq(Bars))
      BY <1>2
    <2> QED BY <1>3, <2>1, FlattenAppend
  <1>7. Real(b) = Real(a) \o <<x>> /\ Real(a) \in Seq(Bars)
    BY <1>1, <1>5, <1>6 DEF b
  <1>8. Len(Real(b)) = Len(Real(a)) + 1
    BY <1>7
  <1> QED BY <1>7, <1>8 DEF b

\* A series as it is shown: of one pool, ends in a candle that is real.
Drawable(e, pool) ==
    /\ e \in Seq(Bars)
    /\ \A i \in 1..Len(e) : e[i].of = pool
    /\ GapsFlat(e)
    /\ Len(e) > 0 => ~e[Len(e)].gap
    /\ Len(Real(e)) <= Window

\* What is filled is drawable.
LEMMA FilledDrawable ==
    ASSUME NEW s \in Seq(Bars), NEW d \in Nat \ {0}, NEW pool, \A i \in 1..Len(s) : s[i].of = pool,
           GapsFlat(s), Len(s) > 0 => ~s[Len(s)].gap, Len(Real(FillGaps(s, d))) <= Window
    PROVE  Drawable(FillGaps(s, d), pool)
  <1> DEFINE e == FillGaps(s, d)
  <1>1. FilledTo(e, s, Len(s))
    BY Fills
  <1> HIDE DEF e
  <1>2. PICK o \in [1..Len(e) -> 1..Len(s)] : \A a \in 1..Len(e) : e[a].of = s[o[a]].of
    BY <1>1 DEF FilledTo
  <1>3. \A i \in 1..Len(e) : e[i].of = pool
    BY <1>2
  <1>4. e \in Seq(Bars) /\ GapsFlat(e)
    BY <1>1 DEF FilledTo
  <1>5. ASSUME Len(e) > 0 PROVE ~e[Len(e)].gap
    <2>1. Len(e) \in Nat /\ Len(s) \in Nat
      BY <1>4
    <2>2. 1 \in 1..Len(e)
      BY <1>5, <2>1
    <2>3. o[1] \in 1..Len(s)
      BY <2>2
    <2>4. Len(s) > 0
      BY <2>1, <2>3
    <2>5. e[Len(e)] = s[Len(s)]
      BY <1>1, <2>4 DEF FilledTo
    <2> QED BY <2>4, <2>5
  <1>6. Len(Real(e)) <= Window
    BY DEF e
  <1>7. Drawable(e, pool)
    BY <1>3, <1>4, <1>5, <1>6 DEF Drawable
  <1> QED BY <1>7 DEF e

LEMMA FilledNothing ==
    ASSUME NEW s \in Seq(Bars), NEW d \in Nat \ {0}, Len(s) = 0
    PROVE  FillGaps(s, d) = <<>>
  <1> DEFINE e == FillGaps(s, d)
  <1>1. FilledTo(e, s, Len(s))
    BY Fills
  <1> HIDE DEF e
  <1>2. PICK o \in [1..Len(e) -> 1..0] : TRUE
    BY <1>1 DEF FilledTo
  <1>3. e \in Seq(Bars)
    BY <1>1 DEF FilledTo
  <1>4. Len(e) = 0
    <2> SUFFICES ASSUME Len(e) # 0 PROVE FALSE
      OBVIOUS
    <2>1. 1 \in 1..Len(e)
      BY <1>3
    <2> QED BY <1>2, <2>1
  <1>5. e = <<>>
    BY <1>3, <1>4
  <1> QED BY <1>5 DEF e

\* A candle behind the last.
LEMMA Appended ==
    ASSUME NEW e \in Seq(Bars), NEW x \in Bars
    PROVE  /\ Append(e, x) \in Seq(Bars) /\ Len(e) \in Nat /\ Len(Append(e, x)) = Len(e) + 1
           /\ \A i \in 1..Len(e) : Append(e, x)[i] = e[i]
           /\ Append(e, x)[Len(e) + 1] = x
  OBVIOUS

\* A live bar leaves the gaps flat.
LEMMA AppendFlat ==
    ASSUME NEW e \in Seq(Bars), NEW x \in Bars, ~x.gap, GapsFlat(e)
    PROVE  GapsFlat(Append(e, x))
  <1> DEFINE q == Append(e, x)
  <1>1. PICK n \in Nat : n = Len(e) /\ Len(q) = n + 1 /\ q[n + 1] = x /\ \A i \in 1..n : q[i] = e[i]
    BY Appended
  <1> HIDE DEF q
  <1>2. ASSUME NEW j \in 1..n + 1, q[j].gap PROVE j > 1 /\ q[j].close = q[j - 1].close
    <2>1. j \in 1..n
      <3>1. j # n + 1
        BY <1>1, <1>2
      <3> QED BY <3>1
    <2>2. j > 1 /\ e[j].close = e[j - 1].close
      BY <1>1, <1>2, <2>1 DEF GapsFlat
    <2>3. j - 1 \in 1..n
      BY <2>1, <2>2
    <2> QED BY <1>1, <2>1, <2>2, <2>3
  <1>3. GapsFlat(q)
    BY <1>1, <1>2 DEF GapsFlat
  <1> QED BY <1>3 DEF q

\* A series and its last bar.
LEMMA FrontIs ==
    ASSUME NEW e \in Seq(Bars), Len(e) > 0
    PROVE  /\ Front(e) \in Seq(Bars) /\ Len(Front(e)) = Len(e) - 1 /\ Len(e) - 1 \in Nat
           /\ \A i \in 1..(Len(e) - 1) : Front(e)[i] = e[i]
           /\ e = Append(Front(e), e[Len(e)])
  <1>1. PICK n \in Nat : n + 1 = Len(e)
    <2>1. Len(e) \in Nat
      OBVIOUS
    <2>2. Len(e) - 1 \in Nat /\ (Len(e) - 1) + 1 = Len(e)
      BY <2>1
    <2> QED BY <2>2
  <1>2. Len(e) - 1 = n
    BY <1>1
  <1> DEFINE f == SubSeq(e, 1, n)
  <1>3. f \in Seq(Bars) /\ Len(f) = n /\ \A i \in 1..n : f[i] = e[i]
    BY <1>1
  <1>4. Front(e) = f
    BY <1>2, Zenon DEF Front
  <1> HIDE DEF f
  <1>5. e[n + 1] \in Bars
    BY <1>1
  <1> DEFINE q == Append(f, e[n + 1])
  <1>6. q \in Seq(Bars) /\ Len(q) = n + 1 /\ q[n + 1] = e[n + 1] /\ \A i \in 1..n : q[i] = f[i]
    BY <1>3, <1>5
  <1> HIDE DEF q
  <1>7. ASSUME NEW i \in 1..Len(e) PROVE e[i] = q[i]
    <2>1. CASE i \in 1..n
      BY <1>3, <1>6, <2>1
    <2>2. CASE i = n + 1
      BY <1>6, <2>2
    <2> QED BY <1>1, <2>1, <2>2
  <1>8. e = q
    BY <1>1, <1>6, <1>7, SameSeq
  <1> QED BY <1>1, <1>2, <1>3, <1>4, <1>8 DEF q

\* The last so many of the real ones.
LatestReal(real) == SubSeq(real, Len(real) - Window + 1, Len(real))

\* The latest bars are the last Window of them.
LEMMA LatestIs ==
    ASSUME NEW r \in Seq(Bars), Len(r) > Window
    PROVE  /\ LatestReal(r) \in Seq(Bars) /\ Len(LatestReal(r)) = Window /\ Window \in Nat \ {0}
           /\ Len(r) - Window \in Nat
           /\ \A i \in 1..Window : /\ LatestReal(r)[i] = r[(Len(r) - Window) + i]
                                   /\ (Len(r) - Window) + i \in 1..Len(r)
  <1>1. Window \in Nat \ {0}
    BY ChartAssumption
  <1>2. PICK k \in Nat : Len(r) = k + Window
    <2>1. Len(r) \in Nat
      OBVIOUS
    <2>2. Len(r) - Window \in Nat /\ Len(r) = (Len(r) - Window) + Window
      BY <1>1, <2>1
    <2> QED BY <2>2
  <1>3. Len(r) - Window = k
    BY <1>1, <1>2
  <1> DEFINE q == SubSeq(r, k + 1, k + Window)
  <1>4. q \in Seq(Bars) /\ Len(q) = Window /\ \A i \in 1..Window : q[i] = r[k + i] /\ k + i \in 1..Len(r)
    BY <1>1, <1>2
  <1>5. LatestReal(r) = q
    BY <1>2, <1>3 DEF LatestReal
  <1> HIDE DEF q
  <1> QED BY <1>1, <1>3, <1>4, <1>5

\* The four cases of a merge.
LEMMA MergeCases ==
    ASSUME NEW prev \in Seq(Bars), NEW x \in Bars, NEW d
    PROVE  \/ prev = <<>> /\ MergeLiveCandle(prev, x, d) = <<x>>
           \/ prev # <<>> /\ MergeLiveCandle(prev, x, d) = prev
           \/ prev # <<>> /\ x.time = prev[Len(prev)].time /\ MergeLiveCandle(prev, x, d) = Append(Front(prev), x)
           \/ /\ prev # <<>> /\ x.time > prev[Len(prev)].time
              /\ \/ /\ Len(Real(FillGaps(Append(prev, x), d))) <= Window
                    /\ MergeLiveCandle(prev, x, d) = FillGaps(Append(prev, x), d)
                 \/ /\ ~ Len(Real(FillGaps(Append(prev, x), d))) <= Window
                    /\ MergeLiveCandle(prev, x, d) = FillGaps(LatestReal(Real(FillGaps(Append(prev, x), d))), d)
  <1>1. CASE prev = <<>>
    BY <1>1 DEF MergeLiveCandle
  <1>2. CASE prev # <<>>
    <2>1. Last(prev) = prev[Len(prev)]
      BY DEF Last
    <2>2. x.time \in Int /\ prev[Len(prev)].time \in Int
      <3>1. Len(prev) \in 1..Len(prev)
        BY <1>2
      <3>2. prev[Len(prev)] \in Bars
        BY <3>1
      <3> QED BY <3>2 DEF Bars
    <2>3. CASE x.time < prev[Len(prev)].time
      <3>1. MergeLiveCandle(prev, x, d) = prev
        BY <1>2, <2>1, <2>3, Zenon DEF MergeLiveCandle
      <3> QED BY <1>2, <3>1
    <2>4. CASE x.time = prev[Len(prev)].time
      <3>0. ~ (x.time < prev[Len(prev)].time)
        BY <2>2, <2>4
      <3>1. MergeLiveCandle(prev, x, d) = Append(Front(prev), x)
        BY <1>2, <2>1, <2>4, <3>0, Zenon DEF MergeLiveCandle
      <3> QED BY <1>2, <2>4, <3>1
    <2>5. CASE x.time > prev[Len(prev)].time
      <3>0. ~ (x.time < prev[Len(prev)].time) /\ x.time # prev[Len(prev)].time
        BY <2>2, <2>5
      <3> DEFINE full == FillGaps(Append(prev, x), d)
      <3>1. MergeLiveCandle(prev, x, d) = IF Len(Real(full)) <= Window THEN full
                                          ELSE FillGaps(LatestReal(Real(full)), d)
        BY <1>2, <2>1, <3>0, Zenon DEF MergeLiveCandle, LatestReal
      <3> HIDE DEF full
      <3>2. \/ Len(Real(full)) <= Window /\ MergeLiveCandle(prev, x, d) = full
            \/ ~ Len(Real(full)) <= Window /\ MergeLiveCandle(prev, x, d) = FillGaps(LatestReal(Real(full)), d)
        BY <3>1
      <3> QED BY <1>2, <2>5, <3>2 DEF full
    <2> QED BY <2>2, <2>3, <2>4, <2>5
  <1> QED BY <1>1, <1>2

\* A merge keeps a series drawable,
LEMMA MergeDrawable ==
    ASSUME NEW pool, NEW prev, Drawable(prev, pool), NEW x \in Bars, ~x.gap, x.of = pool, NEW d \in Nat \ {0}
    PROVE  Drawable(MergeLiveCandle(prev, x, d), pool)
  <1> DEFINE out == MergeLiveCandle(prev, x, d)  n == Len(prev)
  <1>0. /\ prev \in Seq(Bars) /\ n \in Nat /\ Window \in Nat \ {0} /\ GapsFlat(prev)
        /\ \A i \in 1..n : prev[i].of = pool
    BY ChartAssumption DEF Drawable
  <1>1. CASE prev = <<>> /\ out = <<x>>
    <2> DEFINE q == <<x>>
    <2>1. q \in Seq(Bars) /\ Len(q) = 1 /\ q[1] = x /\ \A i \in 1..1 : i = 1
      OBVIOUS
    <2> HIDE DEF q
    <2>2. GapsFlat(q)
      BY <2>1 DEF GapsFlat
    <2>3. Len(Real(q)) <= 1
      BY <2>1, RealIs
    <2>4. Len(Real(q)) <= Window
      <3>1. Len(Real(q)) \in Nat
        BY <2>1, RealIs
      <3> QED BY <1>0, <2>3, <3>1
    <2>5. Drawable(q, pool)
      BY <2>1, <2>2, <2>4 DEF Drawable
    <2> QED BY <1>1, <2>5 DEF q
  <1>2. CASE prev # <<>> /\ out = prev
    BY <1>2
  <1>3. CASE prev # <<>> /\ out = Append(Front(prev), x)
    <2>1. n > 0
      BY <1>0, <1>3
    <2> DEFINE f == Front(prev)  c == prev[n]  q == Append(f, x)
    <2>2. f \in Seq(Bars) /\ Len(f) = n - 1 /\ n - 1 \in Nat /\ (\A i \in 1..(n - 1) : f[i] = prev[i]) /\ prev = Append(f, c)
      BY <1>0, <2>1, FrontIs
    <2>3. c \in Bars /\ ~c.gap
      <3>1. n \in 1..n
        BY <1>0, <2>1
      <3>2. c \in Bars
        BY <1>0, <3>1
      <3> QED BY <2>1, <3>2 DEF Drawable
    <2> HIDE DEF f, c
    <2>4. GapsFlat(f)
      <3> SUFFICES ASSUME NEW j \in 1..(n - 1), f[j].gap PROVE j > 1 /\ f[j].close = f[j - 1].close
        BY <2>2 DEF GapsFlat
      <3>1. j \in 1..n /\ prev[j].gap
        BY <1>0, <2>2
      <3>2. j > 1 /\ prev[j].close = prev[j - 1].close
        BY <1>0, <3>1 DEF GapsFlat
      <3>3. j - 1 \in 1..(n - 1)
        BY <3>2
      <3> QED BY <2>2, <3>2, <3>3
    <2>5. GapsFlat(q)
      BY <2>2, <2>4, AppendFlat
    <2>6. q \in Seq(Bars) /\ Len(q) = n /\ q[n] = x /\ \A i \in 1..(n - 1) : q[i] = f[i]
      <3>1. q \in Seq(Bars) /\ Len(q) = Len(f) + 1 /\ q[Len(f) + 1] = x /\ \A i \in 1..Len(f) : q[i] = f[i]
        BY <2>2, Appended
      <3>2. (n - 1) + 1 = n
        BY <1>0
      <3> HIDE DEF q
      <3> QED BY <2>2, <3>1, <3>2
    <2>7. Len(Real(q)) <= Window
      <3>1. Len(Real(prev)) = Len(Real(f)) + 1
        BY <2>2, <2>3, RealAppend
      <3>2. Len(Real(q)) = Len(Real(f)) + 1
        BY <2>2, RealAppend
      <3> QED BY <3>1, <3>2 DEF Drawable
    <2> HIDE DEF q
    <2>8. \A i \in 1..n : q[i].of = pool
      <3>1. \A i \in 1..n : i \in 1..(n - 1) \/ i = n
        BY <1>0
      <3>2. \A i \in 1..(n - 1) : i \in 1..n
        BY <1>0
      <3> QED BY <1>0, <2>2, <2>6, <3>1, <3>2
    <2>9. Drawable(q, pool)
      BY <2>5, <2>6, <2>7, <2>8 DEF Drawable
    <2> QED BY <1>3, <2>9 DEF q, f
  <1>4. CASE /\ prev # <<>>
             /\ \/ /\ Len(Real(FillGaps(Append(prev, x), d))) <= Window
                   /\ out = FillGaps(Append(prev, x), d)
                \/ /\ ~ Len(Real(FillGaps(Append(prev, x), d))) <= Window
                   /\ out = FillGaps(LatestReal(Real(FillGaps(Append(prev, x), d))), d)
    <2> DEFINE a == Append(prev, x)  full == FillGaps(a, d)  real == Real(full)
    <2>1. /\ a \in Seq(Bars) /\ Len(a) = n + 1 /\ a[n + 1] = x
          /\ \A i \in 1..n : a[i] = prev[i]
      BY <1>0, Appended
    <2>2. GapsFlat(a)
      BY <1>0, AppendFlat
    <2> HIDE DEF a
    <2>3. \A i \in 1..Len(a) : a[i].of = pool
      <3>1. \A i \in 1..n + 1 : i \in 1..n \/ i = n + 1
        BY <1>0
      <3> QED BY <1>0, <2>1, <3>1
    <2>4. ~a[Len(a)].gap
      BY <2>1
    <2>5. CASE Len(real) <= Window /\ out = full
      <3>1. Drawable(full, pool)
        BY <2>1, <2>2, <2>3, <2>4, <2>5, FilledDrawable
      <3> QED BY <2>5, <3>1
    <2>6. CASE ~ Len(real) <= Window /\ out = FillGaps(LatestReal(real), d)
      <3>1. FilledTo(full, a, Len(a))
        BY <2>1, Fills
      <3> HIDE DEF full
      <3>2. full \in Seq(Bars)
        BY <3>1 DEF FilledTo
      <3>3. PICK o \in [1..Len(full) -> 1..Len(a)] : \A j \in 1..Len(full) : full[j].of = a[o[j]].of
        BY <3>1 DEF FilledTo
      <3>4. real \in Seq(Bars) /\ Len(real) \in Nat
        BY <3>2, RealIs
      <3>5. PICK h : Picked(real, full, Len(full), h) /\ \A i \in 1..Len(real) : ~full[h[i]].gap
        BY <3>2, RealIs
      <3> HIDE DEF real
      <3>6. ASSUME NEW i \in 1..Len(real) PROVE real[i].of = pool /\ ~real[i].gap
        <4>1. h[i] \in 1..Len(full) /\ real[i] = full[h[i]]
          BY <3>5 DEF Picked
        <4>2. o[h[i]] \in 1..Len(a)
          BY <3>3, <4>1
        <4> QED BY <2>3, <3>3, <3>5, <4>1, <4>2
      <3>7. Len(real) > Window
        BY <1>0, <2>6, <3>4
      <3> DEFINE l == LatestReal(real)
      <3>8. /\ l \in Seq(Bars) /\ Len(l) = Window
            /\ \A i \in 1..Window : /\ l[i] = real[(Len(real) - Window) + i]
                                    /\ (Len(real) - Window) + i \in 1..Len(real)
        BY <3>4, <3>7, LatestIs
      <3> HIDE DEF l
      <3>9. \A i \in 1..Window : l[i].of = pool /\ ~l[i].gap
        BY <3>6, <3>8
      <3>10. GapsFlat(l)
        BY <3>8, <3>9 DEF GapsFlat
      <3>11. ~l[Len(l)].gap
        <4>1. Window \in 1..Window
          BY <1>0
        <4> QED BY <3>8, <3>9, <4>1
      <3>12. Len(Real(FillGaps(l, d))) <= Window
        BY <3>8, RealFills
      <3>13. \A i \in 1..Len(l) : l[i].of = pool
        BY <3>8, <3>9
      <3>14. Drawable(FillGaps(l, d), pool)
        BY <3>8, <3>10, <3>11, <3>12, <3>13, FilledDrawable
      <3> QED BY <2>6, <3>14 DEF l
    <2> QED BY <1>4, <2>5, <2>6 DEF a
  <1> QED BY <1>0, <1>1, <1>2, <1>3, <1>4, MergeCases

\* one at each multiple,
LEMMA MergeLevel ==
    ASSUME NEW prev \in Seq(Bars), NEW x \in Bars, NEW d \in Nat \ {0}, NEW m \in Nat, Level(prev, m, d),
           NEW c \in Nat \ {0}, x.time = c * d
    PROVE  \E k \in Nat : Level(MergeLiveCandle(prev, x, d), k, d)
  <1> DEFINE out == MergeLiveCandle(prev, x, d)
  <1>0. PICK n \in Nat : n = Len(prev)
    OBVIOUS
  <1>1. CASE prev = <<>> /\ out = <<x>>
    <2>1. PICK k \in Nat : c = k + 1
      <3>1. c - 1 \in Nat /\ c = (c - 1) + 1
        OBVIOUS
      <3> QED BY <3>1
    <2> DEFINE q == <<x>>
    <2>2. Len(q) = 1 /\ q[1] = x /\ \A i \in 1..1 : i = 1
      OBVIOUS
    <2> HIDE DEF q
    <2>3. Level(q, k, d)
      BY <2>1, <2>2 DEF Level
    <2> QED BY <1>1, <2>3 DEF q
  <1>2. CASE prev # <<>> /\ out = prev
    BY <1>2
  <1>3. CASE prev # <<>> /\ x.time = prev[Len(prev)].time /\ out = Append(Front(prev), x)
    <2>1. n > 0 /\ n \in 1..n
      BY <1>0, <1>3
    <2> DEFINE f == Front(prev)  q == Append(f, x)
    <2>2. f \in Seq(Bars) /\ Len(f) = n - 1 /\ n - 1 \in Nat /\ (\A i \in 1..(n - 1) : f[i] = prev[i])
      BY <1>0, <2>1, FrontIs
    <2> HIDE DEF f
    <2>3. q \in Seq(Bars) /\ Len(q) = Len(f) + 1 /\ q[Len(f) + 1] = x /\ \A i \in 1..Len(f) : q[i] = f[i]
      BY <2>2, Appended
    <2> HIDE DEF q
    <2>4. Len(q) = n /\ q[n] = x /\ \A i \in 1..(n - 1) : q[i] = f[i]
      <3>1. (n - 1) + 1 = n
        OBVIOUS
      <3> QED BY <2>2, <2>3, <3>1
    <2>5. ASSUME NEW j \in 1..n PROVE q[j].time = (m + j) * d
      <3>1. prev[j].time = (m + j) * d
        BY <1>0 DEF Level
      <3>2. CASE j = n
        BY <1>0, <1>3, <2>4, <3>1, <3>2
      <3>3. CASE j # n
        <4>1. j \in 1..(n - 1)
          BY <3>3
        <4> QED BY <2>2, <2>4, <3>1, <4>1
      <3> QED BY <3>2, <3>3
    <2>6. Level(q, m, d)
      BY <2>4, <2>5 DEF Level
    <2> QED BY <1>3, <2>6 DEF q, f
  <1>4. CASE /\ prev # <<>> /\ x.time > prev[Len(prev)].time
             /\ \/ /\ Len(Real(FillGaps(Append(prev, x), d))) <= Window
                   /\ out = FillGaps(Append(prev, x), d)
                \/ /\ ~ Len(Real(FillGaps(Append(prev, x), d))) <= Window
                   /\ out = FillGaps(LatestReal(Real(FillGaps(Append(prev, x), d))), d)
    <2> DEFINE a == Append(prev, x)  full == FillGaps(a, d)  real == Real(full)
    <2>1. /\ a \in Seq(Bars) /\ Len(a) = n + 1 /\ a[n + 1] = x
          /\ \A i \in 1..n : a[i] = prev[i]
      BY <1>0, Appended
    <2> HIDE DEF a
    <2>2. n \in 1..n /\ prev[n].time = (m + n) * d
      <3>1. n \in 1..n
        BY <1>0, <1>4
      <3> QED BY <1>0, <3>1 DEF Level
    <2>3. m + n < c
      <3> SUFFICES ASSUME c <= m + n PROVE FALSE
        OBVIOUS
      <3>1. PICK y \in Nat : m + n = c + y
        <4>1. (m + n) - c \in Nat /\ m + n = c + ((m + n) - c)
          OBVIOUS
        <4> QED BY <4>1
      <3>2. (c + y) * d = c * d + y * d
        BY Multiples
      <3>3. y * d \in Nat /\ c * d \in Nat
        OBVIOUS
      <3>4. c * d > (c + y) * d
        BY <1>0, <1>4, <2>2, <3>1
      <3> DEFINE yd == y * d  cd == c * d
      <3>5. cd > cd + yd /\ yd \in Nat /\ cd \in Nat
        BY <3>2, <3>3, <3>4
      <3> HIDE DEF yd, cd
      <3> QED BY <3>5
    <2> DEFINE w == [i \in 1..n + 1 |-> IF i = n + 1 THEN c ELSE m + i]
    <2>4. w \in [1..n + 1 -> Nat \ {0}]
      OBVIOUS
    <2>5. \A i, j \in 1..n + 1 : i < j => w[i] < w[j]
      BY <2>3
    <2>6. \A i \in 1..n + 1 : a[i].time = w[i] * d
      <3> SUFFICES ASSUME NEW i \in 1..n + 1 PROVE a[i].time = w[i] * d
        OBVIOUS
      <3>1. CASE i = n + 1
        BY <2>1, <3>1
      <3>2. CASE i # n + 1
        <4>1. i \in 1..n /\ w[i] = m + i
          BY <3>2
        <4>2. prev[i].time = (m + i) * d
          BY <1>0, <4>1 DEF Level
        <4> HIDE DEF w
        <4> QED BY <2>1, <4>1, <4>2
      <3> QED BY <3>1, <3>2
    <2> HIDE DEF w
    <2>7. Spaced(a, w, d)
      BY <2>1, <2>4, <2>5, <2>6 DEF Spaced
    <2>8. PICK k \in Nat : Level(full, k, d)
      BY <2>1, <2>7, FillsLevel
    <2>9. CASE out = full
      BY <2>8, <2>9
    <2>10. CASE ~ Len(real) <= Window /\ out = FillGaps(LatestReal(real), d)
      <3>1. FilledTo(full, a, Len(a))
        BY <2>1, Fills
      <3> HIDE DEF full
      <3>2. full \in Seq(Bars)
        BY <3>1 DEF FilledTo
      <3>4. real \in Seq(Bars) /\ Len(real) \in Nat
        BY <3>2, RealIs
      <3>5. PICK h : Picked(real, full, Len(full), h)
        BY <3>2, RealIs
      <3> HIDE DEF real
      <3>7. Len(real) > Window
        BY <2>10, <3>4, ChartAssumption
      <3> DEFINE l == LatestReal(real)
      <3>8. /\ l \in Seq(Bars) /\ Len(l) = Window /\ Window \in Nat \ {0} /\ Len(real) - Window \in Nat
            /\ \A i \in 1..Window : /\ l[i] = real[(Len(real) - Window) + i]
                                    /\ (Len(real) - Window) + i \in 1..Len(real)
        BY <3>4, <3>7, LatestIs
      <3> HIDE DEF l
      <3>9. PICK z \in Nat : z = Len(real) - Window
        BY <3>8
      <3> DEFINE v == [i \in 1..Window |-> k + h[z + i]]
      <3>10. \A i \in 1..Window : h[z + i] \in 1..Len(full) /\ z + i \in 1..Len(real) /\ l[i] = full[h[z + i]]
        <4> SUFFICES ASSUME NEW i \in 1..Window PROVE h[z + i] \in 1..Len(full) /\ z + i \in 1..Len(real) /\ l[i] = full[h[z + i]]
          OBVIOUS
        <4>1. z + i \in 1..Len(real) /\ l[i] = real[z + i]
          BY <3>8, <3>9
        <4> QED BY <3>5, <4>1 DEF Picked
      <3>11. v \in [1..Window -> Nat \ {0}]
        <4>1. \A i \in 1..Window : k + h[z + i] \in Nat \ {0}
          BY <3>10
        <4> QED BY <4>1
      <3>12. ASSUME NEW i \in 1..Window, NEW j \in 1..Window, i < j PROVE v[i] < v[j]
        <4>1. z + i < z + j
          BY <3>12
        <4>2. h[z + i] < h[z + j]
          BY <3>5, <3>10, <4>1 DEF Picked
        <4>3. PICK f \in Nat, g \in Nat : f = h[z + i] /\ g = h[z + j]
          <5>1. h[z + i] \in 1..Len(full) /\ h[z + j] \in 1..Len(full)
            BY <3>10
          <5> HIDE DEF full
          <5>2. h[z + i] \in Nat /\ h[z + j] \in Nat
            BY ONLY <5>1
          <5> QED BY ONLY <5>2, Zenon
        <4>4. PICK kk \in Nat : kk = k
          OBVIOUS
        <4>5. f < g
          BY ONLY <4>2, <4>3, Zenon
        <4>6. kk + f < kk + g
          BY ONLY <4>3, <4>4, <4>5
        <4>7. k + h[z + i] < k + h[z + j]
          BY ONLY <4>3, <4>4, <4>6, Zenon
        <4>8. v[i] = k + h[z + i] /\ v[j] = k + h[z + j]
          OBVIOUS
        <4> QED BY ONLY <4>7, <4>8, Zenon
      <3>13. ASSUME NEW i \in 1..Window PROVE l[i].time = v[i] * d
        <4>1. full[h[z + i]].time = (k + h[z + i]) * d
          BY <2>8, <3>10 DEF Level
        <4> QED BY <3>10, <4>1
      <3> HIDE DEF v
      <3>14. Spaced(l, v, d)
        BY <3>8, <3>11, <3>12, <3>13 DEF Spaced
      <3>15. \E y \in Nat : Level(FillGaps(l, d), y, d)
        BY <3>8, <3>14, FillsLevel
      <3> QED BY <2>10, <3>15 DEF l
    <2> QED BY <1>4, <2>9, <2>10 DEF a
  <1> QED BY <1>1, <1>2, <1>3, <1>4, MergeCases

\* and one candle without a time.
LEMMA MergeUntimed ==
    ASSUME NEW prev \in Seq(Bars), NEW x \in Bars, NEW d, x.time = NoTime, Len(prev) <= 1,
           \A i \in 1..Len(prev) : prev[i].time = NoTime
    PROVE  /\ Len(MergeLiveCandle(prev, x, d)) <= 1
           /\ \A i \in 1..Len(MergeLiveCandle(prev, x, d)) : MergeLiveCandle(prev, x, d)[i].time = NoTime
  <1> DEFINE out == MergeLiveCandle(prev, x, d)  q == <<x>>
  <1>1. Len(q) = 1 /\ q[1] = x
    OBVIOUS
  <1>2. out = prev \/ out = q
    <2>1. CASE prev # <<>>
      <3>1. Len(prev) = 1
        <4>1. PICK k \in Nat : k = Len(prev)
          OBVIOUS
        <4>2. k # 0 /\ k <= 1
          BY <2>1, <4>1
        <4>3. k = 1
          BY <4>2
        <4> QED BY <4>1, <4>3
      <3>2. 1 \in 1..Len(prev) /\ Len(prev) > 0
        BY <3>1
      <3>3. prev[Len(prev)].time = NoTime
        BY <3>1, <3>2
      <3>4. ~ (x.time > prev[Len(prev)].time)
        BY <3>3 DEF NoTime
      <3>5. Front(prev) \in Seq(Bars) /\ Len(Front(prev)) = Len(prev) - 1
        BY <3>2, FrontIs
      <3>6. Front(prev) = <<>>
        BY <3>1, <3>5
      <3>7. Append(Front(prev), x) = q
        BY <3>6
      <3> QED BY <2>1, <3>4, <3>7, MergeCases
    <2>2. CASE prev = <<>>
      BY <2>2 DEF MergeLiveCandle
    <2> QED BY <2>1, <2>2
  <1> HIDE DEF q, out
  <1>3. Len(q) <= 1 /\ \A i \in 1..Len(q) : q[i].time = NoTime
    <2>1. \A i \in 1..Len(q) : i = 1
      BY <1>1
    <2> QED BY <1>1, <2>1
  <1>4. Len(out) <= 1 /\ \A i \in 1..Len(out) : out[i].time = NoTime
    <2>1. CASE out = prev
      BY <2>1
    <2>2. CASE out = q
      BY <1>3, <2>2
    <2> QED BY <1>2, <2>1, <2>2
  <1> QED BY <1>4 DEF out

Fewest(a, b) == IF b < a THEN b ELSE a

LEMMA FewestIs ==
    ASSUME NEW a \in Nat, NEW b \in Nat
    PROVE  Min({a, b}) = Fewest(a, b)
  <1>1. \E x \in {a, b} : \A y \in {a, b} : x =< y
    OBVIOUS
  <1>2. Min({a, b}) \in {a, b} /\ \A y \in {a, b} : Min({a, b}) =< y
    BY <1>1 DEF Min
  <1> QED BY <1>2 DEF Fewest

\* What the API answers: a candle of the pair at each multiple.
Answers(s, pair, d) ==
    \E n \in Nat, first \in Nat :
       /\ s \in Seq(Bars) /\ Len(s) = n /\ n <= Window
       /\ \A i \in 1..n : s[i].time = (first + (i - 1)) * d /\ s[i].of = pair /\ ~s[i].gap

\* The answer of the API has a bar per bucket, flat where nothing was traded.
LEMMA AnswerIs ==
    ASSUME NEW pair \in Pairs, NEW d \in Steps
    PROVE  Answers(FillCandleGaps(pair, d), pair, d)
  <1>1. d \in Nat \ {0} /\ Window \in Nat \ {0} /\ Clock \in Nat /\ Window * d <= Clock
    BY ChartAssumption
  <1>2. PICK first \in Nat : first = (Clock - Window * d) \div d
    <2>1. PICK x \in Nat : x = Clock - Window * d
      <3>1. Window * d \in Nat
        BY <1>1
      <3> DEFINE wd == Window * d
      <3>2. wd \in Nat /\ wd <= Clock
        BY <1>1, <3>1
      <3> HIDE DEF wd
      <3>3. Clock - wd \in Nat
        BY <1>1, <3>2
      <3> QED BY <3>3 DEF wd
    <2>2. x \div d \in Nat
      BY <1>1
    <2> QED BY <2>1, <2>2
  <1>3. PICK last \in Nat : last = Clock \div d
    <2>1. Clock \div d \in Nat
      BY <1>1
    <2> QED BY <2>1
  <1>4. first <= last
    <2>1. PICK y \in Nat : Clock = y + Window * d
      <3>1. Window * d \in Nat
        BY <1>1
      <3> DEFINE wd == Window * d
      <3>2. wd \in Nat /\ wd <= Clock
        BY <1>1, <3>1
      <3> HIDE DEF wd
      <3>3. Clock - wd \in Nat /\ Clock = (Clock - wd) + wd
        BY <1>1, <3>2
      <3> QED BY <3>3 DEF wd
    <2>2. first = y \div d /\ last = (y + Window * d) \div d
      <3>1. Window * d \in Nat
        BY <1>1
      <3> DEFINE wd == Window * d
      <3>2. wd \in Nat /\ Clock = y + wd
        BY <2>1, <3>1
      <3> HIDE DEF wd
      <3>3. Clock - wd = y
        BY <3>2
      <3> QED BY <1>2, <1>3, <2>1, <3>3 DEF wd
    <2>3. (y + Window * d) \div d = (y \div d) + Window
      <3>1. PICK q \in Nat, r \in 0..(d - 1) : y = d * q + r /\ y \div d = q
        <4>1. y \div d \in Nat /\ y % d \in 0..(d - 1) /\ y = d * (y \div d) + (y % d)
          BY <1>1
        <4> QED BY <4>1
      <3>2. y + Window * d = d * (q + Window) + r
        <4>1. d * (q + Window) = d * q + Window * d
          BY <1>1
        <4>2. d * q \in Int /\ Window * d \in Int
          BY <1>1
        <4> DEFINE dq == d * q  wd == Window * d
        <4>3. d * (q + Window) = dq + wd /\ dq \in Int /\ wd \in Int /\ y = dq + r
          BY <3>1, <4>1, <4>2
        <4> HIDE DEF dq
        <4>4. y + wd = (dq + wd) + r
          <5> HIDE DEF wd
          <5> QED BY <4>3
        <4> QED BY <4>3, <4>4
      <3>3. (d * (q + Window) + r) \div d = q + Window
        BY <1>1, <3>1
      <3> QED BY <3>1, <3>2, <3>3
    <2>4. y \div d \in Nat
      BY <1>1
    <2> QED BY <1>1, <2>2, <2>3, <2>4
  <1>5. last - first + 1 \in Nat
    BY <1>4
  <1>6. PICK n \in Nat : n = Fewest(Window, last - first + 1) /\ n <= Window
    <2>1. PICK z \in Nat : z = last - first + 1
      BY <1>5
    <2>2. Fewest(Window, z) \in Nat /\ Fewest(Window, z) <= Window
      BY <1>1 DEF Fewest
    <2> QED BY <2>1, <2>2
  <1> DEFINE Time(i) == (first + i - 1) * d
             s == [i \in 1..n |-> Bar(Time(i), IF Time(i) \in Rows THEN Time(i) + 1 ELSE 0, pair)]
  <1>7. FillCandleGaps(pair, d) = s
    <2>1. Min({Window, last - first + 1}) = n
      BY <1>1, <1>5, <1>6, FewestIs
    <2>2. FillCandleGaps(pair, d) = [i \in 1..Min({Window, last - first + 1}) |->
             Bar(Time(i), IF Time(i) \in Rows THEN Time(i) + 1 ELSE 0, pair)]
      BY <1>2, <1>3 DEF FillCandleGaps
    <2> QED BY <2>1, <2>2
  <1>8. ASSUME NEW i \in 1..n
        PROVE  s[i] \in Bars /\ s[i].time = (first + (i - 1)) * d /\ s[i].of = pair /\ ~s[i].gap
    <2>1. PICK k \in Nat : k = i - 1
      OBVIOUS
    <2>2. first + i - 1 = first + k /\ (first + k) * d \in Nat
      <3>1. first + k \in Nat /\ first + i - 1 = first + k
        BY <2>1
      <3>2. (first + k) * d \in Nat
        BY <1>1, <3>1
      <3> QED BY <3>1, <3>2
    <2>3. PICK t \in Nat : t = (first + k) * d
      BY <2>2
    <2>4. Time(i) = t
      BY <2>2, <2>3
    <2>5. s[i] = Bar(t, IF t \in Rows THEN t + 1 ELSE 0, pair)
      BY <2>4
    <2> HIDE DEF s, Time
    <2>6. PICK c \in Nat : c = IF t \in Rows THEN t + 1 ELSE 0
      <3>1. (IF t \in Rows THEN t + 1 ELSE 0) \in Nat
        OBVIOUS
      <3> QED BY <3>1
    <2>7. s[i] = [time |-> t, close |-> c, gap |-> FALSE, of |-> pair]
      BY <2>5, <2>6 DEF Bar
    <2>8. s[i] \in Bars
      BY <2>7 DEF Bars
    <2>9. s[i].time = t /\ s[i].of = pair /\ ~s[i].gap
      BY <2>7
    <2> QED BY <2>1, <2>3, <2>8, <2>9
  <1>9. s = [i \in 1..n |-> s[i]]
    OBVIOUS
  <1> HIDE DEF s
  <1>10. s \in [1..n -> Bars]
    BY <1>8, <1>9
  <1>11. s \in Seq(Bars) /\ Len(s) = n
    BY <1>10
  <1>12. Answers(s, pair, d)
    BY <1>6, <1>8, <1>11 DEF Answers
  <1> QED BY <1>7, <1>12

ShownSeries(pair, d) == FillGaps(Sanitize(FillCandleGaps(pair, d), d), d)

\* What a choice shows.
LEMMA ShownIs ==
    ASSUME NEW pair \in Pairs, NEW d \in Steps
    PROVE  /\ Drawable(ShownSeries(pair, d), pair)
           /\ \E m \in Nat : Level(ShownSeries(pair, d), m, d)
           /\ ~stamped => ShownSeries(pair, d) = <<>>
  <1>0. d \in Nat \ {0} /\ d \in Nat /\ Window \in Nat \ {0}
    BY ChartAssumption
  <1> DEFINE s == FillCandleGaps(pair, d)
  <1>1. PICK n \in Nat, first \in Nat :
              /\ s \in Seq(Bars) /\ Len(s) = n /\ n <= Window
              /\ \A i \in 1..n : /\ s[i].time = (first + (i - 1)) * d
                                 /\ s[i].of = pair /\ ~s[i].gap
    <2>1. Answers(s, pair, d)
      BY AnswerIs
    <2> HIDE DEF s
    <2> QED BY <2>1 DEF Answers
  <1> HIDE DEF s
  <1> DEFINE r == Sanitize(s, d)
  <1>2. r \in Seq(Bars) /\ Len(r) \in Nat /\ Len(r) <= n
    BY <1>0, <1>1, SanitizeIs
  <1>3. PICK h : /\ Picked(r, s, n, h)
                 /\ \A i \in 1..Len(r) : stamped /\ s[h[i]].time > 0
    <2>1. \E h : /\ Picked(r, s, Len(s), h)
                 /\ \A i \in 1..Len(r) : stamped /\ s[h[i]].time > 0
      BY <1>0, <1>1, SanitizeIs
    <2> HIDE DEF r
    <2> QED BY <1>1, <2>1
  <1> HIDE DEF r
  <1>4. PICK N \in Nat : N = Len(r)
    BY <1>2
  <1>5. \A i \in 1..N : h[i] \in 1..n /\ r[i] = s[h[i]]
    BY <1>3, <1>4 DEF Picked
  <1>6. \A i \in 1..N : r[i].of = pair /\ ~r[i].gap
    BY <1>1, <1>5
  <1>7. GapsFlat(r) /\ (Len(r) > 0 => ~r[Len(r)].gap) /\ \A i \in 1..Len(r) : r[i].of = pair
    <2>1. N > 0 => N \in 1..N
      OBVIOUS
    <2>2. GapsFlat(r)
      BY <1>4, <1>6 DEF GapsFlat
    <2> QED BY <1>4, <1>6, <2>1, <2>2
  <1>8. Len(Real(FillGaps(r, d))) <= Window
    <2>1. Len(Real(FillGaps(r, d))) <= Len(r)
      BY <1>0, <1>2, RealFills
    <2>2. FilledTo(FillGaps(r, d), r, Len(r))
      BY <1>0, <1>2, Fills
    <2>3. FillGaps(r, d) \in Seq(Bars)
      BY <2>2 DEF FilledTo
    <2>4. Len(Real(FillGaps(r, d))) \in Nat
      BY <2>3, RealIs
    <2> QED BY <1>0, <1>1, <1>2, <2>1, <2>4
  <1>9. Drawable(FillGaps(r, d), pair)
    BY <1>0, <1>2, <1>7, <1>8, FilledDrawable
  <1> DEFINE w == [i \in 1..N |-> first + (h[i] - 1)]
  <1>10. ASSUME NEW i \in 1..N PROVE first + (h[i] - 1) \in Nat \ {0} /\ r[i].time = (first + (h[i] - 1)) * d
    <2>1. PICK k \in Nat : k = first + (h[i] - 1)
      <3>1. h[i] \in 1..n
        BY <1>5
      <3>2. first + (h[i] - 1) \in Nat
        BY <3>1
      <3> QED BY <3>2
    <2>2. r[i].time = k * d
      BY <1>1, <1>5, <2>1
    <2>3. r[i].time > 0
      BY <1>3, <1>4, <1>5
    <2>4. k # 0
      <3> SUFFICES ASSUME k = 0 PROVE FALSE
        OBVIOUS
      <3>1. 0 * d = 0
        BY <1>0
      <3> QED BY <2>2, <2>3, <3>1
    <2> QED BY <2>1, <2>2, <2>4
  <1>11. w \in [1..N -> Nat \ {0}]
    BY <1>10
  <1>12. ASSUME NEW i \in 1..N, NEW j \in 1..N, i < j PROVE w[i] < w[j]
    <2>1. h[i] < h[j]
      BY <1>3, <1>4, <1>12 DEF Picked
    <2>2. h[i] \in Int /\ h[j] \in Int
      BY <1>5
    <2> QED BY <2>1, <2>2
  <1>13. \A i \in 1..N : r[i].time = w[i] * d
    BY <1>10
  <1> HIDE DEF w
  <1>14. Spaced(r, w, d)
    BY <1>4, <1>11, <1>12, <1>13 DEF Spaced
  <1>15. \E m \in Nat : Level(FillGaps(r, d), m, d)
    BY <1>0, <1>2, <1>14, FillsLevel
  <1>16. ASSUME ~stamped PROVE FillGaps(r, d) = <<>>
    <2>1. Len(r) = 0
      <3> SUFFICES ASSUME N # 0 PROVE FALSE
        BY <1>4
      <3>1. 1 \in 1..N
        OBVIOUS
      <3> QED BY <1>3, <1>4, <1>16, <3>1
    <2> QED BY <1>0, <1>2, <2>1, FilledNothing
  <1>17. ShownSeries(pair, d) = FillGaps(r, d)
    BY Zenon DEF ShownSeries, r, s
  <1> QED BY <1>9, <1>15, <1>16, <1>17

\* The series is drawable and of the pool subscribed to; a choice has its socket or
\* the timer of one; who waits has asked.
ChartInv ==
    /\ ChartTypeOK
    /\ Drawable(candles, shownPool)
    /\ stamped /\ drawn.step = chosen.step => \E m \in Nat : Level(candles, m, chosen.step)
    /\ ~stamped => Len(candles) <= 1 /\ \A i \in 1..Len(candles) : candles[i].time = NoTime
    /\ waiting => asked # {}
    /\ chosen.pair # NoPair => wire.state \in {"connecting", "open"} \/ wire.timer
    /\ wire.state = "open" => wire.room = shownPool

\* An empty chart is in order.
LEMMA NothingDrawable ==
    /\ \A pool : Drawable(<<>>, pool)
    /\ \A d : Level(<<>>, 0, d)
    /\ Len(<<>>) <= 1 /\ \A i \in 1..Len(<<>>) : <<>>[i].time = NoTime
  <1>1. Len(<<>>) = 0 /\ <<>> \in Seq(Bars) /\ \A i \in 1..0 : FALSE
    OBVIOUS
  <1>2. GapsFlat(<<>>)
    BY <1>1 DEF GapsFlat
  <1>3. Len(Real(<<>>)) <= Window
    <2>1. Len(Real(<<>>)) <= Len(<<>>) /\ Len(Real(<<>>)) \in Nat
      BY <1>1, RealIs
    <2> QED BY <1>1, <2>1, ChartAssumption
  <1>4. ~ (Len(<<>>) > 0)
    BY <1>1
  <1>5. ASSUME NEW pool PROVE Drawable(<<>>, pool)
    <2>1. \A i \in 1..Len(<<>>) : <<>>[i].of = pool
      BY <1>1
    <2> QED BY <1>1, <1>2, <1>3, <1>4, <2>1, Zenon DEF Drawable
  <1>6. ASSUME NEW d PROVE Level(<<>>, 0, d)
    BY <1>1 DEF Level
  <1>7. Len(<<>>) <= 1 /\ \A i \in 1..Len(<<>>) : <<>>[i].time = NoTime
    BY <1>1
  <1> QED BY <1>5, <1>6, <1>7

Wires == [state : {"none", "connecting", "open", "closed"}, timer : BOOLEAN, room : Pairs \cup {NoPair}]
ChartChoices == [pair : Pairs \cup {NoPair}, step : Steps \cup {1}]

\* A socket that starts anew.
LEMMA FreshWire ==
    /\ NoWire \in Wires /\ NoWire.state = "none"
    /\ Connecting \in Wires /\ Connecting.state = "connecting"
  <1>1. NoWire \in Wires /\ NoWire.state = "none" /\ NoWire.timer = FALSE /\ NoWire.room = NoPair
    BY DEF NoWire, Wires
  <1>2. Connecting \in Wires /\ Connecting.state = "connecting"
    BY <1>1 DEF Connecting, Wires
  <1> QED BY <1>1, <1>2

LEMMA ChartInitial == ChartInit => ChartInv
  <1> SUFFICES ASSUME ChartInit PROVE ChartInv
    OBVIOUS
  <1>1. /\ stamped \in Stamps /\ chosen = NoChoice /\ drawn = NoChoice /\ candles = <<>>
        /\ shownPool = NoPair /\ asked = {} /\ waiting = FALSE /\ wire = NoWire
        /\ choices = 0 /\ ticks = 0 /\ cuts = 0
    BY DEF ChartInit
  <1>2. stamped \in BOOLEAN
    BY <1>1, ChartAssumption
  <1>3. NoChoice \in ChartChoices /\ NoChoice.pair = NoPair
    BY DEF NoChoice, ChartChoices
  <1>4. \A i \in 1..Len(candles) : candles[i] \in [time : Int, close : Nat, gap : BOOLEAN, of : Pairs]
    <2>1. Len(candles) = 0
      BY <1>1
    <2> QED BY <2>1
  <1>5. ChartTypeOK
    <2>1. {chosen, drawn} \subseteq [pair : Pairs \cup {NoPair}, step : Steps \cup {1}]
      BY <1>1, <1>3 DEF ChartChoices
    <2>2. wire \in [state : {"none", "connecting", "open", "closed"}, timer : BOOLEAN, room : Pairs \cup {NoPair}]
      BY <1>1, FreshWire DEF Wires
    <2>5. waiting \in BOOLEAN
      BY <1>1
    <2>6. choices \in Nat /\ ticks \in Nat /\ cuts \in Nat
      BY <1>1
    <2>3. waiting \in BOOLEAN /\ {choices, ticks, cuts} \subseteq Nat /\ shownPool \in Pairs \cup {NoPair}
      BY <1>1, <2>5, <2>6
    <2>4. asked \subseteq [pair : Pairs, step : Steps, n : Nat]
      BY <1>1
    <2> QED BY <1>2, <1>4, <2>1, <2>2, <2>3, <2>4 DEF ChartTypeOK
  <1>6. /\ Drawable(candles, shownPool) /\ Level(candles, 0, chosen.step) /\ 0 \in Nat
        /\ Len(candles) <= 1 /\ \A i \in 1..Len(candles) : candles[i].time = NoTime
    BY <1>1, NothingDrawable
  <1>7. ~waiting /\ chosen.pair = NoPair /\ wire.state # "open"
    BY <1>1, <1>3, FreshWire
  <1> QED BY <1>5, <1>6, <1>7 DEF ChartInv

\* What is drawn keeps one bar per bucket, of one choice.
LEMMA ChartMeans == ChartInv => ChartHolds
  <1> SUFFICES ASSUME ChartInv PROVE ChartHolds
    OBVIOUS
  <1>1. /\ candles \in Seq(Bars) /\ GapsFlat(candles) /\ Len(Real(candles)) <= Window
        /\ \A i \in 1..Len(candles) : candles[i].of = shownPool
    BY DEF ChartInv, Drawable
  <1>2. PICK n \in Nat : n = Len(candles)
    BY <1>1
  <1>3. \A i \in 1..Len(candles) : candles[i].gap => candles[i].close = candles[i - 1].close
    BY <1>1 DEF GapsFlat
  <1>4. PICK d \in Nat : d = chosen.step
    <2>1. chosen \in ChartChoices
      BY DEF ChartInv, ChartTypeOK, ChartChoices
    <2>2. chosen.step \in Steps \cup {1}
      BY <2>1 DEF ChartChoices
    <2> QED BY <2>2, ChartAssumption
  <1>5. ASSUME drawn.step = chosen.step, NEW i \in 1..(n - 1) PROVE candles[i + 1].time = candles[i].time + d
    <2>1. CASE stamped
      <3>1. PICK m \in Nat : Level(candles, m, d)
        BY <1>4, <1>5, <2>1 DEF ChartInv
      <3>2. i \in 1..n /\ i + 1 \in 1..n
        BY <1>2
      <3>3. PICK j \in 1..n : j = i + 1
        BY <3>2
      <3>4. candles[i].time = (m + i) * d /\ candles[j].time = (m + j) * d
        BY <1>2, <3>1, <3>2 DEF Level
      <3>5. m + j = (m + i) + 1 /\ ((m + i) + 1) * d = (m + i) * d + 1 * d /\ 1 * d = d
        BY <3>3, Multiples
      <3>6. candles[j].time = candles[i].time + d
        BY <3>4, <3>5
      <3> QED BY <3>3, <3>6
    <2>2. CASE ~stamped
      <3>1. n <= 1
        BY <1>2, <2>2 DEF ChartInv
      <3> QED BY <3>1
    <2> QED BY <2>1, <2>2
  <1>6. drawn.step = chosen.step => \A i \in 1..(Len(candles) - 1) :
             candles[i + 1].time = candles[i].time + chosen.step
    BY <1>2, <1>4, <1>5
  <1>7. /\ waiting => asked # {}
        /\ chosen.pair # NoPair => wire.state \in {"connecting", "open"} \/ wire.timer
        /\ wire.state = "open" => wire.room = shownPool
    BY DEF ChartInv
  <1> QED BY <1>1, <1>3, <1>6, <1>7, Zenon DEF ChartHolds

\* What only the socket decides.
WireKept ==
    /\ wire' \in Wires
    /\ chosen'.pair # NoPair => wire'.state \in {"connecting", "open"} \/ wire'.timer
    /\ wire'.state = "open" => wire'.room = shownPool'

\* The socket follows the choice,
LEMMA Rejoined ==
    ASSUME Rejoin(chosen'.pair) PROVE WireKept
  <1>1. CASE chosen'.pair = NoPair
    <2>1. wire' = NoWire
      BY <1>1 DEF Rejoin
    <2> QED BY <1>1, <2>1, FreshWire DEF WireKept
  <1>2. CASE chosen'.pair # NoPair
    <2>1. wire' = Connecting
      BY <1>2 DEF Rejoin
    <2> QED BY <1>2, <2>1, FreshWire DEF WireKept
  <1> QED BY <1>1, <1>2

\* and stays as long as the choice and the pool do.
LEMMA WireStays ==
    ASSUME ChartInv, wire' = wire, chosen' = chosen, shownPool' = shownPool PROVE WireKept
  BY DEF ChartInv, ChartTypeOK, WireKept, Wires

\* The parts of the invariant after a step.
LEMMA ChartParts ==
    ASSUME stamped' \in BOOLEAN, chosen' \in ChartChoices, drawn' \in ChartChoices,
           Drawable(candles', shownPool'), shownPool' \in Pairs \cup {NoPair},
           asked' \subseteq [pair : Pairs, step : Steps, n : Nat], waiting' \in BOOLEAN, WireKept,
           choices' \in Nat, ticks' \in Nat, cuts' \in Nat,
           stamped' /\ drawn'.step = chosen'.step => \E m \in Nat : Level(candles', m, chosen'.step),
           ~stamped' => Len(candles') <= 1 /\ \A i \in 1..Len(candles') : candles'[i].time = NoTime,
           waiting' => asked' # {}
    PROVE  ChartInv'
  <1>1. candles' \in Seq(Bars)
    BY DEF Drawable
  <1>2. \A i \in 1..Len(candles') : candles'[i] \in [time : Int, close : Nat, gap : BOOLEAN, of : Pairs]
    <2> DEFINE c == candles'
    <2>1. c \in Seq(Bars)
      BY <1>1
    <2> HIDE DEF c
    <2>2. \A i \in 1..Len(c) : c[i] \in Bars
      BY <2>1
    <2> QED BY <2>2 DEF c, Bars
  <1>3. {chosen', drawn'} \subseteq [pair : Pairs \cup {NoPair}, step : Steps \cup {1}]
    BY DEF ChartChoices
  <1>4. wire' \in [state : {"none", "connecting", "open", "closed"}, timer : BOOLEAN, room : Pairs \cup {NoPair}]
    BY DEF WireKept, Wires
  <1>5. {choices', ticks', cuts'} \subseteq Nat
    OBVIOUS
  <1>6. ChartTypeOK'
    BY <1>2, <1>3, <1>4, <1>5, Zenon DEF ChartTypeOK
  <1>7. Drawable(candles, shownPool)'
    BY Zenon DEF Drawable, GapsFlat, Real, Bars, FlattenSeq
  <1>8. (stamped /\ drawn.step = chosen.step => \E m \in Nat : Level(candles, m, chosen.step))'
    BY Zenon DEF Level
  <1>9. (chosen.pair # NoPair => wire.state \in {"connecting", "open"} \/ wire.timer)'
    BY Zenon DEF WireKept, NoPair
  <1>10. (wire.state = "open" => wire.room = shownPool)'
    BY Zenon DEF WireKept
  <1>11. (~stamped => Len(candles) <= 1 /\ \A i \in 1..Len(candles) : candles[i].time = NoTime)'
    BY Zenon DEF NoTime
  <1> QED BY <1>6, <1>7, <1>8, <1>9, <1>10, <1>11, Zenon DEF ChartInv

\* The types, one by one.
LEMMA ChartTypes ==
    ASSUME ChartInv
    PROVE  /\ stamped \in BOOLEAN /\ chosen \in ChartChoices /\ drawn \in ChartChoices
           /\ chosen.step \in Nat \ {0} /\ candles \in Seq(Bars) /\ shownPool \in Pairs \cup {NoPair}
           /\ asked \subseteq [pair : Pairs, step : Steps, n : Nat] /\ waiting \in BOOLEAN
           /\ wire \in Wires /\ choices \in Nat /\ ticks \in Nat /\ cuts \in Nat
  <1>1. chosen \in ChartChoices /\ drawn \in ChartChoices
    BY DEF ChartInv, ChartTypeOK, ChartChoices
  <1>2. chosen.step \in Nat \ {0}
    <2>1. chosen.step \in Steps \cup {1}
      BY <1>1 DEF ChartChoices
    <2>2. Steps \subseteq Nat \ {0} /\ 1 \in Nat \ {0}
      BY ChartAssumption
    <2> DEFINE s == chosen.step
    <2> HIDE DEF s
    <2>3. s \in Steps \cup {1} => s \in Nat \ {0}
      BY <2>2
    <2> QED BY <2>1, <2>3 DEF s
  <1>3. choices \in Nat /\ ticks \in Nat /\ cuts \in Nat
    BY DEF ChartInv, ChartTypeOK
  <1>4. stamped \in BOOLEAN /\ shownPool \in Pairs \cup {NoPair} /\ waiting \in BOOLEAN
    BY Zenon DEF ChartInv, ChartTypeOK
  <1>5. asked \subseteq [pair : Pairs, step : Steps, n : Nat]
    BY DEF ChartInv, ChartTypeOK
  <1>6. wire \in Wires
    BY DEF ChartInv, ChartTypeOK, Wires
  <1>7. candles \in Seq(Bars)
    BY DEF ChartInv, Drawable
  <1> QED BY <1>1, <1>2, <1>3, <1>4, <1>5, <1>6, <1>7

\* A step that leaves the series and the choice.
LEMMA SeriesStays ==
    ASSUME ChartInv, UNCHANGED <<stamped, chosen, candles, shownPool, asked, waiting, drawn, choices, ticks>>,
           cuts' \in Nat, WireKept
    PROVE  ChartInv'
  <1>1. /\ stamped' \in BOOLEAN /\ chosen' \in ChartChoices /\ drawn' \in ChartChoices
        /\ shownPool' \in Pairs \cup {NoPair}
        /\ asked' \subseteq [pair : Pairs, step : Steps, n : Nat] /\ waiting' \in BOOLEAN
        /\ choices' \in Nat /\ ticks' \in Nat
    BY ChartTypes
  <1>2. Drawable(candles', shownPool')
    BY DEF ChartInv
  <1>3. stamped' /\ drawn'.step = chosen'.step => \E m \in Nat : Level(candles', m, chosen'.step)
    BY DEF ChartInv
  <1>4. ~stamped' => Len(candles') <= 1 /\ \A i \in 1..Len(candles') : candles'[i].time = NoTime
    BY DEF ChartInv
  <1>5. waiting' => asked' # {}
    BY DEF ChartInv
  <1> QED BY <1>1, <1>2, <1>3, <1>4, <1>5, ChartParts

LEMMA ChooseKeeps ==
    ASSUME ChartInv, NEW pair, NEW step,
           (pair \in Pairs /\ step \in Steps) \/ (pair = NoPair /\ step = 1),
           Choose(pair, step)
    PROVE  ChartInv'
  <1> DEFINE c == [pair |-> pair, step |-> step]
  <1>1. /\ choices' = choices + 1 /\ chosen' = c /\ drawn' = chosen' /\ candles' = <<>> /\ shownPool' = NoPair
        /\ Rejoin(pair) /\ UNCHANGED <<stamped, ticks, cuts>>
        /\ IF pair = NoPair THEN UNCHANGED <<asked, waiting>>
           ELSE asked' = asked \cup {[pair |-> pair, step |-> step, n |-> choices]} /\ waiting' = TRUE
    BY Zenon DEF Choose
  <1>2. c \in ChartChoices /\ c.pair = pair /\ c.step = step
    BY DEF ChartChoices
  <1> HIDE DEF c
  <1>3. WireKept
    BY <1>1, <1>2, Rejoined
  <1>4. stamped' \in BOOLEAN /\ ticks' \in Nat /\ cuts' \in Nat /\ choices' \in Nat
    <2>1. choices + 1 \in Nat
      BY ChartTypes
    <2> QED BY <1>1, <2>1, ChartTypes
  <1>5. asked' \subseteq [pair : Pairs, step : Steps, n : Nat] /\ waiting' \in BOOLEAN /\ (waiting' => asked' # {})
    <2>1. CASE pair = NoPair
      <3>1. asked' = asked /\ waiting' = waiting
        BY <1>1, <2>1
      <3> QED BY <3>1, ChartTypes DEF ChartInv
    <2>2. CASE pair # NoPair
      <3>1. asked' = asked \cup {[pair |-> pair, step |-> step, n |-> choices]} /\ waiting' = TRUE
        BY <1>1, <2>2
      <3>2. [pair |-> pair, step |-> step, n |-> choices] \in [pair : Pairs, step : Steps, n : Nat]
        BY <2>2, ChartTypes
      <3>3. asked \subseteq [pair : Pairs, step : Steps, n : Nat]
        BY ChartTypes
      <3> QED BY <3>1, <3>2, <3>3
    <2> QED BY <2>1, <2>2
  <1>6. /\ Drawable(candles', shownPool') /\ Level(candles', 0, chosen'.step) /\ 0 \in Nat
        /\ Len(candles') <= 1 /\ \A i \in 1..Len(candles') : candles'[i].time = NoTime
    BY <1>1, NothingDrawable
  <1>7. chosen' \in ChartChoices /\ drawn' \in ChartChoices /\ shownPool' \in Pairs \cup {NoPair}
    BY <1>1, <1>2
  <1> QED BY <1>3, <1>4, <1>5, <1>6, <1>7, ChartParts

LEMMA RespondKeeps ==
    ASSUME ChartInv, NEW r \in asked, Respond(r)
    PROVE  ChartInv'
  <1>1. /\ asked' = asked \ {r} /\ waiting' = FALSE
        /\ \/ /\ candles' = ShownSeries(r.pair, r.step)
              /\ shownPool' = r.pair
              /\ drawn' = [pair |-> r.pair, step |-> r.step]
           \/ /\ candles' = <<>>
              /\ shownPool' \in {shownPool, NoPair}
              /\ drawn' = chosen
        /\ IF shownPool' # shownPool THEN Rejoin(chosen.pair) ELSE UNCHANGED wire
        /\ UNCHANGED <<stamped, chosen, choices, ticks, cuts>>
    BY Zenon DEF Respond, ShownSeries
  <1>2. r.pair \in Pairs /\ r.step \in Steps
    <2>1. r \in [pair : Pairs, step : Steps, n : Nat]
      BY ChartTypes
    <2> QED BY <2>1
  <1>3. WireKept
    <2>1. CASE shownPool' # shownPool
      <3>1. Rejoin(chosen'.pair)
        BY <1>1, <2>1
      <3> QED BY <3>1, Rejoined
    <2>2. CASE shownPool' = shownPool
      BY <1>1, <2>2, WireStays
    <2> QED BY <2>1, <2>2
  <1>4. /\ stamped' \in BOOLEAN /\ chosen' \in ChartChoices /\ choices' \in Nat /\ ticks' \in Nat /\ cuts' \in Nat
        /\ waiting' \in BOOLEAN /\ ~waiting' /\ asked' \subseteq [pair : Pairs, step : Steps, n : Nat]
    BY <1>1, ChartTypes
  <1>5. CASE candles' = ShownSeries(r.pair, r.step) /\ shownPool' = r.pair /\ drawn' = [pair |-> r.pair, step |-> r.step]
    <2> DEFINE c == [pair |-> r.pair, step |-> r.step]
    <2>1. c \in ChartChoices /\ c.step = r.step
      BY <1>2 DEF ChartChoices
    <2> HIDE DEF c
    <2>2. drawn' \in ChartChoices /\ shownPool' \in Pairs \cup {NoPair}
      BY <1>2, <1>5, <2>1 DEF c
    <2>3. /\ Drawable(ShownSeries(r.pair, r.step), r.pair)
          /\ \E m \in Nat : Level(ShownSeries(r.pair, r.step), m, r.step)
          /\ ~stamped => ShownSeries(r.pair, r.step) = <<>>
      BY <1>2, ShownIs
    <2>4. Drawable(candles', shownPool')
      BY <1>5, <2>3
    <2>5. stamped' /\ drawn'.step = chosen'.step => \E m \in Nat : Level(candles', m, chosen'.step)
      BY <1>5, <2>1, <2>3 DEF c
    <2>6. ~stamped' => Len(candles') <= 1 /\ \A i \in 1..Len(candles') : candles'[i].time = NoTime
      <3>1. ASSUME ~stamped' PROVE candles' = <<>>
        BY <1>1, <1>5, <2>3, <3>1
      <3> QED BY <3>1, NothingDrawable
    <2> QED BY <1>3, <1>4, <2>2, <2>4, <2>5, <2>6, ChartParts
  <1>6. CASE candles' = <<>> /\ shownPool' \in {shownPool, NoPair} /\ drawn' = chosen
    <2>1. drawn' \in ChartChoices /\ shownPool' \in Pairs \cup {NoPair}
      BY <1>6, ChartTypes
    <2>2. /\ Drawable(candles', shownPool') /\ Level(candles', 0, chosen'.step) /\ 0 \in Nat
          /\ Len(candles') <= 1 /\ \A i \in 1..Len(candles') : candles'[i].time = NoTime
      BY <1>6, NothingDrawable
    <2> QED BY <1>3, <1>4, <2>1, <2>2, ChartParts
  <1> QED BY <1>1, <1>5, <1>6

LEMMA OpenedKeeps ==
    ASSUME ChartInv, Opened
    PROVE  ChartInv'
  <1>1. /\ wire.state = "connecting" /\ wire' = [wire EXCEPT !.state = "open", !.room = shownPool]
        /\ UNCHANGED <<stamped, chosen, candles, shownPool, asked, waiting, drawn, choices, ticks, cuts>>
    BY Zenon DEF Opened
  <1>2. wire' \in Wires /\ wire'.state = "open" /\ wire'.room = shownPool
    BY <1>1, ChartTypes DEF Wires
  <1>3. WireKept
    BY <1>1, <1>2 DEF WireKept
  <1>4. cuts' \in Nat
    BY <1>1, ChartTypes
  <1> QED BY <1>1, <1>3, <1>4, SeriesStays

LEMMA CutKeeps ==
    ASSUME ChartInv, Cut
    PROVE  ChartInv'
  <1>1. /\ cuts' = cuts + 1 /\ wire' = [NoWire EXCEPT !.state = "closed", !.timer = TRUE]
        /\ UNCHANGED <<stamped, chosen, candles, shownPool, asked, waiting, drawn, choices, ticks>>
    BY Zenon DEF Cut
  <1>2. wire' \in Wires /\ wire'.state = "closed" /\ wire'.timer
    BY <1>1, FreshWire DEF Wires
  <1>3. WireKept
    BY <1>1, <1>2 DEF WireKept
  <1>4. cuts' \in Nat
    BY <1>1, ChartTypes
  <1> QED BY <1>1, <1>3, <1>4, SeriesStays

LEMMA ReconnectKeeps ==
    ASSUME ChartInv, Reconnect
    PROVE  ChartInv'
  <1>1. /\ wire' = Connecting
        /\ UNCHANGED <<stamped, chosen, candles, shownPool, asked, waiting, drawn, choices, ticks, cuts>>
    BY Zenon DEF Reconnect
  <1>2. WireKept
    BY <1>1, FreshWire DEF WireKept
  <1>3. cuts' \in Nat
    BY <1>1, ChartTypes
  <1> QED BY <1>1, <1>2, <1>3, SeriesStays

LEMMA LiveKeeps ==
    ASSUME ChartInv, NEW time \in 1..(Clock + 2), Live(time)
    PROVE  ChartInv'
  <1> DEFINE x == Bar(IF stamped THEN time ELSE NoTime, time, shownPool)  d == chosen.step
             out == MergeLiveCandle(candles, x, d)
  <1>1. /\ ticks' = ticks + 1 /\ wire.state = "open" /\ wire.room # NoPair /\ wire.room = shownPool
        /\ time % chosen.step = 0 /\ candles' = out
        /\ drawn' = IF candles = <<>> THEN chosen ELSE drawn
        /\ UNCHANGED <<stamped, chosen, shownPool, asked, waiting, wire, choices, cuts>>
    BY Zenon DEF Live
  <1>2. shownPool \in Pairs /\ d \in Nat \ {0} /\ time \in Nat /\ candles \in Seq(Bars)
    BY <1>1, ChartTypes, ChartAssumption
  <1> HIDE DEF d
  <1>3. PICK t \in Int : t = IF stamped THEN time ELSE NoTime
    <2>1. NoTime \in Int
      BY DEF NoTime
    <2>2. (IF stamped THEN time ELSE NoTime) \in Int
      BY <1>2, <2>1
    <2> QED BY <2>2
  <1>4. x = [time |-> t, close |-> time, gap |-> FALSE, of |-> shownPool]
    BY <1>3 DEF Bar
  <1> HIDE DEF x
  <1>5. x \in Bars
    BY <1>2, <1>4 DEF Bars
  <1>6. x.time = t /\ ~x.gap /\ x.of = shownPool
    BY <1>4
  <1> HIDE DEF out
  <1>7. Drawable(out, shownPool)
    <2>1. Drawable(candles, shownPool)
      BY DEF ChartInv
    <2> QED BY <1>2, <1>5, <1>6, <2>1, MergeDrawable DEF out
  <1>8. ASSUME stamped, drawn'.step = d PROVE \E m \in Nat : Level(out, m, d)
    <2>1. PICK c \in Nat \ {0} : time = c * d
      <3>1. time % d = 0
        BY <1>1 DEF d
      <3>2. time = d * (time \div d) + (time % d) /\ time \div d \in Nat
        BY <1>2
      <3>3. PICK c \in Nat : c = time \div d
        BY <3>2
      <3>4. time = c * d
        BY <1>2, <3>1, <3>2, <3>3
      <3>5. c # 0
        <4> SUFFICES ASSUME c = 0 PROVE FALSE
          OBVIOUS
        <4>1. 0 * d = 0
          BY <1>2
        <4>2. time # 0
          OBVIOUS
        <4> QED BY <3>4, <4>1, <4>2
      <3> QED BY <3>4, <3>5
    <2>2. x.time = c * d
      BY <1>3, <1>6, <1>8, <2>1
    <2>3. \E m \in Nat : Level(candles, m, d)
      <3>1. CASE candles = <<>>
        BY <3>1, NothingDrawable
      <3>2. CASE candles # <<>>
        <4>1. drawn' = drawn
          BY <1>1, <3>2
        <4> QED BY <1>8, <4>1 DEF ChartInv, d
      <3> QED BY <3>1, <3>2
    <2> QED BY <1>2, <1>5, <2>2, <2>3, MergeLevel DEF out
  <1>9. ASSUME ~stamped PROVE Len(out) <= 1 /\ \A i \in 1..Len(out) : out[i].time = NoTime
    <2>1. x.time = NoTime
      BY <1>3, <1>6, <1>9
    <2>2. Len(candles) <= 1 /\ \A i \in 1..Len(candles) : candles[i].time = NoTime
      BY <1>9 DEF ChartInv
    <2> QED BY <1>2, <1>5, <2>1, <2>2, MergeUntimed DEF out
  <1>10. WireKept
    BY <1>1, WireStays
  <1>11. ticks' \in Nat
    BY <1>1, ChartTypes
  <1>12. /\ stamped' \in BOOLEAN /\ chosen' \in ChartChoices /\ drawn' \in ChartChoices
         /\ shownPool' \in Pairs \cup {NoPair}
         /\ asked' \subseteq [pair : Pairs, step : Steps, n : Nat] /\ waiting' \in BOOLEAN
         /\ choices' \in Nat /\ cuts' \in Nat
    BY <1>1, ChartTypes
  <1>13. waiting' => asked' # {}
    BY <1>1 DEF ChartInv
  <1>14. Drawable(candles', shownPool')
    BY <1>1, <1>7
  <1>15. stamped' /\ drawn'.step = chosen'.step => \E m \in Nat : Level(candles', m, chosen'.step)
    BY <1>1, <1>8 DEF d
  <1>16. ~stamped' => Len(candles') <= 1 /\ \A i \in 1..Len(candles') : candles'[i].time = NoTime
    BY <1>1, <1>9
  <1> QED BY <1>10, <1>11, <1>12, <1>13, <1>14, <1>15, <1>16, ChartParts

LEMMA ChartStep ==
    ASSUME ChartInv, ChartNext \/ UNCHANGED chartVars
    PROVE  ChartInv'
  <1>1. CASE UNCHANGED chartVars
    <2>1. UNCHANGED <<stamped, chosen, candles, shownPool, asked, waiting, drawn, choices, ticks, cuts>> /\ wire' = wire
      BY <1>1 DEF chartVars
    <2>2. cuts' \in Nat
      BY <2>1, ChartTypes
    <2>3. WireKept
      BY <2>1, WireStays
    <2> QED BY <2>1, <2>2, <2>3, SeriesStays
  <1>2. CASE \E pair \in Pairs, step \in Steps : Choose(pair, step)
    <2>1. PICK pair \in Pairs, step \in Steps : Choose(pair, step)
      BY <1>2
    <2>2. (pair \in Pairs /\ step \in Steps) \/ (pair = NoPair /\ step = 1)
      OBVIOUS
    <2> QED BY <2>1, <2>2, ChooseKeeps
  <1>3. CASE Choose(NoPair, 1)
    BY <1>3, ChooseKeeps
  <1>4. CASE \E r \in asked : Respond(r)
    BY <1>4, RespondKeeps
  <1>5. CASE \E time \in 1..(Clock + 2) : Live(time)
    BY <1>5, LiveKeeps
  <1> QED BY <1>1, <1>2, <1>3, <1>4, <1>5, OpenedKeeps, CutKeeps, ReconnectKeeps DEF ChartNext
=============================================================================
