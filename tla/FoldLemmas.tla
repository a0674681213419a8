----------------------------- MODULE FoldLemmas -----------------------------
(* Induction over numbers and folds, in the form the provers can use: with    *)
(* sets and functions where the library's theorems have operators.            *)
EXTENDS Integers, FiniteSetsExt, SequencesExt, Functions, FiniteSetTheorems, WellFoundedInduction, TLAPS

Below == {p \in Nat \X Nat : p[1] < p[2]}

LEMMA NatIsWellFounded == IsWellFoundedOn(Below, Nat)
BY NatLessThanWellFounded DEF OpToRel, Below

LEMMA BelowIs == \A a, b \in Nat : <<a, b>> \in Below <=> a < b
BY DEF Below

\* The least and the greatest of a set of numbers, from the order of the naturals.
LEMMA LeastIs == ASSUME NEW S \in SUBSET Nat, S # {} PROVE Min(S) \in S /\ \A n \in S : Min(S) <= n
<1>1. PICK m \in S : \A n \in S : <<n, m>> \notin Below BY NatIsWellFounded, WFMin
<1>2. \A n \in S : m <= n
  <2>1. \A n \in S : n \in Nat /\ m \in Nat /\ ~(n < m) BY <1>1, BelowIs
  <2> QED BY <2>1
<1>3. \A k \in S : (\A n \in S : k <= n) <=> k = m BY <1>2
<1> QED BY <1>2, <1>3 DEF Min

LEMMA GreatestIs == ASSUME NEW k \in Nat, NEW S \in SUBSET (1..k), S # {} PROVE Max(S) \in S /\ \A n \in S : Max(S) >= n
<1> DEFINE T == {k - n : n \in S}
<1>1. T \in SUBSET Nat /\ T # {}
  <2>1. \A n \in S : k - n \in Nat OBVIOUS
  <2> QED BY <2>1
<1>2. PICK m \in T : \A n \in T : <<n, m>> \notin Below BY <1>1, NatIsWellFounded, WFMin
<1>3. \A n \in T : m <= n
  <2> HIDE DEF T
  <2>1. \A n \in T : n \in Nat /\ m \in Nat /\ ~(n < m) BY <1>1, <1>2, BelowIs
  <2> QED BY <2>1
<1>4. PICK g \in S : m = k - g OBVIOUS
<1>5. \A n \in S : g >= n BY <1>3, <1>4
<1>6. \A j \in S : (\A n \in S : j >= n) <=> j = g BY <1>5
<1> QED BY <1>5, <1>6 DEF Max

\* Induction over the naturals, on a set.
LEMMA Counting ==
  ASSUME NEW S, 0 \in S, \A n \in Nat : n \in S => n + 1 \in S
  PROVE  \A n \in Nat : n \in S
<1> SUFFICES ASSUME Nat \ S # {} PROVE FALSE OBVIOUS
<1>1. PICK m \in Nat \ S : \A n \in Nat \ S : <<n, m>> \notin Below BY NatIsWellFounded, WFMin
<1>2. m # 0 BY <1>1
<1>3. m - 1 \in Nat /\ m = (m - 1) + 1 BY <1>2
<1>4. m - 1 \in S
  <2>1. <<m - 1, m>> \in Below BY <1>3, BelowIs
  <2> QED BY <1>1, <1>3, <2>1
<1> QED BY <1>1, <1>3, <1>4

\* The same, as far as some n.
LEMMA CountingTo ==
  ASSUME NEW n \in Nat, NEW S, 0 \in S, \A k \in 0..(n - 1) : k \in S => k + 1 \in S
  PROVE  \A k \in 0..n : k \in S
<1> DEFINE T == {k \in Nat : k <= n => k \in S}
<1>1. 0 \in T OBVIOUS
<1>2. ASSUME NEW k \in Nat, k \in T PROVE k + 1 \in T
  <2>1. CASE k + 1 <= n
    <3>1. k \in 0..(n - 1) /\ k \in S BY <1>2, <2>1
    <3> QED BY <3>1
  <2>2. CASE ~(k + 1 <= n) BY <2>2
  <2> QED BY <2>1, <2>2
<1> HIDE DEF T
<1>3. \A k \in Nat : k \in T BY <1>1, <1>2, Counting
<1> QED BY <1>3 DEF T

\* The values of a function on a finite set are finitely many.
LEMMA ImageFinite == ASSUME NEW f, IsFiniteSet(DOMAIN f) PROVE IsFiniteSet(Range(f))
<1> DEFINE g == [x \in DOMAIN f |-> f[x]]
<1>1. g \in Surjection(DOMAIN f, Range(f)) BY DEF Surjection, Range
<1> HIDE DEF g
<1> QED BY <1>1, FS_Surjection

\* A finite set of whole numbers has a greatest one.
LEMMA MaxIs ==
  ASSUME NEW S, S \subseteq Int, IsFiniteSet(S), S # {}
  PROVE  Max(S) \in S /\ \A n \in S : Max(S) >= n
<1> DEFINE Tops(T) == \E m \in T : \A n \in T : m >= n
           N == {k \in Nat : \A T \in SUBSET S : Cardinality(T) = k + 1 => Tops(T)}
<1>1. 0 \in N
  <2> SUFFICES ASSUME NEW T \in SUBSET S, Cardinality(T) = 1 PROVE Tops(T) OBVIOUS
  <2>1. IsFiniteSet(T) BY FS_Subset
  <2>2. PICK m : T = {m} BY <2>1, FS_Singleton
  <2> QED BY <2>2
<1>2. ASSUME NEW k \in Nat, k \in N PROVE k + 1 \in N
  <2> SUFFICES ASSUME NEW T \in SUBSET S, Cardinality(T) = (k + 1) + 1 PROVE Tops(T) OBVIOUS
  <2>1. IsFiniteSet(T) BY FS_Subset
  <2>2. PICK x : x \in T BY <2>1, FS_EmptySet
  <2>3. Cardinality(T \ {x}) = k + 1
    <3>1. Cardinality(T \ {x}) = Cardinality(T) - 1 BY <2>1, <2>2, FS_RemoveElement
    <3> QED BY <3>1
  <2>4. PICK m \in T \ {x} : \A n \in T \ {x} : m >= n BY <1>2, <2>3
  <2>5. CASE m >= x BY <2>4, <2>5
  <2>6. CASE ~(m >= x)
    <3>1. x \in Int /\ m \in Int /\ \A n \in T : n \in Int BY <2>2, <2>4
    <3>2. \A n \in T : x >= n BY <2>4, <2>6, <3>1
    <3> QED BY <2>2, <3>2
  <2> QED BY <2>5, <2>6
<1>3. \A k \in Nat : k \in N
  <2> HIDE DEF N
  <2> QED BY <1>1, <1>2, Counting
<1>4. Cardinality(S) \in Nat /\ Cardinality(S) # 0 BY FS_CardinalityType, FS_EmptySet
<1>5. Cardinality(S) - 1 \in Nat /\ Cardinality(S) = (Cardinality(S) - 1) + 1 BY <1>4
<1>6. PICK m \in S : \A n \in S : m >= n BY <1>3, <1>5
<1>7. \A j \in S : (\A n \in S : j >= n) <=> j = m BY <1>6
<1> QED BY <1>6, <1>7 DEF Max

LEMMA InitialIs ==
  ASSUME NEW k \in Nat
  PROVE  1..(k + 1) # {} /\ Max(1..(k + 1)) = k + 1 /\ (1..(k + 1)) \ {k + 1} = 1..k
<1>1. k + 1 \in 1..(k + 1) OBVIOUS
<1>2. Max(1..(k + 1)) \in 1..(k + 1) /\ Max(1..(k + 1)) >= k + 1
  <2> DEFINE R == 1..(k + 1)
  <2>1. k + 1 \in Nat /\ R \in SUBSET (1..(k + 1)) /\ k + 1 \in R BY <1>1
  <2> HIDE DEF R
  <2>2. Max(R) \in R /\ \A m \in R : Max(R) >= m BY <2>1, GreatestIs
  <2>3. Max(R) >= k + 1 BY <2>1, <2>2
  <2> QED BY <2>2, <2>3 DEF R
<1> QED BY <1>1, <1>2

\* FoldLeft goes through the positions of a sequence by the sets of those it has
\* gone through, the greatest last.  With a function for its operator there is
\* always such a fold.
FoldsBy(h, n, base, F) ==
  \A s \in SUBSET (1..n) : h[s] = IF s = {} THEN base ELSE F[<<h[s \ {Max(s)}], Max(s)>>]

LEMMA FoldExists ==
  ASSUME NEW V, NEW n \in Nat, NEW base \in V, NEW F \in [V \X (1..n) -> V]
  PROVE  \E h \in [SUBSET (1..n) -> V] : FoldsBy(h, n, base, F)
<1> DEFINE Q == {k \in Nat : \E h \in [SUBSET (1..k) -> V] : FoldsBy(h, k, base, F)}
<1>1. 0 \in Q
  <2> DEFINE g == [s \in SUBSET (1..0) |-> base]
  <2>1. 1..0 = {} OBVIOUS
  <2>2. g \in [SUBSET (1..0) -> V] /\ FoldsBy(g, 0, base, F) BY <2>1 DEF FoldsBy
  <2> QED BY <2>2
<1>2. ASSUME NEW k \in 0..(n - 1), k \in Q PROVE k + 1 \in Q
  <2>1. PICK h \in [SUBSET (1..k) -> V] : FoldsBy(h, k, base, F) BY <1>2
  <2> DEFINE g == [s \in SUBSET (1..(k + 1)) |->
                     IF k + 1 \in s THEN F[<<h[s \ {k + 1}], k + 1>>] ELSE h[s]]
  <2>2. \A s \in SUBSET (1..(k + 1)) :
          /\ s \ {k + 1} \in SUBSET (1..k)
          /\ k + 1 \notin s => s \in SUBSET (1..k)
          /\ k + 1 \in s => Max(s) = k + 1
    <3> SUFFICES ASSUME NEW s \in SUBSET (1..(k + 1))
                 PROVE  /\ s \ {k + 1} \in SUBSET (1..k)
                        /\ k + 1 \in s => Max(s) = k + 1 OBVIOUS
    <3>1. s \ {k + 1} \in SUBSET (1..k) OBVIOUS
    <3>2. ASSUME k + 1 \in s PROVE Max(s) = k + 1
      <4>1. k + 1 \in Nat /\ s # {} BY <3>2
      <4>2. Max(s) \in s /\ Max(s) >= k + 1 BY <3>2, <4>1, GreatestIs
      <4>3. Max(s) \in 1..(k + 1) BY <4>2
      <4> QED BY <4>2, <4>3
    <3> QED BY <3>1, <3>2
  <2>3. g \in [SUBSET (1..(k + 1)) -> V]
    <3> SUFFICES ASSUME NEW s \in SUBSET (1..(k + 1)) PROVE g[s] \in V OBVIOUS
    <3>1. CASE k + 1 \in s
      <4>1. h[s \ {k + 1}] \in V /\ k + 1 \in 1..n BY <2>1, <2>2
      <4> QED BY <3>1, <4>1
    <3>2. CASE k + 1 \notin s BY <2>1, <2>2, <3>2
    <3> QED BY <3>1, <3>2
  <2>4. FoldsBy(g, k + 1, base, F)
    <3> SUFFICES ASSUME NEW s \in SUBSET (1..(k + 1))
                 PROVE  g[s] = IF s = {} THEN base ELSE F[<<g[s \ {Max(s)}], Max(s)>>]
      BY DEF FoldsBy
    <3>1. CASE k + 1 \in s
      <4>1. Max(s) = k + 1 /\ s \ {k + 1} \in SUBSET (1..(k + 1)) /\ k + 1 \notin s \ {k + 1} BY <2>2, <3>1
      <4>2. g[s \ {k + 1}] = h[s \ {k + 1}] BY <4>1
      <4> QED BY <3>1, <4>1, <4>2
    <3>2. CASE k + 1 \notin s
      <4>1. s \in SUBSET (1..k) /\ g[s] = h[s] BY <2>2, <3>2
      <4>2. k + 1 \notin s \ {Max(s)} /\ s \ {Max(s)} \in SUBSET (1..(k + 1)) BY <3>2
      <4>3. g[s \ {Max(s)}] = h[s \ {Max(s)}] BY <4>2
      <4> QED BY <2>1, <4>1, <4>3 DEF FoldsBy
    <3> QED BY <3>1, <3>2
  <2> HIDE DEF g
  <2> QED BY <2>3, <2>4
<1> HIDE DEF Q
<1>3. \A k \in 0..n : k \in Q BY <1>1, <1>2, CountingTo
<1>4. n \in Q BY <1>3
<1> QED BY <1>4 DEF Q

\* The values a fold goes through, one position after the other.
FoldsWithin(V, n, base, F, it) ==
  /\ it[{}] = base
  /\ \A s \in SUBSET (1..n) :
       s # {} /\ it[s \ {Max(s)}] \in V => it[s] = F[<<it[s \ {Max(s)}], Max(s)>>]

ChainOf(chain, n, base, F, last) ==
  /\ chain[0] = base /\ chain[n] = last
  /\ \A k \in 0..(n - 1) : chain[k + 1] = F[<<chain[k], k + 1>>]

LEMMA FoldRuns ==
  ASSUME NEW V, NEW n \in Nat, NEW base \in V, NEW F \in [V \X (1..n) -> V], NEW it,
         FoldsWithin(V, n, base, F, it)
  PROVE  \E chain \in [0..n -> V] : ChainOf(chain, n, base, F, it[1..n])
<1> USE DEF FoldsWithin
<1> DEFINE chain == [k \in 0..n |-> it[1..k]]
<1>1. ASSUME NEW k \in 0..(n - 1), it[1..k] \in V
      PROVE  it[1..(k + 1)] \in V /\ it[1..(k + 1)] = F[<<it[1..k], k + 1>>]
  <2>1. k \in Nat /\ 1..(k + 1) \in SUBSET (1..n) /\ k + 1 \in 1..n OBVIOUS
  <2>2. 1..(k + 1) # {} /\ Max(1..(k + 1)) = k + 1 /\ (1..(k + 1)) \ {k + 1} = 1..k BY <2>1, InitialIs
  <2>3. it[1..(k + 1)] = F[<<it[1..k], k + 1>>] BY <1>1, <2>1, <2>2
  <2> QED BY <1>1, <2>1, <2>3
<1> DEFINE S == {k \in 0..n : it[1..k] \in V}
<1>2. 0 \in S
  <2>1. 1..0 = {} OBVIOUS
  <2> QED BY <2>1
<1>3. \A k \in 0..(n - 1) : k \in S => k + 1 \in S
  <2> SUFFICES ASSUME NEW k \in 0..(n - 1), k \in S PROVE k + 1 \in S OBVIOUS
  <2>1. it[1..k] \in V /\ k + 1 \in 0..n OBVIOUS
  <2>2. it[1..(k + 1)] \in V BY <1>1, <2>1
  <2> QED BY <2>1, <2>2
<1>4. \A k \in 0..n : k \in S
  <2> HIDE DEF S
  <2> QED BY <1>2, <1>3, CountingTo
<1>5. chain \in [0..n -> V] BY <1>4
<1>6. chain[0] = base
  <2>1. 1..0 = {} OBVIOUS
  <2> QED BY <2>1
<1>7. chain[n] = it[1..n] OBVIOUS
<1>8. \A k \in 0..(n - 1) : chain[k + 1] = F[<<chain[k], k + 1>>] BY <1>1, <1>4
<1> HIDE DEF chain
<1> QED BY <1>5, <1>6, <1>7, <1>8 DEF ChainOf
-----------------------------------------------------------------------------
\* A sum over the subsets of S, whichever element goes first.
Additive(g, S, f) ==
  /\ g \in [SUBSET S -> Int] /\ g[{}] = 0
  /\ \A T \in SUBSET S : \A x \in T : g[T] = f[x] + g[T \ {x}]

AnyOf(T) == CHOOSE x \in T : TRUE

\* The same with one element chosen, as the library folds it.
Adding(g, S, f) ==
  \A T \in SUBSET S : g[T] = IF T = {} THEN 0 ELSE f[AnyOf(T)] + g[T \ {AnyOf(T)}]

Sized(S, k) == {T \in SUBSET S : Cardinality(T) <= k}

LEMMA Smaller ==
  ASSUME NEW S, IsFiniteSet(S), NEW T \in SUBSET S, NEW x \in T
  PROVE  /\ IsFiniteSet(T) /\ Cardinality(T) \in Nat \ {0} /\ T \ {x} \in SUBSET S
         /\ Cardinality(T \ {x}) = Cardinality(T) - 1
<1>1. IsFiniteSet(T) BY FS_Subset
<1>2. Cardinality(T) \in Nat /\ Cardinality(T) # 0 BY <1>1, FS_CardinalityType, FS_EmptySet
<1>3. Cardinality(T \ {x}) = Cardinality(T) - 1 BY <1>1, FS_RemoveElement
<1> QED BY <1>1, <1>2, <1>3

LEMMA SumExists ==
  ASSUME NEW S, IsFiniteSet(S), NEW f \in [S -> Int]
  PROVE  \E g \in [SUBSET S -> Int] : Adding(g, S, f)
<1> DEFINE Sums(h, k) == \A T \in Sized(S, k) : h[T] = IF T = {} THEN 0 ELSE f[AnyOf(T)] + h[T \ {AnyOf(T)}]
           Q == {k \in Nat : \E h \in [Sized(S, k) -> Int] : Sums(h, k)}
<1>1. \A T \in SUBSET S : T # {} => AnyOf(T) \in T BY DEF AnyOf
<1>2. \A T \in SUBSET S : T # {} => /\ Cardinality(T) \in Nat \ {0}
                                    /\ Cardinality(T \ {AnyOf(T)}) = Cardinality(T) - 1
  BY <1>1, Smaller
<1>3. \A T \in SUBSET S : Cardinality(T) \in Nat /\ (T # {} => Cardinality(T) # 0)
  <2> SUFFICES ASSUME NEW T \in SUBSET S PROVE Cardinality(T) \in Nat /\ (T # {} => Cardinality(T) # 0) OBVIOUS
  <2>1. IsFiniteSet(T) BY FS_Subset
  <2> QED BY <2>1, FS_CardinalityType, FS_EmptySet
<1>4. 0 \in Q
  <2> DEFINE h == [T \in Sized(S, 0) |-> 0]
  <2>1. \A T \in Sized(S, 0) : T = {}
    <3> SUFFICES ASSUME NEW T \in SUBSET S, Cardinality(T) <= 0 PROVE T = {} BY DEF Sized
    <3> QED BY <1>3
  <2>2. h \in [Sized(S, 0) -> Int] /\ Sums(h, 0) BY <2>1
  <2> HIDE DEF h
  <2> QED BY <2>2
<1>5. ASSUME NEW k \in Nat, k \in Q PROVE k + 1 \in Q
  <2>1. PICK h \in [Sized(S, k) -> Int] : Sums(h, k) BY <1>5
  <2> DEFINE g == [T \in Sized(S, k + 1) |-> IF T = {} THEN 0 ELSE f[AnyOf(T)] + h[T \ {AnyOf(T)}]]
  <2>2. \A T \in Sized(S, k + 1) : T # {} => T \ {AnyOf(T)} \in Sized(S, k) /\ f[AnyOf(T)] \in Int
    BY <1>1, <1>2 DEF Sized
  <2>3. g \in [Sized(S, k + 1) -> Int] BY <2>2
  <2>4. Sized(S, k) \subseteq Sized(S, k + 1)
    <3> SUFFICES ASSUME NEW T \in Sized(S, k) PROVE T \in Sized(S, k + 1) OBVIOUS
    <3>1. T \in SUBSET S /\ Cardinality(T) <= k BY DEF Sized
    <3>2. Cardinality(T) \in Nat BY <1>3, <3>1
    <3>3. Cardinality(T) <= k + 1 BY <3>1, <3>2
    <3> QED BY <3>1, <3>3 DEF Sized
  <2>5. \A T \in Sized(S, k) : g[T] = h[T] BY <2>1, <2>4
  <2>6. Sums(g, k + 1) BY <2>2, <2>5
  <2>7. \E e \in [Sized(S, k + 1) -> Int] : Sums(e, k + 1)
    <3> HIDE DEF g, Sums
    <3> QED BY <2>3, <2>6
  <2> HIDE DEF g, Sums
  <2> QED BY <2>7
<1>6. Cardinality(S) \in Q
  <2> HIDE DEF Q
  <2>1. \A k \in Nat : k \in Q BY <1>4, <1>5, Counting
  <2> QED BY <2>1, FS_CardinalityType
<1>7. Sized(S, Cardinality(S)) = SUBSET S
  <2> SUFFICES ASSUME NEW T \in SUBSET S PROVE Cardinality(T) <= Cardinality(S) BY DEF Sized
  <2> QED BY FS_Subset
<1> QED BY <1>6, <1>7 DEF Adding

LEMMA AddingIsAdditive ==
  ASSUME NEW S, IsFiniteSet(S), NEW f \in [S -> Int], NEW g \in [SUBSET S -> Int], Adding(g, S, f)
  PROVE  Additive(g, S, f)
<1> DEFINE Q == {k \in Nat : \A T \in SUBSET S : Cardinality(T) = k => \A x \in T : g[T] = f[x] + g[T \ {x}]}
<1>1. 0 \in Q
  <2>1. \A T \in SUBSET S : Cardinality(T) = 0 => T = {}
    <3> SUFFICES ASSUME NEW T \in SUBSET S, Cardinality(T) = 0 PROVE T = {} OBVIOUS
    <3>1. IsFiniteSet(T) BY FS_Subset
    <3> QED BY <3>1, FS_EmptySet
  <2> QED BY <2>1
<1>2. ASSUME NEW k \in Nat, k \in Q PROVE k + 1 \in Q
  <2> SUFFICES ASSUME NEW T \in SUBSET S, Cardinality(T) = k + 1, NEW x \in T
               PROVE  g[T] = f[x] + g[T \ {x}] OBVIOUS
  <2>1. PICK c : c = AnyOf(T) OBVIOUS
  <2>2. c \in T /\ g[T] = f[c] + g[T \ {c}] BY <2>1 DEF Adding, AnyOf
  <2>3. CASE c = x BY <2>2, <2>3
  <2>4. CASE c # x
    <3>1. /\ T \ {c} \in SUBSET S /\ Cardinality(T \ {c}) = k
          /\ T \ {x} \in SUBSET S /\ Cardinality(T \ {x}) = k
      <4>1. Cardinality(T \ {c}) = Cardinality(T) - 1 /\ Cardinality(T \ {x}) = Cardinality(T) - 1
        BY <2>2, Smaller
      <4> QED BY <4>1
    <3>2. PICK U \in SUBSET S : U = (T \ {c}) \ {x} /\ U = (T \ {x}) \ {c} OBVIOUS
    <3>3. PICK n : n = g[T \ {c}] OBVIOUS
    <3>4. PICK m : m = g[T \ {x}] OBVIOUS
    <3>5. n = f[x] + g[U]
      <4>1. PICK W \in SUBSET S : W = T \ {c} BY <3>1
      <4>2. Cardinality(W) = k /\ x \in W /\ W \ {x} = U BY <2>4, <3>1, <3>2, <4>1
      <4>3. g[W] = f[x] + g[W \ {x}] BY <1>2, <4>2
      <4> QED BY <3>3, <4>1, <4>2, <4>3
    <3>6. m = f[c] + g[U]
      <4>1. PICK W \in SUBSET S : W = T \ {x} BY <3>1
      <4>2. Cardinality(W) = k /\ c \in W /\ W \ {c} = U BY <2>2, <2>4, <3>1, <3>2, <4>1
      <4>3. g[W] = f[c] + g[W \ {c}] BY <1>2, <4>2
      <4> QED BY <3>4, <4>1, <4>2, <4>3
    <3>7. g[U] \in Int /\ f[x] \in Int /\ f[c] \in Int BY <2>2
    <3>8. g[T] = f[c] + n BY <2>2, <3>3
    <3>9. g[T] = f[x] + m BY <3>5, <3>6, <3>7, <3>8
    <3> QED BY <3>4, <3>9
  <2> QED BY <2>3, <2>4
<1>3. \A k \in Nat : k \in Q
  <2> HIDE DEF Q
  <2> QED BY <1>1, <1>2, Counting
<1>4. ASSUME NEW T \in SUBSET S, NEW x \in T PROVE g[T] = f[x] + g[T \ {x}]
  <2>1. Cardinality(T) \in Nat BY Smaller
  <2> QED BY <1>3, <2>1
<1>5. g[{}] = 0 BY DEF Adding
<1> QED BY <1>4, <1>5 DEF Additive

Alike(f, e, D) == \A x \in D : f[x] = e[x]

\* Two sums of the same numbers agree, over whatever wider sets they are taken.
LEMMA AdditiveIsOne ==
  ASSUME NEW S, NEW R, IsFiniteSet(S), NEW f, NEW e, NEW g, NEW h, Additive(g, S, f), Additive(h, R, e),
         NEW D \in SUBSET S, D \in SUBSET R, Alike(f, e, D)
  PROVE  g[D] = h[D]
<1> DEFINE Q == {k \in Nat : \A T \in SUBSET D : Cardinality(T) = k => g[T] = h[T]}
<1>0. \A T \in SUBSET D : IsFiniteSet(T) BY FS_Subset
<1>1. 0 \in Q
  <2>1. \A T \in SUBSET D : Cardinality(T) = 0 => T = {} BY <1>0, FS_EmptySet
  <2> QED BY <2>1 DEF Additive
<1>2. ASSUME NEW k \in Nat, k \in Q PROVE k + 1 \in Q
  <2> SUFFICES ASSUME NEW T \in SUBSET D, Cardinality(T) = k + 1 PROVE g[T] = h[T] OBVIOUS
  <2>1. PICK x : x \in T BY FS_EmptySet
  <2>2. T \ {x} \in SUBSET D /\ Cardinality(T \ {x}) = k
    <3>1. Cardinality(T \ {x}) = Cardinality(T) - 1 BY <2>1, Smaller
    <3> QED BY <3>1
  <2>3. g[T \ {x}] = h[T \ {x}] BY <1>2, <2>2
  <2>4. T \in SUBSET S /\ T \in SUBSET R OBVIOUS
  <2>5. g[T] = f[x] + g[T \ {x}] /\ h[T] = e[x] + h[T \ {x}] BY <2>1, <2>4 DEF Additive
  <2>6. f[x] = e[x] BY <2>1 DEF Alike
  <2> QED BY <2>3, <2>5, <2>6
<1>3. \A k \in Nat : k \in Q
  <2> HIDE DEF Q
  <2> QED BY <1>1, <1>2, Counting
<1>4. Cardinality(D) \in Nat BY <1>0, FS_CardinalityType
<1> QED BY <1>3, <1>4

\* The library's sum is a choice among the functions that satisfy its recursion:
\* there is one, and they all agree.
Sums(it, S, f) ==
  it = [T \in SUBSET S |-> IF T = {} THEN 0
                           ELSE f[CHOOSE x \in T : TRUE] + it[T \ {CHOOSE x \in T : TRUE}]]

LEMMA SumsExist ==
  ASSUME NEW S, IsFiniteSet(S), NEW f, \A x \in S : f[x] \in Int
  PROVE  \E g : Sums(g, S, f) /\ Additive(g, S, f)
<1> DEFINE r == [x \in S |-> f[x]]
<1>1. PICK g \in [SUBSET S -> Int] : Adding(g, S, r)
  <2>1. r \in [S -> Int] OBVIOUS
  <2> HIDE DEF r
  <2> QED BY <2>1, SumExists
<1>2. \A T \in SUBSET S : T # {} => r[AnyOf(T)] = f[AnyOf(T)]
  <2>1. \A T \in SUBSET S : T # {} => AnyOf(T) \in S BY DEF AnyOf
  <2> QED BY <2>1
<1>3. Sums(g, S, f)
  <2>1. \A T \in SUBSET S : g[T] = IF T = {} THEN 0 ELSE f[AnyOf(T)] + g[T \ {AnyOf(T)}]
    <3> HIDE DEF r
    <3> QED BY <1>1, <1>2 DEF Adding
  <2> QED BY <2>1 DEF AnyOf, Sums
<1>4. Additive(g, S, r)
  <2>1. r \in [S -> Int] OBVIOUS
  <2> HIDE DEF r
  <2> QED BY <1>1, <2>1, AddingIsAdditive
<1>5. Additive(g, S, f)
  <2>1. \A x \in S : r[x] = f[x] OBVIOUS
  <2> HIDE DEF r
  <2> QED BY <1>4, <2>1 DEF Additive
<1> QED BY <1>3, <1>5

LEMMA SumsAgree ==
  ASSUME NEW S, IsFiniteSet(S), NEW f, NEW it, NEW g, Sums(it, S, f), Sums(g, S, f)
  PROVE  it = g
<1> DEFINE Q == {k \in Nat : \A T \in SUBSET S : Cardinality(T) = k => it[T] = g[T]}
<1>0. \A T \in SUBSET S : /\ it[T] = IF T = {} THEN 0 ELSE f[AnyOf(T)] + it[T \ {AnyOf(T)}]
                          /\ g[T] = IF T = {} THEN 0 ELSE f[AnyOf(T)] + g[T \ {AnyOf(T)}]
  BY DEF AnyOf, Sums
<1>1. 0 \in Q
  <2>1. \A T \in SUBSET S : Cardinality(T) = 0 => T = {}
    <3> SUFFICES ASSUME NEW T \in SUBSET S, Cardinality(T) = 0 PROVE T = {} OBVIOUS
    <3>1. IsFiniteSet(T) BY FS_Subset
    <3> QED BY <3>1, FS_EmptySet
  <2> QED BY <1>0, <2>1
<1>2. ASSUME NEW k \in Nat, k \in Q PROVE k + 1 \in Q
  <2> SUFFICES ASSUME NEW T \in SUBSET S, Cardinality(T) = k + 1 PROVE it[T] = g[T] OBVIOUS
  <2>1. T # {} BY FS_EmptySet, k + 1 # 0
  <2>2. AnyOf(T) \in T BY <2>1 DEF AnyOf
  <2>3. Cardinality(T \ {AnyOf(T)}) = Cardinality(T) - 1 BY <2>2, Smaller
  <2>4. T \ {AnyOf(T)} \in SUBSET S /\ Cardinality(T \ {AnyOf(T)}) = k BY <2>3
  <2>5. it[T \ {AnyOf(T)}] = g[T \ {AnyOf(T)}] BY <1>2, <2>4
  <2> QED BY <1>0, <2>1, <2>5
<1>3. \A k \in Nat : k \in Q
  <2> HIDE DEF Q
  <2> QED BY <1>1, <1>2, Counting
<1>4. \A T \in SUBSET S : Cardinality(T) \in Nat
  <2> SUFFICES ASSUME NEW T \in SUBSET S PROVE Cardinality(T) \in Nat OBVIOUS
  <2>1. IsFiniteSet(T) BY FS_Subset
  <2> QED BY <2>1, FS_CardinalityType
<1>5. \A T \in SUBSET S : it[T] = g[T] BY <1>3, <1>4
<1>6. it = [T \in SUBSET S |-> it[T]] /\ g = [T \in SUBSET S |-> g[T]] BY DEF Sums
<1> HIDE DEF Q
<1> QED BY <1>5, <1>6

LEMMA SumIs ==
  ASSUME NEW S, IsFiniteSet(S), NEW f, \A x \in S : f[x] \in Int
  PROVE  \E g : Additive(g, S, f) /\ g[S] = SumFunctionOnSet(f, S)
<1> DEFINE P(it) == it = [T \in SUBSET S |-> IF T = {} THEN 0
                                             ELSE f[CHOOSE x \in T : TRUE] + it[T \ {CHOOSE x \in T : TRUE}]]
<1>1. PICK g : Sums(g, S, f) /\ Additive(g, S, f) BY SumsExist
<1>2. P(g) BY <1>1 DEF Sums
<1>3. PICK it : it = (CHOOSE h : P(h)) OBVIOUS
<1>4. P(it)
  <2> HIDE DEF P
  <2> QED BY <1>2, <1>3
<1>5. SumFunctionOnSet(f, S) = it[S]
  BY <1>3 DEF SumFunctionOnSet, FoldFunctionOnSet, MapThenFoldSet
<1>6. Sums(it, S, f) BY <1>4 DEF Sums
<1> HIDE DEF P
<1>7. it = g BY <1>1, <1>6, SumsAgree
<1> QED BY <1>1, <1>5, <1>7

\* Whatever satisfies the recursion has the sum at the end.
LEMMA SumsEnd ==
  ASSUME NEW S, IsFiniteSet(S), NEW f, \A x \in S : f[x] \in Int, NEW it, Sums(it, S, f)
  PROVE  it[S] = SumFunctionOnSet(f, S)
<1>1. PICK g : Sums(g, S, f) /\ Additive(g, S, f) BY SumsExist
<1>2. it = g BY <1>1, SumsAgree
<1>3. PICK h : Additive(h, S, f) /\ h[S] = SumFunctionOnSet(f, S) BY SumIs
<1>4. S \in SUBSET S /\ Alike(f, f, S) BY DEF Alike
<1>5. g[S] = h[S] BY <1>1, <1>3, <1>4, AdditiveIsOne
<1> QED BY <1>2, <1>3, <1>5

\* A sum taken one element at a time.
LEMMA SumOfNone == ASSUME NEW f PROVE SumFunctionOnSet(f, {}) = 0
<1>1. PICK g : Additive(g, {}, f) /\ g[{}] = SumFunctionOnSet(f, {}) BY SumIs, FS_EmptySet
<1> QED BY <1>1 DEF Additive

LEMMA SumTakes ==
  ASSUME NEW S, IsFiniteSet(S), NEW f, \A x \in S : f[x] \in Int
  PROVE  /\ SumFunctionOnSet(f, S) \in Int
         /\ \A x \in S : SumFunctionOnSet(f, S) = f[x] + SumFunctionOnSet(f, S \ {x})
<1>1. PICK g : Additive(g, S, f) /\ g[S] = SumFunctionOnSet(f, S) BY SumIs
<1>2. ASSUME NEW x \in S PROVE SumFunctionOnSet(f, S) = f[x] + SumFunctionOnSet(f, S \ {x})
  <2>1. IsFiniteSet(S \ {x}) BY FS_Subset
  <2>2. PICK h : Additive(h, S \ {x}, f) /\ h[S \ {x}] = SumFunctionOnSet(f, S \ {x}) BY <2>1, SumIs
  <2>3. PICK D : D = S \ {x} OBVIOUS
  <2>4. Additive(h, D, f) /\ D \in SUBSET S /\ D \in SUBSET D /\ Alike(f, f, D) BY <2>2, <2>3 DEF Alike
  <2>5. g[D] = h[D] BY <1>1, <2>4, AdditiveIsOne
  <2>6. g[S] = f[x] + g[S \ {x}] BY <1>1 DEF Additive
  <2> QED BY <1>1, <2>2, <2>3, <2>5, <2>6
<1>3. SumFunctionOnSet(f, S) \in Int BY <1>1 DEF Additive
<1> QED BY <1>2, <1>3

\* Equal numbers have equal sums, and zeros may be left out.
LEMMA SumSame ==
  ASSUME NEW S, IsFiniteSet(S), NEW f, NEW e, \A x \in S : f[x] \in Int /\ e[x] = f[x]
  PROVE  SumFunctionOnSet(f, S) = SumFunctionOnSet(e, S)
<1>1. PICK g : Additive(g, S, f) /\ g[S] = SumFunctionOnSet(f, S) BY SumIs
<1>2. PICK h : Additive(h, S, e) /\ h[S] = SumFunctionOnSet(e, S) BY SumIs
<1>3. S \in SUBSET S /\ Alike(f, e, S) BY DEF Alike
<1>4. g[S] = h[S] BY <1>1, <1>2, <1>3, AdditiveIsOne
<1> QED BY <1>1, <1>2, <1>4

LEMMA SumSkips ==
  ASSUME NEW S, IsFiniteSet(S), NEW f, \A x \in S : f[x] \in Int, NEW T \in SUBSET S, \A x \in S \ T : f[x] = 0
  PROVE  SumFunctionOnSet(f, T) = SumFunctionOnSet(f, S)
<1>1. PICK g : Additive(g, S, f) /\ g[S] = SumFunctionOnSet(f, S) BY SumIs
<1>2. IsFiniteSet(T) BY FS_Subset
<1>3. PICK h : Additive(h, T, f) /\ h[T] = SumFunctionOnSet(f, T) BY <1>2, SumIs
<1>4. g[T] = h[T]
  <2>1. T \in SUBSET T /\ Alike(f, f, T) BY DEF Alike
  <2> QED BY <1>1, <1>3, <2>1, AdditiveIsOne
<1>5. g[S] = g[T]
  <2> DEFINE Q == {k \in Nat : \A R \in SUBSET (S \ T) : Cardinality(R) = k => g[T \cup R] = g[T]}
  <2>0. \A R \in SUBSET (S \ T) : IsFiniteSet(R) BY FS_Subset
  <2>1. 0 \in Q
    <3>1. \A R \in SUBSET (S \ T) : Cardinality(R) = 0 => T \cup R = T BY <2>0, FS_EmptySet
    <3> QED BY <3>1
  <2>2. ASSUME NEW k \in Nat, k \in Q PROVE k + 1 \in Q
    <3>1. ASSUME NEW R \in SUBSET (S \ T), Cardinality(R) = k + 1 PROVE g[T \cup R] = g[T]
      <4>1. PICK x : x \in R BY <3>1, FS_EmptySet, k + 1 # 0
      <4>2. R \ {x} \in SUBSET (S \ T) /\ Cardinality(R \ {x}) = k
        <5>1. R \in SUBSET S OBVIOUS
        <5>2. Cardinality(R \ {x}) = Cardinality(R) - 1 BY <4>1, <5>1, Smaller
        <5> QED BY <3>1, <5>2
      <4>3. PICK U : U = T \cup R OBVIOUS
      <4>4. U \ {x} = T \cup (R \ {x}) /\ x \in U /\ U \in SUBSET S BY <4>1, <4>3
      <4>5. PICK n : n = g[U \ {x}] OBVIOUS
      <4>6. n = g[T] BY <2>2, <4>2, <4>4, <4>5
      <4>7. g[U] = f[x] + n BY <1>1, <4>4, <4>5 DEF Additive
      <4>8. f[x] = 0 /\ g[T] \in Int BY <1>1, <4>1 DEF Additive
      <4>9. g[U] = g[T] BY <4>6, <4>7, <4>8
      <4> QED BY <4>3, <4>9
    <3>2. \A R \in SUBSET (S \ T) : Cardinality(R) = k + 1 => g[T \cup R] = g[T] BY <3>1
    <3>3. k + 1 \in Nat OBVIOUS
    <3> QED BY <3>2, <3>3, Zenon
  <2>3. \A k \in Nat : k \in Q
    <3> HIDE DEF Q
    <3> QED BY <2>1, <2>2, Counting
  <2>4. PICK R \in SUBSET (S \ T) : R = S \ T OBVIOUS
  <2>5. T \cup R = S BY <2>4
  <2>6. Cardinality(R) \in Nat BY <2>0, FS_CardinalityType
  <2> QED BY <2>3, <2>5, <2>6
<1> QED BY <1>1, <1>3, <1>4, <1>5

\* Sums add up term by term.
LEMMA SumAdds ==
  ASSUME NEW S, IsFiniteSet(S), NEW f, NEW e, NEW h,
         \A x \in S : f[x] \in Int /\ e[x] \in Int /\ h[x] = f[x] + e[x]
  PROVE  SumFunctionOnSet(h, S) = SumFunctionOnSet(f, S) + SumFunctionOnSet(e, S)
<1>1. PICK g : Additive(g, S, f) /\ g[S] = SumFunctionOnSet(f, S) BY SumIs
<1>2. PICK k : Additive(k, S, e) /\ k[S] = SumFunctionOnSet(e, S) BY SumIs
<1>3. \A x \in S : h[x] \in Int OBVIOUS
<1>4. PICK m : Additive(m, S, h) /\ m[S] = SumFunctionOnSet(h, S) BY <1>3, SumIs
<1> DEFINE both == [T \in SUBSET S |-> g[T] + k[T]]
<1>5. Additive(both, S, h)
  <2>1. \A T \in SUBSET S : g[T] \in Int /\ k[T] \in Int BY <1>1, <1>2 DEF Additive
  <2>2. both[{}] = 0 BY <1>1, <1>2 DEF Additive
  <2>3. ASSUME NEW T \in SUBSET S, NEW x \in T PROVE both[T] = h[x] + both[T \ {x}]
    <3>1. PICK U \in SUBSET S : U = T \ {x} OBVIOUS
    <3>2. g[T] = f[x] + g[U] /\ k[T] = e[x] + k[U] BY <1>1, <1>2, <3>1 DEF Additive
    <3>3. both[T] = g[T] + k[T] /\ both[U] = g[U] + k[U] OBVIOUS
    <3>4. f[x] \in Int /\ e[x] \in Int /\ h[x] = f[x] + e[x] OBVIOUS
    <3> HIDE DEF both
    <3>5. g[U] \in Int /\ k[U] \in Int BY <2>1
    <3>6. both[T] = h[x] + both[U] BY <3>2, <3>3, <3>4, <3>5
    <3> QED BY <3>1, <3>6
  <2>4. both \in [SUBSET S -> Int] BY <2>1
  <2> HIDE DEF both
  <2> QED BY <2>2, <2>3, <2>4 DEF Additive
<1>6. S \in SUBSET S /\ Alike(h, h, S) BY DEF Alike
<1>7. both[S] = g[S] + k[S] BY <1>6
<1> HIDE DEF both
<1>8. both[S] = m[S] BY <1>4, <1>5, <1>6, AdditiveIsOne
<1> QED BY <1>1, <1>2, <1>4, <1>7, <1>8

\* A sum over positions, one after the other.
Running(chain, f, n) == chain[0] = 0 /\ \A k \in 0..(n - 1) : chain[k + 1] = chain[k] + f[k + 1]

LEMMA SumRuns ==
  ASSUME NEW n \in Nat, NEW f, \A i \in 1..n : f[i] \in Int, NEW chain, Running(chain, f, n)
  PROVE  \A k \in 0..n : chain[k] = SumFunctionOnSet(f, 1..k)
<1> DEFINE Q == {k \in 0..n : chain[k] = SumFunctionOnSet(f, 1..k)}
<1>1. 0 \in Q
  <2>1. 1..0 = {} OBVIOUS
  <2> QED BY <2>1, SumOfNone DEF Running
<1>2. ASSUME NEW k \in 0..(n - 1), k \in Q PROVE k + 1 \in Q
  <2>1. PICK R : R = 1..(k + 1) OBVIOUS
  <2>2. k + 1 \in R /\ R \ {k + 1} = 1..k /\ k + 1 \in 0..n /\ \A i \in R : f[i] \in Int BY <2>1
  <2>3. IsFiniteSet(R) BY <2>1, FS_Interval
  <2>4. SumFunctionOnSet(f, R) = f[k + 1] + SumFunctionOnSet(f, R \ {k + 1}) BY <2>2, <2>3, SumTakes
  <2>5. SumFunctionOnSet(f, R \ {k + 1}) \in Int
    <3>1. PICK U : U = R \ {k + 1} OBVIOUS
    <3>2. IsFiniteSet(U) BY <2>3, <3>1, FS_Subset
    <3>3. SumFunctionOnSet(f, U) \in Int BY <2>2, <3>1, <3>2, SumTakes
    <3> QED BY <3>1, <3>3
  <2>6. chain[k] = SumFunctionOnSet(f, R \ {k + 1}) BY <1>2, <2>2
  <2>7. chain[k + 1] = SumFunctionOnSet(f, R)
    <3>1. chain[k + 1] = chain[k] + f[k + 1] BY DEF Running
    <3> QED BY <2>2, <2>4, <2>5, <2>6, <3>1
  <2> QED BY <2>1, <2>2, <2>7
<1>3. \A k \in 0..n : k \in Q
  <2> HIDE DEF Q
  <2> QED BY <1>1, <1>2, CountingTo
<1> QED BY <1>3

\* The fold that adds the numbers of a sequence up.
LEMMA FoldSums ==
  ASSUME NEW n \in Nat, NEW f \in [1..n -> Int], NEW it,
         FoldsWithin(Int, n, 0, [p \in Int \X (1..n) |-> p[1] + f[p[2]]], it)
  PROVE  it[1..n] = SumFunctionOnSet(f, 1..n)
<1> DEFINE F == [p \in Int \X (1..n) |-> p[1] + f[p[2]]]
<1>1. F \in [Int \X (1..n) -> Int] /\ FoldsWithin(Int, n, 0, F, it) /\ 0 \in Int OBVIOUS
<1>2. PICK chain \in [0..n -> Int] : ChainOf(chain, n, 0, F, it[1..n])
  <2> HIDE DEF F
  <2> QED BY <1>1, FoldRuns
<1>3. chain[0] = 0 /\ chain[n] = it[1..n] BY <1>2 DEF ChainOf
<1>4. \A k \in 0..(n - 1) : chain[k + 1] = chain[k] + f[k + 1]
  <2> SUFFICES ASSUME NEW k \in 0..(n - 1) PROVE chain[k + 1] = chain[k] + f[k + 1] OBVIOUS
  <2>1. <<chain[k], k + 1>> \in Int \X (1..n) OBVIOUS
  <2>2. chain[k + 1] = F[<<chain[k], k + 1>>] BY <1>2 DEF ChainOf
  <2> QED BY <2>1, <2>2
<1>5. \A i \in 1..n : f[i] \in Int OBVIOUS
<1>7. Running(chain, f, n) BY <1>3, <1>4 DEF Running
<1> HIDE DEF F
<1>6. chain[n] = SumFunctionOnSet(f, 1..n)
  <2>1. \A k \in 0..n : chain[k] = SumFunctionOnSet(f, 1..k) BY <1>5, <1>7, SumRuns
  <2> QED BY <2>1
<1> QED BY <1>3, <1>6

\* A sum over functions that differ at one place.
LEMMA SumBumps ==
  ASSUME NEW S, IsFiniteSet(S), NEW f, \A x \in S : f[x] \in Int, NEW k \in S, NEW d \in Int, NEW e,
         \A x \in S : e[x] = IF x = k THEN f[x] + d ELSE f[x]
  PROVE  SumFunctionOnSet(e, S) = SumFunctionOnSet(f, S) + d
<1>1. \A x \in S : e[x] \in Int OBVIOUS
<1>2. PICK U : U = S \ {k} OBVIOUS
<1>3. IsFiniteSet(U) /\ \A x \in U : f[x] \in Int /\ e[x] = f[x] BY <1>2, FS_Subset
<1>4. SumFunctionOnSet(f, U) = SumFunctionOnSet(e, U) /\ SumFunctionOnSet(f, U) \in Int
  BY <1>3, SumSame, SumTakes
<1>5. SumFunctionOnSet(f, S) = f[k] + SumFunctionOnSet(f, U) BY <1>2, SumTakes
<1>6. SumFunctionOnSet(e, S) = e[k] + SumFunctionOnSet(e, U) BY <1>1, <1>2, SumTakes
<1>7. e[k] = f[k] + d /\ f[k] \in Int OBVIOUS
<1> QED BY <1>4, <1>5, <1>6, <1>7

\* What holds of no elements, and of a set when it holds of it without an element,
\* holds of a finite set.
LEMMA ByElements ==
  ASSUME NEW S, IsFiniteSet(S), NEW G, {} \in G,
         \A T \in SUBSET S : \A x \in T : T \ {x} \in G => T \in G
  PROVE  S \in G
<1> DEFINE Q == {k \in Nat : \A T \in SUBSET S : Cardinality(T) = k => T \in G}
<1>0. \A T \in SUBSET S : IsFiniteSet(T) /\ Cardinality(T) \in Nat BY FS_Subset, FS_CardinalityType
<1>1. 0 \in Q
  <2>1. \A T \in SUBSET S : Cardinality(T) = 0 => T = {} BY <1>0, FS_EmptySet
  <2> QED BY <2>1
<1>2. ASSUME NEW k \in Nat, k \in Q PROVE k + 1 \in Q
  <2> SUFFICES ASSUME NEW T \in SUBSET S, Cardinality(T) = k + 1 PROVE T \in G OBVIOUS
  <2>1. PICK x : x \in T BY FS_EmptySet, k + 1 # 0
  <2>2. T \ {x} \in SUBSET S /\ Cardinality(T \ {x}) = k
    <3>1. Cardinality(T \ {x}) = Cardinality(T) - 1 BY <2>1, Smaller
    <3> QED BY <3>1
  <2> QED BY <1>2, <2>1, <2>2
<1>3. \A k \in Nat : k \in Q
  <2> HIDE DEF Q
  <2> QED BY <1>1, <1>2, Counting
<1> QED BY <1>0, <1>3

\* The parts of S, by a key of K.
Grouped(part, key, S, K) ==
  /\ \A x \in S : key[x] \in K
  /\ \A k \in K : part[k] \in SUBSET S /\ \A x \in S : x \in part[k] <=> key[x] = k

\* The sum by groups is the sum.
LEMMA SumGroups ==
  ASSUME NEW S, IsFiniteSet(S), NEW f, \A x \in S : f[x] \in Int,
         NEW K, IsFiniteSet(K), NEW key, NEW part, Grouped(part, key, S, K),
         NEW g, \A k \in K : g[k] = SumFunctionOnSet(f, part[k])
  PROVE  SumFunctionOnSet(g, K) = SumFunctionOnSet(f, S)
<1> DEFINE Part(T) == [k \in K |-> SumFunctionOnSet(f, {x \in T : key[x] = k})]
           G == {T \in SUBSET S : SumFunctionOnSet(Part(T), K) = SumFunctionOnSet(f, T)}
<1>0. \A T \in SUBSET S : IsFiniteSet(T) BY FS_Subset
<1>1. {} \in G
  <2>1. \A k \in K : Part({})[k] = 0
    <3>1. {x \in {} : key[x] = key[x]} = {} OBVIOUS
    <3>2. \A k \in K : {x \in {} : key[x] = k} = {} OBVIOUS
    <3> QED BY <3>2, SumOfNone
  <2>2. PICK p : p = Part({}) OBVIOUS
  <2>3. SumFunctionOnSet(p, K) = 0
    <3>1. \A k \in K : p[k] \in Int /\ p[k] = 0 BY <2>1, <2>2
    <3>2. \A k \in K \ {} : p[k] = 0 BY <3>1
    <3>3. {} \in SUBSET K OBVIOUS
    <3>4. SumFunctionOnSet(p, {}) = SumFunctionOnSet(p, K) BY <3>1, <3>2, <3>3, SumSkips
    <3> QED BY <3>4, SumOfNone
  <2>4. SumFunctionOnSet(f, {}) = 0 BY SumOfNone
  <2> QED BY <2>2, <2>3, <2>4
<1>2. ASSUME NEW T \in SUBSET S, NEW x \in T, T \ {x} \in G PROVE T \in G
  <2>1. PICK U : U = T \ {x} OBVIOUS
  <2>2. PICK p : p = Part(T) OBVIOUS
  <2>3. PICK q : q = Part(U) OBVIOUS
  <2>4. SumFunctionOnSet(q, K) = SumFunctionOnSet(f, U) BY <1>2, <2>1, <2>3
  <2>5. \A k \in K : q[k] \in Int
    <3> SUFFICES ASSUME NEW k \in K PROVE q[k] \in Int OBVIOUS
    <3>1. PICK V : V = {y \in U : key[y] = k} OBVIOUS
    <3>2. IsFiniteSet(V) /\ \A y \in V : f[y] \in Int BY <1>0, <2>1, <3>1
    <3>3. SumFunctionOnSet(f, V) \in Int BY <3>2, SumTakes
    <3> QED BY <2>3, <3>1, <3>3
  <2>6. \A k \in K : p[k] = IF k = key[x] THEN q[k] + f[x] ELSE q[k]
    <3> SUFFICES ASSUME NEW k \in K PROVE p[k] = IF k = key[x] THEN q[k] + f[x] ELSE q[k] OBVIOUS
    <3>1. PICK V : V = {y \in U : key[y] = k} OBVIOUS
    <3>2. PICK W : W = {y \in T : key[y] = k} OBVIOUS
    <3>3. p[k] = SumFunctionOnSet(f, W) /\ q[k] = SumFunctionOnSet(f, V) BY <2>2, <2>3, <3>1, <3>2
    <3>4. CASE k = key[x]
      <4>1. x \in W /\ W \ {x} = V BY <2>1, <3>1, <3>2, <3>4
      <4>2. IsFiniteSet(W) /\ \A y \in W : f[y] \in Int BY <1>0, <3>2
      <4>3. SumFunctionOnSet(f, W) = f[x] + SumFunctionOnSet(f, W \ {x}) BY <4>1, <4>2, SumTakes
      <4>4. p[k] = f[x] + q[k] BY <3>3, <4>1, <4>3
      <4>5. f[x] \in Int /\ q[k] \in Int BY <2>5
      <4> QED BY <3>4, <4>4, <4>5
    <3>5. CASE k # key[x]
      <4>1. W = V BY <2>1, <3>1, <3>2, <3>5
      <4> QED BY <3>3, <3>5, <4>1
    <3> QED BY <3>4, <3>5
  <2>7. key[x] \in K /\ f[x] \in Int BY DEF Grouped
  <2>8. SumFunctionOnSet(p, K) = SumFunctionOnSet(q, K) + f[x]
    <3>1. PICK k \in K, d \in Int : k = key[x] /\ d = f[x] BY <2>7
    <3>2. \A y \in K : p[y] = IF y = k THEN q[y] + d ELSE q[y] BY <2>6, <3>1
    <3>3. SumFunctionOnSet(p, K) = SumFunctionOnSet(q, K) + d BY <2>5, <3>2, SumBumps
    <3> QED BY <3>1, <3>3
  <2>9. SumFunctionOnSet(f, T) = f[x] + SumFunctionOnSet(f, U) /\ SumFunctionOnSet(f, U) \in Int
    <3>1. IsFiniteSet(T) /\ IsFiniteSet(U) BY <1>0, <2>1
    <3>2. \A y \in T : f[y] \in Int OBVIOUS
    <3>3. \A y \in U : f[y] \in Int BY <2>1
    <3>4. \A y \in T : SumFunctionOnSet(f, T) = f[y] + SumFunctionOnSet(f, T \ {y}) BY <3>1, <3>2, SumTakes
    <3>5. SumFunctionOnSet(f, U) \in Int BY <3>1, <3>3, SumTakes
    <3>6. SumFunctionOnSet(f, T) = f[x] + SumFunctionOnSet(f, T \ {x}) BY <3>4
    <3> QED BY <2>1, <3>5, <3>6
  <2>10. SumFunctionOnSet(p, K) = SumFunctionOnSet(f, T) BY <2>4, <2>7, <2>8, <2>9
  <2> QED BY <2>2, <2>10
<1>3. S \in G
  <2> HIDE DEF G
  <2>1. \A T \in SUBSET S : \A x \in T : T \ {x} \in G => T \in G BY <1>2
  <2> QED BY <1>1, <2>1, ByElements
<1>4. PICK p : p = Part(S) OBVIOUS
<1>5. SumFunctionOnSet(p, K) = SumFunctionOnSet(f, S) BY <1>3, <1>4
<1>6. \A k \in K : p[k] \in Int /\ g[k] = p[k]
  <2> SUFFICES ASSUME NEW k \in K PROVE p[k] \in Int /\ g[k] = p[k] OBVIOUS
  <2>1. PICK V : V = {y \in S : key[y] = k} OBVIOUS
  <2>2. IsFiniteSet(V) /\ \A y \in V : f[y] \in Int BY <1>0, <2>1
  <2>3. SumFunctionOnSet(f, V) \in Int BY <2>2, SumTakes
  <2>4. p[k] = SumFunctionOnSet(f, V) /\ g[k] = SumFunctionOnSet(f, part[k]) BY <1>4, <2>1
  <2>5. part[k] = V BY <2>1 DEF Grouped
  <2> QED BY <2>3, <2>4, <2>5
<1>7. SumFunctionOnSet(p, K) = SumFunctionOnSet(g, K) BY <1>6, SumSame
<1> QED BY <1>5, <1>7

\* One element of R for each of S.
Carries(image, S, R) ==
  /\ \A x \in S : image[x] \in R
  /\ \A y \in R : \E x \in S : y = image[x]
  /\ \A x, y \in S : image[x] = image[y] => x = y

\* So is the sum over what the elements are mapped to, none to the same.
LEMMA SumMaps ==
  ASSUME NEW S, IsFiniteSet(S), NEW f, \A x \in S : f[x] \in Int,
         NEW R, NEW image, Carries(image, S, R),
         NEW e, \A x \in S : e[image[x]] = f[x]
  PROVE  IsFiniteSet(R) /\ Cardinality(R) = Cardinality(S) /\ SumFunctionOnSet(e, R) = SumFunctionOnSet(f, S)
<1>1. IsFiniteSet(R)
  <2> DEFINE m == [x \in S |-> image[x]]
  <2>1. m \in Surjection(S, R) BY DEF Surjection, Carries
  <2> HIDE DEF m
  <2> QED BY <2>1, FS_Surjection
<1>2. \A x \in S : image[x] \in R BY DEF Carries
<1>3. ASSUME NEW k \in R PROVE e[k] = SumFunctionOnSet(f, {x \in S : image[x] = k})
  <2>1. PICK x \in S : k = image[x] BY DEF Carries
  <2>2. PICK V : V = {y \in S : image[y] = k} OBVIOUS
  <2>3. V = {x} BY <2>1, <2>2 DEF Carries
  <2>4. IsFiniteSet(V) /\ x \in V /\ V \ {x} = {} /\ \A y \in V : f[y] \in Int BY <2>2, <2>3, FS_Subset
  <2>5. SumFunctionOnSet(f, V) = f[x] + SumFunctionOnSet(f, V \ {x}) BY <2>4, SumTakes
  <2>6. SumFunctionOnSet(f, V) = f[x] + 0 /\ f[x] \in Int BY <2>4, <2>5, SumOfNone
  <2>7. PICK a \in Int : a = f[x] BY <2>6
  <2>8. SumFunctionOnSet(f, V) = a BY <2>6, <2>7
  <2> QED BY <2>1, <2>2, <2>7, <2>8
<1>4. SumFunctionOnSet(e, R) = SumFunctionOnSet(f, S) 
  <2>1. PICK part : part = [k \in R |-> {x \in S : image[x] = k}] OBVIOUS
  <2>2. Grouped(part, image, S, R) BY <1>2, <2>1 DEF Grouped
  <2>3. \A k \in R : e[k] = SumFunctionOnSet(f, part[k]) BY <1>3, <2>1
  <2> QED BY <1>1, <2>2, <2>3, SumGroups
<1>5. Cardinality(R) = Cardinality(S)
  <2> DEFINE m == [x \in S |-> image[x]]
  <2>1. m \in Bijection(S, R) BY DEF Bijection, Injection, Surjection, IsInjective, Carries
  <2> HIDE DEF m
  <2>2. ExistsBijection(S, R) BY <2>1 DEF ExistsBijection
  <2> QED BY <2>2, FS_Bijection
<1> QED BY <1>1, <1>4, <1>5

\* A multiple of a sum, term by term.
LEMMA SumScales ==
  ASSUME NEW S, IsFiniteSet(S), NEW f, \A x \in S : f[x] \in Int, NEW c \in Int,
         NEW e, \A x \in S : e[x] = c * f[x]
  PROVE  SumFunctionOnSet(e, S) = c * SumFunctionOnSet(f, S)
<1> DEFINE G == {T \in SUBSET S : SumFunctionOnSet(e, T) = c * SumFunctionOnSet(f, T)}
<1>1. {} \in G
  <2>1. c * 0 = 0 OBVIOUS
  <2> QED BY <2>1, SumOfNone
<1>2. ASSUME NEW T \in SUBSET S, NEW x \in T, T \ {x} \in G PROVE T \in G
  <2>1. PICK U : U = T \ {x} OBVIOUS
  <2>2. IsFiniteSet(T) /\ IsFiniteSet(U) BY <2>1, FS_Subset
  <2>3. \A y \in T : f[y] \in Int /\ e[y] \in Int OBVIOUS
  <2>4. SumFunctionOnSet(f, T) = f[x] + SumFunctionOnSet(f, U) /\ SumFunctionOnSet(e, T) = e[x] + SumFunctionOnSet(e, U)
    BY <2>1, <2>2, <2>3, SumTakes
  <2>5. PICK a \in Int : a = f[x] OBVIOUS
  <2>6. \A y \in U : f[y] \in Int BY <2>1
  <2>7. SumFunctionOnSet(f, U) \in Int BY <2>2, <2>6, SumTakes
  <2>8. PICK b \in Int : b = SumFunctionOnSet(f, U) BY <2>7
  <2>9. e[x] = c * a /\ SumFunctionOnSet(e, U) = c * b BY <1>2, <2>1, <2>5, <2>8
  <2>10. c * (a + b) = c * a + c * b OBVIOUS
  <2>11. SumFunctionOnSet(e, T) = c * SumFunctionOnSet(f, T) BY <2>4, <2>5, <2>8, <2>9, <2>10
  <2> QED BY <2>11
<1>3. S \in G
  <2> HIDE DEF G
  <2>1. \A T \in SUBSET S : \A x \in T : T \ {x} \in G => T \in G BY <1>2
  <2> QED BY <1>1, <2>1, ByElements
<1> QED BY <1>3

\* Terms that differ by d at most have sums that differ by d an element.
LEMMA SumsNear ==
  ASSUME NEW S, IsFiniteSet(S), NEW f, NEW e, NEW d \in Nat,
         \A x \in S : f[x] \in Int /\ e[x] \in Int /\ f[x] - e[x] <= d /\ e[x] - f[x] <= d
  PROVE  /\ SumFunctionOnSet(f, S) - SumFunctionOnSet(e, S) <= d * Cardinality(S)
         /\ SumFunctionOnSet(e, S) - SumFunctionOnSet(f, S) <= d * Cardinality(S)
<1> DEFINE Within(a, b, n) == a - b <= d * n /\ b - a <= d * n
           G == {T \in SUBSET S : Within(SumFunctionOnSet(f, T), SumFunctionOnSet(e, T), Cardinality(T))}
<1>1. {} \in G
  <2>1. Cardinality({}) = 0 BY FS_EmptySet
  <2>2. Within(0, 0, 0) OBVIOUS
  <2> HIDE DEF Within
  <2> QED BY <2>1, <2>2, SumOfNone
<1>2. ASSUME NEW T \in SUBSET S, NEW x \in T, T \ {x} \in G PROVE T \in G
  <2>1. PICK U : U = T \ {x} OBVIOUS
  <2>2. IsFiniteSet(T) /\ IsFiniteSet(U) BY <2>1, FS_Subset
  <2>3. \A y \in T : f[y] \in Int /\ e[y] \in Int OBVIOUS
  <2>4. SumFunctionOnSet(f, T) = f[x] + SumFunctionOnSet(f, U) /\ SumFunctionOnSet(e, T) = e[x] + SumFunctionOnSet(e, U)
    BY <2>1, <2>2, <2>3, SumTakes
  <2>6. \A y \in U : f[y] \in Int /\ e[y] \in Int BY <2>1
  <2>7. SumFunctionOnSet(f, U) \in Int /\ SumFunctionOnSet(e, U) \in Int BY <2>2, <2>6, SumTakes
  <2>8. PICK a \in Int : a = SumFunctionOnSet(f, U) BY <2>7
  <2>9. PICK b \in Int : b = SumFunctionOnSet(e, U) BY <2>7
  <2>10. PICK n \in Nat : n = Cardinality(U) BY <2>2, FS_CardinalityType
  <2>11. Cardinality(T) = n + 1
    <3>1. Cardinality(T \ {x}) = Cardinality(T) - 1 BY <2>2, FS_RemoveElement
    <3>2. Cardinality(T) \in Nat BY <2>2, FS_CardinalityType
    <3> QED BY <2>1, <2>10, <3>1, <3>2
  <2>12. Within(a, b, n) BY <1>2, <2>1, <2>8, <2>9, <2>10
  <2>13. Within(f[x] + a, e[x] + b, n + 1)
    <3>1. d * (n + 1) = d * n + d /\ d * n \in Int OBVIOUS
    <3>2. f[x] \in Int /\ e[x] \in Int /\ f[x] - e[x] <= d /\ e[x] - f[x] <= d OBVIOUS
    <3>3. PICK m \in Int : m = d * n BY <3>1
    <3>4. PICK u \in Int, v \in Int : u = f[x] /\ v = e[x] BY <3>2
    <3>5. a - b <= m /\ b - a <= m /\ u - v <= d /\ v - u <= d BY <2>12, <3>2, <3>3, <3>4
    <3>6. (u + a) - (v + b) <= m + d /\ (v + b) - (u + a) <= m + d BY <3>5
    <3> QED BY <3>1, <3>3, <3>4, <3>6
  <2> HIDE DEF Within
  <2>14. Within(SumFunctionOnSet(f, T), SumFunctionOnSet(e, T), Cardinality(T)) BY <2>4, <2>8, <2>9, <2>11, <2>13
  <2> QED BY <2>14
<1>3. S \in G
  <2> HIDE DEF G
  <2>1. \A T \in SUBSET S : \A x \in T : T \ {x} \in G => T \in G BY <1>2
  <2> QED BY <1>1, <2>1, ByElements
<1> QED BY <1>3

\* A sum in two parts.
LEMMA SumSplits ==
  ASSUME NEW S, IsFiniteSet(S), NEW f, \A x \in S : f[x] \in Int, NEW T \in SUBSET S
  PROVE  SumFunctionOnSet(f, S) = SumFunctionOnSet(f, T) + SumFunctionOnSet(f, S \ T)
<1>1. PICK a : a = [x \in S |-> IF x \in T THEN f[x] ELSE 0] OBVIOUS
<1>2. PICK b : b = [x \in S |-> IF x \in T THEN 0 ELSE f[x]] OBVIOUS
<1>3. \A x \in S : a[x] \in Int /\ b[x] \in Int /\ f[x] = a[x] + b[x] BY <1>1, <1>2
<1>4. SumFunctionOnSet(f, S) = SumFunctionOnSet(a, S) + SumFunctionOnSet(b, S) BY <1>3, SumAdds
<1>5. SumFunctionOnSet(a, T) = SumFunctionOnSet(a, S)
  <2>1. \A x \in S \ T : a[x] = 0 BY <1>1
  <2>2. \A x \in S : a[x] \in Int BY <1>3
  <2> QED BY <2>1, <2>2, SumSkips
<1>6. PICK U \in SUBSET S : U = S \ T OBVIOUS
<1>7. SumFunctionOnSet(b, U) = SumFunctionOnSet(b, S)
  <2>1. \A x \in S \ U : b[x] = 0 BY <1>2, <1>6
  <2>2. \A x \in S : b[x] \in Int BY <1>3
  <2> QED BY <2>1, <2>2, SumSkips
<1>8. IsFiniteSet(T) /\ IsFiniteSet(U) BY FS_Subset
<1>9. \A x \in T : f[x] \in Int /\ a[x] = f[x] BY <1>1
<1>10. \A x \in U : f[x] \in Int /\ b[x] = f[x] BY <1>2, <1>6
<1>11. SumFunctionOnSet(f, T) = SumFunctionOnSet(a, T) BY <1>8, <1>9, SumSame
<1>12. SumFunctionOnSet(f, U) = SumFunctionOnSet(b, U) BY <1>8, <1>10, SumSame
<1> QED BY <1>4, <1>5, <1>6, <1>7, <1>11, <1>12
=============================================================================
