----------------------------- MODULE SumTheorems ------------------------------
(***************************************************************************)
(* What the folds of the community modules add up, for the sums that a     *)
(* module takes over its records.  The library's induction theorems take   *)
(* an operator; a least counterexample is a set, and needs none.           *)
(***************************************************************************)
EXTENDS Integers, SequencesExt, FiniteSetTheorems, SequenceTheorems,
       WellFoundedInduction, TLAPS

LEMMA LeastOf ==
  ASSUME NEW S \in SUBSET Nat, S # {}
  PROVE  \E n \in S : \A k \in S : n <= k
<1>1. PICK x \in S : \A y \in S : <<y, x>> \notin OpToRel(<, Nat)
  BY NatLessThanWellFounded, WFMin
<1>2. \A y \in S : x <= y
  <2> TAKE y \in S
  <2>1. <<y, x>> \in Nat \X Nat /\ <<y, x>>[1] = y /\ <<y, x>>[2] = x
    OBVIOUS
  <2>2. ~(y < x)
    BY <1>1, <2>1 DEF OpToRel
  <2> QED
    BY <2>2
<1> QED
  BY <1>2

(* Induction: what holds of 0 and goes on to the next number. *)
LEMMA AllNumbers ==
  ASSUME NEW Holds, 0 \in Holds, \A n \in Nat : n \in Holds => n + 1 \in Holds
  PROVE  \A n \in Nat : n \in Holds
<1> SUFFICES ASSUME Nat \ Holds # {} PROVE FALSE
  OBVIOUS
<1>1. PICK n \in Nat \ Holds : \A k \in Nat \ Holds : n <= k
  BY LeastOf
<1>2. n - 1 \in Nat /\ n - 1 \in Holds
  BY <1>1
<1> QED
  BY <1>1, <1>2

(* Sets that are counted. *)
LEMMA Counted ==
  ASSUME NEW S, IsFiniteSet(S), NEW T, NEW f \in [S -> T],
         \A x, y \in S : f[x] = f[y] => x = y,
         \A z \in T : \E x \in S : f[x] = z
  PROVE  IsFiniteSet(T) /\ Cardinality(T) = Cardinality(S)
<1>1. f \in Bijection(S, T)
  BY DEF Bijection, Injection, Surjection, IsInjective
<1>2. ExistsBijection(S, T)
  BY <1>1 DEF ExistsBijection
<1> QED
  BY <1>2, FS_Bijection

LEMMA Disjoint ==
  ASSUME NEW S, IsFiniteSet(S), NEW T, IsFiniteSet(T), S \cap T = {}
  PROVE  /\ IsFiniteSet(S \cup T)
         /\ Cardinality(S \cup T) = Cardinality(S) + Cardinality(T)
<1>1. /\ IsFiniteSet(S \cup T)
      /\ Cardinality(S \cup T) = Cardinality(S) + Cardinality(T) - Cardinality({})
  BY FS_Union
<1>2. Cardinality({}) = 0 /\ Cardinality(S) \in Nat /\ Cardinality(T) \in Nat
  BY FS_EmptySet, FS_CardinalityType
<1> QED
  BY <1>1, <1>2

LEMMA OneLess ==
  ASSUME NEW S, IsFiniteSet(S), NEW n \in Nat, Cardinality(S) = n + 1
  PROVE  S # {} /\ \A x \in S : Cardinality(S \ {x}) = n
<1>1. S # {}
  BY FS_EmptySet
<1>2. \A x \in S : Cardinality(S \ {x}) = Cardinality(S) - 1
  BY FS_RemoveElement
<1> QED
  BY <1>1, <1>2

(* A sum over the classes that a finite set falls into counts the set.     *)
LEMMA SumOfClasses ==
  ASSUME NEW S, IsFiniteSet(S), NEW R, IsFiniteSet(R), NEW g \in [R -> S]
  PROVE  SumFunction([t \in S |-> Cardinality({r \in R : g[r] = t})]) = Cardinality(R)
<1> DEFINE f == [t \in S |-> Cardinality({r \in R : g[r] = t})]
           x(s) == CHOOSE y \in s : TRUE
           In(s) == {r \in R : g[r] \in s}
           Adds(iter) == iter = [s \in SUBSET S |->
             IF s = {} THEN 0 ELSE f[x(s)] + iter[s \ {x(s)}]]
           iter == CHOOSE iter : Adds(iter)
           total == [s \in SUBSET S |-> Cardinality(In(s))]
<1>1. SumFunction(f) = iter[S]
  <2>1. SumFunction(f) = (CHOOSE it : it = [s \in SUBSET DOMAIN f |->
          IF s = {} THEN 0 ELSE f[x(s)] + it[s \ {x(s)}]])[DOMAIN f]
    BY DEF SumFunction, SumFunctionOnSet, FoldFunctionOnSet, MapThenFoldSet
  <2>2. DOMAIN f = S
    OBVIOUS
  <2> HIDE DEF f
  <2> QED
    BY <2>1, <2>2
<1>2. \A s \in SUBSET S : IsFiniteSet(s) /\ IsFiniteSet(In(s)) /\ Cardinality(In(s)) \in Nat
  BY FS_Subset, FS_CardinalityType
<1>3. \A s \in SUBSET S : s # {} => x(s) \in s
  OBVIOUS
<1> HIDE DEF x
<1>4. ASSUME NEW s \in SUBSET S, s # {}
      PROVE  Cardinality(In(s)) = f[x(s)] + Cardinality(In(s \ {x(s)}))
  <2> DEFINE one == {r \in R : g[r] = x(s)}
  <2>1. f[x(s)] = Cardinality(one)
    BY <1>3, <1>4
  <2>2. In(s) = one \cup In(s \ {x(s)}) /\ one \cap In(s \ {x(s)}) = {}
    BY <1>3, <1>4
  <2>3. IsFiniteSet(one) /\ IsFiniteSet(In(s \ {x(s)}))
    BY <1>2, FS_Subset
  <2> QED
    BY <2>1, <2>2, <2>3, Disjoint
<1>5. Cardinality(In({})) = 0
  BY FS_EmptySet
<1>6. Adds(total)
  BY <1>3, <1>4, <1>5
<1>7. Adds(iter)
  BY <1>6
<1>8. \A s \in SUBSET S : iter[s] = total[s]
  <2> DEFINE Holds == {n \in Nat : \A s \in SUBSET S :
                        Cardinality(s) = n => iter[s] = total[s]}
  <2>1. 0 \in Holds
    <3>1. \A s \in SUBSET S : Cardinality(s) = 0 => s = {}
      BY <1>2, FS_EmptySet
    <3>2. iter[{}] = 0 /\ total[{}] = 0
      BY <1>5, <1>7
    <3> QED
      BY <3>1, <3>2
  <2>2. ASSUME NEW n \in Nat, n \in Holds, NEW s \in SUBSET S, Cardinality(s) = n + 1
        PROVE  iter[s] = total[s]
    <3>1. s # {} /\ \A y \in s : Cardinality(s \ {y}) = n
      <4> HIDE DEF Holds
      <4> QED
        BY <1>2, <2>2, OneLess
    <3>2. x(s) \in s /\ s \ {x(s)} \in SUBSET S /\ Cardinality(s \ {x(s)}) = n
      BY <1>3, <3>1
    <3>3. iter[s \ {x(s)}] = total[s \ {x(s)}]
      BY <2>2, <3>2
    <3>4. iter[s] = f[x(s)] + total[s \ {x(s)}]
      BY <1>7, <3>1, <3>3
    <3> QED
      BY <1>4, <3>1, <3>2, <3>4
  <2>3. \A n \in Nat : n \in Holds
    <3>1. ASSUME NEW n \in Nat, n \in Holds PROVE n + 1 \in Holds
      <4>1. \A s \in SUBSET S : Cardinality(s) = n + 1 => iter[s] = total[s]
        BY <2>2, <3>1
      <4> HIDE DEF iter, total
      <4> QED
        BY <4>1
    <3> HIDE DEF Holds
    <3> QED
      BY <2>1, <3>1, AllNumbers
  <2> QED
    BY <1>2, <2>3, FS_CardinalityType
<1>9. In(S) = R
  OBVIOUS
<1> QED
  BY <1>1, <1>8, <1>9

-----------------------------------------------------------------------------
(* How many elements of a flattened sequence are in Q.                     *)

Hits(s, Q)   == {k \in DOMAIN s : s[k] \in Q}
Spots(ss, n, Q) ==
  {p \in (1 .. n) \X Nat : p[2] \in DOMAIN ss[p[1]] /\ ss[p[1]][p[2]] \in Q}

LEMMA HitsFinite ==
  ASSUME NEW X, NEW s \in Seq(X), NEW Q
  PROVE  IsFiniteSet(Hits(s, Q)) /\ Cardinality(Hits(s, Q)) \in Nat
<1>1. IsFiniteSet(1 .. Len(s)) /\ DOMAIN s = 1 .. Len(s)
  BY FS_Interval
<1>2. Hits(s, Q) \in SUBSET (1 .. Len(s))
  BY <1>1 DEF Hits
<1> QED
  BY <1>1, <1>2, FS_Subset, FS_CardinalityType

LEMMA HitsOfConcat ==
  ASSUME NEW X, NEW s \in Seq(X), NEW t \in Seq(X), NEW Q
  PROVE  Cardinality(Hits(s \o t, Q)) = Cardinality(Hits(s, Q)) + Cardinality(Hits(t, Q))
<1> DEFINE m == Len(s)
           late == {m + k : k \in Hits(t, Q)}
           f == [k \in Hits(t, Q) |-> m + k]
<1>1. m \in Nat /\ DOMAIN s = 1 .. m /\ DOMAIN t = 1 .. Len(t) /\ Len(t) \in Nat
  OBVIOUS
<1>2. /\ DOMAIN (s \o t) = 1 .. m + Len(t)
      /\ \A k \in 1 .. m : (s \o t)[k] = s[k]
      /\ \A k \in 1 .. Len(t) : (s \o t)[m + k] = t[k]
  BY ConcatProperties
<1>3. Hits(s \o t, Q) = Hits(s, Q) \cup late
  <2> DEFINE u == s \o t
  <2> HIDE DEF m, u
  <2>1. /\ DOMAIN u = 1 .. m + Len(t)
        /\ \A k \in 1 .. m : u[k] = s[k]
        /\ \A k \in 1 .. Len(t) : u[m + k] = t[k]
    BY <1>2 DEF u
  <2>2. ASSUME NEW k \in Hits(u, Q) PROVE k \in Hits(s, Q) \cup late
    <3>1. CASE k <= m
      BY <1>1, <2>1, <2>2, <3>1 DEF Hits
    <3>2. CASE k > m
      <4>1. k - m \in 1 .. Len(t) /\ m + (k - m) = k
        BY <1>1, <2>1, <2>2, <3>2 DEF Hits
      <4>2. k - m \in Hits(t, Q)
        BY <1>1, <2>1, <2>2, <4>1 DEF Hits
      <4> QED
        BY <4>1, <4>2
    <3> QED
      BY <1>1, <2>1, <2>2, <3>1, <3>2 DEF Hits
  <2>3. ASSUME NEW k \in Hits(s, Q) PROVE k \in Hits(u, Q)
    BY <1>1, <2>1, <2>3 DEF Hits
  <2>4. ASSUME NEW k \in Hits(t, Q) PROVE m + k \in Hits(u, Q)
    BY <1>1, <2>1, <2>4 DEF Hits
  <2> QED
    BY <2>2, <2>3, <2>4 DEF u
<1>4. Hits(s, Q) \cap late = {}
  BY <1>1 DEF Hits
<1>5. IsFiniteSet(late) /\ Cardinality(late) = Cardinality(Hits(t, Q))
  <2>1. f \in [Hits(t, Q) -> late]
    OBVIOUS
  <2>2. \A x, y \in Hits(t, Q) : f[x] = f[y] => x = y
    BY <1>1 DEF Hits
  <2>3. \A z \in late : \E x \in Hits(t, Q) : f[x] = z
    OBVIOUS
  <2> HIDE DEF f, late
  <2> QED
    BY <2>1, <2>2, <2>3, HitsFinite, Counted
<1> HIDE DEF late
<1> QED
  BY <1>3, <1>4, <1>5, HitsFinite, Disjoint

LEMMA SpotsGrow ==
  ASSUME NEW X, NEW n \in Nat, NEW ss, ss[n + 1] \in Seq(X), NEW Q, IsFiniteSet(Spots(ss, n, Q))
  PROVE  /\ IsFiniteSet(Spots(ss, n + 1, Q))
         /\ Cardinality(Spots(ss, n + 1, Q)) =
              Cardinality(Spots(ss, n, Q)) + Cardinality(Hits(ss[n + 1], Q))
<1> DEFINE hits == Hits(ss[n + 1], Q)
           row  == {<<n + 1, k>> : k \in hits}
           f    == [k \in hits |-> <<n + 1, k>>]
<1>1. hits \in SUBSET Nat /\ IsFiniteSet(hits)
  <2>1. DOMAIN ss[n + 1] = 1 .. Len(ss[n + 1]) /\ Len(ss[n + 1]) \in Nat
    OBVIOUS
  <2>2. hits \in SUBSET Nat
    BY <2>1 DEF Hits
  <2> QED
    BY <2>2, HitsFinite
<1>2. Spots(ss, n + 1, Q) = Spots(ss, n, Q) \cup row
  <2>1. ASSUME NEW p \in Spots(ss, n + 1, Q) PROVE p \in Spots(ss, n, Q) \cup row
    <3>1. PICK i \in 1 .. n + 1, k \in Nat :
            p = <<i, k>> /\ k \in DOMAIN ss[i] /\ ss[i][k] \in Q
      BY DEF Spots
    <3>2. CASE i = n + 1
      BY <3>1, <3>2 DEF Hits
    <3>3. CASE i \in 1 .. n
      BY <3>1, <3>3 DEF Spots
    <3> QED
      BY <3>2, <3>3
  <2>2. ASSUME NEW p \in Spots(ss, n, Q) PROVE p \in Spots(ss, n + 1, Q)
    BY DEF Spots
  <2>3. ASSUME NEW k \in hits PROVE <<n + 1, k>> \in Spots(ss, n + 1, Q)
    BY <1>1 DEF Spots, Hits
  <2> QED
    BY <2>1, <2>2, <2>3
<1>3. Spots(ss, n, Q) \cap row = {}
  BY DEF Spots
<1>4. IsFiniteSet(row) /\ Cardinality(row) = Cardinality(hits)
  <2>1. f \in [hits -> row] /\ \A x, y \in hits : f[x] = f[y] => x = y
    OBVIOUS
  <2>2. \A z \in row : \E x \in hits : f[x] = z
    OBVIOUS
  <2> HIDE DEF f, row, hits
  <2> QED
    BY <1>1, <2>1, <2>2, Counted
<1> HIDE DEF row
<1> QED
  BY <1>2, <1>3, <1>4, Disjoint

(* FlattenSeq() is a recursive function, which exists. *)
Flattens(h, ss, n) ==
  h = [i \in 1 .. n |-> IF i = 1 THEN ss[i] ELSE h[i - 1] \o ss[i]]

LEMMA FlattenExists ==
  ASSUME NEW ss, NEW n \in Nat
  PROVE  \E h : Flattens(h, ss, n)
<1> DEFINE Holds == {m \in Nat : \E h : Flattens(h, ss, m)}
<1>1. 0 \in Holds
  <2> DEFINE h == [i \in 1 .. 0 |-> ss[i]]
  <2>1. Flattens(h, ss, 0)
    BY DEF Flattens
  <2> QED
    BY <2>1
<1>2. ASSUME NEW m \in Nat, m \in Holds PROVE m + 1 \in Holds
  <2>1. PICK h : Flattens(h, ss, m)
    BY <1>2
  <2> DEFINE last == IF m = 0 THEN ss[1] ELSE h[m] \o ss[m + 1]
             g == [i \in 1 .. m + 1 |-> IF i = m + 1 THEN last ELSE h[i]]
             next == [i \in 1 .. m + 1 |-> IF i = 1 THEN ss[i] ELSE g[i - 1] \o ss[i]]
  <2>2. ASSUME NEW i \in 1 .. m + 1 PROVE g[i] = next[i]
    <3>1. CASE i = m + 1
      BY <3>1
    <3>2. CASE i \in 1 .. m
      <4>1. h[i] = IF i = 1 THEN ss[i] ELSE h[i - 1] \o ss[i]
        BY <2>1, <3>2 DEF Flattens
      <4>2. g[i] = h[i] /\ (i # 1 => g[i - 1] = h[i - 1])
        BY <3>2
      <4> HIDE DEF g
      <4> QED
        BY <3>2, <4>1, <4>2
    <3> QED
      BY <3>1, <3>2
  <2>3. g = next
    BY <2>2
  <2>4. Flattens(g, ss, m + 1)
    BY <2>3 DEF Flattens
  <2> QED
    BY <2>4
<1> HIDE DEF Holds
<1>3. n \in Holds
  BY <1>1, <1>2, AllNumbers
<1> QED
  BY <1>3 DEF Holds

(* FlattenSeq() keeps each element as often as its rows have it. *)
LEMMA FlattenedHits ==
  ASSUME NEW X, NEW ss \in Seq(Seq(X)), NEW Q
  PROVE  /\ FlattenSeq(ss) \in Seq(X)
         /\ IsFiniteSet(Spots(ss, Len(ss), Q))
         /\ Cardinality(Hits(FlattenSeq(ss), Q)) = Cardinality(Spots(ss, Len(ss), Q))
<1> DEFINE n == Len(ss)
           h == CHOOSE h : Flattens(h, ss, n)
           Right(i) == i \in 1 .. n =>
             /\ h[i] \in Seq(X)
             /\ IsFiniteSet(Spots(ss, i, Q))
             /\ Cardinality(Hits(h[i], Q)) = Cardinality(Spots(ss, i, Q))
           Holds == {i \in Nat : Right(i)}
<1>1. n \in Nat /\ \A i \in 1 .. n : ss[i] \in Seq(X)
  OBVIOUS
<1>2. FlattenSeq(ss) = IF n = 0 THEN ss ELSE h[n]
  BY DEF FlattenSeq, Flattens
<1>3. Flattens(h, ss, n)
  BY <1>1, FlattenExists
<1>4. Spots(ss, 0, Q) = {} /\ IsFiniteSet({}) /\ Cardinality({}) = 0
  BY FS_EmptySet DEF Spots
<1> HIDE DEF h
<1>5. \A i \in 1 .. n : h[i] = IF i = 1 THEN ss[i] ELSE h[i - 1] \o ss[i]
  <2> HIDE DEF n
  <2> QED
    BY <1>3 DEF Flattens
<1>6. ASSUME NEW i \in Nat, Right(i), i + 1 \in 1 .. n
      PROVE  Right(i + 1)
  <2>1. ss[i + 1] \in Seq(X)
    BY <1>1, <1>6
  <2>2. CASE i = 0
    <3>1. h[i + 1] = ss[i + 1]
      BY <1>5, <1>6, <2>2
    <3>2. IsFiniteSet(Spots(ss, i, Q)) /\ Cardinality(Spots(ss, i, Q)) = 0
      BY <1>4, <2>2
    <3>3. Cardinality(Hits(ss[i + 1], Q)) \in Nat
      BY <2>1, HitsFinite
    <3>4. /\ IsFiniteSet(Spots(ss, i + 1, Q))
          /\ Cardinality(Spots(ss, i + 1, Q)) = Cardinality(Hits(ss[i + 1], Q))
      BY <2>1, <3>2, <3>3, SpotsGrow
    <3> QED
      BY <2>1, <3>1, <3>4
  <2>3. CASE i # 0
    <3>1. i \in 1 .. n
      BY <1>1, <1>6, <2>3
    <3>2. h[i + 1] = h[i] \o ss[i + 1]
      <4>1. i + 1 \in 1 .. n /\ i + 1 # 1 /\ (i + 1) - 1 = i
        BY <1>6, <2>3
      <4>2. \A j, k : j \in 1 .. n /\ j # 1 /\ j - 1 = k => h[j] = h[k] \o ss[j]
        BY <1>5
      <4> HIDE DEF n
      <4> QED
        BY <4>1, <4>2
    <3>3. /\ h[i] \in Seq(X) /\ IsFiniteSet(Spots(ss, i, Q))
          /\ Cardinality(Hits(h[i], Q)) = Cardinality(Spots(ss, i, Q))
      BY <1>6, <3>1
    <3>4. h[i + 1] \in Seq(X)
      BY <2>1, <3>2, <3>3, ConcatProperties
    <3>5. Cardinality(Hits(h[i + 1], Q)) =
            Cardinality(Hits(h[i], Q)) + Cardinality(Hits(ss[i + 1], Q))
      BY <2>1, <3>2, <3>3, HitsOfConcat
    <3>6. /\ IsFiniteSet(Spots(ss, i + 1, Q))
          /\ Cardinality(Spots(ss, i + 1, Q)) =
               Cardinality(Spots(ss, i, Q)) + Cardinality(Hits(ss[i + 1], Q))
      BY <2>1, <3>3, SpotsGrow
    <3> QED
      BY <3>3, <3>4, <3>5, <3>6
  <2> QED
    BY <2>2, <2>3
<1>7. 0 \in Holds
  OBVIOUS
<1>8. \A i \in Nat : i \in Holds => i + 1 \in Holds
  <2>1. ASSUME NEW i \in Nat, Right(i) PROVE Right(i + 1)
    <3>1. CASE i + 1 \in 1 .. n
      <4> HIDE DEF Right
      <4> QED
        BY <1>6, <2>1, <3>1
    <3> QED
      BY <3>1
  <2> HIDE DEF Right
  <2> QED
    BY <2>1
<1>9. n \in Holds
  <2> HIDE DEF Holds, n
  <2> QED
    BY <1>1, <1>7, <1>8, AllNumbers
<1>10. CASE n = 0
  <2>1. FlattenSeq(ss) = <<>> /\ Hits(<<>>, Q) = {} /\ <<>> \in Seq(X)
    BY <1>2, <1>10 DEF Hits
  <2> QED
    BY <1>4, <1>10, <2>1
<1>11. CASE n # 0
  <2>1. n \in 1 .. n /\ FlattenSeq(ss) = h[n]
    BY <1>1, <1>2, <1>11
  <2>2. Right(n)
    BY <1>9
  <2> QED
    BY <2>1, <2>2
<1> QED
  BY <1>10, <1>11

LEMMA AllHits ==
  ASSUME NEW X, NEW s \in Seq(X)
  PROVE  Cardinality(Hits(s, X)) = Len(s)
<1>1. Hits(s, X) = 1 .. Len(s) /\ Len(s) \in Nat
  BY DEF Hits
<1> QED
  BY <1>1, FS_Interval

LEMMA HitsSplit ==
  ASSUME NEW X, NEW s \in Seq(X), NEW P, NEW Q, P \cap Q = {}
  PROVE  Cardinality(Hits(s, P \cup Q)) = Cardinality(Hits(s, P)) + Cardinality(Hits(s, Q))
<1>1. Hits(s, P \cup Q) = Hits(s, P) \cup Hits(s, Q) /\ Hits(s, P) \cap Hits(s, Q) = {}
  BY DEF Hits
<1> QED
  BY <1>1, HitsFinite, Disjoint

(* Rows that are of one length or empty.                                   *)
LEMMA EvenSpots ==
  ASSUME NEW X, NEW ss \in Seq(Seq(X)), NEW len \in Nat, NEW A \in SUBSET (1 .. Len(ss)),
         \A i \in 1 .. Len(ss) : Len(ss[i]) = IF i \in A THEN len ELSE 0
  PROVE  Cardinality(Spots(ss, Len(ss), X)) = len * Cardinality(A)
<1> DEFINE n == Len(ss)
           Upto(i) == A \cap 1 .. i
           Right(i) == i <= n =>
             /\ IsFiniteSet(Spots(ss, i, X))
             /\ Cardinality(Spots(ss, i, X)) = len * Cardinality(Upto(i))
           Holds == {i \in Nat : Right(i)}
<1>1. n \in Nat /\ \A i \in 1 .. n : ss[i] \in Seq(X)
  OBVIOUS
<1>2. 0 \in Holds
  <2>1. Spots(ss, 0, X) = {} /\ Upto(0) = {}
    BY DEF Spots
  <2>2. IsFiniteSet({}) /\ Cardinality({}) = 0 /\ len * 0 = 0
    BY FS_EmptySet
  <2> QED
    BY <2>1, <2>2
<1>3. ASSUME NEW i \in Nat, Right(i), i + 1 <= n PROVE Right(i + 1)
  <2>1. i + 1 \in 1 .. n /\ i <= n
    BY <1>1, <1>3
  <2>2. ss[i + 1] \in Seq(X) /\ Len(ss[i + 1]) = IF i + 1 \in A THEN len ELSE 0
    BY <1>1, <2>1
  <2>3. /\ IsFiniteSet(Spots(ss, i + 1, X))
        /\ Cardinality(Spots(ss, i + 1, X)) =
             len * Cardinality(Upto(i)) + Len(ss[i + 1])
    BY <1>3, <2>1, <2>2, SpotsGrow, AllHits
  <2>4. IsFiniteSet(Upto(i)) /\ Cardinality(Upto(i)) \in Nat
    <3>1. IsFiniteSet(1 .. i) /\ Upto(i) \in SUBSET (1 .. i)
      BY FS_Interval
    <3> QED
      BY <3>1, FS_Subset, FS_CardinalityType
  <2>5. CASE i + 1 \in A
    <3>1. Upto(i + 1) = Upto(i) \cup {i + 1} /\ i + 1 \notin Upto(i)
      BY <2>5
    <3>2. Cardinality(Upto(i + 1)) = Cardinality(Upto(i)) + 1
      BY <2>4, <3>1, FS_AddElement
    <3>3. len * (Cardinality(Upto(i)) + 1) = len * Cardinality(Upto(i)) + len
      BY <2>4
    <3> QED
      BY <2>2, <2>3, <2>5, <3>2, <3>3
  <2>6. CASE i + 1 \notin A
    <3>1. Upto(i + 1) = Upto(i)
      BY <2>6
    <3>2. len * Cardinality(Upto(i)) + 0 = len * Cardinality(Upto(i))
      BY <2>4
    <3> QED
      BY <2>2, <2>3, <2>6, <3>1, <3>2
  <2> QED
    BY <2>5, <2>6
<1>4. n \in Holds
  <2>1. ASSUME NEW i \in Nat, Right(i) PROVE Right(i + 1)
    <3>1. CASE i + 1 <= n
      <4> HIDE DEF Right
      <4> QED
        BY <1>3, <2>1, <3>1
    <3> QED
      BY <3>1
  <2>2. \A i \in Nat : i \in Holds => i + 1 \in Holds
    <3> HIDE DEF Right
    <3> QED
      BY <2>1
  <2> HIDE DEF Holds, n
  <2> QED
    BY <1>1, <1>2, <2>2, AllNumbers
<1>5. Upto(n) = A
  BY <1>1
<1>6. n <= n => Cardinality(Spots(ss, n, X)) = len * Cardinality(Upto(n))
  BY <1>4
<1> HIDE DEF n, Upto
<1>7. Cardinality(Spots(ss, n, X)) = len * Cardinality(A)
  BY <1>1, <1>5, <1>6
<1> QED
  BY <1>7 DEF n
===============================================================================
