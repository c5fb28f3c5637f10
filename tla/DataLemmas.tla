------------------------------ MODULE DataLemmas ------------------------------
(***************************************************************************)
(* Lemmas about data that the proofs of the plans and of the rollups need:  *)
(* induction on the naturals and on finite sets as a fact about sets of     *)
(* them, functions defined by a recursion on an interval, the least and the *)
(* greatest of a set, the flattening of a sequence of sequences, and sums   *)
(* of a function's values, taken at once or by groups.                      *)
(***************************************************************************)
EXTENDS Integers, SequencesExt, FiniteSetTheorems, SequenceTheorems,
        WellFoundedInduction, TLAPS

LEMMA LeastExists ==
  ASSUME NEW T \in SUBSET Nat, T # {}
  PROVE  \E m \in T : \A k \in T : m <= k
<1> DEFINE R == OpToRel(<, Nat)
<1>1. IsWellFoundedOn(R, Nat)
  BY NatLessThanWellFounded
<1>2. \E x \in T : \A y \in T : ~ (<<y, x>> \in R)
  <2> HIDE DEF R
  <2> QED BY <1>1, WFMin
<1>3. \A x, y \in Nat : <<y, x>> \in R <=> y < x
  BY DEF OpToRel
<1> HIDE DEF R
<1>4. PICK m \in T : \A k \in T : ~ (<<k, m>> \in R)
  BY <1>2
<1>5. \A k \in T : ~ (k < m)
  BY <1>3, <1>4
<1>6. \A k \in T : m <= k
  <2> TAKE k \in T
  <2>1. k \in Nat /\ m \in Nat
    OBVIOUS
  <2> QED BY <1>5, <2>1
<1> QED BY <1>6

(* Induction: a set that holds 0 and, with a number, the next, holds them all. *)
LEMMA SetInduction ==
  ASSUME NEW S \in SUBSET Nat, 0 \in S, \A n \in S : n + 1 \in S
  PROVE  S = Nat
<1> DEFINE T == Nat \ S
<1> SUFFICES ASSUME T # {} PROVE FALSE
  OBVIOUS
<1>1. PICK m \in T : \A k \in T : m <= k
  <2> HIDE DEF T
  <2>1. T \in SUBSET Nat
    BY DEF T
  <2> QED BY <2>1, LeastExists
<1>2. m - 1 \in S
  BY <1>1
<1> QED BY <1>1, <1>2

(* A recursion over 1..n whose values stay in a set defines a function.       *)
Recursion(S, base, n, step) ==
  {f \in [0..n -> S] : f[0] = base /\ \A i \in 1..n : f[i] = step[i][f[i - 1]]}

LEMMA RecursionExists ==
  ASSUME NEW S, NEW base \in S, NEW n \in Nat, NEW step \in [1..n -> [S -> S]]
  PROVE  Recursion(S, base, n, step) # {}
<1> DEFINE Defines(f, k) == /\ f \in [0..k -> S] /\ f[0] = base
                            /\ \A i \in 1..k : f[i] = step[i][f[i - 1]]
           K == {k \in Nat : k <= n => \E f : Defines(f, k)}
<1>1. 0 \in K
  <2>1. Defines([i \in 0..0 |-> base], 0)
    OBVIOUS
  <2> QED BY <2>1
<1>2. ASSUME NEW k \in K PROVE k + 1 \in K
  <2>0. k \in Nat /\ (k <= n => \E f : Defines(f, k))
    OBVIOUS
  <2> SUFFICES ASSUME k + 1 <= n PROVE \E f : Defines(f, k + 1)
    <3> HIDE DEF Defines
    <3> QED BY <2>0
  <2>1. PICK f : Defines(f, k)
    <3> HIDE DEF Defines
    <3> QED BY <2>0
  <2> DEFINE g == [i \in 0..(k + 1) |-> IF i <= k THEN f[i] ELSE step[i][f[i - 1]]]
  <2>2. k + 1 \in 1..n /\ (k + 1) - 1 = k /\ k \in 0..k
    OBVIOUS
  <2>3. step[k + 1][f[k]] \in S
    BY <2>1, <2>2
  <2>4. \A i \in 0..(k + 1) : g[i] \in S
    BY <2>1, <2>2, <2>3
  <2>5. \A i \in 1..(k + 1) : g[i] = step[i][g[i - 1]]
    <3> TAKE i \in 1..(k + 1)
    <3>1. i - 1 \in 0..k /\ g[i - 1] = f[i - 1]
      OBVIOUS
    <3>2. CASE i \in 1..k
      BY <2>1, <3>1, <3>2
    <3>3. CASE i = k + 1
      BY <3>1, <3>3
    <3> QED BY <3>2, <3>3
  <2>6. Defines(g, k + 1)
    BY <2>1, <2>4, <2>5
  <2> QED BY <2>6
<1>3. K = Nat
  <2> HIDE DEF K
  <2>1. K \in SUBSET Nat
    BY DEF K
  <2> QED BY <1>1, <1>2, <2>1, SetInduction
<1>4. n \in K
  <2> HIDE DEF K
  <2> QED BY <1>3
<1>5. PICK f : Defines(f, n)
  <2> HIDE DEF Defines
  <2> QED BY <1>4
<1> QED BY <1>5 DEF Recursion

-----------------------------------------------------------------------------
(* The least and the greatest of a set. *)
LEMMA MinMember ==
  ASSUME NEW S \in SUBSET Nat, S # {}
  PROVE  Min(S) \in S /\ \A x \in S : Min(S) <= x
<1>1. \E m \in S : \A x \in S : m <= x
  BY LeastExists
<1> QED BY <1>1 DEF Min

LEMMA MaxMember ==
  ASSUME NEW b \in Nat, NEW S \in SUBSET (0..b), S # {}
  PROVE  Max(S) \in S /\ \A x \in S : Max(S) >= x
<1> DEFINE T == {b - x : x \in S}
<1>0. \A x \in S : x \in Nat /\ x <= b
  OBVIOUS
<1>1. T \in SUBSET Nat /\ T # {}
  <2>1. \A x \in S : b - x \in Nat
    BY <1>0
  <2> QED BY <2>1
<1>2. PICK m \in T : \A k \in T : m <= k
  <2> HIDE DEF T
  <2> QED BY <1>1, LeastExists
<1>3. PICK x \in S : m = b - x
  OBVIOUS
<1>4. \A y \in S : x >= y
  <2> TAKE y \in S
  <2>1. m <= b - y
    BY <1>2
  <2>2. x \in Nat /\ y \in Nat
    BY <1>0
  <2> QED BY <1>3, <2>1, <2>2
<1>5. \E z \in S : \A y \in S : z >= y
  BY <1>4
<1> QED BY <1>5 DEF Max

LEMMA MaxOfTwo ==
  ASSUME NEW a \in Int, NEW b \in Int
  PROVE  Max({a, b}) = IF a >= b THEN a ELSE b
<1>1. \E x \in {a, b} : \A y \in {a, b} : x >= y
  OBVIOUS
<1>2. Max({a, b}) \in {a, b} /\ \A y \in {a, b} : Max({a, b}) >= y
  BY <1>1 DEF Max
<1> QED BY <1>2

LEMMA MinOfTwo ==
  ASSUME NEW a \in Int, NEW b \in Int
  PROVE  Min({a, b}) = IF a <= b THEN a ELSE b
<1>1. \E x \in {a, b} : \A y \in {a, b} : x <= y
  OBVIOUS
<1>2. Min({a, b}) \in {a, b} /\ \A y \in {a, b} : Min({a, b}) <= y
  BY <1>1 DEF Min
<1> QED BY <1>2

-----------------------------------------------------------------------------
(* Sequences. *)
LEMMA SingleSeq == ASSUME NEW S, NEW x \in S PROVE <<x>> \in Seq(S)
OBVIOUS

LEMMA SeqOfFunction ==
  ASSUME NEW S, NEW n \in Nat, NEW f, f \in [1..n -> S]
  PROVE  f \in Seq(S) /\ Len(f) = n
OBVIOUS

LEMMA ElementOf == ASSUME NEW S, NEW s \in Seq(S), NEW i \in DOMAIN s PROVE s[i] \in S
OBVIOUS

LEMMA ConcatAt ==
  ASSUME NEW S, NEW s \in Seq(S), NEW t \in Seq(S)
  PROVE  /\ s \o t \in Seq(S) /\ Len(s \o t) = Len(s) + Len(t)
         /\ Len(s) \in Nat /\ Len(t) \in Nat
         /\ \A i \in 1..Len(s) : (s \o t)[i] = s[i]
         /\ \A i \in 1..Len(t) : (s \o t)[Len(s) + i] = t[i]
OBVIOUS

LEMMA Reassociate ==
  ASSUME NEW S, NEW x \in Seq(S), NEW y \in Seq(S), NEW z \in Seq(S)
  PROVE  (x \o y) \o z = x \o (y \o z)
BY ConcatAssociative

-----------------------------------------------------------------------------
(* Flattening appends one sequence after the other. *)
Appending(Q, n, ss) ==
  {f \in [0..n -> Q] : f[0] = <<>> /\ \A i \in 1..n : f[i] = f[i - 1] \o ss[i]}

LEMMA AppendsExist ==
  ASSUME NEW T, NEW n \in Nat, NEW ss \in [1..n -> Seq(T)]
  PROVE  Appending(Seq(T), n, ss) # {}
<1> DEFINE Q == Seq(T)
           step == [i \in 1..n |-> [s \in Q |-> s \o ss[i]]]
           base == <<>>
<1>1. step \in [1..n -> [Q -> Q]] /\ base \in Q
  <2>1. \A i \in 1..n : \A s \in Q : s \o ss[i] \in Q
    BY ConcatProperties
  <2> QED BY <2>1
<1>2. Recursion(Q, base, n, step) # {}
  <2> HIDE DEF Q, step, base
  <2> QED BY <1>1, RecursionExists
<1>3. PICK f \in [0..n -> Q] : f[0] = base /\ \A i \in 1..n : f[i] = step[i][f[i - 1]]
  <2> HIDE DEF Q, step, base
  <2> QED BY <1>2 DEF Recursion
<1>4. \A i \in 1..n : f[i] = f[i - 1] \o ss[i]
  <2> TAKE i \in 1..n
  <2>1. f[i - 1] \in Q
    BY <1>3
  <2> QED BY <1>3, <2>1
<1> QED BY <1>3, <1>4 DEF Appending

LEMMA FlattenUnfolds ==
  ASSUME NEW T, NEW ss \in Seq(Seq(T))
  PROVE  \E f \in [0..Len(ss) -> Seq(T)] :
           /\ f[0] = <<>> /\ \A i \in 1..Len(ss) : f[i] = f[i - 1] \o ss[i]
           /\ FlattenSeq(ss) = f[Len(ss)]
<1> DEFINE n == Len(ss)
<1>1. n \in Nat /\ \A i \in 1..n : ss[i] \in Seq(T)
  OBVIOUS
<1>2. ss \in [1..n -> Seq(T)]
  BY LenProperties
<1>3. PICK f \in [0..n -> Seq(T)] :
        f[0] = <<>> /\ \A i \in 1..n : f[i] = f[i - 1] \o ss[i]
  <2>1. Appending(Seq(T), n, ss) # {}
    <3> HIDE DEF n
    <3> QED BY <1>1, <1>2, AppendsExist
  <2> QED BY <2>1 DEF Appending
<1>4. \A i \in 1..n : f[i] = f[i - 1] \o ss[i]
  BY <1>3
<1>5. CASE n = 0
  <2>1. ss = <<>>
    BY <1>5
  <2>2. FlattenSeq(ss) = <<>>
    BY <1>5, <2>1 DEF FlattenSeq
  <2> QED BY <1>3, <1>4, <1>5, <2>2
<1>6. CASE n # 0
  <2> DEFINE Rec(g) == g = [i \in 1..n |-> IF i = 1 THEN ss[i] ELSE g[i - 1] \o ss[i]]
             h == [i \in 1..n |-> f[i]]
  <2>1. f[1] = ss[1]
    <3>1. 1 \in 1..n /\ 1 - 1 = 0
      BY <1>1, <1>6
    <3>2. f[1] = <<>> \o ss[1]
      BY <3>1, <1>3, <1>4
    <3> QED BY <1>1, <3>1, <3>2, ConcatEmptySeq
  <2>2. Rec(h)
    <3>1. \A i \in 1..n : h[i] = IF i = 1 THEN ss[i] ELSE h[i - 1] \o ss[i]
      <4> TAKE i \in 1..n
      <4>1. i # 1 => i - 1 \in 1..n
        BY <1>1
      <4> QED BY <2>1, <1>4, <4>1
    <3> HIDE DEF n
    <3> QED BY <3>1
  <2> DEFINE c == CHOOSE g : Rec(g)
  <2>3. Rec(c)
    <3> HIDE DEF Rec, h
    <3> QED BY <2>2
  <2>4. FlattenSeq(ss) = c[n]
    BY <1>6 DEF FlattenSeq
  <2>5. \A i \in 1..n : c[i] = IF i = 1 THEN ss[i] ELSE c[i - 1] \o ss[i]
    <3> HIDE DEF n
    <3> QED BY <2>3
  <2>6. \A i \in 1..n : c[i] = f[i]
    <3> HIDE DEF c, n
    <3> DEFINE K == {k \in Nat : k + 1 <= n => c[k + 1] = f[k + 1]}
    <3>1. 0 \in K
      BY <1>1, <1>6, <2>1, <2>5
    <3>2. ASSUME NEW k \in K PROVE k + 1 \in K
      <4> SUFFICES ASSUME (k + 1) + 1 <= n PROVE c[(k + 1) + 1] = f[(k + 1) + 1]
        OBVIOUS
      <4>1. (k + 1) + 1 \in 1..n /\ (k + 1) + 1 # 1 /\ ((k + 1) + 1) - 1 = k + 1 /\ k + 1 <= n
        BY <1>1
      <4>2. c[k + 1] = f[k + 1]
        BY <4>1
      <4>3. f[(k + 1) + 1] = f[k + 1] \o ss[(k + 1) + 1]
        BY <1>4, <4>1
      <4>4. c[(k + 1) + 1] = c[k + 1] \o ss[(k + 1) + 1]
        BY <2>5, <4>1
      <4> QED BY <4>2, <4>3, <4>4
    <3>3. K = Nat
      <4> HIDE DEF K
      <4>1. K \in SUBSET Nat
        BY DEF K
      <4> QED BY <3>1, <3>2, <4>1, SetInduction
    <3> TAKE i \in 1..n
    <3>4. i - 1 \in Nat /\ (i - 1) + 1 = i /\ i <= n
      BY <1>1
    <3>5. i - 1 \in K
      BY <3>3, <3>4
    <3> QED BY <3>4, <3>5
  <2>7. FlattenSeq(ss) = f[n]
    <3>1. n \in 1..n
      BY <1>1, <1>6
    <3> HIDE DEF c, n
    <3> QED BY <2>4, <2>6, <3>1
  <2> QED BY <1>3, <1>4, <2>7
<1> QED BY <1>5, <1>6

LEMMA FlattenConcat ==
  ASSUME NEW T, NEW ss \in Seq(Seq(T)), NEW tt \in Seq(Seq(T))
  PROVE  /\ FlattenSeq(ss) \in Seq(T)
         /\ FlattenSeq(ss \o tt) = FlattenSeq(ss) \o FlattenSeq(tt)
<1> DEFINE m == Len(ss)
           n == Len(tt)
           uu == ss \o tt
<1>0. ASSUME NEW x \in Seq(T), NEW y \in Seq(T), NEW z \in Seq(T)
      PROVE  (x \o y) \o z = x \o (y \o z)
  BY ConcatAssociative
<1>1. /\ m \in Nat /\ n \in Nat /\ uu \in Seq(Seq(T)) /\ Len(uu) = m + n
      /\ \A i \in 1..m : uu[i] = ss[i]
      /\ \A i \in 1..n : uu[m + i] = tt[i]
      /\ \A i \in 1..n : tt[i] \in Seq(T)
  OBVIOUS
<1>2. PICK f \in [0..m -> Seq(T)] :
        /\ f[0] = <<>> /\ \A i \in 1..m : f[i] = f[i - 1] \o ss[i]
        /\ FlattenSeq(ss) = f[m]
  BY FlattenUnfolds
<1>3. PICK h \in [0..n -> Seq(T)] :
        /\ h[0] = <<>> /\ \A i \in 1..n : h[i] = h[i - 1] \o tt[i]
        /\ FlattenSeq(tt) = h[n]
  BY FlattenUnfolds
<1>4. PICK g \in [0..m + n -> Seq(T)] :
        /\ g[0] = <<>> /\ \A i \in 1..m + n : g[i] = g[i - 1] \o uu[i]
        /\ FlattenSeq(uu) = g[m + n]
  <2> HIDE DEF m, n, uu
  <2>1. \E g \in [0..Len(uu) -> Seq(T)] :
          /\ g[0] = <<>> /\ \A i \in 1..Len(uu) : g[i] = g[i - 1] \o uu[i]
          /\ FlattenSeq(uu) = g[Len(uu)]
    <3>1. uu \in Seq(Seq(T))
      BY <1>1
    <3> QED BY <3>1, FlattenUnfolds
  <2>2. Len(uu) = m + n
    BY <1>1
  <2> QED BY <2>1, <2>2
<1> HIDE DEF m, n, uu
<1>5. f[m] \in Seq(T)
  BY <1>1
<1>6. g[m] = f[m]
  <2> DEFINE K == {k \in Nat : k <= m => g[k] = f[k]}
  <2>1. 0 \in K
    BY <1>2, <1>4
  <2>2. ASSUME NEW k \in K PROVE k + 1 \in K
    <3> SUFFICES ASSUME k + 1 <= m PROVE g[k + 1] = f[k + 1]
      OBVIOUS
    <3>1. /\ k + 1 \in 1..m /\ k + 1 \in 1..m + n /\ (k + 1) - 1 = k /\ k <= m
      BY <1>1
    <3>2. g[k] = f[k]
      BY <3>1
    <3>3. f[k + 1] = f[k] \o ss[k + 1]
      BY <1>2, <3>1
    <3>4. g[k + 1] = g[k] \o ss[k + 1]
      BY <1>1, <1>4, <3>1
    <3> QED BY <3>2, <3>3, <3>4
  <2>3. K = Nat
    <3>1. K \in SUBSET Nat
      OBVIOUS
    <3> HIDE DEF K
    <3> QED BY <2>1, <2>2, <3>1, SetInduction
  <2>4. m \in K
    BY <2>3, <1>1
  <2> QED BY <2>4
<1>7. g[m + n] = f[m] \o h[n]
  <2> DEFINE c == [k \in 0..n |-> g[m + k]]
             d == [k \in 0..n |-> f[m] \o h[k]]
             K == {k \in Nat : k <= n => c[k] = d[k]}
  <2>0. ASSUME NEW k \in 0..n PROVE c[k] = g[m + k] /\ d[k] = f[m] \o h[k]
    OBVIOUS
  <2> HIDE DEF c, d
  <2>1. 0 \in K
    <3>1. m + 0 = m /\ f[m] \o <<>> = f[m] /\ 0 \in 0..n
      BY <1>1, <1>5, ConcatEmptySeq
    <3> QED BY <2>0, <1>3, <1>6, <3>1
  <2>2. ASSUME NEW k \in K PROVE k + 1 \in K
    <3> SUFFICES ASSUME k + 1 <= n PROVE c[k + 1] = d[k + 1]
      OBVIOUS
    <3>1. /\ k + 1 \in 1..n /\ m + (k + 1) \in 1..m + n
          /\ (k + 1) - 1 = k /\ (m + (k + 1)) - 1 = m + k /\ k <= n /\ k \in 0..n /\ k + 1 \in 0..n
      BY <1>1
    <3>2. c[k] = f[m] \o h[k]
      BY <2>0, <3>1
    <3>3. h[k + 1] = h[k] \o tt[k + 1]
      BY <1>3, <3>1
    <3>4. g[m + (k + 1)] = g[m + k] \o tt[k + 1]
      BY <1>1, <1>4, <3>1
    <3>7. c[k + 1] = c[k] \o tt[k + 1]
      BY <2>0, <3>1, <3>4
    <3>5. h[k] \in Seq(T) /\ tt[k + 1] \in Seq(T)
      BY <1>1, <3>1
    <3>6. (f[m] \o h[k]) \o tt[k + 1] = f[m] \o (h[k] \o tt[k + 1])
      <4> DEFINE x == f[m]
                 y == h[k]
                 z == tt[k + 1]
      <4>1. x \in Seq(T) /\ y \in Seq(T) /\ z \in Seq(T)
        BY <1>5, <3>5
      <4> HIDE DEF x, y, z
      <4>2. (x \o y) \o z = x \o (y \o z)
        BY <4>1, <1>0, Zenon
      <4> QED BY <4>2 DEF x, y, z
    <3> QED BY <2>0, <3>1, <3>2, <3>3, <3>7, <3>6
  <2>3. K = Nat
    <3>1. K \in SUBSET Nat
      OBVIOUS
    <3> HIDE DEF K
    <3> QED BY <2>1, <2>2, <3>1, SetInduction
  <2>4. n \in K /\ n \in 0..n
    <3> HIDE DEF K
    <3> QED BY <2>3, <1>1
  <2>5. c[n] = d[n]
    BY <2>4, <1>1
  <2> QED BY <2>0, <2>4, <2>5
<1> QED BY <1>2, <1>3, <1>4, <1>5, <1>7 DEF uu

LEMMA FlattenOne ==
  ASSUME NEW T, NEW s \in Seq(T)
  PROVE  FlattenSeq(<<s>>) = s
<1>1. <<s>> \in Seq(Seq(T)) /\ Len(<<s>>) = 1 /\ <<s>>[1] = s
  OBVIOUS
<1>2. PICK f \in [0..1 -> Seq(T)] :
        /\ f[0] = <<>> /\ \A i \in 1..1 : f[i] = f[i - 1] \o <<s>>[i]
        /\ FlattenSeq(<<s>>) = f[1]
  BY <1>1, FlattenUnfolds
<1>3. f[1] = <<>> \o s
  BY <1>2
<1> QED BY <1>2, <1>3, ConcatEmptySeq

LEMMA FlattenGrows ==
  ASSUME NEW T, NEW n \in Nat, NEW F, \A k \in 1..n + 1 : F[k] \in Seq(T)
  PROVE  FlattenSeq([k \in 1..n + 1 |-> F[k]]) = FlattenSeq([k \in 1..n |-> F[k]]) \o F[n + 1]
<1> DEFINE a == [k \in 1..n |-> F[k]]
           b == <<F[n + 1]>>
           c == [k \in 1..n + 1 |-> F[k]]
<1>0. F[n + 1] \in Seq(T)
  OBVIOUS
<1>1. /\ a \in Seq(Seq(T)) /\ Len(a) = n /\ \A k \in 1..n : a[k] = F[k]
      /\ b \in Seq(Seq(T)) /\ Len(b) = 1 /\ b[1] = F[n + 1]
      /\ c \in Seq(Seq(T)) /\ Len(c) = n + 1 /\ \A k \in 1..n + 1 : c[k] = F[k]
  <2>1. \A k \in 1..n : k \in 1..n + 1
    OBVIOUS
  <2>2. a \in [1..n -> Seq(T)]
    BY <2>1
  <2>3. c \in [1..n + 1 -> Seq(T)] /\ n + 1 \in Nat
    OBVIOUS
  <2>4. \A k \in 1..n : a[k] = F[k]
    OBVIOUS
  <2>5. \A k \in 1..n + 1 : c[k] = F[k]
    OBVIOUS
  <2>6. b \in Seq(Seq(T)) /\ Len(b) = 1 /\ b[1] = F[n + 1]
    <3> DEFINE x == F[n + 1]
    <3>1. x \in Seq(T)
      BY <1>0
    <3> HIDE DEF x
    <3>2. <<x>> \in Seq(Seq(T)) /\ Len(<<x>>) = 1 /\ <<x>>[1] = x
      BY <3>1, SingleSeq
    <3> QED BY <3>2 DEF x
  <2> HIDE DEF a, b, c
  <2>7. a \in Seq(Seq(T)) /\ Len(a) = n
    BY <2>2, SeqOfFunction
  <2>8. c \in Seq(Seq(T)) /\ Len(c) = n + 1
    BY <2>3, SeqOfFunction
  <2> QED BY <2>4, <2>5, <2>6, <2>7, <2>8
<1> HIDE DEF a, b, c
<1>2. c = a \o b
  <2> DEFINE r == a \o b
  <2>0. /\ r \in Seq(Seq(T)) /\ Len(r) = Len(a) + Len(b)
        /\ \A k \in 1..Len(a) : r[k] = a[k]
        /\ \A k \in 1..Len(b) : r[Len(a) + k] = b[k]
    <3>1. a \in Seq(Seq(T)) /\ b \in Seq(Seq(T))
      BY <1>1
    <3> QED BY <3>1, ConcatAt
  <2> HIDE DEF r
  <2>1. /\ r \in Seq(Seq(T)) /\ Len(r) = n + 1
        /\ \A k \in 1..n : r[k] = a[k]
        /\ r[n + 1] = b[1]
    BY <1>1, <2>0
  <2>2. ASSUME NEW k \in 1..n + 1 PROVE c[k] = r[k]
    <3>1. CASE k \in 1..n
      BY <1>1, <2>1, <3>1
    <3>2. CASE k = n + 1
      <4>1. c[n + 1] = F[n + 1]
        BY <1>1
      <4> QED BY <1>1, <2>1, <3>2, <4>1
    <3> QED BY <3>1, <3>2
  <2>3. c \in Seq(Seq(T)) /\ Len(c) = n + 1
    BY <1>1
  <2>4. c = r
    BY <2>1, <2>2, <2>3, SeqEqual
  <2> QED BY <2>4 DEF r
<1>3. FlattenSeq(a \o b) = FlattenSeq(a) \o FlattenSeq(b)
  BY <1>1, FlattenConcat
<1>4. FlattenSeq(b) = F[n + 1]
  BY <1>0, FlattenOne DEF b
<1> QED BY <1>2, <1>3, <1>4 DEF a, c

(* A set enumerated without repetition has as many elements as there are places. *)
LEMMA OneToOneCounts ==
  ASSUME NEW n \in Nat, NEW S, NEW f \in [1..n -> S],
         \A s \in S : \E i \in 1..n : f[i] = s,
         \A i, j \in 1..n : f[i] = f[j] => i = j
  PROVE  IsFiniteSet(S) /\ Cardinality(S) = n
<1> DEFINE D == 1..n
<1>1. IsFiniteSet(D) /\ Cardinality(D) = n
  <2>1. 1 \in Int /\ n \in Int
    OBVIOUS
  <2> QED BY <2>1, FS_Interval
<1>2. f \in [D -> S] /\ (\A s \in S : \E i \in D : f[i] = s)
      /\ \A i, j \in D : f[i] = f[j] => i = j
  OBVIOUS
<1> HIDE DEF D
<1>3. f \in Bijection(D, S)
  BY <1>2 DEF Bijection, Injection, Surjection, IsInjective
<1>4. ExistsBijection(D, S)
  BY <1>3 DEF ExistsBijection
<1> QED BY <1>1, <1>4, FS_Bijection

-----------------------------------------------------------------------------
(* Induction on finite sets, as a fact about sets of sets. *)
LEMMA FiniteInduction ==
  ASSUME NEW D, NEW P, {} \in P,
         \A S \in SUBSET D, x \in D : S \in P /\ x \notin S => S \cup {x} \in P
  PROVE  \A S \in SUBSET D : IsFiniteSet(S) => S \in P
<1> DEFINE K == {k \in Nat : \A S \in SUBSET D :
                               IsFiniteSet(S) /\ Cardinality(S) = k => S \in P}
<1>1. 0 \in K
  <2>1. ASSUME NEW S \in SUBSET D, IsFiniteSet(S), Cardinality(S) = 0 PROVE S \in P
    <3>1. S = {}
      BY <2>1, FS_EmptySet
    <3> QED BY <3>1
  <2> QED BY <2>1
<1>2. ASSUME NEW k \in K PROVE k + 1 \in K
  <2>1. ASSUME NEW S \in SUBSET D, IsFiniteSet(S), Cardinality(S) = k + 1 PROVE S \in P
    <3>1. S # {}
      <4>1. k + 1 # 0
        OBVIOUS
      <4> QED BY <2>1, <4>1, FS_EmptySet
    <3>2. PICK x \in S : TRUE
      BY <3>1
    <3>3. IsFiniteSet(S \ {x}) /\ Cardinality(S \ {x}) = Cardinality(S) - 1
      BY <2>1, FS_RemoveElement
    <3>4. Cardinality(S \ {x}) = k
      BY <2>1, <3>3
    <3>5. S \ {x} \in P
      BY <3>3, <3>4
    <3>6. (S \ {x}) \cup {x} = S /\ x \in D /\ S \ {x} \in SUBSET D
      OBVIOUS
    <3>7. (S \ {x}) \cup {x} \in P
      BY <3>5, <3>6
    <3> QED BY <3>6, <3>7
  <2> QED BY <2>1
<1>3. K = Nat
  <2>1. K \in SUBSET Nat
    OBVIOUS
  <2> HIDE DEF K
  <2> QED BY <1>1, <1>2, <2>1, SetInduction
<1>4. ASSUME NEW S \in SUBSET D, IsFiniteSet(S) PROVE S \in P
  <2>1. Cardinality(S) \in K
    BY <1>3, <1>4, FS_CardinalityType
  <2> QED BY <1>4, <2>1
<1> QED BY <1>4

-----------------------------------------------------------------------------
(* Sums of the values of a function. *)

Pick(s) == CHOOSE x \in s : TRUE

SumsUp(F, S, g) ==
  \A s \in SUBSET S : g[s] = IF s = {} THEN 0 ELSE F[Pick(s)] + g[s \ {Pick(s)}]

LEMMA Picked == ASSUME NEW s, s # {} PROVE Pick(s) \in s
BY DEF Pick

LEMMA SumsExist ==
  ASSUME NEW S, IsFiniteSet(S), NEW F, \A x \in S : F[x] \in Int
  PROVE  \E g \in [SUBSET S -> Int] : SumsUp(F, S, g)
<1> DEFINE Q == [SUBSET S -> Int]
           n == Cardinality(S)
           Next(g) == [s \in SUBSET S |-> IF s = {} THEN 0 ELSE F[Pick(s)] + g[s \ {Pick(s)}]]
           base == [s \in SUBSET S |-> 0]
           step == [i \in 1..n |-> [g \in Q |-> Next(g)]]
<1>1. n \in Nat
  BY FS_CardinalityType
<1>2. ASSUME NEW g \in Q PROVE Next(g) \in Q
  <2>1. ASSUME NEW s \in SUBSET S, s # {} PROVE F[Pick(s)] + g[s \ {Pick(s)}] \in Int
    <3>1. Pick(s) \in S /\ s \ {Pick(s)} \in SUBSET S
      BY <2>1, Picked
    <3>2. F[Pick(s)] \in Int /\ g[s \ {Pick(s)}] \in Int
      BY <3>1
    <3> QED BY <3>2
  <2> QED BY <2>1
<1>3. base \in Q /\ step \in [1..n -> [Q -> Q]]
  <2> HIDE DEF Next, n
  <2>1. base \in Q
    OBVIOUS
  <2>2. step \in [1..n -> [Q -> Q]]
    <3> HIDE DEF Q
    <3> QED BY <1>2
  <2> QED BY <2>1, <2>2
<1>4. PICK f \in [0..n -> Q] : f[0] = base /\ \A i \in 1..n : f[i] = Next(f[i - 1])
  <2>1. Recursion(Q, base, n, step) # {}
    <3> HIDE DEF Q, base, n, step
    <3> QED BY <1>1, <1>3, RecursionExists
  <2>2. PICK f \in [0..n -> Q] : f[0] = base /\ \A i \in 1..n : f[i] = step[i][f[i - 1]]
    BY <2>1 DEF Recursion
  <2>3. ASSUME NEW i \in 1..n PROVE f[i] = Next(f[i - 1])
    <3>1. i - 1 \in 0..n
      BY <1>1
    <3>2. f[i - 1] \in Q
      <4> HIDE DEF Q, n
      <4> QED BY <2>2, <3>1
    <3>3. step[i] = [g \in Q |-> Next(g)]
      <4> HIDE DEF Q, Next, n
      <4> QED OBVIOUS
    <3>4. step[i][f[i - 1]] = Next(f[i - 1])
      <4> HIDE DEF Q, Next, n, step
      <4> QED BY <3>2, <3>3
    <3> QED BY <2>2, <3>4
  <2> HIDE DEF Q, Next, n, base
  <2> QED BY <2>2, <2>3
<1> DEFINE Small(k) == {s \in SUBSET S : Cardinality(s) <= k}
           K == {k \in Nat : k <= n => \A s \in Small(k) : Next(f[k])[s] = f[k][s]}
<1>5. \A k \in 0..n : f[k] \in Q
  <2> HIDE DEF Q
  <2> QED BY <1>4
<1>6. 0 \in K
  <2>1. ASSUME NEW s \in Small(0) PROVE Next(f[0])[s] = f[0][s]
    <3>1. IsFiniteSet(s) /\ Cardinality(s) = 0
      <4>1. IsFiniteSet(s) /\ Cardinality(s) \in Nat
        BY FS_Subset, FS_CardinalityType
      <4> QED BY <4>1
    <3>2. s = {}
      BY <3>1, FS_EmptySet
    <3>3. f[0][s] = 0
      BY <1>4
    <3> QED BY <3>2, <3>3
  <2> HIDE DEF Small, Next
  <2> QED BY <2>1
<1>7. ASSUME NEW k \in K PROVE k + 1 \in K
  <2> SUFFICES ASSUME k + 1 <= n, NEW s \in Small(k + 1)
               PROVE  Next(f[k + 1])[s] = f[k + 1][s]
    <3> HIDE DEF Small, Next
    <3> QED OBVIOUS
  <2>1. k \in 0..n /\ k + 1 \in 0..n /\ k + 1 \in 1..n /\ (k + 1) - 1 = k /\ k <= n
    BY <1>1
  <2>2. f[k + 1] = Next(f[k])
    <3> HIDE DEF Next
    <3> QED BY <1>4, <2>1
  <2>3. CASE s = {}
    BY <2>2, <2>3
  <2>4. CASE s # {}
    <3> DEFINE x == Pick(s)
               t == s \ {x}
    <3>1. x \in s
      BY <2>4, Picked
    <3>2. t \in Small(k)
      <4>1. IsFiniteSet(s) /\ Cardinality(s) \in Nat
        BY FS_Subset, FS_CardinalityType
      <4>2. Cardinality(t) = Cardinality(s) - 1
        <5> HIDE DEF x, Next, Small, K
        <5> QED BY <4>1, <3>1, FS_RemoveElement
      <4> QED BY <4>1, <4>2
    <3>3. Next(f[k])[t] = f[k][t]
      <4> HIDE DEF Next, Small, t
      <4> QED BY <2>1, <3>2
    <3>4. Next(f[k + 1])[s] = F[x] + f[k + 1][t]
      BY <2>4
    <3>5. f[k + 1][s] = F[x] + f[k][t]
      BY <2>2, <2>4
    <3> QED BY <2>2, <3>3, <3>4, <3>5
  <2> QED BY <2>3, <2>4
<1>8. K = Nat
  <2>1. K \in SUBSET Nat
    OBVIOUS
  <2> HIDE DEF K
  <2> QED BY <1>6, <1>7, <2>1, SetInduction
<1>9. \A s \in SUBSET S : s \in Small(n)
  <2> TAKE s \in SUBSET S
  <2>1. Cardinality(s) <= n
    BY FS_Subset
  <2> QED BY <2>1
<1>10. \A s \in SUBSET S : Next(f[n])[s] = f[n][s]
  <2>1. n \in K
    BY <1>1, <1>8
  <2> HIDE DEF Next, Small
  <2>2. n <= n
    BY <1>1
  <2> QED BY <2>1, <2>2, <1>9
<1>11. SumsUp(F, S, f[n])
  <2>1. \A s \in SUBSET S : f[n][s] = IF s = {} THEN 0 ELSE F[Pick(s)] + f[n][s \ {Pick(s)}]
    BY <1>10
  <2> QED BY <2>1 DEF SumsUp
<1>12. f[n] \in [SUBSET S -> Int]
  <2>1. n \in 0..n
    BY <1>1
  <2>2. f[n] \in Q
    <3> HIDE DEF Q, n
    <3> QED BY <1>5, <2>1
  <2> QED BY <2>2
<1> QED BY <1>11, <1>12

LEMMA SumIs ==
  ASSUME NEW S, IsFiniteSet(S), NEW F, \A x \in S : F[x] \in Int
  PROVE  \E g : SumsUp(F, S, g) /\ SumFunctionOnSet(F, S) = g[S]
<1> DEFINE Rec(g) == g = [s \in SUBSET S |->
                            IF s = {} THEN 0 ELSE F[Pick(s)] + g[s \ {Pick(s)}]]
           c == CHOOSE g : Rec(g)
<1>1. PICK g \in [SUBSET S -> Int] : SumsUp(F, S, g)
  BY SumsExist
<1>2. Rec(g)
  BY <1>1 DEF SumsUp
<1>3. Rec(c)
  <2> HIDE DEF Rec
  <2> QED BY <1>2
<1>4. SumFunctionOnSet(F, S) = c[S]
  BY DEF SumFunctionOnSet, FoldFunctionOnSet, MapThenFoldSet, Pick
<1>5. SumsUp(F, S, c)
  <2> HIDE DEF c
  <2> QED BY <1>3 DEF SumsUp
<1> QED BY <1>4, <1>5

(* The order in which a sum is taken does not matter. *)
LEMMA SumsTakeAny ==
  ASSUME NEW S, IsFiniteSet(S), NEW F, \A x \in S : F[x] \in Int, NEW g, SumsUp(F, S, g)
  PROVE  \A s \in SUBSET S : g[s] \in Int /\ \A y \in s : g[s] = F[y] + g[s \ {y}]
<1> DEFINE Free(s) == g[s] \in Int /\ \A y \in s : g[s] = F[y] + g[s \ {y}]
           K == {k \in Nat : \A s \in SUBSET S : Cardinality(s) <= k => Free(s)}
<1>0. ASSUME NEW s \in SUBSET S, NEW y \in s
      PROVE  /\ IsFiniteSet(s) /\ Cardinality(s) \in Nat
             /\ s \ {y} \in SUBSET S /\ Cardinality(s \ {y}) = Cardinality(s) - 1
  <2>1. IsFiniteSet(s) /\ Cardinality(s) \in Nat
    BY FS_Subset, FS_CardinalityType
  <2> QED BY <2>1, FS_RemoveElement
<1>1. Free({})
  <2>1. g[{}] = 0
    BY DEF SumsUp
  <2> QED BY <2>1
<1>2. 0 \in K
  <2>1. ASSUME NEW s \in SUBSET S, Cardinality(s) <= 0 PROVE Free(s)
    <3>1. s = {}
      <4>1. IsFiniteSet(s) /\ Cardinality(s) \in Nat
        BY FS_Subset, FS_CardinalityType
      <4> QED BY <2>1, <4>1, FS_EmptySet
    <3> HIDE DEF Free
    <3> QED BY <1>1, <3>1
  <2> HIDE DEF Free
  <2> QED BY <2>1
<1>3. ASSUME NEW k \in K PROVE k + 1 \in K
  <2> SUFFICES ASSUME NEW s \in SUBSET S, Cardinality(s) <= k + 1 PROVE Free(s)
    <3> HIDE DEF Free
    <3> QED OBVIOUS
  <2>0. ASSUME NEW t \in SUBSET S, Cardinality(t) <= k
        PROVE  g[t] \in Int /\ \A y \in t : g[t] = F[y] + g[t \ {y}]
    <3>1. Free(t)
      <4> HIDE DEF Free
      <4> QED BY <2>0
    <3> QED BY <3>1
  <2>1. CASE s = {}
    <3> HIDE DEF Free
    <3> QED BY <1>1, <2>1
  <2>2. CASE s # {}
    <3> DEFINE x == Pick(s)
    <3>1. x \in s
      BY <2>2, Picked
    <3>2. g[s] = F[x] + g[s \ {x}]
      BY <2>2 DEF SumsUp
    <3> HIDE DEF x
    <3>3. ASSUME NEW y \in s PROVE s \ {y} \in SUBSET S /\ Cardinality(s \ {y}) <= k
      BY <1>0, <3>3
    <3>4. g[s \ {x}] \in Int /\ F[x] \in Int
      BY <2>0, <3>1, <3>3
    <3>5. ASSUME NEW y \in s PROVE g[s] = F[y] + g[s \ {y}]
      <4>1. CASE y = x
        BY <3>2, <4>1
      <4>2. CASE y # x
        <5> DEFINE r == (s \ {x}) \ {y}
        <5>1. y \in s \ {x} /\ x \in s \ {y} /\ r = (s \ {y}) \ {x} /\ r \in SUBSET S
          BY <3>1, <4>2
        <5>2. g[s \ {x}] = F[y] + g[r]
          BY <2>0, <3>1, <3>3, <5>1
        <5>3. g[s \ {y}] = F[x] + g[r]
          <6>1. g[s \ {y}] = F[x] + g[(s \ {y}) \ {x}]
            BY <2>0, <3>3, <5>1
          <6> QED BY <5>1, <6>1
        <5>4. Cardinality(r) <= k
          <6>1. Cardinality(r) = Cardinality(s \ {x}) - 1 /\ Cardinality(s \ {x}) \in Nat
            BY <1>0, <3>1, <3>3, <5>1
          <6>2. Cardinality(s \ {x}) <= k
            BY <3>1, <3>3
          <6> HIDE DEF r
          <6> QED BY <6>1, <6>2
        <5> HIDE DEF r
        <5>5. g[r] \in Int /\ F[y] \in Int
          BY <2>0, <5>1, <5>4
        <5> QED BY <3>2, <3>4, <5>2, <5>3, <5>5
      <4> QED BY <4>1, <4>2
    <3>6. g[s] \in Int
      BY <3>2, <3>4
    <3> QED BY <3>5, <3>6
  <2> QED BY <2>1, <2>2
<1>4. K = Nat
  <2>1. K \in SUBSET Nat
    OBVIOUS
  <2> HIDE DEF K
  <2> QED BY <1>2, <1>3, <2>1, SetInduction
<1>5. ASSUME NEW s \in SUBSET S PROVE Free(s)
  <2>1. Cardinality(s) \in K /\ Cardinality(s) <= Cardinality(s)
    <3> HIDE DEF K
    <3>1. Cardinality(s) \in Nat
      BY FS_Subset, FS_CardinalityType
    <3> QED BY <1>4, <3>1
  <2> HIDE DEF Free
  <2> QED BY <2>1
<1> QED BY <1>5

(* A sum over the empty set, and over one that has an element more. *)
LEMMA SumEmpty == \A F : SumFunctionOnSet(F, {}) = 0
<1> SUFFICES ASSUME NEW F PROVE SumFunctionOnSet(F, {}) = 0
  OBVIOUS
<1>1. PICK g : SumsUp(F, {}, g) /\ SumFunctionOnSet(F, {}) = g[{}]
  BY SumIs, FS_EmptySet
<1> QED BY <1>1 DEF SumsUp

LEMMA SumAdds ==
  ASSUME NEW S, IsFiniteSet(S), NEW F, \A y \in S : F[y] \in Int,
         NEW x, x \notin S, F[x] \in Int
  PROVE  SumFunctionOnSet(F, S \cup {x}) = F[x] + SumFunctionOnSet(F, S)
<1> DEFINE T == S \cup {x}
<1>1. IsFiniteSet(T) /\ \A y \in T : F[y] \in Int
  BY FS_AddElement
<1>2. PICK g : SumsUp(F, T, g) /\ SumFunctionOnSet(F, T) = g[T]
  <2> HIDE DEF T
  <2> QED BY <1>1, SumIs
<1>3. PICK h : SumsUp(F, S, h) /\ SumFunctionOnSet(F, S) = h[S]
  BY SumIs
<1>4. \A s \in SUBSET T : g[s] \in Int /\ \A y \in s : g[s] = F[y] + g[s \ {y}]
  <2> HIDE DEF T
  <2> QED BY <1>1, <1>2, SumsTakeAny
<1>5. \A s \in SUBSET S : h[s] \in Int /\ \A y \in s : h[s] = F[y] + h[s \ {y}]
  BY <1>3, SumsTakeAny
<1>6. g[S] = h[S]
  <2> DEFINE P == {s \in SUBSET S : g[s] = h[s]}
  <2>1. {} \in P
    BY <1>2, <1>3 DEF SumsUp
  <2>2. ASSUME NEW s \in SUBSET S, NEW y \in S, s \in P, y \notin s PROVE s \cup {y} \in P
    <3> DEFINE t == s \cup {y}
    <3>1. t \in SUBSET S /\ t \in SUBSET T /\ y \in t /\ t \ {y} = s
      BY <2>2
    <3>2. g[t] = F[y] + g[t \ {y}] /\ h[t] = F[y] + h[t \ {y}]
      <4> HIDE DEF t, T
      <4> QED BY <1>4, <1>5, <3>1
    <3>3. g[s] = h[s]
      BY <2>2
    <3>4. g[t] = h[t]
      <4> HIDE DEF t
      <4> QED BY <3>1, <3>2, <3>3
    <3> QED BY <3>1, <3>4
  <2>3. \A s \in SUBSET S : IsFiniteSet(s) => s \in P
    <3> HIDE DEF P
    <3> QED BY <2>1, <2>2, FiniteInduction
  <2> QED BY <2>3
<1>7. g[T] = F[x] + g[S]
  <2>1. T \in SUBSET T /\ x \in T /\ T \ {x} = S
    OBVIOUS
  <2>2. g[T] = F[x] + g[T \ {x}]
    BY <1>4, <2>1
  <2> QED BY <2>1, <2>2
<1> QED BY <1>2, <1>3, <1>6, <1>7

LEMMA SumInt ==
  ASSUME NEW S, IsFiniteSet(S), NEW F, \A x \in S : F[x] \in Int
  PROVE  SumFunctionOnSet(F, S) \in Int
<1>1. PICK g : SumsUp(F, S, g) /\ SumFunctionOnSet(F, S) = g[S]
  BY SumIs
<1> QED BY <1>1, SumsTakeAny

LEMMA SumNat ==
  ASSUME NEW S, IsFiniteSet(S), NEW F, \A x \in S : F[x] \in Nat
  PROVE  SumFunctionOnSet(F, S) \in Nat
<1> DEFINE P == {s \in SUBSET S : SumFunctionOnSet(F, s) \in Nat}
<1>1. {} \in P
  BY SumEmpty
<1>2. ASSUME NEW x \in S, NEW s \in P, x \notin s PROVE s \cup {x} \in P
  <2>1. IsFiniteSet(s) /\ (\A y \in s : F[y] \in Int) /\ F[x] \in Nat
    BY FS_Subset
  <2>2. SumFunctionOnSet(F, s \cup {x}) = F[x] + SumFunctionOnSet(F, s)
    BY <1>2, <2>1, SumAdds
  <2> QED BY <2>1, <2>2
<1>3. \A s \in SUBSET S, x \in S : s \in P /\ x \notin s => s \cup {x} \in P
  <2> HIDE DEF P
  <2> QED BY <1>2
<1>4. S \in P
  <2> HIDE DEF P
  <2> QED BY <1>1, <1>3, FiniteInduction
<1> QED BY <1>4

(* Only the values at the indices count. *)
LEMMA SumSame ==
  ASSUME NEW S, IsFiniteSet(S), NEW F, NEW G, \A x \in S : F[x] \in Int /\ F[x] = G[x]
  PROVE  SumFunctionOnSet(F, S) = SumFunctionOnSet(G, S)
<1> DEFINE P == {s \in SUBSET S : SumFunctionOnSet(F, s) = SumFunctionOnSet(G, s)}
<1>1. {} \in P
  BY SumEmpty
<1>2. ASSUME NEW x \in S, NEW s \in P, x \notin s PROVE s \cup {x} \in P
  <2>1. IsFiniteSet(s) /\ (\A y \in s : F[y] \in Int) /\ \A y \in s : G[y] \in Int
    BY FS_Subset
  <2>2. F[x] \in Int /\ G[x] \in Int /\ F[x] = G[x]
    OBVIOUS
  <2>3. SumFunctionOnSet(F, s \cup {x}) = F[x] + SumFunctionOnSet(F, s)
    BY <1>2, <2>1, <2>2, SumAdds
  <2>4. SumFunctionOnSet(G, s \cup {x}) = G[x] + SumFunctionOnSet(G, s)
    BY <1>2, <2>1, <2>2, SumAdds
  <2> QED BY <2>2, <2>3, <2>4
<1>3. \A s \in SUBSET S, x \in S : s \in P /\ x \notin s => s \cup {x} \in P
  <2> HIDE DEF P
  <2> QED BY <1>2
<1>4. S \in P
  <2> HIDE DEF P
  <2> QED BY <1>1, <1>3, FiniteInduction
<1> QED BY <1>4

LEMMA SumOfAll ==
  ASSUME NEW F, NEW S, DOMAIN F = S
  PROVE  SumFunction(F) = SumFunctionOnSet(F, S)
BY DEF SumFunction

(* Smaller values, smaller sum. *)
LEMMA SumGrows ==
  ASSUME NEW S, IsFiniteSet(S), NEW F, NEW G,
         \A x \in S : F[x] \in Nat /\ G[x] \in Nat /\ F[x] <= G[x]
  PROVE  SumFunctionOnSet(F, S) <= SumFunctionOnSet(G, S)
<1> DEFINE P == {s \in SUBSET S : SumFunctionOnSet(F, s) <= SumFunctionOnSet(G, s)}
<1>1. {} \in P
  BY SumEmpty
<1>2. ASSUME NEW x \in S, NEW s \in P, x \notin s PROVE s \cup {x} \in P
  <2>1. IsFiniteSet(s) /\ (\A y \in s : F[y] \in Nat) /\ \A y \in s : G[y] \in Nat
    BY FS_Subset
  <2>2. F[x] \in Nat /\ G[x] \in Nat /\ F[x] <= G[x]
    OBVIOUS
  <2>3. SumFunctionOnSet(F, s \cup {x}) = F[x] + SumFunctionOnSet(F, s)
    BY <1>2, <2>1, <2>2, SumAdds
  <2>4. SumFunctionOnSet(G, s \cup {x}) = G[x] + SumFunctionOnSet(G, s)
    BY <1>2, <2>1, <2>2, SumAdds
  <2>5. SumFunctionOnSet(F, s) \in Nat /\ SumFunctionOnSet(G, s) \in Nat
    BY <2>1, SumNat
  <2> QED BY <2>2, <2>3, <2>4, <2>5
<1>3. \A s \in SUBSET S, x \in S : s \in P /\ x \notin s => s \cup {x} \in P
  <2> HIDE DEF P
  <2> QED BY <1>2
<1>4. S \in P
  <2> HIDE DEF P
  <2> QED BY <1>1, <1>3, FiniteInduction
<1> QED BY <1>4

(* The same value everywhere. *)
LEMMA SumConstant ==
  ASSUME NEW S, IsFiniteSet(S), NEW c \in Nat
  PROVE  SumFunctionOnSet([x \in S |-> c], S) = Cardinality(S) * c
<1> DEFINE F == [x \in S |-> c]
           P == {s \in SUBSET S : SumFunctionOnSet(F, s) = Cardinality(s) * c}
<1>1. {} \in P
  BY SumEmpty, FS_EmptySet
<1>2. ASSUME NEW x \in S, NEW s \in P, x \notin s PROVE s \cup {x} \in P
  <2>1. IsFiniteSet(s) /\ (\A y \in s : F[y] \in Nat)
    BY FS_Subset
  <2>2. F[x] = c
    OBVIOUS
  <2>3. SumFunctionOnSet(F, s \cup {x}) = c + SumFunctionOnSet(F, s)
    <3> HIDE DEF F
    <3> QED BY <1>2, <2>1, <2>2, SumAdds
  <2>4. Cardinality(s) \in Nat /\ Cardinality(s \cup {x}) = Cardinality(s) + 1
    BY <1>2, <2>1, FS_AddElement, FS_CardinalityType
  <2>5. (Cardinality(s) + 1) * c = c + Cardinality(s) * c
    BY <2>4
  <2> QED BY <2>3, <2>4, <2>5
<1>3. \A s \in SUBSET S, x \in S : s \in P /\ x \notin s => s \cup {x} \in P
  <2> HIDE DEF P
  <2> QED BY <1>2
<1>4. S \in P
  <2> HIDE DEF P
  <2> QED BY <1>1, <1>3, FiniteInduction
<1> QED BY <1>4

(* Two parts. *)
LEMMA SumUnion ==
  ASSUME NEW S, IsFiniteSet(S), NEW T, IsFiniteSet(T), S \cap T = {},
         NEW F, \A x \in S \cup T : F[x] \in Int
  PROVE  SumFunctionOnSet(F, S \cup T) = SumFunctionOnSet(F, S) + SumFunctionOnSet(F, T)
<1> DEFINE P == {s \in SUBSET S :
                   SumFunctionOnSet(F, s \cup T) = SumFunctionOnSet(F, s) + SumFunctionOnSet(F, T)}
<1>0. SumFunctionOnSet(F, T) \in Int
  BY SumInt
<1>1. {} \in P
  <2>1. {} \cup T = T
    OBVIOUS
  <2> QED BY <1>0, <2>1, SumEmpty
<1>2. ASSUME NEW x \in S, NEW s \in P, x \notin s PROVE s \cup {x} \in P
  <2>1. IsFiniteSet(s) /\ (\A y \in s : F[y] \in Int) /\ F[x] \in Int
    BY FS_Subset
  <2>2. IsFiniteSet(s \cup T) /\ (\A y \in s \cup T : F[y] \in Int) /\ x \notin s \cup T
    BY <1>2, <2>1, FS_Union
  <2>3. SumFunctionOnSet(F, s \cup {x}) = F[x] + SumFunctionOnSet(F, s)
    BY <1>2, <2>1, SumAdds
  <2>4. SumFunctionOnSet(F, (s \cup T) \cup {x}) = F[x] + SumFunctionOnSet(F, s \cup T)
    BY <2>1, <2>2, SumAdds
  <2>5. (s \cup T) \cup {x} = (s \cup {x}) \cup T
    OBVIOUS
  <2>6. SumFunctionOnSet(F, s) \in Int
    BY <2>1, SumInt
  <2>7. SumFunctionOnSet(F, (s \cup {x}) \cup T)
          = F[x] + (SumFunctionOnSet(F, s) + SumFunctionOnSet(F, T))
    BY <2>4, <2>5
  <2>8. SumFunctionOnSet(F, (s \cup {x}) \cup T)
          = SumFunctionOnSet(F, s \cup {x}) + SumFunctionOnSet(F, T)
    BY <1>0, <2>1, <2>3, <2>6, <2>7
  <2> QED BY <2>8
<1>3. \A s \in SUBSET S, x \in S : s \in P /\ x \notin s => s \cup {x} \in P
  <2> HIDE DEF P
  <2> QED BY <1>2
<1>4. S \in P
  <2> HIDE DEF P
  <2> QED BY <1>1, <1>3, FiniteInduction
<1> QED BY <1>4

(* Summed by groups, or all at once. *)
Groups(G, K, key) == IsFiniteSet(G) /\ IsFiniteSet(K) /\ \A x \in G : key[x] \in K
SumsOf(T, F, G, K, key) == \A k \in K : T[k] = SumFunctionOnSet(F, {x \in G : key[x] = k})
CountsOf(T, G, K, key) == \A k \in K : T[k] = Cardinality({x \in G : key[x] = k})

LEMMA SumGrouped ==
  ASSUME NEW G, NEW K, NEW key, Groups(G, K, key),
         NEW F, \A x \in G : F[x] \in Int, NEW T, SumsOf(T, F, G, K, key)
  PROVE  SumFunctionOnSet(T, K) = SumFunctionOnSet(F, G)
<1> DEFINE Of(s) == {x \in G : key[x] \in s}
           One(k) == {x \in G : key[x] = k}
           P == {s \in SUBSET K : SumFunctionOnSet(T, s) = SumFunctionOnSet(F, Of(s))}
<1> USE DEF Groups, SumsOf
<1>0. ASSUME NEW s
      PROVE  /\ IsFiniteSet(Of(s)) /\ (\A x \in Of(s) : F[x] \in Int)
             /\ IsFiniteSet(One(s)) /\ (\A x \in One(s) : F[x] \in Int)
             /\ SumFunctionOnSet(F, One(s)) \in Int
  <2>1. IsFiniteSet(Of(s)) /\ (\A x \in Of(s) : F[x] \in Int)
    BY FS_Subset
  <2>2. IsFiniteSet(One(s)) /\ (\A x \in One(s) : F[x] \in Int)
    BY FS_Subset
  <2> HIDE DEF Of, One
  <2>3. SumFunctionOnSet(F, One(s)) \in Int
    BY <2>2, SumInt
  <2> QED BY <2>1, <2>2, <2>3
<1>1. {} \in P
  <2>1. Of({}) = {}
    OBVIOUS
  <2> QED BY <2>1, SumEmpty
<1>2. ASSUME NEW k \in K, NEW s \in P, k \notin s PROVE s \cup {k} \in P
  <2>1. IsFiniteSet(s) /\ \A j \in s : T[j] \in Int
    <3>1. IsFiniteSet(s)
      BY FS_Subset
    <3>2. \A j \in K : T[j] \in Int
      <4>1. \A j \in K : T[j] = SumFunctionOnSet(F, One(j))
        OBVIOUS
      <4> HIDE DEF Of, P, One
      <4> QED BY <1>0, <4>1
    <3> QED BY <3>1, <3>2
  <2>2. T[k] = SumFunctionOnSet(F, One(k)) /\ T[k] \in Int
    <3>1. T[k] = SumFunctionOnSet(F, One(k))
      OBVIOUS
    <3> HIDE DEF One
    <3> QED BY <1>0, <3>1
  <2>3. SumFunctionOnSet(T, s \cup {k}) = T[k] + SumFunctionOnSet(T, s)
    <3> HIDE DEF P
    <3> QED BY <1>2, <2>1, <2>2, SumAdds
  <2>4. Of(s \cup {k}) = One(k) \cup Of(s) /\ One(k) \cap Of(s) = {}
    BY <1>2
  <2>5. SumFunctionOnSet(T, s) = SumFunctionOnSet(F, Of(s))
    OBVIOUS
  <2>6. \A x \in One(k) \cup Of(s) : F[x] \in Int
    OBVIOUS
  <2>7. SumFunctionOnSet(F, One(k) \cup Of(s))
          = SumFunctionOnSet(F, One(k)) + SumFunctionOnSet(F, Of(s))
    <3> HIDE DEF Of, One, P
    <3> QED BY <1>0, <2>4, <2>6, SumUnion
  <2>8. SumFunctionOnSet(T, s \cup {k}) = SumFunctionOnSet(F, Of(s \cup {k}))
    <3> HIDE DEF Of, One, P
    <3> QED BY <2>2, <2>3, <2>4, <2>5, <2>7
  <2> QED BY <2>8
<1>3. \A s \in SUBSET K, k \in K : s \in P /\ k \notin s => s \cup {k} \in P
  <2> HIDE DEF P
  <2> QED BY <1>2
<1>4. K \in P
  <2> HIDE DEF P
  <2> QED BY <1>1, <1>3, FiniteInduction
<1>5. Of(K) = G
  OBVIOUS
<1> QED BY <1>4, <1>5

(* The groups of a set hold as many as the set. *)
LEMMA CountGrouped ==
  ASSUME NEW G, NEW K, NEW key, Groups(G, K, key), NEW T, CountsOf(T, G, K, key)
  PROVE  SumFunctionOnSet(T, K) = Cardinality(G)
<1> DEFINE F == [x \in G |-> 1]
<1>1. ASSUME NEW S \in SUBSET G PROVE SumFunctionOnSet(F, S) = Cardinality(S)
  <2> DEFINE E == [x \in S |-> 1]
  <2>1. IsFiniteSet(S)
    BY FS_Subset DEF Groups
  <2>2. SumFunctionOnSet(E, S) = Cardinality(S) * 1
    BY <2>1, SumConstant
  <2>3. \A x \in S : F[x] \in Nat /\ F[x] = E[x]
    OBVIOUS
  <2> HIDE DEF F, E
  <2>4. SumFunctionOnSet(F, S) = SumFunctionOnSet(E, S)
    BY <2>1, <2>3, SumSame
  <2> QED BY <2>1, <2>2, <2>4, FS_CardinalityType
<1>2. \A x \in G : F[x] \in Nat
  OBVIOUS
<1> HIDE DEF F
<1>3. SumsOf(T, F, G, K, key)
  <2> SUFFICES ASSUME NEW k \in K
               PROVE  T[k] = SumFunctionOnSet(F, {x \in G : key[x] = k})
    BY DEF SumsOf
  <2>1. {x \in G : key[x] = k} \in SUBSET G
    OBVIOUS
  <2>2. SumFunctionOnSet(F, {x \in G : key[x] = k}) = Cardinality({x \in G : key[x] = k})
    BY <1>1, <2>1
  <2> QED BY <2>2 DEF CountsOf
<1>6. SumFunctionOnSet(T, K) = SumFunctionOnSet(F, G)
  BY <1>2, <1>3, SumGrouped
<1>5. SumFunctionOnSet(F, G) = Cardinality(G)
  BY <1>1
<1> QED BY <1>5, <1>6

(* A union holds no more than its parts together. *)
LEMMA CountUnion ==
  ASSUME NEW K, IsFiniteSet(K), NEW A, \A k \in K : IsFiniteSet(A[k]),
         NEW T, \A k \in K : T[k] = Cardinality(A[k])
  PROVE  Cardinality(UNION {A[k] : k \in K}) <= SumFunctionOnSet(T, K)
<1> DEFINE U(s) == UNION {A[k] : k \in s}
           P == {s \in SUBSET K : IsFiniteSet(U(s)) /\ Cardinality(U(s)) <= SumFunctionOnSet(T, s)}
<1>1. {} \in P
  <2>1. U({}) = {}
    OBVIOUS
  <2> QED BY <2>1, SumEmpty, FS_EmptySet
<1>2. ASSUME NEW k \in K, NEW s \in P, k \notin s PROVE s \cup {k} \in P
  <2>1. IsFiniteSet(s) /\ (\A j \in s : T[j] \in Nat) /\ T[k] \in Nat
    BY FS_Subset, FS_CardinalityType
  <2>2. SumFunctionOnSet(T, s \cup {k}) = T[k] + SumFunctionOnSet(T, s)
    BY <1>2, <2>1, SumAdds
  <2>3. U(s \cup {k}) = U(s) \cup A[k]
    OBVIOUS
  <2>4. IsFiniteSet(U(s)) /\ IsFiniteSet(A[k]) /\ Cardinality(U(s)) <= SumFunctionOnSet(T, s)
        /\ Cardinality(A[k]) = T[k]
    OBVIOUS
  <2> HIDE DEF U
  <2>5. IsFiniteSet(U(s) \cup A[k]) /\ Cardinality(U(s)) \in Nat /\ Cardinality(A[k]) \in Nat
        /\ Cardinality(U(s) \cap A[k]) \in Nat
    <3>1. IsFiniteSet(U(s) \cup A[k]) /\ IsFiniteSet(U(s) \cap A[k])
      BY <2>4, FS_Union, FS_Intersection
    <3> QED BY <2>4, <3>1, FS_CardinalityType
  <2>6. Cardinality(U(s) \cup A[k])
          = Cardinality(U(s)) + Cardinality(A[k]) - Cardinality(U(s) \cap A[k])
    BY <2>4, FS_Union
  <2>7. SumFunctionOnSet(T, s) \in Nat
    BY <2>1, SumNat
  <2>8. Cardinality(U(s \cup {k})) <= SumFunctionOnSet(T, s \cup {k})
    <3>1. Cardinality(U(s) \cup A[k]) <= Cardinality(A[k]) + Cardinality(U(s))
      BY <2>5, <2>6
    <3>2. Cardinality(A[k]) + Cardinality(U(s)) <= T[k] + SumFunctionOnSet(T, s)
      BY <2>1, <2>4, <2>5, <2>7
    <3>3. Cardinality(U(s) \cup A[k]) \in Nat
      BY <2>5, FS_CardinalityType
    <3>4. Cardinality(U(s) \cup A[k]) <= T[k] + SumFunctionOnSet(T, s)
      BY <2>1, <2>5, <2>7, <3>1, <3>2, <3>3
    <3> QED BY <2>2, <2>3, <3>4
  <2>9. s \cup {k} \in SUBSET K
    OBVIOUS
  <2> QED BY <2>3, <2>5, <2>8, <2>9
<1>3. \A s \in SUBSET K, k \in K : s \in P /\ k \notin s => s \cup {k} \in P
  <2> HIDE DEF P
  <2> QED BY <1>2
<1>4. K \in P
  <2> HIDE DEF P
  <2> QED BY <1>1, <1>3, FiniteInduction
<1> QED BY <1>4

(* A part sums to no more than the whole, wherever it lies in it. *)
LEMMA SumPart ==
  ASSUME NEW T, IsFiniteSet(T), NEW S \in SUBSET T, NEW F, \A x \in T : F[x] \in Nat
  PROVE  SumFunctionOnSet(F, S) <= SumFunctionOnSet(F, T)
<1>1. IsFiniteSet(S) /\ IsFiniteSet(T \ S) /\ S \cup (T \ S) = T /\ S \cap (T \ S) = {}
  BY FS_Subset
<1>2. SumFunctionOnSet(F, S \cup (T \ S)) = SumFunctionOnSet(F, S) + SumFunctionOnSet(F, T \ S)
  BY <1>1, SumUnion
<1>3. SumFunctionOnSet(F, S) \in Nat
  BY <1>1, SumNat
<1>4. SumFunctionOnSet(F, T \ S) \in Nat
  <2> DEFINE R == T \ S
  <2>1. IsFiniteSet(R) /\ \A x \in R : F[x] \in Nat
    BY <1>1
  <2> HIDE DEF R
  <2>2. SumFunctionOnSet(F, R) \in Nat
    BY <2>1, SumNat
  <2> QED BY <2>2 DEF R
<1>5. SumFunctionOnSet(F, T) = SumFunctionOnSet(F, S) + SumFunctionOnSet(F, T \ S)
  BY <1>1, <1>2
<1> QED BY <1>3, <1>4, <1>5

LEMMA SumInjects ==
  ASSUME NEW S, IsFiniteSet(S), NEW T, IsFiniteSet(T),
         NEW m, \A x \in S : m[x] \in T, \A x, y \in S : m[x] = m[y] => x = y,
         NEW F, \A x \in S : F[x] \in Nat, NEW G, \A y \in T : G[y] \in Nat,
         \A x \in S : F[x] <= G[m[x]]
  PROVE  SumFunctionOnSet(F, S) <= SumFunctionOnSet(G, T)
<1> DEFINE I(s) == {m[x] : x \in s}
           P == {s \in SUBSET S : SumFunctionOnSet(F, s) <= SumFunctionOnSet(G, I(s))}
<1>1. {} \in P
  <2>1. I({}) = {}
    OBVIOUS
  <2> QED BY <2>1, SumEmpty
<1>2. ASSUME NEW x \in S, NEW s \in P, x \notin s PROVE s \cup {x} \in P
  <2>1. IsFiniteSet(s) /\ (\A y \in s : F[y] \in Nat) /\ F[x] \in Nat
    BY FS_Subset
  <2>2. SumFunctionOnSet(F, s \cup {x}) = F[x] + SumFunctionOnSet(F, s)
    BY <1>2, <2>1, SumAdds
  <2>3. I(s \cup {x}) = I(s) \cup {m[x]} /\ I(s) \in SUBSET T /\ m[x] \notin I(s)
    BY <1>2
  <2>4. SumFunctionOnSet(F, s) <= SumFunctionOnSet(G, I(s)) /\ F[x] <= G[m[x]] /\ m[x] \in T
    OBVIOUS
  <2> HIDE DEF I, P
  <2>5. IsFiniteSet(I(s)) /\ (\A y \in I(s) : G[y] \in Nat) /\ G[m[x]] \in Nat
    BY <2>3, <2>4, FS_Subset
  <2>6. SumFunctionOnSet(G, I(s) \cup {m[x]}) = G[m[x]] + SumFunctionOnSet(G, I(s))
    BY <2>3, <2>5, SumAdds
  <2>7. SumFunctionOnSet(F, s) \in Nat /\ SumFunctionOnSet(G, I(s)) \in Nat
    BY <2>1, <2>5, SumNat
  <2>8. SumFunctionOnSet(F, s \cup {x}) <= SumFunctionOnSet(G, I(s \cup {x}))
    <3>1. F[x] + SumFunctionOnSet(F, s) <= G[m[x]] + SumFunctionOnSet(G, I(s))
      BY <2>1, <2>4, <2>5, <2>7
    <3> QED BY <2>2, <2>3, <2>6, <3>1
  <2>9. s \cup {x} \in SUBSET S
    BY DEF P
  <2> QED BY <2>8, <2>9 DEF P
<1>3. \A s \in SUBSET S, x \in S : s \in P /\ x \notin s => s \cup {x} \in P
  <2> HIDE DEF P
  <2> QED BY <1>2
<1>4. S \in P
  <2> HIDE DEF P
  <2> QED BY <1>1, <1>3, FiniteInduction
<1>5. I(S) \in SUBSET T
  OBVIOUS
<1> HIDE DEF I
<1>6. SumFunctionOnSet(G, I(S)) <= SumFunctionOnSet(G, T)
  BY <1>5, SumPart
<1>7. SumFunctionOnSet(F, S) \in Nat /\ SumFunctionOnSet(G, T) \in Nat
      /\ SumFunctionOnSet(G, I(S)) \in Nat
  <2>1. IsFiniteSet(I(S)) /\ \A y \in I(S) : G[y] \in Nat
    BY <1>5, FS_Subset
  <2> QED BY <2>1, SumNat
<1>8. SumFunctionOnSet(F, S) <= SumFunctionOnSet(G, I(S))
  BY <1>4
<1> QED BY <1>6, <1>7, <1>8

(* No value above a bound. *)
LEMMA SumBounded ==
  ASSUME NEW S, IsFiniteSet(S), NEW c \in Nat, NEW F, \A x \in S : F[x] \in Nat /\ F[x] <= c
  PROVE  SumFunctionOnSet(F, S) <= Cardinality(S) * c
<1> DEFINE E == [x \in S |-> c]
<1>1. \A x \in S : F[x] \in Nat /\ E[x] \in Nat /\ F[x] <= E[x]
  OBVIOUS
<1>2. SumFunctionOnSet(E, S) = Cardinality(S) * c
  BY SumConstant
<1> HIDE DEF E
<1>3. SumFunctionOnSet(F, S) <= SumFunctionOnSet(E, S)
  BY <1>1, SumGrows
<1> QED BY <1>2, <1>3

-----------------------------------------------------------------------------
(* Finite sets and products. *)
LEMMA TimesGrows ==
  ASSUME NEW r \in Nat, NEW a \in Nat, NEW b \in Nat, a <= b
  PROVE  r * a \in Nat /\ r * a <= r * b
<1>1. r * (b - a) \in Nat
  OBVIOUS
<1>2. r * b = r * a + r * (b - a)
  OBVIOUS
<1> QED BY <1>1, <1>2

LEMMA ImageFinite ==
  ASSUME NEW S, IsFiniteSet(S), NEW f
  PROVE  IsFiniteSet({f[x] : x \in S}) /\ Cardinality({f[x] : x \in S}) <= Cardinality(S)
<1> DEFINE T == {f[x] : x \in S}
           g == [x \in S |-> f[x]]
<1>1. g \in Surjection(S, T)
  BY DEF Surjection
<1> HIDE DEF T, g
<1>2. IsFiniteSet(T) /\ Cardinality(T) <= Cardinality(S)
  BY <1>1, FS_Surjection
<1> QED BY <1>2 DEF T

LEMMA MaxOfFinite ==
  ASSUME NEW S \in SUBSET Int, IsFiniteSet(S), S # {}
  PROVE  Max(S) \in S /\ \A x \in S : x <= Max(S)
<1> DEFINE P == {s \in SUBSET S : s # {} => \E m \in s : \A x \in s : x <= m}
<1>1. {} \in P
  OBVIOUS
<1>2. ASSUME NEW x \in S, NEW s \in P PROVE s \cup {x} \in P
  <2>1. CASE s = {}
    <3>1. x \in s \cup {x} /\ \A y \in s \cup {x} : y <= x
      BY <2>1
    <3> QED BY <3>1
  <2>2. CASE s # {}
    <3>1. PICK m \in s : \A y \in s : y <= m
      BY <2>2
    <3>2. m \in Int /\ x \in Int /\ \A y \in s : y \in Int
      BY <3>1
    <3>3. CASE x <= m
      <4>1. m \in s \cup {x} /\ \A y \in s \cup {x} : y <= m
        BY <3>1, <3>3
      <4> QED BY <4>1
    <3>4. CASE ~(x <= m)
      <4>1. x \in s \cup {x} /\ \A y \in s \cup {x} : y <= x
        BY <3>1, <3>2, <3>4
      <4> QED BY <4>1
    <3> QED BY <3>3, <3>4
  <2> QED BY <2>1, <2>2
<1>3. S \in P
  <2>1. \A s \in SUBSET S, x \in S : s \in P /\ x \notin s => s \cup {x} \in P
    <3> HIDE DEF P
    <3> QED BY <1>2
  <2> HIDE DEF P
  <2> QED BY <1>1, <2>1, FiniteInduction
<1>4. PICK m \in S : \A x \in S : x <= m
  BY <1>3
<1>5. \A x \in S : m >= x
  BY <1>4
<1>6. Max(S) \in S /\ \A x \in S : Max(S) >= x
  BY <1>5 DEF Max
<1> QED BY <1>6

-----------------------------------------------------------------------------
(* Division, and the sum of what is divided apart. *)
LEMMA Floor ==
  ASSUME NEW a \in Nat, NEW d \in Nat \ {0}
  PROVE  a \div d \in Nat /\ d * (a \div d) <= a /\ a < d * (a \div d) + d
OBVIOUS

LEMMA FloorBetween ==
  ASSUME NEW a \in Nat, NEW d \in Nat \ {0}, NEW q \in Nat, NEW n \in Nat,
         d * q <= a, a <= d * (q + n)
  PROVE  q <= a \div d /\ a \div d <= q + n
<1> DEFINE k == a \div d
<1>1. k \in Nat /\ d * k <= a /\ a < d * k + d
  BY Floor
<1> HIDE DEF k
<1>2. d * (k + 1) = d * k + d
  BY <1>1
<1>3. q <= k
  <2>1. SUFFICES ASSUME k + 1 <= q PROVE FALSE
    BY <1>1
  <2>2. d * (k + 1) <= d * q /\ d * q \in Nat
    BY <1>1, <2>1, TimesGrows
  <2> QED BY <1>1, <1>2, <2>2
<1>4. k <= q + n
  <2>1. SUFFICES ASSUME (q + n) + 1 <= k PROVE FALSE
    BY <1>1
  <2>2. d * ((q + n) + 1) <= d * k
    BY <1>1, <2>1, TimesGrows
  <2>3. d * ((q + n) + 1) = d * (q + n) + d
    OBVIOUS
  <2>4. d * (q + n) \in Nat /\ d * k \in Nat
    BY <1>1
  <2> QED BY <1>1, <2>2, <2>3, <2>4
<1> QED BY <1>3, <1>4 DEF k

LEMMA SumFloors ==
  ASSUME NEW S, IsFiniteSet(S), NEW d \in Nat \ {0},
         NEW F, \A x \in S : F[x] \in Nat, NEW Q, \A x \in S : Q[x] = F[x] \div d
  PROVE  /\ SumFunctionOnSet(Q, S) <= SumFunctionOnSet(F, S) \div d
         /\ SumFunctionOnSet(F, S) \div d <= SumFunctionOnSet(Q, S) + Cardinality(S)
<1> DEFINE Near(s) == /\ d * SumFunctionOnSet(Q, s) <= SumFunctionOnSet(F, s)
                      /\ SumFunctionOnSet(F, s)
                           <= d * (SumFunctionOnSet(Q, s) + Cardinality(s))
           P == {s \in SUBSET S : Near(s)}
<1>0. ASSUME NEW x \in S
      PROVE  Q[x] \in Nat /\ F[x] \in Nat /\ d * Q[x] <= F[x] /\ F[x] <= d * Q[x] + d
  <2>1. F[x] \in Nat /\ Q[x] = F[x] \div d
    OBVIOUS
  <2> DEFINE a == F[x]
  <2>2. a \in Nat
    BY <2>1
  <2> HIDE DEF a
  <2>3. a \div d \in Nat /\ d * (a \div d) <= a /\ a < d * (a \div d) + d
    BY <2>2, Floor
  <2> QED BY <2>1, <2>2, <2>3 DEF a
<1>1. {} \in P
  <2>1. Near({})
    BY SumEmpty, FS_EmptySet
  <2> QED BY <2>1
<1>2. ASSUME NEW x \in S, NEW s \in P, x \notin s PROVE s \cup {x} \in P
  <2>1. IsFiniteSet(s) /\ s \in SUBSET S
    BY FS_Subset
  <2>2. \A y \in s : F[y] \in Nat /\ Q[y] \in Nat
    BY <1>0, <2>1
  <2> DEFINE f == SumFunctionOnSet(F, s)
             q == SumFunctionOnSet(Q, s)
             n == Cardinality(s)
  <2>3. f \in Nat /\ q \in Nat /\ n \in Nat
    BY <2>1, <2>2, SumNat, FS_CardinalityType
  <2>4. d * q <= f /\ f <= d * (q + n)
    OBVIOUS
  <2>5. /\ SumFunctionOnSet(F, s \cup {x}) = F[x] + f
        /\ SumFunctionOnSet(Q, s \cup {x}) = Q[x] + q
        /\ Cardinality(s \cup {x}) = n + 1
    BY <1>0, <1>2, <2>1, <2>2, SumAdds, FS_AddElement
  <2> HIDE DEF f, q, n, P
  <2> DEFINE u == Q[x]
             w == F[x]
  <2>6. u \in Nat /\ w \in Nat /\ d * u <= w /\ w <= d * u + d
    BY <1>0
  <2> HIDE DEF u, w
  <2>7. d * (u + q) = d * u + d * q /\ d * ((u + q) + (n + 1)) = d * u + d + d * (q + n)
    BY <2>3, <2>6
  <2>8. d * (u + q) <= w + f /\ w + f <= d * ((u + q) + (n + 1))
    <3>1. d * u \in Nat /\ d * q \in Nat /\ d * (q + n) \in Nat
      BY <2>3, <2>6
    <3> QED BY <2>3, <2>4, <2>6, <2>7, <3>1
  <2>9. Near(s \cup {x})
    BY <2>5, <2>8 DEF u, w
  <2> HIDE DEF Near
  <2> QED BY <2>1, <2>9 DEF P
<1>3. \A s \in SUBSET S, x \in S : s \in P /\ x \notin s => s \cup {x} \in P
  <2> HIDE DEF P
  <2> QED BY <1>2
<1>4. S \in P
  <2> HIDE DEF P
  <2> QED BY <1>1, <1>3, FiniteInduction
<1> DEFINE f == SumFunctionOnSet(F, S)
           q == SumFunctionOnSet(Q, S)
           n == Cardinality(S)
<1>5. d * q <= f /\ f <= d * (q + n)
  BY <1>4
<1>6. f \in Nat /\ q \in Nat /\ n \in Nat
  BY <1>0, SumNat, FS_CardinalityType
<1> HIDE DEF f, q, n
<1>7. q <= f \div d /\ f \div d <= q + n
  BY <1>5, <1>6, FloorBetween
<1> QED BY <1>7 DEF f, q, n
=============================================================================
