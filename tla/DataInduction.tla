--------------------------- MODULE DataInduction ----------------------------
(***************************************************************************)
(* Induction over the natural numbers for sets: a proof by induction names *)
(* the set of numbers that have the property.  And what it gives about     *)
(* sums over finite sets: that they exist, whatever the order.             *)
(***************************************************************************)
EXTENDS Integers, WellFoundedInduction, FiniteSetTheorems, TLAPS

\* Every nonempty set of natural numbers has a least element.
LEMMA Least ==
  ASSUME NEW T, T \subseteq Nat, T # {}
  PROVE  \E x \in T : \A y \in T : x <= y
<1> DEFINE R == OpToRel(<, Nat)
<1>1. IsWellFoundedOn(R, Nat)
  BY NatLessThanWellFounded
<1>2. \A x, y \in Nat : x < y => <<x, y>> \in R
  BY DEF OpToRel
<1> HIDE DEF R
<1>3. PICK x \in T : \A y \in T : ~(<<y, x>> \in R)
  BY <1>1, WFMin
<1>4. \A y \in T : y \in Nat /\ ~(y < x)
  BY <1>2, <1>3
<1>5. x \in Nat
  OBVIOUS
<1>6. \A y \in T : x <= y
  BY <1>4, <1>5
<1> QED  BY <1>6

\* A set that contains 0 and every successor of a member contains them all.
LEMMA Induct ==
  ASSUME NEW S, 0 \in S, \A n \in Nat : n \in S => n + 1 \in S
  PROVE  Nat \subseteq S
<1> SUFFICES ASSUME Nat \ S # {} PROVE FALSE
  OBVIOUS
<1>1. PICK x \in Nat \ S : \A y \in Nat \ S : x <= y
  BY Least
<1>2. x # 0 /\ x - 1 \in Nat
  BY <1>1
<1>3. x - 1 \in S
  BY <1>1, <1>2
<1> QED  BY <1>1, <1>2, <1>3

-----------------------------------------------------------------------------
\* Sums over finite sets.

Some(s) == CHOOSE x \in s : TRUE

\* What f says of s if it sums g over sets, element by element.
PartSum(f, g, s) == IF s = {} THEN 0 ELSE g[Some(s)] + f[s \ {Some(s)}]

Sums(f, g, S) == f = [s \in SUBSET S |-> PartSum(f, g, s)]

\* The sum of g over S.
Total(g, S) == (CHOOSE f : Sums(f, g, S))[S]

LEMMA PartsSmaller ==
  ASSUME NEW S, IsFiniteSet(S), NEW s \in SUBSET S
  PROVE  /\ IsFiniteSet(s) /\ Cardinality(s) \in Nat
         /\ Cardinality(s) = 0 <=> s = {}
         /\ \A x \in s : s \ {x} \in SUBSET S /\ Cardinality(s \ {x}) = Cardinality(s) - 1
         /\ s # {} => Some(s) \in s
<1>1. IsFiniteSet(s) /\ Cardinality(s) \in Nat
  BY FS_Subset, FS_CardinalityType
<1>2. Cardinality(s) = 0 <=> s = {}
  BY <1>1, FS_EmptySet
<1>3. \A x \in s : Cardinality(s \ {x}) = Cardinality(s) - 1
  BY <1>1, FS_RemoveElement
<1>4. s # {} => Some(s) \in s
  BY DEF Some
<1> QED  BY <1>1, <1>2, <1>3, <1>4

\* The sum exists: larger and larger parts of S get their sums.
LEMMA SumsExist ==
  ASSUME NEW S, IsFiniteSet(S), NEW g, \A x \in S : g[x] \in Nat
  PROVE  \E f \in [SUBSET S -> Nat] : Sums(f, g, S)
<1> DEFINE Parts(k) == {s \in SUBSET S : Cardinality(s) <= k}
           K == {k \in Nat : \E f \in [Parts(k) -> Nat] : \A s \in Parts(k) : f[s] = PartSum(f, g, s)}
<1>1. 0 \in K
  <2> DEFINE f == [s \in Parts(0) |-> 0]
  <2>1. f \in [Parts(0) -> Nat]
    OBVIOUS
  <2>2. \A s \in Parts(0) : s = {}
    BY PartsSmaller
  <2>3. \A s \in Parts(0) : f[s] = PartSum(f, g, s)
    BY <2>2 DEF PartSum
  <2> QED  BY <2>1, <2>3
<1>2. ASSUME NEW k \in Nat, k \in K PROVE k + 1 \in K
  <2>1. PICK f \in [Parts(k) -> Nat] : \A s \in Parts(k) : f[s] = PartSum(f, g, s)
    BY <1>2
  <2> DEFINE h == [s \in Parts(k + 1) |-> PartSum(f, g, s)]
  <2>2. ASSUME NEW s \in Parts(k + 1), s # {}
        PROVE  Some(s) \in s /\ g[Some(s)] \in Nat /\ s \ {Some(s)} \in Parts(k) /\ s \ {Some(s)} \in Parts(k + 1)
    <3>1. s \in SUBSET S /\ Cardinality(s) \in Nat /\ Cardinality(s) <= k + 1
      BY PartsSmaller
    <3>2. Some(s) \in s
      BY <2>2, <3>1, PartsSmaller
    <3>3. s \ {Some(s)} \in SUBSET S /\ Cardinality(s \ {Some(s)}) = Cardinality(s) - 1
      BY <3>1, <3>2, PartsSmaller
    <3> QED  BY <3>1, <3>2, <3>3
  <2>3. \A s \in Parts(k + 1) : PartSum(f, g, s) \in Nat
    BY <2>2 DEF PartSum
  <2>4. h \in [Parts(k + 1) -> Nat]
    BY <2>3
  <2>5. \A s \in Parts(k) : s \in Parts(k + 1) /\ h[s] = f[s]
    <3>1. \A s \in Parts(k) : s \in Parts(k + 1)
      BY PartsSmaller
    <3> QED  BY <3>1, <2>1
  <2>6. \A s \in Parts(k + 1) : h[s] = PartSum(h, g, s)
    <3>1. \A s \in Parts(k + 1) : h[s] = PartSum(f, g, s)
      OBVIOUS
    <3> HIDE DEF h, Parts
    <3> QED  BY <3>1, <2>2, <2>5 DEF PartSum
  <2> HIDE DEF h, Parts
  <2>7. k + 1 \in Nat
    OBVIOUS
  <2> QED  BY <2>4, <2>6, <2>7
<1>3. Cardinality(S) \in K
  <2>1. Cardinality(S) \in Nat
    BY FS_CardinalityType
  <2> HIDE DEF K
  <2> QED  BY <2>1, <1>1, <1>2, Induct
<1>4. Parts(Cardinality(S)) = SUBSET S
  BY FS_Subset
<1>5. PICK f \in [SUBSET S -> Nat] : \A s \in SUBSET S : f[s] = PartSum(f, g, s)
  BY <1>3, <1>4
<1>6. f = [s \in SUBSET S |-> PartSum(f, g, s)]
  <2>1. f = [s \in SUBSET S |-> f[s]]
    OBVIOUS
  <2> QED  BY <1>5, <2>1
<1> QED  BY <1>6 DEF Sums

\* It does not depend on the order of the elements.
LEMMA AnyOrder ==
  ASSUME NEW S, IsFiniteSet(S), NEW g, \A x \in S : g[x] \in Nat, NEW f, Sums(f, g, S)
  PROVE  /\ f[{}] = 0
         /\ \A s \in SUBSET S : f[s] \in Nat /\ \A x \in s : f[s] = g[x] + f[s \ {x}]
<1>1. \A s \in SUBSET S : f[s] = PartSum(f, g, s)
  BY DEF Sums
<1>2. f[{}] = 0
  BY <1>1 DEF PartSum
<1> DEFINE Fine(s) == f[s] \in Nat /\ \A x \in s : f[s] = g[x] + f[s \ {x}]
           K == {k \in Nat : \A s \in SUBSET S : Cardinality(s) <= k => Fine(s)}
<1>3. 0 \in K
  <2>1. \A s \in SUBSET S : Cardinality(s) <= 0 => s = {}
    BY PartsSmaller
  <2>2. Fine({})
    BY <1>2
  <2> HIDE DEF Fine
  <2> QED  BY <2>1, <2>2
<1>4. ASSUME NEW k \in Nat, k \in K PROVE k + 1 \in K
  <2> SUFFICES ASSUME NEW s \in SUBSET S, Cardinality(s) <= k + 1, s # {} PROVE Fine(s)
    <3>1. Fine({})
      BY <1>2
    <3> HIDE DEF Fine
    <3> QED  BY <3>1
  <2>0. \A t \in SUBSET S : Cardinality(t) <= k => Fine(t)
    BY <1>4
  <2> HIDE DEF K
  <2>1. \A x \in s : /\ s \ {x} \in SUBSET S /\ Cardinality(s \ {x}) <= k
                     /\ g[x] \in Nat /\ f[s \ {x}] \in Nat
                     /\ \A z \in s \ {x} : f[s \ {x}] = g[z] + f[(s \ {x}) \ {z}]
    <3>1. \A x \in s : s \ {x} \in SUBSET S /\ Cardinality(s \ {x}) <= k
      BY PartsSmaller
    <3> QED  BY <3>1, <2>0
  <2>2. PICK y \in s : f[s] = g[y] + f[s \ {y}]
    <3>1. s # {} /\ Some(s) \in s
      BY PartsSmaller
    <3> QED  BY <1>1, <3>1 DEF PartSum
  <2>3. f[s] \in Nat
    <3>1. f[s \ {y}] \in Nat /\ g[y] \in Nat
      BY <2>1
    <3> QED  BY <2>2, <3>1
  <2>4. ASSUME NEW x \in s, x # y PROVE f[s] = g[x] + f[s \ {x}]
    <3> DEFINE r == (s \ {x}) \ {y}
    <3>1. x \in s \ {y} /\ y \in s \ {x} /\ (s \ {y}) \ {x} = r /\ r \in SUBSET S
      BY <2>4
    <3>2. f[s \ {y}] = g[x] + f[r] /\ f[s \ {x}] = g[y] + f[r]
      BY <2>1, <3>1
    <3>3. f[r] \in Nat
      <4>1. Cardinality(r) <= k
        <5>1. s \ {x} \in SUBSET S /\ Cardinality(s \ {x}) <= k
          BY <2>1
        <5>2. r = (s \ {x}) \ {y} /\ y \in s \ {x}
          BY <3>1
        <5> HIDE DEF r
        <5>3. \A t \in SUBSET S : y \in t => Cardinality(t) \in Nat /\ Cardinality(t \ {y}) = Cardinality(t) - 1
          BY PartsSmaller
        <5> QED  BY <5>1, <5>2, <5>3
      <4> QED  BY <2>0, <3>1, <4>1
    <3>4. g[x] \in Nat /\ g[y] \in Nat
      OBVIOUS
    <3> HIDE DEF Fine, r
    <3> QED  BY <2>2, <3>2, <3>3, <3>4
  <2> QED  BY <2>2, <2>3, <2>4
<1>5. ASSUME NEW s \in SUBSET S PROVE Fine(s)
  <2>1. Cardinality(s) \in Nat
    BY PartsSmaller
  <2>2. Cardinality(s) \in K
    <3> HIDE DEF K
    <3> QED  BY <2>1, <1>3, <1>4, Induct
  <2> QED  BY <2>1, <2>2
<1> QED  BY <1>2, <1>5

\* There is only one.
LEMMA OneSum ==
  ASSUME NEW S, IsFiniteSet(S), NEW g, \A x \in S : g[x] \in Nat,
         NEW T \in SUBSET S, NEW f, Sums(f, g, S), NEW h, Sums(h, g, T)
  PROVE  f[T] = h[T]
<1> DEFINE K == {k \in Nat : \A s \in SUBSET T : Cardinality(s) <= k => f[s] = h[s]}
<1>1. f[{}] = 0 /\ h[{}] = 0
  BY DEF Sums, PartSum
<1>2. \A s \in SUBSET T : f[s] = PartSum(f, g, s) /\ h[s] = PartSum(h, g, s)
  BY DEF Sums
<1>3. 0 \in K
  <2>1. \A s \in SUBSET T : Cardinality(s) <= 0 => s = {}
    BY PartsSmaller
  <2> QED  BY <1>1, <2>1
<1>4. ASSUME NEW k \in Nat, k \in K PROVE k + 1 \in K
  <2> SUFFICES ASSUME NEW s \in SUBSET T, Cardinality(s) <= k + 1, s # {} PROVE f[s] = h[s]
    BY <1>1
  <2>1. Some(s) \in s /\ Cardinality(s \ {Some(s)}) <= k
    BY PartsSmaller
  <2>2. f[s \ {Some(s)}] = h[s \ {Some(s)}]
    BY <1>4, <2>1
  <2> QED  BY <1>2, <2>2 DEF PartSum
<1>5. Cardinality(T) \in Nat
  BY PartsSmaller
<1>6. Cardinality(T) \in K
  <2> HIDE DEF K
  <2> QED  BY <1>5, <1>3, <1>4, Induct
<1> QED  BY <1>5, <1>6

\* The sum over a set that gains an element.
LEMMA TotalAdds ==
  ASSUME NEW S, IsFiniteSet(S), NEW g, \A x \in S : g[x] \in Nat
  PROVE  /\ Total(g, {}) = 0
         /\ Total(g, S) \in Nat
         /\ \A x \in S : Total(g, S) = g[x] + Total(g, S \ {x})
<1> DEFINE F(T) == CHOOSE f : Sums(f, g, T)
<1>1. \A T \in SUBSET S : Sums(F(T), g, T)
  <2>1. \A T \in SUBSET S : IsFiniteSet(T)
    BY PartsSmaller
  <2>2. \A T \in SUBSET S : \E f \in [SUBSET T -> Nat] : Sums(f, g, T)
    BY <2>1, SumsExist
  <2> QED  BY <2>2
<1>2. \A T \in SUBSET S : Total(g, T) = F(T)[T]
  BY DEF Total
<1> HIDE DEF F
<1>3. \A T \in SUBSET S : Total(g, T) = F(S)[T]
  BY <1>1, <1>2, OneSum
<1>4. /\ F(S)[{}] = 0
      /\ \A s \in SUBSET S : F(S)[s] \in Nat /\ \A x \in s : F(S)[s] = g[x] + F(S)[s \ {x}]
  BY <1>1, AnyOrder
<1>5. S \in SUBSET S /\ {} \in SUBSET S /\ \A x \in S : S \ {x} \in SUBSET S
  OBVIOUS
<1> QED  BY <1>3, <1>4, <1>5

\* Any recursive definition of the sum gives it.
LEMMA TotalIs ==
  ASSUME NEW S, IsFiniteSet(S), NEW g, \A x \in S : g[x] \in Nat, NEW f, Sums(f, g, S)
  PROVE  f[S] = Total(g, S)
<1> DEFINE F == CHOOSE h : Sums(h, g, S)
<1>1. Sums(F, g, S) /\ Total(g, S) = F[S]
  BY SumsExist DEF Total
<1> HIDE DEF F
<1> QED  BY <1>1, OneSum

=============================================================================
