------------------------------ MODULE Sums_proof ------------------------------
(***************************************************************************)
(* Lemmas about sums over finite functions, for the proofs that count:     *)
(* SumFunction takes the indices one by one, in an order the fold chooses; *)
(* the recursion has a solution, the order does not matter, and what       *)
(* follows for the sum from what is known of the terms.  The induction is  *)
(* on the size of the set, by way of the least size that is wrong.         *)
(***************************************************************************)
EXTENDS Integers, Functions, FiniteSetTheorems, WellFoundedInduction, TLAPS

LEMMA LeastNatural ==
  ASSUME NEW T \in SUBSET Nat, T # {}
  PROVE  \E x \in T : \A y \in T : x <= y
  <1>1. PICK x \in T : \A y \in T : <<y, x>> \notin OpToRel(<, Nat)
    BY NatLessThanWellFounded, WFMin
  <1>2. \A y \in T : ~(y < x)
    BY <1>1 DEF OpToRel
  <1> QED
    BY <1>2

LEMMA NatInduct ==
  ASSUME NEW T \in SUBSET Nat, 0 \in T, \A n \in T : n + 1 \in T
  PROVE  T = Nat
  <1> SUFFICES ASSUME Nat \ T # {} PROVE FALSE
    OBVIOUS
  <1>1. PICK x \in Nat \ T : \A y \in Nat \ T : x <= y
    BY LeastNatural
  <1>2. x # 0 /\ x - 1 \in Nat /\ ~(x <= x - 1)
    BY <1>1
  <1>3. x - 1 \in T
    BY <1>1, <1>2
  <1>4. (x - 1) + 1 \in T /\ (x - 1) + 1 = x
    BY <1>1, <1>3
  <1> QED
    BY <1>1, <1>4

\* The fold's recursive function: the sums of f over the subsets of S.
Pick(s) == CHOOSE x \in s : TRUE
Rest(f, g, s) == IF s = {} THEN 0 ELSE f[Pick(s)] + g[s \ {Pick(s)}]
Sums(f, S) == CHOOSE g : g = [s \in SUBSET S |-> Rest(f, g, s)]

LEMMA SumIsSums ==
  ASSUME NEW f, NEW S PROVE SumFunctionOnSet(f, S) = Sums(f, S)[S]
  BY Zenon DEF SumFunctionOnSet, FoldFunctionOnSet, MapThenFoldSet, Sums, Rest, Pick

\* Subsets of a finite set, by their size.
LEMMA SubsetSize ==
  ASSUME NEW S, IsFiniteSet(S), NEW s \in SUBSET S
  PROVE  /\ IsFiniteSet(s) /\ Cardinality(s) \in Nat /\ Cardinality(s) <= Cardinality(S)
         /\ s = {} <=> Cardinality(s) = 0
         /\ \A x \in s : /\ s \ {x} \in SUBSET S /\ Cardinality(s \ {x}) = Cardinality(s) - 1
  <1>1. IsFiniteSet(s) /\ Cardinality(s) <= Cardinality(S)
    BY FS_Subset
  <1>2. Cardinality(s) \in Nat
    BY <1>1, FS_CardinalityType
  <1>3. s = {} <=> Cardinality(s) = 0
    BY <1>1, FS_EmptySet
  <1>4. \A x \in s : Cardinality(s \ {x}) = Cardinality(s) - 1
    BY <1>1, FS_RemoveElement
  <1> QED
    BY <1>1, <1>2, <1>3, <1>4

LEMMA PickIn == ASSUME NEW s, s # {} PROVE Pick(s) \in s
  BY DEF Pick

\* The recursion has a solution.
LEMMA SumsExist ==
  ASSUME NEW f, NEW S, IsFiniteSet(S)
  PROVE  \A s \in SUBSET S : Sums(f, S)[s] = Rest(f, Sums(f, S), s)
  <1> DEFINE Upto(n) == \E g : g = [s \in SUBSET S |-> g[s]] /\ \A s \in SUBSET S :
                           Cardinality(s) <= n => g[s] = Rest(f, g, s)
             T == {n \in Nat : Upto(n)}
  <1>1. 0 \in T
    <2> DEFINE g == [s \in SUBSET S |-> 0]
    <2>1. \A s \in SUBSET S : Cardinality(s) <= 0 => g[s] = Rest(f, g, s)
      BY SubsetSize DEF Rest
    <2>2. g = [s \in SUBSET S |-> g[s]]
      OBVIOUS
    <2> HIDE DEF g
    <2> QED
      BY <2>1, <2>2
  <1>2. ASSUME NEW n \in T PROVE n + 1 \in T
    <2>1. PICK g : g = [s \in SUBSET S |-> g[s]] /\ \A s \in SUBSET S :
                      Cardinality(s) <= n => g[s] = Rest(f, g, s)
      OBVIOUS
    <2> DEFINE h == [s \in SUBSET S |-> Rest(f, g, s)]
    <2>2. \A s \in SUBSET S : Cardinality(s) <= n => h[s] = g[s]
      BY <2>1
    <2>3. ASSUME NEW s \in SUBSET S, Cardinality(s) <= n + 1 PROVE h[s] = Rest(f, h, s)
      <3>1. CASE s = {}
        BY <3>1 DEF Rest
      <3>2. CASE s # {}
        <4>1. Pick(s) \in s
          BY <3>2, PickIn
        <4>2. s \ {Pick(s)} \in SUBSET S /\ Cardinality(s \ {Pick(s)}) <= n
          BY <2>3, <4>1, SubsetSize
        <4>3. h[s \ {Pick(s)}] = g[s \ {Pick(s)}]
          BY <2>2, <4>2
        <4> QED
          BY <3>2, <4>3 DEF Rest
      <3> QED
        BY <3>1, <3>2
    <2>4. h = [s \in SUBSET S |-> h[s]]
      OBVIOUS
    <2> HIDE DEF h
    <2>5. Upto(n + 1)
      BY <2>3, <2>4
    <2>6. n + 1 \in Nat
      OBVIOUS
    <2> HIDE DEF Upto
    <2> QED
      BY <2>5, <2>6
  <1>3. T = Nat
    <2> HIDE DEF T
    <2>1. T \in SUBSET Nat
      BY DEF T
    <2> QED
      BY <1>1, <1>2, <2>1, NatInduct
  <1>4. Cardinality(S) \in T
    BY <1>3, FS_CardinalityType
  <1>5. PICK g : g = [s \in SUBSET S |-> g[s]] /\ \A s \in SUBSET S :
                    Cardinality(s) <= Cardinality(S) => g[s] = Rest(f, g, s)
    BY <1>4
  <1>6. g = [s \in SUBSET S |-> Rest(f, g, s)]
    BY <1>5, SubsetSize
  <1>7. Sums(f, S) = [s \in SUBSET S |-> Rest(f, Sums(f, S), s)]
    BY <1>6 DEF Sums
  <1> DEFINE h == Sums(f, S)
  <1>8. h = [s \in SUBSET S |-> Rest(f, h, s)]
    BY <1>7
  <1> HIDE DEF h
  <1>9. \A s \in SUBSET S : h[s] = Rest(f, h, s)
    BY <1>8
  <1> QED
    BY <1>9 DEF h

\* Whatever index is taken first, the sum is the same.
LEMMA SumsStep ==
  ASSUME NEW S, IsFiniteSet(S), NEW f, \A x \in S : f[x] \in Int
  PROVE  /\ Sums(f, S)[{}] = 0
         /\ \A s \in SUBSET S : /\ Sums(f, S)[s] \in Int
                                /\ \A x \in s : Sums(f, S)[s] = f[x] + Sums(f, S)[s \ {x}]
  <1> DEFINE g == Sums(f, S)
  <1>1. \A s \in SUBSET S : g[s] = Rest(f, g, s)
    BY SumsExist
  <1> HIDE DEF g
  <1>2. g[{}] = 0
    BY <1>1 DEF Rest
  <1> DEFINE Good(s) == g[s] \in Int /\ \A x \in s : g[s] = f[x] + g[s \ {x}]
             T == {n \in Nat : \A s \in SUBSET S : Cardinality(s) <= n => Good(s)}
  <1>3. 0 \in T
    BY <1>2, SubsetSize
  <1>4. ASSUME NEW n \in T PROVE n + 1 \in T
    <2> SUFFICES ASSUME NEW s \in SUBSET S, Cardinality(s) <= n + 1 PROVE Good(s)
      OBVIOUS
    <2>0. n \in Nat /\ \A r \in SUBSET S : Cardinality(r) <= n => Good(r)
      OBVIOUS
    <2> HIDE DEF T
    <2>1. CASE s = {}
      BY <1>2, <2>1
    <2>2. CASE s # {}
      <3> DEFINE c == Pick(s)
      <3>1. c \in s /\ g[s] = f[c] + g[s \ {c}]
        BY <1>1, <2>2, PickIn DEF Rest
      <3> HIDE DEF c
      <3>2. \A x \in s : s \ {x} \in SUBSET S /\ Cardinality(s \ {x}) <= n
        <4>1. /\ Cardinality(s) \in Nat
              /\ \A x \in s : s \ {x} \in SUBSET S /\ Cardinality(s \ {x}) = Cardinality(s) - 1
          BY SubsetSize
        <4> QED
          BY <2>0, <4>1
      <3>3. g[s] \in Int
        BY <2>0, <3>1, <3>2
      <3>4. ASSUME NEW x \in s, x # c PROVE g[s] = f[x] + g[s \ {x}]
        <4>1. g[s \ {c}] = f[x] + g[(s \ {c}) \ {x}]
          BY <2>0, <3>1, <3>2, <3>4
        <4>2. g[s \ {x}] = f[c] + g[(s \ {x}) \ {c}]
          BY <2>0, <3>1, <3>2, <3>4
        <4>3. (s \ {c}) \ {x} = (s \ {x}) \ {c}
          OBVIOUS
        <4> DEFINE r == (s \ {x}) \ {c}
        <4>4. g[r] \in Int
          <5>1. r \in SUBSET S /\ Cardinality(r) <= n
            <6>1. s \ {x} \in SUBSET S /\ Cardinality(s \ {x}) <= n /\ Cardinality(s \ {x}) \in Nat
              BY <3>2, SubsetSize
            <6> DEFINE q == s \ {x}
            <6>2. c \in q /\ q \in SUBSET S
              BY <3>1, <3>4
            <6> HIDE DEF q
            <6>3. Cardinality(q \ {c}) = Cardinality(q) - 1 /\ q \ {c} \in SUBSET S
              BY <6>2, SubsetSize
            <6> QED
              BY <2>0, <6>1, <6>3 DEF q
          <5> QED
            BY <2>0, <5>1
        <4>5. f[x] \in Int /\ f[c] \in Int
          BY <3>1
        <4>6. g[s \ {c}] = f[x] + g[r] /\ g[s \ {x}] = f[c] + g[r]
          BY <4>1, <4>2, <4>3
        <4> HIDE DEF r
        <4> QED
          BY <3>1, <4>4, <4>5, <4>6
      <3> QED
        BY <3>1, <3>3, <3>4
    <2> QED
      BY <2>1, <2>2
  <1>5. T = Nat
    <2> HIDE DEF T
    <2>1. T \in SUBSET Nat
      BY DEF T
    <2> QED
      BY <1>3, <1>4, <2>1, NatInduct
  <1>6. \A s \in SUBSET S : Good(s)
    <2> SUFFICES ASSUME NEW s \in SUBSET S PROVE Good(s)
      OBVIOUS
    <2>1. Cardinality(s) \in Nat /\ Cardinality(s) <= Cardinality(s)
      BY SubsetSize
    <2> QED
      BY <1>5, <2>1
  <1> QED
    BY <1>2, <1>6 DEF g

\* Terms that are no larger make a sum that is no larger.
LEMMA SumsMonotone ==
  ASSUME NEW S, IsFiniteSet(S), NEW f, NEW h, \A x \in S : f[x] \in Int /\ h[x] \in Int,
         NEW U \in SUBSET S, \A x \in U : f[x] <= h[x]
  PROVE  Sums(f, S)[U] <= Sums(h, S)[U]
  <1> DEFINE F == Sums(f, S)  H == Sums(h, S)
  <1>0. (\A x \in S : f[x] \in Int) /\ (\A x \in S : h[x] \in Int)
    OBVIOUS
  <1>1. F[{}] = 0 /\ \A s \in SUBSET S : F[s] \in Int /\ \A x \in s : F[s] = f[x] + F[s \ {x}]
    BY <1>0, SumsStep
  <1>2. H[{}] = 0 /\ \A s \in SUBSET S : H[s] \in Int /\ \A x \in s : H[s] = h[x] + H[s \ {x}]
    BY <1>0, SumsStep
  <1> HIDE DEF F, H
  <1> DEFINE T == {n \in Nat : \A s \in SUBSET U : Cardinality(s) <= n => F[s] <= H[s]}
  <1>3. 0 \in T
    <2> SUFFICES ASSUME NEW s \in SUBSET U, Cardinality(s) <= 0 PROVE F[s] <= H[s]
      OBVIOUS
    <2>1. s = {}
      BY SubsetSize
    <2> QED
      BY <1>1, <1>2, <2>1
  <1>4. ASSUME NEW n \in T PROVE n + 1 \in T
    <2> SUFFICES ASSUME NEW s \in SUBSET U, Cardinality(s) <= n + 1 PROVE F[s] <= H[s]
      OBVIOUS
    <2>0. n \in Nat /\ \A r \in SUBSET U : Cardinality(r) <= n => F[r] <= H[r]
      OBVIOUS
    <2> HIDE DEF T
    <2>1. CASE s = {}
      BY <1>1, <1>2, <2>1
    <2>2. ASSUME NEW x \in s PROVE F[s] <= H[s]
      <3>1. s \in SUBSET S /\ s \ {x} \in SUBSET U /\ s \ {x} \in SUBSET S
        OBVIOUS
      <3>2. Cardinality(s \ {x}) <= n
        <4>1. Cardinality(s) \in Nat /\ Cardinality(s \ {x}) = Cardinality(s) - 1
          BY <3>1, SubsetSize
        <4> QED
          BY <2>0, <4>1
      <3>3. F[s \ {x}] <= H[s \ {x}] /\ F[s \ {x}] \in Int /\ H[s \ {x}] \in Int
        BY <1>1, <1>2, <2>0, <3>1, <3>2
      <3>4. f[x] <= h[x] /\ f[x] \in Int /\ h[x] \in Int
        OBVIOUS
      <3>5. F[s] = f[x] + F[s \ {x}] /\ H[s] = h[x] + H[s \ {x}]
        BY <1>1, <1>2, <3>1
      <3> QED
        BY <3>3, <3>4, <3>5
    <2> QED
      BY <2>1, <2>2
  <1>5. T = Nat
    <2> HIDE DEF T
    <2>1. T \in SUBSET Nat
      BY DEF T
    <2> QED
      BY <1>3, <1>4, <2>1, NatInduct
  <1>6. Cardinality(U) \in T /\ Cardinality(U) <= Cardinality(U)
    BY <1>5, SubsetSize
  <1> QED
    BY <1>6 DEF F, H

\* A sum of terms that are at most c.
LEMMA SumsBounded ==
  ASSUME NEW S, IsFiniteSet(S), NEW f, NEW c \in Nat, \A x \in S : f[x] \in Nat /\ f[x] <= c
  PROVE  SumFunctionOnSet(f, S) \in Nat /\ SumFunctionOnSet(f, S) <= c * Cardinality(S)
  <1> DEFINE F == Sums(f, S)
  <1>0. \A x \in S : f[x] \in Int
    OBVIOUS
  <1>1. F[{}] = 0 /\ \A s \in SUBSET S : F[s] \in Int /\ \A x \in s : F[s] = f[x] + F[s \ {x}]
    BY <1>0, SumsStep
  <1> HIDE DEF F
  <1> DEFINE T == {n \in Nat : \A s \in SUBSET S :
                     Cardinality(s) = n => F[s] \in Nat /\ F[s] <= c * n}
  <1>2. 0 \in T
    <2> SUFFICES ASSUME NEW s \in SUBSET S, Cardinality(s) = 0
                 PROVE  F[s] \in Nat /\ F[s] <= c * 0
      OBVIOUS
    <2>1. s = {} /\ c * 0 = 0
      BY SubsetSize
    <2> QED
      BY <1>1, <2>1
  <1>3. ASSUME NEW n \in T PROVE n + 1 \in T
    <2> SUFFICES ASSUME NEW s \in SUBSET S, Cardinality(s) = n + 1
                 PROVE  F[s] \in Nat /\ F[s] <= c * (n + 1)
      OBVIOUS
    <2>0. n \in Nat /\ \A r \in SUBSET S : Cardinality(r) = n => F[r] \in Nat /\ F[r] <= c * n
      OBVIOUS
    <2> HIDE DEF T
    <2>1. s # {}
      BY <2>0, SubsetSize
    <2>2. PICK x \in s : TRUE
      BY <2>1
    <2>3. s \ {x} \in SUBSET S /\ Cardinality(s \ {x}) = n
      BY <2>0, SubsetSize
    <2>4. F[s \ {x}] \in Nat /\ F[s \ {x}] <= c * n
      BY <2>0, <2>3
    <2>5. f[x] \in Nat /\ f[x] <= c /\ F[s] = f[x] + F[s \ {x}]
      BY <1>1
    <2>6. c * (n + 1) = c * n + c /\ c * n \in Nat
      BY <2>0, SMTT(30)
    <2> QED
      BY <2>4, <2>5, <2>6
  <1>4. T = Nat
    <2> HIDE DEF T
    <2>1. T \in SUBSET Nat
      BY DEF T
    <2> QED
      BY <1>2, <1>3, <2>1, NatInduct
  <1>5. Cardinality(S) \in T
    BY <1>4, FS_CardinalityType
  <1> QED
    BY <1>5, SumIsSums DEF F

\* A term that changes changes the sum by as much.
LEMMA SumExcept ==
  ASSUME NEW S, IsFiniteSet(S), NEW f \in [S -> Int], NEW h \in [S -> Int], NEW k \in S,
         \A x \in S \ {k} : h[x] = f[x]
  PROVE  /\ SumFunctionOnSet(f, S) \in Int
         /\ SumFunctionOnSet(h, S) = SumFunctionOnSet(f, S) - f[k] + h[k]
  <1> DEFINE U == S \ {k}
  <1>1. /\ \A x \in S : f[x] \in Int /\ h[x] \in Int
        /\ \A x \in U : f[x] = h[x]
        /\ U \in SUBSET S /\ S \in SUBSET S
    OBVIOUS
  <1> HIDE DEF U
  <1>a. (\A x \in S : f[x] \in Int) /\ (\A x \in S : h[x] \in Int)
    BY <1>1
  <1>b. ASSUME NEW g, \A x \in S : g[x] \in Int
        PROVE  /\ Sums(g, S)[S] \in Int /\ Sums(g, S)[U] \in Int
               /\ Sums(g, S)[S] = g[k] + Sums(g, S)[U]
    <2>1. /\ Sums(g, S)[{}] = 0
          /\ \A s \in SUBSET S : /\ Sums(g, S)[s] \in Int
                                 /\ \A x \in s : Sums(g, S)[s] = g[x] + Sums(g, S)[s \ {x}]
      BY <1>b, SumsStep
    <2> QED
      BY <1>1, <2>1 DEF U
  <1>2. /\ Sums(f, S)[S] \in Int /\ Sums(f, S)[U] \in Int
        /\ Sums(f, S)[S] = f[k] + Sums(f, S)[U]
    BY <1>a, <1>b
  <1>3. Sums(h, S)[U] \in Int /\ Sums(h, S)[S] = h[k] + Sums(h, S)[U]
    BY <1>a, <1>b
  <1>4. Sums(f, S)[U] <= Sums(h, S)[U]
    <2>1. \A x \in U : f[x] <= h[x]
      BY <1>1
    <2> QED
      BY <1>1, <2>1, SumsMonotone
  <1>5. Sums(h, S)[U] <= Sums(f, S)[U]
    <2>1. \A x \in U : h[x] <= f[x]
      BY <1>1
    <2> QED
      BY <1>1, <2>1, SumsMonotone
  <1>6. f[k] \in Int /\ h[k] \in Int
    BY <1>1
  <1>7. Sums(h, S)[S] = Sums(f, S)[S] - f[k] + h[k]
    BY <1>1, <1>2, <1>3, <1>4, <1>5, <1>6
  <1> QED
    BY <1>2, <1>7, SumIsSums

\* A sum of natural numbers is one, and at least each of them.
LEMMA SumNat ==
  ASSUME NEW S, IsFiniteSet(S), NEW f, \A x \in S : f[x] \in Nat
  PROVE  /\ SumFunctionOnSet(f, S) \in Nat
         /\ \A x \in S : f[x] <= SumFunctionOnSet(f, S)
  <1> DEFINE F == Sums(f, S)
  <1>0. \A x \in S : f[x] \in Int
    OBVIOUS
  <1>1. F[{}] = 0 /\ \A s \in SUBSET S : F[s] \in Int /\ \A x \in s : F[s] = f[x] + F[s \ {x}]
    BY <1>0, SumsStep
  <1> HIDE DEF F
  <1> DEFINE T == {n \in Nat : \A s \in SUBSET S : Cardinality(s) = n => F[s] \in Nat}
  <1>2. 0 \in T
    <2> SUFFICES ASSUME NEW s \in SUBSET S, Cardinality(s) = 0 PROVE F[s] \in Nat
      OBVIOUS
    <2>1. s = {}
      BY SubsetSize
    <2> QED
      BY <1>1, <2>1
  <1>3. ASSUME NEW n \in T PROVE n + 1 \in T
    <2>0. n \in Nat /\ \A r \in SUBSET S : Cardinality(r) = n => F[r] \in Nat
      OBVIOUS
    <2> SUFFICES ASSUME NEW s \in SUBSET S, Cardinality(s) = n + 1 PROVE F[s] \in Nat
      BY <2>0
    <2> HIDE DEF T
    <2>1. s # {}
      BY <2>0, SubsetSize
    <2>2. PICK x \in s : TRUE
      BY <2>1
    <2>3. s \ {x} \in SUBSET S /\ Cardinality(s \ {x}) = n
      BY <2>0, SubsetSize
    <2>4. F[s \ {x}] \in Nat /\ f[x] \in Nat /\ F[s] = f[x] + F[s \ {x}]
      BY <1>1, <2>0, <2>3
    <2> QED
      BY <2>4
  <1>4. T = Nat
    <2> HIDE DEF T
    <2>1. T \in SUBSET Nat
      BY DEF T
    <2> QED
      BY <1>2, <1>3, <2>1, NatInduct
  <1>5. \A s \in SUBSET S : F[s] \in Nat
    <2> SUFFICES ASSUME NEW s \in SUBSET S PROVE F[s] \in Nat
      OBVIOUS
    <2>1. Cardinality(s) \in T
      BY <1>4, SubsetSize
    <2> QED
      BY <2>1
  <1>6. \A x \in S : f[x] <= F[S]
    <2> SUFFICES ASSUME NEW x \in S PROVE f[x] <= F[S]
      OBVIOUS
    <2>1. F[S] = f[x] + F[S \ {x}] /\ F[S \ {x}] \in Nat /\ f[x] \in Nat
      BY <1>1, <1>5
    <2> QED
      BY <2>1
  <1> QED
    BY <1>5, <1>6, SumIsSums DEF F

\* Terms that are zero may be left out.
LEMMA SumWithin ==
  ASSUME NEW S, IsFiniteSet(S), NEW U \in SUBSET S, NEW f, NEW g,
         \A x \in S : f[x] \in Int, \A x \in U : g[x] = f[x], \A x \in S \ U : f[x] = 0
  PROVE  SumFunctionOnSet(g, U) = SumFunctionOnSet(f, S)
  <1> DEFINE F == Sums(f, S)  G == Sums(g, U)
  <1>1. F[{}] = 0 /\ \A s \in SUBSET S : F[s] \in Int /\ \A x \in s : F[s] = f[x] + F[s \ {x}]
    BY SumsStep
  <1>2. G[{}] = 0 /\ \A s \in SUBSET U : G[s] \in Int /\ \A x \in s : G[s] = g[x] + G[s \ {x}]
    <2>1. IsFiniteSet(U) /\ \A x \in U : g[x] \in Int
      BY FS_Subset
    <2> QED
      BY <2>1, SumsStep
  <1> HIDE DEF F, G
  <1> DEFINE T == {n \in Nat : \A s \in SUBSET S : Cardinality(s) = n => F[s] = G[s \cap U]}
  <1>3. 0 \in T
    <2> SUFFICES ASSUME NEW s \in SUBSET S, Cardinality(s) = 0 PROVE F[s] = G[s \cap U]
      OBVIOUS
    <2>1. s = {} /\ s \cap U = {}
      BY SubsetSize
    <2> QED
      BY <1>1, <1>2, <2>1
  <1>4. ASSUME NEW n \in T PROVE n + 1 \in T
    <2>0. n \in Nat /\ \A r \in SUBSET S : Cardinality(r) = n => F[r] = G[r \cap U]
      OBVIOUS
    <2> SUFFICES ASSUME NEW s \in SUBSET S, Cardinality(s) = n + 1 PROVE F[s] = G[s \cap U]
      BY <2>0
    <2> HIDE DEF T
    <2>1. s # {}
      BY <2>0, SubsetSize
    <2>2. PICK x \in s : TRUE
      BY <2>1
    <2>3. s \ {x} \in SUBSET S /\ Cardinality(s \ {x}) = n
      BY <2>0, SubsetSize
    <2>4. F[s \ {x}] = G[(s \ {x}) \cap U] /\ F[s] = f[x] + F[s \ {x}]
      BY <1>1, <2>0, <2>3
    <2>5. CASE x \in U
      <3>1. (s \cap U) \ {x} = (s \ {x}) \cap U /\ x \in s \cap U /\ s \cap U \in SUBSET U
        BY <2>5
      <3>2. G[s \cap U] = g[x] + G[(s \cap U) \ {x}]
        BY <1>2, <3>1
      <3> QED
        BY <2>4, <2>5, <3>1, <3>2
    <2>6. CASE x \notin U
      <3>1. (s \ {x}) \cap U = s \cap U
        BY <2>6
      <3>2. f[x] = 0 /\ F[s \ {x}] \in Int
        BY <1>1, <2>3, <2>6
      <3>3. F[s] = F[s \ {x}]
        BY <2>4, <3>2
      <3>4. G[(s \ {x}) \cap U] = G[s \cap U]
        BY <3>1
      <3> QED
        BY <2>4, <3>3, <3>4, Zenon
    <2> QED
      BY <2>5, <2>6
  <1>5. T = Nat
    <2> HIDE DEF T
    <2>1. T \in SUBSET Nat
      BY DEF T
    <2> QED
      BY <1>3, <1>4, <2>1, NatInduct
  <1>6. Cardinality(S) \in T
    BY <1>5, FS_CardinalityType
  <1>7. F[S] = G[U]
    <2>1. F[S] = G[S \cap U] /\ S \cap U = U
      BY <1>6
    <2> QED
      BY <2>1
  <1> QED
    BY <1>7, SumIsSums DEF F, G

\* The sum of sums, term by term.
LEMMA SumAdd ==
  ASSUME NEW S, IsFiniteSet(S), NEW f, NEW g, NEW h,
         \A x \in S : g[x] \in Int, \A x \in S : h[x] \in Int,
         \A x \in S : f[x] = g[x] + h[x]
  PROVE  SumFunctionOnSet(f, S) = SumFunctionOnSet(g, S) + SumFunctionOnSet(h, S)
  <1> DEFINE F == Sums(f, S)  G == Sums(g, S)  H == Sums(h, S)
  <1>0. \A x \in S : f[x] \in Int
    OBVIOUS
  <1>1. F[{}] = 0 /\ \A s \in SUBSET S : F[s] \in Int /\ \A x \in s : F[s] = f[x] + F[s \ {x}]
    BY <1>0, SumsStep
  <1>2. G[{}] = 0 /\ \A s \in SUBSET S : G[s] \in Int /\ \A x \in s : G[s] = g[x] + G[s \ {x}]
    BY SumsStep
  <1>3. H[{}] = 0 /\ \A s \in SUBSET S : H[s] \in Int /\ \A x \in s : H[s] = h[x] + H[s \ {x}]
    BY SumsStep
  <1> HIDE DEF F, G, H
  <1> DEFINE T == {n \in Nat : \A s \in SUBSET S : Cardinality(s) = n => F[s] = G[s] + H[s]}
  <1>4. 0 \in T
    <2> SUFFICES ASSUME NEW s \in SUBSET S, Cardinality(s) = 0 PROVE F[s] = G[s] + H[s]
      OBVIOUS
    <2>1. s = {}
      BY SubsetSize
    <2> QED
      BY <1>1, <1>2, <1>3, <2>1
  <1>5. ASSUME NEW n \in T PROVE n + 1 \in T
    <2>0. n \in Nat /\ \A r \in SUBSET S : Cardinality(r) = n => F[r] = G[r] + H[r]
      OBVIOUS
    <2> SUFFICES ASSUME NEW s \in SUBSET S, Cardinality(s) = n + 1 PROVE F[s] = G[s] + H[s]
      BY <2>0
    <2> HIDE DEF T
    <2>1. s # {}
      BY <2>0, SubsetSize
    <2>2. PICK x \in s : TRUE
      BY <2>1
    <2>3. s \ {x} \in SUBSET S /\ Cardinality(s \ {x}) = n
      BY <2>0, SubsetSize
    <2>4. /\ F[s] = f[x] + F[s \ {x}] /\ F[s \ {x}] = G[s \ {x}] + H[s \ {x}]
          /\ G[s] = g[x] + G[s \ {x}] /\ H[s] = h[x] + H[s \ {x}]
      BY <1>1, <1>2, <1>3, <2>0, <2>3
    <2>5. /\ f[x] = g[x] + h[x] /\ g[x] \in Int /\ h[x] \in Int
          /\ G[s \ {x}] \in Int /\ H[s \ {x}] \in Int
      BY <1>2, <1>3, <2>3
    <2> QED
      BY <2>4, <2>5
  <1>6. T = Nat
    <2> HIDE DEF T
    <2>1. T \in SUBSET Nat
      BY DEF T
    <2> QED
      BY <1>4, <1>5, <2>1, NatInduct
  <1>7. Cardinality(S) \in T
    BY <1>6, FS_CardinalityType
  <1>8. F[S] = G[S] + H[S]
    BY <1>7
  <1> QED
    BY <1>8, SumIsSums DEF F, G, H

\* A union has at most as many elements as its parts together.
LEMMA SumCovers ==
  ASSUME NEW S, IsFiniteSet(S), NEW a, \A x \in S : IsFiniteSet(a[x]),
         NEW f, \A x \in S : f[x] = Cardinality(a[x])
  PROVE  /\ IsFiniteSet(UNION {a[x] : x \in S})
         /\ Cardinality(UNION {a[x] : x \in S}) <= SumFunctionOnSet(f, S)
  <1> DEFINE F == Sums(f, S)  All(s) == UNION {a[x] : x \in s}
  <1>0. \A x \in S : f[x] \in Nat
    BY FS_CardinalityType
  <1>1. F[{}] = 0 /\ \A s \in SUBSET S : F[s] \in Int /\ \A x \in s : F[s] = f[x] + F[s \ {x}]
    <2>1. \A x \in S : f[x] \in Int
      BY <1>0
    <2> QED
      BY <2>1, SumsStep
  <1> HIDE DEF F
  <1> DEFINE T == {n \in Nat : \A s \in SUBSET S : Cardinality(s) = n =>
                     IsFiniteSet(All(s)) /\ Cardinality(All(s)) <= F[s]}
  <1>2. 0 \in T
    <2> SUFFICES ASSUME NEW s \in SUBSET S, Cardinality(s) = 0
                 PROVE  IsFiniteSet(All(s)) /\ Cardinality(All(s)) <= F[s]
      OBVIOUS
    <2>1. s = {}
      BY SubsetSize
    <2>2. All(s) = {}
      BY <2>1
    <2>3. IsFiniteSet({}) /\ Cardinality({}) = 0 /\ F[s] = 0
      BY <1>1, <2>1, FS_EmptySet
    <2>4. Cardinality({}) <= F[s]
      BY <2>3
    <2> HIDE DEF All
    <2> QED
      BY <2>2, <2>3, <2>4, Zenon
  <1>3. ASSUME NEW n \in T PROVE n + 1 \in T
    <2>0. n \in Nat /\ \A r \in SUBSET S : Cardinality(r) = n =>
             IsFiniteSet(All(r)) /\ Cardinality(All(r)) <= F[r]
      OBVIOUS
    <2> SUFFICES ASSUME NEW s \in SUBSET S, Cardinality(s) = n + 1
                 PROVE  IsFiniteSet(All(s)) /\ Cardinality(All(s)) <= F[s]
      BY <2>0
    <2> HIDE DEF T
    <2>1. s # {}
      BY <2>0, SubsetSize
    <2>2. PICK x \in s : TRUE
      BY <2>1
    <2> HIDE DEF All
    <2>3. s \ {x} \in SUBSET S /\ Cardinality(s \ {x}) = n
      <3>1. Cardinality(s \ {x}) = Cardinality(s) - 1
        BY SubsetSize
      <3> QED
        BY <2>0, <3>1
    <2>4. All(s) = All(s \ {x}) \cup a[x]
      BY <2>2 DEF All
    <2> DEFINE A == All(s \ {x})  B == a[x]
    <2>5. IsFiniteSet(A) /\ Cardinality(A) <= F[s \ {x}] /\ IsFiniteSet(B) /\ Cardinality(B) = f[x]
      BY <2>0, <2>3
    <2>6. All(s) = A \cup B
      BY <2>4
    <2> HIDE DEF A, B, All
    <2>7. IsFiniteSet(A \cup B) /\ Cardinality(A \cup B) <= Cardinality(A) + Cardinality(B)
      <3>1. IsFiniteSet(A \cap B)
        BY <2>5, FS_Subset
      <3>2. /\ IsFiniteSet(A \cup B)
            /\ Cardinality(A \cup B) = Cardinality(A) + Cardinality(B) - Cardinality(A \cap B)
        BY <2>5, FS_Union
      <3>3. Cardinality(A \cap B) \in Nat /\ Cardinality(A) \in Nat /\ Cardinality(B) \in Nat
        BY <2>5, <3>1, FS_CardinalityType
      <3> QED
        BY <3>2, <3>3
    <2>8. F[s] = f[x] + F[s \ {x}] /\ F[s \ {x}] \in Int /\ f[x] \in Nat
      BY <1>0, <1>1, <2>3
    <2>9. Cardinality(A) \in Nat /\ Cardinality(B) \in Nat /\ Cardinality(A \cup B) \in Nat
      BY <2>5, <2>7, FS_CardinalityType
    <2> QED
      BY <2>5, <2>6, <2>7, <2>8, <2>9
  <1>4. T = Nat
    <2> HIDE DEF T
    <2>1. T \in SUBSET Nat
      BY DEF T
    <2> QED
      BY <1>2, <1>3, <2>1, NatInduct
  <1>5. Cardinality(S) \in T
    BY <1>4, FS_CardinalityType
  <1>6. IsFiniteSet(All(S)) /\ Cardinality(All(S)) <= F[S]
    BY <1>5
  <1> QED
    BY <1>6, SumIsSums DEF F
=============================================================================
