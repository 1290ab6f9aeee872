---------------------------- MODULE Hosts_proof ----------------------------
(***************************************************************************)
(* Proofs about the client and the server: that init deals out every queue *)
(* once, that the server's lcores together are a faulty link, and that the *)
(* counters of both hosts stay within the arrays they index.               *)
(***************************************************************************)
EXTENDS Hosts, Sums_proof

-----------------------------------------------------------------------------
(* The order in which lcores, ports and sockets are visited. *)

Increasing(s) == \A a, b \in DOMAIN s : a < b => s[a] < s[b]

\* A finite set of integers has a greatest element.
LEMMA GreatestExists ==
  ASSUME NEW S \in SUBSET Int, IsFiniteSet(S), S # {}
  PROVE  \E x \in S : \A y \in S : y <= x
  <1> DEFINE T == {n \in Nat : \A s \in SUBSET S :
                     Cardinality(s) = n /\ s # {} => \E x \in s : \A y \in s : y <= x}
  <1>1. 0 \in T
    BY SubsetSize
  <1>2. ASSUME NEW n \in T PROVE n + 1 \in T
    <2>0. n \in Nat /\ \A s \in SUBSET S :
             Cardinality(s) = n /\ s # {} => \E x \in s : \A y \in s : y <= x
      OBVIOUS
    <2> SUFFICES ASSUME NEW s \in SUBSET S, Cardinality(s) = n + 1
                 PROVE  \E x \in s : \A y \in s : y <= x
      BY <2>0
    <2> HIDE DEF T
    <2>s. /\ IsFiniteSet(s) /\ (s = {} <=> Cardinality(s) = 0)
          /\ \A e \in s : s \ {e} \in SUBSET S /\ Cardinality(s \ {e}) = Cardinality(s) - 1
      BY SubsetSize
    <2>1. s # {}
      BY <2>0, <2>s
    <2>2. PICK z \in s : TRUE
      BY <2>1
    <2>3. s \ {z} \in SUBSET S /\ Cardinality(s \ {z}) = n
      BY <2>0, <2>2, <2>s
    <2>4. CASE s \ {z} = {}
      <3>1. \A y \in s : y = z
        BY <2>4
      <3> QED
        BY <2>2, <3>1
    <2>5. CASE s \ {z} # {}
      <3>1. PICK x \in s \ {z} : \A y \in s \ {z} : y <= x
        BY <2>0, <2>3, <2>5
      <3>2. CASE x <= z
        <4>1. \A y \in s : y <= z
          BY <3>1, <3>2
        <4> QED
          BY <4>1
      <3>3. CASE ~(x <= z)
        <4>1. \A y \in s : y <= x
          BY <3>1, <3>3
        <4> QED
          BY <4>1
      <3> QED
        BY <3>2, <3>3
    <2> QED
      BY <2>4, <2>5
  <1>3. T = Nat
    <2> HIDE DEF T
    <2>1. T \in SUBSET Nat
      BY DEF T
    <2> QED
      BY <1>1, <1>2, <2>1, NatInduct
  <1>4. Cardinality(S) \in T
    BY <1>3, FS_CardinalityType
  <1> QED
    BY <1>4

\* ... and so can be written in ascending order: without its greatest element
\* it can, and that goes last.
LEMMA AscendingExists ==
  ASSUME NEW S \in SUBSET Int, IsFiniteSet(S)
  PROVE  /\ Ascending(S) \in [1..Cardinality(S) -> S]
         /\ Increasing(Ascending(S))
  <1> DEFINE Listed(s, n) == \E f \in [1..n -> s] : Increasing(f)
             T == {n \in Nat : \A s \in SUBSET S : Cardinality(s) = n => Listed(s, n)}
  <1>1. 0 \in T
    <2> SUFFICES ASSUME NEW s \in SUBSET S PROVE Listed(s, 0)
      OBVIOUS
    <2>1. [a \in 1..0 |-> 0] \in [1..0 -> s] /\ Increasing([a \in 1..0 |-> 0])
      BY DEF Increasing
    <2> QED
      BY <2>1
  <1>2. ASSUME NEW n \in T PROVE n + 1 \in T
    <2>0. n \in Nat /\ \A s \in SUBSET S : Cardinality(s) = n => Listed(s, n)
      OBVIOUS
    <2> SUFFICES ASSUME NEW s \in SUBSET S, Cardinality(s) = n + 1
                 PROVE  Listed(s, n + 1)
      BY <2>0
    <2> HIDE DEF T
    <2>s. /\ IsFiniteSet(s) /\ (s = {} <=> Cardinality(s) = 0)
          /\ \A e \in s : s \ {e} \in SUBSET S /\ Cardinality(s \ {e}) = Cardinality(s) - 1
      BY SubsetSize
    <2>1. s # {} /\ IsFiniteSet(s)
      BY <2>0, <2>s
    <2>2. PICK x \in s : \A y \in s : y <= x
      BY <2>1, GreatestExists
    <2>3. s \ {x} \in SUBSET S /\ Cardinality(s \ {x}) = n
      BY <2>0, <2>2, <2>s
    <2>4. PICK f \in [1..n -> s \ {x}] : Increasing(f)
      BY <2>0, <2>3
    <2> DEFINE g == [a \in 1..n + 1 |-> IF a = n + 1 THEN x ELSE f[a]]
    <2>5. g \in [1..n + 1 -> s]
      BY <2>0, <2>4
    <2>6. ASSUME NEW a \in 1..n + 1, NEW b \in 1..n + 1, a < b PROVE g[a] < g[b]
      <3>1. a \in 1..n /\ f[a] \in s \ {x} /\ g[a] = f[a]
        BY <2>0, <2>4, <2>6
      <3>2. CASE b = n + 1
        <4>1. f[a] <= x /\ f[a] # x /\ f[a] \in Int /\ x \in Int
          BY <2>2, <3>1
        <4> QED
          BY <3>1, <3>2, <4>1
      <3>3. CASE b # n + 1
        <4>1. b \in 1..n /\ g[b] = f[b]
          BY <2>0, <3>3
        <4> QED
          BY <2>4, <2>6, <3>1, <4>1 DEF Increasing
      <3> QED
        BY <3>2, <3>3
    <2>7. Increasing(g)
      BY <2>5, <2>6 DEF Increasing
    <2> HIDE DEF g
    <2> QED
      BY <2>5, <2>7
  <1>3. T = Nat
    <2> HIDE DEF T
    <2>1. T \in SUBSET Nat
      BY DEF T
    <2> QED
      BY <1>1, <1>2, <2>1, NatInduct
  <1>4. Cardinality(S) \in T
    BY <1>3, FS_CardinalityType
  <1>5. \E f \in [1..Cardinality(S) -> S] : Increasing(f)
    BY <1>4
  <1> QED
    BY <1>5, Zenon DEF Ascending, Increasing

\* It lists every element once.
LEMMA AscendingLists ==
  ASSUME NEW S \in SUBSET Int, IsFiniteSet(S)
  PROVE  /\ Cardinality(S) \in Nat
         /\ \A a \in 1..Cardinality(S) : Ascending(S)[a] \in S
         /\ \A a, b \in 1..Cardinality(S) : Ascending(S)[a] = Ascending(S)[b] => a = b
         /\ \A x \in S : \E a \in 1..Cardinality(S) : Ascending(S)[a] = x
  <1> DEFINE n == Cardinality(S)
             s == Ascending(S)
  <1>1. s \in [1..n -> S] /\ Increasing(s) /\ n \in Nat
    BY AscendingExists, FS_CardinalityType
  <1>a. IsFiniteSet(1..n) /\ Cardinality(1..n) = n
    BY <1>1, FS_Interval
  <1> HIDE DEF s
  <1>2. ASSUME NEW a \in 1..n, NEW b \in 1..n, s[a] = s[b] PROVE a = b
    <2>1. s[a] \in Int /\ s[b] \in Int
      BY <1>1
    <2>2. ~(a < b) /\ ~(b < a)
      BY <1>1, <1>2, <2>1 DEF Increasing
    <2> QED
      BY <1>1, <2>2
  <1>3. ASSUME NEW x \in S, \A a \in 1..n : s[a] # x PROVE FALSE
    <2>1. s \in [1..n -> S \ {x}]
      BY <1>1, <1>3
    <2>2. IsFiniteSet(S \ {x}) /\ Cardinality(S \ {x}) = n - 1
      BY FS_RemoveElement
    <2>3. \A a, b \in 1..n : s[a] = s[b] => a = b
      BY <1>2
    <2> HIDE DEF n
    <2>4. s \in Injection(1..n, S \ {x})
      BY <2>1, <2>3 DEF Injection, IsInjective
    <2>5. Cardinality(1..n) <= Cardinality(S \ {x})
      BY <1>a, <2>2, <2>4, FS_Injection
    <2> QED
      BY <1>1, <1>a, <2>2, <2>5
  <1> QED
    BY <1>1, <1>2, <1>3 DEF s

-----------------------------------------------------------------------------
(* The loop of init over the lcores. *)

\* The loop as a function of the number of turns.
Start == << <<>>, 0, 0, 0>>
Turn(m, t, k) ==
    IF k = 0 THEN Start ELSE Assign(m, t[k - 1], Ascending(m.lcores)[k])
Turns(m) == CHOOSE t : t = [k \in 0..NLcores(m) |-> Turn(m, t, k)]

LEMMA ConfIsTurns ==
  ASSUME NEW m PROVE lcore_conf(m) = Turns(m)[NLcores(m)][1]
  BY Zenon DEF lcore_conf, Turns, Turn, Start

LEMMA TurnsExist ==
  ASSUME NEW m, NLcores(m) \in Nat
  PROVE  \A k \in 0..NLcores(m) : Turns(m)[k] = Turn(m, Turns(m), k)
  <1> DEFINE N == NLcores(m)
             Upto(n) == \E g : g = [k \in 0..N |-> g[k]] /\ \A k \in 0..N :
                           k <= n => g[k] = Turn(m, g, k)
             T == {n \in Nat : Upto(n)}
  <1>1. 0 \in T
    <2> DEFINE g == [k \in 0..N |-> Start]
    <2>1. \A k \in 0..N : k <= 0 => g[k] = Turn(m, g, k)
      BY DEF Turn
    <2>2. g = [k \in 0..N |-> g[k]]
      OBVIOUS
    <2> HIDE DEF g
    <2> QED
      BY <2>1, <2>2
  <1>2. ASSUME NEW n \in T PROVE n + 1 \in T
    <2>1. PICK g : g = [k \in 0..N |-> g[k]] /\ \A k \in 0..N : k <= n => g[k] = Turn(m, g, k)
      OBVIOUS
    <2> DEFINE h == [k \in 0..N |-> Turn(m, g, k)]
    <2>2. \A k \in 0..N : k <= n => h[k] = g[k]
      BY <2>1
    <2>3. ASSUME NEW k \in 0..N, k <= n + 1 PROVE h[k] = Turn(m, h, k)
      <3>1. CASE k = 0
        BY <3>1 DEF Turn
      <3>2. CASE k # 0
        <4>1. k - 1 \in 0..N /\ k - 1 <= n
          BY <2>3, <3>2
        <4>2. h[k - 1] = g[k - 1]
          BY <2>2, <4>1
        <4> QED
          BY <3>2, <4>2 DEF Turn
      <3> QED
        BY <3>1, <3>2
    <2>4. h = [k \in 0..N |-> h[k]]
      OBVIOUS
    <2> HIDE DEF h
    <2>5. Upto(n + 1)
      BY <2>3, <2>4
    <2>6. n + 1 \in Nat
      OBVIOUS
    <2> HIDE DEF Upto
    <2> QED
      BY <2>5, <2>6
  <1>3. T = Nat
    <2> HIDE DEF T
    <2>1. T \in SUBSET Nat
      BY DEF T
    <2> QED
      BY <1>1, <1>2, <2>1, NatInduct
  <1>4. N \in T
    BY <1>3
  <1>5. PICK g : g = [k \in 0..N |-> g[k]] /\ \A k \in 0..N : k <= N => g[k] = Turn(m, g, k)
    BY <1>4
  <1>6. g = [k \in 0..N |-> Turn(m, g, k)]
    BY <1>5
  <1>7. Turns(m) = [k \in 0..N |-> Turn(m, Turns(m), k)]
    BY <1>6 DEF Turns
  <1> DEFINE h == Turns(m)
  <1>8. h = [k \in 0..N |-> Turn(m, h, k)]
    BY <1>7
  <1> HIDE DEF h
  <1>9. \A k \in 0..N : h[k] = Turn(m, h, k)
    BY <1>8
  <1> QED
    BY <1>9 DEF h

\* A machine whose lcores and ports can be counted.
MachineOK(m) ==
    /\ m.lcores \subseteq Int /\ IsFiniteSet(m.lcores)
    /\ enabled_ports(m) \subseteq Int /\ IsFiniteSet(enabled_ports(m))

\* Lcores to a port.
PerPort(m) == NLcores(m) \div NPorts(m)

\* If the lcores are a multiple of the ports, the receive queues of a port are
\* those of its lcores.
LEMMA PortsDivide ==
  ASSUME NEW m, MachineOK(m), Counted(m) = "ok"
  PROVE  /\ NLcores(m) \in Nat /\ NPorts(m) \in Nat \ {0} /\ PerPort(m) \in Nat \ {0}
         /\ NLcores(m) = PerPort(m) * NPorts(m)
         /\ RxPerPort(m) = RxPerLcore * PerPort(m) /\ TxPerPort(m) = PerPort(m)
  <1> USE SetupAssumption
  <1> DEFINE n == NLcores(m)  p == NPorts(m)  t == PerPort(m)  r == RxPerLcore
  <1>1. n \in Nat /\ p \in Nat
    BY FS_CardinalityType DEF MachineOK, NLcores, NPorts
  <1>2. p # 0 /\ n % p = 0 /\ ~(RxPerPort(m) < r)
    BY DEF Counted
  <1>3. RxPerPort(m) = (r * n) \div p /\ t = n \div p /\ TxPerPort(m) = t
    BY DEF RxPerPort, PerPort, TxPerPort
  <1> HIDE DEF n, p, t, r
  <1>a. r \in Nat \ {0}
    BY DEF r
  <1>4. t \in Nat /\ n = t * p
    BY <1>1, <1>2, <1>3, SMTT(30)
  <1>5. r * n = (r * t) * p /\ r * t \in Nat
    BY <1>1, <1>4, <1>a, SMTT(30)
  <1>6. ((r * t) * p) \div p = r * t
    <2> DEFINE q == r * t
    <2>1. q \in Nat
      BY <1>5
    <2> HIDE DEF q
    <2>2. (q * p) \div p = q
      BY <1>1, <1>2, <2>1, SMTT(30)
    <2> QED
      BY <2>2 DEF q
  <1>7. RxPerPort(m) = r * t
    BY <1>3, <1>5, <1>6
  <1>8. t # 0
    <2>1. SUFFICES ASSUME t = 0 PROVE FALSE
      OBVIOUS
    <2>2. r * t = 0
      BY <1>a, <2>1
    <2> QED
      BY <1>2, <1>7, <1>a, <2>2
  <1> QED
    BY <1>1, <1>2, <1>3, <1>4, <1>7, <1>8 DEF n, p, t, r

\* Division with remainder, and that it has one result.
LEMMA DivExists ==
  ASSUME NEW t \in Nat \ {0}, NEW n \in Nat
  PROVE  \E a \in Nat, x \in 0..(t - 1) : n = t * a + x
  <1> DEFINE T == {k \in Nat : \E a \in Nat, x \in 0..(t - 1) : k = t * a + x}
  <1>1. 0 \in T
    <2>1. 0 = t * 0 + 0 /\ 0 \in 0..(t - 1)
      BY SMTT(30)
    <2> QED
      BY <2>1
  <1>2. ASSUME NEW k \in T PROVE k + 1 \in T
    <2>1. PICK a \in Nat, x \in 0..(t - 1) : k = t * a + x
      OBVIOUS
    <2>2. t * a \in Nat /\ t * (a + 1) = t * a + t
      BY SMTT(30)
    <2> SUFFICES \E c \in Nat, y \in 0..(t - 1) : k + 1 = t * c + y
      OBVIOUS
    <2> HIDE DEF T
    <2>3. CASE x + 1 = t
      <3>1. k + 1 = t * (a + 1) + 0 /\ a + 1 \in Nat /\ 0 \in 0..(t - 1)
        BY <2>1, <2>2, <2>3
      <3> QED
        BY <3>1
    <2>4. CASE x + 1 # t
      <3>1. k + 1 = t * a + (x + 1) /\ x + 1 \in 0..(t - 1)
        BY <2>1, <2>2, <2>4
      <3> QED
        BY <3>1
    <2> QED
      BY <2>3, <2>4
  <1>3. T = Nat
    <2> HIDE DEF T
    <2>1. T \in SUBSET Nat
      BY DEF T
    <2> QED
      BY <1>1, <1>2, <2>1, NatInduct
  <1>4. n \in T
    <2> HIDE DEF T
    <2> QED
      BY <1>3
  <1> QED
    BY <1>4

LEMMA DivUnique ==
  ASSUME NEW t \in Nat \ {0}, NEW a \in Nat, NEW b \in Nat,
         NEW x \in 0..(t - 1), NEW y \in 0..(t - 1), t * a + x = t * b + y
  PROVE  a = b /\ x = y
  <1>1. ASSUME NEW c \in Nat, NEW d \in Nat, NEW u \in 0..(t - 1), NEW v \in 0..(t - 1),
               t * c + u = t * d + v, c < d
        PROVE  FALSE
    <2>1. t * (c + 1) <= t * d
      BY <1>1, SMTT(30)
    <2>2. t * (c + 1) = t * c + t
      BY SMTT(30)
    <2>3. t * c \in Int /\ t * d \in Int
      OBVIOUS
    <2> QED
      BY <1>1, <2>1, <2>2, <2>3
  <1>2. ~(a < b) /\ ~(b < a)
    BY <1>1
  <1>3. a = b
    BY <1>2
  <1>4. t * a \in Int
    OBVIOUS
  <1> QED
    BY <1>3, <1>4

LEMMA Multiple ==
  ASSUME NEW r \in Nat \ {0}, NEW t \in Nat \ {0}, NEW x \in 0..(t - 1)
  PROVE  (r * x + r) % (r * t) = 0 <=> x + 1 = t
  <1> DEFINE v == r * x + r  w == r * t
  <1>1. v \in Nat \ {0} /\ w \in Nat \ {0} /\ v = r * (x + 1)
    BY SMTT(30)
  <1>2. CASE x + 1 = t
    <2>1. v = w
      BY <1>1, <1>2
    <2> HIDE DEF v, w
    <2>2. w % w = 0
      BY <1>1, SMTT(30)
    <2> QED
      BY <1>2, <2>1, <2>2 DEF v, w
  <1>3. CASE x + 1 # t
    <2>1. x + 1 < t
      BY <1>3
    <2>2. r * (x + 1) < r * t
      BY <2>1, SMTT(30)
    <2>3. v < w
      BY <1>1, <2>2
    <2> HIDE DEF v, w
    <2>4. v % w = v
      BY <1>1, <2>3, SMTT(30)
    <2> QED
      BY <1>1, <1>3, <2>4 DEF v, w
  <1> QED
    BY <1>2, <1>3

\* What the loop has dealt out after k turns: t lcores to a port, in ascending
\* order of both, and to each its share of the port's queues.
Share(m, c, a, b) ==
    /\ c.port = Ascending(enabled_ports(m))[a + 1]
    /\ c.rxQueues = (RxPerLcore * b)..(RxPerLcore * b + RxPerLcore - 1)
    /\ c.txQueue = b

Shared(m, all, k) ==
    \A a \in Nat, b \in 0..(PerPort(m) - 1) :
        PerPort(m) * a + b < k =>
            LET l == Ascending(m.lcores)[PerPort(m) * a + b + 1]
            IN  l \in DOMAIN all /\ Share(m, all[l], a, b)

TurnOK(m, s, k) ==
    /\ \E o \in Nat, x \in 0..(PerPort(m) - 1) :
          /\ k = PerPort(m) * o + x
          /\ s[2] = o /\ s[3] = RxPerLcore * x /\ s[4] = x
    /\ Shared(m, s[1], k)

LEMMA TurnKeeps ==
  ASSUME NEW m, MachineOK(m), Counted(m) = "ok",
         NEW k \in Nat, k < NLcores(m), NEW s, TurnOK(m, s, k)
  PROVE  TurnOK(m, Assign(m, s, Ascending(m.lcores)[k + 1]), k + 1)
  <1> DEFINE t == PerPort(m)  r == RxPerLcore  lc == Ascending(m.lcores)
             l == lc[k + 1]  n == NLcores(m)
             rx == s[3] + RxPerLcore
             conf == [port |-> Ascending(enabled_ports(m))[s[2] + 1],
                      rxQueues |-> s[3]..(rx - 1),
                      txQueue |-> s[4]]
             all == [i \in DOMAIN s[1] \cup {l} |-> IF i = l THEN conf ELSE s[1][i]]
             next == Assign(m, s, l)
  <1>1. PICK o \in Nat, x \in 0..(t - 1) :
            k = t * o + x /\ s[2] = o /\ s[3] = r * x /\ s[4] = x
    BY DEF TurnOK
  <1>2. t \in Nat \ {0} /\ r \in Nat \ {0} /\ RxPerPort(m) = r * t
    BY PortsDivide, SetupAssumption
  <1>3. /\ rx % (r * t) = 0 => next = <<all, o + 1, 0, 0>>
        /\ ~(rx % (r * t) = 0) => next = <<all, o, rx, x + 1>>
    BY <1>1, <1>2 DEF Assign
  <1>4. next[1] = all
    BY <1>3
  <1>5. rx % (r * t) = 0 <=> x + 1 = t
    BY <1>1, <1>2, Multiple
  <1>6. /\ n \in Nat
        /\ \A i, j \in 1..n : lc[i] = lc[j] => i = j
    BY AscendingLists DEF MachineOK, NLcores
  <1>7. Shared(m, all, k + 1)
    <2> SUFFICES ASSUME NEW a \in Nat, NEW b \in 0..(t - 1), t * a + b < k + 1
                 PROVE  lc[t * a + b + 1] \in DOMAIN all /\ Share(m, all[lc[t * a + b + 1]], a, b)
      BY Zenon DEF Shared
    <2>1. t * a \in Nat
      BY <1>2, SMTT(30)
    <2>2. CASE t * a + b = k
      <3>1. a = o /\ b = x
        BY <1>1, <1>2, <2>2, DivUnique
      <3>2. t * a + b + 1 = k + 1
        BY <2>2
      <3>3. l \in DOMAIN all /\ all[l] = conf
        OBVIOUS
      <3>4. conf.port = Ascending(enabled_ports(m))[o + 1] /\ conf.txQueue = x
            /\ conf.rxQueues = s[3]..(rx - 1)
        <4> HIDE DEF rx
        <4> QED
          BY <1>1
      <3>5. conf.rxQueues = (r * x)..(r * x + r - 1)
        <4>1. rx - 1 = r * x + r - 1
          BY <1>1, <1>2
        <4> HIDE DEF conf, rx
        <4> QED
          BY <1>1, <3>4, <4>1
      <3> QED
        BY <3>1, <3>2, <3>3, <3>4, <3>5 DEF Share
    <2>3. CASE t * a + b # k
      <3>1. t * a + b < k /\ t * a + b + 1 \in 1..n /\ k + 1 \in 1..n
        BY <1>2, <1>6, <2>1, <2>3
      <3> DEFINE i == lc[t * a + b + 1]
      <3>2. i \in DOMAIN s[1] /\ Share(m, s[1][i], a, b)
        BY <3>1 DEF TurnOK, Shared
      <3>3. i # l
        BY <1>6, <2>1, <2>3, <3>1
      <3>4. i \in DOMAIN all /\ all[i] = s[1][i]
        BY <3>2, <3>3
      <3> HIDE DEF all
      <3> QED
        BY <3>2, <3>4
    <2> QED
      BY <2>2, <2>3
  <1>8. \E u \in Nat, y \in 0..(t - 1) :
          k + 1 = t * u + y /\ next[2] = u /\ next[3] = r * y /\ next[4] = y
    <2>1. CASE x + 1 = t
      <3>1. next[2] = o + 1 /\ next[3] = 0 /\ next[4] = 0
        BY <1>3, <1>5, <2>1
      <3>2. t * (o + 1) = t * o + t /\ t * o \in Nat /\ r * 0 = 0
        BY <1>2, SMTT(30)
      <3> HIDE DEF next, t, r, rx
      <3>3. k + 1 = t * (o + 1) + 0 /\ 0 \in 0..(t - 1) /\ o + 1 \in Nat
        BY <1>1, <1>2, <2>1, <3>2
      <3> QED
        BY <3>1, <3>2, <3>3
    <2>2. CASE x + 1 # t
      <3>1. next[2] = o /\ next[3] = rx /\ next[4] = x + 1
        BY <1>3, <1>5, <2>2
      <3>2. rx = r * (x + 1) /\ t * o \in Nat
        BY <1>1, <1>2, SMTT(30)
      <3> HIDE DEF next, t, r, rx
      <3>3. k + 1 = t * o + (x + 1) /\ x + 1 \in 0..(t - 1)
        BY <1>1, <1>2, <2>2, <3>2
      <3> QED
        BY <3>1, <3>2, <3>3
    <2> QED
      BY <2>1, <2>2
  <1> HIDE DEF next, all
  <1>9. TurnOK(m, next, k + 1)
    BY <1>4, <1>7, <1>8 DEF TurnOK
  <1> QED
    BY <1>9 DEF next

\* The configuration shares out the lcores and queues.
LEMMA ConfShares ==
  ASSUME NEW m, MachineOK(m), Counted(m) = "ok"
  PROVE  Shared(m, lcore_conf(m), NLcores(m))
  <1> DEFINE n == NLcores(m)  g == Turns(m)
             T == {k \in Nat : k <= n => TurnOK(m, g[k], k)}
  <1>0. n \in Nat /\ PerPort(m) \in Nat \ {0} /\ RxPerLcore \in Nat \ {0}
    BY PortsDivide, SetupAssumption
  <1>t. \A k \in 0..n : g[k] = Turn(m, g, k)
    BY <1>0, TurnsExist
  <1> HIDE DEF n, g
  <1>1. 0 \in T
    <2>1. g[0] = Start
      BY <1>0, <1>t DEF Turn
    <2>2. /\ 0 = PerPort(m) * 0 + 0 /\ 0 \in 0..(PerPort(m) - 1)
          /\ RxPerLcore * 0 = 0 /\ Start[2] = 0 /\ Start[3] = 0 /\ Start[4] = 0
      BY <1>0 DEF Start
    <2>3. Shared(m, Start[1], 0)
      <3>1. \A a \in Nat, b \in 0..(PerPort(m) - 1) : ~(PerPort(m) * a + b < 0)
        <4> SUFFICES ASSUME NEW a \in Nat, NEW b \in 0..(PerPort(m) - 1)
                     PROVE  ~(PerPort(m) * a + b < 0)
          OBVIOUS
        <4>1. PerPort(m) * a \in Nat
          BY <1>0, SMTT(30)
        <4> QED
          BY <1>0, <4>1
      <3> QED
        BY <3>1 DEF Shared
    <2>4. TurnOK(m, Start, 0)
      BY <2>2, <2>3 DEF TurnOK
    <2> QED
      BY <2>1, <2>4
  <1>2. ASSUME NEW k \in T PROVE k + 1 \in T
    <2>0. k \in Nat /\ (k <= n => TurnOK(m, g[k], k))
      OBVIOUS
    <2> SUFFICES ASSUME k + 1 <= n PROVE TurnOK(m, g[k + 1], k + 1)
      BY <2>0
    <2> HIDE DEF T
    <2>1. k < n /\ k <= n /\ k + 1 \in 0..n /\ k + 1 # 0 /\ (k + 1) - 1 = k
      BY <1>0, <2>0
    <2>2. g[k + 1] = Assign(m, g[k], Ascending(m.lcores)[k + 1])
      BY <1>t, <2>1 DEF Turn
    <2>3. TurnOK(m, g[k], k)
      BY <2>0, <2>1
    <2>4. TurnOK(m, Assign(m, g[k], Ascending(m.lcores)[k + 1]), k + 1)
      BY <2>0, <2>1, <2>3, TurnKeeps DEF n
    <2> QED
      BY <2>2, <2>4
  <1>3. T = Nat
    <2> HIDE DEF T
    <2>1. T \in SUBSET Nat
      BY DEF T
    <2> QED
      BY <1>1, <1>2, <2>1, NatInduct
  <1>4. TurnOK(m, g[n], n)
    BY <1>0, <1>3
  <1>5. lcore_conf(m) = g[n][1]
    BY ConfIsTurns DEF g, n
  <1> QED
    BY <1>4, <1>5 DEF TurnOK, n

\* The shares of two lcores differ, every lcore has one, and every share goes
\* to an lcore.
LEMMA SharesMatch ==
  ASSUME NEW m, MachineOK(m), Counted(m) = "ok"
  PROVE  /\ \A l \in m.lcores : \E a \in 0..(NPorts(m) - 1), b \in 0..(PerPort(m) - 1) :
               /\ Share(m, lcore_conf(m)[l], a, b)
               /\ l = Ascending(m.lcores)[PerPort(m) * a + b + 1]
         /\ \A a \in 0..(NPorts(m) - 1), b \in 0..(PerPort(m) - 1) :
               LET l == Ascending(m.lcores)[PerPort(m) * a + b + 1]
               IN  l \in m.lcores /\ Share(m, lcore_conf(m)[l], a, b)
  <1> DEFINE n == NLcores(m)  p == NPorts(m)  t == PerPort(m)
             lc == Ascending(m.lcores)  conf == lcore_conf(m)
  <1>1. n \in Nat /\ p \in Nat \ {0} /\ t \in Nat \ {0} /\ n = t * p
    BY PortsDivide
  <1>2. \A a \in Nat, b \in 0..(t - 1) :
           t * a + b < n => Share(m, conf[lc[t * a + b + 1]], a, b)
    BY ConfShares DEF Shared
  <1>3. /\ \A i \in 1..n : lc[i] \in m.lcores
        /\ \A l \in m.lcores : \E i \in 1..n : lc[i] = l
    BY AscendingLists DEF MachineOK, NLcores
  <1> HIDE DEF n, p, t, lc, conf
  <1>4. ASSUME NEW a \in Nat, NEW b \in 0..(t - 1)
        PROVE  t * a + b \in Nat /\ (t * a + b < n <=> a <= p - 1)
    <2>1. t * a \in Nat /\ t * p \in Nat
      BY <1>1, SMTT(30)
    <2>2. CASE a <= p - 1
      <3>1. t * (a + 1) <= t * p /\ t * (a + 1) = t * a + t
        <4>1. a + 1 <= p
          BY <1>1, <2>2
        <4> QED
          BY <1>1, <4>1, SMTT(30)
      <3> QED
        BY <1>1, <2>1, <2>2, <3>1
    <2>3. CASE ~(a <= p - 1)
      <3>1. t * p <= t * a
        <4>1. p <= a
          BY <1>1, <2>3
        <4> QED
          BY <1>1, <4>1, SMTT(30)
      <3> QED
        BY <1>1, <2>1, <2>3, <3>1
    <2> QED
      BY <2>2, <2>3
  <1>5. ASSUME NEW l \in m.lcores
        PROVE  \E a \in 0..(p - 1), b \in 0..(t - 1) :
                  Share(m, conf[l], a, b) /\ l = lc[t * a + b + 1]
    <2>1. PICK i \in 1..n : lc[i] = l
      BY <1>3
    <2>2. i - 1 \in Nat
      BY <1>1
    <2>3. PICK a \in Nat, b \in 0..(t - 1) : i - 1 = t * a + b
      BY <1>1, <2>2, DivExists
    <2>4. t * a + b < n /\ t * a + b + 1 = i
      BY <1>1, <1>4, <2>3
    <2>5. a \in 0..(p - 1)
      BY <1>1, <1>4, <2>4
    <2> QED
      BY <1>2, <2>1, <2>4, <2>5
  <1>6. ASSUME NEW a \in 0..(p - 1), NEW b \in 0..(t - 1)
        PROVE  lc[t * a + b + 1] \in m.lcores /\ Share(m, conf[lc[t * a + b + 1]], a, b)
    <2>1. a \in Nat /\ t * a + b \in Nat /\ t * a + b < n
      BY <1>1, <1>4
    <2>2. t * a + b + 1 \in 1..n
      BY <1>1, <2>1
    <2> QED
      BY <1>2, <1>3, <2>1, <2>2
  <1> QED
    BY <1>5, <1>6 DEF n, p, t, lc, conf

\* Every queue of every port goes to one lcore.
LEMMA QueuesAreDealt ==
  ASSUME NEW m, MachineOK(m), Counted(m) = "ok"
  PROVE  QueuesDealt(m, lcore_conf(m))
  <1> DEFINE p == NPorts(m)  t == PerPort(m)  r == RxPerLcore  at == Ascending(enabled_ports(m))
             lc == Ascending(m.lcores)  conf == lcore_conf(m)
  <1>1. /\ p \in Nat \ {0} /\ t \in Nat \ {0} /\ r \in Nat \ {0}
        /\ RxPerPort(m) = r * t /\ TxPerPort(m) = t
    BY PortsDivide, SetupAssumption
  <1>2. /\ \A i, j \in 1..p : at[i] = at[j] => i = j
        /\ \A e \in enabled_ports(m) : \E i \in 1..p : at[i] = e
    BY AscendingLists DEF MachineOK, NPorts
  <1>3. /\ \A l \in m.lcores : \E a \in 0..(p - 1), b \in 0..(t - 1) :
              Share(m, conf[l], a, b) /\ l = lc[t * a + b + 1]
        /\ \A a \in 0..(p - 1), b \in 0..(t - 1) :
              lc[t * a + b + 1] \in m.lcores /\ Share(m, conf[lc[t * a + b + 1]], a, b)
    BY SharesMatch
  <1>4. ASSUME NEW l, NEW a, NEW b, Share(m, conf[l], a, b)
        PROVE  /\ conf[l].port = at[a + 1] /\ conf[l].txQueue = b
               /\ conf[l].rxQueues = (r * b)..(r * b + r - 1)
    BY <1>4 DEF Share
  <1> HIDE DEF p, t, r, at, lc, conf
  <1> SUFFICES ASSUME NEW e \in enabled_ports(m)
               PROVE  LET of == {l \in m.lcores : conf[l].port = e}
                      IN  /\ \A q \in 0..(r * t - 1) :
                                Cardinality({l \in of : q \in conf[l].rxQueues}) = 1
                          /\ \A q \in 0..(t - 1) :
                                Cardinality({l \in of : q = conf[l].txQueue}) = 1
                          /\ \A l \in of : /\ conf[l].rxQueues \subseteq 0..(r * t - 1)
                                           /\ conf[l].txQueue \in 0..(t - 1)
    BY <1>1 DEF QueuesDealt, conf
  <1> DEFINE of == {l \in m.lcores : conf[l].port = e}
  <1>5. PICK c \in 0..(p - 1) : at[c + 1] = e
    <2>1. PICK i \in 1..p : at[i] = e
      BY <1>2
    <2>2. i - 1 \in 0..(p - 1) /\ (i - 1) + 1 = i
      BY <1>1, <2>1
    <2> QED
      BY <2>1, <2>2
  <1>6. ASSUME NEW l \in of
        PROVE  \E b \in 0..(t - 1) : Share(m, conf[l], c, b) /\ l = lc[t * c + b + 1]
    <2>1. PICK a \in 0..(p - 1), b \in 0..(t - 1) :
              Share(m, conf[l], a, b) /\ l = lc[t * a + b + 1]
      BY <1>3
    <2>2. at[a + 1] = e
      BY <1>4, <2>1
    <2>3. a = c
      <3>1. a + 1 \in 1..p /\ c + 1 \in 1..p
        BY <1>1
      <3>2. a + 1 = c + 1
        BY <1>2, <1>5, <2>2, <3>1
      <3> QED
        BY <3>1, <3>2
    <2> QED
      BY <2>1, <2>3
  <1>7. ASSUME NEW b \in 0..(t - 1)
        PROVE  lc[t * c + b + 1] \in of /\ Share(m, conf[lc[t * c + b + 1]], c, b)
    <2>1. lc[t * c + b + 1] \in m.lcores /\ Share(m, conf[lc[t * c + b + 1]], c, b)
      BY <1>3
    <2> QED
      BY <1>4, <1>5, <2>1
  <1> HIDE DEF of
  <1>8. ASSUME NEW q \in 0..(r * t - 1)
        PROVE  Cardinality({l \in of : q \in conf[l].rxQueues}) = 1
    <2>1. PICK b \in Nat, y \in 0..(r - 1) : q = r * b + y
      <3>1. q \in Nat
        OBVIOUS
      <3> QED
        BY <1>1, <3>1, DivExists
    <2>2. b \in 0..(t - 1)
      <3> SUFFICES ASSUME t <= b PROVE FALSE
        BY <1>1
      <3>1. r * t <= r * b
        BY <1>1, SMTT(30)
      <3>2. r * t \in Nat /\ r * b \in Nat
        BY <1>1, SMTT(30)
      <3> QED
        BY <1>1, <2>1, <3>1, <3>2
    <2> DEFINE u == lc[t * c + b + 1]
    <2>3. u \in of /\ q \in conf[u].rxQueues
      <3>1. u \in of /\ conf[u].rxQueues = (r * b)..(r * b + r - 1)
        BY <1>4, <1>7, <2>2
      <3>2. r * b \in Nat
        BY <1>1, SMTT(30)
      <3>3. q \in (r * b)..(r * b + r - 1)
        BY <1>1, <2>1, <3>2
      <3> QED
        BY <3>1, <3>3
    <2>4. ASSUME NEW l \in of, q \in conf[l].rxQueues PROVE l = u
      <3>1. PICK d \in 0..(t - 1) : Share(m, conf[l], c, d) /\ l = lc[t * c + d + 1]
        BY <1>6
      <3>2. q \in (r * d)..(r * d + r - 1)
        <4>1. conf[l].rxQueues = (r * d)..(r * d + r - 1)
          BY <1>4, <3>1
        <4> QED
          BY <2>4, <4>1, Zenon
      <3>3. r * d \in Nat
        BY <1>1, SMTT(30)
      <3>4. q - r * d \in 0..(r - 1) /\ q = r * d + (q - r * d)
        BY <1>1, <3>2, <3>3
      <3> DEFINE z == q - r * d
      <3>5. z \in 0..(r - 1) /\ r * b + y = r * d + z
        BY <2>1, <3>4
      <3> HIDE DEF z
      <3>6. b = d
        BY <1>1, <2>2, <3>5, DivUnique
      <3> QED
        BY <3>1, <3>6
    <2>5. {l \in of : q \in conf[l].rxQueues} = {u}
      <3> HIDE DEF u
      <3> QED
        BY <2>3, <2>4
    <2> QED
      BY <2>5, FS_Singleton
  <1>9. ASSUME NEW q \in 0..(t - 1)
        PROVE  Cardinality({l \in of : q = conf[l].txQueue}) = 1
    <2> DEFINE u == lc[t * c + q + 1]
    <2>1. u \in of /\ conf[u].txQueue = q
      BY <1>4, <1>7
    <2>2. ASSUME NEW l \in of, q = conf[l].txQueue PROVE l = u
      <3>1. PICK d \in 0..(t - 1) : Share(m, conf[l], c, d) /\ l = lc[t * c + d + 1]
        BY <1>6
      <3>2. d = q
        BY <1>4, <2>2, <3>1
      <3> QED
        BY <3>1, <3>2
    <2>3. {l \in of : q = conf[l].txQueue} = {u}
      <3> HIDE DEF u
      <3> QED
        BY <2>1, <2>2
    <2> QED
      BY <2>3, FS_Singleton
  <1>10. ASSUME NEW l \in of
         PROVE  /\ conf[l].rxQueues \subseteq 0..(r * t - 1)
                /\ conf[l].txQueue \in 0..(t - 1)
    <2>1. PICK b \in 0..(t - 1) : Share(m, conf[l], c, b)
      BY <1>6
    <2>2. conf[l].txQueue = b /\ conf[l].rxQueues = (r * b)..(r * b + r - 1)
      BY <1>4, <2>1
    <2>3. r * b \in Nat /\ r * (b + 1) = r * b + r /\ r * t \in Nat
      BY <1>1, SMTT(30)
    <2>4. r * (b + 1) <= r * t
      <3>1. b + 1 <= t
        BY <1>1
      <3> QED
        BY <1>1, <3>1, SMTT(30)
    <2>5. (r * b)..(r * b + r - 1) \subseteq 0..(r * t - 1)
      <3> SUFFICES ASSUME NEW q \in (r * b)..(r * b + r - 1)
                   PROVE  q \in 0..(r * t - 1)
        OBVIOUS
      <3> QED
        BY <1>1, <2>3, <2>4
    <2> QED
      BY <2>2, <2>5
  <1> QED
    BY <1>8, <1>9, <1>10 DEF of

-----------------------------------------------------------------------------
(* What init hands out stays as it is. *)

Configured ==
    /\ srvMachine \in Machines /\ cliMachine \in Machines
    /\ srvStatus = "run" => Counted(srvMachine) = "ok" /\ srvConf = lcore_conf(srvMachine)
    /\ cliStatus = "run" => Counted(cliMachine) = "ok" /\ cliConf = lcore_conf(cliMachine)

ServerStep(l) ==
    Poll(l) \/ TakeLatency(l) \/ ForwardPacket(l) \/ RecvNone(l) \/ Recv(l) \/ Generate(l)

LEMMA ConfiguredStep == Configured /\ [Next]_vars => Configured'
  <1> SUFFICES ASSUME Configured, [Next]_vars PROVE Configured'
    OBVIOUS
  <1> USE DEF Configured
  <1>0. \A m : Counted(m) # "run"
    BY DEF Counted
  <1>1. CASE StartServer
    BY <1>0, <1>1 DEF StartServer, SrvStart, cliVars, sentVars
  <1>2. CASE StartClient
    BY <1>0, <1>2 DEF StartClient, CliStart, srvVars
  <1>3. CASE Request
    <2>1. /\ UNCHANGED <<srvMachine, srvStatus, srvConf>>
          /\ UNCHANGED <<cliMachine, cliConf>> /\ cliStatus' \in {cliStatus, "no packet buffer"}
      BY <1>3 DEF Request, SendRequest, CountSent, SendFails, srvVars, runVars
    <2> QED
      BY <2>1
  <1>4. ASSUME NEW l \in Lcores, ServerLcore(l) PROVE Configured'
    <2>1. CASE ServerStep(l) /\ UNCHANGED cliVars
      <3>1. /\ UNCHANGED <<srvMachine, srvConf>> /\ UNCHANGED <<cliMachine, cliConf, cliStatus>>
            /\ srvStatus' \in {srvStatus, "send failed", "no packet buffer"}
        BY <2>1 DEF ServerStep, Poll, TakeLatency, ForwardPacket, RecvNone, Recv, Generate,
           loopVars, cliVars
      <3> QED
        BY <3>1
    <2>2. CASE Reply(l)
      BY <2>2 DEF Reply, Transmit, loopVars, runVars
    <2> QED
      BY <1>4, <2>1, <2>2 DEF ServerLcore, ServerStep
  <1>5. CASE Disk
    BY <1>5 DEF Disk, Answer, loopVars, cliVars
  <1>6. CASE Receive
    BY <1>6 DEF Receive, RecvReplies, PrintLatencies, runVars, srvVars
  <1>7. CASE UNCHANGED vars
    BY <1>7 DEF vars, srvVars, cliVars
  <1> QED
    BY <1>1, <1>2, <1>3, <1>4, <1>5, <1>6, <1>7 DEF Next

LEMMA MachinesOK == \A m \in Machines : MachineOK(m)
  <1> SUFFICES ASSUME NEW m \in Machines PROVE MachineOK(m)
    OBVIOUS
  <1>1. MaxLcores \in Nat /\ IsFiniteSet(0..(MaxLcores - 1))
    BY SetupAssumption, FS_Interval
  <1>2. IsFiniteSet(m.lcores) /\ m.lcores \subseteq Int
    BY <1>1, MachinesAssumption, FS_Subset DEF Lcores
  <1>3. enabled_ports(m) \subseteq UNION {k.found : k \in Machines}
    BY DEF enabled_ports
  <1>4. IsFiniteSet(enabled_ports(m)) /\ enabled_ports(m) \subseteq Int
    BY <1>3, MachinesAssumption, FS_Subset
  <1> QED
    BY <1>2, <1>4 DEF MachineOK

\* Whatever machine a host runs on, if init lets it run then every receive and
\* every transmit queue of every port is handed to exactly one lcore, and no
\* lcore is given a queue its port was not set up with: the loop over the lcores
\* agrees with the divisions (client_code/util.h:385-444).
THEOREM QueuesAreSharedOut == Spec => []QueuesPolledOnce
  <1>1. Init => Configured
    BY DEF Init, SrvInit, CliInit, Configured
  <1>2. Configured /\ [Next]_vars => Configured'
    BY ConfiguredStep
  <1>3. Configured => QueuesPolledOnce
    BY MachinesOK, QueuesAreDealt DEF Configured, QueuesPolledOnce
  <1> QED
    BY <1>1, <1>2, <1>3, PTL DEF Spec

-----------------------------------------------------------------------------
(* Sets that are finite, and bags of requests. *)

LEMMA RequestsFinite == IsFiniteSet(Requests)
  <1> DEFINE A == 1..Len(Trace)  f == [r \in Requests |-> <<r.req, r.disk>>]
  <1>1. IsFiniteSet(A) /\ IsFiniteSet(TraceDisks)
    BY ClientAssumption, FS_Interval
  <1>2. IsFiniteSet(A \X TraceDisks)
    BY <1>1, FS_Product
  <1>3. f \in Injection(Requests, A \X TraceDisks)
    <2>1. f \in [Requests -> A \X TraceDisks]
      BY DEF Requests
    <2>2. ASSUME NEW a \in Requests, NEW b \in Requests, f[a] = f[b] PROVE a = b
      BY <2>2 DEF Requests
    <2> HIDE DEF f
    <2> QED
      BY <2>1, <2>2 DEF Injection, IsInjective
  <1> QED
    BY <1>2, <1>3, FS_Injection

RingPorts == (UNION {m.found : m \in Machines}) \cup {ServerPort[d] : d \in TraceDisks}

LEMMA RingPortsFinite == IsFiniteSet(RingPorts)
  <1> DEFINE A == UNION {m.found : m \in Machines}
             B == {ServerPort[d] : d \in TraceDisks}  f == [d \in TraceDisks |-> ServerPort[d]]
  <1>1. f \in Surjection(TraceDisks, B)
    BY DEF Surjection
  <1>2. IsFiniteSet(B)
    BY <1>1, ClientAssumption, FS_Surjection
  <1>3. IsFiniteSet(A) /\ RingPorts = A \cup B
    BY MachinesAssumption, Zenon DEF RingPorts
  <1> HIDE DEF A, B
  <1> QED
    BY <1>2, <1>3, FS_Union

\* A bag of requests, and how many copies it has of one.
BagOK(B) == IsABag(B) /\ DOMAIN B \subseteq Requests
Copies(B) == [q \in Requests |-> IF q \in DOMAIN B THEN B[q] ELSE 0]

LEMMA BagPut ==
  ASSUME NEW B, BagOK(B), NEW p \in Requests, NEW C, C = B (+) SetToBag({p})
  PROVE  BagOK(C) /\ \A q \in Requests : Copies(C)[q] = Copies(B)[q] + (IF q = p THEN 1 ELSE 0)
  <1> DEFINE at(q) == (IF q \in DOMAIN B THEN B[q] ELSE 0) + (IF q = p THEN 1 ELSE 0)
  <1>1. \A q \in DOMAIN B : B[q] \in Nat /\ B[q] > 0
    BY DEF BagOK, IsABag
  <1>2. DOMAIN C = DOMAIN B \cup {p}
    BY DEF (+), SetToBag
  <1>3. \A q \in DOMAIN C : C[q] = at(q)
    BY <1>1 DEF (+), SetToBag
  <1>4. C = [q \in DOMAIN C |-> C[q]]
    BY DEF (+), SetToBag
  <1>5. \A q \in DOMAIN C : C[q] \in Nat /\ C[q] > 0
    BY <1>1, <1>2, <1>3
  <1>6. BagOK(C)
    BY <1>2, <1>4, <1>5 DEF BagOK, IsABag
  <1>7. \A q \in Requests : Copies(C)[q] = at(q)
    BY <1>2, <1>3 DEF Copies
  <1>8. \A q \in Requests : at(q) = Copies(B)[q] + (IF q = p THEN 1 ELSE 0)
    BY DEF Copies
  <1> HIDE DEF at
  <1> QED
    BY <1>6, <1>7, <1>8

LEMMA BagTake ==
  ASSUME NEW B, BagOK(B), NEW b \in PartsOf(B), NEW C, C = B (-) b
  PROVE  /\ BagOK(b) /\ BagOK(C) /\ C \sqsubseteq B
         /\ \A q \in Requests : Copies(B)[q] = Copies(C)[q] + Copies(b)[q]
  <1>1. \A q \in DOMAIN B : B[q] \in Nat /\ B[q] > 0
    BY DEF BagOK, IsABag
  <1>2. PICK n \in [DOMAIN B -> 0..CliBurst] :
            /\ \A q \in DOMAIN B : n[q] <= B[q]
            /\ b = [q \in {r \in DOMAIN B : n[r] > 0} |-> n[q]]
    BY DEF PartsOf
  <1>3. /\ DOMAIN b = {r \in DOMAIN B : n[r] > 0} /\ b = [q \in DOMAIN b |-> b[q]]
        /\ \A q \in DOMAIN b : b[q] = n[q]
    BY <1>2
  <1>4. \A q \in DOMAIN B : n[q] \in Nat
    BY <1>2, ClientAssumption
  <1>5. \A q \in DOMAIN b : b[q] \in Nat /\ b[q] > 0
    BY <1>3, <1>4
  <1>6. BagOK(b)
    BY <1>3, <1>5 DEF BagOK, IsABag
  <1> DEFINE left(q) == IF q \in DOMAIN b THEN B[q] - b[q] ELSE B[q]
  <1>7. DOMAIN C = {q \in DOMAIN B : left(q) > 0}
    BY DEF (-)
  <1>8. C = [q \in DOMAIN C |-> C[q]] /\ \A q \in DOMAIN C : C[q] = left(q)
    BY DEF (-)
  <1>9. \A q \in DOMAIN B : left(q) \in Nat /\ left(q) <= B[q] /\ left(q) = B[q] - n[q]
    BY <1>1, <1>2, <1>3, <1>4
  <1> HIDE DEF left
  <1>10. DOMAIN C \subseteq DOMAIN B /\ \A q \in DOMAIN C : C[q] \in Nat /\ C[q] > 0 /\ C[q] <= B[q]
    BY <1>7, <1>8, <1>9
  <1>11. BagOK(C) /\ C \sqsubseteq B
    BY <1>8, <1>10 DEF BagOK, IsABag, \sqsubseteq
  <1>12. ASSUME NEW q \in Requests PROVE Copies(B)[q] = Copies(C)[q] + Copies(b)[q]
    <2>1. CASE q \notin DOMAIN B
      BY <1>3, <1>10, <2>1 DEF Copies
    <2>2. CASE q \in DOMAIN B
      <3>1. Copies(B)[q] = B[q]
        BY <2>2 DEF Copies
      <3>2. Copies(C)[q] = left(q)
        BY <1>7, <1>8, <1>9, <2>2 DEF Copies
      <3>3. Copies(b)[q] = n[q]
        BY <1>3, <1>4, <2>2 DEF Copies
      <3> QED
        BY <1>1, <1>4, <1>9, <2>2, <3>1, <3>2, <3>3
    <2> QED
      BY <2>1, <2>2
  <1> QED
    BY <1>6, <1>11, <1>12

\* How many there are in the bag.
LEMMA BagSize ==
  ASSUME NEW B, BagOK(B)
  PROVE  /\ SumFunction(B) = SumFunctionOnSet(Copies(B), Requests)
         /\ SumFunction(B) \in Nat
         /\ Copies(B) \in [Requests -> Nat]
  <1>1. \A q \in DOMAIN B : B[q] \in Nat /\ B[q] > 0
    BY DEF BagOK, IsABag
  <1>2. /\ \A q \in Requests : Copies(B)[q] \in Nat
        /\ \A q \in DOMAIN B : B[q] = Copies(B)[q]
        /\ \A q \in Requests \ DOMAIN B : Copies(B)[q] = 0
    BY <1>1 DEF Copies, BagOK
  <1>3. SumFunctionOnSet(B, DOMAIN B) = SumFunctionOnSet(Copies(B), Requests)
    <2>1. DOMAIN B \in SUBSET Requests /\ \A q \in Requests : Copies(B)[q] \in Int
      BY <1>2 DEF BagOK
    <2> QED
      BY <1>2, <2>1, RequestsFinite, SumWithin
  <1>4. SumFunctionOnSet(Copies(B), Requests) \in Nat
    BY <1>2, RequestsFinite, SumNat
  <1>5. Copies(B) \in [Requests -> Nat]
    <2>1. Copies(B) = [q \in Requests |-> Copies(B)[q]]
      BY DEF Copies
    <2> QED
      BY <1>2, <2>1
  <1> QED
    BY <1>3, <1>4, <1>5 DEF SumFunction

LEMMA BagSizePut ==
  ASSUME NEW B, BagOK(B), NEW p \in Requests, NEW C, C = B (+) SetToBag({p})
  PROVE  SumFunction(C) = SumFunction(B) + 1
  <1>1. BagOK(C) /\ \A q \in Requests : Copies(C)[q] = Copies(B)[q] + (IF q = p THEN 1 ELSE 0)
    BY BagPut
  <1>2. /\ Copies(C) \in [Requests -> Nat] /\ Copies(B) \in [Requests -> Nat]
        /\ SumFunction(B) = SumFunctionOnSet(Copies(B), Requests)
        /\ SumFunction(C) = SumFunctionOnSet(Copies(C), Requests)
    BY <1>1, BagSize
  <1> DEFINE f == Copies(B)  h == Copies(C)
  <1>3. f \in [Requests -> Int] /\ h \in [Requests -> Int]
    BY <1>2
  <1>4. \A q \in Requests \ {p} : h[q] = f[q]
    BY <1>1, <1>2
  <1>5. h[p] = f[p] + 1 /\ f[p] \in Int
    BY <1>1, <1>3
  <1> HIDE DEF f, h
  <1>6. /\ SumFunctionOnSet(f, Requests) \in Int
        /\ SumFunctionOnSet(h, Requests) = SumFunctionOnSet(f, Requests) - f[p] + h[p]
    BY <1>3, <1>4, RequestsFinite, SumExcept
  <1>7. SumFunctionOnSet(h, Requests) = SumFunctionOnSet(f, Requests) + 1
    BY <1>5, <1>6
  <1> QED
    BY <1>2, <1>7 DEF f, h

LEMMA BagSizeTake ==
  ASSUME NEW B, BagOK(B), NEW b \in PartsOf(B), NEW C, C = B (-) b
  PROVE  SumFunction(B) = SumFunction(C) + SumFunction(b)
  <1>1. BagOK(b) /\ BagOK(C) /\ \A q \in Requests : Copies(B)[q] = Copies(C)[q] + Copies(b)[q]
    BY BagTake
  <1>2. /\ SumFunction(B) = SumFunctionOnSet(Copies(B), Requests)
        /\ SumFunction(C) = SumFunctionOnSet(Copies(C), Requests)
        /\ SumFunction(b) = SumFunctionOnSet(Copies(b), Requests)
        /\ Copies(C) \in [Requests -> Nat] /\ Copies(b) \in [Requests -> Nat]
    BY <1>1, BagSize
  <1> DEFINE f == Copies(B)  g == Copies(C)  h == Copies(b)
  <1>3. /\ \A q \in Requests : g[q] \in Int
        /\ \A q \in Requests : h[q] \in Int
        /\ \A q \in Requests : f[q] = g[q] + h[q]
    BY <1>1, <1>2
  <1> HIDE DEF f, g, h
  <1>4. SumFunctionOnSet(f, Requests) = SumFunctionOnSet(g, Requests) + SumFunctionOnSet(h, Requests)
    BY <1>3, RequestsFinite, SumAdd
  <1> QED
    BY <1>2, <1>4 DEF f, g, h

-----------------------------------------------------------------------------
(* Types.  An lcore that is about to copy the shared buffer finds one packet *)
(* in it, and one that is about to send has one.                             *)

AtSocket == {"recv", "generate", "send"}
Steps == ({"poll", "packet", "forward"} \X {0}) \cup (AtSocket \X (1..Cardinality(Disks)))
ToDisks == {p \in Requests : p.disk \in Disks}

ServerTypes ==
    /\ srvRing \in [RingPorts -> SUBSET Requests]
    /\ srvPc \in [Lcores -> Steps]
    /\ srvBatch \in [Lcores -> SUBSET Requests]
    /\ srvSlot \in [Lcores -> Nat] /\ srvRecv \in Nat
    /\ srvBuffer \in SUBSET Requests
    /\ srvMbuf \in [Lcores -> SUBSET Requests]
    /\ toDisk \in SUBSET ToDisks
    /\ socket \in [Disks -> SUBSET Requests]
    /\ lost \in Nat

ClientTypes ==
    /\ req_num \in Nat /\ reply_num \in Nat /\ pkt_sent \in Nat /\ pkt_recv \in Nat
    /\ counting \in BOOLEAN
    /\ BagOK(toClient)

OnePacket(S) == \E p \in Requests : S = {p}

PacketsHeld ==
    \A l \in Lcores : /\ srvPc[l][1] = "generate" => OnePacket(srvBuffer)
                      /\ srvPc[l][1] = "send" => OnePacket(srvMbuf[l])

HostsTypes == Configured /\ ServerTypes /\ ClientTypes /\ PacketsHeld

LEMMA SocketOrder ==
  /\ Len(Sockets) = Cardinality(Disks) /\ Cardinality(Disks) \in Nat \ {0}
  /\ \A i \in 1..Cardinality(Disks) : Sockets[i] \in Disks
  <1>1. /\ Cardinality(Disks) \in Nat
        /\ Sockets \in [1..Cardinality(Disks) -> Disks]
    BY ServerAssumption, AscendingExists, FS_CardinalityType DEF Sockets
  <1>2. Cardinality(Disks) # 0
    BY ServerAssumption, FS_EmptySet
  <1> QED
    BY <1>1, <1>2

LEMMA NextPlaces ==
  /\ AfterPoll \in Steps
  /\ \A i \in 1..Cardinality(Disks) :
        /\ AfterSocket(i) \in Steps /\ AfterSocket(i)[1] \in {"recv", "poll"}
        /\ <<"generate", i>> \in Steps /\ <<"send", i>> \in Steps
  /\ <<"packet", 0>> \in Steps /\ <<"forward", 0>> \in Steps
  BY SocketOrder DEF AfterPoll, AfterSocket, Steps, AtSocket

LEMMA PlaceIs ==
  ASSUME NEW s \in Steps
  PROVE  s[1] \in AtSocket => s[2] \in 1..Cardinality(Disks)
  BY DEF Steps, AtSocket

\* The port a running lcore polls has a ring.
LEMMA PortKnown ==
  ASSUME Configured, NEW l, Running(l) PROVE srvConf[l].port \in RingPorts
  <1> DEFINE m == srvMachine
  <1>1. m \in Machines /\ MachineOK(m) /\ Counted(m) = "ok" /\ srvConf = lcore_conf(m)
        /\ l \in m.lcores
    BY MachinesOK DEF Configured, Running
  <1> HIDE DEF m
  <1>2. PICK a \in 0..(NPorts(m) - 1), b \in 0..(PerPort(m) - 1) :
            Share(m, lcore_conf(m)[l], a, b)
    BY <1>1, SharesMatch
  <1>3. NPorts(m) \in Nat /\ \A i \in 1..NPorts(m) : Ascending(enabled_ports(m))[i] \in enabled_ports(m)
    BY <1>1, AscendingLists DEF MachineOK, NPorts
  <1>4. a + 1 \in 1..NPorts(m)
    BY <1>3
  <1>5. srvConf[l].port \in enabled_ports(m)
    BY <1>1, <1>2, <1>3, <1>4 DEF Share
  <1> QED
    BY <1>1, <1>5 DEF enabled_ports, RingPorts

LEMMA PolledAre ==
  ASSUME Configured, ServerTypes, NEW l, Running(l), NEW q \in Polled(l)
  PROVE  q \in Requests
  BY PortKnown DEF Polled, ServerTypes

LEMMA TypesInit == Init => HostsTypes
  <1> SUFFICES ASSUME Init PROVE HostsTypes
    OBVIOUS
  <1>1. Configured
    BY DEF Init, SrvInit, CliInit, Configured
  <1>2. ServerTypes
    BY DEF Init, SrvInit, ServerTypes, RingPorts, Steps
  <1>3. BagOK(EmptyBag)
    BY DEF BagOK, EmptyBag, IsABag, SetToBag
  <1>4. ClientTypes
    BY <1>3, ClientAssumption DEF Init, CliInit, ClientTypes
  <1>5. PacketsHeld
    BY DEF Init, SrvInit, PacketsHeld
  <1> QED
    BY <1>1, <1>2, <1>4, <1>5 DEF HostsTypes

LEMMA CountersAre ==
  ASSUME ServerTypes, NEW l \in Lcores, NEW i \in Counters(l) PROVE i \in Nat
  BY DEF Counters, ServerTypes

LEMMA ServerTypesStep == HostsTypes /\ [Next]_vars => ServerTypes'
  <1> SUFFICES ASSUME HostsTypes, [Next]_vars PROVE ServerTypes'
    OBVIOUS
  <1>0. Configured /\ ServerTypes /\ PacketsHeld
    BY DEF HostsTypes
  <1>1. CASE StartServer \/ StartClient \/ Receive \/ UNCHANGED vars
    <2>1. UNCHANGED <<srvRing, srvPc, srvBatch, srvSlot, srvRecv, srvBuffer, srvMbuf,
                      toDisk, socket, lost>>
      BY <1>1 DEF StartServer, StartClient, Receive, SrvStart, vars, srvVars
    <2> QED
      BY <1>0, <2>1 DEF ServerTypes
  <1>2. CASE Request
    <2>1. UNCHANGED <<srvPc, srvBatch, srvSlot, srvRecv, srvBuffer, srvMbuf, toDisk, socket>>
      BY <1>2 DEF Request, srvVars
    <2>2. lost' \in {lost, lost + 1} /\ (srvRing' = srvRing \/ \E p \in Requests :
              srvRing' = [srvRing EXCEPT ![ServerPort[p.disk]] = @ \cup {p}])
      BY <1>2 DEF Request, srvVars
    <2>3. srvRing' \in [RingPorts -> SUBSET Requests]
      BY <1>0, <2>2 DEF ServerTypes
    <2>4. lost' \in Nat
      BY <1>0, <2>2 DEF ServerTypes
    <2> QED
      BY <1>0, <2>1, <2>3, <2>4 DEF ServerTypes
  <1>3. ASSUME NEW l \in Lcores, ServerLcore(l) PROVE ServerTypes'
    <2>0. srvPc[l] \in Steps
      BY <1>0 DEF ServerTypes
    <2>p. srvPc[l][1] \in AtSocket => srvPc[l][2] \in 1..Cardinality(Disks)
      BY <2>0, PlaceIs
    <2>1. CASE Poll(l)
      <3>1. PICK burst \in SUBSET Polled(l) :
                /\ srvBatch' = [srvBatch EXCEPT ![l] = burst]
                /\ srvRing' = [srvRing EXCEPT ![srvConf[l].port] = @ \ burst]
                /\ srvPc' = [srvPc EXCEPT ![l] = IF burst = {} THEN AfterPoll ELSE <<"packet", 0>>]
        BY <2>1 DEF Poll, Goto
      <3>2. burst \subseteq Requests
        BY <1>0, <2>1, PolledAre DEF Poll
      <3>3. srvBatch' \in [Lcores -> SUBSET Requests]
        BY <1>0, <3>1, <3>2 DEF ServerTypes
      <3>4. srvRing' \in [RingPorts -> SUBSET Requests]
        BY <1>0, <3>1 DEF ServerTypes
      <3>5. srvPc' \in [Lcores -> Steps]
        BY <1>0, <3>1, NextPlaces DEF ServerTypes
      <3>6. UNCHANGED <<srvSlot, srvRecv, srvBuffer, srvMbuf, toDisk, socket, lost>>
        BY <2>1 DEF Poll
      <3> QED
        BY <1>0, <3>3, <3>4, <3>5, <3>6 DEF ServerTypes
    <2>2. CASE TakeLatency(l)
      BY <1>0, <2>2, NextPlaces DEF TakeLatency, Goto, ServerTypes
    <2>3. CASE ForwardPacket(l)
      <3>1. srvRecv' \in Nat
        BY <1>0, <2>3, CountersAre DEF ForwardPacket
      <3>2. PICK p \in srvBatch[l] :
                \/ /\ toDisk' = IF p.disk \in Disks THEN toDisk \cup {p} ELSE toDisk
                   /\ srvBatch' = [srvBatch EXCEPT ![l] = @ \ {p}]
                   /\ srvPc' = [srvPc EXCEPT ![l] = IF srvBatch[l] = {p} THEN AfterPoll
                                                                         ELSE <<"packet", 0>>]
                \/ UNCHANGED <<toDisk, srvBatch, srvPc>>
        BY <2>3 DEF ForwardPacket, Goto
      <3>3. toDisk' \in SUBSET ToDisks
        BY <1>0, <3>2 DEF ServerTypes, ToDisks
      <3>4. srvBatch' \in [Lcores -> SUBSET Requests]
        BY <1>0, <3>2 DEF ServerTypes
      <3>5. srvPc' \in [Lcores -> Steps]
        BY <1>0, <3>2, NextPlaces DEF ServerTypes
      <3>6. UNCHANGED <<srvRing, srvSlot, srvBuffer, srvMbuf, socket, lost>>
        BY <2>3 DEF ForwardPacket
      <3> QED
        BY <1>0, <3>1, <3>3, <3>4, <3>5, <3>6 DEF ServerTypes
    <2>4. CASE RecvNone(l)
      <3>1. srvPc[l][2] \in 1..Cardinality(Disks)
        BY <2>4, <2>p DEF RecvNone, AtSocket
      <3> QED
        BY <1>0, <2>4, <3>1, NextPlaces DEF RecvNone, Goto, ServerTypes
    <2>5. CASE Recv(l)
      <3> DEFINE i == srvPc[l][2]  d == Sockets[i]
      <3>1. i \in 1..Cardinality(Disks) /\ d \in Disks
        BY <2>5, <2>p, SocketOrder DEF Recv, AtSocket
      <3> HIDE DEF d
      <3>2. PICK p \in socket[d] :
                /\ socket' = [socket EXCEPT ![d] = @ \ {p}]
                /\ srvBuffer' = {p}
                /\ \/ srvPc' = [srvPc EXCEPT ![l] = <<"generate", i>>] /\ lost' = lost
                   \/ srvPc' = [srvPc EXCEPT ![l] = AfterSocket(i)] /\ lost' = lost + 1
        BY <2>5 DEF Recv, Goto, d
      <3> HIDE DEF i
      <3>3. socket' \in [Disks -> SUBSET Requests] /\ srvBuffer' \in SUBSET Requests
        BY <1>0, <3>1, <3>2 DEF ServerTypes
      <3>4. srvPc' \in [Lcores -> Steps]
        BY <1>0, <3>1, <3>2, NextPlaces DEF ServerTypes
      <3>5. lost' \in Nat
        BY <1>0, <3>2 DEF ServerTypes
      <3>6. UNCHANGED <<srvRing, srvBatch, srvSlot, srvRecv, srvMbuf, toDisk>>
        BY <2>5 DEF Recv
      <3> QED
        BY <1>0, <3>3, <3>4, <3>5, <3>6 DEF ServerTypes
    <2>6. CASE Generate(l)
      <3>1. srvPc[l][2] \in 1..Cardinality(Disks)
        BY <2>6, <2>p DEF Generate, AtSocket
      <3> QED
        BY <1>0, <2>6, <3>1, NextPlaces DEF Generate, Goto, ServerTypes
    <2>7. CASE Reply(l)
      <3>1. PICK sent \in Bursts(l) : Transmit(l, sent)
        BY <2>7 DEF Reply
      <3>2. srvPc[l][2] \in 1..Cardinality(Disks)
        BY <3>1, <2>p DEF Transmit, AtSocket
      <3>3. srvPc' \in [Lcores -> Steps]
        BY <1>0, <3>1, <3>2, NextPlaces DEF Transmit, Goto, ServerTypes
      <3>4. srvMbuf' \in [Lcores -> SUBSET Requests] /\ lost' \in Nat
        BY <1>0, <3>1 DEF Transmit, ServerTypes
      <3>5. UNCHANGED <<srvRing, srvBatch, srvSlot, srvRecv, srvBuffer, toDisk, socket>>
        BY <3>1 DEF Transmit
      <3> QED
        BY <1>0, <3>3, <3>4, <3>5 DEF ServerTypes
    <2> QED
      BY <1>3, <2>1, <2>2, <2>3, <2>4, <2>5, <2>6, <2>7 DEF ServerLcore
  <1>4. CASE Disk
    <2>1. PICK p \in Requests : Answer(p)
      BY <1>4 DEF Disk
    <2>2. toDisk' \in SUBSET ToDisks /\ p.disk \in Disks
      BY <1>0, <2>1 DEF Answer, ServerTypes, ToDisks
    <2>3. socket' \in [Disks -> SUBSET Requests]
      BY <1>0, <2>1, <2>2 DEF Answer, ServerTypes
    <2>4. UNCHANGED <<srvRing, srvPc, srvBatch, srvSlot, srvRecv, srvBuffer, srvMbuf, lost>>
      BY <2>1 DEF Answer
    <2> QED
      BY <1>0, <2>2, <2>3, <2>4 DEF ServerTypes
  <1> QED
    BY <1>1, <1>2, <1>3, <1>4 DEF Next

LEMMA ClientTypesStep == HostsTypes /\ [Next]_vars => ClientTypes'
  <1> SUFFICES ASSUME HostsTypes, [Next]_vars PROVE ClientTypes'
    OBVIOUS
  <1>0. ClientTypes /\ ServerTypes /\ PacketsHeld
    BY DEF HostsTypes
  <1>1. CASE StartServer \/ StartClient \/ Disk \/ UNCHANGED vars
    <2>1. UNCHANGED <<req_num, reply_num, pkt_sent, counting, pkt_recv, toClient>>
      BY <1>1 DEF StartServer, StartClient, Disk, CliStart, vars, cliVars, sentVars
    <2> QED
      BY <1>0, <2>1 DEF ClientTypes
  <1>2. CASE Request
    <2>1. /\ UNCHANGED <<req_num, reply_num, pkt_recv, toClient>>
          /\ pkt_sent' = pkt_sent \/ pkt_sent' = pkt_sent + 1
          /\ counting' = counting \/ counting' = TRUE \/ counting' = FALSE
      BY <1>2 DEF Request, SendRequest, CountSent, SendFails, runVars, sentVars
    <2>2. pkt_sent' \in Nat /\ req_num' \in Nat /\ reply_num' \in Nat /\ pkt_recv' \in Nat
      BY <1>0, <2>1 DEF ClientTypes
    <2>3. counting' \in BOOLEAN /\ BagOK(toClient')
      BY <1>0, <2>1 DEF ClientTypes
    <2> QED
      BY <2>2, <2>3 DEF ClientTypes, BagOK
  <1>3. ASSUME NEW l \in Lcores, ServerLcore(l) PROVE ClientTypes'
    <2>1. CASE UNCHANGED cliVars
      BY <1>0, <2>1 DEF cliVars, sentVars, ClientTypes
    <2>2. CASE Reply(l)
      <3>1. PICK sent \in Bursts(l) : Transmit(l, sent) /\ toClient' = toClient (+) sent
        BY <2>2 DEF Reply
      <3>2. UNCHANGED <<req_num, reply_num, pkt_sent, counting, pkt_recv>>
        BY <2>2 DEF Reply, runVars, sentVars
      <3>3. CASE sent = SetToBag(srvMbuf[l])
        <4>1. PICK p \in Requests : srvMbuf[l] = {p}
          BY <1>0, <3>1 DEF PacketsHeld, Transmit, OnePacket
        <4>2. BagOK(toClient')
          BY <1>0, <3>1, <3>3, <4>1, BagPut DEF ClientTypes
        <4> QED
          BY <1>0, <3>2, <4>2 DEF ClientTypes
      <3>4. CASE sent = EmptyBag
        <4>1. toClient' = toClient
          BY <1>0, <3>1, <3>4 DEF ClientTypes, BagOK, IsABag, (+), EmptyBag, SetToBag
        <4> QED
          BY <1>0, <3>2, <4>1 DEF ClientTypes
      <3> QED
        BY <3>1, <3>3, <3>4 DEF Bursts
    <2> QED
      BY <1>3, <2>1, <2>2 DEF ServerLcore
  <1>4. CASE Receive
    <2>1. CASE RecvReplies
      <3>1. PICK burst \in PartsOf(toClient) :
                toClient' = toClient (-) burst /\ pkt_recv' = pkt_recv + SumFunction(burst)
        BY <2>1 DEF RecvReplies
      <3>2. UNCHANGED <<req_num, reply_num, pkt_sent, counting>>
        BY <2>1 DEF RecvReplies, runVars, sentVars
      <3>3. BagOK(toClient') /\ BagOK(burst)
        BY <1>0, <3>1, BagTake DEF ClientTypes
      <3>4. SumFunction(burst) \in Nat
        BY <3>3, BagSize
      <3> QED
        BY <1>0, <3>1, <3>2, <3>3, <3>4 DEF ClientTypes
    <2>2. CASE PrintLatencies
      BY <1>0, <2>2 DEF PrintLatencies, runVars, sentVars, ClientTypes
    <2> QED
      BY <1>4, <2>1, <2>2 DEF Receive
  <1> QED
    BY <1>1, <1>2, <1>3, <1>4 DEF Next

LEMMA HeldStep == HostsTypes /\ [Next]_vars => PacketsHeld'
  <1> SUFFICES ASSUME HostsTypes, [Next]_vars PROVE PacketsHeld'
    OBVIOUS
  <1>0. PacketsHeld /\ ServerTypes
    BY DEF HostsTypes
  <1>1. CASE UNCHANGED <<srvPc, srvBuffer, srvMbuf>>
    BY <1>0, <1>1 DEF PacketsHeld
  <1>2. ASSUME NEW l \in Lcores, ServerLcore(l) PROVE PacketsHeld'
    <2>0. srvPc \in [Lcores -> Steps] /\ srvMbuf \in [Lcores -> SUBSET Requests]
          /\ socket \in [Disks -> SUBSET Requests]
      BY <1>0 DEF ServerTypes
    <2>p. srvPc[l][1] \in AtSocket => srvPc[l][2] \in 1..Cardinality(Disks)
      BY <2>0, PlaceIs
    <2>q. /\ AfterPoll[1] = "recv"
          /\ \A i \in 1..Cardinality(Disks) : AfterSocket(i)[1] \in {"recv", "poll"}
      BY NextPlaces DEF AfterPoll
    <2>1. CASE Poll(l) \/ TakeLatency(l) \/ ForwardPacket(l) \/ RecvNone(l)
      <3>1. UNCHANGED <<srvBuffer, srvMbuf>> /\ \A k \in Lcores \ {l} : srvPc'[k] = srvPc[k]
        BY <2>0, <2>1 DEF Poll, TakeLatency, ForwardPacket, RecvNone, Goto
      <3>2. srvPc'[l][1] \notin {"generate", "send"}
        <4>1. CASE Poll(l)
          BY <2>0, <2>q, <4>1 DEF Poll, Goto
        <4>2. CASE TakeLatency(l)
          BY <2>0, <4>2 DEF TakeLatency, Goto
        <4>3. CASE ForwardPacket(l)
          <5>1. \/ srvPc' = [srvPc EXCEPT ![l] = AfterPoll]
                \/ srvPc' = [srvPc EXCEPT ![l] = <<"packet", 0>>]
                \/ srvPc' = srvPc /\ srvPc[l][1] = "forward"
            BY <4>3 DEF ForwardPacket, Goto
          <5> QED
            BY <2>0, <2>q, <5>1
        <4>4. CASE RecvNone(l)
          BY <2>0, <2>p, <2>q, <4>4 DEF RecvNone, Goto, AtSocket
        <4> QED
          BY <2>1, <4>1, <4>2, <4>3, <4>4
      <3> QED
        BY <1>0, <3>1, <3>2 DEF PacketsHeld
    <2>2. CASE Recv(l)
      <3> DEFINE i == srvPc[l][2]  d == Sockets[i]
      <3>1. i \in 1..Cardinality(Disks) /\ d \in Disks
        BY <2>2, <2>p, SocketOrder DEF Recv, AtSocket
      <3>2. /\ \E p \in socket[d] : srvBuffer' = {p}
            /\ UNCHANGED srvMbuf
            /\ \A k \in Lcores \ {l} : srvPc'[k] = srvPc[k]
            /\ srvPc'[l] \in {<<"generate", i>>, AfterSocket(i)}
        BY <2>0, <2>2 DEF Recv, Goto
      <3>3. OnePacket(srvBuffer')
        BY <2>0, <3>1, <3>2 DEF OnePacket
      <3>4. srvPc'[l][1] # "send"
        BY <2>q, <3>1, <3>2
      <3> QED
        BY <1>0, <3>2, <3>3, <3>4 DEF PacketsHeld
    <2>3. CASE Generate(l)
      <3>1. \/ UNCHANGED <<srvPc, srvMbuf, srvBuffer>>
            \/ /\ UNCHANGED srvBuffer /\ srvMbuf'[l] = srvBuffer /\ srvPc'[l][1] = "send"
               /\ \A k \in Lcores \ {l} : srvPc'[k] = srvPc[k] /\ srvMbuf'[k] = srvMbuf[k]
        <4>1. CASE UNCHANGED <<srvMbuf, srvPc>>
          BY <2>3, <4>1 DEF Generate
        <4>2. CASE /\ srvMbuf' = [srvMbuf EXCEPT ![l] = srvBuffer]
                   /\ srvPc' = [srvPc EXCEPT ![l] = <<"send", srvPc[l][2]>>]
          <5>1. UNCHANGED srvBuffer
            BY <2>3 DEF Generate
          <5> QED
            BY <2>0, <4>2, <5>1
        <4> QED
          BY <2>3, <4>1, <4>2 DEF Generate, Goto
      <3>2. OnePacket(srvBuffer)
        BY <1>0, <2>3 DEF PacketsHeld, Generate
      <3> QED
        BY <1>0, <3>1, <3>2 DEF PacketsHeld
    <2>4. CASE Reply(l)
      <3>1. PICK sent \in Bursts(l) : Transmit(l, sent)
        BY <2>4 DEF Reply
      <3>2. srvPc[l][2] \in 1..Cardinality(Disks)
        BY <3>1, <2>p DEF Transmit, AtSocket
      <3>3. /\ UNCHANGED srvBuffer /\ srvPc'[l] = AfterSocket(srvPc[l][2])
            /\ \A k \in Lcores \ {l} : srvPc'[k] = srvPc[k] /\ srvMbuf'[k] = srvMbuf[k]
        BY <2>0, <3>1 DEF Transmit, Goto
      <3>4. srvPc'[l][1] \notin {"generate", "send"}
        BY <2>q, <3>2, <3>3
      <3> QED
        BY <1>0, <3>3, <3>4 DEF PacketsHeld
    <2> QED
      BY <1>2, <2>1, <2>2, <2>3, <2>4 DEF ServerLcore
  <1>3. CASE StartServer \/ StartClient \/ Receive \/ Disk \/ UNCHANGED vars \/ Request
    <2>1. UNCHANGED <<srvPc, srvBuffer, srvMbuf>>
      BY <1>3 DEF StartServer, StartClient, Receive, Disk, Answer, SrvStart, vars, srvVars, Request
    <2> QED
      BY <1>1, <2>1
  <1> QED
    BY <1>2, <1>3 DEF Next

\* The types of the state, and what an lcore finds where it goes on: one packet
\* in the buffer when it is about to copy it, one of its own when it is about
\* to send it (server_code/main.c:200-222).
THEOREM HostsTypesHold == Spec => []HostsTypes
  <1>1. HostsTypes /\ [Next]_vars => HostsTypes'
    BY ConfiguredStep, ServerTypesStep, ClientTypesStep, HeldStep DEF HostsTypes
  <1> QED
    BY <1>1, TypesInit, PTL DEF Spec

-----------------------------------------------------------------------------
(* The server as a faulty link.  The wire of the link holds as many copies   *)
(* of a packet as there are sockets it waits in and lcores that hold it.     *)

InSockets(q) == {d \in Disks : q \in socket[d]}
Holders(q) == {l \in Lcores : q \in Holding(l)}
Count == [q \in Requests |-> OnTheWay(q)]

Wire(n) == [q \in {r \in Requests : n[r] > 0} |-> n[q]]
LinkWire == [q \in {r \in Requests : OnTheWay(r) > 0} |-> OnTheWay(q)]

LEMMA LcoresFinite == IsFiniteSet(Lcores)
  BY SetupAssumption, FS_Interval DEF Lcores

LEMMA SizeNat ==
  /\ \A A \in SUBSET Disks : Cardinality(A) \in Nat
  /\ \A B \in SUBSET Lcores : Cardinality(B) \in Nat
  BY LcoresFinite, ServerAssumption, FS_Subset, FS_CardinalityType

LEMMA CountIs ==
  /\ LinkWire = Wire(Count) /\ Count \in [Requests -> Nat]
  /\ \A q \in Requests : Count[q] = Cardinality(InSockets(q)) + Cardinality(Holders(q))
  <1>1. \A q \in Requests : Count[q] = Cardinality(InSockets(q)) + Cardinality(Holders(q))
    BY DEF Count, OnTheWay, InSockets, Holders
  <1>2. \A q \in Requests : Cardinality(InSockets(q)) \in Nat /\ Cardinality(Holders(q)) \in Nat
    BY SizeNat DEF InSockets, Holders
  <1>3. Count \in [Requests -> Nat]
    <2>1. Count = [q \in Requests |-> Count[q]]
      BY DEF Count
    <2>2. \A q \in Requests : Count[q] \in Nat
      BY <1>1, <1>2
    <2> QED
      BY <2>1, <2>2
  <1>4. LinkWire = Wire(Count)
    BY DEF LinkWire, Wire, Count
  <1> QED
    BY <1>1, <1>3, <1>4

\* A set that changes in one place.
LEMMA OneChange ==
  ASSUME NEW S, IsFiniteSet(S), NEW A \in SUBSET S, NEW B \in SUBSET S, NEW k \in S,
         \A x \in S \ {k} : x \in A <=> x \in B
  PROVE  /\ Cardinality(A) \in Nat /\ Cardinality(B) \in Nat
         /\ (k \in A <=> k \in B) => Cardinality(B) = Cardinality(A)
         /\ k \in A /\ k \notin B => Cardinality(A) = Cardinality(B) + 1
         /\ k \notin A /\ k \in B => Cardinality(B) = Cardinality(A) + 1
  <1>1. IsFiniteSet(A) /\ IsFiniteSet(B) /\ Cardinality(A) \in Nat /\ Cardinality(B) \in Nat
    BY FS_Subset, FS_CardinalityType
  <1>2. (k \in A <=> k \in B) => A = B
    OBVIOUS
  <1>3. k \in A /\ k \notin B => B = A \ {k}
    OBVIOUS
  <1>4. k \notin A /\ k \in B => A = B \ {k}
    OBVIOUS
  <1>5. k \in A => Cardinality(A \ {k}) = Cardinality(A) - 1
    BY <1>1, FS_RemoveElement
  <1>6. k \in B => Cardinality(B \ {k}) = Cardinality(B) - 1
    BY <1>1, FS_RemoveElement
  <1> QED
    BY <1>1, <1>2, <1>3, <1>4, <1>5, <1>6

LEMMA WirePut ==
  ASSUME NEW n \in [Requests -> Nat], NEW k \in [Requests -> Nat], NEW p \in Requests,
         k[p] = n[p] + 1, \A q \in Requests \ {p} : k[q] = n[q]
  PROVE  Wire(k) = Wire(n) (+) SetToBag({p})
  <1> DEFINE A == {r \in Requests : n[r] > 0}  B == {r \in Requests : k[r] > 0}
             W == [q \in A |-> n[q]]  P == SetToBag({p})
  <1>1. B = A \cup {p}
    OBVIOUS
  <1>2. W (+) P = [q \in A \cup {p} |-> (IF q \in A THEN W[q] ELSE 0) + (IF q \in {p} THEN P[q] ELSE 0)]
    BY DEF (+), SetToBag
  <1>3. ASSUME NEW q \in A \cup {p}
        PROVE  k[q] = (IF q \in A THEN W[q] ELSE 0) + (IF q \in {p} THEN P[q] ELSE 0)
    BY DEF SetToBag
  <1>4. Wire(k) = [q \in B |-> k[q]] /\ Wire(n) = W
    BY DEF Wire
  <1> HIDE DEF A, B, W, P
  <1>5. [q \in B |-> k[q]] = W (+) P
    BY <1>1, <1>2, <1>3
  <1> QED
    BY <1>4, <1>5 DEF P

LEMMA WireTake ==
  ASSUME NEW n \in [Requests -> Nat], NEW k \in [Requests -> Nat], NEW p \in Requests,
         n[p] = k[p] + 1, \A q \in Requests \ {p} : k[q] = n[q]
  PROVE  BagIn(p, Wire(n)) /\ Wire(k) = Wire(n) (-) SetToBag({p})
  <1> DEFINE A == {r \in Requests : n[r] > 0}  B == {r \in Requests : k[r] > 0}
             W == [q \in A |-> n[q]]  P == SetToBag({p})
             V == [q \in A |-> IF q \in {p} THEN W[q] - P[q] ELSE W[q]]
  <1>1. B = {d \in A : V[d] > 0} /\ \A q \in B : k[q] = V[q]
    BY DEF SetToBag
  <1>2. W (-) P = [q \in {d \in A : V[d] > 0} |-> V[q]]
    BY DEF (-), SetToBag
  <1>3. p \in A
    OBVIOUS
  <1>4. Wire(k) = [q \in B |-> k[q]] /\ Wire(n) = W
    BY DEF Wire
  <1>5. BagIn(p, W)
    BY <1>3 DEF BagIn, BagToSet
  <1> HIDE DEF A, B, W, P, V
  <1>6. [q \in B |-> k[q]] = W (-) P
    BY <1>1, <1>2
  <1> QED
    BY <1>4, <1>5, <1>6 DEF P

LEMMA WireIn ==
  ASSUME NEW n \in [Requests -> Nat], NEW p \in Requests, n[p] > 0
  PROVE  BagIn(p, Wire(n))
  BY DEF Wire, BagIn, BagToSet

\* A step of the counts and a step of the link.
CountsAt(p, by) ==
    /\ Count'[p] = Count[p] + by
    /\ \A q \in Requests \ {p} : Count'[q] = Count[q]

LEMMA CountsPrimed ==
  /\ LinkWire' = Wire(Count') /\ Count' \in [Requests -> Nat]
  /\ \A q \in Requests : Count'[q] = Cardinality(InSockets(q)') + Cardinality(Holders(q)')
  <1>1. \A q \in Requests : Count'[q] = Cardinality(InSockets(q)') + Cardinality(Holders(q)')
    BY DEF Count, OnTheWay, InSockets, Holders
  <1>2. \A q \in Requests : Cardinality(InSockets(q)') \in Nat /\ Cardinality(Holders(q)') \in Nat
    BY SizeNat DEF InSockets, Holders
  <1>3. Count' \in [Requests -> Nat]
    <2>1. Count' = [q \in Requests |-> Count'[q]]
      BY DEF Count
    <2>2. \A q \in Requests : Count'[q] \in Nat
      BY <1>1, <1>2
    <2> QED
      BY <2>1, <2>2
  <1>4. LinkWire' = Wire(Count')
    BY DEF LinkWire, Wire, Count
  <1> QED
    BY <1>1, <1>3, <1>4

LEMMA StayStep ==
  ASSUME \A q \in Requests : Count'[q] = Count[q]
  PROVE  LinkWire' = LinkWire
  <1>1. Count' = Count
    BY CountIs, CountsPrimed
  <1> QED
    BY <1>1, CountIs, CountsPrimed

LEMMA EnterStep ==
  ASSUME NEW p \in Requests, CountsAt(p, 1) PROVE LinkWire' = LinkWire (+) SetToBag({p})
  BY CountIs, CountsPrimed, WirePut DEF CountsAt

LEMMA LeaveStep ==
  ASSUME NEW p \in Requests, CountsAt(p, -1)
  PROVE  BagIn(p, LinkWire) /\ LinkWire' = LinkWire (-) SetToBag({p})
  <1> DEFINE n == Count  k == Count'
  <1>1. n \in [Requests -> Nat] /\ k \in [Requests -> Nat]
    BY CountIs, CountsPrimed
  <1>2. n[p] = k[p] + 1 /\ \A q \in Requests \ {p} : k[q] = n[q]
    BY <1>1 DEF CountsAt
  <1>3. LinkWire = Wire(n) /\ LinkWire' = Wire(k)
    BY CountIs, CountsPrimed
  <1> HIDE DEF n, k
  <1> QED
    BY <1>1, <1>2, <1>3, WireTake

LEMMA ReplaceStep ==
  ASSUME NEW p \in Requests, NEW b \in Requests, p # b, Count[p] > 0,
         Count'[p] = Count[p] + 1, Count[b] = Count'[b] + 1,
         \A q \in Requests \ {p, b} : Count'[q] = Count[q]
  PROVE  /\ BagIn(p, LinkWire) /\ BagIn(b, LinkWire)
         /\ LinkWire' = (LinkWire (-) SetToBag({b})) (+) SetToBag({p})
  <1> DEFINE n == Count  k == Count'  m == [q \in Requests |-> IF q = b THEN k[b] ELSE n[q]]
  <1>1. n \in [Requests -> Nat] /\ k \in [Requests -> Nat]
    BY CountIs, CountsPrimed
  <1>2. m \in [Requests -> Nat] /\ n[b] = m[b] + 1 /\ \A q \in Requests \ {b} : m[q] = n[q]
    BY <1>1
  <1>3. k[p] = m[p] + 1 /\ \A q \in Requests \ {p} : k[q] = m[q]
    BY <1>1
  <1>4. LinkWire = Wire(n) /\ LinkWire' = Wire(k)
    BY CountIs, CountsPrimed
  <1> HIDE DEF m
  <1>5. BagIn(b, Wire(n)) /\ Wire(m) = Wire(n) (-) SetToBag({b})
    BY <1>1, <1>2, WireTake
  <1>6. Wire(k) = Wire(m) (+) SetToBag({p})
    BY <1>1, <1>2, <1>3, WirePut
  <1>7. BagIn(p, Wire(n))
    BY <1>1, WireIn
  <1> QED
    BY <1>4, <1>5, <1>6, <1>7

LEMMA HoldingsSame ==
  ASSUME UNCHANGED socket, \A k \in Lcores : Holding(k)' = Holding(k)
  PROVE  LinkWire' = LinkWire
  <1>1. ASSUME NEW q \in Requests PROVE Count'[q] = Count[q]
    <2>1. InSockets(q)' = InSockets(q)
      BY DEF InSockets
    <2>2. Holders(q)' = Holders(q)
      BY DEF Holders
    <2> QED
      BY <2>1, <2>2, CountIs, CountsPrimed
  <1> QED
    BY <1>1, StayStep

\* What an lcore holds does not depend on what another does, but for the buffer.
LEMMA OtherHolds ==
  ASSUME NEW k, srvPc'[k] = srvPc[k], srvMbuf'[k] = srvMbuf[k],
         srvBuffer' = srvBuffer \/ srvPc[k][1] # "generate"
  PROVE  Holding(k)' = Holding(k)
  BY DEF Holding

LEMMA IdleSteps ==
  ASSUME HostsTypes, NEW l \in Lcores,
         Poll(l) \/ TakeLatency(l) \/ ForwardPacket(l) \/ RecvNone(l) \/ Generate(l)
  PROVE  LinkWire' = LinkWire
  <1>0. srvPc \in [Lcores -> Steps] /\ srvMbuf \in [Lcores -> SUBSET Requests]
    BY DEF HostsTypes, ServerTypes
  <1>1. UNCHANGED <<socket, srvBuffer>>
    BY DEF Poll, TakeLatency, ForwardPacket, RecvNone, Generate
  <1>2. ASSUME NEW k \in Lcores \ {l} PROVE Holding(k)' = Holding(k)
    <2>1. srvPc'[k] = srvPc[k] /\ srvMbuf'[k] = srvMbuf[k]
      <3>1. srvPc' = srvPc \/ \E c : srvPc' = [srvPc EXCEPT ![l] = c]
        BY DEF Poll, TakeLatency, ForwardPacket, RecvNone, Generate, Goto
      <3>2. srvMbuf' = srvMbuf \/ \E c : srvMbuf' = [srvMbuf EXCEPT ![l] = c]
        BY DEF Poll, TakeLatency, ForwardPacket, RecvNone, Generate
      <3> QED
        BY <1>0, <3>1, <3>2
    <2> QED
      BY <1>1, <2>1, OtherHolds
  <1>3. Holding(l)' = Holding(l)
    <2>1. CASE Generate(l)
      <3>1. \/ UNCHANGED <<srvPc, srvMbuf>>
            \/ /\ srvMbuf' = [srvMbuf EXCEPT ![l] = srvBuffer]
               /\ srvPc' = [srvPc EXCEPT ![l] = <<"send", srvPc[l][2]>>]
               /\ srvPc[l][1] = "generate"
        BY <2>1 DEF Generate, Goto
      <3>2. CASE UNCHANGED <<srvPc, srvMbuf>>
        BY <1>1, <3>2 DEF Holding
      <3>3. CASE /\ srvMbuf' = [srvMbuf EXCEPT ![l] = srvBuffer]
                 /\ srvPc' = [srvPc EXCEPT ![l] = <<"send", srvPc[l][2]>>]
                 /\ srvPc[l][1] = "generate"
        <4>1. srvPc'[l][1] = "send" /\ srvMbuf'[l] = srvBuffer
          BY <1>0, <3>3
        <4> QED
          BY <3>3, <4>1 DEF Holding
      <3> QED
        BY <3>1, <3>2, <3>3
    <2>2. CASE Poll(l) \/ TakeLatency(l) \/ ForwardPacket(l) \/ RecvNone(l)
      <3>1. srvPc[l][1] \notin {"generate", "send"}
        BY <2>2 DEF Poll, TakeLatency, ForwardPacket, RecvNone
      <3>2. srvPc'[l][1] \notin {"generate", "send"}
        <4>0. /\ AfterPoll[1] = "recv"
              /\ \A i \in 1..Cardinality(Disks) : AfterSocket(i)[1] \in {"recv", "poll"}
          BY NextPlaces DEF AfterPoll
        <4>1. CASE RecvNone(l)
          <5>1. srvPc[l][2] \in 1..Cardinality(Disks)
            BY <1>0, <4>1, PlaceIs DEF RecvNone, AtSocket
          <5> QED
            BY <1>0, <4>0, <4>1, <5>1 DEF RecvNone, Goto
        <4>2. CASE Poll(l) \/ TakeLatency(l) \/ ForwardPacket(l)
          <5>1. \/ srvPc' = srvPc
                \/ \E c \in {AfterPoll, <<"packet", 0>>, <<"forward", 0>>} :
                      srvPc' = [srvPc EXCEPT ![l] = c]
            BY <4>2 DEF Poll, TakeLatency, ForwardPacket, Goto
          <5> QED
            BY <1>0, <3>1, <4>0, <5>1
        <4> QED
          BY <2>2, <4>1, <4>2
      <3> QED
        BY <3>1, <3>2 DEF Holding
    <2> QED
      BY <2>1, <2>2
  <1> QED
    BY <1>1, <1>2, <1>3, HoldingsSame

\* A datagram answered enters the link.
LEMMA AnswerStep ==
  ASSUME HostsTypes, NEW p \in Requests, Answer(p)
  PROVE  LinkWire' = LinkWire \/ LinkWire' = LinkWire (+) SetToBag({p})
  <1> DEFINE d == p.disk
  <1>1. d \in Disks /\ socket \in [Disks -> SUBSET Requests]
    BY DEF HostsTypes, ServerTypes, Answer, ToDisks
  <1>2. UNCHANGED <<srvPc, srvBuffer, srvMbuf>> /\ socket' = [socket EXCEPT ![d] = @ \cup {p}]
    BY DEF Answer
  <1> HIDE DEF d
  <1>3. \A q \in Requests : Holders(q)' = Holders(q)
    BY <1>2 DEF Holders, Holding
  <1>4. \A q \in Requests \ {p} : InSockets(q)' = InSockets(q)
    BY <1>1, <1>2 DEF InSockets
  <1>5. CASE p \in socket[d]
    <2>1. socket' = socket
      BY <1>1, <1>2, <1>5
    <2>2. \A k \in Lcores : Holding(k)' = Holding(k)
      BY <1>2 DEF Holding
    <2> QED
      BY <2>1, <2>2, HoldingsSame
  <1>6. CASE p \notin socket[d]
    <2> DEFINE A == InSockets(p)  B == InSockets(p)'
    <2>1. /\ A \in SUBSET Disks /\ B \in SUBSET Disks /\ \A x \in Disks \ {d} : x \in A <=> x \in B
          /\ d \notin A /\ d \in B
      BY <1>1, <1>2, <1>6 DEF InSockets
    <2> HIDE DEF A, B
    <2>f. IsFiniteSet(Disks)
      BY ServerAssumption
    <2>2. Cardinality(B) = Cardinality(A) + 1 /\ Cardinality(A) \in Nat /\ Cardinality(B) \in Nat
      BY <1>1, <2>1, <2>f, OneChange
    <2>3. Cardinality(Holders(p)) \in Nat
      BY SizeNat DEF Holders
    <2>4. CountsAt(p, 1)
      <3>1. Count'[p] = Count[p] + 1
        <4>1. Count[p] = Cardinality(A) + Cardinality(Holders(p))
          BY CountIs DEF A
        <4>2. Count'[p] = Cardinality(B) + Cardinality(Holders(p))
          BY <1>3, CountsPrimed DEF B
        <4> QED
          BY <2>2, <2>3, <4>1, <4>2
      <3>2. \A q \in Requests \ {p} : Count'[q] = Count[q]
        BY <1>3, <1>4, CountIs, CountsPrimed
      <3> QED
        BY <3>1, <3>2 DEF CountsAt
    <2> QED
      BY <2>4, EnterStep
  <1> QED
    BY <1>5, <1>6

\* A packet transmitted, or freed, leaves the link.
LEMMA TransmitStep ==
  ASSUME HostsTypes, NEW l \in Lcores, NEW sent \in Bursts(l), Transmit(l, sent)
  PROVE  \E p \in Requests : /\ srvMbuf[l] = {p}
                             /\ BagIn(p, LinkWire) /\ LinkWire' = LinkWire (-) SetToBag({p})
  <1>0. srvPc \in [Lcores -> Steps] /\ srvMbuf \in [Lcores -> SUBSET Requests]
    BY DEF HostsTypes, ServerTypes
  <1>1. PICK p \in Requests : srvMbuf[l] = {p}
    BY DEF HostsTypes, PacketsHeld, Transmit, OnePacket
  <1>2. Holding(l) = {p}
    BY <1>1 DEF Transmit, Holding
  <1>3. /\ srvPc' = [srvPc EXCEPT ![l] = AfterSocket(srvPc[l][2])]
        /\ srvMbuf' = [srvMbuf EXCEPT ![l] = {}]
        /\ UNCHANGED <<srvBuffer, socket>> /\ srvPc[l][1] = "send"
    BY DEF Transmit, Goto
  <1>4. Holding(l)' = {}
    <2>1. srvPc[l][2] \in 1..Cardinality(Disks)
      BY <1>0, <1>3, PlaceIs DEF AtSocket
    <2>2. srvPc'[l][1] \in {"recv", "poll"}
      BY <1>0, <1>3, <2>1, NextPlaces
    <2> QED
      BY <2>2 DEF Holding
  <1>5. ASSUME NEW k \in Lcores \ {l} PROVE Holding(k)' = Holding(k)
    <2>1. srvPc'[k] = srvPc[k] /\ srvMbuf'[k] = srvMbuf[k]
      BY <1>0, <1>3
    <2> QED
      BY <1>3, <2>1, OtherHolds
  <1>6. \A q \in Requests : InSockets(q)' = InSockets(q)
    BY <1>3 DEF InSockets
  <1>7. \A q \in Requests \ {p} : Holders(q)' = Holders(q)
    BY <1>2, <1>4, <1>5 DEF Holders
  <1> DEFINE A == Holders(p)  B == Holders(p)'
  <1>8. /\ A \in SUBSET Lcores /\ B \in SUBSET Lcores /\ \A x \in Lcores \ {l} : x \in A <=> x \in B
        /\ l \in A /\ l \notin B
    BY <1>2, <1>4, <1>5 DEF Holders
  <1> HIDE DEF A, B
  <1>9. Cardinality(A) = Cardinality(B) + 1 /\ Cardinality(A) \in Nat /\ Cardinality(B) \in Nat
    BY <1>8, LcoresFinite, OneChange
  <1>10. CountsAt(p, -1)
    <2>1. Cardinality(InSockets(p)) \in Nat
      BY SizeNat DEF InSockets
    <2>2. Count[p] = Cardinality(InSockets(p)) + Cardinality(A)
      BY CountIs DEF A
    <2>3. Count'[p] = Cardinality(InSockets(p)) + Cardinality(B)
      BY <1>6, CountsPrimed DEF B
    <2>4. Count'[p] = Count[p] + (-1)
      BY <1>9, <2>1, <2>2, <2>3
    <2>5. \A q \in Requests \ {p} : Count'[q] = Count[q]
      BY <1>6, <1>7, CountIs, CountsPrimed
    <2> QED
      BY <2>4, <2>5 DEF CountsAt
  <1> QED
    BY <1>1, <1>10, LeaveStep

\* A packet read from a socket takes the place of the one in the buffer.  With
\* two lcores at most one is about to copy the buffer.
LEMMA RecvStep ==
  ASSUME HostsTypes, MaxLcores <= 2, NEW l \in Lcores, Recv(l)
  PROVE  \/ LinkWire' = LinkWire
         \/ \E p \in Requests : /\ BagIn(p, LinkWire)
                                /\ LinkWire' = LinkWire (-) SetToBag({p})
         \/ \E p, b \in Requests :
               /\ p # b /\ BagIn(p, LinkWire) /\ BagIn(b, LinkWire)
               /\ LinkWire' = (LinkWire (-) SetToBag({b})) (+) SetToBag({p})
  <1>0. /\ srvPc \in [Lcores -> Steps] /\ socket \in [Disks -> SUBSET Requests]
        /\ PacketsHeld
    BY DEF HostsTypes, ServerTypes
  <1> DEFINE i == srvPc[l][2]  d == Sockets[i]
  <1>1. i \in 1..Cardinality(Disks) /\ d \in Disks /\ IsFiniteSet(Disks) /\ srvPc[l][1] = "recv"
    BY <1>0, PlaceIs, SocketOrder, ServerAssumption DEF Recv, AtSocket
  <1>2. PICK p \in socket[d] :
            /\ socket' = [socket EXCEPT ![d] = @ \ {p}] /\ srvBuffer' = {p} /\ UNCHANGED srvMbuf
            /\ \/ srvPc' = [srvPc EXCEPT ![l] = <<"generate", i>>]
               \/ srvPc' = [srvPc EXCEPT ![l] = AfterSocket(i)]
    BY DEF Recv, Goto
  <1>3. p \in Requests
    BY <1>0, <1>1, <1>2
  <1>4. AfterSocket(i)[1] \in {"recv", "poll"}
    BY <1>1, NextPlaces
  <1> HIDE DEF d, i
  (* The socket loses p. *)
  <1>5. \A q \in Requests \ {p} : InSockets(q)' = InSockets(q)
    BY <1>0, <1>1, <1>2 DEF InSockets
  <1>6. /\ Cardinality(InSockets(p)) = Cardinality(InSockets(p)') + 1
        /\ Cardinality(InSockets(p)') \in Nat
    <2> DEFINE A == InSockets(p)  B == InSockets(p)'
    <2>1. /\ A \in SUBSET Disks /\ B \in SUBSET Disks /\ \A x \in Disks \ {d} : x \in A <=> x \in B
          /\ d \in A /\ d \notin B
      BY <1>0, <1>1, <1>2, <1>3 DEF InSockets
    <2> HIDE DEF A, B
    <2>2. Cardinality(A) = Cardinality(B) + 1 /\ Cardinality(B) \in Nat
      BY <1>1, <2>1, OneChange
    <2> QED
      BY <2>2 DEF A, B
  <1>7. \A q \in Requests : Cardinality(InSockets(q)) \in Nat
    BY SizeNat DEF InSockets
  (* The lcore held nothing, and holds p unless that is lost. *)
  <1>8. Holding(l) = {}
    BY <1>1 DEF Holding
  <1>9. Holding(l)' = {p} \/ Holding(l)' = {}
    <2>1. srvPc'[l][1] = "generate" \/ srvPc'[l][1] \in {"recv", "poll"}
      BY <1>0, <1>2, <1>4
    <2> QED
      BY <1>2, <2>1 DEF Holding
  (* So does the other, if it has yet to copy the buffer. *)
  <1>10. ASSUME NEW k \in Lcores \ {l}
         PROVE  /\ srvPc[k][1] # "generate" => Holding(k)' = Holding(k)
                /\ srvPc[k][1] = "generate" => Holding(k) = srvBuffer /\ Holding(k)' = {p}
    <2>1. srvPc'[k] = srvPc[k] /\ srvMbuf'[k] = srvMbuf[k]
      BY <1>0, <1>2
    <2> QED
      BY <1>2, <2>1 DEF Holding
  <1>11. \A j, k \in Lcores \ {l} : j = k
    BY SetupAssumption DEF Lcores
  <1>12. ASSUME \A k \in Lcores \ {l} : Holding(k)' = Holding(k)
         PROVE  /\ \A q \in Requests \ {p} : Holders(q)' = Holders(q)
                /\ Cardinality(Holders(p)) \in Nat
                /\ Cardinality(Holders(p)') \in
                      {Cardinality(Holders(p)), Cardinality(Holders(p)) + 1}
    <2>1. \A q \in Requests \ {p} : Holders(q)' = Holders(q)
      BY <1>8, <1>9, <1>12 DEF Holders
    <2> DEFINE A == Holders(p)  B == Holders(p)'
    <2>2. /\ A \in SUBSET Lcores /\ B \in SUBSET Lcores
          /\ \A x \in Lcores \ {l} : x \in A <=> x \in B
          /\ l \notin A
      BY <1>8, <1>12 DEF Holders
    <2> HIDE DEF A, B
    <2>3. /\ Cardinality(A) \in Nat
          /\ l \notin B => Cardinality(B) = Cardinality(A)
          /\ l \in B => Cardinality(B) = Cardinality(A) + 1
      BY <2>2, LcoresFinite, OneChange
    <2>4. Cardinality(A) \in Nat /\ Cardinality(B) \in {Cardinality(A), Cardinality(A) + 1}
      BY <2>3
    <2> QED
      BY <2>1, <2>4 DEF A, B
  <1>13. CASE \A k \in Lcores \ {l} : Holding(k)' = Holding(k)
    <2>1. /\ \A q \in Requests \ {p} : Holders(q)' = Holders(q)
          /\ Cardinality(Holders(p)) \in Nat
          /\ Cardinality(Holders(p)') \in {Cardinality(Holders(p)), Cardinality(Holders(p)) + 1}
      BY <1>12, <1>13
    <2>2. \A q \in Requests \ {p} : Count'[q] = Count[q]
      BY <1>5, <2>1, CountIs, CountsPrimed
    <2>3. /\ Count[p] = Cardinality(InSockets(p)) + Cardinality(Holders(p))
          /\ Count'[p] = Cardinality(InSockets(p)') + Cardinality(Holders(p)')
      BY <1>3, CountIs, CountsPrimed
    <2>4. Count'[p] = Count[p] \/ Count'[p] = Count[p] + (-1)
      BY <1>6, <2>1, <2>3
    <2>5. CASE Count'[p] = Count[p]
      BY <2>2, <2>5, StayStep
    <2>6. CASE Count'[p] = Count[p] + (-1)
      BY <1>3, <2>2, <2>6, LeaveStep DEF CountsAt
    <2> QED
      BY <2>4, <2>5, <2>6
  <1>14. CASE ~ \A k \in Lcores \ {l} : Holding(k)' = Holding(k)
    <2>1. PICK k \in Lcores \ {l} : Holding(k)' # Holding(k)
      BY <1>14
    <2>2. Holding(k) = srvBuffer /\ Holding(k)' = {p} /\ srvPc[k][1] = "generate"
      BY <1>10, <2>1
    <2>3. PICK b \in Requests : srvBuffer = {b}
      BY <1>0, <2>2 DEF PacketsHeld, OnePacket
    <2>4. b # p
      BY <2>1, <2>2, <2>3
    <2>5. Lcores = {k, l} /\ k # l
      BY <1>11
    <2>6. \A q \in Requests \ {p, b} : Holders(q)' = Holders(q)
      BY <1>8, <1>9, <2>2, <2>3, <2>5 DEF Holders
    <2>7. Holders(b) = {k} /\ Holders(b)' = {}
      BY <1>8, <1>9, <2>2, <2>3, <2>4, <2>5 DEF Holders
    <2>8. Holders(p) = {} /\ (Holders(p)' = {k} \/ Holders(p)' = {k, l})
      BY <1>8, <1>9, <2>2, <2>3, <2>4, <2>5 DEF Holders
    <2>9. Cardinality({}) = 0 /\ Cardinality({k}) = 1 /\ Cardinality({k, l}) = 2
      <3>1. Cardinality({k}) = 1 /\ IsFiniteSet({k}) /\ Cardinality({}) = 0
        BY FS_Singleton, FS_EmptySet
      <3>2. Cardinality({k} \cup {l}) = Cardinality({k}) + 1
        BY <2>5, <3>1, FS_AddElement
      <3>3. {k} \cup {l} = {k, l}
        OBVIOUS
      <3> QED
        BY <3>1, <3>2, <3>3
    <2>10. \A q \in Requests \ {p, b} : Count'[q] = Count[q]
      BY <1>5, <2>6, CountIs, CountsPrimed
    <2>11. Count[b] = Count'[b] + 1
      <3>1. Count[b] = Cardinality(InSockets(b)) + 1
        BY <2>7, <2>9, CountIs
      <3>2. Count'[b] = Cardinality(InSockets(b)) + 0
        BY <1>5, <2>4, <2>7, <2>9, CountsPrimed
      <3> QED
        BY <1>7, <3>1, <3>2
    <2>12. Count[p] = Cardinality(InSockets(p)) + 0
      BY <1>3, <2>8, <2>9, CountIs
    <2>13. Count'[p] = Cardinality(InSockets(p)') + 1 \/ Count'[p] = Cardinality(InSockets(p)') + 2
      BY <1>3, <2>8, <2>9, CountsPrimed
    <2>14. Count[p] > 0 /\ (Count'[p] = Count[p] \/ Count'[p] = Count[p] + 1)
      BY <1>6, <2>12, <2>13
    <2>15. CASE Count'[p] = Count[p] + 1
      BY <1>3, <2>4, <2>10, <2>11, <2>14, <2>15, ReplaceStep
    <2>16. CASE Count'[p] = Count[p]
      <3>1. Count[b] \in Nat /\ Count'[b] \in Nat
        BY CountIs, CountsPrimed
      <3>2. Count'[b] = Count[b] + (-1)
        BY <2>11, <3>1
      <3>3. \A q \in Requests \ {b} : Count'[q] = Count[q]
        BY <2>10, <2>16
      <3> QED
        BY <3>2, <3>3, LeaveStep DEF CountsAt
    <2> QED
      BY <2>14, <2>15, <2>16
  <1> QED
    BY <1>13, <1>14

LEMMA LinkBags ==
  /\ \A S : Link!SetToBag(S) = SetToBag(S)
  /\ Link!EmptyBag = EmptyBag
  /\ \A e, B : Link!BagIn(e, B) <=> BagIn(e, B)
  /\ \A B : Link!IsABag(B) <=> IsABag(B)
  /\ \A A, B : Link!\sqsubseteq(A, B) <=> A \sqsubseteq B
  /\ \A A, B : Link!(+)(A, B) = A (+) B
  /\ \A A, B : Link!(-)(A, B) = A (-) B
  <1>1. \A S : Link!SetToBag(S) = SetToBag(S)
    BY DEF SetToBag, Link!SetToBag
  <1>2. Link!EmptyBag = EmptyBag
    BY <1>1 DEF EmptyBag, Link!EmptyBag
  <1>3. \A e, B : Link!BagIn(e, B) <=> BagIn(e, B)
    BY DEF BagIn, BagToSet, Link!BagIn, Link!BagToSet
  <1>4. \A B : Link!IsABag(B) <=> IsABag(B)
    BY DEF IsABag, Link!IsABag
  <1>5. \A A, B : Link!\sqsubseteq(A, B) <=> A \sqsubseteq B
    BY DEF \sqsubseteq, Link!\sqsubseteq
  <1>6. \A A, B : Link!(+)(A, B) = A (+) B
    BY DEF (+), Link!(+)
  <1>7. \A A, B : Link!(-)(A, B) = A (-) B
    BY DEF (-), Link!(-)
  <1> QED
    BY <1>1, <1>2, <1>3, <1>4, <1>5, <1>6, <1>7

\* What the link's actions say of LinkWire.
LEMMA LinkActions ==
  ASSUME NEW p
  PROVE  /\ LinkWire' = LinkWire (+) SetToBag({p}) /\ UNCHANGED toClient => Link!Enter(p)
         /\ /\ BagIn(p, LinkWire) /\ LinkWire' = LinkWire (-) SetToBag({p})
            /\ toClient' = toClient (+) SetToBag({p})
            => Link!Leave(p)
         /\ /\ BagIn(p, LinkWire) /\ LinkWire' = LinkWire (-) SetToBag({p})
            /\ UNCHANGED toClient
            => Link!Lose(p)
         /\ \A b : /\ p # b /\ BagIn(p, LinkWire) /\ BagIn(b, LinkWire)
                   /\ LinkWire' = (LinkWire (-) SetToBag({b})) (+) SetToBag({p})
                   /\ UNCHANGED toClient
                   => Link!Replace(b, p)
         /\ IsABag(toClient') /\ toClient' \sqsubseteq toClient /\ LinkWire' = LinkWire => Link!PickUp
         /\ LinkWire = EmptyBag /\ toClient = EmptyBag => Link!Init
  <1> DEFINE W == LinkWire  P == Link!One(p)
  <1>1. \A b : Link!One(b) = SetToBag({b})
    BY LinkBags DEF Link!One
  <1>2. /\ \A b : Link!(+)(W, Link!One(b)) = W (+) SetToBag({b})
        /\ \A b : Link!(-)(W, Link!One(b)) = W (-) SetToBag({b})
        /\ \A b : Link!(+)(toClient, Link!One(b)) = toClient (+) SetToBag({b})
        /\ \A b, c : Link!(+)(Link!(-)(W, Link!One(b)), Link!One(c))
                        = (W (-) SetToBag({b})) (+) SetToBag({c})
    BY <1>1, LinkBags
  <1>3. /\ \A b : Link!BagIn(b, W) <=> BagIn(b, W)
        /\ Link!IsABag(toClient') <=> IsABag(toClient')
        /\ Link!\sqsubseteq(toClient', toClient) <=> toClient' \sqsubseteq toClient
        /\ Link!EmptyBag = EmptyBag
    BY LinkBags
  <1>4. Link!Enter(p) <=> W' = Link!(+)(W, P) /\ toClient' = toClient
    BY DEF Link!Enter, LinkWire
  <1>5. Link!Leave(p) <=> /\ Link!BagIn(p, W) /\ W' = Link!(-)(W, P)
                          /\ toClient' = Link!(+)(toClient, P)
    BY DEF Link!Leave, LinkWire
  <1>6. Link!Lose(p) <=> Link!BagIn(p, W) /\ W' = Link!(-)(W, P) /\ toClient' = toClient
    BY DEF Link!Lose, LinkWire
  <1>7. \A b : Link!Replace(b, p) <=> /\ Link!BagIn(b, W) /\ Link!BagIn(p, W) /\ b # p
                                      /\ W' = Link!(+)(Link!(-)(W, Link!One(b)), P)
                                      /\ toClient' = toClient
    BY DEF Link!Replace, LinkWire
  <1>8. Link!PickUp <=> /\ Link!IsABag(toClient') /\ Link!\sqsubseteq(toClient', toClient)
                        /\ W' = W
    BY DEF Link!PickUp, LinkWire
  <1>9. Link!Init <=> W = Link!EmptyBag /\ toClient = Link!EmptyBag
    BY DEF Link!Init, LinkWire
  <1> HIDE DEF W
  <1> QED
    BY <1>1, <1>2, <1>3, <1>4, <1>5, <1>6, <1>7, <1>8, <1>9 DEF W

LEMMA LinkInit == Init => Link!Init
  <1> SUFFICES ASSUME Init PROVE Link!Init
    OBVIOUS
  <1>1. /\ srvPc = [l \in Lcores |-> <<"poll", 0>>] /\ socket = [d \in Disks |-> {}]
        /\ toClient = EmptyBag
    BY DEF Init, SrvInit, CliInit
  <1>2. ASSUME NEW q \in Requests PROVE Count[q] = 0
    <2>1. InSockets(q) = {} /\ Holders(q) = {}
      BY <1>1 DEF InSockets, Holders, Holding
    <2> QED
      BY <2>1, CountIs, FS_EmptySet
  <1>3. Wire(Count) = EmptyBag
    <2>1. {r \in Requests : Count[r] > 0} = {}
      BY <1>2
    <2> QED
      BY <2>1 DEF Wire, EmptyBag, SetToBag
  <1>4. LinkWire = EmptyBag
    BY <1>3, CountIs
  <1> QED
    BY <1>1, <1>4, LinkActions

LEMMA LinkStep ==
  ASSUME HostsTypes, MaxLcores <= 2, [Next]_vars
  PROVE  [Link!Next]_<<LinkWire, toClient>>
  <1>t. /\ BagOK(toClient)
        /\ toClient (+) EmptyBag = toClient
    BY DEF HostsTypes, ClientTypes, BagOK, IsABag, (+), EmptyBag, SetToBag
  <1>1. CASE StartServer \/ StartClient \/ Request \/ UNCHANGED vars
    <2>1. UNCHANGED <<srvPc, srvBuffer, srvMbuf, socket, toClient>>
      BY <1>1 DEF StartServer, StartClient, Request, SrvStart, CliStart, SendRequest,
         CountSent, SendFails, vars, srvVars, cliVars
    <2>2. \A k \in Lcores : Holding(k)' = Holding(k)
      BY <2>1 DEF Holding
    <2> QED
      BY <2>1, <2>2, HoldingsSame
  <1>2. ASSUME NEW l \in Lcores, ServerLcore(l) PROVE [Link!Next]_<<LinkWire, toClient>>
    <2>1. CASE /\ Poll(l) \/ TakeLatency(l) \/ ForwardPacket(l) \/ RecvNone(l) \/ Generate(l)
               /\ UNCHANGED cliVars
      BY <2>1, IdleSteps DEF cliVars
    <2>2. CASE Recv(l) /\ UNCHANGED cliVars
      <3>1. toClient' = toClient
        BY <2>2 DEF cliVars
      <3>2. CASE LinkWire' = LinkWire
        BY <3>1, <3>2
      <3>3. ASSUME NEW p \in Requests, BagIn(p, LinkWire),
                   LinkWire' = LinkWire (-) SetToBag({p})
            PROVE  Link!Next
        <4>1. Link!Lose(p)
          BY <3>1, <3>3, LinkActions
        <4> QED
          BY <4>1 DEF Link!Next
      <3>4. ASSUME NEW p \in Requests, NEW b \in Requests, p # b, BagIn(p, LinkWire),
                   BagIn(b, LinkWire),
                   LinkWire' = (LinkWire (-) SetToBag({b})) (+) SetToBag({p})
            PROVE  Link!Next
        <4>1. Link!Replace(b, p)
          BY <3>1, <3>4, LinkActions
        <4> QED
          BY <4>1 DEF Link!Next
      <3> QED
        BY <2>2, <3>2, <3>3, <3>4, RecvStep
    <2>3. CASE Reply(l)
      <3>1. PICK sent \in Bursts(l) : Transmit(l, sent) /\ toClient' = toClient (+) sent
        BY <2>3 DEF Reply
      <3>2. PICK p \in Requests : /\ srvMbuf[l] = {p} /\ BagIn(p, LinkWire)
                                  /\ LinkWire' = LinkWire (-) SetToBag({p})
        BY <3>1, TransmitStep
      <3>3. CASE sent = SetToBag(srvMbuf[l])
        <4>1. Link!Leave(p)
          BY <3>1, <3>2, <3>3, LinkActions
        <4> QED
          BY <4>1 DEF Link!Next
      <3>4. CASE sent = EmptyBag
        <4>1. Link!Lose(p)
          BY <1>t, <3>1, <3>2, <3>4, LinkActions
        <4> QED
          BY <4>1 DEF Link!Next
      <3> QED
        BY <3>1, <3>3, <3>4 DEF Bursts
    <2> QED
      BY <1>2, <2>1, <2>2, <2>3 DEF ServerLcore
  <1>3. CASE Disk
    <2>1. PICK p \in Requests : Answer(p) /\ UNCHANGED cliVars
      BY <1>3 DEF Disk
    <2>2. toClient' = toClient
      BY <2>1 DEF cliVars
    <2>3. CASE LinkWire' = LinkWire
      BY <2>2, <2>3
    <2>4. CASE LinkWire' = LinkWire (+) SetToBag({p})
      <3>1. Link!Enter(p)
        BY <2>2, <2>4, LinkActions
      <3> QED
        BY <3>1 DEF Link!Next
    <2> QED
      BY <2>1, <2>3, <2>4, AnswerStep
  <1>4. CASE Receive
    <2>1. \A k \in Lcores : Holding(k)' = Holding(k)
      BY <1>4 DEF Receive, srvVars, Holding
    <2>2. LinkWire' = LinkWire
      <3>1. UNCHANGED socket
        BY <1>4 DEF Receive, srvVars
      <3> QED
        BY <2>1, <3>1, HoldingsSame
    <2>3. CASE PrintLatencies
      BY <2>2, <2>3 DEF PrintLatencies
    <2>4. CASE RecvReplies
      <3>1. PICK burst \in PartsOf(toClient) : toClient' = toClient (-) burst
        BY <2>4 DEF RecvReplies
      <3>2. IsABag(toClient') /\ toClient' \sqsubseteq toClient
        BY <1>t, <3>1, BagTake DEF BagOK
      <3>3. Link!PickUp
        BY <2>2, <3>2, LinkActions
      <3> QED
        BY <3>3 DEF Link!Next
    <2> QED
      BY <1>4, <2>3, <2>4 DEF Receive
  <1> QED
    BY <1>1, <1>2, <1>3, <1>4 DEF Next

\* To the packets from the vSSDs the server is a faulty link (FaultyLink.tla):
\* whatever its two lcores do to the receive buffer they share, it loses packets
\* and sends one a second time in the place of another, but sends nothing that
\* did not come in and never more than came in (server_code/main.c:200-222).
THEOREM ServerIsFaultyLink ==
  ASSUME MaxLcores <= 2
  PROVE  Spec => ForwardsAsFaultyLink
  <1>1. Init => Link!Init
    BY LinkInit
  <1>2. HostsTypes /\ [Next]_vars => [Link!Next]_<<LinkWire, toClient>>
    BY LinkStep
  <1> QED
    BY <1>1, <1>2, HostsTypesHold, PTL DEF Spec, ForwardsAsFaultyLink, Link!Spec, LinkWire

-----------------------------------------------------------------------------
(* The counters.  Every request sent is in at most one place at a time, or   *)
(* an lcore of the server answers for it; a reply counted is one of these.   *)

Sizes(r, S) == [x \in S |-> Cardinality(r[x])]
Total(r, S) == SumFunctionOnSet(Sizes(r, S), S)

InRings == Total(srvRing, RingPorts)
InBatches == Total(srvBatch, Lcores)
AtDisks == Total(socket, Disks)
Busy == {l \in Lcores : srvPc[l][1] \in {"generate", "send"}}

AllSent ==
    InRings + InBatches + Cardinality(toDisk) + AtDisks + Cardinality(Busy)
        + SumFunction(toClient) + pkt_recv <= Transmitted

\* What an lcore has read of pkt_recv may be old, but the packets it read it for
\* are still in its batch.
SlotsTaken ==
    /\ srvStatus \in {"off", "run"} =>
          /\ srvRecv + InRings + InBatches <= Transmitted
          /\ \A l \in Lcores : srvSlot[l] + InRings + InBatches <= Transmitted
    /\ srvRecv + InRings <= Transmitted

CountersOK == AllSent /\ SlotsTaken /\ pkt_recv < reply_num + CliBurst

LEMMA TotalIs ==
  ASSUME NEW S, IsFiniteSet(S), NEW r \in [S -> SUBSET Requests]
  PROVE  /\ Total(r, S) \in Nat
         /\ \A x \in S : /\ IsFiniteSet(r[x]) /\ Cardinality(r[x]) \in Nat
                         /\ Cardinality(r[x]) <= Total(r, S)
         /\ Sizes(r, S) \in [S -> Int]
         /\ \A x \in S : Sizes(r, S)[x] = Cardinality(r[x])
  <1> DEFINE f == Sizes(r, S)
  <1>1. \A x \in S : f[x] = Cardinality(r[x])
    BY DEF Sizes
  <1>2. \A x \in S : IsFiniteSet(r[x]) /\ Cardinality(r[x]) \in Nat
    BY RequestsFinite, FS_Subset, FS_CardinalityType
  <1>3. f \in [S -> Int]
    BY <1>2 DEF Sizes
  <1>4. \A x \in S : f[x] \in Nat
    BY <1>1, <1>2
  <1> HIDE DEF f
  <1>5. SumFunctionOnSet(f, S) \in Nat /\ \A x \in S : f[x] <= SumFunctionOnSet(f, S)
    BY <1>4, SumNat
  <1> QED
    BY <1>1, <1>2, <1>3, <1>5 DEF Total, f

LEMMA TotalChange ==
  ASSUME NEW S, IsFiniteSet(S), NEW r \in [S -> SUBSET Requests],
         NEW t \in [S -> SUBSET Requests], NEW k \in S, \A x \in S \ {k} : t[x] = r[x]
  PROVE  Total(t, S) = Total(r, S) - Cardinality(r[k]) + Cardinality(t[k])
  <1> DEFINE f == Sizes(r, S)  h == Sizes(t, S)
  <1>1. /\ f \in [S -> Int] /\ h \in [S -> Int]
        /\ \A x \in S : f[x] = Cardinality(r[x])
        /\ \A x \in S : h[x] = Cardinality(t[x])
    BY TotalIs
  <1>2. \A x \in S \ {k} : h[x] = f[x]
    BY <1>1
  <1> HIDE DEF f, h
  <1>3. SumFunctionOnSet(h, S) = SumFunctionOnSet(f, S) - f[k] + h[k]
    BY <1>1, <1>2, SumExcept
  <1> QED
    BY <1>1, <1>3 DEF Total, f, h

\* One request more, and one less.
LEMMA OneMore ==
  ASSUME NEW A \in SUBSET Requests, NEW p \in Requests
  PROVE  /\ Cardinality(A) \in Nat /\ Cardinality(A \cup {p}) \in Nat
         /\ Cardinality(A \cup {p}) <= Cardinality(A) + 1
         /\ p \in A => Cardinality(A) = Cardinality(A \ {p}) + 1 /\ Cardinality(A \ {p}) \in Nat
  <1>1. IsFiniteSet(A)
    BY RequestsFinite, FS_Subset
  <1>2. IsFiniteSet(A \cup {p}) /\ IsFiniteSet(A \ {p})
    BY <1>1, FS_AddElement, FS_RemoveElement
  <1>3. Cardinality(A) \in Nat /\ Cardinality(A \cup {p}) \in Nat /\ Cardinality(A \ {p}) \in Nat
    BY <1>1, <1>2, FS_CardinalityType
  <1>4. Cardinality(A \cup {p}) = IF p \in A THEN Cardinality(A) ELSE Cardinality(A) + 1
    BY <1>1, FS_AddElement
  <1>5. p \in A => Cardinality(A \ {p}) = Cardinality(A) - 1
    BY <1>1, FS_RemoveElement
  <1> QED
    BY <1>3, <1>4, <1>5

\* A request is sent by one step of the loop and counted by a later one.
LEMMA SentSame ==
  ASSUME UNCHANGED sentVars PROVE Transmitted' = Transmitted
  BY DEF sentVars, Transmitted

LEMMA SentThen ==
  ASSUME ClientTypes
  PROVE  /\ CountSent => Transmitted' = Transmitted
         /\ \A p : SendRequest(p) => Transmitted' = Transmitted + 1
  BY DEF ClientTypes, CountSent, SendRequest, Sending, Transmitted

LEMMA NumbersAre ==
  ASSUME ServerTypes, ClientTypes
  PROVE  /\ InRings \in Nat /\ InBatches \in Nat /\ AtDisks \in Nat
         /\ Cardinality(toDisk) \in Nat /\ Cardinality(Busy) \in Nat
         /\ SumFunction(toClient) \in Nat
         /\ pkt_recv \in Nat /\ Transmitted \in Nat /\ srvRecv \in Nat /\ reply_num \in Nat
  <1>1. InRings \in Nat
    BY RingPortsFinite, TotalIs DEF ServerTypes, InRings
  <1>2. InBatches \in Nat
    BY LcoresFinite, TotalIs DEF ServerTypes, InBatches
  <1>3. AtDisks \in Nat
    BY ServerAssumption, TotalIs DEF ServerTypes, AtDisks
  <1>4. Cardinality(toDisk) \in Nat
    <2>1. toDisk \in SUBSET Requests
      BY DEF ServerTypes, ToDisks
    <2> QED
      BY <2>1, RequestsFinite, FS_Subset, FS_CardinalityType
  <1>5. Cardinality(Busy) \in Nat
    BY SizeNat DEF Busy
  <1>6. SumFunction(toClient) \in Nat /\ Transmitted \in Nat
    BY BagSize DEF ClientTypes, Transmitted
  <1> QED
    BY <1>1, <1>2, <1>3, <1>4, <1>5, <1>6 DEF ServerTypes, ClientTypes

LEMMA BusyChange ==
  ASSUME NEW l \in Lcores, \A k \in Lcores \ {l} : srvPc'[k] = srvPc[k]
  PROVE  /\ Cardinality(Busy) \in Nat /\ Cardinality(Busy') \in Nat
         /\ (l \in Busy <=> l \in Busy') => Cardinality(Busy') = Cardinality(Busy)
         /\ l \in Busy /\ l \notin Busy' => Cardinality(Busy) = Cardinality(Busy') + 1
         /\ l \notin Busy /\ l \in Busy' => Cardinality(Busy') = Cardinality(Busy) + 1
  <1> DEFINE A == Busy  B == Busy'
  <1>1. A \in SUBSET Lcores /\ B \in SUBSET Lcores /\ \A x \in Lcores \ {l} : x \in A <=> x \in B
    BY DEF Busy
  <1> HIDE DEF A, B
  <1>2. /\ Cardinality(A) \in Nat /\ Cardinality(B) \in Nat
        /\ (l \in A <=> l \in B) => Cardinality(B) = Cardinality(A)
        /\ l \in A /\ l \notin B => Cardinality(A) = Cardinality(B) + 1
        /\ l \notin A /\ l \in B => Cardinality(B) = Cardinality(A) + 1
    BY <1>1, LcoresFinite, OneChange
  <1> QED
    BY <1>2 DEF A, B

LEMMA NumbersFollow ==
  /\ InRings' = Total(srvRing', RingPorts) /\ InBatches' = Total(srvBatch', Lcores)
  /\ AtDisks' = Total(socket', Disks)
  /\ srvRing' = srvRing => InRings' = InRings
  /\ srvBatch' = srvBatch => InBatches' = InBatches
  /\ socket' = socket => AtDisks' = AtDisks
  /\ srvPc' = srvPc => Busy' = Busy
  BY DEF InRings, InBatches, AtDisks, Busy, Total, Sizes

\* The lcores of the server.
LEMMA PollCounts ==
  ASSUME HostsTypes, ServerTypes', NEW l \in Lcores, Poll(l)
  PROVE  InRings' + InBatches' <= InRings + InBatches /\ InRings' <= InRings
  <1>1. /\ srvRing \in [RingPorts -> SUBSET Requests] /\ srvRing' \in [RingPorts -> SUBSET Requests]
        /\ srvBatch \in [Lcores -> SUBSET Requests] /\ srvBatch' \in [Lcores -> SUBSET Requests]
    BY DEF HostsTypes, ServerTypes
  <1> DEFINE p == srvConf[l].port
  <1>2. p \in RingPorts
    BY PortKnown DEF HostsTypes, Poll
  <1>3. PICK burst \in SUBSET Polled(l) :
            /\ srvBatch' = [srvBatch EXCEPT ![l] = burst]
            /\ srvRing' = [srvRing EXCEPT ![p] = @ \ burst]
    BY DEF Poll
  <1>4. burst \subseteq srvRing[p]
    BY <1>3 DEF Polled
  <1> HIDE DEF p
  <1>5. /\ \A x \in Lcores \ {l} : srvBatch'[x] = srvBatch[x] /\ srvBatch'[l] = burst
        /\ \A x \in RingPorts \ {p} : srvRing'[x] = srvRing[x] /\ srvRing'[p] = srvRing[p] \ burst
    BY <1>1, <1>2, <1>3
  <1>a. /\ \A x \in Lcores \ {l} : srvBatch'[x] = srvBatch[x]
        /\ \A x \in RingPorts \ {p} : srvRing'[x] = srvRing[x]
        /\ srvBatch'[l] = burst /\ srvRing'[p] = srvRing[p] \ burst
    BY <1>1, <1>2, <1>3
  <1>6. Total(srvBatch', Lcores) = InBatches - Cardinality(srvBatch[l]) + Cardinality(burst)
    <2>1. Total(srvBatch', Lcores)
             = Total(srvBatch, Lcores) - Cardinality(srvBatch[l]) + Cardinality(srvBatch'[l])
      BY <1>1, <1>a, LcoresFinite, TotalChange
    <2> QED
      BY <1>a, <2>1 DEF InBatches
  <1>7. Total(srvRing', RingPorts)
           = InRings - Cardinality(srvRing[p]) + Cardinality(srvRing[p] \ burst)
    <2>1. Total(srvRing', RingPorts)
             = Total(srvRing, RingPorts) - Cardinality(srvRing[p]) + Cardinality(srvRing'[p])
      BY <1>1, <1>2, <1>a, RingPortsFinite, TotalChange
    <2> QED
      BY <1>a, <2>1 DEF InRings
  <1>8. /\ IsFiniteSet(srvRing[p]) /\ Cardinality(srvRing[p]) \in Nat
        /\ Cardinality(srvBatch[l]) \in Nat
        /\ InRings \in Nat /\ InBatches \in Nat
    <2>1. /\ Total(srvRing, RingPorts) \in Nat
          /\ \A x \in RingPorts : IsFiniteSet(srvRing[x]) /\ Cardinality(srvRing[x]) \in Nat
      BY <1>1, RingPortsFinite, TotalIs
    <2>2. /\ Total(srvBatch, Lcores) \in Nat
          /\ \A x \in Lcores : Cardinality(srvBatch[x]) \in Nat
      BY <1>1, LcoresFinite, TotalIs
    <2> QED
      BY <1>2, <2>1, <2>2 DEF InRings, InBatches
  <1>9. /\ Cardinality(srvRing[p] \ burst) = Cardinality(srvRing[p]) - Cardinality(burst)
        /\ Cardinality(burst) \in Nat
    <2>1. srvRing[p] \cap burst = burst
      BY <1>4
    <2>2. Cardinality(srvRing[p] \ burst)
             = Cardinality(srvRing[p]) - Cardinality(srvRing[p] \cap burst)
      BY <1>8, FS_Difference
    <2>3. IsFiniteSet(burst)
      BY <1>4, <1>8, FS_Subset
    <2> QED
      BY <2>1, <2>2, <2>3, FS_CardinalityType
  <1>10. InBatches' = Total(srvBatch', Lcores) /\ InRings' = Total(srvRing', RingPorts)
    BY NumbersFollow
  <1> QED
    BY <1>6, <1>7, <1>8, <1>9, <1>10

LEMMA ForwardCounts ==
  ASSUME HostsTypes, ServerTypes', NEW l \in Lcores, ForwardPacket(l)
  PROVE  /\ InRings' = InRings /\ AtDisks' = AtDisks /\ InBatches >= 1
         /\ \/ /\ srvStatus' = srvStatus /\ InBatches' = InBatches - 1
               /\ Cardinality(toDisk') <= Cardinality(toDisk) + 1
            \/ /\ srvStatus' = "send failed" /\ UNCHANGED <<toDisk, srvBatch, srvPc>>
  <1>1. /\ srvBatch \in [Lcores -> SUBSET Requests] /\ srvBatch' \in [Lcores -> SUBSET Requests]
        /\ toDisk \in SUBSET Requests
    BY DEF HostsTypes, ServerTypes, ToDisks
  <1>2. PICK p \in srvBatch[l] :
           \/ /\ toDisk' = IF p.disk \in Disks THEN toDisk \cup {p} ELSE toDisk
              /\ srvBatch' = [srvBatch EXCEPT ![l] = @ \ {p}]
              /\ srvStatus' = srvStatus
           \/ srvStatus' = "send failed" /\ UNCHANGED <<toDisk, srvBatch, srvPc>>
    BY DEF ForwardPacket
  <1>3. UNCHANGED <<srvRing, socket>>
    BY DEF ForwardPacket
  <1>4. p \in Requests
    BY <1>1, <1>2
  <1>5. /\ Total(srvBatch, Lcores) \in Nat
        /\ Cardinality(srvBatch[l]) \in Nat /\ Cardinality(srvBatch[l]) <= Total(srvBatch, Lcores)
    BY <1>1, LcoresFinite, TotalIs
  <1>6. Cardinality(srvBatch[l]) = Cardinality(srvBatch[l] \ {p}) + 1
        /\ Cardinality(srvBatch[l] \ {p}) \in Nat
    <2>1. srvBatch[l] \in SUBSET Requests
      BY <1>1
    <2> QED
      BY <1>2, <1>4, <2>1, OneMore
  <1>7. InBatches >= 1
    BY <1>5, <1>6 DEF InBatches
  <1>8. CASE /\ toDisk' = IF p.disk \in Disks THEN toDisk \cup {p} ELSE toDisk
             /\ srvBatch' = [srvBatch EXCEPT ![l] = @ \ {p}]
             /\ srvStatus' = srvStatus
    <2>1. /\ \A x \in Lcores \ {l} : srvBatch'[x] = srvBatch[x]
          /\ srvBatch'[l] = srvBatch[l] \ {p}
      BY <1>1, <1>8
    <2>2. Total(srvBatch', Lcores)
             = Total(srvBatch, Lcores) - Cardinality(srvBatch[l]) + Cardinality(srvBatch'[l])
      BY <1>1, <2>1, LcoresFinite, TotalChange
    <2>3. InBatches' = Total(srvBatch', Lcores) /\ InBatches = Total(srvBatch, Lcores)
      BY NumbersFollow DEF InBatches
    <2>4. InBatches' = InBatches - 1
      BY <1>5, <1>6, <2>1, <2>2, <2>3
    <2>5. Cardinality(toDisk') <= Cardinality(toDisk) + 1
      <3>1. /\ Cardinality(toDisk) \in Nat
            /\ Cardinality(toDisk \cup {p}) <= Cardinality(toDisk) + 1
        BY <1>1, <1>4, OneMore
      <3>2. toDisk' = toDisk \/ toDisk' = toDisk \cup {p}
        BY <1>8
      <3>3. \/ Cardinality(toDisk') = Cardinality(toDisk)
            \/ Cardinality(toDisk') = Cardinality(toDisk \cup {p})
        BY <3>2
      <3> QED
        BY <3>1, <3>3
    <2> QED
      BY <1>3, <1>7, <1>8, <2>4, <2>5, NumbersFollow
  <1> QED
    BY <1>2, <1>3, <1>7, <1>8, NumbersFollow

\* The sockets.
LEMMA SocketCounts ==
  ASSUME HostsTypes, ServerTypes', NEW d \in Disks, NEW p \in Requests
  PROVE  /\ socket' = [socket EXCEPT ![d] = @ \cup {p}] => AtDisks' <= AtDisks + 1
         /\ p \in socket[d] /\ socket' = [socket EXCEPT ![d] = @ \ {p}] => AtDisks = AtDisks' + 1
  <1>1. /\ socket \in [Disks -> SUBSET Requests] /\ socket' \in [Disks -> SUBSET Requests]
        /\ IsFiniteSet(Disks)
    BY ServerAssumption DEF HostsTypes, ServerTypes
  <1>2. AtDisks' = Total(socket', Disks) /\ AtDisks = Total(socket, Disks)
    BY NumbersFollow DEF AtDisks
  <1>3. AtDisks \in Nat /\ AtDisks' \in Nat
    <2>1. Total(socket, Disks) \in Nat
      BY <1>1, TotalIs
    <2>2. Total(socket', Disks) \in Nat
      BY <1>1, TotalIs
    <2> QED
      BY <1>2, <2>1, <2>2
  <1>4. socket[d] \in SUBSET Requests
    BY <1>1
  <1>5. /\ Cardinality(socket[d]) \in Nat /\ Cardinality(socket[d] \cup {p}) \in Nat
        /\ Cardinality(socket[d] \cup {p}) <= Cardinality(socket[d]) + 1
        /\ p \in socket[d] => /\ Cardinality(socket[d]) = Cardinality(socket[d] \ {p}) + 1
                              /\ Cardinality(socket[d] \ {p}) \in Nat
    BY <1>4, OneMore
  <1>6. ASSUME \A x \in Disks \ {d} : socket'[x] = socket[x]
        PROVE  AtDisks' = AtDisks - Cardinality(socket[d]) + Cardinality(socket'[d])
    BY <1>1, <1>2, <1>6, TotalChange
  <1>7. ASSUME socket' = [socket EXCEPT ![d] = @ \cup {p}] PROVE AtDisks' <= AtDisks + 1
    <2>1. /\ \A x \in Disks \ {d} : socket'[x] = socket[x]
          /\ socket'[d] = socket[d] \cup {p}
      BY <1>1, <1>7
    <2>2. AtDisks' = AtDisks - Cardinality(socket[d]) + Cardinality(socket[d] \cup {p})
      BY <1>6, <2>1
    <2> QED
      BY <1>3, <1>5, <2>2
  <1>8. ASSUME p \in socket[d], socket' = [socket EXCEPT ![d] = @ \ {p}]
        PROVE  AtDisks = AtDisks' + 1
    <2>1. /\ \A x \in Disks \ {d} : socket'[x] = socket[x]
          /\ socket'[d] = socket[d] \ {p}
      BY <1>1, <1>8
    <2>2. AtDisks' = AtDisks - Cardinality(socket[d]) + Cardinality(socket[d] \ {p})
      BY <1>6, <2>1
    <2> QED
      BY <1>3, <1>5, <1>8, <2>2
  <1> QED
    BY <1>7, <1>8

\* The ring of a server's port.
LEMMA RingCounts ==
  ASSUME HostsTypes, ServerTypes', NEW k \in RingPorts, NEW p \in Requests,
         srvRing' = [srvRing EXCEPT ![k] = @ \cup {p}]
  PROVE  InRings' <= InRings + 1
  <1>1. srvRing \in [RingPorts -> SUBSET Requests] /\ srvRing' \in [RingPorts -> SUBSET Requests]
    BY DEF HostsTypes, ServerTypes
  <1>2. InRings' = Total(srvRing', RingPorts) /\ InRings = Total(srvRing, RingPorts)
    BY NumbersFollow DEF InRings
  <1>3. InRings \in Nat
    BY <1>1, <1>2, RingPortsFinite, TotalIs
  <1>4. /\ \A x \in RingPorts \ {k} : srvRing'[x] = srvRing[x]
        /\ srvRing'[k] = srvRing[k] \cup {p} /\ srvRing[k] \in SUBSET Requests
    BY <1>1
  <1>5. /\ Cardinality(srvRing[k]) \in Nat /\ Cardinality(srvRing[k] \cup {p}) \in Nat
        /\ Cardinality(srvRing[k] \cup {p}) <= Cardinality(srvRing[k]) + 1
    BY <1>4, OneMore
  <1>6. Total(srvRing', RingPorts)
           = Total(srvRing, RingPorts) - Cardinality(srvRing[k]) + Cardinality(srvRing'[k])
    <2> DEFINE t == srvRing'
    <2>1. t \in [RingPorts -> SUBSET Requests] /\ \A x \in RingPorts \ {k} : t[x] = srvRing[x]
      BY <1>1, <1>4
    <2> HIDE DEF t
    <2>2. Total(t, RingPorts)
             = Total(srvRing, RingPorts) - Cardinality(srvRing[k]) + Cardinality(t[k])
      BY <1>1, <2>1, RingPortsFinite, TotalChange
    <2> QED
      BY <2>2 DEF t
  <1>7. Cardinality(srvRing'[k]) = Cardinality(srvRing[k] \cup {p})
    BY <1>4
  <1> QED
    BY <1>2, <1>3, <1>5, <1>6, <1>7

LEMMA NumbersPrimed ==
  ASSUME ServerTypes', ClientTypes'
  PROVE  /\ InRings' \in Nat /\ InBatches' \in Nat /\ AtDisks' \in Nat
         /\ Cardinality(toDisk') \in Nat /\ Cardinality(Busy') \in Nat
         /\ SumFunction(toClient') \in Nat
         /\ pkt_recv' \in Nat /\ Transmitted' \in Nat /\ srvRecv' \in Nat /\ reply_num' \in Nat
  <1>0. /\ srvRing' \in [RingPorts -> SUBSET Requests]
        /\ srvBatch' \in [Lcores -> SUBSET Requests]
        /\ socket' \in [Disks -> SUBSET Requests]
        /\ toDisk' \in SUBSET Requests /\ srvRecv' \in Nat
    BY DEF ServerTypes, ToDisks
  <1>1. Total(srvRing', RingPorts) \in Nat
    BY <1>0, RingPortsFinite, TotalIs
  <1>2. Total(srvBatch', Lcores) \in Nat
    BY <1>0, LcoresFinite, TotalIs
  <1>3. Total(socket', Disks) \in Nat
    BY <1>0, ServerAssumption, TotalIs
  <1>4. Cardinality(toDisk') \in Nat
    BY <1>0, RequestsFinite, FS_Subset, FS_CardinalityType
  <1>5. Cardinality(Busy') \in Nat
    BY SizeNat DEF Busy
  <1>6. SumFunction(toClient') \in Nat
    BY BagSize DEF ClientTypes
  <1>7. pkt_sent' \in Nat
    BY DEF ClientTypes
  <1>8. Transmitted' \in Nat
    <2> DEFINE h == IF counting' THEN 1 ELSE 0
    <2>1. Transmitted' = pkt_sent' + h
      BY DEF Transmitted
    <2>2. h = 0 \/ h = 1
      BY Zenon
    <2> HIDE DEF h
    <2> QED
      BY <1>7, <2>1, <2>2
  <1> QED
    BY <1>0, <1>1, <1>2, <1>3, <1>4, <1>5, <1>6, <1>8, NumbersFollow DEF ClientTypes

\* A step of the server after which no more is under way than before.
LEMMA ServerKeeps ==
  ASSUME HostsTypes, HostsTypes', AllSent,
         UNCHANGED <<Transmitted, pkt_recv, toClient>>,
         InRings' + InBatches' + Cardinality(toDisk') + AtDisks' + Cardinality(Busy')
            <= InRings + InBatches + Cardinality(toDisk) + AtDisks + Cardinality(Busy)
  PROVE  AllSent'
  <1>1. /\ InRings \in Nat /\ InBatches \in Nat /\ AtDisks \in Nat
        /\ Cardinality(toDisk) \in Nat /\ Cardinality(Busy) \in Nat
        /\ SumFunction(toClient) \in Nat /\ pkt_recv \in Nat /\ Transmitted \in Nat
    BY NumbersAre DEF HostsTypes
  <1>2. /\ InRings' \in Nat /\ InBatches' \in Nat /\ AtDisks' \in Nat
        /\ Cardinality(toDisk') \in Nat /\ Cardinality(Busy') \in Nat
    BY NumbersPrimed DEF HostsTypes
  <1>3. SumFunction(toClient') = SumFunction(toClient) /\ pkt_recv' = pkt_recv /\ Transmitted' = Transmitted
    OBVIOUS
  <1> QED
    BY <1>1, <1>2, <1>3 DEF AllSent

LEMMA Shifts ==
  ASSUME NEW a \in Nat, NEW b \in Nat, NEW c \in Nat, NEW d \in Nat, NEW e \in Nat,
         NEW f \in Nat, NEW g \in Nat, NEW h \in Nat
  PROVE  /\ f + g <= a + b => f + g + c + d + e <= a + b + c + d + e
         /\ g + h <= b + c => a + g + h + d + e <= a + b + c + d + e
  OBVIOUS

LEMMA ServerStepCounts ==
  ASSUME HostsTypes, HostsTypes', AllSent, NEW l \in Lcores, ServerStep(l), UNCHANGED cliVars
  PROVE  AllSent'
  <1>0. /\ srvPc \in [Lcores -> Steps] /\ ServerTypes /\ ServerTypes'
        /\ UNCHANGED <<Transmitted, pkt_recv, toClient>>
    BY SentSame DEF HostsTypes, ServerTypes, cliVars
  <1>n. /\ InRings \in Nat /\ InBatches \in Nat /\ AtDisks \in Nat
        /\ Cardinality(toDisk) \in Nat /\ Cardinality(Busy) \in Nat
    BY NumbersAre DEF HostsTypes
  <1>p. /\ InRings' \in Nat /\ InBatches' \in Nat /\ AtDisks' \in Nat
        /\ Cardinality(toDisk') \in Nat /\ Cardinality(Busy') \in Nat
    BY NumbersPrimed DEF HostsTypes
  <1>q. /\ AfterPoll[1] = "recv"
        /\ \A i \in 1..Cardinality(Disks) : AfterSocket(i)[1] \in {"recv", "poll"}
    BY NextPlaces DEF AfterPoll
  <1>s. srvPc[l][1] \in AtSocket => srvPc[l][2] \in 1..Cardinality(Disks)
    BY <1>0, PlaceIs
  <1>b. ASSUME NEW c, srvPc' = [srvPc EXCEPT ![l] = c],
               c[1] \in {"generate", "send"} <=> srvPc[l][1] \in {"generate", "send"}
        PROVE  Cardinality(Busy') = Cardinality(Busy)
    <2>1. (\A k \in Lcores \ {l} : srvPc'[k] = srvPc[k]) /\ srvPc'[l] = c
      BY <1>0, <1>b
    <2>2. l \in Busy <=> l \in Busy'
      BY <1>b, <2>1 DEF Busy
    <2> QED
      BY <2>1, <2>2, BusyChange
  <1>1. CASE Poll(l)
    <2>1. InRings' + InBatches' <= InRings + InBatches
      BY <1>0, <1>1, PollCounts
    <2>2. /\ UNCHANGED <<toDisk, socket>> /\ srvPc[l][1] = "poll"
          /\ \E c \in {AfterPoll, <<"packet", 0>>} : srvPc' = [srvPc EXCEPT ![l] = c]
      BY <1>1 DEF Poll, Goto
    <2>3. Cardinality(Busy') = Cardinality(Busy)
      <3>1. PICK c \in {AfterPoll, <<"packet", 0>>} : srvPc' = [srvPc EXCEPT ![l] = c]
        BY <2>2
      <3>2. c[1] \notin {"generate", "send"} /\ srvPc[l][1] \notin {"generate", "send"}
        BY <1>q, <2>2
      <3> QED
        BY <1>b, <3>1, <3>2
    <2>4. AtDisks' = AtDisks /\ Cardinality(toDisk') = Cardinality(toDisk)
      BY <2>2, NumbersFollow
    <2>5. InRings' + InBatches' + Cardinality(toDisk') + AtDisks' + Cardinality(Busy')
             <= InRings + InBatches + Cardinality(toDisk) + AtDisks + Cardinality(Busy)
      BY <1>n, <1>p, <2>1, <2>3, <2>4, Shifts
    <2> QED
      BY <1>0, <2>5, ServerKeeps
  <1>2. CASE TakeLatency(l) \/ RecvNone(l) \/ Generate(l)
    <2>1. UNCHANGED <<srvRing, srvBatch, toDisk, socket>>
      BY <1>2 DEF TakeLatency, RecvNone, Generate
    <2>2. Cardinality(Busy') = Cardinality(Busy)
      <3>1. CASE TakeLatency(l)
        BY <1>b, <3>1 DEF TakeLatency, Goto
      <3>2. CASE RecvNone(l)
        <4>1. AfterSocket(srvPc[l][2])[1] \in {"recv", "poll"} /\ srvPc[l][1] = "recv"
          BY <1>q, <1>s, <3>2 DEF RecvNone, AtSocket
        <4> QED
          BY <1>b, <3>2, <4>1 DEF RecvNone, Goto
      <3>3. CASE Generate(l)
        <4>1. srvPc' = srvPc \/ srvPc' = [srvPc EXCEPT ![l] = <<"send", srvPc[l][2]>>]
          BY <3>3 DEF Generate, Goto
        <4>2. srvPc[l][1] = "generate"
          BY <3>3 DEF Generate
        <4> QED
          BY <1>b, <4>1, <4>2, NumbersFollow
      <3> QED
        BY <1>2, <3>1, <3>2, <3>3
    <2>3. /\ AtDisks' = AtDisks /\ Cardinality(toDisk') = Cardinality(toDisk)
          /\ InRings' = InRings /\ InBatches' = InBatches
      BY <2>1, NumbersFollow
    <2>4. InRings' + InBatches' + Cardinality(toDisk') + AtDisks' + Cardinality(Busy')
             <= InRings + InBatches + Cardinality(toDisk) + AtDisks + Cardinality(Busy)
      BY <1>n, <1>p, <2>2, <2>3
    <2> QED
      BY <1>0, <2>4, ServerKeeps
  <1>3. CASE ForwardPacket(l)
    <2>1. /\ InRings' = InRings /\ AtDisks' = AtDisks
          /\ \/ /\ srvStatus' = srvStatus /\ InBatches' = InBatches - 1
                /\ Cardinality(toDisk') <= Cardinality(toDisk) + 1
             \/ /\ srvStatus' = "send failed" /\ UNCHANGED <<toDisk, srvBatch, srvPc>>
      BY <1>0, <1>3, ForwardCounts
    <2>2. InBatches' + Cardinality(toDisk') <= InBatches + Cardinality(toDisk)
      <3>1. CASE InBatches' = InBatches - 1 /\ Cardinality(toDisk') <= Cardinality(toDisk) + 1
        BY <1>n, <1>p, <3>1
      <3>2. CASE UNCHANGED <<toDisk, srvBatch, srvPc>>
        <4>1. InBatches' = InBatches /\ Cardinality(toDisk') = Cardinality(toDisk)
          BY <3>2, NumbersFollow
        <4> QED
          BY <1>n, <4>1
      <3> QED
        BY <2>1, <3>1, <3>2
    <2>3. Cardinality(Busy') = Cardinality(Busy)
      <3>1. /\ srvPc[l][1] = "forward"
            /\ srvPc' = srvPc \/ \E c \in {AfterPoll, <<"packet", 0>>} :
                                     srvPc' = [srvPc EXCEPT ![l] = c]
        BY <1>3 DEF ForwardPacket, Goto
      <3>2. CASE srvPc' = srvPc
        BY <3>2, NumbersFollow
      <3>3. ASSUME NEW c \in {AfterPoll, <<"packet", 0>>}, srvPc' = [srvPc EXCEPT ![l] = c]
            PROVE  Cardinality(Busy') = Cardinality(Busy)
        <4>1. c[1] \notin {"generate", "send"} /\ srvPc[l][1] \notin {"generate", "send"}
          BY <1>q, <3>1
        <4> QED
          BY <1>b, <3>3, <4>1
      <3> QED
        BY <3>1, <3>2, <3>3
    <2>4. InRings' + InBatches' + Cardinality(toDisk') + AtDisks' + Cardinality(Busy')
             <= InRings + InBatches + Cardinality(toDisk) + AtDisks + Cardinality(Busy)
      <3>1. InRings + InBatches' + Cardinality(toDisk') + AtDisks + Cardinality(Busy)
               <= InRings + InBatches + Cardinality(toDisk) + AtDisks + Cardinality(Busy)
        BY <1>n, <1>p, <2>2, Shifts
      <3>2. InRings' = InRings /\ AtDisks' = AtDisks
        BY <2>1
      <3> QED
        BY <2>3, <3>1, <3>2
    <2> QED
      BY <1>0, <2>4, ServerKeeps
  <1>4. CASE Recv(l)
    <2> DEFINE i == srvPc[l][2]  d == Sockets[i]
    <2>1. i \in 1..Cardinality(Disks) /\ d \in Disks /\ srvPc[l][1] = "recv"
      BY <1>4, <1>s, SocketOrder DEF Recv, AtSocket
    <2> HIDE DEF d
    <2>2. PICK p \in socket[d] :
              /\ socket' = [socket EXCEPT ![d] = @ \ {p}]
              /\ \E c \in {<<"generate", i>>, AfterSocket(i)} : srvPc' = [srvPc EXCEPT ![l] = c]
      BY <1>4 DEF Recv, Goto, d
    <2>3. p \in Requests
      BY <1>0, <2>1, <2>2 DEF ServerTypes
    <2>4. AtDisks = AtDisks' + 1
      BY <1>0, <2>1, <2>2, <2>3, SocketCounts
    <2>5. Cardinality(Busy') <= Cardinality(Busy) + 1
      <3>1. PICK c \in {<<"generate", i>>, AfterSocket(i)} : srvPc' = [srvPc EXCEPT ![l] = c]
        BY <2>2
      <3>2. \A k \in Lcores \ {l} : srvPc'[k] = srvPc[k]
        BY <1>0, <3>1
      <3>3. l \notin Busy
        BY <2>1 DEF Busy
      <3> QED
        BY <1>n, <3>2, <3>3, BusyChange
    <2>6. UNCHANGED <<srvRing, srvBatch, toDisk>>
      BY <1>4 DEF Recv
    <2>7. InRings' = InRings /\ InBatches' = InBatches /\ Cardinality(toDisk') = Cardinality(toDisk)
      BY <2>6, NumbersFollow
    <2>8. InRings' + InBatches' + Cardinality(toDisk') + AtDisks' + Cardinality(Busy')
             <= InRings + InBatches + Cardinality(toDisk) + AtDisks + Cardinality(Busy)
      BY <1>n, <1>p, <2>4, <2>5, <2>7
    <2> QED
      BY <1>0, <2>8, ServerKeeps
  <1> QED
    BY <1>1, <1>2, <1>3, <1>4 DEF ServerStep

LEMMA AllSentStep ==
  ASSUME HostsTypes, HostsTypes', AllSent, [Next]_vars
  PROVE  AllSent'
  <1>0. ServerTypes /\ ServerTypes' /\ ClientTypes /\ PacketsHeld
    BY DEF HostsTypes
  <1>n. /\ InRings \in Nat /\ InBatches \in Nat /\ AtDisks \in Nat
        /\ Cardinality(toDisk) \in Nat /\ Cardinality(Busy) \in Nat
        /\ SumFunction(toClient) \in Nat /\ pkt_recv \in Nat /\ Transmitted \in Nat
    BY NumbersAre DEF HostsTypes
  <1>p. /\ InRings' \in Nat /\ InBatches' \in Nat /\ AtDisks' \in Nat
        /\ Cardinality(toDisk') \in Nat /\ Cardinality(Busy') \in Nat
        /\ SumFunction(toClient') \in Nat /\ pkt_recv' \in Nat
    BY NumbersPrimed DEF HostsTypes
  <1>1. CASE \/ StartServer \/ StartClient \/ UNCHANGED vars
             \/ PrintLatencies /\ UNCHANGED srvVars
    <2>1. UNCHANGED <<srvRing, srvBatch, toDisk, socket, srvPc, toClient, pkt_recv, sentVars>>
      BY <1>1 DEF StartServer, StartClient, SrvStart, CliStart, PrintLatencies, vars, srvVars, cliVars
    <2>2. /\ InRings' = InRings /\ InBatches' = InBatches /\ AtDisks' = AtDisks
          /\ Cardinality(toDisk') = Cardinality(toDisk) /\ Cardinality(Busy') = Cardinality(Busy)
          /\ SumFunction(toClient') = SumFunction(toClient)
          /\ pkt_recv' = pkt_recv /\ Transmitted' = Transmitted
      BY <2>1, NumbersFollow, SentSame
    <2> QED
      BY <2>2 DEF AllSent
  <1>2. CASE Request
    <2>1. UNCHANGED <<srvBatch, toDisk, socket, srvPc, toClient, pkt_recv>>
      BY <1>2 DEF Request, SendRequest, CountSent, SendFails, srvVars, runVars
    <2>2. /\ InBatches' = InBatches /\ AtDisks' = AtDisks
          /\ Cardinality(toDisk') = Cardinality(toDisk) /\ Cardinality(Busy') = Cardinality(Busy)
          /\ SumFunction(toClient') = SumFunction(toClient) /\ pkt_recv' = pkt_recv
      BY <2>1, NumbersFollow
    <2>3. \/ InRings' = InRings /\ (Transmitted' = Transmitted \/ Transmitted' = Transmitted + 1)
          \/ InRings' <= InRings + 1 /\ Transmitted' = Transmitted + 1
      <3>1. CASE (CountSent \/ SendFails) /\ UNCHANGED srvVars
        <4>1. Transmitted' = Transmitted /\ srvRing' = srvRing
          BY <1>0, <3>1, SentSame, SentThen DEF SendFails, srvVars
        <4> QED
          BY <4>1, NumbersFollow
      <3>2. ASSUME NEW p \in Requests, SendRequest(p),
                   \/ srvRing' = [srvRing EXCEPT ![ServerPort[p.disk]] = @ \cup {p}]
                   \/ srvRing' = srvRing
            PROVE  InRings' <= InRings + 1 /\ Transmitted' = Transmitted + 1
        <4>1. Transmitted' = Transmitted + 1
          BY <1>0, <3>2, SentThen
        <4>2. CASE srvRing' = srvRing
          BY <1>n, <4>1, <4>2, NumbersFollow
        <4>3. CASE srvRing' = [srvRing EXCEPT ![ServerPort[p.disk]] = @ \cup {p}]
          <5>1. ServerPort[p.disk] \in RingPorts
            BY DEF RingPorts, Requests
          <5> QED
            BY <1>0, <4>1, <4>3, <5>1, RingCounts
        <4> QED
          BY <3>2, <4>2, <4>3
      <3> QED
        BY <1>2, <3>1, <3>2 DEF Request
    <2> QED
      BY <1>n, <1>p, <2>2, <2>3 DEF AllSent
  <1>3. ASSUME NEW l \in Lcores, ServerLcore(l) PROVE AllSent'
    <2>1. CASE ServerStep(l) /\ UNCHANGED cliVars
      BY <2>1, ServerStepCounts
    <2>2. CASE Reply(l)
      <3>1. PICK sent \in Bursts(l) : Transmit(l, sent) /\ toClient' = toClient (+) sent
        BY <2>2 DEF Reply
      <3>2. UNCHANGED <<srvRing, srvBatch, toDisk, socket, pkt_recv, Transmitted>>
        BY <2>2, SentSame DEF Reply, Transmit
      <3>3. /\ InRings' = InRings /\ InBatches' = InBatches /\ AtDisks' = AtDisks
            /\ Cardinality(toDisk') = Cardinality(toDisk)
            /\ pkt_recv' = pkt_recv /\ Transmitted' = Transmitted
        BY <3>2, NumbersFollow
      <3>4. Cardinality(Busy) = Cardinality(Busy') + 1
        <4>1. /\ srvPc' = [srvPc EXCEPT ![l] = AfterSocket(srvPc[l][2])]
              /\ srvPc[l][1] = "send" /\ srvPc \in [Lcores -> Steps]
          BY <1>0, <3>1 DEF Transmit, Goto, ServerTypes
        <4>2. srvPc[l][2] \in 1..Cardinality(Disks)
          BY <4>1, PlaceIs DEF AtSocket
        <4>3. AfterSocket(srvPc[l][2])[1] \in {"recv", "poll"}
          BY <4>2, NextPlaces
        <4>4. (\A k \in Lcores \ {l} : srvPc'[k] = srvPc[k]) /\ l \in Busy /\ l \notin Busy'
          BY <4>1, <4>3 DEF Busy
        <4> QED
          BY <4>4, BusyChange
      <3>5. SumFunction(toClient') <= SumFunction(toClient) + 1
        <4>1. CASE sent = SetToBag(srvMbuf[l])
          <5>1. PICK p \in Requests : srvMbuf[l] = {p}
            BY <1>0, <3>1 DEF PacketsHeld, Transmit, OnePacket
          <5>2. SumFunction(toClient') = SumFunction(toClient) + 1
            BY <1>0, <3>1, <4>1, <5>1, BagSizePut DEF ClientTypes
          <5> QED
            BY <1>n, <5>2
        <4>2. CASE sent = EmptyBag
          <5>1. toClient (+) EmptyBag = toClient
            BY <1>0 DEF ClientTypes, BagOK, IsABag, (+), EmptyBag, SetToBag
          <5> QED
            BY <1>n, <3>1, <4>2, <5>1
        <4> QED
          BY <3>1, <4>1, <4>2 DEF Bursts
      <3> QED
        BY <1>n, <1>p, <3>3, <3>4, <3>5 DEF AllSent
    <2> QED
      BY <1>3, <2>1, <2>2 DEF ServerLcore, ServerStep
  <1>4. CASE Disk
    <2>1. PICK p \in Requests : Answer(p) /\ UNCHANGED cliVars
      BY <1>4 DEF Disk
    <2>2. /\ p \in toDisk /\ toDisk' = toDisk \ {p} /\ p.disk \in Disks /\ toDisk \in SUBSET Requests
          /\ socket' = [socket EXCEPT ![p.disk] = @ \cup {p}]
          /\ UNCHANGED <<srvRing, srvBatch, srvPc, toClient, pkt_recv, Transmitted>>
      BY <1>0, <2>1, SentSame DEF Answer, ServerTypes, ToDisks, cliVars
    <2>3. AtDisks' <= AtDisks + 1
      BY <2>2, SocketCounts DEF HostsTypes
    <2>4. Cardinality(toDisk) = Cardinality(toDisk') + 1
      BY <2>2, OneMore
    <2>5. /\ InRings' = InRings /\ InBatches' = InBatches /\ Cardinality(Busy') = Cardinality(Busy)
          /\ SumFunction(toClient') = SumFunction(toClient)
          /\ pkt_recv' = pkt_recv /\ Transmitted' = Transmitted
      BY <2>2, NumbersFollow
    <2> QED
      BY <1>n, <1>p, <2>3, <2>4, <2>5 DEF AllSent
  <1>5. CASE RecvReplies /\ UNCHANGED srvVars
    <2>1. PICK burst \in PartsOf(toClient) :
              toClient' = toClient (-) burst /\ pkt_recv' = pkt_recv + SumFunction(burst)
      BY <1>5 DEF RecvReplies
    <2>2. SumFunction(toClient) = SumFunction(toClient') + SumFunction(burst)
      BY <1>0, <2>1, BagSizeTake DEF ClientTypes
    <2>3. SumFunction(burst) \in Nat
      BY <1>0, <2>1, BagTake, BagSize DEF ClientTypes
    <2>4. UNCHANGED <<srvRing, srvBatch, srvPc, toDisk, socket, Transmitted>>
      BY <1>5, SentSame DEF RecvReplies, srvVars
    <2>5. /\ InRings' = InRings /\ InBatches' = InBatches /\ Cardinality(Busy') = Cardinality(Busy)
          /\ AtDisks' = AtDisks /\ Cardinality(toDisk') = Cardinality(toDisk)
          /\ Transmitted' = Transmitted
      BY <2>4, NumbersFollow
    <2> QED
      BY <1>n, <1>p, <2>1, <2>2, <2>3, <2>5 DEF AllSent
  <1>6. \/ StartServer \/ StartClient \/ Request \/ Disk
        \/ \E l \in Lcores : ServerLcore(l)
        \/ RecvReplies /\ UNCHANGED srvVars
        \/ PrintLatencies /\ UNCHANGED srvVars
        \/ UNCHANGED vars
    BY DEF Next, Receive
  <1> HIDE DEF Next
  <1>7. CASE \E l \in Lcores : ServerLcore(l)
    BY <1>3, <1>7
  <1> QED
    BY <1>1, <1>2, <1>4, <1>5, <1>6, <1>7, Zenon

\* What the lcores have read of pkt_recv, and the packets they read it for.
LEMMA SlotsSame ==
  ASSUME HostsTypes, HostsTypes', SlotsTaken,
         UNCHANGED <<srvRing, srvBatch, srvSlot, srvRecv, Transmitted>>,
         srvStatus' \in {"off", "run"} => srvStatus \in {"off", "run"}
  PROVE  SlotsTaken'
  <1>1. InRings' = InRings /\ InBatches' = InBatches
    BY NumbersFollow
  <1>2. srvRecv' = srvRecv /\ srvSlot' = srvSlot /\ Transmitted' = Transmitted
    OBVIOUS
  <1> QED
    BY <1>1, <1>2 DEF SlotsTaken

LEMMA Fits ==
  ASSUME NEW i \in Nat, NEW r \in Nat, NEW b \in Nat, NEW n \in Nat, NEW q \in Nat, NEW c \in Nat
  PROVE  /\ i + r + b <= n => i + r <= n
         /\ i + r + b <= n /\ q + c <= r + b => i + q + c <= n /\ i + q <= n
         /\ i + r + b <= n + 1 /\ b >= 1 => i + r <= n
         /\ i + r + b <= n + 1 /\ c = b - 1 => i + r + c <= n
  OBVIOUS

LEMMA SlotsLcore ==
  ASSUME HostsTypes, HostsTypes', SlotsTaken, NEW l \in Lcores,
         \/ Poll(l) \/ TakeLatency(l) \/ ForwardPacket(l),
         UNCHANGED cliVars
  PROVE  SlotsTaken'
  <1>0. /\ ServerTypes /\ ServerTypes' /\ Transmitted' = Transmitted
        /\ srvSlot \in [Lcores -> Nat] /\ srvRecv \in Nat /\ srvRecv' \in Nat
        /\ srvSlot' \in [Lcores -> Nat]
    BY SentSame DEF HostsTypes, ServerTypes, cliVars
  <1>n. /\ InRings \in Nat /\ InBatches \in Nat /\ Transmitted \in Nat
        /\ InRings' \in Nat /\ InBatches' \in Nat
    BY NumbersAre, NumbersPrimed DEF HostsTypes
  <1>r. srvStatus = "run"
    BY DEF Poll, TakeLatency, ForwardPacket, Running
  <1>s. /\ srvRecv + InRings + InBatches <= Transmitted
        /\ \A k \in Lcores : srvSlot[k] + InRings + InBatches <= Transmitted
    BY <1>r DEF SlotsTaken
  <1>1. CASE Poll(l)
    <2>1. InRings' + InBatches' <= InRings + InBatches /\ InRings' <= InRings
      BY <1>0, <1>1, PollCounts
    <2>2. srvRecv' = srvRecv /\ srvSlot' = srvSlot
      BY <1>1 DEF Poll
    <2>3. srvRecv' + InRings' + InBatches' <= Transmitted' /\ srvRecv' + InRings' <= Transmitted'
      <3>1. srvRecv + InRings' + InBatches' <= Transmitted /\ srvRecv + InRings' <= Transmitted
        BY <1>0, <1>n, <1>s, <2>1, Fits
      <3> QED
        BY <1>0, <2>2, <3>1
    <2>4. ASSUME NEW k \in Lcores PROVE srvSlot'[k] + InRings' + InBatches' <= Transmitted'
      <3>1. srvSlot[k] \in Nat /\ srvSlot[k] + InRings + InBatches <= Transmitted
        BY <1>0, <1>s
      <3>2. srvSlot[k] + InRings' + InBatches' <= Transmitted
        BY <1>n, <2>1, <3>1, Fits
      <3> QED
        BY <1>0, <2>2, <3>2
    <2> QED
      BY <2>3, <2>4 DEF SlotsTaken
  <1>2. CASE TakeLatency(l)
    <2>1. UNCHANGED <<srvRing, srvBatch, srvRecv>> /\ srvSlot' = [srvSlot EXCEPT ![l] = srvRecv]
      BY <1>2 DEF TakeLatency
    <2>2. InRings' = InRings /\ InBatches' = InBatches
      BY <2>1, NumbersFollow
    <2>3. srvRecv' + InRings' + InBatches' <= Transmitted' /\ srvRecv' + InRings' <= Transmitted'
      <3>1. srvRecv + InRings <= Transmitted
        BY <1>0, <1>n, <1>s
      <3> QED
        BY <1>0, <1>s, <2>1, <2>2, <3>1
    <2>4. \A k \in Lcores : srvSlot'[k] = srvSlot[k] \/ srvSlot'[k] = srvRecv
      BY <1>0, <2>1
    <2>5. \A k \in Lcores : srvSlot'[k] + InRings' + InBatches' <= Transmitted'
      BY <1>0, <1>s, <2>2, <2>4
    <2> QED
      BY <2>3, <2>5 DEF SlotsTaken
  <1>3. CASE ForwardPacket(l)
    <2>1. srvRecv' \in Counters(l) /\ srvSlot' = srvSlot
      BY <1>3 DEF ForwardPacket
    <2>2. srvRecv' <= srvSlot[l] + 1 \/ srvRecv' <= srvRecv + 1
      BY <1>0, <2>1 DEF Counters
    <2>3. srvRecv' + InRings + InBatches <= Transmitted + 1
      <3>1. srvSlot[l] \in Nat /\ srvSlot[l] + InRings + InBatches <= Transmitted
        BY <1>0, <1>s
      <3>2. ASSUME NEW i \in Nat, i + InRings + InBatches <= Transmitted, srvRecv' <= i + 1
            PROVE  srvRecv' + InRings + InBatches <= Transmitted + 1
        <4> DEFINE r == InRings  b == InBatches  n == Transmitted  q == srvRecv'
        <4>1. /\ i \in Nat /\ r \in Nat /\ b \in Nat /\ n \in Nat /\ q \in Nat
              /\ i + r + b <= n /\ q <= i + 1
          BY <1>0, <1>n, <3>2
        <4> HIDE DEF r, b, n, q
        <4>2. q + r + b <= n + 1
          BY <4>1
        <4> QED
          BY <4>2 DEF r, b, n, q
      <3> QED
        BY <1>0, <1>s, <2>2, <3>1, <3>2
    <2>4. /\ InRings' = InRings /\ InBatches >= 1
          /\ \/ InBatches' = InBatches - 1
             \/ srvStatus' = "send failed"
      BY <1>0, <1>3, ForwardCounts
    <2>5. srvRecv' + InRings' <= Transmitted'
      <3>1. srvRecv' + InRings <= Transmitted
        BY <1>0, <1>n, <2>3, <2>4, Fits
      <3> QED
        BY <1>0, <2>4, <3>1
    <2>6. CASE InBatches' = InBatches - 1
      <3>1. srvRecv' + InRings' + InBatches' <= Transmitted'
        <4>1. srvRecv' + InRings + InBatches' <= Transmitted
          <5> DEFINE r == InRings  b == InBatches  n == Transmitted  q == srvRecv'  c == InBatches'
          <5>1. /\ q \in Nat /\ r \in Nat /\ b \in Nat /\ n \in Nat /\ c \in Nat
                /\ q + r + b <= n + 1 /\ c = b - 1
            BY <1>0, <1>n, <2>3, <2>6
          <5> HIDE DEF r, b, n, q, c
          <5>2. q + r + c <= n
            BY <5>1
          <5> QED
            BY <5>2 DEF r, b, n, q, c
        <4> QED
          BY <1>0, <2>4, <4>1
      <3>2. ASSUME NEW k \in Lcores PROVE srvSlot'[k] + InRings' + InBatches' <= Transmitted'
        <4>1. srvSlot[k] \in Nat /\ srvSlot[k] + InRings + InBatches <= Transmitted
          BY <1>0, <1>s
        <4>2. srvSlot[k] + InRings + InBatches' <= Transmitted
          BY <1>n, <2>6, <4>1
        <4> QED
          BY <1>0, <2>1, <2>4, <4>2
      <3> QED
        BY <2>5, <3>1, <3>2 DEF SlotsTaken
    <2>7. CASE srvStatus' = "send failed"
      BY <2>5, <2>7 DEF SlotsTaken
    <2> QED
      BY <2>4, <2>6, <2>7
  <1> QED
    BY <1>1, <1>2, <1>3

LEMMA SlotsRequest ==
  ASSUME HostsTypes, HostsTypes', SlotsTaken, NEW p \in Requests, SendRequest(p),
         UNCHANGED <<srvStatus, srvBatch, srvSlot, srvRecv>>,
         \/ srvRing' = [srvRing EXCEPT ![ServerPort[p.disk]] = @ \cup {p}]
         \/ srvRing' = srvRing
  PROVE  SlotsTaken'
  <1>0. /\ ServerTypes /\ ServerTypes' /\ Transmitted' = Transmitted + 1
        /\ srvSlot \in [Lcores -> Nat] /\ srvRecv \in Nat
        /\ srvStatus' = srvStatus /\ srvRecv' = srvRecv /\ srvSlot' = srvSlot
    BY SentThen DEF HostsTypes, ServerTypes
  <1>n. /\ InRings \in Nat /\ InBatches \in Nat /\ Transmitted \in Nat
        /\ InRings' \in Nat /\ InBatches' \in Nat
    BY NumbersAre, NumbersPrimed DEF HostsTypes
  <1>1. InRings' <= InRings + 1
    <2>1. CASE srvRing' = srvRing
      BY <1>n, <2>1, NumbersFollow
    <2>2. CASE srvRing' = [srvRing EXCEPT ![ServerPort[p.disk]] = @ \cup {p}]
      <3>1. ServerPort[p.disk] \in RingPorts
        BY DEF RingPorts, Requests
      <3> QED
        BY <1>0, <2>2, <3>1, RingCounts
    <2> QED
      BY <2>1, <2>2
  <1>2. InBatches' = InBatches
    BY NumbersFollow
  <1>3. ASSUME NEW i \in Nat
        PROVE  /\ i + InRings + InBatches <= Transmitted => i + InRings' + InBatches' <= Transmitted'
               /\ i + InRings <= Transmitted => i + InRings' <= Transmitted'
    <2> DEFINE a == InRings  b == InBatches  n == Transmitted  c == InRings'  m == Transmitted'
    <2>1. /\ a \in Nat /\ b \in Nat /\ n \in Nat /\ c \in Nat
          /\ c <= a + 1 /\ m = n + 1 /\ InBatches' = b
      BY <1>0, <1>n, <1>1, <1>2
    <2> HIDE DEF a, b, n, c, m
    <2>2. (i + a + b <= n => i + c + b <= m) /\ (i + a <= n => i + c <= m)
      BY <2>1
    <2> QED
      BY <1>2, <2>2 DEF a, b, n, c, m
  <1>4. srvRecv' + InRings' <= Transmitted'
    BY <1>0, <1>3 DEF SlotsTaken
  <1>5. ASSUME srvStatus \in {"off", "run"}
        PROVE  /\ srvRecv' + InRings' + InBatches' <= Transmitted'
               /\ \A k \in Lcores : srvSlot'[k] + InRings' + InBatches' <= Transmitted'
    <2>1. srvRecv' + InRings' + InBatches' <= Transmitted'
      BY <1>0, <1>3, <1>5 DEF SlotsTaken
    <2>2. ASSUME NEW k \in Lcores PROVE srvSlot'[k] + InRings' + InBatches' <= Transmitted'
      <3>1. srvSlot[k] \in Nat /\ srvSlot[k] + InRings + InBatches <= Transmitted
        BY <1>0, <1>5 DEF SlotsTaken
      <3>2. srvSlot[k] + InRings' + InBatches' <= Transmitted'
        BY <1>3, <3>1
      <3> QED
        BY <1>0, <3>2
    <2> QED
      BY <2>1, <2>2
  <1> QED
    BY <1>0, <1>4, <1>5 DEF SlotsTaken

LEMMA SlotsStep ==
  ASSUME HostsTypes, HostsTypes', SlotsTaken, [Next]_vars
  PROVE  SlotsTaken'
  <1>1. CASE StartServer \/ StartClient \/ Disk \/ Receive \/ UNCHANGED vars
    <2>1. UNCHANGED <<srvRing, srvBatch, srvSlot, srvRecv, Transmitted>>
      BY <1>1, SentSame DEF StartServer, StartClient, SrvStart, CliStart, Disk, Answer, Receive,
                  RecvReplies, PrintLatencies, vars, srvVars, cliVars
    <2>2. srvStatus' \in {"off", "run"} => srvStatus \in {"off", "run"}
      <3>1. StartServer => srvStatus = "off"
        BY DEF StartServer, SrvStart
      <3>2. StartClient \/ Disk \/ Receive \/ UNCHANGED vars => srvStatus' = srvStatus
        BY DEF StartClient, Disk, Answer, loopVars, Receive, vars, srvVars
      <3> QED
        BY <1>1, <3>1, <3>2
    <2> QED
      BY <2>1, <2>2, SlotsSame
  <1>2. CASE Request
    <2>1. CASE (CountSent \/ SendFails) /\ UNCHANGED srvVars
      <3>1. /\ UNCHANGED <<srvRing, srvBatch, srvSlot, srvRecv, Transmitted>>
            /\ srvStatus' = srvStatus
        BY <2>1, SentSame, SentThen DEF SendFails, srvVars, HostsTypes
      <3> QED
        BY <3>1, SlotsSame
    <2>2. ASSUME NEW p \in Requests, SendRequest(p),
                 UNCHANGED <<srvStatus, srvBatch, srvSlot, srvRecv>>,
                 \/ srvRing' = [srvRing EXCEPT ![ServerPort[p.disk]] = @ \cup {p}]
                 \/ srvRing' = srvRing
          PROVE  SlotsTaken'
      BY <2>2, SlotsRequest
    <2> QED
      BY <1>2, <2>1, <2>2 DEF Request
  <1>3. ASSUME NEW l \in Lcores, ServerLcore(l) PROVE SlotsTaken'
    <2>1. CASE (Poll(l) \/ TakeLatency(l) \/ ForwardPacket(l)) /\ UNCHANGED cliVars
      BY <2>1, SlotsLcore
    <2>2. CASE (RecvNone(l) \/ Recv(l) \/ Generate(l)) /\ UNCHANGED cliVars
      <3>1. /\ UNCHANGED <<srvRing, srvBatch, srvSlot, srvRecv, Transmitted>>
            /\ srvStatus = "run"
        BY <2>2, SentSame DEF RecvNone, Recv, Generate, Running, cliVars
      <3> QED
        BY <3>1, SlotsSame
    <2>3. CASE Reply(l)
      <3>1. /\ UNCHANGED <<srvRing, srvBatch, srvSlot, srvRecv, Transmitted>>
            /\ srvStatus = "run"
        BY <2>3, SentSame DEF Reply, Transmit, Running
      <3> QED
        BY <3>1, SlotsSame
    <2> QED
      BY <1>3, <2>1, <2>2, <2>3 DEF ServerLcore
  <1> QED
    BY <1>1, <1>2, <1>3 DEF Next

\* The client looks at pkt_recv before every burst.
LEMMA ClientStops ==
  ASSUME HostsTypes, HostsTypes', pkt_recv < reply_num + CliBurst, [Next]_vars
  PROVE  pkt_recv' < reply_num' + CliBurst
  <1>1. /\ pkt_recv \in Nat /\ reply_num \in Nat /\ CliBurst \in Nat
    BY ClientAssumption DEF HostsTypes, ClientTypes
  <1>2. CASE RecvReplies
    <2>1. PICK burst \in PartsOf(toClient) :
              SumFunction(burst) <= CliBurst /\ pkt_recv' = pkt_recv + SumFunction(burst)
      BY <1>2 DEF RecvReplies
    <2>2. pkt_recv < reply_num /\ reply_num' = reply_num
      BY <1>2 DEF RecvReplies, Waiting, runVars
    <2>3. SumFunction(burst) \in Nat
      BY <2>1, BagTake, BagSize DEF HostsTypes, ClientTypes
    <2> QED
      BY <1>1, <2>1, <2>2, <2>3
  <1>3. CASE ~RecvReplies
    <2>1. pkt_recv' = pkt_recv /\ reply_num' = reply_num
      BY <1>3 DEF Next, StartServer, StartClient, CliStart, Request, SendRequest, CountSent,
                  SendFails, ServerLcore, Reply, Disk, Receive, PrintLatencies, vars, cliVars, runVars
    <2> QED
      BY <2>1
  <1> QED
    BY <1>2, <1>3

LEMMA TotalNone ==
  ASSUME NEW S, IsFiniteSet(S), NEW r \in [S -> SUBSET Requests], \A x \in S : r[x] = {}
  PROVE  Total(r, S) = 0
  <1> DEFINE f == Sizes(r, S)
  <1>1. \A x \in S : f[x] = Cardinality(r[x])
    BY TotalIs
  <1>2. \A x \in S : f[x] \in Nat /\ f[x] <= 0
    BY <1>1, FS_EmptySet
  <1> HIDE DEF f
  <1>3. SumFunctionOnSet(f, S) \in Nat /\ SumFunctionOnSet(f, S) <= 0 * Cardinality(S)
    BY <1>2, SumsBounded
  <1>4. 0 * Cardinality(S) = 0
    BY FS_CardinalityType
  <1> QED
    BY <1>3, <1>4 DEF Total, f

LEMMA CountersInit == Init => CountersOK
  <1> SUFFICES ASSUME Init PROVE CountersOK
    OBVIOUS
  <1>1. ServerTypes /\ ClientTypes
    BY TypesInit DEF HostsTypes
  <1>2. InRings = 0
    <2>1. \A x \in RingPorts : srvRing[x] = {}
      BY DEF Init, SrvInit, RingPorts
    <2> QED
      BY <1>1, <2>1, RingPortsFinite, TotalNone DEF InRings, ServerTypes
  <1>3. InBatches = 0
    <2>1. \A x \in Lcores : srvBatch[x] = {}
      BY DEF Init, SrvInit
    <2> QED
      BY <1>1, <2>1, LcoresFinite, TotalNone DEF InBatches, ServerTypes
  <1>4. AtDisks = 0
    <2>1. \A x \in Disks : socket[x] = {}
      BY DEF Init, SrvInit
    <2> QED
      BY <1>1, <2>1, ServerAssumption, TotalNone DEF AtDisks, ServerTypes
  <1>5. Cardinality(toDisk) = 0 /\ Cardinality(Busy) = 0
    <2>1. toDisk = {} /\ Busy = {}
      BY DEF Init, SrvInit, Busy
    <2> QED
      BY <2>1, FS_EmptySet
  <1>6. SumFunction(toClient) = 0
    <2>1. toClient = EmptyBag
      BY DEF Init, CliInit
    <2>2. BagOK(toClient) /\ DOMAIN toClient = {}
      BY <1>1, <2>1 DEF ClientTypes, EmptyBag, SetToBag
    <2>3. SumFunctionOnSet(toClient, {}) \in Nat
          /\ SumFunctionOnSet(toClient, {}) <= 0 * Cardinality({})
      <3>1. IsFiniteSet({}) /\ \A x \in {} : toClient[x] \in Nat /\ toClient[x] <= 0
        BY FS_EmptySet
      <3> QED
        BY <3>1, SumsBounded
    <2>4. 0 * Cardinality({}) = 0
      BY FS_EmptySet
    <2>5. SumFunction(toClient) = SumFunctionOnSet(toClient, DOMAIN toClient)
      BY DEF SumFunction, SumFunctionOnSet, FoldFunction
    <2> QED
      BY <2>2, <2>3, <2>4, <2>5
  <1>7. /\ Transmitted = 0 /\ pkt_recv = 0 /\ srvRecv = 0
        /\ \A l \in Lcores : srvSlot[l] = 0
    BY DEF Init, SrvInit, CliInit, Transmitted
  <1>8. reply_num \in Nat /\ CliBurst \in Nat \ {0}
    BY <1>1, ClientAssumption DEF ClientTypes
  <1>9. AllSent
    BY <1>2, <1>3, <1>4, <1>5, <1>6, <1>7 DEF AllSent
  <1>10. SlotsTaken
    BY <1>2, <1>3, <1>7 DEF SlotsTaken
  <1>11. pkt_recv < reply_num + CliBurst
    BY <1>7, <1>8
  <1> QED
    BY <1>9, <1>10, <1>11 DEF CountersOK

LEMMA CountersStep ==
  HostsTypes /\ HostsTypes' /\ CountersOK /\ [Next]_vars => CountersOK'
  BY AllSentStep, SlotsStep, ClientStops DEF CountersOK

LEMMA CountersFitThen == HostsTypes /\ CountersOK => CountersFit
  <1> SUFFICES ASSUME HostsTypes, CountersOK PROVE CountersFit
    OBVIOUS
  <1>1. /\ InRings \in Nat /\ InBatches \in Nat /\ AtDisks \in Nat
        /\ Cardinality(toDisk) \in Nat /\ Cardinality(Busy) \in Nat
        /\ SumFunction(toClient) \in Nat /\ pkt_recv \in Nat /\ Transmitted \in Nat
        /\ srvRecv \in Nat
    BY NumbersAre DEF HostsTypes
  <1>2. pkt_recv <= Transmitted
    BY <1>1 DEF CountersOK, AllSent
  <1>3. /\ IsFiniteSet(UNION {srvRing[p] : p \in DOMAIN srvRing})
        /\ Cardinality(UNION {srvRing[p] : p \in DOMAIN srvRing}) <= InRings
    <2> DEFINE f == Sizes(srvRing, RingPorts)
    <2>1. srvRing \in [RingPorts -> SUBSET Requests] /\ DOMAIN srvRing = RingPorts
      BY DEF HostsTypes, ServerTypes
    <2>2. /\ \A x \in RingPorts : IsFiniteSet(srvRing[x])
          /\ \A x \in RingPorts : f[x] = Cardinality(srvRing[x])
      BY <2>1, RingPortsFinite, TotalIs
    <2> HIDE DEF f
    <2>3. /\ IsFiniteSet(UNION {srvRing[x] : x \in RingPorts})
          /\ Cardinality(UNION {srvRing[x] : x \in RingPorts}) <= SumFunctionOnSet(f, RingPorts)
      BY <2>2, RingPortsFinite, SumCovers
    <2> QED
      BY <2>1, <2>3 DEF InRings, Total, f
  <1>4. srvRecv <= Transmitted - Cardinality(UNION {srvRing[p] : p \in DOMAIN srvRing})
    <2> DEFINE c == Cardinality(UNION {srvRing[p] : p \in DOMAIN srvRing})
    <2>1. c \in Nat /\ c <= InRings
      BY <1>3, FS_CardinalityType
    <2>2. srvRecv + InRings <= Transmitted
      BY DEF CountersOK, SlotsTaken
    <2> HIDE DEF c
    <2>3. srvRecv <= Transmitted - c
      BY <1>1, <2>1, <2>2
    <2> QED
      BY <2>3 DEF c
  <1> QED
    BY <1>2, <1>4 DEF CountersFit, CountersOK

\* The counters that index arrays stay within them: the client counts no more
\* replies than it sent requests and its last burst goes past reply_num by less
\* than a burst (client_code/main.c:151, 182); the server counts no more than
\* was taken from its rings, however its lcores race for pkt_recv
\* (server_code/main.c:146).
THEOREM CountersAlwaysFit == Spec => []CountersFit
  <1>1. HostsTypes /\ HostsTypes' /\ CountersOK /\ [Next]_vars => CountersOK'
    BY CountersStep
  <1>2. Init => CountersOK
    BY CountersInit
  <1>3. HostsTypes /\ CountersOK => CountersFit
    BY CountersFitThen
  <1> QED
    BY <1>1, <1>2, <1>3, HostsTypesHold, PTL DEF Spec
=============================================================================
