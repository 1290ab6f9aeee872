--------------------------- MODULE IoSched_proof ---------------------------
(***************************************************************************)
(* Proofs about IoSched: that dev_q serves by priority and in order of     *)
(* arrival among equals, that the prediction never exceeds the mean of the *)
(* window, and that no request is starved by later ones, for any window,   *)
(* latencies and clock.                                                    *)
(***************************************************************************)
EXTENDS IoSched, Sums_proof, SequenceTheorems

-----------------------------------------------------------------------------
(* Insertion. *)

\* Where insert_list_sorted stops.
Place(k, e) ==
    /\ \A j \in 1..(k - 1) : e.prio > dev_q[j].prio
    /\ k <= Len(dev_q) => e.prio <= dev_q[k].prio

LEMMA PlaceExists ==
  ASSUME dev_q \in Seq(Request), NEW e \in Request
  PROVE  \E k \in 1..(Len(dev_q) + 1) : Place(k, e)
  <1>1. Len(dev_q) \in Nat /\ e.prio \in Int /\ \A j \in 1..Len(dev_q) : dev_q[j].prio \in Int
    <2>1. \A j \in 1..Len(dev_q) : dev_q[j] \in Request
      BY ElementOfSeq
    <2> QED
      BY <2>1, LenProperties DEF Request
  <1> DEFINE T == {i \in 1..(Len(dev_q) + 1) : i <= Len(dev_q) => e.prio <= dev_q[i].prio}
  <1>2. Len(dev_q) + 1 \in T
    BY <1>1
  <1>3. PICK k \in T : \A y \in T : k <= y
    <2>1. T \in SUBSET Nat /\ T # {}
      BY <1>1, <1>2
    <2> HIDE DEF T
    <2> QED
      BY <2>1, LeastNatural
  <1>4. k \in 1..(Len(dev_q) + 1) /\ (k <= Len(dev_q) => e.prio <= dev_q[k].prio)
    OBVIOUS
  <1> HIDE DEF T
  <1>5. \A j \in 1..(k - 1) : e.prio > dev_q[j].prio
    <2> SUFFICES ASSUME NEW j \in 1..(k - 1) PROVE e.prio > dev_q[j].prio
      OBVIOUS
    <2>1. j \notin T /\ j \in 1..Len(dev_q)
      BY <1>1, <1>3, <1>4
    <2> QED
      BY <1>1, <2>1 DEF T
  <1> QED
    BY <1>4, <1>5 DEF Place

\* The list after an insertion at k.
LEMMA InsertedAt ==
  ASSUME dev_q \in Seq(Request), NEW e \in Request, NEW k \in 1..(Len(dev_q) + 1)
  PROVE  /\ InsertAt(k, e) \in Seq(Request)
         /\ Len(InsertAt(k, e)) = Len(dev_q) + 1
         /\ DOMAIN InsertAt(k, e) = 1..(Len(dev_q) + 1)
         /\ \A i \in 1..(Len(dev_q) + 1) :
               InsertAt(k, e)[i] = IF i < k THEN dev_q[i] ELSE IF i = k THEN e ELSE dev_q[i - 1]
  <1> DEFINE n == Len(dev_q)  L == SubSeq(dev_q, 1, k - 1)  R == SubSeq(dev_q, k, n)
  <1>0. n \in Nat /\ k \in Nat /\ k >= 1 /\ k <= n + 1
    BY LenProperties
  <1>1. L \in Seq(Request) /\ Len(L) = k - 1 /\ \A i \in 1..(k - 1) : L[i] = dev_q[i]
    BY <1>0, SubSeqProperties
  <1>2. R \in Seq(Request) /\ Len(R) = n - k + 1 /\ \A i \in 1..(n - k + 1) : R[i] = dev_q[k + i - 1]
    BY <1>0, SubSeqProperties
  <1>3. <<e>> \in Seq(Request) /\ Len(<<e>>) = 1 /\ <<e>>[1] = e
    OBVIOUS
  <1> HIDE DEF L, R
  <1> DEFINE M == L \o <<e>>
  <1>4. M \in Seq(Request) /\ Len(M) = k /\ \A i \in 1..k : M[i] = IF i < k THEN dev_q[i] ELSE e
    BY <1>0, <1>1, <1>3, ConcatProperties
  <1> HIDE DEF M
  <1>5. M \o R \in Seq(Request) /\ Len(M \o R) = n + 1
    <2>1. Len(M) + Len(R) = n + 1
      BY <1>0, <1>2, <1>4
    <2> QED
      BY <1>2, <1>4, <2>1, ConcatProperties
  <1>6. \A i \in 1..(n + 1) : (M \o R)[i] = IF i <= k THEN M[i] ELSE R[i - k]
    BY <1>0, <1>2, <1>4, <1>5, ConcatProperties
  <1>7. \A i \in 1..(n + 1) :
           (M \o R)[i] = IF i < k THEN dev_q[i] ELSE IF i = k THEN e ELSE dev_q[i - 1]
    BY <1>0, <1>2, <1>4, <1>6
  <1>8. InsertAt(k, e) = M \o R
    BY DEF InsertAt, M, L, R
  <1> QED
    BY <1>5, <1>7, <1>8, LenProperties

-----------------------------------------------------------------------------
(* Types. *)

LEMMA SlideType ==
  ASSUME IoTypeOK, NEW lat \in Lats
  PROVE  Slide(lat) \in Int /\ Priority(lat) \in Int /\ NextSlot \in Slots
  <1> USE IoAssumption
  <1>1. /\ WINDOW_SZ \in Int /\ WINDOW_SZ > 0 /\ lat \in Int /\ sliding \in Int /\ now \in Int
        /\ window_vals[win_ptr] \in Int /\ win_ptr \in Nat
    BY DEF IoTypeOK, Lats, Slots
  <1>2. lat \div WINDOW_SZ \in Int
    BY <1>1, SMTT(30)
  <1>3. Slide(lat) \in Int
    <2>1. WINDOW_SZ * (lat \div WINDOW_SZ) \in Int
      BY <1>1, <1>2, SMTT(30)
    <2> QED
      BY <1>1, <2>1 DEF Slide
  <1>4. \A x \in Int : Trunc(x) \in Int
    BY <1>1, SMTT(30) DEF Trunc
  <1>5. Priority(lat) \in Int
    <2>1. WINDOW_SZ * lat + Slide(lat) \in Int
      BY <1>1, <1>3, SMTT(30)
    <2> QED
      BY <1>1, <1>4, <2>1 DEF Priority
  <1>6. NextSlot \in Slots
    BY <1>1, SMTT(30) DEF NextSlot, Slots
  <1> QED
    BY <1>3, <1>5, <1>6

\* What Sorted returns: the list with the request at a place of its own.
LEMMA SortedPlace ==
  ASSUME dev_q \in Seq(Request), NEW e \in Request
  PROVE  \E k \in 1..(Len(dev_q) + 1) : Place(k, e) /\ Sorted(e) = InsertAt(k, e)
  <1> DEFINE k == CHOOSE i \in 1..(Len(dev_q) + 1) :
                    /\ \A j \in 1..(i - 1) : e.prio > dev_q[j].prio
                    /\ i <= Len(dev_q) => e.prio <= dev_q[i].prio
  <1>1. k \in 1..(Len(dev_q) + 1) /\ Place(k, e)
    BY PlaceExists DEF Place
  <1> QED
    BY <1>1 DEF Sorted

LEMMA InitIo == Init => IoTypeOK
  BY IoAssumption DEF Init, IoTypeOK, Slots, Lats, Nothing, Request

LEMMA StepIo == IoTypeOK /\ [Next]_vars => IoTypeOK'
  <1> SUFFICES ASSUME IoTypeOK, [Next]_vars PROVE IoTypeOK'
    OBVIOUS
  <1> USE IoAssumption
  <1>1. ASSUME NEW lat \in Lats, Receive(lat) PROVE IoTypeOK'
    <2> DEFINE e == [n |-> arrived, prio |-> Priority(lat), at |-> now]
    <2>1. e \in Request
      BY SlideType DEF IoTypeOK, Request
    <2>2. dev_q' \in Seq(Request)
      <3>1. dev_q \in Seq(Request) /\ dev_q' = Sorted(e)
        BY <1>1 DEF IoTypeOK, Receive
      <3> HIDE DEF e
      <3> QED
        BY <2>1, <3>1, SortedPlace, InsertedAt
    <2>3. idle' \in Nat /\ unit' \in Nat
      <3>1. unit \in Nat /\ idle \in Nat /\ now - prev_ns \in Nat
        BY DEF IoTypeOK
      <3>2. \A gap \in Nat : idle + unit * gap \in Nat
        BY <3>1, SMTT(30)
      <3>3. (IF prev_ns = 0 THEN 0 ELSE now - prev_ns) \in Nat
        BY <3>1
      <3>4. idle + unit * (IF prev_ns = 0 THEN 0 ELSE now - prev_ns) \in Nat
        BY <3>2, <3>3
      <3> QED
        BY <1>1, <3>1, <3>4 DEF Receive
    <2>4. sliding' \in Int /\ win_ptr' \in Slots /\ window_vals' \in [Slots -> Lats]
      BY <1>1, SlideType DEF IoTypeOK, Receive
    <2> QED
      BY <1>1, <2>2, <2>3, <2>4 DEF IoTypeOK, Receive
  <1>2. CASE Take
    <2>1. dev_q \in Seq(Request) /\ Len(dev_q) \in Nat \ {0}
      BY <1>2, EmptySeq, LenProperties DEF Take, IoTypeOK
    <2>2. dev_q[Len(dev_q)] \in Request /\ dev_q' \in Seq(Request)
      BY <1>2, <2>1, ElementOfSeq, SubSeqProperties DEF Take
    <2> QED
      BY <1>2, <2>2 DEF Take, IoTypeOK
  <1>3. CASE Tick
    BY <1>3 DEF Tick, IoTypeOK
  <1>4. CASE UNCHANGED vars
    BY <1>4 DEF vars, IoTypeOK
  <1> QED
    BY <1>1, <1>2, <1>3, <1>4 DEF Next

\* Every reachable state of the scheduler is of its type, for any size of the
\* window and any latencies.
THEOREM IoTypes == Spec => []IoTypeOK
  BY InitIo, StepIo, PTL DEF Spec

-----------------------------------------------------------------------------
(* The order of dev_q. *)

\* a is further from the tail than b.
Behind(a, b) == a.prio < b.prio \/ (a.prio = b.prio /\ a.n > b.n)

Ordered ==
    /\ \A i, j \in DOMAIN dev_q : i < j => Behind(dev_q[i], dev_q[j])
    /\ \A i \in DOMAIN dev_q : dev_q[i].n < arrived

OrderInv == IoTypeOK /\ Ordered

\* An insertion keeps the order, because a new request goes in front of those
\* of its own priority, which are older.
LEMMA ReceiveOrdered ==
  ASSUME OrderInv, NEW lat \in Lats, Receive(lat)
  PROVE  Ordered'
  <1> DEFINE e == [n |-> arrived, prio |-> Priority(lat), at |-> now]
             len == Len(dev_q)
  <1>1. IoTypeOK /\ Ordered /\ dev_q \in Seq(Request) /\ arrived \in Nat
    BY DEF OrderInv, IoTypeOK
  <1>2. e \in Request /\ e.n = arrived
    BY <1>1, SlideType DEF IoTypeOK, Request
  <1>3. dev_q' = Sorted(e) /\ arrived' = arrived + 1
    BY DEF Receive
  <1> HIDE DEF e
  <1>4. PICK k \in 1..(len + 1) : Place(k, e) /\ dev_q' = InsertAt(k, e)
    BY <1>1, <1>2, <1>3, SortedPlace
  <1>5. /\ DOMAIN dev_q' = 1..(len + 1)
        /\ \A i \in 1..(len + 1) :
              dev_q'[i] = IF i < k THEN dev_q[i] ELSE IF i = k THEN e ELSE dev_q[i - 1]
    BY <1>1, <1>2, <1>4, InsertedAt
  <1>6. len \in Nat /\ DOMAIN dev_q = 1..len /\ \A i \in 1..len : dev_q[i] \in Request
    BY <1>1, LenProperties, ElementOfSeq
  <1> HIDE DEF len
  <1>7. \A i \in 1..len : dev_q[i].prio \in Int /\ dev_q[i].n \in Int /\ dev_q[i].n < arrived
    <2>1. \A i \in 1..len : dev_q[i].prio \in Int /\ dev_q[i].n \in Int
      BY <1>6 DEF Request
    <2>2. \A i \in 1..len : dev_q[i].n < arrived
      BY <1>1, <1>6 DEF Ordered
    <2> QED
      BY <2>1, <2>2
  <1>8. e.prio \in Int
    BY <1>2 DEF Request
  <1>9. \A i \in 1..len : i < k => Behind(dev_q[i], e)
    BY <1>4, <1>6 DEF Place, Behind
  <1>10. \A i \in 1..len : i >= k => Behind(e, dev_q[i])
    <2> SUFFICES ASSUME NEW i \in 1..len, i >= k PROVE Behind(e, dev_q[i])
      OBVIOUS
    <2>1. k \in 1..len /\ e.prio <= dev_q[k].prio
      BY <1>4, <1>6 DEF Place, len
    <2>2. dev_q[k].prio <= dev_q[i].prio
      <3>1. i = k \/ Behind(dev_q[k], dev_q[i])
        BY <1>1, <1>6, <2>1 DEF Ordered
      <3> QED
        BY <1>7, <2>1, <3>1 DEF Behind
    <2> QED
      BY <1>2, <1>7, <1>8, <2>1, <2>2 DEF Behind
  <1>11. \A i, j \in 1..(len + 1) : i < j => Behind(dev_q'[i], dev_q'[j])
    <2> SUFFICES ASSUME NEW i \in 1..(len + 1), NEW j \in 1..(len + 1), i < j
                 PROVE  Behind(dev_q'[i], dev_q'[j])
      OBVIOUS
    <2>1. CASE j < k
      BY <1>1, <1>4, <1>5, <1>6, <2>1 DEF Ordered
    <2>2. CASE j = k
      BY <1>4, <1>5, <1>6, <1>9, <2>2
    <2>3. CASE j > k /\ i < k
      BY <1>1, <1>4, <1>5, <1>6, <2>3 DEF Ordered
    <2>4. CASE j > k /\ i = k
      BY <1>4, <1>5, <1>6, <1>10, <2>4
    <2>5. CASE j > k /\ i > k
      <3>1. dev_q'[i] = dev_q[i - 1] /\ dev_q'[j] = dev_q[j - 1]
        BY <1>4, <1>5, <1>6, <2>5
      <3>2. i - 1 \in 1..len /\ j - 1 \in 1..len /\ i - 1 < j - 1
        BY <1>4, <1>6, <2>5
      <3> QED
        BY <1>1, <1>6, <3>1, <3>2 DEF Ordered
    <2> QED
      BY <1>4, <2>1, <2>2, <2>3, <2>4, <2>5
  <1>12. \A i \in 1..(len + 1) : dev_q'[i].n < arrived'
    BY <1>1, <1>2, <1>3, <1>4, <1>5, <1>6, <1>7
  <1> QED
    BY <1>5, <1>11, <1>12 DEF Ordered

\* What remove_list_tail leaves.
LEMMA Taken ==
  ASSUME IoTypeOK, Take
  PROVE  /\ Len(dev_q) \in Nat \ {0} /\ DOMAIN dev_q = 1..Len(dev_q)
         /\ DOMAIN dev_q' = 1..(Len(dev_q) - 1)
         /\ \A i \in 1..(Len(dev_q) - 1) : dev_q'[i] = dev_q[i]
         /\ \A i \in 1..Len(dev_q) : dev_q[i] \in Request
  <1>1. dev_q \in Seq(Request) /\ Len(dev_q) \in Nat \ {0} /\ DOMAIN dev_q = 1..Len(dev_q)
    BY EmptySeq, LenProperties DEF Take, IoTypeOK
  <1>2. \A i \in 1..Len(dev_q) : dev_q[i] \in Request
    BY <1>1, ElementOfSeq
  <1>3. /\ dev_q' \in Seq(Request) /\ Len(dev_q') = Len(dev_q) - 1
        /\ \A i \in 1..(Len(dev_q) - 1) : dev_q'[i] = dev_q[i]
    BY <1>1, <1>2, SubSeqProperties DEF Take
  <1> QED
    BY <1>1, <1>2, <1>3, LenProperties

LEMMA StepOrdered == OrderInv /\ [Next]_vars => OrderInv'
  <1> SUFFICES ASSUME OrderInv, [Next]_vars PROVE Ordered'
    BY StepIo DEF OrderInv
  <1>1. ASSUME NEW lat \in Lats, Receive(lat) PROVE Ordered'
    BY <1>1, ReceiveOrdered
  <1>2. CASE Take
    BY <1>2, Taken DEF OrderInv, Ordered, Take
  <1>3. CASE Tick \/ UNCHANGED vars
    BY <1>3 DEF Tick, vars, OrderInv, Ordered
  <1> QED
    BY <1>1, <1>2, <1>3 DEF Next

-----------------------------------------------------------------------------
(* dev_q implements PrioQueue. *)

Waiting == {[n |-> dev_q[i].n, prio |-> dev_q[i].prio] : i \in DOMAIN dev_q}

LEMMA InitServes == Init => PQ!Init
  BY EmptySeq DEF Init, PQ!Init

\* An insertion is a push.
LEMMA ReceivePushes ==
  ASSUME IoTypeOK, NEW lat \in Lats, Receive(lat)
  PROVE  PQ!Next
  <1> DEFINE e == [n |-> arrived, prio |-> Priority(lat), at |-> now]
             r == [n |-> arrived, prio |-> Priority(lat)]
             len == Len(dev_q)
  <1>1. dev_q \in Seq(Request) /\ len \in Nat /\ DOMAIN dev_q = 1..len
    BY LenProperties DEF IoTypeOK
  <1>2. e \in Request /\ r = [n |-> e.n, prio |-> e.prio] /\ r.prio = Priority(lat)
    BY SlideType DEF IoTypeOK, Request
  <1>3. dev_q' = Sorted(e) /\ arrived' = arrived + 1
    BY DEF Receive
  <1>4. PICK k \in 1..(len + 1) : dev_q' = InsertAt(k, e)
    <2> HIDE DEF e
    <2> QED
      BY <1>1, <1>2, <1>3, SortedPlace
  <1>5. /\ DOMAIN dev_q' = 1..(len + 1)
        /\ \A i \in 1..(len + 1) :
              dev_q'[i] = IF i < k THEN dev_q[i] ELSE IF i = k THEN e ELSE dev_q[i - 1]
    <2> HIDE DEF e
    <2> QED
      BY <1>1, <1>2, <1>4, InsertedAt
  <1> DEFINE W(q) == {[n |-> q[i].n, prio |-> q[i].prio] : i \in DOMAIN q}
  <1> HIDE DEF e, r, len
  <1>6. r \in W(dev_q')
    BY <1>1, <1>2, <1>4, <1>5
  <1>7. W(dev_q) \subseteq W(dev_q')
    <2> SUFFICES ASSUME NEW i \in 1..len
                 PROVE  \E j \in 1..(len + 1) : dev_q'[j] = dev_q[i]
      BY <1>1, <1>5
    <2>1. CASE i < k
      BY <1>1, <1>4, <1>5, <2>1
    <2>2. CASE i >= k
      <3>1. i + 1 \in 1..(len + 1) /\ dev_q'[i + 1] = dev_q[i]
        BY <1>1, <1>4, <1>5, <2>2
      <3> QED
        BY <3>1
    <2> QED
      BY <1>1, <1>4, <2>1, <2>2
  <1>8. W(dev_q') \subseteq W(dev_q) \cup {r}
    <2> SUFFICES ASSUME NEW i \in 1..(len + 1)
                 PROVE  dev_q'[i] = e \/ \E j \in 1..len : dev_q'[i] = dev_q[j]
      BY <1>1, <1>2, <1>5
    <2>1. CASE i < k
      BY <1>1, <1>4, <1>5, <2>1
    <2>2. CASE i = k
      BY <1>5, <2>2
    <2>3. CASE i > k
      <3>1. i - 1 \in 1..len /\ dev_q'[i] = dev_q[i - 1]
        BY <1>1, <1>4, <1>5, <2>3
      <3> QED
        BY <3>1
    <2> QED
      BY <1>1, <1>4, <2>1, <2>2, <2>3
  <1>9. W(dev_q') = W(dev_q) \cup {r}
    BY <1>6, <1>7, <1>8
  <1>10. r = [n |-> arrived, prio |-> r.prio]
    BY <1>2 DEF r
  <1>11. \E x \in W(dev_q') : /\ W(dev_q') = W(dev_q) \cup {[n |-> arrived, prio |-> x.prio]}
                              /\ arrived' = arrived + 1
    <2> HIDE DEF W
    <2> QED
      BY <1>3, <1>6, <1>9, <1>10
  <1> QED
    BY <1>11 DEF PQ!Next, PQ!Push

\* A removal is a pop.
LEMMA TakePops ==
  ASSUME OrderInv, Take
  PROVE  PQ!Next
  <1> DEFINE len == Len(dev_q)
             r == [n |-> dev_q[len].n, prio |-> dev_q[len].prio]
             W(q) == {[n |-> q[i].n, prio |-> q[i].prio] : i \in DOMAIN q}
  <1>1. /\ len \in Nat \ {0} /\ DOMAIN dev_q = 1..len /\ DOMAIN dev_q' = 1..(len - 1)
        /\ \A i \in 1..(len - 1) : dev_q'[i] = dev_q[i]
        /\ \A i \in 1..len : dev_q[i] \in Request
    BY Taken DEF OrderInv
  <1> HIDE DEF len
  <1>2. len \in DOMAIN dev_q
    BY <1>1
  <1>3. \A i \in 1..len : dev_q[i].prio \in Int /\ dev_q[i].n \in Int
    BY <1>1 DEF Request
  <1>4. \A i \in 1..(len - 1) : Behind(dev_q[i], dev_q[len])
    BY <1>1, <1>2 DEF OrderInv, Ordered
  <1>5. r \in W(dev_q)
    BY <1>2
  <1>6. PQ!First(r)
    <2> SUFFICES ASSUME NEW i \in 1..len
                 PROVE  dev_q[i].prio < dev_q[len].prio
                        \/ (dev_q[i].prio = dev_q[len].prio /\ dev_q[i].n >= dev_q[len].n)
      BY <1>1 DEF PQ!First
    <2> QED
      BY <1>1, <1>3, <1>4 DEF Behind
  <1>7. W(dev_q') = W(dev_q) \ {r}
    <2>1. W(dev_q') = {[n |-> dev_q[i].n, prio |-> dev_q[i].prio] : i \in 1..(len - 1)}
      BY <1>1
    <2>2. W(dev_q) = W(dev_q') \cup {r}
      BY <1>1, <2>1
    <2>3. r \notin W(dev_q')
      <3>1. \A i \in 1..(len - 1) : dev_q[i].prio # dev_q[len].prio \/ dev_q[i].n # dev_q[len].n
        BY <1>1, <1>3, <1>4 DEF Behind
      <3> QED
        BY <2>1, <3>1
    <2> QED
      BY <2>2, <2>3
  <1>8. UNCHANGED arrived
    BY DEF Take
  <1>9. \E x \in W(dev_q) : /\ \A s \in W(dev_q) : s.prio < x.prio \/ (s.prio = x.prio /\ s.n >= x.n)
                            /\ W(dev_q') = W(dev_q) \ {x} /\ UNCHANGED arrived
    <2>1. \A s \in W(dev_q) : s.prio < r.prio \/ (s.prio = r.prio /\ s.n >= r.n)
      BY <1>6 DEF PQ!First
    <2> HIDE DEF W, r
    <2> QED
      BY <1>5, <1>7, <1>8, <2>1
  <1> QED
    BY <1>9 DEF PQ!Next, PQ!Pop, PQ!First

\* dev_q is a priority queue, first in first out among equal priorities,
\* whatever the latencies and however the prediction moves.
THEOREM DevQueueServes == Spec => ServesByPriority
  <1>1. OrderInv /\ [Next]_vars => [PQ!Next]_<<Waiting, arrived>>
    <2> SUFFICES ASSUME OrderInv, [Next]_vars PROVE [PQ!Next]_<<Waiting, arrived>>
      OBVIOUS
    <2>1. CASE Tick \/ UNCHANGED vars
      BY <2>1 DEF Tick, vars, Waiting
    <2>2. ASSUME NEW lat \in Lats, Receive(lat) PROVE PQ!Next
      BY <2>2, ReceivePushes DEF OrderInv
    <2> QED
      BY <2>1, <2>2, TakePops DEF Next
  <1>2. Init => OrderInv
    <2>1. Init => Ordered
      BY EmptySeq DEF Init, Ordered
    <2> QED
      BY <2>1, InitIo DEF OrderInv
  <1> QED
    BY <1>1, <1>2, InitServes, StepOrdered, PTL DEF Spec, ServesByPriority, PQ!Spec, Waiting
-----------------------------------------------------------------------------
(* The prediction and the mean. *)

LEMMA SlotsFinite == IsFiniteSet(Slots) /\ Cardinality(Slots) = WINDOW_SZ
  BY IoAssumption, FS_Interval DEF Slots

\* Integer division rounds down.
LEMMA WholeLatency ==
  ASSUME NEW x \in Nat
  PROVE  /\ x \div WINDOW_SZ \in Nat /\ WINDOW_SZ * (x \div WINDOW_SZ) \in Nat
         /\ WINDOW_SZ * (x \div WINDOW_SZ) <= x
  <1> DEFINE w == WINDOW_SZ  q == x \div w
  <1>1. w \in Nat /\ w > 0
    BY IoAssumption
  <1> HIDE DEF w
  <1>2. q \in Int /\ x % w \in 0..(w - 1) /\ x = w * q + (x % w)
    BY <1>1, SMTT(30)
  <1>3. q \in Nat
    <2> SUFFICES ASSUME q <= -1 PROVE FALSE
      BY <1>2
    <2> HIDE DEF q
    <2>1. w * q <= -w
      BY <1>1, <1>2, SMTT(30)
    <2> QED
      BY <1>1, <1>2, <2>1, SMTT(30)
  <1> HIDE DEF q
  <1>4. w * q \in Nat
    BY <1>1, <1>3, SMTT(30)
  <1>5. w * q <= x
    BY <1>1, <1>2, <1>4
  <1> QED
    BY <1>3, <1>4, <1>5 DEF w, q

\* The prediction never exceeds the mean of the window's latencies, for any
\* size of the window and any latencies.
THEOREM PredictionBelowMean == Spec => []NeverAboveMean
  <1> DEFINE Sum == SumFunctionOnSet(window_vals, Slots)
  <1>1. Init => NeverAboveMean
    <2> SUFFICES ASSUME Init PROVE sliding <= SumFunctionOnSet(window_vals, DOMAIN window_vals)
      BY DEF NeverAboveMean, SumFunction
    <2>1. DOMAIN window_vals = Slots /\ \A s \in Slots : window_vals[s] \in Nat /\ window_vals[s] <= 0
      BY DEF Init
    <2>2. SumFunctionOnSet(window_vals, Slots) \in Nat
      BY <2>1, SlotsFinite, SumsBounded
    <2> QED
      BY <2>1, <2>2 DEF Init
  <1>2. IoTypeOK /\ NeverAboveMean /\ [Next]_vars => NeverAboveMean'
    <2> SUFFICES ASSUME IoTypeOK, NeverAboveMean, [Next]_vars PROVE NeverAboveMean'
      OBVIOUS
    <2>1. ASSUME NEW lat \in Lats, Receive(lat) PROVE NeverAboveMean'
      <3>1. /\ window_vals \in [Slots -> Int] /\ win_ptr \in Slots /\ lat \in Nat /\ sliding \in Int
            /\ window_vals[win_ptr] \in Int
        BY DEF IoTypeOK, Lats
      <3>2. /\ window_vals' = [window_vals EXCEPT ![win_ptr] = lat]
            /\ sliding' = sliding - window_vals[win_ptr] + WINDOW_SZ * (lat \div WINDOW_SZ)
        BY <2>1 DEF Receive, Slide
      <3>3. DOMAIN window_vals = Slots /\ DOMAIN window_vals' = Slots
        BY <3>1, <3>2
      <3>4. sliding <= SumFunctionOnSet(window_vals, Slots)
        BY <3>3 DEF NeverAboveMean, SumFunction
      <3>5. /\ SumFunctionOnSet(window_vals, Slots) \in Int
            /\ SumFunctionOnSet(window_vals', Slots)
                 = SumFunctionOnSet(window_vals, Slots) - window_vals[win_ptr] + lat
        <4>1. IsFiniteSet(Slots) /\ lat \in Int
          BY <3>1, SlotsFinite
        <4>2. /\ window_vals' \in [Slots -> Int] /\ window_vals'[win_ptr] = lat
              /\ \A x \in Slots \ {win_ptr} : window_vals'[x] = window_vals[x]
          BY <3>1, <3>2, <4>1
        <4> QED
          BY <3>1, <4>1, <4>2, SumExcept
      <3>6. /\ WINDOW_SZ * (lat \div WINDOW_SZ) \in Nat
            /\ WINDOW_SZ * (lat \div WINDOW_SZ) <= lat
        BY <3>1, WholeLatency
      <3>7. sliding' <= SumFunctionOnSet(window_vals', Slots)
        BY <3>1, <3>2, <3>4, <3>5, <3>6
      <3> QED
        BY <3>3, <3>7 DEF NeverAboveMean, SumFunction
    <2>2. CASE Take \/ Tick \/ UNCHANGED vars
      BY <2>2 DEF Take, Tick, vars, NeverAboveMean
    <2> QED
      BY <2>1, <2>2 DEF Next
  <1> QED
    BY <1>1, <1>2, InitIo, StepIo, PTL DEF Spec
-----------------------------------------------------------------------------
(* Age.                                                                        *)

\* Multiples of the window's size.
LEMMA Multiples ==
  ASSUME NEW a \in Int, NEW b \in Int
  PROVE  /\ WINDOW_SZ * a \in Int /\ WINDOW_SZ * (a + b) = WINDOW_SZ * a + WINDOW_SZ * b
         /\ WINDOW_SZ * (a + 1) = WINDOW_SZ * a + WINDOW_SZ
         /\ a <= b => WINDOW_SZ * a <= WINDOW_SZ * b
  <1> DEFINE w == WINDOW_SZ
  <1>1. w \in Nat
    BY IoAssumption
  <1> HIDE DEF w
  <1>2. w * a \in Int /\ w * (a + b) = w * a + w * b /\ w * (a + 1) = w * a + w
    BY <1>1, SMTT(30)
  <1>3. a <= b => w * a <= w * b
    BY <1>1, SMTT(30)
  <1> QED
    BY <1>2, <1>3 DEF w

\* What the conversion of a double gives.
LEMMA TruncBounds ==
  ASSUME NEW x \in Int
  PROVE  /\ Trunc(x) \in Int
         /\ x >= 0 => /\ Trunc(x) >= 0 /\ WINDOW_SZ * Trunc(x) <= x
                      /\ x < WINDOW_SZ * Trunc(x) + WINDOW_SZ
         /\ x < 0  => /\ Trunc(x) <= 0 /\ x <= WINDOW_SZ * Trunc(x)
                      /\ WINDOW_SZ * Trunc(x) - WINDOW_SZ < x
  <1>0. WINDOW_SZ \in Nat /\ WINDOW_SZ > 0
    BY IoAssumption
  <1>1. ASSUME NEW y \in Nat
        PROVE  /\ y \div WINDOW_SZ \in Nat /\ WINDOW_SZ * (y \div WINDOW_SZ) \in Nat
               /\ WINDOW_SZ * (y \div WINDOW_SZ) <= y
               /\ y < WINDOW_SZ * (y \div WINDOW_SZ) + WINDOW_SZ
    <2>1. y \div WINDOW_SZ \in Nat /\ WINDOW_SZ * (y \div WINDOW_SZ) \in Nat
          /\ WINDOW_SZ * (y \div WINDOW_SZ) <= y
      BY WholeLatency
    <2>2. y = WINDOW_SZ * (y \div WINDOW_SZ) + (y % WINDOW_SZ) /\ y % WINDOW_SZ \in 0..(WINDOW_SZ - 1)
      BY <1>0, SMTT(30)
    <2> QED
      BY <1>0, <2>1, <2>2
  <1>2. CASE x >= 0
    BY <1>0, <1>1, <1>2 DEF Trunc
  <1>3. CASE x < 0
    <2> DEFINE q == (-x) \div WINDOW_SZ
    <2>1. -x \in Nat /\ Trunc(x) = -q
      BY <1>3 DEF Trunc
    <2>2. q \in Nat /\ WINDOW_SZ * q \in Nat /\ WINDOW_SZ * q <= -x /\ -x < WINDOW_SZ * q + WINDOW_SZ
      BY <1>1, <2>1
    <2> HIDE DEF q
    <2>3. WINDOW_SZ * (-q) = -(WINDOW_SZ * q)
      BY <1>0, <2>2, SMTT(30)
    <2> QED
      BY <1>0, <1>3, <2>1, <2>2, <2>3
  <1> QED
    BY <1>2, <1>3

LEMMA TruncMonotone ==
  ASSUME NEW x \in Int, NEW y \in Int, x <= y
  PROVE  Trunc(x) <= Trunc(y)
  <1> DEFINE s == Trunc(x)  t == Trunc(y)  w == WINDOW_SZ
  <1>1. /\ s \in Int
        /\ x >= 0 => s >= 0 /\ w * s <= x /\ x < w * s + w
        /\ x < 0  => s <= 0 /\ x <= w * s /\ w * s - w < x
    BY TruncBounds
  <1>2. /\ t \in Int
        /\ y >= 0 => t >= 0 /\ w * t <= y /\ y < w * t + w
        /\ y < 0  => t <= 0 /\ y <= w * t /\ w * t - w < y
    BY TruncBounds
  <1> HIDE DEF s, t
  <1> SUFFICES ASSUME t + 1 <= s PROVE FALSE
    BY <1>1, <1>2 DEF s, t
  <1>3. w * t + w <= w * s /\ w * t \in Int /\ w * s \in Int /\ w \in Int
    BY <1>1, <1>2, Multiples, IoAssumption
  <1> HIDE DEF w
  <1> QED
    BY <1>1, <1>2, <1>3

LEMMA TruncShift ==
  ASSUME NEW y \in Int, NEW m \in Nat
  PROVE  Trunc(y + WINDOW_SZ * m) <= Trunc(y) + m
  <1> DEFINE w == WINDOW_SZ  z == y + w * m  s == Trunc(z)  t == Trunc(y)
  <1>0. w \in Nat /\ w > 0 /\ w * m \in Nat
    BY IoAssumption, SMTT(30)
  <1>1. z \in Int
    BY <1>0
  <1>2. /\ s \in Int
        /\ z >= 0 => s >= 0 /\ w * s <= z /\ z < w * s + w
        /\ z < 0  => s <= 0 /\ z <= w * s /\ w * s - w < z
    BY <1>1, TruncBounds
  <1>3. /\ t \in Int
        /\ y >= 0 => t >= 0 /\ w * t <= y /\ y < w * t + w
        /\ y < 0  => t <= 0 /\ y <= w * t /\ w * t - w < y
    BY TruncBounds
  <1>4. z = y + w * m
    OBVIOUS
  <1> HIDE DEF s, t, z
  <1> SUFFICES ASSUME t + m + 1 <= s PROVE FALSE
    BY <1>2, <1>3 DEF s, t, z
  <1>5. w * ((t + m) + 1) <= w * s /\ w * s \in Int /\ w * t \in Int
    <2>1. (t + m) + 1 \in Int /\ (t + m) + 1 <= s /\ s \in Int /\ t \in Int
      BY <1>2, <1>3
    <2>2. w * ((t + m) + 1) <= w * s
      BY <2>1, Multiples
    <2> QED
      BY <2>1, <2>2, Multiples
  <1>6. w * ((t + m) + 1) = w * (t + m) + w
    BY <1>3, Multiples
  <1>7. w * (t + m) = w * t + w * m
    BY <1>3, Multiples
  <1> HIDE DEF w
  <1> QED
    BY <1>0, <1>1, <1>2, <1>3, <1>4, <1>5, <1>6, <1>7

\* What the window has put into the prediction, and what the prediction is
\* short of it: the remainders of the values that have left.
Whole(vals) == [s \in Slots |-> WINDOW_SZ * (vals[s] \div WINDOW_SZ)]
PutIn(vals) == SumFunctionOnSet(Whole(vals), Slots)
Level(r)    == r.prio + r.at
Queue       == {dev_q[i] : i \in DOMAIN dev_q}

LEMMA PutInBounds ==
  ASSUME NEW vals \in [Slots -> Lats]
  PROVE  PutIn(vals) \in Nat /\ PutIn(vals) <= WINDOW_SZ * MaxLat
  <1> DEFINE f == Whole(vals)
  <1>1. \A x \in Slots : f[x] \in Nat /\ f[x] <= MaxLat
    <2> SUFFICES ASSUME NEW x \in Slots PROVE f[x] \in Nat /\ f[x] <= MaxLat
      OBVIOUS
    <2>1. vals[x] \in Nat /\ vals[x] <= MaxLat /\ MaxLat \in Nat
      BY IoAssumption DEF Lats
    <2>2. /\ WINDOW_SZ * (vals[x] \div WINDOW_SZ) \in Nat
          /\ WINDOW_SZ * (vals[x] \div WINDOW_SZ) <= vals[x]
      BY <2>1, WholeLatency
    <2> QED
      BY <2>1, <2>2 DEF Whole
  <1> HIDE DEF f
  <1>2. /\ SumFunctionOnSet(f, Slots) \in Nat
        /\ SumFunctionOnSet(f, Slots) <= MaxLat * Cardinality(Slots)
    BY <1>1, SlotsFinite, SumsBounded, IoAssumption
  <1>3. MaxLat * WINDOW_SZ = WINDOW_SZ * MaxLat
    BY IoAssumption
  <1> QED
    BY <1>2, <1>3, SlotsFinite DEF PutIn, f

\* A request that comes lowers what the prediction is short of, or leaves it.
LEMMA ShortOf ==
  ASSUME IoTypeOK, NEW lat \in Lats, Receive(lat)
  PROVE  /\ window_vals' \in [Slots -> Lats]
         /\ sliding' - PutIn(window_vals') <= sliding - PutIn(window_vals)
         /\ sliding \in Int /\ sliding' \in Int
  <1> DEFINE old == window_vals[win_ptr]
             f == Whole(window_vals)  h == Whole(window_vals')
             o == WINDOW_SZ * (old \div WINDOW_SZ)  l == WINDOW_SZ * (lat \div WINDOW_SZ)
  <1>1. /\ window_vals' = [window_vals EXCEPT ![win_ptr] = lat] /\ win_ptr \in Slots
        /\ window_vals \in [Slots -> Lats] /\ sliding' = sliding - old + l /\ sliding \in Int
    BY DEF Receive, Slide, IoTypeOK
  <1>2. /\ window_vals' \in [Slots -> Lats] /\ window_vals'[win_ptr] = lat
        /\ \A s \in Slots \ {win_ptr} : window_vals'[s] = window_vals[s]
    BY <1>1
  <1>3. old \in Nat /\ lat \in Nat /\ o \in Nat /\ l \in Nat /\ o <= old
    <2>1. old \in Nat /\ lat \in Nat
      BY <1>1 DEF Lats
    <2> QED
      BY <2>1, WholeLatency
  <1>4. f \in [Slots -> Int] /\ h \in [Slots -> Int]
    <2>1. ASSUME NEW v \in [Slots -> Lats] PROVE Whole(v) \in [Slots -> Int]
      <3>1. \A s \in Slots : v[s] \in Nat
        BY DEF Lats
      <3> QED
        BY <3>1, WholeLatency DEF Whole
    <2> QED
      BY <1>1, <1>2, <2>1
  <1>5. /\ f[win_ptr] = o /\ h[win_ptr] = l
        /\ \A s \in Slots \ {win_ptr} : h[s] = f[s]
    BY <1>1, <1>2 DEF Whole
  <1> HIDE DEF f, h, o, l, old
  <1>6. /\ SumFunctionOnSet(f, Slots) \in Int
        /\ SumFunctionOnSet(h, Slots) = SumFunctionOnSet(f, Slots) - f[win_ptr] + h[win_ptr]
    BY <1>1, <1>4, <1>5, SlotsFinite, SumExcept
  <1>7. /\ PutIn(window_vals) \in Int
        /\ PutIn(window_vals') = PutIn(window_vals) - o + l
    BY <1>5, <1>6 DEF PutIn, f, h
  <1> QED
    BY <1>1, <1>2, <1>3, <1>7

\* The requests that wait: the levels of the older ones are not more than
\* 2 * MaxLat below those of the younger.
Aged ==
    /\ \A r \in Queue : Trunc(sliding - PutIn(window_vals)) <= Level(r) /\ r.at <= now
    /\ \A r, q \in Queue : r.n = q.n => r = q
    /\ \A r, q \in Queue : r.n < q.n =>
          r.at <= q.at /\ Level(q) <= Level(r) + 2 * MaxLat

LEMMA QueueTypes ==
  ASSUME IoTypeOK
  PROVE  /\ Queue \subseteq Request
         /\ \A r \in Queue : r.n \in Int /\ r.prio \in Int /\ r.at \in Int /\ Level(r) \in Int
         /\ Ordered => \A r \in Queue : r.n < arrived
  <1>1. \A i \in DOMAIN dev_q : dev_q[i] \in Request
    <2>1. dev_q \in Seq(Request)
      BY DEF IoTypeOK
    <2> QED
      BY <2>1, ElementOfSeq, LenProperties
  <1>2. Queue \subseteq Request
    BY <1>1 DEF Queue
  <1>3. \A r \in Queue : r.n \in Int /\ r.prio \in Int /\ r.at \in Int
    BY <1>2 DEF Request
  <1> QED
    BY <1>2, <1>3 DEF Level, Ordered, Queue

\* An insertion adds one request.
LEMMA ReceiveQueue ==
  ASSUME IoTypeOK, NEW lat \in Lats, Receive(lat)
  PROVE  Queue' \subseteq Queue \cup {[n |-> arrived, prio |-> Priority(lat), at |-> now]}
  <1> DEFINE e == [n |-> arrived, prio |-> Priority(lat), at |-> now]
  <1>1. dev_q \in Seq(Request) /\ Len(dev_q) \in Nat /\ DOMAIN dev_q = 1..Len(dev_q)
    BY LenProperties DEF IoTypeOK
  <1>2. e \in Request /\ dev_q' = Sorted(e)
    BY SlideType DEF IoTypeOK, Request, Receive
  <1> HIDE DEF e
  <1>3. PICK k \in 1..(Len(dev_q) + 1) : dev_q' = InsertAt(k, e)
    BY <1>1, <1>2, SortedPlace
  <1>4. /\ DOMAIN dev_q' = 1..(Len(dev_q) + 1)
        /\ \A i \in 1..(Len(dev_q) + 1) :
              dev_q'[i] = IF i < k THEN dev_q[i] ELSE IF i = k THEN e ELSE dev_q[i - 1]
    <2>1. /\ DOMAIN InsertAt(k, e) = 1..(Len(dev_q) + 1)
          /\ \A i \in 1..(Len(dev_q) + 1) :
                InsertAt(k, e)[i] = IF i < k THEN dev_q[i] ELSE IF i = k THEN e ELSE dev_q[i - 1]
      BY <1>1, <1>2, InsertedAt
    <2> QED
      BY <1>3, <2>1
  <1>5. ASSUME NEW i \in DOMAIN dev_q' PROVE dev_q'[i] = e \/ \E j \in DOMAIN dev_q : dev_q'[i] = dev_q[j]
    <2>1. CASE i < k
      <3>1. i \in DOMAIN dev_q /\ dev_q'[i] = dev_q[i]
        BY <1>1, <1>3, <1>4, <2>1
      <3> QED
        BY <3>1
    <2>2. CASE i = k
      BY <1>4, <2>2
    <2>3. CASE i > k
      <3>1. i - 1 \in DOMAIN dev_q /\ dev_q'[i] = dev_q[i - 1]
        BY <1>1, <1>3, <1>4, <2>3
      <3> QED
        BY <3>1
    <2> QED
      BY <1>3, <1>4, <2>1, <2>2, <2>3
  <1> QED
    BY <1>5 DEF Queue, e

\* The level of a new request.
LEMMA NewLevel ==
  ASSUME IoTypeOK, NEW lat \in Lats, Receive(lat)
  PROVE  /\ Priority(lat) + now \in Int
         /\ Trunc(sliding' - PutIn(window_vals')) <= Priority(lat) + now
         /\ Priority(lat) + now <= Trunc(sliding - PutIn(window_vals)) + 2 * MaxLat
         /\ Trunc(sliding' - PutIn(window_vals')) <= Trunc(sliding - PutIn(window_vals))
         /\ Trunc(sliding' - PutIn(window_vals')) \in Int
         /\ Trunc(sliding - PutIn(window_vals)) \in Int
  <1> DEFINE w == WINDOW_SZ
             x == w * lat + sliding'
             y == sliding - PutIn(window_vals)
             z == sliding' - PutIn(window_vals')
  <1>1. /\ lat \in Nat /\ lat <= MaxLat /\ MaxLat \in Nat /\ now \in Nat /\ w \in Nat
    BY IoAssumption DEF Lats, IoTypeOK
  <1>2. /\ PutIn(window_vals) \in Nat /\ PutIn(window_vals') \in Nat
        /\ PutIn(window_vals') <= w * MaxLat
    BY ShortOf, PutInBounds DEF IoTypeOK
  <1>3. z <= y /\ sliding \in Int /\ sliding' \in Int
    BY ShortOf
  <1>4. /\ w * lat \in Int /\ w * lat <= w * MaxLat /\ w * lat >= 0 /\ w * MaxLat \in Int
        /\ w * (2 * MaxLat) = w * MaxLat + w * MaxLat
    <2>1. 0 \in Int /\ lat \in Int /\ MaxLat \in Int /\ w * 0 = 0 /\ 2 * MaxLat = MaxLat + MaxLat
      BY <1>1
    <2>2. w * (MaxLat + MaxLat) = w * MaxLat + w * MaxLat
      BY <2>1, Multiples
    <2>3. w * 0 <= w * lat /\ w * lat <= w * MaxLat /\ w * lat \in Int /\ w * MaxLat \in Int
      BY <1>1, <2>1, Multiples
    <2> QED
      BY <2>1, <2>2, <2>3
  <1>5. Priority(lat) = Trunc(x) - now
    BY DEF Priority, Receive
  <1>6. x \in Int /\ y \in Int /\ z \in Int /\ z <= x /\ x <= y + w * (2 * MaxLat)
        /\ y + w * (2 * MaxLat) \in Int
    BY <1>2, <1>3, <1>4
  <1> HIDE DEF x, y, z
  <1>7. /\ Trunc(x) \in Int /\ Trunc(y) \in Int /\ Trunc(z) \in Int
        /\ Trunc(z) <= Trunc(x) /\ Trunc(z) <= Trunc(y)
        /\ Trunc(x) <= Trunc(y + w * (2 * MaxLat)) /\ Trunc(y + w * (2 * MaxLat)) \in Int
    BY <1>3, <1>6, TruncBounds, TruncMonotone DEF y, z
  <1>8. Trunc(y + w * (2 * MaxLat)) <= Trunc(y) + 2 * MaxLat
    <2>1. 2 * MaxLat \in Nat
      BY <1>1
    <2> QED
      BY <1>6, <2>1, TruncShift
  <1>9. Priority(lat) + now = Trunc(x)
    BY <1>1, <1>5, <1>7
  <1>10. 2 * MaxLat \in Int
    BY <1>1
  <1> QED
    BY <1>7, <1>8, <1>9, <1>10 DEF y, z

LEMMA ReceiveAged ==
  ASSUME OrderInv, Aged, NEW lat \in Lats, Receive(lat)
  PROVE  Aged'
  <1> DEFINE e == [n |-> arrived, prio |-> Priority(lat), at |-> now]
             y == Trunc(sliding - PutIn(window_vals))
             z == Trunc(sliding' - PutIn(window_vals'))
  <1>0. IoTypeOK /\ Ordered
    BY DEF OrderInv
  <1>1. Queue' \subseteq Queue \cup {e}
    BY <1>0, ReceiveQueue
  <1>2. /\ \A r \in Queue : /\ r.n \in Int /\ r.at \in Int /\ Level(r) \in Int
                            /\ r.n < arrived /\ y <= Level(r) /\ r.at <= now
    BY <1>0, QueueTypes DEF Aged
  <1>3. /\ e.n = arrived /\ e.at = now /\ Level(e) \in Int
        /\ z <= Level(e) /\ Level(e) <= y + 2 * MaxLat /\ z <= y /\ y \in Int /\ z \in Int
    BY <1>0, NewLevel DEF Level
  <1>4. now' = now /\ now \in Int /\ arrived \in Int /\ 2 * MaxLat \in Int
    BY <1>0, IoAssumption DEF Receive, IoTypeOK
  <1> HIDE DEF e, y, z
  <1>5. \A r \in Queue' : z <= Level(r) /\ r.at <= now'
    BY <1>1, <1>2, <1>3, <1>4
  <1>6. \A r, q \in Queue' : r.n = q.n => r = q
    BY <1>1, <1>2, <1>3, <1>4 DEF Aged
  <1>7. \A r, q \in Queue' : r.n < q.n => r.at <= q.at /\ Level(q) <= Level(r) + 2 * MaxLat
    <2> SUFFICES ASSUME NEW r \in Queue', NEW q \in Queue', r.n < q.n
                 PROVE  r.at <= q.at /\ Level(q) <= Level(r) + 2 * MaxLat
      OBVIOUS
    <2>1. CASE r \in Queue /\ q \in Queue
      BY <2>1 DEF Aged
    <2>2. CASE r \in Queue /\ q = e
      BY <1>2, <1>3, <1>4, <2>2
    <2>3. ~(r = e /\ q \in Queue)
      BY <1>2, <1>3, <1>4
    <2>4. ~(r = e /\ q = e)
      BY <1>3, <1>4
    <2> QED
      BY <1>1, <2>1, <2>2, <2>3, <2>4
  <1>8. (\A r \in Queue : Trunc(sliding - PutIn(window_vals)) <= Level(r) /\ r.at <= now)'
    BY <1>5 DEF z, Level
  <1> QED
    BY <1>6, <1>7, <1>8 DEF Aged, Level

LEMMA StepAged == OrderInv /\ Aged /\ [Next]_vars => Aged'
  <1> SUFFICES ASSUME OrderInv, Aged, [Next]_vars PROVE Aged'
    OBVIOUS
  <1>1. ASSUME NEW lat \in Lats, Receive(lat) PROVE Aged'
    BY <1>1, ReceiveAged
  <1>2. CASE Take
    <2>1. Queue' \subseteq Queue
      BY <1>2, Taken DEF OrderInv, Queue
    <2> QED
      BY <1>2, <2>1 DEF Take, Aged
  <1>3. CASE Tick \/ UNCHANGED vars
    <2>1. Queue' = Queue /\ UNCHANGED <<sliding, window_vals>> /\ now <= now' /\ now \in Int /\ now' \in Int
      BY <1>3 DEF Tick, vars, Queue, OrderInv, IoTypeOK
    <2>2. \A r \in Queue : r.at \in Int
      BY QueueTypes DEF OrderInv
    <2> QED
      BY <2>1, <2>2 DEF Aged
  <1> QED
    BY <1>1, <1>2, <1>3 DEF Next

\* No request is starved by later ones, for any size of the window, however
\* long the prediction drifts below the mean.
THEOREM AgeBeatsLatency == Spec => AgeWins
  <1>1. OrderInv /\ Aged /\ [Next]_vars =>
          [popped' # popped =>
             \A i \in DOMAIN dev_q : popped'.at - dev_q[i].at <= 2 * MaxLat]_vars
    <2> SUFFICES ASSUME OrderInv, Aged, Take, NEW i \in DOMAIN dev_q
                 PROVE  popped'.at - dev_q[i].at <= 2 * MaxLat
      BY DEF Next, Receive, Tick, vars
    <2> DEFINE len == Len(dev_q)  p == dev_q[len]  r == dev_q[i]
    <2>1. popped' = p /\ len \in Nat \ {0} /\ DOMAIN dev_q = 1..len
      BY Taken DEF Take, OrderInv
    <2>2. p \in Queue /\ r \in Queue
      BY <2>1 DEF Queue
    <2>3. /\ p.n \in Int /\ p.prio \in Int /\ p.at \in Int
          /\ r.n \in Int /\ r.prio \in Int /\ r.at \in Int /\ 2 * MaxLat \in Nat
      BY <2>2, QueueTypes, IoAssumption DEF OrderInv
    <2>4. i = len \/ Behind(r, p)
      BY <2>1 DEF OrderInv, Ordered
    <2>5. /\ r.n = p.n => r = p
          /\ r.n < p.n => p.prio + p.at <= r.prio + r.at + 2 * MaxLat
          /\ p.n < r.n => p.at <= r.at
      BY <2>2 DEF Aged, Level
    <2> HIDE DEF p, r
    <2>6. i = len => r = p
      BY DEF p, r
    <2>7. p.at - r.at <= 2 * MaxLat
      BY <2>3, <2>4, <2>5, <2>6 DEF Behind
    <2> QED
      BY <2>1, <2>7 DEF r
  <1>2. Init => OrderInv /\ Aged
    <2>1. Init => Ordered
      BY EmptySeq DEF Init, Ordered
    <2>2. Init => Queue = {}
      BY EmptySeq DEF Init, Queue
    <2> QED
      BY <2>1, <2>2, InitIo DEF OrderInv, Aged
  <1> QED
    BY <1>1, <1>2, StepOrdered, StepAged, PTL DEF Spec, AgeWins
=============================================================================
