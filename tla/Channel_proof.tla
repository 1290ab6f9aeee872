---------------------------- MODULE Channel_proof ----------------------------
(***************************************************************************)
(* Proofs about the block allocator of a channel.  First its lba queue:    *)
(* the ring of queue.c implements a bounded first-in, first-out queue, for *)
(* every capacity and whatever malloc leaves in it.  Then its block lists: *)
(* what insertion and removal leave where, for lists of any length.  Last  *)
(* Channel itself, for any number of blocks, any bad ones, any lists and   *)
(* any width of the erase counts.                                          *)
(***************************************************************************)
EXTENDS Channel, SequenceTheorems, FiniteSetTheorems, WellFoundedInduction, TLAPS

-----------------------------------------------------------------------------
(* The ring of queue.c. *)

\* tail is where the last element is: size - 1 places after front, around the
\* end of the ring.  Before the first enqueue it is -1; when a dequeue empties
\* the queue at the end of the ring, front is back at 0 and tail is not.
TailInv ==
    \/ tail = front + size - 1
    \/ tail = front + size - 1 - Capacity
    \/ tail = Capacity - 1 /\ front = 0 /\ size = 0

QueueInv == QueueTypeOK /\ TailInv

LEMMA InitQueue == QueueInit => QueueInv
  <1> SUFFICES ASSUME QueueInit PROVE QueueInv
    OBVIOUS
  <1>1. 0 \in Index /\ 0 \in 0..Capacity
    BY QueueAssumption DEF Index
  <1>2. QueueTypeOK
    <2>1. elements \in [Index -> Int] /\ exited \in BOOLEAN
      BY QueueAssumption DEF QueueInit
    <2>2. front \in Index /\ size \in 0..Capacity /\ tail \in Index \cup {-1} /\ ret \in Int
      BY <1>1 DEF QueueInit
    <2> QED
      BY <2>1, <2>2 DEF QueueTypeOK
  <1>3. TailInv
    BY DEF QueueInit, TailInv
  <1> QED
    BY <1>2, <1>3 DEF QueueInv

\* What the guards of the two operations leave of the arithmetic.
LEMMA EnqueueArith ==
  ASSUME QueueInv, size # Capacity
  PROVE  /\ Wrapped(tail + 1) \in Index /\ size + 1 \in 0..Capacity
         /\ Wrapped(tail + 1) = Slot(front, size + 1)
         /\ \A v \in 1..size : Slot(front, v) \in Index /\ Slot(front, v) # Slot(front, size + 1)
         /\ \/ Wrapped(tail + 1) = front + size
            \/ Wrapped(tail + 1) = front + size - Capacity
  <1>1. /\ Capacity \in Nat /\ Capacity > 0 /\ front \in Nat /\ front < Capacity
        /\ size \in Nat /\ size < Capacity /\ tail \in Int /\ tail >= -1 /\ tail < Capacity
        /\ TailInv
    BY QueueAssumption DEF QueueInv, QueueTypeOK, Index
  <1>2. \/ Wrapped(tail + 1) = front + size
        \/ Wrapped(tail + 1) = front + size - Capacity
    BY <1>1 DEF TailInv, Wrapped
  <1>3. Wrapped(tail + 1) \in Index
    BY <1>1 DEF Wrapped, Index
  <1>4. Wrapped(tail + 1) = Slot(front, size + 1)
    BY <1>1, <1>2, <1>3 DEF Slot, Index
  <1>5. \A v \in 1..size : Slot(front, v) \in Index /\ Slot(front, v) # Slot(front, size + 1)
    BY <1>1 DEF Slot, Index
  <1> QED
    BY <1>1, <1>2, <1>3, <1>4, <1>5

LEMMA DequeueArith ==
  ASSUME QueueInv, size # 0
  PROVE  /\ Wrapped(front + 1) \in Index /\ size - 1 \in 0..Capacity
         /\ \A v \in 1..(size - 1) : Slot(Wrapped(front + 1), v) = Slot(front, v + 1)
         /\ \/ tail = Wrapped(front + 1) + size - 2
            \/ tail = Wrapped(front + 1) + size - 2 - Capacity
            \/ tail = Capacity - 1 /\ Wrapped(front + 1) = 0 /\ size = 1
  <1>1. /\ Capacity \in Nat /\ Capacity > 0 /\ front \in Nat /\ front < Capacity
        /\ size \in Nat /\ size > 0 /\ size <= Capacity /\ tail \in Int /\ tail >= -1
        /\ tail < Capacity /\ TailInv
    BY QueueAssumption DEF QueueInv, QueueTypeOK, Index
  <1>2. Wrapped(front + 1) \in Index
    BY <1>1 DEF Wrapped, Index
  <1>3. \A v \in 1..(size - 1) : Slot(Wrapped(front + 1), v) = Slot(front, v + 1)
    BY <1>1 DEF Slot, Wrapped
  <1>4. \/ tail = Wrapped(front + 1) + size - 2
        \/ tail = Wrapped(front + 1) + size - 2 - Capacity
        \/ tail = Capacity - 1 /\ Wrapped(front + 1) = 0 /\ size = 1
    BY <1>1 DEF TailInv, Wrapped
  <1> QED
    BY <1>1, <1>2, <1>3, <1>4

LEMMA StepQueue == QueueInv /\ [QueueNext]_queueVars => QueueInv'
  <1> SUFFICES ASSUME QueueInv, [QueueNext]_queueVars PROVE QueueInv'
    OBVIOUS
  <1>0. QueueTypeOK /\ TailInv
    BY DEF QueueInv
  <1>1. ASSUME NEW x \in Elements, Enqueue(x) PROVE QueueInv'
    <2>1. CASE size = Capacity
      BY <1>0, <1>1, <2>1 DEF Enqueue, Refused, QueueInv, QueueTypeOK, TailInv
    <2>2. CASE size # Capacity
      <3>1. x \in Int
        BY QueueAssumption
      <3>2. QueueTypeOK'
        BY <1>0, <1>1, <2>2, <3>1, EnqueueArith DEF Enqueue, QueueTypeOK
      <3>3. /\ tail' = Wrapped(tail + 1) /\ size' = size + 1 /\ front' = front
            /\ front \in Int /\ size \in Int
        BY <1>0, <1>1, <2>2 DEF Enqueue, QueueTypeOK, Index
      <3>4. TailInv'
        BY <2>2, <3>3, EnqueueArith, QueueAssumption DEF TailInv
      <3> QED
        BY <3>2, <3>4 DEF QueueInv
    <2> QED
      BY <2>1, <2>2
  <1>2. CASE Dequeue
    <2>1. CASE size = 0
      BY <1>0, <1>2, <2>1 DEF Dequeue, Refused, QueueInv, QueueTypeOK, TailInv
    <2>2. CASE size # 0
      <3>1. QueueTypeOK'
        BY <1>0, <1>2, <2>2, DequeueArith DEF Dequeue, QueueTypeOK
      <3>2. /\ front' = Wrapped(front + 1) /\ size' = size - 1 /\ tail' = tail
            /\ front' \in Int /\ size \in Int
        BY <1>0, <1>2, <2>2, DequeueArith DEF Dequeue, QueueTypeOK, Index
      <3>3. TailInv'
        BY <2>2, <3>2, DequeueArith, QueueAssumption DEF TailInv
      <3> QED
        BY <3>1, <3>3 DEF QueueInv
    <2> QED
      BY <2>1, <2>2
  <1>3. CASE Front
    BY <1>0, <1>3 DEF Front, QueueInv, QueueTypeOK, TailInv
  <1>4. CASE UNCHANGED queueVars
    BY <1>0, <1>4 DEF queueVars, QueueInv, QueueTypeOK, TailInv
  <1> QED
    BY <1>1, <1>2, <1>3, <1>4 DEF QueueNext

\* Every reachable state of the ring is of its type, for every capacity.
THEOREM QueueTypes == QueueSpec => []QueueTypeOK
  <1>1. QueueInv => QueueTypeOK
    BY DEF QueueInv
  <1> QED
    BY <1>1, InitQueue, StepQueue, PTL DEF QueueSpec

-----------------------------------------------------------------------------
(* The contents. *)

LEMMA AroundFacts ==
  ASSUME NEW ring \in [Index -> Int], NEW f \in Index, NEW n \in 0..Capacity
  PROVE  /\ Around(ring, f, n) \in Seq(Int) /\ Len(Around(ring, f, n)) = n
         /\ \A v \in 1..n : Around(ring, f, n)[v] = ring[Slot(f, v)]
         /\ n # 0 => Around(ring, f, n)[1] = ring[f]
  <1> USE QueueAssumption DEF Index
  <1>1. \A v \in 1..n : Slot(f, v) \in Index
    BY DEF Slot
  <1>2. \A v \in 1..n : ring[Slot(f, v)] \in Int
    BY <1>1
  <1>3. Around(ring, f, n) \in [1..n -> Int] /\ n \in Nat
    BY <1>2 DEF Around
  <1>4. Around(ring, f, n) \in Seq(Int) /\ Len(Around(ring, f, n)) = n
    BY <1>3
  <1>5. \A v \in 1..n : Around(ring, f, n)[v] = ring[Slot(f, v)]
    BY DEF Around
  <1>6. n # 0 => 1 \in 1..n /\ Slot(f, 1) = f
    BY DEF Slot
  <1> QED
    BY <1>4, <1>5, <1>6

LEMMA ContentsFacts ==
  ASSUME QueueInv
  PROVE  /\ Contents \in Seq(Int) /\ Len(Contents) = size /\ size \in 0..Capacity
         /\ \A v \in 1..size : Contents[v] = elements[Slot(front, v)]
         /\ size # 0 => Contents[1] = elements[front]
  BY AroundFacts DEF QueueInv, QueueTypeOK, Contents

LEMMA EnqueuePuts ==
  ASSUME QueueInv, QueueInv', NEW x \in Elements, Enqueue(x)
  PROVE  FIFO!Put(x)
  <1>1. CASE size = Capacity
    BY <1>1, ContentsFacts, QueueAssumption DEF Enqueue, FIFO!Put, Contents, Around, Slot
  <1>2. CASE size # Capacity
    <2>1. /\ size' = size + 1 /\ front' = front /\ ret' = 0
          /\ elements' = [elements EXCEPT ![Wrapped(tail + 1)] = x]
      BY <1>2 DEF Enqueue
    <2>3. /\ \A v \in 1..size : elements'[Slot(front, v)] = elements[Slot(front, v)]
          /\ elements'[Slot(front, size + 1)] = x
      BY <1>2, <2>1, EnqueueArith DEF QueueInv, QueueTypeOK
    <2>4. /\ Contents' \in Seq(Int) /\ Len(Contents') = size + 1 /\ size \in Nat
          /\ \A v \in 1..(size + 1) : Contents'[v] = elements'[Slot(front, v)]
      <3>1. elements' \in [Index -> Int] /\ front \in Index /\ size + 1 \in 0..Capacity /\ size \in Nat
        BY <2>1, QueueAssumption DEF QueueInv, QueueTypeOK
      <3>2. Contents' = Around(elements', front, size + 1)
        BY <2>1 DEF Contents, Around, Slot
      <3> QED
        BY <3>1, <3>2, AroundFacts
    <2>5. /\ Append(Contents, x) \in Seq(Int) /\ Len(Append(Contents, x)) = size + 1
          /\ \A v \in 1..size : Append(Contents, x)[v] = elements[Slot(front, v)]
          /\ Append(Contents, x)[size + 1] = x
      <3>1. Contents \in Seq(Int) /\ Len(Contents) = size /\ x \in Int /\ size \in Nat
        BY ContentsFacts, QueueAssumption
      <3> QED
        BY <3>1, ContentsFacts, AppendProperties
    <2>6. Contents' = Append(Contents, x)
      <3>1. ASSUME NEW v \in 1..(size + 1) PROVE Contents'[v] = Append(Contents, x)[v]
        <4>1. Contents'[v] = elements'[Slot(front, v)]
          BY <2>4
        <4>2. CASE v = size + 1
          BY <2>3, <2>5, <4>1, <4>2
        <4>3. CASE v \in 1..size
          BY <2>3, <2>5, <4>1, <4>3
        <4>4. v = size + 1 \/ v \in 1..size
          BY <2>4
        <4> QED
          BY <4>2, <4>3, <4>4
      <3> QED
        BY <2>4, <2>5, <3>1, SeqEqual
    <2>7. Len(Contents) < Capacity
      BY <1>2, ContentsFacts, QueueAssumption
    <2> QED
      BY <2>1, <2>6, <2>7 DEF FIFO!Put
  <1> QED
    BY <1>1, <1>2

LEMMA DequeueGets ==
  ASSUME QueueInv, QueueInv', Dequeue
  PROVE  FIFO!Get
  <1>1. CASE size = 0
    <2>1. Contents = <<>> /\ Contents' = Contents /\ ret' = Refused
      <3>1. Contents \in Seq(Int) /\ Len(Contents) = 0
        BY <1>1, ContentsFacts
      <3>2. Contents' = Contents /\ ret' = Refused
        BY <1>1 DEF Dequeue, Contents, Around, Slot
      <3> QED
        BY <3>1, <3>2, EmptySeq
    <2> QED
      BY <2>1 DEF FIFO!Get
  <1>2. CASE size # 0
    <2>1. /\ ret' = elements[front] /\ size' = size - 1 /\ front' = Wrapped(front + 1)
          /\ elements' = elements
      BY <1>2 DEF Dequeue
    <2>2. /\ Contents \in Seq(Int) /\ Len(Contents) = size /\ size \in Nat \ {0}
          /\ Contents[1] = elements[front]
          /\ \A v \in 1..size : Contents[v] = elements[Slot(front, v)]
      BY <1>2, ContentsFacts, QueueAssumption
    <2>4. /\ Contents' \in Seq(Int) /\ Len(Contents') = size - 1
          /\ \A v \in 1..(size - 1) : Contents'[v] = elements[Slot(front, v + 1)]
      <3>1. elements \in [Index -> Int] /\ Wrapped(front + 1) \in Index /\ size - 1 \in 0..Capacity
        BY <1>2, DequeueArith DEF QueueInv, QueueTypeOK
      <3>2. Contents' = Around(elements, Wrapped(front + 1), size - 1)
        BY <2>1 DEF Contents, Around, Slot
      <3>3. /\ Contents' \in Seq(Int) /\ Len(Contents') = size - 1
            /\ \A v \in 1..(size - 1) : Contents'[v] = elements[Slot(Wrapped(front + 1), v)]
        BY <3>1, <3>2, AroundFacts
      <3> QED
        BY <1>2, <3>3, DequeueArith
    <2>5. /\ Contents # <<>> /\ Head(Contents) = Contents[1]
          /\ Tail(Contents) \in Seq(Int) /\ Len(Tail(Contents)) = size - 1
          /\ \A v \in 1..(size - 1) : Tail(Contents)[v] = Contents[v + 1]
      BY <2>2, HeadTailProperties, EmptySeq
    <2>6. Contents' = Tail(Contents)
      <3>1. \A v \in 1..(size - 1) : v + 1 \in 1..size
        BY <2>2
      <3>2. \A v \in 1..(size - 1) : Contents'[v] = Tail(Contents)[v]
        BY <2>2, <2>4, <2>5, <3>1
      <3> QED
        BY <2>4, <2>5, <3>2, SeqEqual
    <2> QED
      BY <2>1, <2>2, <2>5, <2>6 DEF FIFO!Get
  <1> QED
    BY <1>1, <1>2

LEMMA FrontLooks ==
  ASSUME QueueInv, Front
  PROVE  FIFO!Look \/ UNCHANGED <<Contents, ret>>
  <1>1. Contents' = Contents
    BY DEF Front, Contents, Around, Slot
  <1>2. CASE size = 0
    BY <1>1, <1>2 DEF Front
  <1>3. CASE size # 0
    <2>1. /\ Contents \in Seq(Int) /\ Len(Contents) = size /\ Contents[1] = elements[front]
      BY <1>3, ContentsFacts
    <2>2. Contents # <<>> /\ Head(Contents) = elements[front]
      BY <1>3, <2>1, HeadTailProperties, EmptySeq
    <2> QED
      BY <1>1, <1>3, <2>2 DEF Front, FIFO!Look
  <1> QED
    BY <1>2, <1>3

\* The ring of queue.c is a bounded first-in, first-out queue.
THEOREM RingIsFifo == QueueSpec => IsFifo
  <1>1. QueueInit => FIFO!Init
    <2> SUFFICES ASSUME QueueInit PROVE FIFO!Init
      OBVIOUS
    <2>1. Contents \in Seq(Int) /\ Len(Contents) = 0
      BY InitQueue, ContentsFacts DEF QueueInit
    <2> QED
      BY <2>1, EmptySeq DEF QueueInit, FIFO!Init
  <1>2. QueueInv /\ QueueInv' /\ [QueueNext]_queueVars => [FIFO!Next]_<<Contents, ret>>
    <2> SUFFICES ASSUME QueueInv, QueueInv', [QueueNext]_queueVars
                 PROVE  [FIFO!Next]_<<Contents, ret>>
      OBVIOUS
    <2>1. ASSUME NEW x \in Elements, Enqueue(x) PROVE FIFO!Next
      BY <2>1, EnqueuePuts DEF FIFO!Next
    <2>2. CASE Dequeue
      BY <2>2, DequeueGets DEF FIFO!Next
    <2>3. CASE Front
      BY <2>3, FrontLooks DEF FIFO!Next
    <2>4. CASE UNCHANGED queueVars
      BY <2>4 DEF queueVars, Contents, Around, Slot
    <2> QED
      BY <2>1, <2>2, <2>3, <2>4 DEF QueueNext
  <1> QED
    BY <1>1, <1>2, InitQueue, StepQueue, PTL DEF QueueSpec, IsFifo, FIFO!Spec

-----------------------------------------------------------------------------
(* Block lists. *)

LEMMA LeastOf ==
  ASSUME NEW T \in SUBSET Nat, T # {}
  PROVE  \E x \in T : \A y \in T : x <= y
  <1>1. PICK x \in T : \A y \in T : <<y, x>> \notin OpToRel(<, Nat)
    BY NatLessThanWellFounded, WFMin
  <1>2. \A y \in T : ~(y < x)
    BY <1>1 DEF OpToRel
  <1> QED
    BY <1>2

\* list is old with node put in at k.
PutAt(list, old, k, node) ==
    /\ Len(list) = Len(old) + 1
    /\ \A j \in 1..(Len(old) + 1) :
          list[j] = IF j < k THEN old[j] ELSE IF j = k THEN node ELSE old[j - 1]

\* A walk stops somewhere, at the end of the list if not before.
LEMMA StopExists ==
  ASSUME NEW S, NEW list \in Seq(S), NEW stops
  PROVE  \E k \in 1..(Len(list) + 1) :
            /\ \A j \in 1..(k - 1) : j \notin stops
            /\ k <= Len(list) => k \in stops
  <1> DEFINE n == Len(list)
             T == {k \in 1..(n + 1) : k <= n => k \in stops}
  <1>0. n \in Nat
    BY LenProperties
  <1>1. T \in SUBSET Nat /\ T # {}
    <2>1. n + 1 \in T
      BY <1>0
    <2> QED
      BY <1>0, <2>1
  <1>2. PICK k \in T : \A y \in T : k <= y
    <2> HIDE DEF T
    <2> QED
      BY <1>1, LeastOf
  <1>3. k \in 1..(n + 1) /\ (k <= n => k \in stops)
    OBVIOUS
  <1>4. \A j \in 1..(k - 1) : j \notin stops
    <2> SUFFICES ASSUME NEW j \in 1..(k - 1), j \in stops PROVE FALSE
      OBVIOUS
    <2>1. j \in T /\ j < k
      BY <1>0, <1>3
    <2> HIDE DEF T
    <2>2. k <= j /\ j \in Nat /\ k \in Nat
      BY <1>0, <1>2, <1>3, <2>1
    <2> QED
      BY <2>1, <2>2
  <1> QED
    BY <1>3, <1>4

LEMMA AddBeforeAt ==
  ASSUME NEW S, NEW list \in Seq(S), NEW node \in S, NEW stops
  PROVE  /\ AddBefore(list, stops, node) \in Seq(S)
         /\ \E k \in 1..(Len(list) + 1) :
              /\ PutAt(AddBefore(list, stops, node), list, k, node)
              /\ \A j \in 1..(k - 1) : j \notin stops
              /\ k <= Len(list) => k \in stops
  <1> DEFINE n == Len(list)
             k == CHOOSE k \in 1..(n + 1) :
                    /\ \A j \in 1..(k - 1) : j \notin stops
                    /\ k <= n => k \in stops
             L == SubSeq(list, 1, k - 1)
             R == SubSeq(list, k, n)
             M == L \o <<node>>
  <1>1. /\ k \in 1..(n + 1)
        /\ \A j \in 1..(k - 1) : j \notin stops
        /\ k <= n => k \in stops
    BY StopExists
  <1>2. AddBefore(list, stops, node) = M \o R
    BY DEF AddBefore
  <1> HIDE DEF k
  <1>3. n \in Nat /\ k \in Nat /\ k >= 1 /\ k <= n + 1
    BY <1>1, LenProperties
  <1>4. L \in Seq(S) /\ Len(L) = k - 1 /\ \A j \in 1..(k - 1) : L[j] = list[j]
    BY <1>3, SubSeqProperties
  <1>5. R \in Seq(S) /\ Len(R) = n - k + 1 /\ \A j \in 1..(n - k + 1) : R[j] = list[k + j - 1]
    BY <1>3, SubSeqProperties
  <1>6. <<node>> \in Seq(S) /\ Len(<<node>>) = 1 /\ <<node>>[1] = node
    OBVIOUS
  <1> HIDE DEF L, R
  <1>7. M \in Seq(S) /\ Len(M) = k /\ \A j \in 1..k : M[j] = IF j < k THEN list[j] ELSE node
    BY <1>3, <1>4, <1>6, ConcatProperties
  <1> HIDE DEF M
  <1>8. M \o R \in Seq(S) /\ Len(M \o R) = n + 1
    <2>1. Len(M) + Len(R) = n + 1
      BY <1>3, <1>5, <1>7
    <2> QED
      BY <1>5, <1>7, <2>1, ConcatProperties
  <1>9. \A j \in 1..(n + 1) : (M \o R)[j] = IF j <= k THEN M[j] ELSE R[j - k]
    BY <1>3, <1>5, <1>7, <1>8, ConcatProperties
  <1>10. PutAt(M \o R, list, k, node)
    BY <1>3, <1>5, <1>7, <1>8, <1>9 DEF PutAt
  <1> HIDE DEF n
  <1> QED
    BY <1>1, <1>2, <1>8, <1>10 DEF n

\* new is old without its node at k.
TakenAt(new, old, k) ==
    /\ k \in 1..Len(old)
    /\ Len(new) = Len(old) - 1
    /\ \A j \in 1..(Len(old) - 1) : new[j] = IF j < k THEN old[j] ELSE old[j + 1]

LEMMA WithoutAt ==
  ASSUME NEW S, NEW list \in Seq(S), NEW b, Places(list, b) # {}
  PROVE  /\ Without(list, b) \in Seq(S)
         /\ \E k \in Places(list, b) : TakenAt(Without(list, b), list, k)
  <1> DEFINE n == Len(list)
             k == CHOOSE k \in Places(list, b) : \A j \in Places(list, b) : k <= j
             L == SubSeq(list, 1, k - 1)
             R == SubSeq(list, k + 1, n)
  <1>0. Places(list, b) \in SUBSET (1..n) /\ n \in Nat
    BY LenProperties DEF Places
  <1>1. k \in Places(list, b)
    <2>1. \E x \in Places(list, b) : \A y \in Places(list, b) : x <= y
      BY <1>0, LeastOf
    <2> QED
      BY <2>1
  <1>2. Without(list, b) = L \o R
    BY DEF Without
  <1> HIDE DEF k
  <1>3. k \in Nat /\ k >= 1 /\ k <= n
    BY <1>0, <1>1
  <1>4. L \in Seq(S) /\ Len(L) = k - 1 /\ \A j \in 1..(k - 1) : L[j] = list[j]
    BY <1>0, <1>3, SubSeqProperties
  <1>5. R \in Seq(S) /\ Len(R) = n - k /\ \A j \in 1..(n - k) : R[j] = list[k + j]
    <2>1. k + 1 \in 1..(n + 1)
      BY <1>0, <1>3
    <2> QED
      BY <1>0, <1>3, <2>1, SubSeqProperties
  <1> HIDE DEF L, R
  <1>6. L \o R \in Seq(S) /\ Len(L \o R) = n - 1
    <2>1. Len(L) + Len(R) = n - 1
      BY <1>0, <1>3, <1>4, <1>5
    <2> QED
      BY <1>4, <1>5, <2>1, ConcatProperties
  <1>7. \A j \in 1..(n - 1) : (L \o R)[j] = IF j < k THEN L[j] ELSE R[j - k + 1]
    BY <1>0, <1>3, <1>4, <1>5, <1>6, ConcatProperties
  <1>8. TakenAt(L \o R, list, k)
    <2>1. \A j \in 1..(n - 1) : (L \o R)[j] = IF j < k THEN list[j] ELSE list[j + 1]
      <3>1. ASSUME NEW j \in 1..(n - 1), j < k PROVE (L \o R)[j] = list[j]
        BY <1>0, <1>3, <1>4, <1>7, <3>1
      <3>2. ASSUME NEW j \in 1..(n - 1), ~(j < k) PROVE (L \o R)[j] = list[j + 1]
        <4>1. j - k + 1 \in 1..(n - k) /\ k + (j - k + 1) = j + 1
          BY <1>0, <1>3, <3>2
        <4> QED
          BY <1>5, <1>7, <3>2, <4>1
      <3> QED
        BY <3>1, <3>2
    <2> QED
      BY <1>0, <1>3, <1>6, <2>1 DEF TakenAt
  <1> QED
    BY <1>1, <1>2, <1>6, <1>8

-----------------------------------------------------------------------------
(* The same, for the sets of nodes and of blocks on a list. *)

NodesOf(list) == {list[j] : j \in 1..Len(list)}
Ppas(list) == {list[j].ppa : j \in 1..Len(list)}
Distinct(list) == \A j, k \in 1..Len(list) : j # k => list[j].ppa # list[k].ppa

\* Sorted by a relation on data: >= for the free list, <= for the other.
Falling(list) == \A j, k \in 1..Len(list) : j < k => list[j].data >= list[k].data
Rising(list) == \A j, k \in 1..Len(list) : j < k => list[j].data <= list[k].data

LEMMA PutAtPlaces ==
  ASSUME NEW old, NEW new, NEW node, NEW k \in 1..(Len(old) + 1), Len(old) \in Nat,
         PutAt(new, old, k, node)
  PROVE  /\ \A j \in 1..(Len(old) + 1) : j < k => j \in 1..Len(old) /\ new[j] = old[j]
         /\ new[k] = node
         /\ \A j \in 1..(Len(old) + 1) : j > k => j - 1 \in 1..Len(old) /\ new[j] = old[j - 1]
  BY DEF PutAt

LEMMA PutAtSets ==
  ASSUME NEW old, NEW new, NEW k \in 1..(Len(old) + 1), NEW node,
         Len(old) \in Nat, PutAt(new, old, k, node)
  PROVE  /\ NodesOf(new) = NodesOf(old) \cup {node}
         /\ Ppas(new) = Ppas(old) \cup {node.ppa}
         /\ Distinct(old) /\ node.ppa \notin Ppas(old) => Distinct(new)
  <1> DEFINE n == Len(old)
  <1>1. /\ Len(new) = n + 1 /\ n \in Nat /\ k \in 1..(n + 1)
        /\ \A j \in 1..(n + 1) :
              new[j] = IF j < k THEN old[j] ELSE IF j = k THEN node ELSE old[j - 1]
    BY DEF PutAt
  <1> HIDE DEF n
  <1>2. /\ \A j \in 1..(n + 1) : j < k => j \in 1..n /\ new[j] = old[j]
        /\ new[k] = node
        /\ \A j \in 1..(n + 1) : j > k => j - 1 \in 1..n /\ new[j] = old[j - 1]
    BY PutAtPlaces DEF n
  <1>3. \A j \in 1..n : \E m \in 1..(n + 1) : new[m] = old[j]
    <2>1. ASSUME NEW j \in 1..n, j < k PROVE j \in 1..(n + 1) /\ new[j] = old[j]
      BY <1>1, <1>2, <2>1
    <2>2. ASSUME NEW j \in 1..n, ~(j < k) PROVE j + 1 \in 1..(n + 1) /\ new[j + 1] = old[j]
      <3>1. j + 1 \in 1..(n + 1) /\ j + 1 > k /\ (j + 1) - 1 = j
        BY <1>1, <2>2
      <3> QED
        BY <1>2, <3>1
    <2> QED
      BY <2>1, <2>2
  <1>4. \A j \in 1..(n + 1) : new[j] = node \/ \E m \in 1..n : new[j] = old[m]
    BY <1>1, <1>2
  <1>5. NodesOf(new) = NodesOf(old) \cup {node}
    BY <1>1, <1>2, <1>3, <1>4 DEF NodesOf, n
  <1>6. Ppas(new) = Ppas(old) \cup {node.ppa}
    <2>1. \A list : Ppas(list) = {x.ppa : x \in NodesOf(list)}
      BY DEF Ppas, NodesOf
    <2> QED
      BY <1>5, <2>1
  <1>7. ASSUME Distinct(old), node.ppa \notin Ppas(old) PROVE Distinct(new)
    <2> SUFFICES ASSUME NEW a \in 1..(n + 1), NEW b \in 1..(n + 1), a < b
                 PROVE  new[a].ppa # new[b].ppa
      BY <1>1 DEF Distinct
    <2>1. \A j \in 1..n : old[j].ppa # node.ppa
      BY <1>7 DEF Ppas, n
    <2>2. \A v, j \in 1..n : v # j => old[v].ppa # old[j].ppa
      BY <1>7 DEF Distinct, n
    <2>3. CASE a < k /\ b < k
      BY <1>1, <1>2, <2>2, <2>3
    <2>4. CASE a < k /\ b = k
      BY <1>1, <1>2, <2>1, <2>4
    <2>5. CASE a < k /\ b > k
      <3>1. a \in 1..n /\ b - 1 \in 1..n /\ a # b - 1
        BY <1>1, <2>5
      <3> QED
        BY <1>2, <2>2, <2>5, <3>1
    <2>6. CASE a = k
      BY <1>1, <1>2, <2>1, <2>6
    <2>7. CASE a > k
      <3>1. a - 1 \in 1..n /\ b - 1 \in 1..n /\ a - 1 # b - 1 /\ b > k
        BY <1>1, <2>7
      <3> QED
        BY <1>2, <2>2, <2>7, <3>1
    <2> QED
      BY <1>1, <2>3, <2>4, <2>5, <2>6, <2>7
  <1> QED
    BY <1>5, <1>6, <1>7

LEMMA TakenAtSets ==
  ASSUME NEW old, NEW new, NEW k, Len(old) \in Nat, TakenAt(new, old, k), Distinct(old)
  PROVE  /\ NodesOf(new) \subseteq NodesOf(old)
         /\ Ppas(new) = Ppas(old) \ {old[k].ppa}
         /\ Distinct(new)
         /\ Falling(old) => Falling(new)
         /\ Rising(old) => Rising(new)
  <1> DEFINE n == Len(old)
  <1>1. /\ Len(new) = n - 1 /\ n \in Nat /\ k \in 1..n
        /\ \A j \in 1..(n - 1) : new[j] = IF j < k THEN old[j] ELSE old[j + 1]
    BY DEF TakenAt
  <1>2. \A v, j \in 1..n : v # j => old[v].ppa # old[j].ppa
    BY DEF Distinct
  <1> DEFINE From(j) == IF j < k THEN j ELSE j + 1
  <1> HIDE DEF n
  <1>3. /\ \A j \in 1..(n - 1) : From(j) \in 1..n \ {k} /\ new[j] = old[From(j)]
        /\ \A v, j \in 1..(n - 1) : v < j => From(v) < From(j)
    BY <1>1
  <1>4. \A m \in 1..n \ {k} : \E j \in 1..(n - 1) : From(j) = m
    <2>1. ASSUME NEW m \in 1..n, m < k PROVE m \in 1..(n - 1) /\ From(m) = m
      BY <1>1, <2>1
    <2>2. ASSUME NEW m \in 1..n, m > k PROVE m - 1 \in 1..(n - 1) /\ From(m - 1) = m
      BY <1>1, <2>2
    <2> SUFFICES ASSUME NEW m \in 1..n \ {k} PROVE \E j \in 1..(n - 1) : From(j) = m
      OBVIOUS
    <2>3. m < k \/ m > k
      BY <1>1
    <2> HIDE DEF From
    <2> QED
      BY <2>1, <2>2, <2>3
  <1> HIDE DEF From
  <1>5. NodesOf(new) \subseteq NodesOf(old)
    BY <1>1, <1>3 DEF NodesOf, n
  <1>6. Ppas(new) = Ppas(old) \ {old[k].ppa}
    <2>1. \A x \in Ppas(new) : x \in Ppas(old) /\ x # old[k].ppa
      BY <1>1, <1>2, <1>3 DEF Ppas, n
    <2>2. \A x \in Ppas(old) : x # old[k].ppa => x \in Ppas(new)
      <3> SUFFICES ASSUME NEW m \in 1..n, m # k PROVE old[m].ppa \in Ppas(new)
        BY DEF Ppas, n
      <3>1. PICK j \in 1..(n - 1) : From(j) = m
        BY <1>4
      <3> QED
        BY <1>1, <1>3, <3>1 DEF Ppas
    <2> QED
      BY <2>1, <2>2
  <1>7. Distinct(new)
    <2> SUFFICES ASSUME NEW a \in 1..(n - 1), NEW b \in 1..(n - 1), a < b
                 PROVE  new[a].ppa # new[b].ppa
      BY <1>1 DEF Distinct
    <2>1. From(a) \in 1..n /\ From(b) \in 1..n /\ From(a) # From(b)
      BY <1>1, <1>3
    <2> QED
      BY <1>2, <1>3, <2>1
  <1>8. Falling(old) => Falling(new)
    BY <1>1, <1>3 DEF Falling, n
  <1>9. Rising(old) => Rising(new)
    BY <1>1, <1>3 DEF Rising, n
  <1> QED
    BY <1>5, <1>6, <1>7, <1>8, <1>9

\* Taking the head is taking the first node.
LEMMA TailIsTaken ==
  ASSUME NEW S, NEW list \in Seq(S), list # <<>>
  PROVE  /\ TakenAt(Tail(list), list, 1) /\ Head(list) = list[1]
         /\ Tail(list) \in Seq(S) /\ Len(Tail(list)) = Len(list) - 1
         /\ Head(list) \in S /\ Head(list) \in NodesOf(list) /\ Head(list).ppa \in Ppas(list)
  <1>1. /\ Head(list) = list[1] /\ Tail(list) \in Seq(S) /\ Len(Tail(list)) = Len(list) - 1
        /\ \A j \in 1..(Len(list) - 1) : Tail(list)[j] = list[j + 1]
    BY HeadTailProperties
  <1>2. Len(list) \in Nat /\ Len(list) > 0
    BY EmptySeq, LenProperties
  <1>3. Head(list) \in S
    BY <1>1, <1>2, ElementOfSeq
  <1> QED
    BY <1>1, <1>2, <1>3 DEF TakenAt, NodesOf, Ppas

-----------------------------------------------------------------------------
(* What the three operations do. *)

\* A node put where the walk of add_free_list stops leaves the list sorted.
LEMMA PutAtFalling ==
  ASSUME NEW old, NEW new, NEW node, NEW k \in 1..(Len(old) + 1), Len(old) \in Nat,
         PutAt(new, old, k, node), Falling(old), node.data \in Int,
         \A j \in 1..Len(old) : old[j].data \in Int,
         \A j \in 1..(k - 1) : ~(old[j].data <= node.data),
         k <= Len(old) => old[k].data <= node.data
  PROVE  Falling(new)
  <1> DEFINE n == Len(old)
  <1>1. /\ Len(new) = n + 1 /\ n \in Nat /\ k \in 1..(n + 1)
        /\ \A j \in 1..(n + 1) :
              new[j] = IF j < k THEN old[j] ELSE IF j = k THEN node ELSE old[j - 1]
    BY DEF PutAt
  <1>2. /\ \A v, j \in 1..n : v < j => old[v].data >= old[j].data
        /\ \A j \in 1..n : old[j].data \in Int
    BY DEF Falling
  <1> HIDE DEF n
  <1>3. /\ \A j \in 1..(n + 1) : j < k => j \in 1..n /\ new[j] = old[j]
        /\ new[k] = node
        /\ \A j \in 1..(n + 1) : j > k => j - 1 \in 1..n /\ new[j] = old[j - 1]
    BY PutAtPlaces DEF n
  <1>4. \A j \in 1..n : j < k => old[j].data > node.data
    BY <1>1, <1>2
  <1>5. \A j \in 1..n : j >= k => old[j].data <= node.data
    <2> SUFFICES ASSUME NEW j \in 1..n, j >= k PROVE old[j].data <= node.data
      OBVIOUS
    <2>1. k \in 1..n /\ old[k].data <= node.data
      BY <1>1 DEF n
    <2>2. old[k].data >= old[j].data
      BY <1>1, <1>2, <2>1
    <2> QED
      BY <1>2, <2>1, <2>2
  <1> SUFFICES ASSUME NEW a \in 1..(n + 1), NEW b \in 1..(n + 1), a < b
               PROVE  new[a].data >= new[b].data
    BY <1>1 DEF Falling
  <1>6. CASE b < k
    BY <1>1, <1>2, <1>3, <1>6
  <1>7. CASE b = k
    BY <1>1, <1>2, <1>3, <1>4, <1>7
  <1>8. CASE b > k
    <2>1. b - 1 \in 1..n /\ new[b] = old[b - 1] /\ b - 1 >= k
      BY <1>1, <1>3, <1>8
    <2>2. CASE a < k
      <3>1. a \in 1..n /\ new[a] = old[a] /\ a < b - 1
        BY <1>1, <1>3, <2>1, <2>2
      <3> QED
        BY <1>2, <2>1, <3>1
    <2>3. CASE a = k
      BY <1>1, <1>3, <1>5, <2>1, <2>3
    <2>4. CASE a > k
      <3>1. a - 1 \in 1..n /\ new[a] = old[a - 1] /\ a - 1 < b - 1
        BY <1>1, <1>3, <2>4
      <3> QED
        BY <1>2, <2>1, <3>1
    <2> QED
      BY <1>1, <2>2, <2>3, <2>4
  <1> QED
    BY <1>1, <1>6, <1>7, <1>8

LEMMA PutAtRising ==
  ASSUME NEW old, NEW new, NEW node, NEW k \in 1..(Len(old) + 1), Len(old) \in Nat,
         PutAt(new, old, k, node), Rising(old), node.data \in Int,
         \A j \in 1..Len(old) : old[j].data \in Int,
         \A j \in 1..(k - 1) : ~(old[j].data >= node.data),
         k <= Len(old) => old[k].data >= node.data
  PROVE  Rising(new)
  <1> DEFINE n == Len(old)
  <1>1. /\ Len(new) = n + 1 /\ n \in Nat /\ k \in 1..(n + 1)
        /\ \A j \in 1..(n + 1) :
              new[j] = IF j < k THEN old[j] ELSE IF j = k THEN node ELSE old[j - 1]
    BY DEF PutAt
  <1>2. /\ \A v, j \in 1..n : v < j => old[v].data <= old[j].data
        /\ \A j \in 1..n : old[j].data \in Int
    BY DEF Rising
  <1> HIDE DEF n
  <1>3. /\ \A j \in 1..(n + 1) : j < k => j \in 1..n /\ new[j] = old[j]
        /\ new[k] = node
        /\ \A j \in 1..(n + 1) : j > k => j - 1 \in 1..n /\ new[j] = old[j - 1]
    BY PutAtPlaces DEF n
  <1>4. \A j \in 1..n : j < k => old[j].data < node.data
    BY <1>1, <1>2
  <1>5. \A j \in 1..n : j >= k => old[j].data >= node.data
    <2> SUFFICES ASSUME NEW j \in 1..n, j >= k PROVE old[j].data >= node.data
      OBVIOUS
    <2>1. k \in 1..n /\ old[k].data >= node.data
      BY <1>1 DEF n
    <2>2. old[k].data <= old[j].data
      BY <1>1, <1>2, <2>1
    <2> QED
      BY <1>2, <2>1, <2>2
  <1> SUFFICES ASSUME NEW a \in 1..(n + 1), NEW b \in 1..(n + 1), a < b
               PROVE  new[a].data <= new[b].data
    BY <1>1 DEF Rising
  <1>6. CASE b < k
    BY <1>1, <1>2, <1>3, <1>6
  <1>7. CASE b = k
    BY <1>1, <1>2, <1>3, <1>4, <1>7
  <1>8. CASE b > k
    <2>1. b - 1 \in 1..n /\ new[b] = old[b - 1] /\ b - 1 >= k
      BY <1>1, <1>3, <1>8
    <2>2. CASE a < k
      <3>1. a \in 1..n /\ new[a] = old[a] /\ a < b - 1
        BY <1>1, <1>3, <2>1, <2>2
      <3> QED
        BY <1>2, <2>1, <3>1
    <2>3. CASE a = k
      BY <1>1, <1>3, <1>5, <2>1, <2>3
    <2>4. CASE a > k
      <3>1. a - 1 \in 1..n /\ new[a] = old[a - 1] /\ a - 1 < b - 1
        BY <1>1, <1>3, <2>4
      <3> QED
        BY <1>2, <2>1, <3>1
    <2> QED
      BY <1>1, <2>2, <2>3, <2>4
  <1> QED
    BY <1>1, <1>6, <1>7, <1>8

LEMMA AddFreeGains ==
  ASSUME NEW S, \A x \in S : x.data \in Int, NEW list \in Seq(S), NEW node \in S,
         Distinct(list), node.ppa \notin Ppas(list)
  PROVE  LET new == AddFree(list, node)
         IN  /\ new \in Seq(S) /\ Len(new) = Len(list) + 1 /\ Distinct(new)
             /\ NodesOf(new) = NodesOf(list) \cup {node}
             /\ Ppas(new) = Ppas(list) \cup {node.ppa}
             /\ Falling(list) => Falling(new)
  <1> DEFINE stops == {j \in DOMAIN list : list[j].data <= node.data}
             new == AddFree(list, node)
  <1>0. DOMAIN list = 1..Len(list) /\ Len(list) \in Nat /\ \A j \in 1..Len(list) : list[j] \in S
    BY LenProperties, ElementOfSeq
  <1>1. new = AddBefore(list, stops, node)
    BY DEF AddFree
  <1> HIDE DEF stops, new
  <1>2. new \in Seq(S)
    BY <1>1, AddBeforeAt
  <1>3. PICK k \in 1..(Len(list) + 1) :
           /\ PutAt(new, list, k, node)
           /\ \A j \in 1..(k - 1) : j \notin stops
           /\ k <= Len(list) => k \in stops
    BY <1>1, AddBeforeAt
  <1>4. /\ \A j \in 1..(k - 1) : ~(list[j].data <= node.data)
        /\ k <= Len(list) => list[k].data <= node.data
    BY <1>0, <1>3 DEF stops
  <1>5. Falling(list) => Falling(new)
    BY <1>0, <1>3, <1>4, PutAtFalling
  <1>6. Len(new) = Len(list) + 1
    BY <1>3 DEF PutAt
  <1>7. /\ NodesOf(new) = NodesOf(list) \cup {node}
        /\ Ppas(new) = Ppas(list) \cup {node.ppa}
        /\ Distinct(new)
    BY <1>0, <1>3, PutAtSets
  <1> QED
    BY <1>2, <1>5, <1>6, <1>7 DEF new

LEMMA AddAllocGains ==
  ASSUME NEW S, \A x \in S : x.data \in Int, NEW list \in Seq(S), NEW node \in S,
         Distinct(list), node.ppa \notin Ppas(list)
  PROVE  LET new == AddAlloc(list, node)
         IN  /\ new \in Seq(S) /\ Len(new) = Len(list) + 1 /\ Distinct(new)
             /\ NodesOf(new) = NodesOf(list) \cup {node}
             /\ Ppas(new) = Ppas(list) \cup {node.ppa}
             /\ Rising(list) => Rising(new)
  <1> DEFINE stops == {j \in DOMAIN list : list[j].data >= node.data}
             new == AddAlloc(list, node)
  <1>0. DOMAIN list = 1..Len(list) /\ Len(list) \in Nat /\ \A j \in 1..Len(list) : list[j] \in S
    BY LenProperties, ElementOfSeq
  <1>1. new = AddBefore(list, stops, node)
    BY DEF AddAlloc
  <1> HIDE DEF stops, new
  <1>2. new \in Seq(S)
    BY <1>1, AddBeforeAt
  <1>3. PICK k \in 1..(Len(list) + 1) :
           /\ PutAt(new, list, k, node)
           /\ \A j \in 1..(k - 1) : j \notin stops
           /\ k <= Len(list) => k \in stops
    BY <1>1, AddBeforeAt
  <1>4. /\ \A j \in 1..(k - 1) : ~(list[j].data >= node.data)
        /\ k <= Len(list) => list[k].data >= node.data
    BY <1>0, <1>3 DEF stops
  <1>5. Rising(list) => Rising(new)
    BY <1>0, <1>3, <1>4, PutAtRising
  <1>6. Len(new) = Len(list) + 1
    BY <1>3 DEF PutAt
  <1>7. /\ NodesOf(new) = NodesOf(list) \cup {node}
        /\ Ppas(new) = Ppas(list) \cup {node.ppa}
        /\ Distinct(new)
    BY <1>0, <1>3, PutAtSets
  <1> QED
    BY <1>2, <1>5, <1>6, <1>7 DEF new

LEMMA WithoutLoses ==
  ASSUME NEW S, NEW list \in Seq(S), NEW b \in Ppas(list), Distinct(list)
  PROVE  LET new == Without(list, b)
         IN  /\ Places(list, b) # {}
             /\ new \in Seq(S) /\ Len(new) = Len(list) - 1 /\ Distinct(new)
             /\ NodesOf(new) \subseteq NodesOf(list)
             /\ Ppas(new) = Ppas(list) \ {b}
             /\ Rising(list) => Rising(new)
  <1> DEFINE new == Without(list, b)
  <1>0. DOMAIN list = 1..Len(list) /\ Len(list) \in Nat
    BY LenProperties
  <1>1. Places(list, b) # {}
    BY <1>0 DEF Ppas, Places
  <1>2. new \in Seq(S)
    BY <1>1, WithoutAt
  <1>3. PICK k \in Places(list, b) : TakenAt(new, list, k)
    BY <1>1, WithoutAt
  <1>4. list[k].ppa = b
    BY DEF Places
  <1>5. Len(new) = Len(list) - 1
    BY <1>3 DEF TakenAt
  <1> HIDE DEF new
  <1>6. /\ NodesOf(new) \subseteq NodesOf(list) /\ Ppas(new) = Ppas(list) \ {b}
        /\ Distinct(new) /\ (Rising(list) => Rising(new))
    BY <1>0, <1>3, <1>4, TakenAtSets
  <1> QED
    BY <1>1, <1>2, <1>5, <1>6 DEF new

LEMMA TailLoses ==
  ASSUME NEW S, NEW list \in Seq(S), list # <<>>, Distinct(list)
  PROVE  /\ Head(list) \in S /\ Head(list) \in NodesOf(list) /\ Head(list).ppa \in Ppas(list)
         /\ Tail(list) \in Seq(S) /\ Len(Tail(list)) = Len(list) - 1 /\ Distinct(Tail(list))
         /\ NodesOf(Tail(list)) \subseteq NodesOf(list)
         /\ Ppas(Tail(list)) = Ppas(list) \ {Head(list).ppa}
         /\ Falling(list) => Falling(Tail(list))
  <1>1. Len(list) \in Nat
    BY LenProperties
  <1>2. TakenAt(Tail(list), list, 1) /\ Head(list) = list[1]
    BY TailIsTaken
  <1> QED
    BY <1>1, <1>2, TailIsTaken, TakenAtSets

-----------------------------------------------------------------------------
(* The queue as a set. *)

Waiting == {Contents[j] : j \in 1..size}
QueueOnce == \A j, k \in 1..size : j # k => Contents[j] # Contents[k]

LEMMA EnqueueAdds ==
  ASSUME QueueInv, NEW x \in Elements, Enqueue(x), size # Capacity
  PROVE  /\ QueueInv' /\ size' = size + 1
         /\ Waiting' = Waiting \cup {x}
         /\ QueueOnce /\ x \notin Waiting => QueueOnce'
  <1>1. QueueInv'
    BY StepQueue DEF QueueNext
  <1>2. FIFO!Put(x)
    BY <1>1, EnqueuePuts
  <1>3. Contents \in Seq(Int) /\ Len(Contents) = size /\ size \in Nat /\ size < Capacity /\ x \in Int
    BY ContentsFacts, QueueAssumption
  <1>4. size' = size + 1
    BY DEF Enqueue
  <1>5. Contents' = Append(Contents, x)
    BY <1>2, <1>3 DEF FIFO!Put
  <1>6. /\ \A j \in 1..size : Contents'[j] = Contents[j]
        /\ Contents'[size + 1] = x
    BY <1>3, <1>5, AppendProperties
  <1>7. Waiting' = Waiting \cup {x}
    BY <1>3, <1>4, <1>6 DEF Waiting
  <1>8. ASSUME QueueOnce, x \notin Waiting PROVE QueueOnce'
    BY <1>3, <1>4, <1>6, <1>8 DEF QueueOnce, Waiting
  <1> QED
    BY <1>1, <1>4, <1>7, <1>8

LEMMA DequeueTakes ==
  ASSUME QueueInv, Dequeue, size # 0, QueueOnce
  PROVE  /\ QueueInv' /\ size' = size - 1
         /\ ret' \in Waiting /\ Waiting' = Waiting \ {ret'} /\ QueueOnce'
  <1>1. QueueInv'
    BY StepQueue DEF QueueNext
  <1>2. FIFO!Get
    BY <1>1, DequeueGets
  <1>3. Contents \in Seq(Int) /\ Len(Contents) = size /\ size \in Nat /\ size > 0
    BY ContentsFacts, QueueAssumption
  <1>4. size' = size - 1
    BY DEF Dequeue
  <1>5. Contents # <<>>
    BY <1>3, EmptySeq
  <1>6. ret' = Contents[1] /\ Contents' = Tail(Contents)
    BY <1>2, <1>3, <1>5, HeadTailProperties DEF FIFO!Get
  <1>7. \A j \in 1..(size - 1) : Contents'[j] = Contents[j + 1]
    BY <1>3, <1>5, <1>6, HeadTailProperties
  <1>8. \A x \in Waiting : x # ret' => x \in Waiting'
    <2> SUFFICES ASSUME NEW j \in 1..size, Contents[j] # Contents[1]
                 PROVE  Contents[j] \in Waiting'
      BY <1>6 DEF Waiting
    <2>1. j - 1 \in 1..(size - 1) /\ (j - 1) + 1 = j
      BY <1>3
    <2>2. Contents'[j - 1] = Contents[j]
      BY <1>7, <2>1
    <2> QED
      BY <1>4, <2>1, <2>2 DEF Waiting
  <1>9. \A x \in Waiting' : x \in Waiting /\ x # ret'
    <2> SUFFICES ASSUME NEW j \in 1..(size - 1)
                 PROVE  Contents'[j] \in Waiting /\ Contents'[j] # ret'
      BY <1>4 DEF Waiting
    <2>1. j + 1 \in 1..size /\ 1 \in 1..size /\ j + 1 # 1
      BY <1>3
    <2> QED
      BY <1>6, <1>7, <2>1 DEF Waiting, QueueOnce
  <1>10. QueueOnce'
    <2> SUFFICES ASSUME NEW j \in 1..(size - 1), NEW k \in 1..(size - 1), j # k
                 PROVE  Contents'[j] # Contents'[k]
      BY <1>4 DEF QueueOnce
    <2>1. j + 1 \in 1..size /\ k + 1 \in 1..size /\ j + 1 # k + 1
      BY <1>3
    <2> QED
      BY <1>7, <2>1 DEF QueueOnce
  <1>11. ret' \in Waiting
    BY <1>3, <1>6 DEF Waiting
  <1> QED
    BY <1>1, <1>4, <1>8, <1>9, <1>10, <1>11

\* A refused call changes nothing.
LEMMA QueueStays ==
  ASSUME QueueInv,
         \/ UNCHANGED queueVars
         \/ Dequeue /\ size = 0
         \/ \E x \in Elements : Enqueue(x) /\ size = Capacity
  PROVE  /\ QueueInv' /\ size' = size /\ Waiting' = Waiting
         /\ QueueOnce => QueueOnce'
         /\ Dequeue /\ size = 0 => ret' = Refused
  <1>1. QueueInv'
    BY StepQueue DEF QueueNext
  <1>2. size' = size /\ front' = front /\ elements' = elements
    BY DEF queueVars, Enqueue, Dequeue
  <1>3. Contents' = Contents
    BY <1>2 DEF Contents, Around, Slot
  <1> QED
    BY <1>1, <1>2, <1>3 DEF Waiting, QueueOnce, Dequeue

-----------------------------------------------------------------------------
(* The inductive invariant. *)

Using == chl_allocated /\ pc = "idle"

\* Where the loops stand, and what is left over from before.
PhaseInv ==
    /\ pc \in {"read", "erase", "fill"} => chl_allocated
    /\ pc = "drain" => ~chl_allocated /\ reused /\ made
    /\ pc \in {"read", "erase"} => /\ i >= 1 /\ i <= Blks + 1 /\ (made => reused)
                                  /\ \A b \in Blocks : ers_cnt[b] = 0
    /\ pc = "read" => i = 1
    /\ pc = "fill" => i < ChlBlks /\ size = i /\ ~reused /\ made
    /\ Using => made
    /\ made => table /\ (~chl_allocated => reused)
    /\ ~made => size = 0 /\ ~reused
    /\ dangling # {} => reused
    /\ NeverFails

\* The two lists, and the blocks that are on them.
ListInv ==
    /\ Distinct(free_blk) /\ Distinct(alloc_blk)
    /\ Ppas(free_blk) \cap Ppas(alloc_blk) = {}
    /\ Len(free_blk) + Len(alloc_blk) <= Blks
    /\ Falling(free_blk) /\ Rising(alloc_blk)
    /\ \A n \in NodesOf(free_blk) \cup NodesOf(alloc_blk) : n.data = ers_cnt[n.ppa]
    /\ pc = "erase" => Len(free_blk) < i /\ \A b \in Ppas(free_blk) : b < i
    /\ pc = "erase" /\ outcome = "none" => Ppas(free_blk) = {b \in Blocks : b < i /\ b \notin bad}
    /\ pc = "fill" \/ (Using /\ outcome = "none") =>
          Ppas(free_blk) \cup Ppas(alloc_blk) = Blocks \ bad
    /\ (~chl_allocated /\ pc = "idle") \/ pc = "read" => free_blk = <<>>
    /\ pc # "drain" /\ ~Using => alloc_blk = <<>>

\* The blocks on the list of allocated ones are the caller's, one for each lba.
CallerInv ==
    /\ ~Using => owned = {}
    /\ \A l, m \in owned : mapping[l] = mapping[m] => l = m
    /\ pc # "drain" => Ppas(alloc_blk) = {mapping[l] : l \in owned}

\* The lbas that wait, and those that do not.
LbaInv ==
    /\ QueueInv /\ QueueOnce
    /\ Waiting \subseteq Lbas /\ Waiting \cap owned = {}
    /\ pc = "fill" => Waiting = {l \in Lbas : l < i}
    /\ Using /\ ~reused => size + Len(alloc_blk) = ChlBlks /\ Waiting \cup owned = Lbas

\* What is on the device and in the table.
DataInv ==
    /\ pc # "drain" => \A b \in Ppas(free_blk) : flash[b] \in After(b, Erased)
    /\ \A l \in owned : flash[mapping[l]] \in After(mapping[l], written[l])
    /\ \A l \in Lbas \ owned : written[l] = Erased
    /\ chl_allocated /\ pc \notin {"read", "erase"} /\ ~zeroed =>
          \A l \in Lbas \ owned : mapping[l] = NoBlock

ChannelInv == ChannelTypeOK /\ PhaseInv /\ ListInv /\ CallerInv /\ LbaInv /\ DataInv

LEMMA EmptyList ==
    /\ Len(<<>>) = 0 /\ Ppas(<<>>) = {} /\ NodesOf(<<>>) = {}
    /\ Distinct(<<>>) /\ Falling(<<>>) /\ Rising(<<>>)
  BY DEF Ppas, NodesOf, Distinct, Falling, Rising

LEMMA Numbers ==
    /\ Blks \in Nat /\ ChlBlks \in Nat /\ ChlBlks > 0 /\ Blks <= ChlBlks /\ ChlBlks <= Capacity
    /\ Capacity \in Nat /\ Lbas = 0..(ChlBlks - 1) /\ Blocks = 1..Blks /\ NoBlock \notin Blocks
    /\ 0 \in 0..(EraseWrap - 1) /\ EraseWrap \in Nat /\ Refused \notin Lbas
  BY ChannelAssumption, QueueAssumption DEF Lbas, Blocks, NoBlock, Refused

LEMMA InitChannel == Init => ChannelInv
  <1> SUFFICES ASSUME Init PROVE ChannelInv
    OBVIOUS
  <1>1. ChannelTypeOK
    <2>1. /\ mapping \in [Lbas -> Blocks \cup {NoBlock}] /\ written \in [Lbas -> Data \cup {Erased}]
          /\ flash \in [Blocks -> Data \cup {Erased, Unknown}]
      BY DEF Init
    <2>2. ers_cnt \in [Blocks -> 0..(EraseWrap - 1)]
      BY Numbers DEF Init
    <2>3. free_blk \in Seq(Nodes) /\ alloc_blk \in Seq(Nodes) /\ owned = {} /\ i \in 0..(ChlBlks + 1)
      BY Numbers DEF Init
    <2> QED
      BY <2>1, <2>2, <2>3 DEF Init, ChannelTypeOK
  <1>2. PhaseInv
    BY DEF Init, QueueInit, PhaseInv, Using, NeverFails
  <1>3. ListInv
    BY EmptyList, Numbers DEF Init, ListInv, Using
  <1>4. CallerInv
    BY EmptyList DEF Init, CallerInv
  <1>5. LbaInv
    <2>1. QueueInv
      BY InitQueue DEF Init
    <2>2. size = 0
      BY DEF Init, QueueInit
    <2> QED
      BY <2>1, <2>2 DEF Init, LbaInv, Using, Waiting, QueueOnce
  <1>6. DataInv
    BY EmptyList DEF Init, DataInv
  <1> QED
    BY <1>1, <1>2, <1>3, <1>4, <1>5, <1>6 DEF ChannelInv

-----------------------------------------------------------------------------
(* The steps. *)

LEMMA AllocChannelKeeps ==
  ASSUME ChannelInv, AllocChannel
  PROVE  ChannelInv'
  <1>1. ChannelTypeOK /\ PhaseInv /\ ListInv /\ CallerInv /\ LbaInv /\ DataInv
    BY DEF ChannelInv
  <1>2. ~Using /\ ~Using' /\ free_blk = <<>> /\ alloc_blk = <<>>
    BY <1>1 DEF AllocChannel, Using, Idle, ListInv
  <1>3. ChannelTypeOK'
    <2>1. ers_cnt' \in [Blocks -> 0..(EraseWrap - 1)]
      BY Numbers DEF AllocChannel
    <2>2. i' \in 0..(ChlBlks + 1) /\ pc' = "read" /\ chl_allocated' = TRUE
      BY Numbers DEF AllocChannel
    <2> QED
      BY <1>1, <2>1, <2>2 DEF AllocChannel, ChannelTypeOK, tables, lists, caller, history
  <1>4. PhaseInv'
    BY <1>1, Numbers DEF AllocChannel, Idle, PhaseInv, Using, NeverFails, queueVars, tables, history
  <1>5. ListInv'
    <2>1. free_blk' = <<>> /\ alloc_blk' = <<>> /\ pc' = "read"
      BY <1>2 DEF AllocChannel, lists
    <2> QED
      BY <1>2, <2>1, EmptyList, Numbers DEF ListInv
  <1>6. CallerInv'
    BY <1>1, <1>2, EmptyList DEF AllocChannel, CallerInv, lists, caller, tables
  <1>7. LbaInv'
    BY <1>1, <1>2, QueueStays DEF AllocChannel, LbaInv, caller, history
  <1>8. DataInv'
    BY <1>1, <1>2, EmptyList DEF AllocChannel, DataInv, lists, caller, tables
  <1> QED
    BY <1>3, <1>4, <1>5, <1>6, <1>7, <1>8 DEF ChannelInv

LEMMA ReadBadBlocksKeeps ==
  ASSUME ChannelInv, ReadBadBlocks
  PROVE  ChannelInv'
  <1>1. ChannelTypeOK /\ PhaseInv /\ ListInv /\ CallerInv /\ LbaInv /\ DataInv
    BY DEF ChannelInv
  <1>2. /\ ~Using /\ ~Using' /\ pc = "read" /\ pc' \in {"read", "erase"} /\ i = 1
        /\ free_blk = <<>> /\ alloc_blk = <<>> /\ outcome = "none"
        /\ outcome' \in {"none", "bad pointer", "short file"}
    BY <1>1 DEF ReadBadBlocks, Using, PhaseInv, ListInv
  <1>3. /\ UNCHANGED <<bad, bad_super, i, chl_allocated, table, mapping, made, free_blk, alloc_blk,
                       dangling, ers_cnt, flash, owned, written, reused, zeroed, size>>
        /\ UNCHANGED queueVars
    BY DEF ReadBadBlocks, queueVars, tables, lists, device, caller, history
  <1>4. ChannelTypeOK'
    BY <1>1, <1>2, <1>3 DEF ChannelTypeOK
  <1>5. PhaseInv'
    BY <1>1, <1>2, <1>3 DEF PhaseInv, NeverFails
  <1>6. ListInv'
    <2>1. {b \in Blocks : b < 1 /\ b \notin bad'} = {}
      BY Numbers
    <2>2. /\ free_blk' = <<>> /\ alloc_blk' = <<>> /\ i' = 1 /\ ~Using'
          /\ pc' \in {"read", "erase"}
      BY <1>2, <1>3
    <2> QED
      BY <2>1, <2>2, EmptyList, Numbers DEF ListInv
  <1>7. CallerInv'
    BY <1>1, <1>2, <1>3 DEF CallerInv
  <1>8. LbaInv'
    BY <1>1, <1>2, <1>3, QueueStays DEF LbaInv
  <1>9. DataInv'
    BY <1>1, <1>2, <1>3 DEF DataInv
  <1> QED
    BY <1>4, <1>5, <1>6, <1>7, <1>8, <1>9 DEF ChannelInv

LEMMA EraseOneKeeps ==
  ASSUME ChannelInv, EraseOne
  PROVE  ChannelInv'
  <1>1. ChannelTypeOK /\ PhaseInv /\ ListInv /\ CallerInv /\ LbaInv /\ DataInv
    BY DEF ChannelInv
  <1>2. /\ ~Using /\ ~Using' /\ alloc_blk = <<>> /\ owned = {} /\ i \in Blocks /\ ers_cnt[i] = 0
        /\ i \in Nat /\ i <= Blks /\ pc = "erase" /\ outcome = "none" /\ i' = i + 1
    <2>1. i \in Nat
      <3>1. i \in 0..(ChlBlks + 1)
        BY <1>1 DEF ChannelTypeOK
      <3> QED
        BY <3>1, Numbers
    <2>2. pc = "erase" /\ pc' = "erase" /\ i <= Blks /\ outcome = "none" /\ i' = i + 1
      BY DEF EraseOne
    <2>3. ~Using /\ ~Using'
      BY <2>2 DEF Using
    <2>4. i \in Blocks
      BY <1>1, <2>1, <2>2, Numbers DEF PhaseInv
    <2>5. ers_cnt[i] = 0 /\ alloc_blk = <<>> /\ owned = {}
      BY <1>1, <2>2, <2>3, <2>4 DEF PhaseInv, ListInv, CallerInv
    <2> QED
      BY <2>1, <2>2, <2>3, <2>4, <2>5
  <1> DEFINE node == [ppa |-> i, data |-> 0]
             added == i \notin bad /\ "free" \notin dangling
  <1>3. /\ added => free_blk' = AddFree(free_blk, node) /\ outcome' = "none"
        /\ ~added => free_blk' = free_blk
        /\ i \in bad => outcome' = "none" /\ flash' = flash
        /\ i \notin bad => \E c \in After(i, Erased) : flash' = [flash EXCEPT ![i] = c]
        /\ ~added /\ i \notin bad => outcome' = "undefined" /\ dangling # {}
    BY <1>2 DEF EraseOne, EraseBlock
  <1>4. node \in Nodes /\ node.ppa = i /\ node.data = 0 /\ \A n \in Nodes : n.data \in Int
    BY <1>2, Numbers DEF Nodes
  <1>5. free_blk \in Seq(Nodes) /\ Distinct(free_blk) /\ i \notin Ppas(free_blk)
    BY <1>1, <1>2 DEF ChannelTypeOK, ListInv
  <1> HIDE DEF node
  <1>6. added => /\ free_blk' \in Seq(Nodes) /\ Len(free_blk') = Len(free_blk) + 1
                 /\ Distinct(free_blk')
                 /\ NodesOf(free_blk') = NodesOf(free_blk) \cup {node}
                 /\ Ppas(free_blk') = Ppas(free_blk) \cup {i}
                 /\ Falling(free_blk) => Falling(free_blk')
    BY <1>3, <1>4, <1>5, AddFreeGains
  <1> HIDE DEF added
  <1>7. ChannelTypeOK'
    <2>1. /\ free_blk' \in Seq(Nodes) /\ i' \in 0..(ChlBlks + 1)
          /\ outcome' \in {"none", "undefined"}
      BY <1>2, <1>3, <1>5, <1>6, Numbers DEF added
    <2>2. flash' \in [Blocks -> Data \cup {Erased, Unknown}]
      BY <1>1, <1>3 DEF ChannelTypeOK, After
    <2> QED
      BY <1>1, <2>1, <2>2 DEF EraseOne, ChannelTypeOK, tables, caller, history
  <1>8. PhaseInv'
    <2>1. outcome' \in {"none", "undefined"} /\ (outcome' = "undefined" => reused)
      BY <1>1, <1>3 DEF added, PhaseInv
    <2>2. pc' = "erase" /\ i' >= 1 /\ i' <= Blks + 1 /\ ~Using'
      BY <1>2, Numbers DEF EraseOne
    <2>3. UNCHANGED <<made, table, chl_allocated, reused, dangling, ers_cnt, size>>
      BY DEF EraseOne, tables, history, queueVars
    <2> QED
      BY <1>1, <1>2, <2>1, <2>2, <2>3 DEF PhaseInv, NeverFails
  <1>9. ListInv'
    <2>1. Len(free_blk) \in Nat /\ Len(alloc_blk) = 0 /\ Len(free_blk) < i /\ alloc_blk' = <<>>
      BY <1>1, <1>2, <1>5, EmptyList, LenProperties DEF EraseOne, ListInv
    <2>2. /\ Len(free_blk') < i + 1 /\ Len(free_blk') + Len(alloc_blk') <= Blks
          /\ Distinct(free_blk') /\ Falling(free_blk')
          /\ \A b \in Ppas(free_blk') : b < i + 1
      <3>1. CASE added
        BY <1>1, <1>2, <1>6, <2>1, <3>1, EmptyList, Numbers DEF ListInv
      <3>2. CASE ~added
        <4>1. \A b \in Ppas(free_blk) : b \in Int /\ b < i
          <5>1. \A j \in 1..Len(free_blk) : free_blk[j].ppa \in Blocks
            <6>1. \A j \in 1..Len(free_blk) : free_blk[j] \in Nodes
              BY <1>5, ElementOfSeq
            <6> QED
              BY <6>1 DEF Nodes
          <5> QED
            BY <1>1, <1>2, <5>1, Numbers DEF ListInv, Ppas
        <4> QED
          BY <1>1, <1>2, <1>3, <2>1, <3>2, <4>1, EmptyList, Numbers DEF ListInv
      <3> QED
        BY <3>1, <3>2
    <2>3. outcome' = "none" => Ppas(free_blk') = {b \in Blocks : b < i + 1 /\ b \notin bad}
      <3> SUFFICES ASSUME outcome' = "none"
                   PROVE  Ppas(free_blk') = {b \in Blocks : b < i + 1 /\ b \notin bad}
        OBVIOUS
      <3>1. Ppas(free_blk) = {b \in Blocks : b < i /\ b \notin bad}
        BY <1>1, <1>2 DEF ListInv
      <3>2. CASE added
        BY <1>2, <1>6, <3>1, <3>2, Numbers DEF added
      <3>3. CASE ~added
        <4>1. i \in bad /\ free_blk' = free_blk
          BY <1>3, <3>3
        <4> QED
          BY <1>2, <3>1, <4>1, Numbers
      <3> QED
        BY <3>2, <3>3
    <2>4. \A n \in NodesOf(free_blk') \cup NodesOf(alloc_blk') : n.data = ers_cnt'[n.ppa]
      <3>1. ers_cnt' = ers_cnt /\ NodesOf(alloc_blk') = {}
        BY <2>1, EmptyList DEF EraseOne
      <3>2. \A n \in NodesOf(free_blk) : n.data = ers_cnt[n.ppa]
        BY <1>1 DEF ListInv
      <3>3. CASE added
        BY <1>2, <1>4, <1>6, <3>1, <3>2, <3>3
      <3>4. CASE ~added
        BY <1>3, <3>1, <3>2, <3>4
      <3> QED
        BY <3>3, <3>4
    <2>5. pc' = "erase" /\ bad' = bad
      BY <1>2 DEF EraseOne
    <2> QED
      BY <1>2, <2>1, <2>2, <2>3, <2>4, <2>5, EmptyList DEF ListInv
  <1>10. CallerInv'
    BY <1>1, <1>2, EmptyList DEF EraseOne, CallerInv, caller, tables
  <1>11. LbaInv'
    BY <1>1, <1>2, QueueStays DEF EraseOne, LbaInv, caller, history
  <1>12. DataInv'
    <2>1. \A b \in Ppas(free_blk') : flash'[b] \in After(b, Erased)
      <3>1. \A b \in Ppas(free_blk) : flash[b] \in After(b, Erased)
        BY <1>1, <1>2 DEF DataInv
      <3>3. \A b : b # i => flash'[b] = flash[b] \/ b \notin Blocks
        BY <1>1, <1>3 DEF ChannelTypeOK
      <3>4. \A j \in 1..Len(free_blk) : free_blk[j].ppa \in Blocks
        <4>1. \A j \in 1..Len(free_blk) : free_blk[j] \in Nodes
          BY <1>5, ElementOfSeq
        <4> QED
          BY <4>1 DEF Nodes
      <3>5. \A b \in Ppas(free_blk) : b \in Blocks /\ b # i
        BY <1>5, <3>4 DEF Ppas
      <3>6. added => flash'[i] \in After(i, Erased)
        BY <1>1, <1>2, <1>3 DEF ChannelTypeOK, added
      <3> QED
        BY <1>3, <1>6, <3>1, <3>3, <3>5, <3>6
    <2> QED
      BY <1>1, <1>2, <2>1 DEF EraseOne, DataInv, caller
  <1> QED
    BY <1>7, <1>8, <1>9, <1>10, <1>11, <1>12 DEF ChannelInv

\* The thread ends, and leaves everything as it is.
LEMMA EndKeeps ==
  ASSUME ChannelInv, outcome = "none", outcome' \in {"none", "hang", "no block"},
         UNCHANGED <<queueVars, bad, bad_super, pc, i, chl_allocated, tables, lists,
                     dangling, device, caller, history>>
  PROVE  ChannelInv'
  <1>1. ChannelTypeOK /\ PhaseInv /\ ListInv /\ CallerInv /\ LbaInv /\ DataInv
    BY DEF ChannelInv
  <1>2. ChannelTypeOK'
    BY <1>1 DEF ChannelTypeOK, tables, lists, device, caller, history
  <1>3. PhaseInv'
    BY <1>1 DEF PhaseInv, Using, NeverFails, queueVars, tables, device, history
  <1>4. ListInv'
    BY <1>1 DEF ListInv, Using, lists, device
  <1>5. CallerInv'
    BY <1>1 DEF CallerInv, Using, lists, caller, tables
  <1>6. LbaInv'
    BY <1>1, QueueStays DEF LbaInv, Using, lists, caller, history
  <1>7. DataInv'
    BY <1>1 DEF DataInv, lists, device, caller, tables, history
  <1> QED
    BY <1>2, <1>3, <1>4, <1>5, <1>6, <1>7 DEF ChannelInv

LEMMA InitMappingTableKeeps ==
  ASSUME ChannelInv, InitMappingTable
  PROVE  ChannelInv'
  <1>1. ChannelTypeOK /\ PhaseInv /\ ListInv /\ CallerInv /\ LbaInv /\ DataInv
    BY DEF ChannelInv
  <1>2. /\ ~Using /\ pc = "erase" /\ outcome = "none" /\ i > Blks /\ i <= Blks + 1 /\ i \in Int
        /\ owned = {} /\ owned' = {} /\ alloc_blk = <<>> /\ chl_allocated
        /\ outcome' = "none" /\ i' = 0 /\ made' = TRUE /\ table' = TRUE
        /\ pc' = IF made THEN "idle" ELSE "fill"
        /\ (made => reused) /\ (~made => size = 0 /\ ~reused) /\ made \in BOOLEAN
    <2>1. pc = "erase" /\ ~Using /\ i > Blks
      BY DEF InitMappingTable, Using
    <2>2. i \in Int
      <3>1. i \in 0..(ChlBlks + 1)
        BY <1>1 DEF ChannelTypeOK
      <3> QED
        BY <3>1, Numbers
    <2>3. owned = {} /\ alloc_blk = <<>> /\ chl_allocated
      BY <1>1, <2>1 DEF CallerInv, ListInv, PhaseInv
    <2>4. (made => reused) /\ (~made => size = 0 /\ ~reused) /\ i <= Blks + 1 /\ made \in BOOLEAN
      BY <1>1, <2>1 DEF PhaseInv, ChannelTypeOK
    <2> QED
      BY <2>1, <2>2, <2>3, <2>4 DEF InitMappingTable, caller
  <1>3. /\ UNCHANGED <<size, chl_allocated, reused, dangling, bad, free_blk, alloc_blk, ers_cnt, flash,
                       written>>
        /\ UNCHANGED queueVars
    BY DEF InitMappingTable, queueVars, lists, device, caller
  <1>4. Ppas(free_blk) = Blocks \ bad
    <2>1. Ppas(free_blk) = {b \in Blocks : b < i /\ b \notin bad}
      BY <1>1, <1>2 DEF ListInv
    <2>2. \A b \in Blocks : b < i
      BY <1>2, Numbers
    <2> QED
      BY <2>1, <2>2
  <1>5. ChannelTypeOK'
    <2>1. mapping' \in [Lbas -> Blocks \cup {NoBlock}]
      <3>1. ZeroPpa \in Blocks \cup {NoBlock}
        BY ChannelAssumption, Numbers DEF NoBlock
      <3> QED
        BY <3>1 DEF InitMappingTable
    <2>2. i' \in 0..(ChlBlks + 1)
      BY <1>2, Numbers
    <2>3. pc' \in {"idle", "fill"} /\ zeroed' \in BOOLEAN
      BY <1>1, <1>2 DEF InitMappingTable, ChannelTypeOK
    <2> QED
      BY <1>1, <1>2, <2>1, <2>2, <2>3 DEF InitMappingTable, ChannelTypeOK, lists, device, caller
  <1>6. PhaseInv'
    BY <1>1, <1>2, <1>3, Numbers DEF PhaseInv, Using, NeverFails
  <1>7. ListInv'
    BY <1>1, <1>2, <1>3, <1>4, EmptyList DEF ListInv, Using
  <1>8. CallerInv'
    BY <1>2, <1>3, EmptyList DEF CallerInv
  <1>9. LbaInv'
    <2>1. Waiting' = Waiting /\ QueueInv' /\ QueueOnce'
      BY <1>1, <1>3, QueueStays DEF LbaInv
    <2>2. pc' = "fill" => Waiting = {} /\ {l \in Lbas : l < 0} = {}
      BY <1>2, Numbers DEF Waiting
    <2>3. ~(Using /\ ~reused)'
      BY <1>2, <1>3 DEF Using
    <2> QED
      BY <1>1, <1>2, <2>1, <2>2, <2>3 DEF LbaInv
  <1>10. DataInv'
    BY <1>1, <1>2, <1>3 DEF InitMappingTable, DataInv
  <1> QED
    BY <1>5, <1>6, <1>7, <1>8, <1>9, <1>10 DEF ChannelInv

LEMMA FillQueueKeeps ==
  ASSUME ChannelInv, FillQueue
  PROVE  ChannelInv'
  <1>1. ChannelTypeOK /\ PhaseInv /\ ListInv /\ CallerInv /\ LbaInv /\ DataInv
    BY DEF ChannelInv
  <1>2. /\ ~Using /\ pc = "fill" /\ i \in Nat /\ i < ChlBlks /\ size = i /\ ~reused /\ made
        /\ chl_allocated /\ owned = {} /\ alloc_blk = <<>> /\ i \in Lbas /\ i \in Elements
        /\ size # Capacity
    <2>1. pc = "fill" /\ ~Using
      BY DEF FillQueue, Using
    <2>2. i \in Nat
      <3>1. i \in 0..(ChlBlks + 1)
        BY <1>1 DEF ChannelTypeOK
      <3> QED
        BY <3>1, Numbers
    <2>3. i < ChlBlks /\ size = i /\ ~reused /\ made /\ chl_allocated /\ owned = {} /\ alloc_blk = <<>>
      BY <1>1, <2>1 DEF PhaseInv, CallerInv, ListInv
    <2>4. i \in Lbas /\ i \in Elements /\ size # Capacity
      BY <2>2, <2>3, Numbers DEF Lbas
    <2> QED
      BY <2>1, <2>2, <2>3, <2>4
  <1>3. /\ UNCHANGED <<bad, chl_allocated, table, mapping, made, free_blk, alloc_blk, dangling,
                       ers_cnt, flash, outcome, owned, written, reused, zeroed>>
        /\ i' = i + 1 /\ Enqueue(i)
        /\ pc' = IF i + 1 = ChlBlks THEN "idle" ELSE "fill"
    BY DEF FillQueue, tables, lists, device, caller, history
  <1>4. /\ QueueInv' /\ size' = i + 1 /\ Waiting' = {l \in Lbas : l < i + 1} /\ QueueOnce'
    <2>1. Waiting = {l \in Lbas : l < i}
      BY <1>1, <1>2 DEF LbaInv
    <2>2. i \notin Waiting
      BY <1>2, <2>1
    <2>3. /\ QueueInv' /\ size' = size + 1 /\ Waiting' = Waiting \cup {i} /\ QueueOnce'
      BY <1>1, <1>2, <1>3, <2>2, EnqueueAdds DEF LbaInv
    <2> QED
      BY <1>2, <2>1, <2>3, Numbers
  <1>5. ChannelTypeOK'
    <2>1. i' \in 0..(ChlBlks + 1) /\ pc' \in {"idle", "fill"}
      BY <1>2, <1>3, Numbers
    <2> QED
      BY <1>1, <1>3, <2>1 DEF FillQueue, ChannelTypeOK
  <1>6. PhaseInv'
    <2>1. /\ pc' = "fill" => i' < ChlBlks /\ size' = i'
          /\ pc' \in {"fill", "idle"} /\ pc' # "erase" /\ pc' # "drain"
      BY <1>2, <1>3, <1>4, Numbers
    <2>2. table /\ (dangling # {} => reused) /\ NeverFails
      BY <1>1, <1>2 DEF PhaseInv
    <2>3. NeverFails'
      BY <1>3, <2>2 DEF NeverFails
    <2> QED
      BY <1>2, <1>3, <2>1, <2>2, <2>3 DEF PhaseInv
  <1>7. ListInv'
    BY <1>1, <1>2, <1>3, EmptyList DEF ListInv, Using
  <1>8. CallerInv'
    BY <1>2, <1>3, EmptyList DEF CallerInv
  <1>9. LbaInv'
    <2>1. Using' => i + 1 = ChlBlks /\ Waiting' = Lbas
      BY <1>2, <1>3, <1>4, Numbers DEF Using
    <2> QED
      BY <1>1, <1>2, <1>3, <1>4, <2>1, EmptyList, Numbers DEF LbaInv
  <1>10. DataInv'
    BY <1>1, <1>2, <1>3 DEF DataInv
  <1> QED
    BY <1>5, <1>6, <1>7, <1>8, <1>9, <1>10 DEF ChannelInv

LEMMA FreeChannelKeeps ==
  ASSUME ChannelInv, FreeChannel
  PROVE  ChannelInv'
  <1>1. ChannelTypeOK /\ PhaseInv /\ ListInv /\ CallerInv /\ LbaInv /\ DataInv
    BY DEF ChannelInv
  <1>2. /\ Using /\ ~Using' /\ made /\ pc' = "drain" /\ chl_allocated' = FALSE /\ reused' = TRUE
        /\ owned' = {} /\ written' = [l \in Lbas |-> Erased]
    BY <1>1 DEF FreeChannel, Idle, Using, PhaseInv
  <1>3. /\ UNCHANGED <<size, bad, bad_super, i, table, mapping, made, free_blk, alloc_blk, dangling,
                       ers_cnt, outcome, zeroed>>
        /\ UNCHANGED queueVars
        /\ flash' = [b \in Blocks |-> Unknown]
    BY DEF FreeChannel, queueVars, tables, lists
  <1>4. ChannelTypeOK'
    BY <1>1, <1>2, <1>3 DEF ChannelTypeOK
  <1>5. PhaseInv'
    BY <1>1, <1>2, <1>3 DEF PhaseInv, NeverFails
  <1>6. ListInv'
    BY <1>1, <1>2, <1>3 DEF ListInv
  <1>7. CallerInv'
    BY <1>2 DEF CallerInv
  <1>8. LbaInv'
    BY <1>1, <1>2, <1>3, QueueStays DEF LbaInv
  <1>9. DataInv'
    BY <1>1, <1>2, <1>3 DEF DataInv
  <1> QED
    BY <1>4, <1>5, <1>6, <1>7, <1>8, <1>9 DEF ChannelInv

LEMMA DrainQueueKeeps ==
  ASSUME ChannelInv, DrainQueue
  PROVE  ChannelInv'
  <1>1. ChannelTypeOK /\ PhaseInv /\ ListInv /\ CallerInv /\ LbaInv /\ DataInv
    BY DEF ChannelInv
  <1>2. /\ ~Using /\ pc = "drain" /\ ~chl_allocated /\ reused /\ made /\ owned = {}
    BY <1>1 DEF DrainQueue, Using, PhaseInv, CallerInv
  <1>3. /\ UNCHANGED <<bad, bad_super, i, chl_allocated, table, mapping, made, flash, ers_cnt,
                       owned, written, reused, zeroed>>
        /\ ~Using' /\ Dequeue
    BY <1>2 DEF DrainQueue, tables, device, caller, history, Using
  <1>4. /\ QueueInv' /\ QueueOnce' /\ Waiting' \subseteq Waiting
    BY <1>1, <1>3, DequeueTakes, QueueStays DEF LbaInv
  <1>5. CASE ret' = Refused
    <2>1. /\ pc' = "idle" /\ free_blk' = <<>> /\ alloc_blk' = <<>>
          /\ dangling' \subseteq {"free", "alloc"} /\ outcome' \in {"none", "undefined"}
      BY <1>5 DEF DrainQueue
    <2>2. ChannelTypeOK'
      <3>1. <<>> \in Seq(Nodes)
        OBVIOUS
      <3>2. free_blk' \in Seq(Nodes) /\ alloc_blk' \in Seq(Nodes)
        BY <2>1, <3>1
      <3> QED
        BY <1>1, <1>3, <2>1, <3>2 DEF ChannelTypeOK
    <2>3. PhaseInv'
      BY <1>1, <1>2, <1>3, <2>1 DEF PhaseInv, NeverFails
    <2>4. ListInv'
      BY <1>2, <1>3, <2>1, EmptyList, Numbers DEF ListInv
    <2>5. CallerInv'
      BY <1>2, <1>3, <2>1, EmptyList DEF CallerInv
    <2>6. LbaInv'
      BY <1>1, <1>2, <1>3, <1>4, <2>1 DEF LbaInv
    <2>7. DataInv'
      BY <1>1, <1>2, <1>3, <2>1, EmptyList DEF DataInv
    <2> QED
      BY <2>2, <2>3, <2>4, <2>5, <2>6, <2>7 DEF ChannelInv
  <1>6. CASE ret' # Refused
    <2>1. UNCHANGED <<pc, free_blk, alloc_blk, dangling, outcome>>
      BY <1>6 DEF DrainQueue, lists
    <2>2. ChannelTypeOK'
      BY <1>1, <1>3, <2>1 DEF ChannelTypeOK
    <2>3. PhaseInv'
      BY <1>1, <1>2, <1>3, <2>1 DEF PhaseInv, NeverFails
    <2>4. ListInv'
      BY <1>1, <1>2, <1>3, <2>1 DEF ListInv
    <2>5. CallerInv'
      BY <1>2, <1>3, <2>1 DEF CallerInv
    <2>6. LbaInv'
      BY <1>1, <1>2, <1>3, <1>4, <2>1 DEF LbaInv
    <2>7. DataInv'
      BY <1>1, <1>2, <1>3, <2>1 DEF DataInv
    <2> QED
      BY <2>2, <2>3, <2>4, <2>5, <2>6, <2>7 DEF ChannelInv
  <1> QED
    BY <1>5, <1>6

\* The blocks of a list are blocks.
LEMMA PpasAreBlocks ==
  ASSUME NEW list \in Seq(Nodes)
  PROVE  /\ Ppas(list) \subseteq Blocks
         /\ \A n \in NodesOf(list) : n \in Nodes /\ n.ppa \in Ppas(list)
  <1>1. \A j \in 1..Len(list) : list[j] \in Nodes
    BY ElementOfSeq
  <1> QED
    BY <1>1 DEF Ppas, NodesOf, Nodes

LEMMA WriteBlockKeeps ==
  ASSUME ChannelInv, NEW l \in Lbas, NEW d \in Data, WriteBlock(l, d)
  PROVE  ChannelInv'
  <1>1. ChannelTypeOK /\ PhaseInv /\ ListInv /\ CallerInv /\ LbaInv /\ DataInv
    BY DEF ChannelInv
  <1>2. /\ UNCHANGED <<bad, bad_super, pc, i, chl_allocated, table, mapping, made, free_blk, alloc_blk,
                       dangling, ers_cnt, outcome, owned, reused, zeroed, size>>
        /\ UNCHANGED queueVars
        /\ Using /\ l \in owned /\ mapping[l] \in Blocks
        /\ \E c \in After(mapping[l], d) : flash' = [flash EXCEPT ![mapping[l]] = c]
        /\ written' = [written EXCEPT ![l] = d]
    BY <1>1 DEF WriteBlock, WriteData, Idle, Using, CallerInv, ChannelTypeOK, tables, lists, history, queueVars
  <1>3. ChannelTypeOK'
    <2>1. flash' \in [Blocks -> Data \cup {Erased, Unknown}] /\ written' \in [Lbas -> Data \cup {Erased}]
      <3>1. After(mapping[l], d) \subseteq Data \cup {Erased, Unknown}
        BY DEF After
      <3>2. /\ flash \in [Blocks -> Data \cup {Erased, Unknown}]
            /\ written \in [Lbas -> Data \cup {Erased}]
        BY <1>1 DEF ChannelTypeOK
      <3> QED
        BY <1>2, <3>1, <3>2
    <2> QED
      BY <1>1, <1>2, <2>1 DEF ChannelTypeOK
  <1>4. PhaseInv'
    BY <1>1, <1>2 DEF PhaseInv, Using, NeverFails
  <1>5. ListInv'
    BY <1>1, <1>2 DEF ListInv, Using
  <1>6. CallerInv'
    BY <1>1, <1>2 DEF CallerInv, Using
  <1>7. LbaInv'
    BY <1>1, <1>2, QueueStays DEF LbaInv, Using
  <1>8. DataInv'
    <2>1. flash \in [Blocks -> Data \cup {Erased, Unknown}] /\ written \in [Lbas -> Data \cup {Erased}]
      BY <1>1 DEF ChannelTypeOK
    <2>2. mapping[l] \notin Ppas(free_blk)
      <3>1. mapping[l] \in Ppas(alloc_blk)
        BY <1>1, <1>2 DEF CallerInv, Using
      <3> QED
        BY <1>1, <3>1 DEF ListInv
    <2>3. \A b \in Ppas(free_blk) : flash'[b] \in After(b, Erased)
      <3>1. Ppas(free_blk) \subseteq Blocks
        BY <1>1, PpasAreBlocks DEF ChannelTypeOK
      <3> QED
        BY <1>1, <1>2, <2>1, <2>2, <3>1 DEF DataInv, Using
    <2>4. \A m \in owned : flash'[mapping[m]] \in After(mapping[m], written'[m])
      <3> SUFFICES ASSUME NEW m \in owned PROVE flash'[mapping[m]] \in After(mapping[m], written'[m])
        OBVIOUS
      <3>1. m \in Lbas /\ mapping[m] \in Blocks /\ flash[mapping[m]] \in After(mapping[m], written[m])
        BY <1>1 DEF ChannelTypeOK, DataInv
      <3>2. m # l => mapping[m] # mapping[l]
        BY <1>1, <1>2 DEF CallerInv
      <3> QED
        BY <1>2, <2>1, <3>1, <3>2
    <2>5. \A m \in Lbas \ owned : written'[m] = Erased
      BY <1>1, <1>2, <2>1 DEF DataInv
    <2> QED
      BY <1>1, <1>2, <2>3, <2>4, <2>5 DEF DataInv
  <1> QED
    BY <1>3, <1>4, <1>5, <1>6, <1>7, <1>8 DEF ChannelInv

LEMMA AllocBlockKeeps ==
  ASSUME ChannelInv, AllocBlock
  PROVE  ChannelInv'
  <1>1. ChannelTypeOK /\ PhaseInv /\ ListInv /\ CallerInv /\ LbaInv /\ DataInv
    BY DEF ChannelInv
  <1> DEFINE node == Head(free_blk)
             b == node.ppa
  <1>2. /\ UNCHANGED <<bad, bad_super, pc, i, chl_allocated, table, made, dangling, ers_cnt, flash,
                       reused, zeroed>>
        /\ Using /\ Using' /\ outcome = "none" /\ free_blk # <<>> /\ free_blk' = Tail(free_blk) /\ Dequeue
        /\ pc = "idle" /\ pc' = "idle" /\ chl_allocated /\ made
    BY <1>1 DEF AllocBlock, Idle, Using, PhaseInv, device, history
  <1>3. /\ free_blk \in Seq(Nodes) /\ alloc_blk \in Seq(Nodes) /\ Distinct(free_blk) /\ Distinct(alloc_blk)
        /\ Ppas(free_blk) \cap Ppas(alloc_blk) = {}
    BY <1>1 DEF ChannelTypeOK, ListInv
  <1>4. /\ node \in Nodes /\ node \in NodesOf(free_blk) /\ b \in Ppas(free_blk)
        /\ Tail(free_blk) \in Seq(Nodes) /\ Len(Tail(free_blk)) = Len(free_blk) - 1
        /\ Distinct(Tail(free_blk)) /\ NodesOf(Tail(free_blk)) \subseteq NodesOf(free_blk)
        /\ Ppas(Tail(free_blk)) = Ppas(free_blk) \ {b}
        /\ Falling(free_blk) => Falling(Tail(free_blk))
    BY <1>2, <1>3, TailLoses
  <1> HIDE DEF node
  <1>5. Len(free_blk) \in Nat /\ Len(alloc_blk) \in Nat /\ b \in Blocks /\ size \in Nat /\ Len(free_blk) > 0
    <2>1. b \in Blocks
      BY <1>4 DEF Nodes
    <2>2. size \in Nat
      BY <1>1, ContentsFacts, Numbers DEF LbaInv
    <2> QED
      BY <1>2, <1>3, <2>1, <2>2, LenProperties, EmptySeq
  <1>6. CASE size = 0
    <2>1. QueueInv' /\ size' = size /\ Waiting' = Waiting /\ QueueOnce' /\ ret' = Refused
      BY <1>1, <1>2, <1>6, QueueStays DEF LbaInv
    <2>2. UNCHANGED <<mapping, alloc_blk, owned, written>> /\ outcome' = "no lba"
      BY <2>1 DEF AllocBlock, caller
    <2>3. reused
      <3> SUFFICES ASSUME ~reused PROVE FALSE
        OBVIOUS
      <3>1. size + Len(alloc_blk) = ChlBlks /\ Len(free_blk) + Len(alloc_blk) <= Blks
        BY <1>1, <1>2 DEF LbaInv, ListInv
      <3> QED
        BY <1>5, <1>6, <3>1, Numbers
    <2>4. ChannelTypeOK'
      BY <1>1, <1>2, <1>4, <2>2 DEF ChannelTypeOK
    <2>5. PhaseInv'
      BY <1>1, <1>2, <2>1, <2>2, <2>3 DEF PhaseInv, NeverFails
    <2>6. ListInv'
      <3>1. Len(free_blk') + Len(alloc_blk') <= Blks
        <4>1. Len(free_blk) + Len(alloc_blk) <= Blks /\ Blks \in Nat
          BY <1>1, Numbers DEF ListInv
        <4>2. Len(free_blk') = Len(free_blk) - 1 /\ Len(alloc_blk') = Len(alloc_blk)
          BY <1>2, <1>4, <2>2
        <4> QED
          BY <1>5, <4>1, <4>2
      <3> QED
        BY <1>1, <1>2, <1>4, <2>2, <3>1 DEF ListInv
    <2>7. CallerInv'
      BY <1>1, <1>2, <2>2 DEF CallerInv
    <2>8. LbaInv'
      BY <1>1, <1>2, <2>1, <2>2, <2>3 DEF LbaInv
    <2>9. DataInv'
      BY <1>1, <1>2, <1>4, <2>2 DEF DataInv
    <2> QED
      BY <2>4, <2>5, <2>6, <2>7, <2>8, <2>9 DEF ChannelInv
  <1>7. CASE size # 0
    <2>1. /\ QueueInv' /\ size' = size - 1 /\ ret' \in Waiting /\ Waiting' = Waiting \ {ret'}
          /\ QueueOnce'
      BY <1>1, <1>2, <1>7, DequeueTakes DEF LbaInv
    <2>2. ret' \in Lbas /\ ret' \notin owned /\ ret' # Refused /\ owned \subseteq Lbas
      BY <1>1, <2>1, Numbers DEF LbaInv, ChannelTypeOK
    <2>3. /\ mapping' = [mapping EXCEPT ![ret'] = b] /\ alloc_blk' = AddAlloc(alloc_blk, node)
          /\ owned' = owned \cup {ret'} /\ UNCHANGED <<outcome, written>>
      BY <2>2 DEF AllocBlock, node
    <2>4. mapping \in [Lbas -> Blocks \cup {NoBlock}]
      BY <1>1 DEF ChannelTypeOK
    <2>5. mapping'[ret'] = b /\ \A m \in owned : mapping'[m] = mapping[m]
      BY <2>2, <2>3, <2>4
    <2>6. b \notin Ppas(alloc_blk)
      BY <1>3, <1>4
    <2>7. LET new == alloc_blk'
          IN  /\ new \in Seq(Nodes) /\ Len(new) = Len(alloc_blk) + 1 /\ Distinct(new)
              /\ NodesOf(new) = NodesOf(alloc_blk) \cup {node}
              /\ Ppas(new) = Ppas(alloc_blk) \cup {b}
              /\ Rising(alloc_blk) => Rising(new)
      <3>1. \A n \in Nodes : n.data \in Int
        BY Numbers DEF Nodes
      <3> QED
        BY <1>3, <1>4, <2>3, <2>6, <3>1, AddAllocGains
    <2>8. ChannelTypeOK'
      <3>1. mapping' \in [Lbas -> Blocks \cup {NoBlock}]
        BY <1>5, <2>3, <2>4
      <3>2. \A m \in owned' : mapping'[m] \in Blocks
        BY <1>1, <1>5, <2>3, <2>5 DEF ChannelTypeOK
      <3>3. owned' \subseteq Lbas
        BY <2>2, <2>3
      <3> QED
        BY <1>1, <1>2, <1>4, <2>3, <2>7, <3>1, <3>2, <3>3 DEF ChannelTypeOK
    <2>9. PhaseInv'
      BY <1>1, <1>2, <2>3 DEF PhaseInv, NeverFails
    <2>10. ListInv'
      <3>1. Len(free_blk') + Len(alloc_blk') <= Blks
        BY <1>1, <1>2, <1>4, <1>5, <2>7, Numbers DEF ListInv
      <3>2. \A n \in NodesOf(free_blk') \cup NodesOf(alloc_blk') : n.data = ers_cnt'[n.ppa]
        BY <1>1, <1>2, <1>4, <2>7 DEF ListInv
      <3>3. /\ Ppas(free_blk') \cap Ppas(alloc_blk') = {}
            /\ Ppas(free_blk') \cup Ppas(alloc_blk') = Blocks \ bad'
        BY <1>1, <1>2, <1>3, <1>4, <2>7 DEF ListInv
      <3> QED
        BY <1>1, <1>2, <1>4, <2>7, <3>1, <3>2, <3>3 DEF ListInv
    <2>11. CallerInv'
      <3>1. Ppas(alloc_blk) = {mapping[m] : m \in owned}
        BY <1>1, <1>2 DEF CallerInv
      <3>2. \A m \in owned : mapping[m] # b
        BY <2>6, <3>1
      <3>3. \A l, m \in owned' : mapping'[l] = mapping'[m] => l = m
        BY <1>1, <2>3, <2>5, <3>2 DEF CallerInv
      <3>4. Ppas(alloc_blk') = {mapping'[m] : m \in owned'}
        BY <2>3, <2>5, <2>7, <3>1
      <3> QED
        BY <1>2, <3>3, <3>4 DEF CallerInv
    <2>12. LbaInv'
      <3>1. Using /\ ~reused => size' + Len(alloc_blk') = ChlBlks
        BY <1>1, <1>5, <2>1, <2>7, Numbers DEF LbaInv
      <3>2. Using /\ ~reused => Waiting' \cup owned' = Lbas
        BY <1>1, <2>1, <2>2, <2>3 DEF LbaInv
      <3> QED
        BY <1>1, <1>2, <2>1, <2>2, <2>3, <3>1, <3>2 DEF LbaInv
    <2>13. DataInv'
      <3>1. \A x \in Ppas(free_blk') : flash'[x] \in After(x, Erased)
        BY <1>1, <1>2, <1>4 DEF DataInv
      <3>2. \A m \in owned' : flash'[mapping'[m]] \in After(mapping'[m], written'[m])
        BY <1>1, <1>2, <1>4, <2>2, <2>3, <2>5 DEF DataInv
      <3>3. ~zeroed => \A m \in Lbas \ owned' : mapping'[m] = NoBlock
        BY <1>1, <1>2, <2>2, <2>3, <2>4 DEF DataInv
      <3> QED
        BY <1>1, <1>2, <2>3, <3>1, <3>2, <3>3 DEF DataInv
    <2> QED
      BY <2>8, <2>9, <2>10, <2>11, <2>12, <2>13 DEF ChannelInv
  <1> QED
    BY <1>6, <1>7

LEMMA FreeBlockKeeps ==
  ASSUME ChannelInv, NEW l \in Lbas, FreeBlock(l)
  PROVE  ChannelInv'
  <1>1. ChannelTypeOK /\ PhaseInv /\ ListInv /\ CallerInv /\ LbaInv /\ DataInv
    BY DEF ChannelInv
  <1> DEFINE b == mapping[l]
             node == [ppa |-> b, data |-> ers_cnt'[b]]
  <1>2. /\ UNCHANGED <<bad, bad_super, pc, i, chl_allocated, table, made, dangling, reused, zeroed>>
        /\ Using /\ Using' /\ outcome = "none" /\ l \in owned /\ Enqueue(l) /\ l \in Elements
        /\ pc = "idle" /\ pc' = "idle" /\ chl_allocated /\ made
        /\ \E c \in After(b, Erased) : flash' = [flash EXCEPT ![b] = c]
        /\ ers_cnt' = [ers_cnt EXCEPT ![b] = Counted(@)]
        /\ mapping' = [mapping EXCEPT ![l] = NoBlock]
        /\ owned' = owned \ {l} /\ written' = [written EXCEPT ![l] = Erased]
    BY <1>1 DEF FreeBlock, EraseBlock, Idle, Using, CallerInv, PhaseInv, history, Lbas
  <1>3. /\ free_blk \in Seq(Nodes) /\ alloc_blk \in Seq(Nodes) /\ Distinct(free_blk) /\ Distinct(alloc_blk)
        /\ Ppas(free_blk) \cap Ppas(alloc_blk) = {}
        /\ Ppas(alloc_blk) = {mapping[m] : m \in owned}
        /\ mapping \in [Lbas -> Blocks \cup {NoBlock}] /\ owned \subseteq Lbas
        /\ flash \in [Blocks -> Data \cup {Erased, Unknown}] /\ written \in [Lbas -> Data \cup {Erased}]
        /\ ers_cnt \in [Blocks -> 0..(EraseWrap - 1)]
    BY <1>1, <1>2 DEF ChannelTypeOK, ListInv, CallerInv
  <1>4. b \in Blocks /\ b \in Ppas(alloc_blk) /\ b \notin Ppas(free_blk)
    BY <1>1, <1>2, <1>3 DEF ChannelTypeOK
  <1>5. \A m \in owned : m # l => mapping[m] # b
    BY <1>1, <1>2 DEF CallerInv
  <1> HIDE DEF b
  <1>6. /\ Places(alloc_blk, b) # {}
        /\ Without(alloc_blk, b) \in Seq(Nodes) /\ Len(Without(alloc_blk, b)) = Len(alloc_blk) - 1
        /\ Distinct(Without(alloc_blk, b))
        /\ NodesOf(Without(alloc_blk, b)) \subseteq NodesOf(alloc_blk)
        /\ Ppas(Without(alloc_blk, b)) = Ppas(alloc_blk) \ {b}
        /\ Rising(alloc_blk) => Rising(Without(alloc_blk, b))
    BY <1>3, <1>4, WithoutLoses
  <1>7. /\ ers_cnt' \in [Blocks -> 0..(EraseWrap - 1)] /\ node \in Nodes /\ node.ppa = b
        /\ node.data = ers_cnt'[b] /\ \A x \in Blocks : x # b => ers_cnt'[x] = ers_cnt[x]
    <2>1. \A x \in Nat : Counted(x) \in 0..(EraseWrap - 1)
      <3>1. EraseWrap \in Nat /\ EraseWrap > 0
        BY ChannelAssumption
      <3> QED
        BY <3>1, SMTT(30) DEF Counted
    <2>2. Counted(ers_cnt[b]) \in 0..(EraseWrap - 1)
      <3>1. ers_cnt[b] \in 0..(EraseWrap - 1)
        BY <1>3, <1>4
      <3>2. ers_cnt[b] \in Nat
        BY <3>1, Numbers
      <3> QED
        BY <2>1, <3>2
    <2>3. ers_cnt' \in [Blocks -> 0..(EraseWrap - 1)]
      BY <1>2, <1>3, <1>4, <2>2
    <2>4. \A x \in Blocks : x # b => ers_cnt'[x] = ers_cnt[x]
      BY <1>2, <1>3
    <2> QED
      BY <1>4, <2>3, <2>4 DEF Nodes
  <1>8. /\ alloc_blk' = Without(alloc_blk, b) /\ free_blk' = AddFree(free_blk, node)
        /\ outcome' = "none"
    BY <1>2, <1>6 DEF FreeBlock, b
  <1> HIDE DEF node
  <1>9. /\ free_blk' \in Seq(Nodes) /\ Len(free_blk') = Len(free_blk) + 1 /\ Distinct(free_blk')
        /\ NodesOf(free_blk') = NodesOf(free_blk) \cup {node}
        /\ Ppas(free_blk') = Ppas(free_blk) \cup {b}
        /\ Falling(free_blk) => Falling(free_blk')
    <2>1. \A n \in Nodes : n.data \in Int
      BY Numbers DEF Nodes
    <2>2. node \in Nodes /\ node.ppa \notin Ppas(free_blk)
      BY <1>4, <1>7
    <2>3. LET new == AddFree(free_blk, node)
          IN  /\ new \in Seq(Nodes) /\ Len(new) = Len(free_blk) + 1 /\ Distinct(new)
              /\ NodesOf(new) = NodesOf(free_blk) \cup {node}
              /\ Ppas(new) = Ppas(free_blk) \cup {node.ppa}
              /\ Falling(free_blk) => Falling(new)
      BY <1>3, <2>1, <2>2, AddFreeGains
    <2> QED
      BY <1>7, <1>8, <2>3
  <1>10. Len(free_blk) \in Nat /\ Len(alloc_blk) \in Nat /\ size \in Nat
    BY <1>1, <1>3, LenProperties, ContentsFacts, Numbers DEF LbaInv
  <1>11. /\ QueueInv' /\ QueueOnce' /\ l \notin Waiting
         /\ \/ size # Capacity /\ size' = size + 1 /\ Waiting' = Waiting \cup {l}
            \/ size = Capacity /\ Waiting' = Waiting
    <2>1. l \notin Waiting
      BY <1>1, <1>2 DEF LbaInv
    <2>2. CASE size # Capacity
      BY <1>1, <1>2, <2>1, <2>2, EnqueueAdds DEF LbaInv
    <2>3. CASE size = Capacity
      BY <1>1, <1>2, <2>1, <2>3, QueueStays DEF LbaInv
    <2> QED
      BY <2>2, <2>3
  <1>12. \A m \in owned' : m \in owned /\ m # l /\ mapping'[m] = mapping[m] /\ mapping[m] # b
    BY <1>2, <1>3, <1>5
  <1>13. ChannelTypeOK'
    <2>1. mapping' \in [Lbas -> Blocks \cup {NoBlock}]
      BY <1>2, <1>3
    <2>2. flash' \in [Blocks -> Data \cup {Erased, Unknown}] /\ written' \in [Lbas -> Data \cup {Erased}]
      BY <1>2, <1>3 DEF After
    <2>3. owned' \subseteq Lbas /\ \A m \in owned' : mapping'[m] \in Blocks
      BY <1>1, <1>3, <1>12 DEF ChannelTypeOK
    <2> QED
      BY <1>1, <1>2, <1>6, <1>7, <1>8, <1>9, <2>1, <2>2, <2>3 DEF ChannelTypeOK
  <1>14. PhaseInv'
    BY <1>1, <1>2, <1>8 DEF PhaseInv, NeverFails
  <1>15. ListInv'
    <2>1. Len(free_blk') + Len(alloc_blk') <= Blks
      <3>1. Len(free_blk) + Len(alloc_blk) <= Blks /\ Blks \in Nat
        BY <1>1, Numbers DEF ListInv
      <3> QED
        BY <1>6, <1>8, <1>9, <1>10, <3>1
    <2>2. \A n \in NodesOf(free_blk') \cup NodesOf(alloc_blk') : n.data = ers_cnt'[n.ppa]
      <3>1. \A n \in NodesOf(free_blk) \cup NodesOf(alloc_blk) : n.data = ers_cnt[n.ppa]
        BY <1>1 DEF ListInv
      <3>2. \A n \in NodesOf(free_blk) : n.ppa \in Blocks /\ n.ppa # b
        BY <1>3, <1>4, PpasAreBlocks
      <3>3. \A n \in NodesOf(alloc_blk') : n \in NodesOf(alloc_blk) /\ n.ppa \in Blocks /\ n.ppa # b
        BY <1>6, <1>8, PpasAreBlocks
      <3> QED
        BY <1>7, <1>9, <3>1, <3>2, <3>3
    <2>3. /\ Ppas(free_blk') \cap Ppas(alloc_blk') = {}
          /\ Ppas(free_blk') \cup Ppas(alloc_blk') = Blocks \ bad'
      <3>1. Ppas(free_blk) \cup Ppas(alloc_blk) = Blocks \ bad
        BY <1>1, <1>2 DEF ListInv
      <3> QED
        BY <1>2, <1>3, <1>4, <1>6, <1>8, <1>9, <3>1
    <2>4. Falling(free_blk') /\ Rising(alloc_blk')
      BY <1>1, <1>6, <1>8, <1>9 DEF ListInv
    <2> QED
      BY <1>2, <1>6, <1>8, <1>9, <2>1, <2>2, <2>3, <2>4 DEF ListInv
  <1>16. CallerInv'
    <2>1. \A k, m \in owned' : mapping'[k] = mapping'[m] => k = m
      BY <1>1, <1>12 DEF CallerInv
    <2>2. Ppas(alloc_blk') = {mapping'[m] : m \in owned'}
      <3>1. Ppas(alloc_blk') = {mapping[m] : m \in owned} \ {b}
        BY <1>3, <1>6, <1>8
      <3>2. \A m \in owned : m # l => m \in owned' /\ mapping'[m] = mapping[m]
        BY <1>2, <1>3
      <3> QED
        BY <1>12, <3>1, <3>2 DEF b
    <2> QED
      BY <1>2, <2>1, <2>2 DEF CallerInv
  <1>17. LbaInv'
    <2>1. ~reused => /\ size' = size + 1 /\ Waiting' = Waiting \cup {l}
                     /\ size + Len(alloc_blk) = ChlBlks /\ Waiting \cup owned = Lbas
      <3> SUFFICES ASSUME ~reused
                   PROVE  /\ size' = size + 1 /\ Waiting' = Waiting \cup {l}
                          /\ size + Len(alloc_blk) = ChlBlks /\ Waiting \cup owned = Lbas
        OBVIOUS
      <3>1. size + Len(alloc_blk) = ChlBlks /\ Waiting \cup owned = Lbas
        BY <1>1, <1>2 DEF LbaInv
      <3>2. Len(alloc_blk) > 0
        <4>1. Len(alloc_blk) = 0 => Ppas(alloc_blk) = {}
          BY DEF Ppas
        <4> QED
          BY <1>4, <1>10, <4>1
      <3>3. size # Capacity
        BY <1>10, <3>1, <3>2, Numbers
      <3> QED
        BY <1>11, <3>1, <3>3
    <2>2. ~reused => size' + Len(alloc_blk') = ChlBlks
      BY <1>6, <1>8, <1>10, <2>1, Numbers
    <2>3. ~reused => Waiting' \cup owned' = Lbas
      BY <1>2, <2>1
    <2>4. Waiting' \subseteq Lbas /\ Waiting' \cap owned' = {}
      BY <1>1, <1>2, <1>11 DEF LbaInv
    <2> QED
      BY <1>2, <1>11, <2>2, <2>3, <2>4 DEF LbaInv
  <1>18. DataInv'
    <2>1. \A x \in Ppas(free_blk') : flash'[x] \in After(x, Erased)
      <3>1. \A x \in Ppas(free_blk) : x \in Blocks /\ flash[x] \in After(x, Erased) /\ x # b
        BY <1>1, <1>2, <1>3, <1>4, PpasAreBlocks DEF DataInv
      <3> QED
        BY <1>2, <1>3, <1>4, <1>9, <3>1
    <2>2. \A m \in owned' : flash'[mapping'[m]] \in After(mapping'[m], written'[m])
      <3> SUFFICES ASSUME NEW m \in owned' PROVE flash'[mapping'[m]] \in After(mapping'[m], written'[m])
        OBVIOUS
      <3>1. /\ m \in owned /\ m \in Lbas /\ m # l /\ mapping'[m] = mapping[m] /\ mapping[m] # b
            /\ mapping[m] \in Blocks /\ flash[mapping[m]] \in After(mapping[m], written[m])
        BY <1>1, <1>3, <1>12 DEF ChannelTypeOK, DataInv
      <3> QED
        BY <1>2, <1>3, <3>1
    <2>3. \A m \in Lbas \ owned' : written'[m] = Erased
      BY <1>1, <1>2, <1>3 DEF DataInv
    <2>4. ~zeroed => \A m \in Lbas \ owned' : mapping'[m] = NoBlock
      BY <1>1, <1>2, <1>3 DEF DataInv
    <2> QED
      BY <1>2, <2>1, <2>2, <2>3, <2>4 DEF DataInv
  <1> QED
    BY <1>13, <1>14, <1>15, <1>16, <1>17, <1>18 DEF ChannelInv

LEMMA StepChannel == ChannelInv /\ [Next]_vars => ChannelInv'
  <1> SUFFICES ASSUME ChannelInv, [Next]_vars PROVE ChannelInv'
    OBVIOUS
  <1>1. CASE EraseSuperblocks \/ NoFreeBlock \/ AllocSuperblock
    BY <1>1, EndKeeps DEF EraseSuperblocks, NoFreeBlock, AllocSuperblock, Idle
  <1>2. CASE UNCHANGED vars
    <2>1. outcome' = outcome /\ UNCHANGED <<queueVars, bad, bad_super, pc, i, chl_allocated, tables,
             lists, dangling, device, caller, history>>
      BY <1>2 DEF vars
    <2>2. ChannelTypeOK /\ PhaseInv /\ ListInv /\ CallerInv /\ LbaInv /\ DataInv
      BY DEF ChannelInv
    <2>3. ChannelTypeOK'
      BY <2>1, <2>2 DEF ChannelTypeOK, tables, lists, device, caller, history
    <2>4. PhaseInv' /\ ListInv' /\ CallerInv'
      <3>1. PhaseInv'
        BY <2>1, <2>2 DEF PhaseInv, Using, NeverFails, queueVars, tables, device, history
      <3>2. ListInv'
        BY <2>1, <2>2 DEF ListInv, Using, lists, device
      <3>3. CallerInv'
        BY <2>1, <2>2 DEF CallerInv, Using, lists, caller, tables
      <3> QED
        BY <3>1, <3>2, <3>3
    <2>5. LbaInv' /\ DataInv'
      BY <2>1, <2>2, QueueStays DEF LbaInv, DataInv, Using, lists, device, caller, tables, history
    <2> QED
      BY <2>3, <2>4, <2>5 DEF ChannelInv
  <1> QED
    BY <1>1, <1>2, AllocChannelKeeps, ReadBadBlocksKeeps, EraseOneKeeps, InitMappingTableKeeps, FillQueueKeeps,
       FreeChannelKeeps, DrainQueueKeeps, AllocBlockKeeps, FreeBlockKeeps, WriteBlockKeeps DEF Next

-----------------------------------------------------------------------------
(* The theorems. *)

\* Every reachable state of the channel is of its type, for any number of
\* blocks, any bad ones, and any width of the erase counts.
THEOREM ChannelTypes == Spec => []ChannelTypeOK
  BY InitChannel, StepChannel, PTL DEF Spec, ChannelInv

\* free_block always finds the node it takes off the list, and alloc_block
\* always has an lba for the block it takes, until the channel is freed.
THEOREM ChannelNeverFails == Spec => []NeverFails
  <1>1. ChannelInv => NeverFails
    BY DEF ChannelInv, PhaseInv
  <1> QED
    BY <1>1, InitChannel, StepChannel, PTL DEF Spec

\* A block is read as it was written, whatever is allocated, freed and written
\* in between, unless a command on that block failed.
THEOREM ChannelReadsBack == Spec => []ReadsBack
  <1>1. ChannelInv => ReadsBack
    BY DEF ChannelInv, DataInv, ReadsBack
  <1> QED
    BY <1>1, InitChannel, StepChannel, PTL DEF Spec

\* Both lists are sorted by the erase counts of their blocks.
THEOREM ChannelListsByWear == Spec => []ListsByWear
  <1>1. ChannelInv => ListsByWear
    <2> SUFFICES ASSUME ChannelInv PROVE ListsByWear
      OBVIOUS
    <2>1. /\ Falling(free_blk) /\ Rising(alloc_blk)
          /\ free_blk \in Seq(Nodes) /\ alloc_blk \in Seq(Nodes)
          /\ \A n \in NodesOf(free_blk) \cup NodesOf(alloc_blk) : n.data = ers_cnt[n.ppa]
      BY DEF ChannelInv, ListInv, ChannelTypeOK
    <2>2. DOMAIN free_blk = 1..Len(free_blk) /\ DOMAIN alloc_blk = 1..Len(alloc_blk)
      BY <2>1, LenProperties
    <2> QED
      BY <2>1, <2>2 DEF ListsByWear, Falling, Rising, NodesOf
  <1> QED
    BY <1>1, InitChannel, StepChannel, PTL DEF Spec

\* As long as the table was not zeroed, the search of get_lba_addr finds the
\* lba whose block it is given.
THEOREM ChannelLbaFound == Spec => []LbaFound
  <1>1. ChannelInv => LbaFound
    <2> SUFFICES ASSUME ChannelInv, InUse, ~zeroed, NEW l \in owned
                 PROVE  LbaOf(mapping[l]) = l
      BY DEF LbaFound
    <2>1. ChannelTypeOK /\ CallerInv /\ DataInv /\ chl_allocated /\ pc = "idle"
      BY DEF ChannelInv, InUse, Idle
    <2>2. l \in Lbas /\ mapping[l] \in Blocks
      BY <2>1 DEF ChannelTypeOK
    <2>3. \A m \in Lbas : m # l => mapping[m] # mapping[l]
      <3>1. \A m \in owned : m # l => mapping[m] # mapping[l]
        BY <2>1 DEF CallerInv
      <3>2. \A m \in Lbas \ owned : mapping[m] = NoBlock
        BY <2>1 DEF DataInv
      <3> QED
        BY <2>2, <3>1, <3>2, Numbers
    <2>4. \A m \in Lbas : m < l => m # l
      BY <2>2, Numbers
    <2> QED
      BY <2>2, <2>3, <2>4 DEF LbaOf
  <1> QED
    BY <1>1, InitChannel, StepChannel, PTL DEF Spec

\* Every good block is on exactly one list, once, and those on the list of
\* allocated blocks are the caller's, one for each lba.
THEOREM ChannelBlocksPlaced == Spec => []BlocksPlaced
  <1>1. ChannelInv => BlocksPlaced
    <2> SUFFICES ASSUME ChannelInv, InUse, NEW b \in Blocks
                 PROVE  /\ Cardinality(Places(free_blk, b)) + Cardinality(Places(alloc_blk, b))
                             = IF b \in bad THEN 0 ELSE 1
                        /\ Cardinality({l \in owned : mapping[l] = b})
                             = Cardinality(Places(alloc_blk, b))
      BY DEF BlocksPlaced
    <2>1. /\ Distinct(free_blk) /\ Distinct(alloc_blk)
          /\ free_blk \in Seq(Nodes) /\ alloc_blk \in Seq(Nodes)
          /\ Ppas(free_blk) \cap Ppas(alloc_blk) = {}
          /\ Ppas(free_blk) \cup Ppas(alloc_blk) = Blocks \ bad
          /\ Ppas(alloc_blk) = {mapping[l] : l \in owned}
          /\ \A l, m \in owned : mapping[l] = mapping[m] => l = m
      BY DEF ChannelInv, ChannelTypeOK, ListInv, CallerInv, Using, InUse, Idle
    <2>2. ASSUME NEW list \in Seq(Nodes), Distinct(list)
          PROVE  Cardinality(Places(list, b)) = IF b \in Ppas(list) THEN 1 ELSE 0
      <3>1. Places(list, b) = {k \in 1..Len(list) : list[k].ppa = b}
        BY LenProperties DEF Places
      <3>2. CASE b \in Ppas(list)
        <4>1. PICK k \in 1..Len(list) : list[k].ppa = b
          BY <3>2 DEF Ppas
        <4>2. Places(list, b) = {k}
          BY <2>2, <3>1, <4>1 DEF Distinct
        <4> QED
          BY <3>2, <4>2, FS_Singleton
      <3>3. CASE b \notin Ppas(list)
        <4>1. Places(list, b) = {}
          BY <3>1, <3>3 DEF Ppas
        <4> QED
          BY <3>3, <4>1, FS_EmptySet
      <3> QED
        BY <3>2, <3>3
    <2>3. /\ Cardinality(Places(free_blk, b)) = IF b \in Ppas(free_blk) THEN 1 ELSE 0
          /\ Cardinality(Places(alloc_blk, b)) = IF b \in Ppas(alloc_blk) THEN 1 ELSE 0
      BY <2>1, <2>2
    <2>4. Cardinality({l \in owned : mapping[l] = b}) = IF b \in Ppas(alloc_blk) THEN 1 ELSE 0
      <3>1. CASE b \in Ppas(alloc_blk)
        <4>1. PICK l \in owned : mapping[l] = b
          BY <2>1, <3>1
        <4>2. {m \in owned : mapping[m] = b} = {l}
          BY <2>1, <4>1
        <4> QED
          BY <3>1, <4>2, FS_Singleton
      <3>2. CASE b \notin Ppas(alloc_blk)
        <4>1. {m \in owned : mapping[m] = b} = {}
          BY <2>1, <3>2
        <4> QED
          BY <3>2, <4>1, FS_EmptySet
      <3> QED
        BY <3>1, <3>2
    <2>5. /\ b \in Ppas(free_blk) => b \notin Ppas(alloc_blk)
          /\ b \in bad <=> b \notin Ppas(free_blk) /\ b \notin Ppas(alloc_blk)
      BY <2>1
    <2> QED
      BY <2>3, <2>4, <2>5
  <1> QED
    BY <1>1, InitChannel, StepChannel, PTL DEF Spec

\* Until the channel is freed every lba is in the queue, once, or with the
\* caller.
THEOREM ChannelLbasPlaced == Spec => []LbasPlaced
  <1>1. ChannelInv => LbasPlaced
    <2> SUFFICES ASSUME ChannelInv, InUse, ~reused, NEW l \in Lbas
                 PROVE  Cardinality({k \in 1..size : Contents[k] = l})
                          = IF l \in owned THEN 0 ELSE 1
      BY DEF LbasPlaced
    <2>1. QueueOnce /\ Waiting \cap owned = {} /\ Waiting \cup owned = Lbas
      BY DEF ChannelInv, LbaInv, Using, InUse, Idle
    <2>2. CASE l \in owned
      <3>1. {k \in 1..size : Contents[k] = l} = {}
        BY <2>1, <2>2 DEF Waiting
      <3> QED
        BY <2>2, <3>1, FS_EmptySet
    <2>3. CASE l \notin owned
      <3>1. PICK k \in 1..size : Contents[k] = l
        BY <2>1, <2>3 DEF Waiting
      <3>2. {j \in 1..size : Contents[j] = l} = {k}
        BY <2>1, <3>1 DEF QueueOnce
      <3> QED
        BY <2>3, <3>2, FS_Singleton
    <2> QED
      BY <2>2, <2>3
  <1> QED
    BY <1>1, InitChannel, StepChannel, PTL DEF Spec

\* In the channel too the ring of lbas is a bounded first-in, first-out queue:
\* the channel touches it only by enqueue and dequeue.
THEOREM ChannelQueueIsFifo == Spec => IsFifo
  <1>1. Init => QueueInit
    BY DEF Init
  <1>2. ChannelInv /\ [Next]_vars => [QueueNext]_queueVars
    <2> SUFFICES ASSUME ChannelInv, [Next]_vars PROVE [QueueNext]_queueVars
      OBVIOUS
    <2>1. CASE FillQueue
      <3>1. pc = "fill" /\ Enqueue(i)
        BY <2>1 DEF FillQueue
      <3>2. i < ChlBlks /\ i \in 0..(ChlBlks + 1)
        BY <3>1 DEF ChannelInv, PhaseInv, ChannelTypeOK
      <3>3. i \in Elements
        BY <3>2, Numbers DEF Lbas
      <3> QED
        BY <3>1, <3>3 DEF QueueNext
    <2>2. CASE DrainQueue \/ AllocBlock
      BY <2>2 DEF DrainQueue, AllocBlock, QueueNext
    <2>3. ASSUME NEW l \in Lbas, FreeBlock(l) PROVE [QueueNext]_queueVars
      BY <2>3 DEF FreeBlock, QueueNext, Lbas
    <2>4. ASSUME NEW l \in Lbas, NEW d \in Data, WriteBlock(l, d) PROVE [QueueNext]_queueVars
      BY <2>4 DEF WriteBlock
    <2>5. CASE \/ AllocChannel \/ ReadBadBlocks \/ EraseOne \/ EraseSuperblocks \/ InitMappingTable \/ FreeChannel
               \/ NoFreeBlock \/ AllocSuperblock
      BY <2>5 DEF AllocChannel, ReadBadBlocks, EraseOne, EraseSuperblocks, InitMappingTable, FreeChannel,
                  NoFreeBlock, AllocSuperblock
    <2>6. CASE UNCHANGED vars
      BY <2>6 DEF vars
    <2> QED
      BY <2>1, <2>2, <2>3, <2>4, <2>5, <2>6 DEF Next
  <1>3. Spec => QueueSpec
    BY <1>1, <1>2, InitChannel, StepChannel, PTL DEF Spec, QueueSpec
  <1> QED
    BY <1>3, RingIsFifo
=============================================================================
