-------------------------- MODULE VssdBlocks_proof --------------------------
(***************************************************************************)
(* Proofs about VssdBlocks: that every block is in one place and that      *)
(* free_block_sz follows the free list, for any number of blocks, any bad  *)
(* blocks and any interleaving of the two threads; and, while no two       *)
(* allocations have overlapped, that the tables are each other's inverse   *)
(* and the counts of valid pages are right.                                *)
(***************************************************************************)
EXTENDS VssdBlocks, SequenceTheorems, FiniteSetTheorems, TLAPS

\* What the pop leaves: the facts about Head and Tail the proofs need.
LEMMA PopFacts ==
  ASSUME NEW S, NEW s \in Seq(S), s # <<>>
  PROVE  /\ Len(s) \in Nat \ {0}
         /\ Head(s) \in S /\ Head(s) = s[1]
         /\ Tail(s) \in Seq(S) /\ Len(Tail(s)) = Len(s) - 1
         /\ \A i \in 1..(Len(s) - 1) : Tail(s)[i] = s[i + 1]
         /\ DOMAIN Tail(s) = 1..(Len(s) - 1) /\ DOMAIN s = 1..Len(s)
  BY HeadTailProperties, EmptySeq, LenProperties

-----------------------------------------------------------------------------
(* Types.  Two threads that dequeue at once may store over each other, but the
   front of the queue never gets ahead of the blocks popped, and a thread inside
   dequeue has popped one it has not counted yet: so the front it loads is an
   lba of the vSSD. *)

Inside(t) == IF pc[t] \in Dequeuing THEN 1 ELSE 0
Settled   == NBlk - Len(freeList) - Inside("worker") - Inside("gc")

Ring ==
    /\ front <= Settled
    /\ \A t \in Threads : pc[t] \in {"shrink", "advance"} => lba[t] <= Settled
    /\ \A t \in Threads : pc[t] \in {"lba", "shrink"} => sz[t] > 0

\* The worker has a page left, the collector a block to erase.
PageInv ==
    /\ pc["worker"] = "ready" => curPage < PPB
    /\ pc["gc"] = "erase" => cur # None

TypeInv == BlocksTypeOK /\ Ring /\ PageInv

LEMMA InitTypes == Init => TypeInv
  <1> SUFFICES ASSUME Init PROVE TypeInv
    OBVIOUS
  <1> USE BlocksAssumption
  <1>1. freeList \in Seq(Blocks) /\ Len(freeList) \in Nat
    <2>1. PICK n \in 1..NBlk : freeList \in [1..n -> Blocks]
      BY DEF Init
    <2> QED
      BY <2>1
  <1>2. freeSz \in Int /\ totBlocks \in Int /\ surplus \in Int
    BY <1>1 DEF Init
  <1>3. 0 \in Lbas /\ 0 \in Pages
    <2>1. NBlk * PPB \in Nat /\ NBlk * PPB > 0
      BY SMTT(30)
    <2> QED
      BY <2>1 DEF Lbas, Pages
  <1>4. BlocksTypeOK
    <2>1. pc \in [Threads -> Unlocked \cup {"pop", "return", "ready", "idle", "visit", "erase"}]
      BY DEF Init, Unlocked
    <2>2. /\ blkOf \in [Lbas -> Blocks \cup {None}] /\ valid \in [Lbas -> Int]
          /\ bitmap \in [Lbas -> BOOLEAN] /\ nextOf \in [Blocks -> Blocks \cup {None}]
          /\ blk \in [Threads -> Blocks \cup {None}]
          /\ mapping \in [Addrs -> Pages] /\ rev \in [Pages -> Addrs \cup {0}]
      BY <1>3 DEF Init, None
    <2>3. lba \in [Threads -> Lbas] /\ sz \in [Threads -> Nat] /\ curLba \in Lbas
      BY <1>3 DEF Init
    <2>4. front \in Nat /\ size \in Nat /\ prepped \in Nat /\ curPage \in Nat
      BY DEF Init
    <2> QED
      BY <1>1, <1>2, <2>1, <2>2, <2>3, <2>4 DEF Init, BlocksTypeOK
  <1>5. Ring /\ PageInv
    <2>1. Len(freeList) <= NBlk
      <3>1. PICK n \in 1..NBlk : freeList \in [1..n -> Blocks]
        BY DEF Init
      <3>2. Len(freeList) = n
        BY <3>1
      <3> QED
        BY <3>2
    <2>2. pc["worker"] = "pop" /\ pc["gc"] = "idle"
      BY DEF Init, Threads
    <2>3. Settled >= 0
      BY <1>1, <2>1, <2>2 DEF Settled, Inside, Dequeuing
    <2> QED
      BY <2>2, <2>3 DEF Init, Ring, PageInv, Threads
  <1> QED
    BY <1>4, <1>5 DEF TypeInv

\* The page a write hands out is a page of the vSSD.
LEMMA NewPageType ==
  ASSUME curLba \in Lbas, curPage \in Nat, curPage < PPB
  PROVE  NewPage \in Pages
  <1> USE BlocksAssumption
  <1> DEFINE c == curLba  k == curPage
  <1>1. c \in Nat /\ c + 1 <= NBlk /\ k \in Nat /\ k < PPB /\ PPB \in Nat /\ NBlk \in Nat
    BY DEF Lbas
  <1> HIDE DEF c, k
  <1>2. (c + 1) * PPB <= NBlk * PPB
    BY <1>1, SMTT(30)
  <1>3. (c + 1) * PPB = c * PPB + PPB /\ c * PPB \in Nat
    BY <1>1, SMTT(30)
  <1>4. c * PPB + k \in 0..(NBlk * PPB - 1)
    BY <1>1, <1>2, <1>3
  <1> QED
    BY <1>4 DEF NewPage, Pages, c, k

-----------------------------------------------------------------------------
(* What each action preserves. *)

\* The queue is as it was, and no thread enters or leaves dequeue.
LEMMA QuietRing ==
  ASSUME Ring, UNCHANGED <<freeList, front, lba, sz>>,
         \A t \in Threads : pc'[t] \in Dequeuing \/ pc[t] \in Dequeuing => pc'[t] = pc[t]
  PROVE  Ring'
  <1>1. Settled' = Settled
    BY DEF Settled, Inside, Threads
  <1> QED
    BY <1>1 DEF Ring, Dequeuing

\* alloc_block_v, at any point of either thread.
LEMMA AllocTypes ==
  ASSUME TypeInv, NEW t \in Threads, Alloc(t)
  PROVE  TypeInv'
  <1> USE BlocksAssumption
  <1>0. BlocksTypeOK /\ Ring /\ PageInv
    BY DEF TypeInv
  <1>1. CASE PopFree(t)
    <2>1. freeList' \in Seq(Blocks) /\ blk' \in [Threads -> Blocks \cup {None}]
      <3>1. freeList \in Seq(Blocks) /\ blk \in [Threads -> Blocks \cup {None}]
        BY <1>0 DEF BlocksTypeOK
      <3>2. CASE freeList = <<>>
        BY <1>1, <3>1, <3>2 DEF PopFree
      <3>3. CASE freeList # <<>>
        <4>1. Head(freeList) \in Blocks /\ Tail(freeList) \in Seq(Blocks)
          BY <3>1, <3>3, PopFacts
        <4> QED
          BY <1>1, <3>1, <3>3, <4>1 DEF PopFree
      <3> QED
        BY <3>2, <3>3
    <2>2. freeSz' \in Int /\ status' \in {"run", "exit", "crash"} /\ raced' \in BOOLEAN
      <3>1. freeSz \in Int /\ status = "run" /\ raced \in BOOLEAN
        BY <1>0, <1>1 DEF PopFree, BlocksTypeOK, At
      <3>2. raced' \in BOOLEAN
        BY <1>1, <3>1 DEF PopFree
      <3>3. status' \in {"run", "exit", "crash"}
        BY <1>1, <3>1 DEF PopFree
      <3> QED
        BY <1>1, <3>1, <3>2, <3>3 DEF PopFree
    <2>3. pc' \in [Threads -> Unlocked \cup {"pop", "return", "ready", "idle", "visit", "erase"}]
      BY <1>0, <1>1 DEF PopFree, BlocksTypeOK, Goto, Dequeuing, Unmapped, Unlocked
    <2>4. BlocksTypeOK'
      BY <1>0, <1>1, <2>1, <2>2, <2>3 DEF PopFree, BlocksTypeOK, work
    <2>5. Ring' /\ PageInv'
      <3>1. UNCHANGED <<front, size, lba, sz, curPage, cur>>
        BY <1>1 DEF PopFree, work
      <3>2. pc' = pc \/ pc' = [pc EXCEPT ![t] = "size"]
        BY <1>1 DEF PopFree, Goto
      <3>3. \A u \in Threads : /\ pc'[u] \in {"ready", "erase"} => pc'[u] = pc[u]
                               /\ pc'[u] \in {"lba", "shrink", "advance"} => pc'[u] = pc[u]
        BY <1>0, <3>2 DEF BlocksTypeOK
      <3>4. PageInv'
        BY <1>0, <3>1, <3>3 DEF PageInv, Threads
      <3>5. Settled' = Settled
        <4>1. CASE freeList = <<>>
          BY <1>1, <4>1 DEF PopFree, Settled, Inside
        <4>2. CASE freeList # <<>>
          <5>1. Len(freeList') = Len(freeList) - 1 /\ Len(freeList) \in Nat
            BY <1>0, <1>1, <4>2, PopFacts DEF PopFree, BlocksTypeOK
          <5>2. pc[t] = "pop" /\ \A u \in Threads : pc'[u] = IF u = t THEN "size" ELSE pc[u]
            BY <1>0, <1>1, <4>2 DEF PopFree, At, Goto, BlocksTypeOK
          <5>3. Inside(t) = 0 /\ Inside(t)' = 1 /\ \A u \in Threads \ {t} : Inside(u)' = Inside(u)
            BY <5>2 DEF Inside, Dequeuing
          <5>4. CASE t = "worker"
            BY <5>1, <5>3, <5>4 DEF Settled, Inside, Threads
          <5>5. CASE t = "gc"
            BY <5>1, <5>3, <5>5 DEF Settled, Inside, Threads
          <5> QED
            BY <5>4, <5>5 DEF Threads
        <4> QED
          BY <4>1, <4>2
      <3> QED
        BY <1>0, <3>1, <3>3, <3>4, <3>5 DEF Ring
    <2> QED
      BY <2>4, <2>5 DEF TypeInv
  <1>2. CASE TakeSize(t)
    <2>1. BlocksTypeOK'
      BY <1>0, <1>2 DEF TakeSize, BlocksTypeOK, At, Goto, Dequeuing, Unmapped, Unlocked, vssdT,
                        work, hist
    <2>2. /\ pc[t] = "size" /\ UNCHANGED <<freeList, front, lba, curPage, cur>>
          /\ \/ pc' = pc /\ sz' = sz
             \/ size # 0 /\ pc' = [pc EXCEPT ![t] = "lba"] /\ sz' = [sz EXCEPT ![t] = size]
      BY <1>2 DEF TakeSize, At, Goto, vssdT, work
    <2>3. \A u \in Threads : /\ pc'[u] = pc[u] \/ (u = t /\ pc[u] = "size" /\ pc'[u] = "lba")
                             /\ pc'[u] = pc[u] \/ size # 0
                             /\ sz'[u] = IF pc'[u] = pc[u] THEN sz[u] ELSE size
      BY <1>0, <2>2 DEF BlocksTypeOK
    <2>4. Settled' = Settled
      BY <2>2, <2>3 DEF Settled, Inside, Dequeuing, Threads
    <2>5. size # 0 => size > 0
      BY <1>0 DEF BlocksTypeOK
    <2>6. Ring'
      BY <1>0, <2>2, <2>3, <2>4, <2>5 DEF Ring
    <2> QED
      BY <1>0, <2>1, <2>2, <2>3, <2>6 DEF TypeInv, PageInv, Threads
  <1>3. CASE TakeLba(t)
    <2>1. /\ pc[t] = "lba" /\ pc' = [pc EXCEPT ![t] = "shrink"]
          /\ lba' = [lba EXCEPT ![t] = front]
          /\ UNCHANGED <<freeList, front, sz, curPage, cur>>
      BY <1>3 DEF TakeLba, At, Goto, vssdT, work
    <2>2. front \in Lbas
      <3>1. Len(freeList) \in Nat /\ front \in Nat /\ front <= Settled
        BY <1>0, LenProperties DEF BlocksTypeOK, Ring
      <3>2. Inside(t) = 1 /\ Inside("worker") \in {0, 1} /\ Inside("gc") \in {0, 1}
        BY <2>1 DEF Inside, Dequeuing
      <3>3. Inside("worker") + Inside("gc") >= 1
        BY <3>2 DEF Threads
      <3> QED
        BY <3>1, <3>2, <3>3 DEF Settled, Lbas
    <2>3. BlocksTypeOK'
      BY <1>0, <1>3, <2>2 DEF TakeLba, BlocksTypeOK, Goto, Dequeuing, Unmapped, Unlocked, vssdT,
                              work, hist
    <2>4. \A u \in Threads : /\ pc'[u] = IF u = t THEN "shrink" ELSE pc[u]
                             /\ lba'[u] = IF u = t THEN front ELSE lba[u]
      BY <1>0, <2>1 DEF BlocksTypeOK
    <2>5. Settled' = Settled
      BY <2>1, <2>4 DEF Settled, Inside, Dequeuing, Threads
    <2>6. Ring'
      BY <1>0, <2>1, <2>4, <2>5 DEF Ring
    <2> QED
      BY <1>0, <2>1, <2>3, <2>4, <2>6 DEF TypeInv, PageInv, Threads
  <1>7. CASE StoreSize(t)
    <2>1. /\ pc[t] = "shrink" /\ pc' = [pc EXCEPT ![t] = "advance"] /\ size' = sz[t] - 1
          /\ UNCHANGED <<freeList, front, lba, sz, curPage, cur>>
      BY <1>7 DEF StoreSize, At, Goto, locals, work
    <2>2. size' \in Nat
      BY <1>0, <2>1 DEF Ring, BlocksTypeOK
    <2>3. BlocksTypeOK'
      BY <1>0, <1>7, <2>2 DEF StoreSize, BlocksTypeOK, Goto, Dequeuing, Unmapped, Unlocked,
                              locals, work, hist
    <2>4. \A u \in Threads : pc'[u] = IF u = t THEN "advance" ELSE pc[u]
      BY <1>0, <2>1 DEF BlocksTypeOK
    <2>5. Settled' = Settled
      BY <2>1, <2>4 DEF Settled, Inside, Dequeuing, Threads
    <2>6. Ring'
      BY <1>0, <2>1, <2>4, <2>5 DEF Ring
    <2> QED
      BY <1>0, <2>1, <2>3, <2>4, <2>6 DEF TypeInv, PageInv, Threads
  <1>8. CASE StoreFront(t)
    <2>1. /\ pc[t] = "advance" /\ pc' = [pc EXCEPT ![t] = "map"] /\ front' = lba[t] + 1
          /\ UNCHANGED <<freeList, lba, sz, curPage, cur>>
      BY <1>8 DEF StoreFront, At, Goto, locals, work
    <2>2. lba[t] \in Nat /\ front' \in Nat
      BY <1>0, <2>1 DEF BlocksTypeOK, Lbas
    <2>3. BlocksTypeOK'
      BY <1>0, <1>8, <2>2 DEF StoreFront, BlocksTypeOK, Goto, Dequeuing, Unmapped, Unlocked,
                              locals, work, hist
    <2>4. Settled' = Settled + 1 /\ Settled \in Int
      <3>1. Inside(t) = 1 /\ Inside(t)' = 0 /\ \A u \in Threads \ {t} : Inside(u)' = Inside(u)
        BY <1>0, <2>1 DEF Inside, Dequeuing, BlocksTypeOK
      <3>2. Len(freeList) \in Nat /\ freeList' = freeList
        BY <1>0, <2>1, LenProperties DEF BlocksTypeOK
      <3>3. CASE t = "worker"
        BY <3>1, <3>2, <3>3 DEF Settled, Inside, Threads
      <3>4. CASE t = "gc"
        BY <3>1, <3>2, <3>4 DEF Settled, Inside, Threads
      <3> QED
        BY <3>3, <3>4 DEF Threads
    <2>5. \A u \in Threads : pc'[u] = IF u = t THEN "map" ELSE pc[u]
      BY <1>0, <2>1 DEF BlocksTypeOK
    <2>6. \A u \in Threads : lba[u] \in Nat
      BY <1>0 DEF BlocksTypeOK, Lbas
    <2>7. Ring'
      BY <1>0, <2>1, <2>2, <2>4, <2>5, <2>6 DEF Ring
    <2>8. PageInv'
      BY <1>0, <2>1, <2>5 DEF PageInv, Threads
    <2> QED
      BY <2>3, <2>7, <2>8 DEF TypeInv
  <1>4. CASE MapBlock(t)
    <2>1. BlocksTypeOK'
      BY <1>0, <1>4 DEF MapBlock, BlocksTypeOK, Goto, Unmapped, Unlocked, locals, work, hist
    <2>2. Ring' /\ PageInv'
      BY <1>0, <1>4, QuietRing
      DEF MapBlock, BlocksTypeOK, PageInv, At, Goto, Dequeuing, locals, work
    <2> QED
      BY <2>1, <2>2 DEF TypeInv
  <1>5. CASE LinkBlock(t)
    <2>1. BlocksTypeOK'
      BY <1>0, <1>5 DEF LinkBlock, BlocksTypeOK, Goto, Unmapped, Unlocked, locals, work, hist
    <2>2. Ring' /\ PageInv'
      BY <1>0, <1>5, QuietRing
      DEF LinkBlock, BlocksTypeOK, PageInv, At, Goto, Dequeuing, locals, work
    <2> QED
      BY <2>1, <2>2 DEF TypeInv
  <1>6. CASE HeadBlock(t)
    <2>1. BlocksTypeOK'
      BY <1>0, <1>6 DEF HeadBlock, BlocksTypeOK, Goto, Unmapped, Unlocked, locals, work, hist
    <2>2. Ring' /\ PageInv'
      BY <1>0, <1>6, QuietRing
      DEF HeadBlock, BlocksTypeOK, PageInv, At, Goto, Dequeuing, locals, work
    <2> QED
      BY <2>1, <2>2 DEF TypeInv
  <1> QED
    BY <1>1, <1>2, <1>3, <1>4, <1>5, <1>6, <1>7, <1>8 DEF Alloc

\* The lba of a page of the vSSD is one of its lbas.
LEMMA LbaOfType ==
  ASSUME NEW page \in Pages
  PROVE  LbaOf(page) \in Lbas
  <1> USE BlocksAssumption
  <1> DEFINE q == page \div PPB  r == page % PPB
  <1>1. page \in Nat /\ PPB \in Nat /\ PPB > 0 /\ NBlk \in Nat
    BY DEF Pages
  <1>2. page < NBlk * PPB
    BY <1>1, SMTT(30) DEF Pages
  <1>3. q \in Int /\ r \in 0..(PPB - 1) /\ page = PPB * q + r
    BY <1>1, SMTT(30)
  <1> HIDE DEF q, r
  <1>4. q >= 0
    <2> SUFFICES ASSUME q <= -1 PROVE FALSE
      BY <1>3
    <2>1. PPB * q <= -PPB
      BY <1>1, <1>3, SMTT(30)
    <2> QED
      BY <1>1, <1>3, <2>1, SMTT(30)
  <1>5. q < NBlk
    <2> SUFFICES ASSUME q >= NBlk PROVE FALSE
      BY <1>1, <1>3
    <2>1. PPB * q >= NBlk * PPB
      BY <1>1, <1>3, SMTT(30)
    <2> QED
      BY <1>1, <1>2, <1>3, <2>1, SMTT(30)
  <1> QED
    BY <1>1, <1>3, <1>4, <1>5 DEF LbaOf, Lbas, q

\* The worker.
LEMMA WorkerTypes ==
  ASSUME TypeInv, Prepped \/ NewBlock \/ \E a \in Addrs : Write(a) \/ WriteCrash(a)
  PROVE  TypeInv'
  <1> USE BlocksAssumption DEF Threads
  <1>0. BlocksTypeOK /\ Ring /\ PageInv
    BY DEF TypeInv
  <1>1. CASE Prepped
    <2>1. BlocksTypeOK'
      BY <1>0, <1>1 DEF Prepped, BlocksTypeOK, Goto, Unlocked, vssdT, locals, hist
    <2>2. Ring' /\ PageInv'
      BY <1>0, <1>1, QuietRing
      DEF Prepped, BlocksTypeOK, PageInv, At, Goto, Dequeuing, vssdT, locals
    <2> QED
      BY <2>1, <2>2 DEF TypeInv
  <1>2. CASE NewBlock
    <2>1. BlocksTypeOK'
      BY <1>0, <1>2 DEF NewBlock, BlocksTypeOK, Goto, Unlocked, vssdT, locals, hist
    <2>2. Ring' /\ PageInv'
      BY <1>0, <1>2, BlocksAssumption, QuietRing
      DEF NewBlock, BlocksTypeOK, PageInv, At, Goto, Dequeuing, vssdT, locals
    <2> QED
      BY <2>1, <2>2 DEF TypeInv
  <1>3. ASSUME NEW a \in Addrs, WriteCrash(a) PROVE TypeInv'
    BY <1>0, <1>3, QuietRing
    DEF WriteCrash, TypeInv, BlocksTypeOK, PageInv, vssdT, locals, work, hist
  <1>4. ASSUME NEW a \in Addrs, Write(a) PROVE TypeInv'
    <2>1. NewPage \in Pages /\ curPage + 1 \in Nat
      <3>1. curLba \in Lbas /\ curPage \in Nat /\ curPage < PPB
        BY <1>0, <1>4 DEF Write, At, PageInv, BlocksTypeOK
      <3> QED
        BY <3>1, NewPageType
    <2>2. mapping[a] \in Pages /\ LbaOf(mapping[a]) \in Lbas
      BY <1>0, LbaOfType DEF BlocksTypeOK
    <2>3. valid' \in [Lbas -> Int]
      <3>1. valid \in [Lbas -> Int]
        BY <1>0 DEF BlocksTypeOK
      <3>2. \/ valid' = valid
            \/ valid' = [valid EXCEPT ![LbaOf(mapping[a])] = @ - 1]
        BY <1>4 DEF Write
      <3> QED
        BY <2>2, <3>1, <3>2
    <2>4. mapping' \in [Addrs -> Pages] /\ used' \subseteq Pages
      BY <1>0, <1>4, <2>1 DEF Write, BlocksTypeOK
    <2>5. rev' \in [Pages -> Addrs \cup {0}]
      BY <1>0, <1>4, <2>1 DEF Write, BlocksTypeOK
    <2>6. BlocksTypeOK'
      BY <1>0, <1>4, <2>1, <2>3, <2>4, <2>5 DEF Write, BlocksTypeOK, Goto, Unlocked, locals
    <2>7. Ring'
      BY <1>0, <1>4, QuietRing DEF Write, BlocksTypeOK, At, Goto, Dequeuing, locals
    <2>8. PageInv'
      <3>1. curPage \in Nat /\ curPage < PPB /\ curPage' = curPage + 1 /\ cur' = cur
        BY <1>0, <1>4 DEF Write, At, BlocksTypeOK, PageInv
      <3>2. pc' = [pc EXCEPT !["worker"] = IF curPage + 1 = PPB THEN "pop" ELSE "ready"]
        BY <1>4 DEF Write, Goto
      <3>3. pc'["gc"] = pc["gc"] /\ (pc'["worker"] = "ready" => curPage + 1 # PPB)
        BY <1>0, <3>2 DEF BlocksTypeOK
      <3> QED
        BY <1>0, <3>1, <3>3 DEF PageInv
    <2> QED
      BY <2>6, <2>7, <2>8 DEF TypeInv
  <1> QED
    BY <1>1, <1>2, <1>3, <1>4

\* do_gc.
LEMMA GcTypes ==
  ASSUME TypeInv, GcStart \/ GcAllocated \/ GcVisit \/ GcErase \/ GcEnd
  PROVE  TypeInv'
  <1> USE BlocksAssumption DEF Threads
  <1>0. BlocksTypeOK /\ Ring /\ PageInv
    BY DEF TypeInv
  <1>1. BlocksTypeOK'
    <2>1. CASE GcStart
      BY <1>0, <2>1 DEF GcStart, BlocksTypeOK, Goto, Unlocked, vssdT, locals, work, hist
    <2>2. CASE GcAllocated
      BY <1>0, <2>2 DEF GcAllocated, BlocksTypeOK, Goto, Unlocked, vssdT, locals, work, hist
    <2>3. CASE GcVisit
      <3>1. cur \in Blocks /\ nextOf[cur] \in Blocks \cup {None}
        BY <1>0, <2>3 DEF GcVisit, BlocksTypeOK
      <3> QED
        BY <1>0, <2>3, <3>1 DEF GcVisit, BlocksTypeOK, Goto, Unlocked, vssdT, locals, work, hist
    <2>4. CASE GcErase
      <3>1. cur \in Blocks /\ nextOf[cur] \in Blocks \cup {None}
        BY <1>0, <2>4 DEF GcErase, At, BlocksTypeOK, PageInv
      <3> QED
        BY <1>0, <2>4, <3>1 DEF GcErase, BlocksTypeOK, Goto, Unlocked, locals, work
    <2>5. CASE GcEnd
      BY <1>0, <2>5 DEF GcEnd, BlocksTypeOK, Goto, Unlocked, vssdT, locals, work, hist
    <2> QED
      BY <2>1, <2>2, <2>3, <2>4, <2>5
  <1>2. Ring' /\ PageInv'
    <2>1. /\ UNCHANGED <<freeList, front, lba, sz, curPage>>
          /\ \E p \in {"pop", "visit", "erase", "idle"} :
                /\ pc' = [pc EXCEPT !["gc"] = p] \/ (pc' = pc /\ pc["gc"] = p)
                /\ p = "erase" => cur # None /\ cur' = cur
      BY DEF GcStart, GcAllocated, GcVisit, GcErase, GcEnd, At, Goto, vssdT, locals, work
    <2>2. pc["gc"] \notin Dequeuing
      BY DEF GcStart, GcAllocated, GcVisit, GcErase, GcEnd, At, Dequeuing
    <2> QED
      BY <1>0, <2>1, <2>2, QuietRing DEF BlocksTypeOK, PageInv, Dequeuing
  <1> QED
    BY <1>1, <1>2 DEF TypeInv

LEMMA StepTypes == TypeInv /\ [Next]_vars => TypeInv'
  <1> SUFFICES ASSUME TypeInv, [Next]_vars PROVE TypeInv'
    OBVIOUS
  <1>1. CASE UNCHANGED vars
    BY <1>1, QuietRing DEF vars, vssdT, locals, work, hist, TypeInv, BlocksTypeOK, PageInv
  <1>2. CASE Next
    BY <1>2, AllocTypes, WorkerTypes, GcTypes DEF Next
  <1> QED
    BY <1>1, <1>2

\* Every reachable state of the block layer is of its type, whatever the two
\* threads of rb_nexus.c interleave in alloc_block_v and do_gc.
THEOREM BlocksTypes == Spec => []BlocksTypeOK
  <1>1. TypeInv => BlocksTypeOK
    BY DEF TypeInv
  <1> QED
    BY <1>1, InitTypes, StepTypes, PTL DEF Spec

-----------------------------------------------------------------------------
(* Every block in one place. *)

LEMMA InitPlaces == Init => NoBlockTwice
  <1> SUFFICES ASSUME Init PROVE NoBlockTwice
    OBVIOUS
  <1> USE BlocksAssumption
  <1>1. \A i, j \in DOMAIN freeList : i # j => freeList[i] # freeList[j]
    <2>1. PICK n \in 1..NBlk : freeList \in [1..n -> Blocks]
      BY DEF Init
    <2>2. \A i, j \in DOMAIN freeList : i < j => freeList[i] > freeList[j]
      BY DEF Init
    <2> SUFFICES ASSUME NEW i \in 1..n, NEW j \in 1..n, i # j
                 PROVE  freeList[i] # freeList[j]
      BY <2>1
    <2>3. freeList[i] \in Int /\ freeList[j] \in Int /\ (i < j \/ j < i)
      BY <2>1 DEF Blocks
    <2> QED
      BY <2>1, <2>2, <2>3
  <1>2. \A t \in Threads : pc[t] \notin Unlocked
    BY DEF Init, Threads, Dequeuing, Unmapped, Unlocked
  <1>3. \A l \in Lbas : ~Assigned(l)
    BY DEF Init, Assigned
  <1> QED
    BY <1>1, <1>2, <1>3 DEF NoBlockTwice, Held, Unlocked

\* The pop, the only step that takes a block off the free list.
LEMMA PopPlaces ==
  ASSUME BlocksTypeOK, NoBlockTwice, NEW t \in Threads, PopFree(t)
  PROVE  NoBlockTwice'
  <1> USE BlocksAssumption
  <1>1. CASE freeList = <<>>
    BY <1>1 DEF PopFree, NoBlockTwice, Held, Free, Assigned
  <1>2. CASE freeList # <<>>
    <2>1. /\ blk' = [blk EXCEPT ![t] = freeList[1]] /\ pc' = [pc EXCEPT ![t] = "size"]
          /\ freeList' = Tail(freeList) /\ blkOf' = blkOf /\ pc[t] = "pop"
      BY <1>2, PopFacts DEF PopFree, Goto, At, BlocksTypeOK
    <2>2. /\ DOMAIN freeList' = 1..(Len(freeList) - 1) /\ DOMAIN freeList = 1..Len(freeList)
          /\ Len(freeList) \in Nat \ {0}
          /\ \A i \in 1..(Len(freeList) - 1) : freeList'[i] = freeList[i + 1]
      BY <1>2, <2>1, PopFacts DEF BlocksTypeOK
    <2>3. freeList[1] \in Free /\ freeList[1] \notin Free' /\ Free' \subseteq Free
      <3>0. 1 \in DOMAIN freeList
        BY <2>2
      <3>1. 1 \in DOMAIN freeList /\ freeList[1] \in Free
        BY <3>0 DEF Free
      <3>2. \A i \in DOMAIN freeList' : /\ i + 1 \in DOMAIN freeList /\ i + 1 # 1
                                       /\ freeList'[i] = freeList[i + 1]
        BY <2>2
      <3>3. \A i \in DOMAIN freeList' : freeList'[i] \in Free /\ freeList'[i] # freeList[1]
        BY <3>1, <3>2 DEF NoBlockTwice, Free
      <3> QED
        BY <3>1, <3>3 DEF Free
    <2>4. \A i, j \in DOMAIN freeList' : i # j => freeList'[i] # freeList'[j]
      <3> SUFFICES ASSUME NEW i \in 1..(Len(freeList) - 1), NEW j \in 1..(Len(freeList) - 1),
                          i # j
                   PROVE  freeList'[i] # freeList'[j]
        BY <2>2
      <3>1. i + 1 \in DOMAIN freeList /\ j + 1 \in DOMAIN freeList /\ i + 1 # j + 1
        BY <2>2
      <3> QED
        BY <2>2, <3>1 DEF NoBlockTwice
    <2>5. /\ \A u \in Threads : Held(u)' => blk'[u] \notin Free'
          /\ \A u, w \in Threads : u # w /\ Held(u)' /\ Held(w)' => blk'[u] # blk'[w]
      BY <2>1, <2>3 DEF NoBlockTwice, Held, BlocksTypeOK
    <2>6. \A u \in Threads : pc'[u] \in Unmapped =>
             \A l \in Lbas : blkOf'[l] # blk'[u]
      <3>1. \A l \in Lbas : blkOf[l] # freeList[1]
        <4>1. freeList[1] # None
          BY <2>2 DEF BlocksTypeOK, Blocks, None
        <4> QED
          BY <2>3, <4>1 DEF NoBlockTwice, Assigned
      <3> QED
        BY <2>1, <3>1 DEF NoBlockTwice, BlocksTypeOK
    <2>7. /\ \A l \in Lbas : Assigned(l)' => blkOf'[l] \notin Free'
          /\ \A l, m \in Lbas : l # m /\ Assigned(l)' => blkOf'[l] # blkOf'[m]
      BY <2>1, <2>3 DEF NoBlockTwice, Assigned
    <2> QED
      BY <2>4, <2>5, <2>6, <2>7 DEF NoBlockTwice
  <1> QED
    BY <1>1, <1>2

\* The mapping, the only step that gives a block to an lba.  It may take an lba
\* from the block it had, when the lba was handed out twice.
LEMMA MapPlaces ==
  ASSUME BlocksTypeOK, NoBlockTwice, NEW t \in Threads, MapBlock(t)
  PROVE  NoBlockTwice'
  <1>1. /\ pc[t] = "map" /\ pc' = [pc EXCEPT ![t] = "link"]
        /\ blkOf' = [blkOf EXCEPT ![lba[t]] = blk[t]]
        /\ UNCHANGED <<freeList, blk>>
    BY DEF MapBlock, At, Goto, locals
  <1>2. Held(t) /\ blk[t] \notin Free /\ Free' = Free
    BY <1>1 DEF Held, Dequeuing, Unmapped, Unlocked, NoBlockTwice, Free
  <1>3. \A u \in Threads : Held(u)' <=> Held(u)
    BY <1>1 DEF Held, Unlocked, BlocksTypeOK
  <1>4. \A u \in Threads : pc'[u] \in Unmapped =>
           \A l \in Lbas : blkOf'[l] # blk'[u]
    <2> SUFFICES ASSUME NEW u \in Threads, pc'[u] \in Unmapped, NEW l \in Lbas
                 PROVE  blkOf'[l] # blk'[u]
      OBVIOUS
    <2>1. u # t /\ pc[u] \in Unmapped /\ Held(u)
      BY <1>1 DEF BlocksTypeOK, Held, Dequeuing, Unmapped, Unlocked
    <2>2. blk[u] # blk[t] /\ blkOf[l] # blk[u]
      BY <1>2, <2>1 DEF NoBlockTwice
    <2> QED
      BY <1>1, <2>2 DEF BlocksTypeOK
  <1>5. \A l \in Lbas : Assigned(l)' => blkOf'[l] \notin Free'
    BY <1>1, <1>2 DEF NoBlockTwice, Assigned, BlocksTypeOK
  <1>6. \A l, m \in Lbas : l # m /\ Assigned(l)' => blkOf'[l] # blkOf'[m]
    <2>1. \A l \in Lbas : blkOf[l] # blk[t]
      BY <1>1 DEF NoBlockTwice, Unmapped
    <2> QED
      BY <1>1, <2>1 DEF NoBlockTwice, Assigned, BlocksTypeOK
  <1> QED
    BY <1>1, <1>2, <1>3, <1>4, <1>5, <1>6 DEF NoBlockTwice

\* The other steps move no block: a thread goes on inside alloc_block_v, or
\* leaves it.
LEMMA QuietPlaces ==
  ASSUME BlocksTypeOK, NoBlockTwice, UNCHANGED <<freeList, blk, blkOf>>,
         \A t \in Threads : pc'[t] \in Unmapped =>
            pc[t] \in Unmapped,
         \A t \in Threads : Held(t)' => Held(t)
  PROVE  NoBlockTwice'
  BY DEF NoBlockTwice, Free, Assigned

LEMMA StepPlaces == TypeInv /\ NoBlockTwice /\ [Next]_vars => NoBlockTwice'
  <1> SUFFICES ASSUME BlocksTypeOK, NoBlockTwice, [Next]_vars PROVE NoBlockTwice'
    BY DEF TypeInv
  <1> USE DEF Held, Dequeuing, Unmapped, Unlocked, At, Goto, vssdT, locals, work, hist,
              BlocksTypeOK
  <1>1. CASE UNCHANGED vars
    BY <1>1, QuietPlaces DEF vars
  <1>2. ASSUME NEW t \in Threads, TakeSize(t) \/ TakeLba(t) \/ StoreSize(t) \/ StoreFront(t)
        PROVE  NoBlockTwice'
    BY <1>2, QuietPlaces DEF TakeSize, TakeLba, StoreSize, StoreFront
  <1>5. ASSUME NEW t \in Threads, LinkBlock(t) \/ HeadBlock(t) PROVE NoBlockTwice'
    BY <1>5, QuietPlaces DEF LinkBlock, HeadBlock
  <1>3. CASE Prepped \/ NewBlock \/ \E a \in Addrs : Write(a) \/ WriteCrash(a)
    BY <1>3, QuietPlaces DEF Prepped, NewBlock, Write, WriteCrash
  <1>4. CASE GcStart \/ GcAllocated \/ GcVisit \/ GcErase \/ GcEnd
    BY <1>4, QuietPlaces DEF GcStart, GcAllocated, GcVisit, GcErase, GcEnd
  <1> QED
    BY <1>1, <1>2, <1>3, <1>4, <1>5, PopPlaces, MapPlaces DEF Next, Alloc

\* A block is in one place, although only the pop of alloc_block_v
\* (vssd.c:143-147) is under a lock, and even when lbas are handed out twice.
THEOREM BlockInOnePlace == Spec => []NoBlockTwice
  BY InitTypes, StepTypes, InitPlaces, StepPlaces, PTL DEF Spec

-----------------------------------------------------------------------------
(* The count of free blocks. *)

LEMMA StepCount == TypeInv /\ FreeCounted /\ [Next]_vars => FreeCounted'
  <1> SUFFICES ASSUME BlocksTypeOK, FreeCounted, [Next]_vars PROVE FreeCounted'
    BY DEF TypeInv
  <1>1. ASSUME NEW t \in Threads, PopFree(t) PROVE FreeCounted'
    BY <1>1, PopFacts DEF PopFree, FreeCounted, BlocksTypeOK, At
  <1>2. ASSUME UNCHANGED <<freeList, freeSz, surplus>>, status' = "run" => status = "run"
        PROVE  FreeCounted'
    BY <1>2 DEF FreeCounted
  <1>3. CASE UNCHANGED vars
    BY <1>2, <1>3 DEF vars, vssdT, hist
  <1>4. ASSUME NEW t \in Threads,
               \/ TakeSize(t) \/ TakeLba(t) \/ StoreSize(t) \/ StoreFront(t)
               \/ MapBlock(t) \/ LinkBlock(t) \/ HeadBlock(t)
        PROVE  FreeCounted'
    BY <1>2, <1>4
    DEF TakeSize, TakeLba, StoreSize, StoreFront, MapBlock, LinkBlock, HeadBlock, At, vssdT, hist
  <1>5. CASE Prepped \/ NewBlock \/ \E a \in Addrs : Write(a) \/ WriteCrash(a)
    BY <1>2, <1>5 DEF Prepped, NewBlock, Write, WriteCrash, At, vssdT, hist
  <1>6. CASE GcStart \/ GcAllocated \/ GcVisit \/ GcErase \/ GcEnd
    BY <1>2, <1>6 DEF GcStart, GcAllocated, GcVisit, GcErase, GcEnd, At, vssdT, hist
  <1> QED
    BY <1>1, <1>3, <1>4, <1>5, <1>6 DEF Next, Alloc

\* free_block_sz follows the free list for as long as the process runs.
THEOREM FreeCountFollows == Spec => []FreeCounted
  <1>1. Init => FreeCounted
    <2> SUFFICES ASSUME Init PROVE FreeCounted
      OBVIOUS
    <2>1. freeSz \in Int /\ Len(freeList) \in Int /\ surplus = freeSz - Len(freeList)
      BY InitTypes, LenProperties DEF Init, TypeInv, BlocksTypeOK
    <2> QED
      BY <2>1 DEF FreeCounted
  <1> QED
    BY <1>1, InitTypes, StepTypes, StepCount, PTL DEF Spec
-----------------------------------------------------------------------------
(* The tables of the worker.  The queue of lbas is loaded and stored without a
   lock, so all of it rests on two calls of alloc_block_v never having been
   past the lock together: then the lbas go out in the order of their numbers,
   and what an lba is compared with is the front of the queue. *)

\* With the front of the queue loaded, up to its store, the mapping, or all the way.
Loaded == {"shrink", "advance"}
Taking == Loaded \cup {"map"}
Holds  == Taking \cup {"link", "head", "return"}

UsedBelow(l) == \A p \in used : LbaOf(p) < l

\* The lbas in use are below the front of the queue, and the one a thread has
\* taken is above all that the worker has written to.
LbasInOrder ==
    /\ ~(Held("worker") /\ Held("gc"))
    /\ \A t \in Threads : pc[t] \in Loaded => lba[t] = front
    /\ UsedBelow(front)
    /\ pc["worker"] \in Holds \ Loaded => lba["worker"] < front
    /\ pc["worker"] = "ready" => curLba < front
    /\ pc["worker"] \in Holds => UsedBelow(lba["worker"])
    /\ pc["gc"] \in Taking => /\ UsedBelow(lba["gc"])
                              /\ pc["worker"] = "return" => lba["worker"] < lba["gc"]
                              /\ pc["worker"] = "ready" => curLba < lba["gc"]

\* Lba 0, whose first page has the id of an unmapped sector, is never written:
\* it goes to a block for reads, or to do_gc.
ZeroUnwritten ==
    /\ prepped <= front
    /\ pc["worker"] \in Holds => prepped <= lba["worker"]
    /\ pc["worker"] = "ready" => curLba > 0

\* The pages of the current block are used in order.
PagesInOrder == pc["worker"] = "ready" => \A p \in used : LbaOf(p) = curLba => p < NewPage

InverseTables == \A a \in Addrs : Invalidates(a) => mapping[a] \in used /\ rev[mapping[a]] = a

OrderInv == ~raced => LbasInOrder /\ ZeroUnwritten /\ PagesInOrder /\ InverseTables

LEMMA NewPageLba ==
  ASSUME BlocksTypeOK, curPage < PPB
  PROVE  NewPage \in Pages /\ LbaOf(NewPage) = curLba
  <1> USE BlocksAssumption
  <1>1. NewPage \in Pages
    BY NewPageType DEF BlocksTypeOK
  <1> DEFINE c == curLba  k == curPage  n == PPB
             page == c * n + k  q == page \div n  r == page % n
  <1>2. c \in Nat /\ k \in Nat /\ n \in Nat /\ n > 0 /\ k < n
    BY DEF BlocksTypeOK, Lbas
  <1> HIDE DEF c, k, n
  <1>3. page \in Nat
    BY <1>2, SMTT(30)
  <1> HIDE DEF page
  <1>4. q \in Int /\ r \in 0..(n - 1) /\ page = n * q + r
    BY <1>2, <1>3, SMTT(30)
  <1> HIDE DEF q, r
  <1>5. page = n * c + k
    BY <1>2, SMTT(30) DEF page
  <1>6. ~(q < c)
    <2> SUFFICES ASSUME q + 1 <= c PROVE FALSE
      BY <1>2, <1>4
    <2>1. n * (q + 1) <= n * c /\ n * (q + 1) = n * q + n
      BY <1>2, <1>4, SMTT(30)
    <2>2. n * q \in Int /\ n * c \in Int
      BY <1>2, <1>4, SMTT(30)
    <2> QED
      BY <1>2, <1>4, <1>5, <2>1, <2>2
  <1>7. ~(c < q)
    <2> SUFFICES ASSUME c + 1 <= q PROVE FALSE
      BY <1>2, <1>4
    <2>1. n * (c + 1) <= n * q /\ n * (c + 1) = n * c + n
      BY <1>2, <1>4, SMTT(30)
    <2>2. n * q \in Int /\ n * c \in Int
      BY <1>2, <1>4, SMTT(30)
    <2> QED
      BY <1>2, <1>4, <1>5, <2>1, <2>2
  <1>8. q = c
    BY <1>2, <1>4, <1>6, <1>7
  <1> QED
    BY <1>1, <1>8 DEF NewPage, LbaOf, q, page, c, k, n

\* An lba in use is a number.
LEMMA UsedTypes ==
  ASSUME BlocksTypeOK
  PROVE  /\ \A p \in used : p \in Int /\ LbaOf(p) \in Nat
         /\ front \in Nat /\ curLba \in Nat /\ prepped \in Nat
         /\ \A t \in Threads : lba[t] \in Nat
         /\ "worker" \in Threads /\ "gc" \in Threads
  <1>1. \A p \in used : p \in Int /\ LbaOf(p) \in Lbas
    BY LbaOfType DEF BlocksTypeOK, Pages
  <1> QED
    BY <1>1 DEF BlocksTypeOK, Lbas, Threads

\* Steps that move no lba: the pop, the loads and the store of the size, a look
\* at the list of blocks, do_gc.
LEMMA QuietOrder ==
  ASSUME BlocksTypeOK, OrderInv,
         UNCHANGED <<front, lba, used, curLba, curPage, prepped, mapping, rev>>,
         raced' \in BOOLEAN, raced => raced',
         \A t \in Threads : pc'[t] \in Holds \cup {"ready"} =>
            pc[t] = pc'[t] \/ (pc[t] = "shrink" /\ pc'[t] = "advance"),
         ~raced' => ~(pc'["worker"] \in Unlocked /\ pc'["gc"] \in Unlocked)
  PROVE  OrderInv'
  <1> SUFFICES ASSUME ~raced' PROVE (LbasInOrder /\ ZeroUnwritten /\ PagesInOrder /\ InverseTables)'
    BY DEF OrderInv
  <1>1. LbasInOrder /\ ZeroUnwritten /\ PagesInOrder /\ InverseTables
    BY DEF OrderInv, BlocksTypeOK
  <1>2. "worker" \in Threads /\ "gc" \in Threads
    BY DEF Threads
  <1>3. LbasInOrder'
    BY <1>1, <1>2 DEF LbasInOrder, UsedBelow, Held, Holds, Taking, Loaded
  <1>4. ZeroUnwritten' /\ PagesInOrder' /\ InverseTables'
    BY <1>1, <1>2
    DEF ZeroUnwritten, PagesInOrder, InverseTables, Invalidates, NewPage, Holds, Taking, Loaded
  <1> QED
    BY <1>3, <1>4

\* The dequeue takes the front of the queue ...
LEMMA TakeOrder ==
  ASSUME BlocksTypeOK, OrderInv, NEW t \in Threads, TakeLba(t)
  PROVE  OrderInv'
  <1> SUFFICES ASSUME ~raced' PROVE (LbasInOrder /\ ZeroUnwritten /\ PagesInOrder /\ InverseTables)'
    BY DEF OrderInv
  <1>1. /\ pc[t] = "lba" /\ pc' = [pc EXCEPT ![t] = "shrink"]
        /\ lba' = [lba EXCEPT ![t] = front]
        /\ UNCHANGED <<front, used, curLba, curPage, prepped, mapping, rev, raced>>
    BY DEF TakeLba, At, Goto, vssdT, work, hist
  <1>2. LbasInOrder /\ ZeroUnwritten /\ PagesInOrder /\ InverseTables
    BY <1>1 DEF OrderInv
  <1>3. PagesInOrder' /\ InverseTables'
    BY <1>1, <1>2, UsedTypes DEF PagesInOrder, InverseTables, Invalidates, NewPage, BlocksTypeOK
  <1>4. \A u \in Threads : u # t => pc'[u] = pc[u] /\ lba'[u] = lba[u]
    BY <1>1 DEF BlocksTypeOK
  <1>5. pc'[t] = "shrink" /\ lba'[t] = front
    BY <1>1 DEF BlocksTypeOK
  <1>6. pc[t] \in Unlocked
    BY <1>1 DEF Dequeuing, Unmapped, Unlocked
  <1>7. CASE t = "worker"
    <2>1. pc["gc"] \notin Unlocked
      BY <1>2, <1>6, <1>7 DEF LbasInOrder, Held
    <2>2. pc'["gc"] = pc["gc"] /\ lba'["gc"] = lba["gc"]
      BY <1>4, <1>7 DEF Threads
    <2> QED
      BY <1>1, <1>2, <1>3, <1>5, <1>7, <2>1, <2>2, UsedTypes
      DEF LbasInOrder, UsedBelow, ZeroUnwritten, Held, Dequeuing, Unmapped, Unlocked, Holds,
          Taking, Loaded, Threads
  <1>8. CASE t = "gc"
    <2>1. pc["worker"] \notin Unlocked
      BY <1>2, <1>6, <1>8 DEF LbasInOrder, Held
    <2>2. pc'["worker"] = pc["worker"] /\ lba'["worker"] = lba["worker"]
      BY <1>4, <1>8 DEF Threads
    <2> QED
      BY <1>1, <1>2, <1>3, <1>5, <1>8, <2>1, <2>2, UsedTypes
      DEF LbasInOrder, UsedBelow, ZeroUnwritten, Held, Dequeuing, Unmapped, Unlocked, Holds,
          Taking, Loaded, Threads
  <1> QED
    BY <1>7, <1>8 DEF Threads

\* ... the loads and the store of the size leave the front alone ...
LEMMA SizeOrder ==
  ASSUME BlocksTypeOK, OrderInv, NEW t \in Threads, TakeSize(t) \/ StoreSize(t)
  PROVE  OrderInv'
  <1>1. UNCHANGED <<front, lba, used, curLba, curPage, prepped, mapping, rev, raced>>
    BY DEF TakeSize, StoreSize, vssdT, locals, work, hist
  <1>2. \/ pc' = pc
        \/ pc[t] = "size" /\ pc' = [pc EXCEPT ![t] = "lba"]
        \/ pc[t] = "shrink" /\ pc' = [pc EXCEPT ![t] = "advance"]
    BY DEF TakeSize, StoreSize, At, Goto
  <1>3. \A u \in Threads : pc'[u] \in Holds \cup {"ready"} =>
           pc[u] = pc'[u] \/ (pc[u] = "shrink" /\ pc'[u] = "advance")
    BY <1>2 DEF BlocksTypeOK, Holds, Taking, Loaded
  <1>4. \A u \in Threads : pc'[u] \in Unlocked => pc[u] \in Unlocked
    BY <1>2 DEF BlocksTypeOK, Unlocked, Unmapped, Dequeuing
  <1>5. ~raced => ~(pc["worker"] \in Unlocked /\ pc["gc"] \in Unlocked)
    BY DEF OrderInv, LbasInOrder, Held
  <1>6. "worker" \in Threads /\ "gc" \in Threads /\ raced \in BOOLEAN
    BY DEF Threads, BlocksTypeOK
  <1> QED
    BY <1>1, <1>3, <1>4, <1>5, <1>6, QuietOrder

\* ... and stores the next one, which nobody else has moved meanwhile.
LEMMA StoreOrder ==
  ASSUME BlocksTypeOK, OrderInv, NEW t \in Threads, StoreFront(t)
  PROVE  OrderInv'
  <1> SUFFICES ASSUME ~raced' PROVE (LbasInOrder /\ ZeroUnwritten /\ PagesInOrder /\ InverseTables)'
    BY DEF OrderInv
  <1>1. /\ pc[t] = "advance" /\ pc' = [pc EXCEPT ![t] = "map"]
        /\ front' = lba[t] + 1
        /\ UNCHANGED <<lba, used, curLba, curPage, prepped, mapping, rev, raced>>
    BY DEF StoreFront, At, Goto, locals, work, hist
  <1>2. LbasInOrder /\ ZeroUnwritten /\ PagesInOrder /\ InverseTables
    BY <1>1 DEF OrderInv
  <1>3. front' = front + 1 /\ lba[t] = front
    BY <1>1, <1>2 DEF LbasInOrder, Loaded
  <1>4. \A u \in Threads : u # t => pc'[u] = pc[u]
    BY <1>1 DEF BlocksTypeOK
  <1>5. pc'[t] = "map" /\ pc[t] \in Unlocked
    BY <1>1 DEF BlocksTypeOK, Dequeuing, Unmapped, Unlocked
  <1>6. PagesInOrder' /\ InverseTables'
    BY <1>1, <1>2, <1>4, <1>5, UsedTypes DEF PagesInOrder, InverseTables, Invalidates, NewPage
  <1>7. CASE t = "worker"
    <2>1. pc["gc"] \notin Unlocked /\ pc'["gc"] = pc["gc"]
      BY <1>2, <1>4, <1>5, <1>7 DEF LbasInOrder, Held, Threads
    <2> QED
      BY <1>1, <1>2, <1>3, <1>5, <1>6, <1>7, <2>1, UsedTypes
      DEF LbasInOrder, UsedBelow, ZeroUnwritten, Held, Dequeuing, Unmapped, Unlocked, Holds,
          Taking, Loaded, Threads
  <1>8. CASE t = "gc"
    <2>1. pc["worker"] \notin Unlocked /\ pc'["worker"] = pc["worker"]
      BY <1>2, <1>4, <1>5, <1>8 DEF LbasInOrder, Held, Threads
    <2> QED
      BY <1>1, <1>2, <1>3, <1>5, <1>6, <1>8, <2>1, UsedTypes
      DEF LbasInOrder, UsedBelow, ZeroUnwritten, Held, Dequeuing, Unmapped, Unlocked, Holds,
          Taking, Loaded, Threads
  <1> QED
    BY <1>7, <1>8 DEF Threads

\* The rest of alloc_block_v goes on with the lba it has.
LEMMA AfterStoreOrder ==
  ASSUME BlocksTypeOK, OrderInv, NEW t \in Threads,
         MapBlock(t) \/ LinkBlock(t) \/ HeadBlock(t)
  PROVE  OrderInv'
  <1> SUFFICES ASSUME ~raced' PROVE (LbasInOrder /\ ZeroUnwritten /\ PagesInOrder /\ InverseTables)'
    BY DEF OrderInv
  <1>1. /\ \/ pc[t] = "map" /\ pc' = [pc EXCEPT ![t] = "link"]
           \/ pc[t] = "link" /\ pc' = [pc EXCEPT ![t] = "head"]
           \/ pc[t] = "head" /\ pc' = [pc EXCEPT ![t] = "return"]
        /\ UNCHANGED <<front, lba, used, curLba, curPage, prepped, mapping, rev, raced>>
    BY DEF MapBlock, LinkBlock, HeadBlock, At, Goto, locals, work, hist
  <1>2. LbasInOrder /\ ZeroUnwritten /\ PagesInOrder /\ InverseTables
    BY <1>1 DEF OrderInv
  <1>4. \A u \in Threads : u # t => pc'[u] = pc[u]
    BY <1>1 DEF BlocksTypeOK
  <1>5. /\ pc[t] \in {"map", "link", "head"} /\ pc'[t] \in {"link", "head", "return"}
    BY <1>1 DEF BlocksTypeOK
  <1>6. PagesInOrder' /\ InverseTables'
    BY <1>1, <1>2, <1>4, <1>5, UsedTypes DEF PagesInOrder, InverseTables, Invalidates, NewPage
  <1>7. CASE t = "worker"
    <2>1. pc["gc"] \notin Unlocked /\ pc'["gc"] = pc["gc"]
      BY <1>2, <1>4, <1>5, <1>7 DEF LbasInOrder, Held, Dequeuing, Unmapped, Unlocked, Threads
    <2> QED
      BY <1>1, <1>2, <1>5, <1>6, <1>7, <2>1, UsedTypes
      DEF LbasInOrder, UsedBelow, ZeroUnwritten, Held, Dequeuing, Unmapped, Unlocked, Holds,
          Taking, Loaded, Threads
  <1>8. CASE t = "gc"
    <2>1. pc["worker"] \notin Unlocked /\ pc'["worker"] = pc["worker"]
      BY <1>2, <1>4, <1>5, <1>8 DEF LbasInOrder, Held, Dequeuing, Unmapped, Unlocked, Threads
    <2> QED
      BY <1>1, <1>2, <1>5, <1>6, <1>8, <2>1, UsedTypes
      DEF LbasInOrder, UsedBelow, ZeroUnwritten, Held, Dequeuing, Unmapped, Unlocked, Holds,
          Taking, Loaded, Threads
  <1> QED
    BY <1>7, <1>8 DEF Threads

\* A block that is ready gives its lba to the worker.
LEMMA BlockOrder ==
  ASSUME BlocksTypeOK, OrderInv, Prepped \/ NewBlock
  PROVE  OrderInv'
  <1> SUFFICES ASSUME ~raced' PROVE (LbasInOrder /\ ZeroUnwritten /\ PagesInOrder /\ InverseTables)'
    BY DEF OrderInv
  <1>1. /\ pc["worker"] = "return"
        /\ UNCHANGED <<front, lba, used, mapping, rev, raced>>
        /\ \/ /\ pc' = [pc EXCEPT !["worker"] = "pop"] /\ prepped' = prepped + 1
              /\ UNCHANGED <<curLba, curPage>>
           \/ /\ pc' = [pc EXCEPT !["worker"] = "ready"] /\ prepped = ReadPrep
              /\ curLba' = lba["worker"] /\ UNCHANGED prepped
    BY DEF Prepped, NewBlock, At, Goto, vssdT, locals, hist
  <1>2. LbasInOrder /\ ZeroUnwritten /\ PagesInOrder /\ InverseTables
    BY <1>1 DEF OrderInv
  <1>3. pc'["gc"] = pc["gc"] /\ pc'["worker"] \in {"pop", "ready"}
    BY <1>1, UsedTypes DEF BlocksTypeOK
  <1>4. LbasInOrder'
    <2>1. lba["worker"] < front /\ UsedBelow(lba["worker"])
      BY <1>1, <1>2 DEF LbasInOrder, Holds, Taking, Loaded
    <2>2. pc'["worker"] = "ready" => curLba' = lba["worker"]
      BY <1>1, UsedTypes DEF BlocksTypeOK
    <2> QED
      BY <1>1, <1>2, <1>3, <2>1, <2>2, UsedTypes
      DEF LbasInOrder, UsedBelow, Held, Dequeuing, Unmapped, Unlocked, Holds, Taking, Loaded,
          Threads
  <1>5. ZeroUnwritten'
    <2>1. prepped <= lba["worker"] /\ lba["worker"] < front /\ ReadPrep \in Nat \ {0}
      BY <1>1, <1>2, BlocksAssumption DEF LbasInOrder, ZeroUnwritten, Holds, Taking,
                                                   Loaded
    <2>2. pc'["worker"] = "ready" => prepped = ReadPrep /\ curLba' = lba["worker"]
      BY <1>1, UsedTypes DEF BlocksTypeOK
    <2> QED
      BY <1>1, <1>2, <1>3, <2>1, <2>2, UsedTypes DEF ZeroUnwritten, Holds, Taking, Loaded
  <1>6. PagesInOrder'
    <2>1. pc'["worker"] = "ready" => curLba' = lba["worker"]
      BY <1>1, UsedTypes DEF BlocksTypeOK
    <2>2. \A p \in used : LbaOf(p) < lba["worker"]
      BY <1>1, <1>2 DEF LbasInOrder, UsedBelow, Holds, Taking, Loaded
    <2> QED
      BY <1>1, <2>1, <2>2, UsedTypes DEF PagesInOrder
  <1>7. InverseTables'
    BY <1>1, <1>2 DEF InverseTables, Invalidates
  <1> QED
    BY <1>4, <1>5, <1>6, <1>7

\* The page a write hands out is not used yet.
LEMMA NewPageUnused ==
  ASSUME BlocksTypeOK, PageInv, PagesInOrder, pc["worker"] = "ready"
  PROVE  NewPage \notin used
  <1>1. LbaOf(NewPage) = curLba /\ NewPage \in Pages
    BY NewPageLba DEF PageInv
  <1> QED
    BY <1>1 DEF PagesInOrder, Pages

LEMMA WriteOrder ==
  ASSUME BlocksTypeOK, PageInv, OrderInv, NEW a \in Addrs, Write(a)
  PROVE  OrderInv'
  <1> SUFFICES ASSUME ~raced' PROVE (LbasInOrder /\ ZeroUnwritten /\ PagesInOrder /\ InverseTables)'
    BY DEF OrderInv
  <1>1. /\ pc["worker"] = "ready" /\ used' = used \cup {NewPage}
        /\ pc' = [pc EXCEPT !["worker"] = IF curPage + 1 = PPB THEN "pop" ELSE "ready"]
        /\ curPage' = curPage + 1 /\ mapping' = [mapping EXCEPT ![a] = NewPage]
        /\ UNCHANGED <<front, lba, curLba, prepped, raced>>
    BY DEF Write, At, Goto, locals
  <1>2. LbasInOrder /\ ZeroUnwritten /\ PagesInOrder /\ InverseTables
    BY <1>1 DEF OrderInv
  <1>3. pc'["gc"] = pc["gc"] /\ pc'["worker"] \in {"pop", "ready"}
    BY <1>1, UsedTypes DEF BlocksTypeOK
  <1>4. NewPage \in Pages /\ LbaOf(NewPage) = curLba /\ NewPage \notin used
    BY <1>1, <1>2, NewPageLba, NewPageUnused DEF PageInv
  <1>5. LbasInOrder'
    <2>1. UsedBelow(front)'
      BY <1>1, <1>2, <1>4 DEF LbasInOrder, UsedBelow
    <2>2. pc["gc"] \in Taking => UsedBelow(lba["gc"])' /\ curLba < lba["gc"]
      BY <1>1, <1>2, <1>4 DEF LbasInOrder, UsedBelow
    <2> QED
      BY <1>1, <1>2, <1>3, <2>1, <2>2
      DEF LbasInOrder, Held, Dequeuing, Unmapped, Unlocked, Holds, Taking, Loaded, Threads
  <1>6. ZeroUnwritten'
    BY <1>1, <1>2, <1>3 DEF ZeroUnwritten, Holds, Taking, Loaded
  <1>7. PagesInOrder'
    <2>1. NewPage' = NewPage + 1 /\ NewPage \in Int
      <3>1. curLba * PPB \in Int /\ curPage \in Int
        BY BlocksAssumption, SMTT(30) DEF BlocksTypeOK, Lbas
      <3> QED
        BY <1>1, <3>1 DEF NewPage
    <2> QED
      BY <1>1, <1>2, <2>1, UsedTypes DEF PagesInOrder
  <1>8. InverseTables'
    <2> SUFFICES ASSUME NEW b \in Addrs, Invalidates(b)'
                 PROVE  mapping'[b] \in used' /\ rev'[mapping'[b]] = b
      BY DEF InverseTables
    <2>1. rev' = [p \in Pages |-> CASE p = NewPage -> a
                                   [] Invalidates(a) /\ p = mapping[a] /\ p # NewPage -> 0
                                   [] OTHER -> rev[p]]
      BY DEF Write
    <2>2. CASE b = a
      <3>1. mapping'[b] = NewPage
        BY <1>1, <2>2 DEF BlocksTypeOK
      <3> QED
        BY <1>1, <1>4, <2>1, <2>2, <3>1
    <2>3. CASE b # a
      <3>1. mapping'[b] = mapping[b] /\ Invalidates(b)
        BY <1>1, <2>3 DEF BlocksTypeOK, Invalidates
      <3>2. mapping[b] \in used /\ rev[mapping[b]] = b /\ mapping[b] \in Pages
        BY <1>2, <3>1 DEF InverseTables, BlocksTypeOK
      <3>3. Invalidates(a) => mapping[b] # mapping[a]
        BY <1>2, <2>3, <3>2 DEF InverseTables
      <3>4. mapping[b] # NewPage
        BY <1>4, <3>2
      <3> QED
        BY <1>1, <2>1, <3>1, <3>2, <3>3, <3>4
    <2> QED
      BY <2>2, <2>3
  <1> QED
    BY <1>5, <1>6, <1>7, <1>8

LEMMA StepOrder == TypeInv /\ OrderInv /\ [Next]_vars => OrderInv'
  <1> SUFFICES ASSUME BlocksTypeOK, PageInv, OrderInv, [Next]_vars PROVE OrderInv'
    BY DEF TypeInv
  <1>1. CASE UNCHANGED vars
    BY <1>1, QuietOrder
    DEF vars, vssdT, locals, work, hist, BlocksTypeOK, OrderInv, LbasInOrder, Held
  <1>2. ASSUME NEW t \in Threads, PopFree(t) PROVE OrderInv'
    <2>1. UNCHANGED <<front, lba, used, curLba, curPage, prepped, mapping, rev>>
      BY <1>2 DEF PopFree, work
    <2>2. CASE freeList = <<>>
      BY <1>2, <2>1, <2>2, QuietOrder DEF PopFree, BlocksTypeOK, OrderInv, LbasInOrder, Held
    <2>3. CASE freeList # <<>>
      <3>1. /\ pc' = [pc EXCEPT ![t] = "size"]
            /\ raced' = (raced \/ \E u \in Threads \ {t} : pc[u] \in Unlocked)
        BY <1>2, <2>3 DEF PopFree, Goto
      <3>2. raced' \in BOOLEAN /\ (raced => raced')
        BY <3>1 DEF BlocksTypeOK
      <3>3. \A u \in Threads : pc'[u] = IF u = t THEN "size" ELSE pc[u]
        BY <3>1 DEF BlocksTypeOK
      <3>4. ~raced' => ~(pc'["worker"] \in Unlocked /\ pc'["gc"] \in Unlocked)
        <4>1. CASE t = "worker"
          <5>1. pc'["gc"] = pc["gc"] /\ "gc" \in Threads \ {t}
            BY <3>3, <4>1 DEF Threads
          <5> QED
            BY <3>1, <5>1
        <4>2. CASE t = "gc"
          <5>1. pc'["worker"] = pc["worker"] /\ "worker" \in Threads \ {t}
            BY <3>3, <4>2 DEF Threads
          <5> QED
            BY <3>1, <5>1
        <4> QED
          BY <4>1, <4>2 DEF Threads
      <3>5. \A u \in Threads : pc'[u] \in Holds \cup {"ready"} => pc[u] = pc'[u]
        BY <3>3 DEF Holds, Taking, Loaded
      <3> QED
        BY <2>1, <3>2, <3>4, <3>5, QuietOrder
    <2> QED
      BY <2>2, <2>3
  <1>3. ASSUME NEW a \in Addrs, WriteCrash(a) PROVE OrderInv'
    BY <1>3, QuietOrder DEF WriteCrash, vssdT, locals, work, hist, BlocksTypeOK, OrderInv,
                            LbasInOrder, Held
  <1>4. CASE GcStart \/ GcAllocated \/ GcVisit \/ GcErase \/ GcEnd
    <2>1. UNCHANGED <<front, lba, used, curLba, curPage, prepped, mapping, rev, raced>>
      BY <1>4 DEF GcStart, GcAllocated, GcVisit, GcErase, GcEnd, vssdT, locals, work, hist
    <2>2. \E p \in {"pop", "visit", "erase", "idle"} :
             pc' = [pc EXCEPT !["gc"] = p] \/ pc' = pc
      BY <1>4 DEF GcStart, GcAllocated, GcVisit, GcErase, GcEnd, Goto
    <2>3. \A u \in Threads : pc'[u] \in Holds \cup {"ready"} \cup Unlocked => pc[u] = pc'[u]
      BY <2>2 DEF BlocksTypeOK, Holds, Taking, Loaded, Dequeuing, Unmapped, Unlocked
    <2> QED
      BY <2>1, <2>3, QuietOrder DEF BlocksTypeOK, OrderInv, LbasInOrder, Held, Threads
  <1> QED
    BY <1>1, <1>2, <1>3, <1>4, TakeOrder, SizeOrder, StoreOrder, AfterStoreOrder,
       BlockOrder, WriteOrder
    DEF Next, Alloc

LEMMA OrderHolds == Spec => []OrderInv
  <1>1. Init => OrderInv
    <2> SUFFICES ASSUME Init PROVE LbasInOrder /\ ZeroUnwritten /\ PagesInOrder /\ InverseTables
      BY DEF OrderInv
    <2>1. pc["worker"] = "pop" /\ pc["gc"] = "idle" /\ used = {} /\ front = 0 /\ prepped = 0
          /\ \A t \in Threads : pc[t] \in {"pop", "idle"}
      BY DEF Init, Threads
    <2>2. \A a \in Addrs : ~Invalidates(a)
      BY DEF Init, Invalidates
    <2> QED
      BY <2>1, <2>2 DEF LbasInOrder, UsedBelow, ZeroUnwritten, PagesInOrder, InverseTables, Held,
                        Dequeuing, Unmapped, Unlocked, Holds, Taking, Loaded
  <1> QED
    BY <1>1, InitTypes, StepTypes, StepOrder, PTL DEF Spec

\* The tables of run_worker are each other's inverse, for any number of sectors,
\* for as long as two calls of alloc_block_v have not overlapped.
THEOREM TablesInverse == Spec => []RevInverse
  <1>1. OrderInv => RevInverse
    BY DEF OrderInv, InverseTables, Invalidates, RevInverse
  <1> QED
    BY <1>1, OrderHolds, PTL
-----------------------------------------------------------------------------
(* The counts of valid pages. *)

UsedIn(l)   == {p \in used : LbaOf(p) = l}
MappedIn(l) == {a \in Addrs : Invalidates(a) /\ LbaOf(mapping[a]) = l}
Mapped      == {a \in Addrs : Invalidates(a)}

Balanced == \A l \in Lbas :
    bitmap[l] => valid[l] = PPB - Cardinality(UsedIn(l)) + Cardinality(MappedIn(l))

CountInv == IsFiniteSet(Mapped) /\ (~raced => Balanced)

LEMMA FiniteCounts ==
  ASSUME BlocksTypeOK, IsFiniteSet(Mapped), NEW l
  PROVE  /\ IsFiniteSet(UsedIn(l)) /\ Cardinality(UsedIn(l)) \in Nat
         /\ IsFiniteSet(MappedIn(l)) /\ Cardinality(MappedIn(l)) \in Nat
  <1>1. IsFiniteSet(Pages)
    <2>1. NBlk * PPB - 1 \in Int
      BY BlocksAssumption, SMTT(30)
    <2> QED
      BY <2>1, FS_Interval DEF Pages
  <1>2. UsedIn(l) \subseteq Pages /\ MappedIn(l) \subseteq Mapped
    BY DEF UsedIn, MappedIn, Mapped, BlocksTypeOK
  <1>3. IsFiniteSet(UsedIn(l)) /\ IsFiniteSet(MappedIn(l))
    BY <1>1, <1>2, FS_Subset
  <1> QED
    BY <1>3, FS_CardinalityType

\* Steps that touch neither the tables nor the pages.
LEMMA QuietCounts ==
  ASSUME CountInv, UNCHANGED <<bitmap, valid, used, mapping>>,
         raced \in BOOLEAN, raced' \in BOOLEAN, raced => raced'
  PROVE  CountInv'
  BY DEF CountInv, Balanced, UsedIn, MappedIn, Mapped, Invalidates

\* A block that is mapped has none of its pages used.
LEMMA MapCounts ==
  ASSUME BlocksTypeOK, OrderInv, CountInv, NEW t \in Threads, MapBlock(t)
  PROVE  CountInv'
  <1>1. /\ pc[t] = "map" /\ valid' = [valid EXCEPT ![lba[t]] = PPB]
        /\ bitmap' = [bitmap EXCEPT ![lba[t]] = TRUE]
        /\ UNCHANGED <<used, mapping, raced>>
    BY DEF MapBlock, At, work, hist
  <1>2. Mapped' = Mapped
    BY <1>1 DEF Mapped, Invalidates
  <1>3. ASSUME ~raced', NEW l \in Lbas, bitmap'[l]
        PROVE  valid'[l] = PPB - Cardinality(UsedIn(l))' + Cardinality(MappedIn(l))'
    <2>1. UsedIn(l)' = UsedIn(l) /\ MappedIn(l)' = MappedIn(l)
      BY <1>1 DEF UsedIn, MappedIn, Invalidates
    <2>2. CASE l = lba[t]
      <3>1. UsedBelow(l) /\ InverseTables
        BY <1>1, <1>3, <2>2 DEF OrderInv, LbasInOrder, Holds, Taking, Threads
      <3>2. UsedIn(l) = {}
        BY <3>1, UsedTypes DEF UsedIn, UsedBelow
      <3>3. MappedIn(l) = {}
        BY <3>1, <3>2 DEF MappedIn, UsedIn, InverseTables
      <3>4. Cardinality(UsedIn(l)) = 0 /\ Cardinality(MappedIn(l)) = 0
        BY <3>2, <3>3, FS_EmptySet
      <3>5. valid'[l] = PPB /\ PPB \in Nat
        BY <1>1, <2>2, BlocksAssumption DEF BlocksTypeOK
      <3> QED
        BY <2>1, <3>4, <3>5
    <2>3. CASE l # lba[t]
      <3>1. bitmap[l] /\ valid'[l] = valid[l]
        BY <1>1, <1>3, <2>3 DEF BlocksTypeOK
      <3> QED
        BY <1>1, <1>3, <2>1, <3>1 DEF CountInv, Balanced
    <2> QED
      BY <2>2, <2>3
  <1> QED
    BY <1>2, <1>3 DEF CountInv, Balanced

\* do_gc takes the bitmap away with the count.
LEMMA EraseCounts ==
  ASSUME BlocksTypeOK, PageInv, CountInv, GcErase
  PROVE  CountInv'
  <1>1. /\ bitmap' = [bitmap EXCEPT ![PpaInd[cur]] = FALSE]
        /\ valid' = [valid EXCEPT ![PpaInd[cur]] = 0]
        /\ UNCHANGED <<used, mapping, raced>>
    BY DEF GcErase, work
  <1>2. Mapped' = Mapped
    BY <1>1 DEF Mapped, Invalidates
  <1>3. ASSUME ~raced', NEW l \in Lbas, bitmap'[l]
        PROVE  valid'[l] = PPB - Cardinality(UsedIn(l))' + Cardinality(MappedIn(l))'
    <2>1. UsedIn(l)' = UsedIn(l) /\ MappedIn(l)' = MappedIn(l)
      BY <1>1 DEF UsedIn, MappedIn, Invalidates
    <2>2. bitmap[l] /\ valid'[l] = valid[l]
      BY <1>1, <1>3 DEF BlocksTypeOK
    <2> QED
      BY <1>1, <1>3, <2>1, <2>2 DEF CountInv, Balanced
  <1> QED
    BY <1>2, <1>3 DEF CountInv, Balanced

\* A write counts the old page out and leaves the new one in.
LEMMA WriteCounts ==
  ASSUME BlocksTypeOK, PageInv, OrderInv, CountInv, NEW a \in Addrs, Write(a)
  PROVE  CountInv'
  <1>1. /\ pc["worker"] = "ready" /\ ~Dangling(a)
        /\ valid' = IF Invalidates(a) THEN [valid EXCEPT ![LbaOf(mapping[a])] = @ - 1] ELSE valid
        /\ mapping' = [mapping EXCEPT ![a] = NewPage]
        /\ used' = used \cup {NewPage}
        /\ UNCHANGED <<bitmap, raced>>
    BY DEF Write, At
  <1>2. IsFiniteSet(Mapped')
    <2>1. IsFiniteSet(Mapped \cup {a})
      BY FS_AddElement DEF CountInv
    <2>2. Mapped' \subseteq Mapped \cup {a}
      BY <1>1 DEF Mapped, Invalidates, BlocksTypeOK
    <2> QED
      BY <2>1, <2>2, FS_Subset
  <1>3. ASSUME ~raced', NEW l \in Lbas, bitmap'[l]
        PROVE  valid'[l] = PPB - Cardinality(UsedIn(l))' + Cardinality(MappedIn(l))'
    <2>1. LbasInOrder /\ ZeroUnwritten /\ PagesInOrder /\ Balanced /\ bitmap[l]
      BY <1>1, <1>3 DEF OrderInv, CountInv
    <2>2. /\ NewPage \in Pages /\ LbaOf(NewPage) = curLba /\ NewPage \notin used
      BY <1>1, <2>1, NewPageLba, NewPageUnused DEF PageInv
    <2>3. NewPage # None
      <3>1. LbaOf(0) = 0
        <4>1. PPB \in Nat \ {0}
          BY BlocksAssumption
        <4> QED
          BY <4>1, SMTT(30) DEF LbaOf
      <3>2. curLba > 0 /\ curLba \in Nat
        BY <1>1, <2>1, UsedTypes DEF ZeroUnwritten
      <3> QED
        BY <2>2, <3>1, <3>2 DEF None
    <2>4. IsFiniteSet(Mapped)
      BY DEF CountInv
    <2> DEFINE U == UsedIn(l)  M == MappedIn(l)
               here == IF l = curLba THEN 1 ELSE 0
               gone == IF a \in M THEN 1 ELSE 0
    <2>5. IsFiniteSet(U) /\ Cardinality(U) \in Nat /\ IsFiniteSet(M) /\ Cardinality(M) \in Nat
      BY <2>4, FiniteCounts
    <2>6. Cardinality(UsedIn(l)') = Cardinality(U) + here
      <3>1. UsedIn(l)' = IF l = curLba THEN U \cup {NewPage} ELSE U
        BY <1>1, <2>2 DEF UsedIn
      <3>2. NewPage \notin U
        BY <2>2 DEF UsedIn
      <3>3. Cardinality(U \cup {NewPage}) = Cardinality(U) + 1
        BY <2>5, <3>2, FS_AddElement
      <3> QED
        BY <2>5, <3>1, <3>3
    <2>7. Cardinality(MappedIn(l)') = Cardinality(M) - gone + here
      <3>1. MappedIn(l)' = IF l = curLba THEN (M \ {a}) \cup {a} ELSE M \ {a}
        <4>1. \A b \in Addrs : mapping'[b] = IF b = a THEN NewPage ELSE mapping[b]
          BY <1>1 DEF BlocksTypeOK
        <4> QED
          BY <2>2, <2>3, <4>1 DEF MappedIn, Invalidates
      <3>2. IsFiniteSet(M \ {a}) /\ Cardinality(M \ {a}) = Cardinality(M) - gone
        BY <2>5, FS_RemoveElement
      <3>3. Cardinality((M \ {a}) \cup {a}) = Cardinality(M \ {a}) + 1
        BY <3>2, FS_AddElement
      <3> QED
        BY <2>5, <3>1, <3>2, <3>3
    <2>8. valid'[l] = valid[l] - gone
      <3>1. valid \in [Lbas -> Int]
        BY DEF BlocksTypeOK
      <3>2. CASE Invalidates(a)
        <4>1. LbaOf(mapping[a]) \in Lbas
          BY LbaOfType DEF BlocksTypeOK
        <4>2. a \in M <=> l = LbaOf(mapping[a])
          BY <3>2 DEF MappedIn
        <4> QED
          BY <1>1, <3>1, <3>2, <4>1, <4>2
      <3>3. CASE ~Invalidates(a)
        <4>1. a \notin M
          BY <3>3 DEF MappedIn
        <4> QED
          BY <1>1, <3>1, <3>3, <4>1
      <3> QED
        BY <3>2, <3>3
    <2>9. valid[l] = PPB - Cardinality(U) + Cardinality(M)
      BY <2>1 DEF Balanced
    <2>10. PPB \in Nat /\ here \in Nat /\ gone \in Nat
      BY BlocksAssumption
    <2> HIDE DEF U, M, here, gone
    <2> QED
      BY <2>5, <2>6, <2>7, <2>8, <2>9, <2>10
  <1> QED
    BY <1>2, <1>3 DEF CountInv, Balanced

LEMMA StepCounts == TypeInv /\ OrderInv /\ CountInv /\ [Next]_vars => CountInv'
  <1> SUFFICES ASSUME BlocksTypeOK, PageInv, OrderInv, CountInv, [Next]_vars PROVE CountInv'
    BY DEF TypeInv
  <1>0. raced \in BOOLEAN
    BY DEF BlocksTypeOK
  <1>1. CASE UNCHANGED vars
    BY <1>0, <1>1, QuietCounts DEF vars, vssdT, work, hist
  <1>2. ASSUME NEW t \in Threads,
               \/ PopFree(t) \/ TakeSize(t) \/ TakeLba(t) \/ StoreSize(t) \/ StoreFront(t)
               \/ LinkBlock(t) \/ HeadBlock(t)
        PROVE  CountInv'
    <2>1. UNCHANGED <<bitmap, valid, used, mapping>>
      BY <1>2
      DEF PopFree, TakeSize, TakeLba, StoreSize, StoreFront, LinkBlock, HeadBlock, vssdT, work,
          hist
    <2>2. raced' \in BOOLEAN /\ (raced => raced')
      BY <1>0, <1>2
      DEF PopFree, TakeSize, TakeLba, StoreSize, StoreFront, LinkBlock, HeadBlock, hist
    <2> QED
      BY <1>0, <2>1, <2>2, QuietCounts
  <1>3. ASSUME NEW a \in Addrs, WriteCrash(a) PROVE CountInv'
    BY <1>0, <1>3, QuietCounts DEF WriteCrash, vssdT, work, hist
  <1>4. CASE Prepped \/ NewBlock
    BY <1>0, <1>4, QuietCounts DEF Prepped, NewBlock, vssdT, hist
  <1>5. CASE GcStart \/ GcAllocated \/ GcVisit \/ GcEnd
    BY <1>0, <1>5, QuietCounts DEF GcStart, GcAllocated, GcVisit, GcEnd, vssdT, work, hist
  <1> QED
    BY <1>1, <1>2, <1>3, <1>4, <1>5, MapCounts, EraseCounts, WriteCounts DEF Next, Alloc

\* An lba the worker has written to, or is about to, has its bitmap, or do_gc
\* has erased a block it took for the lba's.
Judged(l) == bitmap[l] \/ \E b \in erased : PpaInd[b] = l

JudgedInv ==
    /\ pc["worker"] \in {"link", "head", "return"} => Judged(lba["worker"])
    /\ pc["worker"] = "ready" => Judged(curLba)
    /\ \A a \in Addrs : Invalidates(a) => Judged(LbaOf(mapping[a]))

LEMMA JudgedStays ==
  ASSUME BlocksTypeOK, [Next]_vars, NEW l \in Lbas, Judged(l)
  PROVE  Judged(l)'
  <1>1. CASE GcErase
    BY <1>1 DEF GcErase, Judged, BlocksTypeOK
  <1>2. ASSUME NEW t \in Threads, MapBlock(t) PROVE Judged(l)'
    BY <1>2 DEF MapBlock, Judged, BlocksTypeOK, hist
  <1>3. ASSUME UNCHANGED <<bitmap, erased>> PROVE Judged(l)'
    BY <1>3 DEF Judged
  <1>4. ASSUME NEW t \in Threads,
               \/ PopFree(t) \/ TakeSize(t) \/ TakeLba(t) \/ StoreSize(t) \/ StoreFront(t)
               \/ LinkBlock(t) \/ HeadBlock(t)
        PROVE  Judged(l)'
    BY <1>3, <1>4
    DEF PopFree, TakeSize, TakeLba, StoreSize, StoreFront, LinkBlock, HeadBlock, vssdT, hist
  <1>5. CASE \/ UNCHANGED vars \/ Prepped \/ NewBlock \/ GcStart \/ GcAllocated \/ GcVisit \/ GcEnd
             \/ \E a \in Addrs : Write(a) \/ WriteCrash(a)
    BY <1>3, <1>5 DEF vars, Prepped, NewBlock, GcStart, GcAllocated, GcVisit, GcEnd, Write,
                      WriteCrash, vssdT, hist
  <1> QED
    BY <1>1, <1>2, <1>4, <1>5 DEF Next, Alloc

LEMMA StepJudged == TypeInv /\ JudgedInv /\ [Next]_vars => JudgedInv'
  <1> SUFFICES ASSUME BlocksTypeOK, PageInv, JudgedInv, [Next]_vars PROVE JudgedInv'
    BY DEF TypeInv
  <1>1. \A l \in Lbas : Judged(l) => Judged(l)'
    BY JudgedStays
  <1>2. /\ lba["worker"] \in Lbas /\ curLba \in Lbas
        /\ \A a \in Addrs : LbaOf(mapping[a]) \in Lbas
    BY LbaOfType DEF BlocksTypeOK, Threads
  <1> HIDE DEF Judged
  \* The steps that move the worker on, or a sector.
  <1>3. ASSUME UNCHANGED <<lba["worker"], curLba, mapping>>,
               pc'["worker"] \in {"link", "head", "return", "ready"} => pc'["worker"] = pc["worker"]
        PROVE  JudgedInv'
    BY <1>1, <1>2, <1>3 DEF JudgedInv, Invalidates, Judged, LbaOf
  <1>4. ASSUME NEW t \in Threads, Alloc(t) PROVE JudgedInv'
    <2>1. UNCHANGED <<curLba, mapping>>
      BY <1>4
      DEF Alloc, PopFree, TakeSize, TakeLba, StoreSize, StoreFront, MapBlock, LinkBlock,
          HeadBlock, work
    <2>2. \A a \in Addrs : Invalidates(a)' => Judged(LbaOf(mapping[a]))'
      BY <1>1, <1>2, <2>1 DEF JudgedInv, Invalidates
    <2>3. CASE t = "gc"
      <3>1. pc'["worker"] = pc["worker"] /\ lba'["worker"] = lba["worker"]
        BY <1>4, <2>3
        DEF Alloc, PopFree, TakeSize, TakeLba, StoreSize, StoreFront, MapBlock, LinkBlock,
            HeadBlock, Goto, locals,
            BlocksTypeOK, Threads
      <3> QED
        BY <1>3, <2>1, <3>1
    <2>4. CASE t = "worker" /\ MapBlock(t)
      <3>1. /\ bitmap' = [bitmap EXCEPT ![lba["worker"]] = TRUE] /\ lba' = lba
            /\ pc' = [pc EXCEPT !["worker"] = "link"]
        BY <2>4 DEF MapBlock, Goto, locals
      <3>2. Judged(lba["worker"])'
        BY <1>2, <3>1 DEF Judged, BlocksTypeOK
      <3>3. pc'["worker"] = "link"
        BY <3>1 DEF BlocksTypeOK, Threads
      <3> QED
        BY <2>1, <2>2, <3>2, <3>3 DEF JudgedInv
    <2>5. CASE t = "worker" /\ (LinkBlock(t) \/ HeadBlock(t))
      <3>1. /\ lba' = lba /\ pc["worker"] \in {"link", "head"}
            /\ pc'["worker"] \in {"head", "return"}
        BY <2>5 DEF LinkBlock, HeadBlock, At, Goto, locals, BlocksTypeOK, Threads
      <3> QED
        BY <1>1, <1>2, <2>1, <2>2, <3>1 DEF JudgedInv
    <2>6. CASE /\ t = "worker"
               /\ PopFree(t) \/ TakeSize(t) \/ TakeLba(t) \/ StoreSize(t) \/ StoreFront(t)
      <3>1. pc'["worker"] \notin {"link", "head", "return", "ready"}
        BY <2>6
        DEF PopFree, TakeSize, TakeLba, StoreSize, StoreFront, At, Goto, BlocksTypeOK, Threads
      <3> QED
        BY <2>2, <2>1, <3>1 DEF JudgedInv
    <2> QED
      BY <1>4, <2>3, <2>4, <2>5, <2>6 DEF Alloc, Threads
  <1>5. CASE Prepped
    <2>1. pc'["worker"] = "pop" /\ lba' = lba /\ UNCHANGED <<curLba, mapping>>
      BY <1>5 DEF Prepped, Goto, locals, BlocksTypeOK, Threads
    <2> QED
      BY <1>3, <2>1
  <1>6. CASE NewBlock
    <2>1. /\ pc["worker"] = "return" /\ pc'["worker"] = "ready"
          /\ curLba' = lba["worker"] /\ mapping' = mapping
      BY <1>6 DEF NewBlock, At, Goto, BlocksTypeOK, Threads
    <2> QED
      BY <1>1, <1>2, <2>1 DEF JudgedInv, Invalidates
  <1>7. ASSUME NEW a \in Addrs, Write(a) PROVE JudgedInv'
    <2>1. /\ pc["worker"] = "ready" /\ pc'["worker"] \in {"pop", "ready"} /\ curLba' = curLba
          /\ mapping' = [mapping EXCEPT ![a] = NewPage]
      BY <1>7 DEF Write, At, Goto, BlocksTypeOK, Threads
    <2>2. LbaOf(NewPage) = curLba
      BY <2>1, NewPageLba DEF PageInv
    <2>3. ASSUME NEW b \in Addrs, Invalidates(b)' PROVE Judged(LbaOf(mapping[b]))'
      <3>1. CASE b = a
        <4>1. LbaOf(mapping'[b]) = curLba
          BY <2>1, <2>2, <3>1 DEF BlocksTypeOK
        <4> QED
          BY <1>1, <1>2, <2>1, <4>1 DEF JudgedInv, Judged
      <3>2. CASE b # a
        <4>1. mapping'[b] = mapping[b]
          BY <2>1, <3>2 DEF BlocksTypeOK
        <4> QED
          BY <1>1, <1>2, <2>3, <4>1 DEF JudgedInv, Invalidates, Judged
      <3> QED
        BY <3>1, <3>2
    <2> QED
      BY <1>1, <1>2, <2>1, <2>3 DEF JudgedInv
  <1>8. ASSUME NEW a \in Addrs, WriteCrash(a) PROVE JudgedInv'
    BY <1>3, <1>8 DEF WriteCrash, locals, work
  <1>9. CASE GcStart \/ GcAllocated \/ GcVisit \/ GcErase \/ GcEnd
    <2>1. UNCHANGED <<lba, curLba, mapping, pc["worker"]>>
      BY <1>9 DEF GcStart, GcAllocated, GcVisit, GcErase, GcEnd, Goto, locals, work,
                  BlocksTypeOK, Threads
    <2> QED
      BY <1>3, <2>1
  <1>10. CASE UNCHANGED vars
    BY <1>3, <1>10 DEF vars, locals, work
  <1> QED
    BY <1>4, <1>5, <1>6, <1>7, <1>8, <1>9, <1>10 DEF Next

\* valid_pages_v is what do_gc is to judge by, for as long as two calls of
\* alloc_block_v have not overlapped; and where a write would find no bitmap,
\* do_gc has freed it, whatever has overlapped.
THEOREM CountsJudge == Spec => []ValidCounted
  <1>1. Init => CountInv /\ JudgedInv
    <2> SUFFICES ASSUME Init PROVE CountInv /\ JudgedInv
      OBVIOUS
    <2>1. \A a \in Addrs : ~Invalidates(a)
      BY DEF Init, Invalidates
    <2>2. Mapped = {} /\ IsFiniteSet(Mapped)
      BY <2>1, FS_EmptySet DEF Mapped
    <2>3. pc["worker"] = "pop" /\ \A l \in Lbas : ~bitmap[l]
      BY DEF Init, Threads
    <2> QED
      BY <2>1, <2>2, <2>3 DEF CountInv, Balanced, JudgedInv
  <1>2. CountInv /\ JudgedInv => ValidCounted
    BY DEF CountInv, Balanced, JudgedInv, Judged, ValidCounted, UsedIn, MappedIn, Dangling
  <1> QED
    BY <1>1, <1>2, InitTypes, StepTypes, StepCounts, StepJudged, OrderHolds, PTL DEF Spec
=============================================================================
