----------------------------- MODULE VssdBlocks -----------------------------
(***************************************************************************)
(* The flash blocks of one vSSD (vssd_code/vssd.c) under the two threads   *)
(* of rb_nexus.c that use them: run_worker, which executes writes, and     *)
(* run_gc, which runs do_gc when the switch grants it.  Only the pop of a  *)
(* free block is under a lock, so alloc_block_v is a step per unlocked     *)
(* access that the other thread can come between.                          *)
(*                                                                         *)
(* A physical block is a number, a page id is lba * PPB + page, as in      *)
(* mapping_table.  A vSSD has one channel (chl_vssd = 1).  Erase counts    *)
(* are never updated on this path, so add_list_v puts every block at the   *)
(* head and both lists are stacks.                                         *)
(***************************************************************************)
EXTENDS Integers, Sequences, FiniteSets

CONSTANTS
    NBlk,       \* max_addr: CHL_BLK_NUM, blocks of the channel and lbas
    PPB,        \* pages of a block (1024)
    GcThresh,   \* gc_thresh: do_gc takes blocks with fewer valid pages (256)
    ReadPrep,   \* read_prep: blocks written before the first request (50)
    Addrs,      \* sector addresses of the clients
    PpaInd,     \* ppa % max_addr, the index do_gc computes for a block
    Garbage     \* what malloc may leave in free_block_sz and tot_blocks

Blocks  == 1..NBlk
Lbas    == 0..(NBlk - 1)
Pages   == 0..(NBlk * PPB - 1)
Threads == {"worker", "gc"}
None    == 0        \* the NULL block, and the page id of an unmapped sector

ASSUME BlocksAssumption ==
    /\ NBlk \in Nat \ {0} /\ PPB \in Nat \ {0}
    /\ GcThresh \in Nat /\ ReadPrep \in Nat \ {0}
    /\ Addrs \subseteq Nat
    /\ PpaInd \in [Blocks -> Lbas]
    /\ Garbage \subseteq Nat

VARIABLES
    status,     \* the process: "run", "exit" (exit(0)) or "crash"
    \* vssd_t
    freeList,   \* free_block_list, head first
    freeSz,     \* free_block_sz
    totBlocks,  \* tot_blocks
    front,      \* lba_queue->front; element i of the queue is i
    size,       \* lba_queue->size
    blkOf,      \* mapping_table_v: [Lbas -> Blocks or None]
    valid,      \* valid_pages_v: [Lbas -> Int]
    bitmap,     \* bit_map_v: is there a bitmap? [Lbas -> BOOLEAN]
    allocHead,  \* head of alloc_block_list ...
    nextOf,     \* ... and the next pointers of its nodes
    \* alloc_block_v, per thread
    pc, blk, lba, sz,
    \* run_worker
    prepped, curLba, curPage, mapping, rev,
    \* do_gc
    cur,        \* cur_node
    \* History.
    surplus,    \* freeSz less the free blocks, at the start
    erased,     \* blocks do_gc has erased
    used,       \* pages the worker has handed to sectors
    raced       \* have two calls of alloc_block_v been past the lock together?

vssdT  == <<freeList, freeSz, totBlocks, front, size, blkOf, valid, bitmap, allocHead, nextOf>>
locals == <<blk, lba, sz>>
work   == <<prepped, curLba, curPage, mapping, rev>>
hist   == <<surplus, erased, used, raced>>
vars   == <<status, vssdT, pc, locals, work, cur, hist>>

LbaOf(page) == page \div PPB

\* alloc_regular_vssd: the lba queue holds every lba, prep_chl_v has put the
\* blocks that are not bad on the free list and counted them, on top of
\* CHL_BLK_NUM and of what malloc left.  run_worker starts preparing reads.
Init ==
    /\ status = "run"
    /\ freeList \in UNION {[1..n -> Blocks] : n \in 1..NBlk}
    /\ \A i, j \in DOMAIN freeList : i < j => freeList[i] > freeList[j]
    /\ \E g \in Garbage : freeSz = g + NBlk + Len(freeList)
    /\ \E g \in Garbage : totBlocks = g + Len(freeList)
    /\ front = 0 /\ size = NBlk
    /\ blkOf = [l \in Lbas |-> None]
    /\ valid = [l \in Lbas |-> 0]
    /\ bitmap = [l \in Lbas |-> FALSE]
    /\ allocHead = None /\ nextOf = [b \in Blocks |-> None]
    /\ pc = [t \in Threads |-> IF t = "worker" THEN "pop" ELSE "idle"]
    /\ blk = [t \in Threads |-> None]
    /\ lba = [t \in Threads |-> 0] /\ sz = [t \in Threads |-> 0]
    /\ prepped = 0 /\ curLba = 0 /\ curPage = 0
    /\ mapping = [a \in Addrs |-> None] /\ rev = [p \in Pages |-> 0]
    /\ cur = None
    /\ surplus = freeSz - Len(freeList)
    /\ erased = {} /\ used = {} /\ raced = FALSE

At(t, place) == status = "run" /\ pc[t] = place
Goto(t, place) == pc' = [pc EXCEPT ![t] = place]
Dequeuing == {"size", "lba", "shrink", "advance"}
Unmapped  == Dequeuing \cup {"map"}
Unlocked  == Unmapped \cup {"link", "head"}

----------------------------------------------------------------------------
(* alloc_block_v *)

\* Mutant of PopFree: the head of the list is not moved on.
PopPeek(t) ==
    /\ At(t, "pop")
    /\ freeList # <<>>
    /\ freeSz' = freeSz - 1
    /\ blk' = [blk EXCEPT ![t] = Head(freeList)]
    /\ Goto(t, "size")
    /\ UNCHANGED <<status, freeList, totBlocks, front, size, blkOf, valid, bitmap, allocHead,
                   nextOf, lba, sz, work, cur, hist>>

\* Under free_locks: pop_list_v and the count.  Without a block the process
\* exits, with the count already decremented.
PopFree(t) ==
    /\ At(t, "pop")
    /\ freeSz' = freeSz - 1
    /\ IF freeList = <<>>
       THEN status' = "exit" /\ UNCHANGED <<freeList, pc, blk, raced>>
       ELSE /\ blk' = [blk EXCEPT ![t] = Head(freeList)]
            /\ freeList' = Tail(freeList)
            /\ Goto(t, "size")
            /\ raced' = (raced \/ \E u \in Threads \ {t} : pc[u] \in Unlocked)
            /\ UNCHANGED status
    /\ UNCHANGED <<totBlocks, front, size, blkOf, valid, bitmap, allocHead, nextOf,
                   lba, sz, work, cur, surplus, erased, used>>

\* dequeue (queue.c:22-30): size is loaded once, and the front after it ...
TakeSize(t) ==
    /\ At(t, "size")
    /\ IF size = 0
       THEN status' = "exit" /\ UNCHANGED <<sz, pc>>
       ELSE sz' = [sz EXCEPT ![t] = size] /\ Goto(t, "lba") /\ UNCHANGED status
    /\ UNCHANGED <<vssdT, blk, lba, work, cur, hist>>

TakeLba(t) ==
    /\ At(t, "lba")
    /\ lba' = [lba EXCEPT ![t] = front]
    /\ Goto(t, "shrink")
    /\ UNCHANGED <<status, vssdT, blk, sz, work, cur, hist>>

\* ... and what was loaded is stored one off, in the same order; the ring never
\* gets to its end, because nothing is ever returned to it and its capacity is
\* DEVICE_BLK_NUM.
StoreSize(t) ==
    /\ At(t, "shrink")
    /\ size' = sz[t] - 1
    /\ Goto(t, "advance")
    /\ UNCHANGED <<status, freeList, freeSz, totBlocks, front, blkOf, valid, bitmap, allocHead,
                   nextOf, locals, work, cur, hist>>

StoreFront(t) ==
    /\ At(t, "advance")
    /\ front' = lba[t] + 1
    /\ Goto(t, "map")
    /\ UNCHANGED <<status, freeList, freeSz, totBlocks, size, blkOf, valid, bitmap, allocHead,
                   nextOf, locals, work, cur, hist>>

MapBlock(t) ==
    /\ At(t, "map")
    /\ blkOf' = [blkOf EXCEPT ![lba[t]] = blk[t]]
    /\ valid' = [valid EXCEPT ![lba[t]] = PPB]
    /\ bitmap' = [bitmap EXCEPT ![lba[t]] = TRUE]
    /\ Goto(t, "link")
    /\ UNCHANGED <<status, freeList, freeSz, totBlocks, front, size, allocHead, nextOf,
                   locals, work, cur, hist>>

\* add_list_v: the node's next pointer, then the head of the list.
LinkBlock(t) ==
    /\ At(t, "link")
    /\ nextOf' = [nextOf EXCEPT ![blk[t]] = allocHead]
    /\ Goto(t, "head")
    /\ UNCHANGED <<status, freeList, freeSz, totBlocks, front, size, blkOf, valid, bitmap,
                   allocHead, locals, work, cur, hist>>

HeadBlock(t) ==
    /\ At(t, "head")
    /\ allocHead' = blk[t]
    /\ Goto(t, "return")
    /\ UNCHANGED <<status, freeList, freeSz, totBlocks, front, size, blkOf, valid, bitmap,
                   nextOf, locals, work, cur, hist>>

Alloc(t) ==
    \/ PopFree(t)
    \/ TakeSize(t) \/ TakeLba(t) \/ StoreSize(t) \/ StoreFront(t)
    \/ MapBlock(t) \/ LinkBlock(t) \/ HeadBlock(t)

----------------------------------------------------------------------------
(* run_worker *)

\* A block for reads is prepared and the next is allocated; after the last,
\* the block for writes.
Prepped ==
    /\ At("worker", "return") /\ prepped < ReadPrep
    /\ prepped' = prepped + 1
    /\ Goto("worker", "pop")
    /\ UNCHANGED <<status, vssdT, locals, curLba, curPage, mapping, rev, cur, hist>>

NewBlock ==
    /\ At("worker", "return") /\ prepped = ReadPrep
    /\ curLba' = lba["worker"] /\ curPage' = 0
    /\ Goto("worker", "ready")
    /\ UNCHANGED <<status, vssdT, locals, prepped, mapping, rev, cur, hist>>

\* invalidate_page counts the old page out, then flips its bit in a bitmap
\* that has to be there.
Invalidates(a) == mapping[a] # None
Dangling(a) == Invalidates(a) /\ ~bitmap[LbaOf(mapping[a])]

WriteCrash(a) ==
    /\ At("worker", "ready")
    /\ Dangling(a)
    /\ status' = "crash"
    /\ UNCHANGED <<vssdT, pc, locals, work, cur, hist>>

NewPage == curLba * PPB + curPage

\* Mutant of Write: the page counter stays.
WriteSamePage(a) ==
    /\ At("worker", "ready")
    /\ ~Dangling(a)
    /\ mapping' = [mapping EXCEPT ![a] = NewPage]
    /\ rev' = [rev EXCEPT ![NewPage] = a]
    /\ used' = used \cup {NewPage}
    /\ UNCHANGED <<status, vssdT, pc, locals, prepped, curLba, curPage, cur, surplus, erased, raced>>

\* Mutant of Write: the old page is not invalidated.
WriteNoInvalidate(a) ==
    /\ At("worker", "ready")
    /\ ~Dangling(a)
    /\ mapping' = [mapping EXCEPT ![a] = NewPage]
    /\ rev' = [rev EXCEPT ![NewPage] = a]
    /\ used' = used \cup {NewPage}
    /\ curPage' = curPage + 1
    /\ Goto("worker", IF curPage + 1 = PPB THEN "pop" ELSE "ready")
    /\ UNCHANGED <<status, vssdT, locals, prepped, curLba, cur, surplus, erased, raced>>

\* Mutant of Write: a block is taken for full one page late.
WriteLate(a) ==
    /\ At("worker", "ready")
    /\ ~Dangling(a)
    /\ mapping' = [mapping EXCEPT ![a] = NewPage]
    /\ rev' = [p \in Pages |-> IF p = NewPage THEN a ELSE rev[p]]
    /\ used' = used \cup {NewPage}
    /\ curPage' = curPage + 1
    /\ Goto("worker", IF curPage = PPB THEN "pop" ELSE "ready")
    /\ UNCHANGED <<status, vssdT, locals, prepped, curLba, cur, surplus, erased, raced>>

\* The sector gets the next page of the current block; a full block is
\* written and the next one allocated.
Write(a) ==
    /\ At("worker", "ready")
    /\ ~Dangling(a)
    /\ valid' = IF Invalidates(a)
                THEN [valid EXCEPT ![LbaOf(mapping[a])] = @ - 1] ELSE valid
    /\ mapping' = [mapping EXCEPT ![a] = NewPage]
    /\ rev' = [p \in Pages |-> CASE p = NewPage -> a
                                 [] Invalidates(a) /\ p = mapping[a] /\ p # NewPage -> 0
                                 [] OTHER -> rev[p]]
    /\ used' = used \cup {NewPage}
    /\ curPage' = curPage + 1
    /\ Goto("worker", IF curPage + 1 = PPB THEN "pop" ELSE "ready")
    /\ UNCHANGED <<status, freeList, freeSz, totBlocks, front, size, blkOf, bitmap,
                   allocHead, nextOf, locals, prepped, curLba, cur, surplus, erased, raced>>

----------------------------------------------------------------------------
(* do_gc *)

\* The list is entered at its head of before the allocation of the block that
\* valid pages are to be copied to.
GcStart ==
    /\ At("gc", "idle")
    /\ cur' = allocHead
    /\ Goto("gc", "pop")
    /\ UNCHANGED <<status, vssdT, locals, work, hist>>

GcAllocated ==
    /\ At("gc", "return")
    /\ Goto("gc", "visit")
    /\ UNCHANGED <<status, vssdT, locals, work, cur, hist>>

\* cnt is never incremented, so gc_lim does not bound the walk.  The counts
\* are unsigned: one below zero is large.
GcVisit ==
    /\ At("gc", "visit") /\ cur # None
    /\ IF valid[PpaInd[cur]] \in 0..(GcThresh - 1)
       THEN Goto("gc", "erase") /\ UNCHANGED cur
       ELSE cur' = nextOf[cur] /\ UNCHANGED pc
    /\ UNCHANGED <<status, vssdT, locals, work, hist>>

\* No page is copied: 1L << 64 is zero in the build, so no bit is found set.
\* The block stays on the list of allocated blocks.
GcErase ==
    /\ At("gc", "erase")
    /\ erased' = erased \cup {cur}
    /\ bitmap' = [bitmap EXCEPT ![PpaInd[cur]] = FALSE]
    /\ valid' = [valid EXCEPT ![PpaInd[cur]] = 0]
    /\ cur' = nextOf[cur]
    /\ Goto("gc", "visit")
    /\ UNCHANGED <<status, freeList, freeSz, totBlocks, front, size, blkOf, allocHead, nextOf,
                   locals, work, surplus, used, raced>>

GcEnd ==
    /\ At("gc", "visit") /\ cur = None
    /\ Goto("gc", "idle")
    /\ UNCHANGED <<status, vssdT, locals, work, cur, hist>>

Next ==
    \/ \E t \in Threads : Alloc(t)
    \/ Prepped \/ NewBlock
    \/ \E a \in Addrs : Write(a) \/ WriteCrash(a)
    \/ GcStart \/ GcAllocated \/ GcVisit \/ GcErase \/ GcEnd

Spec == Init /\ [][Next]_vars

----------------------------------------------------------------------------
(* Properties *)

Held(t) == pc[t] \in Unlocked
Assigned(l) == blkOf[l] # None
Free == {freeList[i] : i \in DOMAIN freeList}

\* Every variable has its type.
BlocksTypeOK ==
    /\ status \in {"run", "exit", "crash"}
    /\ freeList \in Seq(Blocks) /\ freeSz \in Int /\ totBlocks \in Int
    /\ front \in Nat /\ size \in Nat
    /\ blkOf \in [Lbas -> Blocks \cup {None}]
    /\ valid \in [Lbas -> Int] /\ bitmap \in [Lbas -> BOOLEAN]
    /\ allocHead \in Blocks \cup {None}
    /\ nextOf \in [Blocks -> Blocks \cup {None}]
    /\ pc \in [Threads -> Unlocked \cup {"pop", "return", "ready", "idle", "visit", "erase"}]
    /\ blk \in [Threads -> Blocks \cup {None}]
    /\ lba \in [Threads -> Lbas] /\ sz \in [Threads -> Nat]
    /\ prepped \in Nat /\ curLba \in Lbas /\ curPage \in Nat
    /\ mapping \in [Addrs -> Pages] /\ rev \in [Pages -> Addrs \cup {0}]
    /\ cur \in Blocks \cup {None}
    /\ surplus \in Int /\ erased \subseteq Blocks /\ used \subseteq Pages
    /\ raced \in BOOLEAN

\* A physical block is in one place: free, held by a thread inside
\* alloc_block_v, or mapped by one lba.  The lock around pop_list_v alone
\* (vssd.c:143-147) has to guarantee it against everything the two threads
\* then do without one.
NoBlockTwice ==
    /\ \A i, j \in DOMAIN freeList : i # j => freeList[i] # freeList[j]
    /\ \A t \in Threads : Held(t) => blk[t] \notin Free
    /\ \A t, u \in Threads : t # u /\ Held(t) /\ Held(u) => blk[t] # blk[u]
    /\ \A t \in Threads : pc[t] \in Unmapped =>
          \A l \in Lbas : blkOf[l] # blk[t]
    /\ \A l \in Lbas : Assigned(l) => blkOf[l] \notin Free
    /\ \A l, m \in Lbas : l # m /\ Assigned(l) => blkOf[l] # blkOf[m]

\* free_block_sz follows the free list exactly, off by a constant: what the
\* constructor adds for the channel (vssd.c:74) on top of the count of the
\* blocks themselves (channel.c:1033).
FreeCounted == status = "run" => freeSz = surplus + Len(freeList)

\* The tables of run_worker are each other's inverse: the page of a sector is
\* noted as that sector's, so no two sectors share a page - unless two calls
\* of alloc_block_v overlapped and an lba may have been handed out twice.
RevInverse ==
    ~raced => \A a \in Addrs : mapping[a] # None => rev[mapping[a]] = a

\* With the same exception, valid_pages_v of an lba whose bitmap is there is
\* what do_gc is to judge by: all the pages less those handed to a sector that
\* has since been given another.  Where a sector's bitmap is not there, and its
\* next write ends the process (vssd.c:230), do_gc has freed it.
ValidCounted ==
    /\ ~raced => \A l \in Lbas : bitmap[l] =>
          valid[l] = PPB - Cardinality({p \in used : LbaOf(p) = l})
                         + Cardinality({a \in Addrs : Invalidates(a) /\ LbaOf(mapping[a]) = l})
    /\ \A a \in Addrs : Dangling(a) => \E b \in erased : PpaInd[b] = LbaOf(mapping[a])

----------------------------------------------------------------------------
(* What comments say, which the code does not do. *)

\* vssd.h:40: the lba queue is the "Set of LBAs that are still available", so
\* the two threads never hold the same one.
LbaHandedOutOnce ==
    pc["worker"] \in {"map", "link", "head"} /\ pc["gc"] \in {"map", "link", "head"}
        => lba["worker"] # lba["gc"]

\* vssd.c:253 and 257, "Valid page, read and copy" and "Redo mappings": no
\* sector is left in a block that do_gc has erased.
MappingsRedone ==
    \A a \in Addrs : Invalidates(a) => blkOf[LbaOf(mapping[a])] \notin erased

=============================================================================
