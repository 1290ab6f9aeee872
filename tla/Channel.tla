------------------------------ MODULE Channel ------------------------------
(***************************************************************************)
(* The allocator of whole blocks of one channel (vssd_code/channel.c) with *)
(* its block lists (blklist.c) and its queue of lbas (queue.c), used by    *)
(* one thread that frees and writes only what it was given.                *)
(***************************************************************************)
EXTENDS LbaQueue, BlkList, FiniteSets

CONSTANTS
    Blks,       \* blocks that are not reserved for superblocks, numbered in
                \* the order in which erase_all_blk_chl visits them
    ChlBlks,    \* CHL_BLK_NUM: the channel's lbas are 0..ChlBlks-1
    ZeroPpa,    \* the block with physical address 0, when it is in this channel
    Data,       \* what the owner writes to a block
    Failing,    \* the blocks whose erase or write may fail: a bound for TLC
    EraseWrap   \* erase counts are kept in a byte (256)

NoBlock == 0
Erased == "erased"
Unknown == "unknown"    \* what was there before, or what a failed command left

ASSUME ChannelAssumption ==
    /\ Blks \in Nat /\ ChlBlks \in Nat \ {0} /\ EraseWrap \in Nat \ {0}
    /\ Blks <= ChlBlks /\ ChlBlks <= Capacity
    /\ Elements = 0..(ChlBlks - 1)
    /\ ZeroPpa \in 0..Blks /\ Failing \subseteq 1..Blks
    /\ Erased \notin Data /\ Unknown \notin Data

Blocks == 1..Blks
Lbas == Elements

VARIABLES
    bad,            \* the bad-block file, when it is read: its blocks, and
    bad_super,      \* whether it has all of the channel's superblocks
    pc, i,          \* the loop of alloc_channel or free_channel under way
    chl_allocated,
    table,          \* mapping_table # NULL: an earlier channel made it
    mapping,        \* mapping_table, the channel's part
    made,           \* lba_queue[chl_id] # NULL
    free_blk, alloc_blk,    \* the lists, from the head: [ppa, data]
    dangling,       \* the lists whose head points to freed memory
    ers_cnt,
    flash,          \* the content of each block, while the channel is allocated
    outcome,        \* how the calling thread ended
    \* The caller, and history.
    owned,          \* lbas it was given and has not freed
    written,        \* what it has written to each of them
    reused,         \* the channel was freed before
    zeroed          \* its part of mapping_table was set to zero

lists   == <<free_blk, alloc_blk>>
caller  == <<owned, written>>
history == <<reused, zeroed>>
device  == <<flash, ers_cnt>>
tables  == <<table, mapping, made>>
vars    == <<queueVars, bad, bad_super, pc, i, chl_allocated, tables, lists,
             dangling, device, outcome, caller, history>>

Init ==
    /\ QueueInit
    /\ bad \in SUBSET Blocks /\ bad_super \in BOOLEAN
    /\ pc = "idle" /\ i = 0 /\ chl_allocated = FALSE
    /\ table \in BOOLEAN /\ mapping = [l \in Lbas |-> NoBlock] /\ made = FALSE
    /\ free_blk = <<>> /\ alloc_blk = <<>> /\ dangling = {}
    /\ ers_cnt = [b \in Blocks |-> 0] /\ flash = [b \in Blocks |-> Unknown]
    /\ outcome = "none"
    /\ owned = {} /\ written = [l \in Lbas |-> Erased]
    /\ reused = FALSE /\ zeroed = FALSE

Idle == pc = "idle" /\ outcome = "none"

----------------------------------------------------------------------------
(* The device *)

\* What a block may hold after it was erased or written: both commands return
\* whether they worked, and nothing looks at it (write_page passes it on).
After(b, content) == {content} \cup (IF b \in Failing THEN {Unknown} ELSE {})

EraseBlock(b) == \E c \in After(b, Erased) : flash' = [flash EXCEPT ![b] = c]
WriteData(b, d) == \E c \in After(b, d) : flash' = [flash EXCEPT ![b] = c]

----------------------------------------------------------------------------
(* The channel *)

\* alloc_channel of a channel that is free, up to erase_all_blk_chl.
AllocChannel ==
    /\ Idle /\ ~chl_allocated
    /\ chl_allocated' = TRUE
    /\ ers_cnt' = [b \in Blocks |-> 0]
    /\ pc' = "read" /\ i' = 1
    /\ UNCHANGED <<queueVars, bad, bad_super, tables, lists, dangling, flash,
                   outcome, caller, history>>

\* bb_ben.bin is read anew by every call, and nothing here changes it.  A file
\* that cannot be read gives (void*)ERROR, which is not NULL and is read or
\* freed; a short one ends the process.
ReadBadBlocks ==
    /\ pc = "read" /\ outcome = "none"
    /\ \/ pc' = "erase" /\ UNCHANGED outcome
       \/ outcome' \in {"bad pointer", "short file"} /\ UNCHANGED pc
    /\ UNCHANGED <<queueVars, bad, bad_super, i, chl_allocated, tables, lists,
                   dangling, device, caller, history>>

\* One block of erase_all_blk_chl.  The list's first node was freed by
\* free_channel if the channel was freed with blocks on it.
EraseOne ==
    /\ pc = "erase" /\ outcome = "none" /\ i <= Blks
    /\ i' = i + 1
    /\ IF i \in bad
       THEN UNCHANGED <<flash, free_blk, outcome>>
       ELSE /\ EraseBlock(i)
            /\ IF "free" \in dangling
               THEN outcome' = "undefined" /\ UNCHANGED free_blk
               ELSE /\ free_blk' = AddFree(free_blk, [ppa |-> i, data |-> 0])
                    /\ UNCHANGED outcome
    /\ UNCHANGED <<queueVars, bad, bad_super, pc, chl_allocated, tables,
                   alloc_blk, dangling, ers_cnt, caller, history>>

\* Mutant of EraseSuperblocks: bad superblocks are not skipped.
EraseAllSuperblocks ==
    /\ pc = "erase" /\ outcome = "none" /\ i > Blks
    /\ outcome' = "hang"
    /\ UNCHANGED <<queueVars, bad, bad_super, pc, i, chl_allocated, tables,
                   lists, dangling, device, caller, history>>

\* The loop over the planes of a good superblock assigns in its condition and
\* never ends.
EraseSuperblocks ==
    /\ pc = "erase" /\ outcome = "none" /\ i > Blks /\ ~bad_super
    /\ outcome' = "hang"
    /\ UNCHANGED <<queueVars, bad, bad_super, pc, i, chl_allocated, tables,
                   lists, dangling, device, caller, history>>

\* init_mapping_table: 0xFF the first time, for any channel, and zero later.
InitMappingTable ==
    /\ pc = "erase" /\ outcome = "none" /\ i > Blks /\ bad_super
    /\ mapping' = [l \in Lbas |-> IF table THEN ZeroPpa ELSE NoBlock]
    /\ table' = TRUE /\ made' = TRUE /\ zeroed' = table
    /\ pc' = IF made THEN "idle" ELSE "fill"
    /\ i' = 0
    /\ UNCHANGED <<queueVars, bad, bad_super, chl_allocated, lists, dangling,
                   device, outcome, caller, reused>>

FillQueue ==
    /\ pc = "fill"
    /\ Enqueue(i)
    /\ i' = i + 1
    /\ pc' = IF i + 1 = ChlBlks THEN "idle" ELSE "fill"
    /\ UNCHANGED <<bad, bad_super, chl_allocated, tables, lists, dangling,
                   device, outcome, caller, history>>

\* free_channel touches no block.  What they hold is not followed from here on:
\* nobody owns them, and those that can be given away are erased before.
FreeChannel ==
    /\ Idle /\ chl_allocated
    /\ chl_allocated' = FALSE /\ pc' = "drain"
    /\ owned' = {} /\ written' = [l \in Lbas |-> Erased] /\ reused' = TRUE
    /\ flash' = [b \in Blocks |-> Unknown]
    /\ UNCHANGED <<queueVars, bad, bad_super, i, tables, lists, dangling,
                   ers_cnt, outcome, zeroed>>

\* Lbas are dequeued until there is none; then the nodes of both lists are
\* freed, and their heads are left as they are.
DrainQueue ==
    /\ pc = "drain"
    /\ Dequeue
    /\ IF ret' = Refused
       THEN /\ pc' = "idle"
            /\ free_blk' = <<>> /\ alloc_blk' = <<>>
            /\ dangling' = {l \in {"free", "alloc"} :
                              IF l = "free" THEN free_blk # <<>> ELSE alloc_blk # <<>>}
            /\ outcome' = IF dangling = {} THEN "none" ELSE "undefined"
       ELSE UNCHANGED <<pc, lists, dangling, outcome>>
    /\ UNCHANGED <<bad, bad_super, i, chl_allocated, tables, device, caller,
                   history>>

----------------------------------------------------------------------------
(* Blocks *)

\* alloc_block without a free block, and alloc_superblock: a channel that came
\* to be allocated has no good superblock.
NoFreeBlock ==
    /\ Idle /\ chl_allocated
    /\ free_blk = <<>>
    /\ outcome' = "no block"
    /\ UNCHANGED <<queueVars, bad, bad_super, pc, i, chl_allocated, tables,
                   lists, dangling, device, caller, history>>

AllocSuperblock ==
    /\ Idle /\ chl_allocated
    /\ outcome' = "no block"
    /\ UNCHANGED <<queueVars, bad, bad_super, pc, i, chl_allocated, tables,
                   lists, dangling, device, caller, history>>

\* Mutant of AllocBlock: the block stays on the free list.
AllocPeek ==
    /\ Idle /\ chl_allocated /\ free_blk # <<>>
    /\ Dequeue
    /\ IF ret' = Refused
       THEN outcome' = "no lba" /\ UNCHANGED <<mapping, lists, caller>>
       ELSE /\ mapping' = [mapping EXCEPT ![ret'] = Head(free_blk).ppa]
            /\ alloc_blk' = AddAlloc(alloc_blk, Head(free_blk))
            /\ owned' = owned \cup {ret'}
            /\ UNCHANGED <<outcome, free_blk, written>>
    /\ UNCHANGED <<bad, bad_super, pc, i, chl_allocated, table, made, dangling,
                   device, history>>

AllocBlock ==
    /\ Idle /\ chl_allocated /\ free_blk # <<>>
    /\ free_blk' = Tail(free_blk)
    /\ Dequeue
    /\ IF ret' = Refused
       THEN outcome' = "no lba" /\ UNCHANGED <<mapping, alloc_blk, caller>>
       ELSE /\ mapping' = [mapping EXCEPT ![ret'] = Head(free_blk).ppa]
            /\ alloc_blk' = AddAlloc(alloc_blk, Head(free_blk))
            /\ owned' = owned \cup {ret'}
            /\ UNCHANGED <<outcome, written>>
    /\ UNCHANGED <<bad, bad_super, pc, i, chl_allocated, table, made, dangling,
                   device, history>>

\* Mutant of Counted: the count is an int.
CountedOn(n) == n + 1
Counted(n) == (n + 1) % EraseWrap

\* Mutant of FreeBlock: the block keeps its mapping.
FreeKeepingMapping(l) ==
    /\ Idle /\ l \in owned
    /\ Enqueue(l)
    /\ EraseBlock(mapping[l])
    /\ ers_cnt' = [ers_cnt EXCEPT ![mapping[l]] = Counted(@)]
    /\ owned' = owned \ {l} /\ written' = [written EXCEPT ![l] = Erased]
    /\ alloc_blk' = Without(alloc_blk, mapping[l])
    /\ free_blk' = AddFree(free_blk, [ppa |-> mapping[l], data |-> ers_cnt'[mapping[l]]])
    /\ UNCHANGED <<bad, bad_super, pc, i, chl_allocated, tables, dangling,
                   outcome, history>>

\* free_block.  The node is used before it is compared with NULL.
FreeBlock(l) ==
    /\ Idle /\ l \in owned
    /\ Enqueue(l)
    /\ EraseBlock(mapping[l])
    /\ ers_cnt' = [ers_cnt EXCEPT ![mapping[l]] = Counted(@)]
    /\ mapping' = [mapping EXCEPT ![l] = NoBlock]
    /\ owned' = owned \ {l} /\ written' = [written EXCEPT ![l] = Erased]
    /\ IF Places(alloc_blk, mapping[l]) = {}
       THEN outcome' = "crash" /\ UNCHANGED lists
       ELSE /\ alloc_blk' = Without(alloc_blk, mapping[l])
            /\ free_blk' = AddFree(free_blk,
                              [ppa |-> mapping[l], data |-> ers_cnt'[mapping[l]]])
            /\ UNCHANGED outcome
    /\ UNCHANGED <<bad, bad_super, pc, i, chl_allocated, table, made, dangling,
                   history>>

\* write_block, write_page and write_data to a block the caller was given.
WriteBlock(l, d) ==
    /\ Idle /\ l \in owned
    /\ WriteData(mapping[l], d)
    /\ written' = [written EXCEPT ![l] = d]
    /\ UNCHANGED <<queueVars, bad, bad_super, pc, i, chl_allocated, tables, lists,
                   dangling, ers_cnt, outcome, owned, history>>

Next ==
    \/ AllocChannel \/ ReadBadBlocks \/ EraseOne \/ EraseSuperblocks
    \/ InitMappingTable \/ FillQueue
    \/ FreeChannel \/ DrainQueue
    \/ NoFreeBlock \/ AllocSuperblock \/ AllocBlock
    \/ \E l \in Lbas : FreeBlock(l) \/ \E d \in Data : WriteBlock(l, d)

Spec == Init /\ [][Next]_vars

\* A call that has begun goes on.
Loops ==
    \/ ReadBadBlocks \/ EraseOne \/ EraseSuperblocks
    \/ InitMappingTable \/ FillQueue \/ DrainQueue
FairSpec == Spec /\ WF_vars(Loops)

\* get_lba_addr: the first lba that names the block.
LbaOf(b) == CHOOSE l \in Lbas : mapping[l] = b /\ \A m \in Lbas : m < l => mapping[m] # b

----------------------------------------------------------------------------
(* Properties *)

Nodes == [ppa : Blocks, data : 0..(EraseWrap - 1)]

\* Every variable has its type, and the caller owns mapped lbas only.
ChannelTypeOK ==
    /\ bad \subseteq Blocks /\ bad_super \in BOOLEAN /\ chl_allocated \in BOOLEAN
    /\ pc \in {"idle", "read", "erase", "fill", "drain"} /\ i \in 0..(ChlBlks + 1)
    /\ table \in BOOLEAN /\ made \in BOOLEAN /\ mapping \in [Lbas -> Blocks \cup {NoBlock}]
    /\ free_blk \in Seq(Nodes) /\ alloc_blk \in Seq(Nodes)
    /\ dangling \subseteq {"free", "alloc"}
    /\ ers_cnt \in [Blocks -> 0..(EraseWrap - 1)]
    /\ flash \in [Blocks -> Data \cup {Erased, Unknown}]
    /\ outcome \in {"none", "no block", "no lba", "crash", "hang", "undefined",
                   "bad pointer", "short file"}
    /\ owned \subseteq Lbas /\ written \in [Lbas -> Data \cup {Erased}]
    /\ \A l \in owned : mapping[l] \in Blocks
    /\ reused \in BOOLEAN /\ zeroed \in BOOLEAN

InUse == Idle /\ chl_allocated

\* Every good block of the channel is on exactly one list, once; those on the
\* list of allocated blocks are the ones the caller's lbas name, one each:
\* two lists, the table and the caller keep step over any sequence of
\* allocations and frees (channel.c:179-280).
BlocksPlaced ==
    InUse =>
        /\ \A b \in Blocks :
              Cardinality(Places(free_blk, b)) + Cardinality(Places(alloc_blk, b))
                = IF b \in bad THEN 0 ELSE 1
        /\ \A b \in Blocks :
              Cardinality({l \in owned : mapping[l] = b}) = Cardinality(Places(alloc_blk, b))

\* Until the channel is freed, every lba is either waiting in the queue, once,
\* or with the caller (channel.c:212, 274; queue.c).
LbasPlaced ==
    InUse /\ ~reused =>
        \A l \in Lbas :
            Cardinality({k \in 1..size : Contents[k] = l}) = IF l \in owned THEN 0 ELSE 1

\* Both lists stay sorted by the erase counts of their blocks, when a count
\* wraps too, and a node's count is its block's (blklist.c:17-49, 134-165).
ListsByWear ==
    InUse =>
        /\ \A j, k \in DOMAIN free_blk : j < k => free_blk[j].data >= free_blk[k].data
        /\ \A j, k \in DOMAIN alloc_blk : j < k => alloc_blk[j].data <= alloc_blk[k].data
        /\ \A j \in DOMAIN free_blk : free_blk[j].data = ers_cnt[free_blk[j].ppa]
        /\ \A j \in DOMAIN alloc_blk : alloc_blk[j].data = ers_cnt[alloc_blk[j].ppa]

\* free_block finds the node of every block its caller owns, alloc_block never
\* has a block without an lba for it, and no list is walked through memory that
\* was freed, unless the channel was freed before (its queue is filled once
\* only, and free_channel keeps the heads: channel.c:79-97, 111, 212, 275-277).
NeverFails == outcome # "crash" /\ (outcome \in {"no lba", "undefined"} => reused)

\* What a block is read as is what was written to it since it was allocated,
\* or erased, whatever happens to other blocks, unless a command on it failed,
\* which the allocator does not notice (channel.c:266, 631, 901).
ReadsBack ==
    InUse =>
        \A l \in owned : flash[mapping[l]] \in After(mapping[l], written[l])

\* As long as the table has not been zeroed, get_lba_addr is the inverse of
\* get_ppa_addr for the caller's lbas.
LbaFound ==
    InUse /\ ~zeroed =>
        \A l \in owned : LbaOf(mapping[l]) = l

\* alloc_channel and free_channel return: the loops over blocks, lbas and queue
\* end.  Only three things keep them from it, each where it can happen: the file
\* of bad blocks while it is read, a good superblock, and a list whose head was
\* freed (channel.c:79-97, 808-949, init_mapping_table).
CallsReturn ==
    pc # "idle" ~> \/ pc = "idle"
                   \/ outcome = "hang" /\ pc = "erase" /\ ~bad_super
                   \/ outcome = "undefined" /\ pc = "erase" /\ reused
                   \/ outcome \in {"bad pointer", "short file"} /\ pc = "read"
=============================================================================
