# RackBlox in TLA+

RackBlox joins a programmable switch and the storage servers of a rack: the
switch knows which virtual SSD (vSSD) is collecting garbage, redirects reads to
its replica, and lets a vSSD and its replica collect at different times. This
directory holds TLA+ models of that system, the TLC configurations that check
them and theorems about them checked by TLAPS. `PROJECT.json` is the index:
which definition stands for which lines, which run checks what, which mutation
of the code each property catches, which hazards the properties are for.

## 1. Inventory

| part | state it keeps | operations | talks to |
|---|---|---|---|
| Switch (`p4_code/basic_switch/basic_rackblox.p4`) | one bit per vSSD in `replica_registers` and again in `destination_registers`; the packets on the recirculation port | one pass of the ingress pipeline per packet, by type | clients and servers, by packets |
| vSSD process (`vssd_code/rb_nexus.c`) | four queues (`dev_q`, `reply_q`, `gc_q`, `gcresp_q`), each with a lock; the sliding latency window; `idle_time` | threads `run_net`, `run_worker`, `run_gc`; expiry | the server, by UDP; the block layer, by calls |
| Block layer (`vssd_code/vssd.c`) | lba-to-ppa table, free and allocated block lists, invalid-page counts, `free_block_sz` | `alloc_block_v`, `write_block_v`, `read_page_v`, `invalidate_page`, `do_gc`, `ret_blks_v` | called by `run_worker` and `run_gc` without a common lock |
| lba queue (`vssd_code/queue.c`) | a ring of lbas | `enqueue`, `dequeue`, `front` | block layer |
| Channel allocator (`vssd_code/channel.c`, `blklist.c`) | per channel: free, allocated and dead block lists, erase counts, lba queue, its part of the address table | allocate and free a block or a superblock, erase, read and write | block layer, vendor device calls |
| Server (`server_code/main.c`, `util.h`) | `lcore_conf`; one receive buffer, one counter `pkt_recv` for all lcores | set up ports and queues; forward a packet from the switch to a vSSD and back | switch (DPDK) and vSSDs (UDP) |
| Client (`client_code/main.c`, `util.h`, `trace.c`) | `lcore_conf`; the trace, `pkt_sent`, `pkt_recv`, the latency array | send the trace; count replies | switch (DPDK) |
| NVMe tool (`parser_nexus.c`, `cmd.c`, `parser.c`, `usage.c`) | the bad-block file; in a process: buffers, files, the device | forty-two commands: registers, queues, features, firmware, pages; scanning for bad blocks, erasing, testing the memory | the device, by ioctl; `channel.c`, by the bad-block file |
| Scripts (`scripts/`) | none | start, kill and restart the processes, run the tests | all |

What is hard in it:

* *GC coordination.* A grant takes a check in one pass of the pipeline and a
  write in a later one. Grants, denials and finishes of several rounds of the
  same vSSD are under way together, because `run_gc` asks again in every
  iteration while the free ratio is low and because clients may send GC packets
  too. Only a GC_FINISH clears a mark.
* *Faults.* Everything between switch and vSSD crosses UDP and a buffer two
  lcores share; vSSD threads end at their expiry, one by one; processes are
  killed and restarted while the switch keeps its bits.
* *The data path of a vSSD.* The worker and the GC thread use the same tables
  without a common lock, a block's pages are renumbered by conversions between
  lba and ppa, counters move in one function and not in its inverse.
* *Failing steps.* Each command of the NVMe tool acquires buffers, files and the
  device and undoes them by hand when one fails; a failed or partial command leaves
  a file the next one trusts, and an erase cannot be taken back.
* *Order.* `dev_q` is a priority queue whose priorities mix a measured latency
  and the clock.

What makes each part correct:

* switch: both tables agree; a vSSD is marked only while a granted round of it
  exists; a read is handed to a collecting vSSD only when its replica collects;
* vSSD: every request is answered once; every grant leads to one finish;
* block layer: a block is free, allocated or dead, never two of these; a
  mapped page is in an allocated block; what is freed is counted;
* lba queue: first in, first out, and full exactly at its capacity;
* channel allocator: a good block is on one list, once; an lba waits or is used; a
  block is read as it was written;
* server: what goes out is what came in; client: stops when the last reply is in; both: every
  queue of a port is polled, by one lcore;
* NVMe tool: what was acquired is released, what failed is reported and what is written is what
  the device gave, but for the functions named, and no bad block that is known is erased.

## 2. Modules

| module | models | uses |
|---|---|---|
| `RackNet` | packet types, the pairing of vSSDs, packets in flight | |
| `RackSwitch` | the ingress pipeline | `RackNet` |
| `RackVssd` | the threads and queues of a vSSD process | `RackNet` |
| `Rack` | switch, vSSDs, clients and the server's faults together; the properties | `RackSwitch`, `RackVssd` |
| `MCRack` | instances for TLC | `Rack` |
| `Rack_proof` | theorems about `Rack` | `Rack`, TLAPS |
| `RackLedger_proof` | the conservation laws of `Rack`, and what rests on them | `Rack_proof` |
| `VssdBlocks` | the blocks of one vSSD under its worker and its GC thread | |
| `MCVssdBlocks` | instances for TLC | `VssdBlocks` |
| `VssdBlocks_proof` | theorems about `VssdBlocks` | `VssdBlocks`, TLAPS |
| `PrioQueue` | abstract: what `dev_q` promises to `run_worker` | |
| `IoSched` | the latency window, priorities and `dev_q` | `PrioQueue` |
| `MCIoSched` | instances for TLC | `IoSched` |
| `Sums_proof` | lemmas on sums over finite sets, by induction on their size | TLAPS |
| `IoSched_proof` | theorems about `IoSched` | `IoSched`, `Sums_proof` |
| `Fifo` | abstract: a bounded first-in, first-out queue | |
| `LbaQueue` | the ring of `queue.c` under one caller | `Fifo` |
| `BlkList` | the sorted block lists of `blklist.c`, as operators | |
| `Channel` | the allocator of whole blocks of one channel | `LbaQueue`, `BlkList` |
| `MCChannel` | an instance for TLC | `Channel` |
| `Channel_proof` | theorems about `LbaQueue` and `Channel`, lemmas on `BlkList` | `Channel`, TLAPS |
| `HostSetup` | `init` of client and server: ports, lcores, queues, as operators | |
| `ServerFwd` | the server's lcores | `HostSetup` |
| `ClientLoop` | the client's lcores | `HostSetup` |
| `FaultyLink` | abstract: what the server promises the packets of the vSSDs | |
| `Hosts` | client and server together | `ServerFwd`, `ClientLoop`, `FaultyLink` |
| `MCHosts` | an instance for TLC | `Hosts` |
| `Hosts_proof` | theorems about `Hosts` | `Hosts`, `Sums_proof` |
| `BadBlocks` | the bad-block table: `badblock`, `ersblock`, `ersall` | |
| `DdrCheck` | the memory tests, as operators | |
| `NexusTool` | a command as a process: options, acquisitions, failures, files | `BadBlocks`, `DdrCheck` |
| `MCNexusTool` | an instance for TLC | `NexusTool` |
| `NexusTool_proof` | theorems about `BadBlocks`, `DdrCheck` and `NexusTool` | `NexusTool`, TLAPS |

### How state and actions correspond to the code

*Packets.* A packet is its type and the vSSD it names; the other fields of
`Message` decide nothing here. `toSwitch`, `toVssd` and `toClient` count packets
by vSSD and type. They have no order: the server's two lcores each serve their
own DPDK queue and both vSSD sockets, and UDP promises none.

*Switch.* One action is one pass of one packet: a pass goes through the stages
in order and the registers are touched by one packet at a time, so a pass is
atomic. `AdmitRequest` and `GrantAdmitted` are the two passes of a granted
request, with `recirc` counting the packets in between. The tables are assumed
to map the vSSD ids one to one to register cells. `DenyRequest`,
`FinishGc` and the grants answer the vSSD the packet names, which
`redirect_port_table` decides after `send_back_table`, even when a client sent
the packet.

*vSSD.* Each action runs from one lock of a queue to the next.
`run_net` is `NetRecv`/`NetTimeout`, `NetReply`, `NetGc`; before the first datagram
it neither replies nor sends (`known`). That datagram may be the ten bytes `init` of the server sends to every vSSD
(`util.h:479-490`): `Greeted` are the vSSDs it has reached, and every other one starts with `known` false, as a restarted one does. The
bytes are never set; they are taken to spell no `Message`, so that setting `cliaddr` is all they do. `run_worker` is `WorkerPop`, `WorkerReply`.
`run_gc` is `GcAsk`/`GcNoNeed`, `GcPop`/`GcPopNone`, `GcDone`, with `do_gc` between
the last two. `get_gc_thresh` and the idle time are inputs of `GcAsk`: every value the
code can compute is tried. `dev_q` and `gcresp_q` are counted rather than
ordered: the first is ordered by latency and clock, the second by a `prio` that is
never assigned, so either may yield any node. `reply_q` and `gc_q` are
first in, first out.

*Faults.* `LoseToSwitch`, `LoseToVssd` and `RepeatToSwitch` are the server and UDP;
`Expiry` is `check_exp` in any thread, in any order; `VssdRestart` is the end of
the process (`main` joins its threads, or `clean_up.sh` kills it at any point)
followed by `run_vssd.sh`: queues and threads are as new, the switch's bits stay.

*Ledger and history.* `sent`, `received`, `asked`, `ended`, `lost`, `repeated` and
`restarts` count events. `dropped`, `overlapped` and `excused` remember which
vSSDs have left the discipline a property presupposes. No guard of a modelled
step reads the history, and the ledger only bounds clients, requests and faults.

*Blocks.* `VssdBlocks` looks into `run_worker` and `do_gc`, which `Rack` takes for
single steps. Only the pop of `alloc_block_v` is under a lock (`PopFree`);
everything after it is a step per access the other thread can come between:
`dequeue` loads `size` (`TakeSize`) and `front` (`TakeLba`) and stores them back, one less and one more
(`StoreSize`, `StoreFront`), in the order in which `-O3` compiles `queue.c:22-30`; the
tables are set (`MapBlock`), the block is linked to the allocated list
(`LinkBlock`, `HeadBlock`). `Prepped`, `NewBlock`, `Write` and `WriteCrash` are the
worker, `GcStart` to `GcEnd` are `do_gc`. Erase counts stay zero on this path, so
`add_list_v` always inserts at the head. `PpaInd` is the physical address modulo
`max_addr`, by which `do_gc` indexes tables the worker keeps by lba; any function
is allowed. `Garbage` is what `malloc` leaves in the two counters the constructor
increments but never sets. A shift by 64 is folded to zero by the compiler, so the
copy loop of `do_gc` has no body. `raced` records that two calls of `alloc_block_v` overlapped;
`erased`, `used` and `surplus` serve the properties only. Not in the module: the
clean-up when the worker expires (`erase_blks_v`), reads, the single bits of a
bitmap, and freed memory that is used again.

*Scheduling.* `IoSched` looks into the order that `Rack` leaves open. `Receive` is
what `run_net` does with a read or a write under no lock but that of `dev_q`,
`Take` is `remove_list_tail` in `run_worker`; `dev_q` is the list from head to tail. The
window's sum is a double, but what is added and taken away are multiples of
1/`WINDOW_SZ`, so `sliding` is `WINDOW_SZ` times it, exactly; `idle` is `unit` times
`idle_time`, because each update with alpha one half halves the unit. A double becomes an integer
towards zero (`Trunc`). A latency that enters the window is divided as an integer and
one that leaves it as a double (`rb_nexus.c:153-155`), so the prediction
drifts away below the mean, and below zero: `NeverAboveMean` is an inequality. `msg->lat` is computed by the server and is any of `Lats`; the
clock is `CLOCK_REALTIME` and is assumed not to be set back. `PrioQueue` knows no
list and no clock: a set of waiting requests, of which the highest priority goes first.

*lba queue.* `Enqueue`, `Dequeue` and `Front` are the functions of `queue.c` for one
caller at a time; `elements`, `front`, `tail` and `size` are the fields, `Junk` what
`malloc` leaves in the elements. The refinement maps the `size` elements from
`front` on, around the end of the ring, to the contents of a `Fifo`. `front` has no
caller in the repository; it is in the theorems and in no run.

*Channel.* `channel.c` is the allocator for users of whole blocks; `rb_nexus` itself only takes
`erase_all_blk_chl_v` and the reads and writes from this file. One thread calls, and writes and frees only
lbas it was given (`owned`). The loops of `alloc_channel` are steps: `AllocChannel`, `ReadBadBlocks`,
an `EraseOne` per block in the order of the loop, `InitMappingTable`, a `FillQueue` per lba. So is
the loop of `free_channel`: `FreeChannel`, then `DrainQueue` per lba. A list is the
sequence of its nodes from the head, `mapping` the channel's part of the table with
`NoBlock` for 0xFFFFFFFF. What a block holds is kept per block, not per page. `nexus.h` with the geometry is not in the
repository, so the numbers of blocks are constants; `ZeroPpa` is the block whose physical address is 0
(the first of channel 0), which the table names after it was set to zero.
`outcome` says how the thread ended: `no block` and `no lba` are the `exit` calls, `crash` is the NULL
node in `free_block`, `hang` is the loop over the planes of a good superblock
(`channel.c:928` assigns in its condition), `undefined` is the use of a list head whose node
`free_channel` has freed (`dangling`). Because of the hang, only a channel all of whose superblocks are in the
bad-block file is ever allocated; so `alloc_superblock` finds an empty list, and
`free_superblock` has no lba to free. Every call reads the bad-block file anew, and may find that it cannot:
`parse_read_file` then returns `(void*)ERROR`, the test for NULL at `channel.c:840` passes, and the pointer is read, or freed (`bad pointer`); a file that
is too short ends the process (`short file`, `channel.c:845`). Nobody looks whether an erase or a write has
worked: a block in `Failing` may hold anything after one (`Unknown`). What blocks hold is also `Unknown` from `free_channel` on, which touches none of them, since
nobody owns one and none is given away before it is erased. The dead lists have no callers; the
swap of hot and cold blocks in `free_block` is commented out.

*Hosts.* `HostSetup` is `init`, the same text in both hosts: how lcores and ports are counted, and
the loop that gives each lcore a port and its queues (`Assign`, once per lcore in ascending order). Every call of DPDK
that `init` makes may fail and end the process. The server (`ServerFwd`) is a program counter per lcore:
`Poll`, then `TakeLatency` and `ForwardPacket` per packet of the burst, then per socket `Recv` or
`RecvNone`, `Generate`, `Transmit`. The steps are cut where the lcores can come between each other: `pkt_recv` is
read for the latency and again to be incremented (`Counters`), and `buffer` is written by `recvfrom` and copied
two statements later. A packet is its request number and its vSSD; the 44 bytes of the header
are taken to be copied whole, and a copy that mixes two packets is not modelled. `recvfrom` gets an uninitialised address length,
and may fail for it after it has taken the datagram: that is one of the losses `MaxLoss` bounds, with a full
transmit queue. The NIC puts every packet of a port into its queue 0, since `init` configures
no distribution over queues. The client (`ClientLoop`) sends on lcore 1 and counts replies on every other; a burst
of replies is processed to its end. `SendRequest` is a turn of its sending loop up to `send_pkt_burst` and `CountSent` the increment of `pkt_sent`
after it, before which the reply may be counted: `Transmitted` counts what has left. The test datagrams of the server's `init` are part of `SrvStart`, as calls that may fail;
a vSSD sends nothing for them. `Hosts` joins them by a switch that passes
packets on (`Rack` models what it does) and vSSDs that answer; the server is started first. Left out: the check of the
link status, which changes nothing, and the header fields with the checksums, which
nothing here reads.

*FaultyLink* is the network `Rack` assumes, as a specification of its own: a bag of packets on
the wire, of which each may leave, be lost, or be replaced by a copy of another. A vSSD's datagram is on
the wire while it waits in a socket or is held by an lcore (`OnTheWay`). That
`Hosts` implements it (`ForwardsAsFaultyLink`) is why `LoseToSwitch` and `RepeatToSwitch` are the
faults of `Rack`, and why there is no other.

*NVMe tool.* The functions of `parser_nexus.c` are variations of one form, so a function is a record: which options
leave a field of its request unset when they are not given, which options take an argument that
`getopt` is not told of, its acquisitions in order with what each failure releases, how it takes the result of the
ioctl, how many output files it may write, and what the end of the function releases. The actions of
`NexusTool` interpret the record: `Invoke`, `Acquire` and `AcquireFails` per step, `Ioctl`, `WriteFile` per file, `Release`,
`Exit`. Which values options set is left out; whether they are given is not. A request with a field that was never assigned
carries what was on the stack (`junk`). `parse_read_file` reports failure as `(void*)ERROR`; a caller that compares with NULL
goes on with that pointer (`bad`), and reading or freeing through it ends the process. Functions that look at the result of `ioctl` by
its sign are `checked`, those that pass it to `parse_cmd_returnval` or to nobody are `raw`. A status
of the device is a positive result and comes without data. `checked` functions take it for success (`failed` has `status`), so
`idn`, `getlp`, `getft` and `rdregspa` write a buffer that nobody filled and return no error; `NoJunk` names them, and `EndsWell` says that nothing but such a status and a short
write goes unreported. The caller of `g_cmd_func_list` is not in the repository.

*Bad blocks.* `StartScan`, `ScanPlane` per plane in the order of the loops, and `SaveTable` are `badblock`; `StartErase`,
`EraseBlock` per block and `EraseEnds` are `ersblock` and `ersall`. A plane carries the set of pages whose first byte its vendor has set, and
loses it when it is erased. `Verdicts` says what a read can show: the buffer is cleared after each page and before the first is not, and
a read that ends with a status brings nothing, so the byte is not 0xff and the plane counts as bad; only the
first read of all can show a good page for a bad one. The masks and the constants `GOOD_PPA`, `BAD_PPA` are in a header the repository
does not have. The `-t` option may name any vendor, the right one or another, or none (`TypeOptions`); without it the code's zero is Toshiba. `told` remembers which one the
scan behind the file was given, for `MarksKept` protects the marks on the pages that a scan for that vendor tests. `channel` is
uninitialised when its register cannot be read, and the mask is then any of the three. Erase commands may fail for any of their planes,
since nobody looks at the result. `covers` remembers for which planes the file can be relied on. For SK Hynix flash, `badblock` reads page 257
and then tests page 0 once more (`parser_nexus.c:4359`), so a mark that is only on page 257 is not found: `Tested`
differs from `Pages` there, and `MarksKept` speaks of the marks that are tested.

*Memory tests.* A word and an address are sets of the lines that are one, so the walking patterns are singletons and
their complements. `DdrFaults` are a stuck line and two lines joined, on either bus; `DdrCheck` says what each test reads back. The ioctls
of the tests are assumed to work.

## 3. Runs

The runs of `MCRack` use one pair of vSSDs, each the other's replica: a property of the
switch speaks of a vSSD and its replica, and pairs do not interact.

| run | instance | shows |
|---|---|---|
| `gc` | a client GC_REQUEST for each vSSD and one GC packet from each vSSD, one packet lost | two rounds per vSSD, overlapping in every order, with a loss forgiven only through `dropped`: `MarkHasRound`, `SoftExclusion`, `CollectsMarked`, and the types |
| `restart` | a read, a GC packet from each vSSD, thread expiry, one restart; the server's test datagram has reached one vSSD and not the other | a round or a read caught at any point by the end of its process: `RoundsConserved`, `ReadsConserved` |
| `io` | a read and a hard GC packet for one vSSD, a hard GC packet for the other, one packet repeated | `RoundsConserved`, and `ReadsAvoidCollector` with none, one or both marked |
| `live` | read, write and hard GC for one vSSD, fair, no faults | `WritesConserved`, `MarksCleared`, `RepliesArrive` |
| `both` (violated) | a GC_REQUEST for each | both are granted, see below |
| `blocks` | 4 blocks of 2 pages, any of them bad, 2 sectors | `NoBlockTwice`, `FreeCounted`, `RevInverse`, `ValidCounted`, and the types |
| `lba`, `redo` (violated) | the same | see below |
| `sched` | a window of 2, latencies 0 to 2, clock to 7, 4 requests | `ServesByPriority` (refinement of `PrioQueue`), `AgeWins`, `NeverAboveMean` |
| `channel` | 3 blocks, any of them bad, one of which commands may fail on, 3 lbas in a ring of 4, erase counts modulo 2, allocated and freed twice | `BlocksPlaced`, `LbasPlaced`, `ListsByWear`, `NeverFails`, `ReadsBack`, `LbaFound`, `IsFifo` (refinement of `Fifo`), the types, and, fair, `CallsReturn` with the three ways in which a call does not return |
| `tool` | 2 blocks, luns and channels of one plane, at most one marked plane; every command, a status of the device for a result, then scans with any `-t` and erases in any sequence over the file one of them left; memory of 10 data and 4 address lines | `EndsWell`, `CrashesKnown`, `NoJunk`, `MarkedNotErased`, `RestErased`, `MarksKept`, `DdrFaultFound`, and the types |
| `hosts` | seven machines of up to two lcores and ports for each host, a trace of 3 lines, bursts of 2, one packet lost, 2, 3 or 4 requests asked for, 2 replies awaited | `QueuesPolledOnce`, `CountersFit`, `ForwardsAsFaultyLink` (refinement of `FaultyLink`) and, fair, `ClientEnds` |

*Bounds.* `Budget` bounds the client's packets per vSSD and type, `MaxAsk` the
packets of each `run_gc`, `MaxLoss`, `MaxRepeat` and `MaxRestart` the faults. Two
rounds per vSSD are the fewest with which a finish of one round meets the grant
of another, which is the interesting case for every property of the runs. `GcLevels` is {0, 100}: `get_gc_thresh` divides two ints
(`vssd.c:221`), so below one there is only zero. The soft branch is therefore
never taken by the vSSD itself and the runs get GC_REQUEST packets from the
client, as the test traces do; the theorems hold for any `GcLevels`.

`Greeted` is the pair but in `restart`, where one vSSD of the two has not had the server's datagram.

Four blocks are one for reads, two the worker fills in turn and one for `do_gc`: enough
for a sector to be rewritten in another block and for each pair of allocations to
overlap. `Garbage` has one value, since `surplus` records whatever it was. The threshold of two makes a block with one invalid page a victim.

Four requests go through the window of two twice, so that values leave it that
were measured. A clock to 7 lets two requests lie more than twice the largest latency
apart, the bound of `AgeWins`.

Three blocks are the fewest with a node in the middle of a list. The ring has one place more than there are lbas,
as in the code, where it is the size of the device: both of its ends wrap, at different times, and
it is never full (the theorem about the ring covers that). Counts modulo 2 wrap after two erases of a block,
and lists then hold counts in every order of wrapping.

Two blocks, luns and channels are the fewest with which a table has a perfect lun beside one that is not, in a block
that is not perfect, beside a perfect block: each of the three ways to erase. One marked plane, on a page that every scan, that one of another vendor or that none tests, is enough, as the properties speak of one plane at a time. `Later` restricts the commands to those of the
bad-block table once a file exists, since no other reads or writes it; `MaxBlanks` allows one read per scan that shows the wrong thing.
Ten data lines let two lines be joined that carry the same bit of every byte, which the patterns of `memcheck`
cannot tell apart: `DdrFaultFound` names that exception.

`MCHosts` has the code's own two lcores. Three requests and bursts of two make a burst overshoot `reply_num` and let both lcores hold a packet
while a third waits; with two requests and two replies the client awaits every reply. With one loss allowed, a repeated packet (which costs another, without counting) and a lost
one occur in the same behaviour. The machines that `init` refuses end in each of its four ways.

*Deadlock* is checked except in `restart`, where a vSSD whose threads have all
expired stops with packets still to come, and in the runs of `MCVssdBlocks`, where
the process exits when no block is left (`vssd.c:149`) or crashes, in `sched`,
which stops at the bounds of the clock and of the requests as the threads do at their
expiry, in `channel`, where the thread may exit, crash or hang, and in `hosts`, where a process ends when a call fails or has done its work.

*Fairness.* In `live`: weak for each kind of pass of the switch, for each
thread of a vSSD (they poll in `while(1)` loops) and for the client's receive loop.
Strong for receiving in `run_net`: `recvfrom` returns a packet that has arrived
rather than time out, so a loop iteration that could receive does. Sending by
clients, losses and expiry are never forced, and the run has no faults.
In `channel`: weak for the reading of the file and the iterations of the loops of a call that has begun, since the thread runs on; no call is ever forced.
In `hosts`: weak for each lcore of the server, for the sending and for the receiving lcore of the client, since each is a loop that never
blocks (`recvfrom` has a time-out), for the vSSDs, which answer each datagram, and for the start of both processes, which is the
scripts'. Losses stay possible, and `ClientEnds` excuses them.

### What the violated runs show

* `both`: `test_gc_req_both_1.sh` expects the first of two requests to be granted
  and the second denied. The switch checks the replica's bit before
  recirculation and sets its own after, so a second request checked in between is
  granted as well.
* `lba`: the lba queue is the "Set of LBAs that are still available" (`vssd.h:40`), but
  two unlocked calls of `dequeue` return the same element. `RevInverse` and
  `ValidCounted` are therefore stated for runs of the process in which no two allocations overlapped;
  `NoBlockTwice` and `FreeCounted` hold even then.
* `redo`: `do_gc` is to copy the valid pages and redo their mappings (`vssd.c:253`,
  `257`); the test for a valid page is never true, so sectors go on naming
  pages of an erased block.
Five observations are not runs. `get_gc_thresh` divides two ints and counts each block twice (`vssd.c:74`, `channel.c:1033`), so
the ratio does not fall below one while the process runs and `run_gc` asks for GC only when it is idle. A client's hard GC packet is answered to the
vSSD, which collects and sends GC_FINISH itself, so the mark `test_gc_1.sh` sets may be gone
before its reads. The second page of SK Hynix flash is read and not
tested, as said above. A missing `bb_ben.bin` is read, or freed, through -1 by `alloc_channel` (`channel.c:840`). And four commands of the tool write
a buffer that nobody filled, and return no error, when the device answers with a status (`parser_nexus.c:2686`).

## 4. Proofs

Every safety property of the runs and every refinement is a theorem, for every value of the constants their
modules' assumptions allow; the exceptions are the end of this section.

`Rack_proof` proves, for every set of vSSDs, every pairing and all bounds:

* `TypeCorrect`: `Spec => []TypeOK`. `TypeOK` is inductive by itself; the work is
  that counts are decreased only where a guard found them positive.
* `TablesAgree`: `Spec => []BitsAgree`, on top of the types: the two registers are
  written by the same passes.
* `SoftRequestsExclude`: `Spec => []SoftExclusion`. Not inductive: a request may
  already be on the recirculation port when the replica is marked. `PairInv` adds
  that of a pair that is not excused, at most one has a mark or a request admitted.
* `MarksAreOwned`: `Spec => []MarkHasRound`. The places of a granted round
  (`Granted`) form a path; every step either keeps a vSSD's granted round somewhere on it,
  clears the mark, or records the loss in `dropped`.

`RackLedger_proof` adds, in the same generality:

* `RoundsAddUp`, `WritesAddUp`, `ReadsAddUp`: `Spec => []RoundsConserved`, and so for writes and reads. The laws
  relate sums over places and types, and no sum is proved about by itself. The argument is double entry: `Balance(w, o)` is what the rack shows of
  the packets of `w` of type `o`, minus what came into being outside it. `FlowStep` says that every step leaves
  all balances alone, moves one packet from one balance to another, or moves it to or from the recirculation
  port, `run_gc`'s questions or its endings (`Flow`); `Books`, that the balances of a kind cancel, follows from that alone. Writes
  and GC rounds are conserved per vSSD, reads per pair, since the switch may hand a read to the replica. `KindsInv` says which
  types can be where: without it a reply could turn up on the way to a vSSD.
* `CollectorsAreMarked`: `Spec => []CollectsMarked`, which rests on the law of rounds: a vSSD none of whose rounds overlapped has at most one
  under way (`OneRound`), so while it collects (`HoldingMarked`) there is no finish that could clear its mark.
* `ReadsAreSteered`: `Spec => ReadsAvoidCollector`, an action property, from `BitsAgree`.

`VssdBlocks_proof` proves, for any number of blocks and pages, any bad blocks, any
index `do_gc` computes and any interleaving of the two threads:

* `BlocksTypes`: `Spec => []BlocksTypeOK`, from `TypeInv`. That `TakeLba` finds an lba of the vSSD
  needs `Ring`: `front`, and every lba a thread has loaded, is at most the number of lbas less the blocks still free and the threads inside `dequeue`
  (`Settled`). Overlapping dequeues lose an increment but never add one: a thread leaves `dequeue`, and raises that bound by one, as it stores one more than it loaded.
* `BlockInOnePlace`: `Spec => []NoBlockTwice`, which is inductive with the types: a
  block leaves the free list under the lock, and `MapBlock` is reached by the thread
  that popped it only.
* `FreeCountFollows`: `Spec => []FreeCounted`.
* `TablesInverse`: `Spec => []RevInverse`. While no two allocations overlap, the lbas in use are
  below the front of the ring and the one just taken is above all that were written to (`LbasInOrder`), so a page handed out
  is a new one (`PagesInOrder`); and lba 0, whose first page cannot be told from an unmapped sector, is never written (`ZeroUnwritten`).
* `CountsJudge`: `Spec => []ValidCounted`. `Balanced` gives `valid_pages_v` in terms of the pages used and the sectors mapped
  into the block, and `JudgedInv`, which needs no discipline, finds the bitmap or the erasure that took it.

`Sums_proof` is about `SumFunction`, which the code's averages and counters become. The fold behind it takes the
indices in an order nobody knows; `SumsExist` and `SumsStep` say that its recursion has a solution and that any index may go first, and the rest follows: bounds,
monotonicity, the change of one term, the sum of two functions, the size of a union. The induction is on the size of the set, through the
least size that is wrong (`LeastNatural`, from the library's `WFMin`), since the induction theorems that take an operator are out of the provers' reach.

`IoSched_proof` proves, for any window, latencies and bounds:

* `IoTypes`: `Spec => []IoTypeOK`.
* `DevQueueServes`: `Spec => ServesByPriority`, that the sorted list implements the
  priority queue. It needs that the list is `Ordered`: priorities do not fall from
  head to tail, and among equals the earlier request is nearer the tail. The lemma on
  insertion shows that `Sorted` adds one element and keeps that order.
* `PredictionBelowMean`: `Spec => []NeverAboveMean`. What enters the window is rounded down and what leaves is not, so the sum
  kept is never above the sum of what is there.
* `AgeBeatsLatency`: `Spec => AgeWins`. The level of a request is its priority plus the time it came. The drift, what the prediction keeps beyond the window's
  content, never rises; the level of every waiting request is at least the drift (`Aged`), and that of a new one is above it by at most `2 * MaxLat`.
  So no younger request's level is further above an older one's than that, for however long the prediction has drifted.

`Channel_proof` proves, for any capacity of the ring of `queue.c`:

* `QueueTypes`: `QueueSpec => []QueueTypeOK`.
* `RingIsFifo`: `QueueSpec => IsFifo`. `TailInv` says that `tail` is where the last of the
  contents lies; `Enqueue` then writes the slot after the contents, which none of them uses.

It then proves every property of the `channel` run but `CallsReturn`, for any number of
blocks and lbas, any bad and any failing blocks and any width of the erase counts: `ChannelTypes`, `ChannelBlocksPlaced`,
`ChannelLbasPlaced`, `ChannelListsByWear`, `ChannelNeverFails`, `ChannelReadsBack`, `ChannelLbaFound`
and `ChannelQueueIsFifo`, the last by showing that every step of the channel is a step of the ring or none of it. The
inductive invariant `ChannelInv` has a part for each structure: `PhaseInv` (what the loops have
done), `ListInv` (blocks occur once over both lists, sorted, with their own counts), `CallerInv` (the allocated
list is the image of the caller's lbas, one to one), `LbaInv` (lbas occur once over queue and caller; until
the channel is freed, the queue and the allocated list have `ChlBlks` elements together, which is why there is an lba for every block)
and `DataInv`. Lemmas on `BlkList` say what `AddFree`, `AddAlloc` and `Without` do to the
nodes, the blocks and the order of a list of any length.

`Hosts_proof` proves, for any trace, any machines, bursts, and numbers of ports:

* `QueuesAreSharedOut`: `Spec => []QueuesPolledOnce`. `TurnKeeps` follows the loop of `init`: after `k` turns, lcore number `i` has port
  `i \div n` and the queues of its share `i % n`, where `n` is the number of lcores per port. That the loop moves to the next port exactly there is the uniqueness of
  division (`DivUnique`); `DivExists` comes from the remainder test that `Counted` makes.
* `HostsTypesHold`: `Spec => []HostsTypes`. An lcore about to copy the shared buffer finds one packet in it (`PacketsHeld`): the other lcore may have replaced it, but not emptied it.
* `ServerIsFaultyLink`: `MaxLcores <= 2` gives `Spec => ForwardsAsFaultyLink`. The wire has as many copies of a packet
  as there are sockets it waits in and lcores that hold it, counted packet by packet: a `recvfrom` that finds the buffer in use takes a copy from the packet there and gives one to
  its own, `Replace`, or with a lost datagram `Lose`. The hypothesis is the code's `MAX_LCORES`, 2 in both `util.h`, and is needed: with three
  lcores two may wait to copy the buffer, and one `recvfrom` replaces the packets of both, which `FaultyLink` does not do in one step.
* `CountersAlwaysFit`: `Spec => []CountersFit`, for any number of lcores. `AllSent` says that packets in rings, batches, sockets, on the way
  to a vSSD, held by an lcore, on the way to the client and counted there are together no more than those sent (`Transmitted`, which is ahead of `pkt_sent` by the one not counted yet). `SlotsTaken` is why the race for `pkt_recv` is harmless: what an
  lcore has read of it, old as it may be, plus what the rings and batches still hold is within what was sent, as
  the packet it was read for is still in its batch.

`NexusTool_proof` begins with `BadBlocks`, for any geometry, flash vendor and marks:

* `BadTypes`: `BadSpec => []BadTypeOK`.
* `NamedPlanesNotErased` and `OtherPlanesErased`: `BadSpec => []MarkedNotErased` and
  `BadSpec => []RestErased`. The second speaks of the end of an erase only; `CoverSoFar`
  says at every moment that the blocks no longer to do are covered.
* `FileProtectsMarks`: `BadSpec => MarksKept`. A mark is safe because of a scan that may lie
  several commands back. `FileInv` carries it over: a scan tests the pages of the flash type it was told or stops,
  its table names every plane marked there that it could judge, the file does so for what it
  covers, and an erase reads that file. Erasing only takes marks away, so what is named stays named.
* `ToolImplementsBadBlocks`: `ToolSpec => BadSpec`. A body begins with
  `StartScan` or `StartErase`, runs by `BadStep`, and no other action touches the variables of
  `BadBlocks`; `ToolSparesNamedPlanes`, `ToolErasesTheRest` and `ToolKeepsMarks`, the properties of the
  `tool` run, follow.

and goes on with the process around it:

* `ToolTypesHold`, `CommandsEndWell`, `OnlyKnownCrashes`, `JunkStaysInside`: `ToolSpec => []ToolTypeOK`, and so for `EndsWell`, `CrashesKnown` and
  `NoJunk`. `WellMade` is what the forty-two functions have in common, shown for each
  (`EntryMade`): a failure undoes all that was acquired before it, the end releases all that may be held, and only named functions
  are careless in a named way. `ToolInv` needs no more of them. `EndsWell` says that a command releases everything, and that it returns an error when anything failed but a short write or, if it is `checked`, a status of the device;
  `NoJunk` then needs to know which `checked` functions read data into a file, which is looked up in the table.
* `MemoryFaultsFound`: `ToolSpec => []DdrFaultFound`, for buses of any width. `DataCheckFinds`, `AddrCheckFinds` and
  `MemCheckFinds` take the three tests one by one; for the address bus its first walk is enough.

The assumptions are those of the modules: `ReplicaAssumption` (the pairing has no
fixed point and is its own inverse), `VssdAssumption`, `BoundsAssumption`,
`BlocksAssumption`, `IoAssumption`, `QueueAssumption`, `ChannelAssumption`, `SetupAssumption`, `ServerAssumption`, `ClientAssumption`,
`MachinesAssumption` (ports are numbers and finitely many, as in DPDK; lcores are those `init` looks
at), `GeometryAssumption`, `BlanksAssumption`, `DrivesAssumption` and `LinesAssumption`. TLC evaluates them in every run.

Only model-checked are the liveness properties `MarksCleared`, `RepliesArrive`, `CallsReturn` and `ClientEnds`, since fairness is out of
the prover's reach; and the refinement of `FaultyLink` for more than two lcores is not claimed at all.

## 5. Plan

The order is by importance to the system; each module comes with its MC module,
runs, mutants and, where named, theorems.

1. `Rack` and its parts (done).
2. `VssdBlocks`: the block layer of one vSSD under two threads (done, but for the
   clean-up at the end of the process).
3. `LbaQueue`: the ring of `queue.c` implements a bounded first-in first-out
   queue (refinement), with the implementation proved (done).
4. `IoSched`: the sliding window and the order of `dev_q` (done).
5. `HostSetup`, `ServerFwd`, `ClientLoop`, `Hosts`: the two DPDK hosts (done).
6. `BlkList` and `Channel`: the block lists and the allocator of a channel (done).
7. `BadBlocks`, `DdrCheck`, `NexusTool`: the NVMe tool (done).
8. Proofs of every safety property of the runs and of every refinement (done).
9. What the theorems suggest and no run needs: that `FaultyLink` lets a packet go, be lost or be repeated as
   `LoseToSwitch` and `RepeatToSwitch` do, as a theorem about `RackNet`'s counts (to do).

## 6. Not modelled

* The end of a vSSD process in `vssd.c` (`erase_blks_v`, `ret_blks_v`, `free_regular_vssd`): it frees what `do_gc` may still use, in a process
  that is about to end; `Rack` takes the end of the process as one step. The read path (`read_page_v`) changes no table.
* `channel.c`: the dead lists and the superblock calls beyond what `Channel` says of them, `erase_all_blk_chl_v` but for its effect, which is the
  initial state of `VssdBlocks`, and the reads and writes of pages, which are requests to the device.
* The help texts and printing of the NVMe tool (`usage.c`, `parser.c`, most of the bodies of `dumppci` and `dumpnexus`): they keep no state.
* Packet headers and checksums, DPDK, the device driver: data no property is about, or not in the repository.
* The scripts, but for what they do to the processes: shell glue.
