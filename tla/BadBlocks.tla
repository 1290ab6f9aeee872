----------------------------- MODULE BadBlocks ------------------------------
(***************************************************************************)
(* The bad blocks of the flash (vssd_code/parser_nexus.c): badblock looks  *)
(* for the marks the vendor left and saves a table of them, ersblock and   *)
(* ersall erase what a table, if one is given, does not name.  An erased   *)
(* plane has lost its mark.                                                *)
(***************************************************************************)
EXTENDS Integers, FiniteSets

CONSTANTS
    BlkNum, LunNum, ChNum, PlNum,   \* CFG_NAND_BLOCK_NUM, LUN_NUM, ...
    HwMasks,    \* the channel masks a CHANNEL_COUNT register can stand for
    Drives,     \* what vendors deliver: the marked pages of each plane
    MaxBlanks   \* bound: reads of one scan that bring nothing

Blks == 0..BlkNum - 1
Luns == 0..LunNum - 1
Chs  == 0..ChNum - 1
Pls  == 0..PlNum - 1
Plane == [blk : Blks, lun : Luns, ch : Chs, pl : Pls]

ASSUME GeometryAssumption ==
    /\ BlkNum \in Nat \ {0} /\ LunNum \in Nat \ {0}
    /\ ChNum \in Nat \ {0} /\ PlNum \in Nat \ {0}
    /\ HwMasks \subseteq SUBSET Chs

\* The pages whose first byte the vendor of a flash type sets in a bad plane,
\* all of which badblock reads ...
Pages(t) ==
    CASE t = "toshiba" -> {"pg0_ep0", "pg0_ep3", "pg255_ep0", "pg255_ep3"}
      [] t = "micron"  -> {"pg0_ep3"}
      [] t = "skhynix" -> {"pg0_ep3", "pg257_ep3"}
      [] OTHER         -> {}
\* ... and those it tests: after it has read page 257 it tests page 0 again.
Tested(t) == IF t = "skhynix" THEN {"pg0_ep3"} ELSE Pages(t)
FirstPage(t) == IF t = "toshiba" THEN "pg0_ep0" ELSE "pg0_ep3"
FlashTypes == {"toshiba", "micron", "skhynix"}
\* What -t may say, right or wrong; toshiba if it is not given.
TypeOptions == FlashTypes \cup {"unknown"}
AnyPage == UNION {Pages(t) : t \in FlashTypes}
ASSUME BlanksAssumption == MaxBlanks \in Nat
ASSUME DrivesAssumption == Drives \subseteq [Plane -> SUBSET AnyPage]

\* One u16 of channel bits per block and lun, the last block first.
TableIndex(b, l) == (BlkNum - 1 - b) * LunNum + l
Tables == [0..BlkNum * LunNum - 1 -> SUBSET Chs]
NoBits == [i \in 0..BlkNum * LunNum - 1 |-> {}]
BitsOf(tab, p) == tab[TableIndex(p.blk, p.lun)]

\* The order of the loops of badblock.
Earlier(p, q) ==
    \/ p.blk > q.blk
    \/ p.blk = q.blk /\ p.lun < q.lun
    \/ p.blk = q.blk /\ p.lun = q.lun /\ p.ch < q.ch
    \/ p.blk = q.blk /\ p.lun = q.lun /\ p.ch = q.ch /\ p.pl < q.pl

VARIABLES
    flash,      \* the flash type of the drive
    hwMask,     \* the channels it has
    mark,       \* the marked pages of each plane
    file,       \* badmark.bin: the set of its tables, none or one
    covers,     \* ... the planes it can be relied on for (history)
    told,       \* ... the flash type its scan was told (history)
    job,        \* what the command is doing
    option,     \* -t of badblock
    table,      \* blk_info_table
    left,       \* planes the loops of badblock have still to read
    blanks,     \* reads that brought nothing (bounded by MaxBlanks)
    sure,       \* planes that were tested on what was read of them (history)
    bin,        \* badbin of an erase: the set of its tables, none if NULL
    mask,       \* channel_mask
    asked,      \* blocks to erase (history)
    todo,       \* ... those still left
    issued,     \* planes of the erase commands issued by this command
    status      \* what the body of the command returns

device  == <<flash, hwMask>>
scan    == <<option, table, left, blanks, sure>>
erase   == <<bin, asked, todo, issued>>
saved   == <<file, covers, told>>
badVars == <<device, mark, saved, job, scan, mask, erase, status>>

BadInit ==
    /\ flash \in FlashTypes /\ hwMask \in HwMasks
    /\ mark \in Drives /\ \A p \in Plane : mark[p] \subseteq Pages(flash)
    /\ file = {} /\ covers = {} /\ told = "unknown"
    /\ job = "idle" /\ status = "ok"
    /\ option = "unknown" /\ table = NoBits /\ left = {} /\ blanks = 0
    /\ sure = {} /\ mask = {}
    /\ bin = {} /\ asked = {} /\ todo = {} /\ issued = {}

----------------------------------------------------------------------------
(* badblock *)

\* The locals of a command are gone with it.
ScanOver ==
    /\ job' = "idle" /\ option' = "unknown" /\ table' = NoBits
    /\ left' = {} /\ blanks' = 0 /\ sure' = {} /\ mask' = {}
    /\ UNCHANGED <<device, mark, erase>>
EraseOver ==
    /\ job' = "idle"
    /\ bin' = {} /\ asked' = {} /\ todo' = {} /\ issued' = {} /\ mask' = {}
    /\ UNCHANGED <<device, mark, saved, scan, status>>

\* If the register cannot be read, channel is not initialised and the mask may
\* be any of the three.
MaskRead(m, ok) == IF ok THEN m = hwMask ELSE m \in HwMasks

InMask(m) == {p \in Plane : p.ch \in m}

StartScan(t, m, ok) ==
    /\ job = "idle" /\ MaskRead(m, ok)
    /\ job' = "scan" /\ option' = t /\ mask' = m
    /\ table' = NoBits /\ blanks' = 0 /\ sure' = {}
    /\ left' = InMask(m)
    /\ status' = "ok"
    /\ UNCHANGED <<device, mark, saved, erase>>

\* The pages are read one by one until one is marked.  The buffer is cleared
\* after each, so a read that ends with a status and brings nothing leaves
\* a mark; only before the first read of all it holds anything.
Marked(pages, p) == mark[p] \cap pages # {}
Verdicts(p) ==
    {Marked(Tested(option), p), TRUE}
      \cup (IF left = InMask(mask) THEN {Marked(Tested(option) \ {FirstPage(option)}, p)} ELSE {})

\* Mutant of ScanPlane: the bit replaces those of the lun.
ScanPlaneAlone ==
    /\ job = "scan" /\ option \in FlashTypes
    /\ \E p \in left, bad \in BOOLEAN :
        /\ \A q \in left : ~Earlier(q, p)
        /\ bad \in Verdicts(p)
        /\ IF bad = Marked(Tested(option), p) THEN blanks' = blanks
           ELSE blanks < MaxBlanks /\ blanks' = blanks + 1
        /\ left' = left \ {p}
        /\ sure' = IF bad = Marked(Tested(option), p) \/ bad THEN sure \cup {p} ELSE sure
        /\ table' = IF ~bad THEN table
                    ELSE [table EXCEPT ![TableIndex(p.blk, p.lun)] = {p.ch}]
    /\ UNCHANGED <<device, mark, saved, job, option, mask, erase, status>>

ScanPlane ==
    /\ job = "scan" /\ option \in FlashTypes
    /\ \E p \in left, bad \in BOOLEAN :
        /\ \A q \in left : ~Earlier(q, p)
        /\ bad \in Verdicts(p)
        /\ IF bad = Marked(Tested(option), p) THEN blanks' = blanks
           ELSE blanks < MaxBlanks /\ blanks' = blanks + 1
        /\ left' = left \ {p}
        /\ sure' = IF bad = Marked(Tested(option), p) \/ bad THEN sure \cup {p} ELSE sure
        /\ table' = IF ~bad THEN table
                    ELSE [table EXCEPT ![TableIndex(p.blk, p.lun)] = @ \cup {p.ch}]
    /\ UNCHANGED <<device, mark, saved, job, option, mask, erase, status>>

\* A read fails, or the flash type is none of the three, which is no error.
ScanStops ==
    /\ job = "scan" /\ left # {} /\ ScanOver
    /\ status' = IF option \in FlashTypes THEN "error" ELSE "ok"
    /\ UNCHANGED saved

\* parse_write_file: no name is given and the table is printed, or the file
\* cannot be opened, or it is truncated and the table not written or only in
\* part, which nobody notices, or written.
SaveTable ==
    /\ job = "scan" /\ left = {} /\ ScanOver
    /\ \/ status' \in {"ok", "error"} /\ UNCHANGED saved
       \/ status' \in {"ok", "error"} /\ file' = {} /\ covers' = {} /\ told' = "unknown"
       \/ status' = "ok" /\ file' = {table} /\ covers' = sure /\ told' = option

(* ersblock and ersall *)

\* sw is the mask of the command line; the table, if one is given, has been read.
StartErase(blks, given, sw, m, ok) ==
    /\ job = "idle" /\ MaskRead(m, ok)
    /\ given => file # {}
    /\ job' = "erase" /\ asked' = blks /\ todo' = blks
    /\ bin' = IF given THEN file ELSE {}
    /\ mask' = sw \cap m
    /\ issued' = {}
    /\ status' = "ok"
    /\ UNCHANGED <<device, mark, saved, scan>>

\* is_perfect_lun and skip_ppa.
PerfectLun(tab, b, l) == tab[TableIndex(b, l)] = {}
\* Mutant of SkipPpa: only a plane that is both is skipped.
SkipPpaBoth(tab, p) == p.ch \in BitsOf(tab, p) /\ p.ch \notin mask
\* Mutant of SkipPpa: any bit of the lun counts.
SkipPpaLun(tab, p) == BitsOf(tab, p) # {} \/ p.ch \notin mask

SkipPpa(tab, p) == p.ch \in BitsOf(tab, p) \/ p.ch \notin mask

\* erase_raidblock_helper: without a table and for a perfect block one command
\* covers all planes, in a perfect lun one command all planes of the lun;
\* neither looks at the mask.
Erased(b) ==
    {p \in Plane : p.blk = b /\ \A tab \in bin :
        PerfectLun(tab, b, p.lun) \/ ~SkipPpa(tab, p)}

\* Each of them can fail, wholly or in part; nobody looks at the result.
EraseBlock ==
    /\ job = "erase"
    /\ \E b \in todo : \E gone \in SUBSET Erased(b) :
        /\ \A c \in todo : b <= c
        /\ todo' = todo \ {b}
        /\ issued' = issued \cup Erased(b)
        /\ mark' = [p \in Plane |-> IF p \in gone THEN {} ELSE mark[p]]
    /\ UNCHANGED <<device, saved, job, scan, bin, mask, asked, status>>

EraseEnds ==
    /\ job = "erase" /\ todo = {} /\ EraseOver

\* The steps of a body that has started.
BadStep == ScanPlane \/ ScanStops \/ SaveTable \/ EraseBlock \/ EraseEnds

BadStart ==
    \E m \in HwMasks, ok \in BOOLEAN :
        \/ \E t \in TypeOptions : StartScan(t, m, ok)
        \/ \E blks \in {Blks} \cup {{b} : b \in Blks}, given \in BOOLEAN,
              sw \in SUBSET Chs : StartErase(blks, given, sw, m, ok)

BadNext == BadStep \/ BadStart
BadSpec == BadInit /\ [][BadNext]_badVars

----------------------------------------------------------------------------
(* Properties *)

\* Every variable has its type.
BadTypeOK ==
    /\ flash \in FlashTypes /\ hwMask \in HwMasks
    /\ mark \in [Plane -> SUBSET AnyPage]
    /\ file \subseteq Tables /\ covers \subseteq Plane /\ told \in TypeOptions
    /\ job \in {"idle", "scan", "erase"} /\ option \in TypeOptions
    /\ table \in Tables /\ left \subseteq Plane /\ blanks \in 0..MaxBlanks /\ sure \subseteq Plane
    /\ bin \subseteq Tables /\ mask \subseteq Chs
    /\ asked \subseteq Blks /\ todo \subseteq asked /\ issued \subseteq Plane
    /\ status \in {"ok", "error"}

\* A plane of a channel that the table names is in no erase command, whichever
\* of the three ways of erasing its block and lun are chosen
\* (erase_raidblock_helper, skip_ppa, is_perfect_lun).
MarkedNotErased ==
    job = "erase" =>
        \A tab \in bin, p \in issued : p.ch \notin BitsOf(tab, p)

\* At the end every other plane of a channel of the mask has been in one.
RestErased ==
    job = "erase" /\ todo = {} =>
        \A p \in Plane :
            p.blk \in asked /\ p.ch \in mask /\ (\A tab \in bin : p.ch \notin BitsOf(tab, p))
                => p \in issued

\* Whatever scans ended well or badly before, with the right -t or a wrong one,
\* an erase that is given the file, stale or not, destroys no mark on the pages
\* badblock tested when it wrote that file, but on planes that scan could not
\* see (badblock, ersblock, ersall).
MarksKept ==
    [][\A p \in covers :
        bin # {} /\ Marked(Tested(told), p) => mark'[p] = mark[p]]_badVars

=============================================================================
