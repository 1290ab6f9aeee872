-------------------------- MODULE NexusTool_proof ---------------------------
(***************************************************************************)
(* Proofs about the command line tool.  First BadBlocks: whatever the size *)
(* of the flash, no erase command covers a plane that the table names,     *)
(* every other plane it is asked for is covered, and no mark is lost that  *)
(* the table on disk is to protect.  Then NexusTool: a process of the      *)
(* tool, with everything that can fail around it, does to the flash and to *)
(* the bad-block file only what BadBlocks lets a command do, so the        *)
(* theorems about BadBlocks hold of the tool.  Then what the table of      *)
(* functions has in common (WellMade, shown function by function) and what *)
(* the three memory tests find, on buses of any width; and last, from      *)
(* both, that every command ends well.                                     *)
(***************************************************************************)
EXTENDS NexusTool, SequenceTheorems, TLAPS

(* The bad-block table *)

\* The table has an entry for every block and lun.
LEMMA IndexInTable ==
  ASSUME NEW b \in Blks, NEW l \in Luns
  PROVE  TableIndex(b, l) \in 0..BlkNum * LunNum - 1
  <1> USE GeometryAssumption
  <1> DEFINE c == BlkNum - 1 - b  n == LunNum  m == BlkNum
  <1>1. c \in Nat /\ c + 1 <= m /\ m \in Nat /\ n \in Nat /\ l \in Nat /\ l < n
    BY DEF Blks, Luns
  <1> HIDE DEF c, n, m
  <1>2. (c + 1) * n <= m * n
    BY <1>1, SMTT(30)
  <1>3. (c + 1) * n = c * n + n /\ c * n \in Nat
    BY <1>1, SMTT(30)
  <1>4. c * n + l \in 0..m * n - 1
    BY <1>1, <1>2, <1>3
  <1> QED
    BY <1>4 DEF TableIndex, c, n, m

-----------------------------------------------------------------------------
(* Types *)

LEMMA BadInitTypes == BadInit => BadTypeOK
  BY BlanksAssumption, DrivesAssumption, GeometryAssumption
     DEF BadInit, BadTypeOK, Tables, NoBits, TypeOptions

LEMMA BadStepTypes ==
  ASSUME BadTypeOK, [BadNext]_badVars
  PROVE  BadTypeOK'
  <1>1. CASE ScanPlane
    <2>1. PICK p \in left, v \in BOOLEAN :
            /\ IF v = Marked(Tested(option), p) THEN blanks' = blanks
               ELSE blanks < MaxBlanks /\ blanks' = blanks + 1
            /\ left' = left \ {p}
            /\ sure' = IF v = Marked(Tested(option), p) \/ v THEN sure \cup {p} ELSE sure
            /\ table' = IF ~v THEN table
                        ELSE [table EXCEPT ![TableIndex(p.blk, p.lun)] = @ \cup {p.ch}]
      BY <1>1 DEF ScanPlane
    <2>2. p \in Plane /\ p.ch \in Chs
      BY DEF BadTypeOK, Plane
    <2>3. table' \in Tables
      BY <2>1, <2>2 DEF BadTypeOK, Tables
    <2>4. blanks' \in 0..MaxBlanks
      BY <2>1, BlanksAssumption DEF BadTypeOK
    <2> QED
      BY <1>1, <2>1, <2>2, <2>3, <2>4 DEF ScanPlane, BadTypeOK, device, erase, saved, TypeOptions
  <1>2. CASE ScanStops
    BY <1>2, BlanksAssumption DEF ScanStops, ScanOver, BadTypeOK, Tables, NoBits, device, erase, saved, TypeOptions
  <1>3. CASE SaveTable
    BY <1>3, BlanksAssumption DEF SaveTable, ScanOver, BadTypeOK, Tables, NoBits, device, erase, saved, TypeOptions
  <1>4. CASE EraseBlock
    <2>1. PICK b \in todo : \E gone \in SUBSET Erased(b) :
            /\ todo' = todo \ {b} /\ issued' = issued \cup Erased(b)
            /\ mark' = [p \in Plane |-> IF p \in gone THEN {} ELSE mark[p]]
      BY <1>4 DEF EraseBlock
    <2>2. Erased(b) \subseteq Plane
      BY DEF Erased
    <2> QED
      BY <1>4, <2>1, <2>2 DEF EraseBlock, BadTypeOK, device, scan, saved
  <1>5. CASE EraseEnds
    BY <1>5 DEF EraseEnds, EraseOver, BadTypeOK, device, scan, saved
  <1>6. ASSUME NEW m \in HwMasks, NEW ok \in BOOLEAN, NEW t \in TypeOptions,
               StartScan(t, m, ok)
        PROVE  BadTypeOK'
    BY <1>6, BlanksAssumption, GeometryAssumption
       DEF StartScan, BadTypeOK, Tables, NoBits, InMask, device, erase, saved, TypeOptions
  <1>7. ASSUME NEW m \in HwMasks, NEW ok \in BOOLEAN, NEW blks \in {Blks} \cup {{b} : b \in Blks},
               NEW g \in BOOLEAN, NEW sw \in SUBSET Chs, StartErase(blks, g, sw, m, ok)
        PROVE  BadTypeOK'
    BY <1>7, GeometryAssumption DEF StartErase, BadTypeOK, device, scan, saved
  <1>8. CASE UNCHANGED badVars
    BY <1>8 DEF badVars, device, scan, erase, saved, BadTypeOK
  <1> QED
    BY <1>1, <1>2, <1>3, <1>4, <1>5, <1>6, <1>7, <1>8 DEF BadNext, BadStep, BadStart

\* Every variable of the bad-block commands has its type, whatever the
\* geometry of the flash, its vendor and the marks it came with.
THEOREM BadTypes == BadSpec => []BadTypeOK
  <1>1. BadInit => BadTypeOK
    BY BadInitTypes
  <1>2. BadTypeOK /\ [BadNext]_badVars => BadTypeOK'
    BY BadStepTypes
  <1> QED
    BY <1>1, <1>2, PTL DEF BadSpec
-----------------------------------------------------------------------------
(* What an erase covers *)

\* The blocks that are no longer to do have been covered, whichever of the
\* three kinds of command it took.
CoverSoFar ==
    job = "erase" =>
        \A p \in Plane :
            p.blk \in asked \ todo /\ p.ch \in mask /\ (\A tab \in bin : p.ch \notin BitsOf(tab, p))
                => p \in issued

EraseInv == BadTypeOK /\ MarkedNotErased /\ CoverSoFar

\* Outside an erase nothing is claimed, so only a step that is, or begins, one
\* has to be looked at.
LEMMA EraseInitInv == BadInit => EraseInv
  BY BadInitTypes DEF BadInit, EraseInv, MarkedNotErased, CoverSoFar

LEMMA EraseStepInv ==
  ASSUME EraseInv, [BadNext]_badVars
  PROVE  EraseInv'
  <1>0. BadTypeOK'
    BY BadStepTypes DEF EraseInv
  <1>1. CASE job' # "erase"
    BY <1>0, <1>1 DEF EraseInv, MarkedNotErased, CoverSoFar
  <1>2. CASE EraseBlock
    <2>1. PICK b \in todo : todo' = todo \ {b} /\ issued' = issued \cup Erased(b)
      BY <1>2 DEF EraseBlock
    <2>2. job = "erase" /\ UNCHANGED <<bin, mask, asked>>
      BY <1>2 DEF EraseBlock
    <2>3. MarkedNotErased'
      <3> SUFFICES ASSUME NEW tab \in bin, NEW p \in issued \cup Erased(b)
                   PROVE  p.ch \notin BitsOf(tab, p)
        BY <2>1, <2>2 DEF MarkedNotErased, BitsOf, TableIndex
      <3>1. CASE p \in issued
        BY <2>2, <3>1 DEF EraseInv, MarkedNotErased
      <3>2. CASE p \in Erased(b)
        BY <3>2 DEF Erased, PerfectLun, SkipPpa, BitsOf
      <3> QED
        BY <3>1, <3>2
    <2>4. CoverSoFar'
      <3> SUFFICES ASSUME NEW p \in Plane, p.blk \in asked \ (todo \ {b}), p.ch \in mask,
                          \A tab \in bin : p.ch \notin BitsOf(tab, p)
                   PROVE  p \in issued \cup Erased(b)
        BY <2>1, <2>2 DEF CoverSoFar, BitsOf, TableIndex
      <3>1. CASE p.blk = b
        BY <3>1 DEF Erased, SkipPpa
      <3>2. CASE p.blk # b
        BY <2>2, <3>2 DEF EraseInv, CoverSoFar
      <3> QED
        BY <3>1, <3>2
    <2> QED
      BY <1>0, <2>3, <2>4 DEF EraseInv
  <1>3. ASSUME NEW m \in HwMasks, NEW ok \in BOOLEAN, NEW blks, NEW g, NEW sw,
               StartErase(blks, g, sw, m, ok)
        PROVE  EraseInv'
    <2>1. issued' = {} /\ asked' = todo'
      BY <1>3 DEF StartErase
    <2> QED
      BY <1>0, <2>1 DEF EraseInv, MarkedNotErased, CoverSoFar
  <1>4. CASE UNCHANGED badVars
    BY <1>0, <1>4 DEF badVars, scan, erase, EraseInv, MarkedNotErased, CoverSoFar, BitsOf, TableIndex
  <1>5. ASSUME BadStep, ~EraseBlock
        PROVE  job' # "erase"
    BY <1>5 DEF BadStep, ScanPlane, ScanStops, SaveTable, EraseEnds, ScanOver, EraseOver
  <1>6. ASSUME NEW t, NEW m, NEW ok, StartScan(t, m, ok)
        PROVE  job' # "erase"
    BY <1>6 DEF StartScan
  <1> QED
    BY <1>1, <1>2, <1>3, <1>4, <1>5, <1>6 DEF BadNext, BadStart

LEMMA EraseAlways == BadSpec => []EraseInv
  <1>1. EraseInv /\ [BadNext]_badVars => EraseInv'
    BY EraseStepInv
  <1> QED
    BY EraseInitInv, <1>1, PTL DEF BadSpec

\* No erase command of ersblock or ersall covers a plane that the table it was
\* given names, however its block and lun are erased.
THEOREM NamedPlanesNotErased == BadSpec => []MarkedNotErased
  <1>1. EraseInv => MarkedNotErased
    BY DEF EraseInv
  <1> QED
    BY EraseAlways, <1>1, PTL

\* When an erase command has been through its blocks, every other plane of the
\* channel mask has been covered.
THEOREM OtherPlanesErased == BadSpec => []RestErased
  <1>1. EraseInv => RestErased
    BY DEF EraseInv, CoverSoFar, RestErased, BadTypeOK
  <1> QED
    BY EraseAlways, <1>1, PTL

-----------------------------------------------------------------------------
(* What the table protects *)

Named(tab, S, t) == \A p \in S : Marked(Tested(t), p) => p.ch \in BitsOf(tab, p)

\* The planes a scan is sure of, and later those the file covers, are named if
\* they are marked on a page that the scan tested; and an erase reads the file
\* that is there.
FileInv ==
    /\ job = "scan" => Named(table, sure, option)
    /\ \A tab \in file : Named(tab, covers, told)
    /\ job = "erase" => bin \subseteq file

\* Erasing takes marks away and adds none, so what is named stays named.
LEMMA NamedStays ==
  ASSUME NEW tab, NEW S, NEW t, Named(tab, S, t), S \subseteq Plane,
         \A p \in Plane : mark'[p] \subseteq mark[p]
  PROVE  \A p \in S : mark'[p] \cap Tested(t) # {} => p.ch \in BitsOf(tab, p)
  BY DEF Named, Marked

LEMMA FileStepInv ==
  ASSUME BadTypeOK, FileInv, [BadNext]_badVars
  PROVE  FileInv'
  <1> USE DEF FileInv
  <1>1. CASE ScanPlane
    <2>1. PICK p \in left, v \in BOOLEAN :
            /\ sure' = IF v = Marked(Tested(option), p) \/ v THEN sure \cup {p} ELSE sure
            /\ table' = IF ~v THEN table
                        ELSE [table EXCEPT ![TableIndex(p.blk, p.lun)] = @ \cup {p.ch}]
      BY <1>1 DEF ScanPlane
    <2>2. /\ job = "scan" /\ job' = "scan" /\ option \in FlashTypes
          /\ UNCHANGED <<mark, file, covers, told, option, bin>>
      BY <1>1 DEF ScanPlane, device, erase, saved
    <2>3. p \in Plane /\ p.blk \in Blks /\ p.lun \in Luns /\ p.ch \in Chs
      BY DEF BadTypeOK, Plane
    <2>4. \A q \in Plane : BitsOf(table, q) \subseteq BitsOf(table', q)
      <3>1. \A q \in Plane : TableIndex(q.blk, q.lun) \in 0..BlkNum * LunNum - 1
        BY IndexInTable DEF Plane
      <3> QED
        BY <2>1, <3>1 DEF BadTypeOK, Tables, BitsOf
    <2>5. v => p.ch \in BitsOf(table', p)
      <3>1. TableIndex(p.blk, p.lun) \in 0..BlkNum * LunNum - 1
        BY <2>3, IndexInTable
      <3> QED
        BY <2>1, <3>1 DEF BadTypeOK, Tables, BitsOf
    <2>6. Named(table', sure', option)
      <3> SUFFICES ASSUME NEW q \in sure', Marked(Tested(option), q)
                   PROVE  q.ch \in BitsOf(table', q)
        BY DEF Named
      <3>1. CASE q \in sure
        BY <2>2, <2>4, <3>1 DEF BadTypeOK, Named
      <3>2. CASE q \notin sure
        BY <2>1, <2>5, <3>2
      <3> QED
        BY <3>1, <3>2
    <2>7. Named(table, sure, option)'
      BY <2>2, <2>6 DEF Named, Marked, BitsOf, TableIndex
    <2>8. (\A tab \in file : Named(tab, covers, told))'
      BY <2>2 DEF Named, Marked, BitsOf, TableIndex
    <2> QED
      BY <2>2, <2>7, <2>8
  <1>2. CASE ScanStops
    BY <1>2 DEF ScanStops, ScanOver, device, erase, saved, Named, Marked, BitsOf, TableIndex
  <1>3. CASE SaveTable
    BY <1>3 DEF SaveTable, ScanOver, device, erase, saved, Named, Marked, BitsOf, TableIndex
  <1>4. CASE EraseBlock
    <2>1. /\ job = "erase" /\ job' = "erase" /\ UNCHANGED <<file, covers, told, bin>>
          /\ \A p \in Plane : mark'[p] \subseteq mark[p]
      BY <1>4 DEF EraseBlock, saved
    <2>2. \A tab \in file, p \in covers :
              mark'[p] \cap Tested(told) # {} => p.ch \in BitsOf(tab, p)
      <3>1. covers \subseteq Plane
        BY DEF BadTypeOK
      <3> QED
        BY <2>1, <3>1, NamedStays
    <2> QED
      BY <2>1, <2>2 DEF Named, Marked, BitsOf, TableIndex
  <1>5. CASE EraseEnds
    BY <1>5 DEF EraseEnds, EraseOver, device, scan, saved, Named, Marked, BitsOf, TableIndex
  <1>6. ASSUME NEW m, NEW ok, NEW t \in TypeOptions, StartScan(t, m, ok)
        PROVE  FileInv'
    BY <1>6 DEF StartScan, device, erase, saved, Named, Marked, BitsOf, TableIndex
  <1>7. ASSUME NEW m, NEW ok, NEW blks, NEW g, NEW sw, StartErase(blks, g, sw, m, ok)
        PROVE  FileInv'
    BY <1>7 DEF StartErase, device, scan, saved, Named, Marked, BitsOf, TableIndex
  <1>8. CASE UNCHANGED badVars
    BY <1>8 DEF badVars, device, scan, erase, saved, Named, Marked, BitsOf, TableIndex
  <1> QED
    BY <1>1, <1>2, <1>3, <1>4, <1>5, <1>6, <1>7, <1>8 DEF BadNext, BadStep, BadStart

\* An erase that is given a table covers no plane that is marked and that the
\* scan behind the table could judge.
LEMMA CoveredMarksStay ==
  ASSUME BadTypeOK, FileInv, [BadNext]_badVars
  PROVE  \A p \in covers : bin # {} /\ Marked(Tested(told), p) => mark'[p] = mark[p]
  <1> SUFFICES ASSUME NEW p \in covers, bin # {}, Marked(Tested(told), p), mark' # mark
               PROVE  mark'[p] = mark[p]
    OBVIOUS
  <1>1. EraseBlock
    BY DEF BadNext, BadStep, BadStart, badVars, ScanPlane, ScanStops, SaveTable, ScanOver,
           EraseEnds, EraseOver, StartScan, StartErase
  <1>2. PICK b \in todo : \E gone \in SUBSET Erased(b) :
            mark' = [q \in Plane |-> IF q \in gone THEN {} ELSE mark[q]]
    BY <1>1 DEF EraseBlock
  <1>3. PICK tab \in bin : p.ch \in BitsOf(tab, p)
    BY <1>1 DEF EraseBlock, FileInv, Named
  <1>4. p \notin Erased(b)
    BY <1>3 DEF Erased, PerfectLun, SkipPpa, BitsOf
  <1>5. p \in Plane
    BY DEF BadTypeOK
  <1> QED
    BY <1>2, <1>4, <1>5

\* However scans and erases follow each other, and whatever of them fails, an
\* erase that is given the file on disk destroys no mark on the pages that the
\* scan behind the file tested, but on planes that scan could not see.
THEOREM FileProtectsMarks == BadSpec => MarksKept
  <1>1. BadInit => FileInv
    BY DEF BadInit, FileInv, Named
  <1>2. BadTypeOK /\ FileInv /\ [BadNext]_badVars => FileInv'
    BY FileStepInv
  <1>3. BadTypeOK /\ FileInv /\ [BadNext]_badVars
          => [\A p \in covers : bin # {} /\ Marked(Tested(told), p) => mark'[p] = mark[p]]_badVars
    BY CoveredMarksStay
  <1> QED
    BY BadTypes, <1>1, <1>2, <1>3, PTL DEF BadSpec, MarksKept

-----------------------------------------------------------------------------
(* The tool *)

\* A body begins with StartScan or StartErase, runs by BadStep, and nothing
\* else touches the variables of BadBlocks.
LEMMA ToolStepIsBadStep ==
  ASSUME [ToolNext]_vars
  PROVE  [BadNext]_badVars
  <1>1. CASE Body
    BY <1>1 DEF Body, BadNext
  <1>2. CASE StartBody
    <2>1. CASE bad # {}
      BY <1>2, <2>1 DEF StartBody
    <2>2. CASE bad = {}
      <3>1. PICK m \in HwMasks, ok \in BOOLEAN :
              \/ \E t \in TypeOptions : StartScan(t, m, ok)
              \/ \E sw \in SUBSET Chs, blks \in IF cmd = "ersall" THEN {Blks} ELSE {{b} : b \in Blks} :
                    StartErase(blks, "badbin" \in live, sw, m, ok)
        BY <1>2, <2>2 DEF StartBody
      <3>2. CASE \E t \in TypeOptions : StartScan(t, m, ok)
        BY <3>2 DEF BadNext, BadStart
      <3>3. ASSUME NEW sw \in SUBSET Chs,
                   NEW blks \in IF cmd = "ersall" THEN {Blks} ELSE {{b} : b \in Blks},
                   StartErase(blks, "badbin" \in live, sw, m, ok)
            PROVE  BadNext
        <4> DEFINE table_given == "badbin" \in live
        <4>1. blks \in {Blks} \cup {{b} : b \in Blks}
          OBVIOUS
        <4>2. table_given \in BOOLEAN /\ StartErase(blks, table_given, sw, m, ok)
          BY <3>3
        <4> HIDE DEF table_given
        <4> QED
          BY <4>1, <4>2 DEF BadNext, BadStart
      <3> QED
        BY <3>1, <3>2, <3>3
    <2> QED
      BY <2>1, <2>2
  <1>3. CASE UNCHANGED badVars
    BY <1>3
  <1>4. ASSUME ToolNext, ~Body, ~StartBody
        PROVE  UNCHANGED badVars
    BY <1>4 DEF ToolNext, Invoke, Acquire, AcquireFails, Ioctl, WriteFile, Written, EndBody,
                TestMemory, Release, Exit
  <1> QED
    BY <1>1, <1>2, <1>3, <1>4 DEF vars

\* The tool, whichever commands it runs and whatever fails in them, implements
\* the bad-block commands.
THEOREM ToolImplementsBadBlocks == ToolSpec => BadSpec
  <1>1. ToolInit => BadInit
    BY DEF ToolInit
  <1>2. [ToolNext]_vars => [BadNext]_badVars
    BY ToolStepIsBadStep
  <1> QED
    BY <1>1, <1>2, PTL DEF ToolSpec, BadSpec

\* No command of the tool erases a plane that the table it was given names.
THEOREM ToolSparesNamedPlanes == ToolSpec => []MarkedNotErased
  BY ToolImplementsBadBlocks, NamedPlanesNotErased, PTL

\* An erase command that comes to its end has covered every other plane.
THEOREM ToolErasesTheRest == ToolSpec => []RestErased
  BY ToolImplementsBadBlocks, OtherPlanesErased, PTL

\* No sequence of commands destroys a mark the file on disk protects.
THEOREM ToolKeepsMarks == ToolSpec => MarksKept
  BY ToolImplementsBadBlocks, FileProtectsMarks, PTL
-----------------------------------------------------------------------------
(* The functions *)

\* What a function holds on to when it returns.
Kept(c) == IF c = "dumpnexus" THEN {"nsid_active"} ELSE {}
\* Those that can work on after a failed parse_read_file, those that write what
\* a failed ioctl left, those that write what one they checked brought, those
\* whose request can be unset, and the memory tests.
Careless == {"fwdown", "setft", "ersblock", "ersall"}
RawReads == {"rdppasync", "rdpparawsync"}
Filers == {"idn", "getlp", "getft", "rdregspa"}
Untold == {"rdreg", "wrreg", "rdreg64", "wrreg64", "rddword", "wrdword",
           "autotest", "rstns", "set_db_switch"}
Tests == {"datacheck", "addrcheck", "memcheck"}
\* A failed read that is not noticed.
Unseen(s) == s.how \in {"read", "maybe"} /\ s.test # "ERROR"

\* What the proofs need of a function f that runs as command c: it releases at
\* its end whatever it may hold then, each failure undoes all that came before,
\* and only the functions above are careless in one of the five ways.
WellMade(c, f) ==
    /\ Len(f.acq) \in 0..5 /\ DOMAIN f.acq = 1..Len(f.acq)
    /\ \A i \in DOMAIN f.acq :
        /\ f.acq[i].res \in Resources \cap (f.last \cup Kept(c))
        /\ f.acq[i].how \in {"malloc", "open", "read", "maybe"}
        /\ \A j \in 1..i - 1 : f.acq[j].res \in f.acq[i].undo \cup Kept(c)
        /\ Unseen(f.acq[i]) => f.acq[i].res \in f.last /\ c \in Careless
        /\ f.acq[i].res = "badbin" => f.io = "erase"
    /\ f.bare # {} => c \in {"fwdown", "fwactv"}
    /\ f.unset # {} => c \in Untold
    /\ f.io \in {"checked", "raw", "scan", "erase", "test"}
    /\ f.outs \subseteq 0..2
    /\ f.io = "raw" /\ c \notin RawReads => f.outs = {0}
    /\ f.io = "checked" /\ c \notin Filers => f.outs = {0}
    /\ f.io = "test" => c \in Tests


LEMMA PlainMade ==
  ASSUME NEW c, NEW unset, unset # {} => c \in Untold
  PROVE  WellMade(c, Plain(unset))
  BY DEF WellMade, Plain, Cmd, Open, Unseen, Resources

LEMMA BufferedMade ==
  ASSUME NEW c, NEW r \in Resources \ {"badbin"}, NEW outs \in SUBSET (0..2),
         c \in Filers \/ outs = {0}
  PROVE  WellMade(c, Buffered(r, outs))
  BY DEF WellMade, Buffered, Cmd, Open, Malloc, Unseen, Resources

\* A function with two buffers of a physical page, however it gets them.
LEMMA PpaMade ==
  ASSUME NEW c, NEW a, NEW b, NEW outs \in SUBSET (0..2), c \in RawReads \/ outs = {0},
         a.res = "prp1" /\ b.res = "meta" /\ b.undo = {"prp1"},
         {a.how, b.how} \subseteq {"malloc", "read"}, ~Unseen(a), ~Unseen(b)
  PROVE  WellMade(c, Ppa(a, b, outs))
  <1> DEFINE o == Open({"prp1", "meta"})
             f == Ppa(a, b, outs)
  <1>1. f.acq = <<a, b, o>> /\ f.bare = {} /\ f.unset = {} /\ f.io = "raw" /\ f.outs = outs
        /\ f.last = {"fd", "prp1", "meta"}
    BY DEF Ppa, Cmd
  <1>2. o.res = "fd" /\ o.how = "open" /\ o.undo = {"prp1", "meta"}
    BY DEF Open
  <1> HIDE DEF f, o
  <1>3. Len(f.acq) = 3 /\ DOMAIN f.acq = 1..3 /\ f.acq[1] = a /\ f.acq[2] = b /\ f.acq[3] = o
    BY <1>1
  <1>4. \A i \in DOMAIN f.acq :
          /\ f.acq[i].res \in Resources \cap (f.last \cup Kept(c))
          /\ f.acq[i].how \in {"malloc", "open", "read", "maybe"}
          /\ f.acq[i].res # "badbin"
    BY <1>1, <1>2, <1>3 DEF Resources
  <1>5. \A i \in DOMAIN f.acq : ~Unseen(f.acq[i])
    BY <1>2, <1>3 DEF Unseen
  <1>6. \A i \in DOMAIN f.acq : \A j \in 1..i - 1 : f.acq[j].res \in f.acq[i].undo
    BY <1>2, <1>3
  <1> QED
    BY <1>1, <1>3, <1>4, <1>5, <1>6 DEF WellMade, f

LEMMA EntryMade == \A c \in Commands : WellMade(c, g_cmd_func_list[c])
  <1>1. WellMade("rdreg", rdreg)
    BY PlainMade DEF rdreg, Untold
  <1>2. WellMade("wrreg", wrreg)
    BY PlainMade DEF wrreg, Untold
  <1>3. WellMade("rdreg64", rdreg64)
    BY PlainMade DEF rdreg64, Untold
  <1>4. WellMade("wrreg64", wrreg64)
    BY PlainMade DEF wrreg64, Untold
  <1>5. WellMade("rddword", rddword)
    BY DEF rddword, Cmd, Malloc, Open, WellMade, Unseen, Kept, Careless, Untold, Tests, RawReads, Resources
  <1>6. WellMade("wrdword", wrdword)
    BY DEF wrdword, Cmd, Open, WellMade, Unseen, Kept, Careless, Untold, Tests, RawReads, Resources
  <1>7. WellMade("checkcq", checkcq)
    BY BufferedMade DEF checkcq, Resources
  <1>8. WellMade("checksq", checksq)
    <2>1. "pdata" \in Resources \ {"badbin"} /\ {0} \in SUBSET (0..2)
      BY DEF Resources
    <2> QED
      BY <2>1, BufferedMade DEF checksq
  <1>9. WellMade("dumpnexus", dumpnexus)
    BY DEF dumpnexus, Cmd, Malloc, Open, WellMade, Unseen, Kept, Careless, Untold, Tests, RawReads, Resources
  <1>10. WellMade("dumppci", dumppci)
    BY BufferedMade DEF dumppci, Resources
  <1>11. WellMade("delsq", delsq)
    BY PlainMade DEF delsq, Untold
  <1>12. WellMade("crtsq", crtsq)
    BY PlainMade DEF crtsq, Untold
  <1>13. WellMade("delcq", delcq)
    BY PlainMade DEF delcq, Untold
  <1>14. WellMade("crtcq", crtcq)
    BY PlainMade DEF crtcq, Untold
  <1>15. WellMade("getlp", getlp)
    BY BufferedMade DEF getlp, Resources, Filers
  <1>16. WellMade("idn", idn)
    BY BufferedMade DEF idn, Resources, Filers
  <1>17. WellMade("abort", abort)
    BY PlainMade DEF abort, Untold
  <1>18. WellMade("setft", setft)
    BY DEF setft, Cmd, ReadIfGiven, Open, WellMade, Unseen, Kept, Careless, Untold, Tests, RawReads, Resources
  <1>19. WellMade("getft", getft)
    BY BufferedMade DEF getft, Resources, Filers
  <1>20. WellMade("asyner", asyner)
    BY PlainMade DEF asyner, Untold
  <1>21. WellMade("fmtnvm", fmtnvm)
    BY PlainMade DEF fmtnvm, Untold
  <1>22. WellMade("fwdown", fwdown)
    BY DEF fwdown, Cmd, Read, Open, WellMade, Unseen, Kept, Careless, Untold, Tests, RawReads, Resources
  <1>23. WellMade("fwactv", fwactv)
    BY DEF fwactv, Cmd, Open, WellMade, Unseen, Kept, Careless, Untold, Tests, RawReads, Resources
  <1>24. WellMade("rstns", rstns)
    BY PlainMade DEF rstns, Untold
  <1>25. WellMade("wrppasync", wrppasync)
    BY PpaMade DEF wrppasync, Read, Unseen
  <1>26. WellMade("rdppasync", rdppasync)
    BY PpaMade DEF rdppasync, Malloc, Unseen, RawReads
  <1>27. WellMade("wrpparawsync", wrpparawsync)
    BY PpaMade DEF wrpparawsync, Read, Unseen
  <1>28. WellMade("rdpparawsync", rdpparawsync)
    BY PpaMade DEF rdpparawsync, Malloc, Unseen, RawReads
  <1>29. WellMade("ersppasync", ersppasync)
    BY DEF ersppasync, Cmd, Open, WellMade, Unseen, Kept, Careless, Untold, Tests, RawReads, Resources
  <1>30. WellMade("badblock", badblock)
    BY DEF badblock, Cmd, Malloc, Open, WellMade, Unseen, Kept, Careless, Untold, Tests, RawReads, Resources
  <1>31. WellMade("ersblock", ersblock)
    BY DEF ersblock, Cmd, ReadIfGiven, WellMade, Unseen, Kept, Careless, Untold, Tests, RawReads, Resources
  <1>32. WellMade("ersall", ersall)
    BY DEF ersall, Cmd, ReadIfGiven, WellMade, Unseen, Kept, Careless, Untold, Tests, RawReads, Resources
  <1>33. WellMade("getmac", getmac)
    BY PlainMade DEF getmac, Untold
  <1>34. WellMade("setmac", setmac)
    BY PlainMade DEF setmac, Untold
  <1>35. WellMade("rdregspa", rdregspa)
    BY BufferedMade DEF rdregspa, Resources, Filers
  <1>36. WellMade("wrregspa", wrregspa)
    BY DEF wrregspa, Cmd, Read, Open, WellMade, Unseen, Kept, Careless, Untold, Tests, RawReads, Resources
  <1>37. WellMade("datacheck", datacheck)
    BY DEF datacheck, Cmd, Test, Open, WellMade, Unseen, Kept, Careless, Untold, Tests, RawReads, Resources
  <1>38. WellMade("addrcheck", addrcheck)
    BY DEF addrcheck, Cmd, Test, Open, WellMade, Unseen, Kept, Careless, Untold, Tests, RawReads, Resources
  <1>39. WellMade("memcheck", memcheck)
    BY DEF memcheck, Cmd, Test, Open, WellMade, Unseen, Kept, Careless, Untold, Tests, RawReads, Resources
  <1>40. WellMade("autotest", autotest)
    BY PlainMade DEF autotest, Untold
  <1>41. WellMade("set_db_switch", set_db_switch)
    BY PlainMade DEF set_db_switch, Untold
  <1>42. WellMade("get_db_switch", get_db_switch)
    BY PlainMade DEF get_db_switch, Untold
  <1> QED
    BY <1>1, <1>2, <1>3, <1>4, <1>5, <1>6, <1>7, <1>8, <1>9, <1>10, <1>11, <1>12, <1>13, <1>14, <1>15, <1>16, <1>17, <1>18, <1>19, <1>20, <1>21, <1>22, <1>23, <1>24, <1>25, <1>26, <1>27, <1>28, <1>29, <1>30, <1>31, <1>32, <1>33, <1>34, <1>35, <1>36, <1>37, <1>38, <1>39, <1>40, <1>41, <1>42 DEF Commands, g_cmd_func_list

-----------------------------------------------------------------------------
(* The memory tests *)

\* The four kinds of fault: what they do to the lines they are on.
LEMMA FaultKinds ==
  ASSUME NEW f \in DdrFaults
  PROVE  \/ f = NoFault
         \/ \E lines \in {Data, Addr} :
              /\ f.bus = "data" => lines = Data
              /\ f.bus = "addr" => lines = Addr
              /\ f.bus \in {"data", "addr"}
              /\ \/ f.kind \in {"low", "high"} /\ \E i \in lines : f.on = {i}
                 \/ f.kind \in {"and", "or"} /\ \E i, j \in lines : i # j /\ f.on = {i, j}
  <1>1. ASSUME NEW bus, NEW lines \in {Data, Addr}, f \in Faults(bus, lines)
        PROVE  /\ f.bus = bus
               /\ \/ f.kind \in {"low", "high"} /\ \E i \in lines : f.on = {i}
                  \/ f.kind \in {"and", "or"} /\ \E i, j \in lines : i # j /\ f.on = {i, j}
    <2> \A i \in lines : i \in Int
      BY LinesAssumption DEF Data, Addr
    <2>1. CASE f \in [bus : {bus}, kind : {"low", "high"}, on : {{i} : i \in lines}]
      BY <2>1
    <2>2. CASE f \in [bus : {bus}, kind : {"and", "or"},
                     on : {{p[1], p[2]} : p \in {q \in lines \X lines : q[1] < q[2]}}]
      <3>1. f.bus = bus /\ f.kind \in {"and", "or"}
            /\ f.on \in {{p[1], p[2]} : p \in {q \in lines \X lines : q[1] < q[2]}}
        BY <2>2
      <3>2. PICK p \in lines \X lines : p[1] < p[2] /\ f.on = {p[1], p[2]}
        BY <3>1
      <3> QED
        BY <3>1, <3>2
    <2> QED
      BY <1>1, <2>1, <2>2 DEF Faults
  <1>2. f \in Faults("data", Data) \/ f \in Faults("addr", Addr) \/ f = NoFault
    BY DEF DdrFaults
  <1>3. CASE f \in Faults("data", Data)
    BY <1>1, <1>3
  <1>4. CASE f \in Faults("addr", Addr)
    BY <1>1, <1>4
  <1> QED
    BY <1>2, <1>3, <1>4

\* The write that a read of cell c brings back.
LastTo(f, w, c) ==
    CHOOSE i \in DOMAIN w :
        /\ Through(f, "addr", w[i].addr) = c
        /\ \A j \in DOMAIN w : Through(f, "addr", w[j].addr) = c => j <= i

LEMMA ReadBackIsLast ==
  ASSUME NEW f, NEW w, NEW a
  PROVE  ReadBack(f, w, a) = Through(f, "data", w[LastTo(f, w, Through(f, "addr", a))].word)
  BY DEF ReadBack, LastTo

\* A board without a fault brings back what was written if no address is
\* written twice.
LEMMA NoFaultNoMismatch ==
  ASSUME NEW w, DOMAIN w \subseteq Int,
         \A i, j \in DOMAIN w : w[i].addr = w[j].addr => i = j
  PROVE  ~Mismatch(NoFault, w)
  <1>1. \A b, x : Through(NoFault, b, x) = x \/ b = "none"
    BY DEF Through, NoFault
  <1> SUFFICES ASSUME NEW i \in DOMAIN w
               PROVE  ReadBack(NoFault, w, w[i].addr) = w[i].word
    BY DEF Mismatch
  <1>2. \A x : Through(NoFault, "addr", x) = x /\ Through(NoFault, "data", x) = x
    BY <1>1
  <1>3. LastTo(NoFault, w, w[i].addr) = i
    <2>1. i <= i
      OBVIOUS
    <2> QED
      BY <1>2, <2>1 DEF LastTo
  <1> QED
    BY <1>2, <1>3, ReadBackIsLast

\* Two addresses that go to one cell and were written with different words
\* cannot both be right: they read back the same.
LEMMA SharedCellMismatch ==
  ASSUME NEW f, f.bus # "data", NEW w, NEW i \in DOMAIN w, NEW j \in DOMAIN w,
         w[i].word # w[j].word,
         Through(f, "addr", w[i].addr) = Through(f, "addr", w[j].addr)
  PROVE  Mismatch(f, w)
  <1>1. ReadBack(f, w, w[i].addr) = ReadBack(f, w, w[j].addr)
    BY ReadBackIsLast
  <1> QED
    BY <1>1 DEF Mismatch

\* One write: what comes back is what went through the data bus.
LEMMA OneWrite ==
  ASSUME NEW f, NEW a, NEW x
  PROVE  Mismatch(f, <<[addr |-> a, word |-> x]>>) <=> Through(f, "data", x) # x
  <1> DEFINE w == <<[addr |-> a, word |-> x]>>
  <1>1. DOMAIN w = {1} /\ w[1].addr = a /\ w[1].word = x
    OBVIOUS
  <1> HIDE DEF w
  <1>2. LastTo(f, w, Through(f, "addr", a)) = 1
    <2>1. 1 <= 1
      OBVIOUS
    <2> QED
      BY <1>1, <2>1 DEF LastTo
  <1>3. ReadBack(f, w, a) = Through(f, "data", x)
    BY <1>1, <1>2, ReadBackIsLast
  <1>4. Mismatch(f, w) <=> Through(f, "data", x) # x
    BY <1>1, <1>3 DEF Mismatch
  <1> QED
    BY <1>4 DEF w

\* datacheck reports a fault if there is one on the data bus, and none if the
\* board has none.
LEMMA DataCheckFinds ==
  ASSUME NEW f \in DdrFaults
  PROVE  /\ DataCheck(f) => f # NoFault
         /\ f.bus = "data" => DataCheck(f)
  <1>1. DataCheck(f) <=> \E x \in {{i} : i \in Data} \cup {Data \ {i} : i \in Data} :
                            Through(f, "data", x) # x
    BY OneWrite DEF DataCheck
  <1>2. \A x : Through(NoFault, "data", x) = x
    BY DEF Through, NoFault
  <1>3. ASSUME f.bus = "data" PROVE DataCheck(f)
    <2>1. \/ f.kind \in {"low", "high"} /\ \E i \in Data : f.on = {i}
          \/ f.kind \in {"and", "or"} /\ \E i, j \in Data : i # j /\ f.on = {i, j}
      BY <1>3, FaultKinds DEF NoFault
    <2>2. ASSUME NEW i \in Data, f.kind = "low", f.on = {i}
          PROVE  Through(f, "data", {i}) # {i}
      BY <1>3, <2>2 DEF Through
    <2>3. ASSUME NEW i \in Data, f.kind = "high", f.on = {i}
          PROVE  Through(f, "data", Data \ {i}) # Data \ {i}
      BY <1>3, <2>3 DEF Through
    <2>4. ASSUME NEW i \in Data, NEW j \in Data, i # j, f.kind \in {"and", "or"}, f.on = {i, j}
          PROVE  Through(f, "data", {i}) # {i}
      BY <1>3, <2>4 DEF Through
    <2> QED
      BY <1>1, <2>1, <2>2, <2>3, <2>4
  <1> QED
    BY <1>1, <1>2, <1>3

\* What a walk writes.
LEMMA WalkIs ==
  ASSUME NEW first, NEW word, NEW a, NEW w, w = Walk(first, word, a)
  PROVE  /\ DOMAIN w = 1..AddrLines + 1
         /\ w[1].addr = first /\ w[1].word = word
         /\ \A i \in 1..AddrLines : w[i + 1].addr = a[i] /\ w[i + 1].word = a[i]
  <1> DEFINE s1 == <<[addr |-> first, word |-> word]>>
             s2 == [i \in 1..AddrLines |-> [addr |-> a[i], word |-> a[i]]]
             S == {[addr |-> first, word |-> word]} \cup {[addr |-> a[i], word |-> a[i]] : i \in 1..AddrLines}
  <1>1. s1 \in Seq(S) /\ Len(s1) = 1 /\ s1[1] = [addr |-> first, word |-> word]
    OBVIOUS
  <1>2. s2 \in Seq(S) /\ Len(s2) = AddrLines
        /\ \A i \in 1..AddrLines : s2[i] = [addr |-> a[i], word |-> a[i]]
    BY LinesAssumption
  <1>3. w = s1 \o s2
    BY DEF Walk
  <1> HIDE DEF s1, s2, S
  <1>4. DOMAIN (s1 \o s2) = 1..AddrLines + 1 /\ (s1 \o s2)[1] = s1[1]
        /\ \A i \in 1..AddrLines : (s1 \o s2)[i + 1] = s2[i]
    <2>1. s1 \in Seq(S) /\ s2 \in Seq(S)
      BY <1>1, <1>2
    <2>2. /\ s1 \o s2 \in Seq(S) /\ Len(s1 \o s2) = Len(s1) + Len(s2)
          /\ \A i \in 1..Len(s1) + Len(s2) :
                (s1 \o s2)[i] = IF i <= Len(s1) THEN s1[i] ELSE s2[i - Len(s1)]
      BY <2>1, ConcatProperties
    <2>3. DOMAIN (s1 \o s2) = 1..Len(s1 \o s2) /\ Len(s1 \o s2) = AddrLines + 1
      BY <1>1, <1>2, <2>2, LinesAssumption
    <2>4. (s1 \o s2)[1] = s1[1]
      <3>1. 1 \in 1..Len(s1) + Len(s2) /\ 1 <= Len(s1)
        BY <1>1, <1>2, LinesAssumption
      <3> QED
        BY <2>2, <3>1
    <2>5. ASSUME NEW i \in 1..AddrLines PROVE (s1 \o s2)[i + 1] = s2[i]
      <3>1. i + 1 \in 1..Len(s1) + Len(s2) /\ ~(i + 1 <= Len(s1)) /\ (i + 1) - Len(s1) = i
        BY <1>1, <1>2, LinesAssumption
      <3> QED
        BY <2>2, <3>1
    <2> QED
      BY <2>3, <2>4, <2>5
  <1> QED
    BY <1>1, <1>2, <1>3, <1>4

\* The first walk of addrcheck alone finds every fault of the address bus: a
\* line that is stuck, or joined to another by and, takes its address to that
\* of no line; two that are joined by or share a cell.
LEMMA AddrCheckFinds ==
  ASSUME NEW f \in DdrFaults
  PROVE  /\ AddrCheck(f) => f # NoFault
         /\ f.bus = "addr" => AddrCheck(f)
  <1> DEFINE a1 == [i \in 1..AddrLines |-> {i - 1}]
             a2 == [i \in 1..AddrLines |-> Addr \ {i - 1}]
             w1 == Walk({}, Other, a1)
             w2 == Walk(Addr, Addr, a2)
  <1>0. /\ DOMAIN a1 = 1..AddrLines /\ \A i \in 1..AddrLines : a1[i] = {i - 1}
        /\ DOMAIN a2 = 1..AddrLines /\ \A i \in 1..AddrLines : a2[i] = Addr \ {i - 1}
    OBVIOUS
  <1>d. AddrCheck(f) <=> Mismatch(f, w1) \/ Mismatch(f, w2)
    BY DEF AddrCheck
  <1> HIDE DEF a1, a2, w1, w2
  <1>1. /\ DOMAIN w1 = 1..AddrLines + 1 /\ w1[1].addr = {} /\ w1[1].word = Other
        /\ \A i \in 1..AddrLines : w1[i + 1].addr = {i - 1} /\ w1[i + 1].word = {i - 1}
    <2>1. w1 = Walk({}, Other, a1)
      BY DEF w1
    <2>2. /\ DOMAIN w1 = 1..AddrLines + 1 /\ w1[1].addr = {} /\ w1[1].word = Other
          /\ \A i \in 1..AddrLines : w1[i + 1].addr = a1[i] /\ w1[i + 1].word = a1[i]
      BY <2>1, WalkIs
    <2> QED
      BY <1>0, <2>2
  <1>2. /\ DOMAIN w2 = 1..AddrLines + 1 /\ w2[1].addr = Addr
        /\ \A i \in 1..AddrLines : w2[i + 1].addr = Addr \ {i - 1}
    <2>1. w2 = Walk(Addr, Addr, a2)
      BY DEF w2
    <2>2. /\ DOMAIN w2 = 1..AddrLines + 1 /\ w2[1].addr = Addr /\ w2[1].word = Addr
          /\ \A i \in 1..AddrLines : w2[i + 1].addr = a2[i] /\ w2[i + 1].word = a2[i]
      BY <2>1, WalkIs
    <2> QED
      BY <1>0, <2>2
  <1>4. \A i \in 1..AddrLines + 1 : i \in Int /\ (i # 1 => i - 1 \in 1..AddrLines /\ i = (i - 1) + 1)
    BY LinesAssumption
  <1>5. \A i \in 1..AddrLines : i \in Int /\ i - 1 \in Addr
    BY LinesAssumption DEF Addr
  <1>6. AddrCheck(f) => f # NoFault
    <2>1. \A i, j \in DOMAIN w1 : w1[i].addr = w1[j].addr => i = j
      <3>1. \A i \in DOMAIN w1 : i # 1 => w1[i].addr = {i - 2}
        BY <1>1, <1>4
      <3>2. \A i, j \in DOMAIN w1 : i - 2 = j - 2 => i = j
        BY <1>1, <1>4
      <3>3. \A i \in DOMAIN w1 : i = 1 => w1[i].addr = {}
        BY <1>1
      <3> QED
        BY <3>1, <3>2, <3>3
    <2>2. \A i, j \in DOMAIN w2 : w2[i].addr = w2[j].addr => i = j
      <3>1. \A i \in DOMAIN w2 : i # 1 => i - 2 \in Addr /\ w2[i].addr = Addr \ {i - 2}
        BY <1>2, <1>4, <1>5
      <3>2. \A i, j \in DOMAIN w2 : i - 2 = j - 2 => i = j
        BY <1>2, <1>4
      <3> QED
        BY <1>2, <3>1, <3>2
    <2>3. DOMAIN w1 \subseteq Int /\ DOMAIN w2 \subseteq Int
      BY <1>1, <1>2, <1>4
    <2>4. ~Mismatch(NoFault, w1)
      BY <2>1, <2>3, NoFaultNoMismatch
    <2>5. ~Mismatch(NoFault, w2)
      BY <2>2, <2>3, NoFaultNoMismatch
    <2> QED
      BY <1>d, <2>4, <2>5
  <1>7. ASSUME f.bus = "addr" PROVE Mismatch(f, w1)
    <2>1. \/ f.kind \in {"low", "high"} /\ \E i \in Addr : f.on = {i}
          \/ f.kind \in {"and", "or"} /\ \E i, j \in Addr : i # j /\ f.on = {i, j}
      BY <1>7, FaultKinds DEF NoFault
    <2>2. \A i \in Addr : i + 1 \in 1..AddrLines /\ (i + 1) - 1 = i
      BY LinesAssumption DEF Addr
    <2>3. \A i \in Addr : /\ (i + 1) + 1 \in DOMAIN w1
                         /\ w1[(i + 1) + 1].addr = {i} /\ w1[(i + 1) + 1].word = {i}
      BY <1>1, <2>2, LinesAssumption
    <2>4. 1 \in DOMAIN w1 /\ \A i \in Addr : w1[1].word # {i}
      BY <1>1, LinesAssumption DEF Other
    <2>5. ASSUME NEW i \in Addr, i \in f.on, f.kind # "or"
          PROVE  Mismatch(f, w1)
      <3>1. Through(f, "addr", {i}) = Through(f, "addr", {})
        BY <1>7, <2>1, <2>5 DEF Through
      <3> DEFINE k == (i + 1) + 1
      <3>2. k \in DOMAIN w1 /\ w1[k].addr = {i} /\ w1[k].word = {i}
        BY <2>3
      <3> HIDE DEF k
      <3>3. w1[1].word # w1[k].word /\ Through(f, "addr", w1[1].addr) = Through(f, "addr", w1[k].addr)
        BY <1>1, <2>4, <3>1, <3>2
      <3> QED
        BY <1>7, <2>4, <3>2, <3>3, SharedCellMismatch
    <2>6. ASSUME NEW i \in Addr, NEW j \in Addr, i # j, f.on = {i, j}, f.kind = "or"
          PROVE  Mismatch(f, w1)
      <3>1. Through(f, "addr", {i}) = Through(f, "addr", {j})
        BY <1>7, <2>6 DEF Through
      <3> DEFINE k == (i + 1) + 1
                 l == (j + 1) + 1
      <3>2. /\ k \in DOMAIN w1 /\ w1[k].addr = {i} /\ w1[k].word = {i}
            /\ l \in DOMAIN w1 /\ w1[l].addr = {j} /\ w1[l].word = {j}
        BY <2>3
      <3> HIDE DEF k, l
      <3>3. w1[k].word # w1[l].word /\ Through(f, "addr", w1[k].addr) = Through(f, "addr", w1[l].addr)
        BY <2>6, <3>1, <3>2
      <3> QED
        BY <1>7, <3>2, <3>3, SharedCellMismatch
    <2> QED
      BY <2>1, <2>5, <2>6
  <1> QED
    BY <1>d, <1>6, <1>7

\* Any two lines but those that are a byte apart are told apart by one of the
\* bytes of memcheck.
LEMMA BytesSeparate ==
  ASSUME NEW r \in 0..7, NEW s \in 0..7, r # s
  PROVE  \E b \in Bytes : (r \in b) # (s \in b)
  BY DEF Bytes

\* memcheck reports a fault of the data bus unless it joins lines that are a
\* byte apart, and none if the board has none.
LEMMA MemCheckFinds ==
  ASSUME NEW f \in DdrFaults
  PROVE  /\ MemCheck(f) => f # NoFault
         /\ f.bus = "data" => MemCheck(f) \/ \E i, j \in f.on : i # j /\ i % 8 = j % 8
  <1>1. MemCheck(f) => f # NoFault
    BY DEF MemCheck, Through, NoFault
  <1>2. \A i \in Data : i \in Int /\ i % 8 \in 0..7
    BY LinesAssumption DEF Data
  <1>3. ASSUME f.bus = "data", NEW b \in Bytes,
               Through(f, "data", {i \in Data : i % 8 \in b}) # {i \in Data : i % 8 \in b}
        PROVE  MemCheck(f)
    BY <1>3 DEF MemCheck, Patterns
  <1>4. ASSUME f.bus = "data", \A i, j \in f.on : i # j => i % 8 # j % 8
        PROVE  MemCheck(f)
    <2>1. \/ f.kind \in {"low", "high"} /\ \E i \in Data : f.on = {i}
          \/ f.kind \in {"and", "or"} /\ \E i, j \in Data : i # j /\ f.on = {i, j}
      BY <1>4, FaultKinds DEF NoFault
    <2>2. ASSUME NEW i \in Data, f.kind = "low", f.on = {i}
          PROVE  MemCheck(f)
      <3>1. 0..7 \in Bytes
        BY DEF Bytes
      <3>2. i \in {k \in Data : k % 8 \in 0..7}
        BY <1>2
      <3> QED
        BY <1>3, <1>4, <2>2, <3>1, <3>2 DEF Through
    <2>3. ASSUME NEW i \in Data, f.kind = "high", f.on = {i}
          PROVE  MemCheck(f)
      <3>1. {} \in Bytes
        BY DEF Bytes
      <3> QED
        BY <1>3, <1>4, <2>3, <3>1 DEF Through
    <2>4. ASSUME NEW i \in Data, NEW j \in Data, i # j, f.kind \in {"and", "or"}, f.on = {i, j}
          PROVE  MemCheck(f)
      <3>1. i % 8 # j % 8 /\ i % 8 \in 0..7 /\ j % 8 \in 0..7
        BY <1>2, <1>4, <2>4
      <3>2. PICK b \in Bytes : (i % 8 \in b) # (j % 8 \in b)
        BY <3>1, BytesSeparate
      <3> DEFINE word == {k \in Data : k % 8 \in b}
      <3>3. (i \in word) # (j \in word)
        BY <3>2
      <3> HIDE DEF word
      <3>4. Through(f, "data", word) # word
        BY <1>4, <2>4, <3>3 DEF Through
      <3> QED
        BY <1>3, <1>4, <3>4 DEF word
    <2> QED
      BY <2>1, <2>2, <2>3, <2>4
  <1> QED
    BY <1>1, <1>4

-----------------------------------------------------------------------------
(* A process, from its options to its end *)

\* ToolTypeOK without the part that BadBlocks has.
ToolTypes ==
    /\ pc \in {"shell", "acquire", "write", "body", "release", "done", "crashed"}
    /\ cmd \in Commands \cup {"none"}
    /\ step \in 1..6 /\ todoOuts \in 0..2
    /\ live \subseteq Resources /\ bad \subseteq Resources
    /\ buffer \in {"junk", "device"} /\ files \subseteq {"junk", "device"}
    /\ failed \subseteq {"malloc", "open", "read", "maybe", "file", "ioctl", "status",
                    "write", "short"}
    /\ ret \in {"ok", "error"}
    /\ fault \in DdrFaults
Flags == junk \in BOOLEAN /\ found \in BOOLEAN

\* Until the device is asked, nothing has been written or told.
Clean == files = {} /\ ~junk /\ ret = "ok"

\* What a process holds it got from an earlier step of its function, and so its
\* failures and its end know of it; and what it did not get either.
Held ==
    /\ pc = "shell" => live = {} /\ bad = {} /\ failed = {} /\ step = 1
    /\ pc # "shell" => cmd \in Commands /\ bad \subseteq Func.last /\ (bad # {} => cmd \in Careless)
    /\ pc = "acquire" =>
        /\ step \in 1..Len(Func.acq) + 1
        /\ \A r \in live : \E i \in DOMAIN Func.acq : i < step /\ r = Func.acq[i].res
    /\ pc \in {"write", "body", "release"} => live \subseteq Func.last \cup Kept(cmd)
    /\ pc = "done" => live \subseteq Kept(cmd)

\* An error that is not told of is one of a read nobody looks at, and such a
\* process does not come to its end, or a status that is taken for success.
\* What is in the buffers is the device's, or is told of, or came with a status,
\* or is not written.
Tells ==
    /\ ret = "ok" /\ bad = {} =>
          failed \subseteq {"short"} \cup (IF Func.io = "checked" THEN {"status"} ELSE {})
    /\ pc = "done" /\ ret = "ok" => bad = {}
    /\ pc \in {"shell", "acquire", "body"} => Clean
    /\ pc = "write" =>
        /\ Func.io \in {"checked", "raw"}
        /\ \/ buffer = "device"
           \/ Func.io = "raw" /\ ret = "error" /\ "ioctl" \in failed
           \/ Func.io = "checked" /\ "status" \in failed
        /\ Func.io = "raw" /\ cmd \notin RawReads => todoOuts = 0
        /\ Func.io = "checked" /\ cmd \notin Filers => todoOuts = 0

\* A command of BadBlocks runs only inside a body.
Runs ==
    /\ pc = "body" => bad = {} /\ Func.io \in {"scan", "erase"}
    /\ pc # "body" => job = "idle"
    /\ job # "erase" => issued = {}

ToolInv == ToolTypes /\ Flags /\ Held /\ Tells /\ Runs /\ NoJunk /\ CrashesKnown /\ DdrFaultFound

LEMMA ToolInitInv == ToolInit => ToolInv
  <1> SUFFICES ASSUME ToolInit PROVE ToolInv
    OBVIOUS
  <1> USE DEF ToolInit
  <1>1. ToolTypes
    BY DEF ToolTypes, DdrFaults
  <1>4. Flags
    BY Zenon DEF Flags
  <1>2. Held /\ Tells
    BY DEF Held, Tells, Clean
  <1>3. Runs /\ NoJunk /\ CrashesKnown /\ DdrFaultFound
    BY DEF BadInit, Runs, NoJunk, CrashesKnown, DdrFaultFound
  <1> QED
    BY <1>1, <1>2, <1>3, <1>4 DEF ToolInv

\* There are at most five steps.
LEMMA StepBound ==
  ASSUME NEW n \in 0..5, NEW k \in 1..n
  PROVE  k + 1 \in 1..6 /\ k + 1 \in 1..n + 1
  OBVIOUS

LEMMA ToolStepInv ==
  ASSUME ToolInv, BadTypeOK, [ToolNext]_vars
  PROVE  ToolInv'
  <1> USE DEF ToolInv, results, badVars, device, scan, erase, saved
  <1>w. \A c \in Commands : WellMade(c, g_cmd_func_list[c])
    BY EntryMade
  <1>f. cmd' = cmd => Func' = Func
    BY DEF Func
  <1>b. UNCHANGED results => Flags'
    BY DEF Flags
  <1>1. ASSUME NEW c \in Commands, Invoke(c)
        PROVE  ToolInv'
    <2>1. /\ pc = "shell" /\ cmd' = c /\ pc' \in {"acquire", "crashed"}
          /\ pc' = "crashed" => g_cmd_func_list[c].bare # {}
          /\ UNCHANGED <<step, live, bad, failed, ret, results, badVars>>
      BY <1>1 DEF Invoke
    <2>2. WellMade(c, g_cmd_func_list[c]) /\ Func' = g_cmd_func_list[c]
      BY <1>w, <2>1 DEF Func
    <2>3. ToolTypes' /\ Runs' /\ NoJunk' /\ DdrFaultFound' /\ Tells'
      <3>1. failed' = {}
        BY <2>1 DEF Held
      <3>2. Tells'
        BY <2>1, <3>1 DEF Tells, Clean
      <3> QED
        BY <2>1, <3>2 DEF ToolTypes, Runs, NoJunk, DdrFaultFound, Tells, Clean
    <2>4. Held'
      BY <2>1, <2>2 DEF Held, WellMade
    <2>5. CrashesKnown'
      BY <2>1, <2>2 DEF CrashesKnown, WellMade, Runs
    <2>6. Flags'
      BY <1>b, <2>1
    <2> QED
      BY <2>3, <2>4, <2>5, <2>6
  <1>2. CASE Acquire
    <2> DEFINE s == Func.acq[step]
    <2>1. /\ pc = "acquire" /\ step \in DOMAIN Func.acq /\ step' = step + 1
          /\ pc' \in {"acquire", "release"} /\ live' \subseteq live \cup {s.res}
          /\ pc' = "acquire" => UNCHANGED <<failed, ret>>
          /\ pc' = "release" => /\ s.res = "badbin" /\ ret' = "error"
                               /\ failed' = failed \cup {"file"}
          /\ UNCHANGED <<cmd, given, bad, results, badVars>>
      BY <1>2 DEF Acquire
    <2>2. WellMade(cmd, Func) /\ Func' = Func /\ cmd \in Commands
      BY <1>w, <1>f, <2>1 DEF Func, Held
    <2> HIDE DEF s
    <2>3. /\ Len(Func.acq) \in 0..5 /\ DOMAIN Func.acq = 1..Len(Func.acq)
          /\ s.res \in Resources \cap (Func.last \cup Kept(cmd))
          /\ s.res = "badbin" => Func.io = "erase"
      BY <2>1, <2>2 DEF WellMade, s
    <2>4. ToolTypes'
      <3>0. Len(Func.acq) \in 0..5 /\ step \in 1..Len(Func.acq)
        BY <2>1, <2>3
      <3>1. step' \in 1..6
        BY <2>1, <3>0, StepBound DEF ToolTypes
      <3>2. live' \subseteq Resources /\ bad' \subseteq Resources
        BY <2>1, <2>3 DEF ToolTypes
      <3> QED
        BY <2>1, <2>3, <3>1, <3>2 DEF ToolTypes
    <2>5. Held'
      <3>1. \A r \in live' : \E i \in DOMAIN Func.acq : i < step' /\ r = Func.acq[i].res
        BY <2>1, <2>3 DEF Held, s
      <3>2. live' \subseteq Func.last \cup Kept(cmd)
        <4>1. \A i \in DOMAIN Func.acq : Func.acq[i].res \in Func.last \cup Kept(cmd)
          BY <2>2 DEF WellMade
        <4> QED
          BY <3>1, <4>1
      <3> QED
        BY <2>1, <2>2, <2>3, <3>1, <3>2 DEF Held
    <2>6. Tells'
      BY <2>1, <2>2 DEF Tells, Clean
    <2>7. Runs' /\ NoJunk' /\ CrashesKnown'
      BY <2>1 DEF Runs, NoJunk, CrashesKnown, Tells, Clean
    <2>8. DdrFaultFound'
      BY <2>1, <2>2, <2>3 DEF DdrFaultFound
    <2>9. Flags'
      BY <1>b, <2>1
    <2> QED
      BY <2>4, <2>5, <2>6, <2>7, <2>8, <2>9
  <1>3. CASE AcquireFails
    <2> DEFINE s == Func.acq[step]
    <2>1. /\ pc = "acquire" /\ step \in DOMAIN Func.acq
          /\ failed' = failed \cup {s.how}
          /\ IF Unseen(s)
             THEN bad' = bad \cup {s.res} /\ step' = step + 1 /\ UNCHANGED <<pc, live, ret>>
             ELSE /\ live' = live \ s.undo /\ ret' = "error"
                  /\ pc' = IF bad \cap s.undo = {} THEN "done" ELSE "crashed"
                  /\ UNCHANGED <<bad, step>>
          /\ UNCHANGED <<cmd, given, results, badVars>>
      BY <1>3 DEF AcquireFails, Unseen
    <2>2. WellMade(cmd, Func) /\ Func' = Func /\ cmd \in Commands
      BY <1>w, <1>f, <2>1 DEF Func, Held
    <2> HIDE DEF s
    <2>3. /\ Len(Func.acq) \in 0..5 /\ DOMAIN Func.acq = 1..Len(Func.acq)
          /\ s.res \in Resources /\ s.how \in {"malloc", "open", "read", "maybe"}
          /\ Unseen(s) => s.res \in Func.last /\ cmd \in Careless
          /\ \A j \in 1..step - 1 : Func.acq[j].res \in s.undo \cup Kept(cmd)
      BY <2>1, <2>2 DEF WellMade, s
    <2>4. ToolTypes'
      <3>0. Len(Func.acq) \in 0..5 /\ step \in 1..Len(Func.acq)
        BY <2>1, <2>3
      <3>1. step' \in 1..6
        BY <2>1, <3>0, StepBound DEF ToolTypes
      <3>2. live' \subseteq Resources /\ bad' \subseteq Resources
        BY <2>1, <2>3 DEF ToolTypes
      <3> QED
        BY <2>1, <2>3, <3>1, <3>2 DEF ToolTypes
    <2>5. Held'
      <3>1. CASE Unseen(s)
        BY <2>1, <2>2, <2>3, <3>1 DEF Held
      <3>2. CASE ~Unseen(s)
        <4>1. \A r \in live : \E i \in 1..step - 1 : r = Func.acq[i].res
          BY <2>1, <2>3 DEF Held
        <4>2. live \ s.undo \subseteq Kept(cmd)
          BY <2>3, <4>1
        <4> QED
          BY <2>1, <2>2, <3>2, <4>2 DEF Held
      <3> QED
        BY <3>1, <3>2
    <2>6. Tells'
      BY <2>1 DEF Tells, Clean
    <2>7. Runs' /\ NoJunk' /\ DdrFaultFound'
      BY <2>1 DEF Runs, NoJunk, DdrFaultFound, Tells, Clean
    <2>8. CrashesKnown'
      BY <2>1 DEF CrashesKnown, Held, Careless, Runs
    <2>9. Flags'
      BY <1>b, <2>1
    <2> QED
      BY <2>4, <2>5, <2>6, <2>7, <2>8, <2>9
  <1>4. CASE Ioctl
    <2>1. /\ pc = "acquire" /\ step = Len(Func.acq) + 1 /\ Func.io \in {"checked", "raw"}
          /\ todoOuts' \in Func.outs /\ junk' = (Func.unset \ given # {})
          /\ UNCHANGED <<cmd, given, step, live, bad, files, fault, found, badVars>>
      BY <1>4 DEF Ioctl, Ready
    <2>2. \/ buffer' = "device" /\ pc' = "write" /\ UNCHANGED <<failed, ret>>
          \/ failed' = failed \cup {"ioctl"} /\ ret' = "error" /\ buffer' = "junk"
             /\ pc' = IF Func.io = "raw" THEN "write" ELSE "release"
          \/ Func.io = "checked" /\ failed' = failed \cup {"status"}
             /\ buffer' = "junk" /\ pc' = "write" /\ UNCHANGED ret
      BY <1>4 DEF Ioctl
    <2>3. WellMade(cmd, Func) /\ Func' = Func /\ cmd \in Commands
      BY <1>w, <1>f, <2>1 DEF Func, Held
    <2>4. ToolTypes'
      <3>1. todoOuts' \in 0..2
        BY <2>1, <2>3 DEF WellMade
      <3> QED
        BY <2>1, <2>2, <3>1 DEF ToolTypes
    <2>5. Flags'
      BY <2>1, Zenon DEF Flags
    <2>6. Held'
      <3>1. \A i \in DOMAIN Func.acq : Func.acq[i].res \in Func.last \cup Kept(cmd)
        BY <2>3 DEF WellMade
      <3>2. live \subseteq Func.last \cup Kept(cmd)
        BY <2>1, <3>1 DEF Held
      <3> QED
        BY <2>1, <2>2, <2>3, <3>2 DEF Held
    <2>7. Tells'
      BY <2>1, <2>2, <2>3 DEF Tells, Clean, WellMade
    <2>8. Runs' /\ CrashesKnown'
      BY <2>1, <2>2 DEF Runs, CrashesKnown
    <2>9. NoJunk'
      <3>1. junk' => cmd \in Untold
        BY <2>1, <2>3 DEF WellMade
      <3> QED
        BY <2>1, <3>1 DEF NoJunk, Untold, Tells, Clean
    <2>10. DdrFaultFound'
      BY <2>1, <2>2, <2>3 DEF DdrFaultFound
    <2> QED
      BY <2>4, <2>5, <2>6, <2>7, <2>8, <2>9, <2>10
  <1>5. CASE WriteFile
    <2>1. /\ pc = "write" /\ todoOuts > 0
          /\ UNCHANGED <<cmd, given, step, live, bad, buffer, junk, fault, found, badVars>>
          /\ \/ /\ todoOuts' = todoOuts - 1 /\ files' = files \cup {buffer}
                /\ failed' \in {failed, failed \cup {"short"}} /\ UNCHANGED <<pc, ret>>
             \/ /\ failed' = failed \cup {"write"} /\ ret' = "error" /\ pc' = "release"
                /\ UNCHANGED <<todoOuts, files>>
      BY <1>5 DEF WriteFile
    <2>2. Func' = Func /\ Func.io \in {"checked", "raw"}
      BY <1>f, <2>1 DEF Tells
    <2>3. /\ Func.io = "raw" => cmd \in RawReads
          /\ Func.io = "checked" => cmd \in Filers
      BY <2>1 DEF Tells
    <2>4. ToolTypes'
      <3>1. todoOuts' \in 0..2
        BY <2>1 DEF ToolTypes
      <3> QED
        BY <2>1, <3>1 DEF ToolTypes
    <2>5. Flags'
      BY <2>1 DEF Flags
    <2>6. Held' /\ Runs' /\ CrashesKnown'
      BY <2>1, <2>2 DEF Held, Runs, CrashesKnown
    <2>7. Tells'
      BY <2>1, <2>2, <2>3 DEF Tells
    <2>8. NoJunk'
      BY <2>1, <2>2, <2>3 DEF NoJunk, Tells, RawReads, Filers
    <2>9. DdrFaultFound'
      BY <2>1, <2>2 DEF DdrFaultFound
    <2> QED
      BY <2>4, <2>5, <2>6, <2>7, <2>8, <2>9
  <1>6. CASE Written
    <2>1. /\ pc = "write" /\ pc' = "release"
          /\ UNCHANGED <<cmd, given, step, live, bad, failed, ret, results, badVars>>
      BY <1>6 DEF Written
    <2>2. Func' = Func
      BY <1>f, <2>1
    <2>3. ToolTypes' /\ Held' /\ Tells' /\ Runs' /\ CrashesKnown' /\ NoJunk'
      BY <2>1, <2>2 DEF ToolTypes, Held, Tells, Runs, CrashesKnown, NoJunk
    <2>4. Flags' /\ DdrFaultFound'
      BY <1>b, <2>1, <2>2 DEF DdrFaultFound, Tells
    <2> QED
      BY <2>3, <2>4
  <1>7. CASE StartBody
    <2>1. /\ pc = "acquire" /\ step = Len(Func.acq) + 1 /\ Func.io \in {"scan", "erase"}
          /\ UNCHANGED <<cmd, given, step, live, bad, failed, ret, results>>
          /\ IF bad # {} THEN pc' = "crashed" /\ UNCHANGED badVars ELSE pc' = "body"
      BY <1>7 DEF StartBody, Ready
    <2>2. WellMade(cmd, Func) /\ Func' = Func /\ cmd \in Commands
      BY <1>w, <1>f, <2>1 DEF Func, Held
    <2>3. ToolTypes' /\ Flags' /\ NoJunk'
      BY <1>b, <2>1 DEF ToolTypes, NoJunk
    <2>4. Held'
      <3>1. \A i \in DOMAIN Func.acq : Func.acq[i].res \in Func.last \cup Kept(cmd)
        BY <2>2 DEF WellMade
      <3>2. live \subseteq Func.last \cup Kept(cmd)
        BY <2>1, <3>1 DEF Held
      <3> QED
        BY <2>1, <2>2, <3>2 DEF Held
    <2>5. Tells' /\ DdrFaultFound'
      BY <2>1 DEF Tells, Clean, DdrFaultFound
    <2>6. Runs'
      <3>1. CASE bad # {}
        BY <2>1, <3>1 DEF Runs
      <3>2. CASE bad = {}
        <4>1. job = "idle" /\ issued = {}
          BY <2>1 DEF Runs
        <4>2. job' = "erase" \/ issued' = issued
          BY <1>7, <3>2 DEF StartBody, StartScan, StartErase
        <4>3. (job # "erase" => issued = {})'
          BY <4>1, <4>2
        <4> QED
          BY <2>1, <2>2, <3>2, <4>3 DEF Runs
      <3> QED
        BY <3>1, <3>2
    <2>7. CrashesKnown'
      BY <2>1, <2>2 DEF CrashesKnown, Runs, Held, Careless
    <2> QED
      BY <2>3, <2>4, <2>5, <2>6, <2>7
  <1>8. CASE Body
    <2>1. pc = "body" /\ BadStep
          /\ UNCHANGED <<pc, cmd, given, step, live, bad, failed, ret, results>>
      BY <1>8 DEF Body, toolVars
    <2>2. Func' = Func
      BY <1>f, <2>1
    <2>3. (job # "erase" => issued = {})'
      <3>1. CASE EraseBlock
        BY <3>1 DEF EraseBlock
      <3>2. CASE EraseEnds
        BY <3>2 DEF EraseEnds, EraseOver
      <3>3. CASE ScanPlane \/ ScanStops \/ SaveTable
        BY <3>3 DEF ScanPlane, ScanStops, SaveTable, ScanOver, Runs
      <3> QED
        BY <2>1, <3>1, <3>2, <3>3 DEF BadStep
    <2>4. ToolTypes' /\ Held' /\ Tells' /\ Runs' /\ NoJunk' /\ CrashesKnown'
      BY <2>1, <2>2, <2>3 DEF ToolTypes, Held, Tells, Clean, Runs, NoJunk, CrashesKnown
    <2>5. Flags' /\ DdrFaultFound'
      BY <1>b, <2>1, <2>2 DEF DdrFaultFound
    <2> QED
      BY <2>4, <2>5
  <1>9. CASE EndBody
    <2>1. /\ pc = "body" /\ job = "idle" /\ pc' = "release" /\ ret' = status
          /\ UNCHANGED <<cmd, given, step, live, bad, failed, results, badVars>>
      BY <1>9 DEF EndBody
    <2>2. Func' = Func
      BY <1>f, <2>1
    <2>3. ToolTypes'
      BY <2>1 DEF ToolTypes, BadTypeOK
    <2>4. Held' /\ Tells' /\ Runs' /\ NoJunk' /\ CrashesKnown'
      BY <2>1, <2>2 DEF Held, Tells, Clean, Runs, NoJunk, CrashesKnown
    <2>5. Flags' /\ DdrFaultFound'
      BY <1>b, <2>1, <2>2 DEF DdrFaultFound, Runs
    <2> QED
      BY <2>3, <2>4, <2>5
  <1>10. CASE TestMemory
    <2>1. /\ pc = "acquire" /\ step = Len(Func.acq) + 1 /\ Func.io = "test" /\ pc' = "release"
          /\ fault' \in DdrFaults /\ ret' \in {"ok", "error"}
          /\ UNCHANGED <<cmd, given, step, live, bad, failed, buffer, files, todoOuts, junk, badVars>>
      BY <1>10 DEF TestMemory, Ready
    <2>2. found' = CASE cmd = "datacheck" -> DataCheck(fault')
                     [] cmd = "addrcheck" -> AddrCheck(fault')
                     [] cmd = "memcheck"  -> MemCheck(fault')
      BY <1>10 DEF TestMemory
    <2>3. WellMade(cmd, Func) /\ Func' = Func /\ cmd \in Commands
      BY <1>w, <1>f, <2>1 DEF Func, Held
    <2>4. cmd \in Tests
      BY <2>1, <2>3 DEF WellMade
    <2>5. ToolTypes' /\ Runs' /\ NoJunk' /\ CrashesKnown' /\ Tells'
      BY <2>1 DEF ToolTypes, Runs, NoJunk, CrashesKnown, Tells, Clean
    <2>6. Held'
      <3>1. \A i \in DOMAIN Func.acq : Func.acq[i].res \in Func.last \cup Kept(cmd)
        BY <2>3 DEF WellMade
      <3>2. live \subseteq Func.last \cup Kept(cmd)
        BY <2>1, <3>1 DEF Held
      <3> QED
        BY <2>1, <2>3, <3>2 DEF Held
    <2>7. Flags' /\ DdrFaultFound'
      <3>1. CASE cmd = "datacheck"
        <4>1. found' = DataCheck(fault')
          BY <2>2, <3>1
        <4>2. Flags'
          BY <2>1, <4>1, Zenon DEF Flags, DataCheck
        <4> QED
          BY <2>1, <3>1, <4>1, <4>2, DataCheckFinds DEF DdrFaultFound
      <3>2. CASE cmd = "addrcheck"
        <4>1. found' = AddrCheck(fault')
          BY <2>2, <3>2
        <4>2. Flags'
          BY <2>1, <4>1, Zenon DEF Flags, AddrCheck
        <4> QED
          BY <2>1, <3>2, <4>1, <4>2, AddrCheckFinds DEF DdrFaultFound
      <3>3. CASE cmd = "memcheck"
        <4>1. found' = MemCheck(fault')
          BY <2>2, <3>3
        <4>2. Flags'
          BY <2>1, <4>1, Zenon DEF Flags, MemCheck
        <4> QED
          BY <2>1, <3>3, <4>1, <4>2, MemCheckFinds DEF DdrFaultFound
      <3> QED
        BY <2>4, <3>1, <3>2, <3>3 DEF Tests
    <2> QED
      BY <2>5, <2>6, <2>7
  <1>11. CASE Release
    <2>1. /\ pc = "release" /\ UNCHANGED <<cmd, given, step, bad, failed, ret, results, badVars>>
          /\ IF bad \cap Func.last # {} THEN pc' = "crashed" /\ live' = live
             ELSE pc' = "done" /\ live' = live \ Func.last
      BY <1>11 DEF Release
    <2>2. Func' = Func
      BY <1>f, <2>1
    <2>3. ToolTypes' /\ Held' /\ Tells' /\ Runs' /\ NoJunk'
      BY <2>1, <2>2 DEF ToolTypes, Held, Tells, Runs, NoJunk
    <2>4. CrashesKnown'
      BY <2>1, <2>2 DEF CrashesKnown, Held, Careless, Runs
    <2>5. Flags' /\ DdrFaultFound'
      BY <1>b, <2>1 DEF DdrFaultFound
    <2> QED
      BY <2>3, <2>4, <2>5
  <1>12. CASE Exit
    <2>1. pc' = "shell" /\ Reset /\ UNCHANGED badVars /\ pc \in {"done", "crashed"}
      BY <1>12 DEF Exit
    <2>2. ToolTypes'
      BY <2>1 DEF Reset, ToolTypes, DdrFaults
    <2>3. Flags'
      BY <2>1, Zenon DEF Reset, Flags
    <2>4. Held' /\ Tells' /\ Runs' /\ NoJunk' /\ CrashesKnown' /\ DdrFaultFound'
      BY <2>1 DEF Reset, Held, Tells, Clean, Runs, NoJunk, CrashesKnown, DdrFaultFound
    <2> QED
      BY <2>2, <2>3, <2>4
  <1>13. CASE UNCHANGED vars
    <2>1. UNCHANGED <<pc, cmd, given, step, live, bad, failed, ret, results, badVars>>
      BY <1>13 DEF vars, toolVars
    <2>2. Func' = Func
      BY <1>f, <2>1
    <2>3. ToolTypes' /\ Held' /\ Tells' /\ Runs' /\ NoJunk' /\ CrashesKnown'
      BY <2>1, <2>2 DEF ToolTypes, Held, Tells, Clean, Runs, NoJunk, CrashesKnown
    <2>4. Flags' /\ DdrFaultFound'
      BY <1>b, <2>1, <2>2 DEF DdrFaultFound
    <2> QED
      BY <2>3, <2>4
  <1> QED
    BY <1>1, <1>2, <1>3, <1>4, <1>5, <1>6, <1>7, <1>8, <1>9, <1>10, <1>11, <1>12, <1>13 DEF ToolNext

\* The invariant, with the types of the variables of BadBlocks.
LEMMA ToolAlways == ToolSpec => [](ToolInv /\ BadTypeOK)
  <1>1. ToolInv /\ BadTypeOK /\ [ToolNext]_vars => ToolInv'
    BY ToolStepInv
  <1> QED
    BY ToolInitInv, <1>1, ToolImplementsBadBlocks, BadTypes, PTL DEF ToolSpec

\* Every variable of a process of the tool has its type, whatever fails in it.
THEOREM ToolTypesHold == ToolSpec => []ToolTypeOK
  <1>1. Flags => {junk, found} \subseteq BOOLEAN
    BY Zenon DEF Flags
  <1>2. ToolInv /\ BadTypeOK => ToolTypeOK
    BY <1>1 DEF ToolInv, ToolTypes, ToolTypeOK
  <1> QED
    BY ToolAlways, <1>2, PTL

\* Whichever steps of a command fail, it returns with everything released, and
\* with an error if it met any but a short write or, where the result of the
\* ioctl is checked, a status of the device.
THEOREM CommandsEndWell == ToolSpec => []EndsWell
  <1>1. ToolInv => EndsWell
    BY DEF ToolInv, Held, Tells, Kept, EndsWell
  <1> QED
    BY ToolAlways, <1>1, PTL

\* Only the five careless functions can crash, and no erase crashes after it
\* has begun.
THEOREM OnlyKnownCrashes == ToolSpec => []CrashesKnown
  <1>1. ToolInv => CrashesKnown
    BY DEF ToolInv
  <1> QED
    BY ToolAlways, <1>1, PTL

\* Nothing that was never set reaches the device, but by the commands that are
\* known to let it; nor a file, but by the two that tell of it and by the four
\* that take a status for success, when they met one.
THEOREM JunkStaysInside == ToolSpec => []NoJunk
  <1>1. ToolInv => NoJunk
    BY DEF ToolInv
  <1> QED
    BY ToolAlways, <1>1, PTL

\* For buses of any width, each memory test finds a single fault of its bus, but
\* for two data lines a byte apart, and none on a board that has none.
THEOREM MemoryFaultsFound == ToolSpec => []DdrFaultFound
  <1>1. ToolInv => DdrFaultFound
    BY DEF ToolInv
  <1> QED
    BY ToolAlways, <1>1, PTL
=============================================================================
