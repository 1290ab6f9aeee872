----------------------------- MODULE NexusTool ------------------------------
(***************************************************************************)
(* The NVMe command line tool (vssd_code/parser_nexus.c, cmd.c).  Every    *)
(* command is a process of its own that runs one function of the table:    *)
(* it reads its options, acquires buffers, files and the device, each      *)
(* failure undoing what was acquired before, talks to the device, writes   *)
(* what it read to its output files and releases everything.  A function   *)
(* is the record of what it does at each of these places; BadBlocks and    *)
(* DdrCheck are what badblock, the erases and the memory tests do inside.  *)
(***************************************************************************)
EXTENDS BadBlocks, DdrCheck

CONSTANT Later   \* bound: the commands that are run once a table is saved

\* A step that acquires something: what its failure path releases, and which
\* value of a failed parse_read_file, (void*)ERROR, it looks for.
Malloc(r, undo)     == [how |-> "malloc", res |-> r, undo |-> undo, test |-> "NULL"]
Open(undo)          == [how |-> "open", res |-> "fd", undo |-> undo, test |-> "<0"]
Read(r, undo, test) == [how |-> "read", res |-> r, undo |-> undo, test |-> test]
ReadIfGiven(r, test) == [how |-> "maybe", res |-> r, undo |-> {}, test |-> test]

\* A function: the options without which a field of its request is never set,
\* those whose argument getopt is not told of, the steps, how it takes the
\* result of its ioctl, the numbers of files it may write (or print) and what
\* it releases at its end.
Cmd(unset, bare, acq, io, outs, last) ==
    [unset |-> unset, bare |-> bare, acq |-> acq, io |-> io, outs |-> outs, last |-> last]

\* Open, one checked ioctl, close; nothing else is held.
Plain(unset) == Cmd(unset, {}, <<Open({})>>, "checked", {0}, {"fd"})
\* A buffer first.
Buffered(r, outs) ==
    Cmd({}, {}, <<Malloc(r, {}), Open({r})>>, "checked", outs, {"fd", r})

(* Registers and memory. *)
rdreg     == Plain({"r"})
wrreg     == Plain({"r", "v"})
rdreg64   == Plain({"r"})
wrreg64   == Plain({"r", "v"})
rddword   == Cmd({"a"}, {}, <<Malloc("pdata", {}), Open({"pdata"})>>, "raw", {0}, {"fd", "pdata"})
wrdword   == Cmd({"a", "v"}, {}, <<Open({})>>, "raw", {0}, {"fd"})
checkcq   == Buffered("pdata", {0})
checksq   == Buffered("pdata", {0})
dumppci   == Buffered("cmd_para", {0})
\* nsid_active is never freed once nvme_reg_stru and it are there.
dumpnexus == Cmd({}, {}, <<Malloc("nvme_reg_stru", {}), Malloc("nsid_active", {"nvme_reg_stru"}),
                       Open({"nvme_reg_stru"})>>, "checked", {0}, {"fd", "nvme_reg_stru"})
getmac    == Plain({})
setmac    == Plain({})
rdregspa  == Buffered("prp1", {1})
\* Mutant of wrregspa: the file is compared with NULL.
wrregspaNull == Cmd({}, {}, <<Read("prp1", {}, "NULL"), Open({"prp1"})>>, "checked", {0}, {"fd", "prp1"})

wrregspa  == Cmd({}, {}, <<Read("prp1", {}, "ERROR"), Open({"prp1"})>>, "checked", {0}, {"fd", "prp1"})
autotest  == Plain({"v"})
set_db_switch == Plain({"c"})
get_db_switch == Plain({})

(* Administration. *)
delsq  == Plain({})
crtsq  == Plain({})
delcq  == Plain({})
crtcq  == Plain({})
getlp  == Buffered("prp1", {1})
\* Mutant of idn: the result of the ioctl is not looked at.
idnRaw == Cmd({}, {}, <<Malloc("prp1", {}), Open({"prp1"})>>, "raw", {1}, {"fd", "prp1"})

idn    == Buffered("prp1", {1})
abort  == Plain({})
setft  == Cmd({}, {}, <<ReadIfGiven("prp1", "none"), Open({"prp1"})>>, "checked", {0}, {"fd", "prp1"})
getft  == Buffered("prp1", {0, 1})
asyner == Plain({})
fmtnvm == Plain({})
fwdown == Cmd({}, {"f"}, <<Read("prp1", {}, "NULL"), Open({"prp1"})>>, "checked", {0}, {"fd", "prp1"})
fwactv == Cmd({}, {"s"}, <<Open({})>>, "checked", {0}, {"fd"})
rstns  == Plain({"n"})

(* Physical pages. *)
Ppa(prp1, meta, outs) ==
    Cmd({}, {}, <<prp1, meta, Open({"prp1", "meta"})>>, "raw", outs, {"fd", "prp1", "meta"})
wrppasync    == Ppa(Read("prp1", {}, "ERROR"), Read("meta", {"prp1"}, "ERROR"), {0})
wrpparawsync == Ppa(Read("prp1", {}, "ERROR"), Read("meta", {"prp1"}, "ERROR"), {0})
\* Mutant of rdppasync: its second buffer fails and the first is not freed.
rdppasyncLeaks == Ppa(Malloc("prp1", {}), Malloc("meta", {}), {2})

rdppasync    == Ppa(Malloc("prp1", {}), Malloc("meta", {"prp1"}), {2})
rdpparawsync == Ppa(Malloc("prp1", {}), Malloc("meta", {"prp1"}), {2})
ersppasync   == Cmd({}, {}, <<Open({})>>, "raw", {0}, {"fd"})

(* Those with a body. *)
badblock == Cmd({}, {}, <<Malloc("prp1", {}), Malloc("meta", {"prp1"}), Malloc("table", {"meta", "prp1"}),
                      Open({"table", "meta", "prp1"}),
                      [Open({"fd", "table", "meta", "prp1"}) EXCEPT !.res = "fp"]>>,
                "scan", {0}, {"fp", "fd", "table", "meta", "prp1"})
ersblock == Cmd({}, {}, <<ReadIfGiven("badbin", "NULL")>>, "erase", {0}, {"badbin"})
ersall   == Cmd({}, {}, <<ReadIfGiven("badbin", "NULL")>>, "erase", {0}, {"badbin"})
Test == Cmd({}, {}, <<Open({})>>, "test", {0}, {"fd"})
datacheck == Test
addrcheck == Test
memcheck  == Test

\* g_cmd_func_list, and the two switches that are not in it.
g_cmd_func_list == [
    rdreg |-> rdreg, wrreg |-> wrreg, rdreg64 |-> rdreg64, wrreg64 |-> wrreg64,
    rddword |-> rddword, wrdword |-> wrdword, checkcq |-> checkcq, checksq |-> checksq,
    dumpnexus |-> dumpnexus, dumppci |-> dumppci, delsq |-> delsq, crtsq |-> crtsq,
    delcq |-> delcq, crtcq |-> crtcq, getlp |-> getlp, idn |-> idn, abort |-> abort,
    setft |-> setft, getft |-> getft, asyner |-> asyner, fmtnvm |-> fmtnvm,
    fwdown |-> fwdown, fwactv |-> fwactv, rstns |-> rstns, wrppasync |-> wrppasync,
    rdppasync |-> rdppasync, wrpparawsync |-> wrpparawsync, rdpparawsync |-> rdpparawsync,
    ersppasync |-> ersppasync, badblock |-> badblock, ersblock |-> ersblock,
    ersall |-> ersall, getmac |-> getmac, setmac |-> setmac, rdregspa |-> rdregspa,
    wrregspa |-> wrregspa, datacheck |-> datacheck, addrcheck |-> addrcheck,
    memcheck |-> memcheck, autotest |-> autotest,
    set_db_switch |-> set_db_switch, get_db_switch |-> get_db_switch]
Commands == DOMAIN g_cmd_func_list
\* The options that change what a function does.
Options(c) ==
    LET f == g_cmd_func_list[c] IN
    f.unset \cup f.bare \cup {o \in {"f"} : \E i \in DOMAIN f.acq : f.acq[i].how = "maybe"}

VARIABLES
    pc,         \* where the process is
    cmd,        \* the command it runs
    given,      \* its options, as far as they matter
    step,       \* the step of its acquisitions
    live,       \* what it holds
    bad,        \* pointers that are (void*)ERROR
    buffer,     \* what its buffers hold: "junk" or what the "device" gave
    files,      \* what the files it has written hold
    todoOuts,   \* files it has still to write
    junk,       \* has a request with an unset field reached the device?
    failed,     \* what has gone wrong (history)
    ret,        \* what it returns
    fault,      \* what is wrong with the memory it tests
    found       \* has it reported it?

results  == <<buffer, files, todoOuts, junk, fault, found>>
toolVars == <<pc, cmd, given, step, live, bad, failed, ret, results>>
vars     == <<toolVars, badVars>>

Func == g_cmd_func_list[cmd]

Reset ==
    /\ cmd' = "none" /\ given' = {} /\ step' = 1 /\ live' = {} /\ bad' = {}
    /\ buffer' = "junk" /\ files' = {} /\ todoOuts' = 0 /\ junk' = FALSE
    /\ failed' = {} /\ ret' = "ok" /\ fault' = NoFault /\ found' = FALSE

ToolInit ==
    /\ BadInit
    /\ pc = "shell" /\ cmd = "none" /\ given = {} /\ step = 1 /\ live = {} /\ bad = {}
    /\ buffer = "junk" /\ files = {} /\ todoOuts = 0 /\ junk = FALSE
    /\ failed = {} /\ ret = "ok" /\ fault = NoFault /\ found = FALSE

----------------------------------------------------------------------------
(* A process *)

\* getopt leaves optarg NULL for a bare option, and its handler reads through it.
Invoke(c) ==
    /\ pc = "shell"
    /\ c \in Later \/ file = {}
    /\ cmd' = c
    /\ given' \in SUBSET Options(c)
    /\ pc' = IF given' \cap g_cmd_func_list[c].bare = {} THEN "acquire" ELSE "crashed"
    /\ UNCHANGED <<step, live, bad, failed, ret, results, badVars>>

\* The next acquisition succeeds, or is not asked for.  badbin, once it is
\* there, must be as long as a table.
Acquire ==
    /\ pc = "acquire" /\ step \in DOMAIN Func.acq
    /\ LET s == Func.acq[step] IN
       IF s.how = "maybe" /\ "f" \notin given
       THEN pc' = pc /\ UNCHANGED <<live, failed, ret>>
       ELSE /\ live' = live \cup {s.res}
            /\ \/ s.res = "badbin" /\ file = {} /\ failed' = failed \cup {"file"}
                  /\ ret' = "error" /\ pc' = "release"
               \/ ~(s.res = "badbin" /\ file = {})
                  /\ pc' = pc /\ UNCHANGED <<failed, ret>>
    /\ step' = step + 1
    /\ UNCHANGED <<cmd, given, bad, results, badVars>>

\* It fails.  A failed read that is compared with NULL, or with nothing, goes
\* unseen; every other failure undoes what it lists and returns.  To free
\* (void*)ERROR is the end of the process.
AcquireFails ==
    /\ pc = "acquire" /\ step \in DOMAIN Func.acq
    /\ LET s == Func.acq[step]
           missed == s.how \in {"read", "maybe"} /\ s.test # "ERROR"
       IN  /\ s.how = "maybe" => "f" \in given
           /\ failed' = failed \cup {s.how}
           /\ IF missed
              THEN /\ bad' = bad \cup {s.res} /\ step' = step + 1
                   /\ UNCHANGED <<pc, live, ret>>
              ELSE /\ live' = live \ s.undo /\ ret' = "error"
                   /\ pc' = IF bad \cap s.undo = {} THEN "done" ELSE "crashed"
                   /\ UNCHANGED <<bad, step>>
    /\ UNCHANGED <<cmd, given, results, badVars>>

Ready == pc = "acquire" /\ step = Len(Func.acq) + 1

\* The one ioctl of most functions.  Its request may hold what was on the stack.
\* Those that check it look for a negative result only: a status of the device,
\* which is positive and comes without data, is success to them.  The raw ones
\* return whatever it is, and go on.
Ioctl ==
    /\ Ready /\ Func.io \in {"checked", "raw"}
    /\ junk' = (Func.unset \ given # {})
    /\ todoOuts' \in Func.outs
    /\ \/ buffer' = "device" /\ pc' = "write" /\ UNCHANGED <<failed, ret>>
       \/ failed' = failed \cup {"ioctl"} /\ ret' = "error" /\ buffer' = "junk"
          /\ pc' = IF Func.io = "raw" THEN "write" ELSE "release"
       \/ Func.io = "checked" /\ failed' = failed \cup {"status"}
          /\ buffer' = "junk" /\ pc' = "write" /\ UNCHANGED ret
    /\ UNCHANGED <<cmd, given, step, live, bad, files, fault, found, badVars>>

\* Mutant of WriteFile: it does not stop at the last file.
WriteFileAgain ==
    /\ pc = "write"
    /\ todoOuts' = todoOuts - 1 /\ files' = files \cup {buffer}
    /\ UNCHANGED <<pc, cmd, given, step, live, bad, buffer, failed, junk, ret, fault, found, badVars>>
\* parse_write_file: a short write is taken for a whole one.
WriteFile ==
    /\ pc = "write" /\ todoOuts > 0
    /\ \/ todoOuts' = todoOuts - 1 /\ files' = files \cup {buffer}
          /\ failed' \in {failed, failed \cup {"short"}}
          /\ UNCHANGED <<pc, ret>>
       \/ failed' = failed \cup {"write"} /\ ret' = "error" /\ pc' = "release"
          /\ UNCHANGED <<todoOuts, files>>
    /\ UNCHANGED <<cmd, given, step, live, bad, buffer, junk, fault, found, badVars>>

Written ==
    /\ pc = "write" /\ todoOuts = 0
    /\ pc' = "release"
    /\ UNCHANGED <<cmd, given, step, live, bad, failed, ret, results, badVars>>

\* A table read through (void*)ERROR ends the erase before it begins.
StartBody ==
    /\ Ready /\ Func.io \in {"scan", "erase"}
    /\ IF bad # {} THEN pc' = "crashed" /\ UNCHANGED badVars
       ELSE /\ pc' = "body"
            /\ \E m \in HwMasks, ok \in BOOLEAN :
                \/ cmd = "badblock"
                   /\ \E t \in TypeOptions : StartScan(t, m, ok)
                \/ cmd # "badblock"
                   /\ \E sw \in SUBSET Chs,
                        blks \in IF cmd = "ersall" THEN {Blks} ELSE {{b} : b \in Blks} :
                            StartErase(blks, "badbin" \in live, sw, m, ok)
    /\ UNCHANGED <<cmd, given, step, live, bad, failed, ret, results>>

Body == pc = "body" /\ BadStep /\ UNCHANGED toolVars

EndBody ==
    /\ pc = "body" /\ job = "idle"
    /\ pc' = "release" /\ ret' = status
    /\ UNCHANGED <<cmd, given, step, live, bad, failed, results, badVars>>

\* memcheck alone returns what it found.
TestMemory ==
    /\ Ready /\ Func.io = "test"
    /\ pc' = "release"
    /\ \E f \in DdrFaults :
        /\ fault' = f
        /\ found' = CASE cmd = "datacheck" -> DataCheck(f)
                      [] cmd = "addrcheck" -> AddrCheck(f)
                      [] cmd = "memcheck"  -> MemCheck(f)
    /\ ret' = IF cmd = "memcheck" /\ found' THEN "error" ELSE "ok"
    /\ UNCHANGED <<cmd, given, step, live, bad, failed, buffer, files, todoOuts, junk, badVars>>

\* The labels at the end of the function.
Release ==
    /\ pc = "release"
    /\ IF bad \cap Func.last # {} THEN pc' = "crashed" /\ live' = live
       ELSE pc' = "done" /\ live' = live \ Func.last
    /\ UNCHANGED <<cmd, given, step, bad, failed, ret, results, badVars>>

\* The process is gone, and what it did not release with it.
Exit ==
    /\ pc \in {"done", "crashed"}
    /\ pc' = "shell" /\ Reset
    /\ UNCHANGED badVars

ToolNext ==
    \/ \E c \in Commands : Invoke(c)
    \/ Acquire \/ AcquireFails \/ Ioctl \/ WriteFile \/ Written
    \/ StartBody \/ Body \/ EndBody \/ TestMemory \/ Release \/ Exit
ToolSpec == ToolInit /\ [][ToolNext]_vars

----------------------------------------------------------------------------
(* Properties *)

Resources == {"fd", "fp", "prp1", "meta", "table", "pdata", "cmd_para",
              "nvme_reg_stru", "nsid_active", "badbin"}

\* Every variable has its type.
ToolTypeOK ==
    /\ pc \in {"shell", "acquire", "write", "body", "release", "done", "crashed"}
    /\ cmd \in Commands \cup {"none"}
    /\ step \in 1..6 /\ todoOuts \in 0..2
    /\ live \subseteq Resources /\ bad \subseteq Resources
    /\ buffer \in {"junk", "device"} /\ files \subseteq {"junk", "device"}
    /\ failed \subseteq {"malloc", "open", "read", "maybe", "file", "ioctl", "status",
                    "write", "short"}
    /\ ret \in {"ok", "error"}
    /\ fault \in DdrFaults /\ {junk, found} \subseteq BOOLEAN
    /\ BadTypeOK

\* Whichever of its acquisitions, requests and writes fails, a function has
\* released everything when it returns, but for a buffer of dumpnexus (the goto
\* ladders of every parse_*_cmdline); and it returns no error only if it has met
\* none, but for a short write, a status of the device where the result of the
\* ioctl is checked, and erase commands that fail.  (A feature that is set
\* without its missing file is no exception: setft frees (void*)ERROR.)
EndsWell ==
    pc = "done" =>
        /\ live \subseteq (IF cmd = "dumpnexus" THEN {"nsid_active"} ELSE {})
        /\ ret = "ok" => failed \subseteq {"short"} \cup (IF Func.io = "checked" THEN {"status"} ELSE {})

\* No function reads or frees through a pointer it did not get, but those that
\* look for the wrong value of a failed parse_read_file or for an argument
\* getopt does not give; and an erase that does so has not erased anything.
CrashesKnown ==
    pc = "crashed" =>
        /\ cmd \in {"fwdown", "fwactv", "setft", "ersblock", "ersall"}
        /\ Func.io = "erase" => issued = {}

\* A file gets what nobody put into the buffer in two ways only: from the two
\* functions that go on after a failed read, and those return an error, and from
\* the four that take a status of the device for success.  And what reaches the
\* device is what the user, a default or a memset gave, but for the commands on
\* registers and words that were not told their options.
NoJunk ==
    /\ "junk" \in files =>
          \/ cmd \in {"rdppasync", "rdpparawsync"} /\ "ioctl" \in failed /\ ret = "error"
          \/ cmd \in {"idn", "getlp", "getft", "rdregspa"} /\ "status" \in failed
    /\ junk => cmd \in {"rdreg", "wrreg", "rdreg64", "wrreg64", "rddword", "wrdword",
                        "autotest", "rstns", "set_db_switch"}

\* A single stuck or joined line of the bus it tests is reported by each of the
\* three tests; but two data lines eight apart look alike to memcheck's bytes
\* (parse_datacheck_cmdline, parse_addrcheck_cmdline, parse_memcheck_cmdline).
DdrFaultFound ==
    pc = "release" /\ Func.io = "test" =>
        /\ found => fault # NoFault
        /\ cmd = "datacheck" /\ fault.bus = "data" => found
        /\ cmd = "addrcheck" /\ fault.bus = "addr" => found
        /\ cmd = "memcheck" /\ fault.bus = "data" =>
              found \/ \E i, j \in fault.on : i # j /\ i % 8 = j % 8
=============================================================================
