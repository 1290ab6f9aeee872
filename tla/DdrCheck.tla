------------------------------ MODULE DdrCheck ------------------------------
(***************************************************************************)
(* The three memory tests of the command line tool (vssd_code/             *)
(* parser_nexus.c): a walking one and a walking zero on the data bus, the  *)
(* same on the address bus, and patterns over the whole memory.            *)
(*                                                                         *)
(* A word and an address are sets of the lines that are one, so 1 << i is  *)
(* {i} and tran_data(i), tran_addr(i) are all lines but i.  A test writes  *)
(* a sequence of (address, word) pairs and reads some addresses back.      *)
(***************************************************************************)
EXTENDS Integers, Sequences

CONSTANTS
    DataLines,  \* DDR_DATA_BUS_NUM lines, numbered from 0
    AddrLines   \* DDR_ADDR_BUS_NUM - 2: an address is a multiple of four

ASSUME LinesAssumption == DataLines \in Nat /\ AddrLines \in Nat

Data == 0..DataLines - 1
Addr == 0..AddrLines - 1

\* What may be wrong with the board: one line of a bus stuck, or two joined.
Faults(bus, lines) ==
    [bus : {bus}, kind : {"low", "high"}, on : {{i} : i \in lines}]
    \cup [bus : {bus}, kind : {"and", "or"},
          on : {{p[1], p[2]} : p \in {q \in lines \X lines : q[1] < q[2]}}]
NoFault == [bus |-> "none", kind |-> "low", on |-> {}]
DdrFaults == Faults("data", Data) \cup Faults("addr", Addr) \cup {NoFault}

\* What arrives at the far end of a bus.
Through(f, bus, lines) ==
    IF f.bus # bus THEN lines
    ELSE CASE f.kind = "low"  -> lines \ f.on
           [] f.kind = "high" -> lines \cup f.on
           [] f.kind = "and"  -> IF f.on \subseteq lines THEN lines ELSE lines \ f.on
           [] f.kind = "or"   -> IF f.on \cap lines = {} THEN lines ELSE lines \cup f.on

\* Reading address a after the writes w: the last one that went to its cell.
ReadBack(f, w, a) ==
    LET cell(x) == Through(f, "addr", x)
        k == CHOOSE i \in DOMAIN w :
                /\ cell(w[i].addr) = cell(a)
                /\ \A j \in DOMAIN w : cell(w[j].addr) = cell(a) => j <= i
    IN  Through(f, "data", w[k].word)

Mismatch(f, w) == \E i \in DOMAIN w : ReadBack(f, w, w[i].addr) # w[i].word

\* parse_datacheck_cmdline: each word is written to one address and read back;
\* the words 0 and DDR_DATA_BUS before them are not compared.
DataCheck(f) ==
    \E word \in {{i} : i \in Data} \cup {Data \ {i} : i \in Data} :
        Mismatch(f, <<[addr |-> {}, word |-> word]>>)

\* parse_addrcheck_cmdline: every address of a walk is written with its own
\* number, after one (first, word) outside it, and then all are read back.
Walk(first, word, a) ==
    <<[addr |-> first, word |-> word]>>
      \o [i \in 1..AddrLines |-> [addr |-> a[i], word |-> a[i]]]
Other == Data \ Addr     \* 0x5a5a5a5a, which is no address of a walk

\* Mutant of AddrCheck: both walks stop one line early.
AddrCheckShort(f) ==
    \/ Mismatch(f, SubSeq(Walk({}, Other, [i \in 1..AddrLines |-> {i - 1}]), 1, AddrLines))
    \/ Mismatch(f, SubSeq(Walk(Addr, Addr, [i \in 1..AddrLines |-> Addr \ {i - 1}]), 1, AddrLines))

AddrCheck(f) ==
    \/ Mismatch(f, Walk({}, Other, [i \in 1..AddrLines |-> {i - 1}]))
    \/ Mismatch(f, Walk(Addr, Addr, [i \in 1..AddrLines |-> Addr \ {i - 1}]))

\* parse_memcheck_cmdline: every cell has the same word while it is read; the
\* words are those of num, each a byte four times.
Bytes == {{0, 2, 4, 6}, {1, 3, 4, 6}, {0, 2, 5, 7}, {0, 1, 3, 5, 6},
          {1, 2, 4, 5, 7}, 0..7, {0, 4}, {}}
Patterns == {{i \in Data : i % 8 \in b} : b \in Bytes}
MemCheck(f) ==
    \E word \in Patterns : Through(f, "data", word) # word
=============================================================================
