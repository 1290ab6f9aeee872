----------------------------- MODULE HostSetup -----------------------------
(***************************************************************************)
(* init() of the two DPDK hosts (client_code/util.h and                    *)
(* server_code/util.h, the same text in both): the enabled Ethernet ports  *)
(* and lcores of the machine are counted, and every lcore is given one     *)
(* port, one transmit queue and RX_QUEUE_PER_LCORE receive queues of it.   *)
(*                                                                         *)
(* A machine is a record: the lcores of the -l option, the ports DPDK      *)
(* finds and the ports of the -p mask.  That the calls which configure a   *)
(* port, or open a socket, fail is a choice of the modules that start a    *)
(* host: each of them ends the process.                                    *)
(***************************************************************************)
EXTENDS Integers, FiniteSets, Sequences

CONSTANTS
    MaxLcores,      \* MAX_LCORES
    RxPerLcore      \* RX_QUEUE_PER_LCORE

ASSUME SetupAssumption ==
    MaxLcores \in Nat \ {0} /\ RxPerLcore \in Nat \ {0}

Lcores == 0..(MaxLcores - 1)

enabled_ports(m) == m.found \cap m.mask
NLcores(m) == Cardinality(m.lcores)
NPorts(m) == Cardinality(enabled_ports(m))

RxPerPort(m) == (RxPerLcore * NLcores(m)) \div NPorts(m)
TxPerPort(m) == NLcores(m) \div NPorts(m)

\* How the counting ends.  With no enabled port the remainder divides by zero:
\* the test that would say so comes only after the ports are set up.
Counted(m) ==
    IF m.found = {} THEN "no port found"
    ELSE IF NPorts(m) = 0 THEN "divided by zero"
    ELSE IF NLcores(m) % NPorts(m) # 0 THEN "not a multiple"
    ELSE IF RxPerPort(m) < RxPerLcore THEN "too few queues"
    ELSE "ok"

Ascending(S) ==
    CHOOSE s \in [1..Cardinality(S) -> S] : \A a, b \in DOMAIN s : a < b => s[a] < s[b]

\* A transmit queue counter that is not set back for the next port.
AssignRunsOn(m, s, l) ==
    LET rx == s[3] + RxPerLcore
        conf == [port |-> Ascending(enabled_ports(m))[s[2] + 1],
                 rxQueues |-> s[3]..(rx - 1),
                 txQueue |-> s[4]]
        all == [k \in DOMAIN s[1] \cup {l} |-> IF k = l THEN conf ELSE s[1][k]]
    IN  IF rx % RxPerPort(m) = 0 THEN <<all, s[2] + 1, 0, s[4] + 1>>
                                 ELSE <<all, s[2], rx, s[4] + 1>>

\* One turn of the loop over the lcores: s is <<the configuration so far,
\* portid_offset, rx_queue_id, tx_queue_id>>.
Assign(m, s, l) ==
    LET rx == s[3] + RxPerLcore
        conf == [port |-> Ascending(enabled_ports(m))[s[2] + 1],
                 rxQueues |-> s[3]..(rx - 1),
                 txQueue |-> s[4]]
        all == [k \in DOMAIN s[1] \cup {l} |-> IF k = l THEN conf ELSE s[1][k]]
    IN  IF rx % RxPerPort(m) = 0 THEN <<all, s[2] + 1, 0, 0>>
                                 ELSE <<all, s[2], rx, s[4] + 1>>

\* lcore_conf
lcore_conf(m) ==
    LET turn[k \in 0..NLcores(m)] ==
          IF k = 0 THEN << <<>>, 0, 0, 0>>
          ELSE Assign(m, turn[k - 1], Ascending(m.lcores)[k])
    IN  turn[NLcores(m)][1]

\* Every receive queue of every enabled port is polled by one lcore, every
\* transmit queue belongs to one lcore, and no lcore uses a queue that the port
\* was not configured with: the loop that hands the queues out agrees with the
\* division that sized the ports (client_code/util.h:385-444).
QueuesDealt(m, conf) ==
    \A p \in enabled_ports(m) :
        LET of == {l \in m.lcores : conf[l].port = p}
        IN  /\ \A q \in 0..(RxPerPort(m) - 1) :
                  Cardinality({l \in of : q \in conf[l].rxQueues}) = 1
            /\ \A q \in 0..(TxPerPort(m) - 1) :
                  Cardinality({l \in of : q = conf[l].txQueue}) = 1
            /\ \A l \in of : /\ conf[l].rxQueues \subseteq 0..(RxPerPort(m) - 1)
                             /\ conf[l].txQueue \in 0..(TxPerPort(m) - 1)

=============================================================================
