----------------------------- MODULE ServerFwd -----------------------------
(***************************************************************************)
(* The server (server_code/main.c): two lcores run rx_loop side by side.   *)
(* Each polls the receive queues of its port and forwards what it finds to *)
(* the vSSD the packet names, then reads the UDP sockets of both vSSDs and *)
(* sends what it finds to the switch.  The lcores share the counter        *)
(* pkt_recv, the sockets, and the one receive buffer: a datagram is copied *)
(* into a packet two statements after recvfrom has written it, and the     *)
(* other lcore may write the buffer in between.                            *)
(*                                                                         *)
(* A packet is its header; its 44 bytes are taken to be copied whole.      *)
(* That sendto fails, that no packet buffer can be allocated (an assertion *)
(* of generate_packet) and that a call of init fails end the process.      *)
(* generate_packet uses req a few lines before it declares it; it is read  *)
(* as the request it then copies, which only picks a source address.       *)
(***************************************************************************)
EXTENDS HostSetup, Bags

CONSTANTS
    Disks,          \* the vSSDs the server has a socket for: vssd_id 1 and 2
    MaxBurst,       \* MAX_BURST_SIZE
    MaxLoss         \* packets lost by the transmit queue or by recvfrom

ASSUME ServerAssumption ==
    /\ Disks \subseteq Int /\ IsFiniteSet(Disks) /\ Disks # {}
    /\ MaxBurst \in Nat \ {0} /\ MaxLoss \in Nat

VARIABLES
    srvMachine,     \* what the server runs on
    srvStatus,      \* "off", "run", or how the process ended
    srvConf,        \* lcore_conf
    srvRing,        \* port -> packets waiting in its receive queue 0
    srvPc,          \* lcore -> where in rx_loop
    srvBatch,       \* lcore -> the rest of its burst
    srvSlot,        \* lcore -> the index into net_lats it has read
    srvRecv,        \* pkt_recv
    srvBuffer,      \* buffer: a set of at most one packet
    srvMbuf,        \* lcore -> the packet generate_packet has filled
    toDisk,         \* datagrams forwarded to the vSSDs
    socket,         \* vSSD -> datagrams from it
    lost            \* packets lost so far

srvVars == <<srvMachine, srvStatus, srvConf, srvRing, srvPc, srvBatch, srvSlot,
             srvRecv, srvBuffer, srvMbuf, toDisk, socket, lost>>
loopVars == <<srvMachine, srvStatus, srvConf>>

Ports(m) == enabled_ports(m)

\* The order in which rx_loop visits the sockets.
Sockets == Ascending(Disks)
AfterPoll == <<"recv", 1>>
AfterSocket(i) == IF i < Len(Sockets) THEN <<"recv", i + 1>> ELSE <<"poll", 0>>

SrvInit(machines, ports) ==
    /\ srvMachine \in machines
    /\ srvStatus = "off"
    /\ srvConf = <<>>
    /\ srvRing = [p \in ports |-> {}]
    /\ srvPc = [l \in Lcores |-> <<"poll", 0>>]
    /\ srvBatch = [l \in Lcores |-> {}]
    /\ srvSlot = [l \in Lcores |-> 0]
    /\ srvRecv = 0
    /\ srvBuffer = {}
    /\ srvMbuf = [l \in Lcores |-> {}]
    /\ toDisk = {}
    /\ socket = [d \in Disks |-> {}]
    /\ lost = 0

\* main: init, then rx_loop on every lcore.  A call of init may fail, the sends
\* of ten bytes to each vSSD among them; a vSSD answers those with nothing
\* (RackVssd has what they do there).
SrvStart ==
    /\ srvStatus = "off"
    /\ \/ /\ Counted(srvMachine) = "ok"
          /\ srvStatus' = "run"
          /\ srvConf' = lcore_conf(srvMachine)
       \/ /\ srvStatus' \in {"a call failed", Counted(srvMachine)} \ {"ok"}
          /\ srvConf' = srvConf
    /\ UNCHANGED <<srvMachine, srvRing, srvPc, srvBatch, srvSlot, srvRecv,
                   srvBuffer, srvMbuf, toDisk, socket, lost>>

Running(l) == srvStatus = "run" /\ l \in srvMachine.lcores
Goto(l, pc) == srvPc' = [srvPc EXCEPT ![l] = pc]

\* rte_eth_rx_burst on the queues of lcore l: the NIC puts every packet of a
\* port into its queue 0.
Polled(l) == IF 0 \in srvConf[l].rxQueues THEN srvRing[srvConf[l].port] ELSE {}

Poll(l) ==
    /\ Running(l) /\ srvPc[l][1] = "poll"
    /\ \E burst \in SUBSET Polled(l) :
          /\ Cardinality(burst) <= MaxBurst
          /\ Cardinality(burst) = MaxBurst \/ burst = Polled(l)
          /\ srvBatch' = [srvBatch EXCEPT ![l] = burst]
          /\ srvRing' = [srvRing EXCEPT ![srvConf[l].port] = @ \ burst]
          /\ Goto(l, IF burst = {} THEN AfterPoll ELSE <<"packet", 0>>)
    /\ UNCHANGED <<loopVars, srvSlot, srvRecv, srvBuffer, srvMbuf, toDisk,
                   socket, lost>>

\* process_packet up to the first use of pkt_recv.
TakeLatency(l) ==
    /\ Running(l) /\ srvPc[l][1] = "packet"
    /\ srvSlot' = [srvSlot EXCEPT ![l] = srvRecv]
    /\ Goto(l, <<"forward", 0>>)
    /\ UNCHANGED <<loopVars, srvRing, srvBatch, srvRecv, srvBuffer, srvMbuf,
                   toDisk, socket, lost>>

\* pkt_recv++ executed once for the latency and once for the count.
CountersTwice(l) == {i + 2 : i \in {srvSlot[l]} \cup srvSlot[l]..srvRecv}

\* pkt_recv++ adds one to the value just read or to one read since.
Counters(l) == {srvSlot[l] + 1} \cup {i + 1 : i \in srvSlot[l]..srvRecv}

\* The rest of process_packet, for any packet of the burst.  A packet for a
\* vSSD without a socket is not forwarded.
ForwardPacket(l) ==
    /\ Running(l) /\ srvPc[l][1] = "forward"
    /\ srvRecv' \in Counters(l)
    /\ \E p \in srvBatch[l] :
          \/ /\ toDisk' = IF p.disk \in Disks THEN toDisk \cup {p} ELSE toDisk
             /\ srvBatch' = [srvBatch EXCEPT ![l] = @ \ {p}]
             /\ Goto(l, IF srvBatch[l] = {p} THEN AfterPoll ELSE <<"packet", 0>>)
             /\ srvStatus' = srvStatus
          \/ /\ p.disk \in Disks
             /\ srvStatus' = "send failed"
             /\ UNCHANGED <<toDisk, srvBatch, srvPc>>
    /\ UNCHANGED <<srvMachine, srvConf, srvRing, srvSlot, srvBuffer, srvMbuf,
                   socket, lost>>

\* recvfrom times out.
RecvNone(l) ==
    /\ Running(l) /\ srvPc[l][1] = "recv"
    /\ socket[Sockets[srvPc[l][2]]] = {}
    /\ Goto(l, AfterSocket(srvPc[l][2]))
    /\ UNCHANGED <<loopVars, srvRing, srvBatch, srvSlot, srvRecv, srvBuffer,
                   srvMbuf, toDisk, socket, lost>>

\* recvfrom writes a datagram into buffer.  The address length it is given was
\* never initialised: with a negative one it reports an error all the same.
Recv(l) ==
    /\ Running(l) /\ srvPc[l][1] = "recv"
    /\ LET i == srvPc[l][2]
           d == Sockets[i]
       IN  \E p \in socket[d] :
              /\ socket' = [socket EXCEPT ![d] = @ \ {p}]
              /\ srvBuffer' = {p}
              /\ \/ Goto(l, <<"generate", i>>) /\ lost' = lost
                 \/ lost < MaxLoss /\ lost' = lost + 1 /\ Goto(l, AfterSocket(i))
    /\ UNCHANGED <<loopVars, srvRing, srvBatch, srvSlot, srvRecv, srvMbuf,
                   toDisk>>

\* generate_packet copies what buffer holds now.
Generate(l) ==
    /\ Running(l) /\ srvPc[l][1] = "generate"
    /\ \/ /\ srvMbuf' = [srvMbuf EXCEPT ![l] = srvBuffer]
          /\ Goto(l, <<"send", srvPc[l][2]>>)
          /\ srvStatus' = srvStatus
       \/ srvStatus' = "no packet buffer" /\ UNCHANGED <<srvMbuf, srvPc>>
    /\ UNCHANGED <<srvMachine, srvConf, srvRing, srvBatch, srvSlot, srvRecv,
                   srvBuffer, toDisk, socket, lost>>

\* send_pkt_burst without the reset of tx_mbufs.len sends the packet before
\* again.
BurstsAgain(l) == {SetToBag(srvMbuf[l]) (+) SetToBag(srvMbuf[l])}

\* enqueue_pkt and send_pkt_burst: the transmit queue takes the packet, or has
\* no room and the packet is freed.
Bursts(l) ==
    {SetToBag(srvMbuf[l])} \cup {b \in {EmptyBag} : lost < MaxLoss}

Transmit(l, sent) ==
    /\ Running(l) /\ srvPc[l][1] = "send"
    /\ sent \in Bursts(l)
    /\ lost' = IF sent = EmptyBag THEN lost + 1 ELSE lost
    /\ srvMbuf' = [srvMbuf EXCEPT ![l] = {}]
    /\ Goto(l, AfterSocket(srvPc[l][2]))
    /\ UNCHANGED <<loopVars, srvRing, srvBatch, srvSlot, srvRecv, srvBuffer,
                   toDisk, socket>>

\* A vSSD answers a datagram (rb_nexus.c models it; here only the answer).
Answer(p) ==
    /\ p \in toDisk
    /\ toDisk' = toDisk \ {p}
    /\ socket' = [socket EXCEPT ![p.disk] = @ \cup {p}]
    /\ UNCHANGED <<loopVars, srvRing, srvPc, srvBatch, srvSlot, srvRecv,
                   srvBuffer, srvMbuf, lost>>

\* What lcore l holds of the packets from the vSSDs: before it has copied the
\* buffer, whatever the buffer holds.
Holding(l) == CASE srvPc[l][1] = "generate" -> srvBuffer
                [] srvPc[l][1] = "send" -> srvMbuf[l]
                [] OTHER -> {}

=============================================================================
