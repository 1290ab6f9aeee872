------------------------------- MODULE Hosts -------------------------------
(***************************************************************************)
(* The client and the server together.  Between them are the switch and    *)
(* the vSSDs, which Rack.tla models; here the switch only passes requests  *)
(* to the server's port for their vSSD and replies to the client, and a    *)
(* vSSD answers every datagram.                                            *)
(***************************************************************************)
EXTENDS ServerFwd, ClientLoop

CONSTANTS
    Machines,       \* what a host may run on
    ServerPort      \* vSSD -> the server's port with the address of the vSSD

\* DPDK numbers its ports and has finitely many (RTE_MAX_ETHPORTS); the lcores
\* are those init looks at.
ASSUME MachinesAssumption ==
    /\ UNION {m.found : m \in Machines} \subseteq Nat
    /\ IsFiniteSet(UNION {m.found : m \in Machines})
    /\ \A m \in Machines : m.lcores \subseteq Lcores

vars == <<srvVars, cliVars>>

Requests == [req : 1..Len(Trace), disk : TraceDisks]

Init ==
    /\ SrvInit(Machines, (UNION {m.found : m \in Machines}) \cup {ServerPort[d] : d \in TraceDisks})
    /\ CliInit(Machines)

\* The server is up before the client is started.
StartServer == SrvStart /\ UNCHANGED cliVars
StartClient == srvStatus = "run" /\ CliStart /\ UNCHANGED srvVars

\* A request reaches the ring of the server's port, or the client's transmit
\* queue has no room and frees it.
Request ==
    \/ \E p \in Requests :
          /\ SendRequest(p)
          /\ \/ /\ srvRing' = [srvRing EXCEPT ![ServerPort[p.disk]] = @ \cup {p}]
                /\ lost' = lost
             \/ lost < MaxLoss /\ lost' = lost + 1 /\ srvRing' = srvRing
          /\ UNCHANGED <<srvMachine, srvStatus, srvConf, srvPc, srvBatch, srvSlot,
                         srvRecv, srvBuffer, srvMbuf, toDisk, socket>>
    \/ (CountSent \/ SendFails) /\ UNCHANGED srvVars

\* A packet the server transmits waits for the client.
Reply(l) ==
    \E sent \in Bursts(l) :
        /\ Transmit(l, sent)
        /\ toClient' = toClient (+) sent
        /\ UNCHANGED <<runVars, cliStatus, sentVars, pkt_recv, rxDone>>

ServerLcore(l) ==
    \/ /\ \/ Poll(l) \/ TakeLatency(l) \/ ForwardPacket(l)
          \/ RecvNone(l) \/ Recv(l) \/ Generate(l)
       /\ UNCHANGED cliVars
    \/ Reply(l)

Disk == \E p \in Requests : Answer(p) /\ UNCHANGED cliVars

Receive == (RecvReplies \/ PrintLatencies) /\ UNCHANGED srvVars

Next ==
    \/ StartServer \/ StartClient \/ Request
    \/ \E l \in Lcores : ServerLcore(l)
    \/ Disk \/ Receive

\* Every lcore keeps looping and the vSSDs keep answering.
Fairness ==
    /\ WF_vars(StartServer) /\ WF_vars(StartClient)
    /\ WF_vars(Request)
    /\ \A l \in Lcores : WF_vars(ServerLcore(l))
    /\ WF_vars(Disk)
    /\ WF_vars(Receive)

Spec == Init /\ [][Next]_vars /\ Fairness

----------------------------------------------------------------------------
\* Both hosts that got through init deal out every queue of every port exactly
\* once (client_code/util.h and server_code/util.h, init).
QueuesPolledOnce ==
    /\ srvStatus = "run" => QueuesDealt(srvMachine, srvConf)
    /\ cliStatus = "run" => QueuesDealt(cliMachine, cliConf)

\* To the packets from the vSSDs the server is a faulty link: whatever the two
\* lcores do to the buffer they share, a packet sent to the switch is one that
\* came in, and one goes out twice only in the place of another
\* (server_code/main.c:200-222).
OnTheWay(q) ==
    Cardinality({d \in Disks : q \in socket[d]})
    + Cardinality({l \in Lcores : q \in Holding(l)})

Link == INSTANCE FaultyLink WITH
    Packet <- Requests,
    wire <- [q \in {r \in Requests : OnTheWay(r) > 0} |-> OnTheWay(q)],
    out <- toClient

ForwardsAsFaultyLink == Link!Spec

\* The client counts no more replies than it sent requests, though one may
\* arrive twice, and its last burst writes past the reply_num entries of
\* req_latencies by less than a burst (client_code/main.c:151, 182).  The
\* server has used no more entries of net_lats than it has taken packets from
\* its rings, however the lcores race for pkt_recv (server_code/main.c:146).
CountersFit ==
    /\ pkt_recv <= Transmitted
    /\ pkt_recv < reply_num + CliBurst
    /\ srvRecv <= Transmitted - Cardinality(UNION {srvRing[p] : p \in DOMAIN srvRing})

\* A client that asked for no more replies than requests prints its latencies,
\* unless a packet was lost, a host ended or was not given the ports and lcores
\* it needs: rx_loop has no other way out (client_code/main.c:182).
WiredUp ==
    /\ {ServerPort[d] : d \in TraceDisks} \subseteq enabled_ports(srvMachine)
    /\ TxLcore \in cliMachine.lcores /\ Receivers # {}
    /\ reply_num <= req_num

ClientEnds ==
    <>(\/ rxDone \/ lost > 0
       \/ srvStatus \notin {"off", "run"} \/ cliStatus \notin {"off", "run"}
       \/ cliStatus = "run" /\ ~WiredUp)
=============================================================================
