----------------------------- MODULE ClientLoop ----------------------------
(***************************************************************************)
(* The client (client_code/main.c, trace.c): lcore 1 sends the first       *)
(* req_num requests of the trace, every other lcore counts replies until   *)
(* there are reply_num, and stores the latency of each in req_latencies,   *)
(* which has reply_num entries.                                            *)
(***************************************************************************)
EXTENDS HostSetup, Bags, Functions

CONSTANTS
    Trace,          \* the vSSD of every line of the trace: 1, 2, or 0 for either
    TraceDisks,     \* the vSSDs a request may name
    ReqNums,        \* what the -n option may be
    ReplyNums,      \* what the -r option may be
    ReplyPort,      \* the client's port with the address replies are sent to
    CliBurst        \* MAX_BURST_SIZE

ASSUME ClientAssumption ==
    /\ IsFiniteSet(TraceDisks) /\ Trace \in Seq(TraceDisks \cup {0})
    /\ ReqNums \subseteq Nat /\ ReplyNums \subseteq Nat
    /\ CliBurst \in Nat \ {0}

VARIABLES
    cliMachine,     \* what the client runs on
    cliStatus,      \* "off", "run", or how the process ended
    cliConf,        \* lcore_conf
    req_num,
    reply_num,
    pkt_sent,
    counting,       \* fixed_tx_loop has sent a packet that pkt_sent does not count yet
    pkt_recv,       \* the entries of req_latencies written
    rxDone,         \* rx_loop has printed the latencies
    toClient        \* replies waiting in the receive queue: a bag

sentVars == <<pkt_sent, counting>>
cliVars == <<cliMachine, cliStatus, cliConf, req_num, reply_num, sentVars,
             pkt_recv, rxDone, toClient>>
runVars == <<cliMachine, cliConf, req_num, reply_num>>

TxLcore == 1

CliInit(machines) ==
    /\ cliMachine \in machines
    /\ cliStatus = "off"
    /\ cliConf = <<>>
    /\ req_num \in ReqNums
    /\ reply_num \in ReplyNums
    /\ pkt_sent = 0 /\ counting = FALSE
    /\ pkt_recv = 0
    /\ rxDone = FALSE
    /\ toClient = EmptyBag

\* main: init and parse_trace, which wants as many lines as requests.
CliStart ==
    /\ cliStatus = "off"
    /\ \/ /\ Counted(cliMachine) = "ok"
          /\ req_num <= Len(Trace)
          /\ cliStatus' = "run"
          /\ cliConf' = lcore_conf(cliMachine)
       \/ /\ cliStatus' \in {"a call failed", Counted(cliMachine)} \ {"ok"}
          /\ cliConf' = cliConf
       \/ /\ req_num > Len(Trace)
          /\ cliStatus' = "trace too short"
          /\ cliConf' = cliConf
    /\ UNCHANGED <<cliMachine, req_num, reply_num, sentVars, pkt_recv, rxDone,
                   toClient>>

\* generate_packet: the vSSD of the request, drawn when the trace leaves it open.
Named(i) == IF Trace[i] = 0 THEN TraceDisks ELSE {Trace[i]}

Sending ==
    /\ cliStatus = "run" /\ TxLcore \in cliMachine.lcores
    /\ ~counting /\ pkt_sent < req_num

\* A turn of fixed_tx_loop up to send_pkt_burst: p is the request it generates.
SendRequest(p) ==
    /\ Sending
    /\ p.req = pkt_sent + 1 /\ p.disk \in Named(p.req)
    /\ counting' = TRUE
    /\ UNCHANGED <<runVars, cliStatus, pkt_sent, pkt_recv, rxDone, toClient>>

\* The end of the turn, which may be after the reply.
CountSent ==
    /\ cliStatus = "run" /\ counting
    /\ pkt_sent' = pkt_sent + 1
    /\ counting' = FALSE
    /\ UNCHANGED <<runVars, cliStatus, pkt_recv, rxDone, toClient>>

\* No packet buffer: the assertion of generate_packet.
SendFails ==
    /\ Sending
    /\ cliStatus' = "no packet buffer"
    /\ UNCHANGED <<runVars, sentVars, pkt_recv, rxDone, toClient>>

\* Requests sent, counted or not.
Transmitted == pkt_sent + (IF counting THEN 1 ELSE 0)

\* The lcores whose rx_loop polls the queue replies arrive in.
Receivers == {l \in cliMachine.lcores \ {TxLcore} :
                 cliConf[l].port = ReplyPort /\ 0 \in cliConf[l].rxQueues}

\* rx_loop that waits for one reply more.
WaitingMore(n) == pkt_recv <= n

Waiting(n) == pkt_recv < n

\* What a burst may take of the replies in B: of each no more than there are.
PartsOf(B) ==
    {[p \in {q \in DOMAIN B : n[q] > 0} |-> n[p]] :
        n \in {m \in [DOMAIN B -> 0..CliBurst] : \A p \in DOMAIN B : m[p] <= B[p]}}

\* A turn of rx_loop that finds replies: a burst of them is processed without
\* another look at reply_num.
RecvReplies ==
    /\ cliStatus = "run" /\ ~rxDone /\ Waiting(reply_num)
    /\ Receivers # {}
    /\ toClient # EmptyBag
    /\ \E burst \in PartsOf(toClient) :
          /\ SumFunction(burst) <= CliBurst
          /\ SumFunction(burst) = CliBurst \/ burst = toClient
          /\ toClient' = toClient (-) burst
          /\ pkt_recv' = pkt_recv + SumFunction(burst)
    /\ UNCHANGED <<runVars, cliStatus, sentVars, rxDone>>

\* rx_loop ends and print_req_latencies reads all the entries.
PrintLatencies ==
    /\ cliStatus = "run" /\ ~rxDone /\ ~Waiting(reply_num)
    /\ cliMachine.lcores \ {TxLcore} # {}
    /\ rxDone' = TRUE
    /\ UNCHANGED <<runVars, cliStatus, sentVars, pkt_recv, toClient>>

=============================================================================
