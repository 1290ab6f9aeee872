------------------------------ MODULE RackNet ------------------------------
(***************************************************************************)
(* What the switch, the vSSDs and the clients of a RackBlox rack share:    *)
(* the packet types of the custom header, the pairing of every vSSD with   *)
(* its replica, and the packets in flight.                                 *)
(*                                                                         *)
(* A packet is its type ("op", headers.p4 and rb_nexus.h) and the vSSD it  *)
(* names (vssd_id).  Packets in flight are counted per vSSD and per type:  *)
(* they have no order, because the server forwards them from two lcores    *)
(* over UDP (server_code/main.c), and a count may go up or down by itself  *)
(* when the server loses or repeats one (Rack.tla).                        *)
(***************************************************************************)
EXTENDS Integers, Sequences

CONSTANTS
    Vssds,      \* the vSSDs of the rack
    Replica     \* the control plane's replica_table: vSSD -> its replica

ASSUME ReplicaAssumption ==
    /\ Replica \in [Vssds -> Vssds]
    /\ \A v \in Vssds : Replica[v] # v /\ Replica[Replica[v]] = v

\* The packet types.
IoOps     == {"READ", "WRITE"}
IoReplies == {"READ_REPLY", "WRITE_REPLY"}
GcSends   == {"GC", "GC_REQUEST", "GC_FINISH"}
GcAnswers == {"GC_SUCCESS", "GC_DENY", "GC_FIN_SUC"}
Ops       == IoOps \cup IoReplies \cup GcSends \cup GcAnswers

VARIABLES
    toSwitch,   \* packets travelling to the switch: [Vssds -> [Ops -> Nat]]
    toVssd,     \* packets travelling from the switch to the vSSD they name
    toClient    \* replies travelling from the switch to the client

netVars == <<toSwitch, toVssd, toClient>>

Packets == [Vssds -> [Ops -> Nat]]
NoPackets == [v \in Vssds |-> [op \in Ops |-> 0]]

Put(net, v, op)  == [net EXCEPT ![v][op] = @ + 1]
Take(net, v, op) == [net EXCEPT ![v][op] = @ - 1]

NetInit ==
    /\ toSwitch = NoPackets
    /\ toVssd = NoPackets
    /\ toClient = NoPackets
=============================================================================
