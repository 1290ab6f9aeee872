---------------------------- MODULE RackSwitch -----------------------------
(***************************************************************************)
(* The ingress pipeline of the programmable switch                         *)
(* (p4_code/basic_switch/basic_rackblox.p4): one action per packet type,   *)
(* each the whole pass of one packet through the match-action stages, so   *)
(* register reads and writes of different packets do not interleave inside *)
(* a pass.  The one operation that takes two passes is a GC request: the   *)
(* pass that finds the replica idle rewrites it into a GC packet and       *)
(* recirculates it, and other packets are processed before it comes back.  *)
(***************************************************************************)
EXTENDS RackNet

VARIABLES
    replicaReg,     \* replica_registers: is this vSSD collecting?
    destReg,        \* destination_registers: the same bit, read for a replica
    recirc          \* GC packets on the recirculation port: [Vssds -> Nat]

switchVars == <<replicaReg, destReg, recirc>>

SwitchTypeOK ==
    /\ replicaReg \in [Vssds -> {0, 1}]
    /\ destReg \in [Vssds -> {0, 1}]
    /\ recirc \in [Vssds -> Nat]

SwitchInit ==
    /\ replicaReg = [v \in Vssds |-> 0]
    /\ destReg = [v \in Vssds |-> 0]
    /\ recirc = [v \in Vssds |-> 0]

Arrives(v, op) == toSwitch[v][op] > 0

\* The packet of v leaves the switch for the vSSD d, carrying the type out.
Bounce(v, op, d, out) ==
    /\ toSwitch' = Take(toSwitch, v, op)
    /\ toVssd' = Put(toVssd, d, out)

\* What replica_table and destination_table leave in the packet's metadata.
GcVssd(v)    == replicaReg[v]
\* Mutant of GcReplica: destination_registers indexed by the packet's own vSSD.
GcOwnBit(v) == destReg[v]
GcReplica(v) == destReg[Replica[v]]

\* Mutant of ForwardWrite: writes take the read path of the pipeline.
RedirectWrite(v) ==
    /\ Arrives(v, "WRITE")
    /\ Bounce(v, "WRITE", IF GcVssd(v) = 1 /\ GcReplica(v) = 0 THEN Replica[v] ELSE v, "WRITE")
    /\ UNCHANGED <<toClient, switchVars>>

ForwardWrite(v) ==
    /\ Arrives(v, "WRITE")
    /\ Bounce(v, "WRITE", v, "WRITE")
    /\ UNCHANGED <<toClient, switchVars>>

\* Mutant of ForwardReply: the branch for TYPE_READ_REPLY is missing.
ForwardWriteReply(v, op) ==
    /\ op = "WRITE_REPLY" /\ Arrives(v, op)
    /\ toSwitch' = Take(toSwitch, v, op)
    /\ toClient' = Put(toClient, v, op)
    /\ UNCHANGED <<toVssd, switchVars>>

ForwardReply(v, op) ==
    /\ Arrives(v, op)
    /\ toSwitch' = Take(toSwitch, v, op)
    /\ toClient' = Put(toClient, v, op)
    /\ UNCHANGED <<toVssd, switchVars>>

\* Mutant of ReadTarget: redirects without a look at the replica's bit.
ReadTargetBlind(v) ==
    IF GcVssd(v) = 1 THEN Replica[v] ELSE v

\* A redirected read gets the replica's vssd_id and address, so the rest of
\* its life, the reply's way back included, names the replica.
ReadTarget(v) ==
    IF GcVssd(v) = 1 /\ GcReplica(v) = 0 THEN Replica[v] ELSE v

RouteRead(v) ==
    /\ Arrives(v, "READ")
    /\ Bounce(v, "READ", ReadTarget(v), "READ")
    /\ UNCHANGED <<toClient, switchVars>>

\* First pass of a GC request, replica idle: it becomes a GC packet on the
\* recirculation port.
AdmitRequest(v) ==
    /\ Arrives(v, "GC_REQUEST")
    /\ GcReplica(v) = 0
    /\ toSwitch' = Take(toSwitch, v, "GC_REQUEST")
    /\ recirc' = [recirc EXCEPT ![v] = @ + 1]
    /\ UNCHANGED <<toVssd, toClient, replicaReg, destReg>>

DenyRequest(v) ==
    /\ Arrives(v, "GC_REQUEST")
    /\ GcReplica(v) # 0
    /\ Bounce(v, "GC_REQUEST", v, "GC_DENY")
    /\ UNCHANGED <<toClient, switchVars>>

SetGcBits(v) ==
    /\ replicaReg' = [replicaReg EXCEPT ![v] = 1]
    /\ destReg' = [destReg EXCEPT ![v] = 1]

\* A hard GC packet, straight from its sender: granted without a look at the
\* replica.
GrantHard(v) ==
    /\ Arrives(v, "GC")
    /\ SetGcBits(v)
    /\ Bounce(v, "GC", v, "GC_SUCCESS")
    /\ UNCHANGED <<toClient, recirc>>

\* Mutant of GrantAdmitted: a grant without an admitted request.
GrantUnasked(v) ==
    /\ recirc' = [recirc EXCEPT ![v] = @ - 1]
    /\ SetGcBits(v)
    /\ toVssd' = Put(toVssd, v, "GC_SUCCESS")
    /\ UNCHANGED <<toSwitch, toClient>>

\* Second pass of an admitted request: nothing tells it from a hard GC packet.
GrantAdmitted(v) ==
    /\ recirc[v] > 0
    /\ recirc' = [recirc EXCEPT ![v] = @ - 1]
    /\ SetGcBits(v)
    /\ toVssd' = Put(toVssd, v, "GC_SUCCESS")
    /\ UNCHANGED <<toSwitch, toClient>>

ClearGcBits(v) ==
    /\ replicaReg' = [replicaReg EXCEPT ![v] = 0]
    /\ destReg' = [destReg EXCEPT ![v] = 0]

FinishGc(v) ==
    /\ Arrives(v, "GC_FINISH")
    /\ ClearGcBits(v)
    /\ Bounce(v, "GC_FINISH", v, "GC_FIN_SUC")
    /\ UNCHANGED <<toClient, recirc>>

\* Every pass that neither grants nor finishes a round of v.
SwitchOther(v) ==
    \/ ForwardWrite(v)
    \/ \E op \in IoReplies : ForwardReply(v, op)
    \/ RouteRead(v)
    \/ AdmitRequest(v)
    \/ DenyRequest(v)

SwitchStep(v) == SwitchOther(v) \/ GrantHard(v) \/ GrantAdmitted(v) \/ FinishGc(v)
=============================================================================
