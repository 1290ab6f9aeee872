---------------------------- MODULE Rack_proof -----------------------------
(***************************************************************************)
(* Proofs of the safety of Rack for any number of vSSDs, any budgets and   *)
(* any faults.                                                             *)
(***************************************************************************)
EXTENDS Rack, TLAPS, FiniteSetTheorems

\* One packet more, or one fewer when there is one, leaves counts counts.
LEMMA PutTake ==
    ASSUME NEW S, NEW T, NEW net \in [S -> [T -> Nat]], NEW v \in S, NEW op \in T
    PROVE  /\ Put(net, v, op) \in [S -> [T -> Nat]]
           /\ net[v][op] > 0 => Take(net, v, op) \in [S -> [T -> Nat]]
BY DEF Put, Take

\* The same for packets in flight and for the ledger.
LEMMA PacketsPutTake ==
    ASSUME NEW net \in Packets, NEW v \in Vssds, NEW op \in Ops
    PROVE  /\ Put(net, v, op) \in Packets
           /\ net[v][op] > 0 => Take(net, v, op) \in Packets
BY PutTake DEF Packets

\* The same for a single count per vSSD.
LEMMA CountType ==
    ASSUME NEW S, NEW c \in [S -> Nat], NEW v \in S
    PROVE  /\ [c EXCEPT ![v] = @ + 1] \in [S -> Nat]
           /\ c[v] > 0 => [c EXCEPT ![v] = @ - 1] \in [S -> Nat]
OBVIOUS

\* A queue and the thread that serves it hold a natural number of packets.
LEMMA HeldType ==
    ASSUME VssdTypeOK, NEW v \in Vssds, NEW op \in Ops
    PROVE  Held(v, op) \in Nat
<1>1. ASSUME NEW R, NEW s \in Seq(R) PROVE CountIn(s, op) \in Nat
  <2>1. IsFiniteSet(1..Len(s))
    BY <1>1, FS_Interval
  <2>2. IsFiniteSet({i \in DOMAIN s : s[i] = op})
    BY <1>1, <2>1, FS_Subset
  <2> QED BY <2>2, FS_CardinalityType DEF CountIn
<1>2. CASE op \in IoOps
  BY <1>2 DEF Held, VssdTypeOK, IoOps, IoReplies, GcSends, GcAnswers
<1>3. CASE op \in IoReplies
  <2>1. CountIn(replyQ[v], op) \in Nat
    BY <1>1 DEF VssdTypeOK
  <2>2. op \notin IoOps
    BY <1>3 DEF IoOps, IoReplies
  <2> QED BY <1>3, <2>1, <2>2 DEF Held, IoOps, IoReplies, GcSends, GcAnswers
<1>4. CASE op \in GcSends
  <2>1. CountIn(gcQ[v], op) \in Nat
    BY <1>1 DEF VssdTypeOK
  <2> QED BY <1>4, <2>1 DEF Held, IoOps, IoReplies, GcSends, GcAnswers
<1>5. CASE op \in GcAnswers
  BY <1>5 DEF Held, VssdTypeOK, IoOps, IoReplies, GcSends, GcAnswers
<1> QED BY <1>2, <1>3, <1>4, <1>5 DEF Ops

----------------------------------------------------------------------------
(* Type correctness *)

NetTypeOK ==
    toSwitch \in Packets /\ toVssd \in Packets /\ toClient \in Packets

\* A pass through the switch keeps the types of the registers and of the wire.
LEMMA SwitchStepType ==
    ASSUME NetTypeOK, SwitchTypeOK, NEW v \in Vssds, SwitchStep(v)
    PROVE  NetTypeOK' /\ SwitchTypeOK'
<1> USE PacketsPutTake, ReplicaAssumption
        DEF NetTypeOK, SwitchTypeOK, Ops, IoOps, IoReplies, GcSends, GcAnswers
<1>1. ASSUME NEW op \in Ops, NEW d \in Vssds, NEW out \in Ops,
             Arrives(v, op), Bounce(v, op, d, out), UNCHANGED toClient
      PROVE  NetTypeOK'
  BY <1>1 DEF Arrives, Bounce
<1>2. CASE ForwardWrite(v)
  BY <1>1, <1>2 DEF ForwardWrite, switchVars
<1>3. ASSUME NEW op \in IoReplies, ForwardReply(v, op)
      PROVE  NetTypeOK' /\ SwitchTypeOK'
  BY <1>3 DEF ForwardReply, switchVars, Arrives
<1>4. CASE RouteRead(v)
  <2>1. ReadTarget(v) \in Vssds
    BY DEF ReadTarget
  <2> QED BY <1>1, <1>4, <2>1 DEF RouteRead, switchVars
<1>5. CASE AdmitRequest(v)
  <2>1. toSwitch' \in Packets
    BY <1>5 DEF AdmitRequest, Arrives
  <2>2. recirc' \in [Vssds -> Nat]
    BY <1>5, CountType DEF AdmitRequest
  <2> QED BY <1>5, <2>1, <2>2 DEF AdmitRequest
<1>6. CASE DenyRequest(v)
  BY <1>1, <1>6 DEF DenyRequest, switchVars
<1>7. CASE GrantHard(v)
  BY <1>1, <1>7 DEF GrantHard, SetGcBits
<1>8. CASE GrantAdmitted(v)
  <2>1. toVssd' \in Packets
    BY <1>8 DEF GrantAdmitted
  <2>2. recirc' \in [Vssds -> Nat]
    BY <1>8, CountType DEF GrantAdmitted
  <2> QED BY <1>8, <2>1, <2>2 DEF GrantAdmitted, SetGcBits
<1>9. CASE FinishGc(v)
  BY <1>1, <1>9 DEF FinishGc, ClearGcBits
<1> QED BY <1>2, <1>3, <1>4, <1>5, <1>6, <1>7, <1>8, <1>9 DEF SwitchStep, SwitchOther

\* Any step of a vSSD's threads.
VssdStep(v) ==
    \/ NetStep(v) \/ WorkerStep(v) \/ GcStep(v)
    \/ GcAsk(v) \/ Expire(v) \/ Restart(v)

\* A step of a vSSD keeps the types of its queues and of the wire.
LEMMA VssdStepType ==
    ASSUME NetTypeOK, VssdTypeOK, NEW v \in Vssds, VssdStep(v)
    PROVE  NetTypeOK' /\ VssdTypeOK'
<1> USE PacketsPutTake DEF NetTypeOK, VssdTypeOK, netVars
<1>1. ASSUME NEW op \in Ops, NetRecv(v, op) PROVE NetTypeOK' /\ VssdTypeOK'
  BY <1>1, PutTake DEF NetRecv
<1>2. CASE NetTimeout(v)
  BY <1>2 DEF NetTimeout
<1>3. CASE NetReply(v)
  <2>1. CASE replyQ[v] = <<>>
    BY <1>3, <2>1 DEF NetReply
  <2>2. CASE replyQ[v] # <<>>
    <3>1. Head(replyQ[v]) \in IoReplies /\ Tail(replyQ[v]) \in Seq(IoReplies)
      BY <2>2
    <3>2. Head(replyQ[v]) \in Ops
      BY <3>1 DEF Ops
    <3>3. toSwitch' \in Packets
      BY <1>3, <2>2, <3>2 DEF NetReply
    <3>4. replyQ' \in [Vssds -> Seq(IoReplies)]
      BY <1>3, <2>2, <3>1 DEF NetReply
    <3> QED BY <1>3, <3>3, <3>4 DEF NetReply
  <2> QED BY <2>1, <2>2
<1>4. CASE NetGc(v)
  <2>1. CASE gcQ[v] = <<>>
    BY <1>4, <2>1 DEF NetGc
  <2>2. CASE gcQ[v] # <<>>
    <3>1. Head(gcQ[v]) \in GcSends /\ Tail(gcQ[v]) \in Seq(GcSends)
      BY <2>2
    <3>2. Head(gcQ[v]) \in Ops
      BY <3>1 DEF Ops
    <3>3. toSwitch' \in Packets
      BY <1>4, <2>2, <3>2 DEF NetGc
    <3>4. gcQ' \in [Vssds -> Seq(GcSends)]
      BY <1>4, <2>2, <3>1 DEF NetGc
    <3> QED BY <1>4, <3>3, <3>4 DEF NetGc
  <2> QED BY <2>1, <2>2
<1>5. ASSUME NEW op \in IoOps, WorkerPop(v, op) PROVE NetTypeOK' /\ VssdTypeOK'
  BY <1>5, PutTake DEF WorkerPop
<1>6. CASE WorkerReply(v)
  <2>1. ReplyTo(worker[v]) \in IoReplies
    BY DEF ReplyTo, IoReplies
  <2> QED BY <1>6, <2>1 DEF WorkerReply
<1>7. CASE GcAsk(v)
  <2>1. \A level, idle : GcPacket(level, idle) \in GcSends
    BY DEF GcPacket, GcSends
  <2> QED BY <1>7, <2>1 DEF GcAsk
<1>8. CASE GcNoNeed(v) \/ GcPopNone(v)
  BY <1>8 DEF GcNoNeed, GcPopNone
<1>9. ASSUME NEW op \in GcAnswers, GcPop(v, op) PROVE NetTypeOK' /\ VssdTypeOK'
  BY <1>9, PutTake DEF GcPop
<1>10. CASE GcDone(v)
  BY <1>10 DEF GcDone, GcSends
<1>11. CASE Expire(v)
  BY <1>11 DEF Expire
<1>12. CASE Restart(v)
  BY <1>12 DEF Restart
<1> QED BY <1>1, <1>2, <1>3, <1>4, <1>5, <1>6, <1>7, <1>8, <1>9, <1>10, <1>11, <1>12
        DEF VssdStep, NetStep, WorkerStep, GcStep

\* Every step of the rack keeps every type.
LEMMA TypeStep == TypeOK /\ [Next]_vars => TypeOK'
<1> SUFFICES ASSUME TypeOK, [Next]_vars PROVE TypeOK'
  OBVIOUS
<1> DEFINE LedgerTypeOK ==
      /\ sent \in Packets /\ received \in Packets
      /\ lost \in Packets /\ repeated \in Packets
      /\ asked \in [Vssds -> Nat] /\ ended \in [Vssds -> Nat]
      /\ restarts \in Nat
<1> DEFINE HistoryTypeOK ==
      dropped \subseteq Vssds /\ overlapped \subseteq Vssds /\ excused \subseteq Vssds
<1>0. /\ NetTypeOK /\ SwitchTypeOK /\ VssdTypeOK /\ LedgerTypeOK /\ HistoryTypeOK
      /\ NetTypeOK' /\ SwitchTypeOK' /\ VssdTypeOK' /\ LedgerTypeOK' /\ HistoryTypeOK'
           => TypeOK'
  BY DEF TypeOK, NetTypeOK
<1>1. UNCHANGED switchVars => SwitchTypeOK'
  BY <1>0 DEF switchVars, SwitchTypeOK
<1>2. UNCHANGED vssdVars => VssdTypeOK'
  BY <1>0 DEF vssdVars, VssdTypeOK
<1>3. UNCHANGED ledger => LedgerTypeOK'
  BY <1>0 DEF ledger
<1>4. UNCHANGED history => HistoryTypeOK'
  BY <1>0 DEF history
<1>5. ASSUME NEW v \in Vssds, SwitchStep(v), UNCHANGED vssdVars
      PROVE  NetTypeOK' /\ SwitchTypeOK' /\ VssdTypeOK'
  BY <1>0, <1>2, <1>5, SwitchStepType
<1>6. ASSUME NEW v \in Vssds, VssdStep(v), UNCHANGED switchVars
      PROVE  NetTypeOK' /\ SwitchTypeOK' /\ VssdTypeOK'
  BY <1>0, <1>1, <1>6, VssdStepType
<1> HIDE DEF LedgerTypeOK, HistoryTypeOK
<1>7. \A v \in Vssds : Replica[v] \in Vssds
  BY ReplicaAssumption
<1>8. ClientOps \subseteq Ops /\ IoReplies \subseteq Ops /\ GcSends \subseteq Ops
      /\ GcAnswers \subseteq Ops /\ IoOps \subseteq Ops
  BY DEF ClientOps, Ops
<1>9. ASSUME NEW v \in Vssds, NEW op \in ClientOps, ClientSend(v, op) PROVE TypeOK'
  <2>1. op \in Ops
    BY <1>8
  <2>2. NetTypeOK' /\ LedgerTypeOK'
    BY <1>0, <1>9, <2>1, PacketsPutTake DEF ClientSend, NetTypeOK, LedgerTypeOK
  <2>3. HistoryTypeOK'
    BY <1>0, <1>9 DEF ClientSend, NoteOverlap, HistoryTypeOK
  <2> QED BY <1>0, <1>1, <1>2, <1>9, <2>2, <2>3 DEF ClientSend
<1>10. ASSUME NEW v \in Vssds, NEW op \in IoReplies, ClientRecv(v, op) PROVE TypeOK'
  <2>1. op \in Ops
    BY <1>8
  <2>2. NetTypeOK' /\ LedgerTypeOK'
    BY <1>0, <1>10, <2>1, PacketsPutTake DEF ClientRecv, NetTypeOK, LedgerTypeOK
  <2> QED BY <1>0, <1>1, <1>2, <1>4, <1>10, <2>2 DEF ClientRecv
<1>11. ASSUME NEW v \in Vssds, Pass(v) PROVE TypeOK'
  <2>1. SwitchStep(v)
    BY <1>11 DEF Pass, SwitchStep, SwitchOther
  <2> QED BY <1>0, <1>3, <1>4, <1>5, <1>11, <2>1 DEF Pass
<1>12. ASSUME NEW v \in Vssds, Admit(v) \/ Hard(v) \/ Recirculated(v) \/ Finish(v)
       PROVE  TypeOK'
  <2>1. SwitchStep(v) /\ UNCHANGED vssdVars /\ UNCHANGED ledger
    BY <1>12 DEF Admit, Hard, Recirculated, Finish, SwitchStep, SwitchOther
  <2>2. HistoryTypeOK'
    BY <1>0, <1>7, <1>12 DEF Admit, Hard, Recirculated, Finish, HistoryTypeOK, history
  <2> QED BY <1>0, <1>3, <1>5, <2>1, <2>2
<1>13. ASSUME NEW v \in Vssds, Ask(v) PROVE TypeOK'
  <2>1. VssdStep(v) /\ UNCHANGED switchVars
    BY <1>13 DEF Ask, VssdStep
  <2>2. LedgerTypeOK' /\ HistoryTypeOK'
    BY <1>0, <1>13, CountType DEF Ask, NoteOverlap, LedgerTypeOK, HistoryTypeOK
  <2> QED BY <1>0, <1>6, <2>1, <2>2
<1>14. ASSUME NEW v \in Vssds, NEW op \in GcAnswers, EndRound(v, op) PROVE TypeOK'
  <2>1. VssdStep(v) /\ UNCHANGED switchVars
    BY <1>14 DEF EndRound, VssdStep, GcStep
  <2>2. LedgerTypeOK'
    BY <1>0, <1>14, CountType DEF EndRound, LedgerTypeOK
  <2> QED BY <1>0, <1>4, <1>6, <1>14, <2>1, <2>2 DEF EndRound
<1>15. ASSUME NEW v \in Vssds, Collect(v) \/ VssdOther(v) \/ Expiry(v) PROVE TypeOK'
  <2>1. VssdStep(v) /\ UNCHANGED switchVars /\ UNCHANGED ledger /\ UNCHANGED history
    BY <1>15 DEF Collect, VssdOther, Expiry, VssdStep, GcStep, GcAnswers
  <2> QED BY <1>0, <1>3, <1>4, <1>6, <2>1
<1>16. ASSUME NEW v \in Vssds, VssdRestart(v) PROVE TypeOK'
  <2>1. VssdStep(v) /\ UNCHANGED switchVars
    BY <1>16 DEF VssdRestart, VssdStep
  <2>2. lost' \in Packets
    <3>1. [op \in Ops |-> lost[v][op] + Held(v, op)] \in [Ops -> Nat]
      BY <1>0, HeldType DEF LedgerTypeOK, Packets
    <3> QED BY <1>0, <1>16, <3>1 DEF VssdRestart, LedgerTypeOK, Packets
  <2>3. LedgerTypeOK'
    BY <1>0, <1>16, <2>2 DEF VssdRestart, LedgerTypeOK
  <2>4. HistoryTypeOK'
    BY <1>0, <1>16 DEF VssdRestart, HistoryTypeOK
  <2> QED BY <1>0, <1>6, <2>1, <2>3, <2>4
<1>17. ASSUME NEW v \in Vssds, Fault(v) PROVE TypeOK'
  <2>1. PICK op \in Ops : LoseToSwitch(v, op) \/ LoseToVssd(v, op) \/ RepeatToSwitch(v, op)
    BY <1>8, <1>17 DEF Fault
  <2>2. NetTypeOK' /\ LedgerTypeOK'
    BY <1>0, <2>1, PacketsPutTake
       DEF LoseToSwitch, LoseToVssd, RepeatToSwitch, NetTypeOK, LedgerTypeOK
  <2>3. HistoryTypeOK'
    BY <1>0, <2>1 DEF LoseToSwitch, LoseToVssd, RepeatToSwitch, NoteOverlap, HistoryTypeOK
  <2> QED BY <1>0, <1>1, <1>2, <2>1, <2>2, <2>3
          DEF LoseToSwitch, LoseToVssd, RepeatToSwitch
<1>18. CASE UNCHANGED vars
  <2>1. NetTypeOK'
    BY <1>0, <1>18 DEF vars, netVars, NetTypeOK
  <2> QED BY <1>0, <1>1, <1>2, <1>3, <1>4, <1>18, <2>1 DEF vars
<1> QED BY <1>9, <1>10, <1>11, <1>12, <1>13, <1>14, <1>15, <1>16, <1>17, <1>18 DEF Next

\* Every variable of the rack always has its type: in particular no counter of
\* packets ever goes below zero.
THEOREM TypeCorrect == Spec => []TypeOK
<1>1. Init => TypeOK
  <2> SUFFICES ASSUME Init PROVE TypeOK
    OBVIOUS
  <2>1. NoPackets \in Packets
    BY DEF NoPackets, Packets
  <2> QED BY <2>1 DEF Init, NetInit, SwitchInit, VssdInit, TypeOK, SwitchTypeOK, VssdTypeOK
<1> QED BY <1>1, TypeStep, PTL DEF Spec

----------------------------------------------------------------------------
(* The two tables *)

LEMMA BitsAgreeStep == BitsAgree /\ [Next]_vars => BitsAgree'
<1> SUFFICES ASSUME BitsAgree, [Next]_vars PROVE BitsAgree'
  OBVIOUS
<1> USE DEF BitsAgree
<1>1. UNCHANGED switchVars => BitsAgree'
  BY DEF switchVars
<1>2. ASSUME NEW v \in Vssds, Pass(v) PROVE BitsAgree'
  BY <1>1, <1>2 DEF Pass, ForwardWrite, ForwardReply, RouteRead, DenyRequest
<1>3. ASSUME NEW v \in Vssds, Admit(v) PROVE BitsAgree'
  BY <1>3 DEF Admit, AdmitRequest
<1>4. ASSUME NEW v \in Vssds, Hard(v) \/ Recirculated(v) PROVE BitsAgree'
  BY <1>4 DEF Hard, Recirculated, GrantHard, GrantAdmitted, SetGcBits
<1>5. ASSUME NEW v \in Vssds, Finish(v) PROVE BitsAgree'
  BY <1>5 DEF Finish, FinishGc, ClearGcBits
<1>6. ASSUME NEW v \in Vssds,
             \/ \E op \in ClientOps : ClientSend(v, op)
             \/ \E op \in IoReplies : ClientRecv(v, op)
             \/ Ask(v) \/ Collect(v) \/ VssdOther(v)
             \/ \E op \in GcAnswers : EndRound(v, op)
             \/ Expiry(v) \/ VssdRestart(v) \/ Fault(v)
      PROVE  BitsAgree'
  BY <1>1, <1>6 DEF ClientSend, ClientRecv, Ask, Collect, VssdOther, EndRound,
     Expiry, VssdRestart, Fault, LoseToSwitch, LoseToVssd, RepeatToSwitch
<1>7. CASE UNCHANGED vars
  BY <1>1, <1>7 DEF vars
<1> QED BY <1>2, <1>3, <1>4, <1>5, <1>6, <1>7 DEF Next

\* The replica table and the destination table hold the same bits in every
\* reachable state.
THEOREM TablesAgree == Spec => []BitsAgree
<1>1. Init => BitsAgree
  BY DEF Init, SwitchInit, BitsAgree
<1> QED BY <1>1, BitsAgreeStep, PTL DEF Spec

----------------------------------------------------------------------------
(* Exclusion of a pair *)

\* What makes SoftExclusion inductive: an admitted request remembers that the
\* replica was unmarked when it passed the check, and nothing can mark the
\* replica before the request comes back without excusing the pair.
PairInv ==
    \A v \in Vssds : v \notin excused =>
        /\ Replica[v] \notin excused
        /\ replicaReg[v] = 0 \/ replicaReg[Replica[v]] = 0
        /\ recirc[v] > 0 => replicaReg[Replica[v]] = 0 /\ recirc[Replica[v]] = 0

LEMMA PairStep == TypeOK /\ BitsAgree /\ PairInv /\ [Next]_vars => PairInv'
<1> SUFFICES ASSUME TypeOK, BitsAgree, PairInv, [Next]_vars PROVE PairInv'
  OBVIOUS
<1> USE ReplicaAssumption DEF PairInv
<1>1. UNCHANGED <<switchVars, excused>> => PairInv'
  BY DEF switchVars
<1>2. ASSUME NEW v \in Vssds, Pass(v) PROVE PairInv'
  BY <1>1, <1>2 DEF Pass, ForwardWrite, ForwardReply, RouteRead, DenyRequest, history
<1>3. ASSUME NEW v \in Vssds, Admit(v) PROVE PairInv'
  <2>1. replicaReg[Replica[v]] = 0 /\ UNCHANGED replicaReg
    BY <1>3 DEF Admit, AdmitRequest, GcReplica, BitsAgree
  <2>2. recirc' = [recirc EXCEPT ![v] = @ + 1] /\ recirc \in [Vssds -> Nat]
    BY <1>3 DEF Admit, AdmitRequest, TypeOK, SwitchTypeOK
  <2>3. CASE recirc[Replica[v]] > 0
    <3>1. excused' = excused \cup {v, Replica[v]}
      BY <1>3, <2>3 DEF Admit
    <3> QED BY <2>1, <2>2, <3>1
  <2>4. CASE recirc[Replica[v]] = 0
    <3>1. excused' = excused
      BY <1>3, <2>4 DEF Admit
    <3> QED BY <2>1, <2>2, <2>4, <3>1
  <2> QED BY <2>2, <2>3, <2>4
<1>4. ASSUME NEW v \in Vssds, Hard(v) PROVE PairInv'
  <2>1. /\ replicaReg' = [replicaReg EXCEPT ![v] = 1]
        /\ excused' = excused \cup {v, Replica[v]}
        /\ UNCHANGED recirc
    BY <1>4 DEF Hard, GrantHard, SetGcBits
  <2> QED BY <2>1 DEF TypeOK, SwitchTypeOK
<1>5. ASSUME NEW v \in Vssds, Recirculated(v) PROVE PairInv'
  <2>1. /\ replicaReg' = [replicaReg EXCEPT ![v] = 1]
        /\ recirc[v] > 0
        /\ recirc' = [recirc EXCEPT ![v] = @ - 1]
        /\ UNCHANGED excused
    BY <1>5 DEF Recirculated, GrantAdmitted, SetGcBits, history
  <2> QED BY <2>1 DEF TypeOK, SwitchTypeOK
<1>6. ASSUME NEW v \in Vssds, Finish(v) PROVE PairInv'
  <2>1. replicaReg' = [replicaReg EXCEPT ![v] = 0] /\ UNCHANGED recirc
    BY <1>6 DEF Finish, FinishGc, ClearGcBits
  <2>2. CASE PairIdle(v)
    <3>1. excused' = excused \ {v, Replica[v]}
      BY <1>6, <2>2 DEF Finish
    <3> QED BY <2>1, <2>2, <3>1 DEF PairIdle, TypeOK, SwitchTypeOK
  <2>3. CASE ~PairIdle(v)
    <3>1. excused' = excused
      BY <1>6, <2>3 DEF Finish
    <3> QED BY <2>1, <3>1 DEF TypeOK, SwitchTypeOK
  <2> QED BY <2>2, <2>3
<1>7. ASSUME NEW v \in Vssds,
             \/ \E op \in ClientOps : ClientSend(v, op)
             \/ \E op \in IoReplies : ClientRecv(v, op)
             \/ Ask(v) \/ Collect(v) \/ VssdOther(v)
             \/ \E op \in GcAnswers : EndRound(v, op)
             \/ Expiry(v) \/ VssdRestart(v) \/ Fault(v)
      PROVE  PairInv'
  BY <1>1, <1>7 DEF ClientSend, ClientRecv, Ask, Collect, VssdOther, EndRound, history,
     Expiry, VssdRestart, Fault, LoseToSwitch, LoseToVssd, RepeatToSwitch
<1>8. CASE UNCHANGED vars
  BY <1>1, <1>8 DEF vars, history
<1> QED BY <1>2, <1>3, <1>4, <1>5, <1>6, <1>7, <1>8 DEF Next

\* A vSSD and its replica are both marked only if a hard GC packet was granted,
\* or requests of both were on the recirculation port together, since the pair
\* was last idle.
THEOREM SoftRequestsExclude == Spec => []SoftExclusion
<1>1. Init => PairInv
  BY ReplicaAssumption DEF Init, SwitchInit, PairInv
<1>2. PairInv => SoftExclusion
  BY DEF PairInv, SoftExclusion
<1> QED BY <1>1, <1>2, PairStep, TypeCorrect, TablesAgree, PTL DEF Spec

----------------------------------------------------------------------------
(* Marks and rounds *)

\* A granted round of v whose finish the switch has not seen.
Granted(v) ==
    \/ toVssd[v]["GC_SUCCESS"] > 0
    \/ gcRespQ[v]["GC_SUCCESS"] > 0
    \/ gcPc[v] = "collect"
    \/ \E i \in DOMAIN gcQ[v] : gcQ[v][i] = "GC_FINISH"
    \/ toSwitch[v]["GC_FINISH"] > 0

\* A count of packets in flight only changes where one is put or taken.
LEMMA PacketsCount ==
    ASSUME NEW net \in Packets, NEW v \in Vssds, NEW op \in Ops, NEW w \in Vssds, NEW o \in Ops
    PROVE  /\ net[w][o] \in Nat
           /\ w = v /\ o = op => /\ Put(net, v, op)[w][o] = net[w][o] + 1
                               /\ Take(net, v, op)[w][o] = net[w][o] - 1
           /\ ~(w = v /\ o = op) => /\ Put(net, v, op)[w][o] = net[w][o]
                                  /\ Take(net, v, op)[w][o] = net[w][o]
<1>1. CASE w = v
  BY <1>1 DEF Packets, Put, Take
<1>2. CASE w # v
  BY <1>2 DEF Packets, Put, Take
<1> QED BY <1>1, <1>2

\* The same for the answers a vSSD holds.
LEMMA AnswersCount ==
    ASSUME NEW q \in [Vssds -> [GcAnswers -> Nat]], NEW v \in Vssds, NEW op \in GcAnswers,
           NEW w \in Vssds, NEW o \in GcAnswers
    PROVE  /\ q[w][o] \in Nat
           /\ w = v /\ o = op => /\ Put(q, v, op)[w][o] = q[w][o] + 1
                               /\ Take(q, v, op)[w][o] = q[w][o] - 1
           /\ ~(w = v /\ o = op) => /\ Put(q, v, op)[w][o] = q[w][o]
                                  /\ Take(q, v, op)[w][o] = q[w][o]
<1>1. CASE w = v
  BY <1>1 DEF Put, Take
<1>2. CASE w # v
  BY <1>2 DEF Put, Take
<1> QED BY <1>1, <1>2

\* An appended packet hides none that was in the queue.
LEMMA AppendKeeps ==
    ASSUME NEW R, NEW s \in Seq(R), NEW e \in R, NEW o
    PROVE  /\ (\E i \in DOMAIN s : s[i] = o) =>
                  \E i \in DOMAIN Append(s, e) : Append(s, e)[i] = o
           /\ \E i \in DOMAIN Append(s, e) : Append(s, e)[i] = e
<1>1. DOMAIN s = 1..Len(s) /\ DOMAIN Append(s, e) = 1..(Len(s) + 1) /\ Len(s) \in Nat
  OBVIOUS
<1>2. \A i \in 1..Len(s) : Append(s, e)[i] = s[i]
  OBVIOUS
<1>3. Append(s, e)[Len(s) + 1] = e
  OBVIOUS
<1> QED BY <1>1, <1>2, <1>3

\* A removed head was the packet, or the packet is still in the queue.
LEMMA TailKeeps ==
    ASSUME NEW R, NEW s \in Seq(R), s # <<>>, NEW o, NEW i \in DOMAIN s, s[i] = o
    PROVE  Head(s) = o \/ \E j \in DOMAIN Tail(s) : Tail(s)[j] = o
<1>1. CASE i = 1
  BY <1>1
<1>2. CASE i # 1
  <2>1. i - 1 \in DOMAIN Tail(s) /\ Tail(s)[i - 1] = o
    BY <1>2
  <2> QED BY <2>1
<1> QED BY <1>1, <1>2

\* No step but a finish at the switch, a loss or a restart takes a granted
\* round away.
LEMMA GrantedKept ==
    ASSUME TypeOK, [Next]_vars, NEW w \in Vssds, Granted(w)
    PROVE  Granted(w)' \/ replicaReg'[w] = 0 \/ w \in dropped'
<1>0. /\ toSwitch \in Packets /\ toVssd \in Packets
      /\ gcPc \in [Vssds -> {"check", "pop", "collect", "exit"}]
      /\ gcQ \in [Vssds -> Seq(GcSends)]
      /\ gcRespQ \in [Vssds -> [GcAnswers -> Nat]]
      /\ replicaReg \in [Vssds -> {0, 1}]
      /\ dropped \subseteq Vssds
  BY DEF TypeOK, VssdTypeOK, SwitchTypeOK
<1> DEFINE wires == <<toSwitch, toVssd>>
           queues == <<gcPc, gcQ, gcRespQ>>
<1>1. UNCHANGED <<wires, queues>> => Granted(w)'
  BY DEF Granted
<1>2. "GC_SUCCESS" \in Ops /\ "GC_FINISH" \in Ops /\ "GC_SUCCESS" \in GcAnswers
      /\ GcSends \subseteq Ops /\ GcAnswers \subseteq Ops
      /\ IoOps \subseteq Ops /\ IoReplies \subseteq Ops /\ ClientOps \subseteq Ops
  BY DEF Ops, GcAnswers, GcSends, ClientOps
<1>3. ASSUME NEW net \in Packets, NEW v \in Vssds, NEW op \in Ops, NEW o \in Ops
      PROVE  /\ net[w][o] \in Nat
             /\ Put(net, v, op)[w][o] \in Int /\ Take(net, v, op)[w][o] \in Int
             /\ Put(net, v, op)[w][o] >= net[w][o]
             /\ w = v /\ o = op => Put(net, v, op)[w][o] > 0
             /\ ~(w = v /\ o = op) => Take(net, v, op)[w][o] = net[w][o]
  <2>1. CASE w = v /\ o = op
    BY <2>1, PacketsCount
  <2>2. CASE ~(w = v /\ o = op)
    BY <2>2, PacketsCount
  <2> QED BY <2>1, <2>2
<1> HIDE DEF wires, queues
<1>4. ASSUME NEW v \in Vssds, NEW op \in Ops, NEW d \in Vssds, NEW out \in Ops,
             \/ toSwitch' = toSwitch
             \/ toSwitch' = Put(toSwitch, v, op)
             \/ toSwitch' = Take(toSwitch, v, op) /\ ~(op = "GC_FINISH" /\ v = w),
             \/ toVssd' = toVssd
             \/ toVssd' = Put(toVssd, d, out)
             \/ toVssd' = Take(toVssd, d, out) /\ ~(out = "GC_SUCCESS" /\ d = w),
             UNCHANGED queues
      PROVE  Granted(w)'
  <2>1. toSwitch[w]["GC_FINISH"] > 0 => toSwitch'[w]["GC_FINISH"] > 0
    <3>1. toSwitch'[w]["GC_FINISH"] >= toSwitch[w]["GC_FINISH"]
      BY <1>0, <1>2, <1>3, <1>4
    <3>2. toSwitch'[w]["GC_FINISH"] \in Int
      BY <1>0, <1>2, <1>3, <1>4
    <3> QED BY <1>0, <1>2, <1>3, <3>1, <3>2
  <2>2. toVssd[w]["GC_SUCCESS"] > 0 => toVssd'[w]["GC_SUCCESS"] > 0
    <3>1. toVssd'[w]["GC_SUCCESS"] >= toVssd[w]["GC_SUCCESS"]
      BY <1>0, <1>2, <1>3, <1>4
    <3>2. toVssd'[w]["GC_SUCCESS"] \in Int
      BY <1>0, <1>2, <1>3, <1>4
    <3> QED BY <1>0, <1>2, <1>3, <3>1, <3>2
  <2>3. UNCHANGED <<gcPc, gcQ, gcRespQ>>
    BY <1>4 DEF queues
  <2> QED BY <2>1, <2>2, <2>3 DEF Granted
<1>5. /\ UNCHANGED netVars => UNCHANGED wires
      /\ UNCHANGED vssdVars => UNCHANGED queues
  BY DEF netVars, vssdVars, wires, queues
<1>6. ASSUME NEW v \in Vssds, NEW op \in ClientOps, ClientSend(v, op) PROVE Granted(w)'
  BY <1>2, <1>4, <1>5, <1>6 DEF ClientSend
<1>7. ASSUME NEW v \in Vssds, NEW op \in IoReplies, ClientRecv(v, op) PROVE Granted(w)'
  BY <1>1, <1>5, <1>7 DEF ClientRecv, wires
<1>8. ASSUME NEW v \in Vssds, Pass(v) PROVE Granted(w)'
  <2>1. ReadTarget(v) \in Vssds
    BY ReplicaAssumption DEF ReadTarget
  <2>2. ASSUME NEW op \in IoReplies, ForwardReply(v, op) PROVE Granted(w)'
    BY <1>2, <1>4, <1>5, <1>8, <2>2 DEF Pass, ForwardReply, IoReplies
  <2>3. CASE ForwardWrite(v)
    BY <1>2, <1>4, <1>5, <1>8, <2>3 DEF Pass, ForwardWrite, Bounce, IoOps
  <2>4. CASE RouteRead(v)
    BY <1>2, <1>4, <1>5, <1>8, <2>1, <2>4 DEF Pass, RouteRead, Bounce, IoOps
  <2>5. CASE DenyRequest(v)
    BY <1>2, <1>4, <1>5, <1>8, <2>5 DEF Pass, DenyRequest, Bounce, GcSends, GcAnswers
  <2> QED BY <1>8, <2>2, <2>3, <2>4, <2>5 DEF Pass
<1>9. ASSUME NEW v \in Vssds, Admit(v) \/ Hard(v) \/ Recirculated(v) PROVE Granted(w)'
  <2>1. "GC" \in Ops /\ "GC_REQUEST" \in Ops
    BY DEF Ops, GcSends
  <2>2. CASE Admit(v)
    BY <1>4, <1>5, <2>1, <2>2 DEF Admit, AdmitRequest
  <2>3. CASE Hard(v)
    BY <1>2, <1>4, <1>5, <2>1, <2>3 DEF Hard, GrantHard, Bounce
  <2>4. CASE Recirculated(v)
    BY <1>2, <1>4, <1>5, <2>4 DEF Recirculated, GrantAdmitted
  <2> QED BY <1>9, <2>2, <2>3, <2>4
<1>10. ASSUME NEW v \in Vssds, Finish(v)
       PROVE  Granted(w)' \/ replicaReg'[w] = 0
  <2>1. "GC_FIN_SUC" \in Ops
    BY DEF Ops, GcAnswers
  <2>2. CASE v = w
    BY <1>0, <1>10, <2>2 DEF Finish, FinishGc, ClearGcBits
  <2>3. CASE v # w
    BY <1>2, <1>4, <1>5, <1>10, <2>1, <2>3 DEF Finish, FinishGc, Bounce
  <2> QED BY <2>2, <2>3
<1>11. ASSUME NEW v \in Vssds, NEW e \in GcSends, UNCHANGED wires,
              gcQ' = [gcQ EXCEPT ![v] = Append(@, e)], UNCHANGED gcRespQ,
              \/ gcPc'[w] = gcPc[w]
              \/ gcPc[w] # "collect"
              \/ e = "GC_FINISH" /\ v = w
       PROVE  Granted(w)'
  <2>1. UNCHANGED <<toSwitch, toVssd>>
    BY <1>11 DEF wires
  <2>2. (\E i \in DOMAIN gcQ[w] : gcQ[w][i] = "GC_FINISH") =>
          \E i \in DOMAIN gcQ'[w] : gcQ'[w][i] = "GC_FINISH"
    <3>1. CASE v = w
      <4>1. gcQ[w] \in Seq(GcSends) /\ gcQ'[w] = Append(gcQ[w], e)
        BY <1>0, <1>11, <3>1
      <4> QED BY <4>1, AppendKeeps
    <3>2. CASE v # w
      BY <1>0, <1>11, <3>2
    <3> QED BY <3>1, <3>2
  <2>3. e = "GC_FINISH" /\ v = w =>
          \E i \in DOMAIN gcQ'[w] : gcQ'[w][i] = "GC_FINISH"
    <3>1. HAVE e = "GC_FINISH" /\ v = w
    <3>2. gcQ[w] \in Seq(GcSends) /\ gcQ'[w] = Append(gcQ[w], e)
      BY <1>0, <1>11, <3>1
    <3> QED BY <3>1, <3>2, AppendKeeps
  <2> QED BY <1>11, <2>1, <2>2, <2>3 DEF Granted
<1>12. ASSUME NEW v \in Vssds, Ask(v) PROVE Granted(w)'
  <2>1. \A level, idle : GcPacket(level, idle) \in GcSends
    BY DEF GcPacket, GcSends
  <2>2. /\ UNCHANGED wires /\ UNCHANGED gcRespQ
        /\ gcPc[v] = "check" /\ gcPc' = [gcPc EXCEPT ![v] = "pop"]
        /\ \E e \in GcSends : gcQ' = [gcQ EXCEPT ![v] = Append(@, e)]
    BY <1>5, <1>12, <2>1 DEF Ask, GcAsk
  <2>3. gcPc'[w] = gcPc[w] \/ gcPc[w] # "collect"
    BY <1>0, <2>2
  <2>4. PICK e \in GcSends : gcQ' = [gcQ EXCEPT ![v] = Append(@, e)]
    BY <2>2
  <2> QED BY <1>11, <2>2, <2>3, <2>4
<1>13. ASSUME NEW v \in Vssds, GcDone(v) PROVE Granted(w)'
  <2>1. /\ UNCHANGED wires /\ UNCHANGED gcRespQ
        /\ gcPc' = [gcPc EXCEPT ![v] = "check"]
        /\ gcQ' = [gcQ EXCEPT ![v] = Append(@, "GC_FINISH")]
    BY <1>5, <1>13 DEF GcDone
  <2>2. gcPc'[w] = gcPc[w] \/ v = w
    BY <1>0, <2>1
  <2>3. "GC_FINISH" \in GcSends
    BY DEF GcSends
  <2> QED BY <1>11, <2>1, <2>2, <2>3
<1>14. ASSUME NEW v \in Vssds, NEW op \in GcAnswers, GcPop(v, op) PROVE Granted(w)'
  <2>1. /\ UNCHANGED wires /\ UNCHANGED gcQ
        /\ gcPc[v] = "pop" /\ gcRespQ' = Take(gcRespQ, v, op)
        /\ gcPc' = [gcPc EXCEPT ![v] = IF op = "GC_SUCCESS" THEN "collect" ELSE "check"]
    BY <1>5, <1>14 DEF GcPop
  <2>2. UNCHANGED <<toSwitch, toVssd>>
    BY <2>1 DEF wires
  <2>3. CASE v = w /\ op = "GC_SUCCESS"
    BY <1>0, <2>1, <2>3 DEF Granted
  <2>4. CASE ~(v = w /\ op = "GC_SUCCESS")
    <3>1. gcRespQ'[w]["GC_SUCCESS"] = gcRespQ[w]["GC_SUCCESS"]
      <4>1. gcRespQ \in [Vssds -> [GcAnswers -> Nat]]
        BY <1>0
      <4> QED BY <1>2, <2>1, <2>4, <4>1, AnswersCount
    <3>2. gcPc[w] = "collect" => gcPc'[w] = "collect"
      BY <1>0, <2>1
    <3> QED BY <2>1, <2>2, <3>1, <3>2 DEF Granted
  <2> QED BY <2>3, <2>4
<1>15. ASSUME NEW v \in Vssds, NEW op \in Ops, NetRecv(v, op) PROVE Granted(w)'
  <2>1. /\ UNCHANGED <<toSwitch, gcPc, gcQ>>
        /\ toVssd' = Take(toVssd, v, op)
        /\ gcRespQ' = IF op \in GcAnswers THEN Put(gcRespQ, v, op) ELSE gcRespQ
    BY <1>15 DEF NetRecv
  <2>2. gcRespQ[w]["GC_SUCCESS"] \in Nat
    BY <1>0, <1>2
  <2>3. CASE v = w /\ op = "GC_SUCCESS"
    <3>1. gcRespQ'[w]["GC_SUCCESS"] = gcRespQ[w]["GC_SUCCESS"] + 1
      BY <1>0, <1>2, <2>1, <2>3, AnswersCount
    <3> QED BY <2>2, <3>1 DEF Granted
  <2>4. CASE ~(v = w /\ op = "GC_SUCCESS")
    <3>1. gcRespQ'[w]["GC_SUCCESS"] = gcRespQ[w]["GC_SUCCESS"]
      <4>1. CASE op \in GcAnswers
        BY <1>0, <1>2, <2>1, <2>2, <2>4, <4>1, AnswersCount
      <4>2. CASE op \notin GcAnswers
        BY <2>1, <4>2
      <4> QED BY <4>1, <4>2
    <3>2. toVssd'[w]["GC_SUCCESS"] = toVssd[w]["GC_SUCCESS"]
      BY <1>0, <1>2, <1>3, <2>1, <2>4
    <3> QED BY <2>1, <3>1, <3>2 DEF Granted
  <2> QED BY <2>3, <2>4
<1>16. ASSUME NEW v \in Vssds, NetGc(v) PROVE Granted(w)'
  <2>1. UNCHANGED <<toVssd, gcPc, gcRespQ>>
    BY <1>16 DEF NetGc
  <2>2. CASE gcQ[v] = <<>>
    BY <1>1, <1>16, <2>1, <2>2 DEF NetGc, wires, queues
  <2>3. CASE gcQ[v] # <<>>
    <3>1. /\ toSwitch' = Put(toSwitch, v, Head(gcQ[v]))
          /\ gcQ' = [gcQ EXCEPT ![v] = Tail(@)]
      BY <1>16, <2>3 DEF NetGc
    <3>2. gcQ[v] \in Seq(GcSends) /\ Head(gcQ[v]) \in Ops
      BY <1>0, <1>2, <2>3
    <3>3. toSwitch'[w]["GC_FINISH"] >= toSwitch[w]["GC_FINISH"]
          /\ toSwitch[w]["GC_FINISH"] \in Nat
      BY <1>0, <1>2, <1>3, <3>1, <3>2
    <3>4. v = w /\ Head(gcQ[v]) = "GC_FINISH" => toSwitch'[w]["GC_FINISH"] > 0
      BY <1>0, <1>2, <1>3, <3>1, <3>2
    <3>5. ASSUME NEW i \in DOMAIN gcQ[w], gcQ[w][i] = "GC_FINISH"
          PROVE  \/ toSwitch'[w]["GC_FINISH"] > 0
                 \/ \E j \in DOMAIN gcQ'[w] : gcQ'[w][j] = "GC_FINISH"
      <4>1. CASE v = w
        <5>1. gcQ'[w] = Tail(gcQ[w])
          BY <1>0, <3>1, <4>1
        <5>2. Head(gcQ[w]) = "GC_FINISH" \/ \E j \in DOMAIN Tail(gcQ[w]) : Tail(gcQ[w])[j] = "GC_FINISH"
          BY <2>3, <3>2, <3>5, <4>1, TailKeeps
        <5> QED BY <3>4, <4>1, <5>1, <5>2
      <4>2. CASE v # w
        BY <1>0, <3>1, <3>5, <4>2
      <4> QED BY <4>1, <4>2
    <3>6. toSwitch'[w]["GC_FINISH"] \in Int
      BY <1>0, <1>2, <1>3, <3>1, <3>2
    <3> QED BY <2>1, <3>3, <3>5, <3>6 DEF Granted
  <2> QED BY <2>2, <2>3
<1>17. ASSUME NEW v \in Vssds, NetReply(v) PROVE Granted(w)'
  <2>1. UNCHANGED toVssd /\ UNCHANGED queues
    BY <1>17 DEF NetReply, queues
  <2>2. CASE replyQ[v] = <<>>
    BY <1>1, <1>17, <2>1, <2>2 DEF NetReply, wires
  <2>3. CASE replyQ[v] # <<>>
    <3>1. Head(replyQ[v]) \in Ops
      <4>1. replyQ[v] \in Seq(IoReplies)
        BY DEF TypeOK, VssdTypeOK
      <4> QED BY <1>2, <2>3, <4>1
    <3> QED BY <1>4, <1>17, <2>1, <2>3, <3>1 DEF NetReply
  <2> QED BY <2>2, <2>3
<1>18. ASSUME NEW v \in Vssds,
              \/ NetTimeout(v) \/ WorkerStep(v) \/ GcNoNeed(v) \/ GcPopNone(v) \/ Expire(v)
       PROVE  Granted(w)'
  <2>1. /\ UNCHANGED netVars /\ UNCHANGED <<gcQ, gcRespQ>>
        /\ \/ UNCHANGED gcPc
           \/ gcPc[v] # "collect" /\ \E l \in {"pop", "check", "exit"} :
                                       gcPc' = [gcPc EXCEPT ![v] = l]
    BY <1>18 DEF NetTimeout, WorkerStep, WorkerPop, WorkerReply, GcNoNeed, GcPopNone, Expire
  <2>2. gcPc[w] = "collect" => gcPc'[w] = "collect"
    BY <1>0, <2>1
  <2> QED BY <2>1, <2>2 DEF Granted, netVars
<1>19. ASSUME NEW v \in Vssds, VssdRestart(v) PROVE Granted(w)' \/ w \in dropped'
  <2>1. UNCHANGED <<toSwitch, toVssd>>
    BY <1>19 DEF VssdRestart, Restart, netVars
  <2>2. CASE v # w
    BY <1>0, <1>19, <2>1, <2>2 DEF VssdRestart, Restart, Granted
  <2>3. CASE v = w
    <3>1. Held(w, "GC_SUCCESS") \in Nat /\ Held(w, "GC_FINISH") \in Nat
      BY <1>2, HeldType DEF TypeOK, Ops, GcSends
    <3>2. gcRespQ[w]["GC_SUCCESS"] > 0 \/ gcPc[w] = "collect" => Held(w, "GC_SUCCESS") > 0
      BY <1>0, <1>2 DEF Held, IoOps, IoReplies, GcSends, GcAnswers
    <3>3. (\E i \in DOMAIN gcQ[w] : gcQ[w][i] = "GC_FINISH") => Held(w, "GC_FINISH") > 0
      <4>1. SUFFICES ASSUME NEW i \in DOMAIN gcQ[w], gcQ[w][i] = "GC_FINISH"
                     PROVE  CountIn(gcQ[w], "GC_FINISH") > 0
        BY DEF Held, IoOps, IoReplies, GcSends, GcAnswers
      <4> DEFINE here == {j \in DOMAIN gcQ[w] : gcQ[w][j] = "GC_FINISH"}
      <4>2. IsFiniteSet(DOMAIN gcQ[w])
        BY <1>0, FS_Interval
      <4>3. IsFiniteSet(here) /\ here # {}
        BY <4>1, <4>2, FS_Subset
      <4>4. Cardinality(here) \in Nat /\ Cardinality(here) # 0
        BY <4>3, FS_CardinalityType, FS_EmptySet
      <4> QED BY <4>4 DEF CountIn
    <3>4. \/ Granted(w)'
          \/ Held(w, "GC_SUCCESS") + Held(w, "GC_FINISH") > 0
      BY <2>1, <3>1, <3>2, <3>3 DEF Granted
    <3> QED BY <1>19, <2>3, <3>4 DEF VssdRestart
  <2> QED BY <2>2, <2>3
<1>20. ASSUME NEW v \in Vssds, Fault(v) PROVE Granted(w)' \/ w \in dropped'
  <2>1. ASSUME NEW op \in Ops, LoseToSwitch(v, op) PROVE Granted(w)' \/ w \in dropped'
    BY <1>2, <1>4, <1>5, <2>1 DEF LoseToSwitch
  <2>2. ASSUME NEW op \in Ops, LoseToVssd(v, op) PROVE Granted(w)' \/ w \in dropped'
    BY <1>2, <1>4, <1>5, <2>2 DEF LoseToVssd
  <2>3. ASSUME NEW op \in Ops, RepeatToSwitch(v, op) PROVE Granted(w)'
    BY <1>2, <1>4, <1>5, <2>3 DEF RepeatToSwitch
  <2> QED BY <1>2, <1>20, <2>1, <2>2, <2>3 DEF Fault
<1>21. CASE UNCHANGED vars
  BY <1>1, <1>5, <1>21 DEF vars
<1>22. ASSUME NEW v \in Vssds, Collect(v) \/ VssdOther(v) \/ Expiry(v) PROVE Granted(w)'
  BY <1>2, <1>13, <1>14, <1>15, <1>16, <1>17, <1>18, <1>22
     DEF Collect, VssdOther, NetStep, Expiry
<1>23. ASSUME NEW v \in Vssds, NEW op \in GcAnswers, EndRound(v, op) PROVE Granted(w)'
  BY <1>14, <1>23 DEF EndRound
<1> QED BY <1>6, <1>7, <1>8, <1>9, <1>10, <1>12, <1>19, <1>20, <1>21, <1>22, <1>23 DEF Next

\* A mark appears only with a granted round, and a loss is forgotten only with
\* the mark.
LEMMA MarkStep ==
    ASSUME TypeOK, [Next]_vars, NEW w \in Vssds, replicaReg'[w] = 1, w \notin dropped'
    PROVE  Granted(w)' \/ (replicaReg[w] = 1 /\ w \notin dropped)
<1>0. replicaReg \in [Vssds -> {0, 1}] /\ toVssd \in Packets
  BY DEF TypeOK, SwitchTypeOK
<1>1. ASSUME NEW v \in Vssds, Hard(v) \/ Recirculated(v)
      PROVE  Granted(w)' \/ (replicaReg[w] = 1 /\ w \notin dropped)
  <2>1. /\ toVssd' = Put(toVssd, v, "GC_SUCCESS") /\ UNCHANGED dropped
        /\ replicaReg' = [replicaReg EXCEPT ![v] = 1]
    BY <1>1 DEF Hard, Recirculated, GrantHard, GrantAdmitted, Bounce, SetGcBits, history
  <2>2. CASE v = w
    <3>1. "GC_SUCCESS" \in Ops
      BY DEF Ops, GcAnswers
    <3>2. toVssd'[w]["GC_SUCCESS"] = toVssd[w]["GC_SUCCESS"] + 1 /\ toVssd[w]["GC_SUCCESS"] \in Nat
      <4>1. toVssd \in Packets
        BY <1>0
      <4> QED BY <2>1, <2>2, <3>1, <4>1, PacketsCount
    <3> QED BY <3>2 DEF Granted
  <2>3. CASE v # w
    BY <1>0, <2>1, <2>3
  <2> QED BY <2>2, <2>3
<1>2. ASSUME NEW v \in Vssds, Finish(v) PROVE replicaReg[w] = 1 /\ w \notin dropped
  BY <1>0, <1>2 DEF Finish, FinishGc, ClearGcBits
<1>3. ASSUME NEW v \in Vssds,
             \/ \E op \in ClientOps : ClientSend(v, op)
             \/ \E op \in IoReplies : ClientRecv(v, op)
             \/ Pass(v) \/ Admit(v) \/ Ask(v) \/ Collect(v) \/ VssdOther(v)
             \/ \E op \in GcAnswers : EndRound(v, op)
             \/ Expiry(v) \/ VssdRestart(v) \/ Fault(v)
      PROVE  replicaReg[w] = 1 /\ w \notin dropped
  <2>1. replicaReg' = replicaReg
    BY <1>3 DEF ClientSend, ClientRecv, Ask, Collect, VssdOther, EndRound, Expiry,
       VssdRestart, Fault, LoseToSwitch, LoseToVssd, RepeatToSwitch, Pass, ForwardWrite,
       ForwardReply, RouteRead, DenyRequest, Admit, AdmitRequest, switchVars
  <2>2. dropped \subseteq dropped'
    BY <1>3 DEF ClientSend, ClientRecv, Ask, Collect, VssdOther, EndRound, Expiry,
       VssdRestart, Fault, LoseToSwitch, LoseToVssd, RepeatToSwitch, Pass, Admit, history
  <2> QED BY <2>1, <2>2
<1>4. CASE UNCHANGED vars
  BY <1>4 DEF vars, switchVars, history
<1> QED BY <1>1, <1>2, <1>3, <1>4 DEF Next

\* However packets are delayed, reordered, repeated or lost and vSSDs restarted:
\* a vSSD stays marked as collecting only while a granted round of it is still
\* to send its finish, or after one was lost.
THEOREM MarksAreOwned == Spec => []MarkHasRound
<1>1. Init => MarkHasRound
  BY DEF Init, SwitchInit, MarkHasRound
<1>2. TypeOK /\ MarkHasRound /\ [Next]_vars => MarkHasRound'
  <2> SUFFICES ASSUME TypeOK, MarkHasRound, [Next]_vars, NEW w \in Vssds,
                      replicaReg'[w] = 1, w \notin dropped'
               PROVE  Granted(w)'
    BY DEF MarkHasRound, Granted
  <2>1. CASE replicaReg[w] = 1 /\ w \notin dropped
    <3>1. Granted(w)
      BY <2>1 DEF MarkHasRound, Granted
    <3> QED BY <3>1, GrantedKept
  <2> QED BY <2>1, MarkStep
<1> QED BY <1>1, <1>2, TypeCorrect, PTL DEF Spec
=============================================================================
