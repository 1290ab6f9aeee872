------------------------------- MODULE Rack --------------------------------
(***************************************************************************)
(* The rack: the switch, the vSSD processes, the clients that send them    *)
(* I/O and GC packets, and the server that forwards everything between the *)
(* switch and the vSSDs and may lose or repeat a packet on the way.        *)
(*                                                                         *)
(* GC is coordinated in rounds.  A round begins with a GC or GC_REQUEST    *)
(* packet and moves from place to place - the vSSD's gc_q, the wire, the   *)
(* recirculation port, gcresp_q, do_gc and back as a GC_FINISH - until the *)
(* vSSD takes its denial or its acknowledgement from gcresp_q.  The        *)
(* properties relate the switch's two bits per vSSD to where the rounds    *)
(* are.                                                                    *)
(***************************************************************************)
EXTENDS RackSwitch, RackVssd, FiniteSetsExt

CONSTANTS
    \* Bounds.
    Budget,         \* client packets of each type: [Vssds -> [ClientOps -> Nat]]
    MaxAsk,         \* GC packets each vSSD may create
    MaxLoss,        \* packets the server may lose ...
    MaxRepeat,      \* ... and repeat
    MaxRestart,     \* times a vSSD process may end and start again
    CanExpire       \* may threads reach their expiry?

\* The types in the client's traces.
ClientOps == IoOps \cup GcSends

ASSUME BoundsAssumption ==
    /\ Budget \in [Vssds -> [ClientOps -> Nat]]
    /\ MaxAsk \in Nat /\ MaxLoss \in Nat /\ MaxRepeat \in Nat
    /\ MaxRestart \in Nat /\ CanExpire \in BOOLEAN

VARIABLES
    \* The ledger: what came into being and what is gone, by vSSD and type.
    sent,       \* packets the client sent
    received,   \* replies the client got (pkt_recv)
    asked,      \* GC packets created by run_gc: [Vssds -> Nat]
    ended,      \* answers with which run_gc ends a round: [Vssds -> Nat]
    lost,       \* packets lost by the server or with a vSSD process
    repeated,   \* packets repeated by the server
    restarts,   \* restarts so far
    \* History variables, sets of vSSDs.
    dropped,    \* lost a granted round since its bits were last cleared
    overlapped, \* ever had a round begin while another was under way
    excused     \* may be marked together with its replica (see below)

ledger  == <<sent, received, asked, ended, lost, repeated, restarts>>
history == <<dropped, overlapped, excused>>
vars    == <<netVars, switchVars, vssdVars, ledger, history>>

Init ==
    /\ NetInit /\ SwitchInit /\ VssdInit
    /\ sent = NoPackets /\ received = NoPackets
    /\ lost = NoPackets /\ repeated = NoPackets
    /\ asked = [v \in Vssds |-> 0] /\ ended = [v \in Vssds |-> 0]
    /\ restarts = 0
    /\ dropped = {} /\ overlapped = {} /\ excused = {}

\* Packets of v of a type that are somewhere in the rack.
At(v, op) == toSwitch[v][op] + toVssd[v][op] + toClient[v][op] + Held(v, op)
\* The packets of GC rounds, of counts by type.
GcCount(c) ==
    c["GC"] + c["GC_REQUEST"] + c["GC_FINISH"]
    + c["GC_SUCCESS"] + c["GC_DENY"] + c["GC_FIN_SUC"]
Rounds(v) == GcCount([op \in GcSends \cup GcAnswers |-> At(v, op)]) + recirc[v]

\* A packet that begins a round of v, or a finish from outside it, has entered.
NoteOverlap(v, op) ==
    overlapped' = IF op \in GcSends /\ Rounds(v) > 0
                  THEN overlapped \cup {v} ELSE overlapped

Total(count) ==
    MapThenSumSet(LAMBDA v : MapThenSumSet(LAMBDA op : count[v][op], Ops), Vssds)

----------------------------------------------------------------------------
(* The client (client_code/main.c) *)

ClientSend(v, op) ==
    /\ sent[v][op] < Budget[v][op]
    /\ sent' = Put(sent, v, op)
    /\ toSwitch' = Put(toSwitch, v, op)
    /\ NoteOverlap(v, op)
    /\ UNCHANGED <<toVssd, toClient, switchVars, vssdVars, received, asked,
                   ended, lost, repeated, restarts, dropped, excused>>

ClientRecv(v, op) ==
    /\ toClient[v][op] > 0
    /\ toClient' = Take(toClient, v, op)
    /\ received' = Put(received, v, op)
    /\ UNCHANGED <<toSwitch, toVssd, switchVars, vssdVars, sent, asked, ended,
                   lost, repeated, restarts, history>>

(* The switch *)

Pass(v) ==
    /\ \/ ForwardWrite(v)
       \/ \E op \in IoReplies : ForwardReply(v, op)
       \/ RouteRead(v)
       \/ DenyRequest(v)
    /\ UNCHANGED <<vssdVars, ledger, history>>

\* v and its replica may both be marked once a hard GC packet of either was
\* granted, or requests of both were admitted before either came back ...
Admit(v) ==
    /\ AdmitRequest(v)
    /\ excused' = IF recirc[Replica[v]] > 0
                  THEN excused \cup {v, Replica[v]} ELSE excused
    /\ UNCHANGED <<vssdVars, ledger, dropped, overlapped>>

Hard(v) ==
    /\ GrantHard(v)
    /\ excused' = excused \cup {v, Replica[v]}
    /\ UNCHANGED <<vssdVars, ledger, dropped, overlapped>>

Recirculated(v) ==
    /\ GrantAdmitted(v)
    /\ UNCHANGED <<vssdVars, ledger, history>>

\* ... until both are unmarked again and neither has a request admitted.
PairIdle(v) ==
    \A w \in {v, Replica[v]} : replicaReg'[w] = 0 /\ recirc'[w] = 0

Finish(v) ==
    /\ FinishGc(v)
    /\ dropped' = dropped \ {v}
    /\ excused' = IF PairIdle(v) THEN excused \ {v, Replica[v]} ELSE excused
    /\ UNCHANGED <<vssdVars, ledger, overlapped>>

(* The vSSDs *)

Ask(v) ==
    /\ asked[v] < MaxAsk
    /\ GcAsk(v)
    /\ asked' = [asked EXCEPT ![v] = @ + 1]
    /\ NoteOverlap(v, "GC")
    /\ UNCHANGED <<switchVars, sent, received, ended, lost, repeated, restarts,
                   dropped, excused>>

EndRound(v, op) ==
    /\ op # "GC_SUCCESS"
    /\ GcPop(v, op)
    /\ ended' = [ended EXCEPT ![v] = @ + 1]
    /\ UNCHANGED <<switchVars, sent, received, asked, lost, repeated, restarts,
                   history>>

Collect(v) ==
    /\ GcPop(v, "GC_SUCCESS")
    /\ UNCHANGED <<switchVars, ledger, history>>

VssdOther(v) ==
    /\ NetStep(v) \/ WorkerStep(v) \/ GcNoNeed(v) \/ GcPopNone(v) \/ GcDone(v)
    /\ UNCHANGED <<switchVars, ledger, history>>

Expiry(v) ==
    /\ CanExpire
    /\ Expire(v)
    /\ UNCHANGED <<switchVars, ledger, history>>

VssdRestart(v) ==
    /\ restarts < MaxRestart
    /\ restarts' = restarts + 1
    /\ Restart(v)
    /\ lost' = [lost EXCEPT ![v] = [op \in Ops |-> @[op] + Held(v, op)]]
    /\ dropped' = IF Held(v, "GC_SUCCESS") + Held(v, "GC_FINISH") > 0
                  THEN dropped \cup {v} ELSE dropped
    /\ UNCHANGED <<switchVars, sent, received, asked, ended, repeated,
                   overlapped, excused>>

(* The server (server_code/main.c) *)

\* The transmit burst is full and its packets are freed, or a UDP datagram
\* does not arrive.
LoseToSwitch(v, op) ==
    /\ toSwitch[v][op] > 0
    /\ Total(lost) < MaxLoss
    /\ toSwitch' = Take(toSwitch, v, op)
    /\ lost' = Put(lost, v, op)
    /\ dropped' = IF op = "GC_FINISH" THEN dropped \cup {v} ELSE dropped
    /\ UNCHANGED <<toVssd, toClient, switchVars, vssdVars, sent, received,
                   asked, ended, repeated, restarts, overlapped, excused>>

\* Nobody reads the socket of a vSSD whose network thread has expired.
LoseToVssd(v, op) ==
    /\ toVssd[v][op] > 0
    /\ Total(lost) < MaxLoss \/ netPc[v] = "exit"
    /\ toVssd' = Take(toVssd, v, op)
    /\ lost' = Put(lost, v, op)
    /\ dropped' = IF op = "GC_SUCCESS" THEN dropped \cup {v} ELSE dropped
    /\ UNCHANGED <<toSwitch, toClient, switchVars, vssdVars, sent, received,
                   asked, ended, repeated, restarts, overlapped, excused>>

\* Both lcores copy the one receive buffer: a packet from a vSSD goes out twice
\* (and the one it overwrote is lost, a step of LoseToSwitch).
RepeatToSwitch(v, op) ==
    /\ toSwitch[v][op] > 0
    /\ Total(repeated) < MaxRepeat
    /\ toSwitch' = Put(toSwitch, v, op)
    /\ repeated' = Put(repeated, v, op)
    /\ NoteOverlap(v, op)
    /\ UNCHANGED <<toVssd, toClient, switchVars, vssdVars, sent, received,
                   asked, ended, lost, restarts, dropped, excused>>

Fault(v) ==
    \/ \E op \in IoOps \cup IoReplies \cup GcSends : LoseToSwitch(v, op)
    \/ \E op \in IoReplies \cup GcSends : RepeatToSwitch(v, op)
    \/ \E op \in IoOps \cup GcAnswers : LoseToVssd(v, op)

Next ==
    \E v \in Vssds :
        \/ \E op \in ClientOps : ClientSend(v, op)
        \/ \E op \in IoReplies : ClientRecv(v, op)
        \/ Pass(v) \/ Admit(v) \/ Hard(v) \/ Recirculated(v) \/ Finish(v)
        \/ Ask(v) \/ Collect(v) \/ VssdOther(v)
        \/ \E op \in GcAnswers : EndRound(v, op)
        \/ Expiry(v) \/ VssdRestart(v)
        \/ Fault(v)

Spec == Init /\ [][Next]_vars

\* The switch processes every packet and the threads of a live vSSD keep
\* looping; a packet that has arrived makes recvfrom return it rather than
\* time out, so receiving is strongly fair.  Nothing is fair about clients
\* sending, faults, or the expiry of a thread.
GcThread(v) ==
    \/ Ask(v) \/ Collect(v) \/ \E op \in GcAnswers : EndRound(v, op)
    \/ (GcNoNeed(v) \/ GcPopNone(v) \/ GcDone(v)) /\ UNCHANGED <<switchVars, ledger, history>>
NetThread(v) == NetStep(v) /\ UNCHANGED <<switchVars, ledger, history>>
Receive(v) ==
    (\E op \in Ops : NetRecv(v, op)) /\ UNCHANGED <<switchVars, ledger, history>>
WorkerThread(v) == WorkerStep(v) /\ UNCHANGED <<switchVars, ledger, history>>

Fairness ==
    \A v \in Vssds :
        /\ WF_vars(Pass(v)) /\ WF_vars(Admit(v)) /\ WF_vars(Hard(v))
        /\ WF_vars(Recirculated(v)) /\ WF_vars(Finish(v))
        /\ WF_vars(NetThread(v)) /\ SF_vars(Receive(v))
        /\ WF_vars(WorkerThread(v)) /\ WF_vars(GcThread(v))
        /\ WF_vars(\E op \in IoReplies : ClientRecv(v, op))

FairSpec == Spec /\ Fairness

----------------------------------------------------------------------------
(* Properties *)

\* Every variable has its type.
TypeOK ==
    /\ toSwitch \in Packets /\ toVssd \in Packets /\ toClient \in Packets
    /\ SwitchTypeOK /\ VssdTypeOK
    /\ sent \in Packets /\ received \in Packets
    /\ lost \in Packets /\ repeated \in Packets
    /\ asked \in [Vssds -> Nat] /\ ended \in [Vssds -> Nat]
    /\ restarts \in Nat
    /\ dropped \subseteq Vssds /\ overlapped \subseteq Vssds /\ excused \subseteq Vssds

\* A vSSD marked as collecting has a granted round whose finish is still to
\* come, unless a granted round of it was lost since the mark was last cleared:
\* the switch's bit, which only a finish clears, is never stuck by itself
\* (basic_rackblox.p4, TYPE_GC and TYPE_GC_FINISH; rb_nexus.c, run_gc).
MarkHasRound ==
    \A v \in Vssds : replicaReg[v] = 1 /\ v \notin dropped =>
        \/ toVssd[v]["GC_SUCCESS"] > 0
        \/ gcRespQ[v]["GC_SUCCESS"] > 0
        \/ gcPc[v] = "collect"
        \/ \E i \in DOMAIN gcQ[v] : gcQ[v][i] = "GC_FINISH"
        \/ toSwitch[v]["GC_FINISH"] > 0

\* A vSSD none of whose rounds ever overlapped collects only while the switch
\* has it marked, so that reads can be steered away from it: one round at a
\* time is the discipline under which the protocol works.
CollectsMarked ==
    \A v \in Vssds : gcPc[v] = "collect" /\ v \notin overlapped => replicaReg[v] = 1

\* A vSSD and its replica are both marked only after a hard GC packet or after
\* two admitted requests were on the recirculation port together: the check of
\* the replica's bit excludes every other way (basic_rackblox.p4:368-378).
SoftExclusion ==
    \A v \in Vssds :
        v \notin excused => ~(replicaReg[v] = 1 /\ replicaReg[Replica[v]] = 1)

\* The two tables never disagree about a vSSD, so a request denied because of
\* destination_registers and a read redirected because of replica_registers
\* are decided from the same state.
BitsAgree == replicaReg = destReg

\* No GC round is lost or counted twice by the rack itself: every packet that
\* began one is in exactly one place, or ended in run_gc, or was lost, across
\* the queues, the recirculation, do_gc and the answers.
RoundsConserved ==
    \A v \in Vssds :
        asked[v] + GcCount(sent[v]) + GcCount(repeated[v])
          = Rounds(v) + ended[v] + GcCount(lost[v])

\* A write is executed by the vSSD it names and answered in its name, once.
WritesConserved ==
    \A v \in Vssds :
        sent[v]["WRITE"] + repeated[v]["WRITE_REPLY"]
          = At(v, "WRITE") + At(v, "WRITE_REPLY") + received[v]["WRITE_REPLY"]
            + lost[v]["WRITE"] + lost[v]["WRITE_REPLY"]

\* A read is executed once, by the vSSD it names or by the replica.
ReadsMade(v) == sent[v]["READ"] + repeated[v]["READ_REPLY"]
ReadsSeen(v) ==
    At(v, "READ") + At(v, "READ_REPLY") + received[v]["READ_REPLY"]
    + lost[v]["READ"] + lost[v]["READ_REPLY"]
ReadsConserved ==
    \A v \in Vssds :
        ReadsMade(v) + ReadsMade(Replica[v]) = ReadsSeen(v) + ReadsSeen(Replica[v])

\* A step that hands a read to a vSSD marked as collecting does so only when
\* the replica is marked too, and then only a read that names it
\* (test_gc_both.sh:4): two registers read through two tables, whichever of
\* the pair the read names.
ReadsAvoidCollector ==
    [][\A v \in Vssds :
          toVssd'[v]["READ"] > toVssd[v]["READ"] /\ replicaReg[v] = 1
            => /\ replicaReg[Replica[v]] = 1
               /\ toSwitch'[v]["READ"] < toSwitch[v]["READ"]]_vars

\* With no loss, no restart and no expiry every mark is cleared again.
MarksCleared == \A v \in Vssds : replicaReg[v] = 1 ~> replicaReg[v] = 0

\* With no loss, no restart and no expiry the client gets a reply to every
\* request it sent.
RepliesArrive ==
    LET over(count) == MapThenSumSet(LAMBDA v : count[v]["READ"] + count[v]["WRITE"], Vssds)
    IN  \A n \in 1..over(Budget) : over(sent) >= n ~> Total(received) >= n

----------------------------------------------------------------------------
(* What the test scripts say, which the code does not guarantee. *)

\* test_gc_req_both_1.sh:4 and test_gc_req_both_2.sh:4: of two GC requests, one
\* for each vSSD of a pair, the first is granted and the second denied.
OneRequestGranted ==
    \A v \in Vssds : ~(replicaReg[v] = 1 /\ replicaReg[Replica[v]] = 1)
=============================================================================
