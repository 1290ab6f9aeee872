----------------------------- MODULE RackVssd ------------------------------
(***************************************************************************)
(* A vSSD process (vssd_code/rb_nexus.c): the network, worker and GC       *)
(* threads and the four queues between them.  Every action is the code of  *)
(* one thread from one queue lock to the next; the threads interleave.     *)
(*                                                                         *)
(* dev_q is ordered by a priority made of a measured latency and the clock *)
(* (the module IoSched is about that order), and the priority of a node of *)
(* gcresp_q is never assigned, so either queue may yield any of its nodes: *)
(* both are counted.  reply_q and gc_q are first in, first out.            *)
(***************************************************************************)
EXTENDS RackNet, FiniteSets

CONSTANTS
    GcLevels,       \* what get_gc_thresh can return, in hundredths
    Greeted         \* the vSSDs that the test datagram of the server reaches

ASSUME VssdAssumption == GcLevels \subseteq Int /\ Greeted \subseteq Vssds

VARIABLES
    netPc,      \* run_net: "recv", "reply", "gc" or "exit"
    worker,     \* run_worker: "idle", the request it executes, or "exit"
    gcPc,       \* run_gc: "check", "pop", "collect" (in do_gc) or "exit"
    known,      \* run_net: some datagram has arrived, so cliaddr is set
    devQ,       \* dev_q: [Vssds -> [IoOps -> Nat]]
    replyQ,     \* reply_q: [Vssds -> Seq(IoReplies)], removed at the head
    gcQ,        \* gc_q: [Vssds -> Seq(GcSends)], removed at the head
    gcRespQ     \* gcresp_q: [Vssds -> [GcAnswers -> Nat]]

vssdVars == <<netPc, worker, gcPc, known, devQ, replyQ, gcQ, gcRespQ>>

VssdTypeOK ==
    /\ netPc \in [Vssds -> {"recv", "reply", "gc", "exit"}]
    /\ worker \in [Vssds -> {"idle", "exit"} \cup IoOps]
    /\ gcPc \in [Vssds -> {"check", "pop", "collect", "exit"}]
    /\ known \in [Vssds -> BOOLEAN]
    /\ devQ \in [Vssds -> [IoOps -> Nat]]
    /\ replyQ \in [Vssds -> Seq(IoReplies)]
    /\ gcQ \in [Vssds -> Seq(GcSends)]
    /\ gcRespQ \in [Vssds -> [GcAnswers -> Nat]]

\* The vSSDs have been started, then the server.  Its init sends each vSSD ten
\* bytes that it never sets (server_code/util.h:479-490), which may be lost: all
\* they do is to set cliaddr.  They are taken to spell no message.
VssdInit ==
    /\ netPc = [v \in Vssds |-> "recv"]
    /\ worker = [v \in Vssds |-> "idle"]
    /\ gcPc = [v \in Vssds |-> "check"]
    /\ known = [v \in Vssds |-> v \in Greeted]
    /\ devQ = [v \in Vssds |-> [op \in IoOps |-> 0]]
    /\ replyQ = [v \in Vssds |-> <<>>]
    /\ gcQ = [v \in Vssds |-> <<>>]
    /\ gcRespQ = [v \in Vssds |-> [op \in GcAnswers |-> 0]]

----------------------------------------------------------------------------
(* run_net *)

\* A packet arrives: a request goes to dev_q, a GC answer to gcresp_q, and
\* anything else is dropped (the code keeps the node and never frees it).
NetRecv(v, op) ==
    /\ netPc[v] = "recv"
    /\ toVssd[v][op] > 0
    /\ toVssd' = Take(toVssd, v, op)
    /\ devQ' = IF op \in IoOps THEN Put(devQ, v, op) ELSE devQ
    /\ gcRespQ' = IF op \in GcAnswers THEN Put(gcRespQ, v, op) ELSE gcRespQ
    /\ known' = [known EXCEPT ![v] = TRUE]
    /\ netPc' = [netPc EXCEPT ![v] = "reply"]
    /\ UNCHANGED <<toSwitch, toClient, worker, gcPc, replyQ, gcQ>>

\* recvfrom times out.  Before the first datagram the loop goes no further, so
\* nothing is sent, not even the GC packets that pile up in gc_q.
NetTimeout(v) ==
    /\ netPc[v] = "recv"
    /\ known[v]
    /\ netPc' = [netPc EXCEPT ![v] = "reply"]
    /\ UNCHANGED <<netVars, worker, gcPc, known, devQ, replyQ, gcQ, gcRespQ>>

\* Mutant of NetReply: the reply stays in the queue.
NetReplyKeep(v) ==
    /\ netPc[v] = "reply"
    /\ netPc' = [netPc EXCEPT ![v] = "gc"]
    /\ toSwitch' = IF replyQ[v] = <<>> THEN toSwitch ELSE Put(toSwitch, v, Head(replyQ[v]))
    /\ UNCHANGED <<toVssd, toClient, worker, gcPc, known, devQ, replyQ, gcQ, gcRespQ>>

\* At most one reply is sent in an iteration.
NetReply(v) ==
    /\ netPc[v] = "reply"
    /\ netPc' = [netPc EXCEPT ![v] = "gc"]
    /\ IF replyQ[v] = <<>>
       THEN UNCHANGED <<toSwitch, replyQ>>
       ELSE /\ toSwitch' = Put(toSwitch, v, Head(replyQ[v]))
            /\ replyQ' = [replyQ EXCEPT ![v] = Tail(@)]
    /\ UNCHANGED <<toVssd, toClient, worker, gcPc, known, devQ, gcQ, gcRespQ>>

\* Mutant of NetGc: the GC packet is removed but not sent.
NetGcDrop(v) ==
    /\ netPc[v] = "gc"
    /\ netPc' = [netPc EXCEPT ![v] = "recv"]
    /\ gcQ' = IF gcQ[v] = <<>> THEN gcQ ELSE [gcQ EXCEPT ![v] = Tail(@)]
    /\ UNCHANGED <<netVars, worker, gcPc, known, devQ, replyQ, gcRespQ>>

\* At most one GC packet is sent in an iteration.
NetGc(v) ==
    /\ netPc[v] = "gc"
    /\ netPc' = [netPc EXCEPT ![v] = "recv"]
    /\ IF gcQ[v] = <<>>
       THEN UNCHANGED <<toSwitch, gcQ>>
       ELSE /\ toSwitch' = Put(toSwitch, v, Head(gcQ[v]))
            /\ gcQ' = [gcQ EXCEPT ![v] = Tail(@)]
    /\ UNCHANGED <<toVssd, toClient, worker, gcPc, known, devQ, replyQ, gcRespQ>>

----------------------------------------------------------------------------
(* run_worker *)

WorkerPop(v, op) ==
    /\ worker[v] = "idle"
    /\ devQ[v][op] > 0
    /\ devQ' = Take(devQ, v, op)
    /\ worker' = [worker EXCEPT ![v] = op]
    /\ UNCHANGED <<netVars, netPc, gcPc, known, replyQ, gcQ, gcRespQ>>

ReplyTo(op) == IF op = "READ" THEN "READ_REPLY" ELSE "WRITE_REPLY"

WorkerReply(v) ==
    /\ worker[v] \in IoOps
    /\ replyQ' = [replyQ EXCEPT ![v] = Append(@, ReplyTo(worker[v]))]
    /\ worker' = [worker EXCEPT ![v] = "idle"]
    /\ UNCHANGED <<netVars, netPc, gcPc, known, devQ, gcQ, gcRespQ>>

----------------------------------------------------------------------------
(* run_gc *)

SoftThresh == 35
HardThresh == 25
BgThresh   == 55

\* idle: idle_time > idle_thresh, the background condition's second half.
Background(level, idle) == level < BgThresh /\ idle
WantsGc(level, idle) == level < SoftThresh \/ Background(level, idle)
GcPacket(level, idle) ==
    IF level < HardThresh \/ Background(level, idle) THEN "GC" ELSE "GC_REQUEST"

\* The head of the loop.  Nothing remembers that a round is under way: each
\* iteration that finds the free-block ratio low asks again.
GcAsk(v) ==
    /\ gcPc[v] = "check"
    /\ \E level \in GcLevels, idle \in BOOLEAN :
         /\ WantsGc(level, idle)
         /\ gcQ' = [gcQ EXCEPT ![v] = Append(@, GcPacket(level, idle))]
    /\ gcPc' = [gcPc EXCEPT ![v] = "pop"]
    /\ UNCHANGED <<netVars, netPc, worker, known, devQ, replyQ, gcRespQ>>

GcNoNeed(v) ==
    /\ gcPc[v] = "check"
    /\ \E level \in GcLevels, idle \in BOOLEAN : ~WantsGc(level, idle)
    /\ gcPc' = [gcPc EXCEPT ![v] = "pop"]
    /\ UNCHANGED <<netVars, netPc, worker, known, devQ, replyQ, gcQ, gcRespQ>>

GcPopNone(v) ==
    /\ gcPc[v] = "pop"
    /\ \A op \in GcAnswers : gcRespQ[v][op] = 0
    /\ gcPc' = [gcPc EXCEPT ![v] = "check"]
    /\ UNCHANGED <<netVars, netPc, worker, known, devQ, replyQ, gcQ, gcRespQ>>

\* Mutant of GcPop: any answer starts do_gc.
GcPopAny(v, op) ==
    /\ gcPc[v] = "pop"
    /\ gcRespQ[v][op] > 0
    /\ gcRespQ' = Take(gcRespQ, v, op)
    /\ gcPc' = [gcPc EXCEPT ![v] = "collect"]
    /\ UNCHANGED <<netVars, netPc, worker, known, devQ, replyQ, gcQ>>

\* A success starts do_gc; a denial or the acknowledgement of a finish ends
\* the round.
GcPop(v, op) ==
    /\ gcPc[v] = "pop"
    /\ gcRespQ[v][op] > 0
    /\ gcRespQ' = Take(gcRespQ, v, op)
    /\ gcPc' = [gcPc EXCEPT ![v] =
                  IF op = "GC_SUCCESS" THEN "collect" ELSE "check"]
    /\ UNCHANGED <<netVars, netPc, worker, known, devQ, replyQ, gcQ>>

\* Mutant of GcDone: the success is freed like a denial, no finish is sent.
GcDoneSilent(v) ==
    /\ gcPc[v] = "collect"
    /\ gcPc' = [gcPc EXCEPT ![v] = "check"]
    /\ UNCHANGED <<netVars, netPc, worker, known, devQ, replyQ, gcQ, gcRespQ>>

\* do_gc returns; the success is sent back as a finish.
GcDone(v) ==
    /\ gcPc[v] = "collect"
    /\ gcQ' = [gcQ EXCEPT ![v] = Append(@, "GC_FINISH")]
    /\ gcPc' = [gcPc EXCEPT ![v] = "check"]
    /\ UNCHANGED <<netVars, netPc, worker, known, devQ, replyQ, gcRespQ>>

----------------------------------------------------------------------------
(* check_exp, which each thread calls at the head of its loop, and the end
   of the process. *)

Expire(v) ==
    /\ \/ /\ netPc[v] = "recv"
          /\ netPc' = [netPc EXCEPT ![v] = "exit"]
          /\ UNCHANGED <<worker, gcPc>>
       \/ /\ worker[v] = "idle"
          /\ worker' = [worker EXCEPT ![v] = "exit"]
          /\ UNCHANGED <<netPc, gcPc>>
       \/ /\ gcPc[v] = "check"
          /\ gcPc' = [gcPc EXCEPT ![v] = "exit"]
          /\ UNCHANGED <<netPc, worker>>
    /\ UNCHANGED <<netVars, known, devQ, replyQ, gcQ, gcRespQ>>

\* The process is gone, because main joined the three threads or because
\* clean_up.sh killed it, with whatever its queues held; run_vssd.sh starts
\* it again.
Restart(v) ==
    /\ netPc' = [netPc EXCEPT ![v] = "recv"]
    /\ worker' = [worker EXCEPT ![v] = "idle"]
    /\ gcPc' = [gcPc EXCEPT ![v] = "check"]
    /\ known' = [known EXCEPT ![v] = FALSE]
    /\ devQ' = [devQ EXCEPT ![v] = [op \in IoOps |-> 0]]
    /\ replyQ' = [replyQ EXCEPT ![v] = <<>>]
    /\ gcQ' = [gcQ EXCEPT ![v] = <<>>]
    /\ gcRespQ' = [gcRespQ EXCEPT ![v] = [op \in GcAnswers |-> 0]]
    /\ UNCHANGED netVars

NetStep(v) ==
    \/ \E op \in Ops : NetRecv(v, op)
    \/ NetTimeout(v)
    \/ NetReply(v)
    \/ NetGc(v)
WorkerStep(v) == WorkerReply(v) \/ \E op \in IoOps : WorkerPop(v, op)
GcStep(v) ==
    \/ GcNoNeed(v)
    \/ GcPopNone(v)
    \/ \E op \in GcAnswers : GcPop(v, op)
    \/ GcDone(v)

\* What a node of v holds, by type, in its queues and threads.
CountIn(s, op) == Cardinality({i \in DOMAIN s : s[i] = op})
Held(v, op) ==
    CASE op \in IoOps     -> devQ[v][op] + IF worker[v] = op THEN 1 ELSE 0
      [] op \in IoReplies -> CountIn(replyQ[v], op)
      [] op \in GcSends   -> CountIn(gcQ[v], op)
      [] op \in GcAnswers ->
           gcRespQ[v][op]
           + IF op = "GC_SUCCESS" /\ gcPc[v] = "collect" THEN 1 ELSE 0
=============================================================================
