-------------------------- MODULE RackLedger_proof --------------------------
(***************************************************************************)
(* Proofs of the conservation laws of Rack, and of the properties that     *)
(* rest on them, for any number of vSSDs, any budgets and any faults.      *)
(*                                                                         *)
(* The argument is double entry.  Balance(w, o) is what the rack shows of  *)
(* the packets of w of type o (in place, received, lost) minus what came   *)
(* into being outside it (sent, repeated).  A step leaves every balance    *)
(* alone, or moves one packet from one balance to another of the same      *)
(* kind, or moves it to or from the recirculation port, run_gc's questions *)
(* and run_gc's endings; a law is the sum of the balances of one kind.     *)
(***************************************************************************)
EXTENDS Rack_proof

\* One packet of v of type op, as a change of the count of w and o.
Unit(w, o, v, op) == IF w = v /\ o = op THEN 1 ELSE 0

\* The types, by name: what the provers need of the sets of types.
LEMMA OpsSets ==
    /\ IoOps \subseteq Ops /\ IoReplies \subseteq Ops
    /\ GcSends \subseteq Ops /\ GcAnswers \subseteq Ops
    /\ ClientOps \subseteq Ops /\ ClientOps = IoOps \cup GcSends
    /\ \A op \in Ops : \/ op \in IoOps \/ op \in IoReplies
                       \/ op \in GcSends \/ op \in GcAnswers
    /\ IoOps \cap IoReplies = {} /\ IoOps \cap GcSends = {}
    /\ IoOps \cap GcAnswers = {} /\ IoReplies \cap GcSends = {}
    /\ IoReplies \cap GcAnswers = {} /\ GcSends \cap GcAnswers = {}
BY DEF Ops, ClientOps, IoOps, IoReplies, GcSends, GcAnswers

LEMMA OpNames ==
    /\ "GC" \in Ops /\ "GC_REQUEST" \in Ops /\ "GC_FINISH" \in Ops
    /\ "GC_SUCCESS" \in Ops /\ "GC_DENY" \in Ops /\ "GC_FIN_SUC" \in Ops
    /\ "WRITE" \in Ops /\ "WRITE_REPLY" \in Ops /\ "READ" \in Ops /\ "READ_REPLY" \in Ops
BY DEF Ops, IoOps, IoReplies, GcSends, GcAnswers

\* What Put and Take do to every count.
LEMMA NetUnit ==
    ASSUME NEW net \in Packets, NEW v \in Vssds, NEW op \in Ops, NEW w \in Vssds, NEW o \in Ops
    PROVE  /\ net[w][o] \in Nat
           /\ Put(net, v, op)[w][o] = net[w][o] + Unit(w, o, v, op)
           /\ Take(net, v, op)[w][o] = net[w][o] - Unit(w, o, v, op)
<1>1. CASE w = v /\ o = op
  BY <1>1, PacketsCount DEF Unit
<1>2. CASE ~(w = v /\ o = op)
  BY <1>2, PacketsCount DEF Unit
<1> QED BY <1>1, <1>2

----------------------------------------------------------------------------
(* Counting in a queue *)

LEMMA CountInEmpty ==
    ASSUME NEW o PROVE CountIn(<<>>, o) = 0
<1>1. {i \in DOMAIN <<>> : <<>>[i] = o} = {}
  OBVIOUS
<1> QED BY <1>1, FS_EmptySet DEF CountIn

LEMMA CountInAppend ==
    ASSUME NEW R, NEW s \in Seq(R), NEW e \in R, NEW o
    PROVE  /\ CountIn(s, o) \in Nat
           /\ CountIn(Append(s, e), o) = CountIn(s, o) + IF e = o THEN 1 ELSE 0
<1> DEFINE here == {i \in DOMAIN s : s[i] = o}
           there == {i \in DOMAIN Append(s, e) : Append(s, e)[i] = o}
<1>1. DOMAIN s = 1..Len(s) /\ DOMAIN Append(s, e) = 1..(Len(s) + 1) /\ Len(s) \in Nat
  OBVIOUS
<1>2. \A i \in 1..Len(s) : Append(s, e)[i] = s[i]
  OBVIOUS
<1>3. Append(s, e)[Len(s) + 1] = e
  OBVIOUS
<1>4. IsFiniteSet(here)
  <2>1. IsFiniteSet(1..Len(s))
    BY <1>1, FS_Interval
  <2> QED BY <1>1, <2>1, FS_Subset
<1>5. Cardinality(here) \in Nat
  BY <1>4, FS_CardinalityType
<1>6. CASE e = o
  <2>1. there = here \cup {Len(s) + 1}
    BY <1>1, <1>2, <1>3, <1>6
  <2>2. Len(s) + 1 \notin here
    BY <1>1
  <2>3. Cardinality(there) = Cardinality(here) + 1
    <3> HIDE DEF here, there
    <3> QED BY <1>4, <2>1, <2>2, FS_AddElement
  <2> QED BY <1>5, <1>6, <2>3 DEF CountIn
<1>7. CASE e # o
  <2>1. there = here
    BY <1>1, <1>2, <1>3, <1>7
  <2>2. CountIn(s, o) = Cardinality(here) /\ CountIn(Append(s, e), o) = Cardinality(there)
    BY DEF CountIn
  <2> HIDE DEF here, there
  <2> QED BY <1>5, <1>7, <2>1, <2>2
<1> QED BY <1>6, <1>7

LEMMA CountInTail ==
    ASSUME NEW R, NEW s \in Seq(R), s # <<>>, NEW o
    PROVE  CountIn(Tail(s), o) = CountIn(s, o) - IF Head(s) = o THEN 1 ELSE 0
<1> DEFINE here == {i \in DOMAIN s : s[i] = o}
           rest == here \ {1}
           after == {i \in DOMAIN Tail(s) : Tail(s)[i] = o}
           shift == [i \in after |-> i + 1]
<1>1. /\ DOMAIN s = 1..Len(s) /\ DOMAIN Tail(s) = 1..(Len(s) - 1)
      /\ Len(s) \in Nat \ {0} /\ Head(s) = s[1]
  OBVIOUS
<1>2. \A i \in 1..(Len(s) - 1) : Tail(s)[i] = s[i + 1]
  OBVIOUS
<1>3. IsFiniteSet(here) /\ IsFiniteSet(after)
  <2>1. IsFiniteSet(1..Len(s)) /\ IsFiniteSet(1..(Len(s) - 1))
    BY <1>1, FS_Interval
  <2> QED BY <1>1, <2>1, FS_Subset
<1>4. ExistsBijection(after, rest)
  <2>1. \A i \in after : i + 1 \in rest
    BY <1>1, <1>2
  <2>2. \A j \in rest : j - 1 \in after /\ shift[j - 1] = j
    BY <1>1, <1>2
  <2>3. \A i, j \in after : shift[i] = shift[j] => i = j
    BY <1>1
  <2>4. shift \in [after -> rest]
    BY <2>1
  <2>5. shift \in Bijection(after, rest)
    <3> HIDE DEF shift, after, rest
    <3>1. shift \in Injection(after, rest)
      BY <2>3, <2>4 DEF Injection, IsInjective
    <3>2. shift \in Surjection(after, rest)
      BY <2>2, <2>4 DEF Surjection
    <3> QED BY <3>1, <3>2 DEF Bijection
  <2> QED BY <2>5 DEF ExistsBijection
<1>5. Cardinality(rest) = Cardinality(after)
  <2> HIDE DEF after, rest
  <2> QED BY <1>3, <1>4, FS_Bijection
<1>6. Cardinality(rest) = Cardinality(here) - IF Head(s) = o THEN 1 ELSE 0
  <2>1. 1 \in here <=> Head(s) = o
    BY <1>1
  <2>2. Cardinality(here) \in Nat
    BY <1>3, FS_CardinalityType
  <2>3. Cardinality(here \ {1}) = IF 1 \in here THEN Cardinality(here) - 1 ELSE Cardinality(here)
    <3> HIDE DEF here
    <3> QED BY <1>3, FS_RemoveElement
  <2> HIDE DEF here
  <2> QED BY <2>1, <2>2, <2>3
<1> QED BY <1>5, <1>6 DEF CountIn

----------------------------------------------------------------------------
(* What a vSSD holds *)

\* Held, class by class, before and after a step.
LEMMA HeldIo ==
    ASSUME NEW w, NEW o \in IoOps
    PROVE  /\ Held(w, o) = devQ[w][o] + IF worker[w] = o THEN 1 ELSE 0
           /\ Held(w, o)' = devQ'[w][o] + IF worker'[w] = o THEN 1 ELSE 0
BY OpsSets DEF Held

LEMMA HeldReply ==
    ASSUME NEW w, NEW o \in IoReplies
    PROVE  Held(w, o) = CountIn(replyQ[w], o) /\ Held(w, o)' = CountIn(replyQ'[w], o)
<1>1. o \notin IoOps
  BY OpsSets
<1> QED BY <1>1, OpsSets DEF Held

LEMMA HeldSend ==
    ASSUME NEW w, NEW o \in GcSends
    PROVE  Held(w, o) = CountIn(gcQ[w], o) /\ Held(w, o)' = CountIn(gcQ'[w], o)
<1>1. o \notin IoOps /\ o \notin IoReplies
  BY OpsSets
<1> QED BY <1>1, OpsSets DEF Held

LEMMA HeldAnswer ==
    ASSUME NEW w, NEW o \in GcAnswers
    PROVE  /\ Held(w, o) = gcRespQ[w][o]
                + IF o = "GC_SUCCESS" /\ gcPc[w] = "collect" THEN 1 ELSE 0
           /\ Held(w, o)' = gcRespQ'[w][o]
                + IF o = "GC_SUCCESS" /\ gcPc'[w] = "collect" THEN 1 ELSE 0
<1>1. o \notin IoOps /\ o \notin IoReplies /\ o \notin GcSends
  BY OpsSets
<1> QED BY <1>1, OpsSets DEF Held

\* The queues that hold packets and the threads that hold one.
queues == <<devQ, worker, replyQ, gcQ, gcRespQ, gcPc>>

LEMMA HeldSame ==
    ASSUME NEW w, NEW o \in Ops, UNCHANGED queues
    PROVE  Held(w, o)' = Held(w, o)
<1> USE DEF queues
<1>1. CASE o \in IoOps
  BY <1>1, HeldIo, HeldReply, HeldSend, HeldAnswer
<1>2. CASE o \in IoReplies
  BY <1>2, HeldIo, HeldReply, HeldSend, HeldAnswer
<1>3. CASE o \in GcSends
  BY <1>3, HeldIo, HeldReply, HeldSend, HeldAnswer
<1>4. CASE o \in GcAnswers
  BY <1>4, HeldIo, HeldReply, HeldSend, HeldAnswer
<1> QED BY <1>1, <1>2, <1>3, <1>4, OpsSets

\* A packet received is held, if it is of a type that run_net keeps.
LEMMA HeldNetRecv ==
    ASSUME VssdTypeOK, NEW v \in Vssds, NEW op \in IoOps \cup GcAnswers, NetRecv(v, op),
           NEW w \in Vssds, NEW o \in Ops
    PROVE  Held(w, o)' = Held(w, o) + Unit(w, o, v, op)
<1>1. /\ UNCHANGED <<worker, gcPc, replyQ, gcQ>>
      /\ devQ' = IF op \in IoOps THEN Put(devQ, v, op) ELSE devQ
      /\ gcRespQ' = IF op \in GcAnswers THEN Put(gcRespQ, v, op) ELSE gcRespQ
  BY DEF NetRecv
<1>2. devQ \in [Vssds -> [IoOps -> Nat]] /\ gcRespQ \in [Vssds -> [GcAnswers -> Nat]]
  BY DEF VssdTypeOK
<1>3. CASE o \in IoOps
  <2>1. devQ'[w][o] = devQ[w][o] + Unit(w, o, v, op)
    BY <1>1, <1>2, <1>3, OpsSets DEF Put, Unit
  <2>2. /\ Held(w, o) = devQ[w][o] + IF worker[w] = o THEN 1 ELSE 0
        /\ Held(w, o)' = devQ'[w][o] + IF worker[w] = o THEN 1 ELSE 0
    BY <1>1, <1>3, HeldIo, HeldReply, HeldSend, HeldAnswer
  <2>3. devQ[w][o] \in Nat
    BY <1>2, <1>3
  <2> QED BY <2>1, <2>2, <2>3 DEF Unit
<1>4. CASE o \in GcAnswers
  <2>1. gcRespQ'[w][o] = gcRespQ[w][o] + Unit(w, o, v, op)
    BY <1>1, <1>2, <1>4, OpsSets DEF Put, Unit
  <2>2. /\ Held(w, o) = gcRespQ[w][o]
             + IF o = "GC_SUCCESS" /\ gcPc[w] = "collect" THEN 1 ELSE 0
        /\ Held(w, o)' = gcRespQ'[w][o]
             + IF o = "GC_SUCCESS" /\ gcPc[w] = "collect" THEN 1 ELSE 0
    BY <1>1, <1>4, HeldIo, HeldReply, HeldSend, HeldAnswer
  <2>3. gcRespQ[w][o] \in Nat
    BY <1>2, <1>4
  <2> QED BY <2>1, <2>2, <2>3 DEF Unit
<1>5. CASE o \in IoReplies \/ o \in GcSends
  <2>1. Unit(w, o, v, op) = 0
    BY <1>5, OpsSets DEF Unit
  <2>2. Held(w, o) \in Nat
    BY HeldType
  <2>3. CASE o \in IoReplies
    BY <1>1, <2>1, <2>2, <2>3, HeldIo, HeldReply, HeldSend, HeldAnswer
  <2>4. CASE o \in GcSends
    BY <1>1, <2>1, <2>2, <2>4, HeldIo, HeldReply, HeldSend, HeldAnswer
  <2> QED BY <1>5, <2>3, <2>4
<1> QED BY <1>3, <1>4, <1>5, OpsSets

\* A packet sent is no longer held.
LEMMA HeldNetReply ==
    ASSUME VssdTypeOK, NEW v \in Vssds, NetReply(v), replyQ[v] # <<>>,
           NEW w \in Vssds, NEW o \in Ops
    PROVE  Held(w, o)' = Held(w, o) - Unit(w, o, v, Head(replyQ[v]))
<1>1. /\ UNCHANGED <<devQ, worker, gcPc, gcQ, gcRespQ>>
      /\ replyQ' = [replyQ EXCEPT ![v] = Tail(@)]
      /\ replyQ \in [Vssds -> Seq(IoReplies)]
      /\ Head(replyQ[v]) \in IoReplies
  BY DEF NetReply, VssdTypeOK
<1>2. Held(w, o) \in Nat
  BY HeldType
<1>3. CASE o \in IoReplies /\ w = v
  <2>1. replyQ'[w] = Tail(replyQ[v])
    BY <1>1, <1>3
  <2>2. CountIn(Tail(replyQ[v]), o) = CountIn(replyQ[v], o) - IF Head(replyQ[v]) = o THEN 1 ELSE 0
    BY <1>1, CountInTail
  <2> QED BY <1>3, <2>1, <2>2, HeldIo, HeldReply, HeldSend, HeldAnswer DEF Unit
<1>4. CASE ~(o \in IoReplies /\ w = v)
  <2>1. Unit(w, o, v, Head(replyQ[v])) = 0
    BY <1>1, <1>4 DEF Unit
  <2>2. o \in IoReplies => replyQ'[w] = replyQ[w]
    BY <1>1, <1>4
  <2>3. Held(w, o)' = Held(w, o)
    BY <1>1, <2>2, HeldIo, HeldReply, HeldSend, HeldAnswer, OpsSets
  <2> QED BY <1>2, <2>1, <2>3
<1> QED BY <1>3, <1>4

LEMMA HeldNetGc ==
    ASSUME VssdTypeOK, NEW v \in Vssds, NetGc(v), gcQ[v] # <<>>,
           NEW w \in Vssds, NEW o \in Ops
    PROVE  Held(w, o)' = Held(w, o) - Unit(w, o, v, Head(gcQ[v]))
<1>1. /\ UNCHANGED <<devQ, worker, gcPc, replyQ, gcRespQ>>
      /\ gcQ' = [gcQ EXCEPT ![v] = Tail(@)]
      /\ gcQ \in [Vssds -> Seq(GcSends)]
      /\ Head(gcQ[v]) \in GcSends
  BY DEF NetGc, VssdTypeOK
<1>2. Held(w, o) \in Nat
  BY HeldType
<1>3. CASE o \in GcSends /\ w = v
  <2>1. gcQ'[w] = Tail(gcQ[v])
    BY <1>1, <1>3
  <2>2. CountIn(Tail(gcQ[v]), o) = CountIn(gcQ[v], o) - IF Head(gcQ[v]) = o THEN 1 ELSE 0
    BY <1>1, CountInTail
  <2> QED BY <1>3, <2>1, <2>2, HeldIo, HeldReply, HeldSend, HeldAnswer DEF Unit
<1>4. CASE ~(o \in GcSends /\ w = v)
  <2>1. Unit(w, o, v, Head(gcQ[v])) = 0
    BY <1>1, <1>4 DEF Unit
  <2>2. o \in GcSends => gcQ'[w] = gcQ[w]
    BY <1>1, <1>4
  <2>3. Held(w, o)' = Held(w, o)
    BY <1>1, <2>2, HeldIo, HeldReply, HeldSend, HeldAnswer, OpsSets
  <2> QED BY <1>2, <2>1, <2>3
<1> QED BY <1>3, <1>4

\* The worker takes a request from dev_q and still holds it.
LEMMA HeldWorkerPop ==
    ASSUME VssdTypeOK, NEW v \in Vssds, NEW op \in IoOps, WorkerPop(v, op),
           NEW w \in Vssds, NEW o \in Ops
    PROVE  Held(w, o)' = Held(w, o)
<1>1. /\ UNCHANGED <<replyQ, gcPc, gcQ, gcRespQ>>
      /\ worker[v] = "idle" /\ worker' = [worker EXCEPT ![v] = op]
      /\ devQ' = Take(devQ, v, op)
      /\ devQ \in [Vssds -> [IoOps -> Nat]]
      /\ worker \in [Vssds -> {"idle", "exit"} \cup IoOps]
  BY DEF WorkerPop, VssdTypeOK
<1>2. CASE o \in IoOps
  <2>1. "idle" \notin IoOps
    BY DEF IoOps
  <2>2. CASE w = v
    <3>1. devQ'[w][o] = devQ[w][o] - IF o = op THEN 1 ELSE 0
      BY <1>1, <1>2, <2>2 DEF Take
    <3>2. worker'[w] = op /\ worker[w] # o
      BY <1>1, <1>2, <2>1, <2>2
    <3>3. devQ[w][o] \in Nat
      BY <1>1, <1>2
    <3> QED BY <1>2, <3>1, <3>2, <3>3, HeldIo, HeldReply, HeldSend, HeldAnswer
  <2>3. CASE w # v
    <3>1. devQ'[w] = devQ[w] /\ worker'[w] = worker[w]
      BY <1>1, <2>3 DEF Take
    <3> QED BY <1>2, <3>1, HeldIo, HeldReply, HeldSend, HeldAnswer
  <2> QED BY <2>2, <2>3
<1>3. CASE o \notin IoOps
  BY <1>1, <1>3, HeldIo, HeldReply, HeldSend, HeldAnswer, OpsSets
<1> QED BY <1>2, <1>3

\* The request the worker has executed becomes its reply.
LEMMA HeldWorkerReply ==
    ASSUME VssdTypeOK, NEW v \in Vssds, WorkerReply(v), NEW w \in Vssds, NEW o \in Ops
    PROVE  Held(w, o)' = Held(w, o) - Unit(w, o, v, worker[v])
                                    + Unit(w, o, v, ReplyTo(worker[v]))
<1>1. /\ UNCHANGED <<devQ, gcPc, gcQ, gcRespQ>>
      /\ worker[v] \in IoOps /\ worker' = [worker EXCEPT ![v] = "idle"]
      /\ replyQ' = [replyQ EXCEPT ![v] = Append(@, ReplyTo(worker[v]))]
      /\ replyQ \in [Vssds -> Seq(IoReplies)]
      /\ devQ \in [Vssds -> [IoOps -> Nat]]
      /\ worker \in [Vssds -> {"idle", "exit"} \cup IoOps]
  BY DEF WorkerReply, VssdTypeOK
<1>2. ReplyTo(worker[v]) \in IoReplies
  BY DEF ReplyTo, IoReplies
<1>3. Held(w, o) \in Nat
  BY HeldType
<1>4. CASE o \in IoOps
  <2>1. Unit(w, o, v, ReplyTo(worker[v])) = 0
    BY <1>2, <1>4, OpsSets DEF Unit
  <2>2. "idle" \notin IoOps
    BY DEF IoOps
  <2>3. devQ[w][o] \in Nat
    BY <1>1, <1>4
  <2>4. CASE w = v
    <3>1. worker'[w] # o
      BY <1>1, <1>4, <2>2, <2>4
    <3> QED BY <1>1, <1>4, <2>1, <2>3, <2>4, <3>1, HeldIo, HeldReply, HeldSend, HeldAnswer DEF Unit
  <2>5. CASE w # v
    <3>1. worker'[w] = worker[w] /\ devQ' = devQ
      BY <1>1, <2>5
    <3>2. Held(w, o)' = Held(w, o)
      BY <1>4, <3>1, HeldIo
    <3>3. Unit(w, o, v, worker[v]) = 0
      BY <2>5 DEF Unit
    <3> QED BY <1>3, <2>1, <3>2, <3>3
  <2> QED BY <2>4, <2>5
<1>5. CASE o \in IoReplies
  <2>1. Unit(w, o, v, worker[v]) = 0
    BY <1>1, <1>5, OpsSets DEF Unit
  <2>2. CASE w = v
    <3>1. replyQ'[w] = Append(replyQ[v], ReplyTo(worker[v]))
      BY <1>1, <2>2
    <3>2. CountIn(replyQ'[w], o) = CountIn(replyQ[v], o)
                                    + IF ReplyTo(worker[v]) = o THEN 1 ELSE 0
      <4>1. replyQ[v] \in Seq(IoReplies)
        BY <1>1
      <4> HIDE DEF ReplyTo
      <4> QED BY <1>2, <3>1, <4>1, CountInAppend
    <3> QED BY <1>3, <1>5, <2>1, <2>2, <3>2, HeldIo, HeldReply, HeldSend, HeldAnswer DEF Unit
  <2>3. CASE w # v
    <3>1. replyQ'[w] = replyQ[w]
      BY <1>1, <2>3
    <3> QED BY <1>3, <1>5, <2>1, <2>3, <3>1, HeldIo, HeldReply, HeldSend, HeldAnswer DEF Unit
  <2> QED BY <2>2, <2>3
<1>6. CASE o \in GcSends \cup GcAnswers
  <2>1. Unit(w, o, v, worker[v]) = 0 /\ Unit(w, o, v, ReplyTo(worker[v])) = 0
    BY <1>1, <1>2, <1>6, OpsSets DEF Unit
  <2>2. Held(w, o)' = Held(w, o)
    BY <1>1, <1>6, HeldIo, HeldReply, HeldSend, HeldAnswer
  <2> QED BY <1>3, <2>1, <2>2
<1> QED BY <1>4, <1>5, <1>6, OpsSets

\* A packet that run_gc appends to gc_q is held; of the rest nothing changes
\* but, when do_gc returns, the success it was.
LEMMA HeldGcAppend ==
    ASSUME VssdTypeOK, NEW v \in Vssds, NEW e \in GcSends, NEW w \in Vssds, NEW o \in Ops,
           UNCHANGED <<devQ, worker, replyQ, gcRespQ>>,
           gcQ' = [gcQ EXCEPT ![v] = Append(@, e)],
           \E l \in {"pop", "check"} : gcPc' = [gcPc EXCEPT ![v] = l]
    PROVE  /\ gcPc[v] # "collect" => Held(w, o)' = Held(w, o) + Unit(w, o, v, e)
           /\ gcPc[v] = "collect" => Held(w, o)' = Held(w, o) + Unit(w, o, v, e)
                                                     - Unit(w, o, v, "GC_SUCCESS")
<1>1. /\ gcQ \in [Vssds -> Seq(GcSends)]
      /\ gcPc \in [Vssds -> {"check", "pop", "collect", "exit"}]
      /\ gcRespQ \in [Vssds -> [GcAnswers -> Nat]]
  BY DEF VssdTypeOK
<1>2. "GC_SUCCESS" \in GcAnswers
  BY DEF GcAnswers
<1>3. Held(w, o) \in Nat
  BY HeldType
<1>4. CASE o \in IoOps \/ o \in IoReplies
  <2>1. Held(w, o)' = Held(w, o)
    <3>1. CASE o \in IoOps
      BY <3>1, HeldIo
    <3>2. CASE o \in IoReplies
      BY <3>2, HeldReply
    <3> QED BY <1>4, <3>1, <3>2
  <2>2. Unit(w, o, v, e) = 0 /\ Unit(w, o, v, "GC_SUCCESS") = 0
    BY <1>2, <1>4, OpsSets DEF Unit
  <2> QED BY <1>3, <2>1, <2>2
<1>5. CASE o \in GcSends
  <2>1. Unit(w, o, v, "GC_SUCCESS") = 0
    BY <1>2, <1>5, OpsSets DEF Unit
  <2>2. CASE w = v
    <3>1. gcQ'[w] = Append(gcQ[v], e) /\ gcQ[v] \in Seq(GcSends)
      BY <1>1, <2>2
    <3>2. CountIn(gcQ'[w], o) = CountIn(gcQ[v], o) + IF e = o THEN 1 ELSE 0
      <4>1. \A q \in Seq(GcSends) :
               CountIn(Append(q, e), o) = CountIn(q, o) + IF e = o THEN 1 ELSE 0
        BY CountInAppend
      <4> QED BY <3>1, <4>1
    <3>3. Held(w, o)' = Held(w, o) + IF e = o THEN 1 ELSE 0
      BY <1>5, <2>2, <3>2, HeldSend
    <3> QED BY <1>3, <2>1, <2>2, <3>3 DEF Unit
  <2>3. CASE w # v
    <3>1. gcQ'[w] = gcQ[w]
      BY <1>1, <2>3
    <3>2. Held(w, o)' = Held(w, o)
      BY <1>5, <3>1, HeldSend
    <3>3. Unit(w, o, v, e) = 0
      BY <2>3 DEF Unit
    <3> QED BY <1>3, <2>1, <3>2, <3>3
  <2> QED BY <2>2, <2>3
<1>6. CASE o \in GcAnswers
  <2>1. Unit(w, o, v, e) = 0
    BY <1>6, OpsSets DEF Unit
  <2>2. w # v => gcPc'[w] = gcPc[w]
    BY <1>1
  <2>3. w = v => gcPc'[w] # "collect"
    BY <1>1
  <2>4. gcRespQ[w][o] \in Nat /\ gcRespQ' = gcRespQ
    BY <1>1, <1>6
  <2>5. Unit(w, o, v, "GC_SUCCESS") = IF w = v /\ o = "GC_SUCCESS" THEN 1 ELSE 0
    BY DEF Unit
  <2>6. /\ Held(w, o) = gcRespQ[w][o]
             + IF o = "GC_SUCCESS" /\ gcPc[w] = "collect" THEN 1 ELSE 0
        /\ Held(w, o)' = gcRespQ[w][o]
             + IF o = "GC_SUCCESS" /\ gcPc'[w] = "collect" THEN 1 ELSE 0
    BY <1>6, <2>4, HeldAnswer
  <2> QED BY <2>1, <2>2, <2>3, <2>4, <2>5, <2>6
<1> QED BY <1>4, <1>5, <1>6, OpsSets

\* A success that run_gc takes from gcresp_q is still held, in do_gc; any other
\* answer is gone.
LEMMA HeldGcPop ==
    ASSUME VssdTypeOK, NEW v \in Vssds, NEW op \in GcAnswers, GcPop(v, op),
           NEW w \in Vssds, NEW o \in Ops
    PROVE  Held(w, o)' = Held(w, o)
                          - IF op = "GC_SUCCESS" THEN 0 ELSE Unit(w, o, v, op)
<1>1. /\ UNCHANGED <<devQ, worker, replyQ, gcQ>>
      /\ gcPc[v] = "pop" /\ gcRespQ' = Take(gcRespQ, v, op)
      /\ gcPc' = [gcPc EXCEPT ![v] = IF op = "GC_SUCCESS" THEN "collect" ELSE "check"]
      /\ gcPc \in [Vssds -> {"check", "pop", "collect", "exit"}]
      /\ gcRespQ \in [Vssds -> [GcAnswers -> Nat]]
  BY DEF GcPop, VssdTypeOK
<1>2. Held(w, o) \in Nat
  BY HeldType
<1>3. CASE o \in GcAnswers
  <2>1. gcRespQ[w][o] \in Nat /\ gcRespQ'[w][o] = gcRespQ[w][o] - Unit(w, o, v, op)
    <3>1. gcRespQ \in [Vssds -> [GcAnswers -> Nat]] /\ gcRespQ' = Take(gcRespQ, v, op)
      BY <1>1
    <3>2. CASE w = v /\ o = op
      BY <1>3, <3>1, <3>2, AnswersCount DEF Unit
    <3>3. CASE ~(w = v /\ o = op)
      BY <1>3, <3>1, <3>3, AnswersCount DEF Unit
    <3> QED BY <3>2, <3>3
  <2>2. w # v => gcPc'[w] = gcPc[w]
    BY <1>1
  <2>3. w = v => gcPc[w] # "collect" /\ (gcPc'[w] = "collect" <=> op = "GC_SUCCESS")
    BY <1>1
  <2>4. /\ Held(w, o) = gcRespQ[w][o]
             + IF o = "GC_SUCCESS" /\ gcPc[w] = "collect" THEN 1 ELSE 0
        /\ Held(w, o)' = gcRespQ'[w][o]
             + IF o = "GC_SUCCESS" /\ gcPc'[w] = "collect" THEN 1 ELSE 0
    BY <1>3, HeldAnswer
  <2> QED BY <2>1, <2>2, <2>3, <2>4 DEF Unit
<1>4. CASE o \notin GcAnswers
  <2>1. Unit(w, o, v, op) = 0
    BY <1>4 DEF Unit
  <2>2. Held(w, o)' = Held(w, o)
    <3>1. CASE o \in IoOps
      BY <1>1, <3>1, HeldIo
    <3>2. CASE o \in IoReplies
      BY <1>1, <3>2, HeldReply
    <3>3. CASE o \in GcSends
      BY <1>1, <3>3, HeldSend
    <3> QED BY <1>4, <3>1, <3>2, <3>3, OpsSets
  <2> QED BY <1>2, <2>1, <2>2
<1> QED BY <1>3, <1>4

\* A thread that moves on, or expires, without a packet in hand holds none.
LEMMA HeldIdle ==
    ASSUME VssdTypeOK, NEW v \in Vssds, GcNoNeed(v) \/ GcPopNone(v) \/ Expire(v),
           NEW w \in Vssds, NEW o \in Ops
    PROVE  Held(w, o)' = Held(w, o)
<1>1. /\ UNCHANGED <<devQ, replyQ, gcQ, gcRespQ>>
      /\ \/ UNCHANGED gcPc
         \/ gcPc[v] # "collect" /\ \E l \in {"pop", "check", "exit"} :
                                     gcPc' = [gcPc EXCEPT ![v] = l]
      /\ \/ UNCHANGED worker
         \/ worker[v] = "idle" /\ worker' = [worker EXCEPT ![v] = "exit"]
  BY DEF GcNoNeed, GcPopNone, Expire
<1>2. gcPc[w] = "collect" <=> gcPc'[w] = "collect"
  BY <1>1 DEF VssdTypeOK
<1>3. \A r \in IoOps : worker[w] = r <=> worker'[w] = r
  BY <1>1 DEF VssdTypeOK, IoOps
<1>4. CASE o \in IoOps
  <2>1. devQ' = devQ
    BY <1>1
  <2> QED BY <1>3, <1>4, <2>1, HeldIo
<1>5. CASE o \in IoReplies
  BY <1>1, <1>5, HeldReply
<1>6. CASE o \in GcSends
  BY <1>1, <1>6, HeldSend
<1>7. CASE o \in GcAnswers
  <2>1. gcRespQ' = gcRespQ
    BY <1>1
  <2> QED BY <1>2, <1>7, <2>1, HeldAnswer
<1> QED BY <1>4, <1>5, <1>6, <1>7, OpsSets

\* A process that has just started holds nothing.
LEMMA HeldRestart ==
    ASSUME VssdTypeOK, NEW v \in Vssds, Restart(v), NEW w \in Vssds, NEW o \in Ops
    PROVE  Held(w, o)' = IF w = v THEN 0 ELSE Held(w, o)
<1>1. CASE w = v
  <2>1. /\ devQ'[w] = [op \in IoOps |-> 0] /\ worker'[w] = "idle" /\ replyQ'[w] = <<>>
        /\ gcQ'[w] = <<>> /\ gcRespQ'[w] = [op \in GcAnswers |-> 0] /\ gcPc'[w] = "check"
    BY <1>1 DEF Restart, VssdTypeOK
  <2>2. CASE o \in IoOps
    <3>1. "idle" \notin IoOps
      BY DEF IoOps
    <3> QED BY <1>1, <2>1, <2>2, <3>1, HeldIo
  <2>3. CASE o \in IoReplies
    BY <1>1, <2>1, <2>3, HeldReply, CountInEmpty
  <2>4. CASE o \in GcSends
    BY <1>1, <2>1, <2>4, HeldSend, CountInEmpty
  <2>5. CASE o \in GcAnswers
    BY <1>1, <2>1, <2>5, HeldAnswer
  <2> QED BY <2>2, <2>3, <2>4, <2>5, OpsSets
<1>2. CASE w # v
  <2>1. /\ devQ'[w] = devQ[w] /\ worker'[w] = worker[w] /\ replyQ'[w] = replyQ[w]
        /\ gcQ'[w] = gcQ[w] /\ gcRespQ'[w] = gcRespQ[w] /\ gcPc'[w] = gcPc[w]
    BY <1>2 DEF Restart, VssdTypeOK
  <2>2. CASE o \in IoOps
    BY <1>2, <2>1, <2>2, HeldIo
  <2>3. CASE o \in IoReplies
    BY <1>2, <2>1, <2>3, HeldReply
  <2>4. CASE o \in GcSends
    BY <1>2, <2>1, <2>4, HeldSend
  <2>5. CASE o \in GcAnswers
    BY <1>2, <2>1, <2>5, HeldAnswer
  <2> QED BY <2>2, <2>3, <2>4, <2>5, OpsSets
<1> QED BY <1>1, <1>2

----------------------------------------------------------------------------
(* Which types are where *)

\* Only requests and GC answers travel to a vSSD, the client sends and gets
\* what it should, and only what a vSSD sent is repeated.
KindsInv ==
    \A v \in Vssds :
        /\ \A op \in IoReplies \cup GcSends : toVssd[v][op] = 0
        /\ \A op \in Ops \ ClientOps : sent[v][op] = 0
        /\ \A op \in Ops \ IoReplies : received[v][op] = 0
        /\ \A op \in Ops \ (IoReplies \cup GcSends) : repeated[v][op] = 0

\* A net carries packets of the types ops only.
Clean(net, ops) == \A w \in Vssds : \A o \in Ops \ ops : net[w][o] = 0

LEMMA CleanPutTake ==
    ASSUME NEW net \in Packets, NEW ops, Clean(net, ops), NEW v \in Vssds, NEW op \in Ops,
           op \in ops \/ net[v][op] > 0
    PROVE  Clean(Put(net, v, op), ops) /\ Clean(Take(net, v, op), ops)
<1> SUFFICES ASSUME NEW w \in Vssds, NEW o \in Ops \ ops
             PROVE  Put(net, v, op)[w][o] = 0 /\ Take(net, v, op)[w][o] = 0
  BY DEF Clean
<1>1. net[w][o] = 0 /\ ~(w = v /\ o = op)
  BY DEF Clean
<1> QED BY <1>1, PacketsCount

LEMMA KindsStep == TypeOK /\ KindsInv /\ [Next]_vars => KindsInv'
<1> SUFFICES ASSUME TypeOK, KindsInv, [Next]_vars PROVE KindsInv'
  OBVIOUS
<1>0. /\ toVssd \in Packets /\ sent \in Packets /\ received \in Packets
      /\ repeated \in Packets
  BY DEF TypeOK
<1> DEFINE Kinds == /\ Clean(toVssd, IoOps \cup GcAnswers) /\ Clean(sent, ClientOps)
                    /\ Clean(received, IoReplies) /\ Clean(repeated, IoReplies \cup GcSends)
<1>1. (KindsInv <=> Kinds) /\ (KindsInv' <=> Kinds')
  <2>1. Ops \ (IoOps \cup GcAnswers) = IoReplies \cup GcSends
    BY OpsSets
  <2> QED BY <2>1 DEF KindsInv, Clean
<1>3. ASSUME NEW v \in Vssds, NEW op \in ClientOps, ClientSend(v, op) PROVE Kinds'
  BY <1>0, <1>1, <1>3, CleanPutTake, OpsSets DEF ClientSend
<1>4. ASSUME NEW v \in Vssds, NEW op \in IoReplies, ClientRecv(v, op) PROVE Kinds'
  BY <1>0, <1>1, <1>4, CleanPutTake, OpsSets DEF ClientRecv
<1>5. ASSUME NEW v \in Vssds, SwitchStep(v), UNCHANGED ledger PROVE Kinds'
  <2>1. UNCHANGED <<sent, received, repeated>>
    BY <1>5 DEF ledger
  <2>2. \/ UNCHANGED toVssd
        \/ \E d \in Vssds, op \in IoOps \cup GcAnswers : toVssd' = Put(toVssd, d, op)
    <3>1. ReadTarget(v) \in Vssds
      BY ReplicaAssumption DEF ReadTarget
    <3> QED BY <1>5, <3>1 DEF SwitchStep, SwitchOther, ForwardWrite, ForwardReply, RouteRead,
            AdmitRequest, DenyRequest, GrantHard, GrantAdmitted, FinishGc, Bounce, IoOps,
            GcAnswers
  <2> QED BY <1>0, <1>1, <2>1, <2>2, CleanPutTake, OpsSets
<1>6. ASSUME NEW v \in Vssds, VssdStep(v), UNCHANGED <<sent, received, repeated>>
      PROVE  Kinds'
  <2>1. \/ UNCHANGED toVssd
        \/ \E op \in Ops : toVssd[v][op] > 0 /\ toVssd' = Take(toVssd, v, op)
    BY <1>6 DEF VssdStep, NetStep, NetRecv, NetTimeout, NetReply, NetGc, WorkerStep,
       WorkerPop, WorkerReply, GcStep, GcNoNeed, GcPopNone, GcPop, GcDone, GcAsk, Expire,
       Restart, netVars
  <2> QED BY <1>0, <1>1, <1>6, <2>1, CleanPutTake
<1>7. ASSUME NEW v \in Vssds, Fault(v) PROVE Kinds'
  <2>1. ASSUME NEW op \in Ops, LoseToSwitch(v, op) PROVE Kinds'
    BY <1>0, <1>1, <2>1 DEF LoseToSwitch
  <2>2. ASSUME NEW op \in Ops, LoseToVssd(v, op) PROVE Kinds'
    BY <1>0, <1>1, <2>2, CleanPutTake DEF LoseToVssd
  <2>3. ASSUME NEW op \in IoReplies \cup GcSends, RepeatToSwitch(v, op) PROVE Kinds'
    BY <1>0, <1>1, <2>3, CleanPutTake, OpsSets DEF RepeatToSwitch
  <2> QED BY <1>7, <2>1, <2>2, <2>3, OpsSets DEF Fault
<1>8. CASE UNCHANGED vars
  BY <1>1, <1>8 DEF vars, netVars, ledger
<1>9. ASSUME NEW v \in Vssds,
             Pass(v) \/ Admit(v) \/ Hard(v) \/ Recirculated(v) \/ Finish(v)
      PROVE  Kinds'
  <2>1. SwitchStep(v) /\ UNCHANGED ledger
    BY <1>9 DEF Pass, Admit, Hard, Recirculated, Finish, SwitchStep, SwitchOther
  <2> QED BY <1>5, <2>1
<1>10. ASSUME NEW v \in Vssds,
             \/ Ask(v) \/ Collect(v) \/ VssdOther(v) \/ Expiry(v) \/ VssdRestart(v)
             \/ \E op \in GcAnswers : EndRound(v, op)
       PROVE  Kinds'
  <2>1. VssdStep(v) /\ UNCHANGED <<sent, received, repeated>>
    BY <1>10 DEF Ask, Collect, VssdOther, Expiry, VssdRestart, EndRound, VssdStep, GcStep,
       GcAnswers, ledger
  <2> QED BY <1>6, <2>1
<1> HIDE DEF Kinds
<1> QED BY <1>1, <1>3, <1>4, <1>7, <1>8, <1>9, <1>10 DEF Next

LEMMA KindsCorrect == Spec => []KindsInv
<1>1. Init => KindsInv
  <2>1. \A v \in Vssds, op \in Ops : NoPackets[v][op] = 0
    BY DEF NoPackets
  <2> QED BY <2>1, OpsSets DEF Init, NetInit, KindsInv
<1> QED BY <1>1, KindsStep, TypeCorrect, PTL DEF Spec

----------------------------------------------------------------------------
(* The books *)

Balance(w, o) ==
    At(w, o) + received[w][o] + lost[w][o] - sent[w][o] - repeated[w][o]

\* No balance changes.
Still == \A w \in Vssds, o \in Ops : Balance(w, o)' = Balance(w, o)
\* One packet of v of type a becomes one of d of type c, or is gone, or new.
Transfer(v, a, d, c) ==
    \A w \in Vssds, o \in Ops :
        Balance(w, o)' = Balance(w, o) - Unit(w, o, v, a) + Unit(w, o, d, c)
Leaves(v, a) ==
    \A w \in Vssds, o \in Ops : Balance(w, o)' = Balance(w, o) - Unit(w, o, v, a)
Enters(v, c) ==
    \A w \in Vssds, o \in Ops : Balance(w, o)' = Balance(w, o) + Unit(w, o, v, c)

GcOps == GcSends \cup GcAnswers

\* What the steps do to the books.
Flow ==
    \/ Still /\ UNCHANGED <<recirc, asked, ended>>
    \/ \E v \in Vssds :
          \/ /\ UNCHANGED <<recirc, asked, ended>>
             /\ \/ \E a, c \in GcOps : Transfer(v, a, v, c)
                \/ Transfer(v, "WRITE", v, "WRITE_REPLY")
                \/ Transfer(v, "READ", v, "READ_REPLY")
                \/ Transfer(v, "READ", Replica[v], "READ")
          \/ /\ \E a \in GcOps : Leaves(v, a)
             /\ \/ /\ recirc' = [recirc EXCEPT ![v] = @ + 1]
                   /\ UNCHANGED <<asked, ended>>
                \/ /\ ended' = [ended EXCEPT ![v] = @ + 1]
                   /\ UNCHANGED <<recirc, asked>>
          \/ /\ \E c \in GcOps : Enters(v, c)
             /\ \/ /\ recirc[v] > 0
                   /\ recirc' = [recirc EXCEPT ![v] = @ - 1]
                   /\ UNCHANGED <<asked, ended>>
                \/ /\ asked' = [asked EXCEPT ![v] = @ + 1]
                   /\ UNCHANGED <<recirc, ended>>

\* Everything in a balance is a count.
Counts(w, o) ==
    /\ toSwitch[w][o] \in Nat /\ toVssd[w][o] \in Nat /\ toClient[w][o] \in Nat
    /\ Held(w, o) \in Nat
    /\ received[w][o] \in Nat /\ lost[w][o] \in Nat
    /\ sent[w][o] \in Nat /\ repeated[w][o] \in Nat

LEMMA CountsType ==
    ASSUME TypeOK, NEW w \in Vssds, NEW o \in Ops
    PROVE  Counts(w, o) /\ At(w, o) \in Nat /\ Balance(w, o) \in Int
<1>1. /\ toSwitch[w][o] \in Nat /\ toVssd[w][o] \in Nat /\ toClient[w][o] \in Nat
      /\ received[w][o] \in Nat /\ lost[w][o] \in Nat
      /\ sent[w][o] \in Nat /\ repeated[w][o] \in Nat
  BY DEF TypeOK, Packets
<1>2. Held(w, o) \in Nat
  BY HeldType DEF TypeOK
<1> QED BY <1>1, <1>2 DEF At, Balance, Counts

----------------------------------------------------------------------------
(* Every step is a flow *)

LEMMA UnitType ==
    ASSUME NEW w, NEW o, NEW v, NEW op PROVE Unit(w, o, v, op) \in Int
BY DEF Unit

\* The client's packets and replies pass between the books and the wire.
LEMMA ClientFlow ==
    ASSUME TypeOK, NEW v \in Vssds, NEW op \in Ops, ClientSend(v, op) \/ ClientRecv(v, op)
    PROVE  Still /\ UNCHANGED <<recirc, asked, ended>>
<1>0. /\ toSwitch \in Packets /\ toVssd \in Packets /\ toClient \in Packets
      /\ sent \in Packets /\ received \in Packets
  BY DEF TypeOK
<1>1. UNCHANGED <<recirc, asked, ended, queues>>
  BY DEF ClientSend, ClientRecv, switchVars, vssdVars, queues
<1>2. ASSUME NEW w \in Vssds, NEW o \in Ops PROVE Balance(w, o)' = Balance(w, o)
  <2>1. Held(w, o)' = Held(w, o)
    BY <1>1, HeldSame
  <2>2. CASE ClientSend(v, op)
    <3>1. toSwitch'[w][o] = toSwitch[w][o] + Unit(w, o, v, op)
      BY <1>0, <2>2, NetUnit DEF ClientSend
    <3>2. sent'[w][o] = sent[w][o] + Unit(w, o, v, op)
      BY <1>0, <2>2, NetUnit DEF ClientSend
    <3>3. UNCHANGED <<toVssd, toClient, received, lost, repeated>>
      BY <2>2 DEF ClientSend
    <3>8. Counts(w, o)
      BY CountsType
    <3>9. \A x \in Vssds, p \in Ops : Unit(w, o, x, p) \in Int
      BY UnitType
    <3> QED BY <2>1, <3>1, <3>2, <3>3, <3>8, <3>9 DEF Balance, At, Counts
  <2>3. CASE ClientRecv(v, op)
    <3>1. toClient'[w][o] = toClient[w][o] - Unit(w, o, v, op)
      BY <1>0, <2>3, NetUnit DEF ClientRecv
    <3>2. received'[w][o] = received[w][o] + Unit(w, o, v, op)
      BY <1>0, <2>3, NetUnit DEF ClientRecv
    <3>3. UNCHANGED <<toSwitch, toVssd, sent, lost, repeated>>
      BY <2>3 DEF ClientRecv
    <3>8. Counts(w, o)
      BY CountsType
    <3>9. \A x \in Vssds, p \in Ops : Unit(w, o, x, p) \in Int
      BY UnitType
    <3> QED BY <2>1, <3>1, <3>2, <3>3, <3>8, <3>9 DEF Balance, At, Counts
  <2> QED BY <2>2, <2>3
<1> QED BY <1>1, <1>2 DEF Still

\* A pass through the switch: forwarded, routed or bounced.
LEMMA BounceFlow ==
    ASSUME TypeOK, NEW v \in Vssds, NEW a \in Ops, NEW d \in Vssds, NEW c \in Ops,
           Bounce(v, a, d, c), UNCHANGED <<toClient, vssdVars, ledger>>
    PROVE  Transfer(v, a, d, c)
<1>1. toSwitch \in Packets /\ toVssd \in Packets
  BY DEF TypeOK
<1>2. ASSUME NEW w \in Vssds, NEW o \in Ops
      PROVE  Balance(w, o)' = Balance(w, o) - Unit(w, o, v, a) + Unit(w, o, d, c)
  <2>1. toSwitch'[w][o] = toSwitch[w][o] - Unit(w, o, v, a)
    BY <1>1, NetUnit DEF Bounce
  <2>2. toVssd'[w][o] = toVssd[w][o] + Unit(w, o, d, c)
    BY <1>1, NetUnit DEF Bounce
  <2>3. Held(w, o)' = Held(w, o)
    BY HeldSame DEF vssdVars, queues
  <2>4. UNCHANGED <<toClient, sent, received, lost, repeated>>
    BY DEF ledger
  <2>8. Counts(w, o)
    BY CountsType
  <2>9. \A x \in Vssds, p \in Ops : Unit(w, o, x, p) \in Int
    BY UnitType
  <2> QED BY <2>1, <2>2, <2>3, <2>4, <2>8, <2>9 DEF Balance, At, Counts
<1> QED BY <1>2 DEF Transfer

LEMMA SwitchFlow ==
    ASSUME TypeOK, NEW v \in Vssds, SwitchStep(v), UNCHANGED <<vssdVars, ledger>>
    PROVE  Flow
<1>0. /\ toSwitch \in Packets /\ toVssd \in Packets /\ toClient \in Packets
      /\ Replica[v] \in Vssds
  BY ReplicaAssumption DEF TypeOK
<1>1. UNCHANGED <<asked, ended, sent, received, lost, repeated>>
  BY DEF ledger
<1>2. \A w \in Vssds, o \in Ops : Held(w, o)' = Held(w, o)
  BY HeldSame DEF vssdVars, queues
<1>3. CASE ForwardWrite(v)
  <2>1. Transfer(v, "WRITE", v, "WRITE") /\ UNCHANGED recirc
    BY <1>3, BounceFlow DEF ForwardWrite, switchVars, Ops, IoOps
  <2>2. Still
    BY <2>1, CountsType, UnitType DEF Transfer, Still
  <2> QED BY <1>1, <2>1, <2>2 DEF Flow
<1>4. ASSUME NEW op \in IoReplies, ForwardReply(v, op) PROVE Flow
  <2>1. op \in Ops /\ UNCHANGED <<recirc, toVssd>>
    BY <1>4, OpsSets DEF ForwardReply, switchVars
  <2>2. ASSUME NEW w \in Vssds, NEW o \in Ops PROVE Balance(w, o)' = Balance(w, o)
    <3>1. toSwitch'[w][o] = toSwitch[w][o] - Unit(w, o, v, op)
      BY <1>0, <1>4, <2>1, NetUnit DEF ForwardReply
    <3>2. toClient'[w][o] = toClient[w][o] + Unit(w, o, v, op)
      BY <1>0, <1>4, <2>1, NetUnit DEF ForwardReply
    <3>8. Counts(w, o)
      BY CountsType
    <3>9. \A x \in Vssds, p \in Ops : Unit(w, o, x, p) \in Int
      BY UnitType
    <3> QED BY <1>1, <1>2, <2>1, <3>1, <3>2, <3>8, <3>9 DEF Balance, At, Counts
  <2> QED BY <1>1, <2>1, <2>2 DEF Flow, Still
<1>5. CASE RouteRead(v)
  <2>1. ReadTarget(v) \in {v, Replica[v]}
    BY DEF ReadTarget
  <2>2. Transfer(v, "READ", ReadTarget(v), "READ") /\ UNCHANGED recirc
    BY <1>0, <1>5, <2>1, BounceFlow DEF RouteRead, switchVars, Ops, IoOps
  <2>3. CASE ReadTarget(v) = v
    <3>1. Still
      BY <2>2, <2>3, CountsType, UnitType DEF Transfer, Still
    <3> QED BY <1>1, <2>2, <3>1 DEF Flow
  <2>4. CASE ReadTarget(v) = Replica[v]
    BY <1>1, <2>2, <2>4 DEF Flow
  <2> QED BY <2>1, <2>3, <2>4
<1>6. CASE AdmitRequest(v)
  <2>1. "GC_REQUEST" \in GcOps /\ "GC_REQUEST" \in Ops
    BY DEF GcOps, GcSends, Ops
  <2>2. ASSUME NEW w \in Vssds, NEW o \in Ops
        PROVE  Balance(w, o)' = Balance(w, o) - Unit(w, o, v, "GC_REQUEST")
    <3>1. toSwitch'[w][o] = toSwitch[w][o] - Unit(w, o, v, "GC_REQUEST")
      BY <1>0, <1>6, <2>1, NetUnit DEF AdmitRequest
    <3>2. UNCHANGED <<toVssd, toClient>>
      BY <1>6 DEF AdmitRequest
    <3>8. Counts(w, o)
      BY CountsType
    <3>9. Unit(w, o, v, "GC_REQUEST") \in Int
      BY UnitType
    <3> QED BY <1>1, <1>2, <3>1, <3>2, <3>8, <3>9 DEF Balance, At, Counts
  <2> QED BY <1>1, <1>6, <2>1, <2>2 DEF AdmitRequest, Flow, Leaves
<1>7. CASE DenyRequest(v)
  <2>1. Transfer(v, "GC_REQUEST", v, "GC_DENY") /\ UNCHANGED recirc
    BY <1>7, BounceFlow DEF DenyRequest, switchVars, Ops, GcSends, GcAnswers
  <2> QED BY <1>1, <2>1 DEF Flow, GcOps, GcSends, GcAnswers
<1>8. CASE GrantHard(v)
  <2>1. Transfer(v, "GC", v, "GC_SUCCESS") /\ UNCHANGED recirc
    BY <1>8, BounceFlow DEF GrantHard, Ops, GcSends, GcAnswers
  <2> QED BY <1>1, <2>1 DEF Flow, GcOps, GcSends, GcAnswers
<1>9. CASE GrantAdmitted(v)
  <2>1. "GC_SUCCESS" \in GcOps /\ "GC_SUCCESS" \in Ops
    BY DEF GcOps, GcAnswers, Ops
  <2>2. ASSUME NEW w \in Vssds, NEW o \in Ops
        PROVE  Balance(w, o)' = Balance(w, o) + Unit(w, o, v, "GC_SUCCESS")
    <3>1. toVssd'[w][o] = toVssd[w][o] + Unit(w, o, v, "GC_SUCCESS")
      BY <1>0, <1>9, <2>1, NetUnit DEF GrantAdmitted
    <3>2. UNCHANGED <<toSwitch, toClient>>
      BY <1>9 DEF GrantAdmitted
    <3>8. Counts(w, o)
      BY CountsType
    <3>9. Unit(w, o, v, "GC_SUCCESS") \in Int
      BY UnitType
    <3> QED BY <1>1, <1>2, <3>1, <3>2, <3>8, <3>9 DEF Balance, At, Counts
  <2> QED BY <1>1, <1>9, <2>1, <2>2 DEF GrantAdmitted, Flow, Enters
<1>10. CASE FinishGc(v)
  <2>1. Transfer(v, "GC_FINISH", v, "GC_FIN_SUC") /\ UNCHANGED recirc
    BY <1>10, BounceFlow DEF FinishGc, Ops, GcSends, GcAnswers
  <2> QED BY <1>1, <2>1 DEF Flow, GcOps, GcSends, GcAnswers
<1> QED BY <1>3, <1>4, <1>5, <1>6, <1>7, <1>8, <1>9, <1>10 DEF SwitchStep, SwitchOther

\* Within a vSSD a balance changes as what the vSSD holds does.
LEMMA HeldBalance ==
    ASSUME TypeOK, NEW w \in Vssds, NEW o \in Ops, NEW h \in Int,
           Held(w, o)' = Held(w, o) + h,
           UNCHANGED <<toSwitch, toVssd, toClient, sent, received, lost, repeated>>
    PROVE  Balance(w, o)' = Balance(w, o) + h
<1>1. Counts(w, o)
  BY CountsType
<1> QED BY <1>1 DEF Balance, At, Counts

\* What a thread of a vSSD sends or receives passes between its queues and
\* the wire.
LEMMA NetFlow ==
    ASSUME TypeOK, KindsInv, NEW v \in Vssds, NetStep(v), UNCHANGED <<switchVars, ledger>>
    PROVE  Flow
<1>0. /\ toSwitch \in Packets /\ toVssd \in Packets /\ VssdTypeOK
      /\ UNCHANGED <<recirc, asked, ended, sent, received, lost, repeated>>
  BY DEF TypeOK, switchVars, ledger
<1>1. SUFFICES ASSUME NEW w \in Vssds, NEW o \in Ops
               PROVE  Balance(w, o)' = Balance(w, o)
  BY <1>0 DEF Flow, Still
<1>2. Counts(w, o)
  BY CountsType
<1>3. UNCHANGED netVars /\ UNCHANGED queues => Balance(w, o)' = Balance(w, o)
  <2> SUFFICES ASSUME UNCHANGED netVars, UNCHANGED queues PROVE Balance(w, o)' = Balance(w, o)
    OBVIOUS
  <2>1. Held(w, o)' = Held(w, o)
    BY HeldSame
  <2> QED BY <1>0, <2>1 DEF Balance, At, netVars
<1>4. ASSUME NEW op \in Ops, NetRecv(v, op) PROVE Balance(w, o)' = Balance(w, o)
  <2>1. toVssd[v][op] > 0 /\ toVssd' = Take(toVssd, v, op) /\ UNCHANGED <<toSwitch, toClient>>
    BY <1>4 DEF NetRecv
  <2>2. op \in IoOps \cup GcAnswers
    <3>1. \A r \in IoReplies \cup GcSends : toVssd[v][r] = 0
      BY DEF KindsInv
    <3> QED BY <2>1, <3>1, OpsSets
  <2>3. Held(w, o)' = Held(w, o) + Unit(w, o, v, op)
    BY <1>0, <1>4, <2>2, HeldNetRecv
  <2>4. toVssd'[w][o] = toVssd[w][o] - Unit(w, o, v, op)
    BY <1>0, <2>1, NetUnit
  <2>5. Unit(w, o, v, op) \in Int
    BY UnitType
  <2> QED BY <1>0, <1>2, <2>1, <2>3, <2>4, <2>5 DEF Balance, At, Counts
<1>5. CASE NetTimeout(v)
  BY <1>3, <1>5 DEF NetTimeout, queues
<1>6. ASSUME NEW r \in Ops, toSwitch' = Put(toSwitch, v, r), UNCHANGED <<toVssd, toClient>>,
             Held(w, o)' = Held(w, o) - Unit(w, o, v, r)
      PROVE  Balance(w, o)' = Balance(w, o)
  <2>1. toSwitch'[w][o] = toSwitch[w][o] + Unit(w, o, v, r)
    BY <1>0, <1>6, NetUnit
  <2>2. Unit(w, o, v, r) \in Int
    BY UnitType
  <2> QED BY <1>0, <1>2, <1>6, <2>1, <2>2 DEF Balance, At, Counts
<1>7. CASE NetReply(v)
  <2>1. CASE replyQ[v] = <<>>
    BY <1>3, <1>7, <2>1 DEF NetReply, netVars, queues
  <2>2. CASE replyQ[v] # <<>>
    <3>1. Head(replyQ[v]) \in Ops
      <4>1. replyQ[v] \in Seq(IoReplies)
        BY <1>0 DEF VssdTypeOK
      <4> QED BY <2>2, <4>1, OpsSets
    <3>2. toSwitch' = Put(toSwitch, v, Head(replyQ[v])) /\ UNCHANGED <<toVssd, toClient>>
      BY <1>7, <2>2 DEF NetReply
    <3>3. Held(w, o)' = Held(w, o) - Unit(w, o, v, Head(replyQ[v]))
      BY <1>0, <1>7, <2>2, HeldNetReply
    <3> QED BY <1>6, <3>1, <3>2, <3>3
  <2> QED BY <2>1, <2>2
<1>8. CASE NetGc(v)
  <2>1. CASE gcQ[v] = <<>>
    BY <1>3, <1>8, <2>1 DEF NetGc, netVars, queues
  <2>2. CASE gcQ[v] # <<>>
    <3>1. Head(gcQ[v]) \in Ops
      <4>1. gcQ[v] \in Seq(GcSends)
        BY <1>0 DEF VssdTypeOK
      <4> QED BY <2>2, <4>1, OpsSets
    <3>2. toSwitch' = Put(toSwitch, v, Head(gcQ[v])) /\ UNCHANGED <<toVssd, toClient>>
      BY <1>8, <2>2 DEF NetGc
    <3>3. Held(w, o)' = Held(w, o) - Unit(w, o, v, Head(gcQ[v]))
      BY <1>0, <1>8, <2>2, HeldNetGc
    <3> QED BY <1>6, <3>1, <3>2, <3>3
  <2> QED BY <2>1, <2>2
<1> QED BY <1>4, <1>5, <1>7, <1>8 DEF NetStep

\* The worker and the GC thread.
LEMMA WorkFlow ==
    ASSUME TypeOK, NEW v \in Vssds, WorkerStep(v) \/ GcStep(v) \/ Expire(v),
           ~\E op \in GcAnswers : op # "GC_SUCCESS" /\ GcPop(v, op),
           UNCHANGED <<switchVars, ledger>>
    PROVE  Flow
<1>0. VssdTypeOK /\ UNCHANGED <<recirc, asked, ended, sent, received, lost, repeated>>
  BY DEF TypeOK, switchVars, ledger
<1>1. UNCHANGED <<toSwitch, toVssd, toClient>>
  BY DEF WorkerStep, WorkerPop, WorkerReply, GcStep, GcNoNeed, GcPopNone, GcPop, GcDone,
     Expire, netVars
<1>2. ASSUME \A w \in Vssds, o \in Ops : Held(w, o)' = Held(w, o) PROVE Flow
  <2>1. ASSUME NEW w \in Vssds, NEW o \in Ops PROVE Balance(w, o)' = Balance(w, o)
    BY <1>0, <1>1, <1>2 DEF Balance, At
  <2> QED BY <1>0, <2>1 DEF Flow, Still
<1>3. ASSUME NEW a \in Ops, NEW c \in Ops,
             \A w \in Vssds, o \in Ops :
                 Held(w, o)' = Held(w, o) - Unit(w, o, v, a) + Unit(w, o, v, c)
      PROVE  Transfer(v, a, v, c)
  <2>1. ASSUME NEW w \in Vssds, NEW o \in Ops
        PROVE  Balance(w, o)' = Balance(w, o) - Unit(w, o, v, a) + Unit(w, o, v, c)
    <3>1. Unit(w, o, v, a) \in Int /\ Unit(w, o, v, c) \in Int
      BY UnitType
    <3>2. Counts(w, o) /\ Held(w, o)' = Held(w, o) - Unit(w, o, v, a) + Unit(w, o, v, c)
      BY <1>3, CountsType
    <3> QED BY <1>0, <1>1, <3>1, <3>2 DEF Balance, At, Counts
  <2> QED BY <2>1 DEF Transfer
<1>4. ASSUME NEW op \in IoOps, WorkerPop(v, op) PROVE Flow
  BY <1>0, <1>2, <1>4, HeldWorkerPop
<1>5. CASE WorkerReply(v)
  <2>1. worker[v] \in IoOps /\ worker[v] \in Ops /\ ReplyTo(worker[v]) \in Ops
    BY <1>5, OpsSets DEF WorkerReply, ReplyTo, IoReplies
  <2>2. Transfer(v, worker[v], v, ReplyTo(worker[v]))
    <3>1. \A w \in Vssds, o \in Ops :
             Held(w, o)' = Held(w, o) - Unit(w, o, v, worker[v])
                                      + Unit(w, o, v, ReplyTo(worker[v]))
      BY <1>0, <1>5, HeldWorkerReply
    <3> QED BY <1>3, <2>1, <3>1
  <2>3. CASE worker[v] = "READ"
    BY <1>0, <2>2, <2>3 DEF Flow, ReplyTo
  <2>4. CASE worker[v] = "WRITE"
    BY <1>0, <2>2, <2>4 DEF Flow, ReplyTo
  <2> QED BY <2>1, <2>3, <2>4 DEF IoOps
<1>6. CASE GcNoNeed(v) \/ GcPopNone(v) \/ Expire(v)
  BY <1>0, <1>2, <1>6, HeldIdle
<1>7. ASSUME NEW op \in GcAnswers, GcPop(v, op) PROVE Flow
  <2>1. op = "GC_SUCCESS"
    BY <1>7
  <2>2. ASSUME NEW w \in Vssds, NEW o \in Ops PROVE Held(w, o)' = Held(w, o)
    <3>1. Held(w, o)' = Held(w, o) - 0 /\ Held(w, o) \in Nat
      BY <1>0, <1>7, <2>1, HeldGcPop, HeldType
    <3> QED BY <3>1
  <2> QED BY <1>2, <2>2
<1>8. CASE GcDone(v)
  <2>1. /\ "GC_SUCCESS" \in Ops /\ "GC_SUCCESS" \in GcOps
        /\ "GC_FINISH" \in Ops /\ "GC_FINISH" \in GcOps /\ "GC_FINISH" \in GcSends
    BY DEF Ops, GcOps, GcSends, GcAnswers
  <2>2. /\ gcPc[v] = "collect" /\ gcPc' = [gcPc EXCEPT ![v] = "check"]
        /\ gcQ' = [gcQ EXCEPT ![v] = Append(@, "GC_FINISH")]
        /\ UNCHANGED <<devQ, worker, replyQ, gcRespQ>>
    BY <1>8 DEF GcDone
  <2>3. ASSUME NEW w \in Vssds, NEW o \in Ops
        PROVE  Held(w, o)' = Held(w, o) - Unit(w, o, v, "GC_SUCCESS")
                                        + Unit(w, o, v, "GC_FINISH")
    <3>1. Held(w, o)' = Held(w, o) + Unit(w, o, v, "GC_FINISH") - Unit(w, o, v, "GC_SUCCESS")
      BY <1>0, <2>1, <2>2, HeldGcAppend
    <3>2. /\ Held(w, o) \in Nat
          /\ Unit(w, o, v, "GC_SUCCESS") \in Int /\ Unit(w, o, v, "GC_FINISH") \in Int
      BY <1>0, HeldType, UnitType
    <3> QED BY <3>1, <3>2
  <2>4. Transfer(v, "GC_SUCCESS", v, "GC_FINISH")
    BY <1>3, <2>1, <2>3
  <2> QED BY <1>0, <2>1, <2>4 DEF Flow
<1> QED BY <1>4, <1>5, <1>6, <1>7, <1>8 DEF WorkerStep, GcStep

\* A question of run_gc's enters the books, an ending leaves them.
LEMMA AskFlow ==
    ASSUME TypeOK, NEW v \in Vssds, Ask(v) PROVE Flow
<1>0. /\ VssdTypeOK /\ UNCHANGED <<recirc, ended, sent, received, lost, repeated>>
      /\ UNCHANGED <<toSwitch, toVssd, toClient>> /\ gcPc[v] = "check"
      /\ asked' = [asked EXCEPT ![v] = @ + 1]
      /\ gcPc' = [gcPc EXCEPT ![v] = "pop"] /\ UNCHANGED <<devQ, worker, replyQ, gcRespQ>>
  BY DEF TypeOK, Ask, GcAsk, switchVars, netVars
<1>1. PICK e \in GcSends : gcQ' = [gcQ EXCEPT ![v] = Append(@, e)]
  BY DEF Ask, GcAsk, GcPacket, GcSends
<1>2. ASSUME NEW w \in Vssds, NEW o \in Ops
      PROVE  Balance(w, o)' = Balance(w, o) + Unit(w, o, v, e)
  <2>1. Held(w, o)' = Held(w, o) + Unit(w, o, v, e)
    BY <1>0, <1>1, HeldGcAppend
  <2>2. Unit(w, o, v, e) \in Int
    BY UnitType
  <2> QED BY <1>0, <2>1, <2>2, HeldBalance
<1> QED BY <1>0, <1>1, <1>2 DEF Flow, Enters, GcOps

LEMMA EndFlow ==
    ASSUME TypeOK, NEW v \in Vssds, NEW op \in GcAnswers, EndRound(v, op) PROVE Flow
<1>0. /\ VssdTypeOK /\ UNCHANGED <<recirc, asked, sent, received, lost, repeated>>
      /\ UNCHANGED <<toSwitch, toVssd, toClient>> /\ op # "GC_SUCCESS" /\ GcPop(v, op)
      /\ ended' = [ended EXCEPT ![v] = @ + 1]
  BY DEF TypeOK, EndRound, GcPop, switchVars, netVars
<1>1. ASSUME NEW w \in Vssds, NEW o \in Ops
      PROVE  Balance(w, o)' = Balance(w, o) - Unit(w, o, v, op)
  <2>1. Held(w, o)' = Held(w, o) - Unit(w, o, v, op)
    BY <1>0, HeldGcPop
  <2>2. Unit(w, o, v, op) \in Int
    BY UnitType
  <2>3. Counts(w, o)
    BY CountsType
  <2> QED BY <1>0, <2>1, <2>2, <2>3 DEF Balance, At, Counts
<1> QED BY <1>0, <1>1 DEF Flow, Leaves, GcOps

\* What a process takes with it, and what the server loses or repeats, is on
\* the books.
LEMMA RestartFlow ==
    ASSUME TypeOK, NEW v \in Vssds, VssdRestart(v) PROVE Flow
<1>0. /\ VssdTypeOK /\ lost \in Packets
      /\ UNCHANGED <<recirc, asked, ended, sent, received, repeated>>
      /\ UNCHANGED <<toSwitch, toVssd, toClient>> /\ Restart(v)
      /\ lost' = [lost EXCEPT ![v] = [op \in Ops |-> @[op] + Held(v, op)]]
  BY DEF TypeOK, VssdRestart, Restart, switchVars, netVars
<1>1. ASSUME NEW w \in Vssds, NEW o \in Ops PROVE Balance(w, o)' = Balance(w, o)
  <2>1. Held(w, o)' = IF w = v THEN 0 ELSE Held(w, o)
    BY <1>0, HeldRestart
  <2>2. lost'[w][o] = lost[w][o] + IF w = v THEN Held(w, o) ELSE 0
    <3>1. CASE w = v
      BY <1>0, <3>1 DEF Packets
    <3>2. CASE w # v
      <4>1. lost'[w] = lost[w] /\ lost[w][o] \in Nat
        BY <1>0, <3>2 DEF Packets
      <4> QED BY <3>2, <4>1
    <3> QED BY <3>1, <3>2
  <2>3. Counts(w, o)
    BY CountsType
  <2> QED BY <1>0, <2>1, <2>2, <2>3 DEF Balance, At, Counts
<1> QED BY <1>0, <1>1 DEF Flow, Still

LEMMA FaultFlow ==
    ASSUME TypeOK, NEW v \in Vssds, Fault(v) PROVE Flow
<1>0. /\ toSwitch \in Packets /\ toVssd \in Packets
      /\ lost \in Packets /\ repeated \in Packets
  BY DEF TypeOK
<1>1. PICK op \in Ops : LoseToSwitch(v, op) \/ LoseToVssd(v, op) \/ RepeatToSwitch(v, op)
  BY OpsSets DEF Fault
<1>2. UNCHANGED <<recirc, asked, ended, sent, received, toClient, queues>>
  BY <1>1 DEF LoseToSwitch, LoseToVssd, RepeatToSwitch, switchVars, vssdVars, queues
<1>3. ASSUME NEW w \in Vssds, NEW o \in Ops PROVE Balance(w, o)' = Balance(w, o)
  <2>1. Held(w, o)' = Held(w, o)
    BY <1>2, HeldSame
  <2>2. Counts(w, o) /\ Unit(w, o, v, op) \in Int
    BY CountsType, UnitType
  <2>3. CASE LoseToSwitch(v, op)
    <3>1. /\ toSwitch'[w][o] = toSwitch[w][o] - Unit(w, o, v, op)
          /\ lost'[w][o] = lost[w][o] + Unit(w, o, v, op)
          /\ UNCHANGED <<toVssd, repeated>>
      BY <1>0, <2>3, NetUnit DEF LoseToSwitch
    <3> QED BY <1>2, <2>1, <2>2, <3>1 DEF Balance, At, Counts
  <2>4. CASE LoseToVssd(v, op)
    <3>1. /\ toVssd'[w][o] = toVssd[w][o] - Unit(w, o, v, op)
          /\ lost'[w][o] = lost[w][o] + Unit(w, o, v, op)
          /\ UNCHANGED <<toSwitch, repeated>>
      BY <1>0, <2>4, NetUnit DEF LoseToVssd
    <3> QED BY <1>2, <2>1, <2>2, <3>1 DEF Balance, At, Counts
  <2>5. CASE RepeatToSwitch(v, op)
    <3>1. /\ toSwitch'[w][o] = toSwitch[w][o] + Unit(w, o, v, op)
          /\ repeated'[w][o] = repeated[w][o] + Unit(w, o, v, op)
          /\ UNCHANGED <<toVssd, lost>>
      BY <1>0, <2>5, NetUnit DEF RepeatToSwitch
    <3> QED BY <1>2, <2>1, <2>2, <3>1 DEF Balance, At, Counts
  <2> QED BY <1>1, <2>3, <2>4, <2>5
<1> QED BY <1>2, <1>3 DEF Flow, Still

\* Every step of the rack is a flow.
LEMMA FlowStep == TypeOK /\ KindsInv /\ [Next]_vars => Flow
<1> SUFFICES ASSUME TypeOK, KindsInv, [Next]_vars PROVE Flow
  OBVIOUS
<1>1. ASSUME NEW v \in Vssds, NEW op \in Ops, ClientSend(v, op) \/ ClientRecv(v, op) PROVE Flow
  BY <1>1, ClientFlow DEF Flow
<1>2. ASSUME NEW v \in Vssds,
             Pass(v) \/ Admit(v) \/ Hard(v) \/ Recirculated(v) \/ Finish(v)
      PROVE  Flow
  <2>1. SwitchStep(v) /\ UNCHANGED <<vssdVars, ledger>>
    BY <1>2 DEF Pass, Admit, Hard, Recirculated, Finish, SwitchStep, SwitchOther
  <2> QED BY <2>1, SwitchFlow
<1>3. ASSUME NEW v \in Vssds, Collect(v) PROVE Flow
  <2>1. /\ GcPop(v, "GC_SUCCESS") /\ UNCHANGED <<switchVars, ledger>>
        /\ gcRespQ' = Take(gcRespQ, v, "GC_SUCCESS") /\ gcPc'[v] = "collect"
        /\ GcStep(v)
    BY <1>3 DEF Collect, GcPop, GcStep, GcAnswers, TypeOK, VssdTypeOK
  <2>2. ~\E op \in GcAnswers : op # "GC_SUCCESS" /\ GcPop(v, op)
    BY <2>1 DEF GcPop, TypeOK, VssdTypeOK
  <2> QED BY <2>1, <2>2, WorkFlow
<1>4. ASSUME NEW v \in Vssds, VssdOther(v) \/ Expiry(v) PROVE Flow
  <2>1. UNCHANGED <<switchVars, ledger>>
    BY <1>4 DEF VssdOther, Expiry
  <2>2. CASE NetStep(v)
    BY <2>1, <2>2, NetFlow
  <2>3. CASE WorkerStep(v) \/ GcNoNeed(v) \/ GcPopNone(v) \/ GcDone(v) \/ Expire(v)
    <3>1. gcRespQ' = gcRespQ
      BY <2>3 DEF WorkerStep, WorkerPop, WorkerReply, GcNoNeed, GcPopNone, GcDone, Expire
    <3>2. ASSUME NEW op \in GcAnswers, GcPop(v, op) PROVE FALSE
      <4>1. gcRespQ \in [Vssds -> [GcAnswers -> Nat]]
        BY DEF TypeOK, VssdTypeOK
      <4>2. gcRespQ'[v][op] = gcRespQ[v][op] - 1 /\ gcRespQ[v][op] \in Nat
        BY <3>2, <4>1, AnswersCount DEF GcPop
      <4> QED BY <3>1, <4>2
    <3> QED BY <2>1, <2>3, <3>2, WorkFlow DEF GcStep
  <2> QED BY <1>4, <2>2, <2>3 DEF VssdOther, Expiry
<1>5. CASE UNCHANGED vars
  <2>1. UNCHANGED <<toSwitch, toVssd, toClient, sent, received, lost, repeated, recirc,
                    asked, ended, queues>>
    BY <1>5 DEF vars, netVars, ledger, switchVars, vssdVars, queues
  <2>2. ASSUME NEW w \in Vssds, NEW o \in Ops PROVE Balance(w, o)' = Balance(w, o)
    <3>1. Held(w, o)' = Held(w, o)
      BY <2>1, HeldSame
    <3> QED BY <2>1, <3>1 DEF Balance, At
  <2> QED BY <2>1, <2>2 DEF Flow, Still
<1> QED BY <1>1, <1>2, <1>3, <1>4, <1>5, AskFlow, EndFlow, RestartFlow, FaultFlow, OpsSets
        DEF Next

----------------------------------------------------------------------------
(* The laws *)

GcBalance(w) ==
    Balance(w, "GC") + Balance(w, "GC_REQUEST") + Balance(w, "GC_FINISH")
    + Balance(w, "GC_SUCCESS") + Balance(w, "GC_DENY") + Balance(w, "GC_FIN_SUC")
WriteBalance(w) == Balance(w, "WRITE") + Balance(w, "WRITE_REPLY")
ReadBalance(w) == Balance(w, "READ") + Balance(w, "READ_REPLY")

\* The books close: what run_gc asked for is in the balances of the GC types,
\* on the recirculation port or ended; nothing is left of writes, nor of the
\* reads of a pair.
Books ==
    \A w \in Vssds :
        /\ asked[w] = GcBalance(w) + recirc[w] + ended[w]
        /\ WriteBalance(w) = 0
        /\ ReadBalance(w) + ReadBalance(Replica[w]) = 0

\* The sum of the GC types of a change.
GcSum(c) ==
    c["GC"] + c["GC_REQUEST"] + c["GC_FINISH"]
    + c["GC_SUCCESS"] + c["GC_DENY"] + c["GC_FIN_SUC"]

\* The kinds' sums change by the sums of the changes.
LEMMA SumChange ==
    ASSUME TypeOK, NEW w \in Vssds, NEW change \in [Ops -> Int],
           \A o \in Ops : Balance(w, o)' = Balance(w, o) + change[o]
    PROVE  /\ GcBalance(w) \in Int /\ WriteBalance(w) \in Int /\ ReadBalance(w) \in Int
           /\ GcBalance(w)' = GcBalance(w) + GcSum(change)
           /\ WriteBalance(w)' = WriteBalance(w) + (change["WRITE"] + change["WRITE_REPLY"])
           /\ ReadBalance(w)' = ReadBalance(w) + (change["READ"] + change["READ_REPLY"])
<1> DEFINE Moves(o) == /\ Balance(w, o) \in Int /\ change[o] \in Int
                       /\ Balance(w, o)' = Balance(w, o) + change[o]
<1>1. \A o \in Ops : Moves(o)
  BY CountsType
<1>2. /\ Moves("GC") /\ Moves("GC_REQUEST") /\ Moves("GC_FINISH")
      /\ Moves("GC_SUCCESS") /\ Moves("GC_DENY") /\ Moves("GC_FIN_SUC")
      /\ Moves("WRITE") /\ Moves("WRITE_REPLY") /\ Moves("READ") /\ Moves("READ_REPLY")
  BY <1>1, OpNames
<1>3. GcBalance(w) \in Int /\ GcBalance(w)' = GcBalance(w) + GcSum(change)
  BY <1>2 DEF GcBalance, GcSum
<1>4. /\ WriteBalance(w) \in Int
      /\ WriteBalance(w)' = WriteBalance(w) + (change["WRITE"] + change["WRITE_REPLY"])
  BY <1>2 DEF WriteBalance
<1>5. /\ ReadBalance(w) \in Int
      /\ ReadBalance(w)' = ReadBalance(w) + (change["READ"] + change["READ_REPLY"])
  BY <1>2 DEF ReadBalance
<1> QED BY <1>3, <1>4, <1>5

\* A change of one type of packet, summed by kind.
LEMMA KindSums ==
    ASSUME NEW a \in Ops, NEW k \in Int, NEW c \in [Ops -> Int],
           \A o \in Ops : c[o] = IF o = a THEN k ELSE 0
    PROVE  /\ GcSum(c) = IF a \in GcOps THEN k ELSE 0
           /\ c["WRITE"] + c["WRITE_REPLY"] = IF a \in {"WRITE", "WRITE_REPLY"} THEN k ELSE 0
           /\ c["READ"] + c["READ_REPLY"] = IF a \in {"READ", "READ_REPLY"} THEN k ELSE 0
<1>1. /\ c["GC"] = IF a = "GC" THEN k ELSE 0
      /\ c["GC_REQUEST"] = IF a = "GC_REQUEST" THEN k ELSE 0
      /\ c["GC_FINISH"] = IF a = "GC_FINISH" THEN k ELSE 0
      /\ c["GC_SUCCESS"] = IF a = "GC_SUCCESS" THEN k ELSE 0
      /\ c["GC_DENY"] = IF a = "GC_DENY" THEN k ELSE 0
      /\ c["GC_FIN_SUC"] = IF a = "GC_FIN_SUC" THEN k ELSE 0
  BY OpNames
<1>2. GcSum(c) = IF a \in GcOps THEN k ELSE 0
  <2>1. a \in GcOps <=> a \in {"GC", "GC_REQUEST", "GC_FINISH", "GC_SUCCESS", "GC_DENY", "GC_FIN_SUC"}
    BY DEF GcOps, GcSends, GcAnswers
  <2> QED BY <1>1, <2>1 DEF GcSum
<1>3. c["WRITE"] + c["WRITE_REPLY"] = IF a \in {"WRITE", "WRITE_REPLY"} THEN k ELSE 0
  BY OpNames
<1>4. c["READ"] + c["READ_REPLY"] = IF a \in {"READ", "READ_REPLY"} THEN k ELSE 0
  BY OpNames
<1> QED BY <1>2, <1>3, <1>4

\* A packet of type a that leaves w (m = 1) and one of type c that enters it
\* (n = 1), summed by kind.
LEMMA FlowSums ==
    ASSUME TypeOK, NEW w \in Vssds, NEW a \in Ops, NEW c \in Ops, NEW m \in {0, 1}, NEW n \in {0, 1},
           \A o \in Ops : Balance(w, o)' =
               Balance(w, o) - (IF o = a THEN m ELSE 0) + (IF o = c THEN n ELSE 0)
    PROVE  /\ GcBalance(w)' = GcBalance(w) - (IF a \in GcOps THEN m ELSE 0)
                                           + (IF c \in GcOps THEN n ELSE 0)
           /\ WriteBalance(w)' = WriteBalance(w)
                - (IF a \in {"WRITE", "WRITE_REPLY"} THEN m ELSE 0)
                + (IF c \in {"WRITE", "WRITE_REPLY"} THEN n ELSE 0)
           /\ ReadBalance(w)' = ReadBalance(w)
                - (IF a \in {"READ", "READ_REPLY"} THEN m ELSE 0)
                + (IF c \in {"READ", "READ_REPLY"} THEN n ELSE 0)
<1> DEFINE takes == [o \in Ops |-> IF o = a THEN -m ELSE 0]
           gives == [o \in Ops |-> IF o = c THEN n ELSE 0]
           change == [o \in Ops |-> takes[o] + gives[o]]
<1>1. /\ takes \in [Ops -> Int] /\ -m \in Int
      /\ \A o \in Ops : takes[o] = IF o = a THEN -m ELSE 0
  OBVIOUS
<1>2. /\ gives \in [Ops -> Int] /\ n \in Int
      /\ \A o \in Ops : gives[o] = IF o = c THEN n ELSE 0
  OBVIOUS
<1>3. \A o \in Ops : Balance(w, o)' = Balance(w, o) + change[o]
  <2> TAKE o \in Ops
  <2>1. Balance(w, o) \in Int
    BY CountsType
  <2>2. Balance(w, o)' = Balance(w, o) - (IF o = a THEN m ELSE 0) + (IF o = c THEN n ELSE 0)
    OBVIOUS
  <2>3. change[o] = (IF o = c THEN n ELSE 0) - (IF o = a THEN m ELSE 0)
    OBVIOUS
  <2> HIDE DEF change
  <2> QED BY <2>1, <2>2, <2>3
<1> HIDE DEF takes, gives
<1>4. /\ change \in [Ops -> Int]
      /\ \A o \in Ops : change[o] = takes[o] + gives[o]
  BY <1>1, <1>2
<1> HIDE DEF change
<1>5. /\ GcSum(change) = GcSum(takes) + GcSum(gives)
      /\ change["WRITE"] + change["WRITE_REPLY"]
           = (takes["WRITE"] + takes["WRITE_REPLY"]) + (gives["WRITE"] + gives["WRITE_REPLY"])
      /\ change["READ"] + change["READ_REPLY"]
           = (takes["READ"] + takes["READ_REPLY"]) + (gives["READ"] + gives["READ_REPLY"])
  <2>2. GcSum(change) = GcSum(takes) + GcSum(gives)
    BY <1>1, <1>2, <1>4, OpNames DEF GcSum
  <2>3. change["WRITE"] + change["WRITE_REPLY"]
           = (takes["WRITE"] + takes["WRITE_REPLY"]) + (gives["WRITE"] + gives["WRITE_REPLY"])
    BY <1>1, <1>2, <1>4, OpNames
  <2>4. change["READ"] + change["READ_REPLY"]
           = (takes["READ"] + takes["READ_REPLY"]) + (gives["READ"] + gives["READ_REPLY"])
    BY <1>1, <1>2, <1>4, OpNames
  <2> QED BY <2>2, <2>3, <2>4
<1>6. /\ GcBalance(w) \in Int /\ WriteBalance(w) \in Int /\ ReadBalance(w) \in Int
      /\ GcBalance(w)' = GcBalance(w) + GcSum(change)
      /\ WriteBalance(w)' = WriteBalance(w) + (change["WRITE"] + change["WRITE_REPLY"])
      /\ ReadBalance(w)' = ReadBalance(w) + (change["READ"] + change["READ_REPLY"])
  BY <1>3, <1>4, SumChange
<1>7. /\ GcSum(takes) = IF a \in GcOps THEN -m ELSE 0
      /\ takes["WRITE"] + takes["WRITE_REPLY"] = IF a \in {"WRITE", "WRITE_REPLY"} THEN -m ELSE 0
      /\ takes["READ"] + takes["READ_REPLY"] = IF a \in {"READ", "READ_REPLY"} THEN -m ELSE 0
  BY <1>1, KindSums
<1>8. /\ GcSum(gives) = IF c \in GcOps THEN n ELSE 0
      /\ gives["WRITE"] + gives["WRITE_REPLY"] = IF c \in {"WRITE", "WRITE_REPLY"} THEN n ELSE 0
      /\ gives["READ"] + gives["READ_REPLY"] = IF c \in {"READ", "READ_REPLY"} THEN n ELSE 0
  BY <1>2, KindSums
<1>9. GcBalance(w)' = GcBalance(w) - (IF a \in GcOps THEN m ELSE 0) + (IF c \in GcOps THEN n ELSE 0)
  BY <1>5, <1>6, <1>7, <1>8
<1>10. WriteBalance(w)' = WriteBalance(w)
                - (IF a \in {"WRITE", "WRITE_REPLY"} THEN m ELSE 0)
                + (IF c \in {"WRITE", "WRITE_REPLY"} THEN n ELSE 0)
  BY <1>5, <1>6, <1>7, <1>8
<1>11. ReadBalance(w)' = ReadBalance(w)
                - (IF a \in {"READ", "READ_REPLY"} THEN m ELSE 0)
                + (IF c \in {"READ", "READ_REPLY"} THEN n ELSE 0)
  BY <1>5, <1>6, <1>7, <1>8
<1> QED BY <1>9, <1>10, <1>11

\* A flow keeps the books closed.
LEMMA BooksStep == TypeOK /\ Books /\ Flow => Books'
<1> SUFFICES ASSUME TypeOK, Books, Flow PROVE Books'
  OBVIOUS
<1>0. /\ recirc \in [Vssds -> Nat] /\ asked \in [Vssds -> Nat] /\ ended \in [Vssds -> Nat]
      /\ \A w \in Vssds : Replica[w] \in Vssds /\ Replica[w] # w /\ Replica[Replica[w]] = w
  BY ReplicaAssumption DEF TypeOK, SwitchTypeOK
<1>1. \A w \in Vssds :
        GcBalance(w) \in Int /\ WriteBalance(w) \in Int /\ ReadBalance(w) \in Int
  <2> TAKE w \in Vssds
  <2>1. \A o \in Ops : Balance(w, o) \in Int
    BY CountsType
  <2>2. /\ Balance(w, "GC") \in Int /\ Balance(w, "GC_REQUEST") \in Int
        /\ Balance(w, "GC_FINISH") \in Int /\ Balance(w, "GC_SUCCESS") \in Int
        /\ Balance(w, "GC_DENY") \in Int /\ Balance(w, "GC_FIN_SUC") \in Int
        /\ Balance(w, "WRITE") \in Int /\ Balance(w, "WRITE_REPLY") \in Int
        /\ Balance(w, "READ") \in Int /\ Balance(w, "READ_REPLY") \in Int
    BY <2>1, OpNames
  <2> QED BY <2>2 DEF GcBalance, WriteBalance, ReadBalance
<1>2. GcOps \subseteq Ops /\ GcOps \cap {"READ", "WRITE", "READ_REPLY", "WRITE_REPLY"} = {}
  BY DEF GcOps, Ops, GcSends, GcAnswers
\* It is enough that the sums follow the counters.
<1>3. ASSUME \A w \in Vssds :
               /\ asked'[w] - GcBalance(w)' - recirc'[w] - ended'[w]
                    = asked[w] - GcBalance(w) - recirc[w] - ended[w]
               /\ GcBalance(w)' \in Int /\ asked'[w] \in Int /\ recirc'[w] \in Int
               /\ ended'[w] \in Int
               /\ WriteBalance(w)' = WriteBalance(w)
               /\ ReadBalance(w)' + ReadBalance(Replica[w])'
                    = ReadBalance(w) + ReadBalance(Replica[w])
      PROVE  Books'
  <2> SUFFICES ASSUME NEW w \in Vssds
               PROVE  /\ asked'[w] = GcBalance(w)' + recirc'[w] + ended'[w]
                      /\ WriteBalance(w)' = 0
                      /\ ReadBalance(w)' + ReadBalance(Replica[w])' = 0
    BY DEF Books
  <2>1. asked[w] = GcBalance(w) + recirc[w] + ended[w] /\ WriteBalance(w) = 0
        /\ ReadBalance(w) + ReadBalance(Replica[w]) = 0
    BY DEF Books
  <2>2. asked[w] \in Int /\ GcBalance(w) \in Int /\ recirc[w] \in Int /\ ended[w] \in Int
    BY <1>0, <1>1
  <2>3. /\ asked'[w] - GcBalance(w)' - recirc'[w] - ended'[w]
             = asked[w] - GcBalance(w) - recirc[w] - ended[w]
        /\ GcBalance(w)' \in Int /\ asked'[w] \in Int /\ recirc'[w] \in Int
        /\ ended'[w] \in Int
        /\ WriteBalance(w)' = WriteBalance(w)
        /\ ReadBalance(w)' + ReadBalance(Replica[w])'
             = ReadBalance(w) + ReadBalance(Replica[w])
    BY <1>3
  <2>4. asked'[w] = GcBalance(w)' + recirc'[w] + ended'[w]
    BY <2>1, <2>2, <2>3
  <2> QED BY <2>1, <2>3, <2>4
<1>4. ASSUME NEW w \in Vssds, \A o \in Ops : Balance(w, o)' = Balance(w, o)
      PROVE  /\ GcBalance(w)' = GcBalance(w) /\ WriteBalance(w)' = WriteBalance(w)
             /\ ReadBalance(w)' = ReadBalance(w)
  BY <1>4, OpNames DEF GcBalance, WriteBalance, ReadBalance
<1>5. CASE Still /\ UNCHANGED <<recirc, asked, ended>>
  <2>1. \A w \in Vssds : /\ GcBalance(w)' = GcBalance(w) /\ WriteBalance(w)' = WriteBalance(w)
                         /\ ReadBalance(w)' = ReadBalance(w)
    BY <1>4, <1>5 DEF Still
  <2> QED BY <1>0, <1>1, <1>3, <1>5, <2>1
\* The sums of w after a packet of v of type a became one of d of type c.
<1>6. ASSUME NEW v \in Vssds, NEW a \in Ops, NEW d \in Vssds, NEW c \in Ops,
             Transfer(v, a, d, c), NEW w \in Vssds
      PROVE  /\ GcBalance(w)' = GcBalance(w)
                  - (IF a \in GcOps /\ w = v THEN 1 ELSE 0) + (IF c \in GcOps /\ w = d THEN 1 ELSE 0)
             /\ WriteBalance(w)' = WriteBalance(w)
                  - (IF a \in {"WRITE", "WRITE_REPLY"} /\ w = v THEN 1 ELSE 0)
                  + (IF c \in {"WRITE", "WRITE_REPLY"} /\ w = d THEN 1 ELSE 0)
             /\ ReadBalance(w)' = ReadBalance(w)
                  - (IF a \in {"READ", "READ_REPLY"} /\ w = v THEN 1 ELSE 0)
                  + (IF c \in {"READ", "READ_REPLY"} /\ w = d THEN 1 ELSE 0)
  <2> DEFINE m == IF w = v THEN 1 ELSE 0
             n == IF w = d THEN 1 ELSE 0
  <2>1. m \in {0, 1} /\ n \in {0, 1}
    OBVIOUS
  <2>2. \A o \in Ops : Balance(w, o)' =
            Balance(w, o) - (IF o = a THEN m ELSE 0) + (IF o = c THEN n ELSE 0)
    BY <1>6 DEF Transfer, Unit
  <2> HIDE DEF m, n
  <2>3. /\ GcBalance(w)' = GcBalance(w) - (IF a \in GcOps THEN m ELSE 0)
                                        + (IF c \in GcOps THEN n ELSE 0)
        /\ WriteBalance(w)' = WriteBalance(w)
             - (IF a \in {"WRITE", "WRITE_REPLY"} THEN m ELSE 0)
             + (IF c \in {"WRITE", "WRITE_REPLY"} THEN n ELSE 0)
        /\ ReadBalance(w)' = ReadBalance(w)
             - (IF a \in {"READ", "READ_REPLY"} THEN m ELSE 0)
             + (IF c \in {"READ", "READ_REPLY"} THEN n ELSE 0)
    BY <2>1, <2>2, FlowSums, SMTT(60)
  <2> QED BY <2>3 DEF m, n
<1>7. ASSUME NEW v \in Vssds, NEW a \in GcOps, NEW w \in Vssds, NEW k \in {0, 1},
             \/ k = 0 /\ Leaves(v, a)
             \/ k = 1 /\ Enters(v, a)
      PROVE  /\ GcBalance(w)' = GcBalance(w) + IF w # v THEN 0 ELSE IF k = 1 THEN 1 ELSE -1
             /\ WriteBalance(w)' = WriteBalance(w) /\ ReadBalance(w)' = ReadBalance(w)
  <2>1. CASE w # v
    <3>1. \A o \in Ops : Balance(w, o)' = Balance(w, o)
      <4>1. \A o \in Ops : Balance(w, o) \in Int /\ Unit(w, o, v, a) = 0
        BY <2>1, CountsType DEF Unit
      <4> QED BY <1>7, <4>1 DEF Leaves, Enters
    <3> QED BY <1>1, <1>4, <2>1, <3>1
  <2>2. CASE w = v
    <3> DEFINE m == 1 - k
    <3>1. m \in {0, 1} /\ a \in Ops
      BY <1>2
    <3>2. \A o \in Ops : Balance(w, o)' =
              Balance(w, o) - (IF o = a THEN m ELSE 0) + (IF o = a THEN k ELSE 0)
      <4> TAKE o \in Ops
      <4>1. Balance(w, o) \in Int /\ Unit(w, o, v, a) = IF o = a THEN 1 ELSE 0
        BY <2>2, CountsType DEF Unit
      <4>2. CASE k = 0
        BY <1>7, <4>1, <4>2 DEF Leaves
      <4>3. CASE k = 1
        BY <1>7, <4>1, <4>3 DEF Enters
      <4> QED BY <4>2, <4>3
    <3> HIDE DEF m
    <3>3. /\ GcBalance(w)' = GcBalance(w) - (IF a \in GcOps THEN m ELSE 0)
                                          + (IF a \in GcOps THEN k ELSE 0)
          /\ WriteBalance(w)' = WriteBalance(w)
               - (IF a \in {"WRITE", "WRITE_REPLY"} THEN m ELSE 0)
               + (IF a \in {"WRITE", "WRITE_REPLY"} THEN k ELSE 0)
          /\ ReadBalance(w)' = ReadBalance(w)
               - (IF a \in {"READ", "READ_REPLY"} THEN m ELSE 0)
               + (IF a \in {"READ", "READ_REPLY"} THEN k ELSE 0)
      BY <3>1, <3>2, FlowSums
    <3>4. a \notin {"WRITE", "WRITE_REPLY"} /\ a \notin {"READ", "READ_REPLY"}
      BY <1>2
    <3> QED BY <1>1, <2>2, <3>3, <3>4 DEF m
  <2> QED BY <2>1, <2>2
<1>8. ASSUME NEW v \in Vssds, UNCHANGED <<recirc, asked, ended>>,
             NEW a \in Ops, NEW d \in {v, Replica[v]}, NEW c \in Ops, Transfer(v, a, d, c),
             \/ a \in GcOps /\ c \in GcOps /\ d = v
             \/ a = "WRITE" /\ c = "WRITE_REPLY" /\ d = v
             \/ a = "READ" /\ c \in {"READ", "READ_REPLY"}
      PROVE  Books'
  <2>1. d \in Vssds
    BY <1>0, <1>8
  <2>2. ASSUME NEW w \in Vssds
        PROVE  /\ GcBalance(w)' = GcBalance(w) /\ WriteBalance(w)' = WriteBalance(w)
               /\ ReadBalance(w)' = ReadBalance(w)
                    - (IF a = "READ" /\ w = v THEN 1 ELSE 0)
                    + (IF a = "READ" /\ w = d THEN 1 ELSE 0)
    <3>1. GcBalance(w) \in Int /\ WriteBalance(w) \in Int /\ ReadBalance(w) \in Int
      BY <1>1
    <3>2. /\ GcBalance(w)' = GcBalance(w)
               - (IF a \in GcOps /\ w = v THEN 1 ELSE 0) + (IF c \in GcOps /\ w = d THEN 1 ELSE 0)
          /\ WriteBalance(w)' = WriteBalance(w)
               - (IF a \in {"WRITE", "WRITE_REPLY"} /\ w = v THEN 1 ELSE 0)
               + (IF c \in {"WRITE", "WRITE_REPLY"} /\ w = d THEN 1 ELSE 0)
          /\ ReadBalance(w)' = ReadBalance(w)
               - (IF a \in {"READ", "READ_REPLY"} /\ w = v THEN 1 ELSE 0)
               + (IF c \in {"READ", "READ_REPLY"} /\ w = d THEN 1 ELSE 0)
      BY <1>6, <1>8, <2>1
    <3>3. CASE a \in GcOps /\ c \in GcOps /\ d = v
      BY <1>2, <3>1, <3>2, <3>3
    <3>4. CASE a = "WRITE" /\ c = "WRITE_REPLY" /\ d = v
      BY <1>2, <3>1, <3>2, <3>4
    <3>5. CASE a = "READ" /\ c \in {"READ", "READ_REPLY"}
      BY <1>2, <3>1, <3>2, <3>5
    <3> QED BY <1>8, <3>3, <3>4, <3>5
  <2>3. ASSUME NEW w \in Vssds
        PROVE  ReadBalance(w)' + ReadBalance(Replica[w])'
                 = ReadBalance(w) + ReadBalance(Replica[w])
    <3>1. Replica[w] \in Vssds /\ ReadBalance(w) \in Int /\ ReadBalance(Replica[w]) \in Int
      BY <1>0, <1>1
    <3>2. (w = v \/ Replica[w] = v) <=> (w = d \/ Replica[w] = d)
      BY <1>0, <1>8
    <3>3. ~(w = v /\ Replica[w] = v) /\ ~(w = d /\ Replica[w] = d)
      BY <1>0
    <3>4. /\ ReadBalance(w)' = ReadBalance(w)
               - (IF a = "READ" /\ w = v THEN 1 ELSE 0) + (IF a = "READ" /\ w = d THEN 1 ELSE 0)
          /\ ReadBalance(Replica[w])' = ReadBalance(Replica[w])
               - (IF a = "READ" /\ Replica[w] = v THEN 1 ELSE 0)
               + (IF a = "READ" /\ Replica[w] = d THEN 1 ELSE 0)
      BY <2>2, <3>1
    <3> QED BY <3>1, <3>2, <3>3, <3>4
  <2> QED BY <1>0, <1>1, <1>3, <1>8, <2>2, <2>3
\* A packet of the GC types enters or leaves together with a counter.
<1>9. ASSUME NEW v \in Vssds, NEW a \in GcOps, NEW k \in {0, 1},
             \/ k = 0 /\ Leaves(v, a)
             \/ k = 1 /\ Enters(v, a),
             \A w \in Vssds :
                /\ asked'[w] \in Int /\ recirc'[w] \in Int /\ ended'[w] \in Int
                /\ asked'[w] - recirc'[w] - ended'[w] = asked[w] - recirc[w] - ended[w]
                     + IF w # v THEN 0 ELSE IF k = 1 THEN 1 ELSE -1
      PROVE  Books'
  <2>1. ASSUME NEW w \in Vssds
        PROVE  /\ GcBalance(w)' = GcBalance(w) + IF w # v THEN 0 ELSE IF k = 1 THEN 1 ELSE -1
               /\ WriteBalance(w)' = WriteBalance(w) /\ ReadBalance(w)' = ReadBalance(w)
    BY <1>7, <1>9
  <2>2. ASSUME NEW w \in Vssds
        PROVE  /\ asked'[w] - GcBalance(w)' - recirc'[w] - ended'[w]
                    = asked[w] - GcBalance(w) - recirc[w] - ended[w]
               /\ GcBalance(w)' \in Int /\ asked'[w] \in Int /\ recirc'[w] \in Int
               /\ ended'[w] \in Int
    <3>1. asked[w] \in Int /\ GcBalance(w) \in Int /\ recirc[w] \in Int /\ ended[w] \in Int
      BY <1>0, <1>1
    <3>2. /\ asked'[w] \in Int /\ recirc'[w] \in Int /\ ended'[w] \in Int
          /\ asked'[w] - recirc'[w] - ended'[w] = asked[w] - recirc[w] - ended[w]
               + IF w # v THEN 0 ELSE IF k = 1 THEN 1 ELSE -1
      BY <1>9
    <3>3. GcBalance(w)' = GcBalance(w) + IF w # v THEN 0 ELSE IF k = 1 THEN 1 ELSE -1
      BY <2>1
    <3> QED BY <3>1, <3>2, <3>3
  <2>3. \A w \in Vssds : Replica[w] \in Vssds
    BY <1>0
  <2> QED BY <1>3, <2>1, <2>2, <2>3
<1>10. ASSUME NEW v \in Vssds, NEW a \in GcOps, Leaves(v, a),
              \/ /\ recirc' = [recirc EXCEPT ![v] = @ + 1]
                 /\ UNCHANGED <<asked, ended>>
              \/ /\ ended' = [ended EXCEPT ![v] = @ + 1]
                 /\ UNCHANGED <<recirc, asked>>
       PROVE  Books'
  <2>1. ASSUME NEW w \in Vssds
        PROVE  /\ asked'[w] \in Int /\ recirc'[w] \in Int /\ ended'[w] \in Int
               /\ asked'[w] - recirc'[w] - ended'[w] = asked[w] - recirc[w] - ended[w]
                     + IF w # v THEN 0 ELSE IF 0 = 1 THEN 1 ELSE -1
    BY <1>0, <1>10
  <2> QED BY <1>9, <1>10, <2>1
<1>11. ASSUME NEW v \in Vssds, NEW a \in GcOps, Enters(v, a),
              \/ /\ recirc[v] > 0
                 /\ recirc' = [recirc EXCEPT ![v] = @ - 1]
                 /\ UNCHANGED <<asked, ended>>
              \/ /\ asked' = [asked EXCEPT ![v] = @ + 1]
                 /\ UNCHANGED <<recirc, ended>>
       PROVE  Books'
  <2>1. ASSUME NEW w \in Vssds
        PROVE  /\ asked'[w] \in Int /\ recirc'[w] \in Int /\ ended'[w] \in Int
               /\ asked'[w] - recirc'[w] - ended'[w] = asked[w] - recirc[w] - ended[w]
                     + IF w # v THEN 0 ELSE IF 1 = 1 THEN 1 ELSE -1
    BY <1>0, <1>11
  <2> QED BY <1>9, <1>11, <2>1
<1> QED BY <1>2, <1>5, <1>8, <1>10, <1>11, OpNames DEF Flow

LEMMA BooksClosed == Spec => []Books
<1>1. Init => Books
  <2> SUFFICES ASSUME Init PROVE Books
    OBVIOUS
  <2>1. ASSUME NEW w \in Vssds, NEW o \in Ops PROVE Balance(w, o) = 0
    <3>1. NoPackets[w][o] = 0
      BY DEF NoPackets
    <3>2. Held(w, o) = 0
      <4>1. CASE o \in IoOps
        <5>1. worker[w] # o
          BY <4>1 DEF Init, VssdInit, IoOps
        <5>2. devQ[w][o] = 0
          BY <4>1 DEF Init, VssdInit
        <5> QED BY <4>1, <5>1, <5>2, HeldIo
      <4>2. CASE o \in IoReplies
        BY <4>2, HeldReply, CountInEmpty DEF Init, VssdInit
      <4>3. CASE o \in GcSends
        BY <4>3, HeldSend, CountInEmpty DEF Init, VssdInit
      <4>4. CASE o \in GcAnswers
        BY <4>4, HeldAnswer DEF Init, VssdInit
      <4> QED BY <4>1, <4>2, <4>3, <4>4, OpsSets
    <3> QED BY <3>1, <3>2 DEF Init, NetInit, Balance, At
  <2>2. ASSUME NEW w \in Vssds
        PROVE  GcBalance(w) = 0 /\ WriteBalance(w) = 0 /\ ReadBalance(w) = 0
    BY <2>1, OpNames DEF GcBalance, WriteBalance, ReadBalance
  <2>3. ASSUME NEW w \in Vssds
        PROVE  asked[w] = 0 /\ recirc[w] = 0 /\ ended[w] = 0 /\ Replica[w] \in Vssds
    BY ReplicaAssumption DEF Init, SwitchInit
  <2>4. ASSUME NEW w \in Vssds
        PROVE  /\ asked[w] = GcBalance(w) + recirc[w] + ended[w]
               /\ WriteBalance(w) = 0
               /\ ReadBalance(w) + ReadBalance(Replica[w]) = 0
    <3>1. /\ asked[w] = 0 /\ recirc[w] = 0 /\ ended[w] = 0 /\ Replica[w] \in Vssds
          /\ GcBalance(w) = 0 /\ WriteBalance(w) = 0 /\ ReadBalance(w) = 0
      BY <2>2, <2>3
    <3>2. ReadBalance(Replica[w]) = 0
      BY <2>2, <3>1
    <3> QED BY <3>1, <3>2
  <2> QED BY <2>4 DEF Books
<1> QED BY <1>1, FlowStep, BooksStep, TypeCorrect, KindsCorrect, PTL DEF Spec

\* No GC round is lost or counted twice: however packets are delayed, reordered,
\* repeated or lost and processes restarted, every packet that began a round is
\* in one place, or ended in run_gc, or is on the list of the lost.
THEOREM RoundsAddUp == Spec => []RoundsConserved
<1>1. TypeOK /\ KindsInv /\ Books => RoundsConserved
  <2> SUFFICES ASSUME TypeOK, KindsInv, Books, NEW w \in Vssds
               PROVE  asked[w] + GcCount(sent[w]) + GcCount(repeated[w])
                        = Rounds(w) + ended[w] + GcCount(lost[w])
    BY DEF RoundsConserved
  <2> DEFINE Entry(o) == /\ Balance(w, o) = At(w, o) + lost[w][o] - sent[w][o] - repeated[w][o]
                         /\ At(w, o) \in Nat /\ lost[w][o] \in Nat
                         /\ sent[w][o] \in Nat /\ repeated[w][o] \in Nat
  <2>1. ASSUME NEW o \in GcOps PROVE Entry(o)
    <3>1. o \in Ops /\ o \notin IoReplies
      BY OpsSets DEF GcOps
    <3>2. Counts(w, o) /\ At(w, o) \in Nat /\ received[w][o] = 0
      BY <3>1, CountsType DEF KindsInv
    <3> QED BY <3>2 DEF Balance, Counts
  <2>2. /\ Entry("GC") /\ Entry("GC_REQUEST") /\ Entry("GC_FINISH")
        /\ Entry("GC_SUCCESS") /\ Entry("GC_DENY") /\ Entry("GC_FIN_SUC")
    BY <2>1 DEF GcOps, GcSends, GcAnswers
  <2>3. Rounds(w) = At(w, "GC") + At(w, "GC_REQUEST") + At(w, "GC_FINISH")
                    + At(w, "GC_SUCCESS") + At(w, "GC_DENY") + At(w, "GC_FIN_SUC") + recirc[w]
    BY DEF Rounds, GcCount, GcSends, GcAnswers
  <2>4. /\ asked[w] \in Nat /\ recirc[w] \in Nat /\ ended[w] \in Nat
        /\ asked[w] = GcBalance(w) + recirc[w] + ended[w]
    BY DEF TypeOK, SwitchTypeOK, Books
  <2> QED BY <2>2, <2>3, <2>4 DEF GcBalance, GcCount
<1> QED BY <1>1, TypeCorrect, KindsCorrect, BooksClosed, PTL

\* A write is executed by the vSSD it names and answered in its name, once,
\* whatever the server does to it.
THEOREM WritesAddUp == Spec => []WritesConserved
<1>1. TypeOK /\ KindsInv /\ Books => WritesConserved
  <2> SUFFICES ASSUME TypeOK, KindsInv, Books, NEW w \in Vssds
               PROVE  sent[w]["WRITE"] + repeated[w]["WRITE_REPLY"]
                        = At(w, "WRITE") + At(w, "WRITE_REPLY") + received[w]["WRITE_REPLY"]
                          + lost[w]["WRITE"] + lost[w]["WRITE_REPLY"]
    BY DEF WritesConserved
  <2>1. /\ Counts(w, "WRITE") /\ At(w, "WRITE") \in Nat
        /\ Counts(w, "WRITE_REPLY") /\ At(w, "WRITE_REPLY") \in Nat
    BY CountsType, OpNames
  <2>2. received[w]["WRITE"] = 0 /\ repeated[w]["WRITE"] = 0 /\ sent[w]["WRITE_REPLY"] = 0
    BY OpNames DEF KindsInv, IoReplies, GcSends, ClientOps, IoOps
  <2>3. Balance(w, "WRITE") + Balance(w, "WRITE_REPLY") = 0
    BY DEF Books, WriteBalance
  <2> QED BY <2>1, <2>2, <2>3 DEF Balance, Counts
<1> QED BY <1>1, TypeCorrect, KindsCorrect, BooksClosed, PTL

\* A read is executed once, by the vSSD it names or by its replica, whatever
\* the redirection and the server do to it.
THEOREM ReadsAddUp == Spec => []ReadsConserved
<1>1. TypeOK /\ KindsInv /\ Books => ReadsConserved
  <2> SUFFICES ASSUME TypeOK, KindsInv, Books PROVE ReadsConserved
    OBVIOUS
  <2>1. ASSUME NEW w \in Vssds
        PROVE  /\ ReadBalance(w) = ReadsSeen(w) - ReadsMade(w)
               /\ ReadsSeen(w) \in Int /\ ReadsMade(w) \in Int
    <3>1. /\ Counts(w, "READ") /\ At(w, "READ") \in Nat
          /\ Counts(w, "READ_REPLY") /\ At(w, "READ_REPLY") \in Nat
      BY CountsType, OpNames
    <3>2. received[w]["READ"] = 0 /\ repeated[w]["READ"] = 0 /\ sent[w]["READ_REPLY"] = 0
      BY OpNames DEF KindsInv, IoReplies, GcSends, ClientOps, IoOps
    <3> QED BY <3>1, <3>2 DEF Balance, Counts, ReadBalance, ReadsSeen, ReadsMade
  <2>2. ASSUME NEW w \in Vssds
        PROVE  ReadsMade(w) + ReadsMade(Replica[w]) = ReadsSeen(w) + ReadsSeen(Replica[w])
    <3>1. Replica[w] \in Vssds
      BY ReplicaAssumption
    <3>2. ReadBalance(w) + ReadBalance(Replica[w]) = 0
      BY DEF Books
    <3> QED BY <2>1, <3>1, <3>2
  <2> QED BY <2>2 DEF ReadsConserved
<1> QED BY <1>1, TypeCorrect, KindsCorrect, BooksClosed, PTL

----------------------------------------------------------------------------
(* One round at a time *)

LEMMA GcCountPut ==
    ASSUME NEW net \in Packets, NEW v \in Vssds, NEW op \in Ops, NEW w \in Vssds
    PROVE  /\ GcCount(net[w]) \in Nat
           /\ GcCount(Put(net, v, op)[w])
                = GcCount(net[w]) + IF w = v /\ op \in GcOps THEN 1 ELSE 0
<1> DEFINE Moves(o) == /\ net[w][o] \in Nat
                       /\ Put(net, v, op)[w][o] = net[w][o] + IF w = v /\ o = op THEN 1 ELSE 0
<1>1. /\ Moves("GC") /\ Moves("GC_REQUEST") /\ Moves("GC_FINISH")
      /\ Moves("GC_SUCCESS") /\ Moves("GC_DENY") /\ Moves("GC_FIN_SUC")
  BY NetUnit, OpNames DEF Unit
<1>2. op \in GcOps <=> op \in {"GC", "GC_REQUEST", "GC_FINISH", "GC_SUCCESS", "GC_DENY", "GC_FIN_SUC"}
  BY DEF GcOps, GcSends, GcAnswers
<1> QED BY <1>1, <1>2 DEF GcCount

\* A round of which nothing is on record has not begun, and what began it is
\* the only thing there is of it: the part of the discipline that counts.
OneRound == \A v \in Vssds : v \notin overlapped => Rounds(v) <= 1

\* The packets that begin a round, or a finish from outside it, one by one.
Begun(w) == asked[w] + GcCount(sent[w]) + GcCount(repeated[w])
Over(w) == ended[w] + GcCount(lost[w])

\* RoundsConserved in these terms.
RoundsCounted ==
    \A w \in Vssds : /\ Begun(w) \in Nat /\ Over(w) \in Nat /\ Rounds(w) \in Nat
                    /\ Begun(w) = Rounds(w) + Over(w)

LEMMA BegunOver == TypeOK /\ RoundsConserved => RoundsCounted
<1> SUFFICES ASSUME TypeOK, RoundsConserved, NEW w \in Vssds
             PROVE  /\ Begun(w) \in Nat /\ Over(w) \in Nat /\ Rounds(w) \in Nat
                    /\ Begun(w) = Rounds(w) + Over(w)
  BY DEF RoundsCounted
<1>1. GcCount(sent[w]) \in Nat /\ GcCount(repeated[w]) \in Nat /\ GcCount(lost[w]) \in Nat
  <2>1. sent \in Packets /\ repeated \in Packets /\ lost \in Packets
    BY DEF TypeOK
  <2> QED BY <2>1, GcCountPut, OpNames
<1>2. asked[w] \in Nat /\ ended[w] \in Nat /\ recirc[w] \in Nat
  BY DEF TypeOK, SwitchTypeOK
<1>3. Rounds(w) \in Nat
  <2>1. /\ At(w, "GC") \in Nat /\ At(w, "GC_REQUEST") \in Nat /\ At(w, "GC_FINISH") \in Nat
        /\ At(w, "GC_SUCCESS") \in Nat /\ At(w, "GC_DENY") \in Nat /\ At(w, "GC_FIN_SUC") \in Nat
    BY CountsType, OpNames
  <2> QED BY <1>2, <2>1 DEF Rounds, GcCount, GcSends, GcAnswers
<1> QED BY <1>1, <1>2, <1>3 DEF Begun, Over, RoundsConserved

\* A step begins at most one round, notes it when another is under way, and
\* what is over stays over.
LEMMA RoundBegins ==
    ASSUME TypeOK, [Next]_vars, NEW w \in Vssds
    PROVE  /\ overlapped \subseteq overlapped'
           /\ \/ Begun(w)' = Begun(w)
              \/ Begun(w)' = Begun(w) + 1 /\ (Rounds(w) > 0 => w \in overlapped')
           /\ Over(w)' >= Over(w)
<1>0. /\ sent \in Packets /\ repeated \in Packets /\ lost \in Packets
      /\ asked \in [Vssds -> Nat] /\ ended \in [Vssds -> Nat]
  BY DEF TypeOK
<1> DEFINE Begins == /\ overlapped \subseteq overlapped'
                     /\ \/ Begun(w)' = Begun(w)
                        \/ Begun(w)' = Begun(w) + 1 /\ (Rounds(w) > 0 => w \in overlapped')
                     /\ Over(w)' >= Over(w)
<1>1. /\ GcCount(sent[w]) \in Nat /\ GcCount(repeated[w]) \in Nat /\ GcCount(lost[w]) \in Nat
      /\ asked[w] \in Nat /\ ended[w] \in Nat
  BY <1>0, GcCountPut, OpNames
<1>2. UNCHANGED <<sent, repeated, asked>> => Begun(w)' = Begun(w)
  BY DEF Begun
<1>3. UNCHANGED <<lost, ended>> => Over(w)' = Over(w)
  BY DEF Over
<1>4. Begun(w) \in Nat /\ Over(w) \in Nat
  BY <1>1 DEF Begun, Over
<1>5. ASSUME NEW v \in Vssds, NEW op \in Ops,
             \/ sent' = Put(sent, v, op) /\ UNCHANGED <<repeated, asked>>
             \/ repeated' = Put(repeated, v, op) /\ UNCHANGED <<sent, asked>>,
             UNCHANGED <<lost, ended>>, NoteOverlap(v, op), op \in GcSends \/ op \in IoOps \cup IoReplies
      PROVE  Begins
  <2>1. overlapped \subseteq overlapped'
    BY <1>5 DEF NoteOverlap
  <2>2. CASE w = v /\ op \in GcSends
    <3>1. op \in GcOps
      BY <2>2 DEF GcOps
    <3>2. Begun(w)' = Begun(w) + 1
      <4>1. CASE sent' = Put(sent, v, op) /\ UNCHANGED <<repeated, asked>>
        <5>1. GcCount(sent'[w]) = GcCount(sent[w]) + 1
          BY <1>0, <2>2, <3>1, <4>1, GcCountPut
        <5> QED BY <1>1, <4>1, <5>1 DEF Begun
      <4>2. CASE repeated' = Put(repeated, v, op) /\ UNCHANGED <<sent, asked>>
        <5>1. GcCount(repeated'[w]) = GcCount(repeated[w]) + 1
          BY <1>0, <2>2, <3>1, <4>2, GcCountPut
        <5> QED BY <1>1, <4>2, <5>1 DEF Begun
      <4> QED BY <1>5, <4>1, <4>2
    <3>3. Rounds(w) > 0 => w \in overlapped'
      BY <1>5, <2>2 DEF NoteOverlap
    <3> QED BY <1>3, <1>4, <1>5, <2>1, <3>2, <3>3
  <2>3. CASE ~(w = v /\ op \in GcSends)
    <3>1. ~(w = v /\ op \in GcOps)
      BY <1>5, <2>3, OpsSets DEF GcOps
    <3>2. Begun(w)' = Begun(w)
      <4>1. CASE sent' = Put(sent, v, op) /\ UNCHANGED <<repeated, asked>>
        <5>1. GcCount(sent'[w]) = GcCount(sent[w])
          BY <1>0, <1>1, <3>1, <4>1, GcCountPut
        <5> QED BY <4>1, <5>1 DEF Begun
      <4>2. CASE repeated' = Put(repeated, v, op) /\ UNCHANGED <<sent, asked>>
        <5>1. GcCount(repeated'[w]) = GcCount(repeated[w])
          BY <1>0, <1>1, <3>1, <4>2, GcCountPut
        <5> QED BY <4>2, <5>1 DEF Begun
      <4> QED BY <1>5, <4>1, <4>2
    <3> QED BY <1>3, <1>4, <1>5, <2>1, <3>2
  <2> QED BY <2>2, <2>3
<1>6. ASSUME NEW v \in Vssds, NEW op \in ClientOps, ClientSend(v, op) PROVE Begins
  BY <1>5, <1>6, OpsSets DEF ClientSend
<1>7. ASSUME NEW v \in Vssds, NEW op \in IoReplies \cup GcSends, RepeatToSwitch(v, op)
      PROVE  Begins
  BY <1>5, <1>7, OpsSets DEF RepeatToSwitch
<1>8. ASSUME NEW v \in Vssds, Ask(v) PROVE Begins
  <2>1. /\ asked' = [asked EXCEPT ![v] = @ + 1] /\ UNCHANGED <<sent, repeated, lost, ended>>
        /\ overlapped' = IF Rounds(v) > 0 THEN overlapped \cup {v} ELSE overlapped
    BY <1>8 DEF Ask, NoteOverlap, GcSends
  <2>2. CASE w = v
    <3>1. Begun(w)' = Begun(w) + 1
      <4>1. asked'[w] = asked[w] + 1
        BY <1>0, <2>1, <2>2
      <4> QED BY <1>1, <2>1, <4>1 DEF Begun
    <3> QED BY <1>3, <1>4, <2>1, <2>2, <3>1
  <2>3. CASE w # v
    <3>1. Begun(w)' = Begun(w)
      BY <1>0, <2>1, <2>3 DEF Begun
    <3> QED BY <1>3, <1>4, <2>1, <3>1
  <2> QED BY <2>2, <2>3
<1>9. ASSUME UNCHANGED <<sent, repeated, asked, overlapped>>, Over(w)' >= Over(w) PROVE Begins
  BY <1>2, <1>9
<1>10. ASSUME NEW v \in Vssds, NEW op \in Ops, lost' = Put(lost, v, op), UNCHANGED ended
       PROVE  Over(w)' >= Over(w)
  <2>1. GcCount(lost'[w]) >= GcCount(lost[w]) /\ GcCount(lost'[w]) \in Int
    BY <1>0, <1>1, <1>10, GcCountPut
  <2> QED BY <1>1, <1>10, <2>1 DEF Over
<1>11. ASSUME NEW v \in Vssds, NEW op \in Ops, LoseToSwitch(v, op) \/ LoseToVssd(v, op)
       PROVE  Begins
  BY <1>9, <1>10, <1>11 DEF LoseToSwitch, LoseToVssd
<1>12. ASSUME NEW v \in Vssds, VssdRestart(v) PROVE Begins
  <2>1. /\ UNCHANGED <<sent, repeated, asked, ended, overlapped>>
        /\ lost' = [lost EXCEPT ![v] = [op \in Ops |-> @[op] + Held(v, op)]]
    BY <1>12 DEF VssdRestart
  <2>2. CASE w = v
    <3> DEFINE Grows(o) == /\ lost'[w][o] \in Nat /\ lost[w][o] \in Nat
                           /\ lost'[w][o] >= lost[w][o]
    <3>1. \A o \in Ops : Grows(o)
      <4> TAKE o \in Ops
      <4>1. Held(w, o) \in Nat /\ lost[w][o] \in Nat
        BY CountsType DEF Counts
      <4>2. lost'[w][o] = lost[w][o] + Held(w, o)
        BY <1>0, <2>1, <2>2 DEF Packets
      <4> QED BY <4>1, <4>2
    <3>2. /\ Grows("GC") /\ Grows("GC_REQUEST") /\ Grows("GC_FINISH")
          /\ Grows("GC_SUCCESS") /\ Grows("GC_DENY") /\ Grows("GC_FIN_SUC")
      BY <3>1, OpNames
    <3>3. GcCount(lost'[w]) >= GcCount(lost[w]) /\ GcCount(lost'[w]) \in Nat
      BY <3>2 DEF GcCount
    <3>4. Over(w)' >= Over(w)
      BY <1>1, <2>1, <3>3 DEF Over
    <3> QED BY <1>9, <2>1, <3>4
  <2>3. CASE w # v
    <3>1. lost'[w] = lost[w]
      BY <1>0, <2>1, <2>3 DEF Packets
    <3>2. Over(w)' >= Over(w)
      BY <1>4, <2>1, <3>1 DEF Over
    <3> QED BY <1>9, <2>1, <3>2
  <2> QED BY <2>2, <2>3
<1>13. ASSUME NEW v \in Vssds, NEW op \in GcAnswers, EndRound(v, op) PROVE Begins
  <2>1. /\ UNCHANGED <<sent, repeated, asked, lost, overlapped>>
        /\ ended' = [ended EXCEPT ![v] = @ + 1]
    BY <1>13 DEF EndRound, history
  <2>2. ended'[w] >= ended[w] /\ ended'[w] \in Nat
    BY <1>0, <2>1
  <2>3. Over(w)' >= Over(w)
    BY <1>1, <2>1, <2>2 DEF Over
  <2> QED BY <1>9, <2>1, <2>3
<1>14. ASSUME NEW v \in Vssds,
              \/ \E op \in IoReplies : ClientRecv(v, op)
              \/ Pass(v) \/ Admit(v) \/ Hard(v) \/ Recirculated(v) \/ Finish(v)
              \/ Collect(v) \/ VssdOther(v) \/ Expiry(v)
       PROVE  Begins
  <2>1. UNCHANGED <<sent, repeated, asked, lost, ended, overlapped>>
    BY <1>14 DEF ClientRecv, Pass, Admit, Hard, Recirculated, Finish, Collect, VssdOther,
       Expiry, ledger, history
  <2> QED BY <1>3, <1>4, <1>9, <2>1
<1>15. CASE UNCHANGED vars
  <2>1. UNCHANGED <<sent, repeated, asked, lost, ended, overlapped>>
    BY <1>15 DEF vars, ledger, history
  <2> QED BY <1>3, <1>4, <1>9, <2>1
<1>16. ASSUME NEW v \in Vssds, Fault(v) PROVE Begins
  BY <1>7, <1>11, <1>16, OpsSets DEF Fault
<1> QED BY <1>6, <1>8, <1>12, <1>13, <1>14, <1>15, <1>16 DEF Next

LEMMA OneRoundStep ==
    TypeOK /\ RoundsCounted /\ RoundsCounted' /\ OneRound /\ [Next]_vars => OneRound'
<1> SUFFICES ASSUME TypeOK, RoundsCounted, RoundsCounted', OneRound, [Next]_vars,
                    NEW w \in Vssds, w \notin overlapped'
             PROVE  Rounds(w)' <= 1
  BY DEF OneRound
<1>1. /\ Begun(w) \in Nat /\ Over(w) \in Nat /\ Rounds(w) \in Nat
      /\ Begun(w) = Rounds(w) + Over(w)
      /\ Begun(w)' \in Nat /\ Over(w)' \in Nat /\ Rounds(w)' \in Nat
      /\ Begun(w)' = Rounds(w)' + Over(w)'
  BY DEF RoundsCounted
<1>2. /\ overlapped \subseteq overlapped'
      /\ \/ Begun(w)' = Begun(w)
         \/ Begun(w)' = Begun(w) + 1 /\ (Rounds(w) > 0 => w \in overlapped')
      /\ Over(w)' >= Over(w)
  BY RoundBegins
<1>3. Rounds(w) <= 1
  BY <1>2 DEF OneRound
<1> QED BY <1>1, <1>2, <1>3

LEMMA OneRoundCorrect == Spec => [](OneRound /\ RoundsCounted)
<1>1. Init /\ RoundsCounted => OneRound
  <2> SUFFICES ASSUME Init, RoundsCounted, NEW w \in Vssds PROVE Rounds(w) <= 1
    BY DEF OneRound
  <2>1. sent[w] = [op \in Ops |-> 0] /\ repeated[w] = [op \in Ops |-> 0] /\ asked[w] = 0
    BY DEF Init, NoPackets
  <2>2. Begun(w) = 0
    BY <2>1, OpNames DEF Begun, GcCount
  <2>3. Over(w) \in Nat /\ Rounds(w) \in Nat /\ Begun(w) = Rounds(w) + Over(w)
    BY DEF RoundsCounted
  <2> QED BY <2>2, <2>3
<1> QED BY <1>1, BegunOver, OneRoundStep, TypeCorrect, RoundsAddUp, PTL DEF Spec

----------------------------------------------------------------------------
(* Collecting and marked *)

\* A granted round of v has reached the vSSD's side: its success is on the
\* wire, in gcresp_q or in do_gc.
Holding(v) ==
    \/ toVssd[v]["GC_SUCCESS"] > 0
    \/ gcRespQ[v]["GC_SUCCESS"] > 0
    \/ gcPc[v] = "collect"

HoldingMarked == \A v \in Vssds : Holding(v) /\ v \notin overlapped => replicaReg[v] = 1

\* Only a grant, which marks, brings such a round about.
LEMMA HoldingNew ==
    ASSUME TypeOK, [Next]_vars, NEW w \in Vssds, Holding(w)'
    PROVE  Holding(w) \/ replicaReg'[w] = 1
<1>0. /\ toVssd \in Packets
      /\ gcPc \in [Vssds -> {"check", "pop", "collect", "exit"}]
      /\ gcRespQ \in [Vssds -> [GcAnswers -> Nat]]
      /\ replicaReg \in [Vssds -> {0, 1}]
      /\ "GC_SUCCESS" \in Ops /\ "GC_SUCCESS" \in GcAnswers
  BY DEF TypeOK, VssdTypeOK, SwitchTypeOK, Ops, GcAnswers
<1>1. gcRespQ[w]["GC_SUCCESS"] \in Nat /\ toVssd[w]["GC_SUCCESS"] \in Nat
  BY <1>0 DEF Packets
<1>2. CASE /\ toVssd'[w]["GC_SUCCESS"] > 0 => toVssd[w]["GC_SUCCESS"] > 0
           /\ gcRespQ'[w]["GC_SUCCESS"] > 0 =>
                gcRespQ[w]["GC_SUCCESS"] > 0 \/ toVssd[w]["GC_SUCCESS"] > 0
           /\ gcPc'[w] = "collect" => gcPc[w] = "collect" \/ gcRespQ[w]["GC_SUCCESS"] > 0
  BY <1>2 DEF Holding
\* What a step does to the wire, when it grants nothing to w.
<1>3. ASSUME NEW d \in Vssds, NEW c \in Ops, ~(d = w /\ c = "GC_SUCCESS"),
             \/ UNCHANGED toVssd
             \/ toVssd' = Put(toVssd, d, c)
      PROVE  toVssd'[w]["GC_SUCCESS"] = toVssd[w]["GC_SUCCESS"]
  <2>1. ~(w = d /\ "GC_SUCCESS" = c)
    BY <1>3
  <2> QED BY <1>0, <1>3, <2>1, PacketsCount
<1>4. ASSUME NEW c \in Ops, toVssd' = Take(toVssd, w, c)
      PROVE  toVssd'[w]["GC_SUCCESS"] <= toVssd[w]["GC_SUCCESS"]
             /\ toVssd'[w]["GC_SUCCESS"] \in Int
  BY <1>0, <1>4, NetUnit DEF Unit
<1>5. ASSUME NEW v \in Vssds, SwitchOther(v) \/ FinishGc(v), UNCHANGED vssdVars
      PROVE  Holding(w)
  <2>1. UNCHANGED <<gcRespQ, gcPc>>
    BY <1>5 DEF vssdVars
  <2>2. \/ UNCHANGED toVssd
        \/ \E d \in Vssds, c \in {"READ", "WRITE", "GC_DENY", "GC_FIN_SUC"} :
              toVssd' = Put(toVssd, d, c)
    <3>1. ReadTarget(v) \in Vssds
      BY ReplicaAssumption DEF ReadTarget
    <3> QED BY <1>5, <3>1 DEF SwitchOther, ForwardWrite, ForwardReply, RouteRead,
            AdmitRequest, DenyRequest, FinishGc, Bounce
  <2>3. {"READ", "WRITE", "GC_DENY", "GC_FIN_SUC"} \subseteq Ops \ {"GC_SUCCESS"}
    BY DEF Ops, IoOps, GcAnswers
  <2>4. toVssd'[w]["GC_SUCCESS"] = toVssd[w]["GC_SUCCESS"]
    BY <1>3, <2>2, <2>3
  <2> QED BY <2>1, <2>4 DEF Holding
<1>6. ASSUME NEW v \in Vssds, GrantHard(v) \/ GrantAdmitted(v), UNCHANGED vssdVars
      PROVE  Holding(w) \/ replicaReg'[w] = 1
  <2>1. /\ UNCHANGED <<gcRespQ, gcPc>> /\ toVssd' = Put(toVssd, v, "GC_SUCCESS")
        /\ replicaReg' = [replicaReg EXCEPT ![v] = 1]
    BY <1>6 DEF GrantHard, GrantAdmitted, Bounce, SetGcBits, vssdVars
  <2>2. CASE v = w
    BY <1>0, <2>1, <2>2
  <2>3. CASE v # w
    <3>1. toVssd'[w]["GC_SUCCESS"] = toVssd[w]["GC_SUCCESS"]
      BY <1>0, <1>3, <2>1, <2>3
    <3> QED BY <2>1, <3>1 DEF Holding
  <2> QED BY <2>2, <2>3
<1>7. ASSUME NEW v \in Vssds, NEW op \in Ops, NetRecv(v, op) PROVE Holding(w)
  <2>1. /\ toVssd[v][op] > 0 /\ toVssd' = Take(toVssd, v, op) /\ UNCHANGED gcPc
        /\ gcRespQ' = IF op \in GcAnswers THEN Put(gcRespQ, v, op) ELSE gcRespQ
    BY <1>7 DEF NetRecv
  <2>2. CASE v = w /\ op = "GC_SUCCESS"
    BY <2>1, <2>2 DEF Holding
  <2>3. CASE ~(v = w /\ op = "GC_SUCCESS")
    <3>0. ~(w = v /\ "GC_SUCCESS" = op)
      BY <2>3
    <3>1. toVssd'[w]["GC_SUCCESS"] = toVssd[w]["GC_SUCCESS"]
      BY <1>0, <2>1, <3>0, PacketsCount
    <3>2. gcRespQ'[w]["GC_SUCCESS"] = gcRespQ[w]["GC_SUCCESS"]
      BY <1>0, <2>1, <3>0, AnswersCount
    <3> QED BY <2>1, <3>1, <3>2 DEF Holding
  <2> QED BY <2>2, <2>3
<1>8. ASSUME NEW v \in Vssds, NEW op \in GcAnswers, GcPop(v, op) PROVE Holding(w)
  <2>1. /\ gcRespQ[v][op] > 0 /\ gcRespQ' = Take(gcRespQ, v, op) /\ UNCHANGED toVssd
        /\ gcPc' = [gcPc EXCEPT ![v] = IF op = "GC_SUCCESS" THEN "collect" ELSE "check"]
    BY <1>8 DEF GcPop, netVars
  <2>2. CASE v = w /\ op = "GC_SUCCESS"
    BY <2>1, <2>2 DEF Holding
  <2>3. CASE ~(v = w /\ op = "GC_SUCCESS")
    <3>0. ~(w = v /\ "GC_SUCCESS" = op)
      BY <2>3
    <3>1. gcRespQ'[w]["GC_SUCCESS"] = gcRespQ[w]["GC_SUCCESS"]
      BY <1>0, <2>1, <3>0, AnswersCount
    <3>2. gcPc'[w] = "collect" => gcPc[w] = "collect"
      BY <1>0, <2>1, <2>3
    <3> QED BY <2>1, <3>1, <3>2 DEF Holding
  <2> QED BY <2>2, <2>3
<1>9. ASSUME NEW v \in Vssds,
             \/ NetTimeout(v) \/ NetReply(v) \/ NetGc(v) \/ WorkerStep(v)
             \/ GcAsk(v) \/ GcNoNeed(v) \/ GcPopNone(v) \/ GcDone(v) \/ Expire(v)
      PROVE  Holding(w)
  <2>1. /\ UNCHANGED <<toVssd, gcRespQ>>
        /\ \/ UNCHANGED gcPc
           \/ \E l \in {"pop", "check", "exit"} : gcPc' = [gcPc EXCEPT ![v] = l]
    BY <1>9 DEF NetTimeout, NetReply, NetGc, WorkerStep, WorkerPop, WorkerReply, GcAsk,
       GcNoNeed, GcPopNone, GcDone, Expire, netVars
  <2>2. gcPc'[w] = "collect" => gcPc[w] = "collect"
    BY <1>0, <2>1
  <2> QED BY <2>1, <2>2 DEF Holding
<1>10. ASSUME NEW v \in Vssds, Restart(v) PROVE Holding(w)
  <2>1. /\ UNCHANGED toVssd
        /\ gcPc' = [gcPc EXCEPT ![v] = "check"]
        /\ gcRespQ' = [gcRespQ EXCEPT ![v] = [op \in GcAnswers |-> 0]]
    BY <1>10 DEF Restart, netVars
  <2>2. gcPc'[w] = "collect" => gcPc[w] = "collect"
    BY <1>0, <2>1
  <2>3. gcRespQ'[w]["GC_SUCCESS"] > 0 => gcRespQ[w]["GC_SUCCESS"] > 0
    BY <1>0, <2>1
  <2> QED BY <2>1, <2>2, <2>3 DEF Holding
<1>11. UNCHANGED <<toVssd, vssdVars>> => Holding(w)
  BY DEF vssdVars, Holding
<1>12. ASSUME NEW v \in Vssds,
              \/ \E op \in ClientOps : ClientSend(v, op)
              \/ \E op \in IoReplies : ClientRecv(v, op)
       PROVE  Holding(w)
  BY <1>11, <1>12 DEF ClientSend, ClientRecv
<1>13. ASSUME NEW v \in Vssds,
              Pass(v) \/ Admit(v) \/ Hard(v) \/ Recirculated(v) \/ Finish(v)
       PROVE  Holding(w) \/ replicaReg'[w] = 1
  BY <1>5, <1>6, <1>13 DEF Pass, Admit, Hard, Recirculated, Finish, SwitchOther
<1>14. ASSUME NEW v \in Vssds,
              \/ Ask(v) \/ Collect(v) \/ VssdOther(v) \/ Expiry(v) \/ VssdRestart(v)
              \/ \E op \in GcAnswers : EndRound(v, op)
       PROVE  Holding(w)
  BY <1>0, <1>7, <1>8, <1>9, <1>10, <1>14
     DEF Ask, Collect, VssdOther, Expiry, VssdRestart, EndRound, NetStep
<1>15. ASSUME NEW v \in Vssds, Fault(v) PROVE Holding(w)
  <2>1. ASSUME NEW op \in Ops, LoseToSwitch(v, op) \/ RepeatToSwitch(v, op) PROVE Holding(w)
    BY <1>11, <2>1 DEF LoseToSwitch, RepeatToSwitch
  <2>2. ASSUME NEW op \in Ops, LoseToVssd(v, op) PROVE Holding(w)
    <3>1. toVssd' = Take(toVssd, v, op) /\ UNCHANGED <<gcRespQ, gcPc>>
      BY <2>2 DEF LoseToVssd, vssdVars
    <3>2. toVssd'[w]["GC_SUCCESS"] <= toVssd[w]["GC_SUCCESS"] /\ toVssd'[w]["GC_SUCCESS"] \in Int
      <4>1. CASE v = w
        BY <1>4, <3>1, <4>1
      <4>2. CASE v # w
        BY <1>0, <1>1, <3>1, <4>2, PacketsCount
      <4> QED BY <4>1, <4>2
    <3>3. toVssd'[w]["GC_SUCCESS"] > 0 => toVssd[w]["GC_SUCCESS"] > 0
      BY <1>1, <3>2
    <3> QED BY <3>1, <3>3 DEF Holding
  <2> QED BY <1>15, <2>1, <2>2, OpsSets DEF Fault
<1>16. CASE UNCHANGED vars
  BY <1>11, <1>16 DEF vars, netVars
<1> QED BY <1>12, <1>13, <1>14, <1>15, <1>16 DEF Next

\* A mark is only cleared by a finish that has arrived at the switch.
LEMMA Unmarked ==
    ASSUME TypeOK, [Next]_vars, NEW w \in Vssds, replicaReg[w] = 1, replicaReg'[w] # 1
    PROVE  toSwitch[w]["GC_FINISH"] > 0
<1>0. replicaReg \in [Vssds -> {0, 1}]
  BY DEF TypeOK, SwitchTypeOK
<1>1. ASSUME NEW v \in Vssds, Finish(v) PROVE toSwitch[w]["GC_FINISH"] > 0
  <2>1. replicaReg' = [replicaReg EXCEPT ![v] = 0] /\ toSwitch[v]["GC_FINISH"] > 0
    BY <1>1 DEF Finish, FinishGc, ClearGcBits, Arrives
  <2> QED BY <1>0, <2>1
<1>2. ASSUME NEW v \in Vssds, Hard(v) \/ Recirculated(v) PROVE FALSE
  <2>1. replicaReg' = [replicaReg EXCEPT ![v] = 1]
    BY <1>2 DEF Hard, Recirculated, GrantHard, GrantAdmitted, SetGcBits
  <2> QED BY <1>0, <2>1
<1>3. ASSUME NEW v \in Vssds,
             \/ \E op \in ClientOps : ClientSend(v, op)
             \/ \E op \in IoReplies : ClientRecv(v, op)
             \/ Pass(v) \/ Admit(v) \/ Ask(v) \/ Collect(v) \/ VssdOther(v)
             \/ \E op \in GcAnswers : EndRound(v, op)
             \/ Expiry(v) \/ VssdRestart(v) \/ Fault(v)
      PROVE  FALSE
  <2>1. replicaReg' = replicaReg
    BY <1>3 DEF ClientSend, ClientRecv, Ask, Collect, VssdOther, EndRound, Expiry,
       VssdRestart, Fault, LoseToSwitch, LoseToVssd, RepeatToSwitch, Pass, ForwardWrite,
       ForwardReply, RouteRead, DenyRequest, Admit, AdmitRequest, switchVars
  <2> QED BY <2>1
<1>4. CASE UNCHANGED vars
  BY <1>4 DEF vars, switchVars
<1> QED BY <1>1, <1>2, <1>3, <1>4 DEF Next

LEMMA HoldingStep ==
    TypeOK /\ OneRound /\ HoldingMarked /\ [Next]_vars => HoldingMarked'
<1> SUFFICES ASSUME TypeOK, OneRound, HoldingMarked, [Next]_vars,
                    NEW w \in Vssds, Holding(w)', w \notin overlapped'
             PROVE  replicaReg'[w] = 1
  BY DEF HoldingMarked
<1>1. w \notin overlapped
  BY RoundBegins
<1>2. CASE Holding(w)
  <2>1. replicaReg[w] = 1
    BY <1>1, <1>2 DEF HoldingMarked
  <2>2. SUFFICES ASSUME toSwitch[w]["GC_FINISH"] > 0 PROVE FALSE
    BY <2>1, Unmarked
  <2>3. /\ At(w, "GC") \in Nat /\ At(w, "GC_REQUEST") \in Nat /\ At(w, "GC_DENY") \in Nat
        /\ At(w, "GC_FIN_SUC") \in Nat /\ recirc[w] \in Nat
        /\ Counts(w, "GC_FINISH") /\ Counts(w, "GC_SUCCESS")
    BY CountsType, OpNames DEF TypeOK, SwitchTypeOK
  <2>4. At(w, "GC_FINISH") >= 1 /\ At(w, "GC_FINISH") \in Nat
    BY <2>2, <2>3 DEF At, Counts
  <2>5. toVssd[w]["GC_SUCCESS"] > 0 \/ Held(w, "GC_SUCCESS") > 0
    <3>1. "GC_SUCCESS" \in GcAnswers
      BY DEF GcAnswers
    <3>2. Held(w, "GC_SUCCESS") = gcRespQ[w]["GC_SUCCESS"] + IF gcPc[w] = "collect" THEN 1 ELSE 0
      BY <3>1, HeldAnswer
    <3>3. gcRespQ[w]["GC_SUCCESS"] \in Nat
      BY <3>1 DEF TypeOK, VssdTypeOK
    <3> QED BY <1>2, <3>2, <3>3 DEF Holding
  <2>6. At(w, "GC_SUCCESS") >= 1 /\ At(w, "GC_SUCCESS") \in Nat
    BY <2>3, <2>5 DEF At, Counts
  <2>7. Rounds(w) = At(w, "GC") + At(w, "GC_REQUEST") + At(w, "GC_FINISH")
                    + At(w, "GC_SUCCESS") + At(w, "GC_DENY") + At(w, "GC_FIN_SUC") + recirc[w]
    BY DEF Rounds, GcCount, GcSends, GcAnswers
  <2>8. Rounds(w) <= 1
    BY <1>1 DEF OneRound
  <2> QED BY <2>3, <2>4, <2>6, <2>7, <2>8
<1>3. CASE ~Holding(w)
  BY <1>3, HoldingNew
<1> QED BY <1>2, <1>3

\* A vSSD none of whose rounds ever overlapped collects only while the switch
\* has it marked, whatever is lost, repeated or restarted.
THEOREM CollectorsAreMarked == Spec => []CollectsMarked
<1>1. Init => HoldingMarked
  <2> SUFFICES ASSUME Init, NEW v \in Vssds PROVE ~Holding(v)
    BY DEF HoldingMarked
  <2>1. toVssd[v]["GC_SUCCESS"] = 0
    BY OpNames DEF Init, NetInit, NoPackets
  <2>2. gcRespQ[v]["GC_SUCCESS"] = 0 /\ gcPc[v] = "check"
    BY DEF Init, VssdInit, GcAnswers
  <2> QED BY <2>1, <2>2 DEF Holding
<1>2. HoldingMarked => CollectsMarked
  BY DEF HoldingMarked, Holding, CollectsMarked
<1> QED BY <1>1, <1>2, HoldingStep, TypeCorrect, OneRoundCorrect, PTL DEF Spec

----------------------------------------------------------------------------
(* Reads and marks *)

\* No step hands a read to a vSSD marked as collecting, unless its replica is
\* marked as well and the read names it.
THEOREM ReadsAreSteered == Spec => ReadsAvoidCollector
<1>1. TypeOK /\ BitsAgree /\ [Next]_vars =>
        [\A v \in Vssds :
          toVssd'[v]["READ"] > toVssd[v]["READ"] /\ replicaReg[v] = 1
            => /\ replicaReg[Replica[v]] = 1
               /\ toSwitch'[v]["READ"] < toSwitch[v]["READ"]]_vars
  <2> SUFFICES ASSUME TypeOK, BitsAgree, [Next]_vars, NEW w \in Vssds,
                      toVssd'[w]["READ"] > toVssd[w]["READ"], replicaReg[w] = 1
               PROVE  /\ replicaReg[Replica[w]] = 1
                      /\ toSwitch'[w]["READ"] < toSwitch[w]["READ"]
    OBVIOUS
  <2>0. /\ toVssd \in Packets /\ toSwitch \in Packets
        /\ replicaReg \in [Vssds -> {0, 1}] /\ destReg = replicaReg
        /\ toVssd[w]["READ"] \in Nat
    BY OpNames DEF TypeOK, SwitchTypeOK, BitsAgree, Packets
  <2>1. CASE UNCHANGED toVssd
    BY <2>0, <2>1
  <2>2. ASSUME NEW d \in Vssds, NEW c \in Ops, toVssd' = Take(toVssd, d, c) PROVE FALSE
    BY <2>0, <2>2, NetUnit, OpNames DEF Unit
  <2>3. ASSUME NEW d \in Vssds, NEW c \in Ops, toVssd' = Put(toVssd, d, c) PROVE d = w /\ c = "READ"
    BY <2>0, <2>3, NetUnit, OpNames DEF Unit
  <2>4. ASSUME NEW v \in Vssds, RouteRead(v)
        PROVE  /\ replicaReg[Replica[w]] = 1
               /\ toSwitch'[w]["READ"] < toSwitch[w]["READ"]
    <3>1. Replica[v] \in Vssds /\ ReadTarget(v) \in {v, Replica[v]}
      BY ReplicaAssumption DEF ReadTarget
    <3>2. ReadTarget(v) = w
      BY <2>3, <2>4, <3>1, OpNames DEF RouteRead, Bounce
    <3>3. v = w /\ replicaReg[Replica[w]] = 1
      <4>1. CASE replicaReg[v] = 1 /\ replicaReg[Replica[v]] = 0
        BY <2>0, <3>2, <4>1 DEF ReadTarget, GcVssd, GcReplica
      <4>2. CASE ~(replicaReg[v] = 1 /\ replicaReg[Replica[v]] = 0)
        <5>1. v = w
          BY <2>0, <3>2, <4>2 DEF ReadTarget, GcVssd, GcReplica
        <5> QED BY <2>0, <3>1, <4>2, <5>1
      <4> QED BY <4>1, <4>2
    <3>4. toSwitch' = Take(toSwitch, w, "READ")
      BY <2>4, <3>3 DEF RouteRead, Bounce
    <3>5. toSwitch'[w]["READ"] = toSwitch[w]["READ"] - 1 /\ toSwitch[w]["READ"] \in Nat
      BY <2>0, <3>4, PacketsCount, OpNames
    <3> QED BY <3>3, <3>5
  <2>5. ASSUME NEW v \in Vssds,
               Pass(v) \/ Admit(v) \/ Hard(v) \/ Recirculated(v) \/ Finish(v)
        PROVE  /\ replicaReg[Replica[w]] = 1
               /\ toSwitch'[w]["READ"] < toSwitch[w]["READ"]
    <3>1. CASE UNCHANGED toVssd
      BY <2>1, <3>1
    <3>2. CASE \E c \in {"WRITE", "GC_DENY", "GC_SUCCESS", "GC_FIN_SUC"} : toVssd' = Put(toVssd, v, c)
      BY <2>3, <3>2, OpNames
    <3>3. CASE RouteRead(v)
      BY <2>4, <3>3
    <3> QED BY <2>5, <3>1, <3>2, <3>3
            DEF Pass, Admit, Hard, Recirculated, Finish, ForwardWrite, ForwardReply,
                AdmitRequest, DenyRequest, GrantHard, GrantAdmitted, FinishGc, Bounce
  <2>6. ASSUME NEW v \in Vssds,
               \/ \E op \in ClientOps : ClientSend(v, op)
               \/ \E op \in IoReplies : ClientRecv(v, op)
               \/ Ask(v) \/ Collect(v) \/ VssdOther(v) \/ Expiry(v) \/ VssdRestart(v)
               \/ \E op \in GcAnswers : EndRound(v, op)
               \/ Fault(v)
        PROVE  FALSE
    <3>1. \/ UNCHANGED toVssd
          \/ \E op \in Ops : toVssd' = Take(toVssd, v, op)
      BY <2>6, OpsSets DEF ClientSend, ClientRecv, Ask, GcAsk, Collect, VssdOther, NetStep,
         NetRecv, NetTimeout, NetReply, NetGc, WorkerStep, WorkerPop, WorkerReply, GcNoNeed,
         GcPopNone, GcPop, GcDone, Expiry, Expire, VssdRestart, Restart, EndRound, Fault,
         LoseToSwitch, LoseToVssd, RepeatToSwitch, netVars
    <3> QED BY <2>0, <2>2, <3>1
  <2>7. CASE UNCHANGED vars
    BY <2>1, <2>7 DEF vars, netVars
  <2> QED BY <2>5, <2>6, <2>7 DEF Next
<1> QED BY <1>1, TypeCorrect, TablesAgree, PTL DEF Spec, ReadsAvoidCollector
=============================================================================
