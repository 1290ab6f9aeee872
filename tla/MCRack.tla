------------------------------ MODULE MCRack -------------------------------
(* Instances of Rack for TLC: one pair of vSSDs, each the other's replica. *)
EXTENDS Rack, TLC

CONSTANTS v1, v2

Pair == {v1, v2}
PairReplica == v1 :> v2 @@ v2 :> v1

\* get_gc_thresh divides two ints, so it returns whole ratios only.
IntegerLevels == {0, 100}

\* Client budgets: the packets b for each vSSD of a set and none for the others.
For(vs, b) ==
    [v \in Vssds |-> [op \in ClientOps |->
        IF v \in vs /\ op \in DOMAIN b THEN b[op] ELSE 0]]

RequestEach == For(Pair, [GC_REQUEST |-> 1])
ReadFirst == For({v1}, [READ |-> 1])
IoFirst == For({v1}, [READ |-> 1, WRITE |-> 1, GC |-> 1])
ReadAndHard == [For({v1}, [READ |-> 1, GC |-> 1]) EXCEPT ![v2]["GC"] = 1]

Symmetry == Permutations(Pair)
=============================================================================
