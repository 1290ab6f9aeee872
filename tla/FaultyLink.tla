---------------------------- MODULE FaultyLink -----------------------------
(***************************************************************************)
(* What the server promises the packets that vSSDs send to the switch: a   *)
(* packet is on the wire from when it enters until it leaves or is lost,   *)
(* and one on the wire may turn into a second copy of another that is on   *)
(* the wire.  Nothing else comes out, and never more than went in: the     *)
(* faults with which Rack.tla models the server (LoseToSwitch,             *)
(* RepeatToSwitch).                                                        *)
(***************************************************************************)
EXTENDS Bags, Integers

CONSTANT Packet

VARIABLES
    wire,   \* the packets that have entered and not left
    out     \* the packets that have left and are not yet picked up

One(p) == SetToBag({p})

Init ==
    /\ wire = EmptyBag
    /\ out = EmptyBag

Enter(p) ==
    /\ wire' = wire (+) One(p)
    /\ out' = out

Leave(p) ==
    /\ BagIn(p, wire)
    /\ wire' = wire (-) One(p)
    /\ out' = out (+) One(p)

Lose(p) ==
    /\ BagIn(p, wire)
    /\ wire' = wire (-) One(p)
    /\ out' = out

Replace(p, q) ==
    /\ BagIn(p, wire) /\ BagIn(q, wire) /\ p # q
    /\ wire' = (wire (-) One(p)) (+) One(q)
    /\ out' = out

PickUp ==
    /\ IsABag(out') /\ out' \sqsubseteq out
    /\ wire' = wire

Next ==
    \/ PickUp
    \/ \E p \in Packet :
           Enter(p) \/ Leave(p) \/ Lose(p) \/ \E q \in Packet : Replace(p, q)

Spec == Init /\ [][Next]_<<wire, out>>
=============================================================================
