-------------------------------- MODULE Fifo --------------------------------
(***************************************************************************)
(* A first-in, first-out queue of at most Capacity elements, as the        *)
(* callers of vssd_code/queue.c see it: what it holds and what the last    *)
(* call returned.                                                          *)
(***************************************************************************)
EXTENDS Integers, Sequences

CONSTANTS Capacity, Elements, Refused

VARIABLES contents, ret

Init == contents = <<>> /\ ret = 0

Put(x) ==
    IF Len(contents) < Capacity
    THEN contents' = Append(contents, x) /\ ret' = 0
    ELSE ret' = Refused /\ UNCHANGED contents

Get ==
    IF contents # <<>>
    THEN ret' = Head(contents) /\ contents' = Tail(contents)
    ELSE ret' = Refused /\ UNCHANGED contents

Look ==
    /\ contents # <<>>
    /\ ret' = Head(contents) /\ UNCHANGED contents

Next == (\E x \in Elements : Put(x)) \/ Get \/ Look

Spec == Init /\ [][Next]_<<contents, ret>>
=============================================================================
