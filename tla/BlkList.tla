------------------------------ MODULE BlkList ------------------------------
(***************************************************************************)
(* The sorted lists of blocks of vssd_code/blklist.c, as sequences of      *)
(* nodes [ppa, data] from the head; data is the erase count.               *)
(***************************************************************************)
EXTENDS Integers, Sequences

\* The new node goes in front of the first one at which the walk stops.
AddBefore(list, stops, node) ==
    LET k == CHOOSE k \in 1..(Len(list) + 1) :
                /\ \A j \in 1..(k - 1) : j \notin stops
                /\ k <= Len(list) => k \in stops
    IN  SubSeq(list, 1, k - 1) \o <<node>> \o SubSeq(list, k, Len(list))

\* Mutant of AddFree: the order of the other list.
AddFreeLow(list, node) ==
    AddBefore(list, {j \in DOMAIN list : list[j].data >= node.data}, node)

\* The block with the most erases comes first.
AddFree(list, node) ==
    AddBefore(list, {j \in DOMAIN list : list[j].data <= node.data}, node)

\* Mutant of AddAlloc: the nodes in front of the new one are lost.
AddAllocAsHead(list, node) ==
    <<node>> \o SelectSeq(list, LAMBDA n : n.data >= node.data)

\* The block with the fewest comes first.
AddAlloc(list, node) ==
    AddBefore(list, {j \in DOMAIN list : list[j].data >= node.data}, node)

\* The places of a block in a list; find_alloc_list takes out the first.
Places(list, b) == {k \in DOMAIN list : list[k].ppa = b}

\* Mutant of Without: the walk starts at the second node.
WithoutSecond(list, b) ==
    LET k == CHOOSE k \in Places(list, b) : \A j \in Places(list, b) : k <= j
    IN  IF k = 1 THEN list ELSE SubSeq(list, 1, k - 1) \o SubSeq(list, k + 1, Len(list))

Without(list, b) ==
    LET k == CHOOSE k \in Places(list, b) : \A j \in Places(list, b) : k <= j
    IN  SubSeq(list, 1, k - 1) \o SubSeq(list, k + 1, Len(list))
=============================================================================
