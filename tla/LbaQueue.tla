------------------------------ MODULE LbaQueue ------------------------------
(***************************************************************************)
(* The ring of vssd_code/queue.c that holds a vSSD's free lbas, called by  *)
(* one thread at a time.  (VssdBlocks has two threads dequeue at once.)    *)
(***************************************************************************)
EXTENDS Integers, Sequences

CONSTANTS
    Capacity,   \* max_element
    Elements,   \* the ints it is to hold
    Junk        \* what malloc leaves in the elements

ASSUME QueueAssumption ==
    /\ Capacity \in Nat \ {0}
    /\ Elements \subseteq Int /\ Junk \in Int

Refused == -1
Index == 0..(Capacity - 1)

VARIABLES
    elements, front, tail, size,
    ret,        \* what the last call returned
    exited      \* front of an empty queue ends the process

queueVars == <<elements, front, tail, size, ret, exited>>

QueueInit ==
    /\ elements = [i \in Index |-> Junk]
    /\ front = 0 /\ tail = -1 /\ size = 0
    /\ ret = 0 /\ exited = FALSE

Wrapped(i) == IF i = Capacity THEN 0 ELSE i

Enqueue(x) ==
    /\ ~exited
    /\ IF size = Capacity
       THEN ret' = Refused /\ UNCHANGED <<elements, tail, size>>
       ELSE /\ size' = size + 1
            /\ tail' = Wrapped(tail + 1)
            /\ elements' = [elements EXCEPT ![Wrapped(tail + 1)] = x]
            /\ ret' = 0
    /\ UNCHANGED <<front, exited>>

\* Mutant of Dequeue: front stays where it is.
DequeueInPlace ==
    /\ ~exited
    /\ IF size = 0
       THEN ret' = Refused /\ UNCHANGED <<front, size>>
       ELSE /\ ret' = elements[front]
            /\ size' = size - 1
            /\ UNCHANGED front
    /\ UNCHANGED <<elements, tail, exited>>

Dequeue ==
    /\ ~exited
    /\ IF size = 0
       THEN ret' = Refused /\ UNCHANGED <<front, size>>
       ELSE /\ ret' = elements[front]
            /\ size' = size - 1
            /\ front' = Wrapped(front + 1)
    /\ UNCHANGED <<elements, tail, exited>>

Front ==
    /\ ~exited
    /\ IF size = 0
       THEN exited' = TRUE /\ UNCHANGED ret
       ELSE ret' = elements[front] /\ UNCHANGED exited
    /\ UNCHANGED <<elements, front, tail, size>>

QueueNext == (\E x \in Elements : Enqueue(x)) \/ Dequeue \/ Front

QueueSpec == QueueInit /\ [][QueueNext]_queueVars

----------------------------------------------------------------------------
(* Properties *)

\* Every variable has its type; neither end of the ring leaves it.
QueueTypeOK ==
    /\ elements \in [Index -> Int]
    /\ front \in Index /\ tail \in Index \cup {-1} /\ size \in 0..Capacity
    /\ ret \in Int /\ exited \in BOOLEAN

\* What the queue holds, oldest first: size elements from front on, around the
\* end of the ring.
Slot(f, i) == IF f + i - 1 < Capacity THEN f + i - 1 ELSE f + i - 1 - Capacity
Around(ring, f, n) == [i \in 1..n |-> ring[Slot(f, i)]]
Contents == Around(elements, front, size)

\* The ring is a queue, first in and first out, that refuses an element exactly
\* when it holds Capacity of them (queue.c:20-67).
FIFO == INSTANCE Fifo WITH contents <- Contents
IsFifo == FIFO!Spec
=============================================================================
