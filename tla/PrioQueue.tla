----------------------------- MODULE PrioQueue -----------------------------
(***************************************************************************)
(* What dev_q promises to run_worker: the request taken is the one of the  *)
(* highest priority, the oldest of them when there are several.            *)
(***************************************************************************)
EXTENDS Integers

VARIABLES
    waiting,    \* [n: arrival number, prio: priority] of each waiting request
    arrived     \* how many have arrived

Init == waiting = {} /\ arrived = 0

Push(p) ==
    /\ waiting' = waiting \cup {[n |-> arrived, prio |-> p]}
    /\ arrived' = arrived + 1

First(r) ==
    \A s \in waiting : s.prio < r.prio \/ (s.prio = r.prio /\ s.n >= r.n)

Pop(r) ==
    /\ r \in waiting /\ First(r)
    /\ waiting' = waiting \ {r}
    /\ UNCHANGED arrived

\* The priority of a new request is that of a member of waiting': TLC need not
\* enumerate the integers.
Next ==
    \/ \E r \in waiting' : Push(r.prio)
    \/ \E r \in waiting : Pop(r)

Spec == Init /\ [][Next]_<<waiting, arrived>>
=============================================================================
