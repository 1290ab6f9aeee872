------------------------------ MODULE IoSched ------------------------------
(***************************************************************************)
(* Coordinated I/O scheduling in a vSSD (vssd_code/rb_nexus.c): run_net    *)
(* predicts the network latency from a window of measured ones, gives each *)
(* read and write a priority and inserts it into dev_q, a list sorted by   *)
(* priority; run_worker takes the node at the tail.                        *)
(*                                                                         *)
(* sliding_window is a double.  All it is built from are multiples of      *)
(* 1/WINDOW_SZ, so it is kept here as that many times its value, exactly;  *)
(* idle_time, with alpha one half, is kept as unit times its value.        *)
(***************************************************************************)
EXTENDS Integers, Sequences, Functions

CONSTANTS
    WINDOW_SZ,      \* latencies in the window (100)
    MaxLat,         \* measured latencies, which the server computes, are 0..MaxLat
    MaxNow,         \* bound: the clock
    MaxArrivals     \* bound: requests

ASSUME IoAssumption ==
    /\ WINDOW_SZ \in Nat \ {0} /\ MaxLat \in Nat
    /\ MaxNow \in Nat /\ MaxArrivals \in Nat

Slots == 0..(WINDOW_SZ - 1)
Lats  == 0..MaxLat

VARIABLES
    now,            \* CLOCK_REALTIME, taken not to go backwards
    window_vals, win_ptr,
    sliding,        \* WINDOW_SZ * sliding_window
    prev_ns,
    idle, unit,     \* unit * idle_time, and the unit
    dev_q,          \* the list from head to tail
    arrived,        \* number of requests received
    popped          \* the request run_worker took last, or Nothing

vars == <<now, window_vals, win_ptr, sliding, prev_ns, idle, unit, dev_q, arrived, popped>>

Nothing == [n |-> -1, prio |-> 0, at |-> 0]

Init ==
    /\ now = 1
    /\ window_vals = [s \in Slots |-> 0] /\ win_ptr = 0 /\ sliding = 0
    /\ prev_ns = 0 /\ idle = 0 /\ unit = 1
    /\ dev_q = <<>> /\ arrived = 0 /\ popped = Nothing

\* A double becomes an integer towards zero (also when it is negative, which
\* the conversion to uint64_t leaves to the build: the two wrap alike).
Trunc(scaled) ==
    IF scaled >= 0 THEN scaled \div WINDOW_SZ ELSE -((-scaled) \div WINDOW_SZ)

\* Mutant of Slide: the value leaving is not taken out.
SlideKeeping(lat) == sliding + WINDOW_SZ * (lat \div WINDOW_SZ)

\* The value leaving the window is divided as a double, the one entering it
\* as an integer.
Slide(lat) == sliding - window_vals[win_ptr] + WINDOW_SZ * (lat \div WINDOW_SZ)

\* Mutant of Priority: the time is not counted.
LatencyOnly(lat) == Trunc(WINDOW_SZ * lat + Slide(lat))

\* msg->lat, with the prediction added, less the time.
Priority(lat) == Trunc(WINDOW_SZ * lat + Slide(lat)) - now

NextSlot == (win_ptr + 1) % WINDOW_SZ

InsertAt(k, e) == SubSeq(dev_q, 1, k - 1) \o <<e>> \o SubSeq(dev_q, k, Len(dev_q))

\* Mutant of Sorted: it goes on past the nodes of the same priority.
SortedPast(e) ==
    InsertAt(CHOOSE i \in 1..(Len(dev_q) + 1) :
                /\ \A j \in 1..(i - 1) : e.prio >= dev_q[j].prio
                /\ i <= Len(dev_q) => e.prio < dev_q[i].prio, e)

\* insert_list_sorted: on from the head while the next node has a lower
\* priority, so in front of those that have the same.
Sorted(e) ==
    InsertAt(CHOOSE i \in 1..(Len(dev_q) + 1) :
                /\ \A j \in 1..(i - 1) : e.prio > dev_q[j].prio
                /\ i <= Len(dev_q) => e.prio <= dev_q[i].prio, e)

\* run_net receives a read or a write.
Receive(lat) ==
    /\ arrived < MaxArrivals
    /\ sliding' = Slide(lat)
    /\ window_vals' = [window_vals EXCEPT ![win_ptr] = lat]
    /\ win_ptr' = NextSlot
    /\ idle' = idle + unit * (IF prev_ns = 0 THEN 0 ELSE now - prev_ns)
    /\ unit' = 2 * unit
    /\ prev_ns' = now
    /\ dev_q' = Sorted([n |-> arrived, prio |-> Priority(lat), at |-> now])
    /\ arrived' = arrived + 1
    /\ UNCHANGED <<now, popped>>

\* run_worker: remove_list_tail.
Take ==
    /\ dev_q # <<>>
    /\ popped' = dev_q[Len(dev_q)]
    /\ dev_q' = SubSeq(dev_q, 1, Len(dev_q) - 1)
    /\ UNCHANGED <<now, window_vals, win_ptr, sliding, prev_ns, idle, unit, arrived>>

Tick ==
    /\ now < MaxNow
    /\ now' = now + 1
    /\ UNCHANGED <<window_vals, win_ptr, sliding, prev_ns, idle, unit, dev_q, arrived, popped>>

Next == (\E lat \in Lats : Receive(lat)) \/ Take \/ Tick

Spec == Init /\ [][Next]_vars

----------------------------------------------------------------------------
(* Properties *)

Request == [n : Nat, prio : Int, at : Nat]

\* Every variable has its type.
IoTypeOK ==
    /\ now \in Nat \ {0} /\ prev_ns \in 0..now /\ idle \in Nat /\ unit \in Nat
    /\ window_vals \in [Slots -> Lats] /\ win_ptr \in Slots /\ sliding \in Int
    /\ dev_q \in Seq(Request) /\ arrived \in Nat
    /\ popped \in Request \cup {Nothing}

\* dev_q is a priority queue that is first in, first out among equals: the
\* list built by insert_list_sorted and remove_list_tail (rb_nexus.c:63-90).
PQ == INSTANCE PrioQueue WITH
        waiting <- {[n |-> dev_q[i].n, prio |-> dev_q[i].prio] : i \in DOMAIN dev_q},
        arrived <- arrived
ServesByPriority == PQ!Spec

\* No request is starved by later ones: the worker never takes one while
\* another waits that came more than twice the largest latency earlier, however
\* far the prediction has moved in between (rb_nexus.c:157-161).
AgeWins ==
    [][popped' # popped =>
        \A i \in DOMAIN dev_q : popped'.at - dev_q[i].at <= 2 * MaxLat]_vars

\* The prediction never exceeds the mean of the window's latencies: what
\* integer division leaves out on the way in is never put back
\* (rb_nexus.c:153-155).
NeverAboveMean == sliding <= SumFunction(window_vals)
=============================================================================
