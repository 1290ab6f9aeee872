------------------------------ MODULE MCHosts ------------------------------
(* An instance of Hosts for TLC: hosts with one or two lcores and ports. *)
EXTENDS Hosts, TLC

Machine(ls, found, mask) == [lcores |-> ls, found |-> found, mask |-> mask]

\* Two lcores on two ports and on one, one lcore on one port, and every way in
\* which init refuses a machine.
Options == {Machine({0, 1}, {0, 1}, {0, 1}), Machine({0, 1}, {0, 1}, {1}),
            Machine({0}, {0}, {0, 1}),
            Machine({0, 1}, {}, {0}), Machine({0, 1}, {0}, {}),
            Machine({0}, {0, 1}, {0, 1}), Machine({}, {0}, {0})}
TwoDisks == {1, 2}
ShortTrace == <<1, 2, 0>>
Asked == {2, 3, 4}
Awaited == {2}
PortOf == <<0, 1>>
=============================================================================
