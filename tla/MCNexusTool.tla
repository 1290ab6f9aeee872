---------------------------- MODULE MCNexusTool -----------------------------
EXTENDS NexusTool
MCHwMasks == {{0}, {0, 1}}
MCDrives ==
    {[p \in Plane |-> {}]} \cup
    {[p \in Plane |-> IF p = q THEN {g} ELSE {}] : q \in Plane, g \in {"pg0_ep0", "pg0_ep3", "pg257_ep3"}}
MCLater == {"badblock", "ersblock", "ersall"}
=============================================================================
