----------------------------- MODULE MCUplink -----------------------------
EXTENDS Uplink

\* The machine moves about; the link fails twice; both.
Few == {[moves |-> 3, faults |-> 0], [moves |-> 1, faults |-> 1], [moves |-> 0, faults |-> 2]}

\* The times of this instance are of the kind the theorem is about.
ASSUME RoomHere == RoomForRepair
=============================================================================
