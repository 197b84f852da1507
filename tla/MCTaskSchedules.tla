-------------------------- MODULE MCTaskSchedules --------------------------
(***************************************************************************)
(* Instances of TaskSchedules for TLC.                                     *)
(***************************************************************************)
EXTENDS TaskSchedules, TLC

CONSTANTS r1, r2

\* The replicas agree on the time.
SameClock == [r \in Replicas |-> 0]

\* The clock of r1 is one period ahead of the clock of r2.
SkewedClock == [r \in Replicas |-> IF r = r1 THEN 1 ELSE 0]

=============================================================================
