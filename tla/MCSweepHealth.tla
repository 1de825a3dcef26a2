---------------------------- MODULE MCSweepHealth ----------------------------
(* Three programs, intervals of none and of two ticks of the clock, and a  *)
(* drain that handles none, one or two programs a cycle.                    *)
EXTENDS SweepHealth

CONSTANTS p1, p2, p3

MCPrograms == {p1, p2, p3}
MCIntervals == {0, 2}
MCCaps == {0, 1, 2}
=============================================================================
