------------------------- MODULE MCMonitorControl -------------------------
(***************************************************************************)
(* Instances of MonitorControl for TLC: which commands are given, and what *)
(* may fail, differ from run to run.                                       *)
(***************************************************************************)
EXTENDS MonitorControl, TLC

CONSTANTS a1, a2, directory, process, h1, h2, w1, w2

\* The two commanding threads and the two handles are interchangeable.
MCSymmetry == Permutations({a1, a2}) \cup Permutations({h1, h2})
=============================================================================
