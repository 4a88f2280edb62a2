--------------------------- MODULE MCUdpContexts ---------------------------
(***************************************************************************)
(* Instances of UdpContexts for TLC.                                       *)
(***************************************************************************)
EXTENDS UdpContexts, TLC

CONSTANTS k1, k2, e1, e2

\* The threads of the callouts are interchangeable.
MCSymmetry == Permutations({k1, k2})
=============================================================================
