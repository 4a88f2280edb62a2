-------------------------- MODULE MCEventTransport --------------------------
(***************************************************************************)
(* Instances of EventTransport for TLC: process and image-load events, the *)
(* two kinds of pop (with and without a test for an empty list), with one  *)
(* process exit, and a buffer that holds one record of each type or two of *)
(* the smaller one, so that batches are cut by STATUS_NO_MEMORY.           *)
(***************************************************************************)
EXTENDS EventTransport

CONSTANTS proc, image,          \* the two types
          create, exit, load1, load2

MCTypes == {proc, image}
MCTypeOf == [e \in Records |-> IF e \in {create, exit} THEN proc ELSE image]
MCSizeOf == [t \in MCTypes |-> IF t = proc THEN 3 ELSE 2]
=============================================================================
