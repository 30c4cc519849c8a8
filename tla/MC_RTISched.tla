---------------------------- MODULE MC_RTISched ----------------------------
(* Two federates joined by an RTILink in each direction; federate f1 halts *)
(* at time 3, f2 runs until its queue is empty.                            *)
EXTENDS RTISched

CONSTANTS f1, f2

MC_Fed == {f1, f2}
MC_LinkDelay == [f \in MC_Fed |-> IF f = f1 THEN 2 ELSE 1]
MC_HaltAt == [f \in MC_Fed |-> IF f = f1 THEN 3 ELSE NoHalt]
=============================================================================
