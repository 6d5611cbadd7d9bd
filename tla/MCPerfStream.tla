---------------------------- MODULE MCPerfStream ----------------------------
(***************************************************************************)
(* Two threads of one process, two processors, two events; rings and a     *)
(* pipe that are smaller than two records.                                 *)
(***************************************************************************)
EXTENDS PerfStream
MCTgid == [t \in 1..2 |-> 1]
=============================================================================
