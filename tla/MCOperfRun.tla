----------------------------- MODULE MCOperfRun -----------------------------
(***************************************************************************)
(* Every command line, sessions converted at once or lazily; two records,  *)
(* a pipe that holds one, and one SIGINT at any moment.                    *)
(***************************************************************************)
EXTENDS OperfRun
=============================================================================
