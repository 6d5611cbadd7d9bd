------------------------------- MODULE MCOdb -------------------------------
(***************************************************************************)
(* A sample file that doubles from four nodes to eight, with four keys:    *)
(* the rebuild moves three nodes.  The keys 0, 4 and 8 share a bucket of   *)
(* the first table; 4 parts from the others in the second.                 *)
(***************************************************************************)
EXTENDS Odb

MCKeys == {0, 1, 4, 8}
One == {1}
MCMix(k) == k
\* Where the writer may be killed and leave chains that are in order (killed
\* anywhere else outside of a rebuild or a commit, it leaves what odb_close
\* leaves).
CleanKillPoints == {"creating", "remap", "setup", "link"}
=============================================================================
