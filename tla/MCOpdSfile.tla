---------------------------- MODULE MCOpdSfile ----------------------------
(***************************************************************************)
(* One sfile of a kernel image and two others share a table of three open  *)
(* files: an sfile and its arcs can fill it, and two sfiles in use leave   *)
(* at most one to evict.                                                   *)
(***************************************************************************)
EXTENDS OpdSfile
=============================================================================
