----------------------------- MODULE MCOpdMain -----------------------------
(***************************************************************************)
(* Two samples, two dumps and a signal: a dump can find another buffer     *)
(* under way, and a conversion another one that runs or has ended.         *)
(***************************************************************************)
EXTENDS OpdMain
=============================================================================
