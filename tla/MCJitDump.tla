------------------------------ MODULE MCJitDump -----------------------------
(***************************************************************************)
(* Two threads or one, and one piece of code.  (Code that lies across      *)
(* other code is a subject of MCReports.)                                  *)
(***************************************************************************)
EXTENDS JitDump

MCLoads == {[vma |-> 1, size |-> 1, name |-> "f"]}

=============================================================================
