---------------------------- MODULE SampleCounts ----------------------------
(***************************************************************************)
(* What a sample file promises to its users: a finite map from keys        *)
(* (instruction offsets, or caller/callee pairs) to sample counts, changed *)
(* only by adding an amount to the count of one key.  Nothing is said      *)
(* about nodes, chains, growth or files: module Odb implements this.       *)
(***************************************************************************)
EXTENDS Naturals

CONSTANTS Keys,       \* keys that may be counted
          Offsets,    \* amounts that may be added
          Plus(_, _)  \* the arithmetic of one addition to a stored count

VARIABLE counts

Init == counts = [k \in Keys |-> 0]

Add(k, offset) == counts' = [counts EXCEPT ![k] = Plus(counts[k], offset)]

Next == \E k \in Keys, offset \in Offsets : Add(k, offset)

Spec == Init /\ [][Next]_counts
=============================================================================
