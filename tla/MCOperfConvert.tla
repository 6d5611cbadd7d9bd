--------------------------- MODULE MCOperfConvert ---------------------------
(***************************************************************************)
(* Three processes, one forked by the other or two by the first, a place   *)
(* for a file and one for a heap, which the file "g" overlaps; the name in *)
(* the COMM record is that of file "f", "g" shares a letter.  Samples of   *)
(* the event 2 are dropped in user code, and no event has the id 9.        *)
(***************************************************************************)
EXTENDS OperfConvert

Sym(name, addr) == [name |-> name, addr |-> addr]
Mod(name, addr, bad) == [name |-> name, addr |-> addr, size |-> 2, bad |-> bad]
Shown == <<Sym("_text", 900), Sym("other", 901), Sym("_etext", 902)>>
Kernel0 == [file |-> <<>>, kallsyms |-> Shown, kptr_restrict |-> FALSE,
            modules |-> <<Mod("bad", 940, TRUE), Mod("module", 950, FALSE)>>]
MCKernels ==
  {Kernel0, [Kernel0 EXCEPT !.file = <<[text |-> 900, _etext |-> 902]>>],
   [Kernel0 EXCEPT !.file = <<[text |-> 900, _etext |-> -1]>>],
   [Kernel0 EXCEPT !.kallsyms = <<Sym("_text", 0), Sym("_etext", 0)>>],
   [Kernel0 EXCEPT !.kallsyms = <<Sym("other", 900)>>],
   [Kernel0 EXCEPT !.kallsyms = Tail(@)],
   [Kernel0 EXCEPT !.modules = @ \o <<Mod("hidden", 0, FALSE), Mod("late", 960, FALSE)>>]}

MCLength == [n \in {"comm", "unknown", "f", "g", "app_name", "exe"} |->
               IF n \in {"comm", "f", "g"} THEN 2 ELSE 3]
MCMatching ==
  [n \in DOMAIN MCLength |->
     [f \in {"f", "g"} |-> IF n \notin {"comm", "f", "g"} THEN -1
                      ELSE IF n = f \/ (n = "comm" /\ f = "f") THEN 2 ELSE 1]]
MCEventOf == [i \in {7, 8, 9} |-> IF i = 9 THEN -1 ELSE i - 6]
MCMapped ==
  {[file |-> "f", start |-> 10, end |-> 11, anon |-> FALSE],
   [file |-> "g", start |-> 10, end |-> 21, anon |-> FALSE]}
  \cup {[file |-> "[heap]", start |-> 20, end |-> e, anon |-> TRUE] : e \in {20, 21}}

At(pid, tid, cpu, ip, id, callers) ==
  [pid |-> pid, tid |-> tid, cpu |-> cpu, ip |-> ip, kernel |-> ip >= 900, id |-> id,
   chain |-> [i \in DOMAIN callers |-> [ip |-> callers[i], kernel |-> callers[i] >= 900]]]
MCSamples ==
  {At(1, 1, 0, 11, 7, <<>>), At(1, 101, 1, 11, 7, <<>>), At(1, 1, 0, 21, 7, <<11>>),
   At(1, 1, 0, 11, 8, <<>>), At(1, 1, 0, 11, 9, <<>>), At(2, 2, 0, 11, 7, <<31, 951>>),
   At(2, 2, 0, 951, 7, <<>>), At(0, 0, 0, 900, 7, <<>>), At(3, 3, 0, 11, 7, <<>>)}
=============================================================================
