---------------------------- MODULE SymbolReport ----------------------------
(***************************************************************************)
(* From sample files to what opreport, opannotate and opgprof print: the   *)
(* samples of an image are given to its symbols (profile.cpp,              *)
(* profile_container.cpp, populate.cpp), call graph arcs to pairs of       *)
(* symbols (callgraph_container.cpp), two profiles are compared            *)
(* (diff_container.cpp) and instructions annotated (opannotate.cpp).       *)
(*                                                                         *)
(* A sample file is a record [version, mtime, is_kernel, anon_start,       *)
(* counts], with counts a function from key to count.  In a call graph's   *)
(* file a key is <<caller, callee>>, and cg_to_is_kernel and               *)
(* cg_to_anon_start are of the callee.                                     *)
(***************************************************************************)
EXTENDS BinaryImages

CONSTANT U16  \* one more than the largest value of a u16 (a bin of opgprof's histogram)

SumOf(f, S) == MapThenSumSet(LAMBDA x : f[x], S)
CountAt(f, x) == IF x \in DOMAIN f THEN f[x] ELSE 0
AddCounts(f, g) == [x \in DOMAIN f \cup DOMAIN g |-> CountAt(f, x) + CountAt(g, x)]

-----------------------------------------------------------------------------
(* profile.cpp and op_header.cpp                                           *)

sample_count(file) == SumOf(file.counts, DOMAIN file.counts)

\* add_sample_file for each file of a slot list, and populate_from_files: files of call
\* graphs only are passed over.
add_sample_files(files) == FoldLeft(LAMBDA c, f : AddCounts(c, f.counts), <<>>, files)

\* set_offset: the one of the file that was added last.
set_offset(b, files) ==
  IF ~b.valid \/ files = <<>> THEN 0
  ELSE IF Last(files).anon_start # 0 THEN Last(files).anon_start
  ELSE IF Last(files).is_kernel THEN get_start_offset(b) ELSE 0

\* Mistake: the end is taken as part of the symbol.
samples_range_Closed(counts, offset, r) ==
  IF r.start < offset THEN {} ELSE {k \in DOMAIN counts : r.start <= k + offset /\ k + offset <= r.end}

\* samples_range: the keys of a symbol.
samples_range(counts, offset, r) ==
  IF r.start < offset THEN {} ELSE {k \in DOMAIN counts : r.start <= k + offset /\ k + offset < r.end}

-----------------------------------------------------------------------------
(* profile_container.cpp: symbols are told apart by image, application,    *)
(* name, address and size.                                                 *)

EmptyContainer == [symbols |-> <<>>, samples |-> <<>>, total |-> <<>>]
symbol_entry(b, app, sym) ==
  [image |-> b.filename, app |-> app, name |-> sym.name, vma |-> sym.vma, size |-> sym.size]

\* profile_container::add for one class: each symbol with its samples.
add(pc, b, syms, files, app, pclass) ==
  LET counts == add_sample_files(files)
      offset == set_offset(b, files)
      keys(k) == samples_range(counts, offset, get_symbol_range(b, syms[k]))
      hit == {k \in DOMAIN syms : SumOf(counts, keys(k)) # 0}
      entry(k) == symbol_entry(b, app, syms[k])
      start(k) == get_symbol_range(b, syms[k]).start
      new == [x \in {<<entry(k), pclass>> : k \in hit} |->
                SumOf(counts, keys(CHOOSE k \in hit : <<entry(k), pclass>> = x))]
      at(k, key) == <<entry(k), key + offset - start(k) + syms[k].vma, pclass>>
      detail == UNION {{<<at(k, key), counts[key]>> : key \in keys(k)} : k \in hit}
      samples == [x \in {d[1] : d \in detail} |-> (CHOOSE d \in detail : d[1] = x)[2]]
  IN [symbols |-> AddCounts(pc.symbols, new), samples |-> AddCounts(pc.samples, samples),
      total |-> AddCounts(pc.total, [c \in {pclass} |-> SumOf(new, DOMAIN new)])]

\* populate_for_image: groups is, for each class, the sequence of [app, files].
populate_for_image(pc, b, syms, groups) ==
  FoldLeft(LAMBDA p, c :
             FoldLeft(LAMBDA q, set : IF set.files = <<>> THEN q
                                      ELSE add(q, b, syms, set.files, set.app, c), p, groups[c]),
           pc, [c \in DOMAIN groups |-> c])

SymbolsOf(pc) == {x[1] : x \in DOMAIN pc.symbols}
CountOf(pc, sym, pclass) == CountAt(pc.symbols, <<sym, pclass>>)

\* select_symbols: by the share of the first class, in percent.
AtLeast(count, total, percent) == IF total = 0 THEN percent = 0 ELSE count * 100 >= percent * total
select_symbols(pc, threshold) ==
  {s \in SymbolsOf(pc) : AtLeast(CountOf(pc, s, 1), CountAt(pc.total, 1), threshold)}

\* accumulate_samples: the samples whose line is in a file, or is one line of it.  line is
\* what get_linenr gives for a sample, as a set that has one [file, line] or none.
FileSamples(pc, file, line, pclass) ==
  {x \in DOMAIN pc.samples : x[3] = pclass /\ \E l \in line[x] : l.file = file}
LineSamples(pc, file, n, line, pclass) ==
  {x \in FileSamples(pc, file, line, pclass) : \E l \in line[x] : l.line = n}
select_filename(pc, line, threshold) ==
  {f \in UNION {{l.file : l \in line[x]} : x \in DOMAIN pc.samples} :
     AtLeast(SumOf(pc.samples, FileSamples(pc, f, line, 1)), CountAt(pc.total, 1), threshold)}

\* do_output_one_file: the count of each line of a source file that is n lines long, after
\* what is credited to line 0.
do_output_one_file(pc, file, n, line, pclass) ==
  [k \in 0..n |-> SumOf(pc.samples, LineSamples(pc, file, k, line, pclass))]

\* opreport's summary: the samples of plain files, whatever symbol they are in.
add_files(files) == FoldLeft(LAMBDA n, f : n + sample_count(f), 0, files)
summary_container(groups) ==
  [c \in DOMAIN groups |-> FoldLeft(LAMBDA n, set : n + add_files(set.files), 0, groups[c])]

-----------------------------------------------------------------------------
(* callgraph_container.cpp                                                 *)

\* get_symbol_by_filepos: the last symbol that does not begin after the offset, else the
\* first; as the set of its index, empty if the offset is past its end.
get_symbol_by_filepos(syms, offset) ==
  LET before == {k \in DOMAIN syms : syms[k].filepos <= offset}
      k == IF before = {} THEN 1 ELSE Max(before)
  IN IF offset >= syms[k].filepos + syms[k].size THEN {} ELSE {k}

\* caller_sym: the arcs out of a symbol; a symbol at the start of the section has none.
caller_arcs(b, sym, counts, boffset) ==
  LET r == get_symbol_range(b, sym)
  IN IF r.start <= boffset THEN {}
     ELSE {key \in DOMAIN counts : r.start <= key[1] + boffset /\ key[1] + boffset < r.end}

\* callgraph_container::add: what is recorded for each pair of symbols of a file.
CallerOffset(b, file) == IF file.is_kernel THEN get_start_offset(b) ELSE file.anon_start
CalleeOffset(b, file) == IF file.cg_to_is_kernel THEN get_start_offset(b) ELSE file.cg_to_anon_start
cg_add(b, syms, c, csyms, file, app) ==
  LET from(k) == caller_arcs(b, syms[k], file.counts, CallerOffset(b, file))
      callee(key) == get_symbol_by_filepos(csyms, key[2] + CalleeOffset(c, file))
      arcs == {<<k, j>> \in (DOMAIN syms) \X (DOMAIN csyms) : \E key \in from(k) : callee(key) = {j}}
      arc(a) == <<symbol_entry(b, app, syms[a[1]]), symbol_entry(c, app, csyms[a[2]])>>
  IN IF file.is_kernel /\ ~b.valid THEN <<>>
     ELSE [x \in {arc(a) : a \in arcs} |->
             LET a == CHOOSE a \in arcs : arc(a) = x
             IN SumOf(file.counts, {key \in from(a[1]) : callee(key) = {a[2]}})]

\* arc_recorder: the callers and callees of a symbol, with itself as a callee.
CallersOf(arcs, sym) == {x[1] : x \in {y \in DOMAIN arcs : y[2] = sym}}
CalleesOf(arcs, sym) == {x[2] : x \in {y \in DOMAIN arcs : y[1] = sym}}
TotalCallers(arcs, sym) == SumOf(arcs, {y \in DOMAIN arcs : y[2] = sym})
TotalCallees(arcs, sym, self) == SumOf(arcs, {y \in DOMAIN arcs : y[1] = sym}) + self

\* process_children: callers below the threshold are not shown, unless all are; callees
\* from the first that is below on are not, be it a function or the symbol itself.
ShownCallers(arcs, sym, threshold) ==
  LET big == {c \in CallersOf(arcs, sym) :
                AtLeast(arcs[<<c, sym>>], TotalCallers(arcs, sym), threshold)}
  IN IF big = {} THEN CallersOf(arcs, sym) ELSE big
ShownCallees(arcs, sym, self, threshold) ==
  {c \in CalleesOf(arcs, sym) :
     AtLeast(arcs[<<sym, c>>], TotalCallees(arcs, sym, self), threshold)}

\* process: symbols below the threshold are left out with their arcs.
ShownSymbols(pc, arcs, threshold) ==
  {s \in SymbolsOf(pc) \cup {x[1] : x \in DOMAIN arcs} \cup {x[2] : x \in DOMAIN arcs} :
     AtLeast(CountOf(pc, s, 1), CountAt(pc.total, 1), threshold)}

-----------------------------------------------------------------------------
(* diff_container.cpp: the symbols of two profiles, in the order of        *)
(* less_symbol, are paired by image, application and name.                 *)

SameName(s, t) == s.image = t.image /\ s.app = t.app /\ s.name = t.name
\* Of n symbols of a name in the old profile and m in the new one, the first min(n, m)
\* are compared; the rest is old or new.
DiffSymbols(pc1, pc2) ==
  LET rank(pc, s) == Cardinality({t \in SymbolsOf(pc) : SameName(s, t) /\ t.vma < s.vma})
      peer(pc, other, s) == {t \in SymbolsOf(other) : SameName(s, t) /\ rank(other, t) = rank(pc, s)}
  IN [old |-> {s \in SymbolsOf(pc1) : peer(pc1, pc2, s) = {}},
      new |-> {s \in SymbolsOf(pc2) : peer(pc2, pc1, s) = {}},
      both |-> UNION {{<<s, t>> : t \in peer(pc1, pc2, s)} : s \in SymbolsOf(pc1)}]

-----------------------------------------------------------------------------
(* opannotate.cpp: lines is the sequence of the addresses of objdump's     *)
(* instructions of one symbol, counts the symbol's samples by address.     *)

\* Mistake: a sample inside an instruction is given to the one after it.
asm_list_annotation_Next(lines, counts, a) ==
  LET left == {v \in DOMAIN counts : v \notin a.done}
      use == [a EXCEPT !.done = @ \cup {Min(left)}, !.annot[a.line] = @ + counts[Min(left)]]
  IN IF left = {} \/ Min(left) > lines[a.line] THEN [a EXCEPT !.line = @ + 1]
     ELSE IF Min(left) = lines[a.line] THEN [use EXCEPT !.line = @ + 1] ELSE use

\* asm_list_annotation for one turn: a is [line, done, annot], done the samples used and
\* annot the count of each line.
asm_list_annotation(lines, counts, a) ==
  LET left == {v \in DOMAIN counts : v \notin a.done}
      v == Min(left)
      at == lines[a.line]
      prev == a.line - 1
      use(l) == [a EXCEPT !.done = @ \cup {v}, !.annot[l] = @ + counts[v]]
  IN IF left = {} \/ v > at THEN [a EXCEPT !.line = @ + 1]
     ELSE IF v = at THEN [use(a.line) EXCEPT !.line = @ + 1]
     ELSE IF prev > 0 THEN use(prev)
     ELSE [a EXCEPT !.done = @ \cup {v}, !.line = @ + 1]
AsmWalk(lines, counts) ==
  LET turns == Len(lines) + Cardinality(DOMAIN counts)
  IN FoldLeft(LAMBDA a, t : IF a.line > Len(lines) THEN a ELSE asm_list_annotation(lines, counts, a),
              [line |-> 1, done |-> {}, annot |-> [l \in DOMAIN lines |-> 0]],
              [t \in 1..turns |-> t])

-----------------------------------------------------------------------------
(* opgprof.cpp                                                             *)

RoundDown(n, m) == (n \div m) * m
\* Mistake: the end is not rounded up.
output_gprof_NoRound(pc, pclass) ==
  LET vmas == {x[2] : x \in DOMAIN pc.samples}
      multiplier == IF \A v \in vmas : v % 4 = 0 THEN 8 ELSE 2
      low == IF vmas = {} THEN 0 ELSE RoundDown(Min(vmas), multiplier)
      high == IF vmas = {} \/ Max(vmas) = 0 THEN 0 ELSE RoundDown(Max(vmas), multiplier)
      bin(k) == {x \in DOMAIN pc.samples : (x[2] - low) \div multiplier = k}
      cap(n) == IF n > U16 - 1 THEN U16 - 1 ELSE n
  IN [low |-> low, high |-> high, multiplier |-> multiplier,
      hist |-> [k \in 0..((high - low) \div multiplier) - 1 |-> cap(SumOf(pc.samples, bin(k)))]]

\* The histogram's bins, capped at the largest u16; the threshold is 0.
output_gprof(pc, pclass) ==
  LET vmas == {x[2] : x \in DOMAIN pc.samples}
      multiplier == IF \A v \in vmas : v % 4 = 0 THEN 8 ELSE 2
      low == IF vmas = {} THEN 0 ELSE RoundDown(Min(vmas), multiplier)
      high == IF vmas = {} \/ Max(vmas) = 0 THEN 0 ELSE RoundDown(Max(vmas) + multiplier, multiplier)
      bin(k) == {x \in DOMAIN pc.samples : (x[2] - low) \div multiplier = k}
      cap(n) == IF n > U16 - 1 THEN U16 - 1 ELSE n
  IN [low |-> low, high |-> high, multiplier |-> multiplier,
      hist |-> [k \in 0..((high - low) \div multiplier) - 1 |-> cap(SumOf(pc.samples, bin(k)))]]

-----------------------------------------------------------------------------
(* What a report has to be.                                                *)

\* The samples of a class that are in the range of a symbol
InSomeSymbol(b, syms, key, off) ==
  \E k \in DOMAIN syms : LET r == get_symbol_range(b, syms[k])
                         IN r.start >= off /\ r.start <= key + off /\ key + off < r.end
InSymbols(b, syms, counts, off) ==
  SumOf(counts, {key \in DOMAIN counts : InSomeSymbol(b, syms, key, off)})
Expected(b, syms, sets) ==
  MapThenSumSet(LAMBDA i : InSymbols(b, syms, add_sample_files(sets[i].files), set_offset(b, sets[i].files)),
                DOMAIN sets)

\* Class c of a container has n samples, each with a symbol that it is in.
ClassConserved(pc, c, n) ==
  LET mine == {x \in DOMAIN pc.samples : x[3] = c}
  IN /\ CountAt(pc.total, c) = n
     /\ SumOf(pc.samples, mine) = n
     /\ \A s \in SymbolsOf(pc) :
          /\ CountOf(pc, s, c) = SumOf(pc.samples, {x \in mine : x[1] = s})
          /\ \A x \in mine : x[1] = s => s.vma <= x[2] /\ x[2] < s.vma + s.size
     /\ MapThenSumSet(LAMBDA s : CountOf(pc, s, c), SymbolsOf(pc)) = n
Conserved(b, syms, groups, pc) ==
  /\ select_symbols(pc, 0) = SymbolsOf(pc)
  /\ \A c \in DOMAIN groups : ClassConserved(pc, c, Expected(b, syms, groups[c]))

\* Every sample of a profile is with the one symbol whose range it is in, at its address,
\* and the totals are the sums of their parts.
SamplesConserved(b, syms, groups) ==
  Conserved(b, syms, groups, populate_for_image(EmptyContainer, b, syms, groups))

\* Every arc is between the two symbols that it is from and to, and counted once with each.
\* Arcs out of a symbol at the start of its section are left out, and arcs to what is
\* before the first symbol are taken to be to that.
ArcsConserved(b, syms, file) ==
  LET arcs == cg_add(b, syms, b, syms, file, "a")
      from == CallerOffset(b, file)
      to == CalleeOffset(b, file)
      inside(k, at) == get_symbol_range(b, syms[k]).start <= at /\ at < get_symbol_range(b, syms[k]).end
      caller(key) == {k \in DOMAIN syms : get_symbol_range(b, syms[k]).start > from /\ inside(k, key[1] + from)}
      callee(key) == {k \in DOMAIN syms : \/ inside(k, key[2] + to)
                                          \/ k = 1 /\ key[2] + to < syms[1].filepos}
      pair(k, j) == <<symbol_entry(b, "a", syms[k]), symbol_entry(b, "a", syms[j])>>
      nodes == {symbol_entry(b, "a", syms[k]) : k \in DOMAIN syms}
      known == {key \in DOMAIN file.counts : caller(key) # {} /\ callee(key) # {}}
  IN /\ \A k, j \in DOMAIN syms :
          CountAt(arcs, pair(k, j)) = SumOf(file.counts, {key \in known : k \in caller(key) /\ j \in callee(key)})
     /\ MapThenSumSet(LAMBDA n : TotalCallers(arcs, n), nodes) = SumOf(file.counts, known)
     /\ MapThenSumSet(LAMBDA n : TotalCallees(arcs, n, 0), nodes) = SumOf(file.counts, known)
     /\ \A n \in nodes, threshold \in {0, 60} :
          /\ CallersOf(arcs, n) # {} => ShownCallers(arcs, n, threshold) # {}
          /\ ShownCallers(arcs, n, 0) = CallersOf(arcs, n)
          /\ ShownCallees(arcs, n, 0, 0) = CalleesOf(arcs, n)
     /\ ShownSymbols(EmptyContainer, arcs, 0) = UNION {{x[1], x[2]} : x \in DOMAIN arcs}

GprofKept(pc, g) ==
  LET bin(x) == (x[2] - g.low) \div g.multiplier
  IN /\ \A x \in DOMAIN pc.samples : bin(x) \in DOMAIN g.hist /\ g.hist[bin(x)] > 0
     /\ SumOf(g.hist, DOMAIN g.hist) <= CountAt(pc.total, 1)
     /\ (\A k \in DOMAIN g.hist : g.hist[k] < U16 - 1) =>
          SumOf(g.hist, DOMAIN g.hist) = CountAt(pc.total, 1)
DiffComplete(pc1, pc2, d) ==
  LET left == {p[1] : p \in d.both}
      right == {p[2] : p \in d.both}
  IN /\ left \cup d.old = SymbolsOf(pc1) /\ left \cap d.old = {}
     /\ right \cup d.new = SymbolsOf(pc2) /\ right \cap d.new = {}
     /\ \A p \in d.both : SameName(p[1], p[2])
     /\ Cardinality(left) = Cardinality(d.both) /\ Cardinality(right) = Cardinality(d.both)
Consistent(one, two, pc1, pc2) ==
  /\ summary_container(<<<<one, two>>>>)[1] = add_files(one.files) + add_files(two.files)
  /\ summary_container(<<<<one>>>>)[1] >= CountAt(pc1.total, 1)
  /\ GprofKept(pc1, output_gprof(pc1, 1))
  /\ DiffComplete(pc1, pc2, DiffSymbols(pc1, pc2))

\* What the tools say of one profile agrees: the summary has each sample, the histogram
\* of opgprof each that is in a symbol, at its address, up to what a bin can hold, and a
\* comparison each symbol of either profile, once.
ReportsConsistent(b, syms, one, two) ==
  Consistent(one, two, populate_for_image(EmptyContainer, b, syms, <<<<one>>>>),
             populate_for_image(EmptyContainer, b, syms, <<<<two>>>>))

\* In a source file every sample is at its line, or at line 0; the lines are those of the
\* samples' addresses.
SourceAnnotated(pc, n, line) ==
  \A file \in select_filename(pc, line, 0) :
    LET out == do_output_one_file(pc, file, n, line, 1)
    IN SumOf(out, DOMAIN out) = SumOf(pc.samples, FileSamples(pc, file, line, 1))

\* Instructions: a sample is with the last one that does not begin after it; those
\* inside the last instruction are left out.
AsmAnnotated(lines, counts) ==
  LET a == AsmWalk(lines, counts)
      owner(v) == Max({l \in DOMAIN lines : lines[l] <= v})
  IN lines # <<>> /\ (\A v \in DOMAIN counts : v >= lines[1]) =>
       \A l \in DOMAIN lines :
         a.annot[l] = SumOf(counts, {v \in DOMAIN counts :
                                       owner(v) = l /\ (v = lines[l] \/ l < Len(lines))})

=============================================================================
