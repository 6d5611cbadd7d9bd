---------------------------- MODULE BinaryImages ----------------------------
(***************************************************************************)
(* Reading a binary for a report: its symbols and their ranges             *)
(* (op_bfd.cpp), the file with its debug information and the source line   *)
(* of an address (bfd_support.cpp).                                        *)
(*                                                                         *)
(* libbfd is external.  A binary is a record: sections is the sequence of  *)
(* its sections [name, vma, filepos, size, code, alloc, owner]; syms its   *)
(* symbols [name, form, sect, value, weak, local, section_sym], where sect *)
(* is an index of sections; form is what the code looks for in a name:     *)
(* "none", "mapping", "local_label", "gcc2", "Letext", "underscore" or     *)
(* "plain".  lines is what bfd_find_nearest_line knows: a function from    *)
(* <<section, offset>> to [file, function, line].                          *)
(***************************************************************************)
EXTENDS Integers, Sequences, FiniteSets, FiniteSetsExt, SequencesExt

NoBinary == [valid |-> FALSE]
MaxFixup == 16   \* max_search in fixup_linenr

-----------------------------------------------------------------------------
(* Symbols                                                                 *)

interesting_symbol(b, s) ==
  /\ b.sections[s.sect].code
  /\ \/ s.form = "none"
     \/ s.form \notin {"mapping", "local_label", "gcc2"} /\ ~s.section_sym

\* A symbol without a name is named after its section.
op_bfd_symbol(b, s) ==
  [name |-> IF s.form = "none" THEN <<"??", b.sections[s.sect].name>> ELSE <<s.name>>,
   form |-> s.form, value |-> s.value, section |-> b.sections[s.sect], size |-> 0,
   filepos |-> s.value + b.sections[s.sect].filepos, vma |-> s.value + b.sections[s.sect].vma,
   hidden |-> s.form # "none" /\ s.local, weak |-> s.form # "none" /\ s.weak, artificial |-> FALSE]

\* Of two symbols at one place, whether the first is the one to drop: the first
\* of these tests that tells them apart decides.
Boredom(s) == <<s.form = "Letext", s.form = "none", s.hidden, s.form = "underscore", s.weak>>
boring_symbol(first, second) ==
  LET f == Boredom(first)
      g == Boredom(second)
  IN \E k \in DOMAIN f : f[k] /\ (k <= 2 \/ ~g[k]) /\ \A j \in 1..k - 1 : f[j] = g[j]

\* Sections that are not .text but at address 0 are left out.
filtered_section(sect) == sect.code /\ sect.vma = 0 /\ sect.name # ".text"

\* Symbols of a debug file get the file positions of the image's sections.
DebugSection(b, sect) ==
  LET same == {t \in Range(b.sections) : t.code /\ t.name = sect.name /\ t.filepos # 0}
  IN IF same = {} THEN sect ELSE [sect EXCEPT !.filepos = (CHOOSE t \in same : TRUE).filepos]
ImageSymbols(b) ==
  LET used == SelectSeq(b.syms, LAMBDA s : interesting_symbol(b, s) /\ ~filtered_section(b.sections[s.sect]))
  IN [k \in DOMAIN used |-> op_bfd_symbol(b, used[k])]
DebugSymbols(b, d) ==
  LET used == SelectSeq(d.syms, LAMBDA s : interesting_symbol(d, s))
      at == [d EXCEPT !.sections = [k \in DOMAIN d.sections |-> DebugSection(b, d.sections[k])]]
  IN [k \in DOMAIN used |-> op_bfd_symbol(at, used[k])]

\* list::sort keeps the order of equals.
SortByFilepos(syms) ==
  LET order == SetToSortSeq(DOMAIN syms, LAMBDA j, k : \/ syms[j].filepos < syms[k].filepos
                                                       \/ syms[j].filepos = syms[k].filepos /\ j < k)
  IN [k \in DOMAIN order |-> syms[order[k]]]

\* Of neighbours at one place one stays.
DropBoring(syms) ==
  FoldLeft(LAMBDA kept, s :
             IF kept = <<>> \/ Last(kept).vma # s.vma \/ Last(kept).filepos # s.filepos
             THEN Append(kept, s)
             ELSE IF boring_symbol(Last(kept), s) THEN Append(Front(kept), s) ELSE kept,
           <<>>, syms)

\* A symbol ends where the next one begins, if that is in the same section.
symbol_size(b, sym, next) ==
  LET end == IF next = <<>> THEN sym.section.filepos + b.file_size
             ELSE IF next[1].section # sym.section THEN sym.section.filepos + sym.section.size
             ELSE next[1].filepos
  IN IF sym.filepos > end THEN 0 ELSE end - sym.filepos

get_symbols(b, d) ==
  LET found == DropBoring(SortByFilepos(ImageSymbols(b) \o (IF d.valid THEN DebugSymbols(b, d) ELSE <<>>)))
  IN [k \in DOMAIN found |->
        [found[k] EXCEPT !.size = symbol_size(b, found[k], IF k = Len(found) THEN <<>> ELSE <<found[k + 1]>>)]]

\* An image without symbols has one for all of it; then the filter of the user.
create_artificial_symbol(b) ==
  [name |-> <<b.filename>>, form |-> "plain", value |-> 0, size |-> b.file_size, filepos |-> 0, vma |-> 0,
   section |-> <<>>, hidden |-> FALSE, weak |-> FALSE, artificial |-> TRUE]
add_symbols(b, found, excluded) ==
  SelectSeq(IF found = <<>> THEN <<create_artificial_symbol(b)>> ELSE found,
            LAMBDA s : s.name \notin excluded)

\* get_symbol_range: by address in a file made by opjitconv.
get_symbol_range(b, sym) ==
  LET start == IF b.anon_obj THEN sym.vma ELSE sym.filepos
  IN [start |-> start, end |-> start + sym.size]

get_start_offset(b) ==
  LET text == {t \in Range(b.sections) : t.code /\ t.name = ".text"}
  IN IF text = {} THEN 0 ELSE (CHOOSE t \in text : TRUE).filepos

\* kallsyms: lines [addr, name] from _text to _etext.  Each symbol is added when the
\* next line is read, so the one for _etext is not.  A name that is a prefix of either
\* counts as it.
StartNames == {"_text", "_tex", "_te", "_t", "_", ""}
EndNames == {"_etext", "_etex", "_ete", "_et", "_e", "_", ""}
get_kallsym_symbols(lines) ==
  LET ends == {k \in DOMAIN lines : lines[k].name \in EndNames}
      last == IF ends = {} THEN Len(lines) ELSE Min(ends)
      starts == {k \in 1..last : lines[k].name \in StartNames}
      first == Min(starts)
      base(k) == lines[Max({j \in starts : j <= k})].addr
      sym(k) == [name |-> <<lines[k].name>>, filepos |-> lines[k].addr - base(k), vma |-> lines[k].addr - base(k),
                 size |-> lines[k + 1].addr - lines[k].addr, artificial |-> TRUE]
  IN IF starts = {} \/ \E k \in starts : lines[k].addr = 0 THEN <<>>
     ELSE [k \in 1..last - first |-> sym(first + k - 1)]

-----------------------------------------------------------------------------
(* The debug file                                                          *)

\* get_build_id: notes are [type, size, id]; each turn reads the header of the first, but
\* steps over the name and contents that this header gives.
get_build_id(notes) ==
  IF notes = <<>> \/ notes[1].type # "GNU_BUILD_ID" THEN "" ELSE notes[1].id

\* find_separate_debug_file: by build id, else by name in three places, where the
\* checksum has to be that of the file.
find_separate_debug_file(b, files, links) ==
  LET id == get_build_id(b.notes)
      tries == <<b.dir \o <<".debug", b.debuglink.name>>, <<"debug">> \o b.dir \o <<b.debuglink.name>>,
                 b.dir \o <<b.debuglink.name>>>>
      good == {k \in DOMAIN tries : tries[k] \in DOMAIN files /\ files[tries[k]].crc = b.debuglink.crc}
  IN IF id # "" /\ id \in DOMAIN links THEN links[id]
     ELSE IF b.debuglink.name # "" /\ good # {} THEN tries[Min(good)] ELSE <<>>

\* op_bfd::has_debug_info
DebugFile(b, files, links) ==
  LET path == find_separate_debug_file(b, files, links)
  IN IF b.has_debug \/ path = <<>> \/ path \notin DOMAIN files THEN NoBinary ELSE files[path]
has_debug_info(b, d) == b.has_debug \/ (d.valid /\ d.has_debug)

-----------------------------------------------------------------------------
(* Lines                                                                   *)

\* A name has to contain that of the function (or be its Objective C form, which lines
\* is taken to have resolved); parts is what it contains.
is_correct_function(function, sym, parts) == sym.name[1] = function \/ function \in parts[sym.name[1]]

\* fixup_linenr: the next address with a line, in the section.
fixup_linenr(b, sect, pc, sym, parts) ==
  LET max == IF pc + MaxFixup > b.sections[sect].size THEN b.sections[sect].size - pc ELSE MaxFixup
      good == {k \in 1..max - 1 : /\ <<sect, pc + k>> \in DOMAIN b.lines
                                  /\ b.lines[<<sect, pc + k>>].line # 0
                                  /\ is_correct_function(b.lines[<<sect, pc + k>>].function, sym, parts)}
  IN IF good = {} THEN b.lines[<<sect, pc>>] ELSE b.lines[<<sect, pc + Min(good)>>]

\* The section of the debug file, when that has no symbols of its own.
LineSection(b, d, sym) ==
  LET of == IF d.valid THEN d ELSE b
      adj == IF d.valid /\ d.syms = <<>> THEN b.start_address - d.start_address ELSE 0
  IN {k \in DOMAIN of.sections :
        IF adj = 0 THEN of.sections[k].name = sym.section.name
        ELSE of.sections[k].vma + adj = sym.section.vma}

\* The line of an offset of a symbol, as a set that has one or none.
find_nearest_line(b, d, sym, offset, parts) ==
  LET of == IF d.valid THEN d ELSE b
      sects == LineSection(b, d, sym)
      sect == Min(sects)
      pc == IF b.anon_obj THEN offset - sym.section.vma ELSE sym.value + offset - sym.filepos
      info == of.lines[<<sect, pc>>]
  IN IF \/ sym.artificial \/ sects = {} \/ ~has_debug_info(b, d)
        \/ ~of.sections[sect].alloc \/ pc >= of.sections[sect].size
        \/ <<sect, pc>> \notin DOMAIN of.lines
     THEN {}
     ELSE IF info.line # 0 THEN {info}
     ELSE IF is_correct_function(info.function, sym, parts) THEN {fixup_linenr(of, sect, pc, sym, parts)}
     ELSE {}

=============================================================================
