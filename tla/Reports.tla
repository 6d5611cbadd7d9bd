------------------------------- MODULE Reports -------------------------------
(***************************************************************************)
(* What the reporting tools and opjitconv make of what a profile left      *)
(* behind, as it grows: the sample files the daemon or operf created, the  *)
(* samples in them, and the code a JIT compiler registered.                *)
(*                                                                         *)
(* A behaviour follows one of them.  Reports are functions of the state,   *)
(* defined in ArrangeProfiles, SymbolReport, JitSymbols and DebugLine.     *)
(***************************************************************************)
EXTENDS Archive

CONSTANTS
  Sfiles,      \* sfiles, as of the daemon and of operf
  Events,      \* [name, count, um]
  Modes,       \* --separate options
  SamplesDir,  \* op_samples_current_dir, as a path
  Merges,      \* --merge options
  JitFiles,    \* sets of .jo files
  MaxFiles,    \* sample files
  Loads,       \* code that is loaded: [vma, size, name]
  MaxLoads, MaxTime, StartTime,
  LineTables,  \* debug information of code: sequences of [vma, lineno, filename]
  MaxTables, UINT, ULONG,
  Binaries,           \* binaries: [image, debug]
  Keys, MaxSamples,   \* keys of samples, and samples in all
  Arcs,               \* keys of arcs
  Lines,              \* addresses of instructions
  Parts,              \* the names that a name contains, of functions
  SourceLength,       \* lines of a source file
  Specs,              \* profile specifications
  Store,              \* files of the machine that can be read
  ImagePaths,         \* --image-path options
  Real,               \* where the image of a name that is no path is
  DebugFiles,         \* the debug files of images that have one
  Outdirs,            \* directories of an archive, and of an archive of that
  PageGap, ULL, U16

J == INSTANCE JitSymbols
S == INSTANCE SymbolReport
D32 == INSTANCE DebugLine WITH NarrowLong <- TRUE
D64 == INSTANCE DebugLine WITH NarrowLong <- FALSE

VARIABLES
  what,    \* what this behaviour is about
  files,   \* sample files: [sf, last, ev, mode, tool], in the order of their names
  list,    \* struct jitentry, newest first
  debug_lines,   \* jitentry_debug_line_list: [code_addr, lines], newest first
  db       \* samples: of two plain files and of one of a call graph, counts by key

vars == <<what, files, list, debug_lines, db>>

-----------------------------------------------------------------------------
(* Sample files are created.                                               *)

Name(o) == IF o.tool = "operf" THEN operf_mangle_filename(SamplesDir, o.last, o.sf, o.ev, o.mode)
           ELSE opd_mangle_filename(SamplesDir, o.last, o.sf, o.ev, o.mode)
Names == [k \in DOMAIN files |-> Name(files[k])]

CreateFile ==
  /\ what = "files" /\ Len(files) < MaxFiles
  /\ \E sf \in Sfiles, last \in Sfiles \cup {NoSfile}, ev \in Events, mode \in Modes, tool \in {"operf", "oprofiled"} :
       LET o == [sf |-> sf, last |-> last, ev |-> ev, mode |-> mode, tool |-> tool]
       IN /\ \A k \in DOMAIN files : /\ files[k].mode = mode /\ files[k].tool = tool
                                     /\ Name(files[k]) # Name(o)
          /\ last # NoSfile => last.app = sf.app /\ last.tid = sf.tid
          /\ files' = Append(files, o)
  /\ UNCHANGED <<what, list, debug_lines, db>>

\* A name is read back as what it was made from: application, image and caller.  The
\* names of two anonymous regions are one; a region that the kernel is paired with is
\* named as a kernel image is, and loses its name.
ImagePath(sf, name) ==
  IF sf.kind = "anon" THEN <<<<name>> \o sf.region>> ELSE sf.name.path
SameNames(o, p, dep, cgname) ==
  /\ p.ok
  /\ p.image = dep.path
  /\ p.lib_image = ImagePath(o.sf, IF o.last.kind = "anon" /\ o.sf.kind = "anon"
                                  THEN cgname ELSE o.sf.anon_name)
  /\ \/ p.cg_image = IF o.last = NoSfile THEN <<>> ELSE ImagePath(o.last, cgname)
     \/ o.sf.kind = "kernel" /\ o.last.kind = "anon"
  /\ p.tid = (IF o.mode.separate_thread THEN o.sf.tid ELSE all)
ReadBack(o) ==
  SameNames(o, parse_filename(Name(o), {}),
            IF o.tool = "operf" THEN o.sf.app ELSE get_dep_name(o.sf, o.mode),
            IF o.tool = "operf" THEN "anon" ELSE o.last.anon_name)

Extra == populate(Store, ImagePaths, <<>>, <<>>)

\* What a specification asks for, in terms of what was profiled: Located is where an
\* image's file is.
Located(path) == IF path \in DOMAIN Real THEN Real[path] ELSE path
InAny(patterns, name) == \E p \in patterns : name \in p
Asked(spec, o, app, image) ==
  /\ spec.image # {} => InAny(spec.image, app)
  /\ spec.lib_image # {} => InAny(spec.lib_image, image)
  /\ spec.image_or_lib_image # {} =>
       InAny(spec.image_or_lib_image, app) \/ InAny(spec.image_or_lib_image, image)
  /\ ~InAny(spec.image_exclude, app) /\ ~InAny(spec.image_exclude, image)
  /\ spec.unitmask # {} => o.ev.um \in spec.unitmask
  /\ spec.tid # {} => o.mode.separate_thread /\ o.sf.tid \in spec.tid
Wanted(spec, o) ==
  Asked(spec, o,
        Located(IF o.tool = "operf" THEN o.sf.app.path ELSE get_dep_name(o.sf, o.mode).path),
        Located(parse_filename(Name(o), {}).lib_image))
Selected(spec, exclude_cg) ==
  generate_file_list(spec, Extra, Front(SamplesDir), Range(Names), {}, FALSE, exclude_cg).files

\* Every sample file is found under the application, the image, the caller and the
\* column that the daemon or operf meant; no two files take the place of one another,
\* whatever is merged and whether the code was compiled by a JIT.  Columns that opreport
\* accepts can be told apart by their heads.
FilesArranged ==
  what = "files" =>
    /\ \A k \in DOMAIN files : ReadBack(files[k])
    /\ \A m \in Merges, jos \in JitFiles : 
         files # <<>> => Arranged(Names, handle_merge_option(m, TRUE, FALSE).by, jos)

\* An archive of what a specification selects, and one made of it again on a machine that
\* has nothing else
ArchiveKept(spec, extra, names, dir, out) ==
  LET a == oparchive(extra, DebugFiles, out, names, {})
  IN Kept(extra, DebugFiles, spec, InvertedImages(Arrange(names, MergeNames, {}).classes), a,
          populate(a.files, ImagePaths, out, <<>>), out \o dir)
ArchivesKept(spec, names) ==
  LET a == oparchive(Extra, DebugFiles, Outdirs[1], names, {})
      dir == Front(SamplesDir)
  IN /\ ArchiveKept(spec, Extra, names, dir, Outdirs[1])
     /\ ArchiveKept(spec, populate(a.files, ImagePaths, Outdirs[1], <<>>), a.samples, dir, Outdirs[2])

\* The samples in the order of their names
Chosen(spec) == SelectSeq(Names, LAMBDA n : n \in Selected(spec, FALSE))

\* A specification selects the files of what it names, and no others, and oparchive takes
\* along all that a report of them needs.  (A name behind a tag does not select in an
\* archive: those are looked for on the machine of the report.)
SpecsMatch ==
  what = "files" /\ files # <<>> =>
    \A spec \in Specs :
      /\ \A exclude_cg \in BOOLEAN :
           Selected(spec, exclude_cg) =
             {Names[k] : k \in {j \in DOMAIN files : /\ Wanted(spec, files[j])
                                                     /\ ~(exclude_cg /\ files[j].last # NoSfile)}}
      /\ spec.image = {} /\ spec.lib_image = {} /\ spec.image_exclude = {} =>
           ArchivesKept(spec, Chosen(spec))

-----------------------------------------------------------------------------
(* Code is loaded and unloaded.                                            *)

LoadCode ==
  /\ what = "code" /\ Len(list) < MaxLoads
  /\ \E rec \in Loads, t \in 1..MaxTime :
       list' = J!parse_code_load(list, [vma |-> rec.vma, size |-> rec.size, name |-> rec.name, time |-> t],
                                 MaxTime, Len(list) + 1)
  /\ UNCHANGED <<what, files, debug_lines, db>>
UnloadCode ==
  /\ what = "code" /\ list # <<>>
  /\ \E rec \in Loads, t \in 1..MaxTime :
       /\ list' = J!parse_code_unload(list, [vma |-> rec.vma, time |-> t], MaxTime)
       /\ list' # list
  /\ UNCHANGED <<what, files, debug_lines, db>>

parse_code_debug_info ==
  /\ what = "lines" /\ Len(debug_lines) < MaxTables
  /\ \E rec \in Loads, lines \in LineTables :
       debug_lines' = <<[code_addr |-> rec.vma, lines |-> lines]>> \o debug_lines
  /\ UNCHANGED <<what, files, list, db>>

\* op_jit_convert: overlaps are resolved, then names made unique, in rounds.
Rounds == [k \in 1..2 * MaxLoads |-> k]
Entries ==
  LET sorted == J!invalidate_earlybirds(J!resort_address(list), StartTime)
      apart == FoldLeft(LAMBDA e, k : IF J!Overlapping(e) THEN J!resort_address(J!scan_overlaps(e)) ELSE e,
                        sorted, Rounds)
  IN FoldLeft(LAMBDA e, k : IF J!Ambiguous(e) THEN J!disambiguate_symbol_names(e) ELSE e, apart, Rounds)

\* The ELF file made of a dump has each address in one symbol, of the code that was
\* there, whatever was loaded over what and in which order, and gives back each line of
\* the tables the JIT compiler wrote, on machines with either size of a long.
ElfRight ==
  /\ what = "code" /\ list # <<>> => J!Represents(J!elf(Entries), list, StartTime)
  /\ what = "lines" => D32!LinesKept(debug_lines) /\ D64!LinesKept(debug_lines)

-----------------------------------------------------------------------------
(* Samples are recorded, in files of two applications that share an image. *)

Slots == {1, 2}
Graph == 3
SamplesOf(s) == S!SumOf(db[s], DOMAIN db[s])
RecordSample ==
  /\ what = "samples"
  /\ SamplesOf(1) + SamplesOf(2) < MaxSamples /\ SamplesOf(Graph) = 0
  /\ \E s \in Slots, k \in Keys : db' = [db EXCEPT ![s] = S!AddCounts(@, [x \in {k} |-> 1])]
  /\ UNCHANGED <<what, files, list, debug_lines>>
RecordArc ==
  /\ what = "samples"
  /\ SamplesOf(1) + SamplesOf(2) = 0 /\ SamplesOf(Graph) < MaxSamples
  /\ \E k \in Arcs : db' = [db EXCEPT ![Graph] = S!AddCounts(@, [x \in {k} |-> 1])]
  /\ UNCHANGED <<what, files, list, debug_lines>>

Plain(s) == [version |-> 1, mtime |-> 1, is_kernel |-> FALSE, anon_start |-> 0, counts |-> db[s]]
Debug(bin) == S!DebugFile(bin.image, bin.files, bin.links)
Symbols(bin) ==
  IF bin.kallsyms # <<>> THEN S!get_kallsym_symbols(bin.kallsyms)
  ELSE S!add_symbols(bin.image, S!get_symbols(bin.image, Debug(bin)), {})
One == [app |-> "a", files |-> <<Plain(1)>>]
Two == [app |-> "b", files |-> <<Plain(2)>>]

\* Each sample is counted once, in the symbol that it is in, whether the files are merged
\* or are of two applications or two columns, and each arc of a call graph once, between
\* the symbols that it connects.
SamplesKept ==
  what = "samples" =>
    LET merged == [app |-> "a", files |-> <<Plain(1), Plain(2)>>]
        arcs == [is_kernel |-> FALSE, anon_start |-> 0, cg_to_is_kernel |-> FALSE, cg_to_anon_start |-> 0,
                 counts |-> db[Graph]]
    IN \A bin \in Binaries :
         /\ \A groups \in {<<<<One, Two>>>>, <<<<merged>>>>, <<<<One>>, <<Two>>>>} :
              S!SamplesConserved(bin.image, Symbols(bin), groups)
         /\ S!ArcsConserved(bin.image, Symbols(bin), arcs)

\* opreport, opgprof and a comparison of two profiles say the same of the same samples.
ReportsAgree ==
  what = "samples" =>
    \A bin \in Binaries : S!ReportsConsistent(bin.image, Symbols(bin), One, [Two EXCEPT !.app = "a"])

\* get_linenr for a sample of a symbol.
Line(bin, syms, x) ==
  LET sym == syms[CHOOSE j \in DOMAIN syms : S!symbol_entry(bin.image, x[1].app, syms[j]) = x[1]]
  IN S!find_nearest_line(bin.image, Debug(bin), sym, x[2] - sym.vma + S!get_symbol_range(bin.image, sym).start, Parts)
SourceRight(bin, syms, pc) ==
  S!SourceAnnotated(pc, SourceLength, [x \in DOMAIN pc.samples |-> Line(bin, syms, x)])

\* In a listing of instructions each sample is with the instruction that it is in, and in
\* one of the source with its line.
Annotated ==
  what = "samples" =>
    /\ S!AsmAnnotated(Lines, db[1])
    /\ \A bin \in Binaries :
         SourceRight(bin, Symbols(bin),
                     S!populate_for_image(S!EmptyContainer, bin.image, Symbols(bin), <<<<One>>>>))

-----------------------------------------------------------------------------
TypeOK ==
  /\ what \in {"files", "code", "lines", "samples"}
  /\ Len(files) <= MaxFiles /\ Len(list) <= MaxLoads
  /\ DOMAIN db = Slots \cup {Graph}

Init ==
  /\ what \in {"files", "code", "lines", "samples"}
  /\ files = <<>> /\ list = <<>> /\ debug_lines = <<>>
  /\ db = [s \in Slots \cup {Graph} |-> <<>>]

Next == CreateFile \/ LoadCode \/ UnloadCode \/ parse_code_debug_info \/ RecordSample \/ RecordArc

Spec == Init /\ [][Next]_vars

=============================================================================
