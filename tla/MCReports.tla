----------------------------- MODULE MCReports -----------------------------
(* Two applications with an image of their own, a library, the kernel, and *)
(* anonymous regions of which one was compiled by a JIT; two events; three *)
(* overlapping pieces of code; a stripped image with its debug file.       *)
EXTENDS Reports

name(path) == [path |-> path, slash |-> TRUE]
AppA == name(<<<<"bin">>, <<"a">>>>)
Lib == name(<<<<"lib">>, <<"c", "so">>>>)
sfile(kind, n, app, tid, region, anon_name) ==
  [kind |-> kind, name |-> n, app |-> app, tgid |-> 4, tid |-> tid, cpu |-> 0,
   region |-> region, anon_name |-> anon_name]
MCSfiles == {
  sfile("file", AppA, AppA, 4, <<>>, ""),
  sfile("file", Lib, AppA, 5, <<>>, ""),
  sfile("file", Lib, Lib, 4, <<>>, ""),
  sfile("kernel", [path |-> <<<<"vmlinux">>>>, slash |-> FALSE], AppA, 4, <<>>, ""),
  sfile("anon", NoName, AppA, 4, <<"4", "10", "20">>, "anon"),
  sfile("anon", NoName, AppA, 5, <<"4", "30", "40">>, "[heap]")}
MCEvents == {[name |-> 1, count |-> 100, um |-> u] : u \in {0, 1}}
mode(t, k) == [separate_thread |-> t, separate_cpu |-> FALSE, separate_lib |-> TRUE, separate_kernel |-> k]
MCModes == {mode(TRUE, TRUE), mode(FALSE, FALSE)}
MCSamplesDir == <<<<"samples">>, <<"current">>>>
MCMerges == {{}, {"lib"}, {"tid"}, {"tgid"}, {"unitmask"}, {"all"}}
MCJitFiles == {{}, {MCSamplesDir \o <<Root>> \o AppA.path \o <<Dep, Anon("anon"), <<"4", "jo">>>>}}

MCLoads == {[vma |-> 1, size |-> 2, name |-> "f"], [vma |-> 1, size |-> 5, name |-> "g"],
            [vma |-> 2, size |-> 3, name |-> "f"]}

\* The first line at the start of the code and not, line 0, lines and addresses that go
\* back, steps that fit in one opcode and steps that just do not, and files that return.
at(vma, lineno, filename) == [vma |-> vma, lineno |-> lineno, filename |-> filename]
MCLineTables == {
  <<>>, <<at(1, 5, 1)>>,
  <<at(1, 0, 1), at(4, 3, 1), at(4, 300, 2), at(600, 299, 1)>>,
  <<at(20, 30, 1), at(12, 38, 1), at(28, 47, 1), at(28, 47, 1), at(29, 41, 1)>>,
  <<at(2, 7, 1), at(19, 11, 1), at(36, 16, 2), at(54, 17, 2), at(54, 150, 2)>>}

anyspec == [image |-> {}, lib_image |-> {}, image_or_lib_image |-> {}, image_exclude |-> {}, event |-> {},
            count |-> {}, unitmask |-> {}, cpu |-> {}, tid |-> {}, tgid |-> {}, session |-> <<>>, session_exclude |-> {}]
Vmlinux == <<<<"boot">>, <<"vmlinux">>>>
MCSpecs == {anyspec, [anyspec EXCEPT !.image = {{AppA.path}}], [anyspec EXCEPT !.lib_image = {{Lib.path}, {Vmlinux}}],
            [anyspec EXCEPT !.image_or_lib_image = {{Lib.path}}, !.tid = {4}], [anyspec EXCEPT !.image_exclude = {{Lib.path}}],
            [anyspec EXCEPT !.unitmask = {1}], [anyspec EXCEPT !.image_or_lib_image = {{AppA.path}}]}
DebugC == <<<<"usr">>, <<"debug">>, <<"c", "debug">>>>
MCStore == {AppA.path, Lib.path, Vmlinux, DebugC}
MCImagePaths == {<<<<"boot">>>>}
MCReal == [p \in {<<<<"vmlinux">>>>} |-> Vmlinux]
MCDebugFiles == [p \in {Lib.path} |-> DebugC]
MCOutdirs == <<<<<<"home">>, <<"arch">>>>, <<<<"tmp">>>>>>

section(n, vma, pos, size, owner) ==
  [name |-> n, vma |-> vma, filepos |-> pos, size |-> size, code |-> TRUE, alloc |-> TRUE, owner |-> owner]
symbol(n, form, sect, value, weak) ==
  [name |-> n, form |-> form, sect |-> sect, value |-> value, weak |-> weak, local |-> FALSE, section_sym |-> FALSE]
Sections(owner, skew) ==
  <<section(".init", 104, 4 - skew, 2, owner), section(".text", 108, 8 - skew, 6, owner)>>
Syms == <<symbol("main", "plain", 2, 0, FALSE), symbol("_main", "underscore", 2, 0, FALSE),
          symbol("", "none", 1, 0, FALSE), symbol("w", "plain", 2, 3, TRUE), symbol("w2", "plain", 2, 3, FALSE)>>
line(n) == [file |-> "c.c", function |-> "main", line |-> n]
MCDebugLines == [x \in {<<2, k>> : k \in {0, 2, 3, 5}} |-> line(CASE x[2] = 0 -> 1 [] x[2] = 2 -> 0 [] OTHER -> 2)]
binary(syms, lines, owner, skew) ==
  [valid |-> TRUE, filename |-> "c", file_size |-> 20, anon_obj |-> FALSE, start_address |-> 0,
   sections |-> Sections(owner, skew), syms |-> syms, lines |-> lines, has_debug |-> lines # <<>>,
   dir |-> <<"bin">>, notes |-> <<>>, debuglink |-> [name |-> "c.debug", crc |-> 7], crc |-> 7]
alone(b) == [image |-> b, files |-> <<>>, links |-> <<>>, kallsyms |-> <<>>]
MCBinaries == {alone(binary(Syms, MCDebugLines, "c", 0)),
               alone(binary(<<>>, <<>>, "c", 0)),
               [alone(binary(<<>>, <<>>, "c", 0)) EXCEPT
                  !.files = (<<"bin", ".debug", "c.debug">> :> [binary(<<>>, <<>>, "c", 0) EXCEPT !.crc = 8])
                            @@ (<<"bin", "c.debug">> :> binary(Syms, MCDebugLines, "c.debug", 3))],
               [alone(binary(<<>>, <<>>, "kallsyms", 0)) EXCEPT
                  !.kallsyms = <<[addr |-> 90, name |-> "x"], [addr |-> 104, name |-> "_text"],
                                 [addr |-> 109, name |-> "f"], [addr |-> 116, name |-> "_etext"]>>]}
MCParts == [n \in {"main", "w2", "??", "c", "_text", "f"} |-> {}]
MCArcs == {8, 10, 11, 14} \X {4, 10, 11}
MCLines == <<3, 8, 10, 13>>
=============================================================================
