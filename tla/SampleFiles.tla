----------------------------- MODULE SampleFiles -----------------------------
(***************************************************************************)
(* The names of sample files: how the daemon and operf build them          *)
(* (op_mangle.c, opd_mangling.c, operf_mangling.cpp), how the reporting    *)
(* tools read them back (parse_filename.cpp), select files with a profile  *)
(* specification (profile_spec.cpp, locate_images.cpp, common_option.cpp)  *)
(* and sort what is selected into classes and images                       *)
(* (arrange_profiles.cpp).                                                 *)
(*                                                                         *)
(* A path is a sequence of components, a component the sequence of its     *)
(* parts: what '.' separates, and for {anon:NAME} the marker and the name. *)
(* A file is its path and the six fields of its event specification.       *)
(***************************************************************************)
EXTENDS Integers, Sequences, FiniteSets, FiniteSetsExt, SequencesExt

Root == <<"{root}">>
Kern == <<"{kern}">>
Dep == <<"{dep}">>
Cg == <<"{cg}">>
Anon(name) == <<"{anon:", name>>
IsAnon(c) == c[1] = "{anon:"

\* "all" sorts after each number; a field that is merged is the empty string.
all == 1000000
Merged == -1
NoName == [path |-> <<>>, slash |-> FALSE]
NoSfile == [kind |-> "none"]

-----------------------------------------------------------------------------
(* op_mangle.c: values has the images as [path, slash], where slash is     *)
(* whether the name contains a '/'.                                        *)

append_image(flags, anon, name, anon_name) ==
  (IF "KERNEL" \in flags /\ ~name.slash THEN <<Kern>>
   ELSE IF anon /\ anon_name # "" THEN <<Anon(anon_name)>> ELSE <<Root>>) \o name.path

op_mangle_filename(dir, v) ==
  [path |-> dir
      \o append_image(v.flags, FALSE, v.dep_name, v.anon_name)
      \o <<Dep>> \o append_image(v.flags, "ANON" \in v.flags, v.image_name, v.anon_name)
      \o (IF "CALLGRAPH" \in v.flags
          THEN <<Cg>> \o append_image(v.flags, "CG_ANON" \in v.flags, v.cg_image_name, v.anon_name)
          ELSE <<>>),
   event |-> v.event, count |-> v.count, unitmask |-> v.unit_mask,
   tgid |-> IF "TGID" \in v.flags THEN v.tgid ELSE all,
   tid |-> IF "TID" \in v.flags THEN v.tid ELSE all,
   cpu |-> IF "CPU" \in v.flags THEN v.cpu ELSE all]

\* A struct sfile, of the daemon or of operf: [kind, name, app, tgid, tid, cpu], kind
\* one of "kernel", "anon" and "file"; name is the image's name, and of an anonymous
\* region also its pid and addresses.
mangle_anon(sf) == [path |-> <<sf.region>>, slash |-> FALSE]
ImageName(sf) == IF sf.kind = "anon" THEN mangle_anon(sf) ELSE sf.name

\* get_dep_name of the daemon: the application, or what the image is.
get_dep_name(sf, opt) ==
  IF sf.kind = "anon" THEN sf.app
  ELSE IF sf.name = sf.app \/ sf.app = NoName
          \/ (~opt.separate_kernel /\ ~(opt.separate_lib /\ sf.kind # "kernel"))
       THEN ImageName(sf) ELSE sf.app

SfFlags(sf, opt) ==
  CASE sf.kind = "kernel" -> {"KERNEL"} [] sf.kind = "anon" -> {"ANON"} [] OTHER -> {}
ModeFlags(opt) == (IF opt.separate_thread THEN {"TGID", "TID"} ELSE {})
                  \cup (IF opt.separate_cpu THEN {"CPU"} ELSE {})
CgFlags(last) == IF last = NoSfile THEN {}
                 ELSE {"CALLGRAPH"} \cup (IF last.kind = "anon" THEN {"CG_ANON"} ELSE {})

\* A call graph file has last, the image of the caller, as its {cg} part; cg_anon is the
\* name it then has if that is an anonymous region.  It replaces the image's own.
MangleValues(last, sf, ev, opt, dep, cg_anon) ==
  [flags |-> SfFlags(sf, opt) \cup ModeFlags(opt) \cup CgFlags(last),
   image_name |-> ImageName(sf), dep_name |-> dep,
   cg_image_name |-> IF last = NoSfile THEN NoName ELSE ImageName(last),
   anon_name |-> IF last # NoSfile /\ last.kind = "anon" THEN cg_anon
                 ELSE IF sf.kind = "anon" THEN sf.anon_name ELSE "",
   tgid |-> sf.tgid, tid |-> sf.tid, cpu |-> sf.cpu,
   event |-> ev.name, count |-> ev.count, unit_mask |-> ev.um]

\* mangle_filename of the daemon and of operf; last is NoSfile for a plain file.
opd_mangle_filename(dir, last, sf, ev, opt) ==
  op_mangle_filename(dir, MangleValues(last, sf, ev, opt, get_dep_name(sf, opt),
                                       IF last # NoSfile /\ last.kind = "anon" THEN last.anon_name ELSE ""))
operf_mangle_filename(dir, last, sf, ev, opt) ==
  op_mangle_filename(dir, MangleValues(last, sf, ev, opt, sf.app, "anon"))

-----------------------------------------------------------------------------
(* parse_filename.cpp                                                      *)

\* What follows the directory: from the first {root} or {kern}.
remove_base_dir(path) ==
  LET at == {k \in DOMAIN path : path[k] \in {Root, Kern}}
  IN IF at = {} THEN <<>> ELSE SubSeq(path, Min(at), Len(path))

\* The region's name, and its parts.
parse_anon(c, marker) == <<<<marker[2]>> \o c>>
AnonName(c) == Len(c) = 3

\* The name of the file opjitconv makes for a process: up to the last '.' but one of
\* the whole path.
JitDumpName(path) ==
  LET dots == {<<k, j>> \in (DOMAIN path) \X (1..3) : ~IsAnon(path[k]) /\ j < Len(path[k])}
      later(d) == {e \in dots : e[1] > d[1] \/ (e[1] = d[1] /\ e[2] > d[2])}
      cut == CHOOSE d \in dots : Cardinality(later(d)) = 1
  IN Append(SubSeq(path, 1, cut[1] - 1), SubSeq(path[cut[1]], 1, cut[2]) \o <<"jo">>)

\* The image at path[i], whose name ends before path[end]; what follows is the caller.
ParseLib(file, jos, path, i, end, jit) ==
  IF jit THEN JitDumpName(file.path)
  ELSE IF IsAnon(path[i]) THEN parse_anon(path[i + 1], path[i]) ELSE SubSeq(path, i + 1, end - 1)
ParseCg(path, c) ==
  IF c > Len(path) + 1 THEN <<>>
  ELSE IF IsAnon(path[c]) THEN parse_anon(path[c + 1], path[c])
  ELSE SubSeq(path, c + 1, Len(path))
IsMarker(path, k) == k <= Len(path) /\ (path[k] \in {Root, Kern} \/ IsAnon(path[k]))

ParseImages(file, jos, path, i, end, jit) ==
  IF \/ ~IsMarker(path, i)
     \/ /\ end <= Len(path)
        /\ ~IsMarker(path, end + 1) \/ (IsAnon(path[end + 1]) /\ ~AnonName(path[end + 2]))
     \/ IsAnon(path[i]) /\ ~jit /\ ~AnonName(path[i + 1])
  THEN [ok |-> FALSE]
  ELSE [ok |-> TRUE, image |-> SubSeq(path, 2, i - 2),
        lib_image |-> ParseLib(file, jos, path, i, end, jit), cg_image |-> ParseCg(path, end + 1),
        jit_dumpfile_exists |-> jit, file |-> file,
        event |-> file.event, count |-> file.count, unitmask |-> file.unitmask,
        tgid |-> file.tgid, tid |-> file.tid, cpu |-> file.cpu]

ParseDep(file, jos, path, i) ==
  LET cgs == {k \in i + 1..Len(path) : path[k] = Cg}
  IN ParseImages(file, jos, path, i,
       IF IsAnon(path[i]) THEN i + 2 ELSE IF cgs = {} THEN Len(path) + 1 ELSE Min(cgs),
       IsAnon(path[i]) /\ JitDumpName(file.path) \in jos)

ParsePath(file, jos, path) ==
  LET dep == {k \in 2..Len(path) : path[k] = Dep}
  IN IF dep = {} \/ Min(dep) = Len(path) THEN [ok |-> FALSE]
     ELSE ParseDep(file, jos, path, Min(dep) + 1)

\* The parsed name; ok is FALSE for an invalid_argument; jos is the set of JIT files that exist.
parse_filename(file, jos) == ParsePath(file, jos, remove_base_dir(file.path))

SpecFields == {"event", "count", "unitmask", "tgid", "tid", "cpu"}
\* Mistake: unit masks are not told apart.
profile_spec_equal_NoMask(p, q) == \A f \in SpecFields \ {"unitmask"} : p[f] = q[f]
profile_spec_equal(p, q) == \A f \in SpecFields : p[f] = q[f]

-----------------------------------------------------------------------------
(* locate_images.cpp: exists is the set of files that can be read, images  *)
(* the set of those below --image-path, in the archive or below --root.    *)

\* extra_images::populate; store is the set of files of the machine.
populate(store, paths, archive, root) ==
  LET prefixes == {p \in {archive, root} : p # <<>> \/ (archive = <<>> /\ root = <<>>)}
  IN [archive |-> archive, root |-> root, exists |-> store, unreadable |-> {},
      images |-> {f \in store : \E pre \in prefixes, p \in paths : IsPrefix(pre \o p, f)}]

image_ok == "image_ok"
image_unreadable == "image_unreadable"
image_not_found == "image_not_found"
image_multiple_match == "image_multiple_match"

\* A search by name; and a module's file name ends in ".ko".
find(images, base) == {f \in images : Last(f) = base}
find_image_path(extra, name) ==
  LET in(prefix) == {f \in extra.exists : f = prefix \o name}
      direct == IF extra.archive # <<>> /\ in(extra.archive) # {} THEN in(extra.archive)
                ELSE IF extra.root # <<>> \/ extra.archive = <<>> THEN in(extra.root) ELSE {}
      same == find(extra.images, Last(name))
      result == IF same # {} THEN same ELSE find(extra.images, Last(name) \o <<"ko">>)
      unreadable == extra.archive # <<>> /\ extra.archive \o name \in extra.unreadable
      below(prefix) == {f \in result : IsPrefix(prefix, f)}
      best == IF Cardinality(result) = 1 THEN result
              ELSE IF below(extra.archive) # {} THEN below(extra.archive) ELSE below(extra.root)
  IN IF unreadable THEN [path |-> name, error |-> image_unreadable]
     ELSE IF direct # {} THEN [path |-> CHOOSE f \in direct : TRUE, error |-> image_ok]
     ELSE IF result = {} THEN [path |-> name, error |-> image_not_found]
     ELSE IF Cardinality(best) = 1 THEN [path |-> CHOOSE f \in best : TRUE, error |-> image_ok]
     ELSE [path |-> name, error |-> image_multiple_match]
fixup_image_spec(extra, name) == find_image_path(extra, name).path

strip_path_prefix(extra, image) ==
  IF extra.archive # <<>> /\ IsPrefix(extra.archive, image)
  THEN SubSeq(image, Len(extra.archive) + 1, Len(image))
  ELSE IF extra.root # <<>> /\ IsPrefix(extra.root, image)
  THEN SubSeq(image, Len(extra.root) + 1, Len(image)) ELSE image

-----------------------------------------------------------------------------
(* profile_spec.cpp: a pattern is the set of the names it matches.         *)

glob_match(include, exclude, name) ==
  /\ \A p \in exclude : name \notin p
  /\ include = {} \/ \E p \in include : name \in p

\* Mistake: "all" is taken for every value.
comma_match_All(list, value) == list = {} \/ value = all \/ value \in list

\* A list of values that is not given matches everything; one that is given does not
\* match "all".
comma_match(list, value) == list = {} \/ (value # all /\ value \in list)

\* profile_spec::match
MatchImages(spec, image, lib) ==
  LET named == /\ spec.image_or_lib_image # {}
               /\ \E n \in {image, lib} : glob_match(spec.image_or_lib_image, spec.image_exclude, n)
  IN \/ named
     \/ /\ IF spec.image # {} THEN glob_match(spec.image, spec.image_exclude, image)
           ELSE spec.image_or_lib_image = {}
        /\ IF spec.lib_image # {} THEN glob_match(spec.lib_image, spec.image_exclude, lib)
           ELSE spec.image # {} \/ spec.image_or_lib_image = {}
        /\ glob_match({}, spec.image_exclude, image)
        /\ glob_match({}, spec.image_exclude, lib)
match(spec, extra, p) ==
  /\ MatchImages(spec, fixup_image_spec(extra, p.image), fixup_image_spec(extra, p.lib_image))
  /\ spec.event = {} \/ p.event \in spec.event
  /\ spec.count = {} \/ p.count \in spec.count
  /\ spec.unitmask = {} \/ p.unitmask \in spec.unitmask
  /\ comma_match(spec.cpu, p.cpu) /\ comma_match(spec.tid, p.tid) /\ comma_match(spec.tgid, p.tgid)

is_dependent(p) == IF p.cg_image = <<>> THEN p.image # p.lib_image
                   ELSE p.cg_image # p.image \/ p.cg_image # p.lib_image

\* profile_spec::create: names without a tag are looked for where images are; those
\* behind a tag were looked for before --image-path and archive: had an effect.
create(spec, extra) ==
  [spec EXCEPT !.image_or_lib_image = {{fixup_image_spec(extra, n) : n \in p} : p \in @}]

Matched(spec, extra, p, exclude_dependent) ==
  match(spec, extra, p) /\ ~(exclude_dependent /\ is_dependent(p))

\* A candidate is a sample file, not of another sample file, that the specification
\* selects.
valid_candidate(spec, extra, dir, file, jos, exclude_dependent, exclude_cg) ==
  LET sub == SubSeq(file.path, Len(dir) + 1, Len(file.path))
      within == \E k \in 2..Len(sub) - Len(dir) + 2 :
                   IsPrefix(SubSeq(dir, 1, Len(dir) - 1), SubSeq(sub, k, Len(sub)))
  IN /\ ~(exclude_cg /\ \E k \in DOMAIN file.path : file.path[k] = Cg)
     /\ sub[1] \in {Root, Kern}
     /\ ~within
     /\ Matched(spec, extra, parse_filename(file, jos), exclude_dependent)

\* A session that is excluded is taken off the list; an empty list is an error.
filter_session(session, exclude) ==
  SelectSeq(IF session = <<>> THEN <<"current">> ELSE session, LAMBDA s : s \notin exclude)
generate_file_list(spec, extra, samples, store, jos, exclude_dependent, exclude_cg) ==
  LET sessions == Range(filter_session(spec.session, spec.session_exclude))
      files(s) == {f \in store : IsPrefix(Append(samples, <<s>>), f.path)}
  IN IF sessions = {} \/ \A s \in sessions : files(s) = {} THEN [ok |-> FALSE]
     ELSE [ok |-> TRUE,
           files |-> UNION {{f \in files(s) : valid_candidate(spec, extra, Append(samples, <<s>>), f, jos,
                                                              exclude_dependent, exclude_cg)} : s \in sessions}]

-----------------------------------------------------------------------------
(* common_option.cpp                                                       *)

MergeNames == {"cpu", "tid", "tgid", "lib", "unitmask"}
handle_merge_option(mergespec, allow_lib, exclude_dependent) ==
  LET every == "all" \in mergespec
      by == (IF every THEN MergeNames ELSE mergespec)
            \cup (IF "tgid" \in mergespec THEN {"tid"} ELSE {})
            \cup (IF allow_lib THEN {} ELSE {"lib"})
  IN IF \/ ~(mergespec \subseteq (MergeNames \cup {"all"}))
        \/ "lib" \in mergespec /\ ~allow_lib
        \/ exclude_dependent /\ "lib" \in by /\ allow_lib /\ ~every
     THEN [ok |-> FALSE] ELSE [ok |-> TRUE, by |-> by]

=============================================================================
