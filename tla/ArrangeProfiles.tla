--------------------------- MODULE ArrangeProfiles ---------------------------
(***************************************************************************)
(* arrange_profiles.cpp: the sample files that were selected are put into  *)
(* classes, the columns of a report, and in a class under their            *)
(* application and image.  invert_profiles then groups them by the image   *)
(* that has to be opened.                                                  *)
(***************************************************************************)
EXTENDS SampleFiles

\* struct profile_sample_files, profile_dep_set, profile_set and profile_class.
NoFile == [path |-> <<>>]
EmptySlot == [sample_filename |-> NoFile, cg_files |-> <<>>]

FilesOf(slot) ==
  (IF slot.sample_filename = NoFile THEN <<>> ELSE <<slot.sample_filename>>) \o slot.cg_files

\* A class stands for the fields that are not merged.
template_from_profile(p, merge_by) ==
  [f \in SpecFields |->
     IF f \in {"event", "count"} \/ f \notin merge_by THEN p[f] ELSE Merged]

\* find_profile_sample_files: where a file with this application, image and
\* specification is, be it a plain one or of a call graph.
SameProfile(p, q) ==
  q.lib_image = p.lib_image /\ q.image = p.image /\ profile_spec_equal(q, p)
SlotsOf(files, p, jos) ==
  {k \in DOMAIN files : \E f \in Range(FilesOf(files[k])) : SameProfile(p, parse_filename(f, jos))}

\* add_to_profile_sample_files, and its check that a plain file is never replaced.
AddToSlot(slot, p) ==
  IF p.cg_image # <<>> THEN [slot EXCEPT !.cg_files = Append(@, p.file)]
  ELSE [slot EXCEPT !.sample_filename = p.file]
AddAt(files, p, at) ==
  IF at = {} THEN Append(files, AddToSlot(EmptySlot, p))
  ELSE [files EXCEPT ![Min(at)] = AddToSlot(@, p)]
add_to_files(files, p, jos) == AddAt(files, p, SlotsOf(files, p, jos))
Taken(files, p, at) ==
  p.cg_image = <<>> /\ at # {} /\ files[Min(at)].sample_filename # NoFile
ParsedTwice(files, p, jos) == Taken(files, p, SlotsOf(files, p, jos))

\* add_to_profile_set: in the application's own files, in those of one of its
\* libraries, or in a new set.
DepsOf(set, p, merge_by) ==
  {k \in DOMAIN set.deps : /\ set.deps[k].lib_image = p.lib_image
                           /\ "lib" \notin merge_by /\ ~p.jit_dumpfile_exists}
OwnImage(p, merge_by) == p.image = p.lib_image /\ "lib" \notin merge_by
add_to_profile_set(set, p, merge_by, jos) ==
  LET dep == DepsOf(set, p, merge_by)
  IN IF OwnImage(p, merge_by) THEN [set EXCEPT !.files = add_to_files(@, p, jos)]
     ELSE IF dep # {} THEN [set EXCEPT !.deps[Min(dep)].files = add_to_files(@, p, jos)]
     ELSE [set EXCEPT !.deps = Append(@, [lib_image |-> p.lib_image,
                                          files |-> add_to_files(<<>>, p, jos)])]
SetParsedTwice(set, p, merge_by, jos) ==
  LET dep == DepsOf(set, p, merge_by)
  IN IF OwnImage(p, merge_by) THEN ParsedTwice(set.files, p, jos)
     ELSE dep # {} /\ ParsedTwice(set.deps[Min(dep)].files, p, jos)

\* add_profile: in the set of its application.
NewSet(p) == [image |-> p.image, files |-> <<>>, deps |-> <<>>]
SetsOf(profiles, p) == {k \in DOMAIN profiles : profiles[k].image = p.image}
AddToSet(profiles, k, p, merge_by, jos) ==
  [profiles EXCEPT ![k] = add_to_profile_set(@, p, merge_by, jos)]
add_profile(profiles, p, merge_by, jos) ==
  LET at == SetsOf(profiles, p)
  IN IF at = {} THEN AddToSet(Append(profiles, NewSet(p)), Len(profiles) + 1, p, merge_by, jos)
     ELSE AddToSet(profiles, Min(at), p, merge_by, jos)

\* One turn of arrange_profiles' loop: result has the classes, as a function of
\* the templates, and whether there was an error.
AddToClass(result, t, old, p, merge_by, jos) ==
  LET at == SetsOf(old, p)
  IN IF at # {} /\ SetParsedTwice(old[Min(at)], p, merge_by, jos)
     THEN [result EXCEPT !.ok = FALSE]
     ELSE [result EXCEPT !.classes = [s \in DOMAIN @ \cup {t} |->
             IF s = t THEN add_profile(old, p, merge_by, jos) ELSE @[s]]]
Classify(result, t, p, merge_by, jos) ==
  AddToClass(result, t, IF t \in DOMAIN result.classes THEN result.classes[t] ELSE <<>>,
             p, merge_by, jos)
ArrangeOne(result, q, merge_by, jos) ==
  LET p == IF "lib" \in merge_by THEN [q EXCEPT !.image = q.lib_image] ELSE q
  IN IF ~q.ok THEN [result EXCEPT !.ok = FALSE]
     ELSE Classify(result, template_from_profile(p, merge_by), p, merge_by, jos)

\* arrange_profiles, up to the naming of the classes.
Arrange(files, merge_by, jos) ==
  FoldLeft(LAMBDA result, f :
             IF result.ok THEN ArrangeOne(result, parse_filename(f, jos), merge_by, jos) ELSE result,
           [ok |-> TRUE, classes |-> <<>>], files)

\* The order of the columns; that of events is taken as that of their numbers.
ColumnOrder == <<"cpu", "tgid", "tid", "unitmask", "event", "count">>
class_less(t, u) ==
  LET order == ColumnOrder
  IN \E k \in DOMAIN order : /\ \A j \in 1..k - 1 : t[order[j]] = u[order[j]]
                             /\ t[order[k]] < u[order[k]]
SortClasses(classes) ==
  SetToSortSeq(DOMAIN classes, LAMBDA t, u : class_less(t, u))

-----------------------------------------------------------------------------
(* Naming the classes.                                                     *)

Axes == <<"event", "tgid", "tid", "cpu">>
NoAxis == "max"

\* allow_axes: a second axis is accepted only where thread and process are the same.
allow_axes(v, axis, new) ==
  \/ axis = NoAxis
  \/ {axis, new} \subseteq {"tid", "tgid"} /\ \A k \in DOMAIN v : v[k].tgid = v[k].tid

\* identify_classes: the axis on which the classes differ from the first, or
\* "failed" (report_error).
Changed(v, merge_by, axis) ==
  CASE axis = "event" ->
         \/ Len(v) = 1
         \/ \E k \in 2..Len(v) : \/ v[k].event # v[1].event \/ v[k].count # v[1].count
                                 \/ "unitmask" \notin merge_by /\ v[k].unitmask # v[1].unitmask
    [] OTHER -> axis \notin merge_by /\ \E k \in 2..Len(v) : v[k][axis] # v[1][axis]
identify_classes(v, merge_by) ==
  FoldLeft(LAMBDA axis, new :
             IF axis = "failed" \/ ~Changed(v, merge_by, new) THEN axis
             ELSE IF allow_axes(v, axis, new) THEN new ELSE "failed",
           NoAxis, Axes)

\* name_classes: what a column's head says.
name_class(t, axis) ==
  CASE axis = "event" -> <<t.event, t.count>>
    [] axis = "tgid" -> <<t.tgid>>
    [] axis = "tid" -> <<t.tid>>
    [] axis = "cpu" -> <<t.cpu>>

\* The header of a class has the unit masks of all of its files if those are merged.
ClassFiles(profiles) ==
  UNION {UNION {Range(FilesOf(s)) : s \in Range(set.files) \cup UNION {Range(d.files) : d \in Range(set.deps)}} :
         set \in Range(profiles)}
get_header(profiles, merge_by) ==
  LET first == profiles[1]
      slot == IF first.files # <<>> THEN first.files[1] ELSE first.deps[1].files[1]
  IN IF "unitmask" \in merge_by THEN {f.unitmask : f \in ClassFiles(<<first>>)}
     ELSE {FilesOf(slot)[1].unitmask}

-----------------------------------------------------------------------------
(* invert_profiles                                                         *)

\* The groups of an image: for each class, the applications and their slots.
InvertedImages(classes) ==
  {set.image : set \in {s \in UNION {Range(classes[t]) : t \in DOMAIN classes} : s.files # <<>>}}
  \cup {d.lib_image : d \in UNION {Range(s.deps) : s \in UNION {Range(classes[t]) : t \in DOMAIN classes}}}
add_to_group(set, image) ==
  (IF set.image = image /\ set.files # <<>> THEN <<[app_image |-> set.image, files |-> set.files]>> ELSE <<>>)
  \o LET deps == SelectSeq(set.deps, LAMBDA d : d.lib_image = image)
     IN [k \in DOMAIN deps |-> [app_image |-> set.image, files |-> deps[k].files]]
invert_profiles(classes) ==
  [image \in InvertedImages(classes) |->
     [t \in DOMAIN classes |->
        FlattenSeq([k \in DOMAIN classes[t] |-> add_to_group(classes[t][k], image)])]]

-----------------------------------------------------------------------------
(* What the reports rely on.                                               *)

Places(inv, classes, f) ==
  {<<image, t, k, s>> \in (DOMAIN inv) \X (DOMAIN classes) \X (1..9) \X (1..9) :
     /\ k \in DOMAIN inv[image][t] /\ s \in DOMAIN inv[image][t][k].files
     /\ f \in Range(FilesOf(inv[image][t][k].files[s]))}
SlotAt(inv, p) == inv[p[1]][p[2]][p[3]].files[p[4]]

\* Each file is in one place, under its application, image and class, and a
\* call graph's file with the plain one of the same profile; parsed has the
\* parsed names of the files, places where each file is.
InPlace(inv, parsed, places, merge_by) ==
  \A f \in DOMAIN parsed :
    /\ Cardinality(places[f]) = 1
    /\ \A p \in places[f] :
         /\ p[1] = parsed[f].lib_image
         /\ p[2] = template_from_profile(parsed[f], merge_by)
         /\ "lib" \notin merge_by => inv[p[1]][p[2]][p[3]].app_image = parsed[f].image
         /\ \A g \in DOMAIN parsed : \A q \in places[g] :
              SlotAt(inv, p) = SlotAt(inv, q) => /\ parsed[g].image = parsed[f].image
                                                 /\ profile_spec_equal(parsed[f], parsed[g])
ArrangedIn(classes, inv, parsed, merge_by) ==
  InPlace(inv, parsed, [f \in DOMAIN parsed |-> Places(inv, classes, f)], merge_by)

\* Columns that are accepted have heads of their own, or unit masks that their headers
\* tell.
ColumnsTold(classes, v, axis, merge_by) ==
  /\ axis # NoAxis
  /\ axis # "failed" =>
       \A j, k \in DOMAIN v : j # k =>
         \/ name_class(v[j], axis) # name_class(v[k], axis)
         \/ /\ axis = "event"
            /\ get_header(classes[v[j]], merge_by) # get_header(classes[v[k]], merge_by)
ColumnsNamed(classes, v, merge_by) == ColumnsTold(classes, v, identify_classes(v, merge_by), merge_by)

WellArranged(result, parsed, merge_by) ==
  /\ result.ok
  /\ ArrangedIn(result.classes, invert_profiles(result.classes), parsed, merge_by)
  /\ ColumnsNamed(result.classes, SortClasses(result.classes), merge_by)
Arranged(files, merge_by, jos) ==
  WellArranged(Arrange(files, merge_by, jos),
               [f \in Range(files) |-> parse_filename(f, jos)], merge_by)

=============================================================================
