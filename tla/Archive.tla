------------------------------ MODULE Archive ------------------------------
(***************************************************************************)
(* oparchive.cpp: the sample files of a selection, the images they are of  *)
(* and the debug files of those are copied below a directory, for a report *)
(* on another machine.  debug has the debug file of an image that has one. *)
(***************************************************************************)
EXTENDS ArrangeProfiles

copy_one_file(extra, source, dest) == IF source \in extra.exists THEN {dest} ELSE {}

\* A debug file goes where it is looked for next to the image.
copy_debug_file(extra, debug, out, real) ==
  IF real \in extra.exists /\ real \in DOMAIN debug
  THEN copy_one_file(extra, debug[real], out \o Front(real) \o <<<<".debug">>, Last(debug[real])>>)
  ELSE {}

\* "anon " is the only name of a region that is left out at once; there is no file to
\* copy for the others.
copy_image(extra, debug, out, image, located) ==
  LET exe == IF located.error = image_ok THEN strip_path_prefix(extra, located.path) ELSE image
  IN IF located.error = image_not_found /\ image[1][1] = "anon" THEN {}
     ELSE copy_one_file(extra, located.path, out \o exe)
          \cup copy_debug_file(extra, debug, out, located.path)

\* The name of a sample file without the archive it was in
copy_sample(extra, out, file) ==
  [file EXCEPT !.path = out \o SubSeq(@, Len(extra.archive) + 1, Len(@))]

\* handle_options merges by everything, so that arrange_profiles refuses no combination.
oparchive(extra, debug, out, files, jos) ==
  LET images == InvertedImages(Arrange(files, MergeNames, jos).classes)
  IN [files |-> UNION {copy_image(extra, debug, out, image, find_image_path(extra, image)) :
                       image \in images},
      samples |-> [k \in DOMAIN files |-> copy_sample(extra, out, files[k])]]

-----------------------------------------------------------------------------
(* What the archive has to be.                                             *)

\* Elsewhere, a report of the archive selects the samples that were archived, and finds
\* each image that was found, in the archive, with its debug file.
Kept(extra, debug, spec, images, a, away, dir) ==
  /\ a.samples # <<>> =>
       generate_file_list(create(spec, away), away, dir, Range(a.samples), {}, FALSE, FALSE).files
         = Range(a.samples)
  /\ \A image \in images :
       LET here == find_image_path(extra, image)
           there == find_image_path(away, image)
       IN here.error = image_ok =>
            /\ there.error = image_ok /\ there.path = away.archive \o strip_path_prefix(extra, here.path)
            /\ extra.archive = <<>> /\ here.path \in DOMAIN debug =>
                 Front(there.path) \o <<<<".debug">>, Last(debug[here.path])>> \in away.exists

=============================================================================
