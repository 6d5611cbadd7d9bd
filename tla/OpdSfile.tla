------------------------------ MODULE OpdSfile ------------------------------
(***************************************************************************)
(* daemon/opd_sfile.c and opd_open_sample_file of daemon/opd_mangling.c,   *)
(* with odb_open and odb_close of libdb/db_manage.c and the lists of       *)
(* libutil/op_list.h: the life of the daemon's sfiles and of the sample    *)
(* files they hold open.                                                   *)
(*                                                                         *)
(* Every sfile is on a doubly linked list, least recently used first; the  *)
(* links are modelled as the pointers they are.  While a sample file is    *)
(* being opened the sfiles in use are taken off the list, so that they     *)
(* survive when the table of open files is full and others are freed.      *)
(*                                                                         *)
(* An sfile has one counter here.  Its handles are <<sf, NoTo>>, its own   *)
(* samples, and <<sf, to>>, the arcs from it to the sfile to (a cg_entry). *)
(* Every handle has a file name of its own.  Which sfile a sample belongs  *)
(* to is the subject of OpdTrans.                                          *)
(***************************************************************************)
EXTENDS Naturals, FiniteSets

CONSTANTS
  KernelSfiles,  \* descriptions of sfiles of kernel images
  OtherSfiles,   \* descriptions of all others
  MaxFds,        \* sample files the process may have open
  LRU_AMOUNT,
  MaxEntries     \* bound: entries for arcs at a time

ASSUME SfileAssumption ==
  /\ KernelSfiles \cap OtherSfiles = {}
  /\ IsFiniteSet(KernelSfiles \cup OtherSfiles)
  /\ MaxFds \in Nat \ {0} /\ MaxEntries \in Nat /\ LRU_AMOUNT \in Nat /\ LRU_AMOUNT >= 2

Sfiles == KernelSfiles \cup OtherSfiles
lru_list == "lru_list"
NULL == "NULL"
NoTo == "samples"
NoFile == <<>>
Links == Sfiles \cup {lru_list}
Handles == Sfiles \X (Sfiles \cup {NoTo})

ASSUME NamesDistinct == {lru_list, NULL, NoTo} \cap Sfiles = {}

VARIABLES
  live,     \* sfiles that exist
  links,    \* [next, prev]: the links of lru_list and of every sfile's lru
  cg,       \* cg_hash: the sfiles an sfile has an entry for arcs to
  open,     \* handles whose odb is open
  current, last, \* of the transient
  pc,       \* "idle", "opening" (between sfile_get and sfile_put), "aborted"
  file    \* opening: the handle, NoFile otherwise

vars == <<live, links, cg, open, current, last, pc, file>>

-----------------------------------------------------------------------------
(* op_list.h                                                               *)

list_del(l, x) ==
  [next |-> [l.next EXCEPT ![l.prev[x]] = l.next[x]],
   prev |-> [l.prev EXCEPT ![l.next[x]] = l.prev[x]]]

\* __list_add(x, head->prev, head), its four stores in their order.
list_add_tail(l, x) ==
  LET tail == l.prev[lru_list]
  IN  [prev |-> [[l.prev EXCEPT ![lru_list] = x] EXCEPT ![x] = tail],
       next |-> [[l.next EXCEPT ![x] = lru_list] EXCEPT ![tail] = x]]

\* The nth entry from the head; walking on from the head stays there.
Walk(l) ==
  LET at[n \in 0..Cardinality(Sfiles)] ==
        IF n = 0 THEN l.next[lru_list]
        ELSE IF at[n - 1] = lru_list THEN lru_list ELSE l.next[at[n - 1]]
  IN  at

First(l, k) == {Walk(l)[n] : n \in {m \in 0..Cardinality(Sfiles) : m < k}} \ {lru_list}
OnList(l) == First(l, Cardinality(Sfiles) + 1)

sfile_get(l, sf) == IF sf = NULL THEN l ELSE list_del(l, sf)

sfile_put(l, sf) == IF sf = NULL THEN l ELSE list_add_tail(l, sf)


\* Mutant: the sfile an arc leads to is not protected.
GetBoth_CurrentOnly(l) == sfile_get(l, current)

GetBoth(l) == IF current # last THEN sfile_get(sfile_get(l, current), last)
              ELSE sfile_get(l, current)
PutBoth(l) == IF current # last THEN sfile_put(sfile_put(l, current), last)
              ELSE sfile_put(l, current)

-----------------------------------------------------------------------------
Init ==
  /\ live = {}
  /\ links = [next |-> [x \in Links |-> x], prev |-> [x \in Links |-> x]]
  /\ cg = [s \in Sfiles |-> {}]
  /\ open = {}
  /\ current = NULL /\ last = NULL
  /\ pc = "idle" /\ file = NoFile

\* Mutant: an sfile that exists is put again without being taken off.
sfile_find_PutAgain(sf) ==
  /\ pc = "idle" /\ current = NULL
  /\ live' = live \cup {sf}
  /\ links' = sfile_put(links, sf)
  /\ current' = sf
  /\ UNCHANGED <<cg, open, last, pc, file>>

\* sfile_find of an sfile that exists moves it to the end of the list; a new
\* one is put there, with nothing open.
sfile_find(sf) ==
  /\ pc = "idle" /\ current = NULL
  /\ live' = live \cup {sf}
  /\ links' = sfile_put(IF sf \in live THEN sfile_get(links, sf) ELSE links, sf)
  /\ current' = sf
  /\ UNCHANGED <<cg, open, last, pc, file>>

\* update_trans_last, at the end of every sample.
Logged == /\ pc' = "idle" /\ file' = NoFile
          /\ last' = current
          /\ UNCHANGED <<current, live>>

\* sfile_log_sample_count: an arc is logged when there is a last sample.
Logs(is_cg) == /\ pc = "idle" /\ current # NULL
               /\ is_cg => last # NULL

FileOf(is_cg) == <<current, IF is_cg THEN last ELSE NoTo>>

\* The entry for arcs to last is found, or added.
GetEntry(is_cg) ==
  /\ cg' = IF is_cg THEN [cg EXCEPT ![current] = @ \cup {last}] ELSE cg
  /\ Cardinality({h \in Sfiles \X Sfiles : h[2] \in cg'[h[1]]}) <= MaxEntries

\* get_file, when the file is open already.
GetOpenFile(is_cg) ==
  /\ Logs(is_cg)
  /\ FileOf(is_cg) \in open
  /\ Logged
  /\ UNCHANGED <<links, cg, open>>

\* get_file and the first part of opd_open_sample_file, up to sfile_get.
BeginOpen(is_cg) ==
  /\ Logs(is_cg)
  /\ FileOf(is_cg) \notin open
  /\ GetEntry(is_cg)
  /\ pc' = "opening" /\ file' = FileOf(is_cg)
  /\ links' = GetBoth(links)
  /\ UNCHANGED <<live, open, current, last>>

\* No name can be mangled: the sample is lost.
MangleFails(is_cg) ==
  /\ Logs(is_cg)
  /\ FileOf(is_cg) \notin open
  /\ GetEntry(is_cg)
  /\ Logged
  /\ UNCHANGED <<links, open>>

\* create_path fails (a full disk, or a race with opcontrol --reset): goto out,
\* past the calls of sfile_get.  Sfiles that are on the list are put on it once
\* more; what the daemon does with such a list is not followed.
PathFails(is_cg) ==
  /\ Logs(is_cg)
  /\ FileOf(is_cg) \notin open
  /\ GetEntry(is_cg)
  /\ links' = PutBoth(links)
  /\ pc' = "broken" /\ file' = NoFile
  /\ last' = current
  /\ UNCHANGED <<current, live, open>>

\* A sample whose sfile, or the one before it, the image filter excludes.
SampleIgnored ==
  /\ pc = "idle" /\ current # NULL
  /\ Logged
  /\ UNCHANGED <<links, cg, open>>

OpenSucceeds ==
  /\ pc = "opening" /\ Cardinality(open) < MaxFds
  /\ open' = open \cup {file}
  /\ links' = PutBoth(links)
  /\ Logged
  /\ UNCHANGED cg

\* Any error but EMFILE, such as a race with opcontrol --reset.
OpenFails ==
  /\ pc = "opening" /\ Cardinality(open) < MaxFds
  /\ links' = PutBoth(links)
  /\ Logged
  /\ UNCHANGED <<cg, open>>

-----------------------------------------------------------------------------
(* Freeing sfiles                                                          *)

\* What the links of freed memory hold is of no account.
Unlinked(l, gone) ==
  [next |-> [x \in Links |-> IF x \in gone THEN x ELSE l.next[x]],
   prev |-> [x \in Links |-> IF x \in gone THEN x ELSE l.prev[x]]]

\* list_for_each_safe with a list_del of those that go, first to last.
DelEach(l, gone) ==
  LET walk == Walk(l)
      after[n \in 0..Cardinality(Sfiles)] ==
        IF n = 0 THEN l
        ELSE IF walk[n - 1] \in gone THEN list_del(after[n - 1], walk[n - 1])
        ELSE after[n - 1]
  IN  after[Cardinality(Sfiles)]

\* for_one_sfile with a function that selects what is to be freed, for every
\* sfile in "visited": those selected go with their entries, and from the
\* others the entries for arcs to a selected one.
FreeSelected(l, visited, selected) ==
  LET gone == visited \cap selected
  IN  /\ live' = live \ gone
      /\ links' = Unlinked(DelEach(l, gone), gone)
      /\ cg' = [s \in Sfiles |-> IF s \in gone THEN {}
                                 ELSE IF s \in visited THEN cg[s] \ selected
                                 ELSE cg[s]]
      /\ open' = {h \in open : /\ h[1] \notin gone
                               /\ ~(h[1] \in visited /\ h[2] \in selected)}

\* Mutant: the amount is decremented once more.
sfile_lru_clear_OneLess == FreeSelected(links, First(links, LRU_AMOUNT - 2), Sfiles)

\* The table of open files is full.  The amount is decremented before
\* it is tested: LRU_AMOUNT - 1 of the oldest are freed.
sfile_lru_clear == FreeSelected(links, First(links, LRU_AMOUNT - 1), Sfiles)

OpenEMFILE ==
  /\ pc = "opening" /\ Cardinality(open) = MaxFds
  /\ OnList(links) # {}
  /\ sfile_lru_clear
  /\ UNCHANGED <<current, last, pc, file>>

\* "LRU cleared but odb_open() fails": abort.
OpenAborts ==
  /\ pc = "opening" /\ Cardinality(open) = MaxFds
  /\ OnList(links) = {}
  /\ pc' = "aborted"
  /\ UNCHANGED <<live, links, cg, open, current, last, file>>

\* complete_dump, after a buffer, when there is no descriptor for its file.
CompleteDumpEMFILE ==
  /\ pc = "idle" /\ current = NULL /\ last = NULL
  /\ Cardinality(open) = MaxFds /\ OnList(links) # {}
  /\ sfile_lru_clear
  /\ UNCHANGED <<current, last, pc, file>>

\* opd_reread_module_info, for code_module_loaded.
sfile_clear_kernel ==
  /\ pc = "idle"
  /\ FreeSelected(links, OnList(links), KernelSfiles)
  /\ current' = NULL /\ last' = NULL
  /\ UNCHANGED <<pc, file>>

\* The mapping of an anonymous sfile is forgotten; clear_anon_maps and do_lru
\* clear what the transient caches of it.
sfile_clear_anon(sf) ==
  /\ pc = "idle" /\ sf \in OtherSfiles
  /\ FreeSelected(links, OnList(links), {sf})
  /\ current' = (IF current = sf THEN NULL ELSE current)
  /\ last' = (IF last = sf THEN NULL ELSE last)
  /\ UNCHANGED <<pc, file>>

\* opd_sighup, between two buffers: the files of every sfile, and of its
\* entries, are closed; they are opened again when they are needed.
sfile_close_files ==
  /\ pc = "idle" /\ current = NULL /\ last = NULL
  /\ open' = {h \in open : h[1] \notin OnList(links)}
  /\ UNCHANGED <<live, links, cg, current, last, pc, file>>

\* The codes that clear the cached sfiles, and the end of a buffer.
ClearCurrent ==
  /\ pc = "idle" /\ current # NULL
  /\ current' = NULL
  /\ UNCHANGED <<live, links, cg, open, last, pc, file>>

ClearBoth ==
  /\ pc = "idle" /\ last # NULL
  /\ current' = NULL /\ last' = NULL
  /\ UNCHANGED <<live, links, cg, open, pc, file>>

Opening == OpenSucceeds \/ OpenFails \/ OpenEMFILE \/ OpenAborts

Next ==
  \/ \E sf \in Sfiles : sfile_find(sf)
  \/ \E is_cg \in BOOLEAN : GetOpenFile(is_cg) \/ BeginOpen(is_cg)
                              \/ MangleFails(is_cg) \/ PathFails(is_cg)
  \/ SampleIgnored \/ Opening
  \/ CompleteDumpEMFILE \/ sfile_clear_kernel \/ sfile_close_files
  \/ \E sf \in OtherSfiles : sfile_clear_anon(sf)
  \/ ClearCurrent \/ ClearBoth

Spec == Init /\ [][Next]_vars

\* The daemon runs on inside opd_open_sample_file: nothing there waits.
FairSpec == Spec /\ WF_vars(Opening)

-----------------------------------------------------------------------------
(* Properties                                                              *)

\* The state has its shape.
TypeOK ==
  /\ live \subseteq Sfiles
  /\ links \in [next : [Links -> Links], prev : [Links -> Links]]
  /\ cg \in [Sfiles -> SUBSET Sfiles]
  /\ open \subseteq Handles
  /\ {current, last} \subseteq Sfiles \cup {NULL}
  /\ pc \in {"idle", "opening", "aborted", "broken"}
  /\ file \in Handles \cup {NoFile}

\* Sfiles sfile_get has taken off the list.
InUse == IF pc = "idle" THEN {} ELSE {current, last}

\* "All sfiles are on this list" (opd_sfile.c): each exactly once, the walks of
\* for_each_sfile end, and the links agree in both directions.  Only while a
\* file is opened are the sfiles in use off it.  One error path does not keep
\* this, PathFails; without it nothing breaks the list.
LruComplete ==
  /\ TypeOK
  /\ pc # "broken" =>
       /\ OnList(links) = live \ InUse
       /\ Walk(links)[Cardinality(Sfiles)] = lru_list
       /\ \A x \in OnList(links) \cup {lru_list} : links.prev[links.next[x]] = x

\* No sample file is left open by what is freed: an open handle is that of an
\* sfile that exists, or of an entry for arcs that it has.
HandlesOwned ==
  \A h \in open : h[1] \in live /\ h[2] \in cg[h[1]] \cup {NoTo}

\* "the current sfiles we're using will not be present in this list": no sfile
\* is freed while the transient refers to it, however often files run out, and
\* one that is freed leaves no file open.
InUseLive == {current, last} \subseteq live \cup {NULL} /\ HandlesOwned

\* The daemon gives up for lack of files only when every file that is open
\* belongs to the sfiles in use.
AbortJustified == pc = "aborted" => \A h \in open : h[1] \in {current, last}

\* The retry loop of opd_open_sample_file ends: the file is opened, or the
\* daemon aborts, and that only with nothing left to close.
OpenEnds == /\ pc = "opening" ~> pc # "opening"
            /\ []AbortJustified
=============================================================================
