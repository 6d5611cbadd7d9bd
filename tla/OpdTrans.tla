------------------------------ MODULE OpdTrans ------------------------------
(***************************************************************************)
(* daemon/opd_trans.c, with the parts of opd_sfile.c, opd_anon.c,          *)
(* opd_kernel.c and opd_cookie.c it calls: oprofiled decodes the kernel's  *)
(* event buffer.  Escape codes change a context (struct transient); a      *)
(* sample is attributed to the sfile that matches the context, which is    *)
(* cached from one sample to the next, as are anonymous mappings, kernel   *)
(* modules and what /proc says of a process.                               *)
(*                                                                         *)
(* One action is one entry of the buffer.  A pointer is the object it      *)
(* points to, as it was made; one that is in no list any more was freed.   *)
(***************************************************************************)
EXTENDS Integers, Sequences, SequencesExt, FiniteSets, FiniteSetsExt

CONSTANTS
  Load,         \* the machine's load under each configuration the daemon is
                \* started with, a set of "lib", "kernel", "thread", "cpu" (the
                \* separate_* flags), "no_vmlinux", "xen" (not no_xen) and "ibs"
                \* (an extended feature).  A load has the fields
                \*   tasks: what a context switch announces, [tid, tgid, app_cookie]
                \*   cpus
                \*   cookies: of binaries; may include NO_COOKIE
                \*   pcs: addresses samples are taken at
                \*   modules: ranges /proc/modules may list
                \*   regions: anonymous regions /proc/<pid>/maps may list
  Events,       \* counters
  VmlinuxRange, XenRange, \* [start, end] of the vmlinux and of the Xen image
  MaxRegions,   \* bound: regions of one process at a time
  Ignored,      \* cookies of binaries the image filter excludes
  LRU_SIZE, LRU_AMOUNT, \* of the cache of anonymous mappings
  MaxSfiles     \* bound: sfiles that exist at a time

NO_COOKIE == "no"
INVALID_COOKIE == "invalid"

Configs == DOMAIN Load

ASSUME TransAssumption ==
  /\ Configs \subseteq SUBSET {"lib", "kernel", "thread", "cpu", "no_vmlinux", "xen", "ibs"}
  \* oprofiled.c: separate_kernel sets separate_lib
  /\ \A c \in Configs : "kernel" \in c => "lib" \in c
  /\ \A r \in {VmlinuxRange, XenRange}
             \cup UNION {Load[c].modules \cup Load[c].regions : c \in Configs} :
       r.start \in Nat /\ r.end \in Nat /\ 0 < r.start /\ r.start < r.end
  /\ MaxRegions \in Nat
  /\ LRU_SIZE \in Nat /\ LRU_AMOUNT \in Nat /\ LRU_SIZE > LRU_AMOUNT + 1

VARIABLES
  config,  \* the separate_* flags, fixed when the daemon starts
  trans,   \* struct transient
  sfiles,  \* the set of sfiles
  anons,   \* anonymous mappings, oldest first (lru of opd_anon.c)
  modules, \* kernel module images of the last opd_reread_module_info
  kcmd,    \* kernel_cmdlines: tgid -> "has", "none"; "unknown" if not listed
  logged,  \* what became of the last entry of the buffer, if it was a sample
  prev,    \* history: pc and sfile of the sample before, when it had an sfile
  found_pc \* history: pc of the sample the cached sfile was found for, 0 if none is

vars == <<config, trans, sfiles, anons, modules, kcmd, logged, prev, found_pc>>

InRange(range, pc) == range.start <= pc /\ pc < range.end

Tgids == {t.tgid : t \in UNION {Load[c].tasks : c \in Configs}}
Vmlinux == [start |-> VmlinuxRange.start, end |-> VmlinuxRange.end, gen |-> 0]
Xen == [start |-> XenRange.start, end |-> XenRange.end, gen |-> 0]
NULL == [start |-> 0]
NoLog == "none"
NoPrev == <<>>

InitTrans ==
  [in_kernel |-> -1, cookie |-> INVALID_COOKIE, app_cookie |-> INVALID_COOKIE,
   tid |-> -1, tgid |-> -1, cpu |-> -1, tracing |-> "OFF",
   current |-> NULL, anon |-> NULL, last |-> NULL, last_anon |-> NULL, last_pc |-> 0,
   pc |-> 0, event |-> 0]

Init ==
  /\ config \in Configs
  /\ trans = InitTrans
  /\ sfiles = {}
  /\ anons = <<>>
  /\ modules = {}
  /\ kcmd = [g \in Tgids |-> "unknown"]
  /\ logged = NoLog
  /\ prev = NoPrev
  /\ found_pc = 0

clear_trans_current(t) == [t EXCEPT !.current = NULL, !.anon = NULL]
clear_trans_last(t) == [t EXCEPT !.last = NULL, !.last_anon = NULL]

-----------------------------------------------------------------------------
(* opd_anon.c.  w is [t, sf, an]: the transient, the sfiles, the mappings. *)

\* sfile_clear_anon of every mapping in gone.
sfile_clear_anon(sf, gone) == {x \in sf : x.anon \notin gone}

Without(an, gone) == FoldLeft(LAMBDA kept, m : IF m \in gone THEN kept ELSE Append(kept, m),
                              <<>>, an)

ForgetAnons(w, gone) ==
  [t  |-> LET t == IF w.t.anon \in gone THEN clear_trans_current(w.t) ELSE w.t
          IN  IF t.last_anon \in gone THEN clear_trans_last(t) ELSE t,
   sf |-> sfile_clear_anon(w.sf, gone),
   an |-> Without(w.an, gone)]

\* nr_to_kill-- == 0 is tested after a kill: LRU_AMOUNT + 1 of the oldest go.
do_lru(w) == ForgetAnons(w, {w.an[i] : i \in 1..(LRU_AMOUNT + 1)})

clear_anon_maps(w) ==
  ForgetAnons([w EXCEPT !.t = clear_trans_current(@)],
              {m \in ToSet(w.an) : m.tgid = w.t.tgid /\ m.app_cookie = w.t.app_cookie})

add_anon_mapping(w, r) ==
  LET w2 == [w EXCEPT !.an = Append(@, [tgid |-> w.t.tgid, app_cookie |-> w.t.app_cookie,
                                        start |-> r.start, end |-> r.end])]
  IN  IF Len(w2.an) = LRU_SIZE THEN do_lru(w2) ELSE w2

\* What /proc/<pid>/maps may list: regions by address, which do not overlap.
Listings ==
  {list \in UNION {[1..n -> Load[config].regions] : n \in 0..MaxRegions} :
     \A i, j \in DOMAIN list : i < j => list[i].end <= list[j].start}

\* list is that of the process trans.tgid (there is none for tgid -1).
get_anon_maps(w, list) ==
  IF w.t.tgid \notin Tgids THEN w ELSE FoldLeft(add_anon_mapping, w, list)

anon_match(t, m) == /\ m.tgid = t.tgid /\ m.app_cookie = t.app_cookie
                    /\ InRange(m, t.pc)

Matches(w) == {m \in ToSet(w.an) : anon_match(w.t, m)}

\* The transient with its anon set, after a second try if the first misses.
\* The regions of a process do not overlap: at most one matches.
find_anon_mapping(w, list) ==
  LET again == get_anon_maps(clear_anon_maps(w), list)
      found(x) == IF Matches(x) = {} THEN NULL ELSE CHOOSE m \in Matches(x) : TRUE
  IN  IF Matches(w) # {} THEN [w EXCEPT !.t.anon = found(w)]
      ELSE [again EXCEPT !.t.anon = found(again)]

-----------------------------------------------------------------------------
(* opd_kernel.c, opd_cookie.c                                              *)

find_kernel_image(t) ==
  IF "no_vmlinux" \in config \/ InRange(Vmlinux, t.pc) THEN Vmlinux
  ELSE IF \E m \in modules : InRange(m, t.pc)
  THEN CHOOSE m \in modules : InRange(m, t.pc)
  ELSE IF "xen" \in config /\ InRange(Xen, t.pc) THEN Xen
  ELSE NULL

is_cookie_ignored(c) == c \in {INVALID_COOKIE, NO_COOKIE} \/ c \in Ignored

-----------------------------------------------------------------------------
(* opd_sfile.c: matching, hashing and creating sfiles                      *)

OwnedByApp(anon, ki) ==
  "kernel" \in config \/ ((anon # NULL \/ "lib" \in config) /\ ki = NULL)

\* The values the hash folds together.
sfile_hash(t, ki) ==
  <<IF "thread" \in config THEN <<t.tid, t.tgid>> ELSE <<>>,
    IF OwnedByApp(t.anon, ki) THEN <<t.app_cookie>> ELSE <<>>,
    IF "cpu" \in config THEN <<t.cpu>> ELSE <<>>,
    IF t.in_kernel # 0 /\ ki # NULL THEN <<"kernel", ki.start, ki.end>>
    ELSE IF t.cookie # NO_COOKIE THEN <<"binary", t.cookie>>
    ELSE <<"anon", t.tgid, t.anon.start, t.anon.end>> >>

do_match(sf, t, ki) ==
  /\ sf.kernel = ki
  /\ "thread" \in config => sf.tid = t.tid /\ sf.tgid = t.tgid
  /\ "cpu" \in config => sf.cpu = t.cpu
  /\ OwnedByApp(t.anon, ki) => sf.app_cookie = t.app_cookie
  /\ ki = NULL => sf.anon = t.anon /\ sf.cookie = t.cookie

\* No kernel image is excluded by the filter here.
is_sf_ignored(sf) ==
  /\ sf.kernel = NULL
  /\ sf.anon # NULL \/ is_cookie_ignored(sf.cookie)
  /\ is_cookie_ignored(sf.app_cookie)

create_sfile(hash, t, ki) ==
  LET sf == [hashval |-> hash,
             cookie |-> IF t.in_kernel # 0 THEN INVALID_COOKIE ELSE t.cookie,
             app_cookie |-> IF OwnedByApp(t.anon, ki) THEN t.app_cookie
                            ELSE INVALID_COOKIE,
             tid |-> IF "thread" \in config THEN t.tid ELSE -1,
             tgid |-> IF "thread" \in config \/ t.cookie = NO_COOKIE THEN t.tgid ELSE -1,
             cpu |-> IF "cpu" \in config THEN t.cpu ELSE 0,
             kernel |-> ki,
             anon |-> t.anon,
             ignored |-> FALSE]
  IN  [sf EXCEPT !.ignored = is_sf_ignored(sf)]

\* Tasks 0, 1 and 2 are pure kernel tasks.
KernelTasks == {0, 1, 2}

\* Whether a kernel sample is looked up in, or added to, kernel_cmdlines.
AsksCmdline(t, ki) == /\ t.in_kernel = 1 /\ ki # NULL
                      /\ t.tgid \notin KernelTasks /\ t.app_cookie = NO_COOKIE

\* Why sfile_find returns NULL, "" when it does not.
LossReason(t, ki, cmdline) ==
  IF t.in_kernel = -1 THEN "NO_CTX"
  ELSE IF t.in_kernel = 1 /\ ki = NULL THEN "LOST_KERNEL"
  ELSE IF AsksCmdline(t, ki) /\ cmdline = "has" THEN "NO_APP_KERNEL_SAMPLE"
  ELSE IF t.in_kernel = 0 /\ t.cookie = NO_COOKIE /\ t.anon = NULL THEN "LOST_NO_MAPPING"
  ELSE ""

\* The sfile found in the bucket of the hash, or a new one.
sfile_find(w, ki) ==
  LET hash  == sfile_hash(w.t, ki)
      found == {x \in w.sf : x.hashval = hash /\ do_match(x, w.t, ki)}
      new   == create_sfile(hash, w.t, ki)
  IN  IF found # {} THEN [w EXCEPT !.t.current = CHOOSE x \in found : TRUE]
      ELSE [w EXCEPT !.t.current = new, !.sf = @ \cup {new}]

-----------------------------------------------------------------------------
(* opd_put_sample                                                          *)

\* Mutant: a sample without an sfile leaves the one before it in place.
update_trans_last_IfFound(t) ==
  IF t.current = NULL THEN t
  ELSE [t EXCEPT !.last = t.current, !.last_anon = t.anon, !.last_pc = t.pc]

update_trans_last(t) == [t EXCEPT !.last = t.current, !.last_anon = t.anon,
                                  !.last_pc = t.pc]

\* sfile_lru_clear, when the table of open files is full: every sfile goes but
\* the two sfile_get has taken off the list (LRU_AMOUNT is larger than the
\* number of sfiles here).
sfile_lru_clear(w) == [w EXCEPT !.sf = @ \cap {w.t.current, w.t.last}]

\* What sfile_log_sample_count does with the sample, or why it is not called.  An IBS sample is
\* logged if its registers imply a selected event, also when its image is ignored.
Fate(log, t, reason) ==
  IF t.current = NULL THEN reason
  ELSE IF log = "ibs" THEN "sample"
  ELSE IF log = "ibs_no_event" THEN NoLog
  ELSE IF t.current.ignored \/ (t.last # NULL /\ t.last.ignored) THEN "ignored"
  ELSE IF t.tracing # "ON" THEN "sample"
  ELSE IF t.last # NULL THEN "arc"
  ELSE "no_arc"

\* What the transient is when opd_put_sample has taken pc and event.
Taken(pc, event) == [trans EXCEPT !.pc = pc,
                                  !.event = IF trans.tracing # "ON" THEN event ELSE @]
Sampled(t) ==
  [t |-> IF t.in_kernel # 0 THEN clear_trans_current(t) ELSE t, sf |-> sfiles, an |-> anons]

\* The outcomes of find_anon_mapping, where it is called: they differ in what
\* /proc/<tgid>/maps says, if it is read.
Located(w) ==
  LET maps == IF Matches(w) # {} THEN {<<>>} ELSE Listings
  IN  IF w.t.in_kernel = 0 /\ w.t.cookie = NO_COOKIE
      THEN {find_anon_mapping(w, list) : list \in maps} ELSE {w}

\* What kernel_cmdlines, or /proc/<tgid>/cmdline, says, if it is asked.
Cmdlines(w, asks) ==
  IF ~asks THEN {"none"}
  ELSE IF kcmd[w.t.tgid] = "unknown" THEN {"has", "none"} ELSE {kcmd[w.t.tgid]}

\* Opening the sample file may find the table of open files full.
Opened(w, fate) ==
  IF fate \in {"sample", "arc"} THEN {w, sfile_lru_clear(w)} ELSE {w}

\* The image sfile_find goes by, whether it asks for the command line, why it finds no sfile,
\* and the sfile: the one that is cached, or the one that sfile_find finds.
ImageOf(t) == IF t.in_kernel # 0 THEN find_kernel_image(t) ELSE NULL
Asks(w) == w.t.current = NULL /\ AsksCmdline(w.t, ImageOf(w.t))
Reason(w, cmdline) == LossReason(w.t, ImageOf(w.t), cmdline)
Found(w, cmdline) ==
  IF w.t.current = NULL /\ Reason(w, cmdline) = "" THEN sfile_find(w, ImageOf(w.t)) ELSE w

\* The transient after the sample.  trans.pc is dead once the sample is taken.
Done(t) == [update_trans_last(t) EXCEPT
              !.pc = 0, !.tracing = IF t.tracing = "START" THEN "ON" ELSE t.tracing]

\* The rest of opd_put_sample and of opd_put_ibs_sample.
Put(t, log) ==
  \E w \in Located(Sampled(t)) : \E cmdline \in Cmdlines(w, Asks(w)) :
    LET found == Found(w, cmdline)
        fate == Fate(log, found.t, Reason(w, cmdline))
    IN  \E x \in Opened(found, fate) :
          /\ Cardinality(x.sf) <= MaxSfiles
          /\ trans' = Done(x.t)
          /\ sfiles' = x.sf
          /\ anons' = x.an
          /\ kcmd' = IF Asks(w) THEN [kcmd EXCEPT ![w.t.tgid] = cmdline] ELSE kcmd
          /\ logged' = fate
          /\ prev' = IF x.t.current = NULL THEN NoPrev ELSE <<t.pc, x.t.current>>
          /\ found_pc' = IF x.t.current = NULL THEN 0
                         ELSE IF w.t.current = NULL THEN t.pc ELSE found_pc
          /\ UNCHANGED <<config, modules>>

opd_put_sample(pc, event) == Put(Taken(pc, event), "plain")

\* opd_ibs.c.  A sample that has an address of the kernel and no cookie is one of the kernel.
IbsTaken(pc) ==
  LET t == Taken(pc, 0)
  IN IF t.cookie = INVALID_COOKIE /\ t.in_kernel = 0 /\ "no_vmlinux" \notin config
        /\ find_kernel_image(t) # NULL
     THEN [t EXCEPT !.in_kernel = 1] ELSE t

\* The event it leaves behind matters in a trace only.
opd_put_ibs_sample(pc, derived) ==
  /\ "ibs" \in config
  /\ Put(IbsTaken(pc), IF derived THEN "ibs" ELSE "ibs_no_event")

-----------------------------------------------------------------------------
(* The escape codes                                                        *)

Code(t, before) == /\ trans' = t
                   /\ prev' = before
                   /\ logged' = NoLog
                   /\ found_pc' = IF t.current = NULL THEN 0 ELSE found_pc
                   /\ UNCHANGED <<config, anons, kcmd>>

\* Mutant: the cached sfile survives the switch.
code_ctx_switch_Keeps(task) ==
  /\ Code([trans EXCEPT !.tid = task.tid, !.tgid = task.tgid,
                        !.app_cookie = task.app_cookie], prev)
  /\ UNCHANGED <<sfiles, modules>>

code_ctx_switch(task) ==
  /\ Code([clear_trans_current(trans) EXCEPT
             !.tid = task.tid, !.tgid = task.tgid, !.app_cookie = task.app_cookie], prev)
  /\ UNCHANGED <<sfiles, modules>>

code_cpu_switch(cpu) ==
  /\ Code([clear_trans_current(trans) EXCEPT !.cpu = cpu], prev)
  /\ UNCHANGED <<sfiles, modules>>

code_cookie_switch(cookie) ==
  /\ Code([clear_trans_current(trans) EXCEPT !.cookie = cookie], prev)
  /\ UNCHANGED <<sfiles, modules>>

code_kernel_enter ==
  /\ Code([clear_trans_current(trans) EXCEPT !.in_kernel = 1], prev)
  /\ UNCHANGED <<sfiles, modules>>

code_user_enter ==
  /\ Code([clear_trans_last(clear_trans_current(trans)) EXCEPT !.in_kernel = 0], NoPrev)
  /\ UNCHANGED <<sfiles, modules>>

code_xen_enter ==
  /\ Code([trans EXCEPT !.in_kernel = 1, !.current = NULL], prev)
  /\ UNCHANGED <<sfiles, modules>>

\* Bound: no traces with IBS.  An arc that follows an IBS sample ends the daemon: its event, which
\* is kept for the trace, is no counter (get_file).
code_trace_begin ==
  /\ "ibs" \notin config
  /\ Code([trans EXCEPT !.tracing = "START"], prev)
  /\ UNCHANGED <<sfiles, modules>>

\* Mutant: the last sample's sfile is freed and still cached.
code_module_loaded_KeepsLast(ranges) ==
  /\ Code(clear_trans_current(trans), NoPrev)
  /\ IF "no_vmlinux" \in config THEN UNCHANGED <<sfiles, modules>>
     ELSE /\ modules' = {[start |-> r.start, end |-> r.end, gen |-> 1] : r \in ranges}
          /\ sfiles' = {x \in sfiles : x.kernel = NULL}

\* opd_reread_module_info: images and the sfiles of kernel images are freed,
\* new images are made of what /proc/modules lists.
code_module_loaded(ranges) ==
  /\ Code(clear_trans_last(clear_trans_current(trans)), NoPrev)
  /\ IF "no_vmlinux" \in config THEN UNCHANGED <<sfiles, modules>>
     ELSE /\ modules' = LET gen == IF \E m \in modules : m.gen = 1 THEN 2 ELSE 1
                        IN  {[start |-> r.start, end |-> r.end, gen |-> gen] : r \in ranges}
          /\ sfiles' = {x \in sfiles : x.kernel = NULL}

\* The buffer ends, after a whole entry or inside one (OPD_DANGLING_CODE); the
\* next call of opd_process_samples begins with a fresh transient.
EndOfBuffer ==
  /\ trans # InitTrans
  /\ Code(InitTrans, NoPrev)
  /\ UNCHANGED <<sfiles, modules>>

Next ==
  \/ \E pc \in Load[config].pcs, event \in Events : opd_put_sample(pc, event)
  \/ \E pc \in Load[config].pcs, derived \in BOOLEAN : opd_put_ibs_sample(pc, derived)
  \/ \E task \in Load[config].tasks : code_ctx_switch(task)
  \/ \E cpu \in Load[config].cpus : code_cpu_switch(cpu)
  \/ \E cookie \in Load[config].cookies : code_cookie_switch(cookie)
  \/ code_kernel_enter \/ code_user_enter \/ code_xen_enter \/ code_trace_begin
  \/ \E ranges \in SUBSET Load[config].modules : code_module_loaded(ranges)
  \/ EndOfBuffer

Spec == Init /\ [][Next]_vars

-----------------------------------------------------------------------------
(* Properties                                                              *)

\* The lists stay within their limits.
TypeOK ==
  /\ config \in Configs
  /\ trans.in_kernel \in {-1, 0, 1} /\ trans.tracing \in {"OFF", "START", "ON"}
  /\ Len(anons) < LRU_SIZE
  /\ \A g \in Tgids : kcmd[g] \in {"unknown", "has", "none"}

\* No two sfiles stand for the same sample files: what the hash folds in is
\* what the match compares, so an sfile that exists is found again.
UniqueSfiles ==
  \A x, y \in sfiles :
    /\ x.kernel = y.kernel /\ x.anon = y.anon /\ x.cookie = y.cookie
    /\ x.cpu = y.cpu /\ x.app_cookie = y.app_cookie
    /\ "thread" \in config => x.tid = y.tid /\ x.tgid = y.tgid
    => x = y

\* A sample is stored for what it was taken in: whichever sfile is cached, it
\* is the one of the context the codes announced and of the image, or of an
\* anonymous mapping of the process.  The mapping contains the sampled address or,
\* when the sfile was cached already, the address of the sample it was found for:
\* find_anon_mapping changes trans.anon only, so that a sample in another region of
\* the process than that one is stored for that one (opd_trans.c:106).  No other
\* sfile stands for the same files.
Attribution ==
  /\ UniqueSfiles
  /\ logged \in {"sample", "arc"} =>
       LET sf == trans.current
           pc == trans.last_pc
           user == trans.in_kernel = 0
           anonymous == user /\ trans.cookie = NO_COOKIE
       IN  /\ user = (sf.kernel = NULL)
           /\ (~user /\ "no_vmlinux" \notin config) => InRange(sf.kernel, pc)
           /\ user => sf.cookie = trans.cookie
           /\ anonymous = (sf.anon # NULL)
           /\ anonymous => /\ InRange(sf.anon, found_pc)
                           /\ sf.anon.tgid = trans.tgid
                           /\ sf.anon.app_cookie = trans.app_cookie
           /\ "thread" \in config => sf.tid = trans.tid /\ sf.tgid = trans.tgid
           /\ "cpu" \in config => sf.cpu = trans.cpu
           /\ (user /\ "lib" \in config) \/ "kernel" \in config =>
                sf.app_cookie = trans.app_cookie

\* Nothing refers to what was freed: not the cached sfiles, and not an sfile to
\* its mapping or to its kernel image.
NoDangling ==
  /\ TypeOK
  /\ {trans.current, trans.last} \subseteq sfiles \cup {NULL}
  /\ \A x \in sfiles : /\ x.anon \in ToSet(anons) \cup {NULL}
                       /\ x.kernel \in modules \cup {NULL, Vmlinux, Xen}

\* An arc leads to the sample just before it, in the sfile that sample was
\* attributed to, with nothing freed, re-read or entered from user space in
\* between.  The exception is a sample before it that was stored for another region
\* than its own (Attribution): trans.last_anon is then not the mapping of its sfile,
\* and do_lru may have freed the sfile (opd_anon.c:58).
ArcConsecutive ==
  [][logged' = "arc" =>
       /\ prev = <<trans.last_pc, trans.last>>
       /\ trans.last.anon = trans.last_anon => trans.last \in sfiles']_vars

=============================================================================
