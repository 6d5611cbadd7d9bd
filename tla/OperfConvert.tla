---------------------------- MODULE OperfConvert ----------------------------
(***************************************************************************)
(* The converting half of libperf_events: operf_utils.cpp (the handlers of *)
(* the records of perf_events), operf_process_info.cpp (what is known of a *)
(* process), operf_kernel.cpp and the lookup of operf_sfile.cpp.  The      *)
(* records come in an order that is not guaranteed; samples that cannot be *)
(* attributed are kept and tried again at the end.                         *)
(*                                                                         *)
(* A build without hypervisor support; samples are kept apart by thread    *)
(* and by CPU.  Pids are not reused, so a process is forked by one with a  *)
(* smaller pid.                                                            *)
(***************************************************************************)
EXTENDS Integers, Sequences, FiniteSets, FiniteSetsExt, SequencesExt

CONSTANTS
  Pids,        \* processes, numbered from 1
  app_PID,     \* the process that operf started with app_name, or 0
  AllStarts,   \* where user mappings may start
  Matching,    \* Matching[n][f]: leading characters of name n found in f, or -1
  Length,      \* Length[n]: of the basename of n
  Ids,         \* perf_event ids; the event of an id:
  EventOf,     \* (-1: there is none)
  NoUser,      \* events that are not to be counted in user code (no_user)
  Kernels,     \* what operf may find of the kernel: see Images
  Exes,        \* what readlink of /proc/<pid>/exe may give
  Mapped,      \* mappings that may be reported
  Samples,     \* samples that may be taken
  MaxForks, MaxComms, MaxMaps, MaxSamples, MaxThrottles, \* bounds on the records
  MaxRecords   \* and on all of them

ASSUME ConvertAssumption ==
  /\ Pids \subseteq Nat \ {0} /\ app_PID \in Pids \cup {0}
  /\ AllStarts \subseteq Nat \ {0} /\ MaxSamples \in Nat
  /\ \A m \in Mapped : m.start \in AllStarts /\ m.anon \in BOOLEAN
  /\ \A m, k \in Mapped : m.file = k.file => m.anon = k.anon  \* the name tells
  /\ Samples \subseteq [pid : Nat, tid : Nat, cpu : Nat, ip : Nat, kernel : BOOLEAN, id : Ids,
                       chain : Seq([ip : Nat, kernel : BOOLEAN])]
  /\ NoUser \subseteq Nat
  /\ 0 \notin Ids  \* the id before the first sample

VARIABLES
  process_map, \* what is known of each process
  all_images,  \* the mappings that all_images_map may give again
  modules,     \* kernel modules, as mappings
  vmlinux,     \* vmlinux_image
  trans,       \* the context of the last sample
  unresolved_events,
  phase,       \* "first" (first_time_processing), "again", "done"; "error": bad data
  stats,       \* operf_stats
  made,        \* records so far, of each kind
  \* and, for the properties:
  fate,        \* what became of each sample
  wrong,       \* how samples were misattributed, and what had happened before
  own,         \* the last mapping that each process has reported, by start
  first,       \* of each name and start of anonymous memory: what was reported first
  mixed,       \* processes with mappings of their own where the parent has some,
               \* and those whose parent has left its own parent
  stale        \* what has happened to the context since it was looked up: "mmap"
               \* and "throttle" records, and samples that were deferred ("id")

procs == <<process_map, all_images, own, first, mixed>>
kernel == <<modules, vmlinux>>
samples == <<trans, unresolved_events, stats, fate, wrong>>
vars == <<procs, kernel, samples, phase, stale, made>>

NoProc == [app |-> "none"]
NoMap == [file |-> "none", start |-> 0, end |-> 0, anon |-> FALSE]
NoPid == -1  \* ~0U

In(ip, m) == m.start <= ip /\ ip <= m.end
Anonymous == {m \in Mapped : m.anon}

-----------------------------------------------------------------------------
(* The kernel: its range, found before the session, and its modules        *)

no_vmlinux_mmap == [file |-> "no-vmlinux", start |-> 0, end |-> 0, anon |-> FALSE]
no_vmlinux == vmlinux = no_vmlinux_mmap

\* An address that may not be shown is 0.
_add_kernel_entry(start, end) ==
  IF 0 \in {start, end} THEN no_vmlinux_mmap
  ELSE [file |-> "vmlinux", start |-> start, end |-> end - 1, anon |-> FALSE]

\* strncmp compares as many characters as the line's name has: any name that
\* "_etext" or "_text" starts with will do.  The last such start counts, up to
\* the first end.
_process_kallsyms(symbols) ==
  LET end == SelectInSeq(symbols, LAMBDA s : s.name \in {"_", "_e", "_ete", "_etext"})
      starts == {i \in 1..end : symbols[i].name \in {"_", "_t", "_te", "_text"}}
  IN IF end = 0 THEN no_vmlinux_mmap
     ELSE _add_kernel_entry(IF starts = {} THEN 0 ELSE symbols[Max(starts)].addr,
                            symbols[end].addr)

\* What objdump says of the file of --vmlinux; if one is not found (-1) operf exits.
_process_vmlinux(file) ==
  IF -1 \in {file.text, file._etext} THEN {}
  ELSE {[file |-> "vmlinux", start |-> file.text, end |-> file._etext - 1, anon |-> FALSE]}

Images(k) == IF k.file = <<>> THEN {_process_kallsyms(k.kallsyms)} ELSE _process_vmlinux(k.file[1])

\* A line of /proc/modules that is no good is skipped, one without an address
\* ends the list.  With kptr_restrict a user gets no modules.
_record_module_info(k) ==
  LET good == SelectSeq(k.modules, LAMBDA m : ~m.bad)
      zero == SelectInSeq(good, LAMBDA m : m.addr = 0)
      last == IF zero = 0 THEN Len(good) ELSE zero - 1
  IN IF k.kptr_restrict THEN {}
     ELSE {[file |-> good[i].name, start |-> good[i].addr,
            end |-> good[i].addr + good[i].size - 1, anon |-> FALSE] : i \in 1..last}

\* Samples of user code are not taken at addresses of the kernel, or at 0.
ASSUME UserAssumption ==
  \A d \in Samples, k \in Kernels : ~d.kernel =>
    \A m \in Images(k) \cup _record_module_info(k) : ~In(d.ip, m)

\* What op_record_kernel_info wrote, and __handle_mmap_event took for vmlinux
kernel_mmap == vmlinux

-----------------------------------------------------------------------------
(* operf_process_info                                                      *)

\* check_mapping_for_appname, with get_num_matching_chars
check_mapping_for_appname(p, m) ==
  LET n == IF m.anon THEN -1 ELSE Matching[p.app][m.file] IN
  IF n <= p.matched THEN p
  ELSE [p EXCEPT !.app = m.file, !.matched = n,
                 !.appname_valid = (@ \/ n = Length[p.app]),
                 !.look = (@ /\ n # Length[p.app])]

\* Mappings are gone through in the order of their addresses.
find_best_match_appname_all_mappings(p) ==
  LET Best[s \in SUBSET AllStarts] ==
        IF s = {} THEN p
        ELSE LET last == Max(s) IN check_mapping_for_appname(Best[s \ {last}], p.map[last])
      best == Best[{s \in AllStarts : p.map[s] # NoMap}]
  IN IF p.app = "unknown" THEN p
     ELSE [p EXCEPT !.app = best.app, !.matched = best.matched,
                    !.appname_valid = best.appname_valid, !.look = best.look]

\* set_appname; exe is what readlink of /proc/<pid>/exe gives, if anything.
\* appname is "null", a complete name, or the short one of a COMM record.
set_appname(p, appname, full, exe) ==
  LET from_COMM_event == appname # "null" /\ ~full
      found ==
        CASE exe = "taskset" -> [p EXCEPT !.app = "unknown"]
          [] exe # "gone" /\ exe # "taskset" ->
               [p EXCEPT !.app = exe, !.appname_valid = TRUE]
          [] exe = "gone" /\ appname \in {"null", "taskset"} ->
               [p EXCEPT !.app = "unknown"]
          [] OTHER -> [p EXCEPT !.app = appname, !.appname_valid = full,
                                !.look = (@ \/ ~full)]
  IN CASE p.appname_valid -> p
       [] ~p.appname_valid /\ p.app # "" /\ ~from_COMM_event /\ p.look ->
            find_best_match_appname_all_mappings(p)
       [] ~p.appname_valid /\ p.app # "" /\ ~p.look /\ appname = "null" -> p
       [] OTHER -> IF found.look THEN find_best_match_appname_all_mappings(found)
                   ELSE found

\* The constructor
operf_process_info(appname, full, valid, exe) ==
  set_appname([valid |-> valid, appname_valid |-> FALSE, look |-> FALSE,
               parent |-> 0, app |-> "", matched |-> -1,
               map |-> [s \in AllStarts |-> NoMap],
               fromparent |-> [s \in AllStarts |-> FALSE]],
              appname, full, exe)

forked(p) == p # NoProc /\ p.parent # 0
is_appname_valid(p) == p.valid /\ p.appname_valid
children(pm, pid) == {q \in Pids : pm[q] # NoProc /\ pm[q].parent = pid}

\* A process, all that it has forked, all that these have, and so on
family(pm, pid) ==
  {q \in Pids : \A F \in SUBSET Pids :
     pid \in F /\ (\A r \in F : children(pm, r) \subseteq F) => q \in F}

descendants(pm, pid) == family(pm, pid) \ {pid}

\* Mutant: a process that was forked is not told of its parent's new mappings.
set_new_mapping_recursive_SelfOnly(pm, pid, new, do_self) ==
  [pm EXCEPT ![pid].map = [s \in AllStarts |-> IF new[s] = NoMap THEN @[s] ELSE new[s]],
             ![pid].fromparent = [s \in AllStarts |->
                IF new[s] = NoMap THEN @[s] ELSE do_self /\ pm[pid].map[s] = NoMap]]

\* set_new_mapping_recursive for each of new, which has a mapping, or none, by
\* start: the process, and all that it has forked
set_new_mapping_recursive(pm, pid, new, do_self) ==
  LET all == family(pm, pid)
  IN [q \in Pids |->
        IF q \notin all THEN pm[q]
        ELSE [pm[q] EXCEPT
                !.map = [s \in AllStarts |-> IF new[s] = NoMap THEN @[s] ELSE new[s]],
                !.fromparent = [s \in AllStarts |->
                   IF new[s] = NoMap THEN @[s]
                   ELSE (do_self \/ q # pid) /\ pm[q].map[s] = NoMap]]]

process_mapping(pm, pid, m, do_self) ==
  LET p == pm[pid]
      named == IF ~p.appname_valid /\ ~forked(p) /\ p.look
               THEN check_mapping_for_appname(p, m) ELSE p
  IN set_new_mapping_recursive([pm EXCEPT ![pid] = named], pid,
                               [s \in AllStarts |-> IF s = m.start THEN m ELSE NoMap], do_self)

\* set_fork_info, with copy_mappings_to_forked_process.  Here and below
\* process_mapping does not look at the name: the process is_forked.
set_fork_info(pm, pid, parent) ==
  set_new_mapping_recursive([pm EXCEPT ![pid].parent = parent], pid, pm[parent].map, TRUE)

\* try_disassociate_from_parent: the mappings of the parent go, its own are
\* looked at (and handed on) once more.
try_disassociate_from_parent(pm, pid, comm, exe) ==
  LET named == [set_appname(pm[pid], comm, FALSE, exe) EXCEPT !.valid = TRUE]
      gone == {s \in AllStarts : named.fromparent[s] /\ named.map[s] # NoMap}
      kept == [named EXCEPT
                 !.map = [s \in AllStarts |-> IF s \in gone THEN NoMap ELSE @[s]],
                 !.fromparent = [s \in AllStarts |-> s \notin gone /\ @[s]]]
      all == set_new_mapping_recursive([pm EXCEPT ![pid] = kept], pid, kept.map, FALSE)
  IN [all EXCEPT ![pid].parent = 0]

\* find_mapping_for_sample: the first that contains the address
find_mapping_for_sample(p, ip) ==
  LET found == {s \in AllStarts : p.map[s] # NoMap /\ In(ip, p.map[s])}
  IN IF found = {} THEN NoMap ELSE p.map[Min(found)]

-----------------------------------------------------------------------------
(* The context, sfiles and samples                                         *)

NoSfile == [file |-> "none"]

TransInit ==
  [tgid |-> 0, tid |-> 0, cpu |-> 0, image |-> NoMap, app |-> "", in_kernel |-> FALSE,
   proc |-> FALSE, event |-> 0, id |-> 0, pc |-> 0, current |-> NoSfile,
   last |-> NoSfile]

clear_trans(t) == [t EXCEPT !.tgid = NoPid, !.proc = FALSE]

\* operf_find_kernel_image: a module ends before its last byte (end > pc, where
\* end is the end_addr of the mapping)
operf_find_kernel_image(ip) ==
  CASE no_vmlinux -> no_vmlinux_mmap
    [] ~no_vmlinux /\ In(ip, vmlinux) -> vmlinux
    [] OTHER -> LET found == {m \in modules : m.start <= ip /\ ip < m.end}
                IN IF found = {} THEN NoMap ELSE CHOOSE m \in found : TRUE

\* operf_sfile_find: sfiles are looked up by what do_match compares.
operf_sfile_find(t) ==
  IF t.in_kernel /\ operf_find_kernel_image(t.pc) = NoMap THEN NoSfile
  ELSE [file |-> IF t.in_kernel THEN operf_find_kernel_image(t.pc).file ELSE t.image.file,
        start |-> IF t.image.anon THEN t.image.start ELSE 0,
        app |-> t.app, tgid |-> t.tgid, tid |-> t.tid, cpu |-> t.cpu]

\* The process of a context: trans.cur_procinfo, or a lookup
ProcOf(t, pid) ==
  IF t.tgid = pid THEN t.proc
  ELSE pid \in Pids /\ process_map[pid] # NoProc /\ is_appname_valid(process_map[pid])

\* Mutant: the thread of the context is not set.
__get_operf_trans_NoTid(t, d) ==
  LET m == IF d.kernel
           THEN IF In(d.ip, kernel_mmap) THEN kernel_mmap
                ELSE LET found == {k \in modules : In(d.ip, k)}
                     IN IF found # {} THEN CHOOSE k \in found : TRUE
                        ELSE IF no_vmlinux THEN kernel_mmap ELSE NoMap
           ELSE find_mapping_for_sample(process_map[d.pid], d.ip)
  IN IF ~ProcOf(t, d.pid) THEN [ok |-> FALSE, why |-> "app", t |-> t]
     ELSE IF m = NoMap THEN [ok |-> FALSE, why |-> "mapping", t |-> t]
     ELSE [ok |-> TRUE, why |-> "",
           t |-> [t EXCEPT !.tgid = d.pid, !.cpu = d.cpu, !.image = m,
                           !.app = process_map[d.pid].app, !.proc = TRUE,
                           !.in_kernel = d.kernel, !.pc = d.ip, !.id = d.id]]

\* __get_operf_trans: the process, then the mapping that has the address
__get_operf_trans(t, d) ==
  LET m == IF d.kernel
           THEN IF In(d.ip, kernel_mmap) THEN kernel_mmap
                ELSE LET found == {k \in modules : In(d.ip, k)}
                     IN IF found # {} THEN CHOOSE k \in found : TRUE
                        ELSE IF no_vmlinux THEN kernel_mmap ELSE NoMap
           ELSE find_mapping_for_sample(process_map[d.pid], d.ip)
  IN IF ~ProcOf(t, d.pid) THEN [ok |-> FALSE, why |-> "app", t |-> t]
     ELSE IF m = NoMap THEN [ok |-> FALSE, why |-> "mapping", t |-> t]
     ELSE [ok |-> TRUE, why |-> "",
           t |-> [t EXCEPT !.tgid = d.pid, !.tid = d.tid, !.cpu = d.cpu, !.image = m,
                           !.app = process_map[d.pid].app, !.proc = TRUE,
                           !.in_kernel = d.kernel, !.pc = d.ip, !.id = d.id]]

\* The common case: "the same context as the previous sample"
SameContext(t, d) ==
  /\ d.id = t.id /\ t.tgid = d.pid
  /\ IF d.kernel
     THEN t.image # NoMap /\ ((t.image.start = 0 /\ t.image.end = 0) \/ In(d.ip, t.image))
     ELSE In(d.ip, t.image)

\* One entry of __handle_callchain, and whether it was lost
ChainEntry(t, d, e) ==
  LET g == __get_operf_trans(t, [d EXCEPT !.ip = e.ip, !.kernel = e.kernel])
      cur == operf_sfile_find(g.t)
  IN IF ~g.ok THEN [t |-> t, lost |-> 1]
     ELSE [t |-> [g.t EXCEPT !.current = cur, !.last = IF cur = NoSfile THEN @ ELSE cur],
           lost |-> 0]

\* The context after the callers of a sample, whose arcs are logged
__handle_callchain(t, d) ==
  LET Walk[n \in 0..Len(d.chain)] ==
        IF n = 0 THEN [t |-> t, lost |-> 0]
        ELSE LET before == Walk[n - 1]
                 this == ChainEntry(before.t, d, d.chain[n])
             IN [t |-> this.t, lost |-> before.lost + this.lost]
  IN Walk[Len(d.chain)]

-----------------------------------------------------------------------------
Init ==
  /\ process_map = [p \in Pids |-> NoProc]
  /\ all_images = {}
  /\ \E k \in Kernels :
       /\ vmlinux \in Images(k)
       /\ modules = IF no_vmlinux THEN {} ELSE _record_module_info(k)
  /\ trans = TransInit
  /\ unresolved_events = <<>> /\ phase = "first"
  /\ stats = [no_mapping |-> 0, kernel |-> 0, samplefile |-> 0, bt |-> 0]
  /\ made = [fork |-> 0, comm |-> 0, map |-> 0, sample |-> 0, throttle |-> 0]
  /\ fate = [i \in 1..MaxSamples |-> <<>>] /\ wrong = {}
  /\ own = [p \in Pids |-> [s \in AllStarts |-> NoMap]] /\ mixed = {}
  /\ first = [m \in Anonymous |-> NoMap]
  /\ stale = {}

More(kind, bound) ==
  /\ phase = "first" /\ made[kind] < bound
  /\ made.fork + made.comm + made.map + made.sample + made.throttle < MaxRecords
  /\ made' = [made EXCEPT ![kind] = @ + 1]

\* Ghost: q and what it forked, if it is offered a mapping where it has one
Mixed(pm, q, starts) ==
  {r \in {q} \cup descendants(pm, q) :
     pm[r] # NoProc /\ \E s \in starts : pm[r].map[s] # NoMap}

__handle_fork_event(pid, ppid, exe) ==
  /\ More("fork", MaxForks)
  /\ LET parent == IF process_map[ppid] # NoProc THEN process_map
                   ELSE [process_map EXCEPT ![ppid] =
                           IF app_PID # 0
                           THEN operf_process_info("app_name", TRUE, FALSE, exe)
                           ELSE operf_process_info("null", FALSE, FALSE, exe)]
     IN process_map' =
          CASE pid = ppid -> parent
            [] pid # ppid /\ parent[pid] = NoProc ->
                 set_fork_info([parent EXCEPT ![pid] =
                   operf_process_info("null", FALSE, FALSE, exe)], pid, ppid)
            [] pid # ppid /\ parent[pid] # NoProc ->
                 IF parent[pid].valid \/ forked(parent[pid]) THEN parent
                 ELSE set_fork_info(parent, pid, ppid)
  /\ mixed' = mixed \cup
       (IF ~forked(process_map[pid]) /\ forked(process_map'[pid]) /\ process_map[ppid] # NoProc
        THEN Mixed(process_map, pid, {s \in AllStarts : process_map[ppid].map[s] # NoMap})
        ELSE {})
  /\ UNCHANGED <<all_images, own, first, kernel, samples, phase, stale>>

\* The name for a process that is seen for the first time
NameFor(pid, other) ==
  IF app_PID = pid THEN <<"app_name", TRUE>> ELSE <<other, FALSE>>

\* Only a COMM record of the first thread (tid = pid) makes a process valid.
__handle_comm_event(pid, main, comm, exe) ==
  /\ More("comm", MaxComms)
  /\ process_map' =
       LET p == process_map[pid]
           name == NameFor(pid, comm)
       IN CASE p = NoProc ->
                 [process_map EXCEPT ![pid] =
                   operf_process_info(name[1], name[2], main, exe)]
            [] p # NoProc /\ ~main -> process_map
            [] p # NoProc /\ main /\ ~p.valid /\ forked(p) ->
                 try_disassociate_from_parent(process_map, pid, comm, exe)
            [] p # NoProc /\ main /\ ~p.valid /\ ~forked(p) ->
                 [process_map EXCEPT ![pid] =
                   set_appname([p EXCEPT !.valid = TRUE], comm, FALSE, exe)]
            [] OTHER -> [process_map EXCEPT ![pid] = set_appname(p, comm, FALSE, exe)]
  /\ mixed' = mixed \cup (IF forked(process_map[pid]) /\ ~forked(process_map'[pid])
                          THEN descendants(process_map, pid) ELSE {})
  /\ UNCHANGED <<all_images, own, first, kernel, samples, phase, stale>>

\* A mapping without a path is taken from all_images_map if one of that name starts
\* there, whoever reported it and wherever it ends.
__handle_mmap_event(pid, m, exe) ==
  /\ More("map", MaxMaps)
  /\ LET same == {k \in all_images : k.file = m.file /\ k.start = m.start}
         mapping == IF same # {} THEN CHOOSE k \in same : TRUE ELSE m
         name == NameFor(pid, "null")
         known == IF process_map[pid] # NoProc THEN process_map
                  ELSE [process_map EXCEPT ![pid] =
                          operf_process_info(name[1], name[2], FALSE, exe)]
     IN /\ process_map' = process_mapping(known, pid, mapping, FALSE)
        /\ all_images' = IF m.anon THEN all_images \cup {mapping} ELSE all_images
        /\ own' = [own EXCEPT ![pid][m.start] = m]
        /\ first' = [k \in Anonymous |->
             IF first[k] = NoMap /\ k.file = m.file /\ k.start = m.start THEN m ELSE first[k]]
        /\ mixed' = mixed \cup (Mixed(process_map, pid, {m.start}) \ {pid})
  /\ stale' = stale \cup {"mmap"}
  /\ UNCHANGED <<kernel, samples, phase>>

\* __handle_throttle_event leaves its event in the context.
__handle_throttle_event(id) ==
  /\ More("throttle", MaxThrottles)
  /\ phase' = IF EventOf[id] = -1 THEN "error" ELSE phase
  /\ trans' = [trans EXCEPT !.event = EventOf[id]]
  /\ stale' = stale \cup {"throttle"}
  /\ UNCHANGED <<procs, kernel, unresolved_events, stats, fate, wrong>>

\* A sample that was tried again leaves the list, in any case.
Done == unresolved_events' = IF phase = "first" THEN unresolved_events
                             ELSE Tail(unresolved_events)

Ends(d, how) == fate' = [fate EXCEPT ![d.n] = Append(@, how)]

\* Mutant: a kernel sample without an image is counted and forgotten.
Defer_Forgets(d, how) ==
  IF phase = "first" /\ how # "kernel"
  THEN unresolved_events' = Append(unresolved_events, d) /\ UNCHANGED fate
  ELSE Done /\ UNCHANGED fate

Defer(d, how) ==
  IF phase = "first"
  THEN unresolved_events' = Append(unresolved_events, d) /\ UNCHANGED fate
  ELSE Done /\ Ends(d, how)

Count(c) == [x \in DOMAIN stats |-> stats[x] + (IF x \in DOMAIN c THEN c[x] ELSE 0)]

\* Ghost: what is wrong about a sample that is logged to the context t
Wrong(d, t) ==
  LET p == process_map[d.pid]
      parents == IF forked(p) THEN find_mapping_for_sample(process_map[p.parent], d.ip)
                 ELSE NoMap
      mine == {m \in {own[d.pid][s] : s \in AllStarts} : m # NoMap /\ In(d.ip, m)}
      images == IF mine # {} THEN mine ELSE {parents}
  IN (IF t.current.tgid # d.pid THEN {"tgid"} ELSE {})
     \cup (IF t.current.tid # d.tid THEN {"tid"} ELSE {})
     \cup (IF t.current.cpu # d.cpu THEN {"cpu"} ELSE {})
     \cup (IF t.event # EventOf[d.id] THEN {"event"} ELSE {})
     \cup (IF t.current.app # p.app THEN {"app"} ELSE {})
     \cup (IF ~d.kernel /\ \E m \in images : t.current.file # m.file THEN {"image"} ELSE {})

\* Ghost: two mappings of the process, or of its parent, have the address.
Overlap(d) ==
  \E q \in Pids :
    /\ process_map[q] # NoProc
    /\ q = d.pid \/ (process_map[d.pid] # NoProc /\ q = process_map[d.pid].parent)
    /\ \E s, t \in AllStarts :
         /\ s # t /\ process_map[q].map[s] # NoMap /\ In(d.ip, process_map[q].map[s])
         /\ process_map[q].map[t] # NoMap /\ In(d.ip, process_map[q].map[t])

\* Ghost: what the process has in place of a mapping that it reported
FirstReport(m) == IF m.anon THEN first[m] ELSE m

\* Ghost: a mapping of the process has the end of another's.
OtherRange(pid) ==
  pid \in Pids /\ \E s \in AllStarts : FirstReport(own[pid][s]) # own[pid][s]

\* __handle_sample_event.  d has n (its number), pid, tid, cpu, ip, kernel, id and
\* chain.  An id that no event has ends the conversion.  The file of a sample may
\* fail to open.
__handle_sample_event(d) ==
  LET t0 == IF d.id # trans.id THEN [trans EXCEPT !.event = EventOf[d.id]] ELSE trans
      start == trans.image = NoMap /\ d.pid = 0
      bad == ~start /\ d.id # trans.id /\ EventOf[d.id] = -1
      no_user == ~start /\ ~bad /\ t0.event \in NoUser /\ ~d.kernel
      same == SameContext(t0, d)
      got == __get_operf_trans(t0, d)
      t1 == CASE same -> [t0 EXCEPT !.pc = d.ip, !.tid = IF d.kernel THEN @ ELSE d.tid]
              [] ~same /\ got.ok -> [got.t EXCEPT !.current = operf_sfile_find(got.t)]
              [] OTHER -> t0
      found == same \/ got.ok
      chain == __handle_callchain([t1 EXCEPT !.last = t1.current], d)
      bt == IF phase = "first" THEN 0 ELSE chain.lost
      kept == IF d.id = trans.id THEN stale \cap {"throttle", "id"} ELSE {}
      changed == stale \cup (IF d.id = trans.id THEN {} ELSE {"id"})
      before == (IF same THEN stale \cup {"same"} ELSE kept)
                \cup (IF d.pid \in mixed THEN {"mixed"} ELSE {})
                \cup (IF Overlap(d) THEN {"overlap"} ELSE {})
                \cup (IF OtherRange(d.pid) THEN {"range"} ELSE {})
  IN CASE start ->
            /\ trans' = clear_trans(trans)
            /\ Done /\ Ends(d, "pid 0")
            /\ UNCHANGED <<stats, wrong, stale, phase>>
       [] bad ->
            /\ trans' = clear_trans(t0) /\ phase' = "error"
            /\ Done /\ Ends(d, "bad data")
            /\ stale' = changed
            /\ UNCHANGED <<stats, wrong>>
       [] no_user ->
            /\ trans' = clear_trans(t0)
            /\ Done /\ Ends(d, "no_user")
            /\ wrong' = IF EventOf[d.id] \in NoUser THEN wrong
                        ELSE wrong \cup {<<"no_user", before>>}
            /\ stale' = changed
            /\ UNCHANGED <<stats, phase>>
       [] ~start /\ ~bad /\ ~no_user /\ found /\ t1.current # NoSfile ->
            /\ \/ /\ Ends(d, "logged")
                  /\ wrong' = wrong \cup (Wrong(d, t1) \X {before})
                  /\ stats' = Count([bt |-> bt])
               \/ /\ Ends(d, "no file")
                  /\ stats' = Count([bt |-> bt, samplefile |-> 1])
                  /\ UNCHANGED wrong
            /\ trans' = chain.t
            /\ stale' = IF same /\ chain.lost = Len(d.chain) THEN stale ELSE kept
            /\ Done /\ UNCHANGED phase
       [] OTHER ->
            /\ trans' = clear_trans(t1)
            /\ IF found
               THEN Defer(d, "kernel") /\ stats' = Count([kernel |-> IF same THEN 0 ELSE 1])
               ELSE /\ Defer(d, got.why)
                    /\ stats' = IF got.why = "mapping" /\ phase # "first"
                                THEN Count([no_mapping |-> 1]) ELSE stats
            /\ stale' = changed
            /\ UNCHANGED <<wrong, phase>>

\* Ghost: the sample with its number
Numbered(d, i) == [f \in DOMAIN d \cup {"n"} |-> IF f = "n" THEN i ELSE d[f]]

Sample(d) ==
  /\ More("sample", MaxSamples)
  /\ __handle_sample_event(Numbered(d, made.sample + 1))
  /\ UNCHANGED <<procs, kernel>>

\* connect_forked_process_to_parent for all in the order of the pids: a parent, which
\* has the smaller one, is first.  So the name of a process is that of itself or the
\* next above it which is valid or was not forked.
app_name(p) ==
  LET named == {q \in Pids : /\ p \in family(process_map, q) /\ process_map[q] # NoProc
                             /\ process_map[q].valid \/ ~forked(process_map[q])}
  IN process_map[Max(named)].app

\* The end of the data: op_reprocess_unresolved_events first makes every process
\* valid.
ConnectProcesses ==
  /\ phase = "first"
  /\ phase' = "again"
  /\ process_map' =
       [p \in Pids |->
          IF process_map[p] = NoProc THEN NoProc
          ELSE [process_map[p] EXCEPT !.appname_valid = TRUE, !.valid = TRUE,
                                      !.app = app_name(p)]]
  /\ UNCHANGED <<all_images, own, first, mixed, kernel, samples, stale, made>>

op_reprocess_unresolved_events ==
  /\ phase = "again" /\ unresolved_events # <<>>
  /\ __handle_sample_event(Head(unresolved_events))
  /\ UNCHANGED <<procs, kernel, made>>

op_release_resources ==
  /\ phase = "again" /\ unresolved_events = <<>>
  /\ phase' = "done"
  /\ UNCHANGED <<procs, kernel, samples, stale, made>>

-----------------------------------------------------------------------------
Records ==
  \/ \E f \in {g \in Pids \X Pids : g[2] <= g[1]}, exe \in Exes :
       __handle_fork_event(f[1], f[2], exe)
  \/ \E p \in Pids, main \in BOOLEAN, exe \in Exes : __handle_comm_event(p, main, "comm", exe)
  \/ \E p \in Pids, m \in Mapped, exe \in Exes : __handle_mmap_event(p, m, exe)
  \/ \E id \in Ids : __handle_throttle_event(id)
  \/ \E d \in Samples : Sample(d)

Next == Records \/ ConnectProcesses \/ op_reprocess_unresolved_events \/ op_release_resources

Spec == Init /\ [][Next]_vars

-----------------------------------------------------------------------------
(* Properties                                                              *)

\* Whatever the order of the records: a sample goes to the process, thread, CPU,
\* event, application and image that it was taken in; the process and the
\* application in any case; and it is dropped for no_user only if its own event has
\* that.  The code departs from the others where a context is taken for "the same"
\* although another thread, CPU or a mapping came between, where trans.event was
\* left by a throttle record or by a sample that was not logged, where own mappings
\* were lost, where a mapping that is no more (munmap is not recorded) overlaps one
\* that is, and where anonymous memory has the end that was reported first for its
\* name and start, maybe by another process.
Attribution ==
  \A w \in wrong :
    CASE w[1] \in {"event", "no_user"} -> w[2] \cap {"throttle", "id"} # {}
      [] w[1] \in {"tid", "cpu"} -> "same" \in w[2]
      [] w[1] = "image" -> w[2] \cap {"mmap", "mixed", "overlap", "range"} # {}
      [] OTHER -> FALSE

\* Unless bad data ends the conversion, a sample is logged or lost once: it is not
\* dropped because its process was not known yet, and not logged again when it is
\* tried again.
SamplesAccounted ==
  /\ \A i \in 1..MaxSamples : Len(fate[i]) <= 1
  /\ phase = "done" => \A i \in 1..made.sample : Len(fate[i]) = 1

\* A process has the mappings that it reported itself, but that anonymous memory has
\* the end that was reported first for its name and start, by whichever process
\* (operf_utils.cpp:244); until its COMM record it also has those of its parent,
\* whichever came first, and no others; but for processes that map where their
\* parent does, and for those forked by a process that has its own COMM record by
\* now: what they had through it from its parent stays with them.
Inherited ==
  \A p \in Pids : process_map[p] # NoProc /\ p \notin mixed =>
    \A s \in AllStarts :
      process_map[p].map[s] =
        IF own[p][s] # NoMap THEN FirstReport(own[p][s])
        ELSE IF forked(process_map[p]) /\ process_map[p].parent \in Pids
             THEN process_map[process_map[p].parent].map[s] ELSE NoMap

=============================================================================
