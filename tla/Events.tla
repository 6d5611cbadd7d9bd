------------------------------- MODULE Events -------------------------------
(***************************************************************************)
(* The loading of a CPU's event tables, line by line, and what ophelp,     *)
(* opcontrol, the daemon, operf and ocount make of them.  The tables are   *)
(* any that the files can describe; a specification of events is any of    *)
(* the requests.                                                           *)
(***************************************************************************)
EXTENDS EventTables, Ibs

CONSTANTS Load,           \* what there may be, a function to records of um_lines (the name:...
                          \* lines of unit_masks files), entry_lines (their indented lines),
                          \* event_lines (the lines of events files), requests (sequences of
                          \* requested events) and ibs_args ([feature, parts, family, bta], how
                          \* the daemon is started for IBS)
          Cpus,           \* CPU types, of those the tables may be for
          Bits,           \* the bits of unit masks
          MaxLines,       \* bound: lines of both files
          IbsFetches,     \* the control registers of fetches
          IbsOps,         \* the registers of macro-ops
          IbsStale,       \* what malloc may leave where an op has no fetch
          MaxIbs          \* bound: samples

ASSUME NrCounters \in Nat \ {0} /\ Available \subseteq 0..(NrCounters - 1)

VARIABLES files,          \* which of these are loaded
          um_list, events_list,
          um,             \* the local of read_unit_masks: an index, 0 for NULL
          included,       \* whether an included unit_masks file is being read
          lines,          \* the lines read so far
          ibs,            \* the daemon's IBS: its arguments, selection, counts, and the
                          \* samples it was given
          pc

tables == <<um_list, events_list, um, included, lines>>
vars == <<files, tables, ibs, pc>>

\* What `um` is in the including file once include_um has returned: parse_um
\* freed the mask of the include line.
Freed == -1

TypeOK ==
  /\ \A i \in DOMAIN um_list : um_list[i].type \in {"mandatory", "bitmask", "exclusive"}
  /\ \A i \in DOMAIN events_list : events_list[i].unit \in DOMAIN um_list
  /\ um \in {Freed, 0} \cup DOMAIN um_list /\ files \in DOMAIN Load
  /\ included \in {"no", "open", "done"}
  /\ lines \in 0..MaxLines
  /\ pc \in {"ums", "events", "ready", "exit", "ext", "sampling"}

Init ==
  /\ files \in DOMAIN Load
  /\ um_list = <<>> /\ events_list = <<>>
  /\ um = 0 /\ included = "no" /\ lines = 0
  /\ ibs = <<>>
  /\ pc \in {"ums", "ext"}

UmLines == Load[files].um_lines
EntryLines == Load[files].entry_lines
EventLines == Load[files].event_lines
Requests == Load[files].requests
IbsArgs == Load[files].ibs_args

Line == lines < MaxLines /\ lines' = lines + 1

read_unit_mask(line) ==
  /\ pc = "ums" /\ Line
  /\ um_list' = Append(um_list, parse_um(line))
  /\ um' = Len(um_list) + 1
  /\ UNCHANGED <<events_list, included, pc>>

\* An entry in front of every mask is a parse error; one behind an include line
\* would be written to freed memory, and no file has one.
read_um_entry(line) ==
  /\ pc = "ums" /\ um # Freed /\ Line
  /\ IF um = 0
     THEN pc' = "exit" /\ UNCHANGED um_list
     ELSE um_list' = [um_list EXCEPT ![um].um = Append(@, parse_um_entry(line))] /\ UNCHANGED pc
  /\ UNCHANGED <<events_list, um, included>>

\* include: reads the unit masks of another CPU in between; an included file
\* that includes another is as good as one file.
include_um ==
  /\ pc = "ums" /\ included = "no" /\ Line
  /\ included' = "open" /\ um' = 0
  /\ UNCHANGED <<um_list, events_list, pc>>

EndOfUnitMasks ==
  /\ pc = "ums"
  /\ IF included = "open"
     THEN included' = "done" /\ um' = Freed /\ UNCHANGED pc
     ELSE pc' = "events" /\ UNCHANGED <<included, um>>
  /\ UNCHANGED <<um_list, events_list, lines>>

\* The lines of an included events file are read in place.
read_events(line) ==
  /\ pc = "events" /\ Line
  /\ LET u == ReadEventLine(um_list, line)
     IN IF u.ok
        THEN /\ um_list' = u.ums
             /\ events_list' = Append(events_list, NewEvent(line, u.unit))
             /\ UNCHANGED pc
        ELSE pc' = "exit" /\ UNCHANGED <<um_list, events_list>>
  /\ UNCHANGED <<um, included>>

EndOfEvents ==
  /\ pc = "events"
  /\ LET t == load_events(um_list, events_list)
     IN IF t.ok THEN um_list' = t.ums /\ events_list' = t.evs /\ pc' = "ready"
        ELSE pc' = "exit" /\ UNCHANGED <<um_list, events_list>>
  /\ UNCHANGED <<um, included, lines>>

-----------------------------------------------------------------------------
(* A daemon that is started for IBS, on one of the CPUs that have it       *)

\* The daemon goes on if the feature could be initialised.
StartIbs(args) ==
  /\ pc = "ext"
  /\ LET s == opd_ext_initialize(args.feature, args.parts)
     IN /\ ibs' = [s |-> s, args |-> args, taken |-> <<>>,
                   counts |-> [c \in {s.vc[i].counter : i \in DOMAIN s.vc} |-> 0]]
        /\ pc' = IF s.ok THEN "sampling" ELSE "exit"

\* An entry of the buffer has two words or more; last is whether none follows the sample.
After(last) == IF last THEN 0 ELSE 2

\* history: what was taken and was not the last of its buffer
Took(x, last) == IF last THEN ibs.taken ELSE Append(ibs.taken, x)

IbsFetch(ctl, last) ==
  /\ pc = "sampling" /\ Len(ibs.taken) < MaxIbs
  /\ ibs' = [ibs EXCEPT !.counts = Log(ibs.s, @, code_ibs_fetch_sample(ibs.s, ctl, After(last))),
                        !.taken = Took([kind |-> "fetch", ctl |-> ctl], last)]
  /\ UNCHANGED pc

\* A branch target that is sampled is one word more.
IbsOp(op, last, stale) ==
  /\ pc = "sampling" /\ Len(ibs.taken) < MaxIbs
  /\ LET more == After(last) + (IF ibs.args.bta THEN 1 ELSE 0)
     IN ibs' = [ibs EXCEPT
           !.counts = Log(ibs.s, @, code_ibs_op_sample(ibs.s, ibs.args.family, op, more, stale)),
           !.taken = Took(IF stale = {} THEN [kind |-> "op", op |-> op]
                          ELSE [kind |-> "fetch", ctl |-> CHOOSE ctl \in stale : TRUE], last)]
  /\ UNCHANGED pc

Next ==
  \/ /\ UNCHANGED <<files, ibs>>
     /\ \/ \E line \in UmLines : read_unit_mask(line)
        \/ \E line \in EntryLines : read_um_entry(line)
        \/ include_um \/ EndOfUnitMasks
        \/ \E line \in EventLines : read_events(line)
        \/ EndOfEvents
  \/ /\ pc \in {"ext", "sampling"}
     /\ UNCHANGED <<files, tables>>
     /\ \/ \E args \in IbsArgs : StartIbs(args)
        \/ \E ctl \in IbsFetches, last \in BOOLEAN : IbsFetch(ctl, last)
        \/ \E op \in IbsOps, last \in BOOLEAN, stale \in IbsStale : IbsOp(op, last, stale)

Spec == Init /\ [][Next]_vars

-----------------------------------------------------------------------------
Check(reqs) == resolve_events(um_list, events_list, reqs, FALSE)

\* The ways to give each event that needs one a counter of its own
Allocations(pev) ==
  LET hw == {i \in DOMAIN pev : pev[i].counter_mask # {}}
  IN {f \in [hw -> op_get_counter_mask] :
        /\ \A i \in hw : f[i] \in pev[i].counter_mask
        /\ \A i, j \in hw : f[i] = f[j] => i = j}

WellAllocated(r) ==
  IF r.ok
  THEN [i \in {j \in DOMAIN r.map : r.map[j] # -1} |-> r.map[i]] \in Allocations(r.pev)
  ELSE r.why = "counters" =>
         \/ Allocations(r.pev) = {}
         \/ \E i \in DOMAIN r.pev : r.pev[i].counter_mask = {} /\ ~r.pev[i].ext

\* op_alloc_counter.c allocates counters whenever there is an allocation, and
\* only one the hardware can run: each event is on a counter that can count it,
\* that exists, and that no other event has.  (An event without counters is an
\* extended one; with one that needs none, the number of events may exceed the
\* counters only for those.)
CountersAllocated ==
  pc = "ready" => \A reqs \in Requests : WellAllocated(Check(reqs))

\* The daemon accepts the events and finds each by the counter of its samples.
StoredAsAsked(evs, d) ==
  evs # <<>> =>
    /\ d.ok
    /\ \A k \in DOMAIN evs :
         /\ find_counter_event(d.events, KernelCounter(evs[k])) # 0
         /\ fill_header(d.events, KernelCounter(evs[k]))
              = [ctr_event |-> evs[k].value, ctr_count |-> evs[k].count, ctr_um |-> evs[k].um]

DaemonAgrees(evs) == StoredAsAsked(evs, opd_parse_events(evs))

SamplesAgree(r) == r.ok => DaemonAgrees(OpcontrolEvents(r))

\* g is the default event, if there is one, and p what becomes of it when it is asked for.
AsIfAsked(g, p) == p.ok /\ p.config[g.req] = g.config
SoundDefault(m) ==
  m.type = "bitmask" /\ m.default_mask_name = NoName => _is_um_valid_bitmask(m, m.default_mask)
DefaultProgrammed(g, callgraph) ==
  /\ g.ok /\ g.config.ok /\ ~g.req.um_given
  /\ \A e \in Range(events_list) : e.name = g.req.name =>
       SoundDefault(um_list[e.unit]) /\ (callgraph \/ ~CountTooSmall(e, g.req, FALSE))
  => AsIfAsked(g, op_process_events_list(um_list, events_list, {g.req}, callgraph))

\* A sample the kernel takes on a counter is stored by the daemon under the
\* event, the mask and the count that were requested for that counter, whatever
\* order the allocation gave the counters in and also for the timer, whose
\* samples come with counter 0 (opd_events.c, "it is safe to map this to the
\* timer event without actually doing the lookup").  The event that operf takes when it is
\* given none, which nothing checks, is what it would be if it had been asked for, in tables
\* whose default masks are valid.  An IBS sample that is not the last entry of its buffer is
\* counted under each selected event that its registers imply, and under no other; one of an
\* op is a sample of a fetch if the memory of its ibs_sample was not clear.
SampleEvent ==
  /\ pc = "sampling" => IbsCounted(ibs.s, ibs.args.family, ibs.counts, ibs.taken)
  /\ pc = "ready" =>
       /\ \A reqs \in Requests : SamplesAgree(Check(reqs))
       /\ \A cpu_type \in Cpus, callgraph \in BOOLEAN :
            DefaultProgrammed(op_get_default_event(um_list, events_list, cpu_type, callgraph), callgraph)

Duplicated(m) == {v \in Values(m) : Cardinality({i \in DOMAIN m.um : m.um[i].value = v}) > 1}

\* The masks that mean something: a union of values each of which is unique
Meaning(m, mask) ==
  IF mask = {} THEN {} \in Values(m)
  ELSE /\ \A v \in Duplicated(m) : ~(v \subseteq mask)
       /\ \E S \in SUBSET Values(m) : UNION S = mask

\* Sorting, removing duplicates and matching accept exactly the bitmasks that
\* are a union of the values of the unit mask and contain no ambiguous value,
\* for unit masks in which at most one value occurs twice
\* (op_events.c, _is_um_valid_bitmask).
UnitMaskRight ==
  pc = "ready" => \A i \in DOMAIN um_list :
    LET m == um_list[i]
    IN m.type = "bitmask" /\ Cardinality(Duplicated(m)) <= 1 =>
         \A mask \in SUBSET Bits : _is_um_valid_bitmask(m, mask) <=> Meaning(m, mask)

GivenMask(p, req, r) ==
  p.ok /\ p.config[req].ok => p.config[req].um = r.pes[1].unit_mask

\* "You can specify unit mask values using either a numerical value ... or a
\* symbolic name" (doc/operf.1.in:121): the kernel is given the mask that was
\* requested.
MaskProgrammed ==
  pc = "ready" => \A reqs \in Requests :
    Len(reqs) = 1 /\ reqs[1].um_given =>
      GivenMask(op_process_events_list(um_list, events_list, {reqs[1]}, FALSE),
                reqs[1], Check(<<reqs[1]>>))

=============================================================================
