----------------------------- MODULE EventTables -----------------------------
(***************************************************************************)
(* The event tables of libop: unit masks and events as op_events.c keeps   *)
(* them, the checks ophelp makes of an event specification, the allocation *)
(* of counters (op_alloc_counter.c), the event list of the daemon          *)
(* (opd_events.c) and the encoding operf and ocount hand to the kernel     *)
(* (op_pe_utils.cpp).                                                      *)
(*                                                                         *)
(* A mask is the set of its bits: & is \cap, | is \cup, &~ is \.  The name *)
(* of a unit mask is a sequence, so that "a,b" is <<"a", "b">>.  The bits  *)
(* that extra: adds to a named mask are a set of flags; "none" is          *)
(* EXTRA_NONE, which each of them has.                                     *)
(***************************************************************************)
EXTENDS Integers, Sequences, FiniteSets, FiniteSetsExt, SequencesExt, TLC

CONSTANTS NrCounters,     \* op_get_nr_counters: the timer's counter included
          Available,      \* the counters that /dev/oprofile shows
          Filter,         \* arch_get_filter: the events this CPU lacks
          TimerFs,        \* op_cpu_has_timer_fs
          MAX_UNIT_MASK

NoName == "(null)"
TIMER == "TIMER"
TimerMask == <<"TIMER_UM">>
TimerValue == 999

\* exit(EXIT_FAILURE) with the reason it prints
Exit(why) == [ok |-> FALSE, why |-> why]

Values(um) == {um.um[i].value : i \in DOMAIN um.um}

-----------------------------------------------------------------------------
(* Reading the tables                                                      *)

parse_extra(flags) == {"none"} \cup flags

parse_um(line) ==
  [name |-> <<line.name>>, type |-> line.type, default_mask |-> line.default,
   default_mask_name |-> line.default_name, um |-> <<>>, used |-> FALSE]

\* The description of a named mask starts behind its name.
parse_um_entry(line) ==
  IF line.named
  THEN [value |-> line.value, extra |-> parse_extra(line.flags), name |-> line.name,
        desc |-> line.desc]
  ELSE [value |-> line.value, extra |-> {}, name |-> NoName, desc |-> line.desc]

try_find_um(ums, name) == SelectInSeq(ums, LAMBDA u : u.name = name)

MarkUsed(ums, S) == [i \in DOMAIN ums |-> IF i \in S THEN [ums[i] EXCEPT !.used = TRUE] ELSE ums[i]]

find_um(ums, name) ==
  LET i == try_find_um(ums, name)
  IN IF i = 0 THEN Exit("could not find unit mask")
     ELSE [ok |-> TRUE, ums |-> MarkUsed(ums, {i}), unit |-> i]

merge_um(ums, names) ==
  LET idx == [n \in DOMAIN names |-> try_find_um(ums, <<names[n]>>)]
      parts == [n \in DOMAIN names |-> ums[idx[n]]]
      entries == FlattenSeq([n \in DOMAIN names |-> parts[n].um])
      type == parts[1].type
  IN CASE try_find_um(ums, names) # 0 -> find_um(ums, names)
       [] \E n \in DOMAIN idx : idx[n] = 0 -> Exit("could not find unit mask")
       [] \E n \in DOMAIN idx : parts[n].type # type -> Exit("parse error")
       [] type \notin {"bitmask", "exclusive"} -> Exit("parse error")
       [] Len(entries) > MAX_UNIT_MASK -> Exit("parse error")
       [] OTHER ->
            [ok |-> TRUE, unit |-> Len(ums) + 1,
             ums |-> Append(MarkUsed(ums, Range(idx)),
                       [name |-> names, type |-> type, um |-> entries, used |-> TRUE,
                        default_mask |-> UNION {parts[n].default_mask : n \in DOMAIN parts},
                        default_mask_name |-> NoName])]

\* A line of an events file whose um: tag names one unit mask or several
ReadEventLine(ums, line) ==
  IF Len(line.um) > 1 THEN merge_um(ums, line.um) ELSE find_um(ums, line.um)

NewEvent(line, unit) ==
  [name |-> line.name, val |-> line.val, counter_mask |-> line.counters, ext |-> line.ext,
   unit |-> unit, min_count |-> line.min_count, filter |-> line.filter]

check_unit_mask(um) ==
  /\ um.used
  /\ um.type = "mandatory" => Len(um.um) = 1
  /\ um.type = "bitmask" => um.default_mask \ UNION Values(um) = {}
  /\ um.type = "exclusive" =>
       \E i \in DOMAIN um.um : IF um.default_mask_name # NoName
                               THEN um.um[i].name = um.default_mask_name
                               ELSE um.um[i].value = um.default_mask

arch_filter_events(evs) == SelectSeq(evs, LAMBDA e : e.filter \notin Filter)

\* What is left of load_events once both files are read
load_events(ums, all_evs) ==
  LET evs == arch_filter_events(all_evs)
  IN CASE \E i \in DOMAIN ums : ~check_unit_mask(ums[i]) -> Exit("unit mask is not valid")
       [] ~TimerFs -> [ok |-> TRUE, ums |-> ums, evs |-> evs]
       [] \E i \in DOMAIN evs : evs[i].name = TIMER \/ evs[i].val = TimerValue -> Exit("TIMER")
       [] try_find_um(ums, TimerMask) # 0 -> Exit("TIMER")
       [] OTHER ->
            [ok |-> TRUE,
             ums |-> Append(ums, [name |-> TimerMask, type |-> "mandatory", used |-> TRUE,
                        um |-> <<[value |-> {}, extra |-> {}, name |-> "", desc |-> "No"]>>,
                        default_mask |-> {}, default_mask_name |-> NoName]),
             evs |-> Append(evs, [name |-> TIMER, val |-> TimerValue, ext |-> FALSE,
                        counter_mask |-> {NrCounters - 1}, unit |-> Len(ums) + 1,
                        min_count |-> 0, filter |-> -1])]

-----------------------------------------------------------------------------
(* Unit masks of a specification                                           *)

match_event(v, type, um) ==
  IF type = "bitmask" THEN v \cap um # {} \/ v = {} ELSE v = um

\* The index of the event, or 0
find_event_by_name(ums, evs, name, um, um_valid) ==
  SelectInSeq(evs, LAMBDA e : /\ e.name = name
                              /\ um_valid => \E v \in Values(ums[e.unit]) :
                                               match_event(v, ums[e.unit].type, um))

Weight(v) == MapThenSumSet(LAMBDA b : 2 ^ b, v)

RECURSIVE RemoveDuplicates(_, _, _)

\* um[i], not the value that was just taken, is compared with what follows, and
\* what follows the last value are the zeroes of a cleared array.
RemoveDuplicates(sorted, i, k) ==
  LET um(n) == IF n <= Len(sorted) THEN sorted[n] ELSE {}
      differs == {n \in (k + 1)..(MAX_UNIT_MASK + 1) : um(n) # um(i)} \cup {MAX_UNIT_MASK + 1}
  IN IF k > Len(sorted) THEN <<>>
     ELSE <<[value |-> sorted[k], duped |-> Min(differs) # k + 1]>>
            \o RemoveDuplicates(sorted, i + 1, Min(differs))

\* A mutant: a value counts as soon as one of its bits is asked for.
_is_um_valid_bitmask_Overlap(um, passed_um) ==
  LET used == {v \in Values(um) : v \cap passed_um # {}}
      once == {v \in used : Cardinality({i \in DOMAIN um.um : um.um[i].value = v}) = 1}
  IN \/ passed_um = {} /\ {} \in Values(um)
     \/ used = once /\ passed_um \subseteq UNION used /\ passed_um # {}

_is_um_valid_bitmask(um, passed_um) ==
  LET sorted == SortSeq([i \in DOMAIN um.um |-> um.um[i].value],
                        LAMBDA v, w : Weight(v) < Weight(w))
      no_dups == RemoveDuplicates(sorted, 1, 1)
      used == {no_dups[i] : i \in {j \in DOMAIN no_dups : no_dups[j].value \subseteq passed_um}}
  IN \/ passed_um = {} /\ {} \in Values(um)
     \/ /\ \A d \in used : ~d.duped
        /\ UNION {d.value : d \in used} = passed_um
        /\ passed_um # {}

\* The set of complaints: the last event with this value decides unless one is fine.
op_check_events(ums, evs, ctr, nr, um) ==
  LET same == {i \in DOMAIN evs : evs[i].val = nr}
      bad_um(i) == LET u == ums[evs[i].unit]
                   IN IF u.type = "bitmask" THEN ~_is_um_valid_bitmask(u, um)
                      ELSE um \notin Values(u)
      ret(i) == (IF ctr \notin evs[i].counter_mask THEN {"OP_INVALID_COUNTER"} ELSE {})
                  \cup (IF bad_um(i) THEN {"OP_INVALID_UM"} ELSE {})
  IN CASE same = {} -> {"OP_INVALID_EVENT"}
       [] \E i \in same : ret(i) = {} -> {}
       [] OTHER -> ret(Max(same))

\* The first word of the descriptions is compared, not the names.
extra_check(um, name, w) ==
  /\ um.um[w].extra # {}
  /\ Cardinality({i \in DOMAIN um.um : um.um[i].desc = name}) <= 1

do_resolve_unit_mask(ums, evs, pe) ==
  LET same == {i \in DOMAIN evs : evs[i].name = pe.name}
      um(i) == ums[evs[i].unit]
      first == um(Min(same))
      named == IF pe.unit_mask_name = NoName /\ ~pe.unit_mask_valid
               THEN first.default_mask_name ELSE pe.unit_mask_name
      value == IF pe.unit_mask_valid THEN pe.unit_mask ELSE first.default_mask
      entry(i) == SelectInSeq(um(i).um, LAMBDA d : d.name = named)
      holders == {i \in same : entry(i) # 0}
  IN CASE same = {} -> Exit("cannot find event")
       [] same # {} /\ named = NoName ->
            IF \E i \in same : Cardinality({k \in DOMAIN um(i).um : um(i).um[k].value = value}) > 1
            THEN Exit("unit mask is non unique")
            ELSE [ok |-> TRUE, extra |-> {}, extra_um |-> {},
                  pe |-> [pe EXCEPT !.unit_mask = value, !.unit_mask_valid = TRUE]]
       [] same # {} /\ named # NoName ->
            IF holders = {} THEN Exit("cannot find unit mask")
            ELSE LET e == Min(holders)
                     d == um(e).um[entry(e)]
                 IN IF ~extra_check(um(e), named, entry(e)) THEN Exit("named unit mask")
                    ELSE [ok |-> TRUE,
                          extra |-> IF d.extra = {"none"} THEN {} ELSE d.extra,
                          extra_um |-> IF d.extra = {"none"} THEN d.value ELSE {},
                          pe |-> [pe EXCEPT !.unit_mask = d.value, !.unit_mask_valid = TRUE,
                                            !.unit_mask_name = named]]

-----------------------------------------------------------------------------
(* ophelp: a request has the event's name, its count and its unit mask: a  *)
(* number, a name or nothing (um_given FALSE).                             *)

ParseEvent(req) ==
  [name |-> req.name, count |-> req.count, unit_mask_valid |-> req.um_given,
   unit_mask |-> IF req.um_name = NoName THEN req.um ELSE {},
   unit_mask_name |-> req.um_name]

parse_events(reqs) ==
  IF Len(reqs) > 1 /\ \E i \in DOMAIN reqs : reqs[i].name = TIMER
  THEN Exit("TIMER with hardware counters")
  ELSE [ok |-> TRUE, pes |-> [i \in DOMAIN reqs |-> ParseEvent(reqs[i])]]

CountTooSmall(ev, pe, callgraph) ==
  pe.count < (IF callgraph THEN 15 ELSE 1) * ev.min_count

check_event(ums, evs, pe, selected, callgraph) ==
  IF selected = 0 THEN Exit("invalid unit mask")
  ELSE IF /\ pe.unit_mask_name = NoName
          /\ "OP_INVALID_UM" \in op_check_events(ums, evs, 0, evs[selected].val, pe.unit_mask)
       THEN Exit("invalid unit mask")
       ELSE IF CountTooSmall(evs[selected], pe, callgraph) THEN Exit("below the minimum")
            ELSE [ok |-> TRUE]

build_counter_arc(pev) == [i \in DOMAIN pev |-> pev[i].counter_mask]

RECURSIVE allocate_counter(_, _, _)

\* A mutant: the first counter that is free is kept.
allocate_counter_Greedy(ctr_arc, depth, allocated_mask) ==
  LET free == ctr_arc[depth] \ allocated_mask
      c == IF ctr_arc[depth] = {} THEN -1 ELSE Min(free)
      rest == allocate_counter(ctr_arc, depth + 1, allocated_mask \cup {c})
  IN IF depth > Len(ctr_arc) THEN [ok |-> TRUE, map |-> <<>>]
     ELSE IF ctr_arc[depth] # {} /\ free = {} THEN Exit("counters")
     ELSE IF rest.ok THEN [rest EXCEPT !.map = <<c>> \o @] ELSE rest

\* Backtracking, the counters of an event in ascending order
allocate_counter(ctr_arc, depth, allocated_mask) ==
  IF depth > Len(ctr_arc) THEN [ok |-> TRUE, map |-> <<>>]
  ELSE IF ctr_arc[depth] = {}
  THEN LET rest == allocate_counter(ctr_arc, depth + 1, allocated_mask)
       IN IF rest.ok THEN [rest EXCEPT !.map = <<-1>> \o @] ELSE rest
  ELSE LET fits == {c \in ctr_arc[depth] \ allocated_mask :
                      allocate_counter(ctr_arc, depth + 1, allocated_mask \cup {c}).ok}
       IN IF fits = {} THEN Exit("counters")
          ELSE LET c == Min(fits)
               IN [ok |-> TRUE,
                   map |-> <<c>> \o allocate_counter(ctr_arc, depth + 1, allocated_mask \cup {c}).map]

Counters == 0..(NrCounters - 1)

\* The counters of /dev/oprofile and the timer's
op_get_counter_mask == Available \cup (IF TimerFs THEN {NrCounters - 1} ELSE {})

map_event_to_counter(pev) ==
  LET pmc == {i \in DOMAIN pev : ~pev[i].ext}
      available == IF op_get_counter_mask = {} THEN Counters ELSE op_get_counter_mask
  IN IF Cardinality(pmc) > Cardinality(available) THEN Exit("counters")
     ELSE allocate_counter(build_counter_arc(pev), 1, Counters \ available)

\* The later of two events is compared before its mask is resolved.
Repeated(parsed, pes) ==
  \E i, j \in DOMAIN pes :
    /\ i < j
    /\ <<pes[i].name, pes[i].count, pes[i].unit_mask>>
         = <<parsed[j].name, parsed[j].count, parsed[j].unit_mask>>

\* The events of resolved requests, and a counter for each
select_events(ums, evs, pes, sel, callgraph) ==
  LET pev == [i \in DOMAIN pes |-> evs[sel[i]]]
      pmc == {i \in DOMAIN pes : ~pev[i].ext}
      map == map_event_to_counter(pev)
  IN IF \E i \in DOMAIN pes : ~check_event(ums, evs, pes[i], sel[i], callgraph).ok
     THEN Exit("invalid event")
     ELSE IF Cardinality(pmc) > NrCounters \/ ~map.ok
     THEN [ok |-> FALSE, why |-> "counters", pev |-> pev]
     ELSE [ok |-> TRUE, pes |-> pes, pev |-> pev, map |-> map.map]

check_resolved(ums, evs, parsed, pes, callgraph) ==
  IF Repeated(parsed, pes) THEN Exit("distinct")
  ELSE select_events(ums, evs, pes,
         [i \in DOMAIN pes |-> find_event_by_name(ums, evs, pes[i].name, pes[i].unit_mask,
                                                  pes[i].unit_mask # {})],
         callgraph)

resolve_parsed(ums, evs, parsed, resolved, callgraph) ==
  IF \E i \in DOMAIN resolved : ~resolved[i].ok THEN Exit("unit mask")
  ELSE check_resolved(ums, evs, parsed, [i \in DOMAIN resolved |-> resolved[i].pe], callgraph)

\* ophelp --check-events
resolve_events(ums, evs, reqs, callgraph) ==
  LET p == parse_events(reqs)
  IN IF ~p.ok THEN p
     ELSE resolve_parsed(ums, evs, p.pes,
            [i \in DOMAIN reqs |-> do_resolve_unit_mask(ums, evs, p.pes[i])], callgraph)

\* ophelp --unit-mask: a number, or the name of the default
UnitMaskShown(r) ==
  IF ~r.ok THEN r ELSE [ok |-> TRUE, name |-> r.pe.unit_mask_name, um |-> r.pe.unit_mask]

show_unit_mask(ums, evs, req) == UnitMaskShown(do_resolve_unit_mask(ums, evs, ParseEvent(req)))

\* ophelp --extra-mask: the extra bits if there are any, else the mask
ExtraMaskShown(r) ==
  IF ~r.ok THEN r ELSE [ok |-> TRUE, extra |-> r.extra, um |-> r.extra_um]

show_extra_mask(ums, evs, req) == ExtraMaskShown(do_resolve_unit_mask(ums, evs, ParseEvent(req)))

-----------------------------------------------------------------------------
(* The daemon's events: what opcontrol passes on is the event's name and   *)
(* the counter ophelp gave it; extended events go another way.             *)

OpcontrolEvents(res) ==
  LET hw == SelectSeq([i \in DOMAIN res.map |-> i], LAMBDA i : res.map[i] # -1)
  IN [k \in DOMAIN hw |-> [name |-> res.pev[hw[k]].name, value |-> res.pev[hw[k]].val,
                           counter |-> res.map[hw[k]], count |-> res.pes[hw[k]].count,
                           um |-> res.pes[hw[k]].unit_mask]]

opd_parse_events(events) ==
  IF events = <<>> THEN Exit("no events passed")
  ELSE IF Len(events) > NrCounters THEN Exit("too many events passed")
  ELSE [ok |-> TRUE, events |-> events]

\* A mutant: the counter's number is taken for the event's.
find_counter_event_Index(opd_events, counter) ==
  IF counter + 1 \in DOMAIN opd_events THEN counter + 1 ELSE 0

\* The index in the daemon's events, 0 for abort()
find_counter_event(opd_events, counter) ==
  IF TimerFs /\ opd_events[1].name = TIMER /\ Len(opd_events) = 1 THEN 1
  ELSE SelectInSeq(opd_events, LAMBDA e : e.counter = counter)

\* The event's part of the header of a sample file
fill_header(opd_events, counter) ==
  LET e == opd_events[find_counter_event(opd_events, counter)]
  IN [ctr_event |-> e.value, ctr_count |-> e.count, ctr_um |-> e.um]

\* The kernel's counter number in a sample: 0 for the timer
KernelCounter(e) == IF e.name = TIMER THEN 0 ELSE e.counter

-----------------------------------------------------------------------------
(* operf and ocount: the encoding for perf_event_open, on x86              *)

NamedConfig(x) ==
  IF ~x.ok THEN x
  ELSE IF x.extra # {} THEN [ok |-> TRUE, um |-> {}, extra |-> x.extra]
  ELSE [ok |-> TRUE, um |-> x.um, extra |-> {}]

DefaultConfig(ums, evs, req, dflt) ==
  IF ~dflt.ok THEN dflt
  ELSE IF dflt.name # NoName
  THEN NamedConfig(show_extra_mask(ums, evs, [req EXCEPT !.um_given = TRUE, !.um_name = dflt.name]))
  ELSE [ok |-> TRUE, um |-> dflt.um, extra |-> {}]

\* A unit mask of 0 is taken for one that was not given.
_get_event_code(ums, evs, req) ==
  IF find_event_by_name(ums, evs, req.name, {}, FALSE) = 0 THEN Exit("Unable to find info for event")
  ELSE IF req.um_name # NoName THEN NamedConfig(show_extra_mask(ums, evs, req))
  ELSE IF req.um # {} THEN [ok |-> TRUE, um |-> req.um, extra |-> {}]
  ELSE DefaultConfig(ums, evs, req,
         show_unit_mask(ums, evs, [req EXCEPT !.um_given = FALSE, !.um = {}]))

\* op_events.c: the event that counts cycles, or the nearest there is.  A mask is a
\* set of bits.
Descr(name, count, um) == [name |-> name, count |-> count, um |-> um]
op_default_event(cpu_type) ==
  CASE cpu_type \in {"PPRO", "PII", "PIII", "P6_MOBILE", "CORE", "CORE_2", "ATHLON", "HAMMER",
                     "FAMILY10", "ARCH_PERFMON", "FAMILY11H", "ATOM", "CORE_I7", "NEHALEM",
                     "HASWELL", "SILVERMONT", "WESTMERE", "SANDYBRIDGE", "IVYBRIDGE",
                     "MIPS_LOONGSON2", "FAMILY12H", "FAMILY14H", "FAMILY15H", "AMD64_GENERIC"} ->
         Descr("CPU_CLK_UNHALTED", 100000, {})
    [] cpu_type = "RTC" -> Descr("RTC_INTERRUPTS", 1024, {})
    [] cpu_type \in {"P4", "P4_HT2"} -> Descr("GLOBAL_POWER_EVENTS", 100000, {0})
    [] cpu_type \in {"IA64", "IA64_1", "IA64_2"} -> Descr("CPU_CYCLES", 1000000, {})
    [] cpu_type \in {"ARM_XSCALE1", "ARM_XSCALE2", "ARM_MPCORE", "ARM_V6", "ARM_V7", "ARM_V7_CA5",
                     "ARM_V7_CA7", "ARM_V7_CA9", "ARM_V7_CA15", "AVR32", "ARM_SCORPION",
                     "ARM_SCORPIONMP", "ARM_KRAIT", "ARM_V8_APM_XGENE"} ->
         Descr("CPU_CYCLES", 100000, {})
    [] cpu_type \in {"AXP_EV4", "AXP_EV5", "AXP_PCA56", "AXP_EV6", "AXP_EV67", "PPC64_PA6T",
                     "PPC64_970", "PPC64_970MP", "PPC_7450", "PPC64_POWER4", "PPC64_POWER5",
                     "PPC64_POWER6", "PPC64_POWER5p", "PPC64_POWER5pp", "PPC64_CELL",
                     "PPC64_POWER7", "PPC64_IBM_COMPAT_V1", "PPC64_ARCH_V1", "PPC64_POWER8",
                     "MIPS_20K", "MIPS_5K", "MIPS_25K"} -> Descr("CYCLES", 100000, {})
    [] cpu_type \in {"MIPS_24K", "MIPS_34K", "MIPS_74K", "MIPS_1004K"} ->
         Descr("INSTRUCTIONS", 100000, {})
    [] cpu_type \in {"MIPS_R10000", "MIPS_R12000"} -> Descr("INSTRUCTIONS_GRADUATED", 100000, {})
    [] cpu_type \in {"MIPS_RM7000", "MIPS_RM9000"} -> Descr("INSTRUCTIONS_ISSUED", 100000, {})
    [] cpu_type = "MIPS_SB1" -> Descr("INSN_SURVIVED_STAGE7", 100000, {})
    [] cpu_type \in {"MIPS_VR5432", "MIPS_VR5500"} -> Descr("INSTRUCTIONS_EXECUTED", 100000, {})
    [] cpu_type \in {"PPC_E500", "PPC_E500_2", "PPC_E500MC", "PPC_E6500", "PPC_E300"} ->
         Descr("CPU_CLK", 100000, {})
    [] cpu_type \in {"S390_Z10", "S390_Z196", "S390_ZEC12"} ->
         IF NrCounters > 1 THEN Descr("HWSAMPLING", 4127518, {}) ELSE Descr(TIMER, 10000, {})
    [] cpu_type \in {"TILE_TILE64", "TILE_TILEPRO", "TILE_TILEGX"} -> Descr("ONE", 100000, {})
    [] cpu_type \in {"TIMER_INT", "NO_GOOD"} -> Descr("", 100000, {})

\* What operf records when no event is given.  It is not checked.
DefaultRequest(evs, d, e, callgraph) ==
  [name |-> d.name, count |-> IF callgraph THEN 15 * evs[e].min_count ELSE d.count,
   um_given |-> d.um # {}, um |-> d.um, um_name |-> NoName]
ProgramDefault(ums, evs, req) ==
  [ok |-> TRUE, req |-> req, config |-> _get_event_code(ums, evs, req)]
op_get_default_event(ums, evs, cpu_type, callgraph) ==
  LET d == op_default_event(cpu_type)
      e == find_event_by_name(ums, evs, d.name, {}, FALSE)
  IN IF d.name = "" \/ (callgraph /\ e = 0) THEN Exit("Unable to find default event")
     ELSE ProgramDefault(ums, evs, DefaultRequest(evs, d, e, callgraph))

\* Each event is checked by an ophelp of its own.
op_process_events_list(ums, evs, reqs, callgraph) ==
  IF \E req \in reqs : ~resolve_events(ums, evs, <<req>>, callgraph).ok
  THEN Exit("error retrieving info for event")
  ELSE [ok |-> TRUE, config |-> [req \in reqs |-> _get_event_code(ums, evs, req)]]

=============================================================================
