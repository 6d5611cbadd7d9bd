----------------------------- MODULE PerfStream -----------------------------
(***************************************************************************)
(* How records get from the kernel to the converter: operf_record and      *)
(* operf_read of operf_counter.cpp, with the helpers of operf_utils.cpp.   *)
(* The recorder opens a counter for each event on each processor (or of    *)
(* each thread), maps a ring buffer for each processor (or thread), and    *)
(* copies what the kernel puts there to a pipe or to a file.  The reader   *)
(* cuts what arrives into records again.                                   *)
(*                                                                         *)
(* The unit of length is 8 bytes, the alignment of everything that is      *)
(* written: a perf_event_header, an id; the headers of the file count as   *)
(* one unit.  Waking up and quitting are in OperfRun, what is done with    *)
(* the records in OperfConvert.                                            *)
(***************************************************************************)
EXTENDS Integers, Sequences, FiniteSets, FiniteSetsExt, SequencesExt

CONSTANTS
  Modes,       \* of "app", "pid", "all" (system_wide)
  Tgid,        \* Tgid[t]: the thread group of thread t, named by its leader
  PidToProfile,
  NumCpus, NumEvents,
  CpuMinusOne, \* values of use_cpu_minus_one
  ToFile,      \* values of write_to_file
  RingSize,    \* num_mmap_pages * pagesize, in units
  PipeSize,    \* capacity of the pipe
  MmapWindow, PageSize, \* MMAP_WINDOW_SZ and pg_sz of the reader
  Sizes,       \* of records
  MaxRecords   \* bound on what the kernel records

ASSUME StreamAssumption ==
  /\ {RingSize, MmapWindow, PageSize, NumCpus, NumEvents} \subseteq Nat \ {0}
  /\ Sizes \subseteq Nat
  /\ \A s \in Sizes : 2 <= s /\ s <= RingSize /\ s + PageSize - 1 <= MmapWindow
  /\ CpuMinusOne \subseteq BOOLEAN /\ ToFile \subseteq BOOLEAN
  /\ IsFiniteSet(DOMAIN Tgid)

VARIABLES
  mode, write_to_file, use_cpu_minus_one,
  alive,        \* threads that have not exited
  listed,       \* entries of /proc that are still to be looked at
  procs,        \* of [tid, pid], as add_process got them
  perfCounters, \* of [pid, cpu, evt_num, ring, enabled]; the position is the id
  samples_array,\* ring buffers: [data, data_head, data_tail, prev]
  h_attrs,      \* for each event, its ids (register_perf_event_id)
  pc,           \* of the recorder
  pending,      \* what op_write_output has still to write from a buffer
  i, head, old, \* of op_get_kernel_event_data
  out,          \* the pipe, or the whole file
  total_bytes_recorded,
  rd,           \* the reader
  got,          \* the records it has cut out
  stored        \* stored[r]: how many records ring r was given

setupVars == <<mode, write_to_file, use_cpu_minus_one, procs, listed, h_attrs>>
ringVars == <<perfCounters, samples_array, stored>>
copyVars == <<i, head, old>>
vars == <<setupVars, ringVars, copyVars, alive, pc, pending, out,
          total_bytes_recorded, rd, got>>

evts == 1..NumEvents
system_wide == mode = "all"
pid_started == mode = "pid"
Unit(ring, n, k, size, id) ==
  [k |-> "rec", ring |-> ring, n |-> n, i |-> k, size |-> size, id |-> id]
Record(ring, n, size, id) == [k \in 1..size |-> Unit(ring, n, k, size, id)]

\* The reader: where it is, the counts of ids and the ids it has read, the
\* units of a record, and the window on the file.
reader == [pc |-> "header", nattrs |-> 0, nids |-> <<>>, ids |-> [e \in evts |-> <<>>],
           event |-> <<>>, offset |-> 0, head |-> 0, mmap_size |-> 0, end |-> 0]

\* operf_record::operf_record
Init ==
  /\ mode \in Modes /\ write_to_file \in ToFile /\ use_cpu_minus_one \in CpuMinusOne
  /\ alive = DOMAIN Tgid
  /\ listed = IF mode = "all" THEN {t \in DOMAIN Tgid : Tgid[t] = t}
              ELSE IF mode = "pid" THEN {PidToProfile} ELSE {}
  /\ procs = <<>> /\ perfCounters = <<>> /\ samples_array = <<>>
  /\ h_attrs = [e \in evts |-> <<>>]
  /\ pc = "procs" /\ pending = <<>> /\ out = <<>> /\ total_bytes_recorded = 0
  /\ i = 1 /\ head = 0 /\ old = 0
  /\ rd = reader /\ got = <<>> /\ stored = <<>>

-----------------------------------------------------------------------------
(* setup()                                                                 *)

\* A thread exits while the recorder sets up.
Exit(t) ==
  /\ pc \in {"procs", "open"} /\ t \in alive
  /\ alive' = alive \ {t}
  /\ UNCHANGED <<setupVars, ringVars, copyVars, pc, pending, out,
                 total_bytes_recorded, rd, got>>

\* _get_one_process_info: a process that is gone is an error only when it is
\* the one to profile; one that goes between the two looks at it is one always.
_get_one_process_info(p) ==
  /\ pc = "procs" /\ p \in listed
  /\ listed' = listed \ {p}
  /\ \/ /\ p \notin alive
        /\ pc' = IF system_wide THEN "procs" ELSE "invalid"
        /\ procs' = procs
     \/ /\ p \in alive /\ Tgid[p] # p
        /\ procs' = Append(procs, [tid |-> p, pid |-> Tgid[p]])
        /\ pc' = pc
     \/ /\ p \in alive /\ Tgid[p] = p
        /\ procs' = procs \o [k \in 1..Cardinality({t \in alive : Tgid[t] = p}) |->
                      [tid |-> SetToSortSeq({t \in alive : Tgid[t] = p}, <)[k], pid |-> p]]
        /\ pc' = pc
     \/ /\ p \in alive /\ Tgid[p] = p /\ pc' = "invalid" /\ procs' = procs
  /\ UNCHANGED <<mode, write_to_file, use_cpu_minus_one, h_attrs, ringVars, copyVars,
                 alive, pending, out, total_bytes_recorded, rd, got>>

op_get_process_info ==
  /\ pc = "procs" /\ listed = {}
  /\ pc' = "open"
  /\ UNCHANGED <<setupVars, ringVars, copyVars, alive, pending, out,
                 total_bytes_recorded, rd, got>>

profile_process_group == pid_started /\ Len(procs) > 1
num_cpus == IF use_cpu_minus_one \/ profile_process_group THEN 1 ELSE NumCpus
num_procs == IF profile_process_group THEN Len(procs) ELSE 1
Wanted == num_cpus * num_procs * NumEvents

\* The three loops of setup(): the events of a process (or processor) are
\* together.  operf_counter's constructor leaves the counter disabled.
operf_counter(c) ==
  LET p == ((c - 1) \div NumEvents) % num_procs
      cpu == (c - 1) \div (NumEvents * num_procs)
  IN [pid |-> IF profile_process_group THEN procs[p + 1].tid
              ELSE IF system_wide THEN -1 ELSE PidToProfile,
      cpu |-> IF use_cpu_minus_one \/ profile_process_group THEN -1 ELSE cpu,
      evt_num |-> 1 + ((c - 1) % NumEvents), ring |-> 0, enabled |-> FALSE]

register_perf_event_id(e, id) == h_attrs' = [h_attrs EXCEPT ![e] = Append(@, id)]

\* perf_event_open gives the counter an id; it fails for a thread that is gone,
\* and may fail otherwise (EBUSY).
perf_event_open ==
  /\ pc = "open" /\ Len(perfCounters) < Wanted
  /\ LET c == Len(perfCounters) + 1
         ctr == operf_counter(c)
     IN \/ /\ ctr.pid = -1 \/ ctr.pid \in alive
           /\ perfCounters' = Append(perfCounters, ctr)
           /\ register_perf_event_id(ctr.evt_num, c)
           /\ pc' = pc
        \/ /\ pc' = "invalid" /\ UNCHANGED <<perfCounters, h_attrs>>
  /\ UNCHANGED <<mode, write_to_file, use_cpu_minus_one, procs, listed, samples_array,
                 stored, copyVars, alive, pending, out, total_bytes_recorded, rd, got>>

\* prepareToRecord for the next counter: the first of each group gets a ring
\* buffer (_prepare_to_record_one_fd), the others write to that one.  A counter
\* is enabled at once.
_prepare_to_record_one_fd ==
  samples_array' = Append(samples_array, [data |-> [k \in 0..RingSize - 1 |-> Unit(0, 0, 0, 0, 0)],
                                          data_head |-> 0, data_tail |-> 0, prev |-> 0])
prepareToRecord ==
  LET done == Cardinality({c \in DOMAIN perfCounters : perfCounters[c].enabled})
      first == done % NumEvents = 0
      ring == 1 + done \div NumEvents
  IN /\ pc = "open" /\ Len(perfCounters) = Wanted /\ done < Wanted
     /\ IF first THEN _prepare_to_record_one_fd ELSE samples_array' = samples_array
     /\ stored' = IF first THEN Append(stored, 0) ELSE stored
     /\ perfCounters' = [perfCounters EXCEPT ![done + 1].ring = ring, ![done + 1].enabled = TRUE]
     /\ UNCHANGED <<setupVars, copyVars, alive, pc, pending, out,
                    total_bytes_recorded, rd, got>>

\* The mapping fails (EPERM): setup() gives up.
PrepareFails ==
  /\ pc = "open" /\ Len(perfCounters) = Wanted
  /\ \E c \in DOMAIN perfCounters : ~perfCounters[c].enabled
  /\ pc' = "invalid"
  /\ UNCHANGED <<setupVars, ringVars, copyVars, alive, pending, out,
                 total_bytes_recorded, rd, got>>

-----------------------------------------------------------------------------
(* The header                                                              *)

AllIds == FlattenSeq(h_attrs)
IdsBefore(e) == Len(FlattenSeq(SubSeq(h_attrs, 1, e - 1)))
IdUnits == [k \in DOMAIN AllIds |-> [k |-> "id", id |-> AllIds[k]]]

\* The ids of each event, then the attributes that say where they are, and a
\* header that says where those are; data_size is 0 until the recorder ends.
_write_header_to_file(data_size) ==
  LET n == Len(AllIds)
      attr(e) == [k |-> "attr", offset |-> 1 + IdsBefore(e), nids |-> Len(h_attrs[e])]
      fheader == [k |-> "header", attr_offset |-> 1 + n, nattrs |-> NumEvents,
                  data_offset |-> 1 + n + NumEvents, data_size |-> data_size]
  IN <<fheader>> \o IdUnits \o [e \in evts |-> attr(e)]

\* The ids are taken processor by processor.
_write_header_to_pipe_ByCpu ==
  <<[k |-> "header", nattrs |-> NumEvents]>>
    \o [e \in evts |-> [k |-> "attr", nids |-> Len(h_attrs[e])]]
    \o [k \in DOMAIN AllIds |-> [k |-> "id", id |-> k]]

\* A pipe gets the attributes first.
_write_header_to_pipe ==
  <<[k |-> "header", nattrs |-> NumEvents]>>
    \o [e \in evts |-> [k |-> "attr", nids |-> Len(h_attrs[e])]] \o IdUnits

write_op_header_info ==
  /\ pc = "open" /\ perfCounters # <<>> /\ Len(perfCounters) = Wanted
  /\ \A c \in DOMAIN perfCounters : perfCounters[c].enabled
  /\ pending' = IF write_to_file THEN _write_header_to_file(0) ELSE _write_header_to_pipe
  /\ pc' = "info"
  /\ UNCHANGED <<setupVars, ringVars, copyVars, alive, out, total_bytes_recorded, rd, got>>

\* op_write_output: a pipe takes what it has room for.
op_write_output ==
  /\ pending # <<>>
  /\ \E n \in 1..Len(pending) :
       /\ IF write_to_file THEN n = Len(pending) ELSE Len(out) + n <= PipeSize
       /\ out' = out \o SubSeq(pending, 1, n)
       /\ pending' = SubSeq(pending, n + 1, Len(pending))
       /\ total_bytes_recorded' = total_bytes_recorded + n
  /\ UNCHANGED <<setupVars, ringVars, copyVars, alive, pc, rd, got>>

\* record_process_info: a COMM record for each thread, the mappings once for
\* each thread group (op_record_process_exec_mmaps, for which a process that
\* is gone has none).
record_process_info ==
  FlattenSeq([p \in DOMAIN procs |->
    Record(0, p, 2, 0) \o
    IF (\A q \in 1..p - 1 : procs[q].pid # procs[p].pid) /\ procs[p].pid \in alive
    THEN Record(0, p + Len(procs), 2, 0) ELSE <<>>])

\* Before the samples: what is already there (for a new program only the
\* [vsyscall] mapping, op_get_vsyscall_mapping), and the kernel's image.
RecordInfo ==
  /\ pc = "info" /\ pending = <<>>
  /\ pending' = (IF pid_started \/ system_wide THEN record_process_info
                 ELSE Record(0, 1, 2, 0))
  /\ pc' = "drain"
  /\ UNCHANGED <<setupVars, ringVars, copyVars, alive, out, total_bytes_recorded, rd, got>>

-----------------------------------------------------------------------------
(* The ring buffers                                                        *)

NumStored == FoldSeq(+, 0, stored)

\* The kernel stores a record; when there is no room before data_tail it is lost.
Store(c, size) ==
  LET r == perfCounters[c].ring
      md == samples_array[r]
  IN /\ perfCounters[c].enabled /\ NumStored < MaxRecords
     /\ md.data_head + size - md.data_tail <= RingSize
     /\ samples_array' =
          [samples_array EXCEPT
             ![r].data_head = @ + size,
             ![r].data = [k \in DOMAIN @ |->
               IF \E u \in 1..size : k = (md.data_head + u - 1) % RingSize
               THEN Unit(r, stored[r] + 1,
                         CHOOSE u \in 1..size : k = (md.data_head + u - 1) % RingSize, size, c)
               ELSE @[k]]]
     /\ stored' = [stored EXCEPT ![r] = @ + 1]
     /\ UNCHANGED <<setupVars, perfCounters, copyVars, alive, pc, pending, out,
                    total_bytes_recorded, rd, got>>

\* The kernel is told before the data is copied.
ReadHead_TailFirst ==
  /\ pc = "drain" /\ pending = <<>> /\ i <= Len(samples_array)
  /\ LET md == samples_array[i]
     IN IF md.prev = md.data_head THEN i' = i + 1 /\ UNCHANGED <<head, old, pc, samples_array>>
        ELSE /\ head' = md.data_head /\ old' = md.prev /\ pc' = "copy" /\ i' = i
             /\ samples_array' = [samples_array EXCEPT ![i].data_tail = md.data_head]
  /\ UNCHANGED <<setupVars, perfCounters, stored, alive, pending, out,
                 total_bytes_recorded, rd, got>>

\* op_get_kernel_event_data for ring i: data_head is read once.
ReadHead ==
  /\ pc = "drain" /\ pending = <<>> /\ i <= Len(samples_array)
  /\ LET md == samples_array[i]
     IN IF md.prev = md.data_head THEN i' = i + 1 /\ UNCHANGED <<head, old, pc>>
        ELSE head' = md.data_head /\ old' = md.prev /\ pc' = "copy" /\ i' = i
  /\ UNCHANGED <<setupVars, ringVars, alive, pending, out, total_bytes_recorded, rd, got>>

\* The end of what is written now: the end of the buffer if the data wraps.
Wraps == (old % RingSize) + (head - old) # head % RingSize
ChunkEnd == IF Wraps /\ old \div RingSize < head \div RingSize
            THEN RingSize * (1 + old \div RingSize) ELSE head

\* op_write_output straight from the buffer.
CopyOut ==
  /\ pc = "copy" /\ old < head
  /\ \E n \in 1..ChunkEnd - old :
       /\ IF write_to_file THEN n = ChunkEnd - old ELSE Len(out) + n <= PipeSize
       /\ out' = out \o [k \in 1..n |-> samples_array[i].data[(old + k - 1) % RingSize]]
       /\ old' = old + n
       /\ total_bytes_recorded' = total_bytes_recorded + n
  /\ UNCHANGED <<setupVars, ringVars, i, head, alive, pc, pending, rd, got>>

\* Only then is the kernel told that it may overwrite it.
UpdateTail ==
  /\ pc = "copy" /\ old = head
  /\ samples_array' = [samples_array EXCEPT ![i].prev = old, ![i].data_tail = old]
  /\ i' = i + 1 /\ pc' = "drain"
  /\ UNCHANGED <<setupVars, perfCounters, stored, head, old, alive, pending, out,
                 total_bytes_recorded, rd, got>>

\* A round ends.  Asked to quit, the recorder disables the counters and makes
\* one more round (recordPerfData).
Enabled == \E c \in DOMAIN perfCounters : perfCounters[c].enabled
NextRound ==
  /\ pc = "drain" /\ pending = <<>> /\ i > Len(samples_array) /\ Enabled
  /\ i' = 1
  /\ \/ perfCounters' = [c \in DOMAIN perfCounters |-> [perfCounters[c] EXCEPT !.enabled = FALSE]]
     \/ perfCounters' = perfCounters
  /\ UNCHANGED <<setupVars, samples_array, stored, head, old, alive, pc, pending, out,
                 total_bytes_recorded, rd, got>>

\* operf_record::~operf_record writes the header again, now with the size, and
\* closes.  setup() closes too when it gives up.
Close ==
  /\ \/ pc = "drain" /\ pending = <<>> /\ i > Len(samples_array) /\ ~Enabled /\ pc' = "closed"
     \/ pc = "invalid" /\ pc' = "failed"
  /\ out' = IF pc = "drain" /\ write_to_file
            THEN _write_header_to_file(total_bytes_recorded)
                   \o SubSeq(out, 2 + Len(AllIds) + NumEvents, Len(out))
            ELSE out
  /\ UNCHANGED <<setupVars, ringVars, copyVars, alive, pending, total_bytes_recorded, rd, got>>

-----------------------------------------------------------------------------
(* operf_read                                                              *)

recorder == <<setupVars, ringVars, copyVars, alive, pc, pending, total_bytes_recorded>>
Ended == pc \in {"closed", "failed"}

\* _read_perf_header_from_pipe: the header, the attributes, the ids.  The
\* number of ids is taken from the first attribute for every event.
ReadHeaderFromPipe ==
  /\ ~write_to_file /\ rd.pc = "header" /\ out # <<>>
  /\ rd' = IF Head(out).k = "header" THEN [rd EXCEPT !.pc = "attrs", !.nattrs = Head(out).nattrs]
           ELSE [rd EXCEPT !.pc = "failed"]
  /\ out' = Tail(out) /\ UNCHANGED <<recorder, got>>
ReadAttr ==
  /\ rd.pc = "attrs" /\ Len(rd.nids) < rd.nattrs /\ out # <<>>
  /\ rd' = [rd EXCEPT !.nids = Append(@, Head(out).nids)]
  /\ out' = Tail(out) /\ UNCHANGED <<recorder, got>>
NextEvent == {e \in 1..rd.nattrs : Len(rd.ids[e]) < rd.nids[1]}
ReadId ==
  /\ rd.pc = "attrs" /\ Len(rd.nids) = rd.nattrs /\ NextEvent # {} /\ out # <<>>
  /\ rd' = [rd EXCEPT !.ids[Min(NextEvent)] = Append(@, Head(out).id)]
  /\ out' = Tail(out) /\ UNCHANGED <<recorder, got>>
HeaderRead ==
  /\ rd.pc = "attrs" /\ Len(rd.nids) = rd.nattrs /\ NextEvent = {}
  /\ rd' = [rd EXCEPT !.pc = "pipe"]
  /\ UNCHANGED <<recorder, out, got>>

\* A read that finds the pipe empty and closed.
PipeClosed ==
  /\ ~write_to_file /\ rd.pc \in {"header", "attrs", "pipe", "body"}
  /\ out = <<>> /\ Ended
  /\ rd.pc = "attrs" => ~(Len(rd.nids) = rd.nattrs /\ NextEvent = {})
  /\ rd' = [rd EXCEPT !.pc = IF @ \in {"header", "attrs"} THEN "failed" ELSE "done"]
  /\ UNCHANGED <<recorder, out, got>>

\* _read_header_info_with_ifstream: the same from the file, by the offsets.
_read_header_info_with_ifstream ==
  /\ write_to_file /\ Ended /\ rd.pc = "header"
  /\ rd' =
       IF out = <<>> THEN [rd EXCEPT !.pc = "failed"]
       ELSE LET h == out[1]
                attr(e) == out[1 + h.attr_offset + e - 1]
            IN [rd EXCEPT !.pc = "open", !.nattrs = h.nattrs, !.head = h.data_offset,
                          !.end = h.data_size,
                          !.ids = [e \in evts |-> [k \in 1..attr(e).nids |->
                                                     out[1 + attr(e).offset + k - 1].id]]]
  /\ UNCHANGED <<recorder, out, got>>

\* op_mmap_trace_file at the start: the page with the first record.  A length of 0
\* cannot be mapped.
op_mmap_trace_file ==
  LET shift == PageSize * (rd.head \div PageSize)
  IN /\ rd.pc = "open"
     /\ rd' = IF rd.end = 0 THEN [rd EXCEPT !.pc = "failed"]
              ELSE [rd EXCEPT !.pc = "file", !.offset = shift, !.head = @ - shift,
                              !.mmap_size = Min({MmapWindow, rd.end})]
     /\ UNCHANGED <<recorder, out, got>>

\* get_eventnum_by_perf_event_id
get_eventnum_by_perf_event_id(id) ==
  LET E == {e \in evts : \E k \in DOMAIN rd.ids[e] : rd.ids[e][k] = id}
  IN IF E = {} THEN -1 ELSE Min(E)
Converted(event) == [event |-> event, evt |-> get_eventnum_by_perf_event_id(event[1].id)]

\* _get_perf_event_from_pipe: a header, then as much of the rest as there is.
\* is_header_valid is for the caller.
ReadRecordHeader ==
  /\ rd.pc = "pipe" /\ out # <<>>
  /\ rd' = [rd EXCEPT !.event = <<Head(out)>>,
                      !.pc = IF Head(out).k = "rec" /\ Head(out).i = 1 THEN "body" ELSE "bad"]
  /\ out' = Tail(out) /\ UNCHANGED <<recorder, got>>
ReadBody ==
  /\ rd.pc = "body" /\ out # <<>>
  /\ LET n == Min({Len(out), rd.event[1].size - Len(rd.event)})
         event == rd.event \o SubSeq(out, 1, n)
     IN /\ out' = SubSeq(out, n + 1, Len(out))
        /\ IF Len(event) < event[1].size
           THEN rd' = [rd EXCEPT !.event = event] /\ got' = got
           ELSE /\ rd' = [rd EXCEPT !.event = <<>>, !.pc = "pipe"]
                /\ got' = Append(got, Converted(event))
  /\ UNCHANGED recorder

\* _get_perf_event_from_file: the window is moved when the record is not wholly
\* inside.
InFile(k) == out[1 + rd.offset + rd.head + k]
NoMore == rd.offset + rd.head + 1 > rd.end
Inside == rd.head + 1 <= rd.mmap_size /\ rd.head + InFile(0).size <= rd.mmap_size
EndOfFile ==
  /\ rd.pc = "file" /\ NoMore
  /\ rd' = [rd EXCEPT !.pc = "done"]
  /\ UNCHANGED <<recorder, out, got>>
\* The window moves by whole windows.
Remap_ByWindow ==
  LET shift == rd.mmap_size * (rd.head \div rd.mmap_size)
  IN /\ rd.pc = "file" /\ ~NoMore /\ ~Inside
     /\ rd' = [rd EXCEPT !.offset = @ + shift, !.head = @ - shift]
     /\ UNCHANGED <<recorder, out, got>>

Remap ==
  LET shift == PageSize * (rd.head \div PageSize)
  IN /\ rd.pc = "file" /\ ~NoMore /\ ~Inside
     /\ rd' = [rd EXCEPT !.offset = @ + shift, !.head = @ - shift]
     /\ UNCHANGED <<recorder, out, got>>
_get_perf_event_from_file ==
  /\ rd.pc = "file" /\ ~NoMore /\ Inside
  /\ IF InFile(0).k = "rec" /\ InFile(0).i = 1
     THEN /\ got' = Append(got, Converted([k \in 1..InFile(0).size |-> InFile(k - 1)]))
          /\ rd' = [rd EXCEPT !.head = @ + InFile(0).size]
     ELSE rd' = [rd EXCEPT !.pc = "bad"] /\ got' = got
  /\ UNCHANGED <<recorder, out>>

-----------------------------------------------------------------------------
Recorder ==
  \/ \E p \in listed : _get_one_process_info(p)
  \/ op_get_process_info \/ perf_event_open \/ prepareToRecord \/ PrepareFails
  \/ write_op_header_info \/ op_write_output \/ RecordInfo
  \/ ReadHead \/ CopyOut \/ UpdateTail \/ NextRound \/ Close
Reader ==
  \/ ReadHeaderFromPipe \/ ReadAttr \/ ReadId \/ HeaderRead \/ PipeClosed
  \/ _read_header_info_with_ifstream \/ op_mmap_trace_file
  \/ ReadRecordHeader \/ ReadBody \/ EndOfFile \/ Remap \/ _get_perf_event_from_file
Kernel ==
  \/ \E t \in alive : Exit(t)
  \/ \E c \in DOMAIN perfCounters, size \in Sizes : Store(c, size)
Next == Recorder \/ Reader \/ Kernel

Spec == Init /\ [][Next]_vars /\ WF_vars(Reader)

-----------------------------------------------------------------------------
FromRing(r) == {k \in DOMAIN got : got[k].event[1].ring = r}
Intact(g) == \A k \in DOMAIN g.event : g.event[k] = [g.event[1] EXCEPT !.i = k]

\* However the records of a ring wrap, however the writes and reads are split,
\* and wherever the window on a file ends: the reader cuts out the records that
\* the kernel stored, whole, each once and in order, and all of them by the
\* time it has read everything.
RecordsDelivered ==
  /\ rd.pc # "bad"
  /\ \A k \in DOMAIN got : Intact(got[k])
  /\ \A r \in DOMAIN samples_array :
       /\ \A k \in FromRing(r) :
            got[k].event[1].n = Cardinality({j \in FromRing(r) : j <= k})
       /\ rd.pc = "done" => Cardinality(FromRing(r)) = stored[r]

\* The reader knows of each record which event it was counted for, from the ids
\* in the header alone, on every processor and in every thread.
EventKnown ==
  \A k \in DOMAIN got : LET g == got[k] IN
    g.event[1].ring # 0 => g.evt = perfCounters[g.event[1].id].evt_num

\* The reader of a pipe or of a file ends once the recorder has closed it: no
\* record makes the window stay where it is (_get_perf_event_from_file).
ReaderEnds == Ended ~> rd.pc \in {"done", "failed"}

=============================================================================
