------------------------------ MODULE JitDump -------------------------------
(***************************************************************************)
(* The threads of a JIT append records to a dump file with libopagent,     *)
(* while opjitconv copies that file and makes an ELF file of the copy.     *)
(*                                                                         *)
(* A record is two units long; what stdio has buffered may be written in   *)
(* part.  flock belongs to an open file: the threads share theirs.         *)
(* A write that fails (a full disk) is not modelled.                       *)
(***************************************************************************)
EXTENDS JitSymbols

CONSTANTS
  Threads,     \* of the JIT
  Loads,       \* code it may load: [vma, size, name]
  start_time,  \* of sampling
  MaxTime, MaxRecords, MaxRuns \* bounds on the clock, on records and on runs of opjitconv

ASSUME ThreadsAssumption == Threads # {}

VARIABLES
  threads,     \* the threads that use the agent in this behaviour
  tpc, trec,   \* where each thread is, and the record it writes
  records,     \* the records of the JIT, in the order their writing began
  sized,       \* records with their total_size in place (op_write_debug_line_info)
  buffer,      \* units <<record, part>> in the buffer of the FILE
  flockfile,   \* the thread that has the FILE, if any
  flock,       \* "none", "agent" or "conv": whose open file has the lock
  opened,      \* the JIT has the dump file open
  dump,        \* units in each dump file
  gone,        \* dump files that are not there
  now,         \* the clock, in seconds
  \* opjitconv:
  cpc, files, cur, rc, copy, pos, list, entries, end_time, candidates, runs,
  jo,          \* for each process: the ELF file in its samples directory
  anon,        \* processes with anonymous samples
  excused,     \* dumps that this run need not convert
  result       \* exit status of the last run

agentVars == <<tpc, trec, records, sized, buffer, flockfile, opened>>
convVars == <<cpc, files, cur, rc, copy, pos, list, entries, end_time, candidates, runs,
              jo, anon, excused, result>>
fixed == <<threads>>
vars == <<agentVars, convVars, fixed, flock, dump, gone, now>>

NoElf == [made |-> FALSE, time |-> 0]
Dumps == {"live", "old"}  \* of the JIT, and of a process that has ended
OldLoad(v) == [kind |-> "load", vma |-> v, size |-> 1, name |-> "old", time |-> 1]
OldRecords == <<OldLoad(1), OldLoad(2)>>

Init ==
  /\ threads \in {Threads, {CHOOSE t \in Threads : TRUE}}
  /\ tpc = [t \in Threads |-> "idle"] /\ trec = [t \in Threads |-> 0]
  /\ records = OldRecords /\ sized = {1, 2} /\ buffer = <<>> /\ flockfile = {}
  /\ flock = "none" /\ opened = FALSE
  /\ dump = [d \in Dumps |-> IF d = "old" THEN <<<<1, 1>>, <<1, 2>>, <<2, 1>>, <<2, 2>>>> ELSE <<>>]
  /\ gone = {"live"} /\ now = 1
  /\ cpc = "no" /\ files = {} /\ cur = "old" /\ rc = "OK" /\ copy = <<>> /\ pos = 1
  /\ list = <<>> /\ entries = <<>> /\ end_time = 0 /\ candidates = {} /\ runs = 0
  /\ jo = [d \in Dumps |-> NoElf] /\ anon = {}
  /\ excused = {} /\ result = "none"

\* A bound: the JIT begins nothing once the last run of opjitconv is over.
Observed == runs < MaxRuns \/ cpc # "no"

Tick ==
  /\ Observed /\ now < MaxTime /\ now' = now + 1
  /\ UNCHANGED <<agentVars, convVars, fixed, flock, dump, gone>>

-----------------------------------------------------------------------------
(* libopagent                                                              *)

\* op_open_agent makes the file and writes its header under the lock.
op_open_agent ==
  /\ Observed /\ ~opened /\ records = OldRecords /\ flock # "conv"
  /\ opened' = TRUE /\ gone' = gone \ {"live"}
  /\ UNCHANGED <<tpc, trec, records, sized, buffer, flockfile, flock, dump, now, convVars, fixed>>

\* A thread has code to report (cb_compiled_method_load and the other
\* callbacks of the JVM agents).
op_write_native_code ==
  {[kind |-> "load", vma |-> l.vma, size |-> l.size, name |-> l.name, time |-> now] : l \in Loads}
op_unload_native_code ==
  LET loaded == {i \in DOMAIN records : i > Len(OldRecords) /\ records[i].kind = "load"}
  IN {[kind |-> "unload", vma |-> records[i].vma, time |-> now] : i \in loaded}
op_write_debug_line_info == {[kind |-> "debug", time |-> now]}

Call(t) ==
  /\ Observed /\ opened /\ tpc[t] = "idle" /\ Len(records) < Len(OldRecords) + MaxRecords
  /\ \E r \in op_write_native_code \cup op_unload_native_code \cup op_write_debug_line_info :
       records' = Append(records, r)
  /\ trec' = [trec EXCEPT ![t] = Len(records')]
  /\ sized' = IF records'[Len(records')].kind = "debug" THEN sized
              ELSE sized \cup {Len(records')}
  /\ tpc' = [tpc EXCEPT ![t] = "flock"]
  /\ UNCHANGED <<buffer, flockfile, flock, opened, dump, gone, now, convVars, fixed>>

\* flock(LOCK_EX | LOCK_NB) is granted to an open file that has it already; the
\* thread gives up after OP_JITCONV_USECS_TO_WAIT.
Flock(t) ==
  /\ tpc[t] = "flock" /\ flock # "conv"
  /\ flock' = "agent" /\ tpc' = [tpc EXCEPT ![t] = "flockfile"]
  /\ UNCHANGED <<trec, records, sized, buffer, flockfile, opened, dump, gone, now, convVars, fixed>>
FlockTimeout(t) ==
  /\ tpc[t] = "flock" /\ flock = "conv"
  /\ tpc' = [tpc EXCEPT ![t] = "idle"]
  /\ UNCHANGED <<trec, records, sized, buffer, flockfile, flock, opened, dump, gone, now, convVars, fixed>>
\* The FILE is not locked.
Flockfile_No(t) ==
  /\ tpc[t] = "flockfile"
  /\ flockfile' = {t} /\ buffer' = Append(buffer, <<trec[t], 1>>)
  /\ tpc' = [tpc EXCEPT ![t] = "write"]
  /\ UNCHANGED <<trec, records, sized, flock, opened, dump, gone, now, convVars, fixed>>

\* flockfile, then fwrite_unlocked of the two halves.
Flockfile(t) ==
  /\ tpc[t] = "flockfile" /\ flockfile = {}
  /\ flockfile' = {t} /\ buffer' = Append(buffer, <<trec[t], 1>>)
  /\ tpc' = [tpc EXCEPT ![t] = "write"]
  /\ UNCHANGED <<trec, records, sized, flock, opened, dump, gone, now, convVars, fixed>>

Fwrite(t) ==
  /\ tpc[t] = "write"
  /\ buffer' = Append(buffer, <<trec[t], 2>>) /\ tpc' = [tpc EXCEPT ![t] = "flush"]
  /\ UNCHANGED <<trec, records, sized, flockfile, flock, opened, dump, gone, now, convVars, fixed>>

\* What is in the buffer goes to the file when there is no more room.
Flushed == [dump EXCEPT !["live"] = @ \o buffer]
Overflow ==
  /\ buffer # <<>>
  /\ dump' = Flushed /\ buffer' = <<>>
  /\ UNCHANGED <<gone, tpc, trec, records, sized, flockfile, flock, opened, now, convVars, fixed>>

\* The size of debug information is known only at the end: fseek goes back to
\* the beginning of the record, which writes the buffer out.
Fseek(t) ==
  /\ tpc[t] = "flush" /\ trec[t] \notin sized
  /\ IF buffer # <<>> THEN dump' = Flushed /\ buffer' = <<>> /\ sized' = sized
     ELSE sized' = sized \cup {trec[t]} /\ UNCHANGED <<dump, buffer>>
  /\ UNCHANGED <<gone, tpc, trec, records, flockfile, flock, opened, now, convVars, fixed>>

\* fflush and funlockfile, then flock(LOCK_UN), whichever thread had asked for it.
Flush(t) ==
  /\ tpc[t] = "flush" /\ trec[t] \in sized
  /\ dump' = Flushed /\ buffer' = <<>> /\ flockfile' = {}
  /\ tpc' = [tpc EXCEPT ![t] = "unlock"]
  /\ UNCHANGED <<gone, trec, records, sized, flock, opened, now, convVars, fixed>>
Unlock(t) ==
  /\ tpc[t] = "unlock"
  /\ flock' = IF flock = "agent" THEN "none" ELSE flock
  /\ tpc' = [tpc EXCEPT ![t] = "idle"]
  /\ UNCHANGED <<trec, records, sized, buffer, flockfile, opened, dump, gone, now, convVars, fixed>>

\* op_close_agent locks a descriptor that was never set: mostly this fails, and
\* nothing is written or closed until the process ends.  If it does not fail,
\* the record is written and the file closed.
op_close_agent ==
  /\ opened /\ \A t \in Threads : tpc[t] = "idle"
  /\ opened' = FALSE
  /\ \/ UNCHANGED <<records, sized, dump>>
     \/ /\ records' = Append(records, [kind |-> "close", time |-> now])
        /\ sized' = sized \cup {Len(records')}
        /\ dump' = [dump EXCEPT !["live"] = @ \o <<<<Len(records'), 1>>, <<Len(records'), 2>>>>]
  /\ flock' = IF flock = "agent" THEN "none" ELSE flock
  /\ UNCHANGED <<gone, tpc, trec, buffer, flockfile, now, convVars, fixed>>

-----------------------------------------------------------------------------
(* opjitconv                                                               *)

agent == <<agentVars, now, fixed>>
Goto(label) == cpc' = label
Present == Dumps \ gone

\* One directory for each process, of the directories <<process, range>> of
\* anonymous samples
filter_anon_samples_list(dirs) == {dir[1] : dir \in dirs}
find_anon_dir_match(d) == d \in anon

\* main and op_process_jit_dumpfiles: the dump files are listed, in any order,
\* and noted for deletion.
op_process_jit_dumpfiles ==
  /\ cpc = "no" /\ runs < MaxRuns /\ start_time <= now
  /\ runs' = runs + 1 /\ end_time' = now /\ rc' = "OK" /\ excused' = gone /\ result' = "none"
  /\ files' = Present
  /\ \E dirs \in SUBSET (Present \X {"low", "high"}) : anon' = filter_anon_samples_list(dirs)
  /\ candidates' = Present
  /\ IF anon' = {} THEN Goto("rm_tmp") ELSE Goto("next")
  /\ UNCHANGED <<agent, flock, dump, gone, cur, copy, pos, list, entries, jo>>

\* A dump file without samples stays at the head of the list.
process_jit_dumpfile_Again ==
  /\ cpc = "next"
  /\ \/ files = {} /\ Goto("rm_tmp") /\ UNCHANGED <<files, cur, rc>>
     \/ \E d \in files :
          /\ cur' = d /\ files' = files
          /\ IF find_anon_dir_match(d) THEN Goto("copy") /\ rc' = rc
             ELSE Goto("next") /\ rc' = "NO_MATCHING_ANON_SAMPLES"
  /\ UNCHANGED <<agent, flock, dump, gone, copy, pos, list, entries, end_time, candidates, runs, jo,
                 anon, excused, result>>

\* The next dump file; one without samples is of no interest (process_jit_dumpfile).
process_jit_dumpfile ==
  /\ cpc = "next"
  /\ \/ files = {} /\ Goto("rm_tmp") /\ UNCHANGED <<files, cur, rc>>
     \/ \E d \in files :
          /\ cur' = d /\ files' = files \ {d}
          /\ IF find_anon_dir_match(d) THEN Goto("copy") /\ rc' = rc
             ELSE Goto("next") /\ rc' = "NO_MATCHING_ANON_SAMPLES"
  /\ UNCHANGED <<agent, flock, dump, gone, copy, pos, list, entries, end_time, candidates, runs, jo,
                 anon, excused, result>>

\* copy_dumpfile: with the lock, or not at all, which is not an error.
LockDump ==
  /\ cpc = "copy" /\ (cur = "live" => flock = "none")
  /\ flock' = IF cur = "live" THEN "conv" ELSE flock
  /\ Goto("cp")
  /\ UNCHANGED <<agent, dump, gone, files, cur, rc, copy, pos, list, entries, end_time, candidates,
                 runs, jo, anon, excused, result>>
LockTimeout ==
  /\ cpc = "copy" /\ cur = "live" /\ flock = "agent"
  /\ excused' = excused \cup {cur}
  /\ Goto("next") /\ rc' = "OK"
  /\ UNCHANGED <<agent, flock, dump, gone, files, cur, copy, pos, list, entries, end_time,
                 candidates, runs, jo, anon, result>>

\* total_size is copied as it is then.  The ELF file is made again unless it is
\* not older than the copy: seconds are compared, and the copy is of this second.
copy_dumpfile ==
  /\ cpc = "cp"
  /\ copy' = [k \in DOMAIN dump[cur] |->
                [rec |-> dump[cur][k][1], part |-> dump[cur][k][2], sized |-> dump[cur][k][1] \in sized]]
  /\ flock' = IF flock = "conv" THEN "none" ELSE flock
  /\ IF jo[cur].made /\ jo[cur].time >= now
     THEN Goto("next") /\ rc' = "ALREADY_DONE" ELSE Goto("parse") /\ rc' = "OK"
  /\ pos' = 1 /\ list' = <<>>
  /\ UNCHANGED <<agent, dump, gone, files, cur, entries, end_time, candidates, runs, jo, anon, excused, result>>

\* The lock is had, and cp or the change of the copy's owner fails: the caller
\* goes on as without the lock, with OK.
change_owner ==
  /\ cpc = "cp"
  /\ flock' = IF flock = "conv" THEN "none" ELSE flock
  /\ excused' = excused \cup {cur}
  /\ Goto("next") /\ rc' = "OK"
  /\ UNCHANGED <<agent, dump, gone, files, cur, copy, pos, list, entries, end_time,
                 candidates, runs, jo, anon, result>>

\* The copy cannot be mapped.
mmap_jitdump ==
  /\ cpc = "parse" /\ pos = 1 /\ list = <<>> /\ rc = "OK"
  /\ Goto("rm_tmp") /\ rc' = "FAIL"
  /\ UNCHANGED <<agent, flock, dump, gone, files, cur, copy, pos, list, entries, end_time,
                 candidates, runs, jo, anon, excused, result>>

\* A record of parse_entries.  The size of what follows is not in reach of the
\* test for it when the size is still 0.
ParseRecord ==
  /\ cpc = "parse" /\ pos <= Len(copy)
  /\ LET r == records[copy[pos].rec]
         size == IF copy[pos].sized THEN 2 ELSE 0
     IN IF pos + size - 1 > Len(copy)
        THEN rc' = "FAIL" /\ pos' = Len(copy) + 1 /\ list' = list
        ELSE /\ list' = IF r.kind = "load" THEN parse_code_load(list, r, end_time, copy[pos].rec)
                        ELSE IF r.kind = "unload" THEN parse_code_unload(list, r, end_time)
                        ELSE list
             /\ rc' = IF size = 0 THEN "FAIL" ELSE rc
             /\ pos' = pos + size
  /\ UNCHANGED <<agent, flock, dump, gone, cpc, files, cur, copy, entries, end_time, candidates, runs,
                 jo, anon, excused, result>>

\* A failed dump file does not keep opjitconv from the next one.
ParseEnds_Continues ==
  /\ cpc = "parse" /\ pos > Len(copy)
  /\ IF rc = "FAIL" THEN Goto("next") /\ entries' = <<>>
     ELSE Goto("resolve") /\ entries' = invalidate_earlybirds(resort_address(list), start_time)
  /\ UNCHANGED <<agent, flock, dump, gone, files, cur, rc, copy, pos, list, end_time, candidates, runs,
                 jo, anon, excused, result>>

\* op_jit_convert after parsing.
ParseEnds ==
  /\ cpc = "parse" /\ pos > Len(copy)
  /\ IF rc = "FAIL" THEN Goto("rm_tmp") /\ entries' = <<>>
     ELSE Goto("resolve") /\ entries' = invalidate_earlybirds(resort_address(list), start_time)
  /\ UNCHANGED <<agent, flock, dump, gone, files, cur, rc, copy, pos, list, end_time, candidates, runs,
                 jo, anon, excused, result>>

\* resolve_overlaps, a scan at a time.
resolve_overlaps ==
  /\ cpc = "resolve"
  /\ IF Overlapping(entries) THEN entries' = resort_address(scan_overlaps(entries)) /\ cpc' = cpc
     ELSE entries' = entries /\ Goto("names")
  /\ UNCHANGED <<agent, flock, dump, gone, files, cur, rc, copy, pos, list, end_time, candidates, runs,
                 jo, anon, excused, result>>

\* disambiguate_symbol_names, a round at a time.
Disambiguate ==
  /\ cpc = "names" /\ Ambiguous(entries)
  /\ entries' = disambiguate_symbol_names(entries)
  /\ UNCHANGED <<agent, flock, dump, gone, cpc, files, cur, rc, copy, pos, list, end_time, candidates,
                 runs, jo, anon, excused, result>>

\* The ELF file is written and copied to the samples directory.  Without code there
\* is none to copy (op_jit_convert says so, and process_jit_dumpfile goes on all the
\* same): cp fails, and with it the run.
copy_elffile ==
  /\ cpc = "names" /\ ~Ambiguous(entries)
  /\ IF entries = <<>> THEN rc' = "FAIL" /\ Goto("rm_tmp") /\ jo' = jo
     ELSE rc' = "OK" /\ Goto("next") /\ jo' = [jo EXCEPT ![cur] = [made |-> TRUE, time |-> now]]
  /\ UNCHANGED <<agent, flock, dump, gone, files, cur, copy, pos, list, entries, end_time, candidates,
                 runs, anon, excused, result>>

\* The user of the process or the owner of a file cannot be changed, or a file
\* cannot be written.
ElfFails ==
  /\ cpc = "names" /\ ~Ambiguous(entries)
  /\ Goto("rm_tmp") /\ rc' = "FAIL"
  /\ UNCHANGED <<agent, flock, dump, gone, files, cur, copy, pos, list, entries, end_time,
                 candidates, runs, jo, anon, excused, result>>

\* The exit status.  When the temporary directory could not be removed a failure
\* of the conversion is forgotten: that status is EXIT_SUCCESS, too.
Status(removed) ==
  IF ~removed THEN "NOT_REMOVED" ELSE IF rc = "FAIL" THEN "FAILURE" ELSE "SUCCESS"

\* The end: if that was asked for, dump files are deleted unless their process
\* has them open (_cleanup_jitdumps), whatever became of their conversion.
_cleanup_jitdumps ==
  /\ cpc = "rm_tmp"
  /\ \E delete_jitdumps \in BOOLEAN :
       gone' = IF delete_jitdumps THEN gone \cup {d \in candidates : d = "old" \/ ~opened}
               ELSE gone
  /\ \E removed \in BOOLEAN : result' = Status(removed)
  /\ Goto("no")
  /\ files' = {} /\ copy' = <<>> /\ pos' = 1 /\ list' = <<>> /\ entries' = <<>> /\ cur' = "old"
  /\ candidates' = {} /\ anon' = {} /\ excused' = {} /\ rc' = "OK" /\ end_time' = 0
  /\ UNCHANGED <<agent, flock, dump, runs, jo>>

-----------------------------------------------------------------------------
Agent(t) ==
  \/ Call(t) \/ Flock(t) \/ FlockTimeout(t) \/ Flockfile(t) \/ Fwrite(t) \/ Fseek(t)
  \/ Flush(t) \/ Unlock(t)
Convert ==
  \/ process_jit_dumpfile \/ LockDump \/ LockTimeout \/ copy_dumpfile \/ change_owner
  \/ mmap_jitdump \/ ParseRecord \/ ParseEnds \/ resolve_overlaps \/ Disambiguate \/ copy_elffile
  \/ ElfFails \/ _cleanup_jitdumps
Next ==
  \/ \E t \in threads : Agent(t)
  \/ op_open_agent \/ Overflow \/ op_close_agent \/ Tick
  \/ op_process_jit_dumpfiles \/ Convert

Spec == Init /\ [][Next]_vars /\ WF_vars(Convert)

-----------------------------------------------------------------------------
(* Properties                                                              *)

InOrder(units) ==
  \A k \in DOMAIN units : units[k][2] = IF k % 2 = 1 THEN 1 ELSE 2

\* The records of two threads are never mixed in the file or in the buffer,
\* although the lock of the file does not keep the threads apart: all are whole
\* but for the last one (opagent.c, flockfile in op_write_native_code).
RecordsWhole ==
  LET units == dump["live"] \o buffer
  IN /\ InOrder(units)
     /\ \A k \in DOMAIN units : k % 2 = 0 => units[k][1] = units[k - 1][1]

\* opjitconv says that all is well only if each dump file with samples has an
\* ELF file, or could not be locked or copied; but for a run that also failed to
\* remove its temporary directory (opjitconv.c, op_process_jit_dumpfiles and main).
SuccessMeansConverted ==
  [][cpc # "no" /\ cpc' = "no" /\ result' = "SUCCESS" =>
       \A d \in anon : jo[d].made \/ d \in excused]_vars

\* As long as one thread uses the agent, opjitconv comes to an end: neither the
\* parsing nor the resolution of overlaps nor that of names goes on for ever.
ConversionEnds == [](Cardinality(threads) = 1 => (cpc # "no" ~> cpc = "no"))

=============================================================================
