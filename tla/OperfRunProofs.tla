--------------------------- MODULE OperfRunProofs ---------------------------
(***************************************************************************)
(* The safety of an operf session, for any number of records, any size of  *)
(* the pipe and any number of SIGINTs: what "Profiling done." promises of  *)
(* the records, and when the old samples may be touched.                   *)
(***************************************************************************)
EXTENDS OperfRun, TLAPS

\* Where the recorder handles records; where the parent is before the reader is
\* forked, once it was told that the recorder is ready, and after _run
Recording == {"info", "drain", "check", "poll", "after"}
Starting == {"main", "fork_app", "fork_recorder", "app_ready", "recorder_ready",
             "fork_reader"}
Started == {"fork_reader", "signals", "wait", "wait_recorder", "kill_recorder",
            "reap_recorder", "stop_reader", "reap_reader"}
Over == {"finish", "converting", "exited"}

\* Where the reader is after it has converted to the end of the data
AtEnd == {"jitfork", "jitpid", "jitset", "jitwait", "ended", "reaped"}

\* Where the processes are, the flags that decide, and the counts of records
Places ==
  /\ ppc \in Starting \cup Started \cup Over \cup {"killed"}
  /\ rpc \in {"none", "forked", "setup"} \cup Recording \cup Gone
  /\ rstatus \in {"ok", "fail", "signal"} /\ rready \in {"none", "0", "1"}
  /\ dpc \in {"none", "forked", "dirs", "header", "convert"} \cup AtEnd
  /\ dstatus \in {"ok", "fail", "signal"}

Flags ==
  /\ opt.lazy \in BOOLEAN /\ kill_record \in BOOLEAN /\ app_started \in BOOLEAN
  /\ quit \in BOOLEAN /\ disabled \in BOOLEAN /\ bad \in BOOLEAN

Counts ==
  /\ ring \in Nat /\ made \in Nat /\ out \in Nat /\ converted \in Nat

\* No record is lost between the kernel and the sample files, unless the
\* recorder failed or a record was not valid.
Conserved ==
  bad = FALSE /\ rstatus = "ok" => made = ring + out + converted

\* The recorder ends by itself only after it has drained the ring with the
\* counters disabled.
RecorderInv ==
  /\ rpc \in {"none", "forked", "setup"} => rready = "none"
  /\ rpc \in Recording => rready = "1"
  /\ rready # "1" => ring = 0 /\ made = 0 /\ out = 0 /\ converted = 0
  /\ rstatus # "ok" => rpc \in Gone
  /\ rpc = "check" /\ disabled = TRUE => ring = 0
  /\ rpc \in {"poll", "after"} => disabled = FALSE
  /\ disabled = TRUE => quit = TRUE
  /\ rpc \in Gone /\ rstatus = "ok" /\ bad = FALSE => ring = 0

\* The parent reports the recorder's failure, unless it was interrupted.
ParentInv ==
  /\ ppc \in {"main", "fork_app", "fork_recorder"} => rpc = "none"
  /\ ppc \in Starting => dpc = "none"
  /\ ppc \in Started => rready = "1" /\ (app_started = TRUE \/ opt.mode = "system")
  /\ app_started = TRUE => rready = "1"
  /\ ppc \in Over /\ rc = "ALL_OK" =>
       rpc = "reaped" /\ (app_started = TRUE \/ opt.mode = "system")
  /\ ppc \in Starting \cup {"signals", "wait", "wait_recorder"} =>
       rpc # "reaped" /\ kill_record = TRUE
  /\ ppc = "kill_recorder" =>
       IF rpc = "reaped" THEN IF kill_record = TRUE THEN rstatus = "ok" ELSE rc # "ALL_OK"
       ELSE kill_record = TRUE
  /\ ppc = "reap_recorder" => rpc # "reaped"
  /\ ppc \in {"stop_reader", "reap_reader"} /\ rc = "ALL_OK" => rpc = "reaped"
  /\ ppc \in {"stop_reader", "reap_reader"} \cup Over /\ rc = "ALL_OK" /\ intr = {} =>
       rstatus = "ok"

\* The reader ends by itself only at the end of the pipe, when no recorder can
\* write to it any more; what is converted lazily is converted to the end.
ReaderInv ==
  /\ opt.lazy = FALSE /\ dpc \in AtEnd /\ dstatus = "ok" /\ bad = FALSE =>
       out = 0 /\ rpc \in Gone
  /\ opt.lazy = FALSE /\ ppc \in Over /\ rc = "ALL_OK" =>
       dpc = "reaped" /\ (intr = {} => dstatus = "ok")
  /\ dstatus # "ok" => dpc \in Gone
  /\ opt.lazy = TRUE =>
       /\ dstatus # "signal"
       /\ ppc \notin {"converting", "exited"} => dpc = "none"
       /\ ppc \notin {"stop_reader", "reap_reader"}
       /\ dpc # "forked"
       /\ rc = "ALL_OK" /\ dpc \in AtEnd /\ dstatus = "ok" /\ bad = FALSE => out = 0
       /\ rc = "ALL_OK" /\ ppc = "exited" => dpc = "reaped"

\* The reader, which moves the old samples away, is there only when a recorder
\* was ready.
DirsInv ==
  /\ dpc # "none" => rready = "1" \/ (opt.lazy = TRUE /\ opt.mode = "system")
  /\ prev # "older" => rready = "1" \/ (opt.lazy = TRUE /\ opt.mode = "system")

\* The inductive invariant
RunInv ==
  /\ Places /\ Flags /\ Counts
  /\ Conserved /\ RecorderInv /\ ParentInv /\ ReaderInv /\ DirsInv

\* The steps of the parent keep RunInv: it leaves the loop on the recorder only
\* with the recorder reaped or still to be reaped, and drops a failure it has
\* been told of only for a recorder that it has yet to wait for.
LEMMA ParentStep == RunInv /\ Parent => RunInv'
<1> SUFFICES ASSUME RunInv, Parent PROVE RunInv'
  OBVIOUS
<1> USE RunAssumption DEF RunInv, Places, Flags, Counts, Conserved, RecorderInv,
        ParentInv, ReaderInv, DirsInv, Recording, Starting, Started, Over, AtEnd, Gone,
        options, parent, recorder, reader, jitconv, data, dirs, signals
<1>1. CASE main
  BY <1>1 DEF main
<1>2. CASE ForkApp
  BY <1>2 DEF ForkApp
<1>3. CASE ForkRecorder
  BY <1>3 DEF ForkRecorder
<1>4. CASE ReadAppReady
  BY <1>4 DEF ReadAppReady
<1>5. CASE ReadRecorderReady
  <2>1. Flags'
    BY <1>5 DEF ReadRecorderReady
  <2>2. (Places /\ Counts /\ Conserved)'
        /\ (RecorderInv /\ ParentInv /\ ReaderInv /\ DirsInv)'
    BY <1>5 DEF ReadRecorderReady
  <2> QED
    BY <2>1, <2>2
<1>6. CASE ForkReader
  BY <1>6 DEF ForkReader
<1>7. CASE set_signals_for_parent
  BY <1>7 DEF set_signals_for_parent
<1>8. CASE WaitApp
  BY <1>8 DEF WaitApp, ErrorOf, startApp
<1>9. CASE WaitRecorder
  <2>1. Flags'
    BY <1>9 DEF WaitRecorder, ErrorOf
  <2>2. (Places /\ Counts /\ Conserved /\ RecorderInv)'
    BY <1>9 DEF WaitRecorder, ErrorOf
  <2>3. ParentInv'
    BY <1>9 DEF WaitRecorder, ErrorOf
  <2>4. (ReaderInv /\ DirsInv)'
    BY <1>9 DEF WaitRecorder, ErrorOf
  <2> QED
    BY <2>1, <2>2, <2>3, <2>4
<1>10. CASE WaitSession
  <2>1. Flags'
    BY <1>10 DEF WaitSession, ErrorOf
  <2>2. (Places /\ Counts /\ Conserved /\ RecorderInv)'
    BY <1>10 DEF WaitSession, ErrorOf
  <2>3. ParentInv'
    BY <1>10 DEF WaitSession, ErrorOf
  <2>4. (ReaderInv /\ DirsInv)'
    BY <1>10 DEF WaitSession, ErrorOf
  <2> QED
    BY <2>1, <2>2, <2>3, <2>4
<1>11. CASE _kill_operf_record_pid
  <2>1. Flags'
    BY <1>11 DEF _kill_operf_record_pid, AfterRecorder, Usr1
  <2>2. (Places /\ Counts /\ Conserved)'
        /\ (RecorderInv /\ ParentInv /\ ReaderInv /\ DirsInv)'
    BY <1>11 DEF _kill_operf_record_pid, AfterRecorder, Usr1
  <2> QED
    BY <2>1, <2>2
<1>12. CASE ReapRecorder
  BY <1>12 DEF ReapRecorder, ErrorOf, AfterRecorder
<1>13. CASE ReapReader
  BY <1>13 DEF ReapReader, BothOr
<1>14. CASE AfterRun
  BY <1>14 DEF AfterRun
<1>15. CASE ConvertedLazily
  BY <1>15 DEF ConvertedLazily
<1> QED
  BY <1>1, <1>2, <1>3, <1>4, <1>5, <1>6, <1>7, <1>8, <1>9, <1>10,
     <1>11, <1>12, <1>13, <1>14, <1>15 DEF Parent

\* The steps of the recorder keep RunInv: a record that leaves the ring is in
\* the pipe or the recorder has failed, and it ends well only with an empty
\* ring and the counters disabled.
LEMMA RecorderStep == RunInv /\ Recorder => RunInv'
<1> SUFFICES ASSUME RunInv, Recorder PROVE RunInv'
  OBVIOUS
<1> USE RunAssumption DEF RunInv, Places, Flags, Counts, Conserved, RecorderInv,
        ParentInv, ReaderInv, DirsInv, Recording, Starting, Started, Over, AtEnd, Gone,
        options, parent, recorder, reader, jitconv, data, dirs, signals
<1>1. CASE RecorderStarts
  BY <1>1 DEF RecorderStarts
<1>2. CASE setup
  BY <1>2 DEF setup
<1>3. CASE record_process_info
  BY <1>3 DEF record_process_info, op_write_output, NoReader
<1>4. CASE op_get_kernel_event_data
  BY <1>4 DEF op_get_kernel_event_data, op_write_output, NoReader
<1>5. CASE RecordingFails
  <2>1. Flags'
    BY <1>5 DEF RecordingFails
  <2>2. (Places /\ Counts /\ Conserved)'
        /\ (RecorderInv /\ ParentInv /\ ReaderInv /\ DirsInv)'
    BY <1>5 DEF RecordingFails
  <2> QED
    BY <2>1, <2>2
<1>6. CASE CheckQuit
  BY <1>6 DEF CheckQuit
<1>7. CASE PollReturns
  BY <1>7 DEF PollReturns
<1>8. CASE DisableCounters
  BY <1>8 DEF DisableCounters
<1> QED
  BY <1>1, <1>2, <1>3, <1>4, <1>5, <1>6, <1>7, <1>8 DEF Recorder

\* The steps of the reader keep RunInv: it comes to the end of its data only
\* when no one can write any more.
LEMMA ReaderStep == RunInv /\ Reader => RunInv'
<1> SUFFICES ASSUME RunInv, Reader PROVE RunInv'
  OBVIOUS
<1> USE RunAssumption DEF RunInv, Places, Flags, Counts, Conserved, RecorderInv,
        ParentInv, ReaderInv, DirsInv, Recording, Starting, Started, Over, AtEnd, Gone,
        options, parent, recorder, reader, jitconv, data, dirs, signals
<1>1. CASE ReaderStarts
  BY <1>1 DEF ReaderStarts
<1>2. CASE RotateSamples
  BY <1>2 DEF RotateSamples
<1>3. CASE readPerfHeader
  BY <1>3 DEF readPerfHeader
<1>4. CASE convertPerfData
  <2>1. Flags'
    BY <1>4 DEF convertPerfData
  <2>2. (Places /\ Counts /\ Conserved)'
        /\ (RecorderInv /\ ParentInv /\ ReaderInv /\ DirsInv)'
    BY <1>4 DEF convertPerfData
  <2> QED
    BY <2>1, <2>2
<1>5. CASE ForkJitconv
  BY <1>5 DEF ForkJitconv
<1>6. CASE StoreJitconvPid
  BY <1>6 DEF StoreJitconvPid
<1>7. CASE _jitconv_complete
  BY <1>7 DEF _jitconv_complete
<1>8. CASE WaitJitconv
  BY <1>8 DEF WaitJitconv
<1> QED
  BY <1>1, <1>2, <1>3, <1>4, <1>5, <1>6, <1>7, <1>8 DEF Reader

\* Samples, the ends of the application and of opjitconv, and a SIGINT at any
\* moment keep RunInv: an interrupted wait of the parent is an error.
LEMMA OutsideStep == RunInv /\ Outside => RunInv'
<1> SUFFICES ASSUME RunInv, Outside PROVE RunInv'
  OBVIOUS
<1> USE RunAssumption DEF RunInv, Places, Flags, Counts, Conserved, RecorderInv,
        ParentInv, ReaderInv, DirsInv, Recording, Starting, Started, Over, AtEnd, Gone,
        options, parent, recorder, reader, jitconv, data, dirs, signals
<1>1. CASE Sample
  BY <1>1 DEF Sample
<1>2. CASE AppEnds
  BY <1>2 DEF AppEnds
<1>3. CASE JitconvEnds
  BY <1>3 DEF JitconvEnds
<1>4. CASE Interrupt
  BY <1>4 DEF Interrupt, op_sig_stop, AfterRecorder, BothOr, Blocked
<1> QED
  BY <1>1, <1>2, <1>3, <1>4 DEF Outside

\* The session as it is started satisfies RunInv.
LEMMA RunInit == Init => RunInv
<1> SUFFICES ASSUME Init PROVE RunInv
  OBVIOUS
<1> USE RunAssumption DEF Init, Recording, Starting, Started, Over, AtEnd, Gone
<1>1. opt.lazy \in BOOLEAN
  OBVIOUS
<1>2. Places /\ Flags /\ Counts
  BY <1>1 DEF Places, Flags, Counts
<1>3. Conserved /\ RecorderInv /\ ParentInv /\ DirsInv
  BY DEF Conserved, RecorderInv, ParentInv, DirsInv
<1>4. ReaderInv
  BY DEF ReaderInv
<1> QED
  BY <1>2, <1>3, <1>4 DEF RunInv

\* Every step keeps RunInv; what is left after the lemmas above is the parent
\* that loses patience with the reader, and the application that gets ready.
LEMMA RunStep == RunInv /\ [Next]_vars => RunInv'
<1> SUFFICES ASSUME RunInv, [Next]_vars PROVE RunInv'
  OBVIOUS
<1> USE DEF RunInv, Places, Flags, Counts, Conserved, RecorderInv, ParentInv,
        ReaderInv, DirsInv, Recording, Starting, Started, Over, AtEnd, Gone,
        options, parent, recorder, reader, jitconv, data, dirs, signals
<1>1. CASE ReaderTimeout
  BY <1>1 DEF ReaderTimeout
<1>2. CASE run_app
  BY <1>2 DEF run_app
<1>3. CASE UNCHANGED vars
  BY <1>3 DEF vars
<1> QED
  BY <1>1, <1>2, <1>3, ParentStep, RecorderStep, ReaderStep, OutsideStep DEF Next

\* RunInv holds throughout a session.
THEOREM RunInvariant == Spec => []RunInv
BY RunInit, RunStep, PTL DEF Spec

\* For any number of records, any size of the pipe and any number of SIGINTs:
\* when operf exits with ALL_OK and no record was bad, every record that was
\* made is converted, also in an interrupted session whose recorder and reader
\* ended well.
THEOREM RecordsConverted == Spec => []AllConverted
<1>1. RunInv => AllConverted
  <2> SUFFICES ASSUME RunInv, ppc = "exited", rc = "ALL_OK", bad = FALSE,
                      intr = {} \/ (dstatus = "ok" /\ rstatus = "ok"),
                      ~(opt.lazy = TRUE /\ dstatus = "fail")
               PROVE  converted = made
    BY DEF AllConverted, RunInv, Flags
  <2>1. rpc = "reaped" /\ rstatus = "ok"
    BY DEF RunInv, ParentInv, Over
  <2>2. ring = 0
    BY <2>1 DEF RunInv, RecorderInv, Gone
  <2>3. dpc = "reaped" /\ dstatus = "ok"
    BY DEF RunInv, ReaderInv, Over, Flags, Places
  <2>4. out = 0
    BY <2>3 DEF RunInv, ReaderInv, AtEnd, Flags
  <2> QED
    BY <2>1, <2>2, <2>4 DEF RunInv, Conserved, Counts
<1> QED
  BY <1>1, RunInvariant, PTL

\* For any number of SIGINTs, at any moment: the samples of earlier sessions are
\* moved only once a recorder was ready, or by a lazy system-wide session.
THEOREM OldDataUntouched == Spec => []OldDataKept
<1>1. RunInv => OldDataKept
  BY DEF RunInv, DirsInv, OldDataKept, Flags
<1> QED
  BY <1>1, RunInvariant, PTL

=============================================================================
