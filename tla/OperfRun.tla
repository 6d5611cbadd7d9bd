------------------------------ MODULE OperfRun ------------------------------
(***************************************************************************)
(* pe_profiling/operf.cpp with the recording half of                       *)
(* libperf_events/operf_counter.cpp: operf as the processes it consists    *)
(* of.  The parent forks the profiled application, the recorder (operf-    *)
(* record), which moves records from the kernel's ring to a pipe or file,  *)
(* and the reader (operf-read), which converts them; with --lazy-          *)
(* conversion the parent converts afterwards.  They end each other by      *)
(* signals.  What is made of a record is module OperfConvert.              *)
(*                                                                         *)
(* Signals are blocked from the first fork until each process asks for     *)
(* them (_run); a process unblocks before it installs its handler, so a    *)
(* SIGINT that is pending then ends it.                                    *)
(***************************************************************************)
EXTENDS Naturals

CONSTANTS
  MaxRecords,    \* bound: records the kernel hands over
  PipeSize,      \* records that fit into the pipe
  MaxInterrupts, \* bound: SIGINTs
  Lazy           \* the values of --lazy-conversion

ASSUME RunAssumption ==
  /\ MaxRecords \in Nat /\ PipeSize \in Nat \ {0} /\ MaxInterrupts \in Nat
  /\ Lazy \subseteq BOOLEAN

VARIABLES
  opt,      \* mode (what is profiled, or "usage"), lazy (post_conversion), append
  ppc,      \* where the parent is
  rc,       \* its end_code_t
  keep_trying, kill_record, app_started,
  app,      \* the profiled application
  rpc, rstatus, quit, disabled, fresh,  \* the recorder
  rready,   \* what it wrote to operf_record_ready_pipe
  dpc, dstatus,  \* the reader, or the parent that converts
  jit, jitconv_pid, jit_conversion_running, keep_waiting, \* its opjitconv child
  ring, made, out, converted, \* records: in the ring, in all, in the pipe, done
  header,   \* the header of the sample data is written
  bad,      \* a record was not valid
  cur, prev, \* what samples/current and samples/previous hold
  pend, intr, interrupts \* SIGINT pending for, ctl_c of, and how many

options == <<opt>>
parent == <<ppc, rc, keep_trying, kill_record, app_started>>
recorder == <<rpc, rstatus, quit, disabled, fresh, rready>>
jitconv == <<jit, jitconv_pid, jit_conversion_running, keep_waiting>>
reader == <<dpc, dstatus, jitconv>>
data == <<ring, made, out, converted, header, bad>>
dirs == <<cur, prev>>
signals == <<pend, intr, interrupts>>
vars == <<options, parent, app, recorder, reader, data, dirs, signals>>

-----------------------------------------------------------------------------
(* The command line                                                        *)

\* What getopt_long finds: an option that is no good (a value of --verbose, or
\* of --pid, included), --pid, --system-wide, and whether a command follows
_process_operf_and_app_args ==
  [bad : BOOLEAN, pid : BOOLEAN, system_wide : BOOLEAN, command : BOOLEAN]

\* Exactly one of a command, --pid and --system-wide
process_args(args) ==
  CASE args.bad -> "usage"
    [] ~args.bad /\ args.command -> IF args.pid \/ args.system_wide THEN "usage" ELSE "app"
    [] ~args.bad /\ ~args.command /\ args.pid -> IF args.system_wide THEN "usage" ELSE "pid"
    [] ~args.bad /\ ~args.command /\ ~args.pid -> IF args.system_wide THEN "system" ELSE "usage"

\* The directory of the session, which is made only when it is the default one;
\* that of the samples is made in it.
_process_session_dir(site) ==
  site.session_dir \in {"default", "a directory"} /\ site.mkdir = "ok"

\* A file is created in the directory and left there; that the directory does
\* not exist is no error.
_precheck_permissions_to_samplesdir(dir) == dir # "denied"

\* What operf finds, where it is started
Sites ==
  [perf_events : BOOLEAN,      \* the kernel and the CPU will do: see Host
   app_found : BOOLEAN,        \* op_validate_app_name
   events : BOOLEAN,           \* the events can be used: see Events
   vmlinux : BOOLEAN,          \* the file of --vmlinux can be used, or there is none
   session_dir : {"default", "a directory", "a file", "missing"}, mkdir : {"ok", "fails"},
   current : {"writable", "missing", "denied"}, previous : {"writable", "missing", "denied"},
   root : BOOLEAN, paranoid : BOOLEAN]

startApp == opt.mode = "app"

Init ==
  /\ \E args \in _process_operf_and_app_args, lazy \in Lazy, append \in BOOLEAN :
       opt = [mode |-> process_args(args), lazy |-> lazy, append |-> append]
  /\ ppc = "main" /\ rc = "ALL_OK"
  /\ keep_trying = TRUE /\ kill_record = TRUE /\ app_started = FALSE
  /\ app = IF startApp THEN "none" ELSE "running"
  /\ rpc = "none" /\ rstatus = "ok" /\ quit = FALSE /\ disabled = FALSE
  /\ fresh = FALSE /\ rready = "none"
  /\ dpc = "none" /\ dstatus = "ok"
  /\ jit = "none" /\ jitconv_pid = FALSE /\ jit_conversion_running = FALSE
  /\ keep_waiting = 0
  /\ ring = 0 /\ made = 0 /\ out = 0 /\ converted = 0 /\ header = FALSE
  /\ bad = FALSE
  /\ cur = "old" /\ prev = "older"
  /\ pend = {} /\ intr = {} /\ interrupts = 0

Gone == {"ended", "reaped"}

-----------------------------------------------------------------------------
(* The parent: main, _run, start_profiling                                 *)

\* Why main and process_args give up before _run.  The old samples are not
\* touched yet; a user has to be able to remove them later.
Refused(site) ==
  \/ ~site.perf_events \/ opt.mode = "usage" \/ (startApp /\ ~site.app_found)
  \/ ~_process_session_dir(site) \/ ~site.events \/ ~site.vmlinux
  \/ opt.mode = "system" /\ ~site.root /\ site.paranoid
  \/ ~site.root /\ ~_precheck_permissions_to_samplesdir(site.current)
  \/ ~site.root /\ ~opt.append /\ ~_precheck_permissions_to_samplesdir(site.previous)

main ==
  /\ ppc = "main"
  /\ \E site \in Sites :
       IF Refused(site) THEN ppc' = "exited" /\ rc' = "REFUSED"
       ELSE ppc' = "fork_app" /\ UNCHANGED rc
  /\ UNCHANGED <<options, keep_trying, kill_record, app_started, app, recorder,
                 reader, data, dirs, signals>>

ForkApp ==
  /\ ppc = "fork_app"
  /\ ppc' = "fork_recorder"
  /\ app' = IF startApp THEN "forked" ELSE app
  /\ UNCHANGED <<options, rc, keep_trying, kill_record, app_started, recorder,
                 reader, data, dirs, signals>>

\* Without a recorder start_profiling returns, and the application waits for
\* ever: it holds the end of the pipe that it reads from.
ForkRecorder ==
  /\ ppc = "fork_recorder"
  /\ \/ /\ rpc' = "forked"
        /\ ppc' = IF startApp THEN "app_ready" ELSE "recorder_ready"
        /\ UNCHANGED rc
     \/ /\ ppc' = "finish" /\ rc' = "PERF_RECORD_ERROR"
        /\ UNCHANGED rpc
  /\ UNCHANGED <<options, keep_trying, kill_record, app_started, app, rstatus, quit,
                 disabled, fresh, rready, reader, data, dirs, signals>>

\* run_app: the child says that it is ready and waits to be told to exec.
run_app ==
  /\ app = "forked"
  /\ app' = "waiting"
  /\ UNCHANGED <<options, parent, recorder, reader, data, dirs, signals>>

ReadAppReady ==
  /\ ppc = "app_ready" /\ app = "waiting"
  /\ ppc' = "recorder_ready"
  /\ UNCHANGED <<options, rc, keep_trying, kill_record, app_started, app, recorder,
                 reader, data, dirs, signals>>

\* Mutant: a recorder that ends without a word is waited for.
ReadRecorderReady_NoEof ==
  /\ ppc = "recorder_ready" /\ rready # "none"
  /\ LET ready == rready = "1" IN
     /\ ppc' = IF ready THEN "fork_reader" ELSE "finish"
     /\ rc' = IF ready THEN rc ELSE "PERF_RECORD_ERROR"
     /\ app' = IF ~startApp THEN app ELSE IF ready THEN "running" ELSE "gaveup"
     /\ app_started' = (ready /\ opt.mode # "system")
  /\ UNCHANGED <<options, keep_trying, kill_record, recorder, reader, data, dirs,
                 signals>>

\* The recorder is ready, says that it is not, or has ended without a word (the
\* parent has closed its end of this pipe).  The application is told to exec
\* or to give up.
ReadRecorderReady ==
  /\ ppc = "recorder_ready" /\ (rready # "none" \/ rpc \in Gone)
  /\ LET ready == rready = "1" IN
     /\ ppc' = IF ready THEN "fork_reader" ELSE "finish"
     /\ rc' = IF ready THEN rc ELSE "PERF_RECORD_ERROR"
     /\ app' = IF ~startApp THEN app ELSE IF ready THEN "running" ELSE "gaveup"
     /\ app_started' = (ready /\ opt.mode # "system")
  /\ UNCHANGED <<options, keep_trying, kill_record, recorder, reader, data, dirs,
                 signals>>

\* _run forks the reader and closes both ends of the pipe.
ForkReader ==
  /\ ppc = "fork_reader"
  /\ ppc' = "signals"
  /\ dpc' = IF opt.lazy THEN dpc ELSE "forked"
  /\ UNCHANGED <<options, rc, keep_trying, kill_record, app_started, app, recorder,
                 dstatus, jitconv, data, dirs, signals>>

set_signals_for_parent ==
  /\ ppc = "signals"
  /\ IF "parent" \in pend
     THEN ppc' = "killed" /\ pend' = pend \ {"parent"}
     ELSE ppc' = "wait" /\ UNCHANGED pend
  /\ UNCHANGED <<options, rc, keep_trying, kill_record, app_started, app, recorder,
                 reader, data, dirs, intr, interrupts>>

\* The end of a process, as waitpid reports it; SIGKILL is not an error here.
ErrorOf(how, code) == IF how \in {"fail", "signal"} THEN code ELSE "ALL_OK"

\* The loop on a started application: first it is looked at, and then, unless
\* it failed, the recorder.  A recorder that failed need not be stopped.
WaitApp ==
  /\ ppc = "wait" /\ startApp
  /\ IF app \in {"ok", "fail", "signal", "sigkill"}
     THEN /\ keep_trying' = FALSE /\ app' = "reaped"
          /\ rc' = ErrorOf(app, "APP_ABNORMAL_END")
          /\ ppc' = IF rc' = "ALL_OK" THEN "wait_recorder" ELSE "kill_recorder"
     ELSE /\ ppc' = "wait_recorder"
          /\ UNCHANGED <<keep_trying, app, rc>>
  /\ UNCHANGED <<options, kill_record, app_started, recorder, reader, data, dirs,
                 signals>>

WaitRecorder ==
  /\ ppc = "wait_recorder"
  /\ IF rpc = "ended"
     THEN /\ rpc' = "reaped"
          /\ rc' = ErrorOf(rstatus, "PERF_RECORD_ERROR")
          /\ kill_record' = (rc' = "ALL_OK")
          /\ keep_trying' = FALSE
          /\ ppc' = "kill_recorder"
     ELSE /\ ppc' = IF keep_trying THEN "wait" ELSE "kill_recorder"
          /\ UNCHANGED <<rpc, rc, kill_record, keep_trying>>
  /\ UNCHANGED <<options, app_started, app, rstatus, quit, disabled, fresh, rready,
                 reader, data, dirs, signals>>

\* Without a started application the recorder is waited for, until SIGINT.
WaitSession ==
  /\ ppc = "wait" /\ ~startApp /\ rpc = "ended"
  /\ rpc' = "reaped"
  /\ rc' = ErrorOf(rstatus, "PERF_RECORD_ERROR")
  /\ kill_record' = (rc' = "ALL_OK")
  /\ ppc' = "kill_recorder"
  /\ UNCHANGED <<options, keep_trying, app_started, app, rstatus, quit, disabled,
                 fresh, rready, reader, data, dirs, signals>>

AfterRecorder == IF opt.lazy THEN "finish" ELSE "stop_reader"

\* SIGUSR1 reaches the recorder: poll is interrupted, a poll that is only about
\* to be called is not.
Usr1 ==
  /\ quit' = TRUE
  /\ rpc' = IF rpc = "poll" THEN "after" ELSE rpc

\* _kill_operf_record_pid, up to its waitpid: the code of the wait is dropped.
_kill_operf_record_pid ==
  /\ ppc = "kill_recorder"
  /\ IF ~kill_record
     THEN ppc' = AfterRecorder /\ UNCHANGED <<rc, rpc, quit>>
     ELSE /\ rc' = "ALL_OK"
          /\ IF rpc = "reaped"
             THEN ppc' = AfterRecorder /\ UNCHANGED <<rpc, quit>>
             ELSE ppc' = "reap_recorder" /\ Usr1
  /\ UNCHANGED <<options, keep_trying, kill_record, app_started, app, rstatus,
                 disabled, fresh, rready, reader, data, dirs, signals>>

ReapRecorder ==
  /\ ppc = "reap_recorder" /\ rpc = "ended"
  /\ rpc' = "reaped"
  /\ rc' = IF "parent" \in intr THEN rc ELSE ErrorOf(rstatus, "PERF_RECORD_ERROR")
  /\ ppc' = AfterRecorder
  /\ UNCHANGED <<options, keep_trying, kill_record, app_started, app, rstatus, quit,
                 disabled, fresh, rready, reader, data, dirs, signals>>

\* _kill_operf_read_pid: the reader is asked for every 100 ms...
BothOr(code) == IF rc # "ALL_OK" THEN "PERF_BOTH_ERROR" ELSE code

ReapReader ==
  /\ ppc \in {"stop_reader", "reap_reader"} /\ dpc = "ended"
  /\ dpc' = "reaped"
  /\ rc' = IF dstatus = "ok" \/ "parent" \in intr THEN rc
           ELSE IF dstatus = "fail" THEN BothOr("PERF_READ_ERROR")
           ELSE "PERF_RECORD_ERROR"
  /\ ppc' = "finish"
  /\ UNCHANGED <<options, keep_trying, kill_record, app_started, app, recorder,
                 dstatus, jitconv, data, dirs, signals>>

\* ... and killed after five seconds.
ReaderTimeout ==
  /\ ppc = "stop_reader" /\ dpc # "reaped"
  /\ ppc' = "reap_reader"
  /\ IF dpc = "ended" THEN UNCHANGED <<dpc, dstatus>>
     ELSE dpc' = "ended" /\ dstatus' = "signal"
  /\ UNCHANGED <<options, rc, keep_trying, kill_record, app_started, app, recorder,
                 jitconv, data, dirs, signals>>

\* Mutant: a lazy session is converted whether or not anything was started.
AfterRun_Always ==
  /\ ppc = "finish"
  /\ app' = IF /\ startApp /\ app_started /\ app = "running"
               /\ rc \notin {"ALL_OK", "APP_ABNORMAL_END"}
            THEN "sigkill" ELSE app
  /\ IF opt.lazy
     THEN ppc' = "converting" /\ dpc' = "dirs"
     ELSE ppc' = "exited" /\ UNCHANGED dpc
  /\ UNCHANGED <<options, rc, keep_trying, kill_record, app_started, recorder,
                 dstatus, jitconv, data, dirs, signals>>

\* main, after _run: a failed session kills the application; a lazy one is
\* converted, also when it failed.
AfterRun ==
  /\ ppc = "finish"
  /\ app' = IF /\ startApp /\ app_started /\ app = "running"
               /\ rc \notin {"ALL_OK", "APP_ABNORMAL_END"}
            THEN "sigkill" ELSE app
  /\ IF opt.lazy /\ (app_started \/ opt.mode = "system")
     THEN ppc' = "converting" /\ dpc' = "dirs"
     ELSE ppc' = "exited" /\ UNCHANGED dpc
  /\ UNCHANGED <<options, rc, keep_trying, kill_record, app_started, recorder,
                 dstatus, jitconv, data, dirs, signals>>

ConvertedLazily ==
  /\ ppc = "converting" /\ dpc = "ended"
  /\ ppc' = "exited" /\ dpc' = "reaped"
  /\ UNCHANGED <<options, rc, keep_trying, kill_record, app_started, app, recorder,
                 dstatus, jitconv, data, dirs, signals>>

-----------------------------------------------------------------------------
(* The recorder                                                            *)

\* _set_basic_SIGINT_handler_for_child
RecorderStarts ==
  /\ rpc = "forked"
  /\ IF "recorder" \in pend
     THEN rpc' = "ended" /\ rstatus' = "signal"
     ELSE rpc' = "setup" /\ UNCHANGED rstatus
  /\ pend' = pend \ {"recorder"}
  /\ UNCHANGED <<options, parent, app, quit, disabled, fresh, rready, reader, data,
                 dirs, intr, interrupts>>

\* operf_record's constructor and setup: the counters are opened and mapped and
\* the header is written; or it is not valid (a known error, reported as such
\* and not by the exit code), or it throws.
setup ==
  /\ rpc = "setup"
  /\ \/ /\ rpc' = "info" /\ rready' = "1" /\ header' = TRUE
        /\ UNCHANGED rstatus
     \/ /\ rpc' = "ended" /\ rready' = "0"
        /\ rstatus' = "ok" \/ (rstatus' = "fail" /\ "recorder" \notin intr)
        /\ UNCHANGED header
  /\ UNCHANGED <<options, parent, app, quit, disabled, fresh, reader, ring, made,
                 out, converted, bad, dirs, signals>>

NoReader == ~opt.lazy /\ dpc \in Gone
PipeFull == ~opt.lazy /\ out = PipeSize

\* op_write_output: into the pipe or file; without a reader SIGPIPE ends the
\* recorder.  A full pipe blocks.
op_write_output(n, next) ==
  \/ /\ NoReader
     /\ rpc' = "ended" /\ rstatus' = "signal" /\ UNCHANGED out
  \/ /\ ~NoReader /\ (opt.lazy \/ out + n <= PipeSize)
     /\ out' = out + n /\ rpc' = next /\ UNCHANGED rstatus

\* recordPerfData first writes what it knows of the processes and the kernel.
record_process_info ==
  /\ rpc = "info"
  /\ op_write_output(1, "drain")
  /\ made' = made + 1
  /\ UNCHANGED <<options, parent, app, quit, disabled, fresh, rready, reader, ring,
                 converted, header, bad, dirs, signals>>

\* op_get_kernel_event_data, a record at a time; then the loop's first check.
op_get_kernel_event_data ==
  /\ rpc = "drain"
  /\ IF ring > 0
     THEN /\ op_write_output(1, "drain")
          /\ ring' = ring - 1 /\ fresh' = TRUE
     ELSE /\ rpc' = "check"
          /\ UNCHANGED <<rstatus, out, ring, fresh>>
  /\ UNCHANGED <<options, parent, app, quit, disabled, rready, reader, made,
                 converted, header, bad, dirs, signals>>

\* A write to the file fails; after ctrl-C that is not an error.
RecordingFails ==
  /\ rpc = "drain" /\ ring > 0 /\ opt.lazy
  /\ rpc' = "ended"
  /\ rstatus' = IF "recorder" \in intr THEN "ok" ELSE "fail"
  /\ bad' = TRUE
  /\ UNCHANGED <<options, parent, app, quit, disabled, fresh, rready, reader, ring,
                 made, out, converted, header, dirs, signals>>

\* Mutant: the last records are left in the ring.
CheckQuit_Early ==
  /\ rpc = "check"
  /\ rpc' = IF quit THEN "ended" ELSE IF fresh THEN "after" ELSE "poll"
  /\ fresh' = FALSE
  /\ UNCHANGED <<options, parent, app, rstatus, quit, disabled, rready, reader, data,
                 dirs, signals>>

CheckQuit ==
  /\ rpc = "check"
  /\ rpc' = IF quit /\ disabled THEN "ended" ELSE IF fresh THEN "after" ELSE "poll"
  /\ fresh' = FALSE
  /\ UNCHANGED <<options, parent, app, rstatus, quit, disabled, rready, reader, data,
                 dirs, signals>>

\* poll returns when there are records, or when the profiled process has ended.
PollReturns ==
  /\ rpc = "poll" /\ (ring > 0 \/ app \in {"ok", "fail", "signal", "sigkill", "reaped"})
  /\ rpc' = "after"
  /\ UNCHANGED <<options, parent, app, rstatus, quit, disabled, fresh, rready, reader,
                 data, dirs, signals>>

DisableCounters ==
  /\ rpc = "after"
  /\ disabled' = (disabled \/ quit)
  /\ rpc' = "drain"
  /\ UNCHANGED <<options, parent, app, rstatus, quit, fresh, rready, reader, data,
                 dirs, signals>>

-----------------------------------------------------------------------------
(* The reader: convert_sample_data                                         *)

ReaderStarts ==
  /\ dpc = "forked"
  /\ IF "reader" \in pend
     THEN dpc' = "ended" /\ dstatus' = "signal"
     ELSE dpc' = "dirs" /\ UNCHANGED dstatus
  /\ pend' = pend \ {"reader"}
  /\ UNCHANGED <<options, parent, app, recorder, jitconv, data, dirs, intr,
                 interrupts>>

\* The previous samples are removed, the current ones become the previous, and
\* there is a new directory; the first of these may fail.
RotateSamples ==
  /\ dpc = "dirs"
  /\ IF opt.append
     THEN dpc' = "header" /\ UNCHANGED <<dstatus, cur, prev>>
     ELSE \/ dpc' = "header" /\ prev' = cur /\ cur' = "new" /\ UNCHANGED dstatus
          \/ dpc' = "ended" /\ dstatus' = "fail" /\ UNCHANGED <<cur, prev>>
  /\ UNCHANGED <<options, parent, app, recorder, jitconv, data, signals>>

readPerfHeader ==
  /\ dpc = "header"
  /\ IF header THEN dpc' = "convert" /\ UNCHANGED dstatus
     ELSE dpc' = "ended" /\ dstatus' = "fail"
  /\ UNCHANGED <<options, parent, app, recorder, jitconv, data, dirs, signals>>

\* convertPerfData: a record is converted; one that is not valid ends the
\* conversion, though not with an error; so does the end of the data.
convertPerfData ==
  /\ dpc = "convert"
  /\ \/ /\ out > 0
        /\ out' = out - 1
        /\ \/ converted' = converted + 1 /\ UNCHANGED <<dpc, bad>>
           \/ dpc' = "jitfork" /\ bad' = TRUE /\ UNCHANGED converted
     \/ /\ out = 0 /\ (opt.lazy \/ rpc \in Gone)
        /\ dpc' = "jitfork"
        /\ UNCHANGED <<out, converted, bad>>
  /\ UNCHANGED <<options, parent, app, recorder, dstatus, jitconv, ring, made, header,
                 dirs, signals>>

\* _do_jitdump_convert: fork, the assignment of its result, the flag.
ForkJitconv ==
  /\ dpc = "jitfork"
  /\ \/ dpc' = "jitpid" /\ jit' = "running"
     \/ dpc' = "jitwait" /\ UNCHANGED jit
  /\ UNCHANGED <<options, parent, app, recorder, dstatus, jitconv_pid,
                 jit_conversion_running, keep_waiting, data, dirs, signals>>

StoreJitconvPid ==
  /\ dpc \in {"jitpid", "jitset"}
  /\ IF dpc = "jitpid"
     THEN dpc' = "jitset" /\ jitconv_pid' = TRUE /\ UNCHANGED jit_conversion_running
     ELSE dpc' = "jitwait" /\ jit_conversion_running' = TRUE /\ UNCHANGED jitconv_pid
  /\ UNCHANGED <<options, parent, app, recorder, dstatus, jit, keep_waiting, data,
                 dirs, signals>>

\* _jitconv_complete, the handler of SIGCHLD: it may come before the fork's
\* result is stored, or before the flag is set that it should clear.
_jitconv_complete ==
  /\ jit = "ended" /\ dpc \in {"jitpid", "jitset", "jitwait"}
  /\ jit' = "reaped"
  /\ jit_conversion_running' = (jit_conversion_running /\ ~jitconv_pid)
  /\ UNCHANGED <<options, parent, app, recorder, dpc, dstatus, jitconv_pid,
                 keep_waiting, data, dirs, signals>>

\* Mutant: opjitconv is waited for as long as it runs.
WaitJitconv_Forever ==
  /\ dpc = "jitwait"
  /\ ~jit_conversion_running
  /\ dpc' = "ended"
  /\ UNCHANGED <<options, parent, app, recorder, dstatus, jitconv, data, dirs, signals>>

\* Two seconds, then it is killed.
WaitJitconv ==
  /\ dpc = "jitwait"
  /\ IF jit_conversion_running /\ keep_waiting < 2
     THEN keep_waiting' = keep_waiting + 1 /\ UNCHANGED <<dpc, jit>>
     ELSE /\ dpc' = "ended"
          /\ jit' = IF jit_conversion_running /\ jit = "running" THEN "ended" ELSE jit
          /\ UNCHANGED keep_waiting
  /\ UNCHANGED <<options, parent, app, recorder, dstatus, jitconv_pid,
                 jit_conversion_running, data, dirs, signals>>

-----------------------------------------------------------------------------
(* Outside                                                                 *)

\* The kernel samples what runs while the counters are enabled.
Sample ==
  /\ app = "running" /\ made < MaxRecords /\ ~disabled
  /\ rpc \in {"info", "drain", "check", "poll", "after"}
  /\ ring' = ring + 1 /\ made' = made + 1
  /\ UNCHANGED <<options, parent, app, recorder, reader, out, converted, header, bad,
                 dirs, signals>>

AppEnds ==
  /\ app = "running" /\ rpc # "none"
  /\ app' \in {"ok", "fail", "signal"}
  /\ UNCHANGED <<options, parent, recorder, reader, data, dirs, signals>>

JitconvEnds ==
  /\ jit = "running"
  /\ jit' = "ended"
  /\ UNCHANGED <<options, parent, app, recorder, dpc, dstatus, jitconv_pid,
                 jit_conversion_running, keep_waiting, data, dirs, signals>>

Blocked == {"fork_app", "fork_recorder", "app_ready", "recorder_ready", "fork_reader",
            "signals"}

\* op_sig_stop, and the errors of an interrupted waitpid.
op_sig_stop ==
  /\ app' = IF startApp /\ app = "running" THEN "sigkill" ELSE app
  /\ CASE ppc = "wait" /\ ~startApp -> ppc' = "kill_recorder" /\ UNCHANGED rc
       [] ppc = "reap_recorder" -> ppc' = AfterRecorder /\ rc' = "PERF_RECORD_ERROR"
       [] ppc = "reap_reader" -> ppc' = "finish" /\ rc' = BothOr("PERF_READ_ERROR")
       [] OTHER -> UNCHANGED <<ppc, rc>>

\* SIGINT is sent to the parent, or by the terminal to all (_handle_sigint).
Interrupt ==
  /\ interrupts < MaxInterrupts /\ ppc \notin {"main", "exited", "killed"}
  /\ interrupts' = interrupts + 1
  /\ \E all \in BOOLEAN :
       LET hit == {"parent"}
                  \cup (IF all /\ rpc # "none" /\ rpc \notin Gone THEN {"recorder"} ELSE {})
                  \cup (IF all /\ dpc # "none" /\ dpc \notin Gone /\ ~opt.lazy
                        THEN {"reader"} ELSE {})
           held == {p \in hit : \/ p = "parent" /\ ppc \in Blocked
                                \/ p = "recorder" /\ rpc = "forked"
                                \/ p = "reader" /\ dpc = "forked"}
       IN /\ pend' = pend \cup held
          /\ intr' = intr \cup (hit \ held)
          /\ rpc' = IF "recorder" \in hit \ held /\ rpc = "poll" THEN "after" ELSE rpc
          /\ IF "parent" \in held THEN UNCHANGED <<app, ppc, rc>> ELSE op_sig_stop
  /\ UNCHANGED <<options, keep_trying, kill_record, app_started, rstatus, quit,
                 disabled, fresh, rready, reader, data, dirs>>

-----------------------------------------------------------------------------
Parent ==
  \/ main \/ ForkApp \/ ForkRecorder \/ ReadAppReady \/ ReadRecorderReady
  \/ ForkReader \/ set_signals_for_parent \/ WaitApp \/ WaitRecorder \/ WaitSession
  \/ _kill_operf_record_pid \/ ReapRecorder \/ ReapReader \/ AfterRun
  \/ ConvertedLazily

Recorder ==
  \/ RecorderStarts \/ setup \/ record_process_info \/ op_get_kernel_event_data
  \/ RecordingFails \/ CheckQuit \/ PollReturns \/ DisableCounters

Reader ==
  \/ ReaderStarts \/ RotateSamples \/ readPerfHeader \/ convertPerfData
  \/ ForkJitconv \/ StoreJitconvPid \/ _jitconv_complete \/ WaitJitconv

Outside == Sample \/ AppEnds \/ JitconvEnds \/ Interrupt

Next == Parent \/ ReaderTimeout \/ Recorder \/ Reader \/ run_app \/ Outside

\* Every process is scheduled, and five seconds pass.  That the application or
\* opjitconv ends is not assumed.
Fairness ==
  /\ WF_vars(Parent) /\ WF_vars(Recorder) /\ WF_vars(Reader)
  /\ WF_vars(run_app) /\ WF_vars(ReaderTimeout)

Spec == Init /\ [][Next]_vars /\ Fairness

-----------------------------------------------------------------------------
(* Properties                                                              *)

\* "Profiling done." means that every record that was made is converted: the
\* ring is drained after the counters were disabled, the pipe is read to its
\* end.  Excepted are bad data, and an interrupted session whose reader was
\* killed or whose recorder failed, which operf leaves unreported on purpose.
AllConverted ==
  /\ ppc = "exited" /\ rc = "ALL_OK" /\ ~bad
  /\ intr = {} \/ (dstatus = "ok" /\ rstatus = "ok")
  => converted = made \/ (opt.lazy /\ dstatus = "fail")

\* "We should exit without unnecessarily removing the old sample data", says
\* _precheck_permissions_to_samplesdir: they are touched only once a recorder
\* was ready.  A lazy system-wide session does not keep to it: main converts
\* it although it never started.
OldDataKept ==
  prev # "older" => rready = "1" \/ (opt.lazy /\ opt.mode = "system")

\* When the profiled application has ended operf ends, whoever failed, was
\* interrupted or is killed, and whenever SIGUSR1 comes; but for a parent that
\* was killed by a SIGINT while it started.
OperfEnds ==
  startApp /\ app \in {"ok", "fail", "signal", "sigkill"} ~> ppc \in {"exited", "killed"}

\* An application that was forked is told to exec or to give up, once there is
\* a recorder; if that cannot be forked it waits for ever.
AppReleased == app = "waiting" /\ rpc # "none" ~> app # "waiting"

=============================================================================
