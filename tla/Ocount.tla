------------------------------- MODULE Ocount -------------------------------
(***************************************************************************)
(* ocount (pe_counting/ocount.cpp, ocount_counter.cpp): the process that   *)
(* opens the counters and reports them, the application it starts, the     *)
(* tasks and CPUs it counts, the kernel's counters and SIGINT.             *)
(*                                                                         *)
(* A counter counts the events of one element (the application, a task or  *)
(* a CPU).  Time is in ticks of 100 ms; multiplexing, and so the scaling   *)
(* of counts, is left out.  fork, the pipes between ocount and its child,  *)
(* and each read of a counter may fail.  (A read that meets an end of file *)
(* is left out: the kernel has one for pinned events, and ocount pins      *)
(* none; gettimeofday does not fail.)                                      *)
(***************************************************************************)
EXTENDS Host

CONSTANTS Cpus, Tasks,      \* CPUs of the machine, tasks that may be listed
          Hosts,            \* machines: see Host
          Starts,           \* machines and command lines to start from
          ThreadsOf,        \* the threads of a process
          Foreign,          \* tasks that belong to another user
          NrEvents,         \* events of the command line
          PerTick,          \* OCOUNT_DSP_INTVL_MSECS
          PerSec,           \* OCOUNT_DSP_INTVLS_PER_SEC
          U32,              \* the range of unsigned int
          MaxCount,         \* bound: events of one element and counter
          MaxOutputs        \* bound: intervals that are displayed

\* The directories of the CPUs have different names; the words of a command
\* line that are no numbers make it a bad one.
ASSUME OcountAssumption ==
  /\ NrEvents \in Nat \ {0} /\ PerTick \in Nat \ {0} /\ PerSec \in Nat \ {0} /\ U32 \in Nat \ {0}
  /\ MaxCount \in Nat
  /\ IsFiniteSet(Cpus) /\ IsFiniteSet(Tasks)
  /\ \A mach \in DOMAIN Hosts : LET h == Hosts[mach] IN
       /\ {"online", "online_files", "dirs"} \subseteq DOMAIN h
       /\ h.online \subseteq Cpus /\ h.dirs \in Seq(Nat)
       /\ \A i, j \in DOMAIN h.dirs : h.dirs[i] = h.dirs[j] => i = j
  /\ \A s \in Starts :
       s.machine \in DOMAIN Hosts /\ s.args.bad \in BOOLEAN /\ s.args.time \in Seq(Int)

App == 99      \* app_PID

VARIABLES machine,          \* one of Hosts
          online,           \* its CPUs that are online
          opts, runmode,
          pc,               \* where ocount is
          app,              \* the application's process
          started,          \* app_started: start_app_pipe holds the word to start
          failure,          \* what failed: "no", the "child" at its pipe, ocount at its "pipe",
                            \* or a "read" of a counter (kept for the properties)
          alive,            \* the tasks that exist
          todo,             \* the elements whose counters are still to be opened
          counters,         \* perfCounters: [el, ev, enabled, count]
          sigint,           \* SIGINT: "no", "pending", "delivered"
          stop,             \* set by op_sig_stop
          countdown, dsp,   \* ticks left of an interval, dsp_intvl_in_100ms_units
          slept,            \* ticks of the sleeps since the last display
          intervals,        \* number_intervals
          accum, prev,      \* accum_counts (counts only), prev_accum_counts
          printed,          \* all that was displayed, summed up for each line
          outputs

vars == <<machine, online, opts, runmode, pc, app, started, failure, alive, todo, counters, sigint, stop,
          countdown, dsp, slept, intervals, accum, prev, printed, outputs>>

hostv == <<machine, online>>
appv == <<app, started, failure>>
timev == <<countdown, dsp, slept, intervals>>
outv == <<accum, prev, printed, outputs>>

Elements == {App} \cup Tasks \cup Cpus
Lines == 1..(NrEvents * Cardinality(Elements))
Zero == [i \in Lines |-> 0]

\* A line for each counter, or for each event
use_separation == opts.separate_cpu \/ opts.separate_thread
with_time_interval == opts.interval # 0

TypeOK ==
  /\ machine \in DOMAIN Hosts /\ online \subseteq Cpus
  /\ runmode \in {"none", "usage", "start_app", "syswide", "cpulist", "proclist", "threadlist"}
  /\ pc \in {"main", "args", "fork", "ready", "setup", "open", "unblock", "handler", "interval", "sleep",
             "read", "print", "check", "wait", "final", "failed", "ended", "killed", "usage"}
  /\ app \in {"none", "forked", "waiting", "running", "zombie", "reaped"}
  /\ started \in BOOLEAN /\ stop \in BOOLEAN
  /\ failure \in {"no", "child", "pipe", "read"}
  /\ alive \subseteq Tasks
  /\ \A i \in DOMAIN counters : counters[i].el \in Elements /\ counters[i].count \in 0..MaxCount
  /\ sigint \in {"no", "pending", "delivered"}
  /\ countdown \in Nat /\ dsp \in Nat /\ slept \in Nat /\ intervals \in Int
  /\ printed \in [Lines -> Int] /\ outputs \in 0..(MaxOutputs + 1)

-----------------------------------------------------------------------------
(* The command line                                                        *)

\* Each item of the list is a range; a single CPU is a range of one.
_parse_cpu_list(list) ==
  FlattenSeq([i \in DOMAIN list |->
    [k \in 1..(1 + list[i][2] - list[i][1]) |-> list[i][1] + k - 1]])

\* Nothing, <<interval>> or <<interval, number>>
_parse_time_interval(time) ==
  [interval |-> IF time = <<>> THEN 0 ELSE time[1],
   num_intervals |-> IF Len(time) < 2 THEN 0 ELSE time[2],
   bad |-> \E i \in DOMAIN time : time[i] < 0]

\* A word that is no number where one is needed is a bad one.
_process_ocount_and_app_args(args) ==
  LET time == _parse_time_interval(args.time)
  IN [bad |-> args.bad \/ time.bad, app |-> args.app, system_wide |-> args.system_wide,
      cpus |-> _parse_cpu_list(args.cpu_list), processes |-> args.processes,
      threads |-> args.threads, separate_cpu |-> args.separate_cpu,
      separate_thread |-> args.separate_thread, interval |-> time.interval,
      num_intervals |-> time.num_intervals]

Init ==
  /\ \E start \in Starts :
       /\ machine = start.machine /\ online = Hosts[machine].online
       /\ opts = _process_ocount_and_app_args(start.args)
  /\ runmode = "none" /\ pc = "main"
  /\ app = "none" /\ started = FALSE /\ failure = "no"
  /\ alive = Tasks
  /\ todo = <<>> /\ counters = <<>>
  /\ sigint = "no" /\ stop = FALSE
  /\ countdown = 0 /\ dsp = 0 /\ slept = 0 /\ intervals = 0
  /\ accum = Zero /\ prev = Zero /\ printed = Zero /\ outputs = 0

host == [Hosts[machine] EXCEPT !.online = online]

\* "We don't really have a good way to check ... except to try"
use_cpu_minus_one ==
  /\ op_check_perf_events_cap(host, FALSE) = "EACCES"
  /\ host.uid # 0 /\ host.paranoid > 0

\* main, up to the arguments: perf_events and a CPU that has counters
main ==
  /\ pc = "main"
  /\ pc' = IF \/ op_check_perf_events_cap(host, use_cpu_minus_one) # "ok"
              \/ op_get_cpu_type(host) \in {CPU_NO_GOOD, op_get_cpu_number("timer")}
           THEN "usage" ELSE "args"
  /\ UNCHANGED <<hostv, opts, runmode, appv, alive, todo, counters, sigint, stop, timev, outv>>

\* The run modes that the options ask for, in the order of _get_runmode
_get_runmodes(o) ==
  SelectSeq(<<"syswide", "cpulist", "proclist", "threadlist">>,
            LAMBDA m : \/ m = "syswide" /\ o.system_wide
                       \/ m = "cpulist" /\ o.cpus # <<>>
                       \/ m = "proclist" /\ o.processes # <<>>
                       \/ m = "threadlist" /\ o.threads # <<>>)

\* The run mode, or "usage"
_validate_args(o) ==
  LET modes == _get_runmodes(o)
      command == o.app # "none"
      mode == IF command THEN "start_app" ELSE modes[1]
      num_cpus == IF use_cpu_minus_one THEN 1 ELSE Cardinality(online)
  IN IF \/ o.bad \/ (command /\ ~op_validate_app_name(host, o.app))
        \/ command /\ modes # <<>>
        \/ ~command /\ Len(modes) # 1
        \/ o.separate_cpu /\ ~(o.system_wide \/ o.cpus # <<>>)
        \/ o.separate_thread /\ ~(o.threads # <<>> \/ o.processes # <<>>)
        \/ mode = "cpulist" /\ ~(Range(o.cpus) \subseteq op_get_available_cpus(host, num_cpus))
     THEN "usage" ELSE mode

\* CPUs are counted for root, or where the kernel is not paranoid.
Permitted(mode) == mode \in {"syswide", "cpulist"} => host.uid = 0 \/ host.paranoid <= 0

process_args ==
  /\ pc = "args"
  /\ runmode' = _validate_args(opts)
  /\ pc' = IF runmode' = "usage" \/ ~Permitted(runmode') THEN "usage"
           ELSE IF runmode' = "start_app" THEN "fork" ELSE "setup"
  /\ UNCHANGED <<hostv, opts, appv, alive, todo, counters, sigint, stop, timev, outv>>

-----------------------------------------------------------------------------
(* Starting to count: SIGINT is blocked                                    *)

Fork ==
  /\ pc = "fork"
  /\ pc' = "ready" /\ app' = "forked"
  /\ UNCHANGED <<hostv, opts, runmode, started, failure, alive, todo, counters, sigint, stop, timev, outv>>

\* run_app: the child says it is ready ...
AppReady ==
  /\ app = "forked" /\ app' = "waiting"
  /\ UNCHANGED <<hostv, opts, runmode, pc, started, failure, alive, todo, counters, sigint, stop, timev, outv>>

\* ... and starts the application when it is told to, or fails to start it.
AppExec ==
  /\ app = "waiting" /\ started
  /\ \/ /\ app' = "running"
        /\ counters' = [i \in DOMAIN counters |-> [counters[i] EXCEPT !.enabled = TRUE]]
     \/ app' = "zombie" /\ UNCHANGED counters
  /\ UNCHANGED <<hostv, opts, runmode, pc, started, failure, alive, todo, sigint, stop, timev, outv>>

\* The child's write to app_ready_pipe or its read from start_app_pipe fails.
\* ocount, which has the other end of app_ready_pipe open itself, waits on if
\* it never got the word.
AppFails ==
  /\ app \in {"forked", "waiting"} /\ app' = "zombie"
  /\ failure' = IF app = "forked" /\ pc = "ready" THEN "child" ELSE failure
  /\ UNCHANGED <<hostv, opts, runmode, pc, started, alive, todo, counters, sigint, stop, timev, outv>>

\* The application is told to start before its counters are opened.
StartApp ==
  /\ pc = "ready" /\ app # "forked" /\ failure # "child"
  /\ started' = TRUE /\ pc' = "setup"
  /\ UNCHANGED <<hostv, opts, runmode, app, failure, alive, todo, counters, sigint, stop, timev, outv>>

\* pipe or fork fails, or ocount's read from app_ready_pipe or its write to
\* start_app_pipe: app_started is not set.
PipeFails ==
  /\ pc \in {"fork", "ready"} /\ pc' = "failed"
  /\ failure' = "pipe"
  /\ UNCHANGED <<hostv, opts, runmode, app, started, alive, todo, counters, sigint, stop, timev, outv>>

\* The tasks up to the first one that is gone, and all the threads of those
\* that are processes; none if one of them is another user's.
get_process_info(tasks, are_processes) ==
  LET gone == SelectInSeq(tasks, LAMBDA t : t \notin alive)
      found == Range(IF gone = 0 THEN tasks ELSE SubSeq(tasks, 1, gone - 1))
  IN IF host.uid # 0 /\ found \cap Foreign # {} THEN {}
     ELSE IF are_processes THEN found \cup (alive \cap UNION {ThreadsOf[t] : t \in found})
     ELSE found

\* The order of a std::set
Ascending(S) == [k \in 1..Cardinality(S) |-> Nth(S, k)]

\* do_counting_per_cpu: a CPU that is listed and not available is an error.
CpusToCount(available) ==
  IF runmode = "syswide" THEN available
  ELSE IF Range(opts.cpus) \subseteq available THEN Range(opts.cpus) ELSE {}

\* What is counted: for CPUs and tasks, every one that was listed
ToCount ==
  CASE runmode = "start_app" -> {App}
    [] runmode \in {"syswide", "cpulist"} -> CpusToCount(op_get_available_cpus(host, Cardinality(online)))
    [] runmode = "proclist" -> get_process_info(opts.processes, TRUE)
    [] runmode = "threadlist" -> get_process_info(opts.threads, FALSE)

\* start_counting_*: nothing to count is an error, and so is a process whose
\* directory in /proc cannot be opened.
setup ==
  /\ pc = "setup"
  /\ \E S \in {ToCount} : LET els == Ascending(S) IN
       todo' = [k \in 1..(Len(els) * NrEvents) |->
                  [el |-> els[1 + ((k - 1) \div NrEvents)], ev |-> 1 + ((k - 1) % NrEvents)]]
  /\ \/ pc' = IF todo' = <<>> THEN "failed" ELSE "open"
     \/ runmode = "proclist" /\ pc' = "failed"
  /\ UNCHANGED <<hostv, opts, runmode, appv, alive, counters, sigint, stop, timev, outv>>

\* The element can be counted: its process exists
Exists(el) == IF el = App THEN app \notin {"zombie", "reaped"} ELSE el \in alive \cup online

\* One ocount_counter: with enable_on_exec it counts once the application is
\* executed, else at once.  ESRCH for a task that is gone, EBUSY at any time.
perf_event_open ==
  /\ pc = "open" /\ todo # <<>>
  /\ \/ /\ Exists(Head(todo).el)
        /\ counters' = Append(counters, [el |-> Head(todo).el, ev |-> Head(todo).ev,
                                         enabled |-> runmode # "start_app", count |-> 0])
        /\ todo' = Tail(todo)
        /\ pc' = IF todo' = <<>> THEN "unblock" ELSE "open"
     \/ pc' = "failed" /\ UNCHANGED <<counters, todo>>
  /\ UNCHANGED <<hostv, opts, runmode, appv, alive, sigint, stop, timev, outv>>

-----------------------------------------------------------------------------
(* SIGINT                                                                  *)

SendSigint ==
  /\ sigint = "no" /\ pc \notin {"main", "args", "usage", "ended", "killed"}
  /\ sigint' = "pending"
  /\ UNCHANGED <<hostv, opts, runmode, pc, appv, alive, todo, counters, stop, timev, outv>>

\* set_signals_for_parent unblocks SIGINT before it installs the handler.
Unblock ==
  /\ pc = "unblock"
  /\ pc' = IF sigint = "pending" THEN "killed" ELSE "handler"
  /\ UNCHANGED <<hostv, opts, runmode, appv, alive, todo, counters, sigint, stop, timev, outv>>

DefaultSigint ==
  /\ pc = "handler" /\ sigint = "pending"
  /\ pc' = "killed"
  /\ UNCHANGED <<hostv, opts, runmode, appv, alive, todo, counters, sigint, stop, timev, outv>>

Running == {"interval", "sleep", "read", "print", "check", "wait", "final"}

\* SIGKILL ends the application wherever it is.
Kill(a) == IF a \in {"forked", "waiting", "running"} THEN "zombie" ELSE a

\* A mutant: the handler only kills the application.
op_sig_stop_NoStop ==
  /\ pc \in Running /\ sigint = "pending"
  /\ sigint' = "delivered" /\ UNCHANGED stop
  /\ app' = IF runmode = "start_app" THEN Kill(app) ELSE app
  /\ UNCHANGED <<hostv, opts, runmode, pc, started, failure, alive, todo, counters, timev, outv>>

\* A sleep or waitpid that the signal interrupts returns: see EndSleep and wait.
op_sig_stop ==
  /\ pc \in Running /\ sigint = "pending"
  /\ sigint' = "delivered" /\ stop' = TRUE
  /\ app' = IF runmode = "start_app" THEN Kill(app) ELSE app
  /\ UNCHANGED <<hostv, opts, runmode, pc, started, failure, alive, todo, counters, timev, outv>>

InstallHandler ==
  /\ pc = "handler" /\ sigint # "pending"
  /\ pc' = IF with_time_interval THEN "interval" ELSE "wait"
  /\ intervals' = opts.num_intervals
  /\ UNCHANGED <<hostv, opts, runmode, appv, alive, todo, counters, sigint, stop, countdown, dsp, slept, outv>>

-----------------------------------------------------------------------------
(* Waiting for the end and displaying intervals                            *)

\* The interval in ticks, rounded, and never none: round(display_interval / 100)
Ticks(ms) ==
  LET units == (2 * ms + PerTick) \div (2 * PerTick) IN IF units = 0 THEN 1 ELSE units

\* The interval loop of _wait_for_app counts down, the one of _run sleeps once.
\* MaxOutputs bounds the intervals of an ocount that nothing stops.
StartInterval ==
  /\ pc = "interval"
  /\ IF runmode # "start_app" /\ stop
     THEN pc' = "final" /\ UNCHANGED <<countdown, dsp, slept>>
     ELSE /\ outputs < MaxOutputs \/ stop \/ app = "zombie"
          /\ countdown' = Ticks(opts.interval) /\ dsp' = Ticks(opts.interval) /\ slept' = 0
          /\ pc' = "sleep"
  /\ UNCHANGED <<hostv, opts, runmode, appv, alive, todo, counters, sigint, stop, intervals, outv>>

\* countdown is unsigned: what is taken off too much wraps around.
Minus(a, b) == (a - b) % U32

EndSleep ==
  /\ pc = "sleep"
  /\ IF runmode # "start_app"
     THEN countdown' = 0 /\ slept' = slept + countdown /\ UNCHANGED dsp
     ELSE IF countdown >= PerSec
     THEN /\ countdown' = countdown - PerSec /\ slept' = slept + PerSec
          /\ dsp' = IF countdown' \in 1..(PerSec - 1) THEN countdown' ELSE dsp
     ELSE countdown' = Minus(countdown, dsp) /\ slept' = slept + countdown /\ UNCHANGED dsp
  /\ pc' = IF countdown' = 0 THEN "read" ELSE "check"
  /\ UNCHANGED <<hostv, opts, runmode, appv, alive, todo, counters, sigint, stop, intervals, outv>>

\* waitpid(WNOHANG) after each sleep and each display
CheckApp ==
  /\ pc = "check"
  /\ IF app = "zombie"
     THEN /\ intervals' = intervals - 1 /\ app' = "reaped" /\ pc' = "final"
     ELSE IF countdown # 0 THEN pc' = "sleep" /\ UNCHANGED <<intervals, app>>
     ELSE /\ intervals' = intervals - 1
          /\ IF intervals' = 0 THEN app' = Kill(app) /\ pc' = "final"
             ELSE pc' = "interval" /\ UNCHANGED app
  /\ UNCHANGED <<hostv, opts, runmode, started, failure, alive, todo, counters, sigint, stop,
                 countdown, dsp, slept, outv>>

\* waitpid, or sleep(1) until SIGINT
wait ==
  /\ pc = "wait"
  /\ IF runmode = "start_app"
     THEN \/ app = "zombie" /\ app' = "reaped"
          \/ sigint = "delivered" /\ UNCHANGED app
     ELSE stop /\ UNCHANGED app
  /\ pc' = "read"
  /\ UNCHANGED <<hostv, opts, runmode, started, failure, alive, todo, counters, sigint, stop, timev, outv>>

-----------------------------------------------------------------------------
(* output_results                                                          *)

\* The counts of an event in the first n counters
CountedIn(ctrs, ev, m) ==
  LET sum[n \in 0..m] ==
        IF n = 0 THEN 0
        ELSE sum[n - 1] + (IF n % NrEvents = ev % NrEvents THEN ctrs[n].count ELSE 0)
  IN sum[m]

\* The counts of an event, over all its counters
Counted(ev) == CountedIn(counters, ev, Len(counters))

\* A mutant: the sums of the last interval are kept.
ReadCounters_NoReset ==
  /\ pc = "read" /\ pc' = "print"
  /\ LET base == accum
         sums == [i \in Lines |-> IF i <= NrEvents /\ ~use_separation
                                  THEN base[i] + Counted(i) ELSE base[i]]
     IN IF with_time_interval /\ ~use_separation
        THEN /\ prev' = [i \in Lines |-> IF i <= NrEvents THEN sums[i] ELSE prev[i]]
             /\ accum' = [i \in Lines |-> IF i <= NrEvents THEN sums[i] - prev[i] ELSE sums[i]]
        ELSE accum' = sums /\ UNCHANGED prev
  /\ UNCHANGED <<hostv, opts, runmode, appv, alive, todo, counters, sigint, stop, timev, printed, outputs>>

\* All counters are read, and added up for each event unless they are
\* displayed one by one.
ReadCounters ==
  /\ pc = "read" /\ pc' = "print"
  /\ LET base == IF with_time_interval THEN Zero ELSE accum
         sums == [i \in Lines |-> IF i <= NrEvents /\ ~use_separation
                                  THEN base[i] + Counted(i) ELSE base[i]]
     IN IF with_time_interval /\ ~use_separation
        THEN /\ prev' = [i \in Lines |-> IF i <= NrEvents THEN sums[i] ELSE prev[i]]
             /\ accum' = [i \in Lines |-> IF i <= NrEvents THEN sums[i] - prev[i] ELSE sums[i]]
        ELSE accum' = sums /\ UNCHANGED prev
  /\ UNCHANGED <<hostv, opts, runmode, appv, alive, todo, counters, sigint, stop, timev, printed, outputs>>

\* do_results: a counter that cannot be read ends ocount, as if there were no
\* application.
ReadFails ==
  /\ pc = "read" /\ pc' = "ended"
  /\ counters # <<>> /\ failure' = "read"
  /\ UNCHANGED <<hostv, opts, runmode, app, started, alive, todo, counters, sigint, stop, timev, outv>>

\* A counter that has a line of its own is read a second time for it.
CounterLine(i) ==
  IF i \notin DOMAIN counters THEN 0
  ELSE IF with_time_interval THEN counters[i].count - prev[i] ELSE counters[i].count

\* The counts of the lines, the same in both formats
output_lines ==
  [i \in Lines |-> IF use_separation THEN CounterLine(i)
                   ELSE IF i <= NrEvents THEN accum[i] ELSE 0]

Display ==
  /\ pc = "print"
  /\ printed' = [i \in Lines |-> printed[i] + output_lines[i]]
  /\ prev' = IF use_separation /\ with_time_interval
             THEN [i \in Lines |-> IF i \in DOMAIN counters THEN counters[i].count ELSE prev[i]]
             ELSE prev
  /\ IF ~with_time_interval
     THEN pc' = "ended" /\ UNCHANGED <<intervals, stop, outputs>>
     ELSE /\ outputs' = outputs + 1
          /\ IF runmode = "start_app" THEN pc' = "check" /\ UNCHANGED <<intervals, stop>>
             ELSE /\ intervals' = intervals - 1
                  /\ stop' = (stop \/ intervals' = 0)
                  /\ pc' = "interval"
  /\ UNCHANGED <<hostv, opts, runmode, appv, alive, todo, counters, sigint, countdown, dsp, slept, accum>>

\* That second read fails for line k.
LineFails(k) ==
  /\ pc = "print" /\ use_separation /\ k \in DOMAIN counters
  /\ pc' = "ended" /\ failure' = "read"
  /\ printed' = [i \in Lines |-> IF i < k THEN printed[i] + output_lines[i] ELSE printed[i]]
  /\ prev' = IF with_time_interval
             THEN [i \in Lines |-> IF i \in DOMAIN counters /\ i < k THEN counters[i].count ELSE prev[i]]
             ELSE prev
  /\ UNCHANGED <<hostv, opts, runmode, app, started, alive, todo, counters, sigint, stop, timev, accum, outputs>>

\* There is no last display behind the intervals.
Final ==
  /\ pc = "final" /\ pc' = "ended"
  /\ UNCHANGED <<hostv, opts, runmode, appv, alive, todo, counters, sigint, stop, timev, outv>>

\* A mutant: the application is left alone.
Failed_NoKill ==
  /\ pc = "failed" /\ pc' = "ended"
  /\ UNCHANGED app
  /\ UNCHANGED <<hostv, opts, runmode, started, failure, alive, todo, counters, sigint, stop, timev, outv>>

\* main: an application that was started is killed when counting it failed.
Failed ==
  /\ pc = "failed" /\ pc' = "ended"
  /\ app' = IF runmode = "start_app" /\ started THEN Kill(app) ELSE app
  /\ UNCHANGED <<hostv, opts, runmode, started, failure, alive, todo, counters, sigint, stop, timev, outv>>

-----------------------------------------------------------------------------
(* The application, the tasks and the kernel                               *)

AppExit ==
  /\ app = "running" /\ app' = "zombie"
  /\ UNCHANGED <<hostv, opts, runmode, pc, started, failure, alive, todo, counters, sigint, stop, timev, outv>>

TaskExit(t) ==
  /\ t \in alive /\ alive' = alive \ {t}
  /\ UNCHANGED <<hostv, opts, runmode, pc, appv, todo, counters, sigint, stop, timev, outv>>

\* A CPU is taken offline.
Offline(c) ==
  /\ Hosts[machine].hotplug /\ online = Hosts[machine].online
  /\ c \in Hosts[machine].online_files \cap online
  /\ online' = online \ {c}
  /\ UNCHANGED <<machine, opts, runmode, pc, appv, alive, todo, counters, sigint, stop, timev, outv>>

Active(el) == IF el = App THEN app = "running" ELSE el \in alive \cup online

Count(i) ==
  /\ i \in DOMAIN counters /\ counters[i].enabled /\ Active(counters[i].el)
  /\ counters[i].count < MaxCount
  /\ counters' = [counters EXCEPT ![i].count = @ + 1]
  /\ UNCHANGED <<hostv, opts, runmode, pc, appv, alive, todo, sigint, stop, timev, outv>>

Parent ==
  \/ main \/ process_args \/ Fork \/ StartApp \/ setup \/ perf_event_open
  \/ Unblock \/ DefaultSigint \/ InstallHandler \/ op_sig_stop
  \/ StartInterval \/ EndSleep \/ CheckApp \/ wait
  \/ ReadCounters \/ Display \/ Final \/ Failed

Next ==
  \/ Parent \/ AppReady \/ AppExec \/ AppExit \/ SendSigint
  \/ AppFails \/ PipeFails \/ ReadFails
  \/ \E k \in Lines : LineFails(k)
  \/ \E t \in Tasks : TaskExit(t)
  \/ \E c \in Cpus : Offline(c)
  \/ \E i \in Lines : Count(i)

\* The scheduler runs ocount and the child up to its exec; nothing makes the
\* application end, an event happen, the user press ^C or a call fail.
Spec == Init /\ [][Next]_vars /\ WF_vars(Parent) /\ WF_vars(AppReady) /\ WF_vars(AppExec)

-----------------------------------------------------------------------------
Over == {"ended", "killed", "usage"}

\* The interval that is displayed is as long as the user asked for, to a tick:
\* counting down by seconds and by the rest never runs past zero (ocount.cpp, the
\* "special case" arithmetic of _wait_for_app).
IntervalLength ==
  pc = "read" /\ with_time_interval => slept = Ticks(opts.interval)

\* What one line shows, over all intervals, is what its counters had counted
\* when they were last read: no event is shown twice or missed between two
\* intervals, though events go on while the counters are read twice, and also
\* where a read fails half way (ocount_counter.cpp, output_results).
IntervalsAddUp ==
  /\ pc \notin {"read", "print"} =>
       \A i \in Lines :
         /\ with_time_interval => printed[i] = prev[i]
         /\ ~use_separation /\ i <= NrEvents => printed[i] <= Counted(i)
         /\ use_separation /\ i \in DOMAIN counters => printed[i] <= counters[i].count
  /\ IntervalLength

\* ocount leaves no application running behind: when it has ended, the
\* application it started has ended or was killed, also when the counters could
\* not be opened after the application was told to start.  There are three
\* exceptions: ocount ended by a SIGINT that came before the handler was
\* installed ("killed"); a counter that could not be read for an interval, for
\* do_results exits at once; and a pipe that failed before app_started was set,
\* which leaves behind the child that waits for its word, not the application
\* (ocount.cpp: start_counting, do_results, main).
AppNotLeft ==
  pc = "ended" /\ app \in {"forked", "waiting", "running"} =>
    \/ failure = "read" /\ with_time_interval
    \/ failure = "pipe" /\ app # "running"

\* Counting the whole system, ocount counts every CPU that is online, whatever
\* CPUs are missing from the row, in whatever order the directories of the CPUs
\* are read, and though a CPU may go at any time (op_pe_utils.cpp,
\* op_get_available_cpus; ocount_counter.cpp, do_counting_per_cpu).
CpusCounted ==
  pc \in Running /\ runmode = "syswide" =>
    online \subseteq {counters[i].el : i \in DOMAIN counters}

\* SIGINT ends ocount whenever it is sent, and so does the end of the
\* application (ocount.cpp: the handler kills the application that waitpid
\* waits for; sleep and waitpid return).  The exception is a child that could
\* not say that it is ready: ocount waits for it with SIGINT blocked.
OcountEnds ==
  /\ sigint # "no" ~> (pc \in Over \/ failure = "child")
  /\ app = "zombie" ~> (pc \in Over \/ failure = "child")

=============================================================================
