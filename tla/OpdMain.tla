------------------------------ MODULE OpdMain ------------------------------
(***************************************************************************)
(* daemon/init.c, with the signal handlers of daemon/oprofiled.c and the   *)
(* request pipe of daemon/opd_pipe.c: the loop in which oprofiled reads    *)
(* the kernel's buffer, acts on signals and starts opjitconv; and what it  *)
(* talks to: the buffer device, the opjitconv children, and opcontrol,     *)
(* which asks for dumps and ends the daemon (utils/opcontrol).             *)
(*                                                                         *)
(* A signal handler only sets a flag.  read and wait return early when a   *)
(* signal arrives inside them (sa_flags is 0), but not when it arrived     *)
(* just before.  What is stored of a buffer is module OpdTrans.            *)
(***************************************************************************)
EXTENDS Naturals

CONSTANTS
  MaxSamples,  \* bound: samples taken
  MaxSignals,  \* bound: SIGALRM and SIGHUP sent
  MaxDumps,    \* bound: dumps asked for
  DumpFileErrors \* whether complete_dump may fail to make its file

ASSUME MainAssumption ==
  /\ MaxSamples \in Nat /\ MaxSignals \in Nat
  /\ MaxDumps \in Nat /\ DumpFileErrors \in BOOLEAN

VARIABLES
  pc,       \* where the daemon is
  flags,    \* signal_alarm, signal_hup, signal_term, signal_child that are set
  got,      \* read returned a buffer (count >= 0)
  jit_conversion_running,
  running,  \* opjitconv children that run
  zombies,  \* and that have ended but were not waited for
  taken, read, stored, \* samples taken, handed to the daemon, stored
  ready,    \* the device has something for its reader
  pipe,     \* a do_jitconv line is in the pipe
  dumped,   \* the file complete_dump exists
  octl,     \* where opcontrol --dump is
  mark,     \* samples taken when it asked for the dump
  dumps,    \* dumps asked for so far
  killing,  \* opcontrol --shutdown is ending the daemon
  signals   \* SIGALRM and SIGHUP sent so far

daemon == <<pc, flags, got, jit_conversion_running>>
children == <<running, zombies>>
device == <<taken, read, stored, ready>>
opcontrol == <<octl, mark, dumps, killing>>
mainVars == <<daemon, children, device, pipe, dumped, opcontrol, signals>>

MainInit ==
  /\ pc = "enter" /\ flags = {} /\ got = FALSE /\ jit_conversion_running = FALSE
  /\ running = 0 /\ zombies = 0
  /\ taken = 0 /\ read = 0 /\ stored = 0 /\ ready = FALSE
  /\ pipe = FALSE /\ dumped = FALSE
  /\ octl = "idle" /\ mark = 0 /\ dumps = 0 /\ killing = FALSE
  /\ signals = 0

Alive == pc # "exited"

-----------------------------------------------------------------------------
(* The daemon's loop                                                       *)

\* op_read_device: the call, and its return with what the buffer holds.
EnterRead ==
  /\ pc = "enter"
  /\ pc' = "reading" /\ got' = FALSE
  /\ UNCHANGED <<flags, jit_conversion_running, children, device, pipe, dumped,
                 opcontrol, signals>>

ReadReturns ==
  /\ pc = "reading" /\ ready
  /\ read' = taken /\ ready' = FALSE
  /\ got' = TRUE /\ pc' = "alarm"
  /\ UNCHANGED <<flags, jit_conversion_running, children, taken, stored, pipe, dumped,
                 opcontrol, signals>>

\* opd_alarm and opd_sighup leave nothing of this state changed but the flag.
CheckAlarm ==
  /\ pc = "alarm"
  /\ flags' = flags \ {"alarm"} /\ pc' = "hup"
  /\ UNCHANGED <<got, jit_conversion_running, children, device, pipe, dumped,
                 opcontrol, signals>>

CheckHup ==
  /\ pc = "hup"
  /\ flags' = flags \ {"hup"} /\ pc' = "term"
  /\ UNCHANGED <<got, jit_conversion_running, children, device, pipe, dumped,
                 opcontrol, signals>>

\* opd_do_jitdumps: the fork succeeds or fails; the flag is set before it.
opd_do_jitdumps ==
  /\ jit_conversion_running' = TRUE
  /\ zombies' = zombies
  /\ IF jit_conversion_running THEN UNCHANGED running
     ELSE running' \in {running, running + 1}

\* Mutant: the end of a conversion is awaited.
CheckTerm_WhenIdle ==
  /\ pc = "term"
  /\ IF "term" \in flags /\ ~jit_conversion_running
     THEN pc' = "exited" /\ opd_do_jitdumps
     ELSE pc' = "child" /\ UNCHANGED <<jit_conversion_running, children>>
  /\ UNCHANGED <<flags, got, device, pipe, dumped, opcontrol, signals>>

\* opd_sigterm: a last conversion, then exit, which removes the lock file.
CheckTerm ==
  /\ pc = "term"
  /\ IF "term" \in flags
     THEN pc' = "exited" /\ opd_do_jitdumps
     ELSE pc' = "child" /\ UNCHANGED <<jit_conversion_running, children>>
  /\ UNCHANGED <<flags, got, device, pipe, dumped, opcontrol, signals>>

\* signal_child is not reset when it was acted on.
CheckChild ==
  /\ pc = "child"
  /\ pc' = IF "child" \in flags THEN "wait" ELSE "pipe"
  /\ UNCHANGED <<flags, got, jit_conversion_running, children, device, pipe, dumped,
                 opcontrol, signals>>

\* opd_sigchild: wait returns with a child that has ended, or with an error
\* when there is none.
WaitReturns ==
  /\ pc = "wait" /\ (zombies > 0 \/ running = 0)
  /\ zombies' = IF zombies > 0 THEN zombies - 1 ELSE 0
  /\ jit_conversion_running' = FALSE
  /\ pc' = "pipe"
  /\ UNCHANGED <<flags, got, running, device, pipe, dumped, opcontrol, signals>>

\* Mutant: the loop is begun again after a request.
CheckPipe_Continues ==
  /\ pc = "pipe"
  /\ pipe' = FALSE
  /\ IF pipe THEN opd_do_jitdumps ELSE UNCHANGED <<jit_conversion_running, children>>
  /\ pc' = IF got /\ ~pipe THEN "samples" ELSE "enter"
  /\ UNCHANGED <<flags, got, device, dumped, opcontrol, signals>>

\* is_jitconv_requested reads what is in the pipe.
CheckPipe ==
  /\ pc = "pipe"
  /\ pipe' = FALSE
  /\ IF pipe THEN opd_do_jitdumps ELSE UNCHANGED <<jit_conversion_running, children>>
  /\ pc' = IF got THEN "samples" ELSE "enter"
  /\ UNCHANGED <<flags, got, device, dumped, opcontrol, signals>>

\* Mutant: nothing is said of a buffer that is empty.
ProcessSamples_SkipsEmpty ==
  /\ pc = "samples"
  /\ stored' = read
  /\ pc' = IF stored = read THEN "enter" ELSE "dump"
  /\ UNCHANGED <<flags, got, jit_conversion_running, children, taken, read, ready,
                 pipe, dumped, opcontrol, signals>>

\* opd_do_samples: opd_process_samples...
ProcessSamples ==
  /\ pc = "samples"
  /\ stored' = read
  /\ pc' = "dump"
  /\ UNCHANGED <<flags, got, jit_conversion_running, children, taken, read, ready,
                 pipe, dumped, opcontrol, signals>>

\* ...and complete_dump; an error other than EMFILE is only reported.
complete_dump ==
  /\ pc = "dump"
  /\ dumped' \in IF DumpFileErrors THEN {dumped, TRUE} ELSE {TRUE}
  /\ pc' = "enter"
  /\ UNCHANGED <<flags, got, jit_conversion_running, children, device, pipe,
                 opcontrol, signals>>

-----------------------------------------------------------------------------
(* Signals                                                                 *)

SleepsInRead == pc = "reading" /\ ~ready
SleepsInWait == pc = "wait" /\ zombies = 0 /\ running > 0

\* The handler sets the flag; a read or wait that sleeps returns with EINTR.
\* opd_sigchild does not look at what wait returned.
Deliver(s) ==
  /\ flags' = flags \cup {s}
  /\ pc' = CASE SleepsInRead -> "alarm" [] SleepsInWait -> "pipe" [] OTHER -> pc
  /\ jit_conversion_running' = IF SleepsInWait THEN FALSE ELSE jit_conversion_running
  /\ UNCHANGED got

\* The timer of ten minutes, and opcontrol --reset or --save.
Signal(s) ==
  /\ Alive /\ signals < MaxSignals
  /\ signals' = signals + 1
  /\ Deliver(s)
  /\ UNCHANGED <<children, device, pipe, dumped, opcontrol>>

\* opjitconv ends.  A daemon in wait is given the child.
ChildEnds ==
  /\ running > 0
  /\ running' = running - 1 /\ zombies' = zombies + 1
  /\ IF ~Alive \/ pc = "wait"
     THEN flags' = flags \cup {"child"} /\ UNCHANGED <<pc, jit_conversion_running, got>>
     ELSE Deliver("child")
  /\ UNCHANGED <<device, pipe, dumped, opcontrol, signals>>

-----------------------------------------------------------------------------
(* The device (external) and opcontrol                                     *)

\* The reader is woken at a watermark, or when a dump is asked for.
TakeSample ==
  /\ taken < MaxSamples
  /\ taken' = taken + 1
  /\ ready' \in {ready, TRUE}
  /\ UNCHANGED <<daemon, children, read, stored, pipe, dumped, opcontrol, signals>>

\* do_dump_data, one step per line.
DumpRequest ==
  /\ octl = "idle" /\ Alive /\ dumps < MaxDumps
  /\ pipe' = TRUE
  /\ octl' = "rm" /\ dumps' = dumps + 1
  /\ UNCHANGED <<daemon, children, device, dumped, mark, killing, signals>>

DumpRemove ==
  /\ octl = "rm"
  /\ dumped' = FALSE
  /\ octl' = "trigger"
  /\ UNCHANGED <<daemon, children, device, pipe, mark, dumps, killing, signals>>

DumpTrigger ==
  /\ octl = "trigger"
  /\ ready' = TRUE /\ mark' = taken
  /\ octl' = "waiting"
  /\ UNCHANGED <<daemon, children, taken, read, stored, pipe, dumped, dumps, killing, signals>>

DumpDone ==
  /\ octl = "waiting" /\ dumped
  /\ octl' = "done"
  /\ UNCHANGED <<daemon, children, device, pipe, dumped, mark, dumps, killing, signals>>

DumpDaemonGone ==
  /\ octl = "waiting" /\ ~Alive
  /\ octl' = "idle" /\ mark' = 0
  /\ UNCHANGED <<daemon, children, device, pipe, dumped, dumps, killing, signals>>

OpcontrolExits ==
  /\ octl = "done"
  /\ octl' = "idle" /\ mark' = 0
  /\ UNCHANGED <<daemon, children, device, pipe, dumped, dumps, killing, signals>>

\* do_kill_daemon: SIGTERM, and again every second while the daemon is there.
KillDaemon ==
  /\ Alive
  /\ killing' = TRUE
  /\ Deliver("term")
  /\ UNCHANGED <<children, device, pipe, dumped, octl, mark, dumps, signals>>

Daemon ==
  \/ EnterRead \/ ReadReturns \/ CheckAlarm \/ CheckHup \/ CheckTerm \/ CheckChild
  \/ WaitReturns \/ CheckPipe \/ ProcessSamples \/ complete_dump

Opcontrol == DumpRemove \/ DumpTrigger \/ DumpDone \/ DumpDaemonGone \/ OpcontrolExits

MainNext ==
  \/ Daemon \/ Opcontrol \/ ChildEnds \/ TakeSample \/ DumpRequest \/ KillDaemon
  \/ \E s \in {"alarm", "hup"} : Signal(s)

\* The daemon and opcontrol run whenever they can, opjitconv ends, and a user
\* who ends the daemon goes on reminding it.
Fairness ==
  /\ WF_mainVars(Daemon) /\ WF_mainVars(Opcontrol) /\ WF_mainVars(ChildEnds)
  /\ WF_mainVars(killing /\ KillDaemon)

MainSpec == MainInit /\ [][MainNext]_mainVars /\ Fairness

-----------------------------------------------------------------------------
(* Properties                                                              *)

Points == {"enter", "reading", "alarm", "hup", "term", "child", "wait", "pipe",
           "samples", "dump", "exited"}
Signals == {"alarm", "hup", "term", "child"}
Places == {"idle", "rm", "trigger", "waiting", "done"}

\* The counters keep their order: nothing is stored that was not read.  There
\* are never more children than dumps were asked for, but for the last one.
MainTypeOK ==
  /\ pc \in Points /\ flags \subseteq Signals /\ octl \in Places
  /\ got \in BOOLEAN /\ jit_conversion_running \in BOOLEAN /\ killing \in BOOLEAN
  /\ ready \in BOOLEAN /\ pipe \in BOOLEAN /\ dumped \in BOOLEAN
  /\ running \in 0..(MaxDumps + 1) /\ zombies \in 0..(MaxDumps + 1)
  /\ taken \in 0..MaxSamples /\ read \in 0..taken /\ stored \in 0..read

\* Whatever signals are acted on between the read of a buffer and its use, the
\* buffer is stored before the next one is read into its place.
BufferStored == pc \in {"enter", "reading", "dump"} => stored = read

\* opcontrol --dump returns, when complete_dump can make its file: the file
\* appears, or the daemon is gone.  Whether or not it returned for an older
\* buffer, the samples taken before it asked are stored in the end, unless the
\* daemon is gone.
DumpReturns ==
  /\ octl = "waiting" ~> octl # "waiting"
  /\ \A n \in 0..MaxSamples :
       (octl = "waiting" /\ mark = n) ~> (stored >= n \/ pc = "exited")

\* opcontrol --shutdown ends the daemon, although a signal that comes just
\* before read is missed and although opd_sigchild may wait for a conversion.
KillEnds == killing ~> pc = "exited"
=============================================================================
