---------------------------- MODULE OcountProofs ----------------------------
(***************************************************************************)
(* What holds of ocount on every machine, for every command line, number   *)
(* of events, CPUs and tasks, whatever is slept, counted and displayed:    *)
(* the intervals add up to what was counted, the application is left       *)
(* behind by the failures of a read and of a pipe alone, and counting the  *)
(* whole system counts every CPU.                                          *)
(***************************************************************************)
EXTENDS Ocount, FiniteSetTheorems, SequenceTheorems, WellFoundedInduction, TLAPS

-----------------------------------------------------------------------------
(* The inductive invariant                                                 *)

Begins == {"main", "args"}
BeforeSetup == {"main", "args", "fork", "ready", "setup", "usage"}
Left == {"zombie", "reaped"}

\* What the command line and the machine say
StartInv ==
  /\ machine \in DOMAIN Hosts /\ online \subseteq Hosts[machine].online
  /\ opts.bad \in BOOLEAN
  /\ ~opts.bad => opts.interval \in Nat
  /\ pc \in Begins => runmode = "none"
  /\ pc \notin Begins \cup {"usage"} => runmode # "usage" /\ ~opts.bad
  /\ pc \in {"interval", "sleep", "check"} => with_time_interval
  /\ pc = "wait" => ~with_time_interval

\* The application from fork to its end: it is told to start before anything
\* but its pipes can fail, and a SIGINT, an end of the intervals and waitpid each
\* leave it dead.
AppInv ==
  /\ app \in {"none", "forked", "waiting", "running", "zombie", "reaped"}
  /\ runmode # "start_app" => app = "none"
  /\ pc = "fork" => runmode = "start_app"
  /\ runmode = "start_app" /\ pc \notin {"fork", "usage"} => app # "none" \/ failure = "pipe"
  /\ runmode = "start_app" /\ pc \notin {"fork", "usage", "ready"} => started \/ failure = "pipe"
  /\ app = "running" => started
  /\ failure = "pipe" => ~started /\ pc \in {"failed", "ended"}
  /\ failure = "read" => pc = "ended"
  /\ pc \in Begins \cup {"fork", "ready"} => ~started
  /\ pc \in Begins \cup {"fork"} => app = "none" /\ sigint # "delivered"
  /\ runmode = "start_app" /\ sigint = "delivered" => app \in Left
  /\ runmode = "start_app" /\ pc = "final" => app \in Left
  /\ runmode = "start_app" /\ ~with_time_interval /\ pc \in {"read", "print"} => app \in Left
  /\ AppNotLeft

\* What is slept and what is left to sleep make up the interval; the rest of
\* less than a second is slept at once.
TimeInv ==
  /\ pc \in {"sleep", "check"} \/ (pc \in {"read", "print"} /\ with_time_interval) =>
       countdown \in Nat /\ slept \in Nat /\ slept + countdown = Ticks(opts.interval)
  /\ pc = "sleep" \/ (pc = "check" /\ countdown # 0) => (countdown < PerSec => dsp = countdown)
  /\ pc \in {"read", "print"} /\ with_time_interval => countdown = 0

\* A sequence, whatever it holds
IsRow(s) == s \in Seq({s[i] : i \in DOMAIN s})

\* The counters are a row; each has counted a number of events.
CountersInv ==
  /\ IsRow(counters)
  /\ \A i \in DOMAIN counters :
       DOMAIN counters[i] = {"el", "ev", "enabled", "count"} /\ counters[i].count \in Nat
  /\ pc \in BeforeSetup => counters = <<>>

\* What was displayed on line i and what is about to be: before the first
\* display nothing, then what the counters showed when they were read.
LineShown(i) ==
  /\ with_time_interval /\ (pc = "print" => use_separation \/ ~(i <= NrEvents)) => printed[i] = prev[i]
  /\ with_time_interval /\ ~use_separation /\ i <= NrEvents =>
       /\ pc = "print" => printed[i] + accum[i] = prev[i]
       /\ prev[i] <= Counted(i)
  /\ ~with_time_interval /\ pc # "ended" => printed[i] = 0
  /\ ~with_time_interval /\ pc \notin {"print", "ended"} => accum[i] = 0
  /\ ~with_time_interval /\ ~use_separation /\ i <= NrEvents =>
       /\ pc = "print" => accum[i] <= Counted(i)
       /\ printed[i] <= Counted(i)
  /\ use_separation /\ i \in DOMAIN counters => printed[i] <= counters[i].count

ShownInv ==
  /\ accum \in [Lines -> Int] /\ prev \in [Lines -> Int] /\ printed \in [Lines -> Int]
  /\ pc \in BeforeSetup \cup {"open"} => printed = Zero
  /\ \A i \in Lines : LineShown(i)

Opened == {"unblock", "handler"} \cup Running
HasCounter(c) == \E i \in DOMAIN counters : counters[i].el = c
ToOpen(c) == \E k \in DOMAIN todo : todo[k].el = c

\* Every CPU that is online has its counters, or is among those still to be
\* opened.
CpusInv ==
  /\ runmode = "syswide" /\ pc = "open" => IsRow(todo) /\ \A c \in online : HasCounter(c) \/ ToOpen(c)
  /\ runmode = "syswide" /\ pc \in Opened => \A c \in online : HasCounter(c)

OcountInv == StartInv /\ AppInv /\ TimeInv /\ CountersInv /\ ShownInv /\ CpusInv

-----------------------------------------------------------------------------
(* The command line, the application and the intervals                     *)

\* A bad command line is refused.
LEMMA BadRefused ==
  ASSUME opts.bad PROVE _validate_args(opts) = "usage"
  BY Zenon DEF _validate_args

\* What _parse_time_interval makes of a good pair of numbers
LEMMA IntervalIsNat ==
  ASSUME NEW time \in Seq(Int), ~_parse_time_interval(time).bad
  PROVE  _parse_time_interval(time).interval \in Nat
<1>1. CASE time = <<>>
  BY <1>1 DEF _parse_time_interval
<1>2. CASE time # <<>>
  <2>1. 1 \in DOMAIN time /\ time[1] \in Int
    BY <1>2
  <2>2. ~(time[1] < 0)
    BY <2>1 DEF _parse_time_interval
  <2>3. _parse_time_interval(time).interval = time[1]
    BY <1>2, Zenon DEF _parse_time_interval
  <2> QED  BY <2>1, <2>2, <2>3
<1> QED  BY <1>1, <1>2

LEMMA StartInit == Init => StartInv
<1> SUFFICES ASSUME Init PROVE StartInv
  OBVIOUS
<1>1. PICK start \in Starts : /\ machine = start.machine /\ online = Hosts[machine].online
                              /\ opts = _process_ocount_and_app_args(start.args)
  BY DEF Init
<1> DEFINE time == _parse_time_interval(start.args.time)
<1>2. start.machine \in DOMAIN Hosts /\ start.args.bad \in BOOLEAN /\ start.args.time \in Seq(Int)
  BY OcountAssumption
<1>3. opts.bad = (start.args.bad \/ time.bad) /\ opts.interval = time.interval
  BY <1>1, Zenon DEF _process_ocount_and_app_args
<1>4. time.bad \in BOOLEAN
  BY DEF _parse_time_interval
<1>5. opts.bad \in BOOLEAN
  BY <1>2, <1>3, <1>4
<1>6. ~opts.bad => opts.interval \in Nat
  BY <1>2, <1>3, IntervalIsNat
<1> QED  BY <1>1, <1>2, <1>5, <1>6 DEF Init, StartInv, Begins

\* Every step leaves the command line and the machine alone; a CPU may go.
LEMMA StartStep == StartInv /\ [Next]_vars => StartInv'
<1> SUFFICES ASSUME StartInv, [Next]_vars PROVE StartInv'
  OBVIOUS
<1> USE DEF StartInv, Begins, hostv, with_time_interval
<1>1. CASE main
  BY <1>1 DEF main
<1>2. CASE process_args
  <2>1. runmode' = "usage" \/ ~opts.bad
    BY <1>2, BadRefused DEF process_args
  <2> QED  BY <1>2, <2>1 DEF process_args
<1>3. CASE Fork
  BY <1>3 DEF Fork
<1>4. CASE StartApp
  BY <1>4 DEF StartApp
<1>5. CASE setup
  BY <1>5 DEF setup
<1>6. CASE perf_event_open
  BY <1>6 DEF perf_event_open
<1>7. CASE Unblock \/ DefaultSigint \/ InstallHandler \/ op_sig_stop
  BY <1>7 DEF Unblock, DefaultSigint, InstallHandler, op_sig_stop, Running
<1>8. CASE StartInterval
  BY <1>8 DEF StartInterval
<1>9. CASE EndSleep
  BY <1>9 DEF EndSleep
<1>10. CASE CheckApp
  BY <1>10 DEF CheckApp
<1>11. CASE wait
  BY <1>11 DEF wait
<1>12. CASE ReadCounters
  BY <1>12 DEF ReadCounters
<1>13. CASE Display
  BY <1>13 DEF Display
<1>14. CASE Final \/ Failed
  BY <1>14 DEF Final, Failed
<1>15. CASE AppReady \/ AppExec \/ AppExit \/ SendSigint
  BY <1>15 DEF AppReady, AppExec, AppExit, SendSigint
<1>16. ASSUME NEW t \in Tasks, TaskExit(t) PROVE StartInv'
  BY <1>16 DEF TaskExit
<1>17. ASSUME NEW c \in Cpus, Offline(c) PROVE StartInv'
  BY <1>17 DEF Offline
<1>18. ASSUME NEW i \in Lines, Count(i) PROVE StartInv'
  BY <1>18 DEF Count
<1>19. CASE UNCHANGED vars
  BY <1>19 DEF vars
<1>20. CASE AppFails \/ PipeFails \/ ReadFails
  BY <1>20 DEF AppFails, PipeFails, ReadFails
<1>21. ASSUME NEW k \in Lines, LineFails(k) PROVE StartInv'
  BY <1>21 DEF LineFails
<1> QED
  BY <1>1, <1>2, <1>3, <1>4, <1>5, <1>6, <1>7, <1>8, <1>9, <1>10, <1>11, <1>12, <1>13, <1>14,
     <1>15, <1>16, <1>17, <1>18, <1>19, <1>20, <1>21
     DEF Next, Parent

LEMMA AppStep == StartInv /\ AppInv /\ [Next]_vars => AppInv'
<1> SUFFICES ASSUME StartInv, AppInv, [Next]_vars PROVE AppInv'
  OBVIOUS
<1> USE DEF AppInv, AppNotLeft, Left, Begins, with_time_interval, appv
<1>1. CASE main
  BY <1>1 DEF main, StartInv, Begins
<1>2. CASE process_args
  BY <1>2 DEF process_args
<1>3. CASE Fork
  BY <1>3 DEF Fork
<1>4. CASE StartApp
  BY <1>4 DEF StartApp
<1>5. CASE setup
  BY <1>5 DEF setup
<1>6. CASE perf_event_open
  BY <1>6 DEF perf_event_open
<1>7. CASE Unblock \/ DefaultSigint \/ InstallHandler
  BY <1>7 DEF Unblock, DefaultSigint, InstallHandler
<1>8. CASE op_sig_stop
  BY <1>8 DEF op_sig_stop, Running, Kill
<1>9. CASE StartInterval
  BY <1>9 DEF StartInterval
<1>10. CASE EndSleep
  BY <1>10 DEF EndSleep, StartInv
<1>11. CASE CheckApp
  BY <1>11 DEF CheckApp, Kill
<1>12. CASE wait
  BY <1>12 DEF wait
<1>13. CASE ReadCounters
  BY <1>13 DEF ReadCounters
<1>14. CASE Display
  BY <1>14 DEF Display
<1>15. CASE Final
  BY <1>15 DEF Final
<1>16. CASE Failed
  BY <1>16 DEF Failed, Kill
<1>17. CASE AppReady \/ AppExec \/ AppExit \/ SendSigint
  BY <1>17 DEF AppReady, AppExec, AppExit, SendSigint
<1>18. ASSUME NEW t \in Tasks, TaskExit(t) PROVE AppInv'
  BY <1>18 DEF TaskExit
<1>19. ASSUME NEW c \in Cpus, Offline(c) PROVE AppInv'
  BY <1>19 DEF Offline
<1>20. ASSUME NEW i \in Lines, Count(i) PROVE AppInv'
  BY <1>20 DEF Count
<1>21. CASE UNCHANGED vars
  BY <1>21 DEF vars
<1>22. CASE AppFails
  BY <1>22 DEF AppFails
<1>23. CASE PipeFails \/ ReadFails
  BY <1>23 DEF PipeFails, ReadFails
<1>24. ASSUME NEW k \in Lines, LineFails(k) PROVE AppInv'
  BY <1>24 DEF LineFails
<1> QED
  BY <1>1, <1>2, <1>3, <1>4, <1>5, <1>6, <1>7, <1>8, <1>9, <1>10, <1>11, <1>12, <1>13, <1>14,
     <1>15, <1>16, <1>17, <1>18, <1>19, <1>20, <1>21, <1>22, <1>23, <1>24
     DEF Next, Parent

\* An interval is a number of ticks.
LEMMA TicksIsNat ==
  ASSUME NEW ms \in Nat PROVE Ticks(ms) \in Nat
<1>1. 2 * ms + PerTick \in Nat /\ 2 * PerTick \in Nat \ {0}
  BY OcountAssumption
<1>2. \A x \in Nat, y \in Nat \ {0} : x \div y \in Nat
  OBVIOUS
<1>3. (2 * ms + PerTick) \div (2 * PerTick) \in Nat
  BY <1>1, <1>2
<1> QED  BY <1>3 DEF Ticks

LEMMA TimeStep == StartInv /\ TimeInv /\ [Next]_vars => TimeInv'
<1> SUFFICES ASSUME StartInv, TimeInv, [Next]_vars PROVE TimeInv'
  OBVIOUS
<1> USE DEF TimeInv, with_time_interval, timev
<1>1. CASE main \/ process_args \/ Fork \/ StartApp
  BY <1>1 DEF main, process_args, Fork, StartApp
<1>2. CASE setup \/ perf_event_open
  BY <1>2 DEF setup, perf_event_open
<1>3. CASE Unblock \/ DefaultSigint \/ InstallHandler \/ op_sig_stop
  BY <1>3 DEF Unblock, DefaultSigint, InstallHandler, op_sig_stop
<1>4. CASE StartInterval
  <2>1. Ticks(opts.interval) \in Nat
    BY <1>4, TicksIsNat DEF StartInterval, StartInv, Begins
  <2>2. Ticks(opts.interval)' = Ticks(opts.interval)
    BY <1>4 DEF StartInterval
  <2> QED  BY <1>4, <2>1, <2>2 DEF StartInterval
<1>5. CASE EndSleep
  <2> USE DEF EndSleep
  <2>1. countdown \in Nat /\ slept \in Nat /\ slept + countdown = Ticks(opts.interval)
    BY <1>5
  <2>2. CASE runmode # "start_app"
    BY <1>5, <2>1, <2>2
  <2>3. CASE runmode = "start_app" /\ countdown >= PerSec
    BY <1>5, <2>1, <2>3, OcountAssumption
  <2>4. CASE runmode = "start_app" /\ ~(countdown >= PerSec)
    <3>1. dsp = countdown
      BY <1>5, <2>1, <2>4, OcountAssumption
    <3>2. countdown - countdown = 0 /\ 0 % U32 = 0
      BY <2>1, OcountAssumption
    <3>3. countdown' = 0
      BY <1>5, <2>4, <3>1, <3>2 DEF Minus
    <3> QED  BY <1>5, <2>1, <2>4, <3>3
  <2> QED  BY <2>2, <2>3, <2>4
<1>6. CASE CheckApp
  BY <1>6 DEF CheckApp
<1>7. CASE wait
  BY <1>7 DEF wait, StartInv
<1>8. CASE ReadCounters
  BY <1>8 DEF ReadCounters
<1>9. CASE Display
  BY <1>9, OcountAssumption DEF Display
<1>10. CASE Final \/ Failed
  BY <1>10 DEF Final, Failed
<1>11. CASE AppReady \/ AppExec \/ AppExit \/ SendSigint
  BY <1>11 DEF AppReady, AppExec, AppExit, SendSigint
<1>12. ASSUME NEW t \in Tasks, TaskExit(t) PROVE TimeInv'
  BY <1>12 DEF TaskExit
<1>13. ASSUME NEW c \in Cpus, Offline(c) PROVE TimeInv'
  BY <1>13 DEF Offline
<1>14. ASSUME NEW i \in Lines, Count(i) PROVE TimeInv'
  BY <1>14 DEF Count
<1>15. CASE UNCHANGED vars
  BY <1>15 DEF vars
<1>16. CASE AppFails \/ PipeFails \/ ReadFails
  BY <1>16 DEF AppFails, PipeFails, ReadFails
<1>17. ASSUME NEW k \in Lines, LineFails(k) PROVE TimeInv'
  BY <1>17 DEF LineFails
<1> QED
  BY <1>1, <1>2, <1>3, <1>4, <1>5, <1>6, <1>7, <1>8, <1>9, <1>10, <1>11, <1>12, <1>13, <1>14,
     <1>15, <1>16, <1>17
     DEF Next, Parent

-----------------------------------------------------------------------------
(* Sums                                                                    *)

\* Induction over the naturals, for a set.
LEMMA NatSetInduction ==
  ASSUME NEW T, 0 \in T, \A n \in Nat : n \in T => n + 1 \in T
  PROVE  Nat \subseteq T
<1> SUFFICES ASSUME NEW m \in Nat, m \notin T PROVE FALSE
  OBVIOUS
<1> DEFINE U == {0..n : n \in {k \in Nat : k \notin T}}
<1>1. U # {} /\ 0..m \in U
  OBVIOUS
<1>2. U \subseteq FiniteSubsetsOf(Nat)
  <2> SUFFICES ASSUME NEW n \in Nat PROVE 0..n \in FiniteSubsetsOf(Nat)
    OBVIOUS
  <2>1. IsFiniteSet(0..n) BY FS_Interval
  <2> QED BY <2>1 DEF FiniteSubsetsOf
<1>3. IsWellFoundedOn(StrictSubsetOrdering(Nat), FiniteSubsetsOf(Nat))
  BY FS_StrictSubsetOrderingWellFounded
<1> HIDE DEF U
<1>4. \E x \in U : \A y \in U : ~(<<y, x>> \in StrictSubsetOrdering(Nat))
  BY <1>1, <1>2, <1>3, WFMin
<1> USE DEF U
<1>5. PICK x \in Nat : x \notin T /\ \A y \in U : ~(<<y, 0..x>> \in StrictSubsetOrdering(Nat))
  BY <1>4
<1>6. x # 0
  BY <1>5
<1>7. x - 1 \in Nat /\ (x - 1) + 1 = x
  BY <1>6
<1>8. x - 1 \notin T
  BY <1>5, <1>7
<1>9. 0..(x - 1) \in U
  BY <1>7, <1>8
<1>10. <<0..(x - 1), 0..x>> \in StrictSubsetOrdering(Nat)
  BY <1>7 DEF StrictSubsetOrdering
<1> QED BY <1>5, <1>9, <1>10

\* g starts at c and goes on by F, n times.
Iterates(g, S, c, F, n) ==
  /\ g \in [0..n -> S]
  /\ g[0] = c
  /\ \A m \in 1..n : g[m] = F[m][g[m - 1]]

\* There is a function that does so.
LEMMA RecursionExists ==
  ASSUME NEW S, NEW c \in S, NEW F \in [Nat -> [S -> S]], NEW n \in Nat
  PROVE  \E g : Iterates(g, S, c, F, n)
<1> DEFINE R(g, k) == g[0] = c /\ \A m \in 1..k : g[m] = F[m][g[m - 1]]
           T == {k \in Nat : \E g \in [0..k -> S] : R(g, k)}
<1>1. 0 \in T
  <2>1. [i \in 0..0 |-> c] \in [0..0 -> S] /\ R([i \in 0..0 |-> c], 0)
    OBVIOUS
  <2> QED BY <2>1
<1>2. ASSUME NEW k \in Nat, k \in T PROVE k + 1 \in T
  <2>1. PICK g \in [0..k -> S] : R(g, k)
    BY <1>2
  <2> DEFINE h == [i \in 0..k + 1 |-> IF i =< k THEN g[i] ELSE F[k + 1][g[k]]]
  <2>2. F[k + 1] \in [S -> S] /\ g[k] \in S
    OBVIOUS
  <2>3. h \in [0..k + 1 -> S]
    BY <2>2
  <2>4. ASSUME NEW m \in 1..k + 1 PROVE h[m] = F[m][h[m - 1]]
    <3>1. CASE m = k + 1
      BY <3>1
    <3>2. CASE m =< k
      <4>1. m \in 1..k /\ m - 1 \in 0..k /\ h[m] = g[m] /\ h[m - 1] = g[m - 1]
        BY <3>2
      <4> QED BY <4>1, <2>1
    <3> QED BY <3>1, <3>2
  <2>5. h[0] = c
    BY <2>1
  <2> HIDE DEF h
  <2>6. R(h, k + 1)
    BY <2>4, <2>5
  <2> QED BY <2>3, <2>6
<1>3. Nat \subseteq T
  <2> HIDE DEF T
  <2> QED BY <1>1, <1>2, NatSetInduction
<1> QED BY <1>3 DEF Iterates

\* What counter n adds to the count of an event
Part(ctrs, ev, n) == IF n % NrEvents = ev % NrEvents THEN ctrs[n].count ELSE 0

\* g[n] is the count of an event in the first n counters.
Adds(g, ctrs, ev, m) ==
  /\ g \in [0..m -> Nat]
  /\ g[0] = 0
  /\ \A n \in 1..m : g[n] = g[n - 1] + Part(ctrs, ev, n)

Counts(ctrs, m) == \A n \in 1..m : ctrs[n].count \in Nat

\* CountedIn is such a sum.
LEMMA CountedInIs ==
  ASSUME NEW ctrs, NEW ev, NEW m \in Nat, Counts(ctrs, m)
  PROVE  \E g : Adds(g, ctrs, ev, m) /\ CountedIn(ctrs, ev, m) = g[m]
<1> DEFINE P(n) == IF n \in 1..m THEN Part(ctrs, ev, n) ELSE 0
           F == [n \in Nat |-> [x \in Nat |-> x + P(n)]]
           Eqs(sum) == sum = [n \in 0..m |-> IF n = 0 THEN 0 ELSE sum[n - 1] + Part(ctrs, ev, n)]
<1>1. \A n \in Nat : P(n) \in Nat
  BY DEF Part, Counts
<1>2. F \in [Nat -> [Nat -> Nat]]
  <2> HIDE DEF P
  <2> QED  BY <1>1
<1>3. PICK h : Iterates(h, Nat, 0, F, m)
  <2> HIDE DEF F
  <2> QED  BY <1>2, RecursionExists
<1>4. /\ h \in [0..m -> Nat] /\ h[0] = 0
      /\ \A n \in 1..m : h[n] = F[n][h[n - 1]]
  <2> HIDE DEF F
  <2> QED  BY <1>3 DEF Iterates
<1>4a. h = [n \in 0..m |-> h[n]]
  <2> HIDE DEF F
  <2> QED  BY <1>4
<1>5. ASSUME NEW n \in 1..m PROVE h[n] = h[n - 1] + Part(ctrs, ev, n)
  <2>1. n \in Nat /\ h[n - 1] \in Nat /\ h[n] = F[n][h[n - 1]]
    <3> HIDE DEF F
    <3> QED  BY <1>4
  <2>2. P(n) = Part(ctrs, ev, n)
    OBVIOUS
  <2> HIDE DEF P
  <2> QED  BY <2>1, <2>2
<1>6. Eqs(h)
  <2>1. \A n \in 0..m : n = 0 \/ n \in 1..m
    OBVIOUS
  <2> QED  BY <1>4, <1>5, <1>4a, <2>1
<1>7. PICK g : Eqs(g) /\ CountedIn(ctrs, ev, m) = g[m]
  <2>1. CountedIn(ctrs, ev, m) = (CHOOSE sum : Eqs(sum))[m]
    BY DEF CountedIn, Part
  <2> HIDE DEF Eqs
  <2>2. Eqs(CHOOSE sum : Eqs(sum))
    BY <1>6
  <2> QED  BY <2>1, <2>2
<1>8. /\ \A n \in 0..m : g[n] = IF n = 0 THEN 0 ELSE g[n - 1] + Part(ctrs, ev, n)
      /\ g = [n \in 0..m |-> g[n]]
  BY <1>7
<1> HIDE DEF Eqs, F, P
<1>9. g[0] = 0 /\ \A n \in 1..m : g[n] = g[n - 1] + Part(ctrs, ev, n)
  <2>1. 0 \in 0..m /\ \A n \in 1..m : n \in 0..m /\ n # 0
    OBVIOUS
  <2> QED  BY <1>8, <2>1
<1> DEFINE T == {n \in Nat : n \in 0..m => g[n] = h[n]}
<1>10. 0 \in T
  BY <1>4, <1>9
<1>11. ASSUME NEW n \in Nat, n \in T PROVE n + 1 \in T
  <2> SUFFICES ASSUME n + 1 \in 0..m PROVE g[n + 1] = h[n + 1]
    OBVIOUS
  <2>1. n \in 0..m /\ n + 1 \in 1..m /\ (n + 1) - 1 = n
    OBVIOUS
  <2> QED  BY <1>5, <1>9, <1>11, <2>1
<1>12. Nat \subseteq T
  <2> HIDE DEF T
  <2> QED  BY <1>10, <1>11, NatSetInduction
<1>13. \A n \in 0..m : g[n] = h[n]
  BY <1>12
<1>14. g \in [0..m -> Nat]
  BY <1>4, <1>8, <1>13
<1> QED  BY <1>7, <1>9, <1>14 DEF Adds

\* When every counter has counted as much or more, and some are new, the count
\* of an event is as much or more.
LEMMA CountedGrows ==
  ASSUME NEW c, NEW d, NEW ev, NEW m \in Nat, NEW k \in Nat, m <= k,
         Counts(c, m), Counts(d, k),
         \A n \in 1..m : c[n].count <= d[n].count
  PROVE  /\ CountedIn(c, ev, m) \in Nat /\ CountedIn(d, ev, k) \in Nat
         /\ CountedIn(c, ev, m) <= CountedIn(d, ev, k)
<1>1. PICK f : Adds(f, c, ev, m) /\ CountedIn(c, ev, m) = f[m]
  BY CountedInIs
<1>2. PICK g : Adds(g, d, ev, k) /\ CountedIn(d, ev, k) = g[k]
  BY CountedInIs
<1>3. /\ f \in [0..m -> Nat] /\ f[0] = 0 /\ \A n \in 1..m : f[n] = f[n - 1] + Part(c, ev, n)
      /\ g \in [0..k -> Nat] /\ g[0] = 0 /\ \A n \in 1..k : g[n] = g[n - 1] + Part(d, ev, n)
  BY <1>1, <1>2 DEF Adds
<1>4. \A n \in 1..k : Part(d, ev, n) \in Nat
  BY DEF Part, Counts
<1>5. ASSUME NEW n \in 1..m PROVE Part(c, ev, n) \in Nat /\ Part(c, ev, n) <= Part(d, ev, n)
  <2>1. n \in 1..k /\ c[n].count \in Nat /\ d[n].count \in Nat /\ c[n].count <= d[n].count
    BY DEF Counts
  <2> QED  BY <2>1 DEF Part
<1> DEFINE T == {n \in Nat : n <= k => f[IF n <= m THEN n ELSE m] <= g[n]}
<1>6. 0 \in T
  BY <1>3
<1>7. ASSUME NEW n \in Nat, n \in T PROVE n + 1 \in T
  <2> SUFFICES ASSUME n + 1 <= k PROVE f[IF n + 1 <= m THEN n + 1 ELSE m] <= g[n + 1]
    OBVIOUS
  <2>1. n + 1 \in 1..k /\ (n + 1) - 1 = n /\ n \in 0..k
    OBVIOUS
  <2>2. g[n] \in Nat /\ g[n + 1] = g[n] + Part(d, ev, n + 1) /\ Part(d, ev, n + 1) \in Nat
    BY <1>3, <1>4, <2>1
  <2>3. f[IF n <= m THEN n ELSE m] <= g[n]
    BY <1>7
  <2>4. CASE n + 1 <= m
    <3>1. n + 1 \in 1..m /\ n \in 0..m /\ n <= m
      BY <2>4
    <3>2. f[n] \in Nat /\ f[n + 1] = f[n] + Part(c, ev, n + 1)
      BY <1>3, <2>1, <3>1
    <3>3. Part(c, ev, n + 1) \in Nat /\ Part(c, ev, n + 1) <= Part(d, ev, n + 1)
      BY <1>5, <3>1
    <3>4. f[n] <= g[n]
      BY <2>3, <3>1
    <3>5. f[n + 1] <= g[n + 1]
      BY <2>2, <3>2, <3>3, <3>4
    <3> QED  BY <2>4, <3>5
  <2>5. CASE ~(n + 1 <= m)
    <3>1. (IF n <= m THEN n ELSE m) = m
      BY <2>5
    <3>2. f[m] \in Nat /\ f[m] <= g[n]
      BY <1>3, <2>3, <3>1
    <3>3. f[m] <= g[n + 1]
      BY <2>2, <3>2
    <3> QED  BY <2>5, <3>3
  <2> QED  BY <2>4, <2>5
<1>8. Nat \subseteq T
  <2> HIDE DEF T
  <2> QED  BY <1>6, <1>7, NatSetInduction
<1>9. f[m] <= g[k]
  <2>1. f[IF k <= m THEN k ELSE m] <= g[k]
    BY <1>8
  <2>2. (IF k <= m THEN k ELSE m) = m
    OBVIOUS
  <2> QED  BY <2>1, <2>2
<1> QED  BY <1>1, <1>2, <1>3, <1>9

-----------------------------------------------------------------------------
(* The counters                                                            *)

\* A row is numbered from 1.
LEMMA RowIs ==
  ASSUME NEW s, IsRow(s)
  PROVE  Len(s) \in Nat /\ DOMAIN s = 1..Len(s)
  BY DEF IsRow

\* Appending to a row, and taking its first element off
LEMMA AppendIs ==
  ASSUME NEW s, IsRow(s), NEW x
  PROVE  /\ IsRow(Append(s, x)) /\ Len(Append(s, x)) = Len(s) + 1
         /\ \A i \in 1..Len(s) : Append(s, x)[i] = s[i]
         /\ Append(s, x)[Len(s) + 1] = x
<1> DEFINE S == {s[i] : i \in DOMAIN s} \cup {x}
           t == Append(s, x)
<1>1. s \in Seq(S)
  <2>1. Len(s) \in Nat /\ s \in [1..Len(s) -> {s[i] : i \in DOMAIN s}]
    BY DEF IsRow
  <2>2. s \in [1..Len(s) -> S]
    BY <2>1
  <2> HIDE DEF S
  <2> QED  BY <2>1, <2>2
<1>2. /\ t \in Seq(S) /\ Len(t) = Len(s) + 1
      /\ \A i \in 1..Len(s) : t[i] = s[i]
      /\ t[Len(s) + 1] = x
  <2>1. x \in S
    OBVIOUS
  <2> HIDE DEF S
  <2> QED  BY <1>1, <2>1
<1>3. IsRow(t)
  <2>1. Len(t) \in Nat /\ DOMAIN t = 1..Len(t) /\ t = [i \in 1..Len(t) |-> t[i]]
    <3> HIDE DEF S, t
    <3> QED  BY <1>2
  <2> HIDE DEF t, S
  <2>2. t \in [1..Len(t) -> {t[i] : i \in DOMAIN t}]
    BY <2>1
  <2> QED  BY <2>1, <2>2 DEF IsRow
<1> QED  BY <1>2, <1>3

LEMMA TailIs ==
  ASSUME NEW s, IsRow(s), s # <<>>
  PROVE  /\ IsRow(Tail(s)) /\ Len(s) \in Nat \ {0} /\ Len(Tail(s)) = Len(s) - 1
         /\ Head(s) = s[1]
         /\ \A i \in 1..(Len(s) - 1) : Tail(s)[i] = s[i + 1]
<1> DEFINE S == {s[i] : i \in DOMAIN s}
           t == Tail(s)
<1>1. s \in Seq(S)
  BY DEF IsRow
<1>2. /\ t \in Seq(S) /\ Len(s) \in Nat \ {0} /\ Len(t) = Len(s) - 1 /\ Head(s) = s[1]
      /\ \A i \in 1..(Len(s) - 1) : t[i] = s[i + 1]
  <2> HIDE DEF S
  <2> QED  BY <1>1
<1>3. IsRow(t)
  <2>1. Len(t) \in Nat /\ DOMAIN t = 1..Len(t) /\ t = [i \in 1..Len(t) |-> t[i]]
    <3> HIDE DEF S, t
    <3> QED  BY <1>2
  <2> HIDE DEF t, S
  <2>2. t \in [1..Len(t) -> {t[i] : i \in DOMAIN t}]
    BY <2>1
  <2> QED  BY <2>1, <2>2 DEF IsRow
<1> QED  BY <1>2, <1>3

\* A function on 1..n is a row.
LEMMA FunctionIsRow ==
  ASSUME NEW n \in Nat, NEW s, DOMAIN s = 1..n, s = [i \in 1..n |-> s[i]]
  PROVE  IsRow(s) /\ Len(s) = n
<1>1. s \in [1..n -> {s[i] : i \in DOMAIN s}]
  OBVIOUS
<1> QED  BY <1>1 DEF IsRow

\* No step takes counters away or makes one count less; only the opening of the
\* counters adds one.
Grown ==
  /\ Len(counters) <= Len(counters')
  /\ \A i \in 1..Len(counters) :
       counters'[i].el = counters[i].el /\ counters[i].count <= counters'[i].count
  /\ Len(counters) # Len(counters') => pc = "open"

LEMMA CountersStep == CountersInv /\ [Next]_vars => CountersInv' /\ Grown
<1> SUFFICES ASSUME CountersInv, [Next]_vars PROVE CountersInv' /\ Grown
  OBVIOUS
<1>0. Len(counters) \in Nat /\ DOMAIN counters = 1..Len(counters)
  BY RowIs DEF CountersInv
<1> USE DEF BeforeSetup
<1>1. ASSUME UNCHANGED counters, pc' \in BeforeSetup => pc \in BeforeSetup
      PROVE  CountersInv' /\ Grown
  <2>1. CountersInv'
    <3>1. IsRow(counters')
      BY <1>1 DEF CountersInv
    <3> QED  BY <1>1, <3>1 DEF CountersInv
  <2>2. \A i \in 1..Len(counters) : counters[i].count \in Nat
    BY <1>0 DEF CountersInv
  <2>3. Grown
    BY <1>0, <1>1, <2>2 DEF Grown
  <2> QED  BY <2>1, <2>3
<1>2. CASE main \/ process_args \/ Fork \/ StartApp \/ setup
  BY <1>1, <1>2 DEF main, process_args, Fork, StartApp, setup
<1>3. CASE perf_event_open
  <2>1. CASE UNCHANGED counters
    BY <1>1, <1>3, <2>1 DEF perf_event_open
  <2>2. CASE ~UNCHANGED counters
    <3> DEFINE new == [el |-> Head(todo).el, ev |-> Head(todo).ev,
                       enabled |-> runmode # "start_app", count |-> 0]
    <3>1. counters' = Append(counters, new) /\ pc = "open" /\ pc' \in {"unblock", "open"}
      BY <1>3, <2>2 DEF perf_event_open
    <3>2. DOMAIN new = {"el", "ev", "enabled", "count"} /\ new.count = 0
      OBVIOUS
    <3> HIDE DEF new
    <3>3. /\ IsRow(counters') /\ Len(counters') = Len(counters) + 1
          /\ \A i \in 1..Len(counters) : counters'[i] = counters[i]
          /\ counters'[Len(counters) + 1] = new
      BY <3>1, AppendIs DEF CountersInv
    <3>4. DOMAIN counters' = 1..(Len(counters) + 1)
      BY <3>3, RowIs
    <3>5. \A i \in 1..(Len(counters) + 1) : i \in 1..Len(counters) \/ i = Len(counters) + 1
      BY <1>0
    <3>6. CountersInv'
      BY <1>0, <3>1, <3>2, <3>3, <3>4, <3>5 DEF CountersInv
    <3>7. Grown
      BY <1>0, <3>1, <3>3 DEF Grown, CountersInv
    <3> QED  BY <3>6, <3>7
  <2> QED  BY <2>1, <2>2
<1>4. CASE AppExec
  <2>1. CASE UNCHANGED counters
    BY <1>1, <1>4, <2>1 DEF AppExec
  <2>2. CASE counters' = [i \in DOMAIN counters |-> [counters[i] EXCEPT !.enabled = TRUE]]
    <3>1. DOMAIN counters' = 1..Len(counters) /\ counters' = [i \in 1..Len(counters) |-> counters'[i]]
      BY <1>0, <2>2
    <3>2. IsRow(counters') /\ Len(counters') = Len(counters)
      BY <1>0, <3>1, FunctionIsRow
    <3>3. \A i \in 1..Len(counters) :
            /\ DOMAIN counters'[i] = {"el", "ev", "enabled", "count"}
            /\ counters'[i].count = counters[i].count /\ counters'[i].el = counters[i].el
            /\ counters[i].count \in Nat
      BY <1>0, <2>2 DEF CountersInv
    <3>4. pc' = pc /\ (pc \in BeforeSetup => counters = <<>> /\ Len(counters) = 0)
      BY <1>4 DEF AppExec, CountersInv
    <3>5. pc' \in BeforeSetup => counters' = <<>>
      BY <3>1, <3>4
    <3> QED  BY <1>0, <3>1, <3>2, <3>3, <3>5 DEF CountersInv, Grown
  <2> QED  BY <1>4, <2>1, <2>2 DEF AppExec
<1>5. CASE Unblock \/ DefaultSigint \/ InstallHandler \/ op_sig_stop
  BY <1>1, <1>5 DEF Unblock, DefaultSigint, InstallHandler, op_sig_stop
<1>6. CASE StartInterval \/ EndSleep \/ CheckApp \/ wait
  BY <1>1, <1>6 DEF StartInterval, EndSleep, CheckApp, wait
<1>7. CASE ReadCounters
  BY <1>1, <1>7 DEF ReadCounters
<1>8. CASE Display
  BY <1>1, <1>8 DEF Display
<1>9. CASE Final \/ Failed \/ AppReady \/ AppExit \/ SendSigint
  BY <1>1, <1>9 DEF Final, Failed, AppReady, AppExit, SendSigint
<1>10. ASSUME NEW t \in Tasks, TaskExit(t) PROVE CountersInv' /\ Grown
  BY <1>1, <1>10 DEF TaskExit
<1>11. ASSUME NEW c \in Cpus, Offline(c) PROVE CountersInv' /\ Grown
  BY <1>1, <1>11 DEF Offline
<1>12. ASSUME NEW k \in Lines, Count(k) PROVE CountersInv' /\ Grown
  <2>1. k \in DOMAIN counters /\ counters' = [counters EXCEPT ![k].count = @ + 1]
    BY <1>12 DEF Count
  <2>2. DOMAIN counters' = 1..Len(counters) /\ counters' = [i \in 1..Len(counters) |-> counters'[i]]
    BY <1>0, <2>1
  <2>3. IsRow(counters') /\ Len(counters') = Len(counters)
    BY <1>0, <2>2, FunctionIsRow
  <2>4. \A i \in 1..Len(counters) :
          /\ DOMAIN counters'[i] = {"el", "ev", "enabled", "count"}
          /\ counters'[i].count \in {counters[i].count, counters[i].count + 1}
          /\ counters'[i].el = counters[i].el
          /\ counters[i].count \in Nat
    BY <1>0, <2>1 DEF CountersInv
  <2>5. pc' = pc /\ pc \notin BeforeSetup
    BY <1>12, <2>1 DEF Count, CountersInv
  <2>6. CountersInv'
    BY <1>0, <2>2, <2>3, <2>4, <2>5 DEF CountersInv
  <2>7. Grown
    BY <1>0, <2>3, <2>4 DEF Grown
  <2> QED  BY <2>6, <2>7
<1>13. CASE UNCHANGED vars
  BY <1>1, <1>13 DEF vars
<1>14. CASE AppFails \/ PipeFails \/ ReadFails
  BY <1>1, <1>14 DEF AppFails, PipeFails, ReadFails
<1>15. ASSUME NEW k \in Lines, LineFails(k) PROVE CountersInv' /\ Grown
  BY <1>1, <1>15 DEF LineFails
<1> QED
  BY <1>2, <1>3, <1>4, <1>5, <1>6, <1>7, <1>8, <1>9, <1>10, <1>11, <1>12, <1>13, <1>14, <1>15
     DEF Next, Parent

-----------------------------------------------------------------------------
(* What is displayed                                                       *)

LEMMA LinesAreNat == Lines \subseteq Nat
<1>1. IsFiniteSet({App} \cup Tasks \cup Cpus)
  BY OcountAssumption, FS_Union, FS_Singleton
<1>2. Cardinality(Elements) \in Nat
  BY <1>1, FS_CardinalityType DEF Elements
<1>3. NrEvents * Cardinality(Elements) \in Nat
  BY <1>2, OcountAssumption
<1> QED  BY <1>3 DEF Lines

\* The count of an event is a number, and never goes back.
LEMMA CountedStep ==
  ASSUME CountersInv, CountersInv', Grown, NEW i
  PROVE  Counted(i) \in Nat /\ Counted(i)' \in Nat /\ Counted(i) <= Counted(i)'
<1>1. Len(counters) \in Nat /\ Len(counters') \in Nat
  BY RowIs DEF CountersInv
<1>2. Counts(counters, Len(counters)) /\ Counts(counters', Len(counters'))
  BY RowIs DEF Counts, CountersInv
<1>3. /\ Len(counters) <= Len(counters')
      /\ \A n \in 1..Len(counters) : counters[n].count <= counters'[n].count
  BY DEF Grown
<1>4. /\ CountedIn(counters, i, Len(counters)) \in Nat
      /\ CountedIn(counters', i, Len(counters')) \in Nat
      /\ CountedIn(counters, i, Len(counters)) <= CountedIn(counters', i, Len(counters'))
  BY <1>1, <1>2, <1>3, CountedGrows
<1> QED  BY <1>4 DEF Counted

LEMMA ShownInit == Init => CountersInv /\ ShownInv
<1> SUFFICES ASSUME Init PROVE CountersInv /\ ShownInv
  OBVIOUS
<1>1. counters = <<>> /\ pc = "main" /\ accum = Zero /\ prev = Zero /\ printed = Zero
  BY DEF Init
<1>2. CountersInv
  <2>1. IsRow(counters) /\ DOMAIN counters = {}
    BY <1>1 DEF IsRow
  <2> QED  BY <1>1, <2>1 DEF CountersInv
<1>3. \A i \in Lines : accum[i] = 0 /\ prev[i] = 0 /\ printed[i] = 0
  BY <1>1 DEF Zero
<1>4. ASSUME NEW i \in Lines PROVE LineShown(i)
  <2>1. Len(counters) = 0 /\ DOMAIN counters = {}
    BY <1>1
  <2>2. Counts(counters, 0)
    BY DEF Counts
  <2>3. Counted(i) \in Nat
    BY <2>1, <2>2, CountedGrows DEF Counted
  <2> QED  BY <1>1, <1>3, <1>4, <2>1, <2>3 DEF LineShown
<1> QED  BY <1>1, <1>2, <1>4 DEF ShownInv, Zero

\* What was displayed holds on while the counters count.
LEMMA ShownKept ==
  ASSUME CountersInv, CountersInv', Grown, ShownInv, UNCHANGED <<opts, accum, prev, printed>>,
         pc = "print" <=> pc' = "print", pc = "ended" => pc' = "ended",
         pc' \in BeforeSetup \cup {"open"} => pc \in BeforeSetup \cup {"open"}
  PROVE  ShownInv'
<1> SUFFICES ASSUME NEW i \in Lines PROVE LineShown(i)'
  BY DEF ShownInv
<1>1. LineShown(i) /\ printed[i] \in Int /\ prev[i] \in Int /\ accum[i] \in Int
  BY DEF ShownInv
<1>2. Counted(i) \in Nat /\ Counted(i)' \in Nat /\ Counted(i) <= Counted(i)'
  BY CountedStep
<1>3. ASSUME use_separation, i \in DOMAIN counters' PROVE printed[i] <= counters'[i].count
  <2>1. Len(counters) \in Nat /\ DOMAIN counters = 1..Len(counters)
    BY RowIs DEF CountersInv
  <2>2. Len(counters') \in Nat /\ i \in 1..Len(counters') /\ counters'[i].count \in Nat
    BY <1>3, RowIs DEF CountersInv
  <2>3. CASE i \in 1..Len(counters)
    <3>1. printed[i] <= counters[i].count /\ counters[i].count \in Nat
      BY <1>1, <1>3, <2>1, <2>3 DEF LineShown, CountersInv
    <3>2. counters[i].count <= counters'[i].count
      BY <2>3 DEF Grown
    <3> QED  BY <1>1, <2>2, <3>1, <3>2
  <2>4. CASE i \notin 1..Len(counters)
    <3>1. Len(counters) # Len(counters')
      BY <2>2, <2>4
    <3>2. pc = "open"
      BY <3>1 DEF Grown
    <3>3. printed[i] = 0
      BY <3>2 DEF ShownInv, Zero
    <3> QED  BY <2>2, <3>3
  <2> QED  BY <2>3, <2>4
<1>4. /\ with_time_interval' = with_time_interval /\ use_separation' = use_separation
      /\ printed' = printed /\ prev' = prev /\ accum' = accum
  BY DEF with_time_interval, use_separation
<1>5. ASSUME with_time_interval, ~use_separation, i <= NrEvents PROVE prev[i] <= Counted(i)'
  <2>1. prev[i] <= Counted(i)
    BY <1>1, <1>5 DEF LineShown
  <2> QED  BY <1>1, <1>2, <2>1
<1>6. ASSUME ~with_time_interval, ~use_separation, i <= NrEvents
      PROVE  printed[i] <= Counted(i)' /\ (pc = "print" => accum[i] <= Counted(i)')
  <2>1. printed[i] <= Counted(i) /\ (pc = "print" => accum[i] <= Counted(i))
    BY <1>1, <1>6 DEF LineShown
  <2> QED  BY <1>1, <1>2, <2>1
<1> QED  BY <1>1, <1>3, <1>4, <1>5, <1>6 DEF LineShown

\* The counters are read: the sums are what was counted, and for an interval
\* what was counted since the last one.
LEMMA ReadKeeps ==
  ASSUME CountersInv, CountersInv', Grown, ShownInv, ReadCounters
  PROVE  ShownInv'
<1> DEFINE base == IF with_time_interval THEN Zero ELSE accum
           sums == [i \in Lines |-> IF i <= NrEvents /\ ~use_separation
                                    THEN base[i] + Counted(i) ELSE base[i]]
<1>1. /\ pc = "read" /\ pc' = "print" /\ UNCHANGED <<opts, counters, printed>>
      /\ with_time_interval' = with_time_interval /\ use_separation' = use_separation
  BY DEF ReadCounters, with_time_interval, use_separation
<1>2. Lines \subseteq Nat /\ NrEvents \in Nat
  BY LinesAreNat, OcountAssumption
<1>3. \A i \in Lines : Counted(i) \in Nat
  BY CountedStep
<1>4. \A i \in Lines : base[i] = 0
  BY <1>1 DEF Zero, ShownInv, LineShown
<1>5. \A i \in Lines : sums[i] = IF i <= NrEvents /\ ~use_separation THEN Counted(i) ELSE 0
  <2> HIDE DEF base
  <2> QED  BY <1>3, <1>4
<1>6. sums \in [Lines -> Int]
  <2>1. sums = [i \in Lines |-> sums[i]]
    OBVIOUS
  <2> HIDE DEF sums
  <2> QED  BY <1>3, <1>5, <2>1
<1>7. \A i \in Lines : Counted(i)' = Counted(i)
  BY <1>1 DEF Counted
<1>8. CASE with_time_interval /\ ~use_separation
  <2>1. /\ prev' = [i \in Lines |-> IF i <= NrEvents THEN sums[i] ELSE prev[i]]
        /\ accum' = [i \in Lines |-> IF i <= NrEvents THEN sums[i] - prev[i] ELSE sums[i]]
    BY <1>8, Zenon DEF ReadCounters
  <2> HIDE DEF sums
  <2>2. prev' \in [Lines -> Int] /\ accum' \in [Lines -> Int]
    BY <1>6, <2>1 DEF ShownInv
  <2>3. ASSUME NEW i \in Lines PROVE LineShown(i)'
    <3>1. printed[i] \in Int /\ prev[i] \in Int /\ printed[i] = prev[i] /\ Counted(i) \in Nat
      BY <1>1, <1>3, <1>8 DEF ShownInv, LineShown
    <3>2. CASE i <= NrEvents
      <4>1. prev'[i] = Counted(i) /\ accum'[i] = Counted(i) - prev[i]
        BY <1>5, <1>8, <2>1, <3>2
      <4>2. printed'[i] + accum'[i] = prev'[i]
        BY <1>1, <3>1, <4>1
      <4> QED  BY <1>1, <1>7, <1>8, <3>1, <3>2, <4>1, <4>2 DEF LineShown
    <3>3. CASE ~(i <= NrEvents)
      <4>1. prev'[i] = prev[i]
        BY <2>1, <3>3
      <4> QED  BY <1>1, <1>8, <3>1, <3>3, <4>1 DEF LineShown
    <3> QED  BY <3>2, <3>3
  <2> QED  BY <1>1, <2>2, <2>3 DEF ShownInv, BeforeSetup
<1>9. CASE ~(with_time_interval /\ ~use_separation)
  <2>1. accum' = sums /\ prev' = prev
    BY <1>9, Zenon DEF ReadCounters
  <2> HIDE DEF sums
  <2>2. ASSUME NEW i \in Lines PROVE LineShown(i)'
    <3>1. LineShown(i) /\ printed[i] \in Int /\ Counted(i) \in Nat
      BY <1>3 DEF ShownInv
    <3>2. accum'[i] = IF i <= NrEvents /\ ~use_separation THEN Counted(i) ELSE 0
      BY <1>5, <2>1
    <3> QED  BY <1>1, <1>7, <1>9, <2>1, <3>1, <3>2 DEF LineShown
  <2> QED  BY <1>1, <1>6, <2>1, <2>2 DEF ShownInv, BeforeSetup
<1> QED  BY <1>8, <1>9

\* The lines are displayed.
LEMMA DisplayKeeps ==
  ASSUME CountersInv, ShownInv, Display
  PROVE  ShownInv'
<1>1. /\ pc = "print" /\ pc' \in {"ended", "check", "interval"} /\ UNCHANGED <<opts, counters, accum>>
      /\ with_time_interval' = with_time_interval /\ use_separation' = use_separation
      /\ ~with_time_interval => pc' = "ended"
      /\ printed' = [i \in Lines |-> printed[i] + output_lines[i]]
      /\ prev' = IF use_separation /\ with_time_interval
                 THEN [i \in Lines |-> IF i \in DOMAIN counters THEN counters[i].count ELSE prev[i]]
                 ELSE prev
  BY Zenon DEF Display, with_time_interval, use_separation
<1>2. /\ \A i \in Lines : accum[i] \in Int /\ prev[i] \in Int /\ printed[i] \in Int
      /\ \A i \in DOMAIN counters : counters[i].count \in Nat
  BY DEF ShownInv, CountersInv
<1>3. ASSUME NEW i \in Lines
      PROVE  output_lines[i] = IF use_separation THEN CounterLine(i)
                               ELSE IF i <= NrEvents THEN accum[i] ELSE 0
  BY DEF output_lines
<1>4. ASSUME NEW i \in Lines PROVE output_lines[i] \in Int
  BY <1>2, <1>3 DEF CounterLine
<1>5. printed' \in [Lines -> Int]
  BY <1>1, <1>2, <1>4
<1>6. prev' \in [Lines -> Int]
  BY <1>1, <1>2 DEF ShownInv
<1>7. ASSUME NEW i \in Lines PROVE LineShown(i)'
  <2>1. printed'[i] = printed[i] + output_lines[i]
    BY <1>1
  <2>2. LineShown(i)
    BY DEF ShownInv
  <2>3. Counted(i)' = Counted(i)
    BY <1>1 DEF Counted
  <2>4. CASE use_separation /\ with_time_interval
    <3>1. printed[i] = prev[i]
      BY <2>2, <2>4 DEF LineShown
    <3>2. CASE i \in DOMAIN counters
      <4>1. output_lines[i] = counters[i].count - prev[i] /\ prev'[i] = counters[i].count
        BY <1>1, <1>3, <2>4, <3>2 DEF CounterLine
      <4>2. printed'[i] = counters[i].count
        BY <1>2, <2>1, <3>1, <3>2, <4>1
      <4> QED  BY <1>1, <1>2, <2>4, <3>2, <4>1, <4>2 DEF LineShown
    <3>3. CASE i \notin DOMAIN counters
      <4>1. output_lines[i] = 0 /\ prev'[i] = prev[i]
        BY <1>1, <1>3, <2>4, <3>3 DEF CounterLine
      <4>2. printed'[i] = prev'[i]
        BY <1>2, <2>1, <3>1, <4>1
      <4> QED  BY <1>1, <2>4, <3>3, <4>2 DEF LineShown
    <3> QED  BY <3>2, <3>3
  <2>5. CASE use_separation /\ ~with_time_interval
    <3>1. printed[i] = 0
      BY <1>1, <2>2, <2>5 DEF LineShown
    <3>2. i \in DOMAIN counters => printed'[i] = counters[i].count
      BY <1>2, <1>3, <2>1, <2>5, <3>1 DEF CounterLine
    <3> QED  BY <1>1, <1>2, <2>5, <3>2 DEF LineShown
  <2>6. CASE ~use_separation /\ with_time_interval
    <3>1. prev' = prev
      BY <1>1, <2>6
    <3>2. CASE i <= NrEvents
      <4>1. printed[i] + accum[i] = prev[i] /\ prev[i] <= Counted(i)
        BY <1>1, <2>2, <2>6, <3>2 DEF LineShown
      <4>2. printed'[i] = prev'[i]
        BY <1>2, <1>3, <2>1, <2>6, <3>1, <3>2, <4>1
      <4> QED  BY <1>1, <2>3, <2>6, <3>1, <3>2, <4>1, <4>2 DEF LineShown
    <3>3. CASE ~(i <= NrEvents)
      <4>1. printed[i] = prev[i]
        BY <2>2, <2>6, <3>3 DEF LineShown
      <4>2. printed'[i] = prev'[i]
        BY <1>2, <1>3, <2>1, <2>6, <3>1, <3>3, <4>1
      <4> QED  BY <1>1, <2>6, <3>3, <4>2 DEF LineShown
    <3> QED  BY <3>2, <3>3
  <2>7. CASE ~use_separation /\ ~with_time_interval
    <3>1. printed[i] = 0
      BY <1>1, <2>2, <2>7 DEF LineShown
    <3>2. i <= NrEvents => printed'[i] <= Counted(i)
      <4>1. i <= NrEvents => accum[i] <= Counted(i) /\ printed'[i] = accum[i]
        BY <1>1, <1>2, <1>3, <2>1, <2>2, <2>7, <3>1 DEF LineShown
      <4> QED  BY <4>1
    <3> QED  BY <1>1, <2>3, <2>7, <3>2 DEF LineShown
  <2> QED  BY <2>4, <2>5, <2>6, <2>7
<1> QED  BY <1>1, <1>5, <1>6, <1>7 DEF ShownInv, BeforeSetup

\* A read that fails for line k leaves the lines before it displayed.
LEMMA LineFailsKeeps ==
  ASSUME CountersInv, ShownInv, NEW k \in Lines, LineFails(k)
  PROVE  ShownInv'
<1>1. /\ pc = "print" /\ pc' = "ended" /\ UNCHANGED <<opts, counters, accum>> /\ use_separation
      /\ with_time_interval' = with_time_interval /\ use_separation' = use_separation
      /\ printed' = [i \in Lines |-> IF i < k THEN printed[i] + output_lines[i] ELSE printed[i]]
      /\ prev' = IF with_time_interval
                 THEN [i \in Lines |-> IF i \in DOMAIN counters /\ i < k THEN counters[i].count ELSE prev[i]]
                 ELSE prev
  BY Zenon DEF LineFails, with_time_interval, use_separation
<1>2. /\ \A i \in Lines : accum[i] \in Int /\ prev[i] \in Int /\ printed[i] \in Int
      /\ \A i \in DOMAIN counters : counters[i].count \in Nat
  BY DEF ShownInv, CountersInv
<1>3. ASSUME NEW i \in Lines PROVE output_lines[i] = CounterLine(i)
  BY <1>1 DEF output_lines
<1>4. ASSUME NEW i \in Lines PROVE output_lines[i] \in Int
  BY <1>2, <1>3 DEF CounterLine
<1>5. printed' \in [Lines -> Int]
  BY <1>1, <1>2, <1>4
<1>6. prev' \in [Lines -> Int]
  BY <1>1, <1>2 DEF ShownInv
<1>7. ASSUME NEW i \in Lines PROVE LineShown(i)'
  <2>1. LineShown(i)
    BY DEF ShownInv
  <2>2. CASE with_time_interval
    <3>1. printed[i] = prev[i] /\ (i \in DOMAIN counters => printed[i] <= counters[i].count)
      BY <1>1, <2>1, <2>2 DEF LineShown
    <3>2. CASE i < k /\ i \in DOMAIN counters
      <4>1. output_lines[i] = counters[i].count - prev[i] /\ prev'[i] = counters[i].count
        BY <1>1, <1>3, <2>2, <3>2 DEF CounterLine
      <4>2. printed'[i] = counters[i].count
        BY <1>1, <1>2, <3>1, <3>2, <4>1
      <4> QED  BY <1>1, <1>2, <2>2, <3>2, <4>1, <4>2 DEF LineShown
    <3>3. CASE ~(i < k /\ i \in DOMAIN counters)
      <4>1. prev'[i] = prev[i]
        BY <1>1, <2>2, <3>3
      <4>2. i \notin DOMAIN counters => output_lines[i] = 0
        BY <1>3 DEF CounterLine
      <4>3. printed'[i] = printed[i]
        BY <1>1, <1>2, <3>3, <4>2
      <4> QED  BY <1>1, <2>2, <3>1, <4>1, <4>3 DEF LineShown
    <3> QED  BY <3>2, <3>3
  <2>3. CASE ~with_time_interval
    <3>1. printed[i] = 0
      BY <1>1, <2>1, <2>3 DEF LineShown
    <3>2. i \in DOMAIN counters => printed'[i] \in {0, counters[i].count}
      BY <1>1, <1>2, <1>3, <2>3, <3>1 DEF CounterLine
    <3>3. i \in DOMAIN counters => printed'[i] <= counters[i].count
      BY <1>2, <3>2
    <3> QED  BY <1>1, <2>3, <3>3 DEF LineShown
  <2> QED  BY <2>2, <2>3
<1> QED  BY <1>1, <1>5, <1>6, <1>7 DEF ShownInv, BeforeSetup

LEMMA ShownStep == CountersInv /\ ShownInv /\ [Next]_vars => ShownInv'
<1> SUFFICES ASSUME CountersInv, ShownInv, [Next]_vars PROVE ShownInv'
  OBVIOUS
<1>0. CountersInv' /\ Grown
  BY CountersStep
<1> USE DEF BeforeSetup, outv
<1>1. CASE main \/ process_args \/ Fork \/ StartApp
  BY <1>0, <1>1, ShownKept DEF main, process_args, Fork, StartApp
<1>2. CASE setup
  BY <1>0, <1>2, ShownKept DEF setup
<1>3. CASE perf_event_open
  BY <1>0, <1>3, ShownKept DEF perf_event_open
<1>4. CASE Unblock \/ DefaultSigint \/ InstallHandler
  BY <1>0, <1>4, ShownKept DEF Unblock, DefaultSigint, InstallHandler
<1>5. CASE op_sig_stop
  BY <1>0, <1>5, ShownKept DEF op_sig_stop
<1>6. CASE StartInterval \/ EndSleep
  BY <1>0, <1>6, ShownKept DEF StartInterval, EndSleep
<1>7. CASE CheckApp \/ wait
  BY <1>0, <1>7, ShownKept DEF CheckApp, wait
<1>8. CASE ReadCounters
  BY <1>0, <1>8, ReadKeeps
<1>9. CASE Display
  BY <1>9, DisplayKeeps
<1>10. CASE Final \/ Failed
  BY <1>0, <1>10, ShownKept DEF Final, Failed
<1>11. CASE AppReady \/ AppExec \/ AppExit \/ SendSigint
  BY <1>0, <1>11, ShownKept DEF AppReady, AppExec, AppExit, SendSigint
<1>12. ASSUME NEW t \in Tasks, TaskExit(t) PROVE ShownInv'
  BY <1>0, <1>12, ShownKept DEF TaskExit
<1>13. ASSUME NEW c \in Cpus, Offline(c) PROVE ShownInv'
  BY <1>0, <1>13, ShownKept DEF Offline
<1>14. ASSUME NEW k \in Lines, Count(k) PROVE ShownInv'
  BY <1>0, <1>14, ShownKept DEF Count
<1>15. CASE UNCHANGED vars
  BY <1>0, <1>15, ShownKept DEF vars
<1>16. CASE AppFails \/ PipeFails \/ ReadFails
  BY <1>0, <1>16, ShownKept DEF AppFails, PipeFails, ReadFails
<1>17. ASSUME NEW k \in Lines, LineFails(k) PROVE ShownInv'
  BY <1>17, LineFailsKeeps
<1> QED
  BY <1>1, <1>2, <1>3, <1>4, <1>5, <1>6, <1>7, <1>8, <1>9, <1>10, <1>11, <1>12, <1>13, <1>14,
     <1>15, <1>16, <1>17
     DEF Next, Parent

-----------------------------------------------------------------------------
(* The CPUs                                                                *)

\* Nth numbers the elements of a finite set of integers: each has its place.
LEMMA NthIs ==
  ASSUME NEW S, IsFiniteSet(S), S \subseteq Int
  PROVE  /\ Cardinality(S) \in Nat
         /\ \A k \in 1..Cardinality(S) : Nth(S, k) \in S
         /\ \A j, k \in 1..Cardinality(S) : Nth(S, j) = Nth(S, k) => j = k
         /\ \A x \in S : \E k \in 1..Cardinality(S) : Nth(S, k) = x
<1> DEFINE c == Cardinality(S)
           Below(x) == {y \in S : y < x}
           rank == [x \in S |-> Cardinality(Below(x))]
<1>1. c \in Nat
  BY FS_CardinalityType
<1>2. ASSUME NEW x \in S
      PROVE  IsFiniteSet(Below(x)) /\ Cardinality(Below(x)) \in Nat
  <2>1. Below(x) \in SUBSET S
    OBVIOUS
  <2> HIDE DEF Below
  <2> QED  BY <2>1, FS_Subset, FS_CardinalityType
<1>3. ASSUME NEW x \in S, NEW T, IsFiniteSet(T), Below(x) \subseteq T, x \in T
      PROVE  Cardinality(Below(x)) < Cardinality(T)
  <2>1. x \notin Below(x)
    OBVIOUS
  <2> HIDE DEF Below
  <2>2. Below(x) \in SUBSET T /\ Below(x) # T
    BY <1>3, <2>1
  <2>3. Cardinality(Below(x)) <= Cardinality(T) /\ Cardinality(Below(x)) # Cardinality(T)
    BY <1>3, <2>2, FS_Subset
  <2>4. Cardinality(T) \in Nat
    BY <1>3, FS_CardinalityType
  <2> QED  BY <1>2, <2>3, <2>4
<1>4. \A x \in S : Cardinality(Below(x)) \in 0..(c - 1)
  <2> SUFFICES ASSUME NEW x \in S PROVE Cardinality(Below(x)) \in 0..(c - 1)
    OBVIOUS
  <2>1. Below(x) \subseteq S
    OBVIOUS
  <2> HIDE DEF Below
  <2>2. Cardinality(Below(x)) < c
    BY <1>3, <2>1
  <2> QED  BY <1>1, <1>2, <2>2
<1>5. ASSUME NEW x \in S, NEW z \in S, x < z
      PROVE  Cardinality(Below(x)) < Cardinality(Below(z))
  <2>1. Below(x) \subseteq Below(z) /\ x \in Below(z)
    <3>1. x \in Int /\ z \in Int /\ \A y \in S : y \in Int
      OBVIOUS
    <3>2. \A y \in S : y < x => y < z
      BY <1>5, <3>1
    <3> QED  BY <1>5, <3>2
  <2> HIDE DEF Below
  <2> QED  BY <1>2, <1>3, <2>1
<1>6. \A x, z \in S : Cardinality(Below(x)) = Cardinality(Below(z)) => x = z
  <2> SUFFICES ASSUME NEW x \in S, NEW z \in S, Cardinality(Below(x)) = Cardinality(Below(z)), x # z
               PROVE  FALSE
    OBVIOUS
  <2>1. x < z \/ z < x
    OBVIOUS
  <2> HIDE DEF Below
  <2>2. Cardinality(Below(x)) \in Nat /\ Cardinality(Below(z)) \in Nat
    BY <1>2
  <2> QED  BY <1>5, <2>1, <2>2
<1>7. rank \in Injection(S, 0..(c - 1))
  <2> HIDE DEF Below
  <2>1. rank \in [S -> 0..(c - 1)]
    BY <1>4
  <2>2. \A x, z \in S : rank[x] = rank[z] => x = z
    BY <1>6
  <2> QED  BY <2>1, <2>2 DEF Injection, IsInjective
<1>8. rank \in Surjection(S, 0..(c - 1))
  <2>1. IsFiniteSet(0..(c - 1)) /\ Cardinality(0..(c - 1)) = c
    BY <1>1, FS_Interval
  <2> HIDE DEF rank
  <2> QED  BY <1>7, <2>1, FS_Injection DEF c
<1>9. \A r \in 0..(c - 1) : \E x \in S : Cardinality(Below(x)) = r
  <2>1. \A r \in 0..(c - 1) : \E x \in S : rank[x] = r
    <3> HIDE DEF rank
    <3> QED  BY <1>8 DEF Surjection
  <2> HIDE DEF Below
  <2> QED  BY <2>1
<1>10. ASSUME NEW k \in 1..c
       PROVE  Nth(S, k) \in S /\ Cardinality(Below(Nth(S, k))) = k - 1
  <2>1. k - 1 \in 0..(c - 1)
    BY <1>1
  <2>2. \E x \in S : Cardinality(Below(x)) = k - 1
    BY <1>9, <2>1
  <2>3. Nth(S, k) = CHOOSE x \in S : Cardinality(Below(x)) = k - 1
    BY DEF Nth
  <2> HIDE DEF Below
  <2> QED  BY <2>2, <2>3
<1>11. ASSUME NEW j \in 1..c, NEW k \in 1..c, Nth(S, j) = Nth(S, k) PROVE j = k
  <2>1. j - 1 = k - 1
    <3> HIDE DEF Below
    <3> QED  BY <1>10, <1>11
  <2> QED  BY <1>1, <2>1
<1>12. ASSUME NEW x \in S PROVE \E k \in 1..c : Nth(S, k) = x
  <2> DEFINE k == Cardinality(Below(x)) + 1
  <2>1. k \in 1..c /\ k - 1 = Cardinality(Below(x))
    <3> HIDE DEF Below
    <3> QED  BY <1>1, <1>4
  <2>2. Nth(S, k) \in S /\ Cardinality(Below(Nth(S, k))) = Cardinality(Below(x))
    <3> HIDE DEF Below, k
    <3> QED  BY <1>10, <2>1
  <2>3. Nth(S, k) = x
    <3> HIDE DEF Below, k
    <3> QED  BY <1>6, <2>2
  <2> QED  BY <2>1, <2>3
<1> HIDE DEF Below
<1> QED  BY <1>1, <1>10, <1>11, <1>12 DEF c

\* The available CPUs of a host are those that are online, or there are none:
\* as many different ones are found as there are online, and all that are found
\* are online.
LEMMA AvailableIs ==
  ASSUME NEW h, IsFiniteSet(h.online), h.dirs \in Seq(Nat),
         \A i, j \in DOMAIN h.dirs : h.dirs[i] = h.dirs[j] => i = j
  PROVE  LET A == op_get_available_cpus(h, Cardinality(h.online))
         IN A \subseteq Nat /\ A \in {{}, h.online}
<1> DEFINE c == Cardinality(h.online)
<1>1. c \in Nat
  BY FS_CardinalityType
<1>2. CASE ~Gaps(h)
  <2>1. op_get_available_cpus(h, c) = 0..(c - 1) /\ h.online = 0..(c - 1)
    BY <1>2 DEF op_get_available_cpus, Gaps
  <2>2. 0..(c - 1) \subseteq Nat
    BY <1>1
  <2> QED  BY <2>1, <2>2
<1>3. CASE Gaps(h)
  <2> DEFINE seen == {i \in DOMAIN h.dirs : h.dirs[i] \notin h.online_files \/ h.dirs[i] \in h.online}
             n == Cardinality(seen)
             Answer(x) == IF x \in h.online_files THEN x ELSE -1
             answers == [k \in 1..n |-> Answer(h.dirs[Nth(seen, k)])]
             calls == op_get_next_online_cpu(h)
             m == Min({c, Len(calls)})
             found == {calls[i] : i \in 1..m}
  <2>1. op_get_available_cpus(h, c) = IF -1 \in found THEN {} ELSE found
    BY <1>3 DEF op_get_available_cpus
  <2>2. /\ n \in Nat
        /\ \A k \in 1..n : Nth(seen, k) \in seen
        /\ \A j, k \in 1..n : Nth(seen, j) = Nth(seen, k) => j = k
    <3>1. Len(h.dirs) \in Nat /\ DOMAIN h.dirs = 1..Len(h.dirs)
      OBVIOUS
    <3>2. IsFiniteSet(1..Len(h.dirs)) /\ 1..Len(h.dirs) \subseteq Int
      BY <3>1, FS_Interval
    <3>3. seen \in SUBSET (1..Len(h.dirs))
      BY <3>1
    <3> HIDE DEF seen
    <3>4. IsFiniteSet(seen) /\ seen \subseteq Int
      BY <3>2, <3>3, FS_Subset
    <3> QED  BY <3>4, NthIs
  <2>3. calls = answers \o <<-1>>
    BY DEF op_get_next_online_cpu
  <2>4. Len(calls) = n + 1 /\ calls[n + 1] = -1 /\ \A k \in 1..n : calls[k] = Answer(h.dirs[Nth(seen, k)])
    <3> DEFINE S == {answers[k] : k \in 1..n} \cup {-1}
    <3>1. answers \in Seq(S) /\ Len(answers) = n
      <4>1. DOMAIN answers = 1..n /\ answers \in [1..n -> S]
        <5> HIDE DEF Answer, seen
        <5> QED  OBVIOUS
      <4> HIDE DEF S, answers, n
      <4> QED  BY <2>2, <4>1
    <3>2. <<-1>> \in Seq(S) /\ Len(<<-1>>) = 1 /\ <<-1>>[1] = -1
      <4>1. -1 \in S
        OBVIOUS
      <4> HIDE DEF S
      <4> QED  BY <4>1
    <3>3. /\ Len(calls) = n + 1
          /\ \A k \in 1..n : calls[k] = answers[k]
          /\ calls[n + 1] = -1
      <4> HIDE DEF S, answers, n, calls
      <4> QED  BY <2>2, <2>3, <3>1, <3>2
    <3>4. \A k \in 1..n : answers[k] = Answer(h.dirs[Nth(seen, k)])
      <4> HIDE DEF Answer, seen, n
      <4> QED  OBVIOUS
    <3> HIDE DEF Answer, seen, n, calls, answers, S
    <3> QED  BY <3>3, <3>4
  <2>5. m \in {c, n + 1} /\ m <= c /\ m <= n + 1
    <3> HIDE DEF calls, n, c
    <3>1. m = Min({c, n + 1})
      BY <2>4
    <3>2. c \in Nat /\ n + 1 \in Nat
      BY <1>1, <2>2
    <3> HIDE DEF m
    <3> QED  BY <3>1, <3>2 DEF Min
  <2>6. CASE -1 \in found
    BY <2>1, <2>6
  <2>7. CASE -1 \notin found
    <3>1. m = c /\ c <= n
      <4>1. m # n + 1
        <5> SUFFICES ASSUME m = n + 1 PROVE -1 \in found
          BY <2>7
        <5>1. n + 1 \in 1..m
          BY <2>2
        <5> HIDE DEF calls, n, m
        <5> QED  BY <2>4, <5>1
      <4> HIDE DEF calls, n, m, c
      <4> QED  BY <1>1, <2>2, <2>5, <4>1
    <3>2. ASSUME NEW k \in 1..c
          PROVE  /\ k \in 1..n /\ Nth(seen, k) \in DOMAIN h.dirs
                 /\ calls[k] = h.dirs[Nth(seen, k)] /\ calls[k] \in h.online /\ calls[k] \in Nat
      <4>1. k \in 1..n /\ calls[k] \in found
        <5> HIDE DEF calls, n, m, c
        <5> QED  BY <1>1, <2>2, <3>1
      <4>2. calls[k] = Answer(h.dirs[Nth(seen, k)]) /\ calls[k] # -1 /\ Nth(seen, k) \in seen
        <5> HIDE DEF calls, n, found, seen, Answer
        <5> QED  BY <2>2, <2>4, <2>7, <4>1
      <4>3. calls[k] = h.dirs[Nth(seen, k)] /\ h.dirs[Nth(seen, k)] \in h.online_files
        <5> HIDE DEF calls, n, found, seen
        <5> QED  BY <4>2
      <4>4. Nth(seen, k) \in DOMAIN h.dirs /\ (h.dirs[Nth(seen, k)] \notin h.online_files \/ h.dirs[Nth(seen, k)] \in h.online)
        <5> HIDE DEF calls, n, found, Answer
        <5> QED  BY <4>2
      <4> HIDE DEF calls, n, found, Answer, seen
      <4>5. h.dirs[Nth(seen, k)] \in Nat
        BY <4>4
      <4> QED  BY <4>1, <4>3, <4>4, <4>5
    <3> DEFINE f == [k \in 1..c |-> calls[k]]
    <3>3. f \in Injection(1..c, h.online)
      <4>1. f \in [1..c -> h.online]
        <5> HIDE DEF calls, c, seen, n
        <5> QED  BY <3>2
      <4>2. ASSUME NEW j \in 1..c, NEW k \in 1..c, f[j] = f[k] PROVE j = k
        <5>1. h.dirs[Nth(seen, j)] = h.dirs[Nth(seen, k)]
          <6> HIDE DEF calls, c, seen, n
          <6> QED  BY <3>2, <4>2
        <5> HIDE DEF calls, c, seen, n
        <5>2. Nth(seen, j) = Nth(seen, k)
          BY <3>2, <5>1
        <5> QED  BY <2>2, <3>2, <5>2
      <4> HIDE DEF f
      <4> QED  BY <4>1, <4>2 DEF Injection, IsInjective
    <3>4. f \in Surjection(1..c, h.online)
      <4>1. Cardinality(1..c) = c
        BY <1>1, FS_Interval
      <4> HIDE DEF f
      <4> QED  BY <3>3, <4>1, FS_Injection DEF c
    <3>5. found = h.online
      <4>1. \A x \in h.online : \E k \in 1..c : f[k] = x
        <5> HIDE DEF f
        <5> QED  BY <3>4 DEF Surjection
      <4>2. \A k \in 1..c : f[k] = calls[k] /\ calls[k] \in h.online
        <5> HIDE DEF calls, c, n, seen
        <5> QED  BY <3>2
      <4>3. found = {calls[k] : k \in 1..c}
        <5> HIDE DEF calls, c, n, m
        <5> QED  BY <3>1
      <4> HIDE DEF calls, c, f, found
      <4> QED  BY <4>1, <4>2, <4>3
    <3>6. h.online \subseteq Nat
      <4>1. \A k \in 1..c : calls[k] \in Nat
        <5> HIDE DEF calls, c, n, seen
        <5> QED  BY <3>2
      <4>2. found = {calls[k] : k \in 1..c}
        <5> HIDE DEF calls, c, n, m
        <5> QED  BY <3>1
      <4> HIDE DEF calls, c, found
      <4> QED  BY <3>5, <4>1, <4>2
    <3> HIDE DEF found
    <3> QED  BY <2>1, <2>7, <3>5, <3>6
  <2> QED  BY <2>6, <2>7
<1> QED  BY <1>2, <1>3

\* What is to be opened, for the whole system: the counters of every CPU that
\* is online, or nothing.
LEMMA SetupCovers ==
  ASSUME StartInv, setup, runmode = "syswide", pc' = "open"
  PROVE  IsRow(todo') /\ \A x \in online : ToOpen(x)'
<1> DEFINE S == ToCount
           c == Cardinality(S)
           els == Ascending(S)
           N == NrEvents
<1>0. N \in Nat \ {0}
  BY OcountAssumption
<1>1. /\ host.online = online /\ host.dirs \in Seq(Nat)
      /\ \A i, j \in DOMAIN host.dirs : host.dirs[i] = host.dirs[j] => i = j
      /\ IsFiniteSet(online)
  <2>1. /\ {"online", "online_files", "dirs"} \subseteq DOMAIN Hosts[machine]
        /\ Hosts[machine].online \subseteq Cpus /\ Hosts[machine].dirs \in Seq(Nat)
        /\ \A i, j \in DOMAIN Hosts[machine].dirs :
             Hosts[machine].dirs[i] = Hosts[machine].dirs[j] => i = j
        /\ online \in SUBSET Cpus
    BY OcountAssumption DEF StartInv
  <2>2. host.online = online /\ host.dirs = Hosts[machine].dirs
    BY <2>1 DEF host
  <2>3. IsFiniteSet(online)
    BY <2>1, OcountAssumption, FS_Subset
  <2> QED  BY <2>1, <2>2, <2>3
<1>2. S \subseteq Nat /\ S \in {{}, online}
  <2>1. S = op_get_available_cpus(host, Cardinality(online))
    BY DEF ToCount, CpusToCount, setup
  <2>2. /\ op_get_available_cpus(host, Cardinality(host.online)) \subseteq Nat
        /\ op_get_available_cpus(host, Cardinality(host.online)) \in {{}, host.online}
    BY <1>1, AvailableIs
  <2> QED  BY <1>1, <2>1, <2>2
<1>3. /\ pc' = IF todo' = <<>> THEN "failed" ELSE "open"
      /\ todo' = [k \in 1..(Len(els) * N) |->
                    [el |-> els[1 + ((k - 1) \div N)], ev |-> 1 + ((k - 1) % N)]]
  BY Zenon DEF setup
<1>4. /\ c \in Nat /\ IsFiniteSet(S)
      /\ \A x \in S : \E k \in 1..c : Nth(S, k) = x
  <2> HIDE DEF S
  <2>1. S \subseteq Int
    BY <1>2
  <2>2. IsFiniteSet(S)
    BY <1>1, <1>2, FS_EmptySet, Zenon
  <2> QED  BY <2>1, <2>2, NthIs
<1>5. els = [k \in 1..c |-> Nth(S, k)]
  BY DEF Ascending
<1> HIDE DEF S
<1>6. Len(els) = c
  <2>1. els \in Seq({els[k] : k \in 1..c})
    <3> HIDE DEF els
    <3> QED  BY <1>4, <1>5
  <2>2. DOMAIN els = 1..c
    BY <1>5
  <2> HIDE DEF els, c
  <2> QED  BY <1>4, <2>1, <2>2
<1> HIDE DEF c, els, N
<1>7. c * N \in Nat
  BY <1>0, <1>4
<1>8. /\ DOMAIN todo' = 1..(c * N)
      /\ todo' = [k \in 1..(c * N) |-> todo'[k]]
      /\ \A k \in 1..(c * N) : todo'[k].el = els[1 + ((k - 1) \div N)]
  BY <1>3, <1>6
<1>9. IsRow(todo')
  BY <1>7, <1>8, FunctionIsRow
<1>10. S = online
  <2> SUFFICES ASSUME S = {} PROVE FALSE
    BY <1>2
  <2>1. c = 0
    BY FS_EmptySet DEF c
  <2>2. Len(todo') = 0
    BY <1>0, <1>7, <1>8, <2>1, FunctionIsRow
  <2>3. todo' = <<>>
    BY <1>9, <2>2 DEF IsRow
  <2> QED  BY <1>3, <2>3
<1>11. ASSUME NEW x \in online PROVE \E k \in DOMAIN todo' : todo'[k].el = x
  <2>1. PICK k \in 1..c : Nth(S, k) = x
    BY <1>4, <1>10
  <2> DEFINE j == (k - 1) * N + 1
  <2>2. k - 1 \in Nat /\ j - 1 = (k - 1) * N /\ j \in Nat \ {0}
    BY <1>0
  <2>3. j <= c * N
    <3>1. (k - 1) * N + N = k * N /\ k * N <= c * N
      BY <1>0, <1>4
    <3> QED  BY <1>0, <1>4, <2>2, <3>1
  <2>4. (j - 1) \div N = k - 1
    <3>1. ((k - 1) * N) \div N = k - 1
      BY <1>0, <2>2
    <3> QED  BY <2>2, <3>1
  <2> HIDE DEF j
  <2>5. j \in 1..(c * N)
    BY <1>7, <2>2, <2>3
  <2>6. todo'[j].el = els[1 + (k - 1)] /\ 1 + (k - 1) = k
    BY <1>8, <2>4, <2>5
  <2>7. els[k] = x
    BY <1>5, <2>1
  <2> QED  BY <1>8, <2>5, <2>6, <2>7
<1> QED  BY <1>9, <1>11 DEF ToOpen

\* Counters that are there stay; CPUs only go.
LEMMA CpusKept ==
  ASSUME CountersInv, CountersInv', Grown, CpusInv, runmode' = runmode, online' \subseteq online,
         UNCHANGED todo, pc' = "open" => pc = "open", pc' \in Opened => pc \in Opened
  PROVE  CpusInv'
<1>1. ASSUME NEW x, HasCounter(x) PROVE HasCounter(x)'
  <2>1. PICK i \in DOMAIN counters : counters[i].el = x
    BY <1>1 DEF HasCounter
  <2>2. /\ Len(counters) \in Nat /\ DOMAIN counters = 1..Len(counters)
        /\ Len(counters') \in Nat /\ DOMAIN counters' = 1..Len(counters')
    BY RowIs DEF CountersInv
  <2>3. i \in 1..Len(counters) /\ counters'[i].el = counters[i].el /\ Len(counters) <= Len(counters')
    BY <2>1, <2>2 DEF Grown
  <2>4. i \in DOMAIN counters' /\ counters'[i].el = x
    BY <2>1, <2>2, <2>3
  <2> QED  BY <2>4 DEF HasCounter
<1>2. ASSUME NEW x, ToOpen(x) PROVE ToOpen(x)'
  BY <1>2 DEF ToOpen
<1>3. ASSUME runmode' = "syswide", pc' = "open"
      PROVE  IsRow(todo') /\ \A x \in online' : HasCounter(x)' \/ ToOpen(x)'
  BY <1>1, <1>2, <1>3 DEF CpusInv
<1>4. ASSUME runmode' = "syswide", pc' \in Opened
      PROVE  \A x \in online' : HasCounter(x)'
  BY <1>1, <1>4 DEF CpusInv
<1> QED  BY <1>3, <1>4 DEF CpusInv, Opened, Running

\* A counter is opened: what is left to open is one less.
LEMMA OpenCovers ==
  ASSUME CountersInv, CountersInv', Grown, CpusInv, perf_event_open, runmode = "syswide", pc' # "failed"
  PROVE  /\ IsRow(todo') /\ \A x \in online : HasCounter(x)' \/ ToOpen(x)'
         /\ pc' = IF todo' = <<>> THEN "unblock" ELSE "open"
<1> DEFINE new == [el |-> Head(todo).el, ev |-> Head(todo).ev,
                   enabled |-> runmode # "start_app", count |-> 0]
<1>1. /\ pc = "open" /\ todo # <<>>
      /\ counters' = Append(counters, new) /\ todo' = Tail(todo)
      /\ pc' = IF todo' = <<>> THEN "unblock" ELSE "open"
  BY DEF perf_event_open
<1>2. IsRow(todo) /\ \A x \in online : HasCounter(x) \/ ToOpen(x)
  BY <1>1 DEF CpusInv
<1>3. /\ IsRow(todo') /\ Len(todo) \in Nat \ {0} /\ Len(todo') = Len(todo) - 1
      /\ Head(todo) = todo[1]
      /\ \A i \in 1..(Len(todo) - 1) : todo'[i] = todo[i + 1]
  BY <1>1, <1>2, TailIs
<1>4. new.el = todo[1].el
  BY <1>3
<1> HIDE DEF new
<1>5. /\ Len(counters') = Len(counters) + 1 /\ counters'[Len(counters) + 1] = new
      /\ \A i \in 1..Len(counters) : counters'[i] = counters[i]
  BY <1>1, AppendIs DEF CountersInv
<1>6. /\ Len(counters) \in Nat /\ DOMAIN counters = 1..Len(counters)
      /\ DOMAIN counters' = 1..(Len(counters) + 1)
      /\ DOMAIN todo = 1..Len(todo) /\ DOMAIN todo' = 1..(Len(todo) - 1)
  BY <1>2, <1>3, <1>5, RowIs DEF CountersInv
<1>7. ASSUME NEW x \in online PROVE HasCounter(x)' \/ ToOpen(x)'
  <2>1. CASE HasCounter(x)
    <3>1. PICK i \in 1..Len(counters) : counters[i].el = x
      BY <1>6, <2>1 DEF HasCounter
    <3>2. i \in DOMAIN counters' /\ counters'[i].el = x
      BY <1>5, <1>6, <3>1
    <3> QED  BY <3>2 DEF HasCounter
  <2>2. CASE ToOpen(x)
    <3>1. PICK k \in 1..Len(todo) : todo[k].el = x
      BY <1>6, <2>2 DEF ToOpen
    <3>2. CASE k = 1
      <4>1. Len(counters) + 1 \in DOMAIN counters' /\ counters'[Len(counters) + 1].el = x
        BY <1>4, <1>5, <1>6, <3>1, <3>2
      <4> QED  BY <4>1 DEF HasCounter
    <3>3. CASE k # 1
      <4>1. k - 1 \in 1..(Len(todo) - 1) /\ (k - 1) + 1 = k
        BY <1>3, <3>3
      <4>2. k - 1 \in DOMAIN todo' /\ todo'[k - 1].el = x
        BY <1>3, <1>6, <3>1, <4>1
      <4> QED  BY <4>2 DEF ToOpen
    <3> QED  BY <3>2, <3>3
  <2> QED  BY <1>2, <2>1, <2>2
<1> QED  BY <1>1, <1>3, <1>7

LEMMA CpusStep == StartInv /\ CountersInv /\ CpusInv /\ [Next]_vars => CpusInv'
<1> SUFFICES ASSUME StartInv, CountersInv, CpusInv, [Next]_vars PROVE CpusInv'
  OBVIOUS
<1>0. CountersInv' /\ Grown
  BY CountersStep
<1> USE DEF hostv, Opened, Running
<1>1. CASE main \/ process_args \/ Fork \/ StartApp
  BY <1>1 DEF main, process_args, Fork, StartApp, CpusInv
<1>2. CASE setup
  <2>1. runmode' = runmode /\ online' = online /\ pc' \in {"failed", "open"}
    BY <1>2 DEF setup
  <2>2. runmode = "syswide" /\ pc' = "open" => IsRow(todo') /\ \A x \in online : ToOpen(x)'
    BY <1>2, SetupCovers
  <2> QED  BY <2>1, <2>2 DEF CpusInv
<1>3. CASE perf_event_open
  <2>1. runmode' = runmode /\ online' = online /\ pc' \in {"failed", "unblock", "open"}
    BY <1>3 DEF perf_event_open
  <2>2. ASSUME runmode = "syswide", pc' # "failed"
        PROVE  /\ IsRow(todo') /\ \A x \in online : HasCounter(x)' \/ ToOpen(x)'
               /\ pc' = IF todo' = <<>> THEN "unblock" ELSE "open"
    BY <1>0, <1>3, <2>2, OpenCovers
  <2>3. todo' = <<>> => \A x : ~ToOpen(x)'
    BY DEF ToOpen
  <2> QED  BY <2>1, <2>2, <2>3 DEF CpusInv
<1>4. CASE Unblock \/ DefaultSigint \/ InstallHandler \/ op_sig_stop
  BY <1>0, <1>4, CpusKept DEF Unblock, DefaultSigint, InstallHandler, op_sig_stop
<1>5. CASE StartInterval \/ EndSleep \/ CheckApp \/ wait
  BY <1>0, <1>5, CpusKept DEF StartInterval, EndSleep, CheckApp, wait
<1>6. CASE ReadCounters
  BY <1>0, <1>6, CpusKept DEF ReadCounters
<1>7. CASE Display
  BY <1>0, <1>7, CpusKept DEF Display
<1>8. CASE Final \/ Failed
  BY <1>0, <1>8, CpusKept DEF Final, Failed
<1>9. CASE AppReady \/ AppExec \/ AppExit \/ SendSigint
  BY <1>0, <1>9, CpusKept DEF AppReady, AppExec, AppExit, SendSigint
<1>10. ASSUME NEW t \in Tasks, TaskExit(t) PROVE CpusInv'
  BY <1>0, <1>10, CpusKept DEF TaskExit
<1>11. ASSUME NEW c \in Cpus, Offline(c) PROVE CpusInv'
  BY <1>0, <1>11, CpusKept DEF Offline
<1>12. ASSUME NEW k \in Lines, Count(k) PROVE CpusInv'
  BY <1>0, <1>12, CpusKept DEF Count
<1>13. CASE UNCHANGED vars
  BY <1>0, <1>13, CpusKept DEF vars
<1>14. CASE AppFails \/ PipeFails \/ ReadFails
  BY <1>0, <1>14, CpusKept DEF AppFails, PipeFails, ReadFails
<1>15. ASSUME NEW k \in Lines, LineFails(k) PROVE CpusInv'
  BY <1>0, <1>15, CpusKept DEF LineFails
<1> QED
  BY <1>1, <1>2, <1>3, <1>4, <1>5, <1>6, <1>7, <1>8, <1>9, <1>10, <1>11, <1>12, <1>13, <1>14, <1>15
     DEF Next, Parent

-----------------------------------------------------------------------------
(* The theorems                                                            *)

\* The invariant holds of every state ocount reaches.
THEOREM OcountInvariant == Spec => []OcountInv
<1>1. Init => OcountInv
  <2> SUFFICES ASSUME Init PROVE OcountInv
    OBVIOUS
  <2>1. StartInv /\ CountersInv /\ ShownInv
    BY StartInit, ShownInit
  <2>2. AppInv /\ TimeInv /\ CpusInv
    BY DEF Init, AppInv, AppNotLeft, TimeInv, CpusInv, Opened, Running, Begins, Left
  <2> QED  BY <2>1, <2>2 DEF OcountInv
<1>2. OcountInv /\ [Next]_vars => OcountInv'
  BY StartStep, AppStep, TimeStep, CountersStep, ShownStep, CpusStep DEF OcountInv
<1> QED  BY <1>1, <1>2, PTL DEF Spec

\* What is displayed for all intervals together is what the counters had counted
\* when they were last read, and an interval is as long as was asked for
\* (output_results; the countdown of _wait_for_app).
THEOREM IntervalsRight == Spec => []IntervalsAddUp
<1>1. OcountInv => IntervalsAddUp
  BY DEF OcountInv, ShownInv, LineShown, TimeInv, IntervalsAddUp, IntervalLength
<1> QED  BY <1>1, OcountInvariant, PTL

\* However ocount ends that has installed its handler, the application it
\* started is dead, but for a read that failed for an interval; a pipe that
\* failed leaves the child that waits (main; op_sig_stop; _wait_for_app;
\* do_results; start_counting).
THEOREM AppEnds == Spec => []AppNotLeft
<1>1. OcountInv => AppNotLeft
  BY DEF OcountInv, AppInv
<1> QED  BY <1>1, OcountInvariant, PTL

\* While it counts the whole system ocount has a counter for every CPU that is
\* online (op_get_available_cpus; do_counting_per_cpu).
THEOREM EveryCpuCounted == Spec => []CpusCounted
<1>1. OcountInv => CpusCounted
  BY DEF OcountInv, CpusInv, Opened, HasCounter, CpusCounted
<1> QED  BY <1>1, OcountInvariant, PTL

=============================================================================
