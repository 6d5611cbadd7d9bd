-------------------------------- MODULE Host --------------------------------
(***************************************************************************)
(* What the tools find out about the machine they run on: the type of the  *)
(* CPU (libop/op_cpu_type.c, op_hw_specific.h), whether perf_events can be *)
(* used, the CPUs that are online and the file of the application          *)
(* (libpe_utils/op_pe_utils.cpp).                                          *)
(*                                                                         *)
(* A host h is a record of what the files under /proc, /sys and /dev, the  *)
(* CPUID instruction and the system calls answer.                          *)
(***************************************************************************)
EXTENDS Integers, Sequences, FiniteSets, FiniteSetsExt, SequencesExt

CONSTANTS CpuDescrs,     \* the names of cpu_descrs; an op_cpu is an index, from 0
          Numerals       \* the strings that sscanf reads as a number, and the number

CPU_NO_GOOD == -1

-----------------------------------------------------------------------------
(* The type of the CPU                                                     *)

op_get_cpu_number(name) ==
  LET i == SelectInSeq(CpuDescrs, LAMBDA d : d = name)
      n == IF i # 0 THEN i - 1
           ELSE IF name \in DOMAIN Numerals THEN Numerals[name] ELSE CPU_NO_GOOD
  IN IF n \in 0..(Len(CpuDescrs) - 1) THEN n ELSE CPU_NO_GOOD

CPU_ARCH_PERFMON == op_get_cpu_number("i386/arch_perfmon")

\* The models of Intel's family 6 that have a type of their own
PerfmonModels ==
  [m \in {15, 22, 23, 29} |-> "i386/core_2"] @@ [m \in {26, 30, 31, 46} |-> "i386/core_i7"]
    @@ [m \in {28} |-> "i386/atom"] @@ [m \in {37, 44, 47} |-> "i386/westmere"]
    @@ [m \in {42, 45} |-> "i386/sandybridge"] @@ [m \in {58, 62} |-> "i386/ivybridge"]
    @@ [m \in {60, 63, 69, 70, 71} |-> "i386/haswell"] @@ [m \in {55, 77} |-> "i386/silvermont"]

op_cpu_specific_type(h, cpu) ==
  IF cpu = CPU_ARCH_PERFMON /\ h.model \in DOMAIN PerfmonModels
  THEN op_get_cpu_number(PerfmonModels[h.model]) ELSE cpu

\* The line is read into buf, and buf still starts with the line's label when
\* strtoul is asked for a number in it: there never is one.
cpu_info_number(line) == CPU_NO_GOOD

_get_intel_cpu_type(h) ==
  LET siblings == cpu_info_number(h.siblings)
      Named(table) == IF h.model \in DOMAIN table THEN op_get_cpu_number(table[h.model])
                      ELSE CPU_NO_GOOD
  IN CASE h.perfmon # 0 -> op_cpu_specific_type(h, CPU_ARCH_PERFMON)
       [] h.perfmon = 0 /\ h.family = 6 ->
            Named([m \in 0..2 |-> "i386/ppro"] @@ [m \in 3..5 |-> "i386/pii"]
                    @@ [m \in {6, 7, 8, 10, 11} |-> "i386/piii"]
                    @@ [m \in {9, 13} |-> "i386/p6_mobile"])
       [] h.perfmon = 0 /\ h.family = 15 /\ h.model \in {0, 1, 2, 3, 4, 6} ->
            CASE siblings \in {CPU_NO_GOOD, 1} -> op_get_cpu_number("i386/p4")
              [] siblings = 2 -> op_get_cpu_number("i386/p4-ht")
              [] OTHER -> CPU_NO_GOOD
       [] OTHER -> CPU_NO_GOOD

_get_amd_cpu_type(h) ==
  LET names == (15 :> "x86-64/hammer") @@ (16 :> "x86-64/family10")
                 @@ (17 :> "x86-64/family11h") @@ (18 :> "x86-64/family12h")
                 @@ (20 :> "x86-64/family14h") @@ (21 :> "x86-64/family15h")
  IN CASE h.family < 15 \/ h.family = 19 -> CPU_NO_GOOD
       [] h.family \in DOMAIN names -> op_get_cpu_number(names[h.family])
       [] OTHER -> op_get_cpu_number("x86-64/generic")

_get_x86_64_cpu_type(h) ==
  CASE h.vendor = "GenuineIntel" -> _get_intel_cpu_type(h)
    [] h.vendor = "AuthenticAMD" -> _get_amd_cpu_type(h)
    [] OTHER -> CPU_NO_GOOD

\* AT_PLATFORM differs from AT_BASE_PLATFORM in a compatibility mode; a "+" at
\* the end of the latter (h.plus) is no difference.
_try_ppc64_arch_generic_cpu(h) ==
  CASE h.platform = h.base_platform \/ "none" \in {h.platform, h.base_platform} -> CPU_NO_GOOD
    [] h.platform = "power7" /\ h.base_platform = "power8" /\ ~h.plus ->
         op_get_cpu_number("ppc64/power8")
    [] OTHER -> op_get_cpu_number("ppc64/architected_events_v1")

\* The variants power7+ and power8e are taken for power7 and power8.
_get_ppc64_cpu_type(h) ==
  LET generic == _try_ppc64_arch_generic_cpu(h)
  IN IF generic # CPU_NO_GOOD THEN generic
     ELSE op_get_cpu_number("ppc64/" \o (CASE h.cpu = "power7+" -> "power7"
                                           [] h.cpu = "power8e" -> "power8"
                                           [] OTHER -> h.cpu))

_get_arm_cpu_type(h) ==
  LET parts ==
        CASE h.vendor = "ARM" ->
               [p \in {2870, 2902, 2934} |-> "arm/armv6"] @@ (2818 :> "arm/mpcore")
                 @@ (3077 :> "arm/armv7-ca5") @@ (3079 :> "arm/armv7-ca7")
                 @@ (3080 :> "arm/armv7") @@ (3081 :> "arm/armv7-ca9") @@ (3087 :> "arm/armv7-ca15")
          [] h.vendor = "AMCC" -> (0 :> "arm/armv8-xgene")
          [] h.vendor = "Intel" -> [p \in 512..1023 |-> "arm/xscale1"]
                                     @@ [p \in 1024..1535 |-> "arm/xscale2"]
          [] OTHER -> <<>>
  IN IF h.part \in DOMAIN parts THEN op_get_cpu_number(parts[h.part]) ELSE CPU_NO_GOOD

\* The first of mips_cpu_descrs that the model starts with
_get_mips_cpu_type(h) ==
  LET descrs == <<<<"MIPS 24Kc", "mips/24K">>, <<"MIPS 34Kc", "mips/34K">>,
                  <<"R10000", "mips/r10000">>, <<"R14000", "mips/r12000">>>>
      i == SelectInSeq(descrs, LAMBDA d : d[1] = h.cpu)
  IN IF i = 0 THEN CPU_NO_GOOD ELSE op_get_cpu_number(descrs[i][2])

__get_cpu_type_alt_method(h) ==
  CASE h.machine = "x86_64" -> _get_x86_64_cpu_type(h)
    [] h.machine = "ppc64" -> _get_ppc64_cpu_type(h)
    [] h.machine = "arm" -> _get_arm_cpu_type(h)
    [] h.machine = "tile" -> op_get_cpu_number("tile/" \o h.cpu)
    [] h.machine = "mips" -> _get_mips_cpu_type(h)
    [] OTHER -> CPU_NO_GOOD

\* What the kernel module says, if it is loaded, else what the machine says
op_get_cpu_type(h) ==
  CASE h.cpu_type = "no file" -> __get_cpu_type_alt_method(h)
    [] h.cpu_type = "unreadable" -> CPU_NO_GOOD
    [] OTHER -> op_cpu_specific_type(h, op_get_cpu_number(h.cpu_type))

-----------------------------------------------------------------------------
(* The CPUs that are online                                                *)

\* The k-th smallest of a set of numbers
Nth(S, k) == CHOOSE x \in S : Cardinality({y \in S : y < x}) = k - 1

\* h.dirs are the cpu<n> directories in the order of readdir, h.online the CPUs
\* that are online.  A CPU that cannot be taken offline has no file "online".
\* The answers of successive calls: at such a CPU the answer is -1, as at the end.
op_get_next_online_cpu(h) ==
  LET seen == {i \in DOMAIN h.dirs : h.dirs[i] \notin h.online_files \/ h.dirs[i] \in h.online}
      Answer(c) == IF c \in h.online_files THEN c ELSE -1
  IN [k \in 1..Cardinality(seen) |-> Answer(h.dirs[Nth(seen, k)])] \o <<-1>>

\* The list in /sys/devices/system/cpu/online has a comma or starts above 0.
Gaps(h) == h.online # 0..(Cardinality(h.online) - 1)

op_get_cpu_for_perf_events_cap(h) ==
  IF Gaps(h) THEN op_get_next_online_cpu(h)[1] ELSE 0

\* A mutant: one CPU too few.
op_get_available_cpus_OneLess(h, max_num_cpus) ==
  IF Gaps(h) THEN {c \in h.online : c # Max(h.online)} ELSE 0..(max_num_cpus - 2)

\* The first max_num_cpus CPUs that are online, or {} for a runtime_error
op_get_available_cpus(h, max_num_cpus) ==
  IF ~Gaps(h) THEN 0..(max_num_cpus - 1)
  ELSE LET calls == op_get_next_online_cpu(h)
           found == {calls[i] : i \in 1..Min({max_num_cpus, Len(calls)})}
       IN IF -1 \in found THEN {} ELSE found

\* perf_event_open for the process itself: early kernels refuse a CPU, later
\* ones refuse -1, to users that are not root.
op_check_perf_events_cap(h, use_cpu_minus_one) ==
  LET cpu == IF use_cpu_minus_one THEN -1 ELSE op_get_cpu_for_perf_events_cap(h)
  IN CASE h.perf_events # "ok" -> h.perf_events
       [] h.perf_events = "ok" /\ h.uid # 0 /\ h.paranoid > 0 /\ (cpu # -1) = h.early_kernel -> "EACCES"
       [] OTHER -> "ok"

-----------------------------------------------------------------------------
(* The application                                                         *)

\* PATH is searched for a directory with a file of that name; a directory that
\* cannot be read ends the search, one that does not exist does not.
_get_PATH_based_pathname(h) ==
  LET i == SelectInSeq(h.PATH, LAMBDA d : d = "denied" \/ d = "has it")
  IN IF i = 0 \/ h.PATH[i] = "denied" THEN 0 ELSE i

\* Whether the application is found: app is how it was given
op_validate_app_name(h, app) ==
  CASE app = "too long" -> FALSE
    [] app \in {"/app", "./app", "dir/app"} -> app \in h.files
    [] OTHER -> _get_PATH_based_pathname(h) # 0

=============================================================================
