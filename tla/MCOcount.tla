------------------------------ MODULE MCOcount ------------------------------
(***************************************************************************)
(* Three CPUs, two tasks, one of them a thread of the other and a task of  *)
(* another user, two events; intervals of one second, of less and of more  *)
(* than one second and a rest, that are rounded up, down and to one tick;  *)
(* all run modes and separations, and command lines that are refused.  The *)
(* machines: two CPUs of three online, with and without a gap, several     *)
(* kinds of CPU, users without rights, old kernels; a CPU that goes.       *)
(***************************************************************************)
EXTENDS Ocount

MCCpuDescrs ==
  <<"i386/arch_perfmon", "i386/sandybridge", "i386/p4", "i386/p4-ht", "i386/piii",
    "x86-64/hammer", "x86-64/generic", "ppc64/power7", "ppc64/architected_events_v1",
    "arm/armv7", "tile/tilegx", "mips/24K", "timer">>
MCNumerals == ("4" :> 4) @@ ("99" :> 99)

Host0 ==
  [machine |-> "x86_64", vendor |-> "GenuineIntel", family |-> 6, model |-> 42, siblings |-> 2,
   perfmon |-> 8, platform |-> "none", base_platform |-> "none", plus |-> FALSE, cpu |-> "none",
   part |-> 0, cpu_type |-> "no file", dirs |-> <<2, 0, 1>>, online |-> {0, 1},
   online_files |-> {0, 1, 2}, perf_events |-> "ok", uid |-> 0, paranoid |-> 1,
   early_kernel |-> FALSE, PATH |-> <<"missing", "has it">>, files |-> {"./app"}, hotplug |-> FALSE]
GapHost == [Host0 EXCEPT !.online = {0, 2}]
UserHost == [Host0 EXCEPT !.uid = 1, !.online_files = {1, 2}]

Plain == [bad |-> FALSE, app |-> "none", system_wide |-> FALSE, cpu_list |-> <<>>,
          processes |-> <<>>, threads |-> <<>>, separate_cpu |-> FALSE, separate_thread |-> FALSE,
          time |-> <<>>]

Command == [Plain EXCEPT !.app = "app"]
Syswide == [Plain EXCEPT !.system_wide = TRUE]
CpuList == [Plain EXCEPT !.cpu_list = <<<<1, 1>>, <<1, 1>>>>]
Processes == [Plain EXCEPT !.processes = <<102>>]
Threads == [Plain EXCEPT !.threads = <<101>>]

\* 101 is a thread of 102.
MCThreadsOf == (101 :> {101}) @@ (102 :> {101, 102})

MCArgs ==
  {Command, Syswide, CpuList, Processes, Threads,
   [Command EXCEPT !.time = <<54>>], [Command EXCEPT !.time = <<4, 2>>],
   [Command EXCEPT !.time = <<44, 1>>], [Syswide EXCEPT !.time = <<45, 1>>],
   [CpuList EXCEPT !.time = <<20>>, !.separate_cpu = TRUE], [CpuList EXCEPT !.time = <<20>>],
   [Processes EXCEPT !.separate_thread = TRUE],
   [Threads EXCEPT !.time = <<25, 2>>, !.separate_thread = TRUE],
   Plain, [Command EXCEPT !.cpu_list = <<<<1, 1>>>>], [Command EXCEPT !.separate_cpu = TRUE],
   [Command EXCEPT !.app = "./app", !.threads = <<101>>], [Command EXCEPT !.time = <<-1>>],
   [Threads EXCEPT !.system_wide = TRUE], [CpuList EXCEPT !.cpu_list = <<<<0, 7>>>>]}

\* From the sixth on: machines on which little is done, or that are refused
MCHosts ==
  <<Host0, GapHost, [Host0 EXCEPT !.hotplug = TRUE], UserHost, [GapHost EXCEPT !.online_files = {1, 2}],
   [Host0 EXCEPT !.perfmon = 0, !.family = 15, !.model = 2],
   [Host0 EXCEPT !.perfmon = 0, !.model = 8], [Host0 EXCEPT !.vendor = "AuthenticAMD", !.family = 15],
   [Host0 EXCEPT !.vendor = "AuthenticAMD", !.family = 30], [Host0 EXCEPT !.vendor = "other"],
   [Host0 EXCEPT !.machine = "ppc64", !.platform = "power7", !.base_platform = "power7", !.cpu = "power7+"],
   [Host0 EXCEPT !.machine = "ppc64", !.platform = "power6", !.base_platform = "power7"],
   [Host0 EXCEPT !.machine = "arm", !.vendor = "ARM", !.part = 3080],
   [Host0 EXCEPT !.machine = "tile", !.cpu = "tilegx"], [Host0 EXCEPT !.machine = "mips", !.cpu = "MIPS 24Kc"],
   [Host0 EXCEPT !.cpu_type = "timer"], [Host0 EXCEPT !.cpu_type = "4"], [Host0 EXCEPT !.cpu_type = "99"],
   [Host0 EXCEPT !.cpu_type = "unreadable"], [Host0 EXCEPT !.cpu_type = "i386/arch_perfmon"],
   [Host0 EXCEPT !.perf_events = "ENOSYS"], [UserHost EXCEPT !.early_kernel = TRUE],
   [Host0 EXCEPT !.PATH = <<"denied", "has it">>]>>

MCStarts ==
  {[machine |-> 1, args |-> a] : a \in MCArgs}
  \cup {[machine |-> m, args |-> a] : m \in 2..5, a \in {Syswide, [CpuList EXCEPT !.cpu_list = <<<<2, 2>>>>]}}
  \cup {[machine |-> m, args |-> Threads] : m \in 4..Len(MCHosts)}
  \cup {[machine |-> 4, args |-> [Threads EXCEPT !.threads = <<102, 101>>]],
        [machine |-> 1, args |-> [Processes EXCEPT !.processes = <<101, 102>>]]}
  \cup {[machine |-> m, args |-> [Command EXCEPT !.app = a, !.threads = <<101>>]] :
           m \in DOMAIN MCHosts, a \in {"app", "./app", "too long"}}

=============================================================================
