---------------------------- MODULE MCOpdTrans ----------------------------
(***************************************************************************)
(* Two kinds of load: kernel, module and Xen samples of a process and of   *)
(* one that has ended before its samples arrive (no application cookie);   *)
(* and anonymous memory of a process that may exec another application,    *)
(* next to a second process, or of two threads.                            *)
(***************************************************************************)
EXTENDS OpdTrans

Task(tid, tgid, app) == [tid |-> tid, tgid |-> tgid, app_cookie |-> app]
Span(s, e) == [start |-> s, end |-> e]

VmlinuxAt5 == Span(5, 6)
XenAt7 == Span(7, 8)

KernelLoad ==
  [tasks |-> {Task(11, 10, "app"), Task(20, 20, NO_COOKIE)}, cpus |-> {0},
   cookies |-> {"lib"}, pcs |-> {5, 6, 7}, modules |-> {Span(6, 7)}, regions |-> {}]

AnonLoad ==
  [tasks |-> {Task(11, 10, "app"), Task(11, 10, "app2"), Task(20, 20, "app")},
   cpus |-> {}, cookies |-> {"lib", NO_COOKIE}, pcs |-> {1, 2}, modules |-> {},
   regions |-> {Span(1, 2), Span(2, 3)}]

\* The hypervisor next to the kernel, without modules
XenLoad == [KernelLoad EXCEPT !.pcs = {5, 7}, !.modules = {}]

\* Two threads of one process
ThreadLoad == [AnonLoad EXCEPT !.tasks = {Task(11, 10, "app"), Task(12, 10, "app")}]

Loads ==
  [c \in {{"lib", "kernel"}, {"no_vmlinux"}, {"ibs"}} |-> KernelLoad]
    @@ [c \in {{"cpu", "xen"}} |-> XenLoad]
    @@ [c \in {{}} |-> AnonLoad] @@ [c \in {{"thread"}} |-> ThreadLoad]
=============================================================================
