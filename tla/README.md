# A verification of OProfile in TLA+

OProfile is a statistical profiler.  This directory models the parts of it that
run concurrently, share state or keep state for a long time, and the algorithms
their results depend on, checks them with TLC on small instances, and proves
with TLAPS, for every instance, the safety of the sample file, of the daemon's
main loop and its sfiles, of operf's processes and of the samples it converts, of
the JIT's dump files and of ocount.

Paths below are relative to `src/`.

## The system

| part | state it keeps | operations | talks to | what makes it hard |
|---|---|---|---|---|
| **libdb** (`libdb/`) | a file: descriptor, node array, hash table, in a shared mapping | open, update, add, grow, iterate, close | daemon and operf write, pp tools read the same file | readers without locks; the file outlives a killed writer; growth fails halfway |
| **event buffer decoding** (`daemon/opd_trans.c`) | `struct transient`: the context, the cached sfile, the last sample | one handler per escape code, `opd_put_sample` | sfiles, mappings, kernel images | caches that must be dropped at the right time |
| **anonymous mappings** (`daemon/opd_anon.c`) | LRU cache of regions per process | find, re-read, evict | frees sfiles and what the transient caches | eviction while a process's own regions are added |
| **kernel images** (`daemon/opd_kernel.c`), **dcookies** (`daemon/opd_cookie.c`) | vmlinux, Xen, modules; names of binaries | find, re-read | frees sfiles | reload in the middle of a buffer |
| **sfiles** (`daemon/opd_sfile.c`, `daemon/opd_mangling.c`) | hash table and LRU list of sfiles, entries for arcs, open files | find, create, log, open, evict, clear, close | libdb, the table of open files | EMFILE in the middle of a sample; intrusive lists |
| **main loop** (`daemon/init.c`, `oprofiled.c`, `opd_pipe.c`) | signal flags, the buffer, children | read, act on signals, convert, store, announce | kernel device, opjitconv, opcontrol | signals between any two statements; lost wake-ups |
| **opcontrol** (`utils/opcontrol`) | lock file, `complete_dump`, pipe | dump, reset, shut down | daemon, by signals and files | answers that belong to another question |
| **operf** (`pe_profiling/`) | a parent, the application, a recorder and a reader; sample directories | start, record, stop, convert, rotate | each other by pipes and signals, opjitconv | processes that wait for each other; signals before handlers |
| **libperf_events** | counters, ring buffers, a stream of records; processes, mappings, the last context | open, copy, cut into records; one handler per record | perf_events, libdb | wrap-around, partial reads; records out of order |
| **JIT support** (`libopagent/`, `opjitconv/`, `agents/`) | dump files, symbol tables | append records; copy, parse, resolve overlaps | JVM threads, opjitconv | contention for the dump file; loops until nothing changes |
| **libop, libpe_utils, ophelp** | event tables; what is known of the machine | load, check, allocate counters, encode | daemon, operf, ocount, opcontrol | search, bit masks, CPUs that come and go |
| **ocount** (`pe_counting/`) | counters, accumulated counts, a countdown | start, open, read, display, stop | perf_events, an application | intervals and signals; tasks that end |
| **libpp, pp/, libutil++** | profiles in memory | parse names, select, arrange, sum up, annotate | sample files, binaries | boundaries of ranges, files that look alike |
| oprof_start, libutil, libregex, libopt++, libabi | little | | | sequential |

A sample travels like this.  The kernel fills a buffer; `opd_do_read` reads it
and hands it to `opd_process_samples`; every sample is attributed to an sfile
(`sfile_find`), the sfile's file is opened if it is not open
(`opd_open_sample_file`, `odb_open`) and a count in it is incremented
(`odb_update_node`).  Later, or at the same time, a pp tool iterates over the
file.  `opcontrol --dump` asks the kernel to hand over what it has and waits
until the daemon says it is stored.  With operf there is no daemon: a recorder
process copies the rings of perf_events to a pipe, a reader cuts the records out
and attributes the samples, and the files are the same.

`PROJECT.json` lists every part, modelled or not, and the hazards: the places
where something can go wrong that a test would hardly reach.

## The modules

    SampleCounts          what a sample file promises: a map of counts
       ^ implements
    Odb                   libdb, store by store           <- MCOdb
       ^ OdbProofs
    OpdTrans              decoding and attribution        <- MCOpdTrans
    OpdSfile              life of sfiles and open files   <- MCOpdSfile
       ^ OpdSfileProofs
    OpdMain               main loop, signals, opcontrol   <- MCOpdMain
       ^ DaemonProofs     of OpdTrans and OpdMain

    OperfRun              operf's processes               <- MCOperfRun
       ^ OperfRunProofs
    PerfStream            rings, pipe, file, records      <- MCPerfStream
       ^ PerfStreamProofs
    OperfConvert          attribution of samples          <- MCOperfConvert
       ^ OperfConvertProofs

    JitSymbols            overlaps, names, ELF symbols
       ^ JitDump          agent library and opjitconv     <- MCJitDump
            ^ JitDumpProofs
    SampleFiles           names of sample files, selection
       ^ ArrangeProfiles  classes and images
            ^ Archive     what oparchive copies
               ^ Reports  (with SymbolReport, BinaryImages,
                           JitSymbols and DebugLine as
                           instances)                     <- MCReports
    EventTables           unit masks, events, counters
    Ibs                   derived events of AMD's IBS
       ^ Events           tables loaded line by line,
                          a daemon that samples with IBS  <- MCEvents
    Host                  the machine: CPU type, CPUs, rights
       ^ Ocount           counting                        <- MCOcount
            ^ OcountProofs

A module named `XProofs` has the theorems about `X`; `DaemonProofs` has those about
`OpdTrans` and `OpdMain`, the two halves of the daemon that share no state here.

The modules meet at named places: what `OpdMain` calls ProcessSamples is a
sequence of actions of `OpdTrans`; where `OpdTrans` finds, frees and opens
sfiles, `OpdSfile` has the lists and files behind it; the files are `Odb`.  A
record that `OperfRun` counts is one that `PerfStream` carries and
`OperfConvert` handles; the names it is stored under are in `SampleFiles`.
Definitions have the names of the functions they translate.  A definition whose
name ends in `_Something` and whose comment begins with "Mutant" is a plausible
mistake in that function; it is used by nothing but the test that a property
would notice it.

### SampleCounts and Odb

`Odb` has one file, one writer and one reader.  The file is `fileNr` (the nodes
its length accounts for), `descr`, `node` and `hash`.  A step of the writer is
one store, or a group of stores that no other process can tell apart:

* `odb_open`: OpenCreate gives a new file its length, OpenInitDescr writes the
  descriptor; OpenExisting accepts a file whose length agrees with it.
* `odb_update_node_with_offset`: the lookup walks one node per step, then
  UpdateHit, or UpdateMiss and `add_node`.
* `odb_grow_hashtable`: ftruncate, mremap with the change of size, one node of
  the rebuild per step; it may fail before or after ftruncate.
* `add_node`: AddSetup, AddLink, and `odb_commit_reservation`.
* Kill: the writer dies and another starts from the file.

The reader is `profile_t::add_sample_file`: it maps the file by the length it
has, checks the descriptor, asks for the number of nodes and reads them one by
one, all while the writer goes on.  A read beyond its mapping is a fault.

Data: keys are numbers, and `Mix` stands for the bits `odb_do_hash` folds; the
mask is a remainder since sizes are powers of two.  The width of `unsigned long`
and of `odb_value_t` are kept (`LongBits`, `ValueBits`), because a sum is
computed in the one and stored in the other.  The header before the descriptor
is left out, except that a reader refuses a file without one.  `odb_add_node`
is called by opimport only, with keys of a well built file, which is its guard.
Stores are seen in program order.  The walks of `odb_check_hash` are recursive
functions: `Met(b)` are the nodes that the chain of `b` meets, within as many steps
as the table has nodes.

The refinement: the count of a key is the value of the committed node that has
it (`Count`), and every step of `Odb` is one `Add` of `SampleCounts` or leaves
all counts alone.  What is added when a sum wraps is `StoredSum`, in both.

### OpdTrans

One action is one entry of the kernel's buffer: an escape code with its words,
or a sample.  `trans` is `struct transient`.  An sfile, a mapping or a kernel
image is the record of its fields; a pointer to it is that record, and it
dangles when the record is in no list any more.  Kernel images carry a
generation so that a module that is loaded again is another object.  `w` in the
operators is the part of the state `opd_anon.c` works on.

A sample is handled in the order of the code: the context (Sampled), the
mapping (Located), the kernel image, what is known of a process without cookie
(Cmdlines), the sfile, the log (Fate), and room in the table of open files
(Opened).  Inputs are nondeterministic: what `/proc/<pid>/maps`,
`/proc/<pid>/cmdline` and `/proc/modules` say, and whether the table of open
files is full.  `Listings` are the anonymous regions of `/proc/<pid>/maps`, in the
order of their addresses and without overlaps, as the kernel lists them; a process has
up to `MaxRegions`, two in the runs.  Two history variables say where a sample was:
`prev`, the last sample and its sfile, and `found_pc`, the address of the sample that
the cached sfile was found for (a later one may be elsewhere: the sfile is kept as
long as the context is the same, whatever region the sample is in).  A buffer may
end after any entry; one that ends inside an entry
has the same effect (every handler that finds too few words drops the rest).

The hash is the tuple of the values it folds, so that two contexts that are
hashed differently are in different buckets; collisions only add sfiles that do
not match.  An IBS sample is placed as a plain one is (opd_put_ibs_sample), but
it may be taken for one of the kernel without a switch to it, and it is logged
even if its image is ignored; what is counted is in `Ibs`.  Traces are not
combined with IBS.  Left out: SPU codes, verbose output, the counters of
`opd_stats`, the 512 hash buckets.  `abort()` on an unknown code ends
the daemon and is left out.

### OpdSfile

The list of sfiles is modelled as the `next` and `prev` pointers it is, so that
an entry that is added twice does what it does in memory.  `cg` has the entries
for arcs and `open` the handles whose file is open.  Logging a sample is one
step when the file is open; otherwise BeginOpen takes the sfiles in use off the
list, and OpenSucceeds, OpenFails, OpenEMFILE or OpenAborts follow.  The actions
that free (`sfile_clear_kernel`, `sfile_clear_anon`, `sfile_lru_clear`) are
`for_one_sfile` with different selections.  Which sfile a sample belongs to is
nondeterministic here.

An sfile has one counter, and every handle a file name of its own; `LRU_AMOUNT`
is 2, so that one call of `sfile_lru_clear` leaves some sfiles alone.

### OpdMain

The daemon's loop has one step per check of a flag.  A handler sets its flag at
any time; `read` and `wait` return early only when the signal arrives while they
sleep.  `taken`, `read` and `stored` count samples in the kernel, in the buffer
and in files.  opjitconv is a child that runs and ends.  opcontrol has one step
per line of `do_dump_data`, and sends SIGTERM again and again as
`do_kill_daemon` does.  SIGUSR1 and SIGUSR2 (ia64 only) and `kill -9` after
fifteen seconds are left out.

### OperfRun

One variable per process says where it is (`ppc`, `rpc`, `dpc`, `app`).  A run
begins with a command line (`process_args`, `_process_session_dir`, the check of
the samples directory), which is refused or starts the processes in the order of
`_run`: the application, which waits on a pipe; the recorder, which says through
another that it is ready; the reader.  A record is one unit: it is in the ring,
in the pipe (or file), or converted.  Every wait, kill and signal handler is a
step, and a signal that is pending when a process unblocks its signals before it
has installed a handler ends it, as the code has it.  `cur` and `prev` are the
two sample directories.

### PerfStream

The recorder opens the counters (per CPU, per thread, or for the application),
maps the rings, writes the header with the ids of each event and copies what the
rings hold, in one or two parts, in as many writes as the pipe needs.  The
reader reads the header and cuts records out of the pipe or out of a window on a
file, which it moves by pages.  Lengths are in units of eight bytes.  The kernel
stores records whenever they fit; threads exit at any time.

### OperfConvert

One action per record (fork, comm, mmap, sample, throttle), in any order
the bounds allow, and the second round over what was deferred.  `process_map` is
what is known of a process, `trans` the context of the last sample.  What
`set_new_mapping_recursive` reaches is `family`: the process, all that it has
forked, all that these have, and so on, as the smallest set that is closed under
fork.  The history variables `own`, `first`, `fate` and `wrong` say what is true, to be
compared with what the code found.  `own` has the mappings as a process reported
them.  The code may give it another: anonymous memory is looked up in
`all_images_map` by its name and start alone, and whatever process reported that
first has set the end.  `first` remembers that report, and `FirstReport` is what a
process has in place of its own.  A sample whose id is that of no event is bad data
and ends the conversion; one of a user's code is dropped if `trans.event` has
`no_user` (`NoUser`).  Three more say what a property excuses: `mixed`
are processes that map where their parent does, and those forked by a process that
was itself forked and has a name of its own by now; `stale` is what has happened
since the context was looked up (an MMAP or THROTTLE record, a deferred sample);
`Overlap` is a sample at an address that two mappings of the process have, since
munmap is not recorded, and `OtherRange` a process that has another's end.  What the kernel is (a file with or without `_etext`, kallsyms
with hidden addresses, modules out of order) is chosen at the start.

### JitDump and JitSymbols

Threads write records under two locks: `flock`, which belongs to the open file
and is shared by the threads, and `flockfile`.  stdio writes its buffer at any
time.  opjitconv copies the file under its own `flock`, parses the copy, resolves
overlaps and makes an ELF file, or fails at any of these steps; the results are
combined as in `op_process_jit_dumpfiles`.  A dump without JIT records has no ELF
file, and where it has samples the code copies the file all the same, which fails
(`copy_elffile`): the run ends with a failure and leaves the other dumps.  `JitSymbols` has the resolution as
functions of the list of entries, as far as the names of the symbols that are
split.

### SampleFiles, ArrangeProfiles, Archive, BinaryImages, SymbolReport, DebugLine and Reports

Pure functions, applied by `Reports` to states that grow: sample files are
created, samples are added, code is loaded.  A path is a sequence of components,
so that what mangling puts together and parsing takes apart is modelled, while
characters are not.  `BinaryImages` selects symbols and their ranges from a
binary, with or without a debug file; `SymbolReport` gives samples to symbols, to
pairs of symbols, to lines and to instructions.  The properties compare this with
definitions that speak of single samples.

`Archive` has the copies oparchive makes of images, debug files and sample files.
`SpecsMatch` says of them that a report of the archive on a machine that has
nothing else selects the same samples and finds the same images, also when the
archive is archived again.  Two things are left out of what it promises, because
the code does not do them: the tags `image:` and `lib-image:` are resolved before
`--image-path` or an archive take effect, and an archive of an archive puts debug
files below the directory of the first, where they are not looked for.

`DebugLine` has the line programs opjitconv writes for JIT code, opcode by opcode,
and the state machine of the DWARF standard that a reader of them runs;
`ElfRight` includes that the reader finds the line an agent gave for an address.
A step that is too large for the one-byte opcodes takes the longer form, and the
difference of two line numbers is unsigned (`D32` and `D64` are the builds where a
long is as wide as an int, and wider).  The sequence ends at the address of its last
row, so the code after that row has no line.

### EventTables, Ibs and Events

`Events` loads a table line by line, so every small table is met, also the ones
that are refused.  `EventTables` has the checks of an event, the backtracking
allocation of counters, the daemon's list of events and the encoding for
perf_events.  A mask is the set of its bits.  The default event of each type of CPU
(`op_default_event`) is programmed like one that was asked for (`SampleEvent`).

`Ibs` is instruction based sampling, from the option that selects derived events
to the file each is counted in.  A register is the set of its bits; `IBS_FETCH`,
`IBS_OP_BR`, `IBS_OP_NB` and `IBS_OP_DC` are the flags and fields of the macros, and
`trans_ibs_*` give for each derived event of a group whether a sample is one and
what it adds.  An event of the selection gets the next virtual counter
(`ibs_set_event`), with its own sample files.  In `Events` a daemon is started
with a selection and given samples, any of which may be the last entry of its
buffer; `SampleEvent` then says that the files of each selected event name that
event and add up to what the samples mean for it, whatever else is selected and in
whatever order, and that events that divide others between them (hits and misses,
page sizes, local and remote) add up.

### Host and Ocount

A machine is a record of what its files and system calls answer; `Host` computes
the type of its CPU, the CPUs that are online and whether the user may count.
`Ocount` starts with a machine and a command line, opens a counter at a time,
sleeps in ticks of 100 ms, reads and displays; events, exits of tasks, a CPU that
goes and SIGINT happen at any time.  An interval is given in ms and rounded to ticks,
one at least (`Ticks`).  A list of processes is a list of their threads, and of
none when a task is another user's (`get_process_info`).  A fork, a pipe, the
child's own read or write, an opening and the reading of a counter may fail
(`PipeFails`, `AppFails`, `ReadFails`, `LineFails`); `failure` remembers which of
them it was.  Left out are an end of file in place of a count, which only pinned
events have, and counters that share a register in turns.

## The runs

Every run is `tlc -config <cfg> <MC module>`.

| run | shows | instance |
|---|---|---|
| `odb` | the inductive invariant, the reader's safety, bounds of a report, `odb_check_hash`, and the refinement of SampleCounts | four keys, three of them in one bucket; a file that grows from 4 nodes to 8; counts to 2; killed at any point but inside a rebuild or a commit |
| `trans` | Attribution (with one sfile for one sample file), NoDangling, ArcConsecutive | six configurations, one of them with IBS; two processes (one without cookie), kernel, module and Xen; or three contexts (with separate threads: two threads of one process) with up to two regions each, and a cache of two mappings; two sfiles |
| `sfile` | LruComplete, InUseLive (with no handle left open), OpenEnds (with no abort while something can be closed) | three sfiles, three descriptors, two entries for arcs |
| `main` | BufferStored, DumpReturns, KillEnds | two samples, two dumps, one further signal |
| `operf` | AllConverted, OldDataKept, OperfEnds, AppReleased | every command line, two records, a pipe that holds one, one SIGINT |
| `convert` | Attribution, SamplesAccounted, Inherited | three processes, two forks, a name, two mappings, two samples, a throttle record, seven kernels, four records in all; two mappings of anonymous memory with one name and start and two ends |
| `stream` | RecordsDelivered, EventKnown, ReaderEnds | two threads, two CPUs, two events, two records of two sizes in rings of four units and a pipe of three |
| `jit` | RecordsWhole, SuccessMeansConverted, ConversionEnds | one or two threads, two records, one run of opjitconv over two dump files |
| `report` | FilesArranged, SpecsMatch, ElfRight, SamplesKept, ReportsAgree, Annotated | two files out of six sfiles, two events, two tools; three samples in seven places of four binaries; three pieces of code; three line tables; two archives, of a store and of each other |
| `events` | CountersAllocated, SampleEvent, UnitMaskRight | tables of up to six lines: of three bits of mask, with some twenty specifications; or with up to four events, whose counters are one, two that overlap, all three or none, up to three of them asked for in every order, and four; three counters and the timer's; nine selections of IBS events, five of them refused, two samples out of 19 fetches and 45 ops |
| `ocount` | IntervalsAddUp, AppNotLeft, CpusCounted, OcountEnds | 23 machines, some twenty command lines, a process with two threads and another user's task, two events, intervals of one second, less and more, rounded up, down and to one tick; any of the failures |
| `events_mask` | **violated**: `MaskProgrammed` | as `events` |

Why the bounds are enough to be interesting. In `odb` the file doubles with a bucket
of two nodes that the rebuild splits, and a reader can begin before and end after
it; its counts do not reach the wrap at `ValueBits`. In `trans` two sfiles suffice
for a cached and a last one that differ, for eviction, and for one made twice; an
address in each kind of image covers `find_kernel_image`. The inputs depend on the
configuration (`Load`), so that each is met with the load it matters for. In `sfile`
two sfiles in use leave one to evict, and an sfile with its arcs can use up the
table, so that the abort is reached. In `main` the second dump can meet the buffer,
the conversion or the file of the first. In `operf` a second record blocks the
recorder in its write while the reader may be killed. In `convert` four records are
two forks, a name and a mapping, or a fork, a name and a mapping around a sample, or
two samples and what comes between them, in every order; a sample that is logged to
a mapping which was replaced meanwhile needs five, and was met with that bound. In
`stream` a ring of four units makes the second record wrap, and the window of the
file ends inside one. In `jit` two records of two threads can be interleaved in the
buffer; in `report` three pieces of code can overlap in a chain, and a symbol has
samples at both of its ends. In `events` there are two kinds of tables (`Load`): in
one the six lines are those of two unit masks and two events; in the other they are
a mask and four events, so that three and four compete for three counters: the first
choices of two events are wrong at once, or no choice is right and the request is
refused. In `ocount` the numbers of the CPUs have a gap, and an interval goes on for
more than one second.

None of the systems has to go on (a user may do nothing), and the bounds end
them: deadlock is not checked.

### Fairness

* `sfile`: weak fairness of the steps inside `opd_open_sample_file`; it is
  sequential code that waits for nothing.
* `main`: weak fairness of the daemon and of opcontrol, which run whenever they
  can; of opjitconv ending; and of SIGTERM being sent again once a shutdown has
  begun, which is the loop of `do_kill_daemon`.  Nothing is assumed of samples,
  so a daemon may sleep in `read` for ever: without the repeated signal KillEnds
  fails, as the comment in opcontrol says.  DumpReturns also needs that
  `complete_dump` can make its file (`DumpFileErrors = FALSE`); if it cannot,
  opcontrol waits for the next buffer.
* `operf`: every process of operf, and the child up to its exec, is scheduled;
  the five seconds of a time-out pass.  Nothing is assumed of the application,
  of opjitconv or of the user.
* `stream` and `jit`: the reader, and opjitconv, are sequential and go on when
  they can.
* `ocount`: ocount and the child up to its exec are scheduled; nothing makes the
  application end, an event happen or a call fail.  Only `MaxOutputs` intervals are
  begun unless ocount was told to stop or its application has ended; OcountEnds does
  not count that as an end, and needs that SIGINT or waitpid is acted upon.

### Where the code departs from what it says

The run `events_mask` shows that operf and ocount do not program the unit mask
that was asked for when it is given by a name with extra bits, or as zero.

The other departures that were met are part of the models; the properties are
stated so that they say what holds nevertheless, and their comments, or the
hazards in `PROJECT.json`, name the case:

* a count wraps to zero where `unsigned long` is wider than `odb_value_t`
  (`StoredSum`), although odb.h says that the range never contains zero;
* a writer killed between the stores of a commit, or in a rebuild, leaves a file
  that is not in order (`KillPoints`);
* a sample in a second anonymous region of a process is stored for the region that was
  sampled before it: `find_anon_mapping` changes `trans->anon` only, and
  `opd_put_sample` keeps the cached sfile while the context is the same
  (`Attribution` of `OpdTrans`);
* `last` and `last_anon` then disagree, so that `do_lru` may free the sfile of the
  last sample without clearing `trans->last`, and the arc of the next sample is logged
  from it (`ArcConsecutive`).  It takes much: tracing is on; a second process has its
  sample with no code between that clears `last`, thus by a switch from user to user
  that begins no trace of its own; and that sample misses the cache of mappings, is
  added to a cache that is full, and evicts the older of the two regions;
* a mapping of anonymous memory that has the name and the start of another process's
  gets the end of that one (`__handle_mmap_event`; `Attribution` and `Inherited` of
  `OperfConvert`);
* the error path of `create_path` puts sfiles on the list that were not taken
  off (`PathFails`), in the daemon and in operf;
* `complete_dump` of an earlier buffer ends the wait of a later dump
  (`DumpReturns`: the samples are stored, but later), and `signal_child` is never
  reset, so that the daemon waits for every later conversion (`CheckChild`);
* operf rotates older samples away for a lazy system-wide session that never
  started (`OldDataKept`), and leaves the application waiting when the recorder
  cannot be forked (`AppReleased`);
* when a process that was forked gets a name, "we remove these unnecessary parent
  mmappings" (`try_disassociate_from_parent`) is said of the process; what its own
  children have through it from its parent stays with them, and what it had mapped
  itself stays with them even after their own names (`Inherited`);
* a sample is logged to the thread, CPU or mapping of the one before it ("the same
  context") although another thread, CPU or a mapping came between; to the event that
  a throttle record or a sample that was not logged left, and is dropped or not for
  that event's `no_user`; and to a mapping that is no more, where a later one overlaps
  it (munmap is not recorded): `Attribution` of `OperfConvert` names each case, and
  has none for the process and the application;
* a sample with an unknown id ends the conversion, and what was still to come or
  deferred is neither logged nor counted as lost (`SamplesAccounted`);
* opjitconv reports success for a dump it could not copy, and after a failure
  when it cannot remove its temporary directory either
  (`SuccessMeansConverted`);
* a dump that has samples but no JIT records makes opjitconv fail, because the ELF
  file that was never made is copied, and keeps it from the dumps that follow
  (`copy_elffile`);
* a dump file that is copied in the middle of a record can keep opjitconv busy for
  ever (`ConversionEnds`);
* a unit mask in which two values occur twice is matched against the second
  (`UnitMaskRight`);
* an IBS sample is dropped when it is the last entry of its buffer: `opd_ibs.h`
  says that 7 words (13 for an op) are what a sample needs, and
  `opd_put_ibs_sample` asks for one more;
* the `fetch` pointer of an op's `ibs_sample` is not set: where malloc returns
  memory that is not clear the op is decoded as a fetch (`IbsStale`);
* `DE_IBS_FETCH_ATTEMPTED` counts every fetch, where the comment says "any
  non-killed fetch";
* IBS samples of an ignored image are logged, and an arc that follows an IBS
  sample has an event that is no counter, at which `get_file` aborts;
* ocount leaves its application running when a counter cannot be read for an
  interval (`do_results` exits), and the child that waits for its word when a pipe
  fails (`app_started` is not set); and so it does when SIGINT comes before its
  handler is installed (`AppNotLeft`);
* a child that cannot say that it is ready leaves ocount waiting for it, with SIGINT
  blocked (`OcountEnds`);
* the sibling count of a P4 is never found (`cpu_info_number`), and a CPU without
  an `online` file makes `op_get_available_cpus` fail when another is offline.

## What is proved

The theorems hold for every value of the constants that the named assumptions
(`ASSUME` in the component's module, which TLC evaluates on every run) allow.
Each rests on an inductive invariant, whose initial case and steps are lemmas
with one step per action; TLC checked every invariant on the run's instance
before it was proved.

| module | theorem | states |
|---|---|---|
| `OdbProofs` | `Invariance`, `ReaderSafe`, `ReportsBounded`, `CheckPasses`, `Refinement` | IndInv, ReaderSeesWritten, ReportBounded, OdbCheckHash, CountsSpec |
| | `TablesDisjoint`, `TypeCorrect`, `KeysUnique`, `LookupEnds` | parts of it |
| `OpdSfileProofs` | `ListComplete`, `InUseNotFreed` | LruComplete, InUseLive |
| | `SfileInvariant`, `AbortsOnlyWhenFull` | the invariant, the safety half of OpenEnds |
| `DaemonProofs` | `NothingDangles` | NoDangling |
| | `SampleAttribution`, `ArcsConsecutive` | Attribution, ArcConsecutive |
| | `ListsAlwaysSound` | that the lists stay sound |
| | `TransInvariant` | the invariant |
| | `BufferSafe`, `MainTypeCorrect` | BufferStored |
| `OperfRunProofs` | `RunInvariant`, `RecordsConverted`, `OldDataUntouched` | AllConverted, OldDataKept |
| `PerfStreamProofs` | `EveryRecordDelivered`, `EveryEventKnown` | RecordsDelivered, EventKnown |
| | `StreamInvariant` | the invariant |
| `OperfConvertProofs` | `EverySampleAccounted`, `MappingsInherited`, `SamplesAttributed` | SamplesAccounted, Inherited, Attribution |
| | `ProcessesInvariant` | the invariant of Inherited |
| `JitDumpProofs` | `SuccessIsConverted`, `WholeRecords` | SuccessMeansConverted, RecordsWhole |
| `OcountProofs` | `OcountInvariant`, `IntervalsRight`, `AppEnds`, `EveryCpuCounted` | IntervalsAddUp, AppNotLeft, CpusCounted |

### The sample file

Assumed are that keys and hash values are natural numbers, that the first size is
a power of two and widths are natural numbers, and `Clean`: the writer is not
killed inside a rebuild or between the two stores of a commit.  Without `Clean` a
node that was linked but not committed is found by the next writer's lookups, and
then overwritten by the next node to be added.

None of the properties is inductive alone.  That keys are unique needs that a
lookup that misses has really seen all nodes of its key; that needs that every
chain holds all nodes of its bucket; and that has to be said in the middle of a
rebuild and of an addition too.  The form that makes it inductive is `ChainInv`:
with `LinkedNr` the number of nodes linked so far, the bucket of `b` is the newest
linked node of `b`, and the `next` of a node is the newest node of its bucket that
is older than itself.  It speaks of no path and needs no induction over chains; a
rebuild, which links nodes from old to new, is the same statement with a smaller
`LinkedNr`, and a commit changes it not at all.  `DescrInv` adds what the
descriptor says at each program point, and `OperationInv` what the operation has
established: a lookup is in the right chain and all nodes of its key are still
before it, and once it missed there is none.  `TablesDisjoint` says that the hash
table of a doubled file begins where the old file ended or later, which is why it
need not be cleared (the comment in `odb_grow_hashtable`).  The refinement follows
from the same invariant by three lemmas about `Count`.

`ReportsBounded` needs, besides, that counts stay within `odb_value_t`
(`MaxCount < 2^ValueBits`; when they do not, a sum starts again at zero), and
`ReadInv`: what the reader has added up of each node lies between what its key
counted when the iteration began and what the node holds now.  `CheckPasses` shows
that the walk of a chain meets each node of its bucket once and ends, by induction
on the length of the walk, from `ChainInv`.

### Sfiles

`ListOf(l, S)` says what the pointers of `op_list.h` mean: for some numbering of
the set `S`, with the head at both ends, the next links go along it and the prev
links against it.  `list_del` and `list_add_tail` turn a list of `S` into a list of
`S` without, and with, an entry; a walk visits the numbering in order, so deleting
while walking (`for_each_sfile`, which takes the next link before it calls) leaves
a list of the rest.  `SfileInv` is that the links are a list of the sfiles not in
use, that what is in use exists, and that a file is opened for the current sfile.
`LruComplete`, which only speaks of what a walk sees, is not inductive: it says
nothing of the prev links that the next deletion follows.  Assumed are finitely many
sfiles, room for one open file, and that one call of `sfile_lru_clear` frees
an sfile at least (`LRU_AMOUNT >= 2`, it is 256).

### The event buffer

What `OpdTrans` caches from one sample to the next is right only as long as whoever
changes the context or frees an object clears it.  `TransInv` says what that comes
to after every entry of the buffer.  `CacheInv`: the current sfile exists and is one
of the context (`OfContext`: the fields that `do_match` compares, and the process of
its mapping), the current mapping exists and is one of the process, and the last
sfile exists and is, with its address, the sample before (`prev`).  `SfilesInv`: sfiles
refer to mappings and images that exist, and each has the hash that its own fields
give (`HashOf`), so that two which agree in what is compared would have been found in
one bucket: without this `UniqueSfiles` is not inductive.  `FoundInv`: the mapping of
the cached sfile has the address that the sfile was found for.  `LoggedInv`: a sample
of the kernel that has just been stored was taken in the image of its sfile.

A sample goes through three steps, and the lemmas follow them.  `LocatedHeld`:
`find_anon_mapping` leaves the context alone, and what it frees (the mappings of the
process on a miss, and the oldest of all when the cache is full, in the middle of the
fold over the lines of `/proc/<pid>/maps`) takes sfiles and cache entries with it;
`Grown` is the invariant of that fold.  Of the last sfile it keeps `LastOf` only:
whoever frees a mapping clears `last` if that mapping is `last_anon`, so the last
sfile is there as long as its mapping is `last_anon`.  `SfileFound`: `sfile_find` finds
the one sfile of the context or makes it.  `OpenedReady`: a full table of open files
frees no sfile in use.

All theorems hold for any number of anonymous regions per process.  What a second
region breaks is excepted in the properties themselves, where a reader sees it:
`Attribution` says of a mapping that it has the address sampled *or the one that the
cached sfile was found for*, and `ArcConsecutive` that the sfile of the sample before
exists *if its mapping is the one that sample was in*.  Without either exception TLC
finds them violated on the instance of `trans`.  Assumed are that ranges are not empty and begin above zero, that
`LRU_SIZE` exceeds `LRU_AMOUNT + 1` (8192 and 1024), and that separate_kernel
implies separate_lib.

### The daemon's main loop

`BufferStored` says nothing of the points between the read and its use, where
signals are acted on: `BufferInv` adds that there a buffer is unstored only if the
read returned one (`got`), and that an interrupted read leaves `got` false,
because then `opd_do_read` goes round without processing.  The bound on children
in `MainTypeCorrect` needs `ChildrenInv`: a line in the pipe is a child that is
still to be made, so the children and the line together are counted against the
dumps.

### operf

`RecordsConverted` follows a record from the ring to the samples.  `Conserved`:
unless the recorder failed or a record was bad, records made are those in the
ring, in the pipe and converted.  `RecorderInv`: the recorder ends by itself only
with the ring drained *after* the counters were disabled.  `ReaderInv`: the reader
ends by itself only when the pipe is empty and nobody can write to it.
`ParentInv` carries what the parent knows through its waits and kills: it
ends with `ALL_OK` only when it has reaped both, and took no failure for success
unless it was interrupted.  `OldDataUntouched` needs `DirsInv`: the reader, which
moves the old samples away, exists only when the recorder said it was ready.

### The stream of records

A record is a run of units that may lie in a ring, across its edge, in the second
part of a copy, in what a full pipe has not taken yet, in the pipe, in the
reader's hands or across the edge of the window on a file, and in several of these
at once.  The invariant `StreamInv` needs one notion for all of them.  A *state* is
how many records of each ring are complete, and the last unit of the record under
way, if there is one; a unit may come in a state if it goes on with that record or
begins the next of its ring.  `Leads(m, s, q, z)`: the units `s`, one after the
other, lead from state `q` to state `z`.  It can be joined and cut anywhere
(`LeadsJoin`, `LeadsSplit`), which is what every copy, partial write and read does.

With `<<c, u>>` the state that has been written up to, `WriterInv` says that each
ring leads from there to the number of records stored in it, and, while a ring is
being copied, that the part which is copied ends with a record; so a record
of the recorder's own, or of another ring, never comes into the middle of one.
`ReaderInv` says that what is on the way (`Flow`, or the file beyond the place of the
reader) leads from what the reader has counted to `<<c, u>>`.  When the recorder has
ended and the reader has no more to read, both are empty, and what was counted is
what was stored: `RecordsDelivered`.  Each record that is stored, copied, written or
cut out moves units from one piece to the next.

The header comes before the first record: `Follows(k, c, u)` is what is left of it
after `k` units, followed by records.  Counters are opened event by event, so the
`j`-th id of event `e` is `(j - 1) * NumEvents + e` (`CountersInv`); whether the
reader takes the ids from the header of a file or one by one from the pipe, it ends
with these (`AtIds`), and finds for an id the event of its counter, which is
`EventKnown`.  That a sample's id belongs to a counter is part of what may come.

`StreamAssumption` asks for sizes greater than zero, finitely many threads, records of
two units or more (a header and a body) that fit in a ring, and in the window when
it begins up to a page before them.  The last is what `ReaderEnds` needs, not these
theorems: a record that does not fit in the window would be mapped for ever.

### Samples

A sample waits or has an end, never both (`FateInv`): the numbers in
`unresolved_events` are distinct and belong to samples that have no fate yet.
`SampleHandled` is the lemma that carries it: whatever is known of the process, the
mapping, the kernel and the context, `__handle_sample_event` either ends the sample
or defers it, and defers only in the first round.

`MappingsInherited` rests on `ProcessesInv`. Its parts speak of what a process was
*given* for the mappings it reported (`Given`: the first report of the name and
start, for anonymous memory). `FirstInv` ties that to the code: `all_images_map`
has, for each name and start, the one mapping that was reported first, so that a
record gives what `Given` says (`FirstGiven`), and what was given once stays
although others report the same place later. `Tree`: a process was forked by one
that is known and has the smaller pid, so that there is no circle. `HandedDown`:
where the parent has a mapping, what it has forked has one, mixed or not; without
this a mapping that the parent is given later could go unnoticed by a process that
is not mixed. `OwnKept`: what a process has mapped itself is never marked as its
parent's, so that it stays when the process is disassociated. `Regular`: what
`Inherited` says, and that what is not the process's own is marked as its parent's,
for processes that are not mixed. Each record hands mappings to a `family`; the
argument of every lemma is that a process of the family other than the first has its
parent in the family (`FamilyMembers`), and that is proved from the family being the
smallest closed set.

`SamplesAttributed` rests on `AttributionInv`, which adds what is true of the context
between two samples (`ContextInv`): a process that a context names is known with a
valid name; the sfile is that of the process; the event is that of the id unless
`stale` says otherwise; the image is an image of the kernel, or a mapping that the
process still has unless an MMAP record came since or it is mixed.  Three things carry
it.  A name that is valid stays, whatever record comes (`NamesKept`): that is why a
FORK or COMM record between two samples does no harm, and why the property excuses
nothing about the application.  A lookup gives the process, an image of the kernel or
a mapping that has the address (`LookedUp`), also for every caller that
`__handle_callchain` goes through (`CallersFollowed`, by induction over the chain).
And one mapping at an address means one image (`OneImage`): what is found is what the
process itself has mapped there or what its parent has, by `ProcessesInv`.
`Overlap` and `OtherRange` are what is left to except of the image.  The assumptions
are those on the data: pids, ids and addresses of mappings are not 0, the name of a
mapping tells whether it is anonymous, and samples of user code are not taken at
addresses of the kernel.

### JIT

`WholeRecords`: the thread that holds `flockfile` is the only one with half a
record in the file or its buffer, the buffer is empty when nobody holds it, and
what is in the dump file and the buffer together is a sequence of whole records
but for that half (`FileInv`, `Whole`).  `flock` plays no part in the proof, which
is the point of the hazard: it does not order threads.  `SuccessIsConverted`: each
dump with samples is still to be done, being done, or settled, unless the run has
failed (`SettledInv`); settled is one that has its ELF file or could not be locked or
copied, and having no JIT records is no such excuse, since it ends the run.
There has to be a thread (`ThreadsAssumption`).

### ocount

`OcountInv` has six parts. `TimeInv`: what was slept and what is left make up the
interval, also for the rest of less than a second. `ShownInv`: between the reading
and the display a line has shown what it had before and will show the difference;
what was read was not more than what is counted now, since counters only grow
(`CountedGrows`, by induction over the sum). `AppInv`: the application is told to
start before anything but its pipes can fail, a failure of a pipe comes before it is
told, and each way to the end but the failing read leaves it dead. Actions in which
a call fails change nothing of the rest (`LineFailsKeeps` for a reading in the
middle of the lines). `CpusInv`: each CPU that is online has a counter or is in the
list to be opened; that `setup` makes such a list is `SetupCovers`: the answers of
successive calls of `op_get_next_online_cpu` enumerate the CPUs that are online,
whatever the order of the directories (`AvailableIs`). `OcountAssumption` asks for
finitely many CPUs and tasks, for at least one event, for ticks and seconds that are
not zero (`TicksIsNat`: an interval is then a number of ticks), and that no
directory is listed twice.

### Induction

What a recursive function computes is proved by induction over sets
(`NatSetInduction`: a set that has 0, and with every number the next, has all), and
the recursion equation from `RecursionExists`, or `FoldExists` and `FoldIterates` for
the fold over a sequence, since the library's theorems, which
take an operator as a parameter, cannot be instantiated by the provers.  RECURSIVE
operators remain out of reach, as do ENABLED and liveness.

### Only model-checked

* All liveness properties: OpenEnds (but for its aborts), DumpReturns, KillEnds,
  OperfEnds, AppReleased, ReaderEnds, ConversionEnds, OcountEnds.
* What `Reports` and `Events` say: search and parsing with RECURSIVE operators; TLC
  checks them for all small inputs.

## What is not modelled

Stores that are reordered by hardware (`FIXME: we need wrmb()` in `add_node`);
two handles of one sample file name (`ref_count`); SPU and perfmon, which are built
for one architecture each; IBS's logs of memory accesses and branch targets, and
arcs with IBS; the start-up of the daemon and the lock
file; the P4 tables of op_netburst.c; options and their texts, formats of reports
and XML; the statistics and logs that oparchive copies; opimport and the dialog;
the abbreviations of the DWARF sections of JIT code; libregex and libopt++, which
wrap libraries.  `PROJECT.json` gives the reason for each.

## Plan

1. **Proofs**: the lemmas on induction, on folds and on the k-th smallest number,
   which several of the proof modules have, in a module of their own; the searches
   of `Reports` as recursive functions.
2. **Composition**: OpdSfile over Odb with shared handles (`ref_count`, files
   that opcontrol --reset replaces), and SampleCounts extended by requests so
   that a sample that was taken is counted exactly once.
3. **Start-up**: lock file, pipe, two daemons.
