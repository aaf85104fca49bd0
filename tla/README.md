# A TLA+ model of Linux-Energy-Tool

Linux-Energy-Tool measures the energy of a Linux machine with RAPL and attributes it to
processes, containers or whole programs in proportion to the CPU cycles they used. It is one
C program (`src/src/main.c`, or `src/src/main_nvml.c` with an Nvidia GPU) that runs in one of
several modes. This directory holds TLA+ modules of it, the TLC configurations that check
them, and TLAPS proofs about them. `PROJECT.json` maps every definition to the lines it models.

## 1. Inventory

| Part | Source | State | Operations |
|---|---|---|---|
| RAPL arithmetic | `energy.c` `check_overflow`, `estimate_energy_cycles` | `max_range`, `idle_consumption`, `idle_min` (written once) | difference of two readings of a wrapping counter; share of an interval's energy |
| calibration | `energy.c` `init_rapl`; `main.c` `-i` | 181 samples, `config_idle.txt` | sample, average and minimum, rewrite the file, read it at every start |
| perf events | `perf_events.c` | descriptors, counts in the kernel | open for a CPU, a process or a cgroup; read-and-reset; close |
| measuring loop | `main.c`, default, `-m`, `-c` | `system_stats`, before/after readings, total | before reads, sleep, after reads, cycle reads, estimates, printing |
| process list | `main.c` `-m`, `process_stats.c` | array `processes`, `num_processes` | set up, read, estimate, remove while walking |
| container list | `container_stats.c`, `main.c` `-c` | array `containers`, `num_containers`, flat array `cgroup_perf_fds` | walk the cgroup directory, add, update, remove |
| benchmarking | `main.c` `-b`, `-e`, `benchmarking.c` | the cgroup `energy_benchmarks`, its events, working directory | directory walk, reset, run, read, log, close |
| statistics | `process_stats.c`, parts of `container_stats.c` | value of the last read, interval value | read /proc or cgroup files, subtract |
| log buffer | `logging.c` | a 4096-byte buffer of main, a stream | append, print, flush, clear |
| GPU variant | `main_nvml.c`, `read_nvidia_gpu.c` | `gpu_energy_est`, `terminate_gpu_thread` | sampling thread beside the main loop |
| argument handling, printing | `main.c` | `logging_enabled` | dispatch on `argv[1]` |

**Interactions.** Everything but the GPU variant is a single thread; what runs concurrently is the
machine. The loop reads RAPL counters that keep advancing, perf counters that keep counting, /proc
files of processes that end and cgroup files of containers that start and stop. The list modules
own the perf descriptors they opened; a failed open is stored as the number 1, which is a valid
descriptor of something else. `-b` shares a cgroup with the program it measures and with whatever
that program leaves behind, and changes its own working directory on the way. `-i` talks to later
starts of the tool through a file. The GPU variant's second thread shares a sum and a flag with main.

**What is hard here.** Counters that wrap, and reads taken at different moments; arrays edited while
they are walked; descriptors that are reused by the kernel; operations whose results are ignored
(`chdir`, `rmdir`, `opendir`, `open`, `read`); values from an earlier run, entry or directory that
are taken for new ones; a tool that is meant to be ended by a signal; one unsynchronised sum. The
list with lines is under `hazards` in `PROJECT.json`.

**What makes each part correct.** Loop: the energy reported for each interval is what was really
consumed in it, no energy or cycle is in two intervals. Lists: no entry is duplicated or skipped, and
none leaves but by its own failed read; each entry is read from its own events; events are closed with
their entries; what starts gets listed and what ends gets removed. Benchmarking: a record is of the
program it is named after and of its run alone. Calibration: what a start finds is the last complete
result, and it is the energy consumed. Log: whole intervals, in order, none missing but the last.
Statistics: an interval's value is of that interval, and print and log agree. GPU: no sample is in
two totals.

## 2. Modules

| Module | Models | Composes |
|---|---|---|
| `Rapl` | `check_overflow`, `estimate_energy_cycles` and the counter they are about | |
| `EnergyLedger` | abstract: what a loop promises of one domain's energy | |
| `MonitorLoop` | one interval of the default, `-m` and `-c` loops against a running machine | extends `Rapl`, implements `EnergyLedger` once per domain |
| `ProcessMonitor` | the process array of `-m`, its sweep and its events | |
| `Containers` | the container list of `-c`, its events and the descriptor table | |
| `MCContainers` | symmetry for TLC, and the check of a closed form used in `Containers` on a small instance | extends `Containers` |
| `Benchmark` | `-b` and `-e` | |
| `Calibration` | `-i`, `init_rapl` and `config_idle.txt` between them | |
| `Statistics` | interval values of a process, a container and the system | |
| `IntervalLog` | `logging_buffer`, the stream and the file, in all modes | |
| `GpuThread` | the sampling thread and the loops of `main_nvml.c` | |
| `*_proof` | theorems about the module they are named after | extend it and `TLAPS` |

### Rapl
Energies are integers in microjoules. `Advanced` is the hardware counter, of any range;
`CheckOverflow` is the code's difference, which always corrects by the one `max_range` (`MaxRange`, 0
where it was not read). The double arithmetic of `estimate_energy_cycles` (a rounded quotient, a
rounded product, a truncating conversion) is a set of results, `Share`: those within one of the
integer quotient that keep on the right side of the whole, as rounding is monotone. The idle values are
any integers; `-i` can leave negative ones.

### MonitorLoop
`pc` walks through the reads of one interval in the order of the code, which differs by mode
(`AfterBefore`, `AfterTotal`, `AfterSampleSys`, `AfterSampleTasks`): the default mode sleeps and
reads cycles between the before and the after reads, `-m` takes the system's cycles before the
processes', `-c` the other way round. `readInterval` is two steps, `ReadCount` and `ResetCount`,
because cycles are executed between the read and the reset. `Consume` and `Execute` are the
machine and may happen anywhere. Each domain's counter wraps at its own range (`PkgRange`,
`DramRange`), and the code corrects both by `MaxRange`. `mode` and `available` (the RAPL domains whose
file opens) are chosen at the start and never change; a domain that does not open reads 0. `-m`
opens the processes' events before the system's (`main.c:169`, `185`), so that its first counts may
hold earlier cycles. One event stands for the events of all CPUs: the code adds
them up and never looks at one alone. The set of tasks is fixed here; how it changes is the
subject of the next two modules, as is the end of `-m`.

### ProcessMonitor
An entry is named by the position of its pid on the command line, so that two entries may name one
process. A read of an entry fails (`ReadFails`) when one of its three files does not open: always if
the process is gone, and possibly for a live one, for lack of a descriptor or of permission. So may
`perf_event_open`. `SweepRemove` is the whole iteration that removes: the event is closed, the array
shifted, `num_processes` and `i` decremented, *and* the estimate the same iteration still writes to
`processes[i]`, the entry before the removed one. `Exit` and `Reap` are a process's end and its
parent's wait: between them the process is a zombie, whose /proc files still open. `terminal` says
whether a read of descriptor 1 waits for input (`Waiting`).

### Containers
A directory walk (`OpenDir`, `SkipEntry`, `AddEntry`, `OpenCgroup`, `OpenEvent` once per CPU,
`FinishAdd`, `CloseDir`) serves both `get_docker_containers` (`first`) and the second half of
`update_docker_containers`; `UpdateEntry` and `RemoveEntry` are the rounds of its first half.
Descriptors are numbers of a table from which the kernel hands out the lowest free one, so a number
kept too long comes to stand for another file. Cells never filled hold what `malloc` left, 0 (standard
input) or a number of nothing; a removal may move one into a listed entry, and `Waiting` is every
read of a descriptor that waits for somebody to type. `SourceCell` is which cell
`remove_docker_container` copies into a freed cell, as the code has it (`num_containers + j`,
evaluated on an array that is being overwritten); that this closed form is what the sequential loop
does is theorem `RemovalIsLoop`, and TLC compares the two in `MCContainers`. Containers start and stop
between any two steps, and a restarted one has a new cgroup of the same name.

### Benchmark
`NextLang` and `NextAlg` are the two directory walks with what the code ignores: `opendir` and `chdir`
may fail (`Resolves`), an entry may be a file, `run.txt` may be missing or empty (`Kind`, chosen when
the walk comes to the entry). `runFile` is that of the working directory, which a failed `chdir` leaves
where it was. The cgroup's statistics are abstracted to the set of programs they contain (`usage`),
the perf counts likewise (`counted`). A program may leave background processes (`members`), which end
whenever they like and keep the cgroup from being removed.

`ResetCgroup` may fail to make the cgroup, or to open any of its events: `cells` says whether there
are open ones, failed ones or both, and a failed one is stored as descriptor 1, read as such (`Waiting`
on a terminal) and closed as such. `one` follows that number: standard output, then free, then the
next language's directory, which a second failure closes under the walk (`broken`).
`ReadCgroupStats` has the returns at `benchmarking.c:86-109`: `result.files` is how far it came, and
`bytes` what `cg_stats.r_bytes` and `w_bytes` hold then, which `-b` does not initialise. The record
takes its label from the directory (`Label`) and its program from `program`; `fclose(NULL)` ends the
tool if the record's file could not be created.

### Calibration
The variables of the tool live from `Start` to `Crash` or `CloseConfig`; `file` outlives them. A
sample is the sum of two counters read one after the other (`ReadPkg`, `ReadDram`), between which the
machine consumes; `exact` records what the odometers behind the counters showed. `readable` is which
domains open in this run: a missing one reads 0, and its odometer, which counts what can be read,
stands still. `OpenConfig` and
`CloseConfig` are two steps because the file is empty in between: `fprintf` fills the stream's
buffer and `fclose` writes it in one piece. `ReadConfig` and `ReadMaxRange` have the early returns
of `init_rapl`, whose result main ignores, so that `maxRange` may stay 0. Both mains hold this code.

### Statistics
One subject at a time. `usage` is what the kernel shows and only grows, except that a restarted
container begins again at 0; `Read` is what every read function does with it. `ReadProcess` has the
return at `process_stats.c:91` that leaves the interval's values as they were, `ReadSystem` the one of
its first call. Differences are taken modulo `Word`, as unsigned ones are. `used`, `window` and
`restarted` record what was really used between two reads.

### IntervalLog
A record is a pair of its interval's number and its place in it, and `Capacity` counts records: 4096
bytes hold some 70 lines of `-m` (up to about 60 bytes each, more with large numbers) or at least 11
of `-c` at the 369 bytes they may have. `Interval` lets the list change between two intervals, `Fill`
appends what the `*_to_buffer` calls of the mode append, `PrintBuffer` and `Flush` are the two halves of
`writeToFile` that a signal can separate. A file that was not opened (`opened`) makes it return with
the buffer full. An overflow ends the model: what happens to the memory behind the buffer is undefined.

### GpuThread
A sample is its number and the sum the set of the samples added up, so that the set says what a
printed total is made of. `gpu_energy_est += ...` is a load and a store, between which main may reset
or read. main is reduced to the steps that touch the shared variables, in the order of each of its
five branches. `GetGpuStats` has the three results of `get_gpu_stats`: the first device's sample, the
-1 of an error, which is truncated to 0, and no value at all without a device (`Undefined`).

## 3. Runs

Twelve runs; the passing ones take between a second and two minutes with two workers.

| Run | Configuration | Bounds | Shows |
|---|---|---|---|
| energy | `MonitorLoop.cfg` | 1 task; the package's counter wraps at 3, DRAM's at 2; 2 units of energy per domain, 2 cycles; all modes and domain sets (3.14 million states) | totals are exact but for the error of a DRAM wrap, windows disjoint, no cycle twice, what can make a share exceed the whole |
| processes | `ProcessMonitor.cfg` | 3 entries, 2 processes, with and without a terminal (86,000 states) | list, events and sweeps under removal; what is gone is removed; the tool ends |
| containers | `Containers.cfg` | 3 ids, 2 entries, 2 CPUs, 10 descriptors, 2 starts each, symmetry (2.3 million states) | no duplicates, no overflow, one visit per update, cells hold their own events, none leaks, estimates from own events |
| container_liveness | `Containers_liveness.cfg` | 3 ids, 2 entries, 1 CPU, 6 descriptors, 1 start each (74,000 states) | started containers get listed, stopped ones removed |
| attribution *(violation)* | `Containers_attribution.cfg` | 3 entries, 2 CPUs | after a removal cycles come from another container's events |
| fresh *(violation)* | `Containers_fresh.cfg` | 2 entries, 1 CPU | a container just found is reported with cycles nobody counted |
| tree | `Benchmark.cfg` | 2 languages, 2 algorithms, every tree, absolute and relative path, `-b` and `-e`, 1 program that leaves something behind, every failure (2.02 million states) | records and their names, isolation, disk bytes, end |
| gpu | `GpuThread.cfg` | 4 samples, every mode, with and without a device (29,000 states) | what printed and logged totals are made of |
| calibration | `Calibration.cfg` | 3 samples, counters that wrap at 3, any of them missing (1.68 million states) | what later starts find; exactness of average and minimum |
| range *(violation)* | `Calibration_range.cfg` | DRAM wraps at 2, the package at 3 | the package's range is wrong for DRAM |
| statistics | `Statistics.cfg` | sums up to 5 in words of 8 values, 1 restart (25,000 states) | interval values and logged values |
| log | `IntervalLog.cfg` | 4 intervals of up to 6 records, a buffer of 5 (11,000 states) | what the file holds; when the buffer overflows |

**Why these bounds are enough.** A wrap needs a counter that starts anywhere and consumption that
crosses its end: with ranges of 3 and 2 and all start positions every relation of before and after
reading occurs, with and without an error at the wrap, and two units let the windows of two
intervals both be non-empty. Three entries over two processes have duplicates and, as any read may
fail, removals at the first, a middle and the last index, several in one sweep. In both container
runs, two entries make a move possible and three ids make the list overflow; in the first, two starts
make a name refer to a second cgroup. 10 descriptors are stdin, stdout and what two entries of two
events, a directory, a cgroup and further events need; six in the liveness run, with one CPU, are just
enough, and there a removal from the full list moves the cell behind the array. Descriptor 2 (standard error) is left out; the numbers above 1 only need to be distinct.
Two languages of two algorithms have a successor within a directory and across directories, and two
failures that meet at descriptor 1; one program that leaves something behind is enough to be found in
a later record. Three
samples make two differences, so that an average and a minimum differ and one of them can wrap alone.
Four samples of the GPU let the thread be in every step across two resets. Usage of 5 leaves room for
a skipped interval between two that count. Four intervals fill a buffer of five records over several
intervals when there is no file, and one interval of six overflows it alone. What is true of any size
is proved, below. The bounds are the constants `MaxEnergy`, `MaxCycles` (`MonitorLoop`,
`Calibration`), `MaxStarts` (`Containers`), `MaxUsage`, `MaxRestarts` (`Statistics`), `MaxDaemons`
(`Benchmark`), `MaxSamples` (`GpuThread`), `MaxEntries`, `MaxGpus`, `MaxIntervals` (`IntervalLog`); all but the last two stop the
machine or the thread from acting, never the tool, and those two stop an endless loop.

**Deadlock** is checked in `MonitorLoop`, whose loops never end. The other configurations set
`CHECK_DEADLOCK FALSE`: `-m` returns, `-b`, `-e` and `-i` end, the container tool may crash on a
directory it could not open (`readdir(NULL)`), and the bounded machines of the others run out.

**Fairness.** The tool is one thread that the kernel schedules, so weak fairness of its steps as a
whole is what the code has; `sleep(interval)` returns. It blocks in two more
places. In `-e` and `-b` it waits for the measured program, taken to end. And `readInterval` blocks
where the descriptor it is given waits for a line of input: 1, the value kept for a failed event, if
standard output is a terminal, and 0, found in a cell that was never filled, on standard input.
`Waiting` marks these states in `ProcessMonitor`, `Containers` and `Benchmark`; the fairness conditions
exempt them (`WF_vars(Tool /\ ~Waiting)`) and so do the liveness properties. The variable `terminal` of
the three modules, chosen at the start, says whether descriptor 1 is one. Nothing is assumed of the
machine: processes need not end, parents need not wait, containers need not start or stop, background
processes may stay. `MonitorLoop`, `Calibration`, `Statistics`, `IntervalLog` and `GpuThread` state
safety only and no fairness.

**Mutants.** Every checked property has a mutated definition beside the one it mutates (a dropped
reset, an uncorrected index, a shift that starts late), under which TLC finds it violated.

## 4. Where the code differs from what it says

The violation runs, each with its quotation under `findings`:

* `remove_docker_container` moves the wrong descriptors (`container_stats.c:300`).
* A newly listed container is estimated and printed with a `cycles_interval` that was never assigned
  (`container_stats.c:195`): `FreshCounts`.
* Only the package's range is read (`energy.c:89`) and used for DRAM and for the sum of both.

Modelled, and visible in the premises of the properties, but not the subject of a run of their own:

* Where the DRAM counter has another range than the package's, or `max_range` was not read, a total is
  off by the difference at every wrap (`RangeError` in `TotalIsWindowEnergy`, `WrapError` of the
  ledgers), and may be negative.
* A task can be given more than the whole (`MoreThanTotalOnlyBy`): `-m` and `-c` read the system's cycles
  and the tasks' at different times, and the first counts of `-m` hold what was executed since its events
  were opened; and a calibration without a range leaves a negative idle value that is "taken off".
* A process whose files fail to open for any reason is dropped as if it had ended, alive or not
  (`main.c:211-213`, "terminated"): `DroppedAsRead` says which entries are missing, not why.
* A zombie is never removed (`main.c:211`); the function that would recognise one,
  `check_zombie_state`, is not called. `GoneRemoved` therefore speaks of processes that are gone.
* A failed `perf_event_open` is stored as descriptor 1 and read: on a terminal the tool waits for input
  (`Waiting`). Closing such an event closes standard output (`stdoutOpen`, which `EventsOfListed`
  follows; `table[Stdout]`; `one`), and the number is then handed out again: in `-c` to a file that is
  taken for an event, in `-b` to a directory that the next failure closes under the walk (`broken`).
  `AllMeasured` holds while this happens in one language only.
* A container restarted between two updates is not noticed (`container_stats.c:174`): its events
  count a cgroup that is gone, and its next difference wraps (`restarted` in `Statistics`).
* `chdir` in `-b` is not checked (`main.c:376`), nor is an empty `run.txt` (`main.c:389`): an earlier
  program, or what is in memory, is measured under the next one's name. `MisnamedIsRepeated` says
  that nothing else can be.
* `reset_cgroup` does not notice that the cgroup was not removed (`benchmarking.c:46`), and a record
  then holds an earlier run's statistics; `IsolatedRuns` holds while programs leave nothing behind,
  `CyclesOnlyOfDaemons` always.
* `read_cgroup_stats` returns at the first file that does not open (`memory.peak` is missing on older
  kernels) and `-b` logs what `cg_stats` held before, another run's disk bytes or anything
  (`main.c:400`, `424`): `BytesOfRun`.
* A record's file that cannot be created is passed to `fclose` and ends the tool (`main.c:438`).
* Removing the first process goes on with `processes[-1]` (`main.c:222-228`), memory in front of the
  allocated array. `SweepRemove` has the iteration go on without effect on the list; what that memory
  holds is not modelled.
* A directory without `run.txt` ends `-b` with the cgroup left behind (`pc = "aborted"`).
* With one CPU and a full list, a removal reads the one cell behind `cgroup_perf_fds`; `Cells` has
  that cell. Lemma `SourceFacts` shows that it is the only one, and that with two CPUs and two
  entries the array is not left.
* An interrupted calibration leaves an empty `config_idle.txt` and so loses the earlier one; and a sum
  of two counters hides one of two wraps in the same second (`OneWrap`).
* Without a file the log buffer is never emptied and overflows; so does `-m` with many pids. The
  last interval of `-m` is not logged.
* The reset of `gpu_energy_est` can be lost between the thread's load and its store: the samples of
  one interval are then in the next one too (`lost`). `-e` logs a total that may hold one sample more
  than the printed one. Only the first GPU is counted (`read_nvidia_gpu.c:117`).
* The interval values of a process without resident memory are those of an earlier interval
  (`Skipped`).

Seen while reading, not modelled: the memory difference of a container has the opposite sign of that
of a process (`container_stats.c:141`), and guest time is counted twice in the system's CPU time
(`process_stats.c:125`, as the kernel includes it in user time).

## 5. Proofs

All theorems hold for every value of the constants that satisfies the named assumptions
(`MaxRangeAssumption`, `LoopAssumption`, `NAssumption`, `SizeAssumption`, `SamplesAssumption`,
`CalibrationAssumption`, `LogAssumption`, `StatisticsAssumption`; `Benchmark` needs none): sizes are
natural numbers, positive where the code divides or indexes by them, and reserved names are distinct
from the others. `MonitorLoop` assumes nothing of how `MaxRange`, `PkgRange` and `DramRange` compare,
nor of the signs of the idle values. TLC evaluates the assumptions in the runs. Two theorems have a
premise of their own: `IdleCorrect` takes `PkgRange = DramRange`, and `NeverOverReported` a range of the
domain that is at least the one the code corrects with.

| Theorem | States |
|---|---|
| `MonitorLoop_proof!CheckOverflowExact` | `check_overflow` returns what the counter advanced by, if that is less than its range; off by `MaxRange` less the range if it wrapped |
| `MonitorLoop_proof!EstimateBound` | an estimate is a natural number for energies and idle values of any sign, and within the interval's energy if the task's cycles are within the system's and the idle energy is not negative |
| `MonitorLoop_proof!TypeCorrect` | types, in particular no negative estimate and no division by zero |
| `MonitorLoop_proof!TotalCorrect` | every total is the energy of its window and the error of the domains that wrapped |
| `MonitorLoop_proof!PkgRefinement`, `DramRefinement` | the loop implements `EnergyLedger` for each domain, with its error |
| `MonitorLoop_proof!NeverOverReported` | what follows from it: no more energy is reported of a domain than it consumed, if its range is at least `max_range` |
| `MonitorLoop_proof!EstimateCorrect` | a task gets more than the whole for one of two reasons only |
| `MonitorLoop_proof!CyclesCorrect` | no cycle is counted twice |
| `ProcessMonitor_proof!TypeCorrect`, `OrderCorrect`, `DropsCorrect`, `EventsCorrect`, `SweepCorrect` | index in range; order; the missing entries are those that could not be read; events and standard output; each entry read and estimated once per sweep |
| `ProcessMonitor_proof!EndComesNearer` | with all processes gone, a measure that every step of the tool reduces |
| `Containers_proof!TypeCorrect`, `EntriesDistinct`, `UpdateCorrect` | list and cells in range; no duplicates; each entry visited once per update |
| `Containers_proof!EventsCorrect`, `LeakCorrect`, `EstimateCorrect` | while `Sound`: cells hold their entry's own events; no event is leaked; an entry that was read is estimated from its own counts |
| `Containers_proof!CountsCorrect` | the conditional counterpart of run attribution: `OwnCycles` holds while `Sound` |
| `Containers_proof!ReportComesNearer` | a measure that every step of an interval reduces, whatever containers do |
| `Containers_proof!RemovalIsLoop` | a removal leaves the array that the loop at `container_stats.c:297-301` leaves |
| `Benchmark_proof!TypeCorrect`, `MisnamedCorrect`, `RunsCorrect`, `CyclesCorrect`, `BytesCorrect` | types; what a record may be of; its statistics; its cycles; its disk bytes |
| `Benchmark_proof!MeasuredCorrect`, `WalkAdvances` | never two records for one program, and all of a tidy tree; a measure that every step of the tool reduces |
| `Calibration_proof!TypeCorrect`, `ConfigCorrect`, `AverageCorrect`, `IdleCorrect` | array in range; last result or nothing; minimum below average; sum and minimum are the energy consumed |
| `IntervalLog_proof!TypeCorrect`, `FileCorrect`, `MissingCorrect`, `OverflowCorrect` | types; whole intervals; at most one missing; why a buffer overflows |
| `Statistics_proof!TypeCorrect`, `IntervalCorrect`, `LogCorrect` | sums and differences within a word; an interval's value is of that interval; print and log agree |
| `GpuThread_proof!TypeCorrect`, `ResetCorrect`, `LogCorrect`, `PrintCorrect` | types; samples since the reset; what `-e` logs; no sample printed twice |

**Arguments.**

* `MonitorLoop`. `TotalIsWindowEnergy` says nothing of the state between the two reads of a domain.
  `WindowInv` supplies it: while a domain's window is open its counter is the before reading advanced by
  what was consumed since, which is less than its range; once both reads are made `check_overflow`
  gives the window's size and the error of a wrap; and no window starts before the last reported one
  ended. From this `TotalEnergy` is a `Report` of the ledger, `Consume` its `Consume`, every other step
  stutters (`LedgerStep`). `SampleInv` shows that the system's count has been read, and is not zero,
  when an estimate divides by it; `ShareType` is the arithmetic of the division.
* `ProcessMonitor`. `ShiftedFacts` and `RemovedSlot` describe the array after the shift. With `SetupInv`,
  the conjunction of the invariants is inductive: `SweepOnce` needs `Ordered` (an entry is in one slot
  only), and `EventsOfListed` needs it to know that removing one slot removes one entry.
* `Containers`. `DistinctEntries` and `UpdateOnce` are inductive with `WalkInv`: the first walk adds
  without a look-up, which is safe as it starts from an empty list and gets every name once; and the
  entry moved by a removal comes from an index not yet visited.
  `TypeCorrect` rests on the arithmetic of `Cell` and `SourceCell` (`CellFacts`, `SourceFacts`).
* The descriptors of `Containers`. `EventsMatchEntries` and `NoEventLeaked` need each other: what a
  removal closes is exactly the removed entry's events because no cell holds another's, and the kernel
  hands out a number that no cell holds because all open events are in cells. `CgroupInv` adds that the
  descriptor closed at the end of an addition is the cgroup directory, neither an event nor standard
  output. Different entries have different cells (`CellInjective`). `Sound` is never regained
  (`SoundStable`), and while it lasts only the last entry is ever removed (`RemovedLast`), which is why
  the wrong source of the moved cells does no harm. `EstimateInv` says what `cycles` holds for entries
  the update has read and for those it has just found; `CountsOfOwn` is the read itself.
* `RemovalIsLoop` is about every number of rounds, but uses no induction theorem (those take an operator
  as a parameter): a smallest round after which the closed form and the loop differ would exist by
  `SmallestOf`, and `NextRound` shows that it does not. `Loop` and `Rounds` are the C loop;
  `ModShift` the one fact about the remainder in `SourceCell`.
* `Benchmark`. `ProgramInv` says that the program in `command`, and the one in the working directory's
  `run.txt`, have their record already or are just getting it; `UsageInv` and `CyclesInv` carry
  statistics and cycles from the reset of the cgroup through the run to the record, `BytesInv` what
  is left in `cg_stats` between two runs, and `EntryInv` says which name is in `entry` in each step. For
  `AllMeasured`, `WalkInv` has every entry of the tree in exactly one of three places, in the log, being
  measured, or ahead of the walk (`Labels`, `Now`, `Ahead`), and `FdInv` shows that a walk is not broken
  before events have failed in two languages. `WalkAdvances` orders what lies ahead: languages, then
  algorithms, then steps of a measurement.
* `Calibration`. `AverageInv` bounds the sum from below by the minimum times the number of
  differences, which survives the truncating division. `CounterIs` has a missing domain be one whose
  odometer stands still. `IdleCorrect` needs `ExactInv` (samples are
  what the counters showed, odometers only grow) and `LoopInv` (what is added up so far), and the lemma
  that a sum of two counters of one range behaves like one counter while at most one of them wraps.
* `Statistics`. `CountInv` is what a read relies on: the kernel's sum is the stored one and what was
  used since, unless a restart came between. `LastInv` ties the last record to the stored value until
  the next read makes them differ by the interval. `StartInv` keeps the first read apart, where the
  code has no flag but a 0.
* `IntervalLog`. `BufferInv` says in each step which part of the records is in the buffer, the stream
  and the file; `LastInv` which interval the file ends with; `CountInv` ties both to the modes.
* `GpuThread`. `StoreInv` is about the thread between load and store: what it holds is still the sum
  unless a reset came between. `FreshInv` and `PrintInv` keep new samples out of printed totals,
  `LogInv` follows `-e` from the flag to the log.

* The three measures (`WalkAdvances`, `EndComesNearer`, `ReportComesNearer`) are the part of liveness
  that does not need fairness: a step of the tool reduces a lexicographic order that is well-founded
  on finite trees and lists, and one of the environment leaves it as it is. That a step is
  possible, and is taken, is left to TLC. `EndComesNearer` needs `SetupInv`: a sweep never begins with an
  empty list.

**Only model-checked**: all liveness (`Terminates` of `ProcessMonitor` and `Benchmark`, `GoneRemoved`,
`EventuallyMonitored`, `EventuallyRemoved`), which is out of the prover's reach. Every invariant and
every action property that a passing run checks is proved. The type invariants of `Benchmark`,
`IntervalLog` and `GpuThread` are proved and not listed in a run. What the violation runs refute is
refuted on an instance; `CountsCorrect`, `EstimateCorrect` of `Containers` and `IdleCorrect` state for
every instance what is left of each claim.

## 6. Assumptions and limits of the model

* In `MonitorLoop` a domain consumes less than its range in a window: intervals are a second, wraps take
  minutes or more. What happens otherwise is in `Calibration`. The operands of the sums of two
  `read_energy` calls are evaluated from left to right, as the compilers do.
* A RAPL domain that is readable at the start stays so; of a file that comes and goes the code could
  promise nothing. Rounding of energies beyond 2^53 is not modelled.
* In `MonitorLoop` the system-wide events open (`setUpProcCycles_cpu` may return 1 as the others do, and
  would then be read as in `ProcessMonitor`), and their count of an interval is never zero, as the tool
  itself runs (`OwnCycles`). Its `-m` does not return; that is in `ProcessMonitor`.
* What `processes[-1]` holds and prints is not modelled. The cell behind `cgroup_perf_fds` is read only
  with one CPU, as in run container_liveness; run containers has two.
* `EventsMatchEntries`, `NoEventLeaked` and `EstimatedFromOwn` speak of lists in which no entry has been
  moved (`Sound`): what a move does to the descriptors is run attribution.
* In `Benchmark` a run starts from a cgroup without processes of earlier uses of the tool, descriptors
  other than 1 are not followed, and `log` is a set: two equal records would be one, which `WalkInv`
  excludes in the proof.
* `IntervalIsUsage` leaves out the interval of a restart, and `LogMatchesInterval` has print and log wrap
  alike there; `OverflowOnlyBy` names the causes of an overflow and does not exclude them.
* Pids are not reused, and the directory holds each name once. Names that do not begin with
  `docker-` are ignored by the code and left out.
* A process or container that goes away between two of the files read for it fails the last of them: one
  step stands for the reads of one entry.
* The interval is constant, `-l` logging does not influence the loops, and `malloc` succeeds. `fprintf`
  and `fflush` do not fail once the file is open, and `fflush` writes its records in one piece.
* In `GpuThread` each load and store of a shared variable takes effect at once and in program order.
* In `Statistics` the processes and containers of a list are independent of each other, so there is one.
* Not modelled: argument handling, all formatting, the GPU's displayed values, and functions that
  nothing calls (see `components` in `PROJECT.json` for the reasons).

## 7. Plan

Done: all modules named above, and proofs of every safety property the passing runs check. Left:

1. `-m` as a composition of `MonitorLoop` and `ProcessMonitor`: the tasks whose cycles are read are the
   entries of the list, and the estimate of a removal goes to the entry before it.
2. With it, theorems that the two modules' properties carry over to the composition.
