----------------------------- MODULE MonitorLoop -----------------------------
(***************************************************************************)
(* The measuring loop of src/src/main.c, common to the three modes that    *)
(* run until stopped: system-wide (no argument), -m (processes) and -c     *)
(* (containers).  The modes differ in the order in which one interval's    *)
(* counters are read, which is what this module keeps: the RAPL counters   *)
(* before and after sleep(interval), the system-wide cycle events and the  *)
(* cycle events of the monitored tasks, while the machine keeps consuming  *)
(* energy and executing cycles between any two of those reads.             *)
(*                                                                         *)
(* Which tasks are monitored is the subject of ProcessMonitor and          *)
(* Containers; here the set is fixed.  One event stands for the events of  *)
(* all CPUs, whose counts the code adds up.                                *)
(***************************************************************************)
EXTENDS Rapl

CONSTANTS
  Tasks,            \* the processes or containers monitored by -m or -c
  PkgRange,         \* value at which the package's counter wraps
  DramRange,        \* value at which the DRAM counter wraps
  IdleConsumption,  \* idle_consumption * interval, 0 without config_idle.txt
  IdleMin,          \* idle_min * interval, 0 without config_idle.txt
  MaxEnergy,        \* bound: energy a domain consumes in a behaviour
  MaxCycles         \* bound: cycles a task executes in a behaviour

Domain   == {"pkg", "dram"}
Sys      == "sys"
Counters == Tasks \cup {Sys}
None     == "none"

RangeOf == [pkg |-> PkgRange, dram |-> DramRange]

ASSUME LoopAssumption ==
  /\ Sys \notin Tasks /\ None \notin Counters
  /\ PkgRange \in Nat \ {0} /\ DramRange \in Nat \ {0}
  /\ IdleConsumption \in Int /\ IdleMin \in Int
  /\ MaxEnergy \in Nat /\ MaxCycles \in Nat

VARIABLES
  mode,        \* "systemwide", "processes" or "containers"
  available,   \* RAPL domains whose energy file can be opened
  counter,     \* the RAPL counter of each domain
  count,       \* the cycles each enabled perf event has counted since reset
  pc,          \* the tool's next step
  left,        \* events the current sampling step still has to read
  unreset,     \* the event readInterval has read and not yet reset
  before,      \* energy_before_pkg, energy_before_dram
  after,       \* energy_after_pkg, energy_after_dram
  value,       \* system_stats.cycles and the tasks' cycles_interval
  total,       \* total_energy_used
  estimate,    \* energy_interval_est of each task
  \* History variables, for the properties only.
  consumed,    \* energy really consumed by each domain
  start, stop, \* consumption at the before and the after read of a domain
  accounted,   \* sum of the energies reported for each domain
  upto,        \* end of the last reported window of each domain
  executed,    \* cycles each task has executed
  credited     \* sum of the cycles read for each task

settings   == <<mode, available>>
energyVars == <<counter, consumed>>
cycleVars  == <<count, executed>>
windowVars == <<before, after, start, stop>>
sampleVars == <<left, unreset, value, credited>>
resultVars == <<total, estimate, accounted, upto>>
vars == <<settings, energyVars, cycleVars, pc, windowVars, sampleVars, resultVars>>

-----------------------------------------------------------------------------
(* The order of one iteration, by mode.  sleep(interval) comes after the   *)
(* before reads and changes nothing by itself.                             *)
Step == {"before_pkg", "before_dram", "after_pkg", "after_dram", "total",
         "sample_sys", "sample_tasks", "estimate"}

AfterBefore == IF mode = "systemwide" THEN "sample_sys" ELSE "after_pkg"

(* Mutant of AfterTotal: the before reads are made once, ahead of the loop. *)
AfterTotalHoisted == IF mode = "systemwide" THEN "sample_sys" ELSE "after_pkg"

AfterTotal == CASE mode = "systemwide" -> "before_pkg"
                [] mode = "processes"  -> "sample_sys"
                [] mode = "containers" -> "sample_tasks"

AfterSampleSys == CASE mode = "systemwide" -> "after_pkg"
                    [] mode = "processes"  -> "sample_tasks"
                    [] mode = "containers" -> "estimate"

AfterSampleTasks == IF mode = "processes" THEN "estimate" ELSE "sample_sys"

BeforeStep == [pkg |-> "before_pkg", dram |-> "before_dram"]
AfterStep  == [pkg |-> "after_pkg", dram |-> "after_dram"]

(* Entering a sampling step sets the events it has to read.                *)
Goto(step) ==
  /\ pc' = step
  /\ left' = CASE step = "sample_sys"   -> {Sys}
               [] step = "sample_tasks" -> Tasks
               [] OTHER                 -> {}

-----------------------------------------------------------------------------
(* The tool enters the loop at an arbitrary position of the RAPL counters. *)
(* -m opens the processes' events before the system-wide ones; the cycles  *)
(* executed in between are already in their counts.  The system-wide       *)
(* events count the tool's own work (one unit) and are never zero.         *)
OwnCycles == 1

Init ==
  /\ mode \in {"systemwide", "processes", "containers"}
  /\ available \in SUBSET Domain
  /\ counter \in {[pkg |-> p, dram |-> d] : p \in Reading(PkgRange), d \in Reading(DramRange)}
  /\ executed \in [Tasks -> IF mode = "processes" THEN 0 .. MaxCycles ELSE {0}]
  /\ count = [c \in Counters |-> IF c = Sys THEN OwnCycles ELSE executed[c]]
  /\ pc = "before_pkg" /\ left = {} /\ unreset = None
  /\ before = [d \in Domain |-> 0] /\ after = before
  /\ value = [c \in Counters |-> 0]
  /\ total = 0 /\ estimate = [t \in Tasks |-> 0]
  /\ consumed = [d \in Domain |-> 0]
  /\ start = consumed /\ stop = consumed
  /\ accounted = consumed /\ upto = consumed
  /\ credited = [t \in Tasks |-> 0]

(***************************************************************************)
(* The machine.                                                            *)
(***************************************************************************)

(* A domain consumes a unit of energy and its counter advances, modulo its *)
(* own range.  A counter takes minutes to hours to wrap, a window lasts a  *)
(* second: a domain consumes less than its range while its window is open. *)
InWindow(d) ==
  \/ pc = AfterStep[d]
  \/ d = "pkg" /\ pc = "before_dram"
  \/ d = "dram" /\ pc = "after_pkg"
  \/ mode = "systemwide" /\ pc = "sample_sys"

Consume(d) ==
  /\ consumed[d] < MaxEnergy
  /\ d \in available /\ InWindow(d) => consumed[d] + 1 - start[d] < RangeOf[d]
  /\ consumed' = [consumed EXCEPT ![d] = @ + 1]
  /\ counter' = [counter EXCEPT ![d] = Advanced(RangeOf[d], @, 1)]
  /\ UNCHANGED <<settings, cycleVars, pc, windowVars, sampleVars, resultVars>>

(* A task executes a cycle: its event and the system-wide event count it.  *)
(* In system-wide mode there are no tasks to tell from the rest.           *)
Execute(t) ==
  /\ mode # "systemwide"
  /\ executed[t] < MaxCycles
  /\ executed' = [executed EXCEPT ![t] = @ + 1]
  /\ count' = [count EXCEPT ![t] = @ + 1, ![Sys] = @ + 1]
  /\ UNCHANGED <<settings, energyVars, pc, windowVars, sampleVars, resultVars>>

(***************************************************************************)
(* The tool.                                                               *)
(***************************************************************************)

(* Mutant of ReadEnergy: a missing domain shows the package's counter.     *)
ReadEnergyFallback(d) == IF d \in available THEN counter[d] ELSE counter["pkg"]

(* read_energy: a domain whose file cannot be opened reads 0.              *)
ReadEnergy(d) == IF d \in available THEN counter[d] ELSE 0

Position(d) == IF d \in available THEN consumed[d] ELSE 0

ReadBefore(d) ==
  /\ pc = BeforeStep[d]
  /\ before' = [before EXCEPT ![d] = ReadEnergy(d)]
  /\ start' = [start EXCEPT ![d] = Position(d)]
  /\ Goto(IF d = "pkg" THEN "before_dram" ELSE AfterBefore)
  /\ UNCHANGED <<settings, energyVars, cycleVars, after, stop, unreset, value, credited,
                 resultVars>>

ReadAfter(d) ==
  /\ pc = AfterStep[d]
  /\ after' = [after EXCEPT ![d] = ReadEnergy(d)]
  /\ stop' = [stop EXCEPT ![d] = Position(d)]
  /\ Goto(IF d = "pkg" THEN "after_dram" ELSE "total")
  /\ UNCHANGED <<settings, energyVars, cycleVars, before, start, unreset, value, credited,
                 resultVars>>

(* total_energy_used of the interval.                                      *)
Used(d) == CheckOverflow(before[d], after[d])

TotalEnergy ==
  /\ pc = "total"
  /\ total' = Used("pkg") + Used("dram")
  /\ accounted' = [d \in Domain |-> accounted[d] + Used(d)]
  /\ upto' = stop
  /\ Goto(AfterTotal)
  /\ UNCHANGED <<settings, energyVars, cycleVars, windowVars, unreset, value, credited, estimate>>

(* readInterval, in its two system calls: read(2) of the count ...         *)
ReadCount(c) ==
  /\ c \in left /\ unreset = None
  /\ value' = [value EXCEPT ![c] = count[c]]
  /\ credited' = [t \in Tasks |-> IF t = c THEN credited[t] + count[t] ELSE credited[t]]
  /\ unreset' = c
  /\ UNCHANGED <<settings, energyVars, cycleVars, pc, left, windowVars, resultVars>>

(* Mutant of ResetCount: the event is not reset.                           *)
ResetCountDropped ==
  /\ unreset # None
  /\ unreset' = None
  /\ left' = left \ {unreset}
  /\ UNCHANGED <<settings, energyVars, cycleVars, pc, windowVars, value, credited, resultVars>>

(* ... and PERF_EVENT_IOC_RESET.                                           *)
ResetCount ==
  /\ unreset # None
  /\ count' = [count EXCEPT ![unreset] = IF unreset = Sys THEN OwnCycles ELSE 0]
  /\ unreset' = None
  /\ left' = left \ {unreset}
  /\ UNCHANGED <<settings, energyVars, executed, pc, windowVars, value, credited, resultVars>>

SampleDone ==
  /\ left = {}
  /\ \/ pc = "sample_sys" /\ Goto(AfterSampleSys)
     \/ pc = "sample_tasks" /\ Goto(AfterSampleTasks)
  /\ UNCHANGED <<settings, energyVars, cycleVars, windowVars, unreset, value, credited, resultVars>>

(* estimate_energy_cycles for every task.                                  *)
EstimateTasks ==
  /\ pc = "estimate"
  /\ LET shares(t) == EstimateEnergyCycles(value[Sys], value[t], total,
                                           IdleConsumption, IdleMin)
     IN  /\ estimate' \in [Tasks -> UNION {shares(t) : t \in Tasks}]
         /\ \A t \in Tasks : estimate'[t] \in shares(t)
  /\ Goto("before_pkg")
  /\ UNCHANGED <<settings, energyVars, cycleVars, windowVars, unreset, value, credited,
                 total, accounted, upto>>

Machine == (\E d \in Domain : Consume(d)) \/ (\E t \in Tasks : Execute(t))

Tool ==
  \/ \E d \in Domain : ReadBefore(d) \/ ReadAfter(d)
  \/ TotalEnergy
  \/ \E c \in Counters : ReadCount(c)
  \/ ResetCount
  \/ SampleDone
  \/ EstimateTasks

Next == Machine \/ Tool

Spec == Init /\ [][Next]_vars

-----------------------------------------------------------------------------
(***************************************************************************)
(* Properties.                                                             *)
(***************************************************************************)

(* Type invariant; each counter is read and kept within its own range.    *)
Readings(r) == r \in [Domain -> Nat] /\ \A d \in Domain : r[d] \in Reading(RangeOf[d])

TypeOK ==
  /\ mode \in {"systemwide", "processes", "containers"} /\ available \subseteq Domain
  /\ Readings(counter) /\ Readings(before) /\ Readings(after)
  /\ count \in [Counters -> Nat]
  /\ pc \in Step
  /\ left \subseteq Counters /\ unreset \in left \cup {None}
  /\ value \in [Counters -> Nat]
  /\ total \in Int /\ estimate \in [Tasks -> Nat]
  /\ consumed \in [Domain -> Nat]
  /\ start \in [Domain -> Nat] /\ stop \in [Domain -> Nat]
  /\ accounted \in [Domain -> Int] /\ upto \in [Domain -> Nat]
  /\ executed \in [Tasks -> Nat] /\ credited \in [Tasks -> Nat]

(* Whether the counter of a domain wrapped between its two reads, and by   *)
(* how much the code is wrong about it if it did: it reads one max_range   *)
(* for all domains (energy.c:84-89).                                       *)
Wrapped(d)    == before[d] + (stop[d] - start[d]) >= RangeOf[d]
RangeError(d) == MaxRange - RangeOf[d]
Window(d)     == (stop[d] - start[d]) + (IF Wrapped(d) THEN RangeError(d) ELSE 0)

(* Every total the tool reports is the energy consumed between the before  *)
(* and the after reads of the available domains.  It is exact where no     *)
(* counter wrapped and where the one that did has the range the code read; *)
(* otherwise it is off by exactly the difference of the two ranges (main.c *)
(* adds up check_overflow of both domains).                                *)
TotalIsWindowEnergy ==
  [][pc = "total" /\ pc' # "total" => total' = Window("pkg") + Window("dram")]_vars

(* The windows of a domain are disjoint: the loop implements the ledger.   *)
Pkg  == INSTANCE EnergyLedger WITH consumed  <- consumed["pkg"],
                                   accounted <- accounted["pkg"],
                                   upto      <- upto["pkg"],
                                   WrapError <- MaxRange - PkgRange
Dram == INSTANCE EnergyLedger WITH consumed  <- consumed["dram"],
                                   accounted <- accounted["dram"],
                                   upto      <- upto["dram"],
                                   WrapError <- MaxRange - DramRange

(* For each RAPL domain, every step of the loop is a step of the ledger:   *)
(* no energy is reported by two intervals of one run.  The package's is    *)
(* exact where max_range was read (MaxRange = PkgRange); the DRAM's is     *)
(* only where both counters have that range, and otherwise has an error at *)
(* each of its wraps.                                                      *)
PkgLedger  == Pkg!Spec
DramLedger == Dram!Spec

(* No cycle of a task is counted in two intervals: what the reads have     *)
(* returned and what the event holds never exceed what was executed.  (It  *)
(* may be less: a cycle between read and reset is in no interval.)         *)
Pending(t) == IF unreset = t THEN 0 ELSE count[t]

NoCycleCountedTwice ==
  \A t \in Tasks : credited[t] + Pending(t) <= executed[t]

(* A task is attributed more energy than the interval's total for two      *)
(* reasons only: its count, read at another time than the system's (-m     *)
(* after it, main.c:201-210, -c before it, 265-268), is ahead of it, or    *)
(* the idle energy that was taken off is negative (energy.c:100-116).      *)
MoreThanTotalOnlyBy ==
  [][pc = "estimate" /\ pc' # "estimate" =>
       \A t \in Tasks : \/ estimate'[t] <= total \/ estimate'[t] = 0
                         \/ value[t] > value[Sys]
                         \/ Idle(IdleConsumption, IdleMin, total) < 0]_vars

(* The inductive invariant behind the theorems.  While the window of a     *)
(* domain is open its counter is the before reading advanced by what was   *)
(* consumed since; once closed, check_overflow gives the window's size and *)
(* error; and no window starts before the previous one ended.              *)
Closed(d) == pc = "total" \/ (d = "pkg" /\ pc = "after_dram")

WindowInv(d) ==
  /\ start[d] <= consumed[d] /\ stop[d] <= consumed[d] /\ upto[d] <= consumed[d]
  /\ d \in available /\ InWindow(d) =>
       /\ consumed[d] - start[d] < RangeOf[d]
       /\ counter[d] = Advanced(RangeOf[d], before[d], consumed[d] - start[d])
  /\ d \notin available =>
       before[d] = 0 /\ after[d] = 0 /\ start[d] = 0 /\ stop[d] = 0 /\ upto[d] = 0
  /\ InWindow(d) \/ Closed(d) => upto[d] <= start[d]
  /\ Closed(d) => start[d] <= stop[d] /\ Used(d) = Window(d)

LedgerInv ==
  /\ \A d \in Domain : WindowInv(d)
  /\ pc = "sample_tasks" => mode # "systemwide"

(* A step reads only the events it is entered for, and the system-wide     *)
(* count an estimate divides by is never zero.                             *)
SysSampled ==
  \/ pc = "estimate"
  \/ pc = "sample_tasks" /\ mode = "processes"
  \/ pc = "sample_sys" /\ (left = {} \/ unreset = Sys)

SampleInv ==
  /\ left \subseteq CASE pc = "sample_sys"   -> {Sys}
                      [] pc = "sample_tasks" -> Tasks
                      [] OTHER               -> {}
  /\ count[Sys] > 0
  /\ SysSampled => value[Sys] > 0

IInv == TypeOK /\ LedgerInv /\ SampleInv
=============================================================================
