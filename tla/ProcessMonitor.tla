--------------------------- MODULE ProcessMonitor ---------------------------
(***************************************************************************)
(* The process list of src/src/main.c -m: one entry per pid of the command *)
(* line, swept once per interval; an entry whose /proc files cannot be read*)
(* is taken out of the array while the array is being walked.  What is     *)
(* measured in an interval is the subject of MonitorLoop.                  *)
(*                                                                         *)
(* An entry is named by the position of its pid on the command line, which *)
(* is also the name of the perf event opened for it.                       *)
(***************************************************************************)
EXTENDS Integers

CONSTANTS
  N,        \* argc - 2, the number of pids given
  Procs     \* the processes of the machine the pids may name

ASSUME NAssumption == N \in Nat

Arg    == 0 .. N - 1
Stdout == N             \* the descriptor 1, which no event has

VARIABLES
  status,      \* of each process, in the kernel
  pid,         \* pid of each entry; two entries may name one process
  terminal,    \* whether standard output is a terminal
  pc,          \* "setup", "sleep", "sweep" or "done"
  i,           \* loop variable
  num,         \* num_processes
  processes,   \* the array: the entry in each slot
  fd,          \* fd of each entry
  open,        \* the perf events that are open
  stdoutOpen,  \* whether descriptor 1 still is standard output
  \* History variables, for the properties only.
  reads,       \* how often this sweep read each entry
  estimated,   \* entries given an estimate in this sweep
  failed       \* entries for which read_process_stats returned -1 in a sweep

kernelVars  == <<status, pid, terminal>>
listVars    == <<num, processes>>
fdVars      == <<fd, open, stdoutOpen>>
historyVars == <<reads, estimated, failed>>
vars == <<kernelVars, pc, i, listVars, fdVars, historyVars>>

Listed == {processes[k] : k \in 0 .. num - 1}

NoReads == [a \in Arg |-> 0]

(* Any pids may be given, of processes in any state.                       *)
Init ==
  /\ status \in [Procs -> {"running", "zombie", "gone"}]
  /\ pid \in [Arg -> Procs]
  /\ terminal \in BOOLEAN
  /\ pc = "setup" /\ i = 0
  /\ num = N /\ processes = [k \in Arg |-> k]
  /\ fd = [a \in Arg |-> Stdout] /\ open = {} /\ stdoutOpen = TRUE
  /\ reads = NoReads /\ estimated = {} /\ failed = {}

(***************************************************************************)
(* The processes: an ended one is a zombie until its parent waits for it.  *)
(***************************************************************************)
Exit(p) ==
  /\ status[p] = "running"
  /\ status' = [status EXCEPT ![p] = "zombie"]
  /\ UNCHANGED <<pid, terminal, pc, i, listVars, fdVars, historyVars>>

Reap(p) ==
  /\ status[p] = "zombie"
  /\ status' = [status EXCEPT ![p] = "gone"]
  /\ UNCHANGED <<pid, terminal, pc, i, listVars, fdVars, historyVars>>

(***************************************************************************)
(* The tool.                                                               *)
(***************************************************************************)

(* setUpProcCycles: perf_event_open finds only processes that have not     *)
(* exited, and may fail for those too (no descriptor left, no permission,  *)
(* no such counter); then the function returns 1, which is stored as the   *)
(* fd.  The return value of the first read_process_stats is ignored.       *)
SetUpProcCycles(a) ==
  \/ status[pid[a]] = "running" /\ fd' = [fd EXCEPT ![a] = a] /\ open' = open \cup {a}
  \/ fd' = [fd EXCEPT ![a] = Stdout] /\ UNCHANGED open

Setup ==
  /\ pc = "setup" /\ i < N
  /\ SetUpProcCycles(i)
  /\ i' = i + 1
  /\ UNCHANGED <<kernelVars, pc, listVars, stdoutOpen, historyVars>>

SetupDone ==
  /\ pc = "setup" /\ i = N
  /\ pc' = IF num > 0 THEN "sleep" ELSE "done"
  /\ UNCHANGED <<kernelVars, i, listVars, fdVars, historyVars>>

(* Mutant of Sleep: the sweep begins with the second entry.                *)
SleepLate ==
  /\ pc = "sleep"
  /\ pc' = "sweep" /\ i' = 1
  /\ reads' = NoReads /\ estimated' = {}
  /\ UNCHANGED <<kernelVars, listVars, fdVars, failed>>

Sleep ==
  /\ pc = "sleep"
  /\ pc' = "sweep" /\ i' = 0
  /\ reads' = NoReads /\ estimated' = {}
  /\ UNCHANGED <<kernelVars, listVars, fdVars, failed>>

(* read_process_stats returns -1 when one of the three /proc files cannot  *)
(* be opened: those of a process that is gone never can, those of a zombie *)
(* or a live one can, but need not (no descriptor left for fopen, no       *)
(* permission for /proc/pid/io).  A process that goes away between two of  *)
(* the opens is gone at the last one, so one step stands for the three.    *)
Current == processes[i]
Gone(a) == status[pid[a]] = "gone"

ReadEntry == reads' = [reads EXCEPT ![Current] = @ + 1]

(* readInterval of a failed event reads descriptor 1: a terminal makes it  *)
(* wait for a line of input, anything else fails at once.                  *)
Waiting ==
  pc = "sweep" /\ i < num /\ fd[Current] = Stdout /\ stdoutOpen /\ terminal

(* ret = 0: the entry gets its estimate and the loop goes on.              *)
SweepLive ==
  /\ pc = "sweep" /\ i < num /\ ~Gone(Current)
  /\ ReadEntry
  /\ estimated' = estimated \cup {Current}
  /\ i' = i + 1
  /\ UNCHANGED <<kernelVars, pc, listVars, fdVars, failed>>

ReadFails == ReadEntry /\ failed' = failed \cup {Current}

(* Mutant of CloseEvent: the event of a removed entry stays open.          *)
CloseEventDropped(d) == UNCHANGED <<open, stdoutOpen>>

(* closeEvent closes whatever the descriptor stands for.                   *)
CloseEvent(d) ==
  /\ open' = open \ {d}
  /\ stdoutOpen' = (stdoutOpen /\ d # Stdout)

(* Mutants of Shifted: the last entry takes the place of the removed one;  *)
(* the loop starts one slot too late.                                      *)
ShiftedSwap(k) == [processes EXCEPT ![k] = processes[num - 1]]
ShiftedLate(k) ==
  [j \in Arg |-> IF k < j /\ j < num - 1 THEN processes[j + 1] ELSE processes[j]]

(* The array after the loop that moves the entries behind slot k forward.  *)
Shifted(k) ==
  [j \in Arg |-> IF k <= j /\ j < num - 1 THEN processes[j + 1] ELSE processes[j]]

(* Mutant of IndexAfterRemoval: the index is not corrected.                *)
IndexNotCorrected == i + 1

(* i-- at the removal, i++ of the loop.                                    *)
IndexAfterRemoval == i

(* ret = -1 with other entries left: the entry is closed and taken out and *)
(* i decremented, then the same iteration goes on with processes[i], the   *)
(* entry before the one taken out, and i is incremented again.  For the    *)
(* first entry processes[-1] lies in front of the allocated array: its     *)
(* energy_interval_est overlays allocator data nothing reads back while    *)
(* the loop runs, and the program goes on.                                 *)
SweepRemove ==
  /\ pc = "sweep" /\ i < num /\ num > 1
  /\ ReadFails
  /\ CloseEvent(fd[Current])
  /\ processes' = Shifted(i)
  /\ num' = num - 1
  /\ i' = IndexAfterRemoval
  /\ estimated' = estimated \cup {processes[j] : j \in {i - 1} \cap Nat}
  /\ UNCHANGED <<kernelVars, pc, fd>>

(* Mutant of SweepLast: the sweep is left, the program is not.             *)
SweepLastBreak ==
  /\ pc = "sweep" /\ i < num /\ num = 1
  /\ ReadFails
  /\ CloseEvent(fd[Current])
  /\ pc' = "sleep"
  /\ UNCHANGED <<kernelVars, i, listVars, fd, estimated>>

(* ret = -1 for the only entry left: main returns.                         *)
SweepLast ==
  /\ pc = "sweep" /\ i < num /\ num = 1
  /\ ReadFails
  /\ CloseEvent(fd[Current])
  /\ pc' = "done"
  /\ UNCHANGED <<kernelVars, i, listVars, fd, estimated>>

SweepEnd ==
  /\ pc = "sweep" /\ i = num
  /\ pc' = "sleep"
  /\ UNCHANGED <<kernelVars, i, listVars, fdVars, historyVars>>

Tool == Setup \/ SetupDone \/ Sleep \/ SweepLive \/ SweepRemove \/ SweepLast \/ SweepEnd

Next == (\E p \in Procs : Exit(p) \/ Reap(p)) \/ Tool

(* The tool is one thread that blocks only in sleep(interval), which       *)
(* returns, and where it waits for input, which need not come.  Processes  *)
(* need never end, nor parents wait for them.                              *)
Fairness == WF_vars(Tool /\ ~Waiting)

Spec == Init /\ [][Next]_vars /\ Fairness

-----------------------------------------------------------------------------
(***************************************************************************)
(* Properties.                                                             *)
(***************************************************************************)

(* Type invariant; the index never passes the end of the list.             *)
TypeOK ==
  /\ status \in [Procs -> {"running", "zombie", "gone"}]
  /\ pid \in [Arg -> Procs] /\ terminal \in BOOLEAN
  /\ pc \in {"setup", "sleep", "sweep", "done"}
  /\ num \in 0 .. N /\ i \in 0 .. N /\ (pc = "sweep" => i <= num)
  /\ processes \in [Arg -> Arg]
  /\ fd \in [Arg -> Arg \cup {Stdout}]
  /\ open \subseteq Arg /\ stdoutOpen \in BOOLEAN
  /\ reads \in [Arg -> Nat] /\ estimated \subseteq Arg /\ failed \subseteq Arg

(* Removing entries while sweeping neither duplicates nor reorders the     *)
(* others (main.c: the shift loop): the log keeps the command line's order.*)
Ordered == \A j, k \in 0 .. num - 1 : j < k => processes[j] < processes[k]

(* The entries missing from the list are exactly those a sweep could not   *)
(* read (main.c:211): no removal takes out another entry, and none that    *)
(* could not be read stays.  That their processes "terminated", as the     *)
(* comment at main.c:213 has it, does not follow.                          *)
DroppedAsRead == pc # "done" => Arg \ Listed = failed

(* The open events are those of the listed entries: removing an entry      *)
(* closes its own event and no other's, and leaks none.  Standard output   *)
(* is closed exactly when an entry goes whose event could not be opened    *)
(* (perf_events.c:33, main.c:214).                                         *)
EventsOfListed ==
  /\ \A a \in Arg : fd[a] \in {a, Stdout}
  /\ pc # "done" =>
       /\ open = {a \in Listed : fd[a] = a}
       /\ stdoutOpen = (\A a \in failed : fd[a] = a)

(* A sweep reads every entry exactly once, removals notwithstanding, and   *)
(* gives each one it has passed an estimate from its own new reading.      *)
SweepOnce ==
  pc = "sweep" =>
    /\ \A k \in 0 .. i - 1 : reads[processes[k]] = 1 /\ processes[k] \in estimated
    /\ \A k \in i .. num - 1 : reads[processes[k]] = 0

(* The tool ends once all its processes are gone (main.c:215 "all          *)
(* processes terminated"), unless it came to read a failed event from a    *)
(* terminal (perf_events.c:33, main.c:210) and nobody types a line.        *)
Terminates == (\A a \in Arg : Gone(a)) ~> (pc = "done" \/ Waiting)

(* So does every entry: once its process is gone it leaves the list,       *)
(* whatever the sweep removes before it.  An ended process that its parent *)
(* does not wait for stays (main.c:211).                                   *)
GoneRemoved ==
  \A a \in Arg : Gone(a) ~> (a \notin Listed \/ pc = "done" \/ Waiting)

(* The inductive invariant of the theorems.                                *)
SetupInv ==
  /\ pc \in {"sleep", "sweep"} => num > 0
  /\ pc = "setup" => /\ num = N /\ processes = [k \in Arg |-> k]
                     /\ \A a \in Arg : a >= i => fd[a] = Stdout

IInv ==
  /\ TypeOK /\ SetupInv
  /\ Ordered /\ DroppedAsRead /\ EventsOfListed /\ SweepOnce
=============================================================================
