----------------------------- MODULE Containers -----------------------------
(***************************************************************************)
(* The container list of -c: src/src/container_stats.c, its perf events    *)
(* (src/src/perf_events.c) and the loop of src/src/main.c that drives it.  *)
(* Containers start and stop between any two of the tool's steps.  Each    *)
(* listed container has one event per CPU; the descriptors of all of them  *)
(* are kept in one flat array, max_cpus cells per entry.                   *)
(*                                                                         *)
(* Descriptors are numbers of a finite table that the kernel hands out     *)
(* lowest first, as a closed number is soon given to another file.  The    *)
(* system-wide events and the log file are opened once and left out.       *)
(***************************************************************************)
EXTENDS Integers

CONSTANTS
  Ids,            \* container ids
  MaxContainers,  \* MAX_CONTAINERS
  MaxCpus,        \* max_cpus
  MaxFd,          \* descriptors the process may have open
  MaxStarts       \* bound: how often each container is started

ASSUME SizeAssumption ==
  /\ MaxContainers \in Nat \ {0} /\ MaxCpus \in Nat \ {0}
  /\ MaxFd \in Nat /\ MaxFd > 2 /\ MaxStarts \in Nat \ {0}

Cpu   == 0 .. MaxCpus - 1
Index == 0 .. MaxContainers - 1
Fd    == 0 .. MaxFd - 1
NoFd  == MaxFd          \* stands for -1 and for numbers that are never open
Stdin  == 0
Stdout == 1

(* The cells of cgroup_perf_fds and one more: with one CPU the removal     *)
(* reads the cell behind the array.                                        *)
Cells == 0 .. MaxCpus * MaxContainers

(* Mutant of Cell: the offset is not scaled by the number of CPUs.         *)
CellUnscaled(k, j) == k + j
Cell(k, j) == k * MaxCpus + j

(* What a descriptor may stand for.                                        *)
Free  == <<"free">>
Dir   == <<"dir">>
Cgroup(id, n)   == <<"cgroup", id, n>>
Event(id, n, j) == <<"event", id, n, j>>
Events == {Event(id, n, j) : id \in Ids, n \in 1 .. MaxStarts, j \in Cpu}
Files  == {Free, <<"stdin">>, <<"stdout">>, Dir} \cup Events
            \cup {Cgroup(id, n) : id \in Ids, n \in 1 .. MaxStarts}

Uninitialised == <<"uninitialised">>
NoId == "no id"

VARIABLES
  up,          \* the running containers
  starts,      \* how often each container has been started
  terminal,    \* whether standard output is a terminal
  table,       \* the tool's descriptor table
  slots,       \* cgroup_perf_fds
  containers,  \* id of each entry of containers
  cycles,      \* the counts summed up in each entry's cycles_interval
  num,         \* num_containers
  pc,          \* the tool's next step
  first,       \* whether get_docker_containers is running
  i,           \* index of the update loop
  todo,        \* names the directory walk has yet to return
  adding,      \* argument of add_docker_container
  cgfd,        \* its descriptor of the container's cgroup
  cpu,         \* its loop variable
  \* History variables, for the properties only.
  updated,     \* ids whose statistics this update has read
  moved        \* whether an entry has been moved to another index

worldVars == <<up, starts, terminal>>
listVars  == <<containers, cycles, num>>
addVars   == <<adding, cgfd, cpu>>
vars == <<worldVars, table, slots, listVars, pc, first, i, todo, addVars, updated, moved>>

Listed == {containers[k] : k \in 0 .. num - 1}

Init ==
  /\ up \in SUBSET Ids
  /\ starts = [id \in Ids |-> IF id \in up THEN 1 ELSE 0]
  /\ terminal \in BOOLEAN
  /\ table = [f \in Fd |-> CASE f = Stdin -> <<"stdin">> [] f = Stdout -> <<"stdout">>
                             [] OTHER -> Free]
  \* malloc does not clear the array: zeros, or numbers of nothing open
  /\ \E garbage \in {0, NoFd} : slots = [c \in Cells |-> garbage]
  /\ containers = [k \in Index |-> NoId] /\ num = 0
  /\ cycles = [k \in Index |-> {Uninitialised}]
  /\ pc = "opendir" /\ first = TRUE
  /\ i = 0 /\ todo = {} /\ adding = NoId /\ cgfd = NoFd /\ cpu = 0
  /\ updated = {} /\ moved = FALSE

(***************************************************************************)
(* The containers.  Stopping one removes its cgroup directory; starting it *)
(* again creates another cgroup of the same name.                          *)
(***************************************************************************)
Start(id) ==
  /\ id \notin up /\ starts[id] < MaxStarts
  /\ up' = up \cup {id}
  /\ starts' = [starts EXCEPT ![id] = @ + 1]
  /\ UNCHANGED <<terminal, table, slots, listVars, pc, first, i, todo, addVars, updated, moved>>

Stop(id) ==
  /\ id \in up
  /\ up' = up \ {id}
  /\ UNCHANGED <<starts, terminal, table, slots, listVars, pc, first, i, todo, addVars, updated,
                 moved>>

(***************************************************************************)
(* The kernel's side of descriptors.                                       *)
(***************************************************************************)
FreeFds    == {f \in Fd : table[f] = Free}
LowestFree == {f \in FreeFds : \A g \in FreeFds : f <= g}

(* Mutant of Closed: nothing is closed.                                    *)
ClosedNothing(fds) == table

Closed(fds) == [f \in Fd |-> IF f \in fds THEN Free ELSE table[f]]

(* Mutant of StatFilesOpen: the results of fopen are not looked at.        *)
StatFilesUnchecked(id) == TRUE

(* fopen of cpu.stat, io.stat and memory.current, each closed at once.  A  *)
(* container that stops between two of them fails the last one.            *)
StatFilesOpen(id) == id \in up /\ FreeFds # {}

(***************************************************************************)
(* Walking the directory: get_docker_containers, and the second half of    *)
(* update_docker_containers.                                               *)
(***************************************************************************)

(* The first readdir fetches the names.  The result of opendir is not      *)
(* checked: without a free descriptor readdir(NULL) crashes the tool.      *)
OpenDir ==
  /\ pc = "opendir"
  /\ \/ /\ \E f \in LowestFree : table' = [table EXCEPT ![f] = Dir]
        /\ todo' = up /\ pc' = "scan"
     \/ FreeFds = {} /\ pc' = "crashed" /\ UNCHANGED <<table, todo>>
  /\ UNCHANGED <<worldVars, slots, listVars, first, i, addVars, updated, moved>>

(* Mutants of Addable: no look-up; no limit.                               *)
AddableAgain(id) == num < MaxContainers /\ StatFilesOpen(id)
AddableUnlimited(id) == (first \/ id \notin Listed) /\ StatFilesOpen(id)

(* add_docker_container gets past its early returns for the name at hand;  *)
(* the first walk does not look for names that are already monitored.      *)
Addable(id) ==
  /\ first \/ id \notin Listed
  /\ num < MaxContainers
  /\ StatFilesOpen(id)

SkipEntry(id) ==
  /\ pc = "scan" /\ id \in todo /\ ~Addable(id)
  /\ todo' = todo \ {id}
  /\ UNCHANGED <<worldVars, table, slots, listVars, pc, first, i, addVars, updated, moved>>

AddEntry(id) ==
  /\ pc = "scan" /\ id \in todo /\ Addable(id)
  /\ todo' = todo \ {id}
  /\ pc' = "opencgroup" /\ adding' = id
  /\ UNCHANGED <<worldVars, table, slots, listVars, first, i, cgfd, cpu, updated, moved>>

(* open of the cgroup directory, whose result is not checked either.       *)
OpenCgroup ==
  /\ pc = "opencgroup"
  /\ pc' = "openevent" /\ cpu' = 0
  /\ \/ /\ adding \in up
        /\ \E f \in LowestFree :
             /\ cgfd' = f
             /\ table' = [table EXCEPT ![f] = Cgroup(adding, starts[adding])]
     \/ (adding \notin up \/ FreeFds = {}) /\ cgfd' = NoFd /\ UNCHANGED table
  /\ UNCHANGED <<worldVars, slots, listVars, first, i, todo, adding, updated, moved>>

(* setUpProcCycles_cgroup: fails on a bad descriptor and on a cgroup that  *)
(* is gone, and then returns 1.                                            *)
CgroupFound ==
  cgfd # NoFd /\ adding \in up /\ table[cgfd] = Cgroup(adding, starts[adding])

OpenEvent ==
  /\ pc = "openevent" /\ cpu < MaxCpus
  /\ cpu' = cpu + 1
  /\ \/ /\ CgroupFound
        /\ \E f \in LowestFree :
             /\ slots' = [slots EXCEPT ![Cell(num, cpu)] = f]
             /\ table' = [table EXCEPT ![f] = Event(adding, starts[adding], cpu)]
     \/ /\ ~CgroupFound \/ FreeFds = {}
        /\ slots' = [slots EXCEPT ![Cell(num, cpu)] = Stdout]
        /\ UNCHANGED table
  /\ UNCHANGED <<worldVars, listVars, pc, first, i, todo, adding, cgfd, updated, moved>>

(* The new entry is a copy of a local struct whose cycles_interval is not  *)
(* assigned.                                                               *)
FinishAdd ==
  /\ pc = "openevent" /\ cpu = MaxCpus
  /\ table' = Closed({cgfd})
  /\ containers' = [containers EXCEPT ![num] = adding]
  /\ cycles' = [cycles EXCEPT ![num] = {Uninitialised}]
  /\ num' = num + 1
  /\ pc' = "scan" /\ adding' = NoId /\ cgfd' = NoFd /\ cpu' = 0
  /\ UNCHANGED <<worldVars, slots, first, i, todo, updated, moved>>

(* The walk ends.  The main loop sleeps before its first update and, after *)
(* an update, estimates and prints.                                        *)
CloseDir ==
  /\ pc = "scan" /\ todo = {}
  /\ table' = Closed({f \in Fd : table[f] = Dir})
  /\ pc' = IF first THEN "update" ELSE "report"
  /\ first' = FALSE
  /\ UNCHANGED <<worldVars, slots, listVars, i, todo, addVars, updated, moved>>

(***************************************************************************)
(* The first half of update_docker_containers.                             *)
(***************************************************************************)

(* readInterval returns its uninitialised local variable when the read     *)
(* fails.                                                                  *)
Count(f) == IF f \in Fd /\ table[f] \in Events THEN table[f] ELSE Uninitialised

(* Reading the terminal, or standard input, waits for a line of input.  A  *)
(* cell is 1 for a failed event, and 0 where malloc left it and a removal  *)
(* copied it from behind the list.  The tool may be waiting at entry i     *)
(* whatever becomes of the container meanwhile.                            *)
Blocking == {f \in Fd : \/ table[f] = <<"stdin">>
                        \/ terminal /\ table[f] = <<"stdout">>}

Waiting ==
  /\ pc = "update" /\ i < num
  /\ \E j \in Cpu : slots[Cell(i, j)] \in Blocking

UpdateEntry ==
  /\ pc = "update" /\ i < num /\ StatFilesOpen(containers[i])
  /\ cycles' = [cycles EXCEPT ![i] = {Count(slots[Cell(i, j)]) : j \in Cpu}]
  /\ updated' = updated \cup {containers[i]}
  /\ i' = i + 1
  /\ UNCHANGED <<worldVars, table, slots, containers, num, pc, first, todo, addVars, moved>>

(* Mutant of IndexAfterRemoval: the loop is not adjusted.                  *)
IndexNotAdjusted == i + 1

(* i-- at the removal, i++ of the loop.                                    *)
IndexAfterRemoval == i

(* remove_docker_container(i): cell by cell, the event is closed and the   *)
(* cell overwritten with cell n + j, n = num_containers.  A cell n + j     *)
(* that an earlier round of the loop has overwritten in its turn repeats   *)
(* what went there, so the values come from the cells before Cell(i, 0).   *)
(* The last entry takes the place of the removed one, and index i is       *)
(* visited again.                                                          *)
SourceCell(n, k, j) == n + (IF n < Cell(k, 0) THEN j % (Cell(k, 0) - n) ELSE j)

RemoveEntry ==
  /\ pc = "update" /\ i < num /\ ~StatFilesOpen(containers[i])
  /\ table' = Closed({slots[Cell(i, j)] : j \in Cpu})
  /\ slots' = [c \in Cells |-> IF c \in Cell(i, 0) .. Cell(i, MaxCpus - 1)
                                 THEN slots[SourceCell(num, i, c - Cell(i, 0))]
                                 ELSE slots[c]]
  /\ containers' = [containers EXCEPT ![i] = containers[num - 1]]
  /\ cycles' = [cycles EXCEPT ![i] = cycles[num - 1]]
  /\ num' = num - 1
  /\ i' = IndexAfterRemoval
  /\ moved' = (moved \/ i < num - 1)
  /\ UNCHANGED <<worldVars, pc, first, todo, addVars, updated>>

(* Mutant of UpdateDone: new containers are not looked for.                *)
UpdateDoneNoWalk ==
  /\ pc = "update" /\ i = num
  /\ pc' = "report"
  /\ UNCHANGED <<worldVars, table, slots, listVars, first, i, todo, addVars, updated, moved>>

UpdateDone ==
  /\ pc = "update" /\ i = num
  /\ pc' = "opendir"
  /\ UNCHANGED <<worldVars, table, slots, listVars, first, i, todo, addVars, updated, moved>>

(* main.c: every entry is estimated and printed, then the next interval.   *)
Report ==
  /\ pc = "report"
  /\ pc' = "update" /\ i' = 0 /\ updated' = {}
  /\ UNCHANGED <<worldVars, table, slots, listVars, first, todo, addVars, moved>>

World == \E id \in Ids : Start(id) \/ Stop(id)

Tool ==
  \/ OpenDir \/ CloseDir
  \/ \E id \in Ids : SkipEntry(id) \/ AddEntry(id)
  \/ OpenCgroup \/ OpenEvent \/ FinishAdd
  \/ UpdateEntry \/ RemoveEntry \/ UpdateDone
  \/ Report

Next == World \/ Tool

(* One thread that blocks only in sleep(interval), which returns, and      *)
(* where it waits for input; containers need neither start nor stop.       *)
Fairness == WF_vars(Tool /\ ~Waiting)

Spec == Init /\ [][Next]_vars /\ Fairness

-----------------------------------------------------------------------------
(***************************************************************************)
(* Properties.                                                             *)
(***************************************************************************)

(* Type invariant; a removal reads at most one cell behind the array.      *)
Step == {"opendir", "scan", "opencgroup", "openevent", "update", "report", "crashed"}

TypeOK ==
  /\ up \subseteq Ids /\ starts \in [Ids -> 0 .. MaxStarts] /\ terminal \in BOOLEAN
  /\ table \in [Fd -> Files]
  /\ slots \in [Cells -> Fd \cup {NoFd}]
  /\ containers \in [Index -> Ids \cup {NoId}] /\ num \in 0 .. MaxContainers
  /\ cycles \in [Index -> SUBSET (Events \cup {Uninitialised})]
  /\ pc \in Step /\ first \in BOOLEAN
  /\ i \in 0 .. MaxContainers /\ (pc = "update" => i <= num)
  /\ todo \subseteq Ids /\ adding \in Ids \cup {NoId}
  /\ cgfd \in Fd \cup {NoFd} /\ cpu \in 0 .. MaxCpus
  /\ updated \subseteq Ids /\ moved \in BOOLEAN

(* No container is listed twice, and none is added that is listed.         *)
DistinctEntries ==
  /\ \A k, l \in 0 .. num - 1 : containers[k] = containers[l] => k = l
  /\ pc \in {"opencgroup", "openevent"} => adding \notin Listed /\ num < MaxContainers

(* An update reads every remaining entry exactly once, although a removal  *)
(* moves the last entry to the index being visited.                        *)
UpdateOnce ==
  pc = "update" => \A k \in 0 .. num - 1 : containers[k] \in updated <=> k < i

(* Until an entry is moved, or a failed event has cost the tool its        *)
(* standard output, each cell of a listed entry holds that container's own *)
(* event, or the 1 of a failed one.                                        *)
Sound == ~moved /\ table[Stdout] = <<"stdout">>

Filled == (Index \cap (0 .. num - 1)) \X Cpu
            \cup (IF pc = "openevent" THEN {num} \X (0 .. cpu - 1) ELSE {})

Owner(k) == IF k = num THEN adding ELSE containers[k]

OwnCell(k, j, f) ==
  \/ f = Stdout
  \/ f \in Fd /\ \E n \in 1 .. MaxStarts : table[f] = Event(Owner(k), n, j)

EventsMatchEntries ==
  Sound => \A kj \in Filled : OwnCell(kj[1], kj[2], slots[Cell(kj[1], kj[2])])

(* Under the same condition no event is open that no entry refers to.      *)
NoEventLeaked ==
  Sound => \A f \in Fd : table[f] \in Events =>
             \E kj \in Filled : slots[Cell(kj[1], kj[2])] = f

(* Counts of a container's own events, of all of them if none failed.      *)
OwnEvents(id) == {Event(id, n, j) : n \in 1 .. MaxStarts, j \in Cpu}

Estimated(k) ==
  /\ cycles[k] \subseteq OwnEvents(containers[k]) \cup {Uninitialised}
  /\ (\A j \in Cpu : slots[Cell(k, j)] # Stdout) =>
       \A j \in Cpu : \E n \in 1 .. MaxStarts : Event(containers[k], n, j) \in cycles[k]

(* Under the same condition what an interval's report estimates from       *)
(* (main.c:273) is, for every entry this update has read, the counts of    *)
(* its own events, all of them if none failed.  FreshCounts is about the   *)
(* entries it has only just found.                                         *)
EstimatedFromOwn ==
  Sound /\ pc = "report" =>
    \A k \in 0 .. num - 1 : containers[k] \in updated => Estimated(k)

(* A running container is monitored within finitely many steps, unless the *)
(* list is full, the descriptors are used up, or the tool comes to a read  *)
(* that waits for input.                                                   *)
EventuallyMonitored ==
  \A id \in Ids :
    id \in up ~> (id \in Listed \/ id \notin up \/ num = MaxContainers \/ FreeFds = {} \/ Waiting)

(* The entry of a stopped container is eventually removed, unless the tool *)
(* comes to a read that waits for input or has run out of descriptors and  *)
(* crashed in the walk.                                                    *)
EventuallyRemoved ==
  \A id \in Ids :
    id \in Listed /\ id \notin up ~>
      (id \notin Listed \/ id \in up \/ pc = "crashed" \/ Waiting)

(* The inductive invariant of the theorems.  The first walk finds an empty *)
(* list and every name once, so it needs no look-up.                       *)
WalkInv ==
  /\ \A id \in up : starts[id] \in 1 .. MaxStarts
  /\ pc \in {"opencgroup", "openevent"} => adding \in Ids \ todo
  /\ first => /\ pc \notin {"update", "report"}
              /\ pc = "opendir" => num = 0
              /\ pc # "opendir" => Listed \cap todo = {}
              /\ i = 0 /\ updated = {}

IInv == TypeOK /\ WalkInv /\ DistinctEntries /\ UpdateOnce

(* What is added to it for the descriptors and for the estimate.  The      *)
(* descriptor of the cgroup directory is neither an event nor the standard *)
(* output when it is closed.                                               *)
CgroupInv ==
  pc = "openevent" /\ cgfd # NoFd =>
    \E id \in Ids, n \in 1 .. MaxStarts : table[cgfd] = Cgroup(id, n)

DescriptorInv == CgroupInv /\ EventsMatchEntries /\ NoEventLeaked

(* An entry already read has its own events' counts.                       *)
EstimateInv ==
  /\ updated \subseteq Listed
  /\ Sound => \A k \in 0 .. num - 1 : containers[k] \in updated => Estimated(k)

(* What the repository says and the code does not do.                      *)

(* container_stats.c:295 "Close associated perf events", 146 "Read perf    *)
(* events": the counts summed up for an entry are of its own container.    *)
OwnCycles ==
  \A k \in 0 .. num - 1 :
    cycles[k] \subseteq OwnEvents(containers[k]) \cup {Uninitialised}

(* main.c:492 "Number of CPU cycles: %llu\n", printed for every entry: with *)
(* no entry moved and no event failed, what is reported was counted.       *)
FreshCounts ==
  Sound /\ pc = "report" =>
    \A k \in 0 .. num - 1 :
      (\A j \in Cpu : slots[Cell(k, j)] # Stdout) => Uninitialised \notin cycles[k]
=============================================================================
