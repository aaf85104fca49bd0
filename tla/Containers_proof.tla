-------------------------- MODULE Containers_proof --------------------------
(***************************************************************************)
(* Theorems about the container list of -c, for any containers, any sizes  *)
(* of the list and of the descriptor table and any number of CPUs.         *)
(***************************************************************************)
EXTENDS Containers, TLAPS, WellFoundedInduction

-----------------------------------------------------------------------------
(* Indices into cgroup_perf_fds.                                           *)
LEMMA MulMonotone ==
  ASSUME NEW k \in Nat, NEW l \in Nat, NEW m \in Nat, k <= l
  PROVE  k * m <= l * m
OBVIOUS

LEMMA CellFacts ==
  ASSUME NEW k \in Index, NEW j \in Cpu
  PROVE  /\ Cell(k, j) \in Nat /\ Cell(k, j) < MaxCpus * MaxContainers
         /\ Cell(k, j) \in Cells
<1> USE SizeAssumption
<1>1. /\ k \in Nat /\ j \in Nat /\ k <= MaxContainers - 1 /\ j <= MaxCpus - 1
      /\ MaxContainers - 1 \in Nat
  BY DEF Index, Cpu
<1>2. k * MaxCpus <= (MaxContainers - 1) * MaxCpus
  BY <1>1, MulMonotone
<1>3. (MaxContainers - 1) * MaxCpus + MaxCpus = MaxCpus * MaxContainers
  OBVIOUS
<1>4. k * MaxCpus \in Nat /\ (MaxContainers - 1) * MaxCpus \in Nat
  BY <1>1
<1> QED
  BY <1>1, <1>2, <1>3, <1>4 DEF Cell, Cells

(* Where a removal copies from: within the array, or, with a single CPU or *)
(* a list of one entry, at most one cell behind it.                        *)
LEMMA SourceFacts ==
  ASSUME NEW n \in 1 .. MaxContainers, NEW k \in 0 .. n - 1, NEW j \in Cpu
  PROVE  /\ SourceCell(n, k, j) \in Cells
         /\ MaxCpus > 1 /\ MaxContainers > 1 =>
              SourceCell(n, k, j) < MaxCpus * MaxContainers
<1> USE SizeAssumption
<1> DEFINE base == Cell(k, 0)
<1>1. k \in Index /\ 0 \in Cpu /\ n \in Nat /\ j \in Nat
  BY DEF Index, Cpu
<1>2. base \in Nat /\ base < MaxCpus * MaxContainers
  BY <1>1, CellFacts
<1>3. CASE n < base
  <2>3. SourceCell(n, k, j) = n + (j % (base - n))
    <3>1. (IF n < base THEN j % (base - n) ELSE j) = j % (base - n)
      BY <1>3, Zenon
    <3> QED
      BY <3>1, Zenon DEF SourceCell
  <2> HIDE DEF base
  <2>1. base - n \in Nat \ {0}
    BY <1>1, <1>2, <1>3
  <2>2. j % (base - n) \in 0 .. base - n - 1
    BY <1>1, <2>1
  <2> QED
    BY <1>1, <1>2, <2>1, <2>2, <2>3 DEF Cells
<1>4. CASE ~(n < base)
  <2>1. SourceCell(n, k, j) = n + j /\ n + j <= MaxContainers + MaxCpus - 1
    BY <1>4 DEF SourceCell, Cpu
  <2>2. (MaxContainers - 1) * (MaxCpus - 1)
          = MaxCpus * MaxContainers - MaxContainers - MaxCpus + 1
    OBVIOUS
  <2>3. (MaxContainers - 1) * (MaxCpus - 1) \in Nat
    OBVIOUS
  <2>4. MaxCpus > 1 /\ MaxContainers > 1 => (MaxContainers - 1) * (MaxCpus - 1) > 0
    OBVIOUS
  <2> QED
    BY <1>1, <2>1, <2>2, <2>3, <2>4 DEF Cells
<1> QED
  BY <1>3, <1>4

-----------------------------------------------------------------------------
(* What the descriptor table may hold.                                     *)
LEMMA FileFacts ==
  /\ Free \in Files /\ Dir \in Files /\ Events \subseteq Files
  /\ \A id \in Ids, n \in 1 .. MaxStarts : Cgroup(id, n) \in Files
  /\ \A id \in Ids, n \in 1 .. MaxStarts, j \in Cpu : Event(id, n, j) \in Events
BY DEF Files, Events

LEMMA ClosedType ==
  ASSUME table \in [Fd -> Files], NEW fds
  PROVE  Closed(fds) \in [Fd -> Files]
BY FileFacts DEF Closed

LEMMA CountType ==
  ASSUME NEW f PROVE Count(f) \in Events \cup {Uninitialised}
BY DEF Count

LEMMA InitIInv == Init => IInv
<1> SUFFICES ASSUME Init PROVE IInv
  OBVIOUS
<1> USE SizeAssumption DEF Init
<1>1. TypeOK
  <2>1. table \in [Fd -> Files]
    BY DEF Files, Fd
  <2>2. slots \in [Cells -> Fd \cup {NoFd}]
    BY DEF Fd
  <2>3. containers \in [Index -> Ids \cup {NoId}] /\ num \in 0 .. MaxContainers
    OBVIOUS
  <2>4. cycles \in [Index -> SUBSET (Events \cup {Uninitialised})]
    OBVIOUS
  <2>5. starts \in [Ids -> 0 .. MaxStarts] /\ up \subseteq Ids
    BY DEF Init
  <2>6. first \in BOOLEAN /\ moved \in BOOLEAN
    BY Zenon
  <2> QED
    BY <2>1, <2>2, <2>3, <2>4, <2>5, <2>6 DEF TypeOK, Step
<1>2. Listed = {}
  BY DEF Listed
<1>3. WalkInv
  <2>1. \A id \in up : starts[id] \in 1 .. MaxStarts
    <3>1. up \subseteq Ids /\ starts = [id \in Ids |-> IF id \in up THEN 1 ELSE 0]
      OBVIOUS
    <3> HIDE DEF Init
    <3>2. \A id \in up : starts[id] = 1
      BY <3>1
    <3> QED
      BY <3>2
  <2>2. pc = "opendir" /\ num = 0 /\ i = 0 /\ updated = {}
    OBVIOUS
  <2> HIDE DEF Init
  <2> QED
    BY <2>1, <2>2 DEF WalkInv
<1>4. DistinctEntries /\ UpdateOnce
  BY DEF DistinctEntries, UpdateOnce
<1> QED
  BY <1>1, <1>3, <1>4 DEF IInv

LEMMA StepIInv == IInv /\ [Next]_vars => IInv'
<1> SUFFICES ASSUME IInv, [Next]_vars PROVE IInv'
  OBVIOUS
<1> USE SizeAssumption DEF worldVars, listVars, addVars
<1>0. TypeOK /\ WalkInv /\ DistinctEntries /\ UpdateOnce
  BY DEF IInv
<1>a. /\ \A k \in 0 .. num - 1 : k \in Index /\ containers[k] \in Listed
      /\ num < MaxContainers => num \in Index
  BY <1>0 DEF TypeOK, Index, Listed
<1>b. UNCHANGED <<containers, num>> => Listed' = Listed
  BY DEF Listed
<1>1. ASSUME NEW id \in Ids, Start(id) PROVE IInv'
  <2>1. starts' \in [Ids -> 0 .. MaxStarts] /\ starts'[id] \in 1 .. MaxStarts
    BY <1>0, <1>1 DEF Start, TypeOK
  <2>2. TypeOK'
    BY <1>0, <1>1, <2>1 DEF Start, TypeOK
  <2>3. \A d \in up' : starts'[d] \in 1 .. MaxStarts
    BY <1>0, <1>1, <2>1 DEF Start, TypeOK, WalkInv
  <2>4. WalkInv' /\ DistinctEntries' /\ UpdateOnce'
    BY <1>0, <1>1, <1>b, <2>3 DEF Start, WalkInv, DistinctEntries, UpdateOnce
  <2> QED
    BY <2>2, <2>4 DEF IInv
<1>2. ASSUME NEW id \in Ids, Stop(id) PROVE IInv'
  <2>1. TypeOK'
    BY <1>0, <1>2 DEF Stop, TypeOK
  <2>2. WalkInv' /\ DistinctEntries' /\ UpdateOnce'
    BY <1>0, <1>2, <1>b DEF Stop, WalkInv, DistinctEntries, UpdateOnce
  <2> QED
    BY <2>1, <2>2 DEF IInv
<1>3. CASE OpenDir
  <2>1. table' \in [Fd -> Files] /\ todo' \subseteq Ids /\ pc' \in {"scan", "crashed"}
    BY <1>0, <1>3, FileFacts DEF OpenDir, TypeOK
  <2>2. TypeOK'
    BY <1>0, <1>3, <2>1 DEF OpenDir, TypeOK, Step
  <2>3. first => Listed = {}
    BY <1>0, <1>3 DEF OpenDir, WalkInv, Listed
  <2>4. WalkInv'
    BY <1>0, <1>3, <1>b, <2>1, <2>3 DEF OpenDir, WalkInv
  <2>5. DistinctEntries' /\ UpdateOnce'
    BY <1>0, <1>3, <1>b, <2>1 DEF OpenDir, DistinctEntries, UpdateOnce
  <2> QED
    BY <2>2, <2>4, <2>5 DEF IInv
<1>4. CASE CloseDir
  <2>1. table' \in [Fd -> Files]
    BY <1>0, <1>4, ClosedType DEF CloseDir, TypeOK
  <2>2. pc' \in {"update", "report"} /\ (pc' = "update" => first) /\ first' = FALSE
    BY <1>4 DEF CloseDir
  <2>3. pc' = "update" => i = 0 /\ updated = {} /\ i <= num
    BY <1>0, <2>2 DEF WalkInv, TypeOK
  <2>4. TypeOK'
    <3>1. first' \in BOOLEAN
      BY <2>2
    <3> QED
      BY <1>0, <1>4, <2>1, <2>2, <2>3, <3>1 DEF CloseDir, TypeOK, Step
  <2>5. WalkInv' /\ DistinctEntries'
    BY <1>0, <1>4, <1>b, <2>2 DEF CloseDir, WalkInv, DistinctEntries
  <2>6. UpdateOnce'
    BY <1>4, <2>3 DEF CloseDir, UpdateOnce
  <2> QED
    BY <2>4, <2>5, <2>6 DEF IInv
<1>5. ASSUME NEW id \in Ids, SkipEntry(id) PROVE IInv'
  <2>1. TypeOK'
    BY <1>0, <1>5 DEF SkipEntry, TypeOK
  <2>2. WalkInv' /\ DistinctEntries' /\ UpdateOnce'
    BY <1>0, <1>5, <1>b DEF SkipEntry, WalkInv, DistinctEntries, UpdateOnce
  <2> QED
    BY <2>1, <2>2 DEF IInv
<1>6. ASSUME NEW id \in Ids, AddEntry(id) PROVE IInv'
  <2>1. TypeOK'
    BY <1>0, <1>6 DEF AddEntry, TypeOK, Step
  <2>2. id \notin Listed /\ num < MaxContainers
    BY <1>0, <1>6 DEF AddEntry, Addable, WalkInv
  <2>3. WalkInv' /\ DistinctEntries' /\ UpdateOnce'
    BY <1>0, <1>6, <1>b, <2>2 DEF AddEntry, WalkInv, DistinctEntries, UpdateOnce
  <2> QED
    BY <2>1, <2>3 DEF IInv
<1>7. CASE OpenCgroup
  <2>1. table' \in [Fd -> Files] /\ cgfd' \in Fd \cup {NoFd}
    <3>1. adding \in up => Cgroup(adding, starts[adding]) \in Files
      BY <1>0, FileFacts DEF WalkInv, TypeOK
    <3> QED
      BY <1>0, <1>7, <3>1 DEF OpenCgroup, TypeOK, LowestFree, FreeFds
  <2>2. TypeOK'
    BY <1>0, <1>7, <2>1 DEF OpenCgroup, TypeOK, Step
  <2>3. WalkInv' /\ DistinctEntries' /\ UpdateOnce'
    BY <1>0, <1>7, <1>b DEF OpenCgroup, WalkInv, DistinctEntries, UpdateOnce
  <2> QED
    BY <2>2, <2>3 DEF IInv
<1>8. CASE OpenEvent
  <2>1. cpu \in Cpu /\ cpu + 1 \in 0 .. MaxCpus
    BY <1>0, <1>8 DEF OpenEvent, TypeOK, Cpu
  <2>2. table' \in [Fd -> Files] /\ slots' \in [Cells -> Fd \cup {NoFd}]
    <3>1. adding \in up => Event(adding, starts[adding], cpu) \in Files
      BY <1>0, <2>1, FileFacts DEF WalkInv, TypeOK
    <3>2. Stdout \in Fd
      BY DEF Stdout, Fd
    <3>3. CASE CgroupFound
      BY <1>0, <1>8, <3>1, <3>2, <3>3
         DEF OpenEvent, CgroupFound, TypeOK, LowestFree, FreeFds
    <3>4. CASE ~CgroupFound
      BY <1>0, <1>8, <3>2, <3>4 DEF OpenEvent, TypeOK
    <3> QED
      BY <3>3, <3>4
  <2>3. TypeOK'
    BY <1>0, <1>8, <2>1, <2>2 DEF OpenEvent, TypeOK
  <2>4. WalkInv' /\ DistinctEntries' /\ UpdateOnce'
    BY <1>0, <1>8, <1>b DEF OpenEvent, WalkInv, DistinctEntries, UpdateOnce
  <2> QED
    BY <2>3, <2>4 DEF IInv
<1>9. CASE FinishAdd
  <2>1. num \in Index /\ adding \in Ids \ todo /\ adding \notin Listed
    BY <1>0, <1>9, <1>a DEF FinishAdd, WalkInv, DistinctEntries
  <2>2. TypeOK'
    <3>1. table' \in [Fd -> Files]
      BY <1>0, <1>9, ClosedType DEF FinishAdd, TypeOK
    <3>2. containers' \in [Index -> Ids \cup {NoId}] /\ num' \in 0 .. MaxContainers
      BY <1>0, <1>9, <2>1 DEF FinishAdd, TypeOK, Index
    <3>3. cycles' \in [Index -> SUBSET (Events \cup {Uninitialised})]
      BY <1>0, <1>9, <2>1 DEF FinishAdd, TypeOK
    <3>4. pc' = "scan" /\ adding' = NoId /\ cgfd' = NoFd /\ cpu' \in 0 .. MaxCpus
      BY <1>9 DEF FinishAdd
    <3>5. UNCHANGED <<up, starts, terminal, slots, first, i, todo, updated, moved>>
      BY <1>9 DEF FinishAdd
    <3> QED
      BY <1>0, <3>1, <3>2, <3>3, <3>4, <3>5 DEF TypeOK, Step
  <2>3. /\ \A k \in 0 .. num - 1 : containers'[k] = containers[k] /\ k # num
        /\ containers'[num] = adding /\ num' = num + 1
    BY <1>0, <1>9, <1>a, <2>1 DEF FinishAdd, TypeOK, Index
  <2>4. Listed' = Listed \cup {adding}
    <3>1. 0 .. num' - 1 = (0 .. num - 1) \cup {num}
      BY <1>0, <2>3 DEF TypeOK
    <3> QED
      BY <2>3, <3>1 DEF Listed
  <2>5. WalkInv'
    BY <1>0, <1>9, <2>1, <2>4 DEF FinishAdd, WalkInv
  <2>6. DistinctEntries'
    <3>1. \A k \in 0 .. num' - 1 : k \in 0 .. num - 1 \/ k = num
      BY <1>0, <2>3 DEF TypeOK
    <3>2. \A k, l \in 0 .. num' - 1 : containers'[k] = containers'[l] => k = l
      BY <1>0, <1>a, <2>1, <2>3, <3>1 DEF DistinctEntries
    <3> QED
      BY <1>9, <3>2 DEF FinishAdd, DistinctEntries
  <2>7. UpdateOnce'
    BY <1>9 DEF FinishAdd, UpdateOnce
  <2> QED
    BY <2>2, <2>5, <2>6, <2>7 DEF IInv
<1>10. CASE UpdateEntry
  <2>1. i \in 0 .. num - 1 /\ i \in Index /\ containers[i] \in up
    BY <1>0, <1>10, <1>a DEF UpdateEntry, StatFilesOpen, TypeOK
  <2>2. TypeOK'
    <3>1. cycles' \in [Index -> SUBSET (Events \cup {Uninitialised})]
      BY <1>0, <1>10, CountType DEF UpdateEntry, TypeOK
    <3>2. updated' \subseteq Ids /\ i' \in 0 .. MaxContainers /\ i' <= num
      BY <1>0, <1>10, <2>1 DEF UpdateEntry, TypeOK
    <3> QED
      BY <1>0, <1>10, <3>1, <3>2 DEF UpdateEntry, TypeOK
  <2>3. WalkInv' /\ DistinctEntries'
    BY <1>0, <1>10, <1>b DEF UpdateEntry, WalkInv, DistinctEntries
  <2>4. UpdateOnce'
    <3>1. \A k \in 0 .. num - 1 : containers[k] = containers[i] => k = i
      BY <1>0, <2>1 DEF DistinctEntries
    <3>2. \A k \in 0 .. num - 1 : k < i + 1 <=> k < i \/ k = i
      BY <1>0, <2>1 DEF TypeOK
    <3> QED
      BY <1>0, <1>10, <3>1, <3>2 DEF UpdateEntry, UpdateOnce
  <2> QED
    BY <2>2, <2>3, <2>4 DEF IInv
<1>11. CASE RemoveEntry
  <2>1. i \in 0 .. num - 1 /\ num - 1 \in 0 .. num - 1 /\ num \in 1 .. MaxContainers
    BY <1>0, <1>11 DEF IndexAfterRemoval, RemoveEntry, TypeOK
  <2>2. /\ i \in Index /\ num - 1 \in Index /\ num' = num - 1
        /\ \A k \in Index : containers'[k] = containers[IF k = i THEN num - 1 ELSE k]
    BY <1>0, <1>11, <1>a, <2>1 DEF IndexAfterRemoval, RemoveEntry, TypeOK
  <2>3. TypeOK'
    <3>1. table' \in [Fd -> Files]
      BY <1>0, <1>11, ClosedType DEF IndexAfterRemoval, RemoveEntry, TypeOK
    <3>2. slots' \in [Cells -> Fd \cup {NoFd}]
      <4>1. ASSUME NEW c \in Cells, c \in Cell(i, 0) .. Cell(i, MaxCpus - 1)
            PROVE  slots[SourceCell(num, i, c - Cell(i, 0))] \in Fd \cup {NoFd}
        <5>1. Cell(i, 0) \in Nat /\ Cell(i, MaxCpus - 1) = Cell(i, 0) + (MaxCpus - 1)
          BY <2>2, CellFacts DEF Cell, Index, Cpu
        <5>2. c - Cell(i, 0) \in Cpu
          BY <4>1, <5>1 DEF Cpu, Cells
        <5>3. SourceCell(num, i, c - Cell(i, 0)) \in Cells
          BY <2>1, <5>2, SourceFacts
        <5> QED
          BY <1>0, <5>3 DEF TypeOK
      <4> QED
        BY <1>0, <1>11, <4>1 DEF IndexAfterRemoval, RemoveEntry, TypeOK
    <3>3. containers' \in [Index -> Ids \cup {NoId}]
      BY <1>0, <1>11, <2>2 DEF IndexAfterRemoval, RemoveEntry, TypeOK
    <3>4. cycles' \in [Index -> SUBSET (Events \cup {Uninitialised})]
      BY <1>0, <1>11, <2>2 DEF IndexAfterRemoval, RemoveEntry, TypeOK
    <3>5. moved' \in BOOLEAN
      BY <1>11, Zenon DEF IndexAfterRemoval, RemoveEntry
    <3>6. num' \in 0 .. MaxContainers /\ i <= num'
      BY <1>0, <2>1, <2>2 DEF TypeOK
    <3> QED
      BY <1>0, <1>11, <3>1, <3>2, <3>3, <3>4, <3>5, <3>6 DEF IndexAfterRemoval, RemoveEntry, TypeOK
  <2>4. WalkInv'
    BY <1>0, <1>11 DEF IndexAfterRemoval, RemoveEntry, WalkInv
  <2>5. ASSUME NEW k \in 0 .. num' - 1
        PROVE  k \in Index /\ k \in 0 .. num - 1 /\ k # num - 1
    BY <1>a, <2>1, <2>2
  <2>6. DistinctEntries'
    BY <1>0, <1>11, <2>1, <2>2, <2>5 DEF IndexAfterRemoval, RemoveEntry, DistinctEntries
  <2>7. UpdateOnce'
    <3>1. ~(num - 1 < i)
      BY <2>1
    <3>2. containers[num - 1] \in updated <=> FALSE
      BY <1>0, <1>11, <2>1, <3>1 DEF IndexAfterRemoval, RemoveEntry, UpdateOnce
    <3>3. \A k \in 0 .. num' - 1 : containers'[k] \in updated <=> k < i
      BY <1>0, <1>11, <2>1, <2>2, <2>5, <3>2 DEF IndexAfterRemoval, RemoveEntry, UpdateOnce
    <3> QED
      BY <1>11, <3>3 DEF IndexAfterRemoval, RemoveEntry, UpdateOnce
  <2> QED
    BY <2>3, <2>4, <2>6, <2>7 DEF IInv
<1>12. CASE UpdateDone
  <2>1. TypeOK'
    BY <1>0, <1>12 DEF UpdateDone, TypeOK, Step
  <2>2. WalkInv' /\ DistinctEntries' /\ UpdateOnce'
    BY <1>0, <1>12, <1>b DEF UpdateDone, WalkInv, DistinctEntries, UpdateOnce
  <2> QED
    BY <2>1, <2>2 DEF IInv
<1>13. CASE Report
  <2>1. TypeOK'
    BY <1>0, <1>13 DEF Report, TypeOK, Step
  <2>2. WalkInv' /\ DistinctEntries' /\ UpdateOnce'
    BY <1>0, <1>13, <1>b DEF Report, WalkInv, DistinctEntries, UpdateOnce
  <2> QED
    BY <2>1, <2>2 DEF IInv
<1>14. CASE UNCHANGED vars
  BY <1>0, <1>14, <1>b DEF vars, IInv, TypeOK, WalkInv, DistinctEntries, UpdateOnce
<1> QED
  BY <1>1, <1>2, <1>3, <1>4, <1>5, <1>6, <1>7, <1>8, <1>9, <1>10, <1>11, <1>12, <1>13,
     <1>14 DEF Next, World, Tool

LEMMA IInvCorrect == Spec => []IInv
BY InitIInv, StepIInv, PTL DEF Spec

(* The type invariant: the list never overflows, no cell outside the array *)
(* and the one behind it is touched, the update's index stays in the list. *)
THEOREM TypeCorrect == Spec => []TypeOK
<1>1. IInv => TypeOK
  BY DEF IInv
<1> QED
  BY <1>1, IInvCorrect, PTL

(* No container is ever listed twice, although the first walk adds without *)
(* a look-up and later walks run while containers come and go.             *)
THEOREM EntriesDistinct == Spec => []DistinctEntries
<1>1. IInv => DistinctEntries
  BY DEF IInv
<1> QED
  BY <1>1, IInvCorrect, PTL

(* An update reads every remaining entry exactly once, whichever entries   *)
(* it removes.                                                             *)
THEOREM UpdateCorrect == Spec => []UpdateOnce
<1>1. IInv => UpdateOnce
  BY DEF IInv
<1> QED
  BY <1>1, IInvCorrect, PTL

-----------------------------------------------------------------------------
(* Descriptors: which cell holds which, and what each stands for.          *)

(* No two cells of the list are the same.                                  *)
LEMMA CellInjective ==
  ASSUME NEW k \in Nat, NEW l \in Nat, NEW j \in Cpu, NEW m \in Cpu,
         Cell(k, j) = Cell(l, m)
  PROVE  k = l /\ j = m
<1> USE SizeAssumption
<1>1. \A a, b \in Nat : a < b => a * MaxCpus + MaxCpus <= b * MaxCpus
  <2> SUFFICES ASSUME NEW a \in Nat, NEW b \in Nat, a < b
               PROVE  a * MaxCpus + MaxCpus <= b * MaxCpus
    OBVIOUS
  <2>1. (a + 1) * MaxCpus <= b * MaxCpus
    BY MulMonotone
  <2> QED
    BY <2>1
<1>2. k * MaxCpus \in Nat /\ l * MaxCpus \in Nat
  OBVIOUS
<1>3. k * MaxCpus + j = l * MaxCpus + m /\ j \in 0 .. MaxCpus - 1 /\ m \in 0 .. MaxCpus - 1
  BY DEF Cell, Cpu
<1>4. ~(k < l) /\ ~(l < k)
  BY <1>1, <1>2, <1>3
<1> QED
  BY <1>3, <1>4

(* The cells a removal overwrites are those of the entry removed.          *)
LEMMA CellsOfEntry ==
  ASSUME NEW k \in Index, NEW l \in Index, NEW j \in Cpu
  PROVE  Cell(l, j) \in Cell(k, 0) .. Cell(k, MaxCpus - 1) => l = k
<1> USE SizeAssumption
<1> SUFFICES ASSUME Cell(l, j) \in Cell(k, 0) .. Cell(k, MaxCpus - 1) PROVE l = k
  OBVIOUS
<1>1. k \in Nat /\ l \in Nat /\ k * MaxCpus \in Nat
  BY DEF Index
<1> DEFINE m == Cell(l, j) - Cell(k, 0)
<1>2. m \in Cpu /\ Cell(k, m) = Cell(l, j)
  <2>1. Cell(k, 0) = k * MaxCpus /\ Cell(k, MaxCpus - 1) = k * MaxCpus + (MaxCpus - 1)
    BY <1>1 DEF Cell
  <2>2. Cell(k, m) = k * MaxCpus + m
    BY DEF Cell
  <2>3. Cell(l, j) \in Nat
    BY CellFacts
  <2> QED
    BY <1>1, <2>1, <2>2, <2>3 DEF Cpu
<1> HIDE DEF m
<1> QED
  BY <1>1, <1>2, CellInjective

(* What the tool opens besides events, and what tells them from events.    *)
Other == {Free, Dir} \cup {Cgroup(id, n) : id \in Ids, n \in 1 .. MaxStarts}

LEMMA FilesDiffer ==
  /\ Other \cap Events = {} /\ <<"stdout">> \notin Other \cup Events
  /\ Uninitialised \notin Events
  /\ \A id, n, j : Event(id, n, j) \notin Other
  /\ \A id, d, n, m, j, l :
       Event(id, n, j) = Event(d, m, l) => id = d /\ n = m /\ j = l
BY DEF Free, Dir, Cgroup, Event, Events, Other, Uninitialised

LEMMA FilledFacts ==
  ASSUME IInv
  PROVE  \A kj \in Filled :
           /\ kj[1] \in Index /\ kj[2] \in Cpu /\ kj = <<kj[1], kj[2]>>
           /\ kj[1] < num \/ (pc = "openevent" /\ kj[1] = num /\ kj[2] < cpu)
<1> USE SizeAssumption
<1>1. num \in 0 .. MaxContainers /\ cpu \in 0 .. MaxCpus
  BY DEF IInv, TypeOK
<1>2. pc = "openevent" => num \in Index
  BY <1>1 DEF IInv, DistinctEntries, Index
<1>3. 0 .. cpu - 1 \subseteq Cpu /\ \A j \in 0 .. cpu - 1 : j < cpu
  BY <1>1 DEF Cpu
<1>4. ASSUME NEW kj \in (Index \cap (0 .. num - 1)) \X Cpu
      PROVE  kj[1] \in Index /\ kj[2] \in Cpu /\ kj = <<kj[1], kj[2]>> /\ kj[1] < num
  BY <1>1
<1>5. ASSUME pc = "openevent", NEW kj \in {num} \X (0 .. cpu - 1)
      PROVE  kj[1] = num /\ kj[2] \in 0 .. cpu - 1 /\ kj = <<kj[1], kj[2]>>
  OBVIOUS
<1> QED
  BY <1>2, <1>3, <1>4, <1>5 DEF Filled

(* Standard output is lost for good, and an entry stays moved.             *)
LEMMA SoundStable == IInv /\ [Next]_vars /\ Sound' => Sound
<1> SUFFICES ASSUME IInv, [Next]_vars, Sound' PROVE Sound
  OBVIOUS
<1> USE FilesDiffer DEF worldVars, listVars, addVars, Sound
<1>1. table \in [Fd -> Files] /\ Stdout \in Fd
  BY SizeAssumption DEF IInv, TypeOK, Stdout, Fd
<1>2. \A fds : Closed(fds)[Stdout] = <<"stdout">> => table[Stdout] = <<"stdout">>
  BY <1>1 DEF Closed, Other
<1>3. \A f \in Fd, x \in Other \cup Events :
        [table EXCEPT ![f] = x][Stdout] = <<"stdout">> => table[Stdout] = <<"stdout">>
  BY <1>1
<1>4. \A f \in LowestFree : f \in Fd
  BY DEF LowestFree, FreeFds
<1>5. adding \in up => Cgroup(adding, starts[adding]) \in Other
  BY DEF IInv, TypeOK, WalkInv, Other
<1>6. CASE OpenDir
  <2>1. Dir \in Other
    BY DEF Other
  <2> QED
    BY <1>3, <1>4, <1>6, <2>1 DEF OpenDir
<1>7. CASE OpenCgroup
  BY <1>3, <1>4, <1>5, <1>7 DEF OpenCgroup
<1>8. CASE OpenEvent
  <2>1. Event(adding, starts[adding], cpu) # <<"stdout">>
    BY DEF Event
  <2>2. \A f \in Fd :
          [table EXCEPT ![f] = Event(adding, starts[adding], cpu)][Stdout] = <<"stdout">>
            => table[Stdout] = <<"stdout">>
    BY <1>1, <2>1
  <2> QED
    BY <1>4, <1>8, <2>2 DEF OpenEvent
<1>9. CASE FinishAdd \/ CloseDir \/ RemoveEntry
  <2>1. PICK fds : table' = Closed(fds)
    BY <1>9 DEF FinishAdd, CloseDir, RemoveEntry
  <2>2. ~moved
    BY <1>9, Zenon DEF FinishAdd, CloseDir, RemoveEntry
  <2> QED
    BY <1>2, <2>1, <2>2
<1>10. CASE \/ UNCHANGED vars \/ World \/ UpdateEntry \/ UpdateDone \/ Report
            \/ \E id \in Ids : SkipEntry(id) \/ AddEntry(id)
  BY <1>10 DEF vars, World, Start, Stop, UpdateEntry, UpdateDone, Report, SkipEntry,
               AddEntry
<1> QED
  BY <1>6, <1>7, <1>8, <1>9, <1>10 DEF Next, Tool

(* A step that leaves the cells, and the descriptors of events, alone.     *)
LEMMA DescriptorFrame ==
  ASSUME EventsMatchEntries, NoEventLeaked, Sound' => Sound,
         slots' = slots, Filled' = Filled,
         \A kj \in Filled : Owner(kj[1])' = Owner(kj[1]),
         \A f \in Fd : table'[f] # table[f] => table[f] \in Other /\ table'[f] \in Other
  PROVE  EventsMatchEntries' /\ NoEventLeaked'
<1> SUFFICES ASSUME Sound' PROVE EventsMatchEntries' /\ NoEventLeaked'
  BY DEF EventsMatchEntries, NoEventLeaked
<1>1. ASSUME NEW kj \in Filled'
      PROVE  OwnCell(kj[1], kj[2], slots[Cell(kj[1], kj[2])])'
  <2> DEFINE f == slots[Cell(kj[1], kj[2])]
  <2>1. OwnCell(kj[1], kj[2], f)
    BY <1>1 DEF EventsMatchEntries
  <2>2. f' = f
    OBVIOUS
  <2> HIDE DEF f
  <2>3. OwnCell(kj[1], kj[2], f)'
    BY <1>1, <2>1, <2>2, FilesDiffer DEF OwnCell
  <2> QED
    BY <2>3 DEF f
<1>2. ASSUME NEW f \in Fd, table'[f] \in Events
      PROVE  \E kj \in Filled' : slots'[Cell(kj[1], kj[2])] = f
  <2>1. table[f] \in Events
    BY <1>2, FilesDiffer
  <2> QED
    BY <2>1 DEF NoEventLeaked
<1> QED
  BY <1>1, <1>2 DEF EventsMatchEntries, NoEventLeaked

LEMMA InitDescriptor == Init => DescriptorInv
<1> SUFFICES ASSUME Init PROVE DescriptorInv
  OBVIOUS
<1>1. pc = "opendir" /\ num = 0 /\ Filled = {}
  BY DEF Init, Filled
<1>2. \A f \in Fd : table[f] \in {<<"stdin">>, <<"stdout">>, Free}
  BY DEF Init
<1>3. <<"stdin">> \notin Events
  BY DEF Events, Event
<1> QED
  BY <1>1, <1>2, <1>3, FilesDiffer
     DEF DescriptorInv, CgroupInv, EventsMatchEntries, NoEventLeaked, Other

LEMMA CgroupStep == IInv /\ CgroupInv /\ [Next]_vars => CgroupInv'
<1> SUFFICES ASSUME IInv, CgroupInv, [Next]_vars, pc' = "openevent", cgfd' # NoFd
             PROVE  \E id \in Ids, n \in 1 .. MaxStarts : table'[cgfd'] = Cgroup(id, n)
  BY DEF CgroupInv
<1> USE DEF worldVars, listVars, addVars
<1>1. table \in [Fd -> Files] /\ cgfd \in Fd \cup {NoFd}
  BY DEF IInv, TypeOK
<1>2. CASE OpenCgroup
  <2>1. adding \in Ids /\ starts[adding] \in 1 .. MaxStarts
    BY <1>2 DEF OpenCgroup, IInv, TypeOK, WalkInv
  <2>2. table'[cgfd'] = Cgroup(adding, starts[adding])
    BY <1>1, <1>2 DEF OpenCgroup, LowestFree, FreeFds
  <2> QED
    BY <2>1, <2>2
<1>3. CASE OpenEvent
  <2>1. cgfd' = cgfd /\ pc = "openevent" /\ cgfd \in Fd
    BY <1>1, <1>3 DEF OpenEvent
  <2>2. PICK id \in Ids, n \in 1 .. MaxStarts : table[cgfd] = Cgroup(id, n)
    BY <2>1 DEF CgroupInv
  <2>3. table'[cgfd] = table[cgfd]
    <3>1. cgfd \notin LowestFree
      BY <2>2 DEF LowestFree, FreeFds, Free, Cgroup
    <3> QED
      BY <1>1, <1>3, <2>1, <3>1 DEF OpenEvent
  <2> QED
    BY <2>1, <2>2, <2>3
<1>4. CASE UNCHANGED vars \/ World
  <2>1. UNCHANGED <<pc, cgfd, table>>
    BY <1>4 DEF vars, World, Start, Stop
  <2> QED
    BY <2>1 DEF CgroupInv
<1>5. CASE \/ OpenDir \/ CloseDir \/ FinishAdd \/ UpdateEntry \/ RemoveEntry
           \/ UpdateDone \/ Report \/ \E id \in Ids : SkipEntry(id) \/ AddEntry(id)
  BY <1>5 DEF OpenDir, CloseDir, FinishAdd, UpdateEntry, RemoveEntry, UpdateDone, Report,
              SkipEntry, AddEntry
<1> QED
  BY <1>2, <1>3, <1>4, <1>5 DEF Next, Tool

(* A new event goes to a cell that was not filled and to a descriptor that *)
(* was free; a failed one leaves standard output in its cell.              *)
LEMMA OpenEventDescriptor ==
  ASSUME IInv, DescriptorInv, OpenEvent, Sound
  PROVE  EventsMatchEntries' /\ NoEventLeaked'
<1> USE SizeAssumption DEF worldVars, listVars, addVars
<1>1. /\ num \in Index /\ cpu \in Cpu /\ cpu' = cpu + 1
      /\ pc = "openevent" /\ pc' = "openevent"
      /\ UNCHANGED <<num, containers, adding>>
  BY DEF OpenEvent, IInv, TypeOK, DistinctEntries, Index, Cpu
<1>2. Filled' = Filled \cup {<<num, cpu>>}
  <2>1. 0 .. cpu' - 1 = (0 .. cpu - 1) \cup {cpu}
    BY <1>1 DEF Cpu
  <2> QED
    BY <1>1, <2>1 DEF Filled
<1>3. table \in [Fd -> Files] /\ slots \in [Cells -> Fd \cup {NoFd}]
  BY DEF IInv, TypeOK
<1>4. Cell(num, cpu) \in Cells
  BY <1>1, CellFacts
<1>5. PICK f \in Fd :
        /\ slots' = [slots EXCEPT ![Cell(num, cpu)] = f]
        /\ \/ f = Stdout /\ table' = table
           \/ /\ table[f] = Free
              /\ table' = [table EXCEPT ![f] = Event(adding, starts[adding], cpu)]
              /\ starts[adding] \in 1 .. MaxStarts
  <2>1. Stdout \in Fd
    BY DEF Stdout, Fd
  <2>2. \/ slots' = [slots EXCEPT ![Cell(num, cpu)] = Stdout] /\ table' = table
        \/ \E g \in LowestFree :
             /\ slots' = [slots EXCEPT ![Cell(num, cpu)] = g]
             /\ table' = [table EXCEPT ![g] = Event(adding, starts[adding], cpu)]
             /\ CgroupFound
    BY DEF OpenEvent
  <2>3. CgroupFound => starts[adding] \in 1 .. MaxStarts
    BY DEF CgroupFound, IInv, WalkInv
  <2> QED
    BY <2>1, <2>2, <2>3 DEF LowestFree, FreeFds
<1>6. ASSUME NEW kj \in Filled
      PROVE  /\ slots'[Cell(kj[1], kj[2])] = slots[Cell(kj[1], kj[2])]
             /\ kj[1] \in Index /\ kj[2] \in Cpu
  <2>1. /\ kj[1] \in Index /\ kj[2] \in Cpu
        /\ kj[1] < num \/ (kj[1] = num /\ kj[2] < cpu)
    BY FilledFacts
  <2>2. Cell(kj[1], kj[2]) # Cell(num, cpu)
    BY <1>1, <2>1, CellInjective DEF Index, Cpu
  <2> QED
    BY <1>3, <1>5, <2>1, <2>2, CellFacts
<1>7. slots'[Cell(num, cpu)] = f
  BY <1>3, <1>4, <1>5
<1>8. \A g \in Fd : table'[g] = table[g] \/ (g = f /\ table[g] = Free)
  BY <1>3, <1>5
<1>9. ASSUME NEW kj \in Filled'
      PROVE  OwnCell(kj[1], kj[2], slots[Cell(kj[1], kj[2])])'
  <2>1. CASE kj = <<num, cpu>>
    <3>1. kj[1] = num /\ kj[2] = cpu /\ Owner(kj[1])' = adding
      BY <1>1, <2>1 DEF Owner
    <3>2. f = Stdout \/ (starts[adding] \in 1 .. MaxStarts
                          /\ table'[f] = Event(adding, starts[adding], cpu))
      BY <1>3, <1>5
    <3>3. slots[Cell(kj[1], kj[2])]' = f
      BY <1>7, <3>1
    <3> QED
      BY <3>1, <3>2, <3>3 DEF OwnCell
  <2>2. CASE kj \in Filled
    <3> DEFINE g == slots[Cell(kj[1], kj[2])]
    <3>1. OwnCell(kj[1], kj[2], g)
      BY <2>2 DEF DescriptorInv, EventsMatchEntries
    <3>2. Owner(kj[1])' = Owner(kj[1]) /\ g' = g
      BY <1>1, <1>6, <2>2 DEF Owner
    <3> HIDE DEF g
    <3>3. \A id, n, j : Event(id, n, j) # Free
      BY FilesDiffer DEF Other
    <3>4. OwnCell(kj[1], kj[2], g)'
      BY <1>8, <3>1, <3>2, <3>3 DEF OwnCell
    <3> QED
      BY <3>4 DEF g
  <2> QED
    BY <1>2, <2>1, <2>2
<1>10. ASSUME NEW g \in Fd, table'[g] \in Events
       PROVE  \E kj \in Filled' : slots'[Cell(kj[1], kj[2])] = g
  <2>1. CASE g = f /\ table'[g] # table[g]
    <3>1. <<num, cpu>> \in Filled'
      BY <1>2
    <3> QED
      BY <1>7, <2>1, <3>1
  <2>2. CASE table'[g] = table[g]
    <3>1. PICK kj \in Filled : slots[Cell(kj[1], kj[2])] = g
      BY <1>10, <2>2 DEF DescriptorInv, NoEventLeaked
    <3> QED
      BY <1>2, <1>6, <3>1
  <2> QED
    BY <1>8, <2>1, <2>2
<1> QED
  BY <1>9, <1>10 DEF EventsMatchEntries, NoEventLeaked

(* Where no entry is moved the last one has been removed, and the others   *)
(* keep their cells.                                                       *)
LEMMA RemovedLast ==
  ASSUME IInv, RemoveEntry, Sound'
  PROVE  /\ i = num - 1 /\ i \in 0 .. num - 1 /\ i \in Index
         /\ num' = num - 1 /\ num \in Nat
         /\ pc = "update" /\ pc' = "update" /\ updated' = updated
         /\ \A k \in 0 .. num - 2 :
              /\ k \in Index /\ k # i
              /\ containers'[k] = containers[k] /\ cycles'[k] = cycles[k]
              /\ \A j \in Cpu : slots'[Cell(k, j)] = slots[Cell(k, j)]
<1>1. i \in 0 .. num - 1 /\ num \in 1 .. MaxContainers
  BY DEF RemoveEntry, IInv, TypeOK
<1>2. ~(i < num - 1)
  BY Zenon DEF RemoveEntry, Sound
<1>3. i = num - 1 /\ i \in Index /\ num \in Nat
  BY <1>1, <1>2, SizeAssumption DEF Index
<1>4. num' = num - 1 /\ pc = "update" /\ pc' = "update" /\ updated' = updated
  BY DEF RemoveEntry
<1>5. ASSUME NEW k \in 0 .. num - 2
      PROVE  /\ k \in Index /\ k # i
             /\ containers'[k] = containers[k] /\ cycles'[k] = cycles[k]
             /\ \A j \in Cpu : slots'[Cell(k, j)] = slots[Cell(k, j)]
  <2>1. k \in Index /\ k # i
    BY <1>1, <1>3, SizeAssumption DEF Index
  <2>2. containers'[k] = containers[k] /\ cycles'[k] = cycles[k]
    BY <2>1 DEF RemoveEntry, IInv, TypeOK
  <2>3. ASSUME NEW j \in Cpu PROVE slots'[Cell(k, j)] = slots[Cell(k, j)]
    <3>1. Cell(k, j) \in Cells /\ Cell(k, j) \notin Cell(i, 0) .. Cell(i, MaxCpus - 1)
      BY <1>3, <2>1, CellFacts, CellsOfEntry
    <3> QED
      BY <3>1 DEF RemoveEntry
  <2> QED
    BY <2>1, <2>2, <2>3
<1> QED
  BY <1>1, <1>3, <1>4, <1>5

(* What is closed with an entry are its own events: others are kept.       *)
LEMMA RemoveDescriptor ==
  ASSUME IInv, DescriptorInv, RemoveEntry, Sound, Sound'
  PROVE  EventsMatchEntries' /\ NoEventLeaked'
<1> USE SizeAssumption
<1>1. Filled = (0 .. num - 1) \X Cpu /\ Filled' = (0 .. num - 2) \X Cpu
  BY RemovedLast DEF Filled, IInv, TypeOK, Index
<1>2. table' = Closed({slots[Cell(i, j)] : j \in Cpu}) /\ table \in [Fd -> Files]
  BY DEF RemoveEntry, IInv, TypeOK
<1>3. Stdout \in Fd
  BY DEF Stdout, Fd
<1>4. \A j \in Cpu : slots[Cell(i, j)] # Stdout
  <2>1. table'[Stdout] # Free
    BY FilesDiffer DEF Sound, Other
  <2> QED
    BY <1>2, <1>3, <2>1 DEF Closed
<1>5. ASSUME NEW k \in 0 .. num - 1, NEW j \in Cpu
      PROVE  OwnCell(k, j, slots[Cell(k, j)]) /\ Owner(k) = containers[k]
  <2>1. <<k, j>> \in Filled /\ k # num
    BY <1>1, RemovedLast
  <2> QED
    BY <2>1 DEF DescriptorInv, EventsMatchEntries, Owner
<1>6. ASSUME NEW kj \in Filled'
      PROVE  OwnCell(kj[1], kj[2], slots[Cell(kj[1], kj[2])])'
  <2> DEFINE g == slots[Cell(kj[1], kj[2])]
  <2>1. kj[1] \in 0 .. num - 2 /\ kj[2] \in Cpu
    BY <1>1, <1>6
  <2>2. kj[1] \in 0 .. num - 1 /\ kj[1] # num' /\ kj[1] # i
    BY <2>1, RemovedLast
  <2>3. g' = g /\ Owner(kj[1])' = containers[kj[1]]
    BY <2>1, <2>2, RemovedLast DEF Owner
  <2>4. OwnCell(kj[1], kj[2], g) /\ Owner(kj[1]) = containers[kj[1]]
    BY <1>5, <2>1, <2>2
  <2>5. containers[kj[1]] # containers[i]
    BY <2>2, RemovedLast DEF IInv, DistinctEntries
  <2> HIDE DEF g
  <2>6. CASE g = Stdout
    <3>1. OwnCell(kj[1], kj[2], g)'
      BY <2>3, <2>6 DEF OwnCell
    <3> QED
      BY <3>1 DEF g
  <2>7. CASE g # Stdout
    <3>1. PICK n \in 1 .. MaxStarts : table[g] = Event(containers[kj[1]], n, kj[2])
      BY <2>4, <2>7 DEF OwnCell
    <3>2. g \in Fd
      BY <2>4, <2>7 DEF OwnCell
    <3>3. ASSUME NEW j \in Cpu PROVE slots[Cell(i, j)] # g
      <4>1. i \in 0 .. num - 1
        BY RemovedLast
      <4>2. \E m \in 1 .. MaxStarts : table[slots[Cell(i, j)]] = Event(containers[i], m, j)
        BY <1>4, <1>5, <4>1 DEF OwnCell
      <4> QED
        BY <2>5, <3>1, <4>2, FilesDiffer
    <3>4. table'[g] = table[g]
      BY <1>2, <3>2, <3>3 DEF Closed
    <3>5. OwnCell(kj[1], kj[2], g)'
      BY <2>3, <3>1, <3>2, <3>4 DEF OwnCell
    <3> QED
      BY <3>5 DEF g
  <2> QED
    BY <2>6, <2>7
<1>7. ASSUME NEW f \in Fd, table'[f] \in Events
      PROVE  \E kj \in Filled' : slots'[Cell(kj[1], kj[2])] = f
  <2>1. table[f] \in Events /\ f \notin {slots[Cell(i, j)] : j \in Cpu}
    BY <1>2, <1>7, FilesDiffer DEF Closed, Other
  <2>2. PICK kj \in Filled : slots[Cell(kj[1], kj[2])] = f
    BY <2>1 DEF DescriptorInv, NoEventLeaked
  <2>3. kj[1] \in 0 .. num - 1 /\ kj[2] \in Cpu /\ kj = <<kj[1], kj[2]>>
    BY <1>1, <2>2
  <2>4. kj[1] \in 0 .. num - 2
    BY <2>1, <2>2, <2>3, RemovedLast
  <2>5. kj \in Filled' /\ slots'[Cell(kj[1], kj[2])] = f
    BY <1>1, <2>2, <2>3, <2>4, RemovedLast
  <2> QED
    BY <2>5
<1> QED
  BY <1>6, <1>7 DEF EventsMatchEntries, NoEventLeaked

LEMMA StepDescriptor == IInv /\ DescriptorInv /\ [Next]_vars => DescriptorInv'
<1> SUFFICES ASSUME IInv, DescriptorInv, [Next]_vars
             PROVE  EventsMatchEntries' /\ NoEventLeaked'
  BY CgroupStep DEF DescriptorInv
<1>a. SUFFICES ASSUME Sound', Sound PROVE EventsMatchEntries' /\ NoEventLeaked'
  BY SoundStable DEF EventsMatchEntries, NoEventLeaked
<1>b. EventsMatchEntries /\ NoEventLeaked /\ CgroupInv
  BY DEF DescriptorInv
<1>c. table \in [Fd -> Files] /\ num \in Nat
  BY DEF IInv, TypeOK
<1> USE DEF worldVars, listVars, addVars
<1>1. CASE OpenDir
  <2>1. \A f \in Fd : table'[f] # table[f] => table[f] \in Other /\ table'[f] \in Other
    BY <1>1, <1>c DEF OpenDir, LowestFree, FreeFds, Other
  <2>2. pc # "openevent" /\ pc' # "openevent" /\ UNCHANGED <<num, containers, adding, slots>>
    BY <1>1 DEF OpenDir
  <2>3. Filled' = Filled /\ \A k : Owner(k)' = Owner(k)
    BY <2>2 DEF Filled, Owner
  <2> QED
    BY <1>a, <1>b, <2>1, <2>2, <2>3, DescriptorFrame
<1>2. CASE CloseDir
  <2>1. \A f \in Fd : table'[f] # table[f] => table[f] \in Other /\ table'[f] \in Other
    BY <1>2 DEF CloseDir, Closed, Other
  <2>2. pc # "openevent" /\ pc' # "openevent" /\ UNCHANGED <<num, containers, adding, slots>>
    BY <1>2 DEF CloseDir
  <2>3. Filled' = Filled /\ \A k : Owner(k)' = Owner(k)
    BY <2>2 DEF Filled, Owner
  <2> QED
    BY <1>a, <1>b, <2>1, <2>2, <2>3, DescriptorFrame
<1>3. CASE OpenCgroup
  <2>1. \A f \in Fd : table'[f] # table[f] => table[f] \in Other /\ table'[f] \in Other
    <3>1. adding \in up => Cgroup(adding, starts[adding]) \in Other
      BY DEF IInv, TypeOK, WalkInv, Other
    <3> QED
      BY <1>3, <1>c, <3>1 DEF OpenCgroup, LowestFree, FreeFds, Other
  <2>2. /\ pc # "openevent" /\ pc' = "openevent" /\ cpu' = 0
        /\ UNCHANGED <<num, containers, adding, slots>>
    BY <1>3 DEF OpenCgroup
  <2>3. Filled' = Filled /\ \A k : Owner(k)' = Owner(k)
    BY <2>2 DEF Filled, Owner
  <2> QED
    BY <1>a, <1>b, <2>1, <2>2, <2>3, DescriptorFrame
<1>4. CASE OpenEvent
  BY <1>4, <1>a, OpenEventDescriptor
<1>5. CASE FinishAdd
  <2>1. /\ pc = "openevent" /\ pc' # "openevent" /\ cpu = MaxCpus /\ num' = num + 1
        /\ num \in Index /\ slots' = slots /\ table' = Closed({cgfd})
    BY <1>5, SizeAssumption DEF FinishAdd, IInv, TypeOK, DistinctEntries, Index
  <2>2. /\ containers'[num] = adding
        /\ \A k \in 0 .. num - 1 : containers'[k] = containers[k]
    BY <1>5, <2>1 DEF FinishAdd, IInv, TypeOK, Index
  <2>3. Filled = (0 .. num) \X Cpu /\ Filled' = (0 .. num) \X Cpu
    <3>1. /\ (Index \cap (0 .. num - 1)) = 0 .. num - 1 /\ 0 .. num = (0 .. num - 1) \cup {num}
          /\ Index \cap (0 .. num' - 1) = 0 .. num /\ 0 .. cpu - 1 = Cpu
      BY <2>1, SizeAssumption DEF Index, Cpu
    <3> QED
      BY <2>1, <3>1 DEF Filled
  <2>4. \A kj \in Filled : Owner(kj[1])' = Owner(kj[1])
    BY <1>c, <2>1, <2>2, <2>3 DEF Owner
  <2>5. \A f \in Fd : table'[f] # table[f] => table[f] \in Other /\ table'[f] \in Other
    <3>1. cgfd \in Fd => table[cgfd] \in Other
      <4>1. cgfd \in Fd => cgfd # NoFd
        BY SizeAssumption DEF Fd, NoFd
      <4> QED
        BY <1>b, <2>1, <4>1 DEF CgroupInv, Other
    <3> QED
      BY <2>1, <3>1 DEF Closed, Other
  <2> QED
    BY <1>a, <1>b, <2>1, <2>3, <2>4, <2>5, DescriptorFrame
<1>6. CASE RemoveEntry
  BY <1>6, <1>a, RemoveDescriptor
<1>7. ASSUME NEW id \in Ids, AddEntry(id)
      PROVE  EventsMatchEntries' /\ NoEventLeaked'
  <2>1. pc # "openevent" /\ pc' # "openevent" /\ UNCHANGED <<num, containers, table, slots>>
    BY <1>7 DEF AddEntry
  <2>2. Filled' = Filled /\ \A kj \in Filled : Owner(kj[1])' = Owner(kj[1])
    BY <1>c, <2>1 DEF Filled, Owner
  <2> QED
    BY <1>a, <1>b, <2>1, <2>2, DescriptorFrame
<1>8. CASE \/ UNCHANGED vars \/ World \/ UpdateEntry \/ UpdateDone \/ Report
           \/ \E id \in Ids : SkipEntry(id)
  <2>1. /\ UNCHANGED <<table, slots, num, containers, adding, cpu>>
        /\ pc' = "openevent" <=> pc = "openevent"
    BY <1>8 DEF vars, World, Start, Stop, UpdateEntry, UpdateDone, Report, SkipEntry
  <2>2. Filled' = Filled /\ \A k : Owner(k)' = Owner(k)
    BY <2>1 DEF Filled, Owner
  <2> QED
    BY <1>a, <1>b, <2>1, <2>2, DescriptorFrame
<1> QED
  BY <1>1, <1>2, <1>3, <1>4, <1>5, <1>6, <1>7, <1>8 DEF Next, Tool

LEMMA DescriptorCorrect == Spec => []DescriptorInv
BY InitDescriptor, StepDescriptor, IInvCorrect, PTL DEF Spec

(* Until an entry is moved or standard output is lost, every cell of a     *)
(* listed container, and of the one being added, holds its own event.      *)
THEOREM EventsCorrect == Spec => []EventsMatchEntries
<1>1. DescriptorInv => EventsMatchEntries
  BY DEF DescriptorInv
<1> QED
  BY <1>1, DescriptorCorrect, PTL

(* Until then the tool keeps no event open that it has no cell for, in     *)
(* whatever order containers come and go and events fail to open.          *)
THEOREM LeakCorrect == Spec => []NoEventLeaked
<1>1. DescriptorInv => NoEventLeaked
  BY DEF DescriptorInv
<1> QED
  BY <1>1, DescriptorCorrect, PTL

-----------------------------------------------------------------------------
(* The counts an estimate is made from.                                    *)

LEMMA EstimatedFrame ==
  ASSUME NEW k, containers'[k] = containers[k], cycles'[k] = cycles[k],
         \A j \in Cpu : slots'[Cell(k, j)] = slots[Cell(k, j)]
  PROVE  Estimated(k) => Estimated(k)'
BY DEF Estimated, OwnEvents

(* The sum of an entry's cells: counts of its own events, and whatever     *)
(* failed ones return.                                                     *)
LEMMA CountsOfOwn ==
  ASSUME IInv, EventsMatchEntries, Sound, UpdateEntry, NEW k, k = i
  PROVE  Estimated(k)'
<1>1. k \in 0 .. num - 1 /\ k \in Index /\ k # num /\ containers[k] \in Ids
  BY SizeAssumption DEF UpdateEntry, StatFilesOpen, IInv, TypeOK, Index
<1>2. cycles'[k] = {Count(slots[Cell(k, j)]) : j \in Cpu} /\ UNCHANGED <<slots, containers>>
  BY <1>1 DEF UpdateEntry, IInv, TypeOK
<1>3. ASSUME NEW j \in Cpu
      PROVE  /\ slots[Cell(k, j)] = Stdout => Count(slots[Cell(k, j)]) = Uninitialised
             /\ slots[Cell(k, j)] # Stdout =>
                  \E n \in 1 .. MaxStarts :
                    Count(slots[Cell(k, j)]) = Event(containers[k], n, j)
  <2> DEFINE f == slots[Cell(k, j)]
  <2>1. OwnCell(k, j, f)
    <3>1. <<k, j>> \in Filled
      BY <1>1 DEF Filled
    <3> QED
      BY <3>1 DEF EventsMatchEntries
  <2> HIDE DEF f
  <2>2. f = Stdout => Count(f) = Uninitialised
    BY FilesDiffer DEF Count, Sound
  <2>3. ASSUME f # Stdout
        PROVE  \E n \in 1 .. MaxStarts : Count(f) = Event(containers[k], n, j)
    <3>1. PICK n \in 1 .. MaxStarts : table[f] = Event(containers[k], n, j)
      BY <1>1, <2>1, <2>3 DEF OwnCell, Owner
    <3>2. table[f] \in Events /\ f \in Fd
      BY <1>1, <2>1, <2>3, <3>1, FileFacts DEF OwnCell
    <3> QED
      BY <3>1, <3>2 DEF Count
  <2> QED
    BY <2>2, <2>3 DEF f
<1>4. cycles'[k] \subseteq OwnEvents(containers[k]) \cup {Uninitialised}
  <2> SUFFICES ASSUME NEW j \in Cpu
               PROVE  Count(slots[Cell(k, j)]) \in OwnEvents(containers[k]) \cup {Uninitialised}
    BY <1>2
  <2> QED
    BY <1>3 DEF OwnEvents
<1>5. ASSUME \A j \in Cpu : slots[Cell(k, j)] # Stdout, NEW j \in Cpu
      PROVE  \E n \in 1 .. MaxStarts : Event(containers[k], n, j) \in cycles'[k]
  BY <1>2, <1>3, <1>5
<1> QED
  BY <1>2, <1>4, <1>5 DEF Estimated, OwnEvents

LEMMA StepEstimate == IInv /\ DescriptorInv /\ EstimateInv /\ [Next]_vars => EstimateInv'
<1> SUFFICES ASSUME IInv, DescriptorInv, EstimateInv, [Next]_vars PROVE EstimateInv'
  OBVIOUS
<1> USE DEF worldVars, listVars, addVars
<1>a. /\ num \in Nat /\ \A k \in 0 .. num - 1 : k \in Index
      /\ num < MaxContainers => num \in Index
  BY SizeAssumption DEF IInv, TypeOK, Index
<1>b. Sound' => Sound
  BY SoundStable
<1>c. updated \subseteq Listed
  BY DEF EstimateInv
<1>d. Sound => \A k \in 0 .. num - 1 : containers[k] \in updated => Estimated(k)
  BY DEF EstimateInv
<1>1. CASE \/ UNCHANGED vars \/ World \/ OpenDir \/ CloseDir \/ OpenCgroup
           \/ UpdateDone \/ \E id \in Ids : SkipEntry(id) \/ AddEntry(id)
  <2>1. UNCHANGED <<slots, containers, cycles, num, updated>>
    BY <1>1 DEF vars, World, Start, Stop, OpenDir, CloseDir, OpenCgroup, SkipEntry, AddEntry,
                UpdateDone
  <2>2. \A k : Estimated(k) => Estimated(k)'
    BY <2>1, EstimatedFrame
  <2>3. Listed' = Listed
    BY <2>1 DEF Listed
  <2> QED
    BY <1>b, <1>c, <1>d, <2>1, <2>2, <2>3 DEF EstimateInv
<1>2. CASE OpenEvent
  <2>1. /\ UNCHANGED <<containers, cycles, num, updated, pc>> /\ pc = "openevent"
        /\ num \in Index /\ cpu \in Cpu
    BY <1>2, <1>a, SizeAssumption DEF OpenEvent, IInv, TypeOK, DistinctEntries, Cpu
  <2>2. PICK f : slots' = [slots EXCEPT ![Cell(num, cpu)] = f]
    BY <1>2 DEF OpenEvent
  <2>3. ASSUME NEW k \in 0 .. num - 1 PROVE Estimated(k) => Estimated(k)'
    <3>1. \A j \in Cpu : Cell(k, j) # Cell(num, cpu)
      BY <1>a, <2>1, CellInjective
    <3>2. \A j \in Cpu : slots'[Cell(k, j)] = slots[Cell(k, j)]
      BY <1>a, <2>2, <3>1, CellFacts DEF IInv, TypeOK
    <3> QED
      BY <2>1, <3>2, EstimatedFrame
  <2>4. Listed' = Listed
    BY <2>1 DEF Listed
  <2> QED
    BY <1>b, <1>c, <1>d, <2>1, <2>3, <2>4 DEF EstimateInv
<1>3. CASE FinishAdd
  <2>1. /\ num' = num + 1 /\ UNCHANGED <<slots, updated>> /\ num \in Index
        /\ pc # "update" /\ adding \notin Listed
        /\ containers' = [containers EXCEPT ![num] = adding]
        /\ cycles' = [cycles EXCEPT ![num] = {Uninitialised}]
    BY <1>3, <1>a DEF FinishAdd, IInv, DistinctEntries
  <2>2. /\ containers'[num] = adding /\ cycles'[num] = {Uninitialised}
        /\ \A k \in 0 .. num - 1 : containers'[k] = containers[k] /\ cycles'[k] = cycles[k]
    BY <1>a, <2>1 DEF IInv, TypeOK
  <2>3. \A k \in 0 .. num - 1 : Estimated(k) => Estimated(k)'
    BY <2>1, <2>2, EstimatedFrame
  <2>4. \A k \in 0 .. num' - 1 : k \in 0 .. num - 1 \/ k = num
    BY <1>a, <2>1
  <2>5. Listed \subseteq Listed'
    BY <1>a, <2>1, <2>2 DEF Listed
  <2> QED
    BY <1>b, <1>c, <1>d, <2>1, <2>2, <2>3, <2>4, <2>5 DEF EstimateInv
<1>4. CASE UpdateEntry
  <2>1. /\ UNCHANGED <<slots, containers, num>> /\ pc' = "update" /\ i \in 0 .. num - 1
        /\ updated' = updated \cup {containers[i]}
        /\ \A k \in 0 .. num - 1 : k # i => cycles'[k] = cycles[k]
    BY <1>4, <1>a DEF UpdateEntry, IInv, TypeOK
  <2>2. Listed' = Listed /\ containers[i] \in Listed
    BY <2>1 DEF Listed
  <2>3. ASSUME Sound, NEW k \in 0 .. num - 1, containers[k] \in updated'
        PROVE  Estimated(k)'
    <3>1. CASE k = i
      BY <1>4, <2>3, <3>1, CountsOfOwn DEF DescriptorInv
    <3>2. CASE k # i
      <4>1. containers[k] # containers[i]
        BY <2>1, <3>2 DEF IInv, DistinctEntries
      <4>2. Estimated(k)
        BY <1>d, <2>1, <2>3, <4>1
      <4> QED
        BY <2>1, <3>2, <4>2, EstimatedFrame
    <3> QED
      BY <3>1, <3>2
  <2> QED
    BY <1>b, <1>c, <2>1, <2>2, <2>3 DEF EstimateInv
<1>5. CASE RemoveEntry
  <2>1. updated' \subseteq Listed'
    <3>1. /\ i \in 0 .. num - 1 /\ num' = num - 1 /\ updated' = updated /\ pc = "update"
          /\ containers'[i] = containers[num - 1] /\ num - 1 \in 0 .. num - 1
          /\ \A k \in 0 .. num - 1 : k # i => containers'[k] = containers[k]
      BY <1>5, <1>a DEF RemoveEntry, IInv, TypeOK
    <3>2. \A k \in 0 .. num - 1 : containers[k] \in updated => k < i
      BY <3>1 DEF IInv, UpdateOnce
    <3>3. ASSUME NEW id \in updated PROVE id \in Listed'
      <4>1. PICK k \in 0 .. num - 1 : containers[k] = id
        BY <1>c DEF Listed
      <4>2. k < i
        BY <3>2, <4>1
      <4>3. k \in 0 .. num' - 1 /\ containers'[k] = id
        BY <1>a, <3>1, <4>1, <4>2
      <4> QED
        BY <4>3 DEF Listed
    <3> QED
      BY <3>1, <3>3
  <2>2. ASSUME Sound', NEW k \in 0 .. num' - 1, containers'[k] \in updated'
        PROVE  Estimated(k)'
    <3>1. num' = num - 1 /\ updated' = updated /\ num \in Nat
      BY <1>5, <2>2, RemovedLast
    <3>2. k \in 0 .. num - 2 /\ k \in 0 .. num - 1
      BY <3>1
    <3>3. /\ containers'[k] = containers[k] /\ cycles'[k] = cycles[k]
          /\ \A j \in Cpu : slots'[Cell(k, j)] = slots[Cell(k, j)]
      BY <1>5, <2>2, <3>2, RemovedLast
    <3>4. Estimated(k)
      BY <1>b, <1>d, <2>2, <3>1, <3>2, <3>3
    <3> QED
      BY <3>3, <3>4, EstimatedFrame
  <2>3. pc' = "update"
    BY <1>5 DEF RemoveEntry
  <2> QED
    BY <2>1, <2>2, <2>3 DEF EstimateInv
<1>6. CASE Report
  BY <1>6 DEF Report, EstimateInv
<1> QED
  BY <1>1, <1>2, <1>3, <1>4, <1>5, <1>6 DEF Next, Tool

(* Until an entry is moved or standard output is lost, what an interval's  *)
(* report estimates from is, for every entry the update has read, the      *)
(* counts of that container's own events, of all of them if none failed.   *)
(* An entry just found has no count (FreshCounts).                         *)
THEOREM EstimateCorrect == Spec => []EstimatedFromOwn
<1>1. Init => EstimateInv
  BY DEF Init, EstimateInv
<1>2. IInv /\ DescriptorInv /\ EstimateInv /\ [Next]_vars => EstimateInv'
  BY StepEstimate
<1>3. EstimateInv => EstimatedFromOwn
  BY DEF EstimateInv, EstimatedFromOwn
<1> QED
  BY <1>1, <1>2, <1>3, IInvCorrect, DescriptorCorrect, PTL DEF Spec

(* The step of what OwnCycles says, while Sound.                           *)
LEMMA StepOwnCycles ==
  IInv /\ DescriptorInv /\ (Sound => OwnCycles) /\ [Next]_vars => (Sound => OwnCycles)'
<1> SUFFICES ASSUME IInv, DescriptorInv, Sound => OwnCycles, [Next]_vars, Sound'
             PROVE  OwnCycles'
  OBVIOUS
<1> USE DEF worldVars, listVars, addVars
<1>0. Sound /\ OwnCycles
  BY SoundStable
<1>a. num \in Nat /\ \A k \in 0 .. num - 1 : k \in Index
  BY SizeAssumption DEF IInv, TypeOK, Index
<1>1. CASE UNCHANGED <<containers, cycles, num>>
  BY <1>0, <1>1 DEF OwnCycles, OwnEvents
<1>2. CASE FinishAdd
  <2>1. /\ num' = num + 1 /\ cycles'[num] = {Uninitialised}
        /\ \A k \in 0 .. num - 1 : containers'[k] = containers[k] /\ cycles'[k] = cycles[k]
    BY <1>2, <1>a, SizeAssumption DEF FinishAdd, IInv, TypeOK, DistinctEntries, Index
  <2>2. \A k \in 0 .. num' - 1 : k \in 0 .. num - 1 \/ k = num
    BY <1>a, <2>1
  <2> QED
    BY <1>0, <2>1, <2>2 DEF OwnCycles, OwnEvents
<1>3. CASE UpdateEntry
  <2>1. /\ UNCHANGED <<containers, num>>
        /\ \A k \in 0 .. num - 1 : k # i => cycles'[k] = cycles[k]
    BY <1>3, <1>a DEF UpdateEntry, IInv, TypeOK
  <2>2. ASSUME NEW k \in 0 .. num - 1, k = i
        PROVE  cycles'[k] \subseteq OwnEvents(containers'[k]) \cup {Uninitialised}
    BY <1>0, <1>3, <2>2, CountsOfOwn DEF DescriptorInv, Estimated, OwnEvents
  <2> QED
    BY <1>0, <2>1, <2>2 DEF OwnCycles, OwnEvents
<1>4. CASE RemoveEntry
  <2>1. /\ num' = num - 1
        /\ \A k \in 0 .. num - 2 : containers'[k] = containers[k] /\ cycles'[k] = cycles[k]
    BY <1>4, RemovedLast
  <2>2. \A k \in 0 .. num' - 1 : k \in 0 .. num - 2 /\ k \in 0 .. num - 1
    BY <1>a, <2>1
  <2> QED
    BY <1>0, <2>1, <2>2 DEF OwnCycles, OwnEvents
<1> QED
  BY <1>1, <1>2, <1>3, <1>4
     DEF Next, Tool, World, Start, Stop, OpenDir, CloseDir, SkipEntry, AddEntry, OpenCgroup,
         OpenEvent, UpdateDone, Report, vars

(* OwnCycles itself fails (container_stats.c:300); the moved entry and the *)
(* lost standard output are all that is behind it: before either happens,  *)
(* at every step and not only at a report, the counts summed up for an     *)
(* entry are of its own container.                                         *)
THEOREM CountsCorrect == Spec => [](Sound => OwnCycles)
<1>1. Init => (Sound => OwnCycles)
  BY DEF Init, OwnCycles
<1>2. IInv /\ DescriptorInv /\ (Sound => OwnCycles) /\ [Next]_vars => (Sound => OwnCycles)'
  BY StepOwnCycles
<1> QED
  BY <1>1, <1>2, IInvCorrect, DescriptorCorrect, PTL DEF Spec

-----------------------------------------------------------------------------
(* RemoveEntry copies the cells at once; the code copies them one by one,  *)
(* into the array it is reading.                                           *)

LEMMA SmallestOf ==
  ASSUME NEW S \in SUBSET Nat, S # {}
  PROVE  \E m \in S : \A n \in S : m <= n
<1>1. PICK m \in S : \A n \in S : ~(<<n, m>> \in OpToRel(<, Nat))
  BY NatLessThanWellFounded, WFMin
<1>2. \A n \in Nat : n < m => <<n, m>> \in OpToRel(<, Nat)
  BY DEF OpToRel
<1>3. \A n \in S : ~(n < m)
  BY <1>1, <1>2
<1>4. \A n \in S : n \in Nat /\ m \in Nat
  OBVIOUS
<1> QED
  BY <1>3, <1>4

LEMMA QuotientUnique ==
  ASSUME NEW d \in Nat \ {0}, NEW q \in Int, NEW p \in Int,
         NEW r \in 0 .. d - 1, NEW s \in 0 .. d - 1, d * q + r = d * p + s
  PROVE  r = s
<1>1. d * (q - p) = s - r
  <2>1. d * (q - p) = d * q - d * p
    OBVIOUS
  <2> QED
    BY <2>1
<1>2. CASE q = p
  BY <1>2
<1>3. CASE q > p
  <2>1. d * (q - p) >= d
    BY <1>3
  <2> QED
    BY <1>1, <2>1
<1>4. CASE q < p
  <2>1. d * (p - q) >= d /\ d * (p - q) = r - s
    BY <1>1, <1>4
  <2> QED
    BY <2>1
<1> QED
  BY <1>2, <1>3, <1>4

LEMMA ModShift ==
  ASSUME NEW d \in Nat \ {0}, NEW j \in Nat
  PROVE  /\ j < d => j % d = j
         /\ d <= j => (j - d) % d = j % d
<1>1. \A x \in Nat : x \div d \in Nat /\ x % d \in 0 .. d - 1 /\ x = d * (x \div d) + (x % d)
  OBVIOUS
<1>2. ASSUME d <= j PROVE (j - d) % d = j % d
  <2> DEFINE q == (j - d) \div d
             p == j \div d
             r == (j - d) % d
             s == j % d
  <2>1. j = d * p + s /\ s \in 0 .. d - 1 /\ p \in Nat
    BY <1>1
  <2>2. j - d = d * q + r /\ r \in 0 .. d - 1 /\ q \in Nat
    <3>1. j - d \in Nat
      BY <1>2
    <3> QED
      BY <1>1, <3>1
  <2> HIDE DEF q, p, r, s
  <2>3. d * (q + 1) + r = d * p + s
    <3>1. d * (q + 1) = d * q + d
      BY <2>2
    <3>2. d * q \in Nat /\ d * p \in Nat
      BY <2>1, <2>2
    <3> QED
      BY <2>1, <2>2, <3>1, <3>2
  <2>4. r = s
    BY <2>1, <2>2, <2>3, QuotientUnique
  <2> QED
    BY <2>4 DEF r, s
<1> QED
  BY <1>2

(* One round after another: After[m] is the array once the loop of         *)
(* remove_docker_container (container_stats.c:297-301) has run m rounds    *)
(* for entry k of n.  After m rounds the first m cells of the entry are    *)
(* what SourceCell says, and the others are what they were.                *)
Loop(After, n, k) ==
  \A j \in Cpu : After[j + 1] = [After[j] EXCEPT ![Cell(k, j)] = After[j][n + j]]

Rounds(After, n, k, m) ==
  \A c \in Cells :
    After[m][c] = IF c \in Cell(k, 0) .. Cell(k, 0) + m - 1
                    THEN After[0][SourceCell(n, k, c - Cell(k, 0))]
                    ELSE After[0][c]

(* The loop reads no further than one cell behind the array.               *)
LEMMA ReadCell ==
  ASSUME NEW n \in 1 .. MaxContainers, NEW j \in Cpu
  PROVE  n + j \in Cells
<1> USE SizeAssumption
<1>1. n \in Nat /\ j \in Nat /\ n + j <= MaxContainers + MaxCpus - 1
  BY DEF Cpu
<1>2. (MaxContainers - 1) * (MaxCpus - 1)
        = MaxCpus * MaxContainers - MaxContainers - MaxCpus + 1
  OBVIOUS
<1>3. (MaxContainers - 1) * (MaxCpus - 1) \in Nat
  OBVIOUS
<1> QED
  BY <1>1, <1>2, <1>3 DEF Cells

LEMMA NextRound ==
  ASSUME NEW n \in 1 .. MaxContainers, NEW k \in 0 .. n - 1, NEW Val,
         NEW After \in [0 .. MaxCpus -> [Cells -> Val]], Loop(After, n, k),
         NEW j \in Cpu, Rounds(After, n, k, j)
  PROVE  Rounds(After, n, k, j + 1)
<1> USE SizeAssumption
<1> DEFINE base == Cell(k, 0)
<1>1. /\ base \in Nat /\ base + j \in Cells /\ n + j \in Cells /\ j \in Nat /\ n \in Nat
      /\ j \in 0 .. MaxCpus /\ j + 1 \in 0 .. MaxCpus /\ Cell(k, j) = base + j
  <2>1. k \in Index /\ 0 \in Cpu /\ j \in Nat /\ n \in Nat /\ j < MaxCpus
    BY DEF Index, Cpu
  <2>2. base \in Nat /\ Cell(k, j) = base + j /\ Cell(k, j) \in Cells
    <3>1. k * MaxCpus \in Nat
      BY <2>1 DEF Index
    <3>2. Cell(k, 0) = k * MaxCpus /\ Cell(k, j) = k * MaxCpus + j
      BY <3>1 DEF Cell
    <3> QED
      BY <2>1, <3>1, <3>2, CellFacts
  <2> QED
    BY <2>1, <2>2, ReadCell
<1> HIDE DEF base
<1>2. After[j] \in [Cells -> Val] /\ After[j + 1] = [After[j] EXCEPT ![base + j] = After[j][n + j]]
  BY <1>1 DEF Loop
<1>3. \A c \in Cells :
        After[j][c] = IF c \in base .. base + j - 1
                        THEN After[0][SourceCell(n, k, c - base)] ELSE After[0][c]
  BY DEF Rounds, base
<1>4. After[j][n + j] = After[0][SourceCell(n, k, j)]
  <2>1. CASE ~(n < base)
    <3>1. SourceCell(n, k, j) = n + j
      BY <2>1 DEF SourceCell, base
    <3>2. n + j \notin base .. base + j - 1
      BY <1>1, <2>1
    <3> QED
      BY <1>1, <1>3, <3>1, <3>2
  <2>2. CASE n < base
    <3> DEFINE d == base - n
    <3>1. d \in Nat \ {0} /\ base = n + d
      BY <1>1, <2>2
    <3>2. \A m \in Nat : SourceCell(n, k, m) = n + (m % d)
      BY <2>2 DEF SourceCell, base
    <3> HIDE DEF d
    <3>3. CASE j < d
      <4>1. n + j \notin base .. base + j - 1
        BY <1>1, <3>1, <3>3
      <4>2. j % d = j
        BY <1>1, <3>1, <3>3, ModShift
      <4> QED
        BY <1>1, <1>3, <3>2, <4>1, <4>2
    <3>4. CASE d <= j
      <4>1. n + j \in base .. base + j - 1 /\ n + j - base = j - d /\ j - d \in Nat
        BY <1>1, <3>1, <3>4
      <4>2. (j - d) % d = j % d
        BY <1>1, <3>1, <3>4, ModShift
      <4>3. SourceCell(n, k, n + j - base) = SourceCell(n, k, j)
        BY <1>1, <3>2, <4>1, <4>2
      <4> QED
        BY <1>1, <1>3, <4>1, <4>3
    <3> QED
      BY <1>1, <3>1, <3>3, <3>4
  <2> QED
    BY <2>1, <2>2
<1>5. ASSUME NEW c \in Cells
      PROVE  After[j + 1][c] = IF c \in base .. base + (j + 1) - 1
                                 THEN After[0][SourceCell(n, k, c - base)] ELSE After[0][c]
  <2>1. CASE c = base + j
    <3>1. c \in base .. base + (j + 1) - 1 /\ c - base = j
      BY <1>1, <2>1
    <3> QED
      BY <1>2, <1>4, <2>1, <3>1
  <2>2. CASE c # base + j
    <3>1. c \in base .. base + (j + 1) - 1 <=> c \in base .. base + j - 1
      BY <1>1, <2>2 DEF Cells
    <3> QED
      BY <1>2, <1>3, <2>2, <3>1
  <2> QED
    BY <2>1, <2>2
<1> QED
  BY <1>5 DEF Rounds, base

(* What remove_docker_container leaves in cgroup_perf_fds, cell by cell    *)
(* and with a source that may itself have been overwritten, is what        *)
(* RemoveEntry writes, for any number of CPUs and containers.              *)
THEOREM RemovalIsLoop ==
  ASSUME TypeOK, RemoveEntry,
         NEW After \in [0 .. MaxCpus -> [Cells -> Fd \cup {NoFd}]],
         After[0] = slots, Loop(After, num, i)
  PROVE  slots' = After[MaxCpus]
<1> USE SizeAssumption
<1>1. num \in 1 .. MaxContainers /\ i \in 0 .. num - 1 /\ i \in Index /\ 0 \in Cpu
  BY DEF TypeOK, RemoveEntry, Index, Cpu
<1>2. Rounds(After, num, i, 0)
  <2>1. Cell(i, 0) .. Cell(i, 0) + 0 - 1 = {}
    BY <1>1, CellFacts
  <2> QED
    BY <2>1 DEF Rounds
<1>3. Rounds(After, num, i, MaxCpus)
  <2> DEFINE S == {m \in 0 .. MaxCpus : ~Rounds(After, num, i, m)}
  <2>1. SUFFICES ASSUME S # {} PROVE FALSE
    OBVIOUS
  <2>2. PICK m \in S : \A l \in S : m <= l
    <3>1. S \in SUBSET Nat
      OBVIOUS
    <3> HIDE DEF S
    <3> QED
      BY <2>1, <3>1, SmallestOf
  <2>3. m \in 0 .. MaxCpus /\ m # 0
    BY <1>2, <2>2
  <2>4. m - 1 \in Cpu /\ m - 1 \notin S
    BY <2>2, <2>3 DEF Cpu
  <2>5. Rounds(After, num, i, m - 1)
    BY <2>3, <2>4
  <2>6. Rounds(After, num, i, (m - 1) + 1)
    BY <1>1, <2>4, <2>5, NextRound
  <2> QED
    BY <2>3, <2>6
<1>4. Cell(i, MaxCpus - 1) = Cell(i, 0) + MaxCpus - 1
  BY <1>1 DEF Cell, Index
<1>5. slots' = [c \in Cells |-> IF c \in Cell(i, 0) .. Cell(i, MaxCpus - 1)
                                  THEN slots[SourceCell(num, i, c - Cell(i, 0))]
                                  ELSE slots[c]]
  BY DEF RemoveEntry
<1>6. After[MaxCpus] \in [Cells -> Fd \cup {NoFd}]
  OBVIOUS
<1> QED
  BY <1>3, <1>4, <1>5, <1>6 DEF Rounds

-----------------------------------------------------------------------------
(* The steps of an interval, and those that add an entry, in their order.  *)
Stage == CASE pc = "update" -> 0 [] pc = "opendir" -> 1
           [] pc \in {"scan", "opencgroup", "openevent"} -> 2
           [] pc = "report" -> 3 [] OTHER -> 4

AddStage == CASE pc = "opencgroup" -> 0 [] pc = "openevent" -> 1 + cpu [] OTHER -> 2 + MaxCpus

(* What lies ahead in an interval: entries to update, then names to add.   *)
Nearer ==
  \/ first /\ ~first'
  \/ first' = first /\ Stage' > Stage
  \/ /\ first' = first /\ Stage' = Stage
     /\ \/ pc = "update" /\ num' - i' < num - i /\ num' - i' \in Nat
        \/ todo' \subseteq todo /\ todo' # todo
        \/ todo' = todo /\ AddStage' > AddStage /\ AddStage' <= 2 + MaxCpus

(* Why every interval of -c comes to its report, however many containers   *)
(* start and stop meanwhile: each step of the tool but the report brings   *)
(* it nearer, and no step of a container sets it back.                     *)
THEOREM ReportComesNearer ==
  Spec => [][IF Tool THEN Report \/ Nearer ELSE UNCHANGED <<pc, first, i, num, todo, cpu>>]_vars
<1>1. IInv /\ [Next]_vars =>
        [IF Tool THEN Report \/ Nearer ELSE UNCHANGED <<pc, first, i, num, todo, cpu>>]_vars
  <2> SUFFICES ASSUME IInv, Next
               PROVE  IF Tool THEN Report \/ Nearer
                              ELSE UNCHANGED <<pc, first, i, num, todo, cpu>>
    OBVIOUS
  <2> USE DEF worldVars, listVars, addVars
  <2>0. /\ num \in Nat /\ i \in Nat /\ cpu \in 0 .. MaxCpus /\ MaxCpus \in Nat
        /\ pc = "update" => i <= num
    BY SizeAssumption DEF IInv, TypeOK
  <2>1. ASSUME World PROVE UNCHANGED <<pc, first, i, num, todo, cpu>>
    BY <2>1 DEF World, Start, Stop
  <2>2. ASSUME Tool PROVE Report \/ Nearer
    <3>1. CASE OpenDir
      BY <3>1 DEF OpenDir, Nearer, Stage
    <3>2. CASE CloseDir
      <4>1. CASE first
        BY <3>2, <4>1 DEF CloseDir, Nearer
      <4>2. CASE ~first
        <5>1. Stage = 2 /\ Stage' = 3
          BY <3>2, <4>2 DEF CloseDir, Stage
        <5>2. first' = first
          BY <3>2, <4>2, Zenon DEF CloseDir, IInv, TypeOK
        <5> QED
          BY <5>1, <5>2 DEF Nearer
      <4> QED
        BY <4>1, <4>2
    <3>3. ASSUME NEW id \in Ids, SkipEntry(id) \/ AddEntry(id) PROVE Nearer
      BY <3>3 DEF SkipEntry, AddEntry, Nearer, Stage
    <3>4. CASE OpenCgroup
      BY <2>0, <3>4 DEF OpenCgroup, Nearer, Stage, AddStage
    <3>5. CASE OpenEvent
      BY <2>0, <3>5 DEF OpenEvent, Nearer, Stage, AddStage
    <3>6. CASE FinishAdd
      BY <2>0, <3>6 DEF FinishAdd, Nearer, Stage, AddStage
    <3>7. CASE UpdateEntry
      BY <2>0, <3>7 DEF UpdateEntry, Nearer, Stage
    <3>8. CASE RemoveEntry
      BY <2>0, <3>8 DEF RemoveEntry, IndexAfterRemoval, Nearer, Stage
    <3>9. CASE UpdateDone
      BY <3>9 DEF UpdateDone, Nearer, Stage
    <3> QED
      BY <2>2, <3>1, <3>2, <3>3, <3>4, <3>5, <3>6, <3>7, <3>8, <3>9 DEF Tool
  <2> QED
    BY <2>1, <2>2 DEF Next
<1> QED
  BY <1>1, IInvCorrect, PTL DEF Spec
=============================================================================
