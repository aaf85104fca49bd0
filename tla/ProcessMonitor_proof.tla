------------------------ MODULE ProcessMonitor_proof ------------------------
(***************************************************************************)
(* Theorems about the process list of main.c -m, for any number of entries *)
(* and any processes: walking the array while removing from it loses no    *)
(* entry, reads none twice and closes exactly the events of the removed.   *)
(***************************************************************************)
EXTENDS ProcessMonitor, TLAPS

(* Removing slot k: what the array holds afterwards.                       *)
LEMMA ShiftedFacts ==
  ASSUME TypeOK, Ordered, NEW k \in 0 .. num - 1
  PROVE  /\ Shifted(k) \in [Arg -> Arg]
         /\ \A j \in 0 .. k - 1 : Shifted(k)[j] = processes[j]
         /\ \A j \in k .. num - 2 : Shifted(k)[j] = processes[j + 1]
<1> USE NAssumption
<1>1. num \in 0 .. N /\ k \in Nat /\ processes \in [Arg -> Arg]
  BY DEF TypeOK
<1>2. ASSUME NEW j \in Arg PROVE Shifted(k)[j] \in Arg
  <2>1. k <= j /\ j < num - 1 => j + 1 \in Arg
    BY <1>1 DEF Arg
  <2> QED
    BY <1>1, <2>1 DEF Shifted
<1>3. \A j \in 0 .. num - 1 : j \in Arg
  BY <1>1 DEF Arg
<1>4. ASSUME NEW j \in 0 .. k - 1 PROVE Shifted(k)[j] = processes[j]
  BY <1>1, <1>3 DEF Shifted
<1>5. ASSUME NEW j \in k .. num - 2 PROVE Shifted(k)[j] = processes[j + 1]
  BY <1>1, <1>3 DEF Shifted
<1> QED
  BY <1>2, <1>4, <1>5 DEF Shifted

LEMMA RemovedSlot ==
  ASSUME TypeOK, Ordered, NEW k \in 0 .. num - 1,
         processes' = Shifted(k), num' = num - 1
  PROVE  /\ Ordered'
         /\ Listed' = Listed \ {processes[k]}
         /\ processes' \in [Arg -> Arg]
<1> USE NAssumption
<1>1. num \in Nat /\ k \in Nat /\ num - 1 \in Nat
  BY DEF TypeOK, Arg
<1>2. /\ \A j \in 0 .. k - 1 : processes'[j] = processes[j]
      /\ \A j \in k .. num - 2 : processes'[j] = processes[j + 1]
      /\ processes' \in [Arg -> Arg]
  BY ShiftedFacts
<1>3. \A j \in 0 .. num - 1 : processes[j] \in Nat
  BY DEF TypeOK, Arg
<1>4. Ordered'
  BY <1>1, <1>2 DEF Ordered
<1>5. ASSUME NEW a \in Listed' PROVE a \in Listed \ {processes[k]}
  <2>1. PICK j \in 0 .. num - 2 : a = processes'[j]
    BY <1>1, <1>5 DEF Listed
  <2>2. CASE j < k
    BY <1>1, <1>2, <1>3, <2>1, <2>2 DEF Listed, Ordered
  <2>3. CASE j >= k
    <3>1. a = processes[j + 1] /\ j + 1 \in 0 .. num - 1 /\ k < j + 1
      BY <1>1, <1>2, <2>1, <2>3
    <3> QED
      BY <1>3, <3>1 DEF Listed, Ordered
  <2> QED
    BY <1>1, <2>1, <2>2, <2>3
<1>6. ASSUME NEW a \in Listed \ {processes[k]} PROVE a \in Listed'
  <2>1. PICK j \in 0 .. num - 1 : a = processes[j] /\ j # k
    BY <1>6 DEF Listed
  <2>2. CASE j < k
    BY <1>1, <1>2, <2>1, <2>2 DEF Listed
  <2>3. CASE j > k
    <3>1. j - 1 \in k .. num - 2 /\ processes'[j - 1] = processes[j]
      BY <1>1, <1>2, <2>1, <2>3
    <3> QED
      BY <1>1, <2>1, <3>1 DEF Listed
  <2> QED
    BY <1>1, <2>1, <2>2, <2>3
<1> QED
  BY <1>2, <1>4, <1>5, <1>6

LEMMA InitIInv == Init => IInv
<1> SUFFICES ASSUME Init PROVE IInv
  OBVIOUS
<1> USE NAssumption DEF Init, Arg, NoReads
<1>1. TypeOK
  <2>1. stdoutOpen \in BOOLEAN
    OBVIOUS
  <2>2. processes \in [Arg -> Arg] /\ num \in 0 .. N /\ i \in 0 .. N
    OBVIOUS
  <2>3. fd \in [Arg -> Arg \cup {Stdout}] /\ reads \in [Arg -> Nat]
    OBVIOUS
  <2> QED
    BY <2>1, <2>2, <2>3 DEF TypeOK
<1>2. SetupInv /\ Ordered /\ SweepOnce
  BY DEF SetupInv, Ordered, SweepOnce
<1>3. DroppedAsRead /\ EventsOfListed
  BY DEF DroppedAsRead, EventsOfListed, Listed, Stdout
<1> QED
  BY <1>1, <1>2, <1>3 DEF IInv

LEMMA StepIInv == IInv /\ [Next]_vars => IInv'
<1> SUFFICES ASSUME IInv, [Next]_vars PROVE IInv'
  OBVIOUS
<1> USE NAssumption DEF kernelVars, listVars, fdVars, historyVars
<1>0. /\ TypeOK /\ SetupInv
      /\ Ordered /\ DroppedAsRead /\ EventsOfListed /\ SweepOnce
  BY DEF IInv
<1>a. \A k \in 0 .. num - 1 : k \in Arg /\ processes[k] \in Arg
  BY <1>0 DEF TypeOK, Arg
(* A step that leaves the array alone keeps what is said of it.            *)
<1>b. UNCHANGED listVars => Ordered' /\ Listed' = Listed
  BY <1>0 DEF Ordered, Listed
<1>1. ASSUME NEW p \in Procs, Exit(p) \/ Reap(p) PROVE IInv'
  <2>1. TypeOK'
    BY <1>0, <1>1 DEF TypeOK, Exit, Reap
  <2>3. DroppedAsRead'
    BY <1>0, <1>1, <1>b DEF DroppedAsRead, Exit, Reap
  <2>4. SetupInv' /\ EventsOfListed' /\ SweepOnce'
    BY <1>0, <1>1, <1>b DEF SetupInv, EventsOfListed, SweepOnce, Exit, Reap
  <2> QED
    BY <1>1, <1>b, <2>1, <2>3, <2>4 DEF IInv, Exit, Reap
<1>2. CASE Setup
  <2>1. i \in Arg /\ Stdout \notin Arg
    BY <1>0, <1>2 DEF Setup, TypeOK, Arg, Stdout
  <2>2. \/ /\ \A a \in Arg : fd'[a] = IF a = i THEN a ELSE fd[a]
           /\ open' = open \cup {i}
        \/ (\A a \in Arg : fd'[a] = fd[a]) /\ open' = open
    BY <1>0, <1>2, <2>1 DEF Setup, SetUpProcCycles, SetupInv, TypeOK
  <2>3. TypeOK'
    <3>1. fd' \in [Arg -> Arg \cup {Stdout}]
      BY <1>0, <1>2, <2>1 DEF Setup, SetUpProcCycles, TypeOK
    <3>2. open' \subseteq Arg
      BY <1>0, <1>2, <2>1 DEF Setup, SetUpProcCycles, TypeOK
    <3>3. i' \in 0 .. N
      BY <1>0, <1>2 DEF Setup, TypeOK
    <3> QED
      BY <1>0, <1>2, <3>1, <3>2, <3>3 DEF Setup, TypeOK
  <2>4. Listed = Arg /\ Listed' = Arg
    BY <1>0, <1>2, <1>b DEF Setup, SetupInv, Listed, Arg
  <2>5. EventsOfListed'
    <3>1. \A a \in Arg : fd'[a] \in {a, Stdout}
      BY <1>0, <2>2 DEF EventsOfListed
    <3>3. open = {a \in Arg : fd[a] = a}
      BY <1>0, <1>2, <2>4 DEF Setup, EventsOfListed
    <3>4. open' = {a \in Arg : fd'[a] = a}
      BY <2>1, <2>2, <3>3
    <3>5. failed = {} /\ failed' = {}
      BY <1>0, <1>2, <2>4 DEF Setup, DroppedAsRead
    <3>6. stdoutOpen' = (\A a \in failed' : fd'[a] = a)
      <4>1. stdoutOpen' = stdoutOpen /\ stdoutOpen = (\A a \in failed : fd[a] = a)
        BY <1>0, <1>2, Zenon DEF Setup, EventsOfListed
      <4> QED
        BY <3>5, <4>1, Zenon
    <3> QED
      BY <2>4, <3>1, <3>4, <3>6, Zenon DEF EventsOfListed
  <2>6. SetupInv'
    BY <1>0, <1>2, <2>2 DEF Setup, SetupInv, TypeOK, Arg
  <2>7. DroppedAsRead' /\ SweepOnce'
    BY <1>0, <1>2, <2>4 DEF Setup, DroppedAsRead, SweepOnce
  <2> QED
    BY <1>2, <1>b, <2>3, <2>5, <2>6, <2>7 DEF IInv, Setup
<1>3. CASE SetupDone
  <2>1. TypeOK' /\ SetupInv'
    BY <1>0, <1>3 DEF SetupDone, TypeOK, SetupInv
  <2>2. DroppedAsRead' /\ EventsOfListed' /\ SweepOnce'
    BY <1>0, <1>3, <1>b
       DEF SetupDone, DroppedAsRead, EventsOfListed, SweepOnce
  <2> QED
    BY <1>3, <1>b, <2>1, <2>2 DEF IInv, SetupDone
<1>4. CASE Sleep
  <2>1. TypeOK' /\ SetupInv'
    BY <1>0, <1>4 DEF Sleep, TypeOK, SetupInv, NoReads
  <2>2. DroppedAsRead' /\ EventsOfListed'
    BY <1>0, <1>4, <1>b DEF Sleep, DroppedAsRead, EventsOfListed
  <2>3. SweepOnce'
    BY <1>0, <1>4, <1>a DEF Sleep, SweepOnce, NoReads, TypeOK
  <2> QED
    BY <1>4, <1>b, <2>1, <2>2, <2>3 DEF IInv, Sleep
(* The read of the current entry changes the count of no other entry.      *)
<1>c. ASSUME pc = "sweep", i < num, ReadEntry
      PROVE  /\ i \in 0 .. num - 1 /\ Current \in Arg /\ Current \in Listed
             /\ reads' \in [Arg -> Nat] /\ reads'[Current] = 1
             /\ \A k \in 0 .. num - 1 :
                  k # i => /\ processes[k] # Current
                           /\ reads'[processes[k]] = reads[processes[k]]
  <2>1. i \in 0 .. num - 1 /\ Current \in Arg /\ Current \in Listed
    <3>1. i \in 0 .. num - 1
      BY <1>0, <1>c DEF TypeOK
    <3> QED
      BY <1>a, <3>1 DEF Current, Listed
  <2>2. reads[Current] = 0
    BY <1>0, <1>c, <2>1 DEF SweepOnce, Current, TypeOK
  <2>3. \A k \in 0 .. num - 1 : k # i => processes[k] # Current
    BY <1>0, <1>a, <2>1 DEF Ordered, Current, Arg, TypeOK
  <2> QED
    BY <1>0, <1>a, <1>c, <2>1, <2>2, <2>3 DEF ReadEntry, TypeOK
<1>5. CASE SweepLive
  <2>1. TypeOK'
    <3>1. i' \in 0 .. N /\ i' <= num
      BY <1>0, <1>5 DEF SweepLive, TypeOK
    <3>2. reads' \in [Arg -> Nat] /\ estimated' \subseteq Arg
      BY <1>0, <1>5, <1>c DEF SweepLive, TypeOK
    <3> QED
      BY <1>0, <1>5, <3>1, <3>2 DEF SweepLive, TypeOK
  <2>2. SetupInv' /\ DroppedAsRead' /\ EventsOfListed'
    BY <1>0, <1>5, <1>b DEF SweepLive, SetupInv, DroppedAsRead, EventsOfListed
  <2>3. SweepOnce'
    BY <1>0, <1>5, <1>c DEF SweepLive, SweepOnce, Current, TypeOK
  <2> QED
    BY <1>5, <1>b, <2>1, <2>2, <2>3 DEF IInv, SweepLive
<1>6. CASE SweepRemove
  <2>1. i \in 0 .. num - 1 /\ processes' = Shifted(i) /\ num' = num - 1
    BY <1>6, <1>c DEF IndexAfterRemoval, SweepRemove, ReadFails
  <2>2. Ordered' /\ Listed' = Listed \ {Current} /\ processes' \in [Arg -> Arg]
    BY <1>0, <2>1, RemovedSlot DEF Current
  <2>3. TypeOK'
    <3>1. {processes[j] : j \in {i - 1} \cap Nat} \subseteq Arg
      BY <1>0, <1>a, <2>1 DEF TypeOK
    <3>2. estimated' \subseteq Arg /\ open' \subseteq Arg /\ reads' \in [Arg -> Nat]
          /\ failed' \subseteq Arg
      BY <1>0, <1>6, <1>c, <3>1 DEF IndexAfterRemoval, SweepRemove, ReadFails, CloseEvent, TypeOK
    <3>3. stdoutOpen' \in BOOLEAN
      BY <1>6, Zenon DEF IndexAfterRemoval, SweepRemove, ReadFails, CloseEvent
    <3>4. num' \in 0 .. N /\ i <= num'
      BY <1>0, <1>6 DEF IndexAfterRemoval, SweepRemove, ReadFails, TypeOK
    <3> QED
      BY <1>0, <1>6, <2>2, <3>2, <3>3, <3>4 DEF IndexAfterRemoval, SweepRemove, ReadFails, TypeOK
  <2>4. SetupInv'
    BY <1>0, <1>6, <2>1 DEF IndexAfterRemoval, SweepRemove, ReadFails, SetupInv, TypeOK
  <2>5. DroppedAsRead'
    BY <1>0, <1>6, <1>c, <2>2 DEF IndexAfterRemoval, SweepRemove, ReadFails, DroppedAsRead, Listed
  <2>6. EventsOfListed'
    <3>1. open' = {a \in Listed : fd[a] = a} \ {fd[Current]}
      BY <1>0, <1>6 DEF IndexAfterRemoval, SweepRemove, ReadFails, CloseEvent, EventsOfListed
    <3>2. \A a \in Arg : fd[a] \in {a, Stdout} /\ a # Stdout
      BY <1>0 DEF EventsOfListed, Arg, Stdout
    <3>3. Listed \subseteq Arg /\ Current \in Listed
      BY <1>6, <1>a, <1>c DEF Listed, SweepRemove, ReadFails
    <3>4. open' = {a \in Listed' : fd[a] = a}
      BY <2>2, <3>1, <3>2, <3>3
    <3>5. /\ stdoutOpen = (\A a \in failed : fd[a] = a)
          /\ stdoutOpen' = (stdoutOpen /\ fd[Current] # Stdout)
          /\ failed' = failed \cup {Current} /\ fd' = fd
      BY <1>0, <1>6, Zenon DEF SweepRemove, ReadFails, CloseEvent, EventsOfListed
    <3>6. fd[Current] # Stdout <=> fd[Current] = Current
      BY <3>2, <3>3
    <3>7. stdoutOpen' = (\A a \in failed' : fd'[a] = a)
      BY <3>5, <3>6, Zenon
    <3> QED
      BY <3>2, <3>4, <3>5, <3>7, Zenon DEF EventsOfListed
  <2>7. SweepOnce'
    <3> SUFFICES /\ \A k \in 0 .. i - 1 : /\ reads'[processes'[k]] = 1
                                          /\ processes'[k] \in estimated'
                 /\ \A k \in i .. num - 2 : reads'[processes'[k]] = 0
      BY <1>0, <1>6 DEF IndexAfterRemoval, SweepRemove, ReadFails, SweepOnce, TypeOK
    <3>1. /\ \A k \in 0 .. i - 1 : processes'[k] = processes[k]
          /\ \A k \in i .. num - 2 : processes'[k] = processes[k + 1]
      BY <1>0, <2>1, ShiftedFacts
    <3>2. estimated \subseteq estimated'
      BY <1>6 DEF IndexAfterRemoval, SweepRemove, ReadFails
    <3>3. ASSUME NEW k \in 0 .. i - 1
          PROVE  reads'[processes'[k]] = 1 /\ processes'[k] \in estimated'
      BY <1>0, <1>6, <1>c, <2>1, <3>1, <3>2 DEF IndexAfterRemoval, SweepRemove, ReadFails, SweepOnce, TypeOK
    <3>4. ASSUME NEW k \in i .. num - 2 PROVE reads'[processes'[k]] = 0
      <4>1. k + 1 \in i .. num - 1 /\ k + 1 \in 0 .. num - 1 /\ k + 1 # i
        BY <1>0, <2>1 DEF TypeOK
      <4> QED
        BY <1>0, <1>6, <1>c, <3>1, <4>1 DEF IndexAfterRemoval, SweepRemove, ReadFails, SweepOnce
    <3> QED
      BY <3>3, <3>4
  <2> QED
    BY <2>2, <2>3, <2>4, <2>5, <2>6, <2>7 DEF IInv
<1>7. CASE SweepLast
  <2>1. TypeOK'
    <3>1. stdoutOpen' \in BOOLEAN
      BY <1>7, Zenon DEF SweepLast, ReadFails, CloseEvent
    <3>2. open' \subseteq Arg /\ reads' \in [Arg -> Nat] /\ failed' \subseteq Arg
      BY <1>0, <1>7, <1>c DEF SweepLast, ReadFails, CloseEvent, TypeOK
    <3> QED
      BY <1>0, <1>7, <3>1, <3>2 DEF SweepLast, ReadFails, TypeOK
  <2>2. SetupInv' /\ DroppedAsRead' /\ EventsOfListed' /\ SweepOnce'
    BY <1>0, <1>7, <1>b
       DEF SweepLast, ReadFails, SetupInv, DroppedAsRead, EventsOfListed, SweepOnce
  <2> QED
    BY <1>7, <1>b, <2>1, <2>2 DEF IInv, SweepLast
<1>8. CASE SweepEnd
  <2>1. TypeOK' /\ SetupInv'
    BY <1>0, <1>8 DEF SweepEnd, TypeOK, SetupInv
  <2>2. DroppedAsRead' /\ EventsOfListed' /\ SweepOnce'
    BY <1>0, <1>8, <1>b
       DEF SweepEnd, DroppedAsRead, EventsOfListed, SweepOnce
  <2> QED
    BY <1>8, <1>b, <2>1, <2>2 DEF IInv, SweepEnd
<1>9. CASE UNCHANGED vars
  BY <1>0, <1>9, <1>b
     DEF vars, IInv, TypeOK, SetupInv, DroppedAsRead, EventsOfListed, SweepOnce
<1> QED
  BY <1>1, <1>2, <1>3, <1>4, <1>5, <1>6, <1>7, <1>8, <1>9 DEF Next, Tool

LEMMA IInvCorrect == Spec => []IInv
BY InitIInv, StepIInv, PTL DEF Spec

(* The type invariant; the sweep's index stays within the list.            *)
THEOREM TypeCorrect == Spec => []TypeOK
<1>1. IInv => TypeOK
  BY DEF IInv
<1> QED
  BY <1>1, IInvCorrect, PTL

(* The list keeps the order of the command line, whatever is removed.      *)
THEOREM OrderCorrect == Spec => []Ordered
<1>1. IInv => Ordered
  BY DEF IInv
<1> QED
  BY <1>1, IInvCorrect, PTL

(* Exactly the entries that a sweep could not read are missing from it.    *)
THEOREM DropsCorrect == Spec => []DroppedAsRead
<1>1. IInv => DroppedAsRead
  BY DEF IInv
<1> QED
  BY <1>1, IInvCorrect, PTL

(* Exactly the events of the listed entries are open.                      *)
THEOREM EventsCorrect == Spec => []EventsOfListed
<1>1. IInv => EventsOfListed
  BY DEF IInv
<1> QED
  BY <1>1, IInvCorrect, PTL

(* Every sweep reads and estimates every entry it passes exactly once,     *)
(* whichever entries it removes on the way.                                *)
THEOREM SweepCorrect == Spec => []SweepOnce
<1>1. IInv => SweepOnce
  BY DEF IInv
<1> QED
  BY <1>1, IInvCorrect, PTL

-----------------------------------------------------------------------------
(* The steps left of a round with an unchanged list: a sweep that has come *)
(* to its end, the sleep, and a sweep that has not.                        *)
StepsLeft == CASE pc = "setup" -> 4 + N - i
               [] pc = "sweep" /\ i = num -> 3
               [] pc = "sleep" -> 2
               [] pc = "sweep" /\ i # num -> 1
               [] OTHER -> 0

(* Why the tool ends once all its processes are gone: every one of its     *)
(* steps is the last, takes an entry out, or leaves fewer steps until one  *)
(* does; no step of a process sets it back.                                *)
THEOREM EndComesNearer ==
  Spec => [][IF Tool
               THEN (\A a \in Arg : Gone(a)) =>
                      \/ pc' = "done"
                      \/ num' < num
                      \/ num' = num /\ StepsLeft' < StepsLeft /\ StepsLeft' \in Nat
               ELSE UNCHANGED <<pc, i, num>>]_vars
<1>1. IInv /\ [Next]_vars =>
        [IF Tool
           THEN (\A a \in Arg : Gone(a)) =>
                  \/ pc' = "done"
                  \/ num' < num
                  \/ num' = num /\ StepsLeft' < StepsLeft /\ StepsLeft' \in Nat
           ELSE UNCHANGED <<pc, i, num>>]_vars
  <2>a. Next => Tool \/ UNCHANGED <<pc, i, num>>
    BY DEF Next, Exit, Reap, listVars
  <2> SUFFICES ASSUME IInv, Tool, \A a \in Arg : Gone(a)
               PROVE  \/ pc' = "done"
                      \/ num' < num
                      \/ num' = num /\ StepsLeft' < StepsLeft /\ StepsLeft' \in Nat
    BY <2>a
  <2> USE DEF listVars, fdVars, historyVars, kernelVars
  <2>0. /\ N \in Nat /\ num \in 0 .. N /\ i \in 0 .. N
        /\ pc \in {"sleep", "sweep"} => num > 0
    BY NAssumption DEF IInv, TypeOK, SetupInv
  <2>1. CASE Setup
    BY <2>0, <2>1 DEF Setup, StepsLeft
  <2>2. CASE SetupDone
    BY <2>0, <2>2 DEF SetupDone, StepsLeft
  <2>3. CASE Sleep
    BY <2>0, <2>3 DEF Sleep, StepsLeft
  <2>4. CASE SweepLive
    <3>1. Current \in Arg
      BY <2>0, <2>4 DEF SweepLive, Current, Arg, IInv, TypeOK
    <3> QED
      BY <2>4, <3>1 DEF SweepLive
  <2>5. CASE SweepRemove \/ SweepLast
    BY <2>0, <2>5 DEF SweepRemove, SweepLast
  <2>6. CASE SweepEnd
    BY <2>0, <2>6 DEF SweepEnd, StepsLeft
  <2> QED
    BY <2>1, <2>2, <2>3, <2>4, <2>5, <2>6 DEF Tool
<1> QED
  BY <1>1, IInvCorrect, PTL DEF Spec
=============================================================================
