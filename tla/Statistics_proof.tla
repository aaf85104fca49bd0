--------------------------- MODULE Statistics_proof ---------------------------
(***************************************************************************)
(* Theorems about the statistics of one process, container or the system,  *)
(* for every word width, every course of usage and any number of restarts. *)
(***************************************************************************)
EXTENDS Statistics, TLAPS

(* An unsigned difference is within a word, and the difference itself when *)
(* that is not negative.                                                   *)
LEMMA MinusFacts ==
  ASSUME NEW a \in 0 .. MaxUsage, NEW b \in 0 .. MaxUsage
  PROVE  /\ Minus(a, b) \in 0 .. Word - 1
         /\ b <= a => Minus(a, b) = a - b
<1>1. Word \in Nat \ {0} /\ a - b \in Int /\ a - b < Word
  BY StatisticsAssumption
<1> QED
  BY <1>1 DEF Minus

LEMMA InitIInv == Init => IInv
<1> SUFFICES ASSUME Init PROVE IInv
  OBVIOUS
<1>1. TypeOK
  BY StatisticsAssumption DEF Init, TypeOK
<1>2. CountInv /\ StartInv /\ LastInv
  BY DEF Init, CountInv, StartInv, LastInv
<1>3. IntervalIsUsage /\ LogMatchesInterval
  BY DEF Init, IntervalIsUsage, LogMatchesInterval, Logged
<1> QED
  BY <1>1, <1>2, <1>3 DEF IInv

-----------------------------------------------------------------------------
(* The machine changes nothing the tool has read.                          *)
LEMMA MachineIInv ==
  ASSUME IInv, Use \/ ChangeMemory \/ Restart
  PROVE  IInv'
<1>1. TypeOK'
  <2>1. CASE Use
    BY <2>1, StatisticsAssumption DEF IInv, TypeOK, Use
  <2>2. CASE ChangeMemory
    BY <2>2 DEF IInv, TypeOK, ChangeMemory
  <2>3. CASE Restart
    <3>1. restarted' \in [before : BOOLEAN, since : BOOLEAN]
      BY <2>3 DEF IInv, TypeOK, Restart
    <3>2. usage' \in 0 .. MaxUsage /\ restarts' \in 0 .. MaxRestarts
      BY <2>3, StatisticsAssumption DEF IInv, TypeOK, Restart
    <3> QED
      BY <2>3, <3>1, <3>2 DEF IInv, TypeOK, Restart
  <2> QED
    BY <2>1, <2>2, <2>3
<1>2. CountInv' /\ StartInv'
  <2>1. CASE Use
    BY <2>1 DEF IInv, TypeOK, CountInv, StartInv, Use
  <2>2. CASE ChangeMemory
    BY <2>2 DEF IInv, CountInv, StartInv, ChangeMemory
  <2>3. CASE Restart
    BY <2>3 DEF IInv, TypeOK, CountInv, StartInv, Restart
  <2> QED
    BY <2>1, <2>2, <2>3
<1>3. /\ UNCHANGED << kind, pc, cputime, interval, rss, logged, window >>
      /\ restarted'.before = restarted.before
  BY DEF IInv, TypeOK, Use, ChangeMemory, Restart
<1>4. LastInv' /\ IntervalIsUsage' /\ LogMatchesInterval'
  BY <1>3 DEF IInv, LastInv, IntervalIsUsage, LogMatchesInterval, Logged,
              Skipped, Minus
<1> QED
  BY <1>1, <1>2, <1>4 DEF IInv

-----------------------------------------------------------------------------
(* The reads.  The difference at the end of an interval is what was used   *)
(* in it, as CountInv says of the state before.                            *)
LEMMA ProcessIInv == IInv /\ ReadProcess => IInv'
<1> SUFFICES ASSUME IInv, ReadProcess PROVE IInv'
  OBVIOUS
<1>1. PICK from \in {"first", "interval"} :
        /\ Read(from, IF from = "first" THEN "interval" ELSE "print")
  BY DEF ReadProcess
<1>2. /\ kind = "process" /\ kind' = kind /\ pc = from
      /\ pc' = (IF from = "first" THEN "interval" ELSE "print")
      /\ window' = used /\ used' = 0 /\ cputime' = usage
      /\ UNCHANGED << usage, memory, restarts, logged >>
      /\ restarted' = [before |-> restarted.since, since |-> FALSE]
  BY <1>1 DEF ReadProcess, Read
<1>3. /\ rss' \in {"zero", "some"}
      /\ interval' = IF rss' = "zero" THEN interval ELSE Minus(usage, cputime)
  BY DEF ReadProcess, IInv, TypeOK
<1>4. Minus(usage, cputime) \in 0 .. Word - 1
  BY MinusFacts DEF IInv, TypeOK
<1>5. TypeOK'
  BY <1>2, <1>3, <1>4, StatisticsAssumption DEF IInv, TypeOK
<1>6. CountInv' /\ StartInv'
  BY <1>2 DEF IInv, TypeOK, CountInv, StartInv
<1>7. pc' = "print" /\ rss' # "zero" => interval' = Minus(usage, cputime) /\ interval' = used
  <2> SUFFICES ASSUME pc' = "print", rss' # "zero"
               PROVE  interval' = Minus(usage, cputime) /\ interval' = used
    OBVIOUS
  <2>1. pc = "interval" /\ ~restarted.since
    BY <1>2 DEF IInv, StartInv
  <2>2. usage = cputime + used
    BY <2>1 DEF IInv, CountInv
  <2>3. cputime <= usage /\ usage - cputime = used
    BY <2>2 DEF IInv, TypeOK
  <2> QED
    BY <1>3, <2>3, MinusFacts DEF IInv, TypeOK
<1>8. LastInv'
  <2>1. logged[2] # -1 => pc = "interval" /\ logged[2] = cputime
    BY <1>2 DEF IInv, StartInv, LastInv
  <2> QED
    BY <1>2, <1>7, <2>1 DEF LastInv, Skipped, Minus
<1>9. IntervalIsUsage' /\ LogMatchesInterval'
  <2>1. ~Logged'
    BY <1>2 DEF Logged, IInv, StartInv
  <2> QED
    BY <1>2, <1>7, <2>1 DEF IntervalIsUsage, LogMatchesInterval, Skipped
<1> QED
  BY <1>5, <1>6, <1>8, <1>9 DEF IInv

LEMMA SystemIInv == IInv /\ ReadSystem => IInv'
<1> SUFFICES ASSUME IInv, ReadSystem PROVE IInv'
  OBVIOUS
<1>1. PICK from \in {"first", "interval"} :
        /\ Read(from, IF from = "first" THEN "interval" ELSE "print")
  BY DEF ReadSystem
<1>2. /\ kind = "system" /\ kind' = kind /\ pc = from
      /\ pc' = (IF from = "first" THEN "interval" ELSE "print")
      /\ window' = used /\ used' = 0 /\ cputime' = usage
      /\ UNCHANGED << usage, memory, restarts, logged, rss >>
      /\ restarted' = [before |-> restarted.since, since |-> FALSE]
      /\ interval' = IF cputime = 0 THEN interval ELSE Minus(usage, cputime)
  BY <1>1 DEF ReadSystem, Read
<1>3. Minus(usage, cputime) \in 0 .. Word - 1
  BY MinusFacts DEF IInv, TypeOK
<1>4. TypeOK'
  BY <1>2, <1>3, StatisticsAssumption DEF IInv, TypeOK
<1>5. CountInv' /\ StartInv'
  BY <1>2 DEF IInv, TypeOK, CountInv, StartInv
<1>6. ~Logged'
  BY <1>2 DEF Logged
<1>7. cputime <= usage
  BY <1>2 DEF IInv, TypeOK, StartInv, CountInv
<1>8. pc = "interval" => interval' = usage - cputime /\ interval' = used
  <2> SUFFICES ASSUME pc = "interval"
               PROVE  interval' = usage - cputime /\ interval' = used
    OBVIOUS
  <2>1. cputime > 0 /\ ~restarted.since
    BY <1>2 DEF IInv, StartInv
  <2>2. usage = cputime + used
    BY <2>1 DEF IInv, CountInv
  <2>3. usage - cputime = used /\ cputime # 0
    BY <2>1, <2>2 DEF IInv, TypeOK
  <2> QED
    BY <1>2, <1>7, <2>3, MinusFacts DEF IInv, TypeOK
<1>9. LastInv'
  <2>1. logged[2] # -1 => logged[2] <= cputime
    BY <1>2 DEF IInv, LastInv
  <2> QED
    BY <1>2, <1>7, <1>8, <2>1 DEF IInv, TypeOK, LastInv
<1>10. IntervalIsUsage' /\ LogMatchesInterval'
  BY <1>2, <1>6, <1>8 DEF IntervalIsUsage, LogMatchesInterval
<1> QED
  BY <1>4, <1>5, <1>9, <1>10 DEF IInv

LEMMA AddIInv == IInv /\ AddContainer => IInv'
<1> SUFFICES ASSUME IInv, AddContainer PROVE IInv'
  OBVIOUS
<1>1. PICK to \in {"interval", "print"} : Read("first", to)
  BY DEF AddContainer
<1>2. /\ kind = "container" /\ kind' = kind /\ pc = "first" /\ pc' = to
      /\ window' = used /\ used' = 0 /\ cputime' = usage /\ interval' = 0
      /\ UNCHANGED << usage, memory, restarts, logged, rss >>
      /\ restarted' = [before |-> restarted.since, since |-> FALSE]
  BY <1>1 DEF AddContainer, Read
<1>3. logged = << -1, -1 >>
  BY <1>2 DEF IInv, StartInv
<1>4. TypeOK'
  BY <1>2, StatisticsAssumption DEF IInv, TypeOK
<1>5. CountInv' /\ StartInv' /\ LastInv'
  BY <1>2, <1>3 DEF IInv, TypeOK, CountInv, StartInv, LastInv
<1>6. IntervalIsUsage' /\ LogMatchesInterval'
  BY <1>2, <1>3 DEF IntervalIsUsage, LogMatchesInterval, Logged
<1> QED
  BY <1>4, <1>5, <1>6 DEF IInv

LEMMA UpdateIInv == IInv /\ UpdateContainer => IInv'
<1> SUFFICES ASSUME IInv, UpdateContainer PROVE IInv'
  OBVIOUS
<1>1. /\ kind = "container" /\ kind' = kind /\ pc = "interval" /\ pc' = "print"
      /\ window' = used /\ used' = 0 /\ cputime' = usage
      /\ interval' = Minus(usage, cputime)
      /\ UNCHANGED << usage, memory, restarts, logged, rss >>
      /\ restarted' = [before |-> restarted.since, since |-> FALSE]
  BY DEF UpdateContainer, Read
<1>2. Minus(usage, cputime) \in 0 .. Word - 1
  BY MinusFacts DEF IInv, TypeOK
<1>3. TypeOK'
  BY <1>1, <1>2, StatisticsAssumption DEF IInv, TypeOK
<1>4. CountInv' /\ StartInv'
  BY <1>1 DEF IInv, TypeOK, CountInv, StartInv
<1>5. ~restarted.since => interval' = used
  <2>1. ~restarted.since => usage = cputime + used
    BY <1>1 DEF IInv, CountInv
  <2>2. ~restarted.since => cputime <= usage /\ usage - cputime = used
    BY <2>1 DEF IInv, TypeOK
  <2> QED
    BY <1>1, <2>2, MinusFacts DEF IInv, TypeOK
<1>6. LastInv'
  <2>1. logged[2] # -1 => logged[2] = cputime
    BY <1>1 DEF IInv, LastInv
  <2> QED
    BY <1>1, <2>1 DEF LastInv, Minus
<1>7. IntervalIsUsage' /\ LogMatchesInterval'
  <2>1. ~Logged'
    BY <1>1 DEF Logged
  <2> QED
    BY <1>1, <1>5, <2>1 DEF IntervalIsUsage, LogMatchesInterval
<1> QED
  BY <1>3, <1>4, <1>6, <1>7 DEF IInv

-----------------------------------------------------------------------------
(* The record: what LastInv says of the value read is now about the log.   *)
LEMMA PrintIInv == IInv /\ PrintRecord => IInv'
<1> SUFFICES ASSUME IInv, PrintRecord PROVE IInv'
  OBVIOUS
<1>1. /\ pc = "print" /\ pc' = (IF kind = "system" THEN "first" ELSE "interval")
      /\ logged' = << logged[2], cputime >>
      /\ UNCHANGED << kind, usage, memory, restarts, cputime, interval, rss,
                      used, window, restarted >>
  BY DEF PrintRecord
<1>2. TypeOK'
  BY <1>1, StatisticsAssumption DEF IInv, TypeOK
<1>3. CountInv' /\ StartInv'
  BY <1>1 DEF IInv, TypeOK, CountInv, StartInv
<1>4. LastInv'
  BY <1>1 DEF IInv, TypeOK, LastInv
<1>5. IntervalIsUsage'
  BY <1>1 DEF IntervalIsUsage
<1>6. LogMatchesInterval'
  BY <1>1 DEF IInv, LastInv, LogMatchesInterval, Logged, Skipped, Minus
<1> QED
  BY <1>2, <1>3, <1>4, <1>5, <1>6 DEF IInv

-----------------------------------------------------------------------------
LEMMA StepIInv == IInv /\ [Next]_vars => IInv'
<1> SUFFICES ASSUME IInv, [Next]_vars PROVE IInv'
  OBVIOUS
<1>1. CASE UNCHANGED vars
  BY <1>1 DEF vars, IInv, TypeOK, CountInv, StartInv, LastInv, IntervalIsUsage,
              LogMatchesInterval, Logged, Skipped, Minus
<1>2. CASE Next
  BY <1>2, MachineIInv, ProcessIInv, SystemIInv, AddIInv, UpdateIInv, PrintIInv
     DEF Next
<1> QED
  BY <1>1, <1>2

LEMMA IInvCorrect == Spec => []IInv
BY InitIInv, StepIInv, PTL DEF Spec

(* Types, for every word width; in particular no difference is negative.   *)
THEOREM TypeCorrect == Spec => []TypeOK
<1>1. IInv => TypeOK
  BY DEF IInv
<1> QED
  BY <1>1, IInvCorrect, PTL

(* read_process_stats, read_systemwide_stats, add_docker_container and     *)
(* update_docker_containers print for an interval what was used in it,     *)
(* whatever skipped or spoilt the intervals before.                        *)
THEOREM IntervalCorrect == Spec => []IntervalIsUsage
<1>1. IInv => IntervalIsUsage
  BY DEF IInv
<1> QED
  BY <1>1, IInvCorrect, PTL

(* The records in the log and the printed intervals agree.                 *)
THEOREM LogCorrect == Spec => []LogMatchesInterval
<1>1. IInv => LogMatchesInterval
  BY DEF IInv
<1> QED
  BY <1>1, IInvCorrect, PTL
=============================================================================
