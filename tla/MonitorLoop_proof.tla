-------------------------- MODULE MonitorLoop_proof --------------------------
(***************************************************************************)
(* Theorems about the measuring loop of main.c, for every mode, every set  *)
(* of tasks and available domains, every range of either counter, every    *)
(* max_range (0 included), idle values of either sign and every bound.     *)
(***************************************************************************)
EXTENDS MonitorLoop, TLAPS

-----------------------------------------------------------------------------
(* The arithmetic of energy.c.                                             *)

(* A counter stays within its range.                                       *)
LEMMA AdvancedType ==
  ASSUME NEW range \in Nat \ {0}, NEW r \in Reading(range), NEW e \in 0 .. range
  PROVE  Advanced(range, r, e) \in Reading(range)
BY DEF Advanced, Reading

(* The difference of two readings is an integer; it is negative only if a  *)
(* wrap is corrected by less than the counter's range.                     *)
LEMMA CheckOverflowType ==
  ASSUME NEW range \in Nat \ {0}, NEW r \in Reading(range), NEW s \in Reading(range)
  PROVE  /\ CheckOverflow(r, s) \in Int
         /\ MaxRange >= range => CheckOverflow(r, s) \in Nat
BY MaxRangeAssumption DEF CheckOverflow, Reading

(* check_overflow returns the energy by which the counter advanced between *)
(* the two readings, as long as that is less than the counter's range: to  *)
(* the microjoule if it did not wrap or max_range is its range, and else   *)
(* off by the difference of the two.                                       *)
THEOREM CheckOverflowExact ==
  ASSUME NEW range \in Nat \ {0}, NEW r \in Reading(range), NEW e \in 0 .. range - 1
  PROVE  CheckOverflow(r, Advanced(range, r, e)) =
           e + (IF r + e >= range THEN MaxRange - range ELSE 0)
BY MaxRangeAssumption DEF CheckOverflow, Advanced, Reading

(* Advancing twice is advancing once by the sum.                           *)
LEMMA AdvancedTwice ==
  ASSUME NEW range \in Nat \ {0}, NEW r \in Reading(range), NEW e \in Nat, e + 1 < range
  PROVE  Advanced(range, Advanced(range, r, e), 1) = Advanced(range, r, e + 1)
BY DEF Advanced, Reading

LEMMA RangeOfType ==
  ASSUME NEW d \in Domain PROVE RangeOf[d] \in Nat \ {0}
BY LoopAssumption DEF RangeOf, Domain

(* The two numbers on either side of an integer are integers.              *)
LEMMA ShareType ==
  ASSUME NEW cycles \in Nat \ {0}, NEW proc \in Nat, NEW rest \in Nat,
         NEW e \in Share(cycles, proc, rest)
  PROVE  e \in Nat /\ (proc <= cycles => e <= rest)
<1>1. proc * rest \in Int
  OBVIOUS
<1>2. (proc * rest) \div cycles \in Int
  BY <1>1
<1> DEFINE exact == (proc * rest) \div cycles
<1> HIDE DEF exact
<1>3. e \in exact - 1 .. exact + 1 /\ e >= 0 /\ (proc <= cycles => e <= rest)
  BY DEF Share, exact
<1> QED
  BY <1>2, <1>3 DEF exact

(* The estimate of a task is a natural number, whatever the signs of the   *)
(* interval's energy and of the calibrated idle values; a task whose       *)
(* cycles do not exceed the system's gets at most what is left after the   *)
(* idle deduction.  That is the interval's energy at most if the idle      *)
(* value taken off is not negative, and more than it if it is.             *)
THEOREM EstimateBound ==
  ASSUME NEW cycles \in Nat \ {0}, NEW proc \in Nat, NEW energy \in Int,
         NEW avg \in Int, NEW min \in Int,
         NEW e \in EstimateEnergyCycles(cycles, proc, energy, avg, min)
  PROVE  /\ e \in Nat
         /\ proc <= cycles => e = 0 \/ e <= energy - Idle(avg, min, energy)
         /\ proc <= cycles /\ Idle(avg, min, energy) >= 0 => e = 0 \/ e <= energy
<1> DEFINE idle == Idle(avg, min, energy)
<1>1. idle \in Int
  BY DEF Idle
<1>2. CASE idle > energy \/ proc = 0
  BY <1>2 DEF EstimateEnergyCycles
<1>3. CASE ~(idle > energy \/ proc = 0)
  <2> DEFINE rest == energy - idle
  <2>1. rest \in Nat
    BY <1>1, <1>3
  <2>2. e \in Share(cycles, proc, rest)
    BY <1>3 DEF EstimateEnergyCycles
  <2> HIDE DEF rest
  <2>3. e \in Nat /\ (proc <= cycles => e <= rest)
    BY <2>1, <2>2, ShareType
  <2> QED
    BY <1>1, <2>3 DEF rest
<1> QED
  BY <1>2, <1>3
-----------------------------------------------------------------------------
(* Types, together with what the divisor of an estimate is.                *)
SampledType == TypeOK /\ SampleInv

LEMMA InitSampledType == Init => SampledType
<1> SUFFICES ASSUME Init PROVE SampledType
  OBVIOUS
<1> USE LoopAssumption, MaxRangeAssumption
<1>1. TypeOK
  <2>1. executed \in [Tasks -> Nat]
    BY DEF Init
  <2>2. Readings(counter) /\ Readings(before) /\ Readings(after)
    BY DEF Init, Readings, Reading, RangeOf, Domain
  <2> QED
    BY <2>1, <2>2 DEF Init, TypeOK, Counters, Step, Domain, OwnCycles
<1>2. SampleInv
  BY DEF Init, SampleInv, SysSampled, Counters, OwnCycles
<1> QED
  BY <1>1, <1>2 DEF SampledType

(* Where a Goto leads, and what it leaves to be read there.                *)
LEMMA GotoType ==
  ASSUME NEW step \in Step, Goto(step)
  PROVE  /\ pc' = step /\ pc' \in Step
         /\ left' \subseteq Counters
         /\ left' \subseteq CASE pc' = "sample_sys"   -> {Sys}
                              [] pc' = "sample_tasks" -> Tasks
                              [] OTHER                -> {}
         /\ pc' = "sample_sys" => left' = {Sys}
BY DEF Goto, Step, Counters

(* No step changes the mode or the domains that can be read.               *)
LEMMA SettingsFixed ==
  ASSUME [Next]_vars PROVE mode' = mode /\ available' = available
BY DEF Next, Machine, Tool, Consume, Execute, ReadBefore, ReadAfter, TotalEnergy, ReadCount,
       ResetCount, SampleDone, EstimateTasks, vars, settings

LEMMA StepSampledType == SampledType /\ [Next]_vars => SampledType'
<1> SUFFICES ASSUME SampledType, [Next]_vars PROVE SampledType'
  OBVIOUS
<1>s. mode' = mode /\ available' = available
  BY SettingsFixed
<1> USE <1>s
<1> USE LoopAssumption, MaxRangeAssumption DEF SampledType
<1> USE DEF energyVars, cycleVars, windowVars, sampleVars, resultVars
<1>1. ASSUME NEW d \in Domain, Consume(d) PROVE SampledType'
  <2>0. RangeOf[d] \in Nat \ {0} /\ counter[d] \in Reading(RangeOf[d])
    BY RangeOfType DEF TypeOK, Readings
  <2>1. Advanced(RangeOf[d], counter[d], 1) \in Reading(RangeOf[d])
    BY <2>0, AdvancedType
  <2>2. Readings(counter')
    BY <1>1, <2>0, <2>1 DEF Consume, TypeOK, Readings, Reading
  <2>3. TypeOK'
    BY <1>1, <2>2 DEF Consume, TypeOK
  <2>4. SampleInv'
    BY <1>1 DEF Consume, SampleInv, SysSampled
  <2> QED
    BY <2>3, <2>4
<1>2. ASSUME NEW t \in Tasks, Execute(t) PROVE SampledType'
  <2>1. TypeOK'
    BY <1>2 DEF Execute, TypeOK, Counters
  <2>2. count'[Sys] > 0
    BY <1>2 DEF Execute, TypeOK, SampleInv, Counters
  <2>3. SampleInv'
    BY <1>2, <2>2 DEF Execute, SampleInv, SysSampled
  <2> QED
    BY <2>1, <2>3
<1>3. ASSUME NEW d \in Domain, ReadBefore(d) PROVE SampledType'
  <2>0. ReadEnergy(d) \in Reading(RangeOf[d]) /\ ReadEnergy(d) \in Nat
    BY RangeOfType DEF ReadEnergy, TypeOK, Readings, Reading
  <2>1. Readings([before EXCEPT ![d] = ReadEnergy(d)]) /\ Position(d) \in Nat
    BY <2>0 DEF Position, TypeOK, Readings
  <2>2. PICK step \in Step : Goto(step) /\ step \notin {"estimate", "sample_tasks"}
    BY <1>3 DEF ReadBefore, AfterBefore, Step
  <2>3. TypeOK' /\ left = {}
    BY <1>3, <2>1, <2>2, GotoType DEF ReadBefore, TypeOK, SampleInv, BeforeStep, Domain
  <2>4. SampleInv'
    BY <1>3, <2>2, <2>3, GotoType DEF ReadBefore, SampleInv, SysSampled, TypeOK, Counters
  <2> QED
    BY <2>3, <2>4
<1>4. ASSUME NEW d \in Domain, ReadAfter(d) PROVE SampledType'
  <2>0. ReadEnergy(d) \in Reading(RangeOf[d]) /\ ReadEnergy(d) \in Nat
    BY RangeOfType DEF ReadEnergy, TypeOK, Readings, Reading
  <2>1. Readings([after EXCEPT ![d] = ReadEnergy(d)]) /\ Position(d) \in Nat
    BY <2>0 DEF Position, TypeOK, Readings
  <2>2. PICK step \in Step : Goto(step) /\ step \notin {"estimate", "sample_tasks", "sample_sys"}
    BY <1>4 DEF ReadAfter, Step
  <2>3. TypeOK' /\ left = {}
    BY <1>4, <2>1, <2>2, GotoType DEF ReadAfter, TypeOK, SampleInv, AfterStep, Domain
  <2>4. SampleInv'
    BY <1>4, <2>2, <2>3, GotoType DEF ReadAfter, SampleInv, SysSampled
  <2> QED
    BY <2>3, <2>4
<1>5. CASE TotalEnergy
  <2>1. \A d \in Domain : Used(d) \in Int
    BY RangeOfType, CheckOverflowType DEF Used, TypeOK, Readings
  <2>2. AfterTotal \in Step /\ (AfterTotal = "sample_tasks" => mode = "containers")
        /\ AfterTotal # "estimate"
    BY DEF AfterTotal, Step, TypeOK
  <2>3. TypeOK'
    BY <1>5, <2>1, <2>2, GotoType DEF TotalEnergy, TypeOK, SampleInv, Domain
  <2>4. unreset' = None /\ count' = count /\ Goto(AfterTotal)
    BY <1>5 DEF TotalEnergy, SampleInv, TypeOK
  <2>5. ~SysSampled'
    BY <2>2, <2>4, GotoType DEF SysSampled, Counters
  <2>6. SampleInv'
    BY <2>2, <2>4, <2>5, GotoType DEF SampleInv
  <2> QED
    BY <2>3, <2>6
<1>6. ASSUME NEW c \in Counters, ReadCount(c) PROVE SampledType'
  <2>1. TypeOK'
    BY <1>6 DEF ReadCount, TypeOK, Counters
  <2>2. c = Sys => value'[Sys] > 0
    BY <1>6 DEF ReadCount, TypeOK, SampleInv
  <2>3. c # Sys => value'[Sys] = value[Sys]
    BY <1>6 DEF ReadCount, TypeOK, Counters
  <2>4. SysSampled' => SysSampled \/ c = Sys
    BY <1>6 DEF ReadCount, SysSampled
  <2>5. SampleInv'
    BY <1>6, <2>2, <2>3, <2>4 DEF ReadCount, SampleInv
  <2> QED
    BY <2>1, <2>5
<1>7. CASE ResetCount
  <2>1. TypeOK'
    BY <1>7 DEF ResetCount, TypeOK, Counters, OwnCycles
  <2>2. count'[Sys] > 0
    BY <1>7 DEF ResetCount, TypeOK, SampleInv, Counters, OwnCycles
  <2>3. SysSampled' => SysSampled
    BY <1>7 DEF ResetCount, SysSampled, SampleInv, TypeOK
  <2>4. SampleInv'
    BY <1>7, <2>2, <2>3 DEF ResetCount, SampleInv
  <2> QED
    BY <2>1, <2>4
<1>8. CASE SampleDone
  <2>1. PICK step \in Step : Goto(step) /\ (pc = "sample_sys" => step = AfterSampleSys)
                             /\ (pc = "sample_tasks" => step = AfterSampleTasks)
                             /\ pc \in {"sample_sys", "sample_tasks"}
    BY <1>8 DEF SampleDone, AfterSampleSys, AfterSampleTasks, Step, TypeOK
  <2>2. TypeOK'
    BY <1>8, <2>1, GotoType DEF SampleDone, TypeOK
  <2>3. SysSampled' => SysSampled
    BY <1>8, <2>1, GotoType
       DEF SampleDone, SysSampled, AfterSampleSys, AfterSampleTasks, TypeOK, Counters
  <2>4. SampleInv'
    BY <1>8, <2>1, <2>3, GotoType DEF SampleDone, SampleInv
  <2> QED
    BY <2>2, <2>4
<1>9. CASE EstimateTasks
  <2>1. ASSUME NEW t \in Tasks PROVE estimate'[t] \in Nat
    <3>1. value[Sys] \in Nat \ {0}
      BY <1>9 DEF EstimateTasks, TypeOK, SampleInv, SysSampled, Counters
    <3>2. value[t] \in Nat /\ total \in Int
      BY DEF TypeOK, Counters
    <3>3. estimate'[t] \in EstimateEnergyCycles(value[Sys], value[t], total,
                                                IdleConsumption, IdleMin)
      BY <1>9 DEF EstimateTasks
    <3> HIDE DEF SampledType
    <3> QED
      BY <3>1, <3>2, <3>3, EstimateBound
  <2>2. TypeOK'
    BY <1>9, <2>1, GotoType DEF EstimateTasks, TypeOK, SampleInv, Step
  <2>3. SampleInv'
    BY <1>9, GotoType DEF EstimateTasks, SampleInv, SysSampled, Step
  <2> QED
    BY <2>2, <2>3
<1>10. CASE UNCHANGED vars
  BY <1>10 DEF vars, TypeOK, SampleInv, SysSampled
<1> QED
  BY <1>1, <1>2, <1>3, <1>4, <1>5, <1>6, <1>7, <1>8, <1>9, <1>10
     DEF Next, Machine, Tool

(* The type invariant of the loop; in particular no estimate is negative,  *)
(* even where a total is, and none divides by zero.                        *)
THEOREM TypeCorrect == Spec => []TypeOK
<1>1. Spec => []SampledType
  BY InitSampledType, StepSampledType, PTL DEF Spec
<1>2. SampledType => TypeOK
  BY DEF SampledType
<1> QED
  BY <1>1, <1>2, PTL

-----------------------------------------------------------------------------
(* The energy windows.                                                     *)
LEMMA InitLedgerInv == Init => LedgerInv
BY LoopAssumption, MaxRangeAssumption
   DEF Init, LedgerInv, WindowInv, InWindow, Closed, AfterStep, Domain

LEMMA StepLedgerInv == SampledType /\ LedgerInv /\ [Next]_vars => LedgerInv'
<1> SUFFICES ASSUME SampledType, LedgerInv, [Next]_vars PROVE LedgerInv'
  OBVIOUS
<1>s. mode' = mode /\ available' = available
  BY SettingsFixed
<1> USE <1>s
<1> USE LoopAssumption, MaxRangeAssumption
<1> USE DEF energyVars, cycleVars, windowVars, sampleVars, resultVars
<1>0. TypeOK
  BY DEF SampledType
<1>1. ASSUME NEW c \in Domain, Consume(c) PROVE LedgerInv'
  <2>1. SUFFICES ASSUME NEW d \in Domain PROVE WindowInv(d)'
    BY <1>1 DEF LedgerInv, Consume
  <2>2. WindowInv(d)
    BY DEF LedgerInv
  <2>3. InWindow(d)' = InWindow(d) /\ Closed(d)' = Closed(d)
        /\ Used(d)' = Used(d) /\ Window(d)' = Window(d)
    BY <1>1 DEF Consume, InWindow, Closed, Used, Window, Wrapped
  <2>4. CASE c # d
    BY <1>0, <1>1, <2>2, <2>3, <2>4 DEF Consume, WindowInv, TypeOK
  <2>5. CASE c = d
    <3>1. consumed'[d] = consumed[d] + 1 /\ counter'[d] = Advanced(RangeOf[d], counter[d], 1)
      BY <1>0, <1>1, <2>5 DEF Consume, TypeOK, Readings
    <3>2. ASSUME d \in available, InWindow(d)
          PROVE  /\ consumed'[d] - start[d] < RangeOf[d]
                 /\ counter'[d] = Advanced(RangeOf[d], before[d], consumed'[d] - start[d])
      <4> DEFINE e == consumed[d] - start[d]
      <4>1. /\ e \in Nat /\ e + 1 < RangeOf[d]
            /\ counter[d] = Advanced(RangeOf[d], before[d], e)
        BY <1>0, <1>1, <2>2, <2>5, <3>2, RangeOfType DEF Consume, WindowInv, TypeOK
      <4>2. before[d] \in Reading(RangeOf[d]) /\ consumed'[d] - start[d] = e + 1
        BY <1>0, <3>1 DEF TypeOK, Readings
      <4>3. RangeOf[d] \in Nat \ {0}
        BY RangeOfType
      <4> HIDE DEF e
      <4> QED
        BY <3>1, <4>1, <4>2, <4>3, AdvancedTwice
    <3> QED
      BY <1>0, <1>1, <2>2, <2>3, <3>1, <3>2 DEF Consume, WindowInv, TypeOK
  <2> QED
    BY <2>4, <2>5
<1>2. ASSUME NEW t \in Tasks, Execute(t) PROVE LedgerInv'
  BY <1>2 DEF Execute, LedgerInv, WindowInv, InWindow, Closed, Used, Window, Wrapped
<1>3. ASSUME NEW c \in Domain, ReadBefore(c) PROVE LedgerInv'
  <2>1. /\ pc = BeforeStep[c] /\ pc' = IF c = "pkg" THEN "before_dram" ELSE AfterBefore
        /\ pc' # "sample_tasks"
    BY <1>3 DEF ReadBefore, Goto, AfterBefore
  <2>2. SUFFICES ASSUME NEW d \in Domain PROVE WindowInv(d)'
    BY <2>1 DEF LedgerInv
  <2>3. WindowInv(d)
    BY DEF LedgerInv
  <2>4. ~Closed(d)'
    BY <2>1 DEF Closed, AfterBefore
  <2>5. CASE c # d
    <3>1. InWindow(d)' => InWindow(d)
      BY <2>1, <2>5 DEF InWindow, AfterBefore, AfterStep, BeforeStep, Domain
    <3> QED
      BY <1>0, <1>3, <2>3, <2>4, <2>5, <3>1 DEF ReadBefore, WindowInv, TypeOK
  <2>6. CASE c = d
    <3>1. before'[d] = ReadEnergy(d) /\ start'[d] = Position(d)
      BY <1>0, <1>3, <2>6 DEF ReadBefore, TypeOK, Readings
    <3>2. d \in available =>
            Advanced(RangeOf[d], before'[d], consumed[d] - start'[d]) = counter[d]
      BY <1>0, <3>1, RangeOfType
         DEF ReadEnergy, Position, Advanced, TypeOK, Readings, Reading
    <3> QED
      BY <1>0, <1>3, <2>3, <2>4, <3>1, <3>2, RangeOfType
         DEF ReadBefore, WindowInv, TypeOK, ReadEnergy, Position
  <2> QED
    BY <2>5, <2>6
<1>4. ASSUME NEW c \in Domain, ReadAfter(c) PROVE LedgerInv'
  <2>1. pc = AfterStep[c] /\ pc' = IF c = "pkg" THEN "after_dram" ELSE "total"
    BY <1>4 DEF ReadAfter, Goto
  <2>2. SUFFICES ASSUME NEW d \in Domain PROVE WindowInv(d)'
    BY <2>1 DEF LedgerInv
  <2>3. WindowInv(d)
    BY DEF LedgerInv
  <2>4. CASE c # d
    <3>1. (InWindow(d)' => InWindow(d)) /\ (Closed(d)' => Closed(d))
      BY <2>1, <2>4 DEF InWindow, Closed, AfterStep, Domain
    <3>2. after'[d] = after[d] /\ stop'[d] = stop[d]
      BY <1>0, <1>4, <2>4 DEF ReadAfter, TypeOK
    <3> QED
      BY <1>0, <1>4, <2>3, <3>1, <3>2 DEF ReadAfter, WindowInv, TypeOK, Used, Window, Wrapped
  <2>5. CASE c = d
    <3>1. after'[d] = ReadEnergy(d) /\ stop'[d] = Position(d)
      BY <1>0, <1>4, <2>5 DEF ReadAfter, TypeOK, Readings
    <3>2. InWindow(d) /\ ~InWindow(d)'
      BY <2>1, <2>5 DEF InWindow, AfterStep, Domain
    <3>3. start'[d] = start[d] /\ before'[d] = before[d] /\ consumed'[d] = consumed[d]
          /\ stop'[d] = Position(d)
      BY <1>0, <1>4, <3>1 DEF ReadAfter
    <3>4. d \in available => Used(d)' = Window(d)'
      <4>1. SUFFICES ASSUME d \in available PROVE Used(d)' = Window(d)'
        OBVIOUS
      <4> DEFINE e == consumed[d] - start[d]
      <4>2. e \in 0 .. RangeOf[d] - 1 /\ counter[d] = Advanced(RangeOf[d], before[d], e)
        BY <1>0, <2>3, <3>2, <4>1, RangeOfType DEF WindowInv, TypeOK
      <4>3. Used(d)' = CheckOverflow(before[d], counter[d])
        BY <1>4, <3>1, <4>1 DEF Used, ReadEnergy, ReadAfter
      <4>4. Window(d)' = e + (IF before[d] + e >= RangeOf[d] THEN MaxRange - RangeOf[d] ELSE 0)
        BY <3>3, <4>1 DEF Window, Wrapped, RangeError, Position
      <4>5. before[d] \in Reading(RangeOf[d]) /\ RangeOf[d] \in Nat \ {0}
        BY <1>0, RangeOfType DEF TypeOK, Readings
      <4> HIDE DEF e
      <4> QED
        BY <4>2, <4>3, <4>4, <4>5, CheckOverflowExact
    <3>5. d \notin available => Used(d)' = 0 /\ Window(d)' = 0
      <4>1. SUFFICES ASSUME d \notin available PROVE Used(d)' = 0 /\ Window(d)' = 0
        OBVIOUS
      <4>2. before'[d] = 0 /\ after'[d] = 0 /\ start'[d] = 0 /\ stop'[d] = 0
        BY <2>3, <3>1, <3>3, <4>1 DEF WindowInv, ReadEnergy, Position
      <4> QED
        BY <4>2, RangeOfType DEF Used, CheckOverflow, Window, Wrapped
    <3> QED
      BY <1>0, <1>4, <2>3, <3>1, <3>2, <3>3, <3>4, <3>5
         DEF ReadAfter, WindowInv, TypeOK, ReadEnergy, Position
  <2> QED
    BY <2>4, <2>5
<1>5. CASE TotalEnergy
  <2>1. pc = "total" /\ pc' = AfterTotal
    BY <1>5 DEF TotalEnergy, Goto
  <2>2. SUFFICES ASSUME NEW d \in Domain PROVE WindowInv(d)'
    BY <1>0, <2>1 DEF LedgerInv, AfterTotal, TypeOK
  <2>3. WindowInv(d) /\ Closed(d)
    BY <2>1 DEF LedgerInv, Closed
  <2>4. ~InWindow(d)' /\ ~Closed(d)'
    BY <1>0, <2>1 DEF InWindow, Closed, AfterTotal, AfterStep, Domain, TypeOK
  <2>5. upto'[d] = stop[d]
    BY <1>5 DEF TotalEnergy
  <2> QED
    BY <1>0, <1>5, <2>3, <2>4, <2>5 DEF TotalEnergy, WindowInv, TypeOK
<1>6. ASSUME NEW c \in Counters, ReadCount(c) PROVE LedgerInv'
  BY <1>6 DEF ReadCount, LedgerInv, WindowInv, InWindow, Closed, Used, Window, Wrapped
<1>7. CASE ResetCount
  BY <1>7 DEF ResetCount, LedgerInv, WindowInv, InWindow, Closed, Used, Window, Wrapped
<1>8. CASE SampleDone
  <2>1. \/ pc = "sample_sys" /\ pc' = AfterSampleSys
        \/ pc = "sample_tasks" /\ pc' = AfterSampleTasks /\ mode # "systemwide"
    BY <1>8 DEF SampleDone, Goto, LedgerInv
  <2>2. \A d \in Domain : (InWindow(d)' => InWindow(d)) /\ ~Closed(d)'
    BY <1>0, <2>1
       DEF InWindow, Closed, AfterSampleSys, AfterSampleTasks, AfterStep, Domain, TypeOK
  <2>3. pc' = "sample_tasks" => mode # "systemwide"
    BY <1>0, <2>1 DEF AfterSampleSys, AfterSampleTasks, TypeOK
  <2> QED
    BY <1>8, <2>2, <2>3 DEF SampleDone, LedgerInv, WindowInv, Used, Window, Wrapped
<1>9. CASE EstimateTasks
  <2>1. \A d \in Domain : ~InWindow(d)' /\ ~Closed(d)'
    BY <1>9 DEF EstimateTasks, Goto, InWindow, Closed, AfterStep, Domain
  <2> QED
    BY <1>9, <2>1 DEF EstimateTasks, Goto, LedgerInv, WindowInv, Used, Window, Wrapped
<1>10. CASE UNCHANGED vars
  BY <1>10 DEF vars, LedgerInv, WindowInv, InWindow, Closed, Used, Window, Wrapped
<1> QED
  BY <1>1, <1>2, <1>3, <1>4, <1>5, <1>6, <1>7, <1>8, <1>9, <1>10
     DEF Next, Machine, Tool

LEMMA IInvCorrect == Spec => []IInv
<1>1. Init => SampledType /\ LedgerInv
  BY InitSampledType, InitLedgerInv
<1>2. SampledType /\ LedgerInv /\ [Next]_vars => (SampledType /\ LedgerInv)'
  BY StepSampledType, StepLedgerInv
<1>3. SampledType /\ LedgerInv => IInv
  BY DEF SampledType, IInv
<1> QED
  BY <1>1, <1>2, <1>3, PTL DEF Spec

(* Which steps leave pc = "total", and which report.                       *)
LEMMA LeavingTotal ==
  ASSUME IInv, [Next]_vars
  PROVE  /\ pc = "total" /\ pc' # "total" => TotalEnergy
         /\ ~TotalEnergy => UNCHANGED <<accounted, upto>>
<1> USE DEF energyVars, cycleVars, windowVars, sampleVars, resultVars, vars
<1>1. ASSUME NEW d \in Domain, Consume(d) \/ ReadBefore(d) \/ ReadAfter(d)
      PROVE  UNCHANGED <<accounted, upto>> /\ (pc = "total" => pc' = "total")
  BY <1>1 DEF Consume, ReadBefore, ReadAfter, BeforeStep, AfterStep, Domain
<1>2. ASSUME NEW t \in Tasks, Execute(t) PROVE UNCHANGED <<accounted, upto, pc>>
  BY <1>2 DEF Execute
<1>3. ASSUME NEW c \in Counters, ReadCount(c) PROVE UNCHANGED <<accounted, upto, pc>>
  BY <1>3 DEF ReadCount
<1>4. ASSUME ResetCount \/ SampleDone \/ EstimateTasks
      PROVE  UNCHANGED <<accounted, upto>> /\ (pc = "total" => pc' = "total")
  BY <1>4 DEF ResetCount, SampleDone, EstimateTasks
<1> QED
  BY <1>1, <1>2, <1>3, <1>4 DEF Next, Machine, Tool

(* Every reported total is the energy consumed in the windows of the       *)
(* readable domains, plus max_range less the counter's own range for each  *)
(* domain that wrapped in its window.                                      *)
THEOREM TotalCorrect == Spec => TotalIsWindowEnergy
<1>1. IInv /\ [Next]_vars =>
        [pc = "total" /\ pc' # "total" => total' = Window("pkg") + Window("dram")]_vars
  <2>1. SUFFICES ASSUME IInv, [Next]_vars, pc = "total", pc' # "total"
                 PROVE  total' = Window("pkg") + Window("dram")
    OBVIOUS
  <2>2. total' = Used("pkg") + Used("dram")
    BY <2>1, LeavingTotal DEF TotalEnergy
  <2>3. \A d \in Domain : Used(d) = Window(d)
    BY <2>1 DEF IInv, LedgerInv, WindowInv, Closed
  <2> QED
    BY <2>2, <2>3 DEF Domain
<1> QED
  BY <1>1, IInvCorrect, PTL DEF Spec, TotalIsWindowEnergy

(* Only the estimates themselves leave their step: no event is left to be  *)
(* read there.                                                             *)
LEMMA LeavingEstimate ==
  ASSUME IInv, [Next]_vars, pc = "estimate", pc' # "estimate"
  PROVE  EstimateTasks
<1> USE DEF energyVars, cycleVars, windowVars, sampleVars, resultVars, vars
<1>1. ASSUME NEW d \in Domain, Consume(d) \/ ReadBefore(d) \/ ReadAfter(d) PROVE FALSE
  BY <1>1 DEF Consume, ReadBefore, ReadAfter, BeforeStep, AfterStep, Domain
<1>2. ASSUME NEW t \in Tasks, Execute(t) PROVE FALSE
  BY <1>2 DEF Execute
<1>3. ASSUME NEW c \in Counters, ReadCount(c) PROVE FALSE
  BY <1>3 DEF ReadCount
<1>4. CASE TotalEnergy \/ ResetCount \/ SampleDone
  BY <1>4 DEF TotalEnergy, ResetCount, SampleDone
<1> QED
  BY <1>1, <1>2, <1>3, <1>4 DEF Next, Machine, Tool

(* A task is given more than the interval's total only if its count, as    *)
(* read in this interval, exceeds the system's, or a negative idle value   *)
(* was taken off.                                                          *)
THEOREM EstimateCorrect == Spec => MoreThanTotalOnlyBy
<1>1. IInv /\ [Next]_vars =>
        [pc = "estimate" /\ pc' # "estimate" =>
           \A t \in Tasks : \/ estimate'[t] <= total \/ estimate'[t] = 0
                             \/ value[t] > value[Sys]
                             \/ Idle(IdleConsumption, IdleMin, total) < 0]_vars
  <2> SUFFICES ASSUME IInv, [Next]_vars, pc = "estimate", pc' # "estimate", NEW t \in Tasks
               PROVE  \/ estimate'[t] <= total \/ estimate'[t] = 0
                      \/ value[t] > value[Sys]
                      \/ Idle(IdleConsumption, IdleMin, total) < 0
    OBVIOUS
  <2>1. EstimateTasks
    BY LeavingEstimate
  <2>2. value[Sys] \in Nat \ {0} /\ total \in Int /\ value[t] \in Nat
    BY DEF IInv, TypeOK, SampleInv, SysSampled, Counters
  <2>3. estimate'[t] \in EstimateEnergyCycles(value[Sys], value[t], total,
                                              IdleConsumption, IdleMin)
    BY <2>1 DEF EstimateTasks
  <2>4. Idle(IdleConsumption, IdleMin, total) \in Int
    BY <2>2, LoopAssumption DEF Idle
  <2>5. ASSUME value[t] <= value[Sys], Idle(IdleConsumption, IdleMin, total) >= 0
        PROVE  estimate'[t] = 0 \/ estimate'[t] <= total
    BY <2>2, <2>3, <2>5, EstimateBound, LoopAssumption
  <2> QED
    BY <2>2, <2>4, <2>5
<1> QED
  BY <1>1, IInvCorrect, PTL DEF Spec, MoreThanTotalOnlyBy

(* What a step of the loop does to the ledger of a domain.                 *)
LEMMA LedgerStep ==
  ASSUME IInv, [Next]_vars, NEW d \in Domain
  PROVE  \/ /\ consumed'[d] \in Nat /\ consumed'[d] > consumed[d]
            /\ UNCHANGED <<accounted[d], upto[d]>>
         \/ /\ upto[d] <= start[d] /\ start[d] <= stop[d] /\ stop[d] <= consumed[d]
            /\ \E error \in {0, MaxRange - RangeOf[d]} :
                 accounted'[d] = accounted[d] + (stop[d] - start[d]) + error
            /\ upto'[d] = stop[d]
            /\ UNCHANGED consumed[d]
         \/ UNCHANGED <<consumed[d], accounted[d], upto[d]>>
<1> USE DEF energyVars, cycleVars, windowVars, sampleVars, resultVars, vars
<1>0. TypeOK
  BY DEF IInv
<1>1. CASE TotalEnergy
  <2>1. WindowInv(d) /\ Closed(d)
    BY <1>1 DEF TotalEnergy, IInv, LedgerInv, Closed
  <2> DEFINE size  == stop[d] - start[d]
             error == IF Wrapped(d) THEN MaxRange - RangeOf[d] ELSE 0
  <2>2. Used(d) = size + error
    BY <2>1 DEF WindowInv, Window, RangeError
  <2>3. size \in Int /\ error \in Int /\ accounted[d] \in Int
    BY <1>0, MaxRangeAssumption, RangeOfType DEF TypeOK
  <2>4. accounted'[d] = accounted[d] + Used(d)
    BY <1>1 DEF TotalEnergy
  <2>5. error \in {0, MaxRange - RangeOf[d]}
    OBVIOUS
  <2> HIDE DEF size, error
  <2>6. accounted'[d] = accounted[d] + size + error
    BY <2>2, <2>3, <2>4
  <2>7. \E x \in {0, MaxRange - RangeOf[d]} : accounted'[d] = accounted[d] + size + x
    BY <2>5, <2>6
  <2> QED
    BY <1>1, <2>1, <2>7 DEF TotalEnergy, WindowInv, size
<1>2. ASSUME NEW c \in Domain, Consume(c)
      PROVE  /\ UNCHANGED <<accounted, upto>>
             /\ \/ consumed'[d] \in Nat /\ consumed'[d] > consumed[d]
                \/ UNCHANGED consumed[d]
  BY <1>0, <1>2 DEF Consume, TypeOK
<1>3. ~TotalEnergy /\ ~(\E c \in Domain : Consume(c)) =>
        UNCHANGED <<consumed, accounted, upto>>
  BY LeavingTotal
     DEF Next, Machine, Tool, Execute, ReadBefore, ReadAfter, ReadCount, ResetCount,
         SampleDone, EstimateTasks
<1> QED
  BY <1>1, <1>2, <1>3

(* The loop implements the ledger of the package: energy is reported in    *)
(* disjoint windows of what it really consumed, exactly if max_range is    *)
(* the package's range.                                                    *)
THEOREM PkgRefinement == Spec => PkgLedger
<1>1. Init => Pkg!Init
  BY DEF Init, Pkg!Init, Domain
<1>2. IInv /\ [Next]_vars => [Pkg!Next]_(Pkg!vars)
  <2> SUFFICES ASSUME IInv, [Next]_vars PROVE [Pkg!Next]_(Pkg!vars)
    OBVIOUS
  <2>1. start["pkg"] \in Nat /\ stop["pkg"] \in Nat /\ consumed["pkg"] \in Nat
    BY DEF IInv, TypeOK, Domain
  <2>2. "pkg" \in Domain /\ RangeOf["pkg"] = PkgRange
    BY DEF Domain, RangeOf
  <2> QED
    BY <2>1, <2>2, LedgerStep DEF Pkg!Next, Pkg!vars, Pkg!Consume, Pkg!Report
<1> QED
  BY <1>1, <1>2, IInvCorrect, PTL DEF Spec, PkgLedger, Pkg!Spec

(* The same for DRAM, whose windows are disjoint too, but each wrap in one *)
(* is reported with an error of MaxRange - DramRange.                      *)
THEOREM DramRefinement == Spec => DramLedger
<1>1. Init => Dram!Init
  BY DEF Init, Dram!Init, Domain
<1>2. IInv /\ [Next]_vars => [Dram!Next]_(Dram!vars)
  <2> SUFFICES ASSUME IInv, [Next]_vars PROVE [Dram!Next]_(Dram!vars)
    OBVIOUS
  <2>1. start["dram"] \in Nat /\ stop["dram"] \in Nat /\ consumed["dram"] \in Nat
    BY DEF IInv, TypeOK, Domain
  <2>2. "dram" \in Domain /\ RangeOf["dram"] = DramRange
    BY DEF Domain, RangeOf
  <2> QED
    BY <2>1, <2>2, LedgerStep DEF Dram!Next, Dram!vars, Dram!Consume, Dram!Report
<1> QED
  BY <1>1, <1>2, IInvCorrect, PTL DEF Spec, DramLedger, Dram!Spec

(* What any implementation of the ledger promises.                         *)
LEMMA PkgPromise == PkgLedger => []Pkg!NeverOverReported
<1> DEFINE PInv == Pkg!TypeOK /\ Pkg!NeverOverReported
<1>1. Pkg!Init => PInv
  BY DEF Pkg!Init, Pkg!TypeOK, Pkg!NeverOverReported
<1>2. PInv /\ [Pkg!Next]_(Pkg!vars) => PInv'
  BY MaxRangeAssumption, LoopAssumption
     DEF Pkg!TypeOK, Pkg!NeverOverReported, Pkg!Next, Pkg!Consume, Pkg!Report, Pkg!vars
<1> QED
  BY <1>1, <1>2, PTL DEF PkgLedger, Pkg!Spec

LEMMA DramPromise == DramLedger => []Dram!NeverOverReported
<1> DEFINE DInv == Dram!TypeOK /\ Dram!NeverOverReported
<1>1. Dram!Init => DInv
  BY DEF Dram!Init, Dram!TypeOK, Dram!NeverOverReported
<1>2. DInv /\ [Dram!Next]_(Dram!vars) => DInv'
  BY MaxRangeAssumption, LoopAssumption
     DEF Dram!TypeOK, Dram!NeverOverReported, Dram!Next, Dram!Consume, Dram!Report, Dram!vars
<1> QED
  BY <1>1, <1>2, PTL DEF DramLedger, Dram!Spec

(* The loop reports no more energy of a domain than the domain consumed,   *)
(* provided that the range it corrects with is not larger than that of the *)
(* domain's counter; with a larger one a wrap is over-reported.            *)
THEOREM NeverOverReported ==
  Spec => [](/\ MaxRange <= PkgRange  => accounted["pkg"]  <= consumed["pkg"]
             /\ MaxRange <= DramRange => accounted["dram"] <= consumed["dram"])
<1>1. TypeOK /\ Pkg!NeverOverReported /\ Dram!NeverOverReported =>
        /\ MaxRange <= PkgRange  => accounted["pkg"]  <= consumed["pkg"]
        /\ MaxRange <= DramRange => accounted["dram"] <= consumed["dram"]
  BY MaxRangeAssumption, LoopAssumption
     DEF TypeOK, Domain, Pkg!NeverOverReported, Dram!NeverOverReported
<1> QED
  BY <1>1, TypeCorrect, PkgRefinement, DramRefinement, PkgPromise, DramPromise, PTL

-----------------------------------------------------------------------------
(* The cycles of the tasks: no cycle is credited to two intervals, however *)
(* many cycles run between the read of an event and its reset.             *)
LEMMA StepCycles ==
  TypeOK /\ NoCycleCountedTwice /\ [Next]_vars => NoCycleCountedTwice'
<1> SUFFICES ASSUME TypeOK, NoCycleCountedTwice, [Next]_vars, NEW t \in Tasks
             PROVE  (credited[t] + Pending(t) <= executed[t])'
  BY DEF NoCycleCountedTwice
<1> USE LoopAssumption DEF Pending, Counters
<1> USE DEF energyVars, cycleVars, windowVars, sampleVars, resultVars, vars
<1>0. credited[t] + Pending(t) <= executed[t]
  BY DEF NoCycleCountedTwice
<1>1. ASSUME NEW u \in Tasks, Execute(u)
      PROVE  (credited[t] + Pending(t) <= executed[t])'
  <2>1. /\ count'[t] = IF t = u THEN count[t] + 1 ELSE count[t]
        /\ executed'[t] = IF t = u THEN executed[t] + 1 ELSE executed[t]
    BY <1>1 DEF Execute, TypeOK
  <2> QED
    BY <1>0, <1>1, <2>1 DEF Execute, TypeOK
<1>2. ASSUME NEW c \in Counters, ReadCount(c)
      PROVE  (credited[t] + Pending(t) <= executed[t])'
  BY <1>0, <1>2 DEF ReadCount, TypeOK
<1>3. CASE ResetCount
  <2>1. count'[t] = IF unreset = t THEN 0 ELSE count[t]
    BY <1>3 DEF ResetCount, TypeOK
  <2> QED
    BY <1>0, <1>3, <2>1 DEF ResetCount, TypeOK
<1>4. CASE UNCHANGED <<count, executed, unreset, credited>>
  BY <1>0, <1>4
<1> QED
  BY <1>1, <1>2, <1>3, <1>4
     DEF Next, Machine, Tool, Consume, ReadBefore, ReadAfter, TotalEnergy, SampleDone,
         EstimateTasks

(* No cycle of a task is counted in two intervals, whatever runs between a *)
(* read and its reset.                                                     *)
THEOREM CyclesCorrect == Spec => []NoCycleCountedTwice
<1>1. Init => NoCycleCountedTwice
  BY LoopAssumption DEF Init, NoCycleCountedTwice, Pending, Counters
<1> QED
  BY <1>1, StepCycles, TypeCorrect, PTL DEF Spec
=============================================================================
