--------------------------- MODULE GpuThread_proof ---------------------------
(***************************************************************************)
(* Theorems about gpu_energy_est, for any number of samples and any        *)
(* interleaving of the sampling thread and main.                           *)
(***************************************************************************)
EXTENDS GpuThread, TLAPS

------------------------------------------------------------------------------
(* TypeOK without the quantifier over the sets of samples.                 *)
LEMMA Typing ==
  TypeOK <=>
    /\ mode \in Modes
    /\ device \in BOOLEAN /\ terminate \in BOOLEAN /\ lost \in BOOLEAN
    /\ pc \in {"start", "next", "reset", "measure", "stop", "print", "log", "done"}
    /\ thread \in {"none", "check", "sample", "load", "store", "ended"}
    /\ taken \in 0 .. MaxSamples
    /\ est \subseteq 0 .. taken /\ loaded \subseteq 0 .. taken
    /\ fresh \subseteq 0 .. taken /\ since \subseteq 0 .. taken
    /\ reported \subseteq 0 .. taken /\ printed \subseteq 0 .. taken
    /\ logged \subseteq 0 .. taken
BY DEF TypeOK

LEMMA InitIInv == Init => IInv
<1> SUFFICES ASSUME Init PROVE IInv
  OBVIOUS
<1>1. TypeOK
  <2>1. taken = 0 /\ 0 \in 0 .. MaxSamples
    BY SamplesAssumption DEF Init
  <2> QED
    BY <2>1, Typing DEF Init
<1>2. SinceReset /\ StoreInv /\ FreshInv /\ PrintInv /\ LogMatchesPrint
  BY DEF Init, SinceReset, StoreInv, FreshInv, PrintInv, LogMatchesPrint
<1>3. LogInv
  BY SamplesAssumption DEF Init, LogInv, Samples
<1> QED
  BY <1>1, <1>2, <1>3 DEF IInv

LEMMA StepIInv == IInv /\ [Next]_vars => IInv'
<1> SUFFICES ASSUME IInv, [Next]_vars PROVE IInv'
  OBVIOUS
<1> USE SamplesAssumption DEF mainVars, threadVars
<1>1. CASE CheckFlag
  <2>1. TypeOK'
    BY <1>1, Typing DEF IInv, CheckFlag, ThreadGoes, Modes, TypeOK
  <2>2. SinceReset' /\ StoreInv'
    BY <1>1, <2>1 DEF IInv, CheckFlag, ThreadGoes, SinceReset, StoreInv, TypeOK
  <2>3. FreshInv' /\ PrintInv'
    BY <1>1, Typing DEF IInv, CheckFlag, ThreadGoes, SinceReset, FreshInv, PrintInv, Modes
  <2>4. LogInv' /\ LogMatchesPrint'
    BY <1>1, Typing DEF IInv, CheckFlag, ThreadGoes, SinceReset, StoreInv, PrintInv, LogInv, LogMatchesPrint, Modes, Samples
  <2> QED
    BY <2>1, <2>2, <2>3, <2>4 DEF IInv
<1>2. CASE Sample
  <2>1. TypeOK'
    BY <1>2, Typing DEF IInv, Sample, ThreadGoes, Modes, GetGpuStats, Undefined, TypeOK
  <2>2. SinceReset' /\ StoreInv'
    BY <1>2, <2>1 DEF IInv, Sample, ThreadGoes, SinceReset, StoreInv, TypeOK
  <2>3. FreshInv'
    <3>1. device => fresh' \cap (est \cup reported) = {}
      BY <1>2, Typing DEF IInv, Sample, GetGpuStats
    <3> QED
      BY <1>2, <3>1 DEF IInv, Sample, ThreadGoes, FreshInv
  <2>4. PrintInv'
    BY <1>2 DEF IInv, Sample, ThreadGoes, PrintInv
  <2>5. LogInv' /\ LogMatchesPrint'
    BY <1>2, Typing DEF IInv, Sample, ThreadGoes, SinceReset, StoreInv, PrintInv, LogInv, LogMatchesPrint, Modes, Samples, GetGpuStats, Undefined
  <2> QED
    BY <2>1, <2>2, <2>3, <2>4, <2>5 DEF IInv
<1>3. CASE LoadEstimate
  <2>1. TypeOK'
    BY <1>3, Typing DEF IInv, LoadEstimate, ThreadGoes, Modes, TypeOK
  <2>2. SinceReset' /\ StoreInv'
    BY <1>3, <2>1 DEF IInv, LoadEstimate, ThreadGoes, SinceReset, StoreInv, TypeOK
  <2>3. FreshInv' /\ PrintInv'
    BY <1>3, Typing DEF IInv, LoadEstimate, ThreadGoes, SinceReset, FreshInv, PrintInv, Modes
  <2>4. LogInv' /\ LogMatchesPrint'
    BY <1>3, Typing DEF IInv, LoadEstimate, ThreadGoes, SinceReset, StoreInv, PrintInv, LogInv, LogMatchesPrint, Modes, Samples
  <2> QED
    BY <2>1, <2>2, <2>3, <2>4 DEF IInv
<1>4. CASE StoreEstimate
  <2>1. TypeOK'
    BY <1>4, Typing DEF IInv, StoreEstimate, ThreadGoes, Modes, TypeOK
  <2>2. SinceReset' /\ StoreInv'
    BY <1>4, <2>1 DEF IInv, StoreEstimate, ThreadGoes, SinceReset, StoreInv, TypeOK
  <2>3. FreshInv' /\ PrintInv'
    BY <1>4, Typing DEF IInv, StoreEstimate, ThreadGoes, SinceReset, FreshInv, PrintInv, Modes
  <2>4. LogInv' /\ LogMatchesPrint'
    BY <1>4, Typing DEF IInv, StoreEstimate, ThreadGoes, SinceReset, StoreInv, PrintInv, LogInv, LogMatchesPrint, Modes, Samples
  <2> QED
    BY <2>1, <2>2, <2>3, <2>4 DEF IInv
<1>5. CASE CreateThread
  <2>1. TypeOK'
    BY <1>5, Typing DEF IInv, CreateThread, MainGoes, Modes, TypeOK
  <2>2. SinceReset' /\ StoreInv'
    BY <1>5, <2>1 DEF IInv, CreateThread, MainGoes, SinceReset, StoreInv, TypeOK
  <2>3. FreshInv' /\ PrintInv'
    BY <1>5, Typing DEF IInv, CreateThread, MainGoes, SinceReset, FreshInv, PrintInv, Modes
  <2>4. LogInv' /\ LogMatchesPrint'
    BY <1>5, Typing DEF IInv, CreateThread, MainGoes, SinceReset, StoreInv, PrintInv, LogInv, LogMatchesPrint, Modes, Samples
  <2> QED
    BY <2>1, <2>2, <2>3, <2>4 DEF IInv
<1>6. CASE NextProgram
  <2>1. TypeOK'
    BY <1>6, Typing DEF IInv, NextProgram, MainGoes, Modes, TypeOK
  <2>2. SinceReset' /\ StoreInv'
    BY <1>6, <2>1 DEF IInv, NextProgram, MainGoes, SinceReset, StoreInv, TypeOK
  <2>3. FreshInv' /\ PrintInv'
    BY <1>6, Typing DEF IInv, NextProgram, MainGoes, SinceReset, FreshInv, PrintInv, Modes
  <2>4. LogInv' /\ LogMatchesPrint'
    BY <1>6, Typing DEF IInv, NextProgram, MainGoes, SinceReset, StoreInv, PrintInv, LogInv, LogMatchesPrint, Modes, Samples
  <2> QED
    BY <2>1, <2>2, <2>3, <2>4 DEF IInv
<1>7. CASE Reset
  <2>1. TypeOK'
    BY <1>7, Typing DEF IInv, Reset, MainGoes, Modes, TypeOK
  <2>2. SinceReset' /\ StoreInv'
    BY <1>7, <2>1 DEF IInv, Reset, MainGoes, SinceReset, StoreInv, TypeOK
  <2>3. FreshInv' /\ PrintInv'
    BY <1>7, Typing DEF IInv, Reset, MainGoes, SinceReset, FreshInv, PrintInv, Modes
  <2>4. LogInv' /\ LogMatchesPrint'
    BY <1>7, Typing DEF IInv, Reset, MainGoes, SinceReset, StoreInv, PrintInv, LogInv, LogMatchesPrint, Modes, Samples
  <2> QED
    BY <2>1, <2>2, <2>3, <2>4 DEF IInv
<1>8. CASE Measure
  <2>1. TypeOK'
    BY <1>8, Typing DEF IInv, Measure, MainGoes, Modes, TypeOK
  <2>2. SinceReset' /\ StoreInv'
    BY <1>8, <2>1 DEF IInv, Measure, MainGoes, SinceReset, StoreInv, TypeOK
  <2>3. FreshInv' /\ PrintInv'
    BY <1>8, Typing DEF IInv, Measure, MainGoes, SinceReset, FreshInv, PrintInv, Modes
  <2>4. LogInv' /\ LogMatchesPrint'
    BY <1>8, Typing DEF IInv, Measure, MainGoes, SinceReset, StoreInv, PrintInv, LogInv, LogMatchesPrint, Modes, Samples
  <2> QED
    BY <2>1, <2>2, <2>3, <2>4 DEF IInv
<1>9. CASE PrintTotal
  <2>1. TypeOK'
    BY <1>9, Typing DEF IInv, PrintTotal, MainGoes, Modes, TypeOK
  <2>2. SinceReset' /\ StoreInv'
    BY <1>9, <2>1 DEF IInv, PrintTotal, MainGoes, SinceReset, StoreInv, TypeOK
  <2>3. FreshInv' /\ PrintInv'
    BY <1>9, Typing DEF IInv, PrintTotal, MainGoes, SinceReset, FreshInv, PrintInv, Modes
  <2>4. LogInv' /\ LogMatchesPrint'
    BY <1>9, Typing DEF IInv, PrintTotal, MainGoes, SinceReset, StoreInv, PrintInv, LogInv, LogMatchesPrint, Modes, Samples
  <2> QED
    BY <2>1, <2>2, <2>3, <2>4 DEF IInv
<1>10. CASE StopThread
  <2>1. TypeOK'
    BY <1>10, Typing DEF IInv, StopThread, MainGoes, Modes, TypeOK
  <2>2. SinceReset' /\ StoreInv'
    BY <1>10, <2>1 DEF IInv, StopThread, MainGoes, SinceReset, StoreInv, TypeOK
  <2>3. FreshInv' /\ PrintInv'
    BY <1>10, Typing DEF IInv, StopThread, MainGoes, SinceReset, FreshInv, PrintInv, Modes
  <2>4. LogInv' /\ LogMatchesPrint'
    BY <1>10, Typing DEF IInv, StopThread, MainGoes, SinceReset, StoreInv, PrintInv, LogInv, LogMatchesPrint, Modes, Samples
  <2> QED
    BY <2>1, <2>2, <2>3, <2>4 DEF IInv
<1>11. CASE Return
  <2>1. TypeOK'
    BY <1>11, Typing DEF IInv, Return, MainGoes, Modes, TypeOK
  <2>2. SinceReset' /\ StoreInv'
    BY <1>11, <2>1 DEF IInv, Return, MainGoes, SinceReset, StoreInv, TypeOK
  <2>3. FreshInv' /\ PrintInv'
    BY <1>11, Typing DEF IInv, Return, MainGoes, SinceReset, FreshInv, PrintInv, Modes
  <2>4. LogInv' /\ LogMatchesPrint'
    BY <1>11, Typing DEF IInv, Return, MainGoes, SinceReset, StoreInv, PrintInv, LogInv, LogMatchesPrint, Modes, Samples
  <2> QED
    BY <2>1, <2>2, <2>3, <2>4 DEF IInv
<1>12. CASE UNCHANGED vars
  BY <1>12 DEF vars, IInv, TypeOK, SinceReset, StoreInv, FreshInv, PrintInv, LogInv, LogMatchesPrint
<1> QED
  BY <1>1, <1>2, <1>3, <1>4, <1>5, <1>6, <1>7, <1>8, <1>9, <1>10, <1>11, <1>12 DEF Next, Thread, Main

LEMMA IInvCorrect == Spec => []IInv
BY InitIInv, StepIInv, PTL DEF Spec

(* The type invariant; in particular no sample is added that was not taken *)
(* but the undefined one of a machine without a GPU.                       *)
THEOREM TypeCorrect == Spec => []TypeOK
<1>1. IInv => TypeOK
  BY DEF IInv
<1> QED
  BY <1>1, IInvCorrect, PTL

(* gpu_energy_est is what was added since main reset it, or a reset was    *)
(* lost to the race.                                                       *)
THEOREM ResetCorrect == Spec => []SinceReset
<1>1. IInv => SinceReset
  BY DEF IInv
<1> QED
  BY <1>1, IInvCorrect, PTL

(* What -e logs is what it printed and at most the sample that was under   *)
(* way when it told the thread to end.                                     *)
THEOREM LogCorrect == Spec => []LogMatchesPrint
<1>1. IInv => LogMatchesPrint
  BY DEF IInv
<1> QED
  BY <1>1, IInvCorrect, PTL

(* Unless a reset was lost, no sample is printed in two totals.            *)
THEOREM PrintCorrect == Spec => NotTwice
<1>1. IInv /\ [Next]_vars => [PrintTotal => (~device \/ lost \/ est \cap reported = {})]_vars
  BY DEF IInv, PrintTotal, MainGoes, SinceReset, FreshInv
<1> QED
  BY <1>1, IInvCorrect, PTL DEF Spec, NotTwice
==============================================================================
