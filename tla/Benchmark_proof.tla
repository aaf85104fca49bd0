--------------------------- MODULE Benchmark_proof ---------------------------
(***************************************************************************)
(* Theorems about -b and -e, for any tree of languages and algorithms, any *)
(* background processes the programs leave behind, any bound on these, and *)
(* any opens that fail.                                                    *)
(***************************************************************************)
EXTENDS Benchmark, TLAPS

LEMMA InitIInv == Init => IInv
<1> SUFFICES ASSUME Init PROVE IInv
  OBVIOUS
<1>1. TypeOK
  BY DEF Init, TypeOK, NoResult, Home, Command, Program, Garbage, Files, Kind, Ended
<1>2. MisnamedIsRepeated /\ IsolatedRuns /\ CyclesOnlyOfDaemons /\ BytesOfRun
  BY DEF Init, MisnamedIsRepeated, IsolatedRuns, CyclesOnlyOfDaemons, BytesOfRun
<1>3. EntryInv /\ ProgramInv /\ CyclesInv /\ UsageInv
  BY DEF Init, EntryInv, ProgramInv, CyclesInv, UsageInv, Measuring
<1>4. BytesInv
  BY DEF Init, BytesInv, Measuring
<1> QED
  BY <1>1, <1>2, <1>3, <1>4 DEF IInv

(* A new entry of the walk: an algorithm below the language walked.        *)
LEMMA NewEntry ==
  ASSUME entry \in Entry \cup {<<l>> : l \in Langs}, NEW a \in Algs
  PROVE  <<entry[1], a>> \in Entry
BY DEF Entry

LEMMA StepIInv == IInv /\ [Next]_vars => IInv'
<1> SUFFICES ASSUME IInv, [Next]_vars PROVE IInv'
  OBVIOUS
<1> USE DEF modeVars, walkVars, cgroupVars, fdVars, statVars
<1>1. ASSUME NEW p \in Program, DaemonExits(p) PROVE IInv'
  <2>1. TypeOK'
    BY <1>1 DEF IInv, TypeOK, DaemonExits, EntryInv, Measuring, Ended
  <2>2. EntryInv'
    BY <1>1 DEF IInv, TypeOK, DaemonExits, EntryInv, Measuring
  <2>3. MisnamedIsRepeated' /\ ProgramInv'
    BY <1>1 DEF IInv, TypeOK, DaemonExits, MisnamedIsRepeated, ProgramInv, Repeated, GettingIt, EntryInv, Measuring
  <2>4. CyclesOnlyOfDaemons' /\ CyclesInv'
    BY <1>1 DEF IInv, TypeOK, DaemonExits, CyclesOnlyOfDaemons, CyclesInv
  <2>5. IsolatedRuns' /\ UsageInv'
    BY <1>1 DEF IInv, TypeOK, DaemonExits, IsolatedRuns, UsageInv, CyclesInv
  <2>6. BytesOfRun' /\ BytesInv'
    BY <1>1 DEF IInv, TypeOK, DaemonExits, BytesOfRun, BytesInv, UsageInv, EntryInv, Measuring
  <2> QED
    BY <2>1, <2>2, <2>3, <2>4, <2>5, <2>6 DEF IInv
<1>2. CASE OpenBenchDir
  <2>1. TypeOK'
    BY <1>2 DEF IInv, TypeOK, OpenBenchDir, EntryInv, Measuring, Ended
  <2>2. EntryInv'
    BY <1>2 DEF IInv, TypeOK, OpenBenchDir, EntryInv, Measuring
  <2>3. MisnamedIsRepeated' /\ ProgramInv'
    BY <1>2 DEF IInv, TypeOK, OpenBenchDir, MisnamedIsRepeated, ProgramInv, Repeated, GettingIt, EntryInv, Measuring
  <2>4. CyclesOnlyOfDaemons' /\ CyclesInv'
    BY <1>2 DEF IInv, TypeOK, OpenBenchDir, CyclesOnlyOfDaemons, CyclesInv
  <2>5. IsolatedRuns' /\ UsageInv'
    BY <1>2 DEF IInv, TypeOK, OpenBenchDir, IsolatedRuns, UsageInv, CyclesInv
  <2>6. BytesOfRun' /\ BytesInv'
    BY <1>2 DEF IInv, TypeOK, OpenBenchDir, BytesOfRun, BytesInv, UsageInv, EntryInv, Measuring
  <2> QED
    BY <2>1, <2>2, <2>3, <2>4, <2>5, <2>6 DEF IInv
<1>3. ASSUME NEW l \in Langs, NextLang(l) PROVE IInv'
  <2>1. TypeOK'
    BY <1>3 DEF IInv, TypeOK, NextLang, EntryInv, Measuring, Ended
  <2>2. EntryInv'
    BY <1>3 DEF IInv, TypeOK, NextLang, EntryInv, Measuring
  <2>3. MisnamedIsRepeated' /\ ProgramInv'
    BY <1>3 DEF IInv, TypeOK, NextLang, MisnamedIsRepeated, ProgramInv, Repeated, GettingIt, EntryInv, Measuring
  <2>4. CyclesOnlyOfDaemons' /\ CyclesInv'
    BY <1>3 DEF IInv, TypeOK, NextLang, CyclesOnlyOfDaemons, CyclesInv
  <2>5. IsolatedRuns' /\ UsageInv'
    BY <1>3 DEF IInv, TypeOK, NextLang, IsolatedRuns, UsageInv, CyclesInv
  <2>6. BytesOfRun' /\ BytesInv'
    BY <1>3 DEF IInv, TypeOK, NextLang, BytesOfRun, BytesInv, UsageInv, EntryInv, Measuring
  <2> QED
    BY <2>1, <2>2, <2>3, <2>4, <2>5, <2>6 DEF IInv
<1>4. CASE LangsDone
  <2>1. TypeOK'
    BY <1>4 DEF IInv, TypeOK, LangsDone, EntryInv, Measuring, Ended
  <2>2. EntryInv'
    BY <1>4 DEF IInv, TypeOK, LangsDone, EntryInv, Measuring
  <2>3. MisnamedIsRepeated' /\ ProgramInv'
    BY <1>4 DEF IInv, TypeOK, LangsDone, MisnamedIsRepeated, ProgramInv, Repeated, GettingIt, EntryInv, Measuring
  <2>4. CyclesOnlyOfDaemons' /\ CyclesInv'
    BY <1>4 DEF IInv, TypeOK, LangsDone, CyclesOnlyOfDaemons, CyclesInv
  <2>5. IsolatedRuns' /\ UsageInv'
    BY <1>4 DEF IInv, TypeOK, LangsDone, IsolatedRuns, UsageInv, CyclesInv
  <2>6. BytesOfRun' /\ BytesInv'
    BY <1>4 DEF IInv, TypeOK, LangsDone, BytesOfRun, BytesInv, UsageInv, EntryInv, Measuring
  <2> QED
    BY <2>1, <2>2, <2>3, <2>4, <2>5, <2>6 DEF IInv
<1>5. ASSUME NEW a \in Algs, NextAlg(a) PROVE IInv'
  <2>a. entry' \in Entry /\ mode = "benchmark"
    BY <1>5, NewEntry DEF IInv, TypeOK, NextAlg, EntryInv
  <2>1. TypeOK'
    <3>1. cwd' \in Entry \cup {Home} /\ runFile' \in Kind \ {"file"} /\ tidy' \in BOOLEAN
      BY <1>5, <2>a DEF IInv, TypeOK, NextAlg, Chdir, Resolves, Kind
    <3>2. program' \in Program
      <4>1. runFile = "command" => cwd \in Program
        BY <1>5, <2>a DEF IInv, TypeOK, ProgramInv, Repeated, GettingIt, Measuring, NextAlg
      <4>2. runFile' = "command" => cwd' \in Program
        BY <1>5, <2>a, <4>1 DEF NextAlg, Chdir, Program
      <4>3. Garbage \in Program
        BY DEF Program
      <4> QED
        BY <1>5, <4>2, <4>3 DEF IInv, TypeOK, NextAlg
    <3>3. pc' \in {"aborted", "reset"} /\ algs' \subseteq Algs
      BY <1>5 DEF IInv, TypeOK, NextAlg
    <3> QED
      BY <1>5, <2>a, <3>1, <3>2, <3>3 DEF IInv, TypeOK, NextAlg, Ended
  <2>2. EntryInv'
    BY <1>5, <2>a DEF NextAlg, EntryInv, Measuring
  <2>3. MisnamedIsRepeated' /\ ProgramInv'
    BY <1>5 DEF IInv, TypeOK, NextAlg, Chdir, Kind, MisnamedIsRepeated, ProgramInv, Repeated, GettingIt, EntryInv, Measuring
  <2>4. CyclesOnlyOfDaemons' /\ CyclesInv'
    BY <1>5 DEF IInv, TypeOK, NextAlg, Chdir, Kind, CyclesOnlyOfDaemons, CyclesInv
  <2>5. IsolatedRuns' /\ UsageInv'
    BY <1>5 DEF IInv, TypeOK, NextAlg, Chdir, Kind, IsolatedRuns, UsageInv, CyclesInv
  <2>6. BytesOfRun' /\ BytesInv'
    BY <1>5 DEF IInv, TypeOK, NextAlg, Chdir, Kind, BytesOfRun, BytesInv, UsageInv, EntryInv, Measuring
  <2> QED
    BY <2>1, <2>2, <2>3, <2>4, <2>5, <2>6 DEF IInv
<1>6. CASE AlgsDone
  <2>1. TypeOK'
    BY <1>6 DEF IInv, TypeOK, AlgsDone, EntryInv, Measuring, Ended
  <2>2. EntryInv'
    BY <1>6 DEF IInv, TypeOK, AlgsDone, EntryInv, Measuring
  <2>3. MisnamedIsRepeated' /\ ProgramInv'
    BY <1>6 DEF IInv, TypeOK, AlgsDone, MisnamedIsRepeated, ProgramInv, Repeated, GettingIt, EntryInv, Measuring
  <2>4. CyclesOnlyOfDaemons' /\ CyclesInv'
    BY <1>6 DEF IInv, TypeOK, AlgsDone, CyclesOnlyOfDaemons, CyclesInv
  <2>5. IsolatedRuns' /\ UsageInv'
    BY <1>6 DEF IInv, TypeOK, AlgsDone, IsolatedRuns, UsageInv, CyclesInv
  <2>6. BytesOfRun' /\ BytesInv'
    BY <1>6 DEF IInv, TypeOK, AlgsDone, BytesOfRun, BytesInv, UsageInv, EntryInv, Measuring
  <2> QED
    BY <2>1, <2>2, <2>3, <2>4, <2>5, <2>6 DEF IInv
<1>7. CASE ResetCgroup
  <2>1. TypeOK'
    BY <1>7 DEF IInv, TypeOK, ResetCgroup, UsageAtReset, CountedAtReset, EntryInv, Measuring, Ended
  <2>2. EntryInv'
    BY <1>7 DEF IInv, TypeOK, ResetCgroup, UsageAtReset, CountedAtReset, EntryInv, Measuring
  <2>3. MisnamedIsRepeated' /\ ProgramInv'
    BY <1>7 DEF IInv, TypeOK, ResetCgroup, UsageAtReset, CountedAtReset, MisnamedIsRepeated, ProgramInv, Repeated, GettingIt, EntryInv, Measuring
  <2>4. CyclesOnlyOfDaemons' /\ CyclesInv'
    BY <1>7 DEF IInv, TypeOK, ResetCgroup, UsageAtReset, CountedAtReset, CyclesOnlyOfDaemons, CyclesInv
  <2>5. IsolatedRuns' /\ UsageInv'
    <3>1. pc' = "start" /\ daemons' = daemons
      BY <1>7 DEF ResetCgroup
    <3>2. cells' # {}
      <4>1. CASE exists'
        BY <1>7, <4>1 DEF ResetCgroup
      <4>2. CASE ~exists'
        BY <1>7, <4>2 DEF ResetCgroup
      <4> QED
        BY <4>1, <4>2
    <3>3. daemons = {} => usage' = {} /\ counted' = {}
      BY <1>7 DEF IInv, CyclesInv, ResetCgroup, UsageAtReset, CountedAtReset
    <3> QED
      BY <3>1, <3>2, <3>3 DEF IsolatedRuns, UsageInv
  <2>6. BytesOfRun' /\ BytesInv'
    BY <1>7 DEF IInv, TypeOK, ResetCgroup, UsageAtReset, CountedAtReset, BytesOfRun, BytesInv, UsageInv, EntryInv, Measuring
  <2> QED
    BY <2>1, <2>2, <2>3, <2>4, <2>5, <2>6 DEF IInv
<1>8. CASE StartProgram
  <2>1. TypeOK'
    BY <1>8 DEF IInv, TypeOK, StartProgram, EntryInv, Measuring, Ended
  <2>2. EntryInv'
    BY <1>8 DEF IInv, TypeOK, StartProgram, EntryInv, Measuring
  <2>3. MisnamedIsRepeated' /\ ProgramInv'
    BY <1>8 DEF IInv, TypeOK, StartProgram, MisnamedIsRepeated, ProgramInv, Repeated, GettingIt, EntryInv, Measuring
  <2>4. CyclesOnlyOfDaemons' /\ CyclesInv'
    BY <1>8 DEF IInv, TypeOK, StartProgram, CyclesOnlyOfDaemons, CyclesInv
  <2>5. IsolatedRuns' /\ UsageInv'
    BY <1>8 DEF IInv, TypeOK, StartProgram, IsolatedRuns, UsageInv, CyclesInv
  <2>6. BytesOfRun' /\ BytesInv'
    BY <1>8 DEF IInv, TypeOK, StartProgram, BytesOfRun, BytesInv, UsageInv, EntryInv, Measuring
  <2> QED
    BY <2>1, <2>2, <2>3, <2>4, <2>5, <2>6 DEF IInv
<1>9. CASE ProgramEnds
  <2>1. TypeOK'
    BY <1>9 DEF IInv, TypeOK, ProgramEnds, EntryInv, Measuring, Ended
  <2>2. EntryInv'
    BY <1>9 DEF IInv, TypeOK, ProgramEnds, EntryInv, Measuring
  <2>3. MisnamedIsRepeated' /\ ProgramInv'
    BY <1>9 DEF IInv, TypeOK, ProgramEnds, MisnamedIsRepeated, ProgramInv, Repeated, GettingIt, EntryInv, Measuring
  <2>4. CyclesOnlyOfDaemons' /\ CyclesInv'
    BY <1>9 DEF IInv, TypeOK, ProgramEnds, CyclesOnlyOfDaemons, CyclesInv
  <2>5. IsolatedRuns' /\ UsageInv'
    BY <1>9 DEF IInv, TypeOK, ProgramEnds, IsolatedRuns, UsageInv, CyclesInv
  <2>6. BytesOfRun' /\ BytesInv'
    BY <1>9 DEF IInv, TypeOK, ProgramEnds, BytesOfRun, BytesInv, UsageInv, EntryInv, Measuring
  <2> QED
    BY <2>1, <2>2, <2>3, <2>4, <2>5, <2>6 DEF IInv
<1>10. CASE ReadCgroupStats
  <2>a. PICK files \in Files :
          /\ files # "none" => exists
          /\ result' = [files |-> files, failed |-> "failed" \in cells,
                        usage |-> IF files = "none" THEN {} ELSE usage,
                        cycles |-> counted \cup {Uninitialised : f \in cells \ {"event"}}]
          /\ bytes' \in BytesRead(files)
    BY <1>10 DEF ReadCgroupStats, Files
  <2>b. /\ result'.files = files /\ result'.failed = ("failed" \in cells)
        /\ result'.usage = IF files = "none" THEN {} ELSE usage
        /\ result'.cycles = counted \cup {Uninitialised : f \in cells \ {"event"}}
    BY <2>a
  <2>c. result'.cycles = counted \cup {u \in {Uninitialised} : result'.failed}
    <3>1. cells \ {"event"} = {f \in {"failed"} : result'.failed}
      BY <2>b DEF IInv, TypeOK
    <3> QED
      BY <2>b, <3>1
  <2>1. TypeOK'
    BY <1>10 DEF IInv, TypeOK, ReadCgroupStats, Files, BytesRead, EntryInv, Measuring, Ended
  <2>2. EntryInv'
    BY <1>10 DEF IInv, TypeOK, ReadCgroupStats, Files, BytesRead, EntryInv, Measuring
  <2>3. MisnamedIsRepeated' /\ ProgramInv'
    BY <1>10 DEF IInv, TypeOK, ReadCgroupStats, Files, BytesRead, MisnamedIsRepeated, ProgramInv, Repeated, GettingIt, EntryInv, Measuring
  <2>4. CyclesOnlyOfDaemons' /\ CyclesInv'
    BY <1>10, <2>b, <2>c DEF IInv, ReadCgroupStats, CyclesOnlyOfDaemons, CyclesInv
  <2>5. IsolatedRuns' /\ UsageInv'
    <3>1. pc' = "log" /\ pc = "read" /\ daemons' = daemons /\ program' = program
      BY <1>10 DEF ReadCgroupStats
    <3>2. daemons = {} => /\ exists => usage = {program}
                          /\ "event" \in cells => counted = {program}
                          /\ cells # {} /\ counted \subseteq {program}
      BY <3>1 DEF IInv, UsageInv, CyclesInv
    <3>3. "failed" \notin cells /\ cells # {} => "event" \in cells
      BY DEF IInv, TypeOK
    <3> QED
      BY <2>a, <2>b, <2>c, <3>1, <3>2, <3>3 DEF IsolatedRuns, UsageInv
  <2>6. BytesOfRun' /\ BytesInv'
    BY <1>10 DEF IInv, TypeOK, ReadCgroupStats, Files, BytesRead, BytesOfRun, BytesInv, UsageInv, EntryInv, Measuring
  <2> QED
    BY <2>1, <2>2, <2>3, <2>4, <2>5, <2>6 DEF IInv
<1>11. CASE WriteRecord
  <2> DEFINE record == [label |-> entry, program |-> program]
  <2>a. log' = log \/ log' = log \cup {record}
    BY <1>11 DEF WriteRecord, Label
  <2>b. /\ record.label = entry /\ record.program = program
        /\ pc' # "crashed" => log' = log \cup {record}
    BY <1>11 DEF WriteRecord, Label
  <2> HIDE DEF record
  <2>c. /\ \A q : Repeated(q) => Repeated(q)'
        /\ log' = log \cup {record} /\ program = entry => Repeated(entry)'
    BY <1>11, <2>a, <2>b DEF Repeated, WriteRecord
  <2>1. TypeOK'
    BY <1>11 DEF IInv, TypeOK, WriteRecord, Label, NoResult, Files, EntryInv, Measuring, Ended
  <2>2. EntryInv'
    BY <1>11 DEF IInv, TypeOK, WriteRecord, Label, NoResult, Files, EntryInv, Measuring
  <2>3. MisnamedIsRepeated' /\ ProgramInv'
    <3>1. MisnamedIsRepeated'
      <4> SUFFICES ASSUME NEW r \in log'
                   PROVE  r.program \in {r.label, Garbage} \/ Repeated(r.program)'
        BY DEF MisnamedIsRepeated, Repeated
      <4>1. CASE r \in log
        BY <2>a, <4>1 DEF IInv, MisnamedIsRepeated, Repeated
      <4>2. CASE r = record /\ log' = log \cup {record}
        BY <1>11, <2>a, <2>b, <2>c, <4>2 DEF IInv, TypeOK, EntryInv, ProgramInv, GettingIt, WriteRecord
      <4> QED
        BY <2>a, <4>1, <4>2
    <3>2. pc' # "crashed" /\ mode = "benchmark" => ProgramInv'
      BY <1>11, <2>a, <2>b, <2>c DEF IInv, ProgramInv, GettingIt, WriteRecord
    <3> QED
      BY <1>11, <3>1, <3>2 DEF ProgramInv, WriteRecord
  <2>4. CyclesOnlyOfDaemons' /\ CyclesInv'
    BY <1>11 DEF IInv, TypeOK, WriteRecord, Label, NoResult, Files, CyclesOnlyOfDaemons, CyclesInv
  <2>5. IsolatedRuns' /\ UsageInv'
    BY <1>11 DEF IInv, TypeOK, WriteRecord, Label, NoResult, Files, IsolatedRuns, UsageInv, CyclesInv
  <2>6. BytesOfRun' /\ BytesInv'
    <3>1. pc = "log" /\ pc' \in {"alg", "close", "crashed"}
          /\ UNCHANGED <<mode, bytes, daemons>> /\ (mode = "execute" => pc' # "alg")
      BY <1>11 DEF WriteRecord
    <3>2. pc' # "crashed" /\ mode = "benchmark" /\ daemons = {} =>
            bytes \in {{Uninitialised}} \cup {{r.program} : r \in log'}
      BY <2>b, <3>1 DEF IInv, BytesOfRun
    <3> QED
      BY <3>1, <3>2 DEF IInv, TypeOK, BytesOfRun, BytesInv, Measuring
  <2> QED
    BY <2>1, <2>2, <2>3, <2>4, <2>5, <2>6 DEF IInv
<1>12. CASE CloseCgroup
  <2>1. TypeOK'
    BY <1>12 DEF IInv, TypeOK, CloseCgroup, EntryInv, Measuring, Ended
  <2>2. EntryInv'
    BY <1>12 DEF IInv, TypeOK, CloseCgroup, EntryInv, Measuring
  <2>3. MisnamedIsRepeated' /\ ProgramInv'
    BY <1>12 DEF IInv, TypeOK, CloseCgroup, MisnamedIsRepeated, ProgramInv, Repeated, GettingIt, EntryInv, Measuring
  <2>4. CyclesOnlyOfDaemons' /\ CyclesInv'
    BY <1>12 DEF IInv, TypeOK, CloseCgroup, CyclesOnlyOfDaemons, CyclesInv
  <2>5. IsolatedRuns' /\ UsageInv'
    BY <1>12 DEF IInv, TypeOK, CloseCgroup, IsolatedRuns, UsageInv, CyclesInv
  <2>6. BytesOfRun' /\ BytesInv'
    BY <1>12 DEF IInv, TypeOK, CloseCgroup, BytesOfRun, BytesInv, UsageInv, EntryInv, Measuring
  <2> QED
    BY <2>1, <2>2, <2>3, <2>4, <2>5, <2>6 DEF IInv
<1>13. CASE UNCHANGED vars
  <2>1. TypeOK' /\ EntryInv' /\ ProgramInv' /\ MisnamedIsRepeated'
    BY <1>13 DEF vars, IInv, TypeOK, EntryInv, ProgramInv, MisnamedIsRepeated, Repeated,
                 GettingIt, Ended
  <2>2. CyclesOnlyOfDaemons' /\ CyclesInv'
    BY <1>13 DEF vars, IInv, CyclesOnlyOfDaemons, CyclesInv
  <2>3. IsolatedRuns' /\ UsageInv' /\ BytesOfRun' /\ BytesInv'
    BY <1>13 DEF vars, IInv, IsolatedRuns, UsageInv, BytesOfRun, BytesInv
  <2> QED
    BY <2>1, <2>2, <2>3 DEF IInv
<1> QED
  BY <1>1, <1>2, <1>3, <1>4, <1>5, <1>6, <1>7, <1>8, <1>9, <1>10, <1>11, <1>12, <1>13 DEF Next, Tool

LEMMA IInvCorrect == Spec => []IInv
BY InitIInv, StepIInv, PTL DEF Spec

(* The type invariant: one language is walked at a time, and run.txt is    *)
(* never looked for in a stray file.                                       *)
THEOREM TypeCorrect == Spec => []TypeOK
<1>1. IInv => TypeOK
  BY DEF IInv
<1> QED
  BY <1>1, IInvCorrect, PTL

(* Whatever chdir and the run.txt files do, a record is of the program it  *)
(* is named after, of one that has its own record already, or of garbage.  *)
THEOREM MisnamedCorrect == Spec => []MisnamedIsRepeated
<1>1. IInv => MisnamedIsRepeated
  BY DEF IInv
<1> QED
  BY <1>1, IInvCorrect, PTL

(* As long as nothing is left behind by a program, every record is of its  *)
(* own run alone, and no cgroup is left by the tool, in any tree and with  *)
(* any opens failing.                                                      *)
THEOREM RunsCorrect == Spec => []IsolatedRuns
<1>1. IInv => IsolatedRuns
  BY DEF IInv
<1> QED
  BY <1>1, IInvCorrect, PTL

(* Whatever is left behind, the cycles of a record are those of its        *)
(* program and of background processes.                                    *)
THEOREM CyclesCorrect == Spec => []CyclesOnlyOfDaemons
<1>1. IInv => CyclesOnlyOfDaemons
  BY DEF IInv
<1> QED
  BY <1>1, IInvCorrect, PTL

(* The disk bytes of a record without io.stat are zeros in -e, and in -b   *)
(* those of a program that has a record, or nobody's.                      *)
THEOREM BytesCorrect == Spec => []BytesOfRun
<1>1. IInv => BytesOfRun
  BY DEF IInv
<1> QED
  BY <1>1, IInvCorrect, PTL

-----------------------------------------------------------------------------
(* What the walk has measured, is measuring and has ahead of it.           *)

LEMMA InitMeasured == Init => MeasuredInv
<1> SUFFICES ASSUME Init PROVE MeasuredInv
  OBVIOUS
<1>1. Labels = {}
  BY DEF Init, Labels
<1>2. mode = "benchmark" => Now = {} /\ Ahead = Entry /\ ~InLang
  BY DEF Init, Now, Ahead, InLang, Measuring, Entry
<1>3. WalkInv
  BY <1>1, <1>2 DEF Init, WalkInv
<1>4. FdInv
  BY <1>2 DEF Init, FdInv
<1>5. CommandInv /\ AllMeasured
  BY <1>1 DEF Init, CommandInv, AllMeasured
<1> QED
  BY <1>3, <1>4, <1>5 DEF MeasuredInv

(* A step within a measurement, or of a background process.                *)
LEMMA MeasuredFrame ==
  ASSUME MeasuredInv, UNCHANGED <<mode, langs, algs, entry, tidy, log>>,
         broken' = {} => broken = {},
         \/ pc' = pc /\ failing' = failing
         \/ pc \in Measuring \cup {"reset"} /\ pc' \in Measuring \cup {"reset"}
  PROVE  WalkInv' /\ CommandInv' /\ AllMeasured'
<1>1. Labels' = Labels
  BY DEF Labels
<1>2. Now' = Now /\ (InLang' <=> InLang)
  BY DEF Now, InLang
<1>3. Ahead' = Ahead
  BY <1>2 DEF Ahead
<1>4. /\ pc' \in {"aborted", "crashed"} => pc \in {"aborted", "crashed"}
      /\ pc' \in {"close", "done"} <=> pc \in {"close", "done"}
      /\ pc' = "done" => pc = "done" /\ failing' = failing
      /\ pc \in {"aborted", "crashed"} => pc' \in {"aborted", "crashed"}
  BY DEF Measuring
<1>5. WalkInv' /\ CommandInv'
  BY <1>1, <1>2, <1>3, <1>4 DEF MeasuredInv, WalkInv, CommandInv
<1>6. AllMeasured'
  BY <1>1, <1>4 DEF MeasuredInv, AllMeasured, Labels
<1> QED
  BY <1>5, <1>6

LEMMA StepMeasured == IInv /\ MeasuredInv /\ [Next]_vars => MeasuredInv'
<1> SUFFICES ASSUME IInv, MeasuredInv, [Next]_vars PROVE MeasuredInv'
  OBVIOUS
<1> USE DEF modeVars, walkVars, cgroupVars, fdVars, statVars
<1>1. CASE \/ UNCHANGED vars \/ \E p \in Program : DaemonExits(p)
           \/ ResetCgroup \/ StartProgram \/ ProgramEnds
  <2>1. /\ UNCHANGED <<mode, langs, algs, entry, tidy, log, one, broken, failing>>
        /\ \/ pc' = pc
           \/ pc \in Measuring \cup {"reset"} /\ pc' \in Measuring \cup {"reset"}
    BY <1>1 DEF vars, DaemonExits, ResetCgroup, StartProgram, ProgramEnds, Measuring
  <2>2. FdInv'
    BY <2>1 DEF MeasuredInv, FdInv, InLang, Measuring
  <2> QED
    BY <2>1, <2>2, MeasuredFrame DEF MeasuredInv
<1>2. CASE ReadCgroupStats
  <2>1. /\ UNCHANGED <<mode, langs, algs, entry, tidy, log>> /\ pc = "read" /\ pc' = "log"
        /\ \/ UNCHANGED <<one, failing, broken>>
           \/ /\ one' = "free" /\ failing' = failing \cup {entry[1]}
              /\ broken' = IF one = "directory" THEN broken \cup {entry[1]} ELSE broken
    BY <1>2 DEF ReadCgroupStats
  <2>2. InLang /\ InLang'
    BY <2>1 DEF InLang, Measuring
  <2>3. FdInv'
    BY <2>1, <2>2 DEF MeasuredInv, FdInv
  <2>4. WalkInv' /\ CommandInv' /\ AllMeasured'
    BY <2>1, MeasuredFrame DEF Measuring
  <2> QED
    BY <2>3, <2>4 DEF MeasuredInv
<1>3. CASE OpenBenchDir \/ LangsDone \/ AlgsDone \/ CloseCgroup
  <2>1. /\ UNCHANGED <<mode, langs, algs, entry, tidy, log, broken, failing>>
        /\ Now' = {} /\ Now = {} /\ ~InLang' /\ pc \notin {"aborted", "crashed", "done"}
        /\ one' = one \/ (one' = "free" /\ one = "directory")
        /\ one = "directory" /\ InLang => one' = "free"
    BY <1>3 DEF OpenBenchDir, LangsDone, AlgsDone, CloseCgroup, Now, InLang, Measuring
  <2>2. Labels' = Labels
    BY <2>1 DEF Labels
  <2>3. Ahead' \subseteq Ahead /\ (broken = {} => Ahead' = Ahead)
    BY <1>3, <2>1 DEF OpenBenchDir, LangsDone, AlgsDone, CloseCgroup, Ahead, InLang, Measuring
  <2>4. pc' \in {"close", "done"} => pc = "close" \/ (langs' = {} /\ pc = "lang")
    BY <1>3, <2>1 DEF OpenBenchDir, LangsDone, AlgsDone, CloseCgroup
  <2>5. WalkInv'
    BY <2>1, <2>2, <2>3, <2>4 DEF MeasuredInv, WalkInv
  <2>6. FdInv'
    BY <2>1 DEF MeasuredInv, FdInv
  <2>7. CommandInv'
    BY <1>3, <2>1, <2>2 DEF OpenBenchDir, LangsDone, AlgsDone, CloseCgroup, IInv,
                            EntryInv, MeasuredInv, CommandInv
  <2>8. AllMeasured'
    <3>1. ASSUME mode = "benchmark", pc' = "done", tidy, \A l, m \in failing : l = m
          PROVE  Labels = Entry
      <4>1. pc = "close" /\ langs = {} /\ ~InLang
        BY <1>3, <3>1 DEF OpenBenchDir, LangsDone, AlgsDone, CloseCgroup, MeasuredInv,
                          WalkInv, InLang, Measuring
      <4>2. Ahead = {} /\ broken = {}
        BY <3>1, <4>1 DEF Ahead, MeasuredInv, FdInv
      <4> QED
        BY <2>1, <3>1, <4>1, <4>2 DEF MeasuredInv, WalkInv
    <3>2. pc' = "done" /\ mode = "execute" => Labels = {Command}
      BY <2>1, <2>2, <2>7 DEF CommandInv
    <3>3. mode \in {"benchmark", "execute"}
      BY DEF IInv, TypeOK
    <3> QED
      BY <2>1, <2>2, <3>1, <3>2, <3>3 DEF MeasuredInv, AllMeasured, Labels
  <2> QED
    BY <2>5, <2>6, <2>7, <2>8 DEF MeasuredInv
<1>4. ASSUME NEW l \in Langs, NextLang(l) PROVE MeasuredInv'
  <2>1. /\ UNCHANGED <<mode, log, broken, failing>> /\ mode = "benchmark" /\ pc = "lang"
        /\ pc' \in {"lang", "alg"} /\ l \in langs /\ langs' = langs \ {l}
    BY <1>4 DEF NextLang, IInv, TypeOK, EntryInv
  <2>2. Labels' = Labels /\ Now = {} /\ Now' = {} /\ ~InLang
    BY <2>1 DEF Labels, Now, InLang, Measuring
  <2>3. CASE pc' = "alg"
    <3>1. algs' = Algs /\ entry' = <<l>> /\ tidy' = tidy /\ InLang'
          /\ one' = IF one = "free" THEN "directory" ELSE one
      BY <1>4, <2>1, <2>3 DEF NextLang, InLang
    <3>2. Ahead' = Ahead
      BY <2>1, <2>2, <3>1 DEF Ahead, Entry
    <3>3. WalkInv'
      BY <2>1, <2>2, <3>1, <3>2 DEF MeasuredInv, WalkInv
    <3>4. FdInv'
      BY <2>1, <2>2, <3>1 DEF MeasuredInv, FdInv
    <3> QED
      BY <2>1, <2>2, <3>3, <3>4 DEF MeasuredInv, CommandInv, AllMeasured
  <2>4. CASE pc' = "lang"
    <3>1. tidy' = FALSE /\ UNCHANGED <<algs, entry, one>> /\ ~InLang'
      BY <1>4, <2>1, <2>4 DEF NextLang, InLang, Measuring
    <3>2. Ahead' \subseteq Ahead
      BY <2>1, <2>2, <3>1 DEF Ahead
    <3>3. WalkInv'
      BY <2>1, <2>2, <2>4, <3>1, <3>2 DEF MeasuredInv, WalkInv
    <3>4. FdInv'
      BY <2>1, <2>2, <3>1 DEF MeasuredInv, FdInv
    <3> QED
      BY <2>1, <2>2, <3>3, <3>4 DEF MeasuredInv, CommandInv, AllMeasured
  <2> QED
    BY <2>1, <2>3, <2>4
<1>5. ASSUME NEW a \in Algs, NextAlg(a) PROVE MeasuredInv'
  <2>1. /\ UNCHANGED <<mode, langs, log, one, broken, failing>>
        /\ mode = "benchmark" /\ pc = "alg"
        /\ pc' \in {"aborted", "reset"} /\ a \in algs /\ algs' = algs \ {a}
        /\ entry' = <<entry[1], a>> /\ (tidy' => tidy)
    BY <1>5 DEF NextAlg, IInv, TypeOK, EntryInv
  <2>2. Labels' = Labels /\ Now = {} /\ InLang
    BY <2>1 DEF Labels, Now, InLang, Measuring
  <2>3. entry' \in Entry /\ entry'[1] = entry[1] /\ entry'[2] = a
    BY <2>1, NewEntry DEF IInv, EntryInv
  <2>4. pc' = "reset" => WalkInv' /\ FdInv'
    <3> SUFFICES ASSUME pc' = "reset" PROVE WalkInv' /\ FdInv'
      OBVIOUS
    <3>1. InLang' /\ Now' = {entry'}
      BY DEF InLang, Now
    <3>2. \A e \in Entry : e[1] = entry[1] /\ e[2] = a => e = entry'
      BY <2>1 DEF Entry
    <3>3. entry[1] \notin langs
      BY <2>1, <2>2 DEF MeasuredInv, FdInv
    <3>4. entry' \in Ahead /\ Ahead' = Ahead \ {entry'}
      BY <2>1, <2>2, <2>3, <3>1, <3>2, <3>3 DEF Ahead
    <3>5. WalkInv'
      BY <2>1, <2>2, <2>3, <3>1, <3>4 DEF MeasuredInv, WalkInv
    <3>6. FdInv'
      BY <2>1, <2>2, <2>3, <3>1 DEF MeasuredInv, FdInv
    <3> QED
      BY <3>5, <3>6
  <2>5. WalkInv' /\ FdInv'
    BY <2>1, <2>4 DEF WalkInv, FdInv
  <2>6. CommandInv' /\ AllMeasured'
    BY <2>1, <2>2 DEF MeasuredInv, CommandInv, AllMeasured
  <2> QED
    BY <2>5, <2>6 DEF MeasuredInv
<1>6. CASE WriteRecord
  <2> DEFINE record == [label |-> entry, program |-> program]
  <2>1. /\ UNCHANGED <<mode, langs, algs, entry, tidy, one, broken, failing>> /\ pc = "log"
        /\ \/ /\ log' = log \cup {record}
              /\ pc' = IF mode = "benchmark" THEN "alg" ELSE "close"
           \/ pc' = "crashed" /\ log' = log
    BY <1>6 DEF WriteRecord, Label
  <2>2. Now = {entry} /\ InLang /\ Now' = {}
    BY <2>1 DEF Now, InLang, Measuring
  <2>3. log' = log \cup {record} => Labels' = Labels \cup {entry}
    <3>1. record.label = entry
      OBVIOUS
    <3> HIDE DEF record
    <3> QED
      BY <3>1 DEF Labels
  <2>4. mode = "benchmark" /\ pc' = "alg" => Ahead' = Ahead /\ InLang'
    BY <2>1, <2>2 DEF Ahead, InLang
  <2>5. entry \notin Labels
    <3>1. CASE mode = "benchmark"
      BY <2>1, <2>2, <3>1 DEF MeasuredInv, WalkInv
    <3>2. CASE mode = "execute"
      BY <2>1, <3>2 DEF MeasuredInv, CommandInv
    <3> QED
      BY <3>1, <3>2 DEF IInv, TypeOK
  <2>6. WalkInv' /\ FdInv'
    <3>1. pc' \in {"alg", "close"} => Labels' = Labels \cup {entry}
      BY <2>1, <2>3
    <3>2. mode = "benchmark" =>
            /\ pc' \in {"alg", "crashed"}
            /\ entry \notin Ahead /\ Labels \cap Ahead = {}
            /\ broken = {} /\ tidy => Labels \cup {entry} \cup Ahead = Entry
      BY <2>1, <2>2 DEF MeasuredInv, WalkInv
    <3>3. WalkInv'
      BY <2>1, <2>2, <2>4, <3>1, <3>2 DEF WalkInv
    <3>4. FdInv'
      BY <2>1, <2>2, <2>4, <3>2 DEF MeasuredInv, FdInv
    <3> QED
      BY <3>3, <3>4
  <2>7. CommandInv'
    <3> SUFFICES ASSUME mode = "execute"
                 PROVE  Labels' = IF pc' = "close" THEN {Command} ELSE {}
      BY <2>1 DEF CommandInv
    <3>1. entry = Command /\ Labels = {}
      BY <2>1 DEF IInv, EntryInv, MeasuredInv, CommandInv
    <3>2. log' = log => Labels' = Labels
      BY DEF Labels
    <3> QED
      BY <2>1, <2>3, <3>1, <3>2
  <2>8. AllMeasured'
    <3>1. pc' # "done"
      BY <2>1
    <3>2. \A r \in log : r.label \in Labels
      BY DEF Labels
    <3>3. log' = log \/ log' = log \cup {record}
      BY <2>1
    <3>4. record.label = entry
      OBVIOUS
    <3> HIDE DEF record
    <3> QED
      BY <2>5, <3>1, <3>2, <3>3, <3>4 DEF MeasuredInv, AllMeasured
  <2> QED
    BY <2>6, <2>7, <2>8 DEF MeasuredInv
<1> QED
  BY <1>1, <1>2, <1>3, <1>4, <1>5, <1>6 DEF Next, Tool

(* -b never writes two records for one program; it writes one for each if  *)
(* all names are directories of algorithms with a command, whatever fails  *)
(* in one language; and -e writes its one.                                 *)
THEOREM MeasuredCorrect == Spec => []AllMeasured
<1>1. Init => MeasuredInv
  BY InitMeasured
<1>2. IInv /\ MeasuredInv /\ [Next]_vars => MeasuredInv'
  BY StepMeasured
<1>3. MeasuredInv => AllMeasured
  BY DEF MeasuredInv
<1> QED
  BY <1>1, <1>2, <1>3, IInvCorrect, PTL DEF Spec

-----------------------------------------------------------------------------
(* The order of the steps between one name of the walk and the next.       *)
Rank == [p \in {"opendir", "reset", "start", "running", "read", "log", "alg", "lang", "close",
                "done", "aborted", "crashed"} |->
           CASE p \in {"opendir", "reset"} -> 0 [] p = "start" -> 1 [] p = "running" -> 2
             [] p = "read" -> 3 [] p = "log" -> 4 [] p = "alg" -> 5 [] p = "lang" -> 6
             [] p = "close" -> 7 [] OTHER -> 8]

Shrinks(new, old) == new \subseteq old /\ new # old

(* What lies ahead: languages first, then algorithms, then steps.          *)
Nearer ==
  \/ Shrinks(langs', langs)
  \/ langs' = langs /\ Shrinks(algs', algs)
  \/ langs' = langs /\ algs' = algs /\ Rank[pc'] > Rank[pc]

(* Why the walk of -b ends on every finite tree: a step of the tool brings *)
(* it nearer to its end, and none of a background process sets it back.    *)
THEOREM WalkAdvances ==
  Spec => [][IF UNCHANGED <<pc, langs, algs>> THEN ~Tool ELSE Nearer]_vars
<1>1. IInv /\ [Next]_vars => [IF UNCHANGED <<pc, langs, algs>> THEN ~Tool ELSE Nearer]_vars
  <2> SUFFICES ASSUME IInv, Next
               PROVE  IF UNCHANGED <<pc, langs, algs>> THEN ~Tool ELSE Nearer
    OBVIOUS
  <2> USE DEF modeVars, walkVars, cgroupVars, fdVars, statVars
  <2>1. ASSUME Tool PROVE Nearer
    <3>1. ASSUME NEW l \in Langs, NextLang(l) PROVE Shrinks(langs', langs)
      BY <3>1 DEF NextLang, Shrinks
    <3>2. ASSUME NEW a \in Algs, NextAlg(a) PROVE langs' = langs /\ Shrinks(algs', algs)
      BY <3>2 DEF NextAlg, Shrinks
    <3>3. CASE OpenBenchDir
      BY <3>3 DEF OpenBenchDir, Nearer, Rank
    <3>4. CASE LangsDone \/ AlgsDone
      BY <3>4 DEF LangsDone, AlgsDone, Nearer, Rank
    <3>5. CASE ResetCgroup \/ StartProgram \/ ProgramEnds \/ ReadCgroupStats
      BY <3>5 DEF ResetCgroup, StartProgram, ProgramEnds, ReadCgroupStats, Nearer, Rank
    <3>6. CASE WriteRecord
      BY <3>6 DEF WriteRecord, Nearer, Rank
    <3>7. CASE CloseCgroup
      BY <3>7 DEF CloseCgroup, Nearer, Rank
    <3> QED
      BY <2>1, <3>1, <3>2, <3>3, <3>4, <3>5, <3>6, <3>7 DEF Tool, Nearer
  <2>2. ASSUME Nearer PROVE ~UNCHANGED <<pc, langs, algs>>
    <3>1. Rank[pc] \in Nat
      BY DEF IInv, TypeOK, Ended, Rank
    <3> QED
      BY <2>2, <3>1 DEF Nearer, Shrinks
  <2>3. ASSUME NEW p \in Program, DaemonExits(p) PROVE UNCHANGED <<pc, langs, algs>>
    BY <2>3 DEF DaemonExits
  <2> QED
    BY <2>1, <2>2, <2>3 DEF Next
<1> QED
  BY <1>1, IInvCorrect, PTL DEF Spec
==============================================================================
