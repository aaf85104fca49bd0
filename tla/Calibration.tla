----------------------------- MODULE Calibration -----------------------------
(***************************************************************************)
(* Calibration (-i, src/src/main.c) and what a start of the tool makes of  *)
(* it (init_rapl, src/src/energy.c).  -i samples the sum of the package    *)
(* and the DRAM counter, takes the differences of successive samples, and  *)
(* leaves their average and their minimum in config_idle.txt, where every  *)
(* later start of the tool finds them.  The tool may be killed anywhere.   *)
(***************************************************************************)
EXTENDS Integers, Sequences

CONSTANTS
  PkgRange,       \* max_energy_range_uj of the package
  DramRange,      \* that of the DRAM domain, which the code never reads
  Measurements,   \* number of samples of a calibration, 181 in the code
  LongMax,        \* __LONG_LONG_MAX__
  MaxEnergy       \* bound on the energy a domain consumes after its counter wrapped

ASSUME CalibrationAssumption ==
  /\ PkgRange \in Nat \ {0} /\ DramRange \in Nat \ {0}
  /\ Measurements \in Nat /\ Measurements > 1
  /\ LongMax \in Nat /\ LongMax > PkgRange + DramRange
  /\ MaxEnergy \in Nat

Domains == {"pkg", "dram"}
RangeOf == [pkg |-> PkgRange, dram |-> DramRange]

Unset == << 0, 0 >>     \* initial value of the two static variables

(* config_idle.txt: whether it exists, and the numbers in it.              *)
Absent == [exists |-> FALSE, numbers |-> << >>]
Holding(numbers) == [exists |-> TRUE, numbers |-> numbers]
Empty == Holding(<< >>)

VARIABLES
  pc,          \* next step of the tool, "off" if it does not run
  odometer,    \* energy of each readable domain; the counter is its rest modulo RangeOf
  file,        \* config_idle.txt
  last,        \* history: average and minimum of the last calibration that ended
  idle,        \* << idle_consumption, idle_min >>
  maxRange,    \* max_range
  readable,    \* the domains whose energy_uj this start of the tool can open
  part,        \* the first summand of the sample being taken
  measured,    \* measured_values
  exact,       \* history: the odometers at the two reads of every sample
  i,           \* the loop over the differences: its round
  total,       \* total_energy
  min          \* min_value

config == << idle, maxRange, readable >>
samples == << part, measured, exact >>
loop == << i, total, min >>
vars == << pc, odometer, file, last, config, samples, loop >>

NoSamples == part = 0 /\ measured = << >> /\ exact = << >>
NoLoop == i = 1 /\ total = 0 /\ min = LongMax

Init ==
  /\ pc = "off"
  /\ odometer = [d \in Domains |-> 0]
  /\ file = Absent /\ last = Unset
  /\ idle = Unset /\ maxRange = 0 /\ readable = {}
  /\ NoSamples /\ NoLoop

Goes(from, to) == pc = from /\ pc' = to

------------------------------------------------------------------------------
(* init_rapl, whose result main ignores.                                   *)

(* The tool is started, whatever the counters have reached meanwhile.  A   *)
(* package may have no DRAM domain, and only root may read the energy.     *)
Start ==
  /\ Goes("off", "config")
  /\ readable' \in {{}, {"pkg"}, Domains}
  /\ odometer' \in {o \in [Domains -> 0 .. PkgRange + DramRange] :
                      \A d \in Domains : o[d] < IF d \in readable' THEN RangeOf[d] ELSE 1}
  /\ UNCHANGED << file, last, idle, maxRange, samples, loop >>

(* Mutant of ReadConfig: the two numbers are read in the wrong order.      *)
ReadConfigSwapped ==
  /\ Goes("config", "range")
  /\ idle' = IF file \in {Absent, Empty}
               THEN Unset ELSE << file.numbers[2], file.numbers[1] >>
  /\ UNCHANGED << odometer, file, last, maxRange, readable, samples, loop >>

(* An absent file is reported, an empty one leaves the variables at 0, and *)
(* one that cannot be opened makes init_rapl return at once.               *)
ReadConfig ==
  /\ \/ /\ Goes("config", "range")
        /\ idle' = IF file \in {Absent, Empty} THEN Unset ELSE file.numbers
     \/ Goes("config", "ready") /\ file.exists /\ UNCHANGED idle
  /\ UNCHANGED << odometer, file, last, maxRange, readable, samples, loop >>

(* max_range is the package's, or stays 0 if its file cannot be opened.    *)
ReadMaxRange ==
  /\ Goes("range", "ready")
  /\ maxRange' \in {0, PkgRange}
  /\ UNCHANGED << odometer, file, last, idle, readable, samples, loop >>

------------------------------------------------------------------------------
(* -i.  The other modes stay at "ready" until they end.                    *)

Sampling == pc \in {"pkg", "dram"}

Consume ==
  /\ Sampling
  /\ \E d \in readable :
       /\ odometer[d] < RangeOf[d] + MaxEnergy
       /\ odometer' = [odometer EXCEPT ![d] = @ + 1]
  /\ UNCHANGED << pc, file, last, config, samples, loop >>

Calibrate ==
  /\ Goes("ready", "pkg")
  /\ UNCHANGED << odometer, file, last, config, samples, loop >>

(* read_energy returns 0 for a domain that cannot be opened.               *)
Counter(d) == IF d \in readable THEN odometer[d] % RangeOf[d] ELSE 0

ReadPkg ==
  /\ Goes("pkg", "dram")
  /\ part' = Counter("pkg")
  /\ exact' = Append(exact, odometer)
  /\ UNCHANGED << odometer, file, last, config, measured, loop >>

(* Mutant of ReadDram: one sample more than there is room for.             *)
ReadDramTooMany ==
  /\ Goes("dram", IF Len(measured) = Measurements THEN "sum" ELSE "pkg")
  /\ measured' = Append(measured, part + Counter("dram"))
  /\ exact' = [exact EXCEPT ![Len(exact)].dram = odometer["dram"]]
  /\ UNCHANGED << odometer, file, last, config, part, loop >>

(* The second summand, and sleep(1).                                       *)
ReadDram ==
  /\ Goes("dram", IF Len(measured) + 1 = Measurements THEN "sum" ELSE "pkg")
  /\ measured' = Append(measured, part + Counter("dram"))
  /\ exact' = [exact EXCEPT ![Len(exact)].dram = odometer["dram"]]
  /\ UNCHANGED << odometer, file, last, config, part, loop >>

(* Mutant of CheckOverflow: no correction.                                 *)
CheckOverflowDropped(before, after) == after - before

CheckOverflow(before, after) ==
  IF before > after THEN after + maxRange - before ELSE after - before

(* Mutant of AddDifference: the minimum is taken of the differences before *)
(* the last.                                                               *)
AddDifferenceLate ==
  LET cur == CheckOverflow(measured[i], measured[i + 1])
  IN  /\ pc = "sum" /\ i < Measurements
      /\ min' = IF min > cur /\ i + 1 < Measurements THEN cur ELSE min
      /\ total' = total + cur
      /\ i' = i + 1
      /\ UNCHANGED << pc, odometer, file, last, config, samples >>

AddDifference ==
  LET cur == CheckOverflow(measured[i], measured[i + 1])
  IN  /\ pc = "sum" /\ i < Measurements
      /\ min' = IF min > cur THEN cur ELSE min
      /\ total' = total + cur
      /\ i' = i + 1
      /\ UNCHANGED << pc, odometer, file, last, config, samples >>

(* Division in C, for a positive divisor.                                  *)
Quotient(n, d) == IF n >= 0 THEN n \div d ELSE -((-n) \div d)

(* total_energy becomes the average, and fopen(.., "w") empties the file   *)
(* or fails, after which fprintf(NULL) ends the tool.                      *)
OpenConfig ==
  /\ pc = "sum" /\ i = Measurements
  /\ pc' = "write"
  /\ total' = Quotient(total, Measurements - 1)
  /\ file' = Empty
  /\ UNCHANGED << odometer, last, config, samples, i, min >>

(* The variables of a process that ends are gone.                          *)
Clear ==
  /\ pc' = "off"
  /\ odometer' = [d \in Domains |-> 0]
  /\ idle' = Unset /\ maxRange' = 0 /\ readable' = {}
  /\ part' = 0 /\ measured' = << >> /\ exact' = << >>
  /\ i' = 1 /\ total' = 0 /\ min' = LongMax

(* fprintf fills the stream's buffer, fclose writes it in one piece.       *)
CloseConfig ==
  /\ pc = "write"
  /\ file' = Holding(<< total, min >>)
  /\ last' = << total, min >>
  /\ Clear

(* The tool ends or is killed, in any step and in any mode.                *)
Crash ==
  /\ pc # "off"
  /\ Clear
  /\ UNCHANGED << file, last >>

Tool ==
  \/ Start \/ ReadConfig \/ ReadMaxRange
  \/ Calibrate \/ ReadPkg \/ ReadDram \/ AddDifference \/ OpenConfig \/ CloseConfig

Next == Tool \/ Consume \/ Crash

Spec == Init /\ [][Next]_vars

------------------------------------------------------------------------------
Pairs == Int \X Int

TypeOK ==
  /\ pc \in {"off", "config", "range", "ready", "pkg", "dram", "sum", "write"}
  /\ odometer \in [Domains -> Nat]
  /\ file \in [exists : BOOLEAN, numbers : {<< >>} \cup Pairs]
  /\ last \in Pairs /\ idle \in Pairs
  /\ maxRange \in {0, PkgRange} /\ readable \subseteq Domains
  /\ part \in Nat
  /\ measured \in Seq(Nat) /\ Len(measured) <= Measurements
  /\ exact \in Seq([Domains -> Nat])
  /\ i \in 1 .. Measurements
  /\ total \in Int /\ min \in Int

(* What a start makes of config_idle.txt is what the last calibration that *)
(* ended measured, or nothing, whatever a calibration killed in between    *)
(* left of the file (main.c:321, energy.c:74): an interrupted -i loses the *)
(* earlier result, but never gives a part of it or half of two.            *)
LastOrNothing ==
  /\ idle \in {Unset, last}
  /\ file \in {Absent, Empty, Holding(last)}

(* The minimum is not above the average, which estimate_energy_cycles      *)
(* relies on when it takes the one because the other is too large          *)
(* (energy.c:102-103), even if max_range was never read (energy.c:70, 85)  *)
(* and differences are negative.                                           *)
MinBelowAverage == idle[2] <= idle[1]

(* The energy a domain consumed between its reads of samples n and n + 1,  *)
(* and the number of times its counter wrapped between them.               *)
Energy(d, n) == exact[n + 1][d] - exact[n][d]
Wraps(d, n) == (exact[n + 1][d] \div RangeOf[d]) - (exact[n][d] \div RangeOf[d])
Consumed(n) == Energy("pkg", n) + Energy("dram", n)

(* An interval for which the sum of two counters behaves like one counter: *)
(* idle for a second, and not both of them wrapping in that second.        *)
OneWrap(n) == /\ Consumed(n) < PkgRange
              /\ Wraps("pkg", n) + Wraps("dram", n) <= 1

(* Once the loop is through, the sum and the minimum are those of the      *)
(* energy really consumed in the domains that can be read: check_overflow  *)
(* is applied to the sum of two counters (main.c:299, 309), which is exact *)
(* as long as max_range was read and no interval saw both counters wrap.   *)
IdleIsConsumption ==
  pc = "sum" /\ i = Measurements /\ maxRange # 0
             /\ (\A n \in 1 .. Measurements - 1 : OneWrap(n)) =>
    /\ total = (exact[Measurements].pkg + exact[Measurements].dram)
                 - (exact[1].pkg + exact[1].dram)
    /\ \A n \in 1 .. Measurements - 1 : min <= Consumed(n)
    /\ \E n \in 1 .. Measurements - 1 : min = Consumed(n)

(***************************************************************************)
(* The inductive invariants of the theorems.                               *)
(***************************************************************************)

(* How many samples there are in each step, that the variables of a new    *)
(* process are as they were, and that only readable domains count.         *)
SampleInv ==
  /\ pc \in {"off", "config", "range", "ready"} => NoSamples
  /\ pc = "pkg" => Len(measured) < Measurements /\ Len(exact) = Len(measured)
  /\ pc = "dram" => Len(measured) < Measurements /\ Len(exact) = Len(measured) + 1
  /\ pc \in {"sum", "write"} =>
       Len(measured) = Measurements /\ Len(exact) = Measurements
  /\ pc \notin {"sum", "write"} => NoLoop
  /\ \A d \in Domains \ readable : odometer[d] = 0

(* The minimum is not above the average of the differences added up.       *)
AverageInv ==
  /\ pc = "sum" => total >= (i - 1) * min
  /\ pc = "write" => total >= min
  /\ last[2] <= last[1]

IInv == TypeOK /\ SampleInv /\ AverageInv /\ LastOrNothing

(* The samples are what the counters showed, and the odometers only grow.  *)
ExactInv ==
  /\ \A n \in 1 .. Len(measured) :
       measured[n] = (exact[n].pkg % PkgRange) + (exact[n].dram % DramRange)
  /\ pc = "dram" => part = exact[Len(exact)].pkg % PkgRange
  /\ \A d \in Domains :
       /\ \A n \in 1 .. Len(exact) : exact[n][d] <= odometer[d]
       /\ \A n \in 1 .. Len(exact) - 1 : exact[n][d] <= exact[n + 1][d]

(* What the loop has added up so far.                                      *)
LoopInv ==
  pc = "sum" /\ maxRange # 0 /\ (\A n \in 1 .. i - 1 : OneWrap(n)) =>
    /\ total = (exact[i].pkg + exact[i].dram) - (exact[1].pkg + exact[1].dram)
    /\ \A n \in 1 .. i - 1 : min <= Consumed(n)
    /\ IF i = 1 THEN min = LongMax ELSE \E n \in 1 .. i - 1 : min = Consumed(n)
==============================================================================
