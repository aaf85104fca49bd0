-------------------------------- MODULE Rapl --------------------------------
(***************************************************************************)
(* The arithmetic of src/src/energy.c: what a difference of two readings   *)
(* of a wrapping RAPL energy counter is taken to be, and which share of an *)
(* interval's energy is attributed to a task.                              *)
(*                                                                         *)
(* Energies are in microjoules.  The code corrects every wrap by max_range *)
(* whatever the range of the counter that wrapped.                         *)
(***************************************************************************)
EXTENDS Integers

CONSTANT
  MaxRange    \* max_range: the package's range, or 0 where it was not read

ASSUME MaxRangeAssumption == MaxRange \in Nat

(* The values the file of a counter of this range may show.                *)
Reading(range) == 0 .. range - 1

(* Mutant of CheckOverflow: an unchanged counter is taken for a wrap.      *)
CheckOverflowEager(before, after) ==
  IF before >= after THEN after + MaxRange - before ELSE after - before

(* check_overflow: a reading smaller than the earlier one is one wrap.     *)
CheckOverflow(before, after) ==
  IF before > after THEN after + MaxRange - before ELSE after - before

(* A counter after it advanced by e, with 0 <= e <= range.                 *)
Advanced(range, reading, e) ==
  IF reading + e >= range THEN reading + e - range ELSE reading + e

(***************************************************************************)
(* estimate_energy_cycles: the average idle energy of the interval is      *)
(* taken off, the calibrated minimum if the average exceeds what was       *)
(* measured, and the rest is split in proportion to the cycles; cycles > 0.*)
(* Either idle value may be negative (see Calibration).  avg and min are   *)
(* those of the whole interval, the products by time.                      *)
(***************************************************************************)
Idle(avg, min, energy) == IF avg > energy THEN min ELSE avg

(* cpu_cycles_frac is rounded, its product too, and the conversion to      *)
(* long long truncates: the result may be one off the integer quotient.    *)
(* Rounding is monotone, so a fraction of at most (at least) 1 gives at    *)
(* most (at least) the rest.                                               *)
Share(cycles, proc, rest) ==
  LET exact == (proc * rest) \div cycles
  IN  {e \in exact - 1 .. exact + 1 : /\ e >= 0
                                      /\ proc <= cycles => e <= rest
                                      /\ proc >= cycles => e >= rest}

(* Mutants: the fraction upside down; no second look at the idle energy.   *)
EstimateInverted(cycles, proc, energy, avg, min) ==
  LET idle == Idle(avg, min, energy)
  IN  IF idle > energy \/ proc = 0 THEN {0} ELSE Share(proc, cycles, energy - idle)

EstimateUnguarded(cycles, proc, energy, avg, min) ==
  IF proc = 0 THEN {0} ELSE {(proc * (energy - Idle(avg, min, energy))) \div cycles}

EstimateEnergyCycles(cycles, proc, energy, avg, min) ==
  LET idle == Idle(avg, min, energy)
  IN  IF idle > energy \/ proc = 0 THEN {0} ELSE Share(cycles, proc, energy - idle)
=============================================================================
