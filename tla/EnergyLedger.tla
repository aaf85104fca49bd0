---------------------------- MODULE EnergyLedger ----------------------------
(***************************************************************************)
(* What a monitoring loop promises about the energy of one RAPL domain:    *)
(* each interval it reports is a window of the energy really consumed, and *)
(* the windows of successive intervals do not overlap.  Energy may be left *)
(* out (what is consumed while results are printed); none is reported      *)
(* twice, and none is invented but WrapError, where a wrap is corrected by *)
(* another range than that of the counter.                                 *)
(***************************************************************************)
EXTENDS Integers

CONSTANT
  WrapError    \* what a wrap adds to the report of a window, 0 if nothing

VARIABLES
  consumed,    \* energy the domain has consumed since the tool started
  accounted,   \* sum of the energies reported for the domain
  upto         \* end of the last reported window

vars == <<consumed, accounted, upto>>

TypeOK ==
  /\ consumed \in Nat
  /\ accounted \in Int
  /\ upto \in Nat

Init ==
  /\ consumed = 0
  /\ accounted = 0
  /\ upto = 0

Consume ==
  /\ consumed' \in Nat
  /\ consumed' > consumed
  /\ UNCHANGED <<accounted, upto>>

(* An interval [from, to) of the consumption is reported.                  *)
Report(from, to) ==
  /\ upto <= from /\ from <= to /\ to <= consumed
  /\ \E error \in {0, WrapError} : accounted' = accounted + (to - from) + error
  /\ upto' = to
  /\ UNCHANGED consumed

Next ==
  \/ Consume
  \/ \E from, to \in 0 .. consumed : Report(from, to)

Spec == Init /\ [][Next]_vars

(* No more energy is reported than was consumed, unless a wrap adds to it. *)
NeverOverReported == WrapError <= 0 => accounted <= upto /\ upto <= consumed
=============================================================================
