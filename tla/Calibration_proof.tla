-------------------------- MODULE Calibration_proof --------------------------
(***************************************************************************)
(* Theorems about -i and init_rapl, for any counter ranges and any number  *)
(* of samples, wherever the tool is killed.                                *)
(***************************************************************************)
EXTENDS Calibration, SequenceTheorems, TLAPS

------------------------------------------------------------------------------
(* The arithmetic.                                                         *)

LEMMA DivMod ==
  ASSUME NEW x \in Nat, NEW r \in Nat \ {0}
  PROVE  /\ x \div r \in Nat /\ x % r \in 0 .. r - 1
         /\ x = r * (x \div r) + (x % r)
OBVIOUS

(* How often a counter wraps, and by how much it then differs.             *)
LEMMA CounterAdvance ==
  ASSUME NEW r \in Nat \ {0}, NEW x \in Nat, NEW y \in Nat, x <= y
  PROVE  /\ y \div r - x \div r \in Nat
         /\ y \div r - x \div r = 0 => (y % r) - (x % r) = y - x
         /\ y \div r - x \div r = 1 => (y % r) - (x % r) = y - x - r
<1> DEFINE p == x \div r
           q == y \div r
<1>1. /\ p \in Nat /\ q \in Nat /\ x % r \in 0 .. r - 1 /\ y % r \in 0 .. r - 1
      /\ x = r * p + (x % r) /\ y = r * q + (y % r)
  BY DivMod
<1> HIDE DEF p, q
<1>2. ASSUME q < p PROVE FALSE
  <2>1. r * (q + 1) <= r * p
    BY <1>1, <1>2
  <2>2. r * (q + 1) = r * q + r
    BY <1>1
  <2> QED
    BY <1>1, <2>1, <2>2
<1>3. q - p \in Nat
  BY <1>1, <1>2
<1>4. q - p = 0 => r * q = r * p
  BY <1>1
<1>5. q - p = 1 => r * q = r * p + r
  BY <1>1
<1> DEFINE P == r * p
           Q == r * q
<1>6. P \in Int /\ Q \in Int /\ x = P + (x % r) /\ y = Q + (y % r)
  BY <1>1
<1>7. (q - p = 0 => Q = P) /\ (q - p = 1 => Q = P + r)
  BY <1>4, <1>5
<1> HIDE DEF P, Q
<1>8. /\ q - p = 0 => (y % r) - (x % r) = y - x
      /\ q - p = 1 => (y % r) - (x % r) = y - x - r
  <2> DEFINE c == x % r
             d == y % r
  <2>1. c \in Int /\ d \in Int /\ x = P + c /\ y = Q + d
    BY <1>1, <1>6
  <2> HIDE DEF c, d
  <2>2. (q - p = 0 => d - c = y - x) /\ (q - p = 1 => d - c = y - x - r)
    BY <1>6, <1>7, <2>1
  <2> QED
    BY <2>2 DEF c, d
<1> QED
  BY <1>3, <1>8 DEF p, q

(* C's division does not take an average below a lower bound.              *)
LEMMA QuotientBound ==
  ASSUME NEW t \in Int, NEW k \in Nat \ {0}, NEW b \in Int, t >= k * b
  PROVE  Quotient(t, k) \in Int /\ Quotient(t, k) >= b
<1>1. CASE t >= 0
  <2> DEFINE q == t \div k
  <2>1. q \in Nat /\ t < k * (q + 1)
    <3>1. t \in Nat
      BY <1>1
    <3>2. q \in Nat /\ t % k \in 0 .. k - 1 /\ t = k * q + (t % k)
      BY <3>1, DivMod
    <3> HIDE DEF q
    <3>3. k * (q + 1) = k * q + k /\ k * q \in Int
      BY <3>2
    <3> QED
      BY <3>2, <3>3
  <2> HIDE DEF q
  <2>2. ASSUME q < b PROVE FALSE
    <3>1. k * (q + 1) <= k * b
      BY <2>1, <2>2
    <3>2. k * (q + 1) \in Int /\ k * b \in Int
      BY <2>1
    <3> QED
      BY <2>1, <3>1, <3>2
  <2>3. Quotient(t, k) = q
    BY <1>1 DEF Quotient, q
  <2> QED
    BY <2>1, <2>2, <2>3
<1>2. CASE t < 0
  <2> DEFINE q == (-t) \div k
  <2>1. q \in Nat /\ k * q <= -t
    <3>1. -t \in Nat
      BY <1>2
    <3>2. q \in Nat /\ (-t) % k \in 0 .. k - 1 /\ -t = k * q + ((-t) % k)
      BY <3>1, DivMod
    <3> HIDE DEF q
    <3>3. k * q \in Int
      BY <3>2
    <3> QED
      BY <3>1, <3>2, <3>3
  <2> HIDE DEF q
  <2>2. ASSUME -q < b PROVE FALSE
    <3>1. k * (1 - q) <= k * b
      BY <2>1, <2>2
    <3>2. k * (1 - q) = k - k * q
      BY <2>1
    <3>3. k * q \in Int /\ k * b \in Int
      BY <2>1
    <3> QED
      BY <2>1, <3>1, <3>2, <3>3
  <2>3. Quotient(t, k) = -q
    BY <1>2 DEF Quotient, q
  <2> QED
    BY <2>1, <2>2, <2>3
<1> QED
  BY <1>1, <1>2

------------------------------------------------------------------------------
(* Types, the file and the average.                                        *)

LEMMA InitIInv == Init => IInv
<1> SUFFICES ASSUME Init PROVE IInv
  OBVIOUS
<1> USE CalibrationAssumption
<1>1. TypeOK
  <2>1. /\ pc = "off" /\ odometer \in [Domains -> Nat]
        /\ file \in [exists : BOOLEAN, numbers : {<< >>} \cup Pairs]
        /\ last \in Pairs /\ idle \in Pairs
    BY DEF Init, Absent, Unset, Pairs
  <2>2. /\ part \in Nat /\ measured \in Seq(Nat) /\ Len(measured) <= Measurements
        /\ exact \in Seq([Domains -> Nat])
    BY DEF Init, NoSamples
  <2> QED
    BY <2>1, <2>2 DEF Init, NoLoop, TypeOK
<1>2. SampleInv /\ AverageInv /\ LastOrNothing
  BY DEF Init, SampleInv, AverageInv, LastOrNothing, Unset
<1> QED
  BY <1>1, <1>2 DEF IInv

(* A process that ends leaves its variables in their initial state.        *)
LEMMA Cleared ==
  ASSUME Clear
  PROVE  /\ pc' = "off" /\ NoSamples' /\ NoLoop' /\ idle' = Unset
         /\ \A d \in Domains : odometer'[d] = 0
         /\ TypeOK /\ file' \in [exists : BOOLEAN, numbers : {<< >>} \cup Pairs]
                   /\ last' \in Pairs => TypeOK'
<1> USE CalibrationAssumption
<1>1. pc' = "off" /\ NoSamples' /\ NoLoop' /\ idle' = Unset /\ maxRange' = 0
      /\ readable' = {} /\ \A d \in Domains : odometer'[d] = 0
  BY DEF Clear, NoSamples, NoLoop
<1>2. odometer' \in [Domains -> Nat] /\ idle' \in Pairs
  BY DEF Clear, Unset, Pairs
<1>3. /\ part' \in Nat /\ measured' \in Seq(Nat) /\ Len(measured') <= Measurements
      /\ exact' \in Seq([Domains -> Nat])
  BY <1>1 DEF NoSamples
<1>4. i' \in 1 .. Measurements /\ total' \in Int /\ min' \in Int
  BY <1>1 DEF NoLoop
<1> QED
  BY <1>1, <1>2, <1>3, <1>4 DEF TypeOK

LEMMA CounterType ==
  ASSUME odometer \in [Domains -> Nat]
  PROVE  \A d \in Domains : Counter(d) \in Nat
<1> TAKE d \in Domains
<1>1. odometer[d] \in Nat /\ RangeOf[d] \in Nat \ {0}
  <2>1. d = "pkg" \/ d = "dram"
    BY DEF Domains
  <2>2. RangeOf["pkg"] = PkgRange /\ RangeOf["dram"] = DramRange
    BY DEF RangeOf
  <2> QED
    BY <2>1, <2>2, CalibrationAssumption
<1> DEFINE x == odometer[d]
           r == RangeOf[d]
<1>2. x % r \in Nat
  <2>1. x \in Nat /\ r \in Nat \ {0}
    BY <1>1
  <2> HIDE DEF x, r
  <2> QED
    BY <2>1, DivMod
<1> QED
  BY <1>2 DEF Counter

(* Where a domain cannot be read, 0 is what its odometer shows.            *)
LEMMA CounterIs ==
  ASSUME IInv, NEW d \in Domains
  PROVE  Counter(d) = odometer[d] % RangeOf[d]
<1>1. RangeOf[d] \in Nat \ {0}
  BY CalibrationAssumption DEF Domains, RangeOf
<1>2. d \notin readable => odometer[d] = 0
  BY DEF IInv, SampleInv
<1> DEFINE r == RangeOf[d]
<1>3. 0 % r = 0
  <2>1. r \in Nat \ {0}
    BY <1>1
  <2> HIDE DEF r
  <2> QED
    BY <2>1
<1> QED
  BY <1>2, <1>3 DEF Counter

LEMMA NextMultiple ==
  ASSUME NEW k \in Int, NEW m \in Int
  PROVE  k * m = (k - 1) * m + m
OBVIOUS

LEMMA MultipleMonotonic ==
  ASSUME NEW k \in Nat, NEW a \in Int, NEW b \in Int, a <= b
  PROVE  k * a <= k * b
OBVIOUS

LEMMA StepIInv == IInv /\ [Next]_vars => IInv'
<1> SUFFICES ASSUME IInv, [Next]_vars PROVE IInv'
  OBVIOUS
<1> USE CalibrationAssumption DEF config, samples, loop, Goes, NoSamples, NoLoop
<1>1. CASE Start
  <2>1. /\ odometer' \in [Domains -> Nat] /\ readable' \subseteq Domains
        /\ \A d \in Domains \ readable' : odometer'[d] = 0
    BY <1>1 DEF Start, Domains
  <2>2. TypeOK'
    BY <1>1, <2>1 DEF IInv, Start, TypeOK
  <2> QED
    BY <1>1, <2>1, <2>2 DEF IInv, Start, SampleInv, AverageInv, LastOrNothing
<1>2. CASE ReadConfig
  <2>1. idle' \in {Unset, last}
    BY <1>2 DEF IInv, ReadConfig, LastOrNothing, Absent, Empty, Holding
  <2>2. TypeOK'
    BY <1>2, <2>1 DEF IInv, ReadConfig, TypeOK, Unset, Pairs
  <2> QED
    BY <1>2, <2>1, <2>2 DEF IInv, ReadConfig, SampleInv, AverageInv, LastOrNothing
<1>3. CASE ReadMaxRange
  BY <1>3 DEF IInv, ReadMaxRange, TypeOK, SampleInv, AverageInv, LastOrNothing
<1>4. CASE Calibrate
  BY <1>4 DEF IInv, Calibrate, TypeOK, SampleInv, AverageInv, LastOrNothing
<1>5. CASE Consume
  <2>1. /\ odometer' \in [Domains -> Nat]
        /\ \A d \in Domains \ readable : odometer'[d] = odometer[d]
    BY <1>5 DEF IInv, TypeOK, Consume
  <2>2. TypeOK'
    BY <1>5, <2>1 DEF IInv, Consume, TypeOK
  <2> QED
    BY <1>5, <2>1, <2>2 DEF IInv, Consume, SampleInv, AverageInv, LastOrNothing
<1>6. CASE ReadPkg
  <2>1. part' \in Nat
    BY <1>6, CounterType DEF IInv, TypeOK, ReadPkg, Domains
  <2>2. exact' \in Seq([Domains -> Nat]) /\ Len(exact') = Len(exact) + 1
    BY <1>6 DEF IInv, TypeOK, ReadPkg
  <2>3. TypeOK'
    BY <1>6, <2>1, <2>2 DEF IInv, ReadPkg, TypeOK
  <2> QED
    BY <1>6, <2>2, <2>3 DEF IInv, ReadPkg, SampleInv, AverageInv, LastOrNothing
<1>7. CASE ReadDram
  <2>1. part + Counter("dram") \in Nat
    BY CounterType DEF IInv, TypeOK, Domains
  <2>2. measured' \in Seq(Nat) /\ Len(measured') = Len(measured) + 1
    BY <1>7, <2>1, AppendProperties DEF IInv, TypeOK, ReadDram
  <2>3. exact' \in Seq([Domains -> Nat]) /\ Len(exact') = Len(exact)
    <3>1. Len(exact) \in 1 .. Len(exact)
      BY <1>7, LenProperties DEF IInv, TypeOK, SampleInv, ReadDram
    <3>2. [exact[Len(exact)] EXCEPT !["dram"] = odometer["dram"]] \in [Domains -> Nat]
      BY <3>1, ElementOfSeq DEF IInv, TypeOK, Domains
    <3>3. exact' = [exact EXCEPT ![Len(exact)] =
                      [exact[Len(exact)] EXCEPT !["dram"] = odometer["dram"]]]
      BY <1>7 DEF ReadDram
    <3> QED
      BY <3>1, <3>2, <3>3, ExceptSeq DEF IInv, TypeOK
  <2>4. Len(measured) \in Nat /\ Len(measured) < Measurements
    BY <1>7, LenProperties DEF IInv, TypeOK, SampleInv, ReadDram
  <2>5. TypeOK'
    <3>1. pc' \in {"sum", "pkg"} /\ Len(measured') <= Measurements
      BY <1>7, <2>2, <2>4 DEF ReadDram
    <3> QED
      BY <1>7, <2>2, <2>3, <3>1 DEF IInv, ReadDram, TypeOK
  <2>6. SampleInv'
    BY <1>7, <2>2, <2>3, <2>4 DEF IInv, ReadDram, SampleInv, TypeOK
  <2>7. AverageInv'
    BY <1>7 DEF IInv, ReadDram, SampleInv, AverageInv
  <2> QED
    BY <1>7, <2>5, <2>6, <2>7 DEF IInv, ReadDram, LastOrNothing
<1>8. CASE AddDifference
  <2> DEFINE cur == CheckOverflow(measured[i], measured[i + 1])
  <2>1. cur \in Int
    <3>1. i \in 1 .. Len(measured) /\ i + 1 \in 1 .. Len(measured)
      BY <1>8 DEF IInv, TypeOK, SampleInv, AddDifference
    <3>2. measured[i] \in Nat /\ measured[i + 1] \in Nat
      BY <3>1, ElementOfSeq DEF IInv, TypeOK
    <3>3. maxRange \in Int
      BY CalibrationAssumption DEF IInv, TypeOK
    <3> QED
      BY <3>2, <3>3 DEF CheckOverflow
  <2>2. /\ pc = "sum" /\ i < Measurements
        /\ min' = (IF min > cur THEN cur ELSE min) /\ total' = total + cur /\ i' = i + 1
        /\ UNCHANGED << pc, odometer, file, last, config, samples >>
    BY <1>8 DEF AddDifference
  <2> HIDE DEF cur
  <2>3. TypeOK'
    BY <2>1, <2>2 DEF IInv, TypeOK
  <2>4. total' >= (i' - 1) * min'
    <3>1. i \in Int /\ i - 1 \in Nat /\ total \in Int /\ min \in Int /\ min' \in Int
      BY <2>1, <2>2 DEF IInv, TypeOK
    <3>2. total >= (i - 1) * min
      BY <2>2 DEF IInv, AverageInv
    <3>3. min' <= min /\ min' <= cur
      BY <2>1, <2>2, <3>1
    <3>4. (i - 1) * min' <= (i - 1) * min
      BY <3>1, <3>3, MultipleMonotonic
    <3>5. (i' - 1) * min' = (i - 1) * min' + min'
      <4>1. i' - 1 = i
        BY <2>2, <3>1
      <4> QED
        BY <3>1, <4>1, NextMultiple
    <3>6. (i - 1) * min' \in Int /\ (i - 1) * min \in Int
      BY <3>1
    <3> QED
      BY <2>1, <2>2, <3>1, <3>2, <3>3, <3>4, <3>5, <3>6
  <2>5. SampleInv' /\ LastOrNothing' /\ AverageInv'
    BY <2>2, <2>4 DEF IInv, SampleInv, LastOrNothing, AverageInv
  <2> QED
    BY <2>3, <2>5 DEF IInv
<1>9. CASE OpenConfig
  <2>1. total' \in Int /\ total' >= min
    <3>1. Measurements - 1 \in Nat \ {0} /\ total \in Int /\ min \in Int
      BY DEF IInv, TypeOK
    <3>2. total >= (Measurements - 1) * min
      BY <1>9 DEF IInv, AverageInv, OpenConfig
    <3>3. total' = Quotient(total, Measurements - 1)
      BY <1>9 DEF OpenConfig
    <3> QED
      BY <3>1, <3>2, <3>3, QuotientBound
  <2>2. TypeOK'
    BY <1>9, <2>1 DEF IInv, OpenConfig, TypeOK, Empty, Holding
  <2>3. SampleInv' /\ AverageInv' /\ LastOrNothing'
    BY <1>9, <2>1 DEF IInv, OpenConfig, SampleInv, AverageInv, LastOrNothing
  <2> QED
    BY <2>2, <2>3 DEF IInv
<1>10. CASE CloseConfig
  <2>1. /\ pc = "write" /\ last' = << total, min >> /\ file' = Holding(last')
        /\ total \in Int /\ min \in Int /\ total >= min
    BY <1>10 DEF CloseConfig, IInv, TypeOK, AverageInv
  <2>2. last' \in Pairs /\ last'[2] <= last'[1]
    BY <2>1 DEF Pairs
  <2>3. file' \in [exists : BOOLEAN, numbers : {<< >>} \cup Pairs]
    BY <2>1, <2>2 DEF Holding
  <2>4. TypeOK' /\ pc' = "off" /\ NoSamples' /\ NoLoop' /\ idle' = Unset
        /\ \A d \in Domains : odometer'[d] = 0
    BY <1>10, <2>2, <2>3, Cleared DEF CloseConfig, IInv
  <2> QED
    BY <2>1, <2>2, <2>4 DEF IInv, SampleInv, AverageInv, LastOrNothing
<1>11. CASE Crash
  <2>1. TypeOK' /\ pc' = "off" /\ NoSamples' /\ NoLoop' /\ idle' = Unset
        /\ \A d \in Domains : odometer'[d] = 0
    BY <1>11, Cleared DEF Crash, IInv, TypeOK
  <2> QED
    BY <1>11, <2>1 DEF Crash, IInv, SampleInv, AverageInv, LastOrNothing
<1>12. CASE UNCHANGED vars
  BY <1>12 DEF vars, IInv, TypeOK, SampleInv, AverageInv, LastOrNothing
<1> QED
  BY <1>1, <1>2, <1>3, <1>4, <1>5, <1>6, <1>7, <1>8, <1>9, <1>10, <1>11, <1>12
     DEF Next, Tool

LEMMA IInvCorrect == Spec => []IInv
BY InitIInv, StepIInv, PTL DEF Spec

------------------------------------------------------------------------------
(* The samples and what they are samples of.                               *)

LEMMA StepExactInv == IInv /\ ExactInv /\ [Next]_vars => ExactInv'
<1> SUFFICES ASSUME IInv, ExactInv, [Next]_vars PROVE ExactInv'
  OBVIOUS
<1> USE CalibrationAssumption DEF config, samples, loop, Goes
<1>0. /\ odometer \in [Domains -> Nat] /\ measured \in Seq(Nat)
      /\ exact \in Seq([Domains -> Nat]) /\ Len(measured) \in Nat /\ Len(exact) \in Nat
  BY LenProperties DEF IInv, TypeOK
<1>1. CASE Start
  <2>1. measured = << >> /\ exact = << >>
    BY <1>1 DEF IInv, SampleInv, NoSamples, Start
  <2> QED
    BY <1>1, <2>1 DEF Start, ExactInv
<1>2. CASE Consume
  <2>1. PICK e \in Domains : odometer' = [odometer EXCEPT ![e] = @ + 1]
    BY <1>2 DEF Consume, IInv, TypeOK
  <2>2. \A d \in Domains : odometer[d] <= odometer'[d]
    BY <1>0, <2>1
  <2>3. \A d \in Domains : \A n \in 1 .. Len(exact) : exact[n][d] \in Nat
    BY <1>0, ElementOfSeq
  <2>4. \A d \in Domains : odometer'[d] \in Nat /\ odometer[d] \in Nat
    BY <1>0, <2>1
  <2> QED
    BY <1>2, <2>2, <2>3, <2>4 DEF Consume, ExactInv
<1>3. CASE ReadPkg
  <2>1. /\ exact' = Append(exact, odometer) /\ Len(exact) = Len(measured)
        /\ part' = odometer["pkg"] % PkgRange /\ UNCHANGED << odometer, measured >>
    BY <1>3, CounterIs DEF ReadPkg, IInv, SampleInv, Domains, RangeOf
  <2>2. /\ Len(exact') = Len(exact) + 1 /\ exact'[Len(exact')] = odometer
        /\ \A n \in 1 .. Len(exact) : exact'[n] = exact[n]
    BY <1>0, <2>1, AppendProperties
  <2>3. \A n \in 1 .. Len(measured) : measured'[n] =
          (exact'[n].pkg % PkgRange) + (exact'[n].dram % DramRange)
    BY <2>1, <2>2 DEF ExactInv
  <2>4. part' = exact'[Len(exact')].pkg % PkgRange
    BY <2>1, <2>2
  <2>5. ASSUME NEW d \in Domains
        PROVE  /\ \A n \in 1 .. Len(exact') : exact'[n][d] <= odometer'[d]
               /\ \A n \in 1 .. Len(exact') - 1 : exact'[n][d] <= exact'[n + 1][d]
    <3>1. \A n \in 1 .. Len(exact) : exact[n][d] <= odometer[d]
      BY DEF ExactInv
    <3>2. \A n \in 1 .. Len(exact) - 1 : exact[n][d] <= exact[n + 1][d]
      BY DEF ExactInv
    <3>3. odometer[d] \in Nat
      BY <1>0
    <3>4. ASSUME NEW n \in 1 .. Len(exact) PROVE exact'[n][d] <= exact'[n + 1][d]
      <4>1. CASE n = Len(exact)
        BY <1>0, <2>2, <3>1, <4>1
      <4>2. CASE n # Len(exact)
        <5>1. n + 1 \in 1 .. Len(exact) /\ n \in 1 .. Len(exact) - 1
          BY <1>0, <4>2
        <5> QED
          BY <2>2, <3>2, <5>1
      <4> QED
        BY <4>1, <4>2
    <3>5. \A n \in 1 .. Len(exact') : exact'[n][d] <= odometer[d]
      <4>1. \A n \in 1 .. Len(exact') : n = Len(exact') \/ n \in 1 .. Len(exact)
        BY <1>0, <2>2
      <4>2. odometer[d] <= odometer[d]
        BY <3>3
      <4> QED
        BY <2>2, <3>1, <4>1, <4>2
    <3>6. Len(exact') - 1 = Len(exact) /\ odometer' = odometer
      BY <1>0, <2>1, <2>2
    <3> QED
      BY <3>4, <3>5, <3>6
  <2> QED
    BY <2>1, <2>3, <2>4, <2>5 DEF ExactInv
<1>4. CASE ReadDram
  <2> DEFINE L == Len(exact)
  <2>0. pc = "dram" /\ L = Len(measured) + 1 /\ L \in 1 .. L
    BY <1>0, <1>4 DEF ReadDram, IInv, SampleInv
  <2>1. /\ pc = "dram" /\ L = Len(measured) + 1 /\ L \in 1 .. L
        /\ measured' = Append(measured, part + (odometer["dram"] % DramRange))
        /\ exact' = [exact EXCEPT ![L] = [exact[L] EXCEPT !["dram"] = odometer["dram"]]]
        /\ odometer' = odometer /\ pc' # "dram"
    BY <1>4, <2>0, CounterIs DEF ReadDram, Domains, RangeOf
  <2>2. exact[L] \in [Domains -> Nat]
    BY <1>0, <2>1, ElementOfSeq
  <2>3. [exact[L] EXCEPT !["dram"] = odometer["dram"]] \in [Domains -> Nat]
    BY <1>0, <2>2 DEF Domains
  <2>4. /\ Len(exact') = L
        /\ \A n \in 1 .. L : exact'[n] =
             IF n = L THEN [exact[L] EXCEPT !["dram"] = odometer["dram"]] ELSE exact[n]
    BY <1>0, <2>1, <2>3, ExceptSeq
  <2>5. exact'[L]["pkg"] = exact[L]["pkg"] /\ exact'[L]["dram"] = odometer["dram"]
    BY <2>1, <2>2, <2>4 DEF Domains
  <2>6. part + (odometer["dram"] % DramRange) \in Nat
    BY <1>0, CounterType, CounterIs DEF IInv, TypeOK, RangeOf, Domains
  <2>7. /\ Len(measured') = L
        /\ \A n \in 1 .. L - 1 : measured'[n] = measured[n]
        /\ measured'[L] = part + (odometer["dram"] % DramRange)
    BY <1>0, <2>1, <2>6, AppendProperties
  <2>8. \A n \in 1 .. Len(measured') : measured'[n] =
          (exact'[n].pkg % PkgRange) + (exact'[n].dram % DramRange)
    <3>1. \A n \in 1 .. L - 1 : measured'[n] =
            (exact'[n].pkg % PkgRange) + (exact'[n].dram % DramRange)
      BY <1>0, <2>1, <2>4, <2>7 DEF ExactInv
    <3>2. part = exact[L].pkg % PkgRange
      BY <2>1 DEF ExactInv
    <3>3. measured'[L] = (exact'[L].pkg % PkgRange) + (exact'[L].dram % DramRange)
      BY <2>5, <2>7, <3>2
    <3> QED
      BY <1>0, <2>7, <3>1, <3>3
  <2>9. ASSUME NEW d \in Domains
        PROVE  /\ \A n \in 1 .. Len(exact') : exact'[n][d] <= odometer'[d]
               /\ \A n \in 1 .. Len(exact') - 1 : exact'[n][d] <= exact'[n + 1][d]
    <3>1. \A n \in 1 .. L : exact[n][d] <= odometer[d]
      BY DEF ExactInv
    <3>2. \A n \in 1 .. L - 1 : exact[n][d] <= exact[n + 1][d]
      BY DEF ExactInv
    <3>3. exact'[L][d] \in {exact[L][d], odometer[d]}
      BY <2>5 DEF Domains
    <3>4. odometer[d] \in Nat /\ \A n \in 1 .. L : exact[n][d] \in Nat
      BY <1>0, ElementOfSeq
    <3>5. \A n \in 1 .. L - 1 : exact'[n] = exact[n] /\ n \in 1 .. L /\ n + 1 \in 1 .. L
      BY <1>0, <2>4
    <3>6. exact'[L][d] <= odometer[d] /\ exact[L][d] <= exact'[L][d]
      BY <2>1, <3>1, <3>3, <3>4
    <3>7. \A n \in 1 .. L : exact'[n][d] <= odometer[d]
      <4>1. \A n \in 1 .. L : n = L \/ n \in 1 .. L - 1
        BY <1>0
      <4> QED
        BY <3>1, <3>5, <3>6, <4>1
    <3>8. ASSUME NEW n \in 1 .. L - 1 PROVE exact'[n][d] <= exact'[n + 1][d]
      <4>1. exact[n][d] <= exact[n + 1][d] /\ exact'[n][d] = exact[n][d]
        BY <3>2, <3>5
      <4>2. CASE n + 1 = L
        <5>1. exact[L][d] \in Nat /\ exact[n][d] \in Nat /\ exact'[L][d] \in Nat
          BY <2>1, <3>3, <3>4, <3>5
        <5> QED
          BY <3>6, <4>1, <4>2, <5>1
      <4>3. CASE n + 1 # L
        <5>1. n + 1 \in 1 .. L - 1
          BY <1>0, <4>3
        <5> QED
          BY <3>5, <4>1, <5>1
      <4> QED
        BY <4>2, <4>3
    <3> QED
      BY <2>1, <2>4, <3>7, <3>8
  <2> QED
    BY <2>1, <2>8, <2>9 DEF ExactInv
<1>5. CASE CloseConfig \/ Crash
  <2>1. measured' = << >> /\ exact' = << >> /\ pc' = "off"
    BY <1>5 DEF CloseConfig, Crash, Clear
  <2> QED
    BY <2>1 DEF ExactInv
<1>6. CASE ReadConfig \/ ReadMaxRange \/ Calibrate \/ AddDifference \/ OpenConfig
  <2>1. UNCHANGED << odometer, samples >> /\ pc' # "dram"
    BY <1>6 DEF ReadConfig, ReadMaxRange, Calibrate, AddDifference, OpenConfig
  <2> QED
    BY <2>1 DEF ExactInv
<1>7. CASE UNCHANGED vars
  BY <1>7 DEF vars, ExactInv
<1> QED
  BY <1>1, <1>2, <1>3, <1>4, <1>5, <1>6, <1>7 DEF Next, Tool

(* One difference: what check_overflow makes of two successive samples.    *)
LEMMA Difference ==
  ASSUME PkgRange = DramRange, IInv, ExactInv, maxRange # 0,
         NEW n \in 1 .. Len(measured) - 1, Len(exact) = Len(measured), OneWrap(n)
  PROVE  /\ CheckOverflow(measured[n], measured[n + 1]) = Consumed(n)
         /\ Consumed(n) \in 0 .. PkgRange - 1
<1>1. /\ measured \in Seq(Nat) /\ exact \in Seq([Domains -> Nat]) /\ maxRange = PkgRange
      /\ Len(measured) \in Nat
  BY LenProperties DEF IInv, TypeOK
<1>2. n \in 1 .. Len(measured) /\ n + 1 \in 1 .. Len(measured)
  BY <1>1
<1>3. PICK a \in Nat, b \in Nat, c \in Nat, e \in Nat :
        /\ a = exact[n]["pkg"] /\ b = exact[n + 1]["pkg"]
        /\ c = exact[n]["dram"] /\ e = exact[n + 1]["dram"]
  <2>1. exact[n] \in [Domains -> Nat] /\ exact[n + 1] \in [Domains -> Nat]
    BY <1>1, <1>2, ElementOfSeq
  <2> QED
    BY <2>1 DEF Domains
<1>4. a <= b /\ c <= e
  BY <1>3 DEF ExactInv, Domains
<1>5. /\ measured[n] = (a % PkgRange) + (c % PkgRange)
      /\ measured[n + 1] = (b % PkgRange) + (e % PkgRange)
  BY <1>2, <1>3 DEF ExactInv
<1>6. Consumed(n) = (b - a) + (e - c)
  BY <1>3 DEF Consumed, Energy
<1>0. a \in Nat /\ b \in Nat /\ c \in Nat /\ e \in Nat /\ PkgRange \in Nat \ {0}
  BY <1>3, CalibrationAssumption
<1> DEFINE R == PkgRange
           v == b \div R - a \div R
           w == e \div R - c \div R
           A == a % R
           B == b % R
           C == c % R
           D == e % R
<1>7. (b - a) + (e - c) < R /\ v + w <= 1
  BY <1>3, <1>6 DEF OneWrap, Wraps, RangeOf
<1>8. /\ v \in Nat
      /\ v = 0 => B - A = b - a
      /\ v = 1 => B - A = b - a - R
  BY <1>0, <1>4, CounterAdvance
<1>9. /\ w \in Nat
      /\ w = 0 => D - C = e - c
      /\ w = 1 => D - C = e - c - R
  <2>1. c \in Nat /\ e \in Nat /\ c <= e /\ PkgRange \in Nat \ {0}
    BY <1>0, <1>4
  <2> QED
    BY <2>1, CounterAdvance
<1>10. A \in Nat /\ B \in Nat /\ C \in Nat /\ D \in Nat
  BY <1>0
<1>11. measured[n] = A + C /\ measured[n + 1] = B + D
  BY <1>5
<1> HIDE DEF v, w, A, B, C, D
<1>12. (v = 0 /\ w = 0) \/ (v = 1 /\ w = 0) \/ (v = 0 /\ w = 1)
  BY <1>7, <1>8, <1>9
<1>13. (B + D) - (A + C) = (b - a) + (e - c) \/ (B + D) - (A + C) = (b - a) + (e - c) - R
  BY <1>0, <1>8, <1>9, <1>10, <1>12
<1>14. CheckOverflow(A + C, B + D) = (b - a) + (e - c)
  BY <1>1, <1>0, <1>4, <1>7, <1>10, <1>13 DEF CheckOverflow
<1> QED
  BY <1>0, <1>4, <1>6, <1>7, <1>11, <1>14

LEMMA StepLoopInv ==
  ASSUME PkgRange = DramRange
  PROVE  IInv /\ ExactInv /\ LoopInv /\ [Next]_vars => LoopInv'
<1> SUFFICES ASSUME IInv, ExactInv, LoopInv, [Next]_vars PROVE LoopInv'
  OBVIOUS
<1> USE CalibrationAssumption DEF config, samples, loop, Goes
<1>0. /\ exact \in Seq([Domains -> Nat]) /\ i \in 1 .. Measurements
      /\ total \in Int /\ min \in Int
  BY DEF IInv, TypeOK
<1>1. CASE ReadDram
  <2>1. /\ i' = 1 /\ total' = 0 /\ min' = LongMax
    BY <1>1 DEF ReadDram, IInv, SampleInv, NoLoop
  <2>2. ASSUME pc' = "sum" PROVE exact'[1].pkg \in Nat /\ exact'[1].dram \in Nat
    <3>1. IInv'
      BY StepIInv
    <3>2. exact' \in Seq([Domains -> Nat]) /\ Len(exact') = Measurements
      BY <2>2, <3>1 DEF IInv, TypeOK, SampleInv
    <3>3. exact'[1] \in [Domains -> Nat]
      BY <3>2, ElementOfSeq
    <3> QED
      BY <3>3 DEF Domains
  <2>3. 1 .. i' - 1 = {}
    BY <2>1
  <2>4. (exact'[1].pkg + exact'[1].dram) - (exact'[1].pkg + exact'[1].dram) = 0
          \/ pc' # "sum"
    BY <2>2
  <2> QED
    BY <2>1, <2>3, <2>4 DEF LoopInv
<1>2. CASE AddDifference
  <2> DEFINE cur == CheckOverflow(measured[i], measured[i + 1])
             at(n) == exact[n].pkg + exact[n].dram
  <2>1. /\ pc = "sum" /\ i < Measurements
        /\ min' = (IF min > cur THEN cur ELSE min) /\ total' = total + cur /\ i' = i + 1
        /\ UNCHANGED << pc, odometer, file, last, config, samples >>
    BY <1>2 DEF AddDifference
  <2>0. i' - 1 = i /\ i' # 1
    <3>1. i \in Nat /\ i >= 1 /\ i' = i + 1
      BY <1>0, <2>1
    <3> QED
      BY <3>1
  <2>2. SUFFICES ASSUME maxRange # 0, \A n \in 1 .. i : OneWrap(n)
                 PROVE  /\ total' = at(i + 1) - at(1)
                        /\ \A n \in 1 .. i : min' <= Consumed(n)
                        /\ \E n \in 1 .. i : min' = Consumed(n)
    <3>1. (\A n \in 1 .. i' - 1 : OneWrap(n)') => \A n \in 1 .. i : OneWrap(n)
      <4>1. exact' = exact
        BY <2>1
      <4>2. \A n : OneWrap(n)' <=> OneWrap(n)
        BY <4>1 DEF OneWrap, Consumed, Energy, Wraps
      <4> QED
        BY <2>0, <4>2
    <3>2. \A n \in 1 .. i : Consumed(n)' = Consumed(n)
      BY <2>1 DEF Consumed, Energy
    <3> QED
      BY <2>0, <2>1, <3>1, <3>2 DEF LoopInv
  <2>3. Len(measured) = Measurements /\ Len(exact) = Measurements
    BY <2>1 DEF IInv, SampleInv
  <2>4. i \in 1 .. Len(measured) - 1
    BY <1>0, <2>1, <2>3
  <2>5. cur = Consumed(i) /\ cur \in 0 .. PkgRange - 1
    BY <2>2, <2>3, <2>4, Difference
  <2>6. /\ total = at(i) - at(1)
        /\ \A n \in 1 .. i - 1 : min <= Consumed(n)
        /\ IF i = 1 THEN min = LongMax ELSE \E n \in 1 .. i - 1 : min = Consumed(n)
    <3>1. \A n \in 1 .. i - 1 : OneWrap(n)
      BY <1>0, <2>2
    <3> QED
      BY <2>1, <2>2, <3>1 DEF LoopInv
  <2>7. \A n \in 1 .. i + 1 : exact[n]["pkg"] \in Nat /\ exact[n]["dram"] \in Nat
    <3>1. \A n \in 1 .. i + 1 : exact[n] \in [Domains -> Nat]
      BY <1>0, <2>3, <2>4, ElementOfSeq
    <3> QED
      BY <3>1 DEF Domains
  <2> HIDE DEF cur
  <2>8. total' = at(i + 1) - at(1)
    <3>1. cur = at(i + 1) - at(i)
      <4>1. i \in 1 .. i + 1 /\ i + 1 \in 1 .. i + 1
        BY <1>0
      <4>2. /\ exact[i]["pkg"] \in Nat /\ exact[i]["dram"] \in Nat
            /\ exact[i + 1]["pkg"] \in Nat /\ exact[i + 1]["dram"] \in Nat
        BY <2>7, <4>1
      <4>3. cur = (exact[i + 1]["pkg"] - exact[i]["pkg"])
                    + (exact[i + 1]["dram"] - exact[i]["dram"])
        BY <2>5 DEF Consumed, Energy
      <4> QED
        BY <4>2, <4>3
    <3>2. at(i) \in Int /\ at(i + 1) \in Int /\ at(1) \in Int
      <4>1. ASSUME NEW n \in 1 .. i + 1 PROVE at(n) \in Int
        <5>1. exact[n]["pkg"] \in Nat /\ exact[n]["dram"] \in Nat
          BY <2>7
        <5> QED
          BY <5>1
      <4> HIDE DEF at
      <4>2. {1, i, i + 1} \subseteq 1 .. i + 1
        BY <1>0
      <4> QED
        BY <4>1, <4>2
    <3> HIDE DEF at
    <3> QED
      BY <2>1, <2>6, <3>1, <3>2
  <2>9. \A n \in 1 .. i : Consumed(n) \in Int
    BY <1>0, <2>7 DEF Consumed, Energy
  <2>10. min' \in {min, cur} /\ min' <= min /\ min' <= cur
    BY <1>0, <2>1, <2>5
  <2>11. \A n \in 1 .. i : min' <= Consumed(n)
    <3>1. \A n \in 1 .. i : n = i \/ n \in 1 .. i - 1
      BY <1>0
    <3>2. min' \in Int
      BY <1>0, <2>5, <2>10
    <3>3. ASSUME NEW n \in 1 .. i - 1 PROVE min' <= Consumed(n)
      <4>1. min <= Consumed(n) /\ Consumed(n) \in Int
        BY <1>0, <2>6, <2>9
      <4> QED
        BY <1>0, <2>10, <3>2, <4>1
    <3> QED
      BY <2>5, <2>10, <3>1, <3>3
  <2>12. \E n \in 1 .. i : min' = Consumed(n)
    <3>1. CASE min' = cur
      BY <1>0, <2>5, <3>1
    <3>2. CASE min' = min /\ i # 1
      BY <1>0, <2>6, <3>2
    <3>3. CASE min' = min /\ i = 1
      <4>1. min = LongMax /\ cur < LongMax
        BY <2>5, <2>6, <3>3
      <4> QED
        BY <1>0, <2>5, <2>10, <3>3, <4>1
    <3> QED
      BY <2>10, <3>1, <3>2, <3>3
  <2> QED
    BY <2>8, <2>11, <2>12
<1>3. CASE OpenConfig \/ CloseConfig \/ Crash
  BY <1>3 DEF OpenConfig, CloseConfig, Crash, Clear, LoopInv
<1>4. CASE Start \/ ReadConfig \/ ReadMaxRange \/ Calibrate \/ ReadPkg \/ Consume
  BY <1>4 DEF Start, ReadConfig, ReadMaxRange, Calibrate, ReadPkg, Consume, Sampling,
              LoopInv
<1>5. CASE UNCHANGED vars
  BY <1>5 DEF vars, LoopInv, OneWrap, Consumed, Energy, Wraps
<1> QED
  BY <1>1, <1>2, <1>3, <1>4, <1>5 DEF Next, Tool

LEMMA InitSamples == Init => ExactInv /\ LoopInv
<1> SUFFICES ASSUME Init PROVE ExactInv /\ LoopInv
  OBVIOUS
<1>1. pc = "off" /\ measured = << >> /\ exact = << >>
  BY DEF Init, NoSamples
<1> QED
  BY <1>1 DEF ExactInv, LoopInv

------------------------------------------------------------------------------
(* The theorems.                                                           *)

(* The type invariant; no sample is taken or read past the 181st.          *)
THEOREM TypeCorrect == Spec => []TypeOK
<1>1. IInv => TypeOK
  BY DEF IInv
<1> QED
  BY <1>1, IInvCorrect, PTL

(* A start of the tool finds the result of the last calibration that ended *)
(* or nothing, wherever another one was killed.                            *)
THEOREM ConfigCorrect == Spec => []LastOrNothing
<1>1. IInv => LastOrNothing
  BY DEF IInv
<1> QED
  BY <1>1, IInvCorrect, PTL

(* What it finds is ordered as estimate_energy_cycles relies on, although  *)
(* differences may be negative and C's division rounds towards 0.          *)
THEOREM AverageCorrect == Spec => []MinBelowAverage
<1>1. IInv => MinBelowAverage
  BY DEF IInv, AverageInv, LastOrNothing, MinBelowAverage, Unset
<1> QED
  BY <1>1, IInvCorrect, PTL

(* If the two domains' counters have the same range, the calibration adds  *)
(* up the energy really consumed wherever no second saw both of them wrap. *)
THEOREM IdleCorrect ==
  ASSUME PkgRange = DramRange
  PROVE  Spec => []IdleIsConsumption
<1>1. IInv /\ LoopInv => IdleIsConsumption
  BY CalibrationAssumption DEF LoopInv, IdleIsConsumption
<1>2. IInv /\ ExactInv /\ LoopInv /\ [Next]_vars => (ExactInv /\ LoopInv)'
  BY StepExactInv, StepLoopInv
<1> QED
  BY <1>1, <1>2, InitSamples, IInvCorrect, PTL DEF Spec
==============================================================================
