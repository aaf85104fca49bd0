-------------------------- MODULE IntervalLog_proof --------------------------
(***************************************************************************)
(* Theorems about the log, for any capacity of the buffer and any numbers  *)
(* of processes, containers, GPUs and intervals.                           *)
(***************************************************************************)
EXTENDS IntervalLog, SequenceTheorems, TLAPS

------------------------------------------------------------------------------
(* Sequences.                                                              *)

(* A beginning of a sequence remains one when the sequence grows.          *)
LEMMA Beginning ==
  ASSUME NEW S, NEW s \in Seq(S), NEW t \in Seq(S), NEW k \in 0 .. Len(s)
  PROVE  SubSeq(s \o t, 1, k) = SubSeq(s, 1, k)
<1>1. CASE k = 0
  <2>1. SubSeq(s, 1, 0) = << >> /\ SubSeq(s \o t, 1, 0) = << >>
    BY SubSeqEmpty
  <2> QED
    BY <1>1, <2>1
<1>2. CASE k # 0
  <2>1. Len(s) \in Nat
    BY LenProperties
  <2>2. 1 \in 1 .. Len(s) /\ k \in 1 .. Len(s)
    BY <1>2, <2>1
  <2> QED
    BY <2>2, SubSeqOfConcat1
<1> QED
  BY <1>1, <1>2

(* A concatenation ends as its second part does.                           *)
LEMMA ConcatEndsWith ==
  ASSUME NEW S, NEW s \in Seq(S), NEW t \in Seq(S), NEW k, EndsWith(t, k)
  PROVE  EndsWith(s \o t, k)
<1>1. Len(s) \in Nat /\ Len(t) \in Nat \ {0} /\ Len(s \o t) = Len(s) + Len(t)
  BY ConcatProperties, LenProperties, EmptySeq DEF EndsWith
<1>2. (s \o t)[Len(s \o t)] = t[Len(t)]
  <2>1. Len(s) + Len(t) \in 1 .. Len(s) + Len(t) /\ ~(Len(s) + Len(t) <= Len(s))
        /\ (Len(s) + Len(t)) - Len(s) = Len(t)
    BY <1>1
  <2> QED
    BY <1>1, <2>1, ConcatProperties
<1>3. s \o t # << >>
  BY <1>1, ConcatProperties, EmptySeq
<1> QED
  BY <1>2, <1>3 DEF EndsWith

(* TypeOK without the quantifier over the sequences.                       *)
LEMMA Typing ==
  TypeOK <=>
    /\ mode \in Modes /\ gpus \in 0 .. MaxGpus /\ opened \in BOOLEAN
    /\ pc \in {"interval", "fill", "write", "flush", "close", "ended", "overflow"}
    /\ n \in 0 .. MaxIntervals /\ entries \in 0 .. MaxEntries
    /\ buffer \in Seq(Record) /\ stream \in Seq(Record) /\ file \in Seq(Record)
    /\ all \in Seq(Record)
    /\ ends \subseteq Nat
BY DEF TypeOK

(* The records of an interval: there is one at least, and all are its own. *)
LEMMA RecordsFacts ==
  ASSUME TypeOK, CountInv, pc = "fill"
  PROVE  /\ Size \in Nat \ {0}
         /\ Records \in Seq(Record) /\ Len(Records) = Size /\ EndsWith(Records, n)
<1> USE LogAssumption
<1>1. /\ gpus \in 0 .. MaxGpus /\ entries \in 0 .. MaxEntries
      /\ n \in 1 .. MaxIntervals /\ mode \in Modes
  BY Typing DEF CountInv
<1>2. Size \in 1 .. 1 + MaxGpus + MaxEntries
  BY <1>1 DEF Size
<1> HIDE DEF Size
<1>3. \A k \in 1 .. Size : << n, k >> \in Record
  BY <1>1, <1>2 DEF Record
<1>4. Records \in [1 .. Size -> Record] /\ Size \in Nat
  BY <1>2, <1>3 DEF Records
<1>5. Records \in Seq(Record) /\ Len(Records) = Size
  BY <1>4
<1>6. Records[Size] = << n, Size >> /\ Records # << >>
  BY <1>2, <1>5, EmptySeq DEF Records
<1> QED
  BY <1>2, <1>5, <1>6 DEF EndsWith

------------------------------------------------------------------------------

LEMMA InitIInv == Init => IInv
<1> SUFFICES ASSUME Init PROVE IInv
  OBVIOUS
<1> USE LogAssumption
<1>1. << >> \in Seq(Record) /\ Len(<< >>) = 0
  BY EmptySeq
<1>2. TypeOK
  BY <1>1, Typing DEF Init, Modes
<1>3. WholeIntervals
  BY SubSeqEmpty DEF Init, WholeIntervals
<1>4. CountInv /\ BufferInv /\ LastInv /\ AtMostOneMissing /\ OverflowOnlyBy
  BY DEF Init, CountInv, BufferInv, LastInv, AtMostOneMissing, OverflowOnlyBy
<1> QED
  BY <1>2, <1>3, <1>4 DEF IInv

LEMMA StepIInv == IInv /\ [Next]_vars => IInv'
<1> SUFFICES ASSUME IInv, [Next]_vars PROVE IInv'
  OBVIOUS
<1> USE LogAssumption DEF history
<1>0. /\ buffer \in Seq(Record) /\ stream \in Seq(Record) /\ file \in Seq(Record)
      /\ all \in Seq(Record) /\ n \in 0 .. MaxIntervals
      /\ Len(file) \in Nat /\ Len(all) \in Nat /\ Len(file) <= Len(all)
  BY Typing, LenProperties DEF IInv, BufferInv
<1>1. CASE Interval
  <2>1. /\ entries' \in 0 .. MaxEntries /\ opened' \in BOOLEAN
        /\ mode \in {"systemwide", "execute", "benchmark"} => entries' = 0
        /\ mode # "benchmark" => opened' = opened
    BY <1>1, Typing DEF IInv, Interval, CountInv, Modes
  <2>2. /\ pc = "interval" /\ n < MaxIntervals /\ n' = n + 1 /\ pc' \in {"fill", "ended"}
        /\ pc' = "ended" => mode = "processes"
        /\ UNCHANGED << mode, gpus, buffer, stream, file, history >>
    BY <1>1 DEF Interval
  <2>3. TypeOK'
    BY <2>1, <2>2, Typing DEF IInv, TypeOK
  <2>4. CountInv' /\ BufferInv'
    BY <1>0, <2>1, <2>2 DEF IInv, CountInv, BufferInv
  <2>5. LastInv' /\ AtMostOneMissing'
    BY <1>0, <2>1, <2>2 DEF IInv, CountInv, LastInv, AtMostOneMissing, EndsWith
  <2> QED
    BY <2>2, <2>3, <2>4, <2>5 DEF IInv, WholeIntervals, OverflowOnlyBy
<1>2. CASE Fill
  <2>1. /\ pc = "fill" /\ buffer' = buffer \o Records /\ all' = all \o Records
        /\ ends' = ends \cup {Len(all')} /\ pc' \in {"write", "overflow"}
        /\ pc' = "overflow" => Len(buffer') > Capacity
        /\ UNCHANGED << mode, gpus, opened, n, entries, stream, file >>
    BY <1>2 DEF Fill
  <2>2. /\ Size \in Nat \ {0} /\ Records \in Seq(Record) /\ Len(Records) = Size
        /\ EndsWith(Records, n)
    BY <2>1, RecordsFacts DEF IInv
  <2>3. /\ buffer' \in Seq(Record) /\ all' \in Seq(Record)
        /\ Len(all') = Len(all) + Size /\ Len(all') \in Nat
    <3>1. /\ buffer \o Records \in Seq(Record) /\ all \o Records \in Seq(Record)
          /\ Len(all \o Records) = Len(all) + Len(Records)
      BY <1>0, <2>2, ConcatProperties
    <3> QED
      BY <1>0, <2>1, <2>2, <3>1
  <2>4. TypeOK'
    BY <2>1, <2>3, Typing DEF IInv, TypeOK
  <2>5. opened => buffer = << >> /\ all = file
    BY <2>1 DEF IInv, BufferInv
  <2>6. opened => buffer' = Records
    BY <2>1, <2>2, <2>5, ConcatEmptySeq
  <2>7. BufferInv'
    <3>1. opened => all' = file \o buffer' /\ EndsWith(buffer', n)
      BY <2>1, <2>2, <2>5, <2>6
    <3>2. Len(all') \in ends' /\ Len(file) <= Len(all')
      BY <1>0, <2>1, <2>2, <2>3
    <3> QED
      BY <2>1, <3>1, <3>2 DEF IInv, BufferInv, EndsWith
  <2>8. WholeIntervals'
    <3>1. SubSeq(all', 1, Len(file)) = SubSeq(all, 1, Len(file))
      BY <1>0, <2>1, <2>2, Beginning
    <3> QED
      BY <2>1, <3>1 DEF IInv, WholeIntervals
  <2>9. OverflowOnlyBy'
    BY <2>1, <2>2, <2>6 DEF OverflowOnlyBy, Size
  <2>10. CountInv' /\ LastInv' /\ AtMostOneMissing'
    BY <2>1 DEF IInv, CountInv, LastInv, AtMostOneMissing
  <2> QED
    BY <2>4, <2>7, <2>8, <2>9, <2>10 DEF IInv
<1>3. CASE PrintBuffer
  <2>1. /\ pc = "write" /\ UNCHANGED << mode, gpus, opened, n, entries, buffer, file, history >>
        /\ opened => stream' = stream \o buffer /\ pc' = "flush"
        /\ ~opened => stream' = stream /\ pc' \in {"interval", "close"}
        /\ ~opened /\ mode = "benchmark" => pc' = "close"
        /\ ~opened /\ mode = "execute" => pc' = "close"
    BY <1>3 DEF PrintBuffer, AfterWrite, Monitoring
  <2>2. stream = << >>
    BY <2>1 DEF IInv, BufferInv
  <2>3. opened => stream' = buffer
    BY <1>0, <2>1, <2>2, ConcatEmptySeq
  <2>4. TypeOK'
    BY <1>0, <2>1, <2>3, Typing DEF IInv, TypeOK
  <2>5. CountInv' /\ BufferInv' /\ LastInv'
    BY <2>1, <2>2, <2>3 DEF IInv, CountInv, BufferInv, LastInv
  <2> QED
    BY <2>1, <2>4, <2>5 DEF IInv, WholeIntervals, AtMostOneMissing, OverflowOnlyBy
<1>4. CASE Flush
  <2>1. /\ pc = "flush" /\ file' = file \o stream /\ stream' = << >> /\ buffer' = << >>
        /\ pc' \in {"interval", "close"}
        /\ pc' = "interval" => mode \in Monitoring
        /\ UNCHANGED << mode, gpus, opened, n, entries, history >>
    BY <1>4 DEF Flush, AfterWrite
  <2>2. opened /\ file' = all /\ Len(all) \in ends /\ EndsWith(stream, n)
    BY <2>1 DEF IInv, BufferInv
  <2>3. EndsWith(file', n)
    BY <1>0, <2>1, <2>2, ConcatEndsWith
  <2>4. TypeOK'
    BY <1>0, <2>1, <2>2, EmptySeq, Typing DEF IInv, TypeOK
  <2>5. CountInv' /\ BufferInv' /\ LastInv'
    BY <1>0, <2>1, <2>2, <2>3 DEF IInv, CountInv, BufferInv, LastInv, Monitoring, EndsWith
  <2>6. WholeIntervals'
    BY <1>0, <2>1, <2>2, SubSeqFull DEF WholeIntervals
  <2>7. AtMostOneMissing' /\ OverflowOnlyBy'
    BY <1>0, <2>1, <2>3 DEF AtMostOneMissing, OverflowOnlyBy, EndsWith
  <2> QED
    BY <2>4, <2>5, <2>6, <2>7 DEF IInv
<1>5. CASE Close
  <2>1. /\ pc = "close" /\ pc' \in {"interval", "ended"} /\ file' = file \o stream
        /\ pc' = "interval" => mode = "benchmark" /\ opened
        /\ stream' = << >> /\ UNCHANGED << mode, gpus, opened, n, entries, buffer, history >>
    BY <1>5 DEF Close
  <2>2. stream = << >> /\ file' = file
    <3>1. stream = << >>
      BY <2>1 DEF IInv, BufferInv
    <3> QED
      BY <1>0, <2>1, <3>1, ConcatEmptySeq
  <2>3. TypeOK'
    BY <1>0, <2>1, <2>2, Typing DEF IInv, TypeOK
  <2>4. CountInv' /\ BufferInv' /\ LastInv'
    BY <2>1, <2>2 DEF IInv, CountInv, BufferInv, LastInv
  <2> QED
    BY <2>1, <2>2, <2>3, <2>4 DEF IInv, WholeIntervals, AtMostOneMissing, OverflowOnlyBy
<1>6. CASE Kill
  BY <1>6 DEF Kill, IInv, TypeOK, CountInv, BufferInv, LastInv, WholeIntervals,
              AtMostOneMissing, OverflowOnlyBy
<1>7. CASE UNCHANGED vars
  BY <1>7 DEF vars, IInv, TypeOK, CountInv, BufferInv, LastInv, WholeIntervals,
              AtMostOneMissing, OverflowOnlyBy, Size
<1> QED
  BY <1>1, <1>2, <1>3, <1>4, <1>5, <1>6, <1>7 DEF Next

LEMMA IInvCorrect == Spec => []IInv
BY InitIInv, StepIInv, PTL DEF Spec

(* The type invariant.                                                     *)
THEOREM TypeCorrect == Spec => []TypeOK
<1>1. IInv => TypeOK
  BY DEF IInv
<1> QED
  BY <1>1, IInvCorrect, PTL

(* Wherever the tool is killed, the file holds whole intervals, in order   *)
(* and each once.                                                          *)
THEOREM FileCorrect == Spec => []WholeIntervals
<1>1. IInv => WholeIntervals
  BY DEF IInv
<1> QED
  BY <1>1, IInvCorrect, PTL

(* And at most the last interval is missing in it.                         *)
THEOREM MissingCorrect == Spec => []AtMostOneMissing
<1>1. IInv => AtMostOneMissing
  BY DEF IInv
<1> QED
  BY <1>1, IInvCorrect, PTL

(* For any capacity, only an interval that is too large by itself, or a    *)
(* run without a file, overflows the buffer.                               *)
THEOREM OverflowCorrect == Spec => []OverflowOnlyBy
<1>1. IInv => OverflowOnlyBy
  BY DEF IInv
<1> QED
  BY <1>1, IInvCorrect, PTL
==============================================================================
