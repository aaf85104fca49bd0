----------------------------- MODULE IntervalLog -----------------------------
(***************************************************************************)
(* The log: what the *_to_buffer functions and writeToFile                 *)
(* (src/src/logging.c) make of the intervals of the monitoring modes and   *)
(* of the programs of -e and -b.  Records are collected in a buffer of     *)
(* main that nobody checks, printed to a stream, flushed, and the buffer   *)
(* is emptied.  A file that was not opened makes writeToFile return before *)
(* that.  The tool may be killed anywhere.                                 *)
(***************************************************************************)
EXTENDS Integers, Sequences

CONSTANTS
  Capacity,      \* number of records that fit into logging_buffer
  MaxEntries,    \* bound on the processes or containers of an interval
  MaxGpus,       \* bound on the GPUs of the GPU variant, which log each their own
  MaxIntervals   \* bound on the intervals, or programs of -b

ASSUME LogAssumption ==
  /\ Capacity \in Nat /\ MaxEntries \in Nat \ {0}
  /\ MaxGpus \in Nat /\ MaxIntervals \in Nat

Modes == {"systemwide", "processes", "containers", "execute", "benchmark"}

(* One file for a run, or one for each program, closed after its record.   *)
Monitoring == {"systemwide", "processes", "containers"}

VARIABLES
  mode,
  gpus,      \* number of GPUs, 0 in main.c
  opened,    \* logfile is not NULL
  pc,        \* "interval", "fill", "write", "flush", "close", "ended", "overflow"
  n,         \* number of the interval
  entries,   \* processes or containers listed in it
  buffer,    \* logging_buffer: the records in it
  stream,    \* records printed to the stream and not yet in the file
  file,      \* records in the file, or in the files in their order
  all,       \* history: every record put into the buffer
  ends       \* history: the numbers of them at which an interval was complete

history == << all, ends >>
vars == << mode, gpus, opened, pc, n, entries, buffer, stream, file, history >>

(* The records of the interval: the system's, one for each GPU, one for    *)
(* each entry; for a program the system's and the cgroup's.                *)
Size == IF mode \in Monitoring THEN 1 + gpus + entries ELSE 2

Records == [k \in 1 .. Size |-> << n, k >>]

Init ==
  /\ mode \in Modes
  /\ gpus \in 0 .. MaxGpus
  /\ opened \in BOOLEAN
  /\ entries \in IF mode = "processes" THEN 1 .. MaxEntries ELSE {0}
  /\ pc = "interval" /\ n = 0
  /\ buffer = << >> /\ stream = << >> /\ file = << >>
  /\ all = << >> /\ ends = {0}

------------------------------------------------------------------------------

(* An interval passes and is printed, or a program is run.  Containers     *)
(* come and go, processes only go; when the last one is gone -m returns    *)
(* without logging.  -b opens a file for the program now.                  *)
Interval ==
  /\ pc = "interval" /\ n < MaxIntervals
  /\ n' = n + 1
  /\ \/ /\ pc' = "fill"
        /\ entries' \in CASE mode = "processes" -> 1 .. entries
                          [] mode = "containers" -> 0 .. MaxEntries
                          [] OTHER -> {0}
        /\ opened' \in IF mode = "benchmark" THEN BOOLEAN ELSE {opened}
     \/ /\ mode = "processes"
        /\ pc' = "ended"
        /\ UNCHANGED << entries, opened >>
  /\ UNCHANGED << mode, gpus, buffer, stream, file, history >>

(* The records are appended one after the other with strcat and sprintf,   *)
(* past the end of the buffer if there are too many.                       *)
Fill ==
  /\ pc = "fill"
  /\ buffer' = buffer \o Records
  /\ all' = all \o Records /\ ends' = ends \cup {Len(all')}
  /\ pc' = IF Len(buffer') > Capacity THEN "overflow" ELSE "write"
  /\ UNCHANGED << mode, gpus, opened, n, entries, stream, file >>

AfterWrite == IF mode \in Monitoring THEN "interval" ELSE "close"

(* writeToFile up to fprintf; it returns if there is no file.              *)
PrintBuffer ==
  /\ pc = "write"
  /\ IF opened
       THEN stream' = stream \o buffer /\ pc' = "flush"
       ELSE UNCHANGED stream /\ pc' = AfterWrite
  /\ UNCHANGED << mode, gpus, opened, n, entries, buffer, file, history >>

(* Mutants of Flush: no fflush; the buffer is not emptied.                 *)
FlushForgotten ==
  /\ pc = "flush"
  /\ buffer' = << >>
  /\ pc' = AfterWrite
  /\ UNCHANGED << mode, gpus, opened, n, entries, stream, file, history >>
FlushUncleared ==
  /\ pc = "flush"
  /\ file' = file \o stream /\ stream' = << >>
  /\ pc' = AfterWrite
  /\ UNCHANGED << mode, gpus, opened, n, entries, buffer, history >>

(* fflush, and the buffer is emptied.                                      *)
Flush ==
  /\ pc = "flush"
  /\ file' = file \o stream /\ stream' = << >>
  /\ buffer' = << >>
  /\ pc' = AfterWrite
  /\ UNCHANGED << mode, gpus, opened, n, entries, history >>

(* fclose, of a file that was not opened too, which ends the tool; -b goes *)
(* on with the next program.                                               *)
Close ==
  /\ pc = "close"
  /\ pc' = IF mode = "benchmark" /\ opened THEN "interval" ELSE "ended"
  /\ file' = file \o stream /\ stream' = << >>
  /\ UNCHANGED << mode, gpus, opened, n, entries, buffer, history >>

(* A signal ends the tool; what is in the stream is lost.                  *)
Kill ==
  /\ pc \notin {"ended", "overflow"}
  /\ pc' = "ended"
  /\ UNCHANGED << mode, gpus, opened, n, entries, buffer, stream, file, history >>

Next == Interval \/ Fill \/ PrintBuffer \/ Flush \/ Close \/ Kill

Spec == Init /\ [][Next]_vars

------------------------------------------------------------------------------
Record == (1 .. MaxIntervals) \X (1 .. 1 + MaxGpus + MaxEntries)

TypeOK ==
  /\ mode \in Modes /\ gpus \in 0 .. MaxGpus /\ opened \in BOOLEAN
  /\ pc \in {"interval", "fill", "write", "flush", "close", "ended", "overflow"}
  /\ n \in 0 .. MaxIntervals /\ entries \in 0 .. MaxEntries
  /\ \A seq \in {buffer, stream, file, all} : seq \in Seq(Record)
  /\ ends \subseteq Nat

(* The file holds every record of the first so many intervals, each once   *)
(* and in order, and never a part of an interval, wherever the tool was    *)
(* killed (logging.c:52-56) and however the list changed in between.       *)
WholeIntervals ==
  /\ Len(file) \in ends
  /\ file = SubSeq(all, 1, Len(file))

(* At most the last interval is missing in the file: fflush at every       *)
(* interval leaves nothing in the stream (logging.c:54).  It is missing    *)
(* too when -m returns in the sweep that finds the last process gone       *)
(* (main.c:216).                                                           *)
AtMostOneMissing ==
  opened /\ mode # "benchmark" /\ pc # "overflow" =>
    n <= 1 \/ (file # << >> /\ file[Len(file)][1] >= n - 1)

(* The buffer only overflows when one interval alone is too large for it   *)
(* (logging.c:76, 86), or in a run whose file could not be opened, where   *)
(* it is filled interval after interval and never emptied (logging.c:47).  *)
OverflowOnlyBy ==
  pc = "overflow" => Size > Capacity \/ ~opened

(***************************************************************************)
(* The inductive invariant of the theorems.                                *)
(***************************************************************************)

(* The last record of a sequence is of interval k.                         *)
EndsWith(seq, k) == seq # << >> /\ seq[Len(seq)][1] = k

(* Which intervals there can have been, and which of them list entries.    *)
CountInv ==
  /\ pc \in {"fill", "write", "flush"} => n > 0
  /\ mode = "execute" => n <= 1 /\ (pc = "interval" => n = 0)
  /\ mode \in {"systemwide", "execute", "benchmark"} => entries = 0

(* Between two intervals everything is in the file and the buffer empty,   *)
(* unless a monitoring run has no file.  -b opens one for every program.   *)
BufferInv ==
  /\ pc \in {"interval", "fill"} /\ (opened \/ mode = "benchmark") =>
       buffer = << >> /\ all = file
  /\ pc = "write" /\ opened =>
       all = file \o buffer /\ Len(all) \in ends /\ EndsWith(buffer, n)
  /\ pc = "flush" =>
       opened /\ all = file \o stream /\ Len(all) \in ends /\ EndsWith(stream, n)
  /\ pc = "close" /\ opened => buffer = << >> /\ all = file
  /\ pc \notin {"flush", "ended"} => stream = << >>
  /\ Len(file) <= Len(all)

(* The last interval in the file.                                          *)
LastInv ==
  opened /\ mode # "benchmark" =>
    /\ pc = "interval" => n = 0 \/ EndsWith(file, n)
    /\ pc \in {"fill", "write", "flush"} => n = 1 \/ EndsWith(file, n - 1)

IInv ==
  /\ TypeOK /\ CountInv /\ BufferInv /\ LastInv
  /\ WholeIntervals /\ AtMostOneMissing /\ OverflowOnlyBy
==============================================================================
