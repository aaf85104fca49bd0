------------------------------ MODULE GpuThread ------------------------------
(***************************************************************************)
(* The GPU variant of the tool (src/src/main_nvml.c): a second thread adds *)
(* a sample of the GPU's energy to gpu_energy_est every tenth of a second, *)
(* while main sets it to 0 and prints it.  Neither gpu_energy_est nor      *)
(* terminate_gpu_thread is protected, and main never joins the thread.     *)
(*                                                                         *)
(* A sample is its number and gpu_energy_est the set of samples added up   *)
(* in it: each is added once, so the set says what the sum is made of.     *)
(* The addition is a load and a store, as the processor executes it.       *)
(***************************************************************************)
EXTENDS Integers

CONSTANT
  MaxSamples    \* bound: the thread takes at most this many samples

ASSUME SamplesAssumption == MaxSamples \in Nat

Modes == {"systemwide", "execute", "processes", "containers", "benchmark"}

(* The return value of a get_gpu_stats that reached its end without a      *)
(* return statement: whatever happened to be in the register.              *)
Undefined == 0

Samples == 0 .. MaxSamples

VARIABLES
  mode,        \* which branch of main was taken
  device,      \* gpu_device_count > 0
  pc,          \* main's next step
  thread,      \* the sampling thread's next step, "none" before it exists
  terminate,   \* terminate_gpu_thread
  est,         \* gpu_energy_est
  loaded,      \* the value of gpu_energy_est the thread has loaded
  fresh,       \* the sample the thread is about to add, {} if it counts as 0
  taken,       \* number of samples taken
  since,       \* history: samples stored since gpu_energy_est was last reset
  lost,        \* history: that reset fell between a load and its store
  reported,    \* history: samples in some printed total
  printed,     \* the total printed last
  logged       \* the total written to the log

mainVars == << pc, terminate, lost, reported, printed, logged >>
threadVars == << thread, loaded, fresh, taken >>
vars == << mode, device, est, since, mainVars, threadVars >>

Init ==
  /\ mode \in Modes
  /\ device \in BOOLEAN
  /\ pc = "start" /\ thread = "none"
  /\ terminate = FALSE /\ lost = FALSE
  /\ est = {} /\ loaded = {} /\ fresh = {} /\ taken = 0
  /\ since = {} /\ reported = {} /\ printed = {} /\ logged = {}

------------------------------------------------------------------------------
(* The sampling thread, gpu_thread_func.                                   *)

ThreadGoes(from, to) == thread = from /\ thread' = to

(* Mutant of CheckFlag: the loop does not look at terminate_gpu_thread.    *)
CheckFlagIgnored ==
  /\ ThreadGoes("check", "sample")
  /\ UNCHANGED << mode, device, est, since, mainVars, loaded, fresh, taken >>

CheckFlag ==
  /\ ThreadGoes("check", IF terminate THEN "ended" ELSE "sample")
  /\ UNCHANGED << mode, device, est, since, mainVars, loaded, fresh, taken >>

(* What get_gpu_stats may return as its n-th result.  An NVML error is -1, *)
(* a tenth of which is converted to 0.  The return stands inside the loop  *)
(* over the devices: the sample is the first device's, and without one no  *)
(* return is executed.                                                     *)
GetGpuStats(n) == IF device THEN {{n}, {}} ELSE {{}, {Undefined}}

Sample ==
  /\ taken < MaxSamples
  /\ ThreadGoes("sample", "load")
  /\ taken' = taken + 1
  /\ fresh' \in GetGpuStats(taken')
  /\ UNCHANGED << mode, device, est, since, mainVars, loaded >>

LoadEstimate ==
  /\ ThreadGoes("load", "store")
  /\ loaded' = est
  /\ UNCHANGED << mode, device, est, since, mainVars, fresh, taken >>

(* Mutant of StoreEstimate: the sample replaces the sum.                   *)
StoreEstimateReplaces ==
  /\ ThreadGoes("store", "check")
  /\ est' = fresh
  /\ since' = since \cup fresh
  /\ UNCHANGED << mode, device, mainVars, loaded, fresh, taken >>

StoreEstimate ==
  /\ ThreadGoes("store", "check")
  /\ est' = loaded \cup fresh
  /\ since' = since \cup fresh
  /\ UNCHANGED << mode, device, mainVars, loaded, fresh, taken >>

Thread == CheckFlag \/ Sample \/ LoadEstimate \/ StoreEstimate

------------------------------------------------------------------------------
(* main.                                                                   *)

MainGoes(from, to) ==
  pc = from /\ pc' = to /\ UNCHANGED << mode, device, loaded, fresh, taken >>

(* pthread_create.  -m without a pid skips its loop.                       *)
CreateThread ==
  /\ \/ mode = "execute" /\ MainGoes("start", "measure")
     \/ mode = "benchmark" /\ MainGoes("start", "next")
     \/ mode \notin {"execute", "benchmark"} /\ MainGoes("start", "reset")
     \/ mode = "processes" /\ MainGoes("start", "stop")
  /\ thread' = "check"
  /\ UNCHANGED << est, since, terminate, lost, reported, printed, logged >>

(* -b: the walk of the benchmark tree finds another program, or its end.   *)
NextProgram ==
  /\ \/ MainGoes("next", "reset")
     \/ MainGoes("next", "stop")
  /\ UNCHANGED << est, since, terminate, lost, reported, printed, logged, thread >>

(* Mutant of Reset: gpu_energy_est is never set back.                      *)
ResetForgotten ==
  /\ MainGoes("reset", "measure")
  /\ since' = {}
  /\ lost' = FALSE
  /\ UNCHANGED << est, terminate, reported, printed, logged, thread >>

(* gpu_energy_est = 0, before a measurement of every mode but -e.          *)
Reset ==
  /\ MainGoes("reset", "measure")
  /\ est' = {} /\ since' = {}
  /\ lost' = (thread = "store" /\ loaded # {})
  /\ UNCHANGED << terminate, reported, printed, logged, thread >>

(* sleep(interval), or system(command).                                    *)
Measure ==
  /\ MainGoes("measure", IF mode = "execute" THEN "stop" ELSE "print")
  /\ UNCHANGED << est, since, terminate, lost, reported, printed, logged, thread >>

PrintTotal ==
  /\ MainGoes("print", CASE mode = "execute" -> "log"
                         [] mode = "benchmark" -> "next"
                         [] OTHER -> "reset")
  /\ printed' = est
  /\ reported' = reported \cup est
  /\ UNCHANGED << est, since, terminate, lost, logged, thread >>

(* terminate_gpu_thread = 1: by -e before it prints, by -b and an -m       *)
(* without pids before main returns, which ends the thread.                *)
StopThread ==
  /\ MainGoes("stop", IF mode = "execute" THEN "print" ELSE "done")
  /\ terminate' = TRUE
  /\ thread' = IF mode = "execute" THEN thread ELSE "ended"
  /\ UNCHANGED << est, since, lost, reported, printed, logged >>

(* main returns, and the thread with it, in whatever step it is: -e after  *)
(* it wrote its record, if there is a log; -m in the sweep that finds the  *)
(* last process gone, before it prints; -b at a program without run.txt.   *)
Return ==
  /\ \/ MainGoes("log", "done") /\ logged' \in {est, logged}
     \/ mode = "processes" /\ MainGoes("print", "done") /\ UNCHANGED logged
     \/ mode = "benchmark" /\ MainGoes("next", "done") /\ UNCHANGED logged
  /\ thread' = "ended"
  /\ UNCHANGED << est, since, terminate, lost, reported, printed >>

Main ==
  CreateThread \/ NextProgram \/ Reset \/ Measure \/ PrintTotal \/ StopThread \/ Return

Next == Thread \/ Main

Spec == Init /\ [][Next]_vars

------------------------------------------------------------------------------
(* The variables have values of the types the program gives them.          *)
TypeOK ==
  /\ mode \in Modes
  /\ device \in BOOLEAN /\ terminate \in BOOLEAN /\ lost \in BOOLEAN
  /\ pc \in {"start", "next", "reset", "measure", "stop", "print", "log", "done"}
  /\ thread \in {"none", "check", "sample", "load", "store", "ended"}
  /\ taken \in 0 .. MaxSamples
  /\ \A set \in {est, loaded, fresh, since, reported, printed, logged} :
       set \subseteq 0 .. taken

(* gpu_energy_est holds every sample stored since main reset it            *)
(* (main_nvml.c:81, 214, 287, 445), and nothing else unless that reset     *)
(* fell between the thread's load and its store (main_nvml.c:512), which   *)
(* brings the samples before the reset back; the -1 of an NVML error       *)
(* (read_nvidia_gpu.c:73) is never added.                                  *)
SinceReset ==
  /\ since \subseteq est /\ est \subseteq 0 .. taken
  /\ ~lost => est = since

(* With that exception no sample is in two printed totals: the intervals   *)
(* of -m, -c and the system-wide mode and the programs of -b share no GPU  *)
(* energy, although the thread goes on between the printing and the reset. *)
NotTwice ==
  [][PrintTotal => (~device \/ lost \/ est \cap reported = {})]_vars

(* -e tells the thread to end and does not wait for it                     *)
(* (main_nvml.c:157): the total it logs (170) has every sample of the one  *)
(* it printed (167), and at most the one that was under way.               *)
LogMatchesPrint ==
  pc = "done" /\ logged # {} =>
    /\ printed \subseteq logged
    /\ \E s \in Samples : logged \subseteq printed \cup {s}

(***************************************************************************)
(* The inductive invariant of the theorems.                                *)
(***************************************************************************)

(* What the thread has loaded still is gpu_energy_est, unless that was     *)
(* reset meanwhile.                                                        *)
StoreInv ==
  thread = "store" => since \subseteq loaded /\ (~lost => loaded = est)

(* A new sample is in no total, and from the reset to the printing nothing *)
(* that was added since has been printed.  -e prints once.                 *)
FreshInv ==
  device =>
    /\ thread \in {"load", "store"} => fresh \cap (est \cup reported) = {}
    /\ pc \in {"measure", "print"} => since \cap reported = {}

PrintInv ==
  /\ pc = "start" => reported = {}
  /\ mode = "execute" => pc \in {"log", "done"} \/ reported = {}

(* -e never resets, and sets terminate_gpu_thread before it prints: what   *)
(* is added after that is the sample the thread had begun.                 *)
LogInv ==
  /\ \E s \in Samples : fresh \subseteq {s}
  /\ mode = "execute" =>
       ~lost /\ pc \notin {"next", "reset"} /\ (pc \in {"print", "log"} => terminate)
  /\ pc = "log" =>
       /\ mode = "execute"
       /\ printed \subseteq est /\ est \subseteq printed \cup fresh
       /\ thread \in {"sample", "load", "store"} => est = printed
  /\ logged # {} => pc = "done"

IInv ==
  /\ TypeOK /\ SinceReset /\ LogMatchesPrint
  /\ StoreInv /\ FreshInv /\ PrintInv /\ LogInv
==============================================================================
