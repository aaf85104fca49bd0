------------------------------ MODULE Statistics ------------------------------
(***************************************************************************)
(* The CPU time (and, treated alike, the I/O operations) of one process,   *)
(* one container or the system from interval to interval:                  *)
(* read_process_stats and read_systemwide_stats (src/src/process_stats.c)  *)
(* and the reads of add_docker_container and update_docker_containers      *)
(* (src/src/container_stats.c).  The kernel shows what was used since the  *)
(* subject started; the tool keeps the value of its last read, prints the  *)
(* difference and logs the value itself.                                   *)
(***************************************************************************)
EXTENDS Integers

CONSTANTS
  Word,        \* unsigned differences are taken modulo Word
  MaxUsage,    \* bound on what the kernel shows
  MaxRestarts  \* bound on the restarts of a container

ASSUME StatisticsAssumption ==
  Word \in Nat \ {0} /\ MaxUsage \in 1 .. Word - 1 /\ MaxRestarts \in Nat

VARIABLES
  kind,        \* whose statistics
  pc,          \* "first" read, "interval" up to the next read, "print"
  usage,       \* what the kernel shows
  memory,      \* the line VmRSS: "none" if missing, "zero", "some"
  restarts,    \* number of restarts of the container so far
  cputime,     \* the value of the last read
  interval,    \* cputime_interval
  rss,         \* the resident memory of the last read that found the line
  logged,      \* the last values logged, oldest first, -1 if there is none
  used,        \* history: what was used since the last read
  window,      \* history: what was used between the last two reads
  restarted    \* history: restarted between the last two reads, or since

vars == << kind, pc, usage, memory, restarts, cputime, interval, rss, logged,
           used, window, restarted >>

Init ==
  /\ kind \in {"process", "container", "system"}
  /\ pc = "first"
  /\ usage \in 0 .. MaxUsage /\ (kind = "system" => usage > 0)
  /\ memory \in {"none", "zero", "some"}
  /\ restarts = 0 /\ cputime = 0 /\ interval = 0 /\ rss = "zero"
  /\ logged = << -1, -1 >>
  /\ used = 0 /\ window = 0 /\ restarted = [before |-> FALSE, since |-> FALSE]

------------------------------------------------------------------------------
(* The machine.                                                            *)

Use ==
  /\ usage < MaxUsage
  /\ usage' = usage + 1 /\ used' = used + 1
  /\ UNCHANGED << kind, pc, memory, restarts, cputime, interval, rss, logged,
                  window, restarted >>

(* All of a process's memory is swapped out or comes back; a kernel thread *)
(* never has the line, a zombie has it no more.                            *)
ChangeMemory ==
  /\ kind = "process" /\ memory # "none"
  /\ memory' \in {"none", "zero", "some"} \ {memory}
  /\ UNCHANGED << kind, pc, usage, restarts, cputime, interval, rss, logged,
                  used, window, restarted >>

(* A container ends and starts again under its name, with a new cgroup.    *)
Restart ==
  /\ kind = "container" /\ pc # "first" /\ restarts < MaxRestarts
  /\ usage' = 0 /\ restarts' = restarts + 1
  /\ restarted' = [restarted EXCEPT !.since = TRUE]
  /\ UNCHANGED << kind, pc, memory, cputime, interval, rss, logged, used, window >>

------------------------------------------------------------------------------
(* The tool.                                                               *)

(* Mutant of Minus: signed values.                                         *)
MinusSigned(a, b) == a - b

Minus(a, b) == (a - b) % Word

(* What every read does, from one step of the tool to the next.            *)
Read(from, to) ==
  /\ pc = from /\ pc' = to
  /\ window' = used /\ used' = 0
  /\ restarted' = [before |-> restarted.since, since |-> FALSE]
  /\ UNCHANGED << kind, usage, memory, restarts, logged >>

(* The set-up of -m and its sweep: read_process_stats.  Without the line   *)
(* the old rss stays, and with resident memory 0 the old difference.       *)
ReadProcess ==
  /\ kind = "process"
  /\ Read("first", "interval") \/ Read("interval", "print")
  /\ cputime' = usage
  /\ rss' = IF memory = "none" THEN rss ELSE memory
  /\ interval' = IF rss' = "zero" THEN interval ELSE Minus(usage, cputime)

(* Mutant of ReadSystem: once set, the value kept is not replaced.         *)
ReadSystemOnce ==
  /\ kind = "system"
  /\ Read("first", "interval") \/ Read("interval", "print")
  /\ cputime' = IF cputime = 0 THEN usage ELSE cputime
  /\ interval' = IF cputime = 0 THEN interval ELSE Minus(usage, cputime)
  /\ UNCHANGED rss

(* The system, read before and after an interval or a run:                 *)
(* read_systemwide_stats, whose first call has nothing to subtract.        *)
ReadSystem ==
  /\ kind = "system"
  /\ Read("first", "interval") \/ Read("interval", "print")
  /\ cputime' = usage
  /\ interval' = IF cputime = 0 THEN interval ELSE Minus(usage, cputime)
  /\ UNCHANGED rss

(* A container is found before the loop, or by an update, after which it   *)
(* is printed as it is.                                                    *)
AddContainer ==
  /\ kind = "container"
  /\ Read("first", "interval") \/ Read("first", "print")
  /\ cputime' = usage /\ interval' = 0
  /\ UNCHANGED rss

(* Mutant of UpdateContainer: the value is kept before it is subtracted.   *)
UpdateContainerSwapped ==
  /\ kind = "container"
  /\ Read("interval", "print")
  /\ cputime' = usage
  /\ interval' = Minus(usage, cputime')
  /\ UNCHANGED rss

UpdateContainer ==
  /\ kind = "container"
  /\ Read("interval", "print")
  /\ interval' = Minus(usage, cputime)
  /\ cputime' = usage
  /\ UNCHANGED rss

(* The difference is printed and the value logged.                         *)
PrintRecord ==
  /\ pc = "print"
  /\ pc' = IF kind = "system" THEN "first" ELSE "interval"
  /\ logged' = << logged[2], cputime >>
  /\ UNCHANGED << kind, usage, memory, restarts, cputime, interval, rss,
                  used, window, restarted >>

Next ==
  \/ Use \/ ChangeMemory \/ Restart
  \/ ReadProcess \/ ReadSystem \/ AddContainer \/ UpdateContainer \/ PrintRecord

Spec == Init /\ [][Next]_vars

------------------------------------------------------------------------------
(* Differences are unsigned.                                               *)
TypeOK ==
  /\ kind \in {"process", "container", "system"}
  /\ pc \in {"first", "interval", "print"}
  /\ usage \in 0 .. MaxUsage /\ cputime \in 0 .. MaxUsage
  /\ memory \in {"none", "zero", "some"} /\ rss \in {"zero", "some"}
  /\ restarts \in 0 .. MaxRestarts
  /\ interval \in 0 .. Word - 1
  /\ used \in Nat /\ window \in Nat
  /\ logged \in (-1 .. MaxUsage) \X (-1 .. MaxUsage)
  /\ restarted \in [before : BOOLEAN, since : BOOLEAN]

(* The printed interval and the one before have just been logged.          *)
Logged == /\ pc = IF kind = "system" THEN "first" ELSE "interval"
          /\ logged[1] # -1

(* The return at process_stats.c:91, meant for a process just created.     *)
Skipped == kind = "process" /\ rss = "zero"

(* What is printed for an interval is the CPU time used between the two    *)
(* reads that bound it, and is so again in the interval after one that was *)
(* skipped for want of resident memory (process_stats.c:91-97) or spoilt   *)
(* by a restart (container_stats.c:101-102): neither touches its           *)
(* neighbours.                                                             *)
IntervalIsUsage ==
  pc = "print" /\ ~Skipped /\ ~restarted.before =>
    \/ interval = window
    \/ kind = "container" /\ logged[2] = -1 /\ interval = 0

(* Print and log agree (main.c:88-91, 228, 237, 275, 284): the difference  *)
(* of two successive records of a process or container is what was printed *)
(* with the second, restarts included.  Records of the system differ by at *)
(* least that, as they also count what is used between two intervals.      *)
LogMatchesInterval ==
  Logged /\ ~Skipped =>
    IF kind = "system" THEN logged[2] - logged[1] >= interval
                       ELSE Minus(logged[2], logged[1]) = interval

------------------------------------------------------------------------------
(* The inductive invariant.                                                *)

(* Since the last read, unless there was none or a restart came between,   *)
(* the kernel's sum has grown by what was used.                            *)
CountInv ==
  (pc # "first" \/ cputime > 0) /\ ~restarted.since => usage = cputime + used

(* What is known before the first read, and of those that cannot restart.  *)
(* The system has always used some CPU time, so 0 means "not read".        *)
StartInv ==
  /\ kind # "container" => ~restarted.before /\ ~restarted.since
  /\ kind # "system" /\ pc = "first" => cputime = 0 /\ logged = << -1, -1 >>
  /\ kind = "system" => usage > 0 /\ (pc # "first" => cputime > 0)

(* The last record and the value kept: equal until the next read, which    *)
(* makes them differ by the interval.  The system's is read once more.     *)
LastInv ==
  logged[2] # -1 =>
    /\ pc = (IF kind = "system" THEN "first" ELSE "interval") => logged[2] = cputime
    /\ kind = "system" => logged[2] <= cputime
    /\ pc = "print" /\ ~Skipped =>
         IF kind = "system" THEN cputime - logged[2] >= interval
                            ELSE Minus(cputime, logged[2]) = interval

IInv ==
  TypeOK /\ CountInv /\ StartInv /\ LastInv /\ IntervalIsUsage /\ LogMatchesInterval
=============================================================================
