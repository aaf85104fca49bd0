------------------------------ MODULE Benchmark ------------------------------
(***************************************************************************)
(* Measuring whole programs in a cgroup: -b walks a directory of languages *)
(* and algorithms and runs each run.txt, -e runs one command.  Models the  *)
(* two branches of src/src/main.c with src/src/benchmarking.c.             *)
(*                                                                         *)
(* A program may leave background processes in the cgroup, which end at    *)
(* any time; a cgroup with processes cannot be removed, and a run adds to  *)
(* the statistics of whatever cgroup it finds.  Creating the cgroup,       *)
(* opening its events and reading its files may all fail in any run; the   *)
(* tool goes on.  Of its descriptors the model follows number 1, which is  *)
(* what a failed event is stored as, read as and closed as.                *)
(***************************************************************************)
EXTENDS Naturals, FiniteSets

CONSTANTS
  Langs,      \* names in the benchmark directory
  Algs,       \* names in each language directory
  MaxDaemons  \* bound: how many programs leave background processes

Entry   == Langs \X Algs
Home    == <<"home">>       \* where the tool was started
Command == <<"command">>    \* the command line of -e
Garbage == <<"garbage">>    \* what an uninitialised buffer may hold
Program == Entry \cup {Command, Garbage}
Uninitialised == <<"uninitialised">>   \* in place of a number: nobody assigned it

(* A name in a language directory: a stray file, or a directory without a  *)
(* run.txt, with an empty one, or with a command in it.                    *)
Kind == {"file", "absent", "empty", "command"}

(* How many of cpu.stat, memory.peak and io.stat a run manages to open.    *)
Files == {"none", "some", "all"}

VARIABLES
  mode,        \* "benchmark" (-b) or "execute" (-e)
  terminal,    \* whether standard output is a terminal
  relative,    \* whether the path given with -b is relative
  pc,          \* the tool's next step
  cwd,         \* its working directory
  runFile,     \* what its run.txt is, if it has one: a kind
  langs, algs, \* names the two directory walks have yet to return
  entry,       \* lang_folder and alg_entry
  program,     \* the program in command, and in the buffer line
  exists,      \* whether the cgroup exists
  members,     \* programs with background processes in the cgroup
  usage,       \* programs in the statistics of the cgroup
  counted,     \* programs in the counts of the cgroup's perf events
  cells,       \* what cgroup_perf_fds holds: open events, and the 1 of failed ones
  one,         \* what descriptor 1 is: standard output, a directory, or free
  broken,      \* languages whose directory was closed while it was walked
  result,      \* cg_stats but for:
  bytes,       \* its r_bytes and w_bytes, or what is left in their place
  log,         \* what the records written are named after and are of
  \* History variables, for the properties only.
  daemons,     \* programs that ever left background processes
  failing,     \* languages with a run some of whose events failed
  tidy         \* whether all names met were directories, of algorithms with a command

modeVars   == <<mode, terminal, relative>>
walkVars   == <<cwd, runFile, langs, algs, entry, program, tidy>>
cgroupVars == <<exists, members, usage>>
fdVars     == <<cells, one, broken, failing>>
statVars   == <<result, bytes>>
vars == <<modeVars, walkVars, pc, cgroupVars, counted, fdVars, statVars, log, daemons>>

NoResult == [files |-> "none", failed |-> FALSE, usage |-> {}, cycles |-> {}]

Init ==
  /\ mode \in {"benchmark", "execute"}
  /\ terminal \in BOOLEAN
  /\ relative \in BOOLEAN
  \* The directory the tool is started in has no run.txt.
  /\ cwd = Home /\ runFile = "absent" /\ langs = Langs /\ algs = {}
  /\ IF mode = "benchmark"
       THEN pc = "opendir" /\ entry = Home /\ program = Garbage
       ELSE pc = "reset" /\ entry = Command /\ program = Command
  /\ exists = FALSE /\ members = {} /\ usage = {}
  /\ counted = {} /\ cells = {} /\ one = "stdout" /\ broken = {}
  \* cg_stats is set to zero in -e only.
  /\ result = NoResult /\ bytes = (IF mode = "execute" THEN {} ELSE {Uninitialised})
  /\ log = {} /\ daemons = {} /\ failing = {} /\ tidy = TRUE

(* The background processes a program left end.                            *)
DaemonExits(p) ==
  /\ p \in members
  /\ members' = members \ {p}
  /\ UNCHANGED <<modeVars, walkVars, pc, exists, usage, counted, fdVars, statVars, log, daemons>>

(***************************************************************************)
(* The directory walk of -b.                                               *)
(***************************************************************************)

(* A path below the given one leads there from the working directory.      *)
Resolves == ~relative \/ cwd = Home

(* The result of opendir is reported and then used all the same.           *)
OpenBenchDir ==
  /\ pc = "opendir"
  /\ pc' \in {"lang", "crashed"}
  /\ UNCHANGED <<modeVars, walkVars, cgroupVars, counted, fdVars, statVars, log, daemons>>

(* A name that cannot be opened as a directory is skipped.  The language   *)
(* directory gets descriptor 1 once standard output is lost.               *)
NextLang(l) ==
  /\ pc = "lang" /\ l \in langs
  /\ langs' = langs \ {l}
  /\ \/ /\ Resolves
        /\ algs' = Algs /\ entry' = <<l>> /\ pc' = "alg"
        /\ one' = IF one = "free" THEN "directory" ELSE one
        /\ UNCHANGED tidy
     \/ tidy' = FALSE /\ UNCHANGED <<algs, entry, pc, one>>
  /\ UNCHANGED <<modeVars, cwd, runFile, program, cgroupVars, counted, cells, broken, failing,
                 statVars, log, daemons>>

(* Mutant of LangsDone: the directory is read again.                       *)
LangsDoneRewind ==
  /\ pc = "lang" /\ langs = {}
  /\ langs' = Langs
  /\ UNCHANGED <<modeVars, cwd, runFile, algs, entry, program, tidy, pc, cgroupVars, counted, fdVars,
                 statVars, log, daemons>>

LangsDone ==
  /\ pc = "lang" /\ langs = {}
  /\ pc' = "close"
  /\ UNCHANGED <<modeVars, walkVars, cgroupVars, counted, fdVars, statVars, log, daemons>>

(* chdir fails unnoticed on a stray file and on a path that does not       *)
(* resolve; run.txt is then looked for where the tool is.                  *)
Chdir(k) ==
  IF Resolves /\ k # "file" THEN cwd' = entry' /\ runFile' = k
                            ELSE UNCHANGED <<cwd, runFile>>

(* Without a run.txt the program returns; an empty one leaves in the       *)
(* buffer line what happens to be there: the last command, if there was    *)
(* one.                                                                    *)
NextAlg(a) ==
  /\ pc = "alg" /\ a \in algs
  /\ algs' = algs \ {a}
  /\ entry' = <<entry[1], a>>
  /\ \E k \in Kind : Chdir(k) /\ tidy' = (tidy /\ Resolves /\ k = "command")
  /\ \/ runFile' = "absent" /\ pc' = "aborted" /\ UNCHANGED program
     \/ runFile' = "empty" /\ pc' = "reset" /\ program' \in {program, Garbage}
     \/ runFile' = "command" /\ pc' = "reset" /\ program' = cwd'
  /\ UNCHANGED <<modeVars, langs, cgroupVars, counted, fdVars, statVars, log, daemons>>

(* Mutant of AlgsDone: the end of a language directory ends both walks.    *)
AlgsDoneBreak ==
  /\ pc = "alg" /\ algs = {}
  /\ pc' = "close"
  /\ UNCHANGED <<modeVars, walkVars, cgroupVars, counted, fdVars, statVars, log, daemons>>

(* readdir fails on a directory that was closed, once it has returned what *)
(* it has in its buffer; closedir closes the directory's descriptor.       *)
AlgsDone ==
  /\ pc = "alg" /\ (algs = {} \/ entry[1] \in broken)
  /\ pc' = "lang"
  /\ one' = IF one = "directory" THEN "free" ELSE one
  /\ UNCHANGED <<modeVars, walkVars, cgroupVars, counted, cells, broken, failing, statVars, log,
                 daemons>>

(***************************************************************************)
(* One measurement.                                                        *)
(***************************************************************************)

(* Mutants: the cgroup is not removed before a run; its events are kept    *)
(* and closed with it.                                                     *)
UsageKept == usage
CountedAsUsage == IF members = {} THEN {} ELSE usage

(* What the cgroup's statistics, and its new events, already hold.         *)
UsageAtReset   == IF members = {} THEN {} ELSE usage
CountedAtReset == members

(* reset_cgroup: rmdir fails on a cgroup with processes, and then so does  *)
(* mkdir, which may also fail where there is none.  Either way the events  *)
(* are opened, on the cgroup that is there; any of them may fail.          *)
ResetCgroup ==
  /\ pc = "reset"
  /\ exists' \in (IF members = {} THEN BOOLEAN ELSE {exists})
  /\ usage' = UsageAtReset
  /\ cells' \in (IF exists' THEN (SUBSET {"event", "failed"}) \ {{}} ELSE {{"failed"}})
  /\ counted' = IF "event" \in cells' THEN CountedAtReset ELSE {}
  /\ pc' = "start"
  /\ UNCHANGED <<modeVars, walkVars, members, one, broken, failing, statVars, log, daemons>>

(* cgexec starts the program, but not without the cgroup.                  *)
StartProgram ==
  /\ pc = "start"
  /\ usage' = IF exists THEN usage \cup {program} ELSE usage
  /\ counted' = IF "event" \in cells THEN counted \cup {program} ELSE counted
  /\ pc' = "running"
  /\ UNCHANGED <<modeVars, walkVars, exists, members, fdVars, statVars, log, daemons>>

(* system() returns when the command's shell does, whether or not other    *)
(* processes of the program are left.                                      *)
ProgramEnds ==
  /\ pc = "running"
  /\ \/ UNCHANGED <<members, daemons>>
     \/ /\ exists /\ Cardinality(daemons \cup {program}) <= MaxDaemons
        /\ members' = members \cup {program} /\ daemons' = daemons \cup {program}
  /\ pc' = "read"
  /\ UNCHANGED <<modeVars, walkVars, exists, usage, counted, fdVars, statVars, log>>

(* The read of a failed event waits for input from the terminal.           *)
Waiting == pc = "read" /\ "failed" \in cells /\ one = "stdout" /\ terminal

(* Mutant of BytesRead: nor is cg_stats set to zero in -e.                 *)
BytesReadUnset(files) == IF files = "all" THEN {usage} ELSE {bytes, {Uninitialised}}

(* After an early return r_bytes and w_bytes are what was there: zeros in  *)
(* -e; in -b, where cg_stats is declared anew for every run and not set,   *)
(* those of an earlier run or anything.                                    *)
BytesRead(files) ==
  CASE files = "all" -> {usage}
    [] files # "all" /\ mode = "execute" -> {bytes}
    [] OTHER -> {bytes, {Uninitialised}}

(* read_cgroup_stats: the events are read and closed, failed ones as       *)
(* descriptor 1; it returns at the first file that cannot be opened, with  *)
(* zeros for the ones not read, and main does not look at its result.      *)
ReadCgroupStats ==
  /\ pc = "read"
  /\ \E files \in IF exists THEN Files ELSE {"none"} :
       /\ result' = [files |-> files, failed |-> "failed" \in cells,
                     usage |-> IF files = "none" THEN {} ELSE usage,
                     cycles |-> counted \cup {Uninitialised : f \in cells \ {"event"}}]
       /\ bytes' \in BytesRead(files)
  /\ IF "failed" \in cells
       THEN /\ one' = "free" /\ failing' = failing \cup {entry[1]}
            /\ broken' = IF one = "directory" THEN broken \cup {entry[1]} ELSE broken
       ELSE UNCHANGED <<one, failing, broken>>
  /\ cells' = {} /\ counted' = {}
  /\ pc' = "log"
  /\ UNCHANGED <<modeVars, walkVars, cgroupVars, log, daemons>>

(* Mutant of Label: the arguments of initBenchLogFile are swapped.         *)
LabelSwapped == IF mode = "benchmark" THEN <<entry[2], entry[1]>> ELSE entry

(* What the record's file is named after.                                  *)
Label == entry

(* The results are printed and written to the record's file, which is      *)
(* closed even if it could not be created.  cg_stats goes out of scope and *)
(* leaves its values behind.                                               *)
WriteRecord ==
  /\ pc = "log"
  /\ \/ /\ log' = log \cup {[label |-> Label, program |-> program]}
        /\ pc' = IF mode = "benchmark" THEN "alg" ELSE "close"
     \/ pc' = "crashed" /\ UNCHANGED log
  /\ result' = NoResult
  /\ UNCHANGED <<modeVars, walkVars, cgroupVars, counted, fdVars, bytes, daemons>>

(* close_cgroup: the descriptors are closed already, and rmdir may fail.   *)
CloseCgroup ==
  /\ pc = "close"
  /\ exists' = (exists /\ members # {})
  /\ pc' = "done"
  /\ UNCHANGED <<modeVars, walkVars, members, usage, counted, fdVars, statVars, log, daemons>>

Tool ==
  \/ OpenBenchDir
  \/ \E l \in Langs : NextLang(l)
  \/ \E a \in Algs : NextAlg(a)
  \/ LangsDone \/ AlgsDone
  \/ ResetCgroup \/ StartProgram \/ ProgramEnds \/ ReadCgroupStats
  \/ WriteRecord \/ CloseCgroup

Next == (\E p \in Program : DaemonExits(p)) \/ Tool

(* One thread, which waits for the programs measured, and these end, and   *)
(* where it reads from the terminal.  Background processes need not end.   *)
Fairness == WF_vars(Tool /\ ~Waiting)

Spec == Init /\ [][Next]_vars /\ Fairness

-----------------------------------------------------------------------------
(***************************************************************************)
(* Properties.                                                             *)
(***************************************************************************)

Ended == pc \in {"done", "aborted", "crashed"}

(* Type invariant.                                                         *)
TypeOK ==
  /\ mode \in {"benchmark", "execute"}
  /\ terminal \in BOOLEAN
  /\ relative \in BOOLEAN /\ tidy \in BOOLEAN /\ runFile \in Kind \ {"file"}
  /\ pc \in {"opendir", "lang", "alg", "reset", "start", "running", "read", "log", "close"}
       \/ Ended
  /\ cwd \in Entry \cup {Home}
  /\ langs \subseteq Langs /\ algs \subseteq Algs
  /\ entry \in Entry \cup {<<l>> : l \in Langs} \cup {Home, Command}
  /\ program \in Program
  /\ exists \in BOOLEAN
  /\ members \subseteq Program /\ usage \subseteq Program /\ counted \subseteq Program
  /\ cells \subseteq {"event", "failed"} /\ one \in {"stdout", "directory", "free"}
  /\ result \in [files : Files, failed : BOOLEAN, usage : SUBSET Program,
                 cycles : SUBSET (Program \cup {Uninitialised})]
  /\ bytes \subseteq Program \cup {Uninitialised}
  /\ log \subseteq [label : Entry \cup {Command}, program : Program]
  /\ daemons \subseteq Program

(* There are never two records for one program, and at the end of a walk   *)
(* that met nothing but directories of algorithms with a command there is  *)
(* one for each, whatever fails in one language: a failed event loses      *)
(* standard output (benchmarking.c:81), and it takes another one to close  *)
(* the next language's directory under the walk.                           *)
AllMeasured ==
  /\ \A r, s \in log : r.label = s.label => r = s
  /\ pc = "done" /\ tidy /\ (\A l, m \in failing : l = m) =>
       {r.label : r \in log} = IF mode = "benchmark" THEN Entry ELSE {Command}

(* When chdir fails unnoticed (main.c:376) or run.txt is empty (389), the  *)
(* program run under an entry's name is one that has its own record        *)
(* already, or what happens to be in memory; none is run under another's   *)
(* name before its own.                                                    *)
MisnamedIsRepeated ==
  \A r \in log :
    \/ r.program \in {r.label, Garbage}
    \/ \E s \in log : s.label = r.program /\ s.program = r.program

(* As long as programs leave nothing behind, the statistics and the cycles *)
(* of a record are those of its run alone, in any tree: all of them, if    *)
(* the files and the events could be opened, and otherwise nothing but     *)
(* zeros, and for the cycles what a failed read returns.  The tool leaves  *)
(* no cgroup behind unless it stops early.                                 *)
IsolatedRuns ==
  daemons = {} =>
    /\ pc = "log" => /\ result.usage = {p \in {program} : result.files # "none"}
                     /\ result.cycles \subseteq {program, Uninitialised}
                     /\ ~result.failed => result.cycles = {program}
    /\ pc = "done" => ~exists

(* The events are new for every run even when the cgroup is not: a program *)
(* that left nothing behind is never in the cycles of another's record,    *)
(* also where it is in its statistics.                                     *)
CyclesOnlyOfDaemons ==
  pc = "log" =>
    result.cycles \subseteq {program} \cup daemons \cup {u \in {Uninitialised} : result.failed}

(* The disk bytes of a record are of its own run if io.stat could be read. *)
(* Else, as main ignores the early returns of read_cgroup_stats (-b,       *)
(* main.c:424), they may be those of a program measured earlier.           *)
BytesOfRun ==
  daemons = {} /\ pc = "log" =>
    \/ result.files = "all" /\ bytes = {program}
    \/ result.files # "all" /\ mode = "execute" /\ bytes = {}
    \/ result.files # "all" /\ mode = "benchmark"
         /\ bytes \in {{Uninitialised}} \cup {{r.program} : r \in log}

(* The walk ends, whatever is in the tree and whatever fails, unless the   *)
(* tool comes to a read that waits for input.                              *)
Terminates == <>(Ended \/ Waiting)

(***************************************************************************)
(* The inductive invariant of the theorems.                                *)
(***************************************************************************)

Measuring == {"start", "running", "read", "log"}

(* -e has no walk; the entry of a walk is below a language, and while it   *)
(* is measured it is the algorithm itself.                                 *)
EntryInv ==
  /\ mode = "execute" =>
       /\ pc \notin {"opendir", "lang", "alg"}
       /\ entry = Command /\ program = Command
  /\ pc = "alg" => entry \in Entry \cup {<<l>> : l \in Langs}
  /\ mode = "benchmark" /\ pc \in Measuring \cup {"reset"} => entry \in Entry

(* The program in command, and the one in the working directory's run.txt, *)
(* have their own record, or are just getting it.                          *)
Repeated(p) == \E r \in log : r.label = p /\ r.program = p

GettingIt(p) == p = entry /\ program = p /\ pc \in Measuring \cup {"reset"}

ProgramInv ==
  mode = "benchmark" /\ pc # "crashed" =>
    /\ program = Garbage \/ Repeated(program) \/ GettingIt(program)
    /\ runFile = "command" => Repeated(cwd) \/ GettingIt(cwd)

(* New events count the programs left in the cgroup and the one measured.  *)
CyclesInv ==
  /\ members \subseteq daemons
  /\ pc = "start" => counted \subseteq daemons
  /\ pc \in {"running", "read"} => counted \subseteq daemons \cup {program}

(* A cgroup that no program was left in is empty when a run starts.        *)
UsageInv ==
  /\ pc \in {"start", "running", "read"} => cells # {}
  /\ daemons = {} =>
       /\ pc = "start" => usage = {} /\ counted = {}
       /\ pc \in {"running", "read"} =>
            /\ exists => usage = {program}
            /\ "event" \in cells => counted = {program}

(* What a run without statistics finds in place of its disk bytes.         *)
BytesInv ==
  daemons = {} /\ pc \notin {"log", "crashed"} =>
    IF mode = "execute"
      THEN pc \in Measuring \cup {"reset"} => bytes = {}
      ELSE bytes \in {{Uninitialised}} \cup {{r.program} : r \in log}

IInv ==
  /\ TypeOK /\ MisnamedIsRepeated /\ IsolatedRuns /\ CyclesOnlyOfDaemons /\ BytesOfRun
  /\ EntryInv /\ ProgramInv /\ CyclesInv /\ UsageInv /\ BytesInv

(* What makes AllMeasured inductive: every entry of the tree is in exactly *)
(* one place, in the log, being measured, or ahead of the walk.            *)
Labels == {r.label : r \in log}

Now == {e \in {entry} : pc \in Measuring \cup {"reset"}}

InLang == pc \in Measuring \cup {"reset", "alg"}

Ahead == {e \in Entry : \/ e[1] \in langs
                        \/ InLang /\ e[1] = entry[1] /\ e[2] \in algs}

WalkInv ==
  mode = "benchmark" /\ pc \notin {"aborted", "crashed"} =>
    /\ broken = {} /\ tidy => Labels \cup Now \cup Ahead = Entry
    /\ Labels \cap (Now \cup Ahead) = {}
    /\ Now \cap Ahead = {}
    /\ pc \in {"close", "done"} => langs = {}

(* -e writes its record once.                                              *)
CommandInv ==
  mode = "execute" => Labels = IF pc \in {"close", "done"} THEN {Command} ELSE {}

(* A directory has descriptor 1 after a run of an earlier language failed, *)
(* and is closed under the walk by another one.                            *)
FdInv ==
  mode = "benchmark" /\ pc \notin {"aborted", "crashed"} =>
    /\ failing \cap langs = {}
    /\ InLang => entry[1] \notin langs
    /\ one # "stdout" => failing # {}
    /\ one = "directory" => InLang /\ failing \ {entry[1]} # {}
    /\ broken # {} => \E l, m \in failing : l # m

MeasuredInv == FdInv /\ WalkInv /\ CommandInv /\ AllMeasured
=============================================================================
