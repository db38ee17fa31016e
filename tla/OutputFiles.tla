----------------------------- MODULE OutputFiles -----------------------------
(***************************************************************************)
(* The files that main() leaves behind, over several runs of the program:  *)
(* each run copies its logs and its configuration to files with a number   *)
(* of their own, taken from num.txt.  An interrupt (SIGINT) makes the      *)
(* handler save as well, from wherever main() was, and exit; the program   *)
(* may also be killed, or end by an exception that nothing catches.        *)
(***************************************************************************)
EXTENDS Integers, Sequences

CONSTANTS
    Paths,          \* the directories that files can be written to
    DefaultPath,    \* csvOutputPath where config.json says nothing of it
    ConfiguredPath, \* csvOutputPath in config.json
    MaxRuns         \* bound of the model: how many times the program is run

Step == {"load", "simulate", "save", "truncate", "number", "copy", "fill", "config"}

ASSUME OutputAssumption == MaxRuns \in Nat

VARIABLES
    pc,           \* what main(), or the handler, does next
    run,          \* the run in progress, or the last one; 0 before the first
    path,         \* config.csvOutputPath of the run
    interrupted,  \* whether the handler has been called
    number,       \* the number the run saves under
    copied,       \* how many of its files are copied
    numTxt,       \* the number in num.txt in each directory; 0 if there is none
    file,         \* the run a saved file is from; 0 if it is empty or missing
    forgotten     \* the directories where num.txt has been left empty

vars == << pc, run, path, interrupted, number, copied, numTxt, file, forgotten >>

(* The files that are saved, in turn. *)
Copies == << "statsLog", "logOutput", "copy_of_config" >>
Kind   == {"statsLog", "logOutput", "copy_of_config", "full_config"}

(* A run saves twice at most: once more when it is interrupted. *)
Number == 1 .. (2 * MaxRuns + 1)

TypeOK ==
    /\ pc \in Step \cup {"ended"}
    /\ run \in 0 .. MaxRuns
    /\ path \in {DefaultPath, ConfiguredPath}
    /\ interrupted \in BOOLEAN
    /\ number \in Number
    /\ copied \in 0 .. Len(Copies)
    /\ numTxt \in [Paths -> 0 .. (2 * MaxRuns + 1)]
    /\ file \in [Paths -> [Number -> [Kind -> 0 .. MaxRuns]]]
    /\ forgotten \subseteq Paths

Init ==
    /\ pc = "ended"
    /\ run = 0
    /\ path = DefaultPath
    /\ interrupted = FALSE
    /\ number = 1
    /\ copied = 0
    /\ numTxt = [p \in Paths |-> 0]
    /\ file = [p \in Paths |-> [i \in Number |-> [k \in Kind |-> 0]]]
    /\ forgotten = {}
-----------------------------------------------------------------------------
(* The program is started: deleteOldLog() and the headers. *)
Start ==
    /\ pc = "ended"
    /\ run < MaxRuns
    /\ run' = run + 1
    /\ path' = DefaultPath
    /\ interrupted' = FALSE
    /\ copied' = 0
    /\ pc' = "load"
    /\ UNCHANGED << number, numTxt, file, forgotten >>

(* The configuration is loaded; any exception ends the run unsaved. *)
Load ==
    /\ pc = "load"
    /\ \/ path' \in {DefaultPath, ConfiguredPath} /\ pc' = "simulate"
       \/ path' = path /\ pc' = "ended"
    /\ UNCHANGED << run, interrupted, number, copied, numTxt, file, forgotten >>

(* A standard exception is caught and the logs are saved; any other one    *)
(* (splitKeyspace() throws an int) ends the run.                           *)
Simulate ==
    /\ pc = "simulate"
    /\ pc' \in {"save", "ended"}
    /\ UNCHANGED << run, path, interrupted, number, copied, numTxt, file, forgotten >>

(* saveLogs(): copyFile() closes the streams and reads num.txt. *)
(* Mutant: the number is taken as it is found. *)
NumberAsRead(p) == numTxt[p]

NumberRead(p) == IF numTxt[p] = 0 THEN 1 ELSE numTxt[p]

Save ==
    /\ pc = "save"
    /\ IF path \in Paths
       THEN /\ number' = NumberRead(path)
            /\ copied' = 0
            /\ pc' = "truncate"
       ELSE pc' = "ended" /\ UNCHANGED << number, copied >>
    /\ UNCHANGED << run, path, interrupted, numTxt, file, forgotten >>

(* num.txt is opened for writing, and the next number written to it. *)
Truncate ==
    /\ pc = "truncate"
    /\ numTxt' = [numTxt EXCEPT ![path] = 0]
    /\ pc' = "number"
    /\ UNCHANGED << run, path, interrupted, number, copied, file, forgotten >>

(* Mutant: the number is not incremented. *)
SameNumber(i) == i
NextNumber(i) == i + 1

WriteNumber ==
    /\ pc = "number"
    /\ numTxt' = [numTxt EXCEPT ![path] = NextNumber(number)]
    /\ pc' = "copy"
    /\ UNCHANGED << run, path, interrupted, number, copied, file, forgotten >>

(* Each copy is opened, which empties it, and then filled. *)
OpenCopy ==
    /\ pc = "copy"
    /\ file' = [file EXCEPT ![path][number][Copies[copied + 1]] = 0]
    /\ pc' = "fill"
    /\ UNCHANGED << run, path, interrupted, number, copied, numTxt, forgotten >>

FillCopy ==
    /\ pc = "fill"
    /\ file' = [file EXCEPT ![path][number][Copies[copied + 1]] = run]
    /\ copied' = copied + 1
    /\ pc' = IF copied' = Len(Copies) THEN "config" ELSE "copy"
    /\ UNCHANGED << run, path, interrupted, number, numTxt, forgotten >>

(* Config::write(); it may crash on a setting that was not given. *)
WriteConfig ==
    /\ pc = "config"
    /\ \E written \in {run, file[path][number]["full_config"]} :
         file' = [file EXCEPT ![path][number]["full_config"] = written]
    /\ pc' = "ended"
    /\ UNCHANGED << run, path, interrupted, number, copied, numTxt, forgotten >>

(* Stopped before the number is written, num.txt stays empty. *)
Stop == forgotten' = IF pc = "number" THEN forgotten \cup {path} ELSE forgotten

(* signalHandler(): save, from the start, and exit.  SIGINT is blocked     *)
(* while it runs.                                                          *)
Interrupt ==
    /\ pc # "ended"
    /\ ~interrupted
    /\ interrupted' = TRUE
    /\ pc' = "save"
    /\ Stop
    /\ UNCHANGED << run, path, number, copied, numTxt, file >>

Kill ==
    /\ pc # "ended"
    /\ pc' = "ended"
    /\ Stop
    /\ UNCHANGED << run, path, interrupted, number, copied, numTxt, file >>

Next ==
    \/ Start \/ Load \/ Simulate \/ Save
    \/ Truncate \/ WriteNumber \/ OpenCopy \/ FillCopy \/ WriteConfig
    \/ Interrupt \/ Kill

Spec == Init /\ [][Next]_vars
-----------------------------------------------------------------------------
(* What has been saved, for this run or an earlier one, is never touched   *)
(* again: this takes a stop between emptying num.txt and writing to it,    *)
(* after which numbering starts again (lines 105 to 107).                  *)
RecordsKept ==
    [][\A p \in Paths \ forgotten, i \in Number, k \in Kind :
         file[p][i][k] # 0 => file'[p][i][k] = file[p][i][k]]_vars

(* The files of one number are from one run, but for the same stop. *)
OneRunPerNumber ==
    \A p \in Paths \ forgotten, i \in Number : \A k, l \in Kind :
      (file[p][i][k] # 0 /\ file[p][i][l] # 0) => file[p][i][k] = file[p][i][l]

RunsUnder(p, i) == { file[p][i][k] : k \in Kind } \ {0}

(* Who goes back from the number in num.txt, as the targets of the         *)
(* Makefile do by one, meets the later runs before the earlier ones and    *)
(* misses none, wherever a run was stopped; but for the same stop.         *)
LatestFirst ==
    \A p \in Paths \ forgotten, i \in Number : \A r \in RunsUnder(p, i) :
      /\ i < numTxt[p] \/ (pc = "number" /\ p = path)
      /\ \A n \in 1 .. i - 1 : \A q \in RunsUnder(p, n) : q <= r
=============================================================================
