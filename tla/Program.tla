------------------------------- MODULE Program -------------------------------
(***************************************************************************)
(* A run of the program: OutputFiles, with the configuration that decides  *)
(* how far a run gets.  config.json is read twice, by main() for the       *)
(* network and again by Simulation::run() for the rest, and may be edited  *)
(* in between.                                                             *)
(***************************************************************************)
EXTENDS OutputFiles, Configuration

CONSTANTS
    Files,        \* bound of the model: what config.json may say
    MaxEdits      \* bound of the model: how often it is changed

ASSUME FilesAssumption == Files \subseteq File /\ MaxEdits \in Nat

VARIABLES
    configFile,   \* config.json
    edits,        \* how often it has been changed
    config,       \* the configuration of main()
    reloaded,     \* whether Simulation::run() has read the file again
    running       \* what it has got

settings == << configFile, edits, config, reloaded, running >>

ProgramTypeOK ==
    /\ TypeOK
    /\ configFile \in Files
    /\ edits \in 0 .. MaxEdits
    /\ config \in Config
    /\ reloaded \in BOOLEAN
    /\ running \in Config

ProgramInit ==
    /\ Init
    /\ configFile \in Files
    /\ edits = 0
    /\ config = NotRead
    /\ reloaded = FALSE
    /\ running = NotRead
-----------------------------------------------------------------------------
StartRun ==
    /\ Start
    /\ config' = NotRead
    /\ reloaded' = FALSE
    /\ running' = NotRead
    /\ UNCHANGED << configFile, edits >>

(* main(): a standard exception is reported, any other one terminates the  *)
(* program; nothing is saved in either case.  Not every file says where    *)
(* the output goes.                                                        *)
LoadConfig ==
    /\ Load
    /\ IF Throws(configFile)
       THEN pc' = "ended" /\ UNCHANGED config
       ELSE /\ pc' = "simulate"
            /\ configFile = NoFile => path' = DefaultPath
            /\ config' = ConfigFrom(configFile)
    /\ UNCHANGED << configFile, edits, reloaded, running >>

(* Simulation::run(): the network is there, and the file is read again.    *)
Reload ==
    /\ pc = "simulate" /\ ~reloaded
    /\ ~Throws(configFile)
    /\ reloaded' = TRUE
    /\ running' = ConfigFrom(configFile)
    /\ UNCHANGED vars
    /\ UNCHANGED << configFile, edits, config >>

(* Here main() still saves after a standard exception.                     *)
(* toAdakStrategy() throws a string, which nothing catches.                *)
ReloadThrows ==
    /\ ~reloaded
    /\ Throws(configFile)
    /\ Simulate
    /\ pc' = IF ThrowsString(configFile) THEN "ended" ELSE "save"
    /\ UNCHANGED settings

RunSimulation ==
    /\ reloaded
    /\ Simulate
    /\ UNCHANGED settings

(* write() looks up the name of each option, and -1 is not in the table.   *)
Write ==
    /\ WriteConfig
    /\ config.algorithmStrategyOption = "option" =>
         file'[path][number]["full_config"] = run
    /\ UNCHANGED settings

(* Steps that have nothing to do with the configuration. *)
Elsewhere ==
    /\ Save \/ Truncate \/ WriteNumber \/ OpenCopy \/ FillCopy \/ Interrupt \/ Kill
    /\ UNCHANGED settings

(* Somebody changes the file: between two runs, or between the two times a *)
(* run reads it.                                                           *)
Edit ==
    /\ edits < MaxEdits
    /\ pc = "ended" \/ (pc = "simulate" /\ ~reloaded)
    /\ edits' = edits + 1
    /\ configFile' \in Files \ {configFile}
    /\ UNCHANGED vars
    /\ UNCHANGED << config, reloaded, running >>

ProgramNext ==
    \/ StartRun \/ LoadConfig \/ Reload \/ ReloadThrows \/ RunSimulation
    \/ Write \/ Elsewhere \/ Edit

ProgramSpec == ProgramInit /\ [][ProgramNext]_<< vars, settings >>
-----------------------------------------------------------------------------
(* A simulation never runs with the connections of mode custom, which      *)
(* Network reads from the file by itself; this is why Topology has none.   *)
NoCustomConnections ==
    (pc = "simulate" /\ reloaded) =>
      config.connectionMode # "Custom" /\ running.connectionMode # "Custom"
=============================================================================
