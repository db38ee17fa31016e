---------------------------- MODULE Configuration ----------------------------
(***************************************************************************)
(* What the program makes of config.json (Config::Config).  Program says   *)
(* when it reads the file.                                                 *)
(*                                                                         *)
(* Most settings are handled alike, so a few stand for all of them:        *)
(*   numNodes                 one that also has a default without a file   *)
(*   latency                  one that has none (so have the lambdas, the  *)
(*                            length of the simulation and others)         *)
(*   connectionMode, AdakStrategy, AlgorithmStrategy                       *)
(*                            those with a fixed choice of strings, the    *)
(*                            last one also for Smallest_Key_for_Priority  *)
(***************************************************************************)

CONSTANT NoFile       \* there is no config.json

(* What the file says of a setting: nothing, something of another type     *)
(* than expected, or a value.                                              *)
Item == [numNodes          : {"absent", "mistyped", "given"},
         latency           : {"absent", "mistyped", "given"},
         connectionMode    : {"absent", "mistyped", "full", "custom", "other"},
         AdakStrategy      : {"absent", "mistyped", "Control", "other"},
         AlgorithmStrategy : {"absent", "mistyped", "option", "other"}]
File == Item \cup {NoFile}

(* A setting in the program: as given, the default, or whatever was in     *)
(* memory before.                                                          *)
Config == [numNodes                : {"given", "default"},
           latency                 : {"given", "default", "unset"},
           connectionMode          : {"full", "Custom", "Invalid", "default"},
           adakStrategy            : {"Control", "default"},
           algorithmStrategyOption : {"option", "-1", "unset"}]

(* The configuration of main() before it is read.  The options are zero,   *)
(* the first of their table, and not -1.                                   *)
NotRead == [numNodes |-> "default", latency |-> "unset", connectionMode |-> "default",
            adakStrategy |-> "default", algorithmStrategyOption |-> "option"]

(* ConnectionType_fromString(): single and partial are like full. *)
ConnectionType(str) ==
    CASE str = "full"   -> "full"
      [] str = "custom" -> "Custom"
      [] OTHER          -> "Invalid"

(* The settings are read in turn, until one throws. *)
ThrowsBeforeStrategy(f) ==
    f.numNodes = "mistyped" \/ f.connectionMode = "mistyped" \/ f.AdakStrategy = "mistyped"

NotImplemented(f) ==
    /\ f.connectionMode # "absent"
    /\ ConnectionType(f.connectionMode) = "Custom"

(* toAdakStrategy() throws a string, the rest are standard exceptions. *)
ThrowsString(f) ==
    /\ f # NoFile
    /\ ~ThrowsBeforeStrategy(f)
    /\ ~NotImplemented(f)
    /\ f.AdakStrategy = "other"

Throws(f) ==
    /\ f # NoFile
    /\ \/ ThrowsBeforeStrategy(f)
       \/ NotImplemented(f)
       \/ f.AdakStrategy = "other"
       \/ f.latency = "mistyped"
       \/ f.AlgorithmStrategy = "mistyped"

ValueOrDefault(item) == IF item = "absent" THEN "default" ELSE item

(* Config::Config(ifstream) *)
ConfigFrom(f) ==
    IF f = NoFile
    THEN [numNodes |-> "default", latency |-> "unset", connectionMode |-> "default",
          adakStrategy |-> "default", algorithmStrategyOption |-> "unset"]
    ELSE [numNodes       |-> ValueOrDefault(f.numNodes),
          latency        |-> ValueOrDefault(f.latency),
          connectionMode |-> IF f.connectionMode = "absent" THEN "default"
                             ELSE ConnectionType(f.connectionMode),
          adakStrategy   |-> ValueOrDefault(f.AdakStrategy),
          algorithmStrategyOption |->
              IF f.AlgorithmStrategy = "option" THEN "option" ELSE "-1"]
=============================================================================
