---------------------------- MODULE ProgramProofs ----------------------------
(***************************************************************************)
(* However often the program is run, interrupted or killed, what it has    *)
(* saved stays as it is, every number belongs to one run, and later runs   *)
(* have the higher numbers; but for a directory whose num.txt has been     *)
(* left empty.  This is proved of OutputFiles, and then of the program,    *)
(* for any configuration files, however often they are changed.            *)
(***************************************************************************)
EXTENDS Program, TLAPS

Saving  == {"truncate", "number", "copy", "fill", "config"}
Writing == {"copy", "fill", "config"}

(* How many more numbers the run may take.  *)
NumbersLeft ==
    IF pc = "ended" THEN 0
    ELSE (IF pc \in Writing THEN 0 ELSE 1) + (IF interrupted THEN 0 ELSE 1)

Limit == 2 * run + 1 - NumbersLeft

(* No number is past the ones that the files are modelled for. *)
Bounded ==
    /\ pc # "ended" => run > 0
    /\ pc \in Saving => number <= Limit
    /\ \A p \in Paths : numTxt[p] <= Limit

(* Where saving has got to. *)
Progress ==
    /\ pc \in Saving => path \in Paths
    /\ pc \in {"load", "truncate", "number"} => copied = 0
    /\ pc = "truncate" => number = NumberRead(path)
    /\ pc \in {"copy", "fill"} => copied < 3
    /\ pc = "config" => copied = 3
    /\ pc \in Writing => numTxt[path] = number + 1

(* The first number that no file has. *)
NextFree(p) == IF pc = "number" /\ p = path THEN number ELSE NumberRead(p)

Fresh ==
    \A p \in Paths \ forgotten, i \in Number, k \in Kind : file[p][i][k] # 0 => i < NextFree(p)

(* What is still to be written under the number does not exist yet, and    *)
(* what has been written is from this run.                                 *)
Unwritten ==
    pc \in Writing /\ path \notin forgotten =>
      /\ \A j \in (copied + 1) .. 3 : file[path][number][Copies[j]] = 0
      /\ file[path][number]["full_config"] = 0
      /\ \A k \in Kind : file[path][number][k] \in {0, run}

(* Nothing is from a later run, and later runs have higher numbers.        *)
Past == \A p \in Paths, i \in Number, k \in Kind : file[p][i][k] <= run

Ordered ==
    \A p \in Paths \ forgotten, i, n \in Number : \A k, l \in Kind :
      n < i /\ file[p][i][k] # 0 /\ file[p][n][l] # 0 => file[p][n][l] <= file[p][i][k]

IInv == TypeOK /\ Bounded /\ Progress /\ Fresh /\ Unwritten /\ OneRunPerNumber /\ Past /\ Ordered
-----------------------------------------------------------------------------
LEMMA CopiesFacts ==
    /\ Len(Copies) = 3
    /\ \A j \in 1 .. 3 : Copies[j] \in Kind /\ Copies[j] # "full_config"
    /\ \A j \in 1 .. 3 : Copies[j] = "statsLog" <=> j = 1
    /\ \A j, l \in 1 .. 3 : Copies[j] = Copies[l] => j = l
  BY DEF Copies, Kind

(* Writing a file changes that file and no other. *)
LEMMA OneFileWritten ==
    ASSUME TypeOK, path \in Paths, NEW k0 \in Kind, NEW v \in 0 .. MaxRuns,
           file' = [file EXCEPT ![path][number][k0] = v]
    PROVE  /\ file' \in [Paths -> [Number -> [Kind -> 0 .. MaxRuns]]]
           /\ \A p \in Paths, i \in Number, k \in Kind :
                file'[p][i][k] = IF p = path /\ i = number /\ k = k0 THEN v
                                 ELSE file[p][i][k]
  BY DEF TypeOK

(* The file to copy next, and the one it becomes. *)
LEMMA NextCopy ==
    ASSUME TypeOK, copied < 3
    PROVE  /\ copied + 1 \in 1 .. 3
           /\ Copies[copied + 1] \in Kind
           /\ Copies[copied + 1] # "full_config"
  BY CopiesFacts DEF TypeOK

LEMMA InitHolds == Init => IInv
  <1> SUFFICES ASSUME Init PROVE IInv
    OBVIOUS
  <1>1. TypeOK
    <2>1. 1 \in Number /\ 0 \in 0 .. MaxRuns /\ 0 \in 0 .. (2 * MaxRuns + 1) /\ 0 \in 0 .. Len(Copies)
      BY OutputAssumption, CopiesFacts DEF Number
    <2> QED
      BY <2>1 DEF Init, TypeOK
  <1>2. Bounded
    BY DEF Init, Bounded, Limit, NumbersLeft, Saving
  <1>3. Progress /\ Unwritten
    BY DEF Init, Progress, Unwritten, Saving, Writing
  <1>4. Fresh /\ OneRunPerNumber /\ Past /\ Ordered
    BY DEF Init, Fresh, OneRunPerNumber, Past, Ordered
  <1> QED
    BY <1>1, <1>2, <1>3, <1>4 DEF IInv
-----------------------------------------------------------------------------
(* The steps that touch no file. *)
LEMMA QuietStep ==
    ASSUME IInv,
           \/ Start \/ Load \/ Simulate \/ Save \/ Interrupt
           \/ Kill \/ UNCHANGED vars
    PROVE  IInv'
  <1>1. CASE Start
    <2>1. TypeOK'
      <3>1. copied' \in 0 .. Len(Copies) /\ run' \in 0 .. MaxRuns
        BY <1>1, OutputAssumption, CopiesFacts DEF IInv, TypeOK, Start
      <3> QED
        BY <1>1, <3>1 DEF IInv, TypeOK, Step, Start
    <2>2. Bounded'
      BY <1>1 DEF IInv, TypeOK, Bounded, Limit, NumbersLeft, Saving, Writing, Start
    <2>3. Progress'
      BY <1>1 DEF IInv, TypeOK, Progress, Saving, Writing, Start, NumberRead
    <2>4. Fresh'
      BY <1>1 DEF IInv, TypeOK, Fresh, NextFree, Progress, Start, NumberRead
    <2>5. Unwritten' /\ OneRunPerNumber'
      BY <1>1 DEF IInv, Unwritten, OneRunPerNumber, Writing, Start
    <2>6. Past' /\ Ordered'
      BY <1>1 DEF IInv, TypeOK, Past, Ordered, Start
    <2> QED
      BY <2>1, <2>2, <2>3, <2>4, <2>5, <2>6 DEF IInv
  <1>2. CASE Load
    <2>1. TypeOK'
      BY <1>2 DEF IInv, TypeOK, Step, Load
    <2>2. Bounded'
      BY <1>2 DEF IInv, TypeOK, Bounded, Limit, NumbersLeft, Saving, Writing, Load
    <2>3. Progress'
      BY <1>2 DEF IInv, TypeOK, Progress, Saving, Writing, Load, NumberRead
    <2>4. Fresh'
      BY <1>2 DEF IInv, TypeOK, Fresh, NextFree, Progress, Load, NumberRead
    <2>5. Unwritten' /\ OneRunPerNumber'
      BY <1>2 DEF IInv, Unwritten, OneRunPerNumber, Writing, Load
    <2>6. Past' /\ Ordered'
      BY <1>2 DEF IInv, TypeOK, Past, Ordered, Load
    <2> QED
      BY <2>1, <2>2, <2>3, <2>4, <2>5, <2>6 DEF IInv
  <1>3. CASE Simulate
    <2>1. TypeOK'
      BY <1>3 DEF IInv, TypeOK, Step, Simulate
    <2>2. Bounded'
      BY <1>3 DEF IInv, TypeOK, Bounded, Limit, NumbersLeft, Saving, Writing, Simulate
    <2>3. Progress'
      BY <1>3 DEF IInv, TypeOK, Progress, Saving, Writing, Simulate, NumberRead
    <2>4. Fresh'
      BY <1>3 DEF IInv, TypeOK, Fresh, NextFree, Progress, Simulate, NumberRead
    <2>5. Unwritten' /\ OneRunPerNumber'
      BY <1>3 DEF IInv, Unwritten, OneRunPerNumber, Writing, Simulate
    <2>6. Past' /\ Ordered'
      BY <1>3 DEF IInv, TypeOK, Past, Ordered, Simulate
    <2> QED
      BY <2>1, <2>2, <2>3, <2>4, <2>5, <2>6 DEF IInv
  <1>4. CASE Save
    <2>1. TypeOK'
      BY <1>4, OutputAssumption DEF IInv, TypeOK, Step, Number, Save, NumberRead
    <2>2. Bounded'
      BY <1>4 DEF IInv, TypeOK, Bounded, Limit, NumbersLeft, Saving, Writing, Save, NumberRead
    <2>3. Progress'
      BY <1>4 DEF IInv, TypeOK, Progress, Saving, Writing, Save, NumberRead
    <2>4. Fresh'
      BY <1>4 DEF IInv, TypeOK, Fresh, NextFree, Progress, Save, NumberRead
    <2>5. Unwritten' /\ OneRunPerNumber'
      BY <1>4 DEF IInv, Unwritten, OneRunPerNumber, Writing, Save, NumberRead
    <2>6. Past' /\ Ordered'
      BY <1>4 DEF IInv, TypeOK, Past, Ordered, Save
    <2> QED
      BY <2>1, <2>2, <2>3, <2>4, <2>5, <2>6 DEF IInv
  <1>5. CASE Interrupt
    <2>0. forgotten' \subseteq Paths
      BY <1>5 DEF IInv, TypeOK, Progress, Saving, Interrupt, Stop
    <2>1. TypeOK'
      BY <1>5, <2>0 DEF IInv, TypeOK, Step, Interrupt
    <2>2. Bounded'
      BY <1>5, OutputAssumption DEF IInv, TypeOK, Bounded, Limit, NumbersLeft, Saving, Writing, Step, Interrupt, Stop
    <2>3. Progress'
      BY <1>5 DEF IInv, TypeOK, Progress, Saving, Writing, Interrupt, Stop, NumberRead
    <2>4. Fresh'
      BY <1>5 DEF IInv, TypeOK, Fresh, NextFree, Progress, Interrupt, Stop, NumberRead
    <2>5. Unwritten' /\ OneRunPerNumber'
      BY <1>5 DEF IInv, Unwritten, OneRunPerNumber, Writing, Interrupt, Stop
    <2>6. Past' /\ Ordered'
      BY <1>5 DEF IInv, TypeOK, Past, Ordered, Interrupt, Stop
    <2> QED
      BY <2>1, <2>2, <2>3, <2>4, <2>5, <2>6 DEF IInv
  <1>6. CASE Kill
    <2>0. forgotten' \subseteq Paths
      BY <1>6 DEF IInv, TypeOK, Progress, Saving, Kill, Stop
    <2>1. TypeOK'
      BY <1>6, <2>0 DEF IInv, TypeOK, Step, Kill
    <2>2. Bounded'
      BY <1>6 DEF IInv, TypeOK, Bounded, Limit, NumbersLeft, Saving, Writing, Kill, Stop
    <2>3. Progress'
      BY <1>6 DEF IInv, TypeOK, Progress, Saving, Writing, Kill, Stop, NumberRead
    <2>4. Fresh'
      BY <1>6 DEF IInv, TypeOK, Fresh, NextFree, Progress, Kill, Stop, NumberRead
    <2>5. Unwritten' /\ OneRunPerNumber'
      BY <1>6 DEF IInv, Unwritten, OneRunPerNumber, Writing, Kill, Stop
    <2>6. Past' /\ Ordered'
      BY <1>6 DEF IInv, TypeOK, Past, Ordered, Kill, Stop
    <2> QED
      BY <2>1, <2>2, <2>3, <2>4, <2>5, <2>6 DEF IInv
  <1>7. CASE UNCHANGED vars
    <2>1. TypeOK'
      BY <1>7 DEF IInv, TypeOK, Step, vars
    <2>2. Bounded'
      BY <1>7 DEF IInv, TypeOK, Bounded, Limit, NumbersLeft, Saving, Writing, vars
    <2>3. Progress'
      BY <1>7 DEF IInv, TypeOK, Progress, Saving, Writing, vars, NumberRead
    <2>4. Fresh'
      BY <1>7 DEF IInv, TypeOK, Fresh, NextFree, Progress, vars, NumberRead
    <2>5. Unwritten' /\ OneRunPerNumber'
      BY <1>7 DEF IInv, Unwritten, OneRunPerNumber, Writing, vars
    <2>6. Past' /\ Ordered'
      BY <1>7 DEF IInv, TypeOK, Past, Ordered, vars
    <2> QED
      BY <2>1, <2>2, <2>3, <2>4, <2>5, <2>6 DEF IInv
  <1> QED
    BY <1>1, <1>2, <1>3, <1>4, <1>5, <1>6, <1>7

(* The number of the run is taken from num.txt. *)
LEMMA NumberStep ==
    ASSUME IInv, Truncate \/ WriteNumber
    PROVE  IInv'
  <1>1. CASE Truncate
    <2>1. TypeOK'
      <3>1. 0 \in 0 .. (2 * MaxRuns + 1)
        BY OutputAssumption
      <3> QED
        BY <1>1, <3>1 DEF IInv, TypeOK, Step, Truncate
    <2>2. Bounded'
      BY <1>1, OutputAssumption DEF IInv, TypeOK, Bounded, Progress, Limit, NumbersLeft, Saving, Writing,
            Truncate
    <2>3. Progress'
      BY <1>1 DEF IInv, Progress, Saving, Writing, Truncate
    <2>4. Fresh'
      <3>1. /\ path' = path /\ number' = number /\ file' = file /\ pc = "truncate" /\ pc' = "number"
            /\ number = NumberRead(path) /\ path \in Paths
            /\ \A p \in Paths \ {path} : numTxt'[p] = numTxt[p]
            /\ forgotten' = forgotten
        BY <1>1 DEF IInv, TypeOK, Progress, Saving, Truncate
      <3> QED
        BY <3>1 DEF IInv, Fresh, NextFree, NumberRead
    <2>5. Unwritten' /\ OneRunPerNumber' /\ Past' /\ Ordered'
      BY <1>1 DEF IInv, TypeOK, Unwritten, OneRunPerNumber, Past, Ordered, Progress, Writing, Truncate
    <2> QED
      BY <2>1, <2>2, <2>3, <2>4, <2>5 DEF IInv
  <1>2. CASE WriteNumber
    <2>0. /\ path' = path /\ number' = number /\ file' = file /\ run' = run
          /\ interrupted' = interrupted /\ copied' = 0 /\ copied = 0 /\ forgotten' = forgotten
          /\ pc = "number" /\ pc' = "copy" /\ path \in Paths
          /\ numTxt'[path] = number + 1
          /\ DOMAIN numTxt' = Paths
          /\ \A p \in Paths \ {path} : numTxt'[p] = numTxt[p]
      BY <1>2 DEF IInv, TypeOK, Progress, Saving, WriteNumber, NextNumber
    <2>2. Bounded'
      <3>1. CASE interrupted
        BY <2>0, <3>1 DEF IInv, TypeOK, Bounded, Limit, NumbersLeft, Saving, Writing, Number
      <3>2. CASE ~interrupted
        BY <2>0, <3>2 DEF IInv, TypeOK, Bounded, Limit, NumbersLeft, Saving, Writing, Number
      <3> QED
        BY <3>1, <3>2
    <2>1. TypeOK'
      <3>1. number + 1 \in 0 .. (2 * MaxRuns + 1)
        <4>1. number + 1 <= 2 * run + 1
          BY <2>0 DEF IInv, TypeOK, Bounded, Limit, NumbersLeft, Saving, Writing, Number
        <4> QED
          BY <4>1, OutputAssumption DEF IInv, TypeOK, Number
      <3> QED
        BY <1>2, <3>1 DEF IInv, TypeOK, Step, WriteNumber, NextNumber
    <2>3. Progress'
      BY <2>0 DEF Progress, Saving, Writing
    <2>4. Fresh'
      <3>1. number \in Nat /\ number + 1 # 0 /\ NextFree(path) = number /\ NextFree(path)' = number + 1
        BY <2>0 DEF IInv, TypeOK, Number, NextFree, NumberRead
      <3>2. \A p \in Paths \ {path} : NextFree(p)' = NextFree(p)
        BY <2>0 DEF NextFree, NumberRead
      <3> QED
        BY <2>0, <3>1, <3>2 DEF IInv, Fresh, Number
    <2>5. Unwritten'
      <3>1. path \notin forgotten => \A k \in Kind : file[path][number][k] = 0
        BY <2>0 DEF IInv, TypeOK, Fresh, NextFree, Number
      <3> QED
        BY <2>0, <3>1, CopiesFacts DEF Unwritten, Kind
    <2>6. OneRunPerNumber' /\ Past' /\ Ordered'
      BY <2>0 DEF IInv, OneRunPerNumber, Past, Ordered
    <2> QED
      BY <2>1, <2>2, <2>3, <2>4, <2>5, <2>6 DEF IInv
  <1> QED
    BY <1>1, <1>2

(* A file is opened, filled or written. *)
Kept ==
    \A p \in Paths \ forgotten, i \in Number, k \in Kind :
      file[p][i][k] # 0 => file'[p][i][k] = file[p][i][k]

(* What the three steps have in common: one more file, which did not exist *)
(* yet, under the number of the run.                                       *)
LEMMA OneMoreFile ==
    ASSUME IInv, pc \in Writing, NEW k0 \in Kind, NEW v \in 0 .. run,
           path \notin forgotten =>
             v \in {0, run} /\ (file[path][number][k0] = 0 \/ v = file[path][number][k0]),
           file' = [file EXCEPT ![path][number][k0] = v],
           pc' \in Writing \cup {"ended"},
           UNCHANGED << run, path, interrupted, number, numTxt, forgotten >>
    PROVE  /\ file' \in [Paths -> [Number -> [Kind -> 0 .. MaxRuns]]]
           /\ \A k \in Kind : file'[path][number][k] = IF k = k0 THEN v ELSE file[path][number][k]
           /\ Bounded' /\ Fresh' /\ OneRunPerNumber' /\ Past' /\ Ordered'
           /\ path \notin forgotten => \A k \in Kind : file'[path][number][k] \in {0, run}
           /\ Kept
  <1>1. TypeOK /\ path \in Paths /\ number \in Number /\ v \in 0 .. MaxRuns
    BY OutputAssumption DEF IInv, TypeOK, Progress, Saving, Writing
  <1>2. file' \in [Paths -> [Number -> [Kind -> 0 .. MaxRuns]]]
    BY <1>1, OneFileWritten
  <1>3. \A p \in Paths, i \in Number, k \in Kind :
          file'[p][i][k] = IF p = path /\ i = number /\ k = k0 THEN v ELSE file[p][i][k]
    BY <1>1 DEF TypeOK
  <1>4. \A k \in Kind : file'[path][number][k] = IF k = k0 THEN v ELSE file[path][number][k]
    BY <1>1, <1>3
  <1>5. path \notin forgotten => \A k \in Kind : file'[path][number][k] \in {0, run}
    BY <1>4 DEF IInv, Unwritten
  <1>6. Kept
    BY <1>1, <1>3 DEF Kept
  <1>7. Bounded'
    <2>1. NumbersLeft' \in {0, NumbersLeft} /\ NumbersLeft \in 0 .. 1 /\ pc # "ended"
      BY DEF NumbersLeft, Writing
    <2>2. run \in Int /\ run' = run
      BY <1>1, OutputAssumption DEF TypeOK
    <2>5. Limit \in Int /\ Limit' \in Int /\ Limit <= Limit'
      BY <2>1, <2>2 DEF Limit
    <2>3. \A p \in Paths : numTxt[p] \in Nat
      BY <1>1 DEF TypeOK
    <2>4. number \in Nat /\ pc \in Saving
      BY <1>1 DEF Number, Saving, Writing
    <2> QED
      BY <2>1, <2>2, <2>3, <2>4, <2>5 DEF IInv, Bounded
  <1>8. Fresh'
    <2>1. \A p \in Paths : NextFree(p)' = NextFree(p)
      BY DEF NextFree, NumberRead, Writing
    <2>2. number < NextFree(path)
      BY <1>1 DEF IInv, TypeOK, Progress, NextFree, NumberRead, Number, Writing
    <2> QED
      BY <1>3, <2>1, <2>2 DEF IInv, Fresh
  <1>9. OneRunPerNumber'
    <2> SUFFICES ASSUME NEW p \in Paths \ forgotten, NEW i \in Number, NEW k \in Kind, NEW l \in Kind,
                        file'[p][i][k] # 0, file'[p][i][l] # 0
                 PROVE  file'[p][i][k] = file'[p][i][l]
      BY DEF OneRunPerNumber
    <2>1. CASE p = path /\ i = number
      BY <1>5, <2>1
    <2>2. CASE ~(p = path /\ i = number)
      BY <1>3, <2>2 DEF IInv, OneRunPerNumber
    <2> QED
      BY <2>1, <2>2
  <1>10. Past'
    BY <1>1, <1>3 DEF IInv, TypeOK, Past
  <1>11. Ordered'
    <2> SUFFICES ASSUME NEW p \in Paths \ forgotten, NEW i \in Number, NEW n \in Number,
                        NEW k \in Kind, NEW l \in Kind, n < i,
                        file'[p][i][k] # 0, file'[p][n][l] # 0
                 PROVE  file'[p][n][l] <= file'[p][i][k]
      BY DEF Ordered
    <2>1. file[p][n][l] \in Nat /\ file[p][i][k] \in Nat /\ run \in Nat /\ i \in Nat /\ n \in Nat
      <3>1. file[p][n][l] \in 0 .. MaxRuns /\ file[p][i][k] \in 0 .. MaxRuns /\ run \in 0 .. MaxRuns
        BY <1>1 DEF TypeOK
      <3>2. i \in Nat /\ n \in Nat
        BY DEF Number
      <3> QED
        BY <3>1, <3>2
    <2>2. CASE p = path /\ i = number
      <3>1. file'[p][i][k] = run /\ file'[p][n][l] = file[p][n][l]
        BY <1>3, <1>5, <2>1, <2>2
      <3> QED
        BY <3>1 DEF IInv, Past
    <2>3. CASE p = path /\ n = number
      <3>1. file[p][i][k] # 0 /\ numTxt[path] = number + 1 /\ pc # "number"
        BY <1>3, <2>1, <2>3 DEF IInv, Progress, Writing
      <3>2. i < NumberRead(path)
        BY <2>3, <3>1 DEF IInv, Fresh, NextFree
      <3> QED
        BY <2>1, <2>3, <3>1, <3>2 DEF NumberRead
    <2>4. CASE ~(p = path /\ i = number) /\ ~(p = path /\ n = number)
      BY <1>3, <2>4 DEF IInv, Ordered
    <2> QED
      BY <2>2, <2>3, <2>4
  <1> QED
    BY <1>2, <1>4, <1>5, <1>6, <1>7, <1>8, <1>9, <1>10, <1>11

LEMMA FileStep ==
    ASSUME IInv, OpenCopy \/ FillCopy \/ WriteConfig
    PROVE  IInv' /\ Kept
  <1>1. CASE OpenCopy
    <2> DEFINE k0 == Copies[copied + 1]
    <2>1. /\ pc = "copy" /\ pc' = "fill" /\ copied' = copied /\ copied \in 0 .. 2
          /\ UNCHANGED << run, path, interrupted, number, numTxt, forgotten >>
          /\ file' = [file EXCEPT ![path][number][k0] = 0]
      BY <1>1, CopiesFacts DEF IInv, TypeOK, Progress, OpenCopy
    <2>2. k0 \in Kind /\ k0 # "full_config" /\ (path \notin forgotten => file[path][number][k0] = 0)
      BY <2>1, CopiesFacts DEF IInv, Unwritten, Writing
    <2> HIDE DEF k0
    <2>3. /\ file' \in [Paths -> [Number -> [Kind -> 0 .. MaxRuns]]]
          /\ \A k \in Kind : file'[path][number][k] = IF k = k0 THEN 0 ELSE file[path][number][k]
          /\ Bounded' /\ Fresh' /\ OneRunPerNumber' /\ Past' /\ Ordered'
          /\ path \notin forgotten => \A k \in Kind : file'[path][number][k] \in {0, run}
          /\ Kept
      <3>1. 0 \in 0 .. run /\ run \in 0 .. run
        BY DEF IInv, TypeOK
      <3> QED
        BY <2>1, <2>2, <3>1, OneMoreFile DEF Writing
    <2>4. path \notin forgotten => \A k \in Kind : file'[path][number][k] = file[path][number][k]
      BY <2>2, <2>3
    <2>5. TypeOK'
      BY <2>1, <2>3 DEF IInv, TypeOK, Step
    <2>6. Progress'
      BY <2>1 DEF IInv, Progress, Saving, Writing
    <2>7. Unwritten'
      BY <2>1, <2>3, <2>4, CopiesFacts DEF IInv, Unwritten, Writing, Kind
    <2> QED
      BY <2>3, <2>5, <2>6, <2>7 DEF IInv
  <1>2. CASE FillCopy
    <2> DEFINE k0 == Copies[copied + 1]
    <2>1. /\ pc = "fill" /\ pc' = (IF copied' = 3 THEN "config" ELSE "copy")
          /\ copied' = copied + 1 /\ copied \in 0 .. 2
          /\ UNCHANGED << run, path, interrupted, number, numTxt, forgotten >>
          /\ file' = [file EXCEPT ![path][number][k0] = run]
      BY <1>2, CopiesFacts DEF IInv, TypeOK, Progress, FillCopy
    <2>2. k0 \in Kind /\ k0 # "full_config" /\ (path \notin forgotten => file[path][number][k0] = 0)
      BY <2>1, CopiesFacts DEF IInv, Unwritten, Writing
    <2>0. \A j \in 1 .. 3 : Copies[j] = k0 <=> j = copied + 1
      BY <2>1, CopiesFacts
    <2> HIDE DEF k0
    <2>3. /\ file' \in [Paths -> [Number -> [Kind -> 0 .. MaxRuns]]]
          /\ \A k \in Kind : file'[path][number][k] = IF k = k0 THEN run ELSE file[path][number][k]
          /\ Bounded' /\ Fresh' /\ OneRunPerNumber' /\ Past' /\ Ordered'
          /\ path \notin forgotten => \A k \in Kind : file'[path][number][k] \in {0, run}
          /\ Kept
      <3>1. 0 \in 0 .. run /\ run \in 0 .. run
        BY DEF IInv, TypeOK
      <3> QED
        BY <2>1, <2>2, <3>1, OneMoreFile DEF Writing
    <2>5. TypeOK'
      BY <2>1, <2>3, CopiesFacts DEF IInv, TypeOK, Step
    <2>6. Progress'
      BY <2>1 DEF IInv, Progress, Saving, Writing
    <2>7. Unwritten'
      <3>1. path \notin forgotten => \A j \in (copied' + 1) .. 3 : file'[path][number][Copies[j]] = 0
        BY <2>0, <2>1, <2>3, CopiesFacts DEF IInv, Unwritten, Writing
      <3>2. path \notin forgotten => file'[path][number]["full_config"] = 0
        BY <2>1, <2>2, <2>3 DEF IInv, Unwritten, Writing, Kind
      <3> QED
        BY <2>1, <2>3, <3>1, <3>2 DEF Unwritten
    <2> QED
      BY <2>3, <2>5, <2>6, <2>7 DEF IInv
  <1>3. CASE WriteConfig
    <2>1. PICK written \in {run, file[path][number]["full_config"]} :
            file' = [file EXCEPT ![path][number]["full_config"] = written]
      BY <1>3 DEF WriteConfig
    <2>2. /\ pc = "config" /\ pc' = "ended" /\ copied' = copied
          /\ UNCHANGED << run, path, interrupted, number, numTxt, forgotten >>
          /\ "full_config" \in Kind
          /\ path \notin forgotten => file[path][number]["full_config"] = 0
      BY <1>3 DEF IInv, Unwritten, Writing, WriteConfig, Kind
    <2>0. pc \in Writing /\ pc' \in Writing \cup {"ended"}
      BY <2>2 DEF Writing
    <2>4. written \in 0 .. run /\ (path \notin forgotten => written \in {0, run})
      <3>1. /\ run \in Nat /\ path \in Paths /\ number \in Number
            /\ file[path][number]["full_config"] \in Nat
        BY <2>0, <2>2 DEF IInv, TypeOK, Progress, Saving, Writing
      <3>2. file[path][number]["full_config"] <= run
        BY <2>2, <3>1 DEF IInv, Past
      <3> QED
        BY <2>2, <3>1, <3>2
    <2>3. /\ file' \in [Paths -> [Number -> [Kind -> 0 .. MaxRuns]]]
          /\ \A k \in Kind : file'[path][number][k]
                            = IF k = "full_config" THEN written ELSE file[path][number][k]
          /\ Bounded' /\ Fresh' /\ OneRunPerNumber' /\ Past' /\ Ordered' /\ Kept
      BY <2>0, <2>1, <2>2, <2>4, OneMoreFile
    <2>5. TypeOK'
      BY <2>2, <2>3 DEF IInv, TypeOK
    <2>6. Progress' /\ Unwritten'
      BY <2>2 DEF Progress, Unwritten, Saving, Writing
    <2> QED
      BY <2>3, <2>5, <2>6 DEF IInv
  <1> QED
    BY <1>1, <1>2, <1>3

LEMMA QuietKept ==
    ASSUME IInv, UNCHANGED file
    PROVE  Kept
  BY DEF Kept

LEMMA NextHolds ==
    ASSUME IInv, [Next]_vars
    PROVE  IInv' /\ Kept
  <1>1. CASE Start \/ Load \/ Simulate \/ Save \/ Interrupt \/ Kill \/ UNCHANGED vars
    <2>1. IInv'
      BY <1>1, QuietStep
    <2>2. file' = file
      BY <1>1 DEF Start, Load, Simulate, Save, Interrupt, Kill, vars
    <2> QED
      BY <2>1, <2>2, QuietKept
  <1>2. CASE Truncate \/ WriteNumber
    <2>1. IInv'
      BY <1>2, NumberStep
    <2>2. file' = file
      BY <1>2 DEF Truncate, WriteNumber
    <2> QED
      BY <2>1, <2>2, QuietKept
  <1>3. CASE OpenCopy \/ FillCopy \/ WriteConfig
    BY <1>3, FileStep
  <1> QED
    BY <1>1, <1>2, <1>3 DEF Next

LEMMA Inductive == Spec => []IInv
  <1>1. IInv /\ [Next]_vars => IInv'
    BY NextHolds
  <1> QED
    BY <1>1, InitHolds, PTL DEF Spec

(* Only directories, numbers and runs that exist are ever used: no run     *)
(* takes more than two numbers (saveLogs, signalHandler).                  *)
THEOREM OutputTypeCorrect == Spec => []TypeOK
  <1>1. IInv => TypeOK
    BY DEF IInv
  <1> QED
    BY <1>1, Inductive, PTL

(* What a run has saved is never touched again, by an interrupt during     *)
(* saving or by a later run (Logger::copyFile), unless one of them has     *)
(* been stopped while num.txt was empty.                                   *)
THEOREM SavedRecordsKept == Spec => RecordsKept
  <1>1. IInv /\ [Next]_vars
          => [\A p \in Paths \ forgotten, i \in Number, k \in Kind :
                file[p][i][k] # 0 => file'[p][i][k] = file[p][i][k]]_vars
    BY NextHolds DEF Kept
  <1> QED
    BY <1>1, Inductive, PTL DEF Spec, RecordsKept

(* The files saved under one number are all from one run, but for the same *)
(* stop.                                                                   *)
THEOREM NumbersOfOneRun == Spec => []OneRunPerNumber
  <1>1. IInv => OneRunPerNumber
    BY DEF IInv
  <1> QED
    BY <1>1, Inductive, PTL

(* Every record is below the number in num.txt, and the later ones have    *)
(* the higher numbers, wherever runs are interrupted or killed in saving   *)
(* them; but for the same stop.                                            *)
THEOREM LaterRunsHigher == Spec => []LatestFirst
  <1>1. IInv => LatestFirst
    <2> SUFFICES ASSUME IInv, NEW p \in Paths \ forgotten, NEW i \in Number,
                        NEW r \in RunsUnder(p, i)
                 PROVE  /\ i < numTxt[p] \/ (pc = "number" /\ p = path)
                        /\ \A n \in 1 .. i - 1 : \A q \in RunsUnder(p, n) : q <= r
      BY DEF LatestFirst
    <2>1. PICK k \in Kind : file[p][i][k] = r /\ r # 0
      BY DEF RunsUnder
    <2>2. i < numTxt[p] \/ (pc = "number" /\ p = path)
      <3>1. i < NextFree(p)
        BY <2>1 DEF IInv, Fresh
      <3>2. i \in Nat \ {0}
        BY DEF Number
      <3> QED
        BY <3>1, <3>2 DEF NextFree, NumberRead
    <2>3. ASSUME NEW n \in 1 .. i - 1, NEW q \in RunsUnder(p, n) PROVE q <= r
      <3>1. n \in Number /\ n < i
        BY OutputAssumption DEF Number
      <3>2. PICK l \in Kind : file[p][n][l] = q /\ q # 0
        BY DEF RunsUnder
      <3> QED
        BY <2>1, <3>1, <3>2 DEF IInv, Ordered
    <2> QED
      BY <2>2, <2>3
  <1> QED
    BY <1>1, Inductive, PTL
-----------------------------------------------------------------------------
(* The program. *)

(* Whatever the configuration, the program does what OutputFiles says, so  *)
(* the theorems above hold of it.                                          *)
LEMMA ProgramIsOutputFiles == ProgramSpec => Spec
<1>1. ProgramInit => Init
  BY DEF ProgramInit
<1>2. [ProgramNext]_<< vars, settings >> => [Next]_vars
  <2>1. ProgramNext => Next \/ UNCHANGED vars
    BY DEF ProgramNext, Next, StartRun, LoadConfig, Reload, ReloadThrows,
           RunSimulation, Write, Elsewhere, Edit
  <2> QED
    BY <2>1
<1> QED
  BY <1>1, <1>2, PTL DEF ProgramSpec, Spec

(* What is read without an exception is a configuration.                   *)
LEMMA FromFile ==
    ASSUME NEW f \in Files, ~Throws(f)
    PROVE  ConfigFrom(f) \in Config
<1>1. CASE f = NoFile
  BY <1>1 DEF ConfigFrom, Config
<1>2. CASE f \in Item /\ f # NoFile
  <2>1. /\ ValueOrDefault(f.numNodes) \in {"given", "default"}
        /\ ValueOrDefault(f.latency) \in {"given", "default"}
        /\ ValueOrDefault(f.AdakStrategy) \in {"Control", "default"}
        /\ ConnectionType(f.connectionMode) \in {"full", "Custom", "Invalid"}
    BY <1>2 DEF Item, ValueOrDefault, ConnectionType, Throws, ThrowsBeforeStrategy
  <2> QED
    BY <1>2, <2>1 DEF ConfigFrom, Config
<1> QED
  BY <1>1, <1>2, FilesAssumption DEF File

(* No run of the program leaves the numbers, records and settings that     *)
(* there are.                                                              *)
THEOREM ProgramTypeCorrect == ProgramSpec => []ProgramTypeOK
<1> DEFINE Settings == /\ configFile \in Files /\ edits \in 0 .. MaxEdits
                       /\ config \in Config /\ running \in Config
                       /\ reloaded \in BOOLEAN
<1>1. NotRead \in Config
  BY DEF NotRead, Config
<1>2. ProgramInit => Settings
  <2>1. 0 \in 0 .. MaxEdits
    BY FilesAssumption
  <2> QED
    BY <1>1, <2>1 DEF ProgramInit
<1>3. Settings /\ [ProgramNext]_<< vars, settings >> => Settings'
  <2> SUFFICES ASSUME Settings, [ProgramNext]_<< vars, settings >> PROVE Settings'
    OBVIOUS
  <2>1. CASE StartRun
    BY <2>1, <1>1 DEF StartRun
  <2>2. CASE LoadConfig
    BY <2>2, FromFile DEF LoadConfig
  <2>3. CASE Reload
    BY <2>3, FromFile DEF Reload
  <2>4. CASE Edit
    BY <2>4, FilesAssumption DEF Edit
  <2>5. CASE UNCHANGED settings
    BY <2>5 DEF settings
  <2> QED
    BY <2>1, <2>2, <2>3, <2>4, <2>5
    DEF ProgramNext, ReloadThrows, RunSimulation, Write, Elsewhere
<1>4. Spec => []TypeOK
  BY OutputTypeCorrect
<1>5. TypeOK /\ Settings => ProgramTypeOK
  BY DEF ProgramTypeOK
<1> QED
  BY <1>2, <1>3, <1>4, <1>5, ProgramIsOutputFiles, PTL DEF ProgramSpec
-----------------------------------------------------------------------------
LEMMA LoadedMode ==
    ASSUME NEW f \in Files, ~Throws(f)
    PROVE  ConfigFrom(f).connectionMode # "Custom"
BY DEF Throws, NotImplemented, ConfigFrom, ConnectionType

ModeInv == config.connectionMode # "Custom" /\ running.connectionMode # "Custom"

(* No reader of the configuration ever has mode custom.                    *)
THEOREM CustomNeverRuns == ProgramSpec => []NoCustomConnections
<1> DEFINE ModesOK == configFile \in Files /\ ModeInv
<1>1. ProgramInit => ModesOK
  BY DEF ProgramInit, ModeInv, NotRead
<1>2. ModesOK /\ [ProgramNext]_<< vars, settings >> => ModesOK'
  <2> SUFFICES ASSUME ModesOK, [ProgramNext]_<< vars, settings >> PROVE ModesOK'
    OBVIOUS
  <2>1. CASE StartRun
    BY <2>1 DEF StartRun, ModeInv, NotRead
  <2>2. CASE LoadConfig
    BY <2>2, LoadedMode DEF LoadConfig, ModeInv
  <2>3. CASE Reload
    BY <2>3, LoadedMode DEF Reload, ModeInv
  <2>4. CASE Edit
    BY <2>4 DEF Edit, ModeInv
  <2>5. CASE UNCHANGED settings
    BY <2>5 DEF settings, ModeInv
  <2> QED
    BY <2>1, <2>2, <2>3, <2>4, <2>5
    DEF ProgramNext, ReloadThrows, RunSimulation, Write, Elsewhere
<1>3. ModesOK => NoCustomConnections
  BY DEF ModeInv, NoCustomConnections
<1> QED
  BY <1>1, <1>2, <1>3, PTL DEF ProgramSpec
=============================================================================
