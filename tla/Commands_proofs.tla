---------------------------- MODULE Commands_proofs ----------------------------
(***************************************************************************)
(* What calibrate reports, what gen and synthesis leave behind and what    *)
(* fuzz starts, for any number of files, seeds, scripts and instances and  *)
(* whatever system calls fail.                                             *)
(***************************************************************************)
EXTENDS Commands, FiniteSetTheorems, SequenceTheorems, TLAPS

MainFirst == pc = "main" => command = "none"

LEMMA MainFirstStep ==
  ASSUME MainFirst, [Next]_vars
  PROVE  MainFirst'
BY DEF MainFirst, Next, vars, processVars, Main, Choose, Fuzz, FuzzNext, FuzzExecute, Start, Locate,
       Launch, Launched, WaitForChild, Finished, LaunchFails, WaitpidFailed, InstanceEnds,
       Calibrate, CalibrateNext, CalibrateExecute, BeginCalibration, TakeFile, Synthesise,
       TruncateScript, WriteScript, ExecuteProgram, Count, Overview, WaitpidFails, ProgramEnds,
       Gen, GenNext, LoadStore, ChangeWorkingDirectory, Generate, WriteSeed, Done,
       Synthesis, SynthesisNext, StartSynthesis, CreateOutputDirectory, TakeTestCase, ShowCode,
       WriteTextToFile, AllSynthesised, Goto, Exit

-----------------------------------------------------------------------------
(* gen.  While it works, the seeds below tci are its own and the others are
   older. *)
SeedsSoFar ==
  /\ 0 .. (tci - 1) \subseteq DOMAIN seeds
  /\ \A i \in DOMAIN seeds :
       /\ i \in Nat
       /\ IF i < tci THEN seeds[i].mine /\ (genOpts.full => seeds[i].root = i) ELSE ~seeds[i].mine

GenInv ==
  /\ genOpts \in GenOptions
  /\ tci \in Nat
  /\ command # "gen" \/ pc \in {"main", "start", "chdir"} => tci = 0
  /\ command = "gen" /\ pc \in {"generate", "write"} => SeedsSoFar /\ tci <= tcCount
  /\ command = "gen" /\ pc = "write" => tci < tcCount /\ (genOpts.full => root = tci)
  /\ SeedsAsAsked

LEMMA TcCount ==
  ASSUME GenInv
  PROVE  tcCount \in Nat \ {0}
BY GenAssumption DEF GenInv, tcCount

LEMMA GenStep ==
  ASSUME GenInv, MainFirst, [Next]_vars
  PROVE  GenInv'
<1> USE DEF GenInv, Goto, Exit
<1>1. CASE Main
  BY <1>1 DEF Main, Choose, genVars, MainFirst, SeedsAsAsked
<1>2. CASE Fuzz
  <2>1. UNCHANGED genVars /\ (UNCHANGED processVars \/ (command = "fuzz" /\ command' = command))
    BY <1>2 DEF Fuzz, FuzzNext, FuzzExecute, Start, Locate, Launch, Launched, WaitForChild,
                Finished, LaunchFails, WaitpidFailed, InstanceEnds
  <2> QED
    BY <2>1 DEF genVars, processVars, SeedsAsAsked, SeedsSoFar, tcCount
<1>3. CASE Calibrate
  <2>1. UNCHANGED genVars /\ (UNCHANGED processVars \/ (command = "calibrate" /\ command' = command))
    BY <1>3 DEF Calibrate, CalibrateNext, CalibrateExecute, BeginCalibration, TakeFile, Synthesise,
                TruncateScript, WriteScript, ExecuteProgram, Count, Overview, WaitpidFails,
                ProgramEnds
  <2> QED
    BY <2>1 DEF genVars, processVars, SeedsAsAsked, SeedsSoFar, tcCount
<1>4. CASE Synthesis
  <2>1. UNCHANGED genVars /\ command = "synthesis" /\ command' = command
    BY <1>4 DEF Synthesis, SynthesisNext, StartSynthesis, CreateOutputDirectory, TakeTestCase,
                ShowCode, WriteTextToFile, AllSynthesised
  <2> QED
    BY <2>1 DEF genVars, SeedsAsAsked
<1>5. CASE LoadStore
  BY <1>5 DEF LoadStore, SeedsAsAsked
<1>6. CASE ChangeWorkingDirectory
  <2>1. CASE UNCHANGED seeds /\ Exit(1)
    BY <1>6, <2>1 DEF ChangeWorkingDirectory, SeedsAsAsked
  <2>2. CASE Goto("generate")
    <3>1. PICK old \in SUBSET OldSeeds :
            seeds' = [i \in old |-> [root |-> 0, whole |-> TRUE, mine |-> FALSE]]
      BY <1>6, <2>2 DEF ChangeWorkingDirectory
    <3>2. tci = 0 /\ tci' = 0 /\ genOpts' = genOpts
      BY <1>6 DEF ChangeWorkingDirectory
    <3>3. SeedsSoFar'
      BY <3>1, <3>2, GenAssumption DEF SeedsSoFar
    <3> QED
      BY <1>6, <2>2, <3>2, <3>3, TcCount DEF tcCount, SeedsAsAsked
  <2> QED
    BY <1>6, <2>1, <2>2 DEF ChangeWorkingDirectory
<1>7. CASE Generate
  BY <1>7 DEF Generate, SeedsAsAsked, SeedsSoFar, tcCount
<1>8. CASE WriteSeed
  <2>1. CASE UNCHANGED <<seeds, tci>> /\ Exit(1)
    BY <1>8, <2>1 DEF WriteSeed, SeedsAsAsked
  <2>2. CASE Goto("generate")
    <3>1. PICK whole \in BOOLEAN :
            seeds' = [i \in DOMAIN seeds \cup {tci} |->
                        IF i = tci THEN [root |-> root, whole |-> whole, mine |-> TRUE]
                        ELSE seeds[i]]
      BY <1>8, <2>2 DEF WriteSeed
    <3>2. tci' = tci + 1 /\ genOpts' = genOpts /\ command = "gen" /\ pc = "write"
      BY <1>8, <2>2 DEF WriteSeed
    <3>3. SeedsSoFar /\ tci < tcCount /\ (genOpts.full => root = tci)
      BY <3>2
    <3>4. SeedsSoFar'
      BY <3>1, <3>2, <3>3 DEF SeedsSoFar
    <3> QED
      BY <2>2, <3>2, <3>3, <3>4, TcCount DEF tcCount, SeedsAsAsked
  <2> QED
    BY <1>8, <2>1, <2>2 DEF WriteSeed
<1>9. CASE Done
  <2>1. SeedsSoFar /\ tci = tcCount
    BY <1>9, TcCount DEF Done
  <2> QED
    BY <1>9, <2>1 DEF Done, genVars, SeedsAsAsked, SeedsSoFar, tcCount
<1>10. CASE UNCHANGED vars
  BY <1>10 DEF vars, genVars, processVars, SeedsAsAsked, SeedsSoFar, tcCount
<1> QED
  BY <1>1, <1>2, <1>3, <1>4, <1>5, <1>6, <1>7, <1>8, <1>9, <1>10 DEF Next, Gen, GenNext

(* Whatever an earlier command left and whichever calls fail: a gen command that
   succeeds has written every seed it was asked for, under --full each for its
   entry (src/src/CLI/GenerateTestCaseCommand.cpp). *)
THEOREM SeedsAlwaysAsAsked == Spec => []SeedsAsAsked
<1>1. Init => GenInv /\ MainFirst
  BY GenAssumption DEF Init, CommandLineInit, GenInit, GenInv, MainFirst, SeedsAsAsked
<1>2. GenInv => SeedsAsAsked
  BY DEF GenInv
<1> QED
  BY <1>1, <1>2, GenStep, MainFirstStep, PTL DEF Spec

-----------------------------------------------------------------------------
(* calibrate.  The lines printed belong to the first upTo files, in their order;
   while a file is at hand, it is not among them. *)
Lines == [file : STRING, sig : Signals \cup {0}, ran : Seq(STRING)]

InOrder(names, lines, upTo) ==
  \E at \in [DOMAIN lines -> 1 .. upTo] :
    /\ \A l \in DOMAIN lines : names[at[l]] = lines[l].file
    /\ \A l, m \in DOMAIN lines : l < m => at[l] < at[m]

OwnCode(lines) == \A l \in DOMAIN lines : lines[l].ran \in {<<lines[l].file>>, <<>>}

LinesOf(lines, s) == {l \in DOMAIN lines : lines[l].sig = s}

Counted(counter, lines) ==
  /\ DOMAIN counter = Signals \cup {0}
  /\ \A s \in Signals \cup {0} : counter[s] = Cardinality(LinesOf(lines, s))

AtHand == command = "calibrate" /\ pc \in {"synthesise", "truncate", "write", "execute", "waitpid"}
Behind == IF AtHand THEN current - 1 ELSE current

(* At each place the one script and the one builder hold the file at hand. *)
Content ==
  /\ pc = "synthesise" => code = <<>>
  /\ pc \in {"truncate", "write"} => code = <<File>>
  /\ pc = "execute" => script \in {<<File>>, <<>>}
  /\ pc = "waitpid" =>
       \E p \in {<<File>>, <<>>}, s \in Signals \cup {0, -1} :
         running = <<[program |-> p, sig |-> s]>>

CalibrateInv ==
  /\ tcFiles \in Seq(STRING)
  /\ printed \in Seq(Lines)
  /\ current \in 0 .. Len(tcFiles)
  /\ AtHand => current > 0 /\ Content
  /\ command # "calibrate" \/ pc \in {"main", "start"} => current = 0 /\ printed = <<>>
  /\ OwnCode(printed)
  /\ Len(printed) <= Behind
  /\ InOrder(tcFiles, printed, Behind)
  /\ Counted(signalCounter, printed)

LEMMA Singleton ==
  ASSUME NEW S, NEW x \in S
  PROVE  <<x>> \in Seq(S)
OBVIOUS

(* One more line, of the file after those the lines belong to so far. *)
LEMMA OneMoreLine ==
  ASSUME NEW names, NEW lines \in Seq(Lines), NEW line \in Lines, NEW n \in Nat,
         InOrder(names, lines, n), names[n + 1] = line.file
  PROVE  InOrder(names, Append(lines, line), n + 1)
<1>1. PICK at \in [DOMAIN lines -> 1 .. n] :
        /\ \A l \in DOMAIN lines : names[at[l]] = lines[l].file
        /\ \A l, m \in DOMAIN lines : l < m => at[l] < at[m]
  BY DEF InOrder
<1> DEFINE more == Append(lines, line)
<1> DEFINE to == [l \in DOMAIN more |-> IF l \in DOMAIN lines THEN at[l] ELSE n + 1]
<1>2. /\ DOMAIN lines = 1 .. Len(lines) /\ DOMAIN more = 1 .. (Len(lines) + 1)
      /\ Len(lines) \in Nat
      /\ \A l \in DOMAIN lines : more[l] = lines[l]
      /\ more[Len(lines) + 1] = line
  OBVIOUS
<1>3. to \in [DOMAIN more -> 1 .. (n + 1)]
  BY <1>1
<1>4. \A l \in DOMAIN more : names[to[l]] = more[l].file
  BY <1>1, <1>2
<1>5. \A l, m \in DOMAIN more : l < m => to[l] < to[m]
  BY <1>1, <1>2
<1> QED
  BY <1>3, <1>4, <1>5 DEF InOrder

LEMMA OneMoreCounted ==
  ASSUME NEW lines \in Seq(Lines), NEW line \in Lines, NEW counter, Counted(counter, lines)
  PROVE  Counted([counter EXCEPT ![line.sig] = @ + 1], Append(lines, line))
<1> DEFINE more == Append(lines, line)
<1>1. /\ DOMAIN lines = 1 .. Len(lines) /\ DOMAIN more = 1 .. (Len(lines) + 1)
      /\ Len(lines) \in Nat
      /\ \A l \in DOMAIN lines : more[l] = lines[l]
      /\ more[Len(lines) + 1] = line
  OBVIOUS
<1>2. ASSUME NEW s \in Signals \cup {0}
      PROVE  [counter EXCEPT ![line.sig] = @ + 1][s] = Cardinality(LinesOf(more, s))
  <2>1. IsFiniteSet(LinesOf(lines, s))
    <3>1. IsFiniteSet(1 .. Len(lines))
      BY <1>1, FS_Interval
    <3> QED
      BY <3>1, <1>1, FS_Subset DEF LinesOf
  <2>2. LinesOf(more, s) = IF line.sig = s THEN LinesOf(lines, s) \cup {Len(lines) + 1}
                                           ELSE LinesOf(lines, s)
    BY <1>1 DEF LinesOf
  <2>3. Len(lines) + 1 \notin LinesOf(lines, s)
    BY <1>1 DEF LinesOf
  <2>4. Cardinality(LinesOf(lines, s) \cup {Len(lines) + 1}) = Cardinality(LinesOf(lines, s)) + 1
    BY <2>1, <2>3, FS_AddElement
  <2> QED
    BY <2>2, <2>4 DEF Counted
<1> QED
  BY <1>2 DEF Counted

LEMMA Further ==
  ASSUME NEW names, NEW lines, NEW m \in Nat, NEW n \in Nat, m <= n, InOrder(names, lines, m)
  PROVE  InOrder(names, lines, n)
<1>1. PICK at \in [DOMAIN lines -> 1 .. m] :
        /\ \A l \in DOMAIN lines : names[at[l]] = lines[l].file
        /\ \A l, k \in DOMAIN lines : l < k => at[l] < at[k]
  BY DEF InOrder
<1>2. at \in [DOMAIN lines -> 1 .. n]
  OBVIOUS
<1> QED
  BY <1>1, <1>2 DEF InOrder

LEMMA NothingCounted ==
  /\ OwnCode(<<>>)
  /\ \A fs : \A n \in Nat : InOrder(fs, <<>>, n)
  /\ Counted([s \in Signals \cup {0} |-> 0], <<>>)
<1>1. OwnCode(<<>>)
  BY DEF OwnCode
<1>2. ASSUME NEW fs, NEW n \in Nat
      PROVE  InOrder(fs, <<>>, n)
  <2>1. [l \in {} |-> 1] \in [DOMAIN <<>> -> 1 .. n]
    OBVIOUS
  <2> QED
    BY <2>1 DEF InOrder
<1>3. \A s : LinesOf(<<>>, s) = {}
  BY DEF LinesOf
<1> QED
  BY <1>1, <1>2, <1>3, FS_EmptySet DEF Counted

(* A file is put aside, with or without a line. *)
LEMMA PutAside ==
  ASSUME CalibrateInv, ~AtHand', command' = "calibrate", pc' \notin {"main", "start"},
         UNCHANGED <<tcFiles, current, printed, signalCounter>>
  PROVE  CalibrateInv'
<1>1. Behind \in Nat /\ current \in Nat /\ Behind <= current /\ Behind' = current
  BY DEF CalibrateInv, Behind
<1>2. InOrder(tcFiles, printed, current)
  BY <1>1, Further DEF CalibrateInv
<1>3. Len(printed) <= current
  BY <1>1 DEF CalibrateInv
<1> QED
  BY <1>1, <1>2, <1>3 DEF CalibrateInv

(* Work on the file at hand goes on. *)
LEMMA GoOn ==
  ASSUME CalibrateInv, AtHand, AtHand', Content', UNCHANGED <<tcFiles, current, printed, signalCounter>>
  PROVE  CalibrateInv'
<1>1. Behind' = Behind
  BY DEF Behind
<1> QED
  BY <1>1 DEF CalibrateInv, AtHand

LEMMA CalibrateStep ==
  ASSUME CalibrateInv, CalibrateNext
  PROVE  CalibrateInv'
<1> USE DEF Goto, Exit, File
<1>1. CASE BeginCalibration
  <2>1. current = 0 /\ printed = <<>> /\ UNCHANGED <<current, printed, signalCounter>>
    BY <1>1 DEF BeginCalibration, CalibrateInv
  <2>2. tcFiles' \in Seq(STRING)
    BY <1>1, CalibrationAssumption DEF BeginCalibration, CalibrateInv
  <2>3. ~AtHand' /\ command' = "calibrate" /\ pc' \notin {"main", "start"}
    BY <1>1 DEF BeginCalibration, AtHand
  <2>4. Behind' = 0
    BY <2>1, <2>3 DEF Behind
  <2> QED
    BY <2>1, <2>2, <2>3, <2>4, NothingCounted DEF CalibrateInv
<1>2. CASE TakeFile
  <2>1. /\ command = "calibrate" /\ command' = command /\ pc = "file" /\ current' = current + 1
        /\ current < Len(tcFiles) /\ code' = <<>> /\ pc' \in {"file", "synthesise"}
        /\ UNCHANGED <<tcFiles, printed, signalCounter>>
    BY <1>2 DEF TakeFile
  <2>2. current \in Nat /\ Behind = current /\ Behind' \in {current, current + 1}
    BY <2>1 DEF CalibrateInv, Behind, AtHand
  <2>3. InOrder(tcFiles, printed, Behind')
    BY <2>2, Further DEF CalibrateInv
  <2>4. Len(printed) <= Behind'
    BY <2>2 DEF CalibrateInv
  <2>5. AtHand' => current' > 0 /\ Content'
    BY <2>1, <2>2 DEF AtHand, Content
  <2> QED
    BY <2>1, <2>2, <2>3, <2>4, <2>5 DEF CalibrateInv
<1>3. CASE Synthesise
  <2>1. AtHand /\ Content
    BY <1>3 DEF Synthesise, AtHand, CalibrateInv
  <2>2. CASE File \in Malformed
    BY <1>3, <2>2, PutAside DEF Synthesise, AtHand
  <2>3. CASE File \notin Malformed
    <3>1. code' = <<File>>
      BY <1>3, <2>1, <2>3 DEF Synthesise, Content
    <3> QED
      BY <1>3, <2>1, <2>3, <3>1, GoOn DEF Synthesise, AtHand, Content
  <2> QED
    BY <2>2, <2>3
<1>4. CASE TruncateScript
  <2>1. AtHand /\ Content
    BY <1>4 DEF TruncateScript, AtHand, CalibrateInv
  <2>2. CASE pc' = "over"
    BY <1>4, <2>2, PutAside DEF TruncateScript, AtHand
  <2>3. CASE pc' = "write"
    BY <1>4, <2>1, <2>3, GoOn DEF TruncateScript, AtHand, Content
  <2> QED
    BY <1>4, <2>2, <2>3 DEF TruncateScript
<1>5. CASE WriteScript
  <2>1. AtHand /\ Content
    BY <1>5 DEF WriteScript, AtHand, CalibrateInv
  <2>2. CASE pc' = "file"
    BY <1>5, <2>2, PutAside DEF WriteScript, AtHand
  <2>3. CASE pc' = "execute"
    BY <1>5, <2>1, <2>3, GoOn DEF WriteScript, AtHand, Content
  <2> QED
    BY <1>5, <2>2, <2>3 DEF WriteScript
<1>6. CASE ExecuteProgram
  <2>1. AtHand /\ Content
    BY <1>6 DEF ExecuteProgram, AtHand, CalibrateInv
  <2>2. CASE pc' = "over"
    BY <1>6, <2>2, PutAside DEF ExecuteProgram, AtHand
  <2>3. CASE pc' = "waitpid"
    BY <1>6, <2>1, <2>3, GoOn DEF ExecuteProgram, AtHand, Content
  <2> QED
    BY <1>6, <2>2, <2>3 DEF ExecuteProgram
<1>7. CASE WaitpidFails
  BY <1>7, PutAside DEF WaitpidFails, AtHand, calibrateVars
<1>8. CASE Overview
  BY <1>8, PutAside DEF Overview, AtHand, calibrateVars
<1>9. CASE \E sig \in Signals \cup {0} : ProgramEnds(sig)
  <2>1. PICK sig \in Signals \cup {0} : ProgramEnds(sig)
    BY <1>9
  <2>2. UNCHANGED <<processVars, tcFiles, current, code, script, printed, signalCounter>>
    BY <2>1 DEF ProgramEnds
  <2>3. CASE AtHand
    <3>1. pc = "waitpid" =>
            \E p \in {<<File>>, <<>>} : running' = <<[program |-> p, sig |-> sig]>>
      BY <2>1, <2>3 DEF ProgramEnds, CalibrateInv, Content
    <3>2. Content'
      BY <2>2, <2>3, <3>1 DEF CalibrateInv, Content, processVars
    <3> QED
      BY <2>2, <2>3, <3>2, GoOn DEF AtHand, processVars
  <2>4. CASE ~AtHand
    BY <2>2, <2>4 DEF CalibrateInv, AtHand, Behind, processVars
  <2> QED
    BY <2>3, <2>4
<1>10. CASE Count
  <2>1. AtHand /\ Content /\ current \in Nat /\ current > 0 /\ File \in STRING
    BY <1>10 DEF Count, AtHand, CalibrateInv
  <2>2. PICK p \in {<<File>>, <<>>}, s \in Signals \cup {0, -1} :
          running = <<[program |-> p, sig |-> s]>>
    BY <1>10, <2>1 DEF Count, Content
  <2> DEFINE line == [file |-> File, sig |-> s, ran |-> p]
  <2>3. /\ s # -1 /\ printed' = Append(printed, line)
        /\ signalCounter' = [signalCounter EXCEPT ![line.sig] = @ + 1]
        /\ UNCHANGED <<tcFiles, current>> /\ command' = "calibrate" /\ pc' = "file"
    BY <1>10, <2>2 DEF Count
  <2>4. line \in Lines /\ line.file = File /\ line.ran \in {<<line.file>>, <<>>}
    <3>1. p \in Seq(STRING)
      <4>1. \A x \in STRING : <<x>> \in Seq(STRING)
        BY Singleton
      <4>2. <<>> \in Seq(STRING)
        OBVIOUS
      <4> QED
        BY <2>1, <4>1, <4>2
    <3>2. s \in Signals \cup {0}
      BY <2>3
    <3>3. line \in Lines
      BY ONLY <2>1, <3>1, <3>2 DEF Lines
    <3> QED
      BY ONLY <3>3, p \in {<<File>>, <<>>}
  <2> HIDE DEF line
  <2>5. Behind = current - 1 /\ Behind' = current /\ ~AtHand'
    BY <2>1, <2>3 DEF Behind, AtHand
  <2>6. InOrder(tcFiles, printed', current)
    BY <2>1, <2>3, <2>4, <2>5, OneMoreLine DEF CalibrateInv
  <2>7. Counted(signalCounter', printed')
    BY <2>3, <2>4, OneMoreCounted DEF CalibrateInv
  <2>8. /\ printed' \in Seq(Lines) /\ Len(printed') = Len(printed) + 1 /\ OwnCode(printed')
    BY <2>3, <2>4 DEF CalibrateInv, OwnCode
  <2> QED
    BY <2>1, <2>3, <2>5, <2>6, <2>7, <2>8 DEF CalibrateInv
<1> QED
  BY <1>1, <1>2, <1>3, <1>4, <1>5, <1>6, <1>7, <1>8, <1>9, <1>10 DEF CalibrateNext, CalibrateExecute

LEMMA CalibrateInductive ==
  ASSUME CalibrateInv, MainFirst, [Next]_vars
  PROVE  CalibrateInv'
<1>1. CASE Calibrate
  BY <1>1, CalibrateStep DEF Calibrate
<1>2. CASE UNCHANGED <<processVars, calibrateVars>>
  BY <1>2 DEF CalibrateInv, AtHand, Behind, Content, File, processVars, calibrateVars
<1>3. ASSUME UNCHANGED calibrateVars, command # "calibrate", command' # "calibrate"
      PROVE  CalibrateInv'
  BY <1>3 DEF CalibrateInv, AtHand, Behind, calibrateVars
<1>4. CASE Main
  <2>1. UNCHANGED calibrateVars /\ pc' = "start" /\ command # "calibrate"
    BY <1>4 DEF Main, Choose, MainFirst
  <2> QED
    BY <2>1 DEF CalibrateInv, AtHand, Behind, calibrateVars
<1>5. CASE Fuzz
  <2>1. UNCHANGED calibrateVars /\ (UNCHANGED processVars \/ (command = "fuzz" /\ command' = command))
    BY <1>5 DEF Fuzz, FuzzNext, FuzzExecute, Start, Locate, Launch, Launched, WaitForChild,
                Finished, LaunchFails, WaitpidFailed, InstanceEnds, Goto, Exit
  <2> QED
    BY <2>1, <1>2, <1>3
<1>6. CASE Gen
  BY <1>6, <1>3 DEF Gen, GenNext, LoadStore, ChangeWorkingDirectory, Generate, WriteSeed, Done,
                    Goto, Exit
<1>7. CASE Synthesis
  BY <1>7, <1>3 DEF Synthesis, SynthesisNext, StartSynthesis, CreateOutputDirectory, TakeTestCase,
                    ShowCode, WriteTextToFile, AllSynthesised, Goto, Exit
<1>8. CASE UNCHANGED vars
  BY <1>8, <1>2 DEF vars
<1> QED
  BY <1>1, <1>4, <1>5, <1>6, <1>7, <1>8 DEF Next

(* Although all files share one script, one pool and one counter, and writing the
   script may fail unnoticed: every line is about the run of its own file's code, lines
   come in the order of the files, and the overview adds up to the lines
   (src/src/CLI/CalibrateCommand.cpp). *)
THEOREM CalibrationAlwaysExact == Spec => []CalibrationExact
<1>1. Init => CalibrateInv /\ MainFirst
  BY NothingCounted DEF Init, CommandLineInit, CalibrateInit, CalibrateInv, MainFirst, AtHand, Behind
<1>2. CalibrateInv => CalibrationExact
  <2> SUFFICES ASSUME CalibrateInv
               PROVE  CalibrationExact
    OBVIOUS
  <2>1. Behind \in Nat /\ current \in Nat /\ Behind <= current /\ Len(printed) <= current
    BY DEF CalibrateInv, Behind
  <2>2. InOrder(tcFiles, printed, current)
    BY <2>1, Further DEF CalibrateInv
  <2> QED
    BY <2>1, <2>2 DEF CalibrateInv, CalibrationExact, InOrder, OwnCode, Counted, LinesOf
<1> QED
  BY <1>1, <1>2, CalibrateInductive, MainFirstStep, PTL DEF Spec

-----------------------------------------------------------------------------
(* synthesis. *)
(* The paths of the scripts of the test cases ks. *)
Outputs(ks) == {OutputPath(k) : k \in ks}

(* How many scripts have been put out. *)
Out == IF pc = "emit" THEN taken - 1 ELSE taken

(* The test cases that an output has not replaced are there, and those that are no output stay. *)
Originals ==
  \A k \in DOMAIN synOpts.paths : synOpts.paths[k] \notin Outputs(1 .. Out) \cup {synOpts.out} =>
    /\ synOpts.paths[k] \in DOMAIN files => files[synOpts.paths[k]] = TestCase(synOpts.paths[k])
    /\ k <= taken => synOpts.paths[k] \in DOMAIN files

(* The outputs so far. *)
Written ==
  \A k \in 1 .. Out :
    /\ OutputPath(k) \notin Outputs(k + 1 .. Out)
    /\ synOpts.paths[k] \notin Outputs(1 .. k - 1) \cup {synOpts.out}
    => /\ OutputPath(k) \in DOMAIN files
       /\ files[OutputPath(k)] \in {Script(<<synOpts.paths[k]>>), Script(<<>>)}

(* While test cases are taken up and scripts are put out. *)
Working ==
  /\ taken \in 0 .. Len(synOpts.paths)
  /\ synOpts.out = <<>> => /\ Len(synOpts.paths) = 1
                           /\ shown = IF Out = 0 THEN <<>> ELSE <<<<synOpts.paths[1]>>>>
  /\ synOpts.out # <<>> => Written
  /\ Originals
  /\ pc = "emit" =>
       /\ taken > 0
       /\ synOpts.paths[taken] \notin Outputs(1 .. taken - 1) \cup {synOpts.out} =>
            program = <<synOpts.paths[taken]>>

(* The inductive invariant of synthesis. *)
SynthesisInv ==
  /\ command = "synthesis" /\ pc \in {"directory", "take", "emit"} => synOpts \in SynthesisOptions
  /\ command # "synthesis" \/ pc \in {"main", "start", "directory"} => taken = 0 /\ shown = <<>>
  /\ command = "synthesis" /\ pc = "directory" => files \in FileSystems
  /\ command = "synthesis" /\ pc \in {"take", "emit"} => Working
  /\ ScriptsByName

(* A command names at least one test case, and none of them "". *)
LEMMA PathFacts ==
  ASSUME NEW o \in SynthesisOptions
  PROVE  /\ Len(o.paths) \in Nat \ {0} /\ DOMAIN o.paths = 1 .. Len(o.paths)
         /\ \A k \in DOMAIN o.paths : o.paths[k] # <<>> /\ o.paths[k] \in Range(o.paths)
<1>1. o.paths \in Seq(Range(o.paths)) /\ o.paths # <<>> /\ <<>> \notin Range(o.paths)
  BY SynthesisAssumption
<1>2. PICK S : S = Range(o.paths)
  OBVIOUS
<1>3. Len(o.paths) \in Nat \ {0} /\ DOMAIN o.paths = 1 .. Len(o.paths)
  BY <1>1, <1>2
<1> QED
  BY <1>1, <1>3 DEF Range

(* The paths of the scripts depend on the command line only. *)
LEMMA SamePaths ==
  ASSUME UNCHANGED synOpts
  PROVE  /\ \A k : OutputPath(k)' = OutputPath(k)
         /\ \A ks : Outputs(ks)' = Outputs(ks)
<1>1. \A k : OutputPath(k)' = OutputPath(k)
  BY DEF OutputPath
<1> QED
  BY <1>1 DEF Outputs

(* The directory is there, is made, or cannot be made. *)
LEMMA DirectoryMade ==
  ASSUME SynthesisInv, CreateOutputDirectory
  PROVE  SynthesisInv'
<1>1. /\ command = "synthesis" /\ pc = "directory" /\ command' = command
      /\ UNCHANGED <<synOpts, taken, program, shown>> /\ taken = 0 /\ shown = <<>>
      /\ files \in FileSystems /\ synOpts \in SynthesisOptions
  BY DEF CreateOutputDirectory, SynthesisInv, Goto, Exit
<1> DEFINE paths == synOpts.paths
<1>2. /\ Len(paths) \in Nat \ {0} /\ DOMAIN paths = 1 .. Len(paths)
      /\ \A k \in DOMAIN paths : paths[k] # <<>> /\ paths[k] \in Range(paths)
  BY <1>1, PathFacts
<1>3. /\ <<>> \notin DOMAIN files
      /\ \A p \in Range(paths) \cap DOMAIN files : files[p] = TestCase(p)
  BY <1>1, FilesAssumption
<1>4. CASE pc' = "over"
  <2>1. exitCode' = 1
    BY <1>1, <1>4 DEF CreateOutputDirectory, Goto, Exit
  <2> QED
    BY <1>1, <1>4, <2>1 DEF SynthesisInv, ScriptsByName
<1>5. CASE pc' = "take"
  <2>1. Len(paths) > 1 => synOpts.out # <<>>
    BY <1>3, <1>5 DEF CreateOutputDirectory, IsDirectory, Exit
  <2>2. \A p : p # synOpts.out => (p \in DOMAIN files' <=> p \in DOMAIN files) /\ (p \in DOMAIN files => files'[p] = files[p])
    BY <1>5 DEF CreateOutputDirectory, With, Exit
  <2>3. Out' = 0
    BY <1>1, <1>5 DEF Out
  <2>4. Originals'
    BY <1>1, <1>2, <1>3, <2>2 DEF Originals
  <2>5. Written'
    BY <2>3 DEF Written
  <2>6. taken' \in 0 .. Len(paths) /\ synOpts' = synOpts /\ shown' = <<>> /\ pc' # "emit"
    BY <1>1, <1>2, <1>5
  <2>7. synOpts'.out = <<>> => Len(synOpts'.paths) = 1
    <3>1. Len(paths) > 1 \/ Len(paths) = 1
      <4>1. \A n \in Nat \ {0} : n > 1 \/ n = 1
        OBVIOUS
      <4> QED
        BY <1>2, <4>1
    <3> QED
      BY <2>1, <2>6, <3>1
  <2>8. Working'
    BY <2>3, <2>4, <2>5, <2>6, <2>7 DEF Working
  <2> QED
    BY <1>1, <1>5, <2>8 DEF SynthesisInv, ScriptsByName
<1> QED
  BY <1>4, <1>5 DEF CreateOutputDirectory, Goto, Exit

(* A test case is read, unless an output has replaced it. *)
LEMMA TestCaseTaken ==
  ASSUME SynthesisInv, TakeTestCase
  PROVE  SynthesisInv'
<1>1. /\ command = "synthesis" /\ pc = "take" /\ command' = command /\ taken' = taken + 1
      /\ UNCHANGED <<synOpts, files, shown>> /\ taken < Len(synOpts.paths)
      /\ Working /\ synOpts \in SynthesisOptions
  BY DEF TakeTestCase, SynthesisInv, Goto, Exit
<1> DEFINE paths == synOpts.paths
           p == paths[taken']
<1>2. /\ Len(paths) \in Nat \ {0} /\ DOMAIN paths = 1 .. Len(paths)
  BY <1>1, PathFacts
<1>3. taken \in Nat /\ taken' \in DOMAIN paths /\ Out = taken
  BY <1>1, <1>2 DEF Working, Out
<1>4. CASE pc' = "over"
  <2>1. exitCode' # 0
    <3>1. Exit(134) \/ Exit(1)
      BY <1>4, Zenon DEF TakeTestCase, Goto
    <3> QED
      BY <3>1 DEF Exit
  <2> QED
    BY <1>1, <1>4, <2>1 DEF SynthesisInv, ScriptsByName
<1>5. CASE pc' = "emit"
  <2>1. Out' = taken /\ taken' - 1 = taken
    BY <1>1, <1>3, <1>5 DEF Out
  <2>2. p \in DOMAIN files
    BY <1>1, <1>5 DEF TakeTestCase, Exit
  <2>3. ASSUME p \notin Outputs(1 .. taken) \cup {synOpts.out} PROVE program' = <<p>>
    <3>1. files[p] = TestCase(p)
      BY <1>1, <1>3, <2>2, <2>3 DEF Working, Originals
    <3>2. files[p].is = "test case" /\ files[p].of = <<p>>
      <4>1. \A q : TestCase(q).is = "test case" /\ TestCase(q).of = <<q>>
        BY DEF TestCase
      <4> QED
        BY <3>1, <4>1
    <3> QED
      BY <1>1, <1>5, <3>2 DEF TakeTestCase, Exit
  <2>4. Originals'
    BY <1>1, <1>2, <1>3, <2>1, <2>2, SamePaths DEF Working, Originals
  <2>5. synOpts.out # <<>> => Written'
    BY <1>1, <1>3, <2>1, SamePaths DEF Working, Written
  <2>6. Working'
    BY <1>1, <1>2, <1>3, <2>1, <2>3, <2>4, <2>5, SamePaths DEF Working
  <2> QED
    BY <1>1, <1>5, <2>6 DEF SynthesisInv, ScriptsByName
<1> QED
  BY <1>4, <1>5 DEF TakeTestCase, Goto, Exit

(* Without -o the one script is printed. *)
LEMMA CodeShown ==
  ASSUME SynthesisInv, ShowCode
  PROVE  SynthesisInv'
<1>1. /\ command = "synthesis" /\ pc = "emit" /\ command' = command /\ pc' = "take" /\ synOpts.out = <<>>
      /\ UNCHANGED <<synOpts, taken, program, files>> /\ shown' = Append(shown, program)
      /\ Working /\ synOpts \in SynthesisOptions
  BY DEF ShowCode, SynthesisInv, Goto
<1> DEFINE paths == synOpts.paths
<1>2. /\ Len(paths) = 1 /\ DOMAIN paths = 1 .. 1 /\ taken = 1 /\ paths[1] # <<>>
  BY <1>1, PathFacts DEF Working
<1>3. Out = 0 /\ Out' = 1 /\ shown = <<>>
  BY <1>1, <1>2 DEF Out, Working
<1>4. Outputs(1 .. 0) = {}
  BY DEF Outputs
<1>5. program = <<paths[1]>>
  BY <1>1, <1>2, <1>4 DEF Working
<1>6. shown' = <<<<paths[1]>>>>
  BY <1>1, <1>3, <1>5
<1>7. OutputPath(1) = <<>>
  BY <1>1, <1>2 DEF OutputPath
<1>8. Outputs(1 .. 1) = {<<>>}
  BY <1>7 DEF Outputs
<1>9. Originals'
  BY <1>1, <1>2, <1>3, <1>4, <1>8, SamePaths DEF Working, Originals
<1>10. Working'
  BY <1>1, <1>2, <1>3, <1>6, <1>9 DEF Working
<1> QED
  BY <1>1, <1>10 DEF SynthesisInv, ScriptsByName

(* A script is written, perhaps over an earlier one or over a test case. *)
LEMMA TextWritten ==
  ASSUME SynthesisInv, WriteTextToFile
  PROVE  SynthesisInv'
<1>1. /\ command = "synthesis" /\ pc = "emit" /\ command' = command /\ synOpts.out # <<>>
      /\ UNCHANGED <<synOpts, taken, program, shown>>
      /\ Working /\ synOpts \in SynthesisOptions
  BY DEF WriteTextToFile, SynthesisInv, Goto, Exit
<1> DEFINE paths == synOpts.paths
           new == OutputPath(taken)
<1>2. /\ Len(paths) \in Nat \ {0} /\ DOMAIN paths = 1 .. Len(paths)
  BY <1>1, PathFacts
<1>3. CASE pc' = "over"
  <2>1. exitCode' # 0
    BY <1>1, <1>3 DEF WriteTextToFile, Goto, Exit
  <2> QED
    BY <1>1, <1>3, <2>1 DEF SynthesisInv, ScriptsByName
<1>4. CASE pc' = "take"
  <2>1. taken \in 1 .. Len(paths) /\ Out = taken - 1 /\ Out' = taken
    BY <1>1, <1>2, <1>4 DEF Working, Out
  <2>2. PICK text \in {program, <<>>} : files' = With(new, Script(text))
    BY <1>4 DEF WriteTextToFile, Exit
  <2>3. /\ DOMAIN files' = DOMAIN files \cup {new}
        /\ files'[new] = Script(text)
        /\ \A q \in DOMAIN files : q # new => files'[q] = files[q]
    BY <2>2 DEF With
  <2> HIDE DEF new
  <2>4. Outputs(1 .. taken) = Outputs(1 .. taken - 1) \cup {new}
    BY <2>1 DEF Outputs, new
  <2>5. Originals'
    BY <1>1, <1>2, <2>1, <2>3, <2>4, SamePaths DEF Working, Originals
  <2>6. ASSUME NEW k \in 1 .. taken, OutputPath(k) \notin Outputs(k + 1 .. taken),
               paths[k] \notin Outputs(1 .. k - 1) \cup {synOpts.out}
        PROVE  OutputPath(k) \in DOMAIN files' /\ files'[OutputPath(k)] \in {Script(<<paths[k]>>), Script(<<>>)}
    <3>1. CASE k = taken
      <4>1. program = <<paths[k]>>
        BY <1>1, <2>6, <3>1 DEF Working
      <4> QED
        BY <2>2, <2>3, <3>1, <4>1 DEF new
    <3>2. CASE k # taken
      <4>1. k \in 1 .. Out /\ Out = taken - 1
        BY <2>1, <3>2
      <4>2. Outputs(k + 1 .. taken) = Outputs(k + 1 .. Out) \cup {new}
        BY <2>1, <4>1 DEF Outputs, new
      <4>3. OutputPath(k) \in DOMAIN files /\ files[OutputPath(k)] \in {Script(<<paths[k]>>), Script(<<>>)}
        BY <1>1, <2>6, <4>1, <4>2 DEF Working, Written
      <4> QED
        BY <2>3, <2>6, <4>2, <4>3
    <3> QED
      BY <3>1, <3>2
  <2>7. Written'
    BY <1>1, <2>1, <2>6, SamePaths DEF Written
  <2>8. Working'
    BY <1>1, <1>2, <1>4, <2>1, <2>5, <2>7 DEF Working
  <2> QED
    BY <1>1, <1>4, <2>8 DEF SynthesisInv, ScriptsByName
<1> QED
  BY <1>3, <1>4 DEF WriteTextToFile, Goto, Exit

(* Every test case has been taken up and put out. *)
LEMMA SynthesisEnds ==
  ASSUME SynthesisInv, AllSynthesised
  PROVE  SynthesisInv'
<1>1. /\ command = "synthesis" /\ pc = "take" /\ command' = command /\ pc' = "over"
      /\ UNCHANGED <<synOpts, taken, program, shown, files>> /\ taken = Len(synOpts.paths)
      /\ Working /\ synOpts \in SynthesisOptions
  BY DEF AllSynthesised, SynthesisInv, Exit, synthesisVars
<1> DEFINE paths == synOpts.paths
<1>2. /\ Len(paths) \in Nat \ {0} /\ DOMAIN paths = 1 .. Len(paths) /\ Out = Len(paths)
  BY <1>1, PathFacts DEF Out
<1>3. CASE synOpts.out = <<>>
  <2>1. Len(paths) = 1 /\ shown = <<<<paths[1]>>>>
    BY <1>1, <1>2, <1>3 DEF Working
  <2>2. ScriptsByName'
    BY <1>1, <1>3, <2>1 DEF ScriptsByName
  <2> QED
    BY <1>1, <2>2 DEF SynthesisInv
<1>4. CASE synOpts.out # <<>>
  <2>1. Written /\ Originals
    BY <1>1, <1>4 DEF Working
  <2>2. \A k \in DOMAIN paths :
               /\ OutputPath(k) \notin {OutputPath(m) : m \in k + 1 .. Len(paths)}
                  /\ paths[k] \notin {OutputPath(m) : m \in 1 .. k - 1} \cup {synOpts.out}
                  => files[OutputPath(k)] \in {Script(<<paths[k]>>), Script(<<>>)}
               /\ paths[k] \notin {OutputPath(m) : m \in DOMAIN paths} \cup {synOpts.out}
                  => files[paths[k]] = TestCase(paths[k])
    BY <1>1, <1>2, <2>1 DEF Written, Originals, Outputs
  <2>3. \A k : OutputPath(k)' = OutputPath(k)
    BY <1>1, SamePaths
  <2>4. ScriptsByName'
    BY <1>1, <1>4, <2>2, <2>3 DEF ScriptsByName
  <2> QED
    BY <1>1, <2>4 DEF SynthesisInv
<1> QED
  BY <1>3, <1>4

(* Every step keeps the invariant. *)
LEMMA SynthesisStep ==
  ASSUME SynthesisInv, MainFirst, [Next]_vars
  PROVE  SynthesisInv'
<1>1. ASSUME UNCHANGED synthesisVars, command # "synthesis", command' # "synthesis" PROVE SynthesisInv'
  BY <1>1 DEF SynthesisInv, ScriptsByName, synthesisVars
<1>2. CASE Main
  <2>1. UNCHANGED synthesisVars /\ pc' = "start" /\ command # "synthesis"
    BY <1>2 DEF Main, Choose, MainFirst
  <2> QED
    BY <2>1 DEF SynthesisInv, ScriptsByName, synthesisVars
<1>3. CASE UNCHANGED <<processVars, synthesisVars>>
  <2>1. UNCHANGED <<command, pc, exitCode, synOpts, taken, program, files, shown>>
    BY <1>3 DEF processVars, synthesisVars
  <2>2. /\ \A k : OutputPath(k)' = OutputPath(k)
        /\ \A ks : Outputs(ks)' = Outputs(ks)
    BY <2>1, SamePaths
  <2>3. Out' = Out
    BY <2>1 DEF Out
  <2>4. Working => Working'
    BY <2>1, <2>2, <2>3 DEF Working, Written, Originals
  <2>5. ScriptsByName'
    BY <2>1, <2>2 DEF SynthesisInv, ScriptsByName
  <2> QED
    BY <2>1, <2>4, <2>5 DEF SynthesisInv
<1>4. CASE Fuzz
  <2>1. UNCHANGED synthesisVars /\ (UNCHANGED processVars \/ (command = "fuzz" /\ command' = command))
    BY <1>4 DEF Fuzz, FuzzNext, FuzzExecute, Start, Locate, Launch, Launched, WaitForChild,
                Finished, LaunchFails, WaitpidFailed, InstanceEnds, Goto, Exit
  <2> QED
    BY <2>1, <1>1, <1>3
<1>5. CASE Calibrate
  <2>1. UNCHANGED synthesisVars /\ (UNCHANGED processVars \/ (command = "calibrate" /\ command' = command))
    BY <1>5 DEF Calibrate, CalibrateNext, CalibrateExecute, BeginCalibration, TakeFile, Synthesise,
                TruncateScript, WriteScript, ExecuteProgram, Count, Overview, WaitpidFails,
                ProgramEnds, Goto, Exit
  <2> QED
    BY <2>1, <1>1, <1>3
<1>6. CASE Gen
  BY <1>6, <1>1 DEF Gen, GenNext, LoadStore, ChangeWorkingDirectory, Generate, WriteSeed, Done,
                    Goto, Exit
<1>7. CASE StartSynthesis
  BY <1>7 DEF StartSynthesis, SynthesisInv, ScriptsByName, Goto, Exit
<1>8. CASE UNCHANGED vars
  BY <1>8, <1>3 DEF vars
<1> QED
  BY <1>2, <1>4, <1>5, <1>6, <1>7, <1>8, DirectoryMade, TestCaseTaken, CodeShown, TextWritten,
     SynthesisEnds DEF Next, Synthesis, SynthesisNext

(* Whatever the test cases, their names and the directory have in common: a command
   that succeeds leaves each script under the name it should have, unless a later
   one has the same, and loses no test case that is not an output
   (src/src/CLI/SynthesisCommand.cpp). *)
THEOREM ScriptsAlwaysByName == Spec => []ScriptsByName
<1>1. Init => SynthesisInv /\ MainFirst
  BY DEF Init, CommandLineInit, SynthesisInit, SynthesisInv, ScriptsByName, MainFirst
<1>2. SynthesisInv => ScriptsByName
  BY DEF SynthesisInv
<1> QED
  BY <1>1, <1>2, SynthesisStep, MainFirstStep, PTL DEF Spec

-----------------------------------------------------------------------------
(* fuzz. *)
(* The two roles of an instance. *)
Roles == {MasterFlag, SecondaryFlag}

(* The arguments of the user's give no instance a role. *)
NoRolesGiven ==
  \A o \in FuzzOptions :
    (Range(o.aflArgs) \cup Range(o.target) \cup {o.sanitized}) \cap Roles = {}

(* What the vector of arguments is made of, but for the slots of an instance's role. *)
Words(o) ==
  {"afl-fuzz", "-o", "findings", "-i", "-", "seeds", Empty, Sanitized(o)}
  \cup Range(o.aflArgs) \cup Range(o.target)

(* The places of role and name, and the length of the vector. *)
Slots(o) == IF o.n > 1 THEN {6, 7} ELSE {}
Size(o) == execArg(o) + Len(o.target) - 1
Vectors(o) == [1 .. Size(o) -> Words(o) \cup Roles \cup Range(FuzzerNames)]

(* A vector in which all but the slots is as the command line wants it. *)
Filled(o, args, target) ==
  /\ args \in Vectors(o)
  /\ args[execArg(o)] = target
  /\ \A j \in (1 .. Size(o)) \ Slots(o) : args[j] \in Words(o)

(* What the options are. *)
LEMMA OptionFacts ==
  ASSUME NEW o \in FuzzOptions
  PROVE  /\ o.n \in 1 .. MaxInstances /\ MaxInstances \in Nat /\ o.dry \in BOOLEAN
         /\ o.target \in Seq(STRING) /\ Len(o.target) \in Nat \ {0} /\ DOMAIN o.target = 1 .. Len(o.target)
         /\ o.target[1] \in Range(o.target)
         /\ o.aflArgs \in Seq(STRING) /\ Len(o.aflArgs) \in Nat
<1>1. /\ o.n \in 1 .. MaxInstances /\ MaxInstances \in Nat /\ o.dry \in BOOLEAN
      /\ o.target \in Seq(STRING) /\ o.target # <<>> /\ o.aflArgs \in Seq(STRING)
  BY OptionsAssumption, NamesAssumption
<1>2. PICK t \in Seq(STRING) : t = o.target
  BY <1>1
<1>3. Len(t) \in Nat \ {0} /\ DOMAIN t = 1 .. Len(t)
  BY <1>1, <1>2
<1>4. t[1] \in Range(t)
  BY <1>3 DEF Range
<1> QED
  BY <1>1, <1>2, <1>3, <1>4

(* The places of the target and of the role lie in the vector, apart from each other. *)
LEMMA SizeFacts ==
  ASSUME NEW o \in FuzzOptions
  PROVE  /\ Size(o) \in Nat /\ execArg(o) \in 1 .. Size(o) /\ execArg(o) \notin Slots(o)
         /\ Slots(o) \subseteq 1 .. Size(o)
         /\ Size(o) - Len(o.target) + 1 = execArg(o)
<1>1. /\ o.n \in 1 .. MaxInstances /\ MaxInstances \in Nat
      /\ Len(o.target) \in Nat \ {0} /\ Len(o.aflArgs) \in Nat
  BY OptionFacts
<1>2. Len(ParallelSlots(o)) = IF o.n > 1 THEN 2 ELSE 0
  BY DEF ParallelSlots
<1>3. PICK t \in Nat \ {0} : t = Len(o.target)
  BY <1>1
<1>4. PICK a \in Nat : a = Len(o.aflArgs)
  BY <1>1
<1>5. PICK p \in {0, 2} : p = (IF o.n > 1 THEN 2 ELSE 0) /\ p = Len(ParallelSlots(o))
  BY <1>2
<1>6. execArg(o) = 5 + p + a + 1
  BY <1>4, <1>5 DEF execArg
<1>7. Size(o) = (5 + p + a + 1) + t - 1
  BY <1>3, <1>6 DEF Size
<1>8. PICK e, z : e = execArg(o) /\ z = Size(o)
  OBVIOUS
<1>9. e = 5 + p + a + 1 /\ z = (5 + p + a + 1) + t - 1
  BY <1>6, <1>7, <1>8
<1>11. /\ z \in Nat /\ e \in 1 .. z /\ z - t + 1 = e
       /\ p = 2 => e \notin {6, 7} /\ {6, 7} \subseteq 1 .. z
  BY ONLY p \in {0, 2}, a \in Nat, t \in Nat \ {0}, <1>9
<1>10. Slots(o) = IF p = 2 THEN {6, 7} ELSE {}
  BY <1>5 DEF Slots
<1> QED
  BY <1>3, <1>8, <1>10, <1>11

(* One argument after those in front of it, and the rest. *)
LEMMA Between ==
  ASSUME NEW S, NEW a \in Seq(S), NEW x \in S, NEW b \in Seq(S)
  PROVE  /\ (a \o <<x>>) \o b \in Seq(S)
         /\ Len((a \o <<x>>) \o b) = Len(a) + 1 + Len(b)
         /\ ((a \o <<x>>) \o b)[Len(a) + 1] = x
<1>1. <<x>> \in Seq(S) /\ Len(<<x>>) = 1 /\ <<x>>[1] = x
  OBVIOUS
<1>2. PICK one \in Seq(S) : one = <<x>> /\ Len(one) = 1 /\ one[1] = x
  BY <1>1
<1>3. PICK c \in Seq(S) : c = a \o one /\ Len(c) = Len(a) + Len(one) /\ c[Len(a) + 1] = x
  <2>1. a \o one \in Seq(S) /\ Len(a \o one) = Len(a) + Len(one) /\ (a \o one)[Len(a) + 1] = one[1]
    BY <1>2
  <2> QED
    BY <1>2, <2>1
<1>4. c \o b \in Seq(S) /\ Len(c \o b) = Len(c) + Len(b) /\ \A i \in 1 .. Len(c) : (c \o b)[i] = c[i]
  OBVIOUS
<1>5. Len(a) \in Nat /\ Len(a) + 1 \in 1 .. Len(c)
  BY <1>2, <1>3
<1> QED
  BY <1>2, <1>3, <1>4, <1>5

(* The vector as it is built. *)
LEMMA FirstArguments ==
  ASSUME NEW o \in FuzzOptions
  PROVE  Filled(o, InitialArgs(o), Sanitized(o))
<1>1. PICK W : W = Words(o)
  OBVIOUS
<1>2. /\ o.n \in 1 .. MaxInstances /\ MaxInstances \in Nat
      /\ o.target \in Seq(STRING) /\ Len(o.target) \in Nat \ {0} /\ DOMAIN o.target = 1 .. Len(o.target)
      /\ o.aflArgs \in Seq(STRING) /\ Len(o.aflArgs) \in Nat
  BY OptionFacts
<1>3. o.aflArgs \in Seq(W)
  <2>1. \A i \in DOMAIN o.aflArgs : o.aflArgs[i] \in W
    BY <1>1 DEF Words, Range
  <2> QED
    BY <1>2, <2>1
<1>4. Tail(o.target) \in Seq(W) /\ Len(Tail(o.target)) = Len(o.target) - 1
  <2>1. PICK t \in Seq(STRING) : t = o.target
    BY <1>2
  <2>2. \A i \in DOMAIN t : t[i] \in W
    BY <1>1, <2>1 DEF Words, Range
  <2>3. t \in Seq(W) /\ t # <<>>
    BY <1>2, <2>1, <2>2
  <2> QED
    BY <2>1, <2>3
<1>5. FixedArgs(o) \in Seq(W) /\ Len(FixedArgs(o)) = 5
  <2>1. /\ "afl-fuzz" \in W /\ "-o" \in W /\ "findings" \in W /\ "-i" \in W /\ "-" \in W /\ "seeds" \in W
    BY <1>1 DEF Words
  <2> QED
    BY <2>1 DEF FixedArgs
<1>6. ParallelSlots(o) \in Seq(W)
  <2>1. PICK x \in W : x = Empty
    BY <1>1 DEF Words
  <2>2. <<x, x>> \in Seq(W) /\ <<>> \in Seq(W)
    OBVIOUS
  <2> QED
    BY <2>1, <2>2 DEF ParallelSlots
<1>7. Sanitized(o) \in W
  BY <1>1 DEF Words
<1>8. PICK f \in Seq(W) : f = FixedArgs(o) /\ Len(f) = 5
  BY <1>5
<1>9. PICK s \in Seq(W) : s = ParallelSlots(o)
  BY <1>6
<1>10. PICK a \in Seq(W) : a = o.aflArgs
  BY <1>3
<1>11. PICK b \in Seq(W) : b = Tail(o.target) /\ Len(b) = Len(o.target) - 1
  BY <1>4
<1>12. f \o s \in Seq(W) /\ Len(f \o s) = Len(f) + Len(s)
  BY ONLY f \in Seq(W), s \in Seq(W)
<1>13. PICK fs \in Seq(W) : fs = f \o s /\ Len(fs) = Len(f) + Len(s)
  BY <1>12
<1>14. fs \o a \in Seq(W) /\ Len(fs \o a) = Len(fs) + Len(a)
  BY ONLY fs \in Seq(W), a \in Seq(W)
<1>15. PICK h \in Seq(W) : h = fs \o a /\ Len(h) = Len(fs) + Len(a)
  BY <1>14
<1>16. PICK x \in W : x = Sanitized(o)
  BY <1>7
<1>17. InitialArgs(o) = (h \o <<x>>) \o b
  BY <1>8, <1>9, <1>10, <1>11, <1>13, <1>15, <1>16 DEF InitialArgs
<1>18. PICK v \in Seq(W) : v = InitialArgs(o) /\ Len(v) = Len(h) + 1 + Len(b) /\ v[Len(h) + 1] = x
  <2>1. /\ (h \o <<x>>) \o b \in Seq(W)
        /\ Len((h \o <<x>>) \o b) = Len(h) + 1 + Len(b)
        /\ ((h \o <<x>>) \o b)[Len(h) + 1] = x
    BY ONLY h \in Seq(W), x \in W, b \in Seq(W), Between
  <2> QED
    BY ONLY <1>17, <2>1
<1>19. Len(h) + 1 = execArg(o)
  BY <1>8, <1>9, <1>10, <1>13, <1>15 DEF execArg
<1>20. Len(v) = Size(o)
  BY <1>11, <1>18, <1>19 DEF Size
<1>21. v \in [1 .. Size(o) -> W]
  BY <1>20
<1> QED
  BY <1>1, <1>16, <1>18, <1>19, <1>21 DEF Filled, Vectors

(* Processes with such vectors. *)
Crew(o) == [argv : Vectors(o), alive : BOOLEAN]

(* Instance k has the role of the k-th. *)
InRole(k) ==
  /\ k <= opts.n
  /\ Filled(opts, children[k].argv, IF k = 1 THEN Sanitized(opts) ELSE opts.target[1])
  /\ opts.n > 1 => /\ children[k].argv[6] = IF k = 1 THEN MasterFlag ELSE SecondaryFlag
                   /\ children[k].argv[7] = FuzzerName(k - 1)

(* While instances are launched and waited for. *)
AtWork == command = "fuzz" /\ pc \in {"launch", "wait"}

(* The inductive invariant of fuzz. *)
FuzzInv ==
  /\ ok \in BOOLEAN
  /\ command # "fuzz" \/ pc \in {"main", "start", "lookup"} => next = 0 /\ children = <<>> /\ ok = TRUE
  /\ (command = "fuzz" /\ pc = "lookup") \/ AtWork \/ children # <<>> => opts \in FuzzOptions
  /\ AtWork \/ children # <<>> => (opts.afl = "" => afl \in installed)
  /\ children \in Seq(Crew(opts)) /\ \A k \in DOMAIN children : InRole(k)
  /\ command = "fuzz" /\ pc = "launch" =>
       /\ next \in 0 .. opts.n /\ ok = TRUE
       /\ Filled(opts, aflArgs, IF next = 0 THEN Sanitized(opts) ELSE opts.target[1])
       /\ Len(children) = IF opts.dry THEN 0 ELSE next
  /\ command = "fuzz" /\ pc = "wait" =>
       /\ ~opts.dry /\ Len(children) = opts.n /\ next \in 0 .. opts.n
       /\ ok = TRUE => \A k \in 1 .. next : ~children[k].alive
  /\ command = "fuzz" /\ pc = "over" /\ exitCode = 0 /\ ~opts.dry =>
       /\ Len(children) = opts.n
       /\ \A k \in DOMAIN children : ~children[k].alive

(* The vector an instance is launched with, and the one left for the next. *)
LEMMA SlotsOfOne ==
  ASSUME NEW o \in FuzzOptions, o = opts, NEW i \in 0 .. o.n - 1, NEW t, Filled(o, aflArgs, t)
  PROVE  /\ Filled(o, SlotsFilled(i), t)
         /\ o.n > 1 => /\ SlotsFilled(i)[6] = IF i = 0 THEN MasterFlag ELSE SecondaryFlag
                       /\ SlotsFilled(i)[7] = FuzzerName(i)
<1>1. CASE o.n = 1
  BY <1>1 DEF SlotsFilled
<1>2. CASE o.n # 1
  <2>1. o.n \in 1 .. MaxInstances /\ MaxInstances \in Nat /\ o.n > 1
    BY <1>2, OptionFacts
  <2>2. /\ execArg(o) \in 1 .. Size(o) /\ execArg(o) \notin {6, 7} /\ {6, 7} \subseteq 1 .. Size(o)
        /\ Slots(o) = {6, 7}
    BY <2>1, SizeFacts DEF Slots
  <2>3. PICK role \in Roles : role = IF i = 0 THEN MasterFlag ELSE SecondaryFlag
    BY DEF Roles
  <2>4. PICK name \in Range(FuzzerNames) : name = FuzzerName(i)
    <3>1. FuzzerNames \in Seq(STRING \ Roles) /\ Len(FuzzerNames) >= MaxInstances
      BY NamesAssumption DEF Roles
    <3>2. i + 1 \in DOMAIN FuzzerNames
      BY <2>1, <3>1
    <3> QED
      BY <3>2 DEF FuzzerName, Range
  <2>5. SlotsFilled(i) = [aflArgs EXCEPT ![6] = role, ![7] = name]
    BY <1>2, <2>3, <2>4 DEF SlotsFilled, parallelArg
  <2>6. PICK X : X = Words(o) \cup Roles \cup Range(FuzzerNames)
    OBVIOUS
  <2>7. PICK args \in [1 .. Size(o) -> X] : args = aflArgs
    BY <2>6 DEF Filled, Vectors
  <2>8. role \in X /\ name \in X
    BY <2>6
  <2>9. PICK new : new = [args EXCEPT ![6] = role, ![7] = name]
    OBVIOUS
  <2>10. /\ new \in [1 .. Size(o) -> X] /\ new[6] = role /\ new[7] = name
         /\ \A j \in (1 .. Size(o)) \ {6, 7} : new[j] = args[j]
    BY <2>2, <2>7, <2>8, <2>9
  <2>11. new = SlotsFilled(i)
    BY <2>5, <2>7, <2>9
  <2> QED
    BY <2>2, <2>3, <2>4, <2>6, <2>7, <2>10, <2>11 DEF Filled, Vectors
<1> QED
  BY <1>1, <1>2

(* After the first launch the vector names the plain target. *)
LEMMA TargetExchanged ==
  ASSUME NEW o \in FuzzOptions, o = opts, NEW i \in Nat, NEW args,
         Filled(o, args, IF i = 0 THEN Sanitized(o) ELSE o.target[1])
  PROVE  Filled(o, NextTarget(args, i), o.target[1])
<1>1. CASE i # 0
  BY <1>1 DEF NextTarget
<1>2. CASE i = 0
  <2>1. execArg(o) \in 1 .. Size(o)
    BY SizeFacts
  <2>2. PICK t \in Words(o) : t = o.target[1]
    BY OptionFacts DEF Words
  <2>3. PICK n : n = execArg(o)
    OBVIOUS
  <2>4. PICK X : X = Words(o) \cup Roles \cup Range(FuzzerNames)
    OBVIOUS
  <2>5. args \in [1 .. Size(o) -> X]
    BY <2>4 DEF Filled, Vectors
  <2>6. PICK new : new = [args EXCEPT ![n] = t]
    OBVIOUS
  <2>7. new \in [1 .. Size(o) -> X] /\ new[n] = t /\ \A j \in (1 .. Size(o)) \ {n} : new[j] = args[j]
    BY <2>1, <2>2, <2>3, <2>4, <2>5, <2>6
  <2>8. new = NextTarget(args, i)
    BY <1>2, <2>2, <2>3, <2>6 DEF NextTarget
  <2> QED
    BY <2>2, <2>3, <2>4, <2>7, <2>8 DEF Filled, Vectors
<1> QED
  BY <1>1, <1>2

(* The instances so far. *)
LEMMA ChildrenListed ==
  ASSUME FuzzInv
  PROVE  /\ children \in Seq(Crew(opts)) /\ Len(children) \in Nat /\ DOMAIN children = 1 .. Len(children)
         /\ \A k \in DOMAIN children : InRole(k)
<1>1. children \in Seq(Crew(opts)) /\ \A k \in DOMAIN children : InRole(k)
  BY DEF FuzzInv
<1>2. Len(children) \in Nat /\ DOMAIN children = 1 .. Len(children)
  BY ONLY <1>1
<1> QED
  BY <1>1, <1>2

(* One more instance, in the role that is next. *)
LEMMA OneLaunched ==
  ASSUME FuzzInv, Launch
  PROVE  FuzzInv'
<1>1. /\ command = "fuzz" /\ pc = "launch" /\ command' = command /\ pc' = pc /\ exitCode' = exitCode
      /\ next < opts.n /\ next' = next + 1 /\ UNCHANGED <<opts, installed, path, afl, ok>>
      /\ aflArgs' = NextTarget(SlotsFilled(next), next)
      /\ children' = IF opts.dry THEN children
                     ELSE Append(children, [argv |-> SlotsFilled(next), alive |-> TRUE])
  BY DEF Launch, Goto, rigid
<1>2. /\ opts \in FuzzOptions /\ (opts.afl = "" => afl \in installed)
      /\ next \in 0 .. opts.n /\ ok = TRUE
      /\ Filled(opts, aflArgs, IF next = 0 THEN Sanitized(opts) ELSE opts.target[1])
      /\ Len(children) = IF opts.dry THEN 0 ELSE next
      /\ children \in Seq(Crew(opts)) /\ \A k \in DOMAIN children : InRole(k)
  BY <1>1 DEF FuzzInv, AtWork
<1>3. opts.n \in Nat /\ opts.dry \in BOOLEAN /\ next \in 0 .. opts.n - 1 /\ next' \in 0 .. opts.n /\ next' # 0
  <2>1. opts.n \in 1 .. MaxInstances /\ MaxInstances \in Nat /\ opts.dry \in BOOLEAN
    BY <1>2, OptionFacts
  <2> QED
    <3>1. PICK n \in Nat : n = opts.n
      BY <2>1
    <3>2. next < n /\ next' = next + 1 /\ next \in 0 .. n
      BY <1>1, <1>2, <3>1
    <3>3. next \in 0 .. n - 1 /\ next' \in 0 .. n /\ next' # 0
      BY ONLY <3>2, n \in Nat
    <3> QED
      BY <2>1, <3>1, <3>3
<1>4. PICK v : v = SlotsFilled(next)
  OBVIOUS
<1>5. /\ Filled(opts, v, IF next = 0 THEN Sanitized(opts) ELSE opts.target[1])
      /\ opts.n > 1 => /\ v[6] = IF next = 0 THEN MasterFlag ELSE SecondaryFlag
                       /\ v[7] = FuzzerName(next)
  BY <1>2, <1>3, <1>4, SlotsOfOne
<1>6. Filled(opts, aflArgs', opts.target[1])
  <2>1. PICK o \in FuzzOptions : o = opts
    BY <1>2
  <2>2. next \in Nat /\ Filled(o, v, IF next = 0 THEN Sanitized(o) ELSE o.target[1])
    BY <1>3, <1>5, <2>1
  <2>3. Filled(o, NextTarget(v, next), o.target[1])
    BY <2>1, <2>2, TargetExchanged
  <2> QED
    BY <1>1, <1>4, <2>1, <2>3
<1>7. CASE opts.dry
  <2>1. children' = children
    BY <1>1, <1>7
  <2>2. \A k \in DOMAIN children : InRole(k)'
    BY <1>1, <1>2, <2>1 DEF InRole
  <2> QED
    BY <1>1, <1>2, <1>3, <1>6, <1>7, <2>1, <2>2 DEF FuzzInv, AtWork
<1>8. CASE ~opts.dry
  <2>1. PICK c : c = [argv |-> v, alive |-> TRUE]
    OBVIOUS
  <2>2. c \in Crew(opts) /\ c.argv = v /\ c.alive = TRUE
    BY <1>5, <2>1 DEF Crew, Filled
  <2>3. PICK old \in Seq(Crew(opts)) : old = children
    BY <1>2
  <2>4. children' = Append(old, c)
    BY <1>1, <1>4, <1>8, <2>1, <2>3
  <2>5. /\ Append(old, c) \in Seq(Crew(opts)) /\ Len(Append(old, c)) = Len(old) + 1
        /\ Append(old, c)[Len(old) + 1] = c /\ DOMAIN old = 1 .. Len(old)
        /\ \A k \in 1 .. Len(old) : Append(old, c)[k] = old[k]
        /\ DOMAIN Append(old, c) = 1 .. Len(old) + 1
    BY ONLY <2>2, old \in Seq(Crew(opts))
  <2>6. Len(old) = next
    BY <1>2, <1>8, <2>3
  <2>7. /\ children' \in Seq(Crew(opts)) /\ Len(children') = next + 1
        /\ children'[next + 1] = c /\ DOMAIN children = 1 .. next
        /\ \A k \in 1 .. next : children'[k] = children[k]
        /\ DOMAIN children' = 1 .. next + 1
    BY <2>3, <2>4, <2>5, <2>6
  <2>8. ASSUME NEW k \in 1 .. next + 1 PROVE InRole(k)'
    <3>1. CASE k = next + 1
      <4>1. k \in Nat /\ k - 1 = next /\ (k = 1 <=> next = 0) /\ k <= opts.n
        BY <1>3, <3>1
      <4> QED
        BY <1>1, <1>5, <2>2, <2>7, <3>1, <4>1 DEF InRole
    <3>2. CASE k # next + 1
      <4>1. k \in 1 .. next
        BY <1>3, <3>2
      <4> QED
        BY <1>1, <1>2, <2>7, <4>1 DEF InRole
    <3> QED
      BY <3>1, <3>2
  <2> QED
    BY <1>1, <1>2, <1>3, <1>6, <1>8, <2>7, <2>8 DEF FuzzInv, AtWork
<1> QED
  BY <1>3, <1>7, <1>8

(* An instance ends and keeps its arguments. *)
LEMMA OneEnds ==
  ASSUME FuzzInv, NEW k \in DOMAIN children, InstanceEnds(k)
  PROVE  FuzzInv'
<1>1. /\ children' = [children EXCEPT ![k].alive = FALSE]
      /\ UNCHANGED <<command, pc, exitCode, opts, installed, path, afl, aflArgs, next, ok>>
  BY DEF InstanceEnds, processVars, rigid
<1>2. PICK old \in Seq(Crew(opts)) : old = children
  BY DEF FuzzInv
<1>3. Len(old) \in Nat /\ DOMAIN old = 1 .. Len(old) /\ k \in 1 .. Len(old)
  BY <1>2
<1>4. PICK c \in Crew(opts) : c = old[k]
  BY <1>3
<1>5. PICK ended : ended = [c EXCEPT !.alive = FALSE]
  OBVIOUS
<1>6. ended \in Crew(opts) /\ ended.argv = c.argv /\ ended.alive = FALSE
  BY <1>5 DEF Crew
<1>7. PICK new : new = [old EXCEPT ![k] = ended]
  OBVIOUS
<1>8. children' = new
  BY <1>1, <1>2, <1>4, <1>5, <1>7
<1>9. /\ new \in Seq(Crew(opts)) /\ Len(new) = Len(old) /\ DOMAIN new = DOMAIN old
      /\ new[k] = ended /\ \A m \in DOMAIN old : m # k => new[m] = old[m]
  BY ONLY <1>3, <1>6, <1>7, old \in Seq(Crew(opts))
<1>10. \A m \in DOMAIN children : children'[m].argv = children[m].argv /\ (~children[m].alive => ~children'[m].alive)
  BY <1>2, <1>4, <1>6, <1>8, <1>9
<1>11. \A m \in DOMAIN children : InRole(m)'
  BY <1>1, <1>10 DEF FuzzInv, InRole
<1>12. children # <<>> /\ Len(children') = Len(children) /\ DOMAIN children' = DOMAIN children
  BY <1>2, <1>3, <1>8, <1>9
<1>13. ASSUME command = "fuzz", pc = "wait", ok = TRUE PROVE \A m \in 1 .. next : ~children'[m].alive
  <2>1. next \in 0 .. Len(children) /\ \A m \in 1 .. next : ~children[m].alive
    BY <1>13 DEF FuzzInv
  <2>2. \A m \in 1 .. next : m \in DOMAIN children
    BY <1>2, <1>3, <2>1
  <2> QED
    BY <1>10, <2>1, <2>2
<1>14. children' \in Seq(Crew(opts'))
  BY <1>1, <1>8, <1>9
<1> QED
  BY <1>1, <1>10, <1>11, <1>12, <1>13, <1>14 DEF FuzzInv, AtWork

(* Every step of the command keeps the invariant. *)
LEMMA FuzzStep ==
  ASSUME FuzzInv, FuzzNext
  PROVE  FuzzInv'
<1>0. <<>> \in Seq(Crew(opts')) /\ DOMAIN <<>> = {} /\ Len(<<>>) = 0
  OBVIOUS
<1>1. CASE Start
  <2>1. /\ command = "fuzz" /\ command' = command /\ pc = "start" /\ pc' = "lookup" /\ opts' \in FuzzOptions
        /\ next = 0 /\ children = <<>> /\ ok = TRUE /\ UNCHANGED <<next, ok, children>>
    BY <1>1 DEF Start, Goto, FuzzInv
  <2> QED
    BY <1>0, <2>1 DEF FuzzInv, AtWork
<1>2. CASE Locate
  <2>1. /\ command = "fuzz" /\ command' = command /\ pc = "lookup"
        /\ next = 0 /\ children = <<>> /\ ok = TRUE /\ UNCHANGED <<next, ok, children, opts, installed>>
        /\ opts \in FuzzOptions
    BY <1>2 DEF Locate, FuzzInv, rigid, Goto, Exit
  <2>2. CASE pc' = "over" /\ exitCode' = 1
    BY <1>0, <2>1, <2>2 DEF FuzzInv, AtWork
  <2>3. CASE pc' = "launch" /\ aflArgs' = InitialArgs(opts) /\ (opts.afl = "" => afl' \in LookupAflExecutable(installed))
    <3>1. opts.afl = "" => afl' \in installed
      BY <2>3 DEF LookupAflExecutable
    <3>2. Filled(opts, aflArgs', Sanitized(opts))
      BY <2>1, <2>3, FirstArguments
    <3>3. 0 \in 0 .. opts.n
      BY <2>1, OptionFacts
    <3> QED
      <4>1. children' = <<>> /\ Len(children') = 0 /\ next' = 0 /\ ok' = TRUE /\ opts' = opts
        BY <1>0, <2>1
      <4>2. children' \in Seq(Crew(opts')) /\ \A k \in DOMAIN children' : InRole(k)'
        BY <1>0, <4>1
      <4>3. Filled(opts', aflArgs', IF next' = 0 THEN Sanitized(opts') ELSE opts'.target[1])
        BY <3>2, <4>1
      <4>4. pc' = "launch" /\ opts' \in FuzzOptions /\ (opts'.afl = "" => afl' \in installed') /\ next' \in 0 .. opts'.n
        BY <2>1, <2>3, <3>1, <3>3, <4>1
      <4> QED
        BY <2>1, <4>1, <4>2, <4>3, <4>4 DEF FuzzInv, AtWork
  <2> QED
    BY <1>2, <2>2, <2>3 DEF Locate, Goto, Exit
<1>3. CASE Launch
  BY <1>3, OneLaunched
<1>4. CASE LaunchFails
  <2>1. command' = command /\ pc' = "over" /\ exitCode' = 1 /\ UNCHANGED <<opts, installed, afl, children, ok, next>>
    BY <1>4 DEF LaunchFails, Exit, fuzzVars
  <2>2. \A k \in DOMAIN children : InRole(k)'
    BY <2>1 DEF FuzzInv, InRole
  <2> QED
    <3>1. command = "fuzz" /\ pc = "launch"
      BY <1>4 DEF LaunchFails
    <3>2. opts \in FuzzOptions /\ (opts.afl = "" => afl \in installed) /\ ok \in BOOLEAN
      BY <3>1 DEF FuzzInv, AtWork
    <3>3. children' \in Seq(Crew(opts')) /\ \A k \in DOMAIN children' : InRole(k)'
      BY <2>1, <2>2, ChildrenListed
    <3> QED
      <4>1. ok' \in BOOLEAN /\ (opts'.afl = "" => afl' \in installed') /\ opts' \in FuzzOptions
        BY <2>1, <3>2
      <4>2. command' = "fuzz" /\ pc' = "over" /\ exitCode' # 0
        BY <2>1, <3>1
      <4> QED
        BY <3>3, <4>1, <4>2 DEF FuzzInv, AtWork
<1>5. CASE Launched
  <2>1. /\ command = "fuzz" /\ command' = command /\ pc = "launch" /\ next = opts.n /\ next' = 0
        /\ UNCHANGED <<opts, installed, afl, children, ok>>
        /\ IF opts.dry THEN pc' = "over" ELSE pc' = "wait"
    BY <1>5 DEF Launched, Goto, Exit, rigid
  <2>2. \A k \in DOMAIN children : InRole(k)'
    BY <2>1 DEF FuzzInv, InRole
  <2>3. opts \in FuzzOptions /\ Len(children) = (IF opts.dry THEN 0 ELSE opts.n)
    BY <2>1 DEF FuzzInv, AtWork
  <2>4. 0 \in 0 .. opts.n /\ 1 .. 0 = {}
    BY <2>3, OptionFacts
  <2> QED
    BY <2>1, <2>2, <2>3, <2>4 DEF FuzzInv, AtWork
<1>6. CASE WaitForChild
  <2>1. /\ command = "fuzz" /\ command' = command /\ pc = "wait" /\ pc' = pc /\ next < Len(children)
        /\ ~children[next + 1].alive /\ next' = next + 1
        /\ UNCHANGED <<opts, installed, afl, children, ok>>
    BY <1>6 DEF WaitForChild, Goto, rigid
  <2>2. \A k \in DOMAIN children : InRole(k)'
    BY <2>1 DEF FuzzInv, InRole
  <2>3. opts \in FuzzOptions /\ next \in 0 .. opts.n /\ Len(children) = opts.n
    BY <2>1 DEF FuzzInv, AtWork
  <2>4. opts.n \in Nat
    BY <2>3, OptionFacts
  <2>5. next' \in 0 .. opts.n /\ \A k \in 1 .. next' : k \in 1 .. next \/ k = next + 1
    BY <2>1, <2>3, <2>4
  <2>6. ok = TRUE => \A k \in 1 .. next' : ~children[k].alive
    BY <2>1, <2>5 DEF FuzzInv
  <2> QED
    BY <2>1, <2>2, <2>3, <2>5, <2>6 DEF FuzzInv, AtWork
<1>7. CASE WaitpidFailed
  <2>1. /\ command = "fuzz" /\ command' = command /\ pc = "wait" /\ pc' = pc /\ next < Len(children)
        /\ next' = next + 1 /\ ok' = FALSE
        /\ UNCHANGED <<opts, installed, afl, children>>
    BY <1>7 DEF WaitpidFailed, Goto, rigid
  <2>2. \A k \in DOMAIN children : InRole(k)'
    BY <2>1 DEF FuzzInv, InRole
  <2>3. opts \in FuzzOptions /\ next \in 0 .. opts.n /\ Len(children) = opts.n
    BY <2>1 DEF FuzzInv, AtWork
  <2>4. next' \in 0 .. opts.n
    BY <2>1, <2>3, OptionFacts
  <2> QED
    BY <2>1, <2>2, <2>3, <2>4 DEF FuzzInv, AtWork
<1>8. CASE Finished
  <2>1. /\ command = "fuzz" /\ command' = command /\ pc = "wait" /\ pc' = "over" /\ next = Len(children)
        /\ exitCode' = IF ok THEN 0 ELSE 1
        /\ UNCHANGED <<opts, installed, afl, children, ok>>
    BY <1>8 DEF Finished, Exit, fuzzVars
  <2>2. \A k \in DOMAIN children : InRole(k)'
    BY <2>1 DEF FuzzInv, InRole
  <2>3. /\ opts \in FuzzOptions /\ Len(children) = opts.n
        /\ ok = TRUE => \A k \in 1 .. next : ~children[k].alive
    BY <2>1 DEF FuzzInv, AtWork
  <2>4. DOMAIN children = 1 .. Len(children)
    BY ChildrenListed
  <2>5. ok \in BOOLEAN
    BY DEF FuzzInv
  <2>6. exitCode' = 0 => \A k \in DOMAIN children : ~children[k].alive
    BY <2>1, <2>3, <2>4, <2>5
  <2> QED
    BY <2>1, <2>2, <2>3, <2>5, <2>6 DEF FuzzInv, AtWork
<1>9. CASE \E k \in DOMAIN children : InstanceEnds(k)
  BY <1>9, OneEnds
<1> QED
  BY <1>1, <1>2, <1>3, <1>4, <1>5, <1>6, <1>7, <1>8, <1>9 DEF FuzzNext, FuzzExecute

(* So does every step of the program. *)
LEMMA FuzzInductive ==
  ASSUME FuzzInv, MainFirst, [Next]_vars
  PROVE  FuzzInv'
<1>1. CASE Fuzz
  BY <1>1, FuzzStep DEF Fuzz
<1>2. ASSUME UNCHANGED fuzzVars, UNCHANGED processVars \/ (command # "fuzz" /\ (command' # "fuzz" \/ pc' = "start"))
      PROVE  FuzzInv'
  <2>1. UNCHANGED <<opts, installed, path, afl, aflArgs, next, ok, children>>
    BY <1>2 DEF fuzzVars
  <2>2. \A k \in DOMAIN children : InRole(k)'
    BY <2>1 DEF FuzzInv, InRole
  <2>3. CASE UNCHANGED <<command, pc, exitCode>>
    BY <2>1, <2>2, <2>3 DEF FuzzInv, AtWork
  <2>4. CASE command # "fuzz" /\ (command' # "fuzz" \/ pc' = "start")
    BY <2>1, <2>2, <2>4 DEF FuzzInv, AtWork
  <2> QED
    BY <1>2, <2>3, <2>4 DEF processVars
<1>3. CASE Main
  BY <1>2, <1>3 DEF Main, Choose, MainFirst
<1>4. CASE Calibrate
  <2>1. UNCHANGED fuzzVars /\ (UNCHANGED processVars \/ (command = "calibrate" /\ command' = command))
    BY <1>4 DEF Calibrate, CalibrateNext, CalibrateExecute, BeginCalibration, TakeFile, Synthesise,
                TruncateScript, WriteScript, ExecuteProgram, Count, Overview, WaitpidFails,
                ProgramEnds, Goto, Exit
  <2> QED
    BY <2>1, <1>2
<1>5. CASE Gen
  BY <1>5, <1>2 DEF Gen, GenNext, LoadStore, ChangeWorkingDirectory, Generate, WriteSeed, Done,
                    Goto, Exit
<1>6. CASE Synthesis
  BY <1>6, <1>2 DEF Synthesis, SynthesisNext, StartSynthesis, CreateOutputDirectory, TakeTestCase,
                    ShowCode, WriteTextToFile, AllSynthesised, Goto, Exit
<1>7. CASE UNCHANGED vars
  BY <1>7, <1>2 DEF vars
<1> QED
  BY <1>1, <1>3, <1>4, <1>5, <1>6, <1>7 DEF Next

(* The flags of an instance are those in its slots, and the target stands where the
   parameters of the target begin. *)
LEMMA FleetFollows ==
  ASSUME NoRolesGiven, FuzzInv
  PROVE  FleetAsConfigured
<1>1. children \in Seq(Crew(opts)) /\ DOMAIN children = 1 .. Len(children) /\ \A k \in DOMAIN children : InRole(k)
  BY ChildrenListed
<1>2. DOMAIN <<>> = {}
  OBVIOUS
<1>3. ASSUME NEW k \in DOMAIN children PROVE opts \in FuzzOptions
  BY <1>2, <1>3 DEF FuzzInv
<1>4. ASSUME NEW k \in DOMAIN children
      PROVE  /\ Program(k) = IF k = 1 THEN Sanitized(opts) ELSE opts.target[1]
             /\ opts.n = 1 => Flags(k) = {}
             /\ opts.n > 1 => Flags(k) = {6}
             /\ opts.n > 1 => /\ Argument(k)[6] = IF k = 1 THEN MasterFlag ELSE SecondaryFlag
                              /\ Argument(k)[7] = FuzzerName(k - 1)
  <2>1. opts \in FuzzOptions
    BY <1>3
  <2>2. PICK v : v = children[k].argv
    OBVIOUS
  <2>3. Filled(opts, v, IF k = 1 THEN Sanitized(opts) ELSE opts.target[1]) /\ k <= opts.n
        /\ (opts.n > 1 => /\ v[6] = IF k = 1 THEN MasterFlag ELSE SecondaryFlag
                          /\ v[7] = FuzzerName(k - 1))
    BY <1>1, <2>2 DEF InRole
  <2>4. /\ Size(opts) \in Nat /\ Size(opts) - Len(opts.target) + 1 = execArg(opts)
        /\ Slots(opts) \subseteq 1 .. Size(opts)
    BY <2>1, SizeFacts
  <2>5. DOMAIN v = 1 .. Size(opts) /\ Len(v) = Size(opts)
    <3>1. PICK X : X = Words(opts) \cup Roles \cup Range(FuzzerNames)
      OBVIOUS
    <3>2. PICK z \in Nat : z = Size(opts)
      BY <2>4
    <3>3. v \in [1 .. z -> X]
      BY <2>3, <3>1, <3>2 DEF Filled, Vectors
    <3> QED
      BY <3>2, <3>3
  <2>6. Words(opts) \cap Roles = {}
    BY <2>1, OptionFacts DEF NoRolesGiven, Words, Roles, MasterFlag, SecondaryFlag, Sanitized, Empty
  <2>7. Program(k) = IF k = 1 THEN Sanitized(opts) ELSE opts.target[1]
    BY <2>2, <2>3, <2>4, <2>5 DEF Program, Argument, Filled
  <2>8. Flags(k) = {i \in 1 .. Size(opts) : v[i] \in Roles}
    BY <2>2, <2>5 DEF Flags, Argument, Roles
  <2>9. \A i \in (1 .. Size(opts)) \ Slots(opts) : v[i] \notin Roles
    BY <2>3, <2>6 DEF Filled
  <2>10. ASSUME opts.n > 1 PROVE v[6] \in Roles /\ v[7] \notin Roles /\ Slots(opts) = {6, 7}
    <3>1. FuzzerName(k - 1) \notin Roles
      <4>1. opts.n \in 1 .. MaxInstances /\ MaxInstances \in Nat
        BY <2>1, OptionFacts
      <4>2. FuzzerNames \in Seq(STRING \ Roles) /\ Len(FuzzerNames) >= MaxInstances
        BY NamesAssumption DEF Roles
      <4>3. k \in 1 .. Len(children) /\ Len(children) \in Nat /\ k <= opts.n
        BY <1>1, <2>3
      <4>4. k \in DOMAIN FuzzerNames /\ (k - 1) + 1 = k
        BY <4>1, <4>2, <4>3
      <4> QED
        BY <4>2, <4>4 DEF FuzzerName
    <3> QED
      BY <2>3, <2>10, <3>1 DEF Slots, Roles
  <2>11. opts.n = 1 => Flags(k) = {}
    BY <2>8, <2>9 DEF Slots
  <2>12. opts.n > 1 => Flags(k) = {6}
    BY <2>4, <2>8, <2>9, <2>10
  <2> QED
    BY <2>2, <2>3, <2>7, <2>11, <2>12 DEF Argument
<1>5. ASSUME NEW k \in DOMAIN children, NEW m \in DOMAIN children, k # m, opts.n > 1
      PROVE  Argument(m)[6 + 1] # Argument(k)[6 + 1]
  <2>1. opts.n \in 1 .. MaxInstances /\ MaxInstances \in Nat
    BY <1>3, OptionFacts
  <2>2. k \in 1 .. Len(children) /\ m \in 1 .. Len(children) /\ Len(children) \in Nat /\ k <= opts.n /\ m <= opts.n
    BY <1>1 DEF InRole
  <2>3. FuzzerNames \in Seq(STRING \ {MasterFlag, SecondaryFlag}) /\ Len(FuzzerNames) >= MaxInstances /\ IsInjective(FuzzerNames)
    BY NamesAssumption
  <2>4. k \in DOMAIN FuzzerNames /\ m \in DOMAIN FuzzerNames /\ (k - 1) + 1 = k /\ (m - 1) + 1 = m
    BY <2>1, <2>2, <2>3
  <2>5. FuzzerName(k - 1) # FuzzerName(m - 1)
    BY <1>5, <2>3, <2>4 DEF FuzzerName, IsInjective
  <2>6. 6 + 1 = 7
    OBVIOUS
  <2> QED
    BY <1>4, <1>5, <2>5, <2>6
<1>6. children # <<>> /\ opts.afl = "" => afl \in installed
  BY DEF FuzzInv
<1>7. command = "fuzz" /\ pc = "over" /\ exitCode = 0 /\ ~opts.dry =>
        Len(children) = opts.n /\ \A k \in DOMAIN children : ~children[k].alive
  BY DEF FuzzInv
<1>8. ASSUME NEW k \in DOMAIN children, opts.n > 1
      PROVE  \E i \in Flags(k) :
               /\ Flags(k) = {i}
               /\ Argument(k)[i] = IF k = 1 THEN MasterFlag ELSE SecondaryFlag
               /\ \A m \in DOMAIN children \ {k} : Argument(m)[i + 1] # Argument(k)[i + 1]
  <2>1. 6 \in Flags(k) /\ Flags(k) = {6}
    BY <1>4, <1>8
  <2>2. \A m \in DOMAIN children \ {k} : Argument(m)[6 + 1] # Argument(k)[6 + 1]
    BY <1>5, <1>8
  <2>3. Argument(k)[6] = IF k = 1 THEN MasterFlag ELSE SecondaryFlag
    BY <1>4, <1>8
  <2> QED
    BY <2>1, <2>2, <2>3
<1> QED
  BY <1>4, <1>6, <1>7, <1>8 DEF FleetAsConfigured

(* Whatever the number of instances, and whichever of them end or fail: each has its own
   role, name and target, provided that the user's own arguments give no role; none
   is started without an executable, and a command that reports success has started
   and seen the end of them all (src/src/CLI/FuzzCommand.cpp). *)
THEOREM FleetAlwaysAsConfigured ==
  ASSUME NoRolesGiven
  PROVE  Spec => []FleetAsConfigured
<1>1. Init => FuzzInv /\ MainFirst
  <2>1. <<>> \in Seq(Crew(opts)) /\ DOMAIN <<>> = {}
    OBVIOUS
  <2> QED
    BY <2>1 DEF Init, CommandLineInit, FuzzInit, FuzzInv, AtWork, MainFirst
<1>2. FuzzInv => FleetAsConfigured
  BY FleetFollows
<1> QED
  BY <1>1, <1>2, FuzzInductive, MainFirstStep, PTL DEF Spec
=============================================================================
