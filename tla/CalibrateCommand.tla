--------------------------- MODULE CalibrateCommand ---------------------------
(***************************************************************************)
(* caf calibrate (src/CLI/CalibrateCommand.cpp): every test case file is   *)
(* read, synthesised, written to the one temporary script and run, and the *)
(* signals that ended the runs are counted.  A program is the sequence of  *)
(* the files whose code it is made of.                                     *)
(***************************************************************************)
EXTENDS CommandLine, SequencesExt

CONSTANTS
  TestCaseLists,   \* the files a command line may name
  Readme,          \* those whose path contains README.txt
  Malformed,       \* those that no test case can be read from
  Signals          \* what may end a run; 0 is not a signal

ASSUME CalibrationAssumption == Signals \subseteq Nat \ {0} /\ TestCaseLists \subseteq Seq(STRING)

VARIABLES
  tcFiles,         \* _opt.TestCaseFiles
  current,         \* number of files taken up
  code,            \* of the synthesiser of this file
  script,          \* content of the temporary script
  running,         \* the child: <<>>, or <<[program, sig]>>, sig -1 while it runs
  printed,         \* the lines printed: [file, sig, ran]
  signalCounter

calibrateVars == <<tcFiles, current, code, script, running, printed, signalCounter>>

File == tcFiles[current]

BeginCalibration ==
  /\ command = "calibrate" /\ pc = "start"
  /\ \/ /\ tcFiles' \in TestCaseLists  \* the store is loaded, mkstemp called
        /\ Goto("file")
     \/ /\ UNCHANGED tcFiles           \* LoadCAFStore cannot open the store
        /\ Exit(1)
  /\ UNCHANGED <<current, code, script, running, printed, signalCounter>>

(* Mutant: the builder is shared by all files. *)
TakeFileSharedBuilder ==
  /\ command = "calibrate" /\ pc = "file" /\ current < Len(tcFiles)
  /\ current' = current + 1
  /\ \/ Goto("file")
     \/ tcFiles[current + 1] \notin Readme /\ Goto("synthesise")
  /\ UNCHANGED <<tcFiles, code, script, running, printed, signalCounter>>

(* The head of the loop: README.txt is skipped, and so is a file that cannot be
   opened; one that cannot be read ends the process. *)
TakeFile ==
  /\ command = "calibrate" /\ pc = "file" /\ current < Len(tcFiles)
  /\ current' = current + 1
  /\ code' = <<>>
  /\ \/ Goto("file")                                   \* README.txt, or not opened
     \/ tcFiles[current + 1] \notin Readme /\ Goto("synthesise")
  /\ UNCHANGED <<tcFiles, script, running, printed, signalCounter>>

Synthesise ==
  /\ command = "calibrate" /\ pc = "synthesise"
  /\ IF File \in Malformed
     THEN UNCHANGED code /\ Exit(134)
     ELSE code' = Append(code, File) /\ Goto("truncate")
  /\ UNCHANGED <<tcFiles, current, script, running, printed, signalCounter>>

TruncateScript ==
  /\ command = "calibrate" /\ pc = "truncate"
  /\ \/ script' = <<>> /\ Goto("write")
     \/ UNCHANGED script /\ Exit(1)
  /\ UNCHANGED <<tcFiles, current, code, running, printed, signalCounter>>

(* Opening the script may fail, which takes the loop to the next file; writing
   it may fail as well, which nobody notices. *)
WriteScript ==
  /\ command = "calibrate" /\ pc = "write"
  /\ \/ UNCHANGED script /\ Goto("file")
     \/ script' \in {code, <<>>} /\ Goto("execute")
  /\ UNCHANGED <<tcFiles, current, code, running, printed, signalCounter>>

ExecuteProgram ==
  /\ command = "calibrate" /\ pc = "execute"
  /\ \/ running' = <<[program |-> script, sig |-> -1]>> /\ Goto("waitpid")
     \/ UNCHANGED running /\ Exit(1)                   \* fork fails
  /\ UNCHANGED <<tcFiles, current, code, script, printed, signalCounter>>

(* External: the program ends, by a signal or, sig 0, in any other way. *)
ProgramEnds(sig) ==
  /\ running # <<>> /\ running[1].sig = -1
  /\ running' = <<[running[1] EXCEPT !.sig = sig]>>
  /\ UNCHANGED <<processVars, tcFiles, current, code, script, printed, signalCounter>>

(* waitpid returns: a signal counts as itself, every other end as no crash, also
   that of a child which could not execute the program. *)
Count ==
  /\ command = "calibrate" /\ pc = "waitpid"
  /\ LET sig == running[1].sig
     IN  /\ sig # -1
         /\ printed' = Append(printed, [file |-> File, sig |-> sig, ran |-> running[1].program])
         /\ signalCounter' = [signalCounter EXCEPT ![sig] = @ + 1]
  /\ running' = <<>>
  /\ Goto("file")
  /\ UNCHANGED <<tcFiles, current, code, script>>

WaitpidFails ==
  /\ command = "calibrate" /\ pc = "waitpid"
  /\ Exit(1)
  /\ UNCHANGED calibrateVars

Overview ==
  /\ command = "calibrate" /\ pc = "file" /\ current = Len(tcFiles)
  /\ Exit(0)
  /\ UNCHANGED calibrateVars

CalibrateInit ==
  /\ tcFiles = <<>>
  /\ current = 0
  /\ code = <<>>
  /\ script = <<>>
  /\ running = <<>>
  /\ printed = <<>>
  /\ signalCounter = [s \in Signals \cup {0} |-> 0]

CalibrateExecute ==
  \/ BeginCalibration \/ TakeFile \/ Synthesise \/ TruncateScript \/ WriteScript
  \/ ExecuteProgram \/ Count \/ Overview

CalibrateNext ==
  \/ CalibrateExecute
  \/ WaitpidFails
  \/ \E sig \in Signals \cup {0} : ProgramEnds(sig)

-----------------------------------------------------------------------------
(* The files share the pool, the script and the counter, and still each line is
   about the run of its own file: no run executes code of another test case
   (an unnoticed write error may leave it without code), lines come in the order
   of the files, none comes twice, and the overview adds up to the lines. *)
CalibrationExact ==
  /\ \A l \in DOMAIN printed : printed[l].ran \in {<<printed[l].file>>, <<>>}
  /\ Len(printed) <= current
  /\ \E at \in [DOMAIN printed -> 1 .. current] :
       /\ \A l \in DOMAIN printed : tcFiles[at[l]] = printed[l].file
       /\ \A l, m \in DOMAIN printed : l < m => at[l] < at[m]
  /\ \A s \in DOMAIN signalCounter :
       signalCounter[s] = Cardinality({l \in DOMAIN printed : printed[l].sig = s})
=============================================================================
