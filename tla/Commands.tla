------------------------------- MODULE Commands -------------------------------
(***************************************************************************)
(* One run of the caf program with a command that starts processes or      *)
(* writes files; the commands that only print are not here.                *)
(***************************************************************************)
EXTENDS FuzzCommand, CalibrateCommand, GenerateTestCaseCommand, SynthesisCommand

vars == <<processVars, fuzzVars, calibrateVars, genVars, synthesisVars>>

Init == CommandLineInit /\ FuzzInit /\ CalibrateInit /\ GenInit /\ SynthesisInit

Main ==
  /\ \E name \in Registered : Choose(name)
  /\ UNCHANGED <<fuzzVars, calibrateVars, genVars, synthesisVars>>

Fuzz      == FuzzNext /\ UNCHANGED <<calibrateVars, genVars, synthesisVars>>
Calibrate == CalibrateNext /\ UNCHANGED <<fuzzVars, genVars, synthesisVars>>
Gen       == GenNext /\ UNCHANGED <<fuzzVars, calibrateVars, synthesisVars>>
Synthesis == SynthesisNext /\ UNCHANGED <<fuzzVars, calibrateVars, genVars>>

Next == Main \/ Fuzz \/ Calibrate \/ Gen \/ Synthesis

(* The program takes its next step when it can; what it started need not end,
   and system calls need not fail. *)
Step ==
  \/ Main
  \/ (FuzzExecute \/ CalibrateExecute \/ GenNext \/ SynthesisNext) /\ Next

Spec == Init /\ [][Next]_vars /\ WF_vars(Step)

-----------------------------------------------------------------------------
(* A command waits for what it started and for nothing else: unless some process
   it started runs forever, it comes to its end. *)
NothingRuns ==
  /\ \A k \in DOMAIN children : ~children[k].alive
  /\ running = <<>> \/ running[1].sig # -1

CommandEnds == []<>NothingRuns => <>(pc = "over")
=============================================================================
