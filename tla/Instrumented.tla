---------------------------- MODULE Instrumented ----------------------------
(***************************************************************************)
(* From a module to the target that reads test cases.  The extractor and   *)
(* the instrumentor (src/Instrumentor/InstrumentorPass.cpp) prepare        *)
(* Node.js; CAFDriver prepares any other program.                          *)
(***************************************************************************)
EXTENDS NodejsDriver, CommonDriver

VARIABLE target  \* what is being built, which never changes

vars == <<module, target, extractorVars, symbolVars, driverVars>>
rigid == <<module, target>>

(* The target "common" of the instrumentor: the store is written and nothing is
   generated. *)
RunExtractor ==
  /\ target \in {"nodejs", "common"} /\ status = "compiling"
  /\ Extract
  /\ status' = IF target = "nodejs" THEN "running" ELSE "ended"
  /\ UNCHANGED <<rigid, symbolVars, objects, frames, input>>

RunDriver ==
  /\ target = "caf" /\ status = "compiling"
  /\ SymbolTableNext
  /\ UNCHANGED <<rigid, extractorVars, driverVars>>

(* The common generator is handed the frozen table; without an API there is
   nothing to freeze. *)
Link ==
  /\ target = "caf" /\ status = "compiling" /\ Frozen
  /\ status' = "running"
  /\ UNCHANGED <<rigid, extractorVars, symbolVars, objects, frames, input>>

RunNodejs == target = "nodejs" /\ NodejsNext /\ UNCHANGED <<rigid, symbolVars>>
RunCommon == target = "caf" /\ CommonNext /\ UNCHANGED <<rigid, extractorVars>>

(* The generated main, which for the common target replaces the module's own. *)
RunMain ==
  /\ StartMain \/ FinishMain
  /\ UNCHANGED <<rigid, extractorVars, symbolVars>>

Init ==
  /\ module \in Modules
  /\ target \in {"nodejs", "common", "caf"}
  /\ ExtractorInit /\ SymbolTableInit /\ DriverInit

Next == RunExtractor \/ RunDriver \/ Link \/ RunNodejs \/ RunCommon \/ RunMain

(* A function of the target runs, and with it code that is not ours. *)
ApiRuns ==
  \/ target = "nodejs" /\ NodejsApiRuns
  \/ target = "caf" /\ CommonApiRuns

(* A compiler and a process of one thread go on when they can, except that a
   function of the target may never return. *)
OwnNext == ~ApiRuns /\ Next
Spec == Init /\ [][Next]_vars /\ WF_vars(OwnNext)

-----------------------------------------------------------------------------
(* Whatever the input, the numbers the two generated programs give are what the
   code that numbered the objects of the test case has to count on, and they
   differ: Node.js numbers what is in an array before the array, the common
   program an object before its parts. *)
Numbering ==
  /\ target = "nodejs" => ElementsBeforeArrays
  /\ target = "caf" => WholesBeforeParts

(* No input keeps the generated code busy: types that lead back to themselves end
   the analysis, and the counters and the stack end the run, unless one of the
   functions it calls never returns. *)
Terminates == <>[](status \in {"ended", "crashed"} \/ ApiRuns)
=============================================================================
