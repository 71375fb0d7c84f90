----------------------------- MODULE CommandLine -----------------------------
(***************************************************************************)
(* The caf program (src/CLI/main.cpp, CommandManager.cpp): every command   *)
(* registers itself before main runs, main lets the command line choose    *)
(* one of them and exits with what its Execute returns.  A command's pc is *)
(* the place in its Execute; "over" is the end of the process.             *)
(***************************************************************************)
EXTENDS Integers, Sequences

CONSTANTS
  Registered   \* the names the RegisterCommand objects register

ASSUME RegisteredAssumption == "none" \notin Registered

VARIABLES
  command,   \* the chosen subcommand, "none" before main has parsed it
  pc,        \* where its Execute is
  exitCode   \* of the process, once it is over

processVars == <<command, pc, exitCode>>

Goto(label) == pc' = label /\ UNCHANGED <<command, exitCode>>

Exit(code) == pc' = "over" /\ exitCode' = code /\ UNCHANGED command

(* CommandManager::GetCommandOfApp and the call of Execute in main. *)
Choose(name) ==
  /\ pc = "main"
  /\ name \in Registered
  /\ command' = name
  /\ pc' = "start"
  /\ UNCHANGED exitCode

CommandLineInit == command = "none" /\ pc = "main" /\ exitCode = 0
=============================================================================
