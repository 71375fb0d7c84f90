------------------------ MODULE GenerateTestCaseCommand ------------------------
(***************************************************************************)
(* caf gen (src/CLI/GenerateTestCaseCommand.cpp): writes test cases to     *)
(* seed0.bin, seed1.bin ... of the output directory, either -n of them or, *)
(* with --full, one for each entry of the store.  Of a test case only the  *)
(* root entry matters here: TestCaseMutator, ObjectPool and                *)
(* TestCaseSerializer model what is in it, the pool that is cleared before *)
(* each of them, and how it is written.                                    *)
(***************************************************************************)
EXTENDS CommandLine

CONSTANTS
  GenOptions,   \* [n, full, entries]: the options, and the size of the store
  OldSeeds      \* seeds that an earlier command may have left in the directory

ASSUME GenAssumption ==
  /\ \A o \in GenOptions : o.n \in Nat \ {0} /\ o.full \in BOOLEAN /\ o.entries \in Nat \ {0}
  /\ GenOptions # {}
  /\ OldSeeds \subseteq Nat

VARIABLES
  genOpts,   \* _opts and GetEntriesCount()
  tci,       \* test cases begun
  root,      \* root entry of the test case at hand
  seeds      \* the files: number -> [root, whole, mine]

genVars == <<genOpts, tci, root, seeds>>

tcCount == IF genOpts.full THEN genOpts.entries ELSE genOpts.n

LoadStore ==
  /\ command = "gen" /\ pc = "start"
  /\ genOpts' \in GenOptions
  /\ \/ Goto("chdir")
     \/ Exit(1)                         \* the store cannot be opened
  /\ UNCHANGED <<tci, root, seeds>>

(* The directory exists, or mkdir makes it, or the command gives up. *)
ChangeWorkingDirectory ==
  /\ command = "gen" /\ pc = "chdir"
  /\ \/ /\ \E old \in SUBSET OldSeeds :
             seeds' = [i \in old |-> [root |-> 0, whole |-> TRUE, mine |-> FALSE]]
        /\ Goto("generate")
     \/ UNCHANGED seeds /\ Exit(1)
  /\ UNCHANGED <<genOpts, tci, root>>

(* Mutant: the root entry is always chosen at random. *)
GenerateAnyRoot ==
  /\ command = "gen" /\ pc = "generate" /\ tci < tcCount
  /\ root' \in 0 .. (genOpts.entries - 1)
  /\ Goto("write")
  /\ UNCHANGED <<genOpts, tci, seeds>>

Generate ==
  /\ command = "gen" /\ pc = "generate" /\ tci < tcCount
  /\ root' \in IF genOpts.full THEN {tci} ELSE 0 .. (genOpts.entries - 1)
  /\ Goto("write")
  /\ UNCHANGED <<genOpts, tci, seeds>>

(* The file is created and written, whole or, when the disk is full, in part,
   which nobody notices; or it cannot be created and the command ends. *)
WriteSeed ==
  /\ command = "gen" /\ pc = "write"
  /\ \/ /\ \E whole \in BOOLEAN :
             seeds' = [i \in DOMAIN seeds \cup {tci} |->
                         IF i = tci
                         THEN [root |-> root, whole |-> whole, mine |-> TRUE]
                         ELSE seeds[i]]
        /\ tci' = tci + 1
        /\ Goto("generate")
     \/ UNCHANGED <<seeds, tci>> /\ Exit(1)
  /\ UNCHANGED <<genOpts, root>>

Done ==
  /\ command = "gen" /\ pc = "generate" /\ tci >= tcCount
  /\ Exit(0)
  /\ UNCHANGED genVars

GenInit ==
  /\ genOpts = CHOOSE o \in GenOptions : TRUE
  /\ tci = 0
  /\ root = 0
  /\ seeds = [i \in {} |-> 0]

GenNext == LoadStore \/ ChangeWorkingDirectory \/ Generate \/ WriteSeed \/ Done

-----------------------------------------------------------------------------
(* A successful command leaves one seed of its own under every number it was
   asked for, with --full the one of that entry; what an earlier command left
   is there only beyond them, although the names are reused. *)
SeedsAsAsked ==
  command = "gen" /\ pc = "over" /\ exitCode = 0 =>
    /\ 0 .. (tcCount - 1) \subseteq DOMAIN seeds
    /\ \A i \in DOMAIN seeds :
         IF i < tcCount THEN seeds[i].mine /\ (genOpts.full => seeds[i].root = i)
         ELSE ~seeds[i].mine
=============================================================================
