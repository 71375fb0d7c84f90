--------------------------- MODULE SynthesisCommand ---------------------------
(***************************************************************************)
(* caf synthesis (src/CLI/SynthesisCommand.cpp): turns test case files     *)
(* into scripts, printed or written to the file -o names or, when there    *)
(* are several, under their own names into the directory it names.  A path *)
(* is the sequence of its names; a script is the sequence of the test      *)
(* cases whose code it is made of.                                         *)
(***************************************************************************)
EXTENDS CommandLine, SequencesExt

CONSTANTS
  SynthesisOptions,  \* [target, paths, out]: out is <<>> without -o
  FileSystems        \* what may be there before: path -> [is, of]

ASSUME SynthesisAssumption ==
  \A o \in SynthesisOptions :
    o.paths \in Seq(Range(o.paths)) /\ o.paths # <<>> /\ <<>> \notin Range(o.paths)

VARIABLES
  synOpts,   \* _opts
  taken,     \* test cases taken up
  program,   \* GetCode() of the synthesiser of this test case
  files,     \* the file system now
  shown      \* the scripts printed

synthesisVars == <<synOpts, taken, program, files, shown>>

Directory    == [is |-> "directory", of |-> <<>>]
TestCase(p)  == [is |-> "test case", of |-> <<p>>]
Script(code) == [is |-> "script", of |-> code]

(* What the command line calls test cases are test cases, if they are there, and
   "" is the name of nothing. *)
ASSUME FilesAssumption ==
  \A fs \in FileSystems :
    /\ <<>> \notin DOMAIN fs
    /\ \A o \in SynthesisOptions :
         \A p \in Range(o.paths) \cap DOMAIN fs : fs[p] = TestCase(p)

(* The directory, a slash, and what follows the last slash of the path. *)
OutputPath(k) ==
  IF Len(synOpts.paths) = 1 THEN synOpts.out ELSE Append(synOpts.out, Last(synOpts.paths[k]))

(* The file system once p is file. *)
With(p, file) == [q \in DOMAIN files \cup {p} |-> IF q = p THEN file ELSE files[q]]

IsDirectory(p) == p \in DOMAIN files /\ files[p].is = "directory"

StartSynthesis ==
  /\ command = "synthesis" /\ pc = "start"
  /\ synOpts' \in SynthesisOptions
  /\ files' \in FileSystems
  /\ \/ synOpts'.target \in {"js", "nodejs"} /\ Goto("directory")
     \/ Exit(1)                     \* another target, or the store is not opened
  /\ UNCHANGED <<taken, program, shown>>

(* With several test cases the directory must be there or be made, also when no
   output is asked for: "" is neither there nor can it be made. *)
CreateOutputDirectory ==
  /\ command = "synthesis" /\ pc = "directory"
  /\ \/ /\ Len(synOpts.paths) > 1 => IsDirectory(synOpts.out)
        /\ UNCHANGED files
        /\ Goto("take")
     \/ /\ Len(synOpts.paths) > 1 /\ synOpts.out # <<>> /\ synOpts.out \notin DOMAIN files
        /\ files' = With(synOpts.out, Directory)
        /\ Goto("take")
     \/ Len(synOpts.paths) > 1 /\ UNCHANGED files /\ Exit(1)
  /\ UNCHANGED <<synOpts, taken, program, shown>>

(* Mutant: one builder for all test cases. *)
TakeTestCaseSharedBuilder ==
  /\ command = "synthesis" /\ pc = "take" /\ taken < Len(synOpts.paths)
  /\ taken' = taken + 1
  /\ LET p == synOpts.paths[taken'] IN
       \/ /\ p \in DOMAIN files /\ files[p].is = "test case"
          /\ program' = program \o files[p].of
          /\ Goto("emit")
       \/ UNCHANGED program /\ Exit(1)
  /\ UNCHANGED <<synOpts, files, shown>>

(* The head of the loop.  No script is a test case, which ends the process where
   its first value is read; what cannot be read is whatever is in memory. *)
TakeTestCase ==
  /\ command = "synthesis" /\ pc = "take" /\ taken < Len(synOpts.paths)
  /\ taken' = taken + 1
  /\ LET p == synOpts.paths[taken'] IN
       \/ /\ p \in DOMAIN files /\ files[p].is = "test case"
          /\ program' = files[p].of
          /\ Goto("emit")
       \/ /\ p \in DOMAIN files /\ files[p].is # "test case" /\ files[p].of = <<>>
          /\ program' = <<<<>>>>
          /\ Goto("emit")
       \/ p \in DOMAIN files /\ files[p].is # "test case" /\ UNCHANGED program /\ Exit(134)
       \/ UNCHANGED program /\ Exit(1)           \* the file cannot be opened
  /\ UNCHANGED <<synOpts, files, shown>>

ShowCode ==
  /\ command = "synthesis" /\ pc = "emit" /\ synOpts.out = <<>>
  /\ shown' = Append(shown, program)
  /\ Goto("take")
  /\ UNCHANGED <<synOpts, taken, program, files>>

(* An existing file is replaced; that a write fails is not noticed. *)
WriteTextToFile ==
  /\ command = "synthesis" /\ pc = "emit" /\ synOpts.out # <<>>
  /\ \/ /\ ~IsDirectory(OutputPath(taken))
        /\ \E code \in {program, <<>>} : files' = With(OutputPath(taken), Script(code))
        /\ Goto("take")
     \/ UNCHANGED files /\ Exit(1)
  /\ UNCHANGED <<synOpts, taken, program, shown>>

AllSynthesised ==
  /\ command = "synthesis" /\ pc = "take" /\ taken = Len(synOpts.paths)
  /\ Exit(0)
  /\ UNCHANGED synthesisVars

SynthesisInit ==
  /\ synOpts = CHOOSE o \in SynthesisOptions : TRUE
  /\ taken = 0
  /\ program = <<>>
  /\ files = <<>>
  /\ shown = <<>>

SynthesisNext ==
  \/ StartSynthesis \/ CreateOutputDirectory \/ TakeTestCase \/ ShowCode
  \/ WriteTextToFile \/ AllSynthesised

-----------------------------------------------------------------------------
(* Names and files are shared by the test cases of one command: when it succeeds
   and was given -o, what is found under the name of a test case is its own code
   (or nothing, if the disk was full), unless a later one has the same name or
   the test case was replaced by an output before it was read; every test case
   that is no output is still there; several test cases are never printed. *)
ScriptsByName ==
  command = "synthesis" /\ pc = "over" /\ exitCode = 0 =>
    LET paths == synOpts.paths
        Outputs(ks) == {OutputPath(k) : k \in ks}
    IN  IF synOpts.out = <<>> THEN Len(paths) = 1 /\ shown = <<<<paths[1]>>>>
        ELSE \A k \in DOMAIN paths :
               /\ OutputPath(k) \notin Outputs(k + 1 .. Len(paths))
                  /\ paths[k] \notin Outputs(1 .. k - 1) \cup {synOpts.out}
                  => files[OutputPath(k)] \in {Script(<<paths[k]>>), Script(<<>>)}
               /\ paths[k] \notin Outputs(DOMAIN paths) \cup {synOpts.out}
                  => files[paths[k]] = TestCase(paths[k])
=============================================================================
