----------------------------- MODULE FuzzCommand -----------------------------
(***************************************************************************)
(* caf fuzz (src/CLI/FuzzCommand.cpp): finds afl-fuzz, starts any number   *)
(* of instances of it and waits for them.  The instances share one vector  *)
(* of arguments, in which the slots that tell them apart are overwritten   *)
(* between two launches.                                                   *)
(*                                                                         *)
(* A directory is a sequence of names: <<"/", d>> is absolute, <<d>> is    *)
(* relative and <<>> is the working directory.  Losing its first character *)
(* turns an absolute directory into its tail.                              *)
(***************************************************************************)
EXTENDS CommandLine, SequencesExt

CONSTANTS
  MaxInstances,      \* bound on -n
  SearchPaths,       \* values of PATH: sequences of absolute or empty directories
  Installations,     \* sets of directories that may hold an afl-fuzz
  FuzzOptions,       \* what SetupArgs accepts: see OptionsAssumption
  FuzzerNames        \* "fuzzer0", "fuzzer1", and so on

MasterFlag    == "-M"
SecondaryFlag == "-S"

ASSUME OptionsAssumption ==
  \A o \in FuzzOptions :
    /\ o.n \in 1 .. MaxInstances
    /\ o.target \in Seq(STRING) /\ o.target # <<>>
    /\ o.aflArgs \in Seq(STRING)
    /\ o.dry \in BOOLEAN /\ o.resume \in BOOLEAN
    /\ o.sanitized \in STRING
ASSUME NamesAssumption ==
  /\ MaxInstances \in Nat
  /\ FuzzerNames \in Seq(STRING \ {MasterFlag, SecondaryFlag})
  /\ Len(FuzzerNames) >= MaxInstances /\ IsInjective(FuzzerNames)

VARIABLES
  opts,       \* _opts
  installed,  \* the directories that hold an afl-fuzz
  path,       \* the value of PATH
  afl,        \* where LookupAflExecutable found it
  aflArgs,    \* the arguments of the next instance
  next,       \* number of instances launched so far, then of those waited for
  ok,         \* no waitpid failed
  children    \* the processes started: [argv, alive]

fuzzVars == <<opts, installed, path, afl, aflArgs, next, ok, children>>
rigid    == <<opts, installed, path>>

-----------------------------------------------------------------------------
(* LookupAflExecutable.  The loop moves past one character before it looks at
   the next element: past the first character of PATH, and past the first one
   of each element that follows an element it looked at.  After an element it
   did not look at, that character is the colon. *)
Whole(p) ==
  LET whole[i \in 1 .. Len(p)] ==
        /\ i > 1
        /\ IF whole[i - 1] THEN p[i - 1] = <<>> ELSE Len(p[i - 1]) <= 1
  IN  whole

(* The directory looked into for element i: none, or one. *)
LooksInto(p, i) ==
  IF Whole(p)[i] THEN IF p[i] # <<>> \/ i = Len(p) THEN <<p[i]>> ELSE <<>>
  ELSE IF Len(p[i]) >= 2 \/ (i = Len(p) /\ Len(p[i]) = 1) THEN <<Tail(p[i])>> ELSE <<>>

(* Every directory in the order of the search: the working directory first. *)
Searched(p) ==
  <<<<>>>> \o FlattenSeq([i \in 1 .. Len(p) |-> LooksInto(p, i)])

(* The first of them that holds an executable, or none. *)
LookupAflExecutable(dirs) ==
  {Searched(path)[i] : i \in {i \in DOMAIN Searched(path) :
     Searched(path)[i] \in dirs /\ \A j \in 1 .. i - 1 : Searched(path)[j] \notin dirs}}

-----------------------------------------------------------------------------
(* The vector of arguments. *)
FuzzerName(i) == FuzzerNames[i + 1]
Empty         == "null"

Sanitized(o) == IF o.sanitized = "" THEN o.target[1] ELSE o.sanitized

FixedArgs(o) == <<"afl-fuzz", "-o", "findings", "-i", IF o.resume THEN "-" ELSE "seeds">>
ParallelSlots(o)  == IF o.n > 1 THEN <<Empty, Empty>> ELSE <<>>

InitialArgs(o) ==
  FixedArgs(o) \o ParallelSlots(o) \o o.aflArgs \o <<Sanitized(o)>> \o Tail(o.target)

parallelArg(o) == 6
execArg(o)     == 5 + Len(ParallelSlots(o)) + Len(o.aflArgs) + 1

-----------------------------------------------------------------------------
Start ==
  /\ command = "fuzz" /\ pc = "start"
  /\ \E o \in FuzzOptions : opts' = o
  /\ installed' \in Installations
  /\ path' \in SearchPaths
  /\ UNCHANGED <<afl, aflArgs, next, ok, children>>
  /\ Goto("lookup")

(* --afl names the executable, or it is looked up, or the command gives up. *)
Locate ==
  /\ command = "fuzz" /\ pc = "lookup"
  /\ LET found == LookupAflExecutable(installed)
     IN  \/ opts.afl = "" /\ found = {} /\ Exit(1) /\ UNCHANGED <<afl, aflArgs>>
         \/ /\ afl' \in IF opts.afl = "" THEN found ELSE {<<>>}
            /\ aflArgs' = InitialArgs(opts)
            /\ Goto("launch")
  /\ UNCHANGED <<rigid, next, ok, children>>

(* The arguments of instance i, written into the shared vector. *)
SlotsFilled(i) ==
  IF opts.n = 1 THEN aflArgs
  ELSE [aflArgs EXCEPT ![parallelArg(opts)] = IF i = 0 THEN MasterFlag ELSE SecondaryFlag,
                       ![parallelArg(opts) + 1] = FuzzerName(i)]

(* The first instance runs the sanitized target, the others the plain one. *)
NextTarget(args, i) == IF i = 0 THEN [args EXCEPT ![execArg(opts)] = opts.target[1]] ELSE args

(* Mutant: the target is exchanged before the launch. *)
LaunchPlainFirst ==
  /\ command = "fuzz" /\ pc = "launch" /\ next < opts.n
  /\ aflArgs' = NextTarget(SlotsFilled(next), next)
  /\ next' = next + 1
  /\ children' = IF opts.dry THEN children ELSE Append(children, [argv |-> aflArgs', alive |-> TRUE])
  /\ Goto("launch")
  /\ UNCHANGED <<rigid, afl, ok>>

(* One round of the launch loop: execve in the child fails or not, the parent
   cannot tell; it goes on as soon as fork has returned. *)
Launch ==
  /\ command = "fuzz" /\ pc = "launch" /\ next < opts.n
  /\ aflArgs' = NextTarget(SlotsFilled(next), next)
  /\ next' = next + 1
  /\ children' = IF opts.dry THEN children
                 ELSE Append(children, [argv |-> SlotsFilled(next), alive |-> TRUE])
  /\ Goto("launch")
  /\ UNCHANGED <<rigid, afl, ok>>

(* fork fails: the command exits, the instances it has started go on. *)
LaunchFails ==
  /\ command = "fuzz" /\ pc = "launch" /\ next < opts.n /\ ~opts.dry
  /\ Exit(1)
  /\ UNCHANGED fuzzVars

Launched ==
  /\ command = "fuzz" /\ pc = "launch" /\ next = opts.n
  /\ next' = 0
  /\ IF opts.dry THEN Exit(0) ELSE Goto("wait")
  /\ UNCHANGED <<rigid, afl, aflArgs, ok, children>>

(* Mutant: waitpid is called for the same instance again. *)
WaitForFirstChild ==
  /\ command = "fuzz" /\ pc = "wait" /\ next < Len(children)
  /\ ~children[next + 1].alive
  /\ Goto("wait")
  /\ UNCHANGED fuzzVars

(* waitpid returns when the instance has ended ... *)
WaitForChild ==
  /\ command = "fuzz" /\ pc = "wait" /\ next < Len(children)
  /\ ~children[next + 1].alive
  /\ next' = next + 1
  /\ Goto("wait")
  /\ UNCHANGED <<rigid, afl, aflArgs, ok, children>>

(* ... or fails; the status printed then is uninitialised, and only printed. *)
WaitpidFailed ==
  /\ command = "fuzz" /\ pc = "wait" /\ next < Len(children)
  /\ ok' = FALSE
  /\ next' = next + 1
  /\ Goto("wait")
  /\ UNCHANGED <<rigid, afl, aflArgs, children>>

Finished ==
  /\ command = "fuzz" /\ pc = "wait" /\ next = Len(children)
  /\ Exit(IF ok THEN 0 ELSE 1)
  /\ UNCHANGED fuzzVars

(* External: an instance ends, whether afl-fuzz or the execve before it. *)
InstanceEnds(k) ==
  /\ children[k].alive
  /\ children' = [children EXCEPT ![k].alive = FALSE]
  /\ UNCHANGED <<processVars, rigid, afl, aflArgs, next, ok>>

FuzzInit ==
  /\ opts = CHOOSE o \in FuzzOptions : TRUE
  /\ installed = {}
  /\ path = <<>>
  /\ afl = <<>>
  /\ aflArgs = <<>>
  /\ next = 0
  /\ ok = TRUE
  /\ children = <<>>

FuzzExecute == Start \/ Locate \/ Launch \/ Launched \/ WaitForChild \/ Finished

FuzzNext ==
  \/ FuzzExecute
  \/ LaunchFails
  \/ WaitpidFailed
  \/ \E k \in DOMAIN children : InstanceEnds(k)

-----------------------------------------------------------------------------
(* However the arguments are laid out, the vector the instances share gives each
   of them its own role: with several, the first is the only main one, all have
   different names, and only the first fuzzes the sanitized build; a single one
   gets no role at all.  None is started without an executable.  And a command
   that reports success without --dry has started every instance and seen all of
   them end. *)
Argument(k) == children[k].argv
Flags(k)    == {i \in DOMAIN Argument(k) : Argument(k)[i] \in {MasterFlag, SecondaryFlag}}
Program(k)  == Argument(k)[Len(Argument(k)) - Len(opts.target) + 1]

FleetAsConfigured ==
  /\ children # <<>> /\ opts.afl = "" => afl \in installed
  /\ \A k \in DOMAIN children :
       /\ Program(k) = IF k = 1 THEN Sanitized(opts) ELSE opts.target[1]
       /\ opts.n = 1 => Flags(k) = {}
       /\ opts.n > 1 => \E i \in Flags(k) :
            /\ Flags(k) = {i}
            /\ Argument(k)[i] = IF k = 1 THEN MasterFlag ELSE SecondaryFlag
            /\ \A m \in DOMAIN children \ {k} : Argument(m)[i + 1] # Argument(k)[i + 1]
  /\ command = "fuzz" /\ pc = "over" /\ exitCode = 0 /\ ~opts.dry =>
       /\ Len(children) = opts.n
       /\ \A k \in DOMAIN children : ~children[k].alive
=============================================================================
