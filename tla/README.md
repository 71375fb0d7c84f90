# TLA+ models of CAF

CAF fuzzes the APIs of JavaScript engines. A *test case* is a sequence of calls
to functions of the target; an operand of a call is a scalar, an array, or a
*placeholder* that stands for the return value of another call. The fuzzer
(`afl-fuzz` with CAF's custom mutator library) reads a test case from a file,
mutates it, writes it back, and turns it into a JavaScript program; the target
runs that program, or parses the binary form itself. This directory models the
parts of CAF that have state worth reasoning about, checks the models with TLC
and proves the central properties with TLAPS. Paths below are relative to the
repository; positions in the models count from 1 (position i is call index
i - 1 of the code).

## Inventory

| Component | State | Operations | Talks to | What makes it correct |
|---|---|---|---|---|
| Mutator and generator (`src/Fuzzer/TestCaseMutator.cpp`, `TestCaseGenerator.cpp`, `TestCase.h`, `FunctionCall.h`, `Value.h`) | calls of a test case, arrays shared by pointer, name of the last mutator | add / remove a call, mutate `this`, constructor flag and arguments, mutate inside arrays, renumber placeholders | asks the pool for values, the store for callees | a placeholder always refers to an earlier call and keeps referring to the same call; shared and cyclic arrays are renumbered once; sizes and nesting stay bounded |
| Object pool (`ObjectPool.cpp`) | interned strings, small integers, functions, placeholders, special floats; all arrays | get or create, select, clear | owned by the session, used by generator, mutator, deserializer | one object per interned value, the value asked for is the value returned, no dangling pointers after `clear` |
| Serializer, deserializer (`TestCaseSerializer.cpp`, `TestCaseDeserializer.cpp`), target's `TestCaseParser.h`, CLI's `TestCaseDumper.cpp` | tables that number arrays and return values | write, read, parse, dump | streams, pool, target's value factory | all number alike; reading what was written gives an isomorphic test case; the target, which checks little of what it reads, makes calls with complete arrays only |
| AFL library (`AFLExport.cpp`) | store, shared static buffer | `afl_custom_mutator`, `afl_pre_save_handler` | everything above | the result fits AFL's buffer; the returned pointer is valid while AFL uses it |
| CAF store (`CAFStore.cpp`), target's `FunctionDatabase.h` | a trie of API names with numbered entries; the target's trie of engine objects | load, add a function, select, populate, look up | generator, synthesis, target | index and trie agree; every entry knows the functions below it; the target knows every function of the store, and as the same one |
| Synthesis (`SynthesisBuilder.cpp`, `JavaScriptSynthesisBuilder.cpp`, `NodejsSynthesisBuilder.cpp`) | variables assigned so far | emit definitions, calls, fix-ups of cyclic arrays | store, test case | definition before use, including cyclic arrays |
| Browser host (`src/BrowserHost/main.cpp`) | pending children; the kernel keeps the tracees' states | the wait/ptrace loop | kernel, target processes | follows every process, forgets none, leaves with the master and takes the rest along |
| CLI `fuzz`, `calibrate`, `gen`, `synthesis` (`src/CLI`) | options, the argument vector the instances share, child processes, files | launch AFL, run the target on every test case, generate seeds, write scripts | AFL, target, file system | every instance gets its own role and is waited for, no run executes another test case's code, every output is found under the right name |
| CLI `show`, `stat`, dumper, printer | the numbers the dumper gives | output | store, deserializer | the listing has the numbers of the file |
| Infrastructure headers | streams, optional, either, random | - | everyone | short reads are noticed |
| `src/Scripts/ExtractAPI.js` | work list of a traversal | breadth-first search, filter | JavaScript runtime; the list of names goes to the store | finds each function once; its name leads back to it |
| Extractor (`src/Extractor`) | the API functions of a module | collect, number, write the store | LLVM, instrumentor | IDs of the store are those the generated code dispatches on |
| LLVM pass (`src/LLVMPass`) | constructors, APIs, callback groups; signature IDs and callback functions of the store being made | populate, `Freeze` | LLVM, common generator | each signature one ID, callback IDs lead to functions of that signature, every type needed is there |
| Instrumentor (`src/Instrumentor`) and the programs it generates | the generated program's object list, stack and input | read a test case, make its values, call the functions | `caflib.h`, the functions of the target | objects get the numbers a test case counts on; no input keeps the program from ending |
| Compiler wrappers (`src/CtorWrapper`, ...), test case extractor | none that outlives a statement | rewrite arguments, print text | Clang | - |

What is hard here: renumbering references in place across arrays that several
calls share or that contain themselves; several independent readers and writers
of one numbering; the order in which the kernel reports fork events, stops and
deaths to the browser host while processes can be killed at any moment; commands
that reuse one argument vector, one script and one set of names for several
processes or files while any system call may fail; generated programs that build
recursive types from an input which may end anywhere. The
list of hazards, each at its line and with the properties that cover it, is in
`PROJECT.json`.

## Modules

| Module | Models | Role |
|---|---|---|
| `CallRefs` | which calls each call refers to | abstract specification of mutation |
| `CallRefs_proofs` | - | TLAPS proofs about `CallRefs` |
| `TestCaseMutator` | all of `TestCaseMutator.cpp`, the generator it calls, save and load | implements `CallRefs` |
| `TestCaseMutator_proofs` | - | TLAPS proofs about `TestCaseMutator`, with the refinement |
| `ObjectPool` | all of `ObjectPool.cpp` and the memory it manages | component |
| `ObjectPool_proofs` | - | TLAPS proofs about `ObjectPool` |
| `BrowserHost` | `BrowserHost/main.cpp` and the kernel it relies on | component |
| `BrowserHost_proofs` | - | TLAPS proofs about `BrowserHost` |
| `TestCaseSerializer`, `TestCaseDeserializer`, `TestCaseDumper` | the writer, the fuzzer's reader, the listing | components of `WireFormat` |
| `Synthesis` | the synthesiser and the builders for JavaScript and Node.js | component of `WireFormat` |
| `WireFormat` | a test case that is written, read back, listed, and synthesised by the one that read it | composition |
| `TestCaseParser` | the target's reader, which makes the calls it reads | component of `Target` |
| `Target` | `Target::Run`: the reader on a file of the writer, from its start | composition |
| `WireFormatInvariants` | - | the invariants of the writer and its readers, stated for the proofs |
| `WireFormat_proofs` | - | TLAPS proofs of them, and what follows about the writer in `WireFormat`, the fuzzer's reader, the listing, the synthesis and the target |
| `ExtractAPI`, `CAFStore`, `FunctionDatabase` | the search for functions, the fuzzer's store, the target's map from ID to function | components of `ApiDatabase` |
| `ApiDatabase` | the list of names on its way from the engine through store and target back to the engine | composition |
| `ApiDatabase_proofs` | - | TLAPS proofs about the store, and about the whole of `ApiDatabase` |
| `CommandLine` | `main` and the choice of a command | base of the commands |
| `FuzzCommand`, `CalibrateCommand`, `GenerateTestCaseCommand`, `SynthesisCommand` | `Execute` of the command of that name | components of `Commands` |
| `Commands` | one run of `caf` | composition |
| `Commands_proofs` | - | TLAPS proofs about `calibrate` and `gen` |
| `LLVMProgram` | the modules, functions and types the passes look at | base of the next three |
| `Extractor`, `SymbolTable` | the extractor pass; `CAFDriver`'s table and `Freeze` | components of `Instrumented` |
| `ObjectList` | `caflib.h` and the generated `main` | base of the drivers |
| `NodejsDriver`, `CommonDriver` | the programs the two generators emit | components of `Instrumented` |
| `Instrumented` | a module on its way to a target that reads test cases | composition |
| `Instrumented_proofs` | - | TLAPS proofs about the symbol table and both drivers |
| `MCMutator`, `MCObjectPool`, `MCBrowserHost`, `MCWireFormat`, `MCTarget`, `MCApiDatabase`, `MCCommands`, `MCInstrumented` | - | constants and seeds for TLC |

Definitions whose comment says *mutant* are deliberately wrong versions of the
definition that follows (a dropped guard, an off-by-one, a missing call). No
specification uses them. `PROJECT.json` says which property notices which: each
property of each passing run is violated once the mutant replaces the original.

### CallRefs: what a mutation promises

`callees[i]` is the function call i calls and `refs[i]` the set of calls whose
results it uses. `Insert(k, f, new)`: a new call of f appears and every other
call keeps referring to the calls it referred to. `Remove(k, fill)`: a call goes, only its users are given something
else. `Rewrite(i, new)`: one call's operands change and nobody else's. The
callees tell calls apart: without them a reference captured by the wrong call
could look like an insertion at another position. All
users of a test case resolve a placeholder against the calls made before, so
`BackwardRefs` is the property everything downstream relies on.

### TestCaseMutator: how the code does it

State: `calls` (`TestCase::_calls`, with `this`, the constructor flag and the
arguments), `heap` (the elements of each array in use; a value that is an array
is its address, as the code's `ArrayValue *`), `lastMutator`. Scalars are one
model value `Scalar`: undefined, null, booleans, strings, numbers and functions
differ in nothing a reference, a size or a nesting level depends on. The
callee of a call is kept, chosen from `Functions`.

- *Generation.* `GenerateValue(h, i)` is the set of values
  `TestCaseGenerator::GenerateValue` can make for call i: a scalar, a
  placeholder to an earlier call (none for the first call), or a tree of new
  arrays at most `MaxDepth - 1` levels deep. `pool.SelectValue` selects from
  `_values`, which holds strings, integers and floats only (arrays and
  placeholders are kept in vectors of their own), so it gives a scalar.
- *Renumbering.* `PlaceholderFixer` walks the operands of the calls from a
  start position and rewrites slots in place, each array once. `FixedSlots` is
  the set of slots it meets, `FixedFrom` the call from which it first meets a
  slot, `FixAdded` and `FixRemoved` the two fixers. A placeholder to a removed
  call becomes a value generated for that call, one per slot.
- *Mutation of values.* `MutateElement` descends along a path of element
  positions; `MutateValue` chooses the path, `MutateHere` what happens at its
  end, `CopyPath` copies the arrays along it. `PushElement`, `RemoveElement`
  and `ExchangeElements` make new arrays, as in the code.
- *Sessions.* AFL makes a new pool and mutator for each call; `SaveAndLoad` is
  the end of one call of `afl_custom_mutator` and the start of the next: the
  test case must be serializable (the writer's table throws on a placeholder to
  a call that is not written yet), `this` that was not set comes back as
  undefined, the mutator's name is forgotten, sharing and cycles survive. It
  may happen after every mutation and need not, so both a chain of mutations in
  memory and AFL's mutate-and-save are covered.
- Arrays that nothing refers to are dropped from `heap` (`Become`); the code
  keeps them in the pool, where nothing can observe them.

`EditsReferences` is the refinement: `RefsOf(calls, heap)`, the placeholders
each call can reach, behaves as `CallRefs`. `TreesStayTrees` (no step gives an
array a second place when none had one) and `CyclesOnlyRead` (no step makes the
first cycle; cycles come from files) are about the shape of arrays. Arrays may nest
deeper than `MaxDepth`, which the comment of the option gives for *generated*
values: `PushElement` at level `MaxDepth` adds an array of `MaxDepth - 1` levels.

### ObjectPool: one object per value, and who deletes it

Memory is explicit. `owner[a]` says what owns the object at address a: nobody
(the address is free), one of the pool's slots (`_undef`, `_nan`, ...), its
vector `_values`, or its vector of arrays. `value[a]` is what the object stands
for. `strToValue` and `intTable` are the pool's non-owning tables; `slots`
holds the single objects, one for each function and placeholder index too. An
address freed by `clear` may be used for the next object, so a table entry that
outlives its object is noticed. `held` is the client's side: the pointers in
the test case being built, each with the value that was asked for.

`SizeT` and `InTable` keep the arithmetic of the integer table: the bias is
added in `int`, a negative sum becomes a large `size_t`, and the comparison
with the table's size excludes both ends. `Clear` is possible when the client
holds nothing, because the only caller (`GenerateTestCaseCommand.cpp:109`)
calls it between two test cases.

`HeldIsAsked` says a held pointer leads to a live object of the value asked for,
`OneObject` that an interned value has one object however it was obtained.

`clear` is documented to keep the strings and integers of the two tables
(`ObjectPool.h:160`). It deletes them and empties the tables. Objects and
tables go together, so no pointer dangles.

### WireFormat: one numbering, three programs

A file is a sequence of fields. Arrays are numbered where they are met first,
the result of a call when the call is complete, both from one counter, and
nothing in the file says so: the deserializer and the dumper count for themselves,
and so does the target's parser (below). Sharing and cycles survive only if they
agree.

- *Recursion as a list.* `Serialize` of an array recurses into its elements. The
  model keeps what is still to be done as a sequence, the next item first:
  `todo` (writer), `expect` (deserializer), `toDump` (dumper), `expected` (the
  target's parser). An action takes the first item and puts what it leads to in its
  place, which is the order of the recursion.
- *Tokens.* A field is a token: `word` (u32), `flag` (u8), `scalar`, `array`
  with its length, `reference` with its number. A scalar is one token with its
  kind and payload. Bytes, and a file of the fuzzer that is cut off, are left out: both
  need the inside of a token.
- *Lockstep.* A reader depends only on tokens written before, so a token is read
  when it has been written (`unread`; `ReadOn` in `WireFormat`, `WriteAhead` in `Target`).
  This gives what reading a whole file gives, with far fewer states, and allows
  invariants that compare writer and reader in the middle of a file. In
  `WireFormat` a reader that meets a token it does not expect cannot go on, and the checks for
  deadlock would notice.
- *Writer* (`TestCaseSerializer`): `valueIndexes`, `retIndexes` and `nextIndex`
  are the tables of `SerializationContext`. An array is numbered before its
  elements. A placeholder whose result has no number blocks the writer; in the
  code `at()` throws.
- *Deserializer*: `pool` and `retValueIndex` of `DeserializationContext`, `loaded`
  the test case so far. Arrays it creates are called by their number.
- *Dumper*: runs once the file is complete; `returned` and `references` record
  what it prints after RET and REF.

`RoundTrip` and `NumbersOfTheFile` compare each program with the test case or the
file. `ResultsNumbered` is the writer's own danger: an array shared by several
calls is written with the first of them, so what it holds must suit that one.

### Target: a reader that is out of step

`Target::Run` hands the parser standard input as it is. A file starts with the
root entry, `ParseAndRun` with the number of calls, so the target takes the root for the
number of calls, that number for the first callee, and the next word for the kind of
a value. The model follows it there.

- *State*: `values` is `_pool`, `now` the call being read with the arrays made,
  `invoked` the calls made, `expected` what is still to be read.
- *Astray.* A token that is what the next field is, is read as it. At the first that
  is not, or at the end of the file, `GoAstray` sets `astray`, and from then on a field
  can be anything: bytes are taken for what they are not, and beyond the end `Read` leaves the
  buffer as it was, which nothing initialised. `Misread` are the numbers that may come out.
- *Ends.* `Fail` ends the process: a function that is not in the database (`Known`), a
  number `at()` throws for, a kind of value that does not exist, a length there is
  no memory for.
- *Called functions* are not modelled: neither what they do to the arrays they
  get, nor whether they return. `Target` has no fairness, and nothing is claimed
  about its progress.

What can be said of such a target is what protects the engine: `ArraysComplete` is about
the moment of a call. The parser enters an array in its pool before its elements are
read, and no call may see it like that. `OnlyEarlierResults` is about all calls made: what a
call can reach, through arrays that may contain each other, are scalars and results of
earlier calls, and no place of the pool that was not filled. `AllCallsMade` is what the
format's documentation makes one expect, and does not hold (see below).

### Synthesis: the program and its meaning

`afl_pre_save_handler` reads a test case and hands the engine a JavaScript program
instead; `Synthesis` starts from `loaded`, what the deserializer has read.
`toSynthesise` is the list of what is left, as above, with the place a value goes
to: the call at hand or the array in some variable. `variableOf`, `retVariables`
and `varId` are the builder's tables, `imported` the modules the Node.js builder
has required.

What a program should do is defined by running it. The external part is a small
engine, `js`: names that are declared, the values of variables, the elements of
arrays. Each statement takes effect on it when it is written, which replaces the
text of the program. `ProgramRuns` says no name is declared twice (one such
declaration makes an engine reject the whole program) or used before;
`OperandsNamed` that the variables in a call statement have the values of the
test case's operands, with one variable per array; `ArraysBuilt` that arrays are
complete when a call is made, cycles included. `ArgumentsPassed` says a call gets
the arguments its statement names, and does not hold (see below). What the
target's functions do to arrays, and the text of literals, is left out.

`WireFormat` runs the dumper and then the synthesiser after the file has been
written and read; neither sees the other.

### ApiDatabase: one list of names, three programs

A function of the target has no number of its own. `ExtractAPI.js` searches the
engine and prints the names of the functions it found, `CAFStore` numbers the
names in that order, and the target's `FunctionDatabase` walks along each name in
its own engine to find the function again. The generator selects IDs from the
store, so `CalleesResolve` is what makes a test case mean anything: every function
it can select is known to the target, and is the function that was found.

- *Strings.* All three programs look at names only to join and split them at dots,
  so a string is the sequence of its parts: `a.b` is `<<"a", "b">>`, `.js` is
  `<<"", "js">>`, the empty string `<<"">>`. `PathOf` is the loop of `AddFunction` and
  `GetNode`, which drops the nothing after a final dot. `Dangerous` holds the
  parts the filter rejects (the lower-casing and substring tests on a part are
  abstracted).
- *Engine.* `graph` is external: objects, which of them are functions, and the
  value of each property. The modules of Node.js are mounted on the global
  object before the search (lines 92-147 of the script), so they are part of it. Values that
  lead to no function (numbers, strings, getters that throw) are `Absent`. The
  engine of the target is the one that was searched; that its own startup is the
  same is assumed.
- *Search* (`ExtractAPI`): `queue`, `visited` and the object at hand with the names
  `left`; `Skipped` is the tests of the loop, `Join` the way names are put
  together. `listed` keeps each function beside its name for the properties;
  only names leave the script.
- *Store* (`CAFStore`): an entry is called by its path. `entries` is the order of
  creation, by which a test case names its root entry; `functions`,
  `descendents` and `index` are the fields of the code. One `Load` is one call of
  `AddFunction`. A store may also come from elsewhere (`ListInit`, any JSON array
  of strings): `visited` is empty then, and `CalleesResolve` promises nothing.
- *Target* (`FunctionDatabase`): `trie` keeps values by path, `Populate` takes any
  next ID, as the iterator of a hash table does, `GetNode` is one step of the walk.
  A name that does not resolve ends the process.

`EveryFunctionOnce` compares the search with `Reachable`, the least closed set.
`IndexAndTreeAgree` and `DescendentsExact` are the store's, and hold for any list.
A name that comes twice replaces the function of its entry; the earlier ID then
leads to the later one, and the target never hears of it. The documentation of
`AddFunction` says that an ID out of order fails an assertion; there is no such
assertion, and the only caller counts.

### BrowserHost: the tracer and the kernel

`pc` is the host's next call; each `wait`, `PTRACE_SETOPTIONS`,
`PTRACE_GETEVENTMSG` and `PTRACE_CONT` is one action, because processes run and
die in between. `pending` is `pendingChildren`, `cur` the pid of the last
`wait`. A `ptrace` call on a process that is not stopped any more fails, and
`call_ptrace` exits (`PtraceFails`, then `Leave`, where the kernel applies
`PTRACE_O_EXITKILL`). The kernel's side is external and modelled from ptrace's
documented behaviour as far as the host depends on it: a process is running,
stopped with something to report, dead and not yet waited for, or gone; `Fork`
by a process with the options stops parent and child; `Kill` ends a process
even while it is stopped. `orderly`, which never changes, tells two kinds of
execution apart: in an orderly one a fork event is reported before the first stop
of the new child and nobody kills a single process but the master. Linux promises
neither, so every property but `OrderlyLeavesWithMaster` and `PendingNotStarted` is
about both kinds.

### Commands: one run of `caf`

`command`, `pc` and `exitCode` are the process: `main` chooses a command
(`CommandLine`), a step of its `Execute` is one action, and the process is over when
the exit code is there. Each system call that may fail has an outcome in which it
does: `fork`, `waitpid`, opening and writing files, making directories. What a
command starts ends when it likes (`InstanceEnds`, `ProgramEnds`). The values of
options, `PATH` and the files that are there come from constants.

- *`fuzz`.* `aflArgs` is the one vector of arguments of all instances; `SlotsFilled`
  and `NextTarget` overwrite the slots of role, name and executable between two
  launches, at the indices the code computes from the options. A failing `fork`
  ends the command and leaves what is running. `Searched` is the order in
  which the directories of `PATH` are looked into. The loop steps over a
  character before it looks at it, so a first `/` is lost and an absolute directory
  becomes a relative one (`Tail`), which `Whole` and `LooksInto` work out. Nothing
  in the repository says what the search should find, so this has no property.
- *`calibrate`.* One script file is truncated, written and executed for each test
  case; `script` is what is in it, `code` what should be. A write that fails is not
  noticed. `printed` and `signalCounter` are the result.
- *`gen`.* `seeds` is the output directory, which may hold the seeds of an
  earlier command. Content and writing of a test case are `TestCaseMutator` and
  `WireFormat`; of a seed only its root entry is kept here.
- *`synthesis`.* `files` is the file system. Scripts go under the last
  name of the path of their test case, so two may share one, and one may replace
  a test case that is still to be read: `ScriptsByName` says exactly what is
  found where.

`show` and `stat` open a file, print and end in one step; they are not in
`Commands`.

### Instrumented: from a module to a program that reads test cases

`target` says what is built. For Node.js the extractor pass (`Extractor`) collects
the functions that take a `FunctionCallbackInfo`, numbers them and generates
`__caf_main` (`NodejsDriver`). `CAFDriver` fills its table and freezes it
(`SymbolTable`), and the common generator makes a `main` from it (`CommonDriver`).
`status` tells compiling, running and the two ends apart.

- *What the build contains.* At this commit `src/src/CMakeLists.txt` has the
  extractor, the instrumentor and the LLVM pass commented out; the call of
  the generator is commented out too (`CAFDriver.cpp:347`), and the `common` target of
  `InstrumentorPass` generates nothing. `Link` joins table and generator as both
  are written. `src/src/Instrumentor/common/CAFCodeGenerator.cpp` is an identical copy.
  The interface through which the generator looks up type and API IDs is not in
  the repository; it is assumed to know all of them.
- *Freeze.* The recursion of `AddLLVMTypeToStore` is the list `todo`, the
  innermost call first. A signature has its ID before the types of its parameters are
  added and its callback candidates after; what is added in between may be other
  signatures with their candidates, or the same one again.
- *Generated programs.* The IR is modelled by what it does when it runs. `frames`
  is the stack of the generated functions, `objects` the list of `caflib.h`, `input`
  the number of fields left. A field read beyond the end is -1; -1 also stands for
  any integer that is negative or too large. A value that is read from an address
  which may not be readable may end the process (`Crash`), and so may a function of
  the target.
- *Format.* The Node.js program reads an older format than
  the serializer of this commit writes (no root entry, no constructor flag), so it is
  not compared with `WireFormat`. `Numbering` says instead in which
  order it numbers, which is what a writer for it has to do: an array after its
  elements. The common program numbers an object before its parts.
- *Common program.* `ctor` marks the call of a constructor, whose first argument is
  not saved; `state` of an object says that it is complete, under construction, or
  an uninitialised pointer (`wild`). Lines 997 to 1320 of the generator
  (`AllocaStructValue` to `AllocaValueOfType`) are never called and are left out.

## Runs

| Run | Instance | Shows |
|---|---|---|
| `mutator_calls` | up to 3 calls of 2 functions, 1 argument, arrays of 1 element; from one generated call, from a file in which two calls share an array, from a file with two arrays that contain each other, one of them next to a reference | sizes (`TypeOK`), `BackwardRefs`, `TreesStayTrees`, `CyclesOnlyRead`, refinement of `CallRefs` |
| `pool` | 4 addresses, one or two values of each kind, integers -4 .. 3 | `TypeOK`, `HeldIsAsked`, `OneObject` |
| `pool_infinities` | both infinities are asked for | *violated*: `HeldIsAsked` |
| `wire` | 5010 test cases: 2 calls, 2 arrays of up to 2 elements, root entries 0 and 3 | `ResultsNumbered`, `EveryTokenUnderstood`, `RoundTrip`, `NumbersOfTheFile`, `ArraysShownByNumber`, `ProgramRuns`, `OperandsNamed`, `ArraysBuilt` |
| `target` | 4 files: two calls that share an array which contains itself, with root 0, 1 and 2, and one without calls | `ArraysComplete`, `OnlyEarlierResults` |
| `target_root` | as `target` | *violated*: `AllCallsMade` |
| `synthesis_arguments` | as `wire` | *violated*: `ArgumentsPassed` |
| `host_any_order` | 3 processes, all killable, orderly executions and others, 2 signals | `TypeOK`, `NothingEscapes`, `NoneForgotten`, `SomeoneToWaitFor`, `PendingNotStarted`, `OrderlyLeavesWithMaster`, liveness `EveryStopAnswered`, `HostFollowsMaster` |
| `host_late_event` | 3 processes, nobody killed, events in any order | *violated*: `LeavesWithMaster` |
| `api` | 5305 engines of 3 objects and up to 5 property names; 259 lists of up to 3 names | `TypeOK`, `EveryFunctionOnce`, `IndexAndTreeAgree`, `DescendentsExact`, `CalleesResolve` |
| `commands` | each command with the command lines and files of `MCCommands`, up to 3 fuzzer instances, any system call failing | `FleetAsConfigured`, `CalibrationExact`, `SeedsAsAsked`, `ScriptsByName`, liveness `CommandEnds` |
| `instrumented` | 4 modules over 8 functions and 23 types, 3 targets, inputs of up to 10 fields, a stack of 5 calls | `Candidates`, `Numbering`, liveness `Terminates` |

Bounds and why they are enough:

- `MaxCalls` 3 has a call before, at and after the position of an insertion or
  removal, and a user of each.
- `MaxTree` (arrays in one generated value) and `MaxLive` (arrays in a test
  case between two mutations) are bounds of the model, not of the code. A
  behaviour that would exceed `MaxLive` is cut off, unless the session began with
  more: the seed with a cycle has two arrays, the smallest number with an array
  inside another one. A third address is what one mutation can need.
- `GeneratedArguments` is the literal 5 of `GenerateArgumentsCount`, 1 in the run.
- In the pool's runs `int` has 3 bits and `size_t` 4: the table holds -1, 0 and
  1 (`Bias` 1, `TableSize` 3), so there are integers outside it on both sides,
  a negative sum that must not be taken for an index, and a sum that overflows
  `int`. Four addresses are enough for every pair of values to meet, before and
  after a `clear`.
- `MCWireFormat` takes every pair of contents of the two arrays, of length 0 to 2,
  from a scalar, a reference to the first result and the arrays themselves, so
  that an array may be empty, contain itself, contain the other, or be
  contained twice; callees and function values of a module and of none; calls
  without `this`, with a scalar, an array or a result as
  `this`, and with the same array as two arguments. What is excluded is what
  `RefersBackward` excludes. Two calls suffice for one result that is numbered
  between arrays of the call before and after.
- `MCTarget`: the root is read as the number of calls, so three roots make the target
  read none, one and two calls, and a file without calls is at its end at once. From the
  first value on anything may follow (`astray`), so further files add nothing. `Misread` 0
  and 2 gives empty arrays and such of two elements, calls with two arguments, references to
  the first and to a missing entry of the pool; `Known` {2} makes some callees known and some
  not. `MaxValues` 2 bounds the arrays in the pool (results are not bounded by it): an
  array inside another or inside itself, twice.
- The engines of `MCApiDatabase` have the global object and two more, functions or
  not, whose properties lead to any of the three or nowhere: cycles, several
  names of one function, a function reached through another one. Further
  engines have a name the filter drops, a name the search leaves out, and a
  dangerous name above one with a dot. The lists have names that go
  through others, that end in a dot, the empty one, and repetitions.
- `MCCommands`: `MaxInstances` 3 is a main instance and two others, so that a slot
  is overwritten twice; with and without a sanitized build, AFL arguments, an
  executable that is given, `--dry` and `--resume`. Values of `PATH` have empty
  elements, short ones and absolute ones in each position that `Whole` tells apart. Lists of files
  for `calibrate` have a repetition, `README.txt` and a file that cannot be read, each
  between others. The seeds an earlier command left include one inside and one beyond what
  is generated. For `synthesis` two test cases share a name, outputs may be
  directories, test cases or neither.
- `MCInstrumented`: a list type, a struct whose constructor takes a callback of
  that struct, a callback no function has the signature of, a vector, an
  unnamed struct, a declaration and an intrinsic. `MaxInput` 10 fields make an
  API call with nested objects and leave some for the next one; `StackSize` 5 is
  less than a list of two nodes needs, so the stack overflows as well;
  `MaxCount` 2 has an ID or size inside and beyond each list.
- `Procs` 3: a master, a child, and a child or grandchild. `MaxSignals` 2
  bounds the signals delivered to the target.

`VIEW References` in the mutator's run identifies states that differ only in the
constructor flags and the last mutator's name; callees and operands stay. No guard and no value of `calls`
or `heap` depends on these, and the properties of the run do not mention
them beyond their type. `SYMMETRY` permutes array addresses and functions (addresses of
objects in the pool's runs): specifications and properties only compare them. (`CHOOSE` picks particular unused addresses; which
ones makes no difference up to a permutation.) `CHECK_DEADLOCK FALSE` is set where the program ends: in
the host's runs, `api`, `commands` and `instrumented`.

Fairness: of the browser host `WF_vars(HostStep)`, and only that. The host is a loop in a process of
its own that blocks in `wait()` and nowhere else; while one of its steps is
enabled (something to report, or a call to make) it will take it. Nothing is
assumed of the target, which may run or hang for ever. `EveryStopAnswered`
holds although signals are unbounded in the code: the bound `MaxSignals` keeps
the state space finite, and `wait()` could starve one process in favour of
another only with an unbounded supply of signals, which is excluded here.
`Commands` has `WF_vars(Step)`: a command is a single thread that blocks in `waitpid`
and nowhere else. What it started need not end, and no system call need fail;
`CommandEnds` therefore speaks of behaviours in which again and again nothing runs.
`Instrumented` has `WF_vars(OwnNext)`: a compiler, and then a process with
one thread. `OwnNext` is every step but the one by which a function of the target, called
by the generated code, returns: such a function may block or loop for ever, and nothing
is assumed of it. `Terminates` therefore says that the program ends or is inside
such a function for good.

What the violated runs show (`findings` in `PROJECT.json` quotes the lines):

1. `host_late_event`: a fork event reported after the child's first stop leaves
   the child's pid in `pendingChildren` for good; when the child exits, the host
   takes the exit for a start, `PTRACE_SETOPTIONS` fails, and the host exits,
   which kills a target whose master is alive.
2. `pool_infinities`: `GetOrCreateFloatValue` keeps -infinity in the slot of
   +infinity, so whichever is asked for second comes back as the other one.
   `pool` asks for NaN and +infinity only, and `HeldIsAsked` holds there.
3. `target_root`: the format starts with the root entry index, which the
   serializer writes; `ParseAndRun` starts with the number of calls, and
   `Target::Run` gives it the stream as it is. With root entry 0 the target makes
   no call.
4. `synthesis_arguments`: with a receiver, and after a file has been read there
   always is one, a call becomes `f.apply(receiver, a1, ...)`, which takes the
   arguments from the elements of `a1`. No call of a synthesised program gets
   the arguments of the test case, except constructor calls and calls without
   arguments.

Three more observations have no run of their own. `AddLLVMTypeToStore` stores a struct and the
types its constructors need and never looks at the fields, so a type that is reached only
through a struct is missing from the store, where the comment (`SymbolTable.h:127`) promises
all reachable types; `Candidates` says which types are there, and fields are not among its reasons. The dumper prints a reference to a
result as `$` and the call's index (`TestCaseDumper.cpp:200`), while the results
themselves are listed with numbers they share with arrays; `ArraysShownByNumber`
therefore speaks of arrays only. `MutateThis` and `MutateArgument` do not record
their names, so `GetLastMutatorName` may name an earlier mutation.

## Proofs

`CallRefs_proofs` (hypotheses `MaxCallsAssumption`, `StartsAssumption`: the
test cases a session starts from refer backward only; `MCMutator` assumes both
for the seeds of its run, so TLC evaluates them):

- `TypeCorrect`, `ReferencesStayBackward`: `TypeOK` is inductive; `BackwardRefs`
  is inductive together with it. The argument is one lemma per operation:
  `ShiftUp` of an earlier position of the call before is earlier than the
  moved call, `ShiftDown` likewise once the removed position is taken out, and
  `fill` and `new` are earlier by the guards of `Next`.

By the refinement proved next, whatever is proved of `CallRefs` holds of the mutator.

`TestCaseMutator_proofs` (assumptions `SizesAssumption`; `ReferencesAssumption`: a
position, an array and the scalar are three different things, which the C++ types keep
apart, and there are finitely many addresses; `SeedsAssumption`: a session starts from
test cases that could be written to a file, so nothing dangles and references are
backward. Any options, functions, number of addresses and seeds, among them
test cases with shared and cyclic arrays):

- `SoundAlways`, the inductive invariant `Sound`: the sizes hold, nothing dangles
  (`Solid`), and each call uses earlier calls only (`Backward`). It gives
  `MutatorTypes` (`TypeOK`) and `PlaceholdersStayBackward` (`BackwardRefs`).
- `MutationEditsReferences` (`EditsReferences`): `Init` implies that of `CallRefs`, and each
  step from a `Sound` state is a step of `CallRefs` or changes no reference.
- `MutationMakesNoCycle` (`CyclesOnlyRead`): every lemma about a step also says that a
  heap without cycles (`Loopless`) has none afterwards.
- `TreesKept` (`TreesStayTrees`): a step that starts in a tree ends in one.

What a call uses is what a least closed set of arrays holds (`Reach`), so nothing
here is an induction along references: to show that something is
not reached a lemma gives a closed set without it (`ReachIsLeast`), and an operation that
leaves the reachable arrays alone leaves `Reach` alone (`ReachFrame`). `Usable(h, v, i)` is
such a set for a value call i may hold; the generator makes `Planted` arrays, which hold
no old one, the other mutators `Copied` ones, which may. `SaveAndLoad` and the mutators of
one call change one call's references (`EditsOne`), since no old array is written to.

The fixer is the hard part: it writes into arrays other calls share. `Written` says
what it leaves in each slot, `Rewired` that the slots it met hold what `val` says and
all else is as before. For insertion and removal alike, `Reassigned` says `val` renames what
a slot held by `f` (`ShiftUp`, `ShiftDown`), except that slots that held the removed call
(`hole`) hold something generated. A slot is filled for the call from which the fixer
first meets it (`FixedFrom`), and that is why what is put there suits every call that
uses the array. From `Fixing` follow what each call at or after the start uses (`LaterUses`), that
calls before it use what they used (`EarlierUses`), that the
arrays met hold values again (`FixedIsSolid`), and that no cycle appears
(`FixedLoopless`). `GenerateValues` is a recursive function; its
values follow from `Recursion`, as in `Instrumented_proofs`, by a smallest
counterexample.

`Tree` counts the places of each array, and no prover here counts through eight
mutators. So a tree is described by a function instead: `at[a]` is the one slot, of a call or
of an array, that holds `a` (`OnePlace`; `TreeHasPlaces` and `PlacesAreSole` lead from
the count to the function and back). An insertion or a removal moves calls, so the places move
with them (`MovedPlaces`), and the fixer exchanges what is in a slot but
leaves each array in its slot (`FixKeepsPlaces`). What is generated consists of new arrays,
each with its place (`Sprouted`). A mutation of an inner value copies the arrays on the
path to it: the copies have new places, what hangs on them moves to the copies, and
the old arrays of the path are in use no more (`Grafted`, by `WalkedPlaces` and
`PathGrafted`). They would be second places of what hangs on them; `Become` keeps the arrays in
use only, and `BecomesTree` needs one place for those alone (`Solely`). That is why
`TreesStayTrees` holds at all.

`ObjectPool_proofs` (assumptions `IntegersAssumption`, `KindsAssumption`; any
number of addresses, any width of integers and size of table):

- `TypeCorrect`, which includes that no access leaves the integer table.
- `InternedOnce` (`OneObject`) and, if not both infinities are asked for,
  `AnswersAreRight` (`HeldIsAsked`). What the client holds is not inductive: the
  next answer comes out of a table. The invariant `IInv` says that every slot
  and table entry leads to an object of its value owned by the right owner
  (`SlotsLead`, `StringsLead`, `IntegersLead`), and, because `SelectValue` hands
  out any object of `_values`, that every object of an interned value in
  `_values` is the one its table leads to (`ValuesFound`); `HeldFound` carries
  this to the client. `InTable` is injective by `IntegersAssumption`.

`BrowserHost_proofs` (assumption `HostAssumption`, any set of processes):

- `TypeCorrect`.
- `NothingEverEscapes`. `NothingEscapes` alone is not inductive: the invariant
  `Watched` adds that every live process but an unstarted master has the
  options, and that the master gets them before it first runs.
- `NoStopIsForgotten`. Inductive with `TypeOK`.
- `WaitHasAChild`, from `MasterAtEnd`: as long as the loop goes on the master is
  alive or dead and not yet reported.
- `OrderlyHostLeavesWithMaster` and `OrderlyPendingIsFresh`, for the executions in
  which `orderly` holds. The invariant `Fresh`
  says what each report means: a pending process is stopped and about to report
  its first stop, a process named in an unreported event is newborn, the process
  the host is working on is stopped unless it is the master.

`WireFormat_proofs`, about the writer (assumption `TestCasesAssumption`: references are
backward; any number of calls, any arrays, shared and cyclic in any way):

- `SerializerNeverThrows` (`ResultsNumbered`). The property speaks of the first
  item only; the invariant `InOrder` says of every item on the writer's list that
  each result it needs is numbered or will be by an item further to the front.
  What an array needs is given by `From`, a function that assigns to each array
  the first call that may use it: `RefersBackward` says one exists, and it covers
  cycles, where no recursion over elements would end. `Replaced` is the lemma
  about lists all actions share: the first item goes and items that need
  nothing more take its place. That readers and dumper leave the writer
  alone is part of the step from `Next`.

  The assumption is the mutator's `BackwardRefs` for what AFL writes back.

`WireFormat_proofs`, about the readers (also `TokensAssumption`: scalars and arrays are not
numbers of calls, and `Nothing` is no token, which keeps apart what the C++ types keep
apart; the same test cases):

- `ReaderUnderstands` (`EveryTokenUnderstood`) and `TestCasesSurvive` (`RoundTrip`), from
  `ReaderFollows`. The writer works off a list of items to write, the reader a list of
  fields to read, and neither list can be computed from the other: an array is one
  item for the writer until it is written, and its elements then come before
  everything else on both lists. `ReaderFollows` says where in the test case both
  are (`Within`: in call `d + 1`, `k` of its items done, these elements owed), what has been
  read up to there (`CallsRead`, `CallRead`), that the elements read and those still owed
  make up each array (`Elements`), and that the numbers on both sides name the same
  arrays and results (`Numbering`). A token on its way is one that takes the writer from a place
  like this to another (`Sent`). The writer numbers a result after it wrote the
  call, the reader before it reads the next, hence `CallClosed`. One lemma per kind of
  token says that it moves both to a matching place.
- `ShownNumbersLead` (`ArraysShownByNumber`), which needs only that the numbers of
  arrays are below `nextValue` and each belongs to one array.
- `DumperNumbersLikeTheFile` (`NumbersOfTheFile`). Writer and dumper each go through the test
  case in their own time, so neither is a fixed number of steps ahead; and the dumper
  skips what it does not show (sizes, flags, `this` that is undefined). `DumperFollows` keeps
  the writer's history: a run of stages, each the next of the one before (`Goes`), the
  last one where the writer is, and one of them where the dumper is: the same
  numbers given, and a list that is the dumper's once what is not shown is left out
  (`Thins`). The dumper takes the last such stage (`LastStage`), so that the writer's next
  item is the one at hand. When both lists are empty that stage is the last of the run.
- `ProgramsAlwaysRun`, `OperandsAlwaysNamed` and `ArraysAlwaysBuilt` (`ProgramRuns`,
  `OperandsNamed`, `ArraysBuilt`; also `ProgramsAssumption`: a name is in at most one
  module, and a module is not called like a numbered variable). The properties
  speak of the engine when a call is made; `SynthesisFollows` says what is still
  missing before. Variables made have the worth of their values (`Engine`), the statements
  so far are those of the first calls (`Returned`), and `toSynthesise` has `m` values and
  variables on their way, then the statement of the open call and the other calls
  (`WorkLeft`). Several arrays and the call may be waiting for values at once, one inside
  the other and, with cycles, each for another: for each of them what it has got and what is
  due to it in the list, next to each other and in order, make up its elements or
  operands (`Filled`, `Passed`, both by `Due`). `DueReplaced`, `DuePassed` and `DueTaken` say what
  becomes of `Due` when the first item is replaced, goes elsewhere, or
  arrives. Before a statement `m` is 0, so nothing is due any more (`DueDone`). That what was
  read can be synthesised at all follows from `TestCasesSurvive` (`ReadWhole`). TLC finds
  `SynthesisFollows` true on the test cases of `wire`.

`WireFormat_proofs`, about the target (assumption `ParserAssumption`: what may be misread
are numbers; any files, any database, any bytes once it is astray):

- `TargetArraysComplete` (`ArraysComplete`) and `TargetUsesEarlierResults`
  (`OnlyEarlierResults`), from `ParserSound`. What was read can be compared with nothing, so the
  invariant speaks of the parser alone. Elements to be read come before everything
  else on its list, and those of one array next to each other, as many as
  the array lacks (`Block`, `Owing`); at a call no element is on the list, so no array
  lacks one. Arrays and entries of the pool are in step, and what is held
  anywhere is a scalar, an array there is, or a result there is (`FileTyped` says the
  same of the tokens on their way). For each call made there is a
  set of complete arrays that contain nothing but each other, scalars and results
  of earlier calls (`Reach`); complete arrays never change, so the set stays one.

`ApiDatabase_proofs` (assumptions `PartsAssumption`, `EngineAssumption`,
`ListsAssumption`, `KeptNamesAssumption`: the engine's properties lead to objects, lists
consist of strings, names that are kept have no dots; any number of objects, names and
functions):

- `IndexAgrees` and `DescendentsAgree`, which are inductive only together and with
  `StoreTypes`: entries have their parents (or `Created` would not be the
  entries that are missing), and nothing is loaded while the list still grows.
  `LongestKnown` shows there is a longest part of a path that has entries, `EntriesOfPath`
  that afterwards exactly the prefixes of the path are new.

- `TypeCorrect`, with `NodesResolve`: a node of the target's trie is what its
  parent resolves it to, and its parent exists.
- `CalleesAlwaysResolve` (`CalleesResolve`). `KeptNamesAssumption` is about the engine: where
  one gets from the global object along names that neither the search nor the
  filter leaves out, properties have a name, and one without dots. It is
  needed: a function called `x.y` would be looked for below `x`. It leaves room
  for what Node.js has, names with dots below one the filter drops (`.js` below
  `module._extensions`), which the search follows like any other; the run has such
  engines, and TLC evaluates the assumption for them. The argument follows the
  objects along a name (`IsWay`): the search keeps one such way for each name it holds
  that has no dangerous part (`KeptLeads`, by `JoinedWay`; `Near` says that it never left the
  part of the engine the assumption is about), a name with a dangerous part keeps
  that part whatever is joined to it (`JoinedDanger`) and so never reaches the list, the
  store keeps the name (`NamesKept`), and the target's walk is at each step on the way
  (`OnItsWay`, by `WalkFollows`), so it ends where the search was (`IdsLead`).
- `SearchFindsEveryFunctionOnce` (`EveryFunctionOnce`). The invariant `Searched`: what was
  found is in every closed set with the global object; an object waits at most
  once; the functions kept are those found and no longer waiting; and each
  property of an object that no longer waits leads to what was found, except, for
  the object at hand, the names that are left. When nothing waits and no name is
  left, what was found is therefore closed, and is the least such set.

`Instrumented_proofs` (assumptions `ProgramAssumption`: types are built of types, a
constructor's first parameter is a pointer; `ObjectListAssumption`; any module, any
input, any depth of the stack):

- `NumberingHolds` (`Numbering`). For the common program the property speaks of
  which objects are under construction; the invariant `Good` adds what is
  needed to push and pop: each frame that makes an object names one in the list
  (`Framed`), an object is under construction exactly when such a frame
  exists (`Stated`), and inner frames have the higher numbers (`Stacked`). For
  Node.js, `Sound` says that the frame of an array stands on one that will receive
  it (`Nested`) and that everything held has its number already (`Held`). Each
  operation on stack and list (push, pop, take, save, deliver) has one lemma;
  `CommonStep`, `NodejsStep` and `MainStep` go through the actions with them. While
  compiling, both lists are empty.

- `CandidatesAreRight` (`Candidates`). `Freeze` is right only when it has ended; the
  invariant `TableInv` says what is still owed before: every recognised type that an
  API or a stored type needs is stored or on the list `todo` (`Due`), and a signature
  has an ID exactly when its candidates are listed or its `AddCandidates` is on the
  list (`Pending`), so a signature met again while its own types are being added gets no
  second ID. An action takes the first item and puts new ones in front
  (`Continuing`); `TableKept` is what all such actions have in common, `Populated` is the
  loop before. `FlattenSeq` and `AddApis` are recursive; what they return follows from
  `Recursion`, whose induction is a smallest counterexample (`Smallest`, from the
  library's `WFMin`). TLC finds `TableInv` true on the program of `instrumented`.

`Commands_proofs` (assumptions `CalibrationAssumption`, `GenAssumption`: signals are
positive, lists of files are sequences of names, counts of seeds and entries are
positive; any number of files and seeds):

- `CalibrationAlwaysExact` (`CalibrationExact`). The invariant says what the one script and
  the one builder hold at each place (`Content`), and that the lines so far belong
  to the files before the one at hand (`InOrder` up to `Behind`). `OneMoreLine`
  and `OneMoreCounted` are the step that prints a line.
- `SeedsAlwaysAsAsked` (`SeedsAsAsked`), from `SeedsSoFar`: below `tci` every seed is the
  command's own, from `tci` on none is.

- `ScriptsAlwaysByName` (`ScriptsByName`; `SynthesisAssumption`, `FilesAssumption`: what the
  command line names as test cases are test cases if they are there). The invariant
  `Working` counts the scripts put out (`Out`): the test cases that none of them
  replaced are as they were, those taken up are there (`Originals`), each
  output that no later one has replaced holds its own code (`Written`), and the
  builder holds the test case at hand. TLC finds the invariant true too.
- `FleetAlwaysAsConfigured` (`FleetAsConfigured`; `OptionsAssumption`, `NamesAssumption`: the
  names of instances differ), under `NoRolesGiven`: the arguments the user
  passes on to `afl-fuzz` contain neither `-M` nor `-S`. The hypothesis is needed,
  the code passes on whatever is there. `Filled` is a vector in which everything but
  the slots of role and name is a word of the command line, and the target stands at
  `execArg`; `SlotsOfOne` and `TargetExchanged` are the two writes to it between
  launches, and `InRole` what each process has kept of it.

  In all four, that another command leaves the variables alone is a case of the step
  of its own; `MainFirst` excludes a second choice of a command.

Only model-checked:

- Liveness (`EveryStopAnswered`, `HostFollowsMaster`, `CommandEnds`, `Terminates`), which is
  out of the prover's reach.
- The four violations, which are single executions.

## Plan

Done: `CallRefs`, `TestCaseMutator`, `ObjectPool`, `BrowserHost`, `WireFormat` with
its four components, `Target`, `ApiDatabase` with its three, `Commands` with its four,
`Instrumented` with its four, and proofs about `CallRefs`, `ObjectPool`,
`BrowserHost`, `TestCaseMutator`, the wire format, `ApiDatabase`, the four commands, the symbol
table and the generated programs.

Left, in this order:

1. `AFLSession`: pool, mutator and wire format over the shared buffer of
   `AFLExport.cpp`.

## Not modelled

- The static buffer of `AFLExport.cpp`, and files that end early when the fuzzer reads
  them: both are about bytes, and a token of `WireFormat` is the smallest unit. The
  target and the generated programs are modelled with input that ends early.
- What the target's functions do to the arrays they get, and whether they return.
- The worth of scalars: which bits a mutator flips, the text of literals in
  scripts, sizes and contents of what the generated programs fill in.
- `show`, `stat`, the printer, statistics and `ToJson` of the store: output.
- The store file that `CAFDriver` writes, the names and sizes of types in it.
- Compiler wrappers and the test case extractor: one pass over arguments or text,
  with no state that outlives a statement.
- `Random` is a nondeterministic choice in every model; `Optional`, `Either`,
  memory streams and the like hold no state of their own.
- The V8 glue of the targets: conversions between two representations of a value.
- Vendored libraries.
