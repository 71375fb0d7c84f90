----------------------------- MODULE Synthesis -----------------------------
(***************************************************************************)
(* Turning a test case into a JavaScript program: TestCaseSynthesiser.cpp, *)
(* SynthesisBuilder.cpp and the builders for JavaScript and Node.js.  The  *)
(* test case is the one read from a file, as in afl_pre_save_handler.      *)
(*                                                                         *)
(* The program is not kept: each statement takes effect on the state js of *)
(* an engine when it is written.  Programs have no loops or jumps, so this *)
(* gives the same result as running the whole program afterwards.          *)
(*                                                                         *)
(* As in TestCaseSerializer, the recursion of SynthesisConstant is the     *)
(* sequence toSynthesise of what is left, the next item first.             *)
(***************************************************************************)
EXTENDS TestCaseDeserializer

CONSTANT ModuleOf  \* for callees and function values, the set of the Node.js
                   \* modules their names are in: one or none

(* A module is required under its own name, which is not one of the numbered names
   of variables; neither is what stands for "no variable" below. *)
ASSUME ProgramsAssumption ==
  /\ Scalars \subseteq DOMAIN ModuleOf
  /\ \A t \in TestCases : \A i \in DOMAIN t.calls : t.calls[i].callee \in DOMAIN ModuleOf
  /\ \A f \in DOMAIN ModuleOf : \A m, n \in ModuleOf[f] : m = n /\ m \notin Nat
  /\ Nothing \notin Nat /\ NoThis \notin Nat
  /\ Scalars \cap [is : {"array"}, n : Nat] = {}

VARIABLES
  toSynthesise,  \* what is still to be synthesised
  operands,      \* variables of the receiver and the arguments of the call at hand
  variableOf,    \* SynthesisBuilder::_synthesisedVariables
  retVariables,  \* SynthesisBuilder::_funcRetVariables
  varId,         \* SynthesisBuilder::_varId
  imported,      \* NodejsSynthesisBuilder::_imported
  js             \* the engine

builder   == <<variableOf, retVariables, varId, imported>>
synthesis == <<toSynthesise, operands, builder, js>>

-----------------------------------------------------------------------------
(* The engine.  env has the values of the names declared so far, heap the elements
   of the arrays, which are called by the variable they were made for.  broken says
   that the program declares a name twice or has used one before its declaration.
   calls has for each call statement the call it names and the arguments it passes. *)
NewEngine == [env |-> EmptyMap, heap |-> EmptyMap, broken |-> FALSE, calls |-> <<>>]

(* let name = ... *)
Declare(e, name, v, uses) ==
  [e EXCEPT !.env    = Put(@, name, v),
            !.broken = @ \/ name \in DOMAIN e.env \/ ~(uses \subseteq DOMAIN e.env)]

ValueOf(e, x)    == IF x \in DOMAIN e.env THEN e.env[x] ELSE Nothing
LetArray(e, x)   == [Declare(e, x, ArrayAt(x), {}) EXCEPT !.heap = Put(@, x, <<>>)]
PushTo(e, x, y)  == [e EXCEPT !.heap[x] = Append(@, ValueOf(e, y)),
                              !.broken = @ \/ ~({x, y} \subseteq DOMAIN e.env)]
Require(e, mods) == IF mods = {} THEN e ELSE Declare(e, CHOOSE m \in mods : TRUE, Undefined, {})

(* f.apply(receiver, list, ...) takes the arguments from a list and ignores what
   follows.  Undefined stands for no arguments; with anything else that is not an
   array there is no call. *)
ApplyArguments(e, vs) ==
  IF vs = <<>> \/ vs[1] = Undefined THEN <<>>
  ELSE IF vs[1] \notin Scalars /\ vs[1].is = "array" THEN e.heap[vs[1].n]
  ELSE <<Nothing>>

(* let x; try { x = ... } with new f(args), f.apply(receiver, args) or f(args).
   What a call returns is known by the position of the call. *)
LetResult(e, x, f, ctor, receiver, args) ==
  LET vs     == [k \in DOMAIN args |-> ValueOf(e, args[k])]
      uses   == Range(args) \cup ({receiver} \ {NoThis}) \cup ModuleOf[f]
      named  == [callee |-> f, this |-> IF receiver = NoThis THEN NoThis ELSE ValueOf(e, receiver),
                 ctor |-> ctor, args |-> vs]
      passed == IF ctor \/ receiver = NoThis THEN vs ELSE ApplyArguments(e, vs)
  IN  [Declare(e, x, ResultOf(Len(e.calls) + 1), uses)
         EXCEPT !.calls = Append(@, [named |-> named, passed |-> passed])]

-----------------------------------------------------------------------------
StartSynthesis ==
  /\ toSynthesise = <<Item("main", 0)>>
  /\ operands = <<>>
  /\ variableOf = EmptyMap /\ retVariables = <<>> /\ varId = 0 /\ imported = {}
  /\ js = NewEngine

AllRead == AllWritten /\ expect = <<>>

(* A value on its way to the call at hand (Operand) or, as an element, to the array
   in variable to; VariableTo when it has got a variable itself. *)
Operand == Nothing
ValueTo(v, to)    == [is |-> "value", n |-> v, to |-> to]
VariableTo(x, to) == [is |-> "variable", n |-> x, to |-> to]

Synthesises(is) ==
  /\ AllRead
  /\ toSynthesise # <<>> /\ Head(toSynthesise).is = is
  /\ UNCHANGED <<tc, writer, unread, reader>>

Replace(items) == toSynthesise' = items \o Tail(toSynthesise)

EnterMainFunction ==
  /\ Synthesises("main")
  /\ Replace([i \in DOMAIN loaded.calls |-> Item("call", i)])
  /\ UNCHANGED <<operands, builder, js>>

SynthesiseCall ==
  /\ Synthesises("call")
  /\ LET c == loaded.calls[Head(toSynthesise).n] IN
       Replace((IF c.this = NoThis THEN <<>> ELSE <<ValueTo(c.this, Operand)>>)
                 \o [k \in DOMAIN c.args |-> ValueTo(c.args[k], Operand)]
                 \o <<Item("statement", Head(toSynthesise).n)>>)
  /\ operands' = <<>>
  /\ UNCHANGED <<builder, js>>

(* HasSynthesised *)
SynthesiseKnown ==
  /\ Synthesises("value")
  /\ Head(toSynthesise).n \in DOMAIN variableOf
  /\ Replace(<<VariableTo(variableOf[Head(toSynthesise).n], Head(toSynthesise).to)>>)
  /\ UNCHANGED <<operands, builder, js>>

(* at() throws if the call has no statement yet. *)
SynthesisePlaceholder ==
  /\ Synthesises("value")
  /\ \E i \in DOMAIN retVariables :
       /\ Head(toSynthesise).n = ResultOf(i)
       /\ Replace(<<VariableTo(retVariables[i], Head(toSynthesise).to)>>)
  /\ UNCHANGED <<operands, builder, js>>

(* Mutant: the index of the last variable is taken for its number. *)
NewVariableNext(v) ==
  /\ variableOf' = Put(variableOf, v, varId + 1)
  /\ varId' = varId + 1

(* CreateVariable and SetLastSynthesisedValue *)
NewVariable(v) ==
  /\ variableOf' = Put(variableOf, v, varId)
  /\ varId' = varId + 1

(* Mutant: a module is required wherever it is used. *)
UnimportedAlways(f) == ModuleOf[f]

(* The module to write a require statement for. *)
Unimported(f) == ModuleOf[f] \ imported

SynthesiseScalar ==
  /\ Synthesises("value")
  /\ LET v == Head(toSynthesise).n IN
       /\ v \in Scalars \ DOMAIN variableOf
       /\ NewVariable(v)
       /\ imported' = imported \cup ModuleOf[v]
       /\ js' = Declare(Require(js, Unimported(v)), varId, v, ModuleOf[v])
       /\ Replace(<<VariableTo(varId, Head(toSynthesise).to)>>)
  /\ UNCHANGED <<operands, retVariables>>

(* The variable is remembered before the elements, which may be the array itself. *)
SynthesiseArray ==
  /\ Synthesises("value")
  /\ LET v        == Head(toSynthesise).n
         elements == loaded.heap[v.n]
     IN  /\ v \notin Scalars \cup DOMAIN variableOf /\ v.is = "array"
         /\ NewVariable(v)
         /\ js' = LetArray(js, varId)
         /\ Replace([k \in DOMAIN elements |-> ValueTo(elements[k], varId)]
                      \o <<VariableTo(varId, Head(toSynthesise).to)>>)
  /\ UNCHANGED <<operands, retVariables, imported>>

(* Mutant: the names in the push statement are swapped. *)
UseVariableSwapped ==
  /\ Synthesises("variable")
  /\ LET x  == Head(toSynthesise).n
         to == Head(toSynthesise).to
     IN  IF to = Operand
         THEN operands' = Append(operands, x) /\ js' = js
         ELSE operands' = operands /\ js' = PushTo(js, x, to)
  /\ Replace(<<>>)
  /\ UNCHANGED builder

(* What the caller of SynthesisConstant does with the variable. *)
UseVariable ==
  /\ Synthesises("variable")
  /\ LET x  == Head(toSynthesise).n
         to == Head(toSynthesise).to
     IN  IF to = Operand
         THEN operands' = Append(operands, x) /\ js' = js
         ELSE operands' = operands /\ js' = PushTo(js, to, x)
  /\ Replace(<<>>)
  /\ UNCHANGED builder

SynthesiseFunctionCall ==
  /\ Synthesises("statement")
  /\ LET c        == loaded.calls[Head(toSynthesise).n]
         receiver == IF c.this = NoThis THEN NoThis ELSE Head(operands)
         args     == IF c.this = NoThis THEN operands ELSE Tail(operands)
     IN  /\ js' = LetResult(Require(js, Unimported(c.callee)), varId, c.callee, c.ctor, receiver, args)
         /\ imported' = imported \cup ModuleOf[c.callee]
  /\ retVariables' = Append(retVariables, varId)
  /\ varId' = varId + 1
  /\ Replace(<<>>)
  /\ UNCHANGED <<operands, variableOf>>

Synthesise ==
  \/ EnterMainFunction \/ SynthesiseCall \/ SynthesiseKnown \/ SynthesisePlaceholder
  \/ SynthesiseScalar \/ SynthesiseArray \/ UseVariable \/ SynthesiseFunctionCall

-----------------------------------------------------------------------------
InProgram(v) == IF v \notin Scalars /\ v.is = "array" THEN ArrayAt(variableOf[v]) ELSE v
AllInProgram(vs) == [k \in DOMAIN vs |-> InProgram(vs[k])]

(* The program is one: no name is declared twice, which would make the whole program
   invalid, and every name is declared before it is used, whatever arrays contain
   each other and wherever a module is met first. *)
ProgramRuns == ~js.broken

(* Each call statement names the operands of its call: scalars of the right value,
   the result of the right call, and for every array the one variable made for it. *)
OperandsNamed ==
  /\ Len(js.calls) = Len(retVariables)
  /\ \A i \in DOMAIN js.calls :
       LET c == loaded.calls[i] IN
         js.calls[i].named = [c EXCEPT !.this = IF @ = NoThis THEN @ ELSE InProgram(@),
                                       !.args = AllInProgram(@)]

(* When a call is made, all arrays made so far have all their elements, also those
   that are elements of each other. *)
ArraysBuilt ==
  toSynthesise # <<>> /\ Head(toSynthesise).is = "statement" =>
    \A n \in DOMAIN loaded.heap : ArrayAt(n) \in DOMAIN variableOf =>
      js.heap[variableOf[ArrayAt(n)]] = AllInProgram(loaded.heap[n])

(* "@param args arguments to the function call." and "@param argVarNames names of the
   variables holding the arguments." (include/Fuzzer/SynthesisBuilder.h:106, :266):
   the call a statement makes gets the arguments it names. *)
ArgumentsPassed == \A i \in DOMAIN js.calls : js.calls[i].passed = js.calls[i].named.args
=============================================================================
