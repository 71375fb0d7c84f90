--------------------------- MODULE TestCaseMutator ---------------------------
(***************************************************************************)
(* The test case mutator (src/Fuzzer/TestCaseMutator.cpp), with the part   *)
(* of TestCaseGenerator it calls, over the test case it edits in place.    *)
(*                                                                         *)
(* A value is Scalar (undefined, null, a boolean, string, number or        *)
(* function: what they are worth does not influence a reference), a call   *)
(* position (a placeholder; position i is the code's call index i - 1), or *)
(* an array: a pointer into the heap, which several calls may share and    *)
(* which may contain itself when the test case was read from a file.       *)
(*                                                                         *)
(* heap maps each array that the test case can reach to its elements; an   *)
(* array nothing refers to any more stays in the pool in the code and has  *)
(* no effect, so it is dropped here.                                       *)
(***************************************************************************)
EXTENDS Naturals, FiniteSets, SequencesExt

CONSTANTS
  MaxCalls, MaxArguments, MaxArrayLength, MaxDepth,  \* Options
  GeneratedArguments,  \* the literal of GenerateArgumentsCount
  Functions,           \* functions of the store
  Scalar, NoThis,      \* a value that is no reference; `this` not set
  Arrays,              \* addresses of arrays
  MaxTree,             \* bound: arrays in one generated value
  MaxLive,             \* bound: arrays in a test case, unless it began with more
  Seeds                \* the test cases a session starts from

ASSUME SizesAssumption ==
  /\ MaxCalls \in Nat \ {0}
  /\ MaxArguments \in Nat
  /\ MaxArrayLength \in Nat \ {0}
  /\ MaxDepth \in Nat \ {0}
  /\ GeneratedArguments \in Nat
  /\ MaxTree \in Nat
  /\ MaxLive \in Nat

VARIABLES
  calls,        \* TestCase::_calls
  heap,         \* the elements of every array in use
  lastMutator   \* TestCaseMutator::_lastMutator

vars == <<calls, heap, lastMutator>>

Position == 1 .. MaxCalls
Value    == {Scalar} \cup Position \cup Arrays
Call     == [callee : Functions, this : Value \cup {NoThis}, ctor : BOOLEAN, args : Seq(Value)]

(* An array is neither a position nor the scalar, and `this` not set is no value. *)
ASSUME ReferencesAssumption ==
  /\ IsFiniteSet(Arrays)
  /\ Arrays \cap Position = {}
  /\ Scalar \notin Position \cup Arrays
  /\ NoThis \notin Value

-----------------------------------------------------------------------------
(* What a test case refers to. *)

CallValues(c) == Range(c.args) \cup ({c.this} \ {NoThis})

(* The arrays that can be reached from a set of values: the smallest set that
   contains those among them and is closed under "is an element of". *)
Reach(h, values) ==
  {a \in DOMAIN h :
     \A closed \in SUBSET DOMAIN h :
       (/\ values \cap DOMAIN h \subseteq closed
        /\ \A b \in closed : Range(h[b]) \cap DOMAIN h \subseteq closed)
       => a \in closed}

CallReach(cs, h, i) == Reach(h, CallValues(cs[i]))

(* The positions whose results call i uses, directly or inside an array. *)
Uses(cs, h, i) ==
  (CallValues(cs[i]) \cup UNION {Range(h[a]) : a \in CallReach(cs, h, i)}) \cap Position

(* A test case: calls of the options' number, and no value that dangles. *)
TestCase(cs, h) ==
  /\ cs \in Seq(Call) /\ Len(cs) \in 1 .. MaxCalls
  /\ DOMAIN h \subseteq Arrays /\ h \in [DOMAIN h -> Seq(Value)]
  /\ \A i \in DOMAIN cs : CallValues(cs[i]) \cap Arrays \subseteq DOMAIN h
  /\ \A a \in DOMAIN h : Range(h[a]) \cap Arrays \subseteq DOMAIN h

(* What a session starts from: test cases that could be written to a file. *)
ASSUME SeedsAssumption ==
  /\ IsFiniteSet(Seeds)
  /\ \A s \in Seeds :
       /\ TestCase(s.calls, s.heap)
       /\ \A i \in DOMAIN s.calls : Uses(s.calls, s.heap, i) \subseteq 1 .. (i - 1)

LiveArrays(cs, h) == Reach(h, UNION {CallValues(cs[i]) : i \in DOMAIN cs})

-----------------------------------------------------------------------------
(* TestCaseGenerator::GenerateValue.  Every operator below that builds a value
   returns the set of its possible results, [value, heap]. *)

Fresh(h, n) == CHOOSE f \in [1 .. n -> Arrays \ DOMAIN h] : IsInjective(f)
Room(h)     == Cardinality(Arrays \ DOMAIN h)

(* The heap with new arrays added. *)
Extend(h, new) ==
  [a \in DOMAIN h \cup DOMAIN new |-> IF a \in DOMAIN h THEN h[a] ELSE new[a]]

LeafOffByOne(i) == {Scalar} \cup (1 .. i)  \* mutant: a call may use itself
Leaf(i) == {Scalar} \cup (1 .. (i - 1))

(* The generated arrays new[1] (the value itself), new[2] ... form a tree in
   which an array hangs at most MaxDepth - 1 levels down. *)
GeneratedTrees(i, new) ==
  LET n == Len(new)
      Elements == BoundedSeq(Leaf(i) \cup Range(new), MaxArrayLength)
  IN  {c \in [Range(new) -> Elements] :
         /\ \A x \in 1 .. n :
              Cardinality({s \in (1 .. n) \X (1 .. MaxArrayLength) :
                             /\ s[2] <= Len(c[new[s[1]]])
                             /\ c[new[s[1]]][s[2]] = new[x]}) = (IF x = 1 THEN 0 ELSE 1)
         /\ \E level \in [1 .. n -> 1 .. (MaxDepth - 1)] :
              /\ level[1] = 1
              /\ \A x, y \in 1 .. n :
                   new[y] \in Range(c[new[x]]) => y > x /\ level[y] = level[x] + 1}

(* Mutant: the generator also selects an array of the pool. *)
GenerateSelectedValue(h, i) ==
  {[value |-> v, heap |-> h] : v \in Leaf(i) \cup DOMAIN h}
    \cup {[value |-> Fresh(h, 1)[1], heap |-> Extend(h, c)] :
            c \in IF Room(h) = 0 THEN {} ELSE GeneratedTrees(i, Fresh(h, 1))}

GenerateValue(h, i) ==
  {[value |-> v, heap |-> h] : v \in Leaf(i)}
    \cup UNION {LET new == Fresh(h, n)
                IN  {[value |-> new[1], heap |-> Extend(h, c)] : c \in GeneratedTrees(i, new)} :
                n \in {m \in 1 .. MaxTree : m <= Room(h)}}

(* Values generated one after the other, the k-th for call at[k]. *)
GenerateValues(h, at) ==
  LET results[n \in 0 .. Len(at)] ==
        IF n = 0 THEN {[value |-> <<>>, heap |-> h]}
        ELSE UNION {{[value |-> Append(r.value, g.value), heap |-> g.heap] :
                       g \in GenerateValue(r.heap, at[n])} : r \in results[n - 1]}
  IN  results[Len(at)]

(* GenerateFunctionCall: results are [value: the call, heap]. *)
GenerateFunctionCall(h, i) ==
  UNION {{[value |-> [callee |-> f,
                      this |-> IF t = 0 THEN NoThis ELSE g.value[1],
                      ctor |-> c,
                      args |-> SubSeq(g.value, t + 1, t + n)],
           heap |-> g.heap] : g \in GenerateValues(h, [k \in 1 .. (t + n) |-> i])} :
         f \in Functions, t \in {0, 1}, c \in BOOLEAN, n \in 0 .. GeneratedArguments}

-----------------------------------------------------------------------------
(* PlaceholderFixer.  The fixer walks the operands of the calls from start on
   and rewrites what it meets in place: a placeholder operand, and every
   placeholder of every array it can reach, each array once. *)

(* Mutant: the fixer does not go into an array inside an array. *)
VisitedOperands(cs, h, start) == UNION {CallValues(cs[i]) \cap DOMAIN h : i \in start .. Len(cs)}
Visited(cs, h, start) == UNION {CallReach(cs, h, i) : i \in start .. Len(cs)}

(* A slot is a place that holds a value: <<i, 0>> is `this` of call i, <<i, k>>
   its k-th argument, <<a, k>> the k-th element of array a. *)
Holds(cs, h, s) ==
  IF s[1] \in DOMAIN h THEN h[s[1]][s[2]]
  ELSE IF s[2] = 0 THEN cs[s[1]].this ELSE cs[s[1]].args[s[2]]

FixedSlots(cs, h, start) ==
  (UNION {{<<i, k>> : k \in DOMAIN cs[i].args} : i \in start .. Len(cs)})
    \cup {<<i, 0>> : i \in {j \in start .. Len(cs) : cs[j].this # NoThis}}
    \cup UNION {{<<a, k>> : k \in DOMAIN h[a]} : a \in Visited(cs, h, start)}

(* The call from which the fixer first reaches a slot. *)
FixedFrom(cs, h, start, s) ==
  IF s[1] \in DOMAIN h
  THEN CHOOSE i \in start .. Len(cs) :
         /\ s[1] \in CallReach(cs, h, i)
         /\ \A j \in start .. (i - 1) : s[1] \notin CallReach(cs, h, j)
  ELSE s[1]

(* Put the values of w, a function on slots, where they belong. *)
Write(cs, h, w) ==
  [calls |-> [i \in DOMAIN cs |->
                [cs[i] EXCEPT !.this = IF <<i, 0>> \in DOMAIN w THEN w[<<i, 0>>] ELSE @,
                              !.args = [k \in DOMAIN @ |->
                                 IF <<i, k>> \in DOMAIN w THEN w[<<i, k>>] ELSE @[k]]]],
   heap  |-> [a \in DOMAIN h |->
                [k \in DOMAIN h[a] |->
                   IF <<a, k>> \in DOMAIN w THEN w[<<a, k>>] ELSE h[a][k]]]]

(* The fixers of AddFunctionCall and RemoveFunctionCall. *)
ShiftUp(k, v)   == IF v \in Position /\ v >= k THEN v + 1 ELSE v
ShiftDown(k, v) == IF v \in Position /\ v > k THEN v - 1 ELSE v

FixAdded(cs, h, k) ==
  Write(cs, h, [s \in FixedSlots(cs, h, k + 1) |-> ShiftUp(k, Holds(cs, h, s))])

(* A placeholder to the removed call becomes a generated value, a new one for
   every place that held it. *)
FixRemoved(cs, h, k) ==
  LET slots == FixedSlots(cs, h, k)
      hits  == SetToSeq({s \in slots : Holds(cs, h, s) = k})
      kept  == Write(cs, h, [s \in slots |-> ShiftDown(k, Holds(cs, h, s))])
  IN  {Write(kept.calls, g.heap, [s \in Range(hits) |->
               g.value[CHOOSE n \in DOMAIN hits : hits[n] = s]]) :
         g \in GenerateValues(kept.heap,
                 [n \in DOMAIN hits |-> FixedFrom(cs, h, k, hits[n])])}

-----------------------------------------------------------------------------
(* TestCaseMutator::Mutate of a value: MutateElement goes down a path of
   element positions, the value at its end is mutated or generated anew, and
   every array along the path is copied.  Results are [value, heap, name]:
   name is _lastMutator afterwards. *)

(* The values met on path p, walk[0] = v first; NoThis beyond a value that has
   no element there. *)
Walk(h, v, p) ==
  LET walk[k \in 0 .. Len(p)] ==
        IF k = 0 THEN v
        ELSE IF walk[k - 1] \in DOMAIN h /\ p[k] \in DOMAIN h[walk[k - 1]]
        THEN h[walk[k - 1]][p[k]]
        ELSE NoThis
  IN  walk

Paths(h, v) ==
  {p \in BoundedSeq(UNION {DOMAIN h[a] : a \in DOMAIN h}, MaxDepth) : Walk(h, v, p)[Len(p)] # NoThis}

(* A new array with the given elements. *)
NewArray(h, elements, name) ==
  LET a == Fresh(h, 1)[1]
  IN  [value |-> a, heap |-> Extend(h, [b \in {a} |-> elements]), name |-> name]

PushElement(h, a, i) ==
  {NewArray(g.heap, Append(h[a], g.value), "PushElement") :
     g \in {r \in GenerateValue(h, i) : Len(h[a]) < MaxArrayLength /\ Room(r.heap) > 0}}

(* Mutant: the array itself loses the element, not a copy. *)
RemoveElementInPlace(h, a) ==
  {[value |-> a, heap |-> [h EXCEPT ![a] = RemoveAt(@, n)], name |-> "RemoveElement"] :
     n \in DOMAIN h[a]}

RemoveElement(h, a) ==
  {NewArray(h, RemoveAt(h[a], n), "RemoveElement") :
     n \in {m \in DOMAIN h[a] : Room(h) > 0}}

ExchangeElements(h, a) ==
  {NewArray(h, [h[a] EXCEPT ![n[1]] = h[a][n[2]], ![n[2]] = h[a][n[1]]], "ExchangeElements") :
     n \in {m \in (DOMAIN h[a]) \X (DOMAIN h[a]) : m[1] < m[2] /\ Room(h) > 0}}

(* Mutating a string or a number gives a scalar again and a mutator name of its
   own (InsertCharacter, Negate, ...), a boolean or a function no name. *)
MutateScalar(h, v, name) ==
  {[value |-> v, heap |-> h, name |-> n] : n \in {m \in {name, "MutateScalar"} : v = Scalar}}

(* At the end of the path: v is the value there and depth its level. *)
MutateHere(h, v, i, depth, name) ==
  {[value |-> g.value, heap |-> g.heap, name |-> name] : g \in GenerateValue(h, i)}
    \cup (IF depth > MaxDepth THEN {}
          ELSE IF v \in DOMAIN h
          THEN PushElement(h, v, i) \cup RemoveElement(h, v) \cup ExchangeElements(h, v)
          ELSE MutateScalar(h, v, name))

(* Copy the arrays on the path around the value r has at its end. *)
CopyPath(r, h, walk, p) ==
  LET copy == Fresh(r.heap, Len(p))
      elem(k) == IF k = Len(p) THEN r.value ELSE copy[k + 1]
      new == [a \in Range(copy) |->
                LET k == CHOOSE n \in DOMAIN copy : copy[n] = a
                IN  [h[walk[k - 1]] EXCEPT ![p[k]] = elem(k)]]
  IN  [value |-> IF p = <<>> THEN r.value ELSE copy[1],
       heap  |-> Extend(r.heap, new), name |-> r.name]

MutateValue(h, v, i) ==
  UNION {LET walk  == Walk(h, v, p)
             name  == IF p = <<>> THEN lastMutator ELSE "MutateElement"
         IN  {CopyPath(r, h, walk, p) :
                r \in {x \in MutateHere(h, walk[Len(p)], i, Len(p) + 1, name) :
                         Room(x.heap) >= Len(p)}} :
         p \in Paths(h, v)}

-----------------------------------------------------------------------------
(* The mutators of a test case.  Become is the state a mutator leaves. *)

Become(cs, h, name) ==
  /\ calls' = cs
  /\ heap' = Restrict(h, LiveArrays(cs, h))
  /\ Cardinality(DOMAIN heap') <= Max({MaxLive, Cardinality(DOMAIN heap)})
  /\ lastMutator' = name

AddFunctionCall(k) ==
  /\ Len(calls) < MaxCalls
  /\ \E g \in GenerateFunctionCall(heap, k) :
       LET r == FixAdded(InsertAt(calls, k, g.value), g.heap, k)
       IN  Become(r.calls, r.heap, "AddFunctionCall")

RemoveFunctionCall(k) ==
  /\ Len(calls) > 1
  /\ \E r \in FixRemoved(RemoveAt(calls, k), heap, k) :
       Become(r.calls, r.heap, "RemoveFunctionCall")

(* MutateThis and MutateArgument leave _lastMutator to the value mutators. *)
MutateThis(i) ==
  \/ /\ calls[i].this # NoThis
     /\ \E r \in MutateValue(heap, calls[i].this, i) :
          Become([calls EXCEPT ![i].this = r.value], r.heap, r.name)
  \/ /\ calls[i].this = NoThis
     /\ \E g \in GenerateValue(heap, i) :
          Become([calls EXCEPT ![i].this = g.value], g.heap, lastMutator)

MutateCtor(i) ==
  Become([calls EXCEPT ![i].ctor = ~@], heap, "MutateCtor")

(* Mutant: the limit on the number of arguments is forgotten. *)
AddArgumentUnbounded(i) ==
  \E g \in GenerateValue(heap, i) :
    Become([calls EXCEPT ![i].args = Append(@, g.value)], g.heap, "AddArgument")

AddArgument(i) ==
  /\ Len(calls[i].args) < MaxArguments
  /\ \E g \in GenerateValue(heap, i) :
       Become([calls EXCEPT ![i].args = Append(@, g.value)], g.heap, "AddArgument")

RemoveArgument(i) ==
  \E n \in DOMAIN calls[i].args :
    Become([calls EXCEPT ![i].args = RemoveAt(@, n)], heap, "RemoveArgument")

MutateArgument(i) ==
  \E n \in DOMAIN calls[i].args :
    \E r \in MutateValue(heap, calls[i].args[n], i) :
      Become([calls EXCEPT ![i].args[n] = r.value], r.heap, r.name)

(* afl_custom_mutator ends by writing the test case and starts, with a new
   mutator, by reading it again.  The writer throws at a placeholder to a call
   it has not written yet, and writes undefined for `this` that is not set. *)
Serializable == \A i \in DOMAIN calls : Uses(calls, heap, i) \subseteq 1 .. (i - 1)

SaveAndLoad ==
  /\ Serializable
  /\ Become([i \in DOMAIN calls |->
               [calls[i] EXCEPT !.this = IF @ = NoThis THEN Scalar ELSE @]], heap, "")

Init ==
  /\ \E seed \in Seeds : calls = seed.calls /\ heap = seed.heap
  /\ lastMutator = ""

Next ==
  \/ \E k \in 1 .. (Len(calls) + 1) : AddFunctionCall(k)
  \/ \E k \in DOMAIN calls : RemoveFunctionCall(k)
  \/ \E i \in DOMAIN calls : MutateThis(i)
  \/ \E i \in DOMAIN calls : MutateCtor(i)
  \/ \E i \in DOMAIN calls : AddArgument(i)
  \/ \E i \in DOMAIN calls : RemoveArgument(i)
  \/ \E i \in DOMAIN calls : MutateArgument(i)
  \/ SaveAndLoad

Spec == Init /\ [][Next]_vars

-----------------------------------------------------------------------------
MutatorName ==
  {"", "AddFunctionCall", "RemoveFunctionCall", "MutateCtor", "AddArgument",
   "RemoveArgument", "PushElement", "RemoveElement", "ExchangeElements",
   "MutateElement", "MutateScalar"}

(* The longest array and the most arguments of a test case: a file may hold
   more than the mutators make. *)
LongestArray ==
  Max({MaxArrayLength} \cup UNION {{Len(s.heap[a]) : a \in DOMAIN s.heap} : s \in Seeds})
MostArguments ==
  Max({MaxArguments, GeneratedArguments}
        \cup UNION {{Len(s.calls[i].args) : i \in DOMAIN s.calls} : s \in Seeds})

(* The shape of a test case: its sizes stay within the options, or what the file
   had, whatever the mutators do, and no value dangles. *)
TypeOK ==
  /\ TestCase(calls, heap)
  /\ \A i \in DOMAIN calls : Len(calls[i].args) <= MostArguments
  /\ \A a \in DOMAIN heap : Len(heap[a]) <= LongestArray
  /\ lastMutator \in MutatorName

(* Mutating a test case is editing its references: inserting a call keeps every
   other call bound to the calls it used, removing one rebinds only the calls
   that used it, and mutating an operand touches no other call, although the
   fixer edits shared arrays in place and each array may be met through several
   calls. *)
RefsOf(cs, h) == [callees |-> [i \in DOMAIN cs |-> cs[i].callee],
                  refs |-> [i \in DOMAIN cs |-> Uses(cs, h, i)]]
Refs == INSTANCE CallRefs WITH callees <- RefsOf(calls, heap).callees,
                               refs <- RefsOf(calls, heap).refs,
                               Starts <- {RefsOf(s.calls, s.heap) : s \in Seeds}
EditsReferences == Refs!Spec

(* Whatever the mutators did, the test case can be written and synthesised: no
   placeholder refers to its own call, to a later one or to none. *)
BackwardRefs == Refs!BackwardRefs

(* A tree stays a tree: no mutator makes two places hold the same array, or an
   array hold itself, where every array had one place.  So the arrays of a test
   case that was generated are never shared, and one that was read with shared
   arrays gets rid of them for good when it loses them. *)
Places == FixedSlots(calls, heap, 1)

Tree ==
  \A a \in DOMAIN heap :
    Cardinality({s \in Places : Holds(calls, heap, s) = a}) = 1

TreesStayTrees == [][Tree => Tree']_vars

(* Mutation never creates a cycle: arrays contain themselves only in a test
   case that was read like that. *)
Inside(a) == Reach(heap, Range(heap[a]))
Acyclic   == \A a \in DOMAIN heap : a \notin Inside(a)

CyclesOnlyRead == [][Acyclic => Acyclic']_vars
=============================================================================
