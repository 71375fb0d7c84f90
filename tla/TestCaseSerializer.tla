------------------------- MODULE TestCaseSerializer -------------------------
(***************************************************************************)
(* Writing a test case (src/Fuzzer/TestCaseSerializer.cpp).                *)
(*                                                                         *)
(* An array is written where it is met first and numbered; the result of a *)
(* call gets the next number when the call has been written.  Later uses   *)
(* of either are references to the number.  Nothing in the file says where *)
(* a number was given: who reads the file counts along.                    *)
(*                                                                         *)
(* The recursion of Serialize is the sequence todo of what is still to be  *)
(* written, the next item first.  A token is a field of the file as a      *)
(* whole: a scalar with its kind, a reference with its number.  A reader   *)
(* depends on nothing but the tokens before, so each token is read when it *)
(* has been written, which gives the same result as reading a whole file.  *)
(***************************************************************************)
EXTENDS Naturals, Sequences, Functions

CONSTANTS
  Scalars, Undefined,  \* values that are written as they are; one of them
  NoThis,              \* `this` not set
  Arrays,              \* addresses of arrays
  Nothing,             \* no token
  TestCases            \* the test cases that are written

(* A test case t: t.root is its entry in the store, t.calls its calls, t.heap
   the elements of each array.  A value is a scalar, an array or the position
   of the call whose result it stands for. *)
Value == Scalars \cup Arrays \cup Nat
Call  == [callee : Nat, this : Value \cup {NoThis}, ctor : BOOLEAN, args : Seq(Value)]

(* What stands at call i may be v: from[a] is the first call that may use a. *)
MayUse(t, from, i, v) ==
  \/ v \in Scalars
  \/ v \in Arrays /\ v \in DOMAIN t.heap /\ from[v] <= i
  \/ v \notin Arrays /\ v \in 1 .. (i - 1)

(* References are backward, also those inside arrays, whichever call uses them. *)
UsableFrom(t, from) ==
  /\ \A i \in DOMAIN t.calls :
       /\ t.calls[i].this = NoThis \/ MayUse(t, from, i, t.calls[i].this)
       /\ \A v \in Range(t.calls[i].args) : MayUse(t, from, i, v)
  /\ \A a \in DOMAIN t.heap : \A v \in Range(t.heap[a]) : MayUse(t, from, from[a], v)

RefersBackward(t) ==
  \E from \in [DOMAIN t.heap -> 1 .. (Len(t.calls) + 1)] : UsableFrom(t, from)

ASSUME TestCasesAssumption ==
  /\ Undefined \in Scalars /\ Scalars \cap Arrays = {}
  /\ \A t \in TestCases :
       /\ t.root \in Nat /\ t.calls \in Seq(Call)
       /\ DOMAIN t.heap \subseteq Arrays
       /\ \A a \in DOMAIN t.heap : t.heap[a] \in Seq(Value)
       /\ RefersBackward(t)

(* What is written can be told apart: an address is not the position of a call, nor
   is a scalar, and no token is Nothing. *)
ASSUME TokensAssumption ==
  /\ \A v \in Scalars \cup Arrays : v \notin Nat
  /\ Nothing \notin [is : {"word", "flag", "scalar", "reference", "array"},
                    n  : Nat \cup BOOLEAN \cup Scalars]

VARIABLES
  tc,           \* the test case
  todo,         \* what is still to be written
  valueIndexes, \* SerializationContext::_valueIndexes
  retIndexes,   \* SerializationContext::_retValueIndexes
  nextIndex,    \* SerializationContext::_indexAlloc
  unread        \* the token written last, if it has not been read yet

writer == <<todo, valueIndexes, retIndexes, nextIndex>>

(* Items of todo, fields of the file and the values they carry. *)
Item(is, n) == [is |-> is, n |-> n]
Word(n)     == Item("word", n)    \* u32
Flag(b)     == Item("flag", b)    \* u8
ToWrite(v)  == Item("value", v)

(* What a reader has for a value: a scalar, the result of a call, or an array,
   which is called by its number. *)
ResultOf(i) == Item("result", i)
ArrayAt(n)  == Item("array", n)

EmptyMap    == [x \in {} |-> x]
Put(map, key, n) == [x \in DOMAIN map \cup {key} |-> IF x = key THEN n ELSE map[x]]

Copies(n, field) == [k \in 1 .. n |-> field]
ValueField == {"this", "argument", "element"}

-----------------------------------------------------------------------------
StartWriting ==
  /\ tc \in TestCases
  /\ todo = <<Word(tc.root), Word(Len(tc.calls))>>
              \o [i \in DOMAIN tc.calls |-> Item("call", i)]
  /\ valueIndexes = EmptyMap
  /\ retIndexes = EmptyMap
  /\ nextIndex = 0
  /\ unread = Nothing

Upcoming(is) == todo # <<>> /\ Head(todo).is = is

Write(token) ==
  /\ unread = Nothing
  /\ unread' = token

WriteNumber ==
  /\ Upcoming("word") \/ Upcoming("flag")
  /\ Write(Head(todo))
  /\ todo' = Tail(todo)
  /\ UNCHANGED <<tc, valueIndexes, retIndexes, nextIndex>>

(* Mutant: the constructor flag after the number of arguments. *)
SerializeCallLateFlag(c, i) ==
  <<Word(c.callee), ToWrite(IF c.this = NoThis THEN Undefined ELSE c.this),
    Word(Len(c.args)), Flag(c.ctor)>>
    \o [k \in DOMAIN c.args |-> ToWrite(c.args[k])] \o <<Item("result", i)>>

(* The fields of a call, then the number of its result. *)
SerializeCall(c, i) ==
  <<Word(c.callee), ToWrite(IF c.this = NoThis THEN Undefined ELSE c.this),
    Flag(c.ctor), Word(Len(c.args))>>
    \o [k \in DOMAIN c.args |-> ToWrite(c.args[k])] \o <<Item("result", i)>>

WriteCall ==
  /\ Upcoming("call")
  /\ todo' = SerializeCall(tc.calls[Head(todo).n], Head(todo).n) \o Tail(todo)
  /\ UNCHANGED <<tc, valueIndexes, retIndexes, nextIndex, unread>>

(* Mutant: SkipNextValue is called instead. *)
NumberResultSkipped ==
  /\ Upcoming("result")
  /\ nextIndex' = nextIndex + 1
  /\ todo' = Tail(todo)
  /\ UNCHANGED <<tc, valueIndexes, retIndexes, unread>>

(* SetNextValueAsReturnValue *)
NumberResult ==
  /\ Upcoming("result")
  /\ retIndexes' = Put(retIndexes, Head(todo).n, nextIndex)
  /\ nextIndex' = nextIndex + 1
  /\ todo' = Tail(todo)
  /\ UNCHANGED <<tc, valueIndexes, unread>>

WriteScalar(v) ==
  /\ v \in Scalars
  /\ Write(Item("scalar", v))
  /\ todo' = Tail(todo)
  /\ UNCHANGED <<valueIndexes, retIndexes, nextIndex>>

(* The table of results has no entry for a call that is not written yet: at()
   throws, and nothing is written. *)
WritePlaceholder(i) ==
  /\ i \in DOMAIN retIndexes
  /\ Write(Item("reference", retIndexes[i]))
  /\ todo' = Tail(todo)
  /\ UNCHANGED <<valueIndexes, retIndexes, nextIndex>>

WriteKnownArray(a) ==
  /\ a \in DOMAIN valueIndexes
  /\ Write(Item("reference", valueIndexes[a]))
  /\ todo' = Tail(todo)
  /\ UNCHANGED <<valueIndexes, retIndexes, nextIndex>>

(* The array is numbered before its elements, which may refer to it. *)
WriteNewArray(a) ==
  /\ a \in Arrays \ DOMAIN valueIndexes
  /\ Write(Item("array", Len(tc.heap[a])))
  /\ valueIndexes' = Put(valueIndexes, a, nextIndex)
  /\ nextIndex' = nextIndex + 1
  /\ todo' = [k \in DOMAIN tc.heap[a] |-> ToWrite(tc.heap[a][k])] \o Tail(todo)
  /\ UNCHANGED retIndexes

WriteValue ==
  /\ Upcoming("value")
  /\ LET v == Head(todo).n IN
       \/ WriteScalar(v)
       \/ WritePlaceholder(v)
       \/ WriteKnownArray(v)
       \/ WriteNewArray(v)
  /\ UNCHANGED tc

Serialize == WriteNumber \/ WriteCall \/ NumberResult \/ WriteValue

-----------------------------------------------------------------------------
AllWritten == todo = <<>> /\ unread = Nothing

(* What a reader should have for a value of the test case. *)
Renamed(v) ==
  CASE v \in Scalars              -> v
    [] v \in DOMAIN valueIndexes  -> ArrayAt(valueIndexes[v])
    [] OTHER                      -> ResultOf(v)

RenamedAll(s) == [k \in DOMAIN s |-> Renamed(s[k])]
RenamedCall(c) ==
  [c EXCEPT !.this = IF @ = NoThis THEN Undefined ELSE Renamed(@), !.args = RenamedAll(@)]

(* A placeholder is only met when the result it stands for has its number, also
   in an array that several calls share, so that no test case with backward
   references makes the serializer throw. *)
ResultsNumbered ==
  Upcoming("value") /\ Head(todo).n \notin Scalars \cup Arrays =>
    Head(todo).n \in DOMAIN retIndexes
=============================================================================
