--------------------------- MODULE TestCaseDumper ---------------------------
(***************************************************************************)
(* Showing a test case to a person (src/CLI/TestCaseDumper.cpp).  The      *)
(* dumper numbers arrays and results like the file does and prints the     *)
(* numbers as $n, where they are given and where they are used.            *)
(*                                                                         *)
(* Each test case is written and then dumped, so that the numbers on the   *)
(* screen and in the file can be compared.                                 *)
(***************************************************************************)
EXTENDS TestCaseSerializer

VARIABLES
  toDump,        \* what is still to be dumped
  valueToIndex,  \* DumpContext::_valueToIndex
  nextValue,     \* DumpContext::_valueIndexAlloc
  returned,      \* the $n printed after RET, by call
  references     \* each $n printed after REF, with the value it stands for

dumper == <<toDump, valueToIndex, nextValue, returned, references>>

-----------------------------------------------------------------------------
StartDumping ==
  /\ toDump = [i \in DOMAIN tc.calls |-> Item("call", i)]
  /\ valueToIndex = EmptyMap
  /\ nextValue = 0
  /\ returned = EmptyMap
  /\ references = {}

(* The file has been written; its tokens are of no interest here. *)
Dumping(is) == AllWritten /\ toDump # <<>> /\ Head(toDump).is = is
Keep == UNCHANGED <<tc, writer, unread>>

(* `this` is only printed when it is set. *)
DumpFunctionCall ==
  /\ Dumping("call")
  /\ LET i == Head(toDump).n
         c == tc.calls[i]
     IN  toDump' = (IF c.this = NoThis THEN <<>> ELSE <<Item("value", c.this)>>)
                     \o [k \in DOMAIN c.args |-> Item("value", c.args[k])]
                     \o <<Item("RET", i)>> \o Tail(toDump)
  /\ UNCHANGED <<valueToIndex, nextValue, returned, references>> /\ Keep

(* Mutant: no number is kept for the result. *)
DumpReturnUnskipped ==
  /\ Dumping("RET")
  /\ returned' = Put(returned, Head(toDump).n, nextValue)
  /\ toDump' = Tail(toDump)
  /\ UNCHANGED <<valueToIndex, nextValue, references>> /\ Keep

DumpReturn ==
  /\ Dumping("RET")
  /\ returned' = Put(returned, Head(toDump).n, nextValue)
  /\ nextValue' = nextValue + 1
  /\ toDump' = Tail(toDump)
  /\ UNCHANGED <<valueToIndex, references>> /\ Keep

DumpScalar ==
  /\ Dumping("value") /\ Head(toDump).n \in Scalars
  /\ toDump' = Tail(toDump)
  /\ UNCHANGED <<valueToIndex, nextValue, returned, references>> /\ Keep

(* Mutant: the number is peeked at and not taken. *)
DumpArrayPeeked ==
  /\ Dumping("value") /\ Head(toDump).n \in Arrays \ DOMAIN valueToIndex
  /\ LET a == Head(toDump).n IN
       /\ valueToIndex' = Put(valueToIndex, a, nextValue)
       /\ toDump' = [k \in DOMAIN tc.heap[a] |-> Item("value", tc.heap[a][k])] \o Tail(toDump)
  /\ UNCHANGED <<nextValue, returned, references>> /\ Keep

DumpArray ==
  /\ Dumping("value") /\ Head(toDump).n \in Arrays \ DOMAIN valueToIndex
  /\ LET a == Head(toDump).n IN
       /\ valueToIndex' = Put(valueToIndex, a, nextValue)
       /\ toDump' = [k \in DOMAIN tc.heap[a] |-> Item("value", tc.heap[a][k])] \o Tail(toDump)
  /\ nextValue' = nextValue + 1
  /\ UNCHANGED <<returned, references>> /\ Keep

(* A placeholder is printed with the index of the call it refers to, an array
   that was dumped before with its number. *)
ShownIndex(v) == IF v \in DOMAIN valueToIndex THEN valueToIndex[v] ELSE v - 1

DumpReference ==
  /\ Dumping("value")
  /\ LET v == Head(toDump).n IN
       /\ v \in DOMAIN valueToIndex \cup DOMAIN tc.calls
       /\ references' = references \cup {[value |-> v, shown |-> ShownIndex(v)]}
  /\ toDump' = Tail(toDump)
  /\ UNCHANGED <<valueToIndex, nextValue, returned>> /\ Keep

Dump ==
  DumpFunctionCall \/ DumpReturn \/ DumpScalar \/ DumpArray \/ DumpReference

-----------------------------------------------------------------------------
(* The numbers on the screen are those of the file, although the dumper walks the
   test case by itself: a person can look for what the file refers to. *)
NumbersOfTheFile ==
  AllWritten /\ toDump = <<>> => valueToIndex = valueIndexes /\ returned = retIndexes

(* An array is dumped with its elements before anything refers to it, and $n
   after REF leads to that array and to nothing else. *)
ArraysShownByNumber ==
  \A r \in references : r.value \in Arrays =>
    /\ \A a \in DOMAIN valueToIndex : valueToIndex[a] = r.shown <=> a = r.value
    /\ \A i \in DOMAIN returned : returned[i] # r.shown
=============================================================================
