--------------------------- MODULE TestCaseParser ---------------------------
(***************************************************************************)
(* The target's reader of test cases (Targets/Common/TestCaseParser.h).    *)
(* It makes each call as soon as it has read it, and keeps the results and *)
(* the arrays in one pool, numbered in the order they come up.             *)
(*                                                                         *)
(* It checks little of what it reads.  A file starts with the entry in the *)
(* store, ParseAndRun with the number of calls, so the reader soon is out  *)
(* of step with the file; it may also come to its end.  From then on it is *)
(* astray: the bytes it takes for a field can be any, and after the end    *)
(* they are what was in the buffer.                                        *)
(***************************************************************************)
EXTENDS TestCaseSerializer

CONSTANTS
  Misread,   \* the numbers a reader that is astray may come across
  Known,     \* the functions in the target's database
  MaxValues  \* bound of the pool, for arrays

ASSUME ParserAssumption == Misread \subseteq Nat /\ MaxValues \in Nat

VARIABLES
  expected,  \* fields still to be read, and where they belong
  now,       \* the call being read, and the arrays made
  values,    \* TestCaseParser::_pool
  invoked,   \* the calls made so far
  astray     \* the reader is out of step with the file

target == <<expected, now, values, invoked, astray>>

NoCall == [callee |-> 0, this |-> Undefined, ctor |-> FALSE, args |-> <<>>]

-----------------------------------------------------------------------------
StartParsing ==
  /\ expected = <<Item("callsCount", 0)>>
  /\ now = [call |-> NoCall, heap |-> EmptyMap]
  /\ values = <<>>
  /\ invoked = <<>>
  /\ astray = FALSE

ExpectsNext(field) == expected # <<>> /\ Head(expected).is = field

(* What is found where a token of this kind is read. *)
Readable(kind) ==
  IF astray
  THEN CASE kind = "flag" -> BOOLEAN [] kind = "scalar" -> Scalars [] OTHER -> Misread
  ELSE IF unread # Nothing /\ unread.is = kind THEN {unread.n} ELSE {}

Parses(field) ==
  /\ ExpectsNext(field)
  /\ unread' = IF astray THEN unread ELSE Nothing
  /\ UNCHANGED <<tc, writer, astray>>

(* The next token is none that is read as the next field, or the file is at its
   end: Read fails, and the buffer is not initialized. *)
GoAstray ==
  /\ \/ \E field \in {"callsCount", "callee", "argsCount"} :
          ExpectsNext(field) /\ Readable("word") = {}
     \/ ExpectsNext("ctor") /\ Readable("flag") = {}
     \/ \E field \in ValueField :
          /\ ExpectsNext(field)
          /\ \A kind \in {"scalar", "array", "reference"} : Readable(kind) = {}
  /\ ~astray /\ (unread # Nothing \/ AllWritten)
  /\ astray' = TRUE
  /\ UNCHANGED <<tc, writer, unread, expected, now, values, invoked>>

ParseAndRun ==
  /\ Parses("callsCount")
  /\ \E n \in Readable("word") : expected' = Copies(n, Item("callee", 0)) \o Tail(expected)
  /\ UNCHANGED <<now, values, invoked>>

(* Mutant: the result's place in the pool is made before the operands are read. *)
ParseCalleeReserves ==
  /\ Parses("callee")
  /\ \E n \in Readable("word") : now' = [now EXCEPT !.call = [NoCall EXCEPT !.callee = n]]
  /\ expected' = <<Item("this", 0), Item("ctor", 0), Item("argsCount", 0)>> \o Tail(expected)
  /\ values' = Append(values, ResultOf(Len(invoked) + 1))
  /\ UNCHANGED invoked

ParseCallee ==
  /\ Parses("callee")
  /\ \E n \in Readable("word") : now' = [now EXCEPT !.call = [NoCall EXCEPT !.callee = n]]
  /\ expected' = <<Item("this", 0), Item("ctor", 0), Item("argsCount", 0)>> \o Tail(expected)
  /\ UNCHANGED <<values, invoked>>

ParseCtor ==
  /\ Parses("ctor")
  /\ \E b \in Readable("flag") : now' = [now EXCEPT !.call.ctor = b]
  /\ expected' = Tail(expected)
  /\ UNCHANGED <<values, invoked>>

ParseArgsCount ==
  /\ Parses("argsCount")
  /\ \E n \in Readable("word") :
       expected' = Copies(n, Item("argument", 0)) \o <<Item("invoke", 0)>> \o Tail(expected)
  /\ UNCHANGED <<now, values, invoked>>

(* The call is complete and is made. *)
Invoke ==
  /\ ExpectsNext("invoke")
  /\ now.call.callee \in Known
  /\ invoked' = Append(invoked, now.call)
  /\ values' = Append(values, ResultOf(Len(invoked')))
  /\ expected' = Tail(expected)
  /\ UNCHANGED <<tc, writer, unread, now, astray>>

(* A value becomes `this` or the next argument of the call, or the next element
   of array number field.n. *)
PlacedNow(n, field, v) ==
  CASE field.is = "this"     -> [n EXCEPT !.call.this = v]
    [] field.is = "argument" -> [n EXCEPT !.call.args = Append(@, v)]
    [] field.is = "element"  -> [n EXCEPT !.heap[field.n].elements = Append(@, v)]

ParseScalar ==
  /\ \E field \in ValueField : Parses(field)
  /\ \E v \in Readable("scalar") : now' = PlacedNow(now, Head(expected), v)
  /\ expected' = Tail(expected)
  /\ UNCHANGED <<values, invoked>>

(* The array is in the pool, and where it belongs, before it has its elements. *)
NewArray(size) == [size |-> size, elements |-> <<>>]

(* Mutant: the count is decremented before it is tested. *)
ParseArrayValueOneLess ==
  /\ \E field \in ValueField : Parses(field)
  /\ Len(values) < MaxValues
  /\ LET n == Len(values) IN
       /\ values' = Append(values, ArrayAt(n))
       /\ \E size \in Readable("array") :
            /\ now' = PlacedNow([now EXCEPT !.heap = Put(@, n, NewArray(size))], Head(expected), ArrayAt(n))
            /\ expected' = Copies(size - 1, Item("element", n)) \o Tail(expected)
  /\ UNCHANGED invoked

ParseArrayValue ==
  /\ \E field \in ValueField : Parses(field)
  /\ Len(values) < MaxValues
  /\ LET n == Len(values) IN
       /\ values' = Append(values, ArrayAt(n))
       /\ \E size \in Readable("array") :
            /\ now' = PlacedNow([now EXCEPT !.heap = Put(@, n, NewArray(size))], Head(expected), ArrayAt(n))
            /\ expected' = Copies(size, Item("element", n)) \o Tail(expected)
  /\ UNCHANGED invoked

ParsePlaceholderValue ==
  /\ \E field \in ValueField : Parses(field)
  /\ \E n \in Readable("reference") :
       n < Len(values) /\ now' = PlacedNow(now, Head(expected), values[n + 1])
  /\ expected' = Tail(expected)
  /\ UNCHANGED <<values, invoked>>

(* The target ends: a function is not in its database, at() throws for a number that
   is too large, and one that is astray may come across a kind of value that does
   not exist or a length it has no memory for. *)
Fail ==
  /\ \/ ExpectsNext("invoke") /\ now.call.callee \notin Known
     \/ \E field \in ValueField : ExpectsNext(field) /\ \E n \in Readable("reference") : n >= Len(values)
     \/ astray /\ \E field \in ValueField \cup {"argsCount"} : ExpectsNext(field)
  /\ expected' = <<Item("exit", 0)>>
  /\ UNCHANGED <<tc, writer, unread, now, values, invoked, astray>>

Parse ==
  \/ GoAstray \/ Fail \/ ParseAndRun
  \/ ParseCallee \/ ParseCtor \/ ParseArgsCount \/ Invoke
  \/ ParseScalar \/ ParseArrayValue \/ ParsePlaceholderValue

-----------------------------------------------------------------------------
(* When a call is made every array read so far has all its elements, whatever the
   bytes were: an array enters the pool before its elements, so that a call could
   get it half-built. *)
ArraysComplete ==
  ExpectsNext("invoke") =>
    \A n \in DOMAIN now.heap : Len(now.heap[n].elements) = now.heap[n].size

Operands(call) == {call.this} \cup Range(call.args)
Contents(n)    == Range(now.heap[n].elements)

(* Whatever a call can reach, through arrays that may contain each other, is there
   when the call is made: scalars, arrays, and results of earlier calls only. *)
OnlyEarlierResults ==
  \A i \in DOMAIN invoked : \E reach \in SUBSET DOMAIN now.heap :
    \A v \in Operands(invoked[i]) \cup UNION {Contents(n) : n \in reach} :
      \/ v \in Scalars
      \/ \E n \in reach : v = ArrayAt(n)
      \/ \E j \in 1 .. (i - 1) : v = ResultOf(j)

(* "TestCase -> <rootEntryIndex: u32> <callsCount: u32> <calls: ...>"
   (docs/TestCaseBinaryFormat.txt:4): the target is done when it has made all
   the calls of the file. *)
AllCallsMade == expected = <<>> => Len(invoked) = Len(tc.calls)
=============================================================================
