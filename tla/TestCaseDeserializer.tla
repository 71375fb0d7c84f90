------------------------ MODULE TestCaseDeserializer ------------------------
(***************************************************************************)
(* Reading a test case back (src/Fuzzer/TestCaseDeserializer.cpp).  The    *)
(* recursion is the sequence expect of the fields still to be read.  The   *)
(* arrays it creates are called by their place in the context's pool.      *)
(***************************************************************************)
EXTENDS TestCaseSerializer

VARIABLES
  expect,        \* fields still to be read, and where they belong
  loaded,        \* the test case read so far; the last call may be incomplete
  pool,          \* DeserializationContext::_pool
  retValueIndex  \* DeserializationContext::_retValueIndex

reader == <<expect, loaded, pool, retValueIndex>>

Null == Item("null", 0)

-----------------------------------------------------------------------------
StartReading ==
  /\ expect = <<Item("root", 0), Item("count", 0)>>
  /\ loaded = [root |-> 0, calls |-> <<>>, heap |-> EmptyMap]
  /\ pool = <<>>
  /\ retValueIndex = EmptyMap

NumberField == [root |-> "word", count |-> "word", callee |-> "word",
                ctor |-> "flag", argsCount |-> "word"]

(* The next field and the token to read it from. *)
Expects(field) == expect # <<>> /\ Head(expect).is = field
Read(field, token) ==
  /\ Expects(field)
  /\ unread # Nothing /\ unread.is = token
  /\ unread' = Nothing
  /\ UNCHANGED <<tc, writer>>

LastCall == Len(loaded.calls)

ReadRoot ==
  /\ Read("root", NumberField["root"])
  /\ loaded' = [loaded EXCEPT !.root = unread.n]
  /\ expect' = Tail(expect)
  /\ UNCHANGED <<pool, retValueIndex>>

ReadCallsCount ==
  /\ Read("count", NumberField["count"])
  /\ expect' = Copies(unread.n, Item("callee", 0)) \o Tail(expect)
  /\ UNCHANGED <<loaded, pool, retValueIndex>>

ReadCallee ==
  /\ Read("callee", NumberField["callee"])
  /\ loaded' = [loaded EXCEPT !.calls =
                  Append(@, [callee |-> unread.n, this |-> NoThis, ctor |-> FALSE, args |-> <<>>])]
  /\ expect' = <<Item("this", 0), Item("ctor", 0), Item("argsCount", 0)>> \o Tail(expect)
  /\ UNCHANGED <<pool, retValueIndex>>

ReadCtor ==
  /\ Read("ctor", NumberField["ctor"])
  /\ loaded' = [loaded EXCEPT !.calls[LastCall].ctor = unread.n]
  /\ expect' = Tail(expect)
  /\ UNCHANGED <<pool, retValueIndex>>

ReadArgsCount ==
  /\ Read("argsCount", NumberField["argsCount"])
  /\ expect' = Copies(unread.n, Item("argument", 0)) \o <<Item("result", 0)>> \o Tail(expect)
  /\ UNCHANGED <<loaded, pool, retValueIndex>>

(* Mutant: the index is taken after the call was pushed. *)
NextResultLate ==
  /\ Expects("result")
  /\ retValueIndex' = Put(retValueIndex, Len(pool), LastCall + 1)
  /\ pool' = Append(pool, Null)
  /\ expect' = Tail(expect)
  /\ UNCHANGED <<tc, writer, unread, loaded>>

(* The call is complete: SetNextValueAsReturnValue. *)
NextResult ==
  /\ Expects("result")
  /\ retValueIndex' = Put(retValueIndex, Len(pool), LastCall)
  /\ pool' = Append(pool, Null)
  /\ expect' = Tail(expect)
  /\ UNCHANGED <<tc, writer, unread, loaded>>

-----------------------------------------------------------------------------
(* A value goes where the field says: `this` or the next argument of the last
   call, or the next element of array number field.n. *)
Placed(test, field, v) ==
  CASE field.is = "this"     -> [test EXCEPT !.calls[Len(test.calls)].this = v]
    [] field.is = "argument" -> [test EXCEPT !.calls[Len(test.calls)].args = Append(@, v)]
    [] field.is = "element"  -> [test EXCEPT !.heap[field.n] = Append(@, v)]

ReadScalar ==
  /\ \E field \in ValueField : Read(field, "scalar")
  /\ loaded' = Placed(loaded, Head(expect), unread.n)
  /\ expect' = Tail(expect)
  /\ UNCHANGED <<pool, retValueIndex>>

ReadArray ==
  /\ \E field \in ValueField : Read(field, "array")
  /\ LET n == Len(pool) IN
       /\ pool' = Append(pool, ArrayAt(n))
       /\ loaded' = Placed([loaded EXCEPT !.heap = Put(@, n, <<>>)], Head(expect), ArrayAt(n))
       /\ expect' = Copies(unread.n, Item("element", n)) \o Tail(expect)
  /\ UNCHANGED retValueIndex

(* The result of a call, or a value of the pool; at() throws for a number that
   is too large. *)
ReadReference ==
  /\ \E field \in ValueField : Read(field, "reference")
  /\ LET n == unread.n IN
       /\ n \in DOMAIN retValueIndex \/ n < Len(pool)
       /\ loaded' = Placed(loaded, Head(expect),
                      IF n \in DOMAIN retValueIndex THEN ResultOf(retValueIndex[n])
                                                    ELSE pool[n + 1])
  /\ expect' = Tail(expect)
  /\ UNCHANGED <<pool, retValueIndex>>

Deserialize ==
  \/ ReadRoot \/ ReadCallsCount
  \/ ReadCallee \/ ReadCtor \/ ReadArgsCount \/ NextResult
  \/ ReadScalar \/ ReadArray \/ ReadReference

-----------------------------------------------------------------------------
(* The reader takes each token for what the writer meant: it never reads a field
   as a field of another kind, nor a reference to something it has not met. *)
EveryTokenUnderstood ==
  unread # Nothing /\ ~Expects("result") =>
    /\ expect # <<>>
    /\ IF unread.is \in {"word", "flag"}
       THEN Head(expect).is \in DOMAIN NumberField /\ NumberField[Head(expect).is] = unread.is
       ELSE Head(expect).is \in ValueField
    /\ unread.is = "reference" =>
         unread.n \in DOMAIN retValueIndex \/ (unread.n < Len(pool) /\ pool[unread.n + 1] # Null)

(* What was written is what is read, up to the names of arrays and `this`, which
   comes back as undefined when it was not set: the same calls with the same
   operands, arrays shared where they were shared and cyclic where they were. *)
RoundTrip ==
  AllWritten /\ expect = <<>> =>
    /\ loaded.root = tc.root
    /\ loaded.calls = [i \in DOMAIN tc.calls |-> RenamedCall(tc.calls[i])]
    /\ \A a, b \in DOMAIN valueIndexes : valueIndexes[a] = valueIndexes[b] => a = b
    /\ DOMAIN loaded.heap = Range(valueIndexes)
    /\ \A a \in DOMAIN valueIndexes : loaded.heap[valueIndexes[a]] = RenamedAll(tc.heap[a])
=============================================================================
