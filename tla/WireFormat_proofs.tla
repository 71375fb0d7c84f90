------------------------- MODULE WireFormat_proofs --------------------------
(***************************************************************************)
(* The writer of test cases and its readers: the fuzzer's reader, the      *)
(* synthesis, the dumper and the target. WireFormatInvariants states the   *)
(* invariants that are proved here.                                        *)
(*                                                                         *)
(* The serializer always finds the number of a result it refers to         *)
(* (ResultsNumbered), for every test case whose references are backward,   *)
(* with any number of calls and with arrays shared and cyclic in any way.  *)
(* The facts that follow, without variables, are about the list of what    *)
(* the writer has still to write and the list of fields a reader has still *)
(* to read, and about a test case that has been read in part. The reader,  *)
(* the synthesis and the dumper rest on them, in this order.               *)
(*                                                                         *)
(* The target comes last: it may be out of step with the file, so that its *)
(* proof needs of the writer only what kind of value a token carries.      *)
(***************************************************************************)
EXTENDS WireFormatInvariants, SequenceTheorems, WellFoundedInduction, TLAPS

LEMMA FromUsable ==
  ASSUME NEW t \in TestCases
  PROVE  From(t) \in [DOMAIN t.heap -> 1 .. (Len(t.calls) + 1)] /\ UsableFrom(t, From(t))
<1>1. RefersBackward(t)
  BY TestCasesAssumption
<1> QED
  BY <1>1 DEF RefersBackward, From

(* Whatever may stand at call i needs earlier calls only, and can be written. *)
LEMMA UsableNeeds ==
  ASSUME NEW t \in TestCases, NEW i \in Nat, NEW v \in Value, MayUse(t, From(t), i, v)
  PROVE  /\ v \in Writable(t)
         /\ \A k \in Needs(t, ToWrite(v)) : k < i
<1>1. DOMAIN t.heap \subseteq Arrays
  BY TestCasesAssumption
<1>2. v \in Writable(t)
  BY <1>1 DEF MayUse, Writable
<1>3. ASSUME NEW k \in Needs(t, ToWrite(v)) PROVE k < i
  <2>1. k \in Nat /\ v \notin Scalars
    BY <1>3 DEF Needs, ToWrite, Item
  <2>2. CASE v \in Arrays
    <3>1. k < From(t)[v]
      BY <1>3, <2>1, <2>2 DEF Needs, ToWrite, Item
    <3>2. v \in DOMAIN t.heap /\ From(t)[v] <= i
      BY <2>1, <2>2 DEF MayUse
    <3>3. From(t)[v] \in 1 .. (Len(t.calls) + 1)
      BY <3>2, FromUsable
    <3>4. From(t)[v] \in Int
      BY <3>3
    <3> QED
      BY <2>1, <3>1, <3>2, <3>4
  <2>3. CASE v \notin Arrays
    BY <1>3, <2>1, <2>3 DEF Needs, ToWrite, Item, MayUse
  <2> QED
    BY <2>2, <2>3
<1> QED
  BY <1>2, <1>3

(* The first item is done and others take its place. *)
LEMMA Replaced ==
  ASSUME NEW t, NEW s \in Seq(Items(t)), s # <<>>, NEW new \in Seq(Items(t)),
         NEW before, NEW after, before \subseteq after,
         Ordered(t, s, before),
         \A j \in DOMAIN new : Needs(t, new[j]) \subseteq after,
         \A i : Numbers(Head(s), i) => i \in after \/ \E k \in DOMAIN new : Numbers(new[k], i)
  PROVE  /\ new \o Tail(s) \in Seq(Items(t))
         /\ Ordered(t, new \o Tail(s), after)
<1> DEFINE r == new \o Tail(s)
<1> DEFINE m == Len(new)
<1>1. Tail(s) \in Seq(Items(t)) /\ Len(Tail(s)) = Len(s) - 1 /\ Len(s) \in Nat \ {0} /\ m \in Nat
  OBVIOUS
<1>2. r \in Seq(Items(t)) /\ Len(r) = m + Len(s) - 1
  BY <1>1
<1>3. \A j \in 1 .. m : r[j] = new[j]
  BY <1>1
<1>4. \A j \in 1 .. Len(r) : j > m => r[j] = s[j - m + 1] /\ j - m + 1 \in 2 .. Len(s)
  BY <1>1, <1>2
<1>5. \A k \in 2 .. Len(s) : r[k + m - 1] = s[k]
  BY <1>1, <1>2
<1>6. ASSUME NEW j \in DOMAIN r, NEW i \in Needs(t, r[j])
      PROVE  i \in after \/ \E k \in 1 .. (j - 1) : Numbers(r[k], i)
  <2>0. j \in 1 .. Len(r) /\ j \in Nat
    BY <1>1, <1>2
  <2>1. CASE j <= m
    <3>1. j \in 1 .. m
      BY <2>0, <2>1
    <3>2. j \in DOMAIN new /\ r[j] = new[j]
      BY <1>3, <3>1
    <3> HIDE DEF r
    <3> QED
      BY <1>6, <3>2
  <2>2. CASE j > m
    <3> DEFINE l == j - m + 1
    <3>1. l \in 2 .. Len(s) /\ r[j] = s[l]
      BY <1>4, <2>0, <2>2
    <3>2. l \in DOMAIN s /\ i \in Needs(t, s[l])
      BY <1>1, <1>6, <3>1
    <3>3. i \in before \/ \E k \in 1 .. (l - 1) : Numbers(s[k], i)
      BY <3>2 DEF Ordered
    <3>4. CASE i \in before
      BY <3>4
    <3>5. ASSUME NEW k \in 1 .. (l - 1), Numbers(s[k], i)
          PROVE  i \in after \/ \E q \in 1 .. (j - 1) : Numbers(r[q], i)
      <4>1. CASE k = 1
        <5>1. Numbers(Head(s), i)
          BY <3>5, <4>1
        <5>2. i \in after \/ \E q \in 1 .. m : Numbers(new[q], i)
          <6>1. i \in after \/ \E q \in DOMAIN new : Numbers(new[q], i)
            BY <5>1
          <6>2. DOMAIN new = 1 .. m
            OBVIOUS
          <6> QED
            BY <6>1, <6>2
        <5> QED
          BY <5>2, <1>1, <1>3, <2>0, <2>2
      <4>2. CASE k # 1
        <5>1. k \in 2 .. Len(s) /\ k + m - 1 \in 1 .. (j - 1)
          BY <1>1, <2>0, <2>2, <3>1, <4>2
        <5>2. Numbers(r[k + m - 1], i)
          BY <1>5, <3>5, <5>1
        <5> QED
          BY <5>1, <5>2
      <4> QED
        BY <4>1, <4>2
    <3> QED
      BY <3>3, <3>4, <3>5
  <2>3. j <= m \/ j > m
    BY <1>1, <2>0
  <2> QED
    BY <2>1, <2>2, <2>3
<1>7. Ordered(t, r, after)
  BY <1>6 DEF Ordered
<1> QED
  BY <1>2, <1>7

-----------------------------------------------------------------------------
(* Items that can be written now, and are. *)
Ready(t, numbered) == {item \in Items(t) : Needs(t, item) \subseteq numbered}

LEMMA PlainItems ==
  ASSUME NEW t, NEW numbered
  PROVE  /\ \A n \in Nat : Word(n) \in Ready(t, numbered)
         /\ \A b \in BOOLEAN : Flag(b) \in Ready(t, numbered)
         /\ \A i \in DOMAIN t.calls : Item("result", i) \in Ready(t, numbered)
  BY DEF Ready, Items, Needs, Word, Flag, Item

LEMMA ValueItems ==
  ASSUME NEW t \in TestCases, NEW numbered, NEW i \in Nat, NEW v \in Value,
         MayUse(t, From(t), i, v),
         \A k \in Nat \ {0} : k < i => k \in numbered
  PROVE  ToWrite(v) \in Ready(t, numbered)
<1>1. v \in Writable(t) /\ \A k \in Needs(t, ToWrite(v)) : k < i
  BY UsableNeeds
<1>2. \A k \in Needs(t, ToWrite(v)) : k \in Nat \ {0}
  BY DEF Needs
<1> QED
  BY <1>1, <1>2 DEF Ready, Items, ToWrite, Item

LEMMA HeadReady ==
  ASSUME InOrder, todo # <<>>
  PROVE  Head(todo) \in Ready(tc, DOMAIN retIndexes)
<1>1. 1 \in DOMAIN todo /\ Head(todo) = todo[1] /\ Head(todo) \in Items(tc)
  BY DEF InOrder
<1>2. \A i \in Needs(tc, todo[1]) : i \in DOMAIN retIndexes
  BY <1>1 DEF InOrder, Ordered
<1> QED
  BY <1>1, <1>2 DEF Ready

(* One item is done: what takes its place can be written now. *)
LEMMA ItemDone ==
  ASSUME InOrder, todo # <<>>, tc' = tc,
         NEW new \in Seq(Ready(tc, DOMAIN retIndexes')), todo' = new \o Tail(todo),
         DOMAIN retIndexes \subseteq DOMAIN retIndexes',
         \A i : Numbers(Head(todo), i) =>
                  i \in DOMAIN retIndexes' \/ \E k \in DOMAIN new : Numbers(new[k], i)
  PROVE  InOrder'
<1>1. Ready(tc, DOMAIN retIndexes') \subseteq Items(tc)
  BY DEF Ready
<1>2. new \in Seq(Items(tc))
  BY <1>1
<1>3. \A j \in DOMAIN new : Needs(tc, new[j]) \subseteq DOMAIN retIndexes'
  BY DEF Ready
<1>4. /\ new \o Tail(todo) \in Seq(Items(tc))
      /\ Ordered(tc, new \o Tail(todo), DOMAIN retIndexes')
  BY <1>2, <1>3, Replaced DEF InOrder
<1> QED
  BY <1>4 DEF InOrder

(* The same when nothing takes its place. *)
LEMMA ItemGone ==
  ASSUME InOrder, todo # <<>>, tc' = tc, todo' = Tail(todo),
         DOMAIN retIndexes \subseteq DOMAIN retIndexes',
         \A i : Numbers(Head(todo), i) => i \in DOMAIN retIndexes'
  PROVE  InOrder'
<1>1. todo' = <<>> \o Tail(todo)
  BY DEF InOrder
<1>2. <<>> \in Seq(Ready(tc, DOMAIN retIndexes'))
  OBVIOUS
<1> QED
  BY <1>1, <1>2, ItemDone

-----------------------------------------------------------------------------
LEMMA WritingStartsInOrder == StartWriting => InOrder
<1> SUFFICES ASSUME StartWriting PROVE InOrder
  OBVIOUS
<1> DEFINE n == Len(tc.calls)
<1> DEFINE header == <<Word(tc.root), Word(n)>>
<1> DEFINE items == [i \in DOMAIN tc.calls |-> Item("call", i)]
<1>1. tc \in TestCases /\ tc.root \in Nat /\ tc.calls \in Seq(Call) /\ n \in Nat
  BY TestCasesAssumption DEF StartWriting
<1>2. DOMAIN tc.calls = 1 .. n
  BY <1>1
<1>3. items \in Seq(Items(tc)) /\ Len(items) = n
  BY <1>1, <1>2 DEF Items, Item
<1>4. header \in Seq(Items(tc)) /\ Len(header) = 2
  BY <1>1 DEF Items, Item, Word
<1>5. todo = header \o items
  BY DEF StartWriting
<1>6. todo \in Seq(Items(tc)) /\ Len(todo) = n + 2
  BY <1>3, <1>4, <1>5
<1>7. todo[1] = Word(tc.root) /\ todo[2] = Word(n)
  BY <1>3, <1>4, <1>5
<1>8. \A j \in 3 .. n + 2 : todo[j] = Item("call", j - 2)
  BY <1>2, <1>3, <1>4, <1>5
<1>9. ASSUME NEW j \in DOMAIN todo, NEW i \in Needs(tc, todo[j])
      PROVE  \E k \in 1 .. (j - 1) : Numbers(todo[k], i)
  <2>1. j \in 1 .. n + 2
    BY <1>1, <1>6
  <2>2. CASE j \in {1, 2}
    BY <1>7, <1>9, <2>2 DEF Needs, Word, Item
  <2>3. CASE j \in 3 .. n + 2
    <3>1. i \in Nat \ {0} /\ i < j - 2
      <4>1. todo[j] = Item("call", j - 2) /\ i \in Needs(tc, Item("call", j - 2))
        BY <1>8, <1>9, <2>3
      <4> HIDE DEF n
      <4> QED
        BY <4>1 DEF Needs, Item
    <3>2. i + 2 \in 3 .. n + 2 /\ i + 2 \in 1 .. (j - 1)
      BY <1>1, <2>3, <3>1
    <3>3. todo[i + 2] = Item("call", i)
      BY <1>8, <3>1, <3>2
    <3> QED
      BY <3>2, <3>3 DEF Numbers, Item
  <2> QED
    BY <1>1, <2>1, <2>2, <2>3
<1> QED
  BY <1>1, <1>6, <1>9 DEF InOrder, Ordered

LEMMA NumberKeepsOrder == InOrder /\ WriteNumber => InOrder'
  BY ItemGone DEF WriteNumber, Upcoming, Numbers

(* The fields of a call, at the place of the call. *)
LEMMA CallKeepsOrder == InOrder /\ WriteCall => InOrder'
<1> SUFFICES ASSUME InOrder, WriteCall PROVE InOrder'
  OBVIOUS
<1> DEFINE i == Head(todo).n
<1> DEFINE c == tc.calls[i]
<1> DEFINE R == Ready(tc, DOMAIN retIndexes)
<1> DEFINE this == IF c.this = NoThis THEN Undefined ELSE c.this
<1> DEFINE head == <<Word(c.callee), ToWrite(this), Flag(c.ctor), Word(Len(c.args))>>
<1> DEFINE arguments == [k \in DOMAIN c.args |-> ToWrite(c.args[k])]
<1>1. tc \in TestCases /\ todo # <<>> /\ Head(todo).is = "call" /\ Head(todo) \in R
  BY HeadReady DEF InOrder, WriteCall, Upcoming
<1>2. i \in DOMAIN tc.calls
  BY <1>1 DEF Ready, Items
<1>3. tc.calls \in Seq(Call) /\ c \in Call /\ i \in Nat
  BY <1>1, <1>2, TestCasesAssumption
<1>4. \A k \in Nat \ {0} : k < i => k \in DOMAIN retIndexes
  BY <1>1, <1>3 DEF Ready, Needs
<1>5. UsableFrom(tc, From(tc))
  BY Zenon, <1>1, FromUsable
<1>6. this \in Value /\ MayUse(tc, From(tc), i, this)
  BY <1>2, <1>3, <1>5, TestCasesAssumption DEF UsableFrom, Call, Value, MayUse
<1>7. ToWrite(this) \in R
  BY <1>1, <1>3, <1>4, <1>6, ValueItems
<1>8. c.callee \in Nat /\ c.ctor \in BOOLEAN /\ c.args \in Seq(Value) /\ Len(c.args) \in Nat
  BY <1>3 DEF Call
<1>9. head \in Seq(R)
  <2>1. Word(c.callee) \in R /\ Flag(c.ctor) \in R /\ Word(Len(c.args)) \in R
    BY <1>8, PlainItems
  <2> HIDE DEF R, this, c
  <2> QED
    BY <1>7, <2>1
<1>10. arguments \in Seq(R)
  <2>1. ASSUME NEW k \in DOMAIN c.args PROVE ToWrite(c.args[k]) \in R
    <3>1. c.args[k] \in Value
      BY <1>8
    <3>2. MayUse(tc, From(tc), i, c.args[k])
      BY <1>2, <1>5 DEF UsableFrom, Range
    <3> QED
      BY <1>1, <1>3, <1>4, <3>1, <3>2, ValueItems
  <2>2. DOMAIN c.args = 1 .. Len(c.args)
    BY <1>8
  <2> HIDE DEF R, c
  <2> QED
    BY <1>8, <2>1, <2>2
<1>11. Item("result", i) \in R
  BY <1>2, PlainItems
<1> DEFINE new == head \o arguments \o <<Item("result", i)>>
<1>12. new \in Seq(R) /\ Len(new) \in Nat \ {0} /\ new[Len(new)] = Item("result", i)
  <2> HIDE DEF R, head, arguments, i
  <2> QED
    BY SMTT(20), <1>9, <1>10, <1>11
<1>13. todo' = new \o Tail(todo) /\ tc' = tc /\ retIndexes' = retIndexes
  BY Zenon DEF WriteCall, SerializeCall
<1>14. \A k : Numbers(Head(todo), k) => \E l \in DOMAIN new : Numbers(new[l], k)
  <2>1. Len(new) \in DOMAIN new
    <3> HIDE DEF new, R
    <3> QED
      BY <1>12
  <2>2. \A k : Numbers(Head(todo), k) => k = i
    BY DEF Numbers
  <2>3. Numbers(new[Len(new)], i)
    <3> HIDE DEF new, i
    <3> QED
      BY <1>12 DEF Numbers, Item
  <2> HIDE DEF new, i
  <2> QED
    BY <2>1, <2>2, <2>3
<1> HIDE DEF new
<1> QED
  BY Zenon, <1>1, <1>12, <1>13, <1>14, ItemDone

LEMMA ResultKeepsOrder == InOrder /\ NumberResult => InOrder'
<1> SUFFICES ASSUME InOrder, NumberResult PROVE InOrder'
  OBVIOUS
<1>1. DOMAIN retIndexes' = {Head(todo).n} \cup DOMAIN retIndexes
  BY DEF NumberResult, Put
<1>2. todo # <<>> /\ tc' = tc /\ todo' = Tail(todo)
  BY DEF NumberResult, Upcoming
<1> QED
  BY <1>1, <1>2, ItemGone DEF Numbers

(* A value that is written as it is or as a reference is gone; the elements of a
   new array take its place. *)
LEMMA ValueKeepsOrder == InOrder /\ WriteValue => InOrder'
<1> SUFFICES ASSUME InOrder, WriteValue PROVE InOrder'
  OBVIOUS
<1> DEFINE v == Head(todo).n
<1>1. tc \in TestCases /\ todo # <<>> /\ Head(todo).is = "value" /\ tc' = tc
  BY DEF InOrder, WriteValue, Upcoming
<1>2. \A i : ~Numbers(Head(todo), i)
  BY <1>1 DEF Numbers
<1>3. CASE WriteScalar(v) \/ WritePlaceholder(v) \/ WriteKnownArray(v)
  <2>1. todo' = Tail(todo) /\ retIndexes' = retIndexes
    BY <1>3 DEF WriteScalar, WritePlaceholder, WriteKnownArray
  <2> QED
    BY <1>1, <1>2, <2>1, ItemGone
<1>4. CASE WriteNewArray(v) /\ v \notin Scalars
  <2> DEFINE R == Ready(tc, DOMAIN retIndexes)
  <2> DEFINE elements == tc.heap[v]
  <2> DEFINE new == [k \in DOMAIN elements |-> ToWrite(elements[k])]
  <2>1. v \in Arrays /\ Head(todo) \in R
    BY Zenon, <1>1, <1>4, HeadReady DEF WriteNewArray
  <2>2. v \in DOMAIN tc.heap
    BY <1>1, <1>4, <2>1 DEF Ready, Items, Writable
  <2>3. elements \in Seq(Value)
    BY <1>1, <2>2, TestCasesAssumption
  <2>4. From(tc)[v] \in Nat /\ UsableFrom(tc, From(tc))
    <3>1. From(tc)[v] \in 1 .. (Len(tc.calls) + 1)
      BY <1>1, <2>2, FromUsable
    <3> QED
      BY <1>1, <3>1, FromUsable
  <2>5. \A k \in Nat \ {0} : k < From(tc)[v] => k \in DOMAIN retIndexes
    BY <1>1, <1>4, <2>1 DEF Ready, Needs
  <2>6. ASSUME NEW k \in DOMAIN elements PROVE ToWrite(elements[k]) \in R
    <3>1. elements[k] \in Value
      BY <2>3
    <3>2. MayUse(tc, From(tc), From(tc)[v], elements[k])
      BY <2>2, <2>4 DEF UsableFrom, Range
    <3> QED
      BY <1>1, <2>4, <2>5, <3>1, <3>2, ValueItems
  <2>7. new \in Seq(R)
    <3>1. DOMAIN elements = 1 .. Len(elements) /\ Len(elements) \in Nat
      BY SMTT(20), <2>3
    <3> HIDE DEF R, elements
    <3> QED
      BY <2>6, <3>1
  <2>8. todo' = new \o Tail(todo) /\ retIndexes' = retIndexes
    BY ZenonT(30), <1>4 DEF WriteNewArray
  <2> HIDE DEF new
  <2> QED
    BY Zenon, <1>1, <1>2, <2>7, <2>8, ItemDone
<1>5. CASE WriteNewArray(v) /\ v \in Scalars
  BY Zenon, <1>5, TestCasesAssumption DEF WriteNewArray
<1> QED
  BY <1>3, <1>4, <1>5 DEF WriteValue

-----------------------------------------------------------------------------
LEMMA StepKeepsOrder == InOrder /\ [Next]_vars => InOrder'
<1> SUFFICES ASSUME InOrder, [Next]_vars PROVE InOrder'
  OBVIOUS
<1>1. WriteOn => Serialize
  BY DEF WriteOn
<1>2. CASE Serialize
  BY <1>2, NumberKeepsOrder, CallKeepsOrder, ResultKeepsOrder, ValueKeepsOrder DEF Serialize
<1>3. ReadOn => UNCHANGED <<tc, writer>>
  BY DEF ReadOn, Deserialize, ReadRoot, ReadCallsCount, ReadCallee, ReadCtor, ReadArgsCount,
         NextResult, ReadScalar, ReadArray, ReadReference, Read
<1>4. DumpOn => UNCHANGED <<tc, writer>>
  BY Zenon DEF DumpOn, Dump, DumpFunctionCall, DumpReturn, DumpScalar, DumpArray, DumpReference, Keep
<1>5. SynthesiseOn => UNCHANGED <<tc, writer>>
  BY Zenon DEF SynthesiseOn, Synthesise, EnterMainFunction, SynthesiseCall, SynthesiseKnown,
         SynthesisePlaceholder, SynthesiseScalar, SynthesiseArray, UseVariable,
         SynthesiseFunctionCall, Synthesises
<1>6. Finished \/ UNCHANGED vars => UNCHANGED <<tc, writer>>
  BY DEF Finished, vars
<1>7. CASE UNCHANGED <<tc, writer>>
  BY <1>7 DEF InOrder, writer
<1> QED
  BY <1>1, <1>2, <1>3, <1>4, <1>5, <1>6, <1>7 DEF Next

LEMMA OrderNumbersResults == InOrder => ResultsNumbered
<1> SUFFICES ASSUME InOrder, Upcoming("value"), Head(todo).n \notin Scalars \cup Arrays
             PROVE  Head(todo).n \in DOMAIN retIndexes
  BY DEF ResultsNumbered
<1>1. Head(todo) \in Ready(tc, DOMAIN retIndexes)
  BY HeadReady DEF Upcoming
<1>2. DOMAIN tc.heap \subseteq Arrays
  BY TestCasesAssumption DEF InOrder
<1>3. Head(todo).n \in Nat \ {0} /\ Head(todo).is = "value"
  BY <1>1, <1>2 DEF Ready, Items, Writable, Value, Upcoming
<1> QED
  BY <1>1, <1>3 DEF Ready, Needs

(* Whatever the test case, as long as its references are backward, the serializer
   finds the number of every result a placeholder stands for, so that at() never
   throws (TestCaseSerializer.cpp:105). *)
THEOREM SerializerNeverThrows == Spec => []ResultsNumbered
<1>1. Init => InOrder
  BY WritingStartsInOrder DEF Init
<1>2. InOrder /\ [Next]_vars => InOrder'
  BY StepKeepsOrder
<1> QED
  BY <1>1, <1>2, OrderNumbersResults, PTL DEF Spec

-----------------------------------------------------------------------------
(* The item at the front is the next one of the list. *)
LEMMA TailContinues ==
  ASSUME NEW S, NEW s \in Seq(S), NEW list, Len(list) \in Nat,
         NEW k \in Nat, k < Len(list), Continues(s, 0, list, k)
  PROVE  /\ s # <<>> /\ Head(s) = list[k + 1] /\ s[1] = list[k + 1]
         /\ Tail(s) \in Seq(S)
         /\ Continues(Tail(s), 0, list, k + 1)
<1>1. s # <<>> /\ Len(s) = Len(list) - k
  BY DEF Continues
<1>2. 1 \in 1 .. Len(list) - k
  OBVIOUS
<1>3. s[0 + 1] = list[k + 1]
  BY <1>2 DEF Continues
<1>4. Tail(s) \in Seq(S) /\ Len(Tail(s)) = Len(s) - 1 /\ Head(s) = s[1]
  BY <1>1
<1>5. \A x \in 1 .. Len(list) - (k + 1) : Tail(s)[0 + x] = list[k + 1 + x]
  <2> TAKE x \in 1 .. Len(list) - (k + 1)
  <2>1. Tail(s)[x] = s[x + 1]
    BY <1>1, <1>4
  <2>2. x + 1 \in 1 .. Len(list) - k
    OBVIOUS
  <2>3. s[0 + (x + 1)] = list[k + (x + 1)]
    BY <2>2 DEF Continues
  <2>4. x \in Nat /\ 0 + x = x /\ 0 + (x + 1) = x + 1 /\ k + (x + 1) = k + 1 + x
    OBVIOUS
  <2> QED
    BY <2>1, <2>3, <2>4
<1> QED
  BY <1>1, <1>3, <1>4, <1>5 DEF Continues

(* An item in front of the list is done. *)
LEMMA TailBefore ==
  ASSUME NEW S, NEW s \in Seq(S), NEW list, Len(list) \in Nat,
         NEW k \in Nat, NEW p \in Nat \ {0}, Continues(s, p, list, k)
  PROVE  /\ s # <<>> /\ Head(s) = s[1] /\ Tail(s) \in Seq(S)
         /\ Continues(Tail(s), p - 1, list, k)
<1>1. s # <<>> /\ Len(s) = p + Len(list) - k /\ k <= Len(list)
  BY DEF Continues
<1>2. Tail(s) \in Seq(S) /\ Len(Tail(s)) = Len(s) - 1 /\ Head(s) = s[1]
  BY <1>1
<1>3. \A x \in 1 .. Len(list) - k : Tail(s)[p - 1 + x] = list[k + x]
  <2> TAKE x \in 1 .. Len(list) - k
  <2>1. p - 1 + x \in 1 .. Len(Tail(s))
    BY <1>1, <1>2
  <2>2. Tail(s)[p - 1 + x] = s[p + x]
    BY <1>1, <1>2, <2>1
  <2> QED
    BY <2>2 DEF Continues
<1>4. k \in 0 .. Len(list) /\ Len(Tail(s)) = p - 1 + Len(list) - k
  BY <1>1, <1>2 DEF Continues
<1> QED
  BY <1>1, <1>2, <1>3, <1>4 DEF Continues

(* Items come in front of the list. *)
LEMMA PutInFront ==
  ASSUME NEW S, NEW s \in Seq(S), NEW new \in Seq(S), NEW list, Len(list) \in Nat,
         NEW k \in Nat, NEW p \in Nat, Continues(s, p, list, k)
  PROVE  /\ new \o s \in Seq(S)
         /\ Continues(new \o s, Len(new) + p, list, k)
<1>1. PICK w : w = new \o s
  OBVIOUS
<1>2. /\ w \in Seq(S) /\ Len(w) = Len(new) + Len(s) /\ Len(new) \in Nat /\ Len(s) \in Nat
      /\ \A x \in 1 .. Len(s) : w[Len(new) + x] = s[x]
  BY <1>1
<1>3. /\ Len(s) = p + Len(list) - k /\ k \in 0 .. Len(list)
      /\ \A x \in 1 .. Len(list) - k : s[p + x] = list[k + x]
  BY DEF Continues
<1>4. Len(w) = (Len(new) + p) + Len(list) - k
  BY <1>2, <1>3
<1>5. \A x \in 1 .. Len(list) - k : w[(Len(new) + p) + x] = list[k + x]
  <2> TAKE x \in 1 .. Len(list) - k
  <2>1. p + x \in 1 .. Len(s) /\ (Len(new) + p) + x = Len(new) + (p + x)
    BY <1>2, <1>3
  <2> QED
    BY <1>2, <1>3, <2>1
<1>6. Continues(w, Len(new) + p, list, k)
  BY <1>3, <1>4, <1>5 DEF Continues
<1> QED
  BY <1>1, <1>2, <1>6

-----------------------------------------------------------------------------
LEMMA TestCaseTyped ==
  ASSUME NEW t \in TestCases
  PROVE  /\ t.root \in Nat /\ t.calls \in Seq(Call) /\ DOMAIN t.heap \subseteq Arrays
         /\ \A a \in DOMAIN t.heap : t.heap[a] \in Seq(Value)
         /\ Len(t.calls) \in Nat /\ DOMAIN t.calls = 1 .. Len(t.calls)
  BY TestCasesAssumption

(* What is understood stays understood when another array is numbered. *)
LEMMA StillGot ==
  ASSUME NEW vi, NEW a, a \notin DOMAIN vi, NEW m, NEW v, NEW r, Got(vi, v, r)
  PROVE  Got(Put(vi, a, m), v, r)
  BY DEF Got, Put

(* The first owed element is read. *)
LEMMA ElementRead ==
  ASSUME NEW t \in TestCases, NEW vi, NEW heap, NEW known,
         ArraysNumbered(t, vi, heap, known),
         NEW owed \in Seq(Owed), owed # <<>>,
         OwedOnce(t, owed, vi, heap, known), ElementsGot(t, vi, heap, known),
         NEW r \in Loadable, Got(vi, t.heap[owed[1].array][owed[1].at], r)
  PROVE  LET m  == vi[owed[1].array]
             h2 == [heap EXCEPT ![m] = Append(@, r)]
         IN  /\ m \in DOMAIN heap /\ Tail(owed) \in Seq(Owed)
             /\ ArraysNumbered(t, vi, h2, known)
             /\ OwedOnce(t, Tail(owed), vi, h2, known)
             /\ ElementsGot(t, vi, h2, known)
<1> DEFINE b  == owed[1].array
<1> DEFINE m  == vi[b]
<1> DEFINE h2 == [heap EXCEPT ![m] = Append(@, r)]
<1>1. /\ Len(owed) \in Nat \ {0} /\ DOMAIN owed = 1 .. Len(owed) /\ 1 \in DOMAIN owed
      /\ \A j \in DOMAIN owed : owed[j] \in Owed
  OBVIOUS
<1>2. /\ Tail(owed) \in Seq(Owed) /\ Len(Tail(owed)) = Len(owed) - 1
      /\ DOMAIN Tail(owed) = 1 .. Len(owed) - 1
      /\ \A j \in 1 .. Len(owed) - 1 : Tail(owed)[j] = owed[j + 1] /\ j + 1 \in DOMAIN owed
  BY <1>1
<1>3. b \in known /\ b \in DOMAIN vi /\ m \in DOMAIN heap /\ heap[m] \in Seq(Loadable)
  BY <1>1 DEF OwedOnce, ArraysNumbered
<1>4. /\ DOMAIN h2 = DOMAIN heap /\ h2[m] = Append(heap[m], r)
      /\ \A i \in DOMAIN heap : i # m => h2[i] = heap[i]
  BY <1>3
<1>5. /\ Append(heap[m], r) \in Seq(Loadable) /\ Len(heap[m]) \in Nat
      /\ Len(Append(heap[m], r)) = Len(heap[m]) + 1
      /\ Append(heap[m], r)[Len(heap[m]) + 1] = r
      /\ \A x \in 1 .. Len(heap[m]) : Append(heap[m], r)[x] = heap[m][x]
  BY SMTT(20), <1>3
<1>6. ArraysNumbered(t, vi, h2, known)
  BY <1>4, <1>5 DEF ArraysNumbered
(* It is the next element of its array. *)
<1>7. \A a \in known : /\ a \in DOMAIN vi /\ vi[a] \in DOMAIN heap
                       /\ heap[vi[a]] \in Seq(Loadable) /\ Len(heap[vi[a]]) \in Nat
                       /\ Len(t.heap[a]) \in Nat /\ (vi[a] = m => a = b)
  <2> TAKE a \in known
  <2>1. a \in DOMAIN vi /\ a \in DOMAIN t.heap /\ vi[a] \in DOMAIN heap
    BY DEF ArraysNumbered
  <2>2. heap[vi[a]] \in Seq(Loadable) /\ t.heap[a] \in Seq(Value)
    BY <2>1, TestCaseTyped DEF ArraysNumbered
  <2>3. vi[a] = m => a = b
    BY <1>3, <2>1 DEF ArraysNumbered
  <2> QED
    BY <2>1, <2>2, <2>3
<1>8. owed[1].at \in Nat /\ Len(heap[m]) < owed[1].at /\ owed[1].at <= Len(t.heap[b])
  BY <1>1 DEF Owed, OwedOnce
<1>9. owed[1].at = Len(heap[m]) + 1
  <2> DEFINE x == Len(heap[m]) + 1
  <2>1. x \in Len(heap[vi[b]]) + 1 .. Len(t.heap[b])
    BY <1>3, <1>5, <1>7, <1>8
  <2>2. PICK j \in DOMAIN owed : owed[j].array = b /\ owed[j].at = x
    BY Zenon, <1>3, <2>1 DEF OwedOnce
  <2>3. CASE j = 1
    BY <2>2, <2>3
  <2>4. CASE j # 1
    <3>1. 1 < j
      BY <1>1, <2>4
    <3>2. owed[1].at < owed[j].at
      BY Zenon, <1>1, <2>2, <3>1 DEF OwedOnce
    <3> QED
      BY <1>5, <1>8, <2>2, <3>2
  <2> QED
    BY <2>3, <2>4
<1>10. \A a \in known : Len(h2[vi[a]]) = IF a = b THEN Len(heap[m]) + 1 ELSE Len(heap[vi[a]])
  BY Zenon, <1>4, <1>5, <1>7
<1>11. ElementsGot(t, vi, h2, known)
  <2> SUFFICES ASSUME NEW a \in known
               PROVE  /\ Len(h2[vi[a]]) <= Len(t.heap[a])
                      /\ \A x \in 1 .. Len(h2[vi[a]]) : Got(vi, t.heap[a][x], h2[vi[a]][x])
    BY DEF ElementsGot
  <2>1. CASE a # b
    <3>1. vi[a] # m /\ h2[vi[a]] = heap[vi[a]]
      BY Zenon, <1>4, <1>7, <2>1
    <3> QED
      BY <3>1 DEF ElementsGot
  <2>2. CASE a = b
    <3>1. Len(h2[vi[a]]) <= Len(t.heap[a])
      BY Zenon, <1>8, <1>9, <1>10, <2>2
    <3>2. ASSUME NEW x \in 1 .. Len(h2[vi[a]])
          PROVE  Got(vi, t.heap[a][x], h2[vi[a]][x])
      <4>1. CASE x <= Len(heap[m])
        <5>1. x \in 1 .. Len(heap[m])
          BY SMTT(20), <1>5, <4>1
        <5>2. h2[vi[a]][x] = heap[vi[a]][x]
          BY Zenon, <1>4, <1>5, <2>2, <5>1
        <5> QED
          BY Zenon, <2>2, <5>1, <5>2 DEF ElementsGot
      <4>2. CASE x = Len(heap[m]) + 1
        BY ZenonT(30), <1>4, <1>5, <1>9, <2>2, <4>2
      <4> QED
        BY <1>5, <1>10, <2>2, <4>1, <4>2
    <3> QED
      BY Zenon, <3>1, <3>2
  <2> QED
    BY Zenon, <2>1, <2>2
<1>12. OwedOnce(t, Tail(owed), vi, h2, known)
  <2>1. ASSUME NEW j \in DOMAIN Tail(owed)
        PROVE  /\ Tail(owed)[j].array \in known
               /\ Len(h2[vi[Tail(owed)[j].array]]) < Tail(owed)[j].at
               /\ Tail(owed)[j].at <= Len(t.heap[Tail(owed)[j].array])
    <3> DEFINE i == j + 1
    <3>1. i \in DOMAIN owed /\ Tail(owed)[j] = owed[i] /\ 1 < i /\ owed[i].at \in Nat
      BY <1>1, <1>2, <2>1 DEF Owed
    <3>2. /\ owed[i].array \in known /\ Len(heap[vi[owed[i].array]]) < owed[i].at
          /\ owed[i].at <= Len(t.heap[owed[i].array])
      BY <3>1 DEF OwedOnce
    <3>3. owed[i].array = b => owed[1].at < owed[i].at
      BY <1>1, <3>1 DEF OwedOnce
    <3>4. Len(h2[vi[owed[i].array]]) < owed[i].at
      BY <1>9, <1>10, <3>1, <3>2, <3>3
    <3> QED
      BY <3>1, <3>2, <3>4
  <2>2. ASSUME NEW j \in DOMAIN Tail(owed), NEW k \in DOMAIN Tail(owed), j < k,
               Tail(owed)[j].array = Tail(owed)[k].array
        PROVE  Tail(owed)[j].at < Tail(owed)[k].at
    <3>1. j \in Nat /\ k \in Nat /\ j + 1 \in DOMAIN owed /\ k + 1 \in DOMAIN owed /\ j + 1 < k + 1
      BY <1>2, <2>2
    <3>2. Tail(owed)[j] = owed[j + 1] /\ Tail(owed)[k] = owed[k + 1]
      BY <1>2
    <3> QED
      BY <2>2, <3>1, <3>2 DEF OwedOnce
  <2>3. ASSUME NEW a \in known, NEW x \in Len(h2[vi[a]]) + 1 .. Len(t.heap[a])
        PROVE  \E j \in DOMAIN Tail(owed) : Tail(owed)[j].array = a /\ Tail(owed)[j].at = x
    <3>0. Len(h2[vi[a]]) = IF a = b THEN Len(heap[m]) + 1 ELSE Len(heap[vi[a]])
      BY <1>10
    <3>1. x \in Len(heap[vi[a]]) + 1 .. Len(t.heap[a]) /\ (a = b => x # owed[1].at)
      <4>1. CASE a = b
        BY <1>3, <1>5, <1>7, <1>9, <2>3, <3>0, <4>1
      <4>2. CASE a # b
        BY <1>7, <2>3, <3>0, <4>2
      <4> QED
        BY <4>1, <4>2
    <3>2. PICK j \in DOMAIN owed : owed[j].array = a /\ owed[j].at = x
      BY <3>1 DEF OwedOnce
    <3>3. j # 1
      BY <3>1, <3>2
    <3>4. j - 1 \in 1 .. Len(owed) - 1 /\ j - 1 + 1 = j
      BY <1>1, <3>3
    <3>5. Tail(owed)[j - 1] = owed[j] /\ j - 1 \in DOMAIN Tail(owed)
      BY <1>2, <3>4
    <3> QED
      BY Zenon, <3>2, <3>5
  <2> QED
    BY <2>1, <2>2, <2>3 DEF OwedOnce
<1> QED
  BY <1>2, <1>3, <1>6, <1>11, <1>12

(* Two lists in a row: what is where. *)
LEMMA Joined ==
  ASSUME NEW S, NEW s \in Seq(S), NEW u \in Seq(S)
  PROVE  /\ s \o u \in Seq(S) /\ Len(s) \in Nat /\ Len(u) \in Nat /\ Len(s \o u) = Len(s) + Len(u)
         /\ DOMAIN s = 1 .. Len(s) /\ DOMAIN u = 1 .. Len(u)
         /\ DOMAIN (s \o u) = 1 .. Len(s) + Len(u)
         /\ \A j \in 1 .. Len(s) : (s \o u)[j] = s[j] /\ j \in DOMAIN (s \o u)
         /\ \A j \in 1 .. Len(u) : (s \o u)[Len(s) + j] = u[j] /\ Len(s) + j \in DOMAIN (s \o u)
         /\ \A j \in DOMAIN (s \o u) :
              \/ j \in 1 .. Len(s)
              \/ j > Len(s) /\ j - Len(s) \in DOMAIN u /\ (s \o u)[j] = u[j - Len(s)]
<1>1. /\ s \o u \in Seq(S) /\ Len(s) \in Nat /\ Len(u) \in Nat /\ Len(s \o u) = Len(s) + Len(u)
      /\ DOMAIN s = 1 .. Len(s) /\ DOMAIN u = 1 .. Len(u) /\ DOMAIN (s \o u) = 1 .. Len(s \o u)
  OBVIOUS
<1>2. \A j \in 1 .. Len(s) : (s \o u)[j] = s[j] /\ j \in 1 .. Len(s) + Len(u)
  BY <1>1
<1>3. \A j \in 1 .. Len(u) : (s \o u)[Len(s) + j] = u[j] /\ Len(s) + j \in 1 .. Len(s) + Len(u)
  BY <1>1
<1>4. ASSUME NEW j \in 1 .. Len(s) + Len(u), j \notin 1 .. Len(s)
      PROVE  j > Len(s) /\ j - Len(s) \in 1 .. Len(u) /\ (s \o u)[j] = u[j - Len(s)]
  <2>1. j > Len(s) /\ j - Len(s) \in 1 .. Len(u) /\ Len(s) + (j - Len(s)) = j
    BY <1>1, <1>4
  <2> QED
    BY <1>3, <2>1
<1> QED
  BY <1>1, <1>2, <1>3, <1>4

LEMMA JoinedRight ==
  ASSUME NEW S, NEW s \in Seq(S), NEW u \in Seq(S), NEW j \in 1 .. Len(u)
  PROVE  (s \o u)[Len(s) + j] = u[j]
  BY Joined

LEMMA InFrontTail ==
  ASSUME NEW t, NEW vi, NEW S, NEW td \in Seq(S), NEW ex \in Seq(S), NEW owed \in Seq(Owed), owed # <<>>,
         Len(td) >= Len(owed), Len(ex) >= Len(owed), InFront(t, td, ex, owed, vi)
  PROVE  InFront(t, Tail(td), Tail(ex), Tail(owed), vi)
<1>1. Len(owed) \in Nat \ {0} /\ DOMAIN owed = 1 .. Len(owed) /\ td # <<>> /\ ex # <<>>
  OBVIOUS
<1>2. /\ DOMAIN Tail(owed) = 1 .. Len(owed) - 1
      /\ \A j \in 1 .. Len(owed) - 1 :
           j + 1 \in DOMAIN owed /\ Tail(owed)[j] = owed[j + 1] /\ Tail(td)[j] = td[j + 1] /\ Tail(ex)[j] = ex[j + 1]
  BY <1>1
<1> QED
  BY <1>2 DEF InFront

(* The array a gets the number m; its elements are not owed yet. *)
LEMMA ArrayNumbered ==
  ASSUME NEW t \in TestCases, NEW vi, NEW heap, ArraysNumbered(t, vi, heap, DOMAIN vi),
         NEW td, NEW ex, NEW owed \in Seq(Owed), InFront(t, td, ex, owed, vi),
         OwedOnce(t, owed, vi, heap, DOMAIN vi), ElementsGot(t, vi, heap, DOMAIN vi),
         NEW a \in DOMAIN t.heap, a \notin DOMAIN vi, NEW m, m \notin DOMAIN heap,
         NEW v2, v2 = Put(vi, a, m), NEW h2, h2 = Put(heap, m, <<>>)
  PROVE  /\ ArraysNumbered(t, v2, h2, DOMAIN vi) /\ InFront(t, td, ex, owed, v2)
         /\ OwedOnce(t, owed, v2, h2, DOMAIN vi) /\ ElementsGot(t, v2, h2, DOMAIN vi)
<1>1. /\ DOMAIN v2 = DOMAIN vi \cup {a} /\ v2[a] = m
      /\ \A b \in DOMAIN vi : v2[b] = vi[b]
  BY DEF Put
<1>2. /\ DOMAIN h2 = DOMAIN heap \cup {m} /\ h2[m] = <<>>
      /\ \A i \in DOMAIN heap : h2[i] = heap[i]
  BY DEF Put
<1>3. \A b \in DOMAIN vi : vi[b] \in DOMAIN heap /\ v2[b] = vi[b] /\ h2[v2[b]] = heap[vi[b]]
  BY <1>1, <1>2 DEF ArraysNumbered
<1>4. \A v, r : Got(vi, v, r) => Got(v2, v, r)
  BY StillGot
<1>5. \A j \in DOMAIN owed : owed[j].array \in DOMAIN vi
  BY DEF OwedOnce
<1>6. ArraysNumbered(t, v2, h2, DOMAIN vi)
  <2>1. \A b \in DOMAIN v2 : v2[b] \in DOMAIN h2
    BY <1>1, <1>2, <1>3
  <2>2. \A b, c \in DOMAIN v2 : v2[b] = v2[c] => b = c
    BY <1>1, <1>3 DEF ArraysNumbered
  <2>3. \A i \in DOMAIN h2 : h2[i] \in Seq(Loadable)
    <3>1. <<>> \in Seq(Loadable)
      OBVIOUS
    <3> QED
      BY <1>2, <3>1 DEF ArraysNumbered
  <2> QED
    BY <1>1, <2>1, <2>2, <2>3 DEF ArraysNumbered
<1>7. InFront(t, td, ex, owed, v2)
  BY <1>3, <1>5 DEF InFront
<1>8. OwedOnce(t, owed, v2, h2, DOMAIN vi)
  <2>1. \A j \in DOMAIN owed : h2[v2[owed[j].array]] = heap[vi[owed[j].array]]
    BY <1>3, <1>5
  <2> QED
    BY <1>3, <2>1 DEF OwedOnce
<1>9. ElementsGot(t, v2, h2, DOMAIN vi)
  BY <1>3, <1>4 DEF ElementsGot
<1> QED
  BY <1>6, <1>7, <1>8, <1>9

(* Now they are. *)
ElementsOf(t, a) == [x \in 1 .. Len(t.heap[a]) |-> [array |-> a, at |-> x]]

(* The elements of a new array are owed, before all others. *)
LEMMA ElementsOwed ==
  ASSUME NEW t \in TestCases, NEW vi, NEW heap, NEW known, ArraysNumbered(t, vi, heap, known),
         NEW owed \in Seq(Owed), OwedOnce(t, owed, vi, heap, known), ElementsGot(t, vi, heap, known),
         NEW a \in DOMAIN vi, a \notin known, heap[vi[a]] = <<>>
  PROVE  LET all == ElementsOf(t, a) \o owed IN
           /\ all \in Seq(Owed) /\ Len(all) = Len(t.heap[a]) + Len(owed)
           /\ ArraysNumbered(t, vi, heap, known \cup {a})
           /\ OwedOnce(t, all, vi, heap, known \cup {a})
           /\ ElementsGot(t, vi, heap, known \cup {a})
<1> DEFINE new == ElementsOf(t, a)
<1> DEFINE all == new \o owed
<1>1. a \in DOMAIN t.heap /\ a \in Arrays /\ t.heap[a] \in Seq(Value) /\ Len(t.heap[a]) \in Nat
  BY TestCaseTyped DEF ArraysNumbered
<1>2. /\ new \in Seq(Owed) /\ Len(new) = Len(t.heap[a])
      /\ \A x \in 1 .. Len(t.heap[a]) : new[x] = [array |-> a, at |-> x]
  BY <1>1 DEF ElementsOf, Owed
<1> HIDE DEF new
<1>3. /\ all \in Seq(Owed) /\ Len(all) = Len(new) + Len(owed) /\ Len(owed) \in Nat /\ Len(new) \in Nat
      /\ DOMAIN all = 1 .. Len(new) + Len(owed) /\ DOMAIN owed = 1 .. Len(owed)
      /\ \A j \in 1 .. Len(new) : all[j] = new[j] /\ j \in DOMAIN all
      /\ \A j \in 1 .. Len(owed) : all[Len(new) + j] = owed[j] /\ Len(new) + j \in DOMAIN all
      /\ \A j \in DOMAIN all :
           \/ j \in 1 .. Len(new)
           \/ j > Len(new) /\ j - Len(new) \in DOMAIN owed /\ all[j] = owed[j - Len(new)]
  <2>1. new \in Seq(Owed) /\ owed \in Seq(Owed)
    BY <1>2
  <2>2. all \in Seq(Owed) /\ Len(all) = Len(new) + Len(owed) /\ Len(owed) \in Nat /\ Len(new) \in Nat
    BY <2>1, Joined
  <2>3. DOMAIN all = 1 .. Len(new) + Len(owed) /\ DOMAIN owed = 1 .. Len(owed)
    BY <2>1, JoinedRight
  <2>4. \A j \in 1 .. Len(new) : all[j] = new[j] /\ j \in DOMAIN all
    BY <2>1, Joined
  <2>5. \A j \in 1 .. Len(owed) : all[Len(new) + j] = owed[j] /\ Len(new) + j \in DOMAIN all
    BY <2>1, Joined
  <2>6. \A j \in DOMAIN all :
           \/ j \in 1 .. Len(new)
           \/ j > Len(new) /\ j - Len(new) \in DOMAIN owed /\ all[j] = owed[j - Len(new)]
    BY <2>1, Joined
  <2> QED
    BY <2>2, <2>3, <2>4, <2>5, <2>6
<1> HIDE DEF all
<1> DEFINE q == Len(new)
<1>4. \A j \in DOMAIN all : \/ j \in 1 .. q /\ all[j].array = a /\ all[j].at = j
                            \/ /\ j - q \in DOMAIN owed /\ j > q /\ all[j] = owed[j - q]
                               /\ all[j].array \in known
  <2> TAKE j \in DOMAIN all
  <2>1. CASE j \in 1 .. q
    <3>1. j \in 1 .. Len(t.heap[a]) /\ all[j] = new[j]
      BY <1>2, <1>3, <2>1
    <3>2. all[j] = [array |-> a, at |-> j]
      BY <1>2, <3>1
    <3> QED
      BY <2>1, <3>2
  <2>2. CASE j > q /\ j - q \in DOMAIN owed /\ all[j] = owed[j - q]
    BY <2>2 DEF OwedOnce
  <2> QED
    BY <1>3, <2>1, <2>2
<1>5. Len(heap[vi[a]]) = 0
  OBVIOUS
<1>6. OwedOnce(t, all, vi, heap, known \cup {a})
  <2>1. ASSUME NEW j \in DOMAIN all
        PROVE  /\ all[j].array \in known \cup {a}
               /\ Len(heap[vi[all[j].array]]) < all[j].at
               /\ all[j].at <= Len(t.heap[all[j].array])
    BY <1>1, <1>2, <1>4, <1>5 DEF OwedOnce
  <2>2. ASSUME NEW j \in DOMAIN all, NEW k \in DOMAIN all, j < k, all[j].array = all[k].array
        PROVE  all[j].at < all[k].at
    <3>0. j \in Nat /\ k \in Nat /\ q \in Nat
      BY <1>1, <1>2, <1>3
    <3>1. CASE j \in 1 .. q /\ all[j].array = a /\ all[j].at = j
      BY <1>4, <2>2, <3>1
    <3>2. CASE j - q \in DOMAIN owed /\ j > q /\ all[j] = owed[j - q] /\ all[j].array \in known
      <4>1. k - q \in DOMAIN owed /\ all[k] = owed[k - q] /\ j - q < k - q
        BY <1>4, <2>2, <3>0, <3>2
      <4> QED
        BY <2>2, <3>2, <4>1 DEF OwedOnce
    <3> QED
      BY <1>4, <3>1, <3>2
  <2>3. ASSUME NEW b \in known \cup {a}, NEW x \in Len(heap[vi[b]]) + 1 .. Len(t.heap[b])
        PROVE  \E j \in DOMAIN all : all[j].array = b /\ all[j].at = x
    <3>1. CASE b = a
      <4>1. x \in 1 .. Len(t.heap[a])
        BY <1>5, <2>3, <3>1
      <4>2. x \in DOMAIN all /\ all[x] = [array |-> a, at |-> x]
        BY <1>1, <1>2, <1>3, <4>1
      <4> QED
        BY <3>1, <4>2
    <3>2. CASE b \in known
      <4>1. PICK j \in DOMAIN owed : owed[j].array = b /\ owed[j].at = x
        BY <2>3, <3>2 DEF OwedOnce
      <4>2. q + j \in DOMAIN all /\ all[q + j] = owed[j]
        BY <1>1, <1>2, <1>3
      <4> QED
        BY <4>1, <4>2
    <3> QED
      BY <3>1, <3>2
  <2> QED
    BY <2>1, <2>2, <2>3 DEF OwedOnce
<1>7. ElementsGot(t, vi, heap, known \cup {a})
  <2>1. Len(heap[vi[a]]) <= Len(t.heap[a]) /\ 1 .. Len(heap[vi[a]]) = {}
    BY <1>1, <1>5
  <2> QED
    BY <2>1 DEF ElementsGot
<1>8. ArraysNumbered(t, vi, heap, known \cup {a})
  BY DEF ArraysNumbered
<1> QED
  BY <1>2, <1>3, <1>6, <1>7, <1>8 DEF all, new

(* Writer and reader both put them in front. *)
LEMMA ElementsInFront ==
  ASSUME NEW t \in TestCases, NEW vi, NEW S, NEW td \in Seq(S), NEW ex \in Seq(S),
         NEW owed \in Seq(Owed), Len(td) >= Len(owed), Len(ex) >= Len(owed),
         InFront(t, td, ex, owed, vi),
         NEW a \in DOMAIN t.heap, NEW m, m = vi[a],
         NEW writes, writes = WritesOf(t, a), writes \in Seq(S),
         NEW fields, fields = Copies(Len(t.heap[a]), Item("element", m)), fields \in Seq(S)
  PROVE  InFront(t, writes \o td, fields \o ex, ElementsOf(t, a) \o owed, vi)
<1> DEFINE new == ElementsOf(t, a)
<1> DEFINE q == Len(t.heap[a])
<1>1. a \in Arrays /\ t.heap[a] \in Seq(Value) /\ q \in Nat /\ DOMAIN t.heap[a] = 1 .. q
  BY TestCaseTyped
<1>2. /\ new \in Seq(Owed) /\ Len(new) = q
      /\ \A x \in 1 .. q : new[x] = [array |-> a, at |-> x]
  BY <1>1 DEF ElementsOf, Owed
<1>3. /\ Len(writes) = q /\ Len(fields) = q
      /\ \A x \in 1 .. q : writes[x] = ToWrite(t.heap[a][x]) /\ fields[x] = Item("element", m)
  BY <1>1 DEF Copies, WritesOf
<1> HIDE DEF new, q
<1>4. /\ new \in Seq(Owed) /\ Len(new) = q /\ Len(writes) = q /\ Len(fields) = q
  BY <1>2, <1>3
<1>5. Len(owed) \in Nat /\ Len(td) \in Nat /\ Len(ex) \in Nat
  OBVIOUS
<1>7. ASSUME NEW i \in 1 .. q
      PROVE  /\ (new \o owed)[i] = new[i]
             /\ (writes \o td)[i] = writes[i] /\ (fields \o ex)[i] = fields[i]
  BY <1>4, <1>7, Joined
<1>8. ASSUME NEW i \in 1 .. Len(owed)
      PROVE  /\ (new \o owed)[q + i] = owed[i]
             /\ (writes \o td)[q + i] = td[i] /\ (fields \o ex)[q + i] = ex[i]
  <2>1. i \in 1 .. Len(td) /\ i \in 1 .. Len(ex)
    BY <1>5, <1>8
  <2>2. (new \o owed)[Len(new) + i] = owed[i]
    BY <1>4, <1>8, JoinedRight
  <2>3. (writes \o td)[Len(writes) + i] = td[i]
    BY <2>1, JoinedRight
  <2>4. (fields \o ex)[Len(fields) + i] = ex[i]
    BY <2>1, JoinedRight
  <2> QED
    BY <1>4, <2>2, <2>3, <2>4
<1>6. ASSUME NEW j \in DOMAIN (new \o owed)
      PROVE  /\ (writes \o td)[j] = ToWrite(t.heap[(new \o owed)[j].array][(new \o owed)[j].at])
             /\ (fields \o ex)[j] = Item("element", vi[(new \o owed)[j].array])
  <2>1. CASE j \in 1 .. q
    <3>1. (new \o owed)[j] = [array |-> a, at |-> j]
      BY <1>2, <1>7, <2>1
    <3>2. (writes \o td)[j] = ToWrite(t.heap[a][j]) /\ (fields \o ex)[j] = Item("element", m)
      BY <1>3, <1>7, <2>1
    <3>3. (new \o owed)[j].array = a /\ (new \o owed)[j].at = j
      BY <3>1
    <3> QED
      BY <3>2, <3>3
  <2>2. CASE j > q /\ j - q \in 1 .. Len(owed)
    <3> DEFINE i == j - q
    <3>1. i \in 1 .. Len(owed) /\ i \in DOMAIN owed /\ q + i = j
      <4>1. j \in Int
        BY <1>4, Joined
      <4> QED
        BY <1>1, <1>5, <2>2, <4>1
    <3> HIDE DEF i
    <3>2. td[i] = ToWrite(t.heap[owed[i].array][owed[i].at]) /\ ex[i] = Item("element", vi[owed[i].array])
      BY <3>1 DEF InFront
    <3>3. /\ (new \o owed)[j] = owed[i] /\ (writes \o td)[j] = td[i] /\ (fields \o ex)[j] = ex[i]
      BY <1>8, <3>1
    <3> QED
      BY <3>2, <3>3
  <2>3. j \in 1 .. q \/ (j > q /\ j - q \in 1 .. Len(owed))
    BY SMTT(20), <1>4, Joined
  <2> QED
    BY <2>1, <2>2, <2>3
<1> QED
  BY <1>6 DEF InFront, new

-----------------------------------------------------------------------------
LEMMA Tokens ==
  ASSUME NEW n \in Nat \cup BOOLEAN \cup Value, NEW is \in Kind
  PROVE  Item(is, n) \in Token
  BY DEF Item, Token

LEMMA CallTyped ==
  ASSUME NEW t \in TestCases, NEW d \in Nat, d < Len(t.calls)
  PROVE  /\ t.calls[d + 1] \in Call /\ t.calls[d + 1].args \in Seq(Value)
         /\ Len(t.calls[d + 1].args) \in Nat
         /\ DOMAIN t.calls[d + 1].args = 1 .. Len(t.calls[d + 1].args)
         /\ t.calls[d + 1].callee \in Nat /\ t.calls[d + 1].ctor \in BOOLEAN
         /\ ThisOf(t.calls[d + 1]) \in Value
<1>1. d + 1 \in DOMAIN t.calls /\ t.calls \in Seq(Call)
  BY TestCaseTyped
<1>2. t.calls[d + 1] \in Call
  BY <1>1
<1>3. Undefined \in Value
  BY TestCasesAssumption DEF Value
<1>4. t.calls[d + 1].this \in Value \cup {NoThis} /\ t.calls[d + 1].args \in Seq(Value)
      /\ t.calls[d + 1].callee \in Nat /\ t.calls[d + 1].ctor \in BOOLEAN
  BY <1>2 DEF Call
<1>5. ThisOf(t.calls[d + 1]) \in Value
  BY <1>3, <1>4 DEF ThisOf
<1>6. /\ Len(t.calls[d + 1].args) \in Nat
      /\ DOMAIN t.calls[d + 1].args = 1 .. Len(t.calls[d + 1].args)
  BY <1>4
<1> QED
  BY <1>2, <1>4, <1>5, <1>6

LEMMA CallsAfterItems ==
  ASSUME NEW t \in TestCases, NEW d \in Nat, d <= Len(t.calls)
  PROVE  /\ CallsAfter(t, d) \in Seq(Token) /\ Len(CallsAfter(t, d)) = Len(t.calls) - d
         /\ \A x \in 1 .. Len(t.calls) - d : CallsAfter(t, d)[x] = Item("call", d + x)
         /\ CalleesAfter(t, d) \in Seq(Token) /\ Len(CalleesAfter(t, d)) = Len(t.calls) - d
         /\ \A x \in 1 .. Len(t.calls) - d : CalleesAfter(t, d)[x] = Item("callee", 0)
<1> DEFINE m == Len(t.calls) - d
<1>1. Len(t.calls) \in Nat /\ m \in Nat
  BY TestCaseTyped
<1>2. Item("callee", 0) \in Token /\ \A x \in 1 .. m : Item("call", d + x) \in Token
  <2> HIDE DEF m
  <2>1. \A x \in 1 .. m : d + x \in Nat
    BY <1>1
  <2>2. \A y \in Nat : Item("call", y) \in Token
    BY Tokens DEF Kind
  <2>3. Item("callee", 0) \in Token
    BY Tokens DEF Kind
  <2> QED
    BY <2>1, <2>2, <2>3
<1>3. CallsAfter(t, d) = [x \in 1 .. m |-> Item("call", d + x)]
  BY DEF CallsAfter
<1>4. CalleesAfter(t, d) = [x \in 1 .. m |-> Item("callee", 0)]
  BY DEF CalleesAfter, Copies
<1> HIDE DEF m
<1>5. /\ CallsAfter(t, d) \in Seq(Token) /\ Len(CallsAfter(t, d)) = m
      /\ \A x \in 1 .. m : CallsAfter(t, d)[x] = Item("call", d + x)
  BY <1>1, <1>2, <1>3
<1>6. /\ CalleesAfter(t, d) \in Seq(Token) /\ Len(CalleesAfter(t, d)) = m
      /\ \A x \in 1 .. m : CalleesAfter(t, d)[x] = Item("callee", 0)
  BY <1>1, <1>2, <1>4
<1> QED
  BY <1>5, <1>6 DEF m

LEMMA Single ==
  ASSUME NEW S, NEW x \in S
  PROVE  <<x>> \in Seq(S) /\ Len(<<x>>) = 1 /\ <<x>>[1] = x
  OBVIOUS

LEMMA Four ==
  ASSUME NEW S, NEW a \in S, NEW b \in S, NEW c \in S, NEW d \in S
  PROVE  /\ <<a, b, c, d>> \in Seq(S) /\ Len(<<a, b, c, d>>) = 4
         /\ <<a, b, c, d>>[1] = a /\ <<a, b, c, d>>[2] = b
         /\ <<a, b, c, d>>[3] = c /\ <<a, b, c, d>>[4] = d
  OBVIOUS

(* What the writer writes for a call, item by item. *)
LEMMA ScriptItems ==
  ASSUME NEW t \in TestCases, NEW d \in Nat, d < Len(t.calls)
  PROVE  LET c == t.calls[d + 1]
             s == Script(t, d)
         IN
         /\ s \in Seq(Token) /\ Len(s) = Complete(c) + 1 + Len(t.calls) - (d + 1)
         /\ s[1] = Word(c.callee) /\ s[2] = ToWrite(ThisOf(c))
         /\ s[3] = Flag(c.ctor) /\ s[4] = Word(Len(c.args))
         /\ \A x \in 1 .. Len(c.args) : s[4 + x] = ToWrite(c.args[x])
         /\ s[Complete(c) + 1] = Item("result", d + 1)
         /\ \A x \in 1 .. Len(t.calls) - (d + 1) : s[Complete(c) + 1 + x] = Item("call", d + 1 + x)
<1> DEFINE c == t.calls[d + 1]
<1> DEFINE s == Script(t, d)
<1> DEFINE q == Len(c.args)
<1> DEFINE h == <<Word(c.callee), ToWrite(ThisOf(c)), Flag(c.ctor), Word(Len(c.args))>>
<1> DEFINE a == [k \in DOMAIN c.args |-> ToWrite(c.args[k])]
<1> DEFINE r == <<Item("result", d + 1)>>
<1> DEFINE z == CallsAfter(t, d + 1)
<1>1. /\ c.args \in Seq(Value) /\ q \in Nat /\ DOMAIN c.args = 1 .. q
      /\ c.callee \in Nat /\ c.ctor \in BOOLEAN /\ ThisOf(c) \in Value
  BY CallTyped
<1>2. /\ Word(c.callee) \in Token /\ ToWrite(ThisOf(c)) \in Token /\ Flag(c.ctor) \in Token
      /\ Word(q) \in Token /\ Item("result", d + 1) \in Token
      /\ \A k \in 1 .. q : ToWrite(c.args[k]) \in Token
  <2>1. \A k \in 1 .. q : c.args[k] \in Value
    BY <1>1
  <2>2. d + 1 \in Nat
    OBVIOUS
  <2> HIDE DEF q
  <2>3. \A v \in Value : ToWrite(v) \in Token
    BY Tokens DEF Kind, ToWrite
  <2>4. Word(c.callee) \in Token /\ Flag(c.ctor) \in Token /\ Word(q) \in Token
    BY <1>1, Tokens DEF Kind, Word, Flag
  <2>5. Item("result", d + 1) \in Token
    BY <2>2, Tokens DEF Kind
  <2> QED
    BY <1>1, <2>1, <2>3, <2>4, <2>5
<1>3. /\ Len(h) = 4 /\ h[1] = Word(c.callee) /\ h[2] = ToWrite(ThisOf(c))
      /\ h[3] = Flag(c.ctor) /\ h[4] = Word(q)
  BY <1>2, Four
<1>4. Len(a) = q /\ \A x \in 1 .. q : a[x] = ToWrite(c.args[x])
  BY <1>1, <1>2
<1>5. Len(r) = 1 /\ r[1] = Item("result", d + 1)
  BY <1>2, Single
<1>6. /\ Len(z) = Len(t.calls) - (d + 1)
      /\ \A x \in 1 .. Len(t.calls) - (d + 1) : z[x] = Item("call", d + 1 + x)
  BY TestCaseTyped, CallsAfterItems
<1>7. s = ((h \o a) \o r) \o z
  BY DEF Script, SerializeCall, ThisOf
<1>8. h \in Seq(Token) /\ a \in Seq(Token) /\ r \in Seq(Token) /\ z \in Seq(Token)
  <2>1. h \in Seq(Token)
    BY <1>2, Four
  <2>2. a \in Seq(Token)
    BY <1>1, <1>2
  <2>3. r \in Seq(Token)
    BY <1>2, Single
  <2>4. z \in Seq(Token)
    BY TestCaseTyped, CallsAfterItems
  <2> QED
    BY <2>1, <2>2, <2>3, <2>4
<1> DEFINE ha == h \o a
<1> DEFINE har == ha \o r
<1> HIDE DEF c, s, h, a, r, z, q
<1>9. /\ ha \in Seq(Token) /\ Len(ha) = Len(h) + Len(a)
      /\ \A x \in 1 .. Len(h) : ha[x] = h[x]
      /\ \A x \in 1 .. Len(a) : ha[Len(h) + x] = a[x]
  BY <1>8, Joined
<1>10. /\ har \in Seq(Token) /\ Len(har) = Len(ha) + Len(r)
       /\ \A x \in 1 .. Len(ha) : har[x] = ha[x]
       /\ \A x \in 1 .. Len(r) : har[Len(ha) + x] = r[x]
  <2>1. ha \in Seq(Token)
    BY <1>9
  <2> HIDE DEF ha
  <2> QED
    BY <1>8, <2>1, Joined
<1>11. /\ s \in Seq(Token) /\ Len(s) = Len(har) + Len(z)
       /\ \A x \in 1 .. Len(har) : s[x] = har[x]
       /\ \A x \in 1 .. Len(z) : s[Len(har) + x] = z[x]
  <2>1. har \in Seq(Token)
    BY <1>10
  <2>2. s = har \o z
    BY <1>7
  <2> HIDE DEF har
  <2> QED
    BY <1>8, <2>1, <2>2, Joined
<1> HIDE DEF ha, har
<1>18. Len(ha) = 4 + q /\ Len(har) = 4 + q + 1 /\ Len(t.calls) \in Nat
  BY <1>1, <1>3, <1>4, <1>5, <1>9, <1>10, TestCaseTyped
<1>12. \A x \in 1 .. 4 : s[x] = h[x]
  <2> TAKE x \in 1 .. 4
  <2>1. x \in 1 .. Len(h) /\ x \in 1 .. Len(ha) /\ x \in 1 .. Len(har)
    BY <1>1, <1>3, <1>18
  <2> QED
    BY <1>9, <1>10, <1>11, <2>1
<1>13. \A x \in 1 .. q : s[4 + x] = a[x]
  <2> TAKE x \in 1 .. q
  <2>1. x \in 1 .. Len(a) /\ Len(h) + x \in 1 .. Len(ha) /\ Len(h) + x \in 1 .. Len(har)
    BY <1>1, <1>3, <1>4, <1>18
  <2>2. s[Len(h) + x] = a[x]
    BY <1>9, <1>10, <1>11, <2>1
  <2> QED
    BY <1>3, <2>2
<1>14. s[4 + q + 1] = r[1]
  <2>1. 1 \in 1 .. Len(r) /\ Len(ha) + 1 \in 1 .. Len(har)
    BY <1>1, <1>5, <1>18
  <2>2. s[Len(ha) + 1] = r[1]
    BY <1>10, <1>11, <2>1
  <2> QED
    BY <1>18, <2>2
<1>15. Complete(c) = 4 + q
  BY DEF Complete, q
<1>16. s[1] = h[1] /\ s[2] = h[2] /\ s[3] = h[3] /\ s[4] = h[4]
  BY <1>12
<1>17. \A x \in 1 .. Len(t.calls) - (d + 1) : s[4 + q + 1 + x] = z[x]
  BY <1>6, <1>11, <1>18
<1>19. s \in Seq(Token) /\ Len(s) = 4 + q + 1 + Len(t.calls) - (d + 1)
  BY <1>1, <1>6, <1>11, <1>18
<1> QED
  BY <1>3, <1>4, <1>5, <1>6, <1>13, <1>14, <1>15, <1>16, <1>17, <1>19 DEF q, c, s

(* The fields the reader starts a call with. *)
LEMMA FieldItems ==
  ASSUME NEW t \in TestCases, NEW d \in Nat, d < Len(t.calls)
  PROVE  /\ FirstFields(t, d) \in Seq(Token) /\ Len(FirstFields(t, d)) = 4 + Len(t.calls) - (d + 1)
         /\ FirstFields(t, d)[2] = Item("this", 0) /\ FirstFields(t, d)[3] = Item("ctor", 0)
         /\ FirstFields(t, d)[4] = Item("argsCount", 0)
         /\ \A x \in 1 .. Len(t.calls) - (d + 1) : FirstFields(t, d)[4 + x] = Item("callee", 0)
<1> DEFINE h == <<Item("callee", 0), Item("this", 0), Item("ctor", 0), Item("argsCount", 0)>>
<1> DEFINE z == CalleesAfter(t, d + 1)
<1> DEFINE s == FirstFields(t, d)
<1>1. Len(t.calls) \in Nat /\ d + 1 \in Nat /\ d + 1 <= Len(t.calls)
  BY TestCaseTyped
<1>2. /\ Item("callee", 0) \in Token /\ Item("this", 0) \in Token
      /\ Item("ctor", 0) \in Token /\ Item("argsCount", 0) \in Token
  BY Tokens DEF Kind
<1>3. h \in Seq(Token) /\ z \in Seq(Token)
  BY <1>1, <1>2, Four, CallsAfterItems
<1>4. /\ Len(h) = 4 /\ h[2] = Item("this", 0) /\ h[3] = Item("ctor", 0)
      /\ h[4] = Item("argsCount", 0)
  BY <1>2, Four
<1>5. /\ Len(z) = Len(t.calls) - (d + 1)
      /\ \A x \in 1 .. Len(t.calls) - (d + 1) : z[x] = Item("callee", 0)
  BY <1>1, CallsAfterItems
<1>6. s = h \o z
  BY DEF FirstFields
<1> HIDE DEF h, z, s
<1>7. /\ s \in Seq(Token) /\ Len(s) = Len(h) + Len(z)
      /\ \A x \in 1 .. Len(h) : s[x] = h[x]
      /\ \A x \in 1 .. Len(z) : s[Len(h) + x] = z[x]
  BY <1>3, <1>6, Joined
<1>8. s \in Seq(Token) /\ Len(s) = 4 + Len(t.calls) - (d + 1)
  BY <1>1, <1>4, <1>5, <1>7
<1>9. s[2] = h[2] /\ s[3] = h[3] /\ s[4] = h[4]
  BY <1>4, <1>7
<1>10. \A x \in 1 .. Len(t.calls) - (d + 1) : s[4 + x] = z[x]
  BY <1>4, <1>5, <1>7
<1> QED
  BY <1>4, <1>5, <1>8, <1>9, <1>10 DEF s

(* The fields once it knows the number of arguments. *)
LEMMA ArgumentItems ==
  ASSUME NEW t \in TestCases, NEW d \in Nat, d < Len(t.calls),
         NEW q \in Nat, q = Len(t.calls[d + 1].args)
  PROVE  /\ LastFields(t, d) \in Seq(Token) /\ Len(LastFields(t, d)) = q + 1 + Len(t.calls) - (d + 1)
         /\ \A x \in 1 .. q : LastFields(t, d)[x] = Item("argument", 0)
         /\ LastFields(t, d)[q + 1] = Item("result", 0)
         /\ \A x \in 1 .. Len(t.calls) - (d + 1) : LastFields(t, d)[q + 1 + x] = Item("callee", 0)
<1> DEFINE h == Copies(q, Item("argument", 0))
<1> DEFINE r == <<Item("result", 0)>>
<1> DEFINE z == CalleesAfter(t, d + 1)
<1> DEFINE s == LastFields(t, d)
<1>1. Len(t.calls) \in Nat /\ d + 1 \in Nat /\ d + 1 <= Len(t.calls)
  BY TestCaseTyped
<1>2. Item("argument", 0) \in Token /\ Item("result", 0) \in Token
  BY Tokens DEF Kind
<1>3. h \in Seq(Token) /\ r \in Seq(Token) /\ z \in Seq(Token)
  BY <1>1, <1>2, Single, CallsAfterItems DEF Copies
<1>4. Len(h) = q /\ \A x \in 1 .. q : h[x] = Item("argument", 0)
  BY DEF Copies
<1>5. /\ Len(z) = Len(t.calls) - (d + 1)
      /\ \A x \in 1 .. Len(t.calls) - (d + 1) : z[x] = Item("callee", 0)
  BY <1>1, CallsAfterItems
<1>6. Len(r) = 1 /\ r[1] = Item("result", 0)
  BY <1>2, Single
<1> DEFINE hr == h \o r
<1>7. s = hr \o z
  BY DEF LastFields
<1> HIDE DEF h, r, z, s
<1>8. /\ hr \in Seq(Token) /\ Len(hr) = Len(h) + Len(r)
      /\ \A x \in 1 .. Len(h) : hr[x] = h[x]
      /\ \A x \in 1 .. Len(r) : hr[Len(h) + x] = r[x]
  BY <1>3, Joined
<1>9. /\ s \in Seq(Token) /\ Len(s) = Len(hr) + Len(z)
      /\ \A x \in 1 .. Len(hr) : s[x] = hr[x]
      /\ \A x \in 1 .. Len(z) : s[Len(hr) + x] = z[x]
  <2>1. hr \in Seq(Token)
    BY <1>8
  <2> HIDE DEF hr
  <2> QED
    BY <1>3, <1>7, <2>1, Joined
<1> HIDE DEF hr
<1>10. Len(hr) = q + 1 /\ s \in Seq(Token) /\ Len(s) = q + 1 + Len(t.calls) - (d + 1)
  BY <1>1, <1>4, <1>5, <1>6, <1>8, <1>9
<1>11. \A x \in 1 .. q : s[x] = h[x]
  <2> TAKE x \in 1 .. q
  <2>1. x \in 1 .. Len(h) /\ x \in 1 .. Len(hr)
    BY <1>4, <1>10
  <2> QED
    BY <1>8, <1>9, <2>1
<1>12. s[q + 1] = r[1]
  <2>1. 1 \in 1 .. Len(r) /\ Len(h) + 1 \in 1 .. Len(hr)
    BY <1>4, <1>6, <1>10
  <2>2. s[Len(h) + 1] = r[1]
    BY <1>8, <1>9, <2>1
  <2> QED
    BY <1>4, <2>2
<1>13. \A x \in 1 .. Len(t.calls) - (d + 1) : s[q + 1 + x] = z[x]
  BY <1>5, <1>9, <1>10
<1> QED
  BY <1>4, <1>5, <1>6, <1>10, <1>11, <1>12, <1>13 DEF s

-----------------------------------------------------------------------------
(* The next number goes to an array, for writer and reader. *)
LEMMA ArrayTakesNumber ==
  ASSUME NEW t, NEW d, NEW vi, NEW ri, NEW ni, NEW held, NEW pl, NEW rvi,
         Numbering(t, d, vi, ri, ni, held, pl, rvi), NEW a \in DOMAIN t.heap, a \notin DOMAIN vi
  PROVE  /\ ni \notin held
         /\ Numbering(t, d, Put(vi, a, ni), ri, ni + 1, held \cup {ni},
                      Append(pl, ArrayAt(ni)), rvi)
<1> DEFINE v2 == Put(vi, a, ni)
<1> DEFINE p2 == Append(pl, ArrayAt(ni))
<1>1. /\ DOMAIN v2 = DOMAIN vi \cup {a} /\ v2[a] = ni
      /\ \A b \in DOMAIN vi : v2[b] = vi[b]
  BY DEF Put
<1> HIDE DEF v2
<1>2. ni \in Nat /\ pl \in Seq(Loadable \cup {Null}) /\ Len(pl) = ni /\ ArrayAt(ni) \in Loadable
  BY DEF Numbering, ArrayAt, Item, Loadable
<1>3. /\ p2 \in Seq(Loadable \cup {Null}) /\ Len(p2) = ni + 1 /\ p2[ni + 1] = ArrayAt(ni)
      /\ \A x \in 1 .. ni : p2[x] = pl[x]
  BY <1>2
<1> HIDE DEF p2
<1>4. ni \notin held
  BY <1>2 DEF Numbering
<1>5. \A b \in DOMAIN v2 : v2[b] \in Nat /\ v2[b] < ni + 1 /\ p2[v2[b] + 1] = ArrayAt(v2[b])
  <2> TAKE b \in DOMAIN v2
  <2>1. CASE b = a
    BY <1>1, <1>2, <1>3, <2>1
  <2>2. CASE b \in DOMAIN vi
    <3>1. vi[b] \in Nat /\ vi[b] < ni /\ pl[vi[b] + 1] = ArrayAt(vi[b]) /\ v2[b] = vi[b]
      BY <1>1, <2>2 DEF Numbering
    <3>2. vi[b] + 1 \in 1 .. ni
      BY <1>2, <3>1
    <3> QED
      BY <1>2, <1>3, <3>1, <3>2
  <2> QED
    BY <1>1, <2>1, <2>2
<1>6. \A b, c \in DOMAIN v2 : v2[b] = v2[c] => b = c
  <2>1. \A b \in DOMAIN vi : vi[b] # ni
    BY <1>2 DEF Numbering
  <2> QED
    BY <1>1, <2>1 DEF Numbering
<1>7. \A b \in DOMAIN v2 : \A i \in 1 .. d : v2[b] # ri[i]
  <2>1. \A i \in 1 .. d : ri[i] # ni
    BY <1>2 DEF Numbering
  <2> QED
    BY <1>1, <2>1 DEF Numbering
<1>8. held \cup {ni} = {v2[b] : b \in DOMAIN v2}
  <2>1. held = {vi[b] : b \in DOMAIN vi}
    BY DEF Numbering
  <2> QED
    BY <1>1, <2>1
<1>9. \A i \in 1 .. d : ri[i] \in Nat /\ ri[i] < ni + 1
  BY <1>2 DEF Numbering
<1>10. DOMAIN v2 \subseteq DOMAIN t.heap
  BY <1>1 DEF Numbering
<1>11. DOMAIN ri = 1 .. d /\ DOMAIN rvi = {ri[i] : i \in 1 .. d} /\ \A i \in 1 .. d : rvi[ri[i]] = i
  BY DEF Numbering
<1>12. ni + 1 \in Nat
  BY <1>2
<1>13. Numbering(t, d, v2, ri, ni + 1, held \cup {ni}, p2, rvi)
  BY <1>3, <1>5, <1>6, <1>7, <1>8, <1>9, <1>10, <1>11, <1>12 DEF Numbering
<1> QED
  BY <1>4, <1>13 DEF v2, p2

(* It goes to a result. *)
LEMMA ResultTakesNumber ==
  ASSUME NEW t, NEW d \in Nat, NEW vi, NEW ri, NEW ni, NEW held, NEW pl, NEW rvi,
         Numbering(t, d, vi, ri, ni, held, pl, rvi)
  PROVE  Numbering(t, d + 1, vi, Put(ri, d + 1, ni), ni + 1, held,
                   Append(pl, Null), Put(rvi, ni, d + 1))
<1> DEFINE r2 == Put(ri, d + 1, ni)
<1> DEFINE w2 == Put(rvi, ni, d + 1)
<1> DEFINE p2 == Append(pl, Null)
<1>1. ni \in Nat /\ pl \in Seq(Loadable \cup {Null}) /\ Len(pl) = ni /\ DOMAIN ri = 1 .. d
  BY DEF Numbering
<1>2. /\ p2 \in Seq(Loadable \cup {Null}) /\ Len(p2) = ni + 1
      /\ \A x \in 1 .. ni : p2[x] = pl[x]
  BY <1>1
<1> HIDE DEF p2
<1>3. /\ DOMAIN r2 = 1 .. d \cup {d + 1} /\ r2[d + 1] = ni
      /\ \A i \in 1 .. d : r2[i] = ri[i] /\ i # d + 1
  BY <1>1 DEF Put
<1>4. 1 .. d + 1 = 1 .. d \cup {d + 1}
  OBVIOUS
<1>5. \A i \in 1 .. d : ri[i] \in Nat /\ ri[i] < ni /\ ri[i] # ni
  BY <1>1 DEF Numbering
<1>6. DOMAIN rvi = {ri[i] : i \in 1 .. d} /\ \A i \in 1 .. d : rvi[ri[i]] = i
  BY DEF Numbering
<1>7. DOMAIN w2 = DOMAIN rvi \cup {ni} /\ w2[ni] = d + 1 /\ \A x \in DOMAIN rvi : x # ni => w2[x] = rvi[x]
  BY DEF Put
<1> HIDE DEF r2, w2
<1>8. DOMAIN w2 = {r2[i] : i \in 1 .. d + 1}
  BY <1>3, <1>4, <1>6, <1>7
<1>9. \A i \in 1 .. d + 1 : w2[r2[i]] = i
  <2>1. \A i \in 1 .. d : w2[r2[i]] = i
    <3> TAKE i \in 1 .. d
    <3>1. ri[i] \in DOMAIN rvi /\ ri[i] # ni
      BY <1>5, <1>6
    <3> QED
      BY <1>3, <1>6, <1>7, <3>1
  <2> QED
    BY <1>3, <1>4, <1>7, <2>1
<1>10. \A i \in 1 .. d + 1 : r2[i] \in Nat /\ r2[i] < ni + 1
  BY <1>1, <1>3, <1>4, <1>5
<1>11. \A a \in DOMAIN vi : vi[a] \in Nat /\ vi[a] < ni
  BY DEF Numbering
<1>12. \A a \in DOMAIN vi : vi[a] < ni + 1 /\ vi[a] # ni /\ p2[vi[a] + 1] = ArrayAt(vi[a])
  <2> TAKE a \in DOMAIN vi
  <2>1. vi[a] \in Nat /\ vi[a] < ni /\ vi[a] + 1 \in 1 .. ni
    BY <1>1, <1>11
  <2> QED
    BY <1>1, <1>2, <2>1 DEF Numbering
<1>13. \A a \in DOMAIN vi : \A i \in 1 .. d + 1 : vi[a] # r2[i]
  BY <1>3, <1>4, <1>12 DEF Numbering
<1>14. ni + 1 \in Nat
  BY <1>1
<1>15. /\ DOMAIN vi \subseteq DOMAIN t.heap /\ held = {vi[a] : a \in DOMAIN vi}
       /\ \A a, b \in DOMAIN vi : vi[a] = vi[b] => a = b
  BY DEF Numbering
<1>16. DOMAIN r2 = 1 .. d + 1
  BY <1>3, <1>4
<1>17. Numbering(t, d + 1, vi, r2, ni + 1, held, p2, w2)
  BY <1>2, <1>8, <1>9, <1>10, <1>11, <1>12, <1>13, <1>14, <1>15, <1>16 DEF Numbering
<1> QED
  BY <1>17 DEF r2, w2, p2

-----------------------------------------------------------------------------
LEMMA HeapTyped ==
  ASSUME NEW h \in Heaps
  PROVE  /\ DOMAIN h \subseteq Nat /\ \A m \in DOMAIN h : h[m] \in Seq(Loadable)
         /\ h \in [DOMAIN h -> Seq(Loadable)]
  BY DEF Heaps

(* An element is added to its array, and nothing else changes. *)
LEMMA PlacedElement ==
  ASSUME NEW ld \in Loaded, NEW m \in DOMAIN ld.heap, NEW r \in Loadable,
         NEW field, field = Item("element", m)
  PROVE  LET new == Placed(ld, field, r) IN
           /\ new \in Loaded /\ new.root = ld.root /\ new.calls = ld.calls
           /\ new.heap = [ld.heap EXCEPT ![m] = Append(@, r)] /\ DOMAIN new.heap = DOMAIN ld.heap
<1> DEFINE h2 == [ld.heap EXCEPT ![m] = Append(@, r)]
<1>1. ld.heap \in Heaps /\ ld.root \in Nat /\ ld.calls \in Seq(LoadedCall)
  BY DEF Loaded
<1>2. /\ DOMAIN ld.heap \subseteq Nat /\ ld.heap[m] \in Seq(Loadable)
      /\ ld.heap \in [DOMAIN ld.heap -> Seq(Loadable)]
  BY <1>1, HeapTyped
<1>3. Append(ld.heap[m], r) \in Seq(Loadable)
  BY <1>2
<1>4. h2 \in [DOMAIN ld.heap -> Seq(Loadable)]
  BY <1>2, <1>3
<1>5. h2 \in Heaps /\ DOMAIN h2 = DOMAIN ld.heap
  BY <1>2, <1>4 DEF Heaps
<1>6. Placed(ld, field, r) = [ld EXCEPT !.heap[m] = Append(@, r)]
  BY DEF Placed, Item
<1>7. Placed(ld, field, r) = [ld EXCEPT !.heap = h2]
  BY <1>6
<1> HIDE DEF h2
<1>8. Placed(ld, field, r) = [root |-> ld.root, calls |-> ld.calls, heap |-> h2]
  BY <1>7 DEF Loaded
<1>9. /\ Placed(ld, field, r) \in Loaded /\ Placed(ld, field, r).root = ld.root
      /\ Placed(ld, field, r).calls = ld.calls /\ Placed(ld, field, r).heap = h2
      /\ DOMAIN Placed(ld, field, r).heap = DOMAIN ld.heap
  BY <1>1, <1>5, <1>8 DEF Loaded
<1> QED
  BY <1>9 DEF h2

LEMMA LoadedUpdates ==
  ASSUME NEW ld \in Loaded
  PROVE  /\ \A n \in Nat : [ld EXCEPT !.root = n] \in Loaded
         /\ \A m \in Nat : LET new == [ld EXCEPT !.heap = Put(@, m, <<>>)] IN
              /\ new \in Loaded /\ new.root = ld.root /\ new.calls = ld.calls
              /\ new.heap = Put(ld.heap, m, <<>>)
         /\ \A c \in LoadedCall : LET new == [ld EXCEPT !.calls = Append(@, c)] IN
              /\ new \in Loaded /\ new.root = ld.root /\ new.heap = ld.heap
              /\ Len(new.calls) = Len(ld.calls) + 1 /\ new.calls[Len(ld.calls) + 1] = c
              /\ \A i \in 1 .. Len(ld.calls) : new.calls[i] = ld.calls[i]
<1>1. ld.heap \in Heaps /\ ld.root \in Nat /\ ld.calls \in Seq(LoadedCall)
  BY DEF Loaded
<1>2. \A n \in Nat : [ld EXCEPT !.root = n] \in Loaded
  BY DEF Loaded
<1>3. ASSUME NEW m \in Nat
      PROVE  LET new == [ld EXCEPT !.heap = Put(@, m, <<>>)] IN
              /\ new \in Loaded /\ new.root = ld.root /\ new.calls = ld.calls
              /\ new.heap = Put(ld.heap, m, <<>>)
  <2> DEFINE h == Put(ld.heap, m, <<>>)
  <2>1. /\ DOMAIN ld.heap \subseteq Nat /\ \A i \in DOMAIN ld.heap : ld.heap[i] \in Seq(Loadable)
    BY <1>1, HeapTyped
  <2>2. <<>> \in Seq(Loadable)
    OBVIOUS
  <2>3. h \in [DOMAIN ld.heap \cup {m} -> Seq(Loadable)]
    BY <2>1, <2>2 DEF Put
  <2>4. h \in Heaps
    <3>1. DOMAIN ld.heap \cup {m} \in SUBSET Nat
      BY <2>1
    <3> HIDE DEF h
    <3> QED
      BY <2>3, <3>1 DEF Heaps
  <2> HIDE DEF h
  <2>5. [ld EXCEPT !.heap = h] = [root |-> ld.root, calls |-> ld.calls, heap |-> h]
    BY DEF Loaded
  <2>6. /\ [ld EXCEPT !.heap = h] \in Loaded /\ [ld EXCEPT !.heap = h].root = ld.root
        /\ [ld EXCEPT !.heap = h].calls = ld.calls /\ [ld EXCEPT !.heap = h].heap = h
    BY <1>1, <2>4, <2>5 DEF Loaded
  <2> QED
    BY <2>6 DEF h
<1>4. ASSUME NEW c \in LoadedCall
      PROVE  LET new == [ld EXCEPT !.calls = Append(@, c)] IN
              /\ new \in Loaded /\ new.root = ld.root /\ new.heap = ld.heap
              /\ Len(new.calls) = Len(ld.calls) + 1 /\ new.calls[Len(ld.calls) + 1] = c
              /\ \A i \in 1 .. Len(ld.calls) : new.calls[i] = ld.calls[i]
  <2> DEFINE s == Append(ld.calls, c)
  <2>1. /\ s \in Seq(LoadedCall) /\ Len(s) = Len(ld.calls) + 1 /\ s[Len(ld.calls) + 1] = c
        /\ \A i \in 1 .. Len(ld.calls) : s[i] = ld.calls[i]
    BY <1>1
  <2> HIDE DEF s
  <2>2. [ld EXCEPT !.calls = s] = [root |-> ld.root, calls |-> s, heap |-> ld.heap]
    BY DEF Loaded
  <2>3. /\ [ld EXCEPT !.calls = s] \in Loaded /\ [ld EXCEPT !.calls = s].root = ld.root
        /\ [ld EXCEPT !.calls = s].heap = ld.heap /\ [ld EXCEPT !.calls = s].calls = s
    BY <1>1, <2>1, <2>2 DEF Loaded
  <2>4. [ld EXCEPT !.calls = Append(@, c)] = [ld EXCEPT !.calls = s]
    BY DEF s
  <2> QED
    BY <2>1, <2>3, <2>4
<1> QED
  BY <1>2, <1>3, <1>4

-----------------------------------------------------------------------------
LEMMA ListLengths ==
  ASSUME NEW t \in TestCases, NEW d \in Nat, d < Len(t.calls)
  PROVE  /\ Len(t.calls) \in Nat /\ Len(t.calls[d + 1].args) \in Nat
         /\ Complete(t.calls[d + 1]) = 4 + Len(t.calls[d + 1].args)
         /\ Len(Script(t, d)) \in Nat /\ Len(Script(t, d)) > Complete(t.calls[d + 1])
         /\ Len(FirstFields(t, d)) \in Nat /\ Len(FirstFields(t, d)) >= 4
         /\ Len(LastFields(t, d)) \in Nat
         /\ Len(LastFields(t, d)) > Len(t.calls[d + 1].args)
<1> DEFINE q == Len(t.calls[d + 1].args)
<1>1. Len(t.calls) \in Nat
  BY TestCaseTyped
<1>2. q \in Nat
  BY CallTyped
<1>3. Complete(t.calls[d + 1]) = 4 + q
  BY DEF Complete
<1>4. Len(Script(t, d)) = Complete(t.calls[d + 1]) + 1 + Len(t.calls) - (d + 1)
  BY ScriptItems
<1>5. Len(FirstFields(t, d)) = 4 + Len(t.calls) - (d + 1)
  BY FieldItems
<1>6. Len(LastFields(t, d)) = q + 1 + Len(t.calls) - (d + 1)
  BY <1>2, ArgumentItems
<1>10. \A x, y, n \in Int : d < n /\ x = y + 1 + n - (d + 1) => x > y
  OBVIOUS
<1>11. \A y, n \in Nat : d < n => y + 1 + n - (d + 1) \in Nat
  OBVIOUS
<1> HIDE DEF q
<1>12. Complete(t.calls[d + 1]) \in Nat
  BY <1>2, <1>3
<1>7. Len(Script(t, d)) \in Nat /\ Len(Script(t, d)) > Complete(t.calls[d + 1])
  BY <1>1, <1>4, <1>10, <1>11, <1>12
<1>8. Len(FirstFields(t, d)) \in Nat /\ Len(FirstFields(t, d)) >= 4
  BY <1>1, <1>5
<1>13. q + 1 + Len(t.calls) - (d + 1) \in Nat
  BY <1>1, <1>2, <1>11
<1>9. Len(LastFields(t, d)) \in Nat /\ Len(LastFields(t, d)) > q
  <2>1. Len(LastFields(t, d)) \in Nat
    BY <1>6, <1>13
  <2>2. q \in Int /\ Len(t.calls) \in Int /\ Len(LastFields(t, d)) \in Int
    BY <1>1, <1>2, <2>1
  <2> QED
    BY <1>6, <1>10, <2>1, <2>2
<1> QED
  BY <1>1, <1>2, <1>3, <1>7, <1>8, <1>9 DEF q

LEMMA WithinTyped ==
  ASSUME NEW t \in TestCases, NEW td, NEW ex, NEW ld, NEW vi, NEW known, NEW d, NEW k, NEW owed,
         Within(t, td, ex, ld, vi, known, d, k, owed)
  PROVE  /\ d \in Nat /\ d < Len(t.calls) /\ k \in Nat /\ k >= 1 /\ k <= Complete(t.calls[d + 1])
         /\ Len(owed) \in Nat /\ owed \in Seq(Owed) /\ td \in Seq(Token) /\ ex \in Seq(Token)
         /\ ld \in Loaded /\ Len(td) >= Len(owed) /\ Len(ex) >= Len(owed)
<1>1. d \in Nat /\ d < Len(t.calls)
  BY DEF Within
<1>2. /\ Complete(t.calls[d + 1]) \in Nat
      /\ Len(Script(t, d)) \in Nat /\ Len(Script(t, d)) > Complete(t.calls[d + 1])
      /\ Len(FirstFields(t, d)) \in Nat /\ Len(FirstFields(t, d)) >= 4
      /\ Len(LastFields(t, d)) \in Nat
      /\ Len(LastFields(t, d)) > Complete(t.calls[d + 1]) - 4
  <2>1. /\ Len(t.calls[d + 1].args) \in Nat
        /\ Complete(t.calls[d + 1]) = 4 + Len(t.calls[d + 1].args)
        /\ Len(Script(t, d)) \in Nat /\ Len(Script(t, d)) > Complete(t.calls[d + 1])
        /\ Len(FirstFields(t, d)) \in Nat /\ Len(FirstFields(t, d)) >= 4
        /\ Len(LastFields(t, d)) \in Nat
        /\ Len(LastFields(t, d)) > Len(t.calls[d + 1].args)
    BY ONLY <1>1, t \in TestCases, ListLengths
  <2>2. PICK q \in Nat : q = Len(t.calls[d + 1].args)
    BY <2>1
  <2>3. Complete(t.calls[d + 1]) = 4 + q /\ 4 + q \in Nat /\ (4 + q) - 4 = q
    BY <2>1, <2>2
  <2> QED
    BY ONLY <2>1, <2>2, <2>3
<1>5. k \in Nat /\ k >= 1 /\ k <= Complete(t.calls[d + 1])
  BY <1>2 DEF Within
<1>6. owed \in Seq(Owed) /\ td \in Seq(Token) /\ ex \in Seq(Token) /\ ld \in Loaded
  BY DEF Within, Elements
<1>7. Len(owed) \in Nat /\ Len(td) \in Nat /\ Len(ex) \in Nat
  BY <1>6
<1>8. Len(td) = Len(owed) + Len(Script(t, d)) - k
  BY DEF Within, Continues
<1>9. Len(td) >= Len(owed)
  BY <1>2, <1>5, <1>7, <1>8
<1>10. Len(ex) >= Len(owed)
  <2>1. CASE k < 4
    <3>1. Len(ex) = Len(owed) + Len(FirstFields(t, d)) - k
      BY <1>5, <2>1 DEF Within, Continues
    <3> QED
      BY <1>2, <1>5, <1>7, <2>1, <3>1
  <2>2. CASE k >= 4
    <3>1. Len(ex) = Len(owed) + Len(LastFields(t, d)) - (k - 4)
      BY <1>5, <2>2 DEF Within, Continues
    <3> QED
      BY <1>2, <1>5, <1>7, <2>2, <3>1
  <2> QED
    BY <1>5, <2>1, <2>2
<1> QED
  BY <1>1, <1>5, <1>6, <1>7, <1>9, <1>10

(* What comes next. *)
LEMMA NextOfCall ==
  ASSUME NEW t \in TestCases, NEW td, NEW ex, NEW ld, NEW vi, NEW known, NEW d, NEW k,
         Within(t, td, ex, ld, vi, known, d, k, <<>>)
  PROVE  LET c == t.calls[d + 1] IN
         /\ td # <<>> /\ ex # <<>> /\ Head(td) = Script(t, d)[k + 1]
         /\ Continues(Tail(td), 0, Script(t, d), k + 1)
         /\ k = 1 => Head(td) = ToWrite(ThisOf(c)) /\ Head(ex) = Item("this", 0)
         /\ k = 2 => Head(td) = Flag(c.ctor) /\ Head(ex) = Item("ctor", 0)
         /\ k = 3 => Head(td) = Word(Len(c.args)) /\ Head(ex) = Item("argsCount", 0)
         /\ k < 4 => Continues(Tail(ex), 0, FirstFields(t, d), k + 1)
         /\ k >= 4 => Continues(Tail(ex), 0, LastFields(t, d), k - 3)
         /\ k >= 4 /\ k < Complete(c) => /\ Head(td) = ToWrite(c.args[k - 3])
                                         /\ Head(ex) = Item("argument", 0)
         /\ k = Complete(c) => Head(td) = Item("result", d + 1) /\ Head(ex) = Item("result", 0)
<1> DEFINE c == t.calls[d + 1]
<1> DEFINE q == Len(c.args)
<1>1. /\ d \in Nat /\ d < Len(t.calls) /\ k \in Nat /\ k >= 1 /\ k <= Complete(c)
      /\ td \in Seq(Token) /\ ex \in Seq(Token)
  BY WithinTyped
<1>0. /\ q \in Nat /\ Complete(c) = 4 + q
      /\ Len(Script(t, d)) \in Nat /\ Len(Script(t, d)) > Complete(c)
      /\ Len(FirstFields(t, d)) \in Nat /\ Len(FirstFields(t, d)) >= 4
      /\ Len(LastFields(t, d)) \in Nat /\ Len(LastFields(t, d)) > q
  BY <1>1, ListLengths
<1>2. Len(<<>>) = 0 /\ <<>> \in Seq(Owed)
  OBVIOUS
<1>3. Continues(td, 0, Script(t, d), k)
  BY <1>2 DEF Within
<1>4. /\ Script(t, d)[2] = ToWrite(ThisOf(c))
      /\ Script(t, d)[3] = Flag(c.ctor) /\ Script(t, d)[4] = Word(q)
      /\ \A x \in 1 .. q : Script(t, d)[4 + x] = ToWrite(c.args[x])
      /\ Script(t, d)[Complete(c) + 1] = Item("result", d + 1)
  BY <1>1, ScriptItems
<1>5. /\ FirstFields(t, d)[2] = Item("this", 0) /\ FirstFields(t, d)[3] = Item("ctor", 0)
      /\ FirstFields(t, d)[4] = Item("argsCount", 0)
  BY <1>1, FieldItems
<1>6. /\ \A x \in 1 .. q : LastFields(t, d)[x] = Item("argument", 0)
      /\ LastFields(t, d)[q + 1] = Item("result", 0)
  BY ZenonT(30), <1>0, <1>1, ArgumentItems
<1> HIDE DEF c, q
<1>7. /\ td # <<>> /\ Head(td) = Script(t, d)[k + 1]
      /\ Continues(Tail(td), 0, Script(t, d), k + 1)
  <2>1. k < Len(Script(t, d))
    BY <1>0, <1>1
  <2> QED
    BY <1>0, <1>1, <1>3, <2>1, TailContinues
<1>8. CASE k < 4
  <2>1. Continues(ex, 0, FirstFields(t, d), k)
    BY <1>2, <1>8 DEF Within
  <2>2. k < Len(FirstFields(t, d)) /\ Len(FirstFields(t, d)) \in Nat
    BY <1>0, <1>1, <1>8
  <2>3. /\ ex # <<>> /\ Head(ex) = FirstFields(t, d)[k + 1]
        /\ Continues(Tail(ex), 0, FirstFields(t, d), k + 1)
    BY <1>1, <2>1, <2>2, TailContinues
  <2>4. k < 4 /\ ~(k >= 4) /\ k # Complete(c)
    BY <1>0, <1>1, <1>8
  <2>5. CASE k = 1
    BY <1>4, <1>5, <1>7, <2>3, <2>4, <2>5 DEF c, q
  <2>6. CASE k = 2
    BY <1>4, <1>5, <1>7, <2>3, <2>4, <2>6 DEF c, q
  <2>7. CASE k = 3
    BY <1>4, <1>5, <1>7, <2>3, <2>4, <2>7 DEF c, q
  <2> QED
    BY <1>1, <1>8, <2>5, <2>6, <2>7
<1>9. CASE k >= 4
  <2>1. Continues(ex, 0, LastFields(t, d), k - 4)
    BY <1>2, <1>9 DEF Within
  <2>2. k - 4 < Len(LastFields(t, d)) /\ Len(LastFields(t, d)) \in Nat /\ k - 4 \in Nat /\ k - 4 + 1 = k - 3
    BY <1>0, <1>1, <1>9
  <2>3. /\ ex # <<>> /\ Head(ex) = LastFields(t, d)[k - 3]
        /\ Continues(Tail(ex), 0, LastFields(t, d), k - 3)
    <3>1. /\ ex # <<>> /\ Head(ex) = LastFields(t, d)[k - 4 + 1]
          /\ Continues(Tail(ex), 0, LastFields(t, d), k - 4 + 1)
      BY <1>1, <2>1, <2>2, TailContinues
    <3> QED
      BY <2>2, <3>1
  <2>4. ~(k < 4) /\ k # 1 /\ k # 2 /\ k # 3
    BY <1>1, <1>9
  <2>5. CASE k < Complete(c)
    <3>1. k - 3 \in 1 .. q /\ 4 + (k - 3) = k + 1 /\ k # Complete(c)
      BY <1>0, <1>1, <1>9, <2>5
    <3>2. Head(td) = ToWrite(c.args[k - 3]) /\ Head(ex) = Item("argument", 0)
      BY <1>4, <1>6, <1>7, <2>3, <3>1
    <3> QED
      BY <1>7, <1>9, <2>3, <2>4, <3>1, <3>2 DEF c
  <2>6. CASE k = Complete(c)
    <3>1. k - 3 = q + 1 /\ ~(k < Complete(c))
      BY <1>0, <1>1, <2>6
    <3>2. Head(td) = Item("result", d + 1) /\ Head(ex) = Item("result", 0)
      BY <1>4, <1>6, <1>7, <2>3, <2>6, <3>1
    <3> QED
      BY <1>7, <1>9, <2>3, <2>4, <3>1, <3>2 DEF c
  <2> QED
    BY <1>0, <1>1, <2>5, <2>6 DEF c
<1> QED
  BY <1>1, <1>8, <1>9

-----------------------------------------------------------------------------
(* The next item of a call is a value. *)
ValueNext(t, d, k, owed) == owed # <<>> \/ k = 1 \/ (k >= 4 /\ k < Complete(t.calls[d + 1]))

(* A value that is the next owed element. *)
LEMMA OwedElementPlaced ==
  ASSUME NEW t \in TestCases, NEW td, NEW ex, NEW ld, NEW vi, NEW known, NEW d, NEW k, NEW owed,
         Within(t, td, ex, ld, vi, known, d, k, owed), owed # <<>>
  PROVE  /\ td # <<>> /\ ex # <<>> /\ Head(td).is = "value" /\ Head(ex).is \in ValueField
         /\ \A r \in Loadable : Got(vi, Head(td).n, r) =>
              LET new == Placed(ld, Head(ex), r) IN
                /\ Within(t, Tail(td), Tail(ex), new, vi, known, d, k, Tail(owed))
                /\ k \notin {1, 3} /\ DOMAIN new.heap = DOMAIN ld.heap /\ new.root = ld.root
                /\ \A b \in DOMAIN vi \ known : new.heap[vi[b]] = ld.heap[vi[b]]
<1> DEFINE a == owed[1].array
<1> DEFINE m == vi[a]
<1> DEFINE p == Len(owed)
<1>1. /\ d \in Nat /\ d < Len(t.calls) /\ k \in Nat /\ k >= 1 /\ k <= Complete(t.calls[d + 1])
      /\ p \in Nat /\ owed \in Seq(Owed) /\ td \in Seq(Token) /\ ex \in Seq(Token)
      /\ ld \in Loaded /\ Len(td) >= p /\ Len(ex) >= p
  BY WithinTyped
<1>2. p \in Nat \ {0} /\ 1 \in DOMAIN owed /\ Tail(owed) \in Seq(Owed) /\ Len(Tail(owed)) = p - 1
  BY <1>1
<1>3. td # <<>> /\ ex # <<>> /\ Head(td) = td[1] /\ Head(ex) = ex[1]
  BY <1>1, <1>2
<1>4. Head(td) = ToWrite(t.heap[a][owed[1].at]) /\ Head(ex) = Item("element", m)
  BY <1>2, <1>3 DEF Within, Elements, InFront
<1>5. Head(td).is = "value" /\ Head(td).n = t.heap[a][owed[1].at] /\ Head(ex).is \in ValueField
  BY <1>4 DEF ToWrite, Item, ValueField
<1>6. /\ Elements(t, td, ex, ld, vi, known, owed) /\ Continues(td, p, Script(t, d), k)
      /\ k < 4 => Continues(ex, p, FirstFields(t, d), k)
      /\ k >= 4 => Continues(ex, p, LastFields(t, d), k - 4)
      /\ k \notin {1, 3}
  BY DEF Within
<1>7. /\ Len(Script(t, d)) \in Nat /\ Len(FirstFields(t, d)) \in Nat /\ Len(LastFields(t, d)) \in Nat
  BY <1>1, ListLengths
<1>8. Tail(td) \in Seq(Token) /\ Continues(Tail(td), p - 1, Script(t, d), k)
  BY <1>1, <1>2, <1>6, <1>7, TailBefore
<1>9. Tail(ex) \in Seq(Token)
  BY <1>1, <1>3
<1>10. k < 4 => Continues(Tail(ex), p - 1, FirstFields(t, d), k)
  BY <1>1, <1>2, <1>6, <1>7, TailBefore
<1>11. k >= 4 => Continues(Tail(ex), p - 1, LastFields(t, d), k - 4)
  <2> SUFFICES ASSUME k >= 4 PROVE Continues(Tail(ex), p - 1, LastFields(t, d), k - 4)
    OBVIOUS
  <2>1. k - 4 \in Nat
    BY <1>1
  <2> QED
    BY <1>1, <1>2, <1>6, <1>7, <2>1, TailBefore
<1>12. InFront(t, Tail(td), Tail(ex), Tail(owed), vi)
  BY <1>1, <1>6, InFrontTail DEF Elements
<1>13. ASSUME NEW r \in Loadable, Got(vi, Head(td).n, r)
       PROVE  LET new == Placed(ld, Head(ex), r) IN
                /\ Within(t, Tail(td), Tail(ex), new, vi, known, d, k, Tail(owed))
                /\ k \notin {1, 3} /\ DOMAIN new.heap = DOMAIN ld.heap /\ new.root = ld.root
                /\ \A b \in DOMAIN vi \ known : new.heap[vi[b]] = ld.heap[vi[b]]
  <2> DEFINE new == Placed(ld, Head(ex), r)
  <2> DEFINE h2 == [ld.heap EXCEPT ![m] = Append(@, r)]
  <2>1. Got(vi, t.heap[a][owed[1].at], r)
    BY Zenon, <1>5, <1>13
  <2>2. /\ m \in DOMAIN ld.heap
        /\ ArraysNumbered(t, vi, h2, known)
        /\ OwedOnce(t, Tail(owed), vi, h2, known)
        /\ ElementsGot(t, vi, h2, known)
    BY Zenon, <1>1, <1>6, <2>1, ElementRead DEF Elements
  <2>3. /\ new \in Loaded /\ new.root = ld.root /\ new.calls = ld.calls
        /\ new.heap = h2 /\ DOMAIN new.heap = DOMAIN ld.heap
    <3> HIDE DEF m
    <3> QED
      BY <1>1, <1>4, <2>2, PlacedElement DEF h2
  <2>4. \A b \in DOMAIN vi \ known : h2[vi[b]] = ld.heap[vi[b]]
    <3>1. \A b \in DOMAIN vi \ known : vi[b] # m
      BY <1>2, <1>6 DEF Elements, OwedOnce, ArraysNumbered
    <3> QED
      BY <3>1
  <2> HIDE DEF new, h2
  <2>5. Elements(t, Tail(td), Tail(ex), new, vi, known, Tail(owed))
    BY <1>2, <1>8, <1>9, <1>12, <2>2, <2>3 DEF Elements
  <2>6. /\ d \in Nat /\ d < Len(t.calls) /\ Len(new.calls) = d + 1
        /\ k \in 1 .. Complete(t.calls[d + 1]) /\ (k \in {1, 3} => Tail(owed) = <<>>)
        /\ CallsRead(t, vi, new.calls, d)
        /\ CallRead(vi, t.calls[d + 1], new.calls[d + 1], k)
    BY <1>6, <2>3 DEF Within
  <2>7. Within(t, Tail(td), Tail(ex), new, vi, known, d, k, Tail(owed))
    BY <1>2, <1>8, <1>10, <1>11, <2>5, <2>6 DEF Within
  <2> QED
    BY <1>6, <2>3, <2>4, <2>7 DEF new
<1> QED
  BY <1>3, <1>5, <1>13

(* new is ld but for the call that is being read. *)
Advanced(ld, new, n) ==
  /\ new \in Loaded /\ new.root = ld.root /\ new.heap = ld.heap
  /\ Len(new.calls) = n /\ \A i \in 1 .. n : i # n => new.calls[i] = ld.calls[i]

LEMMA CallReplaced ==
  ASSUME NEW ld \in Loaded, NEW n \in Nat \ {0}, n = Len(ld.calls), NEW c \in LoadedCall,
         NEW s, s = [ld.calls EXCEPT ![n] = c], NEW new, new = [ld EXCEPT !.calls = s]
  PROVE  Advanced(ld, new, n) /\ new.calls[n] = c
<1>1. ld.calls \in Seq(LoadedCall) /\ n \in 1 .. Len(ld.calls)
  BY DEF Loaded
<1>2. /\ s \in Seq(LoadedCall) /\ Len(s) = Len(ld.calls)
      /\ \A j \in 1 .. Len(ld.calls) : s[j] = IF j = n THEN c ELSE ld.calls[j]
  BY <1>1, ExceptSeq
<1>3. new = [root |-> ld.root, calls |-> s, heap |-> ld.heap]
  BY DEF Loaded
<1>5. \A i \in 1 .. n : i # n => s[i] = ld.calls[i]
  BY <1>2
<1>6. s[n] = c /\ Len(s) = n
  BY <1>1, <1>2
<1>7. new.root = ld.root /\ new.heap = ld.heap /\ new.calls = s
  BY <1>3
<1>8. new \in Loaded
  BY <1>2, <1>3 DEF Loaded
<1> QED
  BY <1>5, <1>6, <1>7, <1>8 DEF Advanced

LEMMA ThisOfCall ==
  ASSUME NEW ld \in Loaded, NEW n \in Nat \ {0}, n = Len(ld.calls), NEW r \in Loadable,
         NEW new, new = Placed(ld, Item("this", 0), r)
  PROVE  /\ ld.calls[n] \in LoadedCall /\ Advanced(ld, new, n)
         /\ new.calls[n].this = r /\ new.calls[n].args = ld.calls[n].args
         /\ new.calls[n].callee = ld.calls[n].callee /\ new.calls[n].ctor = ld.calls[n].ctor
<1> DEFINE c == ld.calls[n]
<1> DEFINE c2 == [c EXCEPT !.this = r]
<1> DEFINE s == [ld.calls EXCEPT ![n] = c2]
<1>1. ld.calls \in Seq(LoadedCall) /\ n \in 1 .. Len(ld.calls)
  BY DEF Loaded
<1>2. c \in LoadedCall
  BY <1>1
<1>3. c2 \in LoadedCall
  BY <1>2 DEF LoadedCall
<1>4. new = [ld EXCEPT !.calls = s]
  BY DEF Placed, Item
<1> HIDE DEF c2
<1>5. s = [ld.calls EXCEPT ![n] = c2]
  OBVIOUS
<1> HIDE DEF s
<1>6. Advanced(ld, new, n) /\ new.calls[n] = c2
  BY <1>3, <1>4, <1>5, CallReplaced
<1> QED
  BY <1>2, <1>6 DEF c2, LoadedCall

ArgumentAdded(ld, new, n, r) ==
  /\ ld.calls[n] \in LoadedCall /\ Advanced(ld, new, n)
  /\ new.calls[n].this = ld.calls[n].this /\ new.calls[n].args = Append(ld.calls[n].args, r)
  /\ new.calls[n].callee = ld.calls[n].callee /\ new.calls[n].ctor = ld.calls[n].ctor

LEMMA ArgumentOfCall ==
  ASSUME NEW ld \in Loaded, NEW n \in Nat \ {0}, n = Len(ld.calls), NEW r \in Loadable,
         NEW new, new = Placed(ld, Item("argument", 0), r)
  PROVE  ArgumentAdded(ld, new, n, r)
<1> DEFINE c == ld.calls[n]
<1> DEFINE c2 == [c EXCEPT !.args = Append(@, r)]
<1> DEFINE s == [ld.calls EXCEPT ![n] = c2]
<1>1. ld.calls \in Seq(LoadedCall) /\ n \in 1 .. Len(ld.calls)
  BY DEF Loaded
<1>2. c \in LoadedCall
  BY <1>1
<1>3. c2 \in LoadedCall
  <2>1. c.args \in Seq(Loadable)
    BY <1>2 DEF LoadedCall
  <2>2. Append(c.args, r) \in Seq(Loadable)
    BY <2>1
  <2> QED
    BY <1>2, <2>2 DEF LoadedCall
<1>4. new = [ld EXCEPT !.calls = s]
  BY DEF Placed, Item
<1> HIDE DEF c2
<1>5. s = [ld.calls EXCEPT ![n] = c2]
  OBVIOUS
<1> HIDE DEF s
<1>6. Advanced(ld, new, n) /\ new.calls[n] = c2
  BY <1>3, <1>4, <1>5, CallReplaced
<1> QED
  BY <1>2, <1>6 DEF c2, LoadedCall, ArgumentAdded

(* The call that is being read gets a field; everything else stays. *)
LEMMA CallAdvanced ==
  ASSUME NEW t \in TestCases, NEW td, NEW ex, NEW ld, NEW vi, NEW known, NEW d, NEW k,
         Within(t, td, ex, ld, vi, known, d, k, <<>>),
         k < Complete(t.calls[d + 1]), NEW j, j = k + 1, NEW n, n = d + 1,
         NEW new, Advanced(ld, new, n), CallRead(vi, t.calls[n], new.calls[n], j),
         NEW ex2 \in Seq(Token),
         j < 4 => Continues(ex2, 0, FirstFields(t, d), j),
         j >= 4 => Continues(ex2, 0, LastFields(t, d), j - 4)
  PROVE  /\ Within(t, Tail(td), ex2, new, vi, known, d, j, <<>>)
         /\ new.heap = ld.heap /\ new.root = ld.root
<1>1. /\ d \in Nat /\ d < Len(t.calls) /\ k \in Nat /\ k >= 1
      /\ td \in Seq(Token) /\ ld \in Loaded
  BY WithinTyped
<1>2. Len(<<>>) = 0 /\ <<>> \in Seq(Owed)
  OBVIOUS
<1>3. td # <<>> /\ Continues(Tail(td), 0, Script(t, d), k + 1)
  BY NextOfCall
<1>4. /\ d + 1 \in Nat \ {0} /\ d + 1 = Len(ld.calls)
      /\ CallsRead(t, vi, ld.calls, d) /\ Elements(t, td, ex, ld, vi, known, <<>>)
  BY <1>1 DEF Within
<1>5. /\ new \in Loaded /\ new.root = ld.root /\ new.heap = ld.heap
      /\ Len(new.calls) = d + 1
      /\ \A i \in 1 .. d : new.calls[i] = ld.calls[i]
  <2>1. \A i \in 1 .. d : i \in 1 .. d + 1 /\ i # d + 1
    BY <1>1
  <2>2. \A i \in 1 .. d + 1 : i # d + 1 => new.calls[i] = ld.calls[i]
    BY DEF Advanced
  <2>3. \A i \in 1 .. d : new.calls[i] = ld.calls[i]
    BY <2>1, <2>2
  <2> QED
    BY <2>3 DEF Advanced
<1>6. CallsRead(t, vi, new.calls, d)
  BY <1>1, <1>4, <1>5 DEF CallsRead
<1>7. Tail(td) \in Seq(Token)
  BY <1>1, <1>3
<1>8. Elements(t, Tail(td), ex2, new, vi, known, <<>>)
  BY <1>2, <1>4, <1>5, <1>7 DEF Elements, InFront
<1>9. Complete(t.calls[d + 1]) \in Nat /\ k + 1 \in 1 .. Complete(t.calls[d + 1])
  <2>1. /\ Len(t.calls[d + 1].args) \in Nat
        /\ Complete(t.calls[d + 1]) = 4 + Len(t.calls[d + 1].args)
    BY <1>1, ListLengths
  <2>2. Complete(t.calls[d + 1]) \in Nat
    BY <2>1
  <2> QED
    BY <1>1, <2>2
<1> QED
  BY <1>1, <1>2, <1>3, <1>5, <1>6, <1>8, <1>9 DEF Within

(* A value that is the receiver of the call. *)
LEMMA ThisPlaced ==
  ASSUME NEW t \in TestCases, NEW td, NEW ex, NEW ld, NEW vi, NEW known, NEW d,
         Within(t, td, ex, ld, vi, known, d, 1, <<>>),
         NEW r \in Loadable, Got(vi, Head(td).n, r)
  PROVE  LET new == Placed(ld, Head(ex), r) IN
           /\ Within(t, Tail(td), Tail(ex), new, vi, known, d, 2, <<>>)
           /\ new.heap = ld.heap /\ new.root = ld.root
<1> DEFINE c == ld.calls[d + 1]
<1> DEFINE new == Placed(ld, Head(ex), r)
<1> DEFINE c2 == new.calls[d + 1]
<1>1. /\ d \in Nat /\ d < Len(t.calls) /\ td \in Seq(Token) /\ ex \in Seq(Token) /\ ld \in Loaded
  BY WithinTyped
<1>2. /\ Head(td) = ToWrite(ThisOf(t.calls[d + 1])) /\ Head(ex) = Item("this", 0) /\ ex # <<>>
      /\ Continues(Tail(ex), 0, FirstFields(t, d), 1 + 1)
  BY NextOfCall
<1>3. d + 1 \in Nat \ {0} /\ d + 1 = Len(ld.calls) /\ CallRead(vi, t.calls[d + 1], c, 1)
  BY <1>1 DEF Within
<1>4. /\ c \in LoadedCall /\ Advanced(ld, new, d + 1)
      /\ c2.callee = c.callee /\ c2.this = r /\ c2.args = c.args
  <2>1. new = Placed(ld, Item("this", 0), r)
    BY <1>2
  <2> HIDE DEF new
  <2> QED
    BY <1>1, <1>3, <2>1, ThisOfCall
<1>5. Got(vi, ThisOf(t.calls[d + 1]), r)
  BY <1>2 DEF ToWrite, Item
<1>7. CallRead(vi, t.calls[d + 1], c2, 2)
  <2>1. c.callee = t.calls[d + 1].callee /\ Len(c.args) = 0
    BY <1>3 DEF CallRead
  <2>2. 1 .. Len(c.args) = {}
    BY <2>1
  <2> HIDE DEF c, c2, new
  <2> QED
    BY <1>4, <1>5, <2>1, <2>2 DEF CallRead
<1>8. 1 < Complete(t.calls[d + 1]) /\ 1 + 1 = 2
  <2>1. Len(t.calls[d + 1].args) \in Nat /\ Complete(t.calls[d + 1]) = 4 + Len(t.calls[d + 1].args)
    BY <1>1, ListLengths
  <2> QED
    BY <2>1
<1>9. Tail(ex) \in Seq(Token)
  BY <1>1, <1>2
<1> HIDE DEF c, new
<1>10. Within(t, Tail(td), Tail(ex), new, vi, known, d, 2, <<>>)
       /\ new.heap = ld.heap /\ new.root = ld.root
  <2>1. Continues(Tail(ex), 0, FirstFields(t, d), 2)
    BY <1>2, <1>8
  <2>2. \A e \in Seq(Token) : Continues(e, 0, FirstFields(t, d), 2) =>
          /\ Within(t, Tail(td), e, new, vi, known, d, 2, <<>>)
          /\ new.heap = ld.heap /\ new.root = ld.root
    BY <1>4, <1>7, <1>8, CallAdvanced
  <2> QED
    BY <1>9, <2>1, <2>2
<1> QED
  BY <1>8, <1>10 DEF new

(* A value that is the next argument of the call. *)
LEMMA ArgumentPlaced ==
  ASSUME NEW t \in TestCases, NEW td, NEW ex, NEW ld, NEW vi, NEW known, NEW d, NEW k,
         Within(t, td, ex, ld, vi, known, d, k, <<>>),
         k >= 4, k < Complete(t.calls[d + 1]),
         NEW r \in Loadable, Got(vi, Head(td).n, r)
  PROVE  LET new == Placed(ld, Head(ex), r) IN
           /\ Within(t, Tail(td), Tail(ex), new, vi, known, d, k + 1, <<>>)
           /\ new.heap = ld.heap /\ new.root = ld.root
<1> DEFINE c == ld.calls[d + 1]
<1> DEFINE a2 == Append(c.args, r)
<1> DEFINE new == Placed(ld, Head(ex), r)
<1> DEFINE c2 == new.calls[d + 1]
<1>1. /\ d \in Nat /\ d < Len(t.calls) /\ td \in Seq(Token) /\ ex \in Seq(Token) /\ ld \in Loaded
      /\ k \in Nat
  BY WithinTyped
<1>2. /\ Head(td) = ToWrite(t.calls[d + 1].args[k - 3]) /\ Head(ex) = Item("argument", 0) /\ ex # <<>>
      /\ Continues(Tail(ex), 0, LastFields(t, d), k - 3)
  BY NextOfCall
<1>3. d + 1 \in Nat \ {0} /\ d + 1 = Len(ld.calls) /\ CallRead(vi, t.calls[d + 1], c, k)
  BY <1>1 DEF Within
<1>4. /\ c \in LoadedCall /\ Advanced(ld, new, d + 1)
      /\ c2.callee = c.callee /\ c2.this = c.this /\ c2.ctor = c.ctor /\ c2.args = a2
  <2>1. new = Placed(ld, Item("argument", 0), r)
    BY <1>2
  <2>2. PICK n \in Nat \ {0} : n = d + 1
    BY <1>3
  <2> HIDE DEF new
  <2>3. ld \in Loaded /\ n = Len(ld.calls)
    BY <1>1, <1>3, <2>2
  <2>4. PICK u : u = new
    OBVIOUS
  <2>5. ArgumentAdded(ld, u, n, r)
    BY <2>1, <2>3, <2>4, ArgumentOfCall
  <2> QED
    BY <2>2, <2>4, <2>5 DEF ArgumentAdded
<1>5. Got(vi, t.calls[d + 1].args[k - 3], r)
  BY <1>2 DEF ToWrite, Item
<1>6. c.args \in Seq(Loadable)
  BY <1>4 DEF LoadedCall
<1>7. /\ Len(c.args) = k - 4 /\ Len(a2) = k - 3 /\ a2[k - 3] = r
      /\ \A x \in 1 .. k - 4 : a2[x] = c.args[x]
  <2>1. Len(c.args) = k - 4
    BY <1>3 DEF CallRead
  <2>2. Len(a2) = Len(c.args) + 1 /\ a2[Len(c.args) + 1] = r /\ Len(c.args) \in Nat
        /\ \A x \in 1 .. Len(c.args) : a2[x] = c.args[x]
    BY SMTT(20), <1>6
  <2>3. k - 4 + 1 = k - 3
    BY <1>1
  <2> HIDE DEF a2, c
  <2> QED
    BY <2>1, <2>2, <2>3
<1> HIDE DEF a2
<1>8. \A x \in 1 .. k - 3 : Got(vi, t.calls[d + 1].args[x], a2[x])
  <2> TAKE x \in 1 .. k - 3
  <2>1. CASE x = k - 3
    BY <1>5, <1>7, <2>1
  <2>2. CASE x # k - 3
    <3>1. x \in 1 .. k - 4
      BY SMTT(20), <1>1, <2>2
    <3> QED
      BY <1>3, <1>7, <3>1 DEF CallRead
  <2> QED
    BY <2>1, <2>2
<1>9. CallRead(vi, t.calls[d + 1], c2, k + 1)
  <2>1. k + 1 - 4 = k - 3 /\ k >= 3 /\ k >= 2 /\ k >= 1
    BY <1>1
  <2> HIDE DEF c2, c
  <2> QED
    BY <1>1, <1>3, <1>4, <1>6, <1>7, <1>8, <2>1 DEF CallRead
<1>10. Tail(ex) \in Seq(Token) /\ k + 1 - 4 = k - 3 /\ ~(k + 1 < 4)
  BY <1>1, <1>2
<1> HIDE DEF c, new
<1>11. Within(t, Tail(td), Tail(ex), new, vi, known, d, k + 1, <<>>)
       /\ new.heap = ld.heap /\ new.root = ld.root
  <2>2. \A j : j = k + 1 => \A e \in Seq(Token) : Continues(e, 0, LastFields(t, d), j - 4) =>
          /\ Within(t, Tail(td), e, new, vi, known, d, j, <<>>)
          /\ new.heap = ld.heap /\ new.root = ld.root
    BY <1>4, <1>9, <1>10, CallAdvanced
  <2>3. PICK j : j = k + 1
    OBVIOUS
  <2>4. Continues(Tail(ex), 0, LastFields(t, d), j - 4)
    <3>1. j - 4 = k - 3
      BY <1>1, <2>3
    <3> QED
      BY <1>2, <3>1
  <2>5. \A e \in Seq(Token) : Continues(e, 0, LastFields(t, d), j - 4) =>
          /\ Within(t, Tail(td), e, new, vi, known, d, j, <<>>)
          /\ new.heap = ld.heap /\ new.root = ld.root
    BY <2>2, <2>3
  <2> QED
    BY <1>10, <2>3, <2>4, <2>5
<1> QED
  BY <1>11 DEF new

(* A value goes where it belongs. *)
LEMMA ValueIsPlaced ==
  ASSUME NEW t \in TestCases, NEW td, NEW ex, NEW ld, NEW vi, NEW known, NEW d, NEW k, NEW owed,
         Within(t, td, ex, ld, vi, known, d, k, owed), ValueNext(t, d, k, owed)
  PROVE  /\ td # <<>> /\ ex # <<>> /\ Head(td).is = "value" /\ Head(ex).is \in ValueField
         /\ \A r \in Loadable : Got(vi, Head(td).n, r) =>
              LET new == Placed(ld, Head(ex), r) IN
                /\ \E k2, o2 : /\ Within(t, Tail(td), Tail(ex), new, vi, known, d, k2, o2)
                               /\ k2 \notin {1, 3}
                /\ DOMAIN new.heap = DOMAIN ld.heap /\ new.root = ld.root
                /\ \A b \in DOMAIN vi \ known : new.heap[vi[b]] = ld.heap[vi[b]]
<1>1. CASE owed # <<>>
  BY <1>1, OwedElementPlaced
<1>2. CASE owed = <<>> /\ k = 1
  <2>1. Within(t, td, ex, ld, vi, known, d, 1, <<>>)
    BY <1>2
  <2>2. td # <<>> /\ ex # <<>> /\ Head(td).is = "value" /\ Head(ex).is \in ValueField
    <3>1. td # <<>> /\ ex # <<>> /\ Head(td) = ToWrite(ThisOf(t.calls[d + 1])) /\ Head(ex) = Item("this", 0)
      BY <2>1, NextOfCall
    <3> QED
      BY <3>1 DEF ToWrite, Item, ValueField
  <2>3. ASSUME NEW r \in Loadable, Got(vi, Head(td).n, r)
        PROVE  LET new == Placed(ld, Head(ex), r) IN
                /\ Within(t, Tail(td), Tail(ex), new, vi, known, d, 2, <<>>)
                /\ new.heap = ld.heap /\ new.root = ld.root
    BY <2>1, <2>3, ThisPlaced
  <2> QED
    BY <2>2, <2>3
<1>3. CASE owed = <<>> /\ k >= 4 /\ k < Complete(t.calls[d + 1])
  <2>1. Within(t, td, ex, ld, vi, known, d, k, <<>>)
    BY <1>3
  <2>2. td # <<>> /\ ex # <<>> /\ Head(td).is = "value" /\ Head(ex).is \in ValueField
    <3>1. td # <<>> /\ ex # <<>> /\ Head(td) = ToWrite(t.calls[d + 1].args[k - 3]) /\ Head(ex) = Item("argument", 0)
      BY <1>3, <2>1, NextOfCall
    <3> QED
      BY <3>1 DEF ToWrite, Item, ValueField
  <2>3. ASSUME NEW r \in Loadable, Got(vi, Head(td).n, r)
        PROVE  LET new == Placed(ld, Head(ex), r) IN
                /\ Within(t, Tail(td), Tail(ex), new, vi, known, d, k + 1, <<>>)
                /\ new.heap = ld.heap /\ new.root = ld.root
    BY <1>3, <2>1, <2>3, ArgumentPlaced
  <2>4. k + 1 \notin {1, 3}
    BY <1>3, <2>1, WithinTyped
  <2> QED
    BY <2>2, <2>3, <2>4
<1> QED
  BY <1>1, <1>2, <1>3 DEF ValueNext

LEMMA ValuePlaced ==
  ASSUME NEW t \in TestCases, NEW td, NEW ex, NEW ld, NEW vi, NEW known, NEW d, NEW k, NEW owed,
         Within(t, td, ex, ld, vi, known, d, k, owed), ValueNext(t, d, k, owed),
         NEW r \in Loadable, Got(vi, Head(td).n, r), NEW new, new = Placed(ld, Head(ex), r)
  PROVE  \E k2, o2 : /\ Within(t, Tail(td), Tail(ex), new, vi, known, d, k2, o2)
                     /\ k2 \notin {1, 3}
  BY ValueIsPlaced

(* new has the arrays of ld, and what it has of those that are not known. *)
SameArrays(new, ld, vi, known) ==
  /\ DOMAIN new.heap = DOMAIN ld.heap /\ new.root = ld.root
  /\ \A b \in DOMAIN vi \ known : new.heap[vi[b]] = ld.heap[vi[b]]

LEMMA PlacedKeepsArrays ==
  ASSUME NEW t \in TestCases, NEW td, NEW ex, NEW ld, NEW vi, NEW known, NEW d, NEW k, NEW owed,
         Within(t, td, ex, ld, vi, known, d, k, owed), ValueNext(t, d, k, owed),
         NEW r \in Loadable, Got(vi, Head(td).n, r), NEW new, new = Placed(ld, Head(ex), r)
  PROVE  SameArrays(new, ld, vi, known)
  BY ValueIsPlaced DEF SameArrays

(* A new array gets its number; then it is placed like a value, and then its elements
   are owed. *)
LEMMA ArrayRegistered ==
  ASSUME NEW t \in TestCases, NEW td, NEW ex, NEW ld, NEW vi, NEW d, NEW k, NEW owed,
         Within(t, td, ex, ld, vi, DOMAIN vi, d, k, owed),
         NEW a \in DOMAIN t.heap, a \notin DOMAIN vi, NEW m \in Nat, m \notin DOMAIN ld.heap,
         NEW v2, v2 = Put(vi, a, m),
         NEW new, new = [ld EXCEPT !.heap = Put(@, m, <<>>)]
  PROVE  Within(t, td, ex, new, v2, DOMAIN vi, d, k, owed)
<1> DEFINE h2 == new.heap
<1>1. /\ d \in Nat /\ d < Len(t.calls) /\ k \in Nat
      /\ owed \in Seq(Owed) /\ td \in Seq(Token) /\ ex \in Seq(Token) /\ ld \in Loaded
  BY WithinTyped
<1>2. Elements(t, td, ex, ld, vi, DOMAIN vi, owed)
  BY DEF Within
<1>3. /\ new \in Loaded /\ new.root = ld.root /\ new.calls = ld.calls
      /\ h2 = Put(ld.heap, m, <<>>)
  <2>1. /\ new \in Loaded /\ new.root = ld.root /\ new.calls = ld.calls
        /\ new.heap = Put(ld.heap, m, <<>>)
    BY <1>1, LoadedUpdates
  <2> QED
    BY <2>1
<1> HIDE DEF h2
<1>4. /\ ArraysNumbered(t, v2, h2, DOMAIN vi) /\ InFront(t, td, ex, owed, v2)
      /\ OwedOnce(t, owed, v2, h2, DOMAIN vi) /\ ElementsGot(t, v2, h2, DOMAIN vi)
  <2>1. /\ ArraysNumbered(t, vi, ld.heap, DOMAIN vi) /\ InFront(t, td, ex, owed, vi)
        /\ OwedOnce(t, owed, vi, ld.heap, DOMAIN vi) /\ ElementsGot(t, vi, ld.heap, DOMAIN vi)
    BY <1>2 DEF Elements
  <2> QED
    BY <1>1, <1>3, <2>1, ArrayNumbered
<1>5. \A v, r : Got(vi, v, r) => Got(v2, v, r)
  BY StillGot
<1>6. \A c, r, j : CallRead(vi, c, r, j) => CallRead(v2, c, r, j)
  BY <1>5 DEF CallRead
<1>7. /\ CallsRead(t, v2, new.calls, d)
      /\ CallRead(v2, t.calls[d + 1], new.calls[d + 1], k)
  BY <1>3, <1>6 DEF Within, CallsRead
<1>8. Elements(t, td, ex, new, v2, DOMAIN vi, owed)
  BY <1>1, <1>3, <1>4 DEF Elements, h2
<1>9. /\ d \in Nat /\ d < Len(t.calls) /\ Len(new.calls) = d + 1
      /\ k \in 1 .. Complete(t.calls[d + 1]) /\ (k \in {1, 3} => owed = <<>>)
      /\ Continues(td, Len(owed), Script(t, d), k)
      /\ k < 4 => Continues(ex, Len(owed), FirstFields(t, d), k)
      /\ k >= 4 => Continues(ex, Len(owed), LastFields(t, d), k - 4)
  BY <1>3 DEF Within
<1> QED
  BY <1>7, <1>8, <1>9 DEF Within

New(vi, ld, known, a) == a \in DOMAIN vi /\ a \notin known /\ ld.heap[vi[a]] = <<>> /\ vi[a] \in Nat

WithWrites(t, a, td)     == WritesOf(t, a) \o td
WithFields(t, vi, a, ex) == Copies(Len(t.heap[a]), Item("element", vi[a])) \o ex

LEMMA ArrayOpened ==
  ASSUME NEW t \in TestCases, NEW td, NEW ex, NEW ld, NEW vi, NEW known, NEW d, NEW k, NEW owed,
         Within(t, td, ex, ld, vi, known, d, k, owed), k \notin {1, 3},
         NEW a, New(vi, ld, known, a)
  PROVE  \E o2 : Within(t, WithWrites(t, a, td), WithFields(t, vi, a, ex), ld, vi, known \cup {a}, d, k, o2)
<1> DEFINE writes == WritesOf(t, a)
<1> DEFINE fields == Copies(Len(t.heap[a]), Item("element", vi[a]))
<1>0. a \in DOMAIN vi /\ a \notin known /\ ld.heap[vi[a]] = <<>> /\ vi[a] \in Nat
  BY DEF New
<1> DEFINE all == ElementsOf(t, a) \o owed
<1> DEFINE q == Len(t.heap[a])
<1>1. /\ d \in Nat /\ d < Len(t.calls) /\ k \in Nat /\ k <= Complete(t.calls[d + 1])
      /\ owed \in Seq(Owed) /\ td \in Seq(Token) /\ ex \in Seq(Token) /\ ld \in Loaded
      /\ Len(owed) \in Nat /\ Len(td) >= Len(owed) /\ Len(ex) >= Len(owed)
  BY WithinTyped
<1>2. /\ Elements(t, td, ex, ld, vi, known, owed)
      /\ a \in DOMAIN t.heap /\ t.heap[a] \in Seq(Value) /\ q \in Nat /\ DOMAIN t.heap[a] = 1 .. q
  BY SMTT(20), <1>0, TestCaseTyped DEF Within, Elements, ArraysNumbered
<1>3. writes \in Seq(Token) /\ Len(writes) = q
  <2>1. \A x \in 1 .. q : ToWrite(t.heap[a][x]) \in Token
    <3>1. \A v \in Value : ToWrite(v) \in Token
      BY Tokens DEF Kind, ToWrite
    <3> QED
      BY <1>2, <3>1
  <2>2. writes = [x \in 1 .. q |-> ToWrite(t.heap[a][x])]
    BY <1>2 DEF WritesOf
  <2> HIDE DEF q
  <2> QED
    BY <1>2, <2>1, <2>2
<1>4. fields \in Seq(Token) /\ Len(fields) = q
  <2>1. Item("element", vi[a]) \in Token
    BY <1>0, Tokens DEF Kind
  <2> HIDE DEF q
  <2>2. fields = [x \in 1 .. q |-> Item("element", vi[a])]
    BY DEF Copies, q
  <2> QED
    BY <1>2, <2>1, <2>2
<1>5. /\ all \in Seq(Owed) /\ Len(all) = q + Len(owed)
      /\ ArraysNumbered(t, vi, ld.heap, known \cup {a})
      /\ OwedOnce(t, all, vi, ld.heap, known \cup {a})
      /\ ElementsGot(t, vi, ld.heap, known \cup {a})
  BY <1>0, <1>1, <1>2, ElementsOwed DEF Elements
<1>6. InFront(t, writes \o td, fields \o ex, all, vi)
  <2>1. InFront(t, td, ex, owed, vi)
    BY <1>2 DEF Elements
  <2> QED
    BY <1>1, <1>2, <1>3, <1>4, <2>1, ElementsInFront
<1>7. /\ Len(Script(t, d)) \in Nat /\ Len(FirstFields(t, d)) \in Nat /\ Len(LastFields(t, d)) \in Nat
  BY <1>1, ListLengths
<1> HIDE DEF all, q, writes, fields
<1>8. writes \o td \in Seq(Token) /\ Continues(writes \o td, Len(all), Script(t, d), k)
  <2>1. Continues(td, Len(owed), Script(t, d), k)
    BY DEF Within
  <2>2. writes \o td \in Seq(Token) /\ Continues(writes \o td, Len(writes) + Len(owed), Script(t, d), k)
    BY <1>1, <1>3, <1>7, <2>1, PutInFront
  <2> QED
    BY <1>3, <1>5, <2>2
<1>9. fields \o ex \in Seq(Token)
  BY <1>1, <1>4
<1>10. k < 4 => Continues(fields \o ex, Len(all), FirstFields(t, d), k)
  <2> SUFFICES ASSUME k < 4 PROVE Continues(fields \o ex, Len(all), FirstFields(t, d), k)
    OBVIOUS
  <2>1. Continues(ex, Len(owed), FirstFields(t, d), k)
    BY DEF Within
  <2>2. Continues(fields \o ex, Len(fields) + Len(owed), FirstFields(t, d), k)
    BY <1>1, <1>4, <1>7, <2>1, PutInFront
  <2> QED
    BY <1>4, <1>5, <2>2
<1>11. k >= 4 => Continues(fields \o ex, Len(all), LastFields(t, d), k - 4)
  <2> SUFFICES ASSUME k >= 4 PROVE Continues(fields \o ex, Len(all), LastFields(t, d), k - 4)
    OBVIOUS
  <2>1. Continues(ex, Len(owed), LastFields(t, d), k - 4) /\ k - 4 \in Nat
    BY <1>1 DEF Within
  <2>2. Continues(fields \o ex, Len(fields) + Len(owed), LastFields(t, d), k - 4)
    BY <1>1, <1>4, <1>7, <2>1, PutInFront
  <2> QED
    BY <1>4, <1>5, <2>2
<1>12. Elements(t, writes \o td, fields \o ex, ld, vi, known \cup {a}, all)
  BY <1>1, <1>5, <1>6, <1>8, <1>9 DEF Elements
<1>13. /\ Len(ld.calls) = d + 1 /\ k \in 1 .. Complete(t.calls[d + 1])
       /\ CallsRead(t, vi, ld.calls, d)
       /\ CallRead(vi, t.calls[d + 1], ld.calls[d + 1], k)
  BY DEF Within
<1>14. Within(t, writes \o td, fields \o ex, ld, vi, known \cup {a}, d, k, all)
  BY Zenon, <1>1, <1>8, <1>10, <1>11, <1>12, <1>13 DEF Within
<1> QED
  BY <1>14 DEF WithWrites, WithFields, writes, fields

(* The number of the new array is known to be a number. *)
LEMMA ArrayGrown ==
  ASSUME NEW t \in TestCases, NEW td, NEW ex, NEW ld, NEW vi, NEW d, NEW k, NEW owed,
         Within(t, td, ex, ld, vi, DOMAIN vi, d, k, owed), ValueNext(t, d, k, owed),
         NEW a \in DOMAIN t.heap, a \notin DOMAIN vi, a = Head(td).n,
         NEW m \in Nat, m \notin DOMAIN ld.heap,
         NEW writes, writes = WritesOf(t, a),
         NEW fields, fields = Copies(Len(t.heap[a]), Item("element", m)),
         NEW v2, v2 = Put(vi, a, m), NEW l2, l2 = [ld EXCEPT !.heap = Put(@, m, <<>>)],
         NEW new, new = Placed(l2, Head(ex), ArrayAt(m))
  PROVE  /\ \E k2, o2 : Within(t, writes \o Tail(td), fields \o Tail(ex), new, v2, DOMAIN v2, d, k2, o2)
         /\ DOMAIN new.heap = DOMAIN ld.heap \cup {m} /\ new.root = ld.root
<1>0. ld \in Loaded
  BY WithinTyped
<1>1. /\ Within(t, td, ex, l2, v2, DOMAIN vi, d, k, owed)
      /\ a \in DOMAIN v2 /\ v2[a] = m /\ DOMAIN v2 = DOMAIN vi \cup {a}
      /\ l2.heap[m] = <<>> /\ DOMAIN l2.heap = DOMAIN ld.heap \cup {m} /\ l2.root = ld.root
  <2>1. Within(t, td, ex, l2, v2, DOMAIN vi, d, k, owed)
    BY ArrayRegistered
  <2>2. l2.root = ld.root /\ l2.heap = Put(ld.heap, m, <<>>)
    BY <1>0, LoadedUpdates
  <2>3. a \in DOMAIN v2 /\ v2[a] = m /\ DOMAIN v2 = DOMAIN vi \cup {a}
    BY DEF Put
  <2>4. l2.heap[m] = <<>> /\ DOMAIN l2.heap = DOMAIN ld.heap \cup {m}
    BY <2>2 DEF Put
  <2> QED
    BY <2>1, <2>2, <2>3, <2>4
<1>2. ArrayAt(m) \in Loadable
  BY DEF ArrayAt, Item, Loadable
<1>3. Got(v2, Head(td).n, ArrayAt(m))
  BY <1>1, TestCaseTyped, TestCasesAssumption DEF Got
<1>4. /\ DOMAIN new.heap = DOMAIN l2.heap /\ new.root = l2.root
      /\ \A b \in DOMAIN v2 \ DOMAIN vi : new.heap[v2[b]] = l2.heap[v2[b]]
  <2>1. SameArrays(new, l2, v2, DOMAIN vi)
    BY <1>1, <1>2, <1>3, PlacedKeepsArrays
  <2> QED
    BY <2>1 DEF SameArrays
<1>5. PICK k2, o2 : Within(t, Tail(td), Tail(ex), new, v2, DOMAIN vi, d, k2, o2) /\ k2 \notin {1, 3}
  BY <1>1, <1>2, <1>3, ValuePlaced
<1>6. new.heap[v2[a]] = <<>> /\ fields = Copies(Len(t.heap[a]), Item("element", v2[a]))
  BY <1>1, <1>4
<1>7. New(v2, new, DOMAIN vi, a)
  BY <1>1, <1>6 DEF New
<1>8. \E o3 : Within(t, writes \o Tail(td), fields \o Tail(ex), new, v2, DOMAIN v2, d, k2, o3)
  <2>1. \E o3 : Within(t, writes \o Tail(td), fields \o Tail(ex), new, v2, DOMAIN vi \cup {a}, d, k2, o3)
    <3>1. ASSUME NEW s, NEW u, Within(t, s, u, new, v2, DOMAIN vi, d, k2, o2)
          PROVE  \E o3 : Within(t, writes \o s, fields \o u, new, v2, DOMAIN vi \cup {a}, d, k2, o3)
      <4>1. \E o3 : Within(t, WithWrites(t, a, s), WithFields(t, v2, a, u), new, v2, DOMAIN vi \cup {a}, d, k2, o3)
        BY Zenon, <1>5, <1>7, <3>1, ArrayOpened
      <4>2. WithWrites(t, a, s) = writes \o s /\ WithFields(t, v2, a, u) = fields \o u
        BY Zenon, <1>6 DEF WithWrites, WithFields
      <4> QED
        BY <4>1, <4>2
    <3> QED
      BY <1>5, <3>1
  <2> QED
    BY <1>1, <2>1
<1> QED
  BY <1>1, <1>4, <1>8

-----------------------------------------------------------------------------
AdvancedTo(ld, new, n, c) == Advanced(ld, new, n) /\ new.calls[n] = c

LEMMA CallReplacedBy ==
  ASSUME NEW ld \in Loaded, NEW n \in Nat \ {0}, n = Len(ld.calls), NEW c \in LoadedCall,
         NEW s, s = [ld.calls EXCEPT ![n] = c], NEW new, new = [ld EXCEPT !.calls = s]
  PROVE  AdvancedTo(ld, new, n, c)
  BY CallReplaced DEF AdvancedTo

(* The flag that follows the receiver is read. *)
LEMMA CtorRead ==
  ASSUME NEW t \in TestCases, NEW td, NEW ex, NEW ld, NEW vi, NEW known, NEW d,
         Within(t, td, ex, ld, vi, known, d, 2, <<>>),
         NEW b, b = t.calls[d + 1].ctor, NEW new, new = [ld EXCEPT !.calls[Len(ld.calls)].ctor = b]
  PROVE  /\ Within(t, Tail(td), Tail(ex), new, vi, known, d, 3, <<>>)
         /\ new.heap = ld.heap /\ new.root = ld.root
<1> DEFINE c == ld.calls[d + 1]
<1> DEFINE c2 == [c EXCEPT !.ctor = b]
<1> DEFINE s == [ld.calls EXCEPT ![d + 1] = c2]
<1>1. /\ d \in Nat /\ d < Len(t.calls) /\ td \in Seq(Token) /\ ex \in Seq(Token) /\ ld \in Loaded
  BY WithinTyped
<1>2. ex # <<>> /\ Continues(Tail(ex), 0, FirstFields(t, d), 2 + 1)
  BY NextOfCall
<1>3. /\ d + 1 \in Nat \ {0} /\ d + 1 = Len(ld.calls) /\ CallRead(vi, t.calls[d + 1], c, 2)
      /\ ld.calls \in Seq(LoadedCall)
  BY <1>1 DEF Within, Loaded
<1>4. c \in LoadedCall /\ b \in BOOLEAN
  BY <1>1, <1>3, CallTyped
<1>5. c2 \in LoadedCall /\ c2.callee = c.callee /\ c2.this = c.this /\ c2.ctor = b /\ c2.args = c.args
  BY <1>4 DEF LoadedCall
<1>6. new = [ld EXCEPT !.calls = s]
  BY <1>3
<1> HIDE DEF c2
<1>7. s = [ld.calls EXCEPT ![d + 1] = c2]
  OBVIOUS
<1> HIDE DEF s
<1>8. Advanced(ld, new, d + 1) /\ new.calls[d + 1] = c2
  <2>1. PICK n \in Nat \ {0} : n = d + 1
    BY <1>3
  <2>2. s = [ld.calls EXCEPT ![n] = c2] /\ n = Len(ld.calls)
    BY <1>3, <1>7, <2>1
  <2>3. Advanced(ld, new, n) /\ new.calls[n] = c2
    <3>1. AdvancedTo(ld, new, n, c2)
      BY <1>1, <1>5, <1>6, <2>2, CallReplacedBy
    <3> QED
      BY <3>1 DEF AdvancedTo
  <2> QED
    BY <2>1, <2>3
<1>9. CallRead(vi, t.calls[d + 1], new.calls[d + 1], 3)
  <2>1. /\ c.callee = t.calls[d + 1].callee /\ Got(vi, ThisOf(t.calls[d + 1]), c.this)
        /\ Len(c.args) = 0
    BY <1>3 DEF CallRead
  <2>2. 1 .. Len(c.args) = {}
    BY <2>1
  <2> HIDE DEF c
  <2> QED
    <3>1. CallRead(vi, t.calls[d + 1], c2, 3)
      BY <1>5, <2>1, <2>2 DEF CallRead
    <3> QED
      BY <1>8, <3>1
<1>10. 2 < Complete(t.calls[d + 1])
  <2>1. Len(t.calls[d + 1].args) \in Nat /\ Complete(t.calls[d + 1]) = 4 + Len(t.calls[d + 1].args)
    BY <1>1, ListLengths
  <2> QED
    BY <2>1
<1>11. Tail(ex) \in Seq(Token)
  BY <1>1, <1>2
<1>12. Continues(Tail(ex), 0, FirstFields(t, d), 3)
  BY <1>2
<1>13. \A e \in Seq(Token) : Continues(e, 0, FirstFields(t, d), 3) =>
          /\ Within(t, Tail(td), e, new, vi, known, d, 3, <<>>)
          /\ new.heap = ld.heap /\ new.root = ld.root
  <2> HIDE DEF c
  <2>1. ASSUME NEW w, Advanced(ld, w, d + 1), CallRead(vi, t.calls[d + 1], w.calls[d + 1], 3)
        PROVE  \A e \in Seq(Token) : Continues(e, 0, FirstFields(t, d), 3) =>
                 /\ Within(t, Tail(td), e, w, vi, known, d, 3, <<>>)
                 /\ w.heap = ld.heap /\ w.root = ld.root
    BY <1>10, <2>1, CallAdvanced
  <2> QED
    BY <1>8, <1>9, <2>1
<1> QED
  BY <1>11, <1>12, <1>13

(* A place in a list of arguments, a result and m other items. *)
LEMMA PlaceInList ==
  ASSUME NEW q \in Nat, NEW m \in Int, NEW x \in 1 .. q + 1 + m
  PROVE  \/ x \in 1 .. q
         \/ x = q + 1
         \/ x - (q + 1) \in 1 .. m /\ q + 1 + (x - (q + 1)) = x
  OBVIOUS

(* The reader knows how many arguments follow. *)
LEMMA ArgumentsExpected ==
  ASSUME NEW t \in TestCases, NEW d \in Nat, d < Len(t.calls),
         NEW z \in Seq(Token), Continues(z, 0, FirstFields(t, d), 4),
         NEW q \in Nat, q = Len(t.calls[d + 1].args),
         NEW e, e = Copies(q, Item("argument", 0)) \o <<Item("result", 0)>> \o z
  PROVE  e \in Seq(Token) /\ Continues(e, 0, LastFields(t, d), 0)
<1> DEFINE h == Copies(q, Item("argument", 0))
<1> DEFINE r == <<Item("result", 0)>>
<1> DEFINE n == Len(t.calls)
<1>1. n \in Nat /\ d + 1 <= n
  BY TestCaseTyped
<1>2. Item("argument", 0) \in Token /\ Item("result", 0) \in Token
  BY Zenon, Tokens DEF Kind
<1>3. h \in Seq(Token) /\ r \in Seq(Token)
  BY <1>2, Single DEF Copies
<1>4. Len(h) = q /\ \A x \in 1 .. q : h[x] = Item("argument", 0)
  BY DEF Copies
<1>5. Len(z) = n - (d + 1) /\ \A x \in 1 .. n - (d + 1) : z[x] = Item("callee", 0)
  <2>1. /\ Len(FirstFields(t, d)) = 4 + n - (d + 1)
        /\ \A x \in 1 .. n - (d + 1) : FirstFields(t, d)[4 + x] = Item("callee", 0)
    BY FieldItems
  <2>2. Len(z) = 0 + Len(FirstFields(t, d)) - 4
        /\ \A x \in 1 .. Len(FirstFields(t, d)) - 4 : z[0 + x] = FirstFields(t, d)[4 + x]
    BY DEF Continues
  <2>3. Len(FirstFields(t, d)) - 4 = n - (d + 1) /\ \A x \in 1 .. n - (d + 1) : 0 + x = x
    BY <1>1, <2>1
  <2>4. Len(z) = n - (d + 1)
    BY <1>1, <2>1, <2>2
  <2>5. \A x \in 1 .. n - (d + 1) : z[x] = Item("callee", 0)
    BY <2>1, <2>2, <2>3
  <2> QED
    BY <2>4, <2>5
<1>6. Len(r) = 1 /\ r[1] = Item("result", 0)
  BY <1>2, Single
<1> DEFINE hr == h \o r
<1> DEFINE s == hr \o z
<1>7. e = s
  OBVIOUS
<1> HIDE DEF h, r, n
<1>8. /\ hr \in Seq(Token) /\ Len(hr) = Len(h) + Len(r)
      /\ \A x \in 1 .. Len(h) : hr[x] = h[x]
      /\ \A x \in 1 .. Len(r) : hr[Len(h) + x] = r[x]
  BY <1>3, Joined
<1> HIDE DEF hr
<1>9. /\ s \in Seq(Token) /\ Len(s) = Len(hr) + Len(z)
      /\ \A x \in 1 .. Len(hr) : s[x] = hr[x]
      /\ \A x \in 1 .. Len(z) : s[Len(hr) + x] = z[x]
  <2>1. hr \in Seq(Token)
    BY <1>8
  <2> QED
    BY <2>1, Joined
<1> HIDE DEF s
<1>10. Len(hr) = q + 1 /\ Len(s) = q + 1 + n - (d + 1)
  BY <1>1, <1>4, <1>5, <1>6, <1>8, <1>9
<1>11. \A x \in 1 .. q : s[x] = h[x]
  <2> TAKE x \in 1 .. q
  <2>1. x \in 1 .. Len(h) /\ x \in 1 .. Len(hr)
    BY <1>4, <1>10
  <2> QED
    BY Zenon, <1>8, <1>9, <2>1
<1>12. s[q + 1] = r[1]
  <2>1. 1 \in 1 .. Len(r) /\ Len(h) + 1 \in 1 .. Len(hr)
    BY SMTT(20), <1>4, <1>6, <1>10
  <2>2. s[Len(h) + 1] = r[1]
    BY <1>8, <1>9, <2>1
  <2> QED
    BY <1>4, <2>2
<1>13. \A x \in 1 .. n - (d + 1) : s[q + 1 + x] = z[x]
  BY <1>5, <1>9, <1>10
<1> DEFINE l == LastFields(t, d)
<1>14. /\ Len(l) = q + 1 + n - (d + 1) /\ \A x \in 1 .. q : l[x] = Item("argument", 0)
       /\ l[q + 1] = Item("result", 0)
       /\ \A x \in 1 .. n - (d + 1) : l[q + 1 + x] = Item("callee", 0)
  BY ZenonT(30), ArgumentItems DEF n
<1> HIDE DEF l
<1>15. \A x \in 1 .. q + 1 + n - (d + 1) : s[x] = l[x]
  <2> DEFINE m == n - (d + 1)
  <2>0. m \in Int /\ q + 1 + n - (d + 1) = q + 1 + m
    BY <1>1
  <2> SUFFICES ASSUME NEW x \in 1 .. q + 1 + m PROVE s[x] = l[x]
    BY <2>0
  <2>1. CASE x \in 1 .. q
    BY <1>4, <1>11, <1>14, <2>1
  <2>2. CASE x = q + 1
    BY Zenon, <1>6, <1>12, <1>14, <2>2
  <2>3. CASE x - (q + 1) \in 1 .. m /\ q + 1 + (x - (q + 1)) = x
    <3> DEFINE y == x - (q + 1)
    <3>2. y \in 1 .. n - (d + 1) /\ q + 1 + y = x
      BY <2>3
    <3> HIDE DEF y
    <3>3. s[q + 1 + y] = l[q + 1 + y]
      BY <1>5, <1>13, <1>14, <3>2
    <3> QED
      BY <3>2, <3>3
  <2> QED
    <3> HIDE DEF m
    <3> QED
      BY ZenonT(30), <2>0, <2>1, <2>2, <2>3, PlaceInList
<1>16. Continues(s, 0, l, 0)
  <2>1. Len(l) \in Nat /\ Len(s) = 0 + Len(l) - 0
    BY <1>1, <1>10, <1>14
  <2>2. \A x \in 1 .. Len(l) - 0 : s[0 + x] = l[0 + x]
    <3>1. \A x \in 1 .. Len(l) - 0 : x \in 1 .. q + 1 + n - (d + 1) /\ 0 + x = x
      BY <1>1, <1>14
    <3> QED
      BY <1>15, <3>1
  <2> QED
    BY <2>1, <2>2 DEF Continues
<1> QED
  BY <1>7, <1>9, <1>16 DEF l

(* The number of arguments is read, and so many are expected. *)
LEMMA ArgsCountRead ==
  ASSUME NEW t \in TestCases, NEW td, NEW ex, NEW ld, NEW vi, NEW known, NEW d,
         Within(t, td, ex, ld, vi, known, d, 3, <<>>),
         NEW e, e = Copies(Len(t.calls[d + 1].args), Item("argument", 0))
                      \o <<Item("result", 0)>> \o Tail(ex)
  PROVE  Within(t, Tail(td), e, ld, vi, known, d, 4, <<>>)
<1>1. /\ d \in Nat /\ d < Len(t.calls) /\ td \in Seq(Token) /\ ex \in Seq(Token) /\ ld \in Loaded
  BY WithinTyped
<1>2. ex # <<>> /\ Continues(Tail(ex), 0, FirstFields(t, d), 4)
  <2>1. ex # <<>> /\ Continues(Tail(ex), 0, FirstFields(t, d), 3 + 1)
    BY NextOfCall
  <2> QED
    BY <2>1
<1>3. Len(t.calls[d + 1].args) \in Nat
  BY <1>1, CallTyped
<1>4. Tail(ex) \in Seq(Token)
  BY <1>1, <1>2
<1>5. e \in Seq(Token) /\ Continues(e, 0, LastFields(t, d), 0)
  <2>1. \A z \in Seq(Token) : Continues(z, 0, FirstFields(t, d), 4) =>
          LET e2 == Copies(Len(t.calls[d + 1].args), Item("argument", 0)) \o <<Item("result", 0)>> \o z
          IN  e2 \in Seq(Token) /\ Continues(e2, 0, LastFields(t, d), 0)
    BY <1>1, <1>3, ArgumentsExpected
  <2> QED
    BY <1>2, <1>4, <2>1
<1>6. Advanced(ld, ld, d + 1) /\ CallRead(vi, t.calls[d + 1], ld.calls[d + 1], 4)
  <2>1. Len(ld.calls) = d + 1 /\ CallRead(vi, t.calls[d + 1], ld.calls[d + 1], 3)
    BY DEF Within
  <2>2. CallRead(vi, t.calls[d + 1], ld.calls[d + 1], 4)
    BY <2>1 DEF CallRead
  <2> QED
    BY <1>1, <2>1, <2>2 DEF Advanced
<1>7. 3 < Complete(t.calls[d + 1])
  <2>1. Complete(t.calls[d + 1]) = 4 + Len(t.calls[d + 1].args)
    BY <1>1, ListLengths
  <2> QED
    BY <1>3, <2>1
<1>8. \A u \in Seq(Token) : Continues(u, 0, LastFields(t, d), 0) =>
          Within(t, Tail(td), u, ld, vi, known, d, 4, <<>>)
  BY <1>6, <1>7, CallAdvanced
<1> QED
  BY <1>5, <1>8

LEMMA Rest ==
  ASSUME NEW n \in Nat, NEW q \in Nat, NEW d \in Nat, d < n
  PROVE  /\ q + 1 + n - (d + 1) - (q + 1) = n - (d + 1) /\ n - (d + 1) \in Nat
         /\ 4 + q + 1 + n - (d + 1) - (4 + q + 1) = n - (d + 1) /\ d + 1 \in 0 .. n
         /\ d + 1 \in Nat /\ d + 1 <= n
  OBVIOUS

(* The call is complete: the reader knows this before the writer goes on. *)
LEMMA ResultRead ==
  ASSUME NEW t \in TestCases, NEW td, NEW ex, NEW ld, NEW vi, NEW d, NEW k,
         Within(t, td, ex, ld, vi, DOMAIN vi, d, k, <<>>), k = Complete(t.calls[d + 1])
  PROVE  Between(t, td, Tail(ex), ld, vi, d + 1, Script(t, d), k)
<1> DEFINE n == Len(t.calls)
<1> DEFINE q == Len(t.calls[d + 1].args)
<1> DEFINE z == CalleesAfter(t, d + 1)
<1> DEFINE l == LastFields(t, d)
<1> DEFINE s == Tail(ex)
<1>1. /\ d \in Nat /\ d < Len(t.calls) /\ td \in Seq(Token) /\ ex \in Seq(Token) /\ ld \in Loaded
      /\ k \in Nat
  BY WithinTyped
<1>2. n \in Nat /\ q \in Nat /\ k = 4 + q
  BY <1>1, ListLengths
<1>3. ex # <<>> /\ Continues(s, 0, l, q + 1)
  <2>1. ex # <<>> /\ (k >= 4 => Continues(s, 0, l, k - 3))
    BY NextOfCall
  <2>2. k >= 4 /\ k - 3 = q + 1
    BY <1>2
  <2> QED
    BY <2>1, <2>2
<1>4. /\ n - (d + 1) \in Nat /\ d + 1 \in 0 .. n /\ d + 1 \in Nat /\ d + 1 <= n
      /\ q + 1 + n - (d + 1) - (q + 1) = n - (d + 1)
  BY <1>1, <1>2, Rest
<1>5. Len(z) = n - (d + 1) /\ \A x \in 1 .. n - (d + 1) : z[x] = Item("callee", 0)
  BY <1>4, CallsAfterItems
<1>6. Len(l) = q + 1 + n - (d + 1) /\ \A x \in 1 .. n - (d + 1) : l[q + 1 + x] = Item("callee", 0)
  BY ZenonT(30), <1>1, <1>2, ArgumentItems
<1> HIDE DEF n, q, z, l, s
<1>7. Continues(s, 0, z, 0)
  <2>1. Len(s) = 0 + Len(l) - (q + 1) /\ \A x \in 1 .. Len(l) - (q + 1) : s[0 + x] = l[q + 1 + x]
    BY <1>3 DEF Continues
  <2>2. Len(l) - (q + 1) = n - (d + 1)
    <3>1. Len(l) \in Int /\ q + 1 + n - (d + 1) \in Int
      BY <1>1, <1>2, <1>6
    <3> QED
      BY <1>1, <1>2, <1>4, <1>6, <3>1
  <2>3. \A x \in 1 .. n - (d + 1) : s[0 + x] = z[x]
    BY <1>5, <1>6, <2>1, <2>2
  <2>4. Len(s) = 0 + Len(z) - 0
    BY <1>2, <1>4, <1>5, <1>6, <2>1, <2>2
  <2>5. \A x \in 1 .. Len(z) - 0 : s[0 + x] = z[0 + x]
    <3>1. \A x \in 1 .. Len(z) - 0 : x \in 1 .. n - (d + 1) /\ 0 + x = x
      BY <1>4, <1>5
    <3> QED
      BY <2>3, <3>1
  <2>6. 0 \in 0 .. Len(z)
    BY <1>4, <1>5
  <2> QED
    BY <2>4, <2>5, <2>6 DEF Continues
<1>8. Len(<<>>) = 0
  OBVIOUS
<1>9. /\ Len(ld.calls) = d + 1 /\ Continues(td, 0, Script(t, d), k)
      /\ Elements(t, td, ex, ld, vi, DOMAIN vi, <<>>)
      /\ CallsRead(t, vi, ld.calls, d)
      /\ CallRead(vi, t.calls[d + 1], ld.calls[d + 1], k)
  BY <1>8 DEF Within
<1>10. s \in Seq(Token)
  BY <1>1, <1>3 DEF s
<1>11. Elements(t, td, s, ld, vi, DOMAIN vi, <<>>)
  BY <1>9, <1>10 DEF Elements, InFront
<1>12. CallsRead(t, vi, ld.calls, d + 1)
  <2>1. \A i \in 1 .. d + 1 : i \in 1 .. d \/ i = d + 1
    BY <1>1
  <2> QED
    BY <1>9, <2>1 DEF CallsRead
<1> QED
  BY <1>4, <1>7, <1>9, <1>11, <1>12 DEF Between, z, s, n

(* The writer numbers the result after the reader has. *)
LEMMA ResultNumbered ==
  ASSUME NEW t \in TestCases, NEW td, NEW ex, NEW ld, NEW vi, NEW d \in Nat, d < Len(t.calls), NEW k,
         Between(t, td, ex, ld, vi, d + 1, Script(t, d), k), k = Complete(t.calls[d + 1])
  PROVE  /\ td # <<>> /\ Head(td) = Item("result", d + 1)
         /\ Between(t, Tail(td), ex, ld, vi, d + 1, CallsAfter(t, d + 1), 0)
<1> DEFINE n == Len(t.calls)
<1> DEFINE q == Len(t.calls[d + 1].args)
<1> DEFINE z == CallsAfter(t, d + 1)
<1> DEFINE l == Script(t, d)
<1> DEFINE s == Tail(td)
<1>1. /\ n \in Nat /\ q \in Nat /\ k = 4 + q /\ Len(l) \in Nat /\ k < Len(l)
  BY ListLengths
<1>2. /\ td \in Seq(Token) /\ Continues(td, 0, l, k)
  BY DEF Between, Elements
<1>3. td # <<>> /\ Head(td) = l[k + 1] /\ s \in Seq(Token) /\ Continues(s, 0, l, k + 1)
  BY SMTT(20), <1>1, <1>2, TailContinues
<1>4. /\ n - (d + 1) \in Nat /\ d + 1 \in Nat /\ d + 1 <= n
      /\ 4 + q + 1 + n - (d + 1) - (4 + q + 1) = n - (d + 1)
  BY <1>1, Rest
<1>5. Len(z) = n - (d + 1) /\ \A x \in 1 .. n - (d + 1) : z[x] = Item("call", d + 1 + x)
  BY <1>4, CallsAfterItems
<1>6. /\ Len(l) = k + 1 + n - (d + 1) /\ l[k + 1] = Item("result", d + 1)
      /\ \A x \in 1 .. n - (d + 1) : l[k + 1 + x] = Item("call", d + 1 + x)
  BY ScriptItems
<1> HIDE DEF n, q, z, l, s
<1>7. Continues(s, 0, z, 0)
  <2>1. Len(s) = 0 + Len(l) - (k + 1) /\ \A x \in 1 .. Len(l) - (k + 1) : s[0 + x] = l[k + 1 + x]
    BY <1>3 DEF Continues
  <2>2. Len(l) - (k + 1) = n - (d + 1)
    <3>1. k + 1 + n - (d + 1) - (k + 1) = n - (d + 1)
      BY <1>1, <1>4
    <3> QED
      BY <1>1, <1>6, <3>1
  <2>3. \A x \in 1 .. n - (d + 1) : s[0 + x] = z[x]
    BY <1>5, <1>6, <2>1, <2>2
  <2>4. Len(s) = 0 + Len(z) - 0
    <3>1. k + 1 + n - (d + 1) - (k + 1) = n - (d + 1) /\ 0 + (n - (d + 1)) - 0 = n - (d + 1)
          /\ 0 + (k + 1 + n - (d + 1)) - (k + 1) = n - (d + 1)
      BY <1>1, <1>4
    <3> QED
      BY <1>5, <1>6, <2>1, <3>1
  <2>5. \A x \in 1 .. Len(z) - 0 : s[0 + x] = z[0 + x]
    <3>1. \A x \in 1 .. Len(z) - 0 : x \in 1 .. n - (d + 1) /\ 0 + x = x
      BY <1>4, <1>5
    <3> QED
      BY <2>3, <3>1
  <2>6. 0 \in 0 .. Len(z)
    BY <1>4, <1>5
  <2> QED
    BY <2>4, <2>5, <2>6 DEF Continues
<1>8. Elements(t, s, ex, ld, vi, DOMAIN vi, <<>>)
  BY <1>3 DEF Between, Elements, InFront
<1>9. Between(t, s, ex, ld, vi, d + 1, z, 0)
  BY <1>7, <1>8 DEF Between
<1> QED
  BY <1>3, <1>6, <1>9 DEF s, z

(* The fields of the next call take its place. *)
LEMMA CallStarted ==
  ASSUME NEW t \in TestCases, NEW td, NEW ex, NEW ld, NEW vi, NEW d \in Nat, d < Len(t.calls),
         Between(t, td, ex, ld, vi, d, CallsAfter(t, d), 0)
  PROVE  /\ td # <<>> /\ Head(td) = Item("call", d + 1)
         /\ Between(t, SerializeCall(t.calls[d + 1], d + 1) \o Tail(td), ex, ld, vi, d, Script(t, d), 0)
<1> DEFINE n == Len(t.calls)
<1> DEFINE z == CallsAfter(t, d)
<1> DEFINE y == CallsAfter(t, d + 1)
<1> DEFINE s == Tail(td)
<1>1. n \in Nat /\ d + 1 \in Nat /\ d + 1 <= n
  BY TestCaseTyped
<1>2. /\ Len(z) = n - d /\ \A x \in 1 .. n - d : z[x] = Item("call", d + x)
  BY CallsAfterItems
<1>3. /\ y \in Seq(Token) /\ Len(y) = n - (d + 1)
      /\ \A x \in 1 .. n - (d + 1) : y[x] = Item("call", d + 1 + x)
  BY <1>1, CallsAfterItems
<1>4. td \in Seq(Token) /\ Continues(td, 0, z, 0)
  BY DEF Between, Elements
<1> HIDE DEF n, z, y
<1>5. td # <<>> /\ Head(td) = z[0 + 1] /\ s \in Seq(Token) /\ Continues(s, 0, z, 0 + 1)
  <2>1. Len(z) \in Nat /\ 0 < Len(z)
    BY <1>1, <1>2
  <2> QED
    BY <1>4, <2>1, TailContinues
<1>6. Head(td) = Item("call", d + 1)
  BY <1>1, <1>2, <1>5
<1> HIDE DEF s
<1>7. s = y
  <2>1. Len(s) = Len(y) /\ Len(s) \in Nat
    BY <1>1, <1>2, <1>3, <1>5 DEF Continues
  <2>2. ASSUME NEW x \in 1 .. Len(y) PROVE s[x] = y[x]
    <3>1. x \in Int /\ x \in 1 .. n - (d + 1) /\ x \in 1 .. Len(z) - 1 /\ 1 + x \in 1 .. n - d
      BY SMTT(20), <1>1, <1>2, <1>3
    <3>2. s[0 + x] = z[1 + x]
      BY SMTT(20), <1>5, <3>1 DEF Continues
    <3>3. d + (1 + x) = d + 1 + x /\ 0 + x = x
      BY <3>1
    <3> QED
      BY <1>2, <1>3, <3>1, <3>2, <3>3
  <2> QED
    BY <1>3, <1>5, <2>1, <2>2, SeqEqual
<1> DEFINE w == SerializeCall(t.calls[d + 1], d + 1) \o s
<1>8. w = Script(t, d)
  BY <1>7 DEF Script, y
<1> HIDE DEF w
<1>9. w \in Seq(Token) /\ Len(w) \in Nat
  <2>1. Script(t, d) \in Seq(Token)
    BY ScriptItems
  <2> QED
    BY <1>8, <2>1
<1>10. Continues(w, 0, Script(t, d), 0)
  BY <1>8, <1>9 DEF Continues
<1>11. Elements(t, w, ex, ld, vi, DOMAIN vi, <<>>)
  BY <1>9 DEF Between, Elements, InFront
<1>12. Between(t, w, ex, ld, vi, d, Script(t, d), 0)
  BY <1>10, <1>11 DEF Between
<1> QED
  BY <1>5, <1>6, <1>12 DEF w, s

(* Neither has anything left after the last call. *)
LEMMA AllDone ==
  ASSUME NEW t \in TestCases, NEW td, NEW ex, NEW ld, NEW vi, NEW d, d = Len(t.calls),
         Between(t, td, ex, ld, vi, d, CallsAfter(t, d), 0)
  PROVE  td = <<>> /\ ex = <<>>
<1>1. d \in Nat /\ d <= Len(t.calls) /\ Len(t.calls) - d = 0
  BY TestCaseTyped
<1>2. Len(CallsAfter(t, d)) = 0 /\ Len(CalleesAfter(t, d)) = 0
  BY <1>1, CallsAfterItems
<1>3. Len(td) = 0 /\ Len(ex) = 0
  BY <1>2 DEF Between, Continues
<1>4. td \in Seq(Token) /\ ex \in Seq(Token)
  BY DEF Between, Elements
<1> QED
  BY <1>3, <1>4

LEMMA Three ==
  ASSUME NEW S, NEW a \in S, NEW b \in S, NEW c \in S
  PROVE  /\ <<a, b, c>> \in Seq(S) /\ Len(<<a, b, c>>) = 3
         /\ <<a, b, c>>[1] = a /\ <<a, b, c>>[2] = b /\ <<a, b, c>>[3] = c
  OBVIOUS

ThreeInFront(S, s, h, z) ==
  /\ s \in Seq(S) /\ Len(s) = 3 + Len(z)
  /\ s[1] = h[1] /\ s[2] = h[2] /\ s[3] = h[3]
  /\ \A x \in 1 .. Len(z) : s[3 + x] = z[x]

LEMMA ThreeJoined ==
  ASSUME NEW S, NEW h \in Seq(S), NEW z \in Seq(S), NEW s, s = h \o z
  PROVE  Len(h) = 3 => ThreeInFront(S, s, h, z)
<1>1. /\ s \in Seq(S) /\ Len(s) = Len(h) + Len(z)
      /\ \A x \in 1 .. Len(h) : s[x] = h[x]
      /\ \A x \in 1 .. Len(z) : s[Len(h) + x] = z[x]
  BY Joined
<1>2. ASSUME Len(h) = 3 PROVE 1 \in 1 .. Len(h) /\ 2 \in 1 .. Len(h) /\ 3 \in 1 .. Len(h)
  BY <1>2
<1> QED
  BY <1>1, <1>2 DEF ThreeInFront

(* A place in a list of three and m other items. *)
LEMMA PlaceAfterThree ==
  ASSUME NEW m \in Int, NEW x \in 1 .. 3 + m
  PROVE  x = 1 \/ x = 2 \/ x = 3 \/ (x - 3 \in 1 .. m /\ 3 + (x - 3) = x /\ 1 + x = 4 + (x - 3))
  OBVIOUS

(* The fields of the next call take its place. *)
LEMMA FieldsExpected ==
  ASSUME NEW t \in TestCases, NEW d \in Nat, d < Len(t.calls),
         NEW z \in Seq(Token), Len(z) = Len(t.calls) - (d + 1),
         \A x \in 1 .. Len(t.calls) - (d + 1) : z[x] = Item("callee", 0),
         NEW e, e = <<Item("this", 0), Item("ctor", 0), Item("argsCount", 0)>> \o z
  PROVE  e \in Seq(Token) /\ Continues(e, 0, FirstFields(t, d), 1)
<1> DEFINE h == <<Item("this", 0), Item("ctor", 0), Item("argsCount", 0)>>
<1> DEFINE m == Len(t.calls) - (d + 1)
<1> DEFINE s == h \o z
<1> DEFINE f == FirstFields(t, d)
<1>1. /\ Item("this", 0) \in Token /\ Item("ctor", 0) \in Token /\ Item("argsCount", 0) \in Token
  BY Tokens DEF Kind
<1>2. /\ h \in Seq(Token) /\ Len(h) = 3
      /\ h[1] = Item("this", 0) /\ h[2] = Item("ctor", 0) /\ h[3] = Item("argsCount", 0)
  BY <1>1, Three
<1>3. Len(t.calls) \in Nat /\ m \in Nat
  BY TestCaseTyped
<1>4. 4 + Len(t.calls) - (d + 1) = 4 + m
  BY <1>3
<1>5. /\ Len(f) = 4 + m
      /\ f[2] = Item("this", 0) /\ f[3] = Item("ctor", 0) /\ f[4] = Item("argsCount", 0)
      /\ \A x \in 1 .. m : f[4 + x] = Item("callee", 0)
  <2>1. Len(f) = 4 + Len(t.calls) - (d + 1)
    BY FieldItems
  <2> QED
    BY <1>4, <2>1, FieldItems
<1>6. e = s /\ s = h \o z
  OBVIOUS
<1>7. Len(z) = m /\ \A x \in 1 .. m : z[x] = Item("callee", 0)
  OBVIOUS
<1> HIDE DEF h, m, f, s
<1>8. /\ s \in Seq(Token) /\ Len(s) = 3 + Len(z)
      /\ s[1] = h[1] /\ s[2] = h[2] /\ s[3] = h[3]
      /\ \A x \in 1 .. Len(z) : s[3 + x] = z[x]
  <2>1. h \in Seq(Token) /\ z \in Seq(Token) /\ s = h \o z /\ Len(h) = 3
    BY <1>2, <1>6
  <2>2. ThreeInFront(Token, s, h, z)
    BY <2>1, ThreeJoined
  <2> QED
    BY <2>2 DEF ThreeInFront
<1>9. Len(s) = 3 + m /\ \A x \in 1 .. m : s[3 + x] = z[x]
  BY <1>7, <1>8
<1>10. \A x \in 1 .. 3 + m : s[x] = f[1 + x]
  <2> TAKE x \in 1 .. 3 + m
  <2>1. CASE x = 1
    BY SMTT(20), <1>2, <1>5, <1>8, <2>1
  <2>2. CASE x = 2
    BY SMTT(20), <1>2, <1>5, <1>8, <2>2
  <2>3. CASE x = 3
    BY <1>2, <1>5, <1>8, <2>3
  <2>4. CASE x - 3 \in 1 .. m /\ 3 + (x - 3) = x /\ 1 + x = 4 + (x - 3)
    <3> DEFINE y == x - 3
    <3>1. y \in 1 .. m /\ x = 3 + y /\ 1 + x = 4 + y
      BY <2>4
    <3> HIDE DEF y
    <3>2. s[3 + y] = f[4 + y]
      BY Zenon, <1>5, <1>7, <1>9, <3>1
    <3> QED
      BY <3>1, <3>2
  <2> QED
    BY <1>3, <2>1, <2>2, <2>3, <2>4, PlaceAfterThree
<1>11. /\ 1 \in 0 .. Len(f) /\ Len(s) = 0 + Len(f) - 1 /\ Len(f) - 1 = 3 + m
       /\ \A x \in 1 .. 3 + m : 0 + x = x
  BY <1>3, <1>5, <1>9
<1>12. Continues(s, 0, f, 1)
  <2>1. \A x \in 1 .. Len(f) - 1 : s[0 + x] = f[1 + x]
    BY <1>10, <1>11
  <2> QED
    BY <1>11, <2>1 DEF Continues
<1> QED
  BY <1>6, <1>8, <1>12 DEF f

LEMMA NextCallee ==
  ASSUME NEW t \in TestCases, NEW td, NEW ex, NEW ld, NEW vi, NEW d \in Nat, d < Len(t.calls),
         NEW list, NEW k, Between(t, td, ex, ld, vi, d, list, k)
  PROVE  /\ ex # <<>> /\ Head(ex) = Item("callee", 0)
         /\ Tail(ex) \in Seq(Token) /\ Len(Tail(ex)) = Len(t.calls) - (d + 1)
         /\ \A x \in 1 .. Len(t.calls) - (d + 1) : Tail(ex)[x] = Item("callee", 0)
<1> DEFINE n == Len(t.calls)
<1> DEFINE z == CalleesAfter(t, d)
<1> DEFINE s == Tail(ex)
<1>1. n \in Nat
  BY TestCaseTyped
<1>2. Len(z) = n - d /\ \A x \in 1 .. n - d : z[x] = Item("callee", 0)
  BY CallsAfterItems
<1>3. ex \in Seq(Token) /\ Continues(ex, 0, z, 0)
  BY DEF Between, Elements
<1> HIDE DEF n, z
<1>4. d < n
  BY DEF n
<1>5. Len(z) \in Nat /\ 0 < Len(z) /\ 1 \in 1 .. n - d
  BY <1>1, <1>2, <1>4
<1>6. ex # <<>> /\ Head(ex) = z[0 + 1] /\ s \in Seq(Token) /\ Continues(s, 0, z, 0 + 1)
  BY <1>3, <1>5, TailContinues
<1>7. Len(s) = 0 + Len(z) - (0 + 1) /\ \A x \in 1 .. Len(z) - (0 + 1) : s[0 + x] = z[0 + 1 + x]
  BY <1>6 DEF Continues
<1> HIDE DEF s
<1>8. Len(s) = n - (d + 1)
  BY <1>1, <1>2, <1>7
<1>9. \A x \in 1 .. n - (d + 1) : s[x] = Item("callee", 0)
  <2> TAKE x \in 1 .. n - (d + 1)
  <2>1. x \in 1 .. Len(z) - (0 + 1) /\ 0 + x = x /\ 0 + 1 + x \in 1 .. n - d
    BY <1>1, <1>2
  <2> QED
    BY <1>2, <1>7, <2>1
<1>10. Head(ex) = Item("callee", 0)
  <2>1. 0 + 1 = 1
    OBVIOUS
  <2> QED
    BY <1>2, <1>5, <1>6, <2>1
<1> QED
  BY <1>6, <1>8, <1>9, <1>10 DEF s, n

Keeps(new, ld) == new.heap = ld.heap /\ new.root = ld.root

NewCall(c) == [callee |-> c, this |-> NoThis, ctor |-> FALSE, args |-> <<>>]

(* The reader starts a call. *)
LEMMA CalleeRead ==
  ASSUME NEW t \in TestCases, NEW td, NEW ex, NEW ld, NEW vi, NEW d \in Nat, d < Len(t.calls),
         Between(t, td, ex, ld, vi, d, Script(t, d), 0),
         NEW c, c = NewCall(t.calls[d + 1].callee),
         NEW new, new = [ld EXCEPT !.calls = Append(@, c)],
         NEW e, e = <<Item("this", 0), Item("ctor", 0), Item("argsCount", 0)>> \o Tail(ex)
  PROVE  /\ Within(t, Tail(td), e, new, vi, DOMAIN vi, d, 1, <<>>) /\ Keeps(new, ld)
         /\ Head(td) = Word(t.calls[d + 1].callee)
<1> DEFINE s == Tail(td)
<1> DEFINE o == t.calls[d + 1]
<1>1. /\ Len(t.calls) \in Nat /\ d + 1 \in 1 .. Len(t.calls) /\ o.callee \in Nat
      /\ Complete(o) = 4 + Len(o.args) /\ Len(o.args) \in Nat /\ o.args \in Seq(Value)
  BY TestCaseTyped, CallTyped DEF Complete
<1>2. c \in LoadedCall /\ c.callee = o.callee /\ c.args = <<>> /\ Len(c.args) = 0
  BY <1>1 DEF NewCall, LoadedCall
<1>3. /\ ld \in Loaded /\ td \in Seq(Token) /\ Len(ld.calls) = d
      /\ Continues(td, 0, Script(t, d), 0) /\ CallsRead(t, vi, ld.calls, d)
      /\ Elements(t, td, ex, ld, vi, DOMAIN vi, <<>>)
  BY DEF Between, Elements
<1>4. /\ new \in Loaded /\ new.root = ld.root /\ new.heap = ld.heap
      /\ Len(new.calls) = d + 1 /\ new.calls[d + 1] = c
      /\ \A i \in 1 .. d : new.calls[i] = ld.calls[i]
  <2>1. LET w == [ld EXCEPT !.calls = Append(@, c)] IN
              /\ w \in Loaded /\ w.root = ld.root /\ w.heap = ld.heap
              /\ Len(w.calls) = Len(ld.calls) + 1 /\ w.calls[Len(ld.calls) + 1] = c
              /\ \A i \in 1 .. Len(ld.calls) : w.calls[i] = ld.calls[i]
    BY <1>2, <1>3, LoadedUpdates
  <2> QED
    BY <1>3, <2>1
<1>5. /\ td # <<>> /\ Head(td) = Script(t, d)[0 + 1]
      /\ s \in Seq(Token) /\ Continues(s, 0, Script(t, d), 0 + 1)
  <2> DEFINE l == Script(t, d)
  <2>1. Len(l) \in Nat /\ 0 < Len(l)
    BY <1>1, ListLengths
  <2>2. Continues(td, 0, l, 0) /\ td \in Seq(Token)
    BY <1>3
  <2> HIDE DEF l
  <2>3. /\ td # <<>> /\ Head(td) = l[0 + 1] /\ s \in Seq(Token) /\ Continues(s, 0, l, 0 + 1)
    BY <2>1, <2>2, TailContinues
  <2> QED
    BY <2>3 DEF l
<1>6. Head(td) = Word(o.callee) /\ Continues(s, 0, Script(t, d), 1)
  <2>1. 0 + 1 = 1
    OBVIOUS
  <2>2. Script(t, d)[1] = Word(o.callee)
    BY ScriptItems
  <2> QED
    BY <1>5, <2>1, <2>2
<1>7. e \in Seq(Token) /\ Continues(e, 0, FirstFields(t, d), 1)
  <2>1. /\ Tail(ex) \in Seq(Token) /\ Len(Tail(ex)) = Len(t.calls) - (d + 1)
        /\ \A x \in 1 .. Len(t.calls) - (d + 1) : Tail(ex)[x] = Item("callee", 0)
    BY NextCallee
  <2>2. \A z \in Seq(Token) :
           /\ Len(z) = Len(t.calls) - (d + 1)
           /\ \A x \in 1 .. Len(t.calls) - (d + 1) : z[x] = Item("callee", 0)
           => LET u == <<Item("this", 0), Item("ctor", 0), Item("argsCount", 0)>> \o z
              IN  u \in Seq(Token) /\ Continues(u, 0, FirstFields(t, d), 1)
    BY FieldsExpected
  <2> QED
    BY <2>1, <2>2
<1> HIDE DEF s, o
<1>8. CallsRead(t, vi, new.calls, d)
  BY Zenon, <1>3, <1>4 DEF CallsRead
<1>9. CallRead(vi, o, new.calls[d + 1], 1)
  BY <1>2, <1>4 DEF CallRead
<1>10. Elements(t, s, e, new, vi, DOMAIN vi, <<>>)
  BY <1>3, <1>4, <1>5, <1>7 DEF Elements, InFront
<1>11. Len(<<>>) = 0 /\ 1 \in 1 .. Complete(o) /\ 1 < 4 /\ ~(1 >= 4)
  BY <1>1
<1>12. Within(t, s, e, new, vi, DOMAIN vi, d, 1, <<>>)
  BY <1>4, <1>6, <1>7, <1>8, <1>9, <1>10, <1>11 DEF Within, o
<1> QED
  BY <1>4, <1>5, <1>6, <1>12 DEF s, o, Keeps

(* It was written first. *)
LEMMA CalleeIsFirst ==
  ASSUME NEW t \in TestCases, NEW td, NEW ex, NEW ld, NEW vi, NEW d \in Nat, d < Len(t.calls),
         Between(t, td, ex, ld, vi, d, Script(t, d), 0)
  PROVE  td # <<>> /\ Head(td) = Word(t.calls[d + 1].callee)
<1> DEFINE l == Script(t, d)
<1>1. Len(l) \in Nat /\ 0 < Len(l) /\ l[1] = Word(t.calls[d + 1].callee)
  <2>1. Complete(t.calls[d + 1]) = 4 + Len(t.calls[d + 1].args) /\ Len(t.calls[d + 1].args) \in Nat
    BY ListLengths
  <2>2. Len(l) \in Nat /\ Len(l) > Complete(t.calls[d + 1])
    BY ListLengths
  <2>3. l[1] = Word(t.calls[d + 1].callee)
    BY ScriptItems
  <2> HIDE DEF l
  <2> QED
    BY <2>1, <2>2, <2>3
<1>2. td \in Seq(Token) /\ Continues(td, 0, l, 0)
  BY DEF Between, Elements
<1> HIDE DEF l
<1>3. td # <<>> /\ Head(td) = l[0 + 1]
  BY <1>1, <1>2, TailContinues
<1>4. 0 + 1 = 1
  OBVIOUS
<1> QED
  BY <1>1, <1>3, <1>4

-----------------------------------------------------------------------------
(* The four ways to go on in a call. *)
ValueAhead(t, td, ex, d, k, owed) ==
  /\ ValueNext(t, d, k, owed) /\ Head(td).is = "value" /\ Head(ex).is \in ValueField
CtorAhead(t, td, ex, d, k, owed) ==
  /\ k = 2 /\ owed = <<>> /\ Head(td) = Flag(t.calls[d + 1].ctor) /\ Head(ex) = Item("ctor", 0)
CountAhead(t, td, ex, d, k, owed) ==
  /\ k = 3 /\ owed = <<>> /\ Head(td) = Word(Len(t.calls[d + 1].args))
  /\ Head(ex) = Item("argsCount", 0)
ResultAhead(t, td, ex, d, k, owed) ==
  /\ k = Complete(t.calls[d + 1]) /\ owed = <<>> /\ Head(td) = Item("result", d + 1)
  /\ Head(ex) = Item("result", 0)

(* In a call both are at the same place. *)
LEMMA WithinAhead ==
  ASSUME NEW t \in TestCases, NEW td, NEW ex, NEW ld, NEW vi, NEW known, NEW d, NEW k, NEW owed,
         Within(t, td, ex, ld, vi, known, d, k, owed)
  PROVE  /\ td # <<>> /\ ex # <<>>
         /\ \/ ValueAhead(t, td, ex, d, k, owed) \/ CtorAhead(t, td, ex, d, k, owed)
            \/ CountAhead(t, td, ex, d, k, owed) \/ ResultAhead(t, td, ex, d, k, owed)
<1>1. CASE ValueNext(t, d, k, owed)
  BY <1>1, ValueIsPlaced DEF ValueAhead
<1>2. CASE ~ValueNext(t, d, k, owed)
  <2>1. owed = <<>> /\ k # 1 /\ ~(k >= 4 /\ k < Complete(t.calls[d + 1]))
    BY <1>2 DEF ValueNext
  <2>2. /\ d \in Nat /\ d < Len(t.calls) /\ k \in Nat /\ k >= 1 /\ k <= Complete(t.calls[d + 1])
    BY WithinTyped
  <2>3. Complete(t.calls[d + 1]) \in Nat /\ Complete(t.calls[d + 1]) >= 4
    <3>1. Complete(t.calls[d + 1]) = 4 + Len(t.calls[d + 1].args) /\ Len(t.calls[d + 1].args) \in Nat
      BY <2>2, ListLengths
    <3> QED
      BY <3>1
  <2>4. k = 2 \/ k = 3 \/ k = Complete(t.calls[d + 1])
    BY <2>1, <2>2, <2>3
  <2>5. /\ td # <<>> /\ ex # <<>>
        /\ k = 2 => Head(td) = Flag(t.calls[d + 1].ctor) /\ Head(ex) = Item("ctor", 0)
        /\ k = 3 => Head(td) = Word(Len(t.calls[d + 1].args)) /\ Head(ex) = Item("argsCount", 0)
        /\ k = Complete(t.calls[d + 1]) => Head(td) = Item("result", d + 1) /\ Head(ex) = Item("result", 0)
    <3>1. Within(t, td, ex, ld, vi, known, d, k, <<>>)
      BY <2>1
    <3> QED
      BY <3>1, NextOfCall
  <2> QED
    BY <2>1, <2>4, <2>5 DEF CtorAhead, CountAhead, ResultAhead
<1> QED
  BY <1>1, <1>2

-----------------------------------------------------------------------------
(* What can be next for both. *)
LEMMA HeaderHeads ==
  ASSUME tc \in TestCases, NEW td, NEW vi, NEW ni, AtRoot(td, vi, ni) \/ AtCount(td, vi, ni)
  PROVE  /\ td # <<>> /\ Head(td).is = "word" /\ expect # <<>> /\ Head(expect).is \in {"root", "count"}
         /\ AtRoot(td, vi, ni) => Head(td) = Word(tc.root) /\ Head(expect).is = "root"
                                  /\ Tail(expect) = <<Item("count", 0)>>
                                  /\ Tail(td) = <<Word(Len(tc.calls))>> \o CallsAfter(tc, 0)
         /\ AtCount(td, vi, ni) => Head(td) = Word(Len(tc.calls)) /\ Head(expect).is = "count"
                                   /\ Tail(expect) = <<>> /\ Tail(td) = CallsAfter(tc, 0)
<1> DEFINE z == CallsAfter(tc, 0)
<1> DEFINE a == Word(tc.root)
<1> DEFINE b == Word(Len(tc.calls))
<1>1. z \in Seq(Token) /\ a \in Token /\ b \in Token
  BY TestCaseTyped, CallsAfterItems, Tokens DEF Word, Kind
<1>2. a.is = "word" /\ b.is = "word"
  BY DEF Word, Item
<1> HIDE DEF z, a, b
<1>3. /\ <<a, b>> \o z # <<>> /\ Head(<<a, b>> \o z) = a /\ Tail(<<a, b>> \o z) = <<b>> \o z
  BY <1>1
<1>4. <<b>> \o z # <<>> /\ Head(<<b>> \o z) = b /\ Tail(<<b>> \o z) = z
  BY <1>1
<1>5. ASSUME AtRoot(td, vi, ni)
      PROVE  /\ td # <<>> /\ Head(td).is = "word" /\ Head(td) = a /\ Tail(td) = <<b>> \o z
             /\ expect # <<>> /\ Head(expect).is = "root" /\ Tail(expect) = <<Item("count", 0)>>
  <2>1. td = <<a, b>> \o z /\ expect = <<Item("root", 0), Item("count", 0)>>
    BY <1>5 DEF AtRoot, a, b, z
  <2> QED
    BY <1>2, <1>3, <2>1 DEF Item
<1>6. ASSUME AtCount(td, vi, ni)
      PROVE  /\ td # <<>> /\ Head(td).is = "word" /\ Head(td) = b /\ Tail(td) = z
             /\ expect # <<>> /\ Head(expect).is = "count" /\ Tail(expect) = <<>>
  <2>1. td = <<b>> \o z /\ expect = <<Item("count", 0)>>
    BY <1>6 DEF AtCount, b, z
  <2> QED
    BY <1>2, <1>4, <2>1 DEF Item
<1> QED
  BY <1>5, <1>6 DEF a, b, z

LEMMA BeforeCallHeads ==
  ASSUME tc \in TestCases, NEW td, NEW vi, NEW d \in Nat,
         Between(tc, td, expect, loaded, vi, d, CallsAfter(tc, d), 0)
  PROVE  \/ td = <<>> /\ expect = <<>> /\ d = Len(tc.calls)
         \/ /\ d < Len(tc.calls) /\ td # <<>> /\ Head(td) = Item("call", d + 1)
            /\ expect # <<>> /\ Head(expect) = Item("callee", 0)
<1>1. Len(tc.calls) \in Nat /\ d <= Len(tc.calls)
  BY TestCaseTyped DEF Between
<1>2. CASE d = Len(tc.calls)
  BY <1>2, AllDone
<1>3. CASE d < Len(tc.calls)
  <2>1. td # <<>> /\ Head(td) = Item("call", d + 1)
    BY <1>3, CallStarted
  <2>2. expect # <<>> /\ Head(expect) = Item("callee", 0)
    BY <1>3, NextCallee
  <2> QED
    BY <1>3, <2>1, <2>2
<1> QED
  BY <1>1, <1>2, <1>3

LEMMA CallOpenedHeads ==
  ASSUME tc \in TestCases, NEW td, NEW vi, NEW d \in Nat, d < Len(tc.calls),
         Between(tc, td, expect, loaded, vi, d, Script(tc, d), 0)
  PROVE  /\ td # <<>> /\ Head(td) = Word(tc.calls[d + 1].callee)
         /\ expect # <<>> /\ Head(expect) = Item("callee", 0)
  BY CalleeIsFirst, NextCallee

LEMMA CallClosedHeads ==
  ASSUME tc \in TestCases, NEW td, NEW vi, NEW d \in Nat, d < Len(tc.calls),
         Between(tc, td, expect, loaded, vi, d + 1, Script(tc, d), Complete(tc.calls[d + 1]))
  PROVE  /\ td # <<>> /\ Head(td) = Item("result", d + 1)
         /\ expect = <<>> \/ Head(expect) = Item("callee", 0)
<1>1. td # <<>> /\ Head(td) = Item("result", d + 1)
  BY ResultNumbered
<1>2. Len(tc.calls) \in Nat
  BY TestCaseTyped
<1>3. CASE d + 1 < Len(tc.calls)
  <2>1. d + 1 \in Nat
    OBVIOUS
  <2>2. expect # <<>> /\ Head(expect) = Item("callee", 0)
    BY <1>3, <2>1, NextCallee
  <2> QED
    BY <1>1, <2>2
<1>4. CASE d + 1 = Len(tc.calls)
  <2>1. Len(CalleesAfter(tc, d + 1)) = 0
    BY <1>2, <1>4, CallsAfterItems
  <2>2. expect \in Seq(Token) /\ Len(expect) = 0
    BY <2>1 DEF Between, Elements, Continues
  <2> QED
    BY <1>1, <2>2
<1> QED
  BY <1>2, <1>3, <1>4

-----------------------------------------------------------------------------
(* Where the reader is when the writer writes a token. *)
Ahead(td, vi, ni) ==
  \/ AtRoot(td, vi, ni) /\ Head(expect).is = "root" /\ Head(td).is = "word"
  \/ AtCount(td, vi, ni) /\ Head(expect).is = "count" /\ Head(td).is = "word"
  \/ CallOpened(td, vi, ni) /\ Head(expect).is = "callee" /\ Head(td).is = "word"
  \/ \E d, k, owed :
       /\ InCallAt(td, vi, ni, d, k, owed)
       /\ \/ /\ ValueAhead(tc, td, expect, d, k, owed)
             /\ Head(expect).is \in ValueField /\ Head(td).is = "value"
          \/ /\ CtorAhead(tc, td, expect, d, k, owed)
             /\ Head(expect).is = "ctor" /\ Head(td).is = "flag"
          \/ /\ CountAhead(tc, td, expect, d, k, owed)
             /\ Head(expect).is = "argsCount" /\ Head(td).is = "word"

(* Where the reader is when the writer is about to write a token. *)
LEMMA SettledAhead ==
  ASSUME tc \in TestCases, NEW td, NEW vi, NEW ni, Settled(td, vi, ni),
         td # <<>>, Head(td).is \in {"word", "flag", "value"}
  PROVE  expect # <<>> /\ Ahead(td, vi, ni)
<1>1. CASE AtRoot(td, vi, ni)
  BY <1>1, HeaderHeads DEF Ahead
<1>2. CASE AtCount(td, vi, ni)
  BY <1>2, HeaderHeads DEF Ahead
<1>3. ASSUME BeforeCall(td, vi, ni) PROVE FALSE
  <2>1. PICK d \in Nat : Between(tc, td, expect, loaded, vi, d, CallsAfter(tc, d), 0)
    BY <1>3 DEF BeforeCall
  <2>2. Head(td) = Item("call", d + 1)
    BY <2>1, BeforeCallHeads
  <2> QED
    BY <2>2 DEF Item
<1>4. CASE CallOpened(td, vi, ni)
  <2>1. PICK d \in Nat : /\ d < Len(tc.calls)
                         /\ Between(tc, td, expect, loaded, vi, d, Script(tc, d), 0)
    BY <1>4 DEF CallOpened
  <2>2. /\ Head(td) = Word(tc.calls[d + 1].callee) /\ expect # <<>> /\ Head(expect) = Item("callee", 0)
    BY <2>1, CallOpenedHeads
  <2> QED
    BY <1>4, <2>2 DEF Ahead, Item, Word
<1>5. CASE InCall(td, vi, ni)
  <2>1. PICK d, k, owed : InCallAt(td, vi, ni, d, k, owed)
    BY <1>5 DEF InCall
  <2>2. /\ expect # <<>>
        /\ \/ ValueAhead(tc, td, expect, d, k, owed) \/ CtorAhead(tc, td, expect, d, k, owed)
           \/ CountAhead(tc, td, expect, d, k, owed) \/ ResultAhead(tc, td, expect, d, k, owed)
    BY <2>1, WithinAhead DEF InCallAt
  <2>3. ~ResultAhead(tc, td, expect, d, k, owed)
    BY DEF ResultAhead, Item
  <2>4. CtorAhead(tc, td, expect, d, k, owed) => Head(expect).is = "ctor" /\ Head(td).is = "flag"
    BY DEF CtorAhead, Item, Flag
  <2>5. CountAhead(tc, td, expect, d, k, owed) => Head(expect).is = "argsCount" /\ Head(td).is = "word"
    BY DEF CountAhead, Item, Word
  <2>6. ValueAhead(tc, td, expect, d, k, owed) => Head(expect).is \in ValueField /\ Head(td).is = "value"
    BY DEF ValueAhead
  <2> QED
    BY <2>1, <2>2, <2>3, <2>4, <2>5, <2>6 DEF Ahead
<1>6. ASSUME CallClosed(td, vi, ni) PROVE FALSE
  <2>1. PICK d \in Nat : /\ d < Len(tc.calls)
                         /\ Between(tc, td, expect, loaded, vi, d + 1, Script(tc, d), Complete(tc.calls[d + 1]))
    BY <1>6 DEF CallClosed
  <2>2. Head(td) = Item("result", d + 1)
    BY <2>1, CallClosedHeads
  <2> QED
    BY <2>2 DEF Item
<1> QED
  BY <1>1, <1>2, <1>3, <1>4, <1>5, <1>6 DEF Settled

(* Where it is when the token has been written. *)
LEMMA FlightAhead ==
  ASSUME ReaderFollows, unread # Nothing
  PROVE  \E td, vi, ni : Settled(td, vi, ni) /\ Sent(td, vi, ni) /\ expect # <<>> /\ Ahead(td, vi, ni)
<1>1. PICK td, vi, ni : Settled(td, vi, ni) /\ Sent(td, vi, ni)
  BY DEF ReaderFollows, InFlight
<1>2. td # <<>> /\ Head(td).is \in {"word", "flag", "value"}
  BY <1>1 DEF Sent, SentNumber, SentScalar, SentReference, SentArray
<1>3. expect # <<>> /\ Ahead(td, vi, ni)
  BY <1>1, <1>2, SettledAhead DEF ReaderFollows
<1> QED
  BY <1>1, <1>3

(* The reader is at the end of a call only when the writer is. *)
LEMMA ResultAtEnd ==
  ASSUME ReaderFollows, Expects("result")
  PROVE  /\ unread = Nothing
         /\ \E d, k : /\ InCallAt(todo, valueIndexes, nextIndex, d, k, <<>>)
                      /\ ResultAhead(tc, todo, expect, d, k, <<>>)
<1>1. expect # <<>> /\ Head(expect).is = "result"
  BY DEF Expects
<1>2. ASSUME unread # Nothing PROVE FALSE
  BY <1>1, <1>2, FlightAhead DEF Ahead, ValueField
<1>3. /\ Settled(todo, valueIndexes, nextIndex) /\ tc \in TestCases
  BY <1>2 DEF ReaderFollows
<1>4. ~AtRoot(todo, valueIndexes, nextIndex) /\ ~AtCount(todo, valueIndexes, nextIndex)
  BY <1>1, <1>3, HeaderHeads
<1>5. ASSUME BeforeCall(todo, valueIndexes, nextIndex) PROVE FALSE
  <2>1. PICK d \in Nat : Between(tc, todo, expect, loaded, valueIndexes, d, CallsAfter(tc, d), 0)
    BY <1>5 DEF BeforeCall
  <2>2. expect = <<>> \/ Head(expect) = Item("callee", 0)
    BY <1>3, <2>1, BeforeCallHeads
  <2> QED
    BY <1>1, <2>2 DEF Item
<1>6. ASSUME CallOpened(todo, valueIndexes, nextIndex) PROVE FALSE
  <2>1. PICK d \in Nat : /\ d < Len(tc.calls)
                         /\ Between(tc, todo, expect, loaded, valueIndexes, d, Script(tc, d), 0)
    BY <1>6 DEF CallOpened
  <2>2. Head(expect) = Item("callee", 0)
    BY <1>3, <2>1, CallOpenedHeads
  <2> QED
    BY <1>1, <2>2 DEF Item
<1>7. ASSUME CallClosed(todo, valueIndexes, nextIndex) PROVE FALSE
  <2>1. PICK d \in Nat : /\ d < Len(tc.calls)
                         /\ Between(tc, todo, expect, loaded, valueIndexes, d + 1, Script(tc, d),
                                    Complete(tc.calls[d + 1]))
    BY <1>7 DEF CallClosed
  <2>2. expect = <<>> \/ Head(expect) = Item("callee", 0)
    BY <1>3, <2>1, CallClosedHeads
  <2> QED
    BY <1>1, <2>2 DEF Item
<1>8. PICK d, k, owed : InCallAt(todo, valueIndexes, nextIndex, d, k, owed)
  BY <1>3, <1>4, <1>5, <1>6, <1>7 DEF Settled, InCall
<1>9. \/ ValueAhead(tc, todo, expect, d, k, owed) \/ CtorAhead(tc, todo, expect, d, k, owed)
      \/ CountAhead(tc, todo, expect, d, k, owed) \/ ResultAhead(tc, todo, expect, d, k, owed)
  BY <1>3, <1>8, WithinAhead DEF InCallAt
<1>10. ResultAhead(tc, todo, expect, d, k, owed)
  BY <1>1, <1>9 DEF ValueAhead, ValueField, CtorAhead, CountAhead, Item
<1>11. owed = <<>>
  BY <1>10 DEF ResultAhead
<1> QED
  BY <1>2, <1>8, <1>10, <1>11

-----------------------------------------------------------------------------
(* Both start at the same place. *)
LEMMA StartedTogether == StartWriting /\ StartReading => ReaderFollows
<1> SUFFICES ASSUME StartWriting, StartReading PROVE ReaderFollows
  OBVIOUS
<1>1. tc \in TestCases /\ unread = Nothing
  BY DEF StartWriting
<1>2. [i \in DOMAIN tc.calls |-> Item("call", i)] = CallsAfter(tc, 0)
  <2>1. DOMAIN tc.calls = 1 .. Len(tc.calls) /\ Len(tc.calls) \in Nat /\ Len(tc.calls) - 0 = Len(tc.calls)
    BY <1>1, TestCaseTyped
  <2>2. \A i \in 1 .. Len(tc.calls) : 0 + i = i
    BY <2>1
  <2> QED
    BY <2>1, <2>2 DEF CallsAfter
<1>3. todo = <<Word(tc.root), Word(Len(tc.calls))>> \o CallsAfter(tc, 0)
  BY <1>2 DEF StartWriting
<1>4. NothingRead(valueIndexes, nextIndex)
  BY DEF StartWriting, StartReading, NothingRead
<1>5. AtRoot(todo, valueIndexes, nextIndex)
  BY <1>3, <1>4 DEF AtRoot, StartReading
<1> QED
  BY <1>1, <1>5 DEF ReaderFollows, Settled

(* No token is Nothing. *)
LEMMA TokensRead ==
  ASSUME NEW n
  PROVE  /\ n \in Nat => Item("word", n) # Nothing /\ Item("reference", n) # Nothing
                         /\ Item("array", n) # Nothing
         /\ n \in BOOLEAN => Item("flag", n) # Nothing
         /\ n \in Scalars => Item("scalar", n) # Nothing
  BY TokensAssumption DEF Item

LEMMA SettledStays ==
  ASSUME NEW td, NEW vi, NEW ni, Settled(td, vi, ni), UNCHANGED <<tc, retIndexes, reader>>
  PROVE  Settled(td, vi, ni)'
  BY DEF Settled, AtRoot, AtCount, NothingRead, BeforeCall, CallOpened, InCall, InCallAt, CallClosed,
         NumbersAgree, reader

(* The writer writes a number, a value, starts a call, numbers a result. *)
LEMMA NumberWritten == InOrder /\ ReaderFollows /\ Waiting /\ WriteNumber /\ UNCHANGED reader => ReaderFollows'
<1> SUFFICES ASSUME InOrder, ReaderFollows, Waiting, WriteNumber, UNCHANGED reader PROVE ReaderFollows'
  OBVIOUS
<1>1. PICK td, vi, ni : td = todo /\ vi = valueIndexes /\ ni = nextIndex
  OBVIOUS
<1>2. Settled(td, vi, ni)
  BY <1>1 DEF ReaderFollows, Waiting
<1>3. Settled(td, vi, ni)'
  BY <1>2, SettledStays DEF WriteNumber
<1>4. Sent(td, vi, ni)'
  BY <1>1 DEF WriteNumber, Write, Upcoming, Sent, SentNumber
<1>5. unread' # Nothing
  <2>1. Head(todo) \in Items(tc) /\ Head(todo).is \in {"word", "flag"}
    BY DEF InOrder, WriteNumber, Upcoming
  <2>2. \/ Head(todo).n \in Nat /\ Head(todo) = Item("word", Head(todo).n)
        \/ Head(todo).n \in BOOLEAN /\ Head(todo) = Item("flag", Head(todo).n)
    BY <2>1 DEF Items, Item
  <2> QED
    BY <2>2, TokensRead DEF WriteNumber, Write
<1> QED
  BY <1>3, <1>4, <1>5 DEF ReaderFollows, InFlight, WriteNumber

LEMMA ValueWritten == InOrder /\ ReaderFollows /\ Waiting /\ WriteValue /\ UNCHANGED reader => ReaderFollows'
<1> SUFFICES ASSUME InOrder, ReaderFollows, Waiting, WriteValue, UNCHANGED reader PROVE ReaderFollows'
  OBVIOUS
<1>1. PICK td, vi, ni : td = todo /\ vi = valueIndexes /\ ni = nextIndex
  OBVIOUS
<1> DEFINE v == Head(td).n
<1>2. Settled(td, vi, ni) /\ tc \in TestCases /\ unread = Nothing
  BY <1>1 DEF ReaderFollows, Waiting
<1>3. td # <<>> /\ Head(td).is = "value" /\ tc' = tc /\ v = Head(todo).n
  BY <1>1 DEF WriteValue, Upcoming
<1>4. v \in Writable(tc)
  BY <1>1, <1>3 DEF InOrder, Items
<1>5. \E d \in Nat : NumbersAgree(d, vi, ni)
  <2>1. Ahead(td, vi, ni)
    BY <1>2, <1>3, SettledAhead
  <2>2. PICK d, k, owed : InCallAt(td, vi, ni, d, k, owed)
    BY <1>3, <2>1 DEF Ahead
  <2> QED
    BY <2>2 DEF InCallAt, Within
<1>6. /\ \A a \in DOMAIN vi : vi[a] \in Nat
      /\ \A i \in DOMAIN retIndexes : retIndexes[i] \in Nat
  BY <1>5 DEF NumbersAgree, Numbering
<1> HIDE DEF v
<1>7. ASSUME retIndexes' = retIndexes PROVE Settled(td, vi, ni)'
  BY <1>2, <1>3, <1>7, SettledStays
<1>8. CASE WriteScalar(v)
  <2>1. Sent(td, vi, ni)' /\ retIndexes' = retIndexes
    BY <1>1, <1>3, <1>8 DEF WriteScalar, Write, Sent, SentScalar, v
  <2>2. unread' # Nothing
    BY <1>8, TokensRead DEF WriteScalar, Write
  <2> QED
    BY <1>2, <1>3, <1>7, <2>1, <2>2 DEF ReaderFollows, InFlight
<1>9. CASE WritePlaceholder(v)
  <2>1. Sent(td, vi, ni)' /\ retIndexes' = retIndexes
    BY <1>1, <1>3, <1>9 DEF WritePlaceholder, Write, Sent, SentReference, v
  <2>2. unread' # Nothing
    BY <1>6, <1>9, TokensRead DEF WritePlaceholder, Write
  <2> QED
    BY <1>2, <1>3, <1>7, <2>1, <2>2 DEF ReaderFollows, InFlight
<1>10. CASE WriteKnownArray(v)
  <2>1. Sent(td, vi, ni)' /\ retIndexes' = retIndexes
    BY <1>1, <1>3, <1>10 DEF WriteKnownArray, Write, Sent, SentReference, v
  <2>2. unread' # Nothing
    BY <1>1, <1>6, <1>10, TokensRead DEF WriteKnownArray, Write
  <2> QED
    BY <1>2, <1>3, <1>7, <2>1, <2>2 DEF ReaderFollows, InFlight
<1>11. CASE WriteNewArray(v)
  <2>1. v \in Arrays /\ v \notin DOMAIN vi /\ v \notin Scalars
    BY <1>1, <1>11, TestCasesAssumption DEF WriteNewArray
  <2>2. v \in DOMAIN tc.heap
    BY <1>4, <2>1 DEF Writable
  <2>3. Len(tc.heap[v]) \in Nat
    BY SMTT(20), <1>2, <2>2, TestCaseTyped
  <2>4. Sent(td, vi, ni)' /\ retIndexes' = retIndexes
    BY Zenon, <1>1, <1>3, <1>11, <2>1, <2>2 DEF WriteNewArray, Write, Sent, SentArray, WritesOf, v
  <2>5. unread' # Nothing
    BY <1>11, <2>3, TokensRead DEF WriteNewArray, Write
  <2> QED
    BY <1>2, <1>3, <1>7, <2>4, <2>5 DEF ReaderFollows, InFlight
<1> QED
  BY <1>3, <1>8, <1>9, <1>10, <1>11 DEF WriteValue

LEMMA CallWritten == ReaderFollows /\ Waiting /\ WriteCall /\ UNCHANGED reader => ReaderFollows'
<1> SUFFICES ASSUME ReaderFollows, Waiting, WriteCall, UNCHANGED reader PROVE ReaderFollows'
  OBVIOUS
<1>1. /\ Settled(todo, valueIndexes, nextIndex) /\ tc \in TestCases /\ unread = Nothing
      /\ todo # <<>> /\ Head(todo).is = "call"
  BY DEF ReaderFollows, Waiting, WriteCall, Upcoming
<1>2. BeforeCall(todo, valueIndexes, nextIndex)
  <2>1. ~AtRoot(todo, valueIndexes, nextIndex) /\ ~AtCount(todo, valueIndexes, nextIndex)
    BY <1>1, HeaderHeads
  <2>2. ASSUME CallOpened(todo, valueIndexes, nextIndex) PROVE FALSE
    BY <1>1, <2>2, CallOpenedHeads DEF CallOpened, Word, Item
  <2>3. ASSUME CallClosed(todo, valueIndexes, nextIndex) PROVE FALSE
    <3>1. PICK d \in Nat :
            /\ d < Len(tc.calls)
            /\ Between(tc, todo, expect, loaded, valueIndexes, d + 1, Script(tc, d),
                       Complete(tc.calls[d + 1]))
      BY <2>3 DEF CallClosed
    <3>2. Head(todo) = Item("result", d + 1)
      BY <1>1, <3>1, CallClosedHeads
    <3> QED
      BY <1>1, <3>2 DEF Item
  <2>4. ASSUME InCall(todo, valueIndexes, nextIndex) PROVE FALSE
    <3>1. PICK d, k, owed : InCallAt(todo, valueIndexes, nextIndex, d, k, owed)
      BY <2>4 DEF InCall
    <3>2. \/ ValueAhead(tc, todo, expect, d, k, owed) \/ CtorAhead(tc, todo, expect, d, k, owed)
          \/ CountAhead(tc, todo, expect, d, k, owed) \/ ResultAhead(tc, todo, expect, d, k, owed)
      BY <1>1, <3>1, WithinAhead DEF InCallAt
    <3> QED
      BY <1>1, <3>2 DEF ValueAhead, CtorAhead, CountAhead, ResultAhead, Item, Word, Flag
  <2> QED
    BY <1>1, <2>1, <2>2, <2>3, <2>4 DEF Settled
<1>3. PICK d \in Nat :
        /\ loaded.root = tc.root /\ NumbersAgree(d, valueIndexes, nextIndex)
        /\ Between(tc, todo, expect, loaded, valueIndexes, d, CallsAfter(tc, d), 0)
  BY <1>2 DEF BeforeCall
<1>4. d < Len(tc.calls) /\ Head(todo) = Item("call", d + 1)
  BY <1>1, <1>3, BeforeCallHeads
<1>5. Head(todo).n = d + 1
  BY <1>4 DEF Item
<1> DEFINE td == SerializeCall(tc.calls[d + 1], d + 1) \o Tail(todo)
<1>6. Between(tc, td, expect, loaded, valueIndexes, d, Script(tc, d), 0)
  BY Zenon, <1>1, <1>3, <1>4, CallStarted
<1>7. /\ todo' = td /\ UNCHANGED <<tc, valueIndexes, retIndexes, nextIndex, unread>>
      /\ UNCHANGED <<expect, loaded, pool, retValueIndex>>
  BY <1>5 DEF WriteCall, reader
<1> HIDE DEF td
<1>8. CallOpened(todo, valueIndexes, nextIndex)'
  BY <1>3, <1>4, <1>6, <1>7 DEF CallOpened, NumbersAgree
<1> QED
  BY <1>1, <1>7, <1>8 DEF ReaderFollows, Settled

LEMMA ResultWritten == ReaderFollows /\ Waiting /\ NumberResult /\ UNCHANGED reader => ReaderFollows'
<1> SUFFICES ASSUME ReaderFollows, Waiting, NumberResult, UNCHANGED reader PROVE ReaderFollows'
  OBVIOUS
<1>1. /\ Settled(todo, valueIndexes, nextIndex) /\ tc \in TestCases /\ unread = Nothing
      /\ todo # <<>> /\ Head(todo).is = "result"
  BY DEF ReaderFollows, Waiting, NumberResult, Upcoming
<1>2. CallClosed(todo, valueIndexes, nextIndex)
  <2>1. ~AtRoot(todo, valueIndexes, nextIndex) /\ ~AtCount(todo, valueIndexes, nextIndex)
    BY <1>1, HeaderHeads
  <2>2. ASSUME CallOpened(todo, valueIndexes, nextIndex) PROVE FALSE
    BY <1>1, <2>2, CallOpenedHeads DEF CallOpened, Word, Item
  <2>3. ASSUME BeforeCall(todo, valueIndexes, nextIndex) PROVE FALSE
    BY <1>1, <2>3, BeforeCallHeads DEF BeforeCall, Item
  <2>4. ASSUME InCall(todo, valueIndexes, nextIndex) PROVE FALSE
    <3>1. PICK d, k, owed : InCallAt(todo, valueIndexes, nextIndex, d, k, owed)
      BY <2>4 DEF InCall
    <3>2. /\ expect # <<>>
          /\ \/ ValueAhead(tc, todo, expect, d, k, owed) \/ CtorAhead(tc, todo, expect, d, k, owed)
             \/ CountAhead(tc, todo, expect, d, k, owed) \/ ResultAhead(tc, todo, expect, d, k, owed)
      BY <1>1, <3>1, WithinAhead DEF InCallAt
    <3>3. ResultAhead(tc, todo, expect, d, k, owed)
      BY <1>1, <3>2 DEF ValueAhead, CtorAhead, CountAhead, Item, Word, Flag
    <3> QED
      BY <3>2, <3>3 DEF ResultAhead, Item, Waiting, Expects
  <2> QED
    BY <1>1, <2>1, <2>2, <2>3, <2>4 DEF Settled
<1>3. PICK d \in Nat :
    /\ d < Len(tc.calls) /\ loaded.root = tc.root
    /\ Numbering(tc, d + 1, valueIndexes, Put(retIndexes, d + 1, nextIndex), nextIndex + 1,
                 DOMAIN loaded.heap, pool, retValueIndex)
    /\ Between(tc, todo, expect, loaded, valueIndexes, d + 1, Script(tc, d), Complete(tc.calls[d + 1]))
  BY <1>2 DEF CallClosed
<1>4. /\ Head(todo) = Item("result", d + 1)
      /\ Between(tc, Tail(todo), expect, loaded, valueIndexes, d + 1, CallsAfter(tc, d + 1), 0)
  BY <1>1, <1>3, ResultNumbered
<1>5. /\ Head(todo).n = d + 1 /\ d + 1 \in Nat
  BY <1>4 DEF Item
<1>6. /\ todo' = Tail(todo) /\ retIndexes' = Put(retIndexes, d + 1, nextIndex) /\ nextIndex' = nextIndex + 1
      /\ UNCHANGED <<tc, valueIndexes, unread>>
      /\ UNCHANGED <<expect, loaded, pool, retValueIndex>>
  BY <1>5 DEF NumberResult, reader
<1>7. BeforeCall(todo, valueIndexes, nextIndex)'
  BY <1>3, <1>4, <1>5, <1>6 DEF BeforeCall, NumbersAgree
<1> QED
  BY <1>1, <1>6, <1>7 DEF ReaderFollows, Settled

-----------------------------------------------------------------------------
(* Nothing is read but the token that was written. *)
LEMMA NextResultFollows == ReaderFollows /\ NextResult => ReaderFollows'
<1> SUFFICES ASSUME ReaderFollows, NextResult PROVE ReaderFollows'
  OBVIOUS
<1>1. tc \in TestCases /\ Expects("result")
  BY DEF ReaderFollows, NextResult
<1>2. /\ unread = Nothing
      /\ \E d, k : /\ InCallAt(todo, valueIndexes, nextIndex, d, k, <<>>)
                   /\ ResultAhead(tc, todo, expect, d, k, <<>>)
  BY <1>1, ResultAtEnd
<1>3. PICK d, k : /\ InCallAt(todo, valueIndexes, nextIndex, d, k, <<>>)
                  /\ k = Complete(tc.calls[d + 1])
  BY <1>2 DEF ResultAhead
<1>4. /\ Within(tc, todo, expect, loaded, valueIndexes, DOMAIN valueIndexes, d, k, <<>>)
      /\ Numbering(tc, d, valueIndexes, retIndexes, nextIndex, DOMAIN loaded.heap, pool, retValueIndex)
      /\ loaded.root = tc.root
  BY <1>3 DEF InCallAt, NumbersAgree
<1>5. d \in Nat /\ d < Len(tc.calls) /\ LastCall = d + 1 /\ Len(pool) = nextIndex
  BY <1>4 DEF Within, LastCall, Numbering
<1> DEFINE ex == Tail(expect)
<1> DEFINE pl == Append(pool, Null)
<1> DEFINE rvi == Put(retValueIndex, nextIndex, d + 1)
<1>6. Between(tc, todo, ex, loaded, valueIndexes, d + 1, Script(tc, d), Complete(tc.calls[d + 1]))
  BY <1>1, <1>3, <1>4, ResultRead
<1>7. Numbering(tc, d + 1, valueIndexes, Put(retIndexes, d + 1, nextIndex), nextIndex + 1,
                DOMAIN loaded.heap, pl, rvi)
  BY <1>4, <1>5, ResultTakesNumber
<1>8. /\ expect' = ex /\ pool' = pl /\ retValueIndex' = rvi
      /\ UNCHANGED <<tc, todo, valueIndexes, retIndexes, nextIndex, unread, loaded>>
  BY <1>5 DEF NextResult, writer
<1> HIDE DEF ex, pl, rvi
<1>9. CallClosed(todo, valueIndexes, nextIndex)'
  BY <1>4, <1>5, <1>6, <1>7, <1>8 DEF CallClosed
<1> QED
  BY <1>1, <1>2, <1>8, <1>9 DEF ReaderFollows, Settled

LEMMA RootRead == ReaderFollows /\ ReadRoot => ReaderFollows'
<1> SUFFICES ASSUME ReaderFollows, ReadRoot PROVE ReaderFollows'
  OBVIOUS
<1>1. tc \in TestCases /\ unread # Nothing /\ unread.is = "word" /\ Head(expect).is = "root"
  BY DEF ReaderFollows, ReadRoot, Read, Expects, NumberField
<1>2. PICK td, vi, ni : Sent(td, vi, ni) /\ Ahead(td, vi, ni)
  BY <1>1, FlightAhead
<1>3. AtRoot(td, vi, ni) /\ Head(td).is = "word"
  BY <1>1, <1>2 DEF Ahead, ValueField
<1>4. unread = Head(td) /\ todo = Tail(td) /\ valueIndexes = vi /\ nextIndex = ni
  BY <1>2, <1>3 DEF Sent, SentNumber, SentScalar, SentReference, SentArray
<1>5. /\ Head(td) = Word(tc.root) /\ Tail(expect) = <<Item("count", 0)>>
      /\ Tail(td) = <<Word(Len(tc.calls))>> \o CallsAfter(tc, 0)
  BY <1>1, <1>3, HeaderHeads
<1>6. unread.n = tc.root /\ tc.root \in Nat
  BY <1>1, <1>4, <1>5, TestCaseTyped DEF Word, Item
<1>7. /\ loaded' = [loaded EXCEPT !.root = tc.root] /\ expect' = <<Item("count", 0)>>
      /\ UNCHANGED <<tc, todo, valueIndexes, retIndexes, nextIndex, pool, retValueIndex>>
      /\ unread' = Nothing
  BY <1>5, <1>6 DEF ReadRoot, Read, writer
<1>8. loaded' = [root |-> tc.root, calls |-> <<>>, heap |-> EmptyMap]
  BY <1>3, <1>7 DEF AtRoot, NothingRead
<1>9. NothingRead(valueIndexes, nextIndex)'
  BY <1>3, <1>4, <1>6, <1>7, <1>8 DEF AtRoot, NothingRead
<1>10. AtCount(todo, valueIndexes, nextIndex)'
  BY <1>4, <1>5, <1>7, <1>8, <1>9 DEF AtCount
<1> QED
  BY <1>1, <1>7, <1>10 DEF ReaderFollows, Settled

(* No call has been read and no array is known. *)
LEMMA NoneRead ==
  ASSUME NEW t \in TestCases, NEW ld, NEW n, n = Len(t.calls),
         ld = [root |-> t.root, calls |-> <<>>, heap |-> EmptyMap]
  PROVE  /\ Between(t, CallsAfter(t, 0), Copies(n, Item("callee", 0)) \o <<>>, ld, EmptyMap, 0,
                    CallsAfter(t, 0), 0)
         /\ Numbering(t, 0, EmptyMap, EmptyMap, 0, DOMAIN ld.heap, <<>>, EmptyMap)
<1> DEFINE z == CallsAfter(t, 0)
<1> DEFINE y == CalleesAfter(t, 0)
<1>1. n \in Nat /\ n - 0 = n /\ t.root \in Nat
  BY TestCaseTyped
<1>2. z \in Seq(Token) /\ y \in Seq(Token)
  BY <1>1, CallsAfterItems
<1>3. Copies(n, Item("callee", 0)) \o <<>> = y
  <2>1. y = Copies(n, Item("callee", 0))
    BY <1>1 DEF CalleesAfter
  <2> HIDE DEF y
  <2> QED
    BY <1>2, <2>1
<1>4. DOMAIN EmptyMap = {}
  BY DEF EmptyMap
<1>5. EmptyMap \in Heaps
  <2>1. EmptyMap \in [{} -> Seq(Loadable)]
    BY DEF EmptyMap
  <2> QED
    BY <2>1 DEF Heaps
<1>6. <<>> \in Seq(LoadedCall) /\ <<>> \in Seq(Owed) /\ Len(<<>>) = 0 /\ DOMAIN <<>> = {}
  OBVIOUS
<1>7. ld \in Loaded /\ ld.heap = EmptyMap /\ ld.calls = <<>>
  BY <1>1, <1>5, <1>6 DEF Loaded
<1> HIDE DEF z, y
<1>8. Continues(z, 0, z, 0) /\ Continues(y, 0, y, 0)
  BY <1>2 DEF Continues
<1>9. /\ ArraysNumbered(t, EmptyMap, ld.heap, {}) /\ InFront(t, z, y, <<>>, EmptyMap)
      /\ OwedOnce(t, <<>>, EmptyMap, ld.heap, {}) /\ ElementsGot(t, EmptyMap, ld.heap, {})
  BY <1>4, <1>6, <1>7 DEF ArraysNumbered, InFront, OwedOnce, ElementsGot
<1>10. Elements(t, z, y, ld, EmptyMap, DOMAIN EmptyMap, <<>>)
  BY <1>2, <1>4, <1>6, <1>7, <1>9 DEF Elements
<1>11. CallsRead(t, EmptyMap, ld.calls, 0)
  BY DEF CallsRead
<1>12. Between(t, z, y, ld, EmptyMap, 0, z, 0)
  BY <1>1, <1>6, <1>7, <1>8, <1>10, <1>11 DEF Between, y
<1>13. Numbering(t, 0, EmptyMap, EmptyMap, 0, DOMAIN ld.heap, <<>>, EmptyMap)
  <2>1. <<>> \in Seq(Loadable \cup {Null}) /\ 1 .. 0 = {} /\ Len(<<>>) = 0
    OBVIOUS
  <2> QED
    BY <1>4, <1>7, <2>1 DEF Numbering
<1> QED
  BY <1>3, <1>12, <1>13 DEF z, y

LEMMA CallsCountRead == ReaderFollows /\ ReadCallsCount => ReaderFollows'
<1> SUFFICES ASSUME ReaderFollows, ReadCallsCount PROVE ReaderFollows'
  OBVIOUS
<1>1. tc \in TestCases /\ unread # Nothing /\ unread.is = "word" /\ Head(expect).is = "count"
  BY DEF ReaderFollows, ReadCallsCount, Read, Expects, NumberField
<1>2. PICK td, vi, ni : Sent(td, vi, ni) /\ Ahead(td, vi, ni)
  BY <1>1, FlightAhead
<1>3. AtCount(td, vi, ni) /\ Head(td).is = "word"
  BY <1>1, <1>2 DEF Ahead, ValueField
<1>4. unread = Head(td) /\ todo = Tail(td) /\ valueIndexes = vi /\ nextIndex = ni
  BY <1>2, <1>3 DEF Sent, SentNumber, SentScalar, SentReference, SentArray
<1>5. /\ Head(td) = Word(Len(tc.calls)) /\ Tail(expect) = <<>> /\ Tail(td) = CallsAfter(tc, 0)
  BY <1>1, <1>3, HeaderHeads
<1>6. unread.n = Len(tc.calls)
  BY <1>4, <1>5 DEF Word, Item
<1>7. /\ expect' = Copies(Len(tc.calls), Item("callee", 0)) \o <<>>
      /\ UNCHANGED <<tc, todo, valueIndexes, retIndexes, nextIndex, pool, retValueIndex, loaded>>
      /\ unread' = Nothing
  BY <1>5, <1>6 DEF ReadCallsCount, Read, writer
<1>8. /\ Between(tc, CallsAfter(tc, 0), expect', loaded, EmptyMap, 0, CallsAfter(tc, 0), 0)
      /\ Numbering(tc, 0, EmptyMap, EmptyMap, 0, DOMAIN loaded.heap, <<>>, EmptyMap)
      /\ loaded.root = tc.root
  <2>1. loaded = [root |-> tc.root, calls |-> <<>>, heap |-> EmptyMap] /\ loaded.root = tc.root
    BY <1>3 DEF AtCount, NothingRead
  <2> QED
    BY <1>1, <1>7, <2>1, NoneRead
<1>9. /\ valueIndexes = EmptyMap /\ retIndexes = EmptyMap /\ nextIndex = 0 /\ pool = <<>> /\ retValueIndex = EmptyMap
  BY <1>3, <1>4 DEF AtCount, NothingRead
<1>10. BeforeCall(todo, valueIndexes, nextIndex)'
  BY <1>4, <1>5, <1>7, <1>8, <1>9 DEF BeforeCall, NumbersAgree
<1> QED
  BY <1>1, <1>7, <1>10 DEF ReaderFollows, Settled

(* The reader reads the number of a function, the flag, the number of arguments. *)
LEMMA CalleeFollows == ReaderFollows /\ ReadCallee => ReaderFollows'
<1> SUFFICES ASSUME ReaderFollows, ReadCallee PROVE ReaderFollows'
  OBVIOUS
<1>1. tc \in TestCases /\ unread # Nothing /\ unread.is = "word" /\ Head(expect).is = "callee"
  BY DEF ReaderFollows, ReadCallee, Read, Expects, NumberField
<1>2. PICK td, vi, ni : Sent(td, vi, ni) /\ Ahead(td, vi, ni)
  BY <1>1, FlightAhead
<1>3. CallOpened(td, vi, ni) /\ Head(td).is = "word"
  BY <1>1, <1>2 DEF Ahead, ValueField
<1>4. unread = Head(td) /\ todo = Tail(td) /\ valueIndexes = vi /\ nextIndex = ni
  BY <1>2, <1>3 DEF Sent, SentNumber, SentScalar, SentReference, SentArray
<1>5. PICK d \in Nat :
        /\ d < Len(tc.calls) /\ loaded.root = tc.root /\ NumbersAgree(d, vi, ni)
        /\ Between(tc, td, expect, loaded, vi, d, Script(tc, d), 0)
  BY <1>3 DEF CallOpened
<1> DEFINE c == NewCall(tc.calls[d + 1].callee)
<1> DEFINE new == [loaded EXCEPT !.calls = Append(@, c)]
<1> DEFINE e == <<Item("this", 0), Item("ctor", 0), Item("argsCount", 0)>> \o Tail(expect)
<1>6. /\ Head(td) = Word(tc.calls[d + 1].callee)
      /\ Within(tc, Tail(td), e, new, vi, DOMAIN vi, d, 1, <<>>)
      /\ new.heap = loaded.heap /\ new.root = loaded.root
  <2>1. PICK c2 : c2 = c
    OBVIOUS
  <2>2. PICK w : w = [loaded EXCEPT !.calls = Append(@, c2)]
    OBVIOUS
  <2>3. PICK u : u = e
    OBVIOUS
  <2>4. /\ Within(tc, Tail(td), u, w, vi, DOMAIN vi, d, 1, <<>>) /\ Keeps(w, loaded)
        /\ Head(td) = Word(tc.calls[d + 1].callee)
    BY Zenon, <1>1, <1>5, <2>1, <2>2, <2>3, CalleeRead
  <2> QED
    BY <2>1, <2>2, <2>3, <2>4 DEF Keeps
<1>7. unread.n = tc.calls[d + 1].callee
  BY <1>4, <1>6 DEF Word, Item
<1>8. /\ loaded' = new /\ expect' = e
      /\ UNCHANGED <<tc, todo, valueIndexes, retIndexes, nextIndex, pool, retValueIndex>>
      /\ unread' = Nothing
  BY <1>7 DEF ReadCallee, Read, writer, NewCall
<1> HIDE DEF new, e
<1>9. InCallAt(todo, valueIndexes, nextIndex, d, 1, <<>>)'
  BY <1>4, <1>5, <1>6, <1>8 DEF InCallAt, NumbersAgree
<1> QED
  BY <1>1, <1>8, <1>9 DEF ReaderFollows, Settled, InCall

LEMMA CtorFollows == ReaderFollows /\ ReadCtor => ReaderFollows'
<1> SUFFICES ASSUME ReaderFollows, ReadCtor PROVE ReaderFollows'
  OBVIOUS
<1>1. tc \in TestCases /\ unread # Nothing /\ unread.is = "flag" /\ Head(expect).is = "ctor"
  BY DEF ReaderFollows, ReadCtor, Read, Expects, NumberField
<1>2. PICK td, vi, ni : Sent(td, vi, ni) /\ Ahead(td, vi, ni)
  BY <1>1, FlightAhead
<1>3. PICK d, k, owed : /\ InCallAt(td, vi, ni, d, k, owed) /\ CtorAhead(tc, td, expect, d, k, owed)
                        /\ Head(td).is = "flag"
  BY <1>1, <1>2 DEF Ahead, ValueField
<1>4. unread = Head(td) /\ todo = Tail(td) /\ valueIndexes = vi /\ nextIndex = ni
  BY <1>2, <1>3 DEF Sent, SentNumber, SentScalar, SentReference, SentArray
<1>5. /\ Within(tc, td, expect, loaded, vi, DOMAIN vi, d, 2, <<>>)
      /\ Head(td) = Flag(tc.calls[d + 1].ctor)
  BY <1>3 DEF InCallAt, CtorAhead
<1> DEFINE b == tc.calls[d + 1].ctor
<1> DEFINE new == [loaded EXCEPT !.calls[Len(loaded.calls)].ctor = b]
<1>6. /\ Within(tc, Tail(td), Tail(expect), new, vi, DOMAIN vi, d, 3, <<>>)
      /\ new.heap = loaded.heap /\ new.root = loaded.root
  BY <1>1, <1>5, CtorRead
<1>7. unread.n = b
  BY <1>4, <1>5 DEF Flag, Item
<1>8. /\ loaded' = new /\ expect' = Tail(expect)
      /\ UNCHANGED <<tc, todo, valueIndexes, retIndexes, nextIndex, pool, retValueIndex>>
      /\ unread' = Nothing
  BY <1>7 DEF ReadCtor, Read, writer, LastCall
<1> HIDE DEF new
<1>9. InCallAt(todo, valueIndexes, nextIndex, d, 3, <<>>)'
  BY <1>3, <1>4, <1>6, <1>8 DEF InCallAt, NumbersAgree
<1> QED
  BY <1>1, <1>8, <1>9 DEF ReaderFollows, Settled, InCall

LEMMA ArgsCountFollows == ReaderFollows /\ ReadArgsCount => ReaderFollows'
<1> SUFFICES ASSUME ReaderFollows, ReadArgsCount PROVE ReaderFollows'
  OBVIOUS
<1>1. tc \in TestCases /\ unread # Nothing /\ unread.is = "word" /\ Head(expect).is = "argsCount"
  BY DEF ReaderFollows, ReadArgsCount, Read, Expects, NumberField
<1>2. PICK td, vi, ni : Sent(td, vi, ni) /\ Ahead(td, vi, ni)
  BY <1>1, FlightAhead
<1>3. PICK d, k, owed : /\ InCallAt(td, vi, ni, d, k, owed) /\ CountAhead(tc, td, expect, d, k, owed)
                        /\ Head(td).is = "word"
  BY <1>1, <1>2 DEF Ahead, ValueField
<1>4. unread = Head(td) /\ todo = Tail(td) /\ valueIndexes = vi /\ nextIndex = ni
  BY <1>2, <1>3 DEF Sent, SentNumber, SentScalar, SentReference, SentArray
<1>5. /\ Within(tc, td, expect, loaded, vi, DOMAIN vi, d, 3, <<>>)
      /\ Head(td) = Word(Len(tc.calls[d + 1].args))
  BY <1>3 DEF InCallAt, CountAhead
<1> DEFINE e == Copies(Len(tc.calls[d + 1].args), Item("argument", 0))
                  \o <<Item("result", 0)>> \o Tail(expect)
<1>6. Within(tc, Tail(td), e, loaded, vi, DOMAIN vi, d, 4, <<>>)
  BY <1>1, <1>5, ArgsCountRead
<1>7. unread.n = Len(tc.calls[d + 1].args)
  BY <1>4, <1>5 DEF Word, Item
<1>8. /\ loaded' = loaded /\ expect' = e
      /\ UNCHANGED <<tc, todo, valueIndexes, retIndexes, nextIndex, pool, retValueIndex>>
      /\ unread' = Nothing
  BY <1>7 DEF ReadArgsCount, Read, writer
<1> HIDE DEF e
<1>9. InCallAt(todo, valueIndexes, nextIndex, d, 4, <<>>)'
  BY <1>3, <1>4, <1>6, <1>8 DEF InCallAt, NumbersAgree
<1> QED
  BY <1>1, <1>8, <1>9 DEF ReaderFollows, Settled, InCall

-----------------------------------------------------------------------------
(* A value is on its way. *)
LEMMA ValueSent ==
  ASSUME ReaderFollows, NEW field \in ValueField, NEW token, Read(field, token)
  PROVE  \E td, vi, ni, d, k, owed :
           /\ Sent(td, vi, ni) /\ InCallAt(td, vi, ni, d, k, owed)
           /\ ValueNext(tc, d, k, owed) /\ Head(td).is = "value" /\ td # <<>>
<1>1. unread # Nothing /\ Head(expect).is \in ValueField
  BY DEF Read, Expects
<1>2. PICK td, vi, ni : Sent(td, vi, ni) /\ Ahead(td, vi, ni)
  BY <1>1, FlightAhead
<1>3. \E d, k, owed : /\ InCallAt(td, vi, ni, d, k, owed)
                      /\ ValueNext(tc, d, k, owed) /\ Head(td).is = "value"
  BY <1>1, <1>2 DEF Ahead, ValueField, ValueAhead
<1> QED
  BY <1>2, <1>3 DEF Sent

(* A value that is not a new array is read. *)
LEMMA ValueFollows ==
  ASSUME ReaderFollows, NEW td, NEW vi, NEW ni, NEW d, NEW k, NEW owed,
         InCallAt(td, vi, ni, d, k, owed), ValueNext(tc, d, k, owed),
         todo = Tail(td), valueIndexes = vi, nextIndex = ni,
         NEW r \in Loadable, Got(vi, Head(td).n, r),
         loaded' = Placed(loaded, Head(expect), r), expect' = Tail(expect),
         UNCHANGED <<tc, writer, pool, retValueIndex>>, unread' = Nothing
  PROVE  ReaderFollows'
<1>1. tc \in TestCases
  BY DEF ReaderFollows
<1>2. /\ loaded.root = tc.root /\ NumbersAgree(d, vi, ni)
      /\ Within(tc, td, expect, loaded, vi, DOMAIN vi, d, k, owed)
  BY DEF InCallAt
<1>3. \E k2, o2 : Within(tc, Tail(td), Tail(expect), loaded', vi, DOMAIN vi, d, k2, o2)
  BY <1>1, <1>2, ValuePlaced
<1>4. SameArrays(loaded', loaded, vi, DOMAIN vi)
  BY <1>1, <1>2, PlacedKeepsArrays
<1>5. DOMAIN loaded'.heap = DOMAIN loaded.heap /\ loaded'.root = loaded.root
  BY <1>4 DEF SameArrays
<1>6. UNCHANGED <<tc, todo, valueIndexes, nextIndex, retIndexes>>
  BY DEF writer
<1>7. InCall(todo, valueIndexes, nextIndex)'
  <2>1. PICK k2, o2 : Within(tc, Tail(td), Tail(expect), loaded', vi, DOMAIN vi, d, k2, o2)
    BY <1>3
  <2>2. InCallAt(todo, valueIndexes, nextIndex, d, k2, o2)'
    BY <1>2, <1>5, <1>6, <2>1 DEF InCallAt, NumbersAgree
  <2> QED
    BY <2>2 DEF InCall
<1> QED
  BY <1>1, <1>6, <1>7 DEF ReaderFollows, Settled

(* It reads a scalar, a reference, a new array. *)
LEMMA ScalarFollows == ReaderFollows /\ ReadScalar => ReaderFollows'
<1> SUFFICES ASSUME ReaderFollows, ReadScalar PROVE ReaderFollows'
  OBVIOUS
<1>1. PICK field \in ValueField : Read(field, "scalar")
  BY DEF ReadScalar
<1>2. PICK td, vi, ni, d, k, owed :
           /\ Sent(td, vi, ni) /\ InCallAt(td, vi, ni, d, k, owed)
           /\ ValueNext(tc, d, k, owed) /\ Head(td).is = "value" /\ td # <<>>
  BY <1>1, ValueSent
<1>3. /\ unread.is = "scalar" /\ unread' = Nothing
      /\ UNCHANGED <<tc, writer, pool, retValueIndex>>
      /\ loaded' = Placed(loaded, Head(expect), unread.n) /\ expect' = Tail(expect)
  BY <1>1 DEF ReadScalar, Read
<1>4. SentScalar(td, vi, ni)
  BY <1>2, <1>3 DEF Sent, SentNumber, SentReference, SentArray, Item
<1>5. /\ unread.n = Head(td).n /\ Head(td).n \in Scalars
      /\ todo = Tail(td) /\ valueIndexes = vi /\ nextIndex = ni
  BY <1>4 DEF SentScalar, Item
<1>6. unread.n \in Loadable /\ Got(vi, Head(td).n, unread.n)
  BY <1>5 DEF Loadable, Got
<1> QED
  BY <1>2, <1>3, <1>5, <1>6, ValueFollows

LEMMA ReferenceFollows == ReaderFollows /\ ReadReference => ReaderFollows'
<1> SUFFICES ASSUME ReaderFollows, ReadReference PROVE ReaderFollows'
  OBVIOUS
<1>1. PICK field \in ValueField : Read(field, "reference")
  BY DEF ReadReference
<1>2. PICK td, vi, ni, d, k, owed :
           /\ Sent(td, vi, ni) /\ InCallAt(td, vi, ni, d, k, owed)
           /\ ValueNext(tc, d, k, owed) /\ Head(td).is = "value" /\ td # <<>>
  BY <1>1, ValueSent
<1> DEFINE n == unread.n
<1> DEFINE r == IF n \in DOMAIN retValueIndex THEN ResultOf(retValueIndex[n]) ELSE pool[n + 1]
<1> DEFINE v == Head(td).n
<1>3. /\ unread.is = "reference" /\ unread' = Nothing
      /\ UNCHANGED <<tc, writer, pool, retValueIndex>>
      /\ loaded' = Placed(loaded, Head(expect), r) /\ expect' = Tail(expect)
  BY <1>1 DEF ReadReference, Read
<1>4. SentReference(td, vi, ni)
  BY <1>2, <1>3 DEF Sent, SentNumber, SentScalar, SentArray, Item
<1>5. /\ todo = Tail(td) /\ valueIndexes = vi /\ nextIndex = ni
      /\ (v \in DOMAIN retIndexes /\ n = retIndexes[v]) \/ (v \in DOMAIN vi /\ n = vi[v])
  BY <1>4 DEF SentReference, Item
<1>6. Numbering(tc, d, vi, retIndexes, ni, DOMAIN loaded.heap, pool, retValueIndex) /\ d \in Nat
  BY <1>2 DEF InCallAt, NumbersAgree, Within
<1>7. tc \in TestCases /\ DOMAIN tc.heap \subseteq Arrays /\ DOMAIN vi \subseteq DOMAIN tc.heap
  BY <1>6, TestCaseTyped DEF ReaderFollows, Numbering
<1> HIDE DEF n, v
<1>8. r \in Loadable /\ Got(vi, v, r)
  <2>1. CASE v \in DOMAIN retIndexes /\ n = retIndexes[v]
    <3>1. v \in 1 .. d /\ v \in Nat /\ n \in DOMAIN retValueIndex /\ retValueIndex[n] = v
      BY <1>6, <2>1 DEF Numbering
    <3>2. v \notin Scalars /\ v \notin Arrays
      BY <3>1, TokensAssumption
    <3>3. r = ResultOf(v) /\ ResultOf(v) \in Loadable
      BY <3>1 DEF ResultOf, Item, Loadable
    <3> QED
      BY <3>2, <3>3 DEF Got
  <2>2. CASE v \in DOMAIN vi /\ n = vi[v]
    <3>1. v \in Arrays /\ v \notin Scalars
      BY <1>7, <2>2, TestCasesAssumption
    <3>2. n \notin DOMAIN retValueIndex /\ n \in Nat /\ pool[n + 1] = ArrayAt(n)
      BY <1>6, <2>2 DEF Numbering
    <3>3. r = ArrayAt(n) /\ ArrayAt(n) \in Loadable
      BY <3>2 DEF ArrayAt, Item, Loadable
    <3> QED
      BY <2>2, <3>1, <3>3 DEF Got
  <2> QED
    BY <1>5, <2>1, <2>2
<1> HIDE DEF r
<1> QED
  BY <1>2, <1>3, <1>5, <1>8, ValueFollows DEF v

LEMMA ArrayFollows == ReaderFollows /\ ReadArray => ReaderFollows'
<1> SUFFICES ASSUME ReaderFollows, ReadArray PROVE ReaderFollows'
  OBVIOUS
<1>1. PICK field \in ValueField : Read(field, "array")
  BY DEF ReadArray
<1>2. PICK td, vi, ni, d, k, owed :
           /\ Sent(td, vi, ni) /\ InCallAt(td, vi, ni, d, k, owed)
           /\ ValueNext(tc, d, k, owed) /\ Head(td).is = "value" /\ td # <<>>
  BY <1>1, ValueSent
<1> DEFINE a == Head(td).n
<1>3. SentArray(td, vi, ni)
  BY <1>1, <1>2 DEF Sent, SentNumber, SentScalar, SentReference, Item, Read
<1>4. /\ a \in DOMAIN tc.heap /\ a \notin DOMAIN vi /\ unread.n = Len(tc.heap[a])
      /\ todo = WritesOf(tc, a) \o Tail(td) /\ valueIndexes = Put(vi, a, ni) /\ nextIndex = ni + 1
  BY <1>3 DEF SentArray, Item
<1>5. /\ Numbering(tc, d, vi, retIndexes, ni, DOMAIN loaded.heap, pool, retValueIndex)
      /\ loaded.root = tc.root /\ Within(tc, td, expect, loaded, vi, DOMAIN vi, d, k, owed)
      /\ tc \in TestCases /\ Len(pool) = ni /\ ni \in Nat
  BY <1>2 DEF InCallAt, NumbersAgree, Numbering, ReaderFollows
<1>6. /\ ni \notin DOMAIN loaded.heap
      /\ Numbering(tc, d, Put(vi, a, ni), retIndexes, ni + 1, DOMAIN loaded.heap \cup {ni},
                   Append(pool, ArrayAt(ni)), retValueIndex)
  <2> HIDE DEF a
  <2>1. PICK held : held = DOMAIN loaded.heap
    OBVIOUS
  <2>2. Numbering(tc, d, vi, retIndexes, ni, held, pool, retValueIndex)
    BY <1>5, <2>1
  <2>3. a \in DOMAIN tc.heap /\ a \notin DOMAIN vi
    BY <1>4
  <2>4. /\ ni \notin held
        /\ Numbering(tc, d, Put(vi, a, ni), retIndexes, ni + 1, held \cup {ni},
                     Append(pool, ArrayAt(ni)), retValueIndex)
    BY <2>2, <2>3, ArrayTakesNumber
  <2> QED
    BY <2>1, <2>4
<1> DEFINE fields == Copies(Len(tc.heap[a]), Item("element", ni))
<1> DEFINE writes == WritesOf(tc, a)
<1> DEFINE v2 == Put(vi, a, ni)
<1> DEFINE l2 == [loaded EXCEPT !.heap = Put(@, ni, <<>>)]
<1> DEFINE new == Placed(l2, Head(expect), ArrayAt(ni))
<1>7. /\ \E k2, o2 : Within(tc, writes \o Tail(td), fields \o Tail(expect), new, v2, DOMAIN v2, d, k2, o2)
      /\ DOMAIN new.heap = DOMAIN loaded.heap \cup {ni} /\ new.root = loaded.root
  <2>1. PICK w : w = writes
    OBVIOUS
  <2>2. PICK f : f = fields
    OBVIOUS
  <2>3. PICK u : u = v2
    OBVIOUS
  <2>4. PICK l : l = l2
    OBVIOUS
  <2>5. PICK n : n = Placed(l, Head(expect), ArrayAt(ni))
    OBVIOUS
  <2>6. tc \in TestCases /\ Within(tc, td, expect, loaded, vi, DOMAIN vi, d, k, owed)
    BY <1>5
  <2>7. ValueNext(tc, d, k, owed) /\ a \in DOMAIN tc.heap /\ a \notin DOMAIN vi
    BY <1>2, <1>4
  <2>8. ni \in Nat /\ ni \notin DOMAIN loaded.heap
    BY <1>5, <1>6
  <2>9. /\ \E k2, o2 : Within(tc, w \o Tail(td), f \o Tail(expect), n, u, DOMAIN u, d, k2, o2)
        /\ DOMAIN n.heap = DOMAIN loaded.heap \cup {ni} /\ n.root = loaded.root
    <3>1. PICK b \in DOMAIN tc.heap : b = Head(td).n /\ b \notin DOMAIN vi
      BY <2>7
    <3>2. /\ w = WritesOf(tc, b) /\ f = Copies(Len(tc.heap[b]), Item("element", ni))
          /\ u = Put(vi, b, ni) /\ l = [loaded EXCEPT !.heap = Put(@, ni, <<>>)]
      BY Zenon, <2>1, <2>2, <2>3, <2>4, <3>1
    <3> HIDE DEF a
    <3> QED
      BY <2>5, <2>6, <2>7, <2>8, <3>1, <3>2, ArrayGrown
  <2> HIDE DEF writes, fields, v2, l2
  <2> QED
    BY <2>1, <2>2, <2>3, <2>4, <2>5, <2>9
<1>8. /\ loaded' = new /\ expect' = fields \o Tail(expect) /\ pool' = Append(pool, ArrayAt(ni))
      /\ UNCHANGED <<tc, todo, valueIndexes, retIndexes, nextIndex, retValueIndex>>
      /\ unread' = Nothing
  BY <1>4, <1>5 DEF ReadArray, Read, writer
<1> HIDE DEF new, fields, writes, v2
<1>9. PICK k2, o2 : Within(tc, writes \o Tail(td), fields \o Tail(expect), new, v2, DOMAIN v2, d, k2, o2)
  BY <1>7
<1>10. InCallAt(todo, valueIndexes, nextIndex, d, k2, o2)'
  <2>1. todo' = writes \o Tail(td) /\ valueIndexes' = v2 /\ nextIndex' = ni + 1
    BY <1>4, <1>8 DEF writes, v2
  <2>2. Within(tc, todo, expect, loaded, valueIndexes, DOMAIN valueIndexes, d, k2, o2)'
    BY <1>8, <1>9, <2>1
  <2>3. NumbersAgree(d, valueIndexes, nextIndex)'
    BY <1>6, <1>7, <1>8, <2>1 DEF NumbersAgree, v2
  <2>4. loaded'.root = tc'.root
    BY <1>5, <1>7, <1>8
  <2> QED
    BY <2>2, <2>3, <2>4 DEF InCallAt
<1> QED
  BY <1>5, <1>8, <1>10 DEF ReaderFollows, Settled, InCall

-----------------------------------------------------------------------------
(* Nothing else disturbs the two. *)
LEMMA FollowStays == ReaderFollows /\ UNCHANGED <<tc, writer, unread, reader>> => ReaderFollows'
<1> SUFFICES ASSUME ReaderFollows, UNCHANGED <<tc, writer, unread, reader>> PROVE ReaderFollows'
  OBVIOUS
<1>1. UNCHANGED <<tc, todo, valueIndexes, retIndexes, nextIndex, unread, reader>>
  BY DEF writer
<1>2. CASE unread = Nothing
  BY <1>1, <1>2, SettledStays DEF ReaderFollows
<1>3. CASE unread # Nothing
  <2>1. PICK td, vi, ni : Settled(td, vi, ni) /\ Sent(td, vi, ni)
    BY <1>3 DEF ReaderFollows, InFlight
  <2>2. Settled(td, vi, ni)'
    BY <1>1, <2>1, SettledStays
  <2>3. Sent(td, vi, ni)'
    BY <1>1, <2>1 DEF Sent, SentNumber, SentScalar, SentReference, SentArray
  <2> QED
    BY <1>1, <1>3, <2>2, <2>3 DEF ReaderFollows, InFlight
<1> QED
  BY <1>2, <1>3

(* Every step keeps writer and reader together. *)
LEMMA ReaderKeepsUp == InOrder /\ ReaderFollows /\ [Next]_vars => ReaderFollows'
<1> SUFFICES ASSUME InOrder, ReaderFollows, [Next]_vars PROVE ReaderFollows'
  OBVIOUS
<1>1. CASE WriteOn
  BY <1>1, NumberWritten, CallWritten, ResultWritten, ValueWritten DEF WriteOn, Serialize
<1>2. CASE ReadOn
  BY Zenon, <1>2, RootRead, CallsCountRead, CalleeFollows, CtorFollows, ArgsCountFollows,
     NextResultFollows, ScalarFollows, ArrayFollows, ReferenceFollows DEF ReadOn, Deserialize
<1>3. DumpOn => UNCHANGED <<tc, writer, unread, reader>>
  BY ZenonT(30) DEF DumpOn, Dump, DumpFunctionCall, DumpReturn, DumpScalar, DumpArray, DumpReference, Keep
<1>4. SynthesiseOn => UNCHANGED <<tc, writer, unread, reader>>
  BY Zenon DEF SynthesiseOn, Synthesise, EnterMainFunction, SynthesiseCall, SynthesiseKnown,
         SynthesisePlaceholder, SynthesiseScalar, SynthesiseArray, UseVariable,
         SynthesiseFunctionCall, Synthesises
<1>5. Finished \/ UNCHANGED vars => UNCHANGED <<tc, writer, unread, reader>>
  BY DEF Finished, vars
<1> QED
  BY <1>1, <1>2, <1>3, <1>4, <1>5, FollowStays DEF Next

(* A reader that follows takes each token for what it is. *)
LEMMA FollowingUnderstands == ReaderFollows => EveryTokenUnderstood
<1> SUFFICES ASSUME ReaderFollows, unread # Nothing
             PROVE  /\ expect # <<>>
                    /\ IF unread.is \in {"word", "flag"}
                       THEN /\ Head(expect).is \in DOMAIN NumberField
                            /\ NumberField[Head(expect).is] = unread.is
                       ELSE Head(expect).is \in ValueField
                    /\ unread.is = "reference" =>
                         \/ unread.n \in DOMAIN retValueIndex
                         \/ unread.n < Len(pool) /\ pool[unread.n + 1] # Null
  BY DEF EveryTokenUnderstood
<1>1. PICK td, vi, ni : /\ Settled(td, vi, ni) /\ Sent(td, vi, ni)
                        /\ expect # <<>> /\ Ahead(td, vi, ni)
  BY FlightAhead
<1>2. CASE Head(td).is \in {"word", "flag"}
  <2>1. unread = Head(td)
    BY <1>1, <1>2 DEF Sent, SentNumber, SentScalar, SentReference, SentArray
  <2>2. \/ Head(td).is = "word" /\ Head(expect).is \in {"root", "count", "callee", "argsCount"}
        \/ Head(td).is = "flag" /\ Head(expect).is = "ctor"
    BY <1>1, <1>2 DEF Ahead
  <2>3. Head(expect).is \in DOMAIN NumberField /\ NumberField[Head(expect).is] = Head(td).is
    BY <2>2 DEF NumberField
  <2> QED
    BY <1>1, <1>2, <2>1, <2>3
<1>3. CASE Head(td).is = "value"
  <2>1. unread.is \in {"scalar", "reference", "array"}
    BY <1>1, <1>3 DEF Sent, SentNumber, SentScalar, SentReference, SentArray, Item
  <2>2. PICK d, k, owed : InCallAt(td, vi, ni, d, k, owed) /\ Head(expect).is \in ValueField
    BY <1>1, <1>3 DEF Ahead
  <2>3. Numbering(tc, d, vi, retIndexes, ni, DOMAIN loaded.heap, pool, retValueIndex)
    BY <2>2 DEF InCallAt, NumbersAgree
  <2>4. ASSUME unread.is = "reference"
        PROVE  \/ unread.n \in DOMAIN retValueIndex
               \/ unread.n < Len(pool) /\ pool[unread.n + 1] # Null
    <3>1. SentReference(td, vi, ni)
      BY <1>1, <1>3, <2>4 DEF Sent, SentNumber, SentScalar, SentArray, Item
    <3>2. CASE Head(td).n \in DOMAIN retIndexes /\ unread.n = retIndexes[Head(td).n]
      BY <2>3, <3>2 DEF Numbering
    <3>3. CASE Head(td).n \in DOMAIN vi /\ unread.n = vi[Head(td).n]
      <4>1. unread.n < Len(pool) /\ pool[unread.n + 1] = ArrayAt(unread.n)
        BY <2>3, <3>3 DEF Numbering
      <4> QED
        BY <4>1 DEF ArrayAt, Null, Item
    <3> QED
      BY <3>1, <3>2, <3>3 DEF SentReference, Item
  <2> QED
    BY <1>1, <2>1, <2>2, <2>4
<1> QED
  BY <1>1, <1>2, <1>3 DEF Sent, SentNumber, SentScalar, SentReference, SentArray

-----------------------------------------------------------------------------
(* Understood values are the values of the test case under their new names. *)
LEMMA GotRenamed ==
  ASSUME NEW v, NEW r, Got(valueIndexes, v, r), DOMAIN valueIndexes \subseteq Arrays
  PROVE  r = Renamed(v)
<1>1. CASE v \in Scalars
  BY <1>1, TestCasesAssumption DEF Got, Renamed
<1>2. CASE v \notin Scalars /\ v \in Arrays
  BY <1>2 DEF Got, Renamed
<1>3. CASE v \notin Scalars /\ v \notin Arrays
  BY <1>3 DEF Got, Renamed
<1> QED
  BY <1>1, <1>2, <1>3

(* So is a call. *)
LEMMA CallRenamed ==
  ASSUME NEW c \in Call, NEW r \in LoadedCall, DOMAIN valueIndexes \subseteq Arrays,
         CallRead(valueIndexes, c, r, Complete(c))
  PROVE  r = RenamedCall(c)
<1>1. Len(c.args) \in Nat /\ c.args \in Seq(Value) /\ r.args \in Seq(Loadable) /\ Len(r.args) \in Nat
  BY DEF Call, LoadedCall
<1>2. Complete(c) >= 4 /\ Complete(c) - 4 = Len(c.args) /\ Complete(c) \in Nat
  BY <1>1 DEF Complete
<1>3. /\ r.callee = c.callee /\ r.ctor = c.ctor /\ Len(r.args) = Len(c.args)
      /\ Got(valueIndexes, ThisOf(c), r.this)
      /\ \A x \in 1 .. Len(r.args) : Got(valueIndexes, c.args[x], r.args[x])
  BY <1>2 DEF CallRead
<1>4. r.this = IF c.this = NoThis THEN Undefined ELSE Renamed(c.this)
  <2>1. r.this = Renamed(ThisOf(c))
    BY <1>3, GotRenamed
  <2>2. Renamed(Undefined) = Undefined
    BY TestCasesAssumption DEF Renamed
  <2> QED
    BY <2>1, <2>2 DEF ThisOf
<1>5. r.args = RenamedAll(c.args)
  <2>1. \A x \in 1 .. Len(c.args) : r.args[x] = Renamed(c.args[x])
    BY <1>3, GotRenamed
  <2>2. DOMAIN r.args = 1 .. Len(c.args) /\ DOMAIN c.args = 1 .. Len(c.args)
    BY <1>1, <1>3
  <2>3. r.args = [x \in DOMAIN r.args |-> r.args[x]]
    BY <1>1
  <2> QED
    BY <2>1, <2>2, <2>3 DEF RenamedAll
<1>6. r = [callee |-> r.callee, this |-> r.this, ctor |-> r.ctor, args |-> r.args]
  BY DEF LoadedCall
<1>7. RenamedCall(c) = [callee |-> c.callee,
                        this   |-> IF c.this = NoThis THEN Undefined ELSE Renamed(c.this),
                        ctor   |-> c.ctor, args |-> RenamedAll(c.args)]
  <2>1. c = [callee |-> c.callee, this |-> c.this, ctor |-> c.ctor, args |-> c.args]
    BY DEF Call
  <2> DEFINE w == IF c.this = NoThis THEN Undefined ELSE Renamed(c.this)
  <2> DEFINE u == RenamedAll(c.args)
  <2>2. RenamedCall(c) = [c EXCEPT !.this = w, !.args = u]
    BY <2>1 DEF RenamedCall
  <2> HIDE DEF w, u
  <2>3. [c EXCEPT !.this = w, !.args = u] = [callee |-> c.callee, this |-> w, ctor |-> c.ctor, args |-> u]
    <3> DEFINE z == [c EXCEPT !.this = w]
    <3>1. z = [callee |-> c.callee, this |-> w, ctor |-> c.ctor, args |-> c.args]
      BY <2>1
    <3> HIDE DEF z
    <3>2. [z EXCEPT !.args = u] = [callee |-> c.callee, this |-> w, ctor |-> c.ctor, args |-> u]
      BY <3>1
    <3> QED
      BY <3>2 DEF z
  <2> QED
    BY <2>2, <2>3 DEF w, u
<1> QED
  BY <1>3, <1>4, <1>5, <1>6, <1>7

(* When no element is owed, the arrays are those of the test case. *)
LEMMA ArraysRead ==
  ASSUME tc \in TestCases, NEW td, Elements(tc, td, expect, loaded, valueIndexes, DOMAIN valueIndexes, <<>>),
         NEW a \in DOMAIN valueIndexes
  PROVE  loaded.heap[valueIndexes[a]] = RenamedAll(tc.heap[a])
<1> DEFINE vi == valueIndexes
<1>1. /\ loaded \in Loaded /\ ArraysNumbered(tc, vi, loaded.heap, DOMAIN vi)
      /\ OwedOnce(tc, <<>>, vi, loaded.heap, DOMAIN vi)
      /\ ElementsGot(tc, vi, loaded.heap, DOMAIN vi)
  BY DEF Elements
<1>2. DOMAIN vi \subseteq Arrays /\ DOMAIN vi \subseteq DOMAIN tc.heap
  BY <1>1, TestCaseTyped DEF ArraysNumbered
<1> HIDE DEF vi
<1> DEFINE s == loaded.heap[vi[a]]
<1> DEFINE u == tc.heap[a]
<1>0. a \in DOMAIN vi
  BY DEF vi
<1>3. s \in Seq(Loadable) /\ Len(s) \in Nat
  BY <1>0, <1>1 DEF ArraysNumbered
<1>4. u \in Seq(Value) /\ Len(u) \in Nat /\ DOMAIN u = 1 .. Len(u)
  BY <1>0, <1>2, TestCaseTyped
<1>5. Len(s) <= Len(u) /\ \A x \in 1 .. Len(s) : Got(vi, u[x], s[x])
  BY <1>0, <1>1 DEF ElementsGot
<1>6. \A x \in Len(s) + 1 .. Len(u) : FALSE
  <2>1. DOMAIN <<>> = {}
    OBVIOUS
  <2> QED
    BY <1>0, <1>1, <2>1 DEF OwedOnce
<1> HIDE DEF s, u
<1>7. Len(s) = Len(u)
  <2>1. ~(Len(s) + 1 <= Len(u))
    BY <1>3, <1>4, <1>6
  <2> QED
    BY <1>3, <1>4, <1>5, <2>1
<1>8. \A x \in 1 .. Len(u) : s[x] = Renamed(u[x])
  BY <1>2, <1>5, <1>7, GotRenamed DEF vi
<1>9. DOMAIN s = 1 .. Len(u) /\ s = [x \in DOMAIN s |-> s[x]]
  BY <1>3, <1>7
<1>10. s = RenamedAll(u)
  BY <1>4, <1>8, <1>9 DEF RenamedAll
<1> QED
  BY <1>10 DEF s, u, vi

(* At the end it has the whole test case. *)
LEMMA FollowingRoundTrips == ReaderFollows => RoundTrip
<1> SUFFICES ASSUME ReaderFollows, todo = <<>>, unread = Nothing, expect = <<>>
             PROVE  /\ loaded.root = tc.root
                    /\ loaded.calls = [i \in DOMAIN tc.calls |-> RenamedCall(tc.calls[i])]
                    /\ \A a, b \in DOMAIN valueIndexes : valueIndexes[a] = valueIndexes[b] => a = b
                    /\ DOMAIN loaded.heap = Range(valueIndexes)
                    /\ \A a \in DOMAIN valueIndexes :
                         loaded.heap[valueIndexes[a]] = RenamedAll(tc.heap[a])
  BY DEF RoundTrip, AllWritten
<1> DEFINE vi == valueIndexes
<1>1. tc \in TestCases /\ Settled(todo, vi, nextIndex)
  BY DEF ReaderFollows
<1>2. ~AtRoot(todo, vi, nextIndex) /\ ~AtCount(todo, vi, nextIndex)
  BY <1>1, HeaderHeads
<1>3. ~CallOpened(todo, vi, nextIndex)
  <2> SUFFICES ASSUME NEW d \in Nat, d < Len(tc.calls),
                      Between(tc, todo, expect, loaded, vi, d, Script(tc, d), 0)
               PROVE  FALSE
    BY DEF CallOpened
  <2> QED
    BY <1>1, CallOpenedHeads
<1>4. ~CallClosed(todo, vi, nextIndex)
  <2> SUFFICES ASSUME NEW d \in Nat, d < Len(tc.calls),
                      Between(tc, todo, expect, loaded, vi, d + 1, Script(tc, d),
                              Complete(tc.calls[d + 1]))
               PROVE  FALSE
    BY DEF CallClosed
  <2> QED
    BY <1>1, CallClosedHeads
<1>5. ~InCall(todo, vi, nextIndex)
  BY <1>1, WithinAhead DEF InCall, InCallAt
<1>6. PICK d \in Nat :
        /\ loaded.root = tc.root /\ NumbersAgree(d, vi, nextIndex)
        /\ Between(tc, todo, expect, loaded, vi, d, CallsAfter(tc, d), 0)
  BY <1>1, <1>2, <1>3, <1>4, <1>5 DEF Settled, BeforeCall
<1>7. d = Len(tc.calls)
  BY <1>1, <1>6, BeforeCallHeads
<1>8. /\ Len(loaded.calls) = d /\ CallsRead(tc, vi, loaded.calls, d)
      /\ Elements(tc, todo, expect, loaded, vi, DOMAIN vi, <<>>)
  BY <1>6 DEF Between
<1>9. /\ loaded \in Loaded /\ ArraysNumbered(tc, vi, loaded.heap, DOMAIN vi)
      /\ OwedOnce(tc, <<>>, vi, loaded.heap, DOMAIN vi)
      /\ ElementsGot(tc, vi, loaded.heap, DOMAIN vi)
  BY <1>8 DEF Elements
<1>10. /\ DOMAIN loaded.heap = {vi[a] : a \in DOMAIN vi}
       /\ \A a, b \in DOMAIN vi : vi[a] = vi[b] => a = b
  BY <1>6 DEF NumbersAgree, Numbering
<1>11. DOMAIN vi \subseteq Arrays /\ DOMAIN vi \subseteq DOMAIN tc.heap
  BY <1>1, <1>9, TestCaseTyped DEF ArraysNumbered
<1> HIDE DEF vi
<1>12. loaded.calls = [i \in DOMAIN tc.calls |-> RenamedCall(tc.calls[i])]
  <2>1. loaded.calls \in Seq(LoadedCall) /\ tc.calls \in Seq(Call) /\ DOMAIN tc.calls = 1 .. d
    BY <1>1, <1>7, <1>9, TestCaseTyped DEF Loaded
  <2>2. DOMAIN loaded.calls = 1 .. d /\ loaded.calls = [i \in DOMAIN loaded.calls |-> loaded.calls[i]]
    BY <1>8, <2>1
  <2>3. ASSUME NEW i \in 1 .. d PROVE loaded.calls[i] = RenamedCall(tc.calls[i])
    <3>1. tc.calls[i] \in Call /\ loaded.calls[i] \in LoadedCall
      BY <2>1, <2>2
    <3>2. CallRead(vi, tc.calls[i], loaded.calls[i], Complete(tc.calls[i]))
      BY <1>8 DEF CallsRead
    <3> QED
      BY <1>11, <3>1, <3>2, CallRenamed DEF vi
  <2> QED
    BY <2>1, <2>2, <2>3
<1>13. \A a \in DOMAIN vi : loaded.heap[vi[a]] = RenamedAll(tc.heap[a])
  BY <1>1, <1>8, ArraysRead DEF vi
<1> QED
  BY <1>6, <1>10, <1>12, <1>13 DEF vi, Range

-----------------------------------------------------------------------------
(* The reader keeps up. *)
LEMMA AlwaysFollows == Spec => [](InOrder /\ ReaderFollows)
<1>1. Init => InOrder /\ ReaderFollows
  BY WritingStartsInOrder, StartedTogether DEF Init
<1>2. InOrder /\ ReaderFollows /\ [Next]_vars => (InOrder /\ ReaderFollows)'
  BY StepKeepsOrder, ReaderKeepsUp
<1> QED
  BY <1>1, <1>2, PTL DEF Spec

(* The reader of test cases (TestCaseDeserializer.cpp) never meets a token it does
   not expect and never a reference to something it has not read, for every test
   case with backward references, with any number of calls, and arrays shared and
   cyclic in any way. *)
THEOREM ReaderUnderstands == Spec => []EveryTokenUnderstood
  BY AlwaysFollows, FollowingUnderstands, PTL

(* Whatever TestCaseSerializer.cpp writes, TestCaseDeserializer.cpp reads back as
   it was: the calls with their operands, the arrays shared where they were shared
   and cyclic where they were. *)
THEOREM TestCasesSurvive == Spec => []RoundTrip
  BY AlwaysFollows, FollowingRoundTrips, PTL

-----------------------------------------------------------------------------
LEMMA SettledTyped ==
  ASSUME tc \in TestCases, NEW td, NEW vi, NEW ni, Settled(td, vi, ni)
  PROVE  expect \in Seq(Token) /\ loaded \in Loaded /\ Len(pool) \in Nat
<1>1. ASSUME AtRoot(td, vi, ni) \/ AtCount(td, vi, ni)
      PROVE  expect \in Seq(Token) /\ loaded \in Loaded /\ Len(pool) \in Nat
  <2>1. Item("root", 0) \in Token /\ Item("count", 0) \in Token
    BY Tokens DEF Kind
  <2>2. expect = <<Item("root", 0), Item("count", 0)>> \/ expect = <<Item("count", 0)>>
    BY <1>1 DEF AtRoot, AtCount
  <2>3. expect \in Seq(Token)
    <3>1. \A a, b \in Token : <<a, b>> \in Seq(Token) /\ <<b>> \in Seq(Token)
      OBVIOUS
    <3> QED
      BY <2>1, <2>2, <3>1
  <2>4. NothingRead(vi, ni)
    BY <1>1 DEF AtRoot, AtCount
  <2>5. loaded \in Loaded
    <3>1. EmptyMap \in [{} -> Seq(Loadable)]
      BY DEF EmptyMap
    <3>2. EmptyMap \in Heaps
      BY <3>1 DEF Heaps
    <3>3. <<>> \in Seq(LoadedCall)
      OBVIOUS
    <3> QED
      BY <2>4, <3>2, <3>3 DEF NothingRead, Loaded
  <2> QED
    BY <2>3, <2>4, <2>5 DEF NothingRead
<1>2. CASE BeforeCall(td, vi, ni)
  BY <1>2 DEF BeforeCall, Between, Elements, NumbersAgree, Numbering
<1>3. CASE CallOpened(td, vi, ni)
  BY <1>3 DEF CallOpened, Between, Elements, NumbersAgree, Numbering
<1>4. CASE InCall(td, vi, ni)
  BY <1>4 DEF InCall, InCallAt, Within, Elements, NumbersAgree, Numbering
<1>5. CASE CallClosed(td, vi, ni)
  <2>1. expect \in Seq(Token) /\ loaded \in Loaded /\ pool \in Seq(Loadable \cup {Null})
    BY <1>5 DEF CallClosed, Between, Elements, Numbering
  <2> QED
    BY <2>1
<1> QED
  BY <1>1, <1>2, <1>3, <1>4, <1>5 DEF Settled

(* What the reader has has the right form. *)
LEMMA FollowTyped ==
  ASSUME ReaderFollows
  PROVE  expect \in Seq(Token) /\ loaded \in Loaded /\ Len(pool) \in Nat
<1>1. \E td, vi, ni : Settled(td, vi, ni)
  BY DEF ReaderFollows, InFlight
<1> QED
  BY <1>1, SettledTyped DEF ReaderFollows

-----------------------------------------------------------------------------
LEMMA ReturnShown == ShownNumbers /\ DumpReturn => ShownNumbers'
<1> SUFFICES ASSUME ShownNumbers, DumpReturn PROVE ShownNumbers'
  OBVIOUS
<1> DEFINE key == Head(toDump).n
<1> HIDE DEF key
<1>1. /\ returned' = Put(returned, key, nextValue) /\ nextValue' = nextValue + 1
      /\ UNCHANGED <<tc, valueToIndex, references>>
  BY DEF DumpReturn, Keep, key
<1>2. \A i \in DOMAIN returned' : returned'[i] = nextValue \/ (i \in DOMAIN returned /\ returned'[i] = returned[i])
  BY <1>1 DEF Put
<1> QED
  BY <1>1, <1>2 DEF ShownNumbers

LEMMA ArrayShown == ShownNumbers /\ DumpArray => ShownNumbers'
<1> SUFFICES ASSUME ShownNumbers, DumpArray PROVE ShownNumbers'
  OBVIOUS
<1> DEFINE key == Head(toDump).n
<1> HIDE DEF key
<1>1. /\ valueToIndex' = Put(valueToIndex, key, nextValue) /\ key \notin DOMAIN valueToIndex
      /\ nextValue' = nextValue + 1 /\ UNCHANGED <<tc, returned, references>>
  BY Zenon DEF DumpArray, Keep, key
<1>2. /\ DOMAIN valueToIndex' = DOMAIN valueToIndex \cup {key} /\ valueToIndex'[key] = nextValue
      /\ \A a \in DOMAIN valueToIndex : valueToIndex'[a] = valueToIndex[a]
  BY <1>1 DEF Put
<1> QED
  BY SMTT(20), <1>1, <1>2 DEF ShownNumbers

LEMMA ReferenceShown == ShownNumbers /\ DumpReference => ShownNumbers'
<1> SUFFICES ASSUME ShownNumbers, DumpReference PROVE ShownNumbers'
  OBVIOUS
<1> DEFINE v == Head(toDump).n
<1>1. /\ v \in DOMAIN valueToIndex \cup DOMAIN tc.calls
      /\ references' = references \cup {[value |-> v, shown |-> ShownIndex(v)]}
      /\ UNCHANGED <<tc, valueToIndex, nextValue, returned>>
  BY DEF DumpReference, Keep
<1>2. v \in Arrays => v \in DOMAIN valueToIndex
  <2>1. \A i \in DOMAIN tc.calls : i \in Nat
    BY TestCaseTyped DEF ShownNumbers
  <2> QED
    BY <1>1, <2>1, TokensAssumption
<1> HIDE DEF v
<1>3. v \in Arrays => ShownIndex(v) = valueToIndex[v]
  BY <1>2 DEF ShownIndex
<1>4. \A r \in references' : r.value \in Arrays =>
         r.value \in DOMAIN valueToIndex /\ r.shown = valueToIndex[r.value]
  BY <1>1, <1>2, <1>3 DEF ShownNumbers
<1> QED
  BY <1>1, <1>4 DEF ShownNumbers

(* Every step keeps the numbers of the dumper apart. *)
LEMMA NumbersStayShown == ShownNumbers /\ [Next]_vars => ShownNumbers'
<1> SUFFICES ASSUME ShownNumbers, [Next]_vars PROVE ShownNumbers'
  OBVIOUS
<1>1. CASE DumpReturn \/ DumpArray \/ DumpReference
  BY <1>1, ReturnShown, ArrayShown, ReferenceShown
<1>2. UNCHANGED <<tc, valueToIndex, nextValue, returned, references>> => ShownNumbers'
  BY SMTT(20) DEF ShownNumbers
<1>3. DumpFunctionCall \/ DumpScalar => UNCHANGED <<tc, valueToIndex, nextValue, returned, references>>
  BY ZenonT(30) DEF DumpFunctionCall, DumpScalar, Keep
<1>4. WriteOn => UNCHANGED <<tc, dumper>>
  BY DEF WriteOn, Serialize, WriteNumber, WriteCall, NumberResult, WriteValue
<1>5. ReadOn => UNCHANGED <<tc, dumper>>
  BY Zenon DEF ReadOn, Deserialize, ReadRoot, ReadCallsCount, ReadCallee, ReadCtor, ReadArgsCount,
         NextResult, ReadScalar, ReadArray, ReadReference, Read
<1>6. SynthesiseOn => UNCHANGED <<tc, dumper>>
  BY Zenon DEF SynthesiseOn, Synthesise, EnterMainFunction, SynthesiseCall, SynthesiseKnown,
         SynthesisePlaceholder, SynthesiseScalar, SynthesiseArray, UseVariable,
         SynthesiseFunctionCall, Synthesises
<1>7. Finished \/ UNCHANGED vars => UNCHANGED <<tc, dumper>>
  BY DEF Finished, vars
<1>8. UNCHANGED <<tc, dumper>> => UNCHANGED <<tc, valueToIndex, nextValue, returned, references>>
  BY DEF dumper
<1> QED
  BY <1>1, <1>2, <1>3, <1>4, <1>5, <1>6, <1>7, <1>8 DEF Next, DumpOn, Dump

(* The $n that TestCaseDumper.cpp prints after REF for an array is the number of that
   array, and no other array and no result has it. *)
THEOREM ShownNumbersLead == Spec => []ArraysShownByNumber
<1>1. Init => ShownNumbers
  BY DEF Init, StartWriting, StartDumping, ShownNumbers, EmptyMap
<1>2. ShownNumbers /\ [Next]_vars => ShownNumbers'
  BY NumbersStayShown
<1>3. ShownNumbers => ArraysShownByNumber
  <2> SUFFICES ASSUME ShownNumbers, NEW r \in references, r.value \in Arrays
               PROVE  /\ \A a \in DOMAIN valueToIndex : valueToIndex[a] = r.shown <=> a = r.value
                      /\ \A i \in DOMAIN returned : returned[i] # r.shown
    BY DEF ArraysShownByNumber
  <2> QED
    BY DEF ShownNumbers
<1> QED
  BY <1>1, <1>2, <1>3, PTL DEF Spec

-----------------------------------------------------------------------------
(* More names are declared and more arrays made. *)
Grows(env, vo, env2, vo2) ==
  /\ \A x \in DOMAIN env : x \in DOMAIN env2 /\ env2[x] = env[x]
  /\ \A v \in DOMAIN vo : v \in DOMAIN vo2 /\ vo2[v] = vo[v]

LEMMA StillStands ==
  ASSUME NEW env, NEW vo, NEW env2, NEW vo2, Grows(env, vo, env2, vo2), NEW x, NEW v,
         Stands(env, vo, x, v)
  PROVE  Stands(env2, vo2, x, v)
  BY DEF Grows, Stands, Made, Worth

LEMMA StillWorth ==
  ASSUME NEW env, NEW vo, NEW env2, NEW vo2, Grows(env, vo, env2, vo2), NEW v, Made(vo, v)
  PROVE  Made(vo2, v) /\ Worth(vo2, v) = Worth(vo, v)
  BY DEF Grows, Made, Worth

LEMMA StillCarries ==
  ASSUME NEW env, NEW vo, NEW env2, NEW vo2, Grows(env, vo, env2, vo2), NEW item, NEW v,
         Carries(env, vo, item, v)
  PROVE  Carries(env2, vo2, item, v)
  BY StillStands DEF Carries

(* The first item is replaced by l items for others and one that carries what it
   carried. *)
LEMMA DueReplaced ==
  ASSUME NEW env, NEW vo, NEW env2, NEW vo2, Grows(env, vo, env2, vo2),
         NEW s, NEW z, NEW m \in Nat \ {0}, NEW l \in Nat, NEW to, NEW done, NEW all, Len(all) \in Nat,
         Due(env, vo, s, m, to, done, all),
         \A k \in 1 .. l : z[k].to # to,
         z[l + 1].to = s[1].to,
         \A v : Carries(env, vo, s[1], v) => Carries(env2, vo2, z[l + 1], v),
         \A k \in 2 .. m : z[l + k] = s[k]
  PROVE  Due(env2, vo2, z, l + m, to, done, all)
<1>1. PICK d \in Nat : DueAt(env, vo, s, m, to, done, all, d)
  BY DEF Due
<1>2. PICK r \in Nat : r = Len(all) - done
  <2>1. done \in 0 .. Len(all)
    BY <1>1 DEF DueAt
  <2>2. Len(all) - done \in Nat
    BY <2>1
  <2> QED
    BY <2>2
<1>3. /\ done \in 0 .. Len(all) /\ d + r <= m
      /\ \A k \in 1 .. m : s[k].to = to => d < k /\ k <= d + r
      /\ \A j \in 1 .. r : s[d + j].to = to /\ Carries(env, vo, s[d + j], all[done + j])
  BY <1>1, <1>2 DEF DueAt
<1>4. (l + d) + r <= l + m /\ l + d \in Nat
  BY <1>2, <1>3
<1>5. ASSUME NEW k \in 1 .. l + m, z[k].to = to PROVE l + d < k /\ k <= (l + d) + r
  <2>1. k > l
    BY <1>5
  <2>2. PICK q \in 1 .. m : k = l + q
    <3>1. k - l \in 1 .. m /\ k = l + (k - l)
      BY <2>1
    <3> QED
      BY <3>1
  <2>3. s[q].to = to
    <3>1. CASE q = 1
      BY <1>5, <2>2, <3>1
    <3>2. CASE q # 1
      BY <1>5, <2>2, <3>2
    <3> QED
      BY <3>1, <3>2
  <2>4. d < q /\ q <= d + r
    BY <1>3, <2>3
  <2> QED
    BY <1>2, <2>2, <2>4
<1>6. ASSUME NEW j \in 1 .. r
      PROVE  z[(l + d) + j].to = to /\ Carries(env2, vo2, z[(l + d) + j], all[done + j])
  <2>1. s[d + j].to = to /\ Carries(env, vo, s[d + j], all[done + j])
    BY <1>3
  <2>2. PICK q \in 1 .. m : q = d + j /\ (l + d) + j = l + q
    <3>1. d + r <= m /\ r \in Nat
      BY <1>2, <1>3
    <3>2. d + j \in 1 .. m /\ (l + d) + j = l + (d + j)
      BY <3>1
    <3> QED
      BY <3>2
  <2>3. CASE q = 1
    BY <2>1, <2>2, <2>3
  <2>4. CASE q # 1
    <3>1. z[l + q] = s[q]
      BY <2>4
    <3> QED
      BY <2>1, <2>2, <3>1, StillCarries
  <2> QED
    BY <2>3, <2>4
<1>7. DueAt(env2, vo2, z, l + m, to, done, all, l + d)
  BY <1>2, <1>3, <1>4, <1>5, <1>6 DEF DueAt
<1> QED
  BY <1>4, <1>7 DEF Due

(* The first item is used, by another. *)
LEMMA DuePassed ==
  ASSUME NEW env, NEW vo, NEW s, NEW z, NEW m \in Nat \ {0}, NEW to, NEW done, NEW all, Len(all) \in Nat,
         Due(env, vo, s, m, to, done, all), s[1].to # to,
         \A k \in 2 .. m : z[k - 1] = s[k]
  PROVE  Due(env, vo, z, m - 1, to, done, all)
<1>1. PICK d \in Nat : DueAt(env, vo, s, m, to, done, all, d)
  BY DEF Due
<1>2. PICK r \in Nat : r = Len(all) - done
  <2>1. done \in 0 .. Len(all)
    BY <1>1 DEF DueAt
  <2>2. Len(all) - done \in Nat
    BY <2>1
  <2> QED
    BY <2>2
<1>3. /\ done \in 0 .. Len(all) /\ d + r <= m
      /\ \A k \in 1 .. m : s[k].to = to => d < k /\ k <= d + r
      /\ \A j \in 1 .. r : s[d + j].to = to /\ Carries(env, vo, s[d + j], all[done + j])
  BY <1>1, <1>2 DEF DueAt
<1>4. r = 0 \/ d >= 1
  BY <1>2, <1>3
<1>5. PICK e \in Nat : e = (IF d >= 1 THEN d - 1 ELSE 0) /\ (r = 0 \/ e + 1 = d)
  BY <1>4
<1>6. \A k \in 1 .. m - 1 : z[k] = s[k + 1] /\ k + 1 \in 2 .. m
  <2> TAKE k \in 1 .. m - 1
  <2>1. k + 1 \in 2 .. m /\ (k + 1) - 1 = k
    OBVIOUS
  <2> QED
    BY <2>1
<1>7. \A k \in 1 .. m - 1 : z[k].to = to => e < k /\ k <= e + r
  <2> TAKE k \in 1 .. m - 1
  <2> HAVE z[k].to = to
  <2>1. s[k + 1].to = to /\ k + 1 \in 1 .. m
    BY <1>6
  <2>2. d < k + 1 /\ k + 1 <= d + r
    BY <1>3, <2>1
  <2> QED
    BY <1>2, <1>5, <2>2
<1>8. ASSUME NEW j \in 1 .. r
      PROVE  z[e + j].to = to /\ Carries(env, vo, z[e + j], all[done + j])
  <2>1. d + j = (e + j) + 1 /\ e + j \in 1 .. m - 1
    BY <1>2, <1>3, <1>5
  <2>2. z[e + j] = s[d + j]
    BY <1>6, <2>1
  <2> QED
    BY <1>3, <2>2
<1>9. e + r <= m - 1
  BY <1>2, <1>3, <1>5
<1>10. DueAt(env, vo, z, m - 1, to, done, all, e)
  BY <1>2, <1>3, <1>7, <1>8, <1>9 DEF DueAt
<1> QED
  BY <1>10 DEF Due

(* The first item is the next one for `to`, and is used. *)
Taken(env, vo, s, z, m, to, done, all) ==
  /\ done \in Nat /\ done + 1 \in 1 .. Len(all) /\ Carries(env, vo, s[1], all[done + 1])
  /\ Due(env, vo, z, m - 1, to, done + 1, all)

LEMMA DueTaken ==
  ASSUME NEW env, NEW vo, NEW s, NEW z, NEW m \in Nat \ {0}, NEW to, NEW done, NEW all, Len(all) \in Nat,
         Due(env, vo, s, m, to, done, all), s[1].to = to,
         \A k \in 2 .. m : z[k - 1] = s[k]
  PROVE  Taken(env, vo, s, z, m, to, done, all)
<1>1. PICK d \in Nat : DueAt(env, vo, s, m, to, done, all, d)
  BY DEF Due
<1>2. PICK r \in Nat : r = Len(all) - done
  <2>1. done \in 0 .. Len(all)
    BY <1>1 DEF DueAt
  <2>2. Len(all) - done \in Nat
    BY <2>1
  <2> QED
    BY <2>2
<1>3. /\ done \in 0 .. Len(all) /\ d + r <= m
      /\ \A k \in 1 .. m : s[k].to = to => d < k /\ k <= d + r
      /\ \A j \in 1 .. r : s[d + j].to = to /\ Carries(env, vo, s[d + j], all[done + j])
  BY <1>1, <1>2 DEF DueAt
<1>4. d = 0 /\ r >= 1
  <2>1. d < 1 /\ 1 <= d + r
    <3>1. 1 \in 1 .. m
      OBVIOUS
    <3> QED
      BY <1>3, <3>1
  <2> QED
    BY <1>2, <2>1
<1>5. done \in Nat /\ done + 1 \in 1 .. Len(all) /\ Carries(env, vo, s[1], all[done + 1])
  <2>1. Carries(env, vo, s[0 + 1], all[done + 1])
    BY <1>2, <1>3, <1>4
  <2>2. done \in Nat /\ done + 1 \in 1 .. Len(all)
    BY <1>2, <1>3, <1>4
  <2> QED
    BY <2>1, <2>2
<1>6. \A k \in 1 .. m - 1 : z[k] = s[k + 1] /\ k + 1 \in 2 .. m
  <2> TAKE k \in 1 .. m - 1
  <2>1. k + 1 \in 2 .. m /\ (k + 1) - 1 = k
    OBVIOUS
  <2> QED
    BY <2>1
<1>7. \A k \in 1 .. m - 1 : z[k].to = to => 0 < k /\ k <= 0 + (r - 1)
  <2> TAKE k \in 1 .. m - 1
  <2> HAVE z[k].to = to
  <2>1. s[k + 1].to = to /\ k + 1 \in 1 .. m
    BY <1>6
  <2>2. k + 1 <= d + r
    BY <1>3, <2>1
  <2> QED
    BY <1>2, <1>4, <2>2
<1>8. ASSUME NEW j \in 1 .. r - 1
      PROVE  z[0 + j].to = to /\ Carries(env, vo, z[0 + j], all[(done + 1) + j])
  <2>1. PICK q \in 1 .. r : q = j + 1 /\ d + q = j + 1 /\ done + q = (done + 1) + j
    <3>1. r \in Nat /\ d = 0 /\ done \in Nat
      BY <1>2, <1>4, <1>5
    <3>2. j + 1 \in 1 .. r /\ d + (j + 1) = j + 1
      BY <3>1
    <3>3. done + (j + 1) = (done + 1) + j
      BY <3>1
    <3> QED
      BY <3>2, <3>3
  <2>2. j \in 1 .. m - 1 /\ 0 + j = j
    BY <1>2, <1>3, <1>4
  <2>3. z[j] = s[d + q]
    BY <1>6, <2>1, <2>2
  <2>4. s[d + q].to = to /\ Carries(env, vo, s[d + q], all[done + q])
    BY <1>3
  <2> QED
    BY <2>1, <2>2, <2>3, <2>4
<1>9. 0 + (r - 1) <= m - 1 /\ Len(all) - (done + 1) = r - 1 /\ done + 1 \in 0 .. Len(all)
  BY <1>2, <1>3, <1>4, <1>5
<1>10. DueAt(env, vo, z, m - 1, to, done + 1, all, 0)
  BY <1>7, <1>8, <1>9 DEF DueAt
<1> QED
  BY <1>5, <1>10 DEF Due, Taken

(* With no item before a statement everything has arrived. *)
LEMMA DueDone ==
  ASSUME NEW env, NEW vo, NEW s, NEW to, NEW done, NEW all, Len(all) \in Nat
  PROVE  /\ Due(env, vo, s, 0, to, done, all) => done = Len(all)
         /\ \A m \in Nat : \A z : done = Len(all) /\ (\A k \in 1 .. m : z[k].to # to) =>
              Due(env, vo, z, m, to, done, all)
<1>1. Due(env, vo, s, 0, to, done, all) => done = Len(all)
  BY DEF Due, DueAt
<1>2. ASSUME NEW m \in Nat, NEW z, done = Len(all), \A k \in 1 .. m : z[k].to # to
      PROVE  DueAt(env, vo, z, m, to, done, all, 0)
  BY <1>2 DEF DueAt
<1> QED
  BY <1>1, <1>2 DEF Due

(* Items are added for all of all. *)
LEMMA DueAll ==
  ASSUME NEW env, NEW vo, NEW s, NEW to, NEW all, NEW m \in Nat, Len(all) \in Nat, Len(all) <= m,
         \A k \in 1 .. Len(all) : s[k].to = to /\ Carries(env, vo, s[k], all[k]),
         \A k \in Len(all) + 1 .. m : s[k].to # to
  PROVE  Due(env, vo, s, m, to, 0, all)
<1>1. /\ 0 \in 0 .. Len(all) /\ 0 + (Len(all) - 0) <= m
      /\ \A k \in 1 .. m : s[k].to = to => 0 < k /\ k <= 0 + (Len(all) - 0)
  OBVIOUS
<1>2. ASSUME NEW j \in 1 .. (Len(all) - 0)
      PROVE  s[0 + j].to = to /\ Carries(env, vo, s[0 + j], all[0 + j])
  <2>1. 0 + j = j /\ j \in 1 .. Len(all)
    OBVIOUS
  <2> QED
    BY <2>1
<1>3. DueAt(env, vo, s, m, to, 0, all, 0)
  BY <1>1, <1>2 DEF DueAt
<1> QED
  BY <1>3 DEF Due

-----------------------------------------------------------------------------
(* What a declaration leaves alone. *)
Extends(e, d) ==
  /\ \A x \in DOMAIN e.env : x \in DOMAIN d.env /\ d.env[x] = e.env[x]
  /\ d.heap = e.heap /\ d.calls = e.calls

DeclaredAs(d, e, x, v) ==
  /\ DOMAIN d = {"env", "heap", "broken", "calls"} /\ d.broken = FALSE
  /\ d.env = Put(e.env, x, v) /\ d.heap = e.heap /\ d.calls = e.calls

LEMMA DeclareFields ==
  ASSUME NEW e, DOMAIN e = {"env", "heap", "broken", "calls"}, e.broken = FALSE,
         NEW x, NEW v, NEW uses, x \notin DOMAIN e.env, uses \subseteq DOMAIN e.env
  PROVE  DeclaredAs(Declare(e, x, v, uses), e, x, v)
<1> DEFINE p == Put(e.env, x, v)
<1>1. (e.broken \/ x \in DOMAIN e.env \/ ~(uses \subseteq DOMAIN e.env)) = FALSE
  OBVIOUS
<1>2. Declare(e, x, v, uses) = [e EXCEPT !.env = p, !.broken = FALSE]
  BY <1>1 DEF Declare
<1> HIDE DEF p
<1> QED
  BY <1>2 DEF p, DeclaredAs

LEMMA DeclaredNext ==
  ASSUME NEW e, NEW imp, NEW n \in Nat, imp \cap Nat = {}, Declares(e, imp, n),
         NEW v, NEW uses, uses \subseteq imp \cup 0 .. (n - 1)
  PROVE  /\ Declares(Declare(e, n, v, uses), imp, n + 1)
         /\ Declare(e, n, v, uses).env[n] = v
         /\ Extends(e, Declare(e, n, v, uses))
<1>1. n \notin DOMAIN e.env /\ uses \subseteq DOMAIN e.env
  BY DEF Declares
<1> DEFINE d == Declare(e, n, v, uses)
<1>2. DOMAIN e = {"env", "heap", "broken", "calls"} /\ e.broken = FALSE
  BY DEF Declares
<1>5. DeclaredAs(d, e, n, v)
  BY <1>1, <1>2, DeclareFields
<1> HIDE DEF d
<1>3. /\ DOMAIN d.env = DOMAIN e.env \cup {n} /\ d.env[n] = v
      /\ \A x \in DOMAIN e.env : d.env[x] = e.env[x]
  BY <1>1, <1>5 DEF Put, DeclaredAs
<1>4. DOMAIN d.env = imp \cup 0 .. ((n + 1) - 1)
  BY <1>3 DEF Declares
<1> QED
  BY <1>5, <1>3, <1>4 DEF Declares, Extends, DeclaredAs, d

LEMMA Required ==
  ASSUME NEW e, NEW imp, NEW n \in Nat, Declares(e, imp, n),
         NEW mods, \A a, b \in mods : a = b /\ a \notin Nat
  PROVE  /\ Declares(Require(e, mods \ imp), imp \cup mods, n)
         /\ Extends(e, Require(e, mods \ imp))
<1> DEFINE d == Require(e, mods \ imp)
<1>1. CASE mods \ imp = {}
  <2>1. d = e /\ imp \cup mods = imp
    BY <1>1 DEF Require
  <2> QED
    BY <2>1 DEF Extends
<1>2. CASE mods \ imp # {}
  <2>1. PICK x \in mods \ imp : x = (CHOOSE a \in mods \ imp : TRUE)
    BY <1>2
  <2>2. imp \cup mods = imp \cup {x} /\ x \notin Nat
    BY <2>1
  <2>3. d = Declare(e, x, Undefined, {})
    BY <1>2, <2>1 DEF Require
  <2>4. x \notin DOMAIN e.env
    BY <2>1, <2>2 DEF Declares
  <2>5. DeclaredAs(d, e, x, Undefined)
    <3>1. DOMAIN e = {"env", "heap", "broken", "calls"} /\ e.broken = FALSE
      BY DEF Declares
    <3>2. {} \subseteq DOMAIN e.env
      OBVIOUS
    <3>3. DeclaredAs(Declare(e, x, Undefined, {}), e, x, Undefined)
      BY <2>4, <3>1, <3>2, DeclareFields
    <3> QED
      BY <2>3, <3>3
  <2> HIDE DEF d
  <2>6. /\ DOMAIN d.env = DOMAIN e.env \cup {x}
        /\ \A y \in DOMAIN e.env : d.env[y] = e.env[y]
    BY <2>4, <2>5 DEF Put, DeclaredAs
  <2>7. DOMAIN d.env = (imp \cup mods) \cup 0 .. (n - 1)
    BY <2>2, <2>6 DEF Declares
  <2> QED
    BY <2>5, <2>6, <2>7 DEF Declares, Extends, DeclaredAs, d
<1> QED
  BY <1>1, <1>2

LEMMA ExtendsOn ==
  ASSUME NEW e, NEW d, NEW f, Extends(e, d), Extends(d, f)
  PROVE  Extends(e, f)
  BY DEF Extends

-----------------------------------------------------------------------------
LEMMA RenamedUsable ==
  ASSUME NEW v, Renamed(v) \in Loadable, DOMAIN loaded.heap = Range(valueIndexes),
         DOMAIN valueIndexes \subseteq Arrays
  PROVE  Renamed(v) \in Usable
<1>1. CASE v \in Scalars /\ v \notin DOMAIN valueIndexes
  <2>1. Renamed(v) = v
    BY <1>1 DEF Renamed
  <2> QED
    BY <1>1, <2>1 DEF Usable, IsArray
<1>2. CASE v \in DOMAIN valueIndexes
  <2>1. v \notin Scalars
    BY <1>2, TestCasesAssumption
  <2> QED
    BY <1>2, <2>1 DEF Renamed, Usable, ArrayAt, Item, Range
<1>3. CASE v \notin Scalars /\ v \notin DOMAIN valueIndexes
  BY <1>3 DEF Renamed, Usable, IsArray, ResultOf, Item
<1> QED
  BY <1>1, <1>2, <1>3

LEMMA NumberedArrays ==
  ASSUME ReaderFollows, AllRead
  PROVE  DOMAIN valueIndexes \subseteq Arrays
<1>1. Settled(todo, valueIndexes, nextIndex) /\ tc \in TestCases
  BY DEF ReaderFollows, AllRead, AllWritten
<1>2. DOMAIN tc.heap \subseteq Arrays
  BY <1>1, TestCaseTyped
<1>3. \A d, ri, ni, held, pl, rvi :
        Numbering(tc, d, valueIndexes, ri, ni, held, pl, rvi) => DOMAIN valueIndexes \subseteq Arrays
  BY <1>2 DEF Numbering
<1>4. NothingRead(valueIndexes, nextIndex) => DOMAIN valueIndexes \subseteq Arrays
  BY DEF NothingRead, EmptyMap
<1>5. AtRoot(todo, valueIndexes, nextIndex) \/ AtCount(todo, valueIndexes, nextIndex)
        => NothingRead(valueIndexes, nextIndex)
  BY DEF AtRoot, AtCount
<1>6. ASSUME \/ BeforeCall(todo, valueIndexes, nextIndex) \/ CallOpened(todo, valueIndexes, nextIndex)
             \/ CallClosed(todo, valueIndexes, nextIndex)
      PROVE  DOMAIN valueIndexes \subseteq Arrays
  BY <1>3, <1>6 DEF BeforeCall, CallOpened, CallClosed, NumbersAgree
<1>7. InCall(todo, valueIndexes, nextIndex) => DOMAIN valueIndexes \subseteq Arrays
  BY <1>3 DEF InCall, InCallAt, NumbersAgree
<1> QED
  BY <1>1, <1>4, <1>5, <1>6, <1>7 DEF Settled

LEMMA ReadWhole ==
  ASSUME InOrder, ReaderFollows, AllRead
  PROVE  LoadedWhole
<1>1. RoundTrip /\ loaded \in Loaded /\ tc \in TestCases
  BY FollowingRoundTrips, FollowTyped DEF InOrder
<1>2. /\ loaded.calls = [i \in DOMAIN tc.calls |-> RenamedCall(tc.calls[i])]
      /\ DOMAIN loaded.heap = Range(valueIndexes)
      /\ \A a \in DOMAIN valueIndexes : loaded.heap[valueIndexes[a]] = RenamedAll(tc.heap[a])
  BY <1>1 DEF RoundTrip, AllRead
<1>3. loaded.calls \in Seq(LoadedCall) /\ loaded.heap \in Heaps
  BY <1>1 DEF Loaded
<1>4. /\ DOMAIN loaded.heap \subseteq Nat
      /\ \A n \in DOMAIN loaded.heap : loaded.heap[n] \in Seq(Loadable)
  BY <1>3, HeapTyped
<1>10. DOMAIN valueIndexes \subseteq Arrays
  BY <1>1, NumberedArrays
<1>5. ASSUME NEW s, RenamedAll(s) \in Seq(Loadable)
      PROVE  RenamedAll(s) \in Seq(Usable)
  <2> DEFINE r == RenamedAll(s)
  <2>1. DOMAIN r = DOMAIN s /\ \A k \in DOMAIN r : r[k] = Renamed(s[k])
    BY DEF RenamedAll
  <2> HIDE DEF r
  <2>2. r \in Seq(Loadable)
    BY <1>5 DEF r
  <2>3. \A k \in 1 .. Len(r) : r[k] \in Usable
    <3> TAKE k \in 1 .. Len(r)
    <3>1. k \in DOMAIN r /\ r[k] \in Loadable
      BY <2>2
    <3> QED
      BY <1>2, <1>10, <2>1, <3>1, RenamedUsable
  <2>4. Len(r) \in Nat /\ DOMAIN r = 1 .. Len(r) /\ r = [k \in 1 .. Len(r) |-> r[k]]
    BY <2>2
  <2>5. r \in Seq(Usable)
    <3> HIDE DEF Usable
    <3> QED
      BY <2>3, <2>4
  <2> QED
    BY <2>5 DEF r
<1>6. ASSUME NEW n \in DOMAIN loaded.heap PROVE loaded.heap[n] \in Seq(Usable)
  <2>1. PICK a \in DOMAIN valueIndexes : n = valueIndexes[a]
    BY <1>2 DEF Range
  <2> QED
    BY <1>2, <1>4, <1>5, <2>1
<1>7. ASSUME NEW i \in DOMAIN loaded.calls
      PROVE  /\ loaded.calls[i].callee \in DOMAIN ModuleOf
             /\ loaded.calls[i].this \in Usable \cup {NoThis}
             /\ loaded.calls[i].args \in Seq(Usable)
  <2> DEFINE c == tc.calls[i]
  <2> DEFINE r == loaded.calls[i]
  <2>1. i \in DOMAIN tc.calls /\ r = RenamedCall(c) /\ r \in LoadedCall
    BY <1>2, <1>3
  <2>2. c \in Call
    BY <1>1, <2>1, TestCaseTyped
  <2>3. /\ r.callee = c.callee /\ r.args = RenamedAll(c.args)
        /\ r.this = IF c.this = NoThis THEN Undefined ELSE Renamed(c.this)
    <3>1. DOMAIN c = {"callee", "this", "ctor", "args"}
      BY <2>2 DEF Call
    <3> HIDE DEF c, r
    <3> QED
      BY <2>1, <3>1 DEF RenamedCall
  <2>4. r.this \in Loadable \cup {NoThis} /\ r.args \in Seq(Loadable)
    BY <2>1 DEF LoadedCall
  <2>5. r.callee \in DOMAIN ModuleOf
    BY <1>1, <2>1, <2>3, ProgramsAssumption
  <2>6. Undefined \in Usable
    BY TestCasesAssumption DEF Usable, Loadable, IsArray
  <2>7. r.this \in Usable \cup {NoThis}
    <3> HIDE DEF c, r, Usable
    <3> QED
      BY <1>2, <1>10, <2>3, <2>4, <2>6, RenamedUsable
  <2>8. r.args \in Seq(Usable)
    BY <1>5, <2>3, <2>4
  <2> QED
    BY <2>5, <2>7, <2>8
<1> QED
  BY <1>3, <1>4, <1>6, <1>7 DEF LoadedWhole

-----------------------------------------------------------------------------
LEMMA CallWanted ==
  ASSUME LoadedWhole, NEW i \in DOMAIN loaded.calls
  PROVE  /\ Wanted(loaded.calls[i]) \in Seq(Usable) /\ Len(Wanted(loaded.calls[i])) \in Nat
         /\ loaded.calls[i].args \in Seq(Usable)
         /\ loaded.calls[i] \in LoadedCall
<1> DEFINE c == loaded.calls[i]
<1>1. c.args \in Seq(Usable) /\ c.this \in Usable \cup {NoThis} /\ c \in LoadedCall
  BY DEF LoadedWhole
<1> HIDE DEF c, Usable
<1>2. (IF c.this = NoThis THEN <<>> ELSE <<c.this>>) \in Seq(Usable)
  BY <1>1
<1>3. Wanted(c) \in Seq(Usable)
  BY <1>1, <1>2 DEF Wanted
<1>4. Len(Wanted(c)) \in Nat
  BY <1>3
<1> QED
  BY <1>1, <1>3, <1>4 DEF c

LEMMA HeadOfWork ==
  ASSUME NEW m, NEW open, WorkLeft(m, open), LoadedWhole, Returned, toSynthesise # <<>>
  PROVE  /\ Head(toSynthesise) = toSynthesise[1] /\ Head(toSynthesise).is # "main"
         /\ Head(toSynthesise).is \in {"value", "variable"} => m >= 1 /\ open
         /\ Head(toSynthesise).is \in {"call", "statement"} => 
              /\ m = 0 /\ Len(js.calls) + 1 \in DOMAIN loaded.calls
              /\ Head(toSynthesise).n = Len(js.calls) + 1
         /\ Head(toSynthesise).is = "statement" => open
         /\ Head(toSynthesise).is = "call" => ~open
<1>1. /\ Head(toSynthesise) = toSynthesise[1] /\ Len(toSynthesise) \in Nat \ {0}
      /\ toSynthesise[1] \in Works /\ m \in Nat /\ open \in BOOLEAN
  BY DEF WorkLeft
<1>2. CASE m >= 1
  <2>1. 1 \in 1 .. m
    BY <1>1, <1>2
  <2>2. InHand(variableOf, toSynthesise[1])
    BY <2>1 DEF WorkLeft
  <2> QED
    BY <1>1, <1>2, <2>2 DEF WorkLeft, InHand
<1>3. CASE m = 0
  <2>1. 1 \in 1 .. Len(loaded.calls) - Len(js.calls) /\ m + 1 = 1
    BY <1>1, <1>3 DEF WorkLeft
  <2>2. toSynthesise[1] = Left(open, Len(js.calls), 1)
    BY <2>1 DEF WorkLeft
  <2>3. loaded.calls \in Seq(LoadedCall)
    BY DEF LoadedWhole
  <2>4. Len(js.calls) + 1 \in DOMAIN loaded.calls
    <3>1. DOMAIN loaded.calls = 1 .. Len(loaded.calls) /\ Len(loaded.calls) \in Nat
      BY <2>3
    <3>2. Len(js.calls) \in Nat
      BY DEF Returned
    <3> QED
      BY <2>1, <3>1, <3>2
  <2>5. CASE open
    <3>1. toSynthesise[1].is = "statement" /\ toSynthesise[1].n = Len(js.calls) + 1
      BY <2>2, <2>5 DEF Left, Item
    <3> QED
      BY <1>1, <1>3, <2>4, <2>5, <3>1
  <2>6. CASE ~open
    <3>1. toSynthesise[1].is = "call" /\ toSynthesise[1].n = Len(js.calls) + 1
      BY <2>2, <2>6 DEF Left, Item
    <3> QED
      BY <1>1, <1>3, <2>4, <2>6, <3>1
  <2> QED
    BY <2>5, <2>6
<1> QED
  BY <1>1, <1>2, <1>3

-----------------------------------------------------------------------------
(* The first value gets its variable x; l elements of a new array may come before
   it. *)
ValueStep(m, l, x) ==
  /\ m \in Nat \ {0} /\ l \in Nat /\ toSynthesise[1].is = "value"
  /\ toSynthesise' \in Seq(Works) /\ Len(toSynthesise') = l + Len(toSynthesise)
  /\ \A k \in 1 .. l : toSynthesise'[k].is = "value" /\ toSynthesise'[k].n \in Usable
                       /\ toSynthesise'[k].to = varId
  /\ l > 0 => Receives(variableOf', varId)
  /\ toSynthesise'[l + 1].is = "variable" /\ toSynthesise'[l + 1].n = x
  /\ toSynthesise'[l + 1].to = toSynthesise[1].to
  /\ Stands(js'.env, variableOf', x, toSynthesise[1].n)
  /\ \A k \in 2 .. Len(toSynthesise) : toSynthesise'[l + k] = toSynthesise[k]
  /\ Grows(js.env, variableOf, js'.env, variableOf')
  /\ \A y \in DOMAIN js.heap : y \in DOMAIN js'.heap /\ (y # varId => js'.heap[y] = js.heap[y])
  /\ js'.calls = js.calls
  /\ UNCHANGED <<loaded, operands, retVariables>>

LEMMA ValueCarried ==
  ASSUME NEW m, NEW l, NEW x, ValueStep(m, l, x), NEW v,
         Carries(js.env, variableOf, toSynthesise[1], v)
  PROVE  Carries(js'.env, variableOf', toSynthesise'[l + 1], v)
<1>1. toSynthesise[1].is = "value" /\ v = toSynthesise[1].n
  BY DEF Carries, ValueStep
<1> QED
  BY <1>1 DEF Carries, ValueStep

LEMMA StillReceives ==
  ASSUME NEW env, NEW vo, NEW env2, NEW vo2, Grows(env, vo, env2, vo2), NEW x, Receives(vo, x)
  PROVE  Receives(vo2, x)
  BY DEF Receives, Grows

LEMMA ReturnedStays ==
  ASSUME Returned, Grows(js.env, variableOf, js'.env, variableOf'), js'.calls = js.calls,
         UNCHANGED <<loaded, retVariables>>
  PROVE  Returned'
<1>1. ASSUME NEW c, MadeCall(variableOf, c)
      PROVE  MadeCall(variableOf', c) /\ NamedCall(variableOf', c) = NamedCall(variableOf, c)
  <2>1. MadeCall(variableOf', c)
    BY <1>1, StillWorth DEF MadeCall
  <2>2. [k \in DOMAIN c.args |-> Worth(variableOf', c.args[k])]
          = [k \in DOMAIN c.args |-> Worth(variableOf, c.args[k])]
    BY <1>1, StillWorth DEF MadeCall
  <2>3. c.this # NoThis => Worth(variableOf', c.this) = Worth(variableOf, c.this)
    BY <1>1, StillWorth DEF MadeCall
  <2>4. NamedCall(variableOf', c) = NamedCall(variableOf, c)
    BY <2>2, <2>3 DEF NamedCall
  <2> QED
    BY <2>1, <2>4
<1>2. ASSUME NEW i \in 1 .. Len(js.calls)
      PROVE  /\ Stands(js'.env, variableOf', retVariables[i], ResultOf(i))
             /\ MadeCall(variableOf', loaded.calls[i])
             /\ js.calls[i].named = NamedCall(variableOf', loaded.calls[i])
  BY <1>1, <1>2, StillStands DEF Returned
<1> QED
  BY <1>2 DEF Returned

LEMMA WorkLength ==
  ASSUME NEW m, NEW open, WorkLeft(m, open), Returned, LoadedWhole
  PROVE  Len(toSynthesise) >= m /\ Len(toSynthesise) \in Nat
<1>1. /\ toSynthesise \in Seq(Works) /\ m \in Nat
      /\ Len(toSynthesise) = m + (Len(loaded.calls) - Len(js.calls))
  BY DEF WorkLeft
<1>2. Len(js.calls) \in Nat /\ Len(loaded.calls) \in Nat /\ Len(js.calls) <= Len(loaded.calls)
  BY DEF Returned, LoadedWhole
<1>3. PICK a, b \in Nat : a = Len(loaded.calls) /\ b = Len(js.calls)
  BY <1>2
<1>4. PICK c : c = Len(toSynthesise)
  OBVIOUS
<1> QED
  BY <1>1, <1>2, <1>3, <1>4

LEMMA WorkGoesOn ==
  ASSUME NEW m, NEW open, WorkLeft(m, open), Returned, LoadedWhole, NEW l, NEW x, ValueStep(m, l, x)
  PROVE  WorkLeft(l + m, open)'
<1> DEFINE s == toSynthesise
<1> DEFINE z == toSynthesise'
<1> DEFINE i == Len(js.calls)
<1> DEFINE e == Len(loaded.calls)
<1>1. /\ m \in Nat \ {0} /\ l \in Nat /\ z \in Seq(Works) /\ Len(z) = l + Len(s)
      /\ \A k \in 2 .. Len(s) : z[l + k] = s[k]
      /\ loaded' = loaded /\ js'.calls = js.calls
  BY DEF ValueStep
<1>2. /\ open \in BOOLEAN /\ open /\ i < e /\ Len(s) = m + (e - i) 
      /\ \A k \in 1 .. m : InHand(variableOf, s[k])
      /\ \A k \in 1 .. e - i : s[m + k] = Left(open, i, k)
  <2>1. m > 0
    BY <1>1
  <2> QED
    BY <2>1 DEF WorkLeft
<1>3. i \in Nat /\ e \in Nat
  <2>1. i \in Nat
    BY DEF Returned
  <2>2. e \in Nat
    BY DEF LoadedWhole
  <2> QED
    BY <2>1, <2>2
<1>4. \A item : InHand(variableOf, item) => InHand(variableOf', item)
  BY StillReceives DEF InHand, ValueStep
<1>5. ASSUME NEW k \in 1 .. l + m PROVE InHand(variableOf', z[k])
  <2>1. CASE k <= l
    BY <1>1, <2>1 DEF ValueStep, InHand
  <2>2. CASE k = l + 1
    <3>1. 1 \in 1 .. m
      BY <1>1
    <3>2. InHand(variableOf, s[1])
      BY <1>2, <3>1
    <3>3. Receives(variableOf', s[1].to)
      BY <1>4, <3>2 DEF InHand
    <3> QED
      BY <2>2, <3>3 DEF InHand, ValueStep
  <2>3. CASE k > l + 1
    <3>1. PICK q \in 2 .. m : k = l + q
      <4>1. k - l \in 2 .. m /\ k = l + (k - l)
        BY <1>1, <2>3
      <4> QED
        BY <4>1
    <3>2. q \in 2 .. Len(s)
      <4>1. Len(s) >= m /\ Len(s) \in Nat
        BY WorkLength
      <4>2. PICK c \in Nat : c = Len(s)
        BY <4>1
      <4> QED
        BY <1>1, <3>1, <4>1, <4>2
    <3>3. z[k] = s[q] /\ q \in 1 .. m
      BY <1>1, <3>1, <3>2
    <3> QED
      BY <1>2, <1>4, <3>3
  <2> QED
    BY <1>1, <2>1, <2>2, <2>3
<1>6. ASSUME NEW k \in 1 .. e - i PROVE z[(l + m) + k] = Left(open, i, k)
  <2>1. PICK q \in 2 .. Len(s) : q = m + k /\ (l + m) + k = l + q
    <3>1. Len(s) = m + (e - i) /\ m \in Nat \ {0} /\ l \in Nat /\ i \in Nat /\ e \in Nat
      BY <1>1, <1>2, <1>3
    <3> HIDE DEF s, i, e
    <3>2. m + k \in 2 .. Len(s) /\ (l + m) + k = l + (m + k)
      BY <3>1
    <3> QED
      BY <3>2
  <2>2. z[l + q] = s[q]
    BY <1>1
  <2>3. s[m + k] = Left(open, i, k)
    BY <1>2
  <2> QED
    BY <2>1, <2>2, <2>3
<1>7. /\ l + m \in Nat /\ Len(z) = (l + m) + (e - i)
  <2>1. Len(s) = m + (e - i) /\ Len(z) = l + Len(s) /\ m \in Nat \ {0} /\ l \in Nat /\ i \in Nat /\ e \in Nat
    BY <1>1, <1>2, <1>3
  <2> HIDE DEF s, i, e, z
  <2> QED
    BY <2>1
<1>8. Usable' = Usable
  BY <1>1 DEF Usable
<1>9. \A k \in 1 .. l + m : InHand(variableOf, toSynthesise[k])'
  BY <1>1, <1>5, <1>8 DEF InHand, Receives
<1> QED
  BY <1>1, <1>2, <1>6, <1>7, <1>9 DEF WorkLeft

LEMMA PassingGoesOn ==
  ASSUME NEW m, NEW open, WorkLeft(m, open), Returned, LoadedWhole, NEW l, NEW x, ValueStep(m, l, x),
         varId \in Nat, Passing(m)
  PROVE  Passing(l + m)'
<1> DEFINE all == Wanted(loaded.calls[Len(js.calls) + 1])
<1> DEFINE s == toSynthesise
<1> DEFINE z == toSynthesise'
<1>1. /\ m \in Nat \ {0} /\ l \in Nat /\ z[l + 1].to = s[1].to
      /\ loaded' = loaded /\ js'.calls = js.calls /\ operands' = operands
      /\ Grows(js.env, variableOf, js'.env, variableOf')
  BY DEF ValueStep
<1>2. Len(js.calls) \in Nat /\ Len(loaded.calls) \in Nat /\ DOMAIN loaded.calls = 1 .. Len(loaded.calls)
  BY DEF Returned, LoadedWhole
<1>3. Len(js.calls) + 1 \in DOMAIN loaded.calls /\ Len(s) >= m
  BY <1>1, <1>2 DEF WorkLeft
<1>4. Len(all) \in Nat
  BY <1>3, CallWanted
<1> HIDE DEF all
<1>5. /\ operands \in Seq(Nat) /\ Due(js.env, variableOf, s, m, Operand, Len(operands), all)
      /\ \A k \in 1 .. Len(operands) : Stands(js.env, variableOf, operands[k], all[k])
  BY DEF Passing, Passed, all
<1>6. \A k \in 1 .. l : z[k].to # Operand
  BY ProgramsAssumption DEF ValueStep, Operand
<1>7. \A v : Carries(js.env, variableOf, s[1], v) => Carries(js'.env, variableOf', z[l + 1], v)
  BY ValueCarried
<1>8. \A k \in 2 .. m : z[l + k] = s[k]
  <2> TAKE k \in 2 .. m
  <2>1. k \in 2 .. Len(s)
    BY <1>1, <1>2, <1>3 DEF WorkLeft
  <2> QED
    BY <2>1 DEF ValueStep
<1>9. Due(js'.env, variableOf', z, l + m, Operand, Len(operands), all)
  <2>1. PICK env, vo, env2, vo2 : /\ env = js.env /\ vo = variableOf
                                  /\ env2 = js'.env /\ vo2 = variableOf'
    OBVIOUS
  <2>2. PICK done : done = Len(operands)
    OBVIOUS
  <2>3. Grows(env, vo, env2, vo2) /\ Due(env, vo, s, m, Operand, done, all)
    BY <1>1, <1>5, <2>1, <2>2
  <2>4. \A v : Carries(env, vo, s[1], v) => Carries(env2, vo2, z[l + 1], v)
    BY <1>7, <2>1
  <2> HIDE DEF s, z
  <2>5. m \in Nat \ {0} /\ l \in Nat /\ z[l + 1].to = s[1].to
    BY <1>1
  <2>6. Due(env2, vo2, z, l + m, Operand, done, all)
    BY <1>4, <1>6, <1>8, <2>3, <2>4, <2>5, DueReplaced
  <2> QED
    BY <2>1, <2>2, <2>6
<1>10. \A k \in 1 .. Len(operands) : Stands(js'.env, variableOf', operands[k], all[k])
  BY <1>1, <1>5, StillStands
<1>11. Passed(js'.env, variableOf', operands, z, l + m, all)
  BY <1>5, <1>9, <1>10 DEF Passed
<1> QED
  BY <1>1, <1>11 DEF Passing, all, Operand

LEMMA FillingGoesOn ==
  ASSUME NEW m, NEW open, WorkLeft(m, open), Returned, LoadedWhole, Engine, NEW l, NEW x, ValueStep(m, l, x),
         Filling(m), NEW n \in DOMAIN loaded.heap, ArrayAt(n) \in DOMAIN variableOf
  PROVE  Filled(js'.env, variableOf', js'.heap, toSynthesise', l + m, variableOf'[ArrayAt(n)],
                loaded.heap[n])
<1> DEFINE all == loaded.heap[n]
<1> DEFINE s == toSynthesise
<1> DEFINE z == toSynthesise'
<1> DEFINE y == variableOf[ArrayAt(n)]
<1>1. /\ m \in Nat \ {0} /\ l \in Nat /\ z[l + 1].to = s[1].to
      /\ loaded' = loaded /\ js'.calls = js.calls
      /\ Grows(js.env, variableOf, js'.env, variableOf')
  BY DEF ValueStep
<1>2. Len(js.calls) \in Nat /\ Len(loaded.calls) \in Nat /\ DOMAIN loaded.calls = 1 .. Len(loaded.calls)
  BY DEF Returned, LoadedWhole
<1>12. Len(s) >= m /\ Len(s) \in Nat
  BY WorkLength
<1>3. variableOf'[ArrayAt(n)] = y /\ y # varId
  <2>1. Stands(js.env, variableOf, y, ArrayAt(n))
    BY DEF Engine
  <2>2. y \in Nat /\ y \in DOMAIN js.env
    BY <2>1 DEF Stands
  <2>3. y # varId
    BY <2>2 DEF Engine, Declares
  <2> QED
    BY <1>1, <2>3 DEF Grows
<1>4. all \in Seq(Usable) /\ Len(all) \in Nat
  <2>1. all \in Seq(Usable)
    BY DEF LoadedWhole
  <2> QED
    BY <2>1
<1> HIDE DEF all, y
<1>5. /\ y \in DOMAIN js.heap /\ js.heap[y] \in Seq(Loadable)
      /\ Due(js.env, variableOf, s, m, y, Len(js.heap[y]), all)
      /\ \A k \in 1 .. Len(js.heap[y]) :
           Made(variableOf, all[k]) /\ js.heap[y][k] = Worth(variableOf, all[k])
  BY DEF Filling, Filled, all, y
<1>6. \A k \in 1 .. l : z[k].to # y
  BY <1>3 DEF ValueStep
<1>7. \A v : Carries(js.env, variableOf, s[1], v) => Carries(js'.env, variableOf', z[l + 1], v)
  BY ValueCarried
<1>8. \A k \in 2 .. m : z[l + k] = s[k]
  <2> TAKE k \in 2 .. m
  <2>1. k \in 2 .. Len(s)
    BY <1>1, <1>12
  <2> QED
    BY <2>1 DEF ValueStep
<1>9. Due(js'.env, variableOf', z, l + m, y, Len(js.heap[y]), all)
  <2>1. PICK env, vo, env2, vo2 : /\ env = js.env /\ vo = variableOf
                                  /\ env2 = js'.env /\ vo2 = variableOf'
    OBVIOUS
  <2>2. PICK done : done = Len(js.heap[y])
    OBVIOUS
  <2>3. Grows(env, vo, env2, vo2) /\ Due(env, vo, s, m, y, done, all)
    BY <1>1, <1>5, <2>1, <2>2
  <2>4. \A v : Carries(env, vo, s[1], v) => Carries(env2, vo2, z[l + 1], v)
    BY <1>7, <2>1
  <2> HIDE DEF s, z
  <2>5. m \in Nat \ {0} /\ l \in Nat /\ z[l + 1].to = s[1].to
    BY <1>1
  <2>6. Due(env2, vo2, z, l + m, y, done, all)
    BY <1>4, <1>6, <1>8, <2>3, <2>4, <2>5, DueReplaced
  <2> QED
    BY <2>1, <2>2, <2>6
<1>10. y \in DOMAIN js'.heap /\ js'.heap[y] = js.heap[y]
  BY <1>3, <1>5 DEF ValueStep
<1>11. \A k \in 1 .. Len(js.heap[y]) :
         Made(variableOf', all[k]) /\ js.heap[y][k] = Worth(variableOf', all[k])
  BY <1>1, <1>5, StillWorth
<1> QED
  BY <1>3, <1>5, <1>9, <1>10, <1>11 DEF Filled, all

-----------------------------------------------------------------------------
LEMMA ValueResolved ==
  ASSUME AllRead, LoadedWhole, Engine, Returned, NEW m, NEW open, BuildingAt(m, open),
         NEW l, NEW x, ValueStep(m, l, x), Engine', UNCHANGED <<tc, writer, unread, reader>>,
         \A n \in DOMAIN loaded.heap : ArrayAt(n) \in DOMAIN variableOf' =>
           \/ ArrayAt(n) \in DOMAIN variableOf
           \/ Filled(js'.env, variableOf', js'.heap, toSynthesise', l + m, variableOf'[ArrayAt(n)],
                     loaded.heap[n])
  PROVE  Building'
<1>1. /\ WorkLeft(m, open) /\ Filling(m) /\ (open => Passing(m))
      /\ loaded' = loaded /\ varId \in Nat /\ open
  BY DEF BuildingAt, reader, Engine, ValueStep, WorkLeft
<1>2. AllRead'
  BY DEF AllRead, AllWritten, writer, reader
<1>3. LoadedWhole'
  BY <1>1 DEF LoadedWhole, Usable
<1>4. Returned'
  BY ReturnedStays DEF ValueStep
<1>5. WorkLeft(l + m, open)'
  BY <1>1, WorkGoesOn
<1>6. Passing(l + m)'
  BY <1>1, PassingGoesOn
<1>7. Filling(l + m)'
  BY <1>1, FillingGoesOn DEF Filling
<1>8. BuildingAt(l + m, open)'
  BY <1>5, <1>6, <1>7 DEF BuildingAt
<1> QED
  BY <1>2, <1>3, <1>4, <1>8 DEF Building

(* New items and another come for the first. *)
InPlaceOfFirst(s, new, item, z) ==
  /\ z \in Seq(Works) /\ Len(z) = Len(new) + Len(s)
  /\ \A k \in 1 .. Len(new) : z[k] = new[k]
  /\ z[Len(new) + 1] = item
  /\ \A k \in 2 .. Len(s) : z[Len(new) + k] = s[k]

LEMMA ItemReplaced ==
  ASSUME NEW s \in Seq(Works), s # <<>>, NEW new \in Seq(Works), NEW item \in Works, NEW z,
         z = new \o <<item>> \o Tail(s)
  PROVE  InPlaceOfFirst(s, new, item, z)
<1> HIDE DEF Works
<1>1. Tail(s) \in Seq(Works) /\ Len(Tail(s)) = Len(s) - 1 /\ \A k \in 2 .. Len(s) : Tail(s)[k - 1] = s[k]
  OBVIOUS
<1>2. <<item>> \in Seq(Works) /\ Len(<<item>>) = 1 /\ <<item>>[1] = item
  OBVIOUS
<1> DEFINE u == new \o <<item>>
<1>3. /\ u \in Seq(Works) /\ Len(u) = Len(new) + 1 /\ Len(new) \in Nat
      /\ \A k \in 1 .. Len(new) : u[k] = new[k]
      /\ u[Len(new) + 1] = item
  BY <1>2
<1>4. /\ u \o Tail(s) \in Seq(Works) /\ Len(u \o Tail(s)) = Len(u) + Len(Tail(s))
      /\ \A k \in 1 .. Len(u) : (u \o Tail(s))[k] = u[k]
      /\ \A k \in 1 .. Len(Tail(s)) : (u \o Tail(s))[Len(u) + k] = Tail(s)[k]
  BY <1>1, <1>3, Joined
<1>5. z = u \o Tail(s)
  OBVIOUS
<1> HIDE DEF u
<1>6. Len(s) \in Nat \ {0}
  OBVIOUS
<1>7. \A k \in 1 .. Len(new) + 1 : z[k] = u[k]
  BY <1>3, <1>4, <1>5
<1>8. ASSUME NEW k \in 2 .. Len(s) PROVE z[Len(new) + k] = s[k]
  <2>1. k - 1 \in 1 .. Len(Tail(s)) /\ Len(u) + (k - 1) = Len(new) + k
    BY <1>1, <1>3, <1>6
  <2>2. z[Len(u) + (k - 1)] = Tail(s)[k - 1]
    BY <1>4, <1>5, <2>1
  <2> QED
    BY <1>1, <2>1, <2>2
<1>9. Len(z) = Len(new) + Len(s)
  BY <1>1, <1>3, <1>4, <1>5, <1>6
<1> QED
  BY <1>3, <1>4, <1>5, <1>7, <1>8, <1>9 DEF InPlaceOfFirst

LEMMA ItemExchanged ==
  ASSUME NEW s \in Seq(Works), s # <<>>, NEW item \in Works, NEW z, z = <<item>> \o Tail(s)
  PROVE  /\ z \in Seq(Works) /\ Len(z) = Len(s) /\ z[1] = item
         /\ \A k \in 2 .. Len(s) : z[k] = s[k]
<1> HIDE DEF Works
<1>1. Tail(s) \in Seq(Works) /\ Len(Tail(s)) = Len(s) - 1 /\ \A k \in 2 .. Len(s) : Tail(s)[k - 1] = s[k]
  OBVIOUS
<1>2. <<item>> \in Seq(Works) /\ Len(<<item>>) = 1 /\ <<item>>[1] = item
  OBVIOUS
<1> QED
  BY <1>1, <1>2

(* Nothing new is made for a value that has its variable. *)
LEMMA VariableFound ==
  ASSUME Building, toSynthesise # <<>>, Head(toSynthesise).is = "value", NEW x,
         toSynthesise' = <<VariableTo(x, Head(toSynthesise).to)>> \o Tail(toSynthesise),
         Stands(js'.env, variableOf', x, Head(toSynthesise).n), Engine', js'.heap = js.heap, js'.calls = js.calls,
         Grows(js.env, variableOf, js'.env, variableOf'),
         \A v \in DOMAIN variableOf' : v \in DOMAIN variableOf \/ v \in Scalars,
         UNCHANGED <<tc, writer, unread, reader, operands, retVariables>>
  PROVE  Building'
<1>1. PICK m, open : BuildingAt(m, open)
  BY DEF Building
<1>2. AllRead /\ LoadedWhole /\ Engine /\ Returned
  BY DEF Building
<1>3. WorkLeft(m, open) /\ m >= 1 /\ Head(toSynthesise) = toSynthesise[1] /\ toSynthesise \in Seq(Works)
  BY <1>1, <1>2, HeadOfWork DEF BuildingAt, WorkLeft
<1> DEFINE s == toSynthesise
<1> DEFINE item == VariableTo(x, s[1].to)
<1>4. item \in Works /\ x \in Nat
  <2>1. 1 \in DOMAIN s /\ s[1] \in Works /\ s[1].is = "value"
    BY <1>3
  <2>2. s[1].to \in Nat \cup {Operand}
    BY <2>1 DEF Works
  <2>3. x \in Nat
    BY DEF Stands
  <2> QED
    BY <2>2, <2>3 DEF Works, VariableTo
<1>5. /\ s' \in Seq(Works) /\ Len(s') = Len(s) /\ s'[1] = item
      /\ \A k \in 2 .. Len(s) : s'[k] = s[k]
  <2>1. s' = <<item>> \o Tail(s)
    BY <1>3
  <2> HIDE DEF item
  <2> QED
    BY <1>3, <1>4, <2>1, ItemExchanged
<1>6. ValueStep(m, 0, x)
  <2>1. m \in Nat \ {0} /\ loaded' = loaded /\ Len(s) \in Nat
    <3>1. m \in Nat /\ m >= 1
      BY <1>3 DEF WorkLeft
    <3>2. Len(s) \in Nat /\ loaded' = loaded
      BY <1>3 DEF reader
    <3> QED
      BY <3>1, <3>2
  <2>2. s'[0 + 1].is = "variable" /\ s'[0 + 1].n = x /\ s'[0 + 1].to = s[1].to
    BY <1>5 DEF VariableTo
  <2>3. \A k \in 2 .. Len(s) : s'[0 + k] = s[k]
    BY <1>5
  <2>4. Len(s') = 0 + Len(s)
    BY <1>5, <2>1
  <2>5. \A k \in 1 .. 0 : FALSE
    OBVIOUS
  <2> HIDE DEF item
  <2> QED
    BY <1>3, <1>5, <2>1, <2>2, <2>3, <2>4, <2>5 DEF ValueStep
<1>7. \A n \in DOMAIN loaded.heap : ArrayAt(n) \in DOMAIN variableOf' => ArrayAt(n) \in DOMAIN variableOf
  <2>1. \A n \in Nat : ArrayAt(n) \notin Scalars
    BY ProgramsAssumption DEF ArrayAt, Item
  <2> QED
    BY <1>2, <2>1 DEF LoadedWhole
<1> HIDE DEF item, s
<1>8. UNCHANGED <<tc, writer, unread, reader>>
  OBVIOUS
<1> QED
  BY <1>1, <1>2, <1>6, <1>7, <1>8, ValueResolved

LEMMA EngineStays ==
  Engine /\ UNCHANGED <<js, builder, loaded>> => Engine'
  BY DEF Engine, Usable, builder, Declares

LEMMA KnownSynthesised == Building /\ SynthesiseKnown => Building'
<1> SUFFICES ASSUME Building, SynthesiseKnown PROVE Building'
  OBVIOUS
<1> DEFINE v == Head(toSynthesise).n
<1>1. /\ toSynthesise # <<>> /\ Head(toSynthesise).is = "value" /\ v \in DOMAIN variableOf
      /\ toSynthesise' = <<VariableTo(variableOf[v], Head(toSynthesise).to)>> \o Tail(toSynthesise)
      /\ UNCHANGED <<tc, writer, unread, reader, operands, builder, js>>
  BY DEF SynthesiseKnown, Synthesises, Replace
<1>2. Engine' /\ Stands(js'.env, variableOf', variableOf[v], v)
  <2>1. Engine
    BY DEF Building
  <2>2. Stands(js.env, variableOf, variableOf[v], v)
    BY <1>1, <2>1 DEF Engine
  <2> QED
    BY <1>1, <2>1, <2>2, EngineStays DEF builder, reader
<1>3. Grows(js.env, variableOf, js'.env, variableOf') /\ variableOf' = variableOf /\ retVariables' = retVariables
  BY <1>1 DEF Grows, builder
<1> HIDE DEF v
<1> QED
  BY <1>1, <1>2, <1>3, VariableFound DEF v

LEMMA PlaceholderSynthesised == Building /\ SynthesisePlaceholder => Building'
<1> SUFFICES ASSUME Building, SynthesisePlaceholder PROVE Building'
  OBVIOUS
<1>1. PICK i \in DOMAIN retVariables :
        /\ Head(toSynthesise).n = ResultOf(i)
        /\ toSynthesise' = <<VariableTo(retVariables[i], Head(toSynthesise).to)>> \o Tail(toSynthesise)
  BY DEF SynthesisePlaceholder, Replace
<1>2. /\ toSynthesise # <<>> /\ Head(toSynthesise).is = "value"
      /\ UNCHANGED <<tc, writer, unread, reader, operands, builder, js>>
  BY DEF SynthesisePlaceholder, Synthesises
<1>3. Engine' /\ Stands(js'.env, variableOf', retVariables[i], ResultOf(i))
  <2>1. Engine /\ Returned
    BY DEF Building
  <2>2. i \in 1 .. Len(js.calls)
    BY <2>1 DEF Returned
  <2>3. Stands(js.env, variableOf, retVariables[i], ResultOf(i))
    BY <2>1, <2>2 DEF Returned
  <2> QED
    BY <1>2, <2>1, <2>3, EngineStays DEF builder, reader
<1>4. Grows(js.env, variableOf, js'.env, variableOf') /\ variableOf' = variableOf /\ retVariables' = retVariables
  BY <1>2 DEF Grows, builder
<1> QED
  BY <1>1, <1>2, <1>3, <1>4, VariableFound

(* A new variable for a value. *)
LEMMA VariableMade ==
  ASSUME Engine, NEW v, v \in Usable, v \notin DOMAIN variableOf, NewVariable(v), loaded' = loaded,
         Declares(js', imported', varId'), imported' \cap Nat = {},
         \A x \in DOMAIN js.env : x \in DOMAIN js'.env /\ js'.env[x] = js.env[x],
         varId \in DOMAIN js'.env, js'.env[varId] = IF IsArray(v) THEN ArrayAt(varId) ELSE v
  PROVE  /\ Engine' /\ Grows(js.env, variableOf, js'.env, variableOf')
         /\ Stands(js'.env, variableOf', varId, v)
<1>1. variableOf' = Put(variableOf, v, varId) /\ varId' = varId + 1 /\ varId \in Nat
  BY DEF NewVariable, Engine
<1>2. /\ DOMAIN variableOf' = DOMAIN variableOf \cup {v} /\ variableOf'[v] = varId
      /\ \A u \in DOMAIN variableOf : variableOf'[u] = variableOf[u]
  BY <1>1 DEF Put
<1>3. Grows(js.env, variableOf, js'.env, variableOf')
  BY <1>2 DEF Grows
<1>4. Stands(js'.env, variableOf', varId, v)
  BY <1>1, <1>2 DEF Stands, Made, Worth
<1>5. \A u \in DOMAIN variableOf : variableOf[u] # varId
  <2> TAKE u \in DOMAIN variableOf
  <2>1. variableOf[u] \in Nat /\ variableOf[u] \in DOMAIN js.env
    BY DEF Engine, Stands
  <2> QED
    BY <2>1 DEF Engine, Declares
<1>6. ASSUME NEW u \in DOMAIN variableOf'
      PROVE  u \in Usable /\ Stands(js'.env, variableOf', variableOf'[u], u)
  <2>1. CASE u = v
    BY <1>2, <1>4, <2>1
  <2>2. CASE u # v
    <3>1. u \in DOMAIN variableOf /\ variableOf'[u] = variableOf[u]
      BY <1>2, <2>2
    <3>2. u \in Usable /\ Stands(js.env, variableOf, variableOf[u], u)
      BY <3>1 DEF Engine
    <3> QED
      BY <1>3, <3>1, <3>2, StillStands
  <2> QED
    BY <2>1, <2>2
<1>7. \A u, w \in DOMAIN variableOf' : variableOf'[u] = variableOf'[w] => u = w
  <2>1. \A u, w \in DOMAIN variableOf : variableOf[u] = variableOf[w] => u = w
    BY DEF Engine
  <2> QED
    BY <1>2, <1>5, <2>1
<1>8. Usable' = Usable
  BY DEF Usable
<1>9. Engine'
  BY <1>1, <1>6, <1>7, <1>8 DEF Engine
<1> QED
  BY <1>3, <1>4, <1>9

LEMMA ScalarSynthesised == Building /\ SynthesiseScalar => Building'
<1> SUFFICES ASSUME Building, SynthesiseScalar PROVE Building'
  OBVIOUS
<1> DEFINE v == Head(toSynthesise).n
<1> DEFINE mods == ModuleOf[v]
<1> DEFINE r == Require(js, Unimported(v))
<1>1. /\ toSynthesise # <<>> /\ Head(toSynthesise).is = "value"
      /\ v \in Scalars /\ v \notin DOMAIN variableOf /\ NewVariable(v)
      /\ imported' = imported \cup mods
      /\ js' = Declare(r, varId, v, mods)
      /\ toSynthesise' = <<VariableTo(varId, Head(toSynthesise).to)>> \o Tail(toSynthesise)
      /\ UNCHANGED <<tc, writer, unread, reader, operands, retVariables>>
  BY DEF SynthesiseScalar, Synthesises, Replace
<1>2. Engine /\ Declares(js, imported, varId) /\ varId \in Nat /\ imported \cap Nat = {}
  BY DEF Building, Engine
<1>3. \A a, b \in mods : a = b /\ a \notin Nat
  BY <1>1, ProgramsAssumption
<1>4. v \in Usable /\ ~IsArray(v)
  BY <1>1 DEF Usable, Loadable, IsArray
<1>5. loaded' = loaded
  BY <1>1 DEF reader
<1> DEFINE imp == imported \cup mods
<1>6. Declares(r, imp, varId) /\ Extends(js, r)
  BY <1>2, <1>3, Required DEF Unimported
<1>7. imp \cap Nat = {} /\ mods \subseteq imp \cup 0 .. (varId - 1)
  BY <1>2, <1>3
<1> HIDE DEF mods, r, v, imp
<1>8. /\ Declares(js', imp, varId + 1) /\ js'.env[varId] = v /\ Extends(r, js')
  BY <1>1, <1>2, <1>6, <1>7, DeclaredNext
<1>9. Extends(js, js')
  BY <1>6, <1>8, ExtendsOn
<1>10. varId' = varId + 1 /\ imported' = imp /\ variableOf' = Put(variableOf, v, varId)
  BY <1>1 DEF NewVariable, imp
<1>11. varId \in DOMAIN js'.env
  BY <1>2, <1>8 DEF Declares
<1>12. /\ Engine' /\ Grows(js.env, variableOf, js'.env, variableOf')
       /\ Stands(js'.env, variableOf', varId, v)
  <2>1. \A x \in DOMAIN js.env : x \in DOMAIN js'.env /\ js'.env[x] = js.env[x]
    BY <1>9 DEF Extends
  <2>2. js'.env[varId] = IF IsArray(v) THEN ArrayAt(varId) ELSE v
    BY <1>4, <1>8
  <2>3. Declares(js', imported', varId') /\ imported' \cap Nat = {}
    BY <1>7, <1>8, <1>10
  <2> QED
    BY <1>1, <1>2, <1>4, <1>5, <1>11, <2>1, <2>2, <2>3, VariableMade
<1>13. \A u \in DOMAIN variableOf' : u \in DOMAIN variableOf \/ u \in Scalars
  BY <1>1, <1>10 DEF Put
<1>14. js'.heap = js.heap /\ js'.calls = js.calls
  BY <1>9 DEF Extends
<1> QED
  BY <1>1, <1>12, <1>13, <1>14, VariableFound DEF v

-----------------------------------------------------------------------------
LEMMA ArrayLet ==
  ASSUME Engine
  PROVE  /\ Declares(LetArray(js, varId), imported, varId + 1)
         /\ LetArray(js, varId).env[varId] = ArrayAt(varId)
         /\ \A x \in DOMAIN js.env : /\ x \in DOMAIN LetArray(js, varId).env
                                     /\ LetArray(js, varId).env[x] = js.env[x]
         /\ LetArray(js, varId).heap = Put(js.heap, varId, <<>>)
         /\ LetArray(js, varId).calls = js.calls
<1> DEFINE d == Declare(js, varId, ArrayAt(varId), {})
<1> DEFINE e == LetArray(js, varId)
<1>1. Declares(js, imported, varId) /\ varId \in Nat /\ imported \cap Nat = {}
  BY DEF Engine
<1>2. /\ Declares(d, imported, varId + 1) /\ d.env[varId] = ArrayAt(varId) /\ Extends(js, d)
  <2>1. {} \subseteq imported \cup 0 .. (varId - 1)
    OBVIOUS
  <2> QED
    BY <1>1, <2>1, DeclaredNext
<1> DEFINE h == Put(d.heap, varId, <<>>)
<1>3. e = [d EXCEPT !.heap = h]
  BY DEF LetArray
<1> HIDE DEF d, e, h
<1>4. DOMAIN d = {"env", "heap", "broken", "calls"}
  BY <1>2 DEF Declares
<1>5. /\ DOMAIN e = {"env", "heap", "broken", "calls"}
      /\ e.env = d.env /\ e.broken = d.broken /\ e.calls = d.calls /\ e.heap = h
  BY <1>3, <1>4
<1>6. Declares(e, imported, varId + 1)
  BY <1>2, <1>5 DEF Declares
<1> QED
  BY <1>2, <1>5, <1>6 DEF Extends, e, h

LEMMA ArraySynthesised == Building /\ SynthesiseArray => Building'
<1> SUFFICES ASSUME Building, SynthesiseArray PROVE Building'
  OBVIOUS
<1> DEFINE s == toSynthesise
<1> DEFINE v == Head(s).n
<1> DEFINE elements == loaded.heap[v.n]
<1> DEFINE new == [k \in DOMAIN elements |-> ValueTo(elements[k], varId)]
<1> DEFINE item == VariableTo(varId, Head(s).to)
<1>1. /\ s # <<>> /\ Head(s).is = "value"
      /\ v \notin Scalars /\ v \notin DOMAIN variableOf /\ v.is = "array" /\ NewVariable(v)
      /\ js' = LetArray(js, varId)
      /\ s' = (new \o <<item>>) \o Tail(s)
      /\ UNCHANGED <<tc, writer, unread, reader, operands, retVariables, imported>>
  BY Zenon DEF SynthesiseArray, Synthesises, Replace
<1>2. PICK m, open : BuildingAt(m, open)
  BY DEF Building
<1>3. AllRead /\ LoadedWhole /\ Engine /\ Returned
  BY DEF Building
<1>4. WorkLeft(m, open) /\ m \in Nat \ {0} /\ Head(s) = s[1] /\ s \in Seq(Works)
  <2>1. WorkLeft(m, open)
    BY Zenon, <1>2 DEF BuildingAt
  <2>2. m >= 1 /\ Head(s) = s[1]
    BY ZenonT(30), <1>1, <1>3, <2>1, HeadOfWork
  <2> QED
    BY <2>1, <2>2 DEF WorkLeft
<1>5. /\ v \in Usable /\ v = ArrayAt(v.n) /\ v.n \in DOMAIN loaded.heap /\ IsArray(v)
      /\ Head(s).to \in Nat \cup {Operand}
  <2>1. 1 \in 1 .. m /\ 1 \in DOMAIN s
    <3>1. s # <<>> /\ s \in Seq(Works) /\ m \in Nat \ {0}
      BY Zenon, <1>1, <1>4
    <3> HIDE DEF s
    <3> QED
      BY SMTT(20), <3>1
  <2>2. InHand(variableOf, s[1]) /\ s[1] \in Works
    BY SMTT(20), <1>4, <2>1 DEF WorkLeft
  <2>3. v \in Usable
    BY ZenonT(30), <1>1, <1>4, <2>2 DEF InHand
  <2>4. v.n \in DOMAIN loaded.heap /\ v \in [is : {"result", "array"}, n : Nat]
    BY ZenonT(30), <1>1, <2>3 DEF Usable, Loadable, IsArray
  <2>5. v = ArrayAt(v.n)
    BY ZenonT(30), <1>1, <2>4 DEF ArrayAt, Item
  <2>6. Head(s).to \in Nat \cup {Operand}
    BY Zenon, <1>1, <1>4, <2>2 DEF Works
  <2> QED
    BY Zenon, <1>1, <2>3, <2>4, <2>5, <2>6 DEF IsArray
<1>6. /\ elements \in Seq(Usable) /\ Len(elements) \in Nat /\ DOMAIN elements = 1 .. Len(elements)
  <2>1. elements \in Seq(Usable)
    BY Zenon, <1>3, <1>5 DEF LoadedWhole
  <2> HIDE DEF elements, Usable
  <2> QED
    BY <2>1
<1>7. varId \in Nat /\ loaded' = loaded
  BY Zenon, <1>1, <1>3 DEF Engine, reader
<1>8. /\ new \in Seq(Works) /\ Len(new) = Len(elements)
      /\ \A k \in 1 .. Len(elements) : new[k] = ValueTo(elements[k], varId)
  <2>1. \A k \in 1 .. Len(elements) : ValueTo(elements[k], varId) \in Works
    <3> TAKE k \in 1 .. Len(elements)
    <3>1. elements[k] \in Loadable
      BY <1>6 DEF Usable
    <3> HIDE DEF elements
    <3> QED
      BY <1>7, <3>1 DEF ValueTo, Works
  <2>2. new = [k \in 1 .. Len(elements) |-> ValueTo(elements[k], varId)]
    BY <1>6
  <2> HIDE DEF Works, elements, new
  <2> QED
    BY <1>6, <2>1, <2>2
<1>9. item \in Works
  BY <1>5, <1>7 DEF Works, VariableTo
<1>60. PICK l \in Nat : l = Len(elements)
  BY <1>6
<1>10. /\ s' \in Seq(Works) /\ Len(s') = l + Len(s)
       /\ \A k \in 1 .. l : s'[k] = ValueTo(elements[k], varId)
       /\ s'[l + 1] = item
       /\ \A k \in 2 .. Len(s) : s'[l + k] = s[k]
  <2> HIDE DEF new, item, s, elements
  <2>1. /\ s' \in Seq(Works) /\ Len(s') = Len(new) + Len(s)
        /\ \A k \in 1 .. Len(new) : s'[k] = new[k]
        /\ s'[Len(new) + 1] = item
        /\ \A k \in 2 .. Len(s) : s'[Len(new) + k] = s[k]
    <3>1. InPlaceOfFirst(s, new, item, s')
      BY <1>1, <1>4, <1>8, <1>9, ItemReplaced
    <3> QED
      BY <3>1 DEF InPlaceOfFirst
  <2> QED
    BY <1>8, <1>60, <2>1
<1>11. /\ Declares(js', imported, varId + 1) /\ js'.env[varId] = ArrayAt(varId)
       /\ \A x \in DOMAIN js.env : x \in DOMAIN js'.env /\ js'.env[x] = js.env[x]
       /\ js'.heap = Put(js.heap, varId, <<>>) /\ js'.calls = js.calls
  BY ZenonT(30), <1>1, <1>3, ArrayLet
<1>12. varId' = varId + 1 /\ variableOf' = Put(variableOf, v, varId)
  BY Zenon, <1>1 DEF NewVariable
<1> HIDE DEF v
<1>13. /\ Engine' /\ Grows(js.env, variableOf, js'.env, variableOf')
       /\ Stands(js'.env, variableOf', varId, v)
  <2>1. varId \in DOMAIN js'.env
    BY <1>7, <1>11 DEF Declares
  <2>2. Declares(js', imported', varId') /\ imported' \cap Nat = {}
    BY <1>1, <1>3, <1>11, <1>12 DEF Engine
  <2>3. js'.env[varId] = IF IsArray(v) THEN ArrayAt(varId) ELSE v
    BY <1>5, <1>11
  <2> QED
    BY <1>1, <1>3, <1>5, <1>7, <1>11, <2>1, <2>2, <2>3, VariableMade
<1>14. /\ DOMAIN variableOf' = DOMAIN variableOf \cup {v} /\ variableOf'[v] = varId
       /\ DOMAIN js'.heap = DOMAIN js.heap \cup {varId} /\ js'.heap[varId] = <<>>
       /\ \A y \in DOMAIN js.heap : y # varId => js'.heap[y] = js.heap[y]
  BY <1>11, <1>12 DEF Put
<1>15. Receives(variableOf', varId)
  BY Zenon, <1>5, <1>14 DEF Receives
<1>16. ValueStep(m, l, varId)
  <2>1. \A k \in 1 .. l : s'[k].is = "value" /\ s'[k].n \in Usable /\ s'[k].to = varId
    <3> TAKE k \in 1 .. l
    <3>1. elements[k] \in Usable
      BY <1>6, <1>60
    <3>2. s'[k] = ValueTo(elements[k], varId)
      BY <1>10
    <3> HIDE DEF elements
    <3> QED
      BY <3>1, <3>2 DEF ValueTo
  <2>2. s'[l + 1].is = "variable" /\ s'[l + 1].n = varId /\ s'[l + 1].to = s[1].to
    BY SMTT(20), <1>4, <1>10 DEF VariableTo
  <2>3. s[1].is = "value" /\ v = s[1].n
    BY Zenon, <1>1, <1>4 DEF v
  <2> HIDE DEF item, new, elements
  <2> QED
    BY <1>1, <1>4, <1>6, <1>7, <1>10, <1>11, <1>13, <1>14, <1>15, <2>1, <2>2, <2>3 DEF ValueStep
<1>17. ASSUME NEW n \in DOMAIN loaded.heap, ArrayAt(n) \in DOMAIN variableOf', ArrayAt(n) \notin DOMAIN variableOf
       PROVE  Filled(js'.env, variableOf', js'.heap, s', l + m, variableOf'[ArrayAt(n)], loaded.heap[n])
  <2>1. ArrayAt(n) = v /\ n = v.n
    <3>1. ArrayAt(n) = v
      BY <1>14, <1>17
    <3> QED
      BY <3>1 DEF ArrayAt, Item
  <2>2. \A k \in 1 .. m : s[k].to # varId
    <3> TAKE k \in 1 .. m
    <3>1. Receives(variableOf, s[k].to)
      BY <1>4 DEF WorkLeft, InHand
    <3>2. Operand # varId
      BY <1>7, ProgramsAssumption DEF Operand
    <3>3. \A u \in DOMAIN variableOf : variableOf[u] # varId
      BY <1>3 DEF Engine, Stands, Declares
    <3> QED
      BY <3>1, <3>2, <3>3 DEF Receives
  <2>3. \A k \in l + 1 .. l + m : s'[k].to # varId
    <3> TAKE k \in l + 1 .. l + m
    <3>1. PICK q \in 1 .. m : k = l + q
      <4>1. k - l \in 1 .. m /\ k = l + (k - l)
        BY <1>4, <1>6
      <4> QED
        BY <4>1
    <3>2. CASE q = 1
      <4>1. s'[k].to = s[1].to /\ 1 \in 1 .. m
        BY <1>4, <1>10, <3>1, <3>2 DEF VariableTo
      <4> QED
        BY <2>2, <4>1
    <3>3. CASE q # 1
      <4>1. q \in 2 .. Len(s)
        <5>1. Len(s) >= m /\ Len(s) \in Nat
          BY <1>3, <1>4, WorkLength
        <5> QED
          BY <1>4, <3>3, <5>1
      <4>2. s'[k] = s[q]
        BY <1>10, <3>1, <4>1
      <4> QED
        BY <2>2, <4>2
    <3> QED
      BY <3>2, <3>3
  <2>4. \A k \in 1 .. l : s'[k].to = varId /\ Carries(js'.env, variableOf', s'[k], elements[k])
    <3> TAKE k \in 1 .. l
    <3>1. s'[k] = ValueTo(elements[k], varId)
      BY <1>10
    <3> HIDE DEF elements
    <3> QED
      BY <3>1 DEF ValueTo, Carries
  <2>5. l + m \in Nat /\ l <= l + m /\ Len(elements) = l
    BY <1>4, <1>60
  <2> DEFINE z == s'
  <2> DEFINE env == js'.env
  <2> DEFINE vo == variableOf'
  <2> HIDE DEF elements, z, env, vo
  <2>6. Due(env, vo, z, l + m, varId, 0, elements)
    BY <1>6, <1>60, <2>3, <2>4, <2>5, DueAll DEF z, env, vo
  <2>7. Len(<<>>) = 0 /\ <<>> \in Seq(Loadable)
    OBVIOUS
  <2>8. Filled(env, vo, js'.heap, z, l + m, varId, elements)
    BY <1>14, <2>6, <2>7 DEF Filled
  <2> QED
    BY <1>14, <2>1, <2>8 DEF elements, z, env, vo
<1> HIDE DEF new, item, elements, s
<1>18. UNCHANGED <<tc, writer, unread, reader>>
  BY <1>1
<1> QED
  BY Zenon, <1>2, <1>3, <1>13, <1>16, <1>17, <1>18, ValueResolved DEF s

-----------------------------------------------------------------------------
(* The first variable goes where it belongs. *)
VariableGone ==
  /\ toSynthesise' \in Seq(Works) /\ Len(toSynthesise') = Len(toSynthesise) - 1
  /\ \A k \in 2 .. Len(toSynthesise) : toSynthesise'[k - 1] = toSynthesise[k]
  /\ js'.calls = js.calls /\ js'.env = js.env
  /\ UNCHANGED <<loaded, variableOf, retVariables>>

LEMMA WorkDone ==
  ASSUME NEW m, NEW open, WorkLeft(m, open), m >= 1, Returned, LoadedWhole, VariableGone
  PROVE  WorkLeft(m - 1, open)' /\ \A k \in 2 .. m : toSynthesise'[k - 1] = toSynthesise[k]
<1> DEFINE s == toSynthesise
<1> DEFINE z == toSynthesise'
<1>1. PICK i, e \in Nat : i = Len(js.calls) /\ e = Len(loaded.calls) /\ i <= e
  BY DEF Returned, LoadedWhole
<1>2. /\ m \in Nat \ {0} /\ open = TRUE /\ i < e /\ Len(s) = m + (e - i)
      /\ \A k \in 1 .. m : InHand(variableOf, s[k])
      /\ \A k \in 1 .. e - i : s[m + k] = Left(open, i, k)
  <2>1. m \in Nat /\ open = TRUE
    BY DEF WorkLeft
  <2>2. m \in Nat \ {0}
    BY <2>1
  <2>3. Len(js.calls) < Len(loaded.calls)
    BY <2>1 DEF WorkLeft
  <2>4. Len(s) = m + (Len(loaded.calls) - Len(js.calls))
    BY DEF WorkLeft
  <2>5. \A k \in 1 .. m : InHand(variableOf, s[k])
    BY DEF WorkLeft
  <2>6. \A k \in 1 .. Len(loaded.calls) - Len(js.calls) : s[m + k] = Left(open, Len(js.calls), k)
    BY DEF WorkLeft
  <2> QED
    BY <1>1, <2>1, <2>2, <2>3, <2>4, <2>5, <2>6
<1>3. Len(s) \in Nat /\ m <= Len(s) /\ Len(s) - m = e - i
  <2>1. PICK c : c = Len(s)
    OBVIOUS
  <2>2. c = m + (e - i) /\ e - i \in Nat
    BY <1>1, <1>2, <2>1
  <2> QED
    BY <1>2, <2>1, <2>2
<1> HIDE DEF s, z
<1>4. z \in Seq(Works) /\ Len(z) = Len(s) - 1 /\ \A k \in 2 .. Len(s) : z[k - 1] = s[k]
  BY DEF VariableGone, s, z
<1>5. \A k \in 2 .. m : z[k - 1] = s[k]
  BY <1>2, <1>3, <1>4
<1>6. ASSUME NEW k \in 1 .. m - 1 PROVE InHand(variableOf, z[k])
  <2>1. PICK q \in 2 .. m : q - 1 = k
    <3>1. k + 1 \in 2 .. m /\ (k + 1) - 1 = k
      BY <1>2
    <3> QED
      BY <3>1
  <2>2. z[k] = s[q]
    BY <1>5, <2>1
  <2> QED
    BY <1>2, <2>1, <2>2
<1>7. ASSUME NEW k \in 1 .. e - i PROVE z[(m - 1) + k] = Left(open, i, k)
  <2>1. m + k \in 2 .. Len(s) /\ (m + k) - 1 = (m - 1) + k
    <3>1. PICK c \in Nat : c = Len(s)
      BY <1>3
    <3>2. c - m = e - i /\ m \in Nat \ {0}
      BY <1>2, <1>3, <3>1
    <3>3. m + k \in 2 .. c /\ (m + k) - 1 = (m - 1) + k
      BY <1>1, <3>1, <3>2
    <3> QED
      BY <3>1, <3>3
  <2>2. z[(m + k) - 1] = s[m + k]
    BY <1>4, <2>1
  <2> QED
    BY <1>2, <2>1, <2>2
<1>8. m - 1 \in Nat /\ Len(z) = (m - 1) + (e - i)
  BY <1>1, <1>2, <1>4
<1>9. loaded' = loaded /\ variableOf' = variableOf /\ js'.calls = js.calls
  BY DEF VariableGone
<1>10. Usable' = Usable
  BY <1>9 DEF Usable
<1>11. \A k \in 1 .. m - 1 : InHand(variableOf, toSynthesise[k])'
  BY <1>6, <1>9, <1>10 DEF InHand, Receives, z
<1>12. WorkLeft(m - 1, open)'
  BY <1>1, <1>2, <1>4, <1>7, <1>8, <1>9, <1>11 DEF WorkLeft, z
<1> QED
  BY <1>5, <1>12 DEF s, z

(* The arrays it does not belong to stay as they are. *)
LEMMA OthersStay ==
  ASSUME NEW m, NEW open, WorkLeft(m, open), m >= 1, Returned, LoadedWhole, VariableGone, Engine, Filling(m),
         NEW n \in DOMAIN loaded.heap, ArrayAt(n) \in DOMAIN variableOf,
         NEW y, y = variableOf[ArrayAt(n)], toSynthesise[1].to # y,
         y \in DOMAIN js'.heap, js'.heap[y] = js.heap[y]
  PROVE  Filled(js'.env, variableOf', js'.heap, toSynthesise', m - 1, y, loaded.heap[n])
<1> DEFINE all == loaded.heap[n]
<1>1. Len(all) \in Nat
  BY DEF LoadedWhole
<1>2. m \in Nat \ {0}
  BY DEF WorkLeft
<1>3. \A k \in 2 .. m : toSynthesise'[k - 1] = toSynthesise[k]
  BY WorkDone
<1> HIDE DEF all
<1>4. /\ y \in DOMAIN js.heap /\ js.heap[y] \in Seq(Loadable)
      /\ Due(js.env, variableOf, toSynthesise, m, y, Len(js.heap[y]), all)
      /\ \A k \in 1 .. Len(js.heap[y]) :
           Made(variableOf, all[k]) /\ js.heap[y][k] = Worth(variableOf, all[k])
  BY DEF Filling, Filled, all
<1>5. Due(js.env, variableOf, toSynthesise', m - 1, y, Len(js.heap[y]), all)
  BY <1>1, <1>2, <1>3, <1>4, DuePassed
<1> QED
  BY <1>4, <1>5 DEF Filled, VariableGone, all

LEMMA WantedTyped ==
  ASSUME NEW m, NEW open, WorkLeft(m, open), open, Returned, LoadedWhole
  PROVE  /\ Len(js.calls) + 1 \in DOMAIN loaded.calls
         /\ Wanted(loaded.calls[Len(js.calls) + 1]) \in Seq(Usable)
         /\ Len(Wanted(loaded.calls[Len(js.calls) + 1])) \in Nat
<1>1. Len(js.calls) + 1 \in DOMAIN loaded.calls
  <2>1. PICK i, e \in Nat : i = Len(js.calls) /\ e = Len(loaded.calls) /\ DOMAIN loaded.calls = 1 .. e
    BY DEF Returned, LoadedWhole
  <2>2. i < e
    BY <2>1 DEF WorkLeft
  <2> QED
    BY <2>1, <2>2
<1> QED
  BY <1>1, CallWanted

(* A variable is pushed to an array. *)
Pushed(e, d, x, y) ==
  /\ DOMAIN d = {"env", "heap", "broken", "calls"} /\ d.broken = FALSE
  /\ d.env = e.env /\ d.calls = e.calls
  /\ DOMAIN d.heap = DOMAIN e.heap /\ d.heap[x] = Append(e.heap[x], e.env[y])
  /\ \A w \in DOMAIN e.heap : w # x => d.heap[w] = e.heap[w]

LEMMA PushedTo ==
  ASSUME NEW e, DOMAIN e = {"env", "heap", "broken", "calls"}, e.broken = FALSE,
         NEW x \in DOMAIN e.env, NEW y \in DOMAIN e.env, x \in DOMAIN e.heap
  PROVE  Pushed(e, PushTo(e, x, y), x, y)
<1>1. (e.broken \/ ~({x, y} \subseteq DOMAIN e.env)) = FALSE
  OBVIOUS
<1>2. ValueOf(e, y) = e.env[y]
  BY DEF ValueOf
<1> DEFINE h == [e.heap EXCEPT ![x] = Append(e.heap[x], e.env[y])]
<1>3. PushTo(e, x, y) = [e EXCEPT !.heap = h, !.broken = FALSE]
  BY <1>1, <1>2 DEF PushTo
<1>4. DOMAIN h = DOMAIN e.heap /\ h[x] = Append(e.heap[x], e.env[y]) /\ \A w \in DOMAIN e.heap : w # x => h[w] = e.heap[w]
  OBVIOUS
<1> HIDE DEF h
<1> QED
  BY <1>3, <1>4 DEF Pushed

LEMMA StepReturned ==
  ASSUME AllRead, LoadedWhole, Returned, VariableGone, UNCHANGED <<tc, writer, unread, reader>>
  PROVE  AllRead' /\ LoadedWhole' /\ Returned'
<1>1. AllRead'
  BY DEF AllRead, AllWritten, writer, reader
<1>2. LoadedWhole'
  BY DEF LoadedWhole, Usable, reader
<1>3. Returned'
  BY ReturnedStays DEF VariableGone, Grows
<1> QED
  BY <1>1, <1>2, <1>3

LEMMA VariableAtHead ==
  ASSUME Building, UseVariable
  PROVE  \E m, open : 
           /\ BuildingAt(m, open) /\ m \in Nat \ {0} /\ m >= 1 /\ open
           /\ toSynthesise[1].is = "variable" /\ toSynthesise[1].n \in Nat
           /\ Receives(variableOf, toSynthesise[1].to)
           /\ toSynthesise' \in Seq(Works) /\ Len(toSynthesise') = Len(toSynthesise) - 1
           /\ \A k \in 2 .. Len(toSynthesise) : toSynthesise'[k - 1] = toSynthesise[k]
           /\ Head(toSynthesise) = toSynthesise[1]
<1> DEFINE s == toSynthesise
<1>1. s # <<>> /\ Head(s).is = "variable" /\ s' = <<>> \o Tail(s)
  BY DEF UseVariable, Synthesises, Replace
<1>2. PICK m, open : BuildingAt(m, open)
  BY DEF Building
<1>3. LoadedWhole /\ Returned /\ WorkLeft(m, open)
  BY <1>2 DEF Building, BuildingAt
<1>4. m >= 1 /\ open /\ Head(s) = s[1]
  BY <1>1, <1>3, HeadOfWork
<1>5. m \in Nat \ {0} /\ s \in Seq(Works)
  BY <1>3, <1>4 DEF WorkLeft
<1>6. InHand(variableOf, s[1])
  <2>1. 1 \in 1 .. m
    BY <1>5
  <2> QED
    BY <1>3, <2>1 DEF WorkLeft
<1>7. s[1].n \in Nat
  <2>1. s[1] \in Works
    BY <1>1, <1>5
  <2> QED
    BY <1>1, <1>4, <2>1 DEF Works
<1>8. s' \in Seq(Works) /\ Len(s') = Len(s) - 1 /\ \A k \in 2 .. Len(s) : s'[k - 1] = s[k]
  <2> HIDE DEF Works
  <2>1. s' = Tail(s)
    BY <1>1, <1>5
  <2> QED
    BY <1>1, <1>5, <2>1
<1> QED
  BY <1>1, <1>2, <1>4, <1>5, <1>6, <1>7, <1>8 DEF InHand

LEMMA OperandUsed ==
  ASSUME Building, UseVariable, Head(toSynthesise).to = Operand
  PROVE  Building'
<1>1. PICK m, open : 
           /\ BuildingAt(m, open) /\ m \in Nat \ {0} /\ m >= 1 /\ open
           /\ toSynthesise[1].is = "variable" /\ toSynthesise[1].n \in Nat
           /\ Receives(variableOf, toSynthesise[1].to)
           /\ toSynthesise' \in Seq(Works) /\ Len(toSynthesise') = Len(toSynthesise) - 1
           /\ \A k \in 2 .. Len(toSynthesise) : toSynthesise'[k - 1] = toSynthesise[k]
           /\ Head(toSynthesise) = toSynthesise[1]
  BY VariableAtHead
<1> DEFINE x == toSynthesise[1].n
<1>2. /\ operands' = Append(operands, x) /\ js' = js
      /\ UNCHANGED <<tc, writer, unread, reader, builder>>
  BY <1>1 DEF UseVariable, Synthesises
<1>3. AllRead /\ LoadedWhole /\ Returned /\ Engine /\ WorkLeft(m, open) /\ Filling(m) /\ Passing(m)
  BY <1>1 DEF Building, BuildingAt
<1>4. VariableGone
  BY <1>1, <1>2 DEF VariableGone, reader, builder
<1>5. AllRead' /\ LoadedWhole' /\ Returned'
  BY <1>2, <1>3, <1>4, StepReturned
<1>6. Engine'
  BY <1>2, <1>3, EngineStays DEF reader
<1>7. WorkLeft(m - 1, open)' /\ \A k \in 2 .. m : toSynthesise'[k - 1] = toSynthesise[k]
  BY <1>1, <1>3, <1>4, WorkDone
<1>8. Filling(m - 1)'
  <2> SUFFICES ASSUME NEW n \in DOMAIN loaded.heap, ArrayAt(n) \in DOMAIN variableOf
               PROVE  Filled(js'.env, variableOf', js'.heap, toSynthesise', m - 1,
                             variableOf[ArrayAt(n)], loaded.heap[n])
    BY <1>4 DEF Filling, VariableGone
  <2>1. PICK y : y = variableOf[ArrayAt(n)]
    OBVIOUS
  <2>2. toSynthesise[1].to # y
    <3>1. y \in Nat
      BY <1>3, <2>1 DEF Engine, Stands
    <3> QED
      BY <1>1, <3>1, ProgramsAssumption DEF Operand
  <2>3. y \in DOMAIN js'.heap /\ js'.heap[y] = js.heap[y]
    BY <1>2, <1>3, <2>1 DEF Filling, Filled
  <2>4. Filled(js'.env, variableOf', js'.heap, toSynthesise', m - 1, y, loaded.heap[n])
    BY <1>1, <1>3, <1>4, <2>1, <2>2, <2>3, OthersStay
  <2> QED
    BY <2>1, <2>4
<1>9. Passing(m - 1)'
  <2> DEFINE all == Wanted(loaded.calls[Len(js.calls) + 1])
  <2>1. Len(all) \in Nat
    BY <1>1, <1>3, WantedTyped
  <2> HIDE DEF all
  <2>2. /\ operands \in Seq(Nat) /\ Due(js.env, variableOf, toSynthesise, m, Operand, Len(operands), all)
        /\ \A k \in 1 .. Len(operands) : Stands(js.env, variableOf, operands[k], all[k])
    BY <1>3 DEF Passing, Passed, all
  <2>3. PICK c \in Nat : c = Len(operands)
    BY <2>2
  <2>9. Due(js.env, variableOf, toSynthesise, m, Operand, c, all)
    BY <2>2, <2>3
  <2>10. m \in Nat \ {0} /\ toSynthesise[1].to = Operand
         /\ \A k \in 2 .. m : toSynthesise'[k - 1] = toSynthesise[k]
    BY <1>1, <1>7
  <2>4. /\ Carries(js.env, variableOf, toSynthesise[1], all[c + 1])
        /\ Due(js.env, variableOf, toSynthesise', m - 1, Operand, c + 1, all)
    <3>1. Taken(js.env, variableOf, toSynthesise, toSynthesise', m, Operand, c, all)
      BY <2>1, <2>9, <2>10, DueTaken
    <3> QED
      BY <3>1 DEF Taken
  <2>5. Stands(js.env, variableOf, x, all[c + 1])
    BY <1>1, <2>4 DEF Carries
  <2>6. /\ operands' \in Seq(Nat) /\ Len(operands') = c + 1 /\ operands'[c + 1] = x
        /\ \A k \in 1 .. c : operands'[k] = operands[k]
    BY <1>1, <1>2, <2>2, <2>3
  <2>7. \A k \in 1 .. c + 1 : Stands(js.env, variableOf, operands'[k], all[k])
    <3> TAKE k \in 1 .. c + 1
    <3>1. k \in 1 .. c \/ k = c + 1
      OBVIOUS
    <3> QED
      BY <2>2, <2>3, <2>5, <2>6, <3>1
  <2>8. Passed(js.env, variableOf, operands', toSynthesise', m - 1, all)
    BY <2>4, <2>6, <2>7 DEF Passed
  <2> QED
    BY <1>2, <1>4, <2>8 DEF Passing, VariableGone, all
<1>10. BuildingAt(m - 1, open)'
  BY <1>7, <1>8, <1>9 DEF BuildingAt
<1> QED
  BY <1>5, <1>6, <1>10 DEF Building

LEMMA ElementUsed ==
  ASSUME Building, UseVariable, Head(toSynthesise).to # Operand
  PROVE  Building'
<1>1. PICK m, open : 
           /\ BuildingAt(m, open) /\ m \in Nat \ {0} /\ m >= 1 /\ open
           /\ toSynthesise[1].is = "variable" /\ toSynthesise[1].n \in Nat
           /\ Receives(variableOf, toSynthesise[1].to)
           /\ toSynthesise' \in Seq(Works) /\ Len(toSynthesise') = Len(toSynthesise) - 1
           /\ \A k \in 2 .. Len(toSynthesise) : toSynthesise'[k - 1] = toSynthesise[k]
           /\ Head(toSynthesise) = toSynthesise[1]
  BY VariableAtHead
<1>2. PICK x, to : x = toSynthesise[1].n /\ to = toSynthesise[1].to
  OBVIOUS
<1>3. /\ operands' = operands /\ js' = PushTo(js, to, x)
      /\ UNCHANGED <<tc, writer, unread, reader, builder>> /\ to # Operand
  BY <1>1, <1>2 DEF UseVariable, Synthesises
<1>4. AllRead /\ LoadedWhole /\ Returned /\ Engine /\ WorkLeft(m, open) /\ Filling(m) /\ Passing(m)
  BY <1>1 DEF Building, BuildingAt
<1>5. PICK n0 \in DOMAIN loaded.heap : ArrayAt(n0) \in DOMAIN variableOf /\ to = variableOf[ArrayAt(n0)]
  BY <1>1, <1>2, <1>3 DEF Receives
<1>6. /\ to \in DOMAIN js.heap /\ js.heap[to] \in Seq(Loadable)
      /\ Due(js.env, variableOf, toSynthesise, m, to, Len(js.heap[to]), loaded.heap[n0])
      /\ \A k \in 1 .. Len(js.heap[to]) :
           /\ Made(variableOf, loaded.heap[n0][k])
           /\ js.heap[to][k] = Worth(variableOf, loaded.heap[n0][k])
  BY <1>4, <1>5 DEF Filling, Filled
<1>7. \A k \in 2 .. m : toSynthesise'[k - 1] = toSynthesise[k]
  <2>1. Len(toSynthesise) >= m /\ Len(toSynthesise) \in Nat
    BY <1>4, WorkLength
  <2>2. \A k \in 2 .. m : k \in 2 .. Len(toSynthesise)
    BY <1>1, <2>1
  <2> QED
    BY <1>1, <2>2
<1>8. loaded.heap[n0] \in Seq(Usable) /\ Len(loaded.heap[n0]) \in Nat
  <2>1. loaded.heap[n0] \in Seq(Usable)
    BY <1>4 DEF LoadedWhole
  <2> QED
    BY <2>1
<1>9. PICK c \in Nat : c = Len(js.heap[to])
  BY <1>6
<1>22. Due(js.env, variableOf, toSynthesise, m, to, c, loaded.heap[n0])
  BY <1>6, <1>9
<1>10. /\ c + 1 \in 1 .. Len(loaded.heap[n0])
       /\ Carries(js.env, variableOf, toSynthesise[1], loaded.heap[n0][c + 1])
       /\ Due(js.env, variableOf, toSynthesise', m - 1, to, c + 1, loaded.heap[n0])
  <2>1. PICK all : all = loaded.heap[n0]
    OBVIOUS
  <2>2. /\ Due(js.env, variableOf, toSynthesise, m, to, c, all) /\ Len(all) \in Nat
        /\ m \in Nat \ {0} /\ toSynthesise[1].to = to
        /\ \A k \in 2 .. m : toSynthesise'[k - 1] = toSynthesise[k]
    BY <1>1, <1>2, <1>7, <1>8, <1>22, <2>1
  <2>3. /\ c + 1 \in 1 .. Len(all) /\ Carries(js.env, variableOf, toSynthesise[1], all[c + 1])
        /\ Due(js.env, variableOf, toSynthesise', m - 1, to, c + 1, all)
    <3>1. Taken(js.env, variableOf, toSynthesise, toSynthesise', m, to, c, all)
      BY <2>2, DueTaken
    <3> QED
      BY <3>1 DEF Taken
  <2> QED
    BY <2>1, <2>3
<1>11. Stands(js.env, variableOf, x, loaded.heap[n0][c + 1])
  BY <1>1, <1>2, <1>10 DEF Carries
<1>12. Pushed(js, js', to, x)
  <2>1. x \in DOMAIN js.env
    BY <1>11 DEF Stands
  <2>2. to \in DOMAIN js.env
    BY <1>4, <1>5 DEF Engine, Stands
  <2>3. DOMAIN js = {"env", "heap", "broken", "calls"} /\ js.broken = FALSE
    BY <1>4 DEF Engine, Declares
  <2> QED
    BY <1>3, <1>6, <2>1, <2>2, <2>3, PushedTo
<1>13. VariableGone
  BY <1>1, <1>3, <1>12 DEF VariableGone, reader, builder, Pushed
<1>14. AllRead' /\ LoadedWhole' /\ Returned'
  BY <1>3, <1>4, <1>13, StepReturned
<1>15. Engine'
  <2>1. varId' = varId /\ imported' = imported /\ variableOf' = variableOf /\ loaded' = loaded
    BY <1>3 DEF reader, builder
  <2>2. Declares(js', imported, varId) /\ js'.env = js.env
    BY <1>4, <1>12 DEF Engine, Declares, Pushed
  <2> QED
    BY <1>4, <2>1, <2>2 DEF Engine, Usable
<1>16. WorkLeft(m - 1, open)'
  BY <1>1, <1>4, <1>13, WorkDone
<1>17. js'.heap[to] = Append(js.heap[to], Worth(variableOf, loaded.heap[n0][c + 1])) /\ to \in DOMAIN js'.heap
  BY <1>6, <1>11, <1>12 DEF Pushed, Stands
<1>18. Filled(js'.env, variableOf', js'.heap, toSynthesise', m - 1, to, loaded.heap[n0])
  <2>1. PICK w : w = Worth(variableOf, loaded.heap[n0][c + 1])
    OBVIOUS
  <2>2. w \in Loadable /\ Made(variableOf, loaded.heap[n0][c + 1])
    <3>1. loaded.heap[n0][c + 1] \in Usable
      BY <1>8, <1>10
    <3>2. Made(variableOf, loaded.heap[n0][c + 1])
      BY <1>11 DEF Stands
    <3>3. \A v \in DOMAIN variableOf : variableOf[v] \in Nat
      BY <1>4 DEF Engine, Stands
    <3> QED
      BY <2>1, <3>1, <3>2, <3>3 DEF Worth, Made, Usable, Loadable, ArrayAt, Item
  <2>3. PICK got : got = js.heap[to]
    OBVIOUS
  <2>4. got \in Seq(Loadable) /\ Len(got) = c
    BY <1>6, <1>9, <2>3
  <2>5. /\ Append(got, w) \in Seq(Loadable) /\ Len(Append(got, w)) = c + 1 /\ Append(got, w)[c + 1] = w
        /\ \A k \in 1 .. c : Append(got, w)[k] = got[k]
    BY <2>2, <2>4
  <2>6. js'.heap[to] = Append(got, w)
    BY Zenon, <1>17, <2>1, <2>3
  <2>7. \A k \in 1 .. c + 1 : /\ Made(variableOf, loaded.heap[n0][k])
                              /\ Append(got, w)[k] = Worth(variableOf, loaded.heap[n0][k])
    <3> TAKE k \in 1 .. c + 1
    <3>1. k \in 1 .. c \/ k = c + 1
      OBVIOUS
    <3> QED
      BY <1>6, <1>9, <2>1, <2>2, <2>3, <2>5, <3>1
  <2>8. js'.env = js.env /\ variableOf' = variableOf
    BY <1>13 DEF VariableGone
  <2> QED
    BY <1>10, <1>17, <2>5, <2>6, <2>7, <2>8 DEF Filled
<1>19. Filling(m - 1)'
  <2> SUFFICES ASSUME NEW n \in DOMAIN loaded.heap, ArrayAt(n) \in DOMAIN variableOf
               PROVE  Filled(js'.env, variableOf', js'.heap, toSynthesise', m - 1,
                             variableOf[ArrayAt(n)], loaded.heap[n])
    BY <1>13 DEF Filling, VariableGone
  <2>1. CASE n = n0
    BY <1>5, <1>18, <2>1
  <2>2. CASE n # n0
    <3>1. PICK y : y = variableOf[ArrayAt(n)]
      OBVIOUS
    <3>2. y # to
      BY <1>4, <1>5, <2>2, <3>1 DEF Engine, ArrayAt, Item
    <3>3. y \in DOMAIN js.heap
      BY <1>4, <3>1 DEF Filling, Filled
    <3>4. y \in DOMAIN js'.heap /\ js'.heap[y] = js.heap[y]
      BY <1>12, <3>2, <3>3 DEF Pushed
    <3>5. Filled(js'.env, variableOf', js'.heap, toSynthesise', m - 1, y, loaded.heap[n])
      BY <1>1, <1>2, <1>4, <1>13, <3>1, <3>2, <3>4, OthersStay
    <3> QED
      BY <3>1, <3>5
  <2> QED
    BY <2>1, <2>2
<1>20. Passing(m - 1)'
  <2> DEFINE all == Wanted(loaded.calls[Len(js.calls) + 1])
  <2>1. Len(all) \in Nat
    BY <1>1, <1>4, WantedTyped
  <2> HIDE DEF all
  <2>2. /\ operands \in Seq(Nat) /\ Due(js.env, variableOf, toSynthesise, m, Operand, Len(operands), all)
        /\ \A k \in 1 .. Len(operands) : Stands(js.env, variableOf, operands[k], all[k])
    BY <1>4 DEF Passing, Passed, all
  <2>3. Due(js.env, variableOf, toSynthesise', m - 1, Operand, Len(operands), all)
    BY <1>1, <1>2, <1>3, <1>7, <2>1, <2>2, DuePassed
  <2> QED
    BY <1>3, <1>13, <2>2, <2>3 DEF Passing, Passed, VariableGone, all
<1>21. BuildingAt(m - 1, open)'
  BY <1>16, <1>19, <1>20 DEF BuildingAt
<1> QED
  BY <1>14, <1>15, <1>21 DEF Building

LEMMA VariableUsed == Building /\ UseVariable => Building'
  BY OperandUsed, ElementUsed

(* The operands of a call: `this`, if it is set, and the arguments. *)
LEMMA WantedParts ==
  ASSUME NEW c, c.this \in Usable \cup {NoThis}, c.args \in Seq(Usable)
  PROVE  /\ c.this = NoThis => Wanted(c) = c.args
         /\ c.this # NoThis => /\ Len(Wanted(c)) = Len(c.args) + 1 /\ Wanted(c)[1] = c.this
                               /\ \A k \in 1 .. Len(c.args) : Wanted(c)[k + 1] = c.args[k]
<1>1. PICK a, t : a = c.args /\ t = c.this
  OBVIOUS
<1> HIDE DEF Usable
<1>2. a \in Seq(Usable) /\ Len(a) \in Nat
  BY <1>1
<1>3. c.this = NoThis => Wanted(c) = c.args
  <2>1. <<>> \o a = a
    BY <1>2
  <2> QED
    BY <1>1, <2>1 DEF Wanted
<1>4. ASSUME t # NoThis
      PROVE  /\ Len(<<t>> \o a) = Len(a) + 1 /\ (<<t>> \o a)[1] = t
             /\ \A k \in 1 .. Len(a) : (<<t>> \o a)[k + 1] = a[k]
  <2>1. t \in Usable
    BY <1>1, <1>4
  <2> QED
    BY <1>2, <2>1
<1> QED
  BY <1>1, <1>3, <1>4 DEF Wanted

(* The values a call statement needs, as items. *)
OperandItems(c) ==
  (IF c.this = NoThis THEN <<>> ELSE <<ValueTo(c.this, Operand)>>)
    \o [k \in DOMAIN c.args |-> ValueTo(c.args[k], Operand)]

ItemsOf(new, all) ==
  /\ new \in Seq(Works) /\ Len(new) = Len(all)
  /\ \A k \in 1 .. Len(all) : new[k] = ValueTo(all[k], Operand)

LEMMA ItemsWanted ==
  ASSUME NEW c, c.this \in Usable \cup {NoThis}, c.args \in Seq(Usable)
  PROVE  ItemsOf(OperandItems(c), Wanted(c))
<1>1. PICK a, t : a = c.args /\ t = c.this
  OBVIOUS
<1> DEFINE items == [k \in DOMAIN a |-> ValueTo(a[k], Operand)]
<1>2. \A v \in Usable : ValueTo(v, Operand) \in Works
  BY DEF Usable, ValueTo, Works
<1> HIDE DEF Usable, Works
<1>3. a \in Seq(Usable) /\ Len(a) \in Nat /\ DOMAIN a = 1 .. Len(a)
  BY <1>1
<1>4. items = [k \in 1 .. Len(a) |-> ValueTo(a[k], Operand)] /\ \A k \in 1 .. Len(a) : ValueTo(a[k], Operand) \in Works
  BY <1>2, <1>3
<1>5. /\ items \in Seq(Works) /\ Len(items) = Len(a)
      /\ \A k \in 1 .. Len(a) : items[k] = ValueTo(a[k], Operand)
  BY <1>3, <1>4
<1> HIDE DEF items
<1>6. CASE t = NoThis
  <2>1. OperandItems(c) = items
    <3>1. OperandItems(c) = <<>> \o items
      BY <1>1, <1>6 DEF OperandItems, items
    <3> QED
      BY <1>5, <3>1
  <2>2. Wanted(c) = a
    BY <1>1, <1>6, WantedParts
  <2> QED
    BY <1>5, <2>1, <2>2 DEF ItemsOf
<1>7. CASE t # NoThis
  <2>1. /\ Len(Wanted(c)) = Len(a) + 1 /\ Wanted(c)[1] = t
        /\ \A k \in 1 .. Len(a) : Wanted(c)[k + 1] = a[k]
    BY <1>1, <1>7, WantedParts
  <2>2. PICK w : w = Wanted(c)
    OBVIOUS
  <2>3. PICK first : first = ValueTo(t, Operand)
    OBVIOUS
  <2>4. first \in Works
    BY <1>1, <1>2, <1>7, <2>3
  <2>5. OperandItems(c) = <<first>> \o items
    BY <1>1, <1>7, <2>3 DEF OperandItems, items
  <2>6. /\ <<first>> \o items \in Seq(Works) /\ Len(<<first>> \o items) = Len(items) + 1
        /\ (<<first>> \o items)[1] = first
        /\ \A k \in 1 .. Len(items) : (<<first>> \o items)[k + 1] = items[k]
    BY <1>5, <2>4
  <2>7. PICK z : z = <<first>> \o items
    OBVIOUS
  <2>8. \A k \in 1 .. Len(a) + 1 : z[k] = ValueTo(w[k], Operand)
    <3> TAKE k \in 1 .. Len(a) + 1
    <3>1. CASE k = 1
      BY <2>1, <2>2, <2>3, <2>6, <2>7, <3>1
    <3>2. CASE k # 1
      <4>1. PICK q \in 1 .. Len(a) : k = q + 1
        <5>1. k - 1 \in 1 .. Len(a) /\ k = (k - 1) + 1
          BY <1>3, <3>2
        <5> QED
          BY <5>1
      <4>2. z[k] = items[q] /\ w[k] = a[q]
        BY <1>5, <2>1, <2>2, <2>6, <2>7, <4>1
      <4> QED
        BY <1>5, <4>2
    <3> QED
      BY <3>1, <3>2
  <2>9. ItemsOf(z, w)
    BY <1>5, <2>1, <2>2, <2>6, <2>7, <2>8 DEF ItemsOf
  <2> QED
    BY <2>2, <2>5, <2>7, <2>9
<1> QED
  BY <1>6, <1>7

LEMMA CallSynthesised == Building /\ SynthesiseCall => Building'
<1> SUFFICES ASSUME Building, SynthesiseCall PROVE Building'
  OBVIOUS
<1> DEFINE s == toSynthesise
<1>1. PICK m, open : BuildingAt(m, open)
  BY DEF Building
<1>2. AllRead /\ LoadedWhole /\ Returned /\ Engine /\ WorkLeft(m, open) /\ Filling(m)
  BY <1>1 DEF Building, BuildingAt
<1>3. s # <<>> /\ Head(s).is = "call"
  BY DEF SynthesiseCall, Synthesises
<1>4. PICK i, e \in Nat : /\ i = Len(js.calls) /\ e = Len(loaded.calls) /\ i <= e
                          /\ DOMAIN loaded.calls = 1 .. e
  BY <1>2 DEF Returned, LoadedWhole
<1>5. /\ m = 0 /\ open = FALSE /\ i + 1 \in DOMAIN loaded.calls
      /\ Head(s).n = i + 1 /\ Head(s) = s[1] /\ s \in Seq(Works)
  <2>1. /\ m = 0 /\ ~open /\ Len(js.calls) + 1 \in DOMAIN loaded.calls
        /\ Head(s).n = Len(js.calls) + 1 /\ Head(s) = s[1]
    BY <1>2, <1>3, HeadOfWork
  <2> QED
    BY <1>2, <1>4, <2>1 DEF WorkLeft
<1>6. PICK c : c = loaded.calls[i + 1]
  OBVIOUS
<1>7. c.this \in Usable \cup {NoThis} /\ c.args \in Seq(Usable)
  BY <1>2, <1>5, <1>6 DEF LoadedWhole
<1>8. PICK all : all = Wanted(c)
  OBVIOUS
<1>9. PICK l \in Nat : l = Len(all) /\ all \in Seq(Usable)
  BY <1>2, <1>5, <1>6, <1>8, CallWanted
<1>10. PICK new : new = OperandItems(c)
  OBVIOUS
<1>11. ItemsOf(new, all)
  BY Zenon, <1>7, <1>8, <1>10, ItemsWanted
<1> DEFINE item == Item("statement", i + 1)
<1>12. /\ s' = (new \o <<item>>) \o Tail(s) /\ operands' = <<>>
       /\ UNCHANGED <<tc, writer, unread, reader, builder, js>>
  BY Zenon, <1>5, <1>6, <1>10 DEF SynthesiseCall, Synthesises, Replace, OperandItems
<1>13. item \in Works /\ item.is = "statement"
  BY <1>4 DEF Works, Item
<1>14. /\ s' \in Seq(Works) /\ Len(s') = l + Len(s)
       /\ \A k \in 1 .. l : s'[k] = ValueTo(all[k], Operand)
       /\ s'[l + 1] = item
       /\ \A k \in 2 .. Len(s) : s'[l + k] = s[k]
  <2>1. new \in Seq(Works) /\ Len(new) = l /\ \A k \in 1 .. l : new[k] = ValueTo(all[k], Operand)
    BY <1>9, <1>11 DEF ItemsOf
  <2> HIDE DEF item, s
  <2>2. InPlaceOfFirst(s, new, item, s')
    BY <1>3, <1>5, <1>12, <1>13, <2>1, ItemReplaced DEF s
  <2> QED
    BY <2>1, <2>2 DEF InPlaceOfFirst
<1>15. /\ loaded' = loaded /\ js' = js /\ variableOf' = variableOf
       /\ retVariables' = retVariables
  BY <1>12 DEF reader, builder
<1>16. AllRead' /\ LoadedWhole' /\ Returned'
  <2>1. AllRead'
    BY <1>2, <1>12 DEF AllRead, AllWritten, writer, reader
  <2>2. LoadedWhole'
    BY <1>2, <1>15 DEF LoadedWhole, Usable
  <2>3. Returned'
    BY <1>2, <1>15 DEF Returned
  <2> QED
    BY <2>1, <2>2, <2>3
<1>17. Engine'
  BY <1>2, <1>12, <1>15, EngineStays
<1>18. WorkLeft(l, TRUE)'
  <2>1. Len(s) = e - i /\ \A k \in 1 .. e - i : s[k] = Left(FALSE, i, k)
    <3>1. WorkLeft(0, FALSE)
      BY <1>2, <1>5
    <3>2. Len(s) = 0 + (e - i) /\ \A k \in 1 .. e - i : s[0 + k] = Left(FALSE, i, k)
      BY <1>4, <3>1 DEF WorkLeft
    <3>3. 0 + (e - i) = e - i /\ \A k \in 1 .. e - i : 0 + k = k
      BY <1>4
    <3>4. Len(s) = e - i
      BY <3>2, <3>3
    <3>5. ASSUME NEW k \in 1 .. e - i PROVE s[k] = Left(FALSE, i, k)
      <4>1. s[0 + k] = Left(FALSE, i, k) /\ 0 + k = k
        BY <3>2, <3>3
      <4> QED
        BY <4>1
    <3> QED
      BY <3>4, <3>5
  <2>2. i < e
    BY <1>4, <1>5
  <2>3. \A k \in 1 .. l : InHand(variableOf, s'[k])
    <3> TAKE k \in 1 .. l
    <3>1. s'[k] = ValueTo(all[k], Operand)
      BY <1>14
    <3>2. all[k] \in Usable
      BY <1>9
    <3> QED
      BY <3>1, <3>2 DEF InHand, ValueTo, Receives
  <2>4. \A k \in 1 .. e - i : s'[l + k] = Left(TRUE, i, k)
    <3> TAKE k \in 1 .. e - i
    <3>1. CASE k = 1
      BY <1>14, <3>1 DEF Left
    <3>2. CASE k # 1
      <4>1. k \in 2 .. Len(s)
        BY <1>4, <2>1, <3>2
      <4>2. s'[l + k] = s[k]
        BY <1>14, <4>1
      <4>3. s[k] = Left(FALSE, i, k)
        BY <2>1
      <4> QED
        BY <3>2, <4>2, <4>3 DEF Left
    <3> QED
      BY <3>1, <3>2
  <2>5. Len(s') = l + (e - i)
    BY <1>14, <2>1
  <2>6. \A k \in 1 .. l : InHand(variableOf, toSynthesise[k])'
    BY <1>15, <2>3 DEF InHand, Usable, Receives
  <2> HIDE DEF item
  <2> QED
    BY <1>4, <1>9, <1>14, <1>15, <2>2, <2>4, <2>5, <2>6 DEF WorkLeft
<1>19. Filling(l)'
  <2> SUFFICES ASSUME NEW n \in DOMAIN loaded.heap, ArrayAt(n) \in DOMAIN variableOf
               PROVE  Filled(js.env, variableOf, js.heap, s', l, variableOf[ArrayAt(n)], loaded.heap[n])
    BY <1>15 DEF Filling
  <2>1. PICK y, els : y = variableOf[ArrayAt(n)] /\ els = loaded.heap[n]
    OBVIOUS
  <2>2. Filled(js.env, variableOf, js.heap, s, 0, y, els)
    BY <1>2, <1>5, <2>1 DEF Filling
  <2>3. els \in Seq(Usable)
    BY <1>2, <2>1 DEF LoadedWhole
  <2>4. Len(els) \in Nat
    BY <2>3
  <2>5. Len(js.heap[y]) = Len(els)
    BY <2>2, <2>4, DueDone DEF Filled
  <2>6. \A k \in 1 .. l : s'[k].to # y
    <3>1. y \in Nat
      BY <1>2, <2>1 DEF Engine, Stands
    <3> TAKE k \in 1 .. l
    <3>2. s'[k] = ValueTo(all[k], Operand)
      BY <1>14
    <3> QED
      BY <3>1, <3>2, ProgramsAssumption DEF ValueTo, Operand
  <2>7. Due(js.env, variableOf, s', l, y, Len(js.heap[y]), els)
    BY <1>9, <2>4, <2>5, <2>6, DueDone
  <2> QED
    BY <2>1, <2>2, <2>7 DEF Filled
<1>20. Passing(l)'
  <2>1. \A k \in 1 .. l : s'[k].to = Operand /\ Carries(js.env, variableOf, s'[k], all[k])
    <3> TAKE k \in 1 .. l
    <3>1. s'[k] = ValueTo(all[k], Operand)
      BY <1>14
    <3> QED
      BY <3>1 DEF ValueTo, Carries
  <2>2. \A k \in l + 1 .. l : FALSE
    BY <1>9
  <2>3. Due(js.env, variableOf, s', l, Operand, 0, all)
    <3>1. l <= l /\ Len(all) = l /\ Len(all) <= l
      BY <1>9
    <3> QED
      BY <1>9, <2>1, <2>2, <3>1, DueAll
  <2>4. Len(<<>>) = 0 /\ <<>> \in Seq(Nat)
    OBVIOUS
  <2>5. Passed(js.env, variableOf, <<>>, s', l, all)
    BY <2>3, <2>4 DEF Passed
  <2> QED
    BY <1>4, <1>6, <1>8, <1>12, <1>15, <2>5 DEF Passing
<1>21. BuildingAt(l, TRUE)'
  BY <1>18, <1>19, <1>20 DEF BuildingAt
<1> QED
  BY <1>16, <1>17, <1>21 DEF Building

-----------------------------------------------------------------------------
(* The variables a statement names: those of the receiver and of the arguments. *)
Named(env, x, f, ctor, args) ==
  [callee |-> f, this |-> IF x = NoThis THEN NoThis ELSE env[x], ctor |-> ctor,
   args |-> [k \in DOMAIN args |-> env[args[k]]]]

CallAdded(e, d, imp, n, named) ==
  /\ Declares(d, imp, n + 1) /\ d.env[n] = ResultOf(Len(e.calls) + 1)
  /\ \A x \in DOMAIN e.env : x \in DOMAIN d.env /\ d.env[x] = e.env[x]
  /\ d.heap = e.heap
  /\ \E call : call.named = named /\ d.calls = Append(e.calls, call)

LEMMA ResultLet ==
  ASSUME NEW e, NEW imp, NEW n \in Nat, imp \cap Nat = {}, Declares(e, imp, n),
         NEW f, NEW ctor, NEW x, NEW args, ModuleOf[f] \subseteq imp,
         x = NoThis \/ x \in DOMAIN e.env, \A k \in DOMAIN args : args[k] \in DOMAIN e.env
  PROVE  CallAdded(e, LetResult(e, n, f, ctor, x, args), imp, n, Named(e.env, x, f, ctor, args))
<1> DEFINE vs == [k \in DOMAIN args |-> ValueOf(e, args[k])]
<1> DEFINE uses == Range(args) \cup ({x} \ {NoThis}) \cup ModuleOf[f]
<1> DEFINE named == [callee |-> f, this |-> IF x = NoThis THEN NoThis ELSE ValueOf(e, x),
                     ctor |-> ctor, args |-> vs]
<1> DEFINE passed == IF ctor \/ x = NoThis THEN vs ELSE ApplyArguments(e, vs)
<1> DEFINE call == [named |-> named, passed |-> passed]
<1> DEFINE d == Declare(e, n, ResultOf(Len(e.calls) + 1), uses)
<1>1. DOMAIN e.env = imp \cup 0 .. (n - 1)
  BY DEF Declares
<1>2. uses \subseteq imp \cup 0 .. (n - 1)
  BY <1>1 DEF Range
<1>3. /\ Declares(d, imp, n + 1) /\ d.env[n] = ResultOf(Len(e.calls) + 1) /\ Extends(e, d)
  <2> HIDE DEF uses
  <2> QED
    BY <1>2, DeclaredNext
<1>4. vs = [k \in DOMAIN args |-> e.env[args[k]]]
  BY DEF ValueOf
<1>5. named = Named(e.env, x, f, ctor, args)
  BY <1>4 DEF Named, ValueOf
<1> DEFINE r == LetResult(e, n, f, ctor, x, args)
<1> DEFINE cs == Append(d.calls, call)
<1>6. r = [d EXCEPT !.calls = cs]
  BY DEF LetResult
<1>7. call.named = named
  OBVIOUS
<1> HIDE DEF call, d, cs, named, r
<1>8. DOMAIN d = {"env", "heap", "broken", "calls"}
  BY <1>3 DEF Declares
<1>9. /\ DOMAIN r = {"env", "heap", "broken", "calls"}
      /\ r.env = d.env /\ r.broken = d.broken /\ r.heap = d.heap /\ r.calls = cs
  BY <1>6, <1>8
<1>10. Declares(r, imp, n + 1)
  BY <1>3, <1>9 DEF Declares
<1>11. r.calls = Append(e.calls, call)
  BY <1>3, <1>9 DEF Extends, cs
<1>12. CallAdded(e, r, imp, n, named)
  BY <1>3, <1>7, <1>9, <1>10, <1>11 DEF CallAdded, Extends
<1> QED
  BY <1>5, <1>12 DEF r

(* The operands of a call are its receiver, if any, and its arguments. *)
Receiver(c, ops)  == IF c.this = NoThis THEN NoThis ELSE Head(ops)
Arguments(c, ops) == IF c.this = NoThis THEN ops ELSE Tail(ops)

OperandsOf(env, vo, c, x, args) ==
  /\ args \in Seq(Nat) /\ Len(args) = Len(c.args)
  /\ \A k \in 1 .. Len(args) : Stands(env, vo, args[k], c.args[k])
  /\ IF c.this = NoThis THEN x = NoThis ELSE x \in Nat /\ Stands(env, vo, x, c.this)

LEMMA OperandsSplit ==
  ASSUME NEW env, NEW vo, NEW c, c.args \in Seq(Usable), c.this \in Usable \cup {NoThis},
         NEW ops \in Seq(Nat), Len(ops) = Len(Wanted(c)),
         \A k \in 1 .. Len(ops) : Stands(env, vo, ops[k], Wanted(c)[k])
  PROVE  OperandsOf(env, vo, c, Receiver(c, ops), Arguments(c, ops))
<1> HIDE DEF Usable
<1>1. CASE c.this = NoThis
  <2>1. Wanted(c) = c.args
    BY <1>1 DEF Wanted
  <2> QED
    BY <1>1, <2>1 DEF OperandsOf, Receiver, Arguments
<1>2. CASE c.this # NoThis
  <2>1. Wanted(c) = <<c.this>> \o c.args /\ <<c.this>> \in Seq(Usable)
    BY <1>2 DEF Wanted
  <2>2. Len(<<c.this>>) = 1 /\ <<c.this>>[1] = c.this
    OBVIOUS
  <2>3. /\ Len(Wanted(c)) = 1 + Len(c.args) /\ Len(c.args) \in Nat
        /\ Wanted(c)[1] = c.this
        /\ \A k \in 1 .. Len(c.args) : Wanted(c)[1 + k] = c.args[k]
    BY <2>1, <2>2, Joined
  <2>4. Len(ops) = 1 + Len(c.args)
    BY <2>3
  <2>5. ops # <<>> /\ Head(ops) = ops[1] /\ Head(ops) \in Nat /\ Tail(ops) \in Seq(Nat)
        /\ Len(Tail(ops)) = Len(c.args) /\ \A k \in 1 .. Len(c.args) : Tail(ops)[k] = ops[1 + k]
    BY <2>3, <2>4
  <2>6. Stands(env, vo, Head(ops), c.this)
    <3>1. 1 \in 1 .. Len(ops)
      BY <2>3, <2>4
    <3> QED
      BY <2>3, <2>5, <3>1
  <2>7. \A k \in 1 .. Len(c.args) : Stands(env, vo, Tail(ops)[k], c.args[k])
    <3> TAKE k \in 1 .. Len(c.args)
    <3>1. 1 + k \in 1 .. Len(ops)
      BY <2>3, <2>4
    <3> QED
      BY <2>3, <2>5, <3>1
  <2> QED
    BY <1>2, <2>5, <2>6, <2>7 DEF OperandsOf, Receiver, Arguments
<1> QED
  BY <1>1, <1>2

(* So a statement names the call that is wanted. *)
LEMMA NamedAsWanted ==
  ASSUME NEW env, NEW vo, NEW c, c.args \in Seq(Usable), NEW x, NEW args, OperandsOf(env, vo, c, x, args)
  PROVE  /\ Named(env, x, c.callee, c.ctor, args) = NamedCall(vo, c) /\ MadeCall(vo, c)
         /\ x = NoThis \/ x \in DOMAIN env
         /\ \A k \in DOMAIN args : args[k] \in DOMAIN env
<1> HIDE DEF Usable
<1>1. /\ args \in Seq(Nat) /\ DOMAIN args = DOMAIN c.args /\ DOMAIN args = 1 .. Len(args)
      /\ \A k \in DOMAIN args : Stands(env, vo, args[k], c.args[k])
  <2>1. args \in Seq(Nat) /\ Len(args) = Len(c.args)
    BY DEF OperandsOf
  <2>2. DOMAIN args = 1 .. Len(args)
    BY <2>1
  <2>3. DOMAIN c.args = 1 .. Len(c.args)
    OBVIOUS
  <2> QED
    BY <2>1, <2>2, <2>3 DEF OperandsOf
<1>2. \A k \in DOMAIN args : args[k] \in DOMAIN env /\ Made(vo, c.args[k]) /\ env[args[k]] = Worth(vo, c.args[k])
  BY <1>1 DEF Stands
<1>3. [k \in DOMAIN args |-> env[args[k]]] = [k \in DOMAIN c.args |-> Worth(vo, c.args[k])]
  BY <1>1, <1>2
<1>4. CASE c.this = NoThis
  BY <1>1, <1>2, <1>3, <1>4 DEF OperandsOf, Named, NamedCall, MadeCall
<1>5. CASE c.this # NoThis
  <2>1. x \in DOMAIN env /\ Made(vo, c.this) /\ env[x] = Worth(vo, c.this) /\ x # NoThis
    BY <1>5, ProgramsAssumption DEF OperandsOf, Stands
  <2> QED
    BY <1>1, <1>2, <1>3, <1>5, <2>1 DEF Named, NamedCall, MadeCall
<1> QED
  BY <1>4, <1>5

-----------------------------------------------------------------------------
LEMMA OneMoreReturned ==
  ASSUME Returned, LoadedWhole, Len(js.calls) + 1 \in DOMAIN loaded.calls,
         loaded' = loaded, variableOf' = variableOf,
         Grows(js.env, variableOf, js'.env, variableOf),
         NEW x \in Nat, retVariables' = Append(retVariables, x),
         Stands(js'.env, variableOf, x, ResultOf(Len(js.calls) + 1)),
         NEW call, js'.calls = Append(js.calls, call),
         call.named = NamedCall(variableOf, loaded.calls[Len(js.calls) + 1]),
         MadeCall(variableOf, loaded.calls[Len(js.calls) + 1])
  PROVE  Returned' /\ Len(js'.calls) = Len(js.calls) + 1
<1>1. PICK S : js.calls \in Seq(S)
  BY DEF Returned
<1>2. PICK i \in Nat : i = Len(js.calls)
  BY <1>1
<1>3. retVariables \in Seq(Nat) /\ Len(retVariables) = i
  BY <1>2 DEF Returned
<1>4. js'.calls \in Seq(S \cup {call})
  <2>1. js.calls \in Seq(S \cup {call})
    BY <1>1
  <2> QED
    BY <2>1
<1>5. /\ Len(js'.calls) = i + 1 /\ js'.calls[i + 1] = call
      /\ \A k \in 1 .. i : js'.calls[k] = js.calls[k]
  BY <1>1, <1>2
<1>6. /\ retVariables' \in Seq(Nat) /\ Len(retVariables') = i + 1 /\ retVariables'[i + 1] = x
      /\ \A k \in 1 .. i : retVariables'[k] = retVariables[k]
  BY <1>3
<1>7. i + 1 <= Len(loaded.calls)
  BY <1>2 DEF LoadedWhole
<1>8. ASSUME NEW k \in 1 .. i + 1
      PROVE  /\ Stands(js'.env, variableOf, retVariables'[k], ResultOf(k))
             /\ MadeCall(variableOf, loaded.calls[k])
             /\ js'.calls[k].named = NamedCall(variableOf, loaded.calls[k])
  <2>1. CASE k = i + 1
    BY <1>2, <1>5, <1>6, <2>1
  <2>2. CASE k # i + 1
    <3>1. k \in 1 .. i
      BY <2>2
    <3>2. /\ Stands(js.env, variableOf, retVariables[k], ResultOf(k))
          /\ MadeCall(variableOf, loaded.calls[k])
          /\ js.calls[k].named = NamedCall(variableOf, loaded.calls[k])
      BY <1>2, <3>1 DEF Returned
    <3> QED
      BY <1>5, <1>6, <3>1, <3>2, StillStands
  <2> QED
    BY <2>1, <2>2
<1>9. Returned'
  BY <1>4, <1>5, <1>6, <1>7, <1>8 DEF Returned
<1> QED
  BY <1>2, <1>5, <1>9

LEMMA StatementGone ==
  ASSUME WorkLeft(0, TRUE), Returned, LoadedWhole, loaded' = loaded, 
         toSynthesise' = <<>> \o Tail(toSynthesise), Len(js'.calls) = Len(js.calls) + 1
  PROVE  WorkLeft(0, FALSE)'
<1> DEFINE s == toSynthesise
<1>1. PICK i, e \in Nat : i = Len(js.calls) /\ e = Len(loaded.calls)
  BY DEF Returned, LoadedWhole
<1>2. i < e /\ s \in Seq(Works) /\ Len(s) = 0 + (e - i) /\ \A k \in 1 .. e - i : s[0 + k] = Left(TRUE, i, k)
  BY <1>1 DEF WorkLeft
<1>3. PICK c \in Nat : c = e - i /\ c >= 1 /\ 0 + c = c
  <2>1. e - i \in Nat /\ e - i >= 1 /\ 0 + (e - i) = e - i
    BY <1>1, <1>2
  <2> QED
    BY <2>1
<1>4. Len(s) = c
  BY <1>2, <1>3
<1>5. \A k \in 1 .. c : s[k] = Left(TRUE, i, k)
  <2> TAKE k \in 1 .. c
  <2>1. 0 + k = k
    OBVIOUS
  <2> QED
    BY <1>2, <1>3, <2>1
<1> HIDE DEF Works
<1>6. s' \in Seq(Works) /\ Len(s') = c - 1 /\ \A k \in 1 .. c - 1 : s'[k] = s[k + 1]
  <2>1. s # <<>> /\ s' = Tail(s)
    BY <1>2, <1>3, <1>4
  <2>2. Tail(s) \in Seq(Works) /\ Len(Tail(s)) = Len(s) - 1
        /\ \A k \in 1 .. Len(s) - 1 : Tail(s)[k] = s[k + 1]
    BY <1>2, <2>1
  <2> QED
    BY <1>3, <1>4, <2>1, <2>2
<1>7. c - 1 = e - (i + 1) /\ i + 1 <= e
  BY <1>1, <1>2, <1>3
<1>8. \A k \in 1 .. e - (i + 1) : s'[0 + k] = Left(FALSE, i + 1, k)
  <2> TAKE k \in 1 .. e - (i + 1)
  <2>1. k \in 1 .. c - 1 /\ k + 1 \in 1 .. c /\ 0 + k = k /\ i + (k + 1) = (i + 1) + k /\ k + 1 # 1
    <3>1. k \in 1 .. c - 1
      BY <1>7
    <3> QED
      BY <3>1
  <2>2. s'[k] = Left(TRUE, i, k + 1)
    BY <1>5, <1>6, <2>1
  <2> QED
    BY <2>1, <2>2 DEF Left
<1>9. Len(s') = 0 + (e - (i + 1))
  BY <1>1, <1>3, <1>6, <1>7
<1>10. \A k \in 1 .. 0 : InHand(variableOf, toSynthesise[k])'
  OBVIOUS
<1>11. Len(js.calls)' = i + 1 /\ Len(loaded.calls)' = e
  BY <1>1
<1>12. 0 \in Nat /\ FALSE \in BOOLEAN /\ ~(0 > 0)
  OBVIOUS
<1> QED
  BY <1>6, <1>8, <1>9, <1>10, <1>11, <1>12 DEF WorkLeft

LEMMA FunctionCallSynthesised == Building /\ SynthesiseFunctionCall => Building'
<1> SUFFICES ASSUME Building, SynthesiseFunctionCall PROVE Building'
  OBVIOUS
<1> DEFINE s == toSynthesise
<1>1. PICK m, open : BuildingAt(m, open)
  BY DEF Building
<1>2. AllRead /\ LoadedWhole /\ Returned /\ Engine /\ WorkLeft(m, open) /\ Filling(m)
  BY <1>1 DEF Building, BuildingAt
<1>3. s # <<>> /\ Head(s).is = "statement"
  BY DEF SynthesiseFunctionCall, Synthesises
<1>4. PICK i \in Nat : i = Len(js.calls)
  BY <1>2 DEF Returned
<1>5. m = 0 /\ open = TRUE /\ i + 1 \in DOMAIN loaded.calls /\ Head(s).n = i + 1
  <2>1. m = 0 /\ open /\ Len(js.calls) + 1 \in DOMAIN loaded.calls /\ Head(s).n = Len(js.calls) + 1
    BY <1>2, <1>3, HeadOfWork
  <2> QED
    BY <1>2, <1>4, <2>1 DEF WorkLeft
<1>6. WorkLeft(0, TRUE) /\ Filling(0) /\ Passing(0)
  BY <1>1, <1>5 DEF BuildingAt
<1>7. PICK c : c = loaded.calls[i + 1]
  OBVIOUS
<1>8. /\ c.args \in Seq(Usable) /\ c.this \in Usable \cup {NoThis} /\ c.callee \in DOMAIN ModuleOf
      /\ Wanted(c) \in Seq(Usable) /\ Len(Wanted(c)) \in Nat
  <2>1. Wanted(c) \in Seq(Usable) /\ Len(Wanted(c)) \in Nat
    BY <1>2, <1>5, <1>7, CallWanted
  <2> QED
    BY <1>2, <1>5, <1>7, <2>1 DEF LoadedWhole
<1>9. /\ operands \in Seq(Nat) /\ Len(operands) = Len(Wanted(c))
      /\ \A k \in 1 .. Len(operands) : Stands(js.env, variableOf, operands[k], Wanted(c)[k])
  <2>1. Passed(js.env, variableOf, operands, s, 0, Wanted(c))
    BY <1>4, <1>6, <1>7 DEF Passing
  <2>2. Due(js.env, variableOf, s, 0, Operand, Len(operands), Wanted(c))
    BY <2>1 DEF Passed
  <2>3. Len(operands) = Len(Wanted(c))
    BY Zenon, <1>8, <2>2, DueDone
  <2> QED
    BY <2>1, <2>3 DEF Passed
<1> DEFINE x == Receiver(c, operands)
<1> DEFINE args == Arguments(c, operands)
<1> DEFINE f == c.callee
<1> DEFINE ctor == c.ctor
<1> DEFINE mods == ModuleOf[f]
<1> DEFINE r == Require(js, mods \ imported)
<1> DEFINE imp == imported \cup mods
<1>10. /\ js' = LetResult(r, varId, f, ctor, x, args)
       /\ imported' = imp /\ varId' = varId + 1
       /\ retVariables' = Append(retVariables, varId)
       /\ s' = <<>> \o Tail(s)
       /\ UNCHANGED <<tc, writer, unread, reader, operands, variableOf>>
  BY Zenon, <1>5, <1>7 DEF SynthesiseFunctionCall, Synthesises, Replace, Receiver, Arguments, Unimported
<1>11. Declares(js, imported, varId) /\ varId \in Nat /\ imported \cap Nat = {}
  BY <1>2 DEF Engine
<1>12. \A a, b \in mods : a = b /\ a \notin Nat
  BY <1>8, ProgramsAssumption
<1>13. Declares(r, imp, varId) /\ Extends(js, r)
  <2> HIDE DEF mods
  <2> QED
    BY <1>11, <1>12, Required
<1>14. imp \cap Nat = {} /\ mods \subseteq imp
  BY <1>11, <1>12
<1>15. OperandsOf(js.env, variableOf, c, x, args)
  <2>1. PICK ops \in Seq(Nat) : ops = operands
    BY <1>9
  <2>2. OperandsOf(js.env, variableOf, c, Receiver(c, ops), Arguments(c, ops))
    BY <1>8, <1>9, <2>1, OperandsSplit
  <2> QED
    BY <2>1, <2>2
<1> HIDE DEF x, args, mods, r, imp
<1>16. Grows(js.env, variableOf, r.env, variableOf)
  BY <1>13 DEF Extends, Grows
<1>17. OperandsOf(r.env, variableOf, c, x, args)
  BY <1>15, <1>16, StillStands DEF OperandsOf
<1>18. /\ Named(r.env, x, f, ctor, args) = NamedCall(variableOf, c) /\ MadeCall(variableOf, c)
       /\ x = NoThis \/ x \in DOMAIN r.env
       /\ \A k \in DOMAIN args : args[k] \in DOMAIN r.env
  BY <1>8, <1>17, NamedAsWanted
<1>19. CallAdded(r, js', imp, varId, NamedCall(variableOf, c))
  <2>1. ModuleOf[f] \subseteq imp
    BY <1>14 DEF mods
  <2> HIDE DEF f, ctor
  <2>2. CallAdded(r, LetResult(r, varId, f, ctor, x, args), imp, varId, Named(r.env, x, f, ctor, args))
    BY <1>11, <1>13, <1>14, <1>18, <2>1, ResultLet
  <2> QED
    BY <1>10, <1>18, <2>2
<1>20. r.heap = js.heap /\ r.calls = js.calls
  BY <1>13 DEF Extends
<1>21. /\ Declares(js', imp, varId + 1) /\ js'.env[varId] = ResultOf(i + 1)
       /\ \A y \in DOMAIN r.env : y \in DOMAIN js'.env /\ js'.env[y] = r.env[y]
       /\ js'.heap = js.heap
       /\ \E call : call.named = NamedCall(variableOf, c) /\ js'.calls = Append(js.calls, call)
  BY <1>4, <1>19, <1>20 DEF CallAdded
<1>22. Grows(js.env, variableOf, js'.env, variableOf)
  BY <1>16, <1>21 DEF Grows
<1>23. Stands(js'.env, variableOf, varId, ResultOf(i + 1))
  <2>1. varId \in DOMAIN js'.env
    BY <1>11, <1>21 DEF Declares
  <2>2. ~IsArray(ResultOf(i + 1))
    BY DEF IsArray, ResultOf, Item
  <2> QED
    BY <1>11, <1>21, <2>1, <2>2 DEF Stands, Made, Worth
<1>24. loaded' = loaded /\ variableOf' = variableOf
  BY Zenon, <1>10 DEF reader
<1>25. Returned' /\ Len(js'.calls) = Len(js.calls) + 1
  <2>1. PICK call : call.named = NamedCall(variableOf, c) /\ js'.calls = Append(js.calls, call)
    BY <1>21
  <2> QED
    BY Zenon, <1>2, <1>4, <1>5, <1>7, <1>10, <1>11, <1>18, <1>22, <1>23, <1>24, <2>1, OneMoreReturned
<1>26. WorkLeft(0, FALSE)'
  BY <1>2, <1>6, <1>10, <1>24, <1>25, StatementGone
<1>27. AllRead' /\ LoadedWhole'
  <2>1. AllRead'
    BY <1>2, <1>10 DEF AllRead, AllWritten, writer, reader
  <2>2. LoadedWhole'
    BY <1>2, <1>24 DEF LoadedWhole, Usable
  <2> QED
    BY <2>1, <2>2
<1>28. Engine'
  <2>1. Declares(js', imported', varId') /\ varId' \in Nat /\ imported' \cap Nat = {}
    BY <1>10, <1>11, <1>14, <1>21
  <2>2. \A v \in DOMAIN variableOf : v \in Usable' /\ Stands(js'.env, variableOf, variableOf[v], v)
    <3> TAKE v \in DOMAIN variableOf
    <3>1. v \in Usable /\ Stands(js.env, variableOf, variableOf[v], v)
      BY <1>2 DEF Engine
    <3>2. Stands(js'.env, variableOf, variableOf[v], v)
      BY <1>22, <3>1, StillStands
    <3> QED
      BY <1>24, <3>1, <3>2 DEF Usable
  <2>3. \A u, v \in DOMAIN variableOf : variableOf[u] = variableOf[v] => u = v
    BY <1>2 DEF Engine
  <2> QED
    BY <1>24, <2>1, <2>2, <2>3 DEF Engine
<1>29. Filling(0)'
  <2> SUFFICES ASSUME NEW n \in DOMAIN loaded.heap, ArrayAt(n) \in DOMAIN variableOf
               PROVE  Filled(js'.env, variableOf, js.heap, s', 0, variableOf[ArrayAt(n)], loaded.heap[n])
    BY <1>21, <1>24 DEF Filling
  <2>1. PICK y, els : y = variableOf[ArrayAt(n)] /\ els = loaded.heap[n]
    OBVIOUS
  <2>2. Filled(js.env, variableOf, js.heap, s, 0, y, els)
    BY <1>6, <2>1 DEF Filling
  <2>3. els \in Seq(Usable)
    BY <1>2, <2>1 DEF LoadedWhole
  <2>4. Len(els) \in Nat
    BY <2>3
  <2>5. Len(js.heap[y]) = Len(els)
    BY <2>2, <2>4, DueDone DEF Filled
  <2>6. \A k \in 1 .. 0 : s'[k].to # y
    OBVIOUS
  <2>7. Due(js'.env, variableOf, s', 0, y, Len(js.heap[y]), els)
    BY <2>4, <2>5, <2>6, DueDone
  <2> QED
    BY <2>1, <2>2, <2>7 DEF Filled
<1>30. BuildingAt(0, FALSE)'
  BY <1>26, <1>29 DEF BuildingAt
<1> QED
  BY <1>25, <1>27, <1>28, <1>30 DEF Building

-----------------------------------------------------------------------------
LEMMA MainEntered ==
  ASSUME InOrder, ReaderFollows, StartSynthesis, EnterMainFunction
  PROVE  Building'
<1> DEFINE items == [i \in DOMAIN loaded.calls |-> Item("call", i)]
<1>1. /\ AllRead /\ toSynthesise = <<Item("main", 0)>>
      /\ toSynthesise' = items \o Tail(toSynthesise)
      /\ UNCHANGED <<tc, writer, unread, reader, operands, builder, js>>
  BY DEF EnterMainFunction, Synthesises, Replace, StartSynthesis
<1>2. loaded' = loaded /\ js' = NewEngine /\ variableOf' = EmptyMap /\ retVariables' = <<>>
      /\ varId' = 0 /\ imported' = {}
  BY <1>1 DEF StartSynthesis, reader, builder
<1>3. LoadedWhole
  BY <1>1, ReadWhole
<1>4. AllRead' /\ LoadedWhole'
  <2>1. AllRead'
    BY <1>1 DEF AllRead, AllWritten, writer, reader
  <2>2. LoadedWhole'
    BY <1>2, <1>3 DEF LoadedWhole, Usable
  <2> QED
    BY <2>1, <2>2
<1>5. PICK e \in Nat : e = Len(loaded.calls) /\ DOMAIN loaded.calls = 1 .. e
  BY <1>3 DEF LoadedWhole
<1>6. /\ DOMAIN js' = {"env", "heap", "broken", "calls"} /\ js'.broken = FALSE
      /\ js'.env = EmptyMap /\ js'.heap = EmptyMap /\ js'.calls = <<>>
  BY <1>2 DEF NewEngine
<1>7. DOMAIN EmptyMap = {}
  BY DEF EmptyMap
<1>8. Engine'
  <2>1. Declares(js', {}, 0)
    BY <1>6, <1>7 DEF Declares
  <2> QED
    BY <1>2, <1>7, <2>1 DEF Engine
<1>9. Len(<<>>) = 0 /\ <<>> \in Seq({}) /\ <<>> \in Seq(Nat)
  OBVIOUS
<1>10. Returned'
  <2>1. js'.calls \in Seq({}) /\ retVariables' \in Seq(Nat) /\ Len(js'.calls) = 0 /\ Len(retVariables') = 0
    BY <1>2, <1>6, <1>9
  <2>2. Len(js'.calls) <= Len(loaded.calls) /\ 1 .. Len(js'.calls) = {}
    BY <1>5, <2>1
  <2> QED
    BY <1>2, <2>1, <2>2 DEF Returned
<1>11. toSynthesise' \in Seq(Works) /\ Len(toSynthesise') = e
       /\ \A k \in 1 .. e : toSynthesise'[k] = Item("call", k)
  <2>1. items = [k \in 1 .. e |-> Item("call", k)]
    BY <1>5
  <2>2. \A k \in 1 .. e : Item("call", k) \in Works
    BY DEF Item, Works
  <2> HIDE DEF items, Works
  <2>3. items \in Seq(Works) /\ Len(items) = e
    BY <2>1, <2>2
  <2>4. toSynthesise' = items
    <3>1. Tail(toSynthesise) = <<>>
      BY <1>1
    <3> QED
      BY <1>1, <2>3, <3>1
  <2> QED
    BY <2>1, <2>3, <2>4
<1>12. WorkLeft(0, FALSE)'
  <2>1. Len(js.calls)' = 0 /\ Len(loaded.calls)' = e
    BY <1>2, <1>5, <1>6, <1>9
  <2>2. \A k \in 1 .. e - 0 : toSynthesise'[0 + k] = Left(FALSE, 0, k)
    <3> TAKE k \in 1 .. e - 0
    <3>1. k \in 1 .. e /\ 0 + k = k
      OBVIOUS
    <3> QED
      BY <1>11, <3>1 DEF Left
  <2>3. Len(toSynthesise') = 0 + (e - 0)
    BY <1>11
  <2>4. \A k \in 1 .. 0 : InHand(variableOf, toSynthesise[k])'
    OBVIOUS
  <2>5. 0 \in Nat /\ FALSE \in BOOLEAN /\ ~(0 > 0)
    OBVIOUS
  <2> QED
    BY <1>11, <2>1, <2>2, <2>3, <2>4, <2>5 DEF WorkLeft
<1>13. Filling(0)'
  BY <1>2, <1>7 DEF Filling
<1>14. BuildingAt(0, FALSE)'
  BY <1>12, <1>13 DEF BuildingAt
<1> QED
  BY <1>4, <1>8, <1>10, <1>14 DEF Building

(* Until everything has been read nothing is synthesised, and then nothing is read
   any more. *)
LEMMA SynthesisStays ==
  ASSUME UNCHANGED <<tc, writer, unread, reader, synthesis>>, SynthesisFollows
  PROVE  SynthesisFollows'
<1>1. UNCHANGED <<toSynthesise, operands, variableOf, retVariables, varId, imported, js, loaded>>
  BY DEF synthesis, builder, reader
<1>2. CASE StartSynthesis
  BY <1>1, <1>2 DEF StartSynthesis, SynthesisFollows
<1>3. CASE Building
  <2>1. AllRead' /\ LoadedWhole' /\ Returned'
    <3>1. AllRead'
      BY <1>3 DEF Building, AllRead, AllWritten, writer, reader
    <3>2. LoadedWhole'
      BY <1>1, <1>3 DEF Building, LoadedWhole, Usable
    <3>3. Returned'
      BY <1>1, <1>3 DEF Building, Returned
    <3> QED
      BY <3>1, <3>2, <3>3
  <2>2. Engine'
    <3>1. Engine
      BY <1>3 DEF Building
    <3>2. UNCHANGED <<js, builder, loaded>>
      BY <1>1 DEF builder
    <3> QED
      BY <3>1, <3>2, EngineStays
  <2>3. PICK m, open : BuildingAt(m, open)
    BY <1>3 DEF Building
  <2>4. WorkLeft(m, open)'
    <3>1. WorkLeft(m, open)
      BY <2>3 DEF BuildingAt
    <3>2. \A k \in 1 .. m : InHand(variableOf, toSynthesise[k])'
      BY <1>1, <3>1 DEF WorkLeft, InHand, Usable, Receives
    <3> QED
      BY <1>1, <3>1, <3>2 DEF WorkLeft
  <2>5. Filling(m)' /\ (open => Passing(m)')
    BY <1>1, <2>3 DEF BuildingAt, Filling, Passing
  <2>6. BuildingAt(m, open)'
    BY <2>4, <2>5 DEF BuildingAt
  <2> QED
    BY <2>1, <2>2, <2>6 DEF Building, SynthesisFollows
<1> QED
  BY <1>2, <1>3 DEF SynthesisFollows

LEMMA SynthesisGoesOn == Building /\ Synthesise => Building'
<1> SUFFICES ASSUME Building, Synthesise PROVE Building'
  OBVIOUS
<1>1. CASE EnterMainFunction
  <2>1. toSynthesise # <<>> /\ Head(toSynthesise).is = "main"
    BY <1>1 DEF EnterMainFunction, Synthesises
  <2>2. PICK m, open : WorkLeft(m, open)
    BY DEF Building, BuildingAt
  <2>3. LoadedWhole /\ Returned
    BY DEF Building
  <2>4. Head(toSynthesise).is # "main"
    BY <2>1, <2>2, <2>3, HeadOfWork
  <2> QED
    BY <2>1, <2>4
<1>2. CASE SynthesiseCall
  BY <1>2, CallSynthesised
<1>3. CASE SynthesiseKnown
  BY <1>3, KnownSynthesised
<1>4. CASE SynthesisePlaceholder
  BY <1>4, PlaceholderSynthesised
<1>5. CASE SynthesiseScalar
  BY <1>5, ScalarSynthesised
<1>6. CASE SynthesiseArray
  BY <1>6, ArraySynthesised
<1>7. CASE UseVariable
  BY <1>7, VariableUsed
<1>8. CASE SynthesiseFunctionCall
  BY <1>8, FunctionCallSynthesised
<1> QED
  BY <1>1, <1>2, <1>3, <1>4, <1>5, <1>6, <1>7, <1>8 DEF Synthesise

LEMMA SynthesisKeepsUp == InOrder /\ ReaderFollows /\ SynthesisFollows /\ [Next]_vars => SynthesisFollows'
<1> SUFFICES ASSUME InOrder, ReaderFollows, SynthesisFollows, [Next]_vars PROVE SynthesisFollows'
  OBVIOUS
<1>1. CASE StartSynthesis
  <2>1. ASSUME UNCHANGED synthesis PROVE SynthesisFollows'
    BY <1>1, <2>1 DEF StartSynthesis, SynthesisFollows, synthesis, builder
  <2>2. CASE SynthesiseOn
    <3>1. Head(toSynthesise).is = "main"
      BY SMTT(20), <1>1 DEF StartSynthesis, Item
    <3>2. EnterMainFunction
      BY Zenon, <2>2, <3>1 DEF SynthesiseOn, Synthesise, Synthesises, SynthesiseCall, SynthesiseKnown,
                        SynthesisePlaceholder, SynthesiseScalar, SynthesiseArray, UseVariable,
                        SynthesiseFunctionCall
    <3> QED
      BY <1>1, <3>2, MainEntered DEF SynthesisFollows
  <2> QED
    BY <2>1, <2>2 DEF Next, WriteOn, ReadOn, DumpOn, Finished, vars
<1>2. CASE Building
  <2>1. todo = <<>> /\ unread = Nothing /\ expect = <<>>
    BY <1>2 DEF Building, AllRead, AllWritten
  <2>2. CASE WriteOn
    BY <2>1, <2>2 DEF WriteOn, Serialize, WriteNumber, WriteCall, NumberResult, WriteValue, Upcoming
  <2>3. CASE ReadOn
    BY <2>1, <2>3 DEF ReadOn, Deserialize, ReadRoot, ReadCallsCount, ReadCallee, ReadCtor, ReadArgsCount,
                      NextResult, ReadScalar, ReadArray, ReadReference, Read, Expects
  <2>4. CASE DumpOn
    <3>1. UNCHANGED <<tc, writer, unread, reader, synthesis>>
      BY Zenon, <2>4 DEF DumpOn, Dump, DumpFunctionCall, DumpReturn, DumpScalar, DumpArray, DumpReference, Keep
    <3> QED
      BY Zenon, <3>1, SynthesisStays
  <2>5. CASE SynthesiseOn
    BY <1>2, <2>5, SynthesisGoesOn DEF SynthesiseOn, SynthesisFollows
  <2>6. CASE Finished \/ UNCHANGED vars
    <3>1. UNCHANGED <<tc, writer, unread, reader, synthesis>>
      BY <2>6 DEF Finished, vars
    <3> QED
      BY <3>1, SynthesisStays
  <2> QED
    BY <2>2, <2>3, <2>4, <2>5, <2>6 DEF Next
<1> QED
  BY <1>1, <1>2 DEF SynthesisFollows

-----------------------------------------------------------------------------
LEMMA WorthInProgram == \A v : Worth(variableOf, v) = InProgram(v)
  BY DEF Worth, InProgram, IsArray

LEMMA FollowingRuns == SynthesisFollows => ProgramRuns
  BY DEF SynthesisFollows, StartSynthesis, NewEngine, Building, Engine, Declares, ProgramRuns

LEMMA FollowingNamed == SynthesisFollows => OperandsNamed
<1>1. CASE StartSynthesis
  <2>1. js.calls = <<>> /\ retVariables = <<>> /\ DOMAIN <<>> = {}
    BY <1>1 DEF StartSynthesis, NewEngine
  <2> QED
    BY <2>1 DEF OperandsNamed
<1>2. CASE Building
  <2>1. Returned /\ LoadedWhole
    BY <1>2 DEF Building
  <2>2. Len(js.calls) = Len(retVariables) /\ DOMAIN js.calls = 1 .. Len(js.calls)
    BY <2>1 DEF Returned
  <2> SUFFICES ASSUME NEW i \in DOMAIN js.calls
      PROVE  js.calls[i].named =
               [loaded.calls[i] EXCEPT !.this = IF @ = NoThis THEN @ ELSE InProgram(@),
                                       !.args = AllInProgram(@)]
    BY <2>2 DEF OperandsNamed
  <2>3. PICK c : c = loaded.calls[i]
    OBVIOUS
  <2>4. js.calls[i].named = NamedCall(variableOf, c)
    BY <2>1, <2>2, <2>3 DEF Returned
  <2>5. c \in LoadedCall
    <3>1. i \in DOMAIN loaded.calls
      BY <2>1, <2>2 DEF Returned, LoadedWhole
    <3> QED
      BY <2>1, <2>3, <3>1, CallWanted
  <2> DEFINE w == IF c.this = NoThis THEN c.this ELSE InProgram(c.this)
  <2> DEFINE u == AllInProgram(c.args)
  <2>6. NamedCall(variableOf, c) = [callee |-> c.callee, this |-> w, ctor |-> c.ctor, args |-> u]
    BY WorthInProgram DEF NamedCall, AllInProgram
  <2>7. [c EXCEPT !.this = IF @ = NoThis THEN @ ELSE InProgram(@), !.args = AllInProgram(@)]
          = [c EXCEPT !.this = w, !.args = u]
    BY <2>5 DEF LoadedCall
  <2>8. c = [callee |-> c.callee, this |-> c.this, ctor |-> c.ctor, args |-> c.args]
    BY <2>5 DEF LoadedCall
  <2> HIDE DEF w, u
  <2>9. [c EXCEPT !.this = w, !.args = u] = [callee |-> c.callee, this |-> w, ctor |-> c.ctor, args |-> u]
    <3> DEFINE z == [c EXCEPT !.this = w]
    <3>1. z = [callee |-> c.callee, this |-> w, ctor |-> c.ctor, args |-> c.args]
      BY <2>8
    <3> HIDE DEF z
    <3>2. [z EXCEPT !.args = u] = [callee |-> c.callee, this |-> w, ctor |-> c.ctor, args |-> u]
      BY <3>1
    <3> QED
      BY <3>2 DEF z
  <2> QED
    BY <2>3, <2>4, <2>6, <2>7, <2>9
<1> QED
  BY <1>1, <1>2 DEF SynthesisFollows

LEMMA FollowingBuilt == SynthesisFollows => ArraysBuilt
<1> SUFFICES ASSUME SynthesisFollows, toSynthesise # <<>>, Head(toSynthesise).is = "statement",
                    NEW n \in DOMAIN loaded.heap, ArrayAt(n) \in DOMAIN variableOf
             PROVE  js.heap[variableOf[ArrayAt(n)]] = AllInProgram(loaded.heap[n])
  BY DEF ArraysBuilt
<1>1. Building
  BY DEF SynthesisFollows, StartSynthesis, EmptyMap
<1>2. PICK m, open : BuildingAt(m, open)
  BY <1>1 DEF Building
<1>3. LoadedWhole /\ Returned /\ WorkLeft(m, open) /\ Filling(m)
  BY <1>1, <1>2 DEF Building, BuildingAt
<1>4. m = 0
  BY <1>3, HeadOfWork
<1>5. PICK y, els : y = variableOf[ArrayAt(n)] /\ els = loaded.heap[n]
  OBVIOUS
<1>6. Filled(js.env, variableOf, js.heap, toSynthesise, 0, y, els)
  BY <1>3, <1>4, <1>5 DEF Filling
<1>7. els \in Seq(Usable) /\ Len(els) \in Nat /\ DOMAIN els = 1 .. Len(els)
  <2>1. els \in Seq(Usable)
    BY <1>3, <1>5 DEF LoadedWhole
  <2> QED
    BY <2>1
<1>8. PICK h : h = js.heap[y]
  OBVIOUS
<1>9. h \in Seq(Loadable) /\ Len(h) = Len(els)
  BY <1>6, <1>7, <1>8, DueDone DEF Filled
<1>10. \A k \in 1 .. Len(h) : h[k] = InProgram(els[k])
  BY <1>6, <1>8, WorthInProgram DEF Filled
<1>11. h = [k \in DOMAIN h |-> h[k]] /\ DOMAIN h = DOMAIN els /\ DOMAIN h = 1 .. Len(h)
  <2> HIDE DEF Loadable
  <2> QED
    BY <1>7, <1>9
<1>12. h = AllInProgram(els)
  BY <1>10, <1>11 DEF AllInProgram
<1> QED
  BY <1>5, <1>8, <1>12

LEMMA AlwaysBuilding == Spec => [](InOrder /\ ReaderFollows /\ SynthesisFollows)
<1>1. Init => InOrder /\ ReaderFollows /\ SynthesisFollows
  BY WritingStartsInOrder, StartedTogether DEF Init, SynthesisFollows
<1>2. InOrder /\ ReaderFollows /\ SynthesisFollows /\ [Next]_vars => (InOrder /\ ReaderFollows /\ SynthesisFollows)'
  BY StepKeepsOrder, ReaderKeepsUp, SynthesisKeepsUp
<1> QED
  BY <1>1, <1>2, PTL DEF Spec

(* The program the synthesiser writes is one, whatever the test case: no name is
   declared twice and none is used before its declaration, however arrays contain
   each other and wherever a module is met first (HasSynthesised, CreateVariable and
   _imported in SynthesisBuilder.cpp and NodejsSynthesisBuilder.cpp). *)
THEOREM ProgramsAlwaysRun == Spec => []ProgramRuns
  BY AlwaysBuilding, FollowingRuns, PTL

(* Each call statement names the operands of its call in their order: the results
   of the right calls and the one variable of each array (SynthesisConstant and
   SynthesisFunctionCall in SynthesisBuilder.cpp). *)
THEOREM OperandsAlwaysNamed == Spec => []OperandsNamed
  BY AlwaysBuilding, FollowingNamed, PTL

(* By the time of a call every array made so far has all its elements, also one that
   is among its own elements or those of its elements (SynthesisConstant in
   SynthesisBuilder.cpp, which is recursive). *)
THEOREM ArraysAlwaysBuilt == Spec => []ArraysBuilt
  BY AlwaysBuilding, FollowingBuilt, PTL

-----------------------------------------------------------------------------
(* The dumper goes through the test case as the writer did, in its own time. *)
LEMMA Smallest ==
  ASSUME NEW T, T \subseteq Nat, T # {}
  PROVE  \E n \in T : \A m \in T : n <= m
<1>1. PICK n \in T : \A m \in T : <<m, n>> \notin OpToRel(<, Nat)
  BY NatLessThanWellFounded, WFMin
<1>2. \A m \in T : ~(m < n)
  BY <1>1 DEF OpToRel
<1> QED
  BY <1>2

LEMMA FrontThins ==
  ASSUME NEW S, NEW D, NEW s \in Seq(S), NEW d \in Seq(D), s # <<>>, Thins(s, d)
  PROVE  \/ Unshown(Head(s)) /\ Thins(Tail(s), d)
         \/ d # <<>> /\ Alike(Head(s), Head(d)) /\ Thins(Tail(s), Tail(d))
<1>1. PICK n \in Nat : n = Len(s) /\ n >= 1
  OBVIOUS
<1>2. PICK m \in Nat : m = Len(d)
  OBVIOUS
<1>3. PICK r : r = Tail(s)
  OBVIOUS
<1>4. Len(r) = n - 1 /\ (\A k \in 1 .. (n - 1) : r[k] = s[k + 1]) /\ Head(s) = s[1]
  BY <1>1, <1>3
<1>5. PICK f : Picks(s, d, f)
  BY DEF Thins
<1>6. /\ f \in [1 .. m -> 1 .. n]
      /\ \A j, k \in 1 .. m : j < k => f[j] < f[k]
      /\ \A j \in 1 .. m : Alike(s[f[j]], d[j])
      /\ \A k \in 1 .. n : Unshown(s[k]) \/ \E j \in 1 .. m : f[j] = k
  BY <1>1, <1>2, <1>5 DEF Picks
<1>7. PICK o \in {0, 1} : o = 1 <=> \E j \in 1 .. m : f[j] = 1
  OBVIOUS
<1>8. (o = 1 => m >= 1 /\ f[1] = 1) /\ \A j \in 1 .. m : j > o => f[j] > 1
  <2>1. CASE o = 0
    BY <2>1, <1>6, <1>7
  <2>2. CASE o = 1
    <3>1. PICK j \in 1 .. m : f[j] = 1
      BY <1>7, <2>2
    <3>2. 1 \in 1 .. m /\ f[1] \in 1 .. n
      BY <3>1, <1>6
    <3>3. ~(1 < j)
      BY <1>6, <3>1, <3>2
    <3> QED
      BY <2>2, <3>1, <3>2, <3>3, <1>6
  <2> QED
    BY <2>1, <2>2
<1>9. PICK q : q = IF o = 0 THEN d ELSE Tail(d)
  OBVIOUS
<1>10. Len(q) = m - o /\ (\A k \in 1 .. (m - o) : q[k] = d[k + o]) /\ (o = 1 => d # <<>> /\ Head(d) = d[1])
  BY <1>2, <1>8, <1>9
<1> DEFINE g == [j \in 1 .. (m - o) |-> f[j + o] - 1]
<1>11. \A j \in 1 .. (m - o) :
         j + o \in 1 .. m /\ g[j] \in 1 .. (n - 1) /\ g[j] + 1 = f[j + o] /\ r[g[j]] = s[f[j + o]]
  <2> TAKE j \in 1 .. (m - o)
  <2>1. j + o \in 1 .. m /\ j + o > o
    BY <1>2
  <2>2. f[j + o] \in 1 .. n /\ f[j + o] > 1
    BY <2>1, <1>6, <1>8
  <2> QED
    BY <2>1, <2>2, <1>4
<1>12. g \in [1 .. (m - o) -> 1 .. (n - 1)]
  BY <1>11
<1> HIDE DEF g
<1>13. \A j, k \in 1 .. (m - o) : j < k => g[j] < g[k]
  <2> TAKE j, k \in 1 .. (m - o)
  <2> HAVE j < k
  <2>1. f[j + o] < f[k + o]
    BY <1>6, <1>11
  <2> QED
    BY SMTT(20), <2>1, <1>11
<1>14. \A j \in 1 .. (m - o) : Alike(r[g[j]], q[j])
  BY <1>6, <1>10, <1>11
<1>15. \A k \in 1 .. (n - 1) : Unshown(r[k]) \/ \E j \in 1 .. (m - o) : g[j] = k
  <2> TAKE k \in 1 .. (n - 1)
  <2>1. k + 1 \in 1 .. n /\ r[k] = s[k + 1]
    BY <1>1, <1>4
  <2>2. ASSUME NEW j \in 1 .. m, f[j] = k + 1 PROVE \E i \in 1 .. (m - o) : g[i] = k
    <3>1. j - o \in 1 .. (m - o) /\ (j - o) + o = j
      BY <2>2, <1>2, <1>8
    <3>2. g[j - o] + 1 = f[j] /\ g[j - o] \in 1 .. (n - 1)
      BY <3>1, <1>11
    <3> QED
      BY <3>1, <3>2, <2>2
  <2> QED
    BY <2>1, <2>2, <1>6
<1>16. Picks(r, q, g)
  BY <1>4, <1>10, <1>12, <1>13, <1>14, <1>15 DEF Picks
<1>17. IF o = 0 THEN Unshown(s[1]) ELSE Alike(s[1], d[1])
  BY <1>1, <1>6, <1>7, <1>8
<1> QED
  BY <1>3, <1>4, <1>9, <1>10, <1>16, <1>17 DEF Thins

LEMMA NothingThins ==
  ASSUME NEW D, NEW d \in Seq(D), Thins(<<>>, d)
  PROVE  d = <<>>
<1>1. PICK f : Picks(<<>>, d, f)
  BY DEF Thins
<1>2. 1 \notin 1 .. Len(d)
  BY <1>1 DEF Picks
<1> QED
  BY <1>2

LEMMA UnshownThins ==
  ASSUME NEW p, \A k \in 1 .. Len(p) : Unshown(p[k])
  PROVE  Thins(p, <<>>)
<1>1. Picks(p, <<>>, [k \in {} |-> k])
  BY DEF Picks
<1> QED
  BY <1>1 DEF Thins

LEMMA JoinedThins ==
  ASSUME NEW S, NEW D, NEW p \in Seq(S), NEW s \in Seq(S), NEW q \in Seq(D), NEW d \in Seq(D),
         Thins(p, q), Thins(s, d)
  PROVE  Thins(p \o s, q \o d)
<1>1. PICK a \in Nat, b \in Nat, n \in Nat, m \in Nat :
        a = Len(p) /\ n = Len(s) /\ b = Len(q) /\ m = Len(d)
  OBVIOUS
<1>2. PICK u, w : u = p \o s /\ w = q \o d
  OBVIOUS
<1>3. /\ Len(u) = a + n /\ (\A k \in 1 .. a : u[k] = p[k]) /\ (\A k \in 1 .. n : u[a + k] = s[k])
  BY <1>1, <1>2
<1>4. /\ Len(w) = b + m /\ (\A k \in 1 .. b : w[k] = q[k]) /\ (\A k \in 1 .. m : w[b + k] = d[k])
  BY <1>1, <1>2
<1>5. PICK f : Picks(p, q, f)
  BY DEF Thins
<1>6. PICK g : Picks(s, d, g)
  BY DEF Thins
<1>7. /\ f \in [1 .. b -> 1 .. a]
      /\ \A j, k \in 1 .. b : j < k => f[j] < f[k]
      /\ \A j \in 1 .. b : Alike(p[f[j]], q[j])
      /\ \A k \in 1 .. a : Unshown(p[k]) \/ \E j \in 1 .. b : f[j] = k
  BY <1>1, <1>5 DEF Picks
<1>8. /\ g \in [1 .. m -> 1 .. n]
      /\ \A j, k \in 1 .. m : j < k => g[j] < g[k]
      /\ \A j \in 1 .. m : Alike(s[g[j]], d[j])
      /\ \A k \in 1 .. n : Unshown(s[k]) \/ \E j \in 1 .. m : g[j] = k
  BY <1>1, <1>6 DEF Picks
<1> DEFINE e == [j \in 1 .. (b + m) |-> IF j <= b THEN f[j] ELSE a + g[j - b]]
<1>9. \A j \in 1 .. b : j \in 1 .. (b + m) /\ e[j] = f[j] /\ e[j] \in 1 .. a
  BY <1>7
<1>10. \A j \in 1 .. m : b + j \in 1 .. (b + m) /\ e[b + j] = a + g[j] /\ g[j] \in 1 .. n
  BY <1>8
<1>11. \A j \in 1 .. (b + m) : j \in 1 .. b \/ (j - b \in 1 .. m /\ j = b + (j - b))
  BY <1>1
<1>12. \A k \in 1 .. (a + n) : k \in 1 .. a \/ (k - a \in 1 .. n /\ k = a + (k - a))
  BY <1>1
<1> HIDE DEF e
<1>13. \A j \in 1 .. (b + m) : e[j] \in 1 .. (a + n) /\ Alike(u[e[j]], w[j])
  <2> TAKE j \in 1 .. (b + m)
  <2>1. CASE j \in 1 .. b
    <3>1. e[j] = f[j] /\ f[j] \in 1 .. a /\ Alike(p[f[j]], q[j])
      BY <2>1, <1>7, <1>9
    <3>2. u[f[j]] = p[f[j]] /\ w[j] = q[j]
      BY <2>1, <3>1, <1>3, <1>4
    <3> QED
      BY <3>1, <3>2, <1>1
  <2>2. ASSUME NEW i \in 1 .. m, j = b + i
        PROVE  e[j] \in 1 .. (a + n) /\ Alike(u[e[j]], w[j])
    <3>1. e[j] = a + g[i] /\ g[i] \in 1 .. n /\ Alike(s[g[i]], d[i])
      BY <2>2, <1>8, <1>10
    <3>2. u[a + g[i]] = s[g[i]] /\ w[b + i] = d[i]
      BY <3>1, <1>3, <1>4
    <3> QED
      BY <2>2, <3>1, <3>2, <1>1
  <2> QED
    BY <2>1, <2>2, <1>11
<1>14. e \in [1 .. (b + m) -> 1 .. (a + n)]
  BY <1>13 DEF e
<1>15. \A j, k \in 1 .. (b + m) : j < k => e[j] < e[k]
  <2> TAKE j, k \in 1 .. (b + m)
  <2> HAVE j < k
  <2>1. CASE k \in 1 .. b
    BY <2>1, <1>7, <1>9
  <2>2. ASSUME j \in 1 .. b, NEW l \in 1 .. m, k = b + l PROVE e[j] < e[k]
    <3>1. e[j] \in 1 .. a /\ e[k] = a + g[l] /\ g[l] \in 1 .. n
      BY <2>2, <1>9, <1>10
    <3> QED
      BY <3>1, <1>1
  <2>3. ASSUME NEW i \in 1 .. m, NEW l \in 1 .. m, j = b + i, k = b + l PROVE e[j] < e[k]
    <3>1. i < l
      BY <2>3, <1>1
    <3>2. g[i] < g[l]
      BY <3>1, <1>8
    <3>3. e[j] = a + g[i] /\ e[k] = a + g[l] /\ g[i] \in 1 .. n /\ g[l] \in 1 .. n
      BY <2>3, <1>10
    <3> QED
      BY <3>2, <3>3, <1>1
  <2> QED
    BY <2>1, <2>2, <2>3, <1>11
<1>16. \A k \in 1 .. (a + n) : Unshown(u[k]) \/ \E j \in 1 .. (b + m) : e[j] = k
  <2> TAKE k \in 1 .. (a + n)
  <2>1. CASE k \in 1 .. a
    BY <2>1, <1>3, <1>7, <1>9
  <2>2. ASSUME NEW i \in 1 .. n, k = a + i PROVE Unshown(u[k]) \/ \E j \in 1 .. (b + m) : e[j] = k
    <3>1. u[k] = s[i]
      BY <2>2, <1>3
    <3>2. CASE Unshown(s[i])
      BY <3>1, <3>2
    <3>3. ASSUME NEW j \in 1 .. m, g[j] = i PROVE \E l \in 1 .. (b + m) : e[l] = k
      <4>1. b + j \in 1 .. (b + m) /\ e[b + j] = a + g[j]
        BY <1>10
      <4> QED
        BY <4>1, <3>3, <2>2
    <3> QED
      BY <3>2, <3>3, <1>8
  <2> QED
    BY <2>1, <2>2, <1>12
<1>17. Picks(u, w, e)
  BY <1>3, <1>4, <1>13, <1>14, <1>15, <1>16 DEF Picks
<1> QED
  BY <1>2, <1>17 DEF Thins

-----------------------------------------------------------------------------
(* The last such stage of a finished run: there the writer's next item is the
   dumper's. *)
LEMMA LastStage ==
  ASSUME NEW t, NEW n \in Nat, NEW run, IsRun(t, run, n), run[n].left = <<>>,
         NEW d \in Seq(Shows), NEW arrays, NEW results, NEW next,
         NEW l \in 0 .. n, Shown(run[l], d, arrays, results, next)
  PROVE  \E m \in 0 .. n :
           /\ Shown(run[m], d, arrays, results, next)
           /\ d = <<>> => m = n
           /\ d # <<>> =>
                /\ m + 1 \in 0 .. n /\ Goes(t, run[m], run[m + 1])
                /\ run[m].left \in Seq(Items(t)) /\ run[m].left # <<>>
                /\ Alike(Head(run[m].left), Head(d)) /\ Thins(Tail(run[m].left), Tail(d))
<1> DEFINE Is(k) == Shown(run[k], d, arrays, results, next)
           T == {k \in 0 .. n : Is(n - k)}
<1>1. PICK k \in T : \A j \in T : k <= j
  <2>1. n - l \in 0 .. n /\ n - (n - l) = l
    OBVIOUS
  <2>2. n - l \in T /\ T \subseteq Nat
    BY <2>1
  <2> HIDE DEF T
  <2> QED
    BY <2>2, Smallest
<1>2. PICK m \in 0 .. n : m = n - k /\ Is(m)
  BY <1>1
<1>3. m + 1 \in 0 .. n => ~Is(m + 1)
  <2> SUFFICES ASSUME m + 1 \in 0 .. n, Is(m + 1) PROVE FALSE
    OBVIOUS
  <2> HIDE DEF Is
  <2>1. k \in 0 .. n /\ k - 1 \in 0 .. n /\ n - (k - 1) = m + 1
    BY <1>1, <1>2
  <2>2. k - 1 \in T
    BY <2>1
  <2> QED
    BY <1>1, <2>1, <2>2
<1>4. PICK x : x = run[m]
  OBVIOUS
<1>5. x.left \in Seq(Items(t)) /\ Thins(x.left, d)
  BY <1>2, <1>4 DEF IsRun, Shown
<1>6. m = n \/ (m + 1 \in 0 .. n /\ m \in 0 .. (n - 1))
  OBVIOUS
<1>7. m # n => m + 1 \in 0 .. n /\ Goes(t, x, run[m + 1])
  BY <1>4, <1>6 DEF IsRun
<1>8. CASE x.left = <<>>
  <2>1. d = <<>>
    BY <1>5, <1>8, NothingThins
  <2>2. m = n
    BY <1>7, <1>8 DEF Goes
  <2> QED
    BY <1>2, <2>1, <2>2
<1>9. CASE x.left # <<>>
  <2>1. m # n
    BY <1>4, <1>9
  <2>2. m + 1 \in 0 .. n /\ Goes(t, x, run[m + 1])
    BY <1>7, <2>1
  <2>3. \/ Unshown(Head(x.left)) /\ Thins(Tail(x.left), d)
        \/ d # <<>> /\ Alike(Head(x.left), Head(d)) /\ Thins(Tail(x.left), Tail(d))
    BY <1>5, <1>9, FrontThins
  <2>4. CASE Unshown(Head(x.left)) /\ Thins(Tail(x.left), d)
    <3>1. Undefined \notin Arrays
      BY TestCasesAssumption
    <3>2. run[m + 1] = Stage(Tail(x.left), x.arrays, x.results, x.next)
      BY <2>2, <2>4, <3>1 DEF Goes, Unshown
    <3>3. Is(m + 1)
      BY <1>2, <1>4, <2>4, <3>2 DEF Shown, Stage
    <3> QED
      BY <1>3, <2>2, <3>3
  <2> QED
    BY <1>2, <1>4, <1>5, <1>9, <2>2, <2>3, <2>4
<1> QED
  BY <1>8, <1>9

-----------------------------------------------------------------------------
(* Every step of the writer is the next stage. *)
LEMMA WriterGoes ==
  ASSUME InOrder, DOMAIN retIndexes \subseteq Nat, Serialize
  PROVE  Goes(tc, Written, Written') /\ DOMAIN retIndexes' \subseteq Nat /\ tc' = tc
<1>1. PICK x, y, item : x = Written /\ y = Written' /\ item = Head(todo)
  OBVIOUS
<1>2. x.left = todo /\ x.arrays = valueIndexes /\ x.results = retIndexes /\ x.next = nextIndex
  BY <1>1 DEF Stage, Written
<1>3. todo # <<>> /\ item \in Items(tc) /\ tc \in TestCases
  <2>1. todo # <<>>
    BY DEF Serialize, WriteNumber, WriteCall, NumberResult, WriteValue, Upcoming
  <2>2. todo \in Seq(Items(tc)) /\ tc \in TestCases
    BY DEF InOrder
  <2> QED
    BY SMTT(20), <1>1, <2>1, <2>2
<1>4. y = Stage(todo', valueIndexes', retIndexes', nextIndex')
  BY <1>1 DEF Written
<1>5. CASE WriteNumber
  <2>1. /\ item.is \in {"word", "flag"} /\ tc' = tc /\ retIndexes' = retIndexes
        /\ y = Stage(Tail(todo), valueIndexes, retIndexes, nextIndex)
    BY <1>1, <1>4, <1>5 DEF WriteNumber, Upcoming
  <2> QED
    BY <1>1, <1>2, <1>3, <2>1 DEF Goes
<1>6. CASE WriteCall
  <2>1. /\ item.is = "call" /\ tc' = tc /\ retIndexes' = retIndexes
        /\ y = Stage(SerializeCall(tc.calls[item.n], item.n) \o Tail(todo), valueIndexes, retIndexes, nextIndex)
    BY <1>1, <1>4, <1>6 DEF WriteCall, Upcoming
  <2> QED
    BY Zenon, <1>1, <1>2, <1>3, <2>1 DEF Goes
<1>7. CASE NumberResult
  <2>1. /\ item.is = "result" /\ tc' = tc /\ retIndexes' = Put(retIndexes, item.n, nextIndex)
        /\ y = Stage(Tail(todo), valueIndexes, Put(retIndexes, item.n, nextIndex), nextIndex + 1)
    BY <1>1, <1>4, <1>7 DEF NumberResult, Upcoming
  <2>2. item.n \in DOMAIN tc.calls
    BY <1>3, <2>1 DEF Items
  <2>3. DOMAIN retIndexes' \subseteq Nat
    BY <1>3, <2>1, <2>2, TestCaseTyped DEF Put
  <2> QED
    BY <1>1, <1>2, <1>3, <2>1, <2>3 DEF Goes
<1>8. CASE WriteValue
  <2>1. /\ item.is = "value" /\ tc' = tc /\ retIndexes' = retIndexes
        /\ WriteScalar(item.n) \/ WritePlaceholder(item.n) \/ WriteKnownArray(item.n) \/ WriteNewArray(item.n)
    BY Zenon, <1>1, <1>8 DEF WriteValue, Upcoming, WriteScalar, WritePlaceholder, WriteKnownArray, WriteNewArray
  <2>2. CASE WriteNewArray(item.n)
    <3>1. /\ item.n \in Arrays \ DOMAIN valueIndexes
          /\ y = Stage(WritesOf(tc, item.n) \o Tail(todo), Put(valueIndexes, item.n, nextIndex), retIndexes, nextIndex + 1)
      BY Zenon, <1>1, <1>4, <2>2 DEF WriteNewArray, WritesOf
    <3> QED
      BY Zenon, <1>1, <1>2, <1>3, <2>1, <3>1 DEF Goes
  <2>3. CASE WriteScalar(item.n) \/ WritePlaceholder(item.n) \/ WriteKnownArray(item.n)
    <3>1. y = Stage(Tail(todo), valueIndexes, retIndexes, nextIndex) /\ item.n \notin Arrays \ DOMAIN valueIndexes
      BY <1>4, <2>3, TestCasesAssumption, TokensAssumption DEF WriteScalar, WritePlaceholder, WriteKnownArray
    <3> QED
      BY <1>1, <1>2, <1>3, <2>1, <3>1 DEF Goes
  <2> QED
    BY Zenon, <2>1, <2>2, <2>3
<1> QED
  BY <1>5, <1>6, <1>7, <1>8 DEF Serialize

LEMMA WriterLeads ==
  ASSUME DumperFollows, InOrder, InOrder', Serialize, UNCHANGED dumper
  PROVE  DumperFollows'
<1>1. PICK n \in Nat : \E run : Ran(n, run)
  BY DEF DumperFollows
<1>2. PICK run : Ran(n, run)
  BY <1>1
<1>3. PICK y : y = Written'
  OBVIOUS
<1>4. Goes(tc, run[n], y) /\ DOMAIN retIndexes' \subseteq Nat /\ tc' = tc
  BY <1>2, <1>3, WriterGoes DEF DumperFollows, Ran
<1>5. y.left \in Seq(Items(tc))
  BY <1>3, <1>4 DEF InOrder, Stage, Written
<1> DEFINE longer == [k \in 0 .. (n + 1) |-> IF k = n + 1 THEN y ELSE run[k]]
<1>6. longer[n + 1] = y /\ \A k \in 0 .. n : longer[k] = run[k] /\ k \in 0 .. (n + 1)
  OBVIOUS
<1> HIDE DEF longer
<1>7. IsRun(tc, longer, n + 1)
  <2>1. \A k \in 0 .. (n + 1) : k = n + 1 \/ k \in 0 .. n
    OBVIOUS
  <2>2. \A k \in 0 .. (n + 1) : longer[k].left \in Seq(Items(tc))
    BY <1>2, <1>5, <1>6, <2>1 DEF IsRun, Ran
  <2>3. ASSUME NEW k \in 0 .. n PROVE Goes(tc, longer[k], longer[k + 1])
    <3>1. k = n \/ (k \in 0 .. (n - 1) /\ k + 1 \in 0 .. n)
      OBVIOUS
    <3> QED
      BY <3>1, <1>2, <1>4, <1>6 DEF IsRun, Ran
  <2>4. (n + 1) - 1 = n
    OBVIOUS
  <2> QED
    BY <2>2, <2>3, <2>4 DEF IsRun
<1>8. \E m \in 0 .. (n + 1) : Shown(longer[m], toDump, valueToIndex, returned, nextValue)
  BY <1>2, <1>6 DEF Ran
<1>9. n + 1 \in Nat /\ Ran(n + 1, longer)'
  BY <1>3, <1>4, <1>6, <1>7, <1>8 DEF Ran, dumper
<1> QED
  BY <1>4, <1>9 DEF DumperFollows, dumper

-----------------------------------------------------------------------------
(* Items of both lists, so that pieces can be joined. *)
Pieces == [is : {"word", "flag", "call", "result", "value"}, n : Value \cup BOOLEAN]

LEMMA SameThins ==
  ASSUME NEW is \in {"call", "value"}, NEW e \in Seq(Value),
         NEW u, u = [k \in DOMAIN e |-> Item(is, e[k])]
  PROVE  u \in Seq(Pieces) /\ u \in Seq(Shows) /\ Thins(u, u)
<1>1. PICK n \in Nat : n = Len(e) /\ DOMAIN e = 1 .. n
  OBVIOUS
<1>2. \A v \in Value : LET x == Item(is, v) IN x \in Pieces /\ x \in Shows /\ Alike(x, x)
  BY DEF Pieces, Shows, Alike, Item
<1>3. \A k \in 1 .. n : u[k] \in Pieces /\ u[k] \in Shows /\ Alike(u[k], u[k])
  BY <1>1, <1>2
<1>4. u = [k \in 1 .. n |-> u[k]]
  BY <1>1
<1>5. u \in [1 .. n -> Pieces] /\ u \in [1 .. n -> Shows]
  BY ONLY <1>3, <1>4
<1>6. u \in Seq(Pieces) /\ u \in Seq(Shows) /\ Len(u) = n
  BY <1>5
<1>7. Picks(u, u, [k \in 1 .. n |-> k])
  BY <1>3, <1>6 DEF Picks
<1> QED
  BY <1>6, <1>7 DEF Thins

LEMMA ItemsArePieces ==
  ASSUME NEW t \in TestCases
  PROVE  Items(t) \subseteq Pieces
<1>1. DOMAIN t.calls \subseteq Nat
  BY TestCaseTyped
<1> QED
  BY <1>1 DEF Items, Pieces, Writable, Value

LEMMA CallThins ==
  ASSUME NEW t \in TestCases, NEW i \in DOMAIN t.calls, NEW s \in Seq(Pieces), NEW d \in Seq(Shows),
         Thins(s, d), NEW c, c = t.calls[i],
         NEW shown, shown = (IF c.this = NoThis THEN <<>> ELSE <<Item("value", c.this)>>)
                              \o [k \in DOMAIN c.args |-> Item("value", c.args[k])]
                              \o <<Item("RET", i)>> \o d
  PROVE  shown \in Seq(Shows) /\ Thins(SerializeCall(c, i) \o s, shown)
<1>1. c \in Call /\ i \in Nat /\ Undefined \in Value
  BY SMTT(20), TestCaseTyped, TestCasesAssumption DEF Value
<1>2. c.this \in Value \cup {NoThis} /\ c.args \in Seq(Value) /\ c.callee \in Nat /\ c.ctor \in BOOLEAN
  BY Zenon, <1>1 DEF Call
<1>3. PICK this : this = IF c.this = NoThis THEN Undefined ELSE c.this
  BY Zenon
<1>4. PICK n \in Nat : n = Len(c.args) /\ DOMAIN c.args = 1 .. n
  BY SMTT(20), <1>2
<1>5. PICK head : head = <<Word(c.callee), ToWrite(this), Flag(c.ctor), Word(Len(c.args))>>
  OBVIOUS
<1>6. PICK top : top = IF c.this = NoThis THEN <<>> ELSE <<Item("value", c.this)>>
  OBVIOUS
<1>7. head \in Seq(Pieces) /\ top \in Seq(Shows) /\ Thins(head, top)
  <2>1. this \in Value /\ n \in Value /\ c.callee \in Value
    BY Zenon, <1>1, <1>2, <1>3 DEF Value
  <2>2. /\ Word(c.callee) \in Pieces /\ ToWrite(this) \in Pieces /\ Flag(c.ctor) \in Pieces /\ Word(n) \in Pieces
    BY Zenon, <1>2, <2>1 DEF Word, Flag, ToWrite, Item, Pieces
  <2>3. head \in Seq(Pieces) /\ Len(head) = 4
    BY SMTT(20), <1>4, <1>5, <2>2
  <2>4. Unshown(head[1]) /\ Unshown(head[3]) /\ Unshown(head[4])
    BY Zenon, <1>5 DEF Unshown, Word, Flag, Item
  <2>5. CASE c.this = NoThis
    <3>1. Unshown(head[2])
      BY Zenon, <1>3, <1>5, <2>5 DEF Unshown, ToWrite, Item
    <3>2. \A k \in 1 .. Len(head) : Unshown(head[k])
      BY <2>3, <2>4, <3>1
    <3>3. top = <<>> /\ top \in Seq(Shows)
      BY <1>6, <2>5
    <3>4. Thins(head, <<>>)
      BY ONLY Zenon, <3>2, UnshownThins
    <3> QED
      BY Zenon, <2>3, <3>3, <3>4
  <2>6. CASE c.this # NoThis
    <3>1. top = <<Item("value", c.this)>> /\ Item("value", c.this) \in Shows
      BY Zenon, <1>2, <1>6, <2>6 DEF Item, Shows
    <3>2. top \in Seq(Shows) /\ Len(top) = 1
      BY <3>1
    <3>3. Alike(head[2], top[1])
      BY Zenon, <1>3, <1>5, <2>6, <3>1 DEF Alike, ToWrite, Item
    <3> DEFINE f == [j \in {1} |-> 2]
    <3>4. Picks(head, top, f)
      <4>1. f \in [1 .. 1 -> 1 .. 4] /\ f[1] = 2
        BY SMTT(20)
      <4> HIDE DEF f
      <4>2. \A k \in 1 .. 4 : Unshown(head[k]) \/ f[1] = k
        BY SMTT(20), <2>4, <4>1
      <4> QED
        BY SMTT(20), <2>3, <3>2, <3>3, <4>1, <4>2 DEF Picks
    <3> QED
      BY Zenon, <2>3, <3>2, <3>4 DEF Thins
  <2> QED
    BY Zenon, <2>5, <2>6
<1>8. PICK args : args = [k \in DOMAIN c.args |-> Item("value", c.args[k])]
  BY Zenon
<1>9. args = [k \in DOMAIN c.args |-> ToWrite(c.args[k])]
  BY Zenon, <1>8 DEF ToWrite
<1>10. args \in Seq(Pieces) /\ args \in Seq(Shows) /\ Thins(args, args)
  BY Zenon, <1>2, <1>8, SameThins
<1>11. PICK last : last = <<Item("result", i)>>
  OBVIOUS
<1>12. PICK ret : ret = <<Item("RET", i)>>
  OBVIOUS
<1>13. last \in Seq(Pieces) /\ ret \in Seq(Shows) /\ Thins(last, ret)
  <2>1. Item("result", i) \in Pieces /\ Item("RET", i) \in Shows /\ Alike(Item("result", i), Item("RET", i))
    BY Zenon, <1>1 DEF Pieces, Shows, Alike, Item, Value
  <2>2. Len(last) = 1 /\ Len(ret) = 1 /\ Alike(last[1], ret[1])
    BY Zenon, <1>11, <1>12, <2>1
  <2>3. Picks(last, ret, [k \in {1} |-> 1])
    BY SMTT(20), <2>2 DEF Picks
  <2> QED
    BY SMTT(20), <1>11, <1>12, <2>1, <2>3 DEF Thins
<1>14. PICK p, q : p = head \o args /\ q = top \o args
  OBVIOUS
<1>15. p \in Seq(Pieces) /\ q \in Seq(Shows) /\ Thins(p, q)
  BY SMTT(20), <1>7, <1>10, <1>14, JoinedThins
<1>16. PICK u, w : u = p \o last /\ w = q \o ret
  OBVIOUS
<1>17. u \in Seq(Pieces) /\ w \in Seq(Shows) /\ Thins(u, w)
  BY <1>13, <1>15, <1>16, JoinedThins
<1>18. w \o d \in Seq(Shows) /\ Thins(u \o s, w \o d)
  BY SMTT(20), <1>17, JoinedThins
<1>19. SerializeCall(c, i) = head \o args \o last
  BY Zenon, <1>3, <1>5, <1>9, <1>11 DEF SerializeCall
<1>20. shown = top \o args \o ret \o d
  BY <1>6, <1>8, <1>12
<1> QED
  BY ONLY Zenon, <1>14, <1>16, <1>18, <1>19, <1>20

LEMMA ElementsThin ==
  ASSUME NEW t \in TestCases, NEW a \in DOMAIN t.heap, NEW s \in Seq(Pieces), NEW d \in Seq(Shows),
         Thins(s, d),
         NEW shown, shown = [k \in DOMAIN t.heap[a] |-> Item("value", t.heap[a][k])] \o d
  PROVE  shown \in Seq(Shows) /\ Thins(WritesOf(t, a) \o s, shown)
<1>1. PICK e : e = t.heap[a]
  OBVIOUS
<1>2. PICK u : u = WritesOf(t, a)
  OBVIOUS
<1>3. u = [k \in DOMAIN e |-> Item("value", e[k])] /\ e \in Seq(Value)
  BY <1>1, <1>2, TestCaseTyped DEF WritesOf, ToWrite
<1>4. u \in Seq(Pieces) /\ u \in Seq(Shows) /\ Thins(u, u)
  BY <1>3, SameThins
<1>5. u \o d \in Seq(Shows) /\ Thins(u \o s, u \o d)
  BY <1>4, JoinedThins
<1> QED
  BY <1>1, <1>2, <1>3, <1>5

LEMMA DumperGoes ==
  ASSUME tc \in TestCases, toDump \in Seq(Shows), Dump,
         NEW x, NEW y, Goes(tc, x, y), Shown(x, toDump, valueToIndex, returned, nextValue),
         x.left \in Seq(Items(tc)), x.left # <<>>,
         Alike(Head(x.left), Head(toDump)), Thins(Tail(x.left), Tail(toDump))
  PROVE  toDump' \in Seq(Shows) /\ Shown(y, toDump', valueToIndex', returned', nextValue')
<1>1. PICK item : item = Head(x.left)
  OBVIOUS
<1>2. PICK s : s = Tail(x.left)
  OBVIOUS
<1>3. PICK d : d = Tail(toDump)
  OBVIOUS
<1>4. toDump # <<>>
  BY Zenon DEF Dump, DumpFunctionCall, DumpReturn, DumpScalar, DumpArray, DumpReference, Dumping
<1>5. item \in Items(tc) /\ s \in Seq(Pieces) /\ d \in Seq(Shows) /\ Thins(s, d)
  <2>1. item \in Items(tc) /\ s \in Seq(Items(tc))
    BY <1>1, <1>2
  <2>2. s \in Seq(Pieces)
    BY <2>1, ItemsArePieces
  <2> QED
    BY <1>2, <1>3, <1>4, <2>1, <2>2
<1>6. item.is \in {"call", "result", "value"} /\ Head(toDump).n = item.n
  BY <1>1 DEF Alike, Item
<1>7. Head(toDump).is = IF item.is = "result" THEN "RET" ELSE item.is
  BY <1>1 DEF Alike, Item
<1>8. x.arrays = valueToIndex /\ x.results = returned /\ x.next = nextValue
  BY DEF Shown
<1>9. CASE DumpFunctionCall
  <2>1. item.is = "call"
    BY Zenon, <1>6, <1>7, <1>9 DEF DumpFunctionCall, Dumping
  <2>2. item.n \in DOMAIN tc.calls
    BY <1>5, <2>1 DEF Items
  <2>3. y = Stage(SerializeCall(tc.calls[item.n], item.n) \o s, valueToIndex, returned, nextValue)
    BY <1>1, <1>2, <1>8, <2>1 DEF Goes
  <2>4. PICK i, c, shown : i = item.n /\ c = tc.calls[i] /\ shown = toDump'
    BY Zenon
  <2>5. UNCHANGED <<valueToIndex, nextValue, returned>>
    BY ZenonT(30), <1>9 DEF DumpFunctionCall
  <2>6. shown = (IF c.this = NoThis THEN <<>> ELSE <<Item("value", c.this)>>)
                  \o [k \in DOMAIN c.args |-> Item("value", c.args[k])]
                  \o <<Item("RET", i)>> \o d
    BY Zenon, <1>3, <1>6, <1>9, <2>4 DEF DumpFunctionCall
  <2>7. i \in DOMAIN tc.calls /\ c = tc.calls[i]
    BY Zenon, <2>2, <2>4
  <2>8. shown \in Seq(Shows) /\ Thins(SerializeCall(c, i) \o s, shown)
    BY ONLY ZenonT(30), <1>5, tc \in TestCases, <2>6, <2>7, CallThins
  <2> QED
    BY Zenon, <2>3, <2>4, <2>5, <2>8 DEF Shown, Stage
<1>10. CASE DumpReturn
  <2>1. item.is = "result"
    BY <1>6, <1>7, <1>10 DEF DumpReturn, Dumping
  <2>2. y = Stage(s, valueToIndex, Put(returned, item.n, nextValue), nextValue + 1)
    BY <1>1, <1>2, <1>8, <2>1 DEF Goes
  <2>3. /\ returned' = Put(returned, item.n, nextValue) /\ nextValue' = nextValue + 1
        /\ toDump' = d /\ valueToIndex' = valueToIndex
    BY <1>3, <1>6, <1>10 DEF DumpReturn
  <2> QED
    BY <1>5, <2>2, <2>3 DEF Shown, Stage
<1>11. CASE DumpArray
  <2>1. item.is = "value" /\ item.n \in Arrays \ DOMAIN valueToIndex
    BY Zenon, <1>6, <1>7, <1>11 DEF DumpArray, Dumping
  <2>2. item.n \in DOMAIN tc.heap
    BY <1>5, <2>1, TestCasesAssumption DEF Items, Writable
  <2>3. y = Stage(WritesOf(tc, item.n) \o s, Put(valueToIndex, item.n, nextValue), returned, nextValue + 1)
    BY Zenon, <1>1, <1>2, <1>8, <2>1 DEF Goes
  <2>4. /\ valueToIndex' = Put(valueToIndex, item.n, nextValue) /\ nextValue' = nextValue + 1
        /\ toDump' = [k \in DOMAIN tc.heap[item.n] |-> Item("value", tc.heap[item.n][k])] \o d
        /\ returned' = returned
    BY Zenon, <1>3, <1>6, <1>11 DEF DumpArray
  <2>5. PICK shown : shown = toDump'
    OBVIOUS
  <2>6. PICK a : a = item.n
    BY Zenon
  <2>7. shown \in Seq(Shows) /\ Thins(WritesOf(tc, a) \o s, shown)
    BY <1>5, <2>2, <2>4, <2>5, <2>6, ElementsThin
  <2> QED
    BY Zenon, <2>3, <2>4, <2>5, <2>6, <2>7 DEF Shown, Stage
<1>12. CASE DumpScalar \/ DumpReference
  <2>1. item.is = "value"
    BY <1>6, <1>7, <1>12 DEF DumpScalar, DumpReference, Dumping
  <2>2. item.n \notin Arrays \ DOMAIN valueToIndex
    <3>1. DOMAIN tc.calls \subseteq Nat
      BY TestCaseTyped
    <3> QED
      BY <1>6, <1>12, <3>1, TestCasesAssumption, TokensAssumption DEF DumpScalar, DumpReference
  <2>3. y = Stage(s, valueToIndex, returned, nextValue)
    BY <1>1, <1>2, <1>8, <2>1, <2>2 DEF Goes
  <2>4. toDump' = d /\ UNCHANGED <<valueToIndex, nextValue, returned>>
    BY <1>3, <1>12 DEF DumpScalar, DumpReference
  <2> QED
    BY <1>5, <2>3, <2>4 DEF Shown, Stage
<1> QED
  BY <1>9, <1>10, <1>11, <1>12 DEF Dump

LEMMA DumperKeepsUp ==
  ASSUME DumperFollows, InOrder, Dump
  PROVE  DumperFollows'
<1>1. todo = <<>> /\ toDump # <<>> /\ UNCHANGED <<tc, writer>>
  BY Zenon DEF Dump, DumpFunctionCall, DumpReturn, DumpScalar, DumpArray, DumpReference, Dumping, Keep, AllWritten
<1>2. toDump \in Seq(Shows) /\ tc \in TestCases
  BY DEF DumperFollows, InOrder
<1>3. PICK n \in Nat : \E run : Ran(n, run)
  BY DEF DumperFollows
<1>4. PICK run : Ran(n, run)
  BY <1>3
<1>5. run[n].left = <<>>
  BY <1>1, <1>4 DEF Stage, Ran, Written
<1>6. PICK m \in 0 .. n :
        /\ Shown(run[m], toDump, valueToIndex, returned, nextValue)
        /\ m + 1 \in 0 .. n /\ Goes(tc, run[m], run[m + 1])
        /\ run[m].left \in Seq(Items(tc)) /\ run[m].left # <<>>
        /\ Alike(Head(run[m].left), Head(toDump)) /\ Thins(Tail(run[m].left), Tail(toDump))
  BY <1>1, <1>2, <1>4, <1>5, LastStage DEF Ran
<1>7. toDump' \in Seq(Shows) /\ Shown(run[m + 1], toDump', valueToIndex', returned', nextValue')
  BY <1>2, <1>6, DumperGoes
<1>8. Ran(n, run)' /\ DOMAIN retIndexes' \subseteq Nat
  BY <1>1, <1>4, <1>6, <1>7 DEF writer, DumperFollows, Ran, Written
<1> QED
  BY Zenon, <1>7, <1>8 DEF DumperFollows

LEMMA DumperStarts ==
  ASSUME Init
  PROVE  DumperFollows
<1>1. InOrder
  BY WritingStartsInOrder DEF Init
<1>2. PICK run : run = [k \in {0} |-> Written]
  OBVIOUS
<1>3. run[0] = Written /\ run[0].left = todo
  BY <1>2 DEF Stage, Written
<1>4. (\A k \in 0 .. 0 : k = 0) /\ 0 .. (0 - 1) = {} /\ 0 \in 0 .. 0
  OBVIOUS
<1>5. IsRun(tc, run, 0)
  BY <1>1, <1>3, <1>4 DEF IsRun, InOrder
<1>6. PICK calls, head : /\ calls = [i \in DOMAIN tc.calls |-> Item("call", i)]
                         /\ head = <<Word(tc.root), Word(Len(tc.calls))>>
  OBVIOUS
<1>7. todo = head \o calls /\ toDump = calls
  BY <1>6 DEF Init, StartWriting, StartDumping
<1>8. PICK n \in Nat : n = Len(tc.calls) /\ DOMAIN tc.calls = 1 .. n /\ tc.root \in Nat
  BY <1>1, TestCaseTyped DEF InOrder
<1>9. calls \in Seq(Pieces) /\ calls \in Seq(Shows) /\ Thins(calls, calls)
  <2>1. PICK e : e = [i \in 1 .. n |-> i]
    OBVIOUS
  <2>2. e \in Seq(Value) /\ calls = [k \in DOMAIN e |-> Item("call", e[k])]
    BY <1>6, <1>8, <2>1 DEF Value
  <2> QED
    BY <2>2, SameThins
<1>10. head \in Seq(Pieces) /\ \A k \in 1 .. Len(head) : Unshown(head[k])
  <2>1. Word(tc.root) \in Pieces /\ Word(n) \in Pieces /\ Unshown(Word(tc.root)) /\ Unshown(Word(n))
    BY <1>8 DEF Pieces, Word, Item, Value, Unshown
  <2> QED
    BY <1>6, <1>8, <2>1
<1>11. Thins(todo, toDump)
  <2>1. <<>> \in Seq(Shows) /\ <<>> \o calls = calls
    BY <1>9
  <2>2. Thins(head, <<>>)
    BY ONLY <1>10, UnshownThins
  <2>3. Thins(head \o calls, <<>> \o calls)
    BY <1>9, <1>10, <2>1, <2>2, JoinedThins
  <2> QED
    BY <1>7, <2>1, <2>3
<1>12. Shown(run[0], toDump, valueToIndex, returned, nextValue) /\ DOMAIN retIndexes \subseteq Nat
  BY <1>3, <1>11 DEF Shown, Stage, Written, Init, StartWriting, StartDumping, EmptyMap
<1>13. Ran(0, run) /\ 0 \in Nat
  BY <1>3, <1>4, <1>5, <1>12 DEF Ran
<1> QED
  BY <1>7, <1>9, <1>12, <1>13 DEF DumperFollows

LEMMA StepKeepsDumper ==
  ASSUME DumperFollows, InOrder, [Next]_vars
  PROVE  DumperFollows'
<1>1. InOrder'
  BY StepKeepsOrder
<1>2. CASE WriteOn
  BY <1>1, <1>2, WriterLeads DEF WriteOn
<1>3. CASE DumpOn
  BY <1>3, DumperKeepsUp DEF DumpOn
<1>4. ReadOn => UNCHANGED <<tc, writer, dumper>>
  BY Zenon DEF ReadOn, Deserialize, ReadRoot, ReadCallsCount, ReadCallee, ReadCtor, ReadArgsCount,
         NextResult, ReadScalar, ReadArray, ReadReference, Read
<1>5. SynthesiseOn => UNCHANGED <<tc, writer, dumper>>
  BY Zenon DEF SynthesiseOn, Synthesise, EnterMainFunction, SynthesiseCall, SynthesiseKnown,
         SynthesisePlaceholder, SynthesiseScalar, SynthesiseArray, UseVariable,
         SynthesiseFunctionCall, Synthesises
<1>6. Finished \/ UNCHANGED vars => UNCHANGED <<tc, writer, dumper>>
  BY DEF Finished, vars
<1>7. CASE UNCHANGED <<tc, writer, dumper>>
  BY <1>7 DEF DumperFollows, Ran, Written, writer, dumper
<1> QED
  BY <1>2, <1>3, <1>4, <1>5, <1>6, <1>7 DEF Next

(* When TestCaseDumper.cpp has shown a test case, every array and every result has the
   number it has in the file, although the dumper counts for itself and the file
   does not contain the numbers. *)
THEOREM DumperNumbersLikeTheFile == Spec => []NumbersOfTheFile
<1>1. Init => InOrder /\ DumperFollows
  BY WritingStartsInOrder, DumperStarts DEF Init
<1>2. InOrder /\ DumperFollows /\ [Next]_vars => InOrder' /\ DumperFollows'
  BY StepKeepsOrder, StepKeepsDumper
<1>3. DumperFollows => NumbersOfTheFile
  <2> SUFFICES ASSUME DumperFollows, todo = <<>>, toDump = <<>>
               PROVE  valueToIndex = valueIndexes /\ returned = retIndexes
    BY DEF NumbersOfTheFile, AllWritten
  <2>1. PICK n \in Nat : \E run : Ran(n, run)
    BY DEF DumperFollows
  <2>2. PICK run : Ran(n, run)
    BY <2>1
  <2>3. run[n].left = <<>> /\ toDump \in Seq(Shows)
    BY <2>2 DEF Stage, Ran, Written, DumperFollows
  <2>4. \E m \in 0 .. n : Shown(run[m], toDump, valueToIndex, returned, nextValue) /\ m = n
    BY ZenonT(30), <2>2, <2>3, LastStage DEF Ran
  <2> QED
    BY <2>2, <2>4 DEF Shown, Stage, Ran, Written
<1> QED
  BY <1>1, <1>2, <1>3, PTL DEF Spec

-----------------------------------------------------------------------------
(* The target.  The fields it expects, the elements of arrays first. *)

(* The first field is done and others take its place. *)
LEMMA FieldsReplaced ==
  ASSUME NEW S, NEW s \in Seq(S), s # <<>>, NEW new \in Seq(S)
  PROVE  /\ new \o Tail(s) \in Seq(S) /\ Len(new \o Tail(s)) = Len(new) + Len(s) - 1
         /\ \A k \in 1 .. Len(new) : (new \o Tail(s))[k] = new[k]
         /\ \A k \in Len(new) + 1 .. Len(new) + Len(s) - 1 :
              k - Len(new) + 1 \in 2 .. Len(s) /\ (new \o Tail(s))[k] = s[k - Len(new) + 1]
<1>1. PICK r \in Seq(S) : r = Tail(s)
  <2>1. Tail(s) \in Seq(S)
    OBVIOUS
  <2> QED
    BY <2>1
<1>2. Len(r) = Len(s) - 1 /\ Len(s) \in Nat /\ Len(s) > 0 /\ \A k \in 1 .. Len(r) : r[k] = s[k + 1]
  BY <1>1
<1>3. /\ new \o r \in Seq(S) /\ Len(new) \in Nat /\ Len(new \o r) = Len(new) + Len(r)
      /\ \A j \in 1 .. Len(new) : (new \o r)[j] = new[j]
      /\ \A j \in 1 .. Len(r) : (new \o r)[Len(new) + j] = r[j]
  BY Joined
<1>4. ASSUME NEW k \in Len(new) + 1 .. Len(new) + Len(s) - 1
      PROVE  k - Len(new) + 1 \in 2 .. Len(s) /\ (new \o r)[k] = s[k - Len(new) + 1]
  <2>1. PICK x \in 1 .. Len(r) : k = Len(new) + x
    <3>1. k - Len(new) \in 1 .. Len(r) /\ k = Len(new) + (k - Len(new))
      BY <1>2, <1>3
    <3> QED
      BY <3>1
  <2>2. k - Len(new) + 1 = x + 1 /\ x + 1 \in 2 .. Len(s)
    BY <1>2, <1>3, <2>1
  <2> QED
    BY <1>2, <1>3, <2>1, <2>2
<1> QED
  BY <1>1, <1>2, <1>3, <1>4

(* The element fields of an array move when the field before them is done. *)
LEMMA BlockMoves ==
  ASSUME NEW s \in Seq(Fields), s # <<>>, NEW new \in Seq(Fields), NEW n, NEW b, NEW c,
         Block(s, n, b, c), Head(s) # Item("element", n),
         \A k \in 1 .. Len(new) : new[k] # Item("element", n)
  PROVE  \E b2 : Block(new \o Tail(s), n, b2, c)
<1> DEFINE t == new \o Tail(s)
<1>1. /\ Len(t) = Len(new) + Len(s) - 1 /\ Len(new) \in Nat /\ Len(s) \in Nat /\ Len(s) > 0
      /\ \A k \in 1 .. Len(new) : t[k] = new[k]
      /\ \A k \in Len(new) + 1 .. Len(new) + Len(s) - 1 :
           k - Len(new) + 1 \in 2 .. Len(s) /\ t[k] = s[k - Len(new) + 1]
  BY FieldsReplaced
<1> HIDE DEF t
<1>2. /\ b \in Nat /\ c \in Nat /\ b + c <= Len(s)
      /\ \A k \in 1 .. Len(s) : s[k] = Item("element", n) <=> b < k /\ k <= b + c
  BY DEF Block
<1>3. 1 \in 1 .. Len(s) /\ s[1] # Item("element", n)
  BY <1>1
<1>4. CASE c = 0
  <2>1. ASSUME NEW k \in 1 .. Len(t) PROVE t[k] # Item("element", n)
    <3>1. CASE k \in 1 .. Len(new)
      BY <1>1, <3>1
    <3>2. CASE k \in Len(new) + 1 .. Len(new) + Len(s) - 1
      BY <1>1, <1>2, <1>4, <3>2
    <3> QED
      BY <1>1, <3>1, <3>2
  <2>2. Block(t, n, 0, c)
    BY <1>1, <1>2, <1>4, <2>1 DEF Block
  <2> QED
    BY <2>2 DEF t
<1>5. CASE c # 0
  <2>1. b >= 1
    BY <1>2, <1>3, <1>5
  <2>m. PICK m \in Nat : m = Len(new)
    BY <1>1
  <2>b. PICK b1 \in Nat : b = b1 + 1
    BY ONLY <1>2, <2>1
  <2>2. PICK d \in Nat : d = b1 + m
    OBVIOUS
  <2>3. ASSUME NEW k \in 1 .. Len(t)
        PROVE  t[k] = Item("element", n) <=> d < k /\ k <= d + c
    <3>1. CASE k \in 1 .. Len(new)
      <4>1. k <= d
        BY <3>1, <2>m, <2>2
      <4> QED
        BY <1>1, <2>2, <3>1, <4>1
    <3>2. CASE k \in Len(new) + 1 .. Len(new) + Len(s) - 1
      <4>1. PICK x \in 1 .. Len(s) : x = k - Len(new) + 1
        BY <1>1, <3>2
      <4>2. t[k] = s[x]
        BY <1>1, <3>2, <4>1
      <4>3. s[x] = Item("element", n) <=> b < x /\ x <= b + c
        BY <1>2
      <4>4. k \in Nat /\ x = k - m + 1 /\ x \in Nat /\ c \in Nat
        BY <1>1, <1>2, <2>m, <3>2, <4>1
      <4>5. b < x /\ x <= b + c <=> d < k /\ k <= d + c
        BY ONLY <4>4, <2>b, <2>2, m \in Nat, b1 \in Nat, d \in Nat
      <4> QED
        BY <4>2, <4>3, <4>5
    <3> QED
      BY <1>1, <3>1, <3>2
  <2>4. d + c <= Len(t)
    BY <1>1, <1>2, <2>m, <2>b, <2>2
  <2>5. Block(t, n, d, c)
    BY <1>2, <2>3, <2>4 DEF Block
  <2> QED
    BY <2>5 DEF t
<1> QED
  BY <1>4, <1>5

(* An element is read; the others of its array are behind the new fields. *)
LEMMA BlockTaken ==
  ASSUME NEW s \in Seq(Fields), s # <<>>, NEW new \in Seq(Fields), NEW n, NEW b, NEW c,
         Block(s, n, b, c), Head(s) = Item("element", n),
         \A k \in 1 .. Len(new) : new[k] # Item("element", n)
  PROVE  c > 0 /\ \E b2 : Block(new \o Tail(s), n, b2, c - 1)
<1> DEFINE t == new \o Tail(s)
<1>1. /\ Len(t) = Len(new) + Len(s) - 1 /\ Len(new) \in Nat /\ Len(s) \in Nat /\ Len(s) > 0
      /\ \A k \in 1 .. Len(new) : t[k] = new[k]
      /\ \A k \in Len(new) + 1 .. Len(new) + Len(s) - 1 :
           k - Len(new) + 1 \in 2 .. Len(s) /\ t[k] = s[k - Len(new) + 1]
  BY FieldsReplaced
<1> HIDE DEF t
<1>2. /\ b \in Nat /\ c \in Nat /\ b + c <= Len(s)
      /\ \A k \in 1 .. Len(s) : s[k] = Item("element", n) <=> b < k /\ k <= b + c
  BY DEF Block
<1>3. 1 \in 1 .. Len(s) /\ s[1] = Item("element", n)
  BY <1>1
<1>4. b = 0 /\ c > 0
  BY <1>2, <1>3
<1>5. ASSUME NEW k \in 1 .. Len(t)
      PROVE  t[k] = Item("element", n) <=> Len(new) < k /\ k <= Len(new) + (c - 1)
  <2>1. CASE k \in 1 .. Len(new)
    BY <1>1, <2>1
  <2>2. CASE k \in Len(new) + 1 .. Len(new) + Len(s) - 1
    <3>1. PICK x \in 1 .. Len(s) : x = k - Len(new) + 1
      BY <1>1, <2>2
    <3>2. t[k] = s[x]
      BY <1>1, <2>2, <3>1
    <3> QED
      BY <1>1, <1>2, <1>4, <2>2, <3>1, <3>2
  <2> QED
    BY <1>1, <2>1, <2>2
<1>6. Block(t, n, Len(new), c - 1)
  BY <1>1, <1>2, <1>4, <1>5 DEF Block
<1> QED
  BY <1>4, <1>6 DEF t

(* All elements of a new array are to be read. *)
LEMMA BlockNew ==
  ASSUME NEW s \in Seq(Fields), s # <<>>, NEW n \in Nat, NEW m \in Nat,
         \A k \in 1 .. Len(s) : s[k] # Item("element", n)
  PROVE  Block(Copies(m, Item("element", n)) \o Tail(s), n, 0, m)
<1> DEFINE new == Copies(m, Item("element", n))
<1> DEFINE t == new \o Tail(s)
<1>1. new \in Seq(Fields) /\ Len(new) = m /\ \A k \in 1 .. m : new[k] = Item("element", n)
  <2>1. Item("element", n) \in Fields
    BY DEF Item, Fields
  <2> HIDE DEF Fields
  <2> QED
    BY <2>1 DEF Copies
<1> HIDE DEF new
<1>2. /\ Len(t) = Len(new) + Len(s) - 1 /\ Len(s) \in Nat /\ Len(s) > 0
      /\ \A k \in 1 .. Len(new) : t[k] = new[k]
      /\ \A k \in Len(new) + 1 .. Len(new) + Len(s) - 1 :
           k - Len(new) + 1 \in 2 .. Len(s) /\ t[k] = s[k - Len(new) + 1]
  <2>1. Len(s) \in Nat /\ Len(s) > 0
    OBVIOUS
  <2>2. s \in Seq(Fields) /\ s # <<>> /\ new \in Seq(Fields)
    BY <1>1
  <2>3. /\ Len(t) = Len(new) + Len(s) - 1
        /\ \A k \in 1 .. Len(new) : t[k] = new[k]
        /\ \A k \in Len(new) + 1 .. Len(new) + Len(s) - 1 :
             k - Len(new) + 1 \in 2 .. Len(s) /\ t[k] = s[k - Len(new) + 1]
    BY ONLY <2>2, FieldsReplaced DEF t
  <2> QED
    BY <2>1, <2>3
<1> HIDE DEF t
<1>3. ASSUME NEW k \in 1 .. Len(t) PROVE t[k] = Item("element", n) <=> 0 < k /\ k <= 0 + m
  <2>1. CASE k \in 1 .. Len(new)
    BY <1>1, <1>2, <2>1
  <2>2. CASE k \in Len(new) + 1 .. Len(new) + Len(s) - 1
    <3>1. PICK x \in 1 .. Len(s) : x = k - Len(new) + 1
      BY <1>1, <1>2, <2>2
    <3>2. t[k] = s[x]
      BY <1>1, <1>2, <2>2, <3>1
    <3> QED
      BY <1>1, <1>2, <2>2, <3>2
  <2> QED
    BY <1>1, <1>2, <2>1, <2>2
<1>4. Block(t, n, 0, m)
  BY <1>1, <1>2, <1>3 DEF Block
<1> QED
  BY <1>4 DEF t, new

-----------------------------------------------------------------------------
(* A field that is no element is done. *)
LEMMA OtherFieldDone ==
  ASSUME NEW s \in Seq(Fields), s # <<>>, NEW new \in Seq(Fields), NEW heap,
         Head(s).is # "element", \A k \in 1 .. Len(new) : new[k].is # "element",
         ElementsFirst(s, heap)
  PROVE  /\ ElementsFirst(new \o Tail(s), heap)
         /\ Owing(s, heap) => Owing(new \o Tail(s), heap)
<1> DEFINE t == new \o Tail(s)
<1>1. /\ Len(t) = Len(new) + Len(s) - 1 /\ Len(new) \in Nat /\ Len(s) \in Nat /\ Len(s) > 0
      /\ \A k \in 1 .. Len(new) : t[k] = new[k]
      /\ \A k \in Len(new) + 1 .. Len(new) + Len(s) - 1 :
           k - Len(new) + 1 \in 2 .. Len(s) /\ t[k] = s[k - Len(new) + 1]
  BY FieldsReplaced
<1>2. \A k \in 1 .. Len(s) : s[k].is # "element"
  <2>1. s[1].is # "element" /\ \A k \in 1 .. Len(s) : 1 \in 1 .. k
    BY <1>1
  <2> QED
    BY <2>1 DEF ElementsFirst
<1> HIDE DEF t
<1>3. ASSUME NEW k \in 1 .. Len(t) PROVE t[k].is # "element"
  <2>1. CASE k \in 1 .. Len(new)
    BY <1>1, <2>1
  <2>2. CASE k \in Len(new) + 1 .. Len(new) + Len(s) - 1
    <3>1. k - Len(new) + 1 \in 1 .. Len(s)
      BY <1>1, <2>2
    <3> QED
      BY <1>1, <1>2, <2>2, <3>1
  <2> QED
    BY <1>1, <2>1, <2>2
<1>4. ASSUME Owing(s, heap) PROVE Owing(t, heap)
  <2>1. \A n : Item("element", n).is = "element"
    BY DEF Item
  <2>2. ASSUME NEW n \in DOMAIN heap PROVE \E b2 : Block(t, n, b2, Lacks(heap[n]))
    <3>1. PICK b : Block(s, n, b, Lacks(heap[n]))
      BY <1>4 DEF Owing
    <3>2. Head(s) # Item("element", n) /\ \A k \in 1 .. Len(new) : new[k] # Item("element", n)
      BY <2>1
    <3> QED
      BY ONLY s \in Seq(Fields), s # <<>>, new \in Seq(Fields), <3>1, <3>2, BlockMoves DEF t
  <2> QED
    BY <2>2 DEF Owing
<1>5. ElementsFirst(t, heap)
  BY <1>3 DEF ElementsFirst
<1> QED
  BY <1>4, <1>5 DEF t

(* A value is read.  N is the number of a new array, if it is one, and new its
   elements. *)
LEMMA ValueFieldDone ==
  ASSUME NEW s \in Seq(Fields), s # <<>>, NEW new \in Seq(Fields), NEW heap, NEW heap2, NEW N,
         N \notin DOMAIN heap, DOMAIN heap \subseteq DOMAIN heap2, DOMAIN heap2 \subseteq DOMAIN heap \cup {N},
         \A k \in 1 .. Len(new) : new[k] = Item("element", N) /\ N \in DOMAIN heap2,
         \A n \in DOMAIN heap :
           Lacks(heap2[n]) = IF Head(s) = Item("element", n) THEN Lacks(heap[n]) - 1 ELSE Lacks(heap[n]),
         N \in DOMAIN heap2 => Block(new \o Tail(s), N, 0, Lacks(heap2[N])),
         ElementsFirst(s, heap), Owing(s, heap)
  PROVE  ElementsFirst(new \o Tail(s), heap2) /\ Owing(new \o Tail(s), heap2)
<1> DEFINE t == new \o Tail(s)
<1>1. /\ Len(t) = Len(new) + Len(s) - 1 /\ Len(new) \in Nat /\ Len(s) \in Nat /\ Len(s) > 0
      /\ \A k \in 1 .. Len(new) : t[k] = new[k]
      /\ \A k \in Len(new) + 1 .. Len(new) + Len(s) - 1 :
           k - Len(new) + 1 \in 2 .. Len(s) /\ t[k] = s[k - Len(new) + 1]
  BY FieldsReplaced
<1>2. \A n : Item("element", n).is = "element" /\ Item("element", n).n = n
  BY DEF Item
<1>3. ASSUME NEW n \in DOMAIN heap2 PROVE \E b2 : Block(t, n, b2, Lacks(heap2[n]))
  <2>1. CASE n = N
    BY <2>1, <1>3
  <2>2. CASE n \in DOMAIN heap
    <3>1. PICK b : Block(s, n, b, Lacks(heap[n]))
      BY <2>2 DEF Owing
    <3>2. \A k \in 1 .. Len(new) : new[k] # Item("element", n)
      BY <1>2, <2>2
    <3>3. CASE Head(s) = Item("element", n)
      <4>1. \E b2 : Block(t, n, b2, Lacks(heap[n]) - 1)
        BY ONLY s \in Seq(Fields), s # <<>>, new \in Seq(Fields), <3>1, <3>2, <3>3, BlockTaken DEF t
      <4> QED
        BY <2>2, <3>3, <4>1
    <3>4. CASE Head(s) # Item("element", n)
      <4>1. \E b2 : Block(t, n, b2, Lacks(heap[n]))
        BY ONLY s \in Seq(Fields), s # <<>>, new \in Seq(Fields), <3>1, <3>2, <3>4, BlockMoves DEF t
      <4> QED
        BY <2>2, <3>4, <4>1
    <3> QED
      BY <3>3, <3>4
  <2> QED
    BY <2>1, <2>2
<1> HIDE DEF t
<1>4. ASSUME NEW k \in 1 .. Len(t), t[k].is = "element"
      PROVE  t[k].n \in DOMAIN heap2 /\ \A j \in 1 .. k : t[j].is = "element"
  <2>1. \A j \in 1 .. Len(new) : t[j].is = "element" /\ t[j].n \in DOMAIN heap2
    BY <1>1, <1>2
  <2>2. CASE k \in 1 .. Len(new)
    <3>1. \A j \in 1 .. k : j \in 1 .. Len(new)
      BY <1>1, <2>2
    <3> QED
      BY <2>1, <2>2, <3>1
  <2>3. CASE k \in Len(new) + 1 .. Len(new) + Len(s) - 1
    <3>1. PICK x \in 1 .. Len(s) : x = k - Len(new) + 1
      BY <1>1, <2>3
    <3>2. s[x].is = "element"
      BY <1>1, <1>4, <2>3, <3>1
    <3>3. s[x].n \in DOMAIN heap /\ \A j \in 1 .. x : s[j].is = "element"
      BY <3>2 DEF ElementsFirst
    <3>4. t[k].n \in DOMAIN heap2
      BY <1>1, <2>3, <3>1, <3>3
    <3>5. ASSUME NEW j \in 1 .. k PROVE t[j].is = "element"
      <4>1. CASE j \in 1 .. Len(new)
        BY <2>1, <4>1
      <4>2. CASE j \in Len(new) + 1 .. Len(new) + Len(s) - 1
        <5>1. PICK y \in 1 .. Len(s) : y = j - Len(new) + 1
          BY <1>1, <4>2
        <5>2. y \in 1 .. x
          BY <1>1, <3>1, <4>2, <5>1
        <5> QED
          BY <1>1, <3>3, <4>2, <5>1, <5>2
      <4> QED
        BY <1>1, <2>3, <4>1, <4>2
    <3> QED
      BY <3>4, <3>5
  <2> QED
    BY <1>1, <2>2, <2>3
<1>5. ElementsFirst(t, heap2)
  BY <1>4 DEF ElementsFirst
<1>6. Owing(t, heap2)
  BY <1>3 DEF Owing
<1> QED
  BY <1>5, <1>6 DEF t

-----------------------------------------------------------------------------
(* Complete arrays stay as they are, and so does what a call that was made can
   reach. *)
LEMMA ReachedStays ==
  ASSUME NEW heap, NEW heap2, NEW calls, Reached(heap, calls), DOMAIN heap \subseteq DOMAIN heap2,
         \A n \in DOMAIN heap : Lacks(heap[n]) = 0 => heap2[n] = heap[n]
  PROVE  Reached(heap2, calls)
<1> SUFFICES ASSUME NEW i \in 1 .. Len(calls)
             PROVE  \E reach : Reach(reach, heap2, calls[i], i)
  BY DEF Reached
<1>1. PICK reach : Reach(reach, heap, calls[i], i)
  BY DEF Reached
<1>2. reach \subseteq DOMAIN heap /\ \A n \in reach : Lacks(heap[n]) = 0
  BY <1>1 DEF Reach
<1>3. \A n \in reach : heap2[n] = heap[n]
  BY <1>2
<1>5. Reach(reach, heap2, calls[i], i)
  BY <1>1, <1>2, <1>3 DEF Reach
<1> QED
  BY <1>5

(* One more thing to have is one more everywhere. *)
LEMMA SeqGrows ==
  ASSUME NEW P, NEW Q, P \subseteq Q, NEW s \in Seq(P)
  PROVE  s \in Seq(Q)
  OBVIOUS

LEMMA PresentGrows ==
  ASSUME NEW heap, NEW heap2, NEW made \in Nat, NEW made2 \in Nat,
         DOMAIN heap \subseteq DOMAIN heap2, made <= made2
  PROVE  /\ Present(heap, made) \subseteq Present(heap2, made2)
         /\ Parsed(heap, made) \subseteq Parsed(heap2, made2)
<1>1. 1 .. made \subseteq 1 .. made2
  OBVIOUS
<1>2. Present(heap, made) \subseteq Present(heap2, made2)
  BY <1>1 DEF Present
<1>3. Seq(Present(heap, made)) \subseteq Seq(Present(heap2, made2))
  BY <1>2, SeqGrows
<1> QED
  BY <1>2, <1>3 DEF Parsed

-----------------------------------------------------------------------------
(* A value goes to `this`, to the arguments or to an array. *)
LEMMA PlacedWell ==
  ASSUME NEW call, NEW heap, NEW made, NEW f \in Fields, f.is \in ValueField,
         f.is = "element" => f.n \in DOMAIN heap, call \in Parsed(heap, made),
         \A n \in DOMAIN heap : heap[n] \in [size : Nat, elements : Seq(Present(heap, made))],
         NEW v \in Present(heap, made),
         NEW nw, nw = PlacedNow([call |-> call, heap |-> heap], f, v)
  PROVE  /\ nw = [call |-> nw.call, heap |-> nw.heap]
         /\ nw.call \in Parsed(heap, made) /\ DOMAIN nw.heap = DOMAIN heap
         /\ \A n \in DOMAIN heap : nw.heap[n] =
              IF f = Item("element", n)
              THEN [size |-> heap[n].size, elements |-> Append(heap[n].elements, v)]
              ELSE heap[n]
<1> DEFINE P == Present(heap, made)
<1>1. f = Item(f.is, f.n) /\ \A n : Item("element", n).is = "element" /\ Item("element", n).n = n
  BY DEF Item, Fields
<1>2. /\ call \in [callee : Nat, this : P, ctor : BOOLEAN, args : Seq(P)] /\ v \in P
      /\ \A n \in DOMAIN heap : heap[n] \in [size : Nat, elements : Seq(P)]
  BY DEF Parsed
<1> HIDE DEF P
<1>3. Append(call.args, v) \in Seq(P)
  BY <1>2
<1>4. CASE f.is = "this"
  <2>1. nw = [call |-> [call EXCEPT !.this = v], heap |-> heap]
    BY <1>4 DEF PlacedNow
  <2>2. [call EXCEPT !.this = v] \in Parsed(heap, made)
    BY <1>2 DEF Parsed, P
  <2> QED
    BY <1>1, <1>4, <2>1, <2>2
<1>5. CASE f.is = "argument"
  <2>1. nw = [call |-> [call EXCEPT !.args = Append(call.args, v)], heap |-> heap]
    BY <1>5 DEF PlacedNow
  <2>2. [call EXCEPT !.args = Append(call.args, v)] \in Parsed(heap, made)
    BY <1>2, <1>3 DEF Parsed, P
  <2> QED
    BY <1>1, <1>5, <2>1, <2>2
<1>6. CASE f.is = "element"
  <2>1. f.n \in DOMAIN heap /\ f = Item("element", f.n)
    BY <1>1, <1>6
  <2> PICK m : m = f.n
    OBVIOUS
  <2>2. PICK array : array = heap[m] /\ array \in [size : Nat, elements : Seq(P)]
    BY <1>2, <2>1
  <2>3. nw = [[call |-> call, heap |-> heap] EXCEPT !.heap[m].elements = Append(@, v)]
    BY <1>6 DEF PlacedNow
  <2>x. PICK longer : longer = Append(array.elements, v)
    OBVIOUS
  <2>4. nw = [call |-> call, heap |-> [heap EXCEPT ![m] = [array EXCEPT !.elements = longer]]]
    BY <2>2, <2>3, <2>x
  <2>5. [array EXCEPT !.elements = longer] = [size |-> array.size, elements |-> longer]
    BY ONLY <2>2
  <2>6. \A n : f = Item("element", n) <=> n = m
    BY <1>1, <2>1
  <2> HIDE DEF Parsed, Present
  <2>8. PICK done : done = [size |-> array.size, elements |-> longer]
    OBVIOUS
  <2>9. nw = [call |-> call, heap |-> [heap EXCEPT ![m] = done]]
    BY ONLY <2>4, <2>5, <2>8
  <2>7. /\ nw.heap = [heap EXCEPT ![m] = done]
        /\ nw.call = call /\ nw = [call |-> nw.call, heap |-> nw.heap]
    BY ONLY <2>9
  <2> QED
    BY <2>1, <2>2, <2>6, <2>7, <2>8, <2>x
<1> QED
  BY <1>4, <1>5, <1>6 DEF ValueField

-----------------------------------------------------------------------------
(* The file. *)
LEMMA FileStarts == Run => FileTyped
<1> SUFFICES ASSUME Run PROVE FileTyped
  OBVIOUS
<1>1. InOrder
  BY WritingStartsInOrder DEF Run
<1>2. valueIndexes = EmptyMap /\ retIndexes = EmptyMap /\ nextIndex = 0 /\ unread = Nothing
  BY DEF Run, StartWriting
<1> QED
  BY <1>1, <1>2 DEF FileTyped, EmptyMap

LEMMA FileNumberWritten == FileTyped /\ WriteNumber => FileTyped'
<1> SUFFICES ASSUME FileTyped, WriteNumber PROVE FileTyped'
  OBVIOUS
<1>1. InOrder /\ InOrder'
  BY NumberKeepsOrder DEF FileTyped
<1>2. /\ todo # <<>> /\ Head(todo).is \in {"word", "flag"} /\ unread' = Head(todo)
      /\ UNCHANGED <<valueIndexes, retIndexes, nextIndex>>
  BY DEF WriteNumber, Write, Upcoming
<1>3. Head(todo) \in Items(tc)
  BY <1>1, <1>2 DEF InOrder
<1>4. unread' \in [is : {"word"}, n : Nat] \cup [is : {"flag"}, n : BOOLEAN]
  BY <1>2, <1>3 DEF Items
<1> QED
  BY <1>1, <1>2, <1>4 DEF FileTyped

LEMMA FileCallWritten == FileTyped /\ WriteCall => FileTyped'
  BY CallKeepsOrder DEF FileTyped, WriteCall

LEMMA FileResultNumbered == FileTyped /\ NumberResult => FileTyped'
<1> SUFFICES ASSUME FileTyped, NumberResult PROVE FileTyped'
  OBVIOUS
<1>1. InOrder'
  BY ResultKeepsOrder DEF FileTyped
<1> QED
  BY <1>1 DEF FileTyped, NumberResult, Put

LEMMA FileValueWritten == FileTyped /\ WriteValue => FileTyped'
<1> SUFFICES ASSUME FileTyped, WriteValue PROVE FileTyped'
  OBVIOUS
<1>1. InOrder /\ InOrder' /\ tc \in TestCases
  BY ValueKeepsOrder DEF FileTyped, InOrder
<1>2. PICK v : v = Head(todo).n
  OBVIOUS
<1>3. v \in Writable(tc) /\ (WriteScalar(v) \/ WritePlaceholder(v) \/ WriteKnownArray(v) \/ WriteNewArray(v))
  <2>1. todo # <<>> /\ Head(todo).is = "value"
    BY DEF WriteValue, Upcoming
  <2>2. Head(todo) \in Items(tc)
    BY <1>1, <2>1 DEF InOrder
  <2> QED
    BY <1>2, <2>1, <2>2 DEF Items, WriteValue
<1>4. CASE WriteScalar(v)
  BY <1>1, <1>4 DEF FileTyped, WriteScalar, Write, Item
<1>5. CASE WritePlaceholder(v)
  BY <1>1, <1>5 DEF FileTyped, WritePlaceholder, Write, Item
<1>6. CASE WriteKnownArray(v)
  BY <1>1, <1>6 DEF FileTyped, WriteKnownArray, Write, Item
<1>7. CASE WriteNewArray(v)
  <2>1. v \in Arrays /\ v \in DOMAIN tc.heap
    BY <1>3, <1>7, TestCasesAssumption DEF WriteNewArray, Writable
  <2>2. tc.heap[v] \in Seq(Value)
    BY <1>1, <2>1, TestCasesAssumption
  <2>3. PICK k \in Nat : k = Len(tc.heap[v])
    BY <2>2
  <2>4. unread' = Item("array", k) /\ UNCHANGED retIndexes
    BY <1>7, <2>3 DEF WriteNewArray, Write
  <2>5. valueIndexes' = Put(valueIndexes, v, nextIndex) /\ nextIndex' = nextIndex + 1
    BY <1>7 DEF WriteNewArray
  <2> QED
    BY <1>1, <2>4, <2>5 DEF FileTyped, Item, Put
<1> QED
  BY <1>3, <1>4, <1>5, <1>6, <1>7

LEMMA FileKept == FileTyped /\ UNCHANGED <<tc, writer>> /\ unread' \in {unread, Nothing} => FileTyped'
<1> SUFFICES ASSUME FileTyped, UNCHANGED <<tc, writer>>, unread' \in {unread, Nothing} PROVE FileTyped'
  OBVIOUS
<1>1. InOrder'
  BY DEF FileTyped, InOrder, writer
<1> QED
  BY <1>1 DEF FileTyped, writer

LEMMA FileStays == FileTyped /\ [TargetNext]_targetVars => FileTyped'
<1> SUFFICES ASSUME FileTyped, [TargetNext]_targetVars PROVE FileTyped'
  OBVIOUS
<1>1. CASE WriteAhead
  <2>1. WriteNumber \/ WriteCall \/ NumberResult \/ WriteValue
    BY <1>1 DEF WriteAhead, Serialize
  <2> QED
    BY <2>1, FileNumberWritten, FileCallWritten, FileResultNumbered, FileValueWritten
<1>2. CASE Parse
  <2>1. UNCHANGED <<tc, writer>> /\ unread' \in {unread, Nothing}
    BY Zenon, <1>2 DEF Parse, GoAstray, Fail, ParseAndRun, ParseCallee, ParseCtor, ParseArgsCount, Invoke,
                       ParseScalar, ParseArrayValue, ParsePlaceholderValue, Parses
  <2> QED
    BY <2>1, FileKept
<1>3. CASE TargetEnds \/ UNCHANGED targetVars
  <2>1. UNCHANGED <<tc, writer>> /\ unread' \in {unread, Nothing}
    BY <1>3 DEF TargetEnds, targetVars
  <2> QED
    BY <2>1, FileKept
<1> QED
  BY <1>1, <1>2, <1>3 DEF TargetNext

(* Whatever is read is of its kind. *)
LEMMA ReadTyped ==
  ASSUME FileTyped
  PROVE  /\ Readable("word") \subseteq Nat /\ Readable("array") \subseteq Nat
         /\ Readable("reference") \subseteq Nat
         /\ Readable("flag") \subseteq BOOLEAN /\ Readable("scalar") \subseteq Scalars
<1>1. CASE astray
  BY <1>1, ParserAssumption DEF Readable
<1>2. CASE ~astray
  BY <1>2 DEF Readable, FileTyped
<1> QED
  BY <1>1, <1>2

-----------------------------------------------------------------------------
LEMMA ParserStarts == StartParsing => ParserSound
<1> SUFFICES ASSUME StartParsing PROVE ParserSound
  OBVIOUS
<1>1. /\ expected = <<Item("callsCount", 0)>> /\ values = <<>> /\ invoked = <<>>
      /\ now = [call |-> NoCall, heap |-> EmptyMap]
  BY DEF StartParsing
<1>2. now.heap = EmptyMap /\ now.call = NoCall /\ DOMAIN EmptyMap = {}
  BY <1>1 DEF EmptyMap
<1>3. expected \in Seq(Fields) /\ Len(expected) = 1 /\ expected[1].is = "callsCount"
  <2>1. Item("callsCount", 0) \in Fields /\ Item("callsCount", 0).is = "callsCount"
    BY DEF Item, Fields
  <2> QED
    BY <1>1, <2>1
<1>4. NoCall \in Parsed(EmptyMap, 0)
  <2>1. Undefined \in Present(EmptyMap, 0)
    BY TestCasesAssumption DEF Present
  <2> HIDE DEF Present
  <2> QED
    BY <2>1 DEF NoCall, Parsed
<1>5. ParserTyped(expected, now, values, invoked)
  <2>1. values \in Seq(Present(EmptyMap, 0)) /\ invoked \in Seq(Parsed(EmptyMap, 0)) /\ Len(invoked) = 0
    BY <1>1
  <2> QED
    BY <1>1, <1>2, <1>3, <1>4, <2>1 DEF ParserTyped, ArraysTyped
<1>6. ElementsFirst(expected, now.heap) /\ Owing(expected, now.heap)
  BY <1>2, <1>3 DEF ElementsFirst, Owing
<1>7. Reached(now.heap, invoked)
  BY <1>1 DEF Reached
<1> QED
  BY <1>5, <1>6, <1>7 DEF ParserSound

(* The parts of ParserSound. *)
LEMMA SoundParts ==
  ASSUME ParserSound
  PROVE  /\ expected \in Seq(Fields) /\ now = [call |-> now.call, heap |-> now.heap]
         /\ now.call \in Parsed(now.heap, Len(invoked)) /\ Len(invoked) \in Nat
         /\ invoked \in Seq(Parsed(now.heap, Len(invoked)))
         /\ ElementsFirst(expected, now.heap) /\ Reached(now.heap, invoked)
         /\ ~ExpectsNext("exit") => Owing(expected, now.heap)
  BY DEF ParserSound, ParserTyped

(* A field of a call or of the file, no value, is read: new is what is expected then. *)
LEMMA FieldRead ==
  ASSUME ParserSound, expected # <<>>, Head(expected).is \notin {"element", "exit"},
         NEW new \in Seq(Fields), \A k \in 1 .. Len(new) : new[k].is # "element",
         expected' = new \o Tail(expected),
         NEW call \in Parsed(now.heap, Len(invoked)), now' = [call |-> call, heap |-> now.heap],
         UNCHANGED <<values, invoked>>
  PROVE  ParserSound'
<1>1. /\ expected \in Seq(Fields) /\ ElementsFirst(expected, now.heap) /\ Owing(expected, now.heap)
      /\ Reached(now.heap, invoked)
  BY SoundParts DEF ExpectsNext
<1>2. ElementsFirst(expected', now.heap) /\ Owing(expected', now.heap)
  BY <1>1, OtherFieldDone
<1>3. expected' \in Seq(Fields)
  BY <1>1, FieldsReplaced
<1>4. now'.heap = now.heap /\ now'.call = call
  OBVIOUS
<1>5. ParserTyped(expected, now, values, invoked)
  BY DEF ParserSound
<1>6. ParserTyped(expected', now', values', invoked')
  BY <1>3, <1>4, <1>5 DEF ParserTyped
<1> QED
  BY <1>1, <1>2, <1>4, <1>6 DEF ParserSound

LEMMA CopiesTyped ==
  ASSUME NEW n \in Nat, NEW field \in Fields
  PROVE  /\ Copies(n, field) \in Seq(Fields) /\ Len(Copies(n, field)) = n
         /\ \A k \in 1 .. n : Copies(n, field)[k] = field
<1> HIDE DEF Fields
<1> QED
  BY DEF Copies

LEMMA CountParsed == FileTyped /\ ParserSound /\ ParseAndRun => ParserSound'
<1> SUFFICES ASSUME FileTyped, ParserSound, ParseAndRun PROVE ParserSound'
  OBVIOUS
<1>1. /\ expected # <<>> /\ Head(expected).is = "callsCount"
      /\ UNCHANGED <<now, values, invoked>>
  BY DEF ParseAndRun, Parses, ExpectsNext
<1>2. PICK n \in Nat : expected' = Copies(n, Item("callee", 0)) \o Tail(expected)
  BY ReadTyped DEF ParseAndRun
<1>3. Item("callee", 0) \in Fields /\ Item("callee", 0).is # "element"
  BY DEF Item, Fields
<1>4. /\ Copies(n, Item("callee", 0)) \in Seq(Fields)
      /\ \A k \in 1 .. Len(Copies(n, Item("callee", 0))) : Copies(n, Item("callee", 0))[k].is # "element"
  BY <1>3, CopiesTyped
<1>5. now.call \in Parsed(now.heap, Len(invoked)) /\ now' = [call |-> now.call, heap |-> now.heap]
  BY <1>1, SoundParts
<1> QED
  BY <1>1, <1>2, <1>4, <1>5, FieldRead

LEMMA CalleeParsed == FileTyped /\ ParserSound /\ ParseCallee => ParserSound'
<1> SUFFICES ASSUME FileTyped, ParserSound, ParseCallee PROVE ParserSound'
  OBVIOUS
<1>1. /\ expected # <<>> /\ Head(expected).is = "callee" /\ UNCHANGED <<values, invoked>>
      /\ expected' = <<Item("this", 0), Item("ctor", 0), Item("argsCount", 0)>> \o Tail(expected)
  BY DEF ParseCallee, Parses, ExpectsNext
<1>2. PICK n \in Nat : now' = [now EXCEPT !.call = [NoCall EXCEPT !.callee = n]]
  BY ReadTyped DEF ParseCallee
<1> PICK new : new = <<Item("this", 0), Item("ctor", 0), Item("argsCount", 0)>>
  OBVIOUS
<1>3. new \in Seq(Fields) /\ \A k \in 1 .. Len(new) : new[k].is # "element"
  <2>1. /\ Item("this", 0) \in Fields /\ Item("ctor", 0) \in Fields /\ Item("argsCount", 0) \in Fields
        /\ Item("this", 0).is # "element" /\ Item("ctor", 0).is # "element" /\ Item("argsCount", 0).is # "element"
    BY DEF Item, Fields
  <2> QED
    BY <2>1
<1>4. PICK call : call = [NoCall EXCEPT !.callee = n]
  OBVIOUS
<1>5. call \in Parsed(now.heap, Len(invoked))
  <2>1. Undefined \in Present(now.heap, Len(invoked))
    BY TestCasesAssumption DEF Present
  <2> HIDE DEF Present
  <2>2. call = [callee |-> n, this |-> Undefined, ctor |-> FALSE, args |-> <<>>]
    BY <1>4 DEF NoCall
  <2> QED
    BY <2>1, <2>2 DEF Parsed
<1>6. now' = [call |-> call, heap |-> now.heap]
  <2>1. now = [call |-> now.call, heap |-> now.heap]
    BY SoundParts
  <2> QED
    BY <1>2, <1>4, <2>1
<1>7. expected' = new \o Tail(expected)
  BY <1>1
<1> QED
  BY <1>1, <1>3, <1>5, <1>6, <1>7, FieldRead

LEMMA CtorParsed == FileTyped /\ ParserSound /\ ParseCtor => ParserSound'
<1> SUFFICES ASSUME FileTyped, ParserSound, ParseCtor PROVE ParserSound'
  OBVIOUS
<1>1. /\ expected # <<>> /\ Head(expected).is = "ctor" /\ UNCHANGED <<values, invoked>>
      /\ expected' = Tail(expected)
  BY DEF ParseCtor, Parses, ExpectsNext
<1>2. PICK b \in BOOLEAN : now' = [now EXCEPT !.call.ctor = b]
  BY ReadTyped DEF ParseCtor
<1>3. PICK call : call = [now.call EXCEPT !.ctor = b]
  OBVIOUS
<1>4. /\ expected \in Seq(Fields) /\ now = [call |-> now.call, heap |-> now.heap]
      /\ now.call \in Parsed(now.heap, Len(invoked))
  BY SoundParts
<1>5. call \in Parsed(now.heap, Len(invoked))
  BY <1>3, <1>4 DEF Parsed
<1>6. now' = [call |-> call, heap |-> now.heap]
  BY <1>2, <1>3, <1>4
<1>7. <<>> \in Seq(Fields) /\ Len(<<>>) = 0 /\ expected' = <<>> \o Tail(expected)
  <2>1. Tail(expected) \in Seq(Fields)
    BY <1>1, <1>4
  <2> QED
    BY <1>1, <2>1
<1>8. \A k \in 1 .. Len(<<>>) : <<>>[k].is # "element"
  BY <1>7
<1> QED
  BY <1>1, <1>5, <1>6, <1>7, <1>8, FieldRead

LEMMA ArgsCountParsed == FileTyped /\ ParserSound /\ ParseArgsCount => ParserSound'
<1> SUFFICES ASSUME FileTyped, ParserSound, ParseArgsCount PROVE ParserSound'
  OBVIOUS
<1>1. /\ expected # <<>> /\ Head(expected).is = "argsCount"
      /\ UNCHANGED <<now, values, invoked>>
  BY DEF ParseArgsCount, Parses, ExpectsNext
<1>2. PICK n \in Nat :
        expected' = Copies(n, Item("argument", 0)) \o <<Item("invoke", 0)>> \o Tail(expected)
  BY ReadTyped DEF ParseArgsCount
<1>3. /\ Item("argument", 0) \in Fields /\ Item("argument", 0).is # "element"
      /\ Item("invoke", 0) \in Fields /\ Item("invoke", 0).is # "element"
  BY DEF Item, Fields
<1>4. PICK front \in Seq(Fields) :
        front = Copies(n, Item("argument", 0)) /\ \A k \in 1 .. Len(front) : front[k].is # "element"
  <2> PICK field \in Fields : field = Item("argument", 0) /\ field.is # "element"
    BY <1>3
  <2>1. /\ Copies(n, field) \in Seq(Fields) /\ Len(Copies(n, field)) = n
        /\ \A k \in 1 .. n : Copies(n, field)[k] = field
    BY CopiesTyped
  <2> QED
    BY <2>1
<1>5. PICK back \in Seq(Fields) :
        back = <<Item("invoke", 0)>> /\ \A k \in 1 .. Len(back) : back[k].is # "element"
  <2> PICK field \in Fields : field = Item("invoke", 0) /\ field.is # "element"
    BY <1>3
  <2> HIDE DEF Fields
  <2>1. PICK one \in Seq(Fields) : one = <<field>> /\ Len(one) = 1 /\ one[1] = field
    <3>1. <<field>> \in Seq(Fields)
      OBVIOUS
    <3> QED
      BY <3>1
  <2>2. \A k \in 1 .. Len(one) : one[k].is # "element"
    BY <2>1
  <2> QED
    BY <2>1, <2>2
<1>6. /\ front \o back \in Seq(Fields) /\ DOMAIN (front \o back) = 1 .. Len(front \o back)
      /\ \A k \in 1 .. Len(front \o back) : (front \o back)[k].is # "element"
  <2>1. /\ front \o back \in Seq(Fields) /\ Len(front \o back) = Len(front) + Len(back)
        /\ Len(front) \in Nat /\ Len(back) \in Nat
        /\ \A j \in 1 .. Len(front) : (front \o back)[j] = front[j]
        /\ \A j \in 1 .. Len(back) : (front \o back)[Len(front) + j] = back[j]
    BY Joined
  <2>2. ASSUME NEW k \in 1 .. Len(front \o back) PROVE (front \o back)[k].is # "element"
    <3>1. CASE k \in 1 .. Len(front)
      BY <1>4, <2>1, <3>1
    <3>2. CASE k \notin 1 .. Len(front)
      <4>1. k - Len(front) \in 1 .. Len(back) /\ k = Len(front) + (k - Len(front))
        BY <2>1, <3>2
      <4> QED
        BY <1>5, <2>1, <4>1
    <3> QED
      BY <3>1, <3>2
  <2> QED
    BY <2>1, <2>2
<1>7. expected \in Seq(Fields) /\ Tail(expected) \in Seq(Fields)
  BY <1>1, SoundParts
<1>8. expected' = (front \o back) \o Tail(expected)
  BY <1>2, <1>4, <1>5, <1>7
<1>9. now.call \in Parsed(now.heap, Len(invoked)) /\ now' = [call |-> now.call, heap |-> now.heap]
  BY <1>1, SoundParts
<1> QED
  BY <1>1, <1>6, <1>8, <1>9, FieldRead

(* No array lacks an element when a call is made. *)
LEMMA SoundComplete == ParserSound => ArraysComplete
<1> SUFFICES ASSUME ParserSound, ExpectsNext("invoke"), NEW n \in DOMAIN now.heap
             PROVE  Len(now.heap[n].elements) = now.heap[n].size
  BY DEF ArraysComplete
<1>1. /\ expected \in Seq(Fields) /\ expected # <<>> /\ expected[1].is = "invoke"
      /\ ElementsFirst(expected, now.heap) /\ Owing(expected, now.heap)
  BY SoundParts DEF ExpectsNext
<1>2. PICK b : Block(expected, n, b, Lacks(now.heap[n]))
  BY <1>1 DEF Owing
<1>3. 1 \in 1 .. Len(expected) /\ \A k \in 1 .. Len(expected) : 1 \in 1 .. k
  BY <1>1
<1>4. \A k \in 1 .. Len(expected) : expected[k].is # "element"
  BY <1>1, <1>3 DEF ElementsFirst
<1>5. PICK c \in Nat : c = Lacks(now.heap[n])
  BY <1>2 DEF Block
<1>6. /\ b \in Nat /\ b + c <= Len(expected)
      /\ \A k \in 1 .. Len(expected) : expected[k] = Item("element", n) <=> b < k /\ k <= b + c
  BY <1>2, <1>5 DEF Block
<1>7. c = 0
  <2> SUFFICES ASSUME c # 0 PROVE FALSE
    OBVIOUS
  <2>1. b + 1 \in 1 .. Len(expected) /\ b < b + 1 /\ b + 1 <= b + c
    BY <1>1, <1>6
  <2>2. expected[b + 1] = Item("element", n)
    BY <1>6, <2>1
  <2> QED
    BY <1>4, <2>1, <2>2 DEF Item
<1>8. now.heap[n].size \in Nat /\ Len(now.heap[n].elements) \in Nat
  BY DEF ParserSound, ParserTyped, ArraysTyped
<1> QED
  BY <1>5, <1>7, <1>8 DEF Lacks

(* A call is made with what the target has, which is what was there before. *)
LEMMA CallMade == ParserSound /\ Invoke => ParserSound'
<1> SUFFICES ASSUME ParserSound, Invoke PROVE ParserSound'
  OBVIOUS
<1> DEFINE made == Len(invoked)
<1>1. /\ expected # <<>> /\ Head(expected).is = "invoke" /\ ExpectsNext("invoke")
      /\ invoked' = Append(invoked, now.call) /\ now' = now /\ expected' = Tail(expected)
      /\ values' = Append(values, ResultOf(Len(invoked')))
  BY DEF Invoke, ExpectsNext
<1>2. /\ expected \in Seq(Fields) /\ now = [call |-> now.call, heap |-> now.heap]
      /\ now.call \in Parsed(now.heap, made) /\ made \in Nat
      /\ invoked \in Seq(Parsed(now.heap, made)) /\ values \in Seq(Present(now.heap, made))
      /\ ArraysTyped(now.heap, values, made)
      /\ ElementsFirst(expected, now.heap) /\ Reached(now.heap, invoked) /\ Owing(expected, now.heap)
  BY <1>1, SoundParts DEF ParserSound, ParserTyped, ExpectsNext
<1>3. <<>> \in Seq(Fields) /\ Len(<<>>) = 0 /\ expected' = <<>> \o Tail(expected)
  BY <1>1, <1>2
<1>4. /\ ElementsFirst(expected', now.heap) /\ Owing(expected', now.heap)
      /\ expected' \in Seq(Fields)
  <2>1. \A k \in 1 .. Len(<<>>) : <<>>[k].is # "element"
    BY <1>3
  <2>2. Head(expected).is # "element" /\ expected # <<>>
    BY <1>1
  <2> PICK new : new = <<>>
    OBVIOUS
  <2>3. new \in Seq(Fields) /\ \A k \in 1 .. Len(new) : new[k].is # "element"
    BY <1>3, <2>1
  <2>4. new \o Tail(expected) \in Seq(Fields)
    BY ONLY <1>2, <2>2, <2>3, FieldsReplaced
  <2>5. ElementsFirst(new \o Tail(expected), now.heap) /\ Owing(new \o Tail(expected), now.heap)
    BY ONLY <1>2, <2>2, <2>3, OtherFieldDone
  <2> QED
    BY <1>3, <2>4, <2>5
<1>5. Len(invoked') = made + 1 /\ \A i \in 1 .. made : invoked'[i] = invoked[i]
  BY <1>1, <1>2
<1>6. /\ Present(now.heap, made) \subseteq Present(now.heap, made + 1)
      /\ Parsed(now.heap, made) \subseteq Parsed(now.heap, made + 1)
  <2> HIDE DEF made
  <2>1. made + 1 \in Nat /\ made <= made + 1 /\ made \in Nat
    BY <1>2
  <2> QED
    BY <2>1, PresentGrows
<1> HIDE DEF made
<1>7. ArraysTyped(now.heap, values', made + 1)
  <2>1. Len(values') = Len(values) + 1 /\ Len(values) \in Nat
    BY <1>1, <1>2
  <2>2. Seq(Present(now.heap, made)) \subseteq Seq(Present(now.heap, made + 1))
    BY <1>6, SeqGrows
  <2> QED
    BY <1>2, <2>1, <2>2 DEF ArraysTyped
<1>8. ResultOf(made + 1) \in Present(now.heap, made + 1)
  BY <1>2 DEF Present
<1>9. values' \in Seq(Present(now.heap, made + 1)) /\ invoked' \in Seq(Parsed(now.heap, made + 1))
  <2>1. /\ values \in Seq(Present(now.heap, made + 1)) /\ invoked \in Seq(Parsed(now.heap, made + 1))
        /\ now.call \in Parsed(now.heap, made + 1)
    BY <1>2, <1>6, SeqGrows
  <2>2. ResultOf(Len(invoked')) \in Present(now.heap, made + 1)
    BY <1>5, <1>8
  <2> QED
    BY <1>1, <2>1, <2>2
<1>10. ParserTyped(expected', now', values', invoked')
  BY <1>1, <1>2, <1>4, <1>5, <1>6, <1>7, <1>9 DEF ParserTyped
<1>11. Reach(DOMAIN now.heap, now.heap, now.call, made + 1)
  <2>1. \A n \in DOMAIN now.heap : Lacks(now.heap[n]) = 0
    BY <1>1, <1>2, SoundComplete DEF ArraysComplete, ArraysTyped, Lacks
  <2>2. ASSUME NEW v \in Operands(now.call) PROVE v \in Present(now.heap, made)
    BY <1>2 DEF Operands, Parsed, Range
  <2>3. ASSUME NEW n \in DOMAIN now.heap, NEW v \in Range(now.heap[n].elements)
        PROVE  v \in Present(now.heap, made)
    BY <1>2 DEF ArraysTyped, Range
  <2>4. \A v \in Present(now.heap, made) : Earlier(DOMAIN now.heap, made + 1, v)
    BY <1>2 DEF Present, Earlier
  <2> QED
    BY <2>1, <2>2, <2>3, <2>4 DEF Reach
<1>12. Reached(now.heap, invoked')
  <2> SUFFICES ASSUME NEW i \in 1 .. made + 1 PROVE \E reach : Reach(reach, now.heap, invoked'[i], i)
    BY <1>5 DEF Reached
  <2>1. CASE i = made + 1
    <3>1. invoked'[i] = now.call
      BY <1>1, <1>2, <2>1 DEF made
    <3> QED
      BY <1>11, <2>1, <3>1
  <2>2. CASE i # made + 1
    <3>1. i \in 1 .. Len(invoked) /\ invoked'[i] = invoked[i]
      BY <1>2, <1>5, <2>2 DEF made
    <3> QED
      BY <1>2, <3>1 DEF Reached
  <2> QED
    BY <2>1, <2>2
<1> QED
  BY <1>1, <1>4, <1>10, <1>12 DEF ParserSound

(* A call that was made can reach what is earlier only. *)
LEMMA SoundEarlier == ParserSound => OnlyEarlierResults
<1> SUFFICES ASSUME ParserSound PROVE OnlyEarlierResults
  OBVIOUS
<1>1. Reached(now.heap, invoked) /\ DOMAIN invoked = 1 .. Len(invoked)
  BY SoundParts
<1>2. ASSUME NEW i \in DOMAIN invoked
      PROVE  \E reach \in SUBSET DOMAIN now.heap :
               \A v \in Operands(invoked[i]) \cup UNION {Contents(n) : n \in reach} : Earlier(reach, i, v)
  <2>1. PICK reach : Reach(reach, now.heap, invoked[i], i)
    BY <1>1 DEF Reached
  <2>2. reach \in SUBSET DOMAIN now.heap
    BY <2>1 DEF Reach
  <2>3. ASSUME NEW v \in Operands(invoked[i]) \cup UNION {Contents(n) : n \in reach}
        PROVE  Earlier(reach, i, v)
    BY <2>1, <2>3 DEF Reach, Contents
  <2> QED
    BY <2>2, <2>3
<1> QED
  BY <1>2 DEF OnlyEarlierResults, Earlier

-----------------------------------------------------------------------------
(* A value arrives: heap is what the arrays are with the new one, whose number is n
   and which shall have m elements, if there is one. *)
LEMMA ValueArrived ==
  ASSUME ParserSound, expected # <<>>, Head(expected).is \in ValueField,
         NEW heap, NEW n, NEW m \in Nat, NEW new \in Seq(Fields), NEW v,
         n \notin DOMAIN now.heap, DOMAIN now.heap \subseteq DOMAIN heap,
         DOMAIN heap \subseteq DOMAIN now.heap \cup {n},
         \A x \in DOMAIN now.heap : heap[x] = now.heap[x],
         n \in DOMAIN heap => heap[n] = NewArray(m),
         \A x \in DOMAIN heap : x \in Nat /\ x < Len(values'),
         values' \in Seq(Present(heap, Len(invoked))),
         \A k \in 1 .. Len(new) : new[k] = Item("element", n) /\ n \in DOMAIN heap,
         n \in DOMAIN heap => Block(new \o Tail(expected), n, 0, m),
         v \in Present(heap, Len(invoked)),
         now' = PlacedNow([call |-> now.call, heap |-> heap], Head(expected), v),
         expected' = new \o Tail(expected), invoked' = invoked
  PROVE  ParserSound'
<1> DEFINE f == Head(expected)
<1> DEFINE made == Len(invoked)
<1>1. /\ expected \in Seq(Fields) /\ now.call \in Parsed(now.heap, made) /\ made \in Nat
      /\ invoked \in Seq(Parsed(now.heap, made)) /\ ArraysTyped(now.heap, values, made)
      /\ ElementsFirst(expected, now.heap) /\ Reached(now.heap, invoked) /\ Owing(expected, now.heap)
  <2>1. ~ExpectsNext("exit")
    BY DEF ExpectsNext, ValueField
  <2> QED
    BY <2>1, SoundParts DEF ParserSound, ParserTyped
<1>2. f \in Fields /\ f.is \in ValueField /\ (f.is = "element" => f.n \in DOMAIN now.heap)
  <2>1. 1 \in 1 .. Len(expected) /\ f = expected[1] /\ f \in Fields
    BY <1>1
  <2> QED
    BY <1>1, <2>1 DEF ElementsFirst
<1>3. expected' \in Seq(Fields)
  BY <1>1, FieldsReplaced
<1> HIDE DEF f, made
<1>4. /\ Present(now.heap, made) \subseteq Present(heap, made)
      /\ Parsed(now.heap, made) \subseteq Parsed(heap, made)
  <2>1. made \in Nat /\ made <= made
    BY <1>1
  <2> QED
    BY <2>1, PresentGrows
<1>5. now.call \in Parsed(heap, made) /\ invoked \in Seq(Parsed(heap, made))
  BY <1>1, <1>4, SeqGrows
<1>6. \A x \in DOMAIN heap : heap[x] \in [size : Nat, elements : Seq(Present(heap, made))]
  <2>1. Seq(Present(now.heap, made)) \subseteq Seq(Present(heap, made))
    BY <1>4, SeqGrows
  <2>2. NewArray(m) \in [size : Nat, elements : Seq(Present(heap, made))]
    BY DEF NewArray
  <2> QED
    BY <1>1, <2>1, <2>2 DEF ArraysTyped
<1>7. v \in Present(heap, made)
  BY DEF made
<1>8. /\ now' = [call |-> now'.call, heap |-> now'.heap]
      /\ now'.call \in Parsed(heap, made) /\ DOMAIN now'.heap = DOMAIN heap
      /\ \A x \in DOMAIN heap : now'.heap[x] =
           IF f = Item("element", x)
           THEN [size |-> heap[x].size, elements |-> Append(heap[x].elements, v)]
           ELSE heap[x]
  <2>1. PICK call : call = now.call
    OBVIOUS
  <2>2. PICK nw : nw = now'
    OBVIOUS
  <2>3. PICK field : field = f
    OBVIOUS
  <2>4. nw = PlacedNow([call |-> call, heap |-> heap], field, v)
    BY <2>1, <2>2, <2>3 DEF f
  <2>5. field \in Fields /\ field.is \in ValueField /\ (field.is = "element" => field.n \in DOMAIN heap)
    BY <1>2, <2>3
  <2>6. call \in Parsed(heap, made)
    BY <1>5, <2>1
  <2>7. /\ nw = [call |-> nw.call, heap |-> nw.heap]
        /\ nw.call \in Parsed(heap, made) /\ DOMAIN nw.heap = DOMAIN heap
        /\ \A x \in DOMAIN heap : nw.heap[x] =
             IF field = Item("element", x)
             THEN [size |-> heap[x].size, elements |-> Append(heap[x].elements, v)]
             ELSE heap[x]
    BY ONLY SMTT(60), <1>6, <1>7, <2>4, <2>5, <2>6, PlacedWell
  <2> QED
    BY <2>2, <2>3, <2>7
<1>9. Present(now'.heap, made) = Present(heap, made) /\ Parsed(now'.heap, made) = Parsed(heap, made)
  BY <1>8 DEF Present, Parsed
<1>10. ArraysTyped(now'.heap, values', made)
  <2> PICK P : P = Present(heap, made)
    OBVIOUS
  <2>1. ASSUME NEW x \in DOMAIN heap PROVE now'.heap[x] \in [size : Nat, elements : Seq(P)]
    <3>1. heap[x] \in [size : Nat, elements : Seq(P)] /\ v \in P
      BY <1>6, <1>7
    <3>2. Append(heap[x].elements, v) \in Seq(P)
      BY <3>1
    <3>3. CASE f = Item("element", x)
      <4>1. now'.heap[x] = [size |-> heap[x].size, elements |-> Append(heap[x].elements, v)]
        BY <1>8, <3>3
      <4>2. heap[x].size \in Nat
        BY <3>1
      <4>3. PICK longer \in Seq(P) : longer = Append(heap[x].elements, v)
        BY <3>2
      <4>4. now'.heap[x] = [size |-> heap[x].size, elements |-> longer]
        BY <4>1, <4>3
      <4> QED
        BY ONLY <4>2, <4>4, longer \in Seq(P)
    <3>4. CASE f # Item("element", x)
      BY <1>8, <3>1, <3>4
    <3> QED
      BY <3>3, <3>4
  <2> QED
    BY <1>8, <1>9, <2>1 DEF ArraysTyped
<1>11. ParserTyped(expected', now', values', invoked')
  BY <1>3, <1>5, <1>8, <1>9, <1>10 DEF ParserTyped, made
<1>13. f # Item("element", n)
  BY <1>2 DEF Item
<1>14. \A x \in DOMAIN now.heap :
         Lacks(now'.heap[x]) = IF f = Item("element", x) THEN Lacks(now.heap[x]) - 1 ELSE Lacks(now.heap[x])
  <2> TAKE x \in DOMAIN now.heap
  <2> PICK array : array = now.heap[x]
    OBVIOUS
  <2>1. array \in [size : Nat, elements : Seq(Present(now.heap, made))] /\ x \in DOMAIN heap /\ heap[x] = array
    BY <1>1 DEF ArraysTyped
  <2>2. /\ Len(Append(array.elements, v)) = Len(array.elements) + 1
        /\ Len(array.elements) \in Nat /\ array.size \in Nat
    <3> PICK P : P = Present(heap, made)
      OBVIOUS
    <3>1. array.elements \in Seq(P) /\ v \in P /\ array.size \in Nat
      BY <1>6, <1>7, <2>1
    <3> QED
      BY <3>1
  <2>3. CASE f = Item("element", x)
    <3>1. now'.heap[x] = [size |-> array.size, elements |-> Append(array.elements, v)]
      BY <1>8, <2>1, <2>3
    <3>2. PICK longer : longer = Append(array.elements, v)
      OBVIOUS
    <3>3. Lacks(now'.heap[x]) = array.size - Len(longer)
      BY <3>1, <3>2 DEF Lacks
    <3>4. PICK k \in Nat, size \in Nat : k = Len(array.elements) /\ size = array.size
      BY <2>2
    <3>5. Len(longer) = k + 1
      BY <2>2, <3>2, <3>4
    <3>6. Lacks(now'.heap[x]) = size - (k + 1) /\ Lacks(now.heap[x]) = size - k
      BY <3>3, <3>4, <3>5 DEF Lacks
    <3>7. Lacks(now'.heap[x]) = Lacks(now.heap[x]) - 1
      BY ONLY <3>6, k \in Nat, size \in Nat
    <3> QED
      BY <2>3, <3>7
  <2>4. CASE f # Item("element", x)
    BY <1>8, <2>1, <2>4
  <2> QED
    BY <2>3, <2>4
<1>15. n \in DOMAIN now'.heap => Block(new \o Tail(expected), n, 0, Lacks(now'.heap[n]))
  <2> SUFFICES ASSUME n \in DOMAIN heap PROVE Block(new \o Tail(expected), n, 0, Lacks(now'.heap[n]))
    BY <1>8
  <2>1. now'.heap[n] = NewArray(m)
    BY <1>8, <1>13
  <2>2. Lacks(NewArray(m)) = m
    BY DEF Lacks, NewArray
  <2> QED
    BY <2>1, <2>2
<1>16. ElementsFirst(expected', now'.heap) /\ Owing(expected', now'.heap)
  <2> PICK after : after = now'.heap
    OBVIOUS
  <2>1. /\ DOMAIN now.heap \subseteq DOMAIN after /\ DOMAIN after \subseteq DOMAIN now.heap \cup {n}
        /\ \A k \in 1 .. Len(new) : new[k] = Item("element", n) /\ n \in DOMAIN after
    BY <1>8
  <2>2. PICK before : before = now.heap
    OBVIOUS
  <2>3. /\ n \notin DOMAIN before /\ DOMAIN before \subseteq DOMAIN after
        /\ DOMAIN after \subseteq DOMAIN before \cup {n}
        /\ \A k \in 1 .. Len(new) : new[k] = Item("element", n) /\ n \in DOMAIN after
    BY <2>1, <2>2
  <2>4. \A x \in DOMAIN before :
          Lacks(after[x]) = IF Head(expected) = Item("element", x) THEN Lacks(before[x]) - 1 ELSE Lacks(before[x])
    BY <1>14, <2>2 DEF f
  <2>5. n \in DOMAIN after => Block(new \o Tail(expected), n, 0, Lacks(after[n]))
    BY <1>15
  <2>6. /\ expected \in Seq(Fields) /\ expected # <<>> /\ new \in Seq(Fields)
        /\ ElementsFirst(expected, before) /\ Owing(expected, before)
    BY <1>1, <2>2
  <2>7. ElementsFirst(new \o Tail(expected), after) /\ Owing(new \o Tail(expected), after)
    BY ONLY <2>3, <2>4, <2>5, <2>6, ValueFieldDone
  <2> QED
    BY <2>7
<1>17. Reached(now'.heap, invoked)
  <2>1. ASSUME NEW x \in DOMAIN now.heap, Lacks(now.heap[x]) = 0 PROVE now'.heap[x] = now.heap[x]
    <3>1. PICK b : Block(expected, x, b, Lacks(now.heap[x]))
      BY <1>1 DEF Owing
    <3>2. <<>> \in Seq(Fields) /\ Len(<<>>) = 0
      OBVIOUS
    <3>3. \A k \in 1 .. Len(<<>>) : <<>>[k] # Item("element", x)
      BY <3>2
    <3>4. f # Item("element", x)
      <4> SUFFICES ASSUME Head(expected) = Item("element", x) PROVE FALSE
        BY DEF f
      <4> PICK none \in Seq(Fields) : none = <<>>
        BY <3>2
      <4>1. \A k \in 1 .. Len(none) : none[k] # Item("element", x)
        BY <3>3
      <4>2. Lacks(now.heap[x]) > 0
        BY <1>1, <3>1, <4>1, BlockTaken
      <4> QED
        BY <2>1, <4>2
    <3> QED
      BY <1>8, <3>4
  <2> QED
    BY <1>1, <1>8, <2>1, ReachedStays
<1> QED
  BY <1>11, <1>16, <1>17 DEF ParserSound

(* A scalar, or something that is in the pool, arrives. *)
LEMMA OldValueArrived ==
  ASSUME ParserSound, expected # <<>>, Head(expected).is \in ValueField,
         NEW v \in Present(now.heap, Len(invoked)), now' = PlacedNow(now, Head(expected), v),
         expected' = Tail(expected), UNCHANGED <<values, invoked>>
  PROVE  ParserSound'
<1>1. /\ expected \in Seq(Fields) /\ now = [call |-> now.call, heap |-> now.heap]
      /\ ArraysTyped(now.heap, values, Len(invoked)) /\ values \in Seq(Present(now.heap, Len(invoked)))
  BY DEF ParserSound, ParserTyped
<1> PICK n \in Nat : n = Len(values)
  BY <1>1
<1>2. n \notin DOMAIN now.heap /\ \A x \in DOMAIN now.heap : x \in Nat /\ x < Len(values')
  BY <1>1 DEF ArraysTyped
<1> PICK none \in Seq(Fields) : none = <<>> /\ Len(none) = 0
  <2>1. <<>> \in Seq(Fields) /\ Len(<<>>) = 0
    OBVIOUS
  <2> QED
    BY <2>1
<1>3. expected' = none \o Tail(expected) /\ \A k \in 1 .. Len(none) : FALSE
  <2>1. Tail(expected) \in Seq(Fields)
    BY <1>1
  <2> QED
    BY <2>1
<1> PICK heap : heap = now.heap
  OBVIOUS
<1>4. now' = PlacedNow([call |-> now.call, heap |-> heap], Head(expected), v)
  BY <1>1
<1>5. /\ n \notin DOMAIN now.heap /\ DOMAIN now.heap \subseteq DOMAIN heap
      /\ DOMAIN heap \subseteq DOMAIN now.heap \cup {n}
      /\ \A x \in DOMAIN now.heap : heap[x] = now.heap[x]
      /\ n \in DOMAIN heap => heap[n] = NewArray(0)
      /\ \A x \in DOMAIN heap : x \in Nat /\ x < Len(values')
      /\ values' \in Seq(Present(heap, Len(invoked)))
      /\ \A k \in 1 .. Len(none) : none[k] = Item("element", n) /\ n \in DOMAIN heap
      /\ n \in DOMAIN heap => Block(none \o Tail(expected), n, 0, 0)
      /\ v \in Present(heap, Len(invoked))
  BY <1>1, <1>2, <1>3
<1>6. 0 \in Nat /\ none \in Seq(Fields) /\ invoked' = invoked /\ expected' = none \o Tail(expected)
  BY <1>3
<1> QED
  BY <1>4, <1>5, <1>6, ValueArrived

LEMMA ScalarParsed == FileTyped /\ ParserSound /\ ParseScalar => ParserSound'
<1> SUFFICES ASSUME FileTyped, ParserSound, ParseScalar PROVE ParserSound'
  OBVIOUS
<1>1. /\ expected # <<>> /\ Head(expected).is \in ValueField
      /\ expected' = Tail(expected) /\ UNCHANGED <<values, invoked>>
  BY DEF ParseScalar, Parses, ExpectsNext
<1>2. PICK v \in Readable("scalar") : now' = PlacedNow(now, Head(expected), v)
  BY DEF ParseScalar
<1>3. v \in Present(now.heap, Len(invoked))
  BY <1>2, ReadTyped DEF Present
<1> QED
  BY <1>1, <1>2, <1>3, OldValueArrived

LEMMA PlaceholderParsed == FileTyped /\ ParserSound /\ ParsePlaceholderValue => ParserSound'
<1> SUFFICES ASSUME FileTyped, ParserSound, ParsePlaceholderValue PROVE ParserSound'
  OBVIOUS
<1>1. /\ expected # <<>> /\ Head(expected).is \in ValueField
      /\ expected' = Tail(expected) /\ UNCHANGED <<values, invoked>>
  BY DEF ParsePlaceholderValue, Parses, ExpectsNext
<1>2. PICK k \in Nat : k < Len(values) /\ now' = PlacedNow(now, Head(expected), values[k + 1])
  BY ReadTyped DEF ParsePlaceholderValue
<1>3. values \in Seq(Present(now.heap, Len(invoked)))
  BY DEF ParserSound, ParserTyped
<1>4. k + 1 \in 1 .. Len(values)
  BY <1>2, <1>3
<1>5. PICK v \in Present(now.heap, Len(invoked)) : v = values[k + 1]
  BY <1>3, <1>4
<1> QED
  BY <1>1, <1>2, <1>5, OldValueArrived

LEMMA ArrayParsed == FileTyped /\ ParserSound /\ ParseArrayValue => ParserSound'
<1> SUFFICES ASSUME FileTyped, ParserSound, ParseArrayValue PROVE ParserSound'
  OBVIOUS
<1> PICK n : n = Len(values)
  OBVIOUS
<1>1. /\ expected # <<>> /\ Head(expected).is \in ValueField
      /\ values' = Append(values, ArrayAt(n)) /\ invoked' = invoked
  BY DEF ParseArrayValue, Parses, ExpectsNext
<1>2. PICK m \in Nat :
        /\ now' = PlacedNow([now EXCEPT !.heap = Put(@, n, NewArray(m))], Head(expected), ArrayAt(n))
        /\ expected' = Copies(m, Item("element", n)) \o Tail(expected)
  BY ReadTyped DEF ParseArrayValue
<1>3. /\ expected \in Seq(Fields) /\ now = [call |-> now.call, heap |-> now.heap]
      /\ ArraysTyped(now.heap, values, Len(invoked)) /\ values \in Seq(Present(now.heap, Len(invoked)))
      /\ ElementsFirst(expected, now.heap) /\ Len(invoked) \in Nat
  BY SoundParts DEF ParserSound, ParserTyped
<1>4. n \in Nat /\ n \notin DOMAIN now.heap /\ \A x \in DOMAIN now.heap : x \in Nat /\ x < n
  BY <1>3 DEF ArraysTyped
<1> PICK heap : heap = Put(now.heap, n, NewArray(m))
  OBVIOUS
<1>5. /\ DOMAIN heap = DOMAIN now.heap \cup {n} /\ heap[n] = NewArray(m)
      /\ \A x \in DOMAIN now.heap : heap[x] = now.heap[x]
  BY <1>4 DEF Put
<1>6. now' = PlacedNow([call |-> now.call, heap |-> heap], Head(expected), ArrayAt(n))
  <2>1. [now EXCEPT !.heap = Put(@, n, NewArray(m))] = [call |-> now.call, heap |-> heap]
    BY <1>3
  <2> QED
    BY <1>2, <2>1
<1>7. PICK new \in Seq(Fields) :
        new = Copies(m, Item("element", n)) /\ \A k \in 1 .. Len(new) : new[k] = Item("element", n)
  <2>1. Item("element", n) \in Fields
    BY <1>4 DEF Item, Fields
  <2> PICK field \in Fields : field = Item("element", n)
    BY <2>1
  <2>2. /\ Copies(m, field) \in Seq(Fields) /\ Len(Copies(m, field)) = m
        /\ \A k \in 1 .. m : Copies(m, field)[k] = field
    BY CopiesTyped
  <2> QED
    BY <2>2
<1>8. \A k \in 1 .. Len(expected) : expected[k] # Item("element", n)
  BY <1>3, <1>4 DEF ElementsFirst, Item
<1>9. Block(new \o Tail(expected), n, 0, m)
  BY <1>1, <1>3, <1>4, <1>7, <1>8, BlockNew
<1>10. /\ ArrayAt(n) \in Present(heap, Len(invoked))
       /\ Seq(Present(now.heap, Len(invoked))) \subseteq Seq(Present(heap, Len(invoked)))
  <2>1. ArrayAt(n) \in Present(heap, Len(invoked))
    BY <1>5 DEF Present
  <2>2. Present(now.heap, Len(invoked)) \subseteq Present(heap, Len(invoked))
    BY <1>5 DEF Present
  <2> QED
    BY <2>1, <2>2, SeqGrows
<1>11. values' \in Seq(Present(heap, Len(invoked))) /\ Len(values') = n + 1
  <2> PICK P : P = Present(heap, Len(invoked))
    OBVIOUS
  <2> PICK v \in P : v = ArrayAt(n)
    BY <1>10
  <2>1. values \in Seq(P) /\ values' = Append(values, v)
    BY <1>1, <1>3, <1>10
  <2> QED
    BY <2>1
<1>12. \A x \in DOMAIN heap : x \in Nat /\ x < Len(values')
  BY <1>4, <1>5, <1>11
<1> PICK v : v = ArrayAt(n)
  OBVIOUS
<1>13. /\ n \notin DOMAIN now.heap /\ DOMAIN now.heap \subseteq DOMAIN heap
       /\ DOMAIN heap \subseteq DOMAIN now.heap \cup {n}
       /\ \A x \in DOMAIN now.heap : heap[x] = now.heap[x]
       /\ n \in DOMAIN heap => heap[n] = NewArray(m)
       /\ \A x \in DOMAIN heap : x \in Nat /\ x < Len(values')
       /\ values' \in Seq(Present(heap, Len(invoked)))
       /\ \A k \in 1 .. Len(new) : new[k] = Item("element", n) /\ n \in DOMAIN heap
       /\ n \in DOMAIN heap => Block(new \o Tail(expected), n, 0, m)
       /\ v \in Present(heap, Len(invoked))
  BY <1>4, <1>5, <1>7, <1>9, <1>10, <1>11, <1>12
<1>14. /\ now' = PlacedNow([call |-> now.call, heap |-> heap], Head(expected), v)
       /\ expected' = new \o Tail(expected) /\ invoked' = invoked
  BY <1>1, <1>2, <1>6, <1>7
<1>15. /\ ParserSound /\ expected # <<>> /\ Head(expected).is \in ValueField
       /\ m \in Nat /\ new \in Seq(Fields)
  BY <1>1
<1> QED
  BY ONLY <1>13, <1>14, <1>15, ValueArrived

-----------------------------------------------------------------------------
(* The target ends: there is nothing it could do. *)
LEMMA FailEnds == ParserSound /\ Fail => ParserSound'
<1> SUFFICES ASSUME ParserSound, Fail PROVE ParserSound'
  OBVIOUS
<1>1. expected' = <<Item("exit", 0)>> /\ now' = now /\ values' = values /\ invoked' = invoked
  BY DEF Fail
<1>2. Item("exit", 0) \in Fields /\ Item("exit", 0).is = "exit"
  BY DEF Item, Fields
<1>3. /\ expected' \in Seq(Fields) /\ expected' # <<>> /\ Len(expected') = 1
      /\ Head(expected') = Item("exit", 0) /\ expected'[1] = Item("exit", 0)
  <2> PICK field \in Fields : field = Item("exit", 0)
    BY <1>2
  <2> HIDE DEF Fields
  <2>1. expected' = <<field>>
    BY <1>1
  <2> QED
    BY <2>1
<1>4. ParserTyped(expected', now', values', invoked')
  <2>1. ParserTyped(expected, now, values, invoked)
    BY DEF ParserSound
  <2> QED
    BY <1>1, <1>3, <2>1 DEF ParserTyped
<1>5. ElementsFirst(expected', now'.heap)
  BY <1>2, <1>3 DEF ElementsFirst
<1>6. (ExpectsNext("exit"))'
  BY <1>2, <1>3 DEF ExpectsNext
<1>7. Reached(now'.heap, invoked')
  BY <1>1, SoundParts
<1> QED
  BY <1>4, <1>5, <1>6, <1>7 DEF ParserSound

LEMMA ParserKept ==
  ParserSound /\ UNCHANGED <<expected, now, values, invoked>> => ParserSound'
  BY DEF ParserSound, ExpectsNext

LEMMA SoundStays == FileTyped /\ ParserSound /\ [TargetNext]_targetVars => ParserSound'
<1> SUFFICES ASSUME FileTyped, ParserSound, [TargetNext]_targetVars PROVE ParserSound'
  OBVIOUS
<1>1. CASE Parse
  <2>1. CASE GoAstray
    BY <2>1, ParserKept DEF GoAstray
  <2> QED
    BY <1>1, <2>1, FailEnds, CountParsed, CalleeParsed, CtorParsed, ArgsCountParsed, CallMade,
       ScalarParsed, ArrayParsed, PlaceholderParsed DEF Parse
<1>2. CASE WriteAhead \/ TargetEnds \/ UNCHANGED targetVars
  <2>1. UNCHANGED <<expected, now, values, invoked>>
    BY <1>2 DEF WriteAhead, TargetEnds, targetVars, target
  <2> QED
    BY <2>1, ParserKept
<1> QED
  BY <1>1, <1>2 DEF TargetNext

LEMMA AlwaysSound == TargetSpec => [](FileTyped /\ ParserSound)
<1>1. Run => FileTyped /\ ParserSound
  BY FileStarts, ParserStarts DEF Run
<1>2. FileTyped /\ ParserSound /\ [TargetNext]_targetVars => FileTyped' /\ ParserSound'
  BY FileStays, SoundStays
<1> QED
  BY <1>1, <1>2, PTL DEF TargetSpec

(* Whatever the target reads, also when it is out of step with the file or the file
   is at its end, no call is made while an array it has read lacks an element
   (Targets/Common/TestCaseParser.h, ParseArrayValue). *)
THEOREM TargetArraysComplete == TargetSpec => []ArraysComplete
  BY AlwaysSound, SoundComplete, PTL

(* Whatever the target reads, a call gets scalars, arrays and results of calls made
   before it, and nothing else can be reached through the arrays, which may contain
   each other (Targets/Common/TestCaseParser.h, ParsePlaceholderValue). *)
THEOREM TargetUsesEarlierResults == TargetSpec => []OnlyEarlierResults
  BY AlwaysSound, SoundEarlier, PTL
=============================================================================
