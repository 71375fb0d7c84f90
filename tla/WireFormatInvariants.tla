------------------------ MODULE WireFormatInvariants ------------------------
(***************************************************************************)
(* What holds of the writer of test cases and its readers at every step,   *)
(* in the terms the proofs need.                                           *)
(*                                                                         *)
(* InOrder: whatever the writer has still to write (todo) comes after the  *)
(* numbers of the results it refers to.                                    *)
(*                                                                         *)
(* ReaderFollows says where the writer and the fuzzer's reader are: td is  *)
(* what the writer had still to write before the token on its way, and     *)
(* expect are the fields for the same part of the file, item by item. Both *)
(* are in the same call d + 1 after the same number k of its items, and    *)
(* owe the same elements of arrays, which come before anything else; what  *)
(* has been read so far is what has been written, and the numbers of       *)
(* arrays and results agree. The two take a number for the result of a     *)
(* call at different times, hence CallClosed.                              *)
(*                                                                         *)
(* ShownNumbers is about the numbers the dumper prints. DumperFollows      *)
(* relates them to those of the file: the writer went through a run of     *)
(* stages, and at one of them it had given the numbers the dumper has      *)
(* given and had before it the list the dumper has before it, but for the  *)
(* items the dumper does not show (Thins).                                 *)
(*                                                                         *)
(* SynthesisFollows is about the program made from what was read. The      *)
(* first m items of toSynthesise are values and variables on their way to  *)
(* the open call and to arrays, and each has exactly those before it that  *)
(* it still lacks, next to each other and in their order (Due). Then come  *)
(* the statement of that call and the calls that follow it.                *)
(*                                                                         *)
(* ParserSound is about the target, which may read anything.  What it has  *)
(* is there (Present).  The elements it still has to read come before any  *)
(* other field, those of one array next to each other and as many as the   *)
(* array lacks (Block), so that no array lacks any when a call is made.    *)
(* For a call that has been made there is a set of complete arrays that    *)
(* holds nothing but itself, scalars and results of calls before (Reach).  *)
(***************************************************************************)
EXTENDS WireFormat, Target

(* The first call that may use each array. *)
From(t) ==
  CHOOSE from \in [DOMAIN t.heap -> 1 .. (Len(t.calls) + 1)] : UsableFrom(t, from)

(* What may be on the list of things to write. *)
Writable(t) ==
  {v \in Value : v \in Scalars \/ v \in DOMAIN t.heap \/ v \in Nat \ ({0} \cup Arrays)}

Items(t) ==
  [is : {"word"}, n : Nat] \cup [is : {"flag"}, n : BOOLEAN]
    \cup [is : {"call", "result"}, n : DOMAIN t.calls] \cup [is : {"value"}, n : Writable(t)]

(* The calls whose results must be numbered before an item is written. *)
Needs(t, item) ==
  {i \in Nat \ {0} :
     \/ item.is = "call" /\ i < item.n
     \/ /\ item.is = "value" /\ item.n \notin Scalars
        /\ IF item.n \in Arrays THEN i < From(t)[item.n] ELSE i = item.n}

Numbers(item, i) == item.is \in {"call", "result"} /\ item.n = i

(* They are numbered, or will be by an item further to the front. *)
Ordered(t, s, numbered) ==
  \A j \in DOMAIN s : \A i \in Needs(t, s[j]) :
    i \in numbered \/ \E k \in 1 .. (j - 1) : Numbers(s[k], i)

InOrder ==
  /\ tc \in TestCases
  /\ todo \in Seq(Items(tc))
  /\ Ordered(tc, todo, DOMAIN retIndexes)

-----------------------------------------------------------------------------
(* Both lists, todo and expect, are worked off from the front.  s still has p
   items in front of what follows the first k items of list. *)
Continues(s, p, list, k) ==
  /\ k \in 0 .. Len(list)
  /\ Len(s) = p + Len(list) - k
  /\ \A x \in 1 .. Len(list) - k : s[p + x] = list[k + x]

-----------------------------------------------------------------------------
(* What the reader has for a value when the arrays met so far are numbered vi. *)
Loadable == Scalars \cup [is : {"result", "array"}, n : Nat]

Got(vi, v, r) ==
  IF v \in Scalars THEN r = v
  ELSE IF v \in Arrays THEN v \in DOMAIN vi /\ r = ArrayAt(vi[v])
  ELSE r = ResultOf(v)

(* The elements of the arrays in known that are still to be read, in the order they
   are read in: they are in front of both lists. *)
Owed == [array : Arrays, at : Nat \ {0}]

InFront(t, td, ex, owed, vi) ==
  \A j \in DOMAIN owed :
    /\ td[j] = ToWrite(t.heap[owed[j].array][owed[j].at])
    /\ ex[j] = Item("element", vi[owed[j].array])

OwedOnce(t, owed, vi, heap, known) ==
  /\ \A j \in DOMAIN owed :
       /\ owed[j].array \in known
       /\ Len(heap[vi[owed[j].array]]) < owed[j].at
       /\ owed[j].at <= Len(t.heap[owed[j].array])
  /\ \A j, k \in DOMAIN owed :
       j < k /\ owed[j].array = owed[k].array => owed[j].at < owed[k].at
  /\ \A a \in known : \A x \in Len(heap[vi[a]]) + 1 .. Len(t.heap[a]) :
       \E j \in DOMAIN owed : owed[j].array = a /\ owed[j].at = x

(* The elements read so far. *)
ElementsGot(t, vi, heap, known) ==
  \A a \in known :
    /\ Len(heap[vi[a]]) <= Len(t.heap[a])
    /\ \A x \in 1 .. Len(heap[vi[a]]) : Got(vi, t.heap[a][x], heap[vi[a]][x])

(* The arrays of the test case, their numbers, and what has been read of them. *)
ArraysNumbered(t, vi, heap, known) ==
  /\ known \subseteq DOMAIN vi /\ DOMAIN vi \subseteq DOMAIN t.heap
  /\ \A a \in DOMAIN vi : vi[a] \in DOMAIN heap
  /\ \A a, b \in DOMAIN vi : vi[a] = vi[b] => a = b
  /\ \A m \in DOMAIN heap : heap[m] \in Seq(Loadable)

(* What is written for them. *)
WritesOf(t, a) == [k \in DOMAIN t.heap[a] |-> ToWrite(t.heap[a][k])]

-----------------------------------------------------------------------------
(* What is written for the calls after the first d, and what is read for them. *)
Kind  == {"word", "flag", "call", "result", "value"}
           \cup {"root", "count", "callee", "this", "ctor", "argsCount", "argument", "element"}
Token == [is : Kind, n : Nat \cup BOOLEAN \cup Value]

ThisOf(c)   == IF c.this = NoThis THEN Undefined ELSE c.this
Complete(c) == 4 + Len(c.args)

CallsAfter(t, d)   == [x \in 1 .. Len(t.calls) - d |-> Item("call", d + x)]
CalleesAfter(t, d) == Copies(Len(t.calls) - d, Item("callee", 0))

Script(t, d)       == SerializeCall(t.calls[d + 1], d + 1) \o CallsAfter(t, d + 1)
FirstFields(t, d)  ==
  <<Item("callee", 0), Item("this", 0), Item("ctor", 0), Item("argsCount", 0)>>
    \o CalleesAfter(t, d + 1)
LastFields(t, d)   ==
  Copies(Len(t.calls[d + 1].args), Item("argument", 0)) \o <<Item("result", 0)>>
    \o CalleesAfter(t, d + 1)

-----------------------------------------------------------------------------
(* Arrays and results share one row of numbers; the reader keeps the same ones. *)
Numbering(t, d, vi, ri, ni, held, pl, rvi) ==
  /\ ni \in Nat
  /\ DOMAIN vi \subseteq DOMAIN t.heap /\ \A a \in DOMAIN vi : vi[a] \in Nat /\ vi[a] < ni
  /\ \A a, b \in DOMAIN vi : vi[a] = vi[b] => a = b
  /\ DOMAIN ri = 1 .. d /\ \A i \in 1 .. d : ri[i] \in Nat /\ ri[i] < ni
  /\ \A a \in DOMAIN vi : \A i \in 1 .. d : vi[a] # ri[i]
  /\ pl \in Seq(Loadable \cup {Null}) /\ Len(pl) = ni
  /\ \A a \in DOMAIN vi : pl[vi[a] + 1] = ArrayAt(vi[a])
  /\ DOMAIN rvi = {ri[i] : i \in 1 .. d} /\ \A i \in 1 .. d : rvi[ri[i]] = i
  /\ held = {vi[a] : a \in DOMAIN vi}

-----------------------------------------------------------------------------
(* The test case as far as it has been read. *)
LoadedCall == [callee : Nat, this : Loadable \cup {NoThis}, ctor : BOOLEAN, args : Seq(Loadable)]
Heaps      == UNION {[S -> Seq(Loadable)] : S \in SUBSET Nat}
Loaded     == [root : Nat, calls : Seq(LoadedCall), heap : Heaps]

-----------------------------------------------------------------------------
(* r is what has been read of the call c when k items of its script are done. *)
CallRead(vi, c, r, k) ==
  /\ k >= 1 => r.callee = c.callee
  /\ k >= 2 => Got(vi, ThisOf(c), r.this)
  /\ k >= 3 => r.ctor = c.ctor
  /\ Len(r.args) = IF k >= 4 THEN k - 4 ELSE 0
  /\ \A x \in 1 .. Len(r.args) : Got(vi, c.args[x], r.args[x])

CallsRead(t, vi, calls, d) ==
  \A i \in 1 .. d : CallRead(vi, t.calls[i], calls[i], Complete(t.calls[i]))

Elements(t, td, ex, ld, vi, known, owed) ==
  /\ td \in Seq(Token) /\ ex \in Seq(Token) /\ ld \in Loaded /\ owed \in Seq(Owed)
  /\ ArraysNumbered(t, vi, ld.heap, known)
  /\ InFront(t, td, ex, owed, vi)
  /\ OwedOnce(t, owed, vi, ld.heap, known)
  /\ ElementsGot(t, vi, ld.heap, known)

(* Between two calls, when d have been read; the writer has done k items of list. *)
Between(t, td, ex, ld, vi, d, list, k) ==
  /\ d \in 0 .. Len(t.calls) /\ Len(ld.calls) = d
  /\ Continues(td, 0, list, k) /\ Continues(ex, 0, CalleesAfter(t, d), 0)
  /\ Elements(t, td, ex, ld, vi, DOMAIN vi, <<>>)
  /\ CallsRead(t, vi, ld.calls, d)

(* In call d + 1, when k items of its script are done and those of its arrays but
   the owed ones. *)
Within(t, td, ex, ld, vi, known, d, k, owed) ==
  /\ d \in Nat /\ d < Len(t.calls) /\ Len(ld.calls) = d + 1
  /\ k \in 1 .. Complete(t.calls[d + 1]) /\ (k \in {1, 3} => owed = <<>>)
  /\ Continues(td, Len(owed), Script(t, d), k)
  /\ k < 4 => Continues(ex, Len(owed), FirstFields(t, d), k)
  /\ k >= 4 => Continues(ex, Len(owed), LastFields(t, d), k - 4)
  /\ Elements(t, td, ex, ld, vi, known, owed)
  /\ CallsRead(t, vi, ld.calls, d)
  /\ CallRead(vi, t.calls[d + 1], ld.calls[d + 1], k)

-----------------------------------------------------------------------------
(* Where writer and reader are when the reader has read all that was written: td is
   what is still to be written, vi and ni are the writer's numbers. *)
NumbersAgree(d, vi, ni) ==
  Numbering(tc, d, vi, retIndexes, ni, DOMAIN loaded.heap, pool, retValueIndex)

NothingRead(vi, ni) ==
  /\ vi = EmptyMap /\ retIndexes = EmptyMap /\ ni = 0 /\ pool = <<>> /\ retValueIndex = EmptyMap
  /\ loaded.root \in Nat /\ loaded.calls = <<>> /\ loaded.heap = EmptyMap
  /\ loaded = [root |-> loaded.root, calls |-> <<>>, heap |-> EmptyMap]

AtRoot(td, vi, ni) ==
  /\ NothingRead(vi, ni) /\ expect = <<Item("root", 0), Item("count", 0)>>
  /\ td = <<Word(tc.root), Word(Len(tc.calls))>> \o CallsAfter(tc, 0)

AtCount(td, vi, ni) ==
  /\ NothingRead(vi, ni) /\ expect = <<Item("count", 0)>> /\ loaded.root = tc.root
  /\ td = <<Word(Len(tc.calls))>> \o CallsAfter(tc, 0)

BeforeCall(td, vi, ni) ==
  \E d \in Nat :
    /\ loaded.root = tc.root /\ NumbersAgree(d, vi, ni)
    /\ Between(tc, td, expect, loaded, vi, d, CallsAfter(tc, d), 0)

CallOpened(td, vi, ni) ==
  \E d \in Nat :
    /\ d < Len(tc.calls) /\ loaded.root = tc.root /\ NumbersAgree(d, vi, ni)
    /\ Between(tc, td, expect, loaded, vi, d, Script(tc, d), 0)

InCallAt(td, vi, ni, d, k, owed) ==
  /\ loaded.root = tc.root /\ NumbersAgree(d, vi, ni)
  /\ Within(tc, td, expect, loaded, vi, DOMAIN vi, d, k, owed)

InCall(td, vi, ni) == \E d, k, owed : InCallAt(td, vi, ni, d, k, owed)

(* The reader has given the result its number, the writer has not. *)
CallClosed(td, vi, ni) ==
  \E d \in Nat :
    /\ d < Len(tc.calls) /\ loaded.root = tc.root
    /\ Numbering(tc, d + 1, vi, Put(retIndexes, d + 1, ni), ni + 1, DOMAIN loaded.heap, pool, retValueIndex)
    /\ Between(tc, td, expect, loaded, vi, d + 1, Script(tc, d), Complete(tc.calls[d + 1]))

Settled(td, vi, ni) ==
  \/ AtRoot(td, vi, ni) \/ AtCount(td, vi, ni)
  \/ BeforeCall(td, vi, ni) \/ CallOpened(td, vi, ni)
  \/ InCall(td, vi, ni) \/ CallClosed(td, vi, ni)

-----------------------------------------------------------------------------
(* What the writer did with the first item of td when it wrote the token that the
   reader has not read yet. *)
SentNumber(td, vi, ni) ==
  /\ Head(td).is \in {"word", "flag"} /\ unread = Head(td)
  /\ todo = Tail(td) /\ valueIndexes = vi /\ nextIndex = ni

SentScalar(td, vi, ni) ==
  /\ Head(td).is = "value" /\ Head(td).n \in Scalars /\ unread = Item("scalar", Head(td).n)
  /\ todo = Tail(td) /\ valueIndexes = vi /\ nextIndex = ni

SentReference(td, vi, ni) ==
  /\ Head(td).is = "value"
  /\ \/ Head(td).n \in DOMAIN retIndexes /\ unread = Item("reference", retIndexes[Head(td).n])
     \/ Head(td).n \in DOMAIN vi /\ unread = Item("reference", vi[Head(td).n])
  /\ todo = Tail(td) /\ valueIndexes = vi /\ nextIndex = ni

SentArray(td, vi, ni) ==
  /\ Head(td).is = "value" /\ Head(td).n \in DOMAIN tc.heap /\ Head(td).n \notin DOMAIN vi
  /\ unread = Item("array", Len(tc.heap[Head(td).n]))
  /\ todo = WritesOf(tc, Head(td).n) \o Tail(td)
  /\ valueIndexes = Put(vi, Head(td).n, ni) /\ nextIndex = ni + 1

Sent(td, vi, ni) ==
  /\ td # <<>>
  /\ \/ SentNumber(td, vi, ni) \/ SentScalar(td, vi, ni)
     \/ SentReference(td, vi, ni) \/ SentArray(td, vi, ni)

InFlight == \E td, vi, ni : Settled(td, vi, ni) /\ Sent(td, vi, ni)

ReaderFollows ==
  /\ tc \in TestCases
  /\ unread = Nothing => Settled(todo, valueIndexes, nextIndex)
  /\ unread # Nothing => InFlight

-----------------------------------------------------------------------------
(* The numbers the dumper has given, and where it has printed those of arrays. *)
ShownNumbers ==
  /\ tc \in TestCases /\ nextValue \in Nat
  /\ \A a \in DOMAIN valueToIndex : valueToIndex[a] \in Nat /\ valueToIndex[a] < nextValue
  /\ \A a, b \in DOMAIN valueToIndex : valueToIndex[a] = valueToIndex[b] => a = b
  /\ \A i \in DOMAIN returned : returned[i] \in Nat /\ returned[i] < nextValue
  /\ \A i \in DOMAIN returned : \A a \in DOMAIN valueToIndex : returned[i] # valueToIndex[a]
  /\ \A r \in references : r.value \in Arrays =>
       r.value \in DOMAIN valueToIndex /\ r.shown = valueToIndex[r.value]

-----------------------------------------------------------------------------
(* The programs.  IsArray tells an array that was read from another value, Worth is
   what a value is worth in the program (InProgram), and Stands says that a variable
   has that worth. *)
IsArray(v)  == v \notin Scalars /\ v.is = "array"
Made(vo, v) == IsArray(v) => v \in DOMAIN vo
Worth(vo, v) == IF IsArray(v) THEN ArrayAt(vo[v]) ELSE v
Stands(env, vo, x, v) == x \in Nat /\ x \in DOMAIN env /\ Made(vo, v) /\ env[x] = Worth(vo, v)

Carries(env, vo, item, v) ==
  \/ item.is = "value" /\ item.n = v
  \/ item.is = "variable" /\ Stands(env, vo, item.n, v)

(* Of the first m items of s those on their way to `to` are next to each other and
   carry what is missing in all, of which done values have arrived. *)
DueAt(env, vo, s, m, to, done, all, d) ==
  /\ done \in 0 .. Len(all) /\ d + (Len(all) - done) <= m
  /\ \A k \in 1 .. m : s[k].to = to => d < k /\ k <= d + (Len(all) - done)
  /\ \A j \in 1 .. (Len(all) - done) :
       s[d + j].to = to /\ Carries(env, vo, s[d + j], all[done + j])
Due(env, vo, s, m, to, done, all) == \E d \in Nat : DueAt(env, vo, s, m, to, done, all, d)

-----------------------------------------------------------------------------
(* The engine has declared the modules in imp and the first n variables. *)
Declares(e, imp, n) ==
  /\ DOMAIN e = {"env", "heap", "broken", "calls"}
  /\ e.broken = FALSE
  /\ DOMAIN e.env = imp \cup 0 .. (n - 1)

-----------------------------------------------------------------------------
(* What the fuzzer has read, as far as the synthesis needs it. *)
Usable == {r \in Loadable : IsArray(r) => r.n \in DOMAIN loaded.heap}

LoadedWhole ==
  /\ DOMAIN loaded.heap \subseteq Nat
  /\ \A n \in DOMAIN loaded.heap : loaded.heap[n] \in Seq(Usable)
  /\ loaded.calls \in Seq(LoadedCall)
  /\ \A i \in DOMAIN loaded.calls :
       /\ loaded.calls[i].callee \in DOMAIN ModuleOf
       /\ loaded.calls[i].this \in Usable \cup {NoThis}
       /\ loaded.calls[i].args \in Seq(Usable)

-----------------------------------------------------------------------------
(* The variables made so far have the worth they were made for. *)
Engine ==
  /\ Declares(js, imported, varId) /\ varId \in Nat /\ imported \cap Nat = {}
  /\ \A v \in DOMAIN variableOf : v \in Usable /\ Stands(js.env, variableOf, variableOf[v], v)
  /\ \A u, v \in DOMAIN variableOf : variableOf[u] = variableOf[v] => u = v

(* The calls made so far are calls of the test case and have returned. *)
Wanted(c) == (IF c.this = NoThis THEN <<>> ELSE <<c.this>>) \o c.args

NamedCall(vo, c) ==
  [callee |-> c.callee, this |-> IF c.this = NoThis THEN NoThis ELSE Worth(vo, c.this),
   ctor |-> c.ctor, args |-> [k \in DOMAIN c.args |-> Worth(vo, c.args[k])]]

MadeCall(vo, c) ==
  /\ c.this = NoThis \/ Made(vo, c.this)
  /\ \A k \in DOMAIN c.args : Made(vo, c.args[k])

Returned ==
  /\ \E S : js.calls \in Seq(S)
  /\ retVariables \in Seq(Nat) /\ Len(retVariables) = Len(js.calls)
  /\ Len(js.calls) <= Len(loaded.calls)
  /\ \A i \in 1 .. Len(js.calls) :
       /\ Stands(js.env, variableOf, retVariables[i], ResultOf(i))
       /\ MadeCall(variableOf, loaded.calls[i])
       /\ js.calls[i].named = NamedCall(variableOf, loaded.calls[i])

(* What is left: m values and variables of the call that is open, its statement,
   and the other calls. *)
Works ==
  [is : {"value"}, n : Loadable, to : Nat \cup {Operand}]
    \cup [is : {"variable"}, n : Nat, to : Nat \cup {Operand}]
    \cup [is : {"call", "statement"}, n : Nat]

Receives(vo, x) == x = Operand \/ \E n \in DOMAIN loaded.heap : ArrayAt(n) \in DOMAIN vo /\ x = vo[ArrayAt(n)]

InHand(vo, item) ==
  /\ (item.is = "value" /\ item.n \in Usable) \/ item.is = "variable"
  /\ Receives(vo, item.to)

Left(open, i, k) == Item(IF open /\ k = 1 THEN "statement" ELSE "call", i + k)

WorkLeft(m, open) ==
  /\ toSynthesise \in Seq(Works) /\ m \in Nat /\ open \in BOOLEAN
  /\ Len(toSynthesise) = m + (Len(loaded.calls) - Len(js.calls))
  /\ open => Len(js.calls) < Len(loaded.calls)
  /\ m > 0 => open
  /\ \A k \in 1 .. m : InHand(variableOf, toSynthesise[k])
  /\ \A k \in 1 .. Len(loaded.calls) - Len(js.calls) : toSynthesise[m + k] = Left(open, Len(js.calls), k)

(* An array with variable x has its elements, but for those in hand. *)
Filled(env, vo, heap, s, m, x, all) ==
  /\ x \in DOMAIN heap /\ heap[x] \in Seq(Loadable)
  /\ Due(env, vo, s, m, x, Len(heap[x]), all)
  /\ \A k \in 1 .. Len(heap[x]) : Made(vo, all[k]) /\ heap[x][k] = Worth(vo, all[k])

Filling(m) ==
  \A n \in DOMAIN loaded.heap : ArrayAt(n) \in DOMAIN variableOf =>
    Filled(js.env, variableOf, js.heap, toSynthesise, m, variableOf[ArrayAt(n)], loaded.heap[n])

(* So have the operands of the open call. *)
Passed(env, vo, ops, s, m, all) ==
  /\ ops \in Seq(Nat)
  /\ Due(env, vo, s, m, Operand, Len(ops), all)
  /\ \A k \in 1 .. Len(ops) : Stands(env, vo, ops[k], all[k])

Passing(m) ==
  Passed(js.env, variableOf, operands, toSynthesise, m, Wanted(loaded.calls[Len(js.calls) + 1]))

BuildingAt(m, open) == WorkLeft(m, open) /\ Filling(m) /\ (open => Passing(m))

Building == AllRead /\ LoadedWhole /\ Engine /\ Returned /\ \E m, open : BuildingAt(m, open)

SynthesisFollows == StartSynthesis \/ Building

-----------------------------------------------------------------------------
(* The dumper's list is the writer's, thinned out: it shows no counts, no flags, and
   no receiver that is missing. *)
Alike(x, y) ==
  x.is \in {"call", "result", "value"} /\ y = Item(IF x.is = "result" THEN "RET" ELSE x.is, x.n)
Unshown(x) == x.is \in {"word", "flag"} \/ (x.is = "value" /\ x.n = Undefined)

(* The items of d are those of s, in their order, but for some that are not shown. *)
Picks(s, d, f) ==
  /\ f \in [1 .. Len(d) -> 1 .. Len(s)]
  /\ \A j, k \in 1 .. Len(d) : j < k => f[j] < f[k]
  /\ \A j \in 1 .. Len(d) : Alike(s[f[j]], d[j])
  /\ \A k \in 1 .. Len(s) : Unshown(s[k]) \/ \E j \in 1 .. Len(d) : f[j] = k
Thins(s, d) == \E f : Picks(s, d, f)

-----------------------------------------------------------------------------
(* What the writer did: run[0], ..., run[n], each the next of the one before. *)
Stage(left, arrays, results, next) ==
  [left |-> left, arrays |-> arrays, results |-> results, next |-> next]

Goes(t, x, y) ==
  /\ x.left # <<>>
  /\ LET item == Head(x.left)
         rest == Tail(x.left)
     IN  \/ /\ item.is \in {"word", "flag"} \/ (item.is = "value" /\ item.n \notin Arrays \ DOMAIN x.arrays)
            /\ y = Stage(rest, x.arrays, x.results, x.next)
         \/ /\ item.is = "call"
            /\ y = Stage(SerializeCall(t.calls[item.n], item.n) \o rest, x.arrays, x.results, x.next)
         \/ /\ item.is = "result"
            /\ y = Stage(rest, x.arrays, Put(x.results, item.n, x.next), x.next + 1)
         \/ /\ item.is = "value" /\ item.n \in Arrays \ DOMAIN x.arrays
            /\ y = Stage(WritesOf(t, item.n) \o rest, Put(x.arrays, item.n, x.next), x.results, x.next + 1)

IsRun(t, run, n) ==
  /\ \A k \in 0 .. n : run[k].left \in Seq(Items(t))
  /\ \A k \in 0 .. (n - 1) : Goes(t, run[k], run[k + 1])

(* At stage x the writer had done what the dumper has done. *)
Shown(x, d, arrays, results, next) ==
  Thins(x.left, d) /\ x.arrays = arrays /\ x.results = results /\ x.next = next

Shows == [is : {"call", "RET", "value"}, n : Value]

Written == Stage(todo, valueIndexes, retIndexes, nextIndex)

Ran(n, run) ==
  /\ IsRun(tc, run, n) /\ run[n] = Written
  /\ \E m \in 0 .. n : Shown(run[m], toDump, valueToIndex, returned, nextValue)

DumperFollows ==
  /\ DOMAIN retIndexes \subseteq Nat /\ toDump \in Seq(Shows)
  /\ \E n \in Nat : \E run : Ran(n, run)

-----------------------------------------------------------------------------
(* The numbers that are written, and the tokens. *)
FileTyped ==
  /\ InOrder
  /\ nextIndex \in Nat
  /\ \A i \in DOMAIN retIndexes : retIndexes[i] \in Nat
  /\ \A a \in DOMAIN valueIndexes : valueIndexes[a] \in Nat
  /\ unread # Nothing =>
       unread \in [is : {"word", "reference", "array"}, n : Nat]
                    \cup [is : {"flag"}, n : BOOLEAN] \cup [is : {"scalar"}, n : Scalars]

(* What the target can have when these are its arrays and so many calls were made. *)
Present(heap, made) ==
  Scalars \cup {ArrayAt(n) : n \in DOMAIN heap} \cup {ResultOf(j) : j \in 1 .. made}

Parsed(heap, made) ==
  [callee : Nat, this : Present(heap, made), ctor : BOOLEAN, args : Seq(Present(heap, made))]

Fields ==
  [is : {"callsCount", "callee", "this", "ctor", "argsCount", "argument", "element", "invoke", "exit"},
   n  : Nat]

ArraysTyped(heap, vs, made) ==
  /\ \A n \in DOMAIN heap : n \in Nat /\ n < Len(vs)
  /\ \A n \in DOMAIN heap : heap[n] \in [size : Nat, elements : Seq(Present(heap, made))]

ParserTyped(ex, nw, vs, calls) ==
  /\ ex \in Seq(Fields)
  /\ nw = [call |-> nw.call, heap |-> nw.heap]
  /\ ArraysTyped(nw.heap, vs, Len(calls))
  /\ nw.call \in Parsed(nw.heap, Len(calls))
  /\ vs \in Seq(Present(nw.heap, Len(calls)))
  /\ calls \in Seq(Parsed(nw.heap, Len(calls)))

(* In s the element fields of array n are the c items after the first b. *)
Block(s, n, b, c) ==
  /\ b \in Nat /\ c \in Nat /\ b + c <= Len(s)
  /\ \A k \in 1 .. Len(s) : s[k] = Item("element", n) <=> b < k /\ k <= b + c

Lacks(array) == array.size - Len(array.elements)

ElementsFirst(ex, heap) ==
  \A k \in 1 .. Len(ex) : ex[k].is = "element" =>
    ex[k].n \in DOMAIN heap /\ \A j \in 1 .. k : ex[j].is = "element"

Owing(ex, heap) == \A n \in DOMAIN heap : \E b : Block(ex, n, b, Lacks(heap[n]))

(* A call that only these arrays can be reached from. *)
Earlier(reach, i, v) ==
  \/ v \in Scalars
  \/ \E n \in reach : v = ArrayAt(n)
  \/ \E j \in 1 .. (i - 1) : v = ResultOf(j)

Reach(reach, heap, call, i) ==
  /\ reach \subseteq DOMAIN heap /\ \A n \in reach : Lacks(heap[n]) = 0
  /\ \A v \in Operands(call) : Earlier(reach, i, v)
  /\ \A n \in reach : \A v \in Range(heap[n].elements) : Earlier(reach, i, v)

Reached(heap, calls) == \A i \in 1 .. Len(calls) : \E reach : Reach(reach, heap, calls[i], i)

ParserSound ==
  /\ ParserTyped(expected, now, values, invoked)
  /\ ElementsFirst(expected, now.heap)
  /\ ExpectsNext("exit") \/ Owing(expected, now.heap)
  /\ Reached(now.heap, invoked)
=============================================================================
