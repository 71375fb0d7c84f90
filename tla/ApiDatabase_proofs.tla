-------------------------- MODULE ApiDatabase_proofs --------------------------
(***************************************************************************)
(* The store's index agrees with its tree, and every entry knows the       *)
(* functions below it (IndexAndTreeAgree, DescendentsExact), whatever      *)
(* names are loaded and however often; what the fuzzer selects is what the *)
(* target calls (CalleesResolve), where names that are kept have no dot;   *)
(* the search finds each function that can be reached once                 *)
(* (EveryFunctionOnce); and all types (TypeOK).                            *)
(***************************************************************************)
EXTENDS ApiDatabase, TLAPS, SequenceTheorems, FiniteSetTheorems

SearchTypes ==
  /\ phase \in {"search", "filter", "load", "populate", "lookup", "ready", "exit"}
  /\ graph \in Graphs
  /\ queue \in Seq(Found) /\ here \in Found
  /\ visited \subseteq Objects
  /\ left \in Seq(PropertyNames)
  /\ funcs \in Seq(Named) /\ listed \in Seq(Named)

(* What the two properties rest on: entries have their parents, functions are
   in entries, and nothing is loaded before the list is complete. *)
StoreTypes ==
  /\ entries \in Seq(Seq(Parts))
  /\ \A p \in EntrySet : OnTheWay(p) \subseteq EntrySet
  /\ DOMAIN functions \subseteq EntrySet
  /\ \A p \in DOMAIN functions : functions[p] \in [id : 0 .. (funcId - 1), name : Strings]
  /\ funcId \in 0 .. Len(listed)
  /\ phase \in {"search", "filter"} => funcId = 0
  /\ Root \in EntrySet
  /\ funcId = 0 => EntrySet = {Root}

StoreInv == StoreTypes /\ IndexAndTreeAgree /\ DescendentsExact

-----------------------------------------------------------------------------
(* Paths. *)
LEMMA NamesAreTyped == \A name \in PropertyNames : name \in Strings
  BY EngineAssumption DEF PropertyNames

LEMMA PathIsSequence == \A name \in Strings : PathOf(name) \in Seq(Parts)
<1> TAKE name \in Strings
<1>1. name \in Seq(Parts) /\ Len(name) \in Nat \ {0}
  BY EmptySeq, LenProperties DEF Strings
<1>2. SubSeq(name, 1, Len(name) - 1) \in Seq(Parts)
  BY <1>1, SubSeqProperties, ElementOfSeq
<1> QED BY <1>1, <1>2 DEF PathOf

LEMMA PrefixFacts ==
  ASSUME NEW p \in Seq(Parts), NEW n \in 0 .. Len(p)
  PROVE  /\ Above(p, n) \in Seq(Parts)
         /\ Len(Above(p, n)) = n
         /\ \A i \in 1 .. n : Above(p, n)[i] = p[i]
<1>1. Len(p) \in Nat /\ \A i \in 1 .. n : p[i] \in Parts
  BY ElementOfSeq
<1> QED BY <1>1, SubSeqProperties DEF Above

LEMMA PrefixOfPrefix ==
  ASSUME NEW p \in Seq(Parts), NEW n \in 0 .. Len(p), NEW m \in 0 .. n
  PROVE  Above(Above(p, n), m) = Above(p, m)
<1>1. /\ Above(p, n) \in Seq(Parts) /\ Len(Above(p, n)) = n
      /\ \A i \in 1 .. n : Above(p, n)[i] = p[i]
  BY PrefixFacts
<1>2. Len(p) \in Nat /\ m \in 0 .. Len(p) /\ m \in 0 .. Len(Above(p, n))
  BY <1>1
<1>3. /\ Above(Above(p, n), m) \in Seq(Parts) /\ Len(Above(Above(p, n), m)) = m
      /\ \A i \in 1 .. m : Above(Above(p, n), m)[i] = Above(p, n)[i]
  BY <1>1, <1>2, PrefixFacts
<1>4. /\ Above(p, m) \in Seq(Parts) /\ Len(Above(p, m)) = m
      /\ \A i \in 1 .. m : Above(p, m)[i] = p[i]
  BY <1>2, PrefixFacts
<1> QED BY <1>1, <1>3, <1>4, SeqEqual

LEMMA WholeAndEmpty ==
  ASSUME NEW p \in Seq(Parts)
  PROVE  Above(p, Len(p)) = p /\ Above(p, 0) = Root
         /\ p \in OnTheWay(p) /\ Root \in OnTheWay(p)
<1>1. Above(p, Len(p)) = p
  BY SubSeqFull DEF Above
<1>2. Above(p, 0) = Root
  BY SubSeqEmpty DEF Above, Root
<1> QED BY <1>1, <1>2 DEF OnTheWay

LEMMA WaysAreClosed ==
  ASSUME NEW p \in Seq(Parts), NEW q \in OnTheWay(p)
  PROVE  q \in Seq(Parts) /\ OnTheWay(q) \subseteq OnTheWay(p)
<1>1. PICK n \in 0 .. Len(p) : q = Above(p, n)
  BY DEF OnTheWay
<1>2. q \in Seq(Parts) /\ Len(q) = n
  BY <1>1, PrefixFacts
<1>3. \A m \in 0 .. n : Above(q, m) = Above(p, m) /\ m \in 0 .. Len(p)
  BY <1>1, PrefixOfPrefix
<1> QED BY <1>2, <1>3 DEF OnTheWay

LEMMA OneIsASequence ==
  ASSUME NEW S, NEW x \in S
  PROVE  <<x>> \in Seq(S) /\ Len(<<x>>) = 1 /\ <<x>>[1] = x
  OBVIOUS

LEMMA FunctionIsSequence ==
  ASSUME NEW S, NEW n \in Nat, NEW f \in [1 .. n -> S]
  PROVE  f \in Seq(S) /\ Len(f) = n
  OBVIOUS

(* The part of a path that has entries is well defined. *)
LEMMA LongestKnown ==
  ASSUME NEW p \in Seq(Parts), Root \in EntrySet
  PROVE  /\ Known(p) \in 0 .. Len(p)
         /\ Above(p, Known(p)) \in EntrySet
         /\ \A m \in (Known(p) + 1) .. Len(p) : Above(p, m) \notin EntrySet
<1> DEFINE below(n) == (n + 1) .. Len(p)
           known == {n \in 0 .. Len(p) : Above(p, n) \in EntrySet}
           T == {below(n) : n \in known}
           S == 0 .. Len(p)
<1>0. Len(p) \in Nat
  BY LenProperties
<1>1. 0 \in known
  BY <1>0, WholeAndEmpty
<1>2. T \subseteq SUBSET S /\ T # {}
  <2>1. T # {}
    BY <1>1
  <2>2. \A n \in known : below(n) \subseteq S
    BY <1>0
  <2> QED BY <2>1, <2>2
<1>3. PICK t \in T : \A u \in T : ~ (<<u, t>> \in StrictSubsetOrdering(S))
  <2>1. IsWellFoundedOn(StrictSubsetOrdering(S), FiniteSubsetsOf(S))
    BY FS_StrictSubsetOrderingWellFounded
  <2>2. FiniteSubsetsOf(S) = SUBSET S
    <3>1. IsFiniteSet(S)
      BY <1>0, FS_Interval
    <3>2. \A u \in SUBSET S : IsFiniteSet(u)
      BY <3>1, FS_Subset
    <3> QED BY <3>2 DEF FiniteSubsetsOf
  <2> HIDE DEF T, S
  <2> QED BY <1>2, <2>1, <2>2, WFMin
<1>4. PICK n \in known : t = below(n)
  OBVIOUS
<1>5. ASSUME NEW m \in (n + 1) .. Len(p), Above(p, m) \in EntrySet PROVE FALSE
  <2>1. m \in known /\ below(m) \in T
    BY <1>0, <1>5
  <2>2. below(m) \subseteq below(n) /\ m \in below(n) /\ m \notin below(m)
    BY <1>0, <1>5
  <2>3. <<below(m), t>> \in StrictSubsetOrdering(S)
    BY <1>2, <1>4, <2>1, <2>2, <1>0, FS_Interval, FS_Subset DEF StrictSubsetOrdering
  <2> QED BY <1>3, <2>1, <2>3
<1> QED BY <1>4, <1>5 DEF Known

(* The entries of a path that are missing are made, and no other. *)
LEMMA EntriesOfPath ==
  ASSUME NEW p \in Seq(Parts), entries \in Seq(Seq(Parts)), Root \in EntrySet,
         \A q \in EntrySet : OnTheWay(q) \subseteq EntrySet,
         entries' = entries \o Created(p)
  PROVE  /\ entries' \in Seq(Seq(Parts))
         /\ EntrySet' = EntrySet \cup OnTheWay(p)
<1> DEFINE n == Known(p)  rest == Len(p) - n
<1>1. /\ n \in 0 .. Len(p) /\ Above(p, n) \in EntrySet
      /\ Len(p) \in Nat /\ rest \in Nat /\ rest = Len(p) - n
  BY LongestKnown, LenProperties
<1>2. \A k \in 1 .. rest : n + k \in 0 .. Len(p) /\ Above(p, n + k) \in Seq(Parts)
  BY <1>1, PrefixFacts
<1>3. Created(p) = [k \in 1 .. rest |-> Above(p, n + k)]
  BY DEF Created
<1>4. Created(p) \in Seq(Seq(Parts)) /\ Len(Created(p)) = rest
  <2> HIDE DEF n, rest
  <2>1. Created(p) \in [1 .. rest -> Seq(Parts)]
    BY <1>2, <1>3
  <2> QED BY <1>1, <2>1, FunctionIsSequence, Zenon
<1> HIDE DEF n, rest
<1>5a. Len(entries) \in Nat
  BY LenProperties
<1>5. /\ entries' \in Seq(Seq(Parts))
      /\ Len(entries') = Len(entries) + rest
      /\ \A i \in 1 .. Len(entries') :
           entries'[i] = IF i <= Len(entries) THEN entries[i] ELSE Created(p)[i - Len(entries)]
  <2> DEFINE new == Created(p)
  <2>1. new \in Seq(Seq(Parts)) /\ Len(new) = rest /\ entries' = entries \o new
    BY <1>4
  <2> HIDE DEF new
  <2>2. /\ entries \o new \in Seq(Seq(Parts))
        /\ Len(entries \o new) = Len(entries) + Len(new)
        /\ \A i \in 1 .. Len(entries) + Len(new) : (entries \o new)[i] =
              IF i <= Len(entries) THEN entries[i] ELSE new[i - Len(entries)]
    BY <2>1, ConcatProperties, Zenon
  <2>3. \A i \in 1 .. Len(entries') : entries'[i] =
              IF i <= Len(entries) THEN entries[i] ELSE new[i - Len(entries)]
    BY <2>1, <2>2, Zenon
  <2> QED BY <2>1, <2>2, <2>3, Zenon DEF new
<1>6. EntrySet' \subseteq EntrySet \cup OnTheWay(p)
  <2> SUFFICES ASSUME NEW i \in DOMAIN entries' PROVE entries'[i] \in EntrySet \cup OnTheWay(p)
    BY DEF EntrySet
  <2>1. i \in 1 .. Len(entries') /\ Len(entries) \in Nat
    BY <1>5, LenProperties
  <2>2. CASE i <= Len(entries)
    BY <1>5, <2>1, <2>2, LenProperties DEF EntrySet
  <2>3. CASE i > Len(entries)
    <3> DEFINE k == i - Len(entries)
    <3>1. k \in 1 .. rest /\ entries'[i] = Created(p)[k]
      BY <1>5, <1>1, <2>1, <2>3
    <3>2. Created(p)[k] = Above(p, n + k) /\ n + k \in 0 .. Len(p)
      BY <3>1, <1>3, <1>2
    <3> QED BY <3>1, <3>2 DEF OnTheWay
  <2> QED BY <2>1, <2>2, <2>3
<1>7. EntrySet \subseteq EntrySet'
  <2> SUFFICES ASSUME NEW i \in DOMAIN entries PROVE entries[i] \in EntrySet'
    BY DEF EntrySet
  <2>1. i \in 1 .. Len(entries') /\ i <= Len(entries)
    BY <1>5, <1>1, LenProperties
  <2>2. entries'[i] = entries[i] /\ i \in DOMAIN entries'
    BY <1>5, <2>1, LenProperties
  <2> QED BY <2>2 DEF EntrySet
<1>8. OnTheWay(p) \subseteq EntrySet'
  <2> SUFFICES ASSUME NEW m \in 0 .. Len(p) PROVE Above(p, m) \in EntrySet'
    BY DEF OnTheWay
  <2>1. CASE m <= n
    <3>1. Above(Above(p, n), m) = Above(p, m) /\ Len(Above(p, n)) = n
      BY <1>1, <2>1, PrefixOfPrefix, PrefixFacts
    <3>2. Above(p, m) \in OnTheWay(Above(p, n))
      BY <3>1, <2>1, <1>1 DEF OnTheWay
    <3> QED BY <3>2, <1>1, <1>7
  <2>2. CASE m > n
    <3> DEFINE i == Len(entries) + (m - n)
    <3>0. Len(entries) \in Nat
      BY LenProperties
    <3>1. i \in 1 .. Len(entries') /\ ~ (i <= Len(entries)) /\ i - Len(entries) = m - n
          /\ m - n \in 1 .. rest /\ n + (m - n) = m
      BY <1>1, <1>5, <2>2, <3>0
    <3>2. entries'[i] = Created(p)[m - n] /\ i \in DOMAIN entries'
      BY <1>5, <3>1, LenProperties
    <3>3. Created(p)[m - n] = Above(p, m)
      BY <1>3, <3>1
    <3> QED BY <3>2, <3>3 DEF EntrySet
  <2> QED BY <1>1, <2>1, <2>2
<1> QED BY <1>5, <1>6, <1>7, <1>8

-----------------------------------------------------------------------------
(* Loading a name keeps the store in order. *)
LEMMA LoadKeepsOrder ==
  ASSUME SearchTypes, StoreInv, Load
  PROVE  StoreInv'
<1> DEFINE name == listed[funcId + 1].name
           path == PathOf(name)
<1>1. /\ name \in Strings /\ path \in Seq(Parts)
      /\ funcId \in Nat /\ funcId' = funcId + 1 /\ funcId' \in 0 .. Len(listed)
      /\ listed' = listed /\ phase' = phase /\ phase = "load"
  <2>1. listed \in Seq(Named) /\ funcId \in 0 .. Len(listed) /\ funcId < Len(listed)
    BY DEF SearchTypes, StoreInv, StoreTypes, Load
  <2>2. Len(listed) \in Nat /\ funcId + 1 \in 1 .. Len(listed)
    BY <2>1, LenProperties
  <2>3. name \in Strings
    <3>1. listed[funcId + 1] \in Named
      BY <2>1, <2>2, ElementOfSeq, Zenon
    <3> QED BY <3>1 DEF Named
  <2> QED BY <2>1, <2>2, <2>3, PathIsSequence DEF Load, extractVars
<1> HIDE DEF name
<1>2. AddFunction(funcId, name)
  BY DEF Load, name
<1>3. entries' \in Seq(Seq(Parts)) /\ EntrySet' = EntrySet \cup OnTheWay(path)
  <2>1. entries' = entries \o Created(path)
    BY <1>2 DEF AddFunction
  <2> HIDE DEF path
  <2> QED BY <1>1, <2>1, EntriesOfPath DEF StoreInv, StoreTypes
<1>4. path \in OnTheWay(path) /\ Root \in OnTheWay(path)
  BY <1>1, WholeAndEmpty
<1>5. /\ DOMAIN functions' = DOMAIN functions \cup {path}
      /\ functions'[path] = [id |-> funcId, name |-> name]
      /\ \A p \in DOMAIN functions : p # path => functions'[p] = functions[p]
  BY <1>2, Zenon DEF AddFunction, SetFunction, Put
<1>6. /\ DOMAIN index' = 0 .. (funcId' - 1)
      /\ index'[funcId] = path
      /\ \A id \in DOMAIN index : id # funcId /\ index'[id] = index[id]
      /\ \A id \in DOMAIN index' : id \in DOMAIN index \/ id = funcId
      /\ funcId \in DOMAIN index' /\ DOMAIN index \subseteq DOMAIN index'
  <2>1. DOMAIN index = 0 .. (funcId - 1)
    BY DEF StoreInv, IndexAndTreeAgree
  <2>2. index' = Put(index, funcId, path)
    BY <1>1, <1>2, <2>1 DEF AddFunction
  <2> HIDE DEF path
  <2> QED BY <1>1, <2>1, <2>2 DEF Put
<1>7. /\ DOMAIN descendents' = EntrySet'
      /\ \A p \in EntrySet' : descendents'[p] =
           (IF p \in EntrySet THEN descendents[p] ELSE {})
             \cup (IF p \in OnTheWay(path) THEN {path} ELSE {})
  BY <1>2, <1>3, Zenon DEF AddFunction, Told, StoreInv, DescendentsExact
<1>8. \A p \in EntrySet' : OnTheWay(p) \subseteq EntrySet'
  BY <1>1, <1>3, WaysAreClosed DEF StoreInv, StoreTypes
<1> HIDE DEF path
<1>9. StoreTypes'
  <2>1. \A p \in DOMAIN functions' : functions'[p] \in [id : 0 .. (funcId' - 1), name : Strings]
    BY <1>1, <1>5 DEF StoreInv, StoreTypes
  <2> QED BY <1>1, <1>3, <1>4, <1>5, <1>8, <2>1 DEF StoreInv, StoreTypes
<1>10. IndexAndTreeAgree'
  <2>1. DOMAIN functions' = {index'[id] : id \in DOMAIN index'}
    BY <1>5, <1>6 DEF StoreInv, IndexAndTreeAgree
  <2>2. ASSUME NEW id \in DOMAIN index'
        PROVE  /\ PathOf(functions'[index'[id]].name) = PathOf(listed[id + 1].name)
               /\ index'[id] = PathOf(listed[id + 1].name)
               /\ functions'[index'[id]].id >= id
               /\ functions'[index'[id]].id \in DOMAIN index'
               /\ index'[functions'[index'[id]].id] = index'[id]
    <3>0. /\ path = PathOf(listed[funcId + 1].name)
          /\ PathOf(functions'[path].name) = path /\ functions'[path].id = funcId
      BY <1>5 DEF path, name
    <3>1. CASE id = funcId
      BY <1>1, <1>6, <3>0, <3>1
    <3>2. CASE id \in DOMAIN index /\ index[id] = path
      <4>1. id < funcId /\ id \in Int
        BY <1>1, <3>2 DEF StoreInv, IndexAndTreeAgree
      <4>2. index'[id] = path /\ path = PathOf(listed[id + 1].name)
        BY <1>6, <3>2 DEF StoreInv, IndexAndTreeAgree
      <4> QED BY <1>1, <1>6, <3>0, <4>1, <4>2
    <3>3. CASE id \in DOMAIN index /\ index[id] # path
      <4>1. /\ index'[id] = index[id] /\ index[id] \in DOMAIN functions
            /\ functions'[index[id]] = functions[index[id]]
        BY <1>5, <1>6, <3>3 DEF StoreInv, IndexAndTreeAgree
      <4>2. /\ PathOf(functions[index[id]].name) = PathOf(listed[id + 1].name)
            /\ index[id] = PathOf(listed[id + 1].name)
            /\ functions[index[id]].id >= id
            /\ functions[index[id]].id \in DOMAIN index
            /\ index[functions[index[id]].id] = index[id]
        BY <3>3 DEF StoreInv, IndexAndTreeAgree, FunctionOf
      <4> QED BY <1>6, <4>1, <4>2
    <3> QED BY <1>6, <3>1, <3>2, <3>3
  <2> QED BY <1>1, <1>6, <2>1, <2>2 DEF IndexAndTreeAgree, FunctionOf
<1>11. DescendentsExact'
  <2>1. ASSUME NEW p \in EntrySet'
        PROVE  descendents'[p] = {q \in DOMAIN functions' : p \in OnTheWay(q)}
    <3>1. CASE p \in EntrySet
      BY <1>5, <1>7, <3>1 DEF StoreInv, DescendentsExact
    <3>2. CASE p \notin EntrySet
      <4>1. \A q \in DOMAIN functions : p \notin OnTheWay(q)
        BY <3>2 DEF StoreInv, StoreTypes
      <4> QED BY <1>5, <1>7, <3>2, <4>1
    <3> QED BY <3>1, <3>2
  <2>2. ASSUME NEW p \in EntrySet' PROVE descendents'[p] # {}
    <3>1. CASE p \in OnTheWay(path)
      BY <1>7, <3>1
    <3>2. CASE p \notin OnTheWay(path)
      <4>1. p \in EntrySet /\ p # Root
        BY <1>3, <1>4, <3>2
      <4>2. funcId > 0
        BY <1>1, <4>1 DEF StoreInv, StoreTypes
      <4> QED BY <1>7, <4>1, <4>2 DEF StoreInv, DescendentsExact
    <3> QED BY <3>1, <3>2
  <2> QED BY <1>7, <2>1, <2>2 DEF DescendentsExact
<1> QED BY <1>9, <1>10, <1>11 DEF StoreInv

-----------------------------------------------------------------------------
(* What is searched, found and listed has its type. *)
LEMMA FoundIsTyped ==
  ASSUME SearchTypes, [Next]_vars
  PROVE  SearchTypes'
<1> USE DEF SearchTypes
<1>1. CASE Visit
  <2>1. queue # <<>> /\ queue \in Seq(Found)
    BY <1>1 DEF Visit
  <2>2. Head(queue) \in Found /\ Tail(queue) \in Seq(Found)
    BY <2>1, HeadTailProperties, Zenon
  <2>3. funcs' \in Seq(Named)
    <3>1. [name |-> Head(queue).path, func |-> Head(queue).obj] \in Named
      BY <2>2 DEF Found, Named
    <3> QED BY <1>1, <3>1, AppendProperties DEF Visit
  <2>4. left' \in Seq(PropertyNames)
    <3>1. NameOrder \in Seq(Strings)
      BY EngineAssumption
    <3>2. NameOrder \in [1 .. Len(NameOrder) -> PropertyNames] /\ Len(NameOrder) \in Nat
      BY <3>1, LenProperties DEF PropertyNames
    <3> QED BY <1>1, <3>2, FunctionIsSequence, Zenon DEF Visit
  <2> QED BY <1>1, <2>2, <2>3, <2>4 DEF Visit
<1>2. CASE Look
  <2> DEFINE name == Head(left)
             child == graph.value[here.obj][name]
             new == [path |-> Join(here.path, name), obj |-> child]
  <2>1. left # <<>> /\ left \in Seq(PropertyNames)
    BY <1>2 DEF Look
  <2>2. name \in PropertyNames /\ Tail(left) \in Seq(PropertyNames)
    BY <2>1, HeadTailProperties, Zenon
  <2>3. here.path \in Strings /\ here.obj \in Objects
    BY DEF Found
  <2>4. ~ Skipped(name) => child \in Objects
    BY <2>2, <2>3, EngineAssumption DEF Skipped
  <2>5. Join(here.path, name) \in Strings
    <3>1. name \in Strings
      BY <2>2, NamesAreTyped
    <3>2. here.path \o name \in Seq(Parts) /\ here.path \o name # <<>>
      BY <3>1, <2>3 DEF Strings
    <3> QED BY <3>1, <3>2 DEF Join, Strings
  <2>6. ~ Skipped(name) => Append(queue, new) \in Seq(Found)
    <3>1. ~ Skipped(name) => new \in Found
      BY <2>4, <2>5 DEF Found
    <3> QED BY <3>1, AppendProperties
  <2> QED BY <1>2, <2>2, <2>4, <2>6 DEF Look
<1>3. CASE SearchEnds \/ Dump \/ LoadEnds \/ PopulateEnds
  BY <1>3 DEF SearchEnds, Dump, LoadEnds, PopulateEnds, extractVars, searchVars
<1>4. CASE Filter
  <2>1. funcs # <<>> /\ funcs \in Seq(Named)
    BY <1>4 DEF Filter
  <2>2. Head(funcs) \in Named /\ Tail(funcs) \in Seq(Named)
    BY <2>1, HeadTailProperties, Zenon
  <2>3. listed' \in Seq(Named)
    BY <1>4, <2>2, AppendProperties DEF Filter
  <2> QED BY <1>4, <2>2, <2>3 DEF Filter, searchVars
<1>5. CASE Load
  BY <1>5 DEF Load, extractVars, searchVars
<1>6. ASSUME NEW id \in DOMAIN index, Populate(id) PROVE SearchTypes'
  BY <1>6 DEF Populate, extractVars, searchVars
<1>7. CASE GetNode \/ AddTargetFunction
  BY <1>7 DEF GetNode, AddTargetFunction, extractVars, searchVars
<1>8. CASE UNCHANGED vars
  BY <1>8 DEF vars, extractVars, searchVars
<1> QED BY <1>1, <1>2, <1>3, <1>4, <1>5, <1>6, <1>7, <1>8 DEF Next, Extract

(* The other steps leave the store alone; only before anything is loaded does
   the list change. *)
LEMMA StoreInOrder ==
  ASSUME SearchTypes, SearchTypes', StoreInv, [Next]_vars
  PROVE  StoreInv'
<1>1. CASE Load
  BY <1>1, LoadKeepsOrder
<1>2. ASSUME UNCHANGED storeVars, listed' = listed,
             phase' \in {"search", "filter"} => phase \in {"search", "filter"}
      PROVE  StoreInv'
  <2>1. EntrySet' = EntrySet
    BY <1>2 DEF storeVars, EntrySet
  <2>2. StoreTypes'
    BY <1>2, <2>1 DEF storeVars, StoreInv, StoreTypes
  <2>3. IndexAndTreeAgree'
    BY <1>2 DEF storeVars, StoreInv, IndexAndTreeAgree, FunctionOf
  <2>4. DescendentsExact'
    BY <1>2, <2>1 DEF storeVars, StoreInv, DescendentsExact
  <2> QED BY <2>2, <2>3, <2>4 DEF StoreInv
<1>3. CASE Filter /\ UNCHANGED storeVars
  <2>1. funcId = 0 /\ DOMAIN index = {} /\ Len(listed') \in Nat
    BY <1>3, LenProperties DEF Filter, StoreInv, StoreTypes, IndexAndTreeAgree, SearchTypes
  <2>2. EntrySet' = EntrySet
    BY <1>3 DEF storeVars, EntrySet
  <2>3. StoreTypes'
    BY <1>3, <2>1, <2>2 DEF storeVars, StoreInv, StoreTypes, Filter
  <2>4. IndexAndTreeAgree'
    BY <1>3, <2>1 DEF storeVars, StoreInv, IndexAndTreeAgree, FunctionOf
  <2>5. DescendentsExact'
    BY <1>3, <2>2 DEF storeVars, StoreInv, DescendentsExact
  <2> QED BY <2>3, <2>4, <2>5 DEF StoreInv
<1>4. CASE Extract /\ UNCHANGED <<storeVars, targetVars>>
  BY <1>2, <1>3, <1>4 DEF Extract, Visit, Look, SearchEnds, Dump, extractVars, searchVars
<1>5. CASE LoadEnds \/ PopulateEnds
  BY <1>2, <1>5 DEF LoadEnds, PopulateEnds, extractVars
<1>6. ASSUME NEW id \in DOMAIN index, Populate(id) PROVE StoreInv'
  BY <1>2, <1>6 DEF Populate, extractVars
<1>7. CASE GetNode \/ AddTargetFunction
  BY <1>2, <1>7 DEF GetNode, AddTargetFunction, extractVars
<1>8. CASE UNCHANGED vars
  BY <1>2, <1>8 DEF vars, extractVars
<1>9. ASSUME Next PROVE StoreInv'
  <2>1. CASE \E id \in DOMAIN index \ passed : Populate(id)
    BY <1>6, <2>1, Zenon
  <2> QED BY <1>1, <1>4, <1>5, <1>7, <1>9, <2>1, Zenon DEF Next
<1> QED BY <1>8, <1>9

LEMMA StoreStartsInOrder ==
  ASSUME Init
  PROVE  SearchTypes /\ StoreInv
<1>1. NoName \in Strings
  <2>1. <<Nothing>> \in Seq(Parts) /\ Len(<<Nothing>>) = 1
    BY PartsAssumption, OneIsASequence
  <2>2. Len(<<>>) = 0
    BY EmptySeq
  <2> QED BY <2>1, <2>2 DEF NoName, Strings
<1>2. SearchTypes
  <2>1. <<>> \in Seq(Found) /\ <<>> \in Seq(PropertyNames) /\ <<>> \in Seq(Named)
    BY EmptySeq
  <2>2. [path |-> NoName, obj |-> Global] \in Found
    BY <1>1, EngineAssumption DEF Found
  <2>3. <<[path |-> NoName, obj |-> Global]>> \in Seq(Found)
    BY <2>2
  <2>4. CASE SearchInit
    BY <2>1, <2>2, <2>3, <2>4, EngineAssumption DEF SearchTypes, SearchInit
  <2>5. CASE ListInit
    <3>1. listed \in Seq(Named)
      <4>1. [name : Strings, func : {Absent}] \subseteq Named
        BY DEF Named
      <4>2. listed \in Seq([name : Strings, func : {Absent}])
        BY <2>5, ListsAssumption DEF ListInit
      <4> QED BY <4>1, <4>2, SeqMonotonic, Zenon
    <3> QED BY <2>1, <2>2, <2>5, <3>1 DEF SearchTypes, ListInit
  <2> QED BY <2>4, <2>5 DEF Init
<1>3. StoreInv
  <2>1. entries = <<Root>> /\ EntrySet = {Root} /\ Root \in Seq(Parts)
        /\ entries \in Seq(Seq(Parts))
    BY DEF Init, StoreInit, EntrySet, Root
  <2>2. OnTheWay(Root) \subseteq {Root}
    BY SubSeqEmpty, EmptySeq DEF OnTheWay, Above, Root
  <2>3. StoreTypes
    BY <1>2, <2>1, <2>2, LenProperties DEF StoreTypes, Init, StoreInit, SearchTypes
  <2>4. IndexAndTreeAgree /\ DescendentsExact
    BY <2>1 DEF IndexAndTreeAgree, DescendentsExact, Init, StoreInit
  <2> QED BY <2>3, <2>4 DEF StoreInv
<1> QED BY <1>2, <1>3

(* An ID leads to the function of its name, whatever names are loaded. *)
THEOREM IndexAgrees == Spec => []IndexAndTreeAgree
<1>1. Init => SearchTypes /\ StoreInv
  BY StoreStartsInOrder
<1>2. SearchTypes /\ StoreInv /\ [Next]_vars => (SearchTypes /\ StoreInv)'
  BY FoundIsTyped, StoreInOrder
<1>3. StoreInv => IndexAndTreeAgree
  BY DEF StoreInv
<1> QED BY <1>1, <1>2, <1>3, PTL DEF Spec

(* Every entry has exactly the functions below it to select from. *)
THEOREM DescendentsAgree == Spec => []DescendentsExact
<1>1. Init => SearchTypes /\ StoreInv
  BY StoreStartsInOrder
<1>2. SearchTypes /\ StoreInv /\ [Next]_vars => (SearchTypes /\ StoreInv)'
  BY FoundIsTyped, StoreInOrder
<1>3. StoreInv => DescendentsExact
  BY DEF StoreInv
<1> QED BY <1>1, <1>2, <1>3, PTL DEF Spec

-----------------------------------------------------------------------------
(* What the fuzzer selects is what the target calls.  The extraction walks the
   engine object by object, the target walks it again along a name.  A way is
   the sequence of objects along a name: the extraction knows one for each
   name, and the target's walk follows it. *)

IsWay(w, path) ==
  /\ w \in [0 .. Len(path) -> Objects]
  /\ w[0] = Global
  /\ \A k \in 1 .. Len(path) :
       <<path[k]>> \in PropertyNames /\ w[k] = graph.value[w[k - 1]][<<path[k]>>]

Leads(name, obj) ==
  /\ name = NoName \/ name[Len(name)] # Nothing
  /\ \E w : IsWay(w, PathOf(name)) /\ w[Len(PathOf(name))] = obj

(* Where all names the filter keeps are proper. *)
Near(g) == CHOOSE set \in SUBSET Objects : Tame(g, set)

(* A name the filter keeps leads to what it was found for. *)
KeptLeads(name, obj) == ~IsDangerous(name) => Leads(name, obj) /\ obj \in Near(graph)

NamesLead ==
  /\ phase \in {"search", "filter"} => visited # {}
  /\ visited # {} =>
       /\ \A i \in 1 .. Len(queue) : KeptLeads(queue[i].path, queue[i].obj)
       /\ KeptLeads(here.path, here.obj)
       /\ \A i \in 1 .. Len(funcs) : KeptLeads(funcs[i].name, funcs[i].func)
       /\ \A i \in 1 .. Len(listed) : Leads(listed[i].name, listed[i].func)

(* A function has the name its ID has in the list. *)
NamesKept == \A p \in DOMAIN functions : functions[p].name = listed[functions[p].id + 1].name

(* A node of the target's trie is what its parent resolves it to. *)
NodesResolve ==
  /\ Root \in DOMAIN trie /\ trie[Root] = Global
  /\ \A p \in DOMAIN trie : trie[p] \in Objects
  /\ \A p \in Seq(Parts), part \in Parts :
       Append(p, part) \in DOMAIN trie =>
         p \in DOMAIN trie /\ trie[Append(p, part)] = Resolve(trie[p], part)

(* The walk follows the name of a function in the store. *)
TargetTypes ==
  /\ NodesResolve
  /\ node \in DOMAIN trie
  /\ fn \in [id : Nat, name : Strings]
  /\ passed \subseteq DOMAIN index
  /\ \A id \in DOMAIN idToNode : idToNode[id] \in DOMAIN trie
  /\ phase = "lookup" =>
       /\ \E id \in passed : fn = FunctionOf(id)
       /\ node \in OnTheWay(PathOf(fn.name))

OnItsWay ==
  phase = "lookup" => \A w : IsWay(w, PathOf(fn.name)) => trie[node] = w[Len(node)]

(* What the database has so far. *)
IdsLead ==
  /\ phase \in {"search", "filter", "load"} => passed = {} /\ DOMAIN idToNode = {}
  /\ phase = "ready" => passed = DOMAIN index
  /\ visited # {} =>
       /\ phase # "exit"
       /\ \A id \in DOMAIN idToNode :
            id \in 0 .. (Len(listed) - 1) /\ trie[idToNode[id]] = listed[id + 1].func
       /\ \A id \in passed :
            \/ FunctionOf(id).id \in DOMAIN idToNode
            \/ phase = "lookup" /\ fn = FunctionOf(id)

Before == SearchTypes /\ StoreInv

-----------------------------------------------------------------------------
(* A name that leads somewhere, and a property after it, lead to its value. *)
LEMMA JoinedWay ==
  ASSUME NEW path \in Strings, NEW obj \in Objects, Leads(path, obj),
         NEW name \in PropertyNames, Len(name) = 1, name[1] # Nothing,
         NEW child \in Objects, child = graph.value[obj][name]
  PROVE  Leads(Join(path, name), child)
<1> DEFINE p == PathOf(path)
           n == Len(p)
           part == name[1]
           joined == Join(path, name)
           new == PathOf(joined)
<1>1. path \in Seq(Parts) /\ name \in Seq(Parts) /\ name \in Strings /\ Len(path) \in Nat \ {0}
  BY NamesAreTyped, EmptySeq, LenProperties DEF Strings
<1>2. part \in Parts /\ name = <<part>>
  <2>1. part \in Parts
    <3>1. 1 \in 1 .. Len(name)
      OBVIOUS
    <3> QED BY <1>1, <3>1, ElementOfSeq, Zenon
  <2> HIDE DEF part
  <2>2. <<part>> \in Seq(Parts) /\ Len(<<part>>) = 1 /\ <<part>>[1] = part
    BY <2>1, OneIsASequence
  <2>3. \A i \in 1 .. Len(name) : name[i] = <<part>>[i]
    BY <2>2 DEF part
  <2> QED BY <1>1, <2>1, <2>2, <2>3, SeqEqual
<1>3. p \in Seq(Parts) /\ n \in Nat
  BY PathIsSequence, LenProperties
<1>4. new = Append(p, part) /\ joined[Len(joined)] # Nothing
  <2>0. name[Len(name)] # Nothing
    OBVIOUS
  <2>1. CASE path = NoName
    <3>1. joined = name
      BY <2>1 DEF Join
    <3>2. p = <<>>
      BY <2>1, SubSeqEmpty DEF PathOf, NoName
    <3>3. new = name
      BY <2>0, <3>1 DEF PathOf
    <3>4. Append(<<>>, part) = <<part>>
      BY <1>2
    <3> HIDE DEF new, joined, p, part
    <3> QED BY <1>2, <2>0, <3>1, <3>2, <3>3, <3>4
  <2>2. CASE path # NoName
    <3>1. p = path
      BY <2>2 DEF Leads, PathOf
    <3>2. joined = path \o name
      BY <2>2 DEF Join
    <3> HIDE DEF joined, p, part
    <3>3. joined = Append(path, part)
      BY <1>1, <1>2, <3>2, AppendIsConcat
    <3>4. joined[Len(joined)] = part
      BY <1>1, <1>2, <3>3, AppendProperties
    <3>5. part # Nothing
      BY DEF part
    <3> QED BY <3>1, <3>3, <3>4, <3>5 DEF PathOf
  <2> QED BY <2>1, <2>2
<1>6. PICK w : IsWay(w, p) /\ w[n] = obj
  BY DEF Leads
<1> HIDE DEF p, part, joined
<1>5. /\ Len(new) = n + 1 /\ new[n + 1] = part
      /\ \A k \in 1 .. n : new[k] = p[k]
  BY <1>2, <1>3, <1>4, AppendProperties
<1> DEFINE v == [k \in 0 .. n + 1 |-> IF k <= n THEN w[k] ELSE child]
<1> HIDE DEF n, new
<1>7. IsWay(v, new) /\ v[n + 1] = child
  <2>1. v \in [0 .. Len(new) -> Objects]
    <3>1. \A k \in 0 .. n : w[k] \in Objects
      BY <1>6 DEF IsWay, n
    <3> QED BY <1>3, <1>5, <3>1
  <2>2. v[0] = Global
    BY <1>3, <1>6 DEF IsWay
  <2>3. ASSUME NEW k \in 1 .. Len(new)
        PROVE  <<new[k]>> \in PropertyNames /\ v[k] = graph.value[v[k - 1]][<<new[k]>>]
    <3>0. k \in 1 .. (n + 1) /\ k - 1 \in 0 .. n
      BY <1>3, <1>5
    <3>1. CASE k <= n
      <4>1. k \in 1 .. n /\ new[k] = p[k] /\ v[k] = w[k] /\ v[k - 1] = w[k - 1]
        BY <1>3, <1>5, <3>0, <3>1
      <4>2. <<p[k]>> \in PropertyNames /\ w[k] = graph.value[w[k - 1]][<<p[k]>>]
        BY <1>6, <4>1 DEF IsWay, n
      <4> HIDE DEF v
      <4> QED BY <4>1, <4>2
    <3>2. CASE k > n
      <4>1. k = n + 1 /\ v[k] = child /\ v[k - 1] = obj /\ new[k] = part
        BY <1>3, <1>5, <1>6, <3>0, <3>2
      <4> HIDE DEF v
      <4> QED BY <1>2, <4>1
    <3> QED BY <1>3, <3>0, <3>1, <3>2
  <2>4. v[n + 1] = child
    BY <1>3
  <2> HIDE DEF v
  <2> QED BY <1>3, <2>1, <2>2, <2>3, <2>4 DEF IsWay
<1> HIDE DEF v
<1> QED BY <1>4, <1>5, <1>7 DEF Leads, new, joined

LEMMA GlobalLeads == Leads(NoName, Global)
<1>1. PathOf(NoName) = <<>> /\ Len(<<>>) = 0
  <2>1. PathOf(NoName) = SubSeq(NoName, 1, 0)
    BY DEF PathOf, NoName
  <2> QED BY <2>1, SubSeqEmpty, EmptySeq
<1> DEFINE w == [k \in 0 .. 0 |-> Global]
<1>2. IsWay(w, <<>>) /\ w[0] = Global
  BY <1>1, EngineAssumption DEF IsWay
<1> QED BY <1>1, <1>2 DEF Leads

-----------------------------------------------------------------------------
(* Every name found so far leads to what it was found for. *)
LEMMA NearIsTame == graph \in Graphs => Near(graph) \subseteq Objects /\ Tame(graph, Near(graph))
  BY KeptNamesAssumption DEF Near

(* A name that is kept has no part that is dropped. *)
LEMMA JoinedDanger ==
  ASSUME NEW path \in Strings, NEW name \in Strings, ~IsDangerous(Join(path, name))
  PROVE  ~IsDangerous(path) /\ ~IsDangerous(name)
<1>1. CASE path = NoName
  <2>1. \A i \in DOMAIN NoName : NoName[i] = Nothing
    BY DEF NoName
  <2> QED BY <1>1, <2>1, PartsAssumption DEF Join, IsDangerous
<1>2. CASE path # NoName
  <2>1. /\ path \in Seq(Parts) /\ name \in Seq(Parts) /\ Len(path) \in Nat /\ Len(name) \in Nat
        /\ DOMAIN path = 1 .. Len(path) /\ DOMAIN name = 1 .. Len(name)
    BY DEF Strings
  <2>2. /\ Join(path, name) = path \o name
        /\ DOMAIN (path \o name) = 1 .. Len(path) + Len(name)
        /\ \A i \in 1 .. Len(path) : (path \o name)[i] = path[i]
        /\ \A i \in 1 .. Len(name) : (path \o name)[Len(path) + i] = name[i]
    BY <1>2, <2>1 DEF Join
  <2>3. \A i \in 1 .. Len(name) : Len(path) + i \in 1 .. Len(path) + Len(name)
    BY <2>1
  <2>4. \A i \in 1 .. Len(path) : i \in 1 .. Len(path) + Len(name)
    BY <2>1
  <2> QED BY <2>1, <2>2, <2>3, <2>4 DEF IsDangerous
<1> QED BY <1>1, <1>2

LEMMA NamesStartRight ==
  ASSUME Init
  PROVE  NamesLead
<1>1. CASE SearchInit
  <2>1. Len(queue) = 1 /\ queue[1].path = NoName /\ queue[1].obj = Global
        /\ Len(funcs) = 0 /\ Len(listed) = 0 /\ here.path = NoName /\ here.obj = Global
    BY <1>1, EmptySeq DEF SearchInit
  <2>2. KeptLeads(NoName, Global)
    BY <1>1, GlobalLeads, NearIsTame DEF KeptLeads, SearchInit, Tame
  <2> QED BY <1>1, <2>1, <2>2 DEF NamesLead, SearchInit
<1>2. CASE ListInit
  BY <1>2 DEF NamesLead, ListInit
<1> QED BY <1>1, <1>2 DEF Init

LEMMA LeadsStays ==
  ASSUME NEW name, NEW obj, Leads(name, obj), graph' = graph
  PROVE  Leads(name, obj)'
  BY DEF Leads, IsWay

LEMMA KeptLeadsStays ==
  ASSUME NEW name, NEW obj, KeptLeads(name, obj), graph' = graph
  PROVE  KeptLeads(name, obj)'
  BY LeadsStays DEF KeptLeads

LEMMA NamesStayRight ==
  ASSUME SearchTypes, SearchTypes', NamesLead, [Next]_vars
  PROVE  NamesLead'
<1>1. CASE Visit
  <2> DEFINE new == [name |-> Head(queue).path, func |-> Head(queue).obj]
  <2>1. /\ queue \in Seq(Found) /\ queue # <<>> /\ funcs \in Seq(Named) /\ listed \in Seq(Named)
        /\ phase = "search" /\ visited # {} /\ graph' = graph
    BY <1>1 DEF Visit, SearchTypes, NamesLead
  <2>2. Head(queue) = queue[1] /\ 1 \in 1 .. Len(queue)
        /\ Len(queue') = Len(queue) - 1 /\ \A i \in 1 .. Len(queue') : queue'[i] = queue[i + 1]
    BY <1>1, <2>1, EmptySeq, HeadTailProperties DEF Visit
  <2>3. KeptLeads(Head(queue).path, Head(queue).obj)
    BY <2>1, <2>2 DEF NamesLead
  <2>4. ASSUME NEW i \in 1 .. Len(queue') PROVE KeptLeads(queue'[i].path, queue'[i].obj)
    <3>1. i + 1 \in 1 .. Len(queue)
      BY <2>1, <2>2, LenProperties
    <3> QED BY <2>1, <2>2, <3>1 DEF NamesLead
  <2>5. \A i \in 1 .. Len(funcs') : KeptLeads(funcs'[i].name, funcs'[i].func)
    <3>1. CASE funcs' = funcs
      BY <2>1, <3>1 DEF NamesLead
    <3>2. CASE funcs' = Append(funcs, new)
      <4>1. new \in Named
        <5>1. Head(queue) \in Found
          BY <2>1, HeadTailProperties, Zenon
        <5> QED BY <5>1 DEF Found, Named
      <4> HIDE DEF new
      <4>2. Len(funcs') = Len(funcs) + 1 /\ funcs'[Len(funcs) + 1] = new
            /\ \A i \in 1 .. Len(funcs) : funcs'[i] = funcs[i]
        BY <2>1, <3>2, <4>1, AppendProperties
      <4>3. Len(funcs) \in Nat
        BY <2>1, LenProperties
      <4>4. KeptLeads(new.name, new.func)
        BY <2>3 DEF new
      <4>5. \A i \in 1 .. Len(funcs) : KeptLeads(funcs[i].name, funcs[i].func)
        BY <2>1 DEF NamesLead
      <4> QED BY <4>2, <4>3, <4>4, <4>5
    <3> QED BY <1>1, <3>1, <3>2 DEF Visit
  <2> QED BY <1>1, <2>1, <2>3, <2>4, <2>5, LeadsStays, KeptLeadsStays DEF NamesLead, Visit
<1>2. CASE Look /\ queue' # queue
  <2> DEFINE name == Head(left)
             child == graph.value[here.obj][name]
             new == [path |-> Join(here.path, name), obj |-> child]
  <2>1. /\ queue \in Seq(Found) /\ left \in Seq(PropertyNames) /\ left # <<>>
        /\ phase = "search" /\ visited # {} /\ graph' = graph /\ graph \in Graphs
        /\ queue' = Append(queue, new) /\ ~ Skipped(name)
        /\ here.path \in Strings /\ here.obj \in Objects
    BY <1>2 DEF Look, SearchTypes, NamesLead, Found
  <2>2. name \in PropertyNames
    BY <2>1, HeadTailProperties, Zenon
  <2>3. name \notin Excluded /\ child # Absent /\ child \in Objects
    BY <2>1, <2>2, EngineAssumption DEF Skipped
  <2>5. KeptLeads(here.path, here.obj)
    BY <2>1 DEF NamesLead
  <2>6. KeptLeads(Join(here.path, name), child)
    <3> SUFFICES ASSUME ~IsDangerous(Join(here.path, name))
                 PROVE  Leads(Join(here.path, name), child) /\ child \in Near(graph)
      BY DEF KeptLeads
    <3> HIDE DEF name, child
    <3>1. child = graph.value[here.obj][name]
      BY DEF child
    <3>2. ~IsDangerous(here.path) /\ ~IsDangerous(name)
      BY <2>1, <2>2, NamesAreTyped, JoinedDanger
    <3>3. Leads(here.path, here.obj) /\ here.obj \in Near(graph) /\ name \in Harmless
      BY <2>2, <2>3, <2>5, <3>2 DEF KeptLeads, Harmless
    <3>4. child \in Near(graph) /\ Len(name) = 1 /\ name[1] # Nothing
      BY <2>1, <2>3, <3>1, <3>3, NearIsTame DEF Tame
    <3> QED BY <2>1, <2>2, <2>3, <3>1, <3>3, <3>4, JoinedWay
  <2>7. KeptLeads(new.path, new.obj)
    BY <2>6
  <2> HIDE DEF new
  <2>8. Len(queue') = Len(queue) + 1 /\ queue'[Len(queue) + 1] = new
        /\ \A i \in 1 .. Len(queue) : queue'[i] = queue[i]
    BY <2>1, AppendProperties
  <2>9. \A i \in 1 .. Len(queue') : KeptLeads(queue'[i].path, queue'[i].obj)
    BY <2>1, <2>7, <2>8, LenProperties DEF NamesLead
  <2> QED BY <1>2, <2>1, <2>9, LeadsStays, KeptLeadsStays DEF NamesLead, Look
<1>3. CASE Filter
  <2>1. /\ funcs \in Seq(Named) /\ funcs # <<>> /\ listed \in Seq(Named)
        /\ visited # {} /\ graph' = graph
    BY <1>3 DEF Filter, SearchTypes, NamesLead
  <2>2. Head(funcs) = funcs[1] /\ 1 \in 1 .. Len(funcs) /\ Head(funcs) \in Named
        /\ Len(funcs') = Len(funcs) - 1 /\ \A i \in 1 .. Len(funcs') : funcs'[i] = funcs[i + 1]
    BY <1>3, <2>1, EmptySeq, HeadTailProperties DEF Filter
  <2>3. ASSUME NEW i \in 1 .. Len(funcs') PROVE KeptLeads(funcs'[i].name, funcs'[i].func)
    <3>1. i + 1 \in 1 .. Len(funcs)
      BY <2>1, <2>2, LenProperties
    <3> QED BY <2>1, <2>2, <3>1 DEF NamesLead
  <2>4. KeptLeads(Head(funcs).name, Head(funcs).func)
    BY <2>1, <2>2 DEF NamesLead
  <2>5. \A i \in 1 .. Len(listed') : Leads(listed'[i].name, listed'[i].func)
    <3>1. CASE listed' = listed
      BY <2>1, <3>1 DEF NamesLead
    <3>2. CASE listed' = Append(listed, Head(funcs)) /\ ~IsDangerous(Head(funcs).name)
      <4>1. Len(listed') = Len(listed) + 1 /\ listed'[Len(listed) + 1] = Head(funcs)
            /\ \A i \in 1 .. Len(listed) : listed'[i] = listed[i]
        BY <2>1, <2>2, <3>2, AppendProperties
      <4> QED BY <2>1, <2>4, <3>2, <4>1, LenProperties DEF NamesLead, KeptLeads
    <3> QED BY <1>3, <3>1, <3>2 DEF Filter
  <2> QED BY <1>3, <2>1, <2>3, <2>5, LeadsStays, KeptLeadsStays DEF NamesLead, Filter, searchVars
<1>4. ASSUME UNCHANGED extractVars, phase' \in {"search", "filter"} => phase \in {"search", "filter"}
      PROVE  NamesLead'
  BY <1>4, LeadsStays, KeptLeadsStays DEF NamesLead, extractVars, searchVars
<1>5. CASE Look /\ queue' = queue
  BY <1>5, LeadsStays, KeptLeadsStays DEF NamesLead, Look
<1>6. CASE SearchEnds \/ Dump \/ Load \/ LoadEnds \/ PopulateEnds \/ GetNode \/ AddTargetFunction
  BY <1>4, <1>6 DEF SearchEnds, Dump, Load, LoadEnds, PopulateEnds, GetNode, AddTargetFunction
<1>7. ASSUME NEW id \in DOMAIN index, Populate(id) PROVE NamesLead'
  BY <1>4, <1>7 DEF Populate
<1>8. CASE UNCHANGED vars
  BY <1>4, <1>8 DEF vars
<1>9. ASSUME Next PROVE NamesLead'
  <2>1. CASE \E id \in DOMAIN index \ passed : Populate(id)
    BY <1>7, <2>1, Zenon
  <2> QED BY <1>1, <1>2, <1>3, <1>5, <1>6, <1>9, <2>1, Zenon DEF Next, Extract
<1> QED BY <1>8, <1>9

(* An entry's function keeps its name. *)
LEMMA NamesAreKept ==
  ASSUME SearchTypes, StoreInv, NamesKept, [Next]_vars
  PROVE  NamesKept'
<1>1. CASE Load
  <2>1. /\ functions' = Put(functions, PathOf(listed[funcId + 1].name),
                            [id |-> funcId, name |-> listed[funcId + 1].name])
        /\ listed' = listed
    BY <1>1 DEF Load, AddFunction, SetFunction, extractVars
  <2> QED BY <2>1 DEF NamesKept, Put
<1>2. CASE functions' = functions /\ listed' = listed
  BY <1>2 DEF NamesKept
<1>3. CASE Filter /\ functions' = functions
  <2>1. DOMAIN index = {}
    BY <1>3 DEF Filter, StoreInv, StoreTypes, IndexAndTreeAgree
  <2>2. DOMAIN functions' = {}
    BY <1>3, <2>1 DEF StoreInv, IndexAndTreeAgree
  <2> QED BY <2>2 DEF NamesKept
<1>4. CASE Extract /\ UNCHANGED <<storeVars, targetVars>>
  BY <1>2, <1>3, <1>4 DEF Extract, Visit, Look, SearchEnds, Dump, extractVars, storeVars
<1>5. CASE LoadEnds \/ PopulateEnds \/ GetNode \/ AddTargetFunction
  BY <1>2, <1>5 DEF LoadEnds, PopulateEnds, GetNode, AddTargetFunction, extractVars, storeVars
<1>6. ASSUME NEW id \in DOMAIN index, Populate(id) PROVE NamesKept'
  BY <1>2, <1>6 DEF Populate, extractVars, storeVars
<1>7. CASE UNCHANGED vars
  BY <1>2, <1>7 DEF vars, extractVars, storeVars
<1>8. ASSUME Next PROVE NamesKept'
  <2>1. CASE \E id \in DOMAIN index \ passed : Populate(id)
    BY <1>6, <2>1, Zenon
  <2> QED BY <1>1, <1>4, <1>5, <1>8, <2>1, Zenon DEF Next
<1> QED BY <1>7, <1>8

-----------------------------------------------------------------------------
(* The target's side. *)
LEMMA FunctionFacts ==
  ASSUME Before, NEW id \in DOMAIN index
  PROVE  /\ index[id] \in DOMAIN functions
         /\ FunctionOf(id) \in [id : 0 .. (funcId - 1), name : Strings]
         /\ FunctionOf(id) \in [id : Nat, name : Strings]
<1>1. index[id] \in DOMAIN functions
  BY DEF Before, StoreInv, IndexAndTreeAgree
<1>2. FunctionOf(id) \in [id : 0 .. (funcId - 1), name : Strings] /\ funcId \in Int
  BY <1>1 DEF Before, StoreInv, StoreTypes, FunctionOf
<1> QED BY <1>1, <1>2

(* A step of the walk is one part further. *)
LEMMA StepOfWalk ==
  ASSUME NEW path \in Seq(Parts), NEW n \in OnTheWay(path), n # path
  PROVE  /\ Len(n) \in 0 .. (Len(path) - 1) /\ n \in Seq(Parts)
         /\ path[Len(n) + 1] \in Parts
         /\ Append(n, path[Len(n) + 1]) \in OnTheWay(path)
         /\ Len(Append(n, path[Len(n) + 1])) = Len(n) + 1
<1>1. PICK m \in 0 .. Len(path) : n = Above(path, m)
  BY DEF OnTheWay
<1>2. n \in Seq(Parts) /\ Len(n) = m /\ \A i \in 1 .. m : n[i] = path[i]
  BY <1>1, PrefixFacts
<1>3. m # Len(path)
  BY <1>1, WholeAndEmpty
<1>4. m \in 0 .. (Len(path) - 1) /\ m + 1 \in 1 .. Len(path) /\ Len(path) \in Nat
  BY <1>3, LenProperties
<1>5. path[m + 1] \in Parts
  BY <1>4, ElementOfSeq
<1> DEFINE next == Append(n, path[m + 1])
<1>6. /\ next \in Seq(Parts) /\ Len(next) = m + 1 /\ next[m + 1] = path[m + 1]
      /\ \A i \in 1 .. m : next[i] = n[i]
  BY <1>2, <1>5, AppendProperties
<1>7. /\ Above(path, m + 1) \in Seq(Parts) /\ Len(Above(path, m + 1)) = m + 1
      /\ \A i \in 1 .. (m + 1) : Above(path, m + 1)[i] = path[i]
  BY <1>4, PrefixFacts
<1> HIDE DEF next
<1>8. \A i \in 1 .. (m + 1) : next[i] = path[i]
  BY <1>2, <1>4, <1>6
<1>9. next = Above(path, m + 1)
  BY <1>6, <1>7, <1>8, SeqEqual
<1> QED BY <1>2, <1>4, <1>5, <1>6, <1>9 DEF OnTheWay, next

LEMMA NodesStay ==
  ASSUME NodesResolve, UNCHANGED <<trie, graph>>
  PROVE  NodesResolve'
<1>1. ASSUME NEW p \in Seq(Parts), NEW part \in Parts, Append(p, part) \in DOMAIN trie'
      PROVE  p \in DOMAIN trie' /\ (trie[Append(p, part)] = Resolve(trie[p], part))'
  <2>1. p \in DOMAIN trie /\ trie[Append(p, part)] = Resolve(trie[p], part)
    BY <1>1 DEF NodesResolve
  <2> QED BY <2>1 DEF Resolve
<1>2. Root \in DOMAIN trie' /\ trie'[Root] = Global /\ \A p \in DOMAIN trie' : trie'[p] \in Objects
  BY DEF NodesResolve
<1> QED BY <1>1, <1>2, Zenon DEF NodesResolve

LEMMA TargetStarts ==
  ASSUME Init
  PROVE  TargetTypes /\ OnItsWay /\ IdsLead /\ NamesKept
<1>1. NoName \in Strings
  <2>1. SearchTypes
    BY StoreStartsInOrder
  <2> QED BY <2>1 DEF Init, SearchInit, ListInit, SearchTypes, Found
<1>2. NodesResolve
  <2>1. \A p \in Seq(Parts), part \in Parts : Append(p, part) # Root
    BY AppendProperties DEF Root
  <2> QED BY <2>1, EngineAssumption DEF Init, TargetInit, NodesResolve
<1>3. TargetTypes
  BY <1>1, <1>2 DEF Init, TargetInit, StoreInit, TargetTypes, SearchInit, ListInit
<1>4. OnItsWay /\ IdsLead
  BY DEF Init, TargetInit, StoreInit, OnItsWay, IdsLead, SearchInit, ListInit
<1>5. NamesKept
  BY DEF Init, StoreInit, NamesKept
<1> QED BY <1>3, <1>4, <1>5

LEMMA TargetIsTyped ==
  ASSUME Before, TargetTypes, [Next]_vars
  PROVE  TargetTypes'
<1>1. ASSUME NEW id \in DOMAIN index, Populate(id) PROVE TargetTypes'
  <2>1. /\ fn' = FunctionOf(id) /\ node' = Root /\ passed' = passed \cup {id}
        /\ UNCHANGED <<trie, idToNode, graph, index, functions>>
    BY <1>1 DEF Populate, extractVars, storeVars
  <2>2. fn' \in [id : Nat, name : Strings]
    BY <2>1, FunctionFacts
  <2>3. PathOf(fn'.name) \in Seq(Parts)
    BY <2>2, PathIsSequence
  <2>4. Root \in OnTheWay(PathOf(fn'.name))
    BY <2>3, WholeAndEmpty
  <2>5. NodesResolve'
    BY <2>1, NodesStay DEF TargetTypes
  <2> QED BY <2>1, <2>2, <2>4, <2>5 DEF TargetTypes, NodesResolve, FunctionOf
<1>2. CASE GetNode
  <2> DEFINE path  == PathOf(fn.name)
             part  == path[Len(node) + 1]
             child == Append(node, part)
             value == Resolve(trie[node], part)
  <2>1. /\ path \in Seq(Parts) /\ node \in OnTheWay(path) /\ node # path /\ node \in DOMAIN trie
        /\ phase = "lookup" /\ graph \in Graphs
        /\ UNCHANGED <<graph, index, functions, idToNode, passed, fn>>
    BY <1>2, PathIsSequence DEF GetNode, TargetTypes, extractVars, storeVars, Before, SearchTypes
  <2> HIDE DEF path
  <2>2. node \in Seq(Parts) /\ part \in Parts /\ child \in OnTheWay(path)
    BY <2>1, StepOfWalk
  <2>5. \/ node' = child /\ child \in DOMAIN trie /\ trie' = trie
        \/ child \notin DOMAIN trie /\ value # Absent /\ trie' = Put(trie, child, value) /\ node' = child
        \/ node' = node /\ trie' = trie
    BY <1>2 DEF GetNode, path
  <2> HIDE DEF child, value
  <2>3. ASSUME trie' = trie, node' \in DOMAIN trie, node' \in OnTheWay(path) PROVE TargetTypes'
    <3>1. NodesResolve'
      BY <2>1, <2>3, NodesStay DEF TargetTypes
    <3> QED BY <2>1, <2>3, <3>1 DEF TargetTypes, FunctionOf, path
  <2>4. CASE child \notin DOMAIN trie /\ value # Absent /\ trie' = Put(trie, child, value) /\ node' = child
    <3> HIDE DEF part, child, value
    <3>1. /\ DOMAIN trie' = DOMAIN trie \cup {child} /\ trie'[child] = value
          /\ \A p \in DOMAIN trie : trie'[p] = trie[p]
      BY <2>4 DEF Put
    <3>2. value \in Objects
      <4>1. trie[node] \in Objects
        BY <2>1 DEF TargetTypes, NodesResolve
      <4> QED BY <2>1, <2>4, <4>1, EngineAssumption DEF value, Resolve
    <3>3. ASSUME NEW p \in Seq(Parts), NEW q \in Parts, Append(p, q) \in DOMAIN trie'
          PROVE  p \in DOMAIN trie' /\ trie'[Append(p, q)] = Resolve(trie'[p], q)
      <4>1. CASE Append(p, q) \in DOMAIN trie
        <5>1. p \in DOMAIN trie /\ trie[Append(p, q)] = Resolve(trie[p], q)
          BY <4>1 DEF TargetTypes, NodesResolve
        <5> QED BY <3>1, <4>1, <5>1
      <4>2. CASE Append(p, q) = child
        <5>1. p = node /\ q = part
          BY <2>2, <4>2, AppendInjective DEF child
        <5> QED BY <2>1, <3>1, <4>2, <5>1 DEF value
      <4> QED BY <3>1, <3>3, <4>1, <4>2
    <3>4. NodesResolve'
      <4>1. ASSUME NEW p \in Seq(Parts), NEW q \in Parts, Append(p, q) \in DOMAIN trie'
            PROVE  p \in DOMAIN trie' /\ (trie[Append(p, q)] = Resolve(trie[p], q))'
        <5>1. p \in DOMAIN trie' /\ trie'[Append(p, q)] = Resolve(trie'[p], q)
          BY <3>3, <4>1
        <5> QED BY <2>1, <5>1 DEF Resolve
      <4>2. Root \in DOMAIN trie' /\ trie'[Root] = Global /\ \A p \in DOMAIN trie' : trie'[p] \in Objects
        BY <3>1, <3>2 DEF TargetTypes, NodesResolve
      <4> QED BY <4>1, <4>2, Zenon DEF NodesResolve
    <3>5. (\E id \in passed : fn = FunctionOf(id))'
      BY <2>1 DEF TargetTypes, FunctionOf
    <3>6. node' \in DOMAIN trie' /\ node' \in OnTheWay(path)
      BY <2>2, <2>4, <3>1
    <3>7. (\A id \in DOMAIN idToNode : idToNode[id] \in DOMAIN trie)'
      BY <2>1, <3>1 DEF TargetTypes
    <3>8. (node \in OnTheWay(PathOf(fn.name)))'
      BY <2>1, <3>6 DEF path
    <3>9. (fn \in [id : Nat, name : Strings] /\ passed \subseteq DOMAIN index)'
      BY <2>1 DEF TargetTypes
    <3> QED BY <3>4, <3>5, <3>6, <3>7, <3>8, <3>9, Zenon DEF TargetTypes
  <2> QED
    <3>1. ASSUME node' = child, child \in DOMAIN trie, trie' = trie PROVE TargetTypes'
      BY <2>2, <2>3, <3>1
    <3>2. ASSUME node' = node, trie' = trie PROVE TargetTypes'
      BY <2>1, <2>3, <3>2
    <3> QED BY <2>4, <2>5, <3>1, <3>2
<1>3. CASE AddTargetFunction
  <2>1. /\ idToNode' = Put(idToNode, fn.id, node) /\ phase' = "populate"
        /\ UNCHANGED <<trie, graph, index, functions, passed, fn, node>>
    BY <1>3 DEF AddTargetFunction, extractVars, storeVars
  <2>2. NodesResolve'
    BY <2>1, NodesStay DEF TargetTypes
  <2> QED BY <2>1, <2>2 DEF TargetTypes, Put
<1>4. ASSUME UNCHANGED <<targetVars, graph>>, phase' # "lookup",
             \A id \in DOMAIN index : id \in DOMAIN index'
      PROVE  TargetTypes'
  BY <1>4, NodesStay DEF TargetTypes, targetVars
<1>5. CASE Extract /\ UNCHANGED <<storeVars, targetVars>>
  BY <1>4, <1>5 DEF Extract, Visit, Look, SearchEnds, Filter, Dump, extractVars, storeVars
<1>6. CASE Load /\ UNCHANGED targetVars
  BY <1>4, <1>6 DEF Load, AddFunction, Put, extractVars
<1>7. CASE (LoadEnds /\ UNCHANGED targetVars) \/ PopulateEnds
  BY <1>4, <1>7 DEF LoadEnds, PopulateEnds, extractVars, storeVars
<1>8. CASE UNCHANGED vars
  <2>1. UNCHANGED <<phase, graph, trie, idToNode, passed, fn, node, index, functions>>
    BY <1>8 DEF vars, extractVars, storeVars, targetVars
  <2> QED BY <2>1, NodesStay DEF TargetTypes, FunctionOf
<1>9. ASSUME Next PROVE TargetTypes'
  <2>1. CASE \E id \in DOMAIN index \ passed : Populate(id)
    BY <1>1, <2>1, Zenon
  <2> QED BY <1>2, <1>3, <1>5, <1>6, <1>7, <1>9, <2>1, Zenon DEF Next
<1> QED BY <1>8, <1>9

LEMMA Invariant ==
  /\ Init => Before /\ TargetTypes
  /\ Before /\ TargetTypes /\ [Next]_vars => (Before /\ TargetTypes)'
BY StoreStartsInOrder, TargetStarts, FoundIsTyped, StoreInOrder, TargetIsTyped DEF Before

(* All variables of the three programs have their types, whatever the engine or
   the list of names: in particular an index leads to an entry, an ID of the
   target to a node, and a node to an object. *)
THEOREM TypeCorrect == Spec => []TypeOK
<1>1. Before /\ TargetTypes => TypeOK
  <2> SUFFICES ASSUME Before, TargetTypes PROVE TypeOK
    OBVIOUS
  <2>1. graph.functions \subseteq Objects /\ graph.value \in [Objects -> [PropertyNames -> Objects \cup {Absent}]]
    BY EngineAssumption DEF Before, SearchTypes
  <2>2. \A id \in DOMAIN index : index[id] \in EntrySet
    BY DEF Before, StoreInv, IndexAndTreeAgree, StoreTypes
  <2>3. \A p \in DOMAIN trie : trie[p] \in Objects
    BY DEF TargetTypes, NodesResolve
  <2> QED BY <2>1, <2>2, <2>3 DEF Before, SearchTypes, StoreInv, StoreTypes, TargetTypes, TypeOK
<1> QED BY <1>1, Invariant, PTL DEF Spec

-----------------------------------------------------------------------------
(* The function being added is one of the list, and its name leads to it. *)
LEMMA FnLeads ==
  ASSUME Before, TargetTypes, NamesLead, NamesKept, phase = "lookup", visited # {}
  PROVE  /\ fn.id \in 0 .. (Len(listed) - 1)
         /\ Leads(fn.name, listed[fn.id + 1].func)
<1>1. PICK id \in passed : fn = FunctionOf(id)
  BY DEF TargetTypes
<1>2. id \in DOMAIN index
  BY DEF TargetTypes
<1>3. index[id] \in DOMAIN functions /\ fn \in [id : 0 .. (funcId - 1), name : Strings]
  BY <1>1, <1>2, FunctionFacts
<1>4. fn.name = listed[fn.id + 1].name
  BY <1>1, <1>3 DEF NamesKept, FunctionOf
<1>5. Len(listed) \in Nat /\ funcId \in 0 .. Len(listed)
  BY LenProperties DEF Before, SearchTypes, StoreInv, StoreTypes
<1>6. fn.id \in 0 .. (Len(listed) - 1) /\ fn.id + 1 \in 1 .. Len(listed)
  BY <1>3, <1>5
<1> QED BY <1>4, <1>6 DEF NamesLead

(* Where a way goes on, the target's walk goes on to the same object. *)
LEMMA WalkFollows ==
  ASSUME Before, TargetTypes, OnItsWay, phase = "lookup", node # PathOf(fn.name),
         NEW w, IsWay(w, PathOf(fn.name))
  PROVE  LET n == Len(node)
             part == PathOf(fn.name)[n + 1]
         IN  Resolve(trie[node], part) = w[n + 1] /\ w[n + 1] \in Objects
<1> DEFINE path == PathOf(fn.name)
           n == Len(node)
           part == path[n + 1]
<1>1. path \in Seq(Parts) /\ node \in OnTheWay(path)
  BY PathIsSequence DEF TargetTypes
<1>2. n \in 0 .. (Len(path) - 1) /\ Len(path) \in Nat
  BY <1>1, StepOfWalk, LenProperties
<1>3. trie[node] = w[n]
  BY DEF OnItsWay
<1> HIDE DEF path, n
<1>4. n + 1 \in 1 .. Len(path) /\ n + 1 \in 0 .. Len(path) /\ (n + 1) - 1 = n
  BY <1>2
<1>5. <<path[n + 1]>> \in PropertyNames /\ w[n + 1] = graph.value[w[n]][<<path[n + 1]>>]
      /\ w[n + 1] \in Objects
  BY <1>4 DEF IsWay, path
<1> QED BY <1>3, <1>5 DEF Resolve, path, n

LEMMA StaysOnItsWay ==
  ASSUME Before, TargetTypes, OnItsWay, [Next]_vars
  PROVE  OnItsWay'
<1>1. ASSUME NEW id \in DOMAIN index, Populate(id) PROVE OnItsWay'
  <2>1. node' = Root /\ trie' = trie /\ graph' = graph /\ trie[Root] = Global /\ Len(Root) = 0
    BY <1>1, EmptySeq DEF Populate, extractVars, TargetTypes, NodesResolve, Root
  <2> QED BY <2>1 DEF OnItsWay, IsWay
<1>2. CASE GetNode /\ phase' = "lookup"
  <2> DEFINE path  == PathOf(fn.name)
             part  == path[Len(node) + 1]
             child == Append(node, part)
             value == Resolve(trie[node], part)
  <2>1. /\ path \in Seq(Parts) /\ node \in OnTheWay(path) /\ node # path /\ node \in DOMAIN trie
        /\ phase = "lookup" /\ graph' = graph /\ fn' = fn
    BY <1>2, PathIsSequence DEF GetNode, TargetTypes, extractVars
  <2>2. node \in Seq(Parts) /\ part \in Parts /\ Len(child) = Len(node) + 1
    BY <2>1, StepOfWalk
  <2>3. node' = child /\ trie'[child] = value
    <3>1. CASE child \in DOMAIN trie /\ node' = child /\ trie' = trie
      BY <2>2, <3>1 DEF TargetTypes, NodesResolve
    <3>2. CASE node' = child /\ trie' = Put(trie, child, value)
      BY <3>2 DEF Put
    <3> QED BY <1>2, <3>1, <3>2 DEF GetNode
  <2> HIDE DEF path, part, child, value
  <2>4. ASSUME NEW w, IsWay(w, path) PROVE value = w[Len(child)]
    BY <2>1, <2>2, <2>4, WalkFollows DEF path, part, value
  <2>5. ASSUME NEW w, IsWay(w, PathOf(fn.name))' PROVE trie'[node'] = w[Len(node')]
    <3>1. IsWay(w, path)
      BY <2>1, <2>5 DEF IsWay, path
    <3> QED BY <2>3, <2>4, <3>1
  <2> QED BY <2>5 DEF OnItsWay
<1>3. ASSUME phase' # "lookup" PROVE OnItsWay'
  BY <1>3 DEF OnItsWay
<1>4. CASE UNCHANGED vars
  BY <1>4 DEF vars, extractVars, targetVars, OnItsWay, IsWay
<1>5. CASE AddTargetFunction \/ PopulateEnds \/ Load \/ LoadEnds \/ Extract
  BY <1>3, <1>5 DEF AddTargetFunction, PopulateEnds, Load, LoadEnds, Extract, Visit, Look,
                    SearchEnds, Filter, Dump
<1>6. ASSUME Next PROVE OnItsWay'
  <2>1. CASE \E id \in DOMAIN index \ passed : Populate(id)
    BY <1>1, <2>1, Zenon
  <2> QED BY <1>2, <1>3, <1>5, <1>6, <2>1, Zenon DEF Next
<1> QED BY <1>4, <1>6

(* The walk never fails, and each ID is added for what the search found. *)
LEMMA IdsStayRight ==
  ASSUME Before, TargetTypes, NamesLead, NamesKept, OnItsWay, IdsLead, [Next]_vars
  PROVE  IdsLead'
<1>1. ASSUME NEW id \in DOMAIN index, Populate(id) PROVE IdsLead'
  <2>1. /\ phase = "populate" /\ phase' = "lookup" /\ passed' = passed \cup {id}
        /\ fn' = FunctionOf(id)
        /\ UNCHANGED <<trie, idToNode, index, functions, listed, visited>>
    BY <1>1 DEF Populate, extractVars, searchVars, storeVars
  <2> QED BY <2>1 DEF IdsLead, FunctionOf
<1>2. CASE GetNode
  <2>1. /\ phase = "lookup" /\ phase' \in {"lookup", "exit"}
        /\ UNCHANGED <<idToNode, passed, fn, index, functions, listed, visited>>
    BY <1>2 DEF GetNode, extractVars, searchVars, storeVars
  <2>2. ASSUME visited # {} PROVE phase' = "lookup"
    <3>1. PICK w : IsWay(w, PathOf(fn.name))
      BY <2>1, <2>2, FnLeads DEF Leads
    <3>2. node # PathOf(fn.name)
      BY <1>2 DEF GetNode
    <3>3. Resolve(trie[node], PathOf(fn.name)[Len(node) + 1]) \in Objects
      BY <2>1, <3>1, <3>2, WalkFollows
    <3> QED BY <1>2, <2>1, <3>3, EngineAssumption DEF GetNode
  <2>3. \A p \in DOMAIN trie : trie'[p] = trie[p]
    BY <1>2 DEF GetNode, Put
  <2>4. \A id \in DOMAIN idToNode : idToNode[id] \in DOMAIN trie
    BY DEF TargetTypes
  <2>5. CASE visited = {}
    BY <2>1, <2>5 DEF IdsLead
  <2>6. CASE visited # {}
    BY <2>1, <2>2, <2>3, <2>4, <2>6 DEF IdsLead, FunctionOf
  <2> QED BY <2>5, <2>6
<1>3. CASE AddTargetFunction
  <2>1. /\ phase = "lookup" /\ phase' = "populate" /\ node = PathOf(fn.name)
        /\ idToNode' = Put(idToNode, fn.id, node)
        /\ UNCHANGED <<trie, passed, index, functions, listed, visited>>
    BY <1>3 DEF AddTargetFunction, extractVars, searchVars, storeVars
  <2>2. ASSUME visited # {}
        PROVE  fn.id \in 0 .. (Len(listed) - 1) /\ trie[node] = listed[fn.id + 1].func
    <3>1. /\ fn.id \in 0 .. (Len(listed) - 1)
          /\ Leads(fn.name, listed[fn.id + 1].func)
      BY <2>1, <2>2, FnLeads
    <3>2. PICK w : IsWay(w, PathOf(fn.name)) /\ w[Len(PathOf(fn.name))] = listed[fn.id + 1].func
      BY <3>1 DEF Leads
    <3> QED BY <2>1, <3>1, <3>2 DEF OnItsWay
  <2>3. /\ DOMAIN idToNode' = DOMAIN idToNode \cup {fn.id} /\ idToNode'[fn.id] = node
        /\ \A id \in DOMAIN idToNode : id # fn.id => idToNode'[id] = idToNode[id]
    BY <2>1 DEF Put
  <2>4. ASSUME visited # {}
        PROVE  /\ \A id \in DOMAIN idToNode' :
                    id \in 0 .. (Len(listed) - 1) /\ trie[idToNode'[id]] = listed[id + 1].func
               /\ \A id \in passed : FunctionOf(id).id \in DOMAIN idToNode'
    BY <2>2, <2>3, <2>4 DEF IdsLead
  <2>5. \A id : FunctionOf(id)' = FunctionOf(id)
    BY <2>1 DEF FunctionOf
  <2> QED BY <2>1, <2>4, <2>5 DEF IdsLead
<1>4. CASE Extract /\ UNCHANGED <<storeVars, targetVars>>
  <2>1. /\ phase \in {"search", "filter"} /\ phase' \in {"search", "filter", "load"}
        /\ UNCHANGED <<idToNode, passed>>
    BY <1>4 DEF Extract, Visit, Look, SearchEnds, Filter, Dump, targetVars
  <2> QED BY <2>1 DEF IdsLead
<1>5. CASE (Load \/ LoadEnds) /\ UNCHANGED targetVars
  <2>1. phase = "load" /\ phase' \in {"load", "populate"} /\ UNCHANGED <<idToNode, passed>>
    BY <1>5 DEF Load, LoadEnds, targetVars
  <2> QED BY <2>1 DEF IdsLead
<1>6. CASE PopulateEnds
  <2>1. /\ phase = "populate" /\ phase' = "ready" /\ passed = DOMAIN index
        /\ UNCHANGED <<trie, idToNode, passed, index, functions, listed, visited>>
    BY <1>6 DEF PopulateEnds, extractVars, searchVars, storeVars, targetVars
  <2> QED BY <2>1 DEF IdsLead, FunctionOf
<1>7. CASE UNCHANGED vars
  <2>1. UNCHANGED <<phase, trie, idToNode, passed, fn, index, functions, listed, visited>>
    BY <1>7 DEF vars, extractVars, searchVars, storeVars, targetVars
  <2> QED BY <2>1 DEF IdsLead, FunctionOf
<1>8. ASSUME Next PROVE IdsLead'
  <2>1. CASE \E id \in DOMAIN index \ passed : Populate(id)
    BY <1>1, <2>1, Zenon
  <2> QED BY <1>2, <1>3, <1>4, <1>5, <1>6, <1>8, <2>1, Zenon DEF Next
<1> QED BY <1>7, <1>8

LEMMA ReadyResolves ==
  ASSUME Before, IdsLead
  PROVE  CalleesResolve
<1>1. CASE visited # {} /\ phase = "ready"
  <2>1. ASSUME NEW p \in EntrySet, NEW q \in descendents[p]
        PROVE  /\ functions[q].id \in DOMAIN idToNode
               /\ TargetFunction(functions[q].id) = listed[functions[q].id + 1].func
    <3>1. q \in DOMAIN functions
      BY <2>1 DEF Before, StoreInv, DescendentsExact
    <3>2. PICK id \in DOMAIN index : q = index[id]
      BY <3>1 DEF Before, StoreInv, IndexAndTreeAgree
    <3>3. id \in passed /\ FunctionOf(id) = functions[q]
      BY <1>1, <3>2 DEF IdsLead, FunctionOf
    <3>4. functions[q].id \in DOMAIN idToNode
      BY <1>1, <3>3 DEF IdsLead
    <3> QED BY <1>1, <3>4 DEF IdsLead, TargetFunction
  <2> QED BY <1>1, <2>1 DEF CalleesResolve
<1>2. CASE ~ (visited # {} /\ phase = "ready")
  BY <1>2 DEF IdsLead, CalleesResolve
<1> QED BY <1>1, <1>2

(* Every function the generator can select is known to the target under its ID,
   and is the one the extraction found: CalleesResolve, in every engine where the
   properties reached along names the filter keeps have no dot in their names
   (KeptNamesAssumption; ExtractAPI.js, CAFStore.h, FunctionDatabase.h). *)
THEOREM CalleesAlwaysResolve == Spec => []CalleesResolve
<1> DEFINE Inv == Before /\ TargetTypes /\ NamesLead /\ NamesKept /\ OnItsWay /\ IdsLead
<1>1. Init => Inv
  BY StoreStartsInOrder, TargetStarts, NamesStartRight DEF Before
<1>2. Inv /\ [Next]_vars => Inv'
  <2> SUFFICES ASSUME Inv, [Next]_vars PROVE Inv'
    OBVIOUS
  <2>1. (Before /\ TargetTypes)'
    BY Invariant
  <2>2. NamesLead' /\ NamesKept'
    BY <2>1, NamesStayRight, NamesAreKept DEF Before
  <2>3. OnItsWay' /\ IdsLead'
    BY StaysOnItsWay, IdsStayRight
  <2> QED BY <2>1, <2>2, <2>3
<1>3. Inv => CalleesResolve
  BY ReadyResolves
<1> QED BY <1>1, <1>2, <1>3, PTL DEF Spec

-----------------------------------------------------------------------------
(* The search. *)
(* The objects that wait, and the functions that were visited. *)
Waiting(q) == {q[i].obj : i \in DOMAIN q}
Kept(f) == {f[i].func : i \in DOMAIN f}
WaitOnce(q) == \A i, j \in DOMAIN q : q[i].obj = q[j].obj => i = j
KeptOnce(f) == \A i, j \in DOMAIN f : f[i].func = f[j].func => i = j

(* Where the search stands: what was found was found for a reason, and once; what does not wait
   any more has been kept, if it is a function, and looked at, but for the names left. *)
Searched ==
  /\ Global \in visited
  /\ \A set \in SUBSET Objects : Global \in set /\ Closed(set) => visited \subseteq set
  /\ WaitOnce(queue) /\ Waiting(queue) \subseteq visited
  /\ Kept(funcs) = (visited \ Waiting(queue)) \cap graph.functions
  /\ here.obj \in visited
  /\ \A o \in visited \ Waiting(queue), name \in PropertyNames \ Excluded :
       \/ graph.value[o][name] \in visited \cup {Absent}
       \/ o = here.obj /\ name \in {left[i] : i \in DOMAIN left}

(* The inductive invariant of the search. *)
SearchInv == KeptOnce(funcs) /\ (phase = "search" => Searched)

(* The object that leaves the queue, and those that still wait. *)
LEMMA FirstInLine ==
  ASSUME NEW q \in Seq(Found), q # <<>>, WaitOnce(q)
  PROVE  /\ Waiting(q) = {Head(q).obj} \cup Waiting(Tail(q))
         /\ Head(q).obj \notin Waiting(Tail(q))
         /\ WaitOnce(Tail(q))
         /\ Head(q) \in Found
<1>1. /\ Len(q) \in Nat \ {0} /\ DOMAIN q = 1 .. Len(q) /\ q[1] = Head(q) /\ Head(q) \in Found
      /\ DOMAIN Tail(q) = 1 .. Len(q) - 1 /\ \A k \in 1 .. Len(q) - 1 : Tail(q)[k] = q[k + 1]
  OBVIOUS
<1>2. PICK t : t = Tail(q)
  OBVIOUS
<1>3. /\ 1 \in DOMAIN q
      /\ \A k \in DOMAIN t : k + 1 \in DOMAIN q /\ k + 1 # 1 /\ t[k] = q[k + 1]
      /\ \A k \in DOMAIN q : k = 1 \/ (k - 1 \in DOMAIN t /\ t[k - 1] = q[k])
      /\ \A j, k \in DOMAIN t : j + 1 = k + 1 => j = k
  BY <1>1, <1>2
<1>4. Waiting(q) = {q[1].obj} \cup Waiting(t)
  BY <1>3 DEF Waiting
<1>5. q[1].obj \notin Waiting(t) /\ WaitOnce(t)
  BY <1>3 DEF Waiting, WaitOnce
<1> QED
  BY <1>1, <1>2, <1>4, <1>5

(* One more object that waits. *)
LEMMA LastInLine ==
  ASSUME NEW q \in Seq(Found), WaitOnce(q), NEW x \in Found, x.obj \notin Waiting(q), NEW t, t = Append(q, x)
  PROVE  Waiting(t) = Waiting(q) \cup {x.obj} /\ WaitOnce(t)
<1>1. /\ Len(q) \in Nat /\ DOMAIN q = 1 .. Len(q) /\ DOMAIN t = 1 .. Len(q) + 1 /\ t[Len(q) + 1] = x
      /\ \A k \in 1 .. Len(q) : t[k] = q[k]
  OBVIOUS
<1>2. PICK n : n = Len(q) + 1
  OBVIOUS
<1>3. /\ n \notin DOMAIN q /\ DOMAIN t = DOMAIN q \cup {n} /\ t[n] = x
      /\ \A k \in DOMAIN q : t[k] = q[k]
  BY <1>1, <1>2
<1> QED
  BY <1>3 DEF Waiting, WaitOnce

(* The filter has seen one more function. *)
LEMMA OneFewerKept ==
  ASSUME NEW q \in Seq(Named), q # <<>>, KeptOnce(q)
  PROVE  KeptOnce(Tail(q))
<1>1. /\ Len(q) \in Nat \ {0} /\ DOMAIN q = 1 .. Len(q)
      /\ DOMAIN Tail(q) = 1 .. Len(q) - 1 /\ \A k \in 1 .. Len(q) - 1 : Tail(q)[k] = q[k + 1]
  OBVIOUS
<1>2. PICK t : t = Tail(q)
  OBVIOUS
<1>3. /\ \A k \in DOMAIN t : k + 1 \in DOMAIN q /\ t[k] = q[k + 1]
      /\ \A j, k \in DOMAIN t : j + 1 = k + 1 => j = k
  BY <1>1, <1>2
<1> QED
  BY <1>2, <1>3 DEF KeptOnce

(* One more function that was visited. *)
LEMMA OneMoreKept ==
  ASSUME NEW q \in Seq(Named), KeptOnce(q), NEW x \in Named, x.func \notin Kept(q), NEW t, t = Append(q, x)
  PROVE  Kept(t) = Kept(q) \cup {x.func} /\ KeptOnce(t)
<1>1. /\ Len(q) \in Nat /\ DOMAIN q = 1 .. Len(q) /\ DOMAIN t = 1 .. Len(q) + 1 /\ t[Len(q) + 1] = x
      /\ \A k \in 1 .. Len(q) : t[k] = q[k]
  OBVIOUS
<1>2. PICK n : n = Len(q) + 1
  OBVIOUS
<1>3. /\ n \notin DOMAIN q /\ DOMAIN t = DOMAIN q \cup {n} /\ t[n] = x
      /\ \A k \in DOMAIN q : t[k] = q[k]
  BY <1>1, <1>2
<1> QED
  BY <1>3 DEF Kept, KeptOnce

(* The name at hand and those after it. *)
LEMMA NamesLeft ==
  ASSUME NEW q \in Seq(PropertyNames), q # <<>>
  PROVE  {q[i] : i \in DOMAIN q} = {Head(q)} \cup {Tail(q)[i] : i \in DOMAIN Tail(q)}
<1>1. /\ Len(q) \in Nat \ {0} /\ DOMAIN q = 1 .. Len(q) /\ q[1] = Head(q)
      /\ DOMAIN Tail(q) = 1 .. Len(q) - 1 /\ \A k \in 1 .. Len(q) - 1 : Tail(q)[k] = q[k + 1]
  OBVIOUS
<1>2. PICK t : t = Tail(q)
  OBVIOUS
<1>3. /\ 1 \in DOMAIN q
      /\ \A k \in DOMAIN t : k + 1 \in DOMAIN q /\ t[k] = q[k + 1]
      /\ \A k \in DOMAIN q : k = 1 \/ (k - 1 \in DOMAIN t /\ t[k - 1] = q[k])
  BY <1>1, <1>2
<1> QED
  BY <1>1, <1>2, <1>3

(* The search begins with the global object; a list from elsewhere without functions. *)
LEMMA SearchStarts == Init => SearchInv
<1> SUFFICES ASSUME Init PROVE SearchInv
  OBVIOUS
<1>1. DOMAIN <<>> = {}
  OBVIOUS
<1>2. funcs = <<>>
  BY DEF Init, SearchInit, ListInit
<1>3. KeptOnce(funcs) /\ Kept(funcs) = {}
  BY <1>1, <1>2 DEF KeptOnce, Kept
<1>4. ASSUME phase = "search" PROVE Searched
  <2>1. SearchInit
    BY <1>4 DEF Init, ListInit
  <2>2. PICK x : x = [path |-> NoName, obj |-> Global]
    OBVIOUS
  <2>3. x.obj = Global /\ queue = <<x>> /\ DOMAIN <<x>> = {1} /\ <<x>>[1] = x
    BY <2>1, <2>2 DEF SearchInit
  <2>4. Waiting(queue) = {Global} /\ WaitOnce(queue)
    BY <2>3 DEF Waiting, WaitOnce
  <2>5. visited = {Global} /\ here.obj = Global
    BY <2>1 DEF SearchInit
  <2> QED
    BY <1>3, <2>4, <2>5 DEF Searched
<1> QED
  BY <1>3, <1>4 DEF SearchInv

(* The next object leaves the queue; all its names are left. *)
LEMMA VisitKeeps ==
  ASSUME SearchTypes, SearchInv, Visit
  PROVE  SearchInv'
<1>1. /\ Searched /\ KeptOnce(funcs) /\ queue # <<>> /\ left = <<>> /\ queue' = Tail(queue)
      /\ left' = NameOrder /\ here' = Head(queue)
      /\ UNCHANGED <<phase, graph, visited>> /\ phase = "search"
  BY DEF SearchInv, Visit
<1>2. PICK x \in Found : x = Head(queue)
  BY <1>1, FirstInLine DEF SearchTypes, Searched
<1>3. /\ Waiting(queue) = {x.obj} \cup Waiting(queue') /\ x.obj \notin Waiting(queue') /\ WaitOnce(queue')
  BY <1>1, <1>2, FirstInLine DEF SearchTypes, Searched
<1>4. x.obj \in visited /\ x.obj \notin Kept(funcs)
  BY <1>1, <1>3 DEF Searched
<1>5. KeptOnce(funcs') /\ Kept(funcs') = Kept(funcs) \cup ({x.obj} \cap graph.functions)
  <2>1. CASE x.obj \in graph.functions
    <3>1. PICK f \in Named : f = [name |-> x.path, func |-> x.obj]
      BY DEF Found, Named
    <3>2. f.func = x.obj /\ funcs' = Append(funcs, f)
      BY <1>2, <2>1, <3>1 DEF Visit
    <3>3. funcs \in Seq(Named) /\ KeptOnce(funcs) /\ f.func \notin Kept(funcs)
      BY <1>1, <1>4, <3>2 DEF SearchTypes
    <3>4. Kept(funcs') = Kept(funcs) \cup {f.func} /\ KeptOnce(funcs')
      BY <3>2, <3>3, OneMoreKept
    <3> QED
      BY <2>1, <3>2, <3>4
  <2>2. CASE x.obj \notin graph.functions
    BY <1>1, <1>2, <2>2 DEF Visit
  <2> QED
    BY <2>1, <2>2
<1>6. Kept(funcs') = (visited' \ Waiting(queue')) \cap graph'.functions
  BY <1>1, <1>3, <1>4, <1>5 DEF Searched
<1>7. \A name \in PropertyNames : name \in {left'[i] : i \in DOMAIN left'}
  BY <1>1 DEF PropertyNames
<1>8. DOMAIN left = {}
  BY <1>1
<1>9. \A o \in visited' \ Waiting(queue'), name \in PropertyNames \ Excluded :
        \/ graph'.value[o][name] \in visited' \cup {Absent}
        \/ o = here'.obj /\ name \in {left'[i] : i \in DOMAIN left'}
  BY <1>1, <1>2, <1>3, <1>7, <1>8 DEF Searched
<1>10. \A set \in SUBSET Objects : Global \in set /\ Closed(set)' => visited' \subseteq set
  BY <1>1 DEF Searched, Closed
<1>11. Waiting(queue') \subseteq visited' /\ here'.obj \in visited' /\ Global \in visited'
  BY <1>1, <1>2, <1>3, <1>4 DEF Searched
<1>12. Searched'
  BY <1>3, <1>6, <1>9, <1>10, <1>11 DEF Searched
<1> QED
  BY <1>5, <1>12 DEF SearchInv

(* A property leads to nothing new, or to one more object that waits. *)
LEMMA LookKeeps ==
  ASSUME SearchTypes, SearchTypes', SearchInv, Look
  PROVE  SearchInv'
<1>1. /\ Searched /\ KeptOnce(funcs) /\ left # <<>> /\ left' = Tail(left)
      /\ UNCHANGED <<phase, graph, here, funcs>> /\ phase = "search"
  BY DEF SearchInv, Look
<1>2. PICK name \in PropertyNames : name = Head(left)
  BY <1>1 DEF SearchTypes
<1> DEFINE child == graph.value[here.obj][name]
<1>3. {left[i] : i \in DOMAIN left} = {name} \cup {left'[i] : i \in DOMAIN left'}
  BY <1>1, <1>2, NamesLeft DEF SearchTypes
<1>4. \A set \in SUBSET Objects : Closed(set)' <=> Closed(set)
  BY <1>1 DEF Closed
<1>5. CASE Skipped(name)
  <2>1. UNCHANGED <<queue, visited>>
    BY <1>2, <1>5 DEF Look
  <2>2. name \in Excluded \/ child \in visited \cup {Absent}
    BY <1>5 DEF Skipped
  <2>3. \A o \in visited' \ Waiting(queue'), n \in PropertyNames \ Excluded :
          \/ graph'.value[o][n] \in visited' \cup {Absent}
          \/ o = here'.obj /\ n \in {left'[i] : i \in DOMAIN left'}
    BY <1>1, <1>3, <2>1, <2>2 DEF Searched
  <2>4. Searched'
    BY <1>1, <1>4, <2>1, <2>3 DEF Searched
  <2> QED
    BY <1>1, <2>4 DEF SearchInv
<1>6. CASE ~Skipped(name)
  <2>1. PICK x : x = [path |-> Join(here.path, name), obj |-> child]
    OBVIOUS
  <2>2. x.obj = child /\ queue' = Append(queue, x) /\ visited' = visited \cup {child}
    BY <1>2, <1>6, <2>1 DEF Look
  <2>3. child \notin visited /\ name \notin Excluded /\ child # Absent
    BY <1>6 DEF Skipped
  <2>4. child \in Objects
    BY <2>2 DEF SearchTypes
  <2>5. x \in Found
    BY <2>2 DEF SearchTypes
  <2>6. Waiting(queue') = Waiting(queue) \cup {child} /\ WaitOnce(queue')
    <3>1. x.obj \notin Waiting(queue)
      BY <1>1, <2>2, <2>3 DEF Searched
    <3> QED
      BY <1>1, <2>2, <2>5, <3>1, LastInLine DEF SearchTypes, Searched
  <2>7. visited' \ Waiting(queue') = visited \ Waiting(queue)
    BY <2>2, <2>3, <2>6
  <2>8. \A o \in visited' \ Waiting(queue'), n \in PropertyNames \ Excluded :
          \/ graph'.value[o][n] \in visited' \cup {Absent}
          \/ o = here'.obj /\ n \in {left'[i] : i \in DOMAIN left'}
    BY <1>1, <1>3, <2>2, <2>7 DEF Searched
  <2>9. ASSUME NEW set \in SUBSET Objects, Global \in set, Closed(set) PROVE visited' \subseteq set
    <3>1. visited \subseteq set /\ here.obj \in set
      BY <1>1, <2>9 DEF Searched
    <3>2. child \in set \cup {Absent}
      BY <2>3, <2>9, <3>1 DEF Closed
    <3> QED
      BY <2>2, <2>3, <3>1, <3>2
  <2>10. Kept(funcs') = (visited' \ Waiting(queue')) \cap graph'.functions
    BY <1>1, <2>7 DEF Searched
  <2>11. Global \in visited' /\ here'.obj \in visited' /\ Waiting(queue') \subseteq visited'
    BY <1>1, <2>2, <2>6 DEF Searched
  <2>12. Searched'
    BY <1>4, <2>6, <2>8, <2>9, <2>10, <2>11 DEF Searched
  <2> QED
    BY <1>1, <2>12 DEF SearchInv
<1> QED
  BY <1>5, <1>6

(* After the search only the filter takes functions away. *)
LEMMA SearchGoesOn ==
  ASSUME SearchTypes, SearchTypes', SearchInv, [Next]_vars
  PROVE  SearchInv'
<1>1. CASE Visit
  BY <1>1, VisitKeeps
<1>2. CASE Look
  BY <1>2, LookKeeps
<1>3. CASE SearchEnds
  BY <1>3 DEF SearchEnds, extractVars, SearchInv
<1>4. CASE Filter
  BY <1>4, OneFewerKept DEF Filter, SearchInv, SearchTypes
<1>5. CASE Dump
  BY <1>5 DEF Dump, extractVars, SearchInv
<1>6. ASSUME phase # "search", phase' # "search", UNCHANGED funcs PROVE SearchInv'
  BY <1>6 DEF SearchInv
<1>7. CASE Load
  BY <1>6, <1>7 DEF Load, extractVars
<1>8. CASE LoadEnds
  BY <1>6, <1>8 DEF LoadEnds, extractVars
<1>9. CASE \E id \in DOMAIN index \ passed : Populate(id)
  BY <1>6, <1>9 DEF Populate, extractVars
<1>10. CASE GetNode
  BY <1>6, <1>10 DEF GetNode, extractVars
<1>11. CASE AddTargetFunction
  BY <1>6, <1>11 DEF AddTargetFunction, extractVars
<1>12. CASE PopulateEnds
  BY <1>6, <1>12 DEF PopulateEnds, extractVars
<1>13. CASE UNCHANGED vars
  <2>1. UNCHANGED <<phase, graph, queue, visited, here, left, funcs>>
    BY <1>13 DEF vars, extractVars, searchVars
  <2>2. \A set \in SUBSET Objects : Closed(set)' <=> Closed(set)
    BY <2>1 DEF Closed
  <2>3. Searched => Searched'
    BY <2>1, <2>2 DEF Searched
  <2> QED
    BY <2>1, <2>3 DEF SearchInv
<1> QED
  BY <1>1, <1>2, <1>3, <1>4, <1>5, <1>7, <1>8, <1>9, <1>10, <1>11, <1>12, <1>13 DEF Next, Extract

(* When nothing waits and no name is left, what was found is closed. *)
LEMMA SearchIsRight == SearchTypes /\ SearchInv => EveryFunctionOnce
<1> SUFFICES ASSUME SearchTypes, SearchInv PROVE EveryFunctionOnce
  OBVIOUS
<1>1. ASSUME phase = "search", left = <<>>, queue = <<>>
      PROVE  Kept(funcs) = Reachable \cap graph.functions
  <2>1. Searched
    BY <1>1 DEF SearchInv
  <2>2. DOMAIN left = {} /\ DOMAIN queue = {}
    BY <1>1
  <2>3. Waiting(queue) = {}
    BY <2>2 DEF Waiting
  <2>4. Closed(visited) /\ visited \in SUBSET Objects /\ Global \in visited
    BY <2>1, <2>2, <2>3 DEF Searched, Closed, SearchTypes
  <2>5. visited = Reachable
    BY <2>1, <2>4 DEF Reachable, Searched
  <2> QED
    BY <2>1, <2>3, <2>5 DEF Searched
<1> QED
  BY <1>1 DEF EveryFunctionOnce, SearchInv, KeptOnce, Kept

(* Whatever the engine: no function is found twice, and when the search ends it has found
   exactly those that can be reached (src/Scripts/ExtractAPI.js, findFunctions). *)
THEOREM SearchFindsEveryFunctionOnce == Spec => []EveryFunctionOnce
<1>1. Init => SearchInv
  BY SearchStarts
<1>2. SearchTypes /\ SearchTypes' /\ SearchInv /\ [Next]_vars => SearchInv'
  BY SearchGoesOn
<1>3. Spec => []SearchTypes
  <2>1. Init => SearchTypes
    BY StoreStartsInOrder
  <2>2. SearchTypes /\ [Next]_vars => SearchTypes'
    BY FoundIsTyped
  <2> QED
    BY <2>1, <2>2, PTL DEF Spec
<1> QED
  BY <1>1, <1>2, <1>3, SearchIsRight, PTL DEF Spec
=============================================================================
