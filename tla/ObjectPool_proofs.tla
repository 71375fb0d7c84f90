-------------------------- MODULE ObjectPool_proofs --------------------------
(***************************************************************************)
(* The object pool answers with the value it was asked for, and with one   *)
(* object for each interned value, whatever the sizes of its table and of  *)
(* the integers are.  The first holds as long as the two infinities are    *)
(* not both asked for: they share a slot.                                  *)
(***************************************************************************)
EXTENDS ObjectPool, TLAPS

(* The values a slot is for. *)
Slotted == Singletons \cup SpecialFloats

(* What a table leads to is an object of the right value, owned by the part of
   the pool the table belongs to. *)
SlotsLead ==
  \A s \in Slot : slots[s] # Null =>
    /\ owner[slots[s]] = "slots"
    /\ value[slots[s]] \in Slotted
    /\ FloatSlot(value[slots[s]]) = s

StringsLead ==
  \A s \in ShortStrings : strToValue[s] # Null =>
    owner[strToValue[s]] = "values" /\ value[strToValue[s]] = s

IntegersLead ==
  \A n \in Integer : InTable(n) /\ intTable[SizeT(n + Bias)] # Null =>
    /\ owner[intTable[SizeT(n + Bias)]] = "values"
    /\ value[intTable[SizeT(n + Bias)]] = n

(* The object p is the one a table leads to for v, if v has one object. *)
IsTheOne(v, p) ==
  /\ v \in Slotted => slots[FloatSlot(v)] = p
  /\ v \in ShortStrings => strToValue[v] = p
  /\ v \in Integer /\ InTable(v) => intTable[SizeT(v + Bias)] = p

(* Conversely, what _values owns and what clients hold can be found again
   through the tables.  _values is why this has to be part of the invariant:
   SelectValue gives away any object of it. *)
ValuesFound ==
  \A a \in Address : owner[a] = "values" => value[a] \notin Slotted /\ IsTheOne(value[a], a)
HeldFound   == \A h \in held : IsTheOne(h.asked, h.at)

IInv == TypeOK /\ SlotsLead /\ StringsLead /\ IntegersLead /\ ValuesFound /\ HeldFound

-----------------------------------------------------------------------------
(* An integer in the table has an entry, and not another integer's. *)
LEMMA TableIndex ==
  ASSUME NEW n \in Integer, InTable(n)
  PROVE  SizeT(n + Bias) \in Index
  BY IntegersAssumption DEF Integer, InTable, SizeT, Index

LEMMA TableInjective ==
  ASSUME NEW n \in Integer, InTable(n), NEW m \in Integer, InTable(m),
         SizeT(n + Bias) = SizeT(m + Bias)
  PROVE  n = m
  BY IntegersAssumption DEF Integer, InTable, SizeT

(* The slot of a value that has one. *)
LEMMA SlotOfSlotted ==
  ASSUME NEW v \in Slotted
  PROVE  FloatSlot(v) \in Slot
  BY KindsAssumption DEF Slotted, FloatSlot, Slot, NotFinite

LEMMA Kinds ==
  /\ Null \notin Address
  /\ \A v \in Slotted : v \notin Strings \cup Integer \cup FiniteFloats \cup {NewArray}
  /\ \A v \in Strings : v \notin Integer \cup FiniteFloats \cup {NewArray}
  /\ \A v \in Integer : v \notin FiniteFloats \cup {NewArray}
  /\ NewArray \notin Slotted \cup Strings \cup FiniteFloats
  /\ \A v \in LongStrings : v \notin ShortStrings
  BY KindsAssumption DEF Slotted, Strings, NotFinite

-----------------------------------------------------------------------------
LEMMA InitIInv == Init => IInv
<1> SUFFICES ASSUME Init PROVE IInv
  OBVIOUS
<1>1. TypeOK
  BY DEF Init, TypeOK, Owner, Value, Pointer
<1>2. SlotsLead /\ StringsLead
  BY DEF Init, SlotsLead, StringsLead
<1>3. IntegersLead
  BY TableIndex DEF Init, IntegersLead
<1>4. ValuesFound /\ HeldFound
  BY DEF Init, ValuesFound, HeldFound
<1> QED
  BY <1>1, <1>2, <1>3, <1>4 DEF IInv

(* Finding an object changes nothing but what the client holds. *)
LEMMA FoundStep ==
  ASSUME IInv, NEW p \in Pointer, NEW v \in Value, IsTheOne(v, p), Found(p, v)
  PROVE  IInv'
<1>1. p \in Address
  BY DEF Found, Pointer
<1>2. TypeOK'
  BY <1>1 DEF IInv, TypeOK, Found, Give
<1>3. SlotsLead' /\ StringsLead' /\ IntegersLead'
  BY DEF IInv, SlotsLead, StringsLead, IntegersLead, Found
<1>4. ValuesFound' /\ HeldFound'
  BY DEF IInv, ValuesFound, HeldFound, IsTheOne, Found, Give
<1> QED
  BY <1>2, <1>3, <1>4 DEF IInv

LEMMA SlotStep ==
  ASSUME IInv, NEW v \in Slotted, GetOrCreate(FloatSlot(v), v)
  PROVE  IInv'
<1> DEFINE s == FloatSlot(v)
<1>1. s \in Slot /\ v \in Value
  BY SlotOfSlotted DEF Slotted, Value
<1>2. CASE Found(slots[s], v)
  <2>1. slots[s] \in Pointer
    BY <1>1 DEF IInv, TypeOK
  <2>2. IsTheOne(v, slots[s])
    BY Kinds DEF IsTheOne, Strings
  <2> QED
    BY <1>1, <1>2, <2>1, <2>2, FoundStep
<1>3. CASE slots[s] = Null /\ ~ Found(slots[s], v)
  <2>1. PICK a \in Address : /\ New(a, v, "slots")
                             /\ Give(a, v)
                             /\ slots' = [slots EXCEPT ![s] = a]
                             /\ UNCHANGED <<strToValue, intTable>>
    BY <1>3 DEF GetOrCreate
  <2>2. TypeOK'
    BY <1>1, <2>1 DEF IInv, TypeOK, New, Give, Owner, Pointer
  <2>3. SlotsLead'
    BY <1>1, <2>1, Kinds DEF IInv, TypeOK, SlotsLead, New, Free, Pointer
  <2>4. StringsLead'
    BY <2>1, Kinds DEF IInv, TypeOK, StringsLead, New, Free, Pointer
  <2>5. IntegersLead'
    BY <2>1, Kinds, TableIndex DEF IInv, TypeOK, IntegersLead, New, Free, Pointer
  <2>6. ValuesFound'
    BY <2>1 DEF IInv, TypeOK, ValuesFound, IsTheOne, New
  <2>7. HeldFound'
    <3>1. IsTheOne(v, a)'
      BY <1>1, <2>1, Kinds DEF IInv, TypeOK, IsTheOne, Strings
    <3>2. ASSUME NEW h \in held PROVE IsTheOne(h.asked, h.at)'
      BY <1>3, <2>1, <3>2, SlotOfSlotted, Kinds DEF IInv, TypeOK, HeldFound, IsTheOne
    <3> QED
      BY <2>1, <3>1, <3>2 DEF HeldFound, Give
  <2> QED
    BY <2>2, <2>3, <2>4, <2>5, <2>6, <2>7 DEF IInv
<1> QED
  BY <1>2, <1>3 DEF GetOrCreate

LEMMA StringStep ==
  ASSUME IInv, NEW s \in Strings, GetOrCreateStringValue(s)
  PROVE  IInv'
<1>1. s \in Value /\ s \notin Slotted /\ s \notin Integer
  BY Kinds DEF Value
<1>2. CASE s \in ShortStrings /\ Found(strToValue[s], s)
  <2>1. strToValue[s] \in Pointer
    BY <1>2 DEF IInv, TypeOK
  <2>2. IsTheOne(s, strToValue[s])
    BY <1>1 DEF IsTheOne
  <2> QED
    BY <1>1, <1>2, <2>1, <2>2, FoundStep
<1>3. CASE ~(s \in ShortStrings /\ Found(strToValue[s], s))
  <2>1. PICK a \in Address :
          /\ New(a, s, "values") /\ Give(a, s)
          /\ s \in ShortStrings => strToValue[s] = Null
          /\ strToValue' = IF s \in ShortStrings THEN [strToValue EXCEPT ![s] = a]
                           ELSE strToValue
          /\ UNCHANGED <<slots, intTable>>
    BY <1>3 DEF GetOrCreateStringValue, CreateValue
  <2>2. TypeOK'
    BY <1>1, <2>1 DEF IInv, TypeOK, New, Give, Owner, Pointer
  <2>3. SlotsLead'
    BY <2>1, Kinds DEF IInv, TypeOK, SlotsLead, New, Free, Pointer
  <2>4. StringsLead'
    BY <2>1, Kinds DEF IInv, TypeOK, StringsLead, New, Free, Pointer
  <2>5. IntegersLead'
    BY <2>1, Kinds, TableIndex DEF IInv, TypeOK, IntegersLead, New, Free, Pointer
  <2>6. IsTheOne(s, a)'
    BY <1>1, <2>1 DEF IInv, TypeOK, IsTheOne
  <2>7. ASSUME NEW v \in Value, NEW b \in Address, IsTheOne(v, b) PROVE IsTheOne(v, b)'
    BY <2>1, <2>7, Kinds DEF IInv, TypeOK, IsTheOne
  <2>8. ValuesFound'
    BY <1>1, <2>1, <2>6, <2>7 DEF IInv, TypeOK, ValuesFound, New
  <2>9. HeldFound'
    BY <2>1, <2>6, <2>7 DEF IInv, TypeOK, HeldFound, Give
  <2> QED
    BY <2>2, <2>3, <2>4, <2>5, <2>8, <2>9 DEF IInv
<1> QED
  BY <1>2, <1>3

LEMMA IntegerStep ==
  ASSUME IInv, NEW n \in Integer, GetOrCreateIntegerValue(n)
  PROVE  IInv'
<1> DEFINE i == SizeT(n + Bias)
<1>1. n \in Value /\ n \notin Slotted /\ n \notin Strings
  BY Kinds DEF Value
<1>2. CASE InTable(n) /\ Found(intTable[i], n)
  <2>1. intTable[i] \in Pointer
    BY <1>2, TableIndex DEF IInv, TypeOK
  <2>2. IsTheOne(n, intTable[i])
    BY <1>1 DEF IsTheOne, Strings
  <2> QED
    BY <1>1, <1>2, <2>1, <2>2, FoundStep
<1>3. CASE ~(InTable(n) /\ Found(intTable[i], n))
  <2>1. PICK a \in Address :
          /\ New(a, n, "values") /\ Give(a, n)
          /\ InTable(n) => intTable[i] = Null
          /\ intTable' = IF InTable(n) THEN [intTable EXCEPT ![i] = a] ELSE intTable
          /\ UNCHANGED <<slots, strToValue>>
    BY <1>3 DEF GetOrCreateIntegerValue, CreateValue
  <2>2. TypeOK'
    BY <1>1, <2>1, TableIndex DEF IInv, TypeOK, New, Give, Owner, Pointer
  <2>3. SlotsLead'
    BY <2>1, Kinds DEF IInv, TypeOK, SlotsLead, New, Free, Pointer
  <2>4. StringsLead'
    BY <2>1, Kinds DEF IInv, TypeOK, StringsLead, New, Free, Pointer
  <2>5. IntegersLead'
    <3> SUFFICES ASSUME NEW m \in Integer, InTable(m), intTable'[SizeT(m + Bias)] # Null
                 PROVE  /\ owner'[intTable'[SizeT(m + Bias)]] = "values"
                        /\ value'[intTable'[SizeT(m + Bias)]] = m
      BY DEF IntegersLead, InTable, SizeT
    <3>1. CASE m = n
      BY <2>1, <3>1, TableIndex DEF IInv, TypeOK, New
    <3>2. CASE m # n
      <4>1. intTable'[SizeT(m + Bias)] = intTable[SizeT(m + Bias)]
        BY <2>1, <3>2, TableIndex, TableInjective DEF IInv, TypeOK
      <4> QED
        BY <2>1, <4>1, TableIndex DEF IInv, TypeOK, IntegersLead, New, Free, Pointer
    <3> QED
      BY <3>1, <3>2
  <2>6. IsTheOne(n, a)'
    BY <1>1, <2>1, TableIndex DEF IInv, TypeOK, IsTheOne, Strings, InTable
  <2>7. ASSUME NEW v \in Value, NEW b \in Address, IsTheOne(v, b) PROVE IsTheOne(v, b)'
    <3>1. v \in Integer /\ InTable(v) => intTable'[SizeT(v + Bias)] = b
      BY <2>1, <2>7, Kinds, TableIndex, TableInjective DEF IInv, TypeOK, IsTheOne
    <3> QED
      BY <2>1, <2>7, <3>1 DEF IsTheOne, InTable, SizeT
  <2>8. ValuesFound'
    BY <1>1, <2>1, <2>6, <2>7 DEF IInv, TypeOK, ValuesFound, New
  <2>9. HeldFound'
    BY <2>1, <2>6, <2>7 DEF IInv, TypeOK, HeldFound, Give
  <2> QED
    BY <2>2, <2>3, <2>4, <2>5, <2>8, <2>9 DEF IInv
<1> QED
  BY <1>2, <1>3

LEMMA FloatStep ==
  ASSUME IInv, NEW x \in SpecialFloats \cup FiniteFloats, GetOrCreateFloatValue(x)
  PROVE  IInv'
<1>1. CASE x \in SpecialFloats /\ GetOrCreate(FloatSlot(x), x)
  BY <1>1, SlotStep DEF Slotted
<1>2. CASE x \in FiniteFloats /\ \E a \in Address : CreateValue(a, x)
                              /\ UNCHANGED <<slots, strToValue, intTable>>
  <2>1. PICK a \in Address : New(a, x, "values") /\ Give(a, x)
    BY <1>2 DEF CreateValue
  <2>2. x \in Value /\ x \notin Slotted \cup Strings \cup Integer
    BY <1>2, Kinds DEF Value
  <2>3. TypeOK'
    BY <1>2, <2>1, <2>2 DEF IInv, TypeOK, New, Give, Owner
  <2>4. SlotsLead' /\ StringsLead'
    BY <1>2, <2>1, Kinds DEF IInv, TypeOK, SlotsLead, StringsLead, New, Free, Pointer
  <2>5. IntegersLead'
    BY <1>2, <2>1, Kinds, TableIndex DEF IInv, TypeOK, IntegersLead, New, Free, Pointer
  <2>6. ValuesFound'
    BY <1>2, <2>1, <2>2 DEF IInv, TypeOK, ValuesFound, IsTheOne, New, Strings
  <2>7. HeldFound'
    BY <1>2, <2>1, <2>2 DEF IInv, TypeOK, HeldFound, IsTheOne, Give, Strings
  <2> QED
    BY <2>3, <2>4, <2>5, <2>6, <2>7 DEF IInv
<1> QED
  BY <1>1, <1>2 DEF GetOrCreateFloatValue

LEMMA ArrayStep ==
  ASSUME IInv, CreateArrayValue
  PROVE  IInv'
<1>1. PICK a \in Address : New(a, NewArray, "arrays") /\ Give(a, NewArray)
  BY DEF CreateArrayValue
<1>2. UNCHANGED <<slots, strToValue, intTable>>
  BY DEF CreateArrayValue
<1>3. NewArray \in Value /\ NewArray \notin Slotted \cup Strings \cup Integer
  BY Kinds DEF Value
<1>4. TypeOK'
  BY <1>1, <1>2, <1>3 DEF IInv, TypeOK, New, Give, Owner
<1>5. SlotsLead' /\ StringsLead'
  BY <1>1, <1>2, Kinds DEF IInv, TypeOK, SlotsLead, StringsLead, New, Free, Pointer
<1>6. IntegersLead'
  BY <1>1, <1>2, Kinds, TableIndex DEF IInv, TypeOK, IntegersLead, New, Free, Pointer
<1>7. ValuesFound'
  BY <1>1, <1>2, <1>3 DEF IInv, TypeOK, ValuesFound, IsTheOne, New
<1>8. HeldFound'
  BY <1>1, <1>2, <1>3 DEF IInv, TypeOK, HeldFound, IsTheOne, Give, Strings
<1> QED
  BY <1>4, <1>5, <1>6, <1>7, <1>8 DEF IInv

(* A selected object is one of _values, which the tables know. *)
LEMMA SelectStep ==
  ASSUME IInv, SelectValue
  PROVE  IInv'
<1>1. PICK a \in Address : owner[a] = "values" /\ Give(a, value[a])
  BY DEF SelectValue
<1>2. UNCHANGED <<owner, value, slots, strToValue, intTable>>
  BY DEF SelectValue
<1>3. TypeOK'
  BY <1>1, <1>2 DEF IInv, TypeOK, Give
<1>4. SlotsLead' /\ StringsLead' /\ IntegersLead' /\ ValuesFound'
  BY <1>2 DEF IInv, SlotsLead, StringsLead, IntegersLead, ValuesFound, IsTheOne
<1>5. HeldFound'
  BY <1>1, <1>2 DEF IInv, ValuesFound, HeldFound, IsTheOne, Give
<1> QED
  BY <1>3, <1>4, <1>5 DEF IInv

LEMMA ClearStep ==
  ASSUME IInv, Clear
  PROVE  IInv'
<1>1. TypeOK'
  BY DEF IInv, TypeOK, Clear, Owner, Pointer
<1>2. SlotsLead'
  BY DEF IInv, TypeOK, SlotsLead, Clear, Pointer
<1>3. StringsLead'
  BY DEF StringsLead, Clear
<1>4. IntegersLead'
  BY TableIndex DEF IntegersLead, Clear
<1>5. ValuesFound' /\ HeldFound'
  BY DEF IInv, TypeOK, ValuesFound, HeldFound, Clear
<1> QED
  BY <1>1, <1>2, <1>3, <1>4, <1>5 DEF IInv

LEMMA DoneStep ==
  ASSUME IInv, TestCaseDone
  PROVE  IInv'
  BY DEF IInv, TypeOK, SlotsLead, StringsLead, IntegersLead, ValuesFound, HeldFound, IsTheOne,
         TestCaseDone

LEMMA NextIInv == IInv /\ [Next]_vars => IInv'
<1> SUFFICES ASSUME IInv, [Next]_vars PROVE IInv'
  OBVIOUS
<1>1. ASSUME NEW v \in Singletons, GetSingleton(v) PROVE IInv'
  <2>1. FloatSlot(v) = v /\ v \in Slotted
    BY KindsAssumption DEF FloatSlot, NotFinite, Slotted
  <2> QED
    BY <1>1, <2>1, SlotStep DEF GetSingleton
<1>2. CASE UNCHANGED vars
  BY <1>2 DEF IInv, TypeOK, SlotsLead, StringsLead, IntegersLead, ValuesFound, HeldFound,
              IsTheOne, vars
<1> QED
  BY <1>1, <1>2, StringStep, IntegerStep, FloatStep, ArrayStep, SelectStep, ClearStep, DoneStep
  DEF Next

-----------------------------------------------------------------------------
(* Tables hold pointers or nothing, and clients addresses, for every size of
   the table and of the integers: no integer reads beyond the table. *)
THEOREM TypeCorrect == Spec => []TypeOK
<1>1. IInv => TypeOK
  BY DEF IInv
<1> QED
  BY <1>1, InitIInv, NextIInv, PTL DEF Spec

(* Asking twice for an interned value gives the same object. *)
THEOREM InternedOnce == Spec => []OneObject
<1>1. IInv => OneObject
  BY Kinds DEF IInv, TypeOK, HeldFound, IsTheOne, OneObject, Interned, Slotted
<1> QED
  BY <1>1, InitIInv, NextIInv, PTL DEF Spec

(* If not both infinities are asked for, a client gets the value it asks for. *)
OneInfinity == ~ ({PosInf, NegInf} \subseteq SpecialFloats)

(* Values that share a slot are then the same. *)
LEMMA SlotInjective ==
  ASSUME OneInfinity, NEW v \in Slotted, NEW w \in Slotted, FloatSlot(v) = FloatSlot(w)
  PROVE  v = w
  BY KindsAssumption DEF OneInfinity, Slotted, FloatSlot, NotFinite

(* So an object that a table leads to for v has the value v, and lives. *)
LEMMA TheOneIsRight ==
  ASSUME OneInfinity, IInv, NEW v \in Value, NEW p \in Address, IsTheOne(v, p),
         v \in Interned
  PROVE  ~Free(p) /\ value[p] = v
<1>1. CASE v \in Slotted
  <2>1. FloatSlot(v) \in Slot /\ slots[FloatSlot(v)] = p /\ p # Null
    BY <1>1, SlotOfSlotted, Kinds DEF IsTheOne
  <2>2. owner[p] = "slots" /\ value[p] \in Slotted /\ FloatSlot(value[p]) = FloatSlot(v)
    BY <2>1 DEF IInv, SlotsLead
  <2> QED
    BY <1>1, <2>2, SlotInjective DEF Free
<1>2. CASE v \in ShortStrings
  BY <1>2, Kinds DEF IInv, StringsLead, IsTheOne, Free
<1>3. CASE v \in Integer /\ InTable(v)
  BY <1>3, Kinds DEF IInv, IntegersLead, IsTheOne, Free
<1> QED
  BY <1>1, <1>2, <1>3 DEF Interned, Slotted

(* Pointers stay right when a new object is handed out, and when one is found. *)
LEMMA NewKeepsRight ==
  ASSUME TypeOK, HeldIsAsked, NEW a \in Address, NEW v,
         NEW who \in {"slots", "values", "arrays"}, New(a, v, who), Give(a, v)
  PROVE  HeldIsAsked'
  BY DEF TypeOK, HeldIsAsked, New, Give, Free

LEMMA FoundKeepsRight ==
  ASSUME OneInfinity, IInv, HeldIsAsked, NEW p \in Pointer, NEW v \in Value,
         v \in Interned, IsTheOne(v, p), Found(p, v)
  PROVE  HeldIsAsked'
<1>1. p \in Address
  BY DEF Found, Pointer
<1>2. ~Free(p) /\ value[p] = v
  BY <1>1, TheOneIsRight
<1> QED
  BY <1>2 DEF HeldIsAsked, Found, Give, Free

LEMMA SlotKeepsRight ==
  ASSUME OneInfinity, IInv, HeldIsAsked, NEW v \in Slotted, GetOrCreate(FloatSlot(v), v)
  PROVE  HeldIsAsked'
<1>1. v \in Value /\ v \in Interned /\ FloatSlot(v) \in Slot
  BY SlotOfSlotted DEF Value, Interned, Slotted
<1>2. CASE Found(slots[FloatSlot(v)], v)
  <2>1. slots[FloatSlot(v)] \in Pointer
    BY <1>1 DEF IInv, TypeOK
  <2>2. IsTheOne(v, slots[FloatSlot(v)])
    BY Kinds DEF IsTheOne, Strings
  <2> QED
    BY <1>1, <1>2, <2>1, <2>2, FoundKeepsRight
<1>3. CASE \E a \in Address : New(a, v, "slots") /\ Give(a, v)
  BY <1>3, NewKeepsRight DEF IInv
<1> QED
  BY <1>2, <1>3 DEF GetOrCreate

LEMMA StringKeepsRight ==
  ASSUME OneInfinity, IInv, HeldIsAsked, NEW s \in Strings, GetOrCreateStringValue(s)
  PROVE  HeldIsAsked'
<1>1. CASE s \in ShortStrings /\ Found(strToValue[s], s)
  <2>1. s \in Value /\ s \in Interned /\ strToValue[s] \in Pointer
    BY <1>1 DEF Value, Strings, Interned, IInv, TypeOK
  <2>2. IsTheOne(s, strToValue[s])
    BY Kinds DEF IsTheOne
  <2> QED
    BY <1>1, <2>1, <2>2, FoundKeepsRight
<1>2. CASE \E a \in Address : CreateValue(a, s)
  BY <1>2, NewKeepsRight DEF IInv, CreateValue
<1> QED
  BY <1>1, <1>2 DEF GetOrCreateStringValue

LEMMA IntegerKeepsRight ==
  ASSUME OneInfinity, IInv, HeldIsAsked, NEW n \in Integer, GetOrCreateIntegerValue(n)
  PROVE  HeldIsAsked'
<1>1. CASE InTable(n) /\ Found(intTable[SizeT(n + Bias)], n)
  <2>1. n \in Value /\ n \in Interned /\ intTable[SizeT(n + Bias)] \in Pointer
    BY <1>1, TableIndex DEF Value, Interned, IInv, TypeOK
  <2>2. IsTheOne(n, intTable[SizeT(n + Bias)])
    BY Kinds DEF IsTheOne, Strings
  <2> QED
    BY <1>1, <2>1, <2>2, FoundKeepsRight
<1>2. CASE \E a \in Address : CreateValue(a, n)
  BY <1>2, NewKeepsRight DEF IInv, CreateValue
<1> QED
  BY <1>1, <1>2 DEF GetOrCreateIntegerValue

(* Whatever clients ask for in whatever order, each pointer they hold is to a
   live object with the value asked for. *)
THEOREM AnswersAreRight == ASSUME OneInfinity PROVE Spec => []HeldIsAsked
<1>1. Init => HeldIsAsked
  BY DEF Init, HeldIsAsked
<1>2. IInv /\ HeldIsAsked /\ [Next]_vars => HeldIsAsked'
  <2> SUFFICES ASSUME IInv, HeldIsAsked, [Next]_vars PROVE HeldIsAsked'
    OBVIOUS
  <2>1. ASSUME NEW v \in Singletons, GetSingleton(v) PROVE HeldIsAsked'
    <3>1. FloatSlot(v) = v /\ v \in Slotted
      BY KindsAssumption DEF FloatSlot, NotFinite, Slotted
    <3> QED
      BY <2>1, <3>1, SlotKeepsRight DEF GetSingleton
  <2>2. ASSUME NEW x \in SpecialFloats \cup FiniteFloats, GetOrCreateFloatValue(x)
        PROVE  HeldIsAsked'
    <3>1. CASE x \in SpecialFloats /\ GetOrCreate(FloatSlot(x), x)
      BY <3>1, SlotKeepsRight DEF Slotted
    <3>2. CASE \E a \in Address : CreateValue(a, x)
      BY <3>2, NewKeepsRight DEF IInv, CreateValue
    <3> QED
      BY <2>2, <3>1, <3>2 DEF GetOrCreateFloatValue
  <2>3. CASE CreateArrayValue
    BY <2>3, NewKeepsRight DEF IInv, CreateArrayValue
  <2>4. CASE SelectValue
    BY <2>4 DEF HeldIsAsked, SelectValue, Give, Free
  <2>5. CASE Clear
    BY <2>5 DEF HeldIsAsked, Clear
  <2>6. CASE TestCaseDone
    BY <2>6 DEF HeldIsAsked, TestCaseDone
  <2>7. CASE UNCHANGED vars
    BY <2>7 DEF HeldIsAsked, Free, vars
  <2> QED
    BY <2>1, <2>2, <2>3, <2>4, <2>5, <2>6, <2>7, StringKeepsRight, IntegerKeepsRight DEF Next
<1> QED
  BY <1>1, <1>2, InitIInv, NextIInv, PTL DEF Spec
=============================================================================
