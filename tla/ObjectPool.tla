----------------------------- MODULE ObjectPool -----------------------------
(***************************************************************************)
(* The object pool (src/Fuzzer/ObjectPool.cpp), the owner of all values a  *)
(* test case points to.  It hands out raw pointers; some values have at    *)
(* most one object, found again through a table, others a new object each  *)
(* time.  clear() deletes a part of the objects.                           *)
(*                                                                         *)
(* Memory is explicit: an address is free or holds an object, and a freed  *)
(* address may be used again, so a pointer kept too long is noticed.       *)
(***************************************************************************)
EXTENDS Integers

CONSTANTS
  Address,              \* addresses of objects
  Null,                 \* no object
  Singletons,           \* undefined, null, booleans, functions, placeholders
  ShortStrings,         \* of at most MAX_STRING_LEN_IN_TABLE characters
  LongStrings,
  MinInt, MaxInt,       \* range of int32_t
  Bias, TableSize,      \* INTEGER_BIAS, INTEGER_TABLE_SIZE
  SizeModulus,          \* number of values of size_t
  NaN, PosInf, NegInf,
  SpecialFloats,        \* those of the three that are asked for
  FiniteFloats,
  NewArray              \* the contents of an array just created

ASSUME IntegersAssumption ==
  /\ MinInt \in Int /\ MaxInt \in Int /\ MinInt < 0 /\ 0 < MaxInt
  /\ Bias \in Nat /\ TableSize \in Nat /\ SizeModulus \in Nat
  /\ TableSize <= MinInt + SizeModulus

Integer == MinInt .. MaxInt
Strings == ShortStrings \cup LongStrings
NotFinite == {NaN, PosInf, NegInf}

(* The kinds of values are what they are called. *)
ASSUME KindsAssumption ==
  /\ Null \notin Address
  /\ SpecialFloats \subseteq NotFinite
  /\ PosInf # NaN /\ NegInf # NaN /\ PosInf # NegInf
  /\ ShortStrings \cap LongStrings = {}
  /\ Singletons \cap (Strings \cup Integer \cup NotFinite \cup FiniteFloats) = {}
  /\ Strings \cap (Integer \cup NotFinite \cup FiniteFloats) = {}
  /\ Integer \cap (NotFinite \cup FiniteFloats) = {}
  /\ NotFinite \cap FiniteFloats = {}
  /\ NewArray \notin Singletons \cup Strings \cup Integer \cup NotFinite \cup FiniteFloats

VARIABLES
  owner,      \* who owns the object at an address: see Owner
  value,      \* what the object at an address stands for
  slots,      \* _undef, _null, _bool, _funcValues, _placeholderValues, _nan, _inf
  strToValue, \* _strToValue
  intTable,   \* _intTable
  held        \* pointers in the test case being built: what was asked, and where it is

vars == <<owner, value, slots, strToValue, intTable, held>>

Owner    == {"nobody", "slots", "values", "arrays"}
Slot     == Singletons \cup {NaN, PosInf}
Index    == 0 .. (TableSize - 1)
Value    == Singletons \cup Strings \cup Integer \cup SpecialFloats \cup FiniteFloats
              \cup {NewArray}
Pointer  == Address \cup {Null}

Free(a) == owner[a] = "nobody"

-----------------------------------------------------------------------------
(* An object for v is created at a and is given to the client. *)
New(a, v, who) ==
  /\ Free(a)
  /\ owner' = [owner EXCEPT ![a] = who]
  /\ value' = [value EXCEPT ![a] = v]

Give(a, v) == held' = held \cup {[asked |-> v, at |-> a]}

(* The object exists already. *)
Found(p, v) ==
  /\ p # Null
  /\ Give(p, v)
  /\ UNCHANGED <<owner, value, slots, strToValue, intTable>>

(* get_or_create on a slot. *)
GetOrCreate(s, v) ==
  \/ Found(slots[s], v)
  \/ /\ slots[s] = Null
     /\ \E a \in Address :
          /\ New(a, v, "slots")
          /\ Give(a, v)
          /\ slots' = [slots EXCEPT ![s] = a]
     /\ UNCHANGED <<strToValue, intTable>>

(* CreateValue: the pool's _values owns the new object. *)
CreateValue(a, v) ==
  /\ New(a, v, "values")
  /\ Give(a, v)

GetSingleton(v) == GetOrCreate(v, v)

(* Mutant: the table is not told about the new string. *)
GetStringUnrecorded(s) ==
  /\ \E a \in Address : CreateValue(a, s)
  /\ UNCHANGED <<slots, strToValue, intTable>>

GetOrCreateStringValue(s) ==
  \/ s \in ShortStrings /\ Found(strToValue[s], s)
  \/ /\ s \in ShortStrings => strToValue[s] = Null
     /\ \E a \in Address :
          /\ CreateValue(a, s)
          /\ strToValue' = IF s \in ShortStrings THEN [strToValue EXCEPT ![s] = a]
                           ELSE strToValue
     /\ UNCHANGED <<slots, intTable>>

(* An int is converted to size_t: a negative one becomes very large. *)
SizeT(n) == IF n >= 0 THEN n ELSE n + SizeModulus

(* Does _intTable have an entry for n? *)
InTable(n) == n <= MaxInt - Bias /\ SizeT(n + Bias) < TableSize

GetOrCreateIntegerValue(n) ==
  \/ InTable(n) /\ Found(intTable[SizeT(n + Bias)], n)
  \/ /\ InTable(n) => intTable[SizeT(n + Bias)] = Null
     /\ \E a \in Address :
          /\ CreateValue(a, n)
          /\ intTable' = IF InTable(n) THEN [intTable EXCEPT ![SizeT(n + Bias)] = a]
                         ELSE intTable
     /\ UNCHANGED <<slots, strToValue>>

(* Both infinities use the slot _inf. *)
FloatSlot(x) == IF x = NegInf THEN PosInf ELSE x

GetOrCreateFloatValue(x) ==
  \/ x \in SpecialFloats /\ GetOrCreate(FloatSlot(x), x)
  \/ /\ x \in FiniteFloats
     /\ \E a \in Address : CreateValue(a, x)
     /\ UNCHANGED <<slots, strToValue, intTable>>

CreateArrayValue ==
  /\ \E a \in Address : New(a, NewArray, "arrays") /\ Give(a, NewArray)
  /\ UNCHANGED <<slots, strToValue, intTable>>

(* Mutant: a slot is selected, which may be empty. *)
SelectSlot ==
  /\ \E s \in Slot \cap Value : Give(slots[s], s)
  /\ UNCHANGED <<owner, value, slots, strToValue, intTable>>

(* Any value of _values; the client takes it for what it is. *)
SelectValue ==
  /\ \E a \in {b \in Address : owner[b] = "values"} : Give(a, value[a])
  /\ UNCHANGED <<owner, value, slots, strToValue, intTable>>

-----------------------------------------------------------------------------
(* Mutant: the table of integers is not emptied. *)
ClearKeepsIntegers ==
  /\ held = {}
  /\ owner' = [a \in Address |-> IF owner[a] = "values" THEN "nobody" ELSE owner[a]]
  /\ strToValue' = [s \in ShortStrings |-> Null]
  /\ UNCHANGED <<value, slots, intTable, held>>

(* clear().  The only caller, the gen command, has no test case at that point. *)
Clear ==
  /\ held = {}
  /\ owner' = [a \in Address |-> IF owner[a] = "values" THEN "nobody" ELSE owner[a]]
  /\ strToValue' = [s \in ShortStrings |-> Null]
  /\ intTable' = [i \in Index |-> Null]
  /\ UNCHANGED <<value, slots, held>>

(* The gen command has written the test case, which goes out of scope. *)
TestCaseDone ==
  /\ held # {}
  /\ held' = {}
  /\ UNCHANGED <<owner, value, slots, strToValue, intTable>>

Init ==
  /\ owner = [a \in Address |-> "nobody"]
  /\ value \in [Address -> {NewArray}]
  /\ slots = [s \in Slot |-> Null]
  /\ strToValue = [s \in ShortStrings |-> Null]
  /\ intTable = [i \in Index |-> Null]
  /\ held = {}

Next ==
  \/ \E v \in Singletons : GetSingleton(v)
  \/ \E s \in Strings : GetOrCreateStringValue(s)
  \/ \E n \in Integer : GetOrCreateIntegerValue(n)
  \/ \E x \in SpecialFloats \cup FiniteFloats : GetOrCreateFloatValue(x)
  \/ CreateArrayValue
  \/ SelectValue
  \/ Clear
  \/ TestCaseDone

Spec == Init /\ [][Next]_vars

-----------------------------------------------------------------------------
TypeOK ==
  /\ owner \in [Address -> Owner]
  /\ value \in [Address -> Value]
  /\ slots \in [Slot -> Pointer]
  /\ strToValue \in [ShortStrings -> Pointer]
  /\ intTable \in [Index -> Pointer]
  /\ held \subseteq [asked : Value, at : Address]

(* A client that asked for a value holds a pointer to a live object with that
   value, and it stays one while the client uses it: no table leads to an
   object of another value, to a deleted one, or to one whose memory was given
   to another object since. *)
HeldIsAsked ==
  \A h \in held : ~Free(h.at) /\ value[h.at] = h.asked

(* A short string, a small integer or a value with a slot has one object
   however often it is asked for, as long as the pool is not cleared. *)
Interned == Singletons \cup ShortStrings \cup {n \in Integer : InTable(n)} \cup SpecialFloats

OneObject ==
  \A g, h \in held : g.asked = h.asked /\ g.asked \in Interned => g.at = h.at
=============================================================================
