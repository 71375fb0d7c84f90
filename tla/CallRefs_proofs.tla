--------------------------- MODULE CallRefs_proofs ---------------------------
(***************************************************************************)
(* CallRefs is correct for every number of calls: its two invariants hold  *)
(* in every behaviour.  TypeOK is needed first, because a sequence built   *)
(* by Insert and Remove has to be known to be one before its elements can  *)
(* be talked about; BackwardRefs is inductive on top of it.                *)
(***************************************************************************)
EXTENDS CallRefs, TLAPS

(* A function on 1 .. n is a sequence of length n. *)
LEMMA SeqOfFunction ==
  ASSUME NEW S, NEW n \in Nat, NEW f \in [1 .. n -> S]
  PROVE  f \in Seq(S) /\ Len(f) = n /\ DOMAIN f = 1 .. n
  OBVIOUS

(* Renumbering keeps a reference before the call that holds it: an insertion
   moves call i - 1 to i and a reference of it at most as far, a removal moves
   call i + 1 to i, and a reference past the removed call comes down with it. *)
LEMMA ShiftUpEarlier ==
  ASSUME NEW k \in Nat, NEW i \in Nat \ {0}, NEW j \in Earlier(i)
  PROVE  ShiftUp(k, j) \in Earlier(i + 1)
  BY DEF ShiftUp, Earlier

LEMMA ShiftDownEarlier ==
  ASSUME NEW k \in Nat \ {0}, NEW i \in Nat, k <= i, NEW j \in Earlier(i + 1), j # k
  PROVE  ShiftDown(k, j) \in Earlier(i)
  BY DEF ShiftDown, Earlier

(* The two together, the inductive invariant: every call's references are
   earlier calls, and there are between one and MaxCalls calls. *)
IInv == TypeOK /\ BackwardRefs

(* To establish IInv for a sequence given as a function it suffices that its
   references are backward: they are then positions of the test case too. *)
LEMMA BackwardFunction ==
  ASSUME MaxCallsAssumption,
         NEW n \in 1 .. MaxCalls,
         refs' = [i \in 1 .. n |-> refs'[i]],
         callees' \in [1 .. n -> Functions],
         \A i \in 1 .. n : refs'[i] \subseteq Earlier(i)
  PROVE  IInv'
<1>1. \A i \in 1 .. n : refs'[i] \in SUBSET (1 .. MaxCalls)
  BY DEF MaxCallsAssumption, Earlier
<1>2. refs' \in [1 .. n -> SUBSET (1 .. MaxCalls)]
  BY <1>1
<1>3. n \in Nat
  BY DEF MaxCallsAssumption
<1>4. refs' \in Seq(SUBSET (1 .. MaxCalls)) /\ Len(refs') = n
  BY <1>2, <1>3, SeqOfFunction
<1> QED
  BY <1>4 DEF IInv, TypeOK, BackwardRefs

LEMMA InsertStep ==
  ASSUME MaxCallsAssumption, IInv, NEW k \in 1 .. (Len(refs) + 1), NEW f \in Functions,
         NEW new \in SUBSET Earlier(k), Insert(k, f, new)
  PROVE  IInv'
<1> DEFINE n == Len(refs) + 1
<1>1. n \in 1 .. MaxCalls
  BY DEF MaxCallsAssumption, IInv, TypeOK, Insert
<1>2. refs' = [i \in 1 .. n |-> refs'[i]]
  BY DEF Insert
<1>3. ASSUME NEW i \in 1 .. n PROVE refs'[i] \subseteq Earlier(i)
  <2>1. CASE i < k
    <3>1. i \in 1 .. Len(refs)
      BY <2>1, <1>1
    <3> QED
      BY <2>1, <3>1 DEF Insert, IInv, BackwardRefs
  <2>2. CASE i = k
    BY <2>2 DEF Insert
  <2>3. CASE i > k
    <3>1. /\ i - 1 \in 1 .. Len(refs)
          /\ i - 1 \in Nat \ {0}
          /\ (i - 1) + 1 = i
      BY <2>3, <1>1
    <3>2. refs[i - 1] \subseteq Earlier(i - 1)
      BY <3>1 DEF IInv, BackwardRefs
    <3>3. refs'[i] = {ShiftUp(k, j) : j \in refs[i - 1]}
      BY <2>3, <1>1 DEF Insert
    <3>4. \A j \in refs[i - 1] : ShiftUp(k, j) \in Earlier((i - 1) + 1)
      BY <3>1, <3>2, ShiftUpEarlier
    <3> QED
      BY <3>1, <3>3, <3>4
  <2> QED
    BY <2>1, <2>2, <2>3, <1>1
<1>4. callees' \in [1 .. n -> Functions]
  BY <1>1 DEF IInv, TypeOK, Insert
<1> QED
  BY ONLY MaxCallsAssumption, <1>1, <1>2, <1>3, <1>4, BackwardFunction

LEMMA RemoveStep ==
  ASSUME MaxCallsAssumption, IInv, NEW k \in 1 .. Len(refs),
         NEW fill, \A i \in Users(k) : fill[i] \subseteq Earlier(i),
         Remove(k, fill)
  PROVE  IInv'
<1> DEFINE n == Len(refs) - 1
<1>1. n \in 1 .. MaxCalls
  BY DEF MaxCallsAssumption, IInv, TypeOK, Remove
<1>2. refs' = [i \in 1 .. n |-> refs'[i]]
  BY DEF Remove
<1>3. ASSUME NEW i \in 1 .. n PROVE refs'[i] \subseteq Earlier(i)
  <2>1. CASE i < k
    <3>1. i \in 1 .. Len(refs)
      BY <1>1
    <3> QED
      BY <2>1, <3>1 DEF Remove, IInv, BackwardRefs
  <2>2. CASE i >= k
    <3>1. i + 1 \in 1 .. Len(refs) /\ i \in Nat /\ k \in Nat \ {0}
      BY <1>1
    <3>2. refs[i + 1] \subseteq Earlier(i + 1)
      BY <3>1 DEF IInv, BackwardRefs
    <3>3. refs'[i] = {ShiftDown(k, j) : j \in refs[i + 1] \ {k}}
                       \cup (IF i \in Users(k) THEN fill[i] ELSE {})
      BY <2>2, <1>1 DEF Remove
    <3>4. \A j \in refs[i + 1] \ {k} : ShiftDown(k, j) \in Earlier(i)
      BY <2>2, <3>1, <3>2, ShiftDownEarlier
    <3> QED
      BY <3>3, <3>4
  <2> QED
    BY <2>1, <2>2, <1>1
<1>4. callees' \in [1 .. n -> Functions]
  BY <1>1 DEF IInv, TypeOK, Remove
<1> QED
  BY ONLY MaxCallsAssumption, <1>1, <1>2, <1>3, <1>4, BackwardFunction

LEMMA RewriteStep ==
  ASSUME MaxCallsAssumption, IInv, NEW k \in 1 .. Len(refs), NEW new \in SUBSET Earlier(k),
         Rewrite(k, new)
  PROVE  IInv'
<1> DEFINE n == Len(refs)
<1>1. n \in 1 .. MaxCalls /\ refs \in [1 .. n -> SUBSET (1 .. MaxCalls)]
  BY DEF IInv, TypeOK
<1>2. refs' = [i \in 1 .. n |-> refs'[i]]
  BY <1>1 DEF Rewrite
<1>3. \A i \in 1 .. n : refs'[i] \subseteq Earlier(i)
  BY <1>1 DEF Rewrite, IInv, BackwardRefs
<1>4. callees' \in [1 .. n -> Functions]
  BY DEF IInv, TypeOK, Rewrite
<1> QED
  BY ONLY MaxCallsAssumption, <1>1, <1>2, <1>3, <1>4, BackwardFunction

LEMMA InitIInv == StartsAssumption /\ Init => IInv
  BY DEF StartsAssumption, Init, IInv, TypeOK, BackwardRefs

LEMMA NextIInv == MaxCallsAssumption /\ IInv /\ [Next]_vars => IInv'
<1> SUFFICES ASSUME MaxCallsAssumption, IInv, [Next]_vars PROVE IInv'
  OBVIOUS
<1>1. CASE \E k \in 1 .. (Len(refs) + 1) : \E f \in Functions :
             \E new \in SUBSET Earlier(k) : Insert(k, f, new)
  BY <1>1, InsertStep
<1>2. CASE \E k \in 1 .. Len(refs) :
             \E fill \in [Users(k) -> SUBSET Earlier(MaxCalls - 1)] :
               /\ \A i \in Users(k) : fill[i] \subseteq Earlier(i)
               /\ Remove(k, fill)
  BY <1>2, RemoveStep
<1>3. CASE \E i \in 1 .. Len(refs) : \E new \in SUBSET Earlier(i) : Rewrite(i, new)
  BY <1>3, RewriteStep
<1>4. CASE UNCHANGED vars
  BY <1>4 DEF vars, IInv, TypeOK, BackwardRefs
<1> QED
  BY <1>1, <1>2, <1>3, <1>4 DEF Next

(* A test case never has fewer than one or more than MaxCalls calls, and no
   reference points outside the positions a test case can have. *)
THEOREM TypeCorrect ==
  ASSUME MaxCallsAssumption, StartsAssumption PROVE Spec => []TypeOK
<1>1. IInv => TypeOK
  BY DEF IInv
<1>2. Init => IInv
  BY InitIInv
<1>3. IInv /\ [Next]_vars => IInv'
  BY NextIInv
<1> QED
  BY <1>1, <1>2, <1>3, PTL DEF Spec

(* However calls are inserted, removed and rewritten, a call only ever refers
   to calls made before it. *)
THEOREM ReferencesStayBackward ==
  ASSUME MaxCallsAssumption, StartsAssumption PROVE Spec => []BackwardRefs
<1>1. IInv => BackwardRefs
  BY DEF IInv
<1>2. Init => IInv
  BY InitIInv
<1>3. IInv /\ [Next]_vars => IInv'
  BY NextIInv
<1> QED
  BY <1>1, <1>2, <1>3, PTL DEF Spec
=============================================================================
