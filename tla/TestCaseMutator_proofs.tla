----------------------- MODULE TestCaseMutator_proofs -----------------------
(***************************************************************************)
(* The mutator edits references as CallRefs promises, whatever the         *)
(* options, the functions and the test cases a session starts from.        *)
(*                                                                         *)
(* The inductive invariant is Sound: between mutations the test case is    *)
(* Solid (its calls and arrays have their sizes and nothing dangles) and   *)
(* every call uses earlier calls only.  What a call uses is held by a      *)
(* smallest closed set of arrays, so the lemmas give a closed set and      *)
(* never count steps.                                                      *)
(*                                                                         *)
(* A mutator that edits one call makes values from others:                 *)
(*   Planted(h, g)    g is h and new arrays, which hold no old ones and    *)
(*                    are in no cycle: what is generated                   *)
(*   Copied(h, g)     the same, but they may hold old ones: what is copied *)
(*   Usable(h, v, i)  call i may use v: all that can be reached from v are *)
(*                    scalars and earlier calls                            *)
(*                                                                         *)
(* The fixer writes every slot it meets from a call on, and each shared    *)
(* array once.  Rewired says what the slots hold afterwards: f renames     *)
(* what they held, and those that held the removed call hold a new value   *)
(* (Reassigned).  Fixing collects what this needs, and the facts about     *)
(* what a call uses afterwards come from it, for an inserted call as for a *)
(* removed one.                                                            *)
(*                                                                         *)
(* Loopless is the state half of CyclesOnlyRead, and every lemma about a   *)
(* step says that it is kept.                                              *)
(*                                                                         *)
(* For trees each array is given its place at[a], a slot of a call or of   *)
(* an array (OnePlace, TreeHasPlaces): a step then keeps a tree if it says *)
(* where each array it leaves in use is now (TreePlaces, BecomesTree).     *)
(***************************************************************************)
EXTENDS TestCaseMutator, SequenceTheorems, FiniteSetTheorems, WellFoundedInduction, TLAPS

-----------------------------------------------------------------------------
(* Arrays that can be reached. *)

Closed(h, C) ==
  /\ C \subseteq DOMAIN h
  /\ \A a \in C : Range(h[a]) \cap DOMAIN h \subseteq C

LEMMA ReachIsClosed ==
  ASSUME NEW h, NEW V
  PROVE  Closed(h, Reach(h, V)) /\ V \cap DOMAIN h \subseteq Reach(h, V)
<1>1. V \cap DOMAIN h \subseteq Reach(h, V)
  BY DEF Reach
<1>2. ASSUME NEW a \in Reach(h, V), NEW b \in Range(h[a]) \cap DOMAIN h
      PROVE  b \in Reach(h, V)
  BY <1>2 DEF Reach
<1>3. Reach(h, V) \subseteq DOMAIN h
  BY DEF Reach
<1> QED
  BY <1>1, <1>2, <1>3 DEF Closed

LEMMA ReachIsLeast ==
  ASSUME NEW h, NEW V, NEW C, Closed(h, C), V \cap DOMAIN h \subseteq C
  PROVE  Reach(h, V) \subseteq C
  BY DEF Reach, Closed

(* What is reached does not depend on the rest of the heap. *)
LEMMA ReachFrame ==
  ASSUME NEW h, NEW V, NEW g, NEW W,
         W \cap DOMAIN g = V \cap DOMAIN h,
         Reach(h, V) \subseteq DOMAIN g,
         \A a \in Reach(h, V) : Range(g[a]) \cap DOMAIN g = Range(h[a]) \cap DOMAIN h
  PROVE  Reach(g, W) = Reach(h, V)
<1>1. Reach(g, W) \subseteq Reach(h, V)
  <2>1. Closed(g, Reach(h, V))
    BY ReachIsClosed DEF Closed
  <2>2. W \cap DOMAIN g \subseteq Reach(h, V)
    BY ReachIsClosed
  <2> QED
    BY <2>1, <2>2, ReachIsLeast
<1>2. Reach(h, V) \subseteq Reach(g, W)
  <2>1. Closed(g, Reach(g, W)) /\ W \cap DOMAIN g \subseteq Reach(g, W)
    BY ReachIsClosed
  <2>2. Closed(h, Reach(h, V))
    BY ReachIsClosed
  <2>3. Closed(h, Reach(g, W))
    BY <1>1, <2>1, <2>2 DEF Closed
  <2> QED
    BY <2>1, <2>3, ReachIsLeast
<1> QED
  BY <1>1, <1>2

-----------------------------------------------------------------------------
(* The positions that the values of a set use. *)
UsesOf(h, V) == (V \cup UNION {Range(h[a]) : a \in Reach(h, V)}) \cap Position

LEMMA UsesOfCall ==
  ASSUME NEW cs, NEW h, NEW i
  PROVE  Uses(cs, h, i) = UsesOf(h, CallValues(cs[i]))
  BY DEF Uses, UsesOf, CallReach

Earlier(i) == 1 .. (i - 1)

(* Values that call i may use: scalars, earlier calls, and arrays of C when
   C's arrays hold nothing else. *)
Backing(h, C, i) ==
  /\ C \subseteq DOMAIN h
  /\ \A a \in C : Range(h[a]) \subseteq Leaf(i) \cup C

LEMMA BackedUses ==
  ASSUME NEW h, NEW C, NEW i \in Position, Backing(h, C, i), DOMAIN h \subseteq Arrays,
         NEW V, V \subseteq Leaf(i) \cup C
  PROVE  UsesOf(h, V) \subseteq Earlier(i)
<1>1. Leaf(i) \cap Arrays = {} /\ C \cap Position = {} /\ Leaf(i) \cap Position \subseteq Earlier(i)
  BY ReferencesAssumption, SizesAssumption DEF Leaf, Position, Earlier, Backing
<1>2. Closed(h, C) /\ V \cap DOMAIN h \subseteq C
  BY <1>1 DEF Backing, Closed
<1>3. Reach(h, V) \subseteq C
  BY <1>2, ReachIsLeast
<1> QED
  BY <1>1, <1>3 DEF UsesOf, Backing

IsHeap(h) == DOMAIN h \subseteq Arrays /\ h \in [DOMAIN h -> Seq(Value)]

(* No array holds an array that is not there. *)
Whole(h) ==
  /\ IsHeap(h)
  /\ \A a \in DOMAIN h : Range(h[a]) \cap Arrays \subseteq DOMAIN h

LEMMA HeldValues ==
  ASSUME NEW h, IsHeap(h), NEW a \in DOMAIN h
  PROVE  Range(h[a]) \subseteq Value
  BY DEF IsHeap, Range

LEMMA BackedByReach ==
  ASSUME NEW h, Whole(h), NEW i \in Position, NEW V, V \subseteq Value,
         V \cap Arrays \subseteq DOMAIN h, UsesOf(h, V) \subseteq Earlier(i)
  PROVE  Backing(h, Reach(h, V), i) /\ V \subseteq Leaf(i) \cup Reach(h, V)
<1> DEFINE R == Reach(h, V)
<1>1. Closed(h, R) /\ V \cap DOMAIN h \subseteq R
  BY ReachIsClosed
<1>2. \A v \in Value : v \in Earlier(i) \/ v = Scalar \/ v \in Arrays => v \in Leaf(i) \cup Arrays
  BY DEF Leaf, Earlier
<1>3. V \subseteq Leaf(i) \cup R
  BY <1>1, <1>2 DEF Value, UsesOf, Leaf, Earlier
<1>4. ASSUME NEW a \in R PROVE Range(h[a]) \subseteq Leaf(i) \cup R
  <2>1. Range(h[a]) \subseteq Value /\ Range(h[a]) \cap Arrays \subseteq R
    BY <1>1, HeldValues DEF Whole, Closed
  <2>2. Range(h[a]) \cap Position \subseteq Earlier(i)
    BY DEF UsesOf
  <2> QED
    BY <2>1, <2>2 DEF Value, Leaf, Earlier
<1> QED
  BY <1>1, <1>3, <1>4 DEF Backing, Closed

Grows(h, g) ==
  /\ DOMAIN h \subseteq DOMAIN g
  /\ \A a \in DOMAIN h : g[a] = h[a]

LEMMA GrownUses ==
  ASSUME NEW h, Whole(h), NEW g, Grows(h, g), DOMAIN g \subseteq Arrays,
         NEW V, V \cap Arrays \subseteq DOMAIN h
  PROVE  Reach(g, V) = Reach(h, V) /\ UsesOf(g, V) = UsesOf(h, V)
<1>1. Reach(h, V) \subseteq DOMAIN h
  BY DEF Reach
<1>2. \A a \in Reach(h, V) : Range(g[a]) \cap DOMAIN g = Range(h[a]) \cap DOMAIN h
  BY <1>1 DEF Grows, Whole
<1>3. V \cap DOMAIN g = V \cap DOMAIN h
  BY DEF Grows
<1>4. Reach(g, V) = Reach(h, V)
  BY <1>1, <1>2, <1>3, ReachFrame DEF Grows
<1> QED
  BY <1>1, <1>4 DEF UsesOf, Grows

LEMMA RestrictedUses ==
  ASSUME NEW h, NEW L, Closed(h, L), NEW V, V \cap DOMAIN h \subseteq L
  PROVE  Reach(Restrict(h, L), V) = Reach(h, V) /\ UsesOf(Restrict(h, L), V) = UsesOf(h, V)
<1> DEFINE g == Restrict(h, L)
<1>1. DOMAIN g = L /\ \A a \in L : g[a] = h[a]
  BY DEF Restrict
<1>2. Reach(h, V) \subseteq L
  BY ReachIsLeast
<1> HIDE DEF g
<1>3. V \cap DOMAIN g = V \cap DOMAIN h
  BY <1>1 DEF Closed
<1>4. \A a \in Reach(h, V) : Range(g[a]) \cap DOMAIN g = Range(h[a]) \cap DOMAIN h
  BY <1>1, <1>2 DEF Closed
<1>5. Reach(g, V) = Reach(h, V)
  BY <1>1, <1>2, <1>3, <1>4, ReachFrame
<1>6. UsesOf(g, V) = UsesOf(h, V)
  BY <1>1, <1>2, <1>5 DEF UsesOf
<1> QED
  BY <1>5, <1>6 DEF g

-----------------------------------------------------------------------------
(* Sequences and addresses. *)
LEMMA InsertAtIs ==
  ASSUME NEW S, NEW s \in Seq(S), NEW k \in 1 .. (Len(s) + 1), NEW e \in S
  PROVE  /\ InsertAt(s, k, e) \in Seq(S)
         /\ Len(InsertAt(s, k, e)) = Len(s) + 1
         /\ DOMAIN InsertAt(s, k, e) = 1 .. (Len(s) + 1)
         /\ \A i \in 1 .. (Len(s) + 1) :
              InsertAt(s, k, e)[i] = IF i < k THEN s[i] ELSE IF i = k THEN e ELSE s[i - 1]
<1> DEFINE a == SubSeq(s, 1, k - 1)
           b == SubSeq(s, k, Len(s))
<1>1. a \in Seq(S) /\ Len(a) = k - 1 /\ \A i \in 1 .. (k - 1) : a[i] = s[i]
  OBVIOUS
<1>2. b \in Seq(S) /\ Len(b) = Len(s) - k + 1 /\ \A i \in 1 .. (Len(s) - k + 1) : b[i] = s[k + i - 1]
  OBVIOUS
<1> HIDE DEF a, b
<1>3. PICK c : c = a \o <<e>> \o b
  OBVIOUS
<1>4. /\ c \in Seq(S) /\ Len(c) = Len(a) + 1 + Len(b)
      /\ \A i \in 1 .. Len(a) : c[i] = a[i]
      /\ c[Len(a) + 1] = e
      /\ \A i \in 1 .. Len(b) : c[Len(a) + 1 + i] = b[i]
  <2>1. PICK d : d = a \o <<e>>
    OBVIOUS
  <2>2. d \in Seq(S) /\ Len(d) = Len(a) + 1 /\ (\A i \in 1 .. Len(a) : d[i] = a[i]) /\ d[Len(a) + 1] = e
    BY ONLY <2>1, <1>1, e \in S
  <2>3. c = d \o b
    BY <1>3, <2>1
  <2>t. d \in Seq(S) /\ b \in Seq(S)
    BY <2>2, <1>2
  <2>4. c \in Seq(S) /\ Len(c) = Len(d) + Len(b)
        /\ (\A i \in 1 .. Len(d) : c[i] = d[i])
        /\ (\A i \in 1 .. Len(b) : c[Len(d) + i] = b[i])
    BY ONLY <2>3, <2>t
  <2>5. PICK m \in Nat : m = Len(a)
    BY <1>1
  <2>6. PICK l \in Nat : l = Len(b)
    BY <2>t
  <2>7. Len(d) = m + 1 /\ Len(c) = m + 1 + l
    BY ONLY <2>2, <2>4, <2>5, <2>6
  <2>8. \A i \in 1 .. m : c[i] = a[i]
    BY ONLY <2>2, <2>4, <2>5, <2>7
  <2>9. c[m + 1] = e
    BY ONLY <2>2, <2>4, <2>5, <2>7
  <2>10. \A i \in 1 .. l : c[m + 1 + i] = b[i]
    BY ONLY <2>2, <2>4, <2>5, <2>6, <2>7
  <2> QED
    BY ONLY <2>4, <2>5, <2>6, <2>7, <2>8, <2>9, <2>10
<1>5. Len(c) = Len(s) + 1 /\ DOMAIN c = 1 .. (Len(s) + 1)
  BY <1>1, <1>2, <1>4
<1>6. ASSUME NEW i \in 1 .. (Len(s) + 1)
      PROVE  c[i] = IF i < k THEN s[i] ELSE IF i = k THEN e ELSE s[i - 1]
  <2>1. CASE i < k
    BY <2>1, <1>1, <1>4
  <2>2. CASE i = k
    BY <2>2, <1>1, <1>4
  <2>3. CASE i > k
    <3>1. i - k \in 1 .. Len(b) /\ Len(a) + 1 + (i - k) = i
      BY <2>3, <1>1, <1>2
    <3>2. c[i] = b[i - k] /\ b[i - k] = s[k + (i - k) - 1]
      BY <3>1, <1>4, <1>2
    <3>3. k + (i - k) - 1 = i - 1
      OBVIOUS
    <3> QED
      BY <2>3, <3>2, <3>3
  <2> QED
    BY <2>1, <2>2, <2>3
<1>7. InsertAt(s, k, e) = c
  BY <1>3 DEF InsertAt, a, b
<1> QED
  BY <1>4, <1>5, <1>6, <1>7

LEMMA RemoveAtIs ==
  ASSUME NEW S, NEW s \in Seq(S), NEW k \in 1 .. Len(s)
  PROVE  /\ RemoveAt(s, k) \in Seq(S)
         /\ Len(RemoveAt(s, k)) = Len(s) - 1
         /\ DOMAIN RemoveAt(s, k) = 1 .. (Len(s) - 1)
         /\ \A i \in 1 .. (Len(s) - 1) : RemoveAt(s, k)[i] = IF i < k THEN s[i] ELSE s[i + 1]
<1> DEFINE a == SubSeq(s, 1, k - 1)
           b == SubSeq(s, k + 1, Len(s))
<1>1. a \in Seq(S) /\ Len(a) = k - 1 /\ \A i \in 1 .. (k - 1) : a[i] = s[i]
  OBVIOUS
<1>2. b \in Seq(S) /\ Len(b) = Len(s) - k /\ \A i \in 1 .. (Len(s) - k) : b[i] = s[k + i]
  OBVIOUS
<1> HIDE DEF a, b
<1>3. PICK c : c = a \o b
  OBVIOUS
<1>t. a \in Seq(S) /\ b \in Seq(S)
  BY <1>1, <1>2
<1>4. c \in Seq(S) /\ Len(c) = Len(a) + Len(b)
      /\ (\A i \in 1 .. Len(a) : c[i] = a[i])
      /\ (\A i \in 1 .. Len(b) : c[Len(a) + i] = b[i])
  BY ONLY <1>3, <1>t
<1>5. Len(c) = Len(s) - 1 /\ DOMAIN c = 1 .. (Len(s) - 1)
  BY <1>1, <1>2, <1>4
<1>6. ASSUME NEW i \in 1 .. (Len(s) - 1)
      PROVE  c[i] = IF i < k THEN s[i] ELSE s[i + 1]
  <2>1. CASE i < k
    BY <2>1, <1>1, <1>4
  <2>2. CASE i >= k
    <3>1. i - k + 1 \in 1 .. Len(b) /\ Len(a) + (i - k + 1) = i
      BY <2>2, <1>1, <1>2
    <3>2. c[i] = b[i - k + 1] /\ b[i - k + 1] = s[k + (i - k + 1)]
      BY <3>1, <1>4, <1>2
    <3>3. k + (i - k + 1) = i + 1
      OBVIOUS
    <3> QED
      BY <2>2, <3>2, <3>3
  <2> QED
    BY <2>1, <2>2
<1>7. RemoveAt(s, k) = c
  BY <1>3 DEF RemoveAt, a, b
<1> QED
  BY <1>4, <1>5, <1>6, <1>7

LEMMA AppendIs ==
  ASSUME NEW S, NEW s \in Seq(S), NEW e \in S
  PROVE  /\ Append(s, e) \in Seq(S)
         /\ Len(Append(s, e)) = Len(s) + 1
         /\ Range(Append(s, e)) = Range(s) \cup {e}
<1>1. /\ Append(s, e) \in Seq(S) /\ Len(Append(s, e)) = Len(s) + 1 /\ Len(s) \in Nat
      /\ \A i \in 1 .. Len(s) : Append(s, e)[i] = s[i]
      /\ Append(s, e)[Len(s) + 1] = e
      /\ DOMAIN Append(s, e) = 1 .. (Len(s) + 1) /\ DOMAIN s = 1 .. Len(s)
  OBVIOUS
<1>2. PICK t : t = Append(s, e)
  OBVIOUS
<1>3. Range(t) \subseteq Range(s) \cup {e}
  <2> SUFFICES ASSUME NEW i \in 1 .. (Len(s) + 1) PROVE t[i] \in Range(s) \cup {e}
    BY <1>1, <1>2 DEF Range
  <2>1. CASE i = Len(s) + 1
    BY <2>1, <1>1, <1>2
  <2>2. CASE i \in 1 .. Len(s)
    BY <2>2, <1>1, <1>2 DEF Range
  <2> QED
    BY <2>1, <2>2, <1>1
<1>4. Range(s) \subseteq Range(t)
  <2> SUFFICES ASSUME NEW i \in 1 .. Len(s) PROVE s[i] \in Range(t)
    BY <1>1 DEF Range
  <2> QED
    BY <1>1, <1>2 DEF Range
<1>5. e \in Range(t)
  BY <1>1, <1>2 DEF Range
<1> QED
  BY <1>1, <1>2, <1>3, <1>4, <1>5

(* The addresses of new arrays are new and differ. *)
LEMMA FreshIs ==
  ASSUME NEW h, NEW n \in Nat, n <= Room(h)
  PROVE  /\ Fresh(h, n) \in [1 .. n -> Arrays \ DOMAIN h]
         /\ \A i, j \in 1 .. n : Fresh(h, n)[i] = Fresh(h, n)[j] => i = j
<1> DEFINE S == Arrays \ DOMAIN h
<1>1. IsFiniteSet(S)
  BY ReferencesAssumption, FS_Difference
<1>2. Cardinality(S) \in Nat /\ ExistsBijection(1 .. Cardinality(S), S)
  BY <1>1, FS_CardinalityType
<1>3. PICK f \in Bijection(1 .. Cardinality(S), S) : TRUE
  BY <1>2 DEF ExistsBijection
<1>4. f \in [1 .. Cardinality(S) -> S] /\ IsInjective(f)
  BY <1>3 DEF Bijection, Injection
<1> DEFINE g == [i \in 1 .. n |-> f[i]]
<1>5. g \in [1 .. n -> S] /\ IsInjective(g)
  <2>1. 1 .. n \subseteq 1 .. Cardinality(S)
    BY <1>2 DEF Room
  <2>2. g \in [1 .. n -> S] /\ DOMAIN g = 1 .. n
    BY <2>1, <1>4
  <2>3. \A i, j \in 1 .. n : g[i] = g[j] => i = j
    BY <2>1, <1>4 DEF IsInjective
  <2> QED
    BY <2>2, <2>3 DEF IsInjective
<1>6. Fresh(h, n) \in [1 .. n -> S] /\ IsInjective(Fresh(h, n))
  BY <1>5 DEF Fresh
<1> QED
  BY <1>6 DEF IsInjective

-----------------------------------------------------------------------------
(* Numbers: the smallest of a set, the largest of a finite set, and recursion. *)
LEMMA Smallest ==
  ASSUME NEW T, T \subseteq Nat, T # {}
  PROVE  \E n \in T : \A m \in T : n <= m
<1>1. PICK n \in T : \A m \in T : <<m, n>> \notin OpToRel(<, Nat)
  BY NatLessThanWellFounded, WFMin
<1>2. \A m \in T : ~(m < n)
  BY <1>1 DEF OpToRel
<1> QED
  BY <1>2

LEMMA FiniteIsBounded ==
  ASSUME NEW S, S \subseteq Nat, IsFiniteSet(S)
  PROVE  \E u \in Nat : \A y \in S : y <= u
<1>1. PICK n \in Nat : ExistsSurjection(1 .. n, S)
  BY FS_NatSurjection
<1>2. PICK f \in Surjection(1 .. n, S) : TRUE
  BY <1>1 DEF ExistsSurjection
<1>3. f \in [1 .. n -> S] /\ \A y \in S : \E i \in 1 .. n : f[i] = y
  BY <1>2 DEF Surjection
<1> DEFINE bad == {m \in 0 .. n : ~\E u \in Nat : \A i \in 1 .. m : f[i] <= u}
<1>4. SUFFICES ASSUME bad # {} PROVE FALSE
  <2>1. n \notin bad
    BY <1>4
  <2>2. PICK u \in Nat : \A i \in 1 .. n : f[i] <= u
    BY <2>1
  <2> QED
    BY <1>3, <2>2
<1>5. PICK m \in bad : \A l \in bad : m <= l
  <2>1. bad \subseteq Nat
    OBVIOUS
  <2> HIDE DEF bad
  <2> QED
    BY <1>4, <2>1, Smallest
<1>3a. \A i \in 1 .. n : f[i] \in Nat
  BY <1>3
<1>6. m # 0
  <2>1. \A i \in 1 .. 0 : f[i] <= 0
    OBVIOUS
  <2> QED
    BY <1>5, <2>1
<1>7. m - 1 \in 0 .. n /\ m - 1 \notin bad /\ m \in 1 .. n
  <2>1. m \in 0 .. n
    OBVIOUS
  <2>2. m - 1 \in 0 .. n /\ m \in 1 .. n /\ ~(m <= m - 1)
    BY ONLY <2>1, <1>6, n \in Nat
  <2> HIDE DEF bad
  <2> QED
    BY <1>5, <2>2
<1>8. PICK u \in Nat : \A i \in 1 .. (m - 1) : f[i] <= u
  BY <1>7
<1>9. f[m] \in Nat
  BY <1>3a, <1>7
<1>10. PICK w \in Nat : w >= u /\ w >= f[m]
  <2>1. PICK x \in Nat : x = f[m]
    BY <1>9
  <2>2. u + x \in Nat /\ u + x >= u /\ u + x >= x
    OBVIOUS
  <2> QED
    BY <2>1, <2>2
<1>11. \A i \in 1 .. m : f[i] <= w
  <2> TAKE i \in 1 .. m
  <2>1. CASE i = m
    BY <2>1, <1>10
  <2>2. CASE i # m
    <3>1. i \in 1 .. (m - 1) /\ i \in 1 .. n
      BY <2>2, <1>7
    <3>2. PICK x \in Nat : x = f[i]
      BY <3>1, <1>3a
    <3>3. x <= u
      BY <3>1, <3>2, <1>8
    <3>4. x <= w
      BY ONLY <3>3, <1>10, x \in Nat, u \in Nat, w \in Nat
    <3> QED
      BY <3>2, <3>4
  <2> QED
    BY <2>1, <2>2
<1> QED
  BY <1>5, <1>10, <1>11

LEMMA MaxIs ==
  ASSUME NEW S, S \subseteq Nat, IsFiniteSet(S), S # {}
  PROVE  Max(S) \in S /\ \A y \in S : Max(S) >= y
<1> DEFINE bounds == {u \in Nat : \A y \in S : y <= u}
<1>1. PICK u \in bounds : \A w \in bounds : u <= w
  <2>1. bounds \subseteq Nat /\ bounds # {}
    BY FiniteIsBounded
  <2> HIDE DEF bounds
  <2> QED
    BY <2>1, Smallest
<1>2. u \in S
  <2>1. SUFFICES ASSUME u \notin S PROVE FALSE
    OBVIOUS
  <2>2. \A y \in S : y \in Nat /\ y < u
    BY <1>1, <2>1
  <2>3. u \in Nat /\ u # 0 /\ u - 1 \in Nat
    <3>1. u \in Nat
      BY <1>1
    <3>2. PICK y \in S : TRUE
      OBVIOUS
    <3>3. y \in Nat /\ y < u
      BY <2>2
    <3> QED
      BY <3>1, <3>3
  <2>4. \A y \in S : y <= u - 1
    BY <2>2, <2>3
  <2>5. u - 1 \in bounds /\ ~(u <= u - 1)
    BY <2>3, <2>4
  <2> QED
    BY <1>1, <2>5
<1>3. \A y \in S : u >= y
  BY <1>1
<1> QED
  BY <1>2, <1>3 DEF Max

(* f is what one gets from base by taking the steps one after the other. *)
Iterates(f, X, base, n, step) ==
  f \in [0 .. n -> X] /\ f[0] = base /\ \A i \in 1 .. n : f[i] = step[i][f[i - 1]]

(* Taking steps one after the other defines a function, whose values are in X. *)
LEMMA Recursion ==
  ASSUME NEW X, NEW base \in X, NEW n \in Nat, NEW step \in [1 .. n -> [X -> X]]
  PROVE  \E f : Iterates(f, X, base, n, step)
<1> DEFINE From(f, m) == f[0] = base /\ \A i \in 1 .. m : f[i] = step[i][f[i - 1]]
<1> DEFINE bad == {m \in 0 .. n : ~\E f \in [0 .. m -> X] : From(f, m)}
<1> SUFFICES ASSUME ~\E f \in [0 .. n -> X] : From(f, n) PROVE FALSE
  BY DEF Iterates
<1>1. n \in bad
  OBVIOUS
<1>2. PICK m \in bad : \A l \in bad : m <= l
  <2>1. bad \subseteq Nat
    OBVIOUS
  <2> HIDE DEF bad
  <2> QED
    BY <1>1, <2>1, Smallest
<1>3. CASE m = 0
  <2>1. [i \in 0 .. 0 |-> base] \in [0 .. 0 -> X]
    OBVIOUS
  <2>2. From([i \in 0 .. 0 |-> base], 0)
    OBVIOUS
  <2> QED
    BY <1>3, <2>1, <2>2
<1>4. CASE m # 0
  <2>1. m \in 1 .. n /\ m - 1 \in 0 .. n /\ m - 1 \notin bad
    <3>1. m \in Nat /\ m # 0 /\ m <= n
      BY <1>4
    <3>2. m \in 1 .. n /\ m - 1 \in 0 .. n /\ ~(m <= m - 1)
      BY <3>1
    <3> HIDE DEF bad
    <3> QED
      BY <1>2, <3>2
  <2>2. PICK f \in [0 .. (m - 1) -> X] : From(f, m - 1)
    BY <2>1
  <2> DEFINE g == [i \in 0 .. m |-> IF i = m THEN step[m][f[m - 1]] ELSE f[i]]
  <2>3. g \in [0 .. m -> X]
    BY <2>1, <2>2
  <2>4. \A i \in 0 .. (m - 1) : g[i] = f[i]
    BY <2>1
  <2>5. g[m] = step[m][f[m - 1]]
    BY <2>1
  <2> HIDE DEF g
  <2>6. From(g, m)
    BY <2>1, <2>2, <2>4, <2>5
  <2> QED
    BY <2>3, <2>6
<1> QED
  BY <1>3, <1>4

(* The bounds on the sizes bound what the mutators make, and the seeds. *)
LEMMA Sizes ==
  /\ LongestArray \in Nat /\ MaxArrayLength <= LongestArray
  /\ MostArguments \in Nat /\ MaxArguments <= MostArguments /\ GeneratedArguments <= MostArguments
  /\ \A s \in Seeds : \A a \in DOMAIN s.heap : Len(s.heap[a]) <= LongestArray
  /\ \A s \in Seeds : \A i \in DOMAIN s.calls : Len(s.calls[i].args) <= MostArguments
<1> DEFINE arrays(s) == {Len(s.heap[a]) : a \in DOMAIN s.heap}
           args(s) == {Len(s.calls[i].args) : i \in DOMAIN s.calls}
           A == {arrays(s) : s \in Seeds}
           G == {args(s) : s \in Seeds}
<1>1. ASSUME NEW s \in Seeds PROVE IsFiniteSet(arrays(s)) /\ arrays(s) \subseteq Nat
  <2>1. s.heap \in [DOMAIN s.heap -> Seq(Value)] /\ DOMAIN s.heap \in SUBSET Arrays
    BY SeedsAssumption DEF TestCase
  <2>2. IsFiniteSet(DOMAIN s.heap)
    BY <2>1, ReferencesAssumption, FS_Subset
  <2> DEFINE f == [a \in DOMAIN s.heap |-> Len(s.heap[a])]
  <2>3. f \in Surjection(DOMAIN s.heap, arrays(s))
    BY DEF Surjection
  <2>4. IsFiniteSet(arrays(s))
    <3> HIDE DEF f, arrays
    <3> QED
      BY <2>2, <2>3, FS_Surjection
  <2>5. \A a \in DOMAIN s.heap : Len(s.heap[a]) \in Nat
    BY <2>1
  <2> QED
    BY <2>4, <2>5
<1>2. ASSUME NEW s \in Seeds PROVE IsFiniteSet(args(s)) /\ args(s) \subseteq Nat
  <2>1. s.calls \in Seq(Call)
    BY SeedsAssumption DEF TestCase
  <2>2. Len(s.calls) \in Nat /\ DOMAIN s.calls = 1 .. Len(s.calls)
    BY <2>1
  <2>3. IsFiniteSet(DOMAIN s.calls)
    <3>1. PICK n \in Int : n = Len(s.calls)
      BY <2>2
    <3>2. 1 \in Int
      OBVIOUS
    <3>3. IsFiniteSet(1 .. n)
      BY <3>2, FS_Interval
    <3> QED
      BY <2>2, <3>1, <3>3
  <2> DEFINE f == [i \in DOMAIN s.calls |-> Len(s.calls[i].args)]
  <2>4. f \in Surjection(DOMAIN s.calls, args(s))
    BY DEF Surjection
  <2>5. IsFiniteSet(args(s))
    <3> HIDE DEF f, args
    <3> QED
      BY <2>3, <2>4, FS_Surjection
  <2>6. \A i \in DOMAIN s.calls : Len(s.calls[i].args) \in Nat
    <3> TAKE i \in DOMAIN s.calls
    <3>1. s.calls[i] \in Call
      BY <2>1, <2>2
    <3> QED
      BY <3>1 DEF Call
  <2> QED
    BY <2>5, <2>6
<1>3. IsFiniteSet(A) /\ IsFiniteSet(G)
  <2> DEFINE f == [s \in Seeds |-> arrays(s)]
             g == [s \in Seeds |-> args(s)]
  <2>1. f \in Surjection(Seeds, A) /\ g \in Surjection(Seeds, G)
    <3> HIDE DEF arrays, args
    <3> QED
      BY DEF Surjection
  <2> HIDE DEF f, g, A, G
  <2> QED
    BY <2>1, SeedsAssumption, FS_Surjection
<1>4. IsFiniteSet(UNION A) /\ IsFiniteSet(UNION G) /\ UNION A \subseteq Nat /\ UNION G \subseteq Nat
  <2>1. \A T \in A : IsFiniteSet(T) /\ T \subseteq Nat
    BY <1>1
  <2>2. \A T \in G : IsFiniteSet(T) /\ T \subseteq Nat
    BY <1>2
  <2> HIDE DEF A, G
  <2>3. IsFiniteSet(UNION A) /\ IsFiniteSet(UNION G)
    BY <1>3, <2>1, <2>2, FS_UNION
  <2> QED
    BY <2>1, <2>2, <2>3
<1> DEFINE LA == {MaxArrayLength} \cup UNION A
           MA == {MaxArguments, GeneratedArguments} \cup UNION G
<1>5. IsFiniteSet(LA) /\ LA \subseteq Nat /\ LA # {} /\ IsFiniteSet(MA) /\ MA \subseteq Nat /\ MA # {}
  <2>1. IsFiniteSet({MaxArrayLength}) /\ IsFiniteSet({MaxArguments, GeneratedArguments})
    <3>1. IsFiniteSet({MaxArrayLength}) /\ IsFiniteSet({MaxArguments})
      BY FS_Singleton
    <3>2. IsFiniteSet({MaxArguments} \cup {GeneratedArguments})
      BY <3>1, FS_AddElement
    <3>3. {MaxArguments} \cup {GeneratedArguments} = {MaxArguments, GeneratedArguments}
      OBVIOUS
    <3> QED
      BY <3>1, <3>2, <3>3
  <2> HIDE DEF A, G
  <2>2. IsFiniteSet(LA) /\ IsFiniteSet(MA)
    BY <2>1, <1>4, FS_Union
  <2> QED
    BY <2>2, <1>4, SizesAssumption
<1>6. LongestArray = Max(LA) /\ MostArguments = Max(MA)
  BY DEF LongestArray, MostArguments
<1>7. /\ Max(LA) \in LA /\ \A y \in LA : Max(LA) >= y
      /\ Max(MA) \in MA /\ \A y \in MA : Max(MA) >= y
  <2> HIDE DEF LA, MA
  <2> QED
    BY <1>5, MaxIs
<1>8. \A s \in Seeds : arrays(s) \subseteq LA /\ args(s) \subseteq MA
  OBVIOUS
<1>9. MaxArrayLength \in LA /\ MaxArguments \in MA /\ GeneratedArguments \in MA
  OBVIOUS
<1>10. /\ \A s \in Seeds : \A a \in DOMAIN s.heap : Len(s.heap[a]) \in arrays(s)
       /\ \A s \in Seeds : \A i \in DOMAIN s.calls : Len(s.calls[i].args) \in args(s)
  OBVIOUS
<1> HIDE DEF LA, MA, arrays, args
<1>11. \A y \in LA : y \in Nat /\ y <= LongestArray
  BY <1>5, <1>6, <1>7
<1>12. \A y \in MA : y \in Nat /\ y <= MostArguments
  BY <1>5, <1>6, <1>7
<1>13. LongestArray \in Nat /\ MostArguments \in Nat
  BY <1>5, <1>6, <1>7
<1> QED
  BY <1>8, <1>9, <1>10, <1>11, <1>12, <1>13

-----------------------------------------------------------------------------
(* The places of arrays. *)

(* The operands of a call, `this` at 0, and the sequences that hold values: a
   call's operands and an array's elements. *)
Operands(c) == [k \in {0} \cup DOMAIN c.args |-> IF k = 0 THEN c.this ELSE c.args[k]]
Store(cs, h) == [x \in DOMAIN cs \cup DOMAIN h |-> IF x \in DOMAIN h THEN h[x] ELSE Operands(cs[x])]

(* at[a] is the one place of array a in the sequences m[x] with x in X. *)
Placed(m, X, at) ==
  \A x \in X : \A k \in DOMAIN m[x] : m[x][k] \in Arrays => at[m[x][k]] = <<x, k>>

OnePlace(cs, h) == \E at : Placed(Store(cs, h), DOMAIN cs \cup DOMAIN h, at)

(* The arrays that h does not have are those of the trees whose roots are in s;
   the place of a root is <<NoThis, n>>. *)
Sprouted(h, g, s) ==
  /\ \A a \in DOMAIN g \ DOMAIN h : Range(g[a]) \cap Arrays \subseteq DOMAIN g \ DOMAIN h
  /\ \E at : /\ Placed(g, DOMAIN g \ DOMAIN h, at)
             /\ \A n \in DOMAIN s :
                  s[n] \in Arrays => s[n] \in DOMAIN g \ DOMAIN h /\ at[s[n]] = <<NoThis, n>>

-----------------------------------------------------------------------------
(* What is generated. *)

(* The heap grows by arrays that hold new arrays only, and none in a cycle. *)
Planted(h, g) ==
  /\ IsHeap(g) /\ Grows(h, g)
  /\ \A a \in DOMAIN g \ DOMAIN h :
       /\ Len(g[a]) <= LongestArray
       /\ Range(g[a]) \cap Arrays \subseteq DOMAIN g \ DOMAIN h
       /\ \E D \in SUBSET (DOMAIN g \ DOMAIN h) :
            Closed(g, D) /\ Range(g[a]) \cap DOMAIN g \subseteq D /\ a \notin D

(* A value that call i may use, made of new arrays. *)
Backed(h, g, v, i) ==
  \E C \in SUBSET (DOMAIN g \ DOMAIN h) : Backing(g, C, i) /\ v \in Leaf(i) \cup C

LEMMA LeafIsValue ==
  ASSUME NEW i \in Position
  PROVE  Leaf(i) \subseteq Value /\ Leaf(i) \cap Arrays = {}
  BY ReferencesAssumption, SizesAssumption DEF Leaf, Value, Position

LEMMA BackedIsValue ==
  ASSUME NEW h, NEW g, NEW v, NEW i \in Position, IsHeap(g), Backed(h, g, v, i)
  PROVE  v \in Value /\ (v \in Arrays => v \in DOMAIN g \ DOMAIN h)
  BY LeafIsValue DEF Backed, IsHeap, Value

LEMMA GrowsTrans ==
  ASSUME NEW f, NEW g, NEW h, Grows(f, g), Grows(g, h)
  PROVE  Grows(f, h)
  BY DEF Grows

LEMMA PlantedNothing ==
  ASSUME NEW h, IsHeap(h)
  PROVE  Planted(h, h)
  BY DEF Planted, Grows

LEMMA PlantedTrans ==
  ASSUME NEW f, NEW g, NEW h, Planted(f, g), Planted(g, h)
  PROVE  Planted(f, h)
<1>1. IsHeap(h) /\ IsHeap(g) /\ Grows(f, h) /\ Grows(f, g) /\ Grows(g, h)
  BY GrowsTrans DEF Planted
<1>2. ASSUME NEW a \in DOMAIN h \ DOMAIN f
      PROVE  /\ Len(h[a]) <= LongestArray
             /\ Range(h[a]) \cap Arrays \subseteq DOMAIN h \ DOMAIN f
             /\ \E D \in SUBSET (DOMAIN h \ DOMAIN f) :
                  Closed(h, D) /\ Range(h[a]) \cap DOMAIN h \subseteq D /\ a \notin D
  <2>1. CASE a \in DOMAIN g
    <3>1. h[a] = g[a]
      BY <1>1, <2>1 DEF Grows
    <3>2. PICK D \in SUBSET (DOMAIN g \ DOMAIN f) :
            Closed(g, D) /\ Range(g[a]) \cap DOMAIN g \subseteq D /\ a \notin D
      BY <2>1 DEF Planted
    <3>3. Range(h[a]) \cap DOMAIN h \subseteq D
      BY <2>1, <3>1, <3>2, <1>1 DEF Planted, IsHeap
    <3>4. Closed(h, D)
      <4> SUFFICES ASSUME NEW b \in D PROVE Range(h[b]) \cap DOMAIN h \subseteq D
        BY <3>2, <1>1 DEF Closed, Grows
      <4>1. b \in DOMAIN g /\ b \notin DOMAIN f /\ h[b] = g[b]
        BY <1>1 DEF Grows
      <4>2. Range(g[b]) \cap Arrays \subseteq DOMAIN g
        BY <4>1 DEF Planted
      <4> QED
        BY <4>1, <4>2, <3>2, <1>1 DEF Closed, IsHeap
    <3>5. D \in SUBSET (DOMAIN h \ DOMAIN f)
      BY <1>1 DEF Grows
    <3> QED
      BY <2>1, <3>1, <3>2, <3>3, <3>4, <3>5, <1>1 DEF Planted, Grows
  <2>2. CASE a \notin DOMAIN g
    <3>1. PICK D \in SUBSET (DOMAIN h \ DOMAIN g) :
            Closed(h, D) /\ Range(h[a]) \cap DOMAIN h \subseteq D /\ a \notin D
      BY <2>2 DEF Planted
    <3>2. D \in SUBSET (DOMAIN h \ DOMAIN f)
      BY <1>1 DEF Grows
    <3> QED
      BY <2>2, <3>1, <3>2, <1>1 DEF Planted, Grows
  <2> QED
    BY <2>1, <2>2
<1> QED
  BY <1>1, <1>2 DEF Planted

LEMMA BackedLater ==
  ASSUME NEW f, NEW g, NEW h, NEW v, NEW i, Backed(f, g, v, i), Grows(g, h)
  PROVE  Backed(f, h, v, i)
<1>1. PICK C \in SUBSET (DOMAIN g \ DOMAIN f) : Backing(g, C, i) /\ v \in Leaf(i) \cup C
  BY DEF Backed
<1>2. C \in SUBSET (DOMAIN h \ DOMAIN f) /\ Backing(h, C, i)
  BY <1>1 DEF Backing, Grows
<1> QED
  BY <1>1, <1>2 DEF Backed

LEMMA BackedEarlier ==
  ASSUME NEW f, NEW g, NEW h, NEW v, NEW i, Grows(f, g), Backed(g, h, v, i)
  PROVE  Backed(f, h, v, i)
<1>1. PICK C \in SUBSET (DOMAIN h \ DOMAIN g) : Backing(h, C, i) /\ v \in Leaf(i) \cup C
  BY DEF Backed
<1>2. C \in SUBSET (DOMAIN h \ DOMAIN f)
  BY <1>1 DEF Grows
<1> QED
  BY <1>1, <1>2 DEF Backed

LEMMA ExtendIs ==
  ASSUME NEW h, NEW new, DOMAIN h \cap DOMAIN new = {}
  PROVE  /\ DOMAIN Extend(h, new) = DOMAIN h \cup DOMAIN new
         /\ Grows(h, Extend(h, new))
         /\ \A a \in DOMAIN new : Extend(h, new)[a] = new[a]
  BY DEF Extend, Grows

LEMMA ExtendIsHeap ==
  ASSUME NEW h, IsHeap(h), NEW new, IsHeap(new)
  PROVE  IsHeap(Extend(h, new))
  BY DEF Extend, IsHeap

LEMMA TreesPlanted ==
  ASSUME NEW h, IsHeap(h), NEW i \in Position, NEW n \in Nat, n >= 1, n <= Room(h),
         NEW new, new = Fresh(h, n), NEW c \in GeneratedTrees(i, new)
  PROVE  Planted(h, Extend(h, c)) /\ Backed(h, Extend(h, c), new[1], i)
<1>1. /\ new \in [1 .. n -> Arrays \ DOMAIN h]
      /\ \A x, y \in 1 .. n : new[x] = new[y] => x = y
  BY FreshIs
<1>2. Len(new) = n /\ DOMAIN new = 1 .. n /\ Range(new) = {new[x] : x \in 1 .. n}
  BY <1>1 DEF Range
<1>3. /\ c \in [Range(new) -> BoundedSeq(Leaf(i) \cup Range(new), MaxArrayLength)]
      /\ \E level \in [1 .. n -> 1 .. (MaxDepth - 1)] :
           /\ level[1] = 1
           /\ \A x, y \in 1 .. n : new[y] \in Range(c[new[x]]) => y > x /\ level[y] = level[x] + 1
  <2>1. c \in [Range(new) -> BoundedSeq(Leaf(i) \cup Range(new), MaxArrayLength)]
    BY DEF GeneratedTrees
  <2>2. PICK level \in [1 .. Len(new) -> 1 .. (MaxDepth - 1)] :
          /\ level[1] = 1
          /\ \A x, y \in 1 .. Len(new) :
               new[y] \in Range(c[new[x]]) => y > x /\ level[y] = level[x] + 1
    BY DEF GeneratedTrees
  <2>3. level \in [1 .. n -> 1 .. (MaxDepth - 1)] /\ level[1] = 1
    BY ONLY <1>2, <2>2
  <2>4. \A x, y \in 1 .. n : new[y] \in Range(c[new[x]]) => y > x /\ level[y] = level[x] + 1
    BY ONLY <1>2, <2>2
  <2> QED
    BY ONLY <2>1, <2>3, <2>4
<1>4. DOMAIN c = Range(new) /\ Range(new) \subseteq Arrays \ DOMAIN h
  BY <1>1, <1>2, <1>3
<1>5. ASSUME NEW a \in Range(new)
      PROVE  c[a] \in Seq(Value) /\ Range(c[a]) \subseteq Leaf(i) \cup Range(new) /\ Len(c[a]) <= LongestArray
  <2>1. c[a] \in BoundedSeq(Leaf(i) \cup Range(new), MaxArrayLength)
    BY <1>3
  <2>2. PICK m \in 0 .. MaxArrayLength : c[a] \in [1 .. m -> Leaf(i) \cup Range(new)]
    BY <2>1 DEF BoundedSeq, SeqOf
  <2>3. Leaf(i) \cup Range(new) \subseteq Value
    BY <1>4, LeafIsValue DEF Value
  <2>4. m \in Nat /\ m <= MaxArrayLength
    BY <2>2, SizesAssumption
  <2>5. c[a] \in [1 .. m -> Value]
    BY <2>2, <2>3
  <2>6. c[a] \in Seq(Value) /\ Len(c[a]) = m
    BY <2>4, <2>5
  <2>7. Range(c[a]) \subseteq Leaf(i) \cup Range(new)
    BY <2>2 DEF Range
  <2> QED
    BY <2>4, <2>6, <2>7, Sizes, SizesAssumption
<1> DEFINE g == Extend(h, c)
<1>6. IsHeap(g)
  <2>1. IsHeap(c)
    BY <1>3, <1>4, <1>5 DEF IsHeap
  <2> QED
    BY <2>1, ExtendIsHeap
<1>7. DOMAIN g = DOMAIN h \cup Range(new) /\ Grows(h, g) /\ \A a \in Range(new) : g[a] = c[a]
  <2>1. DOMAIN h \cap DOMAIN c = {}
    BY <1>4
  <2>2. /\ DOMAIN Extend(h, c) = DOMAIN h \cup DOMAIN c
        /\ Grows(h, Extend(h, c))
        /\ \A a \in DOMAIN c : Extend(h, c)[a] = c[a]
    BY <2>1, ExtendIs
  <2> QED
    BY <1>4, <2>2
<1>8. DOMAIN g \ DOMAIN h = Range(new)
  BY <1>4, <1>7
<1> HIDE DEF g
<1>9. \A a \in Range(new) : Len(g[a]) <= LongestArray /\ Range(g[a]) \cap Arrays \subseteq Range(new)
  BY <1>5, <1>7, LeafIsValue
<1>10. ASSUME NEW a \in Range(new)
       PROVE  \E D \in SUBSET Range(new) :
                Closed(g, D) /\ Range(g[a]) \cap DOMAIN g \subseteq D /\ a \notin D
  <2>1. PICK x \in 1 .. n : a = new[x]
    BY <1>2
  <2> DEFINE D == {new[y] : y \in {z \in 1 .. n : z > x}}
  <2>2. D \in SUBSET Range(new)
    BY <1>2
  <2>3. a \notin D
    BY <2>1, <1>1
  <2>4. \A y \in 1 .. n : y >= x => Range(g[new[y]]) \cap DOMAIN g \subseteq D
    <3> SUFFICES ASSUME NEW y \in 1 .. n, y >= x, NEW b \in Range(g[new[y]]) \cap DOMAIN g
                 PROVE  b \in D
      OBVIOUS
    <3>1. new[y] \in Range(new)
      BY <1>2
    <3>2. b \in Range(new) /\ b \in Range(c[new[y]])
      BY <3>1, <1>7, <1>9, <1>6 DEF IsHeap
    <3>3. PICK z \in 1 .. n : b = new[z]
      BY <3>2, <1>2
    <3>4. z > y
      BY <3>2, <3>3, <1>3
    <3>5. z > x
      BY <3>4
    <3> QED
      BY <3>3, <3>5
  <2>5. Closed(g, D)
    BY <2>2, <2>4, <1>7 DEF Closed
  <2> QED
    BY <2>1, <2>2, <2>3, <2>4, <2>5
<1>11. Planted(h, g)
  BY <1>6, <1>7, <1>8, <1>9, <1>10 DEF Planted
<1>12. Backed(h, g, new[1], i)
  <2>1. Backing(g, Range(new), i)
    BY <1>5, <1>7 DEF Backing
  <2>2. new[1] \in Range(new)
    BY <1>2
  <2> QED
    BY <2>1, <2>2, <1>8 DEF Backed
<1> QED
  BY <1>11, <1>12 DEF g

LEMMA GeneratedValue ==
  ASSUME NEW h, IsHeap(h), NEW i \in Position, NEW r \in GenerateValue(h, i)
  PROVE  Planted(h, r.heap) /\ Backed(h, r.heap, r.value, i)
<1>1. CASE \E v \in Leaf(i) : r = [value |-> v, heap |-> h]
  <2>1. PICK v \in Leaf(i) : r = [value |-> v, heap |-> h]
    BY <1>1
  <2>2. r.value \in Leaf(i) /\ r.heap = h
    BY <2>1
  <2>3. Backed(h, h, r.value, i)
    <3>1. Backing(h, {}, i) /\ {} \in SUBSET (DOMAIN h \ DOMAIN h)
      BY DEF Backing
    <3>2. r.value \in Leaf(i) \cup {}
      BY <2>2
    <3> QED
      BY <3>1, <3>2 DEF Backed
  <2> QED
    BY <2>2, <2>3, PlantedNothing
<1>2. CASE \E n \in {m \in 1 .. MaxTree : m <= Room(h)} : \E c \in GeneratedTrees(i, Fresh(h, n)) :
             r = [value |-> Fresh(h, n)[1], heap |-> Extend(h, c)]
  <2>0. PICK n \in {m \in 1 .. MaxTree : m <= Room(h)} : \E c \in GeneratedTrees(i, Fresh(h, n)) :
          r = [value |-> Fresh(h, n)[1], heap |-> Extend(h, c)]
    BY <1>2
  <2>n. PICK new : new = Fresh(h, n)
    OBVIOUS
  <2>1. PICK c \in GeneratedTrees(i, new) : r = [value |-> new[1], heap |-> Extend(h, c)]
    BY <2>0, <2>n
  <2>2. n \in Nat /\ n >= 1 /\ n <= Room(h) /\ r.value = new[1] /\ r.heap = Extend(h, c)
    BY <2>1, SizesAssumption
  <2> QED
    BY <2>1, <2>2, <2>n, TreesPlanted
<1> QED
  BY <1>1, <1>2 DEF GenerateValue

(* Each array of a generated tree has one place, and its root none in the tree. *)
LEMMA TreesSprout ==
  ASSUME NEW h, IsHeap(h), NEW i \in Position, NEW n \in Nat, n >= 1, n <= Room(h),
         NEW new, new = Fresh(h, n), NEW c \in GeneratedTrees(i, new)
  PROVE  Sprouted(h, Extend(h, c), <<new[1]>>)
<1>1. /\ new \in [1 .. n -> Arrays \ DOMAIN h]
      /\ \A x, y \in 1 .. n : new[x] = new[y] => x = y
  BY FreshIs
<1>2. Len(new) = n /\ DOMAIN new = 1 .. n /\ Range(new) = {new[x] : x \in 1 .. n}
  BY <1>1 DEF Range
<1> DEFINE P(x) == {s \in (1 .. n) \X (1 .. MaxArrayLength) :
                      s[2] <= Len(c[new[s[1]]]) /\ c[new[s[1]]][s[2]] = new[x]}
<1>3. /\ c \in [Range(new) -> BoundedSeq(Leaf(i) \cup Range(new), MaxArrayLength)]
      /\ \A x \in 1 .. n : Cardinality(P(x)) = (IF x = 1 THEN 0 ELSE 1)
  <2>1. c \in [Range(new) -> BoundedSeq(Leaf(i) \cup Range(new), MaxArrayLength)]
    BY DEF GeneratedTrees
  <2>2. \A x \in 1 .. Len(new) :
              Cardinality({s \in (1 .. Len(new)) \X (1 .. MaxArrayLength) :
                             /\ s[2] <= Len(c[new[s[1]]])
                             /\ c[new[s[1]]][s[2]] = new[x]}) = (IF x = 1 THEN 0 ELSE 1)
    BY DEF GeneratedTrees
  <2> QED
    BY ONLY <1>2, <2>1, <2>2
<1>4. DOMAIN c = Range(new) /\ Range(new) \subseteq Arrays \ DOMAIN h
  BY <1>1, <1>2, <1>3
<1>5. ASSUME NEW a \in Range(new)
      PROVE  /\ Range(c[a]) \subseteq Leaf(i) \cup Range(new)
             /\ \A l \in DOMAIN c[a] : l \in 1 .. MaxArrayLength /\ l <= Len(c[a])
  <2>1. c[a] \in BoundedSeq(Leaf(i) \cup Range(new), MaxArrayLength)
    BY <1>3
  <2>2. PICK m \in 0 .. MaxArrayLength : c[a] \in [1 .. m -> Leaf(i) \cup Range(new)]
    BY <2>1 DEF BoundedSeq, SeqOf
  <2>3. Range(c[a]) \subseteq Leaf(i) \cup Range(new)
    BY <2>2 DEF Range
  <2>4. m \in Nat /\ m <= MaxArrayLength /\ MaxArrayLength \in Nat
    BY <2>2, SizesAssumption
  <2>5. DOMAIN c[a] = 1 .. m /\ Len(c[a]) = m
    BY <2>2, <2>4
  <2> QED
    BY <2>3, <2>4, <2>5
<1> DEFINE g == Extend(h, c)
<1>6. DOMAIN g \ DOMAIN h = Range(new) /\ \A a \in Range(new) : g[a] = c[a]
  <2>1. DOMAIN h \cap DOMAIN c = {}
    BY <1>4
  <2>2. /\ DOMAIN Extend(h, c) = DOMAIN h \cup DOMAIN c
        /\ \A a \in DOMAIN c : Extend(h, c)[a] = c[a]
    BY <2>1, ExtendIs
  <2> QED
    BY <1>4, <2>2
<1> HIDE DEF g
<1>7. \A a \in Range(new) : Range(g[a]) \cap Arrays \subseteq Range(new)
  BY <1>5, <1>6, LeafIsValue
<1>8. \A x \in 1 .. n : \A s, t \in P(x) : x # 1 /\ s = t
  <2> SUFFICES ASSUME NEW x \in 1 .. n, NEW s \in P(x), NEW t \in P(x) PROVE x # 1 /\ s = t
    OBVIOUS
  <2>1. IsFiniteSet((1 .. n) \X (1 .. MaxArrayLength))
    <3>1. IsFiniteSet(1 .. n) /\ IsFiniteSet(1 .. MaxArrayLength)
      <4>1. n \in Int /\ 1 \in Int /\ MaxArrayLength \in Int
        BY SizesAssumption
      <4> QED
        BY <4>1, FS_Interval
    <3> QED
      BY <3>1, FS_Product
  <2>2. PICK S : S = P(x)
    OBVIOUS
  <2>3. S \in SUBSET ((1 .. n) \X (1 .. MaxArrayLength))
    BY <2>2
  <2>4. IsFiniteSet(S)
    BY <2>1, <2>3, FS_Subset
  <2>5. Cardinality(S) = (IF x = 1 THEN 0 ELSE 1)
    BY <1>3, <2>2
  <2>6. s \in S /\ t \in S
    BY <2>2
  <2>7. x # 1
    BY <2>4, <2>5, <2>6, FS_EmptySet
  <2>8. \E e : S = {e}
    BY <2>4, <2>5, <2>7, FS_Singleton
  <2> QED
    BY <2>6, <2>7, <2>8
<1> DEFINE IsAt(t, a) == \E y \in 1 .. n : \E l \in DOMAIN c[new[y]] : t = <<new[y], l>> /\ c[new[y]][l] = a
           at == [a \in Arrays |-> IF a = new[1] THEN <<NoThis, 1>> ELSE CHOOSE t : IsAt(t, a)]
<1>9. ASSUME NEW y \in 1 .. n, NEW l \in DOMAIN c[new[y]], c[new[y]][l] \in Arrays
      PROVE  at[c[new[y]][l]] = <<new[y], l>>
  <2>1. new[y] \in Range(new)
    BY <1>2
  <2>2. c[new[y]][l] \in Range(new)
    <3>1. c[new[y]][l] \in Range(c[new[y]])
      BY DEF Range
    <3> QED
      BY <1>5, <1>9, <2>1, <3>1, LeafIsValue
  <2>3. PICK x \in 1 .. n : c[new[y]][l] = new[x]
    BY <1>2, <2>2
  <2>4. \A z \in 1 .. n : \A k \in DOMAIN c[new[z]] : c[new[z]][k] = new[x] => <<z, k>> \in P(x)
    <3> TAKE z \in 1 .. n
    <3> TAKE k \in DOMAIN c[new[z]]
    <3>1. k \in 1 .. MaxArrayLength /\ k <= Len(c[new[z]])
      BY <1>2, <1>5
    <3> QED
      BY <3>1
  <2>5. x # 1 /\ \A z \in 1 .. n : \A k \in DOMAIN c[new[z]] : c[new[z]][k] = new[x] => <<z, k>> = <<y, l>>
    <3> HIDE DEF P
    <3> QED
      BY <1>8, <2>3, <2>4
  <2>6. \A t : IsAt(t, new[x]) => t = <<new[y], l>>
    BY <2>5
  <2>7. IsAt(<<new[y], l>>, new[x])
    BY <2>3
  <2>8. 1 \in 1 .. n
    OBVIOUS
  <2>9. new[x] # new[1] /\ new[x] \in Arrays
    BY <1>1, <2>5, <2>8
  <2>10. (CHOOSE t : IsAt(t, new[x])) = <<new[y], l>>
    <3> HIDE DEF IsAt
    <3> QED
      BY <2>6, <2>7
  <2> HIDE DEF IsAt
  <2> QED
    BY <2>3, <2>9, <2>10
<1>10. PICK p : p = at
  OBVIOUS
<1>11. Placed(g, DOMAIN g \ DOMAIN h, p)
  <2> SUFFICES ASSUME NEW a \in Range(new), NEW k \in DOMAIN c[a], c[a][k] \in Arrays PROVE p[c[a][k]] = <<a, k>>
    BY <1>6 DEF Placed
  <2>1. PICK y \in 1 .. n : a = new[y]
    BY <1>2
  <2> HIDE DEF at
  <2> QED
    BY <1>9, <1>10, <2>1
<1>12. new[1] \in Arrays /\ new[1] \in Range(new) /\ p[new[1]] = <<NoThis, 1>>
  <2>1. new[1] \in Range(new)
    BY <1>2
  <2> HIDE DEF IsAt
  <2> QED
    BY <1>4, <1>10, <2>1
<1>13. PICK s : s = <<new[1]>>
  OBVIOUS
<1>14. DOMAIN s = {1} /\ s[1] = new[1]
  BY <1>13
<1>15. Sprouted(h, g, s)
  BY <1>6, <1>7, <1>11, <1>12, <1>14 DEF Sprouted
<1> QED
  BY <1>13, <1>15 DEF g

LEMMA ValueSprouts ==
  ASSUME NEW h, IsHeap(h), NEW i \in Position, NEW r \in GenerateValue(h, i)
  PROVE  Sprouted(h, r.heap, <<r.value>>)
<1>1. CASE \E v \in Leaf(i) : r = [value |-> v, heap |-> h]
  <2>1. PICK v \in Leaf(i) : r = [value |-> v, heap |-> h]
    BY <1>1
  <2>2. PICK s : s = <<v>>
    OBVIOUS
  <2>3. DOMAIN s = {1} /\ s[1] \notin Arrays
    BY <2>2, LeafIsValue
  <2>4. Sprouted(h, h, s)
    BY <2>3 DEF Sprouted, Placed
  <2> QED
    BY <2>1, <2>2, <2>4
<1>2. CASE \E n \in {m \in 1 .. MaxTree : m <= Room(h)} : \E c \in GeneratedTrees(i, Fresh(h, n)) :
             r = [value |-> Fresh(h, n)[1], heap |-> Extend(h, c)]
  <2>0. PICK n \in {m \in 1 .. MaxTree : m <= Room(h)} : \E c \in GeneratedTrees(i, Fresh(h, n)) :
          r = [value |-> Fresh(h, n)[1], heap |-> Extend(h, c)]
    BY <1>2
  <2>n. PICK new : new = Fresh(h, n)
    OBVIOUS
  <2>1. PICK c \in GeneratedTrees(i, new) : r = [value |-> new[1], heap |-> Extend(h, c)]
    BY <2>0, <2>n
  <2>2. n \in Nat /\ n >= 1 /\ n <= Room(h) /\ r.value = new[1] /\ r.heap = Extend(h, c)
    BY <2>1, SizesAssumption
  <2>3. Sprouted(h, Extend(h, c), <<new[1]>>)
    BY <2>1, <2>2, <2>n, TreesSprout
  <2> QED
    BY <2>2, <2>3
<1> QED
  BY <1>1, <1>2 DEF GenerateValue

(* One more tree, beside those that have grown. *)
LEMMA SproutedAppend ==
  ASSUME NEW f, NEW g, NEW h, Grows(f, g), Grows(g, h), DOMAIN h \subseteq Arrays,
         NEW n \in Nat, NEW s, DOMAIN s = 1 .. n, Sprouted(f, g, s), NEW v, Sprouted(g, h, <<v>>),
         NEW t, DOMAIN t = 1 .. (n + 1), \A k \in 1 .. n : t[k] = s[k], t[n + 1] = v
  PROVE  Sprouted(f, h, t)
<1>1. PICK at1 : /\ Placed(g, DOMAIN g \ DOMAIN f, at1)
                 /\ \A k \in 1 .. n :
                      s[k] \in Arrays => s[k] \in DOMAIN g \ DOMAIN f /\ at1[s[k]] = <<NoThis, k>>
  BY DEF Sprouted
<1>2. PICK at2 : /\ Placed(h, DOMAIN h \ DOMAIN g, at2)
                 /\ v \in Arrays => v \in DOMAIN h \ DOMAIN g /\ at2[v] = <<NoThis, 1>>
  <2>1. PICK u : u = <<v>>
    OBVIOUS
  <2>2. DOMAIN u = {1} /\ u[1] = v /\ Sprouted(g, h, u)
    BY <2>1
  <2> QED
    BY <2>2 DEF Sprouted
<1>3. /\ \A a \in DOMAIN g \ DOMAIN f : Range(g[a]) \cap Arrays \subseteq DOMAIN g \ DOMAIN f
      /\ \A a \in DOMAIN h \ DOMAIN g : Range(h[a]) \cap Arrays \subseteq DOMAIN h \ DOMAIN g
      /\ DOMAIN f \subseteq DOMAIN g /\ DOMAIN g \subseteq DOMAIN h /\ \A a \in DOMAIN g : h[a] = g[a]
  BY DEF Sprouted, Grows
<1>4. PICK at : at = [a \in Arrays |-> IF a \in DOMAIN g THEN at1[a]
                                       ELSE IF at2[a] = <<NoThis, 1>> THEN <<NoThis, n + 1>> ELSE at2[a]]
  OBVIOUS
<1>5. Placed(h, DOMAIN h \ DOMAIN f, at)
  <2> SUFFICES ASSUME NEW a \in DOMAIN h \ DOMAIN f, NEW k \in DOMAIN h[a], h[a][k] \in Arrays
               PROVE  at[h[a][k]] = <<a, k>>
    BY DEF Placed
  <2>1. h[a][k] \in Range(h[a])
    BY DEF Range
  <2>2. CASE a \in DOMAIN g
    <3>1. h[a] = g[a] /\ at1[h[a][k]] = <<a, k>>
      BY <1>1, <1>3, <2>2 DEF Placed
    <3>2. h[a][k] \in DOMAIN g
      BY <1>3, <2>1, <2>2, <3>1
    <3> QED
      BY <1>4, <3>1, <3>2
  <2>3. CASE a \notin DOMAIN g
    <3>1. at2[h[a][k]] = <<a, k>> /\ h[a][k] \notin DOMAIN g
      BY <1>2, <1>3, <2>1, <2>3 DEF Placed
    <3>2. a # NoThis
      BY ReferencesAssumption DEF Value
    <3> QED
      BY <1>4, <3>1, <3>2
  <2> QED
    BY <2>2, <2>3
<1>6. ASSUME NEW k \in 1 .. (n + 1), t[k] \in Arrays
      PROVE  t[k] \in DOMAIN h \ DOMAIN f /\ at[t[k]] = <<NoThis, k>>
  <2>1. CASE k = n + 1
    BY <1>2, <1>3, <1>4, <1>6, <2>1
  <2>2. CASE k \in 1 .. n
    BY <1>1, <1>3, <1>4, <1>6, <2>2
  <2> QED
    BY <2>1, <2>2
<1>7. \A a \in DOMAIN h \ DOMAIN f : Range(h[a]) \cap Arrays \subseteq DOMAIN h \ DOMAIN f
  BY <1>3
<1> QED
  BY <1>5, <1>6, <1>7 DEF Sprouted

(* The same trees in an order of their own. *)
LEMMA SproutedShift ==
  ASSUME NEW h, NEW g, DOMAIN g \subseteq Arrays, NEW s, Sprouted(h, g, s), NEW d \in Nat, NEW t,
         DOMAIN t \subseteq Nat,
         \A n \in DOMAIN t : t[n] \in Arrays => n + d \in DOMAIN s /\ t[n] = s[n + d]
  PROVE  Sprouted(h, g, t)
<1>1. PICK at : /\ Placed(g, DOMAIN g \ DOMAIN h, at)
                /\ \A n \in DOMAIN s :
                     s[n] \in Arrays => s[n] \in DOMAIN g \ DOMAIN h /\ at[s[n]] = <<NoThis, n>>
  BY DEF Sprouted
<1>2. PICK to : to = [a \in Arrays |-> IF at[a][1] = NoThis THEN <<NoThis, at[a][2] - d>> ELSE at[a]]
  OBVIOUS
<1>3. Placed(g, DOMAIN g \ DOMAIN h, to)
  <2> SUFFICES ASSUME NEW a \in DOMAIN g \ DOMAIN h, NEW k \in DOMAIN g[a], g[a][k] \in Arrays
               PROVE  to[g[a][k]] = <<a, k>>
    BY DEF Placed
  <2>1. at[g[a][k]] = <<a, k>>
    BY <1>1 DEF Placed
  <2>2. a # NoThis
    BY ReferencesAssumption DEF Value
  <2> QED
    BY <1>2, <2>1, <2>2
<1>4. ASSUME NEW n \in DOMAIN t, t[n] \in Arrays
      PROVE  t[n] \in DOMAIN g \ DOMAIN h /\ to[t[n]] = <<NoThis, n>>
  <2>1. n + d \in DOMAIN s /\ t[n] = s[n + d]
    BY <1>4
  <2>2. t[n] \in DOMAIN g \ DOMAIN h /\ at[t[n]] = <<NoThis, n + d>>
    BY <1>1, <1>4, <2>1
  <2>3. (n + d) - d = n
    OBVIOUS
  <2> QED
    BY <1>2, <1>4, <2>2, <2>3
<1> QED
  BY <1>3, <1>4 DEF Sprouted

Heaps == UNION {[used -> Seq(Value)] : used \in SUBSET Arrays}
Results == [value : Seq(Value), heap : Heaps]

LEMMA HeapsAre ==
  ASSUME NEW h
  PROVE  IsHeap(h) <=> h \in Heaps
  BY DEF IsHeap, Heaps

(* The values a result holds, generated one after the other for the calls of at. *)
Generated(h, at, n, r) ==
  /\ r.value \in Seq(Value) /\ Len(r.value) = n
  /\ Planted(h, r.heap) /\ Sprouted(h, r.heap, r.value)
  /\ \A k \in 1 .. n : Backed(h, r.heap, r.value[k], at[k])

LEMMA GeneratedNext ==
  ASSUME NEW h, IsHeap(h), NEW at, NEW n \in Nat, NEW r, Generated(h, at, n, r), at[n + 1] \in Position,
         NEW g \in GenerateValue(r.heap, at[n + 1])
  PROVE  Generated(h, at, n + 1, [value |-> Append(r.value, g.value), heap |-> g.heap])
<1>0. PICK i \in Position : i = at[n + 1]
  OBVIOUS
<1>1. IsHeap(r.heap) /\ Grows(h, r.heap)
  BY DEF Generated, Planted
<1>2. Planted(r.heap, g.heap) /\ Backed(r.heap, g.heap, g.value, i)
  BY <1>0, <1>1, GeneratedValue
<1>3. Planted(h, g.heap)
  BY <1>2, PlantedTrans DEF Generated
<1>4. Backed(h, g.heap, g.value, i)
  BY <1>1, <1>2, BackedEarlier
<1>5. g.value \in Value
  <2>1. IsHeap(g.heap)
    BY <1>2 DEF Planted
  <2> QED
    BY <1>4, <2>1, BackedIsValue
<1>6. PICK v \in Value : v = g.value
  BY <1>5
<1>7. PICK s \in Seq(Value) : s = r.value
  BY DEF Generated
<1>8. PICK t : t = Append(s, v)
  OBVIOUS
<1>9. t \in Seq(Value) /\ Len(t) = Len(s) + 1 /\ (\A k \in 1 .. Len(s) : t[k] = s[k]) /\ t[Len(s) + 1] = v
  BY ONLY <1>8, s \in Seq(Value), v \in Value
<1>10. Len(s) = n
  BY <1>7 DEF Generated
<1>11. \A k \in 1 .. (n + 1) : Backed(h, g.heap, t[k], at[k])
  <2> TAKE k \in 1 .. (n + 1)
  <2>1. CASE k = n + 1
    <3>1. t[k] = g.value /\ at[k] = i
      BY <2>1, <1>0, <1>6, <1>9, <1>10
    <3> QED
      BY <3>1, <1>4
  <2>2. CASE k \in 1 .. n
    <3>1. t[k] = r.value[k]
      BY <2>2, <1>7, <1>9, <1>10
    <3>2. Backed(h, r.heap, r.value[k], at[k])
      BY <2>2 DEF Generated
    <3>3. Grows(r.heap, g.heap)
      BY <1>2 DEF Planted
    <3>4. Backed(h, g.heap, r.value[k], at[k])
      BY <3>2, <3>3, BackedLater
    <3> QED
      BY <3>1, <3>4
  <2> QED
    BY <2>1, <2>2
<1>12. Append(r.value, g.value) = t
  BY <1>6, <1>7, <1>8
<1>13. Len(t) = n + 1
  BY <1>9, <1>10
<1>16. Sprouted(h, g.heap, t)
  <2>1. Sprouted(r.heap, g.heap, <<v>>)
    BY <1>0, <1>1, <1>6, ValueSprouts
  <2>2. Sprouted(h, r.heap, s) /\ Grows(h, r.heap) /\ Grows(r.heap, g.heap) /\ DOMAIN g.heap \subseteq Arrays
    BY <1>2, <1>7 DEF Generated, Planted, IsHeap
  <2>3. DOMAIN s = 1 .. n /\ DOMAIN t = 1 .. (n + 1)
    BY <1>9, <1>10, <1>13
  <2>4. (\A k \in 1 .. n : t[k] = s[k]) /\ t[n + 1] = v
    BY <1>9, <1>10
  <2> QED
    BY <2>1, <2>2, <2>3, <2>4, SproutedAppend
<1> DEFINE e == [value |-> Append(r.value, g.value), heap |-> g.heap]
<1>14. e.value = t /\ e.heap = g.heap
  BY <1>12
<1> HIDE DEF e
<1>15. Generated(h, at, n + 1, e)
  BY <1>3, <1>9, <1>11, <1>13, <1>14, <1>16 DEF Generated
<1> QED
  BY <1>15 DEF e

LEMMA GeneratedValues ==
  ASSUME NEW h, IsHeap(h), NEW at \in Seq(Position), NEW r \in GenerateValues(h, at)
  PROVE  Generated(h, at, Len(at), r)
<1> DEFINE N == Len(at)
           X == SUBSET Results
           Base == {[value |-> <<>>, heap |-> h]}
           Step(S, n) == UNION {{[value |-> Append(s.value, g.value), heap |-> g.heap] :
                                   g \in GenerateValue(s.heap, at[n])} : s \in S}
           Is(f) == f = [n \in 0 .. N |-> IF n = 0 THEN Base ELSE Step(f[n - 1], n)]
           results == CHOOSE f : Is(f)
           step == [n \in 1 .. N |-> [S \in X |-> Step(S, n)]]
<1>1. N \in Nat /\ \A n \in 1 .. N : at[n] \in Position
  OBVIOUS
<1>2. Base \in X
  BY HeapsAre DEF Results
<1>3. ASSUME NEW n \in 1 .. N, NEW S \in X PROVE Step(S, n) \in X
  <2> SUFFICES \A s \in S : \A g \in GenerateValue(s.heap, at[n]) :
                  [value |-> Append(s.value, g.value), heap |-> g.heap] \in Results
    OBVIOUS
  <2> TAKE s \in S
  <2> TAKE g \in GenerateValue(s.heap, at[n])
  <2>0. s \in Results
    OBVIOUS
  <2>1. s.value \in Seq(Value) /\ IsHeap(s.heap)
    BY <2>0, HeapsAre DEF Results
  <2>2. PICK i \in Position : i = at[n]
    BY <1>1
  <2>3. Planted(s.heap, g.heap) /\ Backed(s.heap, g.heap, g.value, i)
    BY <2>1, <2>2, GeneratedValue
  <2>4. IsHeap(g.heap)
    BY <2>3 DEF Planted
  <2>5. g.value \in Value
    BY <2>3, <2>4, BackedIsValue
  <2>6. Append(s.value, g.value) \in Seq(Value)
    BY <2>1, <2>5
  <2>7. g.heap \in Heaps
    BY <2>4, HeapsAre
  <2> QED
    BY <2>6, <2>7 DEF Results
<1>4. step \in [1 .. N -> [X -> X]]
  <2> HIDE DEF Step, X, N
  <2> QED
    BY <1>3
<1>5. PICK f : Iterates(f, X, Base, N, step)
  <2>1. PICK Y : Y = X
    OBVIOUS
  <2>2. PICK st : st = step
    OBVIOUS
  <2>3. PICK b : b = Base
    OBVIOUS
  <2>4. PICK n : n = N
    OBVIOUS
  <2> HIDE DEF X, step, Base, N
  <2>5. n \in Nat /\ b \in Y /\ st \in [1 .. n -> [Y -> Y]]
    BY <1>1, <1>2, <1>4, <2>1, <2>2, <2>3, <2>4 DEF N
  <2>6. \E f : Iterates(f, Y, b, n, st)
    BY <2>5, Recursion
  <2> QED
    BY <2>1, <2>2, <2>3, <2>4, <2>6
<1>6. Is(f)
  <2> HIDE DEF X, Base, Step, N
  <2>1. f \in [0 .. N -> X] /\ f[0] = Base
    BY <1>5 DEF Iterates
  <2>2. \A n \in 1 .. N : f[n] = Step(f[n - 1], n)
    <3> TAKE n \in 1 .. N
    <3>1. n - 1 \in 0 .. N
      BY <1>1 DEF N
    <3>2. f[n - 1] \in X
      BY <2>1, <3>1
    <3>3. f[n] = step[n][f[n - 1]]
      BY <1>5 DEF Iterates
    <3> QED
      BY <3>2, <3>3
  <2>3. \A n \in 0 .. N : f[n] = IF n = 0 THEN Base ELSE Step(f[n - 1], n)
    <3> TAKE n \in 0 .. N
    <3>1. CASE n = 0
      BY <3>1, <2>1
    <3>2. CASE n # 0
      <4>1. n \in 1 .. N
        BY <3>2, <1>1 DEF N
      <4> QED
        BY <4>1, <3>2, <2>2
    <3> QED
      BY <3>1, <3>2
  <2> QED
    BY <2>1, <2>3
<1>7. Is(results)
  <2> HIDE DEF Is
  <2> QED
    BY <1>6
<1>8. GenerateValues(h, at) = results[N]
  BY DEF GenerateValues
<1>9. /\ results[0] = Base
      /\ \A n \in 1 .. N : results[n] = Step(results[n - 1], n)
  <2> HIDE DEF results, Base, Step
  <2> QED
    BY <1>1, <1>7
<1> HIDE DEF results
<1> DEFINE bad == {n \in 0 .. N : ~\A s \in results[n] : Generated(h, at, n, s)}
<1>10. SUFFICES ASSUME bad # {} PROVE FALSE
  <2>1. N \in 0 .. N /\ N \notin bad
    BY <1>1, <1>10
  <2> HIDE DEF N
  <2> QED
    BY <1>8, <2>1 DEF N
<1>11. PICK n \in bad : \A l \in bad : n <= l
  <2>1. bad \subseteq Nat
    BY <1>1
  <2> HIDE DEF bad
  <2> QED
    BY <1>10, <2>1, Smallest
<1>12. CASE n = 0
  <2>1. ASSUME NEW s \in results[0] PROVE Generated(h, at, 0, s)
    <3>1. s.value = <<>> /\ s.heap = h
      BY <1>9, <2>1
    <3>2. <<>> \in Seq(Value) /\ Len(<<>>) = 0
      OBVIOUS
    <3>3. Planted(h, h)
      BY PlantedNothing
    <3>4. Sprouted(h, h, <<>>)
      BY DEF Sprouted, Placed
    <3> QED
      BY <3>1, <3>2, <3>3, <3>4 DEF Generated
  <2> QED
    BY <2>1, <1>11, <1>12
<1>13. CASE n # 0
  <2> HIDE DEF N
  <2>1. n \in 1 .. N /\ n - 1 \in Nat /\ n - 1 \in 0 .. N /\ ~(n <= n - 1) /\ (n - 1) + 1 = n
    BY <1>1, <1>13 DEF N
  <2>2. \A s \in results[n - 1] : Generated(h, at, n - 1, s)
    <3>1. n - 1 \notin bad
      <4> HIDE DEF bad
      <4> QED
        BY <1>11, <2>1
    <3> QED
      BY <3>1, <2>1
  <2>3. PICK m \in Nat : m = n - 1
    BY <2>1
  <2>4. m + 1 = n
    BY <2>1, <2>3
  <2>5. ASSUME NEW s \in results[n] PROVE Generated(h, at, n, s)
    <3>1. s \in Step(results[n - 1], n)
      BY <1>9, <2>1, <2>5
    <3>2. PICK q \in results[n - 1] : \E g \in GenerateValue(q.heap, at[n]) :
            s = [value |-> Append(q.value, g.value), heap |-> g.heap]
      BY <3>1
    <3>3. PICK g \in GenerateValue(q.heap, at[n]) :
            s = [value |-> Append(q.value, g.value), heap |-> g.heap]
      BY <3>2
    <3>4. Generated(h, at, m, q) /\ at[m + 1] \in Position /\ g \in GenerateValue(q.heap, at[m + 1])
      BY <2>1, <2>2, <2>3, <2>4, <1>1, <3>3 DEF N
    <3>5. Generated(h, at, m + 1, [value |-> Append(q.value, g.value), heap |-> g.heap])
      BY <3>4, GeneratedNext
    <3> QED
      BY <3>3, <3>5, <2>4
  <2> QED
    BY <2>5, <1>11
<1> QED
  BY <1>12, <1>13

-----------------------------------------------------------------------------
(* Values a call may use. *)
Usable(h, v, i) == \E C \in SUBSET DOMAIN h : Backing(h, C, i) /\ v \in Leaf(i) \cup C
UsableArrays(h, i) == {a \in DOMAIN h : Usable(h, a, i)}

LEMMA UsableTogether ==
  ASSUME NEW h, IsHeap(h), NEW i \in Position
  PROVE  /\ Backing(h, UsableArrays(h, i), i)
         /\ \A v : Usable(h, v, i) <=> v \in Leaf(i) \cup UsableArrays(h, i)
<1> DEFINE U == UsableArrays(h, i)
<1>1. ASSUME NEW C \in SUBSET DOMAIN h, Backing(h, C, i) PROVE C \subseteq U
  BY <1>1 DEF UsableArrays, Usable
<1>2. \A a \in U : \E C \in SUBSET DOMAIN h : Backing(h, C, i) /\ a \in C
  BY LeafIsValue DEF UsableArrays, Usable, IsHeap
<1>3. Backing(h, U, i)
  <2>1. U \subseteq DOMAIN h
    BY DEF UsableArrays
  <2>2. ASSUME NEW a \in U PROVE Range(h[a]) \subseteq Leaf(i) \cup U
    <3>1. PICK C \in SUBSET DOMAIN h : Backing(h, C, i) /\ a \in C
      BY <1>2
    <3> QED
      BY <1>1, <3>1 DEF Backing
  <2> QED
    BY <2>1, <2>2 DEF Backing
<1>4. \A v : Usable(h, v, i) => v \in Leaf(i) \cup U
  BY <1>1 DEF Usable
<1>5. \A v : v \in Leaf(i) \cup U => Usable(h, v, i)
  BY <1>3 DEF Usable, Backing
<1> QED
  BY <1>3, <1>4, <1>5

LEMMA BackedIsUsable ==
  ASSUME NEW h, NEW g, NEW v, NEW i, Backed(h, g, v, i)
  PROVE  Usable(g, v, i)
  BY DEF Backed, Usable

LEMMA UsableIsValue ==
  ASSUME NEW h, IsHeap(h), NEW i \in Position, NEW v, Usable(h, v, i)
  PROVE  v \in Value /\ (v \in Arrays => v \in DOMAIN h)
  BY LeafIsValue DEF Usable, IsHeap, Value

LEMMA UsableLater ==
  ASSUME NEW h, NEW g, Grows(h, g), NEW v, NEW i, Usable(h, v, i)
  PROVE  Usable(g, v, i)
<1>1. PICK C \in SUBSET DOMAIN h : Backing(h, C, i) /\ v \in Leaf(i) \cup C
  BY DEF Usable
<1>2. C \in SUBSET DOMAIN g /\ Backing(g, C, i)
  BY <1>1 DEF Backing, Grows
<1> QED
  BY <1>1, <1>2 DEF Usable

LEMMA UsableElement ==
  ASSUME NEW h, IsHeap(h), NEW i \in Position, NEW a \in DOMAIN h, Usable(h, a, i), NEW v \in Range(h[a])
  PROVE  Usable(h, v, i)
<1>1. a \in UsableArrays(h, i)
  BY DEF UsableArrays
<1> QED
  BY <1>1, UsableTogether DEF Backing

LEMMA UsableUses ==
  ASSUME NEW h, IsHeap(h), NEW i \in Position, NEW V, \A v \in V : Usable(h, v, i)
  PROVE  UsesOf(h, V) \subseteq Earlier(i)
<1>1. Backing(h, UsableArrays(h, i), i) /\ V \subseteq Leaf(i) \cup UsableArrays(h, i)
  BY UsableTogether
<1> QED
  BY <1>1, BackedUses DEF IsHeap

LEMMA UsedIsUsable ==
  ASSUME NEW h, Whole(h), NEW i \in Position, NEW V, V \subseteq Value,
         V \cap Arrays \subseteq DOMAIN h, UsesOf(h, V) \subseteq Earlier(i)
  PROVE  \A v \in V : Usable(h, v, i)
<1>1. Backing(h, Reach(h, V), i) /\ V \subseteq Leaf(i) \cup Reach(h, V)
  BY BackedByReach
<1>2. Reach(h, V) \in SUBSET DOMAIN h
  BY DEF Reach
<1> QED
  BY <1>1, <1>2 DEF Usable

Sized(h) == \A a \in DOMAIN h : Len(h[a]) <= LongestArray

(* The heap grows by arrays that are in no cycle; they may hold old ones. *)
Copied(h, g) ==
  /\ IsHeap(g) /\ Grows(h, g)
  /\ \A a \in DOMAIN g \ DOMAIN h :
       /\ Len(g[a]) <= LongestArray
       /\ Range(g[a]) \cap Arrays \subseteq DOMAIN g
       /\ \E D \in SUBSET DOMAIN g :
            Closed(g, D) /\ Range(g[a]) \cap DOMAIN g \subseteq D /\ a \notin D

LEMMA PlantedIsCopied ==
  ASSUME NEW h, NEW g, Planted(h, g)
  PROVE  Copied(h, g)
  BY DEF Planted, Copied

LEMMA CopiedWhole ==
  ASSUME NEW h, NEW g, Whole(h), Sized(h), Copied(h, g)
  PROVE  Whole(g) /\ Sized(g)
<1>1. ASSUME NEW a \in DOMAIN g
      PROVE  Range(g[a]) \cap Arrays \subseteq DOMAIN g /\ Len(g[a]) <= LongestArray
  <2>1. CASE a \in DOMAIN h
    BY <2>1 DEF Whole, Sized, Copied, Grows
  <2>2. CASE a \notin DOMAIN h
    BY <2>2 DEF Copied
  <2> QED
    BY <2>1, <2>2
<1> QED
  BY <1>1 DEF Whole, Sized, Copied

LEMMA CopiedTrans ==
  ASSUME NEW f, NEW g, NEW h, Whole(f), Copied(f, g), Copied(g, h)
  PROVE  Copied(f, h)
<1>1. IsHeap(h) /\ IsHeap(g) /\ Grows(f, h) /\ Grows(f, g) /\ Grows(g, h)
  BY GrowsTrans DEF Copied
<1>2. \A b \in DOMAIN g : h[b] = g[b] /\ Range(g[b]) \cap Arrays \subseteq DOMAIN g
  BY <1>1 DEF Grows, Whole, Copied
<1>3. ASSUME NEW a \in DOMAIN h \ DOMAIN f
      PROVE  /\ Len(h[a]) <= LongestArray
             /\ Range(h[a]) \cap Arrays \subseteq DOMAIN h
             /\ \E D \in SUBSET DOMAIN h :
                  Closed(h, D) /\ Range(h[a]) \cap DOMAIN h \subseteq D /\ a \notin D
  <2>1. CASE a \in DOMAIN g
    <3>1. PICK D \in SUBSET DOMAIN g :
            Closed(g, D) /\ Range(g[a]) \cap DOMAIN g \subseteq D /\ a \notin D
      BY <2>1 DEF Copied
    <3>2. Len(g[a]) <= LongestArray
      BY <2>1 DEF Copied
    <3>3. Closed(h, D) /\ Range(h[a]) \cap DOMAIN h \subseteq D
      BY <2>1, <3>1, <1>1, <1>2 DEF Closed, IsHeap, Grows
    <3> QED
      BY <2>1, <3>1, <3>2, <3>3, <1>1, <1>2 DEF Grows
  <2>2. CASE a \notin DOMAIN g
    BY <2>2 DEF Copied
  <2> QED
    BY <2>1, <2>2
<1> QED
  BY <1>1, <1>3 DEF Copied

(* Arrays at[1] .. at[n] are added that hold usable values and those after them. *)
LEMMA Added ==
  ASSUME NEW g, Whole(g), NEW i \in Position, NEW n \in Nat,
         NEW at \in [1 .. n -> Arrays \ DOMAIN g],
         \A x, y \in 1 .. n : at[x] = at[y] => x = y,
         NEW new, DOMAIN new = Range(at),
         \A k \in 1 .. n :
           /\ new[at[k]] \in Seq(Value) /\ Len(new[at[k]]) <= LongestArray
           /\ \A v \in Range(new[at[k]]) : Usable(g, v, i) \/ \E j \in 1 .. n : j > k /\ v = at[j]
  PROVE  Copied(g, Extend(g, new)) /\ \A k \in 1 .. n : Usable(Extend(g, new), at[k], i)
<1> DEFINE h == Extend(g, new)
<1>1. Range(at) = {at[k] : k \in 1 .. n} /\ Range(at) \subseteq Arrays \ DOMAIN g
  BY DEF Range
<1>2. DOMAIN h = DOMAIN g \cup Range(at) /\ Grows(g, h) /\ \A a \in Range(at) : h[a] = new[a]
  <2>1. DOMAIN g \cap DOMAIN new = {}
    BY <1>1
  <2>2. /\ DOMAIN Extend(g, new) = DOMAIN g \cup DOMAIN new
        /\ Grows(g, Extend(g, new))
        /\ \A a \in DOMAIN new : Extend(g, new)[a] = new[a]
    BY ONLY <2>1, ExtendIs
  <2> QED
    BY <2>2
<1>3. IsHeap(h)
  <2>1. DOMAIN h \subseteq Arrays
    BY <1>1, <1>2 DEF Whole, IsHeap
  <2>2. \A a \in DOMAIN h : h[a] \in Seq(Value)
    <3> TAKE a \in DOMAIN h
    <3>1. CASE a \in DOMAIN g
      BY <3>1, <1>2 DEF Grows, Whole, IsHeap
    <3>2. CASE a \in Range(at)
      BY <3>2, <1>1, <1>2
    <3> QED
      BY <3>1, <3>2, <1>2
  <2>3. h = [a \in DOMAIN h |-> h[a]]
    BY DEF Extend
  <2> HIDE DEF h
  <2> QED
    BY <2>1, <2>2, <2>3 DEF IsHeap
<1> HIDE DEF h
<1>4. IsHeap(g)
  BY DEF Whole
<1> DEFINE U == UsableArrays(g, i)
<1>5. Backing(g, U, i) /\ \A v : Usable(g, v, i) <=> v \in Leaf(i) \cup U
  BY <1>4, UsableTogether
<1>6. ASSUME NEW k \in 1 .. n
      PROVE  /\ Range(h[at[k]]) \subseteq Leaf(i) \cup U \cup {at[j] : j \in {l \in 1 .. n : l > k}}
             /\ Len(h[at[k]]) <= LongestArray
  <2>1. at[k] \in Range(at)
    BY <1>1
  <2>2. h[at[k]] = new[at[k]]
    BY <2>1, <1>2
  <2> QED
    BY <2>2, <1>5
<1>7. U \subseteq DOMAIN g
  BY DEF UsableArrays
<1> HIDE DEF U
<1>8. ASSUME NEW a \in DOMAIN h \ DOMAIN g
      PROVE  /\ Len(h[a]) <= LongestArray
             /\ Range(h[a]) \cap Arrays \subseteq DOMAIN h
             /\ \E D \in SUBSET DOMAIN h :
                  Closed(h, D) /\ Range(h[a]) \cap DOMAIN h \subseteq D /\ a \notin D
  <2>1. PICK k \in 1 .. n : a = at[k]
    BY <1>1, <1>2
  <2>2. Len(h[a]) <= LongestArray
    BY <2>1, <1>6
  <2> DEFINE D == DOMAIN g \cup {at[j] : j \in {l \in 1 .. n : l > k}}
  <2>3. D \in SUBSET DOMAIN h
    BY <1>1, <1>2
  <2>4. a \notin D
    BY <2>1
  <2>5. \A j \in 1 .. n : j >= k => Range(h[at[j]]) \cap Arrays \subseteq D
    <3> SUFFICES ASSUME NEW j \in 1 .. n, j >= k, NEW v \in Range(h[at[j]]) \cap Arrays PROVE v \in D
      OBVIOUS
    <3>1. v \in U \/ \E l \in 1 .. n : l > j /\ v = at[l]
      BY <1>6, LeafIsValue
    <3>2. \A l \in 1 .. n : l > j => l > k
      OBVIOUS
    <3> QED
      BY <3>1, <3>2, <1>7
  <2>6. \A b \in DOMAIN g : Range(h[b]) \cap Arrays \subseteq D
    BY <1>2 DEF Grows, Whole
  <2>7. DOMAIN h \subseteq Arrays
    BY <1>3 DEF IsHeap
  <2>8. Closed(h, D)
    <3> SUFFICES ASSUME NEW b \in D PROVE Range(h[b]) \cap DOMAIN h \subseteq D
      BY <2>3 DEF Closed
    <3>1. CASE b \in DOMAIN g
      BY <3>1, <2>6, <2>7
    <3>2. CASE \E j \in 1 .. n : j > k /\ b = at[j]
      <4>1. PICK j \in 1 .. n : j > k /\ b = at[j]
        BY <3>2
      <4>2. j >= k
        BY <4>1
      <4> QED
        BY <4>1, <4>2, <2>5, <2>7
    <3> QED
      BY <3>1, <3>2
  <2>9. Range(h[a]) \cap Arrays \subseteq D
    BY <2>1, <2>5
  <2> HIDE DEF D
  <2> QED
    BY <2>2, <2>3, <2>4, <2>7, <2>8, <2>9
<1>9. Copied(g, h)
  BY <1>2, <1>3, <1>8 DEF Copied
<1>10. Backing(h, U \cup Range(at), i)
  <2>1. U \cup Range(at) \subseteq DOMAIN h
    BY <1>2, <1>7
  <2>2. ASSUME NEW a \in U PROVE Range(h[a]) \subseteq Leaf(i) \cup U
    BY <1>2, <1>5, <1>7 DEF Backing, Grows
  <2>3. ASSUME NEW a \in Range(at) PROVE Range(h[a]) \subseteq Leaf(i) \cup (U \cup Range(at))
    BY <1>1, <1>6
  <2> QED
    BY <2>1, <2>2, <2>3 DEF Backing
<1>11. \A k \in 1 .. n : Usable(h, at[k], i)
  BY <1>1, <1>2, <1>7, <1>10 DEF Usable
<1> QED
  BY <1>9, <1>11 DEF h

-----------------------------------------------------------------------------
(* What mutating a value makes. *)
Changed(h, r, i) == Copied(h, r.heap) /\ Usable(r.heap, r.value, i)

LEMMA NewArrayIs ==
  ASSUME NEW g, Whole(g), NEW i \in Position, Room(g) > 0,
         NEW elements \in Seq(Value), Len(elements) <= LongestArray,
         \A v \in Range(elements) : Usable(g, v, i),
         NEW name, NEW r, r = NewArray(g, elements, name)
  PROVE  Changed(g, r, i) /\ r.name = name
<1>0. Room(g) \in Nat
  <2>1. IsFiniteSet(Arrays \ DOMAIN g)
    BY ReferencesAssumption, FS_Difference
  <2> QED
    BY <2>1, FS_CardinalityType DEF Room
<1>1. PICK at : at = Fresh(g, 1)
  OBVIOUS
<1>2. at \in [1 .. 1 -> Arrays \ DOMAIN g]
  <2>1. 1 \in Nat /\ 1 <= Room(g)
    BY <1>0
  <2> QED
    BY <1>1, <2>1, FreshIs
<1>3. PICK new : new = [b \in {at[1]} |-> elements]
  OBVIOUS
<1>4. r.value = at[1] /\ r.heap = Extend(g, new) /\ r.name = name
  BY <1>1, <1>3 DEF NewArray
<1>5. DOMAIN new = Range(at)
  BY <1>2, <1>3 DEF Range
<1>6. \A x, y \in 1 .. 1 : at[x] = at[y] => x = y
  OBVIOUS
<1>7. \A k \in 1 .. 1 :
         /\ new[at[k]] \in Seq(Value) /\ Len(new[at[k]]) <= LongestArray
         /\ \A v \in Range(new[at[k]]) : Usable(g, v, i) \/ \E j \in 1 .. 1 : j > k /\ v = at[j]
  <2> TAKE k \in 1 .. 1
  <2>1. new[at[k]] = elements
    BY <1>3
  <2> QED
    BY <2>1
<1>8. PICK n \in Nat : n = 1
  OBVIOUS
<1>9. Copied(g, Extend(g, new)) /\ \A k \in 1 .. n : Usable(Extend(g, new), at[k], i)
  <2>1. /\ at \in [1 .. n -> Arrays \ DOMAIN g]
        /\ \A x, y \in 1 .. n : at[x] = at[y] => x = y
        /\ \A k \in 1 .. n :
             /\ new[at[k]] \in Seq(Value) /\ Len(new[at[k]]) <= LongestArray
             /\ \A v \in Range(new[at[k]]) : Usable(g, v, i) \/ \E j \in 1 .. n : j > k /\ v = at[j]
    BY <1>2, <1>6, <1>7, <1>8
  <2>2. Whole(g) /\ i \in Position
    OBVIOUS
  <2> QED
    BY ONLY <2>1, <2>2, <1>5, <1>8, Added
<1> QED
  BY <1>4, <1>8, <1>9 DEF Changed

LEMMA PushedElement ==
  ASSUME NEW h, Whole(h), Sized(h), NEW i \in Position, NEW a \in DOMAIN h, Usable(h, a, i),
         NEW r \in PushElement(h, a, i)
  PROVE  Changed(h, r, i) /\ r.name \in MutatorName
<1>1. PICK g \in GenerateValue(h, i) :
        /\ Len(h[a]) < MaxArrayLength /\ Room(g.heap) > 0
        /\ r = NewArray(g.heap, Append(h[a], g.value), "PushElement")
  BY DEF PushElement
<1>2. Planted(h, g.heap) /\ Backed(h, g.heap, g.value, i)
  BY GeneratedValue DEF Whole
<1>3. Copied(h, g.heap) /\ Whole(g.heap) /\ Usable(g.heap, g.value, i)
  BY <1>2, PlantedIsCopied, CopiedWhole, BackedIsUsable
<1>4. PICK s \in Seq(Value) : s = h[a]
  BY DEF Whole, IsHeap
<1>5. PICK v \in Value : v = g.value
  BY <1>3, UsableIsValue DEF Whole
<1>6. PICK t : t = Append(s, v)
  OBVIOUS
<1>7. t \in Seq(Value) /\ Len(t) = Len(s) + 1 /\ Range(t) = Range(s) \cup {v}
  BY <1>6, AppendIs
<1>8. Len(t) <= LongestArray
  <2>1. PICK l \in Nat : l = Len(s)
    OBVIOUS
  <2>2. l < MaxArrayLength /\ MaxArrayLength \in Nat /\ LongestArray \in Nat /\ MaxArrayLength <= LongestArray
    BY <1>1, <1>4, <2>1, Sizes, SizesAssumption
  <2>3. l + 1 <= LongestArray
    BY ONLY <2>1, <2>2
  <2> QED
    BY <1>7, <2>1, <2>3
<1>9. \A e \in Range(t) : Usable(g.heap, e, i)
  <2>1. \A e \in Range(s) : Usable(h, e, i)
    BY <1>4, UsableElement DEF Whole
  <2>2. \A e \in Range(s) : Usable(g.heap, e, i)
    BY <1>3, <2>1, UsableLater DEF Copied
  <2> QED
    BY <1>3, <1>5, <1>7, <2>2
<1>10. PICK f : f = g.heap
  OBVIOUS
<1>11. r = NewArray(f, t, "PushElement")
  BY <1>1, <1>4, <1>5, <1>6, <1>10
<1>12. Changed(f, r, i) /\ r.name = "PushElement"
  BY <1>1, <1>3, <1>7, <1>8, <1>9, <1>10, <1>11, NewArrayIs
<1>13. Copied(h, r.heap)
  BY <1>3, <1>10, <1>12, CopiedTrans DEF Changed
<1> QED
  BY <1>12, <1>13 DEF Changed, MutatorName

LEMMA RemovedElement ==
  ASSUME NEW h, Whole(h), Sized(h), NEW i \in Position, NEW a \in DOMAIN h, Usable(h, a, i),
         NEW r \in RemoveElement(h, a)
  PROVE  Changed(h, r, i) /\ r.name \in MutatorName
<1>1. PICK n \in DOMAIN h[a] :
        Room(h) > 0 /\ r = NewArray(h, RemoveAt(h[a], n), "RemoveElement")
  BY DEF RemoveElement
<1>2. PICK s \in Seq(Value) : s = h[a]
  BY DEF Whole, IsHeap
<1>3. n \in 1 .. Len(s)
  BY <1>1, <1>2
<1>4. PICK t : t = RemoveAt(s, n)
  OBVIOUS
<1>5. /\ t \in Seq(Value) /\ Len(t) = Len(s) - 1 /\ DOMAIN t = 1 .. (Len(s) - 1)
      /\ \A j \in 1 .. (Len(s) - 1) : t[j] = IF j < n THEN s[j] ELSE s[j + 1]
  BY <1>3, <1>4, RemoveAtIs
<1>6. Range(t) \subseteq Range(s)
  <2> SUFFICES ASSUME NEW j \in 1 .. (Len(s) - 1) PROVE t[j] \in Range(s)
    BY <1>5 DEF Range
  <2>1. j \in DOMAIN s /\ j + 1 \in DOMAIN s
    OBVIOUS
  <2> QED
    BY <1>5, <2>1 DEF Range
<1>7. \A e \in Range(t) : Usable(h, e, i)
  BY <1>2, <1>6, UsableElement DEF Whole
<1>8. Len(t) <= LongestArray
  <2>1. PICK l \in Nat : l = Len(s)
    OBVIOUS
  <2>2. l <= LongestArray
    BY <1>2, <2>1 DEF Sized
  <2>3. l - 1 <= LongestArray
    BY <2>1, <2>2, Sizes
  <2> QED
    BY <1>5, <2>1, <2>3
<1>9. r = NewArray(h, t, "RemoveElement")
  BY <1>1, <1>2, <1>4
<1>10. Changed(h, r, i) /\ r.name = "RemoveElement"
  BY <1>1, <1>5, <1>7, <1>8, <1>9, NewArrayIs
<1> QED
  BY <1>10 DEF MutatorName

LEMMA ExchangedElements ==
  ASSUME NEW h, Whole(h), Sized(h), NEW i \in Position, NEW a \in DOMAIN h, Usable(h, a, i),
         NEW r \in ExchangeElements(h, a)
  PROVE  Changed(h, r, i) /\ r.name \in MutatorName
<1>1. PICK n \in (DOMAIN h[a]) \X (DOMAIN h[a]) :
        /\ Room(h) > 0
        /\ r = NewArray(h, [h[a] EXCEPT ![n[1]] = h[a][n[2]], ![n[2]] = h[a][n[1]]], "ExchangeElements")
  BY DEF ExchangeElements
<1>2. PICK s \in Seq(Value) : s = h[a]
  BY DEF Whole, IsHeap
<1>3. n[1] \in DOMAIN s /\ n[2] \in DOMAIN s
  BY <1>1, <1>2
<1>4. PICK t : t = [s EXCEPT ![n[1]] = s[n[2]], ![n[2]] = s[n[1]]]
  OBVIOUS
<1>5. PICK x \in DOMAIN s : x = n[1]
  BY <1>3
<1>6. PICK y \in DOMAIN s : y = n[2]
  BY <1>3
<1>7. DOMAIN t = DOMAIN s /\ \A j \in DOMAIN s : t[j] = IF j = y THEN s[x] ELSE IF j = x THEN s[y] ELSE s[j]
  BY <1>4, <1>5, <1>6
<1>8. Range(t) \subseteq Range(s)
  BY <1>7 DEF Range
<1>9. t \in Seq(Value) /\ Len(t) = Len(s)
  <2>1. PICK l \in Nat : l = Len(s) /\ DOMAIN s = 1 .. l /\ \A j \in 1 .. l : s[j] \in Value
    OBVIOUS
  <2>2. t = [j \in 1 .. l |-> t[j]]
    BY <1>4, <2>1
  <2>3. \A j \in 1 .. l : t[j] \in Value
    BY <1>7, <2>1
  <2>4. t \in [1 .. l -> Value]
    BY <2>2, <2>3
  <2> QED
    BY <2>1, <2>4
<1>10. \A e \in Range(t) : Usable(h, e, i)
  BY <1>2, <1>8, UsableElement DEF Whole
<1>11. Len(t) <= LongestArray
  BY <1>2, <1>9 DEF Sized
<1>12. r = NewArray(h, t, "ExchangeElements")
  BY <1>1, <1>2, <1>4
<1>13. Changed(h, r, i) /\ r.name = "ExchangeElements"
  <2>1. /\ Whole(h) /\ i \in Position /\ Room(h) > 0
        /\ t \in Seq(Value) /\ Len(t) <= LongestArray /\ \A v \in Range(t) : Usable(h, v, i)
    BY <1>1, <1>9, <1>10, <1>11
  <2> QED
    BY ONLY <2>1, <1>12, NewArrayIs
<1> QED
  BY <1>13 DEF MutatorName

LEMMA NothingCopied ==
  ASSUME NEW h, IsHeap(h)
  PROVE  Copied(h, h)
  BY DEF Copied, Grows

LEMMA MutatedHere ==
  ASSUME NEW h, Whole(h), Sized(h), NEW i \in Position, NEW v, Usable(h, v, i),
         NEW depth, NEW name \in MutatorName, NEW r \in MutateHere(h, v, i, depth, name)
  PROVE  Changed(h, r, i) /\ r.name \in MutatorName
<1>1. CASE \E g \in GenerateValue(h, i) : r = [value |-> g.value, heap |-> g.heap, name |-> name]
  <2>1. PICK g \in GenerateValue(h, i) : r = [value |-> g.value, heap |-> g.heap, name |-> name]
    BY <1>1
  <2>2. Planted(h, g.heap) /\ Backed(h, g.heap, g.value, i)
    BY GeneratedValue DEF Whole
  <2>3. Copied(h, g.heap) /\ Usable(g.heap, g.value, i)
    BY <2>2, PlantedIsCopied, BackedIsUsable
  <2>4. r.value = g.value /\ r.heap = g.heap /\ r.name = name
    BY <2>1
  <2> QED
    BY <2>3, <2>4 DEF Changed
<1>2. CASE v \in DOMAIN h /\ r \in PushElement(h, v, i) \cup RemoveElement(h, v) \cup ExchangeElements(h, v)
  BY <1>2, PushedElement, RemovedElement, ExchangedElements
<1>3. CASE r \in MutateScalar(h, v, name)
  <2>1. r.value = v /\ r.heap = h /\ r.name \in {name, "MutateScalar"}
    BY <1>3 DEF MutateScalar
  <2> QED
    BY <2>1, NothingCopied DEF Changed, MutatorName, Whole
<1> QED
  BY <1>1, <1>2, <1>3 DEF MutateHere

(* The path leads from array to array, through values the call may use. *)
WalkIs(h, v, p, m, walk) ==
  /\ walk[0] = v
  /\ \A k \in 1 .. m :
       walk[k] = IF walk[k - 1] \in DOMAIN h /\ p[k] \in DOMAIN h[walk[k - 1]]
                 THEN h[walk[k - 1]][p[k]] ELSE NoThis

LEMMA WalkExists ==
  ASSUME NEW h, IsHeap(h), NEW v \in Value, NEW p, Len(p) \in Nat
  PROVE  WalkIs(h, v, p, Len(p), Walk(h, v, p))
<1> DEFINE N == Len(p)
           X == Value \cup {NoThis}
           Step(x, k) == IF x \in DOMAIN h /\ p[k] \in DOMAIN h[x] THEN h[x][p[k]] ELSE NoThis
           Is(f) == f = [k \in 0 .. N |->
                           IF k = 0 THEN v
                           ELSE IF f[k - 1] \in DOMAIN h /\ p[k] \in DOMAIN h[f[k - 1]]
                           THEN h[f[k - 1]][p[k]]
                           ELSE NoThis]
           walk == CHOOSE f : Is(f)
           step == [k \in 1 .. N |-> [x \in X |-> Step(x, k)]]
<1>1. ASSUME NEW k \in 1 .. N, NEW x \in X PROVE Step(x, k) \in X
  <2>1. ASSUME x \in DOMAIN h, p[k] \in DOMAIN h[x] PROVE h[x][p[k]] \in Value
    BY <2>1 DEF IsHeap
  <2> QED
    BY <2>1
<1>2. step \in [1 .. N -> [X -> X]]
  <2> HIDE DEF Step, X, N
  <2> QED
    BY <1>1
<1>3. PICK f : Iterates(f, X, v, N, step)
  <2>1. PICK Y : Y = X
    OBVIOUS
  <2>2. PICK st : st = step
    OBVIOUS
  <2>3. v \in X
    OBVIOUS
  <2>4. PICK n : n = N
    OBVIOUS
  <2> HIDE DEF X, step, N
  <2>5. n \in Nat /\ v \in Y /\ st \in [1 .. n -> [Y -> Y]]
    BY <1>2, <2>1, <2>2, <2>3, <2>4 DEF N
  <2>6. \E f : Iterates(f, Y, v, n, st)
    BY <2>5, Recursion
  <2> QED
    BY <2>1, <2>2, <2>4, <2>6
<1>4. f \in [0 .. N -> X] /\ f[0] = v /\ \A k \in 1 .. N : f[k] = Step(f[k - 1], k)
  <2>1. f \in [0 .. N -> X] /\ f[0] = v /\ \A k \in 1 .. N : f[k] = step[k][f[k - 1]]
    BY <1>3 DEF Iterates
  <2>2. \A k \in 1 .. N : f[k - 1] \in X
    <3> TAKE k \in 1 .. N
    <3>1. k - 1 \in 0 .. N
      OBVIOUS
    <3> HIDE DEF X
    <3> QED
      BY <2>1, <3>1
  <2> HIDE DEF Step, X
  <2> QED
    BY <2>1, <2>2
<1>5. Is(f)
  <2>1. \A k \in 0 .. N : f[k] = IF k = 0 THEN v ELSE Step(f[k - 1], k)
    <3> TAKE k \in 0 .. N
    <3>1. CASE k = 0
      BY <3>1, <1>4
    <3>2. CASE k # 0
      <4>1. k \in 1 .. N
        BY <3>2
      <4> HIDE DEF Step
      <4> QED
        BY <4>1, <3>2, <1>4
    <3> QED
      BY <3>1, <3>2
  <2>2. f = [k \in 0 .. N |-> f[k]]
    BY <1>4
  <2> QED
    BY <2>1, <2>2
<1>6. Is(walk)
  <2> HIDE DEF Is
  <2> QED
    BY <1>5
<1>7. Walk(h, v, p) = walk
  BY DEF Walk
<1>8. walk[0] = v /\ \A k \in 1 .. N : walk[k] = Step(walk[k - 1], k)
  <2> HIDE DEF walk
  <2> QED
    BY <1>6
<1> HIDE DEF walk
<1> QED
  BY <1>7, <1>8 DEF WalkIs

Walked(h, p, m, walk, i) ==
  /\ \A k \in 1 .. m :
       /\ walk[k - 1] \in DOMAIN h /\ p[k] \in DOMAIN h[walk[k - 1]]
       /\ walk[k] = h[walk[k - 1]][p[k]]
  /\ \A k \in 0 .. m : Usable(h, walk[k], i)

LEMMA PathWalked ==
  ASSUME NEW h, Whole(h), NEW i \in Position, NEW v, Usable(h, v, i), NEW m \in Nat,
         NEW p, NEW walk, WalkIs(h, v, p, m, walk), walk[m] # NoThis
  PROVE  Walked(h, p, m, walk, i)
<1>1. NoThis \notin DOMAIN h
  BY ReferencesAssumption DEF Whole, IsHeap, Value
<1> DEFINE off == {k \in 0 .. m : walk[k] # NoThis /\ \E j \in 0 .. k : walk[j] = NoThis}
<1>2. off = {}
  <2>1. SUFFICES ASSUME off # {} PROVE FALSE
    OBVIOUS
  <2>2. PICK k \in off : \A l \in off : k <= l
    <3>1. off \subseteq Nat
      OBVIOUS
    <3> HIDE DEF off
    <3> QED
      BY <2>1, <3>1, Smallest
  <2>3. PICK j \in 0 .. k : walk[j] = NoThis
    OBVIOUS
  <2>4. k \in 0 .. m /\ j # k
    BY <2>3
  <2>5. k \in 1 .. m /\ k - 1 \in 0 .. m /\ j \in 0 .. (k - 1) /\ ~(k <= k - 1)
    BY ONLY <2>4, m \in Nat, j \in 0 .. k
  <2>6. walk[k - 1] # NoThis
    BY <2>5, <1>1 DEF WalkIs
  <2>7. k - 1 \in off
    BY <2>3, <2>5, <2>6
  <2> HIDE DEF off
  <2> QED
    BY <2>2, <2>5, <2>7
<1>3. \A k \in 0 .. m : walk[k] # NoThis
  <2> TAKE k \in 0 .. m
  <2>1. m \in 0 .. m /\ k \in 0 .. m
    OBVIOUS
  <2>2. m \notin off
    BY <1>2
  <2> QED
    BY <2>1, <2>2
<1>4. \A k \in 1 .. m :
        /\ walk[k - 1] \in DOMAIN h /\ p[k] \in DOMAIN h[walk[k - 1]]
        /\ walk[k] = h[walk[k - 1]][p[k]]
  <2> TAKE k \in 1 .. m
  <2>1. walk[k] # NoThis
    BY <1>3
  <2> QED
    BY <2>1 DEF WalkIs
<1> DEFINE bad == {k \in 0 .. m : ~Usable(h, walk[k], i)}
<1>5. bad = {}
  <2>1. SUFFICES ASSUME bad # {} PROVE FALSE
    OBVIOUS
  <2>2. PICK k \in bad : \A l \in bad : k <= l
    <3>1. bad \subseteq Nat
      OBVIOUS
    <3> HIDE DEF bad
    <3> QED
      BY <2>1, <3>1, Smallest
  <2>3. k \in 0 .. m /\ k # 0
    BY DEF WalkIs
  <2>4. k \in 1 .. m /\ k - 1 \in 0 .. m /\ ~(k <= k - 1)
    BY ONLY <2>3, m \in Nat
  <2>5. Usable(h, walk[k - 1], i)
    <3>1. k - 1 \notin bad
      <4> HIDE DEF bad
      <4> QED
        BY <2>2, <2>4
    <3> QED
      BY <3>1, <2>4
  <2>6. walk[k] \in Range(h[walk[k - 1]])
    BY <2>4, <1>4 DEF Range
  <2>7. Usable(h, walk[k], i)
    BY <2>4, <2>5, <2>6, <1>4, UsableElement DEF Whole
  <2> QED
    BY <2>7
<1> QED
  BY <1>4, <1>5 DEF Walked

(* t is s with one element replaced by e. *)
Replaced(S, s, e, t) == t \in Seq(S) /\ Len(t) = Len(s) /\ Range(t) \subseteq Range(s) \cup {e}

LEMMA ExceptIs ==
  ASSUME NEW S, NEW s \in Seq(S), NEW j \in DOMAIN s, NEW e \in S
  PROVE  Replaced(S, s, e, [s EXCEPT ![j] = e])
<1>0. PICK t : t = [s EXCEPT ![j] = e]
  OBVIOUS
<1>1. PICK l \in Nat : l = Len(s) /\ DOMAIN s = 1 .. l /\ \A k \in 1 .. l : s[k] \in S
  OBVIOUS
<1>2. t = [k \in 1 .. l |-> t[k]] /\ \A k \in 1 .. l : t[k] = IF k = j THEN e ELSE s[k]
  BY <1>0, <1>1
<1>3. t \in [1 .. l -> S]
  BY <1>1, <1>2
<1>4. t \in Seq(S) /\ Len(t) = l /\ DOMAIN t = 1 .. l
  BY <1>1, <1>3
<1>5. Range(t) \subseteq Range(s) \cup {e}
  BY <1>1, <1>2, <1>4 DEF Range
<1> QED
  BY <1>0, <1>1, <1>4, <1>5 DEF Replaced

LEMMA CopiedPath ==
  ASSUME NEW h, Whole(h), Sized(h), NEW i \in Position, NEW p, NEW m \in Nat, m = Len(p),
         NEW walk, Walked(h, p, m, walk, i),
         NEW x, Changed(h, x, i), m <= Room(x.heap), p = <<>> <=> m = 0,
         NEW r, r = CopyPath(x, h, walk, p)
  PROVE  Changed(h, r, i) /\ r.name = x.name
<1>1. PICK g : g = x.heap
  OBVIOUS
<1>2. PICK copy : copy = Fresh(g, m)
  OBVIOUS
<1>3. copy \in [1 .. m -> Arrays \ DOMAIN g] /\ \A k, j \in 1 .. m : copy[k] = copy[j] => k = j
  BY <1>1, <1>2, FreshIs
<1>4. Copied(h, g) /\ Whole(g) /\ Sized(g) /\ Usable(g, x.value, i)
  BY <1>1, CopiedWhole DEF Changed
<1> DEFINE elem(k) == IF k = m THEN x.value ELSE copy[k + 1]
           content(k) == [h[walk[k - 1]] EXCEPT ![p[k]] = elem(k)]
           new == [a \in Range(copy) |->
                LET k == CHOOSE n \in DOMAIN copy : copy[n] = a
                IN  [h[walk[k - 1]] EXCEPT ![p[k]] = elem(k)]]
<1>5. r = [value |-> IF p = <<>> THEN x.value ELSE copy[1], heap |-> Extend(g, new), name |-> x.name]
  BY <1>1, <1>2 DEF CopyPath
<1>6. DOMAIN copy = 1 .. m /\ Range(copy) = {copy[k] : k \in 1 .. m}
  BY <1>3 DEF Range
<1>7. \A k \in 1 .. m : new[copy[k]] = content(k)
  <2> TAKE k \in 1 .. m
  <2>1. k = CHOOSE n \in DOMAIN copy : copy[n] = copy[k]
    BY <1>3, <1>6
  <2>2. copy[k] \in Range(copy)
    BY <1>6
  <2> HIDE DEF elem
  <2> QED
    BY <2>1, <2>2
<1>8. DOMAIN new = Range(copy)
  OBVIOUS
<1>9. ASSUME NEW k \in 1 .. m
      PROVE  /\ content(k) \in Seq(Value) /\ Len(content(k)) <= LongestArray
             /\ \A v \in Range(content(k)) : Usable(g, v, i) \/ \E j \in 1 .. m : j > k /\ v = copy[j]
  <2>1. k - 1 \in 0 .. m
    OBVIOUS
  <2>2. PICK a \in DOMAIN h : a = walk[k - 1]
    BY DEF Walked
  <2>3. p[k] \in DOMAIN h[a] /\ Usable(h, a, i)
    BY <2>1, <2>2 DEF Walked
  <2>4. PICK s \in Seq(Value) : s = h[a]
    BY DEF Whole, IsHeap
  <2>5. PICK j \in DOMAIN s : j = p[k]
    BY <2>3, <2>4
  <2>6. elem(k) \in Value /\ (Usable(g, elem(k), i) \/ \E l \in 1 .. m : l > k /\ elem(k) = copy[l])
    <3>1. CASE k = m
      BY <3>1, <1>4, UsableIsValue DEF Whole
    <3>2. CASE k # m
      <4>1. k + 1 \in 1 .. m /\ k + 1 > k
        BY <3>2
      <4>2. elem(k) = copy[k + 1] /\ copy[k + 1] \in Arrays
        BY <4>1, <3>2, <1>3
      <4> QED
        BY <4>1, <4>2 DEF Value
    <3> QED
      BY <3>1, <3>2
  <2>7. PICK e \in Value : e = elem(k)
    BY <2>6
  <2>8. PICK t : t = [s EXCEPT ![j] = e]
    OBVIOUS
  <2>9. content(k) = t
    BY <2>2, <2>4, <2>5, <2>7, <2>8
  <2>10. t \in Seq(Value) /\ Len(t) = Len(s) /\ Range(t) \subseteq Range(s) \cup {e}
    <3>1. s \in Seq(Value) /\ j \in DOMAIN s /\ e \in Value
      OBVIOUS
    <3>2. PICK S : S = Value
      OBVIOUS
    <3>3. s \in Seq(S) /\ j \in DOMAIN s /\ e \in S
      BY <3>1, <3>2
    <3>4. t \in Seq(S) /\ Len(t) = Len(s) /\ Range(t) \subseteq Range(s) \cup {e}
      <4>1. Replaced(S, s, e, [s EXCEPT ![j] = e])
        BY ONLY <3>3, ExceptIs
      <4> QED
        BY ONLY <4>1, <2>8 DEF Replaced
    <3> QED
      BY <3>2, <3>4
  <2>11. Len(t) <= LongestArray
    BY <2>4, <2>10 DEF Sized
  <2>12. \A v \in Range(s) : Usable(g, v, i)
    <3>1. \A v \in Range(s) : Usable(h, v, i)
      BY <2>3, <2>4, UsableElement DEF Whole
    <3> QED
      BY <3>1, <1>4, UsableLater DEF Copied
  <2> HIDE DEF content, elem
  <2> QED
    BY <2>6, <2>7, <2>9, <2>10, <2>11, <2>12
<1>10. PICK w : w = new
  OBVIOUS
<1>11. Copied(g, Extend(g, w)) /\ \A k \in 1 .. m : Usable(Extend(g, w), copy[k], i)
  <2>1. DOMAIN w = Range(copy)
    BY <1>8, <1>10
  <2>2. \A k \in 1 .. m :
             /\ w[copy[k]] \in Seq(Value) /\ Len(w[copy[k]]) <= LongestArray
             /\ \A v \in Range(w[copy[k]]) : Usable(g, v, i) \/ \E j \in 1 .. m : j > k /\ v = copy[j]
    <3> HIDE DEF new, content
    <3> QED
      BY <1>7, <1>9, <1>10
  <2>3. Whole(g) /\ i \in Position /\ m \in Nat
    BY <1>4
  <2> QED
    BY ONLY <1>3, <2>1, <2>2, <2>3, Added
<1> HIDE DEF new
<1>12. r.heap = Extend(g, w) /\ r.name = x.name /\ r.value = IF m = 0 THEN x.value ELSE copy[1]
  BY <1>5, <1>10
<1>13. Copied(h, r.heap)
  BY <1>4, <1>11, <1>12, CopiedTrans
<1>14. Usable(r.heap, r.value, i)
  <2>1. CASE m = 0
    <3>1. Grows(g, r.heap)
      BY <1>11, <1>12 DEF Copied
    <3> QED
      BY <2>1, <3>1, <1>4, <1>12, UsableLater
  <2>2. CASE m # 0
    <3>1. 1 \in 1 .. m
      BY <2>2
    <3> QED
      BY <2>2, <3>1, <1>11, <1>12
  <2> QED
    BY <2>1, <2>2
<1> QED
  BY <1>12, <1>13, <1>14 DEF Changed

LEMMA MutatedValue ==
  ASSUME NEW h, Whole(h), Sized(h), NEW i \in Position, NEW v, Usable(h, v, i),
         lastMutator \in MutatorName, NEW r \in MutateValue(h, v, i)
  PROVE  Changed(h, r, i) /\ r.name \in MutatorName
<1>1. PICK p \in Paths(h, v) :
        \E x \in MutateHere(h, Walk(h, v, p)[Len(p)], i, Len(p) + 1,
                            IF p = <<>> THEN lastMutator ELSE "MutateElement") :
          Room(x.heap) >= Len(p) /\ r = CopyPath(x, h, Walk(h, v, p), p)
  BY DEF MutateValue
<1>2. PICK walk : walk = Walk(h, v, p)
  OBVIOUS
<1>3. PICK m \in Nat : m = Len(p) /\ (p = <<>> <=> m = 0)
  <2>1. PICK T : p \in BoundedSeq(T, MaxDepth)
    BY DEF Paths
  <2>2. PICK l \in 0 .. MaxDepth : p \in [1 .. l -> T]
    BY <2>1 DEF BoundedSeq, SeqOf
  <2>3. l \in Nat
    BY SizesAssumption
  <2>4. p \in Seq(T) /\ Len(p) = l
    BY <2>2, <2>3
  <2> QED
    BY <2>3, <2>4
<1>4. walk[m] # NoThis
  BY <1>2, <1>3 DEF Paths
<1>5. Walked(h, p, m, walk, i)
  <2>1. v \in Value
    BY UsableIsValue DEF Whole
  <2>2. WalkIs(h, v, p, m, walk)
    BY <1>2, <1>3, <2>1, WalkExists DEF Whole
  <2> QED
    BY <1>4, <2>2, PathWalked
<1>6. PICK name \in MutatorName : name = IF p = <<>> THEN lastMutator ELSE "MutateElement"
  BY DEF MutatorName
<1>7. PICK x \in MutateHere(h, walk[m], i, m + 1, name) : Room(x.heap) >= m /\ r = CopyPath(x, h, walk, p)
  BY <1>1, <1>2, <1>3, <1>6
<1>8. m \in 0 .. m
  OBVIOUS
<1>9. Usable(h, walk[m], i)
  BY <1>5, <1>8 DEF Walked
<1>10. Changed(h, x, i) /\ x.name \in MutatorName
  BY <1>7, <1>9, MutatedHere
<1>11. m <= Room(x.heap)
  <2>1. IsFiniteSet(Arrays \ DOMAIN x.heap)
    BY ReferencesAssumption, FS_Difference
  <2>2. Room(x.heap) \in Nat
    BY <2>1, FS_CardinalityType DEF Room
  <2> QED
    BY <1>7, <2>2
<1>12. Changed(h, r, i) /\ r.name = x.name
  BY <1>3, <1>5, <1>7, <1>10, <1>11, CopiedPath
<1> QED
  BY <1>10, <1>12

(* Test cases. *)
Solid(cs, h) ==
  /\ TestCase(cs, h)
  /\ \A i \in DOMAIN cs : Len(cs[i].args) <= MostArguments
  /\ Sized(h)

LEMMA SolidIs ==
  ASSUME NEW cs, NEW h, Solid(cs, h)
  PROVE  /\ Whole(h)
         /\ Len(cs) \in Position /\ DOMAIN cs = 1 .. Len(cs) /\ DOMAIN cs \subseteq Position
         /\ \A i \in DOMAIN cs : /\ cs[i] \in Call /\ CallValues(cs[i]) \subseteq Value
                                 /\ CallValues(cs[i]) \cap Arrays \subseteq DOMAIN h
<1>1. cs \in Seq(Call) /\ Len(cs) \in 1 .. MaxCalls
  BY DEF Solid, TestCase
<1>2. DOMAIN cs = 1 .. Len(cs) /\ DOMAIN cs \subseteq Position /\ Len(cs) \in Position
  BY <1>1, SizesAssumption DEF Position
<1>3. ASSUME NEW i \in DOMAIN cs
      PROVE  cs[i] \in Call /\ CallValues(cs[i]) \subseteq Value
  <2>1. cs[i] \in Call
    BY <1>1
  <2>2. cs[i].args \in Seq(Value) /\ cs[i].this \in Value \cup {NoThis}
    BY <2>1 DEF Call
  <2>3. Range(cs[i].args) \subseteq Value
    BY <2>2 DEF Range
  <2> QED
    BY <2>1, <2>2, <2>3 DEF CallValues
<1>4. Whole(h)
  BY DEF Solid, TestCase, Whole, IsHeap
<1> QED
  BY <1>2, <1>3, <1>4 DEF Solid, TestCase

(* Dropping the arrays that nothing refers to changes no call. *)
LEMMA Restricted ==
  ASSUME NEW cs, NEW h, Solid(cs, h), NEW g, g = Restrict(h, LiveArrays(cs, h))
  PROVE  Solid(cs, g) /\ \A i \in DOMAIN cs : Uses(cs, g, i) = Uses(cs, h, i)
<1>1. PICK V : V = UNION {CallValues(cs[i]) : i \in DOMAIN cs}
  OBVIOUS
<1>2. PICK L : L = Reach(h, V)
  OBVIOUS
<1>3. g = Restrict(h, L)
  BY <1>1, <1>2 DEF LiveArrays
<1>4. Closed(h, L) /\ V \cap DOMAIN h \subseteq L
  BY <1>2, ReachIsClosed
<1>5. DOMAIN g = L /\ L \subseteq DOMAIN h /\ \A a \in L : g[a] = h[a]
  BY <1>3, <1>4 DEF Restrict, Closed
<1>6. Whole(h) /\ \A i \in DOMAIN cs : CallValues(cs[i]) \cap Arrays \subseteq DOMAIN h
  BY SolidIs
<1>7. g = [a \in DOMAIN g |-> g[a]]
  BY <1>3 DEF Restrict
<1>8. DOMAIN g \subseteq Arrays /\ g \in [DOMAIN g -> Seq(Value)]
  BY <1>5, <1>6, <1>7 DEF Whole, IsHeap
<1>9. \A a \in DOMAIN g : Range(g[a]) \cap Arrays \subseteq DOMAIN g
  BY <1>4, <1>5, <1>6 DEF Whole, Closed
<1>10. \A i \in DOMAIN cs : CallValues(cs[i]) \cap Arrays \subseteq DOMAIN g
  BY <1>1, <1>4, <1>5, <1>6
<1>11. Solid(cs, g)
  BY <1>5, <1>8, <1>9, <1>10 DEF Solid, TestCase, Sized
<1>12. ASSUME NEW i \in DOMAIN cs
       PROVE  Uses(cs, g, i) = Uses(cs, h, i)
  <2>1. PICK W : W = CallValues(cs[i])
    OBVIOUS
  <2>2. W \cap DOMAIN h \subseteq L
    BY <1>1, <1>4, <2>1
  <2>3. UsesOf(g, W) = UsesOf(h, W)
    BY <1>3, <1>4, <2>2, RestrictedUses
  <2> QED
    BY <2>1, <2>3, UsesOfCall
<1> QED
  BY <1>11, <1>12

(* No array can be reached from its own elements. *)
Loopless(h) == \A a \in DOMAIN h : a \notin Reach(h, Range(h[a]))

(* Arrays are added that are in no cycle, and old arrays hold no old array they
   did not hold.  When an old array and a new one cannot refer to each other in
   both directions, there is still no cycle. *)
LEMMA StillLoopless ==
  ASSUME NEW h, NEW g, DOMAIN h \subseteq DOMAIN g,
         \A a \in DOMAIN h : Range(g[a]) \cap DOMAIN h \subseteq Range(h[a]),
         \/ \A a \in DOMAIN h : Range(g[a]) \cap DOMAIN g \subseteq DOMAIN h
         \/ \A a \in DOMAIN g \ DOMAIN h : Range(g[a]) \cap DOMAIN h = {},
         \A a \in DOMAIN g \ DOMAIN h :
           \E D \in SUBSET DOMAIN g :
             Closed(g, D) /\ Range(g[a]) \cap DOMAIN g \subseteq D /\ a \notin D,
         Loopless(h)
  PROVE  Loopless(g)
<1> SUFFICES ASSUME NEW a \in DOMAIN g
             PROVE  a \notin Reach(g, Range(g[a]))
  BY DEF Loopless
<1>1. CASE a \notin DOMAIN h
  <2>1. PICK D \in SUBSET DOMAIN g :
          Closed(g, D) /\ Range(g[a]) \cap DOMAIN g \subseteq D /\ a \notin D
    BY <1>1
  <2>2. PICK V : V = Range(g[a])
    OBVIOUS
  <2>3. Reach(g, V) \subseteq D
    BY <2>1, <2>2, ReachIsLeast
  <2> QED
    BY <2>1, <2>2, <2>3
<1>2. CASE a \in DOMAIN h
  <2>1. PICK V : V = Range(h[a])
    OBVIOUS
  <2>2. PICK W : W = Range(g[a])
    OBVIOUS
  <2>3. PICK R : R = Reach(h, V)
    OBVIOUS
  <2>4. Closed(h, R) /\ V \cap DOMAIN h \subseteq R /\ a \notin R
    BY <1>2, <2>1, <2>3, ReachIsClosed DEF Loopless
  <2>5. W \cap DOMAIN h \subseteq R
    BY <1>2, <2>1, <2>2, <2>4
  <2>6. \A b \in R : Range(g[b]) \cap DOMAIN h \subseteq R
    BY <2>4 DEF Closed
  <2>7. CASE \A b \in DOMAIN h : Range(g[b]) \cap DOMAIN g \subseteq DOMAIN h
    <3>1. Closed(g, R) /\ W \cap DOMAIN g \subseteq R
      BY <1>2, <2>2, <2>4, <2>5, <2>6, <2>7 DEF Closed
    <3>2. Reach(g, W) \subseteq R
      BY <3>1, ReachIsLeast
    <3> QED
      BY <2>2, <2>4, <3>2
  <2>8. CASE \A b \in DOMAIN g \ DOMAIN h : Range(g[b]) \cap DOMAIN h = {}
    <3>1. PICK C : C = R \cup (DOMAIN g \ DOMAIN h)
      OBVIOUS
    <3>2. C \subseteq DOMAIN g /\ a \notin C /\ W \cap DOMAIN g \subseteq C
      BY <1>2, <2>4, <2>5, <3>1 DEF Closed
    <3>3. \A b \in C : Range(g[b]) \cap DOMAIN g \subseteq C
      BY <2>4, <2>6, <2>8, <3>1 DEF Closed
    <3>4. Reach(g, W) \subseteq C
      BY <3>2, <3>3, ReachIsLeast DEF Closed
    <3> QED
      BY <2>2, <3>2, <3>4
  <2> QED
    BY <2>7, <2>8
<1> QED
  BY <1>1, <1>2

LEMMA CopiedLoopless ==
  ASSUME NEW h, Whole(h), NEW g, Copied(h, g), Loopless(h)
  PROVE  Loopless(g)
<1>1. DOMAIN h \subseteq DOMAIN g /\ \A a \in DOMAIN h : Range(g[a]) = Range(h[a])
  BY DEF Copied, Grows
<1>2. \A a \in DOMAIN h : Range(g[a]) \cap DOMAIN g \subseteq DOMAIN h
  BY <1>1 DEF Copied, Whole, IsHeap
<1>3. \A a \in DOMAIN g \ DOMAIN h :
        \E D \in SUBSET DOMAIN g :
          Closed(g, D) /\ Range(g[a]) \cap DOMAIN g \subseteq D /\ a \notin D
  BY DEF Copied
<1> QED
  BY <1>1, <1>2, <1>3, StillLoopless

LEMMA RestrictedLoopless ==
  ASSUME NEW h, NEW V, NEW g, g = Restrict(h, Reach(h, V)), Loopless(h)
  PROVE  Loopless(g)
<1>1. PICK L : L = Reach(h, V)
  OBVIOUS
<1>2. Closed(h, L)
  BY <1>1, ReachIsClosed
<1>3. g = Restrict(h, L) /\ DOMAIN g = L /\ L \subseteq DOMAIN h /\ \A a \in L : g[a] = h[a]
  BY <1>1, <1>2 DEF Restrict, Closed
<1> SUFFICES ASSUME NEW a \in DOMAIN g
             PROVE  a \notin Reach(g, Range(g[a]))
  BY DEF Loopless
<1>4. PICK W : W = Range(h[a])
  OBVIOUS
<1>5. W \cap DOMAIN h \subseteq L /\ Range(g[a]) = W /\ a \in DOMAIN h
  BY <1>2, <1>3, <1>4 DEF Closed
<1>6. Reach(g, W) = Reach(h, W)
  BY <1>2, <1>3, <1>5, RestrictedUses
<1> QED
  BY <1>4, <1>5, <1>6 DEF Loopless

(* The operands of one call are replaced. *)
Edited(cs, i, c, ds) ==
  /\ ds \in Seq(Call) /\ Len(ds) = Len(cs)
  /\ ds[i] = c /\ \A j \in DOMAIN cs : j # i => ds[j] = cs[j]

LEMMA EditIs ==
  ASSUME NEW cs \in Seq(Call), NEW i \in DOMAIN cs, NEW c \in Call, NEW ds, ds = [cs EXCEPT ![i] = c]
  PROVE  Edited(cs, i, c, ds)
<1>1. PICK l \in Nat : l = Len(cs) /\ DOMAIN cs = 1 .. l /\ \A k \in 1 .. l : cs[k] \in Call
  OBVIOUS
<1>2. ds = [k \in 1 .. l |-> ds[k]] /\ \A k \in 1 .. l : ds[k] = IF k = i THEN c ELSE cs[k]
  BY <1>1
<1>3. ds \in [1 .. l -> Call]
  BY <1>1, <1>2
<1>4. ds \in Seq(Call) /\ Len(ds) = l
  BY <1>1, <1>3
<1> QED
  BY <1>1, <1>2, <1>4 DEF Edited

(* The calls of a test case, what each calls and which calls it uses. *)
Backward(cs, h) == \A i \in DOMAIN cs : Uses(cs, h, i) \subseteq Earlier(i)

OnlyOne(cs, h, ds, g, i) ==
  /\ DOMAIN ds = DOMAIN cs
  /\ \A j \in DOMAIN cs : ds[j].callee = cs[j].callee /\ (j # i => Uses(ds, g, j) = Uses(cs, h, j))
  /\ Uses(ds, g, i) \subseteq Earlier(i)

LEMMA Rewritten ==
  ASSUME NEW cs, NEW h, Solid(cs, h), NEW g, Copied(h, g), NEW i \in DOMAIN cs,
         NEW c \in Call, c.callee = cs[i].callee, Len(c.args) <= MostArguments,
         \A v \in CallValues(c) : Usable(g, v, i), NEW ds, Edited(cs, i, c, ds)
  PROVE  Solid(ds, g) /\ OnlyOne(cs, h, ds, g, i)
<1>1. Whole(h) /\ Sized(h) /\ i \in Position
  BY SolidIs DEF Solid
<1>2. Whole(g) /\ Sized(g) /\ Grows(h, g) /\ IsHeap(g) /\ DOMAIN g \subseteq Arrays
  BY <1>1, CopiedWhole DEF Copied, IsHeap
<1>3. cs \in Seq(Call) /\ ds \in Seq(Call) /\ DOMAIN ds = DOMAIN cs /\ Len(ds) = Len(cs)
  BY DEF Edited, Solid, TestCase
<1>4. \A v \in CallValues(c) : v \in Arrays => v \in DOMAIN g
  BY <1>1, <1>2, UsableIsValue
<1>5. \A j \in DOMAIN cs : CallValues(ds[j]) \cap Arrays \subseteq DOMAIN g
  BY <1>2, <1>4, SolidIs DEF Edited, Grows
<1>6. \A j \in DOMAIN ds : Len(ds[j].args) <= MostArguments
  BY <1>3 DEF Edited, Solid
<1>7. Solid(ds, g)
  BY <1>2, <1>3, <1>5, <1>6 DEF Solid, TestCase, Whole, IsHeap
<1>8. ASSUME NEW j \in DOMAIN cs, j # i
      PROVE  Uses(ds, g, j) = Uses(cs, h, j)
  <2>1. PICK W : W = CallValues(cs[j])
    OBVIOUS
  <2>2. W \cap Arrays \subseteq DOMAIN h
    BY <2>1, SolidIs
  <2>3. UsesOf(g, W) = UsesOf(h, W)
    BY <1>1, <1>2, <2>2, GrownUses
  <2>4. CallValues(ds[j]) = W
    BY <2>1, <1>8 DEF Edited
  <2> QED
    BY <2>1, <2>3, <2>4, UsesOfCall
<1>9. Uses(ds, g, i) \subseteq Earlier(i)
  <2>1. CallValues(ds[i]) = CallValues(c)
    BY DEF Edited
  <2>2. UsesOf(g, CallValues(c)) \subseteq Earlier(i)
    BY <1>1, <1>2, UsableUses
  <2> QED
    BY <2>1, <2>2, UsesOfCall
<1>10. \A j \in DOMAIN cs : ds[j].callee = cs[j].callee
  BY DEF Edited
<1> QED
  BY <1>3, <1>7, <1>8, <1>9, <1>10 DEF OnlyOne

(* What a call uses it may use. *)
LEMMA OperandsUsable ==
  ASSUME NEW cs, NEW h, Solid(cs, h), Backward(cs, h), NEW i \in DOMAIN cs
  PROVE  \A v \in CallValues(cs[i]) : Usable(h, v, i)
<1>1. PICK V : V = CallValues(cs[i])
  OBVIOUS
<1>2. Whole(h) /\ i \in Position /\ V \subseteq Value /\ V \cap Arrays \subseteq DOMAIN h
  BY <1>1, SolidIs
<1>3. UsesOf(h, V) \subseteq Earlier(i)
  BY <1>1, UsesOfCall DEF Backward
<1>4. \A v \in V : Usable(h, v, i)
  BY ONLY <1>2, <1>3, UsedIsUsable
<1> QED
  BY <1>1, <1>4

-----------------------------------------------------------------------------
(* The mutators of an operand. *)

(* What a test case is between mutations. *)
Sound == Solid(calls, heap) /\ Backward(calls, heap) /\ lastMutator \in MutatorName

(* A mutator that changes one call only. *)
EditsOne(i) ==
  /\ Sound' /\ (Loopless(heap) => Loopless(heap'))
  /\ \E new \in SUBSET Earlier(i) : Refs!Rewrite(i, new)

LEMMA EditKept ==
  ASSUME Sound, NEW i \in DOMAIN calls, NEW ds, NEW g, Solid(ds, g), OnlyOne(calls, heap, ds, g, i),
         Loopless(heap) => Loopless(g), NEW name \in MutatorName, Become(ds, g, name)
  PROVE  EditsOne(i)
<1>1. PICK k : k = Restrict(g, LiveArrays(ds, g))
  OBVIOUS
<1>2. calls' = ds /\ heap' = k /\ lastMutator' = name
  BY <1>1 DEF Become
<1>3. Solid(ds, k) /\ \A j \in DOMAIN ds : Uses(ds, k, j) = Uses(ds, g, j)
  BY <1>1, Restricted
<1>4. OnlyOne(calls, heap, ds, k, i)
  BY <1>3 DEF OnlyOne
<1>5. Sound'
  <2>1. Backward(ds, k)
    BY <1>4 DEF OnlyOne, Backward, Sound
  <2> QED
    BY <1>2, <1>3, <2>1 DEF Sound
<1>6. PICK new \in SUBSET Earlier(i) : new = Uses(ds, k, i)
  BY <1>4 DEF OnlyOne
<1>7. Refs!Rewrite(i, new)
  <2>1. RefsOf(ds, k).callees = RefsOf(calls, heap).callees
    BY <1>4 DEF RefsOf, OnlyOne
  <2>2. RefsOf(ds, k).refs = [RefsOf(calls, heap).refs EXCEPT ![i] = new]
    BY <1>4, <1>6 DEF RefsOf, OnlyOne
  <2> QED
    BY <1>2, <2>1, <2>2 DEF Refs!Rewrite
<1>8. Loopless(g) => Loopless(k)
  BY <1>1, RestrictedLoopless DEF LiveArrays
<1> QED
  BY <1>2, <1>5, <1>6, <1>7, <1>8 DEF EditsOne

(* A call whose operands call i may use replaces call i. *)
LEMMA OperandEdited ==
  ASSUME Sound, NEW i \in DOMAIN calls, NEW g, Copied(heap, g),
         NEW c \in Call, c.callee = calls[i].callee, Len(c.args) <= MostArguments,
         \A v \in CallValues(c) : Usable(g, v, i),
         NEW name \in MutatorName, NEW ds, ds = [calls EXCEPT ![i] = c], Become(ds, g, name)
  PROVE  EditsOne(i)
<1>1. calls \in Seq(Call) /\ Solid(calls, heap)
  BY DEF Sound, Solid, TestCase
<1>2. Edited(calls, i, c, ds)
  BY <1>1, EditIs
<1>3. Solid(ds, g) /\ OnlyOne(calls, heap, ds, g, i)
  <2>1. PICK cs : cs = calls
    OBVIOUS
  <2>2. PICK h : h = heap
    OBVIOUS
  <2>3. /\ Solid(cs, h) /\ Copied(h, g) /\ i \in DOMAIN cs
        /\ c \in Call /\ c.callee = cs[i].callee /\ Len(c.args) <= MostArguments
        /\ (\A v \in CallValues(c) : Usable(g, v, i)) /\ Edited(cs, i, c, ds)
    BY <1>1, <1>2, <2>1, <2>2
  <2>4. Solid(ds, g) /\ OnlyOne(cs, h, ds, g, i)
    BY ONLY <2>3, Rewritten
  <2> QED
    BY <2>1, <2>2, <2>4
<1>4. Loopless(heap) => Loopless(g)
  <2>1. Whole(heap)
    BY <1>1, SolidIs
  <2> QED
    BY <2>1, CopiedLoopless
<1> QED
  BY <1>3, <1>4, EditKept

(* The operands call i had stay usable when the heap grows. *)
LEMMA OldOperands ==
  ASSUME Sound, NEW i \in DOMAIN calls, NEW g, Copied(heap, g)
  PROVE  /\ calls[i] \in Call /\ i \in Position
         /\ Whole(heap) /\ Sized(heap) /\ Len(calls[i].args) <= MostArguments
         /\ \A v \in CallValues(calls[i]) : Usable(heap, v, i) /\ Usable(g, v, i)
<1>1. PICK cs : cs = calls
  OBVIOUS
<1>2. PICK h : h = heap
  OBVIOUS
<1>3. Solid(cs, h) /\ Backward(cs, h) /\ i \in DOMAIN cs /\ Grows(h, g)
  BY <1>1, <1>2 DEF Sound, Copied
<1>4. \A v \in CallValues(cs[i]) : Usable(h, v, i)
  BY ONLY <1>3, OperandsUsable
<1>5. \A v \in CallValues(cs[i]) : Usable(g, v, i)
  BY <1>3, <1>4, UsableLater
<1>6. cs[i] \in Call /\ i \in Position /\ Whole(h) /\ Sized(h) /\ Len(cs[i].args) <= MostArguments
  BY <1>3, SolidIs DEF Solid
<1> QED
  BY <1>1, <1>2, <1>4, <1>5, <1>6

LEMMA AddArgumentEdits ==
  ASSUME Sound, NEW i \in DOMAIN calls, AddArgument(i)
  PROVE  EditsOne(i)
<1>1. PICK r \in GenerateValue(heap, i) :
        Become([calls EXCEPT ![i].args = Append(@, r.value)], r.heap, "AddArgument")
  BY DEF AddArgument
<1>2. Copied(heap, heap) /\ IsHeap(heap) /\ i \in Position
  BY NothingCopied, SolidIs DEF Sound, Whole
<1>3. Planted(heap, r.heap) /\ Backed(heap, r.heap, r.value, i)
  BY <1>2, GeneratedValue
<1>4. Copied(heap, r.heap) /\ Usable(r.heap, r.value, i) /\ IsHeap(r.heap)
  BY <1>3, PlantedIsCopied, BackedIsUsable DEF Planted
<1>5. /\ calls[i] \in Call /\ \A v \in CallValues(calls[i]) : Usable(r.heap, v, i)
  BY <1>4, OldOperands
<1>6. PICK s \in Seq(Value) : s = calls[i].args /\ calls[i] = [calls[i] EXCEPT !.args = s]
  BY <1>5 DEF Call
<1>7. PICK e \in Value : e = r.value
  BY <1>2, <1>4, UsableIsValue
<1>8. PICK t : t = Append(s, e)
  OBVIOUS
<1>9. t \in Seq(Value) /\ Len(t) = Len(s) + 1 /\ Range(t) = Range(s) \cup {e}
  BY <1>8, AppendIs
<1>10. Len(t) <= MostArguments
  <2>1. Len(s) < MaxArguments /\ Len(s) \in Nat
    BY <1>6 DEF AddArgument
  <2>2. MostArguments \in Nat /\ MaxArguments \in Nat /\ MaxArguments <= MostArguments
    BY Sizes, SizesAssumption
  <2> QED
    BY <1>9, <2>1, <2>2
<1>11. PICK c : c = [calls[i] EXCEPT !.args = t]
  OBVIOUS
<1>12. c \in Call /\ c.args = t /\ c.this = calls[i].this /\ c.callee = calls[i].callee
  BY <1>5, <1>9, <1>11 DEF Call
<1>13. \A v \in CallValues(c) : Usable(r.heap, v, i)
  BY <1>4, <1>5, <1>6, <1>7, <1>9, <1>12 DEF CallValues
<1>14. [calls EXCEPT ![i].args = Append(@, r.value)] = [calls EXCEPT ![i] = c]
  BY <1>6, <1>7, <1>8, <1>11
<1>15. PICK ds : ds = [calls EXCEPT ![i] = c]
  OBVIOUS
<1>16. Become(ds, r.heap, "AddArgument") /\ "AddArgument" \in MutatorName
  BY <1>1, <1>14, <1>15 DEF MutatorName
<1>17. PICK g : g = r.heap
  OBVIOUS
<1>18. /\ Copied(heap, g) /\ Len(c.args) <= MostArguments
       /\ (\A v \in CallValues(c) : Usable(g, v, i)) /\ Become(ds, g, "AddArgument")
  BY <1>4, <1>10, <1>12, <1>13, <1>16, <1>17
<1> QED
  BY <1>12, <1>15, <1>16, <1>18, OperandEdited

LEMMA RemoveArgumentEdits ==
  ASSUME Sound, NEW i \in DOMAIN calls, RemoveArgument(i)
  PROVE  EditsOne(i)
<1>1. PICK n \in DOMAIN calls[i].args :
        Become([calls EXCEPT ![i].args = RemoveAt(@, n)], heap, "RemoveArgument")
  BY DEF RemoveArgument
<1>2. Copied(heap, heap)
  BY NothingCopied, SolidIs DEF Sound, Whole
<1>3. calls[i] \in Call /\ \A v \in CallValues(calls[i]) : Usable(heap, v, i)
  BY <1>2, OldOperands
<1>4. Len(calls[i].args) <= MostArguments
  BY <1>2, OldOperands
<1>5. PICK s \in Seq(Value) : s = calls[i].args
  BY <1>3 DEF Call
<1>6. n \in 1 .. Len(s)
  BY <1>5
<1>7. PICK t : t = RemoveAt(s, n)
  OBVIOUS
<1>8. /\ t \in Seq(Value) /\ Len(t) = Len(s) - 1 /\ DOMAIN t = 1 .. (Len(s) - 1)
      /\ \A k \in 1 .. (Len(s) - 1) : t[k] = IF k < n THEN s[k] ELSE s[k + 1]
  BY <1>6, <1>7, RemoveAtIs
<1>9. Range(t) \subseteq Range(s)
  <2>1. PICK l \in Nat : l = Len(s) /\ DOMAIN s = 1 .. l
    OBVIOUS
  <2>2. ASSUME NEW k \in DOMAIN t PROVE t[k] \in Range(s)
    <3>1. k \in 1 .. l /\ k + 1 \in 1 .. l
      BY <1>8, <2>1
    <3> QED
      BY <1>8, <2>1, <3>1 DEF Range
  <2> QED
    BY <2>2 DEF Range
<1>10. Len(t) <= MostArguments
  <2>1. Len(s) \in Nat /\ MostArguments \in Nat /\ Len(s) <= MostArguments
    BY <1>4, <1>5, Sizes
  <2> QED
    BY <1>8, <2>1
<1>11. PICK c : c = [calls[i] EXCEPT !.args = t]
  OBVIOUS
<1>12. c \in Call /\ c.args = t /\ c.this = calls[i].this /\ c.callee = calls[i].callee
  BY <1>3, <1>8, <1>11 DEF Call
<1>13. \A v \in CallValues(c) : Usable(heap, v, i)
  BY <1>3, <1>5, <1>9, <1>12 DEF CallValues
<1>14. [calls EXCEPT ![i].args = RemoveAt(@, n)] = [calls EXCEPT ![i] = c]
  BY <1>5, <1>7, <1>11
<1>15. PICK ds : ds = [calls EXCEPT ![i] = c]
  OBVIOUS
<1>16. Become(ds, heap, "RemoveArgument") /\ "RemoveArgument" \in MutatorName
  BY <1>1, <1>14, <1>15 DEF MutatorName
<1>17. PICK g : g = heap
  OBVIOUS
<1>18. /\ Copied(heap, g) /\ Len(c.args) <= MostArguments
       /\ (\A v \in CallValues(c) : Usable(g, v, i)) /\ Become(ds, g, "RemoveArgument")
  BY <1>2, <1>10, <1>12, <1>13, <1>16, <1>17
<1> QED
  BY <1>12, <1>15, <1>16, <1>18, OperandEdited

(* `this` of call i is replaced by a value the call may use. *)
LEMMA ThisEdited ==
  ASSUME Sound, NEW i \in DOMAIN calls, NEW g, Copied(heap, g), NEW e, Usable(g, e, i),
         NEW name \in MutatorName, Become([calls EXCEPT ![i].this = e], g, name)
  PROVE  EditsOne(i)
<1>1. /\ calls[i] \in Call /\ i \in Position /\ Len(calls[i].args) <= MostArguments
      /\ \A v \in CallValues(calls[i]) : Usable(g, v, i)
  BY OldOperands
<1>2. e \in Value
  BY <1>1, UsableIsValue DEF Copied
<1>3. PICK c : c = [calls[i] EXCEPT !.this = e]
  OBVIOUS
<1>4. c \in Call /\ c.this = e /\ c.args = calls[i].args /\ c.callee = calls[i].callee
  BY <1>1, <1>2, <1>3 DEF Call
<1>5. \A v \in CallValues(c) : Usable(g, v, i)
  BY <1>1, <1>4 DEF CallValues
<1>6. PICK ds : ds = [calls EXCEPT ![i] = c]
  OBVIOUS
<1>7. Become(ds, g, name)
  BY <1>3, <1>6
<1>8. Len(c.args) <= MostArguments
  BY <1>1, <1>4
<1> QED
  BY <1>4, <1>5, <1>6, <1>7, <1>8, OperandEdited

LEMMA MutateThisEdits ==
  ASSUME Sound, NEW i \in DOMAIN calls, MutateThis(i)
  PROVE  EditsOne(i)
<1>1. Copied(heap, heap) /\ IsHeap(heap)
  BY NothingCopied, SolidIs DEF Sound, Whole
<1>2. /\ calls[i] \in Call /\ i \in Position /\ Whole(heap) /\ Sized(heap)
      /\ \A v \in CallValues(calls[i]) : Usable(heap, v, i)
  BY <1>1, OldOperands
<1>3. CASE calls[i].this # NoThis
  <2>1. PICK r \in MutateValue(heap, calls[i].this, i) :
          Become([calls EXCEPT ![i].this = r.value], r.heap, r.name)
    BY <1>3 DEF MutateThis
  <2>2. PICK h : h = heap
    OBVIOUS
  <2>3. PICK v : v = calls[i].this
    OBVIOUS
  <2>4. Usable(h, v, i)
    BY <1>2, <1>3, <2>2, <2>3 DEF CallValues
  <2>5. /\ Whole(h) /\ Sized(h) /\ i \in Position /\ lastMutator \in MutatorName
        /\ r \in MutateValue(h, v, i)
    BY <1>2, <2>1, <2>2, <2>3 DEF Sound
  <2>6. Changed(h, r, i) /\ r.name \in MutatorName
    BY ONLY <2>4, <2>5, MutatedValue
  <2>7. Copied(heap, r.heap) /\ Usable(r.heap, r.value, i)
    BY <2>2, <2>6 DEF Changed
  <2>8. PICK g : g = r.heap
    OBVIOUS
  <2>9. PICK e : e = r.value
    OBVIOUS
  <2>10. PICK name : name = r.name
    OBVIOUS
  <2>11. Copied(heap, g) /\ Usable(g, e, i) /\ name \in MutatorName /\ Become([calls EXCEPT ![i].this = e], g, name)
    BY <2>1, <2>6, <2>7, <2>8, <2>9, <2>10
  <2> QED
    BY <2>11, ThisEdited
<1>4. CASE calls[i].this = NoThis
  <2>1. PICK r \in GenerateValue(heap, i) :
          Become([calls EXCEPT ![i].this = r.value], r.heap, lastMutator)
    BY <1>4 DEF MutateThis
  <2>2. Planted(heap, r.heap) /\ Backed(heap, r.heap, r.value, i)
    BY <1>1, <1>2, <2>1, GeneratedValue
  <2>3. Copied(heap, r.heap) /\ Usable(r.heap, r.value, i)
    BY <2>2, PlantedIsCopied, BackedIsUsable
  <2>4. PICK g : g = r.heap
    OBVIOUS
  <2>5. PICK e : e = r.value
    OBVIOUS
  <2>6. PICK name \in MutatorName : name = lastMutator
    BY DEF Sound
  <2>7. Copied(heap, g) /\ Usable(g, e, i) /\ Become([calls EXCEPT ![i].this = e], g, name)
    BY <2>1, <2>3, <2>4, <2>5, <2>6
  <2> QED
    BY <2>7, ThisEdited
<1> QED
  BY <1>3, <1>4

LEMMA MutateArgumentEdits ==
  ASSUME Sound, NEW i \in DOMAIN calls, MutateArgument(i)
  PROVE  EditsOne(i)
<1>1. PICK n \in DOMAIN calls[i].args : \E r \in MutateValue(heap, calls[i].args[n], i) :
        Become([calls EXCEPT ![i].args[n] = r.value], r.heap, r.name)
  BY DEF MutateArgument
<1>2. PICK r \in MutateValue(heap, calls[i].args[n], i) :
        Become([calls EXCEPT ![i].args[n] = r.value], r.heap, r.name)
  BY <1>1
<1>3. PICK g : g = r.heap
  OBVIOUS
<1>4. Copied(heap, heap)
  BY NothingCopied, SolidIs DEF Sound, Whole
<1>5. /\ calls[i] \in Call /\ i \in Position /\ Whole(heap) /\ Sized(heap)
      /\ Len(calls[i].args) <= MostArguments
      /\ \A v \in CallValues(calls[i]) : Usable(heap, v, i)
  BY <1>4, OldOperands
<1>6. PICK h : h = heap
  OBVIOUS
<1>7. PICK v : v = calls[i].args[n]
  OBVIOUS
<1>8. Usable(h, v, i)
  BY <1>5, <1>6, <1>7 DEF CallValues, Range
<1>9. /\ Whole(h) /\ Sized(h) /\ i \in Position /\ lastMutator \in MutatorName
      /\ r \in MutateValue(h, v, i)
  BY <1>2, <1>5, <1>6, <1>7 DEF Sound
<1>10. Changed(h, r, i) /\ r.name \in MutatorName
  BY ONLY <1>8, <1>9, MutatedValue
<1>11. Copied(heap, g) /\ Usable(g, r.value, i) /\ IsHeap(g)
  BY <1>3, <1>6, <1>10 DEF Changed, Copied
<1>12. PICK e \in Value : e = r.value
  BY <1>5, <1>11, UsableIsValue
<1>13. \A w \in CallValues(calls[i]) : Usable(g, w, i)
  BY <1>11, OldOperands
<1>14. PICK s \in Seq(Value) : s = calls[i].args
  BY <1>5 DEF Call
<1>15. PICK t : t = [s EXCEPT ![n] = e]
  OBVIOUS
<1>16. Replaced(Value, s, e, t)
  <2>1. PICK j \in DOMAIN s : j = n
    BY <1>14
  <2>2. PICK S : S = Value
    OBVIOUS
  <2>3. s \in Seq(S) /\ j \in DOMAIN s /\ e \in S
    BY <2>2
  <2>4. Replaced(S, s, e, [s EXCEPT ![j] = e])
    BY ONLY <2>3, ExceptIs
  <2> QED
    BY <2>1, <2>2, <2>4, <1>15
<1>17. t \in Seq(Value) /\ Len(t) = Len(s) /\ Range(t) \subseteq Range(s) \cup {e}
  BY <1>16 DEF Replaced
<1>18. PICK c : c = [calls[i] EXCEPT !.args = t]
  OBVIOUS
<1>19. c \in Call /\ c.args = t /\ c.this = calls[i].this /\ c.callee = calls[i].callee
  BY <1>5, <1>17, <1>18 DEF Call
<1>20. \A w \in CallValues(c) : Usable(g, w, i)
  BY <1>11, <1>12, <1>13, <1>14, <1>17, <1>19 DEF CallValues
<1>21. Len(c.args) <= MostArguments
  BY <1>5, <1>14, <1>17, <1>19
<1>22. [calls EXCEPT ![i].args[n] = r.value] = [calls EXCEPT ![i] = c]
  BY <1>12, <1>14, <1>15, <1>18
<1>23. PICK ds : ds = [calls EXCEPT ![i] = c]
  OBVIOUS
<1>24. PICK name \in MutatorName : name = r.name
  BY <1>10
<1>25. Become(ds, g, name)
  BY <1>2, <1>3, <1>22, <1>23, <1>24
<1> QED
  BY <1>11, <1>19, <1>20, <1>21, <1>23, <1>25, OperandEdited

LEMMA MutateCtorEdits ==
  ASSUME Sound, NEW i \in DOMAIN calls, MutateCtor(i)
  PROVE  EditsOne(i)
<1>1. Copied(heap, heap)
  BY NothingCopied, SolidIs DEF Sound, Whole
<1>2. /\ calls[i] \in Call /\ Len(calls[i].args) <= MostArguments
      /\ \A v \in CallValues(calls[i]) : Usable(heap, v, i)
  BY <1>1, OldOperands
<1>3. PICK c : c = [calls[i] EXCEPT !.ctor = ~@]
  OBVIOUS
<1>4. c \in Call
  <2>1. PICK b \in BOOLEAN : b = ~calls[i].ctor
    BY <1>2 DEF Call
  <2>2. c = [calls[i] EXCEPT !.ctor = b]
    BY <2>1, <1>3
  <2> QED
    BY <1>2, <2>2 DEF Call
<1>5. c.args = calls[i].args /\ c.this = calls[i].this /\ c.callee = calls[i].callee
  BY <1>2, <1>3 DEF Call
<1>6. CallValues(c) = CallValues(calls[i])
  BY <1>5 DEF CallValues
<1>7. PICK g : g = heap
  OBVIOUS
<1>8. Copied(heap, g) /\ Len(c.args) <= MostArguments /\ \A v \in CallValues(c) : Usable(g, v, i)
  BY <1>1, <1>2, <1>5, <1>6, <1>7
<1>9. PICK ds : ds = [calls EXCEPT ![i] = c]
  OBVIOUS
<1>10. Become(ds, g, "MutateCtor") /\ "MutateCtor" \in MutatorName
  BY <1>3, <1>7, <1>9 DEF MutateCtor, MutatorName
<1> QED
  BY <1>4, <1>5, <1>8, <1>9, <1>10, OperandEdited

(* Writing the test case and reading it again changes no reference. *)
LEMMA SaveAndLoadKeeps ==
  ASSUME Sound, SaveAndLoad
  PROVE  Sound' /\ (Loopless(heap) => Loopless(heap')) /\ UNCHANGED Refs!vars
<1>1. PICK ds : ds = [i \in DOMAIN calls |-> [calls[i] EXCEPT !.this = IF @ = NoThis THEN Scalar ELSE @]]
  OBVIOUS
<1>2. PICK cs : cs = calls
  OBVIOUS
<1>3. PICK h : h = heap
  OBVIOUS
<1>4. Solid(cs, h) /\ Backward(cs, h) /\ Whole(h) /\ cs \in Seq(Call) /\ DOMAIN cs = 1 .. Len(cs)
  BY <1>2, <1>3, SolidIs DEF Sound, Solid, TestCase
<1>5. DOMAIN ds = DOMAIN cs
  BY <1>1, <1>2
<1>6. ASSUME NEW i \in DOMAIN cs
      PROVE  /\ ds[i] \in Call /\ ds[i].callee = cs[i].callee /\ ds[i].args = cs[i].args
             /\ Uses(ds, h, i) = Uses(cs, h, i)
             /\ CallValues(ds[i]) \cap Arrays = CallValues(cs[i]) \cap Arrays
  <2>1. cs[i] \in Call
    BY <1>4, SolidIs
  <2>2. PICK e : e = IF cs[i].this = NoThis THEN Scalar ELSE cs[i].this
    OBVIOUS
  <2>3. e \in Value \ {NoThis}
    BY <2>1, <2>2, ReferencesAssumption DEF Call, Value
  <2>4. ds[i] = [cs[i] EXCEPT !.this = e]
    BY <1>1, <1>2, <2>2
  <2>5. ds[i] \in Call /\ ds[i].this = e /\ ds[i].callee = cs[i].callee /\ ds[i].args = cs[i].args
    BY <2>1, <2>3, <2>4 DEF Call
  <2>6. CallValues(ds[i]) \cap (Position \cup Arrays) = CallValues(cs[i]) \cap (Position \cup Arrays)
    <3>1. {e} \cap (Position \cup Arrays) = ({cs[i].this} \ {NoThis}) \cap (Position \cup Arrays)
      BY <2>1, <2>2, ReferencesAssumption DEF Call, Value
    <3> QED
      BY <3>1, <2>3, <2>5 DEF CallValues
  <2>7. PICK V : V = CallValues(cs[i])
    OBVIOUS
  <2>8. PICK W : W = CallValues(ds[i])
    OBVIOUS
  <2>9. W \cap DOMAIN h = V \cap DOMAIN h /\ W \cap Position = V \cap Position
    BY <2>6, <2>7, <2>8, <1>4 DEF Whole, IsHeap
  <2>10. Reach(h, W) = Reach(h, V)
    BY <2>9 DEF Reach
  <2>11. UsesOf(h, W) = UsesOf(h, V)
    BY <2>9, <2>10 DEF UsesOf
  <2> QED
    BY <2>5, <2>6, <2>7, <2>8, <2>11, UsesOfCall
<1>7. ds \in Seq(Call) /\ Len(ds) = Len(cs)
  <2>1. PICK l \in Nat : l = Len(cs) /\ DOMAIN cs = 1 .. l
    <3>1. cs \in Seq(Call)
      BY <1>4
    <3> QED
      BY ONLY <3>1
  <2>2. ds = [k \in 1 .. l |-> ds[k]]
    BY <1>1, <1>2, <2>1
  <2>3. ds \in [1 .. l -> Call]
    BY <1>6, <2>1, <2>2
  <2> QED
    BY <2>1, <2>3
<1>8. Solid(ds, h)
  BY <1>4, <1>5, <1>6, <1>7 DEF Solid, TestCase
<1>9. Become(ds, heap, "")
  BY <1>1 DEF SaveAndLoad
<1>10. PICK k : k = Restrict(h, LiveArrays(ds, h))
  OBVIOUS
<1>11. calls' = ds /\ heap' = k /\ lastMutator' = ""
  BY <1>3, <1>9, <1>10 DEF Become
<1>12. Solid(ds, k) /\ \A i \in DOMAIN ds : Uses(ds, k, i) = Uses(ds, h, i)
  BY <1>8, <1>10, Restricted
<1>13. \A i \in DOMAIN cs : Uses(ds, k, i) = Uses(cs, h, i)
  BY <1>5, <1>6, <1>12
<1>14. Backward(ds, k)
  BY <1>4, <1>5, <1>13 DEF Backward
<1>15. Sound'
  BY <1>11, <1>12, <1>14 DEF Sound, MutatorName
<1>16. UNCHANGED Refs!vars
  <2>1. RefsOf(ds, k).callees = RefsOf(cs, h).callees
    BY <1>5, <1>6 DEF RefsOf
  <2>2. RefsOf(ds, k).refs = RefsOf(cs, h).refs
    BY <1>5, <1>13 DEF RefsOf
  <2> QED
    BY <2>1, <2>2, <1>2, <1>3, <1>11 DEF Refs!vars
<1>17. Loopless(h) => Loopless(k)
  BY <1>10, RestrictedLoopless DEF LiveArrays
<1> QED
  BY <1>3, <1>11, <1>15, <1>16, <1>17

-----------------------------------------------------------------------------
(* What the fixer meets and where it writes. *)
LEMMA SlotIs ==
  ASSUME NEW cs, NEW h, NEW start \in Nat, Len(cs) \in Nat
  PROVE  \A x, k : <<x, k>> \in FixedSlots(cs, h, start) <=>
           \/ x \in start .. Len(cs) /\ k \in DOMAIN cs[x].args
           \/ x \in start .. Len(cs) /\ k = 0 /\ cs[x].this # NoThis
           \/ x \in Visited(cs, h, start) /\ k \in DOMAIN h[x]
<1> TAKE x, y
<1> DEFINE A == UNION {{<<i, k>> : k \in DOMAIN cs[i].args} : i \in start .. Len(cs)}
           B == {<<i, 0>> : i \in {j \in start .. Len(cs) : cs[j].this # NoThis}}
           C == UNION {{<<a, k>> : k \in DOMAIN h[a]} : a \in Visited(cs, h, start)}
<1>1. FixedSlots(cs, h, start) = A \cup B \cup C
  BY DEF FixedSlots
<1>2. <<x, y>> \in A <=> x \in start .. Len(cs) /\ y \in DOMAIN cs[x].args
  <2>1. <<x, y>> \in A <=> \E i \in start .. Len(cs) : \E j \in DOMAIN cs[i].args : <<x, y>> = <<i, j>>
    OBVIOUS
  <2> QED
    BY ONLY <2>1
<1>3. <<x, y>> \in B <=> x \in start .. Len(cs) /\ y = 0 /\ cs[x].this # NoThis
  <2>1. <<x, y>> \in B <=> \E i \in start .. Len(cs) : cs[i].this # NoThis /\ <<x, y>> = <<i, 0>>
    OBVIOUS
  <2> QED
    BY ONLY <2>1
<1>4. <<x, y>> \in C <=> x \in Visited(cs, h, start) /\ y \in DOMAIN h[x]
  <2>1. <<x, y>> \in C <=> \E i \in Visited(cs, h, start) : \E j \in DOMAIN h[i] : <<x, y>> = <<i, j>>
    OBVIOUS
  <2> QED
    BY ONLY <2>1
<1> HIDE DEF A, B, C
<1> QED
  BY <1>1, <1>2, <1>3, <1>4

LEMMA VisitedIs ==
  ASSUME NEW cs, NEW h, NEW start
  PROVE  /\ Visited(cs, h, start) \subseteq DOMAIN h
         /\ \A a : a \in Visited(cs, h, start) <=> \E i \in start .. Len(cs) : a \in CallReach(cs, h, i)
  BY DEF Visited, CallReach, Reach

(* What writing w leaves where. *)
Written(cs, h, w, ds, g) ==
  /\ DOMAIN ds = DOMAIN cs /\ DOMAIN g = DOMAIN h
  /\ \A i \in DOMAIN cs :
       /\ ds[i].callee = cs[i].callee /\ ds[i].ctor = cs[i].ctor
       /\ ds[i].this = (IF <<i, 0>> \in DOMAIN w THEN w[<<i, 0>>] ELSE cs[i].this)
       /\ DOMAIN ds[i].args = DOMAIN cs[i].args
       /\ \A k \in DOMAIN cs[i].args :
            ds[i].args[k] = IF <<i, k>> \in DOMAIN w THEN w[<<i, k>>] ELSE cs[i].args[k]
       /\ ds[i].args = [k \in DOMAIN cs[i].args |-> ds[i].args[k]]
       /\ ds[i] = [callee |-> ds[i].callee, this |-> ds[i].this, ctor |-> ds[i].ctor, args |-> ds[i].args]
  /\ \A a \in DOMAIN h :
       /\ DOMAIN g[a] = DOMAIN h[a]
       /\ \A k \in DOMAIN h[a] : g[a][k] = IF <<a, k>> \in DOMAIN w THEN w[<<a, k>>] ELSE h[a][k]
       /\ g[a] = [k \in DOMAIN h[a] |-> g[a][k]]
  /\ ds = [i \in DOMAIN cs |-> ds[i]] /\ g = [a \in DOMAIN h |-> g[a]]

LEMMA WriteIs ==
  ASSUME NEW cs, NEW h, \A i \in DOMAIN cs : cs[i] \in Call, NEW w
  PROVE  Written(cs, h, w, Write(cs, h, w).calls, Write(cs, h, w).heap)
<1>1. PICK r : r = Write(cs, h, w)
  OBVIOUS
<1>2. PICK ds : ds = r.calls
  OBVIOUS
<1>3. PICK g : g = r.heap
  OBVIOUS
<1>4. ds = [i \in DOMAIN cs |->
                [cs[i] EXCEPT !.this = IF <<i, 0>> \in DOMAIN w THEN w[<<i, 0>>] ELSE @,
                              !.args = [k \in DOMAIN @ |->
                                 IF <<i, k>> \in DOMAIN w THEN w[<<i, k>>] ELSE @[k]]]]
  BY <1>1, <1>2 DEF Write
<1>5. g = [a \in DOMAIN h |->
                [k \in DOMAIN h[a] |->
                   IF <<a, k>> \in DOMAIN w THEN w[<<a, k>>] ELSE h[a][k]]]
  BY <1>1, <1>3 DEF Write
<1>6. ASSUME NEW i \in DOMAIN cs
      PROVE  /\ ds[i].callee = cs[i].callee /\ ds[i].ctor = cs[i].ctor
             /\ ds[i].this = (IF <<i, 0>> \in DOMAIN w THEN w[<<i, 0>>] ELSE cs[i].this)
             /\ DOMAIN ds[i].args = DOMAIN cs[i].args
             /\ \A k \in DOMAIN cs[i].args :
                  ds[i].args[k] = IF <<i, k>> \in DOMAIN w THEN w[<<i, k>>] ELSE cs[i].args[k]
             /\ ds[i].args = [k \in DOMAIN cs[i].args |-> ds[i].args[k]]
             /\ ds[i] = [callee |-> ds[i].callee, this |-> ds[i].this, ctor |-> ds[i].ctor, args |-> ds[i].args]
  <2>1. PICK c : c = cs[i]
    OBVIOUS
  <2>2. c = [callee |-> c.callee, this |-> c.this, ctor |-> c.ctor, args |-> c.args]
    BY <2>1 DEF Call
  <2>3. PICK t : t = IF <<i, 0>> \in DOMAIN w THEN w[<<i, 0>>] ELSE c.this
    OBVIOUS
  <2>4. PICK s : s = [k \in DOMAIN c.args |-> IF <<i, k>> \in DOMAIN w THEN w[<<i, k>>] ELSE c.args[k]]
    OBVIOUS
  <2>5. ds[i] = [c EXCEPT !.this = t, !.args = s]
    BY <1>4, <2>1, <2>3, <2>4
  <2>6. ds[i] = [callee |-> c.callee, this |-> t, ctor |-> c.ctor, args |-> s]
    BY <2>2, <2>5
  <2> QED
    BY <2>1, <2>3, <2>4, <2>6
<1>7. ASSUME NEW a \in DOMAIN h
      PROVE  /\ DOMAIN g[a] = DOMAIN h[a]
             /\ \A k \in DOMAIN h[a] : g[a][k] = IF <<a, k>> \in DOMAIN w THEN w[<<a, k>>] ELSE h[a][k]
             /\ g[a] = [k \in DOMAIN h[a] |-> g[a][k]]
  BY <1>5
<1>8. DOMAIN ds = DOMAIN cs /\ DOMAIN g = DOMAIN h /\ ds = [i \in DOMAIN cs |-> ds[i]] /\ g = [a \in DOMAIN h |-> g[a]]
  BY <1>4, <1>5
<1> QED
  BY <1>1, <1>2, <1>3, <1>6, <1>7, <1>8 DEF Written

(* The slots from call start on hold the values of val, nothing else changed. *)
Rewired(cs, h, start, val, ds, g) ==
  /\ DOMAIN ds = DOMAIN cs /\ ds = [i \in DOMAIN cs |-> ds[i]]
  /\ \A i \in 1 .. (start - 1) : ds[i] = cs[i]
  /\ \A i \in start .. Len(cs) :
       /\ ds[i] = [callee |-> cs[i].callee, this |-> ds[i].this, ctor |-> cs[i].ctor, args |-> ds[i].args]
       /\ ds[i].this = IF cs[i].this = NoThis THEN NoThis ELSE val[<<i, 0>>]
       /\ DOMAIN ds[i].args = DOMAIN cs[i].args /\ ds[i].args = [k \in DOMAIN cs[i].args |-> ds[i].args[k]]
       /\ \A k \in DOMAIN cs[i].args : ds[i].args[k] = val[<<i, k>>]
  /\ DOMAIN h \subseteq DOMAIN g
  /\ \A a \in Visited(cs, h, start) :
       /\ DOMAIN g[a] = DOMAIN h[a] /\ g[a] = [k \in DOMAIN h[a] |-> g[a][k]]
       /\ \A k \in DOMAIN h[a] : g[a][k] = val[<<a, k>>]
  /\ \A a \in DOMAIN h \ Visited(cs, h, start) : g[a] = h[a]

LEMMA CallNoArray ==
  ASSUME NEW cs, NEW h, Solid(cs, h)
  PROVE  /\ \A i \in DOMAIN cs : i \in Nat /\ i \notin Arrays /\ i \notin DOMAIN h
         /\ \A i \in DOMAIN cs : 0 \notin DOMAIN cs[i].args /\ DOMAIN cs[i].args \subseteq Nat
<1>1. DOMAIN cs \subseteq Position /\ DOMAIN h \subseteq Arrays /\ \A i \in DOMAIN cs : cs[i] \in Call
  BY SolidIs DEF Whole, IsHeap
<1>2. \A i \in DOMAIN cs : cs[i].args \in Seq(Value)
  BY <1>1 DEF Call
<1>3. \A i \in DOMAIN cs : 0 \notin DOMAIN cs[i].args /\ DOMAIN cs[i].args \subseteq Nat
  BY <1>2
<1>4. \A i \in DOMAIN cs : i \in Nat /\ i \notin Arrays
  BY <1>1, ReferencesAssumption, SizesAssumption DEF Position
<1> QED
  BY <1>1, <1>3, <1>4

(* An array whose slots are functions of their positions is what they say. *)
LEMMA FunctionIs ==
  ASSUME NEW s, NEW t, DOMAIN s = DOMAIN t, s = [k \in DOMAIN t |-> s[k]], t = [k \in DOMAIN t |-> t[k]],
         \A k \in DOMAIN t : s[k] = t[k]
  PROVE  s = t
  OBVIOUS

LEMMA WriteRewires ==
  ASSUME NEW cs, NEW h, Solid(cs, h), NEW start \in 1 .. (Len(cs) + 1),
         NEW val, DOMAIN val = FixedSlots(cs, h, start), NEW ds, NEW g, Written(cs, h, val, ds, g)
  PROVE  Rewired(cs, h, start, val, ds, g)
<1>1. /\ Whole(h) /\ DOMAIN cs = 1 .. Len(cs) /\ Len(cs) \in Nat /\ start \in Nat
      /\ \A i \in DOMAIN cs : cs[i] \in Call
  BY SolidIs, SizesAssumption DEF Position
<1>2. \A x, k : <<x, k>> \in DOMAIN val <=>
           \/ x \in start .. Len(cs) /\ k \in DOMAIN cs[x].args
           \/ x \in start .. Len(cs) /\ k = 0 /\ cs[x].this # NoThis
           \/ x \in Visited(cs, h, start) /\ k \in DOMAIN h[x]
  BY <1>1, SlotIs
<1>3. /\ \A i \in DOMAIN cs : i \in Nat /\ i \notin DOMAIN h
      /\ \A i \in DOMAIN cs : 0 \notin DOMAIN cs[i].args
  BY CallNoArray
<1>4. Visited(cs, h, start) \subseteq DOMAIN h
  BY VisitedIs
<1>5. ASSUME NEW i \in DOMAIN cs
      PROVE  /\ cs[i].args = [k \in DOMAIN cs[i].args |-> cs[i].args[k]]
             /\ cs[i] = [callee |-> cs[i].callee, this |-> cs[i].this, ctor |-> cs[i].ctor, args |-> cs[i].args]
  BY <1>1 DEF Call
<1>6. ASSUME NEW i \in 1 .. (start - 1)
      PROVE  ds[i] = cs[i]
  <2>1. i \in DOMAIN cs /\ i \notin start .. Len(cs) /\ i \notin DOMAIN h
    BY <1>1, <1>3
  <2>2. \A k : <<i, k>> \notin DOMAIN val
    BY <1>2, <1>4, <2>1
  <2>3. ds[i].this = cs[i].this /\ ds[i].callee = cs[i].callee /\ ds[i].ctor = cs[i].ctor
    BY <2>1, <2>2 DEF Written
  <2>4. /\ DOMAIN ds[i].args = DOMAIN cs[i].args /\ ds[i].args = [k \in DOMAIN cs[i].args |-> ds[i].args[k]]
        /\ \A k \in DOMAIN cs[i].args : ds[i].args[k] = cs[i].args[k]
    <3>1. \A k \in DOMAIN cs[i].args :
            ds[i].args[k] = IF <<i, k>> \in DOMAIN val THEN val[<<i, k>>] ELSE cs[i].args[k]
      BY <2>1 DEF Written
    <3>2. DOMAIN ds[i].args = DOMAIN cs[i].args /\ ds[i].args = [k \in DOMAIN cs[i].args |-> ds[i].args[k]]
      BY <2>1 DEF Written
    <3>3. \A k \in DOMAIN cs[i].args : ds[i].args[k] = cs[i].args[k]
      BY ONLY <2>2, <3>1
    <3> QED
      BY ONLY <3>2, <3>3
  <2>5. ds[i].args = cs[i].args
    <3>1. PICK s : s = ds[i].args
      OBVIOUS
    <3>2. PICK t : t = cs[i].args
      OBVIOUS
    <3>3. /\ DOMAIN s = DOMAIN t /\ s = [k \in DOMAIN t |-> s[k]] /\ t = [k \in DOMAIN t |-> t[k]]
          /\ \A k \in DOMAIN t : s[k] = t[k]
      BY <1>5, <2>1, <2>4, <3>1, <3>2
    <3>4. s = t
      BY ONLY <3>3, FunctionIs
    <3> QED
      BY <3>1, <3>2, <3>4
  <2>6. ds[i] = [callee |-> ds[i].callee, this |-> ds[i].this, ctor |-> ds[i].ctor, args |-> ds[i].args]
    BY <2>1 DEF Written
  <2> QED
    BY <1>5, <2>1, <2>3, <2>5, <2>6
<1>7. ASSUME NEW i \in start .. Len(cs)
      PROVE  /\ ds[i] = [callee |-> cs[i].callee, this |-> ds[i].this, ctor |-> cs[i].ctor, args |-> ds[i].args]
             /\ ds[i].this = IF cs[i].this = NoThis THEN NoThis ELSE val[<<i, 0>>]
             /\ DOMAIN ds[i].args = DOMAIN cs[i].args /\ ds[i].args = [k \in DOMAIN cs[i].args |-> ds[i].args[k]]
             /\ \A k \in DOMAIN cs[i].args : ds[i].args[k] = val[<<i, k>>]
  <2>1. i \in DOMAIN cs /\ i \notin DOMAIN h
    BY <1>1, <1>3
  <2>2. <<i, 0>> \in DOMAIN val <=> cs[i].this # NoThis
    BY <1>2, <1>3, <1>4, <2>1
  <2>3. \A k \in DOMAIN cs[i].args : <<i, k>> \in DOMAIN val
    BY <1>2
  <2>4. ds[i].this = (IF <<i, 0>> \in DOMAIN val THEN val[<<i, 0>>] ELSE cs[i].this)
    BY <2>1 DEF Written
  <2>5. ds[i].this = IF cs[i].this = NoThis THEN NoThis ELSE val[<<i, 0>>]
    BY <2>2, <2>4
  <2>6. \A k \in DOMAIN cs[i].args : ds[i].args[k] = val[<<i, k>>]
    BY <2>1, <2>3 DEF Written
  <2>7. ds[i] = [callee |-> ds[i].callee, this |-> ds[i].this, ctor |-> ds[i].ctor, args |-> ds[i].args]
    BY <2>1 DEF Written
  <2>8. ds[i].callee = cs[i].callee /\ ds[i].ctor = cs[i].ctor
    BY <2>1 DEF Written
  <2>9. DOMAIN ds[i].args = DOMAIN cs[i].args /\ ds[i].args = [k \in DOMAIN cs[i].args |-> ds[i].args[k]]
    BY <2>1 DEF Written
  <2> QED
    BY <2>5, <2>6, <2>7, <2>8, <2>9
<1>8. ASSUME NEW a \in Visited(cs, h, start)
      PROVE  /\ DOMAIN g[a] = DOMAIN h[a] /\ g[a] = [k \in DOMAIN h[a] |-> g[a][k]]
             /\ \A k \in DOMAIN h[a] : g[a][k] = val[<<a, k>>]
  <2>1. a \in DOMAIN h /\ \A k \in DOMAIN h[a] : <<a, k>> \in DOMAIN val
    BY <1>2, <1>4
  <2> QED
    BY <2>1 DEF Written
<1>9. ASSUME NEW a \in DOMAIN h \ Visited(cs, h, start)
      PROVE  g[a] = h[a]
  <2>1. \A k : <<a, k>> \notin DOMAIN val
    BY <1>1, <1>2, <1>3
  <2>2. DOMAIN g[a] = DOMAIN h[a] /\ g[a] = [k \in DOMAIN h[a] |-> g[a][k]] /\ \A k \in DOMAIN h[a] : g[a][k] = h[a][k]
    <3>1. /\ DOMAIN g[a] = DOMAIN h[a] /\ g[a] = [k \in DOMAIN h[a] |-> g[a][k]]
          /\ \A k \in DOMAIN h[a] : g[a][k] = IF <<a, k>> \in DOMAIN val THEN val[<<a, k>>] ELSE h[a][k]
      BY DEF Written
    <3> QED
      BY <2>1, <3>1
  <2>3. h[a] = [k \in DOMAIN h[a] |-> h[a][k]]
    BY <1>1 DEF Whole, IsHeap
  <2>4. PICK s : s = g[a]
    OBVIOUS
  <2>5. PICK t : t = h[a]
    OBVIOUS
  <2>6. /\ DOMAIN s = DOMAIN t /\ s = [k \in DOMAIN t |-> s[k]] /\ t = [k \in DOMAIN t |-> t[k]]
        /\ \A k \in DOMAIN t : s[k] = t[k]
    BY <2>2, <2>3, <2>4, <2>5
  <2>7. s = t
    BY ONLY <2>6, FunctionIs
  <2> QED
    BY <2>4, <2>5, <2>7
<1>10. DOMAIN ds = DOMAIN cs /\ ds = [i \in DOMAIN cs |-> ds[i]] /\ DOMAIN h \subseteq DOMAIN g
  BY DEF Written
<1> QED
  BY <1>6, <1>7, <1>8, <1>9, <1>10 DEF Rewired

(* Writing some of the slots again, on top of a first writing. *)
LEMMA WriteAgain ==
  ASSUME NEW cs, NEW h, Solid(cs, h), NEW start \in 1 .. (Len(cs) + 1),
         NEW old, NEW ms, NEW m, Rewired(cs, h, start, old, ms, m), DOMAIN m = DOMAIN h,
         NEW n, Grows(m, n), IsHeap(n),
         NEW w, DOMAIN w \subseteq FixedSlots(cs, h, start), NEW ds, NEW g, Written(ms, n, w, ds, g),
         NEW val, \A s \in FixedSlots(cs, h, start) : val[s] = IF s \in DOMAIN w THEN w[s] ELSE old[s]
  PROVE  /\ Rewired(cs, h, start, val, ds, g)
         /\ DOMAIN g = DOMAIN n /\ \A a \in DOMAIN n \ DOMAIN h : g[a] = n[a]
<1>1. /\ Whole(h) /\ DOMAIN cs = 1 .. Len(cs) /\ Len(cs) \in Nat /\ start \in Nat
      /\ \A i \in DOMAIN cs : cs[i] \in Call
  BY SolidIs, SizesAssumption DEF Position
<1>2. \A x, k : <<x, k>> \in FixedSlots(cs, h, start) <=>
           \/ x \in start .. Len(cs) /\ k \in DOMAIN cs[x].args
           \/ x \in start .. Len(cs) /\ k = 0 /\ cs[x].this # NoThis
           \/ x \in Visited(cs, h, start) /\ k \in DOMAIN h[x]
  BY <1>1, SlotIs
<1>3. /\ \A i \in DOMAIN cs : i \in Nat /\ i \notin DOMAIN h
      /\ \A i \in DOMAIN cs : 0 \notin DOMAIN cs[i].args
  BY CallNoArray
<1>4. Visited(cs, h, start) \subseteq DOMAIN h
  BY VisitedIs
<1>5. DOMAIN ms = DOMAIN cs /\ \A i \in 1 .. (start - 1) : ms[i] = cs[i]
  BY DEF Rewired
<1>6. ASSUME NEW i \in 1 .. (start - 1)
      PROVE  ds[i] = cs[i]
  <2>1. i \in DOMAIN cs /\ i \notin start .. Len(cs) /\ i \notin DOMAIN h
    BY <1>1, <1>3
  <2>2. \A k : <<i, k>> \notin DOMAIN w
    BY <1>2, <1>4, <2>1
  <2>3. ms[i] = cs[i] /\ i \in DOMAIN ms
    BY <1>5, <2>1
  <2>4. /\ cs[i].args = [k \in DOMAIN cs[i].args |-> cs[i].args[k]]
        /\ cs[i] = [callee |-> cs[i].callee, this |-> cs[i].this, ctor |-> cs[i].ctor, args |-> cs[i].args]
    BY <1>1, <2>1 DEF Call
  <2>5. ds[i].this = cs[i].this /\ ds[i].callee = cs[i].callee /\ ds[i].ctor = cs[i].ctor
    BY <2>2, <2>3 DEF Written
  <2>6. /\ DOMAIN ds[i].args = DOMAIN cs[i].args /\ ds[i].args = [k \in DOMAIN cs[i].args |-> ds[i].args[k]]
        /\ \A k \in DOMAIN cs[i].args : ds[i].args[k] = cs[i].args[k]
    <3>1. /\ DOMAIN ds[i].args = DOMAIN ms[i].args /\ ds[i].args = [k \in DOMAIN ms[i].args |-> ds[i].args[k]]
          /\ \A k \in DOMAIN ms[i].args :
               ds[i].args[k] = IF <<i, k>> \in DOMAIN w THEN w[<<i, k>>] ELSE ms[i].args[k]
      BY <2>3 DEF Written
    <3> QED
      BY <2>2, <2>3, <3>1
  <2>7. ds[i].args = cs[i].args
    <3>1. PICK s : s = ds[i].args
      OBVIOUS
    <3>2. PICK t : t = cs[i].args
      OBVIOUS
    <3>3. /\ DOMAIN s = DOMAIN t /\ s = [k \in DOMAIN t |-> s[k]] /\ t = [k \in DOMAIN t |-> t[k]]
          /\ \A k \in DOMAIN t : s[k] = t[k]
      BY <2>4, <2>6, <3>1, <3>2
    <3>4. s = t
      BY ONLY <3>3, FunctionIs
    <3> QED
      BY <3>1, <3>2, <3>4
  <2>8. ds[i] = [callee |-> ds[i].callee, this |-> ds[i].this, ctor |-> ds[i].ctor, args |-> ds[i].args]
    BY <2>3 DEF Written
  <2> QED
    BY <2>4, <2>5, <2>7, <2>8
<1>7. ASSUME NEW i \in start .. Len(cs)
      PROVE  /\ ds[i] = [callee |-> cs[i].callee, this |-> ds[i].this, ctor |-> cs[i].ctor, args |-> ds[i].args]
             /\ ds[i].this = IF cs[i].this = NoThis THEN NoThis ELSE val[<<i, 0>>]
             /\ DOMAIN ds[i].args = DOMAIN cs[i].args /\ ds[i].args = [k \in DOMAIN cs[i].args |-> ds[i].args[k]]
             /\ \A k \in DOMAIN cs[i].args : ds[i].args[k] = val[<<i, k>>]
  <2>1. i \in DOMAIN ms /\ i \in DOMAIN cs /\ i \notin DOMAIN h
    BY <1>1, <1>3, <1>5
  <2>2. <<i, 0>> \in FixedSlots(cs, h, start) <=> cs[i].this # NoThis
    BY <1>2, <1>3, <1>4, <2>1
  <2>3. \A k \in DOMAIN cs[i].args : <<i, k>> \in FixedSlots(cs, h, start)
    BY <1>2
  <2>4. /\ ms[i].callee = cs[i].callee /\ ms[i].ctor = cs[i].ctor
        /\ ms[i].this = IF cs[i].this = NoThis THEN NoThis ELSE old[<<i, 0>>]
    <3>1. /\ ms[i] = [callee |-> cs[i].callee, this |-> ms[i].this, ctor |-> cs[i].ctor, args |-> ms[i].args]
          /\ ms[i].this = IF cs[i].this = NoThis THEN NoThis ELSE old[<<i, 0>>]
      BY DEF Rewired
    <3>2. PICK c : c = ms[i]
      OBVIOUS
    <3>3. c = [callee |-> cs[i].callee, this |-> c.this, ctor |-> cs[i].ctor, args |-> c.args]
      BY <3>1, <3>2
    <3>4. c.callee = cs[i].callee /\ c.ctor = cs[i].ctor
      BY ONLY <3>3
    <3> QED
      BY <3>1, <3>2, <3>4
  <2>5. DOMAIN ms[i].args = DOMAIN cs[i].args /\ \A k \in DOMAIN cs[i].args : ms[i].args[k] = old[<<i, k>>]
    BY DEF Rewired
  <2>6. ds[i].this = (IF <<i, 0>> \in DOMAIN w THEN w[<<i, 0>>] ELSE ms[i].this)
    BY <2>1 DEF Written
  <2>7. ds[i].this = IF cs[i].this = NoThis THEN NoThis ELSE val[<<i, 0>>]
    BY <2>2, <2>4, <2>6
  <2>8. \A k \in DOMAIN cs[i].args : ds[i].args[k] = IF <<i, k>> \in DOMAIN w THEN w[<<i, k>>] ELSE ms[i].args[k]
    BY <2>1, <2>5 DEF Written
  <2>9. \A k \in DOMAIN cs[i].args : ds[i].args[k] = val[<<i, k>>]
    BY <2>3, <2>5, <2>8
  <2>10. ds[i] = [callee |-> ds[i].callee, this |-> ds[i].this, ctor |-> ds[i].ctor, args |-> ds[i].args]
    BY <2>1 DEF Written
  <2>11. ds[i].callee = cs[i].callee /\ ds[i].ctor = cs[i].ctor
    BY <2>1, <2>4 DEF Written
  <2>12. DOMAIN ds[i].args = DOMAIN cs[i].args /\ ds[i].args = [k \in DOMAIN cs[i].args |-> ds[i].args[k]]
    BY <2>1, <2>5 DEF Written
  <2> QED
    BY <2>7, <2>9, <2>10, <2>11, <2>12
<1>8. DOMAIN g = DOMAIN n /\ DOMAIN h \subseteq DOMAIN n /\ \A a \in DOMAIN h : n[a] = m[a]
  BY DEF Written, Grows
<1>9. ASSUME NEW a \in Visited(cs, h, start)
      PROVE  /\ DOMAIN g[a] = DOMAIN h[a] /\ g[a] = [k \in DOMAIN h[a] |-> g[a][k]]
             /\ \A k \in DOMAIN h[a] : g[a][k] = val[<<a, k>>]
  <2>1. a \in DOMAIN n /\ n[a] = m[a] /\ \A k \in DOMAIN h[a] : <<a, k>> \in FixedSlots(cs, h, start)
    BY <1>2, <1>4, <1>8
  <2>2. DOMAIN m[a] = DOMAIN h[a] /\ \A k \in DOMAIN h[a] : m[a][k] = old[<<a, k>>]
    BY DEF Rewired
  <2>3. /\ DOMAIN g[a] = DOMAIN n[a] /\ g[a] = [k \in DOMAIN n[a] |-> g[a][k]]
        /\ \A k \in DOMAIN n[a] : g[a][k] = IF <<a, k>> \in DOMAIN w THEN w[<<a, k>>] ELSE n[a][k]
    BY <2>1 DEF Written
  <2> QED
    BY <2>1, <2>2, <2>3
<1>10. ASSUME NEW a \in DOMAIN n \ Visited(cs, h, start)
       PROVE  g[a] = n[a]
  <2>1. a \in Arrays
    BY DEF IsHeap
  <2>2. a \notin start .. Len(cs)
    <3>1. \A i \in DOMAIN cs : i \notin Arrays
      BY CallNoArray
    <3> QED
      BY <1>1, <2>1, <3>1
  <2>3. \A k : <<a, k>> \notin DOMAIN w
    BY <1>2, <2>2
  <2>4. DOMAIN g[a] = DOMAIN n[a] /\ g[a] = [k \in DOMAIN n[a] |-> g[a][k]] /\ \A k \in DOMAIN n[a] : g[a][k] = n[a][k]
    BY <2>3 DEF Written
  <2>5. n[a] = [k \in DOMAIN n[a] |-> n[a][k]]
    BY DEF IsHeap
  <2>6. PICK s : s = g[a]
    OBVIOUS
  <2>7. PICK t : t = n[a]
    OBVIOUS
  <2>8. /\ DOMAIN s = DOMAIN t /\ s = [k \in DOMAIN t |-> s[k]] /\ t = [k \in DOMAIN t |-> t[k]]
        /\ \A k \in DOMAIN t : s[k] = t[k]
    BY <2>4, <2>5, <2>6, <2>7
  <2>9. s = t
    BY ONLY <2>8, FunctionIs
  <2> QED
    BY <2>6, <2>7, <2>9
<1>11. \A a \in DOMAIN h \ Visited(cs, h, start) : g[a] = h[a]
  <2>1. \A a \in DOMAIN h \ Visited(cs, h, start) : m[a] = h[a]
    BY DEF Rewired
  <2> QED
    BY <1>8, <1>10, <2>1
<1>12. DOMAIN ds = DOMAIN cs /\ ds = [i \in DOMAIN cs |-> ds[i]] /\ DOMAIN h \subseteq DOMAIN g
  BY <1>5, <1>8 DEF Written
<1>13. \A a \in DOMAIN n \ DOMAIN h : g[a] = n[a]
  BY <1>4, <1>10
<1> QED
  BY <1>6, <1>7, <1>8, <1>9, <1>11, <1>12, <1>13 DEF Rewired

LEMMA OperandSlots ==
  ASSUME NEW cs, NEW h, Solid(cs, h), NEW start \in 1 .. (Len(cs) + 1), NEW i \in start .. Len(cs)
  PROVE  /\ \A k \in DOMAIN cs[i].args :
              /\ <<i, k>> \in FixedSlots(cs, h, start)
              /\ Holds(cs, h, <<i, k>>) = cs[i].args[k] /\ FixedFrom(cs, h, start, <<i, k>>) = i
         /\ cs[i].this # NoThis =>
              /\ <<i, 0>> \in FixedSlots(cs, h, start)
              /\ Holds(cs, h, <<i, 0>>) = cs[i].this /\ FixedFrom(cs, h, start, <<i, 0>>) = i
<1>1. DOMAIN cs = 1 .. Len(cs) /\ Len(cs) \in Nat /\ start \in Nat
  BY SolidIs, SizesAssumption DEF Position
<1>2. i \notin DOMAIN h /\ 0 \notin DOMAIN cs[i].args
  BY <1>1, CallNoArray
<1>3. \A k \in DOMAIN cs[i].args : <<i, k>> \in FixedSlots(cs, h, start)
  BY <1>1, SlotIs
<1>4. cs[i].this # NoThis => <<i, 0>> \in FixedSlots(cs, h, start)
  BY <1>1, SlotIs
<1>5. \A k : FixedFrom(cs, h, start, <<i, k>>) = i
  BY <1>2 DEF FixedFrom
<1>6. \A k \in DOMAIN cs[i].args : Holds(cs, h, <<i, k>>) = cs[i].args[k]
  BY <1>2 DEF Holds
<1>7. Holds(cs, h, <<i, 0>>) = cs[i].this
  BY <1>2 DEF Holds
<1> QED
  BY <1>3, <1>4, <1>5, <1>6, <1>7

LEMMA ArraySlots ==
  ASSUME NEW cs, NEW h, Solid(cs, h), NEW start \in 1 .. (Len(cs) + 1),
         NEW i \in start .. Len(cs), NEW a \in CallReach(cs, h, i), NEW k \in DOMAIN h[a]
  PROVE  /\ <<a, k>> \in FixedSlots(cs, h, start)
         /\ Holds(cs, h, <<a, k>>) = h[a][k]
         /\ FixedFrom(cs, h, start, <<a, k>>) \in start .. i
<1>1. Len(cs) \in Nat /\ start \in Nat
  BY SolidIs, SizesAssumption DEF Position
<1>2. a \in Visited(cs, h, start) /\ a \in DOMAIN h
  BY VisitedIs
<1>3. <<a, k>> \in FixedSlots(cs, h, start)
  BY <1>1, <1>2, SlotIs
<1>4. Holds(cs, h, <<a, k>>) = h[a][k]
  BY <1>2 DEF Holds
<1> DEFINE T == {j \in start .. Len(cs) : a \in CallReach(cs, h, j)}
           First(j) == a \in CallReach(cs, h, j) /\ \A l \in start .. (j - 1) : a \notin CallReach(cs, h, l)
<1>5. PICK n \in T : \A m \in T : n <= m
  <2>1. T \subseteq Nat /\ T # {}
    BY <1>1
  <2> HIDE DEF T
  <2> QED
    BY <2>1, Smallest
<1>6. FixedFrom(cs, h, start, <<a, k>>) = CHOOSE j \in start .. Len(cs) : First(j)
  BY <1>2 DEF FixedFrom
<1>7. n \in start .. Len(cs) /\ First(n)
  BY <1>1, <1>5
<1>8. PICK j \in start .. Len(cs) : j = FixedFrom(cs, h, start, <<a, k>>) /\ First(j)
  BY <1>6, <1>7
<1>9. j <= i
  BY <1>1, <1>8
<1> QED
  BY <1>1, <1>3, <1>4, <1>8, <1>9

(* Values that call i may use, a later call may use too. *)
LEMMA BackedUp ==
  ASSUME NEW h, NEW g, NEW v, NEW i, NEW j \in Nat, i \in 1 .. j, Backed(h, g, v, i)
  PROVE  Backed(h, g, v, j)
<1>1. Leaf(i) \subseteq Leaf(j)
  BY DEF Leaf
<1>2. PICK C \in SUBSET (DOMAIN g \ DOMAIN h) : Backing(g, C, i) /\ v \in Leaf(i) \cup C
  BY DEF Backed
<1>3. Backing(g, C, j)
  BY <1>1, <1>2 DEF Backing
<1> QED
  BY <1>1, <1>2, <1>3 DEF Backed

-----------------------------------------------------------------------------
(* What the fixer does: f renames what is held, and what held the hole holds a
   new value. *)
Reassigned(cs, h, start, hole, f, val, g) ==
  \A s \in FixedSlots(cs, h, start) :
    IF Holds(cs, h, s) = hole THEN Backed(h, g, val[s], FixedFrom(cs, h, start, s))
    ELSE val[s] = f[Holds(cs, h, s)]

Renames(cs, h, start, hole, f) ==
  /\ hole \in Position \/ hole \notin Value
  /\ \A v \in Value \ Position : f[v] = v
  /\ \A i \in start .. Len(cs) : \A j \in Uses(cs, h, i) \ {hole} : f[j] \in Position
  /\ \A i \in 1 .. (start - 1) : \A j \in Uses(cs, h, i) : f[j] = j /\ j # hole

(* The heap besides the arrays of h. *)
Beyond(h, g) ==
  /\ DOMAIN g \subseteq Arrays /\ g = [a \in DOMAIN g |-> g[a]]
  /\ \A a \in DOMAIN g \ DOMAIN h :
       /\ g[a] \in Seq(Value) /\ Len(g[a]) <= LongestArray
       /\ Range(g[a]) \cap Arrays \subseteq DOMAIN g \ DOMAIN h
       /\ \E D \in SUBSET (DOMAIN g \ DOMAIN h) :
            Closed(g, D) /\ Range(g[a]) \cap DOMAIN g \subseteq D /\ a \notin D

Fixing(cs, h, start, hole, f, val, ds, g) ==
  /\ Solid(cs, h) /\ start \in 1 .. (Len(cs) + 1)
  /\ Rewired(cs, h, start, val, ds, g) /\ Reassigned(cs, h, start, hole, f, val, g)
  /\ Renames(cs, h, start, hole, f) /\ Beyond(h, g)

(* What a set of values becomes. *)
Moved(hole, f, V, W, h, g, i) ==
  /\ \A v \in V \ {hole} : f[v] \in W
  /\ \A v \in W : (\E u \in V \ {hole} : v = f[u]) \/ (hole \in V /\ Backed(h, g, v, i))

LEMMA NewIsValue ==
  ASSUME NEW h, NEW g, Beyond(h, g), NEW i \in Position, NEW v, Backed(h, g, v, i)
  PROVE  v \in Value /\ (v \in Arrays => v \in DOMAIN g \ DOMAIN h)
<1>1. PICK C \in SUBSET (DOMAIN g \ DOMAIN h) : v \in Leaf(i) \cup C
  BY DEF Backed
<1> QED
  BY <1>1, LeafIsValue DEF Beyond, Value

(* Renaming keeps values values, and arrays. *)
LEMMA RenamedIsValue ==
  ASSUME NEW cs, NEW h, NEW start, NEW hole, NEW f, Solid(cs, h), Renames(cs, h, start, hole, f),
         NEW i \in start .. Len(cs), NEW v \in Value, v # hole, v \in Position => v \in Uses(cs, h, i)
  PROVE  f[v] \in Value /\ (v \in Arrays => f[v] = v) /\ (f[v] \in Arrays => f[v] = v)
<1>1. CASE v \in Position
  <2>1. f[v] \in Position
    BY <1>1 DEF Renames
  <2> QED
    BY <1>1, <2>1, ReferencesAssumption DEF Value
<1>2. CASE v \notin Position
  BY <1>2 DEF Renames
<1> QED
  BY <1>1, <1>2

LEMMA OperandsMoved ==
  ASSUME NEW cs, NEW h, NEW start, NEW hole, NEW f, NEW val, NEW ds, NEW g,
         Fixing(cs, h, start, hole, f, val, ds, g), NEW i \in start .. Len(cs)
  PROVE  /\ ds[i] \in Call /\ ds[i].callee = cs[i].callee /\ Len(ds[i].args) = Len(cs[i].args)
         /\ Moved(hole, f, CallValues(cs[i]), CallValues(ds[i]), h, g, i)
<1>1. /\ Solid(cs, h) /\ start \in 1 .. (Len(cs) + 1) /\ start \in Nat
      /\ Rewired(cs, h, start, val, ds, g) /\ Reassigned(cs, h, start, hole, f, val, g)
      /\ Renames(cs, h, start, hole, f) /\ Beyond(h, g)
  BY DEF Fixing
<1>2. /\ Len(cs) \in Position /\ i \in DOMAIN cs /\ i \in Position
      /\ cs[i] \in Call /\ CallValues(cs[i]) \subseteq Value
  <2>1. DOMAIN cs = 1 .. Len(cs) /\ Len(cs) \in Position /\ DOMAIN cs \subseteq Position
    BY <1>1, SolidIs
  <2>2. i \in DOMAIN cs
    BY <1>1, <2>1
  <2> QED
    BY <1>1, <2>1, <2>2, SolidIs
<1>3. \A v \in CallValues(cs[i]) : v \in Position => v \in Uses(cs, h, i)
  BY DEF Uses
<1>4. \A k \in DOMAIN cs[i].args :
        /\ cs[i].args[k] \in CallValues(cs[i])
        /\ IF cs[i].args[k] = hole THEN Backed(h, g, val[<<i, k>>], i) ELSE val[<<i, k>>] = f[cs[i].args[k]]
  <2> TAKE k \in DOMAIN cs[i].args
  <2>1. /\ <<i, k>> \in FixedSlots(cs, h, start)
        /\ Holds(cs, h, <<i, k>>) = cs[i].args[k] /\ FixedFrom(cs, h, start, <<i, k>>) = i
    BY <1>1, OperandSlots
  <2>2. cs[i].args[k] \in CallValues(cs[i])
    BY DEF CallValues, Range
  <2> QED
    BY <1>1, <2>1, <2>2 DEF Reassigned
<1>5. cs[i].this # NoThis =>
        /\ cs[i].this \in CallValues(cs[i])
        /\ IF cs[i].this = hole THEN Backed(h, g, val[<<i, 0>>], i) ELSE val[<<i, 0>>] = f[cs[i].this]
  <2> HAVE cs[i].this # NoThis
  <2>1. /\ <<i, 0>> \in FixedSlots(cs, h, start)
        /\ Holds(cs, h, <<i, 0>>) = cs[i].this /\ FixedFrom(cs, h, start, <<i, 0>>) = i
    BY <1>1, OperandSlots
  <2>2. cs[i].this \in CallValues(cs[i])
    BY DEF CallValues
  <2> QED
    BY <1>1, <2>1, <2>2 DEF Reassigned
<1>6. /\ ds[i] = [callee |-> cs[i].callee, this |-> ds[i].this, ctor |-> cs[i].ctor, args |-> ds[i].args]
      /\ ds[i].this = IF cs[i].this = NoThis THEN NoThis ELSE val[<<i, 0>>]
      /\ DOMAIN ds[i].args = DOMAIN cs[i].args /\ ds[i].args = [k \in DOMAIN cs[i].args |-> ds[i].args[k]]
      /\ \A k \in DOMAIN cs[i].args : ds[i].args[k] = val[<<i, k>>]
  BY <1>1 DEF Rewired
<1>7. \A v \in CallValues(cs[i]) : v # hole => f[v] \in Value
  BY <1>1, <1>2, <1>3, RenamedIsValue
<1>8. \A v : Backed(h, g, v, i) => v \in Value
  BY <1>1, <1>2, NewIsValue
<1>9. \A k \in DOMAIN cs[i].args : ds[i].args[k] \in Value
  <2> TAKE k \in DOMAIN cs[i].args
  <2>1. PICK u : u = cs[i].args[k]
    OBVIOUS
  <2>2. PICK w : w = val[<<i, k>>]
    OBVIOUS
  <2>3. u \in CallValues(cs[i]) /\ IF u = hole THEN Backed(h, g, w, i) ELSE w = f[u]
    BY <1>4, <2>1, <2>2
  <2>4. w \in Value
    BY ONLY <2>3, <1>7, <1>8
  <2> QED
    BY <1>6, <2>2, <2>4
<1>10. cs[i].this # NoThis => ds[i].this \in Value
  BY <1>5, <1>6, <1>7, <1>8
<1>11. ds[i].args \in Seq(Value) /\ Len(ds[i].args) = Len(cs[i].args)
  <2>1. cs[i].args \in Seq(Value)
    BY <1>2 DEF Call
  <2>2. PICK l \in Nat : l = Len(cs[i].args) /\ DOMAIN cs[i].args = 1 .. l
    BY ONLY <2>1
  <2>3. PICK t : t = ds[i].args
    OBVIOUS
  <2>4. t \in [1 .. l -> Value]
    BY <1>6, <1>9, <2>2, <2>3
  <2>5. t \in Seq(Value) /\ Len(t) = l
    BY ONLY <2>4, l \in Nat
  <2> QED
    BY <2>2, <2>3, <2>5
<1>12. ds[i] \in Call
  <2>1. ds[i].this \in Value \cup {NoThis}
    BY <1>6, <1>10
  <2>2. cs[i].callee \in Functions /\ cs[i].ctor \in BOOLEAN
    BY <1>2 DEF Call
  <2> QED
    BY <1>6, <1>11, <2>1, <2>2 DEF Call
<1>13. ds[i].callee = cs[i].callee
  BY <1>6
<1>14. ASSUME NEW v \in CallValues(cs[i]), v # hole
       PROVE  f[v] \in CallValues(ds[i])
  <2>1. CASE \E k \in DOMAIN cs[i].args : v = cs[i].args[k]
    <3>1. PICK k \in DOMAIN cs[i].args : v = cs[i].args[k]
      BY <2>1
    <3>2. ds[i].args[k] = f[v]
      BY <1>4, <1>6, <1>14, <3>1
    <3> QED
      BY <1>6, <3>1, <3>2 DEF CallValues, Range
  <2>2. CASE v = cs[i].this /\ v # NoThis
    <3>1. ds[i].this = f[v] /\ f[v] \in Value
      BY <1>5, <1>6, <1>7, <1>14, <2>2
    <3> QED
      BY <3>1, ReferencesAssumption DEF CallValues
  <2> QED
    BY <1>14, <2>1, <2>2 DEF CallValues, Range
<1>15. ASSUME NEW v \in CallValues(ds[i])
       PROVE  (\E u \in CallValues(cs[i]) \ {hole} : v = f[u]) \/ (hole \in CallValues(cs[i]) /\ Backed(h, g, v, i))
  <2>1. CASE \E k \in DOMAIN ds[i].args : v = ds[i].args[k]
    <3>1. PICK k \in DOMAIN cs[i].args : v = ds[i].args[k]
      BY <1>6, <2>1
    <3> QED
      <4>1. PICK u : u = cs[i].args[k]
        OBVIOUS
      <4>2. u \in CallValues(cs[i]) /\ IF u = hole THEN Backed(h, g, v, i) ELSE v = f[u]
        BY <1>4, <1>6, <3>1, <4>1
      <4> QED
        BY <4>2
  <2>2. CASE v = ds[i].this /\ v # NoThis
    BY <1>5, <1>6, <2>2
  <2> QED
    BY <1>15, <2>1, <2>2 DEF CallValues, Range
<1> QED
  BY <1>11, <1>12, <1>13, <1>14, <1>15 DEF Moved

LEMMA ArraysMoved ==
  ASSUME NEW cs, NEW h, NEW start, NEW hole, NEW f, NEW val, NEW ds, NEW g,
         Fixing(cs, h, start, hole, f, val, ds, g), NEW i \in start .. Len(cs), NEW a \in CallReach(cs, h, i)
  PROVE  /\ g[a] \in Seq(Value) /\ Len(g[a]) = Len(h[a])
         /\ Moved(hole, f, Range(h[a]), Range(g[a]), h, g, i)
<1>1. /\ Solid(cs, h) /\ start \in 1 .. (Len(cs) + 1) /\ start \in Nat
      /\ Rewired(cs, h, start, val, ds, g) /\ Reassigned(cs, h, start, hole, f, val, g)
      /\ Renames(cs, h, start, hole, f) /\ Beyond(h, g)
  BY DEF Fixing
<1>2. a \in Visited(cs, h, start) /\ a \in DOMAIN h
  BY VisitedIs
<1>3. IsHeap(h) /\ Len(cs) \in Nat /\ i \in Position
  <2>1. Whole(h) /\ Len(cs) \in Position /\ DOMAIN cs = 1 .. Len(cs) /\ DOMAIN cs \subseteq Position
    BY <1>1, SolidIs
  <2> QED
    BY <1>1, <2>1, SizesAssumption DEF Whole, Position
<1>4. Range(h[a]) \subseteq Value
  BY <1>2, <1>3, HeldValues
<1>5. \A v \in Range(h[a]) : v \in Position => v \in Uses(cs, h, i)
  BY DEF Uses
<1>6. /\ DOMAIN g[a] = DOMAIN h[a] /\ g[a] = [k \in DOMAIN h[a] |-> g[a][k]]
      /\ \A k \in DOMAIN h[a] : g[a][k] = val[<<a, k>>]
  BY <1>1, <1>2 DEF Rewired
<1>7. ASSUME NEW k \in DOMAIN h[a]
      PROVE  /\ h[a][k] \in Range(h[a])
             /\ IF h[a][k] = hole THEN Backed(h, g, val[<<a, k>>], i) ELSE val[<<a, k>>] = f[h[a][k]]
  <2>1. /\ <<a, k>> \in FixedSlots(cs, h, start)
        /\ Holds(cs, h, <<a, k>>) = h[a][k] /\ FixedFrom(cs, h, start, <<a, k>>) \in start .. i
    BY <1>1, ArraySlots
  <2>2. PICK j \in 1 .. i : j = FixedFrom(cs, h, start, <<a, k>>)
    BY <1>1, <2>1
  <2>3. h[a][k] \in Range(h[a])
    BY DEF Range
  <2>4. CASE h[a][k] = hole
    <3>1. PICK v : v = val[<<a, k>>]
      OBVIOUS
    <3>2. Backed(h, g, v, j)
      BY <1>1, <2>1, <2>2, <2>4, <3>1 DEF Reassigned
    <3>3. i \in Nat
      BY <1>1, <1>3
    <3>4. Backed(h, g, v, i)
      BY <3>2, <3>3, BackedUp
    <3> QED
      BY <2>3, <2>4, <3>1, <3>4
  <2>5. CASE h[a][k] # hole
    BY <1>1, <2>1, <2>3, <2>5 DEF Reassigned
  <2> QED
    BY <2>4, <2>5
<1>8. \A v \in Range(h[a]) : v # hole => f[v] \in Value
  BY <1>1, <1>4, <1>5, RenamedIsValue
<1>9. \A v : Backed(h, g, v, i) => v \in Value
  BY <1>1, <1>3, NewIsValue
<1>10. \A k \in DOMAIN h[a] : g[a][k] \in Value
  <2> TAKE k \in DOMAIN h[a]
  <2>1. PICK u : u = h[a][k]
    OBVIOUS
  <2>2. PICK w : w = val[<<a, k>>]
    OBVIOUS
  <2>3. u \in Range(h[a]) /\ IF u = hole THEN Backed(h, g, w, i) ELSE w = f[u]
    BY <1>7, <2>1, <2>2
  <2>4. w \in Value
    BY ONLY <2>3, <1>8, <1>9
  <2> QED
    BY <1>6, <2>2, <2>4
<1>11. g[a] \in Seq(Value) /\ Len(g[a]) = Len(h[a])
  <2>1. h[a] \in Seq(Value)
    BY <1>2, <1>3 DEF IsHeap
  <2>2. PICK l \in Nat : l = Len(h[a]) /\ DOMAIN h[a] = 1 .. l
    BY ONLY <2>1
  <2>3. PICK t : t = g[a]
    OBVIOUS
  <2>4. t \in [1 .. l -> Value]
    BY <1>6, <1>10, <2>2, <2>3
  <2>5. t \in Seq(Value) /\ Len(t) = l
    BY ONLY <2>4, l \in Nat
  <2> QED
    BY <2>2, <2>3, <2>5
<1>12. ASSUME NEW v \in Range(h[a]) \ {hole}
       PROVE  f[v] \in Range(g[a])
  <2>1. PICK k \in DOMAIN h[a] : v = h[a][k]
    BY DEF Range
  <2>2. g[a][k] = f[v]
    BY <1>6, <1>7, <2>1
  <2> QED
    BY <1>6, <2>2 DEF Range
<1>13. ASSUME NEW v \in Range(g[a])
       PROVE  (\E u \in Range(h[a]) \ {hole} : v = f[u]) \/ (hole \in Range(h[a]) /\ Backed(h, g, v, i))
  <2>1. PICK k \in DOMAIN h[a] : v = g[a][k]
    BY <1>6 DEF Range
  <2>2. PICK u : u = h[a][k]
    OBVIOUS
  <2>3. u \in Range(h[a]) /\ IF u = hole THEN Backed(h, g, v, i) ELSE v = f[u]
    BY <1>6, <1>7, <2>1, <2>2
  <2> QED
    BY <2>3
<1> QED
  BY <1>11, <1>12, <1>13 DEF Moved

LEMMA MovedIs ==
  ASSUME NEW cs, NEW h, NEW start, NEW hole, NEW f, Solid(cs, h), Renames(cs, h, start, hole, f),
         NEW g, Beyond(h, g), start \in Nat,
         NEW i \in start .. Len(cs), NEW V, NEW W, V \subseteq Value, V \cap Position \subseteq Uses(cs, h, i),
         Moved(hole, f, V, W, h, g, i), i \in Position
  PROVE  /\ V \cap Arrays \subseteq W
         /\ \A x \in W \cap Arrays : x \in V \/ (hole \in V /\ Backed(h, g, x, i))
         /\ \A j \in V \cap Position : j # hole => f[j] \in W
         /\ \A j \in W \cap Position :
              (\E u \in V \cap Position : u # hole /\ j = f[u]) \/ (hole \in V /\ j \in Earlier(i))
<1>1. hole \notin Arrays
  BY ReferencesAssumption DEF Renames, Value
<1>2. ASSUME NEW v \in V, v # hole
      PROVE  f[v] \in Value /\ (v \in Arrays => f[v] = v) /\ (f[v] \in Arrays => f[v] = v)
  <2>1. v \in Value /\ (v \in Position => v \in Uses(cs, h, i))
    OBVIOUS
  <2> QED
    BY <1>2, <2>1, RenamedIsValue
<1>3. V \cap Arrays \subseteq W
  BY <1>1, <1>2 DEF Moved
<1>4. \A x \in W \cap Arrays : x \in V \/ (hole \in V /\ Backed(h, g, x, i))
  BY <1>2 DEF Moved
<1>5. \A j \in V \cap Position : j # hole => f[j] \in W
  BY DEF Moved
<1>6. ASSUME NEW j \in W \cap Position
      PROVE  (\E u \in V \cap Position : u # hole /\ j = f[u]) \/ (hole \in V /\ j \in Earlier(i))
  <2>1. CASE \E u \in V \ {hole} : j = f[u]
    <3>1. PICK u \in V \ {hole} : j = f[u]
      BY <2>1
    <3>2. CASE u \in Position
      BY <3>1, <3>2
    <3>3. CASE u \notin Position
      <4>1. f[u] = u
        BY <3>3 DEF Renames
      <4> QED
        BY <3>1, <3>3, <4>1
    <3> QED
      BY <3>2, <3>3
  <2>2. CASE hole \in V /\ Backed(h, g, j, i)
    <3>1. PICK C \in SUBSET (DOMAIN g \ DOMAIN h) : j \in Leaf(i) \cup C
      BY <2>2 DEF Backed
    <3>2. j \notin C /\ j # Scalar
      BY ReferencesAssumption DEF Beyond
    <3> QED
      BY <2>2, <3>1, <3>2 DEF Leaf, Earlier
  <2> QED
    BY <2>1, <2>2 DEF Moved
<1> QED
  BY <1>3, <1>4, <1>5, <1>6

(* What the fixer does to what a call uses. *)
UsesMoved(hole, f, U, W, i) ==
  /\ \A j \in U : j # hole => f[j] \in W
  /\ \A j \in W : (\E u \in U : u # hole /\ j = f[u]) \/ (hole \in U /\ j \in Earlier(i))

(* Facts on a fixing that its proofs share. *)
LEMMA FixingIs ==
  ASSUME NEW cs, NEW h, NEW start, NEW hole, NEW f, NEW val, NEW ds, NEW g,
         Fixing(cs, h, start, hole, f, val, ds, g)
  PROVE  /\ Solid(cs, h) /\ start \in 1 .. (Len(cs) + 1) /\ start \in Nat /\ Whole(h)
         /\ Len(cs) \in Nat /\ DOMAIN cs = 1 .. Len(cs) /\ DOMAIN cs \subseteq Position
         /\ Rewired(cs, h, start, val, ds, g) /\ Reassigned(cs, h, start, hole, f, val, g)
         /\ Renames(cs, h, start, hole, f) /\ Beyond(h, g)
         /\ DOMAIN h \subseteq DOMAIN g /\ DOMAIN g \subseteq Arrays
         /\ \A i \in DOMAIN cs : CallValues(cs[i]) \subseteq Value /\ CallValues(cs[i]) \cap Arrays \subseteq DOMAIN h
         /\ \A a \in DOMAIN h : Range(h[a]) \subseteq Value /\ Range(h[a]) \cap Arrays \subseteq DOMAIN h
<1>1. /\ Solid(cs, h) /\ start \in 1 .. (Len(cs) + 1)
      /\ Rewired(cs, h, start, val, ds, g) /\ Reassigned(cs, h, start, hole, f, val, g)
      /\ Renames(cs, h, start, hole, f) /\ Beyond(h, g)
  BY DEF Fixing
<1>2. /\ Whole(h) /\ Len(cs) \in Position /\ DOMAIN cs = 1 .. Len(cs) /\ DOMAIN cs \subseteq Position
      /\ \A i \in DOMAIN cs : CallValues(cs[i]) \subseteq Value /\ CallValues(cs[i]) \cap Arrays \subseteq DOMAIN h
  BY <1>1, SolidIs
<1>3. Len(cs) \in Nat
  BY <1>2, SizesAssumption DEF Position
<1>4. \A a \in DOMAIN h : Range(h[a]) \subseteq Value /\ Range(h[a]) \cap Arrays \subseteq DOMAIN h
  BY <1>2, HeldValues DEF Whole
<1>5. DOMAIN h \subseteq DOMAIN g /\ DOMAIN g \subseteq Arrays
  BY <1>1 DEF Rewired, Beyond
<1> QED
  BY <1>1, <1>2, <1>3, <1>4, <1>5

LEMMA OperandsFixed ==
  ASSUME NEW cs, NEW h, NEW start, NEW hole, NEW f, NEW val, NEW ds, NEW g,
         Fixing(cs, h, start, hole, f, val, ds, g), NEW i \in start .. Len(cs),
         NEW V, V = CallValues(cs[i]), NEW W, W = CallValues(ds[i])
  PROVE  /\ V \cap Arrays \subseteq W
         /\ \A x \in W \cap Arrays : x \in V \/ (hole \in V /\ Backed(h, g, x, i))
         /\ \A j \in V \cap Position : j # hole => f[j] \in W
         /\ \A j \in W \cap Position :
              (\E u \in V \cap Position : u # hole /\ j = f[u]) \/ (hole \in V /\ j \in Earlier(i))
<1>1. /\ Solid(cs, h) /\ Renames(cs, h, start, hole, f) /\ Beyond(h, g) /\ start \in Nat
      /\ i \in DOMAIN cs /\ i \in Position
  BY FixingIs
<1>2. V \subseteq Value
  BY <1>1, FixingIs
<1>3. Moved(hole, f, V, W, h, g, i)
  BY OperandsMoved
<1>4. V \cap Position \subseteq Uses(cs, h, i)
  BY DEF Uses
<1>5. i \in start .. Len(cs)
  OBVIOUS
<1> QED
  BY ONLY <1>1, <1>2, <1>3, <1>4, <1>5, MovedIs

LEMMA ArraysFixed ==
  ASSUME NEW cs, NEW h, NEW start, NEW hole, NEW f, NEW val, NEW ds, NEW g,
         Fixing(cs, h, start, hole, f, val, ds, g), NEW i \in start .. Len(cs),
         NEW a \in CallReach(cs, h, i), NEW V, V = Range(h[a]), NEW W, W = Range(g[a])
  PROVE  /\ V \cap Arrays \subseteq W
         /\ \A x \in W \cap Arrays : x \in V \/ (hole \in V /\ Backed(h, g, x, i))
         /\ \A j \in V \cap Position : j # hole => f[j] \in W
         /\ \A j \in W \cap Position :
              (\E u \in V \cap Position : u # hole /\ j = f[u]) \/ (hole \in V /\ j \in Earlier(i))
<1>1. /\ Solid(cs, h) /\ Renames(cs, h, start, hole, f) /\ Beyond(h, g) /\ start \in Nat
      /\ i \in DOMAIN cs /\ i \in Position
  BY FixingIs
<1>2. V \subseteq Value
  <2>1. a \in DOMAIN h
    BY DEF CallReach, Reach
  <2> QED
    BY <2>1, FixingIs
<1>3. Moved(hole, f, V, W, h, g, i)
  BY ArraysMoved
<1>4. V \cap Position \subseteq Uses(cs, h, i)
  BY DEF Uses
<1>5. i \in start .. Len(cs)
  OBVIOUS
<1> QED
  BY ONLY <1>1, <1>2, <1>3, <1>4, <1>5, MovedIs

(* New arrays that hold values call i may use. *)
NewFor(h, g, i) == {a \in DOMAIN g \ DOMAIN h : Backed(h, g, a, i)}

LEMMA NewForIsClosed ==
  ASSUME NEW h, NEW g, Beyond(h, g), NEW i \in Position, NEW a \in NewFor(h, g, i)
  PROVE  /\ Range(g[a]) \cap DOMAIN g \subseteq NewFor(h, g, i)
         /\ Range(g[a]) \cap Position \subseteq Earlier(i)
<1>1. PICK C \in SUBSET (DOMAIN g \ DOMAIN h) : Backing(g, C, i) /\ a \in Leaf(i) \cup C
  BY DEF NewFor, Backed
<1>2. a \in Arrays /\ a \notin Leaf(i)
  BY LeafIsValue DEF NewFor, Beyond
<1>3. Range(g[a]) \subseteq Leaf(i) \cup C
  BY <1>1, <1>2 DEF Backing
<1>4. \A b \in C : b \in NewFor(h, g, i) /\ b \in Arrays
  BY <1>1 DEF NewFor, Backed, Beyond
<1>5. Range(g[a]) \cap DOMAIN g \subseteq NewFor(h, g, i)
  BY <1>3, <1>4, LeafIsValue DEF Beyond
<1>6. Range(g[a]) \cap Position \subseteq Earlier(i)
  BY <1>3, <1>4, ReferencesAssumption DEF Leaf, Earlier
<1> QED
  BY <1>5, <1>6

LEMMA LaterUses ==
  ASSUME NEW cs, NEW h, NEW start, NEW hole, NEW f, NEW val, NEW ds, NEW g,
         Fixing(cs, h, start, hole, f, val, ds, g), NEW i \in start .. Len(cs)
  PROVE  UsesMoved(hole, f, Uses(cs, h, i), Uses(ds, g, i), i)
<1>1. /\ Renames(cs, h, start, hole, f) /\ Beyond(h, g) /\ i \in Position /\ i \in DOMAIN cs
      /\ DOMAIN h \subseteq DOMAIN g /\ DOMAIN g \subseteq Arrays
  BY FixingIs
<1>2. PICK V : V = CallValues(cs[i])
  OBVIOUS
<1>3. PICK W : W = CallValues(ds[i])
  OBVIOUS
<1>4. PICK R : R = Reach(h, V)
  OBVIOUS
<1>5. PICK Q : Q = Reach(g, W)
  OBVIOUS
<1>6. /\ R = CallReach(cs, h, i)
      /\ Uses(cs, h, i) = (V \cup UNION {Range(h[a]) : a \in R}) \cap Position
      /\ Uses(ds, g, i) = (W \cup UNION {Range(g[a]) : a \in Q}) \cap Position
  BY <1>2, <1>3, <1>4, <1>5 DEF CallReach, Uses
<1>7. V \subseteq Value /\ V \cap Arrays \subseteq DOMAIN h
  BY <1>1, <1>2, FixingIs
<1>8. /\ R \subseteq DOMAIN h /\ V \cap DOMAIN h \subseteq R
      /\ \A a \in R : Range(h[a]) \subseteq Value /\ Range(h[a]) \cap Arrays \subseteq R
  <2>1. Closed(h, R) /\ V \cap DOMAIN h \subseteq R
    BY <1>4, ReachIsClosed
  <2>2. \A a \in DOMAIN h : Range(h[a]) \subseteq Value /\ Range(h[a]) \cap Arrays \subseteq DOMAIN h
    BY FixingIs
  <2> QED
    BY <2>1, <2>2 DEF Closed
<1>9. /\ Q \subseteq DOMAIN g /\ W \cap DOMAIN g \subseteq Q
      /\ \A a \in Q : Range(g[a]) \cap DOMAIN g \subseteq Q
  BY <1>5, ReachIsClosed DEF Closed
<1>10. /\ V \cap Arrays \subseteq W
       /\ \A x \in W \cap Arrays : x \in V \/ (hole \in V /\ Backed(h, g, x, i))
       /\ \A j \in V \cap Position : j # hole => f[j] \in W
       /\ \A j \in W \cap Position :
            (\E u \in V \cap Position : u # hole /\ j = f[u]) \/ (hole \in V /\ j \in Earlier(i))
  BY <1>2, <1>3, OperandsFixed
<1>11. \A a \in R :
         /\ Range(h[a]) \cap Arrays \subseteq Range(g[a])
         /\ \A x \in Range(g[a]) \cap Arrays : x \in Range(h[a]) \/ (hole \in Range(h[a]) /\ Backed(h, g, x, i))
         /\ \A j \in Range(h[a]) \cap Position : j # hole => f[j] \in Range(g[a])
         /\ \A j \in Range(g[a]) \cap Position :
              (\E u \in Range(h[a]) \cap Position : u # hole /\ j = f[u]) \/ (hole \in Range(h[a]) /\ j \in Earlier(i))
  <2> TAKE a \in R
  <2>1. PICK X : X = Range(h[a])
    OBVIOUS
  <2>2. PICK Y : Y = Range(g[a])
    OBVIOUS
  <2>3. a \in CallReach(cs, h, i)
    BY <1>6
  <2>4. /\ X \cap Arrays \subseteq Y
        /\ \A x \in Y \cap Arrays : x \in X \/ (hole \in X /\ Backed(h, g, x, i))
        /\ \A j \in X \cap Position : j # hole => f[j] \in Y
        /\ \A j \in Y \cap Position :
             (\E u \in X \cap Position : u # hole /\ j = f[u]) \/ (hole \in X /\ j \in Earlier(i))
    BY <2>1, <2>2, <2>3, ArraysFixed
  <2> QED
    BY <2>1, <2>2, <2>4
<1>12. hole \in V \/ (\E a \in R : hole \in Range(h[a])) => hole \in Uses(cs, h, i)
  BY <1>6, <1>7, <1>8, <1>1 DEF Renames
<1>13. R \subseteq Q
  <2>1. Closed(h, R \cap Q)
    BY <1>1, <1>8, <1>9, <1>11 DEF Closed
  <2>2. V \cap DOMAIN h \subseteq R \cap Q
    BY <1>1, <1>8, <1>9, <1>10
  <2>3. Reach(h, V) \subseteq R \cap Q
    BY <2>1, <2>2, ReachIsLeast
  <2> QED
    BY <1>4, <2>3
<1>14. PICK X : X = IF hole \in Uses(cs, h, i) THEN NewFor(h, g, i) ELSE {}
  OBVIOUS
<1>15. X \subseteq DOMAIN g /\ \A a \in X : Range(g[a]) \cap DOMAIN g \subseteq X
  BY <1>1, <1>14, NewForIsClosed DEF NewFor
<1>16. \A x : x \in DOMAIN g /\ Backed(h, g, x, i) /\ hole \in Uses(cs, h, i) => x \in X
  <2>1. \A x : x \in Arrays /\ Backed(h, g, x, i) => x \in DOMAIN g \ DOMAIN h
    BY <1>1, NewIsValue
  <2> QED
    BY <1>1, <1>14, <2>1 DEF NewFor
<1>17. Q \subseteq R \cup X
  <2>1. Closed(g, R \cup X)
    <3>1. \A a \in R : Range(g[a]) \cap DOMAIN g \subseteq R \cup X
      BY <1>1, <1>8, <1>11, <1>12, <1>16
    <3> QED
      BY <1>1, <1>8, <1>15, <3>1 DEF Closed
  <2>2. W \cap DOMAIN g \subseteq R \cup X
    BY <1>1, <1>7, <1>8, <1>10, <1>12, <1>16
  <2> QED
    BY <1>5, <2>1, <2>2, ReachIsLeast
<1>18. ASSUME NEW j \in Uses(cs, h, i), j # hole
       PROVE  f[j] \in Uses(ds, g, i)
  <2>1. f[j] \in Position
    BY <1>1, <1>18 DEF Renames
  <2>2. CASE j \in V
    BY <1>6, <1>10, <1>18, <2>1, <2>2
  <2>3. CASE \E a \in R : j \in Range(h[a])
    <3>1. PICK a \in R : j \in Range(h[a])
      BY <2>3
    <3>2. f[j] \in Range(g[a])
      BY <1>6, <1>11, <1>18, <3>1
    <3> QED
      BY <1>6, <1>13, <2>1, <3>1, <3>2
  <2> QED
    BY <1>6, <1>18, <2>2, <2>3
<1>19. ASSUME NEW j \in Uses(ds, g, i)
       PROVE  (\E u \in Uses(cs, h, i) : u # hole /\ j = f[u]) \/ (hole \in Uses(cs, h, i) /\ j \in Earlier(i))
  <2>1. j \in Position
    BY <1>6
  <2>2. CASE j \in W
    BY <1>6, <1>10, <1>12, <2>1, <2>2
  <2>3. CASE \E a \in R : j \in Range(g[a])
    <3>1. PICK a \in R : j \in Range(g[a])
      BY <2>3
    <3>2. (\E u \in Range(h[a]) \cap Position : u # hole /\ j = f[u]) \/ (hole \in Range(h[a]) /\ j \in Earlier(i))
      BY <1>11, <2>1, <3>1
    <3> QED
      BY <1>6, <1>12, <3>1, <3>2
  <2>4. CASE \E a \in X : j \in Range(g[a])
    <3>1. PICK a \in NewFor(h, g, i) : hole \in Uses(cs, h, i) /\ j \in Range(g[a])
      BY <1>14, <2>4
    <3> QED
      BY <1>1, <2>1, <3>1, NewForIsClosed
  <2> QED
    BY <1>6, <1>17, <1>19, <2>2, <2>3, <2>4
<1> QED
  BY <1>18, <1>19 DEF UsesMoved

(* A call before start uses what it used. *)
LEMMA EarlierUses ==
  ASSUME NEW cs, NEW h, NEW start, NEW hole, NEW f, NEW val, NEW ds, NEW g,
         Fixing(cs, h, start, hole, f, val, ds, g), NEW i \in 1 .. (start - 1)
  PROVE  ds[i] = cs[i] /\ Uses(ds, g, i) = Uses(cs, h, i)
<1>1. /\ Renames(cs, h, start, hole, f) /\ Rewired(cs, h, start, val, ds, g) /\ i \in DOMAIN cs
      /\ DOMAIN h \subseteq DOMAIN g /\ DOMAIN g \subseteq Arrays
  BY FixingIs
<1>2. ds[i] = cs[i]
  BY <1>1 DEF Rewired
<1>3. PICK V : V = CallValues(cs[i])
  OBVIOUS
<1>4. PICK R : R = Reach(h, V)
  OBVIOUS
<1>5. Uses(cs, h, i) = (V \cup UNION {Range(h[a]) : a \in R}) \cap Position /\ R \subseteq DOMAIN h
  BY <1>3, <1>4 DEF CallReach, Uses, Reach
<1>6. V \cap Arrays \subseteq DOMAIN h
  BY <1>1, <1>3, FixingIs
<1>7. \A a \in DOMAIN h : Range(h[a]) \subseteq Value /\ Range(h[a]) \cap Arrays \subseteq DOMAIN h
  BY FixingIs
<1>8. ASSUME NEW a \in R
      PROVE  Range(g[a]) = Range(h[a])
  <2>1. a \in DOMAIN h
    BY <1>5
  <2>2. CASE a \notin Visited(cs, h, start)
    BY <1>1, <2>1, <2>2 DEF Rewired
  <2>3. CASE a \in Visited(cs, h, start)
    <3>1. PICK j \in start .. Len(cs) : a \in CallReach(cs, h, j)
      BY <2>3, VisitedIs
    <3>2. Moved(hole, f, Range(h[a]), Range(g[a]), h, g, j)
      BY <3>1, ArraysMoved
    <3>3. hole \notin Range(h[a])
      <4>1. hole \in Range(h[a]) => hole \in Uses(cs, h, i)
        BY <1>1, <1>5, <1>7, <2>1 DEF Renames
      <4>2. hole \notin Uses(cs, h, i)
        BY <1>1 DEF Renames
      <4> QED
        BY <4>1, <4>2
    <3>4. \A v \in Range(h[a]) : f[v] = v
      <4>1. \A v \in Range(h[a]) : v \in Position => v \in Uses(cs, h, i)
        BY <1>5
      <4> QED
        BY <1>1, <1>7, <2>1, <4>1 DEF Renames
    <3>5. PICK X : X = Range(h[a])
      OBVIOUS
    <3>6. PICK Y : Y = Range(g[a])
      OBVIOUS
    <3>7. Moved(hole, f, X, Y, h, g, j) /\ hole \notin X /\ \A v \in X : f[v] = v
      BY <3>2, <3>3, <3>4, <3>5, <3>6
    <3>8. X \subseteq Y /\ Y \subseteq X
      BY ONLY <3>7 DEF Moved
    <3> QED
      BY <3>5, <3>6, <3>8
  <2> QED
    BY <2>2, <2>3
<1>9. V \cap DOMAIN g = V \cap DOMAIN h
  BY <1>1, <1>6
<1>10. Reach(h, V) \subseteq DOMAIN g /\ \A a \in Reach(h, V) : Range(g[a]) \cap DOMAIN g = Range(h[a]) \cap DOMAIN h
  BY <1>1, <1>4, <1>5, <1>7, <1>8
<1>11. Reach(g, V) = R
  <2>1. Reach(g, V) = Reach(h, V)
    BY ONLY <1>9, <1>10, ReachFrame
  <2> QED
    BY <1>4, <2>1
<1>12. Uses(ds, g, i) = (V \cup UNION {Range(g[a]) : a \in R}) \cap Position
  BY <1>2, <1>3, <1>11 DEF Uses, CallReach
<1>13. Uses(ds, g, i) = Uses(cs, h, i)
  BY <1>5, <1>8, <1>12
<1> QED
  BY <1>2, <1>13

(* What the fixer leaves is a test case. *)
LEMMA FixedIsSolid ==
  ASSUME NEW cs, NEW h, NEW start, NEW hole, NEW f, NEW val, NEW ds, NEW g,
         Fixing(cs, h, start, hole, f, val, ds, g)
  PROVE  /\ Solid(ds, g) /\ DOMAIN ds = DOMAIN cs /\ Len(ds) = Len(cs)
         /\ \A i \in DOMAIN cs : ds[i].callee = cs[i].callee
         /\ \A a \in DOMAIN h : Range(g[a]) \cap DOMAIN h \subseteq Range(h[a])
<1>1. /\ Solid(cs, h) /\ start \in 1 .. (Len(cs) + 1) /\ start \in Nat /\ Whole(h)
      /\ Len(cs) \in Nat /\ DOMAIN cs = 1 .. Len(cs)
      /\ Rewired(cs, h, start, val, ds, g) /\ Beyond(h, g)
      /\ DOMAIN h \subseteq DOMAIN g /\ DOMAIN g \subseteq Arrays
  BY FixingIs
<1>2. \A i \in 1 .. (start - 1) : ds[i] = cs[i]
  BY <1>1 DEF Rewired
<1>3. \A i \in start .. Len(cs) : ds[i] \in Call /\ ds[i].callee = cs[i].callee /\ Len(ds[i].args) = Len(cs[i].args)
  BY OperandsMoved
<1>4. ASSUME NEW i \in DOMAIN cs
      PROVE  /\ ds[i] \in Call /\ ds[i].callee = cs[i].callee /\ Len(ds[i].args) <= MostArguments
             /\ CallValues(ds[i]) \cap Arrays \subseteq DOMAIN g
  <2>1. /\ cs[i] \in Call /\ Len(cs[i].args) <= MostArguments
        /\ CallValues(cs[i]) \cap Arrays \subseteq DOMAIN h
    BY <1>1, SolidIs DEF Solid
  <2>2. CASE i \in 1 .. (start - 1)
    BY <1>1, <1>2, <2>1, <2>2
  <2>3. CASE i \in start .. Len(cs)
    <3>1. PICK V : V = CallValues(cs[i])
      OBVIOUS
    <3>2. PICK W : W = CallValues(ds[i])
      OBVIOUS
    <3>3. \A x \in W \cap Arrays : x \in V \/ (hole \in V /\ Backed(h, g, x, i))
      BY <2>3, <3>1, <3>2, OperandsFixed
    <3>4. i \in Position
      BY FixingIs
    <3>5. \A x \in Arrays : Backed(h, g, x, i) => x \in DOMAIN g
      BY <1>1, <3>4, NewIsValue
    <3> QED
      BY <1>1, <1>3, <2>1, <2>3, <3>1, <3>2, <3>3, <3>5
  <2> QED
    BY <1>1, <2>2, <2>3
<1>5. ds \in Seq(Call) /\ Len(ds) = Len(cs) /\ DOMAIN ds = DOMAIN cs
  <2>1. PICK l \in Nat : l = Len(cs) /\ DOMAIN cs = 1 .. l
    BY <1>1
  <2>2. DOMAIN ds = DOMAIN cs /\ ds = [i \in DOMAIN cs |-> ds[i]]
    BY <1>1 DEF Rewired
  <2>3. ds \in [1 .. l -> Call]
    BY <1>4, <2>1, <2>2
  <2>4. ds \in Seq(Call) /\ Len(ds) = l
    BY ONLY <2>3, l \in Nat
  <2> QED
    BY <2>1, <2>2, <2>4
<1>6. ASSUME NEW a \in DOMAIN h
      PROVE  /\ g[a] \in Seq(Value) /\ Len(g[a]) <= LongestArray /\ Range(g[a]) \cap Arrays \subseteq DOMAIN g
             /\ Range(g[a]) \cap DOMAIN h \subseteq Range(h[a])
  <2>1. h[a] \in Seq(Value) /\ Len(h[a]) <= LongestArray /\ Range(h[a]) \cap Arrays \subseteq DOMAIN h
    BY <1>1 DEF Solid, Sized, Whole, IsHeap
  <2>2. CASE a \notin Visited(cs, h, start)
    <3>1. g[a] = h[a]
      BY <1>1, <2>2 DEF Rewired
    <3> QED
      BY <1>1, <2>1, <3>1
  <2>3. CASE a \in Visited(cs, h, start)
    <3>1. PICK j \in start .. Len(cs) : a \in CallReach(cs, h, j)
      BY <2>3, VisitedIs
    <3>2. g[a] \in Seq(Value) /\ Len(g[a]) = Len(h[a])
      BY <3>1, ArraysMoved
    <3>3. PICK V : V = Range(h[a])
      OBVIOUS
    <3>4. PICK W : W = Range(g[a])
      OBVIOUS
    <3>5. \A x \in W \cap Arrays : x \in V \/ (hole \in V /\ Backed(h, g, x, j))
      BY <3>1, <3>3, <3>4, ArraysFixed
    <3>6. j \in Position
      BY FixingIs
    <3>7. \A x \in Arrays : Backed(h, g, x, j) => x \in DOMAIN g \ DOMAIN h
      BY <1>1, <3>6, NewIsValue
    <3> QED
      BY <1>1, <2>1, <3>2, <3>3, <3>4, <3>5, <3>7
  <2> QED
    BY <2>2, <2>3
<1>7. ASSUME NEW a \in DOMAIN g
      PROVE  g[a] \in Seq(Value) /\ Len(g[a]) <= LongestArray /\ Range(g[a]) \cap Arrays \subseteq DOMAIN g
  BY <1>1, <1>6 DEF Beyond
<1>8. g \in [DOMAIN g -> Seq(Value)]
  <2>1. g = [a \in DOMAIN g |-> g[a]]
    BY <1>1 DEF Beyond
  <2> QED
    BY <1>7, <2>1
<1>9. Len(ds) \in 1 .. MaxCalls
  BY <1>1, <1>5 DEF Solid, TestCase
<1>10. Solid(ds, g)
  BY <1>1, <1>4, <1>5, <1>7, <1>8, <1>9 DEF Solid, TestCase, Sized
<1> QED
  BY <1>4, <1>5, <1>6, <1>10

(* Every slot is of a call, or of an array that is visited, and holds a value. *)
LEMMA SlotForms ==
  ASSUME NEW cs, NEW h, NEW start, NEW s \in FixedSlots(cs, h, start)
  PROVE  \/ \E i \in start .. Len(cs) : \E k \in DOMAIN cs[i].args : s = <<i, k>>
         \/ \E i \in start .. Len(cs) : cs[i].this # NoThis /\ s = <<i, 0>>
         \/ \E i \in start .. Len(cs) : \E a \in CallReach(cs, h, i) : \E k \in DOMAIN h[a] : s = <<a, k>>
<1> DEFINE A == UNION {{<<i, k>> : k \in DOMAIN cs[i].args} : i \in start .. Len(cs)}
           B == {<<i, 0>> : i \in {j \in start .. Len(cs) : cs[j].this # NoThis}}
           C == UNION {{<<a, k>> : k \in DOMAIN h[a]} : a \in Visited(cs, h, start)}
<1>1. FixedSlots(cs, h, start) = A \cup B \cup C
  BY DEF FixedSlots
<1>2. s \in A => \E i \in start .. Len(cs) : \E k \in DOMAIN cs[i].args : s = <<i, k>>
  OBVIOUS
<1>3. s \in B => \E i \in start .. Len(cs) : cs[i].this # NoThis /\ s = <<i, 0>>
  OBVIOUS
<1>4. s \in C => \E a \in Visited(cs, h, start) : \E k \in DOMAIN h[a] : s = <<a, k>>
  OBVIOUS
<1>5. \A a \in Visited(cs, h, start) : \E i \in start .. Len(cs) : a \in CallReach(cs, h, i)
  BY VisitedIs
<1> HIDE DEF A, B, C
<1> QED
  BY <1>1, <1>2, <1>3, <1>4, <1>5

LEMMA HoldsIsValue ==
  ASSUME NEW cs, NEW h, Solid(cs, h), NEW start \in 1 .. (Len(cs) + 1), NEW s \in FixedSlots(cs, h, start)
  PROVE  Holds(cs, h, s) \in Value
<1>1. /\ Whole(h) /\ DOMAIN cs = 1 .. Len(cs) /\ Len(cs) \in Nat
      /\ \A i \in DOMAIN cs : cs[i] \in Call /\ CallValues(cs[i]) \subseteq Value
  BY SolidIs, SizesAssumption DEF Position
<1>2. CASE \E i \in start .. Len(cs) : \E k \in DOMAIN cs[i].args : s = <<i, k>>
  <2>1. PICK i \in start .. Len(cs) : \E k \in DOMAIN cs[i].args : s = <<i, k>>
    BY <1>2
  <2>2. PICK k \in DOMAIN cs[i].args : s = <<i, k>>
    BY <2>1
  <2>3. Holds(cs, h, s) = cs[i].args[k]
    <3>1. Solid(cs, h) /\ start \in 1 .. (Len(cs) + 1) /\ i \in start .. Len(cs)
      OBVIOUS
    <3>2. \A n \in DOMAIN cs[i].args :
              /\ <<i, n>> \in FixedSlots(cs, h, start)
              /\ Holds(cs, h, <<i, n>>) = cs[i].args[n] /\ FixedFrom(cs, h, start, <<i, n>>) = i
      BY ONLY <3>1, OperandSlots
    <3> QED
      BY <2>2, <3>2
  <2>4. cs[i].args[k] \in CallValues(cs[i]) /\ i \in DOMAIN cs
    BY <1>1 DEF CallValues, Range
  <2> QED
    BY <1>1, <2>3, <2>4
<1>3. CASE \E i \in start .. Len(cs) : cs[i].this # NoThis /\ s = <<i, 0>>
  <2>1. PICK i \in start .. Len(cs) : cs[i].this # NoThis /\ s = <<i, 0>>
    BY <1>3
  <2>2. Holds(cs, h, s) = cs[i].this
    BY <2>1, OperandSlots
  <2>3. cs[i].this \in CallValues(cs[i]) /\ i \in DOMAIN cs
    BY <1>1, <2>1 DEF CallValues
  <2> QED
    BY <1>1, <2>2, <2>3
<1>4. CASE \E i \in start .. Len(cs) : \E a \in CallReach(cs, h, i) : \E k \in DOMAIN h[a] : s = <<a, k>>
  <2>1. PICK i \in start .. Len(cs) : \E a \in CallReach(cs, h, i) : \E k \in DOMAIN h[a] : s = <<a, k>>
    BY <1>4
  <2>2. PICK a \in CallReach(cs, h, i) : \E k \in DOMAIN h[a] : s = <<a, k>>
    BY <2>1
  <2>3. PICK k \in DOMAIN h[a] : s = <<a, k>>
    BY <2>2
  <2>4. Holds(cs, h, s) = h[a][k]
    BY <2>3, ArraySlots
  <2>5. a \in DOMAIN h
    BY DEF CallReach, Reach
  <2>6. Range(h[a]) \subseteq Value
    BY <1>1, <2>5, HeldValues DEF Whole
  <2> QED
    BY <2>4, <2>6 DEF Range
<1> QED
  BY <1>2, <1>3, <1>4, SlotForms

-----------------------------------------------------------------------------
(* Inserting a call. *)
LEMMA GeneratedCall ==
  ASSUME NEW h, IsHeap(h), NEW i \in Position, NEW r \in GenerateFunctionCall(h, i)
  PROVE  /\ r.value \in Call /\ Len(r.value.args) <= MostArguments
         /\ Planted(h, r.heap) /\ Sprouted(h, r.heap, Operands(r.value))
         /\ \A v \in CallValues(r.value) : Backed(h, r.heap, v, i)
<1>1. PICK f \in Functions, t \in {0, 1}, c \in BOOLEAN, n \in 0 .. GeneratedArguments :
        \E g \in GenerateValues(h, [k \in 1 .. (t + n) |-> i]) :
          r = [value |-> [callee |-> f, this |-> IF t = 0 THEN NoThis ELSE g.value[1],
                          ctor |-> c, args |-> SubSeq(g.value, t + 1, t + n)],
               heap |-> g.heap]
  <2> DEFINE Made(f, t, c, n) ==
               {[value |-> [callee |-> f, this |-> IF t = 0 THEN NoThis ELSE g.value[1],
                            ctor |-> c, args |-> SubSeq(g.value, t + 1, t + n)],
                 heap |-> g.heap] : g \in GenerateValues(h, [k \in 1 .. (t + n) |-> i])}
  <2>1. GenerateFunctionCall(h, i) =
          UNION {Made(f, t, c, n) : f \in Functions, t \in {0, 1}, c \in BOOLEAN, n \in 0 .. GeneratedArguments}
    BY DEF GenerateFunctionCall
  <2>2. \E f \in Functions, t \in {0, 1}, c \in BOOLEAN, n \in 0 .. GeneratedArguments : r \in Made(f, t, c, n)
    <3> HIDE DEF Made
    <3> QED
      BY <2>1
  <2>3. PICK f \in Functions, t \in {0, 1}, c \in BOOLEAN, n \in 0 .. GeneratedArguments : r \in Made(f, t, c, n)
    <3> HIDE DEF Made
    <3> QED
      BY ONLY <2>2
  <2> DEFINE Is(f1, t1, c1, n1) ==
               \E g \in GenerateValues(h, [k \in 1 .. (t1 + n1) |-> i]) :
                 r = [value |-> [callee |-> f1, this |-> IF t1 = 0 THEN NoThis ELSE g.value[1],
                                 ctor |-> c1, args |-> SubSeq(g.value, t1 + 1, t1 + n1)],
                      heap |-> g.heap]
  <2>4. Is(f, t, c, n)
    BY ONLY <2>3
  <2>5. \E f1 \in Functions, t1 \in {0, 1}, c1 \in BOOLEAN, n1 \in 0 .. GeneratedArguments :
          Is(f1, t1, c1, n1)
    <3> HIDE DEF Is
    <3> QED
      BY ONLY <2>4, f \in Functions, t \in {0, 1}, c \in BOOLEAN, n \in 0 .. GeneratedArguments
  <2> QED
    BY ONLY <2>5
<1>2. PICK at : at = [k \in 1 .. (t + n) |-> i]
  OBVIOUS
<1>3. n \in Nat /\ t \in Nat /\ n <= MostArguments
  <2>1. GeneratedArguments \in Nat
    BY SizesAssumption
  <2>2. MostArguments \in Nat /\ GeneratedArguments <= MostArguments
    BY Sizes
  <2> QED
    BY <2>1, <2>2
<1>4. at \in Seq(Position) /\ Len(at) = t + n /\ \A k \in 1 .. (t + n) : at[k] = i
  <2>1. PICK m \in Nat : m = t + n
    BY <1>3
  <2>2. at \in [1 .. m -> Position] /\ \A k \in 1 .. m : at[k] = i
    BY <1>2, <2>1
  <2>3. at \in Seq(Position) /\ Len(at) = m
    BY ONLY <2>2, m \in Nat
  <2> QED
    BY <2>1, <2>2, <2>3
<1>5. PICK g \in GenerateValues(h, at) :
        r = [value |-> [callee |-> f, this |-> IF t = 0 THEN NoThis ELSE g.value[1],
                          ctor |-> c, args |-> SubSeq(g.value, t + 1, t + n)],
               heap |-> g.heap]
  BY <1>1, <1>2
<1>6. Generated(h, at, t + n, g)
  <2>1. Generated(h, at, Len(at), g)
    BY <1>4, GeneratedValues
  <2> QED
    BY <1>4, <2>1
<1>7. PICK s \in Seq(Value) : s = g.value
  BY <1>6 DEF Generated
<1>8. /\ Len(s) = t + n /\ Planted(h, g.heap) /\ Sprouted(h, g.heap, s)
      /\ \A k \in 1 .. (t + n) : Backed(h, g.heap, s[k], i)
  BY <1>4, <1>6, <1>7 DEF Generated
<1>9. PICK args : args = SubSeq(s, t + 1, t + n)
  OBVIOUS
<1>10. args \in Seq(Value) /\ Len(args) = n /\ DOMAIN args = 1 .. n /\ \A k \in 1 .. n : args[k] = s[t + k]
  <2>1. DOMAIN s = 1 .. (t + n)
    BY <1>8
  <2>2. args = [k \in 1 .. n |-> s[t + k]]
    <3>1. args = [k \in 1 .. (t + n - (t + 1) + 1) |-> s[t + 1 + k - 1]]
      BY <1>3, <1>9, <2>1 DEF SubSeq
    <3>2. t + n - (t + 1) + 1 = n /\ \A k \in Nat : t + 1 + k - 1 = t + k
      BY <1>3
    <3> QED
      BY <1>3, <3>1, <3>2
  <2>3. \A k \in 1 .. n : s[t + k] \in Value
    <3>1. \A k \in 1 .. n : t + k \in 1 .. (t + n)
      BY <1>3
    <3>2. \A k \in 1 .. (t + n) : s[k] \in Value
      BY <2>1
    <3> QED
      BY <3>1, <3>2
  <2>4. args \in [1 .. n -> Value] /\ \A k \in 1 .. n : args[k] = s[t + k]
    BY <2>2, <2>3
  <2>5. n \in Nat
    BY <1>3
  <2>6. args \in Seq(Value) /\ Len(args) = n /\ DOMAIN args = 1 .. n
    BY ONLY <2>4, <2>5
  <2> QED
    BY <2>4, <2>6
<1>11. \A k \in 1 .. n : Backed(h, g.heap, args[k], i)
  <2>1. \A k \in 1 .. n : t + k \in 1 .. (t + n)
    BY <1>3
  <2> QED
    BY <1>8, <1>10, <2>1
<1>12. PICK th : th = IF t = 0 THEN NoThis ELSE s[1]
  OBVIOUS
<1>13. th = NoThis \/ (th \in Value /\ Backed(h, g.heap, th, i))
  <2>1. CASE t = 0
    BY <2>1, <1>12
  <2>2. CASE t = 1
    <3>1. 1 \in 1 .. (t + n)
      BY <2>2, <1>3
    <3>2. Backed(h, g.heap, s[1], i)
      BY <1>8, <3>1
    <3>3. IsHeap(g.heap)
      BY <1>8 DEF Planted
    <3> QED
      BY <1>12, <2>2, <3>2, <3>3, BackedIsValue
  <2> QED
    BY <2>1, <2>2
<1>14. r = [value |-> [callee |-> f, this |-> th, ctor |-> c, args |-> args], heap |-> g.heap]
  BY <1>5, <1>7, <1>9, <1>12
<1>15. r.value \in Call
  BY <1>10, <1>13, <1>14 DEF Call
<1>16. CallValues(r.value) = Range(args) \cup ({th} \ {NoThis})
  BY <1>14 DEF CallValues
<1>17. \A v \in CallValues(r.value) : Backed(h, g.heap, v, i)
  BY <1>10, <1>11, <1>13, <1>16 DEF Range
<1>18. Sprouted(h, g.heap, Operands(r.value))
  <2>1. PICK o : o = Operands(r.value)
    OBVIOUS
  <2>2. /\ DOMAIN o = {0} \cup (1 .. n) /\ o[0] = th /\ \A k \in 1 .. n : o[k] = args[k]
    <3>1. r.value.this = th /\ r.value.args = args
      BY <1>14
    <3>2. 0 \notin 1 .. n
      BY <1>3
    <3> QED
      BY <1>10, <2>1, <3>1, <3>2 DEF Operands
  <2>3. DOMAIN o \subseteq Nat /\ DOMAIN s = 1 .. (t + n) /\ DOMAIN g.heap \subseteq Arrays
    BY <1>3, <1>8, <2>2 DEF Planted, IsHeap
  <2>4. ASSUME NEW k \in DOMAIN o, o[k] \in Arrays
        PROVE  k + t \in DOMAIN s /\ o[k] = s[k + t]
    <3>1. CASE k = 0
      <4>1. t = 1 /\ th = s[1]
        BY <1>12, <2>2, <2>4, <3>1, ReferencesAssumption DEF Value
      <4> QED
        BY <1>3, <2>2, <2>3, <3>1, <4>1
    <3>2. CASE k \in 1 .. n
      <4>1. k + t \in 1 .. (t + n) /\ t + k = k + t
        BY <1>3, <3>2
      <4> QED
        BY <1>10, <2>2, <2>3, <3>2, <4>1
    <3> QED
      BY <2>2, <3>1, <3>2
  <2>5. Sprouted(h, g.heap, o)
    BY <1>3, <1>8, <2>3, <2>4, SproutedShift
  <2> QED
    BY <2>1, <2>5
<1> QED
  BY <1>3, <1>8, <1>10, <1>14, <1>15, <1>17, <1>18

LEMMA InsertedIs ==
  ASSUME NEW cs, NEW h, Solid(cs, h), NEW g, Planted(h, g),
         NEW k \in 1 .. (Len(cs) + 1), Len(cs) < MaxCalls,
         NEW c \in Call, Len(c.args) <= MostArguments, \A v \in CallValues(c) : Backed(h, g, v, k),
         NEW ds, ds = InsertAt(cs, k, c)
  PROVE  /\ Solid(ds, g) /\ Len(ds) = Len(cs) + 1 /\ DOMAIN ds = 1 .. (Len(cs) + 1)
         /\ \A i \in 1 .. (Len(cs) + 1) : ds[i] = IF i < k THEN cs[i] ELSE IF i = k THEN c ELSE cs[i - 1]
         /\ \A i \in 1 .. (k - 1) : Uses(ds, g, i) = Uses(cs, h, i)
         /\ Uses(ds, g, k) \subseteq Earlier(k)
         /\ \A i \in (k + 1) .. (Len(cs) + 1) : Uses(ds, g, i) = Uses(cs, h, i - 1)
<1>1. cs \in Seq(Call)
  BY DEF Solid, TestCase
<1>2. PICK n \in Nat : n = Len(cs) /\ DOMAIN cs = 1 .. n
  BY ONLY <1>1
<1>3. /\ ds \in Seq(Call) /\ Len(ds) = n + 1 /\ DOMAIN ds = 1 .. (n + 1)
      /\ \A i \in 1 .. (n + 1) : ds[i] = IF i < k THEN cs[i] ELSE IF i = k THEN c ELSE cs[i - 1]
  <2>1. PICK S : S = Call
    OBVIOUS
  <2>2. cs \in Seq(S) /\ k \in 1 .. (Len(cs) + 1) /\ c \in S
    BY <1>1, <2>1
  <2>3. /\ InsertAt(cs, k, c) \in Seq(S)
        /\ Len(InsertAt(cs, k, c)) = Len(cs) + 1
        /\ DOMAIN InsertAt(cs, k, c) = 1 .. (Len(cs) + 1)
        /\ \A i \in 1 .. (Len(cs) + 1) :
             InsertAt(cs, k, c)[i] = IF i < k THEN cs[i] ELSE IF i = k THEN c ELSE cs[i - 1]
    BY ONLY <2>2, InsertAtIs
  <2> QED
    BY <1>2, <2>1, <2>3
<1>4. k \in Position /\ k \in Nat /\ n + 1 \in 1 .. MaxCalls
  BY <1>2, SizesAssumption DEF Position
<1>5. Whole(h) /\ Sized(h) /\ Grows(h, g) /\ IsHeap(g) /\ DOMAIN g \subseteq Arrays
  BY SolidIs DEF Solid, Planted, IsHeap
<1>6. Whole(g) /\ Sized(g)
  <2>1. Copied(h, g)
    BY PlantedIsCopied
  <2> QED
    BY <1>5, <2>1, CopiedWhole
<1>7. \A v \in CallValues(c) : Usable(g, v, k) /\ (v \in Arrays => v \in DOMAIN g)
  BY <1>4, <1>5, BackedIsUsable, UsableIsValue
<1>8. ASSUME NEW i \in DOMAIN cs
      PROVE  /\ CallValues(cs[i]) \cap Arrays \subseteq DOMAIN g /\ Len(cs[i].args) <= MostArguments
             /\ UsesOf(g, CallValues(cs[i])) = Uses(cs, h, i)
  <2>1. PICK V : V = CallValues(cs[i])
    OBVIOUS
  <2>2. V \cap Arrays \subseteq DOMAIN h
    BY <2>1, SolidIs
  <2>3. UsesOf(g, V) = UsesOf(h, V)
    BY <1>5, <2>2, GrownUses
  <2>4. Uses(cs, h, i) = UsesOf(h, V)
    BY <2>1, UsesOfCall
  <2> QED
    BY <1>5, <2>1, <2>2, <2>3, <2>4 DEF Grows, Solid
<1>9. \A i \in 1 .. (n + 1) : i < k \/ i = k \/ (i > k /\ i - 1 \in 1 .. n)
  BY <1>4
<1>10. \A i \in 1 .. (n + 1) : i < k => i \in 1 .. n
  BY <1>2, <1>4
<1>11. ASSUME NEW i \in 1 .. (n + 1)
       PROVE  CallValues(ds[i]) \cap Arrays \subseteq DOMAIN g /\ Len(ds[i].args) <= MostArguments
  <2>1. CASE i < k
    BY <1>2, <1>3, <1>8, <1>10, <2>1
  <2>2. CASE i = k
    BY <1>3, <1>7, <2>2
  <2>3. CASE i > k /\ i - 1 \in 1 .. n
    <3>1. ds[i] = cs[i - 1]
      BY <1>3, <1>4, <2>3
    <3> QED
      BY <1>2, <1>8, <2>3, <3>1
  <2> QED
    BY <1>9, <2>1, <2>2, <2>3
<1>12. Solid(ds, g)
  BY <1>3, <1>4, <1>5, <1>6, <1>11 DEF Solid, TestCase, Whole, IsHeap
<1>13. ASSUME NEW i \in 1 .. (k - 1)
       PROVE  Uses(ds, g, i) = Uses(cs, h, i)
  <2>1. i \in 1 .. n /\ i \in 1 .. (n + 1) /\ i < k
    BY <1>2, <1>4
  <2>2. ds[i] = cs[i]
    BY <1>3, <2>1
  <2> QED
    BY <1>2, <1>8, <2>1, <2>2, UsesOfCall
<1>14. Uses(ds, g, k) \subseteq Earlier(k)
  <2>1. ds[k] = c
    BY <1>2, <1>3, <1>4
  <2>2. UsesOf(g, CallValues(c)) \subseteq Earlier(k)
    BY <1>4, <1>5, <1>7, UsableUses
  <2> QED
    BY <2>1, <2>2, UsesOfCall
<1>15. ASSUME NEW i \in (k + 1) .. (n + 1)
       PROVE  Uses(ds, g, i) = Uses(cs, h, i - 1)
  <2>1. PICK j \in 1 .. n : j = i - 1 /\ i \in 1 .. (n + 1) /\ ~(i < k) /\ i # k
    BY <1>4
  <2>2. ds[i] = cs[j]
    BY <1>3, <2>1
  <2>3. UsesOf(g, CallValues(cs[j])) = Uses(cs, h, j)
    BY <1>2, <1>8
  <2> QED
    BY <2>1, <2>2, <2>3, UsesOfCall
<1> QED
  BY <1>2, <1>3, <1>12, <1>13, <1>14, <1>15

(* Writing over a heap adds no array. *)
(* The fixer makes no array contain itself. *)
LEMMA FixedLoopless ==
  ASSUME NEW h, NEW g, Beyond(h, g), DOMAIN h \subseteq DOMAIN g,
         \A a \in DOMAIN h : Range(g[a]) \cap DOMAIN h \subseteq Range(h[a]), Loopless(h)
  PROVE  Loopless(g)
<1>1. DOMAIN h \subseteq Arrays
  BY DEF Beyond
<1>2. \A a \in DOMAIN g \ DOMAIN h : Range(g[a]) \cap DOMAIN h = {}
  BY <1>1 DEF Beyond
<1>3. \A a \in DOMAIN g \ DOMAIN h :
        \E D \in SUBSET DOMAIN g :
          Closed(g, D) /\ Range(g[a]) \cap DOMAIN g \subseteq D /\ a \notin D
  BY DEF Beyond
<1> QED
  BY <1>2, <1>3, StillLoopless

LEMMA NothingBeyond ==
  ASSUME NEW h, IsHeap(h), NEW g, DOMAIN g = DOMAIN h, g = [a \in DOMAIN h |-> g[a]]
  PROVE  Beyond(h, g)
  BY DEF Beyond, IsHeap

(* No array has two places, but for arrays that nothing refers to (outside C). *)
Solely(cs, h) ==
  /\ DOMAIN h \subseteq Arrays
  /\ \E C \in SUBSET DOMAIN h :
       /\ Closed(h, C) /\ \E at : Placed(Store(cs, h), DOMAIN cs \cup C, at)
       /\ \A i \in DOMAIN cs : CallValues(cs[i]) \cap DOMAIN h \subseteq C

TreeOf(cs, h) ==
  \A a \in DOMAIN h : Cardinality({s \in FixedSlots(cs, h, 1) : Holds(cs, h, s) = a}) = 1

LEMMA StoreIs ==
  ASSUME NEW cs, NEW h, DOMAIN cs \cap DOMAIN h = {}
  PROVE  /\ DOMAIN Store(cs, h) = DOMAIN cs \cup DOMAIN h
         /\ \A i \in DOMAIN cs : Store(cs, h)[i] = Operands(cs[i])
         /\ \A a \in DOMAIN h : Store(cs, h)[a] = h[a]
  BY DEF Store

LEMMA OperandsAre ==
  ASSUME NEW c \in Call
  PROVE  /\ DOMAIN Operands(c) = {0} \cup DOMAIN c.args /\ 0 \notin DOMAIN c.args
         /\ Operands(c)[0] = c.this /\ \A k \in DOMAIN c.args : Operands(c)[k] = c.args[k]
         /\ Range(Operands(c)) \cap Arrays = CallValues(c) \cap Arrays
<1>1. c.args \in Seq(Value) /\ c.this \in Value \cup {NoThis}
  BY DEF Call
<1>2. 0 \notin DOMAIN c.args
  <2>1. DOMAIN c.args = 1 .. Len(c.args) /\ Len(c.args) \in Nat
    BY <1>1
  <2> QED
    BY <2>1
<1>3. /\ DOMAIN Operands(c) = {0} \cup DOMAIN c.args
      /\ Operands(c)[0] = c.this /\ \A k \in DOMAIN c.args : Operands(c)[k] = c.args[k]
  BY <1>2 DEF Operands
<1>4. Range(Operands(c)) = {c.this} \cup Range(c.args)
  BY <1>3 DEF Range
<1>5. NoThis \notin Arrays
  BY ReferencesAssumption DEF Value
<1> QED
  BY <1>2, <1>3, <1>4, <1>5 DEF CallValues

LEMMA OperandNumbers ==
  ASSUME NEW c \in Call
  PROVE  DOMAIN Operands(c) \subseteq Nat
<1>1. c.args \in Seq(Value) /\ DOMAIN Operands(c) = {0} \cup DOMAIN c.args
  BY OperandsAre DEF Call
<1>2. DOMAIN c.args = 1 .. Len(c.args) /\ Len(c.args) \in Nat
  BY <1>1
<1> QED
  BY <1>1, <1>2

(* A call and an array are not the same, so a slot is of one or the other. *)
LEMMA SlotHolds ==
  ASSUME NEW cs, NEW h, Solid(cs, h), NEW s \in FixedSlots(cs, h, 1)
  PROVE  \E x \in DOMAIN cs \cup Visited(cs, h, 1) : \E k \in DOMAIN Store(cs, h)[x] :
           s = <<x, k>> /\ Holds(cs, h, s) = Store(cs, h)[x][k]
<1>1. /\ Len(cs) \in Nat /\ DOMAIN cs = 1 .. Len(cs) /\ \A i \in DOMAIN cs : cs[i] \in Call
      /\ 1 \in 1 .. (Len(cs) + 1)
  BY SolidIs, SizesAssumption DEF Position
<1>2. DOMAIN cs \cap DOMAIN h = {}
  BY CallNoArray
<1>3. /\ \A i \in DOMAIN cs : Store(cs, h)[i] = Operands(cs[i])
      /\ \A a \in DOMAIN h : Store(cs, h)[a] = h[a]
  BY ONLY <1>2, StoreIs
<1>4. CASE \E i \in 1 .. Len(cs) : \E k \in DOMAIN cs[i].args : s = <<i, k>>
  <2>1. PICK i \in DOMAIN cs : \E k \in DOMAIN cs[i].args : s = <<i, k>>
    BY <1>1, <1>4
  <2>2. PICK k \in DOMAIN cs[i].args : s = <<i, k>>
    BY <2>1
  <2>3. Holds(cs, h, s) = cs[i].args[k]
    <3>1. Solid(cs, h) /\ 1 \in 1 .. (Len(cs) + 1) /\ i \in 1 .. Len(cs)
      BY <1>1
    <3>2. \A n \in DOMAIN cs[i].args :
              /\ <<i, n>> \in FixedSlots(cs, h, 1)
              /\ Holds(cs, h, <<i, n>>) = cs[i].args[n] /\ FixedFrom(cs, h, 1, <<i, n>>) = i
      BY ONLY <3>1, OperandSlots
    <3> QED
      BY <2>2, <3>2
  <2>4. k \in DOMAIN Operands(cs[i]) /\ Operands(cs[i])[k] = cs[i].args[k]
    BY <1>1, OperandsAre
  <2> QED
    BY <1>3, <2>2, <2>3, <2>4
<1>5. CASE \E i \in 1 .. Len(cs) : cs[i].this # NoThis /\ s = <<i, 0>>
  <2>1. PICK i \in DOMAIN cs : cs[i].this # NoThis /\ s = <<i, 0>>
    BY <1>1, <1>5
  <2>2. Holds(cs, h, s) = cs[i].this
    BY <1>1, <2>1, OperandSlots
  <2>3. 0 \in DOMAIN Operands(cs[i]) /\ Operands(cs[i])[0] = cs[i].this
    BY <1>1, OperandsAre
  <2> QED
    BY <1>3, <2>1, <2>2, <2>3
<1>6. CASE \E i \in 1 .. Len(cs) : \E a \in CallReach(cs, h, i) : \E k \in DOMAIN h[a] : s = <<a, k>>
  <2>1. PICK i \in 1 .. Len(cs) : \E a \in CallReach(cs, h, i) : \E k \in DOMAIN h[a] : s = <<a, k>>
    BY <1>6
  <2>2. PICK a \in CallReach(cs, h, i) : \E k \in DOMAIN h[a] : s = <<a, k>>
    BY <2>1
  <2>3. PICK k \in DOMAIN h[a] : s = <<a, k>>
    BY <2>2
  <2>4. Holds(cs, h, s) = h[a][k]
    BY <1>1, <2>3, ArraySlots
  <2>5. a \in Visited(cs, h, 1) /\ a \in DOMAIN h
    BY VisitedIs
  <2> QED
    BY <1>3, <2>3, <2>4, <2>5
<1> QED
  BY <1>4, <1>5, <1>6, SlotForms

(* ... and what an operand or an element of a visited array holds is held by a slot. *)
LEMMA HeldBySlot ==
  ASSUME NEW cs, NEW h, Solid(cs, h), NEW x \in DOMAIN cs \cup Visited(cs, h, 1),
         NEW k \in DOMAIN Store(cs, h)[x], Store(cs, h)[x][k] \in Arrays
  PROVE  <<x, k>> \in FixedSlots(cs, h, 1) /\ Holds(cs, h, <<x, k>>) = Store(cs, h)[x][k]
<1>1. /\ Len(cs) \in Nat /\ DOMAIN cs = 1 .. Len(cs) /\ \A i \in DOMAIN cs : cs[i] \in Call
      /\ 1 \in 1 .. (Len(cs) + 1)
  BY SolidIs, SizesAssumption DEF Position
<1>2. DOMAIN cs \cap DOMAIN h = {}
  BY CallNoArray
<1>3. /\ \A i \in DOMAIN cs : Store(cs, h)[i] = Operands(cs[i])
      /\ \A a \in DOMAIN h : Store(cs, h)[a] = h[a]
  BY <1>2 DEF Store
<1>4. CASE x \in DOMAIN cs
  <2>1. k \in {0} \cup DOMAIN cs[x].args
    BY <1>1, <1>3, <1>4, OperandsAre
  <2>2. CASE k \in DOMAIN cs[x].args
    <3>1. Store(cs, h)[x][k] = cs[x].args[k]
      BY <1>1, <1>3, <1>4, <2>2, OperandsAre
    <3> QED
      <4>1. Solid(cs, h) /\ 1 \in 1 .. (Len(cs) + 1) /\ x \in 1 .. Len(cs)
        BY <1>1, <1>4
      <4>2. \A n \in DOMAIN cs[x].args :
                /\ <<x, n>> \in FixedSlots(cs, h, 1)
                /\ Holds(cs, h, <<x, n>>) = cs[x].args[n] /\ FixedFrom(cs, h, 1, <<x, n>>) = x
        BY ONLY <4>1, OperandSlots
      <4> QED
        BY <2>2, <3>1, <4>2
  <2>3. CASE k = 0
    <3>1. Store(cs, h)[x][k] = cs[x].this
      BY <1>1, <1>3, <1>4, <2>3, OperandsAre
    <3>2. cs[x].this # NoThis
      BY <3>1, ReferencesAssumption DEF Value
    <3> QED
      BY <1>1, <1>4, <2>3, <3>1, <3>2, OperandSlots
  <2> QED
    BY <2>1, <2>2, <2>3
<1>5. CASE x \in Visited(cs, h, 1)
  <2>1. PICK i \in 1 .. Len(cs) : x \in CallReach(cs, h, i)
    BY <1>5, VisitedIs
  <2>2. x \in DOMAIN h
    BY <1>5, VisitedIs
  <2>3. k \in DOMAIN h[x] /\ Store(cs, h)[x][k] = h[x][k]
    BY <1>3, <2>2
  <2> QED
    BY <1>1, <2>1, <2>3, ArraySlots
<1> QED
  BY <1>4, <1>5

(* A fixer that writes an array leaves the one that was there. *)
LEMMA SlotKept ==
  ASSUME NEW cs, NEW h, NEW start, NEW hole, NEW f, NEW val, NEW ds, NEW g,
         Fixing(cs, h, start, hole, f, val, ds, g),
         NEW s \in FixedSlots(cs, h, start), val[s] \in Arrays, Holds(cs, h, s) # hole
  PROVE  val[s] = Holds(cs, h, s)
<1>1. /\ Solid(cs, h) /\ start \in 1 .. (Len(cs) + 1) /\ start \in Nat /\ Len(cs) \in Nat
      /\ Reassigned(cs, h, start, hole, f, val, g) /\ Renames(cs, h, start, hole, f)
  BY FixingIs
<1>2. PICK v \in Value : v = Holds(cs, h, s)
  BY <1>1, HoldsIsValue
<1>3. val[s] = f[v] /\ v # hole
  BY <1>1, <1>2 DEF Reassigned
<1>4. ASSUME NEW i \in start .. Len(cs), v \in Position => v \in Uses(cs, h, i)
      PROVE  val[s] = Holds(cs, h, s)
  <2>1. f[v] \in Arrays => f[v] = v
    BY ONLY <1>1, <1>3, <1>4, i \in start .. Len(cs), v \in Value, RenamedIsValue
  <2> QED
    BY <1>2, <1>3, <2>1
<1>5. CASE \E i \in start .. Len(cs) : \E k \in DOMAIN cs[i].args : s = <<i, k>>
  <2>1. PICK i \in start .. Len(cs) : \E k \in DOMAIN cs[i].args : s = <<i, k>>
    BY <1>5
  <2>2. PICK k \in DOMAIN cs[i].args : s = <<i, k>>
    BY <2>1
  <2>3. v = cs[i].args[k]
    <3>1. Solid(cs, h) /\ start \in 1 .. (Len(cs) + 1) /\ i \in start .. Len(cs)
      BY <1>1
    <3>2. \A n \in DOMAIN cs[i].args :
              /\ <<i, n>> \in FixedSlots(cs, h, start)
              /\ Holds(cs, h, <<i, n>>) = cs[i].args[n] /\ FixedFrom(cs, h, start, <<i, n>>) = i
      BY ONLY <3>1, OperandSlots
    <3> QED
      BY <1>2, <2>2, <3>2
  <2>4. v \in CallValues(cs[i])
    BY <2>3 DEF CallValues, Range
  <2> QED
    BY <1>4, <2>4 DEF Uses
<1>6. CASE \E i \in start .. Len(cs) : cs[i].this # NoThis /\ s = <<i, 0>>
  <2>1. PICK i \in start .. Len(cs) : cs[i].this # NoThis /\ s = <<i, 0>>
    BY <1>6
  <2>2. v = cs[i].this
    BY <1>1, <1>2, <2>1, OperandSlots
  <2>3. v \in CallValues(cs[i])
    BY <2>1, <2>2 DEF CallValues
  <2> QED
    BY <1>4, <2>3 DEF Uses
<1>7. CASE \E i \in start .. Len(cs) : \E a \in CallReach(cs, h, i) : \E k \in DOMAIN h[a] : s = <<a, k>>
  <2>1. PICK i \in start .. Len(cs) : \E a \in CallReach(cs, h, i) : \E k \in DOMAIN h[a] : s = <<a, k>>
    BY <1>7
  <2>2. PICK a \in CallReach(cs, h, i) : \E k \in DOMAIN h[a] : s = <<a, k>>
    BY <2>1
  <2>3. PICK k \in DOMAIN h[a] : s = <<a, k>>
    BY <2>2
  <2>4. v = h[a][k]
    BY <1>1, <1>2, <2>3, ArraySlots
  <2>5. v \in Range(h[a])
    BY <2>4 DEF Range
  <2> QED
    BY <1>4, <2>5 DEF Uses
<1> QED
  BY <1>1, <1>5, <1>6, <1>7, SlotForms

(* What a fixer leaves in a place: the array that was there, or one it generated. *)
LEMMA FixedPlace ==
  ASSUME NEW cs, NEW h, NEW start, NEW hole, NEW f, NEW val, NEW ds, NEW g,
         Fixing(cs, h, start, hole, f, val, ds, g),
         NEW x \in DOMAIN cs \cup DOMAIN h, NEW k \in DOMAIN Store(ds, g)[x], Store(ds, g)[x][k] \in Arrays
  PROVE  \/ k \in DOMAIN Store(cs, h)[x] /\ Store(ds, g)[x][k] = Store(cs, h)[x][k]
         \/ /\ <<x, k>> \in FixedSlots(cs, h, start) /\ Holds(cs, h, <<x, k>>) = hole
            /\ Store(ds, g)[x][k] = val[<<x, k>>]
<1>1. /\ Solid(cs, h) /\ start \in 1 .. (Len(cs) + 1) /\ start \in Nat /\ Len(cs) \in Nat
      /\ DOMAIN cs = 1 .. Len(cs) /\ Rewired(cs, h, start, val, ds, g)
      /\ DOMAIN ds = DOMAIN cs /\ Solid(ds, g) /\ DOMAIN h \subseteq DOMAIN g
  BY FixingIs, FixedIsSolid
<1>2. \A i \in DOMAIN cs : cs[i] \in Call /\ ds[i] \in Call
  BY <1>1, SolidIs
<1>3. DOMAIN cs \cap DOMAIN h = {} /\ DOMAIN ds \cap DOMAIN g = {}
  BY <1>1, CallNoArray
<1>4. /\ \A i \in DOMAIN cs : Store(cs, h)[i] = Operands(cs[i]) /\ Store(ds, g)[i] = Operands(ds[i])
      /\ \A a \in DOMAIN h : Store(cs, h)[a] = h[a] /\ Store(ds, g)[a] = g[a]
  BY <1>1, <1>3 DEF Store
<1>5. ASSUME <<x, k>> \in FixedSlots(cs, h, start), k \in DOMAIN Store(cs, h)[x],
             Holds(cs, h, <<x, k>>) = Store(cs, h)[x][k], Store(ds, g)[x][k] = val[<<x, k>>],
             Holds(cs, h, <<x, k>>) # hole
      PROVE  Store(ds, g)[x][k] = Store(cs, h)[x][k]
  BY <1>5, SlotKept
<1>6. CASE x \in DOMAIN cs /\ x < start
  <2>1. x \in 1 .. (start - 1)
    BY <1>1, <1>6
  <2>2. ds[x] = cs[x]
    BY <1>1, <2>1 DEF Rewired
  <2> QED
    BY <1>4, <1>6, <2>2
<1>7. CASE x \in DOMAIN cs /\ ~(x < start)
  <2>1. x \in start .. Len(cs)
    BY <1>1, <1>7
  <2>2. /\ ds[x].this = IF cs[x].this = NoThis THEN NoThis ELSE val[<<x, 0>>]
        /\ DOMAIN ds[x].args = DOMAIN cs[x].args /\ \A n \in DOMAIN cs[x].args : ds[x].args[n] = val[<<x, n>>]
    BY <1>1, <2>1 DEF Rewired
  <2>3. /\ DOMAIN Operands(ds[x]) = {0} \cup DOMAIN cs[x].args /\ DOMAIN Operands(cs[x]) = {0} \cup DOMAIN cs[x].args
        /\ Operands(ds[x])[0] = ds[x].this /\ Operands(cs[x])[0] = cs[x].this
        /\ \A n \in DOMAIN cs[x].args : Operands(ds[x])[n] = ds[x].args[n] /\ Operands(cs[x])[n] = cs[x].args[n]
    BY <1>2, <1>7, <2>2, OperandsAre
  <2>4. CASE k = 0
    <3>1. cs[x].this # NoThis
      BY <1>4, <1>7, <2>2, <2>3, <2>4, ReferencesAssumption DEF Value
    <3>2. <<x, 0>> \in FixedSlots(cs, h, start) /\ Holds(cs, h, <<x, 0>>) = cs[x].this
      BY <1>1, <2>1, <3>1, OperandSlots
    <3> QED
      BY <1>4, <1>5, <1>7, <2>2, <2>3, <2>4, <3>1, <3>2
  <2>5. CASE k \in DOMAIN cs[x].args
    <3>1. <<x, k>> \in FixedSlots(cs, h, start) /\ Holds(cs, h, <<x, k>>) = cs[x].args[k]
      <4>1. Solid(cs, h) /\ start \in 1 .. (Len(cs) + 1) /\ x \in start .. Len(cs)
        BY <1>1, <2>1
      <4>2. \A n \in DOMAIN cs[x].args :
                /\ <<x, n>> \in FixedSlots(cs, h, start)
                /\ Holds(cs, h, <<x, n>>) = cs[x].args[n] /\ FixedFrom(cs, h, start, <<x, n>>) = x
        BY ONLY <4>1, OperandSlots
      <4> QED
        BY <2>5, <4>2
    <3> QED
      BY <1>4, <1>5, <1>7, <2>2, <2>3, <2>5, <3>1
  <2> QED
    BY <1>4, <1>7, <2>3, <2>4, <2>5
<1>8. CASE x \in DOMAIN h \ Visited(cs, h, start)
  <2>1. g[x] = h[x]
    BY <1>1, <1>8 DEF Rewired
  <2> QED
    BY <1>4, <1>8, <2>1
<1>9. CASE x \in Visited(cs, h, start)
  <2>1. x \in DOMAIN h /\ \E i \in start .. Len(cs) : x \in CallReach(cs, h, i)
    BY <1>9, VisitedIs
  <2>2. DOMAIN g[x] = DOMAIN h[x] /\ \A n \in DOMAIN h[x] : g[x][n] = val[<<x, n>>]
    BY <1>1, <1>9 DEF Rewired
  <2>3. k \in DOMAIN h[x]
    BY <1>4, <2>1, <2>2
  <2>4. <<x, k>> \in FixedSlots(cs, h, start) /\ Holds(cs, h, <<x, k>>) = h[x][k]
    <3>1. PICK i \in start .. Len(cs) : x \in CallReach(cs, h, i)
      BY <2>1
    <3> QED
      BY <1>1, <2>3, <3>1, ArraySlots
  <2> QED
    BY <1>4, <1>5, <2>1, <2>2, <2>3, <2>4
<1> QED
  BY <1>6, <1>7, <1>8, <1>9

(* ... so every array has one place still, when each generated tree is put in a
   place of its own. *)
LEMMA FixKeepsPlaces ==
  ASSUME NEW cs, NEW h, NEW start, NEW hole, NEW f, NEW val, NEW ds, NEW g,
         Fixing(cs, h, start, hole, f, val, ds, g),
         NEW s, Sprouted(h, g, s), NEW pos,
         \A t \in FixedSlots(cs, h, start) :
           Holds(cs, h, t) = hole /\ val[t] \in Arrays => \E j \in DOMAIN s : pos[j] = t /\ val[t] = s[j],
         OnePlace(cs, h)
  PROVE  OnePlace(ds, g)
<1>1. /\ Solid(cs, h) /\ Whole(h) /\ Solid(ds, g) /\ DOMAIN ds = DOMAIN cs /\ DOMAIN h \subseteq DOMAIN g
      /\ DOMAIN g \subseteq Arrays /\ \A i \in DOMAIN cs : cs[i] \in Call
      /\ \A i \in DOMAIN cs : CallValues(cs[i]) \cap Arrays \subseteq DOMAIN h
      /\ \A a \in DOMAIN h : Range(h[a]) \cap Arrays \subseteq DOMAIN h
  BY FixingIs, FixedIsSolid, SolidIs
<1>2. PICK old : Placed(Store(cs, h), DOMAIN cs \cup DOMAIN h, old)
  BY DEF OnePlace
<1>3. PICK new : /\ Placed(g, DOMAIN g \ DOMAIN h, new)
                 /\ \A n \in DOMAIN s :
                      s[n] \in Arrays => s[n] \in DOMAIN g \ DOMAIN h /\ new[s[n]] = <<NoThis, n>>
  BY DEF Sprouted
<1>4. \A a \in DOMAIN g \ DOMAIN h : Range(g[a]) \cap Arrays \subseteq DOMAIN g \ DOMAIN h
  BY DEF Sprouted
<1>5. PICK at : at = [a \in Arrays |-> IF a \in DOMAIN h THEN old[a]
                                       ELSE IF new[a][1] = NoThis THEN pos[new[a][2]] ELSE new[a]]
  OBVIOUS
<1>6. DOMAIN cs \cap DOMAIN h = {} /\ DOMAIN cs \cap DOMAIN g = {}
  BY <1>1, CallNoArray
<1>7. /\ \A i \in DOMAIN cs : Store(cs, h)[i] = Operands(cs[i])
      /\ \A a \in DOMAIN h : Store(cs, h)[a] = h[a]
      /\ \A a \in DOMAIN g : Store(ds, g)[a] = g[a]
  BY <1>1, <1>6 DEF Store
<1>8. ASSUME NEW x \in DOMAIN cs \cup DOMAIN h, NEW k \in DOMAIN Store(cs, h)[x], Store(cs, h)[x][k] \in Arrays
      PROVE  Store(cs, h)[x][k] \in DOMAIN h
  <2>1. CASE x \in DOMAIN h
    <3>1. Store(cs, h)[x][k] \in Range(h[x])
      BY <1>7, <2>1 DEF Range
    <3> QED
      BY <1>1, <1>8, <2>1, <3>1
  <2>2. CASE x \in DOMAIN cs
    <3>1. Store(cs, h)[x][k] \in Range(Operands(cs[x]))
      BY <1>7, <2>2 DEF Range
    <3>2. Store(cs, h)[x][k] \in CallValues(cs[x])
      BY <1>1, <1>8, <2>2, <3>1, OperandsAre
    <3> QED
      BY <1>1, <1>8, <2>2, <3>2
  <2> QED
    BY <2>1, <2>2
<1>9. ASSUME NEW x \in DOMAIN cs \cup DOMAIN h, NEW k \in DOMAIN Store(ds, g)[x], Store(ds, g)[x][k] \in Arrays
      PROVE  at[Store(ds, g)[x][k]] = <<x, k>>
  <2>1. PICK u \in Arrays : u = Store(ds, g)[x][k]
    BY <1>9
  <2>2. CASE k \in DOMAIN Store(cs, h)[x] /\ u = Store(cs, h)[x][k]
    <3>1. u \in DOMAIN h /\ old[u] = <<x, k>>
      BY <1>2, <1>8, <2>2 DEF Placed
    <3> QED
      BY <1>5, <2>1, <3>1
  <2>3. CASE /\ <<x, k>> \in FixedSlots(cs, h, start) /\ Holds(cs, h, <<x, k>>) = hole
             /\ u = val[<<x, k>>]
    <3>1. PICK j \in DOMAIN s : pos[j] = <<x, k>> /\ u = s[j]
      BY <2>3
    <3>2. u \notin DOMAIN h /\ new[u] = <<NoThis, j>>
      BY <1>3, <3>1
    <3> QED
      BY <1>5, <2>1, <3>1, <3>2
  <2>4. \/ k \in DOMAIN Store(cs, h)[x] /\ u = Store(cs, h)[x][k]
        \/ /\ <<x, k>> \in FixedSlots(cs, h, start) /\ Holds(cs, h, <<x, k>>) = hole
           /\ u = val[<<x, k>>]
    <3>1. Store(ds, g)[x][k] \in Arrays
      BY <1>9
    <3> QED
      BY <2>1, <3>1, FixedPlace
  <2> QED
    BY <2>2, <2>3, <2>4
<1>10. ASSUME NEW x \in DOMAIN g \ DOMAIN h, NEW k \in DOMAIN g[x], g[x][k] \in Arrays
       PROVE  at[g[x][k]] = <<x, k>>
  <2>1. new[g[x][k]] = <<x, k>>
    BY <1>3, <1>10 DEF Placed
  <2>2. g[x][k] \in DOMAIN g \ DOMAIN h
    <3>1. g[x][k] \in Range(g[x])
      BY DEF Range
    <3> QED
      BY <1>4, <1>10, <3>1
  <2>3. x # NoThis
    BY <1>1, ReferencesAssumption DEF Value
  <2> QED
    BY <1>5, <1>10, <2>1, <2>2, <2>3
<1>11. Placed(Store(ds, g), DOMAIN ds \cup DOMAIN g, at)
  <2> SUFFICES ASSUME NEW x \in DOMAIN cs \cup DOMAIN g, NEW k \in DOMAIN Store(ds, g)[x],
                      Store(ds, g)[x][k] \in Arrays
               PROVE  at[Store(ds, g)[x][k]] = <<x, k>>
    BY <1>1 DEF Placed
  <2>1. CASE x \in DOMAIN cs \cup DOMAIN h
    BY <1>9, <2>1
  <2>2. CASE x \in DOMAIN g \ DOMAIN h
    BY <1>7, <1>10, <2>2
  <2> QED
    BY <2>1, <2>2
<1> QED
  BY <1>11 DEF OnePlace

(* The arrays among the operands of the calls ds come from cs or from s; to and
   pos say where those of cs and of s went. *)
Relocated(cs, ds, to, s, pos) ==
  \A j \in DOMAIN ds : \A l \in DOMAIN Operands(ds[j]) : Operands(ds[j])[l] \in Arrays =>
    \/ \E i \in DOMAIN cs : \E k \in DOMAIN Operands(cs[i]) :
         Operands(cs[i])[k] = Operands(ds[j])[l] /\ to[<<i, k>>] = <<j, l>>
    \/ \E n \in DOMAIN s : s[n] = Operands(ds[j])[l] /\ pos[n] = <<j, l>>

(* Those of cs only. *)
Moves(cs, ds, to) ==
  \A j \in DOMAIN ds : \A l \in DOMAIN Operands(ds[j]) : Operands(ds[j])[l] \in Arrays =>
    \E i \in DOMAIN cs : \E k \in DOMAIN Operands(cs[i]) :
      Operands(cs[i])[k] = Operands(ds[j])[l] /\ to[<<i, k>>] = <<j, l>>

(* Calls move, operands are dropped and generated ones come in: an array goes to
   a place of its own. *)
LEMMA CallsKeepPlaces ==
  ASSUME NEW cs, NEW h, Solid(cs, h), NEW ds, DOMAIN ds \subseteq Position,
         NEW g, Grows(h, g), IsHeap(g), NEW s, Sprouted(h, g, s), NEW to, NEW pos,
         Relocated(cs, ds, to, s, pos),
         OnePlace(cs, h)
  PROVE  OnePlace(ds, g)
<1>1. /\ Whole(h) /\ DOMAIN h \subseteq DOMAIN g /\ DOMAIN g \subseteq Arrays
      /\ \A i \in DOMAIN cs : cs[i] \in Call /\ CallValues(cs[i]) \cap Arrays \subseteq DOMAIN h
      /\ \A a \in DOMAIN h : g[a] = h[a]
  BY SolidIs DEF Grows, IsHeap
<1>2. PICK old : Placed(Store(cs, h), DOMAIN cs \cup DOMAIN h, old)
  BY DEF OnePlace
<1>3. PICK new : /\ Placed(g, DOMAIN g \ DOMAIN h, new)
                 /\ \A n \in DOMAIN s :
                      s[n] \in Arrays => s[n] \in DOMAIN g \ DOMAIN h /\ new[s[n]] = <<NoThis, n>>
  BY DEF Sprouted
<1>4. PICK at : at = [a \in Arrays |->
                        IF a \in DOMAIN h THEN IF old[a][1] \in DOMAIN cs THEN to[old[a]] ELSE old[a]
                        ELSE IF new[a][1] = NoThis THEN pos[new[a][2]] ELSE new[a]]
  OBVIOUS
<1>5. DOMAIN cs \cap DOMAIN h = {} /\ DOMAIN ds \cap DOMAIN g = {}
  BY <1>1, CallNoArray, ReferencesAssumption
<1>6. /\ \A i \in DOMAIN cs : Store(cs, h)[i] = Operands(cs[i])
      /\ \A a \in DOMAIN h : Store(cs, h)[a] = h[a]
      /\ \A i \in DOMAIN ds : Store(ds, g)[i] = Operands(ds[i])
      /\ \A a \in DOMAIN g : Store(ds, g)[a] = g[a]
  BY <1>5 DEF Store
<1>7. ASSUME NEW j \in DOMAIN ds, NEW l \in DOMAIN Operands(ds[j]), Operands(ds[j])[l] \in Arrays
      PROVE  at[Operands(ds[j])[l]] = <<j, l>>
  <2>1. PICK u \in Arrays : u = Operands(ds[j])[l]
    BY <1>7
  <2>2. CASE \E i \in DOMAIN cs : \E k \in DOMAIN Operands(cs[i]) :
               Operands(cs[i])[k] = u /\ to[<<i, k>>] = <<j, l>>
    <3>1. PICK i \in DOMAIN cs : \E k \in DOMAIN Operands(cs[i]) :
                 Operands(cs[i])[k] = u /\ to[<<i, k>>] = <<j, l>>
      BY <2>2
    <3>2. PICK k \in DOMAIN Operands(cs[i]) : Operands(cs[i])[k] = u /\ to[<<i, k>>] = <<j, l>>
      BY <3>1
    <3>3. old[u] = <<i, k>>
      BY <1>2, <1>6, <3>2 DEF Placed
    <3>4. u \in DOMAIN h
      <4>1. u \in Range(Operands(cs[i]))
        BY <3>2 DEF Range
      <4>2. u \in CallValues(cs[i])
        BY <1>1, <4>1, OperandsAre
      <4> QED
        BY <1>1, <4>2
    <3> QED
      BY <1>4, <2>1, <3>2, <3>3, <3>4
  <2>3. CASE \E n \in DOMAIN s : s[n] = u /\ pos[n] = <<j, l>>
    <3>1. PICK n \in DOMAIN s : s[n] = u /\ pos[n] = <<j, l>>
      BY <2>3
    <3>2. u \notin DOMAIN h /\ new[u] = <<NoThis, n>>
      BY <1>3, <3>1
    <3> QED
      BY <1>4, <2>1, <3>1, <3>2
  <2> QED
    BY <1>7, <2>1, <2>2, <2>3 DEF Relocated
<1>8. ASSUME NEW x \in DOMAIN h, NEW k \in DOMAIN h[x], h[x][k] \in Arrays
      PROVE  at[h[x][k]] = <<x, k>>
  <2>1. old[h[x][k]] = <<x, k>>
    BY <1>2, <1>6, <1>8 DEF Placed
  <2>2. h[x][k] \in DOMAIN h
    <3>1. h[x][k] \in Range(h[x])
      BY DEF Range
    <3> QED
      BY <1>1, <1>8, <3>1 DEF Whole
  <2> QED
    BY <1>4, <1>5, <1>8, <2>1, <2>2
<1>9. ASSUME NEW x \in DOMAIN g \ DOMAIN h, NEW k \in DOMAIN g[x], g[x][k] \in Arrays
      PROVE  at[g[x][k]] = <<x, k>>
  <2>1. new[g[x][k]] = <<x, k>>
    BY <1>3, <1>9 DEF Placed
  <2>2. g[x][k] \in DOMAIN g \ DOMAIN h
    <3>1. g[x][k] \in Range(g[x])
      BY DEF Range
    <3> QED
      BY <1>9, <3>1 DEF Sprouted
  <2>3. x # NoThis
    BY <1>1, ReferencesAssumption DEF Value
  <2> QED
    BY <1>4, <1>9, <2>1, <2>2, <2>3
<1>10. Placed(Store(ds, g), DOMAIN ds \cup DOMAIN g, at)
  <2> SUFFICES ASSUME NEW x \in DOMAIN ds \cup DOMAIN g, NEW k \in DOMAIN Store(ds, g)[x],
                      Store(ds, g)[x][k] \in Arrays
               PROVE  at[Store(ds, g)[x][k]] = <<x, k>>
    BY DEF Placed
  <2>1. CASE x \in DOMAIN ds
    BY <1>6, <1>7, <2>1
  <2>2. CASE x \in DOMAIN h
    BY <1>1, <1>6, <1>8, <2>2
  <2>3. CASE x \in DOMAIN g \ DOMAIN h
    BY <1>6, <1>9, <2>3
  <2> QED
    BY <2>1, <2>2, <2>3
<1> QED
  BY <1>10 DEF OnePlace

(* A call whose arrays are all new is inserted. *)
WithCall(cs, k, c, ds) ==
  /\ DOMAIN ds = 1 .. (Len(cs) + 1)
  /\ \A i \in 1 .. (Len(cs) + 1) : ds[i] = IF i < k THEN cs[i] ELSE IF i = k THEN c ELSE cs[i - 1]

LEMMA InsertedPlaces ==
  ASSUME NEW cs, NEW h, Solid(cs, h), NEW g, Grows(h, g), IsHeap(g), NEW k \in 1 .. (Len(cs) + 1),
         NEW c, Sprouted(h, g, Operands(c)), NEW ds, WithCall(cs, k, c, ds), DOMAIN ds \subseteq Position,
         OnePlace(cs, h)
  PROVE  OnePlace(ds, g)
<1>0. /\ DOMAIN ds = 1 .. (Len(cs) + 1)
      /\ \A i \in 1 .. (Len(cs) + 1) : ds[i] = IF i < k THEN cs[i] ELSE IF i = k THEN c ELSE cs[i - 1]
  BY DEF WithCall
<1>1. PICK l \in Nat : l = Len(cs) /\ DOMAIN cs = 1 .. l /\ k \in 1 .. (l + 1)
  BY SolidIs, SizesAssumption DEF Position
<1>2. \A i \in 1 .. l : cs[i] \in Call
  BY <1>1, SolidIs
<1>3. PICK s : s = Operands(c)
  OBVIOUS
<1>4. PICK pos : pos = [n \in DOMAIN s |-> <<k, n>>]
  OBVIOUS
<1>5. PICK to : to = [t \in (1 .. l) \X Nat |-> IF t[1] < k THEN t ELSE <<t[1] + 1, t[2]>>]
  OBVIOUS
<1>6. \A i \in 1 .. l : \A n \in Nat : to[<<i, n>>] = IF i < k THEN <<i, n>> ELSE <<i + 1, n>>
  BY <1>5
<1>7. \A i \in 1 .. l : DOMAIN Operands(cs[i]) \subseteq Nat
  BY <1>2, OperandNumbers
<1>8. ASSUME NEW j \in DOMAIN ds, NEW n \in DOMAIN Operands(ds[j])
      PROVE  \/ \E i \in DOMAIN cs : \E m \in DOMAIN Operands(cs[i]) :
                  Operands(cs[i])[m] = Operands(ds[j])[n] /\ to[<<i, m>>] = <<j, n>>
             \/ \E m \in DOMAIN s : s[m] = Operands(ds[j])[n] /\ pos[m] = <<j, n>>
  <2>1. CASE j < k
    <3>1. j \in 1 .. l /\ ds[j] = cs[j]
      BY <1>0, <1>1, <2>1
    <3>2. to[<<j, n>>] = <<j, n>>
      BY <1>6, <1>7, <2>1, <3>1
    <3> QED
      BY <1>1, <3>1, <3>2
  <2>2. CASE j = k
    <3>1. ds[j] = c
      BY <1>0, <1>1, <2>2
    <3> QED
      BY <1>3, <1>4, <2>2, <3>1
  <2>3. CASE j > k
    <3>1. PICK i \in 1 .. l : i = j - 1
      BY <1>0, <1>1, <2>3
    <3>2. ds[j] = cs[i] /\ ~(i < k) /\ i + 1 = j
      BY <1>0, <1>1, <2>3, <3>1
    <3>3. to[<<i, n>>] = <<j, n>>
      BY <1>6, <1>7, <3>2
    <3> QED
      BY <1>1, <3>2, <3>3
  <2>4. j \in 1 .. (l + 1)
    BY <1>0, <1>1
  <2>5. j < k \/ j = k \/ j > k
    BY <1>1, <2>4
  <2> QED
    BY <2>1, <2>2, <2>3, <2>5
<1>9. Relocated(cs, ds, to, s, pos)
  BY <1>8 DEF Relocated
<1>10. /\ Solid(cs, h) /\ DOMAIN ds \subseteq Position /\ Grows(h, g) /\ IsHeap(g) /\ Sprouted(h, g, s)
       /\ OnePlace(cs, h)
  BY <1>3
<1> QED
  BY ONLY <1>9, <1>10, CallsKeepPlaces

(* Nothing is generated, and the operands are moved, or dropped. *)
LEMMA NothingSprouts ==
  ASSUME NEW h
  PROVE  Sprouted(h, h, <<Scalar>>)
<1>1. PICK s : s = <<Scalar>>
  OBVIOUS
<1>2. \A n \in DOMAIN s : s[n] \notin Arrays
  BY <1>1, ReferencesAssumption
<1> QED
  BY <1>1, <1>2 DEF Sprouted, Placed

LEMMA MovedPlaces ==
  ASSUME NEW cs, NEW h, Solid(cs, h), NEW ds, DOMAIN ds \subseteq Position, NEW to, Moves(cs, ds, to),
         OnePlace(cs, h)
  PROVE  OnePlace(ds, h)
<1>1. PICK s : s = <<Scalar>>
  OBVIOUS
<1>2. Sprouted(h, h, s)
  BY <1>1, NothingSprouts
<1>3. IsHeap(h) /\ Grows(h, h)
  BY SolidIs DEF Whole, Grows
<1>4. Relocated(cs, ds, to, s, s)
  BY DEF Moves, Relocated
<1>5. Solid(cs, h) /\ DOMAIN ds \subseteq Position /\ OnePlace(cs, h)
  OBVIOUS
<1> QED
  BY ONLY <1>2, <1>3, <1>4, <1>5, CallsKeepPlaces

(* The references of the calls after k make room for call k. *)
MadeRoom(cs, h, k, ds, g) ==
  /\ Solid(ds, g) /\ Len(ds) = Len(cs) /\ DOMAIN ds = DOMAIN cs
  /\ \A i \in DOMAIN cs : ds[i].callee = cs[i].callee
  /\ \A i \in 1 .. k : Uses(ds, g, i) = Uses(cs, h, i)
  /\ \A i \in (k + 1) .. Len(cs) : Uses(ds, g, i) = {Refs!ShiftUp(k, j) : j \in Uses(cs, h, i)}
  /\ Beyond(h, g) /\ DOMAIN g = DOMAIN h
  /\ \A a \in DOMAIN h : Range(g[a]) \cap DOMAIN h \subseteq Range(h[a])
  /\ OnePlace(cs, h) => OnePlace(ds, g)

LEMMA FixAddedIs ==
  ASSUME NEW cs, NEW h, Solid(cs, h), NEW k \in 1 .. Len(cs),
         \A i \in 1 .. k : Uses(cs, h, i) \subseteq Earlier(i),
         \A i \in (k + 1) .. Len(cs) : Uses(cs, h, i) \subseteq Earlier(i - 1),
         NEW r, r = FixAdded(cs, h, k)
  PROVE  MadeRoom(cs, h, k, r.calls, r.heap)
<1>1. PICK start \in 1 .. (Len(cs) + 1) : start = k + 1
  BY SolidIs, SizesAssumption DEF Position
<1>2. Len(cs) \in 1 .. MaxCalls /\ Whole(h) /\ \A i \in DOMAIN cs : cs[i] \in Call
  BY SolidIs DEF Position
<1>3. PICK val : val = [s \in FixedSlots(cs, h, start) |-> ShiftUp(k, Holds(cs, h, s))]
  OBVIOUS
<1>4. PICK f : f = [v \in Value |-> ShiftUp(k, v)]
  OBVIOUS
<1>5. PICK ds : ds = r.calls
  OBVIOUS
<1>6. PICK g : g = r.heap
  OBVIOUS
<1>7. Written(cs, h, val, ds, g)
  <2>1. r = Write(cs, h, val)
    BY <1>1, <1>3 DEF FixAdded
  <2> QED
    BY <1>2, <1>5, <1>6, <2>1, WriteIs
<1>8. Rewired(cs, h, start, val, ds, g)
  <2>1. DOMAIN val = FixedSlots(cs, h, start)
    BY <1>3
  <2> QED
    BY <1>7, <2>1, WriteRewires
<1>9. Reassigned(cs, h, start, NoThis, f, val, g)
  <2>1. \A s \in FixedSlots(cs, h, start) : Holds(cs, h, s) \in Value
    BY HoldsIsValue
  <2> QED
    BY <1>3, <1>4, <2>1, ReferencesAssumption DEF Reassigned
<1>10. Renames(cs, h, start, NoThis, f)
  <2>1. \A v \in Value \ Position : f[v] = v
    BY <1>4 DEF ShiftUp
  <2>2. ASSUME NEW i \in start .. Len(cs), NEW j \in Uses(cs, h, i)
        PROVE  f[j] \in Position
    <3>1. j \in Earlier(i - 1) /\ j \in Position /\ j \in Value
      BY <1>1 DEF Uses, Value
    <3>2. j + 1 \in Position
      BY <1>1, <1>2, <3>1, SizesAssumption DEF Earlier, Position
    <3> QED
      BY <1>4, <3>1, <3>2 DEF ShiftUp
  <2>3. ASSUME NEW i \in 1 .. (start - 1), NEW j \in Uses(cs, h, i)
        PROVE  f[j] = j /\ j # NoThis
    <3>1. i \in 1 .. k
      BY <1>1
    <3>2. j \in Earlier(i) /\ j \in Value
      BY <3>1 DEF Uses, Value
    <3>3. ~(j >= k)
      BY <3>1, <3>2 DEF Earlier
    <3> QED
      BY <1>4, <3>2, <3>3, ReferencesAssumption DEF ShiftUp
  <2> QED
    BY <2>1, <2>2, <2>3, ReferencesAssumption DEF Renames
<1>11. Beyond(h, g) /\ DOMAIN g = DOMAIN h
  <2>1. DOMAIN g = DOMAIN h /\ g = [a \in DOMAIN h |-> g[a]] /\ IsHeap(h)
    BY <1>2, <1>7 DEF Written, Whole
  <2> QED
    BY <2>1, NothingBeyond
<1>12. Fixing(cs, h, start, NoThis, f, val, ds, g)
  BY <1>8, <1>9, <1>10, <1>11 DEF Fixing
<1>13. /\ Solid(ds, g) /\ Len(ds) = Len(cs) /\ DOMAIN ds = DOMAIN cs
       /\ \A i \in DOMAIN cs : ds[i].callee = cs[i].callee
       /\ \A a \in DOMAIN h : Range(g[a]) \cap DOMAIN h \subseteq Range(h[a])
  BY <1>12, FixedIsSolid
<1>14. ASSUME NEW i \in 1 .. k
       PROVE  Uses(ds, g, i) = Uses(cs, h, i)
  <2>1. i \in 1 .. (start - 1)
    BY <1>1
  <2> QED
    BY <1>12, <2>1, EarlierUses
<1>15. ASSUME NEW i \in (k + 1) .. Len(cs)
       PROVE  Uses(ds, g, i) = {Refs!ShiftUp(k, j) : j \in Uses(cs, h, i)}
  <2>1. i \in start .. Len(cs)
    BY <1>1
  <2>2. UsesMoved(NoThis, f, Uses(cs, h, i), Uses(ds, g, i), i)
    BY <1>12, <2>1, LaterUses
  <2>3. \A j \in Uses(cs, h, i) : j # NoThis /\ f[j] = Refs!ShiftUp(k, j)
    <3> TAKE j \in Uses(cs, h, i)
    <3>1. j \in Position /\ j \in Value
      BY DEF Uses, Value
    <3> QED
      BY <1>4, <3>1, ReferencesAssumption DEF ShiftUp, Refs!ShiftUp
  <2>4. PICK U : U = Uses(cs, h, i)
    OBVIOUS
  <2>5. PICK W : W = Uses(ds, g, i)
    OBVIOUS
  <2>6. /\ \A j \in U : Refs!ShiftUp(k, j) \in W
        /\ \A j \in W : \E u \in U : j = Refs!ShiftUp(k, u)
    BY <2>2, <2>3, <2>4, <2>5 DEF UsesMoved
  <2>7. W = {Refs!ShiftUp(k, j) : j \in U}
    BY ONLY <2>6
  <2> QED
    BY <2>4, <2>5, <2>7
<1>16. OnePlace(cs, h) => OnePlace(ds, g)
  <2> SUFFICES ASSUME OnePlace(cs, h) PROVE OnePlace(ds, g)
    OBVIOUS
  <2>1. PICK s : s = <<>>
    OBVIOUS
  <2>2. DOMAIN s = {}
    BY <2>1
  <2>3. Sprouted(h, g, s)
    BY <1>11, <2>2 DEF Sprouted, Placed
  <2>4. \A t \in FixedSlots(cs, h, start) :
          Holds(cs, h, t) = NoThis /\ val[t] \in Arrays => \E j \in DOMAIN s : s[j] = t /\ val[t] = s[j]
    BY HoldsIsValue, ReferencesAssumption
  <2> QED
    BY ONLY <1>12, <2>3, <2>4, OnePlace(cs, h), FixKeepsPlaces
<1> QED
  BY <1>5, <1>6, <1>11, <1>13, <1>14, <1>15, <1>16 DEF MadeRoom

(* The heap that a step leaves is what is in use of one where no array has two places. *)
Tidied == \E m : heap' = Restrict(m, LiveArrays(calls', m)) /\ DOMAIN m \subseteq Arrays /\ OnePlace(calls', m)

LEMMA AddFunctionCallInserts ==
  ASSUME Sound, NEW k \in 1 .. (Len(calls) + 1), AddFunctionCall(k)
  PROVE  /\ Sound' /\ (Loopless(heap) => Loopless(heap'))
         /\ \E f \in Functions : \E new \in SUBSET Earlier(k) : Refs!Insert(k, f, new)
         /\ OnePlace(calls, heap) => Tidied
<1>1. PICK cs : cs = calls
  OBVIOUS
<1>2. PICK h : h = heap
  OBVIOUS
<1>3. Solid(cs, h) /\ Backward(cs, h) /\ IsHeap(h) /\ Len(cs) \in Nat /\ DOMAIN cs = 1 .. Len(cs) /\ Len(cs) < MaxCalls
  BY <1>1, <1>2, SolidIs, SizesAssumption DEF Sound, Whole, Position, AddFunctionCall
<1>4. k \in 1 .. (Len(cs) + 1) /\ k \in Position /\ k \in Nat
  BY <1>1, <1>3, SizesAssumption DEF Position
<1>5. PICK r \in GenerateFunctionCall(h, k) :
        LET s == FixAdded(InsertAt(cs, k, r.value), r.heap, k) IN Become(s.calls, s.heap, "AddFunctionCall")
  BY <1>1, <1>2 DEF AddFunctionCall
<1>6. /\ r.value \in Call /\ Len(r.value.args) <= MostArguments
      /\ Planted(h, r.heap) /\ Sprouted(h, r.heap, Operands(r.value))
      /\ \A v \in CallValues(r.value) : Backed(h, r.heap, v, k)
  BY <1>3, <1>4, GeneratedCall
<1>7. PICK c \in Call : c = r.value
  BY <1>6
<1>8. PICK g : g = r.heap
  OBVIOUS
<1>9. PICK ms : ms = InsertAt(cs, k, c)
  OBVIOUS
<1>10. PICK s : s = FixAdded(ms, g, k)
  OBVIOUS
<1>11. Become(s.calls, s.heap, "AddFunctionCall")
  BY <1>5, <1>7, <1>8, <1>9, <1>10
<1>12. /\ Solid(ms, g) /\ Len(ms) = Len(cs) + 1 /\ DOMAIN ms = 1 .. (Len(cs) + 1)
       /\ \A i \in 1 .. (Len(cs) + 1) : ms[i] = IF i < k THEN cs[i] ELSE IF i = k THEN c ELSE cs[i - 1]
       /\ \A i \in 1 .. (k - 1) : Uses(ms, g, i) = Uses(cs, h, i)
       /\ Uses(ms, g, k) \subseteq Earlier(k)
       /\ \A i \in (k + 1) .. (Len(cs) + 1) : Uses(ms, g, i) = Uses(cs, h, i - 1)
  <2>1. /\ Solid(cs, h) /\ Planted(h, g) /\ k \in 1 .. (Len(cs) + 1) /\ Len(cs) < MaxCalls
        /\ c \in Call /\ Len(c.args) <= MostArguments /\ \A v \in CallValues(c) : Backed(h, g, v, k)
    BY <1>3, <1>4, <1>6, <1>7, <1>8
  <2> QED
    BY ONLY <2>1, <1>9, InsertedIs
<1>13. \A i \in 1 .. Len(cs) : Uses(cs, h, i) \subseteq Earlier(i)
  BY <1>3 DEF Backward
<1>14. k \in 1 .. Len(ms)
  BY <1>3, <1>4, <1>12
<1>15. \A i \in 1 .. k : Uses(ms, g, i) \subseteq Earlier(i)
  <2> TAKE i \in 1 .. k
  <2>1. CASE i = k
    BY <1>12, <2>1
  <2>2. CASE i # k
    <3>1. i \in 1 .. (k - 1) /\ i \in 1 .. Len(cs)
      BY <1>3, <1>4, <2>2
    <3> QED
      BY <1>12, <1>13, <3>1
  <2> QED
    BY <2>1, <2>2
<1>16. \A i \in (k + 1) .. Len(ms) : Uses(ms, g, i) \subseteq Earlier(i - 1)
  <2> TAKE i \in (k + 1) .. Len(ms)
  <2>1. i \in (k + 1) .. (Len(cs) + 1) /\ i - 1 \in 1 .. Len(cs)
    BY <1>3, <1>4, <1>12
  <2> QED
    BY <1>12, <1>13, <2>1
<1>17. /\ Beyond(g, s.heap) /\ DOMAIN g \subseteq DOMAIN s.heap
       /\ \A a \in DOMAIN g : Range(s.heap[a]) \cap DOMAIN g \subseteq Range(g[a])
       /\ Solid(s.calls, s.heap) /\ Len(s.calls) = Len(ms) /\ DOMAIN s.calls = DOMAIN ms
       /\ \A i \in DOMAIN ms : s.calls[i].callee = ms[i].callee
       /\ \A i \in 1 .. k : Uses(s.calls, s.heap, i) = Uses(ms, g, i)
       /\ \A i \in (k + 1) .. Len(ms) : Uses(s.calls, s.heap, i) = {Refs!ShiftUp(k, j) : j \in Uses(ms, g, i)}
       /\ OnePlace(ms, g) => OnePlace(s.calls, s.heap)
  <2>1. MadeRoom(ms, g, k, s.calls, s.heap)
    <3>1. Solid(ms, g)
      BY <1>12
    <3> QED
      BY ONLY <3>1, <1>10, <1>14, <1>15, <1>16, FixAddedIs
  <2> QED
    BY <2>1 DEF MadeRoom
<1>18. PICK ds : ds = s.calls
  OBVIOUS
<1>19. PICK m : m = s.heap
  OBVIOUS
<1>20. PICK n : n = Restrict(m, LiveArrays(ds, m))
  OBVIOUS
<1>21. calls' = ds /\ heap' = n /\ lastMutator' = "AddFunctionCall"
  BY <1>11, <1>18, <1>19, <1>20 DEF Become
<1>22. Solid(ds, n) /\ \A i \in DOMAIN ds : Uses(ds, n, i) = Uses(ds, m, i)
  BY <1>17, <1>18, <1>19, <1>20, Restricted
<1>23. PICK l \in Nat : l = Len(cs) /\ DOMAIN ds = 1 .. (l + 1) /\ k \in 1 .. (l + 1)
  BY <1>3, <1>4, <1>12, <1>17, <1>18
<1>24. \A i \in 1 .. (l + 1) :
         Uses(ds, n, i) = IF i < k THEN Uses(cs, h, i)
                          ELSE IF i = k THEN Uses(ms, g, k)
                          ELSE {Refs!ShiftUp(k, j) : j \in Uses(cs, h, i - 1)}
  <2> TAKE i \in 1 .. (l + 1)
  <2>1. Uses(ds, n, i) = Uses(ds, m, i)
    BY <1>22, <1>23
  <2>2. CASE i < k
    <3>1. i \in 1 .. (k - 1) /\ i \in 1 .. k
      BY <1>4, <2>2
    <3> QED
      BY <1>12, <1>17, <1>18, <1>19, <2>1, <2>2, <3>1
  <2>3. CASE i = k
    <3>1. i \in 1 .. k /\ ~(i < k)
      BY <1>4, <2>3
    <3> QED
      BY <1>17, <1>18, <1>19, <2>1, <2>3, <3>1
  <2>4. CASE i > k
    <3>1. i \in (k + 1) .. (Len(cs) + 1) /\ i \in (k + 1) .. Len(ms) /\ ~(i < k) /\ i # k
      BY <1>4, <1>12, <1>23, <2>4
    <3>2. Uses(ds, m, i) = {Refs!ShiftUp(k, j) : j \in Uses(ms, g, i)}
      BY <1>17, <1>18, <1>19, <3>1
    <3>3. Uses(ms, g, i) = Uses(cs, h, i - 1)
      BY <1>12, <3>1
    <3> QED
      BY <2>1, <3>1, <3>2, <3>3
  <2> QED
    BY <1>4, <2>2, <2>3, <2>4
<1>25. \A i \in 1 .. (l + 1) :
         ds[i].callee = IF i < k THEN cs[i].callee ELSE IF i = k THEN c.callee ELSE cs[i - 1].callee
  <2> TAKE i \in 1 .. (l + 1)
  <2>1. ds[i].callee = ms[i].callee
    BY <1>12, <1>17, <1>18, <1>23
  <2>2. ms[i] = IF i < k THEN cs[i] ELSE IF i = k THEN c ELSE cs[i - 1]
    BY <1>12, <1>23
  <2> QED
    BY <2>1, <2>2
<1>26. Backward(ds, n)
  <2> SUFFICES ASSUME NEW i \in 1 .. (l + 1)
               PROVE  Uses(ds, n, i) \subseteq Earlier(i)
    BY <1>23 DEF Backward
  <2>1. CASE i < k
    <3>1. i \in 1 .. Len(cs)
      BY <1>4, <1>23, <2>1
    <3> QED
      BY <1>13, <1>24, <2>1, <3>1
  <2>2. CASE i = k
    <3>1. ~(i < k)
      BY <1>4, <2>2
    <3>2. Uses(ds, n, i) = Uses(ms, g, k)
      BY <1>24, <2>2, <3>1
    <3> QED
      BY <1>12, <2>2, <3>2
  <2>3. CASE i > k
    <3>1. i - 1 \in 1 .. Len(cs) /\ ~(i < k) /\ i # k
      BY <1>4, <1>23, <2>3
    <3>2. Uses(ds, n, i) = {Refs!ShiftUp(k, j) : j \in Uses(cs, h, i - 1)}
      BY <1>24, <3>1
    <3>3. \A j \in Earlier(i - 1) : Refs!ShiftUp(k, j) \in Earlier(i)
      BY <1>23 DEF Earlier, Refs!ShiftUp
    <3> QED
      BY <1>13, <3>1, <3>2, <3>3
  <2> QED
    BY <1>4, <2>1, <2>2, <2>3
<1>27. Sound'
  BY <1>21, <1>22, <1>26 DEF Sound, MutatorName
<1>28. PICK new \in SUBSET Earlier(k) : new = Uses(ms, g, k)
  BY <1>12
<1>29. PICK f \in Functions : f = c.callee
  BY DEF Call
<1>30. Refs!Insert(k, f, new)
  <2>1. PICK p : p = RefsOf(cs, h)
    OBVIOUS
  <2>2. PICK q : q = RefsOf(ds, n)
    OBVIOUS
  <2>3. /\ p.refs = [i \in 1 .. l |-> Uses(cs, h, i)] /\ p.callees = [i \in 1 .. l |-> cs[i].callee]
    BY <1>3, <1>23, <2>1 DEF RefsOf
  <2>4. /\ q.refs = [i \in 1 .. (l + 1) |-> Uses(ds, n, i)] /\ q.callees = [i \in 1 .. (l + 1) |-> ds[i].callee]
    BY <1>23, <2>2 DEF RefsOf
  <2>5. Len(p.refs) = l
    BY <2>3
  <2>6. l < MaxCalls
    BY <1>3, <1>23
  <2>7. \A i \in 1 .. (l + 1) : (i < k => i \in 1 .. l) /\ (~(i < k) /\ i # k => i - 1 \in 1 .. l)
    BY <1>23, <1>4
  <2>8. q.refs = [i \in 1 .. (l + 1) |->
                    IF i < k THEN p.refs[i]
                    ELSE IF i = k THEN new
                    ELSE {Refs!ShiftUp(k, j) : j \in p.refs[i - 1]}]
    <3>1. \A i \in 1 .. (l + 1) :
            Uses(ds, n, i) = IF i < k THEN p.refs[i] ELSE IF i = k THEN new
                             ELSE {Refs!ShiftUp(k, j) : j \in p.refs[i - 1]}
      BY <1>24, <1>28, <2>3, <2>7
    <3> QED
      BY <2>4, <3>1
  <2>9. q.callees = [i \in 1 .. (l + 1) |->
                       IF i < k THEN p.callees[i] ELSE IF i = k THEN f ELSE p.callees[i - 1]]
    <3>1. \A i \in 1 .. (l + 1) :
            ds[i].callee = IF i < k THEN p.callees[i] ELSE IF i = k THEN f ELSE p.callees[i - 1]
      BY <1>25, <1>29, <2>3, <2>7
    <3> QED
      BY <2>4, <3>1
  <2>10. RefsOf(calls, heap) = p /\ RefsOf(calls, heap)' = q
    BY <1>1, <1>2, <1>21, <2>1, <2>2
  <2> QED
    BY <2>5, <2>6, <2>8, <2>9, <2>10 DEF Refs!Insert
<1>31. Loopless(h) => Loopless(n)
  <2>1. Loopless(h) => Loopless(g)
    <3>1. Whole(h) /\ Copied(h, g)
      BY <1>3, <1>6, <1>8, SolidIs, PlantedIsCopied
    <3> QED
      BY <3>1, CopiedLoopless
  <2>2. Loopless(g) => Loopless(m)
    <3>1. /\ Beyond(g, m) /\ DOMAIN g \subseteq DOMAIN m
          /\ \A a \in DOMAIN g : Range(m[a]) \cap DOMAIN g \subseteq Range(g[a])
      BY <1>17, <1>19
    <3> QED
      BY ONLY <3>1, FixedLoopless
  <2>3. Loopless(m) => Loopless(n)
    BY <1>20, RestrictedLoopless DEF LiveArrays
  <2> QED
    BY <2>1, <2>2, <2>3
<1>32. OnePlace(cs, h) => Tidied
  <2> SUFFICES ASSUME OnePlace(cs, h) PROVE Tidied
    OBVIOUS
  <2>1. /\ Solid(cs, h) /\ Grows(h, g) /\ IsHeap(g) /\ k \in 1 .. (Len(cs) + 1)
        /\ Sprouted(h, g, Operands(c)) /\ WithCall(cs, k, c, ms) /\ DOMAIN ms \subseteq Position
        /\ OnePlace(cs, h)
    BY <1>3, <1>4, <1>6, <1>7, <1>8, <1>12, SolidIs DEF Planted, WithCall
  <2>2. OnePlace(ms, g)
    BY ONLY <2>1, InsertedPlaces
  <2>3. OnePlace(ds, m) /\ Solid(ds, m)
    BY <1>17, <1>18, <1>19, <2>2
  <2>4. DOMAIN m \subseteq Arrays
    BY <2>3, SolidIs DEF Whole, IsHeap
  <2> QED
    BY <1>20, <1>21, <2>3, <2>4 DEF Tidied
<1> QED
  BY <1>1, <1>2, <1>21, <1>27, <1>28, <1>29, <1>30, <1>31, <1>32

(* Removing a call: the slots that held it, in some order. *)
LEMMA SequenceOfSet ==
  ASSUME NEW S, IsFiniteSet(S)
  PROVE  /\ Cardinality(S) \in Nat /\ SetToSeq(S) \in [1 .. Cardinality(S) -> S]
         /\ \A s \in S : \E n \in 1 .. Cardinality(S) : SetToSeq(S)[n] = s
<1>1. Cardinality(S) \in Nat /\ ExistsBijection(1 .. Cardinality(S), S)
  BY FS_CardinalityType
<1>2. PICK n \in Nat : n = Cardinality(S)
  BY <1>1
<1>3. PICK b \in Bijection(1 .. n, S) : TRUE
  BY <1>1, <1>2 DEF ExistsBijection
<1>4. b \in [1 .. n -> S] /\ IsInjective(b)
  BY <1>3 DEF Bijection, Injection
<1>5. PICK f : f = SetToSeq(S)
  OBVIOUS
<1>6. f \in [1 .. n -> S] /\ IsInjective(f)
  BY <1>2, <1>4, <1>5 DEF SetToSeq
<1>7. f \in Injection(1 .. n, S)
  BY <1>6 DEF Injection
<1>8. IsFiniteSet(1 .. n) /\ Cardinality(1 .. n) = n
  BY FS_Interval
<1>9. f \in Surjection(1 .. n, S)
  BY <1>2, <1>7, <1>8, FS_Injection
<1>10. \A s \in S : \E m \in 1 .. n : f[m] = s
  BY <1>9 DEF Surjection
<1> QED
  BY <1>1, <1>2, <1>5, <1>6, <1>10

LEMMA SlotsFinite ==
  ASSUME NEW cs, NEW h, Solid(cs, h), NEW start \in 1 .. (Len(cs) + 1)
  PROVE  IsFiniteSet(FixedSlots(cs, h, start))
<1>1. PICK b \in Nat : b >= MostArguments /\ b >= LongestArray
  <2>1. MostArguments \in Nat /\ LongestArray \in Nat
    BY Sizes
  <2>2. MostArguments + LongestArray \in Nat
    BY <2>1
  <2> QED
    BY <2>1, <2>2
<1>2. PICK P : P = Position \cup Arrays
  OBVIOUS
<1>3. IsFiniteSet(P)
  <2>1. MaxCalls \in Int
    BY SizesAssumption
  <2>2. IsFiniteSet(Position)
    BY <2>1, FS_Interval DEF Position
  <2> QED
    BY <1>2, <2>2, ReferencesAssumption, FS_Union
<1>4. IsFiniteSet(0 .. b)
  BY FS_Interval
<1>5. IsFiniteSet(P \X (0 .. b))
  BY <1>3, <1>4, FS_Product
<1>6. /\ Whole(h) /\ DOMAIN cs = 1 .. Len(cs) /\ DOMAIN cs \subseteq Position
      /\ \A i \in DOMAIN cs : cs[i] \in Call /\ Len(cs[i].args) <= MostArguments
  BY SolidIs DEF Solid
<1>7. \A s \in Seq(Value) : Len(s) <= b => DOMAIN s \subseteq 0 .. b
  OBVIOUS
<1>8. ASSUME NEW i \in start .. Len(cs)
      PROVE  i \in P /\ DOMAIN cs[i].args \subseteq 0 .. b
  <2>1. i \in DOMAIN cs
    BY <1>6, SolidIs, SizesAssumption DEF Position
  <2>2. cs[i].args \in Seq(Value) /\ Len(cs[i].args) <= MostArguments
    BY <1>6, <2>1 DEF Call
  <2>3. Len(cs[i].args) <= b
    <3>1. Len(cs[i].args) \in Nat /\ MostArguments \in Nat
      BY <2>2, Sizes
    <3> QED
      BY <1>1, <2>2, <3>1
  <2> QED
    BY <1>2, <1>6, <1>7, <2>1, <2>2, <2>3
<1>9. ASSUME NEW a \in DOMAIN h
      PROVE  a \in P /\ DOMAIN h[a] \subseteq 0 .. b
  <2>1. h[a] \in Seq(Value) /\ Len(h[a]) <= LongestArray /\ a \in Arrays
    BY <1>6 DEF Whole, IsHeap, Solid, Sized
  <2>2. Len(h[a]) <= b
    <3>1. Len(h[a]) \in Nat /\ LongestArray \in Nat
      BY <2>1, Sizes
    <3> QED
      BY <1>1, <2>1, <3>1
  <2> QED
    BY <1>2, <1>7, <2>1, <2>2
<1>10. FixedSlots(cs, h, start) \subseteq P \X (0 .. b)
  <2> SUFFICES ASSUME NEW s \in FixedSlots(cs, h, start)
               PROVE  s \in P \X (0 .. b)
    OBVIOUS
  <2>1. CASE \E i \in start .. Len(cs) : \E k \in DOMAIN cs[i].args : s = <<i, k>>
    <3>1. PICK i \in start .. Len(cs) : \E k \in DOMAIN cs[i].args : s = <<i, k>>
      BY <2>1
    <3> QED
      BY <1>8, <3>1
  <2>2. CASE \E i \in start .. Len(cs) : cs[i].this # NoThis /\ s = <<i, 0>>
    <3>1. PICK i \in start .. Len(cs) : s = <<i, 0>>
      BY <2>2
    <3> QED
      BY <1>8, <3>1
  <2>3. CASE \E i \in start .. Len(cs) : \E a \in CallReach(cs, h, i) : \E k \in DOMAIN h[a] : s = <<a, k>>
    <3>1. PICK i \in start .. Len(cs) : \E a \in CallReach(cs, h, i) : \E k \in DOMAIN h[a] : s = <<a, k>>
      BY <2>3
    <3>2. PICK a \in CallReach(cs, h, i) : \E k \in DOMAIN h[a] : s = <<a, k>>
      BY <3>1
    <3>3. a \in DOMAIN h
      BY DEF CallReach, Reach
    <3> QED
      BY <1>9, <3>2, <3>3
  <2> QED
    BY <2>1, <2>2, <2>3, SlotForms
<1> QED
  BY <1>5, <1>10, FS_Subset

(* The fixer reaches every slot from a call. *)
LEMMA FixedFromIs ==
  ASSUME NEW cs, NEW h, Solid(cs, h), NEW start \in 1 .. (Len(cs) + 1), NEW s \in FixedSlots(cs, h, start)
  PROVE  FixedFrom(cs, h, start, s) \in Position
<1>1. Len(cs) \in Nat /\ start \in Nat /\ \A i \in start .. Len(cs) : i \in Position
  BY SolidIs, SizesAssumption DEF Position
<1>2. CASE \E i \in start .. Len(cs) : \E k \in DOMAIN cs[i].args : s = <<i, k>>
  <2>1. PICK i \in start .. Len(cs) : \E k \in DOMAIN cs[i].args : s = <<i, k>>
    BY <1>2
  <2>2. i \notin DOMAIN h
    BY <2>1, SolidIs, CallNoArray
  <2> QED
    BY <1>1, <2>1, <2>2 DEF FixedFrom
<1>3. CASE \E i \in start .. Len(cs) : cs[i].this # NoThis /\ s = <<i, 0>>
  <2>1. PICK i \in start .. Len(cs) : s = <<i, 0>>
    BY <1>3
  <2>2. i \notin DOMAIN h
    BY <2>1, SolidIs, CallNoArray
  <2> QED
    BY <1>1, <2>1, <2>2 DEF FixedFrom
<1>4. CASE \E i \in start .. Len(cs) : \E a \in CallReach(cs, h, i) : \E k \in DOMAIN h[a] : s = <<a, k>>
  <2>1. PICK i \in start .. Len(cs) : \E a \in CallReach(cs, h, i) : \E k \in DOMAIN h[a] : s = <<a, k>>
    BY <1>4
  <2>2. PICK a \in CallReach(cs, h, i) : \E k \in DOMAIN h[a] : s = <<a, k>>
    BY <2>1
  <2>3. PICK k \in DOMAIN h[a] : s = <<a, k>>
    BY <2>2
  <2>4. FixedFrom(cs, h, start, <<a, k>>) \in start .. i
    BY ArraySlots
  <2>5. \A j \in start .. i : j \in start .. Len(cs)
    BY <1>1
  <2> QED
    BY <1>1, <2>3, <2>4, <2>5
<1> QED
  BY <1>2, <1>3, <1>4, SlotForms

(* The first writing: everything that is met is renamed. *)
LEMMA RenamedAll ==
  ASSUME NEW cs, NEW h, Solid(cs, h), NEW start \in 1 .. (Len(cs) + 1),
         NEW f, Renames(cs, h, start, NoThis, f),
         NEW val, DOMAIN val = FixedSlots(cs, h, start),
         \A s \in FixedSlots(cs, h, start) : val[s] = f[Holds(cs, h, s)],
         NEW ds, NEW g, Written(cs, h, val, ds, g)
  PROVE  Fixing(cs, h, start, NoThis, f, val, ds, g) /\ DOMAIN g = DOMAIN h
<1>1. Rewired(cs, h, start, val, ds, g)
  BY WriteRewires
<1>2. Reassigned(cs, h, start, NoThis, f, val, g)
  <2>1. \A s \in FixedSlots(cs, h, start) : Holds(cs, h, s) \in Value
    BY HoldsIsValue
  <2> QED
    BY <2>1, ReferencesAssumption DEF Reassigned
<1>3. Beyond(h, g) /\ DOMAIN g = DOMAIN h
  <2>1. DOMAIN g = DOMAIN h /\ g = [a \in DOMAIN h |-> g[a]] /\ IsHeap(h)
    BY SolidIs DEF Written, Whole
  <2> QED
    BY <2>1, NothingBeyond
<1> QED
  BY <1>1, <1>2, <1>3 DEF Fixing

(* The references of the calls from k on close up, those to call k are replaced. *)
ClosedUp(cs, h, k, f, ds, g) ==
  /\ Solid(ds, g) /\ Len(ds) = Len(cs) /\ DOMAIN ds = DOMAIN cs
  /\ \A i \in DOMAIN cs : ds[i].callee = cs[i].callee
  /\ \A i \in 1 .. (k - 1) : Uses(ds, g, i) = Uses(cs, h, i)
  /\ \A i \in k .. Len(cs) : UsesMoved(k, f, Uses(cs, h, i), Uses(ds, g, i), i)
  /\ Beyond(h, g) /\ DOMAIN h \subseteq DOMAIN g
  /\ \A a \in DOMAIN h : Range(g[a]) \cap DOMAIN h \subseteq Range(h[a])
  /\ OnePlace(cs, h) => OnePlace(ds, g)

LEMMA FixRemovedIs ==
  ASSUME NEW cs, NEW h, Solid(cs, h), NEW k \in 1 .. (Len(cs) + 1), k \in Position,
         \A i \in 1 .. (k - 1) : Uses(cs, h, i) \subseteq Earlier(i),
         NEW r \in FixRemoved(cs, h, k), NEW f, f = [v \in Value |-> ShiftDown(k, v)]
  PROVE  ClosedUp(cs, h, k, f, r.calls, r.heap)
<1>1. PICK slots : slots = FixedSlots(cs, h, k)
  OBVIOUS
<1>2. PICK holed : holed = {s \in slots : Holds(cs, h, s) = k}
  OBVIOUS
<1>3. PICK hits : hits = SetToSeq(holed)
  OBVIOUS
<1>4. PICK old : old = [s \in slots |-> ShiftDown(k, Holds(cs, h, s))]
  OBVIOUS
<1>5. PICK kept : kept = Write(cs, h, old)
  OBVIOUS
<1>6. PICK ms : ms = kept.calls
  OBVIOUS
<1>7. PICK m : m = kept.heap
  OBVIOUS
<1>8. PICK at : at = [n \in DOMAIN hits |-> FixedFrom(cs, h, k, hits[n])]
  OBVIOUS
<1>9. PICK g0 \in GenerateValues(m, at) :
        r = Write(ms, g0.heap, [s \in Range(hits) |-> g0.value[CHOOSE n \in DOMAIN hits : hits[n] = s]])
  <2> DEFINE S == FixedSlots(cs, h, k)
             H == SetToSeq({s \in S : Holds(cs, h, s) = k})
             K == Write(cs, h, [s \in S |-> ShiftDown(k, Holds(cs, h, s))])
             A == [n \in DOMAIN H |-> FixedFrom(cs, h, k, H[n])]
             W(q, g) == [s \in Range(q) |-> g.value[CHOOSE n \in DOMAIN q : q[n] = s]]
  <2>1. r \in {Write(K.calls, g.heap, [s \in Range(H) |-> g.value[CHOOSE n \in DOMAIN H : H[n] = s]]) :
                 g \in GenerateValues(K.heap, A)}
    BY DEF FixRemoved
  <2>2. S = slots
    BY <1>1
  <2>3. H = hits
    BY <2>2, <1>2, <1>3
  <2>4. K = kept
    BY <2>2, <1>4, <1>5
  <2>5. A = at
    <3> HIDE DEF H
    <3> QED
      BY <2>3, <1>8
  <2>6. PICK g0 \in GenerateValues(K.heap, A) : r = Write(K.calls, g0.heap, W(H, g0))
    <3> HIDE DEF S, H, K, A
    <3> QED
      BY <2>1
  <2> HIDE DEF S, H, K, A, W
  <2>7. K.heap = m /\ K.calls = ms
    BY <2>4, <1>6, <1>7
  <2>8. g0 \in GenerateValues(m, at) /\ r = Write(ms, g0.heap, W(hits, g0))
    BY <2>3, <2>5, <2>6, <2>7
  <2> QED
    BY <2>8 DEF W
<1>10. k \in Nat /\ \A v \in Position : ShiftDown(k, v) \in Position
  <2>1. k \in Nat /\ k >= 1
    OBVIOUS
  <2>2. \A v \in 1 .. MaxCalls : v > k => v - 1 \in 1 .. MaxCalls
    BY <2>1, SizesAssumption
  <2> QED
    BY <2>1, <2>2 DEF ShiftDown, Position
<1>11. /\ \A v \in Value \ Position : f[v] = v
       /\ \A i \in k .. Len(cs) : \A j \in Uses(cs, h, i) : f[j] \in Position
       /\ \A i \in 1 .. (k - 1) : \A j \in Uses(cs, h, i) : f[j] = j /\ j # k
  <2>1. \A v \in Value \ Position : f[v] = v
    BY DEF ShiftDown
  <2>2. \A i \in k .. Len(cs) : \A j \in Uses(cs, h, i) : f[j] \in Position
    BY <1>10 DEF Uses, Value
  <2>3. ASSUME NEW i \in 1 .. (k - 1), NEW j \in Uses(cs, h, i)
        PROVE  f[j] = j /\ j # k
    <3>1. j \in Earlier(i) /\ j \in Value
      BY DEF Uses, Value
    <3>2. j < k /\ ~(j > k) /\ j # k
      BY <1>10, <3>1 DEF Earlier
    <3> QED
      BY <3>1, <3>2 DEF ShiftDown
  <2> QED
    BY <2>1, <2>2, <2>3
<1>12. Renames(cs, h, k, NoThis, f) /\ Renames(cs, h, k, k, f)
  <2>1. \A i \in 1 .. (k - 1) : \A j \in Uses(cs, h, i) : j # NoThis
    BY ReferencesAssumption DEF Uses, Value
  <2> QED
    BY <1>11, <2>1, ReferencesAssumption DEF Renames
<1>13. \A s \in slots : Holds(cs, h, s) \in Value /\ old[s] = f[Holds(cs, h, s)]
  BY <1>1, <1>4, HoldsIsValue
<1>14. Written(cs, h, old, ms, m)
  <2>1. \A i \in DOMAIN cs : cs[i] \in Call
    BY SolidIs
  <2> QED
    BY <1>5, <1>6, <1>7, <2>1, WriteIs
<1>15. DOMAIN old = FixedSlots(cs, h, k) /\ \A s \in FixedSlots(cs, h, k) : old[s] = f[Holds(cs, h, s)]
  BY <1>1, <1>4, <1>13
<1>16. Fixing(cs, h, k, NoThis, f, old, ms, m) /\ DOMAIN m = DOMAIN h
  BY <1>12, <1>14, <1>15, RenamedAll
<1>17. Solid(ms, m) /\ Rewired(cs, h, k, old, ms, m)
  BY <1>16, FixedIsSolid DEF Fixing
<1>18. IsHeap(m) /\ \A i \in DOMAIN ms : ms[i] \in Call
  BY <1>17, SolidIs DEF Whole
<1>19. PICK c \in Nat : /\ hits \in [1 .. c -> holed]
                        /\ \A s \in holed : \E n \in 1 .. c : hits[n] = s
  <2>1. IsFiniteSet(holed)
    BY <1>1, <1>2, SlotsFinite, FS_Subset
  <2>2. /\ Cardinality(holed) \in Nat /\ SetToSeq(holed) \in [1 .. Cardinality(holed) -> holed]
        /\ \A s \in holed : \E n \in 1 .. Cardinality(holed) : SetToSeq(holed)[n] = s
    BY ONLY <2>1, SequenceOfSet
  <2> QED
    BY <1>3, <2>2
<1>20. DOMAIN hits = 1 .. c /\ Range(hits) = holed /\ holed \subseteq slots
  BY <1>2, <1>19 DEF Range
<1>21. at \in Seq(Position) /\ Len(at) = c /\ \A n \in 1 .. c : at[n] = FixedFrom(cs, h, k, hits[n])
  <2>1. \A n \in 1 .. c : FixedFrom(cs, h, k, hits[n]) \in Position
    BY <1>1, <1>19, <1>20, FixedFromIs
  <2>2. at \in [1 .. c -> Position] /\ \A n \in 1 .. c : at[n] = FixedFrom(cs, h, k, hits[n])
    BY <1>8, <1>20, <2>1
  <2>3. at \in Seq(Position) /\ Len(at) = c
    BY ONLY <2>2, c \in Nat
  <2> QED
    BY <2>2, <2>3
<1>22. Generated(m, at, Len(at), g0)
  BY <1>18, <1>21, GeneratedValues
<1>23. PICK n0 : n0 = g0.heap
  OBVIOUS
<1>24. Planted(m, n0) /\ \A n \in 1 .. c : Backed(m, n0, g0.value[n], at[n])
  BY <1>21, <1>22, <1>23 DEF Generated
<1>25. PICK w : w = [s \in Range(hits) |-> g0.value[CHOOSE n \in DOMAIN hits : hits[n] = s]]
  OBVIOUS
<1>26. DOMAIN w = holed /\ \A s \in holed : Backed(m, n0, w[s], FixedFrom(cs, h, k, s))
  <2>1. DOMAIN w = holed
    BY <1>20, <1>25
  <2>2. ASSUME NEW s \in holed
        PROVE  Backed(m, n0, w[s], FixedFrom(cs, h, k, s))
    <3>1. PICK n \in 1 .. c : n = CHOOSE x \in DOMAIN hits : hits[x] = s
      BY <1>19, <1>20
    <3>2. hits[n] = s
      BY <1>19, <1>20, <3>1
    <3>3. w[s] = g0.value[n]
      BY <1>20, <1>25, <3>1
    <3> QED
      BY <1>21, <1>24, <3>2, <3>3
  <2> QED
    BY <2>1, <2>2
<1>27. PICK ds : ds = r.calls
  OBVIOUS
<1>28. PICK g : g = r.heap
  OBVIOUS
<1>29. Written(ms, n0, w, ds, g)
  <2>1. r = Write(ms, n0, w)
    BY <1>9, <1>23, <1>25
  <2> QED
    BY <1>18, <1>27, <1>28, <2>1, WriteIs
<1>30. PICK val : val = [s \in slots |-> IF s \in DOMAIN w THEN w[s] ELSE old[s]]
  OBVIOUS
<1>31. /\ Rewired(cs, h, k, val, ds, g)
       /\ DOMAIN g = DOMAIN n0 /\ \A a \in DOMAIN n0 \ DOMAIN h : g[a] = n0[a]
  <2>1. /\ Solid(cs, h) /\ k \in 1 .. (Len(cs) + 1)
        /\ Rewired(cs, h, k, old, ms, m) /\ DOMAIN m = DOMAIN h
        /\ Grows(m, n0) /\ IsHeap(n0)
        /\ DOMAIN w \subseteq FixedSlots(cs, h, k) /\ Written(ms, n0, w, ds, g)
        /\ \A s \in FixedSlots(cs, h, k) : val[s] = IF s \in DOMAIN w THEN w[s] ELSE old[s]
    BY <1>1, <1>16, <1>17, <1>20, <1>24, <1>26, <1>29, <1>30 DEF Planted
  <2> QED
    BY ONLY <2>1, WriteAgain
<1>32. \A v, i : Backed(m, n0, v, i) => Backed(h, g, v, i)
  <2> SUFFICES ASSUME NEW v, NEW i, Backed(m, n0, v, i)
               PROVE  Backed(h, g, v, i)
    OBVIOUS
  <2>1. PICK C \in SUBSET (DOMAIN n0 \ DOMAIN m) : Backing(n0, C, i) /\ v \in Leaf(i) \cup C
    BY DEF Backed
  <2>2. C \in SUBSET (DOMAIN g \ DOMAIN h) /\ \A a \in C : g[a] = n0[a]
    BY <1>16, <1>31, <2>1
  <2>3. Backing(g, C, i)
    BY <2>1, <2>2 DEF Backing
  <2> QED
    BY <2>1, <2>2, <2>3 DEF Backed
<1>33. Reassigned(cs, h, k, k, f, val, g)
  <2> SUFFICES ASSUME NEW s \in slots
               PROVE  IF Holds(cs, h, s) = k THEN Backed(h, g, val[s], FixedFrom(cs, h, k, s))
                      ELSE val[s] = f[Holds(cs, h, s)]
    BY <1>1 DEF Reassigned
  <2>1. CASE Holds(cs, h, s) = k
    <3>1. s \in holed /\ val[s] = w[s]
      BY <1>2, <1>26, <1>30, <2>1
    <3> QED
      BY <1>26, <1>32, <2>1, <3>1
  <2>2. CASE Holds(cs, h, s) # k
    <3>1. s \notin DOMAIN w
      BY <1>2, <1>26, <2>2
    <3> QED
      BY <1>13, <1>30, <2>2, <3>1
  <2> QED
    BY <2>1, <2>2
<1>34. Beyond(h, g)
  <2>1. DOMAIN g \subseteq Arrays /\ g = [a \in DOMAIN g |-> g[a]]
    BY <1>24, <1>29, <1>31 DEF Written, Planted, IsHeap
  <2>2. ASSUME NEW a \in DOMAIN g \ DOMAIN h
        PROVE  /\ g[a] \in Seq(Value) /\ Len(g[a]) <= LongestArray
               /\ Range(g[a]) \cap Arrays \subseteq DOMAIN g \ DOMAIN h
               /\ \E D \in SUBSET (DOMAIN g \ DOMAIN h) :
                    Closed(g, D) /\ Range(g[a]) \cap DOMAIN g \subseteq D /\ a \notin D
    <3>1. a \in DOMAIN n0 \ DOMAIN m /\ g[a] = n0[a]
      BY <1>16, <1>31
    <3>2. /\ n0[a] \in Seq(Value) /\ Len(n0[a]) <= LongestArray
          /\ Range(n0[a]) \cap Arrays \subseteq DOMAIN n0 \ DOMAIN m
      BY <1>24, <3>1 DEF Planted, IsHeap
    <3>3. PICK D \in SUBSET (DOMAIN n0 \ DOMAIN m) :
            Closed(n0, D) /\ Range(n0[a]) \cap DOMAIN n0 \subseteq D /\ a \notin D
      BY <1>24, <3>1 DEF Planted
    <3>4. Closed(g, D)
      BY <1>16, <1>31, <3>3 DEF Closed
    <3> QED
      BY <1>16, <1>31, <3>1, <3>2, <3>3, <3>4
  <2> QED
    BY <2>1, <2>2 DEF Beyond
<1>35. Fixing(cs, h, k, k, f, val, ds, g)
  BY <1>12, <1>31, <1>33, <1>34 DEF Fixing
<1>36. /\ Solid(ds, g) /\ DOMAIN ds = DOMAIN cs /\ Len(ds) = Len(cs)
       /\ \A i \in DOMAIN cs : ds[i].callee = cs[i].callee
       /\ \A a \in DOMAIN h : Range(g[a]) \cap DOMAIN h \subseteq Range(h[a])
  BY <1>35, FixedIsSolid
<1>37. \A i \in 1 .. (k - 1) : Uses(ds, g, i) = Uses(cs, h, i)
  BY <1>35, EarlierUses
<1>38. \A i \in k .. Len(cs) : UsesMoved(k, f, Uses(cs, h, i), Uses(ds, g, i), i)
  BY <1>35, LaterUses
<1>39. DOMAIN h \subseteq DOMAIN g
  BY <1>31 DEF Rewired
<1>40. OnePlace(cs, h) => OnePlace(ds, g)
  <2> SUFFICES ASSUME OnePlace(cs, h) PROVE OnePlace(ds, g)
    OBVIOUS
  <2>1. PICK values : values = g0.value
    OBVIOUS
  <2>2. Sprouted(m, n0, values) /\ DOMAIN values = 1 .. c
    BY <1>21, <1>22, <1>23, <2>1 DEF Generated
  <2>3. Sprouted(h, g, values)
    <3>1. PICK new : new = DOMAIN n0 \ DOMAIN m
      OBVIOUS
    <3>2. DOMAIN g \ DOMAIN h = new /\ \A a \in new : g[a] = n0[a]
      BY <1>16, <1>31, <3>1
    <3> QED
      BY <2>2, <3>1, <3>2 DEF Sprouted, Placed
  <2>4. ASSUME NEW t \in FixedSlots(cs, h, k), Holds(cs, h, t) = k
        PROVE  \E j \in DOMAIN values : hits[j] = t /\ val[t] = values[j]
    <3>1. t \in holed /\ t \in slots
      BY <1>1, <1>2, <2>4
    <3>2. PICK j \in 1 .. c : j = CHOOSE x \in DOMAIN hits : hits[x] = t
      BY <1>19, <1>20, <3>1
    <3>3. hits[j] = t
      BY <1>19, <1>20, <3>1, <3>2
    <3>4. val[t] = values[j]
      BY <1>20, <1>25, <1>26, <1>30, <2>1, <3>1, <3>2
    <3> QED
      BY <2>2, <3>3, <3>4
  <2>5. \A t \in FixedSlots(cs, h, k) :
          Holds(cs, h, t) = k /\ val[t] \in Arrays => \E j \in DOMAIN values : hits[j] = t /\ val[t] = values[j]
    BY <2>4
  <2> QED
    BY ONLY <1>35, <2>3, <2>5, OnePlace(cs, h), FixKeepsPlaces
<1> QED
  BY <1>27, <1>28, <1>34, <1>36, <1>37, <1>38, <1>39, <1>40 DEF ClosedUp

LEMMA RemovedIs ==
  ASSUME NEW cs, NEW h, Solid(cs, h), NEW k \in 1 .. Len(cs), Len(cs) > 1, NEW ms, ms = RemoveAt(cs, k)
  PROVE  /\ Solid(ms, h) /\ Len(ms) = Len(cs) - 1 /\ DOMAIN ms = 1 .. (Len(cs) - 1)
         /\ \A i \in 1 .. (Len(cs) - 1) : ms[i] = IF i < k THEN cs[i] ELSE cs[i + 1]
         /\ \A i \in 1 .. (Len(cs) - 1) : Uses(ms, h, i) = IF i < k THEN Uses(cs, h, i) ELSE Uses(cs, h, i + 1)
<1>1. cs \in Seq(Call)
  BY DEF Solid, TestCase
<1>2. PICK n \in Nat : n = Len(cs) /\ DOMAIN cs = 1 .. n /\ n \in 1 .. MaxCalls /\ n > 1
  <2>1. PICK n \in Nat : n = Len(cs) /\ DOMAIN cs = 1 .. n
    BY ONLY <1>1
  <2> QED
    BY <2>1 DEF Solid, TestCase
<1>3. /\ ms \in Seq(Call) /\ Len(ms) = n - 1 /\ DOMAIN ms = 1 .. (n - 1)
      /\ \A i \in 1 .. (n - 1) : ms[i] = IF i < k THEN cs[i] ELSE cs[i + 1]
  <2>1. PICK S : S = Call
    OBVIOUS
  <2>2. cs \in Seq(S) /\ k \in 1 .. Len(cs)
    BY <1>1, <2>1
  <2>3. /\ RemoveAt(cs, k) \in Seq(S)
        /\ Len(RemoveAt(cs, k)) = Len(cs) - 1
        /\ DOMAIN RemoveAt(cs, k) = 1 .. (Len(cs) - 1)
        /\ \A i \in 1 .. (Len(cs) - 1) : RemoveAt(cs, k)[i] = IF i < k THEN cs[i] ELSE cs[i + 1]
    BY ONLY <2>2, RemoveAtIs
  <2> QED
    BY <1>2, <2>1, <2>3
<1>4. \A i \in 1 .. (n - 1) : i \in 1 .. n /\ i + 1 \in 1 .. n
  BY <1>2
<1>5. \A i \in DOMAIN cs : CallValues(cs[i]) \cap Arrays \subseteq DOMAIN h /\ Len(cs[i].args) <= MostArguments
  BY SolidIs DEF Solid
<1>6. \A i \in 1 .. (n - 1) : CallValues(ms[i]) \cap Arrays \subseteq DOMAIN h /\ Len(ms[i].args) <= MostArguments
  BY <1>2, <1>3, <1>4, <1>5
<1>7. n - 1 \in 1 .. MaxCalls
  BY <1>2, SizesAssumption
<1>8. Solid(ms, h)
  BY <1>3, <1>6, <1>7 DEF Solid, TestCase
<1>9. \A i \in 1 .. (n - 1) : Uses(ms, h, i) = IF i < k THEN Uses(cs, h, i) ELSE Uses(cs, h, i + 1)
  BY <1>3, UsesOfCall
<1> QED
  BY <1>2, <1>3, <1>8, <1>9

LEMMA RemovedPlaces ==
  ASSUME NEW cs, NEW h, Solid(cs, h), NEW k \in Nat, NEW l \in Nat, Len(cs) = l + 1,
         NEW ms, DOMAIN ms = 1 .. l, \A i \in 1 .. l : ms[i] = IF i < k THEN cs[i] ELSE cs[i + 1],
         OnePlace(cs, h)
  PROVE  OnePlace(ms, h)
<1>1. DOMAIN cs = 1 .. (l + 1) /\ DOMAIN cs \subseteq Position /\ \A i \in 1 .. (l + 1) : cs[i] \in Call
  BY SolidIs
<1>2. DOMAIN ms \subseteq Position
  BY <1>1
<1>3. PICK to : to = [t \in (1 .. (l + 1)) \X Nat |-> IF t[1] < k THEN t ELSE <<t[1] - 1, t[2]>>]
  OBVIOUS
<1>4. \A i \in 1 .. (l + 1) : \A n \in Nat : to[<<i, n>>] = IF i < k THEN <<i, n>> ELSE <<i - 1, n>>
  BY <1>3
<1>5. \A i \in 1 .. (l + 1) : DOMAIN Operands(cs[i]) \subseteq Nat
  BY <1>1, OperandNumbers
<1>6. ASSUME NEW j \in DOMAIN ms, NEW n \in DOMAIN Operands(ms[j])
      PROVE  \E i \in DOMAIN cs : \E m \in DOMAIN Operands(cs[i]) :
               Operands(cs[i])[m] = Operands(ms[j])[n] /\ to[<<i, m>>] = <<j, n>>
  <2>1. CASE j < k
    <3>1. j \in 1 .. (l + 1) /\ ms[j] = cs[j]
      BY <2>1
    <3> QED
      BY <1>1, <1>4, <1>5, <2>1, <3>1
  <2>2. CASE ~(j < k)
    <3>1. PICK i \in 1 .. (l + 1) : i = j + 1
      OBVIOUS
    <3>2. ms[j] = cs[i] /\ ~(i < k) /\ i - 1 = j
      BY <2>2, <3>1
    <3>3. to[<<i, n>>] = <<j, n>>
      BY <1>4, <1>5, <3>2
    <3> QED
      BY <1>1, <3>2, <3>3
  <2> QED
    BY <2>1, <2>2
<1>7. Moves(cs, ms, to)
  BY <1>6 DEF Moves
<1>8. Solid(cs, h) /\ OnePlace(cs, h)
  OBVIOUS
<1> QED
  BY ONLY <1>2, <1>7, <1>8, MovedPlaces

LEMMA RemoveFunctionCallRemoves ==
  ASSUME Sound, NEW k \in DOMAIN calls, RemoveFunctionCall(k)
  PROVE  /\ Sound' /\ (Loopless(heap) => Loopless(heap'))
         /\ \E fill \in [Refs!Users(k) -> SUBSET Earlier(MaxCalls - 1)] :
                     (\A i \in Refs!Users(k) : fill[i] \subseteq Earlier(i)) /\ Refs!Remove(k, fill)
         /\ OnePlace(calls, heap) => Tidied
<1>1. PICK cs : cs = calls
  OBVIOUS
<1>2. PICK h : h = heap
  OBVIOUS
<1>3. /\ Solid(cs, h) /\ Backward(cs, h) /\ Len(cs) \in Nat /\ DOMAIN cs = 1 .. Len(cs)
      /\ Len(cs) > 1 /\ Len(cs) <= MaxCalls
  BY <1>1, <1>2, SolidIs, SizesAssumption DEF Sound, Position, RemoveFunctionCall
<1>4. k \in 1 .. Len(cs) /\ k \in Position /\ k \in Nat
  BY <1>1, <1>3, SizesAssumption DEF Position
<1>5. PICK ms : ms = RemoveAt(cs, k)
  OBVIOUS
<1>6. PICK r \in FixRemoved(ms, h, k) : Become(r.calls, r.heap, "RemoveFunctionCall")
  BY <1>1, <1>2, <1>5 DEF RemoveFunctionCall
<1>7. PICK l \in Nat : l = Len(cs) - 1 /\ l >= 1 /\ l + 1 <= MaxCalls
  <2>1. PICK n \in Nat : n = Len(cs)
    BY <1>3
  <2>2. n > 1 /\ n <= MaxCalls
    BY <1>3, <2>1
  <2>3. n - 1 \in Nat /\ n - 1 >= 1 /\ (n - 1) + 1 <= MaxCalls
    BY <2>2, SizesAssumption
  <2> QED
    BY <2>1, <2>3
<1>8. /\ Solid(ms, h) /\ Len(ms) = l /\ DOMAIN ms = 1 .. l
      /\ \A i \in 1 .. l : ms[i] = IF i < k THEN cs[i] ELSE cs[i + 1]
      /\ \A i \in 1 .. l : Uses(ms, h, i) = IF i < k THEN Uses(cs, h, i) ELSE Uses(cs, h, i + 1)
  <2>1. Solid(cs, h) /\ k \in 1 .. Len(cs) /\ Len(cs) > 1
    BY <1>3, <1>4
  <2>2. /\ Solid(ms, h) /\ Len(ms) = Len(cs) - 1 /\ DOMAIN ms = 1 .. (Len(cs) - 1)
        /\ \A i \in 1 .. (Len(cs) - 1) : ms[i] = IF i < k THEN cs[i] ELSE cs[i + 1]
        /\ \A i \in 1 .. (Len(cs) - 1) : Uses(ms, h, i) = IF i < k THEN Uses(cs, h, i) ELSE Uses(cs, h, i + 1)
    BY ONLY <2>1, <1>5, RemovedIs
  <2> QED
    BY <1>7, <2>2
<1>9. \A i \in 1 .. (l + 1) : Uses(cs, h, i) \subseteq Earlier(i)
  BY <1>3, <1>7 DEF Backward
<1>10. k \in 1 .. (l + 1)
  BY <1>3, <1>4, <1>7
<1>11. \A i \in 1 .. (k - 1) : i \in 1 .. l /\ i < k
  BY <1>10
<1>12. PICK f : f = [v \in Value |-> ShiftDown(k, v)]
  OBVIOUS
<1>13. ClosedUp(ms, h, k, f, r.calls, r.heap)
  <2>1. \A i \in 1 .. (k - 1) : Uses(ms, h, i) \subseteq Earlier(i)
    BY <1>8, <1>9, <1>11
  <2>2. Solid(ms, h) /\ k \in 1 .. (Len(ms) + 1) /\ k \in Position
    BY <1>4, <1>8, <1>10
  <2> QED
    BY ONLY <2>1, <2>2, <1>6, <1>12, FixRemovedIs
<1>14. PICK ds : ds = r.calls
  OBVIOUS
<1>15. PICK m : m = r.heap
  OBVIOUS
<1>16. /\ Solid(ds, m) /\ DOMAIN ds = 1 .. l
       /\ \A i \in 1 .. l : ds[i].callee = ms[i].callee
       /\ \A i \in 1 .. (k - 1) : Uses(ds, m, i) = Uses(ms, h, i)
       /\ \A i \in k .. l : UsesMoved(k, f, Uses(ms, h, i), Uses(ds, m, i), i)
  BY <1>8, <1>13, <1>14, <1>15 DEF ClosedUp
<1>17. PICK n : n = Restrict(m, LiveArrays(ds, m))
  OBVIOUS
<1>18. calls' = ds /\ heap' = n /\ lastMutator' = "RemoveFunctionCall"
  BY <1>6, <1>14, <1>15, <1>17 DEF Become
<1>19. Solid(ds, n) /\ \A i \in 1 .. l : Uses(ds, n, i) = Uses(ds, m, i)
  BY <1>16, <1>17, Restricted
<1>20. ASSUME NEW i \in 1 .. l, i < k
       PROVE  Uses(ds, n, i) = Uses(cs, h, i)
  <2>1. i \in 1 .. (k - 1)
    BY <1>4, <1>20
  <2> QED
    BY <1>8, <1>16, <1>19, <1>20, <2>1
<1>21. ASSUME NEW i \in 1 .. l, ~(i < k)
       PROVE  UsesMoved(k, f, Uses(cs, h, i + 1), Uses(ds, n, i), i)
  <2>1. i \in k .. l
    BY <1>4, <1>21
  <2> QED
    BY <1>8, <1>16, <1>19, <1>21, <2>1
<1>22. \A j \in Position : f[j] = Refs!ShiftDown(k, j)
  <2> TAKE j \in Position
  <2>1. j \in Value
    BY DEF Value
  <2> QED
    BY <1>12, <2>1 DEF ShiftDown, Refs!ShiftDown
<1>23. ASSUME NEW i \in 1 .. l, ~(i < k)
       PROVE  /\ {Refs!ShiftDown(k, j) : j \in Uses(cs, h, i + 1) \ {k}} \subseteq Uses(ds, n, i)
              /\ \A j \in Uses(ds, n, i) :
                   \/ j \in {Refs!ShiftDown(k, u) : u \in Uses(cs, h, i + 1) \ {k}}
                   \/ k \in Uses(cs, h, i + 1) /\ j \in Earlier(i)
              /\ Uses(ds, n, i) \subseteq Earlier(i)
  <2>1. PICK U : U = Uses(cs, h, i + 1)
    OBVIOUS
  <2>2. PICK W : W = Uses(ds, n, i)
    OBVIOUS
  <2>3. UsesMoved(k, f, U, W, i)
    BY <1>21, <1>23, <2>1, <2>2
  <2>4. U \subseteq Position /\ U \subseteq Earlier(i + 1)
    BY <1>9, <2>1 DEF Uses
  <2>5. \A j \in U \ {k} : Refs!ShiftDown(k, j) \in W
    BY <1>22, <2>3, <2>4 DEF UsesMoved
  <2>6. \A j \in W : (\E u \in U \ {k} : j = Refs!ShiftDown(k, u)) \/ (k \in U /\ j \in Earlier(i))
    BY <1>22, <2>3, <2>4 DEF UsesMoved
  <2>7. \A u \in Earlier(i + 1) : u # k => Refs!ShiftDown(k, u) \in Earlier(i)
    BY <1>4, <1>23 DEF Earlier, Refs!ShiftDown
  <2>8. W \subseteq Earlier(i)
    BY <2>4, <2>6, <2>7
  <2>9. \A j \in W : j \in {Refs!ShiftDown(k, u) : u \in U \ {k}} \/ (k \in U /\ j \in Earlier(i))
    BY ONLY <2>6
  <2>10. {Refs!ShiftDown(k, j) : j \in U \ {k}} \subseteq W
    BY ONLY <2>5
  <2> QED
    BY <2>1, <2>2, <2>8, <2>9, <2>10
<1>24. Backward(ds, n)
  <2>1. \A i \in 1 .. l : i \in 1 .. (l + 1)
    BY <1>7
  <2> QED
    BY <1>9, <1>16, <1>20, <1>23, <2>1 DEF Backward
<1>25. Sound'
  BY <1>18, <1>19, <1>24 DEF Sound, MutatorName
<1>26. PICK p : p = RefsOf(cs, h)
  OBVIOUS
<1>27. PICK q : q = RefsOf(ds, n)
  OBVIOUS
<1>28. /\ p.refs = [i \in 1 .. (l + 1) |-> Uses(cs, h, i)] /\ p.callees = [i \in 1 .. (l + 1) |-> cs[i].callee]
       /\ Len(p.refs) = l + 1
  <2>1. DOMAIN cs = 1 .. (l + 1)
    BY <1>3, <1>7
  <2>2. p.refs = [i \in 1 .. (l + 1) |-> Uses(cs, h, i)] /\ p.callees = [i \in 1 .. (l + 1) |-> cs[i].callee]
    BY <1>26, <2>1 DEF RefsOf
  <2>3. l + 1 \in Nat
    BY <1>7
  <2> QED
    BY <2>2, <2>3
<1>29. q.refs = [i \in 1 .. l |-> Uses(ds, n, i)] /\ q.callees = [i \in 1 .. l |-> ds[i].callee]
  BY <1>16, <1>27 DEF RefsOf
<1>30. PICK users : users = {i \in k .. l : k \in p.refs[i + 1]}
  OBVIOUS
<1>31. Refs!Users(k) = users
  <2>1. RefsOf(calls, heap) = p
    BY <1>1, <1>2, <1>26
  <2>2. Len(p.refs) - 1 = l
    BY <1>7, <1>28
  <2> QED
    BY <1>30, <2>1, <2>2 DEF Refs!Users
<1>32. PICK fill : fill = [i \in users |-> Uses(ds, n, i)]
  OBVIOUS
<1>33. \A i \in users : i \in 1 .. l /\ ~(i < k) /\ fill[i] = Uses(ds, n, i) /\ fill[i] \subseteq Earlier(i)
  BY <1>4, <1>23, <1>30, <1>32
<1>34. fill \in [users -> SUBSET Earlier(MaxCalls - 1)]
  <2>1. \A i \in 1 .. l : Earlier(i) \subseteq Earlier(MaxCalls - 1)
    BY <1>7, SizesAssumption DEF Earlier
  <2> QED
    BY <1>32, <1>33, <2>1
<1>35. \A i \in 1 .. l : i + 1 \in 1 .. (l + 1) /\ i \in 1 .. (l + 1)
  BY <1>7
<1>36. q.refs = [i \in 1 .. l |->
                   IF i < k THEN p.refs[i]
                   ELSE {Refs!ShiftDown(k, j) : j \in p.refs[i + 1] \ {k}}
                          \cup (IF i \in users THEN fill[i] ELSE {})]
  <2>1. ASSUME NEW i \in 1 .. l
        PROVE  Uses(ds, n, i) = IF i < k THEN p.refs[i]
                                ELSE {Refs!ShiftDown(k, j) : j \in p.refs[i + 1] \ {k}}
                                       \cup (IF i \in users THEN fill[i] ELSE {})
    <3>1. CASE i < k
      BY <1>20, <1>28, <1>35, <3>1
    <3>2. CASE ~(i < k)
      <4>1. PICK U : U = p.refs[i + 1]
        OBVIOUS
      <4>2. U = Uses(cs, h, i + 1)
        BY <1>28, <1>35, <4>1
      <4>3. PICK T : T = {Refs!ShiftDown(k, j) : j \in U \ {k}}
        OBVIOUS
      <4>4. PICK W : W = Uses(ds, n, i)
        OBVIOUS
      <4>5. T \subseteq W /\ \A j \in W : j \in T \/ k \in U
        BY <1>23, <3>2, <4>2, <4>3, <4>4
      <4>6. i \in users <=> k \in U
        <5>1. i \in k .. l
          BY <1>4, <3>2
        <5> QED
          BY <1>30, <4>1, <5>1
      <4>7. W = T \cup (IF i \in users THEN fill[i] ELSE {})
        BY <1>33, <4>4, <4>5, <4>6
      <4> QED
        BY <3>2, <4>1, <4>3, <4>4, <4>7
    <3> QED
      BY <3>1, <3>2
  <2> QED
    BY <1>29, <2>1
<1>37. q.callees = [i \in 1 .. l |-> IF i < k THEN p.callees[i] ELSE p.callees[i + 1]]
  <2>1. ASSUME NEW i \in 1 .. l
        PROVE  ds[i].callee = IF i < k THEN p.callees[i] ELSE p.callees[i + 1]
    BY <1>8, <1>16, <1>28, <1>35
  <2> QED
    BY <1>29, <2>1
<1>38. Refs!Remove(k, fill)
  <2>1. RefsOf(calls, heap) = p /\ RefsOf(calls, heap)' = q
    BY <1>1, <1>2, <1>18, <1>26, <1>27
  <2>2. Len(p.refs) > 1 /\ Len(p.refs) - 1 = l
    BY <1>7, <1>28
  <2> QED
    BY <1>31, <1>36, <1>37, <2>1, <2>2 DEF Refs!Remove
<1>39. \A i \in users : fill[i] \subseteq Earlier(i)
  BY <1>33
<1>40. Loopless(h) => Loopless(n)
  <2>1. /\ Beyond(h, m) /\ DOMAIN h \subseteq DOMAIN m
        /\ \A a \in DOMAIN h : Range(m[a]) \cap DOMAIN h \subseteq Range(h[a])
    BY <1>13, <1>15 DEF ClosedUp
  <2>2. Loopless(h) => Loopless(m)
    BY ONLY <2>1, FixedLoopless
  <2>3. Loopless(m) => Loopless(n)
    BY <1>17, RestrictedLoopless DEF LiveArrays
  <2> QED
    BY <2>2, <2>3
<1>41. OnePlace(cs, h) => Tidied
  <2> SUFFICES ASSUME OnePlace(cs, h) PROVE Tidied
    OBVIOUS
  <2>1. PICK t \in Nat : t = Len(cs) /\ l = t - 1
    BY <1>3, <1>7
  <2>2. /\ Solid(cs, h) /\ k \in Nat /\ l \in Nat /\ Len(cs) = l + 1 /\ DOMAIN ms = 1 .. l
        /\ (\A i \in 1 .. l : ms[i] = IF i < k THEN cs[i] ELSE cs[i + 1]) /\ OnePlace(cs, h)
    BY <1>3, <1>4, <1>8, <2>1
  <2>3. OnePlace(ms, h)
    BY ONLY <2>2, RemovedPlaces
  <2>4. OnePlace(ds, m) /\ Solid(ds, m)
    BY <1>13, <1>14, <1>15, <2>3 DEF ClosedUp
  <2>5. DOMAIN m \subseteq Arrays
    BY <2>4, SolidIs DEF Whole, IsHeap
  <2> QED
    BY <1>17, <1>18, <2>4, <2>5 DEF Tidied
<1> QED
  BY <1>1, <1>2, <1>18, <1>25, <1>31, <1>34, <1>38, <1>39, <1>40, <1>41

(* The session starts, and every step goes on, with a sound test case; the step
   edits references as CallRefs allows and makes no array contain itself. *)
LEMMA StartsSound ==
  ASSUME Init
  PROVE  Sound /\ Refs!Init
<1>1. PICK seed \in Seeds : calls = seed.calls /\ heap = seed.heap
  BY DEF Init
<1>2. /\ TestCase(calls, heap)
      /\ \A i \in DOMAIN calls : Uses(calls, heap, i) \subseteq Earlier(i)
  BY <1>1, SeedsAssumption DEF Earlier
<1>3. /\ \A a \in DOMAIN heap : Len(heap[a]) <= LongestArray
      /\ \A i \in DOMAIN calls : Len(calls[i].args) <= MostArguments
  BY <1>1, Sizes
<1>4. Sound
  BY <1>2, <1>3 DEF Sound, Solid, Sized, Backward, Init, MutatorName
<1>5. Refs!Init
  <2>1. PICK s : s = RefsOf(calls, heap)
    OBVIOUS
  <2>2. s \in {RefsOf(r.calls, r.heap) : r \in Seeds}
    BY <1>1, <2>1
  <2> QED
    BY <2>1, <2>2 DEF Refs!Init
<1> QED
  BY <1>4, <1>5

LEMMA CallsOfRefs ==
  ASSUME Sound
  PROVE  /\ Len(RefsOf(calls, heap).refs) = Len(calls)
         /\ Len(calls) \in Nat /\ DOMAIN calls = 1 .. Len(calls)
<1>1. PICK cs : cs = calls
  OBVIOUS
<1>2. PICK h : h = heap
  OBVIOUS
<1>3. Solid(cs, h)
  BY <1>1, <1>2 DEF Sound
<1>4. PICK l \in Nat : l = Len(cs) /\ DOMAIN cs = 1 .. l
  BY <1>3, SolidIs, SizesAssumption DEF Position
<1>5. PICK p : p = RefsOf(cs, h).refs
  OBVIOUS
<1>6. p = [i \in 1 .. l |-> Uses(cs, h, i)]
  BY <1>4, <1>5 DEF RefsOf
<1>7. Len(p) = l
  BY <1>6
<1> QED
  BY <1>1, <1>2, <1>4, <1>5, <1>7

(* What a step leaves. *)
Keeps == Sound' /\ (Loopless(heap) => Loopless(heap')) /\ (Refs!Next \/ UNCHANGED Refs!vars)

LEMMA OneCallKeeps ==
  ASSUME Sound, NEW i \in DOMAIN calls, EditsOne(i)
  PROVE  Keeps
<1>1. i \in 1 .. Len(RefsOf(calls, heap).refs)
  BY CallsOfRefs
<1>2. PICK new \in SUBSET Earlier(i) : Refs!Rewrite(i, new)
  BY DEF EditsOne
<1>3. new \in SUBSET Refs!Earlier(i)
  BY <1>2 DEF Earlier, Refs!Earlier
<1>4. Refs!Next
  BY <1>1, <1>2, <1>3 DEF Refs!Next
<1> QED
  BY <1>4 DEF Keeps, EditsOne

LEMMA AddKeeps ==
  ASSUME Sound, NEW k \in 1 .. (Len(calls) + 1), AddFunctionCall(k)
  PROVE  Keeps
<1>1. k \in 1 .. (Len(RefsOf(calls, heap).refs) + 1)
  BY CallsOfRefs
<1>2. /\ Sound' /\ (Loopless(heap) => Loopless(heap'))
      /\ \E f \in Functions : \E new \in SUBSET Earlier(k) : Refs!Insert(k, f, new)
  BY AddFunctionCallInserts
<1>3. Earlier(k) = Refs!Earlier(k)
  BY DEF Earlier, Refs!Earlier
<1>4. Refs!Next
  BY <1>1, <1>2, <1>3 DEF Refs!Next
<1> QED
  BY <1>2, <1>4 DEF Keeps

LEMMA RemoveKeeps ==
  ASSUME Sound, NEW k \in DOMAIN calls, RemoveFunctionCall(k)
  PROVE  Keeps
<1>1. k \in 1 .. Len(RefsOf(calls, heap).refs)
  BY CallsOfRefs
<1>2. /\ Sound' /\ (Loopless(heap) => Loopless(heap'))
      /\ \E fill \in [Refs!Users(k) -> SUBSET Earlier(MaxCalls - 1)] :
           (\A i \in Refs!Users(k) : fill[i] \subseteq Earlier(i)) /\ Refs!Remove(k, fill)
  BY RemoveFunctionCallRemoves
<1>3. \A i : Earlier(i) = Refs!Earlier(i)
  BY DEF Earlier, Refs!Earlier
<1>4. \E fill \in [Refs!Users(k) -> SUBSET Refs!Earlier(MaxCalls - 1)] :
        (\A i \in Refs!Users(k) : fill[i] \subseteq Refs!Earlier(i)) /\ Refs!Remove(k, fill)
  BY <1>2, <1>3
<1>5. Refs!Next
  BY <1>1, <1>4 DEF Refs!Next
<1> QED
  BY <1>2, <1>5 DEF Keeps

LEMMA StepKeeps ==
  ASSUME Sound, [Next]_vars
  PROVE  Keeps
<1>1. ASSUME NEW k \in 1 .. (Len(calls) + 1), AddFunctionCall(k)
      PROVE  Keeps
  BY <1>1, AddKeeps
<1>2. ASSUME NEW k \in DOMAIN calls, RemoveFunctionCall(k)
      PROVE  Keeps
  BY <1>2, RemoveKeeps
<1>3. ASSUME NEW i \in DOMAIN calls,
             \/ MutateThis(i) \/ MutateCtor(i) \/ AddArgument(i)
             \/ RemoveArgument(i) \/ MutateArgument(i)
      PROVE  Keeps
  <2>1. EditsOne(i)
    BY <1>3, MutateThisEdits, MutateCtorEdits, AddArgumentEdits, RemoveArgumentEdits,
       MutateArgumentEdits
  <2> QED
    BY <2>1, OneCallKeeps
<1>4. CASE SaveAndLoad
  BY <1>4, SaveAndLoadKeeps DEF Keeps
<1>5. CASE UNCHANGED vars
  BY <1>5 DEF vars, Keeps, Sound, Refs!vars
<1> QED
  BY <1>1, <1>2, <1>3, <1>4, <1>5 DEF Next

(* In every session the test case stays sound. *)
THEOREM SoundAlways == Spec => []Sound
<1>1. Init => Sound
  BY StartsSound
<1>2. Sound /\ [Next]_vars => Sound'
  BY StepKeeps DEF Keeps
<1> QED
  BY <1>1, <1>2, PTL DEF Spec

(* TypeOK holds for every choice of the options, the functions and the test
   cases a session starts from: sizes stay within the options, or what was read,
   and no value dangles. *)
THEOREM MutatorTypes == Spec => []TypeOK
<1>1. Sound => TypeOK
  BY DEF Sound, Solid, Sized, TypeOK
<1> QED
  BY <1>1, SoundAlways, PTL

(* No placeholder ever refers to its own call, to a later one or to none,
   whatever the fixer rewrote in shared arrays. *)
THEOREM PlaceholdersStayBackward == Spec => []BackwardRefs
<1>1. ASSUME Sound PROVE BackwardRefs
  <2>1. PICK cs : cs = calls
    OBVIOUS
  <2>2. PICK h : h = heap
    OBVIOUS
  <2>3. PICK l \in Nat : l = Len(cs) /\ DOMAIN cs = 1 .. l /\ Len(RefsOf(cs, h).refs) = l
    BY <1>1, <2>1, <2>2, CallsOfRefs
  <2>4. \A i \in 1 .. l : RefsOf(cs, h).refs[i] = Uses(cs, h, i)
    BY <2>3 DEF RefsOf
  <2>5. \A i \in 1 .. l : Uses(cs, h, i) \subseteq Refs!Earlier(i)
    BY <1>1, <2>1, <2>2, <2>3 DEF Sound, Backward, Earlier, Refs!Earlier
  <2> QED
    BY <2>1, <2>2, <2>3, <2>4, <2>5 DEF BackwardRefs, Refs!BackwardRefs
<1> QED
  BY <1>1, SoundAlways, PTL

(* The mutators implement CallRefs: each step of the mutator inserts a call,
   removes one, changes what one call uses, or changes no reference at all. *)
THEOREM MutationEditsReferences == Spec => EditsReferences
<1>1. Init => Refs!Init
  BY StartsSound
<1>2. Sound /\ [Next]_vars => [Refs!Next]_(Refs!vars)
  BY StepKeeps DEF Keeps
<1> QED
  BY <1>1, <1>2, SoundAlways, PTL DEF Spec, EditsReferences, Refs!Spec

(* Mutation never creates a cycle: only a test case that was read with one has one. *)
THEOREM MutationMakesNoCycle == Spec => CyclesOnlyRead
<1>1. Acyclic <=> Loopless(heap)
  BY DEF Acyclic, Inside, Loopless
<1>2. (Acyclic <=> Loopless(heap))'
  BY DEF Acyclic, Inside, Loopless
<1>3. Sound /\ [Next]_vars => [Acyclic => Acyclic']_vars
  BY <1>1, <1>2, StepKeeps DEF Keeps
<1> QED
  BY <1>3, SoundAlways, PTL DEF Spec, CyclesOnlyRead
-----------------------------------------------------------------------------
(* A tree stays a tree: the mutators of one call. *)

(* In a tree every array is visited, so that each place of an array counts. *)
LEMMA TreeHasPlaces ==
  ASSUME NEW cs, NEW h, Solid(cs, h), TreeOf(cs, h)
  PROVE  OnePlace(cs, h)
<1> DEFINE P(a) == {s \in FixedSlots(cs, h, 1) : Holds(cs, h, s) = a}
<1>1. /\ Len(cs) \in Nat /\ DOMAIN cs = 1 .. Len(cs) /\ 1 \in 1 .. (Len(cs) + 1)
      /\ \A i \in DOMAIN cs : cs[i] \in Call /\ CallValues(cs[i]) \cap Arrays \subseteq DOMAIN h
      /\ Whole(h)
  BY SolidIs, SizesAssumption DEF Position
<1>2. DOMAIN cs \cap DOMAIN h = {} /\ DOMAIN h \subseteq Arrays
  BY <1>1, CallNoArray DEF Whole, IsHeap
<1>3. \A a \in DOMAIN h : IsFiniteSet(P(a)) /\ Cardinality(P(a)) = 1
  <2> TAKE a \in DOMAIN h
  <2>1. IsFiniteSet(FixedSlots(cs, h, 1))
    BY <1>1, SlotsFinite
  <2>2. P(a) \in SUBSET FixedSlots(cs, h, 1)
    OBVIOUS
  <2>3. IsFiniteSet(P(a))
    BY <2>1, <2>2, FS_Subset
  <2> QED
    BY <2>3 DEF TreeOf
<1>4. \A a \in DOMAIN h : \E s : P(a) = {s}
  BY <1>3, FS_Singleton
<1>5. /\ \A i \in DOMAIN cs : Store(cs, h)[i] = Operands(cs[i])
      /\ \A a \in DOMAIN h : Store(cs, h)[a] = h[a]
  BY <1>2 DEF Store
<1>6. DOMAIN h \subseteq Visited(cs, h, 1)
  <2> SUFFICES ASSUME NEW a \in DOMAIN h PROVE a \in Visited(cs, h, 1)
    OBVIOUS
  <2>1. PICK s \in FixedSlots(cs, h, 1) : Holds(cs, h, s) = a
    BY <1>4
  <2>0. PICK x \in DOMAIN cs \cup Visited(cs, h, 1) : \E k \in DOMAIN Store(cs, h)[x] :
          s = <<x, k>> /\ Holds(cs, h, s) = Store(cs, h)[x][k]
    BY SlotHolds
  <2>2. PICK k \in DOMAIN Store(cs, h)[x] : Holds(cs, h, s) = Store(cs, h)[x][k]
    BY <2>0
  <2>3. a = Store(cs, h)[x][k] /\ a \in Arrays
    BY <1>2, <2>1, <2>2
  <2>4. CASE x \in DOMAIN cs
    <3>1. a \in Range(Operands(cs[x]))
      BY <1>5, <2>2, <2>3, <2>4 DEF Range
    <3>2. a \in CallValues(cs[x])
      BY <1>1, <2>3, <2>4, <3>1, OperandsAre
    <3>3. a \in CallReach(cs, h, x)
      BY <3>2, ReachIsClosed DEF CallReach
    <3> QED
      BY <1>1, <2>4, <3>3, VisitedIs
  <2>5. CASE x \in Visited(cs, h, 1)
    <3>1. PICK i \in 1 .. Len(cs) : x \in CallReach(cs, h, i)
      BY <2>5, VisitedIs
    <3>2. x \in DOMAIN h
      BY <2>5, VisitedIs
    <3>3. a \in Range(h[x])
      BY <1>5, <2>2, <2>3, <3>2 DEF Range
    <3>4. a \in CallReach(cs, h, i)
      BY <3>1, <3>3, ReachIsClosed DEF CallReach, Closed
    <3> QED
      BY <3>4, VisitedIs
  <2> QED
    BY <2>4, <2>5
<1>7. PICK at : at = [a \in Arrays |-> CHOOSE s : s \in P(a)]
  OBVIOUS
<1>8. ASSUME NEW x \in DOMAIN cs \cup DOMAIN h, NEW k \in DOMAIN Store(cs, h)[x], Store(cs, h)[x][k] \in Arrays
      PROVE  at[Store(cs, h)[x][k]] = <<x, k>>
  <2>1. PICK a \in Arrays : a = Store(cs, h)[x][k]
    BY <1>8
  <2>2. <<x, k>> \in P(a)
    <3>1. x \in DOMAIN cs \cup Visited(cs, h, 1)
      BY <1>6
    <3> QED
      BY <1>8, <2>1, <3>1, HeldBySlot
  <2>3. a \in DOMAIN h
    <3>1. CASE x \in DOMAIN h
      <4>1. a \in Range(h[x])
        BY <1>5, <2>1, <3>1 DEF Range
      <4> QED
        BY <1>1, <3>1, <4>1 DEF Whole
    <3>2. CASE x \in DOMAIN cs
      <4>1. a \in Range(Operands(cs[x]))
        BY <1>5, <2>1, <3>2 DEF Range
      <4>2. a \in CallValues(cs[x])
        BY <1>1, <3>2, <4>1, OperandsAre
      <4> QED
        BY <1>1, <3>2, <4>2
    <3> QED
      BY <3>1, <3>2
  <2> HIDE DEF P
  <2>4. (CHOOSE s : s \in P(a)) = <<x, k>>
    BY <1>4, <2>2, <2>3
  <2> QED
    BY <1>7, <2>1, <2>4
<1> QED
  BY <1>8 DEF OnePlace, Placed

(* Only what is live is left, and each of it has a place. *)
LEMMA LiveHasPlace ==
  ASSUME NEW cs, NEW g, NEW h, h = Restrict(g, LiveArrays(cs, g)), Solid(cs, h)
  PROVE  /\ DOMAIN h = LiveArrays(cs, g) /\ \A a \in DOMAIN h : h[a] = g[a]
         /\ DOMAIN h \subseteq Visited(cs, h, 1)
         /\ \A a \in DOMAIN h : \E s \in FixedSlots(cs, h, 1) : Holds(cs, h, s) = a
<1>0. PICK V : V = UNION {CallValues(cs[i]) : i \in DOMAIN cs}
  OBVIOUS
<1>1. PICK L : L = Reach(g, V)
  OBVIOUS
<1>2. L = LiveArrays(cs, g) /\ Closed(g, L) /\ V \cap DOMAIN g \subseteq L
  BY <1>0, <1>1, ReachIsClosed DEF LiveArrays
<1>3. DOMAIN h = L /\ L \subseteq DOMAIN g /\ \A a \in L : h[a] = g[a]
  BY <1>2 DEF Restrict, Closed
<1>4. /\ Len(cs) \in Nat /\ DOMAIN cs = 1 .. Len(cs) /\ \A i \in DOMAIN cs : cs[i] \in Call
      /\ L \subseteq Arrays
  BY <1>3, SolidIs, SizesAssumption DEF Position, Whole, IsHeap
<1>5. L \subseteq Visited(cs, h, 1)
  <2> DEFINE W == Visited(cs, h, 1)
  <2>1. W \subseteq L
    BY <1>3, VisitedIs
  <2>2. V \cap DOMAIN g \subseteq W
    <3> SUFFICES ASSUME NEW i \in DOMAIN cs, NEW a \in CallValues(cs[i]) \cap DOMAIN g PROVE a \in W
      BY <1>0
    <3>1. a \in DOMAIN h
      BY <1>0, <1>2, <1>3
    <3>2. a \in CallReach(cs, h, i)
      BY <3>1, ReachIsClosed DEF CallReach
    <3> QED
      BY <1>4, <3>2, VisitedIs
  <2>3. ASSUME NEW a \in W, NEW b \in Range(g[a]) \cap DOMAIN g PROVE b \in W
    <3>1. PICK i \in 1 .. Len(cs) : a \in CallReach(cs, h, i)
      BY VisitedIs
    <3>2. b \in Range(h[a]) \cap DOMAIN h
      BY <1>2, <1>3, <2>1 DEF Closed
    <3>3. b \in CallReach(cs, h, i)
      BY <3>1, <3>2, ReachIsClosed DEF CallReach, Closed
    <3> QED
      BY <3>3, VisitedIs
  <2> HIDE DEF W
  <2>4. Closed(g, W)
    BY <1>3, <2>1, <2>3 DEF Closed
  <2>5. L \subseteq W
    BY <1>1, <2>2, <2>4, ReachIsLeast
  <2> QED
    BY <2>5 DEF W
<1> DEFINE Named == {a \in L : \E s \in FixedSlots(cs, h, 1) : Holds(cs, h, s) = a}
<1>6. /\ \A i \in DOMAIN cs : Store(cs, h)[i] = Operands(cs[i])
      /\ \A a \in DOMAIN h : Store(cs, h)[a] = h[a]
  <2>1. DOMAIN cs \cap DOMAIN h = {}
    BY CallNoArray
  <2> QED
    BY <2>1 DEF Store
<1>7. ASSUME NEW x \in DOMAIN cs \cup L, NEW k \in DOMAIN Store(cs, h)[x], Store(cs, h)[x][k] \in L
      PROVE  Store(cs, h)[x][k] \in Named
  <2>1. x \in DOMAIN cs \cup Visited(cs, h, 1)
    BY <1>5
  <2>2. Store(cs, h)[x][k] \in Arrays
    BY <1>4, <1>7
  <2>3. <<x, k>> \in FixedSlots(cs, h, 1) /\ Holds(cs, h, <<x, k>>) = Store(cs, h)[x][k]
    BY <2>1, <2>2, HeldBySlot
  <2> QED
    BY <1>7, <2>3
<1>8. V \cap DOMAIN g \subseteq Named
  <2> SUFFICES ASSUME NEW i \in DOMAIN cs, NEW a \in CallValues(cs[i]) \cap DOMAIN g PROVE a \in Named
    BY <1>0
  <2>1. a \in L
    BY <1>0, <1>2
  <2>2. a \in Range(Operands(cs[i]))
    BY <1>4, <2>1, OperandsAre
  <2>3. PICK k \in DOMAIN Operands(cs[i]) : a = Operands(cs[i])[k]
    BY <2>2 DEF Range
  <2> HIDE DEF Named
  <2> QED
    BY <1>6, <1>7, <2>1, <2>3
<1>9. ASSUME NEW a \in L, NEW b \in Range(g[a]) \cap DOMAIN g PROVE b \in Named
  <2>1. b \in L
    BY <1>2 DEF Closed
  <2>2. PICK k \in DOMAIN h[a] : b = h[a][k]
    BY <1>3 DEF Range
  <2> HIDE DEF Named
  <2> QED
    BY <1>3, <1>6, <1>7, <2>1, <2>2
<1>10. Named \subseteq L
  OBVIOUS
<1>11. Closed(g, Named)
  <2> HIDE DEF Named
  <2> QED
    BY <1>3, <1>9, <1>10 DEF Closed
<1>12. L \subseteq Named
  <2> HIDE DEF Named
  <2> QED
    BY <1>1, <1>8, <1>11, ReachIsLeast
<1> QED
  BY <1>2, <1>3, <1>5, <1>12

(* Where each array in use has one place there is a tree. *)
LEMMA SolelyIsTree ==
  ASSUME NEW cs, NEW g, Solely(cs, g), NEW h, h = Restrict(g, LiveArrays(cs, g)), Solid(cs, h)
  PROVE  TreeOf(cs, h)
<1>1. PICK C \in SUBSET DOMAIN g :
        /\ Closed(g, C) /\ \E at : Placed(Store(cs, g), DOMAIN cs \cup C, at)
        /\ \A i \in DOMAIN cs : CallValues(cs[i]) \cap DOMAIN g \subseteq C
  BY DEF Solely
<1>0. PICK at : Placed(Store(cs, g), DOMAIN cs \cup C, at)
  BY <1>1
<1>2. LiveArrays(cs, g) \subseteq C
  <2> DEFINE V == UNION {CallValues(cs[i]) : i \in DOMAIN cs}
  <2>1. V \cap DOMAIN g \subseteq C
    BY <1>1
  <2> HIDE DEF V
  <2>2. Reach(g, V) \subseteq C
    BY <1>1, <2>1, ReachIsLeast
  <2> QED
    BY <2>2 DEF LiveArrays, V
<1>3. /\ DOMAIN h = LiveArrays(cs, g) /\ \A a \in DOMAIN h : h[a] = g[a]
      /\ \A a \in DOMAIN h : \E s \in FixedSlots(cs, h, 1) : Holds(cs, h, s) = a
  BY LiveHasPlace
<1>4. DOMAIN cs \cap DOMAIN h = {} /\ DOMAIN cs \cap DOMAIN g = {}
  BY CallNoArray DEF Solely
<1>5. \A x \in DOMAIN cs \cup DOMAIN h : Store(cs, h)[x] = Store(cs, g)[x]
  BY <1>1, <1>2, <1>3, <1>4 DEF Store
<1>6. Visited(cs, h, 1) \subseteq DOMAIN h
  BY VisitedIs
<1>7. \A i \in DOMAIN cs : i \notin Arrays
  BY CallNoArray
<1> SUFFICES ASSUME NEW a \in DOMAIN h
             PROVE  Cardinality({s \in FixedSlots(cs, h, 1) : Holds(cs, h, s) = a}) = 1
  BY DEF TreeOf
<1>8. PICK s \in FixedSlots(cs, h, 1) : Holds(cs, h, s) = a
  BY <1>3
<1>9. ASSUME NEW t \in FixedSlots(cs, h, 1), Holds(cs, h, t) = a PROVE t = s
  <2>8. PICK x \in DOMAIN cs \cup Visited(cs, h, 1) : \E k \in DOMAIN Store(cs, h)[x] :
          s = <<x, k>> /\ Holds(cs, h, s) = Store(cs, h)[x][k]
    BY SlotHolds
  <2>1. PICK k \in DOMAIN Store(cs, h)[x] : s = <<x, k>> /\ Holds(cs, h, s) = Store(cs, h)[x][k]
    BY <2>8
  <2>9. PICK y \in DOMAIN cs \cup Visited(cs, h, 1) : \E l \in DOMAIN Store(cs, h)[y] :
          t = <<y, l>> /\ Holds(cs, h, t) = Store(cs, h)[y][l]
    BY SlotHolds
  <2>2. PICK l \in DOMAIN Store(cs, h)[y] : t = <<y, l>> /\ Holds(cs, h, t) = Store(cs, h)[y][l]
    BY <2>9
  <2>3. x \in DOMAIN cs \cup DOMAIN h /\ y \in DOMAIN cs \cup DOMAIN h
    BY <1>6
  <2>4. x \in DOMAIN cs \cup C /\ y \in DOMAIN cs \cup C
    BY <1>2, <1>3, <2>3
  <2>5. /\ k \in DOMAIN Store(cs, g)[x] /\ l \in DOMAIN Store(cs, g)[y]
        /\ Store(cs, g)[x][k] = a /\ Store(cs, g)[y][l] = a
    BY <1>5, <1>8, <1>9, <2>1, <2>2, <2>3
  <2>6. a \in Arrays
    BY <1>1, <1>2, <1>3 DEF Solely
  <2>7. at[a] = <<x, k>> /\ at[a] = <<y, l>>
    BY <1>0, <2>4, <2>5, <2>6 DEF Placed
  <2> QED
    BY <2>1, <2>2, <2>7
<1>10. {t \in FixedSlots(cs, h, 1) : Holds(cs, h, t) = a} = {s}
  BY <1>8, <1>9
<1> QED
  BY <1>10, FS_Singleton

(* What a mutator leaves is a tree when no array that is in use has two places. *)
LEMMA BecomesTree ==
  ASSUME Sound', NEW ds, NEW g, Solely(ds, g), NEW name, Become(ds, g, name)
  PROVE  Tree'
<1>1. calls' = ds /\ heap' = Restrict(g, LiveArrays(ds, g))
  BY DEF Become
<1>2. Solid(calls', heap')
  BY DEF Sound
<1>3. TreeOf(calls', heap')
  BY <1>1, <1>2, SolelyIsTree
<1> QED
  BY <1>3 DEF TreeOf, Tree, Places

LEMMA TreePlaces ==
  ASSUME Sound, Tree
  PROVE  OnePlace(calls, heap)
<1>1. TreeOf(calls, heap)
  BY DEF TreeOf, Tree, Places
<1>2. Solid(calls, heap)
  BY DEF Sound
<1> QED
  BY <1>1, <1>2, TreeHasPlaces

LEMMA PlacesAreSole ==
  ASSUME NEW cs, NEW h, DOMAIN h \subseteq Arrays, OnePlace(cs, h)
  PROVE  Solely(cs, h)
<1>1. Closed(h, DOMAIN h)
  BY DEF Closed
<1> QED
  BY <1>1 DEF Solely, OnePlace

(* w takes the place q of a value in g, which is h with new arrays: the arrays R
   of h are not in use any more, and no other array than those that were in q or
   in an array of R has moved. *)
Grafted(h, old, q, g, w, R) ==
  \E at :
    /\ \A x \in DOMAIN g \ R : \A k \in DOMAIN g[x] :
         g[x][k] \in Arrays /\ <<x, k>> # q => g[x][k] \notin R /\ at[g[x][k]] = <<x, k>>
    /\ w \in Arrays => w \in DOMAIN g \ R /\ at[w] = q
    /\ \A a \in DOMAIN h : old[a] # q /\ old[a][1] \notin R => a \notin R /\ at[a] = old[a]

LEMMA OperandGrafted ==
  ASSUME NEW cs, NEW h, Solid(cs, h), NEW old, Placed(Store(cs, h), DOMAIN cs \cup DOMAIN h, old),
         NEW i \in DOMAIN cs, NEW n, NEW g, DOMAIN h \subseteq DOMAIN g, DOMAIN g \subseteq Arrays,
         NEW w, NEW R \in SUBSET DOMAIN h, Grafted(h, old, <<i, n>>, g, w, R),
         NEW ds, DOMAIN ds = DOMAIN cs, \A j \in DOMAIN cs : ds[j] \in Call,
         \A j \in DOMAIN cs : j # i => ds[j] = cs[j],
         \A k \in DOMAIN Operands(ds[i]) :
           \/ k = n /\ Operands(ds[i])[k] = w
           \/ k # n /\ k \in DOMAIN Operands(cs[i]) /\ Operands(ds[i])[k] = Operands(cs[i])[k]
  PROVE  Solely(ds, g)
<1>2. PICK at :
        /\ \A x \in DOMAIN g \ R : \A k \in DOMAIN g[x] :
             g[x][k] \in Arrays /\ <<x, k>> # <<i, n>> => g[x][k] \notin R /\ at[g[x][k]] = <<x, k>>
        /\ w \in Arrays => w \in DOMAIN g \ R /\ at[w] = <<i, n>>
        /\ \A a \in DOMAIN h : old[a] # <<i, n>> /\ old[a][1] \notin R => a \notin R /\ at[a] = old[a]
  BY DEF Grafted
<1>3. /\ \A j \in DOMAIN cs : cs[j] \in Call /\ CallValues(cs[j]) \cap Arrays \subseteq DOMAIN h
      /\ \A j \in DOMAIN cs : j \notin Arrays /\ j \notin DOMAIN g
  BY SolidIs, CallNoArray
<1>4. /\ \A j \in DOMAIN cs : Store(cs, h)[j] = Operands(cs[j]) /\ Store(ds, g)[j] = Operands(ds[j])
      /\ \A a \in DOMAIN g : Store(ds, g)[a] = g[a]
  BY <1>3 DEF Store
<1>5. ASSUME NEW j \in DOMAIN cs, NEW k \in DOMAIN Operands(ds[j]), Operands(ds[j])[k] \in Arrays
      PROVE  Operands(ds[j])[k] \in DOMAIN g \ R /\ at[Operands(ds[j])[k]] = <<j, k>>
  <2>1. PICK u \in Arrays : u = Operands(ds[j])[k]
    BY <1>5
  <2>2. CASE j = i /\ k = n /\ u = w
    BY <1>2, <2>1, <2>2
  <2>3. CASE <<j, k>> # <<i, n>> /\ k \in DOMAIN Operands(cs[j]) /\ u = Operands(cs[j])[k]
    <3>1. old[u] = <<j, k>>
      BY <1>4, <2>3 DEF Placed
    <3>2. u \in DOMAIN h
      <4>1. u \in Range(Operands(cs[j]))
        BY <2>3 DEF Range
      <4>2. PICK c \in Call : c = cs[j]
        BY <1>3
      <4>3. Range(Operands(c)) \cap Arrays = CallValues(c) \cap Arrays
        BY OperandsAre
      <4>4. u \in CallValues(cs[j]) \cap Arrays
        BY <4>1, <4>2, <4>3
      <4> QED
        BY <1>3, <4>4
    <3>3. old[u] # <<i, n>> /\ old[u][1] \notin R
      BY <1>3, <2>3, <3>1
    <3> QED
      BY <1>2, <2>1, <3>1, <3>2, <3>3
  <2> QED
    BY <2>1, <2>2, <2>3
<1>6. Placed(Store(ds, g), DOMAIN ds \cup (DOMAIN g \ R), at)
  BY <1>2, <1>4, <1>5 DEF Placed
<1>7. \A j \in DOMAIN ds : CallValues(ds[j]) \cap DOMAIN g \subseteq DOMAIN g \ R
  <2> SUFFICES ASSUME NEW j \in DOMAIN cs, NEW u \in CallValues(ds[j]) \cap DOMAIN g
               PROVE  u \in DOMAIN g \ R
    OBVIOUS
  <2>1. u \in Range(Operands(ds[j]))
    BY OperandsAre
  <2>2. PICK k \in DOMAIN Operands(ds[j]) : u = Operands(ds[j])[k]
    BY <2>1 DEF Range
  <2> QED
    BY <1>5, <2>2
<1>8. Closed(g, DOMAIN g \ R)
  <2> SUFFICES ASSUME NEW x \in DOMAIN g \ R, NEW k \in DOMAIN g[x], g[x][k] \in DOMAIN g
               PROVE  g[x][k] \notin R
    BY DEF Closed, Range
  <2> QED
    BY <1>2, <1>3
<1> QED
  BY <1>6, <1>7, <1>8 DEF Solely

(* A generated value is a graft. *)
LEMMA SproutGrafted ==
  ASSUME NEW h, NEW g, Whole(h), IsHeap(g), Grows(h, g), NEW w, Sprouted(h, g, <<w>>),
         NEW old, Placed(h, DOMAIN h, old), NEW q
  PROVE  Grafted(h, old, q, g, w, {})
<1>1. PICK new : /\ Placed(g, DOMAIN g \ DOMAIN h, new)
                 /\ w \in Arrays => w \in DOMAIN g \ DOMAIN h /\ new[w] = <<NoThis, 1>>
  <2>1. PICK u : u = <<w>>
    OBVIOUS
  <2>2. DOMAIN u = {1} /\ u[1] = w /\ Sprouted(h, g, u)
    BY <2>1
  <2> QED
    BY <2>2 DEF Sprouted
<1>2. PICK at : at = [a \in Arrays |-> IF a \in DOMAIN h THEN old[a]
                                       ELSE IF new[a] = <<NoThis, 1>> THEN q ELSE new[a]]
  OBVIOUS
<1>3. DOMAIN h \subseteq DOMAIN g /\ DOMAIN g \subseteq Arrays /\ \A a \in DOMAIN h : g[a] = h[a]
  BY DEF Grows, IsHeap
<1>4. ASSUME NEW x \in DOMAIN g, NEW k \in DOMAIN g[x], g[x][k] \in Arrays
      PROVE  at[g[x][k]] = <<x, k>>
  <2>1. g[x][k] \in Range(g[x])
    BY DEF Range
  <2>2. CASE x \in DOMAIN h
    <3>1. g[x][k] \in DOMAIN h /\ old[g[x][k]] = <<x, k>>
      BY <1>3, <1>4, <2>1, <2>2 DEF Placed, Whole
    <3> QED
      BY <1>2, <1>4, <3>1
  <2>3. CASE x \notin DOMAIN h
    <3>1. g[x][k] \notin DOMAIN h /\ new[g[x][k]] = <<x, k>>
      BY <1>1, <1>4, <2>1, <2>3 DEF Placed, Sprouted
    <3>2. x # NoThis
      BY <1>3, ReferencesAssumption DEF Value
    <3> QED
      BY <1>2, <1>4, <3>1, <3>2
  <2> QED
    BY <2>2, <2>3
<1>5. \A x \in DOMAIN g \ {} : \A k \in DOMAIN g[x] :
         g[x][k] \in Arrays /\ <<x, k>> # q => g[x][k] \notin {} /\ at[g[x][k]] = <<x, k>>
  BY <1>4
<1>6. w \in Arrays => w \in DOMAIN g \ {} /\ at[w] = q
  BY <1>1, <1>2, <1>3
<1>7. \A a \in DOMAIN h : a \notin {} /\ at[a] = old[a]
  BY <1>2, <1>3
<1> QED
  BY <1>5, <1>6, <1>7 DEF Grafted

(* Each array in t comes from a place of s of its own, or is e, at position last. *)
Rearranges(s, t, e, to, last) ==
  \A k \in DOMAIN t : t[k] \in Arrays =>
    \/ \E l \in DOMAIN s : t[k] = s[l] /\ to[l] = k
    \/ t[k] = e /\ k = last

(* A copy of array u without an element, with one more or with its elements in
   another order takes its place. *)
LEMMA NewArrayGrafted ==
  ASSUME NEW h, Whole(h), NEW old, Placed(h, DOMAIN h, old),
         NEW u \in DOMAIN h, NEW q, old[u] = q, q[1] # u,
         NEW f, IsHeap(f), Grows(h, f), NEW e, Sprouted(h, f, <<e>>), Room(f) > 0,
         NEW elements, NEW name, NEW r, r = NewArray(f, elements, name), NEW to, NEW last,
         Rearranges(h[u], elements, e, to, last)
  PROVE  Grafted(h, old, q, r.heap, r.value, {u})
<1>1. PICK b : b = Fresh(f, 1)[1]
  OBVIOUS
<1>2. b \in Arrays \ DOMAIN f
  <2>1. IsFiniteSet(Arrays \ DOMAIN f)
    BY ReferencesAssumption, FS_Difference
  <2>2. Room(f) \in Nat
    BY <2>1, FS_CardinalityType DEF Room
  <2>3. 1 \in Nat /\ 1 <= Room(f)
    BY <2>2
  <2>4. Fresh(f, 1) \in [1 .. 1 -> Arrays \ DOMAIN f]
    BY <2>3, FreshIs
  <2> QED
    BY <1>1, <2>4
<1>3. PICK new : new = [c \in {b} |-> elements]
  OBVIOUS
<1>4. PICK g : g = r.heap
  OBVIOUS
<1>5. r.value = b /\ g = Extend(f, new)
  BY <1>1, <1>3, <1>4 DEF NewArray
<1>6. /\ DOMAIN g = DOMAIN f \cup {b} /\ g[b] = elements /\ \A a \in DOMAIN f : g[a] = f[a]
      /\ DOMAIN h \subseteq DOMAIN f /\ DOMAIN f \subseteq Arrays /\ \A a \in DOMAIN h : f[a] = h[a]
  <2>1. DOMAIN new = {b} /\ new[b] = elements
    BY <1>3
  <2>2. DOMAIN f \cap DOMAIN new = {}
    BY <1>2, <2>1
  <2>3. /\ DOMAIN Extend(f, new) = DOMAIN f \cup DOMAIN new
        /\ Grows(f, Extend(f, new))
        /\ \A a \in DOMAIN new : Extend(f, new)[a] = new[a]
    BY <2>2, ExtendIs
  <2> QED
    BY <1>5, <2>1, <2>3 DEF Grows, IsHeap
<1>7. PICK tree : /\ Placed(f, DOMAIN f \ DOMAIN h, tree)
                  /\ e \in Arrays => e \in DOMAIN f \ DOMAIN h /\ tree[e] = <<NoThis, 1>>
  <2>1. PICK s : s = <<e>>
    OBVIOUS
  <2>2. DOMAIN s = {1} /\ s[1] = e /\ Sprouted(h, f, s)
    BY <2>1
  <2> QED
    BY <2>2 DEF Sprouted
<1>8. PICK at : at = [a \in Arrays |->
                        IF a = b THEN q
                        ELSE IF a \in DOMAIN h THEN IF old[a][1] = u THEN <<b, to[old[a][2]]>> ELSE old[a]
                        ELSE IF tree[a] = <<NoThis, 1>> THEN <<b, last>> ELSE tree[a]]
  OBVIOUS
<1>9. ASSUME NEW x \in DOMAIN h, NEW l \in DOMAIN h[x], h[x][l] \in Arrays
      PROVE  h[x][l] \in DOMAIN h /\ old[h[x][l]] = <<x, l>>
  <2>1. h[x][l] \in Range(h[x])
    BY DEF Range
  <2> QED
    BY <1>9, <2>1 DEF Whole, Placed
<1>10. b \notin DOMAIN h /\ u # b
  BY <1>2, <1>6
<1>11. ASSUME NEW k \in DOMAIN elements, elements[k] \in Arrays
       PROVE  elements[k] # u /\ at[elements[k]] = <<b, k>>
  <2>1. CASE \E l \in DOMAIN h[u] : elements[k] = h[u][l] /\ to[l] = k
    <3>1. PICK l \in DOMAIN h[u] : elements[k] = h[u][l] /\ to[l] = k
      BY <2>1
    <3>2. elements[k] \in DOMAIN h /\ old[elements[k]] = <<u, l>>
      BY <1>9, <1>11, <3>1
    <3> QED
      BY <1>8, <1>10, <1>11, <3>1, <3>2
  <2>2. CASE elements[k] = e /\ k = last
    <3>1. elements[k] \in DOMAIN f \ DOMAIN h /\ tree[elements[k]] = <<NoThis, 1>>
      BY <1>7, <1>11, <2>2
    <3> QED
      BY <1>2, <1>8, <1>11, <2>2, <3>1
  <2> QED
    BY <1>11, <2>1, <2>2 DEF Rearranges
<1>12. ASSUME NEW x \in DOMAIN h \ {u}, NEW k \in DOMAIN h[x], h[x][k] \in Arrays, <<x, k>> # q
       PROVE  h[x][k] # u /\ at[h[x][k]] = <<x, k>>
  BY <1>8, <1>9, <1>10, <1>12
<1>13. ASSUME NEW x \in DOMAIN f \ DOMAIN h, NEW k \in DOMAIN f[x], f[x][k] \in Arrays
       PROVE  f[x][k] # u /\ at[f[x][k]] = <<x, k>>
  <2>1. f[x][k] \in Range(f[x])
    BY DEF Range
  <2>2. f[x][k] \in DOMAIN f \ DOMAIN h /\ tree[f[x][k]] = <<x, k>>
    BY <1>7, <1>13, <2>1 DEF Sprouted, Placed
  <2>3. x # NoThis
    BY <1>6, ReferencesAssumption DEF Value
  <2> QED
    BY <1>2, <1>8, <1>13, <2>2, <2>3
<1>14. \A x \in DOMAIN g \ {u} : \A k \in DOMAIN g[x] :
         g[x][k] \in Arrays /\ <<x, k>> # q => g[x][k] \notin {u} /\ at[g[x][k]] = <<x, k>>
  <2> SUFFICES ASSUME NEW x \in DOMAIN g \ {u}, NEW k \in DOMAIN g[x], g[x][k] \in Arrays, <<x, k>> # q
               PROVE  g[x][k] # u /\ at[g[x][k]] = <<x, k>>
    OBVIOUS
  <2>1. CASE x = b
    BY <1>6, <1>11, <2>1
  <2>2. CASE x \in DOMAIN h
    <3>1. g[x] = h[x]
      BY <1>6, <2>2
    <3> QED
      BY <1>12, <2>2, <3>1
  <2>3. CASE x \in DOMAIN f \ DOMAIN h
    BY <1>6, <1>13, <2>3
  <2> QED
    BY <1>6, <2>1, <2>2, <2>3
<1>15. r.value \in DOMAIN g \ {u} /\ at[r.value] = q
  BY <1>2, <1>5, <1>6, <1>8, <1>10
<1>16. \A a \in DOMAIN h : old[a] # q /\ old[a][1] \notin {u} => a \notin {u} /\ at[a] = old[a]
  BY <1>6, <1>8, <1>10
<1>17. PICK R : R = {u}
  OBVIOUS
<1>18. /\ \A x \in DOMAIN g \ R : \A k \in DOMAIN g[x] :
            g[x][k] \in Arrays /\ <<x, k>> # q => g[x][k] \notin R /\ at[g[x][k]] = <<x, k>>
       /\ r.value \in DOMAIN g \ R /\ at[r.value] = q
       /\ \A a \in DOMAIN h : old[a] # q /\ old[a][1] \notin R => a \notin R /\ at[a] = old[a]
  BY ONLY <1>14, <1>15, <1>16, <1>17
<1>19. Grafted(h, old, q, g, r.value, R)
  BY ONLY <1>18 DEF Grafted
<1> QED
  BY <1>4, <1>17, <1>19

LEMMA PushGrafted ==
  ASSUME NEW h, Whole(h), NEW old, Placed(h, DOMAIN h, old), NEW i \in Position,
         NEW u \in DOMAIN h, NEW q, old[u] = q, q[1] # u, NEW r \in PushElement(h, u, i)
  PROVE  Grafted(h, old, q, r.heap, r.value, {u})
<1>1. PICK g \in GenerateValue(h, i) :
        Room(g.heap) > 0 /\ r = NewArray(g.heap, Append(h[u], g.value), "PushElement")
  BY DEF PushElement
<1>2. IsHeap(g.heap) /\ Grows(h, g.heap) /\ Sprouted(h, g.heap, <<g.value>>) /\ g.value \in Value
  <2>1. Planted(h, g.heap) /\ Backed(h, g.heap, g.value, i) /\ Sprouted(h, g.heap, <<g.value>>)
    BY GeneratedValue, ValueSprouts DEF Whole
  <2> QED
    BY <2>1, BackedIsValue DEF Planted
<1>3. PICK s \in Seq(Value) : s = h[u]
  BY DEF Whole, IsHeap
<1>4. PICK v \in Value : v = g.value
  BY <1>2
<1>5. PICK t : t = Append(s, v)
  OBVIOUS
<1>6. PICK last : last = Len(s) + 1
  OBVIOUS
<1>7. DOMAIN t = (DOMAIN s) \cup {last} /\ (\A k \in DOMAIN s : t[k] = s[k]) /\ t[last] = v
  BY ONLY <1>5, <1>6, s \in Seq(Value), v \in Value
<1>8. PICK to : to = [k \in DOMAIN s |-> k]
  OBVIOUS
<1>9. Rearranges(h[u], t, v, to, last)
  BY <1>3, <1>7, <1>8 DEF Rearranges
<1>10. PICK f : f = g.heap
  OBVIOUS
<1>11. /\ r = NewArray(f, t, "PushElement") /\ IsHeap(f) /\ Grows(h, f) /\ Sprouted(h, f, <<v>>)
       /\ Room(f) > 0
  BY <1>1, <1>2, <1>3, <1>4, <1>5, <1>10
<1>12. Whole(h) /\ Placed(h, DOMAIN h, old) /\ u \in DOMAIN h /\ old[u] = q /\ q[1] # u
  OBVIOUS
<1> QED
  BY ONLY <1>9, <1>11, <1>12, NewArrayGrafted

LEMMA RemoveGrafted ==
  ASSUME NEW h, Whole(h), NEW old, Placed(h, DOMAIN h, old),
         NEW u \in DOMAIN h, NEW q, old[u] = q, q[1] # u, NEW r \in RemoveElement(h, u)
  PROVE  Grafted(h, old, q, r.heap, r.value, {u})
<1>1. PICK n \in DOMAIN h[u] :
        Room(h) > 0 /\ r = NewArray(h, RemoveAt(h[u], n), "RemoveElement")
  BY DEF RemoveElement
<1>2. PICK s \in Seq(Value) : s = h[u]
  BY DEF Whole, IsHeap
<1>3. n \in 1 .. Len(s)
  BY <1>1, <1>2
<1>4. PICK t : t = RemoveAt(s, n)
  OBVIOUS
<1>5. /\ DOMAIN t = 1 .. (Len(s) - 1)
      /\ \A j \in 1 .. (Len(s) - 1) : t[j] = IF j < n THEN s[j] ELSE s[j + 1]
  BY <1>3, <1>4, RemoveAtIs
<1>6. PICK to : to = [k \in DOMAIN s |-> IF k < n THEN k ELSE k - 1]
  OBVIOUS
<1>7. ASSUME NEW k \in DOMAIN t
      PROVE  \E l \in DOMAIN h[u] : t[k] = h[u][l] /\ to[l] = k
  <2>1. k \in 1 .. (Len(s) - 1) /\ DOMAIN s = 1 .. Len(s) /\ Len(s) \in Nat
    BY <1>5
  <2>2. CASE k < n
    <3>1. k \in DOMAIN s /\ t[k] = s[k] /\ to[k] = k
      BY <1>5, <1>6, <2>1, <2>2
    <3> QED
      BY <1>2, <3>1
  <2>3. CASE ~(k < n)
    <3>1. k + 1 \in DOMAIN s /\ ~(k + 1 < n) /\ (k + 1) - 1 = k
      BY <1>3, <2>1, <2>3
    <3>2. t[k] = s[k + 1] /\ to[k + 1] = k
      BY <1>5, <1>6, <2>1, <2>3, <3>1
    <3> QED
      BY <1>2, <3>1, <3>2
  <2> QED
    BY <2>2, <2>3
<1>8. r = NewArray(h, t, "RemoveElement") /\ IsHeap(h) /\ Grows(h, h) /\ Sprouted(h, h, <<Scalar>>)
  BY <1>1, <1>2, <1>4, NothingSprouts DEF Grows, Whole
<1>9. Whole(h) /\ Placed(h, DOMAIN h, old) /\ u \in DOMAIN h /\ old[u] = q /\ q[1] # u /\ Room(h) > 0
  BY <1>1
<1>10. Rearranges(h[u], t, Scalar, to, 0)
  BY <1>7 DEF Rearranges
<1> QED
  BY ONLY <1>8, <1>9, <1>10, NewArrayGrafted

LEMMA ExchangeGrafted ==
  ASSUME NEW h, Whole(h), NEW old, Placed(h, DOMAIN h, old),
         NEW u \in DOMAIN h, NEW q, old[u] = q, q[1] # u, NEW r \in ExchangeElements(h, u)
  PROVE  Grafted(h, old, q, r.heap, r.value, {u})
<1>1. PICK n \in (DOMAIN h[u]) \X (DOMAIN h[u]) :
        /\ Room(h) > 0
        /\ r = NewArray(h, [h[u] EXCEPT ![n[1]] = h[u][n[2]], ![n[2]] = h[u][n[1]]], "ExchangeElements")
  BY DEF ExchangeElements
<1>2. PICK s \in Seq(Value) : s = h[u]
  BY DEF Whole, IsHeap
<1>3. PICK x \in DOMAIN s : x = n[1]
  BY <1>1, <1>2
<1>4. PICK y \in DOMAIN s : y = n[2]
  BY <1>1, <1>2
<1>5. PICK t : t = [s EXCEPT ![n[1]] = s[n[2]], ![n[2]] = s[n[1]]]
  OBVIOUS
<1>6. DOMAIN t = DOMAIN s /\ \A j \in DOMAIN s : t[j] = IF j = y THEN s[x] ELSE IF j = x THEN s[y] ELSE s[j]
  BY <1>3, <1>4, <1>5
<1>7. PICK to : to = [k \in DOMAIN s |-> IF k = x THEN y ELSE IF k = y THEN x ELSE k]
  OBVIOUS
<1>8. ASSUME NEW k \in DOMAIN t
      PROVE  \E l \in DOMAIN h[u] : t[k] = h[u][l] /\ to[l] = k
  <2>1. CASE k = y
    BY <1>2, <1>6, <1>7, <2>1
  <2>2. CASE k # y /\ k = x
    BY <1>2, <1>6, <1>7, <2>2
  <2>3. CASE k # y /\ k # x
    BY <1>2, <1>6, <1>7, <2>3
  <2> QED
    BY <2>1, <2>2, <2>3
<1>9. r = NewArray(h, t, "ExchangeElements") /\ IsHeap(h) /\ Grows(h, h) /\ Sprouted(h, h, <<Scalar>>)
  BY <1>1, <1>2, <1>5, NothingSprouts DEF Grows, Whole
<1>10. Whole(h) /\ Placed(h, DOMAIN h, old) /\ u \in DOMAIN h /\ old[u] = q /\ q[1] # u /\ Room(h) > 0
  BY <1>1
<1>11. Rearranges(h[u], t, Scalar, to, 0)
  BY <1>8 DEF Rearranges
<1> QED
  BY ONLY <1>9, <1>10, <1>11, NewArrayGrafted

(* Array u has place q, and no place in itself. *)
PlacedAt(h, old, u, q) == u \in DOMAIN h => old[u] = q /\ q[1] # u

LEMMA HereGrafted ==
  ASSUME NEW h, Whole(h), NEW old, Placed(h, DOMAIN h, old), NEW i \in Position,
         NEW u, NEW q, PlacedAt(h, old, u, q),
         NEW depth, NEW name, NEW r \in MutateHere(h, u, i, depth, name)
  PROVE  \E R \in SUBSET DOMAIN h : R \subseteq {u} /\ Grafted(h, old, q, r.heap, r.value, R)
<1>0. {} \in SUBSET DOMAIN h /\ {} \subseteq {u} /\ (u \in DOMAIN h => {u} \in SUBSET DOMAIN h)
  OBVIOUS
<1>1. CASE \E g \in GenerateValue(h, i) : r = [value |-> g.value, heap |-> g.heap, name |-> name]
  <2>1. PICK g \in GenerateValue(h, i) : r = [value |-> g.value, heap |-> g.heap, name |-> name]
    BY <1>1
  <2>2. Planted(h, g.heap) /\ Sprouted(h, g.heap, <<g.value>>)
    BY GeneratedValue, ValueSprouts DEF Whole
  <2>3. Grafted(h, old, q, g.heap, g.value, {})
    BY <2>2, SproutGrafted DEF Planted
  <2> QED
    BY <1>0, <2>1, <2>3
<1>2. CASE u \in DOMAIN h /\ r \in PushElement(h, u, i) \cup RemoveElement(h, u) \cup ExchangeElements(h, u)
  <2>1. Grafted(h, old, q, r.heap, r.value, {u})
    BY <1>2, PushGrafted, RemoveGrafted, ExchangeGrafted DEF PlacedAt
  <2> QED
    BY <1>0, <1>2, <2>1
<1>3. CASE r \in MutateScalar(h, u, name)
  <2>1. r.value = Scalar /\ r.heap = h
    BY <1>3 DEF MutateScalar
  <2>2. IsHeap(h) /\ Grows(h, h) /\ Sprouted(h, h, <<Scalar>>)
    BY NothingSprouts DEF Grows, Whole
  <2>3. Grafted(h, old, q, h, Scalar, {})
    BY <2>2, SproutGrafted
  <2> QED
    BY <1>0, <2>1, <2>3
<1> QED
  BY <1>1, <1>2, <1>3 DEF MutateHere

(* The place of the value at the end of a path of m elements, v's place being q. *)
PlaceOn(q, walk, p, m) == IF m = 0 THEN q ELSE <<walk[m - 1], p[m]>>

(* A path through arrays that have one place each goes through none twice. *)
LEMMA WalkedPlaces ==
  ASSUME NEW h, Whole(h), NEW old, Placed(h, DOMAIN h, old), NEW p, NEW m \in Nat, NEW walk, NEW i,
         Walked(h, p, m, walk, i), NEW q, q[1] \notin Arrays, walk[0] \in Arrays => old[walk[0]] = q
  PROVE  /\ \A k \in 0 .. m : walk[k] \in Arrays => old[walk[k]] = PlaceOn(q, walk, p, k)
         /\ \A k, l \in 0 .. m : walk[k] = walk[l] => k = l
<1>1. \A k \in 1 .. m : /\ walk[k - 1] \in DOMAIN h /\ p[k] \in DOMAIN h[walk[k - 1]]
                        /\ walk[k] = h[walk[k - 1]][p[k]]
  BY DEF Walked
<1>2. DOMAIN h \subseteq Arrays
  BY DEF Whole, IsHeap
<1>3. \A k \in 0 .. m : walk[k] \in Arrays => old[walk[k]] = PlaceOn(q, walk, p, k)
  <2> SUFFICES ASSUME NEW k \in 0 .. m, walk[k] \in Arrays PROVE old[walk[k]] = PlaceOn(q, walk, p, k)
    OBVIOUS
  <2>1. CASE k = 0
    BY <2>1 DEF PlaceOn
  <2>2. CASE k # 0
    <3>1. k \in 1 .. m
      BY <2>2
    <3>2. old[walk[k]] = <<walk[k - 1], p[k]>>
      BY <1>1, <3>1 DEF Placed
    <3> QED
      BY <2>2, <3>2 DEF PlaceOn
  <2> QED
    BY <2>1, <2>2
<1> DEFINE T == {k \in 0 .. m : \E l \in 0 .. m : k < l /\ walk[k] = walk[l]}
<1>4. T = {}
  <2> SUFFICES ASSUME T # {} PROVE FALSE
    OBVIOUS
  <2>1. T \subseteq Nat
    OBVIOUS
  <2>2. PICK k \in T : \A n \in T : k <= n
    <3> HIDE DEF T
    <3> QED
      BY <2>1, Smallest
  <2>3. PICK l \in 0 .. m : k < l /\ walk[k] = walk[l]
    OBVIOUS
  <2>4. k \in 1 .. m \/ k = 0
    OBVIOUS
  <2>5. l \in 1 .. m /\ k + 1 \in 1 .. m /\ (k + 1) - 1 = k
    BY <2>3
  <2>6. walk[k] \in Arrays
    BY <1>1, <1>2, <2>5
  <2>7. old[walk[l]] = <<walk[l - 1], p[l]>> /\ walk[l - 1] \in Arrays
    <3>1. walk[l] \in Arrays /\ l # 0
      BY <2>3, <2>5, <2>6
    <3>2. old[walk[l]] = PlaceOn(q, walk, p, l)
      BY <1>3, <3>1
    <3>3. walk[l - 1] \in DOMAIN h
      BY <1>1, <2>5
    <3> QED
      BY <1>2, <3>1, <3>2, <3>3 DEF PlaceOn
  <2>8. k # 0
    <3> SUFFICES ASSUME k = 0 PROVE FALSE
      OBVIOUS
    <3> QED
      BY <2>3, <2>6, <2>7
  <2>9. k - 1 \in 0 .. m /\ l - 1 \in 0 .. m /\ k - 1 < l - 1 /\ ~(k <= k - 1)
    BY <2>3, <2>5, <2>8
  <2>10. old[walk[k]] = <<walk[k - 1], p[k]>>
    BY <1>3, <2>6, <2>8 DEF PlaceOn
  <2>11. walk[k - 1] = walk[l - 1]
    BY <2>3, <2>7, <2>10
  <2>12. k - 1 \in T
    BY <2>9, <2>11
  <2> HIDE DEF T
  <2> QED
    BY <2>2, <2>9, <2>12
<1>5. \A k, l \in 0 .. m : walk[k] = walk[l] => k = l
  <2> SUFFICES ASSUME NEW k \in 0 .. m, NEW l \in 0 .. m, walk[k] = walk[l] PROVE k = l
    OBVIOUS
  <2>1. k \notin T /\ l \notin T
    BY <1>4
  <2>2. ~(k < l) /\ ~(l < k)
    BY <2>1
  <2> QED
    BY <2>2
<1> QED
  BY <1>3, <1>5

(* The copies along a path: copy[k] stands for walk[k - 1], with the next copy,
   or at the end w, where the path goes on. *)
Copies(h, g, walk, p, m, w, copy, e) ==
  /\ copy \in [1 .. m -> Arrays \ DOMAIN g] /\ \A k, j \in 1 .. m : copy[k] = copy[j] => k = j
  /\ DOMAIN e = DOMAIN g \cup Range(copy) /\ \A a \in DOMAIN g : e[a] = g[a]
  /\ \A k \in 1 .. m :
       /\ DOMAIN e[copy[k]] = DOMAIN h[walk[k - 1]]
       /\ \A l \in DOMAIN h[walk[k - 1]] :
            e[copy[k]][l] = IF l # p[k] THEN h[walk[k - 1]][l] ELSE IF k = m THEN w ELSE copy[k + 1]

(* A copied path: the arrays on it are new, what hangs on them is old. *)
LEMMA CopiesAre ==
  ASSUME NEW h, IsHeap(h), NEW p, NEW m \in Nat, m = Len(p), NEW walk, NEW i, Walked(h, p, m, walk, i),
         NEW x, IsHeap(x.heap), m <= Room(x.heap), p = <<>> <=> m = 0, NEW r, r = CopyPath(x, h, walk, p)
  PROVE  \E copy : /\ Copies(h, x.heap, walk, p, m, x.value, copy, r.heap)
                   /\ r.value = IF m = 0 THEN x.value ELSE copy[1]
<1>1. PICK g : g = x.heap
  OBVIOUS
<1>2. PICK copy : copy = Fresh(g, m)
  OBVIOUS
<1>3. copy \in [1 .. m -> Arrays \ DOMAIN g] /\ \A k, j \in 1 .. m : copy[k] = copy[j] => k = j
  BY <1>1, <1>2, FreshIs
<1> DEFINE elem(k) == IF k = m THEN x.value ELSE copy[k + 1]
           content(k) == [h[walk[k - 1]] EXCEPT ![p[k]] = elem(k)]
           new == [a \in Range(copy) |->
                LET k == CHOOSE n \in DOMAIN copy : copy[n] = a
                IN  [h[walk[k - 1]] EXCEPT ![p[k]] = elem(k)]]
<1>4. r = [value |-> IF p = <<>> THEN x.value ELSE copy[1], heap |-> Extend(g, new), name |-> x.name]
  BY <1>1, <1>2 DEF CopyPath
<1>5. DOMAIN copy = 1 .. m /\ Range(copy) = {copy[k] : k \in 1 .. m} /\ Range(copy) \cap DOMAIN g = {}
  BY <1>3 DEF Range
<1>6. \A k \in 1 .. m : new[copy[k]] = content(k)
  <2> TAKE k \in 1 .. m
  <2>1. k = CHOOSE n \in DOMAIN copy : copy[n] = copy[k]
    BY <1>3, <1>5
  <2>2. copy[k] \in Range(copy)
    BY <1>5
  <2> HIDE DEF elem
  <2> QED
    BY <2>1, <2>2
<1>7. DOMAIN new = Range(copy)
  OBVIOUS
<1>8. ASSUME NEW k \in 1 .. m
      PROVE  /\ DOMAIN content(k) = DOMAIN h[walk[k - 1]]
             /\ \A l \in DOMAIN h[walk[k - 1]] :
                  content(k)[l] = IF l # p[k] THEN h[walk[k - 1]][l] ELSE IF k = m THEN x.value ELSE copy[k + 1]
  <2>1. PICK a \in DOMAIN h : a = walk[k - 1]
    BY DEF Walked
  <2>2. p[k] \in DOMAIN h[a]
    BY <2>1 DEF Walked
  <2>3. PICK s \in Seq(Value) : s = h[a]
    BY DEF IsHeap
  <2>4. PICK j \in DOMAIN s : j = p[k]
    BY <2>2, <2>3
  <2>5. PICK v : v = elem(k)
    OBVIOUS
  <2>6. content(k) = [s EXCEPT ![j] = v]
    BY <2>1, <2>3, <2>4, <2>5
  <2>7. DOMAIN content(k) = DOMAIN s /\ \A l \in DOMAIN s : content(k)[l] = IF l # j THEN s[l] ELSE v
    <3> HIDE DEF content
    <3> QED
      BY <2>6
  <2> HIDE DEF content
  <2> QED
    BY <2>1, <2>3, <2>4, <2>5, <2>7
<1>9. PICK w : w = new
  OBVIOUS
<1>10. /\ DOMAIN w = Range(copy)
       /\ \A k \in 1 .. m :
            /\ DOMAIN w[copy[k]] = DOMAIN h[walk[k - 1]]
            /\ \A l \in DOMAIN h[walk[k - 1]] :
                 w[copy[k]][l] = IF l # p[k] THEN h[walk[k - 1]][l] ELSE IF k = m THEN x.value ELSE copy[k + 1]
  <2> HIDE DEF new, content
  <2> QED
    BY <1>6, <1>7, <1>8, <1>9
<1> HIDE DEF new
<1>11. r.heap = Extend(g, w) /\ r.value = IF m = 0 THEN x.value ELSE copy[1]
  BY <1>4, <1>9
<1>12. PICK e : e = r.heap
  OBVIOUS
<1>13. /\ DOMAIN e = DOMAIN g \cup Range(copy) /\ \A a \in DOMAIN g : e[a] = g[a]
       /\ \A a \in Range(copy) : e[a] = w[a]
  <2>1. DOMAIN g \cap DOMAIN w = {}
    BY <1>5, <1>10
  <2>2. /\ DOMAIN Extend(g, w) = DOMAIN g \cup DOMAIN w
        /\ Grows(g, Extend(g, w))
        /\ \A a \in DOMAIN w : Extend(g, w)[a] = w[a]
    BY <2>1, ExtendIs
  <2> QED
    BY <1>10, <1>11, <1>12, <2>2 DEF Grows
<1>14. \A k \in 1 .. m : copy[k] \in Range(copy)
  BY <1>5
<1>15. Copies(h, g, walk, p, m, x.value, copy, e)
  <2>1. \A k \in 1 .. m :
       /\ DOMAIN e[copy[k]] = DOMAIN h[walk[k - 1]]
       /\ \A l \in DOMAIN h[walk[k - 1]] :
            e[copy[k]][l] = IF l # p[k] THEN h[walk[k - 1]][l] ELSE IF k = m THEN x.value ELSE copy[k + 1]
    BY <1>10, <1>13, <1>14
  <2> QED
    BY <1>3, <1>13, <2>1 DEF Copies
<1> QED
  BY <1>1, <1>11, <1>12, <1>15

(* The copies along a path take the place of the arrays they copy, with a value
   at the end of the path that takes the place of the one there. *)
LEMMA PathGrafted ==
  ASSUME NEW h, Whole(h), NEW old, Placed(h, DOMAIN h, old), NEW p, NEW m \in Nat, NEW walk, NEW i,
         Walked(h, p, m, walk, i), NEW q, q[1] \notin Arrays, walk[0] \in Arrays => old[walk[0]] = q,
         NEW g, Whole(g), Grows(h, g), NEW w, NEW R \in SUBSET DOMAIN h, R \subseteq {walk[m]},
         Grafted(h, old, PlaceOn(q, walk, p, m), g, w, R),
         NEW copy, NEW e, Copies(h, g, walk, p, m, w, copy, e)
  PROVE  \E S \in SUBSET DOMAIN h : Grafted(h, old, q, e, IF m = 0 THEN w ELSE copy[1], S)
<1>1. PICK to : to = PlaceOn(q, walk, p, m)
  OBVIOUS
<1>2. PICK at :
        /\ \A x \in DOMAIN g \ R : \A k \in DOMAIN g[x] :
             g[x][k] \in Arrays /\ <<x, k>> # to => g[x][k] \notin R /\ at[g[x][k]] = <<x, k>>
        /\ w \in Arrays => w \in DOMAIN g \ R /\ at[w] = to
        /\ \A a \in DOMAIN h : old[a] # to /\ old[a][1] \notin R => a \notin R /\ at[a] = old[a]
  BY <1>1 DEF Grafted
<1>3. /\ DOMAIN h \subseteq DOMAIN g /\ DOMAIN g \subseteq Arrays /\ \A a \in DOMAIN h : g[a] = h[a]
      /\ \A a \in DOMAIN g : Range(g[a]) \cap Arrays \subseteq DOMAIN g
      /\ \A a \in DOMAIN h : Range(h[a]) \cap Arrays \subseteq DOMAIN h
  BY DEF Grows, Whole, IsHeap
<1>4. \A k \in 1 .. m : /\ walk[k - 1] \in DOMAIN h /\ p[k] \in DOMAIN h[walk[k - 1]]
                        /\ walk[k] = h[walk[k - 1]][p[k]]
  BY DEF Walked
<1>5. /\ \A k \in 0 .. m : walk[k] \in Arrays => old[walk[k]] = PlaceOn(q, walk, p, k)
      /\ \A k, l \in 0 .. m : walk[k] = walk[l] => k = l
  BY WalkedPlaces
<1>6. /\ copy \in [1 .. m -> Arrays \ DOMAIN g] /\ \A k, j \in 1 .. m : copy[k] = copy[j] => k = j
      /\ DOMAIN e = DOMAIN g \cup Range(copy) /\ \A a \in DOMAIN g : e[a] = g[a]
      /\ \A k \in 1 .. m :
           /\ DOMAIN e[copy[k]] = DOMAIN h[walk[k - 1]]
           /\ \A l \in DOMAIN h[walk[k - 1]] :
                e[copy[k]][l] = IF l # p[k] THEN h[walk[k - 1]][l] ELSE IF k = m THEN w ELSE copy[k + 1]
  BY DEF Copies
<1>7. Range(copy) = {copy[j] : j \in 1 .. m}
  BY <1>6 DEF Range
<1>8. CASE m = 0
  <2>1. to = q
    BY <1>1, <1>8 DEF PlaceOn
  <2>2. DOMAIN e = DOMAIN g /\ \A a \in DOMAIN g : e[a] = g[a]
    <3>1. Range(copy) = {}
      BY <1>7, <1>8
    <3> QED
      BY <1>6, <3>1
  <2>3. Grafted(h, old, q, e, w, R)
    BY <1>2, <2>1, <2>2 DEF Grafted
  <2> QED
    BY <1>8, <2>3
<1>9. CASE m # 0
  <2>1. m \in 1 .. m /\ to = <<walk[m - 1], p[m]>>
    BY <1>1, <1>9 DEF PlaceOn
  <2>2. PICK W : W = {walk[j - 1] : j \in 1 .. m}
    OBVIOUS
  <2>3. W \in SUBSET DOMAIN h
    BY <1>4, <2>2
  <2>4. W \cap R = {}
    <3> SUFFICES ASSUME NEW j \in 1 .. m, walk[j - 1] \in R PROVE FALSE
      BY <2>2
    <3>1. walk[j - 1] = walk[m] /\ j - 1 \in 0 .. m /\ m \in 0 .. m /\ j - 1 # m
      OBVIOUS
    <3> QED
      BY <1>5, <3>1
  <2>5. PICK idx : \A j \in 1 .. m : idx[walk[j - 1]] = j
    <3> DEFINE f == [a \in W |-> CHOOSE j \in 1 .. m : walk[j - 1] = a]
    <3>1. ASSUME NEW j \in 1 .. m PROVE f[walk[j - 1]] = j
      <4>1. walk[j - 1] \in W
        BY <2>2
      <4>2. \A l \in 1 .. m : walk[l - 1] = walk[j - 1] => l = j
        <5> SUFFICES ASSUME NEW l \in 1 .. m, walk[l - 1] = walk[j - 1] PROVE l = j
          OBVIOUS
        <5>1. l - 1 \in 0 .. m /\ j - 1 \in 0 .. m
          OBVIOUS
        <5>2. l - 1 = j - 1
          BY <1>5, <5>1
        <5> QED
          BY <5>2
      <4>3. f[walk[j - 1]] = CHOOSE l \in 1 .. m : walk[l - 1] = walk[j - 1]
        BY <4>1
      <4> QED
        BY <4>2, <4>3
    <3> QED
      BY <3>1
  <2>6. PICK num : \A j \in 1 .. m : num[copy[j]] = j
    <3> DEFINE f == [a \in Range(copy) |-> CHOOSE j \in 1 .. m : copy[j] = a]
    <3>1. \A j \in 1 .. m : f[copy[j]] = j
      BY <1>6, <1>7
    <3> QED
      BY <3>1
  <2>7. PICK new : new = [a \in Arrays |->
                            IF a \in Range(copy)
                            THEN IF num[a] = 1 THEN q ELSE <<copy[num[a] - 1], p[num[a] - 1]>>
                            ELSE IF at[a][1] \in W THEN <<copy[idx[at[a][1]]], at[a][2]>> ELSE at[a]]
    OBVIOUS
  <2>8. /\ \A j \in 1 .. m : copy[j] \in Arrays /\ copy[j] \in DOMAIN e /\ copy[j] \notin DOMAIN g
        /\ new[copy[1]] = q
        /\ \A j \in 1 .. m : j # m => new[copy[j + 1]] = <<copy[j], p[j]>>
    <3>1. \A j \in 1 .. m : /\ copy[j] \in Arrays /\ copy[j] \in DOMAIN e /\ copy[j] \notin DOMAIN g
                            /\ copy[j] \in Range(copy)
      BY <1>6, <1>7
    <3>2. new[copy[1]] = q
      BY <2>1, <2>6, <2>7, <3>1
    <3>3. ASSUME NEW j \in 1 .. m, j # m PROVE new[copy[j + 1]] = <<copy[j], p[j]>>
      <4>1. PICK l \in 1 .. m : l = j + 1
        BY <3>3
      <4>2. num[copy[l]] = l /\ l # 1 /\ l - 1 = j
        BY <2>6, <4>1
      <4>3. new[copy[l]] = <<copy[l - 1], p[l - 1]>>
        BY <2>7, <3>1, <4>2
      <4> QED
        BY <4>1, <4>2, <4>3
    <3> QED
      BY <3>1, <3>2, <3>3
  <2>9. \A a \in DOMAIN g : a \in Arrays /\ a \notin Range(copy)
    BY <1>3, <1>6, <1>7
  \* An array on the path keeps its place, which is q or on the path.
  <2>10. ASSUME NEW a \in W
         PROVE  at[a] = q \/ \E j \in 1 .. m : at[a] = <<walk[j - 1], p[j]>> /\ j # m
    <3>1. PICK j \in 1 .. m : a = walk[j - 1]
      BY <2>2
    <3>2. PICK l \in 0 .. m : l = j - 1 /\ l # m
      OBVIOUS
    <3>3. a \in DOMAIN h /\ a \in Arrays /\ old[a] = PlaceOn(q, walk, p, l)
      BY <1>3, <1>5, <2>3, <3>1, <3>2
    <3>4. CASE l = 0
      <4>1. old[a] = q
        BY <3>3, <3>4 DEF PlaceOn
      <4>2. walk[m - 1] \in Arrays
        BY <1>3, <1>4, <2>1
      <4>3. old[a] # to /\ old[a][1] \notin R
        BY <1>3, <2>1, <4>1, <4>2
      <4> QED
        BY <1>2, <3>3, <4>1, <4>3
    <3>5. CASE l # 0
      <4>1. old[a] = <<walk[l - 1], p[l]>> /\ l \in 1 .. m
        BY <3>3, <3>5 DEF PlaceOn
      <4>2. walk[l - 1] # walk[m - 1]
        <5>1. l - 1 \in 0 .. m /\ m - 1 \in 0 .. m /\ l - 1 # m - 1
          BY <2>1, <3>2, <4>1
        <5> QED
          BY <1>5, <5>1
      <4>3. walk[l - 1] \in W
        BY <2>2, <4>1
      <4>4. old[a] # to /\ old[a][1] \notin R
        BY <2>1, <2>4, <4>1, <4>2, <4>3
      <4> QED
        BY <1>2, <3>2, <3>3, <4>1, <4>4
    <3> QED
      BY <3>4, <3>5
  <2>11. \A a \in W : at[a] # to
    <3> SUFFICES ASSUME NEW a \in W, at[a] = to PROVE FALSE
      OBVIOUS
    <3>1. walk[m - 1] \in Arrays
      BY <1>3, <1>4, <2>1
    <3>2. PICK j \in 1 .. m : at[a] = <<walk[j - 1], p[j]>> /\ j # m
      BY <2>1, <2>10, <3>1
    <3>3. walk[j - 1] = walk[m - 1]
      BY <2>1, <3>2
    <3>4. j - 1 \in 0 .. m /\ m - 1 \in 0 .. m /\ j - 1 # m - 1
      BY <2>1, <3>2
    <3> QED
      BY <1>5, <3>3, <3>4
  <2>12. ASSUME NEW j \in 1 .. m, NEW k \in DOMAIN e[copy[j]], e[copy[j]][k] \in Arrays
         PROVE  e[copy[j]][k] \notin R \cup W /\ new[e[copy[j]][k]] = <<copy[j], k>>
    <3>1. PICK x \in W : x = walk[j - 1]
      BY <2>2
    <3>2. k \in DOMAIN h[x] /\ x \in DOMAIN h /\ x \notin R /\ idx[x] = j
      BY <1>6, <2>3, <2>4, <2>5, <3>1
    <3>3. PICK a \in Arrays : a = e[copy[j]][k]
      BY <2>12
    <3>4. CASE k = p[j] /\ j = m
      <4>1. a = w
        BY <1>6, <3>1, <3>2, <3>3, <3>4
      <4>2. a \in DOMAIN g \ R /\ at[a] = <<x, k>>
        BY <1>2, <2>1, <3>1, <3>3, <3>4, <4>1
      <4>3. a \notin W
        BY <1>2, <2>11, <3>3, <4>1
      <4>4. new[a] = <<copy[j], k>>
        BY <2>7, <2>9, <3>1, <3>2, <4>2
      <4> QED
        BY <3>3, <4>2, <4>3, <4>4
    <3>5. CASE k = p[j] /\ j # m
      <4>1. a = copy[j + 1] /\ j + 1 \in 1 .. m
        BY <1>6, <3>1, <3>2, <3>3, <3>5
      <4>2. a \notin DOMAIN g
        BY <2>8, <4>1
      <4>3. new[a] = <<copy[j], k>>
        BY <2>8, <3>5, <4>1
      <4> QED
        BY <1>3, <2>3, <3>3, <4>2, <4>3
    <3>6. CASE k # p[j]
      <4>1. a = h[x][k] /\ a = g[x][k] /\ x \in DOMAIN g \ R /\ k \in DOMAIN g[x]
        BY <1>3, <1>6, <3>1, <3>2, <3>3, <3>6
      <4>2. \A l \in 1 .. m : <<x, k>> # <<walk[l - 1], p[l]>>
        <5> SUFFICES ASSUME NEW l \in 1 .. m, <<x, k>> = <<walk[l - 1], p[l]>> PROVE FALSE
          OBVIOUS
        <5>1. walk[j - 1] = walk[l - 1] /\ k = p[l]
          BY <3>1
        <5>2. j - 1 \in 0 .. m /\ l - 1 \in 0 .. m
          OBVIOUS
        <5>3. j - 1 = l - 1
          BY <1>5, <5>1, <5>2
        <5>4. j = l
          BY <5>3
        <5> QED
          BY <3>6, <5>1, <5>4
      <4>3. a \notin R /\ at[a] = <<x, k>>
        BY <1>2, <2>1, <4>1, <4>2
      <4>4. a \in DOMAIN g
        BY <1>3, <4>1 DEF Range
      <4>5. a \notin W
        <5>1. x \in Arrays
          BY <1>3, <3>2
        <5>2. at[a] # q
          BY <4>3, <5>1
        <5> QED
          BY <2>10, <4>2, <4>3, <5>2
      <4>6. new[a] = <<copy[j], k>>
        BY <2>7, <2>9, <3>2, <4>3, <4>4
      <4> QED
        BY <3>3, <4>3, <4>5, <4>6
    <3> QED
      BY <3>4, <3>5, <3>6
  <2>13. ASSUME NEW x \in DOMAIN g \ (R \cup W), NEW k \in DOMAIN e[x], e[x][k] \in Arrays, <<x, k>> # q
         PROVE  e[x][k] \notin R \cup W /\ new[e[x][k]] = <<x, k>>
    <3>1. PICK a \in Arrays : a = e[x][k]
      BY <2>13
    <3>2. a = g[x][k] /\ k \in DOMAIN g[x]
      BY <1>6, <3>1
    <3>3. \A l \in 1 .. m : <<x, k>> # <<walk[l - 1], p[l]>>
      BY <2>2
    <3>4. a \notin R /\ at[a] = <<x, k>>
      BY <1>2, <2>1, <3>2, <3>3
    <3>5. a \in DOMAIN g
      BY <1>3, <3>2 DEF Range
    <3>6. a \notin W
      BY <2>10, <2>13, <3>3, <3>4
    <3>7. new[a] = <<x, k>>
      BY <2>7, <2>9, <3>4, <3>5
    <3> QED
      BY <3>1, <3>4, <3>6, <3>7
  <2>14. PICK S \in SUBSET DOMAIN h : S = R \cup W
    BY <2>3
  <2>15. \A x \in DOMAIN e \ S : \A k \in DOMAIN e[x] :
           e[x][k] \in Arrays /\ <<x, k>> # q => e[x][k] \notin S /\ new[e[x][k]] = <<x, k>>
    <3> SUFFICES ASSUME NEW x \in DOMAIN e \ S, NEW k \in DOMAIN e[x], e[x][k] \in Arrays, <<x, k>> # q
                 PROVE  e[x][k] \notin S /\ new[e[x][k]] = <<x, k>>
      OBVIOUS
    <3>1. CASE \E j \in 1 .. m : x = copy[j]
      <4>1. PICK j \in 1 .. m : x = copy[j]
        BY <3>1
      <4>2. k \in DOMAIN e[copy[j]] /\ e[copy[j]][k] \in Arrays
        BY <4>1
      <4>3. e[copy[j]][k] \notin R \cup W /\ new[e[copy[j]][k]] = <<copy[j], k>>
        BY <2>12, <4>2
      <4> QED
        BY <2>14, <4>1, <4>3
    <3>2. CASE x \in DOMAIN g
      BY <2>13, <2>14, <3>2
    <3> QED
      BY <1>6, <1>7, <3>1, <3>2
  <2>16. copy[1] \in DOMAIN e \ S /\ new[copy[1]] = q
    BY <1>3, <2>1, <2>8, <2>14
  <2>17. ASSUME NEW a \in DOMAIN h, old[a] # q, old[a][1] \notin S
         PROVE  a \notin S /\ new[a] = old[a]
    <3>1. walk[m - 1] \in W
      BY <2>1, <2>2
    <3>2. old[a] # to /\ old[a][1] \notin R
      BY <2>1, <2>14, <2>17, <3>1
    <3>3. a \notin R /\ at[a] = old[a]
      BY <1>2, <3>2
    <3>4. a \notin W
      <4> SUFFICES ASSUME a \in W PROVE FALSE
        OBVIOUS
      <4>1. PICK j \in 1 .. m : at[a] = <<walk[j - 1], p[j]>>
        BY <2>10, <2>17, <3>3
      <4> QED
        BY <2>2, <2>14, <2>17, <3>3, <4>1
    <3>5. new[a] = old[a]
      BY <1>3, <2>7, <2>9, <2>14, <2>17, <3>3
    <3> QED
      BY <2>14, <3>3, <3>4, <3>5
  <2>18. Grafted(h, old, q, e, copy[1], S)
    BY <2>15, <2>16, <2>17 DEF Grafted
  <2> QED
    BY <1>9, <2>18
<1> QED
  BY <1>8, <1>9

(* Mutating the value in place q grafts the result there. *)
LEMMA ValueGrafted ==
  ASSUME NEW h, Whole(h), Sized(h), NEW i \in Position, NEW v, Usable(h, v, i),
         lastMutator \in MutatorName, NEW r \in MutateValue(h, v, i),
         NEW old, Placed(h, DOMAIN h, old), NEW q, q[1] \notin Arrays, v \in Arrays => old[v] = q
  PROVE  \E S \in SUBSET DOMAIN h : Grafted(h, old, q, r.heap, r.value, S)
<1>1. PICK p \in Paths(h, v) :
        \E x \in MutateHere(h, Walk(h, v, p)[Len(p)], i, Len(p) + 1,
                            IF p = <<>> THEN lastMutator ELSE "MutateElement") :
          Room(x.heap) >= Len(p) /\ r = CopyPath(x, h, Walk(h, v, p), p)
  BY DEF MutateValue
<1>2. PICK walk : walk = Walk(h, v, p)
  OBVIOUS
<1>3. PICK m \in Nat : m = Len(p) /\ (p = <<>> <=> m = 0)
  <2>1. PICK T : p \in BoundedSeq(T, MaxDepth)
    BY DEF Paths
  <2>2. PICK l \in 0 .. MaxDepth : p \in [1 .. l -> T]
    BY <2>1 DEF BoundedSeq, SeqOf
  <2>3. l \in Nat
    BY SizesAssumption
  <2>4. p \in Seq(T) /\ Len(p) = l
    BY <2>2, <2>3
  <2> QED
    BY <2>3, <2>4
<1>4. walk[m] # NoThis
  BY <1>2, <1>3 DEF Paths
<1>5. Walked(h, p, m, walk, i) /\ walk[0] = v
  <2>1. v \in Value
    BY UsableIsValue DEF Whole
  <2>2. WalkIs(h, v, p, m, walk)
    BY <1>2, <1>3, <2>1, WalkExists DEF Whole
  <2> QED
    BY <1>4, <2>2, PathWalked DEF WalkIs
<1>6. PICK name \in MutatorName : name = IF p = <<>> THEN lastMutator ELSE "MutateElement"
  BY DEF MutatorName
<1>7. PICK x \in MutateHere(h, walk[m], i, m + 1, name) : Room(x.heap) >= m /\ r = CopyPath(x, h, walk, p)
  BY <1>1, <1>2, <1>3, <1>6
<1>8. m \in 0 .. m
  OBVIOUS
<1>9. Usable(h, walk[m], i)
  BY <1>5, <1>8 DEF Walked
<1>10. Changed(h, x, i)
  BY <1>7, <1>9, MutatedHere
<1>11. m <= Room(x.heap)
  <2>1. IsFiniteSet(Arrays \ DOMAIN x.heap)
    BY ReferencesAssumption, FS_Difference
  <2>2. Room(x.heap) \in Nat
    BY <2>1, FS_CardinalityType DEF Room
  <2> QED
    BY <1>7, <2>2
<1>12. PICK g : g = x.heap
  OBVIOUS
<1>13. Whole(g) /\ Grows(h, g) /\ IsHeap(g)
  BY <1>10, <1>12, CopiedWhole DEF Changed, Copied, Whole
<1>14. walk[0] \in Arrays => old[walk[0]] = q
  BY <1>5
<1>15. /\ \A k \in 0 .. m : walk[k] \in Arrays => old[walk[k]] = PlaceOn(q, walk, p, k)
       /\ \A k, l \in 0 .. m : walk[k] = walk[l] => k = l
  <2>1. /\ Whole(h) /\ Placed(h, DOMAIN h, old) /\ m \in Nat /\ Walked(h, p, m, walk, i)
        /\ q[1] \notin Arrays /\ (walk[0] \in Arrays => old[walk[0]] = q)
    BY <1>5, <1>14
  <2> QED
    BY ONLY <2>1, WalkedPlaces
<1>16. PICK here : here = PlaceOn(q, walk, p, m)
  OBVIOUS
<1>17. walk[m] \in DOMAIN h => old[walk[m]] = here /\ here[1] # walk[m]
  <2> SUFFICES ASSUME walk[m] \in DOMAIN h PROVE old[walk[m]] = here /\ here[1] # walk[m]
    OBVIOUS
  <2>1. walk[m] \in Arrays
    BY DEF Whole, IsHeap
  <2>2. old[walk[m]] = here
    BY <1>8, <1>15, <1>16, <2>1
  <2>3. here[1] # walk[m]
    <3>1. CASE m = 0
      BY <1>16, <2>1, <3>1 DEF PlaceOn
    <3>2. CASE m # 0
      <4>1. here[1] = walk[m - 1]
        BY <1>16, <3>2 DEF PlaceOn
      <4>2. m - 1 \in 0 .. m /\ m - 1 # m
        BY <3>2
      <4>3. walk[m - 1] # walk[m]
        BY <1>8, <1>15, <4>2
      <4> QED
        BY <4>1, <4>3
    <3> QED
      BY <3>1, <3>2
  <2> QED
    BY <2>2, <2>3
<1>18. PICK R \in SUBSET DOMAIN h : R \subseteq {walk[m]} /\ Grafted(h, old, here, x.heap, x.value, R)
  <2>1. PICK u : u = walk[m]
    OBVIOUS
  <2>2. PICK depth : depth = m + 1
    OBVIOUS
  <2>3. /\ Whole(h) /\ Placed(h, DOMAIN h, old) /\ i \in Position
        /\ PlacedAt(h, old, u, here)
        /\ x \in MutateHere(h, u, i, depth, name)
    BY <1>7, <1>17, <2>1, <2>2 DEF PlacedAt
  <2>4. \E R \in SUBSET DOMAIN h : R \subseteq {u} /\ Grafted(h, old, here, x.heap, x.value, R)
    BY ONLY <2>3, HereGrafted
  <2> QED
    BY <2>1, <2>4
<1>19. PICK copy : /\ Copies(h, x.heap, walk, p, m, x.value, copy, r.heap)
                   /\ r.value = IF m = 0 THEN x.value ELSE copy[1]
  <2>1. /\ IsHeap(h) /\ m \in Nat /\ m = Len(p) /\ Walked(h, p, m, walk, i)
        /\ IsHeap(x.heap) /\ m <= Room(x.heap) /\ (p = <<>> <=> m = 0) /\ r = CopyPath(x, h, walk, p)
    BY <1>3, <1>5, <1>7, <1>11, <1>12, <1>13 DEF Whole
  <2> QED
    BY ONLY <2>1, CopiesAre
<1>20. PICK w : w = x.value
  OBVIOUS
<1>21. PICK e : e = r.heap
  OBVIOUS
<1>22. /\ Whole(h) /\ Placed(h, DOMAIN h, old) /\ m \in Nat /\ Walked(h, p, m, walk, i)
       /\ q[1] \notin Arrays /\ (walk[0] \in Arrays => old[walk[0]] = q)
       /\ Whole(g) /\ Grows(h, g) /\ R \in SUBSET DOMAIN h /\ R \subseteq {walk[m]}
       /\ Grafted(h, old, PlaceOn(q, walk, p, m), g, w, R) /\ Copies(h, g, walk, p, m, w, copy, e)
  BY <1>5, <1>12, <1>13, <1>14, <1>16, <1>18, <1>19, <1>20, <1>21
<1>23. \E S \in SUBSET DOMAIN h : Grafted(h, old, q, e, IF m = 0 THEN w ELSE copy[1], S)
  BY ONLY <1>22, PathGrafted
<1> QED
  BY <1>19, <1>20, <1>21, <1>23

(* An operand of one call changes. *)

(* c is the call x but for operand n, which is w. *)
OperandIs(x, n, w, c) ==
  \A k \in DOMAIN Operands(c) :
    \/ k = n /\ Operands(c)[k] = w
    \/ k # n /\ k \in DOMAIN Operands(x) /\ Operands(c)[k] = Operands(x)[k]

(* What the old places say of the arrays and of the operands of calls. *)
LEMMA OldPlaces ==
  ASSUME NEW cs, NEW h, Solid(cs, h), NEW old, Placed(Store(cs, h), DOMAIN cs \cup DOMAIN h, old)
  PROVE  /\ Placed(h, DOMAIN h, old)
         /\ \A i \in DOMAIN cs : \A k \in DOMAIN Operands(cs[i]) :
              Operands(cs[i])[k] \in Arrays => old[Operands(cs[i])[k]] = <<i, k>>
<1>1. DOMAIN cs \cap DOMAIN h = {}
  BY CallNoArray
<1>2. /\ DOMAIN Store(cs, h) = DOMAIN cs \cup DOMAIN h
      /\ \A i \in DOMAIN cs : Store(cs, h)[i] = Operands(cs[i])
      /\ \A a \in DOMAIN h : Store(cs, h)[a] = h[a]
  BY ONLY <1>1, StoreIs
<1>3. Placed(h, DOMAIN h, old)
  BY <1>2 DEF Placed
<1> QED
  BY <1>2, <1>3 DEF Placed

(* One operand becomes w, and the arrays R are not in use any more. *)
LEMMA OperandKeepsTree ==
  ASSUME Sound, Sound', NEW old, Placed(Store(calls, heap), DOMAIN calls \cup DOMAIN heap, old),
         NEW i \in DOMAIN calls, NEW n, NEW g, Copied(heap, g), IsHeap(g), NEW w, NEW R \in SUBSET DOMAIN heap,
         Grafted(heap, old, <<i, n>>, g, w, R), NEW c \in Call, OperandIs(calls[i], n, w, c),
         NEW ds, ds = [calls EXCEPT ![i] = c], NEW name, Become(ds, g, name)
  PROVE  Tree'
<1>1. PICK cs : cs = calls
  OBVIOUS
<1>2. PICK h : h = heap
  OBVIOUS
<1>3. Solid(cs, h) /\ cs \in Seq(Call) /\ i \in DOMAIN cs
  BY <1>1, <1>2 DEF Sound, Solid, TestCase
<1>4. Edited(cs, i, c, ds)
  BY <1>1, <1>3, EditIs
<1>5. /\ DOMAIN ds = DOMAIN cs /\ (\A j \in DOMAIN cs : ds[j] \in Call)
      /\ (\A j \in DOMAIN cs : j # i => ds[j] = cs[j]) /\ ds[i] = c
  <2>1. PICK l \in Nat : l = Len(cs) /\ DOMAIN cs = 1 .. l /\ \A k \in 1 .. l : cs[k] \in Call
    BY ONLY <1>3
  <2>2. Len(ds) = l /\ ds \in Seq(Call)
    BY <1>4, <2>1 DEF Edited
  <2>3. DOMAIN ds = 1 .. l
    BY ONLY <2>2
  <2> QED
    BY <1>4, <2>1, <2>3 DEF Edited
<1>6. DOMAIN h \subseteq DOMAIN g /\ DOMAIN g \subseteq Arrays
  BY <1>2 DEF Copied, Grows, IsHeap
<1>7. \A k \in DOMAIN Operands(ds[i]) :
           \/ k = n /\ Operands(ds[i])[k] = w
           \/ k # n /\ k \in DOMAIN Operands(cs[i]) /\ Operands(ds[i])[k] = Operands(cs[i])[k]
  BY <1>1, <1>5 DEF OperandIs
<1>8. Placed(Store(cs, h), DOMAIN cs \cup DOMAIN h, old) /\ Grafted(h, old, <<i, n>>, g, w, R) /\ R \in SUBSET DOMAIN h
  BY <1>1, <1>2
<1>9. Solely(ds, g)
  BY ONLY <1>3, <1>5, <1>6, <1>7, <1>8, OperandGrafted
<1> QED
  BY <1>9, BecomesTree

(* A generated value takes the place, ... *)
LEMMA NewValueKeepsTree ==
  ASSUME Sound, Sound', Tree, NEW i \in DOMAIN calls, NEW n, NEW r \in GenerateValue(heap, i),
         NEW c \in Call, OperandIs(calls[i], n, r.value, c),
         NEW ds, ds = [calls EXCEPT ![i] = c], NEW name, Become(ds, r.heap, name)
  PROVE  Tree'
<1>1. PICK h : h = heap
  OBVIOUS
<1>2. PICK cs : cs = calls
  OBVIOUS
<1>3. Solid(cs, h) /\ OnePlace(cs, h) /\ Whole(h) /\ IsHeap(h) /\ i \in Position
  BY <1>1, <1>2, TreePlaces, SolidIs DEF Sound, Whole
<1>4. PICK old : Placed(Store(cs, h), DOMAIN cs \cup DOMAIN h, old)
  BY <1>3 DEF OnePlace
<1>5. Placed(h, DOMAIN h, old)
  BY <1>3, <1>4, OldPlaces
<1>6. PICK g : g = r.heap
  OBVIOUS
<1>7. PICK w : w = r.value
  OBVIOUS
<1>8. Planted(h, g) /\ Sprouted(h, g, <<w>>)
  BY <1>1, <1>3, <1>6, <1>7, GeneratedValue, ValueSprouts
<1>9. IsHeap(g) /\ Grows(h, g) /\ Copied(h, g)
  BY <1>8, PlantedIsCopied DEF Planted
<1>10. PICK q : q = <<i, n>>
  OBVIOUS
<1>11. PICK R : R = {}
  OBVIOUS
<1>12. Grafted(h, old, q, g, w, {})
  BY <1>3, <1>5, <1>8, <1>9, SproutGrafted
<1>13. /\ Placed(Store(calls, heap), DOMAIN calls \cup DOMAIN heap, old) /\ Copied(heap, g) /\ IsHeap(g)
       /\ R \in SUBSET DOMAIN heap /\ Grafted(heap, old, <<i, n>>, g, w, R)
       /\ OperandIs(calls[i], n, w, c) /\ Become(ds, g, name)
  BY <1>1, <1>2, <1>4, <1>6, <1>7, <1>9, <1>10, <1>11, <1>12
<1> QED
  BY <1>13, OperandKeepsTree

(* ... or what a mutated value became. *)
LEMMA ValueKeepsTree ==
  ASSUME Sound, Sound', Tree, NEW i \in DOMAIN calls, NEW n \in DOMAIN Operands(calls[i]),
         NEW v, v = Operands(calls[i])[n], v \in CallValues(calls[i]), NEW r \in MutateValue(heap, v, i),
         NEW c \in Call, OperandIs(calls[i], n, r.value, c),
         NEW ds, ds = [calls EXCEPT ![i] = c], NEW name, Become(ds, r.heap, name)
  PROVE  Tree'
<1>1. PICK h : h = heap
  OBVIOUS
<1>2. PICK cs : cs = calls
  OBVIOUS
<1>3. Solid(cs, h) /\ OnePlace(cs, h) /\ lastMutator \in MutatorName
  BY <1>1, <1>2, TreePlaces DEF Sound
<1>4. Copied(heap, heap)
  BY <1>1, <1>3, NothingCopied, SolidIs DEF Whole
<1>5. Whole(h) /\ Sized(h) /\ i \in Position /\ Usable(h, v, i)
  BY <1>1, <1>4, OldOperands
<1>6. PICK old : Placed(Store(cs, h), DOMAIN cs \cup DOMAIN h, old)
  BY <1>3 DEF OnePlace
<1>7. Placed(h, DOMAIN h, old) /\ (v \in Arrays => old[v] = <<i, n>>)
  BY <1>2, <1>3, <1>6, OldPlaces
<1>8. PICK q : q = <<i, n>>
  OBVIOUS
<1>9. q[1] \notin Arrays /\ (v \in Arrays => old[v] = q)
  BY <1>5, <1>7, <1>8, ReferencesAssumption
<1>10. r \in MutateValue(h, v, i)
  BY <1>1
<1>11. PICK R \in SUBSET DOMAIN h : Grafted(h, old, q, r.heap, r.value, R)
  BY ONLY <1>3, <1>5, <1>7, <1>9, <1>10, ValueGrafted
<1>12. Changed(h, r, i)
  BY ONLY <1>3, <1>5, <1>10, MutatedValue
<1>13. PICK g : g = r.heap
  OBVIOUS
<1>14. PICK w : w = r.value
  OBVIOUS
<1>15. Copied(h, g) /\ IsHeap(g)
  BY <1>12, <1>13 DEF Changed, Copied
<1>16. /\ Placed(Store(calls, heap), DOMAIN calls \cup DOMAIN heap, old) /\ Copied(heap, g) /\ IsHeap(g)
       /\ R \in SUBSET DOMAIN heap /\ Grafted(heap, old, <<i, n>>, g, w, R)
       /\ OperandIs(calls[i], n, w, c) /\ Become(ds, g, name)
  BY <1>1, <1>2, <1>6, <1>8, <1>11, <1>13, <1>14, <1>15
<1> QED
  BY <1>16, OperandKeepsTree

LEMMA ThisIs ==
  ASSUME NEW x \in Call, NEW c \in Call, c.args = x.args
  PROVE  OperandIs(x, 0, c.this, c)
<1>1. /\ DOMAIN Operands(c) = {0} \cup DOMAIN c.args /\ DOMAIN Operands(x) = {0} \cup DOMAIN c.args
      /\ Operands(c)[0] = c.this /\ 0 \notin DOMAIN c.args
      /\ \A k \in DOMAIN c.args : Operands(c)[k] = c.args[k] /\ Operands(x)[k] = c.args[k]
  BY OperandsAre
<1> QED
  BY <1>1 DEF OperandIs

LEMMA ArgumentIs ==
  ASSUME NEW x \in Call, NEW c \in Call, c.this = x.this, NEW n, n # 0, NEW w,
         \A k \in DOMAIN c.args :
           \/ k = n /\ c.args[k] = w
           \/ k # n /\ k \in DOMAIN x.args /\ c.args[k] = x.args[k]
  PROVE  OperandIs(x, n, w, c)
<1>1. /\ DOMAIN Operands(c) = {0} \cup DOMAIN c.args /\ DOMAIN Operands(x) = {0} \cup DOMAIN x.args
      /\ Operands(c)[0] = Operands(x)[0]
      /\ \A k \in DOMAIN c.args : Operands(c)[k] = c.args[k]
      /\ \A k \in DOMAIN x.args : Operands(x)[k] = x.args[k]
  BY OperandsAre
<1> QED
  BY <1>1 DEF OperandIs

(* The new argument is the last operand. *)
LEMMA AddArgumentKeepsTree ==
  ASSUME Sound, Sound', Tree, NEW i \in DOMAIN calls, AddArgument(i)
  PROVE  Tree'
<1>1. PICK r \in GenerateValue(heap, i) :
        Become([calls EXCEPT ![i].args = Append(@, r.value)], r.heap, "AddArgument")
  BY DEF AddArgument
<1>2. calls[i] \in Call /\ i \in Position /\ IsHeap(heap)
  BY SolidIs DEF Sound, Whole
<1>3. PICK e \in Value : e = r.value
  <2>1. Planted(heap, r.heap) /\ Backed(heap, r.heap, r.value, i)
    BY <1>1, <1>2, GeneratedValue
  <2> QED
    BY <1>2, <2>1, BackedIsUsable, UsableIsValue DEF Planted
<1>4. PICK s \in Seq(Value) : s = calls[i].args /\ calls[i] = [calls[i] EXCEPT !.args = s]
  BY <1>2 DEF Call
<1>5. PICK t : t = Append(s, e)
  OBVIOUS
<1>6. PICK n \in Nat : n = Len(s) + 1 /\ n # 0
  OBVIOUS
<1>7. /\ t \in Seq(Value) /\ DOMAIN t = 1 .. n /\ t[n] = e
      /\ \A k \in 1 .. n : k # n => k \in DOMAIN s /\ t[k] = s[k]
  BY <1>5, <1>6
<1>8. PICK c : c = [calls[i] EXCEPT !.args = t]
  OBVIOUS
<1>9. c \in Call /\ c.args = t /\ c.this = calls[i].this
  BY <1>2, <1>7, <1>8 DEF Call
<1>10. OperandIs(calls[i], n, e, c)
  <2>1. \A k \in DOMAIN c.args : \/ k = n /\ c.args[k] = e
                                 \/ k # n /\ k \in DOMAIN calls[i].args /\ c.args[k] = calls[i].args[k]
    BY <1>4, <1>7, <1>9
  <2> QED
    BY <1>2, <1>6, <1>9, <2>1, ArgumentIs
<1>11. PICK ds : ds = [calls EXCEPT ![i] = c]
  OBVIOUS
<1>12. Become(ds, r.heap, "AddArgument")
  BY <1>1, <1>3, <1>4, <1>5, <1>8, <1>11
<1>13. OperandIs(calls[i], n, r.value, c)
  BY <1>3, <1>10
<1> QED
  BY <1>1, <1>9, <1>11, <1>12, <1>13, NewValueKeepsTree

(* The receiver is operand 0. *)
LEMMA MutateThisKeepsTree ==
  ASSUME Sound, Sound', Tree, NEW i \in DOMAIN calls, MutateThis(i)
  PROVE  Tree'
<1>1. calls[i] \in Call /\ i \in Position /\ IsHeap(heap)
  BY SolidIs DEF Sound, Whole
<1>2. ASSUME NEW e, NEW g, NEW name, Become([calls EXCEPT ![i].this = e], g, name), e \in Value
      PROVE  \E c \in Call : /\ OperandIs(calls[i], 0, e, c)
                             /\ Become([calls EXCEPT ![i] = c], g, name)
  <2>1. PICK c : c = [calls[i] EXCEPT !.this = e]
    OBVIOUS
  <2>2. c \in Call /\ c.this = e /\ c.args = calls[i].args
    BY <1>1, <1>2, <2>1 DEF Call
  <2>3. OperandIs(calls[i], 0, e, c)
    BY <1>1, <2>2, ThisIs
  <2>4. [calls EXCEPT ![i].this = e] = [calls EXCEPT ![i] = c]
    BY <2>1
  <2> QED
    BY <1>2, <2>2, <2>3, <2>4
<1>3. CASE calls[i].this # NoThis
  <2>1. PICK v : v = calls[i].this
    OBVIOUS
  <2>2. PICK r \in MutateValue(heap, v, i) : Become([calls EXCEPT ![i].this = r.value], r.heap, r.name)
    BY <1>3, <2>1 DEF MutateThis
  <2>3. 0 \in DOMAIN Operands(calls[i]) /\ v = Operands(calls[i])[0] /\ v \in CallValues(calls[i])
    BY <1>1, <1>3, <2>1, OperandsAre DEF CallValues
  <2>4. r.value \in Value
    <3>1. PICK h : h = heap
      OBVIOUS
    <3>2. Copied(heap, heap)
      BY <1>1, NothingCopied
    <3>3. Whole(h) /\ Sized(h) /\ Usable(h, v, i) /\ lastMutator \in MutatorName /\ i \in Position
      BY <1>1, <2>3, <3>1, <3>2, OldOperands DEF Sound
    <3>4. r \in MutateValue(h, v, i)
      BY <2>2, <3>1
    <3>5. Changed(h, r, i)
      BY ONLY <3>3, <3>4, MutatedValue
    <3> QED
      BY <1>1, <3>5, UsableIsValue DEF Changed, Copied
  <2>5. PICK e \in Value : e = r.value
    BY <2>4
  <2>6. PICK g : g = r.heap
    OBVIOUS
  <2>7. PICK name : name = r.name
    OBVIOUS
  <2>8. PICK c \in Call : OperandIs(calls[i], 0, e, c) /\ Become([calls EXCEPT ![i] = c], g, name)
    BY <1>2, <2>2, <2>5, <2>6, <2>7
  <2>9. PICK ds : ds = [calls EXCEPT ![i] = c]
    OBVIOUS
  <2>10. OperandIs(calls[i], 0, r.value, c) /\ Become(ds, r.heap, name)
    BY <2>5, <2>6, <2>8, <2>9
  <2> QED
    BY <2>2, <2>3, <2>9, <2>10, ValueKeepsTree
<1>4. CASE calls[i].this = NoThis
  <2>1. PICK r \in GenerateValue(heap, i) :
          Become([calls EXCEPT ![i].this = r.value], r.heap, lastMutator)
    BY <1>4 DEF MutateThis
  <2>2. PICK e \in Value : e = r.value
    <3>1. Planted(heap, r.heap) /\ Backed(heap, r.heap, r.value, i)
      BY <1>1, <2>1, GeneratedValue
    <3> QED
      BY <1>1, <3>1, BackedIsUsable, UsableIsValue DEF Planted
  <2>3. PICK g : g = r.heap
    OBVIOUS
  <2>4. PICK name : name = lastMutator
    OBVIOUS
  <2>5. PICK c \in Call : OperandIs(calls[i], 0, e, c) /\ Become([calls EXCEPT ![i] = c], g, name)
    BY <1>2, <2>1, <2>2, <2>3, <2>4
  <2>6. PICK ds : ds = [calls EXCEPT ![i] = c]
    OBVIOUS
  <2>7. OperandIs(calls[i], 0, r.value, c) /\ Become(ds, r.heap, name)
    BY <2>2, <2>3, <2>5, <2>6
  <2> QED
    BY <2>1, <2>6, <2>7, NewValueKeepsTree
<1> QED
  BY <1>3, <1>4

(* An argument is mutated: whichever value takes its place, a tree stays one. *)
LEMMA MutateArgumentKeepsTree ==
  ASSUME Sound, Sound', Tree, NEW i \in DOMAIN calls, MutateArgument(i)
  PROVE  Tree'
<1>1. calls[i] \in Call /\ i \in Position /\ IsHeap(heap)
  BY SolidIs DEF Sound, Whole
<1>2. PICK s \in Seq(Value) : s = calls[i].args /\ calls[i] = [calls[i] EXCEPT !.args = s]
  BY <1>1 DEF Call
<1>3. PICK n \in DOMAIN s : \E r \in MutateValue(heap, s[n], i) :
        Become([calls EXCEPT ![i].args[n] = r.value], r.heap, r.name)
  BY <1>2 DEF MutateArgument
<1>4. PICK v : v = s[n]
  OBVIOUS
<1>5. PICK r \in MutateValue(heap, v, i) : Become([calls EXCEPT ![i].args[n] = r.value], r.heap, r.name)
  BY <1>3, <1>4
<1>6. n \in DOMAIN Operands(calls[i]) /\ v = Operands(calls[i])[n] /\ n # 0
  BY <1>1, <1>2, <1>4, OperandsAre
<1>7. v \in CallValues(calls[i])
  BY <1>2, <1>4 DEF CallValues, Range
<1>8. r.value \in Value
  <2>1. PICK h : h = heap
    OBVIOUS
  <2>2. Copied(heap, heap)
    BY <1>1, NothingCopied
  <2>3. Whole(h) /\ Sized(h) /\ Usable(h, v, i) /\ lastMutator \in MutatorName /\ i \in Position
    BY <1>1, <1>7, <2>1, <2>2, OldOperands DEF Sound
  <2>4. r \in MutateValue(h, v, i)
    BY <1>5, <2>1
  <2>5. Changed(h, r, i)
    BY ONLY <2>3, <2>4, MutatedValue
  <2> QED
    BY <1>1, <2>5, UsableIsValue DEF Changed, Copied
<1>9. PICK e \in Value : e = r.value
  BY <1>8
<1>10. PICK t : t = [s EXCEPT ![n] = e]
  OBVIOUS
<1>11. t \in Seq(Value) /\ DOMAIN t = DOMAIN s /\ \A k \in DOMAIN s : t[k] = IF k = n THEN e ELSE s[k]
  <2>1. PICK S : S = Value
    OBVIOUS
  <2>2. s \in Seq(S) /\ n \in DOMAIN s /\ e \in S
    BY <2>1
  <2>3. Replaced(S, s, e, [s EXCEPT ![n] = e])
    BY ONLY <2>2, ExceptIs
  <2> QED
    BY <1>10, <2>1, <2>3 DEF Replaced
<1>12. PICK c : c = [calls[i] EXCEPT !.args = t]
  OBVIOUS
<1>13. c \in Call /\ c.args = t /\ c.this = calls[i].this
  BY <1>1, <1>11, <1>12 DEF Call
<1>14. OperandIs(calls[i], n, e, c)
  <2>1. \A k \in DOMAIN c.args : \/ k = n /\ c.args[k] = e
                                 \/ k # n /\ k \in DOMAIN calls[i].args /\ c.args[k] = calls[i].args[k]
    BY <1>2, <1>11, <1>13
  <2> QED
    BY <1>1, <1>6, <1>13, <2>1, ArgumentIs
<1>15. PICK ds : ds = [calls EXCEPT ![i] = c]
  OBVIOUS
<1>16. PICK name : name = r.name
  OBVIOUS
<1>17. [calls EXCEPT ![i].args[n] = r.value] = [calls EXCEPT ![i] = c]
  BY <1>2, <1>9, <1>10, <1>12
<1>18. OperandIs(calls[i], n, r.value, c) /\ Become(ds, r.heap, name)
  BY <1>5, <1>9, <1>14, <1>15, <1>16, <1>17
<1> QED
  BY <1>5, <1>6, <1>7, <1>13, <1>15, <1>18, ValueKeepsTree

(* No operand gets an array that was not there. *)
LEMMA MovesKeepTree ==
  ASSUME Sound, Sound', Tree, NEW ds, DOMAIN ds \subseteq Position, NEW to, Moves(calls, ds, to),
         NEW name, Become(ds, heap, name)
  PROVE  Tree'
<1>1. PICK cs : cs = calls
  OBVIOUS
<1>2. PICK h : h = heap
  OBVIOUS
<1>3. Solid(cs, h) /\ OnePlace(cs, h) /\ Moves(cs, ds, to) /\ DOMAIN h \subseteq Arrays
  BY <1>1, <1>2, TreePlaces, SolidIs DEF Sound, Whole, IsHeap
<1>4. OnePlace(ds, h)
  BY <1>3, MovedPlaces
<1>5. Solely(ds, h)
  BY <1>3, <1>4, PlacesAreSole
<1>6. Become(ds, h, name)
  BY <1>2
<1> QED
  BY <1>5, <1>6, BecomesTree

(* Nothing that is in use changes its place. *)
LEMMA SamePlacesKeepTree ==
  ASSUME Sound, Sound', Tree, NEW ds, DOMAIN ds = DOMAIN calls,
         \A j \in DOMAIN calls : \A k \in DOMAIN Operands(ds[j]) : Operands(ds[j])[k] \in Arrays =>
           k \in DOMAIN Operands(calls[j]) /\ Operands(ds[j])[k] = Operands(calls[j])[k],
         NEW name, Become(ds, heap, name)
  PROVE  Tree'
<1>1. \A i \in DOMAIN calls : i \in Position /\ calls[i] \in Call /\ DOMAIN Operands(calls[i]) \subseteq Nat
  BY SolidIs, OperandNumbers DEF Sound
<1>2. PICK to : to = [t \in Position \X Nat |-> t]
  OBVIOUS
<1>3. \A j \in DOMAIN calls : \A k \in DOMAIN Operands(calls[j]) : to[<<j, k>>] = <<j, k>>
  BY <1>1, <1>2
<1>4. Moves(calls, ds, to)
  BY <1>3 DEF Moves
<1>5. DOMAIN ds \subseteq Position
  BY <1>1
<1> QED
  BY <1>4, <1>5, MovesKeepTree

(* The arguments after the removed one move down by one place. *)
LEMMA RemoveArgumentKeepsTree ==
  ASSUME Sound, Sound', Tree, NEW i \in DOMAIN calls, RemoveArgument(i)
  PROVE  Tree'
<1>1. PICK n \in DOMAIN calls[i].args :
        Become([calls EXCEPT ![i].args = RemoveAt(@, n)], heap, "RemoveArgument")
  BY DEF RemoveArgument
<1>2. \A j \in DOMAIN calls : j \in Position /\ calls[j] \in Call /\ DOMAIN Operands(calls[j]) \subseteq Nat
  BY SolidIs, OperandNumbers DEF Sound
<1>3. PICK s \in Seq(Value) : s = calls[i].args /\ calls[i] = [calls[i] EXCEPT !.args = s]
  BY <1>2 DEF Call
<1>4. PICK l \in Nat : l = Len(s) /\ DOMAIN s = 1 .. l /\ n \in 1 .. l
  BY <1>3
<1>5. PICK t : t = RemoveAt(s, n)
  OBVIOUS
<1>6. /\ t \in Seq(Value) /\ DOMAIN t = 1 .. (l - 1)
      /\ \A k \in 1 .. (l - 1) : t[k] = IF k < n THEN s[k] ELSE s[k + 1]
  <2>1. n \in 1 .. Len(s)
    BY <1>4
  <2>2. /\ t \in Seq(Value) /\ Len(t) = Len(s) - 1 /\ DOMAIN t = 1 .. (Len(s) - 1)
        /\ \A k \in 1 .. (Len(s) - 1) : t[k] = IF k < n THEN s[k] ELSE s[k + 1]
    BY <2>1, <1>5, RemoveAtIs
  <2> QED
    BY <1>4, <2>2
<1>7. PICK c : c = [calls[i] EXCEPT !.args = t]
  OBVIOUS
<1>8. c \in Call /\ c.args = t /\ c.this = calls[i].this
  BY <1>2, <1>6, <1>7 DEF Call
<1>9. PICK ds : ds = [calls EXCEPT ![i] = c]
  OBVIOUS
<1>10. Become(ds, heap, "RemoveArgument")
  BY <1>1, <1>3, <1>5, <1>7, <1>9
<1>11. DOMAIN ds = DOMAIN calls /\ ds[i] = c /\ \A j \in DOMAIN calls : j # i => ds[j] = calls[j]
  BY <1>9
<1>12. PICK to : to = [x \in Position \X Nat |-> IF x[1] = i /\ x[2] > n THEN <<i, x[2] - 1>> ELSE x]
  OBVIOUS
<1>13. \A j \in Position : \A k \in Nat : to[<<j, k>>] = IF j = i /\ k > n THEN <<i, k - 1>> ELSE <<j, k>>
  BY <1>12
<1>14. ASSUME NEW j \in DOMAIN calls, NEW k \in DOMAIN Operands(ds[j])
       PROVE  \E m \in DOMAIN Operands(calls[j]) : Operands(calls[j])[m] = Operands(ds[j])[k] /\ to[<<j, m>>] = <<j, k>>
  <2>1. CASE j # i
    <3>1. ds[j] = calls[j] /\ k \in Nat /\ j \in Position
      BY <1>2, <1>11, <2>1
    <3>2. to[<<j, k>>] = <<j, k>>
      BY <1>13, <2>1, <3>1
    <3> QED
      BY <3>1, <3>2
  <2>2. CASE j = i
    <3>1. /\ DOMAIN Operands(c) = {0} \cup 1 .. (l - 1) /\ DOMAIN Operands(calls[i]) = {0} \cup 1 .. l
          /\ Operands(c)[0] = Operands(calls[i])[0]
          /\ \A m \in 1 .. (l - 1) : Operands(c)[m] = t[m]
          /\ \A m \in 1 .. l : Operands(calls[i])[m] = s[m]
      BY <1>2, <1>3, <1>4, <1>6, <1>8, OperandsAre
    <3>2. ds[j] = c /\ i \in Position
      BY <1>2, <1>11, <2>2
    <3>3. CASE k = 0
      <4>1. 0 \in Nat /\ ~(0 > n)
        BY <1>4
      <4>2. to[<<i, 0>>] = <<i, 0>>
        BY ONLY <1>13, <3>2, <4>1
      <4> QED
        BY <2>2, <3>1, <3>2, <3>3, <4>2
    <3>4. CASE k \in 1 .. (l - 1) /\ k < n
      <4>1. k \in 1 .. l /\ k \in Nat /\ ~(k > n)
        BY <1>4, <3>4
      <4>2. to[<<i, k>>] = <<i, k>>
        BY <1>13, <3>2, <4>1
      <4>3. Operands(c)[k] = s[k]
        BY <1>6, <3>1, <3>4
      <4> QED
        BY <2>2, <3>1, <3>2, <4>1, <4>2, <4>3
    <3>5. CASE k \in 1 .. (l - 1) /\ ~(k < n)
      <4>1. k + 1 \in 1 .. l /\ k + 1 \in Nat /\ k + 1 > n /\ (k + 1) - 1 = k
        BY <1>4, <3>5
      <4>2. to[<<i, k + 1>>] = <<i, k>>
        BY <1>13, <3>2, <4>1
      <4>3. Operands(c)[k] = s[k + 1]
        BY <1>6, <3>1, <3>5
      <4> QED
        BY <2>2, <3>1, <3>2, <4>1, <4>2, <4>3
    <3> QED
      BY <3>1, <3>2, <3>3, <3>4, <3>5
  <2> QED
    BY <2>1, <2>2
<1>15. Moves(calls, ds, to)
  BY <1>11, <1>14 DEF Moves
<1>16. DOMAIN ds \subseteq Position
  BY <1>2, <1>11
<1> QED
  BY <1>10, <1>15, <1>16, MovesKeepTree

(* The flag of a constructor is no value. *)
LEMMA MutateCtorKeepsTree ==
  ASSUME Sound, Sound', Tree, NEW i \in DOMAIN calls, MutateCtor(i)
  PROVE  Tree'
<1>1. calls[i] \in Call
  BY SolidIs DEF Sound
<1>2. PICK ds : ds = [calls EXCEPT ![i].ctor = ~@]
  OBVIOUS
<1>3. /\ DOMAIN ds = DOMAIN calls /\ ds[i].args = calls[i].args /\ ds[i].this = calls[i].this
      /\ \A j \in DOMAIN calls : j # i => ds[j] = calls[j]
  BY <1>1, <1>2 DEF Call
<1>4. Operands(ds[i]) = Operands(calls[i])
  BY <1>3 DEF Operands
<1>5. \A j \in DOMAIN calls : \A k \in DOMAIN Operands(ds[j]) : Operands(ds[j])[k] \in Arrays =>
        k \in DOMAIN Operands(calls[j]) /\ Operands(ds[j])[k] = Operands(calls[j])[k]
  BY <1>3, <1>4
<1>6. Become(ds, heap, "MutateCtor")
  BY <1>2 DEF MutateCtor
<1> QED
  BY <1>3, <1>5, <1>6, SamePlacesKeepTree

(* A file has a value for every receiver, and the values are where they were. *)
LEMMA SaveAndLoadKeepsTree ==
  ASSUME Sound, Sound', Tree, SaveAndLoad
  PROVE  Tree'
<1>1. PICK ds : ds = [i \in DOMAIN calls |-> [calls[i] EXCEPT !.this = IF @ = NoThis THEN Scalar ELSE @]]
  OBVIOUS
<1>2. DOMAIN ds = DOMAIN calls
  BY <1>1
<1>3. ASSUME NEW j \in DOMAIN calls, NEW k \in DOMAIN Operands(ds[j]), Operands(ds[j])[k] \in Arrays
      PROVE  k \in DOMAIN Operands(calls[j]) /\ Operands(ds[j])[k] = Operands(calls[j])[k]
  <2>1. calls[j] \in Call
    BY SolidIs DEF Sound
  <2>2. PICK e : e = IF calls[j].this = NoThis THEN Scalar ELSE calls[j].this
    OBVIOUS
  <2>3. ds[j] = [calls[j] EXCEPT !.this = e]
    BY <1>1, <2>2
  <2>4. ds[j].this = e /\ ds[j].args = calls[j].args /\ ds[j] \in Call
    BY <2>1, <2>2, <2>3 DEF Call, Value
  <2>5. /\ DOMAIN Operands(ds[j]) = DOMAIN Operands(calls[j])
        /\ Operands(ds[j])[0] = e /\ Operands(calls[j])[0] = calls[j].this
        /\ \A n \in DOMAIN Operands(ds[j]) : n # 0 => Operands(ds[j])[n] = Operands(calls[j])[n]
    <3>1. PICK a : a = calls[j].args
      OBVIOUS
    <3>2. /\ DOMAIN Operands(ds[j]) = {0} \cup DOMAIN a /\ 0 \notin DOMAIN a
          /\ Operands(ds[j])[0] = e /\ \A n \in DOMAIN a : Operands(ds[j])[n] = a[n]
      <4>1. PICK d : d = ds[j]
        OBVIOUS
      <4>2. d \in Call /\ d.this = e /\ d.args = a
        BY <2>4, <3>1, <4>1
      <4>3. /\ DOMAIN Operands(d) = {0} \cup DOMAIN d.args /\ 0 \notin DOMAIN d.args
            /\ Operands(d)[0] = d.this /\ \A n \in DOMAIN d.args : Operands(d)[n] = d.args[n]
        BY <4>2, OperandsAre
      <4> QED
        BY ONLY <4>1, <4>2, <4>3
    <3>3. /\ DOMAIN Operands(calls[j]) = {0} \cup DOMAIN a
          /\ Operands(calls[j])[0] = calls[j].this /\ \A n \in DOMAIN a : Operands(calls[j])[n] = a[n]
      <4>1. PICK d : d = calls[j]
        OBVIOUS
      <4>2. d \in Call /\ d.args = a
        BY <2>1, <3>1, <4>1
      <4>3. /\ DOMAIN Operands(d) = {0} \cup DOMAIN d.args
            /\ Operands(d)[0] = d.this /\ \A n \in DOMAIN d.args : Operands(d)[n] = d.args[n]
        BY <4>2, OperandsAre
      <4> QED
        BY ONLY <4>1, <4>2, <4>3
    <3> QED
      BY ONLY <3>2, <3>3
  <2>6. e \in Arrays => e = calls[j].this
    BY <2>2, ReferencesAssumption
  <2> QED
    BY <1>3, <2>5, <2>6
<1>4. Become(ds, heap, "")
  BY <1>1 DEF SaveAndLoad
<1>5. \A j \in DOMAIN calls : \A k \in DOMAIN Operands(ds[j]) : Operands(ds[j])[k] \in Arrays =>
        k \in DOMAIN Operands(calls[j]) /\ Operands(ds[j])[k] = Operands(calls[j])[k]
  BY <1>3
<1> QED
  BY <1>2, <1>4, <1>5, SamePlacesKeepTree

(* Inserting and removing calls. *)
LEMMA TidiedIsTree ==
  ASSUME Sound', Tidied
  PROVE  Tree'
<1>1. PICK m : heap' = Restrict(m, LiveArrays(calls', m)) /\ DOMAIN m \subseteq Arrays /\ OnePlace(calls', m)
  BY DEF Tidied
<1>2. Solid(calls', heap')
  BY DEF Sound
<1>3. PICK cs : cs = calls'
  OBVIOUS
<1>4. PICK h : h = heap'
  OBVIOUS
<1>5. Solely(cs, m)
  BY <1>1, <1>3, PlacesAreSole
<1>6. TreeOf(cs, h)
  BY <1>1, <1>2, <1>3, <1>4, <1>5, SolelyIsTree
<1> QED
  BY <1>3, <1>4, <1>6 DEF TreeOf, Tree, Places

(* No step of the mutator makes a second place. *)
LEMMA StepKeepsTree ==
  ASSUME Sound, Sound', Tree, [Next]_vars
  PROVE  Tree'
<1>1. ASSUME NEW k \in 1 .. (Len(calls) + 1), AddFunctionCall(k)
      PROVE  Tree'
  BY <1>1, TreePlaces, AddFunctionCallInserts, TidiedIsTree
<1>2. ASSUME NEW k \in DOMAIN calls, RemoveFunctionCall(k)
      PROVE  Tree'
  BY <1>2, TreePlaces, RemoveFunctionCallRemoves, TidiedIsTree
<1>3. ASSUME NEW i \in DOMAIN calls,
             \/ MutateThis(i) \/ MutateCtor(i) \/ AddArgument(i)
             \/ RemoveArgument(i) \/ MutateArgument(i)
      PROVE  Tree'
  BY <1>3, MutateThisKeepsTree, MutateCtorKeepsTree, AddArgumentKeepsTree, RemoveArgumentKeepsTree,
     MutateArgumentKeepsTree
<1>4. CASE SaveAndLoad
  BY <1>4, SaveAndLoadKeepsTree
<1>5. CASE UNCHANGED vars
  BY <1>5 DEF vars, Tree, Places
<1> QED
  BY <1>1, <1>2, <1>3, <1>4, <1>5 DEF Next

(* A tree stays a tree: where every array has one place, no step gives one a
   second place or puts it into itself. *)
THEOREM TreesKept == Spec => TreesStayTrees
<1>1. Sound /\ Sound' /\ [Next]_vars => [Tree => Tree']_vars
  BY StepKeepsTree
<1> QED
  BY <1>1, SoundAlways, PTL DEF Spec, TreesStayTrees
=============================================================================
