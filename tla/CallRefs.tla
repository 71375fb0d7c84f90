------------------------------ MODULE CallRefs ------------------------------
(***************************************************************************)
(* What mutating a test case promises about its references.               *)
(*                                                                         *)
(* A CAF test case is a sequence of API calls; a value handed to a call    *)
(* may be a placeholder that stands for the return value of another call   *)
(* of the sequence.  Everything downstream (TestCaseSerializer,            *)
(* SynthesisBuilder, the targets) resolves a placeholder against the calls *)
(* that came before, so what matters about a test case here is, for each   *)
(* call, the function it calls and the set of calls whose results it uses. *)
(*                                                                         *)
(* callees[i] is the function call i calls, which no mutator changes: it   *)
(* tells the calls apart when their positions change.                      *)
(* refs[i] is the set of positions call i refers to.  Positions count from *)
(* 1: position i is the code's call index i - 1.  TestCaseMutator is shown *)
(* to implement this specification.                                        *)
(***************************************************************************)
EXTENDS Naturals, Sequences

CONSTANTS
  MaxCalls,   \* TestCaseGenerator::Options::MaxCalls
  Functions,  \* the functions of the target's API
  Starts      \* the test cases a session may start from

Earlier(i) == 1 .. (i - 1)

(* What the theorems assume of the constants; MCMutator checks it for its own. *)
MaxCallsAssumption == MaxCalls \in Nat \ {0}
StartsAssumption ==
  \A s \in Starts :
    /\ s.refs \in Seq(SUBSET (1 .. MaxCalls))
    /\ Len(s.refs) \in 1 .. MaxCalls
    /\ \A i \in 1 .. Len(s.refs) : s.refs[i] \subseteq Earlier(i)
    /\ s.callees \in [1 .. Len(s.refs) -> Functions]

VARIABLES callees, refs

vars == <<callees, refs>>

(* A reference to position j after a call was inserted at position k, and
   after the call at position k was removed. *)
ShiftUp(k, j)   == IF j >= k THEN j + 1 ELSE j
ShiftDown(k, j) == IF j > k THEN j - 1 ELSE j

Init == \E s \in Starts : callees = s.callees /\ refs = s.refs

(* A new call to f appears at position k; every other call keeps referring to
   the calls it referred to. *)
Insert(k, f, new) ==
  /\ Len(refs) < MaxCalls
  /\ callees' = [i \in 1 .. (Len(refs) + 1) |->
                   IF i < k THEN callees[i] ELSE IF i = k THEN f ELSE callees[i - 1]]
  /\ refs' = [i \in 1 .. (Len(refs) + 1) |->
                IF i < k THEN refs[i]
                ELSE IF i = k THEN new
                ELSE {ShiftUp(k, j) : j \in refs[i - 1]}]

(* The call at position k goes.  A call that used its result uses something
   else instead (fill), the other calls keep their references. *)
Users(k) == {i \in k .. (Len(refs) - 1) : k \in refs[i + 1]}

Remove(k, fill) ==
  /\ Len(refs) > 1
  /\ callees' = [i \in 1 .. (Len(refs) - 1) |->
                   IF i < k THEN callees[i] ELSE callees[i + 1]]
  /\ refs' = [i \in 1 .. (Len(refs) - 1) |->
                IF i < k THEN refs[i]
                ELSE {ShiftDown(k, j) : j \in refs[i + 1] \ {k}}
                       \cup (IF i \in Users(k) THEN fill[i] ELSE {})]

(* One call's operands change, and only that call's. *)
Rewrite(i, new) ==
  /\ refs' = [refs EXCEPT ![i] = new]
  /\ UNCHANGED callees

Next ==
  \/ \E k \in 1 .. (Len(refs) + 1) : \E f \in Functions : \E new \in SUBSET Earlier(k) :
       Insert(k, f, new)
  \/ \E k \in 1 .. Len(refs) :
       \E fill \in [Users(k) -> SUBSET Earlier(MaxCalls - 1)] :
         /\ \A i \in Users(k) : fill[i] \subseteq Earlier(i)
         /\ Remove(k, fill)
  \/ \E i \in 1 .. Len(refs) : \E new \in SUBSET Earlier(i) : Rewrite(i, new)

Spec == Init /\ [][Next]_vars

-----------------------------------------------------------------------------
TypeOK ==
  /\ refs \in Seq(SUBSET (1 .. MaxCalls))
  /\ Len(refs) \in 1 .. MaxCalls
  /\ callees \in [1 .. Len(refs) -> Functions]

(* Every call refers only to calls made before it, so the value behind a
   placeholder exists by the time the placeholder is read. *)
BackwardRefs == \A i \in 1 .. Len(refs) : refs[i] \subseteq Earlier(i)
=============================================================================
