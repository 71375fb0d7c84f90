------------------------------ MODULE MCMutator ------------------------------
EXTENDS TestCaseMutator

CONSTANTS a1, a2, f

(* What the generator makes: one call, and the mutators do the rest. *)
OneCall(this, args) == [callee |-> f, this |-> this, ctor |-> FALSE, args |-> args]
NoArrays == [a \in {} |-> <<>>]
GeneratedSeeds == {[calls |-> <<OneCall(NoThis, <<>>)>>, heap |-> NoArrays]}

(* What a file may hold besides: one array used by two calls, and two arrays
   that contain each other, one next to a reference. *)
SharedSeeds ==
  {[calls |-> <<OneCall(Scalar, <<>>), OneCall(a1, <<>>), OneCall(Scalar, <<a1>>)>>,
    heap |-> (a1 :> <<1>>)]}
CyclicSeeds ==
  {[calls |-> <<OneCall(Scalar, <<>>), OneCall(Scalar, <<a1>>)>>,
    heap |-> (a1 :> <<a2>>) @@ (a2 :> <<1, a1>>)]}
AllSeeds == GeneratedSeeds \cup SharedSeeds \cup CyclicSeeds

\* The theorems about CallRefs apply to these seeds.
ASSUME StartsAssumption == Refs!MaxCallsAssumption /\ Refs!StartsAssumption

Symmetry == Permutations(Arrays) \cup Permutations(Functions)

(* No action reads ctor or, as far as calls and heap go, lastMutator. *)
References == <<[i \in DOMAIN calls |-> <<calls[i].callee, calls[i].this, calls[i].args>>], heap>>
=============================================================================
