---------------------------- MODULE MCWireFormat ----------------------------
(* Test cases of two calls that share two arrays: every way the arrays can hold
   each other, themselves and a reference, and the ways the calls use them. *)
EXTENDS WireFormat, SequencesExt

CONSTANTS a1, a2, other, fs

Holding == BoundedSeq({other, 1, a1, a2}, 2)
Heaps   == {(a1 :> x) @@ (a2 :> y) : x \in Holding, y \in Holding}

(* Function 7 is in a module, and so is the function that is a value. *)
MCModuleOf == (7 :> {fs}) @@ (8 :> {}) @@ (other :> {fs}) @@ (Undefined :> {})

MCCall(f, this, ctor, args) == [callee |-> f, this |-> this, ctor |-> ctor, args |-> args]
FirstCalls  == {MCCall(8, NoThis, FALSE, <<>>), MCCall(7, other, FALSE, <<a1>>), MCCall(7, a1, FALSE, <<a2>>)}
SecondCalls == {MCCall(7, 1, TRUE, <<a1>>), MCCall(8, a2, FALSE, <<1, a1>>), MCCall(7, a1, TRUE, <<a2, a2>>)}

SmallTestCases ==
  {t \in [root : {0, 3}, calls : {<<x, y>> : x \in FirstCalls, y \in SecondCalls}, heap : Heaps] :
     RefersBackward(t)}
=============================================================================
