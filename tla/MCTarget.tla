------------------------------- MODULE MCTarget -------------------------------
(* A file without calls and files of two calls: the root, which the target takes for
   the number of calls, makes it read none, one or two of them.  From the first value
   on anything can follow, so that more files would show nothing more. *)
EXTENDS Target

CONSTANT a1

MCCall(f, this, args) == [callee |-> f, this |-> this, ctor |-> FALSE, args |-> args]

Files ==
  {[root |-> root, calls |-> <<MCCall(1, NoThis, <<a1>>), MCCall(2, a1, <<1>>)>>,
    heap |-> [a \in {a1} |-> <<a1>>]] : root \in 0 .. 2}
  \cup {[root |-> 1, calls |-> <<>>, heap |-> EmptyMap]}
=============================================================================
