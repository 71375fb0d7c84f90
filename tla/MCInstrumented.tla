--------------------------- MODULE MCInstrumented ---------------------------
(* A program whose types lead back to themselves: a list, and a struct whose
   constructor takes a function of that struct. *)
EXTENDS Instrumented

T(kind, parts) == [kind |-> kind, parts |-> parts, n |-> 2]

MCTypes ==
  [void |-> T("void", <<>>), i8 |-> T("bits", <<>>), pair |-> T("array", <<"i8">>),
   info |-> T("opaque", <<>>), info2 |-> T("opaque", <<>>),
   toInfo |-> T("pointer", <<"info">>), toInfo2 |-> T("pointer", <<"info2">>),
   list |-> T("struct", <<"toList", "pair">>), toList |-> T("pointer", <<"list">>),
   obj |-> T("struct", <<"i8">>), toObj |-> T("pointer", <<"obj">>),
   fn |-> T("function", <<"void", "toObj">>), toFn |-> T("pointer", <<"fn">>),
   fn0 |-> T("function", <<"label">>), toFn0 |-> T("pointer", <<"fn0">>),
   label |-> T("other", <<>>), lanes |-> T("vector", <<"i8">>), pack |-> T("literal", <<"lanes">>),
   native |-> T("function", <<"void", "toInfo">>), native2 |-> T("function", <<"void", "toInfo2">>),
   make |-> T("function", <<"void", "toObj", "toFn">>),
   walk |-> T("function", <<"i8", "toList", "toFn0">>),
   use |-> T("function", <<"i8", "toFn", "pack", "label">>)]

F(type, callees) == [type |-> type, intrinsic |-> FALSE, declaration |-> FALSE,
                     cafApi |-> FALSE, ctor |-> FALSE, callees |-> callees]

MCFunctions ==
  [Native  |-> F("native", <<"Walk">>),
   Native2 |-> F("native2", <<>>),
   Extern  |-> [F("native", <<>>) EXCEPT !.declaration = TRUE],
   Memcpy  |-> [F("native", <<>>) EXCEPT !.intrinsic = TRUE],
   Make    |-> [F("make", <<>>) EXCEPT !.ctor = TRUE],
   Walk    |-> F("walk", <<>>),
   Handler |-> F("fn", <<>>),
   Use     |-> [F("use", <<"Walk", "Memcpy", "Walk">>) EXCEPT !.cafApi = TRUE]]

MCModules == {<<"Native", "Extern", "Memcpy", "Native2", "Walk">>,
              <<"Make", "Handler", "Use">>, <<"Use", "Handler">>, <<"Walk">>}
=============================================================================
