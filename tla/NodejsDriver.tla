---------------------------- MODULE NodejsDriver ----------------------------
(***************************************************************************)
(* __caf_main as src/Instrumentor/nodejs generates it into Node.js: reads  *)
(* a test case from the input, makes its values and calls the functions    *)
(* the extractor found.  An object is known here by the objects its        *)
(* elements are; what a function returns is opaque.                        *)
(***************************************************************************)
EXTENDS Extractor, ObjectList

UndefinedKind == 0
StringKind == 3
FunctionKind == 4
ArrayKind == 7
PlaceholderKind == 8

NodejsFrame(place, left, refs) == [in |-> place, left |-> left, refs |-> refs]

\* callbackfunc_candidates: every function the extractor found, by ID.
NodejsCandidates == funcs

(* Mutant: an unknown ID is not counted. *)
CallNodejsApiUncounted ==
  /\ In("main") /\ Top.left > 0
  /\ Reads
  /\ \E id \in -1 .. MaxCount :
       LET main == <<[Top EXCEPT !.left = @ - 1]>> IN
         /\ InputInt(id)
         /\ IF id + 1 \in DOMAIN funcs THEN Enter(NodejsFrame("this", 1, {}), main)
                                       ELSE UNCHANGED <<frames, status>>
  /\ UNCHANGED <<objects, extractorVars>>

(* __caf_dispatch_api: an unknown ID is ignored; a call reads `this` first. *)
CallNodejsApi ==
  /\ In("main") /\ Top.left > 0
  /\ Reads
  /\ \E id \in -1 .. MaxCount :
       LET main == <<[Top EXCEPT !.left = @ - 1]>> IN
         /\ InputInt(id)
         /\ IF id + 1 \in DOMAIN funcs THEN Enter(NodejsFrame("this", 1, {}), main)
                                       ELSE frames' = main /\ UNCHANGED status
  /\ UNCHANGED <<objects, extractorVars>>

-----------------------------------------------------------------------------
(* caf_dispatch_malloc_value_of_type.  The kind is 0 if there is no more input;
   a kind without a case is taken for 0. *)
Wanted     == Running /\ frames # <<>> /\ Top.in \in {"this", "args", "array"} /\ Top.left > 0
Kinded(kind) == Wanted /\ (kind # UndefinedKind => ~Eof) /\ Reads

Got(into, refs) ==
  <<[Head(into) EXCEPT !.left = @ - 1, !.refs = @ \cup refs]>> \o Tail(into)
Deliver(refs) == frames' = Got(frames, refs) /\ UNCHANGED <<objects, status>>

(* undefined, null, booleans, integers and numbers. *)
MallocScalar ==
  /\ Kinded(UndefinedKind)
  /\ Deliver({})
  /\ UNCHANGED extractorVars

(* The buffer is as long as the input says and is on the stack. *)
MallocString ==
  /\ Kinded(StringKind)
  /\ \E length \in -1 .. MaxCount :
       InputInt(length) /\ IF length = -1 THEN Crash ELSE Deliver({})
  /\ UNCHANGED extractorVars

(* The ID is not compared with the number of candidates: what lies beyond them
   is taken for the address of a function, if it can be read. *)
MallocFunction ==
  /\ Kinded(FunctionKind)
  /\ \E id \in -1 .. MaxCount :
       InputInt(id) /\ (Deliver({}) \/ (id + 1 \notin DOMAIN NodejsCandidates /\ Crash))
  /\ UNCHANGED extractorVars

(* Mutant: an index one beyond the list is let through. *)
MallocPlaceholderOneBeyond ==
  /\ Kinded(PlaceholderKind)
  /\ \E index \in -1 .. MaxCount :
       InputInt(index) /\ Deliver(IF index \in 0 .. Len(objects) THEN {index + 1} ELSE {})
  /\ UNCHANGED extractorVars

MallocPlaceholder ==
  /\ Kinded(PlaceholderKind)
  /\ \E index \in -1 .. MaxCount :
       InputInt(index) /\ Deliver({GetFromObjectList(index)} \ {0})
  /\ UNCHANGED extractorVars

MallocArray ==
  /\ Kinded(ArrayKind)
  /\ \E size \in -1 .. MaxCount :
       InputInt(size) /\ IF size = -1 THEN Crash
                         ELSE Enter(NodejsFrame("array", size, {}), frames) /\ UNCHANGED objects
  /\ UNCHANGED extractorVars

(* The elements are there: only now is the array saved. *)
CreateArray ==
  /\ In("array") /\ Top.left = 0
  /\ SaveToObjectList(Top.refs)
  /\ frames' = Got(Tail(frames), {Len(objects) + 1})
  /\ UNCHANGED <<input, status, extractorVars>>

-----------------------------------------------------------------------------
(* CreateCallApiCase, after `this`. *)
ReadArgsCount ==
  /\ In("this") /\ Top.left = 0
  /\ Reads
  /\ \E count \in -1 .. MaxCount :
       /\ InputInt(count)
       /\ IF count = -1 THEN Crash
          ELSE /\ frames' = <<NodejsFrame("args", count, Top.refs)>> \o Tail(frames)
               /\ UNCHANGED <<objects, status>>
  /\ UNCHANGED extractorVars

(* The arguments are there and the function of Node.js runs. *)
NodejsApiRuns == In("args") /\ Top.left = 0

(* It returns and what it returns is saved, or it ends the process.  It may also run
   or block for ever: nothing says that this step is ever taken. *)
InvokeNodejsApi ==
  /\ NodejsApiRuns
  /\ \/ SaveToObjectList({}) /\ frames' = Tail(frames) /\ UNCHANGED status
     \/ Crash
  /\ UNCHANGED <<input, extractorVars>>

NodejsNext ==
  \/ CallNodejsApi \/ MallocScalar \/ MallocString \/ MallocFunction \/ MallocPlaceholder
  \/ MallocArray \/ CreateArray \/ ReadArgsCount \/ InvokeNodejsApi

-----------------------------------------------------------------------------
(* An object gets its number after everything it holds: no array can be reached
   from itself, which the objects of a test case in memory may well be. *)
ElementsBeforeArrays ==
  /\ \A n \in DOMAIN objects : objects[n] \subseteq 1 .. (n - 1)
  /\ \A k \in DOMAIN frames : frames[k].in # "main" => frames[k].refs \subseteq DOMAIN objects
=============================================================================
