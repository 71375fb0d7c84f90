------------------------------ MODULE Extractor ------------------------------
(***************************************************************************)
(* The extractor pass (src/Extractor): collects the API functions of a     *)
(* module, numbers them and writes the store.                              *)
(***************************************************************************)
EXTENDS LLVMProgram

VARIABLES
  funcs,      \* ExtractorContext::_funcs
  storeFile   \* what cafstore.json holds: <<>>, or <<the names by ID>>

extractorVars == <<funcs, storeFile>>

IsV8ApiFunction(f) == TakesPointerTo(f, CallbackInfo \cup PrefixedCallbackInfo)

IsApiFunction(f) ==
  /\ ~Functions[f].intrinsic
  /\ ~Functions[f].declaration
  /\ IsV8ApiFunction(f)

(* CreateStore: IDs count the functions in the order they were added. *)
CreateStore(fs) == [k \in 1 .. Len(fs) |-> [id |-> k - 1, name |-> fs[k]]]

(* runOnModule; the store is written unless its file cannot be opened, and the
   functions are handed to the instrumentor in either case. *)
Extract ==
  /\ funcs' = SelectSeq(module, IsApiFunction)
  /\ storeFile' \in {<<>>, <<CreateStore(funcs')>>}
  /\ UNCHANGED module

ExtractorInit ==
  /\ funcs = <<>>
  /\ storeFile = <<>>
=============================================================================
