----------------------------- MODULE LLVMProgram -----------------------------
(***************************************************************************)
(* The modules the LLVM passes work on: types and functions, as far as     *)
(* src/LLVMPass, src/Extractor and src/Instrumentor look at them.  A type  *)
(* is a name in Types; Types[t].kind is its kind and Types[t].parts what   *)
(* it is built of: the pointee, the element, the fields of a struct, or    *)
(* the return type followed by the parameters of a function.               *)
(***************************************************************************)
EXTENDS Integers, SequencesExt

CONSTANTS
  Types,       \* name -> [kind, parts, n]: n is the length of an array or vector
  Functions,   \* name -> [type, intrinsic, declaration, cafApi, ctor, callees]
  Modules,     \* the modules to choose from: sequences of functions
  CallbackInfo,         \* the struct class.v8::FunctionCallbackInfo
  PrefixedCallbackInfo  \* structs whose name only starts like that

VARIABLE module  \* the module being compiled, which never changes

Kinds == {"void", "bits", "pointer", "array", "vector", "struct", "literal", "opaque",
          "function", "other"}

ASSUME ProgramAssumption ==
  /\ \A t \in DOMAIN Types :
       /\ Types[t].kind \in Kinds
       /\ Types[t].parts \in Seq(DOMAIN Types)
       /\ Types[t].kind \in {"pointer", "array", "vector"} => Len(Types[t].parts) = 1
       /\ Types[t].kind \in {"array", "vector"} => Types[t].n \in Nat
       /\ Types[t].kind = "function" => Types[t].parts # <<>>
  /\ \A f \in DOMAIN Functions :
       /\ Functions[f].type \in DOMAIN Types
       /\ Types[Functions[f].type].kind = "function"
       /\ Functions[f].callees \in Seq(DOMAIN Functions)
       /\ Functions[f].ctor =>  \* the first argument points to what is constructed
            /\ Len(Types[Functions[f].type].parts) > 1
            /\ Types[Types[Functions[f].type].parts[2]].kind = "pointer"
  /\ Modules \subseteq Seq(DOMAIN Functions)
  /\ DOMAIN Types \cap DOMAIN Functions = {}

Kind(t)       == Types[t].kind
Parts(t)      == Types[t].parts
Named(t)      == Kind(t) \in {"struct", "opaque"}
IsStruct(t)   == Kind(t) \in {"struct", "literal", "opaque"}
Sized(t)      == Kind(t) \notin {"void", "function", "opaque"}
Signature(f)  == Functions[f].type
RetType(f)    == Head(Parts(Signature(f)))
ParamTypes(f) == Tail(Parts(Signature(f)))

\* The struct the only parameter points to, if it does.
TakesPointerTo(f, structs) ==
  /\ Len(ParamTypes(f)) = 1
  /\ Kind(ParamTypes(f)[1]) = "pointer"
  /\ Parts(ParamTypes(f)[1])[1] \in structs
=============================================================================
