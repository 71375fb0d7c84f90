----------------------------- MODULE SymbolTable -----------------------------
(***************************************************************************)
(* The symbol table of the LLVM pass (src/LLVMPass/CAFDriver.cpp,          *)
(* SymbolTable.cpp, FunctionSignatureGrouper.cpp): functions are sorted    *)
(* into constructors, APIs and callback candidates, and Freeze turns the   *)
(* APIs and the types they need into a store, following constructors and   *)
(* function types, which may lead back to themselves.  The recursion of    *)
(* Freeze is a list of what is still to do, the deepest call first.        *)
(***************************************************************************)
EXTENDS LLVMProgram

VARIABLES
  populated,     \* how many of its functions populateSymbolTable has seen
  apis,          \* CAFSymbolTable::_apis, _apiNames
  ctors,         \* _ctors: struct -> its constructors, in the order of AddConstructor
  groups,        \* _callbackFunctionGrouper: signature -> its functions, in order
  todo,          \* calls of Freeze still to be made or finished
  stored,        \* the types the store has definitions of
  signatureIds,  \* _signatureIds: the signature with ID k - 1 at position k
  candidates,    \* signature -> the callback function IDs the store lists for it
  callbacks,     \* _callbackFunctions: a function, or a signature to make one for
  storeApis      \* the APIs of the store

symbolVars == <<populated, apis, ctors, groups, todo, stored, signatureIds,
                candidates, callbacks, storeApis>>
tableVars  == <<apis, ctors, groups>>
storeVars  == <<stored, signatureIds, candidates, callbacks, storeApis>>

-----------------------------------------------------------------------------
(* populateSymbolTable. *)

IsConstructor(f) == Functions[f].ctor
ConstructedType(f) == Parts(ParamTypes(f)[1])[1]
IsTopLevelApi(f) == Functions[f].cafApi \/ TakesPointerTo(f, CallbackInfo)

(* AddApi for each of fs in turn: intrinsics are left out, a name is added once. *)
AddApis(known, fs) ==
  LET added[k \in 0 .. Len(fs)] ==
        IF k = 0 THEN known
        ELSE IF Functions[fs[k]].intrinsic \/ fs[k] \in Range(added[k - 1]) THEN added[k - 1]
        ELSE Append(added[k - 1], fs[k])
  IN  added[Len(fs)]

(* One round of the loop over the functions of the module. *)
Populate ==
  /\ populated < Len(module)
  /\ populated' = populated + 1
  /\ LET f == module[populated + 1]
     IN  IF Functions[f].intrinsic THEN UNCHANGED tableVars
         ELSE /\ groups' = [groups EXCEPT ![Signature(f)] = Append(@, f)]
              /\ ctors' = IF IsConstructor(f)
                          THEN [ctors EXCEPT ![ConstructedType(f)] = Append(@, f)] ELSE ctors
              /\ apis' = IF ~IsConstructor(f) /\ IsTopLevelApi(f)
                         THEN AddApis(apis, Functions[f].callees \o <<f>>) ELSE apis
  /\ UNCHANGED <<module, todo, storeVars>>

GetConstructors(t) == ctors[t]
GetFunctions(s)    == groups[s]

-----------------------------------------------------------------------------
(* Freeze. *)

AddType(t)       == [op |-> "type", of |-> t]
AddCandidates(s) == [op |-> "candidates", of |-> s]
CreateApi(f)     == [op |-> "api", of |-> f]
AddTypes(ts)     == [k \in 1 .. Len(ts) |-> AddType(ts[k])]

(* Parameters are added before the return type, of an API and of a constructor. *)
FunctionTypes(f) == AddTypes(ParamTypes(f) \o <<RetType(f)>>)

BeginFreeze ==
  /\ populated = Len(module) /\ storeApis = <<>> /\ todo = <<>>
  /\ apis # <<>>
  /\ todo' = FlattenSeq([k \in 1 .. Len(apis) |-> FunctionTypes(apis[k]) \o <<CreateApi(apis[k])>>])
  /\ UNCHANGED <<module, populated, tableVars, storeVars>>

ToDo(op) == todo # <<>> /\ Head(todo).op = op
Current  == Head(todo).of

(* AddLLVMTypeToStore for a type that leads to no more than its parts: no
   definition is made for void and for what is not recognised. *)
AddPlainType ==
  /\ ToDo("type")
  /\ Kind(Current) \in {"void", "bits", "pointer", "array", "vector", "other"}
  /\ LET defined == Kind(Current) \in {"bits", "pointer", "array"}
     IN  /\ stored' = IF defined THEN stored \cup {Current} ELSE stored
         /\ todo' = (IF Kind(Current) \in {"pointer", "array"}
                     THEN AddTypes(Parts(Current)) ELSE <<>>) \o Tail(todo)
  /\ UNCHANGED <<module, populated, tableVars, signatureIds, candidates, callbacks, storeApis>>

(* A struct is defined once if it has a name, and brings along the types of its
   constructors; its fields are not looked at. *)
AddStructType ==
  /\ ToDo("type") /\ IsStruct(Current)
  /\ stored' = stored \cup {Current}
  /\ todo' = (IF Named(Current) /\ Current \notin stored
              THEN FlattenSeq([k \in 1 .. Len(GetConstructors(Current)) |->
                                 FunctionTypes(GetConstructors(Current)[k])])
              ELSE <<>>) \o Tail(todo)
  /\ UNCHANGED <<module, populated, tableVars, signatureIds, candidates, callbacks, storeApis>>

(* Mutant: a signature is known only when its candidates are there. *)
AddFunctionTypeTwice ==
  /\ ToDo("type") /\ Kind(Current) = "function"
  /\ IF Current \in DOMAIN candidates
     THEN todo' = Tail(todo) /\ UNCHANGED <<stored, signatureIds>>
     ELSE /\ signatureIds' = Append(signatureIds, Current)
          /\ stored' = stored \cup {Current}
          /\ todo' = AddTypes(Parts(Current)) \o <<AddCandidates(Current)>> \o Tail(todo)
  /\ UNCHANGED <<module, populated, tableVars, candidates, callbacks, storeApis>>

(* A signature gets its ID before its types are added, and its candidates after
   them. *)
AddFunctionType ==
  /\ ToDo("type") /\ Kind(Current) = "function"
  /\ IF Current \in Range(signatureIds)
     THEN todo' = Tail(todo) /\ UNCHANGED <<stored, signatureIds>>
     ELSE /\ signatureIds' = Append(signatureIds, Current)
          /\ stored' = stored \cup {Current}
          /\ todo' = AddTypes(Parts(Current)) \o <<AddCandidates(Current)>> \o Tail(todo)
  /\ UNCHANGED <<module, populated, tableVars, candidates, callbacks, storeApis>>

(* The functions of the signature are appended to the callback functions, or the
   signature itself if there are none; the store lists their positions. *)
AddCallbackFunctions ==
  /\ ToDo("candidates")
  /\ LET found == GetFunctions(Current)
         new   == IF found = <<>> THEN <<Current>> ELSE found
     IN  /\ callbacks' = callbacks \o new
         /\ candidates' = [s \in DOMAIN candidates \cup {Current} |->
              IF s = Current THEN [k \in 1 .. Len(new) |-> Len(callbacks) + k - 1]
                             ELSE candidates[s]]
  /\ todo' = Tail(todo)
  /\ UNCHANGED <<module, populated, tableVars, stored, signatureIds, storeApis>>

AddApiToStore ==
  /\ ToDo("api")
  /\ storeApis' = Append(storeApis, Current)
  /\ todo' = Tail(todo)
  /\ UNCHANGED <<module, populated, tableVars, stored, signatureIds, candidates, callbacks>>

Frozen == populated = Len(module) /\ todo = <<>> /\ Len(storeApis) = Len(apis)

SymbolTableInit ==
  /\ populated = 0
  /\ apis = <<>>
  /\ ctors  = [t \in DOMAIN Types |-> <<>>]
  /\ groups = [t \in DOMAIN Types |-> <<>>]
  /\ todo = <<>>
  /\ stored = {}
  /\ signatureIds = <<>>
  /\ candidates = <<>>
  /\ callbacks = <<>>
  /\ storeApis = <<>>

SymbolTableNext ==
  \/ Populate \/ BeginFreeze \/ AddPlainType \/ AddStructType \/ AddFunctionType
  \/ AddCallbackFunctions \/ AddApiToStore

-----------------------------------------------------------------------------
(* What the store says of callbacks is what the generated code finds under the
   same numbers, although the two are filled in while types that contain each
   other are still being added: a signature has one ID, the callback IDs listed
   for it are exactly the functions of that signature, or one that is made for
   it, and every function type that an API can be handed, through pointers,
   arrays, constructors and other function types, is there. *)
Recognised(ts) == {t \in ts : Kind(t) \notin {"void", "vector", "other"}}

Needs(t) ==
  CASE Kind(t) \in {"pointer", "array", "function"} -> Range(Parts(t))
    [] Named(t) -> UNION {Range(Parts(Signature(c))) : c \in Range(GetConstructors(t))}
    [] OTHER -> {}

Listed(s) == [k \in DOMAIN candidates[s] |-> callbacks[candidates[s][k] + 1]]

Suitable(s) == {f \in Range(module) : Signature(f) = s /\ ~Functions[f].intrinsic}

Candidates ==
  Frozen =>
    /\ IsInjective(signatureIds)
    /\ Range(signatureIds) = {t \in stored : Kind(t) = "function"}
    /\ DOMAIN candidates = Range(signatureIds)
    /\ \A s \in DOMAIN candidates :
         /\ \A k \in DOMAIN candidates[s] : candidates[s][k] + 1 \in DOMAIN callbacks
         /\ Range(Listed(s)) = IF Suitable(s) = {} THEN {s} ELSE Suitable(s)
    /\ Recognised(UNION {Range(Parts(Signature(f))) : f \in Range(apis)}) \subseteq stored
    /\ \A t \in stored : Recognised(Needs(t)) \subseteq stored
=============================================================================
