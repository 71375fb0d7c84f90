---------------------------- MODULE CommonDriver ----------------------------
(***************************************************************************)
(* main as src/Instrumentor/CAFCodeGenerator.cpp generates it from a       *)
(* symbol table: one function for each type makes a value of it, one for   *)
(* each struct with constructors calls one of them, and one calls the      *)
(* APIs.  An object has the type it was made for and may be complete,      *)
(* still under construction, or wild, which is an uninitialised pointer.   *)
(***************************************************************************)
EXTENDS SymbolTable, ObjectList

UnsizedKinds == {"function", "opaque"}

Object(t, state) == [type |-> t, state |-> state]
TypeFrame(t, left) == [in |-> "type", of |-> t, left |-> left, n |-> Len(objects) + 1]
CallFrame(f, ctor) == [in |-> "call", of |-> f, left |-> Len(ParamTypes(f)), ctor |-> ctor]

(* callbackfunc_candidates: the function itself, or for a signature that no
   function has a new one that returns arbitrary bytes. *)
EmptyFunction(signature) == [returns |-> Head(Parts(signature))]
CandidateArray ==
  [id \in DOMAIN callbacks |->
     IF callbacks[id] \in DOMAIN Functions THEN callbacks[id] ELSE EmptyFunction(callbacks[id])]

(* __caf_dispatch_api: an unknown ID is ignored. *)
CallCommonApi ==
  /\ In("main") /\ Top.left > 0
  /\ Reads
  /\ \E id \in -1 .. MaxCount :
       LET main == <<[Top EXCEPT !.left = @ - 1]>> IN
         /\ InputInt(id)
         /\ IF id + 1 \in DOMAIN apis THEN Enter(CallFrame(apis[id + 1], FALSE), main)
                                      ELSE frames' = main /\ UNCHANGED status
  /\ UNCHANGED <<objects, symbolVars>>

-----------------------------------------------------------------------------
(* __caf_dispatch_malloc_for_type_N, called for the next part of the object, or
   the next argument of the call, at the top. *)
IsThis == Top.in = "call" /\ Top.ctor /\ Top.left = Len(ParamTypes(Top.of))

Wants(t) ==
  /\ Running /\ frames # <<>> /\ Top.in \in {"type", "call"} /\ Top.left > 0
  /\ IF Top.in = "call"
     THEN t = ParamTypes(Top.of)[Len(ParamTypes(Top.of)) - Top.left + 1]
     ELSE IF IsStruct(Top.of) THEN t = Parts(Top.of)[Len(Parts(Top.of)) - Top.left + 1]
                              ELSE t = Parts(Top.of)[1]

Taken == <<[Top EXCEPT !.left = @ - 1]>> \o Tail(frames)

(* All but a pointer loads the value: with null the process stops, with what is
   not a pointer at all it may. *)
Loads == Top.in = "type" => Kind(Top.of) # "pointer"

(* The object a constructor is called on is not saved, nor is it filled in. *)
MallocUnsaved ==
  /\ Running /\ frames # <<>> /\ Top.left > 0 /\ IsThis
  /\ frames' = Taken
  /\ UNCHANGED <<objects, input, status, symbolVars>>

(* The flag decides; beyond the end of the input it is not initialised. *)
MallocSaved(t) == Wants(t) /\ ~IsThis /\ Reads

ReferToObject(t) ==
  /\ MallocSaved(t)
  /\ \E index \in -1 .. MaxCount :
       /\ InputInt(index)
       /\ LET n == GetFromObjectList(index) IN
            \/ (n = 0 => ~Loads) /\ frames' = Taken /\ UNCHANGED <<objects, status>>
            \/ Loads /\ (n # 0 => objects[n].state = "wild") /\ Crash
  /\ UNCHANGED symbolVars

(* A value that has no parts.  What is not recognised is left as it is. *)
MallocBits(t) ==
  /\ MallocSaved(t) /\ Kind(t) \in {"bits", "other"}
  /\ SaveToObjectList(Object(t, "complete"))
  /\ frames' = Taken
  /\ UNCHANGED <<status, symbolVars>>

MallocNull(t) ==
  /\ MallocSaved(t) /\ Kind(t) = "pointer"
  /\ SaveToObjectList(Object(t, "complete"))
  /\ frames' = Taken
  /\ UNCHANGED <<status, symbolVars>>

(* What is saved for a type without a size is not the value but the
   uninitialised word that will hold it.  The ID of a function is not compared
   with the number of candidates. *)
MallocUnsized(t) ==
  /\ MallocSaved(t) /\ Kind(t) \in UnsizedKinds
  /\ \/ /\ SaveToObjectList(Object(t, "wild"))
        /\ frames' = Taken /\ UNCHANGED status
     \/ /\ Kind(t) = "function"
        /\ \E id \in -1 .. MaxCount : InputInt(id) /\ id + 1 \notin DOMAIN CandidateArray
        /\ Crash
  /\ UNCHANGED symbolVars

(* The object is saved first, and its parts are then made one by one. *)
MallocComposite(t) ==
  /\ MallocSaved(t)
  /\ Kind(t) \in {"pointer", "array", "vector", "struct", "literal"} /\ GetConstructors(t) = <<>>
  /\ SaveToObjectList(Object(t, "building"))
  /\ Enter(TypeFrame(t, CASE Kind(t) = "pointer" -> 1
                          [] Kind(t) \in {"array", "vector"} -> Types[t].n
                          [] OTHER -> Len(Parts(t))), Taken)
  /\ UNCHANGED symbolVars

(* __caf_dispatch_ctor_N: an unknown ID leaves garbage. *)
MallocByConstructor(t) ==
  /\ MallocSaved(t) /\ GetConstructors(t) # <<>>
  /\ \E id \in -1 .. MaxCount :
       /\ InputInt(id)
       /\ IF id + 1 \in DOMAIN GetConstructors(t)
          THEN /\ SaveToObjectList(Object(t, "building"))
               /\ Enter(CallFrame(GetConstructors(t)[id + 1], TRUE),
                        <<TypeFrame(t, 0)>> \o Taken)
          ELSE SaveToObjectList(Object(t, "complete")) /\ frames' = Taken /\ UNCHANGED status
  /\ UNCHANGED symbolVars

FinishObject ==
  /\ In("type") /\ Top.left = 0
  /\ objects' = [objects EXCEPT ![Top.n].state = "complete"]
  /\ frames' = Tail(frames)
  /\ UNCHANGED <<input, status, symbolVars>>

(* The arguments are there and the API or the constructor runs. *)
CommonApiRuns == In("call") /\ Top.left = 0

(* CreateCallApiCase, when it returns, which it need not.  The result of an API is
   saved, also when there is none; that of a constructor is not. *)
InvokeCommonApi ==
  /\ CommonApiRuns
  /\ \/ /\ IF Top.ctor THEN UNCHANGED objects
           ELSE SaveToObjectList(Object(RetType(Top.of), "complete"))
        /\ frames' = Tail(frames) /\ UNCHANGED status
     \/ Crash
  /\ UNCHANGED <<input, symbolVars>>

CommonNext ==
  \/ CallCommonApi \/ MallocUnsaved \/ FinishObject \/ InvokeCommonApi
  \/ \E t \in DOMAIN Types :
       \/ ReferToObject(t) \/ MallocBits(t) \/ MallocNull(t) \/ MallocUnsized(t)
       \/ MallocComposite(t) \/ MallocByConstructor(t)

-----------------------------------------------------------------------------
(* An object gets its number before its parts, which are numbered on while it is
   under construction, and a call in progress, of a constructor too, leaves no
   number unaccounted for: exactly the objects of calls on the stack are under
   construction, the outermost with the lowest number. *)
Making(frame, n) == frame.in = "type" /\ frame.n = n

WholesBeforeParts ==
  Running =>
    /\ \A n \in DOMAIN objects :
         objects[n].state = "building" <=> \E k \in DOMAIN frames : Making(frames[k], n)
    /\ \A j, k \in DOMAIN frames : \A m, n \in DOMAIN objects :
         j < k /\ Making(frames[j], m) /\ Making(frames[k], n) => n < m
    /\ \A n \in DOMAIN objects :
         objects[n].state = "wild" => Kind(objects[n].type) \in UnsizedKinds
=============================================================================
