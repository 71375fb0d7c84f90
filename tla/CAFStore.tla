------------------------------ MODULE CAFStore ------------------------------
(***************************************************************************)
(* src/Basic/CAFStore.cpp: the names of the API as a tree of entries.  An  *)
(* entry is called by its path, the sequence of names that leads to it; a  *)
(* function is in the entry its name leads to.                             *)
(*                                                                         *)
(* A test case has a root entry and calls only functions below it, which   *)
(* the generator selects from the entry's descendents.  Descendents are a  *)
(* set here; in the code a function that is added again is listed again,   *)
(* which makes it likelier to be selected.                                 *)
(***************************************************************************)
EXTENDS ExtractAPI

VARIABLES
  entries,      \* _entries: the paths of the entries, in the order of creation
  functions,    \* the function of each entry that has one
  descendents,  \* _descendents of each entry
  index,        \* _funcIdToEntry
  funcId        \* the ID of the next name to load

storeVars == <<entries, functions, descendents, index, funcId>>

Root == <<>>

(* f with the value v at x. *)
Put(f, x, v) == [y \in DOMAIN f \cup {x} |-> IF y = x THEN v ELSE f[y]]

(* The path a name leads to.  The loop ends at the end of the string, so
   nothing follows a final dot, and the empty string leads to the root. *)
PathOf(name) ==
  IF name[Len(name)] = Nothing THEN SubSeq(name, 1, Len(name) - 1) ELSE name

Above(path, n) == SubSeq(path, 1, n)
OnTheWay(path) == {Above(path, n) : n \in 0 .. Len(path)}
EntrySet == {entries[i] : i \in DOMAIN entries}

(* The part of a path that has entries. *)
Known(path) ==
  CHOOSE n \in 0 .. Len(path) :
    /\ Above(path, n) \in EntrySet
    /\ \A m \in (n + 1) .. Len(path) : Above(path, m) \notin EntrySet

(* CreateEntry for the rest, from the top down. *)
Created(path) ==
  [k \in 1 .. (Len(path) - Known(path)) |-> Above(path, Known(path) + k)]

StoreInit ==
  /\ entries = <<Root>>
  /\ functions = [p \in {} |-> 0]
  /\ descendents = [p \in {Root} |-> {}]
  /\ index = [id \in {} |-> Root]
  /\ funcId = 0

(* Mutant: an entry keeps the function it has. *)
SetFunctionOnce(path, id, name) ==
  IF path \in DOMAIN functions THEN functions
  ELSE Put(functions, path, [id |-> id, name |-> name])

(* The function of an entry is replaced if there is one. *)
SetFunction(path, id, name) == Put(functions, path, [id |-> id, name |-> name])

(* Mutant: only the entries above the function learn of it. *)
ToldAbove(path) == OnTheWay(path) \ {path}

(* The entries AddDescendent is called for. *)
Told(path) == OnTheWay(path)

(* emplace leaves an index that exists alone. *)
AddFunction(id, name) ==
  LET path == PathOf(name) IN
  /\ entries' = entries \o Created(path)
  /\ functions' = SetFunction(path, id, name)
  /\ descendents' = [p \in DOMAIN descendents \cup OnTheWay(path) |->
                       (IF p \in DOMAIN descendents THEN descendents[p] ELSE {})
                         \cup (IF p \in Told(path) THEN {path} ELSE {})]
  /\ index' = IF id \in DOMAIN index THEN index ELSE Put(index, id, path)

(* One name of the JSON array. *)
Load ==
  /\ phase = "load" /\ funcId < Len(listed)
  /\ AddFunction(funcId, listed[funcId + 1].name)
  /\ funcId' = funcId + 1
  /\ UNCHANGED <<phase, extractVars>>

LoadEnds ==
  /\ phase = "load" /\ funcId = Len(listed)
  /\ phase' = "populate"
  /\ UNCHANGED <<extractVars, storeVars>>

(* GetFunction *)
FunctionOf(id) == functions[index[id]]

-----------------------------------------------------------------------------
(* The index and the tree agree whatever names are loaded: an ID leads to the
   function of its own name; if the name came again, to the last of them, whose
   ID leads there too.  Readers of a test case look up the ID (GetFunction),
   the generator takes the ID from the tree: each must know what the other
   means. *)
IndexAndTreeAgree ==
  /\ DOMAIN index = 0 .. (funcId - 1)
  /\ DOMAIN functions = {index[id] : id \in DOMAIN index}
  /\ \A id \in DOMAIN index :
       /\ PathOf(FunctionOf(id).name) = PathOf(listed[id + 1].name)
       /\ index[id] = PathOf(listed[id + 1].name)
       /\ FunctionOf(id).id >= id
       /\ FunctionOf(id).id \in DOMAIN index
       /\ index[FunctionOf(id).id] = index[id]

(* The descendents of an entry are the functions below it, itself included,
   and as soon as there is a function every entry has some.  SelectDescendent
   selects from them without looking (CAFStore.h promises an entry with a
   function), and any entry may be the root of a test case. *)
DescendentsExact ==
  /\ DOMAIN descendents = EntrySet
  /\ \A p \in EntrySet : descendents[p] = {q \in DOMAIN functions : p \in OnTheWay(q)}
  /\ funcId > 0 => \A p \in EntrySet : descendents[p] # {}
=============================================================================
