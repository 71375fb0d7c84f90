--------------------------- MODULE FunctionDatabase ---------------------------
(***************************************************************************)
(* include/Targets/Common/FunctionDatabase.h: the target's map from the ID *)
(* of a function to the function, filled from a store by looking up every  *)
(* name in the engine.                                                     *)
(***************************************************************************)
EXTENDS CAFStore

VARIABLES
  trie,      \* the value of each node, called by its path
  idToNode,  \* _funcIdToNode
  passed,    \* the IDs the iterator of Populate has passed
  fn,        \* the function being added
  node       \* how far the walk along its name has come

targetVars == <<trie, idToNode, passed, fn, node>>

TargetInit ==
  /\ trie = [p \in {Root} |-> Global]
  /\ idToNode = [id \in {} |-> Root]
  /\ passed = {}
  /\ fn = [id |-> 0, name |-> NoName]
  /\ node = Root

(* PropertyResolver::Resolve: the value of a property of an object, or none.  It is
   implemented inside the engine.  The name is a part between two dots. *)
Resolve(obj, part) ==
  IF <<part>> \in PropertyNames THEN graph.value[obj][<<part>>] ELSE Absent

(* The iterator moves on, in the order of a hash table.  It delivers the
   function of the entry: if a name was loaded twice, both IDs lead to the
   same one. *)
Populate(id) ==
  /\ phase = "populate"
  /\ passed' = passed \cup {id}
  /\ fn' = FunctionOf(id)
  /\ node' = Root
  /\ phase' = "lookup"
  /\ UNCHANGED <<extractVars, storeVars, trie, idToNode>>

(* GetNode: a step of the walk, to a node that exists or to a new one for a
   property of the engine.  AddFunction exits if there is none. *)
GetNode ==
  LET path  == PathOf(fn.name)
      child == Append(node, path[Len(node) + 1])
      value == Resolve(trie[node], path[Len(node) + 1])
  IN
  /\ phase = "lookup" /\ node # path
  /\ \/ /\ child \in DOMAIN trie
        /\ node' = child
        /\ UNCHANGED <<phase, trie>>
     \/ /\ child \notin DOMAIN trie /\ value # Absent
        /\ trie' = Put(trie, child, value)
        /\ node' = child
        /\ UNCHANGED phase
     \/ /\ child \notin DOMAIN trie /\ value = Absent
        /\ phase' = "exit"
        /\ UNCHANGED <<trie, node>>
  /\ UNCHANGED <<extractVars, storeVars, idToNode, passed, fn>>

AddTargetFunction ==
  /\ phase = "lookup" /\ node = PathOf(fn.name)
  /\ idToNode' = Put(idToNode, fn.id, node)
  /\ phase' = "populate"
  /\ UNCHANGED <<extractVars, storeVars, trie, passed, fn, node>>

PopulateEnds ==
  /\ phase = "populate" /\ passed = DOMAIN index
  /\ phase' = "ready"
  /\ UNCHANGED <<extractVars, storeVars, targetVars>>

(* GetFunction *)
TargetFunction(id) == trie[idToNode[id]]
=============================================================================
