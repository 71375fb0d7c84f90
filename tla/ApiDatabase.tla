----------------------------- MODULE ApiDatabase -----------------------------
(***************************************************************************)
(* How the functions of a target get their IDs: ExtractAPI.js finds and    *)
(* names them, CAFStore gives each name an ID, the target's                *)
(* FunctionDatabase turns the ID back into a function.  The three run in   *)
(* processes of their own, one after the other, and share only the list of *)
(* names; the fuzzer selects functions from the store and the target calls *)
(* those of its database.                                                  *)
(***************************************************************************)
EXTENDS FunctionDatabase

(* Names the search follows and the filter keeps. *)
Harmless == {name \in PropertyNames \ Excluded : ~IsDangerous(name)}

(* Along such names only names are found that are not empty and have no dot, which
   could not be told from a way through other objects.  Elsewhere there may be
   any: module._extensions['.js'] is below a name the filter drops. *)
Tame(g, set) ==
  /\ Global \in set
  /\ \A o \in set, name \in Harmless :
       g.value[o][name] # Absent =>
         g.value[o][name] \in set /\ Len(name) = 1 /\ name[1] # Nothing

ASSUME KeptNamesAssumption == \A g \in Graphs : \E set \in SUBSET Objects : Tame(g, set)

vars == <<phase, extractVars, storeVars, targetVars>>

Init == (SearchInit \/ ListInit) /\ StoreInit /\ TargetInit

Next ==
  \/ Extract /\ UNCHANGED <<storeVars, targetVars>>
  \/ (Load \/ LoadEnds) /\ UNCHANGED targetVars
  \/ \E id \in DOMAIN index \ passed : Populate(id)
  \/ GetNode \/ AddTargetFunction \/ PopulateEnds

Spec == Init /\ [][Next]_vars

-----------------------------------------------------------------------------
Found == [path : Strings, obj : Objects]
Named == [name : Strings, func : Objects \cup {Absent}]

TypeOK ==
  /\ phase \in {"search", "filter", "load", "populate", "lookup", "ready", "exit"}
  /\ graph.functions \subseteq Objects
  /\ graph.value \in [Objects -> [PropertyNames -> Objects \cup {Absent}]]
  /\ queue \in Seq(Found) /\ here \in Found
  /\ visited \subseteq Objects
  /\ left \in Seq(PropertyNames)
  /\ funcs \in Seq(Named) /\ listed \in Seq(Named)
  /\ entries \in Seq(Seq(Parts))
  /\ funcId \in 0 .. Len(listed)
  /\ DOMAIN functions \subseteq EntrySet
  /\ \A p \in DOMAIN functions : functions[p] \in [id : 0 .. (funcId - 1), name : Strings]
  /\ \A id \in DOMAIN index : index[id] \in EntrySet
  /\ \A p \in DOMAIN trie : trie[p] \in Objects
  /\ \A id \in DOMAIN idToNode : idToNode[id] \in DOMAIN trie
  /\ passed \subseteq DOMAIN index
  /\ fn \in [id : Nat, name : Strings]
  /\ node \in DOMAIN trie

(* What the fuzzer calls is what the target runs: whichever function the
   generator selects below whichever entry, the target's database has its ID,
   and it stands for the function the extraction meant.  Five numberings and
   walks over dotted names take part, and none checks another. *)
CalleesResolve ==
  visited # {} =>
    /\ phase # "exit"
    /\ phase = "ready" =>
         \A p \in EntrySet : \A q \in descendents[p] :
           LET id == functions[q].id IN
           /\ id \in DOMAIN idToNode
           /\ TargetFunction(id) = listed[id + 1].func
=============================================================================
