----------------------------- MODULE ExtractAPI -----------------------------
(***************************************************************************)
(* src/Scripts/ExtractAPI.js: a breadth-first search of everything that    *)
(* can be reached from the global object of a JavaScript engine, which     *)
(* gives each function it finds a name, and the filter that drops the      *)
(* dangerous ones.  The position of a name in the result is its ID.        *)
(*                                                                         *)
(* A string is the sequence of its parts between dots: "a.b" is            *)
(* <<"a", "b">>, ".js" is <<"", "js">> and the empty string is <<"">>.     *)
(* That is all the code ever looks at.                                     *)
(*                                                                         *)
(* The engine is external: a graph of objects that does not change.  A     *)
(* property that is missing, null, undefined, a number, a string or a      *)
(* getter that throws leads to no function and is Absent.                  *)
(***************************************************************************)
EXTENDS Naturals, Sequences

CONSTANTS
  Parts,      \* what strings have between their dots, Nothing included
  Global,     \* the global object, after the modules have been mounted on it
  Objects,    \* the objects and functions of the engine, Global among them
  Absent,     \* no object
  NameOrder,  \* the names of properties, in the order they are enumerated
  Excluded,   \* names the search leaves out (excludedProperties, cafNames)
  Dangerous,  \* parts of names the filter drops (kill, exit, _..., and so on)
  Graphs,     \* engines to search
  Lists       \* stores from elsewhere: any JSON array of strings

PropertyNames == {NameOrder[i] : i \in DOMAIN NameOrder}
Strings == Seq(Parts) \ {<<>>}
Nothing == ""
NoName == <<Nothing>>

ASSUME PartsAssumption == Nothing \in Parts /\ Nothing \notin Dangerous
ASSUME EngineAssumption ==
  /\ Global \in Objects
  /\ Absent \notin Objects
  /\ NameOrder \in Seq(Strings)
  /\ \A g \in Graphs :
       /\ g.functions \subseteq Objects
       /\ g.value \in [Objects -> [PropertyNames -> Objects \cup {Absent}]]
ASSUME ListsAssumption ==
  \A l \in Lists : l \in Seq([name : Strings, func : {Absent}])

VARIABLES
  phase,     \* what runs now: search, filter, load, populate, lookup, ready or exit
  graph,     \* the engine
  queue,     \* what has been found and not been visited, with its path
  visited,   \* what has been found
  here,      \* what is being visited
  left,      \* the names of its properties that are left to look at
  funcs,     \* the functions visited, later those the filter has not seen
  listed     \* what is dumped.  func is not: it is kept for the properties

searchVars == <<queue, visited, here, left>>
extractVars == <<graph, searchVars, funcs, listed>>

(* Mutant: a dot goes before every name. *)
JoinAlways(path, name) == path \o name

(* childrenPath: a dot goes between, unless there is nothing before it. *)
Join(path, name) == IF path = NoName THEN name ELSE path \o name

SearchInit ==
  /\ phase = "search"
  /\ graph \in Graphs
  /\ queue = <<[path |-> NoName, obj |-> Global]>>
  /\ visited = {Global}
  /\ here = [path |-> NoName, obj |-> Global]
  /\ left = <<>>
  /\ funcs = <<>>
  /\ listed = <<>>

(* A store that was not extracted from the engine at hand. *)
ListInit ==
  /\ phase = "load"
  /\ graph \in Graphs
  /\ queue = <<>> /\ visited = {} /\ left = <<>> /\ funcs = <<>>
  /\ here = [path |-> NoName, obj |-> Global]
  /\ listed \in Lists

(* The head of the loop: the next object leaves the queue. *)
Visit ==
  /\ phase = "search" /\ left = <<>> /\ queue # <<>>
  /\ LET next == Head(queue) IN
       /\ here' = next
       /\ funcs' = IF next.obj \in graph.functions
                   THEN Append(funcs, [name |-> next.path, func |-> next.obj])
                   ELSE funcs
  /\ queue' = Tail(queue)
  /\ left' = NameOrder
  /\ UNCHANGED <<phase, graph, visited, listed>>

(* Mutants: what is visited already is visited again; a value that is no
   object is not skipped. *)
SkippedUnlessVisited(name) ==
  name \in Excluded \/ graph.value[here.obj][name] = Absent
SkippedUnlessAbsent(name) ==
  name \in Excluded \/ graph.value[here.obj][name] \in visited

(* The three tests that end the body of the loop early. *)
Skipped(name) ==
  LET child == graph.value[here.obj][name]
  IN  name \in Excluded \/ child = Absent \/ child \in visited

(* One property of the object at hand.  Its value is visited later, unless it
   is known by another name. *)
Look ==
  /\ phase = "search" /\ left # <<>>
  /\ LET name  == Head(left)
         child == graph.value[here.obj][name]
     IN  IF Skipped(name)
         THEN UNCHANGED <<queue, visited>>
         ELSE /\ queue' = Append(queue, [path |-> Join(here.path, name), obj |-> child])
              /\ visited' = visited \cup {child}
  /\ left' = Tail(left)
  /\ UNCHANGED <<phase, graph, here, funcs, listed>>

SearchEnds ==
  /\ phase = "search" /\ left = <<>> /\ queue = <<>>
  /\ phase' = "filter"
  /\ UNCHANGED extractVars

IsDangerous(name) == \E i \in DOMAIN name : name[i] \in Dangerous

(* One function is kept or dropped. *)
Filter ==
  /\ phase = "filter" /\ funcs # <<>>
  /\ funcs' = Tail(funcs)
  /\ listed' = IF IsDangerous(Head(funcs).name) THEN listed ELSE Append(listed, Head(funcs))
  /\ UNCHANGED <<phase, graph, searchVars>>

Dump ==
  /\ phase = "filter" /\ funcs = <<>>
  /\ phase' = "load"
  /\ UNCHANGED extractVars

Extract == Visit \/ Look \/ SearchEnds \/ Filter \/ Dump

-----------------------------------------------------------------------------
(* What the search should find: the smallest set with the global object that
   the properties it looks at do not lead out of. *)
Closed(set) ==
  \A o \in set, name \in PropertyNames \ Excluded :
    graph.value[o][name] \in set \cup {Absent}
Reachable == {o \in Objects : \A set \in SUBSET Objects :
                                Global \in set /\ Closed(set) => o \in set}

(* Every function that can be reached is found, and under one name only:
   objects refer to each other in cycles and have many names, and a function
   with two names would get two IDs.  (findFunctions, visited) *)
EveryFunctionOnce ==
  /\ \A i, j \in DOMAIN funcs : funcs[i].func = funcs[j].func => i = j
  /\ phase = "search" /\ left = <<>> /\ queue = <<>> =>
       {funcs[i].func : i \in DOMAIN funcs} = Reachable \cap graph.functions
=============================================================================
