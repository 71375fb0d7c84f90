---------------------------- MODULE MCApiDatabase ----------------------------
EXTENDS ApiDatabase, TLC

CONSTANTS global, o1, o2, none

A == <<"a">>
B == <<"b">>
Kill == <<"kill">>
Caller == <<"caller">>
DotJs == <<"", "js">>
Texts == {"a", "b", "kill", "caller", "js", ""}
Names == <<A, B, Kill, Caller, DotJs>>
SkippedNames == {Caller}

(* An engine with these functions and properties. *)
Engine(fs, props) ==
  [functions |-> fs,
   value |-> [o \in {global, o1, o2} |-> [i \in {Names[k] : k \in DOMAIN Names} |->
                IF <<o, i>> \in DOMAIN props THEN props[<<o, i>>] ELSE none]]]
Values(slots) == [slots -> {global, o1, o2, none}]
Slots(objs, names) == objs \X names

(* Objects that are functions or not, refer to each other in any way and share
   values; the same with a name that is dropped and with one that is left out;
   and a name with a dot, which the filter hides with what it is part of, as it
   hides the ".js" of module._extensions. *)
Plain == {Engine(fs, props) : fs \in SUBSET {o1, o2},
            props \in Values(Slots({global, o1}, {A, B}) \cup {<<o2, A>>})}
Dropped == {Engine({o1, o2}, props) :
              props \in Values(Slots({global, o1}, {A, Kill}) \cup {<<o2, A>>})}
LeftOut == {Engine({o1, o2}, props) : props \in Values(Slots({global, o1}, {A, Caller}))}
Dotted == {Engine({o1, o2}, (<<global, Kill>> :> o1) @@ (<<o1, DotJs>> :> o2) @@ props) :
             props \in [{<<o1, A>>, <<o2, A>>} -> {global, o1, none}]}
Engines == Plain \cup Dropped \cup LeftOut \cup Dotted

(* Names of functions, names that go through others, a final dot, no name at
   all, and each of them more than once. *)
SomeNames == {A, B, <<"a", "b">>, <<"a", "">>, <<"">>, <<"a", "b", "a">>}
Files == UNION {[1 .. n -> [name : SomeNames, func : {none}]] : n \in 0 .. 3}
(* Such a file meets one engine, in which some of the names lead to a function. *)
SomeEngine == Engine({o1}, (<<global, A>> :> o1) @@ (<<o1, B>> :> o1))
MCInit == (SearchInit \/ (graph = SomeEngine /\ ListInit)) /\ StoreInit /\ TargetInit
MCSpec == MCInit /\ [][Next]_vars
=============================================================================
