------------------------------ MODULE MCCommands ------------------------------
EXTENDS Commands

CONSTANTS d, e

Commands == {"fuzz", "calibrate", "gen", "synthesis"}

Abs(x) == <<"/", x>>
Paths == {<<>>, <<Abs(d), Abs(e)>>, <<<<>>, Abs(d)>>, <<<<"/">>, Abs(d), <<>>>>,
          <<Abs(d), <<"/">>>>}

Installed == {{}, {<<>>}, {Abs(d)}, {<<d>>}, {<<e>>}, {<<"/">>}}

Names == <<"fuzzer0", "fuzzer1", "fuzzer2">>

(* -n, --san-exec, -X, the target with its parameters. *)
FuzzCommandLines ==
  [n : 1 .. MaxInstances, afl : {"", "afl"}, sanitized : {"", "san"},
   target : {<<"target">>, <<"target", "@@">>}, aflArgs : {<<>>, <<"-t", "1000">>},
   dry : BOOLEAN, resume : {FALSE}]
   \cup {[n |-> 2, afl |-> "afl", sanitized |-> "", target |-> <<"target">>, aflArgs |-> <<>>,
          dry |-> FALSE, resume |-> TRUE]}

Files == {<<"good", "README.txt", "other">>, <<"good", "other", "good">>, <<"good", "bad", "other">>}
ReadmeFiles == {"README.txt"}
BadFiles    == {"bad"}

GenCommandLines == [n : 1 .. 3, full : BOOLEAN, entries : 1 .. 3]
\* Two test cases of one name, a directory of each, and outputs among all of them.
Inputs == {<<d, "a">>, <<e, "a">>, <<d, "b">>}
SynthesisCommandLines ==
  [target : {"js", "nodejs", "other"}, out : {<<>>, <<"out">>, <<d>>, <<d, "b">>},
   paths : {<<<<d, "b">>>>, <<<<d, "a">>, <<e, "a">>>>, <<<<e, "a">>, <<d, "a">>, <<d, "b">>>>}]

Before  == [p \in Inputs \cup {<<d>>, <<e>>} |-> IF p \in Inputs THEN TestCase(p) ELSE Directory]
Storage == {Before, [p \in DOMAIN Before \ {<<d, "b">>} |-> Before[p]],
            Before @@ (<<"out">> :> Script(<<>>))}
=============================================================================
