----------------------------- MODULE WireFormat -----------------------------
(***************************************************************************)
(* A test case on its way: written by the fuzzer, read back by the next    *)
(* run of the fuzzer, shown to a person, and turned into a program once    *)
(* the fuzzer has read it.  Target is about the target, which reads the    *)
(* same file in its own way.                                               *)
(*                                                                         *)
(* The reader knows nothing of the writer but the tokens, and goes on as   *)
(* far as it can without another token.  If it gets out of step, or meets  *)
(* a token it does not expect, it cannot go on: then the specification has *)
(* no next step.                                                           *)
(***************************************************************************)
EXTENDS TestCaseDeserializer, TestCaseDumper, Synthesis

vars == <<tc, writer, unread, reader, dumper, synthesis>>

Waiting == unread = Nothing /\ ~Expects("result")

Init == StartWriting /\ StartReading /\ StartDumping /\ StartSynthesis

WriteOn  == Waiting /\ Serialize /\ UNCHANGED <<reader, dumper, synthesis>>
ReadOn   == Deserialize /\ UNCHANGED <<dumper, synthesis>>
DumpOn   == Waiting /\ Dump /\ UNCHANGED <<reader, synthesis>>

(* After the dumper, which it has nothing to do with. *)
SynthesiseOn == toDump = <<>> /\ Synthesise /\ UNCHANGED dumper

Finished ==
  /\ AllWritten /\ expect = <<>> /\ toDump = <<>> /\ toSynthesise = <<>>
  /\ UNCHANGED vars

Next == WriteOn \/ ReadOn \/ DumpOn \/ SynthesiseOn \/ Finished

Spec == Init /\ [][Next]_vars

=============================================================================
