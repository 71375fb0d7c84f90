-------------------------------- MODULE Target --------------------------------
(***************************************************************************)
(* Target::Run (Targets/Common/Target.h): the parser reads standard input, *)
(* which is the file as the fuzzer wrote it, from its start.  The target   *)
(* is one process that reads, calls and reads on; nothing restarts it.     *)
(*                                                                         *)
(* The file is written as far as it is read: a token has been written when *)
(* the parser needs it.                                                    *)
(***************************************************************************)
EXTENDS TestCaseParser

targetVars == <<tc, writer, unread, target>>

Run == StartWriting /\ StartParsing

Ended == expected = <<>> \/ ExpectsNext("exit")

WriteAhead ==
  /\ ~astray /\ unread = Nothing /\ ~Ended /\ ~ExpectsNext("invoke")
  /\ Serialize
  /\ UNCHANGED target

TargetEnds == Ended /\ UNCHANGED targetVars

TargetNext == WriteAhead \/ Parse \/ TargetEnds

TargetSpec == Run /\ [][TargetNext]_targetVars
=============================================================================
