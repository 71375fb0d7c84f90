----------------------------- MODULE ObjectList -----------------------------
(***************************************************************************)
(* What the code generated into a target calls while it reads a test case: *)
(* the list of objects and the input functions of caflib.h.                *)
(*                                                                         *)
(* The input ends somewhere.  An integer read beyond its end is -1, and a  *)
(* byte is whatever was in its place.  -1 also stands for any integer that *)
(* is negative or larger than the memory allows; that an integer in        *)
(* between is at most MaxCount, and that an input has at most MaxInput     *)
(* fields, keeps the instances small.                                      *)
(***************************************************************************)
EXTENDS Integers, SequencesExt

CONSTANTS MaxCount, MaxInput, StackSize

ASSUME ObjectListAssumption ==
  MaxCount \in Nat /\ MaxInput \in Nat /\ StackSize \in Nat \ {0}

VARIABLES
  objects,  \* __caf_object_list
  frames,   \* calls of the generated functions, the innermost first
  input,    \* the fields still to be read
  status    \* of the target's process: "compiling", "running", "ended", "crashed"

driverVars == <<objects, frames, input, status>>

Eof         == input = 0
Reads       == input' = IF Eof THEN 0 ELSE input - 1
InputInt(v) == v \in IF Eof THEN {-1} ELSE -1 .. MaxCount

Running == status = "running"
Top     == Head(frames)
In(place) == Running /\ frames # <<>> /\ Top.in = place

(* getFromObjectList; 0 is null.  The number of an object counts from 1 here, its
   index from 0, and a negative index is a very large one. *)
GetFromObjectList(index) == IF index \in 0 .. (Len(objects) - 1) THEN index + 1 ELSE 0

SaveToObjectList(object) == objects' = Append(objects, object)

(* A call, unless the stack is full. *)
Enter(new, rest) ==
  IF Len(rest) < StackSize THEN frames' = <<new>> \o rest /\ status' = status
                           ELSE frames' = rest /\ status' = "crashed"

Crash == status' = "crashed" /\ UNCHANGED <<objects, frames>>

(* main, and __caf_main of the target for Node.js: a signed counter of calls. *)
StartMain ==
  /\ Running /\ frames = <<>>
  /\ Reads
  /\ \E size \in -1 .. MaxCount :
       /\ InputInt(size)
       /\ frames' = <<[in |-> "main", left |-> size]>>
  /\ UNCHANGED <<objects, status>>

FinishMain ==
  /\ In("main") /\ Top.left <= 0
  /\ status' = "ended"
  /\ UNCHANGED <<objects, frames, input>>

DriverInit ==
  /\ objects = <<>>
  /\ frames = <<>>
  /\ input \in 0 .. MaxInput
  /\ status = "compiling"
=============================================================================
