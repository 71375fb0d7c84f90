----------------------------- MODULE BrowserHost -----------------------------
(***************************************************************************)
(* The browser host (src/BrowserHost/main.cpp): a tracer that starts the   *)
(* target program, follows every process and thread the target creates,    *)
(* and leaves when the target's first process (the master) has gone, at    *)
(* which point the kernel kills whatever is left.                          *)
(*                                                                         *)
(* The host is one loop of wait() and ptrace() calls; each call is a step  *)
(* here, because the tracees and the rest of the system act in between.    *)
(* The kernel is external: modelled is what the host relies on, that is    *)
(* when a tracee stops, what wait() reports of it and in which order.      *)
(***************************************************************************)
EXTENDS Naturals

CONSTANTS
  Procs,        \* the processes and threads of the target
  Master,       \* the one the host forks
  ExecFails,    \* TRUE: execvp of the target may fail
  Killable,     \* tracees that something may kill at any moment
  MaxSignals    \* bound: signals delivered to the target

ASSUME HostAssumption ==
  /\ Master \in Procs
  /\ ExecFails \in BOOLEAN
  /\ Killable \subseteq Procs
  /\ MaxSignals \in Nat

VARIABLES
  state,     \* of every process, see State
  report,    \* what wait() can still report of it
  message,   \* PTRACE_GETEVENTMSG: the child of its last fork event
  options,   \* processes with EXITKILL | TRACECLONE | TRACEFORK | TRACEVFORK
  pending,   \* pendingChildren
  pc,        \* the host's next call
  cur,       \* pid returned by the last wait()
  signals,   \* signals delivered so far
  orderly    \* never changes, see Reportable and Kill

vars == <<state, report, message, options, pending, pc, cur, signals, orderly>>
host == <<pending, pc, cur>>

State  == {"unborn", "starting", "running", "stopped", "dead", "gone", "escaped"}
Alive  == {"starting", "running", "stopped"}
Report == {"none", "stop", "event", "exit"}
Call   == {"wait", "setoptions", "geteventmsg", "cont", "leave", "over"}

-----------------------------------------------------------------------------
(* The target. *)

Dies(p) ==
  /\ state' = [state EXCEPT ![p] = "dead"]
  /\ report' = [report EXCEPT ![p] = "exit"]

Stops(p, why) ==
  /\ state' = [state EXCEPT ![p] = "stopped"]
  /\ report' = [report EXCEPT ![p] = why]

(* The child of the host's fork: TRACEME, then execvp, which stops it. *)
Exec ==
  /\ state[Master] = "starting"
  /\ \/ Stops(Master, "stop")
     \/ ExecFails /\ Dies(Master)
  /\ UNCHANGED <<message, options, signals, host>>

(* clone, fork or vfork.  With the options set the parent stops to report the
   event, and the child is traced with the same options and starts stopped. *)
Fork(p, c) ==
  /\ state[p] = "running"
  /\ state[c] = "unborn"
  /\ IF p \in options
     THEN /\ state' = [state EXCEPT ![p] = "stopped", ![c] = "stopped"]
          /\ report' = [report EXCEPT ![p] = "event", ![c] = "stop"]
          /\ message' = [message EXCEPT ![p] = c]
          /\ options' = options \cup {c}
     ELSE /\ state' = [state EXCEPT ![c] = "escaped"]
          /\ UNCHANGED <<report, message, options>>
  /\ UNCHANGED <<signals, host>>

Exit(p) ==
  /\ state[p] = "running"
  /\ Dies(p)
  /\ UNCHANGED <<message, options, signals, host>>

Signal(p) ==
  /\ state[p] = "running"
  /\ signals < MaxSignals
  /\ Stops(p, "stop")
  /\ signals' = signals + 1
  /\ UNCHANGED <<message, options, host>>

(* SIGKILL ends a process even while it is stopped; an unreported stop is lost.
   In an orderly session only the master is killed from outside. *)
Kill(p) ==
  /\ p \in Killable
  /\ orderly => p = Master
  /\ state[p] \in {"running", "stopped"}
  /\ Dies(p)
  /\ UNCHANGED <<message, options, signals, host>>

-----------------------------------------------------------------------------
(* The host. *)

(* What wait() may return.  In an orderly session a fork event is reported
   before the first stop of the new child; the kernel does not promise it. *)
Reportable(p) ==
  /\ report[p] # "none"
  /\ orderly => ~ \E q \in Procs : report[q] = "event" /\ message[q] = p

(* Mutants of NextCall: no break when the master exits, a break when any
   process does. *)
NextCallNoBreak(p) ==
  CASE p \in pending -> "setoptions"
    [] p \notin pending /\ report[p] = "event" -> "geteventmsg"
    [] p \notin pending /\ report[p] = "exit" -> "wait"
    [] p \notin pending /\ report[p] = "stop" -> "cont"

NextCallAnyExit(p) ==
  CASE p \in pending -> "setoptions"
    [] p \notin pending /\ report[p] = "event" -> "geteventmsg"
    [] p \notin pending /\ report[p] = "exit" -> "leave"
    [] p \notin pending /\ report[p] = "stop" -> "cont"

(* What the loop does about process p once wait() has returned it. *)
NextCall(p) ==
  CASE p \in pending -> "setoptions"
    [] p \notin pending /\ report[p] = "event" -> "geteventmsg"
    [] p \notin pending /\ report[p] = "exit" -> IF p = Master THEN "leave" ELSE "wait"
    [] p \notin pending /\ report[p] = "stop" -> "cont"

Wait(p) ==
  /\ pc = "wait"
  /\ Reportable(p)
  /\ cur' = p
  /\ report' = [report EXCEPT ![p] = "none"]
  /\ state' = IF report[p] = "exit" THEN [state EXCEPT ![p] = "gone"] ELSE state
  /\ pending' = pending \ {p}
  /\ pc' = NextCall(p)
  /\ UNCHANGED <<message, options, signals>>

(* Mutants: the options are not set, the loop goes on without PTRACE_CONT. *)
SetNoOptions ==
  /\ pc = "setoptions"
  /\ state[cur] = "stopped"
  /\ pc' = "cont"
  /\ UNCHANGED <<state, report, message, options, pending, cur, signals>>

SetOptionsNoCont ==
  /\ pc = "setoptions"
  /\ state[cur] = "stopped"
  /\ options' = options \cup {cur}
  /\ pc' = "wait"
  /\ UNCHANGED <<state, report, message, pending, cur, signals>>

SetOptions ==
  /\ pc = "setoptions"
  /\ state[cur] = "stopped"
  /\ options' = options \cup {cur}
  /\ pc' = "cont"
  /\ UNCHANGED <<state, report, message, pending, cur, signals>>

(* Mutants: the parent is inserted instead of the child; the child's pid is
   never written; the loop goes on without PTRACE_CONT. *)
GetEventMsgOfParent ==
  /\ pc = "geteventmsg"
  /\ state[cur] = "stopped"
  /\ pending' = pending \cup {cur}
  /\ pc' = "cont"
  /\ UNCHANGED <<state, report, message, options, cur, signals>>

GetEventMsgUnwritten ==
  /\ pc = "geteventmsg"
  /\ state[cur] = "stopped"
  /\ pending' = pending \cup {0}
  /\ pc' = "cont"
  /\ UNCHANGED <<state, report, message, options, cur, signals>>

GetEventMsgNoCont ==
  /\ pc = "geteventmsg"
  /\ state[cur] = "stopped"
  /\ pending' = pending \cup {message[cur]}
  /\ pc' = "wait"
  /\ UNCHANGED <<state, report, message, options, cur, signals>>

GetEventMsg ==
  /\ pc = "geteventmsg"
  /\ state[cur] = "stopped"
  /\ pending' = pending \cup {message[cur]}
  /\ pc' = "cont"
  /\ UNCHANGED <<state, report, message, options, cur, signals>>

(* PTRACE_CONT, always without the signal that stopped the process. *)
Cont ==
  /\ pc = "cont"
  /\ state[cur] = "stopped"
  /\ state' = [state EXCEPT ![cur] = "running"]
  /\ pc' = "wait"
  /\ UNCHANGED <<report, message, options, pending, cur, signals>>

(* call_ptrace on a process that is not stopped any more: exit(1). *)
PtraceFails ==
  /\ pc \in {"setoptions", "geteventmsg", "cont"}
  /\ state[cur] # "stopped"
  /\ pc' = "leave"
  /\ UNCHANGED <<state, report, message, options, pending, cur, signals>>

(* The host exits.  EXITKILL kills its tracees, one without it goes free. *)
Leave ==
  /\ pc = "leave"
  /\ pc' = "over"
  /\ state' = [p \in Procs |-> IF state[p] \notin Alive THEN state[p]
                               ELSE IF p \in options THEN "gone" ELSE "escaped"]
  /\ UNCHANGED <<report, message, options, pending, cur, signals>>

Init ==
  /\ state = [p \in Procs |-> IF p = Master THEN "starting" ELSE "unborn"]
  /\ report = [p \in Procs |-> "none"]
  /\ message = [p \in Procs |-> Master]
  /\ options = {}
  /\ pending = {Master}
  /\ pc = "wait"
  /\ cur = Master
  /\ signals = 0
  /\ orderly \in BOOLEAN

HostStep ==
  /\ \/ \E p \in Procs : Wait(p)
     \/ SetOptions
     \/ GetEventMsg
     \/ Cont
     \/ PtraceFails
     \/ Leave
  /\ UNCHANGED orderly

TargetStep ==
  /\ \/ Exec
     \/ \E p, c \in Procs : Fork(p, c)
     \/ \E p \in Procs : Exit(p)
     \/ \E p \in Procs : Signal(p)
     \/ \E p \in Procs : Kill(p)
  /\ UNCHANGED orderly

Next == HostStep \/ (pc # "over" /\ TargetStep)

Spec == Init /\ [][Next]_vars /\ WF_vars(HostStep)

-----------------------------------------------------------------------------
TypeOK ==
  /\ state \in [Procs -> State]
  /\ report \in [Procs -> Report]
  /\ message \in [Procs -> Procs]
  /\ options \subseteq Procs
  /\ pending \subseteq Procs
  /\ pc \in Call
  /\ cur \in Procs
  /\ signals \in 0 .. MaxSignals
  /\ orderly \in BOOLEAN

(* Nothing of the target outlives the host and nothing runs unwatched: the
   options are in place before the master runs its first instruction, every
   process born later inherits them, so a process can neither be born outside
   the host's sight nor survive it. *)
NothingEscapes == \A p \in Procs : state[p] # "escaped"

(* A stopped process is one that wait() will still report or the one the host
   is about to continue; no order of fork events, stops and deaths leaves a
   process stopped that the host has forgotten. *)
NoneForgotten ==
  \A p \in Procs :
    state[p] = "stopped" /\ pc # "over" =>
      report[p] \in {"stop", "event"} \/ (p = cur /\ pc \in {"setoptions", "geteventmsg", "cont", "leave"})

(* wait() never fails for want of children: as long as the host waits, the
   master is there or its death is still to be reported. *)
SomeoneToWaitFor == pc = "wait" => state[Master] \in Alive \cup {"dead"}

(* pendingChildren is never stale in an orderly session: a process in it has
   not been seen yet, the next thing wait() reports of it is the stop it was
   born with (or that it was killed before).  So no later stop or exit is
   mistaken for a start. *)
PendingNotStarted ==
  orderly /\ pc # "over" =>
    \A p \in pending :
      \/ state[p] = "starting"
      \/ state[p] = "stopped" /\ report[p] = "stop"
      \/ state[p] = "dead" /\ p = Master

(* "The master process has exited" (main.cpp:102): the loop ends when, and only
   when, it has; no other process's fate makes the host leave and so kill the
   whole target. *)
LeavesWithMaster == [][pc' = "leave" => state'[Master] \notin Alive]_pc

(* Orderly sessions do end like that. *)
OrderlyLeavesWithMaster ==
  [][orderly /\ pc' = "leave" => state'[Master] \notin Alive]_pc

(* Every stop is answered: a stopped process runs again, or dies. *)
EveryStopAnswered == \A p \in Procs : state[p] = "stopped" ~> state[p] # "stopped"

(* Once the master is dead the host goes, and takes the rest along. *)
HostFollowsMaster ==
  state[Master] = "dead" ~> \A p \in Procs : state[p] \notin Alive
=============================================================================
