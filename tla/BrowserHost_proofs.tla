-------------------------- MODULE BrowserHost_proofs --------------------------
(***************************************************************************)
(* The browser host for any number of processes.  Whatever order the       *)
(* kernel reports things in, nothing escapes the host, no stop is          *)
(* forgotten and wait() always has someone to wait for; and when the       *)
(* kernel reports a fork before the new process's first stop, and nothing  *)
(* but the master is killed from outside, the host leaves only with the    *)
(* master.                                                                 *)
(***************************************************************************)
EXTENDS BrowserHost, TLAPS

AtCall == {"setoptions", "geteventmsg", "cont"}

LEMMA TypeStep == TypeOK /\ [Next]_vars => TypeOK'
<1> SUFFICES ASSUME TypeOK, [Next]_vars PROVE TypeOK'
  OBVIOUS
<1>0. orderly' = orderly
  BY DEF Next, HostStep, TargetStep, vars
<1> USE <1>0, HostAssumption DEF TypeOK, State, Report, Call
<1>1. CASE HostStep
  <2>1. ASSUME NEW p \in Procs, Wait(p) PROVE TypeOK'
    BY <2>1 DEF Wait, NextCall, Reportable
  <2>2. CASE SetOptions
    BY <2>2 DEF SetOptions
  <2>3. CASE GetEventMsg
    BY <2>3 DEF GetEventMsg
  <2>4. CASE Cont
    BY <2>4 DEF Cont
  <2>5. CASE PtraceFails
    BY <2>5 DEF PtraceFails
  <2>6. CASE Leave
    BY <2>6 DEF Leave
  <2> QED
    BY <1>1, <2>1, <2>2, <2>3, <2>4, <2>5, <2>6 DEF HostStep
<1>2. CASE TargetStep
  <2>1. CASE Exec
    BY <2>1 DEF Exec, Stops, Dies, host
  <2>2. ASSUME NEW p \in Procs, NEW c \in Procs, Fork(p, c) PROVE TypeOK'
    BY <2>2 DEF Fork, host
  <2>3. ASSUME NEW p \in Procs, Exit(p) PROVE TypeOK'
    BY <2>3 DEF Exit, Dies, host
  <2>4. ASSUME NEW p \in Procs, Signal(p) PROVE TypeOK'
    BY <2>4 DEF Signal, Stops, host
  <2>5. ASSUME NEW p \in Procs, Kill(p) PROVE TypeOK'
    BY <2>5 DEF Kill, Dies, host
  <2> QED
    BY <1>2, <2>1, <2>2, <2>3, <2>4, <2>5 DEF TargetStep
<1>3. CASE UNCHANGED vars
  BY <1>3 DEF vars
<1> QED
  BY <1>1, <1>2, <1>3 DEF Next

LEMMA InitType == Init => TypeOK
  BY HostAssumption DEF Init, TypeOK, State, Report, Call

(* Every variable keeps to its type. *)
THEOREM TypeCorrect == Spec => []TypeOK
  BY InitType, TypeStep, PTL DEF Spec

-----------------------------------------------------------------------------
(* Nothing escapes.  The options decide who is followed, so the invariant says
   who has them: every process that exists, except the master until the host
   has set them, and until then the master has not run and is alone. *)

MasterBeforeOptions ==
  Master \notin options =>
    /\ options = {}
    /\ cur = Master
    /\ \/ /\ pc = "wait"
          /\ Master \in pending
          /\ \/ state[Master] = "starting" /\ report[Master] = "none"
             \/ state[Master] \in {"stopped", "dead"}
       \/ pc = "setoptions" /\ state[Master] \in {"stopped", "dead", "gone"}
       \/ pc \in {"leave", "over"} /\ state[Master] \in {"dead", "gone"}

OthersHaveOptions ==
  \A p \in Procs \ {Master} : p \notin options => state[p] = "unborn" /\ report[p] = "none"

Watched == MasterBeforeOptions /\ OthersHaveOptions /\ NothingEscapes

LEMMA WatchedStep == TypeOK /\ Watched /\ [Next]_vars => Watched'
<1> SUFFICES ASSUME TypeOK, Watched, [Next]_vars PROVE Watched'
  OBVIOUS
<1> USE HostAssumption DEF TypeOK, Watched, MasterBeforeOptions, OthersHaveOptions,
                           NothingEscapes
<1>1. ASSUME NEW p \in Procs, Wait(p) PROVE Watched'
  <2>1. Master \notin options => p = Master
    BY <1>1 DEF Wait, NextCall, Reportable
  <2>2. MasterBeforeOptions'
    BY <1>1, <2>1 DEF Wait, NextCall, Reportable
  <2>3. OthersHaveOptions'
    BY <1>1, <2>1 DEF Wait, NextCall, Reportable
  <2>4. NothingEscapes'
    BY <1>1 DEF Wait, NextCall, Reportable
  <2> QED
    BY <2>2, <2>3, <2>4
<1>2. CASE SetOptions
  BY <1>2 DEF SetOptions
<1>3. CASE GetEventMsg
  BY <1>3 DEF GetEventMsg
<1>4. CASE Cont
  BY <1>4 DEF Cont
<1>5. CASE PtraceFails
  BY <1>5 DEF PtraceFails
<1>6. CASE Leave
  BY <1>6 DEF Leave, Alive
<1>7. CASE Exec
  BY <1>7 DEF Exec, Stops, Dies, host
<1>8. ASSUME NEW p \in Procs, NEW c \in Procs, Fork(p, c) PROVE Watched'
  <2>1. p \in options /\ Master \in options
    BY <1>8 DEF Fork
  <2> QED
    BY <1>8, <2>1 DEF Fork, host
<1>9. ASSUME NEW p \in Procs, Exit(p) PROVE Watched'
  BY <1>9 DEF Exit, Dies, host
<1>10. ASSUME NEW p \in Procs, Signal(p) PROVE Watched'
  BY <1>10 DEF Signal, Stops, host
<1>11. ASSUME NEW p \in Procs, Kill(p) PROVE Watched'
  BY <1>11 DEF Kill, Dies, host
<1>12. CASE UNCHANGED vars
  BY <1>12 DEF vars
<1> QED
  BY <1>1, <1>2, <1>3, <1>4, <1>5, <1>6, <1>7, <1>8, <1>9, <1>10, <1>11, <1>12
  DEF Next, HostStep, TargetStep

LEMMA InitWatched == Init => Watched
  BY HostAssumption DEF Init, Watched, MasterBeforeOptions, OthersHaveOptions, NothingEscapes

(* No process of the target is ever born outside the host's sight, and none is
   alive after the host has gone. *)
THEOREM NothingEverEscapes == Spec => []NothingEscapes
<1>1. Watched => NothingEscapes
  BY DEF Watched
<1> QED
  BY <1>1, InitType, TypeStep, InitWatched, WatchedStep, PTL DEF Spec

-----------------------------------------------------------------------------
(* No stop is forgotten.  The property is inductive: wait() takes a report only
   to make its process the current one, and the host goes back to wait() only
   after continuing the current process. *)

LEMMA NoneForgottenStep == TypeOK /\ NoneForgotten /\ [Next]_vars => NoneForgotten'
<1> SUFFICES ASSUME TypeOK, NoneForgotten, [Next]_vars PROVE NoneForgotten'
  OBVIOUS
<1> USE HostAssumption DEF TypeOK, NoneForgotten
<1>1. ASSUME NEW p \in Procs, Wait(p) PROVE NoneForgotten'
  BY <1>1 DEF Wait, NextCall, Reportable, Report
<1>2. CASE SetOptions
  BY <1>2 DEF SetOptions
<1>3. CASE GetEventMsg
  BY <1>3 DEF GetEventMsg
<1>4. CASE Cont
  BY <1>4 DEF Cont
<1>5. CASE PtraceFails
  BY <1>5 DEF PtraceFails
<1>6. CASE Leave
  BY <1>6 DEF Leave
<1>7. CASE Exec
  BY <1>7 DEF Exec, Stops, Dies, host
<1>8. ASSUME NEW p \in Procs, NEW c \in Procs, Fork(p, c) PROVE NoneForgotten'
  BY <1>8 DEF Fork, host
<1>9. ASSUME NEW p \in Procs, Exit(p) PROVE NoneForgotten'
  BY <1>9 DEF Exit, Dies, host
<1>10. ASSUME NEW p \in Procs, Signal(p) PROVE NoneForgotten'
  BY <1>10 DEF Signal, Stops, host
<1>11. ASSUME NEW p \in Procs, Kill(p) PROVE NoneForgotten'
  BY <1>11 DEF Kill, Dies, host
<1>12. CASE UNCHANGED vars
  BY <1>12 DEF vars
<1> QED
  BY <1>1, <1>2, <1>3, <1>4, <1>5, <1>6, <1>7, <1>8, <1>9, <1>10, <1>11, <1>12
  DEF Next, HostStep, TargetStep

(* A stopped process is still to be reported, or is the one the host is about
   to continue. *)
THEOREM NoStopIsForgotten == Spec => []NoneForgotten
<1>1. Init => NoneForgotten
  BY DEF Init, NoneForgotten
<1> QED
  BY <1>1, InitType, TypeStep, NoneForgottenStep, PTL DEF Spec

-----------------------------------------------------------------------------
(* wait() always has someone to wait for: once the master's death has been
   reported the host does not get back to wait(), it is stuck with the master
   as its current process and leaves. *)

MasterAtEnd ==
  /\ state[Master] \in Alive \cup {"dead", "gone"}
  /\ state[Master] = "gone" =>
       \/ pc \in {"leave", "over"}
       \/ pc = "setoptions" /\ cur = Master

LEMMA MasterAtEndStep ==
  TypeOK /\ Watched /\ MasterAtEnd /\ [Next]_vars => MasterAtEnd'
<1> SUFFICES ASSUME TypeOK, Watched, MasterAtEnd, [Next]_vars PROVE MasterAtEnd'
  OBVIOUS
<1> USE HostAssumption DEF TypeOK, MasterAtEnd, Alive
<1>1. ASSUME NEW p \in Procs, Wait(p) PROVE MasterAtEnd'
  BY <1>1 DEF Wait, NextCall, Reportable, Report
<1>2. CASE SetOptions
  BY <1>2 DEF SetOptions
<1>3. CASE GetEventMsg
  BY <1>3 DEF GetEventMsg
<1>4. CASE Cont
  BY <1>4 DEF Cont
<1>5. CASE PtraceFails
  BY <1>5 DEF PtraceFails
<1>6. CASE Leave
  <2>1. Master \in options \/ state[Master] \notin Alive
    BY <1>6 DEF Leave, Watched, MasterBeforeOptions
  <2> QED
    BY <1>6, <2>1 DEF Leave
<1>7. CASE Exec
  BY <1>7 DEF Exec, Stops, Dies, host
<1>8. ASSUME NEW p \in Procs, NEW c \in Procs, Fork(p, c) PROVE MasterAtEnd'
  BY <1>8 DEF Fork, host
<1>9. ASSUME NEW p \in Procs, Exit(p) PROVE MasterAtEnd'
  BY <1>9 DEF Exit, Dies, host
<1>10. ASSUME NEW p \in Procs, Signal(p) PROVE MasterAtEnd'
  BY <1>10 DEF Signal, Stops, host
<1>11. ASSUME NEW p \in Procs, Kill(p) PROVE MasterAtEnd'
  BY <1>11 DEF Kill, Dies, host
<1>12. CASE UNCHANGED vars
  BY <1>12 DEF vars
<1> QED
  BY <1>1, <1>2, <1>3, <1>4, <1>5, <1>6, <1>7, <1>8, <1>9, <1>10, <1>11, <1>12
  DEF Next, HostStep, TargetStep

(* The host never calls wait() after the master has been reaped, so wait()
   always has a child. *)
THEOREM WaitHasAChild == Spec => []SomeoneToWaitFor
<1>1. Init => MasterAtEnd
  BY HostAssumption DEF Init, MasterAtEnd, Alive
<1>2. MasterAtEnd => SomeoneToWaitFor
  BY DEF MasterAtEnd, SomeoneToWaitFor
<1> QED
  BY <1>1, <1>2, InitType, TypeStep, InitWatched, WatchedStep, MasterAtEndStep, PTL DEF Spec

-----------------------------------------------------------------------------
(* In an orderly session, where the kernel reports a fork before the child's
   first stop and only the master is killed from outside, the host's view is never stale: what it
   expects to start has not been seen, the process it is about to act on is
   stopped, and the child of an event that is still to be handled waits. *)

ReportIsTrue ==
  pc # "over" =>
    \A p \in Procs :
      /\ report[p] \in {"stop", "event"} => state[p] = "stopped"
      /\ state[p] = "starting" => report[p] = "none"

CurrentIsStopped ==
  pc \in AtCall =>
    \/ state[cur] = "stopped" /\ report[cur] = "none"
    \/ cur = Master /\ state[Master] \in {"dead", "gone"}

Newborn(c) == c # Master /\ c \notin pending /\ state[c] = "stopped" /\ report[c] = "stop"

EventOpen(p) ==
  report[p] = "event" \/ (pc = "geteventmsg" /\ cur = p /\ state[p] = "stopped")

NewbornWaits ==
  pc # "over" =>
    \A p \in Procs : EventOpen(p) =>
      /\ Newborn(message[p])
      /\ message[p] # p
      /\ \A q \in Procs : EventOpen(q) /\ message[q] = message[p] => q = p

Fresh ==
  orderly =>
    /\ ReportIsTrue
    /\ CurrentIsStopped
    /\ NewbornWaits
    /\ PendingNotStarted

LEMMA FreshInit == Init => Fresh
  BY HostAssumption
  DEF Init, Fresh, ReportIsTrue, CurrentIsStopped, NewbornWaits, PendingNotStarted, AtCall, EventOpen

LEMMA FreshStep ==
  ASSUME TypeOK, Watched, MasterAtEnd, Fresh, [Next]_vars
  PROVE  Fresh'
<1>0. orderly' = orderly
  BY DEF Next, HostStep, TargetStep, vars
<1> SUFFICES ASSUME orderly PROVE Fresh'
  BY <1>0 DEF Fresh
<1> USE <1>0, HostAssumption DEF TypeOK, Fresh, ReportIsTrue, CurrentIsStopped, NewbornWaits,
                           PendingNotStarted, AtCall, EventOpen, Newborn
<1>1. ASSUME NEW p \in Procs, Wait(p) PROVE Fresh'
  BY <1>1 DEF Wait, NextCall, Reportable, Report
<1>2. CASE SetOptions
  BY <1>2 DEF SetOptions
<1>3. CASE GetEventMsg
  BY <1>3 DEF GetEventMsg
<1>4. CASE Cont
  BY <1>4 DEF Cont
<1>5. CASE PtraceFails
  BY <1>5 DEF PtraceFails
<1>6. CASE Leave
  BY <1>6 DEF Leave, Alive
<1>7. CASE Exec
  BY <1>7 DEF Exec, Stops, Dies, host
<1>8. ASSUME NEW p \in Procs, NEW c \in Procs, Fork(p, c) PROVE Fresh'
  BY <1>8 DEF Fork, host, MasterAtEnd, Alive
<1>9. ASSUME NEW p \in Procs, Exit(p) PROVE Fresh'
  BY <1>9 DEF Exit, Dies, host
<1>10. ASSUME NEW p \in Procs, Signal(p) PROVE Fresh'
  BY <1>10 DEF Signal, Stops, host
<1>11. ASSUME NEW p \in Procs, Kill(p) PROVE Fresh'
  BY <1>11 DEF Kill, Dies, host
<1>12. CASE UNCHANGED vars
  BY <1>12 DEF vars
<1> QED
  BY <1>1, <1>2, <1>3, <1>4, <1>5, <1>6, <1>7, <1>8, <1>9, <1>10, <1>11, <1>12
  DEF Next, HostStep, TargetStep

LEMMA LeavesStep ==
  ASSUME TypeOK, MasterAtEnd, Fresh, [Next]_vars
  PROVE  [orderly /\ pc' = "leave" => state'[Master] \notin Alive]_pc
<1> SUFFICES ASSUME Next, orderly, pc' = "leave", pc' # pc PROVE state'[Master] \notin Alive
  BY DEF vars
<1> USE HostAssumption DEF TypeOK, Alive
<1>1. ASSUME NEW p \in Procs, Wait(p) PROVE state'[Master] \notin Alive
  BY <1>1 DEF Wait, NextCall, Reportable, Report
<1>2. CASE PtraceFails
  BY <1>2 DEF PtraceFails, Fresh, CurrentIsStopped, AtCall
<1>3. CASE SetOptions \/ GetEventMsg \/ Cont \/ Leave
  BY <1>3 DEF SetOptions, GetEventMsg, Cont, Leave
<1>4. CASE TargetStep
  BY <1>4 DEF TargetStep, Exec, Fork, Exit, Signal, Kill, host
<1> QED
  BY <1>1, <1>2, <1>3, <1>4 DEF Next, HostStep

(* In an orderly session the host leaves, and the kernel kills the rest of the
   target, only when the master has exited. *)
THEOREM OrderlyHostLeavesWithMaster ==
  Spec => OrderlyLeavesWithMaster
<1>1. Init => MasterAtEnd
  BY HostAssumption DEF Init, MasterAtEnd, Alive
<1>2. TypeOK /\ Watched /\ MasterAtEnd /\ Fresh /\ [Next]_vars => Fresh'
  BY FreshStep
<1>3. TypeOK /\ MasterAtEnd /\ Fresh /\ [Next]_vars
        => [orderly /\ pc' = "leave" => state'[Master] \notin Alive]_pc
  BY LeavesStep
<1> QED
  BY <1>1, <1>2, <1>3, InitType, TypeStep, InitWatched, WatchedStep, MasterAtEndStep,
     FreshInit, PTL DEF Spec, OrderlyLeavesWithMaster

(* In an orderly session nothing in pendingChildren has been seen before. *)
THEOREM OrderlyPendingIsFresh ==
  Spec => []PendingNotStarted
<1>1. Init => MasterAtEnd
  BY HostAssumption DEF Init, MasterAtEnd, Alive
<1>2. TypeOK /\ Watched /\ MasterAtEnd /\ Fresh /\ [Next]_vars => Fresh'
  BY FreshStep
<1>3. Fresh => PendingNotStarted
  BY DEF Fresh, PendingNotStarted
<1> QED
  BY <1>1, <1>2, <1>3, InitType, TypeStep, InitWatched, WatchedStep, MasterAtEndStep,
     FreshInit, PTL DEF Spec
=============================================================================
