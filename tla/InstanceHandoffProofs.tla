----------------------- MODULE InstanceHandoffProofs -----------------------
(***************************************************************************)
(* For any number of sessions and services, at most one process works on   *)
(* the workspace and at most one serves the scanner.                       *)
(*                                                                         *)
(* A process of either kind holds the lock of its kind from early on, so   *)
(* two of a kind never meet.  A session that got past the takeover saw no  *)
(* background.lock, and from then on keeps services out: each of them      *)
(* looks at interactive.lock again after it took background.lock.          *)
(***************************************************************************)
EXTENDS InstanceHandoff, TLAPS

\* The states after the takeover, and those of a process that may serve.
Opened == {"loading", "opening", "starting", "working", "closing"}
Served == {"starting", "working", "closing"}

Holders ==
  /\ \A t \in Terminals :
       pc[t] \in Opened \cup {"takeover", "grace", "forcing", "killed", "refused"} => interactive = t
  /\ \A s \in Services : pc[s] \in Opened => background = s

Servers == \A p \in serving : pc[p] \in Served

SessionAlone ==
  \A t \in Terminals, s \in Services : pc[t] \in Opened => pc[s] # "working" /\ s \notin serving

IInv == TypeOK /\ Holders /\ Servers /\ SessionAlone

-----------------------------------------------------------------------------

\* The processes start with nothing held and nothing served.
LEMMA Initially == Init => IInv
BY ProcsAssumption DEF Init, IInv, TypeOK, Holders, Servers, SessionAlone, Procs, Services,
  CommonStates, TerminalStates, ServiceStates, Opened, Served

\* Every action keeps the invariant.
THEOREM Inductive == IInv /\ [Next]_vars => IInv'
<1> SUFFICES ASSUME IInv, [Next]_vars PROVE IInv'
  OBVIOUS
<1> USE ProcsAssumption DEF IInv, TypeOK, Holders, Servers, SessionAlone, Procs, Services,
    CommonStates, TerminalStates, ServiceStates, Opened, Served, locks, data, prefs
<1>1. ASSUME NEW t \in Terminals, OpenTerminal(t) PROVE IInv'
  BY <1>1 DEF OpenTerminal, Goto
<1>2. ASSUME NEW t \in Terminals, CloseTerminal(t) PROVE IInv'
  BY <1>2 DEF CloseTerminal, Goto
<1>3. ASSUME NEW t \in Terminals, AskToQuit(t) PROVE IInv'
  BY <1>3 DEF AskToQuit, Goto
<1>4. ASSUME NEW t \in Terminals, TakenOver(t) PROVE IInv'
  BY <1>4 DEF TakenOver, Goto
<1>5. ASSUME NEW t \in Terminals, GraceEnds(t) PROVE IInv'
  BY <1>5 DEF GraceEnds, Goto
<1>6. ASSUME NEW t \in Terminals, ForceStop(t) PROVE IInv'
  BY <1>6 DEF ForceStop, Goto
<1>7. ASSUME NEW t \in Terminals, CannotForce(t) PROVE IInv'
  BY <1>7 DEF CannotForce, Goto
<1>8. ASSUME NEW t \in Terminals, StillRuns(t) PROVE IInv'
  BY <1>8 DEF StillRuns, Goto
<1>9. ASSUME NEW t \in Terminals, Refused(t) PROVE IInv'
  BY <1>9 DEF Refused, Goto, Ends
<1>10. ASSUME NEW t \in Terminals, StartUnit(t) PROVE IInv'
  BY <1>10 DEF StartUnit, Goto
<1>11. ASSUME NEW t \in Terminals, ServiceConfirmed(t) PROVE IInv'
  BY <1>11 DEF ServiceConfirmed, Goto
<1>12. ASSUME NEW t \in Terminals, UnitNotConfirmed(t) PROVE IInv'
  BY <1>12 DEF UnitNotConfirmed, Goto
<1>13. ASSUME NEW t \in Terminals, ForkService(t) PROVE IInv'
  BY <1>13 DEF ForkService, Goto
<1>14. ASSUME NEW t \in Terminals, ServiceNotConfirmed(t) PROVE IInv'
  <2>1. CASE StopsUnit /\ pc[Unit] \in {"waiting", "claiming"}
    <3>1. pc' = [pc EXCEPT ![t] = "off", ![Unit] = "off"] /\ UNCHANGED asked
      BY <1>14, <2>1 DEF ServiceNotConfirmed, Registers
    <3>2. Unit \notin serving
      BY <2>1
    <3>3. t \notin serving
      BY <1>14 DEF ServiceNotConfirmed
    <3>4. /\ registered' = FALSE /\ enabled' = FALSE
          /\ UNCHANGED <<locks, serving, data, wants, failures>>
      BY <1>14 DEF ServiceNotConfirmed, Registers
    <3>5. TypeOK'
      BY <3>1, <3>4
    <3>6. Holders'
      BY <3>1, <3>4
    <3>7. Servers' /\ SessionAlone'
      BY <3>1, <3>2, <3>3, <3>4
    <3> QED
      BY <3>5, <3>6, <3>7
  <2>2. CASE ~(StopsUnit /\ pc[Unit] \in {"waiting", "claiming"})
    <3>1. pc' = [pc EXCEPT ![t] = "off"] /\ asked' \in {asked, asked \cup {Unit}}
      BY <1>14, <2>2 DEF ServiceNotConfirmed, Goto, Registers
    <3>2. registered' \in BOOLEAN /\ enabled' \in BOOLEAN /\ asked' \subseteq Services
      BY <1>14, <3>1 DEF ServiceNotConfirmed, Registers
    <3>3. t \notin serving
      BY <1>14 DEF ServiceNotConfirmed
    <3> QED
      BY <1>14, <3>1, <3>2, <3>3 DEF ServiceNotConfirmed
  <2> QED
    BY <2>1, <2>2
<1>15. ASSUME NEW s \in Services, LaunchService(s) PROVE IInv'
  BY <1>15 DEF LaunchService, Goto
<1>16. ASSUME NEW s \in Services, Probe(s) PROVE IInv'
  BY <1>16 DEF Probe, Goto
<1>17. ASSUME NEW s \in Services, Claim(s) PROVE IInv'
  BY <1>17 DEF Claim, Goto
<1>18. ASSUME NEW s \in Services, Yield(s) PROVE IInv'
  BY <1>18 DEF Yield, Goto
<1>19. ASSUME NEW p \in Procs, Load(p) PROVE IInv'
  BY <1>19 DEF Load, Goto
<1>20. ASSUME NEW p \in Procs, StartDeviceService(p) PROVE IInv'
  BY <1>20 DEF StartDeviceService, Goto, OtherRuns
<1>21. ASSUME NEW p \in Procs, Begin(p) PROVE IInv'
  BY <1>21 DEF Begin, Goto, Registers, StopsUnit
<1>22. ASSUME NEW p \in Procs, FinalSave(p) PROVE IInv'
  BY <1>22 DEF FinalSave, Goto, Ends
<1>23. ASSUME NEW p \in Procs, Change(p) PROVE IInv'
  BY <1>23 DEF Change
<1>24. ASSUME NEW p \in Procs, FinalSaveFails(p) PROVE IInv'
  BY <1>24 DEF FinalSaveFails, Goto, Ends
<1>25. ASSUME NEW p \in Procs, Crash(p) PROVE IInv'
  BY <1>25 DEF Crash, Goto, Ends
<1>26. CASE UNCHANGED vars
  BY <1>26 DEF vars
<1> QED
  BY <1>1, <1>2, <1>3, <1>4, <1>5, <1>6, <1>7, <1>8, <1>9, <1>10, <1>11, <1>12, <1>13, <1>14, <1>15, <1>16, <1>17, <1>18, <1>19, <1>20, <1>21, <1>22, <1>23, <1>24, <1>25, <1>26 DEF Next, TerminalStep, ServiceStep, CommonStep

-----------------------------------------------------------------------------

\* In every reachable state the processes are in their places: the locks are
\* held by those that use the workspace, and services keep out of a session.
THEOREM InvariantHolds == Spec => []IInv
<1>1. Init => IInv
  BY Initially
<1>2. IInv /\ [Next]_vars => IInv'
  BY Inductive
<1> QED
  BY <1>1, <1>2, PTL DEF Spec

\* Every variable keeps its type.
THEOREM TypeCorrect == Spec => []TypeOK
<1>1. IInv => TypeOK
  BY DEF IInv
<1> QED
  BY <1>1, InvariantHolds, PTL

\* However many sessions and services there are, never do two of them work on
\* the workspace: acquireSingleInstance, stopBackgroundService and the second
\* look at interactive.lock in App::run together keep them apart.
THEOREM WorkersExclude == Spec => []OneWorker
<1>1. IInv => OneWorker
  <2> SUFFICES ASSUME IInv, NEW p \in Procs, NEW q \in Procs, pc[p] = "working", pc[q] = "working"
               PROVE p = q
    BY DEF OneWorker
  <2>1. \A r \in {p, q} : r \in Terminals => interactive = r
    BY DEF IInv, Holders, Opened
  <2>2. \A r \in {p, q} : r \in Services => background = r
    BY DEF IInv, Holders, Opened
  <2> QED
    BY <2>1, <2>2 DEF IInv, SessionAlone, Procs, Opened
<1> QED
  BY <1>1, InvariantHolds, PTL

\* And never do two of them serve the scanner.
THEOREM ServersExclude == Spec => []OneServer
<1>1. IInv => OneServer
  <2> SUFFICES ASSUME IInv, NEW p \in serving, NEW q \in serving PROVE p = q
    BY DEF OneServer
  <2>1. {p, q} \subseteq Procs /\ pc[p] \in Opened /\ pc[q] \in Opened
    BY DEF IInv, TypeOK, Servers, Opened, Served
  <2>2. \A r \in {p, q} : (r \in Terminals => interactive = r) /\ (r \in Services => background = r)
    BY <2>1 DEF IInv, Holders
  <2> QED
    BY <2>1, <2>2 DEF IInv, SessionAlone, Procs
<1> QED
  BY <1>1, InvariantHolds, PTL

=============================================================================
