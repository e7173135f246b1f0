-------------------------- MODULE InstanceHandoff --------------------------
(***************************************************************************)
(* How the processes of one user share the workspace: the terminal         *)
(* sessions the user opens and the background services that keep the       *)
(* scanner connected between them (main.cpp, App::run and the Linux        *)
(* BackgroundController).                                                  *)
(*                                                                         *)
(* Each kind of process has a lock of its own, interactive.lock and        *)
(* background.lock; a process takes the lock of its kind and only probes   *)
(* the other.  Every process reads the whole inventory into memory when it *)
(* starts and writes the whole of it back with each change and once more   *)
(* when it ends.  The inventory is the set of the changes in it.           *)
(***************************************************************************)
EXTENDS Naturals, FiniteSets

CONSTANTS
  Terminals,
  Unit,          \* the process of the systemd user unit
  Detached,      \* services a session forks itself
  None,
  MaxChanges,    \* bound: changes made
  MaxFailures    \* bound: crashes, and final saves and forced stops that fail

Services == {Unit} \cup Detached
Procs == Terminals \cup Services

ASSUME ProcsAssumption ==
  /\ Terminals \cap Services = {} /\ Unit \notin Detached
  /\ None \notin Procs
  /\ MaxChanges \in Nat /\ MaxFailures \in Nat

VARIABLES
  pc,            \* what each process is doing
  interactive,   \* the holder of interactive.lock
  background,    \* the holder of background.lock
  asked,         \* services asked to quit
  serving,       \* processes whose device service runs
  database,      \* the changes in inventory.db
  memory,        \* the changes in each process's store_
  made,          \* history: the number of changes saved
  enabled,       \* the saved background_service_enabled
  wants,         \* settings_.backgroundServiceEnabled of each process
  registered,    \* the unit is installed and enabled
  failures       \* the number of failures so far

locks == <<interactive, background>>
data == <<database, memory, made>>
prefs == <<enabled, wants, registered>>
vars == <<pc, locks, asked, serving, data, prefs, failures>>

CommonStates == {"off", "loading", "opening", "starting", "working", "closing"}
TerminalStates == CommonStates \cup
  {"takeover", "grace", "forcing", "killed", "refused", "restarting", "confirming", "forking", "confirmingFork"}
ServiceStates == CommonStates \cup {"waiting", "claiming"}

TypeOK ==
  /\ pc \in [Procs -> TerminalStates \cup ServiceStates]
  /\ \A t \in Terminals : pc[t] \in TerminalStates
  /\ \A s \in Services : pc[s] \in ServiceStates
  /\ interactive \in Terminals \cup {None}
  /\ background \in Services \cup {None}
  /\ asked \subseteq Services
  /\ serving \subseteq Procs
  /\ database \subseteq 1..MaxChanges
  /\ memory \in [Procs -> SUBSET (1..MaxChanges)]
  /\ made \in 0..MaxChanges
  /\ enabled \in BOOLEAN /\ wants \in [Procs -> BOOLEAN] /\ registered \in BOOLEAN
  /\ failures \in 0..MaxFailures

\* The user has chosen the background service, and none was started yet.
Init ==
  /\ pc = [p \in Procs |-> "off"]
  /\ interactive = None /\ background = None
  /\ asked = {} /\ serving = {}
  /\ database = {} /\ memory = [p \in Procs |-> {}] /\ made = 0
  /\ enabled = TRUE /\ wants = [p \in Procs |-> TRUE] /\ registered = TRUE
  /\ failures = 0

Goto(p, state) == pc' = [pc EXCEPT ![p] = state]

\* A process that ends gives up its locks, the device service, the signals for
\* it and the inventory it loaded.
Ends(p) ==
  /\ Goto(p, "off")
  /\ interactive' = IF interactive = p THEN None ELSE interactive
  /\ background' = IF background = p THEN None ELSE background
  /\ asked' = asked \ {p}
  /\ serving' = serving \ {p}
  /\ memory' = [memory EXCEPT ![p] = {}]

-----------------------------------------------------------------------------
(* A terminal session opens. *)

\* acquireSingleInstance(false); a second session ends at once.
OpenTerminal(t) ==
  /\ pc[t] = "off" /\ interactive = None
  /\ interactive' = t
  /\ Goto(t, "takeover")
  /\ UNCHANGED <<background, asked, serving, data, prefs, failures>>

\* stopBackgroundService: one quit request, to the service that runs then.
AskToQuit(t) ==
  /\ pc[t] = "takeover" /\ background # None
  /\ asked' = asked \cup {background}
  /\ Goto(t, "grace")
  /\ UNCHANGED <<locks, serving, data, prefs, failures>>

TakenOver(t) ==
  /\ pc[t] \in {"takeover", "grace", "killed"} /\ background = None
  /\ Goto(t, "loading")
  /\ UNCHANGED <<locks, asked, serving, data, prefs, failures>>

\* The grace period ends with background.lock still held.
GraceEnds(t) ==
  /\ pc[t] = "grace" /\ background # None
  /\ Goto(t, "forcing")
  /\ UNCHANGED <<locks, asked, serving, data, prefs, failures>>

\* Mutant of ForceStop: the service is asked a second time instead.
AskAgain(t) ==
  /\ pc[t] = "forcing" /\ background # None
  /\ Goto(t, "grace")
  /\ asked' = asked \cup {background}
  /\ UNCHANGED <<locks, serving, data, prefs, failures>>

\* forceStopBackgroundService: the holder of background.lock is killed.
ForceStop(t) ==
  /\ pc[t] = "forcing" /\ background # None
  /\ pc' = [pc EXCEPT ![t] = "killed", ![background] = "off"]
  /\ background' = None
  /\ asked' = asked \ {background} /\ serving' = serving \ {background}
  /\ memory' = [memory EXCEPT ![background] = {}]
  /\ UNCHANGED <<interactive, database, made, prefs, failures>>

\* There is no process to signal any more, or the signal cannot be sent to it.
CannotForce(t) ==
  /\ pc[t] = "forcing"
  /\ \/ background = None /\ failures' = failures
     \/ background # None /\ failures < MaxFailures /\ failures' = failures + 1
  /\ Goto(t, "refused")
  /\ UNCHANGED <<locks, asked, serving, data, prefs>>

\* Another service took the lock and holds it at the deadline.
StillRuns(t) ==
  /\ pc[t] = "killed" /\ background # None
  /\ Goto(t, "refused")
  /\ UNCHANGED <<locks, asked, serving, data, prefs, failures>>

Refused(t) ==
  /\ pc[t] = "refused"
  /\ Ends(t)
  /\ UNCHANGED <<database, made, prefs, failures>>

-----------------------------------------------------------------------------
(* A background service opens. *)

\* Mutant of LaunchService: the unit is started by closing sessions only.
NeverRelaunched(s) == FALSE /\ UNCHANGED vars

\* At sign-in, or again after it ended: the unit says Restart=always.
LaunchService(s) ==
  /\ s = Unit /\ pc[s] = "off" /\ registered
  /\ Goto(s, "waiting")
  /\ UNCHANGED <<locks, asked, serving, data, prefs, failures>>

\* waitForWorkspaceRelease: the last of its probes.
Probe(s) ==
  /\ pc[s] = "waiting" /\ interactive = None /\ background = None
  /\ Goto(s, "claiming")
  /\ UNCHANGED <<locks, asked, serving, data, prefs, failures>>

\* acquireSingleInstance(true); a second service ends.
Claim(s) ==
  /\ pc[s] = "claiming"
  /\ background' = IF background = None THEN s ELSE background
  /\ Goto(s, IF background = None THEN "loading" ELSE "off")
  /\ UNCHANGED <<interactive, asked, serving, data, prefs, failures>>

-----------------------------------------------------------------------------
(* App::App and App::run, of both kinds of process. *)

\* App::App: loadAppSettings and loadState.
Load(p) ==
  /\ pc[p] = "loading"
  /\ memory' = [memory EXCEPT ![p] = database]
  /\ wants' = [wants EXCEPT ![p] = enabled]
  /\ Goto(p, "opening")
  /\ UNCHANGED <<locks, asked, serving, database, made, enabled, registered, failures>>

\* Mutant of OtherRuns: a service relies on its wait for the workspace.
OnlyServicesRun(p) == p \in Terminals /\ background # None

\* App::App: the device service starts unless the other kind of process runs.
OtherRuns(p) == IF p \in Terminals THEN background # None ELSE interactive # None

StartDeviceService(p) ==
  /\ pc[p] = "opening"
  /\ serving' = IF OtherRuns(p) THEN serving ELSE serving \cup {p}
  /\ Goto(p, "starting")
  /\ UNCHANGED <<locks, asked, data, prefs, failures>>

\* setBackgroundStartupEnabled(false): systemctl disable --now also stops the
\* unit's process, which handles the signal once it holds its lock.
StopsUnit == registered /\ pc[Unit] # "off"

\* What a step that registers the unit or not does to it, and to process p.
Registers(on, p, state) ==
  /\ registered' = on
  /\ IF ~on /\ StopsUnit
     THEN IF pc[Unit] \in {"waiting", "claiming"}
          THEN pc' = [pc EXCEPT ![p] = state, ![Unit] = "off"] /\ UNCHANGED asked
          ELSE Goto(p, state) /\ asked' = asked \cup {Unit}
     ELSE Goto(p, state) /\ UNCHANGED asked

\* Mutant of Begin: App::run trusts the wait of main.
BeginUnprobed(p) ==
  /\ pc[p] = "starting"
  /\ Registers(wants[p], p, "working")
  /\ UNCHANGED <<locks, serving, data, enabled, wants, failures>>

\* App::run: a session that was opened meanwhile goes first.
Begin(p) ==
  /\ pc[p] = "starting"
  /\ Registers(wants[p], p,
               IF p \in Services /\ interactive # None THEN "closing" ELSE "working")
  /\ UNCHANGED <<locks, serving, data, enabled, wants, failures>>

\* A change of the user or a scan: saveInventoryState, completeDeviceSyncEvent.
Change(p) ==
  /\ pc[p] = "working" /\ p \in Terminals \cup serving
  /\ made < MaxChanges
  /\ made' = made + 1
  /\ memory' = [memory EXCEPT ![p] = @ \cup {made'}]
  /\ database' = memory'[p]
  /\ UNCHANGED <<pc, locks, asked, serving, prefs, failures>>

CloseTerminal(t) ==
  /\ pc[t] = "working"
  /\ Goto(t, "closing")
  /\ UNCHANGED <<locks, asked, serving, data, prefs, failures>>

\* runBackgroundLoop.
Yield(s) ==
  /\ pc[s] = "working" /\ (interactive # None \/ s \in asked)
  /\ Goto(s, "closing")
  /\ UNCHANGED <<locks, asked, serving, data, prefs, failures>>

\* The end of App::run: the device service stops, and every row is written.
FinalSave(p) ==
  /\ pc[p] = "closing"
  /\ database' = memory[p]
  /\ IF p \in Terminals /\ wants[p]
     THEN /\ Goto(p, "restarting")
          /\ interactive' = None
          /\ serving' = serving \ {p}
          /\ memory' = [memory EXCEPT ![p] = {}]
          /\ UNCHANGED <<background, asked>>
     ELSE Ends(p)
  /\ UNCHANGED <<made, prefs, failures>>

\* After a failed save the process ends and starts no service.
FinalSaveFails(p) ==
  /\ pc[p] = "closing" /\ failures < MaxFailures
  /\ failures' = failures + 1
  /\ Ends(p)
  /\ UNCHANGED <<database, made, prefs>>

Crash(p) ==
  /\ pc[p] # "off" /\ failures < MaxFailures
  /\ failures' = failures + 1
  /\ Ends(p)
  /\ UNCHANGED <<database, made, prefs>>

-----------------------------------------------------------------------------
(* restartAsBackgroundService, the session's lock released. *)

StartUnit(t) ==
  /\ pc[t] = "restarting"
  /\ IF registered
     THEN pc' = [pc EXCEPT ![t] = "confirming",
                           ![Unit] = IF @ = "off" THEN "waiting" ELSE @]
     ELSE Goto(t, "forking")
  /\ UNCHANGED <<locks, asked, serving, data, prefs, failures>>

ServiceConfirmed(t) ==
  /\ pc[t] \in {"confirming", "confirmingFork"} /\ background # None
  /\ Goto(t, "off")
  /\ UNCHANGED <<locks, asked, serving, data, prefs, failures>>

\* The waits of 3 and 2 seconds suffice for a service nothing holds back.
HeldBack == interactive # None \/ \A s \in Services : pc[s] = "off"

UnitNotConfirmed(t) ==
  /\ pc[t] = "confirming" /\ background = None /\ HeldBack
  /\ Goto(t, "forking")
  /\ UNCHANGED <<locks, asked, serving, data, prefs, failures>>

\* A session beyond the bound on Detached forks none.
ForkService(t) ==
  /\ pc[t] = "forking"
  /\ \/ \E s \in Detached : /\ pc[s] = "off"
                            /\ pc' = [pc EXCEPT ![t] = "confirmingFork", ![s] = "waiting"]
     \/ /\ \A s \in Detached : pc[s] # "off"
        /\ Goto(t, "confirmingFork")
  /\ UNCHANGED <<locks, asked, serving, data, prefs, failures>>

\* App::run turns the preference off.
ServiceNotConfirmed(t) ==
  /\ pc[t] = "confirmingFork" /\ background = None /\ HeldBack
  /\ Registers(FALSE, t, "off")
  /\ enabled' = FALSE
  /\ UNCHANGED <<locks, serving, data, wants, failures>>

-----------------------------------------------------------------------------

TerminalStep(t) ==
  \/ AskToQuit(t) \/ TakenOver(t) \/ GraceEnds(t) \/ ForceStop(t) \/ CannotForce(t)
  \/ StillRuns(t) \/ Refused(t) \/ StartUnit(t) \/ ServiceConfirmed(t) \/ UnitNotConfirmed(t)
  \/ ForkService(t) \/ ServiceNotConfirmed(t)

ServiceStep(s) == LaunchService(s) \/ Probe(s) \/ Claim(s)

CommonStep(p) == Load(p) \/ StartDeviceService(p) \/ Begin(p) \/ FinalSave(p)

Next ==
  \/ \E t \in Terminals : OpenTerminal(t) \/ CloseTerminal(t) \/ TerminalStep(t)
  \/ \E s \in Services : ServiceStep(s) \/ Yield(s)
  \/ \E p \in Procs : CommonStep(p) \/ Change(p) \/ FinalSaveFails(p) \/ Crash(p)

Spec == Init /\ [][Next]_vars

\* Processes run, and systemd launches the unit again.  Nothing makes the user
\* open or close a session, and a service may never answer a request to quit.
FairSpec ==
  /\ Spec
  /\ \A t \in Terminals : WF_vars(TerminalStep(t))
  /\ \A s \in Services : WF_vars(ServiceStep(s))
  /\ \A p \in Procs : WF_vars(CommonStep(p))

-----------------------------------------------------------------------------
(* Correctness. *)

\* Never do two processes take changes, although each looks at the other's
\* lock only after it took its own.
OneWorker == \A p, q \in Procs : pc[p] = "working" /\ pc[q] = "working" => p = q

\* Never do two processes serve the scanner.
OneServer == \A p, q \in serving : p = q

\* A change that was saved stays in the database: no process writes an older
\* inventory over it.
ChangesKept == 1..made \subseteq database

\* An opened session gets the workspace, or is refused, or crashes, also when
\* the running service never answers.
SessionOpens == \A t \in Terminals : pc[t] = "takeover" ~> pc[t] \in {"working", "refused", "off"}

\* Once no session is open for good, a service has the workspace for good.
ServiceTakesOver ==
  <>[](registered /\ interactive = None) => <>[](\E s \in Services : pc[s] = "working")

=============================================================================
