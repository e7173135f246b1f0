--------------------------- MODULE ScannerService ---------------------------
(***************************************************************************)
(* The authenticated device service: the HTTP workers that serve signed    *)
(* requests (src/src/platform/scanner), and the UI thread that owns the    *)
(* pairing and pushes it to the server (App): starting, restarting,        *)
(* regenerating the token, pairing over Bluetooth, adopting the first      *)
(* device that reports, changing workspace.                                *)
(*                                                                         *)
(* A request is the device, the token that signed it and its counter; any  *)
(* request may be delivered at any time and any number of times.  A worker *)
(* takes the credential lock, authenticates and reserves the counter, takes*)
(* the callback lock before it lets the credential lock go, runs the       *)
(* callback, and saves the counter as the replay marker before it answers. *)
(***************************************************************************)
EXTENDS Naturals, Sequences, FiniteSets

CONSTANTS
  Workers, Devices, None,
  NumWorkspaces,   \* workspace w starts out paired with token w
  MaxTokens,       \* bound: pairing tokens ever generated
  MaxCounter,      \* bound: request counters
  MaxDeliveries,   \* bound: requests that reach a worker
  MaxOperations,   \* bound: restarts, rotations, pairings and switches
  MaxFaults,       \* bound: files, credentials and sockets that fail
  MaxCrashes,      \* bound: times the program is killed
  FaultSteps       \* the steps that may fail

ASSUME BoundsAssumption ==
  /\ {MaxTokens, MaxCounter, MaxDeliveries, MaxOperations, MaxFaults, MaxCrashes} \subseteq Nat
  /\ NumWorkspaces \in 1..MaxTokens
  /\ None \notin Workers \cup Devices

VARIABLES
  stored,       \* per workspace: credential store and scanner configuration file
  marker,       \* per workspace: the replay state file
  app,          \* the UI thread's copy of the pairing, and what it failed to save
  ui,           \* what the UI thread is doing
  server,       \* LocalHttpServer
  workers,      \* its worker threads
  credentialOperationMutex, callbackSerialMutex,   \* their holders
  deviceStatusQueue,
  issued,       \* tokens generated so far
  accepted,     \* history: the counters accepted under each token, in order
  used          \* the bounded resources consumed

disk == <<stored, marker, issued>>
pool == <<workers, credentialOperationMutex, callbackSerialMutex>>
service == <<server, pool>>
vars == <<disk, app, ui, service, deviceStatusQueue, accepted, used>>

NoToken == 0
Tokens == 1..MaxTokens
Workspaces == 1..NumWorkspaces
Counters == 1..MaxCounter
MaybeDevices == Devices \cup {None}

\* The replay state file is missing, unreadable, or one pairing's counter.
NoMarker == [kind |-> "missing", token |-> NoToken, counter |-> 0]
Unreadable == [kind |-> "invalid", token |-> NoToken, counter |-> 0]
MarkerOf(token, counter) == [kind |-> "saved", token |-> token, counter |-> counter]
Markers == {NoMarker, Unreadable}
             \cup {MarkerOf(t, c) : t \in Tokens, c \in Counters}

NoReservation == [counter |-> 0, epoch |-> 0]

Idle == [pc |-> "idle", device |-> None, token |-> NoToken, counter |-> 0,
         route |-> "sync", epoch |-> 0]

UISteps == {"down", "idle", "restart_join", "adopt_set", "rotate_join", "rotate_token",
            "rotate_forget", "ble_config", "ble_token", "ble_paired", "ble_forget", "ble_undo", "ble_set",
            "ble_join", "retry_config", "retry_token", "switch_join", "switch_set"}

TypeOK ==
  /\ stored \in [Workspaces -> [token : {NoToken} \cup Tokens, device : MaybeDevices,
                                setup : BOOLEAN]]
  /\ marker \in [Workspaces -> Markers]
  /\ app \in [ws : Workspaces, token : {NoToken} \cup Tokens, device : MaybeDevices,
              setup : BOOLEAN, configPending : BOOLEAN, tokenPending : BOOLEAN]
  /\ ui \in [step : UISteps, wasRunning : BOOLEAN, outcome : {"paired", "unsaved", "undo"}]
  /\ server \in [running : BOOLEAN, ws : Workspaces, device : MaybeDevices,
                 token : {NoToken} \cup Tokens, valid : BOOLEAN, last : {0} \cup Counters,
                 inFlight : [counter : {0} \cup Counters, epoch : Nat], epoch : Nat]
  /\ workers \in [Workers -> [pc : {"idle", "authenticate", "reserved", "callback", "failed",
                                    "succeeded"},
                              device : MaybeDevices, token : {NoToken} \cup Tokens,
                              counter : {0} \cup Counters, route : {"sync", "firmware"},
                              epoch : Nat]]
  /\ credentialOperationMutex \in Workers \cup {None}
  /\ callbackSerialMutex \in Workers \cup {None}
  /\ deviceStatusQueue \in Seq(Devices)
  /\ issued \in 0..MaxTokens
  /\ accepted \in [Tokens -> Seq(Counters)]
  /\ used \in [deliveries : 0..MaxDeliveries, operations : 0..MaxOperations,
               faults : 0..MaxFaults, crashes : 0..MaxCrashes]

-----------------------------------------------------------------------------
(* LocalHttpServer *)

FreshServer ==
  [running |-> FALSE, ws |-> app.ws, device |-> None, token |-> NoToken, valid |-> TRUE,
   last |-> 0, inFlight |-> NoReservation, epoch |-> 0]

\* loadReplayState: the counter under this token; another token's file counts
\* for nothing, an unreadable one locks the service.
LoadReplayState(ws, token) ==
  [valid |-> marker[ws] # Unreadable,
   counter |-> IF marker[ws].token = token THEN marker[ws].counter ELSE 0]

\* Another token, or another device than the one known: a new pairing.
PairingChanged(from, pairing) ==
  \/ from.device \notin {None, pairing.device}
  \/ from.token \notin {NoToken, pairing.token}

\* A new pairing starts a new sequence; the file is read only when the pairing
\* is the one the server already has.
WithPairing(from, pairing) ==
  LET changed == PairingChanged(from, pairing)
      loaded == LoadReplayState(pairing.ws, pairing.token)
  IN [from EXCEPT
        !.ws = pairing.ws, !.device = pairing.device, !.token = pairing.token,
        !.epoch = @ + 1,
        !.valid = changed \/ loaded.valid,
        !.last = IF changed THEN 0 ELSE loaded.counter]

\* Mutant of SetDeviceCredentials: the reservation is not reset.
SetKeepsReservation(from, pairing) == WithPairing(from, pairing)

SetDeviceCredentials(from, pairing) ==
  [WithPairing(from, pairing) EXCEPT !.inFlight = NoReservation]

Authentic(w) == workers[w].token = server.token

\* Mutant of KnownDevice: the device is not compared.
AnyDevice(w) == TRUE

KnownDevice(w) == server.device \in {None, workers[w].device}

CanReserve(counter) ==
  /\ server.valid /\ server.token # NoToken
  /\ server.inFlight = NoReservation
  /\ counter > server.last

Reservation(w) == [counter |-> workers[w].counter, epoch |-> workers[w].epoch]

CanAdvance(w) ==
  /\ server.epoch = workers[w].epoch
  /\ server.valid /\ server.token # NoToken
  /\ server.inFlight = Reservation(w)
  /\ workers[w].counter > server.last

AllIdle == \A w \in Workers : workers[w].pc = "idle"

-----------------------------------------------------------------------------
(* The worker threads: serveConnection and serveFirmwareRequest *)

\* A request reaches a worker.
Deliver(w) ==
  /\ server.running /\ workers[w].pc = "idle"
  /\ used.deliveries < MaxDeliveries
  /\ \E d \in Devices, t \in 1..issued, c \in Counters, r \in {"sync", "firmware"} :
       workers' = [workers EXCEPT ![w] = [Idle EXCEPT !.pc = "authenticate", !.device = d,
                                            !.token = t, !.counter = c, !.route = r]]
  /\ used' = [used EXCEPT !.deliveries = @ + 1]
  /\ UNCHANGED <<disk, app, ui, server, credentialOperationMutex, callbackSerialMutex,
                 deviceStatusQueue, accepted>>

\* Mutant of LockAfterReserving: every route lets the lock go.
LockLetGo(w) == None

\* The credential lock once the counter is reserved: serveConnection keeps it
\* until it has the callback lock, serveFirmwareRequest lets it go.
LockAfterReserving(w) == IF workers[w].route = "sync" THEN w ELSE None

\* Under the credential lock: a refused request (401, 400, 409) ends here, an
\* accepted one reserves its counter.
Authenticate(w) ==
  /\ workers[w].pc = "authenticate" /\ credentialOperationMutex = None
  /\ IF Authentic(w) /\ KnownDevice(w) /\ CanReserve(workers[w].counter)
     THEN /\ server' = [server EXCEPT !.inFlight = [counter |-> workers[w].counter,
                                                    epoch |-> server.epoch]]
          /\ workers' = [workers EXCEPT ![w].epoch = server.epoch,
                                        ![w].pc = IF workers[w].route = "sync" THEN "reserved"
                                                                               ELSE "succeeded"]
          /\ credentialOperationMutex' = LockAfterReserving(w)
     ELSE /\ workers' = [workers EXCEPT ![w] = Idle]
          /\ UNCHANGED <<server, credentialOperationMutex>>
  /\ UNCHANGED <<disk, app, ui, callbackSerialMutex, deviceStatusQueue, accepted, used>>

\* Mutant of EnterCallback: the credential lock is kept during the callback.
LockKept(w) ==
  /\ workers[w].pc = "reserved" /\ callbackSerialMutex = None
  /\ callbackSerialMutex' = w
  /\ workers' = [workers EXCEPT ![w].pc = "callback"]
  /\ UNCHANGED <<disk, app, ui, server, credentialOperationMutex, deviceStatusQueue,
                 accepted, used>>

\* The callback lock is taken before the credential lock is let go;
\* handleDeviceSync begins by queueing the device's report.
EnterCallback(w) ==
  /\ workers[w].pc = "reserved" /\ callbackSerialMutex = None
  /\ callbackSerialMutex' = w
  /\ credentialOperationMutex' = None
  /\ workers' = [workers EXCEPT ![w].pc = "callback"]
  /\ deviceStatusQueue' = Append(deviceStatusQueue, workers[w].device)
  /\ UNCHANGED <<disk, app, ui, server, accepted, used>>

\* Mutant of CallbackReturns: the callback lock has no guard against exceptions.
ThrowSkipsUnlock(w) ==
  /\ workers[w].pc = "callback"
  /\ \/ /\ workers' = [workers EXCEPT ![w].pc = "succeeded"]
        /\ callbackSerialMutex' = None
     \/ /\ workers' = [workers EXCEPT ![w].pc = "failed"]
        /\ UNCHANGED callbackSerialMutex
  /\ UNCHANGED <<disk, app, ui, server, credentialOperationMutex, deviceStatusQueue, accepted,
                 used>>

\* The callback commits the request's effects, or fails or throws without any.
CallbackReturns(w) ==
  /\ workers[w].pc = "callback"
  /\ callbackSerialMutex' = None
  /\ \E outcome \in {"succeeded", "failed"} :
       workers' = [workers EXCEPT ![w].pc = outcome]
  /\ UNCHANGED <<disk, app, ui, server, credentialOperationMutex, deviceStatusQueue, accepted,
                 used>>

\* releaseReplayCounter, 503: the same counter may be tried again.
ReleaseReplayCounter(w) ==
  /\ workers[w].pc = "failed"
  /\ server' = [server EXCEPT !.inFlight = IF @ = Reservation(w) THEN NoReservation ELSE @]
  /\ workers' = [workers EXCEPT ![w] = Idle]
  /\ UNCHANGED <<disk, app, ui, credentialOperationMutex, callbackSerialMutex,
                 deviceStatusQueue, accepted, used>>

\* advanceReplayCounter: the marker is saved, then the request is answered 200.
WithMarker(w) == [marker EXCEPT ![server.ws] = MarkerOf(server.token, workers[w].counter)]

Log200(w) == accepted' = [accepted EXCEPT ![workers[w].token] = Append(@, workers[w].counter)]

\* Mutant of MarkerSaved: the counter to expect is remembered, not the last one.
LastIsTheNext(w) ==
  /\ CanAdvance(w)
  /\ marker' = WithMarker(w)
  /\ server' = [server EXCEPT !.last = workers[w].counter + 1, !.inFlight = NoReservation]
  /\ Log200(w) /\ UNCHANGED used

MarkerSaved(w) ==
  /\ CanAdvance(w)
  /\ marker' = WithMarker(w)
  /\ server' = [server EXCEPT !.last = workers[w].counter, !.inFlight = NoReservation]
  /\ Log200(w) /\ UNCHANGED used

\* Mutant of MarkerUnsaved: the result of the save is ignored.
UnsavedAnswered(w) ==
  /\ CanAdvance(w)
  /\ "marker_save" \in FaultSteps /\ used.faults < MaxFaults
  /\ server' = [server EXCEPT !.last = workers[w].counter, !.inFlight = NoReservation]
  /\ used' = [used EXCEPT !.faults = @ + 1]
  /\ Log200(w) /\ UNCHANGED marker

\* A failed save, which may still have replaced the file, locks the service
\* (409).
MarkerUnsaved(w) ==
  /\ CanAdvance(w)
  /\ "marker_save" \in FaultSteps /\ used.faults < MaxFaults
  /\ marker' \in {marker, WithMarker(w)}
  /\ server' = [server EXCEPT !.valid = FALSE, !.inFlight = NoReservation]
  /\ used' = [used EXCEPT !.faults = @ + 1]
  /\ UNCHANGED accepted

\* A rotation since the reservation refuses the request (409).
MarkerRefused(w) == ~CanAdvance(w) /\ UNCHANGED <<marker, server, accepted, used>>

AdvanceReplayCounter(w) ==
  /\ workers[w].pc = "succeeded"
  /\ MarkerSaved(w) \/ MarkerUnsaved(w) \/ MarkerRefused(w)
  /\ workers' = [workers EXCEPT ![w] = Idle]
  /\ UNCHANGED <<stored, issued, app, ui, credentialOperationMutex, callbackSerialMutex,
                 deviceStatusQueue>>

ServeStep(w) ==
  \/ Authenticate(w) \/ EnterCallback(w) \/ CallbackReturns(w)
  \/ ReleaseReplayCounter(w) \/ AdvanceReplayCounter(w)


-----------------------------------------------------------------------------
(* The UI thread: App *)

Fault(step) ==
  /\ step \in FaultSteps /\ used.faults < MaxFaults
  /\ used' = [used EXCEPT !.faults = @ + 1]

Goto(step) == ui' = [ui EXCEPT !.step = step]

\* A user's operation, when the UI thread is free.
Start(step) ==
  /\ ui.step = "idle" /\ used.operations < MaxOperations
  /\ used' = [used EXCEPT !.operations = @ + 1]
  /\ ui' = [ui EXCEPT !.step = step, !.wasRunning = server.running]

\* LocalHttpServer::stop: no worker takes a request any more.  The step that
\* follows waits until the workers have finished those they hold.
StopServer == server' = [server EXCEPT !.running = FALSE]

Configured(device, setup) ==
  [stored EXCEPT ![app.ws].device = device, ![app.ws].setup = setup]

\* loadState: the token comes from the credential store; a configuration
\* without its token is cleared, and a workspace without either gets a fresh
\* one.  The token and the configuration are saved again.
LoadPairing(ws) ==
  LET found == stored[ws]
      kept == found.token # NoToken
      fresh == ~kept /\ ~found.setup /\ found.device = None
      token == IF fresh THEN issued + 1 ELSE found.token
      device == IF kept THEN found.device ELSE None
      setup == kept /\ found.setup
      loaded(pending) == [ws |-> ws, token |-> token, device |-> device, setup |-> setup,
                          configPending |-> FALSE, tokenPending |-> pending]
  IN
  /\ fresh => issued < MaxTokens
  /\ issued' = IF fresh THEN issued + 1 ELSE issued
  /\ \/ /\ app' = loaded(token = NoToken /\ app.tokenPending)
        /\ stored' = [stored EXCEPT ![ws] = [token |-> token, device |-> device,
                                            setup |-> setup]]
        /\ UNCHANGED used
     \/ /\ token # NoToken /\ Fault("load_token")
        /\ app' = loaded(TRUE)
        /\ stored' = [stored EXCEPT ![ws].device = device, ![ws].setup = setup]

\* App::App, up to the point where it starts the service.
StartApp ==
  /\ ui.step = "down"
  /\ LoadPairing(app.ws)
  /\ Goto("restart_join")
  /\ UNCHANGED <<marker, service, deviceStatusQueue, accepted>>

\* The program is killed: the disk stays, the memory is gone.
Crash ==
  /\ ui.step # "down" /\ used.crashes < MaxCrashes
  /\ used' = [used EXCEPT !.crashes = @ + 1]
  /\ ui' = [step |-> "down", wasRunning |-> FALSE, outcome |-> "unsaved"]
  /\ app' = [app EXCEPT !.token = NoToken, !.device = None, !.setup = FALSE,
                        !.configPending = FALSE, !.tokenPending = FALSE]
  /\ server' = FreshServer
  /\ workers' = [w \in Workers |-> Idle]
  /\ credentialOperationMutex' = None /\ callbackSerialMutex' = None
  /\ deviceStatusQueue' = <<>>
  /\ UNCHANGED <<disk, accepted>>

\* restartDeviceService, asked for by the user.
BeginRestart ==
  /\ Start("restart_join") /\ StopServer
  /\ UNCHANGED <<disk, app, pool, deviceStatusQueue, accepted>>

\* Mutant of Restarted: a token the server knows is not set again.
RestartedAsItWas ==
  IF server.token = app.token THEN [server EXCEPT !.running = TRUE]
                              ELSE [SetDeviceCredentials(server, app) EXCEPT !.running = TRUE]

\* Mutant of Restarted: the credentials are not set.
RestartedWithoutCredentials == [server EXCEPT !.running = TRUE]

Restarted == [SetDeviceCredentials(server, app) EXCEPT !.running = TRUE]

\* restartDeviceService: an unpaired workspace, or one whose token is not
\* stored, is not served.
RestartService ==
  /\ ui.step = "restart_join" /\ AllIdle
  /\ IF app.setup /\ app.token # NoToken /\ ~app.tokenPending
     THEN \/ server' = Restarted /\ UNCHANGED used
          \/ server' = [Restarted EXCEPT !.running = FALSE] /\ Fault("start")
     ELSE UNCHANGED <<server, used>>
  /\ Goto("idle")
  /\ UNCHANGED <<disk, app, pool, deviceStatusQueue, accepted>>

\* processDeviceRequests: without a paired device the first report's device
\* becomes it.
AdoptDevice ==
  /\ ui.step = "idle" /\ deviceStatusQueue # <<>>
  /\ deviceStatusQueue' = <<>>
  /\ IF app.device # None
     THEN UNCHANGED <<app, stored, ui, used>>
     ELSE LET device == Head(deviceStatusQueue)
              adopted(pending) == [app EXCEPT !.device = device, !.setup = TRUE,
                                              !.configPending = pending]
          IN /\ \/ /\ stored' = Configured(device, TRUE)
                   /\ app' = adopted(FALSE) /\ UNCHANGED used
                \/ /\ Fault("config_save")
                   /\ app' = adopted(TRUE) /\ UNCHANGED stored
             /\ Goto("adopt_set")
  /\ UNCHANGED <<marker, issued, service, accepted>>

\* The credentials change under the running service: wait for the lock.
PushCredentials(step, next) ==
  /\ ui.step = step /\ credentialOperationMutex = None
  /\ server' = SetDeviceCredentials(server, app)
  /\ Goto(next)
  /\ UNCHANGED <<disk, app, pool, deviceStatusQueue, accepted, used>>

PushAdopted == PushCredentials("adopt_set", "idle")

\* rotateInventatoryScanPairing
BeginRotation ==
  /\ Start("rotate_join") /\ StopServer /\ issued < MaxTokens
  /\ UNCHANGED <<disk, app, pool, deviceStatusQueue, accepted>>

RotateConfig ==
  /\ ui.step = "rotate_join" /\ AllIdle
  /\ issued' = issued + 1
  /\ \/ /\ stored' = Configured(None, FALSE)
        /\ app' = [app EXCEPT !.token = issued + 1, !.device = None, !.setup = FALSE,
                              !.configPending = FALSE]
        /\ Goto("rotate_token") /\ UNCHANGED used
     \/ /\ Fault("config_save")
        /\ Goto(IF ui.wasRunning THEN "restart_join" ELSE "idle")
        /\ UNCHANGED <<stored, app>>
  /\ UNCHANGED <<marker, service, deviceStatusQueue, accepted>>

RotateToken ==
  /\ ui.step = "rotate_token"
  /\ \/ /\ stored' = [stored EXCEPT ![app.ws].token = app.token]
        /\ app' = [app EXCEPT !.tokenPending = FALSE]
        /\ Goto("rotate_forget") /\ UNCHANGED used
     \/ /\ Fault("token_save")
        /\ app' = [app EXCEPT !.tokenPending = TRUE]
        /\ Goto("idle") /\ UNCHANGED stored
  /\ UNCHANGED <<marker, issued, service, deviceStatusQueue, accepted>>

\* The replay state is removed (a failure is ignored) and the server told.
RotateForget ==
  /\ ui.step = "rotate_forget"
  /\ \/ marker' = [marker EXCEPT ![app.ws] = NoMarker] /\ UNCHANGED used
     \/ Fault("forget") /\ UNCHANGED marker
  /\ server' = SetDeviceCredentials(server, app)
  /\ Goto("idle")
  /\ UNCHANGED <<stored, issued, app, pool, deviceStatusQueue, accepted>>

\* finishBleProvisioning: the R1 has, or may have, a new token.  The unpaired
\* state is saved first; the service keeps running with the old token.
BeginPairing ==
  /\ Start("ble_config") /\ issued < MaxTokens
  /\ issued' = issued + 1
  /\ app' = [app EXCEPT !.token = issued + 1, !.device = None, !.setup = FALSE]
  /\ UNCHANGED <<stored, marker, service, deviceStatusQueue, accepted>>

PairingConfig ==
  /\ ui.step = "ble_config"
  /\ \/ /\ stored' = Configured(None, FALSE)
        /\ app' = [app EXCEPT !.configPending = FALSE]
        /\ Goto("ble_token") /\ UNCHANGED used
     \/ /\ Fault("ble_config")
        /\ app' = [app EXCEPT !.configPending = TRUE]
        /\ ui' = [ui EXCEPT !.step = "ble_forget", !.outcome = "unsaved"]
        /\ UNCHANGED stored
  /\ UNCHANGED <<marker, issued, service, deviceStatusQueue, accepted>>

PairingToken ==
  /\ ui.step = "ble_token"
  /\ \/ /\ stored' = [stored EXCEPT ![app.ws].token = app.token]
        /\ app' = [app EXCEPT !.tokenPending = FALSE]
        /\ Goto("ble_paired") /\ UNCHANGED used
     \/ /\ Fault("ble_token")
        /\ app' = [app EXCEPT !.tokenPending = TRUE]
        /\ ui' = [ui EXCEPT !.step = "ble_forget", !.outcome = "unsaved"]
        /\ UNCHANGED stored
  /\ UNCHANGED <<marker, issued, service, deviceStatusQueue, accepted>>

PairingPaired ==
  /\ ui.step = "ble_paired"
  /\ \/ /\ stored' = Configured(None, TRUE)
        /\ app' = [app EXCEPT !.setup = TRUE, !.configPending = FALSE]
        /\ ui' = [ui EXCEPT !.step = "ble_forget", !.outcome = "paired"]
        /\ UNCHANGED used
     \/ /\ Fault("config_save")
        /\ app' = [app EXCEPT !.setup = TRUE, !.configPending = TRUE]
        /\ ui' = [ui EXCEPT !.step = "ble_forget", !.outcome = "undo"]
        /\ UNCHANGED stored
  /\ UNCHANGED <<marker, issued, service, deviceStatusQueue, accepted>>

\* The replay state goes whatever was saved.
PairingForget ==
  /\ ui.step = "ble_forget"
  /\ \/ marker' = [marker EXCEPT ![app.ws] = NoMarker] /\ UNCHANGED used
     \/ Fault("forget") /\ UNCHANGED marker
  /\ IF ui.outcome = "unsaved" THEN Goto("ble_join") /\ StopServer
     ELSE Goto(IF ui.outcome = "paired" THEN "ble_set" ELSE "ble_undo") /\ UNCHANGED server
  /\ UNCHANGED <<stored, issued, app, pool, deviceStatusQueue, accepted>>

\* The token is stored but the pairing is not: both are taken back.
PairingUndo ==
  LET cleared(pending) == [app EXCEPT !.token = NoToken, !.device = None, !.setup = FALSE,
                                      !.configPending = pending, !.tokenPending = FALSE]
  IN
  /\ ui.step = "ble_undo"
  /\ \/ /\ stored' = [Configured(None, FALSE) EXCEPT ![app.ws].token = NoToken]
        /\ app' = cleared(FALSE) /\ UNCHANGED used
     \/ /\ Fault("config_save")
        /\ stored' = [stored EXCEPT ![app.ws].token = NoToken]
        /\ app' = cleared(TRUE)
  /\ Goto("ble_join") /\ StopServer
  /\ UNCHANGED <<marker, issued, pool, deviceStatusQueue, accepted>>

\* The paired end: push the credentials, then restart the service.
PairingSet ==
  /\ ui.step = "ble_set" /\ credentialOperationMutex = None
  /\ server' = [SetDeviceCredentials(server, app) EXCEPT !.running = FALSE]
  /\ Goto("restart_join")
  /\ UNCHANGED <<disk, app, pool, deviceStatusQueue, accepted, used>>

PairingEnd ==
  /\ ui.step = "ble_join" /\ AllIdle
  /\ Goto("idle")
  /\ UNCHANGED <<disk, app, service, deviceStatusQueue, accepted, used>>

\* retrySaveState: what could not be saved is saved again; a service that is
\* down is then restarted.
BeginRetry ==
  /\ Start("retry_config") /\ (app.configPending \/ app.tokenPending)
  /\ UNCHANGED <<disk, app, service, deviceStatusQueue, accepted>>

RetryConfig ==
  /\ ui.step = "retry_config"
  /\ \/ /\ stored' = IF app.configPending THEN Configured(app.device, app.setup) ELSE stored
        /\ app' = [app EXCEPT !.configPending = FALSE] /\ UNCHANGED used
     \/ app.configPending /\ Fault("config_save") /\ UNCHANGED <<stored, app>>
  /\ Goto("retry_token")
  /\ UNCHANGED <<marker, issued, service, deviceStatusQueue, accepted>>

RetryToken ==
  /\ ui.step = "retry_token"
  /\ IF app.tokenPending /\ app.token # NoToken
     THEN \/ /\ stored' = [stored EXCEPT ![app.ws].token = app.token]
             /\ app' = [app EXCEPT !.tokenPending = FALSE] /\ UNCHANGED used
          \/ Fault("token_save") /\ UNCHANGED <<stored, app>>
     ELSE UNCHANGED <<stored, app, used>>
  /\ Goto(IF ~app'.configPending /\ ~app'.tokenPending /\ ~server.running /\ app.token # NoToken
          THEN "restart_join" ELSE "idle")
  /\ UNCHANGED <<marker, issued, service, deviceStatusQueue, accepted>>

\* Loading another workspace, once the old one's pairing is saved.
BeginSwitch ==
  /\ Start("switch_join") /\ StopServer
  /\ Workspaces # {app.ws} /\ issued < MaxTokens
  /\ UNCHANGED <<disk, app, pool, deviceStatusQueue, accepted>>

SwitchSave ==
  /\ ui.step = "switch_join" /\ AllIdle /\ app.configPending
  /\ \/ /\ stored' = Configured(app.device, app.setup)
        /\ app' = [app EXCEPT !.configPending = FALSE] /\ UNCHANGED <<ui, used>>
     \/ /\ Fault("config_save")
        /\ Goto(IF ui.wasRunning THEN "restart_join" ELSE "idle")
        /\ UNCHANGED <<stored, app>>
  /\ UNCHANGED <<marker, issued, service, deviceStatusQueue, accepted>>

SwitchWorkspace ==
  /\ ui.step = "switch_join" /\ AllIdle /\ ~app.configPending
  /\ \E ws \in Workspaces \ {app.ws} : LoadPairing(ws)
  /\ deviceStatusQueue' = <<>>
  /\ Goto(IF app'.setup THEN "switch_set" ELSE "idle")
  /\ UNCHANGED <<marker, service, accepted>>

SwitchSet ==
  /\ ui.step = "switch_set"
  /\ server' = SetDeviceCredentials(server, app)
  /\ Goto(IF ui.wasRunning THEN "restart_join" ELSE "idle")
  /\ UNCHANGED <<disk, app, pool, deviceStatusQueue, accepted, used>>

UIStep ==
  \/ RestartService \/ PushAdopted
  \/ RotateConfig \/ RotateToken \/ RotateForget
  \/ PairingConfig \/ PairingToken \/ PairingPaired \/ PairingForget \/ PairingUndo
  \/ PairingSet \/ PairingEnd
  \/ RetryConfig \/ RetryToken \/ SwitchSave \/ SwitchWorkspace \/ SwitchSet

\* What a person or the clock decides: nothing need ever happen.
Requested ==
  \/ StartApp \/ Crash \/ AdoptDevice
  \/ BeginRestart \/ BeginRotation \/ BeginPairing \/ BeginRetry
  \/ BeginSwitch

Init ==
  /\ stored \in {s \in [Workspaces -> [token : Tokens, device : MaybeDevices, setup : {TRUE}]] :
                  \A ws \in Workspaces : s[ws].token = ws}
  /\ marker \in [Workspaces -> {NoMarker, Unreadable}]
  /\ app = [ws |-> 1, token |-> NoToken, device |-> None, setup |-> FALSE,
            configPending |-> FALSE, tokenPending |-> FALSE]
  /\ ui = [step |-> "down", wasRunning |-> FALSE, outcome |-> "unsaved"]
  /\ server = FreshServer
  /\ workers = [w \in Workers |-> Idle]
  /\ credentialOperationMutex = None /\ callbackSerialMutex = None
  /\ deviceStatusQueue = <<>>
  /\ issued = NumWorkspaces
  /\ accepted = [t \in Tokens |-> <<>>]
  /\ used = [deliveries |-> 0, operations |-> 0, faults |-> 0, crashes |-> 0]

Next == Requested \/ UIStep \/ \E w \in Workers : Deliver(w) \/ ServeStep(w)

Spec == Init /\ [][Next]_vars

\* The threads run: a worker that holds a request and a UI thread inside an
\* operation get their turn whenever they can move.
FairSpec == Spec /\ WF_vars(UIStep) /\ \A w \in Workers : WF_vars(ServeStep(w))

-----------------------------------------------------------------------------
(* What should hold *)

\* Under one token the accepted counters only go up: across restarts, crashes,
\* failed saves, pairings and changes of workspace (refinement of CounterLog;
\* reserveReplayCounter, advanceReplayCounter, loadReplayState and every
\* caller of setDeviceCredentials).
Log == INSTANCE CounterLog
CountersGoUp == Log!Spec

\* A restart would not forget an accepted counter: while the store and the
\* configuration would serve a token, its marker covers what was accepted.
RestartRemembers ==
  \A ws \in Workspaces :
    LET t == stored[ws].token IN
    stored[ws].setup /\ t # NoToken =>
      \A i \in 1..Len(accepted[t]) :
        marker[ws].token = t /\ accepted[t][i] <= marker[ws].counter

\* A reservation always belongs to a request still being served; one nobody
\* would release refuses every later request (releaseReplayCounter,
\* setDeviceCredentials).
NoStuckReservation ==
  server.inFlight # NoReservation =>
    \E w \in Workers : /\ workers[w].pc \in {"reserved", "callback", "failed", "succeeded"}
                      /\ server.inFlight = Reservation(w)

\* No callback starts for credentials that were rotated meanwhile
\* (serveConnection: "rotation cannot slip between them").
CallbackUnderCurrentCredentials ==
  [][\A w \in Workers :
       workers[w].pc # "callback" /\ workers'[w].pc = "callback"
         => workers[w].epoch = server.epoch /\ workers[w].token = server.token]_vars

\* A request is accepted only under the token the server has at that moment,
\* from the device it is paired with.
AcceptedFromPairedDevice ==
  [][\A w \in Workers :
       workers[w].pc = "succeeded" /\ workers'[w].pc = "idle" /\ accepted' # accepted
         => /\ accepted'[server.token] = Append(accepted[server.token], workers[w].counter)
            /\ server.device \in {None, workers[w].device}]_vars

\* Between operations, a running service serves the pairing the application
\* has, and one whose token is stored.
ServesStoredPairing ==
  ui.step = "idle" /\ server.running =>
    /\ server.token = app.token /\ server.device = app.device /\ server.ws = app.ws
    /\ stored[app.ws].token = app.token

\* Every operation of the UI thread ends, although it waits for the workers
\* and for the credential lock.
OperationsEnd == (ui.step \notin {"idle", "down"}) ~> (ui.step \in {"idle", "down"})

\* Every request that reached a worker is answered.
RequestsAnswered ==
  \A w \in Workers : (workers[w].pc # "idle") ~> (workers[w].pc = "idle")

=============================================================================
