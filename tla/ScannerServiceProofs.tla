------------------------ MODULE ScannerServiceProofs ------------------------
(***************************************************************************)
(* For any workers, devices, workspaces, tokens and counters and any       *)
(* failures and crashes: no reservation is left behind, no callback starts *)
(* under credentials that changed, and what is accepted is accepted under  *)
(* the token the server has, from the device it is paired with.            *)
(*                                                                         *)
(* The argument is the epoch.  A request that has reserved its counter     *)
(* remembers the epoch of the credentials that let it in, and a change of  *)
(* credentials makes that epoch an old one and takes the reservation back; *)
(* so the epoch decides alone whether a reservation is still good.  And    *)
(* no credentials change while a request waits for its callback: either    *)
(* the change waits for the credential lock, which the request holds, or   *)
(* the service is stopped and every worker has finished.                   *)
(***************************************************************************)
EXTENDS ScannerService, TLAPS

Serving == {"reserved", "callback", "failed", "succeeded"}

MaybeTokens == {NoToken} \cup Tokens

\* The values of the variables.
Stores == [Workspaces -> [token : MaybeTokens, device : MaybeDevices, setup : BOOLEAN]]
Pairings == [ws : Workspaces, token : MaybeTokens, device : MaybeDevices, setup : BOOLEAN,
             configPending : BOOLEAN, tokenPending : BOOLEAN]
Operations == [step : UISteps, wasRunning : BOOLEAN, outcome : {"paired", "unsaved", "undo"}]
Servers == [running : BOOLEAN, ws : Workspaces, device : MaybeDevices, token : MaybeTokens,
            valid : BOOLEAN, last : {0} \cup Counters,
            inFlight : [counter : {0} \cup Counters, epoch : Nat], epoch : Nat]
Requests == [pc : {"idle", "authenticate", "reserved", "callback", "failed", "succeeded"},
             device : MaybeDevices, token : MaybeTokens, counter : {0} \cup Counters,
             route : {"sync", "firmware"}, epoch : Nat]
Uses == [deliveries : 0..MaxDeliveries, operations : 0..MaxOperations,
         faults : 0..MaxFaults, crashes : 0..MaxCrashes]

StoreTyped ==
  /\ stored \in Stores /\ marker \in [Workspaces -> Markers]
  /\ issued \in 0..MaxTokens /\ accepted \in [Tokens -> Seq(Counters)]

AppTyped ==
  /\ app \in Pairings /\ ui \in Operations
  /\ deviceStatusQueue \in Seq(Devices) /\ used \in Uses

\* A worker that is not idle has a request.
RequestTaken(threads) ==
  \A w \in Workers : threads[w].pc # "idle" =>
    threads[w].device \in Devices /\ threads[w].token \in Tokens /\ threads[w].counter \in Counters

PoolTyped ==
  /\ workers \in [Workers -> Requests]
  /\ credentialOperationMutex \in Workers \cup {None}
  /\ callbackSerialMutex \in Workers \cup {None}
  /\ RequestTaken(workers)

Typed == StoreTyped /\ AppTyped /\ server \in Servers /\ PoolTyped

\* A request that waits for its callback has the credential lock.
LockHeld == \A w \in Workers : workers[w].pc = "reserved" => credentialOperationMutex = w

\* A request of the present epoch came in under the present credentials.
EpochTells ==
  \A w \in Workers :
    /\ workers[w].pc \in Serving =>
         /\ workers[w].epoch <= server.epoch
         /\ workers[w].epoch = server.epoch =>
              workers[w].token = server.token /\ server.device \in {None, workers[w].device}
    /\ workers[w].pc = "reserved" => workers[w].epoch = server.epoch

\* A reservation is one that can still be advanced.
ReservationGood ==
  server.inFlight # NoReservation =>
    /\ server.inFlight.epoch = server.epoch /\ server.inFlight.counter > server.last
    /\ server.valid /\ server.token # NoToken

ServiceInv == LockHeld /\ EpochTells /\ ReservationGood /\ NoStuckReservation

\* Once the service is stopped and its workers joined, it stays so.
Stopped ==
  /\ ui.step \in {"rotate_join", "rotate_token", "rotate_forget", "switch_join", "switch_set"}
       => ~server.running
  /\ ui.step \in {"rotate_token", "rotate_forget", "switch_set"} => AllIdle

AppInv ==
  /\ ui.step = "rotate_join" => issued < MaxTokens
  /\ Stopped

IInv == Typed /\ ServiceInv /\ AppInv

-----------------------------------------------------------------------------
(* Types *)

\* The bounds are numbers, and so are tokens and counters.
LEMMA Kinds ==
  /\ {MaxTokens, MaxCounter, MaxDeliveries, MaxOperations, MaxFaults, MaxCrashes} \subseteq Nat
  /\ NumWorkspaces \in Nat /\ 1 \in Workspaces /\ Workspaces \subseteq Tokens
  /\ NoToken = 0 /\ Tokens \subseteq Nat /\ Counters \subseteq Nat
  BY BoundsAssumption DEF Workspaces, Tokens, Counters, NoToken

\* What is counted stays within its bound.
LEMMA Counted ==
  ASSUME Typed, NEW step, Fault(step) \/ Start(step) \/ UNCHANGED used
  PROVE  used' \in Uses
<1>0. used \in Uses /\ MaxFaults \in Nat /\ MaxOperations \in Nat
  BY Kinds, BoundsAssumption DEF Typed, AppTyped
<1>1. CASE Fault(step)
  BY <1>0, <1>1 DEF Fault, Uses
<1>2. CASE Start(step)
  BY <1>0, <1>2 DEF Start, Uses
<1> QED
  BY <1>1, <1>2 DEF Typed, AppTyped

\* The UI thread goes on, or begins an operation.
LEMMA Going ==
  ASSUME Typed, NEW step \in UISteps, Goto(step) \/ Start(step)
  PROVE  ui' \in Operations /\ ui'.step = step
<1>1. ui \in Operations /\ server.running \in BOOLEAN
  BY DEF Typed, AppTyped, Servers
<1> QED
  BY <1>1 DEF Goto, Start, Operations

\* What an operation writes to the stores of the workspace.
LEMMA Saved ==
  ASSUME Typed
  PROVE  /\ \A d \in MaybeDevices, b \in BOOLEAN : Configured(d, b) \in Stores
         /\ Configured(app.device, app.setup) \in Stores
         /\ \A t \in MaybeTokens : [stored EXCEPT ![app.ws].token = t] \in Stores
         /\ \A t \in MaybeTokens, d \in MaybeDevices, b \in BOOLEAN :
              [Configured(d, b) EXCEPT ![app.ws].token = t] \in Stores
         /\ [marker EXCEPT ![app.ws] = NoMarker] \in [Workspaces -> Markers]
         /\ None \in MaybeDevices /\ NoToken \in MaybeTokens /\ app.token \in MaybeTokens
<1>1. /\ app.ws \in Workspaces /\ app.token \in MaybeTokens /\ app.device \in MaybeDevices
      /\ app.setup \in BOOLEAN /\ None \in MaybeDevices /\ NoToken \in MaybeTokens
  BY DEF Typed, AppTyped, Pairings, MaybeDevices, MaybeTokens
<1>2. \A d \in MaybeDevices, b \in BOOLEAN : Configured(d, b) \in Stores
  BY <1>1 DEF Configured, Typed, StoreTyped, Stores
<1>3. \A S \in Stores, t \in MaybeTokens : [S EXCEPT ![app.ws].token = t] \in Stores
  BY <1>1 DEF Stores
<1>4. stored \in Stores
  BY DEF Typed, StoreTyped
<1>5. [marker EXCEPT ![app.ws] = NoMarker] \in [Workspaces -> Markers]
  BY <1>1 DEF Typed, StoreTyped, Markers
<1> QED
  BY <1>1, <1>2, <1>3, <1>4, <1>5

\* A request moves on, or ends.
LEMMA Moved ==
  ASSUME Typed, NEW w \in Workers, workers[w].pc # "idle"
  PROVE  /\ \A pc \in {"reserved", "callback", "failed", "succeeded"} :
              /\ [workers EXCEPT ![w].pc = pc] \in [Workers -> Requests]
              /\ RequestTaken([workers EXCEPT ![w].pc = pc])
         /\ [workers EXCEPT ![w] = Idle] \in [Workers -> Requests]
         /\ RequestTaken([workers EXCEPT ![w] = Idle])
         /\ workers[w].device \in Devices /\ workers[w].token \in Tokens
         /\ workers[w].counter \in Counters
<1>1. Idle \in Requests /\ Idle.pc = "idle"
  BY DEF Idle, Requests, MaybeDevices, MaybeTokens
<1>2. workers \in [Workers -> Requests] /\ RequestTaken(workers)
  BY DEF Typed, PoolTyped
<1>3. ASSUME NEW pc \in {"reserved", "callback", "failed", "succeeded"}
      PROVE  /\ [workers EXCEPT ![w].pc = pc] \in [Workers -> Requests]
             /\ RequestTaken([workers EXCEPT ![w].pc = pc])
  BY <1>2 DEF RequestTaken, Requests
<1>4. /\ [workers EXCEPT ![w] = Idle] \in [Workers -> Requests]
      /\ RequestTaken([workers EXCEPT ![w] = Idle])
  BY <1>1, <1>2 DEF RequestTaken
<1> QED
  BY <1>2, <1>3, <1>4 DEF RequestTaken

\* A step of a worker thread.
LEMMA WorkerTyped ==
  ASSUME Typed, NEW w \in Workers, Deliver(w) \/ ServeStep(w)
  PROVE  Typed'
<1>1. CASE Deliver(w)
  <2>1. PICK d \in Devices, t \in 1..issued, c \in Counters, r \in {"sync", "firmware"} :
          workers' = [workers EXCEPT ![w] = [Idle EXCEPT !.pc = "authenticate", !.device = d,
                                               !.token = t, !.counter = c, !.route = r]]
    BY <1>1 DEF Deliver
  <2> DEFINE request == [Idle EXCEPT !.pc = "authenticate", !.device = d, !.token = t,
                                     !.counter = c, !.route = r]
  <2>2. t \in Tokens
    BY Kinds DEF Typed, StoreTyped, Tokens
  <2>3. /\ request \in Requests /\ request.device = d /\ request.token = t /\ request.counter = c
    BY <2>2 DEF Idle, Requests, MaybeDevices, MaybeTokens
  <2> HIDE DEF request
  <2>4. workers' = [workers EXCEPT ![w] = request]
    BY <2>1 DEF request
  <2>5. PoolTyped'
    BY <1>1, <2>2, <2>3, <2>4 DEF Deliver, Typed, PoolTyped, RequestTaken
  <2>6. used' \in Uses
    <3>1. /\ used.deliveries < MaxDeliveries /\ used \in Uses
          /\ used' = [used EXCEPT !.deliveries = @ + 1]
      BY <1>1 DEF Deliver, Typed, AppTyped
    <3> QED
      BY <3>1, Kinds DEF Uses
  <2> QED
    BY <1>1, <2>5, <2>6 DEF Deliver, Typed, StoreTyped, AppTyped, disk
<1>2. CASE Authenticate(w)
  <2>1. workers[w].pc # "idle"
    BY <1>2 DEF Authenticate
  <2>2. CASE Authentic(w) /\ KnownDevice(w) /\ CanReserve(workers[w].counter)
    <3>1. PoolTyped'
      BY <1>2, <2>1, <2>2
      DEF Authenticate, LockAfterReserving, Typed, PoolTyped, RequestTaken, Servers, Requests
    <3>2. server' \in Servers
      <4>1. server' = [server EXCEPT !.inFlight = [counter |-> workers[w].counter,
                                                   epoch |-> server.epoch]]
        BY <1>2, <2>2 DEF Authenticate
      <4>2. workers[w].counter \in Counters /\ server \in Servers
        BY <2>1, Moved DEF Typed
      <4> QED
        BY <4>1, <4>2 DEF Servers
    <3> QED
      BY <1>2, <3>1, <3>2 DEF Authenticate, Typed, StoreTyped, AppTyped, disk
  <2>3. CASE ~(Authentic(w) /\ KnownDevice(w) /\ CanReserve(workers[w].counter))
    <3>1. /\ workers' = [workers EXCEPT ![w] = Idle]
          /\ UNCHANGED <<server, credentialOperationMutex, callbackSerialMutex>>
      BY <1>2, <2>3 DEF Authenticate
    <3>2. PoolTyped'
      BY <2>1, <3>1, Moved DEF Typed, PoolTyped
    <3> QED
      BY <1>2, <3>1, <3>2 DEF Authenticate, Typed, StoreTyped, AppTyped, disk
  <2> QED
    BY <2>2, <2>3
<1>3. CASE EnterCallback(w)
  <2>1. /\ workers[w].pc # "idle" /\ workers' = [workers EXCEPT ![w].pc = "callback"]
        /\ credentialOperationMutex' = None /\ callbackSerialMutex' = w
    BY <1>3 DEF EnterCallback
  <2>2. PoolTyped' /\ workers[w].device \in Devices
    BY <2>1, Moved DEF Typed, PoolTyped
  <2>3. deviceStatusQueue' \in Seq(Devices)
    BY <1>3, <2>2 DEF EnterCallback, Typed, AppTyped
  <2> QED
    BY <1>3, <2>2, <2>3 DEF EnterCallback, Typed, StoreTyped, AppTyped, disk
<1>4. CASE CallbackReturns(w)
  <2>1. PICK outcome \in {"succeeded", "failed"} : workers' = [workers EXCEPT ![w].pc = outcome]
    BY <1>4 DEF CallbackReturns
  <2>2. PoolTyped'
    BY <1>4, <2>1, Moved DEF CallbackReturns, Typed, PoolTyped
  <2> QED
    BY <1>4, <2>2 DEF CallbackReturns, Typed, StoreTyped, AppTyped, disk
<1>5. CASE ReleaseReplayCounter(w)
  <2>1. PoolTyped'
    BY <1>5, Moved DEF ReleaseReplayCounter, Typed, PoolTyped
  <2>2. server' \in Servers
    BY <1>5 DEF ReleaseReplayCounter, Typed, Servers, NoReservation
  <2> QED
    BY <1>5, <2>1, <2>2 DEF ReleaseReplayCounter, Typed, StoreTyped, AppTyped, disk
<1>6. CASE AdvanceReplayCounter(w)
  <2>1. /\ workers[w].pc # "idle" /\ workers' = [workers EXCEPT ![w] = Idle]
        /\ UNCHANGED <<stored, issued, app, ui, credentialOperationMutex, callbackSerialMutex,
                       deviceStatusQueue>>
        /\ MarkerSaved(w) \/ MarkerUnsaved(w) \/ MarkerRefused(w)
    BY <1>6 DEF AdvanceReplayCounter
  <2>2. PoolTyped'
    BY <2>1, Moved DEF Typed, PoolTyped
  <2>3. /\ server' \in Servers /\ used' \in Uses
        /\ marker' \in [Workspaces -> Markers] /\ accepted' \in [Tokens -> Seq(Counters)]
    <3>1. workers[w].counter \in Counters /\ workers[w].token \in Tokens
      BY <2>1, Moved
    <3>2. CanAdvance(w) => WithMarker(w) \in [Workspaces -> Markers]
      BY <3>1
      DEF WithMarker, CanAdvance, Typed, StoreTyped, Servers, MaybeTokens, Markers, MarkerOf
    <3>3. CASE MarkerSaved(w)
      <4>1. server' \in Servers
        BY <3>1, <3>3 DEF MarkerSaved, Typed, Servers, NoReservation
      <4>2. accepted' \in [Tokens -> Seq(Counters)]
        <5>1. Append(accepted[workers[w].token], workers[w].counter) \in Seq(Counters)
          BY <3>1 DEF Typed, StoreTyped
        <5> QED
          BY <3>1, <3>3, <5>1 DEF MarkerSaved, Log200, Typed, StoreTyped
      <4> QED
        BY <3>2, <3>3, <4>1, <4>2 DEF MarkerSaved, Typed, AppTyped
    <3>4. CASE MarkerUnsaved(w)
      <4>1. server' \in Servers
        BY <3>4 DEF MarkerUnsaved, Typed, Servers, NoReservation
      <4>2. used' \in Uses
        BY <3>4, Counted DEF MarkerUnsaved, Fault
      <4> QED
        BY <3>2, <3>4, <4>1, <4>2 DEF MarkerUnsaved, Typed, StoreTyped
    <3>5. CASE MarkerRefused(w)
      BY <3>5 DEF MarkerRefused, Typed, StoreTyped, AppTyped
    <3> QED
      BY <2>1, <3>3, <3>4, <3>5
  <2> QED
    BY <2>1, <2>2, <2>3 DEF Typed, StoreTyped, AppTyped
<1> QED
  BY <1>1, <1>2, <1>3, <1>4, <1>5, <1>6 DEF ServeStep

\* The server with the credentials of the application.
LEMMA CredentialsTyped ==
  ASSUME Typed
  PROVE  /\ SetDeviceCredentials(server, app) \in Servers
         /\ SetDeviceCredentials(server, app).epoch = server.epoch + 1
         /\ SetDeviceCredentials(server, app).inFlight = NoReservation
         /\ \A b \in BOOLEAN :
              /\ [SetDeviceCredentials(server, app) EXCEPT !.running = b] \in Servers
              /\ [SetDeviceCredentials(server, app) EXCEPT !.running = b].epoch = server.epoch + 1
              /\ [SetDeviceCredentials(server, app) EXCEPT !.running = b].inFlight = NoReservation
<1> DEFINE loaded == LoadReplayState(app.ws, app.token)
           changed == PairingChanged(server, app)
           valid == changed \/ loaded.valid
           last == IF changed THEN 0 ELSE loaded.counter
<1>1. app.ws \in Workspaces /\ app.token \in MaybeTokens /\ app.device \in MaybeDevices
  BY DEF Typed, AppTyped, Pairings
<1>2. loaded.counter \in {0} \cup Counters
  BY <1>1 DEF LoadReplayState, Typed, StoreTyped, Markers, NoMarker, Unreadable, MarkerOf
<1>3. last \in {0} \cup Counters /\ valid \in BOOLEAN
  BY <1>2
<1>4. WithPairing(server, app) =
        [server EXCEPT !.ws = app.ws, !.device = app.device, !.token = app.token,
           !.epoch = server.epoch + 1, !.valid = valid, !.last = last]
  BY DEF WithPairing
<1> HIDE DEF valid, last
<1>5. WithPairing(server, app) \in Servers /\ WithPairing(server, app).epoch = server.epoch + 1
  <2>1. server \in Servers /\ server.epoch + 1 \in Nat
    BY DEF Typed, Servers
  <2> HIDE DEF loaded, changed
  <2> QED
    BY <1>1, <1>3, <1>4, <2>1 DEF Servers
<1> QED
  BY <1>5 DEF SetDeviceCredentials, NoReservation, Servers

\* loadState finds or makes a pairing.
LEMMA LoadedTyped ==
  ASSUME Typed, NEW ws \in Workspaces, LoadPairing(ws)
  PROVE  stored' \in Stores /\ issued' \in 0..MaxTokens /\ app' \in Pairings /\ used' \in Uses
<1> DEFINE found == stored[ws]
           kept == found.token # NoToken
           fresh == ~kept /\ ~found.setup /\ found.device = None
           token == IF fresh THEN issued + 1 ELSE found.token
           device == IF kept THEN found.device ELSE None
           setup == kept /\ found.setup
           unsaved == token = NoToken /\ app.tokenPending
           loaded(pending) == [ws |-> ws, token |-> token, device |-> device, setup |-> setup,
                               configPending |-> FALSE, tokenPending |-> pending]
<1>1. /\ found.token \in MaybeTokens /\ found.device \in MaybeDevices /\ found.setup \in BOOLEAN
      /\ issued \in 0..MaxTokens
  BY DEF Typed, StoreTyped, Stores
<1>2. (fresh => issued < MaxTokens) /\ issued' = IF fresh THEN issued + 1 ELSE issued
  BY DEF LoadPairing
<1>3. /\ token \in MaybeTokens /\ device \in MaybeDevices /\ setup \in BOOLEAN
      /\ unsaved \in BOOLEAN /\ issued' \in 0..MaxTokens
  BY <1>1, <1>2, Kinds DEF MaybeDevices, MaybeTokens, Tokens
<1>4. \/ /\ app' = loaded(unsaved) /\ UNCHANGED used
         /\ stored' = [stored EXCEPT ![ws] = [token |-> token, device |-> device,
                                             setup |-> setup]]
      \/ /\ app' = loaded(TRUE) /\ Fault("load_token")
         /\ stored' = [stored EXCEPT ![ws].device = device, ![ws].setup = setup]
  BY DEF LoadPairing
<1>5. used' \in Uses
  BY <1>4, Counted
<1> HIDE DEF token, device, setup, unsaved
<1>6. app' \in Pairings
  <2>1. loaded(unsaved) \in Pairings /\ loaded(TRUE) \in Pairings
    BY <1>3 DEF Pairings
  <2> QED
    BY <1>4, <2>1
<1>7. stored' \in Stores
  <2>1. [stored EXCEPT ![ws] = [token |-> token, device |-> device, setup |-> setup]] \in Stores
    BY <1>3 DEF Typed, StoreTyped, Stores
  <2>2. [stored EXCEPT ![ws].device = device, ![ws].setup = setup] \in Stores
    BY <1>3 DEF Typed, StoreTyped, Stores
  <2> QED
    BY <1>4, <2>1, <2>2
<1> QED
  BY <1>3, <1>5, <1>6, <1>7

\* A step of the UI thread that changes neither the server nor its workers.
LEMMA AppTypes ==
  ASSUME Typed, UNCHANGED service,
         \/ StartApp \/ AdoptDevice \/ BeginPairing \/ BeginRetry
         \/ RotateConfig \/ RotateToken
         \/ PairingConfig \/ PairingToken \/ PairingPaired \/ PairingEnd
         \/ RetryConfig \/ RetryToken \/ SwitchSave \/ SwitchWorkspace,
         ui.step = "rotate_join" => issued < MaxTokens
  PROVE  Typed'
<1>1. server' \in Servers /\ PoolTyped'
  BY DEF Typed, PoolTyped, service, pool
<1>2. /\ stored \in Stores /\ marker \in [Workspaces -> Markers] /\ issued \in 0..MaxTokens
      /\ accepted \in [Tokens -> Seq(Counters)] /\ app \in Pairings /\ ui \in Operations
      /\ deviceStatusQueue \in Seq(Devices) /\ used \in Uses /\ <<>> \in Seq(Devices)
  BY DEF Typed, StoreTyped, AppTyped
<1>3. issued < MaxTokens => issued + 1 \in 0..MaxTokens /\ issued + 1 \in MaybeTokens
  BY <1>2, Kinds DEF MaybeTokens, Tokens
<1>4. ASSUME NEW step \in {"load_token", "config_save", "token_save", "ble_config", "ble_token"}
      PROVE  Fault(step) => used' \in Uses
  BY Counted
<1>5. ASSUME NEW step \in UISteps
      PROVE  Goto(step) \/ Start(step) => ui' \in Operations
  BY Going
<1>6. /\ \A b \in BOOLEAN : [app EXCEPT !.configPending = b] \in Pairings
      /\ \A b \in BOOLEAN : [app EXCEPT !.tokenPending = b] \in Pairings
      /\ \A b, c \in BOOLEAN : [app EXCEPT !.setup = b, !.configPending = c] \in Pairings
      /\ \A d \in MaybeDevices, b \in BOOLEAN :
           [app EXCEPT !.device = d, !.setup = TRUE, !.configPending = b] \in Pairings
      /\ \A t \in MaybeTokens : /\ [app EXCEPT !.token = t, !.device = None, !.setup = FALSE]
                                     \in Pairings
                               /\ [app EXCEPT !.token = t, !.device = None, !.setup = FALSE,
                                              !.configPending = FALSE] \in Pairings
  BY <1>2 DEF Pairings, MaybeDevices
<1>7. CASE StartApp
  <2>1. app.ws \in Workspaces /\ "restart_join" \in UISteps
    BY <1>2 DEF Pairings, UISteps
  <2> QED
    BY <1>1, <1>2, <1>5, <1>7, <2>1, LoadedTyped DEF StartApp, Typed, StoreTyped, AppTyped
<1>8. CASE SwitchWorkspace
  <2>1. PICK ws \in Workspaces : LoadPairing(ws)
    BY <1>8 DEF SwitchWorkspace
  <2>2. "switch_set" \in UISteps /\ "idle" \in UISteps
    BY DEF UISteps
  <2> QED
    BY <1>1, <1>2, <1>5, <1>8, <2>1, <2>2, LoadedTyped
    DEF SwitchWorkspace, Typed, StoreTyped, AppTyped
<1>9. CASE AdoptDevice
  <2>1. Head(deviceStatusQueue) \in MaybeDevices
    BY <1>2, <1>9 DEF AdoptDevice, MaybeDevices
  <2>2. deviceStatusQueue' \in Seq(Devices) /\ UNCHANGED <<marker, issued, accepted>>
    BY <1>2, <1>9 DEF AdoptDevice
  <2>3. CASE app.device # None
    BY <1>1, <1>2, <1>9, <2>2, <2>3 DEF AdoptDevice, Typed, StoreTyped, AppTyped
  <2>4. CASE app.device = None
    <3>1. "adopt_set" \in UISteps
      BY DEF UISteps
    <3>2. ui' \in Operations
      BY <1>5, <1>9, <2>4, <3>1 DEF AdoptDevice
    <3>3. stored' \in Stores /\ app' \in Pairings /\ used' \in Uses
      BY <1>2, <1>4, <1>6, <1>9, <2>1, <2>4, Saved DEF AdoptDevice
    <3> QED
      BY <1>1, <1>2, <2>2, <3>2, <3>3 DEF Typed, StoreTyped, AppTyped
  <2> QED
    BY <2>3, <2>4
<1>10. CASE BeginPairing
  <2>1. "ble_config" \in UISteps
    BY DEF UISteps
  <2>2. ui' \in Operations /\ used' \in Uses
    BY <1>5, <1>10, <2>1, Counted DEF BeginPairing
  <2> QED
    BY <1>1, <1>2, <1>3, <1>6, <1>10, <2>2 DEF BeginPairing, Typed, StoreTyped, AppTyped
<1>11. CASE BeginRetry
  <2>1. "retry_config" \in UISteps
    BY DEF UISteps
  <2>2. ui' \in Operations /\ used' \in Uses
    BY <1>5, <1>11, <2>1, Counted DEF BeginRetry
  <2> QED
    BY <1>1, <1>2, <1>11, <2>2 DEF BeginRetry, Typed, StoreTyped, AppTyped, disk
<1>12. CASE RotateConfig
  <2>1. {"rotate_token", "restart_join", "idle"} \subseteq UISteps
    BY DEF UISteps
  <2>2. ui' \in Operations
    BY <1>5, <1>12, <2>1 DEF RotateConfig
  <2>3. issued' = issued + 1 /\ issued < MaxTokens
    BY <1>12 DEF RotateConfig
  <2>4. stored' \in Stores /\ app' \in Pairings /\ used' \in Uses
    <3>1. Configured(None, FALSE) \in Stores
      BY <1>2, Saved
    <3>2. [app EXCEPT !.token = issued + 1, !.device = None, !.setup = FALSE,
                      !.configPending = FALSE] \in Pairings
      BY <1>3, <1>6, <2>3
    <3>3. stored' \in Stores /\ app' \in Pairings
      BY <1>2, <1>12, <3>1, <3>2 DEF RotateConfig
    <3>4. used' \in Uses
      BY <1>2, <1>4, <1>12 DEF RotateConfig
    <3> QED
      BY <3>3, <3>4
  <2> QED
    BY <1>1, <1>2, <1>3, <1>12, <2>2, <2>3, <2>4 DEF RotateConfig, Typed, StoreTyped, AppTyped
<1>13. CASE RotateToken
  <2>1. {"rotate_forget", "idle"} \subseteq UISteps
    BY DEF UISteps
  <2>2. ui' \in Operations
    BY <1>5, <1>13, <2>1 DEF RotateToken
  <2>3. stored' \in Stores /\ app' \in Pairings /\ used' \in Uses
    BY <1>2, <1>4, <1>6, <1>13, Saved DEF RotateToken
  <2> QED
    BY <1>1, <1>2, <1>13, <2>2, <2>3 DEF RotateToken, Typed, StoreTyped, AppTyped
<1>14. \A o \in {"paired", "unsaved", "undo"} :
         [ui EXCEPT !.step = "ble_forget", !.outcome = o] \in Operations
  BY <1>2 DEF Operations, UISteps
<1>15. CASE PairingConfig
  <2>1. "ble_token" \in UISteps
    BY DEF UISteps
  <2>2. ui' \in Operations
    BY <1>5, <1>14, <1>15, <2>1 DEF PairingConfig
  <2>3. stored' \in Stores /\ app' \in Pairings /\ used' \in Uses
    BY <1>2, <1>4, <1>6, <1>15, Saved DEF PairingConfig
  <2> QED
    BY <1>1, <1>2, <1>15, <2>2, <2>3 DEF PairingConfig, Typed, StoreTyped, AppTyped
<1>16. CASE PairingToken
  <2>1. "ble_paired" \in UISteps
    BY DEF UISteps
  <2>2. ui' \in Operations
    BY <1>5, <1>14, <1>16, <2>1 DEF PairingToken
  <2>3. stored' \in Stores /\ app' \in Pairings /\ used' \in Uses
    BY <1>2, <1>4, <1>6, <1>16, Saved DEF PairingToken
  <2> QED
    BY <1>1, <1>2, <1>16, <2>2, <2>3 DEF PairingToken, Typed, StoreTyped, AppTyped
<1>17. CASE PairingPaired
  <2>1. ui' \in Operations
    BY <1>14, <1>17 DEF PairingPaired
  <2>2. stored' \in Stores /\ app' \in Pairings /\ used' \in Uses
    BY <1>2, <1>4, <1>6, <1>17, Saved DEF PairingPaired
  <2> QED
    BY <1>1, <1>2, <1>17, <2>1, <2>2 DEF PairingPaired, Typed, StoreTyped, AppTyped
<1>18. CASE PairingEnd
  <2>1. "idle" \in UISteps
    BY DEF UISteps
  <2> QED
    BY <1>1, <1>2, <1>5, <1>18, <2>1 DEF PairingEnd, Typed, StoreTyped, AppTyped, disk
<1>19. CASE RetryConfig
  <2>1. "retry_token" \in UISteps
    BY DEF UISteps
  <2>2. ui' \in Operations
    BY <1>5, <1>19, <2>1 DEF RetryConfig
  <2>3. stored' \in Stores /\ app' \in Pairings /\ used' \in Uses
    BY <1>2, <1>4, <1>6, <1>19, Saved DEF RetryConfig
  <2> QED
    BY <1>1, <1>2, <1>19, <2>2, <2>3 DEF RetryConfig, Typed, StoreTyped, AppTyped
<1>20. CASE RetryToken
  <2>1. {"restart_join", "idle"} \subseteq UISteps
    BY DEF UISteps
  <2>2. ui' \in Operations
    BY <1>5, <1>20, <2>1 DEF RetryToken
  <2>3. stored' \in Stores /\ app' \in Pairings /\ used' \in Uses
    BY <1>2, <1>4, <1>6, <1>20, Saved DEF RetryToken
  <2> QED
    BY <1>1, <1>2, <1>20, <2>2, <2>3 DEF RetryToken, Typed, StoreTyped, AppTyped
<1>21. CASE SwitchSave
  <2>1. {"restart_join", "idle"} \subseteq UISteps
    BY DEF UISteps
  <2>2. ui' \in Operations
    BY <1>2, <1>5, <1>21, <2>1 DEF SwitchSave
  <2>3. stored' \in Stores /\ app' \in Pairings /\ used' \in Uses
    BY <1>2, <1>4, <1>6, <1>21, Saved DEF SwitchSave
  <2> QED
    BY <1>1, <1>2, <1>21, <2>2, <2>3 DEF SwitchSave, Typed, StoreTyped, AppTyped
<1> QED
  BY <1>7, <1>8, <1>9, <1>10, <1>11, <1>12, <1>13, <1>15, <1>16, <1>17, <1>18, <1>19, <1>20, <1>21

\* A step of the UI thread that stops the service or sets its credentials, and a crash.
LEMMA ServiceTypes ==
  ASSUME Typed,
         \/ BeginRestart \/ BeginRotation \/ BeginSwitch
         \/ RestartService \/ PushAdopted \/ RotateForget
         \/ PairingForget \/ PairingUndo \/ PairingSet \/ SwitchSet \/ Crash
  PROVE  Typed'
<1>1. /\ stored \in Stores /\ marker \in [Workspaces -> Markers] /\ issued \in 0..MaxTokens
      /\ accepted \in [Tokens -> Seq(Counters)] /\ app \in Pairings /\ ui \in Operations
      /\ deviceStatusQueue \in Seq(Devices) /\ used \in Uses /\ server \in Servers
  BY DEF Typed, StoreTyped, AppTyped
<1>2. StopServer => server' \in Servers
  BY <1>1 DEF StopServer, Servers
<1>3. UNCHANGED pool => PoolTyped'
  BY DEF pool, Typed, PoolTyped
<1>4. ASSUME NEW step \in UISteps
      PROVE  Goto(step) \/ Start(step) => ui' \in Operations
  BY Going
<1>5. {"restart_join", "rotate_join", "switch_join", "ble_join", "ble_set", "ble_undo", "idle"}
        \subseteq UISteps
  BY DEF UISteps
<1>6. CASE BeginRestart \/ BeginRotation \/ BeginSwitch
  <2>1. used' \in Uses
    BY <1>6, Counted DEF BeginRestart, BeginRotation, BeginSwitch
  <2>2. server' \in Servers /\ PoolTyped' /\ ui' \in Operations
    BY <1>2, <1>3, <1>4, <1>5, <1>6 DEF BeginRestart, BeginRotation, BeginSwitch
  <2>3. UNCHANGED <<stored, marker, issued, app, deviceStatusQueue, accepted>>
    BY <1>6 DEF BeginRestart, BeginRotation, BeginSwitch, disk
  <2> QED
    BY <1>1, <2>1, <2>2, <2>3 DEF Typed, StoreTyped, AppTyped
<1>7. CASE RestartService
  <2>1. server' \in Servers
    BY <1>1, <1>7, CredentialsTyped DEF RestartService, Restarted, Servers
  <2>2. PoolTyped' /\ ui' \in Operations /\ used' \in Uses
    BY <1>1, <1>3, <1>4, <1>5, <1>7, Counted DEF RestartService
  <2>3. UNCHANGED <<stored, marker, issued, app, deviceStatusQueue, accepted>>
    BY <1>7 DEF RestartService, disk
  <2> QED
    BY <1>1, <2>1, <2>2, <2>3 DEF Typed, StoreTyped, AppTyped
<1>8. CASE PushAdopted \/ PairingSet \/ SwitchSet
  <2>1. server' \in Servers
    BY <1>8, CredentialsTyped DEF PushAdopted, PushCredentials, PairingSet, SwitchSet
  <2>2. PoolTyped' /\ ui' \in Operations
    BY <1>3, <1>4, <1>5, <1>8 DEF PushAdopted, PushCredentials, PairingSet, SwitchSet
  <2>3. UNCHANGED <<stored, marker, issued, app, deviceStatusQueue, accepted, used>>
    BY <1>8 DEF PushAdopted, PushCredentials, PairingSet, SwitchSet, disk
  <2> QED
    BY <1>1, <2>1, <2>2, <2>3 DEF Typed, StoreTyped, AppTyped
<1>9. CASE RotateForget
  <2>1. server' \in Servers /\ marker' \in [Workspaces -> Markers]
    BY <1>1, <1>9, CredentialsTyped, Saved DEF RotateForget
  <2>2. PoolTyped' /\ ui' \in Operations /\ used' \in Uses
    BY <1>1, <1>3, <1>4, <1>5, <1>9, Counted DEF RotateForget
  <2> QED
    BY <1>1, <1>9, <2>1, <2>2 DEF RotateForget, Typed, StoreTyped, AppTyped
<1>10. CASE PairingForget
  <2>1. server' \in Servers /\ marker' \in [Workspaces -> Markers]
    BY <1>1, <1>2, <1>10, Saved DEF PairingForget
  <2>2. PoolTyped' /\ ui' \in Operations /\ used' \in Uses
    BY <1>1, <1>3, <1>4, <1>5, <1>10, Counted DEF PairingForget
  <2> QED
    BY <1>1, <1>10, <2>1, <2>2 DEF PairingForget, Typed, StoreTyped, AppTyped
<1>11. CASE PairingUndo
  <2>1. server' \in Servers
    BY <1>2, <1>11 DEF PairingUndo
  <2>2. stored' \in Stores
    <3>1. \/ stored' = [Configured(None, FALSE) EXCEPT ![app.ws].token = NoToken]
          \/ stored' = [stored EXCEPT ![app.ws].token = NoToken]
      BY <1>11 DEF PairingUndo
    <3>2. None \in MaybeDevices /\ FALSE \in BOOLEAN /\ NoToken \in MaybeTokens
      BY Saved
    <3>3. CASE stored' = [Configured(None, FALSE) EXCEPT ![app.ws].token = NoToken]
      BY <3>2, <3>3, Saved
    <3>4. CASE stored' = [stored EXCEPT ![app.ws].token = NoToken]
      BY <3>2, <3>4, Saved
    <3> QED
      BY <3>1, <3>3, <3>4
  <2>3. PoolTyped' /\ ui' \in Operations /\ used' \in Uses
    BY <1>1, <1>3, <1>4, <1>5, <1>11, Counted DEF PairingUndo
  <2>4. app' \in Pairings
    BY <1>1, <1>11 DEF PairingUndo, Pairings, MaybeDevices, MaybeTokens
  <2> QED
    BY <1>1, <1>11, <2>1, <2>2, <2>3, <2>4 DEF PairingUndo, Typed, StoreTyped, AppTyped
<1>12. CASE Crash
  <2>1. Idle \in Requests
    BY DEF Idle, Requests, MaybeDevices, MaybeTokens
  <2>2. PoolTyped'
    BY <1>12, <2>1 DEF Crash, PoolTyped, RequestTaken, Idle
  <2>3. server' \in Servers
    BY <1>1, <1>12
    DEF Crash, FreshServer, NoReservation, Servers, Pairings, MaybeDevices, MaybeTokens
  <2>4. app' \in Pairings /\ ui' \in Operations
    BY <1>1, <1>12 DEF Crash, Pairings, Operations, UISteps, MaybeDevices, MaybeTokens
  <2>5. used' \in Uses
    <3>1. /\ used.crashes < MaxCrashes /\ used \in Uses
          /\ used' = [used EXCEPT !.crashes = @ + 1]
      BY <1>1, <1>12 DEF Crash
    <3> QED
      BY <3>1, Kinds DEF Uses
  <2>6. deviceStatusQueue' \in Seq(Devices) /\ UNCHANGED <<stored, marker, issued, accepted>>
    BY <1>12 DEF Crash, disk
  <2> QED
    BY <1>1, <2>2, <2>3, <2>4, <2>5, <2>6 DEF Typed, StoreTyped, AppTyped
<1> QED
  BY <1>6, <1>7, <1>8, <1>9, <1>10, <1>11, <1>12

-----------------------------------------------------------------------------

\* No request is under way when the program starts.
LEMMA Initially == Init => IInv
<1> SUFFICES ASSUME Init PROVE IInv
  OBVIOUS
<1>1. StoreTyped
  <2>1. stored \in Stores
    BY DEF Init, Stores, MaybeTokens
  <2>2. marker \in [Workspaces -> Markers]
    BY DEF Init, Markers
  <2>3. issued \in 0..MaxTokens
    BY BoundsAssumption DEF Init
  <2>4. <<>> \in Seq(Counters)
    OBVIOUS
  <2>5. accepted \in [Tokens -> Seq(Counters)]
    BY <2>4 DEF Init
  <2> QED
    BY <2>1, <2>2, <2>3, <2>5 DEF StoreTyped
<1>2. AppTyped
  BY Kinds DEF Init, AppTyped, Pairings, Operations, Uses, UISteps, MaybeTokens, MaybeDevices
<1>3. server \in Servers /\ PoolTyped
  BY Kinds DEF Init, Servers, PoolTyped, Requests, RequestTaken, FreshServer, NoReservation, Idle,
     MaybeTokens, MaybeDevices
<1>4. ServiceInv
  BY DEF Init, ServiceInv, LockHeld, EpochTells, ReservationGood, NoStuckReservation, FreshServer,
     Idle, Serving
<1>5. AppInv
  BY DEF Init, AppInv, Stopped
<1> QED
  BY <1>1, <1>2, <1>3, <1>4, <1>5 DEF IInv, Typed

\* New credentials make the epochs of all requests old ones.
LEMMA CredentialsSet ==
  ASSUME IInv, AllIdle \/ credentialOperationMutex = None,
         UNCHANGED <<workers, credentialOperationMutex>>,
         \/ server' = SetDeviceCredentials(server, app)
         \/ \E b \in BOOLEAN : server' = [SetDeviceCredentials(server, app) EXCEPT !.running = b]
  PROVE  ServiceInv'
<1>1. server'.epoch = server.epoch + 1 /\ server'.inFlight = NoReservation
  BY CredentialsTyped DEF IInv
<1>2. \A w \in Workers : workers[w].pc # "reserved"
  BY BoundsAssumption DEF IInv, ServiceInv, LockHeld, AllIdle
<1>3. \A w \in Workers : workers[w].pc \in Serving => workers[w].epoch < server'.epoch
  BY <1>1 DEF IInv, ServiceInv, EpochTells, Typed, Servers, PoolTyped, Requests
<1>4. EpochTells'
  BY <1>1, <1>2, <1>3 DEF EpochTells, IInv, Typed, Servers, PoolTyped, Requests
<1> QED
  BY <1>1, <1>2, <1>4 DEF ServiceInv, LockHeld, ReservationGood, NoStuckReservation

\* Stopping the service touches no request.
LEMMA ServiceStopped ==
  ASSUME IInv, StopServer, UNCHANGED pool
  PROVE  ServiceInv' /\ ~server'.running /\ (AllIdle => AllIdle')
<1>1. /\ ~server'.running /\ server'.epoch = server.epoch /\ server'.token = server.token
      /\ server'.device = server.device /\ server'.inFlight = server.inFlight
      /\ server'.last = server.last /\ server'.valid = server.valid
  BY DEF IInv, Typed, Servers, StopServer
<1> QED
  BY <1>1 DEF IInv, ServiceInv, LockHeld, EpochTells, ReservationGood, NoStuckReservation, pool,
     Reservation, AllIdle

\* A step of the UI thread that leaves the service alone.
LEMMA ServiceKept ==
  ASSUME IInv, UNCHANGED service
  PROVE  ServiceInv' /\ server' = server /\ (AllIdle => AllIdle')
  BY DEF IInv, ServiceInv, LockHeld, EpochTells, ReservationGood, NoStuckReservation, service, pool,
     Reservation, AllIdle

-----------------------------------------------------------------------------
(* The worker threads *)

\* What a worker's step leaves of the other workers, and of the UI thread.
LEMMA OthersKept ==
  ASSUME Typed, AppInv, NEW w \in Workers, Deliver(w) \/ ServeStep(w)
  PROVE  /\ \A v \in Workers \ {w} : workers'[v] = workers[v]
         /\ server'.epoch = server.epoch /\ server'.token = server.token
         /\ server'.device = server.device
         /\ AppInv'
<1>1. \A v \in Workers \ {w} : workers'[v] = workers[v]
  BY DEF Deliver, ServeStep, Authenticate, EnterCallback, CallbackReturns, ReleaseReplayCounter,
     AdvanceReplayCounter, Typed, PoolTyped, Requests
<1>2. /\ server'.epoch = server.epoch /\ server'.token = server.token
      /\ server'.device = server.device /\ server'.running = server.running
  <2>1. CASE Deliver(w) \/ EnterCallback(w) \/ CallbackReturns(w)
    BY <2>1 DEF Deliver, EnterCallback, CallbackReturns
  <2>2. CASE Authenticate(w) \/ ReleaseReplayCounter(w) \/ AdvanceReplayCounter(w)
    BY <2>2
    DEF Authenticate, ReleaseReplayCounter, AdvanceReplayCounter, MarkerSaved, MarkerUnsaved,
        MarkerRefused, Typed, Servers
  <2> QED
    BY <2>1, <2>2 DEF ServeStep
<1>3. workers[w].pc # "idle" \/ server.running
  BY DEF Deliver, ServeStep, Authenticate, EnterCallback, CallbackReturns, ReleaseReplayCounter,
     AdvanceReplayCounter
<1>4. UNCHANGED <<ui, issued>>
  BY DEF Deliver, ServeStep, Authenticate, EnterCallback, CallbackReturns, ReleaseReplayCounter,
     AdvanceReplayCounter, disk
<1>5. AppInv'
  BY <1>2, <1>3, <1>4 DEF AppInv, Stopped, AllIdle
<1> QED
  BY <1>1, <1>2, <1>5

\* A request that arrives has reserved nothing.
LEMMA Delivered ==
  ASSUME IInv, NEW w \in Workers, Deliver(w)
  PROVE  ServiceInv'
<1>1. \A v \in Workers \ {w} : workers'[v] = workers[v]
  BY OthersKept DEF IInv
<1>2. /\ workers[w].pc = "idle" /\ workers'[w].pc = "authenticate"
      /\ UNCHANGED <<server, credentialOperationMutex>>
  BY DEF Deliver, Idle, IInv, Typed, PoolTyped, Requests
<1>3. LockHeld' /\ EpochTells' /\ ReservationGood'
  BY <1>1, <1>2 DEF IInv, ServiceInv, LockHeld, EpochTells, ReservationGood, Serving
<1>4. NoStuckReservation'
  BY <1>1, <1>2 DEF IInv, ServiceInv, NoStuckReservation, Reservation
<1> QED
  BY <1>3, <1>4 DEF ServiceInv

\* A counter is reserved in the epoch of the credentials that authenticated it.
LEMMA Authenticated ==
  ASSUME IInv, NEW w \in Workers, Authenticate(w)
  PROVE  ServiceInv'
<1> DEFINE admitted == Authentic(w) /\ KnownDevice(w) /\ CanReserve(workers[w].counter)
<1>1. \A v \in Workers \ {w} : workers'[v] = workers[v]
  BY OthersKept DEF IInv, ServeStep
<1>2. \A v \in Workers : workers[v].pc # "reserved"
  BY BoundsAssumption DEF Authenticate, IInv, ServiceInv, LockHeld
<1>3. CASE admitted
  <2>1. /\ server'.epoch = server.epoch /\ server'.token = server.token
        /\ server'.device = server.device /\ server'.last = server.last
        /\ server'.valid = server.valid
        /\ server'.inFlight = [counter |-> workers[w].counter, epoch |-> server.epoch]
    BY <1>3 DEF Authenticate, IInv, Typed, Servers
  <2>2. /\ workers'[w].epoch = server.epoch /\ workers'[w].token = workers[w].token
        /\ workers'[w].device = workers[w].device /\ workers'[w].counter = workers[w].counter
        /\ workers'[w].pc \in {"reserved", "succeeded"}
        /\ workers'[w].pc = "reserved" => credentialOperationMutex' = w
    BY <1>3 DEF Authenticate, LockAfterReserving, IInv, Typed, PoolTyped, Requests
  <2>3. LockHeld' /\ EpochTells'
    BY <1>1, <1>2, <1>3, <2>1, <2>2
    DEF LockHeld, EpochTells, Serving, Authentic, KnownDevice, IInv, ServiceInv, Typed, Servers
  <2>4. ReservationGood' /\ NoStuckReservation'
    BY <1>3, <2>1, <2>2 DEF ReservationGood, NoStuckReservation, CanReserve, Reservation
  <2> QED
    BY <2>3, <2>4 DEF ServiceInv
<1>4. CASE ~admitted
  <2>1. /\ workers[w].pc = "authenticate" /\ workers'[w].pc = "idle"
        /\ UNCHANGED <<server, credentialOperationMutex>>
    BY <1>4 DEF Authenticate, Idle, IInv, Typed, PoolTyped, Requests
  <2>2. LockHeld' /\ EpochTells' /\ ReservationGood'
    BY <1>1, <2>1 DEF IInv, ServiceInv, LockHeld, EpochTells, ReservationGood, Serving
  <2>3. NoStuckReservation'
    BY <1>1, <2>1 DEF IInv, ServiceInv, NoStuckReservation, Reservation
  <2> QED
    BY <2>2, <2>3 DEF ServiceInv
<1> QED
  BY <1>3, <1>4

\* The callback moves a request on under the reservation it has.
LEMMA CallbackRun ==
  ASSUME IInv, NEW w \in Workers, EnterCallback(w) \/ CallbackReturns(w)
  PROVE  ServiceInv'
<1>1. \A v \in Workers \ {w} : workers'[v] = workers[v]
  BY OthersKept DEF IInv, ServeStep
<1>2. /\ workers[w].pc \in Serving /\ workers'[w].pc \in Serving \ {"reserved"}
      /\ workers'[w].epoch = workers[w].epoch /\ workers'[w].token = workers[w].token
      /\ workers'[w].device = workers[w].device /\ workers'[w].counter = workers[w].counter
  <2>1. workers \in [Workers -> Requests] /\ workers[w] \in Requests
    BY DEF IInv, Typed, PoolTyped
  <2>2. CASE EnterCallback(w)
    BY <2>1, <2>2 DEF EnterCallback, Requests, Serving
  <2>3. CASE CallbackReturns(w)
    BY <2>1, <2>3 DEF CallbackReturns, Requests, Serving
  <2> QED
    BY <2>2, <2>3
<1>3. /\ server' = server
      /\ \A v \in Workers \ {w} : workers[v].pc = "reserved" => credentialOperationMutex' = v
  BY BoundsAssumption DEF EnterCallback, CallbackReturns, IInv, ServiceInv, LockHeld
<1>4. LockHeld' /\ EpochTells'
  BY <1>1, <1>2, <1>3 DEF IInv, ServiceInv, LockHeld, EpochTells
<1>5. ReservationGood'
  BY <1>3 DEF IInv, ServiceInv, ReservationGood
<1>6. NoStuckReservation'
  <2>1. SUFFICES ASSUME server.inFlight # NoReservation
                 PROVE  \E v \in Workers : /\ workers'[v].pc \in Serving
                                           /\ server.inFlight = Reservation(v)'
    BY <1>3 DEF NoStuckReservation, Serving
  <2>2. PICK v \in Workers : workers[v].pc \in Serving /\ server.inFlight = Reservation(v)
    BY <2>1 DEF IInv, ServiceInv, NoStuckReservation, Serving
  <2>3. workers'[v].pc \in Serving /\ Reservation(v)' = Reservation(v)
    BY <1>1, <1>2, <2>2 DEF Reservation
  <2> QED
    BY <2>2, <2>3
<1> QED
  BY <1>4, <1>5, <1>6 DEF ServiceInv

\* A request that ends leaves no reservation of its own: what it releases or
\* advances is taken back, and what it finds changed is another's.
LEMMA Ended ==
  ASSUME IInv, NEW w \in Workers, ReleaseReplayCounter(w) \/ AdvanceReplayCounter(w)
  PROVE  ServiceInv'
<1>1. /\ \A v \in Workers \ {w} : workers'[v] = workers[v]
      /\ server'.epoch = server.epoch /\ server'.token = server.token
      /\ server'.device = server.device
  BY OthersKept DEF IInv, ServeStep
<1>2. /\ workers[w].pc \in {"failed", "succeeded"} /\ workers'[w].pc = "idle"
      /\ UNCHANGED credentialOperationMutex
  BY DEF ReleaseReplayCounter, AdvanceReplayCounter, Idle, IInv, Typed, PoolTyped, Requests
<1>3. \/ server'.inFlight = NoReservation
      \/ server' = server /\ server.inFlight # Reservation(w)
  <2>1. CASE ReleaseReplayCounter(w)
    BY <2>1 DEF ReleaseReplayCounter, IInv, Typed, Servers
  <2>2. CASE AdvanceReplayCounter(w) /\ CanAdvance(w)
    BY <2>2 DEF AdvanceReplayCounter, MarkerSaved, MarkerUnsaved, MarkerRefused, IInv, Typed,
       Servers
  <2>3. CASE AdvanceReplayCounter(w) /\ ~CanAdvance(w)
    <3>1. server' = server
      BY <2>3 DEF AdvanceReplayCounter, MarkerSaved, MarkerUnsaved, MarkerRefused
    <3>2. server.inFlight = Reservation(w) => server.inFlight = NoReservation
      BY <2>3 DEF IInv, ServiceInv, ReservationGood, CanAdvance, Reservation
    <3> QED
      BY <3>1, <3>2
  <2> QED
    BY <2>1, <2>2, <2>3
<1>4. LockHeld' /\ EpochTells'
  BY <1>1, <1>2 DEF IInv, ServiceInv, LockHeld, EpochTells, Serving
<1>5. ReservationGood' /\ NoStuckReservation'
  BY <1>1, <1>2, <1>3 DEF IInv, ServiceInv, ReservationGood, NoStuckReservation, Reservation
<1> QED
  BY <1>4, <1>5 DEF ServiceInv

-----------------------------------------------------------------------------
(* The UI thread *)

\* The steps that leave the service alone, the one that waits for its workers among them.
LEMMA AppStep ==
  ASSUME IInv,
         \/ StartApp \/ AdoptDevice \/ BeginPairing \/ BeginRetry
         \/ RotateConfig \/ RotateToken
         \/ PairingConfig \/ PairingToken \/ PairingPaired \/ PairingEnd
         \/ RetryConfig \/ RetryToken \/ SwitchSave \/ SwitchWorkspace
  PROVE  IInv'
<1>1. UNCHANGED service
  BY DEF StartApp, AdoptDevice, BeginPairing, BeginRetry, RotateConfig, RotateToken,
     PairingConfig, PairingToken, PairingPaired, PairingEnd, RetryConfig, RetryToken, SwitchSave,
     SwitchWorkspace
<1>2. ServiceInv' /\ server' = server /\ (AllIdle => AllIdle')
  BY <1>1, ServiceKept
<1>3. Typed'
  BY <1>1, AppTypes DEF IInv, AppInv
<1>4. \/ ui'.step \in UISteps \ {"rotate_join", "rotate_token", "rotate_forget", "switch_join",
                                "switch_set"}
      \/ ui.step = "rotate_join" /\ AllIdle /\ ui'.step = "rotate_token"
      \/ ui.step = "rotate_token" /\ ui'.step = "rotate_forget"
      \/ ui.step = "switch_join" /\ ui'.step = "switch_join"
      \/ ui.step = "switch_join" /\ AllIdle /\ ui'.step = "switch_set"
  <2>1. CASE StartApp \/ AdoptDevice \/ BeginPairing \/ BeginRetry
    BY <2>1 DEF StartApp, AdoptDevice, BeginPairing, BeginRetry, Start, Goto, IInv, Typed,
       AppTyped, Operations, UISteps
  <2>2. CASE RotateConfig \/ RotateToken \/ RetryConfig \/ RetryToken
    BY <2>2 DEF RotateConfig, RotateToken, RetryConfig, RetryToken, Goto, IInv, Typed, AppTyped,
       Operations, UISteps
  <2>3. CASE PairingConfig \/ PairingToken \/ PairingPaired \/ PairingEnd
    BY <2>3 DEF PairingConfig, PairingToken, PairingPaired, PairingEnd, Goto, IInv, Typed,
       AppTyped, Operations, UISteps
  <2>4. CASE SwitchSave \/ SwitchWorkspace
    BY <2>4 DEF SwitchSave, SwitchWorkspace, Goto, IInv, Typed, AppTyped, Operations, UISteps
  <2> QED
    BY <2>1, <2>2, <2>3, <2>4
<1>5. AppInv'
  BY <1>2, <1>4 DEF IInv, AppInv, Stopped
<1> QED
  BY <1>2, <1>3, <1>5 DEF IInv

\* The steps that stop the service or set its credentials.
LEMMA ServiceStep ==
  ASSUME IInv,
         \/ BeginRestart \/ BeginRotation \/ BeginSwitch
         \/ RestartService \/ PushAdopted \/ RotateForget
         \/ PairingForget \/ PairingUndo \/ PairingSet \/ SwitchSet
  PROVE  IInv'
<1>1. Typed'
  BY ServiceTypes DEF IInv
<1>2. CASE BeginRestart \/ BeginRotation \/ BeginSwitch
  <2>1. ServiceInv' /\ ~server'.running
    BY <1>2, ServiceStopped DEF BeginRestart, BeginRotation, BeginSwitch
  <2>2. AppInv'
    BY <1>2, <2>1 DEF BeginRestart, BeginRotation, BeginSwitch, Start, IInv, AppInv, Stopped, Typed,
       AppTyped, Operations, disk
  <2> QED
    BY <1>1, <2>1, <2>2 DEF IInv
<1>3. CASE PairingForget \/ PairingUndo
  <2>1. StopServer \/ UNCHANGED server
    BY <1>3 DEF PairingForget, PairingUndo
  <2>2. ServiceInv'
    BY <1>3, <2>1, ServiceStopped, ServiceKept DEF PairingForget, PairingUndo, service
  <2>3. AppInv'
    BY <1>3 DEF PairingForget, PairingUndo, Goto, IInv, AppInv, Stopped, Typed, AppTyped, Operations
  <2> QED
    BY <1>1, <2>2, <2>3 DEF IInv
<1>4. CASE RestartService
  <2>1. /\ AllIdle /\ UNCHANGED pool
        /\ \/ UNCHANGED server
           \/ \E b \in BOOLEAN :
                server' = [SetDeviceCredentials(server, app) EXCEPT !.running = b]
    <3>1. [Restarted EXCEPT !.running = FALSE] =
            [SetDeviceCredentials(server, app) EXCEPT !.running = FALSE]
      BY CredentialsTyped DEF Restarted, IInv
    <3> QED
      BY <1>4, <3>1 DEF RestartService, Restarted
  <2>2. ServiceInv'
    BY <2>1, CredentialsSet, ServiceKept DEF service, pool
  <2>3. AppInv'
    BY <1>4 DEF RestartService, Goto, IInv, AppInv, Stopped, Typed, AppTyped, Operations
  <2> QED
    BY <1>1, <2>2, <2>3 DEF IInv
<1>5. CASE PushAdopted \/ PairingSet
  <2>1. /\ credentialOperationMutex = None /\ UNCHANGED pool
        /\ \/ server' = SetDeviceCredentials(server, app)
           \/ server' = [SetDeviceCredentials(server, app) EXCEPT !.running = FALSE]
    BY <1>5 DEF PushAdopted, PushCredentials, PairingSet
  <2>2. ServiceInv'
    BY <2>1, CredentialsSet DEF pool
  <2>3. AppInv'
    BY <1>5 DEF PushAdopted, PushCredentials, PairingSet, Goto, IInv, AppInv, Stopped, Typed,
       AppTyped, Operations
  <2> QED
    BY <1>1, <2>2, <2>3 DEF IInv
<1>6. CASE RotateForget \/ SwitchSet
  <2>1. AllIdle
    BY <1>6 DEF RotateForget, SwitchSet, IInv, AppInv, Stopped
  <2>2. ServiceInv'
    BY <1>6, <2>1, CredentialsSet DEF RotateForget, SwitchSet, pool
  <2>3. AppInv'
    BY <1>6 DEF RotateForget, SwitchSet, Goto, IInv, AppInv, Stopped, Typed, AppTyped, Operations
  <2> QED
    BY <1>1, <2>2, <2>3 DEF IInv
<1> QED
  BY <1>2, <1>3, <1>4, <1>5, <1>6

\* A crash leaves no request and no reservation.
LEMMA Crashed ==
  ASSUME IInv, Crash
  PROVE  IInv'
<1>1. Typed'
  BY ServiceTypes DEF IInv
<1>2. ServiceInv'
  BY DEF Crash, ServiceInv, LockHeld, EpochTells, ReservationGood, NoStuckReservation, FreshServer,
     Idle, Serving
<1>3. AppInv'
  BY DEF Crash, AppInv, Stopped
<1> QED
  BY <1>1, <1>2, <1>3 DEF IInv

-----------------------------------------------------------------------------

\* Every action keeps the invariant.
THEOREM Inductive == IInv /\ [Next]_vars => IInv'
<1> SUFFICES ASSUME IInv, [Next]_vars PROVE IInv'
  OBVIOUS
<1>1. CASE Requested
  BY <1>1, AppStep, ServiceStep, Crashed DEF Requested
<1>2. CASE UIStep
  BY <1>2, AppStep, ServiceStep DEF UIStep
<1>3. CASE \E w \in Workers : Deliver(w) \/ ServeStep(w)
  <2>1. PICK w \in Workers : Deliver(w) \/ ServeStep(w)
    BY <1>3
  <2>2. Typed' /\ AppInv'
    BY <2>1, WorkerTyped, OthersKept DEF IInv
  <2>3. ServiceInv'
    BY <2>1, Delivered, Authenticated, CallbackRun, Ended DEF ServeStep
  <2> QED
    BY <2>2, <2>3 DEF IInv
<1>4. CASE UNCHANGED vars
  <2>1. ServiceInv' /\ server' = server /\ (AllIdle => AllIdle')
    BY <1>4, ServiceKept DEF vars
  <2>2. Typed'
    BY <1>4 DEF vars, disk, service, pool, IInv, Typed, StoreTyped, AppTyped, PoolTyped, Requests
  <2> QED
    BY <1>4, <2>1, <2>2 DEF vars, disk, IInv, AppInv, Stopped
<1> QED
  BY <1>1, <1>2, <1>3, <1>4 DEF Next

\* The invariant holds in every state of the program.
THEOREM InvariantHolds == Spec => []IInv
BY Initially, Inductive, PTL DEF Spec

\* Every variable has its type, however often the service is set up anew.
THEOREM TypeCorrect == Spec => []TypeOK
<1>1. IInv => TypeOK
  BY DEF IInv, Typed, StoreTyped, AppTyped, PoolTyped, Stores, Pairings, Operations, Servers,
     Requests, Uses, MaybeTokens, TypeOK
<1> QED
  BY <1>1, InvariantHolds, PTL

\* A reservation always belongs to a request still being served
\* (releaseReplayCounter, setDeviceCredentials).
THEOREM NoReservationIsStuck == Spec => []NoStuckReservation
<1>1. IInv => NoStuckReservation
  BY DEF IInv, ServiceInv
<1> QED
  BY <1>1, InvariantHolds, PTL

-----------------------------------------------------------------------------

\* A request moves to its callback, or is accepted, under the present credentials.
LEMMA ActsAreCurrent ==
  ASSUME IInv, Next, NEW w \in Workers
  PROVE  /\ workers[w].pc # "callback" /\ workers'[w].pc = "callback"
              => workers[w].epoch = server.epoch /\ workers[w].token = server.token
         /\ workers[w].pc = "succeeded" /\ workers'[w].pc = "idle" /\ accepted' # accepted
              => /\ accepted'[server.token] = Append(accepted[server.token], workers[w].counter)
                 /\ server.device \in {None, workers[w].device}
<1>1. CASE Requested \/ UIStep
  <2>1. CASE Crash
    BY <2>1 DEF Crash, Idle
  <2>2. CASE UNCHANGED <<workers, accepted>>
    BY <2>2
  <2> QED
    BY <1>1, <2>1, <2>2 DEF Requested, UIStep, StartApp, AdoptDevice, BeginRestart, BeginRotation,
       BeginPairing, BeginRetry, BeginSwitch, RestartService, PushAdopted, PushCredentials,
       RotateConfig, RotateToken, RotateForget, PairingConfig, PairingToken, PairingPaired,
       PairingForget, PairingUndo, PairingSet, PairingEnd, RetryConfig, RetryToken, SwitchSave,
       SwitchWorkspace, SwitchSet, service, pool
<1>2. ASSUME NEW v \in Workers, Deliver(v) \/ ServeStep(v), v # w
      PROVE  workers'[w] = workers[w]
  BY <1>2, OthersKept DEF IInv
<1>3. CASE Deliver(w) \/ Authenticate(w) \/ ReleaseReplayCounter(w) \/ CallbackReturns(w)
  <2>1. workers[w].pc \notin {"reserved", "succeeded"} /\ UNCHANGED accepted
    BY <1>3 DEF Deliver, Authenticate, ReleaseReplayCounter, CallbackReturns
  <2>2. workers'[w].pc # "callback"
    <3>1. CASE Deliver(w)
      BY <3>1 DEF Deliver, Idle, IInv, Typed, PoolTyped, Requests
    <3>2. CASE Authenticate(w)
      BY <3>2 DEF Authenticate, Idle, IInv, Typed, PoolTyped, Requests
    <3>3. CASE CallbackReturns(w)
      BY <3>3 DEF CallbackReturns, IInv, Typed, PoolTyped, Requests
    <3>4. CASE ReleaseReplayCounter(w)
      BY <3>4 DEF ReleaseReplayCounter, Idle, IInv, Typed, PoolTyped, Requests
    <3> QED
      BY <1>3, <3>1, <3>2, <3>3, <3>4
  <2> QED
    BY <2>1, <2>2
<1>4. CASE EnterCallback(w)
  BY <1>4 DEF EnterCallback, IInv, ServiceInv, EpochTells, Serving
<1>5. CASE AdvanceReplayCounter(w)
  <2>1. workers[w].pc = "succeeded" /\ workers'[w].pc = "idle"
    BY <1>5 DEF AdvanceReplayCounter, Idle, IInv, Typed, PoolTyped, Requests
  <2>2. CASE CanAdvance(w)
    <3>1. /\ workers[w].token = server.token /\ server.device \in {None, workers[w].device}
          /\ server.token \in Tokens
      BY <2>1, <2>2
      DEF CanAdvance, IInv, Typed, PoolTyped, RequestTaken, ServiceInv, EpochTells, Serving
    <3>2. accepted' # accepted =>
            accepted' = [accepted EXCEPT ![server.token] = Append(@, workers[w].counter)]
      BY <1>5, <3>1
      DEF AdvanceReplayCounter, MarkerSaved, MarkerUnsaved, MarkerRefused, Log200
    <3> QED
      BY <2>1, <3>1, <3>2 DEF IInv, Typed, StoreTyped
  <2>3. CASE ~CanAdvance(w)
    BY <1>5, <2>1, <2>3 DEF AdvanceReplayCounter, MarkerSaved, MarkerUnsaved, MarkerRefused
  <2> QED
    BY <2>2, <2>3
<1> QED
  BY <1>1, <1>2, <1>3, <1>4, <1>5 DEF Next, ServeStep

\* No callback starts for credentials that were rotated meanwhile
\* (LocalHttpServer::serveConnection).
THEOREM CallbacksAreCurrent == Spec => CallbackUnderCurrentCredentials
<1>1. IInv /\ [Next]_vars =>
        [\A w \in Workers :
           workers[w].pc # "callback" /\ workers'[w].pc = "callback"
             => workers[w].epoch = server.epoch /\ workers[w].token = server.token]_vars
  BY ActsAreCurrent
<1> QED
  BY <1>1, InvariantHolds, PTL DEF Spec, CallbackUnderCurrentCredentials

\* A request is accepted only under the token the server has at that moment,
\* from the device it is paired with (LocalHttpServer::advanceReplayCounter).
THEOREM AcceptedAreCurrent == Spec => AcceptedFromPairedDevice
<1>1. IInv /\ [Next]_vars =>
        [\A w \in Workers :
           workers[w].pc = "succeeded" /\ workers'[w].pc = "idle" /\ accepted' # accepted
             => /\ accepted'[server.token] = Append(accepted[server.token], workers[w].counter)
                /\ server.device \in {None, workers[w].device}]_vars
  BY ActsAreCurrent
<1> QED
  BY <1>1, InvariantHolds, PTL DEF Spec, AcceptedFromPairedDevice

-----------------------------------------------------------------------------
(* Counters and stored pairings                                            *)
(*                                                                         *)
(* For any crashes, and any failures but those of the first two writes of  *)
(* a Bluetooth pairing: the accepted counters of a token go up, a restart  *)
(* remembers them, and a running service serves the pairing that is        *)
(* stored.                                                                 *)
(*                                                                         *)
(* The counters of a pairing start again in two ways: the marker is        *)
(* removed, or the server is given a pairing that differs from the one it  *)
(* has.  Both happen only to a token under which nothing was accepted yet, *)
(* as it was issued a moment ago and the server does not have it; in every *)
(* other case the server reads the marker of a token that is stored, and   *)
(* that marker covers all that was accepted.  For this it matters that a   *)
(* service which may still accept (Active) has the workspace that is open, *)
(* since a marker holds the counter of one token only.                     *)

\* The two writes of a Bluetooth pairing that the removal of the replay state
\* does not wait for do not fail.
PairingSaves == {"ble_config", "ble_token"} \cap FaultSteps = {}

\* A request may still be accepted: by a running service, or by a worker of one
\* that was told to stop.
Active == server.running \/ ~AllIdle

\* The tokens that are stored, those under which nothing was accepted, and what
\* covers all that was accepted under a token.
Kept == [ws \in Workspaces |-> stored[ws].token]
Unused == {t \in Tokens : accepted[t] = <<>>}
Bounds == [t \in Tokens |-> {n \in Nat : \A i \in 1..Len(accepted[t]) : accepted[t][i] <= n}]

\* The steps of a new token, from its creation until the server has it; those of
\* them where it is not stored yet; and the steps at which an active service has
\* the pairing of the application.
NewTokenSteps == {"ble_config", "ble_token", "ble_paired", "ble_forget", "ble_undo", "ble_set",
                  "rotate_token", "rotate_forget"}
UnstoredSteps == {"ble_config", "ble_token", "rotate_token"}
AgreeSteps == {"idle", "restart_join", "rotate_join", "switch_join", "retry_config", "retry_token"}

\* Tokens are issued in order.
TokensIssued ==
  /\ \A ws \in Workspaces : Kept[ws] <= issued
  /\ app.token <= issued /\ server.token <= issued
  /\ \A t \in Tokens : t > issued => t \in Unused

\* A token is of one workspace only.
TokensDistinct ==
  /\ \A v, ws \in Workspaces : Kept[v] = Kept[ws] /\ Kept[v] # NoToken => v = ws
  /\ \A ws \in Workspaces \ {app.ws} :
       /\ app.token # NoToken => Kept[ws] # app.token
       /\ Active => Kept[ws] # server.token

\* The application's token is stored, unless it is new.
TokenStored ==
  /\ app.token # NoToken => Kept[app.ws] = app.token \/ app.token \in Unused
  /\ app.token # NoToken /\ ~app.tokenPending /\ ui.step \notin UnstoredSteps
       => Kept[app.ws] = app.token

\* A new token is one the server does not have and nothing was accepted under.
TokenIsNew ==
  /\ ui.step \in NewTokenSteps =>
       app.token # NoToken /\ app.token \in Unused /\ server.token # app.token
  /\ ui.step \in NewTokenSteps \ UnstoredSteps => Kept[app.ws] = app.token
  /\ ui.step = "ble_forget" => ui.outcome # "unsaved"
  /\ ui.step \in {"rotate_token", "rotate_forget", "ble_join"} => ~app.setup
  /\ ui.step = "ble_join" => ~server.running
  /\ ui.step = "down" =>
       ~Active /\ server.token = NoToken /\ server.device = None /\ app.token = NoToken

\* An active service has the open workspace, and its last counter covers all that
\* was accepted; its marker is not needed for another token.
ActiveServes ==
  Active =>
    /\ server.token # NoToken /\ server.ws = app.ws /\ ~app.tokenPending
    /\ Kept[app.ws] \in {NoToken, server.token} \cup Unused
    /\ server.valid => server.last \in Bounds[server.token]
    /\ ui.step \in AgreeSteps => server.token = app.token /\ server.device = app.device
    /\ ui.step = "adopt_set" => server.token = app.token /\ server.device = None

\* A pairing whose counters would start again has none accepted.
Restartable ==
  ui.step \in AgreeSteps /\ app.setup /\ app.token # NoToken /\ PairingChanged(server, app)
    => app.token \in Unused

\* The marker covers what was accepted under the stored token.
MarkersCover ==
  \A ws \in Workspaces : Kept[ws] # NoToken =>
    Kept[ws] \in Unused \/ (marker[ws].token = Kept[ws] /\ marker[ws].counter \in Bounds[Kept[ws]])

PairingInv ==
  /\ TokensIssued /\ TokensDistinct /\ TokenStored /\ TokenIsNew
  /\ ActiveServes /\ Restartable /\ MarkersCover

-----------------------------------------------------------------------------
(* Facts *)

\* What the types say of the values the invariant speaks of.
LEMMA Values ==
  ASSUME Typed
  PROVE  /\ NoToken = 0 /\ Tokens \subseteq Nat /\ 0 \notin Tokens
         /\ \A t \in {0} \cup Tokens : t \in Nat
         /\ \A ws \in Workspaces : Kept[ws] \in {0} \cup Tokens /\ Kept[ws] = stored[ws].token
         /\ Unused \subseteq Tokens
         /\ \A t \in Unused : Bounds[t] = Nat
         /\ \A ws \in Workspaces : marker[ws].counter \in Nat
         /\ app.ws \in Workspaces /\ app.token \in {0} \cup Tokens /\ app.device \in MaybeDevices
         /\ app.setup \in BOOLEAN /\ app.tokenPending \in BOOLEAN /\ app.configPending \in BOOLEAN
         /\ server.token \in {0} \cup Tokens /\ server.running \in BOOLEAN /\ server.last \in Nat
         /\ issued \in Nat /\ ui.step \in UISteps
<1>1. /\ NoToken = 0 /\ Tokens \subseteq Nat /\ 0 \notin Tokens
      /\ \A t \in {0} \cup Tokens : t \in Nat
  BY BoundsAssumption DEF Tokens, NoToken
<1>2. \A ws \in Workspaces : Kept[ws] \in {0} \cup Tokens /\ Kept[ws] = stored[ws].token
  BY <1>1 DEF Typed, StoreTyped, Stores, MaybeTokens, Kept
<1>3. Unused \subseteq Tokens
  BY DEF Unused
<1>4. \A t \in Unused : Bounds[t] = Nat
  BY DEF Unused, Bounds
<1>5. \A ws \in Workspaces : marker[ws].counter \in Nat
  BY Kinds DEF Typed, StoreTyped, Markers, NoMarker, Unreadable, MarkerOf
<1>6. /\ app.ws \in Workspaces /\ app.token \in {0} \cup Tokens /\ app.device \in MaybeDevices
      /\ app.setup \in BOOLEAN /\ app.tokenPending \in BOOLEAN /\ app.configPending \in BOOLEAN
  BY <1>1 DEF Typed, AppTyped, Pairings, MaybeTokens
<1>7. server.token \in {0} \cup Tokens /\ server.running \in BOOLEAN /\ server.last \in Nat
  <2>1. server.token \in {0} \cup Tokens
    BY <1>1 DEF Typed, Servers, MaybeTokens
  <2>2. server.running \in BOOLEAN
    BY DEF Typed, Servers
  <2>3. server.last \in {0} \cup Counters
    BY DEF Typed, Servers
  <2>4. \A c \in {0} \cup Counters : c \in Nat
    BY BoundsAssumption DEF Counters
  <2>5. server.last \in Nat
    BY <2>3, <2>4
  <2> QED
    BY <2>1, <2>2, <2>5
<1>8. issued \in Nat /\ ui.step \in UISteps
  BY Kinds DEF Typed, StoreTyped, AppTyped, Operations
<1> QED
  BY <1>1, <1>2, <1>3, <1>4, <1>5, <1>6, <1>7, <1>8

\* Nothing is accepted.
LEMMA SameLog == accepted' = accepted => Unused' = Unused /\ Bounds' = Bounds
BY DEF Unused, Bounds

\* What is written to the stores, of its tokens.
LEMMA TokensKept ==
  ASSUME Typed
  PROVE  /\ stored' = stored => Kept' = Kept
         /\ \A d, b : stored' = Configured(d, b) => Kept' = Kept
         /\ \A t : stored' = [stored EXCEPT ![app.ws].token = t]
                     => Kept' = [Kept EXCEPT ![app.ws] = t]
         /\ \A t, d, b : stored' = [Configured(d, b) EXCEPT ![app.ws].token = t]
                           => Kept' = [Kept EXCEPT ![app.ws] = t]
<1>1. stored \in Stores /\ app.ws \in Workspaces
  BY DEF Typed, StoreTyped, AppTyped, Pairings
<1> QED
  <2>1. stored' = stored => Kept' = Kept
    BY DEF Kept
  <2>2. ASSUME NEW d, NEW b, stored' = Configured(d, b) PROVE Kept' = Kept
    BY <1>1, <2>2 DEF Stores, Configured, Kept
  <2>3. ASSUME NEW t, stored' = [stored EXCEPT ![app.ws].token = t]
        PROVE  Kept' = [Kept EXCEPT ![app.ws] = t]
    BY <1>1, <2>3 DEF Stores, Kept
  <2>4. ASSUME NEW t, NEW d, NEW b, stored' = [Configured(d, b) EXCEPT ![app.ws].token = t]
        PROVE  Kept' = [Kept EXCEPT ![app.ws] = t]
    BY <1>1, <2>4 DEF Stores, Configured, Kept
  <2> QED
    BY <2>1, <2>2, <2>3, <2>4

\* A service with new credentials has the application's pairing, and a counter
\* that covers what was accepted, if it starts again only for an unused token.
LEMMA CredentialsGiven ==
  ASSUME Typed, MarkersCover, NEW s,
         \/ s = SetDeviceCredentials(server, app)
         \/ \E b \in BOOLEAN : s = [SetDeviceCredentials(server, app) EXCEPT !.running = b]
  PROVE  /\ s.ws = app.ws /\ s.token = app.token /\ s.device = app.device
         /\ app.token \in Unused => s.last \in Bounds[app.token]
         /\ app.token # NoToken /\ Kept[app.ws] = app.token /\ ~PairingChanged(server, app)
              => s.last \in Bounds[app.token]
<1>1. /\ server \in Servers /\ s.ws = app.ws /\ s.token = app.token /\ s.device = app.device
      /\ s.last = IF PairingChanged(server, app) THEN 0
                  ELSE IF marker[app.ws].token = app.token THEN marker[app.ws].counter ELSE 0
  BY DEF Typed, Servers, SetDeviceCredentials, WithPairing, LoadReplayState
<1> QED
  BY <1>1, Values DEF MarkersCover

\* A service told to stop keeps all else.
LEMMA Halted ==
  ASSUME Typed, StopServer
  PROVE  /\ server'.token = server.token /\ server'.device = server.device
         /\ server'.ws = server.ws /\ server'.valid = server.valid /\ server'.last = server.last
         /\ ~server'.running
BY DEF Typed, Servers, StopServer

-----------------------------------------------------------------------------
(* The worker threads *)

\* Where neither the stores nor the pairings change, and nothing is accepted, the
\* invariant stays as the UI thread goes on.
LEMMA Framed ==
  ASSUME IInv, PairingInv, Kept' = Kept, UNCHANGED <<marker, accepted>>,
         app'.ws = app.ws, app'.token = app.token, app'.device = app.device,
         app'.setup = app.setup, app'.tokenPending = app.tokenPending,
         server'.token = server.token, server'.device = server.device, server'.ws = server.ws,
         server'.valid = server.valid, server'.last = server.last,
         issued' \in Nat, issued <= issued', Active' => Active,
         \/ UNCHANGED ui /\ (ui.step = "ble_join" => server'.running = server.running)
         \/ ui.step \in AgreeSteps /\ ui'.step \in AgreeSteps
  PROVE  PairingInv'
<1>1. Unused' = Unused /\ Bounds' = Bounds
  BY SameLog
<1> QED
  BY <1>1, Values
  DEF IInv, PairingInv, TokensIssued, TokensDistinct, TokenStored, TokenIsNew, ActiveServes,
      Restartable, MarkersCover, PairingChanged, AgreeSteps, NewTokenSteps, UnstoredSteps

\* What a worker's step leaves alone, and that it makes no service active.
LEMMA WorkerFrame ==
  ASSUME IInv, NEW w \in Workers, Deliver(w) \/ ServeStep(w)
  PROVE  /\ UNCHANGED <<stored, issued, app, ui>> /\ Active
         /\ server'.ws = server.ws /\ server'.running = server.running
<1>1. UNCHANGED <<stored, issued, app, ui>>
  BY DEF Deliver, ServeStep, Authenticate, EnterCallback, CallbackReturns, ReleaseReplayCounter,
     AdvanceReplayCounter, disk
<1>2. Active
  BY DEF Deliver, ServeStep, Authenticate, EnterCallback, CallbackReturns, ReleaseReplayCounter,
     AdvanceReplayCounter, Active, AllIdle
<1>3. server'.ws = server.ws /\ server'.running = server.running
  <2>1. CASE Deliver(w) \/ EnterCallback(w) \/ CallbackReturns(w)
    BY <2>1 DEF Deliver, EnterCallback, CallbackReturns
  <2>2. CASE Authenticate(w) \/ ReleaseReplayCounter(w) \/ AdvanceReplayCounter(w)
    BY <2>2
    DEF Authenticate, ReleaseReplayCounter, AdvanceReplayCounter, MarkerSaved, MarkerUnsaved,
        MarkerRefused, IInv, Typed, Servers
  <2> QED
    BY <2>1, <2>2 DEF ServeStep
<1> QED
  BY <1>1, <1>2, <1>3

\* A step of a worker that advances no counter.
LEMMA ServedOn ==
  ASSUME IInv, PairingInv, NEW w \in Workers,
         \/ Deliver(w) \/ Authenticate(w) \/ EnterCallback(w) \/ CallbackReturns(w)
         \/ ReleaseReplayCounter(w) \/ (AdvanceReplayCounter(w) /\ MarkerRefused(w))
  PROVE  PairingInv'
<1>1. /\ UNCHANGED <<stored, issued, app, ui>> /\ Active
      /\ server'.token = server.token /\ server'.device = server.device
      /\ server'.ws = server.ws /\ server'.running = server.running
  BY WorkerFrame, OthersKept DEF IInv, ServeStep
<1>2. UNCHANGED <<marker, accepted>>
  BY DEF Deliver, Authenticate, EnterCallback, CallbackReturns, ReleaseReplayCounter,
     MarkerRefused, disk
<1>3. server'.valid = server.valid /\ server'.last = server.last
  BY DEF Deliver, Authenticate, EnterCallback, CallbackReturns, ReleaseReplayCounter,
     MarkerRefused, IInv, Typed, Servers
<1>4. issued \in Nat /\ Kept' = Kept
  BY <1>1, Values DEF IInv, Kept
<1> QED
  BY <1>1, <1>2, <1>3, <1>4, Framed


\* What an appended counter leaves.
LEMMA Appended ==
  ASSUME NEW s \in Seq(Counters), NEW c \in Counters, NEW i \in 1..Len(Append(s, c))
  PROVE  \/ Append(s, c)[i] = c
         \/ i \in 1..Len(s) /\ Append(s, c)[i] = s[i]
OBVIOUS

\* An advanced counter covers all that was accepted, in the service and in the
\* marker of its token.
LEMMA Advanced ==
  ASSUME IInv, PairingInv, NEW w \in Workers, AdvanceReplayCounter(w), CanAdvance(w)
  PROVE  PairingInv'
<1> DEFINE t == server.token
           c == workers[w].counter
<1>1. /\ UNCHANGED <<stored, issued, app, ui>> /\ Active
      /\ server'.token = t /\ server'.device = server.device
      /\ server'.ws = server.ws /\ server'.running = server.running
  BY WorkerFrame, OthersKept DEF IInv, ServeStep
<1>2. t \in Tokens /\ workers[w].token = t /\ server.valid /\ server.ws = app.ws
  BY <1>1, Values
  DEF AdvanceReplayCounter, CanAdvance, IInv, ServiceInv, EpochTells, Serving, PairingInv,
      ActiveServes
<1>3. c \in Counters /\ c > server.last /\ c \in Nat /\ server.last \in Nat
  BY Kinds, Values DEF AdvanceReplayCounter, CanAdvance, IInv, Typed, PoolTyped, RequestTaken
<1>4. server.last \in Bounds[t] /\ c \in Bounds[t]
  <2>1. server.last \in Bounds[t]
    BY <1>1, <1>2 DEF PairingInv, ActiveServes
  <2> QED
    <3>1. accepted[t] \in Seq(Counters)
      BY <1>2 DEF IInv, Typed, StoreTyped
    <3>2. \A i \in 1..Len(accepted[t]) : accepted[t][i] \in Nat
      BY <3>1, BoundsAssumption DEF Counters
    <3> QED
      BY <1>2, <1>3, <2>1, <3>2 DEF Bounds
<1>5. Kept' = Kept
  BY <1>1 DEF Kept
<1>6. CASE MarkerSaved(w)
  <2>1. /\ marker' = [marker EXCEPT ![app.ws] = MarkerOf(t, c)]
        /\ accepted' = [accepted EXCEPT ![t] = Append(@, c)] /\ server'.last = c
    BY <1>2, <1>6 DEF MarkerSaved, WithMarker, Log200, IInv, Typed, Servers
  <2>2. /\ marker'[app.ws].token = t /\ marker'[app.ws].counter = c
        /\ \A ws \in Workspaces \ {app.ws} : marker'[ws] = marker[ws]
    BY <2>1, Values DEF MarkerOf, IInv, Typed, StoreTyped
  <2>3. Unused' = Unused \ {t} /\ c \in Bounds'[t] /\ \A u \in Tokens \ {t} : Bounds'[u] = Bounds[u]
    <3>1. accepted[t] \in Seq(Counters) /\ accepted'[t] = Append(accepted[t], c)
          /\ \A u \in Tokens \ {t} : accepted'[u] = accepted[u]
      BY <1>2, <2>1 DEF IInv, Typed, StoreTyped
    <3>2. Unused' = Unused \ {t}
      BY <1>2, <1>3, <3>1 DEF Unused
    <3>3. c \in Bounds'[t]
      <4>1. \A i \in 1..Len(accepted'[t]) :
              \/ accepted'[t][i] = c
              \/ i \in 1..Len(accepted[t]) /\ accepted'[t][i] = accepted[t][i]
        BY <1>3, <3>1, Appended
      <4>2. \A i \in 1..Len(accepted[t]) : accepted[t][i] <= c
        BY <1>2, <1>4 DEF Bounds
      <4> QED
        BY <1>2, <1>3, <4>1, <4>2 DEF Bounds
    <3> QED
      BY <3>1, <3>2, <3>3 DEF Bounds
  <2>4. TokensIssued' /\ TokensDistinct'
    BY <1>1, <1>2, <2>3, Values, <1>5 DEF PairingInv, TokensIssued, TokensDistinct, IInv
  <2>5. t \in Tokens /\ ui.step \in NewTokenSteps => app.token # t
    BY <1>2 DEF PairingInv, TokenIsNew
  <2>6. TokenStored' /\ TokenIsNew'
    BY <1>1, <1>2, <2>3, <2>5, Values, <1>5
    DEF PairingInv, TokenStored, TokenIsNew, ActiveServes, UnstoredSteps, NewTokenSteps, IInv
  <2>7. ActiveServes' /\ Restartable'
    BY <1>1, <1>2, <2>1, <2>3, Values, <1>5
    DEF PairingInv, ActiveServes, Restartable, PairingChanged, IInv
  <2>8. MarkersCover'
    BY <1>1, <1>2, <2>2, <2>3, Values, <1>5
    DEF PairingInv, ActiveServes, TokensDistinct, MarkersCover, IInv
  <2> QED
    BY <2>4, <2>6, <2>7, <2>8 DEF PairingInv
<1>7. CASE MarkerUnsaved(w)
  <2>1. ~server'.valid /\ UNCHANGED accepted
    BY <1>7 DEF MarkerUnsaved, IInv, Typed, Servers
  <2>2. /\ marker' = marker \/ marker' = [marker EXCEPT ![app.ws] = MarkerOf(t, c)]
    BY <1>2, <1>7 DEF MarkerUnsaved, WithMarker
  <2>3. Unused' = Unused /\ Bounds' = Bounds
    BY <2>1, SameLog
  <2>4. TokensIssued' /\ TokensDistinct' /\ TokenStored' /\ TokenIsNew'
    BY <1>1, <1>2, <2>3, Values, <1>5
    DEF PairingInv, TokensIssued, TokensDistinct, TokenStored, TokenIsNew, IInv
  <2>5. ActiveServes' /\ Restartable'
    BY <1>1, <1>2, <2>1, <2>3, Values, <1>5
    DEF PairingInv, ActiveServes, Restartable, PairingChanged, IInv
  <2>6. MarkersCover'
    <3>1. CASE marker' = marker
      BY <1>1, <2>3, <3>1, <1>5 DEF PairingInv, MarkersCover
    <3>2. CASE marker' = [marker EXCEPT ![app.ws] = MarkerOf(t, c)]
      <4>1. /\ marker'[app.ws].token = t /\ marker'[app.ws].counter = c
            /\ \A ws \in Workspaces \ {app.ws} : marker'[ws] = marker[ws]
        BY <3>2, Values DEF MarkerOf, IInv, Typed, StoreTyped
      <4> QED
        BY <1>1, <1>2, <1>4, <2>3, <4>1, Values, <1>5
        DEF PairingInv, ActiveServes, TokensDistinct, MarkersCover, IInv
    <3> QED
      BY <2>2, <3>1, <3>2
  <2> QED
    BY <2>4, <2>5, <2>6 DEF PairingInv
<1> QED
  BY <1>6, <1>7 DEF AdvanceReplayCounter, MarkerRefused

-----------------------------------------------------------------------------
(* The UI thread *)

\* What a step that moves on from one of the ordinary steps to another leaves.
LEMMA MovedOn ==
  ASSUME IInv, PairingInv,
         \/ BeginRestart \/ BeginRotation \/ BeginSwitch \/ BeginRetry \/ RetryConfig
         \/ SwitchSave
  PROVE  PairingInv'
<1>1. ui.step \in AgreeSteps /\ ui'.step \in AgreeSteps
  BY DEF BeginRestart, BeginRotation, BeginSwitch, BeginRetry, RetryConfig, SwitchSave, Start, Goto,
     AgreeSteps, IInv, Typed, AppTyped, Operations
<1>2. UNCHANGED <<marker, accepted, issued, pool>> /\ issued \in Nat
  BY Values DEF BeginRestart, BeginRotation, BeginSwitch, BeginRetry, RetryConfig, SwitchSave, disk,
     service, IInv
<1>3. StopServer \/ UNCHANGED server
  BY DEF BeginRestart, BeginRotation, BeginSwitch, BeginRetry, RetryConfig, SwitchSave, service
<1>4. /\ server'.token = server.token /\ server'.device = server.device
      /\ server'.ws = server.ws /\ server'.valid = server.valid /\ server'.last = server.last
      /\ Active' => Active
  BY <1>2, <1>3, Halted DEF IInv, Active, AllIdle, pool
<1>5. /\ app'.ws = app.ws /\ app'.token = app.token /\ app'.device = app.device
      /\ app'.setup = app.setup /\ app'.tokenPending = app.tokenPending
  BY DEF BeginRestart, BeginRotation, BeginSwitch, BeginRetry, RetryConfig, SwitchSave,
     IInv, Typed, AppTyped, Pairings
<1>6. Kept' = Kept
  <2>1. stored' = stored \/ stored' = Configured(app.device, app.setup)
    BY DEF BeginRestart, BeginRotation, BeginSwitch, BeginRetry, RetryConfig, SwitchSave, disk
  <2> QED
    BY <2>1, TokensKept DEF IInv
<1> QED
  BY <1>1, <1>2, <1>4, <1>5, <1>6, Framed

\* The service is restarted with the pairing that is stored.
LEMMA ServiceRestarted ==
  ASSUME IInv, PairingInv, RestartService
  PROVE  PairingInv'
<1>1. /\ ui.step = "restart_join" /\ ui'.step = "idle" /\ AllIdle
      /\ UNCHANGED <<stored, marker, issued, app, pool, accepted>> /\ issued \in Nat
  BY Values DEF RestartService, Goto, IInv, Typed, AppTyped, Operations, disk
<1>2. CASE UNCHANGED server
  BY <1>1, <1>2, Framed DEF AgreeSteps, Active, AllIdle, pool, Kept
<1>3. CASE ~UNCHANGED server
  <2>1. /\ app.setup /\ app.token # NoToken /\ ~app.tokenPending
        /\ \E b \in BOOLEAN : server' = [SetDeviceCredentials(server, app) EXCEPT !.running = b]
    <3>1. [Restarted EXCEPT !.running = FALSE] =
            [SetDeviceCredentials(server, app) EXCEPT !.running = FALSE]
      BY CredentialsTyped DEF Restarted, IInv
    <3> QED
      BY <1>3, <3>1 DEF RestartService, Restarted
  <2>2. Kept[app.ws] = app.token
    BY <1>1, <2>1 DEF PairingInv, TokenStored, UnstoredSteps
  <2>3. PairingChanged(server, app) => app.token \in Unused
    BY <1>1, <2>1 DEF PairingInv, Restartable, AgreeSteps
  <2>4. /\ server'.ws = app.ws /\ server'.token = app.token /\ server'.device = app.device
        /\ server'.last \in Bounds[app.token]
    BY <2>1, <2>2, <2>3, CredentialsGiven DEF IInv, PairingInv
  <2>5. Kept' = Kept /\ Unused' = Unused /\ Bounds' = Bounds
    BY <1>1, SameLog DEF Kept
  <2> QED
    BY <1>1, <2>1, <2>2, <2>4, <2>5, Values
    DEF IInv, PairingInv, TokensIssued, TokensDistinct, TokenStored, TokenIsNew, ActiveServes,
        Restartable, MarkersCover, PairingChanged, AgreeSteps, NewTokenSteps, UnstoredSteps
<1> QED
  BY <1>2, <1>3

\* The pairing of the first device that reported reaches the service.
LEMMA AdoptedPushed ==
  ASSUME IInv, PairingInv, PushAdopted
  PROVE  PairingInv'
<1>1. /\ ui.step = "adopt_set" /\ ui'.step = "idle"
      /\ server' = SetDeviceCredentials(server, app)
      /\ UNCHANGED <<stored, marker, issued, app, workers, accepted>>
  BY DEF PushAdopted, PushCredentials, Goto, IInv, Typed, AppTyped, Operations, disk, pool
<1>2. /\ server'.ws = app.ws /\ server'.token = app.token /\ server'.device = app.device
      /\ app.token # NoToken /\ Kept[app.ws] = app.token /\ ~PairingChanged(server, app)
           => server'.last \in Bounds[app.token]
  BY <1>1, CredentialsGiven DEF IInv, PairingInv
<1>3. Active' = Active
  BY <1>1 DEF SetDeviceCredentials, WithPairing, IInv, Typed, Servers, Active, AllIdle
<1>4. Active => /\ app.token # NoToken /\ Kept[app.ws] = app.token /\ ~app.tokenPending
                /\ server'.last \in Bounds[app.token]
  BY <1>1, <1>2 DEF PairingInv, ActiveServes, TokenStored, UnstoredSteps, PairingChanged
<1>5. Kept' = Kept /\ Unused' = Unused /\ Bounds' = Bounds
  BY <1>1, SameLog DEF Kept
<1> QED
  BY <1>1, <1>2, <1>3, <1>4, <1>5, Values
  DEF IInv, PairingInv, TokensIssued, TokensDistinct, TokenStored, TokenIsNew, ActiveServes,
      Restartable, MarkersCover, PairingChanged, AgreeSteps, NewTokenSteps, UnstoredSteps

\* A new pairing reaches the service while it may still serve the old one.
LEMMA PairedPushed ==
  ASSUME IInv, PairingInv, PairingSet
  PROVE  PairingInv'
<1>1. /\ ui.step = "ble_set" /\ ui'.step = "restart_join"
      /\ server' = [SetDeviceCredentials(server, app) EXCEPT !.running = FALSE]
      /\ UNCHANGED <<stored, marker, issued, app, workers, accepted>>
  BY DEF PairingSet, Goto, IInv, Typed, AppTyped, Operations, disk, pool
<1>2. app.token # NoToken /\ app.token \in Unused /\ Kept[app.ws] = app.token
  BY <1>1 DEF PairingInv, TokenIsNew, NewTokenSteps, UnstoredSteps
<1>3. /\ server'.ws = app.ws /\ server'.token = app.token /\ server'.device = app.device
      /\ server'.last \in Bounds[app.token]
  BY <1>1, <1>2, CredentialsGiven DEF IInv, PairingInv
<1>4. Active' => Active /\ ~app.tokenPending
  <2>1. Active' => Active
    BY <1>1, CredentialsTyped DEF IInv, Typed, Servers, Active, AllIdle
  <2> QED
    BY <2>1 DEF PairingInv, ActiveServes
<1>5. Kept' = Kept /\ Unused' = Unused /\ Bounds' = Bounds
  BY <1>1, SameLog DEF Kept
<1> QED
  BY <1>1, <1>2, <1>3, <1>4, <1>5, Values
  DEF IInv, PairingInv, TokensIssued, TokensDistinct, TokenStored, TokenIsNew, ActiveServes,
      Restartable, MarkersCover, PairingChanged, AgreeSteps, NewTokenSteps, UnstoredSteps

\* A service that was stopped is given the pairing of the workspace.
LEMMA StoppedPushed ==
  ASSUME IInv, PairingInv, RotateForget \/ SwitchSet
  PROVE  PairingInv'
<1>1. /\ ui.step \in {"rotate_forget", "switch_set"} /\ ui'.step \in {"idle", "restart_join"}
      /\ server' = SetDeviceCredentials(server, app)
      /\ UNCHANGED <<stored, issued, app, workers, accepted>>
      /\ \/ marker' = marker
         \/ ui.step = "rotate_forget" /\ marker' = [marker EXCEPT ![app.ws] = NoMarker]
  BY DEF RotateForget, SwitchSet, Goto, IInv, Typed, AppTyped, Operations, disk, pool
<1>2. server'.ws = app.ws /\ server'.token = app.token /\ server'.device = app.device
  BY <1>1, CredentialsGiven DEF IInv, PairingInv
<1>3. ~Active'
  BY <1>1 DEF SetDeviceCredentials, WithPairing, IInv, Typed, Servers, AppInv, Stopped, Active,
     AllIdle
<1>4. Kept' = Kept /\ Unused' = Unused /\ Bounds' = Bounds
  BY <1>1, SameLog DEF Kept
<1>5. MarkersCover'
  <2>1. ui.step = "rotate_forget" => Kept[app.ws] \in Unused
    BY DEF PairingInv, TokenIsNew, NewTokenSteps, UnstoredSteps
  <2>2. \A ws \in Workspaces : marker'[ws] = marker[ws] \/ (ws = app.ws /\ Kept[ws] \in Unused)
    BY <1>1, <2>1 DEF IInv, Typed, StoreTyped
  <2> QED
    BY <1>4, <2>2 DEF PairingInv, MarkersCover
<1> QED
  BY <1>1, <1>2, <1>3, <1>4, <1>5, Values
  DEF IInv, PairingInv, TokensIssued, TokensDistinct, TokenStored, TokenIsNew, ActiveServes,
      Restartable, PairingChanged, AgreeSteps, NewTokenSteps, UnstoredSteps

\* The marker of a new token is removed: nothing was accepted under it.
LEMMA Forgotten ==
  ASSUME IInv, PairingInv, PairingForget
  PROVE  PairingInv'
<1>1. ui.step = "ble_forget" /\ ui.outcome # "unsaved"
  BY DEF PairingForget, PairingInv, TokenIsNew
<1>2. /\ ui'.step \in {"ble_set", "ble_undo"} /\ UNCHANGED <<server, workers>>
      /\ UNCHANGED <<stored, issued, app, accepted>>
      /\ marker' = marker \/ marker' = [marker EXCEPT ![app.ws] = NoMarker]
  BY <1>1 DEF PairingForget, Goto, IInv, Typed, AppTyped, Operations, pool
<1>3. Kept' = Kept /\ Unused' = Unused /\ Bounds' = Bounds /\ Active' = Active
  BY <1>2, SameLog DEF Kept, Active, AllIdle
<1>4. MarkersCover'
  <2>1. Kept[app.ws] \in Unused
    BY <1>1 DEF PairingInv, TokenIsNew, NewTokenSteps, UnstoredSteps
  <2>2. \A ws \in Workspaces : marker'[ws] = marker[ws] \/ (ws = app.ws /\ Kept[ws] \in Unused)
    BY <1>2, <2>1 DEF IInv, Typed, StoreTyped
  <2> QED
    BY <1>3, <2>2 DEF PairingInv, MarkersCover
<1> QED
  BY <1>1, <1>2, <1>3, <1>4, Values
  DEF IInv, PairingInv, TokensIssued, TokensDistinct, TokenStored, TokenIsNew, ActiveServes,
      Restartable, PairingChanged, AgreeSteps, NewTokenSteps, UnstoredSteps

\* A pairing that is taken back leaves no token.
LEMMA Undone ==
  ASSUME IInv, PairingInv, PairingUndo
  PROVE  PairingInv'
<1>1. /\ ui.step = "ble_undo" /\ ui'.step = "ble_join" /\ StopServer
      /\ UNCHANGED <<marker, issued, workers, accepted>>
  BY DEF PairingUndo, Goto, IInv, Typed, AppTyped, Operations, pool
<1>2. app'.ws = app.ws /\ app'.token = NoToken /\ ~app'.setup /\ ~app'.tokenPending
  BY DEF PairingUndo, IInv, Typed, AppTyped, Pairings
<1>3. Kept' = [Kept EXCEPT ![app.ws] = NoToken]
  <2>1. \/ stored' = [Configured(None, FALSE) EXCEPT ![app.ws].token = NoToken]
        \/ stored' = [stored EXCEPT ![app.ws].token = NoToken]
    BY DEF PairingUndo
  <2>2. Typed
    BY DEF IInv
  <2>3. CASE stored' = [Configured(None, FALSE) EXCEPT ![app.ws].token = NoToken]
    BY <2>2, <2>3, TokensKept
  <2>4. CASE stored' = [stored EXCEPT ![app.ws].token = NoToken]
    BY <2>2, <2>4, TokensKept
  <2> QED
    BY <2>1, <2>3, <2>4
<1>4. Kept'[app.ws] = 0 /\ \A ws \in Workspaces \ {app.ws} : Kept'[ws] = Kept[ws]
  BY <1>3, Values DEF Kept, IInv
<1>5. /\ server'.token = server.token /\ server'.device = server.device
      /\ server'.ws = server.ws /\ server'.valid = server.valid /\ server'.last = server.last
      /\ ~server'.running
      /\ Active' => Active
  BY <1>1, Halted DEF IInv, Active, AllIdle
<1>6. Unused' = Unused /\ Bounds' = Bounds
  BY <1>1, SameLog
<1>7. TokensIssued' /\ TokensDistinct'
  BY <1>1, <1>2, <1>4, <1>5, <1>6, Values
  DEF IInv, PairingInv, TokensIssued, TokensDistinct
<1>8. TokenStored' /\ TokenIsNew'
  BY <1>1, <1>2, <1>4, <1>5, <1>6, Values
  DEF IInv, PairingInv, TokenStored, TokenIsNew, AgreeSteps, NewTokenSteps, UnstoredSteps
<1>9. ActiveServes'
  BY <1>1, <1>2, <1>4, <1>5, <1>6, Values
  DEF IInv, PairingInv, ActiveServes, PairingChanged, AgreeSteps
<1>10. Restartable'
  BY <1>1, <1>2, <1>4, <1>5, <1>6, Values
  DEF IInv, PairingInv, Restartable, PairingChanged, AgreeSteps
<1>11. MarkersCover'
  BY <1>1, <1>2, <1>4, <1>5, <1>6, Values
  DEF IInv, PairingInv, MarkersCover
<1> QED
  BY <1>7, <1>8, <1>9, <1>10, <1>11 DEF PairingInv

\* The first device that reports is the one the service is not bound to yet.
LEMMA DeviceAdopted ==
  ASSUME IInv, PairingInv, AdoptDevice
  PROVE  PairingInv'
<1>1. /\ ui.step = "idle" /\ UNCHANGED <<marker, issued, server, workers, accepted>>
      /\ issued \in Nat
  BY Values DEF AdoptDevice, service, pool, IInv
<1>2. Active' = Active
  BY <1>1 DEF Active, AllIdle
<1>3. CASE app.device # None
  BY <1>1, <1>2, <1>3, Framed DEF AdoptDevice, Kept
<1>4. CASE app.device = None
  <2>1. ui'.step = "adopt_set"
    BY <1>4 DEF AdoptDevice, Goto, IInv, Typed, AppTyped, Operations
  <2>2. app'.ws = app.ws /\ app'.token = app.token /\ app'.tokenPending = app.tokenPending
    BY <1>4 DEF AdoptDevice, IInv, Typed, AppTyped, Pairings
  <2>3. Kept' = Kept
    BY <1>4, TokensKept DEF AdoptDevice, IInv
  <2>4. Unused' = Unused /\ Bounds' = Bounds
    BY <1>1, SameLog
  <2> QED
    BY <1>1, <1>2, <1>4, <2>1, <2>2, <2>3, <2>4, Values
    DEF IInv, PairingInv, TokensIssued, TokensDistinct, TokenStored, TokenIsNew, ActiveServes,
        Restartable, MarkersCover, PairingChanged, AgreeSteps, NewTokenSteps, UnstoredSteps
<1> QED
  BY <1>3, <1>4

\* Tokens are numbers in the order they were issued.
LEMMA IssuedSoFar ==
  ASSUME IInv, PairingInv
  PROVE  /\ \A ws \in Workspaces : Kept[ws] \in Nat /\ Kept[ws] <= issued
         /\ server.token \in Nat /\ server.token <= issued /\ issued \in Nat
         /\ \A t \in Tokens : t \in Nat /\ (t > issued => t \in Unused)
<1>1. \A t \in {0} \cup Tokens : t \in Nat
  BY Values DEF IInv
<1>2. /\ \A ws \in Workspaces : Kept[ws] \in {0} \cup Tokens
      /\ server.token \in {0} \cup Tokens /\ issued \in Nat
  BY Values DEF IInv
<1> HIDE DEF Kept
<1> QED
  BY <1>1, <1>2, Zenon DEF PairingInv, TokensIssued

\* A token is new when it is issued: no store, no marker and no service has it.
LEMMA Issued ==
  ASSUME IInv, PairingInv, issued' = issued + 1, issued' \in Tokens, app'.ws = app.ws,
         app'.token = issued', ~app'.setup, app'.tokenPending = app.tokenPending, Kept' = Kept,
         UNCHANGED <<marker, server, workers, accepted>>,
         ui'.step \in {"ble_config", "rotate_token"}
  PROVE  PairingInv'
<1>1. Unused' = Unused /\ Bounds' = Bounds /\ Active' = Active
  BY SameLog DEF Active, AllIdle
<1>2. issued' \in Unused /\ issued' # NoToken /\ server.token # issued'
      /\ \A ws \in Workspaces : Kept[ws] # issued'
  BY Values DEF IInv, PairingInv, TokensIssued
<1>3. TokensIssued' /\ TokensDistinct'
  <2>1. /\ \A ws \in Workspaces : Kept[ws] \in Nat /\ Kept[ws] <= issued
        /\ server.token \in Nat /\ server.token <= issued /\ issued \in Nat
        /\ \A t \in Tokens : t \in Nat /\ (t > issued => t \in Unused)
    BY IssuedSoFar
  <2>2. TokensIssued'
    BY <1>1, <2>1 DEF TokensIssued
  <2>3. TokensDistinct'
    BY <1>1, <1>2 DEF PairingInv, TokensDistinct
  <2> QED
    BY <2>2, <2>3
<1>4. TokenStored' /\ TokenIsNew'
  BY <1>1, <1>2, Values DEF IInv, PairingInv, TokenStored, TokenIsNew, NewTokenSteps, UnstoredSteps
<1>5. ActiveServes' /\ Restartable'
  BY <1>1, <1>2, Values DEF IInv, PairingInv, ActiveServes, Restartable, AgreeSteps
<1>6. MarkersCover'
  BY <1>1 DEF PairingInv, MarkersCover
<1> QED
  BY <1>3, <1>4, <1>5, <1>6 DEF PairingInv

\* A rotation or a pairing issues one, or fails before anything changed.
LEMMA TokenRotated ==
  ASSUME IInv, PairingInv, RotateConfig \/ BeginPairing
  PROVE  PairingInv'
<1>1. /\ UNCHANGED <<marker, server, workers, accepted>> /\ issued' = issued + 1
      /\ issued \in Nat /\ issued' \in Tokens
  <2>1. /\ UNCHANGED <<marker, server, workers, accepted>> /\ issued' = issued + 1
        /\ issued < MaxTokens
    BY DEF RotateConfig, BeginPairing, service, pool, IInv, AppInv
  <2> QED
    BY <2>1, BoundsAssumption, Values DEF IInv, Tokens
<1>2. CASE app'.token = app.token
  <2>1. /\ UNCHANGED <<stored, app>> /\ ui.step = "rotate_join"
        /\ ui'.step \in {"restart_join", "idle"}
    <3>1. app.token <= issued /\ app.token \in Nat
      BY Values DEF IInv, PairingInv, TokensIssued
    <3>2. app'.token # issued + 1
      BY <1>1, <1>2, <3>1
    <3> QED
      BY <3>2 DEF RotateConfig, BeginPairing, Goto, IInv, Typed, AppTyped, Operations, Pairings
  <2> QED
    BY <1>1, <2>1, Framed DEF AgreeSteps, Active, AllIdle, Kept
<1>3. CASE app'.token # app.token
  <2>1. /\ app'.ws = app.ws /\ app'.token = issued' /\ ~app'.setup
        /\ app'.tokenPending = app.tokenPending
        /\ ui'.step \in {"ble_config", "rotate_token"}
    BY <1>1, <1>3 DEF RotateConfig, BeginPairing, Start, Goto, IInv, Typed, AppTyped, Operations,
       Pairings
  <2>2. Kept' = Kept
    BY <1>3, TokensKept DEF RotateConfig, BeginPairing, IInv
  <2> QED
    BY <1>1, <2>1, <2>2, Issued
<1> QED
  BY <1>2, <1>3

\* The new token is stored.
LEMMA TokenSaved ==
  ASSUME IInv, PairingInv, RotateToken \/ (PairingSaves /\ PairingToken)
  PROVE  PairingInv'
<1>1. /\ UNCHANGED <<marker, issued, server, workers, accepted>>
      /\ app'.ws = app.ws /\ app'.token = app.token /\ app'.setup = app.setup
      /\ app'.device = app.device
      /\ ui.step \in {"rotate_token", "ble_token"}
  BY DEF RotateToken, PairingToken, service, pool, IInv, Typed, AppTyped, Pairings
<1>2. Unused' = Unused /\ Bounds' = Bounds /\ Active' = Active
  BY <1>1, SameLog DEF Active, AllIdle
<1>3. /\ app.token \in Unused /\ app.token # NoToken /\ server.token # app.token
      /\ ui.step = "rotate_token" => ~app.setup /\ ~Active
  BY <1>1 DEF PairingInv, TokenIsNew, NewTokenSteps, IInv, AppInv, Stopped, Active
<1>4. CASE stored' = [stored EXCEPT ![app.ws].token = app.token] /\ ui'.step # "idle"
  <2>1. ~app'.tokenPending
        /\ \/ ui.step = "rotate_token" /\ ui'.step = "rotate_forget"
           \/ ui.step = "ble_token" /\ ui'.step = "ble_paired"
    BY <1>4
    DEF RotateToken, PairingToken, PairingSaves, Fault, Goto, IInv, Typed, AppTyped, Operations,
        Pairings
  <2>2. Kept' = [Kept EXCEPT ![app.ws] = app.token]
    BY <1>4, TokensKept DEF IInv
  <2>3. Kept'[app.ws] = app.token /\ \A ws \in Workspaces \ {app.ws} : Kept'[ws] = Kept[ws]
    BY <2>2, Values DEF Kept, IInv
  <2> QED
    BY <1>1, <1>2, <1>3, <2>1, <2>3, Values
    DEF IInv, PairingInv, TokensIssued, TokensDistinct, TokenStored, TokenIsNew, ActiveServes,
        Restartable, MarkersCover, PairingChanged, AgreeSteps, NewTokenSteps, UnstoredSteps
<1>5. CASE UNCHANGED stored /\ app'.tokenPending /\ ui.step = "rotate_token" /\ ui'.step = "idle"
  <2>1. Kept' = Kept
    BY <1>5 DEF Kept
  <2> QED
    BY <1>1, <1>2, <1>3, <1>5, <2>1, Values
    DEF IInv, PairingInv, TokensIssued, TokensDistinct, TokenStored, TokenIsNew, ActiveServes,
        Restartable, MarkersCover, PairingChanged, AgreeSteps, NewTokenSteps, UnstoredSteps
<1> QED
  BY <1>4, <1>5
  DEF RotateToken, PairingToken, PairingSaves, Fault, Goto, IInv, Typed, AppTyped, Operations,
      Pairings

\* The steps of a pairing between those that save its token.
LEMMA PairingGoesOn ==
  ASSUME IInv, PairingInv, PairingPaired \/ (PairingSaves /\ PairingConfig)
  PROVE  PairingInv'
<1>1. /\ UNCHANGED <<marker, issued, server, workers, accepted>>
      /\ app'.ws = app.ws /\ app'.token = app.token /\ app'.tokenPending = app.tokenPending
  BY DEF PairingPaired, PairingConfig, service, pool, IInv, Typed, AppTyped, Pairings
<1>2. \/ ui.step = "ble_config" /\ ui'.step = "ble_token"
      \/ ui.step = "ble_paired" /\ ui'.step = "ble_forget" /\ ui'.outcome # "unsaved"
  BY DEF PairingPaired, PairingConfig, PairingSaves, Fault, Goto, IInv, Typed, AppTyped, Operations
<1>3. Kept' = Kept
  BY TokensKept DEF PairingPaired, PairingConfig, IInv
<1>4. Unused' = Unused /\ Bounds' = Bounds /\ Active' = Active
  BY <1>1, SameLog DEF Active, AllIdle
<1> QED
  BY <1>1, <1>2, <1>3, <1>4, Values
  DEF IInv, PairingInv, TokensIssued, TokensDistinct, TokenStored, TokenIsNew, ActiveServes,
      Restartable, MarkersCover, PairingChanged, AgreeSteps, NewTokenSteps, UnstoredSteps

\* What could not be saved is saved later, when no service may serve.
LEMMA TokenRetried ==
  ASSUME IInv, PairingInv, RetryToken
  PROVE  PairingInv'
<1>1. /\ UNCHANGED <<marker, issued, server, workers, accepted>> /\ issued \in Nat
      /\ ui.step = "retry_token" /\ ui'.step \in {"restart_join", "idle"}
      /\ app'.ws = app.ws /\ app'.token = app.token /\ app'.device = app.device
      /\ app'.setup = app.setup
  BY Values DEF RetryToken, Goto, service, pool, IInv, Typed, AppTyped, Pairings, Operations
<1>2. Unused' = Unused /\ Bounds' = Bounds /\ Active' = Active
  BY <1>1, SameLog DEF Active, AllIdle
<1>3. CASE UNCHANGED <<stored, app>>
  BY <1>1, <1>2, <1>3, Framed DEF AgreeSteps, Kept
<1>4. CASE ~UNCHANGED <<stored, app>>
  <2>1. /\ app.tokenPending /\ app.token # NoToken /\ ~app'.tokenPending
        /\ stored' = [stored EXCEPT ![app.ws].token = app.token]
    BY <1>4 DEF RetryToken, IInv, Typed, AppTyped, Pairings
  <2>2. ~Active
    BY <2>1 DEF PairingInv, ActiveServes
  <2>3. Kept' = [Kept EXCEPT ![app.ws] = app.token]
    BY <2>1, TokensKept DEF IInv
  <2>4. Kept'[app.ws] = app.token /\ \A ws \in Workspaces \ {app.ws} : Kept'[ws] = Kept[ws]
    BY <2>3, Values DEF Kept, IInv
  <2> QED
    BY <1>1, <1>2, <2>1, <2>2, <2>4, Values
    DEF IInv, PairingInv, TokensIssued, TokensDistinct, TokenStored, TokenIsNew, ActiveServes,
        Restartable, MarkersCover, PairingChanged, AgreeSteps, NewTokenSteps, UnstoredSteps
<1> QED
  BY <1>3, <1>4

\* A pairing that was taken back ends with the service stopped.
LEMMA PairingEnded ==
  ASSUME IInv, PairingInv, PairingEnd
  PROVE  PairingInv'
<1>1. /\ UNCHANGED <<stored, marker, issued, app, server, workers, accepted>>
      /\ ui.step = "ble_join" /\ ui'.step = "idle" /\ AllIdle
  BY DEF PairingEnd, Goto, disk, service, pool, IInv, Typed, AppTyped, Operations
<1>2. /\ Kept' = Kept /\ Unused' = Unused /\ Bounds' = Bounds
      /\ ~Active /\ ~Active'
  BY <1>1, SameLog DEF Kept, PairingInv, TokenIsNew, Active, AllIdle
<1> QED
  BY <1>1, <1>2, Values
  DEF IInv, PairingInv, TokensIssued, TokensDistinct, TokenStored, TokenIsNew, ActiveServes,
      Restartable, MarkersCover, PairingChanged, AgreeSteps, NewTokenSteps, UnstoredSteps

\* What a start or a change of workspace finds: the stored token, or a new one
\* that is stored unless the store fails.
LEMMA Found ==
  ASSUME IInv, NEW ws \in Workspaces, LoadPairing(ws)
  PROVE  /\ app'.ws = ws /\ issued' \in Nat /\ issued <= issued'
         /\ \/ issued' = issued /\ app'.token = Kept[ws]
            \/ issued' = issued + 1 /\ issued' \in Tokens /\ app'.token = issued'
         /\ \A v \in Workspaces \ {ws} : Kept'[v] = Kept[v]
         /\ Kept'[ws] = app'.token \/ (Kept'[ws] = Kept[ws] /\ app'.tokenPending)
<1> DEFINE found == stored[ws]
           kept == found.token # NoToken
           fresh == ~kept /\ ~found.setup /\ found.device = None
           token == IF fresh THEN issued + 1 ELSE found.token
           device == IF kept THEN found.device ELSE None
           setup == kept /\ found.setup
           loaded(pending) == [ws |-> ws, token |-> token, device |-> device, setup |-> setup,
                               configPending |-> FALSE, tokenPending |-> pending]
<1>1. /\ fresh => issued < MaxTokens
      /\ issued' = IF fresh THEN issued + 1 ELSE issued
      /\ \/ /\ \E b : app' = loaded(b)
            /\ stored' = [stored EXCEPT ![ws] = [token |-> token, device |-> device,
                                                setup |-> setup]]
         \/ /\ app' = loaded(TRUE)
            /\ stored' = [stored EXCEPT ![ws].device = device, ![ws].setup = setup]
  BY DEF LoadPairing
<1>2. stored \in Stores /\ issued \in Nat /\ Kept[ws] = found.token
  BY Values DEF IInv, Typed, StoreTyped, Kept
<1>3. issued' \in Nat /\ issued <= issued' /\ (fresh => issued' \in Tokens)
  BY <1>1, <1>2, BoundsAssumption DEF Tokens
<1>4. app'.ws = ws /\ app'.token = token
  BY <1>1
<1>5. \A v \in Workspaces \ {ws} : Kept'[v] = Kept[v]
  <2>1. \A v \in Workspaces \ {ws} : stored'[v] = stored[v]
    BY <1>1, <1>2 DEF Stores
  <2> QED
    BY <2>1 DEF Kept
<1>6. Kept'[ws] = app'.token \/ (Kept'[ws] = Kept[ws] /\ app'.tokenPending)
  BY <1>1, <1>2, <1>4 DEF Stores, Kept
<1> QED
  BY <1>1, <1>2, <1>3, <1>4, <1>5, <1>6

\* The pairing of a workspace is loaded, while no service may serve.
LEMMA Loaded ==
  ASSUME IInv, PairingInv, StartApp \/ SwitchWorkspace
  PROVE  PairingInv'
<1>1. PICK ws \in Workspaces : LoadPairing(ws) /\ (ui.step = "down" => ws = app.ws)
  BY Values DEF StartApp, SwitchWorkspace, IInv
<1>2. /\ UNCHANGED <<marker, server, workers, accepted>>
      /\ \/ ui.step = "down" /\ ui'.step = "restart_join"
         \/ ui.step = "switch_join" /\ ui'.step = "switch_set"
         \/ ui.step = "switch_join" /\ ui'.step = "idle" /\ ~app'.setup
  BY DEF StartApp, SwitchWorkspace, service, pool, Goto, IInv, Typed, AppTyped, Operations
<1>3. ~Active /\ ~Active'
  BY <1>2
  DEF SwitchWorkspace, StartApp, PairingInv, TokenIsNew, IInv, AppInv, Stopped, Active, AllIdle
<1>4. Unused' = Unused /\ Bounds' = Bounds
  BY <1>2, SameLog
<1>5. ui.step = "down" => ~PairingChanged(server, app')
  BY DEF PairingInv, TokenIsNew, PairingChanged
<1>6. /\ app'.ws = ws /\ issued' \in Nat /\ issued <= issued'
      /\ \/ issued' = issued /\ app'.token = Kept[ws]
         \/ issued' = issued + 1 /\ issued' \in Tokens /\ app'.token = issued'
      /\ \A v \in Workspaces \ {ws} : Kept'[v] = Kept[v]
      /\ Kept'[ws] = app'.token \/ (Kept'[ws] = Kept[ws] /\ app'.tokenPending)
  BY <1>1, Found
<1>7. /\ \A v \in Workspaces : Kept[v] \in Nat /\ Kept[v] <= issued
      /\ server.token \in Nat /\ server.token <= issued /\ issued \in Nat
      /\ \A t \in Tokens : t \in Nat /\ (t > issued => t \in Unused)
  BY IssuedSoFar
<1>8. \/ app'.token = Kept[ws]
      \/ app'.token \in Unused /\ \A v \in Workspaces : Kept[v] # app'.token
  BY <1>6, <1>7
<1>9. TokensIssued'
  BY <1>2, <1>4, <1>6, <1>7 DEF TokensIssued
<1>10. TokensDistinct'
  BY <1>3, <1>6, <1>8 DEF PairingInv, TokensDistinct
<1>11. TokenStored'
  BY <1>4, <1>6, <1>8 DEF TokenStored
<1>12. TokenIsNew' /\ ActiveServes'
  BY <1>2, <1>3 DEF TokenIsNew, ActiveServes, NewTokenSteps, UnstoredSteps
<1>13. Restartable'
  BY <1>2, <1>5 DEF Restartable, AgreeSteps, PairingChanged
<1>14. MarkersCover'
  BY <1>2, <1>4, <1>6, <1>8 DEF PairingInv, MarkersCover
<1> QED
  BY <1>9, <1>10, <1>11, <1>12, <1>13, <1>14 DEF PairingInv

\* A crash leaves no service and no pairing in memory.
LEMMA Lost ==
  ASSUME IInv, PairingInv, Crash
  PROVE  PairingInv'
<1>1. /\ UNCHANGED <<stored, marker, issued, accepted>> /\ ui'.step = "down"
      /\ app'.ws = app.ws /\ app'.token = NoToken /\ ~app'.setup /\ ~app'.tokenPending
      /\ ~server'.running /\ server'.token = NoToken /\ server'.device = None
      /\ \A w \in Workers : workers'[w].pc = "idle"
  BY DEF Crash, disk, FreshServer, Idle, IInv, Typed, AppTyped, Pairings
<1>2. Kept' = Kept /\ Unused' = Unused /\ Bounds' = Bounds /\ ~Active'
  BY <1>1, SameLog DEF Kept, Active, AllIdle
<1> QED
  BY <1>1, <1>2, Values
  DEF IInv, PairingInv, TokensIssued, TokensDistinct, TokenStored, TokenIsNew, ActiveServes,
      Restartable, MarkersCover, PairingChanged, AgreeSteps, NewTokenSteps, UnstoredSteps

-----------------------------------------------------------------------------

\* The workspaces are paired with the first tokens, and nothing was accepted.
LEMMA PairedInitially == Init => PairingInv
<1> SUFFICES ASSUME Init PROVE PairingInv
  OBVIOUS
<1>1. \A ws \in Workspaces : Kept[ws] = ws
  BY DEF Init, Kept
<1>2. Unused = Tokens /\ ~Active
  BY DEF Init, Unused, Active, FreshServer, AllIdle, Idle
<1>3. /\ Workspaces \subseteq Tokens /\ issued \in Nat
      /\ \A ws \in Workspaces : ws \in Nat /\ ws <= issued
  BY BoundsAssumption DEF Init, Workspaces, Tokens
<1> QED
  BY <1>1, <1>2, <1>3
  DEF Init, FreshServer, NoToken, PairingInv, TokensIssued, TokensDistinct, TokenStored, TokenIsNew,
      ActiveServes, Restartable, MarkersCover, AgreeSteps, NewTokenSteps, UnstoredSteps

\* Every action keeps it.
LEMMA PairingStep ==
  ASSUME PairingSaves, IInv, PairingInv, [Next]_vars
  PROVE  PairingInv'
<1>1. CASE Requested
  BY <1>1, Loaded, Lost, DeviceAdopted, MovedOn, TokenRotated DEF Requested
<1>2. CASE UIStep
  BY <1>2, ServiceRestarted, AdoptedPushed, TokenRotated, TokenSaved, StoppedPushed, PairingGoesOn,
     Forgotten, Undone, PairedPushed, PairingEnded, MovedOn, TokenRetried, Loaded DEF UIStep
<1>3. ASSUME NEW w \in Workers, Deliver(w) \/ ServeStep(w)
      PROVE  PairingInv'
  <2>1. CASE AdvanceReplayCounter(w) /\ CanAdvance(w)
    BY <2>1, Advanced
  <2>2. CASE AdvanceReplayCounter(w) /\ ~CanAdvance(w)
    BY <2>2, ServedOn DEF AdvanceReplayCounter, MarkerSaved, MarkerUnsaved
  <2>3. CASE ~AdvanceReplayCounter(w)
    BY <1>3, <2>3, ServedOn DEF ServeStep
  <2> QED
    BY <2>1, <2>2, <2>3
<1>4. CASE UNCHANGED vars
  BY <1>4, Values, Framed DEF vars, disk, service, pool, Kept, Active, AllIdle, IInv
<1> QED
  BY <1>1, <1>2, <1>3, <1>4 DEF Next

\* The invariant holds in every state of the program.
THEOREM PairingHolds == PairingSaves => (Spec => []PairingInv)
<1> SUFFICES ASSUME PairingSaves PROVE Spec => []PairingInv
  OBVIOUS
<1>1. Init => IInv /\ PairingInv
  BY Initially, PairedInitially
<1>2. IInv /\ PairingInv /\ [Next]_vars => (IInv /\ PairingInv)'
  BY PairingStep, Inductive
<1> QED
  BY <1>1, <1>2, PTL DEF Spec

\* A restart would not forget an accepted counter: while the store and the
\* configuration would serve a token, its marker covers what was accepted
\* (loadReplayState, advanceReplayCounter).
THEOREM RestartsRemember == PairingSaves => (Spec => []RestartRemembers)
<1> SUFFICES ASSUME PairingSaves PROVE Spec => []RestartRemembers
  OBVIOUS
<1>1. IInv /\ PairingInv => RestartRemembers
  <2> SUFFICES ASSUME IInv, PairingInv, NEW ws \in Workspaces, Kept[ws] # NoToken,
                      NEW i \in 1..Len(accepted[Kept[ws]])
               PROVE  marker[ws].token = Kept[ws] /\ accepted[Kept[ws]][i] <= marker[ws].counter
    BY Values DEF RestartRemembers, IInv
  <2>1. Kept[ws] \notin Unused
    BY DEF Unused
  <2>2. /\ marker[ws].token = Kept[ws] /\ marker[ws].counter \in Bounds[Kept[ws]]
        /\ Kept[ws] \in Tokens
    BY <2>1, Values DEF PairingInv, MarkersCover, IInv
  <2> QED
    BY <2>2 DEF Bounds
<1> QED
  BY <1>1, InvariantHolds, PairingHolds, PTL

\* Between operations, a running service serves the pairing the application
\* has, and one whose token is stored (restartDeviceService and every caller of
\* setDeviceCredentials).
THEOREM StoredPairingIsServed == PairingSaves => (Spec => []ServesStoredPairing)
<1> SUFFICES ASSUME PairingSaves PROVE Spec => []ServesStoredPairing
  OBVIOUS
<1>1. IInv /\ PairingInv => ServesStoredPairing
  BY Values
  DEF IInv, PairingInv, ActiveServes, TokenStored, Active, AgreeSteps, UnstoredSteps, Kept,
      ServesStoredPairing
<1> QED
  BY <1>1, InvariantHolds, PairingHolds, PTL

\* Only a saved marker lets a request be accepted.
LEMMA OnlySavedIsAccepted ==
  ASSUME IInv, Next, accepted' # accepted
  PROVE  \E w \in Workers : AdvanceReplayCounter(w) /\ MarkerSaved(w)
<1>1. CASE Requested \/ UIStep
  BY <1>1
  DEF Requested, UIStep, StartApp, Crash, AdoptDevice, BeginRestart, BeginRotation, BeginPairing,
      BeginRetry, BeginSwitch, RestartService, PushAdopted, PushCredentials, RotateConfig,
      RotateToken, RotateForget, PairingConfig, PairingToken, PairingPaired, PairingForget,
      PairingUndo, PairingSet, PairingEnd, RetryConfig, RetryToken, SwitchSave, SwitchWorkspace,
      SwitchSet
<1>2. ASSUME NEW w \in Workers, Deliver(w) \/ ServeStep(w)
      PROVE  AdvanceReplayCounter(w) /\ MarkerSaved(w)
  BY <1>2 DEF Deliver, ServeStep, Authenticate, EnterCallback, CallbackReturns,
     ReleaseReplayCounter, AdvanceReplayCounter, MarkerUnsaved, MarkerRefused
<1> QED
  BY <1>1, <1>2 DEF Next

\* Under one token the accepted counters only go up: across restarts, crashes,
\* failed saves, pairings and changes of workspace (reserveReplayCounter,
\* advanceReplayCounter, loadReplayState and every caller of setDeviceCredentials).
THEOREM AcceptedGoUp == PairingSaves => (Spec => CountersGoUp)
<1> SUFFICES ASSUME PairingSaves PROVE Spec => CountersGoUp
  OBVIOUS
<1>1. Init => Log!Init
  BY DEF Init, Log!Init
<1>2. IInv /\ PairingInv /\ [Next]_vars => [Log!Next]_accepted
  <2> SUFFICES ASSUME IInv, PairingInv, Next, accepted' # accepted PROVE Log!Next
    BY DEF vars
  <2>1. PICK w \in Workers : AdvanceReplayCounter(w) /\ MarkerSaved(w)
    BY OnlySavedIsAccepted
  <2> DEFINE t == server.token
             c == workers[w].counter
  <2>2. /\ t \in Tokens /\ workers[w].token = t /\ server.valid /\ Active
        /\ accepted' = [accepted EXCEPT ![t] = Append(@, c)]
    BY <2>1, Values, WorkerFrame
    DEF AdvanceReplayCounter, MarkerSaved, CanAdvance, Log200, IInv, ServiceInv, EpochTells,
        Serving, ServeStep
  <2>3. c \in Counters /\ c > server.last /\ c \in Nat /\ server.last \in Nat
    BY <2>1, Kinds, Values
    DEF AdvanceReplayCounter, MarkerSaved, CanAdvance, IInv, Typed, PoolTyped, RequestTaken
  <2>4. \A i \in 1..Len(accepted[t]) : accepted[t][i] < c
    <3>1. accepted[t] \in Seq(Counters)
      BY <2>2 DEF IInv, Typed, StoreTyped
    <3>2. \A i \in 1..Len(accepted[t]) : accepted[t][i] \in Nat
      BY <3>1, BoundsAssumption DEF Counters
    <3>3. server.last \in Bounds[t]
      BY <2>2 DEF PairingInv, ActiveServes
    <3> QED
      BY <2>2, <2>3, <3>2, <3>3 DEF Bounds
  <2> QED
    BY <2>2, <2>3, <2>4 DEF Log!Next, Log!Accept
<1> QED
  BY <1>1, <1>2, InvariantHolds, PairingHolds, PTL DEF Spec, CountersGoUp, Log!Spec
=============================================================================
