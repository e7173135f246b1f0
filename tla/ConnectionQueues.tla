-------------------------- MODULE ConnectionQueues --------------------------
(***************************************************************************)
(* The connections of the Scan R1 device service (LocalHttpServer): the    *)
(* acceptor, reader and worker threads, the two queues between them, the   *)
(* limits on connections whose request is not complete, and start and stop *)
(* of the service (src/src/platform/scanner/HttpServer.cpp and             *)
(* HttpServerLifecycle.cpp).  What a worker answers is in ScannerService.  *)
(*                                                                         *)
(* One action is one critical section, one closed socket or one notify.  A *)
(* condition variable wakes only a thread that waits when it is notified.  *)
(***************************************************************************)
EXTENDS Naturals, Sequences, FiniteSets, Functions

CONSTANTS
  Clients,          \* connections ever made
  Address,          \* the peer address of each
  Workers,          \* kWorkerCount threads
  Nobody,           \* no connection
  MaxQueued,        \* kMaxQueuedClients
  MaxPerAddress,    \* kMaxPendingPerAddress
  MaxStarts         \* bound: times the service is started

ASSUME QueuesAssumption ==
  /\ Address \in [Clients -> Nat] /\ IsFiniteSet(Clients)
  /\ Nobody \notin Clients
  /\ MaxQueued \in Nat /\ MaxPerAddress \in Nat /\ MaxStarts \in Nat

VARIABLES
  service,     \* the thread that starts and stops: what it does next
  starts,
  running,     \* running_
  listening,   \* listenSocket_ is valid
  fate,        \* of each connection: none, backlog, open or closed
  acceptor, accepted,             \* acceptLoop: what it does next, its connection
  reader, held, todo, pending,    \* readerLoop: the same, clients of this round, pending
  expired,                        \* those of pending whose deadline has passed
  pendingClientQueue,             \* accepted and not yet looked at; its order is of no account
  pendingClientCount, pendingClientsPerAddress,
  clientQueue,
  worker, serving                 \* workerLoop: what each does next, its connection

pendings == <<pendingClientQueue, pendingClientCount, pendingClientsPerAddress>>
acceptorVars == <<acceptor, accepted>>
readerVars == <<reader, held, todo, pending, expired>>
workerVars == <<worker, serving>>
serviceVars == <<service, starts, running, listening>>
vars == <<serviceVars, fate, acceptorVars, readerVars, pendings, clientQueue, workerVars>>

Addresses == {Address[c] : c \in Clients}

TypeOK ==
  /\ service \in {"down", "up", "listener", "acceptor", "reader", "notify", "workers"}
  /\ starts \in 0..MaxStarts
  /\ running \in BOOLEAN /\ listening \in BOOLEAN
  /\ fate \in [Clients -> {"none", "backlog", "open", "closed"}]
  /\ acceptor \in {"check", "accept", "queue", "notify", "done"}
  /\ accepted \in Clients \cup {Nobody}
  /\ reader \in {"check", "waiting", "round", "scan", "release", "handover", "push", "notify",
                 "fail", "failed", "drain", "drained", "done"}
  /\ held \in Clients \cup {Nobody}
  /\ todo \subseteq Clients /\ pending \subseteq Clients /\ expired \subseteq Clients
  /\ pendingClientQueue \subseteq Clients
  /\ pendingClientCount \in Nat
  /\ pendingClientsPerAddress \in [Addresses -> Nat]
  /\ clientQueue \in Seq(Clients)
  /\ worker \in [Workers -> {"check", "waiting", "serve", "done"}]
  /\ serving \in [Workers -> Clients \cup {Nobody}]

Init ==
  /\ service = "down" /\ starts = 0
  /\ running = FALSE /\ listening = FALSE
  /\ fate = [c \in Clients |-> "none"]
  /\ acceptor = "done" /\ accepted = Nobody
  /\ reader = "done" /\ held = Nobody /\ todo = {} /\ pending = {} /\ expired = {}
  /\ pendingClientQueue = {} /\ pendingClientCount = 0
  /\ pendingClientsPerAddress = [a \in Addresses |-> 0]
  /\ clientQueue = <<>>
  /\ worker = [w \in Workers |-> "done"] /\ serving = [w \in Workers |-> Nobody]

Close(c) == fate' = [fate EXCEPT ![c] = "closed"]

-----------------------------------------------------------------------------
(* acceptLoop *)

\* The peer connects; the kernel holds the connection.
Connect(c) ==
  /\ listening /\ fate[c] = "none"
  /\ fate' = [fate EXCEPT ![c] = "backlog"]
  /\ UNCHANGED <<serviceVars, acceptorVars, readerVars, pendings, clientQueue, workerVars>>

AcceptorChecks ==
  /\ acceptor = "check"
  /\ acceptor' = IF running /\ listening THEN "accept" ELSE "done"
  /\ UNCHANGED <<serviceVars, fate, accepted, readerVars, pendings, clientQueue, workerVars>>

\* accept returns a connection, which may be closed at once: too high a
\* descriptor, or it cannot be set non-blocking.
Accept(c) ==
  /\ acceptor = "accept" /\ fate[c] = "backlog"
  /\ \/ fate' = [fate EXCEPT ![c] = "open"] /\ accepted' = c /\ acceptor' = "queue"
     \/ Close(c) /\ acceptor' = "check" /\ UNCHANGED accepted
  /\ UNCHANGED <<serviceVars, readerVars, pendings, clientQueue, workerVars>>

\* The listener was shut down: accept fails.
AcceptFails ==
  /\ acceptor = "accept" /\ ~listening
  /\ acceptor' = IF running THEN "check" ELSE "done"
  /\ UNCHANGED <<serviceVars, fate, accepted, readerVars, pendings, clientQueue, workerVars>>

Admissible(c) ==
  /\ running
  /\ pendingClientCount < MaxQueued
  /\ pendingClientsPerAddress[Address[c]] < MaxPerAddress

QueueAccepted ==
  /\ acceptor = "queue" /\ Admissible(accepted)
  /\ pendingClientQueue' = pendingClientQueue \cup {accepted}
  /\ pendingClientCount' = pendingClientCount + 1
  /\ pendingClientsPerAddress' = [pendingClientsPerAddress EXCEPT ![Address[accepted]] = @ + 1]
  /\ acceptor' = "notify" /\ accepted' = Nobody
  /\ UNCHANGED <<serviceVars, fate, readerVars, clientQueue, workerVars>>

RefuseAccepted ==
  /\ acceptor = "queue" /\ ~Admissible(accepted)
  /\ Close(accepted)
  /\ acceptor' = "check" /\ accepted' = Nobody
  /\ UNCHANGED <<serviceVars, readerVars, pendings, clientQueue, workerVars>>

ReaderWoken == IF reader = "waiting" THEN "check" ELSE reader

NotifyReader ==
  /\ acceptor = "notify" /\ acceptor' = "check"
  /\ reader' = ReaderWoken
  /\ UNCHANGED <<serviceVars, fate, accepted, held, todo, pending, expired, pendings,
                 clientQueue, workerVars>>

-----------------------------------------------------------------------------
(* readerLoop *)

\* Waits with nothing to do, or takes over what was accepted.
ReaderChecks ==
  /\ reader = "check"
  /\ IF pending = {} /\ pendingClientQueue = {} /\ running
       THEN reader' = "waiting" /\ UNCHANGED <<pending, pendingClientQueue>>
       ELSE /\ reader' = "round"
            /\ pending' = pending \cup pendingClientQueue
            /\ pendingClientQueue' = {}
  /\ UNCHANGED <<serviceVars, fate, acceptorVars, held, todo, expired, pendingClientCount,
                 pendingClientsPerAddress, clientQueue, workerVars>>

\* Stops, or asks select, which is repeated when a signal interrupts it; any
\* other failure of it closes all.
ReaderRound ==
  /\ reader = "round"
  /\ reader' \in IF ~running THEN {"drain"}
                 ELSE IF pending = {} THEN {"check"} ELSE {"scan", "fail"}
  /\ todo' = IF reader' = "scan" THEN pending ELSE {}
  /\ UNCHANGED <<serviceVars, fate, acceptorVars, held, pending, expired, pendings,
                 clientQueue, workerVars>>

Expire(c) ==
  /\ c \in pending /\ c \notin expired
  /\ expired' = expired \cup {c}
  /\ UNCHANGED <<serviceVars, fate, acceptorVars, reader, held, todo, pending, pendings,
                 clientQueue, workerVars>>

\* The socket leaves pending; its slot is given back afterwards.
TakeOut(c) == pending' = pending \ {c} /\ expired' = expired \ {c} /\ held' = c

\* Nothing or only a part of the request has arrived in time.
KeepWaiting(c) ==
  /\ reader = "scan" /\ c \in todo \ expired
  /\ todo' = todo \ {c}
  /\ UNCHANGED <<serviceVars, fate, acceptorVars, reader, held, pending, expired, pendings,
                 clientQueue, workerVars>>

\* closePendingClient: the deadline has passed, the peer is gone, receiving
\* failed, or the socket cannot be made blocking again.
ClosePending(c) ==
  /\ reader = "scan" /\ c \in todo
  /\ Close(c) /\ TakeOut(c) /\ todo' = todo \ {c} /\ reader' = "release"
  /\ UNCHANGED <<serviceVars, acceptorVars, pendings, clientQueue, workerVars>>

\* The request is complete, or it can be refused already.
CompleteRequest(c) ==
  /\ reader = "scan" /\ c \in todo \ expired
  /\ TakeOut(c) /\ todo' = todo \ {c} /\ reader' = "handover"
  /\ UNCHANGED <<serviceVars, fate, acceptorVars, pendings, clientQueue, workerVars>>

\* closePendingClient of every client after a failed select.
CloseFailed(c) ==
  /\ reader = "fail" /\ c \in pending
  /\ Close(c) /\ TakeOut(c) /\ reader' = "failed"
  /\ UNCHANGED <<serviceVars, acceptorVars, todo, pendings, clientQueue, workerVars>>

\* ... and when the service stops, of those still queued as well.
CloseDrained(c) ==
  /\ reader = "drain"
  /\ \/ c \in pending /\ UNCHANGED pendingClientQueue
     \/ /\ pending = {} /\ c \in pendingClientQueue
        /\ pendingClientQueue' = pendingClientQueue \ {c}
  /\ Close(c) /\ TakeOut(c) /\ reader' = "drained"
  /\ UNCHANGED <<serviceVars, acceptorVars, todo, pendingClientCount,
                 pendingClientsPerAddress, clientQueue, workerVars>>

\* Mutant of ReleasePendingSlot: only a closed connection gives its slot back.
ReleaseClosedSlot ==
  /\ reader \in {"release", "handover", "failed", "drained"}
  /\ pendingClientCount' = IF reader = "handover" THEN pendingClientCount ELSE pendingClientCount - 1
  /\ pendingClientsPerAddress' =
       [pendingClientsPerAddress EXCEPT ![Address[held]] = IF reader = "handover" THEN @ ELSE @ - 1]
  /\ reader' = CASE reader = "release" -> "scan"
                 [] reader = "handover" -> "push"
                 [] reader = "failed" -> "fail"
                 [] reader = "drained" -> "drain"
  /\ held' = IF reader = "handover" THEN held ELSE Nobody
  /\ UNCHANGED <<serviceVars, fate, acceptorVars, todo, pending, expired, pendingClientQueue,
                 clientQueue, workerVars>>

ReleasePendingSlot ==
  /\ reader \in {"release", "handover", "failed", "drained"}
  /\ pendingClientCount' = IF pendingClientCount > 0 THEN pendingClientCount - 1 ELSE 0
  /\ pendingClientsPerAddress' =
       [pendingClientsPerAddress EXCEPT ![Address[held]] = IF @ > 0 THEN @ - 1 ELSE 0]
  /\ reader' = CASE reader = "release" -> "scan"
                 [] reader = "handover" -> "push"
                 [] reader = "failed" -> "fail"
                 [] reader = "drained" -> "drain"
  /\ held' = IF reader = "handover" THEN held ELSE Nobody
  /\ UNCHANGED <<serviceVars, fate, acceptorVars, todo, pending, expired, pendingClientQueue,
                 clientQueue, workerVars>>

\* To the workers, unless the service stops or they are behind.
PushRequest ==
  /\ reader = "push"
  /\ IF running /\ Len(clientQueue) < MaxQueued
       THEN clientQueue' = Append(clientQueue, held) /\ reader' = "notify" /\ UNCHANGED fate
       ELSE Close(held) /\ reader' = "scan" /\ UNCHANGED clientQueue
  /\ held' = Nobody
  /\ UNCHANGED <<serviceVars, acceptorVars, todo, pending, expired, pendings, workerVars>>

\* Any one of the waiting workers.
NotifyWorker ==
  /\ reader = "notify" /\ reader' = "scan"
  /\ \/ \E w \in Workers : worker[w] = "waiting" /\ worker' = [worker EXCEPT ![w] = "check"]
     \/ (\A w \in Workers : worker[w] # "waiting") /\ UNCHANGED worker
  /\ UNCHANGED <<serviceVars, fate, acceptorVars, held, todo, pending, expired, pendings,
                 clientQueue, serving>>

\* The round is over, the failed select dealt with, or everything closed.
ReaderGoesOn ==
  /\ \/ reader = "scan" /\ todo = {} /\ reader' = "check"
     \/ reader = "fail" /\ pending = {} /\ reader' = "check"
     \/ reader = "drain" /\ pending = {} /\ pendingClientQueue = {} /\ reader' = "done"
  /\ UNCHANGED <<serviceVars, fate, acceptorVars, held, todo, pending, expired, pendings,
                 clientQueue, workerVars>>

-----------------------------------------------------------------------------
(* workerLoop *)

TakeRequest(w) ==
  /\ worker[w] = "check" /\ clientQueue # <<>>
  /\ serving' = [serving EXCEPT ![w] = Head(clientQueue)]
  /\ clientQueue' = Tail(clientQueue)
  /\ worker' = [worker EXCEPT ![w] = "serve"]
  /\ UNCHANGED <<serviceVars, fate, acceptorVars, readerVars, pendings>>

WorkerWaits(w) ==
  /\ worker[w] = "check" /\ clientQueue = <<>>
  /\ worker' = [worker EXCEPT ![w] = IF running THEN "waiting" ELSE "done"]
  /\ UNCHANGED <<serviceVars, fate, acceptorVars, readerVars, pendings, clientQueue, serving>>

\* serveConnection, then the socket is closed.
Serve(w) ==
  /\ worker[w] = "serve"
  /\ Close(serving[w])
  /\ serving' = [serving EXCEPT ![w] = Nobody]
  /\ worker' = [worker EXCEPT ![w] = "check"]
  /\ UNCHANGED <<serviceVars, acceptorVars, readerVars, pendings, clientQueue>>

-----------------------------------------------------------------------------
(* start and stop *)

Start ==
  /\ service = "down" /\ starts < MaxStarts
  /\ service' = "up" /\ starts' = starts + 1
  /\ running' = TRUE /\ listening' = TRUE
  /\ acceptor' = "check" /\ reader' = "check"
  /\ worker' = [w \in Workers |-> "check"]
  /\ UNCHANGED <<fate, accepted, held, todo, pending, expired, pendings, clientQueue, serving>>

BeginStop ==
  /\ service = "up"
  /\ running' = FALSE /\ service' = "listener"
  /\ UNCHANGED <<starts, listening, fate, acceptorVars, readerVars, pendings, clientQueue, workerVars>>

\* The kernel resets the connections that were not accepted.
CloseListener ==
  /\ service = "listener"
  /\ listening' = FALSE /\ service' = "acceptor"
  /\ fate' = [c \in Clients |-> IF fate[c] = "backlog" THEN "closed" ELSE fate[c]]
  /\ UNCHANGED <<starts, running, acceptorVars, readerVars, pendings, clientQueue, workerVars>>

\* Mutant of WakeReader: the reader is left to notice by itself.
ReaderNotWoken ==
  /\ service = "acceptor" /\ acceptor = "done"
  /\ service' = "reader"
  /\ UNCHANGED <<starts, running, listening, fate, acceptorVars, readerVars, pendings,
                 clientQueue, workerVars>>

\* The acceptor is joined and the reader woken.
WakeReader ==
  /\ service = "acceptor" /\ acceptor = "done"
  /\ service' = "reader"
  /\ reader' = ReaderWoken
  /\ UNCHANGED <<starts, running, listening, fate, acceptorVars, held, todo, pending, expired,
                 pendings, clientQueue, workerVars>>

\* Mutant of CloseRequests: the queue is closed where it is, not taken over first.
CloseInPlace ==
  /\ service = "reader" /\ reader = "done"
  /\ fate' = [c \in Clients |-> IF c \in Range(clientQueue) THEN "closed" ELSE fate[c]]
  /\ service' = "notify"
  /\ UNCHANGED <<starts, running, listening, acceptorVars, readerVars, pendings, clientQueue,
                 workerVars>>

\* The reader is joined; the requests no worker has taken are closed.
CloseRequests ==
  /\ service = "reader" /\ reader = "done"
  /\ fate' = [c \in Clients |-> IF c \in Range(clientQueue) THEN "closed" ELSE fate[c]]
  /\ clientQueue' = <<>>
  /\ service' = "notify"
  /\ UNCHANGED <<starts, running, listening, acceptorVars, readerVars, pendings, workerVars>>

WakeWorkers ==
  /\ service = "notify" /\ service' = "workers"
  /\ worker' = [w \in Workers |-> IF worker[w] = "waiting" THEN "check" ELSE worker[w]]
  /\ UNCHANGED <<starts, running, listening, fate, acceptorVars, readerVars, pendings,
                 clientQueue, serving>>

EndStop ==
  /\ service = "workers" /\ \A w \in Workers : worker[w] = "done"
  /\ service' = "down"
  /\ UNCHANGED <<starts, running, listening, fate, acceptorVars, readerVars, pendings,
                 clientQueue, workerVars>>

-----------------------------------------------------------------------------
Acceptor == AcceptorChecks \/ (\E c \in Clients : Accept(c)) \/ AcceptFails
              \/ QueueAccepted \/ RefuseAccepted \/ NotifyReader

Reader ==
  \/ ReaderChecks \/ ReaderRound \/ ReleasePendingSlot \/ PushRequest \/ NotifyWorker \/ ReaderGoesOn
  \/ \E c \in Clients :
       KeepWaiting(c) \/ ClosePending(c) \/ CompleteRequest(c) \/ CloseFailed(c) \/ CloseDrained(c)

Worker(w) == TakeRequest(w) \/ WorkerWaits(w) \/ Serve(w)

Stop == CloseListener \/ WakeReader \/ CloseRequests \/ WakeWorkers \/ EndStop

Next ==
  \/ Acceptor \/ Reader \/ (\E w \in Workers : Worker(w))
  \/ Start \/ BeginStop \/ Stop
  \/ \E c \in Clients : Connect(c) \/ Expire(c)

Spec == Init /\ [][Next]_vars

\* Every thread goes on and time passes; nobody has to connect, start or stop.
Fairness ==
  /\ WF_vars(Acceptor) /\ WF_vars(Reader) /\ WF_vars(Stop)
  /\ \A w \in Workers : WF_vars(Worker(w))
  /\ \A c \in Clients : WF_vars(Expire(c))

FairSpec == Spec /\ Fairness

-----------------------------------------------------------------------------
(* Properties *)

\* The connections that hold a slot: those accepted whose request is not
\* complete, the one whose slot is being given back included.
Slots == pendingClientQueue \cup pending
           \cup {c \in {held} : reader \in {"release", "handover", "failed", "drained"}}

\* The counts under pendingClientMutex_ are those of the connections that hold
\* a slot, in all and for each address, and within the limits: no way out of the
\* reader keeps a slot, which after 16 of them would refuse every device for
\* good, and none gives one back twice, which would lift the limit.
SlotsAccounted ==
  /\ pendingClientCount = Cardinality(Slots) /\ pendingClientCount <= MaxQueued
  /\ \A a \in Addresses :
       /\ pendingClientsPerAddress[a] = Cardinality({c \in Slots : Address[c] = a})
       /\ pendingClientsPerAddress[a] <= MaxPerAddress

\* How many of the threads and queues hold the socket.
Owners(c) ==
  Cardinality({<<"queued", 0>> : x \in {c} \cap pendingClientQueue}
       \cup {<<"complete", n>> : n \in {n \in DOMAIN clientQueue : clientQueue[n] = c}}
       \cup {<<"served", w>> : w \in {w \in Workers : serving[w] = c}}
       \cup {<<"pending", 0>> : x \in {c} \cap pending}
       \cup {<<"accepted", 0>> : x \in {c} \cap {accepted}}
       \cup {<<"handed over", 0>> : x \in {y \in {c} \cap {held} : reader \in {"handover", "push"}}})

\* An open socket is owned by exactly one thread or queue, through every
\* hand-over and every stop, and a closed one by none: no descriptor is leaked,
\* and none is closed twice, when it may be another connection's by then.
SocketsOwned ==
  \A c \in Clients : Owners(c) = IF fate[c] = "open" THEN 1 ELSE 0

\* A stop always returns, whatever was under way, and every connection is closed
\* in the end, also of a peer that sends nothing: no thread sleeps through what it
\* waits for.
NothingSleeps ==
  /\ service = "listener" ~> service = "down"
  /\ \A c \in Clients : fate[c] \in {"backlog", "open"} ~> fate[c] = "closed"

=============================================================================
