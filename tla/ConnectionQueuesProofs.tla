----------------------- MODULE ConnectionQueuesProofs -----------------------
(***************************************************************************)
(* For any number of connections, addresses and workers and any limits,    *)
(* the counts under pendingClientMutex_ are those of the connections that  *)
(* hold a slot, and every open socket has exactly one owner.               *)
(*                                                                         *)
(* A step either moves connections between the places that hold a slot, or *)
(* adds one (QueueAccepted), or takes one away (ReleasePendingSlot).  That *)
(* the one added has no slot yet and the one taken away has exactly one is *)
(* what the invariant has to say besides: the places are disjoint, and a   *)
(* connection has been accepted before it can have a slot.                 *)
(***************************************************************************)
EXTENDS ConnectionQueues, TLAPS, FiniteSetTheorems

Releasing == {"release", "handover", "failed", "drained"}

Typed ==
  /\ fate \in [Clients -> {"none", "backlog", "open", "closed"}]
  /\ pendingClientQueue \subseteq Clients /\ pending \subseteq Clients
  /\ pendingClientCount \in Nat
  /\ pendingClientsPerAddress \in [Addresses -> Nat]

\* The places of a slot are disjoint, and a round looks at pending ones only.
Apart ==
  /\ pending \cap pendingClientQueue = {}
  /\ reader \in Releasing => held \in Clients \ (pending \cup pendingClientQueue)
  /\ todo \subseteq pending
  /\ reader \in {"fail", "failed", "drain", "drained"} => todo = {}

\* A connection is accepted before it has a slot, and has none before it is queued.
Entered ==
  /\ \A c \in Slots : fate[c] \in {"open", "closed"}
  /\ acceptor = "queue" => accepted \in Clients \ Slots /\ fate[accepted] \in {"open", "closed"}

\* The threads a stop has joined have ended.
Joined ==
  /\ service \in {"down", "reader", "notify", "workers"} => acceptor = "done"
  /\ service \in {"down", "notify", "workers"} => reader = "done"

Placed == Typed /\ Apart /\ Entered /\ Joined

IInv == Placed /\ SlotsAccounted

OfAddress(S, a) == {c \in S : Address[c] = a}

-----------------------------------------------------------------------------

\* One more connection counts once, in all and for its own address.
LEMMA Counted ==
  ASSUME NEW S \in SUBSET Clients, NEW c \in Clients \ S
  PROVE  /\ IsFiniteSet(S) /\ Cardinality(S) \in Nat
         /\ Cardinality(S \cup {c}) = Cardinality(S) + 1
         /\ \A a \in Addresses :
              /\ Cardinality(OfAddress(S, a)) \in Nat
              /\ Cardinality(OfAddress(S \cup {c}, a)) =
                   Cardinality(OfAddress(S, a)) + (IF Address[c] = a THEN 1 ELSE 0)
<1>1. IsFiniteSet(S) /\ Cardinality(S) \in Nat
  BY QueuesAssumption, FS_Subset, FS_CardinalityType
<1>2. Cardinality(S \cup {c}) = Cardinality(S) + 1
  BY <1>1, FS_AddElement
<1>3. ASSUME NEW a \in Addresses
      PROVE  /\ Cardinality(OfAddress(S, a)) \in Nat
             /\ Cardinality(OfAddress(S \cup {c}, a)) =
                  Cardinality(OfAddress(S, a)) + (IF Address[c] = a THEN 1 ELSE 0)
  <2>1. IsFiniteSet(OfAddress(S, a)) /\ Cardinality(OfAddress(S, a)) \in Nat
    BY <1>1, FS_Subset, FS_CardinalityType DEF OfAddress
  <2>2. CASE Address[c] = a
    <3>1. OfAddress(S \cup {c}, a) = OfAddress(S, a) \cup {c}
      BY <2>2 DEF OfAddress
    <3>2. c \notin OfAddress(S, a)
      BY DEF OfAddress
    <3> QED
      BY <2>1, <2>2, <3>1, <3>2, FS_AddElement
  <2>3. CASE Address[c] # a
    <3>1. OfAddress(S \cup {c}, a) = OfAddress(S, a)
      BY <2>3 DEF OfAddress
    <3> QED
      BY <2>1, <2>3, <3>1
  <2> QED
    BY <2>2, <2>3
<1> QED
  BY <1>1, <1>2, <1>3

\* A step that keeps the slots and the counts keeps the accounts.
LEMMA SameSlots ==
  ASSUME SlotsAccounted, Slots' = Slots,
         UNCHANGED <<pendingClientCount, pendingClientsPerAddress>>
  PROVE  SlotsAccounted'
BY DEF SlotsAccounted, Addresses

-----------------------------------------------------------------------------

\* Nothing is accepted yet, and no thread runs.
LEMMA Initially == Init => IInv
<1> SUFFICES ASSUME Init PROVE IInv
  OBVIOUS
<1>1. Slots = {}
  BY DEF Init, Slots
<1>2. Placed
  BY <1>1 DEF Init, Placed, Typed, Apart, Entered, Joined, Releasing
<1>3. SlotsAccounted
  <2>1. \A a \in Addresses : {c \in Slots : Address[c] = a} = {}
    BY <1>1
  <2> QED
    BY <1>1, <2>1, FS_EmptySet, QueuesAssumption DEF Init, SlotsAccounted
<1> QED
  BY <1>2, <1>3 DEF IInv

\* Where no connection enters or leaves a slot, the places stay as they should.
LEMMA Quiet ==
  ASSUME IInv,
         \/ AcceptorChecks \/ (\E c \in Clients : Accept(c)) \/ AcceptFails
         \/ RefuseAccepted \/ NotifyReader
         \/ ReaderChecks \/ ReaderRound \/ PushRequest \/ NotifyWorker \/ ReaderGoesOn
         \/ \E c \in Clients : \/ KeepWaiting(c) \/ ClosePending(c) \/ CompleteRequest(c)
                               \/ CloseFailed(c) \/ CloseDrained(c) \/ Connect(c) \/ Expire(c)
         \/ \E w \in Workers : Worker(w)
         \/ Start \/ BeginStop \/ Stop
  PROVE  IInv'
<1> SUFFICES Placed' /\ Slots' = Slots /\ UNCHANGED <<pendingClientCount, pendingClientsPerAddress>>
  BY SameSlots DEF IInv
<1> USE DEF IInv, Placed, Typed, Apart, Entered, Joined, Releasing, Slots, Addresses,
        serviceVars, acceptorVars, readerVars, workerVars, pendings
<1>1. CASE AcceptorChecks
  BY <1>1 DEF AcceptorChecks
<1>2. ASSUME NEW c \in Clients, Accept(c)
      PROVE  Placed' /\ Slots' = Slots /\ UNCHANGED <<pendingClientCount, pendingClientsPerAddress>>
  BY <1>2 DEF Accept, Close
<1>3. CASE AcceptFails
  BY <1>3 DEF AcceptFails
<1>4. CASE RefuseAccepted
  BY <1>4 DEF RefuseAccepted, Close
<1>5. CASE NotifyReader
  BY <1>5 DEF NotifyReader, ReaderWoken
<1>6. CASE ReaderChecks
  BY <1>6 DEF ReaderChecks
<1>7. CASE ReaderRound
  BY <1>7 DEF ReaderRound
<1>8. CASE PushRequest
  BY <1>8 DEF PushRequest, Close
<1>9. CASE NotifyWorker
  BY <1>9 DEF NotifyWorker
<1>10. CASE ReaderGoesOn
  BY <1>10 DEF ReaderGoesOn
<1>11. ASSUME NEW c \in Clients, KeepWaiting(c)
       PROVE  Placed' /\ Slots' = Slots /\ UNCHANGED <<pendingClientCount, pendingClientsPerAddress>>
  BY <1>11 DEF KeepWaiting
<1>12. ASSUME NEW c \in Clients, ClosePending(c)
       PROVE  Placed' /\ Slots' = Slots /\ UNCHANGED <<pendingClientCount, pendingClientsPerAddress>>
  BY <1>12 DEF ClosePending, TakeOut, Close
<1>13. ASSUME NEW c \in Clients, CompleteRequest(c)
       PROVE  Placed' /\ Slots' = Slots /\ UNCHANGED <<pendingClientCount, pendingClientsPerAddress>>
  BY <1>13 DEF CompleteRequest, TakeOut
<1>14. ASSUME NEW c \in Clients, CloseFailed(c)
       PROVE  Placed' /\ Slots' = Slots /\ UNCHANGED <<pendingClientCount, pendingClientsPerAddress>>
  BY <1>14 DEF CloseFailed, TakeOut, Close
<1>15. ASSUME NEW c \in Clients, CloseDrained(c)
       PROVE  Placed' /\ Slots' = Slots /\ UNCHANGED <<pendingClientCount, pendingClientsPerAddress>>
  BY <1>15 DEF CloseDrained, TakeOut, Close
<1>16. ASSUME NEW c \in Clients, Connect(c)
       PROVE  Placed' /\ Slots' = Slots /\ UNCHANGED <<pendingClientCount, pendingClientsPerAddress>>
  BY <1>16 DEF Connect
<1>17. ASSUME NEW c \in Clients, Expire(c)
       PROVE  Placed' /\ Slots' = Slots /\ UNCHANGED <<pendingClientCount, pendingClientsPerAddress>>
  BY <1>17 DEF Expire
<1>18. ASSUME NEW w \in Workers, Worker(w)
       PROVE  Placed' /\ Slots' = Slots /\ UNCHANGED <<pendingClientCount, pendingClientsPerAddress>>
  BY <1>18 DEF Worker, TakeRequest, WorkerWaits, Serve, Close
<1>19. CASE Start
  BY <1>19 DEF Start
<1>20. CASE BeginStop
  BY <1>20 DEF BeginStop
<1>21. CASE CloseListener
  BY <1>21 DEF CloseListener
<1>22. CASE WakeReader
  BY <1>22 DEF WakeReader, ReaderWoken
<1>23. CASE CloseRequests
  BY <1>23 DEF CloseRequests
<1>24. CASE WakeWorkers
  BY <1>24 DEF WakeWorkers
<1>25. CASE EndStop
  BY <1>25 DEF EndStop
<1> QED
  BY <1>1, <1>2, <1>3, <1>4, <1>5, <1>6, <1>7, <1>8, <1>9, <1>10, <1>11, <1>12, <1>13, <1>14,
     <1>15, <1>16, <1>17, <1>18, <1>19, <1>20, <1>21, <1>22, <1>23, <1>24, <1>25 DEF Stop

\* A connection is queued: it had no slot, and now has one.
LEMMA Queued ==
  ASSUME IInv, QueueAccepted
  PROVE  IInv'
<1> USE DEF Slots, Releasing
<1>1. accepted \in Clients \ Slots /\ Slots \in SUBSET Clients
  BY DEF IInv, Placed, Entered, Typed, Apart, QueueAccepted
<1>2. Slots' = Slots \cup {accepted}
  BY DEF QueueAccepted, readerVars
<1>3. Placed'
  BY <1>1, <1>2 DEF IInv, Placed, Typed, Apart, Entered, Joined, QueueAccepted, readerVars,
     serviceVars, Addresses
<1>4. SlotsAccounted'
  <2>1. /\ pendingClientCount' = Cardinality(Slots) + 1
        /\ Cardinality(Slots) < MaxQueued
        /\ \A a \in Addresses :
             pendingClientsPerAddress'[a] =
               Cardinality(OfAddress(Slots, a)) + (IF Address[accepted] = a THEN 1 ELSE 0)
        /\ Cardinality(OfAddress(Slots, Address[accepted])) < MaxPerAddress
    BY <1>1 DEF IInv, Placed, Typed, SlotsAccounted, QueueAccepted, Admissible, Addresses, OfAddress
  <2>2. \A a \in Addresses : Cardinality(OfAddress(Slots, a)) <= MaxPerAddress
    BY DEF IInv, SlotsAccounted, OfAddress
  <2>3. /\ pendingClientCount' = Cardinality(Slots') /\ Cardinality(Slots') <= MaxQueued
        /\ \A a \in Addresses :
             /\ pendingClientsPerAddress'[a] = Cardinality(OfAddress(Slots', a))
             /\ Cardinality(OfAddress(Slots', a)) <= MaxPerAddress
    <3> DEFINE S == Slots
    <3> HIDE DEF S, Slots
    <3>1. S \in SUBSET Clients /\ accepted \in Clients \ S
      BY <1>1 DEF S
    <3>2. /\ Cardinality(S) \in Nat
          /\ Cardinality(S \cup {accepted}) = Cardinality(S) + 1
          /\ \A a \in Addresses :
               /\ Cardinality(OfAddress(S, a)) \in Nat
               /\ Cardinality(OfAddress(S \cup {accepted}, a)) =
                    Cardinality(OfAddress(S, a)) + (IF Address[accepted] = a THEN 1 ELSE 0)
      BY <3>1, Counted
    <3>3. Slots' = S \cup {accepted}
      BY <1>2 DEF S
    <3>4. /\ pendingClientCount' = Cardinality(S) + 1
          /\ Cardinality(S) < MaxQueued
          /\ \A a \in Addresses :
               /\ pendingClientsPerAddress'[a] =
                    Cardinality(OfAddress(S, a)) + (IF Address[accepted] = a THEN 1 ELSE 0)
               /\ Cardinality(OfAddress(S, a)) <= MaxPerAddress
          /\ Cardinality(OfAddress(S, Address[accepted])) < MaxPerAddress
      BY <2>1, <2>2 DEF S
    <3>5. ASSUME NEW a \in Addresses
          PROVE  /\ pendingClientsPerAddress'[a] = Cardinality(OfAddress(S \cup {accepted}, a))
                 /\ Cardinality(OfAddress(S \cup {accepted}, a)) <= MaxPerAddress
      <4>1. CASE Address[accepted] = a
        BY <4>1, <3>2, <3>4, QueuesAssumption
      <4>2. CASE Address[accepted] # a
        <5>1. Cardinality(OfAddress(S \cup {accepted}, a)) = Cardinality(OfAddress(S, a))
          BY <4>2, <3>2
        <5>2. pendingClientsPerAddress'[a] = Cardinality(OfAddress(S, a))
          BY <4>2, <3>2, <3>4
        <5> QED
          BY <5>1, <5>2, <3>4
      <4> QED
        BY <4>1, <4>2
    <3>6. /\ pendingClientCount' = Cardinality(S \cup {accepted})
          /\ Cardinality(S \cup {accepted}) <= MaxQueued
      BY <3>2, <3>4, QueuesAssumption
    <3> QED
      BY <3>3, <3>5, <3>6
  <2> QED
    BY <2>3 DEF SlotsAccounted, OfAddress, Addresses
<1> QED
  BY <1>3, <1>4 DEF IInv

\* A slot is given back: the connection has it, and then no place has it.
LEMMA Released ==
  ASSUME IInv, ReleasePendingSlot
  PROVE  IInv'
<1> DEFINE S == pendingClientQueue \cup pending
<1>1. /\ held \in Clients \ S /\ S \in SUBSET Clients
      /\ Slots = S \cup {held}
  BY DEF IInv, Placed, Typed, Apart, ReleasePendingSlot, Slots, Releasing
<1>2. Slots' = S
  BY DEF ReleasePendingSlot, Slots
<1>3. Placed'
  BY <1>1, <1>2 DEF IInv, Placed, Typed, Apart, Entered, Joined, ReleasePendingSlot, Releasing,
     serviceVars, acceptorVars, Addresses
<1>4. SlotsAccounted'
  <2> HIDE DEF S
  <2>1. /\ pendingClientCount = Cardinality(S) + 1 /\ Cardinality(S) \in Nat
        /\ pendingClientCount <= MaxQueued
        /\ \A a \in Addresses :
             /\ pendingClientsPerAddress[a] =
                  Cardinality(OfAddress(S, a)) + (IF Address[held] = a THEN 1 ELSE 0)
             /\ Cardinality(OfAddress(S, a)) \in Nat
             /\ pendingClientsPerAddress[a] <= MaxPerAddress
    <3>1. S \in SUBSET Clients /\ held \in Clients \ S
      BY <1>1
    <3>2. /\ Cardinality(S) \in Nat
          /\ Cardinality(S \cup {held}) = Cardinality(S) + 1
          /\ \A a \in Addresses :
               /\ Cardinality(OfAddress(S, a)) \in Nat
               /\ Cardinality(OfAddress(S \cup {held}, a)) =
                    Cardinality(OfAddress(S, a)) + (IF Address[held] = a THEN 1 ELSE 0)
      BY <3>1, Counted
    <3>3. /\ pendingClientCount = Cardinality(S \cup {held}) /\ pendingClientCount <= MaxQueued
          /\ \A a \in Addresses :
               /\ pendingClientsPerAddress[a] = Cardinality(OfAddress(S \cup {held}, a))
               /\ pendingClientsPerAddress[a] <= MaxPerAddress
      BY <1>1 DEF IInv, SlotsAccounted, OfAddress
    <3> QED
      BY <3>2, <3>3
  <2>2. /\ pendingClientCount' = Cardinality(S) /\ Cardinality(S) <= MaxQueued
        /\ \A a \in Addresses :
             /\ pendingClientsPerAddress'[a] = Cardinality(OfAddress(S, a))
             /\ Cardinality(OfAddress(S, a)) <= MaxPerAddress
    BY <1>1, <2>1, QueuesAssumption DEF ReleasePendingSlot, IInv, Placed, Typed, Addresses
  <2> QED
    BY <1>2, <2>2 DEF SlotsAccounted, OfAddress, Addresses
<1> QED
  BY <1>3, <1>4 DEF IInv

\* Every action keeps the invariant.
THEOREM Inductive == IInv /\ [Next]_vars => IInv'
<1> SUFFICES ASSUME IInv, [Next]_vars PROVE IInv'
  OBVIOUS
<1>1. CASE QueueAccepted
  BY <1>1, Queued
<1>2. CASE ReleasePendingSlot
  BY <1>2, Released
<1>3. CASE UNCHANGED vars
  <2>1. UNCHANGED <<serviceVars, acceptorVars, readerVars, workerVars, pendings>>
    BY <1>3 DEF vars, serviceVars, acceptorVars, readerVars, workerVars, pendings
  <2>2. Slots' = Slots /\ UNCHANGED <<pendingClientCount, pendingClientsPerAddress>>
    BY <1>3 DEF vars, acceptorVars, readerVars, pendings, Slots
  <2>3. Typed'
    BY <1>3 DEF vars, serviceVars, acceptorVars, readerVars, workerVars, pendings, IInv, Placed,
       Typed, Addresses
  <2>4. Apart' /\ Entered' /\ Joined'
    BY <1>3, <2>2 DEF vars, serviceVars, acceptorVars, readerVars, pendings, IInv, Placed,
       Apart, Entered, Joined
  <2> QED
    BY <2>2, <2>3, <2>4, SameSlots DEF IInv, Placed
<1>4. CASE Next /\ ~QueueAccepted /\ ~ReleasePendingSlot
  BY <1>4, Quiet DEF Next, Acceptor, Reader
<1> QED
  BY <1>1, <1>2, <1>3, <1>4

\* The invariant holds in every state of the service.
THEOREM InvariantHolds == Spec => []IInv
BY Initially, Inductive, PTL DEF Spec

\* The counts are those of the connections that hold a slot and stay within the
\* limits (LocalHttpServer::acceptLoop and readerLoop).
THEOREM SlotsAreAccounted == Spec => []SlotsAccounted
<1>1. IInv => SlotsAccounted
  BY DEF IInv
<1> QED
  BY <1>1, InvariantHolds, PTL

-----------------------------------------------------------------------------
(* The owners of the sockets *)

\* Each thread has a connection exactly where its code has one in hand.
InHand ==
  /\ accepted \in Clients \cup {Nobody}
  /\ acceptor = "queue" <=> accepted \in Clients
  /\ held \in Clients \cup {Nobody}
  /\ reader \in Releasing \cup {"push"} <=> held \in Clients
  /\ clientQueue \in Seq(Clients)
  /\ worker \in [Workers -> {"check", "waiting", "serve", "done"}]
  /\ serving \in [Workers -> Clients \cup {Nobody}]
  /\ \A w \in Workers : worker[w] = "serve" <=> serving[w] \in Clients
  /\ service = "down" => \A w \in Workers : worker[w] = "done"

HandedOver == IF reader \in {"handover", "push"} THEN {held} ELSE {}
Complete == {clientQueue[n] : n \in DOMAIN clientQueue}
Served == {serving[w] : w \in Workers} \cap Clients

\* No two threads or queues have the same socket.
Exclusive ==
  /\ pending \cap pendingClientQueue = {}
  /\ accepted \notin pending \cup pendingClientQueue
  /\ HandedOver \cap (pending \cup pendingClientQueue \cup {accepted}) = {}
  /\ Complete \cap (pending \cup pendingClientQueue \cup {accepted} \cup HandedOver) = {}
  /\ Served \cap (pending \cup pendingClientQueue \cup {accepted} \cup HandedOver \cup Complete) = {}

\* ... nor one of them twice.
Once ==
  /\ \A m, n \in DOMAIN clientQueue : clientQueue[m] = clientQueue[n] => m = n
  /\ \A v, w \in Workers : serving[v] = serving[w] /\ serving[v] \in Clients => v = w

\* What is open is what they have.
OpenIsOwned ==
  \A c \in Clients :
    fate[c] = "open" <=>
      c \in pending \cup pendingClientQueue \cup {accepted} \cup HandedOver \cup Complete \cup Served

OwnedInv == InHand /\ Exclusive /\ Once /\ OpenIsOwned

\* Nothing is open yet.
LEMMA OwnedInitially == Init => OwnedInv
BY QueuesAssumption DEF Init, OwnedInv, InHand, Exclusive, Once, OpenIsOwned, HandedOver,
   Complete, Served, Releasing

\* A thread has a connection in hand from when it gets one until it passes it on.
LEMMA HandsStep ==
  ASSUME IInv, InHand, [Next]_vars
  PROVE  InHand'
<1> USE QueuesAssumption DEF IInv, Placed, Typed, Apart, Joined, InHand, Releasing,
        serviceVars, acceptorVars, readerVars, workerVars, pendings
<1>1. CASE Acceptor
  BY <1>1 DEF Acceptor, AcceptorChecks, Accept, AcceptFails, QueueAccepted, RefuseAccepted,
     NotifyReader, ReaderWoken
<1>2. CASE ReaderChecks \/ ReaderRound \/ NotifyWorker \/ ReaderGoesOn
  BY <1>2 DEF ReaderChecks, ReaderRound, NotifyWorker, ReaderGoesOn
<1>3. CASE ReleasePendingSlot
  BY <1>3 DEF ReleasePendingSlot
<1>4. CASE PushRequest
  <2>1. held \in Clients /\ Append(clientQueue, held) \in Seq(Clients)
    BY <1>4 DEF PushRequest
  <2>2. clientQueue' \in Seq(Clients) /\ held' = Nobody /\ reader' \in {"notify", "scan"}
    BY <1>4, <2>1 DEF PushRequest
  <2> QED
    BY <1>4, <2>2 DEF PushRequest
<1>5. ASSUME NEW c \in Clients,
             \/ KeepWaiting(c) \/ ClosePending(c) \/ CompleteRequest(c)
             \/ CloseFailed(c) \/ CloseDrained(c)
      PROVE  InHand'
  BY <1>5 DEF KeepWaiting, ClosePending, CompleteRequest, CloseFailed, CloseDrained, TakeOut
<1>6. ASSUME NEW w \in Workers, TakeRequest(w) PROVE InHand'
  <2>1. Head(clientQueue) \in Clients /\ Tail(clientQueue) \in Seq(Clients)
    BY <1>6 DEF TakeRequest
  <2> QED
    BY <1>6, <2>1 DEF TakeRequest
<1>7. ASSUME NEW w \in Workers, WorkerWaits(w) \/ Serve(w) PROVE InHand'
  BY <1>7 DEF WorkerWaits, Serve
<1>8. CASE Start \/ BeginStop
  BY <1>8 DEF Start, BeginStop
<1>9. CASE Stop
  <2>1. CASE CloseListener \/ WakeReader \/ WakeWorkers \/ EndStop
    BY <2>1 DEF CloseListener, WakeReader, ReaderWoken, WakeWorkers, EndStop
  <2>2. CASE CloseRequests
    <3>1. clientQueue' \in Seq(Clients)
      BY <2>2 DEF CloseRequests
    <3> QED
      BY <2>2, <3>1 DEF CloseRequests
  <2> QED
    BY <1>9, <2>1, <2>2 DEF Stop
<1>10. CASE (\E c \in Clients : Connect(c) \/ Expire(c)) \/ UNCHANGED vars
  BY <1>10 DEF Connect, Expire, vars
<1> QED
  BY <1>1, <1>2, <1>3, <1>4, <1>5, <1>6, <1>7, <1>8, <1>9, <1>10 DEF Next, Reader, Worker

\* Requests and what is served are the same unless a step touches them.
LEMMA SameRequests ==
  ASSUME Once, UNCHANGED <<clientQueue, serving>>
  PROVE  Once' /\ Complete' = Complete /\ Served' = Served
BY DEF Once, Complete, Served

\* A step hands a socket on whole, or closes the one in hand.
LEMMA OwnedStep ==
  ASSUME IInv, OwnedInv, [Next]_vars
  PROVE  OwnedInv'
<1> SUFFICES Exclusive' /\ Once' /\ OpenIsOwned'
  BY HandsStep DEF OwnedInv
<1> DEFINE Goal == Exclusive' /\ Once' /\ OpenIsOwned'
<1> USE QueuesAssumption DEF IInv, Placed, Typed, Apart, OwnedInv, InHand, Releasing,
        serviceVars, acceptorVars, readerVars, workerVars, pendings
<1>0. Complete \subseteq Clients /\ Served \subseteq Clients /\ HandedOver \subseteq Clients
  <2>1. \A n \in DOMAIN clientQueue : clientQueue[n] \in Clients
    OBVIOUS
  <2> QED
    BY <2>1 DEF Complete, Served, HandedOver
<1>1. CASE UNCHANGED <<clientQueue, serving>>
  <2>1. Once' /\ Complete' = Complete /\ Served' = Served
    BY <1>1, SameRequests
  <2>2. CASE AcceptorChecks \/ AcceptFails \/ NotifyReader
    BY <2>1, <2>2 DEF AcceptorChecks, AcceptFails, NotifyReader, ReaderWoken, Exclusive,
       OpenIsOwned, HandedOver
  <2>3. ASSUME NEW c \in Clients, Accept(c) PROVE Goal
    BY <2>1, <2>3 DEF Accept, Close, Exclusive, OpenIsOwned, HandedOver
  <2>4. CASE QueueAccepted \/ RefuseAccepted
    <3>1. HandedOver' = HandedOver /\ accepted \in Clients /\ accepted' = Nobody
      BY <2>4 DEF QueueAccepted, RefuseAccepted, HandedOver
    <3>2. CASE QueueAccepted
      BY <1>0, <2>1, <3>1, <3>2 DEF QueueAccepted, Exclusive, OpenIsOwned
    <3>3. CASE RefuseAccepted
      BY <1>0, <2>1, <3>1, <3>3 DEF RefuseAccepted, Close, Exclusive, OpenIsOwned
    <3> QED
      BY <2>4, <3>2, <3>3
  <2>5. CASE ReaderChecks \/ ReaderRound \/ NotifyWorker \/ ReaderGoesOn \/ ReleasePendingSlot
    BY <2>1, <2>5 DEF ReaderChecks, ReaderRound, NotifyWorker, ReaderGoesOn, ReleasePendingSlot,
       Exclusive, OpenIsOwned, HandedOver
  <2>6. ASSUME NEW c \in Clients, KeepWaiting(c) \/ Connect(c) \/ Expire(c) PROVE Goal
    BY <2>1, <2>6 DEF KeepWaiting, Connect, Expire, Exclusive, OpenIsOwned, HandedOver
  <2>7. ASSUME NEW c \in Clients, ClosePending(c) PROVE Goal
    BY <2>1, <2>7 DEF ClosePending, TakeOut, Close, Exclusive, OpenIsOwned, HandedOver
  <2>8. ASSUME NEW c \in Clients, CompleteRequest(c) PROVE Goal
    BY <2>1, <2>8 DEF CompleteRequest, TakeOut, Exclusive, OpenIsOwned, HandedOver
  <2>9. ASSUME NEW c \in Clients, CloseFailed(c) \/ CloseDrained(c) PROVE Goal
    BY <2>1, <2>9 DEF CloseFailed, CloseDrained, TakeOut, Close, Exclusive, OpenIsOwned, HandedOver
  <2>10. CASE PushRequest
    BY <1>1, <2>1, <2>10 DEF PushRequest, Close, Exclusive, OpenIsOwned, HandedOver
  <2>11. CASE \E w \in Workers : WorkerWaits(w)
    BY <2>1, <2>11 DEF WorkerWaits, Exclusive, OpenIsOwned, HandedOver
  <2>12. CASE Start \/ BeginStop \/ CloseListener
    BY <2>1, <2>12 DEF Start, BeginStop, CloseListener, Exclusive, OpenIsOwned, HandedOver, Joined
  <2>13. CASE WakeReader \/ WakeWorkers \/ EndStop \/ UNCHANGED vars
    BY <2>1, <2>13 DEF WakeReader, ReaderWoken, WakeWorkers, EndStop, vars, Exclusive,
       OpenIsOwned, HandedOver
  <2>14. ASSUME NEW w \in Workers, TakeRequest(w) \/ Serve(w) PROVE FALSE
    BY <1>1, <2>14 DEF TakeRequest, Serve
  <2>15. CASE CloseRequests
    BY <1>1, <2>1, <2>15 DEF CloseRequests, Range, Exclusive, OpenIsOwned, HandedOver, Complete
  <2> QED
    BY <2>2, <2>3, <2>4, <2>5, <2>6, <2>7, <2>8, <2>9, <2>10, <2>11, <2>12, <2>13, <2>14, <2>15
       DEF Next, Acceptor, Reader, Worker, Stop
<1>2. CASE PushRequest /\ clientQueue' = Append(clientQueue, held)
  <2> DEFINE q == clientQueue
  <2>0. held \in Clients /\ q \in Seq(Clients) /\ q' = Append(q, held) /\ serving' = serving
    BY <1>2 DEF PushRequest
  <2>1. Complete' = Complete \cup {held} /\ Served' = Served
    <3>1. /\ DOMAIN q = 1..Len(q) /\ DOMAIN q' = 1..(Len(q) + 1) /\ Len(q) \in Nat
          /\ q'[Len(q) + 1] = held /\ \A n \in 1..Len(q) : q'[n] = q[n]
      BY <2>0
    <3>2. Complete = {q[n] : n \in 1..Len(q)} /\ Complete' = {q'[n] : n \in 1..(Len(q) + 1)}
      BY <3>1 DEF Complete
    <3>3. 1..(Len(q) + 1) = 1..Len(q) \cup {Len(q) + 1}
      BY <3>1
    <3>4. Complete' = {q'[n] : n \in 1..Len(q)} \cup {q'[Len(q) + 1]}
      BY <3>2, <3>3
    <3>5. {q'[n] : n \in 1..Len(q)} = Complete
      BY <3>1, <3>2
    <3> QED
      BY <2>0, <3>1, <3>4, <3>5 DEF Served
  <2>2. held \in Clients /\ held \in HandedOver /\ held \notin Complete
    <3>1. held \in HandedOver
      BY <1>2 DEF PushRequest, HandedOver
    <3> QED
      BY <2>0, <3>1 DEF Exclusive
  <2>3. Once'
    BY <1>2, <2>2 DEF PushRequest, Once, Complete
  <2>4. UNCHANGED fate /\ HandedOver = {held} /\ HandedOver' = {}
    BY <1>2 DEF PushRequest, HandedOver
  <2> QED
    BY <1>2, <2>1, <2>2, <2>3, <2>4 DEF PushRequest, Exclusive, OpenIsOwned
<1>3. ASSUME NEW w \in Workers, TakeRequest(w) PROVE Goal
  <2> DEFINE c == Head(clientQueue)
  <2>1. clientQueue # <<>> /\ c = clientQueue[1] /\ c \in Clients /\ c \in Complete
    BY <1>3 DEF TakeRequest, Complete
  <2>2. /\ DOMAIN clientQueue' = 1..(Len(clientQueue) - 1)
        /\ \A n \in DOMAIN clientQueue' : clientQueue'[n] = clientQueue[n + 1]
    BY <1>3, <2>1 DEF TakeRequest
  <2>3. Complete' = Complete \ {c}
    <3>1. \A n \in DOMAIN clientQueue : n \in 1..Len(clientQueue) /\ Len(clientQueue) \in Nat
      OBVIOUS
    <3>2. \A n \in DOMAIN clientQueue : clientQueue[n] = c <=> n = 1
      BY <2>1, <3>1 DEF Once
    <3>3. \A n \in DOMAIN clientQueue' : n + 1 \in DOMAIN clientQueue /\ n + 1 # 1
      BY <2>1, <2>2
    <3>4. \A n \in DOMAIN clientQueue :
            n # 1 => n - 1 \in DOMAIN clientQueue' /\ (n - 1) + 1 = n
      BY <2>1, <2>2
    <3>5. Complete' \subseteq Complete \ {c}
      BY <2>2, <3>2, <3>3 DEF Complete
    <3>6. \A n \in DOMAIN clientQueue : n # 1 => clientQueue[n] = clientQueue'[n - 1]
      BY <2>2, <3>4
    <3>7. ASSUME NEW x \in Complete, x # c PROVE x \in Complete'
      <4>1. PICK n \in DOMAIN clientQueue : clientQueue[n] = x
        BY DEF Complete
      <4>2. n # 1
        BY <2>1, <3>7, <4>1
      <4> QED
        BY <3>4, <3>6, <4>1, <4>2 DEF Complete
    <3> QED
      BY <3>5, <3>7
  <2>4. serving[w] \notin Clients /\ serving' = [serving EXCEPT ![w] = c]
    BY <1>3 DEF TakeRequest
  <2>5. Served' = Served \cup {c} /\ c \notin Served
    BY <2>1, <2>4 DEF Served, Exclusive
  <2>6. Once'
    <3>1. \A m, n \in DOMAIN clientQueue' : clientQueue'[m] = clientQueue'[n] => m = n
      <4>1. \A n \in DOMAIN clientQueue' : n \in Nat /\ n + 1 \in DOMAIN clientQueue
        BY <2>1, <2>2
      <4> QED
        BY <2>2, <4>1 DEF Once
    <3>2. \A v \in Workers : v # w => serving'[v] = serving[v] /\ serving[v] # c
      BY <2>1, <2>4, <2>5 DEF Served
    <3>3. \A u, v \in Workers : serving'[u] = serving'[v] /\ serving'[u] \in Clients => u = v
      BY <2>4, <3>2 DEF Once
    <3> QED
      BY <3>1, <3>3 DEF Once
  <2>7. HandedOver' = HandedOver
    BY <1>3 DEF TakeRequest, HandedOver
  <2> HIDE DEF c
  <2> QED
    BY <1>3, <2>1, <2>3, <2>5, <2>6, <2>7 DEF TakeRequest, Exclusive, OpenIsOwned
<1>4. ASSUME NEW w \in Workers, Serve(w) PROVE Goal
  <2>1. serving[w] \in Served /\ serving[w] \in Clients
    BY <1>4 DEF Serve, Served
  <2>2. Served' = Served \ {serving[w]}
    BY <1>4, <2>1 DEF Serve, Served, Once
  <2>3. Complete' = Complete /\ HandedOver' = HandedOver /\ Once'
    BY <1>4 DEF Serve, Complete, HandedOver, Once
  <2> QED
    BY <1>4, <2>1, <2>2, <2>3 DEF Serve, Close, Exclusive, OpenIsOwned
<1>5. CASE CloseRequests
  <2>1. Complete' = {} /\ Served' = Served /\ HandedOver' = HandedOver /\ Once'
    BY <1>5 DEF CloseRequests, Complete, Served, HandedOver, Once
  <2>2. Range(clientQueue) = Complete
    BY DEF Range, Complete
  <2> QED
    BY <1>5, <2>1, <2>2 DEF CloseRequests, Exclusive, OpenIsOwned
<1>6. CASE ~UNCHANGED <<clientQueue, serving>>
  <2> SUFFICES \/ PushRequest /\ clientQueue' = Append(clientQueue, held)
               \/ \E w \in Workers : TakeRequest(w) \/ Serve(w)
               \/ CloseRequests
    BY <1>2, <1>3, <1>4, <1>5
  <2>1. ~Acceptor /\ ~UNCHANGED vars /\ ~Start /\ ~BeginStop
    BY <1>6 DEF Acceptor, AcceptorChecks, Accept, AcceptFails, QueueAccepted, RefuseAccepted,
       NotifyReader, vars, Start, BeginStop
  <2>2. ~CloseListener /\ ~WakeReader /\ ~WakeWorkers /\ ~EndStop
    BY <1>6 DEF CloseListener, WakeReader, WakeWorkers, EndStop
  <2>3. /\ ~ReaderChecks /\ ~ReaderRound /\ ~ReleasePendingSlot /\ ~NotifyWorker /\ ~ReaderGoesOn
        /\ \A c \in Clients : /\ ~KeepWaiting(c) /\ ~ClosePending(c) /\ ~CompleteRequest(c)
                              /\ ~CloseFailed(c) /\ ~CloseDrained(c) /\ ~Connect(c) /\ ~Expire(c)
        /\ \A w \in Workers : ~WorkerWaits(w)
    BY <1>6 DEF ReaderChecks, ReaderRound, ReleasePendingSlot, NotifyWorker, ReaderGoesOn,
       KeepWaiting, ClosePending, CompleteRequest, CloseFailed, CloseDrained, Connect, Expire,
       WorkerWaits
  <2>4. PushRequest => clientQueue' = Append(clientQueue, held)
    BY <1>6 DEF PushRequest
  <2> QED
    BY <2>1, <2>2, <2>3, <2>4 DEF Next, Reader, Worker, Stop
<1> QED
  BY <1>1, <1>6

-----------------------------------------------------------------------------

\* What Owners counts: nothing, or one place.
LEMMA OwnersCounted ==
  ASSUME OwnedInv, NEW c \in Clients
  PROVE  Owners(c) = IF fate[c] = "open" THEN 1 ELSE 0
<1> DEFINE All == {<<"queued", 0>> : x \in {c} \cap pendingClientQueue}
       \cup {<<"complete", n>> : n \in {n \in DOMAIN clientQueue : clientQueue[n] = c}}
       \cup {<<"served", w>> : w \in {w \in Workers : serving[w] = c}}
       \cup {<<"pending", 0>> : x \in {c} \cap pending}
       \cup {<<"accepted", 0>> : x \in {c} \cap {accepted}}
       \cup {<<"handed over", 0>> : x \in {y \in {c} \cap {held} : reader \in {"handover", "push"}}}
<1>1. Owners(c) = Cardinality(All)
  BY DEF Owners
<1> USE DEF OwnedInv, Exclusive, Once, OpenIsOwned, HandedOver, Complete, Served
<1>2. CASE fate[c] # "open"
  <2>1. All = {}
    BY <1>2
  <2> QED
    BY <1>1, <1>2, <2>1, FS_EmptySet
<1>3. CASE fate[c] = "open"
  <2>1. \E o : All = {o}
    <3>1. CASE c \in pendingClientQueue
      <4>1. All = {<<"queued", 0>>}
        BY <3>1
      <4> QED
        BY <4>1
    <3>2. CASE c \in pending
      <4>1. All = {<<"pending", 0>>}
        BY <3>2
      <4> QED
        BY <4>1
    <3>3. CASE c = accepted
      <4>1. All = {<<"accepted", 0>>}
        BY <3>3
      <4> QED
        BY <4>1
    <3>4. CASE c \in HandedOver
      <4>0. /\ c = held /\ reader \in {"handover", "push"}
            /\ c \notin pending \cup pendingClientQueue \cup {accepted}
            /\ \A n \in DOMAIN clientQueue : clientQueue[n] # c
            /\ \A w \in Workers : serving[w] # c
        BY <3>4
      <4> DEFINE K == {y \in {c} \cap {held} : reader \in {"handover", "push"}}
                 Last == {<<"handed over", 0>> : x \in K}
                 Rest == {<<"queued", 0>> : x \in {c} \cap pendingClientQueue}
                   \cup {<<"complete", n>> : n \in {n \in DOMAIN clientQueue : clientQueue[n] = c}}
                   \cup {<<"served", w>> : w \in {w \in Workers : serving[w] = c}}
                   \cup {<<"pending", 0>> : x \in {c} \cap pending}
                   \cup {<<"accepted", 0>> : x \in {c} \cap {accepted}}
      <4>1. K = {c}
        BY <4>0
      <4>2. Rest = {}
        BY <4>0
      <4>3. All = Rest \cup Last
        OBVIOUS
      <4> HIDE DEF K, Rest, All
      <4>4. Last = {<<"handed over", 0>>}
        BY <4>1
      <4> HIDE DEF Last
      <4>5. All = {<<"handed over", 0>>}
        BY <4>2, <4>3, <4>4
      <4> QED
        BY <4>5
    <3>5. CASE c \in Complete
      <4>1. PICK n \in DOMAIN clientQueue : clientQueue[n] = c
        BY <3>5
      <4>2. All = {<<"complete", n>>}
        BY <3>5, <4>1
      <4> QED
        BY <4>2
    <3>6. CASE c \in Served
      <4>1. PICK w \in Workers : serving[w] = c
        BY <3>6
      <4>2. All = {<<"served", w>>}
        BY <3>6, <4>1
      <4> QED
        BY <4>2
    <3> QED
      BY <1>3, <3>1, <3>2, <3>3, <3>4, <3>5, <3>6
  <2> QED
    BY <1>1, <1>3, <2>1, FS_Singleton
<1> QED
  BY <1>2, <1>3

\* An open socket has one owner through every hand-over and every stop, and a
\* closed one none (acceptLoop, readerLoop, workerLoop and LocalHttpServer::stop).
THEOREM SocketsAreOwned == Spec => []SocketsOwned
<1>1. OwnedInv => SocketsOwned
  BY OwnersCounted DEF SocketsOwned
<1>2. IInv /\ OwnedInv /\ [Next]_vars => OwnedInv'
  BY OwnedStep
<1> QED
  BY <1>1, <1>2, OwnedInitially, InvariantHolds, PTL DEF Spec

=============================================================================
