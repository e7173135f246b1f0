------------------------- MODULE DeviceInboxProofs --------------------------
(***************************************************************************)
(* For every choice of sessions, hence of bounds: no scan changes the stock *)
(* twice, none disappears, what the device is told is true, and the inbox   *)
(* implements the abstract ledger of scans; where the program can save when *)
(* it starts, the history explains the stock; without retries, what is      *)
(* acknowledged was shown; and unless the clock steps back, the inbox is    *)
(* worked through in the order the scans were made.                         *)
(*                                                                          *)
(* The invariant relates the scans that wait on the device to the rows of   *)
(* the desktop: a waiting scan that has a row is among the first of the     *)
(* outbox, hence in every request, hence accepted by every answer that may  *)
(* carry its result.  What is acknowledged has therefore left the outbox,   *)
(* and a row that is pruned is never inserted again.                        *)
(***************************************************************************)
EXTENDS DeviceInbox, FiniteSetTheorems, SequenceTheorems, TLAPS

RowType == [scan : Scans, event : Scannable, state : {"received", "completed"},
            status : {"", "completed", "failed"}, acknowledged : BOOLEAN,
            applied : Int, moved : Int]

Typed ==
  /\ session \in SessionType
  /\ made \in Seq([id : Nat, event : Scannable]) /\ Len(made) <= MaxScans
  /\ outbox \subseteq Scans
  /\ nextId \in Nat
  /\ DOMAIN rows \subseteq Nat /\ rows \in [DOMAIN rows -> RowType]
  /\ applied \in [1..MaxScans -> Nat]

\* A row is that of the scan that inserted it, and has a status once it is completed.
Rows ==
  \A id \in DOMAIN rows :
    /\ Id(rows[id].scan) = id
    /\ rows[id].event = made[rows[id].scan].event
    /\ rows[id].state = "received" <=> rows[id].status = ""
    /\ rows[id].acknowledged => rows[id].state = "completed"
    /\ rows[id].applied = rows[id].moved

\* One request or answer is under way; the ids the device uses are those of its
\* scans, and those in the outbox are distinct.
Exchange ==
  /\ request = None \/ response = None
  /\ \A s, t \in outbox : Id(s) = Id(t) => s = t
  /\ \A s \in outbox : Id(s) < nextId
  /\ \A id \in toAck : \E s \in Scans : Id(s) = id
  /\ request # None => request.scans \subseteq FirstOut /\ request.acks \subseteq toAck
  /\ response # None => /\ response.accepted \subseteq Scans
                        /\ \A r \in response.results : r.scan \in Scans /\ Id(r.scan) = r.id
                        /\ \A s \in response.accepted :
                             Id(s) \in DOMAIN rows => rows[Id(s)].event = made[s].event

\* An event is applied only over an inventory that is saved.
Books ==
  /\ {stock, store, persistedStore} \subseteq Stocks /\ ledger \in Int
  /\ persistedStoreValid => persistedStore = stock
  /\ working # None => ~UnsavedChanges

Base == Typed /\ Rows /\ Exchange /\ Books

\* What a scan that may be sent again has: no result the device knows of, and where it
\* has a row, a place in every request and in what every answer accepts.
Waiting(s) ==
  s \in outbox =>
    /\ Id(s) \notin toAck
    /\ Id(s) \in DOMAIN rows =>
         /\ ~rows[Id(s)].acknowledged
         /\ s \in FirstOut
         /\ request # None => s \in request.scans
         /\ response # None /\ ~response.loaded => s \in response.accepted
    /\ response # None /\ (\E r \in response.results : r.id = Id(s)) => s \in response.accepted

\* What a scan that changed the stock has: a completed row, or nothing left to send.
Settled(s) ==
  /\ applied[s] <= 1
  /\ applied[s] = 1 => IF Id(s) \in DOMAIN rows THEN rows[Id(s)].status = "completed"
                                                ELSE s \notin outbox

Once ==
  /\ \A s \in Scans : Unambiguous(s) => Waiting(s) /\ Settled(s)
  /\ \A s \in 1..MaxScans \ Scans : applied[s] = 0

Seen(s) == \E result \in shown : result.scan = s
Held(s) == s \in discarded \cup dropped \/ Id(s) \in DOMAIN rows \/ Seen(s)

\* Where a scan is that left the outbox or was accepted, and what its result was.
Traced(s) ==
  /\ s \in outbox \/ Held(s)
  /\ Id(s) \in toAck => Seen(s)
  /\ Id(s) \in DOMAIN rows /\ rows[Id(s)].acknowledged => Seen(s)
  /\ response # None /\ s \in response.accepted => Held(s)

Accounted == \A s \in Scans : Unambiguous(s) => Traced(s)

Sent(id) == [scan |-> rows[id].scan, status |-> rows[id].status] \in shown

\* Without retries and with one numbering, a result does not change once it is sent.
Lasting ==
  /\ session.retries = 0 /\ session.resets = 0
  /\ nextId = Len(made) + 1 /\ \A s \in Scans : Id(s) = s
  /\ \A id \in DOMAIN rows : rows[id].acknowledged => Sent(id)
  /\ \A id \in toAck \cap DOMAIN rows : rows[id].state = "completed" /\ Sent(id)
  /\ response # None => \A r \in response.results : r.id \in DOMAIN rows =>
       rows[r.id].state = "completed" /\ rows[r.id].scan = r.scan /\ rows[r.id].status = r.status

-----------------------------------------------------------------------------
(* What every step keeps *)

Counters == {"edits", "faults", "losses", "crashes", "retries", "discards", "resets"}

SameInputs(old, new) ==
  /\ new \in SessionType
  /\ new.scannable = old.scannable /\ new.batch = old.batch /\ new.retained = old.retained
  /\ new.scans = old.scans /\ new.unsavedStarts = old.unsavedStarts
  /\ new.clockSteps = old.clockSteps
  /\ old.retries = 0 => new.retries = 0
  /\ old.resets = 0 => new.resets = 0

LEMMA UseKeeps ==
  ASSUME session \in SessionType, NEW c \in Counters, Use(c)
  PROVE  SameInputs(session, session')
<1>1. CASE c = "edits"
  BY <1>1 DEF Use, Left, SessionType, SameInputs
<1>2. CASE c = "faults"
  BY <1>2 DEF Use, Left, SessionType, SameInputs
<1>3. CASE c = "losses"
  BY <1>3 DEF Use, Left, SessionType, SameInputs
<1>4. CASE c = "crashes"
  BY <1>4 DEF Use, Left, SessionType, SameInputs
<1>5. CASE c = "retries"
  BY <1>5 DEF Use, Left, SessionType, SameInputs
<1>6. CASE c = "discards"
  BY <1>6 DEF Use, Left, SessionType, SameInputs
<1>7. CASE c = "resets"
  BY <1>7 DEF Use, Left, SessionType, SameInputs
<1>8. QED
  BY <1>1, <1>2, <1>3, <1>4, <1>5, <1>6, <1>7 DEF Counters

\* The inputs of a session never change, and what is left of its bounds only shrinks.
LEMMA SessionStep ==
  ASSUME session \in SessionType, [Next]_vars
  PROVE  SameInputs(session, session')
<1>1. CASE UNCHANGED session
  BY <1>1 DEF SameInputs
<1>2. CASE \E c \in Counters : Use(c)
  BY <1>2, UseKeeps
<1>3. CASE ChangeUnsaved
  <2>1. session.edits > 0 /\ session.faults > 0
    BY <1>3 DEF ChangeUnsaved, Left
  <2>2. session' = [session EXCEPT !.edits = @ - 1, !.faults = @ - 1]
    BY <1>3 DEF ChangeUnsaved
  <2> DEFINE less == [session EXCEPT !.edits = @ - 1]
  <2>3. less.faults = session.faults /\ SameInputs(session, less)
    BY <2>1 DEF SessionType, SameInputs
  <2>4. session' = [less EXCEPT !.faults = @ - 1]
    BY <2>2 DEF SessionType
  <2> HIDE DEF less
  <2>5. SameInputs(less, session')
    BY <2>1, <2>3, <2>4 DEF SessionType, SameInputs
  <2>6. QED
    BY <2>3, <2>5 DEF SameInputs
<1>4. CASE UNCHANGED vars
  BY <1>4, <1>1 DEF vars
<1>5. CASE MakeScan \/ SendSync \/ ReceiveAnswer \/ DiscardStuckScan
           \/ AcceptEvents \/ LoadResults \/ RefuseEvents
  BY <1>5, <1>1 DEF MakeScan, SendSync, ReceiveAnswer, DiscardStuckScan, AcceptEvents,
                    LoadResults, RefuseEvents
<1>6. CASE TakePending \/ CompleteEvent \/ RetrySave \/ StartApp
  BY <1>6, <1>1 DEF TakePending, CompleteEvent, RetrySave, StartApp
<1>7. CASE LoseMessage \/ ResetDevice \/ AcceptFails \/ CompleteFails \/ ChangeStock
  BY <1>7, <1>2 DEF LoseMessage, ResetDevice, AcceptFails, CompleteFails, ChangeStock, Counters
<1>8. CASE RetryFailedEvents \/ DiscardFailedEvents \/ Crash \/ StartUnsaved
  BY <1>8, <1>2 DEF RetryFailedEvents, DiscardFailedEvents, Crash, StartUnsaved, Counters
<1>9. QED
  BY <1>3, <1>4, <1>5, <1>6, <1>7, <1>8 DEF Next

LEMMA SameMade ==
  ASSUME [Next]_vars, ~MakeScan
  PROVE  made' = made
BY DEF Next, vars, device, SendSync, ReceiveAnswer, LoseMessage, DiscardStuckScan,
       ResetDevice, AcceptEvents, LoadResults, RefuseEvents, AcceptFails, TakePending,
       CompleteEvent, CompleteFails, ChangeStock, ChangeUnsaved, RetrySave, RetryFailedEvents,
       DiscardFailedEvents, Crash, StartApp, StartUnsaved

\* Scans keep their number, id and event, and one that stands alone under its id did before.
LEMMA ScansStay ==
  ASSUME Typed, [Next]_vars
  PROVE  /\ Scans = 1..Len(made) /\ Scans \subseteq 1..MaxScans
         /\ Scans' \in {Scans, Scans \cup {Len(made) + 1}}
         /\ \A s \in Scans : s \in Scans' /\ made'[s] = made[s]
         /\ \A s \in Scans : Unambiguous(s)' => Unambiguous(s)
<1>1. Scans = 1..Len(made) /\ Scans \subseteq 1..MaxScans
  BY DEF Typed, Scans, MaxScans, SessionType
<1>2. CASE MakeScan
  <2>1. PICK event \in Scannable : made' = Append(made, [id |-> nextId, event |-> event])
    BY <1>2 DEF MakeScan
  <2>2. Scans' = Scans \cup {Len(made) + 1} /\ \A s \in Scans : made'[s] = made[s]
    BY <1>1, <2>1 DEF Typed, Scans
  <2>3. QED
    BY <1>1, <2>2 DEF Unambiguous, Id
<1>3. CASE ~MakeScan
  BY <1>1, <1>3, SameMade DEF Scans, Unambiguous, Id
<1>4. QED
  BY <1>2, <1>3

\* A new scan has a number of its own and the next id, and changes nothing else.
LEMMA ScanMade ==
  ASSUME Typed, [Next]_vars, MakeScan, NEW new, new = Len(made) + 1
  PROVE  /\ new \notin Scans /\ Scans' = Scans \cup {new} /\ new \in 1..MaxScans
         /\ made' \in Seq([id : Nat, event : Scannable]) /\ Len(made') = new
         /\ \A s \in Scans : made'[s] = made[s]
         /\ made'[new].id = nextId /\ nextId' = nextId + 1 /\ outbox' = outbox \cup {new}
         /\ UNCHANGED <<toAck, request, response, rows, applied, shown, discarded, dropped, session>>
<1>1. PICK event \in Scannable : made' = Append(made, [id |-> nextId, event |-> event])
  BY DEF MakeScan
<1> DEFINE element == [id |-> nextId, event |-> event]
<1>2. /\ made \in Seq([id : Nat, event : Scannable]) /\ nextId \in Nat
      /\ Len(made) \in Nat /\ Len(made) < MaxScans /\ MaxScans \in Nat
  BY DEF Typed, MakeScan, MaxScans, SessionType
<1>3. element \in [id : Nat, event : Scannable]
  BY <1>2
<1>4. /\ made' \in Seq([id : Nat, event : Scannable]) /\ Len(made') = new
      /\ \A s \in 1..Len(made) : made'[s] = made[s]
      /\ made'[new] = element
  BY <1>1, <1>2, <1>3, AppendProperties
<1>5. Scans = 1..Len(made) /\ Scans' = 1..new
  BY <1>2, <1>4 DEF Scans
<1>6. outbox' = outbox \cup {new} /\ nextId' = nextId + 1
  BY <1>4 DEF MakeScan
<1>7. UNCHANGED <<toAck, request, response, rows, applied, shown, discarded, dropped, session>>
  BY DEF MakeScan, inbox, log
<1>8. Scans' = Scans \cup {new} /\ new \notin Scans /\ new \in 1..MaxScans
  BY <1>2, <1>5
<1>9. made'[new].id = nextId
  BY <1>4
<1>10. QED
  BY <1>4, <1>5, <1>6, <1>7, <1>8, <1>9

LEMMA SameTypes ==
  ASSUME Typed, [Next]_vars, made' = made
  PROVE  /\ session' \in SessionType /\ Scans' = Scans /\ RowType' = RowType
         /\ made' \in Seq([id : Nat, event : Scannable'])
         /\ MaxScans' = MaxScans /\ Batch' = Batch
         /\ \A s : Id(s)' = Id(s) /\ (Unambiguous(s)' <=> Unambiguous(s))
<1>1. SameInputs(session, session')
  BY SessionStep DEF Typed
<1>2. Scannable' = Scannable /\ Scans' = Scans /\ \A s : Id(s)' = Id(s)
  BY <1>1 DEF SameInputs, Scannable, Scans, Id
<1>3. QED
  BY <1>1, <1>2 DEF SameInputs, RowType, MaxScans, Batch, Unambiguous, Typed

\* Neither the scans nor what is known of them changes; a message may be lost.
Quiet ==
  /\ UNCHANGED <<made, outbox, nextId, toAck, rows, applied, discarded, dropped, shown>>
  /\ request' \in {request, None} /\ response' \in {response, None}

ScanStep ==
  \/ MakeScan \/ SendSync \/ ReceiveAnswer \/ DiscardStuckScan \/ ResetDevice
  \/ AcceptEvents \/ LoadResults \/ RefuseEvents
  \/ CompleteEvent \/ RetryFailedEvents \/ DiscardFailedEvents

LEMMA QuietSteps == ASSUME [Next]_vars PROVE ScanStep \/ Quiet
<1>1. CASE UNCHANGED vars
  BY <1>1 DEF vars, device, inbox, log, Quiet
<1>2. CASE LoseMessage \/ AcceptFails \/ Crash \/ StartApp \/ StartUnsaved
  BY <1>2 DEF LoseMessage, AcceptFails, Crash, StartApp, StartUnsaved, device, inbox, log, Quiet
<1>3. CASE TakePending \/ CompleteFails \/ ChangeStock \/ ChangeUnsaved \/ RetrySave
  BY <1>3 DEF TakePending, CompleteFails, ChangeStock, ChangeUnsaved, RetrySave,
              device, inbox, log, Quiet
<1>4. QED
  BY <1>1, <1>2, <1>3 DEF Next, ScanStep

\* The first scans of the outbox stay its first ones until they leave it.
LEMMA FirstStay ==
  ASSUME Typed, [Next]_vars, outbox' \subseteq outbox \cup {Len(made) + 1},
         NEW s \in FirstOut, s \in outbox'
  PROVE  s \in FirstOut'
<1> DEFINE Before == {t \in outbox : t < s}
           Before1 == {t \in outbox' : t < s}
<1>1. Batch' = Batch /\ Batch \in Nat
  BY SessionStep DEF Typed, Batch, SameInputs, SessionType
<1>2. s \in outbox /\ Cardinality(Before) < Batch
  BY DEF FirstOut
<1>3. s \in 1..Len(made) /\ outbox \subseteq 1..Len(made) /\ Len(made) \in Nat
  BY <1>2, ScansStay DEF Typed
<1>4. ASSUME NEW t \in Before1 PROVE t \in Before
  <2>1. t \in outbox \cup {Len(made) + 1} /\ t < s /\ s <= Len(made) /\ s \in Int
    BY <1>3
  <2>2. t \in outbox
    BY <1>3, <2>1
  <2>3. QED
    BY <2>1, <2>2
<1>5. IsFiniteSet(Before)
  <2>1. Before \subseteq 1..Len(made)
    BY <1>3
  <2>2. IsFiniteSet(1..Len(made))
    BY <1>3, FS_Interval
  <2>3. QED
    BY <2>1, <2>2, FS_Subset
<1>6. Cardinality(Before1) <= Cardinality(Before) /\ Cardinality(Before) \in Nat
      /\ Cardinality(Before1) \in Nat
  BY <1>4, <1>5, FS_Subset, FS_CardinalityType
<1>7. Cardinality(Before1) < Batch'
  BY <1>1, <1>2, <1>6
<1>8. QED
  BY <1>7 DEF FirstOut

LEMMA OldestAmong == \A order, ids, n : Oldest(order, ids, n) \subseteq ids
BY DEF Oldest

\* The results an answer carries are those of completed rows.
LEMMA LoadedResults ==
  ASSUME LoadResults
  PROVE  /\ response # None /\ ~response.loaded /\ response'.loaded
         /\ response'.accepted = response.accepted /\ request' = request
         /\ \A r \in response'.results :
              \E id \in DOMAIN rows :
                /\ rows[id].state = "completed"
                /\ r.id = id /\ r.scan = rows[id].scan /\ r.status = rows[id].status
<1> DEFINE waiting == {id \in DOMAIN rows : rows[id].state = "completed" /\ ~rows[id].acknowledged}
           loaded == Oldest(completions, waiting, Batch)
           results == {[id |-> id, scan |-> rows[id].scan, status |-> rows[id].status] : id \in loaded}
<1>1. /\ response # None /\ ~response.loaded /\ request' = request
      /\ response' = [response EXCEPT !.loaded = TRUE, !.results = results]
  BY DEF LoadResults
<1>2. loaded \subseteq waiting
  BY OldestAmong
<1>3. \A id \in waiting : id \in DOMAIN rows /\ rows[id].state = "completed"
  OBVIOUS
<1> HIDE DEF loaded, waiting
<1>4. ASSUME NEW r \in results
      PROVE  \E id \in DOMAIN rows :
               /\ rows[id].state = "completed"
               /\ r.id = id /\ r.scan = rows[id].scan /\ r.status = rows[id].status
  <2>1. PICK id \in loaded : r = [id |-> id, scan |-> rows[id].scan, status |-> rows[id].status]
    OBVIOUS
  <2>2. QED
    BY <1>2, <1>3, <2>1
<1> HIDE DEF results
<1>5. QED
  BY <1>1, <1>4

-----------------------------------------------------------------------------
(* The rows after a request was accepted *)

LEMMA AcknowledgedRow ==
  ASSUME NEW r \in RowType
  PROVE  LET a == [r EXCEPT !.acknowledged = TRUE]
         IN  /\ a \in RowType /\ a.scan = r.scan /\ a.event = r.event /\ a.state = r.state
             /\ a.status = r.status /\ a.applied = r.applied /\ a.moved = r.moved
BY DEF RowType

LEMMA KeptRows ==
  ASSUME Typed, Rows, request # None
  PROVE  /\ DOMAIN Kept \subseteq DOMAIN rows /\ Kept \in [DOMAIN Kept -> RowType]
         /\ \A id \in DOMAIN Kept :
              /\ Kept[id].scan = rows[id].scan /\ Kept[id].event = rows[id].event
              /\ Kept[id].state = rows[id].state /\ Kept[id].status = rows[id].status
              /\ Kept[id].applied = rows[id].applied /\ Kept[id].moved = rows[id].moved
              /\ Kept[id].acknowledged =>
                   \/ rows[id].acknowledged
                   \/ id \in request.acks /\ rows[id].state = "completed"
         /\ \A id \in DOMAIN rows \ DOMAIN Kept :
              rows[id].state = "completed" /\ (rows[id].acknowledged \/ id \in request.acks)
<1> DEFINE Acked == Acknowledged
<1>1. DOMAIN Acked = DOMAIN rows
  BY DEF Acknowledged
<1>2. \A id \in DOMAIN rows :
        Acked[id] = IF id \in request.acks /\ rows[id].state = "completed"
                    THEN [rows[id] EXCEPT !.acknowledged = TRUE] ELSE rows[id]
  BY DEF Acknowledged
<1>3. \A id \in DOMAIN rows : rows[id] \in RowType
  BY DEF Typed
<1>4. \A id \in DOMAIN rows :
        /\ Acked[id] \in RowType
        /\ Acked[id].scan = rows[id].scan /\ Acked[id].event = rows[id].event
        /\ Acked[id].state = rows[id].state /\ Acked[id].status = rows[id].status
        /\ Acked[id].applied = rows[id].applied /\ Acked[id].moved = rows[id].moved
        /\ Acked[id].acknowledged =>
             \/ rows[id].acknowledged
             \/ id \in request.acks /\ rows[id].state = "completed"
  <2>1. SUFFICES ASSUME NEW id \in DOMAIN rows
                 PROVE  /\ Acked[id] \in RowType
                        /\ Acked[id].scan = rows[id].scan /\ Acked[id].event = rows[id].event
                        /\ Acked[id].state = rows[id].state /\ Acked[id].status = rows[id].status
                        /\ Acked[id].applied = rows[id].applied /\ Acked[id].moved = rows[id].moved
                        /\ Acked[id].acknowledged =>
                             \/ rows[id].acknowledged
                             \/ id \in request.acks /\ rows[id].state = "completed"
    OBVIOUS
  <2> HIDE DEF Acked
  <2>2. CASE id \in request.acks /\ rows[id].state = "completed"
    <3>1. Acked[id] = [rows[id] EXCEPT !.acknowledged = TRUE]
      BY <1>2, <2>2
    <3>2. QED
      BY <1>3, <2>2, <3>1, AcknowledgedRow
  <2>3. CASE ~(id \in request.acks /\ rows[id].state = "completed")
    BY <1>2, <1>3, <2>3
  <2>4. QED
    BY <2>2, <2>3
<1> DEFINE Gone == Prunable(Acked)
<1>5. \A id \in Gone : id \in DOMAIN Acked /\ Acked[id].state = "completed" /\ Acked[id].acknowledged
  BY DEF Prunable
<1>6. Kept = [id \in DOMAIN rows \ Gone |-> Acked[id]]
  BY DEF Kept, Restrict
<1> HIDE DEF Acked, Gone
<1>7. QED
  BY <1>1, <1>4, <1>5, <1>6

\* A row after it: one that was there and was kept, or one of a scan of the request.
LEMMA AcceptedRows ==
  ASSUME Typed, Exchange, AcceptEvents
  PROVE  /\ request # None /\ request' = None /\ response = None
         /\ DOMAIN Kept \subseteq DOMAIN rows'
         /\ \A s \in request.scans : Id(s) \in DOMAIN rows'
         /\ \A id \in DOMAIN rows' :
              \/ id \in DOMAIN Kept /\ rows'[id] = Kept[id]
              \/ id \notin DOMAIN Kept /\ \E s \in request.scans : Id(s) = id /\ rows'[id] = Row(s)
         /\ rows' = [id \in DOMAIN rows' |-> rows'[id]]
         /\ response' = [accepted |-> {s \in request.scans : ~Different(Kept, s)},
                         results |-> {}, acks |-> request.acks, loaded |-> FALSE, refused |-> FALSE]
<1> DEFINE fresh == {s \in request.scans : Unused(Kept, s)}
           ids == {Id(s) : s \in fresh}
<1>1. /\ request # None /\ request' = None
      /\ rows' = [id \in DOMAIN Kept \cup ids |->
                    IF id \in ids THEN Row(CHOOSE s \in fresh : Id(s) = id) ELSE Kept[id]]
      /\ response' = [accepted |-> {s \in request.scans : ~Different(Kept, s)},
                      results |-> {}, acks |-> request.acks, loaded |-> FALSE, refused |-> FALSE]
  BY Zenon DEF AcceptEvents
<1>2. response = None
  BY <1>1 DEF Exchange
<1>3. \A s \in request.scans : s \in fresh \/ Id(s) \in DOMAIN Kept
  BY DEF Unused
<1>4. ASSUME NEW id \in ids
      PROVE  id \notin DOMAIN Kept /\ \E s \in request.scans : Id(s) = id /\ rows'[id] = Row(s)
  <2>1. \E s \in fresh : Id(s) = id
    OBVIOUS
  <2>2. id \notin DOMAIN Kept
    BY <2>1 DEF Unused
  <2> DEFINE first == CHOOSE s \in fresh : Id(s) = id
  <2>3. first \in fresh /\ Id(first) = id
    BY <2>1
  <2>4. rows'[id] = Row(first)
    BY <1>1
  <2>5. QED
    BY <2>2, <2>3, <2>4
<1> HIDE DEF ids
<1>5. \A s \in fresh : Id(s) \in ids
  BY DEF ids
<1>6. DOMAIN rows' = DOMAIN Kept \cup ids
  BY <1>1
<1>7. \A id \in DOMAIN rows' : id \notin ids => rows'[id] = Kept[id]
  BY <1>1, <1>6
<1>8. QED
  BY <1>1, <1>2, <1>3, <1>4, <1>5, <1>6, <1>7

-----------------------------------------------------------------------------
(* The stock and its books *)

LEMMA Quantity ==
  /\ Absent \in Stocks
  /\ \A q \in Stocks : Amount(q) \in Int
  /\ \A e \in Events, q \in Stocks : StockAfter(e, q) \in Stocks
  /\ \A e, q : ~Applies(e, q) => StockAfter(e, q) = q
<1>1. Absent \in Stocks /\ \A q \in Stocks : Amount(q) \in Int
  BY QuantityAssumption DEF Stocks, Quantities, Amount
<1>2. \A n \in Int : Clamp(n) \in Stocks
  BY QuantityAssumption DEF Clamp, Stocks, Quantities
<1>3. \A e \in Events : e.value \in Int
  BY DEF Events
<1>4. QED
  BY <1>1, <1>2, <1>3 DEF StockAfter

LEMMA EventOfRow ==
  ASSUME Typed, NEW id \in DOMAIN rows
  PROVE  rows[id] \in RowType /\ rows[id].event \in Events
BY DEF Typed, RowType, SessionType, Scannable

\* A row is under the id of a scan.
LEMMA RowsOfScans ==
  ASSUME Typed, Rows, NEW id \in DOMAIN rows
  PROVE  \E s \in Scans : made[s].id = id
<1>1. rows[id].scan \in Scans
  BY EventOfRow DEF RowType
<1>2. made[rows[id].scan].id = id
  BY DEF Rows, Id
<1>3. QED
  BY <1>1, <1>2

\* A scan has an id and an event, and the row it inserts is well formed.
LEMMA ScanTyped ==
  ASSUME Typed, NEW s \in Scans
  PROVE  made[s].id \in Nat /\ made[s].event \in Scannable /\ Row(s) \in RowType
<1>1. made \in Seq([id : Nat, event : Scannable]) /\ s \in 1..Len(made)
  BY DEF Typed, Scans
<1>2. made[s] \in [id : Nat, event : Scannable]
  BY <1>1, ElementOfSeq
<1>3. QED
  BY <1>2 DEF Row, RowType

LEMMA NewRow ==
  \A s : /\ Row(s).scan = s /\ Row(s).event = made[s].event /\ Row(s).state = "received"
         /\ Row(s).status = "" /\ ~Row(s).acknowledged /\ Row(s).applied = Row(s).moved
BY DEF Row

\* Where the program can save when it starts, the newest commit and the ledger agree
\* with the stock, and every change is compared with it.
History == HistoryMatchesStock /\ (running => persistedStoreValid) /\ ~session.unsavedStarts

SameBooks ==
  /\ UNCHANGED <<stock, head, ledger, store, persistedStore, persistedStoreValid>>
  /\ running' = running /\ working' \in {working, None}

LEMMA SameBooksSteps ==
  ASSUME [Next]_vars
  PROVE  \/ SameBooks \/ TakePending \/ CompleteEvent \/ ChangeStock \/ ChangeUnsaved
         \/ RetrySave \/ Crash \/ StartApp \/ StartUnsaved
<1>1. CASE UNCHANGED vars
  BY <1>1 DEF vars, books, app, SameBooks
<1>2. CASE MakeScan \/ SendSync \/ ReceiveAnswer \/ LoseMessage \/ DiscardStuckScan \/ ResetDevice
  BY <1>2 DEF MakeScan, SendSync, ReceiveAnswer, LoseMessage, DiscardStuckScan, ResetDevice,
              books, app, SameBooks
<1>3. CASE AcceptEvents \/ LoadResults \/ RefuseEvents \/ AcceptFails
  BY <1>3 DEF AcceptEvents, LoadResults, RefuseEvents, AcceptFails, books, app, SameBooks
<1>4. CASE CompleteFails \/ RetryFailedEvents \/ DiscardFailedEvents
  BY <1>4 DEF CompleteFails, RetryFailedEvents, DiscardFailedEvents, books, app, SameBooks
<1>5. QED
  BY <1>1, <1>2, <1>3, <1>4 DEF Next

LEMMA SaveKeepsBooks ==
  ASSUME Books, NEW q \in Stocks, SaveInventory(q), working' = None
  PROVE  Books' /\ persistedStoreValid' /\ (persistedStoreValid /\ HistoryMatchesStock => HistoryMatchesStock')
<1>1. /\ stock' = q /\ store' = q /\ persistedStore' = q /\ persistedStoreValid' = TRUE
      /\ head' = IF persistedStoreValid /\ q # persistedStore THEN q ELSE head
      /\ ledger' = ledger + (IF persistedStoreValid THEN Amount(q) - Amount(persistedStore) ELSE 0)
  BY DEF SaveInventory, WriteItems, MovementDiff
<1>2. Amount(q) \in Int /\ Amount(persistedStore) \in Int /\ ledger \in Int
  BY Quantity DEF Books
<1>3. QED
  BY <1>1, <1>2 DEF Books, HistoryMatchesStock

LEMMA CompleteKeepsBooks ==
  ASSUME Typed, Books, CompleteEvent
  PROVE  Books' /\ persistedStoreValid' /\ (HistoryMatchesStock => HistoryMatchesStock')
<1> DEFINE event == rows[working].event
           candidate == StockAfter(event, store)
<1>1. working \in DOMAIN rows /\ working # None
  BY InboxAssumption DEF CompleteEvent, Received, Typed
<1>2. /\ stock' = candidate /\ store' = candidate /\ persistedStore' = candidate
      /\ head' = IF Applies(event, store) \/ candidate # persistedStore THEN candidate ELSE head
      /\ ledger' = ledger + (Amount(candidate) - Amount(persistedStore))
      /\ working' = None /\ UNCHANGED persistedStoreValid
  BY DEF CompleteEvent, WriteItems, MovementDiff
<1>3. candidate \in Stocks
  BY <1>1, EventOfRow, Quantity DEF Books
<1>4. Amount(candidate) \in Int /\ Amount(persistedStore) \in Int /\ ledger \in Int
  BY <1>3, Quantity DEF Books
<1>5. persistedStoreValid /\ persistedStore = stock
  BY <1>1 DEF Books, UnsavedChanges
<1> HIDE DEF candidate, event
<1>6. QED
  BY <1>1, <1>2, <1>3, <1>4, <1>5 DEF Books, HistoryMatchesStock

LEMMA BooksStep ==
  ASSUME Typed, Books, [Next]_vars
  PROVE  Books' /\ (History => History')
<1>0. session.unsavedStarts' = session.unsavedStarts
  BY SessionStep DEF Typed, SameInputs
<1>1. CASE SameBooks
  BY <1>0, <1>1 DEF SameBooks, Books, UnsavedChanges, History, HistoryMatchesStock
<1>2. CASE TakePending
  BY <1>0, <1>2 DEF TakePending, UIIdle, books, Books, UnsavedChanges, History, HistoryMatchesStock
<1>3. CASE CompleteEvent
  BY <1>0, <1>3, CompleteKeepsBooks DEF History
<1>4. CASE ChangeStock
  <2>1. PICK q \in Stocks : SaveInventory(q)
    BY <1>4 DEF ChangeStock
  <2>2. working' = None /\ UNCHANGED running /\ running
    BY <1>4 DEF ChangeStock, UIIdle
  <2>3. QED
    BY <1>0, <2>1, <2>2, SaveKeepsBooks DEF History
<1>5. CASE RetrySave
  <2>1. SaveInventory(store) /\ store \in Stocks /\ working' = None /\ UNCHANGED running /\ running
    BY <1>5 DEF RetrySave, UIIdle, Books
  <2>2. QED
    BY <1>0, <2>1, SaveKeepsBooks DEF History
<1>6. CASE ChangeUnsaved
  BY <1>0, <1>6 DEF ChangeUnsaved, UIIdle, books, Books, UnsavedChanges, History, HistoryMatchesStock
<1>7. CASE Crash \/ StartApp
  BY <1>0, <1>7, Quantity
     DEF Crash, StartApp, books, Books, UnsavedChanges, History, HistoryMatchesStock
<1>8. CASE StartUnsaved
  BY <1>0, <1>8, Quantity DEF StartUnsaved, books, Books, UnsavedChanges, History
<1>9. QED
  BY <1>1, <1>2, <1>3, <1>4, <1>5, <1>6, <1>7, <1>8, SameBooksSteps

-----------------------------------------------------------------------------
(* The rows and the exchange *)

\* The row of an event after it was completed.
LEMMA CompletedRow ==
  ASSUME Typed, Books, CompleteEvent
  PROVE  /\ working \in Received
         /\ rows' = [rows EXCEPT ![working] = rows'[working]]
         /\ rows'[working] \in RowType
         /\ rows'[working].scan = rows[working].scan /\ rows'[working].event = rows[working].event
         /\ rows'[working].state = "completed"
         /\ rows'[working].acknowledged = rows[working].acknowledged
         /\ rows'[working].status = IF Applies(rows[working].event, store)
                                    THEN "completed" ELSE "failed"
         /\ rows'[working].applied = rows'[working].moved
<1> DEFINE row == rows[working]
           candidate == StockAfter(row.event, store)
           moved == MovementDiff(persistedStore, candidate)
           told == IF Applies(row.event, store) THEN MovementDiff(store, candidate) ELSE 0
           status == IF Applies(row.event, store) THEN "completed" ELSE "failed"
<1>1. working \in Received /\ working \in DOMAIN rows /\ working # None
  BY InboxAssumption DEF CompleteEvent, Received, Typed
<1>2. row \in RowType /\ row.event \in Events
  BY <1>1, EventOfRow
<1>3. rows' = [rows EXCEPT ![working] = [row EXCEPT !.state = "completed", !.status = status,
                                                   !.applied = told, !.moved = moved]]
  BY DEF CompleteEvent
<1>4. store = persistedStore /\ candidate \in Stocks /\ store \in Stocks
  BY <1>1, <1>2, Quantity DEF Books, UnsavedChanges
<1>5. told \in Int /\ moved \in Int /\ told = moved
  BY <1>4, Quantity DEF MovementDiff
<1> HIDE DEF row, told, moved, status
<1>6. status \in {"completed", "failed"}
  BY DEF status
<1>7. rows'[working] = [row EXCEPT !.state = "completed", !.status = status,
                                  !.applied = told, !.moved = moved]
  BY <1>1, <1>3
<1>8. /\ rows'[working] \in RowType /\ rows'[working].state = "completed"
      /\ rows'[working].scan = row.scan /\ rows'[working].event = row.event
      /\ rows'[working].acknowledged = row.acknowledged
      /\ rows'[working].status = status /\ rows'[working].applied = rows'[working].moved
  BY <1>2, <1>5, <1>6, <1>7 DEF RowType
<1>9. QED
  BY <1>1, <1>3, <1>7, <1>8 DEF row, status

LEMMA QuietBase ==
  ASSUME Base, [Next]_vars, Quiet
  PROVE  Base'
<1>1. made' = made /\ UNCHANGED <<outbox, nextId, toAck, rows, applied>>
      /\ request' \in {request, None} /\ response' \in {response, None}
  BY DEF Quiet
<1>2. Typed'
  BY <1>1, SameTypes DEF Base, Typed
<1>3. Rows'
  BY <1>1 DEF Base, Rows, Id
<1>4. FirstOut' = FirstOut
  BY <1>1, SameTypes DEF FirstOut, Base
<1>5. Exchange'
  BY <1>1, <1>4 DEF Base, Exchange, Id, Scans
<1>6. QED
  BY <1>2, <1>3, <1>5, BooksStep DEF Base

LEMMA MakeScanBase ==
  ASSUME Base, MakeScan, [Next]_vars
  PROVE  Base'
<1>0. PICK new : new = Len(made) + 1
  OBVIOUS
<1>2. /\ Typed /\ Len(made) \in Nat /\ nextId \in Nat
      /\ Len(made) < MaxScans /\ MaxScans \in Nat
  BY DEF Base, Typed, MakeScan, MaxScans, SessionType
<1>3. /\ made' \in Seq([id : Nat, event : Scannable]) /\ Len(made') = new
      /\ made'[new].id = nextId /\ nextId' = nextId + 1 /\ outbox' = outbox \cup {new}
      /\ UNCHANGED <<session, toAck, request, response, rows, applied>>
  BY <1>0, <1>2, ScanMade
<1>4. /\ Scans' = Scans \cup {new} /\ new \notin Scans
      /\ \A s \in Scans : made'[s] = made[s]
  BY <1>0, <1>2, ScanMade
<1>5. Typed'
  <2>0. Scannable' = Scannable
    BY <1>3 DEF Scannable
  <2>1. ASSUME NEW r \in RowType PROVE r \in RowType'
    BY <1>4, <2>0 DEF RowType
  <2>2. rows \in [DOMAIN rows -> RowType']
    BY <1>2, <2>1 DEF Typed
  <2>3. MaxScans' = MaxScans /\ Scannable' = Scannable /\ session' \in SessionType
    BY <1>2, <1>3 DEF Typed, MaxScans, Scannable
  <2>4. outbox' \subseteq Scans' /\ nextId' \in Nat /\ Len(made') <= MaxScans'
    <3>1. outbox \subseteq Scans
      BY <1>2 DEF Typed
    <3>2. outbox' \subseteq Scans'
      BY <1>3, <1>4, <3>1
    <3>3. nextId' \in Nat /\ Len(made') <= MaxScans'
      BY <1>0, <1>2, <1>3, <2>3
    <3>4. QED
      BY <3>2, <3>3
  <2>5. DOMAIN rows' \subseteq Nat /\ rows' \in [DOMAIN rows' -> RowType']
        /\ applied' \in [1..MaxScans' -> Nat]
    BY <1>2, <1>3, <2>2, <2>3 DEF Typed
  <2>6. QED
    BY <1>3, <2>3, <2>4, <2>5 DEF Typed
<1>6. Rows'
  <2>1. \A id \in DOMAIN rows : rows[id].scan \in Scans
    BY <1>2 DEF Typed, RowType
  <2>2. ASSUME NEW id \in DOMAIN rows
        PROVE  /\ made'[rows[id].scan] = made[rows[id].scan]
               /\ made[rows[id].scan].id = id
               /\ rows[id].event = made[rows[id].scan].event
               /\ rows[id].state = "received" <=> rows[id].status = ""
               /\ rows[id].acknowledged => rows[id].state = "completed"
               /\ rows[id].applied = rows[id].moved
    BY <1>4, <2>1 DEF Base, Rows, Id
  <2>3. rows' = rows
    BY <1>3
  <2>4. ASSUME NEW id \in DOMAIN rows'
        PROVE  /\ made'[rows'[id].scan].id = id
               /\ rows'[id].event = made'[rows'[id].scan].event
               /\ rows'[id].state = "received" <=> rows'[id].status = ""
               /\ rows'[id].acknowledged => rows'[id].state = "completed"
               /\ rows'[id].applied = rows'[id].moved
    BY <2>2, <2>3
  <2>5. QED
    BY <2>4 DEF Rows, Id
<1>7. outbox \subseteq Scans /\ FirstOut \subseteq outbox
  BY <1>2 DEF Typed, FirstOut
<1>8. FirstOut \subseteq FirstOut'
  BY <1>0, <1>2, <1>3, <1>7, FirstStay
<1>9. Exchange'
  <2>1. \A s \in outbox : made'[s].id = made[s].id /\ made[s].id < nextId /\ made[s].id \in Nat
    BY <1>2, <1>4, <1>7, ScanTyped DEF Base, Exchange, Id
  <2>2. \A s, t \in outbox' : made'[s].id = made'[t].id => s = t
    <3>1. \A s, t \in outbox : made'[s].id = made'[t].id => s = t
      BY <2>1 DEF Base, Exchange, Id
    <3>2. \A s \in outbox : made'[s].id # made'[new].id
      BY <1>2, <1>3, <2>1
    <3>3. QED
      BY <1>3, <3>1, <3>2
  <2>3. \A s \in outbox' : made'[s].id < nextId'
    BY <1>2, <1>3, <1>4, <2>1
  <2>4. \A id \in toAck' : \E s \in Scans' : made'[s].id = id
    BY <1>3, <1>4 DEF Base, Exchange, Id
  <2>5. request' = None \/ response' = None
    BY <1>3 DEF Base, Exchange
  <2>6. request' # None => request'.scans \subseteq FirstOut' /\ request'.acks \subseteq toAck'
    BY <1>3, <1>8 DEF Base, Exchange
  <2>7. response' # None =>
          /\ response'.accepted \subseteq Scans'
          /\ \A r \in response'.results : r.scan \in Scans' /\ made'[r.scan].id = r.id
          /\ \A s \in response'.accepted :
               made'[s].id \in DOMAIN rows' => rows'[made'[s].id].event = made'[s].event
    BY <1>3, <1>4 DEF Base, Exchange, Id
  <2>8. QED
    BY <2>2, <2>3, <2>4, <2>5, <2>6, <2>7 DEF Exchange, Id
<1>10. QED
  BY <1>5, <1>6, <1>9, BooksStep DEF Base

\* The steps of the device and of the link between them, apart from new scans.
LEMMA DeviceBase ==
  ASSUME Base, [Next]_vars, SendSync \/ ReceiveAnswer \/ DiscardStuckScan \/ ResetDevice
  PROVE  Base'
<1>1. /\ UNCHANGED <<made, rows, applied>> /\ outbox' \subseteq outbox
      /\ nextId' \in Nat
  BY DEF SendSync, ReceiveAnswer, DiscardStuckScan, ResetDevice, device, inbox, log, Base, Typed
<1>2. /\ session' \in SessionType /\ Scans' = Scans /\ RowType' = RowType
      /\ made' \in Seq([id : Nat, event : Scannable'])
      /\ MaxScans' = MaxScans /\ Batch' = Batch /\ \A s : Id(s)' = Id(s)
  BY <1>1, SameTypes DEF Base
<1>3. Typed'
  BY <1>1, <1>2 DEF Base, Typed
<1>4. Rows'
  BY <1>1, <1>2 DEF Base, Rows
<1>5. \A s, t \in outbox' : Id(s)' = Id(t)' => s = t
  BY <1>1, <1>2 DEF Base, Exchange
<1>6. Exchange'
  <2>1. CASE SendSync
    <3>1. /\ request = None /\ response = None /\ response' = None
          /\ request'.scans = FirstOut /\ request'.acks \subseteq toAck
          /\ UNCHANGED <<outbox, nextId, toAck>>
      BY <2>1 DEF SendSync, device
    <3>2. FirstOut' = FirstOut
      BY <1>2, <3>1 DEF FirstOut
    <3>3. QED
      BY <1>2, <1>5, <3>1, <3>2 DEF Base, Exchange
  <2>2. CASE ReceiveAnswer
    <3>1. /\ response # None /\ response' = None /\ request' = request /\ nextId' = nextId
          /\ toAck' \subseteq toAck \cup {r.id : r \in response.results}
      BY <2>2 DEF ReceiveAnswer
    <3>2. request = None
      BY <3>1 DEF Base, Exchange
    <3>3. \A id \in toAck' : \E s \in Scans' : Id(s)' = id
      BY <1>2, <3>1 DEF Base, Exchange
    <3>4. QED
      BY <1>1, <1>2, <1>5, <3>1, <3>2, <3>3 DEF Base, Exchange
  <2>3. CASE DiscardStuckScan
    BY <1>1, <1>2, <1>5, <2>3 DEF DiscardStuckScan, Base, Exchange
  <2>4. CASE ResetDevice
    BY <1>1, <1>2, <1>5, <2>4 DEF ResetDevice, Base, Exchange
  <2>5. QED
    BY <2>1, <2>2, <2>3, <2>4
<1>7. QED
  BY <1>3, <1>4, <1>6, BooksStep DEF Base

LEMMA AcceptBase ==
  ASSUME Base, [Next]_vars, AcceptEvents
  PROVE  Base'
<1>1. UNCHANGED <<made, outbox, nextId, toAck, applied>>
  BY DEF AcceptEvents, device, log
<1>2. /\ session' \in SessionType /\ Scans' = Scans /\ RowType' = RowType
      /\ made' \in Seq([id : Nat, event : Scannable'])
      /\ MaxScans' = MaxScans /\ Batch' = Batch /\ \A s : Id(s)' = Id(s)
  BY <1>1, SameTypes DEF Base
<1>3. /\ request # None /\ request' = None
      /\ \A id \in DOMAIN rows' :
           \/ id \in DOMAIN Kept /\ rows'[id] = Kept[id]
           \/ id \notin DOMAIN Kept /\ \E s \in request.scans : Id(s) = id /\ rows'[id] = Row(s)
      /\ rows' = [id \in DOMAIN rows' |-> rows'[id]]
      /\ response'.accepted = {s \in request.scans : ~Different(Kept, s)}
      /\ response'.results = {}
  BY AcceptedRows DEF Base
<1>4. request.scans \subseteq outbox /\ outbox \subseteq Scans
  BY <1>3 DEF Base, Exchange, FirstOut, Typed
<1>5. \A s \in request.scans : Id(s) \in Nat /\ Row(s) \in RowType
  BY <1>4, ScanTyped DEF Base, Id
<1>6. \A id \in DOMAIN Kept :
        /\ id \in DOMAIN rows /\ Kept[id] \in RowType
        /\ Kept[id].scan = rows[id].scan /\ Kept[id].event = rows[id].event
        /\ Kept[id].state = rows[id].state /\ Kept[id].status = rows[id].status
        /\ Kept[id].applied = rows[id].applied /\ Kept[id].moved = rows[id].moved
        /\ Kept[id].acknowledged => rows[id].acknowledged \/ rows[id].state = "completed"
  BY <1>3, KeptRows DEF Base
<1>7. Typed'
  <2>1. ASSUME NEW id \in DOMAIN rows'
        PROVE  id \in Nat /\ rows'[id] \in RowType
    BY <1>3, <1>5, <1>6 DEF Base, Typed
  <2>2. QED
    BY <1>1, <1>2, <1>3, <2>1 DEF Base, Typed
<1>8. Rows'
  <2>1. ASSUME NEW id \in DOMAIN rows'
        PROVE  /\ Id(rows'[id].scan) = id
               /\ rows'[id].event = made[rows'[id].scan].event
               /\ rows'[id].state = "received" <=> rows'[id].status = ""
               /\ rows'[id].acknowledged => rows'[id].state = "completed"
               /\ rows'[id].applied = rows'[id].moved
    <3>1. CASE id \in DOMAIN Kept
      <4>1. /\ rows'[id] = Kept[id] /\ id \in DOMAIN rows
            /\ rows'[id].scan = rows[id].scan /\ rows'[id].event = rows[id].event
            /\ rows'[id].state = rows[id].state /\ rows'[id].status = rows[id].status
            /\ rows'[id].applied = rows[id].applied /\ rows'[id].moved = rows[id].moved
        BY <1>3, <1>6, <3>1
      <4>2. rows'[id].acknowledged => rows'[id].state = "completed"
        BY <1>6, <3>1, <4>1 DEF Base, Rows
      <4>3. QED
        BY <4>1, <4>2 DEF Base, Rows
    <3>2. CASE id \notin DOMAIN Kept
      <4>1. PICK s \in request.scans : Id(s) = id /\ rows'[id] = Row(s)
        BY <1>3, <3>2
      <4>2. /\ Row(s).scan = s /\ Row(s).event = made[s].event /\ Row(s).state = "received"
            /\ Row(s).status = "" /\ ~Row(s).acknowledged /\ Row(s).applied = Row(s).moved
        BY NewRow
      <4>3. ~rows'[id].acknowledged
        BY <4>1, <4>2
      <4>4. QED
        BY <4>1, <4>2, <4>3
    <3>3. QED
      BY <3>1, <3>2
  <2>2. QED
    BY <1>1, <2>1 DEF Rows, Id
<1>9. \A s \in response'.accepted :
        Id(s) \in DOMAIN rows' => rows'[Id(s)].event = made[s].event
  <2>1. SUFFICES ASSUME NEW s \in request.scans, ~Different(Kept, s), Id(s) \in DOMAIN rows'
                 PROVE  rows'[Id(s)].event = made[s].event
    BY <1>3
  <2>2. CASE Id(s) \in DOMAIN Kept
    BY <1>3, <2>1, <2>2 DEF Different
  <2>3. CASE Id(s) \notin DOMAIN Kept
    <3>1. PICK t \in request.scans : Id(t) = Id(s) /\ rows'[Id(s)] = Row(t)
      BY <1>3, <2>1, <2>3
    <3>2. t = s
      BY <1>4, <3>1 DEF Base, Exchange
    <3>3. QED
      BY <3>1, <3>2, NewRow
  <2>4. QED
    BY <2>2, <2>3
<1>10. Exchange'
  <2>1. response'.accepted \subseteq Scans
    BY <1>3, <1>4
  <2>2. QED
    BY <1>1, <1>2, <1>3, <1>9, <2>1 DEF Base, Exchange
<1>11. QED
  BY <1>7, <1>8, <1>10, BooksStep DEF Base

LEMMA AnswerBase ==
  ASSUME Base, [Next]_vars, LoadResults \/ RefuseEvents
  PROVE  Base'
<1>1. UNCHANGED <<made, outbox, nextId, toAck, applied, rows>>
  BY DEF LoadResults, RefuseEvents, device, log, inbox
<1>2. /\ session' \in SessionType /\ Scans' = Scans /\ RowType' = RowType
      /\ made' \in Seq([id : Nat, event : Scannable'])
      /\ MaxScans' = MaxScans /\ Batch' = Batch /\ \A s : Id(s)' = Id(s)
  BY <1>1, SameTypes DEF Base
<1>3. Typed' /\ Rows' /\ FirstOut' = FirstOut
  BY <1>1, <1>2 DEF Base, Typed, Rows, FirstOut
<1>4. CASE RefuseEvents
  <2>1. request' = None /\ response'.accepted = {} /\ response'.results = {}
    BY <1>4 DEF RefuseEvents, Refusal
  <2>2. Exchange'
    BY <1>1, <1>2, <2>1 DEF Base, Exchange
  <2>3. QED
    BY <1>3, <2>2, BooksStep DEF Base
<1>5. CASE LoadResults
  <2>1. /\ response # None /\ request' = request /\ request = None
    BY <1>5 DEF LoadResults, Base, Exchange
  <2>2. response'.accepted = response.accepted
        /\ \A r \in response'.results :
             \E id \in DOMAIN rows : r.id = id /\ r.scan = rows[id].scan
    BY <1>5, LoadedResults
  <2>3. Exchange'
    <3>1. \A id \in DOMAIN rows : rows[id].scan \in Scans /\ Id(rows[id].scan) = id
      BY EventOfRow DEF Base, Rows, RowType
    <3>2. QED
      BY <1>1, <1>2, <2>1, <2>2, <3>1 DEF Base, Exchange
  <2>4. QED
    BY <1>3, <2>3, BooksStep DEF Base
<1>6. QED
  BY <1>4, <1>5

LEMMA ReopenedRow ==
  ASSUME NEW r \in RowType
  PROVE  /\ Reopened(r) \in RowType /\ Reopened(r).scan = r.scan /\ Reopened(r).event = r.event
         /\ Reopened(r).state = "received" /\ Reopened(r).status = ""
         /\ ~Reopened(r).acknowledged /\ Reopened(r).applied = Reopened(r).moved
<1> DEFINE r1 == [r EXCEPT !.state = "received"]
           r2 == [r1 EXCEPT !.status = ""]
           zero == 0
           r3 == [r2 EXCEPT !.applied = zero]
           r4 == [r3 EXCEPT !.moved = zero]
           r5 == [r4 EXCEPT !.acknowledged = FALSE]
<1>1. r1 \in RowType /\ r1.scan = r.scan /\ r1.event = r.event /\ r1.state = "received"
  BY DEF RowType
<1> HIDE DEF r1
<1>2. /\ r2 \in RowType /\ r2.scan = r1.scan /\ r2.event = r1.event /\ r2.state = r1.state
      /\ r2.status = ""
  BY <1>1 DEF RowType
<1>0. zero \in Int
  OBVIOUS
<1> HIDE DEF r2, zero
<1>3. /\ r3 \in RowType /\ r3.scan = r2.scan /\ r3.event = r2.event /\ r3.state = r2.state
      /\ r3.status = r2.status /\ r3.applied = zero
  BY <1>0, <1>2 DEF RowType
<1> HIDE DEF r3
<1>4. /\ r4 \in RowType /\ r4.scan = r3.scan /\ r4.event = r3.event /\ r4.state = r3.state
      /\ r4.status = r3.status /\ r4.applied = r3.applied /\ r4.moved = zero
  BY <1>0, <1>3 DEF RowType
<1> HIDE DEF r4
<1>5. /\ r5 \in RowType /\ r5.scan = r4.scan /\ r5.event = r4.event /\ r5.state = r4.state
      /\ r5.status = r4.status /\ r5.applied = r4.applied /\ r5.moved = r4.moved
      /\ ~r5.acknowledged
  BY <1>4 DEF RowType
<1>6. Reopened(r) = r5
  BY DEF Reopened, r1, r2, r3, r4, zero
<1> HIDE DEF r5
<1>7. QED
  BY <1>1, <1>2, <1>3, <1>4, <1>5, <1>6

\* The rows of the UI thread's steps: an event is completed, or the failed ones are
\* reopened or discarded.
UIRows ==
  /\ UNCHANGED <<made, outbox, nextId, toAck, request, response, shown, dropped>>
  /\ DOMAIN rows' \subseteq DOMAIN rows /\ rows' = [id \in DOMAIN rows' |-> rows'[id]]
  /\ \A id \in DOMAIN rows' :
       /\ rows'[id] \in RowType
       /\ rows'[id].scan = rows[id].scan /\ rows'[id].event = rows[id].event
       /\ rows'[id].state = "received" <=> rows'[id].status = ""
       /\ rows'[id].acknowledged => rows[id].acknowledged /\ rows'[id] = rows[id]
       /\ rows'[id].applied = rows'[id].moved
  /\ applied' \in [1..MaxScans -> Nat]

LEMMA UIRowsSteps ==
  ASSUME Base, CompleteEvent \/ RetryFailedEvents \/ DiscardFailedEvents
  PROVE  UIRows
<1>1. UNCHANGED <<made, outbox, nextId, toAck, request, response, shown, dropped>>
  BY DEF CompleteEvent, RetryFailedEvents, DiscardFailedEvents, device
<1>2. \A id \in DOMAIN rows :
        /\ rows[id] \in RowType
        /\ rows[id].state = "received" <=> rows[id].status = ""
        /\ rows[id].applied = rows[id].moved
  BY EventOfRow DEF Base, Rows
<1>3. CASE CompleteEvent
  <2>1. /\ working \in DOMAIN rows /\ rows[working].state = "received"
        /\ rows' = [rows EXCEPT ![working] = rows'[working]]
        /\ rows'[working] \in RowType
        /\ rows'[working].scan = rows[working].scan /\ rows'[working].event = rows[working].event
        /\ rows'[working].state = "completed"
        /\ rows'[working].acknowledged = rows[working].acknowledged
        /\ rows'[working].status \in {"completed", "failed"}
        /\ rows'[working].applied = rows'[working].moved
    BY <1>3, CompletedRow DEF Base, Received
  <2>2. ~rows'[working].acknowledged
    BY <2>1 DEF Base, Rows
  <2>3. \A id \in DOMAIN rows : id # working => rows'[id] = rows[id]
    BY <2>1
  <2>4. applied' \in [1..MaxScans -> Nat]
    <3>1. rows[working].scan \in 1..MaxScans /\ applied \in [1..MaxScans -> Nat]
      <4>0. Typed /\ rows[working].scan \in Scans
        BY <2>1, EventOfRow DEF Base, RowType
      <4>1. rows[working].scan \in 1..Len(made)
        BY <4>0 DEF Typed, Scans
      <4>2. MaxScans \in Nat
        BY <4>0 DEF Typed, MaxScans, SessionType
      <4>3. Len(made) \in Nat /\ Len(made) <= MaxScans /\ applied \in [1..MaxScans -> Nat]
        BY <4>0 DEF Typed
      <4>4. QED
        BY <4>1, <4>2, <4>3
    <3>2. applied' \in {applied, [applied EXCEPT ![rows[working].scan] = @ + 1]}
      BY <1>3 DEF CompleteEvent
    <3>3. QED
      BY <3>1, <3>2
  <2>5. DOMAIN rows' = DOMAIN rows /\ rows' = [id \in DOMAIN rows' |-> rows'[id]]
    BY <2>1
  <2>6. ASSUME NEW id \in DOMAIN rows
        PROVE  /\ rows'[id] \in RowType
               /\ rows'[id].scan = rows[id].scan /\ rows'[id].event = rows[id].event
               /\ rows'[id].state = "received" <=> rows'[id].status = ""
               /\ rows'[id].acknowledged => rows[id].acknowledged /\ rows'[id] = rows[id]
               /\ rows'[id].applied = rows'[id].moved
    <3>1. CASE id = working
      BY <2>1, <2>2, <3>1
    <3>2. CASE id # working
      BY <1>2, <2>3, <3>2
    <3>3. QED
      BY <3>1, <3>2
  <2>7. QED
    BY <1>1, <2>4, <2>5, <2>6 DEF UIRows
<1>4. CASE RetryFailedEvents
  <2>1. /\ rows' = [id \in DOMAIN rows |-> IF id \in Failed THEN Reopened(rows[id]) ELSE rows[id]]
        /\ applied' = applied
    BY <1>4 DEF RetryFailedEvents, log
  <2>2. ASSUME NEW id \in DOMAIN rows
        PROVE  /\ rows'[id] \in RowType
               /\ rows'[id].scan = rows[id].scan /\ rows'[id].event = rows[id].event
               /\ rows'[id].state = "received" <=> rows'[id].status = ""
               /\ rows'[id].acknowledged => rows[id].acknowledged /\ rows'[id] = rows[id]
               /\ rows'[id].applied = rows'[id].moved
    <3>1. CASE id \in Failed
      <4>1. rows'[id] = Reopened(rows[id])
        BY <2>1, <3>1
      <4>2. rows[id] \in RowType
        BY <1>2
      <4>3. /\ rows'[id] \in RowType
            /\ rows'[id].scan = rows[id].scan /\ rows'[id].event = rows[id].event
            /\ rows'[id].state = "received" /\ rows'[id].status = ""
            /\ ~rows'[id].acknowledged /\ rows'[id].applied = rows'[id].moved
        <5> DEFINE r == rows[id]
        <5>1. r \in RowType
          BY <4>2
        <5> HIDE DEF r
        <5>2. /\ Reopened(r) \in RowType /\ Reopened(r).scan = r.scan /\ Reopened(r).event = r.event
              /\ Reopened(r).state = "received" /\ Reopened(r).status = ""
              /\ ~Reopened(r).acknowledged /\ Reopened(r).applied = Reopened(r).moved
          BY <5>1, ReopenedRow
        <5>3. rows'[id] = Reopened(r)
          BY <4>1 DEF r
        <5> USE DEF r
        <5>4. QED
          BY <5>2, <5>3
      <4>4. QED
        BY <4>3
    <3>2. CASE id \notin Failed
      BY <1>2, <2>1, <3>2
    <3>3. QED
      BY <3>1, <3>2
  <2>3. DOMAIN rows' = DOMAIN rows /\ rows' = [id \in DOMAIN rows' |-> rows'[id]]
        /\ applied' \in [1..MaxScans -> Nat]
    BY <2>1 DEF Base, Typed
  <2>4. QED
    BY <1>1, <2>2, <2>3 DEF UIRows
<1>5. CASE DiscardFailedEvents
  <2>1. /\ rows' = [id \in DOMAIN rows \ Failed |-> rows[id]] /\ applied' = applied
    BY <1>5 DEF DiscardFailedEvents, Restrict
  <2>2. QED
    BY <1>1, <1>2, <2>1 DEF UIRows, Base, Typed
<1>6. QED
  BY <1>3, <1>4, <1>5

LEMMA UIRowsBase ==
  ASSUME Base, [Next]_vars, UIRows
  PROVE  Base'
<1>1. UNCHANGED <<made, outbox, nextId, toAck, request, response>>
  BY DEF UIRows
<1>2. /\ session' \in SessionType /\ Scans' = Scans /\ RowType' = RowType
      /\ made' \in Seq([id : Nat, event : Scannable'])
      /\ MaxScans' = MaxScans /\ Batch' = Batch
  BY <1>1, SameTypes DEF Base
<1>3. Typed'
  BY <1>1, <1>2 DEF Base, Typed, UIRows
<1>4. Rows'
  <2>1. ASSUME NEW id \in DOMAIN rows'
        PROVE  /\ made[rows'[id].scan].id = id
               /\ rows'[id].event = made[rows'[id].scan].event
               /\ rows'[id].state = "received" <=> rows'[id].status = ""
               /\ rows'[id].acknowledged => rows'[id].state = "completed"
               /\ rows'[id].applied = rows'[id].moved
    <3>1. /\ rows'[id].scan = rows[id].scan /\ rows'[id].event = rows[id].event /\ id \in DOMAIN rows
          /\ rows'[id].state = "received" <=> rows'[id].status = ""
          /\ rows'[id].acknowledged => rows[id].acknowledged /\ rows'[id] = rows[id]
          /\ rows'[id].applied = rows'[id].moved
      BY DEF UIRows
    <3>2. /\ made[rows[id].scan].id = id /\ rows[id].event = made[rows[id].scan].event
          /\ rows[id].acknowledged => rows[id].state = "completed"
      BY <3>1 DEF Base, Rows, Id
    <3>3. QED
      BY <3>1, <3>2
  <2>2. made' = made
    BY <1>1
  <2>3. \A id \in DOMAIN rows' :
          /\ made'[rows'[id].scan].id = id
          /\ rows'[id].event = made'[rows'[id].scan].event
          /\ rows'[id].state = "received" <=> rows'[id].status = ""
          /\ rows'[id].acknowledged => rows'[id].state = "completed"
          /\ rows'[id].applied = rows'[id].moved
    BY <2>1, <2>2
  <2>4. QED
    BY <2>3 DEF Rows, Id
<1>5. FirstOut' = FirstOut
  BY <1>1, <1>2 DEF FirstOut
<1>6. Exchange'
  <2>1. \A id \in DOMAIN rows' : id \in DOMAIN rows /\ rows'[id].event = rows[id].event
    BY DEF UIRows
  <2>2. response # None => \A s \in response.accepted :
          made[s].id \in DOMAIN rows' => rows'[made[s].id].event = made[s].event
    BY <2>1 DEF Base, Exchange, Id
  <2>3. QED
    BY <1>1, <1>2, <1>5, <2>2 DEF Base, Exchange, Id
<1>7. QED
  BY <1>3, <1>4, <1>6, BooksStep DEF Base

LEMMA BaseInit == ASSUME Init PROVE Base
<1>1. session \in SessionType
  BY InboxAssumption DEF Init
<1>2. Typed
  BY <1>1 DEF Init, Typed, Scans, MaxScans, SessionType
<1>3. Rows /\ Exchange
  BY DEF Init, Rows, Exchange, Scans
<1>4. Books
  BY <1>1, Quantity DEF Init, Books, SessionType, UnsavedChanges
<1>5. QED
  BY <1>2, <1>3, <1>4 DEF Base

LEMMA BaseStep == ASSUME Base, [Next]_vars PROVE Base'
BY QuietSteps, QuietBase, MakeScanBase, DeviceBase, AcceptBase, AnswerBase, UIRowsSteps,
   UIRowsBase DEF ScanStep

-----------------------------------------------------------------------------
(* No scan is applied twice *)

\* The row under the id of a scan that stands alone under it is its own.
LEMMA OwnRow ==
  ASSUME Base, NEW s \in Scans, Unambiguous(s), Id(s) \in DOMAIN rows
  PROVE  rows[Id(s)].scan = s /\ rows[Id(s)].event = made[s].event
<1>1. rows[Id(s)].scan \in Scans /\ Id(rows[Id(s)].scan) = Id(s)
  BY EventOfRow DEF Base, Rows, RowType
<1>2. rows[Id(s)].scan = s
  BY <1>1 DEF Unambiguous
<1>3. QED
  BY <1>2 DEF Base, Rows

LEMMA OnceFrame ==
  ASSUME Base, Once, [Next]_vars, made' = made, applied' = applied,
         \A s \in Scans : Unambiguous(s) => Waiting(s)' /\ Settled(s)'
  PROVE  Once'
<1>1. Scans' = Scans /\ MaxScans' = MaxScans /\ \A s : Unambiguous(s)' <=> Unambiguous(s)
  BY SameTypes DEF Base
<1>2. QED
  BY <1>1 DEF Once

LEMMA QuietOnce ==
  ASSUME Base, Once, [Next]_vars, Quiet
  PROVE  Once'
<1>1. made' = made /\ UNCHANGED <<outbox, toAck, rows, applied>>
      /\ request' \in {request, None} /\ response' \in {response, None}
  BY DEF Quiet
<1>2. FirstOut' = FirstOut
  BY <1>1, SameTypes DEF FirstOut, Base
<1>3. ASSUME NEW s \in Scans, Unambiguous(s) PROVE Waiting(s)' /\ Settled(s)'
  <2>1. Waiting(s) /\ Settled(s)
    BY <1>3 DEF Once
  <2>2. Id(s)' = Id(s)
    BY <1>1 DEF Id
  <2>3. Settled(s)'
    BY <1>1, <2>1, <2>2 DEF Settled
  <2>4. Waiting(s)'
    BY <1>1, <1>2, <2>1, <2>2 DEF Waiting
  <2>5. QED
    BY <2>3, <2>4
<1>4. QED
  BY <1>1, <1>3, OnceFrame

LEMMA MakeScanOnce ==
  ASSUME Base, Once, [Next]_vars, MakeScan
  PROVE  Once'
<1>0. PICK new : new = Len(made) + 1
  OBVIOUS
<1>2. Typed /\ Typed' /\ MaxScans \in Nat
  BY BaseStep DEF Base, Typed, MaxScans, SessionType
<1>3. /\ made'[new].id = nextId /\ outbox' = outbox \cup {new} /\ MaxScans' = MaxScans
      /\ UNCHANGED <<session, toAck, request, response, rows, applied>>
  BY <1>0, <1>2, ScanMade DEF MaxScans
<1>4. /\ Scans' = Scans \cup {new} /\ new \notin Scans /\ new \in 1..MaxScans
      /\ \A s \in Scans : made'[s] = made[s] /\ (Unambiguous(s)' => Unambiguous(s))
  BY <1>0, <1>2, ScanMade, ScansStay
<1>5. \A s \in outbox : s \in FirstOut => s \in FirstOut'
  BY <1>0, <1>2, <1>3, FirstStay
<1>6. ASSUME NEW s \in Scans, Unambiguous(s)'
      PROVE  Waiting(s)' /\ Settled(s)'
  <2>1. s # new /\ made'[s].id = made[s].id /\ Waiting(s) /\ Settled(s)
    BY <1>4, <1>6 DEF Once
  <2>2. Id(s)' = Id(s)
    BY <2>1 DEF Id
  <2>3. s \in outbox' => s \in outbox
    BY <1>3, <2>1
  <2>4. Settled(s)'
    BY <1>3, <2>1, <2>2, <2>3 DEF Settled
  <2>5. Waiting(s)'
    BY <1>3, <1>5, <2>1, <2>2, <2>3 DEF Waiting
  <2>6. QED
    BY <2>4, <2>5
<1>7. ASSUME Unambiguous(new)'
      PROVE  Waiting(new)' /\ Settled(new)'
  <2>1. \A s \in Scans : made[s].id # nextId
    BY <1>3, <1>4, <1>7 DEF Unambiguous, Id
  <2>2. nextId \notin toAck
    BY <2>1 DEF Base, Exchange, Id
  <2>3. nextId \notin DOMAIN rows
    BY <1>2, <2>1, RowsOfScans DEF Base
  <2>4. response # None => \A r \in response.results : r.id # nextId
    BY <2>1 DEF Base, Exchange, Id
  <2>5. applied[new] = 0
    BY <1>4 DEF Once
  <2>6. Id(new)' = nextId
    BY <1>3 DEF Id
  <2>7. Waiting(new)'
    BY <1>3, <2>2, <2>3, <2>4, <2>6 DEF Waiting
  <2>8. Settled(new)'
    BY <1>3, <2>5 DEF Settled
  <2>9. QED
    BY <2>7, <2>8
<1>8. \A s \in Scans' : Unambiguous(s)' => Waiting(s)' /\ Settled(s)'
  BY <1>4, <1>6, <1>7
<1>9. \A s \in 1..MaxScans' \ Scans' : applied'[s] = 0
  BY <1>3, <1>4 DEF Once
<1>10. QED
  BY <1>8, <1>9 DEF Once

LEMMA DeviceOnce ==
  ASSUME Base, Once, [Next]_vars, SendSync \/ ReceiveAnswer \/ DiscardStuckScan \/ ResetDevice
  PROVE  Once'
<1>1. /\ UNCHANGED <<made, rows, applied>> /\ outbox' \subseteq outbox
  BY DEF SendSync, ReceiveAnswer, DiscardStuckScan, ResetDevice, device, inbox, log
<1>2. \A s \in outbox' : s \in FirstOut => s \in FirstOut'
  BY <1>1, FirstStay DEF Base
<1>3. ASSUME NEW s \in Scans, Unambiguous(s) PROVE Waiting(s)' /\ Settled(s)'
  <2>1. Waiting(s) /\ Settled(s)
    BY <1>3 DEF Once
  <2>2. Settled(s)'
    BY <1>1, <2>1 DEF Settled, Id
  <2>3. CASE SendSync
    <3>1. /\ response' = None /\ request'.scans = FirstOut /\ toAck' = toAck
      BY <2>3 DEF SendSync, device
    <3>2. QED
      BY <1>1, <1>2, <2>1, <2>2, <3>1 DEF Waiting, Id
  <2>4. CASE ReceiveAnswer
    <3>1. /\ response # None /\ response' = None /\ request' = request
          /\ outbox' = outbox \ response.accepted
          /\ toAck' \subseteq toAck \cup {r.id : r \in response.results}
      BY <2>4 DEF ReceiveAnswer
    <3>2. request = None
      BY <3>1 DEF Base, Exchange
    <3>3. QED
      BY <1>1, <1>2, <2>1, <2>2, <3>1, <3>2 DEF Waiting, Id
  <2>5. CASE DiscardStuckScan
    BY <1>1, <1>2, <2>1, <2>2, <2>5 DEF DiscardStuckScan, Waiting, Id
  <2>6. CASE ResetDevice
    BY <2>2, <2>6 DEF ResetDevice, Waiting
  <2>7. QED
    BY <2>3, <2>4, <2>5, <2>6
<1>4. QED
  BY <1>1, <1>3, OnceFrame

\* What is acknowledged or pruned has left the outbox, and every waiting scan that has
\* a row is in the request.
LEMMA AcceptOnce ==
  ASSUME Base, Once, [Next]_vars, AcceptEvents
  PROVE  Once'
<1>1. UNCHANGED <<made, outbox, nextId, toAck, applied>>
  BY DEF AcceptEvents, device, log
<1>2. /\ request # None /\ request' = None /\ response = None
      /\ DOMAIN Kept \subseteq DOMAIN rows'
      /\ \A s \in request.scans : Id(s) \in DOMAIN rows'
      /\ \A id \in DOMAIN rows' :
           \/ id \in DOMAIN Kept /\ rows'[id] = Kept[id]
           \/ id \notin DOMAIN Kept /\ \E s \in request.scans : Id(s) = id /\ rows'[id] = Row(s)
      /\ response'.accepted = {s \in request.scans : ~Different(Kept, s)}
      /\ response'.results = {}
  BY AcceptedRows DEF Base
<1>3. /\ DOMAIN Kept \subseteq DOMAIN rows
      /\ \A id \in DOMAIN Kept :
           /\ Kept[id].event = rows[id].event /\ Kept[id].status = rows[id].status
           /\ Kept[id].acknowledged => rows[id].acknowledged \/ id \in request.acks
      /\ \A id \in DOMAIN rows \ DOMAIN Kept : rows[id].acknowledged \/ id \in request.acks
  BY <1>2, KeptRows DEF Base
<1>4. request.scans \subseteq FirstOut /\ FirstOut \subseteq outbox /\ outbox \subseteq Scans
      /\ request.acks \subseteq toAck
  BY <1>2 DEF Base, Exchange, FirstOut, Typed
<1>5. FirstOut' = FirstOut
  BY <1>1, SameTypes DEF FirstOut, Base
<1>6. ASSUME NEW s \in Scans, Unambiguous(s) PROVE Waiting(s)' /\ Settled(s)'
  <2>1. Waiting(s) /\ Settled(s)
    BY <1>6 DEF Once
  <2>2. Id(s) \in DOMAIN rows' /\ Id(s) \notin DOMAIN Kept => s \in request.scans /\ rows'[Id(s)] = Row(s)
    BY <1>2, <1>4, <1>6 DEF Unambiguous
  <2>3. Id(s) \in DOMAIN Kept =>
          /\ Id(s) \in DOMAIN rows /\ Id(s) \in DOMAIN rows' /\ rows'[Id(s)] = Kept[Id(s)]
          /\ rows'[Id(s)].status = rows[Id(s)].status
    BY <1>2, <1>3
  <2>4. s \in outbox => Id(s) \notin request.acks
    BY <1>4, <2>1 DEF Waiting
  <2>5. s \in outbox /\ Id(s) \in DOMAIN rows => Id(s) \in DOMAIN Kept /\ ~Kept[Id(s)].acknowledged
    BY <1>3, <2>1, <2>4 DEF Waiting
  <2>6. s \in outbox /\ Id(s) \in DOMAIN rows' =>
          /\ ~rows'[Id(s)].acknowledged
          /\ s \in request.scans
    <3>1. SUFFICES ASSUME s \in outbox, Id(s) \in DOMAIN rows'
                   PROVE  ~rows'[Id(s)].acknowledged /\ s \in request.scans
      OBVIOUS
    <3>2. CASE Id(s) \in DOMAIN Kept
      <4>1. Id(s) \in DOMAIN rows /\ s \in request.scans
        BY <1>2, <2>1, <2>3, <3>1, <3>2 DEF Waiting
      <4>2. ~rows'[Id(s)].acknowledged
        BY <2>3, <2>5, <3>1, <3>2, <4>1
      <4>3. QED
        BY <4>1, <4>2
    <3>3. CASE Id(s) \notin DOMAIN Kept
      <4>1. s \in request.scans /\ rows'[Id(s)] = Row(s)
        BY <2>2, <3>1, <3>3
      <4>2. ~Row(s).acknowledged
        BY NewRow
      <4>3. QED
        BY <4>1, <4>2
    <3>4. QED
      BY <3>2, <3>3
  <2>7. s \in request.scans => s \in response'.accepted
    <3>1. Id(s) \in DOMAIN Kept => Kept[Id(s)].event = made[s].event
      BY <1>3, <1>6, OwnRow
    <3>2. QED
      BY <1>2, <3>1 DEF Different
  <2>8. Waiting(s)'
    BY <1>1, <1>2, <1>4, <1>5, <2>1, <2>6, <2>7 DEF Waiting, Id
  <2>9. Settled(s)'
    <3>1. SUFFICES ASSUME applied[s] = 1
                   PROVE  IF Id(s) \in DOMAIN rows' THEN rows'[Id(s)].status = "completed"
                                                   ELSE s \notin outbox
      BY <1>1, <2>1 DEF Settled, Id
    <3>2. Id(s) \in DOMAIN Kept \/ s \notin outbox
      BY <2>1, <2>5, <3>1 DEF Settled
    <3>3. QED
      BY <1>4, <2>1, <2>2, <2>3, <3>1, <3>2 DEF Settled
  <2>10. QED
    BY <2>8, <2>9
<1>7. QED
  BY <1>1, <1>6, OnceFrame

LEMMA AnswerOnce ==
  ASSUME Base, Once, [Next]_vars, LoadResults \/ RefuseEvents
  PROVE  Once'
<1>1. UNCHANGED <<made, outbox, nextId, toAck, applied, rows>>
  BY DEF LoadResults, RefuseEvents, device, log, inbox
<1>2. FirstOut' = FirstOut
  BY <1>1, SameTypes DEF FirstOut, Base
<1>3. CASE RefuseEvents
  <2>1. request' = None /\ response'.loaded /\ response'.results = {}
    BY <1>3 DEF RefuseEvents, Refusal
  <2>2. ASSUME NEW s \in Scans, Unambiguous(s) PROVE Waiting(s)' /\ Settled(s)'
    BY <1>1, <1>2, <2>1, <2>2 DEF Once, Waiting, Settled, Id
  <2>3. QED
    BY <1>1, <2>2, OnceFrame
<1>4. CASE LoadResults
  <2>1. response # None /\ ~response.loaded /\ response'.loaded /\ request' = request
    BY <1>4, LoadedResults
  <2>2. response'.accepted = response.accepted
    BY <1>4, LoadedResults
  <2>3. request = None
    BY <2>1 DEF Base, Exchange
  <2>4. \A r \in response'.results : r.id \in DOMAIN rows
    BY <1>4, LoadedResults
  <2>5. ASSUME NEW s \in Scans, Unambiguous(s) PROVE Waiting(s)' /\ Settled(s)'
    <3>1. Waiting(s) /\ Settled(s)
      BY <2>5 DEF Once
    <3>2. s \in outbox /\ Id(s) \in DOMAIN rows => s \in response'.accepted
      BY <2>1, <2>2, <3>1 DEF Waiting
    <3>3. QED
      BY <1>1, <1>2, <2>1, <2>3, <2>4, <3>1, <3>2 DEF Waiting, Settled, Id
  <2>6. QED
    BY <1>1, <2>5, OnceFrame
<1>5. QED
  BY <1>3, <1>4

LEMMA UIOnce ==
  ASSUME Base, Once, [Next]_vars, CompleteEvent \/ RetryFailedEvents \/ DiscardFailedEvents
  PROVE  Once'
<1>1. /\ UIRows /\ UNCHANGED <<made, outbox, nextId, toAck, request, response>>
      /\ DOMAIN rows' \subseteq DOMAIN rows
      /\ \A id \in DOMAIN rows' : rows'[id].acknowledged => rows[id].acknowledged
  BY UIRowsSteps DEF UIRows
<1>2. FirstOut' = FirstOut
  BY <1>1, SameTypes DEF FirstOut, Base
<1>3. ASSUME NEW s \in Scans, Unambiguous(s) PROVE Waiting(s)'
  BY <1>1, <1>2, <1>3 DEF Once, Waiting, Id
<1>4. CASE RetryFailedEvents \/ DiscardFailedEvents
  <2>1. /\ applied' = applied
        /\ \A id \in DOMAIN rows \ Failed : id \in DOMAIN rows' /\ rows'[id] = rows[id]
    BY <1>4 DEF RetryFailedEvents, DiscardFailedEvents, Restrict, log
  <2>2. ASSUME NEW s \in Scans, Unambiguous(s) PROVE Settled(s)'
    <3>1. Settled(s)
      BY <2>2 DEF Once
    <3>2. applied[s] = 1 /\ Id(s) \in DOMAIN rows => Id(s) \notin Failed
      BY <3>1 DEF Settled, Failed
    <3>3. QED
      BY <1>1, <2>1, <3>1, <3>2 DEF Settled, Id
  <2>3. QED
    BY <1>1, <1>3, <2>1, <2>2, OnceFrame
<1>5. CASE CompleteEvent
  <2>1. /\ working \in DOMAIN rows /\ rows[working].state = "received"
        /\ rows[working].scan \in Scans /\ Id(rows[working].scan) = working
        /\ rows[working].status = ""
    BY <1>5, CompletedRow, EventOfRow DEF Base, Rows, Received, RowType
  <2>2. /\ DOMAIN rows' = DOMAIN rows
        /\ \A id \in DOMAIN rows \ {working} : rows'[id] = rows[id]
        /\ rows'[working].status = IF Applies(rows[working].event, store)
                                   THEN "completed" ELSE "failed"
    BY <1>5, <2>1, CompletedRow DEF Base
  <2>3. applied' = IF Applies(rows[working].event, store)
                   THEN [applied EXCEPT ![rows[working].scan] = @ + 1] ELSE applied
    BY <1>5 DEF CompleteEvent
  <2>4. /\ applied \in [1..MaxScans -> Nat] /\ Scans \subseteq 1..MaxScans
        /\ Scans' = Scans /\ MaxScans' = MaxScans /\ \A s : Unambiguous(s)' <=> Unambiguous(s)
    BY <1>1, ScansStay, SameTypes DEF Base, Typed
  <2>5. ASSUME NEW s \in Scans, Unambiguous(s) PROVE Settled(s)'
    <3>1. Settled(s) /\ applied[s] \in Nat
      BY <2>4, <2>5 DEF Once
    <3>2. CASE s = rows[working].scan
      <4>1. Id(s) = working /\ applied[s] = 0
        <5>1. Id(s) = working
          BY <2>1, <3>2
        <5>2. applied[s] # 1
          BY <2>1, <3>1, <5>1 DEF Settled
        <5>3. applied[s] <= 1 /\ applied[s] \in Nat
          BY <3>1 DEF Settled
        <5>4. QED
          BY <5>1, <5>2, <5>3
      <4>2. applied'[s] = IF Applies(rows[working].event, store) THEN 1 ELSE 0
        BY <2>3, <2>4, <3>2, <4>1
      <4>3. applied'[s] = 1 => rows'[working].status = "completed"
        BY <2>2, <4>2
      <4>4. Id(s)' = working /\ working \in DOMAIN rows'
        BY <1>1, <2>1, <2>2, <4>1 DEF Id
      <4>5. applied'[s] <= 1
        BY <4>2
      <4>6. QED
        BY <4>3, <4>4, <4>5 DEF Settled
    <3>3. CASE s # rows[working].scan
      <4>1. Id(s) # working
        BY <2>1, <2>5, <3>3 DEF Unambiguous
      <4>2. applied'[s] = applied[s]
        BY <2>3, <2>4, <3>3
      <4>3. QED
        BY <1>1, <2>2, <3>1, <4>1, <4>2 DEF Settled, Id
    <3>4. QED
      BY <3>2, <3>3
  <2>6. \A s \in 1..MaxScans \ Scans : applied'[s] = 0
    BY <2>1, <2>3, <2>4 DEF Once
  <2>7. QED
    BY <1>3, <2>4, <2>5, <2>6 DEF Once
<1>6. QED
  BY <1>4, <1>5

LEMMA OnceStep == ASSUME Base, Once, [Next]_vars PROVE Once'
BY QuietSteps, QuietOnce, MakeScanOnce, DeviceOnce, AcceptOnce, AnswerOnce, UIOnce DEF ScanStep

LEMMA OnceInit == ASSUME Init PROVE Once
BY DEF Init, Once, Scans

LEMMA Invariant == Spec => [](Base /\ Once)
<1>1. Init => Base /\ Once
  BY BaseInit, OnceInit
<1>2. Base /\ Once /\ [Next]_vars => (Base /\ Once)'
  BY BaseStep, OnceStep
<1>3. QED
  BY <1>1, <1>2, PTL DEF Spec

\* No scan changes the stock twice, whatever is lost, resent, reopened, discarded,
\* pruned or interrupted between the insert of its row and its acknowledgement
\* (acceptDeviceSyncEvents, completeDeviceSyncEvent).
THEOREM ScansAppliedOnce == Spec => []AppliedOnce
<1>1. Base /\ Once => AppliedOnce
  BY DEF Once, Settled, AppliedOnce
<1>2. QED
  BY <1>1, Invariant, PTL

\* What the device is told is what was recorded for its event, and an accepted id
\* is that of the stored event (App::processDeviceSyncEvents, storedEventIdentity).
THEOREM DeviceToldTheTruth == Spec => []ToldTheTruth
<1>1. Base => ToldTheTruth
  BY DEF Base, Rows, Exchange, ToldTheTruth
<1>2. QED
  BY <1>1, Invariant, PTL

-----------------------------------------------------------------------------
(* The history explains the stock *)

CanSave == \A x \in Sessions : ~x.unsavedStarts

\* Where every start can save what loading repaired, the newest commit and the ledger
\* agree with the stock (App::saveInventoryState, completeDeviceSyncEvent).
THEOREM HistoryExplainsStock == ASSUME CanSave PROVE Spec => []HistoryMatchesStock
<1>1. Init => History
  BY DEF Init, CanSave, History, HistoryMatchesStock
<1>2. Base /\ History /\ [Next]_vars => History'
  BY BooksStep DEF Base
<1>3. History => HistoryMatchesStock
  BY DEF History
<1>4. QED
  BY <1>1, <1>2, <1>3, Invariant, PTL DEF Spec

-----------------------------------------------------------------------------
(* No scan is lost *)

LEMMA MakeScanTraced ==
  ASSUME Base, Accounted, [Next]_vars, MakeScan
  PROVE  Accounted'
<1>0. PICK new : new = Len(made) + 1
  OBVIOUS
<1>2. Typed
  BY DEF Base
<1>3. /\ made'[new].id = nextId /\ outbox' = outbox \cup {new}
      /\ UNCHANGED <<toAck, request, response, rows, shown, discarded, dropped>>
  BY <1>0, <1>2, ScanMade
<1>4. /\ Scans' = Scans \cup {new} /\ new \notin Scans
      /\ \A s \in Scans : made'[s] = made[s] /\ (Unambiguous(s)' => Unambiguous(s))
  BY <1>0, <1>2, ScanMade, ScansStay
<1>5. ASSUME NEW s \in Scans, Unambiguous(s)' PROVE Traced(s)'
  <2>1. made'[s].id = made[s].id /\ Traced(s)
    BY <1>4, <1>5 DEF Accounted
  <2>2. QED
    BY <1>3, <2>1 DEF Traced, Held, Seen, Id
<1>6. ASSUME Unambiguous(new)' PROVE Traced(new)'
  <2>1. \A s \in Scans : made[s].id # nextId
    BY <1>3, <1>4, <1>6 DEF Unambiguous, Id
  <2>2. nextId \notin toAck
    BY <2>1 DEF Base, Exchange, Id
  <2>3. nextId \notin DOMAIN rows
    BY <2>1, RowsOfScans DEF Base
  <2>4. response # None => new \notin response.accepted
    BY <1>4 DEF Base, Exchange
  <2>5. QED
    BY <1>3, <2>2, <2>3, <2>4 DEF Traced, Id
<1>7. QED
  BY <1>4, <1>5, <1>6 DEF Accounted

\* A pruned row was acknowledged, and what is acknowledged was seen by the device.
LEMMA AcceptTraced ==
  ASSUME Base, Accounted, AcceptEvents, made' = made,
         NEW s \in Scans, Unambiguous(s)
  PROVE  Traced(s)'
<1>1. UNCHANGED <<made, outbox, toAck, shown, discarded, dropped>>
  BY DEF AcceptEvents, device, log
<1>2. /\ request # None
      /\ DOMAIN Kept \subseteq DOMAIN rows'
      /\ \A t \in request.scans : Id(t) \in DOMAIN rows'
      /\ \A id \in DOMAIN rows' :
           \/ id \in DOMAIN Kept /\ rows'[id] = Kept[id]
           \/ id \notin DOMAIN Kept /\ \E t \in request.scans : Id(t) = id /\ rows'[id] = Row(t)
      /\ response'.accepted = {t \in request.scans : ~Different(Kept, t)}
  BY AcceptedRows DEF Base
<1>3. /\ DOMAIN Kept \subseteq DOMAIN rows
      /\ \A id \in DOMAIN Kept :
           Kept[id].acknowledged => rows[id].acknowledged \/ id \in request.acks
      /\ \A id \in DOMAIN rows \ DOMAIN Kept : rows[id].acknowledged \/ id \in request.acks
  BY <1>2, KeptRows DEF Base
<1>4. request.acks \subseteq toAck
  BY <1>2 DEF Base, Exchange
<1>5. Traced(s)
  BY DEF Accounted
<1>6. Id(s) \in DOMAIN rows => Id(s) \in DOMAIN rows' \/ Seen(s)
  BY <1>2, <1>3, <1>4, <1>5 DEF Traced
<1>7. Id(s) \in DOMAIN rows' /\ rows'[Id(s)].acknowledged => Seen(s)
  <2>1. CASE Id(s) \in DOMAIN Kept
    BY <1>2, <1>3, <1>4, <1>5, <2>1 DEF Traced
  <2>2. CASE Id(s) \notin DOMAIN Kept
    <3>1. SUFFICES ASSUME Id(s) \in DOMAIN rows' PROVE ~rows'[Id(s)].acknowledged
      OBVIOUS
    <3>2. PICK t \in request.scans : rows'[Id(s)] = Row(t)
      BY <1>2, <2>2, <3>1
    <3>3. ~Row(t).acknowledged
      BY NewRow
    <3>4. QED
      BY <3>2, <3>3
  <2>3. QED
    BY <2>1, <2>2
<1>8. s \in response'.accepted => Id(s) \in DOMAIN rows'
  BY <1>2
<1>9. QED
  BY <1>1, <1>5, <1>6, <1>7, <1>8 DEF Traced, Held, Seen, Id

LEMMA AccountedStep == ASSUME Base, Accounted, [Next]_vars PROVE Accounted'
<1>1. CASE MakeScan
  BY <1>1, MakeScanTraced
<1>2. CASE ~MakeScan
  <2>1. made' = made
    BY <1>2, SameMade
  <2>2. ASSUME NEW s \in Scans, Unambiguous(s) PROVE Traced(s)'
    <3>1. Traced(s)
      BY <2>2 DEF Accounted
    <3>2. CASE Quiet
      BY <2>1, <3>1, <3>2 DEF Quiet, Traced, Held, Seen, Id
    <3>3. CASE SendSync
      BY <2>1, <3>1, <3>3 DEF SendSync, device, inbox, log, Traced, Held, Seen, Id
    <3>4. CASE ReceiveAnswer
      <4>1. /\ response # None /\ response' = None /\ outbox' = outbox \ response.accepted
            /\ toAck' \subseteq toAck \cup {r.id : r \in response.results}
            /\ shown' = shown \cup {[scan |-> r.scan, status |-> r.status] : r \in response.results}
            /\ UNCHANGED <<rows, discarded, dropped>>
        BY <3>4 DEF ReceiveAnswer, inbox, log
      <4>2. \A r \in response.results : r.id = Id(s) => r.scan = s
        BY <2>2, <4>1 DEF Base, Exchange, Unambiguous
      <4>3. \A r \in response.results : r.id = Id(s) => \E x \in shown' : x.scan = s
        <5>1. SUFFICES ASSUME NEW r \in response.results, r.id = Id(s)
                       PROVE  \E x \in shown' : x.scan = s
          OBVIOUS
        <5>2. [scan |-> s, status |-> r.status] \in shown'
          BY <4>1, <4>2, <5>1
        <5>3. QED
          BY <5>2
      <4>4. Seen(s) => Seen(s)'
        BY <4>1 DEF Seen
      <4>5. Id(s) \in toAck' => Seen(s)'
        BY <3>1, <4>1, <4>3, <4>4 DEF Traced, Seen
      <4>6. QED
        BY <2>1, <3>1, <4>1, <4>4, <4>5 DEF Traced, Held, Id
    <3>5. CASE DiscardStuckScan
      BY <2>1, <3>1, <3>5 DEF DiscardStuckScan, inbox, log, Traced, Held, Seen, Id
    <3>6. CASE ResetDevice
      BY <2>1, <3>1, <3>6 DEF ResetDevice, inbox, log, Traced, Held, Seen, Id
    <3>7. CASE AcceptEvents
      BY <2>1, <2>2, <3>7, AcceptTraced
    <3>8. CASE LoadResults \/ RefuseEvents
      <4>1. UNCHANGED <<outbox, toAck, rows, shown, discarded, dropped>>
        BY <3>8 DEF LoadResults, RefuseEvents, device, inbox, log
      <4>2. s \in response'.accepted => response # None /\ s \in response.accepted
        <5>1. CASE LoadResults
          BY <5>1 DEF LoadResults
        <5>2. CASE RefuseEvents
          BY <5>2 DEF RefuseEvents, Refusal
        <5>3. QED
          BY <3>8, <5>1, <5>2
      <4>3. QED
        BY <2>1, <3>1, <4>1, <4>2 DEF Traced, Held, Seen, Id
    <3>9. CASE CompleteEvent \/ RetryFailedEvents \/ DiscardFailedEvents
      <4>1. /\ UNCHANGED <<outbox, toAck, response, shown, dropped>>
            /\ \A id \in DOMAIN rows' : rows'[id].acknowledged => rows[id].acknowledged
            /\ DOMAIN rows' \subseteq DOMAIN rows
        BY <3>9, UIRowsSteps DEF UIRows
      <4>2. /\ discarded \subseteq discarded'
            /\ Id(s) \in DOMAIN rows => Id(s) \in DOMAIN rows' \/ s \in discarded'
        <5>1. CASE DiscardFailedEvents
          <6>1. /\ discarded' = discarded \cup {rows[id].scan : id \in Failed}
                /\ \A id \in DOMAIN rows \ Failed : id \in DOMAIN rows'
            BY <5>1 DEF DiscardFailedEvents, Restrict
          <6>2. QED
            BY <2>2, <6>1, OwnRow
        <5>2. CASE CompleteEvent \/ RetryFailedEvents
          BY <5>2 DEF CompleteEvent, RetryFailedEvents, log
        <5>3. QED
          BY <3>9, <5>1, <5>2
      <4>3. QED
        BY <2>1, <3>1, <4>1, <4>2 DEF Traced, Held, Seen, Id
    <3>10. QED
      BY <1>2, <3>2, <3>3, <3>4, <3>5, <3>6, <3>7, <3>8, <3>9, QuietSteps DEF ScanStep
  <2>3. Scans' = Scans /\ \A s : Unambiguous(s)' <=> Unambiguous(s)
    BY <2>1, SameTypes DEF Base
  <2>4. QED
    BY <2>2, <2>3 DEF Accounted
<1>3. QED
  BY <1>1, <1>2

\* A scan is on the device, in the inbox, or settled with the device's or the user's
\* knowledge (acceptDeviceSyncEvents, pruneAcknowledgedResults, changeFailedEvents).
THEOREM ScansNotLost == Spec => []NoScanLost
<1>1. Init => Accounted
  BY DEF Init, Accounted, Scans
<1>2. Base /\ Accounted /\ [Next]_vars => Accounted'
  BY AccountedStep
<1>3. Base /\ Accounted => NoScanLost
  <2>1. SUFFICES ASSUME Base, Accounted, NEW s \in Scans, Unambiguous(s)
                 PROVE  \/ s \in outbox \cup discarded \cup dropped
                        \/ \E id \in DOMAIN rows : rows[id].scan = s
                        \/ \E result \in shown : result.scan = s
    BY DEF NoScanLost
  <2>2. Traced(s)
    BY <2>1 DEF Accounted
  <2>3. QED
    BY <2>1, <2>2, OwnRow DEF Traced, Held, Seen
<1>4. QED
  BY <1>1, <1>2, <1>3, Invariant, PTL DEF Spec

-----------------------------------------------------------------------------
(* What is acknowledged was shown *)

LEMMA LastingStep == ASSUME Base, Once, Lasting, [Next]_vars PROVE Lasting'
<1>1. session'.retries = 0 /\ session'.resets = 0
  BY SessionStep DEF Base, Typed, Lasting, SameInputs
<1>2. \A s \in Scans : Unambiguous(s)
  BY DEF Lasting, Unambiguous
<1>3. CASE Quiet
  BY <1>1, <1>3 DEF Quiet, Lasting, Sent, Scans, Id
<1>4. CASE MakeScan
  <2>2. Typed /\ Len(made) \in Nat /\ nextId = Len(made) + 1
    BY DEF Base, Typed, Lasting
  <2>3. /\ Len(made') = Len(made) + 1 /\ nextId' = nextId + 1
        /\ made'[nextId].id = nextId /\ Scans' = Scans \cup {nextId}
        /\ UNCHANGED <<toAck, response, rows, shown>>
    BY <1>4, <2>2, ScanMade
  <2>4. \A s \in Scans : made'[s] = made[s]
    BY <2>2, ScansStay
  <2>5. \A s \in Scans' : made'[s].id = s
    BY <2>3, <2>4 DEF Lasting, Id
  <2>6. QED
    BY <1>1, <2>2, <2>3, <2>5 DEF Lasting, Sent, Id
<1>5. CASE SendSync \/ DiscardStuckScan
  BY <1>1, <1>5 DEF SendSync, DiscardStuckScan, device, inbox, Lasting, Sent, Scans, Id
<1>6. CASE ReceiveAnswer
  <2>1. /\ response # None /\ response' = None /\ UNCHANGED <<made, nextId, rows>>
        /\ toAck' \subseteq toAck \cup {r.id : r \in response.results}
        /\ shown' = shown \cup {[scan |-> r.scan, status |-> r.status] : r \in response.results}
    BY <1>6 DEF ReceiveAnswer, inbox
  <2>2. \A id \in DOMAIN rows : Sent(id) => Sent(id)'
    BY <2>1 DEF Sent
  <2>3. \A r \in response.results : r.id \in DOMAIN rows =>
          rows[r.id].state = "completed" /\ Sent(r.id)'
    BY <2>1 DEF Lasting, Sent
  <2>4. \A id \in toAck' \cap DOMAIN rows' : rows'[id].state = "completed" /\ Sent(id)'
    BY <2>1, <2>2, <2>3 DEF Lasting
  <2>5. \A id \in DOMAIN rows' : rows'[id].acknowledged => Sent(id)'
    BY <2>1, <2>2 DEF Lasting
  <2>6. QED
    BY <1>1, <2>1, <2>4, <2>5 DEF Lasting, Scans, Id
<1>7. CASE ResetDevice
  BY <1>7 DEF ResetDevice, Use, Left, Lasting
<1>8. CASE AcceptEvents
  <2>1. UNCHANGED <<made, outbox, nextId, toAck, shown>>
    BY <1>8 DEF AcceptEvents, device
  <2>2. /\ request # None
        /\ \A id \in DOMAIN rows' :
             \/ id \in DOMAIN Kept /\ rows'[id] = Kept[id]
             \/ id \notin DOMAIN Kept /\ \E t \in request.scans : Id(t) = id /\ rows'[id] = Row(t)
        /\ response'.results = {}
    BY <1>8, AcceptedRows DEF Base
  <2>3. \A id \in DOMAIN Kept :
          /\ id \in DOMAIN rows
          /\ Kept[id].scan = rows[id].scan /\ Kept[id].status = rows[id].status
          /\ Kept[id].state = rows[id].state
          /\ Kept[id].acknowledged => rows[id].acknowledged \/ id \in request.acks
    BY <2>2, KeptRows DEF Base
  <2>4. request.acks \subseteq toAck /\ request.scans \subseteq outbox /\ outbox \subseteq Scans
    BY <2>2 DEF Base, Exchange, FirstOut, Typed
  <2>5. ASSUME NEW id \in DOMAIN rows'
        PROVE  /\ rows'[id].acknowledged => Sent(id)'
               /\ id \in toAck => rows'[id].state = "completed" /\ Sent(id)'
    <3>1. CASE id \in DOMAIN Kept
      <4>1. Sent(id)' <=> Sent(id)
        BY <2>1, <2>2, <2>3, <3>1 DEF Sent
      <4>2. rows'[id].acknowledged => rows[id].acknowledged \/ id \in toAck
        BY <2>2, <2>3, <2>4, <3>1
      <4>3. QED
        BY <2>2, <2>3, <3>1, <4>1, <4>2 DEF Lasting
    <3>2. CASE id \notin DOMAIN Kept
      <4>1. PICK t \in request.scans : Id(t) = id /\ rows'[id] = Row(t)
        BY <2>2, <3>2
      <4>2. id \notin toAck
        BY <1>2, <2>4, <4>1 DEF Once, Waiting
      <4>3. ~Row(t).acknowledged
        BY NewRow
      <4>4. QED
        BY <4>1, <4>2, <4>3
    <3>3. QED
      BY <3>1, <3>2
  <2>6. QED
    BY <1>1, <2>1, <2>2, <2>5 DEF Lasting, Scans, Id
<1>9. CASE LoadResults
  <2>1. UNCHANGED <<made, nextId, toAck, rows, shown>>
    BY <1>9 DEF LoadResults, device, inbox
  <2>2. \A r \in response'.results :
          \E id \in DOMAIN rows : /\ rows[id].state = "completed"
                                  /\ r.id = id /\ r.scan = rows[id].scan /\ r.status = rows[id].status
    BY <1>9, LoadedResults
  <2>3. QED
    BY <1>1, <2>1, <2>2 DEF Lasting, Sent, Scans, Id
<1>10. CASE RefuseEvents
  BY <1>1, <1>10 DEF RefuseEvents, Refusal, device, inbox, Lasting, Sent, Scans, Id
<1>11. CASE CompleteEvent \/ DiscardFailedEvents
  <2>1. UNCHANGED <<made, nextId, toAck, response, shown>>
    BY <1>11 DEF CompleteEvent, DiscardFailedEvents, device
  <2>2. \A id \in DOMAIN rows' :
          /\ id \in DOMAIN rows
          /\ rows[id].state = "completed" => rows'[id] = rows[id]
          /\ rows'[id].acknowledged => rows[id].acknowledged
    <3>1. CASE CompleteEvent
      BY <3>1, CompletedRow DEF Base, Received
    <3>2. CASE DiscardFailedEvents
      BY <3>2 DEF DiscardFailedEvents, Restrict
    <3>3. QED
      BY <1>11, <3>1, <3>2
  <2>3. \A id \in DOMAIN rows : rows[id].acknowledged => rows[id].state = "completed"
    BY DEF Base, Rows
  <2>4. \A id \in DOMAIN rows' : rows[id].state = "completed" => (Sent(id)' <=> Sent(id))
    BY <2>1, <2>2 DEF Sent
  <2>5. \A id \in DOMAIN rows' : rows'[id].acknowledged => Sent(id)'
    BY <2>2, <2>3, <2>4 DEF Lasting
  <2>6. \A id \in toAck' \cap DOMAIN rows' : rows'[id].state = "completed" /\ Sent(id)'
    BY <2>1, <2>2, <2>4 DEF Lasting
  <2>7. response' # None => \A r \in response'.results : r.id \in DOMAIN rows' =>
          rows'[r.id].state = "completed" /\ rows'[r.id].scan = r.scan /\ rows'[r.id].status = r.status
    BY <2>1, <2>2 DEF Lasting
  <2>8. QED
    BY <1>1, <2>1, <2>5, <2>6, <2>7 DEF Lasting, Scans, Id
<1>12. CASE RetryFailedEvents
  BY <1>12 DEF RetryFailedEvents, Use, Left, Lasting
<1>13. QED
  BY <1>3, <1>4, <1>5, <1>6, <1>7, <1>8, <1>9, <1>10, <1>11, <1>12, QuietSteps DEF ScanStep

OneNumbering == \A x \in Sessions : x.retries = 0 /\ x.resets = 0

\* Without a retry, and as long as the device numbers its scans once, no result is
\* acknowledged that the device was not sent (acknowledgeResult, loadResults).
THEOREM AcknowledgedShown == ASSUME OneNumbering PROVE Spec => []AcknowledgedWasShown
<1>1. Init => Lasting
  BY DEF Init, OneNumbering, Lasting, Scans
<1>2. Base /\ Once /\ Lasting /\ [Next]_vars => Lasting'
  BY LastingStep
<1>3. Lasting => AcknowledgedWasShown
  BY DEF Lasting, Sent, AcknowledgedWasShown
<1>4. QED
  BY <1>1, <1>2, <1>3, Invariant, PTL DEF Spec

-----------------------------------------------------------------------------
(* The inbox implements the ledger of scans *)

Effects == [s \in Scans |-> made[s].event]
Effective == {s \in Scans : applied[s] > 0}
Tallies == saves \in Nat /\ repeats \in Nat

LEMMA TalliesStep == ASSUME Tallies, [Next]_vars PROVE Tallies'
<1>1. saves' \in {saves, saves + 1} /\ repeats' \in {repeats, repeats + 1}
  <2>1. CASE UNCHANGED <<saves, repeats>>
    BY <2>1
  <2>2. CASE CompleteEvent
    BY <2>2 DEF CompleteEvent
  <2>3. CASE ChangeStock \/ RetrySave
    BY <2>3 DEF ChangeStock, RetrySave, SaveInventory, log
  <2>4. QED
    BY <2>1, <2>2, <2>3
    DEF Next, vars, app, log, MakeScan, SendSync, ReceiveAnswer, LoseMessage, DiscardStuckScan,
        ResetDevice, AcceptEvents, LoadResults, RefuseEvents, AcceptFails, TakePending,
        CompleteFails, ChangeUnsaved, RetryFailedEvents, DiscardFailedEvents, Crash, StartApp,
        StartUnsaved
<1>2. QED
  BY <1>1 DEF Tallies

\* The ledger speaks of the same scans and stocks.
LEMMA SameEffects ==
  /\ Ledger!Events = Events /\ Ledger!Stocks = Stocks
  /\ \A e, q : /\ Ledger!Applies(e, q) <=> Applies(e, q)
               /\ Ledger!StockAfter(e, q) = StockAfter(e, q)
<1>1. Ledger!Events = Events /\ Ledger!Stocks = Stocks
  BY DEF Ledger!Events, Events, Ledger!Stocks, Stocks, Ledger!Quantities, Quantities
<1>2. \A e, q : Ledger!Applies(e, q) <=> Applies(e, q)
  BY DEF Ledger!Applies, Applies
<1>3. \A n : Ledger!Clamp(n) = Clamp(n)
  BY DEF Ledger!Clamp, Clamp
<1>4. \A q : Ledger!Amount(q) = Amount(q)
  BY DEF Ledger!Amount, Amount
<1>5. \A e, q : Ledger!StockAfter(e, q) = StockAfter(e, q)
  BY <1>2, <1>3, <1>4 DEF Ledger!StockAfter, StockAfter
<1>6. QED
  BY <1>1, <1>2, <1>5

LEMMA SequenceOfLength ==
  ASSUME NEW S, NEW n \in Nat, NEW f \in [1..n -> S]
  PROVE  f \in Seq(S) /\ Len(f) = n
<1>1. f \in Seq(S)
  BY SeqDef
<1>2. 1..n = 1..Len(f) /\ Len(f) \in Nat
  BY <1>1, LenProperties
<1>3. QED
  BY <1>1, <1>2

\* A new scan follows the earlier ones, and has had no effect.
LEMMA MakeScanLedger ==
  ASSUME Base, Once, [Next]_vars, MakeScan
  PROVE  Ledger!MakeScan
<1>0. PICK new : new = Len(made) + 1
  OBVIOUS
<1> DEFINE n == Len(made)
<1>1. /\ new \notin Scans /\ Scans' = Scans \cup {new} /\ new \in 1..MaxScans
      /\ made' \in Seq([id : Nat, event : Scannable]) /\ Len(made') = new
      /\ \A s \in Scans : made'[s] = made[s]
      /\ applied' = applied
  BY <1>0, ScanMade DEF Base
<1>2. made \in Seq([id : Nat, event : Scannable]) /\ n \in Nat /\ Scannable \subseteq Events
  BY DEF Base, Typed, SessionType, Scannable
<1>3. Scans = 1..n /\ Scans' = 1..new /\ new = n + 1
  BY <1>0, <1>1, <1>2 DEF Scans
<1>4. \A s \in Scans : made[s].event \in Events
  <2>1. \A s \in 1..n : made[s] \in [id : Nat, event : Scannable]
    BY <1>2, ElementOfSeq
  <2>2. QED
    BY <1>2, <1>3, <2>1
<1>5. \A s \in Scans' : made'[s].event \in Events
  <2>1. \A s \in 1..new : made'[s] \in [id : Nat, event : Scannable]
    BY <1>1, ElementOfSeq
  <2>2. QED
    BY <1>2, <1>3, <2>1
<1>6. Effects \in Seq(Events) /\ Len(Effects) = n
  BY <1>2, <1>3, <1>4, SequenceOfLength DEF Effects
<1>7. Effects' \in Seq(Events) /\ Len(Effects') = new
  <2>1. Effects' \in [1..new -> Events]
    BY <1>3, <1>5 DEF Effects
  <2>2. QED
    BY <1>2, <1>3, <2>1, SequenceOfLength
<1>8. \A s \in 1..n : Effects'[s] = Effects[s]
  BY <1>1, <1>3 DEF Effects
<1>9. SubSeq(Effects', 1, n) = Effects
  <2>1. \A s \in 1..n : Effects'[s] \in Events
    BY <1>3, <1>5 DEF Effects
  <2>2. /\ SubSeq(Effects', 1, n) \in Seq(Events)
        /\ Len(SubSeq(Effects', 1, n)) = n
        /\ \A s \in 1..n : SubSeq(Effects', 1, n)[s] = Effects'[s]
    BY <1>2, <2>1, SubSeqProperties
  <2>3. QED
    BY <1>6, <1>8, <2>2, SeqEqual
<1>10. Effects'[new] \in Events
  BY <1>3, <1>5, <1>2 DEF Effects
<1>11. Effective' = Effective
  BY <1>1 DEF Once, Effective
<1>12. UNCHANGED <<stock, saves, repeats>>
  BY DEF MakeScan, books, app, log
<1>13. /\ Len(Effects') = Len(Effects) + 1
       /\ SubSeq(Effects', 1, Len(Effects)) = Effects
       /\ Effects'[Len(Effects')] \in Ledger!Events
  BY <1>3, <1>6, <1>7, <1>9, <1>10, SameEffects
<1>14. UNCHANGED <<stock, Effective, saves + repeats>>
  BY <1>11, <1>12
<1>15. QED
  BY <1>13, <1>14, Zenon DEF Ledger!MakeScan, Effects, Effective

\* An event that applies is the first effect of its scan, or the repeat of one that is
\* taken for another; one that does not apply leaves the stock alone.
LEMMA CompleteLedger ==
  ASSUME Base, Once, Tallies, [Next]_vars, CompleteEvent
  PROVE  \/ Ledger!ApplyScan \/ Ledger!UserSave
         \/ UNCHANGED <<Effects, stock, Effective, saves, repeats>>
<1> DEFINE row == rows[working]
<1>1. /\ made' = made /\ saves' = saves /\ working \in DOMAIN rows /\ working # None
      /\ stock' = StockAfter(row.event, store)
      /\ applied' = IF Applies(row.event, store)
                    THEN [applied EXCEPT ![row.scan] = @ + 1] ELSE applied
      /\ repeats' = IF Applies(row.event, store) /\ applied[row.scan] > 0 /\ ~Unambiguous(row.scan)
                    THEN repeats + 1 ELSE repeats
  BY InboxAssumption DEF CompleteEvent, Received, device, WriteItems, Base, Typed
<1>2. store = stock /\ stock \in Stocks
  BY <1>1 DEF Base, Books, UnsavedChanges
<1>3. row.scan \in Scans /\ row.event = made[row.scan].event /\ row.event \in Events
  BY <1>1, EventOfRow DEF Base, Rows, RowType
<1>4. applied \in [1..MaxScans -> Nat] /\ Scans \subseteq 1..MaxScans /\ Scans' = Scans
  BY <1>1, ScansStay, SameTypes DEF Base, Typed
<1>5. Effects' = Effects
  BY <1>1, <1>4 DEF Effects
<1> HIDE DEF row
<1>6. CASE ~Applies(row.event, store)
  <2>1. UNCHANGED <<stock, applied, repeats>>
    BY <1>1, <1>2, <1>6 DEF StockAfter
  <2>2. QED
    BY <1>1, <1>4, <1>5, <2>1 DEF Effective
<1>7. CASE Applies(row.event, store)
  <2>1. \A s \in Scans : applied'[s] = IF s = row.scan THEN applied[s] + 1 ELSE applied[s]
    BY <1>1, <1>3, <1>4, <1>7
  <2>2. Effective' = Effective \cup {row.scan}
    <3>1. \A s \in Scans : applied[s] \in Nat
      BY <1>4
    <3>2. \A s \in Scans : applied'[s] > 0 <=> applied[s] > 0 \/ s = row.scan
      BY <2>1, <3>1
    <3>3. QED
      BY <1>3, <1>4, <3>2 DEF Effective
  <2>3. CASE applied[row.scan] = 0
    <3>1. row.scan \in Scans \ Effective
      BY <1>3, <2>3 DEF Effective
    <3>2. repeats' = repeats
      BY <1>1, <2>3
    <3>3. DOMAIN Effects = Scans /\ Effects[row.scan] = row.event
      BY <1>3 DEF Effects
    <3>4. Ledger!ApplyScan
      <4>1. row.scan \in DOMAIN Effects \ Effective /\ Ledger!Applies(Effects[row.scan], stock)
            /\ stock' = Ledger!StockAfter(Effects[row.scan], stock)
        BY <1>1, <1>2, <1>7, <3>1, <3>3, SameEffects
      <4>2. UNCHANGED <<Effects, saves + repeats>>
        BY <1>1, <1>5, <3>2
      <4>3. QED
        BY <2>2, <4>1, <4>2, Zenon DEF Ledger!ApplyScan, Effects, Effective
    <3>5. QED
      BY <3>4
  <2>4. CASE applied[row.scan] # 0
    <3>1. applied[row.scan] > 0
      <4>1. applied[row.scan] \in Nat
        BY <1>3, <1>4
      <4>2. QED
        BY <2>4, <4>1
    <3>2. ~Unambiguous(row.scan)
      <4>1. SUFFICES ASSUME Unambiguous(row.scan) PROVE FALSE
        OBVIOUS
      <4>2. Settled(row.scan) /\ Id(row.scan) = working
        BY <1>1, <1>3, <4>1 DEF Once, Base, Rows, row
      <4>3. applied[row.scan] = 1
        <5>1. applied[row.scan] \in Nat
          BY <1>3, <1>4
        <5>2. applied[row.scan] <= 1
          BY <4>2 DEF Settled
        <5>3. QED
          BY <3>1, <5>1, <5>2
      <4>4. row.status = "completed"
        BY <1>1, <4>2, <4>3 DEF Settled, row
      <4>5. row.status = ""
        BY <1>1 DEF CompleteEvent, Received, Base, Rows, row
      <4>6. QED
        BY <4>4, <4>5
    <3>3. repeats' = repeats + 1
      BY <1>1, <1>7, <3>1, <3>2
    <3>4. Effective' = Effective
      BY <1>3, <2>2, <3>1 DEF Effective
    <3>5. stock' \in Stocks
      BY <1>1, <1>2, <1>3, Quantity
    <3>6. Ledger!UserSave
      <4>1. saves' + repeats' = saves + repeats + 1 /\ stock' \in Ledger!Stocks
        BY <1>1, <1>2, <3>3, <3>5, SameEffects DEF Tallies
      <4>2. UNCHANGED <<Effects, Effective>>
        BY <1>5, <3>4
      <4>3. QED
        BY <4>1, <4>2, Zenon DEF Ledger!UserSave, Effects, Effective
    <3>7. QED
      BY <3>6
  <2>5. QED
    BY <2>3, <2>4
<1>8. QED
  BY <1>6, <1>7

\* Any other step saves a change of the user or leaves the stock to the next one.
LEMMA OtherLedger ==
  ASSUME Base, Tallies, [Next]_vars, ~MakeScan, ~CompleteEvent
  PROVE  \/ Ledger!UserSave \/ UNCHANGED <<Effects, stock, Effective, saves, repeats>>
<1>1. made' = made
  BY SameMade
<1>2. Scans' = Scans
  BY <1>1, SameTypes DEF Base
<1>3. applied' = applied /\ repeats' = repeats
  BY DEF Next, vars, log, SendSync, ReceiveAnswer, LoseMessage, DiscardStuckScan,
     ResetDevice, AcceptEvents, LoadResults, RefuseEvents, AcceptFails, TakePending,
     CompleteFails, ChangeStock, ChangeUnsaved, RetrySave, RetryFailedEvents,
     DiscardFailedEvents, Crash, StartApp, StartUnsaved
<1>4. Effects' = Effects /\ Effective' = Effective
  BY <1>1, <1>2, <1>3 DEF Effects, Effective
<1>5. CASE \E q \in Stocks : SaveInventory(q)
  <2>1. PICK q \in Stocks : SaveInventory(q)
    BY <1>5
  <2>2. stock' = q /\ saves' = saves + 1
    BY <2>1 DEF SaveInventory, WriteItems
  <2>3. Ledger!UserSave
    <3>1. saves' + repeats' = saves + repeats + 1 /\ stock' \in Ledger!Stocks
      BY <1>3, <2>1, <2>2, SameEffects DEF Tallies
    <3>2. UNCHANGED <<Effects, Effective>>
      BY <1>4
    <3>3. QED
      BY <3>1, <3>2, Zenon DEF Ledger!UserSave, Effects, Effective
  <2>4. QED
    BY <2>3
<1>6. CASE ~\E q \in Stocks : SaveInventory(q)
  <2>1. ~ChangeStock
    BY <1>6 DEF ChangeStock
  <2>2. ~RetrySave
    BY <1>6 DEF RetrySave, Base, Books
  <2>3. UNCHANGED <<stock, saves>>
    BY <2>1, <2>2 DEF Next, vars, books, app, SendSync, ReceiveAnswer, LoseMessage, DiscardStuckScan,
       ResetDevice, AcceptEvents, LoadResults, RefuseEvents, AcceptFails, TakePending,
       CompleteFails, ChangeUnsaved, RetryFailedEvents,
       DiscardFailedEvents, Crash, StartApp, StartUnsaved
  <2>4. QED
    BY <1>3, <1>4, <2>3
<1>7. QED
  BY <1>5, <1>6

\* The stock changes only by a save of the user or by the first effect of a scan
\* (App::processDeviceSyncEvents, App::saveInventoryState); the repeats of scans that are
\* taken for others count as changes of the user.
THEOREM InboxImplementsLedger == Spec => ChangesAccountedFor
<1>1. Init => Ledger!Init
  <2> SUFFICES ASSUME Init PROVE Ledger!Init
    OBVIOUS
  <2>1. Scans = {} /\ Effects = <<>> /\ Effective = {}
    BY DEF Init, Scans, Effects, Effective
  <2>2. stock \in Stocks
    BY BaseInit DEF Base, Books
  <2>3. saves + repeats = 0
    BY DEF Init
  <2>4. QED
    BY <2>1, <2>2, <2>3, SameEffects, Zenon DEF Ledger!Init, Effects, Effective
<1>2. Base /\ Once /\ Tallies /\ [Next]_vars
        => [Ledger!MakeScan \/ Ledger!UserSave \/ Ledger!ApplyScan]_<<Effects, stock, Effective, saves + repeats>>
  BY MakeScanLedger, CompleteLedger, OtherLedger
<1>3. Init => Tallies
  BY DEF Init, Tallies
<1>4. Tallies /\ [Next]_vars => Tallies'
  BY TalliesStep
<1>5. QED
  BY <1>1, <1>2, <1>3, <1>4, Invariant, PTL DEF Spec, ChangesAccountedFor, Ledger!Spec, Effects, Effective

-----------------------------------------------------------------------------
(* The inbox is worked through in order *)

Before(id) == {other \in Received : <<other, id>> \in arrivals}
AfterServed(s) == \A n \in DOMAIN served : since[s] < n /\ Unambiguous(served[n]) => served[n] < s
AfterRows(s) == \A id \in DOMAIN rows : Unambiguous(rows[id].scan) => rows[id].scan < s
InTurn(id) == Unambiguous(rows[id].scan) /\ rows[id].scan \notin discarded

ServedOrder ==
  /\ served \in Seq(Scans) /\ since \in [1..MaxScans -> Nat]
  /\ \A m, n \in DOMAIN served :
       /\ since[served[n]] < m /\ m < n
       /\ Unambiguous(served[m]) /\ Unambiguous(served[n]) /\ served[n] \notin discarded
       => served[m] < served[n]

\* The rows stand in one line, in the order of their scans, completed or not: so a
\* reopened one has kept its place.
InLine == \A a, b \in DOMAIN rows : a # b => <<a, b>> \in arrivals \/ <<b, a>> \in arrivals
LineOrder ==
  /\ \A id \in Received : InTurn(id) => AfterServed(rows[id].scan)
  /\ \A a, b \in DOMAIN rows :
       <<a, b>> \in arrivals /\ Unambiguous(rows[a].scan) /\ InTurn(b) => rows[a].scan < rows[b].scan

\* The event that is being applied is the first one pending.
FirstWorks == working # None => working \in Received /\ Before(working) = {}

\* A scan that has no row yet comes after those that have one or had.
OutboxOrder ==
  \A s \in outbox : Unambiguous(s) /\ s \notin discarded /\ Id(s) \notin DOMAIN rows
                      => AfterServed(s) /\ AfterRows(s)

\* A request carries the first scans of the outbox.
RequestFirst == request # None => \A s \in request.scans, t \in outbox : t < s => t \in request.scans

InOrder == ServedOrder /\ InLine /\ LineOrder /\ FirstWorks /\ OutboxOrder /\ RequestFirst

\* The steps that leave the rows alone, apart from new scans.
LEMMA RowsKeptOrder ==
  ASSUME Base, InOrder, [Next]_vars, UNCHANGED <<made, rows, arrivals, served, since, discarded>>,
         outbox' \subseteq outbox, FirstWorks', RequestFirst'
  PROVE  InOrder'
<1>1. /\ made' = made /\ rows' = rows /\ arrivals' = arrivals
      /\ served' = served /\ since' = since /\ discarded' = discarded
      /\ Scans' = Scans /\ MaxScans' = MaxScans
      /\ (\A s : Unambiguous(s)' <=> Unambiguous(s)) /\ \A s : Id(s)' = Id(s)
  BY SameTypes DEF Base
<1>2. ServedOrder'
  BY <1>1 DEF InOrder, ServedOrder
<1>3. InLine'
  BY <1>1 DEF InOrder, InLine
<1>4. \A s : AfterServed(s)' <=> AfterServed(s)
  BY <1>1 DEF AfterServed
<1>5. \A s : AfterRows(s)' <=> AfterRows(s)
  BY <1>1 DEF AfterRows
<1>6. \A id : InTurn(id)' <=> InTurn(id)
  BY <1>1 DEF InTurn
<1>7. LineOrder'
  BY <1>1, <1>4, <1>6 DEF InOrder, LineOrder, Received
<1>8. OutboxOrder'
  BY <1>1, <1>4, <1>5 DEF InOrder, OutboxOrder
<1>9. QED
  BY <1>2, <1>3, <1>7, <1>8 DEF InOrder

LEMMA QuietOrder ==
  ASSUME Base, InOrder, [Next]_vars, UNCHANGED <<made, rows, arrivals, served, since, discarded>>,
         outbox' \subseteq outbox, working' \in {working, None}, request' \in {request, None}
  PROVE  InOrder'
<1>1. FirstWorks'
  BY DEF InOrder, FirstWorks, Before, Received
<1>2. RequestFirst'
  BY DEF InOrder, RequestFirst
<1>3. QED
  BY <1>1, <1>2, RowsKeptOrder

LEMMA TakePendingOrder ==
  ASSUME Base, InOrder, [Next]_vars, TakePending
  PROVE  InOrder'
<1>1. /\ UNCHANGED <<made, outbox, request, rows, arrivals, served, since, discarded>>
      /\ working' \in Oldest(arrivals, Received, 1)
  BY DEF TakePending, device, inbox, log
<1>2. IsFiniteSet(Received)
  <2>1. IsFiniteSet(Scans)
    <3>1. Scans = 1..Len(made) /\ Len(made) \in Nat
      BY DEF Base, Typed, Scans
    <3>2. QED
      BY <3>1, FS_Interval
  <2> DEFINE ids == {made[s].id : s \in Scans}
  <2>2. IsFiniteSet(ids)
    <3> DEFINE f == [s \in Scans |-> made[s].id]
    <3>1. f \in Surjection(Scans, ids)
      BY DEF Surjection
    <3>2. QED
      BY <2>1, <3>1, FS_Surjection DEF ExistsSurjection
  <2>3. Received \subseteq ids
    BY RowsOfScans DEF Base, Received
  <2>4. QED
    BY <2>2, <2>3, FS_Subset
<1>3. working' \in Received /\ Cardinality(Before(working')) < 1
  BY <1>1 DEF Oldest, Before
<1>4. Before(working') = {}
  <2>1. Before(working') \subseteq Received
    BY DEF Before
  <2>2. IsFiniteSet(Before(working'))
    BY <1>2, <2>1, FS_Subset
  <2>3. Cardinality(Before(working')) \in Nat
    BY <2>2, FS_CardinalityType
  <2>4. Cardinality(Before(working')) = 0
    BY <1>3, <2>3
  <2>5. QED
    BY <2>2, <2>4, FS_EmptySet
<1>5. FirstWorks'
  BY <1>1, <1>3, <1>4 DEF FirstWorks, Before, Received
<1>6. RequestFirst'
  BY <1>1 DEF InOrder, RequestFirst
<1>7. QED
  BY <1>1, <1>5, <1>6, RowsKeptOrder

LEMMA SendSyncOrder ==
  ASSUME Base, InOrder, [Next]_vars, SendSync
  PROVE  InOrder'
<1>1. /\ UNCHANGED <<made, outbox, rows, arrivals, served, since, discarded, working>>
      /\ request'.scans = FirstOut
  BY DEF SendSync, device, inbox, log, app
<1>2. outbox \subseteq 1..Len(made) /\ Len(made) \in Nat /\ Batch \in Nat
  BY DEF Base, Typed, Scans, Batch, SessionType
<1>3. ASSUME NEW s \in FirstOut, NEW t \in outbox, t < s PROVE t \in FirstOut
  <2> DEFINE Smaller(u) == {v \in outbox : v < u}
  <2>1. s \in outbox /\ Cardinality(Smaller(s)) < Batch
    BY DEF FirstOut
  <2>2. Smaller(t) \subseteq Smaller(s)
    <3>1. \A v \in outbox : v \in Int
      BY <1>2
    <3>2. QED
      BY <1>3, <2>1, <3>1
  <2>3. IsFiniteSet(Smaller(s))
    <3>1. IsFiniteSet(1..Len(made))
      BY <1>2, FS_Interval
    <3>2. Smaller(s) \subseteq 1..Len(made)
      BY <1>2
    <3>3. QED
      BY <3>1, <3>2, FS_Subset
  <2>4. /\ Cardinality(Smaller(t)) <= Cardinality(Smaller(s))
        /\ Cardinality(Smaller(t)) \in Nat /\ Cardinality(Smaller(s)) \in Nat
    BY <2>2, <2>3, FS_Subset, FS_CardinalityType
  <2>5. Cardinality(Smaller(t)) < Batch
    BY <1>2, <2>1, <2>4
  <2>6. QED
    BY <2>5 DEF FirstOut
<1>4. RequestFirst'
  BY <1>1, <1>3 DEF RequestFirst
<1>5. FirstWorks'
  BY <1>1 DEF InOrder, FirstWorks, Before, Received
<1>6. QED
  BY <1>1, <1>4, <1>5, RowsKeptOrder

\* A new scan comes after all others.
LEMMA MakeScanOrder ==
  ASSUME Base, InOrder, [Next]_vars, MakeScan
  PROVE  InOrder'
<1>0. PICK new : new = Len(made) + 1
  OBVIOUS
<1>1. /\ Scans' = Scans \cup {new} /\ new \notin Scans
      /\ \A s \in Scans : made'[s] = made[s] /\ (Unambiguous(s)' => Unambiguous(s))
      /\ outbox' = outbox \cup {new} /\ made'[new].id = nextId
      /\ UNCHANGED <<request, rows>>
  BY <1>0, ScanMade, ScansStay DEF Base
<1>2. UNCHANGED <<arrivals, served, since, discarded, working, session>> /\ MaxScans' = MaxScans
  BY DEF MakeScan, inbox, app, log, MaxScans
<1>3. \A s \in Scans : s < new
  BY <1>0 DEF Base, Typed, Scans
<1>4. /\ \A n \in DOMAIN served : served[n] \in Scans
      /\ \A id \in DOMAIN rows : rows[id].scan \in Scans
      /\ outbox \subseteq Scans
      /\ request # None => request.scans \subseteq outbox
  <2>1. served \in Seq(Scans)
    BY DEF InOrder, ServedOrder
  <2>2. \A n \in DOMAIN served : served[n] \in Scans
    BY <2>1, ElementOfSeq, LenProperties
  <2>3. \A id \in DOMAIN rows : rows[id].scan \in Scans
    BY EventOfRow DEF Base, RowType
  <2>4. QED
    BY <2>2, <2>3 DEF Base, Typed, Exchange, FirstOut
<1>5. ServedOrder'
  <2>1. served \in Seq(Scans')
    BY <1>1, SeqMonotonic DEF InOrder, ServedOrder
  <2>2. QED
    BY <1>1, <1>2, <1>4, <2>1 DEF InOrder, ServedOrder
<1>6. InLine'
  BY <1>1, <1>2 DEF InOrder, InLine
<1>7. \A s : AfterServed(s) => AfterServed(s)'
  BY <1>1, <1>2, <1>4 DEF AfterServed
<1>8. \A s : AfterRows(s) => AfterRows(s)'
  BY <1>1, <1>4 DEF AfterRows
<1>9. \A id \in DOMAIN rows : InTurn(id)' => InTurn(id)
  BY <1>1, <1>2, <1>4 DEF InTurn
<1>10. LineOrder'
  BY <1>1, <1>2, <1>4, <1>7, <1>9 DEF InOrder, LineOrder, Received
<1>11. FirstWorks'
  BY <1>1, <1>2 DEF InOrder, FirstWorks, Before, Received
<1>12. OutboxOrder'
  <2>1. AfterServed(new)' /\ AfterRows(new)'
    BY <1>1, <1>2, <1>3, <1>4 DEF AfterServed, AfterRows
  <2>2. ASSUME NEW s \in outbox, Unambiguous(s)', s \notin discarded, Id(s)' \notin DOMAIN rows
        PROVE  AfterServed(s)' /\ AfterRows(s)'
    <3>1. Unambiguous(s) /\ Id(s) \notin DOMAIN rows
      BY <1>1, <1>4, <2>2 DEF Id
    <3>2. QED
      BY <1>7, <1>8, <2>2, <3>1 DEF InOrder, OutboxOrder
  <2>3. QED
    BY <1>1, <1>2, <2>1, <2>2 DEF OutboxOrder
<1>13. RequestFirst'
  <2>1. \A s \in outbox : ~(new < s)
    BY <1>0, <1>3, <1>4 DEF Base, Typed, Scans
  <2>2. QED
    BY <1>1, <1>4, <2>1 DEF InOrder, RequestFirst
<1>14. QED
  BY <1>5, <1>6, <1>10, <1>11, <1>12, <1>13 DEF InOrder

\* A waiting scan that stands alone under its id keeps the row it has.
LEMMA WaitingRowKept ==
  ASSUME Base, Once, request # None, NEW s \in outbox, Unambiguous(s), Id(s) \notin DOMAIN Kept
  PROVE  Id(s) \notin DOMAIN rows
<1>1. s \in Scans /\ request.acks \subseteq toAck
  BY DEF Base, Typed, Exchange
<1>2. Waiting(s)
  BY <1>1 DEF Once
<1>3. Id(s) \in DOMAIN rows => rows[Id(s)].acknowledged \/ Id(s) \in request.acks
  BY KeptRows DEF Base
<1>4. QED
  BY <1>1, <1>2, <1>3 DEF Waiting

\* The order of the rows after a request was accepted: the new ones come last, in
\* the order of their scans.
LEMMA AcceptedArrivals ==
  ASSUME Base, AcceptEvents, ~ClockSteps
  PROVE  \A a, b \in DOMAIN rows' :
           /\ a \in DOMAIN Kept /\ b \in DOMAIN Kept => (<<a, b>> \in arrivals' <=> <<a, b>> \in arrivals)
           /\ a \in DOMAIN Kept /\ b \notin DOMAIN Kept => <<a, b>> \in arrivals' /\ <<b, a>> \notin arrivals'
           /\ a \notin DOMAIN Kept /\ b \notin DOMAIN Kept =>
                /\ a # b => <<a, b>> \in arrivals' \/ <<b, a>> \in arrivals'
                /\ <<a, b>> \in arrivals' => rows'[a].scan < rows'[b].scan
<1> DEFINE K == DOMAIN Kept
           fresh == {s \in request.scans : Unused(Kept, s)}
           ids == {Id(s) : s \in fresh}
           pairs == {p \in fresh \X fresh : p[1] < p[2]}
           among == {<<Id(p[1]), Id(p[2])>> : p \in pairs}
<1>1. arrivals' \in Inserted(Within(arrivals, K), K, ids, among)
  BY Zenon DEF AcceptEvents
<1>2. arrivals' = Within(arrivals, K) \cup among \cup (K \X ids) \cup (ids \X (K \ K))
  <2>1. \A order, old, new, more :
          Inserted(order, old, new, more) = {order \cup more \cup (old \X new) \cup (new \X (old \ old))}
    BY DEF Inserted
  <2> HIDE DEF K, ids, among
  <2>2. QED
    BY <1>1, <2>1
<1>3. \A s, t \in fresh : Id(s) = Id(t) => s = t
  BY AcceptedRows DEF Base, Exchange, FirstOut
<1>4. \A s \in fresh : s \in Int /\ Id(s) \notin K /\ s \in request.scans
  <2>1. request.scans \subseteq outbox
    BY AcceptedRows DEF Base, Exchange, FirstOut
  <2>2. \A s \in outbox : s \in Int
    BY DEF Base, Typed, Scans
  <2>3. QED
    BY <2>1, <2>2 DEF Unused
<1>5. ASSUME NEW x, NEW y
      PROVE  <<x, y>> \in among <=> \E s, t \in fresh : s < t /\ Id(s) = x /\ Id(t) = y
  <2>1. ASSUME <<x, y>> \in among PROVE \E s, t \in fresh : s < t /\ Id(s) = x /\ Id(t) = y
    <3>1. PICK p \in pairs : <<x, y>> = <<Id(p[1]), Id(p[2])>>
      BY <2>1
    <3>2. p[1] \in fresh /\ p[2] \in fresh /\ p[1] < p[2]
      BY <3>1
    <3>3. QED
      BY <3>1, <3>2
  <2>2. ASSUME NEW s \in fresh, NEW t \in fresh, s < t, Id(s) = x, Id(t) = y
        PROVE  <<x, y>> \in among
    <3>1. <<s, t>> \in pairs
      BY <2>2
    <3>2. QED
      BY <2>2, <3>1
  <2>3. QED
    BY <2>1, <2>2
<1>6. \A x : x \in ids <=> \E s \in fresh : Id(s) = x
  OBVIOUS
<1>7. ASSUME NEW a \in DOMAIN rows', a \notin K
      PROVE  \E s \in fresh : Id(s) = a /\ rows'[a].scan = s
  <2>1. PICK s \in request.scans : Id(s) = a /\ rows'[a] = Row(s)
    BY <1>7, AcceptedRows DEF Base
  <2>2. s \in fresh
    BY <1>7, <2>1 DEF Unused
  <2>3. rows'[a].scan = s
    BY <2>1, NewRow
  <2>4. QED
    BY <2>1, <2>2, <2>3
<1> HIDE DEF K, fresh, ids, pairs, among
<1>8. ASSUME NEW a \in DOMAIN rows', NEW b \in DOMAIN rows', a \in K, b \in K
      PROVE  <<a, b>> \in arrivals' <=> <<a, b>> \in arrivals
  BY <1>2, <1>4, <1>5, <1>6, <1>8 DEF Within
<1>9. ASSUME NEW a \in DOMAIN rows', NEW b \in DOMAIN rows', a \in K, b \notin K
      PROVE  <<a, b>> \in arrivals' /\ <<b, a>> \notin arrivals'
  <2>1. b \in ids
    BY <1>6, <1>7, <1>9
  <2>2. <<b, a>> \notin among /\ a \notin ids
    BY <1>4, <1>5, <1>6, <1>9
  <2>3. QED
    BY <1>2, <1>9, <2>1, <2>2 DEF Within
<1>10. ASSUME NEW a \in DOMAIN rows', NEW b \in DOMAIN rows', a \notin K, b \notin K
       PROVE  /\ a # b => <<a, b>> \in arrivals' \/ <<b, a>> \in arrivals'
              /\ <<a, b>> \in arrivals' => rows'[a].scan < rows'[b].scan
  <2>1. PICK s \in fresh : Id(s) = a /\ rows'[a].scan = s
    BY <1>7, <1>10
  <2>2. PICK t \in fresh : Id(t) = b /\ rows'[b].scan = t
    BY <1>7, <1>10
  <2>3. a # b => s < t \/ t < s
    BY <1>4, <2>1, <2>2
  <2>4. <<a, b>> \in arrivals' <=> <<a, b>> \in among
    BY <1>2, <1>10 DEF Within
  <2>5. <<a, b>> \in among => s < t
    BY <1>3, <1>5, <2>1, <2>2
  <2>6. (s < t => <<a, b>> \in among) /\ (t < s => <<b, a>> \in among)
    BY <1>5, <2>1, <2>2
  <2>7. <<b, a>> \in among => <<b, a>> \in arrivals'
    BY <1>2
  <2>8. QED
    BY <2>1, <2>2, <2>3, <2>4, <2>5, <2>6, <2>7
<1>11. QED
  BY <1>8, <1>9, <1>10 DEF K

LEMMA AcceptOrder ==
  ASSUME Base, Once, InOrder, [Next]_vars, ~ClockSteps, AcceptEvents
  PROVE  InOrder'
<1>1. /\ UNCHANGED <<made, outbox, served, since, discarded, working>>
      /\ request # None /\ request' = None /\ Scans' = Scans /\ MaxScans' = MaxScans
      /\ (\A s : Unambiguous(s)' <=> Unambiguous(s)) /\ \A s : Id(s)' = Id(s)
  BY AcceptedRows, SameTypes DEF Base, AcceptEvents, device, log, app
<1>2. /\ DOMAIN Kept \subseteq DOMAIN rows /\ DOMAIN Kept \subseteq DOMAIN rows'
      /\ \A id \in DOMAIN Kept : rows'[id].scan = rows[id].scan /\ rows'[id].state = rows[id].state
      /\ \A id \in DOMAIN rows \ DOMAIN Kept : rows[id].state = "completed"
      /\ \A s \in request.scans : Id(s) \in DOMAIN rows'
      /\ \A id \in DOMAIN rows' \ DOMAIN Kept :
           \E s \in request.scans : Id(s) = id /\ rows'[id].scan = s /\ rows'[id].state = "received"
  <2>1. Typed /\ Rows /\ Exchange
    BY DEF Base
  <2>2. /\ DOMAIN Kept \subseteq DOMAIN rows
        /\ \A id \in DOMAIN Kept : Kept[id].scan = rows[id].scan /\ Kept[id].state = rows[id].state
        /\ \A id \in DOMAIN rows \ DOMAIN Kept : rows[id].state = "completed"
    BY <1>1, <2>1, KeptRows
  <2>3. /\ DOMAIN Kept \subseteq DOMAIN rows'
        /\ \A s \in request.scans : Id(s) \in DOMAIN rows'
        /\ \A id \in DOMAIN rows' :
             \/ id \in DOMAIN Kept /\ rows'[id] = Kept[id]
             \/ id \notin DOMAIN Kept /\ \E s \in request.scans : Id(s) = id /\ rows'[id] = Row(s)
    BY <2>1, AcceptedRows
  <2>4. ASSUME NEW id \in DOMAIN rows' \ DOMAIN Kept
        PROVE  \E s \in request.scans : Id(s) = id /\ rows'[id].scan = s /\ rows'[id].state = "received"
    <3>1. PICK s \in request.scans : Id(s) = id /\ rows'[id] = Row(s)
      BY <2>3
    <3>2. QED
      BY <3>1, NewRow
  <2>5. QED
    BY <2>2, <2>3, <2>4
<1>3. request.scans \subseteq outbox /\ outbox \subseteq Scans /\ \A s \in outbox : s \in Int
  <2>1. request.scans \subseteq outbox
    BY <1>1 DEF Base, Exchange, FirstOut
  <2>2. outbox \subseteq Scans /\ \A s \in outbox : s \in Int
    BY DEF Base, Typed, Scans
  <2>3. QED
    BY <2>1, <2>2
<1>4. \A a, b \in DOMAIN rows' :
        /\ a \in DOMAIN Kept /\ b \in DOMAIN Kept => (<<a, b>> \in arrivals' <=> <<a, b>> \in arrivals)
        /\ a \in DOMAIN Kept /\ b \notin DOMAIN Kept => <<a, b>> \in arrivals' /\ <<b, a>> \notin arrivals'
        /\ a \notin DOMAIN Kept /\ b \notin DOMAIN Kept =>
             /\ a # b => <<a, b>> \in arrivals' \/ <<b, a>> \in arrivals'
             /\ <<a, b>> \in arrivals' => rows'[a].scan < rows'[b].scan
  BY AcceptedArrivals
<1>5. ASSUME NEW s \in outbox, Unambiguous(s), s \notin discarded, Id(s) \notin DOMAIN Kept
      PROVE  AfterServed(s) /\ AfterRows(s)
  BY <1>1, <1>5, WaitingRowKept DEF InOrder, OutboxOrder
<1>6. ServedOrder'
  BY <1>1 DEF InOrder, ServedOrder
<1>7. InLine'
  BY <1>2, <1>4 DEF InOrder, InLine
<1>8. LineOrder'
  <2>1. ASSUME NEW id \in DOMAIN Kept
        PROVE  /\ Unambiguous(rows[id].scan)' => Unambiguous(rows[id].scan)
               /\ InTurn(id)' => InTurn(id)
               /\ id \in Received' => id \in Received
    BY <1>1, <1>2 DEF InTurn, Received
  <2>2. ASSUME NEW id \in DOMAIN rows', InTurn(id)', id \notin DOMAIN Kept
        PROVE  AfterServed(rows'[id].scan) /\ AfterRows(rows'[id].scan)
    <3>1. PICK s \in request.scans : Id(s) = id /\ rows'[id].scan = s
      BY <1>2, <2>2
    <3>2. Unambiguous(s) /\ s \notin discarded
      BY <1>1, <2>2, <3>1 DEF InTurn
    <3>3. QED
      BY <1>3, <1>5, <2>2, <3>1, <3>2
  <2>3. ASSUME NEW id \in Received', InTurn(id)', NEW s, s = rows'[id].scan
        PROVE  AfterServed(s)'
    <3>1. id \in DOMAIN rows'
      BY DEF Received
    <3>2. AfterServed(s)
      BY <1>2, <2>1, <2>2, <2>3, <3>1 DEF InOrder, LineOrder
    <3>3. QED
      BY <1>1, <3>2 DEF AfterServed
  <2>4. ASSUME NEW a \in DOMAIN rows', NEW b \in DOMAIN rows', <<a, b>> \in arrivals',
               Unambiguous(rows[a].scan)', InTurn(b)'
        PROVE  rows'[a].scan < rows'[b].scan
    <3>1. CASE a \in DOMAIN Kept /\ b \in DOMAIN Kept
      BY <1>2, <1>4, <2>1, <2>4, <3>1 DEF InOrder, LineOrder
    <3>2. CASE a \in DOMAIN Kept /\ b \notin DOMAIN Kept
      <4>1. AfterRows(rows'[b].scan) /\ Unambiguous(rows[a].scan)
        BY <2>1, <2>2, <2>4, <3>2
      <4>2. QED
        BY <1>2, <3>2, <4>1 DEF AfterRows
    <3>3. CASE a \notin DOMAIN Kept
      BY <1>4, <2>4, <3>3
    <3>4. QED
      BY <3>1, <3>2, <3>3
  <2>5. QED
    BY <2>3, <2>4 DEF LineOrder
<1>9. FirstWorks'
  <2>1. SUFFICES ASSUME working # None PROVE working \in Received' /\ Before(working)' = {}
    BY <1>1 DEF FirstWorks
  <2>2. working \in DOMAIN rows /\ rows[working].state = "received" /\ Before(working) = {}
    BY <2>1 DEF InOrder, FirstWorks, Received
  <2>3. working \in DOMAIN Kept /\ working \in Received'
    BY <1>2, <2>2 DEF Received
  <2>4. ASSUME NEW other \in DOMAIN rows', rows'[other].state = "received",
               <<other, working>> \in arrivals'
        PROVE  FALSE
    <3>1. other \in DOMAIN Kept
      BY <1>2, <1>4, <2>3, <2>4
    <3>2. other \in Received /\ <<other, working>> \in arrivals
      BY <1>2, <1>4, <2>3, <2>4, <3>1 DEF Received
    <3>3. QED
      BY <2>2, <3>2 DEF Before
  <2>5. Before(working)' = {}
    BY <1>1, <2>4 DEF Before, Received
  <2>6. QED
    BY <2>3, <2>5
<1>10. OutboxOrder'
  <2>1. ASSUME NEW s \in outbox, Unambiguous(s), s \notin discarded, Id(s) \notin DOMAIN rows'
        PROVE  AfterServed(s) /\ AfterRows(s)'
    <3>1. AfterServed(s) /\ AfterRows(s) /\ s \notin request.scans
      BY <1>2, <1>5, <2>1
    <3>2. \A t \in request.scans : t < s
      BY <1>1, <1>3, <2>1, <3>1 DEF InOrder, RequestFirst
    <3>3. \A id \in DOMAIN rows' : Unambiguous(rows'[id].scan) => rows'[id].scan < s
      BY <1>2, <3>1, <3>2 DEF AfterRows
    <3>4. QED
      BY <1>1, <3>1, <3>3 DEF AfterRows
  <2>2. \A s : AfterServed(s)' <=> AfterServed(s)
    BY <1>1 DEF AfterServed
  <2>3. QED
    BY <1>1, <2>1, <2>2 DEF OutboxOrder
<1>11. RequestFirst'
  BY <1>1 DEF RequestFirst
<1>12. QED
  BY <1>6, <1>7, <1>8, <1>9, <1>10, <1>11 DEF InOrder

LEMMA CompleteOrder ==
  ASSUME Base, InOrder, [Next]_vars, CompleteEvent
  PROVE  InOrder'
<1> DEFINE s == rows[working].scan
<1>1. /\ UNCHANGED <<made, outbox, request, arrivals, since, discarded>> /\ working' = None
      /\ served' = Append(served, s) /\ Scans' = Scans /\ MaxScans' = MaxScans
      /\ (\A t : Unambiguous(t)' <=> Unambiguous(t)) /\ \A t : Id(t)' = Id(t)
  BY SameTypes DEF CompleteEvent, device, Base
<1>2. /\ working \in DOMAIN rows /\ working \in Received /\ working # None
      /\ DOMAIN rows' = DOMAIN rows
      /\ \A id \in DOMAIN rows \ {working} : rows'[id] = rows[id]
      /\ rows'[working].scan = s /\ rows'[working].state = "completed"
      /\ s \in Scans /\ Scans \subseteq Int
  <2>1. working \in Received /\ rows' = [rows EXCEPT ![working] = rows'[working]]
        /\ rows'[working].scan = s /\ rows'[working].state = "completed"
    BY CompletedRow DEF Base
  <2>2. working \in DOMAIN rows /\ working # None /\ s \in Scans
    BY <2>1, EventOfRow, InboxAssumption DEF Received, Base, Typed, RowType
  <2>3. QED
    BY <2>1, <2>2 DEF Base, Typed, Scans
<1>3. served \in Seq(Scans) /\ Before(working) = {}
  BY <1>2 DEF InOrder, ServedOrder, FirstWorks
<1> DEFINE last == Len(served) + 1
<1>4. /\ served' \in Seq(Scans) /\ DOMAIN served' = DOMAIN served \cup {last} /\ served'[last] = s
      /\ last \in Int /\ \A n \in DOMAIN served : served'[n] = served[n] /\ n \in Int /\ n < last
  <2>1. /\ served' \in Seq(Scans) /\ DOMAIN served = 1..Len(served) /\ Len(served) \in Nat
        /\ DOMAIN served' = 1..(Len(served) + 1) /\ served'[Len(served) + 1] = s
        /\ \A n \in 1..Len(served) : served'[n] = served[n]
    BY <1>1, <1>2, <1>3
  <2>2. QED
    BY <2>1
<1> HIDE DEF s, last
<1>5. InTurn(working) => AfterServed(s)
  BY <1>2 DEF InOrder, LineOrder, s
<1>6. ServedOrder'
  <2>1. ASSUME NEW m \in DOMAIN served', NEW n \in DOMAIN served', since[served'[n]] < m, m < n,
               Unambiguous(served'[m]), Unambiguous(served'[n]), served'[n] \notin discarded
        PROVE  served'[m] < served'[n]
    <3>1. m \in DOMAIN served
      BY <1>4, <2>1
    <3>2. CASE n \in DOMAIN served
      BY <1>4, <2>1, <3>1, <3>2 DEF InOrder, ServedOrder
    <3>3. CASE n = last
      <4>1. AfterServed(s)
        BY <1>4, <1>5, <2>1, <3>3 DEF InTurn, s
      <4>2. QED
        BY <1>4, <2>1, <3>1, <3>3, <4>1 DEF AfterServed
    <3>4. QED
      BY <1>4, <3>2, <3>3
  <2>2. since' \in [1..MaxScans' -> Nat]
    BY <1>1 DEF InOrder, ServedOrder
  <2>3. QED
    BY <1>1, <1>4, <2>1, <2>2 DEF ServedOrder
<1>7. \A id \in DOMAIN rows' : rows'[id].scan = rows[id].scan
  BY <1>2 DEF s
<1>8. InLine'
  BY <1>1, <1>2 DEF InOrder, InLine
<1>9. ASSUME NEW t, AfterServed(t), Unambiguous(s) => s < t
      PROVE  AfterServed(t)'
  BY <1>1, <1>4, <1>9 DEF AfterServed
<1>10. \A id \in DOMAIN rows' : InTurn(id)' <=> InTurn(id)
  BY <1>1, <1>7 DEF InTurn
<1>11. LineOrder'
  <2>1. ASSUME NEW id \in Received', InTurn(id)'
        PROVE  \A t : t = rows'[id].scan => AfterServed(t)'
    <3>1. id \in DOMAIN rows /\ id # working /\ id \in Received /\ InTurn(id)
      BY <1>2, <1>10, <2>1 DEF Received
    <3>2. AfterServed(rows[id].scan)
      BY <3>1 DEF InOrder, LineOrder
    <3>3. <<working, id>> \in arrivals
      BY <1>2, <1>3, <3>1 DEF InOrder, InLine, Before
    <3>4. Unambiguous(s) => s < rows[id].scan
      BY <1>2, <3>1, <3>3 DEF InOrder, LineOrder, s
    <3>5. QED
      BY <1>2, <1>7, <1>9, <3>1, <3>2, <3>4
  <2>2. \A a, b \in DOMAIN rows' :
          <<a, b>> \in arrivals' /\ Unambiguous(rows[a].scan)' /\ InTurn(b)'
            => rows'[a].scan < rows'[b].scan
    BY <1>1, <1>2, <1>7, <1>10 DEF InOrder, LineOrder
  <2>3. QED
    BY <2>1, <2>2 DEF LineOrder
<1>12. FirstWorks' /\ RequestFirst'
  BY <1>1 DEF InOrder, FirstWorks, RequestFirst
<1>13. OutboxOrder'
  <2>1. ASSUME NEW t \in outbox, Unambiguous(t), t \notin discarded, Id(t) \notin DOMAIN rows
        PROVE  AfterServed(t)' /\ AfterRows(t)'
    <3>1. AfterServed(t) /\ AfterRows(t)
      BY <2>1 DEF InOrder, OutboxOrder
    <3>2. Unambiguous(s) => s < t
      BY <1>2, <3>1 DEF AfterRows, s
    <3>3. AfterRows(t)'
      BY <1>1, <1>2, <1>7, <3>1 DEF AfterRows
    <3>4. QED
      BY <1>9, <3>1, <3>2, <3>3
  <2>2. QED
    BY <1>1, <1>2, <2>1 DEF OutboxOrder
<1>14. QED
  BY <1>6, <1>8, <1>11, <1>12, <1>13 DEF InOrder

\* Completed rows are reopened in their places, or discarded, while the UI thread
\* applies no event.
LEMMA FailedRowsOrder ==
  ASSUME Base, InOrder, [Next]_vars, UNCHANGED <<made, outbox, request, served>>, working' = None,
         since' \in [1..MaxScans -> Nat],
         \A s \in Scans : since'[s] \in {since[s], Len(served)},
         discarded \subseteq discarded',
         DOMAIN rows' \subseteq DOMAIN rows,
         \A id \in DOMAIN rows' :
           /\ rows'[id].scan = rows[id].scan
           /\ id \in Received' => id \in Received \/ since'[rows[id].scan] = Len(served),
         \A id \in DOMAIN rows \ DOMAIN rows' : rows[id].scan \in discarded',
         \A a, b \in DOMAIN rows' : <<a, b>> \in arrivals' <=> <<a, b>> \in arrivals
  PROVE  InOrder'
<1>1. /\ Scans' = Scans /\ MaxScans' = MaxScans
      /\ (\A s : Unambiguous(s)' <=> Unambiguous(s)) /\ \A s : Id(s)' = Id(s)
  BY SameTypes DEF Base
<1>2. /\ served \in Seq(Scans) /\ Len(served) \in Nat
      /\ \A n \in DOMAIN served : n \in Int /\ n <= Len(served) /\ served[n] \in Scans
  <2>1. served \in Seq(Scans)
    BY DEF InOrder, ServedOrder
  <2>2. QED
    BY <2>1, LenProperties, ElementOfSeq
<1>3. ASSUME NEW s \in Scans, AfterServed(s) \/ since'[s] = Len(served)
      PROVE  AfterServed(s)'
  BY <1>1, <1>2, <1>3 DEF AfterServed
<1>4. \A s : AfterRows(s) => AfterRows(s)'
  BY <1>1 DEF AfterRows
<1>5. \A id \in DOMAIN rows' : InTurn(id)' => InTurn(id)
  BY <1>1 DEF InTurn
<1>6. ServedOrder'
  <2>1. ASSUME NEW m \in DOMAIN served, NEW n \in DOMAIN served, since'[served[n]] < m, m < n,
               Unambiguous(served[m]), Unambiguous(served[n]), served[n] \notin discarded'
        PROVE  served[m] < served[n]
    <3>1. since'[served[n]] = since[served[n]]
      BY <1>2, <2>1
    <3>2. QED
      BY <2>1, <3>1 DEF InOrder, ServedOrder
  <2>2. QED
    BY <1>1, <1>2, <2>1 DEF ServedOrder
<1>7. InLine'
  BY DEF InOrder, InLine
<1>8. LineOrder'
  <2>1. ASSUME NEW id \in Received', InTurn(id)'
        PROVE  \A s : s = rows'[id].scan => AfterServed(s)'
    <3>1. id \in DOMAIN rows' /\ InTurn(id) /\ rows'[id].scan = rows[id].scan
      BY <1>5, <2>1 DEF Received
    <3>2. rows[id].scan \in Scans
      BY <3>1, EventOfRow DEF Base, RowType
    <3>3. AfterServed(rows[id].scan) \/ since'[rows[id].scan] = Len(served)
      BY <2>1, <3>1 DEF InOrder, LineOrder
    <3>4. QED
      BY <1>3, <3>1, <3>2, <3>3
  <2>2. \A a, b \in DOMAIN rows' :
          <<a, b>> \in arrivals' /\ Unambiguous(rows[a].scan)' /\ InTurn(b)'
            => rows'[a].scan < rows'[b].scan
    BY <1>1, <1>5 DEF InOrder, LineOrder
  <2>3. QED
    BY <2>1, <2>2 DEF LineOrder
<1>9. FirstWorks' /\ RequestFirst'
  BY DEF InOrder, FirstWorks, RequestFirst
<1>10. OutboxOrder'
  <2>1. ASSUME NEW s \in outbox, Unambiguous(s), s \notin discarded', Id(s) \notin DOMAIN rows'
        PROVE  AfterServed(s)' /\ AfterRows(s)'
    <3>1. s \in Scans
      BY DEF Base, Typed
    <3>2. Id(s) \notin DOMAIN rows
      BY <2>1, <3>1, OwnRow
    <3>3. AfterServed(s) /\ AfterRows(s)
      BY <2>1, <3>2 DEF InOrder, OutboxOrder
    <3>4. QED
      BY <1>3, <1>4, <3>1, <3>3
  <2>2. QED
    BY <1>1, <2>1 DEF OutboxOrder
<1>11. QED
  BY <1>6, <1>7, <1>8, <1>9, <1>10 DEF InOrder

LEMMA FailedOrder ==
  ASSUME Base, InOrder, [Next]_vars, RetryFailedEvents \/ DiscardFailedEvents
  PROVE  InOrder'
<1>1. UNCHANGED <<made, outbox, request, served>> /\ working' = None /\ UIRows
  BY UIRowsSteps DEF RetryFailedEvents, DiscardFailedEvents, UIIdle, device, app
<1>2. /\ since \in [1..MaxScans -> Nat] /\ Scans \subseteq 1..MaxScans /\ Len(served) \in Nat
      /\ \A id \in DOMAIN rows : rows[id].scan \in Scans
  <2>1. since \in [1..MaxScans -> Nat] /\ served \in Seq(Scans)
    BY DEF InOrder, ServedOrder
  <2>2. Scans \subseteq 1..MaxScans
    BY DEF Base, Typed, Scans, MaxScans, SessionType
  <2>3. \A id \in DOMAIN rows : rows[id].scan \in Scans
    BY EventOfRow DEF Base, RowType
  <2>4. QED
    BY <2>1, <2>2, <2>3, LenProperties
<1>3. CASE RetryFailedEvents
  <2>1. /\ rows' = [id \in DOMAIN rows |-> IF id \in Failed THEN Reopened(rows[id]) ELSE rows[id]]
        /\ since' = [s \in DOMAIN since |->
                       IF \E id \in Failed : rows[id].scan = s THEN Len(served) ELSE since[s]]
        /\ arrivals' = arrivals /\ discarded' = discarded
    BY <1>3 DEF RetryFailedEvents
  <2>2. \A id \in DOMAIN rows' : rows'[id].scan = rows[id].scan
    BY <1>1 DEF UIRows
  <2>3. since' \in [1..MaxScans -> Nat] /\ \A s \in Scans : since'[s] \in {since[s], Len(served)}
    BY <1>2, <2>1
  <2>4. ASSUME NEW id \in DOMAIN rows', id \in Received'
        PROVE  id \in Received \/ since'[rows[id].scan] = Len(served)
    BY <1>2, <2>1, <2>4 DEF Received
  <2>5. QED
    BY <1>1, <2>1, <2>2, <2>3, <2>4, FailedRowsOrder
<1>4. CASE DiscardFailedEvents
  <2>1. /\ rows' = [id \in DOMAIN rows \ Failed |-> rows[id]]
        /\ arrivals' = Within(arrivals, DOMAIN rows \ Failed)
        /\ since' = since /\ discarded' = discarded \cup {rows[id].scan : id \in Failed}
    BY <1>4 DEF DiscardFailedEvents, Restrict
  <2>2. \A a, b \in DOMAIN rows' : <<a, b>> \in arrivals' <=> <<a, b>> \in arrivals
    BY <2>1 DEF Within
  <2>3. \A id \in DOMAIN rows' : id \in Received' => id \in Received
    BY <2>1 DEF Received
  <2>4. QED
    BY <1>1, <1>2, <2>1, <2>2, <2>3, FailedRowsOrder
<1>5. QED
  BY <1>3, <1>4

LEMMA OrderStep ==
  ASSUME Base, Once, InOrder, [Next]_vars, ~ClockSteps
  PROVE  InOrder'
<1>1. CASE UNCHANGED vars
  BY <1>1, QuietOrder DEF vars, device, inbox, app, log
<1>2. CASE ReceiveAnswer \/ LoseMessage \/ DiscardStuckScan \/ ResetDevice
  <2>1. UNCHANGED <<made, rows, arrivals, served, since, discarded, working>>
        /\ outbox' \subseteq outbox /\ request' \in {request, None}
    BY <1>2 DEF ReceiveAnswer, LoseMessage, DiscardStuckScan, ResetDevice, device, inbox, app, log
  <2>2. QED
    BY <2>1, QuietOrder
<1>3. CASE LoadResults \/ RefuseEvents \/ AcceptFails
  <2>1. UNCHANGED <<made, rows, arrivals, served, since, discarded, working, outbox>>
        /\ request' \in {request, None}
    BY <1>3 DEF LoadResults, RefuseEvents, AcceptFails, device, inbox, app, log
  <2>2. QED
    BY <2>1, QuietOrder
<1>4. CASE CompleteFails \/ ChangeStock \/ ChangeUnsaved \/ RetrySave
  <2>1. /\ UNCHANGED <<made, rows, arrivals, served, since, discarded, outbox, request>>
        /\ working' \in {working, None}
    BY <1>4 DEF CompleteFails, ChangeStock, ChangeUnsaved, RetrySave, device, inbox, log
  <2>2. QED
    BY <2>1, QuietOrder
<1>5. CASE Crash \/ StartApp \/ StartUnsaved
  <2>1. /\ UNCHANGED <<made, rows, arrivals, served, since, discarded, outbox>>
        /\ working' \in {working, None} /\ request' \in {request, None}
    BY <1>5 DEF Crash, StartApp, StartUnsaved, device, inbox, log
  <2>2. QED
    BY <2>1, QuietOrder
<1>6. QED
  BY <1>1, <1>2, <1>3, <1>4, <1>5, MakeScanOrder, SendSyncOrder, AcceptOrder, TakePendingOrder,
     CompleteOrder, FailedOrder DEF Next

LEMMA OrderInit == ASSUME Init PROVE InOrder
<1>1. made = <<>> /\ outbox = {} /\ rows = <<>> /\ served = <<>> /\ working = None /\ request = None
  BY DEF Init
<1>2. /\ DOMAIN rows = {} /\ DOMAIN served = {} /\ served \in Seq(Scans)
      /\ since \in [1..MaxScans -> Nat]
  BY <1>1 DEF Init
<1>3. QED
  BY <1>1, <1>2 DEF InOrder, Received, ServedOrder, InLine, LineOrder, FirstWorks, OutboxOrder, RequestFirst

\* Unless the wall clock steps back between two receipts, the inbox is worked through
\* in the order the scans were made, and a reopened event in the place it had, through
\* lost messages, crashes and failed transactions (acceptDeviceSyncEvents' received_at,
\* loadPendingDeviceSyncEvents, retryFailedDeviceSyncEvents).
THEOREM ScansServedInOrder == Spec => []ServedInOrder
<1>1. Init => ClockSteps \/ InOrder
  BY OrderInit
<1>2. Base /\ Once /\ (ClockSteps \/ InOrder) /\ [Next]_vars => (ClockSteps \/ InOrder)'
  <2>1. Base /\ [Next]_vars => ClockSteps' = ClockSteps
    BY SessionStep DEF Base, Typed, SameInputs, ClockSteps
  <2>2. QED
    BY <2>1, OrderStep
<1>3. ClockSteps \/ InOrder => ServedInOrder
  BY DEF InOrder, ServedOrder, ServedInOrder
<1>4. QED
  BY <1>1, <1>2, <1>3, Invariant, PTL DEF Spec

=============================================================================
