------------------------- MODULE VendorRateLimits --------------------------
(***************************************************************************)
(* The requests of the application to one vendor's API, counted so that    *)
(* the vendor's limits are kept (VendorRateLimits.cpp).                    *)
(*                                                                         *)
(* Requests are counted by the seconds of the wall clock, which may step   *)
(* back; the vendor counts by the seconds that pass.  The sequence of      *)
(* counted requests is searched as if it were sorted, also after a step    *)
(* back.  The counts are in memory, and in a file that a later start       *)
(* reads.  The callers are threads, for which a mutex makes every step     *)
(* between two waits atomic.                                               *)
(***************************************************************************)
EXTENDS Integers, SequencesExt

CONSTANTS
  Callers,
  None,
  Minute,        \* kMinute
  Day,           \* kDay
  MaxWait,       \* kMaximumWaitSeconds
  MaxBlock,      \* kMaximumBlockSeconds
  MaxAttempts,   \* the attempts of admit
  MaxStored,     \* kMaximumStoredRequests
  Hints,         \* the waits a vendor may ask for
  MaxTime,       \* bound: the time
  Sessions       \* the vendors, each with bounds for one exploration

\* windows: the windows of the vendor, the shortest first.  The others bound the
\* requests sent, the steps back of the clock, the answers 429 (refusals) or with
\* a quota, the saves that fail (faults) and the times the program ends.
SessionType == [windows : Seq([seconds : 1..Day, limit : 1..MaxStored]), requests : Nat,
                backs : Nat, refusals : Nat, quotas : Nat, faults : Nat, restarts : Nat]

ASSUME LimitsAssumption ==
  /\ None \notin Nat /\ Hints \subseteq Nat \ {0} /\ MaxTime \in Nat
  /\ {Minute, Day, MaxBlock, MaxAttempts, MaxStored} \subseteq Nat \ {0} /\ MaxWait \in Nat
  /\ Sessions \subseteq SessionType

VARIABLES
  session,       \* what there is left of the session
  time,          \* the seconds that have passed
  now,           \* the wall clock
  requests,      \* the wall clock at each counted request
  blockedUntil,  \* the wall clock until which the vendor asked to wait
  quota,         \* the last quota the vendor reported for its longest window
  file,          \* what a start would load
  callers,       \* what each caller is doing
  sent,          \* history: the time of each request sent
  asked,         \* history: the time until which the vendor asked to wait, as far as
                 \* the code keeps it (MaxBlock)
  unsaved,       \* history: whether the last save failed
  trusted        \* history: whether everything sent is still counted

memory == <<requests, blockedUntil, quota>>
vars == <<session, time, now, memory, file, callers, sent, asked, unsaved, trusted>>

windows == session.windows
Use(bound) == session[bound] > 0 /\ session' = [session EXCEPT ![bound] = @ - 1]

\* The program starts for the first time, long after 1970.
Init ==
  /\ session \in Sessions
  /\ time = 0 /\ now = 2 * Day
  /\ requests = <<>> /\ blockedUntil = 0 /\ quota = None
  /\ file = [requests |-> <<>>, blockedUntil |-> 0]
  /\ callers = [c \in Callers |-> [at |-> "idle"]]
  /\ sent = <<>> /\ asked = 0 /\ unsaved = FALSE /\ trusted = TRUE

Max2(m, n) == IF m < n THEN n ELSE m
Min2(m, n) == IF m < n THEN m ELSE n

-----------------------------------------------------------------------------
(* What is counted. *)

\* A clock that moved back leaves requests in the future.
Future(at, clock) == at > clock + Minute

\* Mutant of Prune: nothing is kept that is later than the clock.
PruneLater(seq, clock) ==
  LET recent  == {i \in DOMAIN seq : seq[i] > clock - Day}
      first   == IF recent = {} THEN Len(seq) + 1 ELSE Min(recent)
      present == {i \in first..Len(seq) : seq[i] <= clock}
      last    == IF present = {} THEN 0 ELSE Max(present)
  IN  SubSeq(seq, Max2(first, last - MaxStored + 1), last)

\* The deque from the first request of the last day to the last that is not in
\* the future, and no more than are stored.
Prune(seq, clock) ==
  LET recent  == {i \in DOMAIN seq : seq[i] > clock - Day}
      first   == IF recent = {} THEN Len(seq) + 1 ELSE Min(recent)
      present == {i \in first..Len(seq) : ~Future(seq[i], clock)}
      last    == IF present = {} THEN 0 ELSE Max(present)
  IN  SubSeq(seq, Max2(first, last - MaxStored + 1), last)

\* Whether it takes away requests of the last day.
Forgets(seq, clock) == seq # <<>> /\ Future(Last(seq), clock)

\* std::upper_bound: how many requests are before the first one after `value`,
\* by bisection, whether they are sorted or not.  A range is <<first, length>>.
UpperBound(seq, value) ==
  LET bisect[range \in {r \in (0..Len(seq)) \X (0..Len(seq)) : r[1] + r[2] <= Len(seq)}] ==
        LET half   == range[2] \div 2
            middle == range[1] + half
        IN  IF range[2] = 0 THEN range[1]
            ELSE IF value < seq[middle + 1] THEN bisect[<<range[1], half>>]
            ELSE bisect[<<middle + 1, range[2] - half - 1>>]
  IN  bisect[<<0, Len(seq)>>]

\* The vendor's own count covers requests of other copies of the program.
UsedIn(seq, window, clock) ==
  LET since    == clock - window.seconds
      counted  == Len(seq) - UpperBound(seq, since)
      reported == quota.limit - quota.remaining + Len(seq) - UpperBound(seq, quota.at)
  IN  IF quota # None /\ quota.limit = window.limit /\ quota.at > since
      THEN Max2(counted, reported) ELSE counted

Full(seq, window, clock) == UsedIn(seq, window, clock) >= window.limit

\* Mutant of FreeAt: the oldest request in the window makes room, however many
\* there are.
FreeAtOldest(seq, window, clock) ==
  LET inWindow == {i \in DOMAIN seq : seq[i] > clock - window.seconds}
  IN  window.seconds + (IF inWindow = {} THEN clock ELSE seq[Min(inWindow)])

\* The k-th of some indices.
Nth(indices, k) == CHOOSE i \in indices : Cardinality({j \in indices : j <= i}) = k

\* When one more request fits in a full window.
FreeAt(seq, window, clock) ==
  LET inWindow == {i \in DOMAIN seq : seq[i] > clock - window.seconds}
      index    == UsedIn(seq, window, clock) - window.limit + 1
  IN  window.seconds + (IF index <= Cardinality(inWindow) THEN seq[Nth(inWindow, index)]
                        ELSE IF inWindow = {} THEN clock ELSE seq[Max(inWindow)])

AvailableAt(seq, clock) ==
  LET times == {FreeAt(seq, w, clock) : w \in {w \in Range(windows) : Full(seq, w, clock)}}
                 \cup {blockedUntil}
      at    == Max(times)
  IN  IF at > clock THEN at ELSE 0

WaitSeconds(seq, clock) == Max2(0, AvailableAt(seq, clock) - clock)

\* saveLocked, which may fail; the counts are advisory.
Save(seq, blocked, rest) ==
  \/ /\ file' = [requests |-> seq, blockedUntil |-> blocked]
     /\ unsaved' = FALSE
     /\ session' = rest
  \/ /\ rest.faults > 0 /\ session' = [rest EXCEPT !.faults = @ - 1]
     /\ unsaved' = TRUE
     /\ UNCHANGED file

-----------------------------------------------------------------------------
(* A caller asks to send a request: admit. *)

Becomes(c, state) == callers' = [callers EXCEPT ![c] = state]
Idle == [at |-> "idle"]
Sent == [at |-> "sent"]

\* An attempt, of a caller that comes or that slept as long as it was told, begins
\* with a prune.
Attempt(c) ==
  /\ \/ callers[c].at = "idle"
     \/ /\ callers[c].at = "asleep" /\ callers[c].until <= time
        /\ callers[c].attempts < MaxAttempts
  /\ trusted' = (trusted /\ ~Forgets(requests, now))
  /\ UNCHANGED <<time, now, blockedUntil, quota, asked>>

Pruned == Prune(requests, now)
Wait == WaitSeconds(Pruned, now)

\* The request is counted before the mutex is released, and then sent.
Admitted(c) ==
  /\ Attempt(c) /\ Wait = 0
  /\ session.requests > 0
  /\ requests' = Append(Pruned, now)
  /\ Save(requests', blockedUntil, [session EXCEPT !.requests = @ - 1])
  /\ sent' = Append(sent, time)
  /\ Becomes(c, Sent)

\* Out of requests for long: nothing is sent.
Refused(c) ==
  /\ Attempt(c) /\ Wait > MaxWait
  /\ requests' = Pruned
  /\ Becomes(c, Idle)
  /\ UNCHANGED <<session, file, sent, unsaved>>

\* A short wait is slept through.
Sleeps(c) ==
  /\ Attempt(c) /\ Wait \in 1..MaxWait
  /\ requests' = Pruned
  /\ Becomes(c, [at |-> "asleep", until |-> time + Wait,
                 attempts |-> 1 + IF callers[c].at = "idle" THEN 0 ELSE callers[c].attempts])
  /\ UNCHANGED <<session, file, sent, unsaved>>

\* After the last attempt.
GivesUp(c) ==
  /\ callers[c].at = "asleep" /\ callers[c].until <= time
  /\ callers[c].attempts = MaxAttempts
  /\ Becomes(c, Idle)
  /\ UNCHANGED <<session, time, now, memory, file, sent, asked, unsaved, trusted>>

-----------------------------------------------------------------------------
(* The vendor answers: noteResponse, which reads the clock first. *)

\* An answer without a limit, or none.
Answered(c) ==
  /\ callers[c].at = "sent"
  /\ Becomes(c, Idle)
  /\ UNCHANGED <<session, time, now, memory, file, sent, asked, unsaved, trusted>>

\* An answer with what is left of a quota, a status 429 (with a hint, or 0), or both.
AnswerNoted(c) ==
  /\ callers[c].at = "sent"
  /\ \E left \in 0..MaxStored \cup {None}, hint \in Hints \cup {0, None} :
       /\ left # None => windows # <<>> /\ left <= Last(windows).limit /\ session.quotas > 0
       /\ hint # None => session.refusals > 0
       /\ left # None \/ hint # None
       /\ Becomes(c, [at |-> IF left # None THEN "quota" ELSE "refusal",
                      clock |-> now, time |-> time, left |-> left, hint |-> hint])
       /\ session' = [session EXCEPT !.quotas = IF left # None THEN @ - 1 ELSE @,
                                     !.refusals = IF hint # None THEN @ - 1 ELSE @]
  /\ UNCHANGED <<time, now, memory, file, sent, asked, unsaved, trusted>>

\* recordServerQuota.
RecordServerQuota(c) ==
  /\ callers[c].at = "quota"
  /\ quota' = [limit |-> Last(windows).limit, remaining |-> callers[c].left, at |-> callers[c].clock]
  /\ IF callers[c].hint = None THEN Becomes(c, Idle)
     ELSE callers' = [callers EXCEPT ![c].at = "refusal"]
  /\ UNCHANGED <<session, time, now, requests, blockedUntil, file, sent, asked, unsaved, trusted>>

\* Without a hint, the longest window that is nearly used up is taken to be
\* full, or else the shortest.
Guess(clock) ==
  LET nearly == {i \in DOMAIN windows : UsedIn(requests, windows[i], clock) * 10 >= windows[i].limit * 9}
      window == windows[Max(nearly)]
  IN  IF windows = <<>> THEN Minute
      ELSE IF nearly = {} THEN Head(windows).seconds
      ELSE IF Full(requests, window, clock) /\ FreeAt(requests, window, clock) > clock
           THEN FreeAt(requests, window, clock) - clock ELSE window.seconds

\* recordLimitReached.
RecordLimitReached(c) ==
  LET hint  == callers[c].hint
      clock == callers[c].clock
      block == IF hint > 0 THEN Min2(hint, MaxBlock) ELSE Guess(clock)
  IN  /\ callers[c].at = "refusal"
      /\ blockedUntil' = Max2(blockedUntil, clock + block)
      /\ asked' = IF hint > 0 THEN Max2(asked, callers[c].time + Min2(hint, MaxBlock)) ELSE asked
      /\ Save(requests, blockedUntil', session)
      /\ Becomes(c, Idle)
      /\ UNCHANGED <<time, now, requests, quota, sent, trusted>>

-----------------------------------------------------------------------------
(* The program ends, and another starts. *)

\* The requests at some indices, sorted.
NotAfter(seq, i, j) == seq[i] < seq[j] \/ (seq[i] = seq[j] /\ i <= j)
Sorted(seq, indices) ==
  [k \in 1..Cardinality(indices) |->
     seq[CHOOSE i \in indices : Cardinality({j \in indices : NotAfter(seq, j, i)}) = k]]

\* setStoragePath, loadLocked.
Restart ==
  LET blocked == file.blockedUntil
      recent  == {i \in DOMAIN file.requests : file.requests[i] > now - Day}
      current == {i \in recent : ~Future(file.requests[i], now)}
  IN  /\ Use("restarts")
      /\ callers' = [c \in Callers |-> Idle]
      /\ requests' = Prune(Sorted(file.requests, current), now)
      /\ blockedUntil' = IF blocked > now /\ blocked - now <= MaxBlock THEN blocked ELSE 0
      /\ quota' = None
      /\ trusted' = (trusted /\ ~unsaved /\ current = recent /\ blocked - now <= MaxBlock)
      /\ unsaved' = FALSE
      /\ UNCHANGED <<time, now, file, sent, asked>>

(* The clock. *)

Tick ==
  /\ time < MaxTime
  /\ time' = time + 1 /\ now' = now + 1
  /\ UNCHANGED <<session, memory, file, callers, sent, asked, unsaved, trusted>>

StepBack ==
  /\ Use("backs")
  /\ now' = now - 1
  /\ UNCHANGED <<time, memory, file, callers, sent, asked, unsaved, trusted>>

-----------------------------------------------------------------------------

Next ==
  \/ \E c \in Callers :
       \/ Admitted(c) \/ Refused(c) \/ Sleeps(c) \/ GivesUp(c)
       \/ Answered(c) \/ AnswerNoted(c) \/ RecordServerQuota(c) \/ RecordLimitReached(c)
  \/ Restart \/ Tick \/ StepBack

Spec == Init /\ [][Next]_vars

-----------------------------------------------------------------------------
(* Correctness. *)

TypeOK ==
  /\ session \in SessionType
  /\ {time, blockedUntil, asked} \subseteq Nat /\ now \in Int
  /\ requests \in Seq(Int) /\ Len(requests) <= MaxStored + 1
  /\ sent \in Seq(0..time)
  /\ quota = None \/ quota \in [limit : 1..MaxStored, remaining : 0..MaxStored, at : Int]
  /\ file \in [requests : Seq(Int), blockedUntil : Nat]
  /\ \A c \in Callers : callers[c].at \in {"idle", "asleep", "sent", "quota", "refusal"}
  /\ {unsaved, trusted} \subseteq BOOLEAN

\* As long as the program still counts what it sent, it sends no request that the
\* vendor would refuse: none beyond the limit of a window, and none before the
\* time the vendor asked to wait, or the longest block when it asked for longer,
\* has passed, although the wall clock steps back, the requests are then not
\* sorted, and the program ends and starts again.
WithinWindows ==
  \A w \in Range(windows) : Cardinality({i \in DOMAIN sent : sent[i] > time - w.seconds}) < w.limit
LimitsKept == [][trusted' /\ sent' # sent => WithinWindows /\ time >= asked]_vars

\* When a vendor is out of requests, the time that is announced is one when a
\* request is admitted, unless others are sent before, as long as no step back
\* has disordered the requests and the vendor reported no quota.
Ascending(seq) == \A i, j \in DOMAIN seq : i <= j => seq[i] <= seq[j]
FreeWhenAnnounced ==
  LET at == AvailableAt(Pruned, now)
  IN  at > 0 /\ quota = None /\ Ascending(Pruned) => WaitSeconds(Prune(Pruned, at), at) = 0

=============================================================================
