--------------------------- MODULE TrackingBatch ---------------------------
(***************************************************************************)
(* The way of a location update into the database (TrackingService,        *)
(* src/src/tracking/tracking.service.ts): a queue in memory, emptied in    *)
(* batches by processBatch, which an interval timer and the arrival of     *)
(* updates both invoke.                                                    *)
(*                                                                         *)
(* Code between two awaits is one step. processBatch takes the whole queue *)
(* in its first such stretch, then awaits connection, transaction, saves   *)
(* and commit; what it saves is seen by nobody before the commit. A batch  *)
(* that fails is rolled back and partly put back in front of the queue. A  *)
(* connection that cannot be opened, or a rollback that fails, rejects the *)
(* promise of a timer callback, which nothing handles: Node ends the       *)
(* process. These are among the ways to Crash, and so is a signal, since   *)
(* nothing enables the shutdown hooks.                                     *)
(***************************************************************************)
EXTENDS Naturals, FiniteSets, SequencesExt

CONSTANTS
    Vehicles,    \* ids of vehicles
    Times,       \* timestamps the devices put in their updates
    Workers,     \* slots for invocations of processBatch past its guard
    BatchSize,   \* batchSize: a queue this long is processed at once (50)
    MaxQueue,    \* MAX_QUEUE_SIZE (1000)
    ThinAbove,   \* a vehicle with more updates in a batch is thinned (20)
    KeepEvery,   \* thinning and requeueing keep one of these (3)
    KeepFirst,   \* requeueing keeps this many from the front (10)
    MaxUpdates,  \* bound: updates that arrive
    MaxCrashes   \* bound: crashes of the process

ASSUME TrackingAssumption ==
    /\ Times \subseteq Nat
    /\ {BatchSize, MaxQueue, KeepEvery, KeepFirst} \subseteq Nat \ {0}
    /\ {ThinAbove, MaxUpdates, MaxCrashes} \subseteq Nat

VARIABLES
    queue,       \* locationUpdateQueue
    processing,  \* processingBatch
    runs,        \* runs[w]: an invocation of processBatch and its batch
    wake,        \* setTimeout(processBatch, 0) calls not yet fired
    rows,        \* committed rows of vehicle_locations
    arrived,     \* number of updates so far
    crashes      \* number of crashes so far

vars == <<queue, processing, runs, wake, rows, arrived, crashes>>

(* An update: its place in the order of arrival, vehicle and timestamp. *)
Update == [n : 1..MaxUpdates, v : Vehicles, t : Times]

Idle == [at |-> "idle", batch |-> <<>>]

-----------------------------------------------------------------------------
(* Mutant: each of the two limits schedules a batch of its own. *)
WakeForEachLimit(v, t) ==
    /\ arrived < MaxUpdates
    /\ arrived' = arrived + 1
    /\ queue' = Append(queue, [n |-> arrived + 1, v |-> v, t |-> t])
    /\ wake' = IF processing THEN wake
               ELSE wake + (IF Len(queue') >= BatchSize THEN 1 ELSE 0)
                         + (IF Len(queue') >= MaxQueue THEN 1 ELSE 0)
    /\ UNCHANGED <<processing, runs, rows, crashes>>

(* queueLocationData: the update joins the queue; a long queue is processed  *)
(* soon, unless a batch is under way.                                        *)
QueueLocationData(v, t) ==
    /\ arrived < MaxUpdates
    /\ arrived' = arrived + 1
    /\ queue' = Append(queue, [n |-> arrived + 1, v |-> v, t |-> t])
    /\ wake' = IF (Len(queue') >= BatchSize \/ Len(queue') >= MaxQueue) /\ ~processing
               THEN wake + 1 ELSE wake
    /\ UNCHANGED <<processing, runs, rows, crashes>>

(* Mutant: the flag is forgotten. *)
TakeWithoutFlag(w) ==
    /\ runs' = [runs EXCEPT ![w] = [at |-> "saving", batch |-> queue]]
    /\ queue' = <<>>
    /\ UNCHANGED processing

(* processBatch sets its flag and takes the queue. *)
Take(w) ==
    /\ processing' = TRUE
    /\ runs' = [runs EXCEPT ![w] = [at |-> "saving", batch |-> queue]]
    /\ queue' = <<>>

(* processBatch is invoked; it returns at once if there is nothing to do. *)
ProcessBatch(w) ==
    /\ runs[w] = Idle
    /\ IF processing \/ queue = <<>>
       THEN UNCHANGED <<queue, processing, runs>>
       ELSE Take(w)
    /\ UNCHANGED <<rows, arrived, crashes>>

(* ... by the interval timer ... *)
Tick(w) == ProcessBatch(w) /\ UNCHANGED wake

(* ... or by a setTimeout of queueLocationData. *)
WakeUp(w) == wake > 0 /\ wake' = wake - 1 /\ ProcessBatch(w)

(* Mutant: updates are thinned in the order in which they arrived. *)
FirstFirst(a, b) == a.n < b.n

(* The order in which the updates of one vehicle are sorted before they are  *)
(* thinned: the latest first, equal ones as they came. The code sorts from 6 *)
(* on, which matters only where it thins, above 20.                          *)
LatestFirst(a, b) == a.t > b.t \/ (a.t = b.t /\ a.n < b.n)

(* The place of u among the updates us of its vehicle, from 0. *)
Place(us, u) == Cardinality({x \in us : LatestFirst(x, u)})

(* What is saved of the updates us of one vehicle. *)
ToSave(us) ==
    IF Cardinality(us) > ThinAbove THEN {u \in us : Place(us, u) % KeepEvery = 0} ELSE us

(* All groups are saved and the transaction commits. *)
Commit(w) ==
    /\ runs[w].at = "saving"
    /\ rows' = rows \cup
          UNION {ToSave({u \in ToSet(runs[w].batch) : u.v = v}) : v \in Vehicles}
    /\ runs' = [runs EXCEPT ![w].at = "ending"]
    /\ UNCHANGED <<queue, processing, wake, arrived, crashes>>

(* Mutant: every third update is important, however short the batch. *)
OneInThree(i) == (i - 1) % KeepEvery = 0

(* Whether the update in place i of a failed batch counts as important. *)
Keeps(i) == (i - 1) % KeepEvery = 0 \/ i - 1 < KeepFirst

(* importantUpdates: what a failed batch gives back. *)
Important(batch) ==
    LET kept[i \in 0..Len(batch)] ==
            IF i = 0 THEN <<>>
            ELSE IF Keeps(i) THEN Append(kept[i - 1], batch[i])
            ELSE kept[i - 1]
    IN  kept[Len(batch)]

(* Mutant: failed updates queue up again behind those that came meanwhile. *)
RequeueBehind(batch) == queue' = queue \o Important(batch)

(* The important updates go back in front of the queue. *)
Requeue(batch) == queue' = Important(batch) \o queue

(* Mutant: an error of release() counts as a failure of the batch. *)
RollBackLate(w) ==
    /\ runs[w].at \in {"saving", "ending"}
    /\ Requeue(runs[w].batch)
    /\ runs' = [runs EXCEPT ![w].at = "ending"]
    /\ UNCHANGED <<processing, wake, rows, arrived, crashes>>

(* A save or the commit failed and the transaction is rolled back. *)
RollBack(w) ==
    /\ runs[w].at = "saving"
    /\ Requeue(runs[w].batch)
    /\ runs' = [runs EXCEPT ![w].at = "ending"]
    /\ UNCHANGED <<processing, wake, rows, arrived, crashes>>

(* Mutant: no outer finally. *)
EndFlagged(w) ==
    /\ runs[w].at = "ending"
    /\ runs' = [runs EXCEPT ![w] = Idle]
    /\ UNCHANGED <<queue, processing, wake, rows, arrived, crashes>>

(* The connection is released and the outer finally resets the flag. *)
End(w) ==
    /\ runs[w].at = "ending"
    /\ runs' = [runs EXCEPT ![w] = Idle]
    /\ processing' = FALSE
    /\ UNCHANGED <<queue, wake, rows, arrived, crashes>>

(* The process ends and is started again: its memory is lost, an open        *)
(* transaction is rolled back.                                               *)
Crash ==
    /\ crashes < MaxCrashes
    /\ crashes' = crashes + 1
    /\ queue' = <<>> /\ processing' = FALSE /\ wake' = 0
    /\ runs' = [w \in Workers |-> Idle]
    /\ UNCHANGED <<rows, arrived>>

-----------------------------------------------------------------------------
Init ==
    /\ queue = <<>> /\ processing = FALSE /\ wake = 0
    /\ runs = [w \in Workers |-> Idle]
    /\ rows = {} /\ arrived = 0 /\ crashes = 0

Next ==
    \/ \E v \in Vehicles, t \in Times : QueueLocationData(v, t)
    \/ \E w \in Workers :
          Tick(w) \/ WakeUp(w) \/ Commit(w) \/ RollBack(w) \/ End(w)
    \/ Crash

Spec == Init /\ [][Next]_vars

(* The interval timer fires again and again, and each await of a batch       *)
(* answers or fails. Which of the two is left open.                          *)
FairSpec ==
    /\ Spec
    /\ WF_vars(\E w \in Workers : Tick(w))
    /\ \A w \in Workers : WF_vars(Commit(w) \/ RollBack(w)) /\ WF_vars(End(w))

-----------------------------------------------------------------------------
(* Every variable has its type; at most one wake-up per update is pending.   *)
TypeOK ==
    /\ ToSet(queue) \subseteq Update
    /\ processing \in BOOLEAN
    /\ DOMAIN runs = Workers
    /\ \A w \in Workers :
          /\ runs[w].at \in {"idle", "saving", "ending"}
          /\ ToSet(runs[w].batch) \subseteq Update
    /\ wake \in 0..arrived
    /\ rows \subseteq Update
    /\ arrived \in 0..MaxUpdates
    /\ crashes \in 0..MaxCrashes

(* The flag keeps the invocations of processBatch apart: while one is past   *)
(* its guard, the flag is set, and there is no second one.                   *)
OneBatch ==
    \A w \in Workers : runs[w] # Idle =>
        processing /\ \A x \in Workers \ {w} : runs[x] = Idle

(* Failed or not, updates are stored in the order in which they came: the    *)
(* queue is sorted by arrival, behind the batch under way.                   *)
Sorted(s) == \A i, j \in DOMAIN s : i < j => s[i].n < s[j].n

ArrivalOrder ==
    /\ Sorted(queue)
    /\ \A w \in Workers : runs[w].at = "saving" => Sorted(runs[w].batch \o queue)

(* What is stored is not waiting to be stored once more. *)
StoredOnce == ToSet(queue) \cap rows = {}

(* Updates accepted and not yet stored. *)
Pending == ToSet(queue) \cup
    UNION {ToSet(runs[w].batch) : w \in {x \in Workers : runs[x].at = "saving"}}

(* Queue and batch together are what waits in LocationStore: storing is as    *)
(* simple for the rest of the system as that module says, with nothing       *)
(* stored twice and nothing lost in a commit but older positions.            *)
Locations == INSTANCE LocationStore WITH Updates <- Update, waiting <- Pending

StoreSpec == Locations!StoreSpec

(* Updates that a step drops. *)
Gone == Pending \ (Pending' \cup rows')

(* While the process lives, an update is dropped by a failed batch only if   *)
(* it is not among its first KeepFirst: short batches survive any number of  *)
(* failures.                                                                 *)
FailureSparesFirst ==
    [][crashes' = crashes /\ rows' = rows =>
          \A u \in Gone : \E w \in Workers : \E i \in DOMAIN runs[w].batch :
              i > KeepFirst /\ runs[w].batch[i] = u]_vars

(* A commit drops an update only for one of the same vehicle at least as     *)
(* recent: thinning never loses where a vehicle was last.                    *)
ThinningSparesNewest ==
    [][rows' # rows =>
          \A u \in Gone : \E x \in rows' : x.v = u.v /\ x.t >= u.t]_vars

(* What waits in the queue is taken, again and again if need be. *)
QueueServed == queue # <<>> ~> queue = <<>>

(* "Maximum queue size before forcing processing" (line 20): at that size,   *)
(* a batch is under way or about to start.                                   *)
FullQueueForced == Len(queue) >= MaxQueue => processing \/ wake > 0

=============================================================================
