--------------------------- MODULE TrackingCache ---------------------------
(***************************************************************************)
(* Where a vehicle was last: the answer of TrackingService                 *)
(* (src/src/tracking/tracking.service.ts) lies in three places, a map in   *)
(* the process's memory, a cache with an expiry and the table. Updates set *)
(* the map at once, the cache now and then and the table in batches; who   *)
(* finds nothing in one place asks the next and refills those before it.   *)
(*                                                                         *)
(* One action is the code between two awaits. A slot of calls is a request *)
(* under way: an update, a query for the latest location, or one for the   *)
(* history. Distance and bearing, the alerts, the broadcast and the        *)
(* publication of an update change nothing here. An update whose timestamp *)
(* is too old is refused before it does anything and does not appear.      *)
(***************************************************************************)
EXTENDS Naturals, FiniteSets

CONSTANTS
    Vehicles,         \* ids of vehicles
    Times,            \* timestamps the devices put in their updates
    Calls,            \* slots for requests under way
    GeofenceEnabled,  \* TRACKING_GEOFENCE_ENABLED
    None,             \* nothing there (null, undefined)
    Roles,            \* bound: which slot serves which kind of request
    MaxUpdates,       \* bound: updates that arrive
    MaxCrashes        \* bound: crashes of the process

(* An update: its place in the order of arrival, vehicle and timestamp. *)
Update == [n : 1..MaxUpdates, v : Vehicles, t : Times]

ASSUME CacheAssumption ==
    /\ None \notin Update
    /\ Times \subseteq Nat \ {0}
    /\ GeofenceEnabled \in BOOLEAN
    /\ Roles \subseteq [Calls -> {"update", "latest", "history"}]
    /\ {MaxUpdates, MaxCrashes} \subseteq Nat

VARIABLES
    memory,   \* latestLocationCache
    cache,    \* keys vehicle:<id>:location of the cache
    pages,    \* keys history:<id>:...: a cached page and its total
    writes,   \* updates whose unawaited write to the cache is under way
    waiting,  \* updates accepted and on their way to the table
    rows,     \* rows of vehicle_locations
    calls,    \* requests
    arrived,  \* number of updates so far
    crashes,  \* number of crashes so far
    roles     \* the kinds of requests the slots serve

vars == <<memory, cache, pages, writes, waiting, rows, calls, arrived, crashes,
          roles>>

RowsOf(v) == {r \in rows : r.v = v}

(* The row of v with the highest timestamp, 0 if there is none. *)
LatestTime(v) ==
    IF RowsOf(v) = {} THEN 0
    ELSE CHOOSE t \in {r.t : r \in RowsOf(v)} : \A r \in RowsOf(v) : r.t <= t

(* What a finished or unused slot holds. *)
Idle == [at |-> "idle", v |-> None, u |-> None, got |-> None, total |-> None,
         src |-> "none", floor |-> 0]

Go(c, at) == calls' = [calls EXCEPT ![c].at = at]

IsUpdate(c) == calls[c].u # None

-----------------------------------------------------------------------------
(* A request begins; floor remembers what the table held by then. *)
Begin(c, kind, at, v, u) ==
    /\ roles[c] = kind
    /\ calls[c] = Idle
    /\ calls' = [calls EXCEPT ![c] =
          [Idle EXCEPT !.at = at, !.v = v, !.u = u, !.floor = LatestTime(v)]]

(* updateLocation, up to the look at the map. *)
UpdateLocation(c, v, t) ==
    /\ arrived < MaxUpdates
    /\ arrived' = arrived + 1
    /\ Begin(c, "update", IF GeofenceEnabled THEN "fence" ELSE "prev", v,
             [n |-> arrived + 1, v |-> v, t |-> t])
    /\ UNCHANGED <<memory, cache, pages, writes, waiting, rows, crashes, roles>>

(* isWithinGeofence answers, from its own cache or from the coordinates, or  *)
(* fails; the update goes on in any case.                                    *)
Fence(c) ==
    /\ calls[c].at = "fence"
    /\ Go(c, "prev")
    /\ UNCHANGED <<memory, cache, pages, writes, waiting, rows, arrived, crashes, roles>>

(* queueLocationData, once the previous location is known or known to be     *)
(* missing.                                                                  *)
Queue(c) ==
    /\ waiting' = waiting \cup {calls[c].u}
    /\ Go(c, "remember")

(* The previous location is looked up in the map first. *)
Previous(c) ==
    /\ calls[c].at = "prev"
    /\ IF memory[calls[c].v] # None
       THEN Queue(c)
       ELSE Go(c, "read") /\ UNCHANGED waiting
    /\ UNCHANGED <<memory, cache, pages, writes, rows, arrived, crashes, roles>>

(* getLatestLocation goes to getLastKnownLocation directly. *)
GetLatestLocation(c, v) ==
    /\ Begin(c, "latest", "read", v, None)
    /\ UNCHANGED <<memory, cache, pages, writes, waiting, rows, arrived, crashes, roles>>

(* getLastKnownLocation returns x: an update goes on, a query is answered.   *)
Return(c, x, src) ==
    IF IsUpdate(c)
    THEN Queue(c)
    ELSE /\ calls' = [calls EXCEPT ![c].at = "done", ![c].got = x, ![c].src = src]
         /\ UNCHANGED waiting

(* getLastKnownLocation asks the cache. Whatever fails from here on is       *)
(* logged and answered with null.                                            *)
Read(c) ==
    /\ calls[c].at = "read"
    /\ \/ cache[calls[c].v] # None /\ Return(c, cache[calls[c].v], "cache")
       \/ cache[calls[c].v] = None /\ Go(c, "query") /\ UNCHANGED waiting
       \/ Return(c, None, "failure")
    /\ UNCHANGED <<memory, cache, pages, writes, rows, arrived, crashes, roles>>

(* Mutant: the oldest row instead of the newest. *)
Ascending(v) == {r \in RowsOf(v) : \A x \in RowsOf(v) : r.t <= x.t}

(* findOne, ordered by timestamp descending: which of equal ones is open. *)
Newest(v) == {r \in RowsOf(v) : \A x \in RowsOf(v) : r.t >= x.t}

(* ... then the table. *)
Query(c) ==
    /\ calls[c].at = "query"
    /\ \/ RowsOf(calls[c].v) = {} /\ Return(c, None, "table")
       \/ /\ \E r \in Newest(calls[c].v) :
                calls' = [calls EXCEPT ![c].at = "fillCache", ![c].got = r]
          /\ UNCHANGED waiting
       \/ Return(c, None, "failure")
    /\ UNCHANGED <<memory, cache, pages, writes, rows, arrived, crashes, roles>>

(* A row that was found is put in the cache ... *)
FillCache(c) ==
    /\ calls[c].at = "fillCache"
    /\ \/ /\ cache' = [cache EXCEPT ![calls[c].v] = calls[c].got]
          /\ Go(c, "fillMemory")
          /\ UNCHANGED waiting
       \/ Return(c, None, "failure") /\ UNCHANGED cache
    /\ UNCHANGED <<memory, pages, writes, rows, arrived, crashes, roles>>

(* Mutant: the map takes what the cache has by now. *)
FillFromCache(c) ==
    /\ calls[c].at = "fillMemory"
    /\ memory' = [memory EXCEPT ![calls[c].v] =
                     IF cache[calls[c].v] = None THEN @ ELSE cache[calls[c].v]]
    /\ Return(c, calls[c].got, "table")
    /\ UNCHANGED <<cache, pages, writes, rows, arrived, crashes, roles>>

(* ... and in the map, whatever the map holds by now. *)
FillMemory(c) ==
    /\ calls[c].at = "fillMemory"
    /\ memory' = [memory EXCEPT ![calls[c].v] = calls[c].got]
    /\ Return(c, calls[c].got, "table")
    /\ UNCHANGED <<cache, pages, writes, rows, arrived, crashes, roles>>

(* updateLocationMemoryCache, and the broadcast after it: the map has the    *)
(* update, and one in ten also starts on its way to the cache.               *)
Remember(c) ==
    /\ calls[c].at = "remember"
    /\ memory' = [memory EXCEPT ![calls[c].v] = calls[c].u]
    /\ writes' \in {writes, writes \cup {calls[c].u}}
    /\ calls' = [calls EXCEPT ![c] = Idle]
    /\ UNCHANGED <<cache, pages, waiting, rows, arrived, crashes, roles>>

(* updateLocationCache: the write lands or fails, in any order. *)
CacheWrite(u) ==
    /\ u \in writes
    /\ writes' = writes \ {u}
    /\ cache' \in {cache, [cache EXCEPT ![u.v] = u]}
    /\ UNCHANGED <<memory, pages, waiting, rows, calls, arrived, crashes, roles>>

-----------------------------------------------------------------------------
(* getLocationHistory for a period that holds every row and one page. *)
GetLocationHistory(c, v) ==
    /\ Begin(c, "history", "page", v, None)
    /\ UNCHANGED <<memory, cache, pages, writes, waiting, rows, arrived, crashes, roles>>

(* A cached page is the answer; without one two queries start together. A    *)
(* failure is answered with an empty page.                                   *)
ReadPage(c) ==
    LET hit == pages[calls[c].v] IN
    /\ calls[c].at = "page"
    /\ calls' = [calls EXCEPT ![c] =
          IF hit = None THEN [@ EXCEPT !.at = "queries"]
          ELSE [@ EXCEPT !.at = "done", !.got = hit.got, !.total = hit.total]]
    /\ UNCHANGED <<memory, cache, pages, writes, waiting, rows, arrived, crashes, roles>>

(* Mutant: updates that are not stored yet are counted. *)
CountQueued(v) == Cardinality(RowsOf(v) \cup {u \in waiting : u.v = v})

(* The count, and the rows, each by a query of its own. *)
Counted(v) == Cardinality(RowsOf(v))

QueryRows(c) ==
    /\ calls[c].at = "queries" /\ calls[c].got = None
    /\ calls' = [calls EXCEPT ![c].got = RowsOf(calls[c].v)]
    /\ UNCHANGED <<memory, cache, pages, writes, waiting, rows, arrived, crashes, roles>>

QueryCount(c) ==
    /\ calls[c].at = "queries" /\ calls[c].total = None
    /\ calls' = [calls EXCEPT ![c].total = Counted(calls[c].v)]
    /\ UNCHANGED <<memory, cache, pages, writes, waiting, rows, arrived, crashes, roles>>

(* Mutant: the page is cached under the key of the latest location. *)
FillPageUnderLocation(c) ==
    /\ calls[c].at = "queries" /\ calls[c].got # None /\ calls[c].total # None
    /\ cache' = [cache EXCEPT ![calls[c].v] =
                    [got |-> calls[c].got, total |-> calls[c].total]]
    /\ Go(c, "done")
    /\ UNCHANGED <<memory, pages, writes, waiting, rows, arrived, crashes, roles>>

(* Both have answered: the page is cached for the next five minutes. *)
FillPage(c) ==
    /\ calls[c].at = "queries" /\ calls[c].got # None /\ calls[c].total # None
    /\ pages' = [pages EXCEPT ![calls[c].v] =
                    [got |-> calls[c].got, total |-> calls[c].total]]
    /\ Go(c, "done")
    /\ UNCHANGED <<memory, cache, writes, waiting, rows, arrived, crashes, roles>>

(* A query has its answer, or one of its awaits failed. *)
Finish(c) ==
    /\ calls[c].at \in {"done", "page", "queries"}
    /\ calls' = [calls EXCEPT ![c] = Idle]
    /\ UNCHANGED <<memory, cache, pages, writes, waiting, rows, arrived, crashes, roles>>

-----------------------------------------------------------------------------
(* The table is taken at the word of LocationStore, which TrackingBatch      *)
(* implements.                                                               *)
Locations == INSTANCE LocationStore WITH Updates <- Update

Batch ==
    /\ Locations!Store \/ Locations!Drop
    /\ UNCHANGED <<memory, cache, pages, writes, calls, arrived, crashes, roles>>

(* Mutant: rows are cached without an expiry. *)
ExpireUpdates(v) ==
    /\ cache[v] # None /\ cache[v] \notin rows
    /\ cache' = [cache EXCEPT ![v] = None]
    /\ UNCHANGED <<memory, pages, writes, waiting, rows, calls, arrived, crashes, roles>>

(* LOCATION_CACHE_TTL has passed. *)
Expire(v) ==
    /\ cache[v] # None
    /\ cache' = [cache EXCEPT ![v] = None]
    /\ UNCHANGED <<memory, pages, writes, waiting, rows, calls, arrived, crashes, roles>>

(* The five minutes of a page have passed. *)
ExpirePage(v) ==
    /\ pages[v] # None
    /\ pages' = [pages EXCEPT ![v] = None]
    /\ UNCHANGED <<memory, cache, writes, waiting, rows, calls, arrived, crashes, roles>>

(* The process ends and is started again. The cache is lost with it if it    *)
(* lives in the process, and kept if it lives in Redis.                      *)
Crash ==
    LET empty == [v \in Vehicles |-> None] IN
    /\ crashes < MaxCrashes
    /\ crashes' = crashes + 1
    /\ memory' = empty /\ writes' = {} /\ waiting' = {}
    /\ calls' = [c \in Calls |-> Idle]
    /\ \/ UNCHANGED <<cache, pages>>
       \/ cache' = empty /\ pages' = empty
    /\ UNCHANGED <<rows, arrived, roles>>

-----------------------------------------------------------------------------
Init ==
    /\ memory = [v \in Vehicles |-> None]
    /\ cache = memory /\ pages = memory
    /\ writes = {} /\ waiting = {} /\ rows = {}
    /\ calls = [c \in Calls |-> Idle]
    /\ arrived = 0 /\ crashes = 0
    /\ roles \in Roles

Step(c) ==
    \/ Fence(c) \/ Previous(c) \/ Read(c) \/ Query(c) \/ FillCache(c)
    \/ FillMemory(c) \/ Remember(c)
    \/ ReadPage(c) \/ QueryRows(c) \/ QueryCount(c) \/ FillPage(c) \/ Finish(c)

Next ==
    \/ \E c \in Calls, v \in Vehicles :
          \/ \E t \in Times : UpdateLocation(c, v, t)
          \/ GetLatestLocation(c, v) \/ GetLocationHistory(c, v)
    \/ \E c \in Calls : Step(c)
    \/ \E u \in writes : CacheWrite(u)
    \/ Batch
    \/ \E v \in Vehicles : Expire(v) \/ ExpirePage(v)
    \/ Crash

Spec == Init /\ [][Next]_vars

(* Awaits answer or fail, and a key's time passes. Nothing else is certain:  *)
(* no update or query has to come, and no batch has to succeed.              *)
FairSpec ==
    /\ Spec
    /\ \A c \in Calls : WF_vars(Step(c))
    /\ WF_vars(\E u \in writes : CacheWrite(u))
    /\ \A v \in Vehicles : WF_vars(Expire(v))

-----------------------------------------------------------------------------
(* Every variable has its type. *)
TypeOK ==
    /\ \A v \in Vehicles :
          /\ memory[v] \in {u \in Update : u.v = v} \cup {None}
          /\ cache[v] \in {u \in Update : u.v = v} \cup {None}
    /\ writes \cup waiting \cup rows \subseteq Update
    /\ \A c \in Calls :
          calls[c].at \in {"idle", "fence", "prev", "read", "query", "fillCache",
                           "fillMemory", "remember", "page", "queries", "done"}
    /\ arrived \in 0..MaxUpdates /\ crashes \in 0..MaxCrashes

(* A query that the table answered knows at least as much as the table did   *)
(* when the query came: no older location, and not none if there was one.    *)
TableAnswerIsRecent ==
    \A c \in Calls : calls[c].src = "table" =>
        IF calls[c].got = None THEN calls[c].floor = 0
        ELSE calls[c].got.t >= calls[c].floor

(* The map goes back to an earlier update of its vehicle only when that      *)
(* update's own request was overtaken, or to a row of the table: a location  *)
(* that was accepted and then lost never comes back.                         *)
GoesBackToStored ==
    [][\A v \in Vehicles :
          memory[v] # None /\ memory'[v] # None /\ memory'[v].n < memory[v].n =>
              \/ memory'[v] \in rows
              \/ \E c \in Calls : calls[c].at = "remember" /\ calls[c].u = memory'[v]]_vars

(* The total of a history and its rows are read by two queries with no       *)
(* transaction around them: what is answered, and cached, may disagree, but  *)
(* by no more than the rows that are in the table by then.                   *)
PageWithinTable ==
    \A v \in Vehicles : pages[v] # None =>
        /\ pages[v].got \subseteq RowsOf(v)
        /\ pages[v].total <= Cardinality(RowsOf(v))

(* Once updates and crashes cease, the cache settles on the newest row,      *)
(* whatever late writes and refills put there before.                        *)
CacheSettles ==
    <>[](\A v \in Vehicles : cache[v] # None => cache[v] \in Newest(v))

=============================================================================
