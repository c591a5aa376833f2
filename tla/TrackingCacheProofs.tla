------------------------ MODULE TrackingCacheProofs ------------------------
(***************************************************************************)
(* Theorems about TrackingCache, for any number of vehicles, requests,     *)
(* updates and crashes.                                                    *)
(***************************************************************************)
EXTENDS TrackingCache, Extrema

(***************************************************************************)
(* The places and the requests as data. What a request carries is related  *)
(* to the rows, and every part of the relation survives the arrival of     *)
(* more rows: that is what makes it inductive, although nothing orders the *)
(* requests against the batches.                                           *)
(***************************************************************************)
Located(v) == {u \in Update : u.v = v}

At == {"idle", "fence", "prev", "read", "query", "fillCache", "fillMemory", "remember",
       "page", "queries", "done"}

Request == [at : At, v : Vehicles \cup {None}, u : Update \cup {None},
            got : Update \cup {None} \cup SUBSET Update, total : Nat \cup {None},
            src : {"none", "cache", "table", "failure"}, floor : Nat]

Page == [got : SUBSET Update, total : Nat]

Place(m) ==
    /\ m \in [Vehicles -> Update \cup {None}]
    /\ \A v \in Vehicles : m[v] # None => m[v].v = v

Within(got, total, v) == got \subseteq RowsOf(v) /\ total <= Cardinality(RowsOf(v))

PagesOK ==
    /\ pages \in [Vehicles -> Page \cup {None}]
    /\ \A v \in Vehicles : pages[v] # None => Within(pages[v].got, pages[v].total, v)

(* The table holds a row at least as recent as the floor, if there is one.   *)
Reached(k) == k.floor = 0 \/ \E r \in RowsOf(k.v) : r.t >= k.floor

(* The row on its way to cache and map is one of the table, and no older.    *)
Found(k) ==
    k.at \in {"fillCache", "fillMemory"} => k.got \in RowsOf(k.v) /\ k.got.t >= k.floor

Answered(k) == IF k.got = None THEN k.floor = 0 ELSE k.got.t >= k.floor

RequestOK(k) ==
    /\ k.at # "idle" => k.v \in Vehicles
    /\ k.at \in {"fence", "prev", "remember"} => k.u # None
    /\ k.u # None => k.u.v = k.v
    /\ k.at = "page" => k.got = None /\ k.total = None
    /\ k.at = "queries" =>
          /\ k.got # None => k.got \subseteq RowsOf(k.v)
          /\ k.total # None => k.total <= Cardinality(RowsOf(k.v))
    /\ k.at # "done" => k.src = "none"
    /\ k.src = "table" => Answered(k)
    /\ Found(k) /\ Reached(k)

RequestsOK ==
    /\ calls \in [Calls -> Request]
    /\ \A c \in Calls : RequestOK(calls[c])

Typed ==
    /\ Place(memory) /\ Place(cache)
    /\ {writes, waiting, rows} \subseteq SUBSET Update
    /\ IsFiniteSet(waiting) /\ IsFiniteSet(rows)
    /\ arrived \in 0..MaxUpdates /\ crashes \in 0..MaxCrashes

CacheInv == Typed /\ PagesOK /\ RequestsOK

-----------------------------------------------------------------------------
(* What rows there are, requests and pages only ever see more of.            *)
Growing == rows \subseteq rows' /\ IsFiniteSet(rows')

LEMMA RowsGrow ==
    ASSUME Growing, NEW v
    PROVE  /\ RowsOf(v) \subseteq RowsOf(v)'
           /\ Cardinality(RowsOf(v)) \in Nat /\ Cardinality(RowsOf(v)') \in Nat
           /\ Cardinality(RowsOf(v)) <= Cardinality(RowsOf(v)')
<1>1. RowsOf(v) \subseteq RowsOf(v)' /\ RowsOf(v)' \in SUBSET rows'
  BY DEF Growing, RowsOf
<1>2. IsFiniteSet(RowsOf(v)')
  BY <1>1, FS_Subset DEF Growing
<1>3. IsFiniteSet(RowsOf(v)) /\ Cardinality(RowsOf(v)) <= Cardinality(RowsOf(v)')
  BY <1>1, <1>2, FS_Subset
<1> QED  BY <1>1, <1>2, <1>3, FS_CardinalityType

LEMMA RequestKept ==
    ASSUME Growing, NEW k \in Request, RequestOK(k)
    PROVE  RequestOK(k)'
<1>1. /\ RowsOf(k.v) \subseteq RowsOf(k.v)'
      /\ Cardinality(RowsOf(k.v)) \in Nat /\ Cardinality(RowsOf(k.v)') \in Nat
      /\ Cardinality(RowsOf(k.v)) <= Cardinality(RowsOf(k.v)')
  BY RowsGrow
<1>2. k.total \in Nat \cup {None}
  BY DEF Request
<1>3. Found(k)' /\ Reached(k)'
  BY <1>1 DEF Found, Reached, RequestOK
<1>4. Answered(k)' <=> Answered(k)
  BY DEF Answered
<1>5. k.at = "queries" =>
         /\ k.got # None => k.got \subseteq RowsOf(k.v)'
         /\ k.total # None => k.total <= Cardinality(RowsOf(k.v)')
  BY <1>1, <1>2 DEF RequestOK
<1> QED  BY <1>3, <1>4, <1>5 DEF RequestOK

(* The step of one request, whatever else it changes.                        *)
LEMMA RequestMoves ==
    ASSUME RequestsOK, Growing, NEW c \in Calls, NEW k \in Request, RequestOK(k),
           calls' = [calls EXCEPT ![c] = k]
    PROVE  RequestsOK'
<1>1. calls' \in [Calls -> Request]
  BY DEF RequestsOK
<1>2. \A x \in Calls : RequestOK(calls'[x])
  BY DEF RequestsOK
<1>3. \A x \in Calls : calls'[x] \in Request
  BY <1>1
<1>4. \A x \in Calls : RequestOK(calls[x])'
  <2>1. TAKE x \in Calls
  <2>2. CASE x = c
    <3>1. RequestOK(k)'
      BY RequestKept
    <3>2. (calls[x])' = k
      BY <2>2 DEF RequestsOK
    <3> QED  BY <3>1, <3>2 DEF RequestOK, Found, Reached, Answered
  <2>3. CASE x # c
    <3>1. (calls[x])' = calls[x]
      BY <2>3 DEF RequestsOK
    <3>2. calls[x] \in Request /\ RequestOK(calls[x])
      BY DEF RequestsOK
    <3>3. PICK q \in Request : q = calls[x]
      BY <3>2
    <3>4. RequestOK(q)'
      BY <3>2, <3>3, RequestKept
    <3>5. (calls[x])' = q
      BY <3>1, <3>3
    <3> QED  BY <3>4, <3>5 DEF RequestOK, Found, Reached, Answered
  <2> QED  BY <2>2, <2>3
<1> QED  BY <1>1, <1>4 DEF RequestsOK

LEMMA RequestsKept ==
    ASSUME RequestsOK, Growing, calls' = calls
    PROVE  RequestsOK'
<1>1. \A x \in Calls : RequestOK(calls[x])'
  <2>1. TAKE x \in Calls
  <2>2. PICK q \in Request : q = calls[x] /\ RequestOK(q)
    BY DEF RequestsOK
  <2>3. RequestOK(q)'
    BY <2>2, RequestKept
  <2>4. (calls[x])' = q
    BY <2>2
  <2> QED  BY <2>3, <2>4 DEF RequestOK, Found, Reached, Answered
<1> QED  BY <1>1 DEF RequestsOK

LEMMA PagesKept ==
    ASSUME PagesOK, Growing, pages' = pages
    PROVE  PagesOK'
<1>1. ASSUME NEW v \in Vehicles, pages[v] # None
      PROVE  Within(pages[v].got, pages[v].total, v)'
  <2>1. pages[v] \in Page
    BY <1>1 DEF PagesOK
  <2>2. pages[v].total \in Nat
    BY <2>1 DEF Page
  <2>3. Within(pages[v].got, pages[v].total, v)
    BY <1>1 DEF PagesOK
  <2> QED  BY <2>2, <2>3, RowsGrow DEF Within
<1> QED  BY <1>1 DEF PagesOK

(* The latest time of a vehicle is reached by one of its rows.               *)
LEMMA LatestTimeReached ==
    ASSUME Typed, NEW v
    PROVE  /\ LatestTime(v) \in Nat
           /\ LatestTime(v) = 0 \/ \E r \in RowsOf(v) : r.t >= LatestTime(v)
<1>1. CASE RowsOf(v) = {}
  BY <1>1 DEF LatestTime
<1>2. CASE RowsOf(v) # {}
  <2> DEFINE times == [r \in RowsOf(v) |-> r.t]
  <2>1. RowsOf(v) \in SUBSET rows
    BY DEF RowsOf
  <2>2. IsFiniteSet(RowsOf(v))
    BY <2>1, FS_Subset DEF Typed
  <2>3. \A r \in RowsOf(v) : r.t \in Nat
    BY <2>1, CacheAssumption DEF Typed, Update
  <2>4. times \in [RowsOf(v) -> Nat]
    BY <2>3
  <2>5. PICK m \in RowsOf(v) : \A r \in RowsOf(v) : times[r] <= times[m]
    <3> HIDE DEF times
    <3> QED  BY <1>2, <2>2, <2>4, HighestExists
  <2>6. m.t \in {r.t : r \in RowsOf(v)} /\ \A r \in RowsOf(v) : r.t <= m.t
    BY <2>5
  <2>7. LatestTime(v) \in {r.t : r \in RowsOf(v)}
    BY <1>2, <2>6 DEF LatestTime
  <2> QED  BY <2>3, <2>7
<1> QED  BY <1>1, <1>2

LEMMA IdleOK == Idle \in Request /\ RequestOK(Idle)
<1>1. Idle \in Request
  BY DEF Idle, Request, At
<1>2. RequestOK(Idle)
  BY DEF Idle, RequestOK, Found, Reached, Answered
<1> QED  BY <1>1, <1>2

LEMMA InitOK == Init => CacheInv
<1> SUFFICES ASSUME Init PROVE CacheInv
  OBVIOUS
<1>1. Typed
  BY CacheAssumption, FS_EmptySet DEF Init, Typed, Place
<1>2. PagesOK
  BY DEF Init, PagesOK
<1>3. RequestsOK
  BY IdleOK DEF Init, RequestsOK
<1> QED  BY <1>1, <1>2, <1>3 DEF CacheInv

-----------------------------------------------------------------------------
(* How a request begins, goes on and ends.                                   *)
LEMMA BeginOK ==
    ASSUME Typed, RequestsOK, Growing, NEW c \in Calls, NEW v \in Vehicles,
           NEW u \in Update \cup {None}, u # None => u.v = v,
           NEW at \in {"fence", "prev", "read", "page"},
           at \in {"fence", "prev"} => u # None,
           NEW kind, Begin(c, kind, at, v, u)
    PROVE  RequestsOK'
<1> DEFINE k == [Idle EXCEPT !.at = at, !.v = v, !.u = u, !.floor = LatestTime(v)]
<1>1. PICK i \in Request : i = Idle
  BY IdleOK
<1>2. /\ k \in Request
      /\ k.at = at /\ k.v = v /\ k.u = u /\ k.got = None /\ k.total = None
      /\ k.src = "none" /\ k.floor = LatestTime(v)
  <2>1. LatestTime(v) \in Nat
    BY LatestTimeReached
  <2>2. at \in At /\ v \in Vehicles \cup {None}
    BY DEF At
  <2>3. k = [i EXCEPT !.at = at, !.v = v, !.u = u, !.floor = LatestTime(v)]
    BY <1>1
  <2>4. i.got = None /\ i.total = None /\ i.src = "none"
    BY <1>1 DEF Idle
  <2> QED  BY <2>1, <2>2, <2>3, <2>4 DEF Request
<1>3. RequestOK(k)
  <2>1. Found(k) /\ Reached(k)
    <3> HIDE DEF k
    <3> QED  BY <1>2, LatestTimeReached DEF Found, Reached
  <2> HIDE DEF k
  <2> QED  BY <1>2, <2>1 DEF RequestOK
<1>4. calls' = [calls EXCEPT ![c] = k]
  BY DEF Begin
<1> HIDE DEF k
<1> QED  BY <1>2, <1>3, <1>4, RequestMoves

(* A request goes on to another place and keeps what it carries.             *)
LEMMA GoOK ==
    ASSUME RequestsOK, Growing, NEW c \in Calls, NEW at \in At, Go(c, at),
           calls[c].at # "idle",
           at \in {"fence", "prev", "remember"} => calls[c].u # None,
           at = "page" => calls[c].got = None /\ calls[c].total = None,
           at = "queries" => calls[c].got = None /\ calls[c].total = None,
           at # "done" => calls[c].src = "none",
           at = "fillCache" => calls[c].at = "fillMemory",
           at = "fillMemory" => calls[c].at = "fillCache"
    PROVE  RequestsOK'
<1> DEFINE k == [calls[c] EXCEPT !.at = at]
<1>1. PICK q \in Request : q = calls[c] /\ RequestOK(q)
  BY DEF RequestsOK
<1>2. k = [q EXCEPT !.at = at]
  BY <1>1
<1>3. /\ k \in Request /\ k.at = at
      /\ k.v = q.v /\ k.u = q.u /\ k.got = q.got /\ k.total = q.total
      /\ k.src = q.src /\ k.floor = q.floor
  BY <1>2 DEF Request
<1>4. calls' = [calls EXCEPT ![c] = k]
  BY DEF Go, RequestsOK
<1> HIDE DEF k
<1>5. Found(k) /\ Reached(k)
  BY <1>1, <1>3 DEF RequestOK, Found, Reached
<1>6. Answered(k) <=> Answered(q)
  BY <1>3 DEF Answered
<1>7. RequestOK(k)
  BY <1>1, <1>3, <1>5, <1>6 DEF RequestOK
<1> QED  BY <1>3, <1>4, <1>7, RequestMoves

LEMMA IdleAgain ==
    ASSUME RequestsOK, Growing, NEW c \in Calls, calls' = [calls EXCEPT ![c] = Idle]
    PROVE  RequestsOK'
BY IdleOK, RequestMoves

LEMMA QueueOK ==
    ASSUME Typed, RequestsOK, Growing, NEW c \in Calls, Queue(c),
           calls[c].at \notin {"idle", "done"}, calls[c].u # None
    PROVE  RequestsOK' /\ waiting' \subseteq Update /\ IsFiniteSet(waiting')
<1>1. calls[c] \in Request /\ RequestOK(calls[c])
  BY DEF RequestsOK
<1>2. calls[c].u \in Update
  BY <1>1 DEF Request
<1>3. RequestsOK'
  <2>1. Go(c, "remember") /\ "remember" \in At /\ calls[c].src = "none"
    BY <1>1 DEF Queue, RequestOK, At
  <2> QED  BY <2>1, GoOK
<1>4. IsFiniteSet(waiting')
  BY FS_AddElement DEF Queue, Typed
<1> QED  BY <1>2, <1>3, <1>4 DEF Queue, Typed

LEMMA ReturnOK ==
    ASSUME Typed, RequestsOK, Growing, NEW c \in Calls,
           calls[c].at \in {"read", "query", "fillCache", "fillMemory"},
           NEW x \in Update \cup {None}, NEW src \in {"cache", "table", "failure"},
           src = "table" =>
               IF x = None THEN calls[c].floor = 0 ELSE x.t >= calls[c].floor,
           Return(c, x, src)
    PROVE  RequestsOK' /\ waiting' \subseteq Update /\ IsFiniteSet(waiting')
<1>1. CASE IsUpdate(c)
  BY <1>1, QueueOK DEF Return, IsUpdate
<1>2. CASE ~IsUpdate(c)
  <2> DEFINE k == [calls[c] EXCEPT !.at = "done", !.got = x, !.src = src]
  <2>1. PICK q \in Request : q = calls[c] /\ RequestOK(q)
    BY DEF RequestsOK
  <2>2. k = [q EXCEPT !.at = "done", !.got = x, !.src = src]
    BY <2>1
  <2>3. /\ k \in Request /\ k.at = "done"
        /\ k.v = q.v /\ k.u = q.u /\ k.got = x /\ k.total = q.total
        /\ k.src = src /\ k.floor = q.floor
    BY <2>2 DEF Request, At
  <2>4. calls' = [calls EXCEPT ![c] = k] /\ waiting' = waiting
    BY <1>2 DEF Return, RequestsOK
  <2> HIDE DEF k
  <2>5. Found(k) /\ Reached(k)
    BY <2>1, <2>3 DEF RequestOK, Found, Reached
  <2>6. k.src = "table" => Answered(k)
    BY <2>1, <2>3 DEF Answered
  <2>7. RequestOK(k)
    BY <2>1, <2>3, <2>5, <2>6 DEF RequestOK
  <2>8. RequestsOK'
    BY <2>3, <2>4, <2>7, RequestMoves
  <2> QED  BY <2>4, <2>8 DEF Typed
<1> QED  BY <1>1, <1>2

-----------------------------------------------------------------------------
(* Steps that leave rows and pages alone.                                    *)
LEMMA PlaceSet ==
    ASSUME NEW m, Place(m), NEW v \in Vehicles, NEW u \in Located(v) \cup {None}
    PROVE  Place([m EXCEPT ![v] = u])
BY DEF Place, Located

LEMMA RowsSame ==
    ASSUME CacheInv, rows' = rows
    PROVE  Growing
BY DEF CacheInv, Typed, Growing

LEMMA Assemble ==
    ASSUME CacheInv, UNCHANGED <<pages, rows, crashes>>, RequestsOK',
           Place(memory'), Place(cache'), writes' \subseteq Update,
           waiting' \subseteq Update, IsFiniteSet(waiting'), arrived' \in 0..MaxUpdates
    PROVE  CacheInv'
<1>1. Typed'
  BY DEF CacheInv, Typed
<1>2. PagesOK'
  BY RowsSame, PagesKept DEF CacheInv
<1> QED  BY <1>1, <1>2 DEF CacheInv

LEMMA UpdateLocationOK ==
    ASSUME CacheInv, NEW c \in Calls, NEW v \in Vehicles, NEW t \in Times,
           UpdateLocation(c, v, t)
    PROVE  CacheInv'
<1> DEFINE u == [n |-> arrived + 1, v |-> v, t |-> t]
<1>1. u \in Update /\ u.v = v /\ arrived' \in 0..MaxUpdates
  BY CacheAssumption DEF UpdateLocation, CacheInv, Typed, Update
<1>2. u # None
  BY <1>1, CacheAssumption
<1>3. Growing /\ Typed /\ RequestsOK
  BY RowsSame DEF UpdateLocation, CacheInv
<1>4. PICK at \in {"fence", "prev"} : Begin(c, "update", at, v, u)
  BY DEF UpdateLocation
<1>5. RequestsOK'
  <2> HIDE DEF u
  <2> QED  BY <1>1, <1>2, <1>3, <1>4, BeginOK
<1> QED  BY <1>1, <1>5, Assemble DEF UpdateLocation, CacheInv, Typed

LEMMA GetOK ==
    ASSUME CacheInv, NEW c \in Calls, NEW v \in Vehicles,
           GetLatestLocation(c, v) \/ GetLocationHistory(c, v)
    PROVE  CacheInv'
<1>1. Growing /\ Typed /\ RequestsOK
  BY RowsSame DEF GetLatestLocation, GetLocationHistory, CacheInv
<1>2. PICK at \in {"read", "page"}, kind \in {"latest", "history"} :
          Begin(c, kind, at, v, None)
  BY DEF GetLatestLocation, GetLocationHistory
<1>3. RequestsOK'
  BY <1>1, <1>2, BeginOK
<1> QED  BY <1>3, Assemble DEF GetLatestLocation, GetLocationHistory, CacheInv, Typed

LEMMA CarriedOK ==
    ASSUME CacheInv, NEW c \in Calls, calls[c].at # "idle"
    PROVE  /\ calls[c] \in Request /\ RequestOK(calls[c]) /\ calls[c].v \in Vehicles
           /\ calls[c].u # None => calls[c].u \in Located(calls[c].v)
           /\ calls[c].at # "done" => calls[c].src = "none"
<1>1. calls[c] \in Request /\ RequestOK(calls[c])
  BY DEF CacheInv, RequestsOK
<1>2. calls[c].u # None => calls[c].u \in Update
  BY <1>1 DEF Request
<1> QED  BY <1>1, <1>2 DEF RequestOK, Located

LEMMA FenceOK ==
    ASSUME CacheInv, NEW c \in Calls, Fence(c)
    PROVE  CacheInv'
<1>1. Growing /\ RequestsOK
  BY RowsSame DEF Fence, CacheInv
<1>2. calls[c].u # None /\ calls[c].src = "none"
  BY CarriedOK DEF Fence, RequestOK
<1>3. RequestsOK'
  BY <1>1, <1>2, GoOK DEF Fence, At
<1> QED  BY <1>3, Assemble DEF Fence, CacheInv, Typed

LEMMA PreviousOK ==
    ASSUME CacheInv, NEW c \in Calls, Previous(c)
    PROVE  CacheInv'
<1>1. Growing /\ RequestsOK /\ Typed
  BY RowsSame DEF Previous, CacheInv
<1>2. calls[c].u # None /\ calls[c].src = "none" /\ calls[c].at = "prev"
  BY CarriedOK DEF Previous, RequestOK
<1>3. RequestsOK' /\ waiting' \subseteq Update /\ IsFiniteSet(waiting')
  <2>1. CASE Queue(c)
    BY <1>1, <1>2, <2>1, QueueOK
  <2>2. CASE Go(c, "read") /\ UNCHANGED waiting
    <3>1. "read" \in At
      BY DEF At
    <3>2. RequestsOK'
      BY <1>1, <1>2, <2>2, <3>1, GoOK
    <3> QED  BY <1>1, <2>2, <3>2 DEF Typed
  <2> QED  BY <2>1, <2>2 DEF Previous
<1> QED  BY <1>3, Assemble DEF Previous, CacheInv, Typed

LEMMA ReadOK ==
    ASSUME CacheInv, NEW c \in Calls, Read(c)
    PROVE  CacheInv'
<1>1. Growing /\ RequestsOK /\ Typed
  BY RowsSame DEF Read, CacheInv
<1>2. calls[c].src = "none" /\ calls[c].at = "read" /\ calls[c].v \in Vehicles
  BY CarriedOK DEF Read
<1>3. cache[calls[c].v] \in Update \cup {None}
  BY <1>1, <1>2 DEF Typed, Place
<1>4. RequestsOK' /\ waiting' \subseteq Update /\ IsFiniteSet(waiting')
  <2>1. CASE Return(c, cache[calls[c].v], "cache") \/ Return(c, None, "failure")
    BY <1>1, <1>2, <1>3, <2>1, ReturnOK
  <2>2. CASE Go(c, "query") /\ UNCHANGED waiting
    <3>1. "query" \in At
      BY DEF At
    <3>2. RequestsOK'
      BY <1>1, <1>2, <2>2, <3>1, GoOK
    <3> QED  BY <1>1, <2>2, <3>2 DEF Typed
  <2> QED  BY <2>1, <2>2 DEF Read
<1> QED  BY <1>4, Assemble DEF Read, CacheInv, Typed

(* The row that is found is the newest: no older than the floor.             *)
LEMMA QueryOK ==
    ASSUME CacheInv, NEW c \in Calls, Query(c)
    PROVE  CacheInv'
<1>1. Growing /\ RequestsOK /\ Typed
  BY RowsSame DEF Query, CacheInv
<1>2. /\ calls[c].src = "none" /\ calls[c].at = "query" /\ calls[c].v \in Vehicles
      /\ calls[c] \in Request /\ RequestOK(calls[c])
  BY CarriedOK DEF Query
<1>3. RequestsOK' /\ waiting' \subseteq Update /\ IsFiniteSet(waiting')
  <2>1. CASE RowsOf(calls[c].v) = {} /\ Return(c, None, "table")
    <3>1. calls[c].floor = 0
      BY <1>2, <2>1 DEF RequestOK, Reached
    <3> QED  BY <1>1, <1>2, <2>1, <3>1, ReturnOK
  <2>2. CASE Return(c, None, "failure")
    BY <1>1, <1>2, <2>2, ReturnOK
  <2>3. CASE /\ \E r \in Newest(calls[c].v) :
                   calls' = [calls EXCEPT ![c].at = "fillCache", ![c].got = r]
             /\ UNCHANGED waiting
    <3>1. PICK r \in Newest(calls[c].v) :
              calls' = [calls EXCEPT ![c].at = "fillCache", ![c].got = r]
      BY <2>3
    <3>2. r \in RowsOf(calls[c].v) /\ \A x \in RowsOf(calls[c].v) : r.t >= x.t
      BY DEF Newest
    <3>3. r \in Update /\ \A x \in RowsOf(calls[c].v) : x.t \in Nat
      BY <1>1, <3>2, CacheAssumption DEF RowsOf, Typed, Update
    <3>4. PICK q \in Request : q = calls[c] /\ RequestOK(q)
      BY <1>2
    <3>5. r.t >= q.floor
      <4>1. r.t \in Nat /\ q.floor \in Nat
        BY <3>2, <3>3, <3>4 DEF Request
      <4> QED  BY <3>2, <3>3, <3>4, <4>1 DEF RequestOK, Reached
    <3> DEFINE k == [q EXCEPT !.at = "fillCache", !.got = r]
    <3>6. /\ k \in Request /\ k.at = "fillCache"
          /\ k.v = q.v /\ k.u = q.u /\ k.got = r /\ k.total = q.total
          /\ k.src = q.src /\ k.floor = q.floor
      BY <3>3 DEF Request, At
    <3>7. calls' = [calls EXCEPT ![c] = k]
      BY <1>1, <3>1, <3>4 DEF RequestsOK
    <3> HIDE DEF k
    <3>8. Found(k) /\ Reached(k)
      BY <3>2, <3>4, <3>5, <3>6 DEF Found, Reached, RequestOK
    <3>9. RequestOK(k)
      BY <1>2, <3>4, <3>6, <3>8 DEF RequestOK
    <3> QED  BY <1>1, <2>3, <3>6, <3>7, <3>9, RequestMoves DEF Typed
  <2> QED  BY <2>1, <2>2, <2>3 DEF Query
<1> QED  BY <1>3, Assemble DEF Query, CacheInv, Typed

LEMMA FoundOK ==
    ASSUME CacheInv, NEW c \in Calls, calls[c].at \in {"fillCache", "fillMemory"}
    PROVE  /\ calls[c].got \in Located(calls[c].v) /\ calls[c].got # None
           /\ calls[c].got \in rows /\ calls[c].got.t >= calls[c].floor
<1>1. RequestOK(calls[c])
  BY CarriedOK
<1>2. calls[c].got \in RowsOf(calls[c].v) /\ calls[c].got.t >= calls[c].floor
  BY <1>1 DEF RequestOK, Found
<1>3. RowsOf(calls[c].v) \subseteq Update
  BY DEF RowsOf, CacheInv, Typed
<1> QED  BY <1>2, <1>3, CacheAssumption DEF RowsOf, Located

LEMMA FillCacheOK ==
    ASSUME CacheInv, NEW c \in Calls, FillCache(c)
    PROVE  CacheInv'
<1>1. Growing /\ RequestsOK /\ Typed
  BY RowsSame DEF FillCache, CacheInv
<1>2. calls[c].src = "none" /\ calls[c].at = "fillCache" /\ calls[c].v \in Vehicles
  BY CarriedOK DEF FillCache
<1>3. /\ RequestsOK' /\ waiting' \subseteq Update /\ IsFiniteSet(waiting')
      /\ Place(cache')
  <2>1. CASE Return(c, None, "failure") /\ UNCHANGED cache
    <3>1. Place(cache')
      BY <1>1, <2>1 DEF Typed
    <3> QED  BY <1>1, <1>2, <2>1, <3>1, ReturnOK
  <2>2. CASE /\ cache' = [cache EXCEPT ![calls[c].v] = calls[c].got]
             /\ Go(c, "fillMemory")
             /\ UNCHANGED waiting
    <3>1. "fillMemory" \in At
      BY DEF At
    <3>2. RequestsOK'
      BY <1>1, <1>2, <2>2, <3>1, GoOK
    <3>3. Place(cache')
      BY <1>1, <1>2, <2>2, FoundOK, PlaceSet DEF Typed
    <3> QED  BY <1>1, <2>2, <3>2, <3>3 DEF Typed
  <2> QED  BY <2>1, <2>2 DEF FillCache
<1> QED  BY <1>3, Assemble DEF FillCache, CacheInv, Typed

LEMMA FillMemoryOK ==
    ASSUME CacheInv, NEW c \in Calls, FillMemory(c)
    PROVE  CacheInv'
<1>1. Growing /\ RequestsOK /\ Typed
  BY RowsSame DEF FillMemory, CacheInv
<1>2. calls[c].at = "fillMemory" /\ calls[c].v \in Vehicles
  BY CarriedOK DEF FillMemory
<1>3. /\ calls[c].got \in Update /\ calls[c].got # None
      /\ calls[c].got.t >= calls[c].floor
  BY <1>2, FoundOK DEF Located
<1>4. RequestsOK' /\ waiting' \subseteq Update /\ IsFiniteSet(waiting')
  BY <1>1, <1>2, <1>3, ReturnOK DEF FillMemory
<1>5. Place(memory')
  BY <1>1, <1>2, FoundOK, PlaceSet DEF FillMemory, Typed
<1> QED  BY <1>4, <1>5, Assemble DEF FillMemory, CacheInv, Typed

LEMMA RememberOK ==
    ASSUME CacheInv, NEW c \in Calls, Remember(c)
    PROVE  CacheInv'
<1>1. Growing /\ RequestsOK /\ Typed
  BY RowsSame DEF Remember, CacheInv
<1>2. calls[c].v \in Vehicles /\ calls[c].u \in Located(calls[c].v)
  BY CarriedOK DEF Remember, RequestOK
<1>3. Place(memory')
  BY <1>1, <1>2, PlaceSet DEF Remember, Typed
<1>4. writes' \subseteq Update
  BY <1>1, <1>2 DEF Remember, Typed, Located
<1>5. RequestsOK'
  BY <1>1, IdleAgain DEF Remember
<1> QED  BY <1>3, <1>4, <1>5, Assemble DEF Remember, CacheInv, Typed

LEMMA CacheWriteOK ==
    ASSUME CacheInv, NEW u, CacheWrite(u)
    PROVE  CacheInv'
<1>1. Growing /\ RequestsOK /\ Typed
  BY RowsSame DEF CacheWrite, CacheInv
<1>2. u.v \in Vehicles /\ u \in Located(u.v)
  BY <1>1 DEF CacheWrite, Typed, Located, Update
<1>3. Place(cache')
  BY <1>1, <1>2, PlaceSet DEF CacheWrite, Typed
<1>4. RequestsOK'
  BY <1>1, RequestsKept DEF CacheWrite
<1> QED  BY <1>3, <1>4, Assemble DEF CacheWrite, CacheInv, Typed

(* A page that is found becomes the answer; otherwise the queries begin with *)
(* nothing.                                                                  *)
LEMMA ReadPageOK ==
    ASSUME CacheInv, NEW c \in Calls, ReadPage(c)
    PROVE  CacheInv'
<1>1. Growing /\ RequestsOK /\ Typed /\ PagesOK
  BY RowsSame DEF ReadPage, CacheInv
<1>2. /\ calls[c].src = "none" /\ calls[c].at = "page" /\ calls[c].v \in Vehicles
      /\ calls[c] \in Request /\ RequestOK(calls[c])
  BY CarriedOK DEF ReadPage
<1>3. calls[c].got = None /\ calls[c].total = None
  BY <1>2 DEF RequestOK
<1>4. RequestsOK'
  <2>1. CASE pages[calls[c].v] = None
    <3>1. Go(c, "queries") /\ "queries" \in At
      BY <1>1, <2>1 DEF ReadPage, Go, RequestsOK, At
    <3> QED  BY <1>1, <1>2, <1>3, <3>1, GoOK
  <2>2. CASE pages[calls[c].v] # None
    <3>1. PICK q \in Request : q = calls[c] /\ RequestOK(q)
      BY <1>2
    <3>2. PICK p \in Page : p = pages[calls[c].v]
      BY <1>1, <1>2, <2>2 DEF PagesOK
    <3> DEFINE k == [q EXCEPT !.at = "done", !.got = p.got, !.total = p.total]
    <3>3. /\ k \in Request /\ k.at = "done"
          /\ k.v = q.v /\ k.u = q.u /\ k.src = "none" /\ k.floor = q.floor
      BY <1>2, <3>1 DEF Request, At, Page
    <3>4. calls' = [calls EXCEPT ![c] = k]
      BY <1>1, <2>2, <3>1, <3>2 DEF ReadPage, RequestsOK
    <3> HIDE DEF k
    <3>5. Found(k) /\ Reached(k)
      BY <3>1, <3>3 DEF Found, Reached, RequestOK
    <3>6. RequestOK(k)
      BY <1>2, <3>1, <3>3, <3>5 DEF RequestOK
    <3> QED  BY <1>1, <3>3, <3>4, <3>6, RequestMoves
  <2> QED  BY <2>1, <2>2
<1> QED  BY <1>4, Assemble DEF ReadPage, CacheInv, Typed

(* Each of the two queries is answered from the rows as they are.            *)
LEMMA QueriesOK ==
    ASSUME CacheInv, NEW c \in Calls, QueryRows(c) \/ QueryCount(c)
    PROVE  CacheInv'
<1>1. Growing /\ RequestsOK /\ Typed
  BY RowsSame DEF QueryRows, QueryCount, CacheInv
<1>2. PICK q \in Request : q = calls[c] /\ RequestOK(q) /\ q.at = "queries"
  BY CarriedOK DEF QueryRows, QueryCount
<1>3. RowsOf(q.v) \subseteq Update
  BY <1>1 DEF RowsOf, Typed
<1>4. Counted(q.v) \in Nat /\ Counted(q.v) = Cardinality(RowsOf(q.v))
  BY <1>1, RowsGrow DEF Counted
<1>5. CASE QueryRows(c)
  <2> DEFINE k == [q EXCEPT !.got = RowsOf(q.v)]
  <2>1. /\ k \in Request /\ k.at = "queries" /\ k.v = q.v /\ k.u = q.u
        /\ k.got = RowsOf(q.v) /\ k.total = q.total /\ k.src = q.src
        /\ k.floor = q.floor
    BY <1>2, <1>3 DEF Request
  <2>2. calls' = [calls EXCEPT ![c] = k]
    BY <1>1, <1>2, <1>5 DEF QueryRows, RequestsOK
  <2> HIDE DEF k
  <2>3. Found(k) /\ Reached(k)
    BY <1>2, <2>1 DEF Found, Reached, RequestOK
  <2>4. RequestOK(k)
    BY <1>2, <2>1, <2>3 DEF RequestOK
  <2>5. RequestsOK'
    BY <1>1, <2>1, <2>2, <2>4, RequestMoves
  <2> QED  BY <1>5, <2>5, Assemble DEF QueryRows, CacheInv, Typed
<1>6. CASE QueryCount(c)
  <2> DEFINE k == [q EXCEPT !.total = Counted(q.v)]
  <2>1. /\ k \in Request /\ k.at = "queries" /\ k.v = q.v /\ k.u = q.u
        /\ k.got = q.got /\ k.total = Counted(q.v) /\ k.src = q.src
        /\ k.floor = q.floor
    BY <1>2, <1>4 DEF Request
  <2>2. calls' = [calls EXCEPT ![c] = k]
    BY <1>1, <1>2, <1>6 DEF QueryCount, RequestsOK
  <2> HIDE DEF k
  <2>3. Found(k) /\ Reached(k)
    BY <1>2, <2>1 DEF Found, Reached, RequestOK
  <2>4. k.total <= Cardinality(RowsOf(k.v))
    BY <1>4, <2>1
  <2>5. RequestOK(k)
    BY <1>2, <2>1, <2>3, <2>4 DEF RequestOK
  <2>6. RequestsOK'
    BY <1>1, <2>1, <2>2, <2>5, RequestMoves
  <2> QED  BY <1>6, <2>6, Assemble DEF QueryCount, CacheInv, Typed
<1> QED  BY <1>5, <1>6

LEMMA FinishOK ==
    ASSUME CacheInv, NEW c \in Calls, Finish(c)
    PROVE  CacheInv'
<1>1. Growing /\ RequestsOK
  BY RowsSame DEF Finish, CacheInv
<1>2. RequestsOK'
  BY <1>1, IdleAgain DEF Finish
<1> QED  BY <1>2, Assemble DEF Finish, CacheInv, Typed

LEMMA ExpireOK ==
    ASSUME CacheInv, NEW v \in Vehicles, Expire(v)
    PROVE  CacheInv'
<1>1. Growing /\ RequestsOK /\ Typed
  BY RowsSame DEF Expire, CacheInv
<1>2. Place(cache')
  BY <1>1, PlaceSet DEF Expire, Typed
<1>3. RequestsOK'
  BY <1>1, RequestsKept DEF Expire
<1> QED  BY <1>2, <1>3, Assemble DEF Expire, CacheInv, Typed

-----------------------------------------------------------------------------
(* Steps that change the pages or the rows.                                  *)
LEMMA FillPageOK ==
    ASSUME CacheInv, NEW c \in Calls, FillPage(c)
    PROVE  CacheInv'
<1>1. Growing /\ RequestsOK /\ Typed /\ PagesOK
  BY RowsSame DEF FillPage, CacheInv
<1>2. PICK q \in Request : /\ q = calls[c] /\ RequestOK(q) /\ q.at = "queries"
                           /\ q.v \in Vehicles /\ q.src = "none"
  BY CarriedOK DEF FillPage
<1>3. q.got # None /\ q.total # None
  BY <1>2 DEF FillPage
<1>4. RequestsOK'
  <2>1. Go(c, "done") /\ "done" \in At
    BY DEF FillPage, At
  <2> QED  BY <1>1, <1>2, <2>1, GoOK
<1>5. Within(q.got, q.total, q.v)
  BY <1>2, <1>3 DEF RequestOK, Within
<1>6. [got |-> q.got, total |-> q.total] \in Page
  <2>1. RowsOf(q.v) \subseteq Update
    BY <1>1 DEF RowsOf, Typed
  <2>2. q.total \in Nat
    BY <1>3 DEF Request
  <2> QED  BY <1>5, <2>1, <2>2 DEF Within, Page
<1>7. pages' = [pages EXCEPT ![q.v] = [got |-> q.got, total |-> q.total]]
  BY <1>2 DEF FillPage
<1>8. \A v : RowsOf(v)' = RowsOf(v)
  BY DEF FillPage, RowsOf
<1>9. PagesOK'
  BY <1>1, <1>2, <1>5, <1>6, <1>7, <1>8 DEF PagesOK, Within
<1>10. Typed'
  BY <1>1 DEF FillPage, Typed
<1> QED  BY <1>4, <1>9, <1>10 DEF CacheInv

LEMMA ExpirePageOK ==
    ASSUME CacheInv, NEW v \in Vehicles, ExpirePage(v)
    PROVE  CacheInv'
<1>1. Growing /\ RequestsOK /\ Typed /\ PagesOK
  BY RowsSame DEF ExpirePage, CacheInv
<1>2. \A x : RowsOf(x)' = RowsOf(x)
  BY DEF ExpirePage, RowsOf
<1>3. PagesOK'
  BY <1>1, <1>2 DEF ExpirePage, PagesOK, Within
<1>4. RequestsOK'
  BY <1>1, RequestsKept DEF ExpirePage
<1>5. Typed'
  BY <1>1 DEF ExpirePage, Typed
<1> QED  BY <1>3, <1>4, <1>5 DEF CacheInv

(* What settles some of the updates waiting only adds rows of them.          *)
LEMMA Settles ==
    ASSUME Batch
    PROVE  /\ rows \subseteq rows' /\ rows' \subseteq rows \cup waiting
           /\ waiting' \subseteq waiting
<1>1. CASE Locations!Store
  <2>1. PICK taken \in SUBSET waiting : \E kept \in SUBSET taken :
            rows' = rows \cup kept /\ waiting' = waiting \ taken
    BY <1>1 DEF Locations!Store
  <2> QED  BY <2>1
<1>2. CASE Locations!Drop
  BY <1>2 DEF Locations!Drop
<1> QED  BY <1>1, <1>2 DEF Batch

LEMMA BatchOK ==
    ASSUME CacheInv, Batch
    PROVE  CacheInv'
<1>1. RequestsOK /\ Typed /\ PagesOK
  BY DEF CacheInv
<1>2. UNCHANGED <<memory, cache, pages, writes, calls, arrived, crashes, roles>>
  BY DEF Batch
<1>3. IsFiniteSet(waiting') /\ IsFiniteSet(rows')
  <2>1. IsFiniteSet(rows \cup waiting)
    BY <1>1, FS_Union DEF Typed
  <2>2. waiting' \in SUBSET (rows \cup waiting) /\ rows' \in SUBSET (rows \cup waiting)
    BY Settles
  <2> QED  BY <2>1, <2>2, FS_Subset
<1>4. Growing
  BY <1>3, Settles DEF Growing
<1>5. RequestsOK' /\ PagesOK'
  BY <1>1, <1>2, <1>4, RequestsKept, PagesKept
<1>6. Typed'
  BY <1>1, <1>2, <1>3, Settles DEF Typed
<1> QED  BY <1>5, <1>6 DEF CacheInv

LEMMA CrashOK ==
    ASSUME CacheInv, Crash
    PROVE  CacheInv'
<1>1. Growing /\ RequestsOK /\ Typed /\ PagesOK
  BY RowsSame DEF Crash, CacheInv
<1>2. Place([v \in Vehicles |-> None])
  BY DEF Place
<1>3. Place(memory') /\ Place(cache')
  BY <1>1, <1>2 DEF Crash, Typed
<1>4. crashes' \in 0..MaxCrashes
  BY <1>1, CacheAssumption DEF Crash, Typed
<1>5. Typed'
  <2>1. IsFiniteSet(waiting') /\ IsFiniteSet(rows')
    BY <1>1, FS_EmptySet DEF Crash, Typed
  <2>2. {writes', waiting', rows'} \subseteq SUBSET Update
    BY <1>1 DEF Crash, Typed
  <2>3. arrived' \in 0..MaxUpdates
    BY <1>1 DEF Crash, Typed
  <2> QED  BY <1>3, <1>4, <2>1, <2>2, <2>3 DEF Typed
<1>6. PagesOK'
  <2>1. CASE pages' = pages
    BY <1>1, <2>1, PagesKept
  <2>2. CASE pages' = [v \in Vehicles |-> None]
    BY <2>2 DEF PagesOK
  <2> QED  BY <2>1, <2>2 DEF Crash
<1>7. RequestsOK'
  <2>1. calls' = [c \in Calls |-> Idle]
    BY DEF Crash
  <2>2. PICK i \in Request : i = Idle /\ RequestOK(i)
    BY IdleOK
  <2>3. RequestOK(i)'
    BY <1>1, <2>2, RequestKept
  <2>4. \A c \in Calls : (calls[c])' = i
    BY <2>1, <2>2
  <2>5. \A c \in Calls : RequestOK(calls[c])'
    BY <2>3, <2>4 DEF RequestOK, Found, Reached, Answered
  <2>6. calls' \in [Calls -> Request]
    BY <2>1, <2>2
  <2> QED  BY <2>5, <2>6 DEF RequestsOK
<1> QED  BY <1>5, <1>6, <1>7 DEF CacheInv

-----------------------------------------------------------------------------
LEMMA StepOK ==
    ASSUME CacheInv, [Next]_vars
    PROVE  CacheInv'
<1>1. ASSUME NEW c \in Calls, NEW v \in Vehicles, NEW t \in Times, UpdateLocation(c, v, t)
      PROVE  CacheInv'
  BY <1>1, UpdateLocationOK
<1>2. ASSUME NEW c \in Calls, NEW v \in Vehicles,
             GetLatestLocation(c, v) \/ GetLocationHistory(c, v)
      PROVE  CacheInv'
  BY <1>2, GetOK
<1>3. ASSUME NEW c \in Calls, Step(c)
      PROVE  CacheInv'
  BY <1>3, FenceOK, PreviousOK, ReadOK, QueryOK, FillCacheOK, FillMemoryOK,
     RememberOK, ReadPageOK, QueriesOK, FillPageOK, FinishOK DEF Step
<1>4. ASSUME NEW u \in writes, CacheWrite(u)
      PROVE  CacheInv'
  BY <1>4, CacheWriteOK
<1>5. ASSUME NEW v \in Vehicles, Expire(v) \/ ExpirePage(v)
      PROVE  CacheInv'
  BY <1>5, ExpireOK, ExpirePageOK
<1>6. CASE UNCHANGED vars
  <2>1. Growing /\ RequestsOK /\ Typed
    BY <1>6, RowsSame DEF vars, CacheInv
  <2>2. RequestsOK'
    BY <1>6, <2>1, RequestsKept DEF vars
  <2> QED  BY <1>6, <2>2, Assemble DEF vars, CacheInv, Typed
<1> QED
  BY <1>1, <1>2, <1>3, <1>4, <1>5, <1>6, BatchOK, CrashOK DEF Next

(* The inductive invariant: what requests and pages carry agrees with rows   *)
(* of the table, and what lies in map and cache is an update of its vehicle. *)
THEOREM AlwaysAgrees == Spec => []CacheInv
<1>1. CacheInv /\ [Next]_vars => CacheInv'
  BY StepOK
<1> QED  BY InitOK, <1>1, PTL DEF Spec

(* Every variable of the tracking cache has its type.                        *)
THEOREM TypeCorrect == Spec => []TypeOK
<1>1. CacheInv => TypeOK
  BY DEF CacheInv, Typed, Place, RequestsOK, Request, At, TypeOK
<1> QED  BY <1>1, AlwaysAgrees, PTL

(* A query answered by the table is no older than the table was when the     *)
(* query came, however many updates, refills and batches overtake it.        *)
THEOREM TableAnswersRecent == Spec => []TableAnswerIsRecent
<1>1. CacheInv => TableAnswerIsRecent
  BY DEF CacheInv, RequestsOK, RequestOK, Answered, TableAnswerIsRecent
<1> QED  BY <1>1, AlwaysAgrees, PTL

(* A cached page of a history holds no row, and counts no row, that is not   *)
(* in the table, although its rows and its total are read apart.             *)
THEOREM PagesWithinTable == Spec => []PageWithinTable
<1>1. CacheInv => PageWithinTable
  BY DEF CacheInv, PagesOK, Within, PageWithinTable
<1> QED  BY <1>1, AlwaysAgrees, PTL

(* Only a row that was found, or the update of the request itself, is put    *)
(* in the map.                                                               *)
LEMMA MemorySources ==
    ASSUME CacheInv, [Next]_vars, NEW v \in Vehicles, memory'[v] # None
    PROVE  \/ memory'[v] = memory[v] \/ memory'[v] \in rows
           \/ \E c \in Calls : calls[c].at = "remember" /\ calls[c].u = memory'[v]
<1>1. memory \in [Vehicles -> Update \cup {None}]
  BY DEF CacheInv, Typed, Place
<1>2. CASE memory' = memory
  BY <1>2
<1>3. ASSUME NEW c \in Calls, FillMemory(c)
      PROVE  memory'[v] = memory[v] \/ memory'[v] \in rows
  <2>1. calls[c].got \in rows
    BY <1>3, FoundOK DEF FillMemory
  <2>2. memory'[v] = memory[v] \/ memory'[v] = calls[c].got
    BY <1>1, <1>3 DEF FillMemory
  <2> QED  BY <2>1, <2>2
<1>4. ASSUME NEW c \in Calls, Remember(c)
      PROVE  /\ calls[c].at = "remember"
             /\ memory'[v] = memory[v] \/ calls[c].u = memory'[v]
  BY <1>1, <1>4 DEF Remember
<1>5. CASE Crash
  BY <1>5 DEF Crash
<1>6. \/ memory' = memory \/ Crash
      \/ \E c \in Calls : FillMemory(c) \/ Remember(c)
  BY DEF Next, Step, vars, UpdateLocation, GetLatestLocation, GetLocationHistory, Fence,
         Previous, Read, Query, FillCache, ReadPage, QueryRows, QueryCount, FillPage,
         Finish, CacheWrite, Batch, Expire, ExpirePage
<1> QED  BY <1>2, <1>3, <1>4, <1>5, <1>6

(* The map never goes back to a location that was accepted and then lost.    *)
THEOREM MapGoesBackToStored == Spec => GoesBackToStored
<1> DEFINE Back ==
       \A v \in Vehicles :
          memory[v] # None /\ memory'[v] # None /\ memory'[v].n < memory[v].n =>
              \/ memory'[v] \in rows
              \/ \E c \in Calls : calls[c].at = "remember" /\ calls[c].u = memory'[v]
<1>1. ASSUME CacheInv, [Next]_vars  PROVE Back
  <2>1. SUFFICES ASSUME NEW v \in Vehicles, memory[v] # None, memory'[v] # None,
                        memory'[v].n < memory[v].n
                 PROVE  \/ memory'[v] \in rows
                        \/ \E c \in Calls :
                              calls[c].at = "remember" /\ calls[c].u = memory'[v]
    OBVIOUS
  <2>2. memory[v].n \in Nat
    BY <1>1, <2>1, CacheAssumption DEF CacheInv, Typed, Place, Update
  <2>3. memory'[v] # memory[v]
    BY <2>1, <2>2
  <2> QED  BY <1>1, <2>1, <2>3, MemorySources
<1>2. CacheInv /\ [Next]_vars => [Back]_vars
  BY <1>1
<1> QED  BY <1>2, AlwaysAgrees, PTL DEF Spec, GoesBackToStored

-----------------------------------------------------------------------------
(***************************************************************************)
(* The requests keep the rule of LocationStore that an update is accepted  *)
(* only once: one that is not in the store yet is carried by one request,  *)
(* at a place before the queue.                                            *)
(***************************************************************************)
Early == {"fence", "prev", "read", "query", "fillCache", "fillMemory"}

Coming(c) == calls[c].u # None /\ calls[c].at \in Early

Numbered ==
    /\ \A u \in waiting \cup rows : u.n <= arrived
    /\ \A c \in Calls : calls[c].u # None => calls[c].u.n <= arrived

Fresh ==
    /\ \A c \in Calls : Coming(c) => calls[c].u \notin waiting \cup rows
    /\ \A c \in Calls : \A d \in Calls \ {c} :
          Coming(c) /\ Coming(d) => calls[c].u # calls[d].u

StoreInv == CacheInv /\ Numbered /\ Fresh

(* Nothing new reaches the store, and no request comes to carry an update.   *)
Quiet ==
    /\ arrived' = arrived /\ waiting' \cup rows' \subseteq waiting \cup rows
    /\ \A c \in Calls : calls'[c].u # None =>
          /\ calls'[c].u = calls[c].u
          /\ calls'[c].at \in Early => calls[c].at \in Early

(* A request leaves the update it carries to the store.                      *)
HandsOver(c) == Coming(c) /\ Queue(c) /\ UNCHANGED <<rows, arrived>>

LEMMA QuietKeeps ==
    ASSUME StoreInv, Quiet
    PROVE  Numbered' /\ Fresh'
<1>1. Numbered'
  BY DEF StoreInv, Quiet, Numbered
<1>2. \A c \in Calls : Coming(c)' => Coming(c) /\ calls'[c].u = calls[c].u
  BY DEF Quiet, Coming
<1>3. Fresh'
  BY <1>2 DEF StoreInv, Quiet, Fresh
<1> QED  BY <1>1, <1>3

LEMMA HandOverKeeps ==
    ASSUME StoreInv, NEW c \in Calls, HandsOver(c)
    PROVE  Numbered' /\ Fresh' /\ Locations!StoreNext
<1>1. calls \in [Calls -> Request] /\ calls[c] \in Request
  BY DEF StoreInv, CacheInv, RequestsOK
<1>2. PICK u \in Update : u = calls[c].u
  BY <1>1 DEF HandsOver, Coming, Request
<1>3. /\ waiting' = waiting \cup {u} /\ rows' = rows /\ arrived' = arrived
      /\ calls' = [calls EXCEPT ![c].at = "remember"]
  BY <1>2 DEF HandsOver, Queue, Go
<1>4. /\ calls'[c].at = "remember" /\ calls'[c].u = u
      /\ \A d \in Calls \ {c} : calls'[d] = calls[d]
  BY <1>1, <1>2, <1>3 DEF Request
<1>5. u \notin waiting \cup rows /\ u.n <= arrived
  BY <1>2 DEF StoreInv, Fresh, Numbered, HandsOver, Coming
<1>6. Numbered'
  BY <1>2, <1>3, <1>4, <1>5 DEF StoreInv, Numbered
<1>7. ~Coming(c)'
  BY <1>4 DEF Coming, Early
<1>8. \A d \in Calls \ {c} : (Coming(d)' <=> Coming(d)) /\ calls'[d].u = calls[d].u
  BY <1>4 DEF Coming
<1>9. \A d \in Calls \ {c} : Coming(d) => calls[d].u # u
  BY <1>2 DEF StoreInv, Fresh, HandsOver
<1>10. Fresh'
  BY <1>3, <1>7, <1>8, <1>9 DEF StoreInv, Fresh
<1>11. Locations!Accept(u)
  BY <1>3, <1>5 DEF Locations!Accept
<1> QED  BY <1>6, <1>10, <1>11 DEF Locations!StoreNext

(* An update that arrives is later than any other.                           *)
LEMMA ArrivalKeeps ==
    ASSUME StoreInv, NEW c \in Calls, NEW v \in Vehicles, NEW t \in Times,
           UpdateLocation(c, v, t)
    PROVE  Numbered' /\ Fresh' /\ UNCHANGED <<waiting, rows>>
<1> DEFINE u == [n |-> arrived + 1, v |-> v, t |-> t]
           at == IF GeofenceEnabled THEN "fence" ELSE "prev"
           k == [Idle EXCEPT !.at = at, !.v = v, !.u = u, !.floor = LatestTime(v)]
<1>1. arrived \in Nat /\ arrived' = arrived + 1 /\ waiting' = waiting /\ rows' = rows
  BY CacheAssumption DEF UpdateLocation, StoreInv, CacheInv, Typed
<1>2. u.n = arrived + 1
  OBVIOUS
<1>3. k.u = u
  BY DEF Idle
<1>4. calls \in [Calls -> Request] /\ calls' = [calls EXCEPT ![c] = k]
  BY DEF UpdateLocation, Begin, StoreInv, CacheInv, RequestsOK
<1> HIDE DEF u, k
<1>5. calls'[c].u = u /\ \A d \in Calls \ {c} : calls'[d] = calls[d]
  BY <1>3, <1>4
<1>6. \A x \in waiting \cup rows : x.n \in Nat /\ x.n <= arrived
  BY CacheAssumption DEF StoreInv, CacheInv, Typed, Numbered, Update
<1>7. \A d \in Calls : calls[d].u # None => calls[d].u.n \in Nat /\ calls[d].u.n <= arrived
  <2>1. SUFFICES ASSUME NEW d \in Calls, calls[d].u # None
                 PROVE  calls[d].u.n \in Nat /\ calls[d].u.n <= arrived
    OBVIOUS
  <2>2. calls[d].u \in Update
    BY <1>4, <2>1 DEF Request
  <2> QED  BY <2>1, <2>2, CacheAssumption DEF Update, StoreInv, Numbered
<1>8. u \notin waiting \cup rows
  BY <1>1, <1>2, <1>6
<1>9. \A d \in Calls \ {c} : calls[d].u # None => calls[d].u # u
  BY <1>1, <1>2, <1>7
<1>10. Numbered'
  <2>1. \A x \in waiting' \cup rows' : x.n <= arrived'
    BY <1>1, <1>6
  <2>2. \A d \in Calls : calls'[d].u # None => calls'[d].u.n <= arrived'
    BY <1>1, <1>2, <1>5, <1>7
  <2> QED  BY <2>1, <2>2 DEF Numbered
<1>11. \A d \in Calls \ {c} : (Coming(d)' <=> Coming(d)) /\ calls'[d].u = calls[d].u
  BY <1>5 DEF Coming
<1>12. Fresh'
  <2>1. \A d \in Calls : Coming(d)' => calls'[d].u \notin waiting' \cup rows'
    BY <1>1, <1>5, <1>8, <1>11 DEF StoreInv, Fresh
  <2>2. \A d \in Calls : \A e \in Calls \ {d} :
            Coming(d)' /\ Coming(e)' => calls'[d].u # calls'[e].u
    BY <1>5, <1>9, <1>11 DEF StoreInv, Fresh, Coming
  <2> QED  BY <2>1, <2>2 DEF Fresh
<1> QED  BY <1>1, <1>10, <1>12

(* A request that goes on with the update it carries, or without one.        *)
LEMMA QuietMove ==
    ASSUME StoreInv, NEW c \in Calls, NEW k, calls' = [calls EXCEPT ![c] = k],
           UNCHANGED <<waiting, rows, arrived>>,
           k.u # None => k.u = calls[c].u /\ (k.at \in Early => calls[c].at \in Early)
    PROVE  Quiet
<1>1. calls'[c] = k /\ \A d \in Calls \ {c} : calls'[d] = calls[d]
  BY DEF StoreInv, CacheInv, RequestsOK
<1> QED  BY <1>1 DEF Quiet

LEMMA QuietGo ==
    ASSUME StoreInv, NEW c \in Calls, NEW at, Go(c, at), UNCHANGED <<waiting, rows, arrived>>,
           at \in Early => calls[c].at \in Early
    PROVE  Quiet
<1>1. calls[c] \in Request /\ DOMAIN calls = Calls
  BY DEF StoreInv, CacheInv, RequestsOK
<1> DEFINE k == [calls[c] EXCEPT !.at = at]
<1>2. k.u = calls[c].u /\ k.at = at
  BY <1>1 DEF Request
<1>3. calls' = [calls EXCEPT ![c] = k]
  BY <1>1 DEF Go
<1> HIDE DEF k
<1> QED  BY <1>2, <1>3, QuietMove

LEMMA QuietReturn ==
    ASSUME StoreInv, NEW c \in Calls, calls[c].at \in Early, NEW x, NEW src,
           Return(c, x, src), UNCHANGED <<rows, arrived>>
    PROVE  HandsOver(c) \/ (Quiet /\ UNCHANGED waiting)
<1>1. CASE IsUpdate(c)
  BY <1>1 DEF Return, IsUpdate, HandsOver, Coming
<1>2. CASE ~IsUpdate(c)
  <2>1. calls[c] \in Request /\ DOMAIN calls = Calls
    BY DEF StoreInv, CacheInv, RequestsOK
  <2> DEFINE k == [calls[c] EXCEPT !.at = "done", !.got = x, !.src = src]
  <2>2. k.u = None
    BY <1>2, <2>1 DEF Request, IsUpdate
  <2>3. calls' = [calls EXCEPT ![c] = k] /\ waiting' = waiting
    BY <1>2, <2>1 DEF Return
  <2> HIDE DEF k
  <2> QED  BY <2>2, <2>3, QuietMove
<1> QED  BY <1>1, <1>2

(* Every other step keeps the requests quiet and is one of the store's.      *)
LEMMA QuietStep ==
    ASSUME StoreInv, NEW c \in Calls, Step(c)
    PROVE  HandsOver(c) \/ (Quiet /\ UNCHANGED <<waiting, rows>>)
<1>1. CASE Fence(c)
  <2>1. "prev" \in Early /\ "fence" \in Early
    BY DEF Early
  <2> QED  BY <1>1, <2>1, QuietGo DEF Fence
<1>2. CASE Previous(c)
  <2>1. CASE Queue(c)
    <3>1. calls[c].at = "prev" /\ calls[c].u # None
      BY <1>2, CarriedOK DEF Previous, RequestOK, StoreInv
    <3> QED  BY <1>2, <2>1, <3>1 DEF Previous, HandsOver, Coming, Early
  <2>2. CASE Go(c, "read") /\ UNCHANGED waiting
    <3>1. "prev" \in Early
      BY DEF Early
    <3> QED  BY <1>2, <2>2, <3>1, QuietGo DEF Previous
  <2> QED  BY <1>2, <2>1, <2>2 DEF Previous
<1>3. CASE Read(c)
  <2>1. "read" \in Early
    BY DEF Early
  <2>2. CASE Go(c, "query") /\ UNCHANGED waiting
    BY <1>3, <2>1, <2>2, QuietGo DEF Read
  <2>3. CASE Return(c, cache[calls[c].v], "cache") \/ Return(c, None, "failure")
    BY <1>3, <2>1, <2>3, QuietReturn DEF Read
  <2> QED  BY <1>3, <2>2, <2>3 DEF Read
<1>4. CASE Query(c)
  <2>1. "query" \in Early
    BY DEF Early
  <2>2. CASE /\ \E r \in Newest(calls[c].v) :
                   calls' = [calls EXCEPT ![c].at = "fillCache", ![c].got = r]
             /\ UNCHANGED waiting
    <3>1. PICK r : calls' = [calls EXCEPT ![c].at = "fillCache", ![c].got = r]
      BY <2>2
    <3> DEFINE k == [calls[c] EXCEPT !.at = "fillCache", !.got = r]
    <3>2. calls[c] \in Request /\ DOMAIN calls = Calls
      BY DEF StoreInv, CacheInv, RequestsOK
    <3>3. calls' = [calls EXCEPT ![c] = k] /\ k.u = calls[c].u
      BY <3>1, <3>2 DEF Request
    <3> HIDE DEF k
    <3> QED  BY <1>4, <2>1, <2>2, <3>3, QuietMove DEF Query
  <2>3. CASE Return(c, None, "table") \/ Return(c, None, "failure")
    BY <1>4, <2>1, <2>3, QuietReturn DEF Query
  <2> QED  BY <1>4, <2>2, <2>3 DEF Query
<1>5. CASE FillCache(c)
  <2>1. "fillCache" \in Early
    BY DEF Early
  <2>2. CASE Go(c, "fillMemory") /\ UNCHANGED waiting
    BY <1>5, <2>1, <2>2, QuietGo DEF FillCache
  <2>3. CASE Return(c, None, "failure")
    BY <1>5, <2>1, <2>3, QuietReturn DEF FillCache
  <2> QED  BY <1>5, <2>2, <2>3 DEF FillCache
<1>6. CASE FillMemory(c)
  <2>1. "fillMemory" \in Early
    BY DEF Early
  <2> QED  BY <1>6, <2>1, QuietReturn DEF FillMemory
<1>7. CASE Remember(c) \/ Finish(c)
  <2>1. calls' = [calls EXCEPT ![c] = Idle] /\ Idle.u = None
    BY <1>7 DEF Remember, Finish, Idle
  <2> QED  BY <1>7, <2>1, QuietMove DEF Remember, Finish
<1>8. CASE ReadPage(c) \/ QueryRows(c) \/ QueryCount(c)
  <2> DEFINE q == calls[c]
  <2>1. q \in Request /\ DOMAIN calls = Calls
    BY DEF StoreInv, CacheInv, RequestsOK
  <2>2. PICK k : /\ calls' = [calls EXCEPT ![c] = k] /\ k.u = q.u
                 /\ k.at \notin Early
    <3>1. CASE ReadPage(c)
      <4>1. CASE pages[q.v] = None
        <5>1. calls' = [calls EXCEPT ![c] = [q EXCEPT !.at = "queries"]]
          BY <2>1, <3>1, <4>1 DEF ReadPage
        <5>2. [q EXCEPT !.at = "queries"].u = q.u
              /\ [q EXCEPT !.at = "queries"].at = "queries"
          BY <2>1 DEF Request
        <5> QED  BY <5>1, <5>2 DEF Early
      <4>2. CASE pages[q.v] # None
        <5> DEFINE k == [q EXCEPT !.at = "done", !.got = pages[q.v].got,
                                  !.total = pages[q.v].total]
        <5>1. calls' = [calls EXCEPT ![c] = k]
          BY <2>1, <3>1, <4>2 DEF ReadPage
        <5>2. k.u = q.u /\ k.at = "done"
          BY <2>1 DEF Request
        <5> HIDE DEF k
        <5> QED  BY <5>1, <5>2 DEF Early
      <4> QED  BY <4>1, <4>2
    <3>2. CASE QueryRows(c)
      <4> DEFINE k == [q EXCEPT !.got = RowsOf(q.v)]
      <4>1. calls' = [calls EXCEPT ![c] = k] /\ k.u = q.u /\ k.at = "queries"
        BY <2>1, <3>2 DEF QueryRows, Request
      <4> HIDE DEF k
      <4> QED  BY <4>1 DEF Early
    <3>3. CASE QueryCount(c)
      <4> DEFINE k == [q EXCEPT !.total = Counted(q.v)]
      <4>1. calls' = [calls EXCEPT ![c] = k] /\ k.u = q.u /\ k.at = "queries"
        BY <2>1, <3>3 DEF QueryCount, Request
      <4> HIDE DEF k
      <4> QED  BY <4>1 DEF Early
    <3> QED  BY <1>8, <3>1, <3>2, <3>3
  <2> QED  BY <1>8, <2>2, QuietMove DEF ReadPage, QueryRows, QueryCount
<1>9. CASE FillPage(c)
  <2>1. "done" \notin Early
    BY DEF Early
  <2> QED  BY <1>9, <2>1, QuietGo DEF FillPage
<1> QED
  BY <1>1, <1>2, <1>3, <1>4, <1>5, <1>6, <1>7, <1>8, <1>9 DEF Step

LEMMA StoreStep ==
    ASSUME StoreInv, [Next]_vars
    PROVE  Numbered' /\ Fresh' /\ [Locations!StoreNext]_(Locations!storeVars)
<1>1. ASSUME NEW c \in Calls, NEW v \in Vehicles, NEW t \in Times, UpdateLocation(c, v, t)
      PROVE  Numbered' /\ Fresh' /\ UNCHANGED Locations!storeVars
  BY <1>1, ArrivalKeeps DEF Locations!storeVars
<1>2. ASSUME NEW c \in Calls, HandsOver(c)
      PROVE  Numbered' /\ Fresh' /\ Locations!StoreNext
  BY <1>2, HandOverKeeps
<1>3. CASE Quiet /\ (UNCHANGED <<waiting, rows>> \/ Locations!StoreNext)
  BY <1>3, QuietKeeps DEF Locations!storeVars
<1>4. ASSUME NEW c \in Calls, NEW v \in Vehicles,
             GetLatestLocation(c, v) \/ GetLocationHistory(c, v)
      PROVE  Quiet /\ UNCHANGED <<waiting, rows>>
  <2>1. PICK k : calls' = [calls EXCEPT ![c] = k] /\ k.u = None
    <3>1. PICK at, kind : Begin(c, kind, at, v, None)
      BY <1>4 DEF GetLatestLocation, GetLocationHistory
    <3> DEFINE k == [Idle EXCEPT !.at = at, !.v = v, !.u = None, !.floor = LatestTime(v)]
    <3>2. k.u = None
      BY DEF Idle
    <3>3. calls' = [calls EXCEPT ![c] = k]
      BY <3>1 DEF Begin
    <3> HIDE DEF k
    <3> QED  BY <3>2, <3>3
  <2> QED  BY <1>4, <2>1, QuietMove DEF GetLatestLocation, GetLocationHistory
<1>5. ASSUME NEW u, CacheWrite(u)
      PROVE  Quiet /\ UNCHANGED <<waiting, rows>>
  BY <1>5 DEF CacheWrite, Quiet
<1>6. CASE Batch
  <2>1. Quiet
    BY <1>6, Settles DEF Batch, Quiet
  <2>2. Locations!StoreNext
    BY <1>6 DEF Batch, Locations!StoreNext
  <2> QED  BY <1>3, <2>1, <2>2
<1>7. ASSUME NEW v \in Vehicles, Expire(v) \/ ExpirePage(v)
      PROVE  Quiet /\ UNCHANGED <<waiting, rows>>
  BY <1>7 DEF Expire, ExpirePage, Quiet
<1>8. CASE Crash
  <2>1. Quiet
    BY <1>8 DEF Crash, Quiet, Idle
  <2>2. Locations!Drop
    BY <1>8 DEF Crash, Locations!Drop
  <2> QED  BY <1>3, <2>1, <2>2 DEF Locations!StoreNext
<1>9. CASE UNCHANGED vars
  BY <1>3, <1>9 DEF vars, Quiet
<1> QED
  BY <1>1, <1>2, <1>3, <1>4, <1>5, <1>6, <1>7, <1>8, <1>9, QuietStep DEF Next

LEMMA StoreInitial == Init => Locations!StoreInit /\ Numbered /\ Fresh
BY DEF Init, Idle, Numbered, Fresh, Coming, Locations!StoreInit

(* The requests use the batch storage as it promises to be used and assume   *)
(* no more of it than it promises: here too, every update is accepted once   *)
(* at most and then stored or dropped.                                       *)
THEOREM CacheImplementsStore == Spec => Locations!StoreSpec
<1>1. CacheInv /\ Numbered /\ Fresh /\ [Next]_vars => Numbered' /\ Fresh'
  BY StoreStep DEF StoreInv
<1>2. CacheInv /\ Numbered /\ Fresh /\ [Next]_vars
          => [Locations!StoreNext]_(Locations!storeVars)
  BY StoreStep DEF StoreInv
<1> QED
  BY <1>1, <1>2, StoreInitial, AlwaysAgrees, PTL DEF Spec, Locations!StoreSpec

=============================================================================
