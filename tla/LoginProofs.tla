---------------------------- MODULE LoginProofs ----------------------------
(***************************************************************************)
(* Theorems about Login, for every set of addresses, identifiers and       *)
(* request slots, whatever accounts the identifiers find, and every limit. *)
(***************************************************************************)
EXTENDS Login, FiniteSetTheorems, TLAPS

(***************************************************************************)
(* Requests and counters as data. A request has been counted as often as   *)
(* the place it has come to says.                                          *)
(***************************************************************************)
Filters == {"count", "expireHits", "block", "admit"}

At == {"idle", "filtered", "error", "guards", "isLocked", "validate", "record",
       "expireTries", "lock", "reset", "guardAgain", "handler", "refused", "failed",
       "answered"} \cup Filters

Request == [at : At, ip : Ips \cup {None}, id : Identifiers \cup {None}, n : Nat,
            second : BOOLEAN, counted : 0..2]

Counter == {key \in [n : Nat, expires : BOOLEAN] : key.n = 0 => key = Absent}

TimesCounted(at) ==
    IF at \in {"error", "refused", "answered"} THEN 1 ELSE IF at = "failed" THEN 2 ELSE 0

(* Only an address on neither list is counted, and may be blocked. *)
Limited == Ips \ (Whitelist \cup Blacklist)

RequestOK(k) ==
    /\ k.counted = TimesCounted(k.at)
    /\ k.at \in Filters => k.ip \in Limited
    /\ k.at # "idle" => k.id \in Identifiers

CallsTyped == calls \in [Calls -> Request] /\ \A c \in Calls : RequestOK(calls[c])

Typed ==
    /\ hits \in [Ips -> Counter] /\ tries \in [Identifiers -> Counter]
    /\ blocked \subseteq Limited /\ locked \subseteq Identifiers
    /\ CallsTyped
    /\ from \in Ips
    /\ arrived \in 0..MaxRequests[from] /\ faults \in 0..MaxFaults
    /\ wrong \in [Identifiers -> Nat]

LEMMA CounterType ==
  /\ Absent \in Counter /\ Absent.n = 0 /\ ~Absent.expires
  /\ \A key \in Counter :
        /\ key.n \in Nat
        /\ Incremented(key) \in Counter
        /\ Incremented(key).n = key.n + 1
        /\ Incremented(key).expires = key.expires
        /\ Expiring(key) \in Counter
        /\ Expiring(key).n = key.n
        /\ key.n > 0 => Expiring(key).expires
  <1>1. Absent \in Counter /\ Absent.n = 0 /\ ~Absent.expires
    BY DEF Absent, Counter
  <1>2. ASSUME NEW key \in Counter
        PROVE  /\ key.n \in Nat
               /\ Incremented(key) \in Counter
               /\ Incremented(key).n = key.n + 1
               /\ Incremented(key).expires = key.expires
    <2>1. key \in [n : Nat, expires : BOOLEAN]
      BY DEF Counter
    <2>2. /\ Incremented(key) \in [n : Nat, expires : BOOLEAN]
          /\ Incremented(key).n = key.n + 1
          /\ Incremented(key).expires = key.expires
      BY <2>1 DEF Incremented
    <2> QED
      BY <2>1, <2>2 DEF Counter
  <1>3. ASSUME NEW key \in Counter
        PROVE  /\ Expiring(key) \in Counter
               /\ Expiring(key).n = key.n
               /\ key.n > 0 => Expiring(key).expires
    <2>1. CASE key = Absent
      BY <1>1, <2>1 DEF Expiring
    <2>2. CASE key # Absent
      <3>1. key \in [n : Nat, expires : BOOLEAN] /\ key.n # 0
        BY <2>2 DEF Counter
      <3> DEFINE new == [key EXCEPT !.expires = TRUE]
      <3>2. new \in [n : Nat, expires : BOOLEAN] /\ new.n = key.n /\ new.expires
        BY <3>1
      <3>3. Expiring(key) = new
        BY <2>2 DEF Expiring
      <3> HIDE DEF new
      <3> QED
        BY <3>1, <3>2, <3>3 DEF Counter
    <2> QED
      BY <2>1, <2>2
  <1> QED
    BY <1>1, <1>2, <1>3

LEMMA IdleType == Idle \in Request /\ RequestOK(Idle) /\ Idle.at = "idle"
  BY DEF Idle, Request, RequestOK, TimesCounted, At, Filters

(* Where a request goes, and what its slot holds then.                       *)
Moves(c, at, n, second, counted) ==
    /\ calls' \in [Calls -> Request]
    /\ \A e \in Calls \ {c} : calls'[e] = calls[e]
    /\ calls'[c].at = at /\ calls'[c].n = n /\ (calls'[c].second <=> second)
    /\ calls'[c].counted = counted
    /\ calls'[c].ip = calls[c].ip /\ calls'[c].id = calls[c].id

LEMMA SlotMoves ==
  ASSUME calls \in [Calls -> Request], NEW c \in Calls, NEW k \in Request,
         k.ip = calls[c].ip, k.id = calls[c].id, calls' = [calls EXCEPT ![c] = k]
  PROVE  Moves(c, k.at, k.n, k.second, k.counted)
  BY DEF Moves

LEMMA GoMoves ==
  ASSUME calls \in [Calls -> Request], NEW c \in Calls, NEW at \in At, Go(c, at)
  PROVE  Moves(c, at, calls[c].n, calls[c].second, calls[c].counted)
  <1> DEFINE k == [calls[c] EXCEPT !.at = at]
  <1>1. /\ k \in Request /\ k.at = at /\ k.n = calls[c].n /\ k.second = calls[c].second
        /\ k.counted = calls[c].counted /\ k.ip = calls[c].ip /\ k.id = calls[c].id
    BY DEF Request
  <1>2. calls' = [calls EXCEPT ![c] = k]
    BY DEF Go
  <1> HIDE DEF k
  <1> QED
    BY <1>1, <1>2, SlotMoves

LEMMA GoCountedMoves ==
  ASSUME calls \in [Calls -> Request], NEW c \in Calls, NEW at \in At, NEW n \in Nat,
         calls' = [calls EXCEPT ![c].n = n, ![c].at = at]
  PROVE  Moves(c, at, n, calls[c].second, calls[c].counted)
  <1> DEFINE k == [calls[c] EXCEPT !.n = n, !.at = at]
  <1>1. /\ k \in Request /\ k.at = at /\ k.n = n /\ k.second = calls[c].second
        /\ k.counted = calls[c].counted /\ k.ip = calls[c].ip /\ k.id = calls[c].id
    BY DEF Request
  <1>2. calls' = [calls EXCEPT ![c] = k]
    OBVIOUS
  <1> HIDE DEF k
  <1> QED
    BY <1>1, <1>2, SlotMoves

LEMMA GoAgainMoves ==
  ASSUME calls \in [Calls -> Request], NEW c \in Calls, NEW n \in Nat,
         calls' = [calls EXCEPT ![c].at = "record", ![c].second = TRUE, ![c].n = n]
  PROVE  Moves(c, "record", n, TRUE, calls[c].counted)
  <1> DEFINE k == [calls[c] EXCEPT !.at = "record", !.second = TRUE, !.n = n]
  <1>1. /\ k \in Request /\ k.at = "record" /\ k.n = n /\ k.second
        /\ k.counted = calls[c].counted /\ k.ip = calls[c].ip /\ k.id = calls[c].id
    BY DEF Request, At
  <1>2. calls' = [calls EXCEPT ![c] = k]
    OBVIOUS
  <1> HIDE DEF k
  <1> QED
    BY <1>1, <1>2, SlotMoves DEF Moves

(* Counting on the way to an answer. *)
LEMMA AnswerMoves ==
  ASSUME calls \in [Calls -> Request], NEW c \in Calls, NEW at \in At, NEW times \in 0..2,
         calls[c].counted = 0, Answer(c, at, times)
  PROVE  Moves(c, at, 0, calls[c].second, times)
  <1> DEFINE k == [calls[c] EXCEPT !.at = at, !.counted = times, !.n = 0]
  <1>0. calls[c].counted + times = times
    OBVIOUS
  <1>1. /\ k \in Request /\ k.at = at /\ k.n = 0 /\ k.second = calls[c].second
        /\ k.counted = times /\ k.ip = calls[c].ip /\ k.id = calls[c].id
    BY DEF Request
  <1>2. calls' = [calls EXCEPT ![c] = k]
    BY <1>0 DEF Answer
  <1> HIDE DEF k
  <1> QED
    BY <1>1, <1>2, SlotMoves

(* The attempt is recorded once more, or was recorded for the second time. *)
LEMMA RecordedMoves ==
  ASSUME calls \in [Calls -> Request], NEW c \in Calls, calls[c].counted = 0, Recorded(c)
  PROVE  IF calls[c].second THEN Moves(c, "refused", 0, TRUE, 1)
                            ELSE Moves(c, "record", 0, TRUE, 0)
  <1>1. CASE calls[c].second
    <2>1. Answer(c, "refused", 1)
      BY <1>1 DEF Recorded, Thrown
    <2>2. Moves(c, "refused", 0, calls[c].second, 1)
      BY <2>1, AnswerMoves DEF At
    <2> QED
      BY <1>1, <2>2 DEF Moves
  <1>2. CASE ~calls[c].second
    <2>1. calls' = [calls EXCEPT ![c].at = "record", ![c].second = TRUE, ![c].n = 0]
      BY <1>2 DEF Recorded
    <2>2. 0 \in Nat
      OBVIOUS
    <2>3. Moves(c, "record", 0, TRUE, calls[c].counted)
      BY <2>1, <2>2, GoAgainMoves
    <2> QED
      BY <1>2, <2>3
  <1> QED
    BY <1>1, <1>2

-----------------------------------------------------------------------------
(* A request under way that is not answered yet. *)
Pending(c) == calls[c].at # "idle" /\ TimesCounted(calls[c].at) = 0

(* A request that moves on keeps every request counted as it should be.      *)
LEMMA MovesOK ==
  ASSUME Typed, NEW c \in Calls, calls[c].at # "idle", NEW at \in At, NEW n, NEW second,
         Moves(c, at, n, second, TimesCounted(at)),
         at \in Filters => calls[c].ip \in Limited
  PROVE  calls' \in [Calls -> Request] /\ \A e \in Calls : RequestOK(calls[e])'
  BY DEF Typed, CallsTyped, Moves, RequestOK

LEMMA RequestType ==
  ASSUME Typed, NEW c \in Calls
  PROVE  /\ calls \in [Calls -> Request] /\ calls[c] \in Request
         /\ calls[c].at \in At /\ calls[c].n \in Nat /\ calls[c].second \in BOOLEAN
         /\ calls[c].counted = TimesCounted(calls[c].at)
         /\ calls[c].at \in Filters => calls[c].ip \in Limited /\ calls[c].ip \in Ips
         /\ calls[c].at # "idle" => calls[c].id \in Identifiers
  BY DEF Typed, CallsTyped, Request, RequestOK, Limited

(* A fault is one more of those the bound allows. *)
LEMMA FaultType ==
  ASSUME Typed, Fault
  PROVE  faults' \in 0..MaxFaults /\ faults' # 0
  BY LoginAssumption DEF Typed, CallsTyped, Fault

LEMMA InitTyped == Init => Typed
  <1> SUFFICES ASSUME Init PROVE Typed
    OBVIOUS
  <1>1. hits \in [Ips -> Counter] /\ tries \in [Identifiers -> Counter]
    BY CounterType DEF Init
  <1>2. calls \in [Calls -> Request] /\ \A c \in Calls : RequestOK(calls[c])
    BY IdleType DEF Init
  <1>3. MaxRequests[from] \in Nat /\ MaxFaults \in Nat
    BY LoginAssumption DEF Init
  <1>4. /\ arrived \in 0..MaxRequests[from] /\ faults \in 0..MaxFaults
        /\ wrong \in [Identifiers -> Nat]
    BY <1>3 DEF Init
  <1>5. blocked \subseteq Limited /\ locked \subseteq Identifiers /\ from \in Ips
    BY DEF Init
  <1> QED
    BY <1>1, <1>2, <1>4, <1>5 DEF Typed, CallsTyped

LEMMA StartType ==
  ASSUME NEW at \in {"guards", "filtered", "count"}, NEW ip \in Ips,
         NEW id \in Identifiers, at = "count" => ip \in Limited
  PROVE  LET k == [Idle EXCEPT !.ip = ip, !.id = id, !.at = at]
         IN  k \in Request /\ RequestOK(k)
  <1> DEFINE k == [Idle EXCEPT !.ip = ip, !.id = id, !.at = at]
  <1>1. at \in At /\ (at \in Filters => at = "count") /\ TimesCounted(at) = 0
    BY DEF At, Filters, TimesCounted
  <1>2. k \in Request
    BY <1>1, IdleType DEF Request
  <1>3. k.at = at /\ k.ip = ip /\ k.id = id /\ k.counted = 0
    BY DEF Idle
  <1> HIDE DEF k
  <1>4. RequestOK(k)
    BY <1>1, <1>3 DEF RequestOK
  <1> QED
    BY <1>2, <1>4 DEF k

LEMMA UseTyped ==
  ASSUME Typed, NEW c \in Calls, NEW ip \in Ips, NEW id \in Identifiers, Use(c, ip, id)
  PROVE  Typed'
  <1> DEFINE at == IF ip \in Whitelist THEN "guards"
                   ELSE IF ip \in Blacklist THEN "filtered" ELSE "count"
             k == [Idle EXCEPT !.ip = ip, !.id = id, !.at = at]
  <1>1. /\ at \in {"guards", "filtered", "count"}
        /\ at = "count" => ip \in Limited
    BY DEF Limited
  <1>2. calls' = [calls EXCEPT ![c] = k]
    BY DEF Use
  <1>7. k \in Request /\ RequestOK(k)
    BY <1>1, StartType
  <1> HIDE DEF k
  <1>3. calls' \in [Calls -> Request] /\ \A e \in Calls : RequestOK(calls[e])'
    BY <1>2, <1>7 DEF Typed, CallsTyped
  <1>4. arrived' \in 0..MaxRequests[from]
    BY LoginAssumption DEF Typed, CallsTyped, Use
  <1> QED
    BY <1>3, <1>4 DEF Typed, CallsTyped, Use

(* What INCR leaves of the request it counts. *)
LEMMA CountMoves ==
  ASSUME Typed, NEW c \in Calls, Count(c)
  PROVE  /\ CallsTyped' /\ hits' \in [Ips -> Counter]
         /\ \/ /\ UNCHANGED faults
               /\ hits' = [hits EXCEPT ![calls[c].ip] = Incremented(@)]
               /\ \E at \in Filters :
                     /\ hits'[calls[c].ip].n = 1 => at = "expireHits"
                     /\ Moves(c, at, hits'[calls[c].ip].n, calls[c].second, 0)
            \/ Fault
  <1> DEFINE ip == calls[c].ip
             more == [hits EXCEPT ![ip] = Incremented(@)]
  <1>1. ip \in Ips /\ ip \in Limited /\ calls[c].counted = 0 /\ calls[c].at # "idle"
    BY RequestType DEF Count, Filters, TimesCounted, Pending
  <1>2. more \in [Ips -> Counter] /\ hits \in [Ips -> Counter] /\ more[ip].n \in Nat
    BY <1>1, CounterType DEF Typed
  <1>3. CASE hits' = more /\ UNCHANGED faults
             /\ calls' = [calls EXCEPT ![c].n = hits'[ip].n, ![c].at =
                  IF hits'[ip].n = 1 THEN "expireHits"
                  ELSE IF hits'[ip].n > MaxPerMinute THEN "block" ELSE "admit"]
    <2> DEFINE at == IF hits'[ip].n = 1 THEN "expireHits"
                     ELSE IF hits'[ip].n > MaxPerMinute THEN "block" ELSE "admit"
    <2>1. /\ at \in Filters /\ at \in At /\ TimesCounted(at) = 0
          /\ hits'[ip].n = 1 => at = "expireHits"
      BY DEF Filters, At, TimesCounted
    <2>2. calls' = [calls EXCEPT ![c].n = more[ip].n, ![c].at = at]
      BY <1>3
    <2> HIDE DEF at, more
    <2>3. Moves(c, at, more[ip].n, calls[c].second, calls[c].counted)
      BY <1>2, <2>1, <2>2, GoCountedMoves, RequestType
    <2>4. CallsTyped'
      BY <1>1, <2>1, <2>3, MovesOK DEF CallsTyped
    <2> QED
      BY <1>1, <1>2, <1>3, <2>1, <2>3, <2>4 DEF more
  <1>4. CASE Fault /\ hits' \in {hits, more} /\ Thrown(c, "error")
    <2>1. Moves(c, "error", 0, calls[c].second, 1)
      BY <1>1, <1>4, AnswerMoves, RequestType DEF Thrown, At
    <2>2. TimesCounted("error") = 1 /\ "error" \in At /\ "error" \notin Filters
      BY DEF TimesCounted, At, Filters
    <2> QED
      BY <1>1, <1>2, <1>4, <2>1, <2>2, MovesOK DEF CallsTyped
  <1> QED
    BY <1>3, <1>4 DEF Count

LEMMA CountTyped ==
  ASSUME Typed, NEW c \in Calls, Count(c)
  PROVE  Typed'
  <1>1. CallsTyped' /\ hits' \in [Ips -> Counter] /\ faults' \in 0..MaxFaults
    BY CountMoves, FaultType DEF Typed
  <1> QED
    BY <1>1 DEF Typed, Count

(* A step to another place without an answer, and an answer. *)
LEMMA GoOK ==
  ASSUME Typed, NEW c \in Calls, NEW at \in At, Go(c, at),
         Pending(c), TimesCounted(at) = 0,
         at \in Filters => calls[c].at \in Filters
  PROVE  /\ CallsTyped'
         /\ Moves(c, at, calls[c].n, calls[c].second, TimesCounted(at))
  <1>1. Moves(c, at, calls[c].n, calls[c].second, TimesCounted(at))
    BY RequestType, GoMoves DEF Pending
  <1>2. (at \in Filters => calls[c].ip \in Limited) /\ calls[c].at # "idle"
    BY RequestType DEF Pending
  <1> QED
    BY <1>1, <1>2, MovesOK DEF CallsTyped

LEMMA AnswerOK ==
  ASSUME Typed, NEW c \in Calls, NEW at \in At \ Filters, NEW times \in 0..2,
         Answer(c, at, times), Pending(c), TimesCounted(at) = times
  PROVE  CallsTyped' /\ Moves(c, at, 0, calls[c].second, times)
  <1>1. Moves(c, at, 0, calls[c].second, TimesCounted(at)) /\ calls[c].at # "idle"
    BY RequestType, AnswerMoves DEF Pending
  <1> QED
    BY <1>1, MovesOK DEF CallsTyped

LEMMA ThrownOK ==
  ASSUME Typed, NEW c \in Calls, NEW at \in {"error", "refused"}, Thrown(c, at),
         Pending(c)
  PROVE  CallsTyped' /\ Moves(c, at, 0, calls[c].second, 1)
  <1>1. at \in At \ Filters /\ TimesCounted(at) = 1
    BY DEF At, Filters, TimesCounted
  <1> QED
    BY <1>1, AnswerOK DEF Thrown

LEMMA RecordedOK ==
  ASSUME Typed, NEW c \in Calls, Recorded(c), Pending(c)
  PROVE  /\ CallsTyped'
         /\ IF calls[c].second THEN Moves(c, "refused", 0, TRUE, 1)
                               ELSE Moves(c, "record", 0, TRUE, 0)
  <1>1. IF calls[c].second THEN Moves(c, "refused", 0, TRUE, 1)
                           ELSE Moves(c, "record", 0, TRUE, 0)
    BY RequestType, RecordedMoves DEF Pending
  <1>2. calls[c].at # "idle"
    BY DEF Pending
  <1>3. /\ {"refused", "record"} \subseteq At \ Filters
        /\ TimesCounted("refused") = 1 /\ TimesCounted("record") = 0
    BY DEF At, Filters, TimesCounted
  <1> QED
    BY <1>1, <1>2, <1>3, MovesOK DEF CallsTyped

LEMMA ExpireHitsTyped ==
  ASSUME Typed, NEW c \in Calls, ExpireHits(c)
  PROVE  Typed'
  <1> DEFINE ip == calls[c].ip
             kept == [hits EXCEPT ![ip] = Expiring(@)]
             at == IF calls[c].n > MaxPerMinute THEN "block" ELSE "admit"
  <1>1. ip \in Ips /\ Pending(c) /\ calls[c].at \in Filters
    BY RequestType DEF ExpireHits, Filters, TimesCounted, Pending
  <1>2. kept \in [Ips -> Counter] /\ hits \in [Ips -> Counter]
    BY <1>1, CounterType DEF Typed
  <1>3. at \in At /\ at \in Filters /\ TimesCounted(at) = 0
    BY DEF At, Filters, TimesCounted
  <1>4. hits' \in [Ips -> Counter] /\ faults' \in 0..MaxFaults /\ CallsTyped'
    <2>1. CASE hits' = kept /\ Go(c, at) /\ UNCHANGED faults
      <3> HIDE DEF at
      <3> QED
        BY <1>1, <1>2, <1>3, <2>1, GoOK DEF Typed
    <2>2. CASE Fault /\ hits' \in {hits, kept} /\ Thrown(c, "error")
      BY <1>1, <1>2, <2>2, ThrownOK, FaultType
    <2> QED
      BY <2>1, <2>2 DEF ExpireHits
  <1> QED
    BY <1>4 DEF Typed, ExpireHits

LEMMA BlockTyped ==
  ASSUME Typed, NEW c \in Calls, Block(c)
  PROVE  Typed'
  <1>1. calls[c].ip \in Limited /\ Pending(c)
    BY RequestType DEF Block, Filters, TimesCounted, Pending
  <1>2. "filtered" \in At \ Filters /\ TimesCounted("filtered") = 0
    BY DEF At, Filters, TimesCounted
  <1>3. blocked' \subseteq Limited
    BY <1>1 DEF Typed, Block
  <1>4. faults' \in 0..MaxFaults /\ CallsTyped'
    <2>1. CASE Answer(c, "filtered", 0) /\ UNCHANGED faults
      BY <1>1, <1>2, <2>1, AnswerOK DEF Typed
    <2>2. CASE Fault /\ Thrown(c, "error")
      BY <1>1, <2>2, ThrownOK, FaultType
    <2> QED
      BY <2>1, <2>2 DEF Block
  <1> QED
    BY <1>3, <1>4 DEF Typed, Block

LEMMA AdmitTyped ==
  ASSUME Typed, NEW c \in Calls, Admit(c)
  PROVE  Typed'
  <1>1. Pending(c) /\ calls[c].at # "idle"
    BY DEF Admit, TimesCounted, Pending
  <1>2. /\ {"filtered", "guards"} \subseteq At \ Filters
        /\ TimesCounted("filtered") = 0 /\ TimesCounted("guards") = 0
    BY DEF At, Filters, TimesCounted
  <1>3. faults' \in 0..MaxFaults /\ CallsTyped'
    <2>1. CASE Answer(c, "filtered", 0) /\ UNCHANGED faults
      BY <1>1, <1>2, <2>1, AnswerOK DEF Typed
    <2>2. CASE calls' = [calls EXCEPT ![c].at = "guards", ![c].n = 0] /\ UNCHANGED faults
      <3>1. Moves(c, "guards", 0, calls[c].second, 0)
        <4> DEFINE k == [calls[c] EXCEPT !.at = "guards", !.n = 0]
        <4>1. /\ k \in Request /\ k.at = "guards" /\ k.n = 0
              /\ k.second = calls[c].second /\ k.counted = calls[c].counted
              /\ k.ip = calls[c].ip /\ k.id = calls[c].id
          BY <1>2, RequestType DEF Request
        <4>2. calls' = [calls EXCEPT ![c] = k]
          BY <2>2
        <4>3. calls[c].counted = 0
          BY <1>1, RequestType DEF Pending
        <4> HIDE DEF k
        <4> QED
          BY <4>1, <4>2, <4>3, SlotMoves, RequestType
      <3> QED
        BY <1>1, <1>2, <2>2, <3>1, MovesOK DEF Typed, CallsTyped
    <2>3. CASE Fault /\ Thrown(c, "error")
      BY <1>1, <2>3, ThrownOK, FaultType
    <2> QED
      BY <2>1, <2>2, <2>3 DEF Admit
  <1> QED
    BY <1>3 DEF Typed, Admit

LEMMA ThrottleTyped ==
  ASSUME Typed, NEW c \in Calls, Throttle(c)
  PROVE  Typed'
  <1>1. Pending(c)
    BY DEF Throttle, TimesCounted, Pending
  <1>2. /\ {"isLocked", "handler"} \subseteq At \ Filters
        /\ TimesCounted("isLocked") = 0 /\ TimesCounted("handler") = 0
    BY DEF At, Filters, TimesCounted
  <1>3. CallsTyped'
    BY <1>1, <1>2, GoOK, ThrownOK DEF Throttle
  <1> QED
    BY <1>3 DEF Typed, Throttle

LEMMA IsAccountLockedTyped ==
  ASSUME Typed, NEW c \in Calls, IsAccountLocked(c)
  PROVE  Typed'
  <1>1. /\ Pending(c)
        /\ "validate" \in At \ Filters /\ TimesCounted("validate") = 0
    BY DEF IsAccountLocked, HasLock, At, Filters, TimesCounted, Pending
  <1>2. CallsTyped'
    BY <1>1, GoOK, ThrownOK DEF IsAccountLocked, HasLock
  <1>3. faults' \in 0..MaxFaults
    BY FaultType DEF IsAccountLocked, HasLock, Typed
  <1> QED
    BY <1>2, <1>3 DEF Typed, IsAccountLocked, HasLock

(* What validateUser leaves of the request. *)
LEMMA ValidateUserMoves ==
  ASSUME Typed, NEW c \in Calls, ValidateUser(c)
  PROVE  /\ CallsTyped' /\ calls[c].id \in Identifiers
         /\ \/ /\ Moves(c, "reset", calls[c].n, calls[c].second, 0)
               /\ UNCHANGED wrong
            \/ /\ Moves(c, "record", calls[c].n, calls[c].second, 0)
               /\ wrong' = [wrong EXCEPT ![calls[c].id] = @ + 1]
            \/ /\ Moves(c, "record", calls[c].n, TRUE, 0)
               /\ UNCHANGED wrong
  <1>1. /\ Pending(c) /\ calls[c].counted = 0
        /\ calls[c].at # "idle" /\ calls[c].id \in Identifiers
    BY RequestType DEF ValidateUser, TimesCounted, Pending
  <1>2. /\ {"reset", "record"} \subseteq At \ Filters
        /\ TimesCounted("reset") = 0 /\ TimesCounted("record") = 0
    BY DEF At, Filters, TimesCounted
  <1>3. CASE Go(c, "reset") /\ UNCHANGED wrong
    BY <1>1, <1>2, <1>3, GoOK
  <1>4. CASE Go(c, "record") /\ wrong' = [wrong EXCEPT ![calls[c].id] = @ + 1]
    BY <1>1, <1>2, <1>4, GoOK
  <1>5. CASE /\ calls' = [calls EXCEPT ![c].at = "record", ![c].second = TRUE]
             /\ UNCHANGED wrong
    <2> DEFINE k == [calls[c] EXCEPT !.at = "record", !.second = TRUE]
    <2>1. /\ k \in Request /\ k.at = "record" /\ k.n = calls[c].n /\ k.second
          /\ k.counted = 0 /\ k.ip = calls[c].ip /\ k.id = calls[c].id
      BY <1>1, <1>2, RequestType DEF Request
    <2>2. calls' = [calls EXCEPT ![c] = k]
      BY <1>5
    <2> HIDE DEF k
    <2>3. Moves(c, "record", calls[c].n, TRUE, 0)
      BY <2>1, <2>2, SlotMoves, RequestType DEF Moves
    <2> QED
      BY <1>1, <1>2, <1>5, <2>3, MovesOK DEF CallsTyped
  <1> QED
    BY <1>1, <1>3, <1>4, <1>5 DEF ValidateUser

LEMMA ValidateUserTyped ==
  ASSUME Typed, NEW c \in Calls, ValidateUser(c)
  PROVE  Typed'
  <1>1. CallsTyped'
    BY ValidateUserMoves
  <1>2. wrong \in [Identifiers -> Nat]
    BY DEF Typed
  <1>3. wrong' \in [Identifiers -> Nat]
    BY <1>2 DEF ValidateUser
  <1> QED
    BY <1>1, <1>3 DEF Typed, ValidateUser

(* What INCR, EXPIRE and SET leave of the request that records a failure: it *)
(* has more to do, or it is done and records once more or is answered.       *)
RecordedTo(c) ==
    IF calls[c].second THEN Moves(c, "refused", 0, TRUE, 1) ELSE Moves(c, "record", 0, TRUE, 0)

LEMMA IncrementMoves ==
  ASSUME Typed, NEW c \in Calls, Increment(c)
  PROVE  LET id == calls[c].id
             more == [tries EXCEPT ![id] = Incremented(@)]
             n == more[id].n
         IN  /\ CallsTyped' /\ tries' \in [Identifiers -> Counter] /\ id \in Identifiers
             /\ n = tries[id].n + 1
             /\ \/ /\ UNCHANGED faults
                   /\ tries' = more
                   /\ \/ n = 1 /\ Moves(c, "expireTries", 1, calls[c].second, 0)
                      \/ n # 1 /\ Locks(n) /\ Moves(c, "lock", n, calls[c].second, 0)
                      \/ n # 1 /\ ~Locks(n) /\ RecordedTo(c)
                \/ Fault /\ RecordedTo(c)
  <1> DEFINE id == calls[c].id
             more == [tries EXCEPT ![id] = Incremented(@)]
             n == more[id].n
             at == IF n = 1 THEN "expireTries" ELSE "lock"
  <1>1. /\ Pending(c) /\ calls[c].counted = 0
        /\ calls[c].at # "idle" /\ id \in Identifiers
    BY RequestType DEF Increment, TimesCounted, Pending
  <1>2. /\ tries \in [Identifiers -> Counter] /\ more \in [Identifiers -> Counter]
        /\ n \in Nat /\ n = tries[id].n + 1
    BY <1>1, CounterType DEF Typed
  <1>3. CASE /\ tries' = more /\ UNCHANGED faults
             /\ n = 1 \/ Locks(n)
             /\ calls' = [calls EXCEPT ![c].n = n, ![c].at = at]
    <2>1. at \in At /\ at \notin Filters /\ TimesCounted(at) = 0
      BY DEF At, Filters, TimesCounted
    <2>2. IF n = 1 THEN at = "expireTries" ELSE at = "lock"
      OBVIOUS
    <2>3. calls' = [calls EXCEPT ![c].n = n, ![c].at = at]
      BY <1>3
    <2> HIDE DEF at, n
    <2>4. Moves(c, at, n, calls[c].second, 0)
      <3>1. Moves(c, at, n, calls[c].second, calls[c].counted)
        BY <1>2, <2>1, <2>3, GoCountedMoves, RequestType
      <3> QED
        BY <1>1, <3>1
    <2>5. CallsTyped'
      BY <1>1, <2>1, <2>4, MovesOK DEF CallsTyped
    <2> QED
      BY <1>1, <1>2, <1>3, <2>2, <2>4, <2>5 DEF n
  <1>4. CASE tries' = more /\ UNCHANGED faults /\ ~(n = 1 \/ Locks(n)) /\ Recorded(c)
    BY <1>1, <1>2, <1>4, RecordedOK DEF RecordedTo
  <1>5. CASE Fault /\ tries' \in {tries, more} /\ Recorded(c)
    BY <1>1, <1>2, <1>5, RecordedOK DEF RecordedTo
  <1> QED
    BY <1>3, <1>4, <1>5 DEF Increment

LEMMA ExpireTriesMoves ==
  ASSUME Typed, NEW c \in Calls, ExpireTries(c)
  PROVE  LET id == calls[c].id
             kept == [tries EXCEPT ![id] = Expiring(@)]
         IN  /\ CallsTyped' /\ tries' \in [Identifiers -> Counter] /\ id \in Identifiers
             /\ tries'[id].n = tries[id].n
             /\ \/ /\ UNCHANGED faults
                   /\ tries' = kept
                   /\ IF Locks(calls[c].n)
                      THEN Moves(c, "lock", calls[c].n, calls[c].second, 0)
                      ELSE RecordedTo(c)
                \/ Fault /\ RecordedTo(c)
  <1> DEFINE id == calls[c].id
             kept == [tries EXCEPT ![id] = Expiring(@)]
  <1>1. Pending(c) /\ calls[c].counted = 0 /\ id \in Identifiers
    BY RequestType DEF ExpireTries, TimesCounted, Pending
  <1>2. /\ tries \in [Identifiers -> Counter] /\ kept \in [Identifiers -> Counter]
        /\ kept[id].n = tries[id].n
    BY <1>1, CounterType DEF Typed
  <1>3. "lock" \in At /\ "lock" \notin Filters /\ TimesCounted("lock") = 0
    BY DEF At, Filters, TimesCounted
  <1>4. CASE /\ tries' = kept /\ UNCHANGED faults
             /\ IF Locks(calls[c].n) THEN Go(c, "lock") ELSE Recorded(c)
    <2>1. CASE Locks(calls[c].n)
      BY <1>1, <1>2, <1>3, <1>4, <2>1, GoOK
    <2>2. CASE ~Locks(calls[c].n)
      BY <1>1, <1>2, <1>4, <2>2, RecordedOK DEF RecordedTo
    <2> QED
      BY <2>1, <2>2
  <1>5. CASE Fault /\ tries' \in {tries, kept} /\ Recorded(c)
    BY <1>1, <1>2, <1>5, RecordedOK DEF RecordedTo
  <1> QED
    BY <1>4, <1>5 DEF ExpireTries

LEMMA IncrementTyped ==
  ASSUME Typed, NEW c \in Calls, Increment(c)
  PROVE  Typed'
  <1>1. CallsTyped' /\ tries' \in [Identifiers -> Counter] /\ faults' \in 0..MaxFaults
    BY IncrementMoves, FaultType DEF Typed
  <1> QED
    BY <1>1 DEF Typed, Increment

LEMMA ExpireTriesTyped ==
  ASSUME Typed, NEW c \in Calls, ExpireTries(c)
  PROVE  Typed'
  <1>1. CallsTyped' /\ tries' \in [Identifiers -> Counter] /\ faults' \in 0..MaxFaults
    BY ExpireTriesMoves, FaultType DEF Typed
  <1> QED
    BY <1>1 DEF Typed, ExpireTries

LEMMA LockTyped ==
  ASSUME Typed, NEW c \in Calls, Lock(c)
  PROVE  Typed'
  <1>1. Pending(c)
    BY DEF Lock, TimesCounted, Pending
  <1>2. CallsTyped'
    BY <1>1, RecordedOK DEF Lock
  <1>3. locked' \subseteq Identifiers /\ faults' \in 0..MaxFaults
    BY FaultType, RequestType DEF Lock, Typed
  <1> QED
    BY <1>2, <1>3 DEF Typed, Lock

LEMMA ResetAttemptsTyped ==
  ASSUME Typed, NEW c \in Calls, ResetAttempts(c)
  PROVE  Typed'
  <1>1. /\ Pending(c)
        /\ "guardAgain" \in At \ Filters /\ TimesCounted("guardAgain") = 0
    BY DEF ResetAttempts, At, Filters, TimesCounted, Pending
  <1>2. CallsTyped'
    BY <1>1, GoOK DEF ResetAttempts
  <1>3. tries' \in [Identifiers -> Counter] /\ wrong' \in [Identifiers -> Nat]
    <2>1. /\ tries \in [Identifiers -> Counter] /\ wrong \in [Identifiers -> Nat]
          /\ [tries EXCEPT ![calls[c].id] = Absent] \in [Identifiers -> Counter]
          /\ [wrong EXCEPT ![calls[c].id] = 0] \in [Identifiers -> Nat]
      BY CounterType DEF Typed
    <2> QED
      BY <2>1 DEF ResetAttempts
  <1>4. faults' \in 0..MaxFaults
    BY FaultType DEF ResetAttempts, Typed
  <1> QED
    BY <1>2, <1>3, <1>4 DEF Typed, ResetAttempts

LEMMA HandleTyped ==
  ASSUME Typed, NEW c \in Calls, Handle(c)
  PROVE  Typed'
  <1>1. /\ Pending(c) /\ {"answered", "failed"} \subseteq At \ Filters
        /\ TimesCounted("answered") = 1 /\ TimesCounted("failed") = 2
    BY DEF Handle, At, Filters, TimesCounted, Pending
  <1>2. CallsTyped'
    BY <1>1, AnswerOK DEF Handle, Intercept
  <1> QED
    BY <1>2 DEF Typed, Handle

LEMMA FinishTyped ==
  ASSUME Typed, NEW c \in Calls, Finish(c)
  PROVE  Typed'
  <1>1. CallsTyped'
    BY IdleType DEF Finish, Typed, CallsTyped
  <1> QED
    BY <1>1 DEF Typed, Finish

LEMMA RedisTyped ==
  ASSUME Typed,
         \/ \E ip \in Ips : HitsExpire(ip) \/ BlockEnds(ip)
         \/ \E id \in Identifiers : TriesExpire(id) \/ LockEnds(id)
         \/ Crash
  PROVE  Typed'
  <1>1. ASSUME NEW ip \in Ips, HitsExpire(ip) \/ BlockEnds(ip) PROVE Typed'
    <2>1. hits' \in [Ips -> Counter] /\ blocked' \subseteq Limited
      BY <1>1, CounterType DEF Typed, HitsExpire, BlockEnds
    <2> QED
      BY <1>1, <2>1 DEF Typed, CallsTyped, HitsExpire, BlockEnds
  <1>2. ASSUME NEW id \in Identifiers, TriesExpire(id) \/ LockEnds(id) PROVE Typed'
    <2>1. /\ tries' \in [Identifiers -> Counter] /\ locked' \subseteq Identifiers
          /\ wrong' \in [Identifiers -> Nat]
      BY <1>2, CounterType DEF Typed, TriesExpire, LockEnds
    <2> QED
      BY <1>2, <2>1 DEF Typed, CallsTyped, TriesExpire, LockEnds
  <1>3. CASE Crash
    <2>1. CallsTyped' /\ faults' \in 0..MaxFaults
      BY <1>3, FaultType, IdleType DEF Crash, CallsTyped
    <2> QED
      BY <1>3, <2>1 DEF Typed, Crash
  <1> QED
    BY <1>1, <1>2, <1>3

LEMMA NextTyped == Typed /\ [Next]_vars => Typed'
  <1> SUFFICES ASSUME Typed, [Next]_vars PROVE Typed'
    OBVIOUS
  <1>1. ASSUME NEW c \in Calls, Step(c) PROVE Typed'
    BY <1>1, CountTyped, ExpireHitsTyped, BlockTyped, AdmitTyped, ThrottleTyped,
       IsAccountLockedTyped, ValidateUserTyped, IncrementTyped, ExpireTriesTyped,
       LockTyped, ResetAttemptsTyped, HandleTyped, FinishTyped DEF Step
  <1>2. CASE UNCHANGED vars
    BY <1>2 DEF Typed, CallsTyped, vars
  <1> QED
    BY <1>1, <1>2, UseTyped, RedisTyped DEF Next

(* Every variable has its type, and a request has been counted as often as   *)
(* where it has come to says.                                                *)
THEOREM AlwaysTyped == Spec => []Typed
  BY InitTyped, NextTyped, PTL DEF Spec

(* Every variable has its type, and a counter that is not there no expiry. *)
THEOREM TypeCorrect == Spec => []TypeOK
  <1>1. ASSUME Typed PROVE TypeOK
    <2>1. \A key \in {hits[ip] : ip \in Ips} \cup {tries[id] : id \in Identifiers} :
             key.n \in Nat /\ key.expires \in BOOLEAN /\ (key.n = 0 => key = Absent)
      <3>1. \A key \in Counter :
               key.n \in Nat /\ key.expires \in BOOLEAN /\ (key.n = 0 => key = Absent)
        BY DEF Counter
      <3> QED
        BY <1>1, <3>1 DEF Typed
    <2>2. \A c \in Calls :
             /\ calls[c].n \in Nat /\ calls[c].counted \in 0..2
             /\ calls[c].at # "idle" => calls[c].id \in Identifiers
      BY <1>1, RequestType DEF Typed, CallsTyped, Request
    <2> QED
      BY <1>1, <2>1, <2>2 DEF TypeOK, Typed, Limited
  <1> QED
    BY <1>1, AlwaysTyped, PTL

(* http_requests counts a request once, but twice when its handler failed    *)
(* and not at all when the filter answered it: MetricsInterceptor and        *)
(* GlobalExceptionFilter both count what a handler throws.                   *)
THEOREM CountsByOutcome == Spec => []CountedByOutcome
  <1>1. ASSUME Typed PROVE CountedByOutcome
    BY <1>1 DEF Typed, CallsTyped, RequestOK, TimesCounted, CountedByOutcome
  <1> QED
    BY <1>1, AlwaysTyped, PTL

-----------------------------------------------------------------------------
(* A counter without an expiry.                                              *)

LEMMA OthersStay ==
  ASSUME NEW c \in Calls, Step(c), NEW e \in Calls \ {c}, Typed
  PROVE  calls'[e] = calls[e]
  BY DEF Typed, CallsTyped, Step, Count, ExpireHits, Block, Admit, Throttle, IsAccountLocked, HasLock,
     ValidateUser, Increment, ExpireTries, Lock, ResetAttempts, Handle, Finish,
     Go, Answer, Thrown, Recorded, Intercept

(* A request acts on the keys of its own identifier only. *)
LEMMA OtherKeysStay ==
  ASSUME Typed, NEW c \in Calls, Step(c), NEW id \in Identifiers, calls[c].id # id
  PROVE  tries'[id] = tries[id] /\ wrong'[id] = wrong[id] /\ (id \in locked' <=> id \in locked)
  BY DEF Typed, CallsTyped, Step, Count, ExpireHits, Block, Admit, Throttle, IsAccountLocked, HasLock,
     ValidateUser, Increment, ExpireTries, Lock, ResetAttempts, Handle, Finish

(* It names its account by the same identifier until it is done. *)
LEMMA StepKeepsId ==
  ASSUME Typed, NEW c \in Calls, Step(c)
  PROVE  calls'[c].id = calls[c].id \/ calls'[c].at = "idle"
  <1>1. calls \in [Calls -> Request] /\ calls[c] \in Request
    BY RequestType
  <1>2. Recorded(c) => calls'[c].id = calls[c].id
    BY <1>1 DEF Request, Recorded, Thrown, Answer
  <1>3. CASE Count(c) \/ ExpireHits(c) \/ Block(c) \/ Admit(c)
    BY <1>1, <1>3 DEF Request, Count, ExpireHits, Block, Admit, Go, Answer, Thrown
  <1>4. CASE Throttle(c) \/ IsAccountLocked(c) \/ ValidateUser(c) \/ ResetAttempts(c)
             \/ Handle(c)
    BY <1>1, <1>4 DEF Request, Throttle, IsAccountLocked, HasLock, ValidateUser, ResetAttempts, Handle,
       Intercept, Go, Answer, Thrown
  <1>5. CASE Increment(c) \/ ExpireTries(c) \/ Lock(c)
    BY <1>1, <1>2, <1>5 DEF Request, Increment, ExpireTries, Lock, Go
  <1>6. CASE Finish(c)
    BY <1>1, <1>6 DEF Finish, Idle
  <1> QED
    BY <1>3, <1>4, <1>5, <1>6 DEF Step

LEMMA FaultsGrow ==
  ASSUME Typed, NEW c \in Calls, Step(c), faults' = 0
  PROVE  faults = 0 /\ ~Fault
  BY FaultType DEF Typed, Step, Count, ExpireHits, Block, Admit, Throttle, IsAccountLocked, HasLock,
     ValidateUser, Increment, ExpireTries, Lock, ResetAttempts, Handle, Finish

(* Without a fault, whoever counts an attempt first is still to set the      *)
(* expiry, whatever the other requests do meanwhile.                         *)
LEMMA TriesWithoutExpiry ==
  ASSUME Typed, NEW c \in Calls, Step(c), faults' = 0, ExpiryLostByFault,
         NEW id \in Identifiers, tries'[id].n > 0, ~tries'[id].expires
  PROVE  \E e \in Calls : calls'[e].at = "expireTries" /\ calls'[e].id = id
  <1>1. faults = 0 /\ ~Fault
    BY FaultsGrow
  <1>2. tries[id].n > 0 /\ ~tries[id].expires =>
           \E e \in Calls : calls[e].at = "expireTries" /\ calls[e].id = id
    BY <1>1 DEF ExpiryLostByFault
  <1>3. tries \in [Identifiers -> Counter] /\ tries[id] \in Counter
    BY DEF Typed
  <1>4. CASE Increment(c) /\ calls[c].id = id
    <2> DEFINE n == Incremented(tries[id]).n
    <2>1. /\ tries'[id] = Incremented(tries[id]) /\ n = tries[id].n + 1
          /\ n = 1 => Moves(c, "expireTries", 1, calls[c].second, 0)
      BY <1>1, <1>3, <1>4, IncrementMoves
    <2>2. CASE n = 1
      BY <1>4, <2>1, <2>2 DEF Moves
    <2>3. CASE n # 1
      <3>1. tries[id].n > 0 /\ ~tries[id].expires
        BY <1>3, <2>1, <2>3, CounterType
      <3>2. calls[c].at # "expireTries"
        BY <1>4 DEF Increment
      <3> QED
        BY <1>2, <3>1, <3>2, OthersStay
    <2> QED
      BY <2>2, <2>3
  <1>5. CASE ExpireTries(c) /\ calls[c].id = id
    <2>1. tries'[id] = Expiring(tries[id]) /\ tries'[id].n = tries[id].n
      BY <1>1, <1>3, <1>5, ExpireTriesMoves
    <2> QED
      BY <1>3, <2>1, CounterType
  <1>6. CASE ResetAttempts(c) /\ calls[c].id = id
    BY <1>1, <1>3, <1>6, CounterType DEF ResetAttempts
  <1>7. CASE calls[c].id # id \/ ~(Increment(c) \/ ExpireTries(c) \/ ResetAttempts(c))
    <2>1. /\ tries'[id] = tries[id]
          /\ calls[c].id # id \/ calls[c].at # "expireTries"
      BY <1>7, OtherKeysStay DEF Step, Count, ExpireHits, Block, Admit, Throttle,
         IsAccountLocked, HasLock, ValidateUser, Lock, Handle, Finish
    <2> QED
      BY <1>2, <2>1, OthersStay
  <1> QED
    BY <1>4, <1>5, <1>6, <1>7

LEMMA HitsWithoutExpiry ==
  ASSUME Typed, NEW c \in Calls, Step(c), faults' = 0, ExpiryLostByFault,
         NEW ip \in Ips, hits'[ip].n > 0, ~hits'[ip].expires
  PROVE  \E e \in Calls : calls'[e].at = "expireHits" /\ calls'[e].ip = ip
  <1>1. faults = 0 /\ ~Fault
    BY FaultsGrow
  <1>2. hits[ip].n > 0 /\ ~hits[ip].expires =>
           \E e \in Calls : calls[e].at = "expireHits" /\ calls[e].ip = ip
    BY <1>1 DEF ExpiryLostByFault
  <1>3. hits \in [Ips -> Counter] /\ calls[c].ip \in Ips \cup {None}
    BY RequestType DEF Typed, CallsTyped, Request
  <1>4. CASE Count(c)
    <2>0. calls[c].at # "expireHits"
      BY <1>4 DEF Count
    <2>1. PICK at \in Filters :
             /\ hits' = [hits EXCEPT ![calls[c].ip] = Incremented(@)]
             /\ hits'[calls[c].ip].n = 1 => at = "expireHits"
             /\ Moves(c, at, hits'[calls[c].ip].n, calls[c].second, 0)
      BY <1>1, <1>4, CountMoves
    <2>2. CASE calls[c].ip = ip /\ hits'[ip].n = 1
      BY <2>1, <2>2 DEF Moves
    <2>3. CASE calls[c].ip = ip /\ hits'[ip].n # 1
      <3>1. hits'[ip] = Incremented(hits[ip])
        BY <1>3, <2>1, <2>3
      <3>2. hits[ip].n > 0 /\ ~hits[ip].expires
        BY <1>3, <2>3, <3>1, CounterType
      <3> QED
        BY <1>2, <2>0, <3>2, OthersStay
    <2>4. CASE calls[c].ip # ip
      BY <1>2, <1>3, <2>0, <2>1, <2>4, OthersStay
    <2> QED
      BY <2>2, <2>3, <2>4
  <1>5. CASE ExpireHits(c)
    <2>1. hits' = [hits EXCEPT ![calls[c].ip] = Expiring(@)]
      BY <1>1, <1>5 DEF ExpireHits
    <2>2. CASE calls[c].ip = ip
      <3>1. hits'[ip] = Expiring(hits[ip])
        BY <1>3, <2>1, <2>2
      <3> QED
        BY <1>3, <3>1, CounterType
    <2>3. CASE calls[c].ip # ip
      <3>1. hits'[ip] = hits[ip]
        BY <1>3, <2>1, <2>3
      <3> QED
        BY <1>2, <2>3, <3>1, OthersStay
    <2> QED
      BY <2>2, <2>3
  <1>6. CASE ~Count(c) /\ ~ExpireHits(c)
    <2>1. hits' = hits /\ calls[c].at # "expireHits"
      BY <1>6 DEF Step, Block, Admit, Throttle, IsAccountLocked, HasLock, ValidateUser, Increment,
         ExpireTries, Lock, ResetAttempts, Handle, Finish
    <2> QED
      BY <1>2, <2>1, OthersStay
  <1> QED
    BY <1>4, <1>5, <1>6

(* A counter stays without an expiry only when a command failed or the       *)
(* process died between INCR and EXPIRE, in IpFilterMiddleware and in        *)
(* recordFailedAttempt alike.                                                *)
THEOREM ExpiryKept == Spec => []ExpiryLostByFault
  <1>1. Init => ExpiryLostByFault
    BY CounterType DEF Init, ExpiryLostByFault
  <1>2. ASSUME Typed, ExpiryLostByFault, [Next]_vars PROVE ExpiryLostByFault'
    <2>1. ASSUME NEW c \in Calls, Step(c) PROVE ExpiryLostByFault'
      BY <1>2, <2>1, TriesWithoutExpiry, HitsWithoutExpiry DEF ExpiryLostByFault
    <2>2. ASSUME NEW c \in Calls, NEW ip \in Ips, NEW id \in Identifiers, Use(c, ip, id)
          PROVE  ExpiryLostByFault'
      <3>1. calls[c].at = "idle" /\ \A e \in Calls \ {c} : calls'[e] = calls[e]
        BY <1>2, <2>2, IdleType DEF Use, Typed, CallsTyped
      <3> QED
        BY <1>2, <2>2, <3>1 DEF ExpiryLostByFault, Use
    <2>3. ASSUME NEW ip \in Ips, HitsExpire(ip) \/ BlockEnds(ip)
          PROVE  ExpiryLostByFault'
      BY <1>2, <2>3, CounterType DEF ExpiryLostByFault, HitsExpire, BlockEnds, Typed
    <2>4. ASSUME NEW id \in Identifiers, TriesExpire(id) PROVE ExpiryLostByFault'
      BY <1>2, <2>4, CounterType DEF ExpiryLostByFault, TriesExpire, Typed
    <2>5. ASSUME NEW id \in Identifiers, LockEnds(id) PROVE ExpiryLostByFault'
      BY <1>2, <2>5 DEF ExpiryLostByFault, LockEnds
    <2>6. CASE Crash
      BY <1>2, <2>6, FaultType DEF ExpiryLostByFault, Crash
    <2>7. CASE UNCHANGED vars
      BY <1>2, <2>7 DEF ExpiryLostByFault, vars
    <2> QED
      BY <1>2, <2>1, <2>2, <2>3, <2>4, <2>5, <2>6, <2>7 DEF Next
  <1> QED
    BY <1>1, <1>2, AlwaysTyped, PTL DEF Spec

-----------------------------------------------------------------------------
(* How many passwords are tried.                                             *)

(* Requests with an identifier that record a failure twice from now, that    *)
(* record one at all from now, that record one or are about to lock it, and  *)
(* that may still find a password wrong.                                     *)
With(id) == {c \in Calls : calls[c].id = id}

ToRecordTwice(id) == {c \in With(id) : calls[c].at = "record" /\ ~calls[c].second}

ToRecord(id) ==
    {c \in With(id) : \/ calls[c].at = "record"
                      \/ calls[c].at \in {"expireTries", "lock"} /\ ~calls[c].second}

Recording(id) ==
    {c \in With(id) : \/ calls[c].at \in {"record", "lock"}
                      \/ calls[c].at = "expireTries" /\ ~calls[c].second}

Checking(id) == {c \in With(id) : calls[c].at = "validate"}

(* A request records for the second time only after a first one. *)
SecondOK ==
    \A c \in Calls :
        calls[c].second => calls[c].at \in {"record", "expireTries", "lock", "refused"}

(* The counter falls behind twice the wrong passwords by no more than is yet *)
(* to be recorded. While an identifier is open the passwords beyond the      *)
(* limit are those of requests that record; once it is locked only the       *)
(* requests that passed the check before can try another.                    *)
Counted(id) ==
    2 * wrong[id] <= tries[id].n + Cardinality(ToRecordTwice(id)) + Cardinality(ToRecord(id))

OpenBound(id) == 2 * wrong[id] <= MaxAttempts - 1 + 2 * Cardinality(Recording(id))

LockedBound(id) ==
    2 * (wrong[id] + Cardinality(Checking(id))) <= MaxAttempts - 1 + 2 * Cardinality(Calls)

Bounds(id) ==
    /\ Counted(id)
    /\ id \notin locked => OpenBound(id)
    /\ id \in locked => LockedBound(id)

GuessInv == faults = 0 => \A id \in Identifiers : Bounds(id)

LEMMA NumberStep ==
  ASSUME NEW c \in Calls, NEW S \in SUBSET Calls, NEW T \in SUBSET Calls,
         \A e \in Calls \ {c} : e \in S <=> e \in T
  PROVE  /\ Cardinality(S) \in Nat /\ Cardinality(T) \in Nat
         /\ Cardinality(T) + (IF c \in S THEN 1 ELSE 0)
               = Cardinality(S) + (IF c \in T THEN 1 ELSE 0)
  <1>1. IsFiniteSet(S) /\ IsFiniteSet(T)
    BY LoginAssumption, FS_Subset
  <1>2. S \ {c} = T \ {c}
    OBVIOUS
  <1>3. Cardinality(S) \in Nat /\ Cardinality(T) \in Nat
    BY <1>1, FS_CardinalityType
  <1>4. /\ Cardinality(S \ {c}) = IF c \in S THEN Cardinality(S) - 1 ELSE Cardinality(S)
        /\ Cardinality(T \ {c}) = IF c \in T THEN Cardinality(T) - 1 ELSE Cardinality(T)
    BY <1>1, FS_RemoveElement
  <1> QED
    BY <1>2, <1>3, <1>4

(* How a step of one request changes the numbers. *)
LEMMA NumbersStep ==
  ASSUME NEW c \in Calls, \A e \in Calls \ {c} : calls'[e] = calls[e], NEW id \in Identifiers
  PROVE  /\ Cardinality(ToRecordTwice(id))' + (IF c \in ToRecordTwice(id) THEN 1 ELSE 0)
               = Cardinality(ToRecordTwice(id)) + (IF c \in ToRecordTwice(id)' THEN 1 ELSE 0)
         /\ Cardinality(ToRecord(id))' + (IF c \in ToRecord(id) THEN 1 ELSE 0)
               = Cardinality(ToRecord(id)) + (IF c \in ToRecord(id)' THEN 1 ELSE 0)
         /\ Cardinality(Recording(id))' + (IF c \in Recording(id) THEN 1 ELSE 0)
               = Cardinality(Recording(id)) + (IF c \in Recording(id)' THEN 1 ELSE 0)
         /\ Cardinality(Checking(id))' + (IF c \in Checking(id) THEN 1 ELSE 0)
               = Cardinality(Checking(id)) + (IF c \in Checking(id)' THEN 1 ELSE 0)
  <1>1. Cardinality(ToRecordTwice(id))' + (IF c \in ToRecordTwice(id) THEN 1 ELSE 0)
          = Cardinality(ToRecordTwice(id)) + (IF c \in ToRecordTwice(id)' THEN 1 ELSE 0)
    <2>1. /\ ToRecordTwice(id) \in SUBSET Calls /\ ToRecordTwice(id)' \in SUBSET Calls
          /\ \A e \in Calls \ {c} : e \in ToRecordTwice(id) <=> e \in ToRecordTwice(id)'
      BY DEF ToRecordTwice, With
    <2> QED
      BY <2>1, NumberStep
  <1>2. Cardinality(ToRecord(id))' + (IF c \in ToRecord(id) THEN 1 ELSE 0)
          = Cardinality(ToRecord(id)) + (IF c \in ToRecord(id)' THEN 1 ELSE 0)
    <2>1. /\ ToRecord(id) \in SUBSET Calls /\ ToRecord(id)' \in SUBSET Calls
          /\ \A e \in Calls \ {c} : e \in ToRecord(id) <=> e \in ToRecord(id)'
      BY DEF ToRecord, With
    <2> QED
      BY <2>1, NumberStep
  <1>3. Cardinality(Recording(id))' + (IF c \in Recording(id) THEN 1 ELSE 0)
          = Cardinality(Recording(id)) + (IF c \in Recording(id)' THEN 1 ELSE 0)
    <2>1. /\ Recording(id) \in SUBSET Calls /\ Recording(id)' \in SUBSET Calls
          /\ \A e \in Calls \ {c} : e \in Recording(id) <=> e \in Recording(id)'
      BY DEF Recording, With
    <2> QED
      BY <2>1, NumberStep
  <1>4. Cardinality(Checking(id))' + (IF c \in Checking(id) THEN 1 ELSE 0)
          = Cardinality(Checking(id)) + (IF c \in Checking(id)' THEN 1 ELSE 0)
    <2>1. /\ Checking(id) \in SUBSET Calls /\ Checking(id)' \in SUBSET Calls
          /\ \A e \in Calls \ {c} : e \in Checking(id) <=> e \in Checking(id)'
      BY DEF Checking, With
    <2> QED
      BY <2>1, NumberStep
  <1> QED
    BY <1>1, <1>2, <1>3, <1>4

Nested(id) ==
    /\ Cardinality(ToRecordTwice(id)) \in Nat /\ Cardinality(ToRecord(id)) \in Nat
    /\ Cardinality(Recording(id)) \in Nat /\ Cardinality(Checking(id)) \in Nat
    /\ Cardinality(Calls) \in Nat
    /\ Cardinality(ToRecordTwice(id)) <= Cardinality(ToRecord(id))
    /\ Cardinality(ToRecord(id)) <= Cardinality(Recording(id))
    /\ Cardinality(Recording(id)) + Cardinality(Checking(id)) <= Cardinality(Calls)

AllNested == \A id \in Identifiers : Nested(id)

LEMMA NumbersNested == AllNested
  <1> SUFFICES ASSUME NEW id \in Identifiers PROVE Nested(id)
    BY DEF AllNested
  <1>1. IsFiniteSet(Calls)
    BY LoginAssumption
  <1>2. /\ ToRecordTwice(id) \in SUBSET ToRecord(id) /\ ToRecord(id) \in SUBSET Recording(id)
        /\ Recording(id) \in SUBSET Calls /\ Checking(id) \in SUBSET Calls
    BY DEF ToRecordTwice, ToRecord, Recording, Checking, With
  <1>3. IsFiniteSet(Recording(id)) /\ IsFiniteSet(Checking(id))
    BY <1>1, <1>2, FS_Subset
  <1>4. IsFiniteSet(ToRecord(id)) /\ Cardinality(ToRecord(id)) <= Cardinality(Recording(id))
    BY <1>2, <1>3, FS_Subset
  <1>5. /\ IsFiniteSet(ToRecordTwice(id))
        /\ Cardinality(ToRecordTwice(id)) <= Cardinality(ToRecord(id))
    BY <1>2, <1>4, FS_Subset
  <1>6. /\ Cardinality(ToRecordTwice(id)) \in Nat /\ Cardinality(ToRecord(id)) \in Nat
        /\ Cardinality(Recording(id)) \in Nat /\ Cardinality(Checking(id)) \in Nat
        /\ Cardinality(Calls) \in Nat
    BY <1>1, <1>3, <1>4, <1>5, FS_CardinalityType
  <1>7. Cardinality(Recording(id) \cup Checking(id))
          = Cardinality(Recording(id)) + Cardinality(Checking(id))
    <2>1. Recording(id) \cap Checking(id) = {}
      BY DEF Recording, Checking
    <2>2. Cardinality(Recording(id) \cup Checking(id)) = Cardinality(Recording(id))
             + Cardinality(Checking(id)) - Cardinality(Recording(id) \cap Checking(id))
      BY <1>3, FS_Union
    <2>3. Cardinality(Recording(id) \cap Checking(id)) = 0
      BY <2>1, FS_EmptySet
    <2> QED
      BY <1>6, <2>2, <2>3
  <1>8. Cardinality(Recording(id) \cup Checking(id)) <= Cardinality(Calls)
    BY <1>1, <1>2, FS_Subset
  <1> QED
    BY <1>4, <1>5, <1>6, <1>7, <1>8 DEF Nested

(* The steps that neither check a password nor record a failure. *)
Watched == {"validate", "record", "expireTries", "lock"}

Recorder(c) ==
    IsAccountLocked(c) \/ ValidateUser(c) \/ Increment(c) \/ ExpireTries(c) \/ Lock(c)

LEMMA QuietStep ==
  ASSUME Typed, NEW c \in Calls, Step(c), ~Recorder(c)
  PROVE  /\ calls[c].at \notin Watched /\ calls'[c].at \notin Watched
         /\ calls'[c].second => calls[c].second /\ calls[c].at # "refused"
         /\ ResetAttempts(c) \/ UNCHANGED <<tries, wrong>>
         /\ UNCHANGED locked
  BY DEF Typed, CallsTyped, Request, Watched, Recorder, Step, Count, ExpireHits, Block, Admit,
     Throttle, ResetAttempts, Handle, Finish, Go, Answer, Thrown, Idle, Intercept

LEMMA SecondStep ==
  ASSUME Typed, SecondOK, [Next]_vars
  PROVE  SecondOK'
  <1>1. ASSUME NEW c \in Calls, Step(c) PROVE SecondOK'
    <2>1. calls'[c].second => calls'[c].at \in {"record", "expireTries", "lock", "refused"}
      <3>1. CASE ~Recorder(c)
        <4>1. ~calls'[c].second
          BY <1>1, <3>1, QuietStep DEF SecondOK, Watched
        <4> QED
          BY <4>1
      <3>2. CASE IsAccountLocked(c)
        BY <3>2 DEF IsAccountLocked, HasLock, SecondOK, Typed, CallsTyped, Request, Thrown, Answer, Go
      <3>3. CASE ValidateUser(c)
        <4>1. calls[c].at = "validate" /\ ~calls[c].second
          BY <3>3 DEF ValidateUser, SecondOK
        <4> QED
          BY <3>3, <4>1, ValidateUserMoves DEF Moves
      <3>4. CASE Increment(c)
        BY <3>4, IncrementMoves DEF Moves, RecordedTo
      <3>5. CASE ExpireTries(c)
        BY <3>5, ExpireTriesMoves DEF Moves, RecordedTo
      <3>6. CASE Lock(c)
        <4>1. Pending(c)
          BY <3>6 DEF Lock, TimesCounted, Pending
        <4>2. RecordedTo(c)
          BY <3>6, <4>1, RecordedOK DEF Lock, RecordedTo
        <4> QED
          BY <4>2 DEF Moves, RecordedTo
      <3> QED
        BY <3>1, <3>2, <3>3, <3>4, <3>5, <3>6 DEF Recorder
    <2> QED
      BY <1>1, <2>1, OthersStay DEF SecondOK
  <1>2. ASSUME NEW c \in Calls, NEW ip \in Ips, NEW id \in Identifiers, Use(c, ip, id)
        PROVE  SecondOK'
    BY <1>2 DEF Use, SecondOK, Typed, CallsTyped, Idle
  <1>3. CASE Crash
    BY <1>3 DEF Crash, SecondOK, Idle
  <1>4. CASE UNCHANGED calls
    BY <1>4 DEF SecondOK
  <1> QED
    BY <1>1, <1>2, <1>3, <1>4
       DEF Next, HitsExpire, BlockEnds, TriesExpire, LockEnds, vars

(* What a step without a fault starts from. *)
LEMMA BoundsStart ==
  ASSUME Typed, GuessInv, faults = 0, NEW id \in Identifiers
  PROVE  /\ Bounds(id) /\ Nested(id) /\ Nested(id)'
         /\ wrong[id] \in Nat /\ tries[id].n \in Nat
         /\ MaxAttempts \in Nat /\ MaxAttempts > 0
  <1>1. AllNested /\ AllNested'
    BY NumbersNested, PTL
  <1>2. wrong[id] \in Nat /\ tries[id].n \in Nat
    BY CounterType DEF Typed
  <1>3. MaxAttempts \in Nat /\ MaxAttempts > 0
    BY LoginAssumption
  <1> QED
    BY <1>1, <1>2, <1>3 DEF GuessInv, AllNested

(* The wrong password and its request are one more on either side; a locked  *)
(* identifier had foreseen it.                                               *)
LEMMA ValidateUserBounds ==
  ASSUME Typed, SecondOK, GuessInv, faults = 0, NEW c \in Calls, ValidateUser(c),
         NEW id \in Identifiers, calls[c].id = id
  PROVE  Bounds(id)'
  <1>1. /\ calls[c].at = "validate" /\ ~calls[c].second
        /\ UNCHANGED <<tries, locked>>
        /\ \A e \in Calls \ {c} : calls'[e] = calls[e]
    BY OthersStay DEF ValidateUser, SecondOK, Step
  <1>2. /\ c \notin ToRecordTwice(id) /\ c \notin ToRecord(id) /\ c \notin Recording(id)
        /\ c \in Checking(id)
    BY <1>1 DEF ToRecordTwice, ToRecord, Recording, Checking, With
  <1>3. /\ wrong \in [Identifiers -> Nat]
        /\ [wrong EXCEPT ![calls[c].id] = @ + 1][id] = wrong[id] + 1
    BY DEF Typed
  <1>4. \/ /\ wrong'[id] = wrong[id]
           /\ c \notin Checking(id)'
        \/ /\ wrong'[id] = wrong[id] + 1
           /\ c \in ToRecordTwice(id)' /\ c \in ToRecord(id)' /\ c \in Recording(id)'
           /\ c \notin Checking(id)'
    BY <1>1, <1>3, ValidateUserMoves
       DEF Moves, ToRecordTwice, ToRecord, Recording, Checking, With
  <1> QED
    BY <1>1, <1>2, <1>4, NumbersStep, BoundsStart
       DEF Bounds, Counted, OpenBound, LockedBound, Nested

(* A request that is done has recorded twice: half of what the counter shows *)
(* were wrong passwords, up to one more under way.                           *)
LEMMA IncrementBounds ==
  ASSUME Typed, SecondOK, GuessInv, faults = 0, NEW c \in Calls, Increment(c), ~Fault,
         NEW id \in Identifiers, calls[c].id = id
  PROVE  Bounds(id)'
  <1> DEFINE n == tries[id].n + 1
  <1>1. /\ calls[c].at = "record" /\ UNCHANGED <<wrong, locked>>
        /\ \A e \in Calls \ {c} : calls'[e] = calls[e]
    BY OthersStay DEF Increment, Step
  <1>2. /\ c \in ToRecordTwice(id) <=> ~calls[c].second
        /\ c \in ToRecord(id) /\ c \in Recording(id) /\ c \notin Checking(id)
    BY <1>1 DEF ToRecordTwice, ToRecord, Recording, Checking, With
  <1>3. /\ tries'[id].n = n
        /\ \/ n = 1 /\ Moves(c, "expireTries", 1, calls[c].second, 0)
           \/ n # 1 /\ Locks(n) /\ Moves(c, "lock", n, calls[c].second, 0)
           \/ n # 1 /\ ~Locks(n) /\ RecordedTo(c)
    BY IncrementMoves DEF Typed
  <1>4. c \notin ToRecordTwice(id)' /\ c \notin Checking(id)'
    BY <1>3 DEF Moves, RecordedTo, ToRecordTwice, Checking, With
  <1>5. c \in ToRecord(id)' <=> ~calls[c].second
    BY <1>3 DEF Moves, RecordedTo, ToRecord, With
  <1>6. Counted(id)'
    BY <1>1, <1>2, <1>3, <1>4, <1>5, NumbersStep, BoundsStart DEF Bounds, Counted, Nested
  <1>7. c \in Recording(id)' \/ n = 1 \/ n < MaxAttempts
    <2>1. CASE n = 1 \/ ~Locks(n)
      BY <2>1, BoundsStart DEF Locks
    <2>2. CASE n # 1 /\ Locks(n)
      BY <1>3, <2>2 DEF Moves, Recording, With
    <2> QED
      BY <2>1, <2>2
  <1>8. id \notin locked' => OpenBound(id)'
    <2> SUFFICES ASSUME id \notin locked' PROVE OpenBound(id)'
      OBVIOUS
    <2>1. CASE c \in Recording(id)'
      BY <1>1, <1>2, <2>1, NumbersStep, BoundsStart DEF Bounds, OpenBound, Nested
    <2>2. CASE n = 1 \/ n < MaxAttempts
      <3>1. 2 * wrong'[id] <= n + 2 * Cardinality(Recording(id))'
        BY <1>1, <1>3, <1>6, BoundsStart DEF Counted, Nested
      <3> QED
        BY <1>1, <2>2, <3>1, BoundsStart DEF OpenBound, Nested
    <2> QED
      BY <1>7, <2>1, <2>2
  <1>9. id \in locked' => LockedBound(id)'
    BY <1>1, <1>2, <1>4, NumbersStep, BoundsStart DEF Bounds, LockedBound, Nested
  <1> QED
    BY <1>6, <1>8, <1>9 DEF Bounds

LEMMA ExpireTriesBounds ==
  ASSUME Typed, SecondOK, GuessInv, faults = 0, NEW c \in Calls, ExpireTries(c), ~Fault,
         NEW id \in Identifiers, calls[c].id = id
  PROVE  Bounds(id)'
  <1>1. /\ calls[c].at = "expireTries" /\ UNCHANGED <<wrong, locked>>
        /\ \A e \in Calls \ {c} : calls'[e] = calls[e]
    BY OthersStay DEF ExpireTries, Step
  <1>2. /\ c \notin ToRecordTwice(id) /\ c \notin Checking(id)
        /\ c \in ToRecord(id) <=> ~calls[c].second
        /\ c \in Recording(id) <=> ~calls[c].second
    BY <1>1 DEF ToRecordTwice, ToRecord, Recording, Checking, With
  <1>3. tries'[id].n = tries[id].n
    BY ExpireTriesMoves
  <1>4. /\ c \notin ToRecordTwice(id)' /\ c \notin Checking(id)'
        /\ c \in ToRecord(id)' <=> ~calls[c].second
        /\ ~calls[c].second => c \in Recording(id)'
    BY ExpireTriesMoves
       DEF Moves, RecordedTo, ToRecordTwice, ToRecord, Recording, Checking, With
  <1> QED
    BY <1>1, <1>2, <1>3, <1>4, NumbersStep, BoundsStart
       DEF Bounds, Counted, OpenBound, LockedBound, Nested

(* SET: the requests that record are apart from those that still check.      *)
LEMMA LockBounds ==
  ASSUME Typed, SecondOK, GuessInv, faults = 0, NEW c \in Calls, Lock(c), ~Fault,
         NEW id \in Identifiers, calls[c].id = id
  PROVE  Bounds(id)'
  <1>1. /\ calls[c].at = "lock" /\ UNCHANGED <<wrong, tries>> /\ id \in locked'
        /\ \A e \in Calls \ {c} : calls'[e] = calls[e]
    BY OthersStay DEF Lock, Step
  <1>2. /\ c \notin ToRecordTwice(id) /\ c \notin Checking(id)
        /\ c \in ToRecord(id) <=> ~calls[c].second
    BY <1>1 DEF ToRecordTwice, ToRecord, Checking, With
  <1>3. RecordedTo(c)
    <2>1. Pending(c)
      BY <1>1 DEF TimesCounted, Pending
    <2> QED
      BY <2>1, RecordedOK DEF Lock, RecordedTo
  <1>4. /\ c \notin ToRecordTwice(id)' /\ c \notin Checking(id)'
        /\ c \in ToRecord(id)' <=> ~calls[c].second
    BY <1>3 DEF Moves, RecordedTo, ToRecordTwice, ToRecord, Checking, With
  <1>5. LockedBound(id)
    BY BoundsStart DEF Bounds, OpenBound, LockedBound, Nested
  <1> QED
    BY <1>1, <1>2, <1>4, <1>5, NumbersStep, BoundsStart
       DEF Bounds, Counted, LockedBound, Nested

LEMMA IsAccountLockedBounds ==
  ASSUME Typed, SecondOK, GuessInv, faults = 0, NEW c \in Calls, IsAccountLocked(c), ~Fault,
         NEW id \in Identifiers, calls[c].id = id
  PROVE  Bounds(id)'
  <1>1. /\ calls[c].at = "isLocked" /\ UNCHANGED <<wrong, tries, locked>>
        /\ \A e \in Calls \ {c} : calls'[e] = calls[e]
    BY OthersStay DEF IsAccountLocked, HasLock, Step
  <1>2. /\ calls'[c].at \in {"validate", "refused"}
        /\ id \in locked => calls'[c].at = "refused"
    <2>1. Pending(c) /\ "validate" \in At \ Filters /\ TimesCounted("validate") = 0
      BY <1>1 DEF At, Filters, TimesCounted, Pending
    <2>2. CASE id \in locked
      <3>1. Thrown(c, "refused")
        BY <2>2 DEF IsAccountLocked, HasLock
      <3>2. Moves(c, "refused", 0, calls[c].second, 1)
        BY <2>1, <3>1, ThrownOK
      <3> QED
        BY <3>2 DEF Moves
    <2>3. CASE id \notin locked
      <3>1. Go(c, "validate")
        BY <2>3 DEF IsAccountLocked, HasLock
      <3>2. Moves(c, "validate", calls[c].n, calls[c].second, 0)
        BY <2>1, <3>1, GoOK
      <3> QED
        BY <2>3, <3>2 DEF Moves
    <2> QED
      BY <2>2, <2>3
  <1>3. /\ c \notin ToRecordTwice(id) /\ c \notin ToRecord(id) /\ c \notin Recording(id)
        /\ c \notin Checking(id)
    BY <1>1 DEF ToRecordTwice, ToRecord, Recording, Checking
  <1>4. /\ c \notin ToRecordTwice(id)' /\ c \notin ToRecord(id)' /\ c \notin Recording(id)'
        /\ id \in locked => c \notin Checking(id)'
    BY <1>2 DEF ToRecordTwice, ToRecord, Recording, Checking
  <1> QED
    BY <1>1, <1>3, <1>4, NumbersStep, BoundsStart
       DEF Bounds, Counted, OpenBound, LockedBound, Nested

(* A step that does not concern a password tried with the identifier, and    *)
(* one that starts anew.                                                     *)
LEMMA UnwatchedBounds ==
  ASSUME Typed, GuessInv, faults = 0, NEW c \in Calls,
         \A e \in Calls \ {c} : calls'[e] = calls[e], NEW id \in Identifiers,
         calls[c].id # id \/ calls[c].at \notin Watched,
         calls'[c].id # id \/ calls'[c].at \notin Watched,
         tries'[id] = tries[id], wrong'[id] = wrong[id], id \in locked' <=> id \in locked
  PROVE  Bounds(id)'
  <1>1. /\ c \notin ToRecordTwice(id) /\ c \notin ToRecord(id) /\ c \notin Recording(id)
        /\ c \notin Checking(id)
    BY DEF ToRecordTwice, ToRecord, Recording, Checking, Watched, With
  <1>2. /\ c \notin ToRecordTwice(id)' /\ c \notin ToRecord(id)' /\ c \notin Recording(id)'
        /\ c \notin Checking(id)'
    BY DEF ToRecordTwice, ToRecord, Recording, Checking, Watched, With
  <1> QED
    BY <1>1, <1>2, NumbersStep, BoundsStart
       DEF Bounds, Counted, OpenBound, LockedBound, Nested

LEMMA AnewBounds ==
  ASSUME Typed, NEW id \in Identifiers, wrong'[id] = 0, tries'[id] \in Counter
  PROVE  Bounds(id)'
  <1>1. AllNested'
    BY NumbersNested, PTL
  <1>2. MaxAttempts \in Nat /\ MaxAttempts > 0 /\ tries'[id].n \in Nat
    BY LoginAssumption, CounterType
  <1> QED
    BY <1>1, <1>2 DEF Bounds, Counted, OpenBound, LockedBound, Nested, AllNested

LEMMA StepBounds ==
  ASSUME Typed, SecondOK, GuessInv, NEW c \in Calls, Step(c), faults' = 0,
         NEW id \in Identifiers
  PROVE  Bounds(id)'
  <1>1. faults = 0 /\ ~Fault
    BY FaultsGrow
  <1>2. CASE Recorder(c) /\ calls[c].id = id
    BY <1>1, <1>2, IsAccountLockedBounds, ValidateUserBounds, IncrementBounds,
       ExpireTriesBounds, LockBounds DEF Recorder
  <1>3. CASE ~Recorder(c) /\ ~ResetAttempts(c)
    <2>1. /\ \A e \in Calls \ {c} : calls'[e] = calls[e]
          /\ calls[c].at \notin Watched /\ calls'[c].at \notin Watched
          /\ UNCHANGED <<tries, wrong, locked>>
      BY <1>3, OthersStay, QuietStep
    <2> QED
      BY <1>1, <2>1, UnwatchedBounds
  <1>4. CASE ResetAttempts(c) /\ calls[c].id = id
    <2>1. wrong'[id] = 0 /\ tries'[id] = Absent
      BY <1>1, <1>4 DEF ResetAttempts, Typed
    <2> QED
      BY <2>1, AnewBounds, CounterType
  <1>5. CASE calls[c].id # id
    <2>1. /\ \A e \in Calls \ {c} : calls'[e] = calls[e]
          /\ calls'[c].id # id \/ calls'[c].at \notin Watched
      BY <1>5, OthersStay, StepKeepsId DEF Watched
    <2> QED
      BY <1>1, <1>5, <2>1, OtherKeysStay, UnwatchedBounds
  <1> QED
    BY <1>2, <1>3, <1>4, <1>5

LEMMA NextBounds ==
  ASSUME Typed, SecondOK, GuessInv, [Next]_vars, faults' = 0, NEW id \in Identifiers
  PROVE  Bounds(id)'
  <1>1. ASSUME NEW c \in Calls, Step(c) PROVE Bounds(id)'
    BY <1>1, StepBounds
  <1>2. ASSUME NEW c \in Calls, NEW ip \in Ips, NEW i \in Identifiers, Use(c, ip, i)
        PROVE  Bounds(id)'
    <2>1. faults = 0 /\ UNCHANGED <<tries, wrong, locked>>
      BY <1>2 DEF Use
    <2>2. /\ \A e \in Calls \ {c} : calls'[e] = calls[e]
          /\ calls[c].at \notin Watched /\ calls'[c].at \notin Watched
      BY <1>2 DEF Use, Idle, Watched, Typed, CallsTyped
    <2> QED
      BY <2>1, <2>2, UnwatchedBounds
  <1>3. CASE UNCHANGED <<calls, faults>> /\ tries'[id] = tries[id]
             /\ wrong'[id] = wrong[id] /\ (id \in locked' <=> id \in locked)
    BY <1>3, BoundsStart DEF Bounds, Counted, OpenBound, LockedBound,
       ToRecordTwice, ToRecord, Recording, Checking, With
  <1>4. ASSUME NEW i \in Identifiers, TriesExpire(i) \/ LockEnds(i) PROVE Bounds(id)'
    <2>1. CASE i = id
      <3>1. wrong'[id] = 0 /\ tries'[id] \in Counter
        BY <1>4, <2>1, CounterType DEF TriesExpire, LockEnds, Typed
      <3> QED
        BY <3>1, AnewBounds
    <2>2. CASE i # id
      BY <1>3, <1>4, <2>2 DEF TriesExpire, LockEnds, Typed
    <2> QED
      BY <2>1, <2>2
  <1>5. ~Crash
    BY FaultType DEF Crash
  <1> QED
    BY <1>1, <1>2, <1>3, <1>4, <1>5 DEF Next, HitsExpire, BlockEnds, vars

GuessesInv == SecondOK /\ GuessInv

LEMMA AlwaysGuessesInv == Spec => [](Typed /\ GuessesInv)
  <1>1. Init => GuessesInv
    <2> SUFFICES ASSUME Init PROVE GuessesInv
      OBVIOUS
    <2>1. SecondOK
      BY DEF Init, SecondOK, Idle
    <2>2. MaxAttempts \in Nat /\ MaxAttempts > 0 /\ \A id \in Identifiers : Nested(id)
      BY NumbersNested, LoginAssumption DEF AllNested
    <2>3. \A id \in Identifiers : tries[id].n \in Nat /\ wrong[id] = 0 /\ id \notin locked
      BY CounterType DEF Init
    <2>4. GuessInv
      BY <2>2, <2>3 DEF GuessInv, Bounds, Counted, OpenBound, Nested
    <2> QED
      BY <2>1, <2>4 DEF GuessesInv
  <1>2. Typed /\ GuessesInv /\ [Next]_vars => GuessesInv'
    <2> SUFFICES ASSUME Typed, GuessesInv, [Next]_vars PROVE GuessesInv'
      OBVIOUS
    <2>1. SecondOK'
      BY SecondStep DEF GuessesInv
    <2>2. faults' = 0 => \A id \in Identifiers : Bounds(id)'
      BY NextBounds DEF GuessesInv
    <2>3. GuessInv'
      BY <2>2 DEF GuessInv
    <2> QED
      BY <2>1, <2>3 DEF GuessesInv
  <1> QED
    BY <1>1, <1>2, AlwaysTyped, PTL DEF Spec

(* Without faults, no more passwords than half of MAX_ATTEMPTS, and one for  *)
(* every other request under way, are tried with one identifier before it is *)
(* locked, however the requests interleave in LocalStrategy and              *)
(* recordFailedAttempt, and whatever other identifiers of the same account   *)
(* they use meanwhile. It is a bound for each identifier, as the keys are:   *)
(* an account that k identifiers find can be tried k times as often.         *)
THEOREM GuessesLimited == Spec => []GuessesBounded
  <1>1. ASSUME Typed, GuessesInv PROVE GuessesBounded
    <2> SUFFICES ASSUME NEW id \in Identifiers, faults = 0
                 PROVE  wrong[id] <= (MaxAttempts + 1) \div 2 + Cardinality(Calls) - 1
      BY DEF GuessesBounded
    <2>1. /\ Bounds(id) /\ Nested(id) /\ wrong[id] \in Nat
          /\ MaxAttempts \in Nat /\ MaxAttempts > 0
      BY <1>1, BoundsStart DEF GuessesInv
    <2>2. 2 * wrong[id] <= MaxAttempts - 1 + 2 * Cardinality(Calls)
      BY <2>1 DEF Bounds, OpenBound, LockedBound, Nested
    <2> QED
      BY <2>1, <2>2 DEF Nested
  <1> QED
    BY <1>1, AlwaysGuessesInv, PTL

=============================================================================
