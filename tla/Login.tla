------------------------------- MODULE Login -------------------------------
(***************************************************************************)
(* What a request to log in passes before and after its password is        *)
(* checked: IpFilterMiddleware, the throttler, LocalStrategy with          *)
(* AccountLockoutService, the handler of AuthController, and the counting  *)
(* of requests by MetricsInterceptor and GlobalExceptionFilter. All        *)
(* limits are counters and flags in Redis, changed by one command at a     *)
(* time, so that requests from everywhere interleave between commands.     *)
(*                                                                         *)
(* A request names its account by an identifier: an email in any spelling, *)
(* or a phone number. Many identifiers find one account, but attempts are  *)
(* counted and locked under the identifier as it was sent, so that every   *)
(* limit on attempts is one for each identifier and none for an account.   *)
(*                                                                         *)
(* The requests of a behaviour come from one address: addresses share      *)
(* nothing but those keys, on which requests from a whitelisted one act in *)
(* any order. Which password a request brings is the outcome of its check. *)
(* One action is the code between two awaits.                              *)
(***************************************************************************)
EXTENDS Naturals, FiniteSets

CONSTANTS
    Ips,           \* client addresses
    Whitelist,     \* IP_WHITELIST
    Blacklist,     \* IP_BLACKLIST
    Identifiers,   \* what requests name an account by
    AccountOf,     \* the account found for an identifier, or None
    Calls,         \* slots for requests under way
    MaxPerMinute,  \* MAX_REQUESTS_PER_MINUTE
    MaxAttempts,   \* MAX_ATTEMPTS
    None,          \* no address, identifier or account
    MaxRequests,   \* bound: requests that arrive, for each address
    MaxFaults      \* bound: Redis commands that fail, and crashes

ASSUME LoginAssumption ==
    /\ Whitelist \subseteq Ips /\ Blacklist \subseteq Ips
    /\ {MaxPerMinute, MaxAttempts} \subseteq Nat \ {0}
    /\ MaxRequests \in [Ips -> Nat] /\ MaxFaults \in Nat
    /\ None \notin Ips \cup Identifiers /\ IsFiniteSet(Calls)
    /\ DOMAIN AccountOf = Identifiers

VARIABLES
    hits,     \* ip:<ip>:requests: its value and whether it has an expiry
    blocked,  \* addresses with a key ip:<ip>:blocked
    tries,    \* login_attempts:<identifier>, like hits
    locked,   \* identifiers with a key account_locked:<identifier>
    calls,    \* requests
    arrived,  \* number of requests so far
    faults,   \* number of failed commands and crashes so far
    from,     \* bound: the address the requests of this behaviour come from
    wrong     \* history: wrong passwords that came with an identifier since its
              \* lock or counter last went away

vars == <<hits, blocked, tries, locked, calls, arrived, faults, from, wrong>>

(* A key of Redis that is not there, or a counter. *)
Absent == [n |-> 0, expires |-> FALSE]

Idle == [at |-> "idle", ip |-> None, id |-> None, n |-> 0, second |-> FALSE, counted |-> 0]

Go(c, at) == calls' = [calls EXCEPT ![c].at = at]

(* An answer is sent; the metrics have counted the request so many times. *)
Answer(c, at, times) ==
    calls' = [calls EXCEPT ![c].at = at, ![c].counted = @ + times, ![c].n = 0]

(* GlobalExceptionFilter: what is thrown is counted and answered. *)
Thrown(c, at) == Answer(c, at, 1)

(* A command throws, whether or not Redis has executed it: the client gives  *)
(* up after three tries.                                                     *)
Fault == faults < MaxFaults /\ faults' = faults + 1

(* INCR and EXPIRE. *)
Incremented(key) == [key EXCEPT !.n = @ + 1]
Expiring(key) == IF key = Absent THEN key ELSE [key EXCEPT !.expires = TRUE]

-----------------------------------------------------------------------------
(* Mutant: every request is counted first. *)
UseCountsAll(c, ip, id) ==
    /\ calls[c] = Idle
    /\ ip = from
    /\ arrived < MaxRequests[ip]
    /\ arrived' = arrived + 1
    /\ calls' = [calls EXCEPT ![c] = [Idle EXCEPT !.ip = ip, !.id = id, !.at = "count"]]
    /\ UNCHANGED <<hits, blocked, tries, locked, faults, wrong, from>>

(* IpFilterMiddleware.use, up to its first command. A blacklisted address is *)
(* answered at once.                                                         *)
Use(c, ip, id) ==
    /\ calls[c] = Idle
    /\ ip = from
    /\ arrived < MaxRequests[ip]
    /\ arrived' = arrived + 1
    /\ calls' = [calls EXCEPT ![c] = [Idle EXCEPT !.ip = ip, !.id = id, !.at =
          IF ip \in Whitelist THEN "guards"
          ELSE IF ip \in Blacklist THEN "filtered" ELSE "count"]]
    /\ UNCHANGED <<hits, blocked, tries, locked, faults, wrong, from>>

(* INCR, whose answer the rest of the middleware goes by. *)
Count(c) ==
    LET ip == calls[c].ip IN
    /\ calls[c].at = "count"
    /\ \/ /\ hits' = [hits EXCEPT ![ip] = Incremented(@)]
          /\ calls' = [calls EXCEPT ![c].n = hits'[ip].n, ![c].at =
                IF hits'[ip].n = 1 THEN "expireHits"
                ELSE IF hits'[ip].n > MaxPerMinute THEN "block" ELSE "admit"]
          /\ UNCHANGED faults
       \/ /\ Fault
          /\ hits' \in {hits, [hits EXCEPT ![ip] = Incremented(@)]}
          /\ Thrown(c, "error")
    /\ UNCHANGED <<blocked, tries, locked, arrived, wrong, from>>

(* The first request of a window gives the counter its 60 seconds. *)
ExpireHits(c) ==
    LET ip == calls[c].ip IN
    /\ calls[c].at = "expireHits"
    /\ \/ /\ hits' = [hits EXCEPT ![ip] = Expiring(@)]
          /\ Go(c, IF calls[c].n > MaxPerMinute THEN "block" ELSE "admit")
          /\ UNCHANGED faults
       \/ /\ Fault
          /\ hits' \in {hits, [hits EXCEPT ![ip] = Expiring(@)]}
          /\ Thrown(c, "error")
    /\ UNCHANGED <<blocked, tries, locked, arrived, wrong, from>>

(* A request beyond the limit blocks its address, for 300 seconds from now, *)
(* and is answered without the metrics.                                     *)
Block(c) ==
    /\ calls[c].at = "block"
    /\ \/ /\ blocked' = blocked \cup {calls[c].ip}
          /\ Answer(c, "filtered", 0)
          /\ UNCHANGED faults
       \/ /\ Fault
          /\ blocked' \in {blocked, blocked \cup {calls[c].ip}}
          /\ Thrown(c, "error")
    /\ UNCHANGED <<hits, tries, locked, arrived, wrong, from>>

(* Any other one is let through unless the address is blocked. *)
Admit(c) ==
    /\ calls[c].at = "admit"
    /\ \/ /\ IF calls[c].ip \in blocked THEN Answer(c, "filtered", 0)
             ELSE calls' = [calls EXCEPT ![c].at = "guards", ![c].n = 0]
          /\ UNCHANGED faults
       \/ Fault /\ Thrown(c, "error")
    /\ UNCHANGED <<hits, blocked, tries, locked, arrived, wrong, from>>

-----------------------------------------------------------------------------
(* The throttler keeps its counters in the process's memory and lets a       *)
(* request pass or not; it is asked before LocalAuthGuard and again after.   *)
Throttle(c) ==
    /\ \/ calls[c].at = "guards" /\ Go(c, "isLocked")
       \/ calls[c].at = "guardAgain" /\ Go(c, "handler")
       \/ calls[c].at \in {"guards", "guardAgain"} /\ Thrown(c, "refused")
    /\ UNCHANGED <<hits, blocked, tries, locked, arrived, faults, wrong, from>>

HasLock(id) == id \in locked

(* LocalStrategy.validate: a locked identifier is refused before the try     *)
(* block. A failing command counts as not locked.                            *)
IsAccountLocked(c) ==
    /\ calls[c].at = "isLocked"
    /\ \/ /\ IF HasLock(calls[c].id) THEN Thrown(c, "refused") ELSE Go(c, "validate")
          /\ UNCHANGED faults
       \/ Fault /\ Go(c, "validate")
    /\ UNCHANGED <<hits, blocked, tries, locked, arrived, wrong, from>>

(* An email is trimmed and its case ignored, a phone number is trimmed:      *)
(* identifiers that are different keys in Redis find the same account.       *)
FindByEmailOrPhoneNumber(id) == AccountOf[id]

(* AuthService.validateUser: the password is the found account's, or it is   *)
(* wrong, as it is where none is found, or the database fails. What failed   *)
(* first is recorded in the try block, and once more in its catch block.     *)
ValidateUser(c) ==
    /\ calls[c].at = "validate"
    /\ \/ /\ FindByEmailOrPhoneNumber(calls[c].id) # None
          /\ Go(c, "reset") /\ UNCHANGED wrong
       \/ Go(c, "record") /\ wrong' = [wrong EXCEPT ![calls[c].id] = @ + 1]
       \/ /\ calls' = [calls EXCEPT ![c].at = "record", ![c].second = TRUE]
          /\ UNCHANGED wrong
    /\ UNCHANGED <<hits, blocked, tries, locked, arrived, faults, from>>

(* recordFailedAttempt returns, or has swallowed an error. *)
Recorded(c) ==
    IF calls[c].second THEN Thrown(c, "refused")
    ELSE calls' = [calls EXCEPT ![c].at = "record", ![c].second = TRUE, ![c].n = 0]

(* Mutant: only the attempt that meets the limit locks. *)
LocksAtLimit(n) == n = MaxAttempts

Locks(n) == n >= MaxAttempts

(* Mutant: only the attempt that locks sets the expiry. *)
IncrementLate(c) ==
    /\ calls[c].at = "record"
    /\ tries' = [tries EXCEPT ![calls[c].id] = Incremented(@)]
    /\ IF Locks(tries'[calls[c].id].n)
       THEN calls' = [calls EXCEPT ![c].n = tries'[calls[c].id].n,
                                   ![c].at = "expireTries"]
       ELSE Recorded(c)
    /\ UNCHANGED <<hits, blocked, locked, arrived, wrong, faults, from>>

(* recordFailedAttempt: INCR on the counter of the identifier ... *)
Increment(c) ==
    LET id == calls[c].id
        more == [tries EXCEPT ![id] = Incremented(@)]
        n == more[id].n IN
    /\ calls[c].at = "record"
    /\ \/ /\ tries' = more
          /\ IF n = 1 \/ Locks(n)
             THEN calls' = [calls EXCEPT ![c].n = n, ![c].at =
                     IF n = 1 THEN "expireTries" ELSE "lock"]
             ELSE Recorded(c)
          /\ UNCHANGED faults
       \/ /\ Fault
          /\ tries' \in {tries, more}
          /\ Recorded(c)
    /\ UNCHANGED <<hits, blocked, locked, arrived, wrong, from>>

(* ... EXPIRE, an hour from the first attempt ... *)
ExpireTries(c) ==
    LET kept == [tries EXCEPT ![calls[c].id] = Expiring(@)] IN
    /\ calls[c].at = "expireTries"
    /\ \/ /\ tries' = kept
          /\ IF Locks(calls[c].n) THEN Go(c, "lock") ELSE Recorded(c)
          /\ UNCHANGED faults
       \/ Fault /\ tries' \in {tries, kept} /\ Recorded(c)
    /\ UNCHANGED <<hits, blocked, locked, arrived, wrong, from>>

(* ... and SET with EX, 15 minutes from now. *)
Lock(c) ==
    /\ calls[c].at = "lock"
    /\ \/ locked' = locked \cup {calls[c].id} /\ UNCHANGED faults
       \/ Fault /\ locked' \in {locked, locked \cup {calls[c].id}}
    /\ Recorded(c)
    /\ UNCHANGED <<hits, blocked, tries, arrived, wrong, from>>

(* resetAttempts: DEL, on to the rest whether it fails or not. *)
ResetAttempts(c) ==
    LET id == calls[c].id
        gone == [tries EXCEPT ![id] = Absent] IN
    /\ calls[c].at = "reset"
    /\ Go(c, "guardAgain")
    /\ \/ tries' = gone /\ UNCHANGED faults
       \/ Fault /\ tries' \in {tries, gone}
    /\ wrong' = IF tries' = gone THEN [wrong EXCEPT ![id] = 0] ELSE wrong
    /\ UNCHANGED <<hits, blocked, locked, arrived, from>>

(* Mutant: the interceptor leaves errors to the filter. *)
HandleOnce(c) ==
    /\ calls[c].at = "handler"
    /\ Answer(c, "answered", 1) \/ Thrown(c, "failed")
    /\ UNCHANGED <<hits, blocked, tries, locked, arrived, faults, wrong, from>>

(* MetricsInterceptor counts what a handler returns, and what it throws as   *)
(* well, on its way to the filter.                                           *)
Intercept(c, at) == Answer(c, at, IF at = "failed" THEN 2 ELSE 1)

(* The handler looks the user up and validates the password again, which     *)
(* records nothing; it answers or throws.                                    *)
Handle(c) ==
    /\ calls[c].at = "handler"
    /\ Intercept(c, "answered") \/ Intercept(c, "failed")
    /\ UNCHANGED <<hits, blocked, tries, locked, arrived, faults, wrong, from>>

(* The client has the answer. *)
Finish(c) ==
    /\ calls[c].at \in {"filtered", "error", "refused", "failed", "answered"}
    /\ calls' = [calls EXCEPT ![c] = Idle]
    /\ UNCHANGED <<hits, blocked, tries, locked, arrived, faults, wrong, from>>

-----------------------------------------------------------------------------
(* Redis removes keys whose time has passed. *)
HitsExpire(ip) ==
    /\ hits[ip].expires
    /\ hits' = [hits EXCEPT ![ip] = Absent]
    /\ UNCHANGED <<blocked, tries, locked, calls, arrived, faults, wrong, from>>

(* Mutant: the block is set without an expiry. *)
BlockStays(ip) == FALSE

BlockEnds(ip) ==
    /\ ip \in blocked
    /\ blocked' = blocked \ {ip}
    /\ UNCHANGED <<hits, tries, locked, calls, arrived, faults, wrong, from>>

TriesExpire(id) ==
    /\ tries[id].expires
    /\ tries' = [tries EXCEPT ![id] = Absent]
    /\ wrong' = [wrong EXCEPT ![id] = 0]
    /\ UNCHANGED <<hits, blocked, locked, calls, arrived, faults, from>>

LockEnds(id) ==
    /\ id \in locked
    /\ locked' = locked \ {id}
    /\ wrong' = [wrong EXCEPT ![id] = 0]
    /\ UNCHANGED <<hits, blocked, tries, calls, arrived, faults, from>>

(* The process ends and is started again; Redis keeps what it has. *)
Crash ==
    /\ Fault
    /\ calls' = [c \in Calls |-> Idle]
    /\ UNCHANGED <<hits, blocked, tries, locked, arrived, wrong, from>>

-----------------------------------------------------------------------------
Init ==
    /\ hits = [ip \in Ips |-> Absent] /\ tries = [id \in Identifiers |-> Absent]
    /\ blocked = {} /\ locked = {}
    /\ calls = [c \in Calls |-> Idle]
    /\ arrived = 0 /\ faults = 0 /\ wrong = [id \in Identifiers |-> 0]
    /\ from \in Ips

(* Middleware, guards, handler between interceptor and filter, in the order *)
(* in which the application's module sets them up.                          *)
Step(c) ==
    \/ Count(c) \/ ExpireHits(c) \/ Block(c) \/ Admit(c) \/ Throttle(c)
    \/ IsAccountLocked(c) \/ ValidateUser(c) \/ Increment(c) \/ ExpireTries(c)
    \/ Lock(c) \/ ResetAttempts(c) \/ Handle(c) \/ Finish(c)

Next ==
    \/ \E c \in Calls, ip \in Ips, id \in Identifiers : Use(c, ip, id)
    \/ \E c \in Calls : Step(c)
    \/ \E ip \in Ips : HitsExpire(ip) \/ BlockEnds(ip)
    \/ \E id \in Identifiers : TriesExpire(id) \/ LockEnds(id)
    \/ Crash

Spec == Init /\ [][Next]_vars

(* Commands answer or fail, and the time of a key passes. No request has to *)
(* come.                                                                    *)
FairSpec ==
    /\ Spec
    /\ \A c \in Calls : WF_vars(Step(c))
    /\ \A ip \in Ips : WF_vars(HitsExpire(ip)) /\ WF_vars(BlockEnds(ip))
    /\ \A id \in Identifiers : WF_vars(TriesExpire(id)) /\ WF_vars(LockEnds(id))

-----------------------------------------------------------------------------
(* Every variable has its type, and a counter that is not there no expiry. *)
TypeOK ==
    /\ DOMAIN tries = Identifiers /\ DOMAIN wrong = Identifiers
    /\ \A key \in {hits[ip] : ip \in Ips} \cup {tries[id] : id \in Identifiers} :
          key.n \in Nat /\ key.expires \in BOOLEAN /\ (key.n = 0 => key = Absent)
    /\ blocked \subseteq Ips \ (Whitelist \cup Blacklist)
    /\ locked \subseteq Identifiers
    /\ \A c \in Calls :
          /\ calls[c].n \in Nat /\ calls[c].counted \in 0..2
          /\ calls[c].at # "idle" => calls[c].id \in Identifiers
    /\ \A id \in Identifiers : wrong[id] \in Nat
    /\ arrived \in 0..MaxRequests[from] /\ faults \in 0..MaxFaults

(* Every wrong password is recorded twice, so half of MAX_ATTEMPTS lock an   *)
(* identifier; the other requests under way may have passed the check before *)
(* it is. However requests interleave, with this identifier and with others  *)
(* of the same account, and however often the lock ends before the counter   *)
(* does, no more passwords than that come with one identifier between two    *)
(* locks. An account has this bound once for each identifier that finds it.  *)
GuessesBounded ==
    \A id \in Identifiers :
        faults = 0 => wrong[id] <= (MaxAttempts + 1) \div 2 + Cardinality(Calls) - 1

(* A counter stays without an expiry only when a command failed or the       *)
(* process died between INCR and EXPIRE: a DEL in between, and whoever       *)
(* counts anew after it, leaves none behind.                                 *)
ExpiryLostByFault ==
    faults = 0 =>
        /\ \A id \in Identifiers : tries[id].n > 0 /\ ~tries[id].expires =>
              \E c \in Calls : calls[c].at = "expireTries" /\ calls[c].id = id
        /\ \A ip \in Ips : hits[ip].n > 0 /\ ~hits[ip].expires =>
              \E c \in Calls : calls[c].at = "expireHits" /\ calls[c].ip = ip

(* http_requests counts a request once, but twice when its handler failed    *)
(* and not at all when the filter answered it: it is not the number of       *)
(* requests, and its errors weigh double.                                    *)
CountedByOutcome ==
    \A c \in Calls :
        /\ calls[c].at = "filtered" => calls[c].counted = 0
        /\ calls[c].at \in {"error", "refused", "answered"} => calls[c].counted = 1
        /\ calls[c].at = "failed" => calls[c].counted = 2

(* Without faults every limit is lifted when the requests cease: no counter, *)
(* block or lock stays.                                                      *)
LimitsEnd ==
    <>[](faults = 0 =>
            /\ locked = {} /\ blocked = {}
            /\ \A id \in Identifiers : tries[id] = Absent
            /\ \A ip \in Ips : hits[ip] = Absent)

=============================================================================
