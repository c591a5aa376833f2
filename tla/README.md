# TowGro: TLA+ models and proofs

TowGro is the backend of a towing service: a NestJS application (one Node
process, PostgreSQL through TypeORM, Redis, the Paystack payment gateway) under
`src/src`. This directory holds TLA+ modules for the parts of it where several
actors change the same state, the TLC runs that check them, and proofs checked
by TLAPS.

## The system

| part | state | operations | talks to |
|---|---|---|---|
| payment (`payment/`) | table `transactions`: one row per reference, status pending, success, failed or refunded | initialise, details, verify, refund, webhook events | Paystack (calls with retries, webhooks back) |
| dispatch (`dispatch/`) | table `dispatch`: status, payment columns | create, update status, complete (opens a payment), verify the payment, list | payment, notifications |
| tracking (`tracking/`) | queue of location updates, latest-location map, Redis cache, table `vehicle_locations` | update location, process batch, latest, history, nightly retention | WebSocket gateway, Redis pub/sub |
| auth (`auth/`) | Redis keys for refresh, reset and verification tokens, login counters, locks, biometric hashes | login, refresh, logout, reset, verify, OAuth, biometrics, lockout, two factor | users, mail |
| users, profile | table `users`, active flag, unique email | create, update, soft delete, profile, two factor and biometric columns | auth |
| request limits (`common/`, `monitoring/ddos-detection`) | Redis counters and blocks per client | throttle, IP filter, minute job | notifications |
| metrics (`monitoring/`) | counters and running averages in memory | one update per request | - |
| notifications, mail, audit | sent messages, audit rows | send, record | SMTP, SMS |
| admin, api gateway, health, circuit breaker, configuration | none | read or describe the others | - |

`completeDispatch` and `verifyDispatchPayment` are public methods of
`DispatchService` that no controller calls at this commit; they are modelled as
operations that may be called at any time.

What is hard here is not in any single method. Every `await` lets other
requests, webhooks and timers run, and what a method read before it is stale
after it; the gateway's answers and webhooks may be lost, repeated and
reordered; a transaction spans calls to services that do not take part in it;
the process may die between any two steps. The repository has two generated
tests, which check that the dispatch classes can be instantiated. What makes
each part correct:

* payment: a row per reference at most; a status that is true; a refund only of
  a charge; every request answered.
* dispatch: a completion publishes status and reference together, once; a
  dispatch called verified was charged; nobody waits forever.
* tracking: one batch at a time; the order of arrival kept; nothing stored
  twice; only old or surplus updates dropped; the queue served.
* auth, users, limits: a token used at most once and accepted when fresh; locks
  after the stated number of failures under an identifier; counters that expire;
  one account per email; no lost update of a user's methods.

`PROJECT.json` lists the hazards with their lines and the properties that
cover them.

## Modules

**`PaymentLedger`** is what the payment component promises: for each reference a
row that appears as pending once the gateway knows the reference, never
disappears, and takes only statuses that the gateway's history (`facts`) bears
out.

**`Payment`** is `PaymentController` and `PaymentService`. A request is a record
in a slot of `calls`: where it stands, its retries, the status it was told, its
answer. There is one action per stretch of code between two awaits
(`InitCheck`, `InitGateway`, `InitSave`; `DetailsRead`; `VerifyCall`,
`VerifyWrite`; `RefundCheck`, `RefundCall`, `RefundWrite`; `Webhook`), each with
its failures. `Webhook` is the controller's handler: a request of the gateway or of
anybody else (`Event`) passes the checks of its signature header, its address and its
signature (`IsValidPaystackIp`, `VerifyWebhookSignature`) before `processWebhookEvent`,
or changes nothing. Only the gateway signs, and only what happened (`Sent`); an event
whose text is not what the service writes out again does not have the signature the
service computes. `FindTransactionByReference` answers null when its query fails, too.
`UpdateRow` is an UPDATE that changes nothing when the row is
missing, `Retry` is `retryOperation`. The gateway takes a call and answers, takes
it while the answer is lost, or refuses it; `Gateway` is the customer and the
merchant, `Crash` the process. Amounts and metadata are left out: no step the model has
depends on them. The model's gateway does not check that what it refunds was charged, so that this is left to
the service to ensure. It implements the ledger (`LedgerSpec`).

**`Dispatch`** composes `DispatchService` with the ledger (`INSTANCE PaymentLedger
WITH Refs <- Dispatches`, since the reference is `DSP_<id>`). A call carries its
entity (`ent`) and the columns its UPDATE is about to set. `Diff` and `Write` are
the SELECT and the UPDATE of TypeORM's `save`; the statuses no code tests are one
value. `told` is who was sent what (`Tell`): only `completeDispatch` reads the user
with the dispatch, so that the mails of a status update and of a confirmed payment
are never sent. `holds` and `work` are the row lock and the uncommitted row of
`completeDispatch`'s transaction; `Connected` are the connections of the pool in
use. A step whose guard does not hold while its call is at it stands for an
exception, which is `Fail`: the call ends and its transaction is rolled back.
`Waiting` is what cannot fail, because no timeout is configured: waiting in PostgreSQL
for a lock, or in pg's pool for a connection. The save in the catch block of
`completeDispatch` is one step with the rollback: it is made in the transaction that is
rolled back next. Everything the payment component does on its own is
`Payments`, by the ledger's actions; it is assumed that no client initialises a
payment of its own under a reference `DSP_<id>`.

**`LocationStore`** is what the storage of locations promises, with queue, timers and
transactions left out: an update is accepted once (`Accept`), waits, and becomes a
row in a `Store` that never leaves out the latest of a vehicle, or is lost in a
`Drop`. `TrackingBatch` implements it (`StoreSpec`), with queue and batch under way as
what waits; `TrackingCache` is built on it.

**`TrackingBatch`** is the queue and `processBatch` of `TrackingService`. `Take`
sets the flag and takes the queue, `Commit` makes the thinned batch visible,
`RollBack` puts the important part back in front, `End` resets the flag; `Tick`
and `WakeUp` are the two ways to be invoked. A connection that cannot be opened
and a rollback that fails end the process under Node 20 (a rejected promise
nobody handles), so they are `Crash`; so is a signal, since `main.ts` enables no
shutdown hooks and `onApplicationShutdown` is never called. A commit that was
applied but answered with an error leaves a dead connection, whose rollback
fails: also a crash, after `Commit`.

**`TrackingCache`** is the rest of `TrackingService`: `updateLocation`,
`getLatestLocation` and `getLocationHistory` over the process's map of latest
locations (`memory`), the Redis key (`cache`), the cached pages of the history and
the table. `Batch` stands for `TrackingBatch` by what it promises: a `Store` or a `Drop`
of `LocationStore`. The write to Redis that `updateLocation` starts for one
update in ten and does not await is kept in `writes` until it happens. Distances,
bearings, alerts and the choice of the geofence change nothing in it. The 60 ms of
`CacheInterceptor` in front of the latest location are left out.

**`Login`** follows a request to log in through `IpFilterMiddleware`, the
throttler, `LocalStrategy` with `AccountLockoutService`, and the handler, one Redis
command at a time, and counts it as `MetricsInterceptor` and
`GlobalExceptionFilter` do. A Redis key is a value and whether it expires; time is
the action that removes it. Which password a request brings is a choice made when
it is checked. `AccountLockoutService` keeps counter and lock under the identifier as
the request gives it, while `findByEmailOrPhoneNumber` trims it, ignores its case and
takes a phone number, too. So there are `Identifiers`, with a counter and a lock each,
and `AccountOf` (`FindByEmailOrPhoneNumber`), which may take several of them to one
account. The throttler's Redis storage is provided under a name that the
guard does not ask for, so its counters are in memory and the throttler is a guard
that passes a request or not.

**`Accounts`** is `AuthService`, `UsersService` and the three services for reset
links, verification links and the second factor, on one account's row, its keys in
Redis and the mailed links; registration and OAuth logins work on the whole table.
The state of a call says which query or command comes next (`at`), what it has
read (`got`) and which columns it will write (`cols`). Calls of different methods
that do the same thing share an action: `Find`, `Write` and `FindAgain` are
`updateUser` wherever it is called (`Given`: what an update gives is any choice of the
columns it may give), `Diff` and `Write` the save in `deleteUser`,
`Get`, `Set` and `Del` the Redis commands, with `KindOf` the key. A token is the
second in which it was signed, since a JWT holds nothing else that differs: two
tokens signed within a second are equal. The email is a column: registrations, OAuth logins, `updateUser`
and `updateProfile` write it, on a deleted account too in the last case, and an UPDATE
to the email of another row fails (`Writable`). The phone number of the account is left
out: no two rows need differ in it. `RefreshToken` lets every token pass that was given
away, which takes the secret of refreshes to be the one `login` signs with:
`JWT_REFRESH_SECRET` unset, or equal to `JWT_SECRET`. With a secret of its own every
refresh is refused. `Mailed` is the mail with a link; when it fails the error is thrown
on and nobody knows the link. The services are taken at their API, not
behind their guards: `JwtStrategy` looks users up by a uuid as if it were an email,
so that no request passes `JWTAuthGuard` at this commit. For the same reason the
account of the model is active from the start, although no operation can make a
registered account so.

**`MC*`** modules add what TLC needs on small instances: symmetry where no liveness
property is checked, and the sets of cases. **`PaymentProofs`**, **`DispatchProofs`**,
**`TrackingProofs`**, **`TrackingCacheProofs`**, **`LoginProofs`** and **`AccountsProofs`**
hold the theorems of one component each, **`Extrema`** what two of them need about least
and greatest elements of finite sets.

Definitions called "Mutant" in a comment are not used by any specification. Each
is a plausible mistake in the definition after it, and stands beside it to show
that a property notices it.

## Runs

| run | configuration | shows |
|---|---|---|
| `payment` | one reference, two requests, retries 3 and 2 as in the code, two refunds | types, `RefundOnlyCharged`, `CreatedOnce`, `AnswerIsReal`, the inductive invariant `Consistent`, refinement of the ledger, `CallsFinish` |
| `payment_refund` | as `payment` | violated: a repeated refund of a refunded payment |
| `dispatch` | one dispatch, two calls, every status, three connections | `ReferenceHasPayment`, `VerifiedIsPaid`, `CompletedOnce`, `PublishedTogether`, `LinkIsPayable`, `OnlyStaleUpdateErases` |
| `dispatch_live` | updates to one status, three connections, no mail address | `CallsFinish` |
| `dispatch_consistency` | as `dispatch` | violated: a payment without a dispatch that refers to it |
| `dispatch_pool` | as `dispatch_live` with two connections | violated: completions wait for connections forever |
| `tracking` | two vehicles, two timestamps, four updates, one crash | `OneBatch`, `ArrivalOrder`, `StoredOnce`, `FailureSparesFirst`, `ThinningSparesNewest`, refinement of the store (`StoreSpec`), `QueueServed` |
| `tracking_full` | one vehicle, five updates | violated: a full queue for which nothing is started |
| `tracking_cache` | one vehicle, two timestamps, two updates, two calls, one crash | `TableAnswerIsRecent`, `PageWithinTable`, `GoesBackToStored`, `CacheSettles` |
| `login` | two identifiers of one account, an ordinary, a whitelisted and a blacklisted address, two requests at once, two or (from the whitelisted one) four in all, one fault | `GuessesBounded`, `ExpiryLostByFault`, `CountedByOutcome`, `LimitsEnd` |
| `accounts` | one account and those that are registered, two biometric types, two calls at once, three in all, two seconds | `OneRowPerEmail`, `UsedUpRefused`, `DeletedIsFrozen`, `HashIsListed`, `OnlyDeletionUndoes`, `SecretWhileOn` |
| `accounts_refresh` | as `accounts` with one call at a time | violated: a refresh deletes the token it returns |

**Bounds.** References and dispatches do not interact except through the pool
and share no other state, so one of each is enough. Two requests are enough for
every hazard listed: each is a race of one request with another, with a webhook,
or with the gateway; webhooks and gateway need no slot. A slot is reused, so the
number of requests over time has no bound. `MaxRefunds` bounds the refunds a
gateway accepts for one payment. In `dispatch` three connections for two calls are
one to spare, so that no step waits for one; `dispatch_pool` has as many as calls,
the case of ten completions and pg's ten connections. In the tracking runs the
thresholds are scaled, in their order, from 50, 1000, 20, 3, 10 to 2, 3, 3, 3, 2
(batch size, maximum queue, thinning above, keep every, keep first), so that four
updates reach thinning and requeueing with and without loss, and a fifth, in
`tracking_full`, a full queue behind a batch.
`MaxUpdates` and `MaxCrashes` bound the runs.

In `tracking_cache`, `Roles` gives each slot what it does: an update beside an
update, a query or a history, which are the pairs that race; vehicles share
nothing. In `login`, the requests of a behaviour come from one address, since
addresses share nothing but the identifiers, and requests of the whitelisted one reach
these in any order, two at once and four in all; each may use either identifier; limits are scaled from 100 requests a minute to 1 and
from 5 attempts to 3, which two wrong passwords still reach, one of them while another
is under way. `MaxFaults` bounds failing commands and crashes. In `accounts`, `Mixes` lists
the operations that occur together, twelve groups, by the part of the state they share,
so that the pairs that race are in one; two calls at a time and a third after
them reach every hazard listed (a use of a token, a second use that began before
the first ended, a third one after it), and two seconds tell tokens apart or make
them equal. `MaxCalls` and `MaxNow` bound the runs.

**Fairness.** Weak fairness of a call's steps: Node resumes what it awaits, and a
statement or a gateway call answers or fails in the end. It never says which, so
no property rests on a retry that succeeds. `Write` in `Dispatch` has strong
fairness because PostgreSQL grants a row lock in the order of the requests, so
nobody is overtaken forever. In `TrackingBatch` the interval timer fires again and
again. In `TrackingCache` and `Login` the awaits of a call, the write that nobody
awaits, and the time of a Redis key are fair: a key with an expiry goes away.
Batches, customers, webhooks, arrivals, requests and crashes are not fair.
`CacheSettles` and `LimitsEnd` therefore speak of the end, when arrivals have
ceased (they are bounded), and `LimitsEnd` of behaviours without a fault.

**The violations** are disagreements of the code with its own comments and
messages; `PROJECT.json` has each one under `findings` with the lines. In short:
a retried refund is not idempotent; the transaction of `completeDispatch` does
not cover the payment it opens, and after a rollback the dispatch can never be
completed; that same method needs a second connection while it holds one, and
concurrent completions can use up the pool and wait for each other forever;
nothing is forced when the queue of updates reaches its maximum behind a batch
under way; and a refresh of a session stores the new token and then deletes it (where
refreshes pass at all: see `RefreshToken`).

**What the passing runs say of doubtful code.** Several properties state how far
something known to go wrong can go. `GuessesBounded`: a wrong password is recorded
twice, so three of them lock an identifier where `MAX_ATTEMPTS` says five, plus those
under way. The bound is one per identifier. The code gives none per account: under `k`
identifiers that find it (its email in other cases or with blanks, its phone number)
`k` times as many passwords can be tried. `CountedByOutcome`: a request whose handler throws is counted twice.
`HashIsListed` excepts two changes of the methods that overlap, one of which is
lost. `OnlyDeletionUndoes` and `SecretWhileOn` except the save in `deleteUser`,
which writes back what it read. `DeletedIsFrozen` excepts profile, email, avatar and the
second factor, which are written without a look at the row at some place.
`OneRowPerEmail` is about registrations, OAuth logins and every update of the email; it
rests on the unique column alone, since updates look for no other row.
`GoesBackToStored` allows the map of latest locations to go back, but only to a
row, or to an update whose request was overtaken.

## Proofs

Every invariant, every action property and every refinement the passing runs check is
also a theorem, for every value of the constants that the module's named assumption
allows. Only liveness is left to TLC.

| module | proved | from the inductive invariant |
|---|---|---|
| `PaymentProofs` | `TypeOK`, `RefundOnlyCharged`, `CreatedOnce`, `AnswerIsReal`, `LedgerSpec` | `Consistent` |
| `DispatchProofs` | `TypeOK`, `ReferenceHasPayment`, `VerifiedIsPaid`, `CompletedOnce`, `LinkIsPayable`, `PublishedTogether`, `OnlyStaleUpdateErases`, `Ledger!LedgerSpec` | `TypeOK /\ DispatchInv` |
| `TrackingProofs` | `TypeOK`, `OneBatch`, `ArrivalOrder`, `StoredOnce`, `FailureSparesFirst`, `ThinningSparesNewest`, `StoreSpec` | `BatchInv` |
| `TrackingCacheProofs` | `TypeOK`, `TableAnswerIsRecent`, `PageWithinTable`, `GoesBackToStored`, `Locations!StoreSpec` | `CacheInv`, with `Numbered /\ Fresh` for the last |
| `LoginProofs` | `TypeOK`, `CountedByOutcome`, `ExpiryLostByFault`, `GuessesBounded` | `Typed`, `SecondOK /\ GuessInv` |
| `AccountsProofs` | `TypeOK`, `OneRowPerEmail`, `DeletedIsFrozen`, `SecretWhileOn`, `OnlyDeletionUndoes`, `UsedUpRefused`, `HashIsListed` | `Typed` with `FrozenInv`, `PasswordInv`, `KeyInv`, `MethodsInv` |

**Payment.** `RefundOnlyCharged` and `AnswerIsReal` are not inductive: whether a refund
is of a charge depends on what the request was told before the call, two awaits
earlier. `Consistent` adds this. `RowInv` relates a row to the gateway's history,
`CallInv` says of each request what it carries across its awaits: about to insert, its
reference is opened; about to write a status, that status happened; about to refund,
its reference was charged. It is inductive because `facts` only grows, so what a
request was told stays true however late it is written: `CallKeeps` and `LedgerKeeps`
state this once, and each action's case cites them. `CreatedOnce` is part of it because
the unique column protects an answer already given. The same case split gives the
refinement (`StepRefines`).

**Dispatch.** TypeORM's `save` writes back columns of an entity that was read before, so
what is to be said of the row must be said of every copy of it: `RowBacked` (a reference
has a payment row, a verified mark a charge) holds of the row, of the entity each call
holds and of the uncommitted row of its transaction. `CompletedOnce` needs the unique
reference: of two completions the one that inserts the payment second fails.
`PublishedTogether` needs `Unseen`: nobody else holds the reference of a completion that
has not committed, so that no save can bring it out early. Both directions of the
composition are proved: `Payment` implements the ledger that `Dispatch` uses, and
`Dispatch` takes only steps the ledger allows (`DispatchKeepsLedger`).

**Batch storage.** `Line` says that the batch under way and the queue are one line,
sorted by arrival, none of it stored. That each is sorted is not enough for a batch that
is put back in front, hence `Ahead`; that one invocation saves at a time is `Exclusive`.
What the requeueing keeps is a recursive function over the batch; what it returns for
every batch (`CollectsExists`, `ImportantOf`: a subsequence that has the first
`KeepFirst`) is proved by least counterexample, from the well-foundedness of `<`. That
thinning keeps the latest of a vehicle rests on `HighestExists`: in a finite set of
updates one is placed first by `LatestFirst`, and place 0 is always saved.

**Latest locations.** Requests are not ordered against batches, so every conjunct of
`RequestOK` survives the arrival of rows (`RequestKept`): a row once found stays a row,
what a query was owed when it began (`floor`) stays reached. `PageWithinTable` follows in
the same way, as counts only grow. `GoesBackToStored` comes from where a value in the map
can come from (`MemorySources`). `CacheImplementsStore` closes the circle with
`BatchImplementsStore`: the storage gives what `LocationStore` says, and the requests use
it as it says, since an update that is not in the store yet is carried by one request
only, at a place before the queue (`Fresh`), and its number is new (`Numbered`).

**Login.** `GuessesBounded` counts recordings that have not happened yet. A wrong
password is recorded twice, so the `tries` of its identifier fall behind twice the wrong passwords by those a
request has still to record (`ToRecordTwice`, `ToRecord`); as long as the identifier is not locked,
the passwords beyond the limit belong to requests that record, and once it is locked only
the requests with it that passed the check before can try another. The lemmas about cardinalities
(`NumberStep`) say how a step of one request moves these sets.

**Accounts.** `Typed` says of each call which columns it will write (`ColsOK`), which is
what separates the operations. `OneRowPerEmail` is inductive by itself: `Insertable` and
`Writable`, the unique column, guard each step that adds or changes an email. `FrozenInv`: a call that began on a deleted account never
gets past the look at the row. `PasswordInv`: a password yet to be written was nobody's
and no pending save of a deletion carries it. `KeyInv`: a key carries the number of the
call that set it, calls have different numbers, and what is used up is neither stored nor
set again. `MethodsInv`: unless changes of the methods overlap, one call at most changes
them and knows the list.

**Assumptions.** `PaymentAssumption`, `DispatchAssumption`, `TrackingAssumption`,
`CacheAssumption`, `LoginAssumption` and `AccountsAssumption`, each evaluated by TLC on its
runs. They give the constants their kinds; beyond that there are dispatches at all, slots
for requests to log in are finitely many at once, each identifier finds an account or none (`AccountOf`), `None` is not an update (nor an email,
phone or type), the names of the keys for tokens are no biometric types, limits and
intervals are positive, and timestamps are natural numbers (in `TrackingCache` not 0,
the time 0 standing for none).

**Model-checked only.** `CallsFinish` of `Payment` and of `Dispatch`, `QueueServed`,
`CacheSettles` and `LimitsEnd` rest on fairness, which the provers do not handle; and the
violations, which are behaviours TLC finds.

## Not modelled

Components with status `not_modelled` in `PROJECT.json`, with the reason there. In
particular:

* Registered nowhere or called by nobody at this commit, so without behaviour:
  `DdosDetectionService`, the modules of profile, audit, admin and rate limits,
  `WsThrottlerGuard`, `RequestSizeLimitMiddleware`, `NotificationService` (the one
  in the singular), `clearLockout` and `getAttemptCount`. The services for links
  and for the second factor have no caller either; they are modelled because their
  hazards are those of the code that will call them.
* The nightly retention job: its subselect names a table that does not exist, so
  it fails each time, and the error is logged.
* The WebSocket gateway: rooms and broadcasts. Its Redis adapter is never set,
  since `afterInit` runs before the connection is known to be available.
* Arithmetic: distances, bearings, fees, running averages (floating point).
* Text: mails, logs, Swagger, validation of formats, sanitising of metadata.
* Guards and strategies that only read: JWT, Google, roles.

Several processes behind one database are covered by `Payment`, `Dispatch`,
`Accounts` and `Login` (requests share nothing but tables and Redis), not by
`TrackingBatch` and `TrackingCache`, whose queue and map are one process's.

## Plan

1. Done: `PaymentLedger`, `Payment`, `Dispatch` on the ledger, `LocationStore`,
   `TrackingBatch`, `TrackingCache` on the store, `Login`, `Accounts`.
2. Done: theorems for every safety property, action property and refinement of the
   passing runs.
3. Left: an abstract specification of what `Accounts` promises about a token (given out,
   accepted once, refused) with `UsedUpRefused` as its consequence, and one of a rate
   limit that both counters of `Login` implement; several addresses at once in `Login`'s
   run.
