--------------------------- MODULE AccountsProofs ---------------------------
(***************************************************************************)
(* Theorems about Accounts, for every set of calls, addresses, biometric   *)
(* types and operations that occur together, and every bound.              *)
(***************************************************************************)
EXTENDS Accounts, TLAPS

Column == {"email", "password", "active", "methods", "emailVerified", "profile",
           "twoFactor", "secret", "temp"}

ColumnType(x) ==
    CASE x = "email" -> Emails \cup {None}
      [] x \in {"password", "profile"} -> 0..MaxCalls
      [] x \in {"active", "emailVerified", "twoFactor"} -> BOOLEAN
      [] x = "methods" -> SUBSET Types
      [] x \in {"secret", "temp"} -> 0..MaxCalls + 1 \cup {None}

(* Some columns of a user. *)
Part(f) == \A x \in DOMAIN f : x \in Column /\ f[x] \in ColumnType(x)

(* The operations that come to a place. *)
Finders == {"delete", "registerBiometric", "authenticate", "removeBiometric", "refresh",
            "sendVerification", "generateSecret", "enableTwoFactor"}

Updaters == {"reset", "verify", "update", "registerBiometric", "removeBiometric"}

ByLink == {"resetByLink", "verifyByLink"}

OpsAt(at) ==
    CASE at = "replied" -> Ops
      [] at \in {"lookup", "insert"} -> {"register", "oauth"}
      [] at = "findFirst" -> {"oauth"}
      [] at = "findAccount" -> {"sendReset", "requestReset"}
      [] at = "findById" -> Finders
      [] at = "find" -> Updaters \cup ByLink
      [] at = "write" -> Updaters \cup ByLink \cup {"delete", "updateProfile", "updateAvatar",
                             "generateSecret", "enableTwoFactor", "disableTwoFactor"}
      [] at = "findAgain" -> Updaters \cup {"updateProfile"}
      [] at = "diff" -> {"delete"}
      [] at = "get" -> {"reset", "refresh", "authenticate"}
      [] at = "compare" -> {"authenticate"}
      [] at = "set" -> {"sendReset", "registerBiometric", "authenticate", "login", "refresh"}
      [] at = "del" -> {"reset", "removeBiometric", "refresh", "logout"}
      [] at = "delReused" -> {"refresh"}
      [] at = "setLink" -> {"requestReset", "sendVerification"}
      [] at \in {"getLink", "delLink"} -> ByLink
      [] OTHER -> {}

BiometricOps == {"registerBiometric", "authenticate", "removeBiometric"}

PasswordOps == {"reset", "update", "resetByLink"}

(* Where the columns of an operation that knew them from the start matter.   *)
Ahead == {"get", "getLink", "find", "write"}

(* What a call will write. *)
ColsOK(k) ==
    /\ k.op \in {"reset", "resetByLink"} /\ k.at \in Ahead => k.cols = [password |-> k.n]
    /\ k.op = "update" /\ k.at \in Ahead =>
          /\ Part(k.cols) /\ DOMAIN k.cols \subseteq {"password", "email"}
          /\ "password" \in DOMAIN k.cols => k.cols.password = k.n
    /\ k.op = "verify" /\ k.at \in Ahead => k.cols = [active |-> TRUE]
    /\ k.op = "verifyByLink" /\ k.at \in Ahead => k.cols = [emailVerified |-> TRUE]
    /\ k.op = "updateProfile" /\ k.at = "write" =>
          Part(k.cols) /\ DOMAIN k.cols \subseteq {"profile", "email"}
    /\ k.op = "updateAvatar" /\ k.at = "write" => k.cols = [profile |-> k.n]
    /\ k.op = "disableTwoFactor" /\ k.at = "write" => k.cols = SecondFactorOff
    /\ k.op = "generateSecret" /\ k.at = "write" => k.cols = [temp |-> k.n]
    /\ k.op = "enableTwoFactor" /\ k.at = "write" =>
          \E s \in 0..MaxCalls + 1 :
              s # None /\ k.cols = [twoFactor |-> TRUE, secret |-> s, temp |-> None]
    /\ k.op = "delete" /\ k.at = "diff" => k.cols \in User
    /\ k.op = "delete" /\ k.at = "write" => Part(k.cols)
    /\ \/ k.op = "registerBiometric" /\ k.at \in {"set", "find", "write"}
       \/ k.op = "removeBiometric" /\ k.at \in {"find", "write"}
       => \E m \in SUBSET Types : k.cols = [methods |-> m]
    /\ k.op = "removeBiometric" /\ k.at = "del" =>
          k.cols = <<>> \/ \E m \in SUBSET Types : k.cols = [methods |-> m]

AnyKey == [kind : Kinds \cup LinkKinds, by : 1..MaxCalls]

CallOK(k) ==
    /\ IF k.at = "idle" THEN k.op = None /\ k.n = 0
       ELSE k.op \in OpsAt(k.at) /\ k.n \in 1..begun
    /\ k.op \in BiometricOps /\ k.at # "idle" => k.arg \in Types
    /\ k.at = "set" => k.new \in (IF k.op = "registerBiometric" THEN {None} ELSE 1..now)
    /\ k.op = "registerBiometric" => k.new = None
    /\ k.got # None => k.got \in AnyKey
    /\ k.late \in BOOLEAN
    /\ ColsOK(k)

Fields == {"at", "op", "n", "arg", "new", "got", "cols", "before", "late", "answer"}

Slot(k) == k = [x \in Fields |-> k[x]]

CallsShape == calls = [c \in Calls |-> calls[c]] /\ \A c \in Calls : Slot(calls[c])

CallsTyped == CallsShape /\ \A c \in Calls : CallOK(calls[c])

Typed ==
    /\ user \in User
    /\ stored = [kind \in Kinds |-> stored[kind]]
    /\ \A kind \in Kinds : stored[kind] # None =>
          /\ stored[kind].by \in 1..MaxCalls
          /\ stored[kind].t \in (IF kind \in Types THEN {None} ELSE 1..now)
    /\ links \subseteq [kind : LinkKinds, by : 1..MaxCalls]
    /\ usedUp \subseteq AnyKey
    /\ CallsTyped
    /\ now \in 1..MaxNow /\ begun \in 0..MaxCalls /\ raced \in BOOLEAN

(* A call that is late goes no further than to the columns that are written  *)
(* unseen, and the account is deleted for as long as there is one.           *)
Unseen == {"profile", "email", "twoFactor", "secret", "temp"}

FrozenInv ==
    \A c \in Calls : calls[c].late =>
        /\ ~user.active /\ calls[c].at # "diff"
        /\ calls[c].at = "write" => DOMAIN calls[c].cols \subseteq Unseen

(* A password that is to be written was never one of the account's. *)
Deletes(c) == calls[c].op = "delete" /\ calls[c].at \in {"diff", "write"}

ToWrite(c) == calls[c].op \in PasswordOps /\ calls[c].at \in Ahead

PasswordInv ==
    /\ replaced \cup {user.password} \subseteq 0..begun
    /\ \A c \in Calls : ToWrite(c) =>
          /\ calls[c].n \notin replaced \cup {user.password}
          /\ \A d \in Calls : ToWrite(d) /\ calls[d].n = calls[c].n => d = c
    /\ \A d \in Calls : Deletes(d) /\ "password" \in DOMAIN calls[d].cols =>
          /\ calls[d].cols.password \in 0..begun
          /\ \A c \in Calls : ToWrite(c) => calls[d].cols.password # calls[c].n

(* A call that has not set its key yet: nothing carries its number. *)
BeforeSet == {"findAccount", "get", "findById", "compare", "set", "setLink"}

Takers == {"reset", "refresh", "authenticate", "removeBiometric", "logout"} \cup ByLink

AfterDel == {"find", "write", "findAgain"}

(* What was used up or removed is neither stored nor mailed any more. *)
KeysGone ==
    /\ None \notin usedUp
    /\ \A kind \in Kinds : stored[kind] # None => Key(kind) \notin usedUp
    /\ links \cap usedUp = {}

(* What a call took was not used up when it began; a hash that was removed   *)
(* is not stored again.                                                      *)
KeysTaken ==
    \A c \in Calls :
        /\ calls[c].before \subseteq usedUp /\ calls[c].got \notin calls[c].before
        /\ calls[c].op \notin Takers => calls[c].got = None
        /\ calls[c].got # None /\ calls[c].at # "replied" => calls[c].got.kind = KindOf(c)
        /\ /\ calls[c].op = "removeBiometric" /\ calls[c].got # None
           /\ calls[c].at \in AfterDel
           => \A kind \in Kinds : stored[kind] # None => calls[c].got # Key(kind)

(* Every key carries the number of a call that began. *)
KeysNumbered ==
    /\ \A kind \in Kinds : stored[kind] # None => stored[kind].by \in 1..begun
    /\ \A key \in usedUp \cup links : key.by \in 1..begun
    /\ \A d \in Calls : calls[d].got # None => calls[d].got.by \in 1..begun

KeysFresh ==
    \A c \in Calls : calls[c].at \in BeforeSet =>
        /\ \A kind \in Kinds : stored[kind] # None => stored[kind].by # calls[c].n
        /\ \A key \in usedUp \cup links : key.by # calls[c].n
        /\ \A d \in Calls : calls[d].got # None => calls[d].got.by # calls[c].n
        /\ \A d \in Calls : calls[d].at \in BeforeSet /\ calls[d].n = calls[c].n => d = c

KeyInv == KeysGone /\ KeysTaken /\ KeysNumbered /\ KeysFresh

(* What a call that changes the methods knows. *)
Knows(k) ==
    /\ k.op = "registerBiometric" /\ k.at \in {"set", "find", "write"} =>
          k.cols = [methods |-> user.methods \cup {k.arg}]
    /\ k.op = "removeBiometric" /\ k.at = "del" =>
          k.cols = IF k.arg \in user.methods THEN [methods |-> user.methods \ {k.arg}] ELSE <<>>
    /\ k.op = "removeBiometric" /\ k.at \in {"find", "write"} =>
          k.cols = [methods |-> user.methods \ {k.arg}] /\ stored[k.arg] = None

(* Unless methods were changed in a race, at most one call changes them, and *)
(* knows the list; only a hash it has stored may not be on it.               *)
MethodsInv ==
    ~raced =>
        /\ user.active
        /\ \A c \in Calls : calls[c].op = "delete" => ~Busy(c)
        /\ \A c, d \in Calls : ChangesMethods(c) /\ ChangesMethods(d) => c = d
        /\ \A type \in Types : stored[type] # None /\ type \notin user.methods =>
              \E c \in Calls : /\ calls[c].op = "registerBiometric" /\ calls[c].arg = type
                               /\ calls[c].at \in {"find", "write"}
        /\ \A c \in Calls : Knows(calls[c])

-----------------------------------------------------------------------------
(* Rows and calls as data.                                                   *)

LEMMA UserColumns ==
  \A u : u \in User <=> /\ u = [x \in Column |-> u[x]]
                       /\ \A x \in Column : u[x] \in ColumnType(x)
  <1> SUFFICES ASSUME NEW u
               PROVE  u \in User <=> /\ u = [x \in Column |-> u[x]]
                                    /\ \A x \in Column : u[x] \in ColumnType(x)
    OBVIOUS
  <1>1. ASSUME u \in User
        PROVE  u = [x \in Column |-> u[x]] /\ \A x \in Column : u[x] \in ColumnType(x)
    <2>1. u = [x \in Column |-> u[x]]
      BY <1>1 DEF User, Column
    <2>2. \A x \in Column : u[x] \in ColumnType(x)
      BY <1>1 DEF User, Column, ColumnType
    <2> QED
      BY <2>1, <2>2
  <1>2. ASSUME u = [x \in Column |-> u[x]], \A x \in Column : u[x] \in ColumnType(x)
        PROVE  u \in User
    <2>1. /\ u.email \in Emails \cup {None}
          /\ u.password \in 0..MaxCalls /\ u.profile \in 0..MaxCalls
          /\ u.active \in BOOLEAN /\ u.emailVerified \in BOOLEAN /\ u.twoFactor \in BOOLEAN
          /\ u.methods \in SUBSET Types
          /\ u.secret \in 0..MaxCalls + 1 \cup {None}
          /\ u.temp \in 0..MaxCalls + 1 \cup {None}
      BY <1>2 DEF Column, ColumnType
    <2> QED
      BY <1>2, <2>1 DEF User, Column
  <1> QED
    BY <1>1, <1>2

(* An UPDATE sets the columns it has and keeps the rest. *)
LEMMA MergeType ==
  ASSUME NEW u \in User, NEW f, Part(f), NEW v, v = Updated(u, f)
  PROVE  /\ v \in User
         /\ \A x \in Column : v[x] = IF x \in DOMAIN f THEN f[x] ELSE u[x]
  <1>1. DOMAIN u = Column /\ DOMAIN f \subseteq Column
    BY UserColumns DEF Part
  <1>2. v = [x \in Column |-> IF x \in DOMAIN f THEN f[x] ELSE u[x]]
    BY <1>1 DEF Updated
  <1>3. \A x \in Column : v[x] = IF x \in DOMAIN f THEN f[x] ELSE u[x]
    BY <1>2
  <1>4. \A x \in Column : v[x] \in ColumnType(x)
    BY <1>3, UserColumns DEF Part
  <1>5. v = [x \in Column |-> v[x]]
    BY <1>2
  <1> QED
    BY <1>3, <1>4, <1>5, UserColumns

(* A call goes on: where to, and what it holds then. *)
Same(e) ==
    /\ calls'[e].op = calls[e].op /\ calls'[e].n = calls[e].n
    /\ calls'[e].arg = calls[e].arg /\ calls'[e].before = calls[e].before

Moves(c, at, new, got, cols) ==
    /\ calls' = [d \in Calls |-> calls'[d]]
    /\ \A e \in Calls \ {c} : calls'[e] = calls[e]
    /\ Slot(calls'[c])
    /\ calls'[c].at = at /\ calls'[c].new = new /\ calls'[c].got = got
    /\ calls'[c].cols = cols /\ calls'[c].late = calls[c].late
    /\ Same(c)

LEMMA GoMoves ==
  ASSUME CallsShape, NEW c \in Calls, NEW at, Go(c, at)
  PROVE  Moves(c, at, calls[c].new, calls[c].got, calls[c].cols)
  <1> DEFINE k == [calls[c] EXCEPT !.at = at]
  <1>1. /\ Slot(k) /\ k.at = at
        /\ \A x \in Fields \ {"at"} : k[x] = calls[c][x]
    BY DEF CallsShape, Slot, Fields
  <1>2. calls' = [calls EXCEPT ![c] = k]
    BY DEF Go, CallsShape
  <1> HIDE DEF k
  <1> QED
    BY <1>1, <1>2 DEF Moves, Same, CallsShape, Fields

LEMMA RefuseMoves ==
  ASSUME CallsShape, NEW c \in Calls, Refuse(c)
  PROVE  /\ Moves(c, "replied", calls[c].new, calls[c].got, calls[c].cols)
         /\ calls'[c].answer = "no"
  <1> DEFINE k == [calls[c] EXCEPT !.at = "replied", !.answer = "no"]
  <1>1. /\ Slot(k) /\ k.at = "replied" /\ k.answer = "no"
        /\ \A x \in Fields \ {"at", "answer"} : k[x] = calls[c][x]
    BY DEF CallsShape, Slot, Fields
  <1>2. calls' = [calls EXCEPT ![c] = k]
    BY DEF Refuse, CallsShape
  <1> HIDE DEF k
  <1> QED
    BY <1>1, <1>2 DEF Moves, Same, CallsShape, Fields

LEMMA SucceedMoves ==
  ASSUME CallsShape, NEW c \in Calls, NEW got, Succeed(c, got)
  PROVE  Moves(c, "replied", calls[c].new, got, calls[c].cols)
  <1> DEFINE k == [calls[c] EXCEPT !.at = "replied", !.answer = "ok", !.got = got]
  <1>1. /\ Slot(k) /\ k.at = "replied" /\ k.got = got
        /\ \A x \in Fields \ {"at", "answer", "got"} : k[x] = calls[c][x]
    BY DEF CallsShape, Slot, Fields
  <1>2. calls' = [calls EXCEPT ![c] = k]
    BY DEF Succeed, CallsShape
  <1> HIDE DEF k
  <1> QED
    BY <1>1, <1>2 DEF Moves, Same, CallsShape, Fields

LEMMA NewMoves ==
  ASSUME CallsShape, NEW c \in Calls, NEW at, NEW new,
         calls' = [calls EXCEPT ![c].at = at, ![c].new = new]
  PROVE  Moves(c, at, new, calls[c].got, calls[c].cols)
  <1> DEFINE k == [calls[c] EXCEPT !.at = at, !.new = new]
  <1>1. /\ Slot(k) /\ k.at = at /\ k.new = new
        /\ \A x \in Fields \ {"at", "new"} : k[x] = calls[c][x]
    BY DEF CallsShape, Slot, Fields
  <1>2. calls' = [calls EXCEPT ![c] = k]
    BY DEF CallsShape
  <1> HIDE DEF k
  <1> QED
    BY <1>1, <1>2 DEF Moves, Same, CallsShape, Fields

LEMMA ColsMoves ==
  ASSUME CallsShape, NEW c \in Calls, NEW at, NEW cols,
         calls' = [calls EXCEPT ![c].at = at, ![c].cols = cols]
  PROVE  Moves(c, at, calls[c].new, calls[c].got, cols)
  <1> DEFINE k == [calls[c] EXCEPT !.at = at, !.cols = cols]
  <1>1. /\ Slot(k) /\ k.at = at /\ k.cols = cols
        /\ \A x \in Fields \ {"at", "cols"} : k[x] = calls[c][x]
    BY DEF CallsShape, Slot, Fields
  <1>2. calls' = [calls EXCEPT ![c] = k]
    BY DEF CallsShape
  <1> HIDE DEF k
  <1> QED
    BY <1>1, <1>2 DEF Moves, Same, CallsShape, Fields

LEMMA GotMoves ==
  ASSUME CallsShape, NEW c \in Calls, NEW at, NEW got,
         \/ calls' = [calls EXCEPT ![c].at = at, ![c].got = got]
         \/ calls' = [calls EXCEPT ![c].got = got, ![c].at = at]
  PROVE  Moves(c, at, calls[c].new, got, calls[c].cols)
  <1> DEFINE k == [calls[c] EXCEPT !.at = at, !.got = got]
  <1>1. /\ Slot(k) /\ k.at = at /\ k.got = got
        /\ \A x \in Fields \ {"at", "got"} : k[x] = calls[c][x]
    BY DEF CallsShape, Slot, Fields
  <1>2. calls' = [calls EXCEPT ![c] = k]
    <2>1. [calls[c] EXCEPT !.got = got, !.at = at] = k
      BY DEF CallsShape, Slot, Fields
    <2> QED
      BY <2>1 DEF CallsShape
  <1> HIDE DEF k
  <1> QED
    BY <1>1, <1>2 DEF Moves, Same, CallsShape, Fields

LEMMA IdleSlot ==
  /\ Slot(Idle) /\ Idle.at = "idle" /\ Idle.op = None /\ Idle.n = 0 /\ Idle.arg = None
  /\ Idle.new = None /\ Idle.got = None /\ Idle.cols = <<>> /\ Idle.before = {}
  /\ ~Idle.late /\ Idle.answer = None
  BY DEF Slot, Fields, Idle

LEMMA CallType ==
  ASSUME Typed, NEW c \in Calls
  PROVE  CallsShape /\ CallOK(calls[c])
  BY DEF Typed, CallsTyped

(* Other calls stay as they are when one moves on. *)
LEMMA MovesTyped ==
  ASSUME Typed, NEW c \in Calls, NEW at, NEW new, NEW got, NEW cols,
         Moves(c, at, new, got, cols), CallOK(calls[c])',
         begun' = begun, now' = now
  PROVE  CallsTyped'
  <1>1. ASSUME NEW e \in Calls \ {c} PROVE Slot(calls[e])' /\ CallOK(calls[e])'
    <2>1. calls'[e] = calls[e] /\ Slot(calls[e]) /\ CallOK(calls[e])
      BY CallType DEF Moves, CallsShape
    <2> QED
      BY <2>1 DEF CallOK, Slot
  <1>2. Slot(calls[c])' /\ calls' = [d \in Calls |-> calls'[d]]
    BY DEF Moves, Slot
  <1> QED
    BY <1>1, <1>2 DEF CallsTyped, CallsShape

(* A call that is answered has nothing more to write. *)
LEMMA RepliedOK ==
  ASSUME Typed, NEW c \in Calls, NEW new, NEW got, NEW cols,
         Moves(c, "replied", new, got, cols),
         calls[c].at # "idle", got # None => got \in AnyKey, new = calls[c].new,
         begun' = begun, now' = now
  PROVE  CallOK(calls[c])'
  <1>1. /\ calls'[c].at = "replied" /\ calls'[c].op = calls[c].op
        /\ calls'[c].n = calls[c].n /\ calls'[c].arg = calls[c].arg
        /\ calls'[c].new = calls[c].new /\ calls'[c].got = got
        /\ calls'[c].late = calls[c].late
    BY DEF Moves, Same
  <1>2. CallOK(calls[c])
    BY CallType
  <1>3. OpsAt(calls[c].at) \subseteq Ops
    BY DEF OpsAt, Ops, Finders, Updaters, ByLink
  <1>4. ColsOK(calls[c])'
    BY <1>1 DEF ColsOK, Ahead
  <1>5. OpsAt("replied") = Ops
    BY DEF OpsAt
  <1> QED
    BY <1>1, <1>2, <1>3, <1>4, <1>5 DEF CallOK

LEMMA RefuseTyped ==
  ASSUME Typed, NEW c \in Calls, calls[c].at # "idle", Refuse(c), begun' = begun, now' = now
  PROVE  CallsTyped'
  <1>1. calls[c].got # None => calls[c].got \in AnyKey
    BY CallType DEF CallOK
  <1> QED
    BY <1>1, CallType, RefuseMoves, RepliedOK, MovesTyped

LEMMA SucceedTyped ==
  ASSUME Typed, NEW c \in Calls, calls[c].at # "idle", NEW got, got # None => got \in AnyKey,
         Succeed(c, got), begun' = begun, now' = now
  PROVE  CallsTyped' /\ usedUp' \subseteq AnyKey
  <1>1. CallsTyped'
    BY CallType, SucceedMoves, RepliedOK, MovesTyped
  <1>2. usedUp' \subseteq AnyKey
    BY DEF Succeed, Typed
  <1> QED
    BY <1>1, <1>2

LEMMA ReturnTyped ==
  ASSUME Typed, NEW c \in Calls, calls[c].at # "idle", NEW got, got # None => got \in AnyKey,
         Return(c, got), begun' = begun, now' = now
  PROVE  CallsTyped' /\ usedUp' \subseteq AnyKey
  BY RefuseTyped, SucceedTyped DEF Return, Typed

(* A call that goes on to a place its operation comes to. *)
LEMMA GoesTyped ==
  ASSUME Typed, NEW c \in Calls, NEW at, NEW new, NEW got, NEW cols,
         Moves(c, at, new, got, cols), ColsOK(calls[c])',
         calls[c].at # "idle", at # "idle", calls[c].op \in OpsAt(at),
         at = "set" => new \in (IF calls[c].op = "registerBiometric" THEN {None} ELSE 1..now),
         calls[c].op = "registerBiometric" => new = None,
         got # None => got \in AnyKey,
         begun' = begun, now' = now
  PROVE  CallsTyped'
  <1>1. /\ calls'[c].at = at /\ calls'[c].op = calls[c].op
        /\ calls'[c].n = calls[c].n /\ calls'[c].arg = calls[c].arg
        /\ calls'[c].new = new /\ calls'[c].got = got
        /\ calls'[c].late = calls[c].late
    BY DEF Moves, Same
  <1>2. CallOK(calls[c])
    BY CallType
  <1>3. CallOK(calls[c])'
    BY <1>1, <1>2 DEF CallOK
  <1> QED
    BY <1>3, MovesTyped

(* The calls that have nothing to write yet, or keep what they will write. *)
Plain == {"lookup", "insert", "findFirst", "findAccount", "findAgain", "findById", "compare",
          "delReused", "setLink", "delLink"}

LEMMA PlainColsOK ==
  ASSUME NEW c \in Calls, calls'[c].at \in Plain
  PROVE  ColsOK(calls[c])'
  BY DEF ColsOK, Ahead, Plain

LEMMA FindFirstTyped ==
  ASSUME Typed, NEW c \in Calls, FindFirst(c)
  PROVE  Typed'
  <1>1. calls[c].at = "findFirst" /\ calls[c].op = "oauth" /\ begun' = begun /\ now' = now
    BY CallType DEF FindFirst, rest, CallOK, OpsAt
  <1>2. CallsTyped' /\ usedUp' \subseteq AnyKey
    <2>1. CASE Succeed(c, None)
      BY <1>1, <2>1, SucceedTyped
    <2>2. CASE Go(c, "lookup") /\ UNCHANGED usedUp
      <3>1. Moves(c, "lookup", calls[c].new, calls[c].got, calls[c].cols)
        BY <2>2, CallType, GoMoves
      <3>2. ColsOK(calls[c])'
        BY <3>1, PlainColsOK DEF Moves, Plain
      <3>3. calls[c].op \in OpsAt("lookup")
        BY <1>1 DEF OpsAt
      <3> QED
        BY <1>1, <2>2, <3>1, <3>2, <3>3, GoesTyped, CallType DEF CallOK, Typed
    <2> QED
      BY <2>1, <2>2 DEF FindFirst
  <1> QED
    BY <1>1, <1>2 DEF Typed, FindFirst, rest

LEMMA LookupTyped ==
  ASSUME Typed, NEW c \in Calls, Lookup(c)
  PROVE  Typed'
  <1>1. /\ calls[c].at = "lookup" /\ calls[c].op \in {"register", "oauth"}
        /\ begun' = begun /\ now' = now
    BY CallType DEF Lookup, rest, CallOK, OpsAt
  <1>2. CallsTyped'
    <2>1. CASE Refuse(c)
      BY <1>1, <2>1, RefuseTyped
    <2>2. CASE Go(c, "insert")
      <3>1. Moves(c, "insert", calls[c].new, calls[c].got, calls[c].cols)
        BY <2>2, CallType, GoMoves
      <3>2. ColsOK(calls[c])'
        BY <3>1, PlainColsOK DEF Moves, Plain
      <3>3. calls[c].op \in OpsAt("insert")
        BY <1>1 DEF OpsAt
      <3> QED
        BY <1>1, <3>1, <3>2, <3>3, GoesTyped, CallType DEF CallOK
    <2> QED
      BY <2>1, <2>2 DEF Lookup
  <1> QED
    BY <1>1, <1>2 DEF Typed, Lookup, rest

LEMMA InsertTyped ==
  ASSUME Typed, NEW c \in Calls, Insert(c)
  PROVE  Typed'
  <1>1. calls[c].at # "idle" /\ begun' = begun /\ now' = now
    BY DEF Insert, rest
  <1>2. CallsTyped' /\ usedUp' \subseteq AnyKey
    BY <1>1, RefuseTyped, ReturnTyped DEF Insert, Typed
  <1> QED
    BY <1>1, <1>2 DEF Typed, Insert, rest

LEMMA FindTyped ==
  ASSUME Typed, NEW c \in Calls, Find(c)
  PROVE  Typed'
  <1>1. /\ calls[c].at = "find" /\ calls[c].op \in Updaters \cup ByLink
        /\ begun' = begun /\ now' = now
    BY CallType DEF Find, rest, CallOK, OpsAt
  <1>2. CallsTyped'
    <2>1. CASE Refuse(c)
      BY <1>1, <2>1, RefuseTyped
    <2>2. CASE Go(c, "write")
      <3>1. Moves(c, "write", calls[c].new, calls[c].got, calls[c].cols)
        BY <2>2, CallType, GoMoves
      <3>2. ColsOK(calls[c])'
        <4>1. ColsOK(calls[c])
          BY CallType DEF CallOK
        <4>2. /\ calls'[c].op = calls[c].op /\ calls'[c].n = calls[c].n
              /\ calls'[c].at = "write" /\ calls'[c].cols = calls[c].cols
          BY <3>1 DEF Moves, Same
        <4> QED
          BY <1>1, <4>1, <4>2 DEF ColsOK, Ahead, Updaters, ByLink
      <3>3. calls[c].op \in OpsAt("write")
        BY <1>1 DEF OpsAt
      <3> QED
        BY <1>1, <3>1, <3>2, <3>3, GoesTyped, CallType DEF CallOK
    <2> QED
      BY <2>1, <2>2 DEF Find
  <1> QED
    BY <1>1, <1>2 DEF Typed, Find, rest

LEMMA FindAgainTyped ==
  ASSUME Typed, NEW c \in Calls, FindAgain(c)
  PROVE  Typed'
  <1>1. /\ calls[c].at = "findAgain" /\ begun' = begun /\ now' = now
        /\ calls[c].got # None => calls[c].got \in AnyKey
    BY CallType DEF FindAgain, rest, CallOK
  <1>2. CallsTyped' /\ usedUp' \subseteq AnyKey
    <2>1. CASE Refuse(c) /\ UNCHANGED usedUp
      BY <1>1, <2>1, RefuseTyped DEF Typed
    <2>2. CASE calls[c].op = "reset" /\ Go(c, "del") /\ UNCHANGED usedUp
      <3>1. Moves(c, "del", calls[c].new, calls[c].got, calls[c].cols)
        BY <2>2, CallType, GoMoves
      <3>2. ColsOK(calls[c])'
        BY <2>2, <3>1 DEF Moves, Same, ColsOK, Ahead
      <3>3. calls[c].op \in OpsAt("del")
        BY <2>2 DEF OpsAt
      <3> QED
        BY <1>1, <2>2, <3>1, <3>2, <3>3, GoesTyped, CallType DEF CallOK, Typed
    <2>3. CASE Succeed(c, calls[c].got)
      BY <1>1, <2>3, SucceedTyped
    <2> QED
      BY <2>1, <2>2, <2>3 DEF FindAgain
  <1> QED
    BY <1>1, <1>2 DEF Typed, FindAgain, rest

LEMMA FindAccountTyped ==
  ASSUME Typed, NEW c \in Calls, FindAccount(c)
  PROVE  Typed'
  <1>1. /\ calls[c].at = "findAccount" /\ calls[c].op \in {"sendReset", "requestReset"}
        /\ begun' = begun /\ now' = now /\ now \in 1..now
    BY CallType DEF FindAccount, rest, CallOK, OpsAt, Typed
  <1>2. CallsTyped'
    <2>1. CASE calls[c].op = "requestReset" /\ Go(c, "setLink")
      <3>1. Moves(c, "setLink", calls[c].new, calls[c].got, calls[c].cols)
        BY <2>1, CallType, GoMoves
      <3>2. ColsOK(calls[c])'
        BY <3>1, PlainColsOK DEF Moves, Plain
      <3>3. calls[c].op \in OpsAt("setLink")
        BY <2>1 DEF OpsAt
      <3> QED
        BY <1>1, <3>1, <3>2, <3>3, GoesTyped, CallType DEF CallOK
    <2>2. CASE calls[c].op = "sendReset"
               /\ calls' = [calls EXCEPT ![c].at = "set", ![c].new = now]
      <3>1. Moves(c, "set", now, calls[c].got, calls[c].cols)
        BY <2>2, CallType, NewMoves
      <3>2. ColsOK(calls[c])'
        BY <2>2, <3>1 DEF Moves, Same, ColsOK, Ahead, PasswordOps
      <3>3. calls[c].op \in OpsAt("set")
        BY <2>2 DEF OpsAt
      <3> QED
        BY <1>1, <2>2, <3>1, <3>2, <3>3, GoesTyped, CallType DEF CallOK
    <2> QED
      BY <1>1, <2>1, <2>2 DEF FindAccount
  <1> QED
    BY <1>1, <1>2 DEF Typed, FindAccount, rest

LEMMA CompareTyped ==
  ASSUME Typed, NEW c \in Calls, Compare(c)
  PROVE  Typed'
  <1>1. /\ calls[c].at = "compare" /\ calls[c].op = "authenticate"
        /\ begun' = begun /\ now' = now /\ now \in 1..now
    BY CallType DEF Compare, rest, CallOK, OpsAt, Typed
  <1>2. CallsTyped'
    <2>1. CASE Refuse(c)
      BY <1>1, <2>1, RefuseTyped
    <2>2. CASE calls' = [calls EXCEPT ![c].at = "set", ![c].new = now]
      <3>1. Moves(c, "set", now, calls[c].got, calls[c].cols)
        BY <2>2, CallType, NewMoves
      <3>2. ColsOK(calls[c])'
        BY <1>1, <3>1 DEF Moves, Same, ColsOK, Ahead, PasswordOps
      <3>3. calls[c].op \in OpsAt("set")
        BY <1>1 DEF OpsAt
      <3> QED
        BY <1>1, <3>1, <3>2, <3>3, GoesTyped, CallType DEF CallOK
    <2> QED
      BY <2>1, <2>2 DEF Compare
  <1> QED
    BY <1>1, <1>2 DEF Typed, Compare, rest

(* What an operation goes on with once it has read an active user. *)
Stays(c, at) == Moves(c, at, calls[c].new, calls[c].got, calls[c].cols)

WithCols(c, at, cols) == Moves(c, at, calls[c].new, calls[c].got, cols)

FoundById(c) ==
    \/ calls[c].op = "delete" /\ WithCols(c, "diff", [user EXCEPT !.active = FALSE])
    \/ /\ calls[c].op = "registerBiometric"
       /\ WithCols(c, "set", [methods |-> user.methods \cup {calls[c].arg}])
    \/ /\ calls[c].op = "removeBiometric"
       /\ WithCols(c, "del", IF calls[c].arg \in user.methods
                             THEN [methods |-> user.methods \ {calls[c].arg}] ELSE <<>>)
    \/ calls[c].op = "authenticate" /\ Stays(c, "get")
    \/ calls[c].op = "refresh" /\ Moves(c, "set", now, calls[c].got, calls[c].cols)
    \/ calls[c].op = "sendVerification" /\ Stays(c, "setLink")
    \/ calls[c].op = "generateSecret" /\ WithCols(c, "write", [temp |-> calls[c].n])
    \/ /\ calls[c].op = "enableTwoFactor" /\ user.temp # None
       /\ WithCols(c, "write", [twoFactor |-> TRUE, secret |-> user.temp, temp |-> None])

LEMMA FindByIdMoves ==
  ASSUME Typed, NEW c \in Calls, FindById(c)
  PROVE  /\ calls[c].op \in Finders
         /\ Refuse(c) \/ (user.active /\ FoundById(c))
  <1>1. calls[c].op \in Finders
    BY CallType DEF FindById, CallOK, OpsAt
  <1>2. Refuse(c) \/ user.active
    BY DEF FindById
  <1>3. CallsShape
    BY CallType
  <1>4. ASSUME ~Refuse(c) PROVE FoundById(c)
    <2>1. CASE calls[c].op = "delete"
      <3>1. calls' = [calls EXCEPT ![c].at = "diff", ![c].cols = [user EXCEPT !.active = FALSE]]
        BY <1>4, <2>1 DEF FindById
      <3> QED
        BY <1>3, <2>1, <3>1, ColsMoves DEF FoundById, WithCols
    <2>2. CASE calls[c].op = "registerBiometric"
      <3>1. calls' = [calls EXCEPT ![c].at = "set",
                         ![c].cols = [methods |-> user.methods \cup {calls[c].arg}]]
        BY <1>4, <2>2 DEF FindById, Methods
      <3> QED
        BY <1>3, <2>2, <3>1, ColsMoves DEF FoundById, WithCols
    <2>3. CASE calls[c].op = "removeBiometric"
      <3>1. calls' = [calls EXCEPT ![c].at = "del", ![c].cols =
                         IF calls[c].arg \in user.methods
                         THEN [methods |-> user.methods \ {calls[c].arg}] ELSE <<>>]
        BY <1>4, <2>3 DEF FindById, Methods
      <3> QED
        BY <1>3, <2>3, <3>1, ColsMoves DEF FoundById, WithCols
    <2>4. CASE calls[c].op = "authenticate"
      <3>1. Go(c, "get")
        BY <1>4, <2>4 DEF FindById
      <3> QED
        BY <1>3, <2>4, <3>1, GoMoves DEF FoundById, Stays
    <2>5. CASE calls[c].op = "refresh"
      <3>1. calls' = [calls EXCEPT ![c].at = "set", ![c].new = now]
        BY <1>4, <2>5 DEF FindById
      <3> QED
        BY <1>3, <2>5, <3>1, NewMoves DEF FoundById
    <2>6. CASE calls[c].op = "sendVerification"
      <3>1. Go(c, "setLink")
        BY <1>4, <2>6 DEF FindById
      <3> QED
        BY <1>3, <2>6, <3>1, GoMoves DEF FoundById, Stays
    <2>7. CASE calls[c].op = "generateSecret"
      <3>1. calls' = [calls EXCEPT ![c].at = "write", ![c].cols = [temp |-> calls[c].n]]
        BY <1>4, <2>7 DEF FindById, TempSecret
      <3> QED
        BY <1>3, <2>7, <3>1, ColsMoves DEF FoundById, WithCols
    <2>8. CASE calls[c].op = "enableTwoFactor"
      <3>1. /\ user.temp # None
            /\ calls' = [calls EXCEPT ![c].at = "write", ![c].cols =
                            [twoFactor |-> TRUE, secret |-> user.temp, temp |-> None]]
        BY <1>4, <2>8 DEF FindById, SecondFactorOn
      <3> QED
        BY <1>3, <2>8, <3>1, ColsMoves DEF FoundById, WithCols
    <2> QED
      BY <1>1, <2>1, <2>2, <2>3, <2>4, <2>5, <2>6, <2>7, <2>8 DEF Finders
  <1> QED
    BY <1>1, <1>2, <1>4

LEMMA FindByIdTyped ==
  ASSUME Typed, NEW c \in Calls, FindById(c)
  PROVE  Typed'
  <1>1. /\ calls[c].at = "findById" /\ begun' = begun /\ now' = now /\ now \in 1..now
        /\ calls[c].got # None => calls[c].got \in AnyKey
        /\ user \in User
        /\ calls[c].op = "registerBiometric" => calls[c].new = None
        /\ calls[c].op \in BiometricOps => calls[c].arg \in Types
    BY CallType DEF FindById, rest, CallOK, Typed
  <1>2. CallsTyped'
    <2>1. CASE Refuse(c)
      BY <1>1, <2>1, RefuseTyped
    <2>2. CASE calls[c].op = "delete"
               /\ WithCols(c, "diff", [user EXCEPT !.active = FALSE])
      <3>1. [user EXCEPT !.active = FALSE] \in User
        BY <1>1 DEF User
      <3>2. ColsOK(calls[c])'
        BY <2>2, <3>1 DEF WithCols, Moves, Same, ColsOK, PasswordOps
      <3>3. calls[c].op \in OpsAt("diff")
        BY <2>2 DEF OpsAt
      <3> QED
        BY <1>1, <2>2, <3>2, <3>3, GoesTyped DEF WithCols
    <2>3. CASE calls[c].op = "registerBiometric"
               /\ WithCols(c, "set", [methods |-> user.methods \cup {calls[c].arg}])
      <3>1. user.methods \cup {calls[c].arg} \in SUBSET Types
        BY <1>1, <2>3 DEF User, BiometricOps
      <3>2. ColsOK(calls[c])'
        BY <2>3, <3>1 DEF WithCols, Moves, Same, ColsOK, PasswordOps
      <3>3. calls[c].op \in OpsAt("set")
        BY <2>3 DEF OpsAt
      <3> QED
        BY <1>1, <2>3, <3>2, <3>3, GoesTyped DEF WithCols
    <2>4. CASE calls[c].op = "removeBiometric"
               /\ WithCols(c, "del", IF calls[c].arg \in user.methods
                                THEN [methods |-> user.methods \ {calls[c].arg}] ELSE <<>>)
      <3>1. user.methods \ {calls[c].arg} \in SUBSET Types
        BY <1>1 DEF User
      <3>2. ColsOK(calls[c])'
        BY <2>4, <3>1 DEF WithCols, Moves, Same, ColsOK, PasswordOps
      <3>3. calls[c].op \in OpsAt("del")
        BY <2>4 DEF OpsAt
      <3> QED
        BY <1>1, <2>4, <3>2, <3>3, GoesTyped DEF WithCols
    <2>5. CASE calls[c].op = "authenticate" /\ Stays(c, "get")
      <3>1. ColsOK(calls[c])'
        BY <2>5 DEF Stays, Moves, Same, ColsOK, PasswordOps
      <3>2. calls[c].op \in OpsAt("get")
        BY <2>5 DEF OpsAt
      <3> QED
        BY <1>1, <2>5, <3>1, <3>2, GoesTyped DEF Stays
    <2>6. CASE calls[c].op = "refresh"
               /\ Moves(c, "set", now, calls[c].got, calls[c].cols)
      <3>1. ColsOK(calls[c])'
        BY <2>6 DEF Moves, Same, ColsOK, PasswordOps
      <3>2. calls[c].op \in OpsAt("set")
        BY <2>6 DEF OpsAt
      <3> QED
        BY <1>1, <2>6, <3>1, <3>2, GoesTyped
    <2>7. CASE calls[c].op = "sendVerification" /\ Stays(c, "setLink")
      <3>1. ColsOK(calls[c])'
        BY <2>7, PlainColsOK DEF Stays, Moves, Plain
      <3>2. calls[c].op \in OpsAt("setLink")
        BY <2>7 DEF OpsAt
      <3> QED
        BY <1>1, <2>7, <3>1, <3>2, GoesTyped DEF Stays
    <2>8. CASE calls[c].op = "generateSecret" /\ WithCols(c, "write", [temp |-> calls[c].n])
      <3>1. ColsOK(calls[c])'
        BY <2>8 DEF WithCols, Moves, Same, ColsOK, PasswordOps
      <3>2. calls[c].op \in OpsAt("write")
        BY <2>8 DEF OpsAt
      <3> QED
        BY <1>1, <2>8, <3>1, <3>2, GoesTyped DEF WithCols
    <2>9. CASE calls[c].op = "enableTwoFactor" /\ user.temp # None
               /\ WithCols(c, "write", [twoFactor |-> TRUE, secret |-> user.temp, temp |-> None])
      <3>1. user.temp \in 0..MaxCalls + 1
        BY <1>1, <2>9 DEF User
      <3>2. ColsOK(calls[c])'
        BY <2>9, <3>1 DEF WithCols, Moves, Same, ColsOK, PasswordOps
      <3>3. calls[c].op \in OpsAt("write")
        BY <2>9 DEF OpsAt
      <3> QED
        BY <1>1, <2>9, <3>2, <3>3, GoesTyped DEF WithCols
    <2> QED
      BY <2>1, <2>2, <2>3, <2>4, <2>5, <2>6, <2>7, <2>8, <2>9, FindByIdMoves DEF FoundById
  <1> QED
    BY <1>1, <1>2 DEF Typed, FindById, rest

(* The columns in which a user that was read differs from the row. *)
LEMMA DiffMoves ==
  ASSUME Typed, NEW c \in Calls, Diff(c)
  PROVE  /\ calls[c].op = "delete" /\ calls[c].cols \in User
         /\ \/ Succeed(c, None)
            \/ \E differ \in SUBSET Column :
                  /\ WithCols(c, "write", [x \in differ |-> calls[c].cols[x]])
                  /\ UNCHANGED usedUp
  <1>1. calls[c].op = "delete" /\ calls[c].cols \in User /\ user \in User
    BY CallType DEF Diff, CallOK, OpsAt, ColsOK, Typed
  <1> DEFINE differ == {x \in DOMAIN user : calls[c].cols[x] # user[x]}
  <1>2. differ \in SUBSET Column
    BY <1>1, UserColumns
  <1>3. CASE differ = {}
    BY <1>1, <1>3 DEF Diff
  <1>4. CASE differ # {}
    <2>1. /\ calls' = [calls EXCEPT ![c].at = "write",
                          ![c].cols = [x \in differ |-> calls[c].cols[x]]]
          /\ UNCHANGED usedUp
      BY <1>4 DEF Diff
    <2> HIDE DEF differ
    <2> QED
      BY <1>1, <1>2, <2>1, CallType, ColsMoves DEF WithCols
  <1> QED
    BY <1>3, <1>4

LEMMA DiffTyped ==
  ASSUME Typed, NEW c \in Calls, Diff(c)
  PROVE  Typed'
  <1>1. /\ calls[c].at = "diff" /\ begun' = begun /\ now' = now
        /\ calls[c].op = "delete" /\ calls[c].cols \in User
        /\ calls[c].got # None => calls[c].got \in AnyKey
    BY CallType, DiffMoves DEF Diff, rest, CallOK
  <1>2. CallsTyped' /\ usedUp' \subseteq AnyKey
    <2>1. CASE Succeed(c, None)
      BY <1>1, <2>1, SucceedTyped
    <2>2. ASSUME NEW differ \in SUBSET Column, UNCHANGED usedUp,
                 WithCols(c, "write", [x \in differ |-> calls[c].cols[x]])
          PROVE  CallsTyped' /\ usedUp' \subseteq AnyKey
      <3>1. Part([x \in differ |-> calls[c].cols[x]])
        BY <1>1, UserColumns DEF Part
      <3>2. ColsOK(calls[c])'
        BY <1>1, <2>2, <3>1 DEF WithCols, Moves, Same, ColsOK, PasswordOps
      <3>3. calls[c].op \in OpsAt("write")
        BY <1>1 DEF OpsAt
      <3> QED
        BY <1>1, <2>2, <3>2, <3>3, GoesTyped DEF WithCols, Typed
    <2> QED
      BY <2>1, <2>2, DiffMoves
  <1> QED
    BY <1>2 DEF Typed, Diff, rest

-----------------------------------------------------------------------------
(* The keys that operations are about.                                       *)

LEMMA KindType ==
  ASSUME Typed, NEW c \in Calls
  PROVE  /\ calls[c].op \in {"sendReset", "reset"} => KindOf(c) = "reset"
         /\ calls[c].op \in {"login", "refresh", "logout"} => KindOf(c) = "refresh"
         /\ calls[c].op \in {"requestReset", "resetByLink"} => KindOf(c) = "resetLink"
         /\ calls[c].op \in {"sendVerification", "verifyByLink"} =>
               KindOf(c) = "verificationLink"
         /\ calls[c].op \in BiometricOps /\ calls[c].at # "idle" =>
               KindOf(c) = calls[c].arg /\ KindOf(c) \in Types
         /\ calls[c].at \in {"get", "set", "del"} => KindOf(c) \in Kinds
         /\ calls[c].at \in {"setLink", "getLink", "delLink"} => KindOf(c) \in LinkKinds
  <1>1. calls[c].op \in BiometricOps /\ calls[c].at # "idle" =>
           KindOf(c) = calls[c].arg /\ KindOf(c) \in Types
    BY CallType DEF KindOf, CallOK, BiometricOps
  <1>2. /\ calls[c].op \in {"sendReset", "reset"} => KindOf(c) = "reset"
        /\ calls[c].op \in {"login", "refresh", "logout"} => KindOf(c) = "refresh"
        /\ calls[c].op \in {"requestReset", "resetByLink"} => KindOf(c) = "resetLink"
        /\ calls[c].op \in {"sendVerification", "verifyByLink"} =>
              KindOf(c) = "verificationLink"
    BY DEF KindOf
  <1>3. /\ calls[c].at \in {"get", "set", "del"} =>
              calls[c].op \in {"sendReset", "reset", "login", "refresh", "logout"} \cup BiometricOps
        /\ calls[c].at \in {"setLink", "getLink", "delLink"} =>
              calls[c].op \in {"requestReset", "sendVerification"} \cup ByLink
    BY CallType DEF CallOK, OpsAt, BiometricOps, ByLink
  <1> QED
    BY <1>1, <1>2, <1>3 DEF Kinds, LinkKinds, ByLink

LEMMA KindsApart ==
  /\ "reset" \notin Types /\ "refresh" \notin Types /\ Types \subseteq Kinds
  /\ "reset" \in Kinds /\ "refresh" \in Kinds /\ Kinds \cap LinkKinds = {}
  BY AccountsAssumption DEF Kinds, LinkKinds

LEMMA KeyType ==
  ASSUME Typed, NEW kind \in Kinds
  PROVE  /\ stored[kind] # None =>
               Key(kind) = [kind |-> kind, by |-> stored[kind].by] /\ Key(kind) \in AnyKey
         /\ stored[kind] = None => Key(kind) = None
         /\ Key(kind) # None => Key(kind) \in AnyKey
  BY DEF Typed, Key, AnyKey

(* Who gets a key that is stored remembers it. *)
GotKey(c) ==
    \/ calls[c].op = "authenticate" /\ Moves(c, "compare", calls[c].new, Key(KindOf(c)), calls[c].cols)
    \/ calls[c].op = "reset" /\ Moves(c, "find", calls[c].new, Key(KindOf(c)), calls[c].cols)
    \/ calls[c].op = "refresh" /\ Moves(c, "findById", calls[c].new, Key(KindOf(c)), calls[c].cols)

LEMMA GetMoves ==
  ASSUME Typed, NEW c \in Calls, Get(c)
  PROVE  \/ Refuse(c)
         \/ stored[KindOf(c)] # None /\ GotKey(c)
         \/ calls[c].op = "refresh" /\ Stays(c, "delReused")
  <1>1. calls[c].op \in {"reset", "refresh", "authenticate"} /\ CallsShape
    BY CallType DEF Get, CallOK, OpsAt
  <1>2. CASE calls[c].op = "authenticate"
    <2>1. CASE stored[KindOf(c)] = None
      BY <1>2, <2>1 DEF Get
    <2>2. CASE stored[KindOf(c)] # None
      <3>1. calls' = [calls EXCEPT ![c].got = Key(KindOf(c)), ![c].at = "compare"]
        BY <1>2, <2>2 DEF Get
      <3> QED
        BY <1>1, <1>2, <2>2, <3>1, GotMoves DEF GotKey
    <2> QED
      BY <2>1, <2>2
  <1>3. CASE calls[c].op = "reset"
    <2>1. CASE stored[KindOf(c)] # None /\ stored[KindOf(c)].t = calls[c].arg
      <3>1. calls' = [calls EXCEPT ![c].got = Key(KindOf(c)), ![c].at = "find"]
        BY <1>3, <2>1 DEF Get
      <3> QED
        BY <1>1, <1>3, <2>1, <3>1, GotMoves DEF GotKey
    <2>2. CASE ~(stored[KindOf(c)] # None /\ stored[KindOf(c)].t = calls[c].arg)
      BY <1>3, <2>2 DEF Get
    <2> QED
      BY <2>1, <2>2
  <1>4. CASE calls[c].op = "refresh"
    <2>1. CASE stored[KindOf(c)] # None /\ stored[KindOf(c)].t = calls[c].arg
      <3>1. calls' = [calls EXCEPT ![c].got = Key(KindOf(c)), ![c].at = "findById"]
        BY <1>4, <2>1 DEF Get
      <3> QED
        BY <1>1, <1>4, <2>1, <3>1, GotMoves DEF GotKey
    <2>2. CASE ~(stored[KindOf(c)] # None /\ stored[KindOf(c)].t = calls[c].arg)
      <3>1. Go(c, "delReused")
        BY <1>4, <2>2 DEF Get
      <3> QED
        BY <1>1, <1>4, <3>1, GoMoves DEF Stays
    <2> QED
      BY <2>1, <2>2
  <1> QED
    BY <1>1, <1>2, <1>3, <1>4

LEMMA GetTyped ==
  ASSUME Typed, NEW c \in Calls, Get(c)
  PROVE  Typed'
  <1>1. /\ calls[c].at = "get" /\ begun' = begun /\ now' = now
        /\ calls[c].got # None => calls[c].got \in AnyKey
        /\ calls[c].op = "registerBiometric" => calls[c].new = None
        /\ ColsOK(calls[c]) /\ KindOf(c) \in Kinds
    BY CallType, KindType DEF Get, rest, CallOK
  <1>2. CallsTyped'
    <2>1. CASE Refuse(c)
      BY <1>1, <2>1, RefuseTyped
    <2>2. CASE calls[c].op = "authenticate"
               /\ Moves(c, "compare", calls[c].new, Key(KindOf(c)), calls[c].cols)
      <3>1. ColsOK(calls[c])'
        BY <2>2, PlainColsOK DEF Moves, Plain
      <3>2. calls[c].op \in OpsAt("compare")
        BY <2>2 DEF OpsAt
      <3> QED
        BY <1>1, <2>2, <3>1, <3>2, GoesTyped, KeyType
    <2>3. CASE calls[c].op = "reset"
               /\ Moves(c, "find", calls[c].new, Key(KindOf(c)), calls[c].cols)
      <3>1. ColsOK(calls[c])'
        BY <1>1, <2>3 DEF Moves, Same, ColsOK, Ahead
      <3>2. calls[c].op \in OpsAt("find")
        BY <2>3 DEF OpsAt, Updaters
      <3> QED
        BY <1>1, <2>3, <3>1, <3>2, GoesTyped, KeyType
    <2>4. CASE calls[c].op = "refresh"
               /\ Moves(c, "findById", calls[c].new, Key(KindOf(c)), calls[c].cols)
      <3>1. ColsOK(calls[c])'
        BY <2>4, PlainColsOK DEF Moves, Plain
      <3>2. calls[c].op \in OpsAt("findById")
        BY <2>4 DEF OpsAt, Finders
      <3> QED
        BY <1>1, <2>4, <3>1, <3>2, GoesTyped, KeyType
    <2>5. CASE calls[c].op = "refresh" /\ Stays(c, "delReused")
      <3>1. ColsOK(calls[c])'
        BY <2>5, PlainColsOK DEF Stays, Moves, Plain
      <3>2. calls[c].op \in OpsAt("delReused")
        BY <2>5 DEF OpsAt
      <3> QED
        BY <1>1, <2>5, <3>1, <3>2, GoesTyped DEF Stays
    <2> QED
      BY <2>1, <2>2, <2>3, <2>4, <2>5, GetMoves DEF GotKey
  <1> QED
    BY <1>2 DEF Typed, Get, rest

(* Keys that are stored, as they are after a SET and after a DEL. *)
StoredTyped ==
    /\ stored = [kind \in Kinds |-> stored[kind]]
    /\ \A kind \in Kinds : stored[kind] # None =>
          /\ stored[kind].by \in 1..MaxCalls
          /\ stored[kind].t \in (IF kind \in Types THEN {None} ELSE 1..now)

LEMMA RemovedTyped ==
  ASSUME Typed, NEW S,
         \/ stored' = [kind \in Kinds |-> IF kind \in S THEN None ELSE stored[kind]]
         \/ \E kind \in S : stored' = [stored EXCEPT ![kind] = None],
         now' = now
  PROVE  StoredTyped'
  BY DEF Typed, StoredTyped

LEMMA SetTyped ==
  ASSUME Typed, NEW c \in Calls, Set(c)
  PROVE  Typed'
  <1> DEFINE kind == StoredUnder(c)
             key == [t |-> calls[c].new, by |-> calls[c].n]
  <1>1. /\ calls[c].at = "set" /\ begun' = begun /\ now' = now
        /\ calls[c].op \in {"sendReset", "registerBiometric", "authenticate", "login", "refresh"}
    BY CallType DEF Set, rest, CallOK, OpsAt
  <1>2. /\ calls[c].got # None => calls[c].got \in AnyKey
        /\ calls[c].n \in 1..MaxCalls
        /\ calls[c].new \in (IF calls[c].op = "registerBiometric" THEN {None} ELSE 1..now)
        /\ calls[c].op = "registerBiometric" => calls[c].new = None
        /\ ColsOK(calls[c])
    BY <1>1, CallType, AccountsAssumption DEF CallOK, Typed
  <1>3. kind \in Kinds /\ (kind \in Types <=> calls[c].op = "registerBiometric")
    BY <1>1, KindType, KindsApart DEF StoredUnder, BiometricOps
  <1>4. StoredTyped'
    <2>1. stored' = [stored EXCEPT ![kind] = key]
      BY DEF Set
    <2>2. key.by \in 1..MaxCalls /\ key.t \in (IF kind \in Types THEN {None} ELSE 1..now)
      BY <1>1, <1>2, <1>3
    <2> HIDE DEF kind, key
    <2> QED
      BY <1>1, <1>2, <1>3, <2>1, <2>2 DEF Typed, StoredTyped
  <1>5. CallsTyped' /\ usedUp' \subseteq AnyKey
    <2>1. CASE calls[c].op = "refresh" /\ Go(c, "del") /\ UNCHANGED usedUp
      <3>1. Moves(c, "del", calls[c].new, calls[c].got, calls[c].cols)
        BY <2>1, CallType, GoMoves
      <3>2. ColsOK(calls[c])'
        BY <2>1, <3>1 DEF Moves, Same, ColsOK, Ahead, PasswordOps
      <3>3. calls[c].op \in OpsAt("del")
        BY <2>1 DEF OpsAt
      <3> QED
        BY <1>1, <1>2, <2>1, <3>1, <3>2, <3>3, GoesTyped DEF Typed
    <2>2. CASE calls[c].op = "registerBiometric" /\ Go(c, "find") /\ UNCHANGED usedUp
      <3>1. Moves(c, "find", calls[c].new, calls[c].got, calls[c].cols)
        BY <2>2, CallType, GoMoves
      <3>2. ColsOK(calls[c])'
        BY <1>1, <1>2, <2>2, <3>1 DEF Moves, Same, ColsOK, Ahead, PasswordOps
      <3>3. calls[c].op \in OpsAt("find")
        BY <2>2 DEF OpsAt, Updaters
      <3> QED
        BY <1>1, <1>2, <2>2, <3>1, <3>2, <3>3, GoesTyped DEF Typed
    <2>3. CASE Return(c, calls[c].got)
      BY <1>1, <1>2, <2>3, ReturnTyped
    <2> QED
      BY <2>1, <2>2, <2>3 DEF Set
  <1> QED
    BY <1>4, <1>5 DEF Typed, StoredTyped, Set, rest

(* What DEL leaves of a call. *)
Gone(c) ==
    IF calls[c].op \in {"logout", "removeBiometric"} THEN Key(KindOf(c)) ELSE calls[c].got

LEMMA DelMoves ==
  ASSUME Typed, NEW c \in Calls, Del(c)
  PROVE  /\ calls[c].at = "del"
         /\ calls[c].op \in {"reset", "removeBiometric", "refresh", "logout"}
         /\ KindOf(c) \in Kinds
         /\ stored' = [kind \in Kinds |-> IF kind \in {KindOf(c)} THEN None ELSE stored[kind]]
         /\ Gone(c) # None => Gone(c) \in AnyKey
         /\ \/ /\ calls[c].op = "removeBiometric" /\ calls[c].cols # <<>>
               /\ Moves(c, "find", calls[c].new, Gone(c), calls[c].cols)
               /\ UNCHANGED usedUp
            \/ Return(c, Gone(c))
  <1>1. /\ calls[c].at = "del"
        /\ calls[c].op \in {"reset", "removeBiometric", "refresh", "logout"}
        /\ calls[c].got # None => calls[c].got \in AnyKey
    BY CallType DEF Del, CallOK, OpsAt
  <1>2. KindOf(c) \in Kinds /\ (Gone(c) # None => Gone(c) \in AnyKey)
    BY <1>1, KindType, KeyType DEF Gone
  <1>3. \/ /\ calls[c].op = "removeBiometric" /\ calls[c].cols # <<>>
           /\ calls' = [calls EXCEPT ![c].at = "find", ![c].got = Gone(c)]
           /\ UNCHANGED usedUp
        \/ Return(c, Gone(c))
    BY DEF Del, Gone
  <1>4. calls' = [calls EXCEPT ![c].at = "find", ![c].got = Gone(c)] =>
           Moves(c, "find", calls[c].new, Gone(c), calls[c].cols)
    BY CallType, GotMoves
  <1> QED
    BY <1>1, <1>2, <1>3, <1>4 DEF Del, Deleted

LEMMA DelTyped ==
  ASSUME Typed, NEW c \in Calls, Del(c)
  PROVE  Typed'
  <1>1. /\ calls[c].at = "del" /\ begun' = begun /\ now' = now
        /\ calls[c].op = "registerBiometric" => calls[c].new = None
        /\ ColsOK(calls[c])
    BY CallType DEF Del, rest, CallOK
  <1>2. StoredTyped'
    BY <1>1, DelMoves, RemovedTyped
  <1>3. CallsTyped' /\ usedUp' \subseteq AnyKey
    <2>1. CASE /\ calls[c].op = "removeBiometric" /\ calls[c].cols # <<>>
               /\ Moves(c, "find", calls[c].new, Gone(c), calls[c].cols)
               /\ UNCHANGED usedUp
      <3>1. ColsOK(calls[c])'
        BY <1>1, <2>1 DEF Moves, Same, ColsOK, Ahead, PasswordOps
      <3>2. calls[c].op \in OpsAt("find")
        BY <2>1 DEF OpsAt, Updaters
      <3>3. Gone(c) # None => Gone(c) \in AnyKey
        BY DelMoves
      <3> QED
        BY <1>1, <2>1, <3>1, <3>2, <3>3, GoesTyped DEF Typed
    <2>2. CASE Return(c, Gone(c))
      BY <1>1, <2>2, DelMoves, ReturnTyped
    <2> QED
      BY <2>1, <2>2, DelMoves
  <1> QED
    BY <1>2, <1>3 DEF Typed, StoredTyped, Del, rest

LEMMA DelReusedTyped ==
  ASSUME Typed, NEW c \in Calls, DelReused(c)
  PROVE  Typed'
  <1>1. calls[c].at # "idle" /\ begun' = begun /\ now' = now
    BY DEF DelReused, rest
  <1>2. StoredTyped'
    BY <1>1, RemovedTyped DEF DelReused
  <1>3. CallsTyped'
    BY <1>1, RefuseTyped DEF DelReused
  <1> QED
    BY <1>2, <1>3 DEF Typed, StoredTyped, DelReused, rest

LEMMA SetLinkTyped ==
  ASSUME Typed, NEW c \in Calls, SetLink(c)
  PROVE  Typed'
  <1>1. /\ calls[c].at = "setLink" /\ begun' = begun /\ now' = now
    BY DEF SetLink, Mailed, rest
  <1>2. links' \subseteq [kind : LinkKinds, by : 1..MaxCalls]
    <2>1. KindOf(c) \in LinkKinds
      BY <1>1, KindType
    <2>2. calls[c].n \in 1..MaxCalls
      BY <1>1, CallType, AccountsAssumption DEF CallOK, Typed
    <2> QED
      BY <2>1, <2>2 DEF SetLink, Mailed, Typed
  <1>3. CallsTyped' /\ usedUp' \subseteq AnyKey
    BY <1>1, ReturnTyped DEF SetLink, Mailed
  <1> QED
    BY <1>2, <1>3 DEF Typed, SetLink, Mailed, rest

LEMMA GetLinkMoves ==
  ASSUME Typed, NEW c \in Calls, GetLink(c)
  PROVE  /\ calls[c].op \in ByLink
         /\ \/ Refuse(c)
            \/ \E link \in links :
                  /\ link.kind = KindOf(c) /\ link \in AnyKey
                  /\ Moves(c, "find", calls[c].new, link, calls[c].cols)
  <1> DEFINE link == [kind |-> KindOf(c), by |-> calls[c].arg]
  <1>1. calls[c].op \in ByLink
    BY CallType DEF GetLink, CallOK, OpsAt
  <1>2. CASE link \notin links
    BY <1>1, <1>2 DEF GetLink
  <1>3. CASE link \in links
    <2>1. calls' = [calls EXCEPT ![c].got = link, ![c].at = "find"]
      BY <1>3 DEF GetLink
    <2>2. link.kind = KindOf(c) /\ link \in AnyKey
      BY <1>3 DEF Typed, AnyKey
    <2> HIDE DEF link
    <2>3. Moves(c, "find", calls[c].new, link, calls[c].cols)
      BY <2>1, CallType, GotMoves
    <2> QED
      BY <1>1, <1>3, <2>2, <2>3
  <1> QED
    BY <1>2, <1>3

LEMMA GetLinkTyped ==
  ASSUME Typed, NEW c \in Calls, GetLink(c)
  PROVE  Typed'
  <1>1. /\ calls[c].at = "getLink" /\ begun' = begun /\ now' = now
        /\ calls[c].op = "registerBiometric" => calls[c].new = None
        /\ ColsOK(calls[c]) /\ calls[c].op \in ByLink
    BY CallType, GetLinkMoves DEF GetLink, rest, CallOK
  <1>2. CallsTyped'
    <2>1. CASE Refuse(c)
      BY <1>1, <2>1, RefuseTyped
    <2>2. ASSUME NEW link \in links, link \in AnyKey,
                 Moves(c, "find", calls[c].new, link, calls[c].cols)
          PROVE  CallsTyped'
      <3>1. ColsOK(calls[c])'
        BY <1>1, <2>2 DEF Moves, Same, ColsOK, Ahead, ByLink
      <3>2. calls[c].op \in OpsAt("find")
        BY <1>1 DEF OpsAt
      <3> QED
        BY <1>1, <2>2, <3>1, <3>2, GoesTyped
    <2> QED
      BY <2>1, <2>2, GetLinkMoves
  <1> QED
    BY <1>2 DEF Typed, GetLink, rest

LEMMA DelLinkTyped ==
  ASSUME Typed, NEW c \in Calls, DelLink(c)
  PROVE  Typed'
  <1>1. /\ calls[c].at = "delLink" /\ begun' = begun /\ now' = now
        /\ calls[c].got # None => calls[c].got \in AnyKey
    BY CallType DEF DelLink, rest, CallOK
  <1>2. links' \subseteq links
    BY DEF DelLink
  <1>3. CallsTyped' /\ usedUp' \subseteq AnyKey
    BY <1>1, ReturnTyped DEF DelLink
  <1> QED
    BY <1>2, <1>3 DEF Typed, DelLink, rest

LEMMA FailTyped ==
  ASSUME Typed, NEW c \in Calls, Fail(c)
  PROVE  Typed'
  <1>1. CallsTyped'
    BY RefuseTyped DEF Fail, Busy
  <1>2. raced' \in BOOLEAN
    BY DEF Fail, Typed
  <1> QED
    BY <1>1, <1>2 DEF Typed, Fail

LEMMA IdleOK == CallOK(Idle)
  <1>1. Idle.late \in BOOLEAN
    BY DEF Idle
  <1>2. ColsOK(Idle)
    BY IdleSlot DEF ColsOK, Ahead
  <1> QED
    BY <1>1, <1>2, IdleSlot DEF CallOK

LEMMA FinishTyped ==
  ASSUME Typed, NEW c \in Calls, Finish(c)
  PROVE  Typed'
  <1>1. begun' = begun /\ now' = now /\ calls' = [calls EXCEPT ![c] = Idle]
    BY DEF Finish, rest
  <1>2. \A e \in Calls : calls'[e] = Idle \/ calls'[e] = calls[e]
    BY <1>1, CallType DEF CallsShape
  <1>3. ASSUME NEW e \in Calls PROVE Slot(calls[e])' /\ CallOK(calls[e])'
    <2>1. CASE calls'[e] = Idle
      BY <1>1, <2>1, IdleOK, IdleSlot DEF CallOK, ColsOK
    <2>2. CASE calls'[e] = calls[e]
      BY <1>1, <2>2, CallType DEF CallOK, CallsShape
    <2> QED
      BY <1>2, <2>1, <2>2
  <1>4. CallsTyped'
    BY <1>1, <1>3, CallType DEF CallsTyped, CallsShape
  <1> QED
    BY <1>4 DEF Typed, Finish, rest

-----------------------------------------------------------------------------
(* UPDATEs.                                                                  *)

LEMMA WritePart ==
  ASSUME Typed, NEW c \in Calls, calls[c].at = "write"
  PROVE  /\ calls[c].op \in OpsAt("write") /\ calls[c].n \in 0..MaxCalls
         /\ Part(calls[c].cols)
  <1>1. calls[c].op \in OpsAt("write") /\ calls[c].n \in 0..MaxCalls /\ ColsOK(calls[c])
    BY CallType, AccountsAssumption DEF CallOK, Typed
  <1>2. ASSUME calls[c].cols = [password |-> calls[c].n] PROVE Part(calls[c].cols)
    <2>1. DOMAIN calls[c].cols = {"password"} /\ calls[c].cols.password = calls[c].n
      BY <1>2
    <2>2. "password" \in Column /\ calls[c].cols.password \in ColumnType("password")
      BY <1>1, <2>1 DEF Column, ColumnType
    <2> QED
      BY <2>1, <2>2 DEF Part
  <1>3. ASSUME calls[c].cols = [active |-> TRUE] PROVE Part(calls[c].cols)
    <2>1. DOMAIN calls[c].cols = {"active"} /\ calls[c].cols.active = TRUE
      BY <1>3
    <2>2. "active" \in Column /\ calls[c].cols.active \in ColumnType("active")
      BY <1>1, <2>1 DEF Column, ColumnType
    <2> QED
      BY <2>1, <2>2 DEF Part
  <1>4. ASSUME calls[c].cols = [emailVerified |-> TRUE] PROVE Part(calls[c].cols)
    <2>1. DOMAIN calls[c].cols = {"emailVerified"} /\ calls[c].cols.emailVerified = TRUE
      BY <1>4
    <2>2. "emailVerified" \in Column /\ calls[c].cols.emailVerified \in ColumnType("emailVerified")
      BY <1>1, <2>1 DEF Column, ColumnType
    <2> QED
      BY <2>1, <2>2 DEF Part
  <1>5. ASSUME calls[c].cols = [profile |-> calls[c].n] PROVE Part(calls[c].cols)
    <2>1. DOMAIN calls[c].cols = {"profile"} /\ calls[c].cols.profile = calls[c].n
      BY <1>5
    <2>2. "profile" \in Column /\ calls[c].cols.profile \in ColumnType("profile")
      BY <1>1, <2>1 DEF Column, ColumnType
    <2> QED
      BY <2>1, <2>2 DEF Part
  <1>6. ASSUME calls[c].cols = SecondFactorOff PROVE Part(calls[c].cols)
    <2>1. DOMAIN calls[c].cols = {"twoFactor", "secret", "temp"}
      BY <1>6 DEF SecondFactorOff
    <2>2. /\ calls[c].cols.twoFactor \in BOOLEAN /\ calls[c].cols.temp = None
          /\ calls[c].cols.secret = None
      BY <1>6 DEF SecondFactorOff
    <2> QED
      BY <2>1, <2>2 DEF Part, Column, ColumnType
  <1>7. ASSUME calls[c].cols = [temp |-> calls[c].n] PROVE Part(calls[c].cols)
    <2>1. calls[c].n \in 0..MaxCalls + 1
      BY <1>1, AccountsAssumption
    <2> QED
      BY <1>1, <1>7, <2>1 DEF Part, Column, ColumnType
  <1>8. ASSUME NEW m \in SUBSET Types, calls[c].cols = [methods |-> m]
        PROVE  Part(calls[c].cols)
    BY <1>8 DEF Part, Column, ColumnType
  <1>9. ASSUME NEW x \in 0..MaxCalls + 1,
               calls[c].cols = [twoFactor |-> TRUE, secret |-> x, temp |-> None]
        PROVE  Part(calls[c].cols)
    <2>1. DOMAIN calls[c].cols = {"twoFactor", "secret", "temp"}
      BY <1>9
    <2>2. /\ calls[c].cols.twoFactor \in BOOLEAN /\ calls[c].cols.temp = None
          /\ calls[c].cols.secret \in 0..MaxCalls + 1
      BY <1>9
    <2> QED
      BY <2>1, <2>2 DEF Part, Column, ColumnType
  <1>10. \/ calls[c].cols = [password |-> calls[c].n]
         \/ calls[c].cols = [active |-> TRUE]
         \/ calls[c].cols = [emailVerified |-> TRUE]
         \/ calls[c].cols = [profile |-> calls[c].n]
         \/ calls[c].cols = SecondFactorOff
         \/ calls[c].cols = [temp |-> calls[c].n]
         \/ \E m \in SUBSET Types : calls[c].cols = [methods |-> m]
         \/ \E x \in 0..MaxCalls + 1 :
                calls[c].cols = [twoFactor |-> TRUE, secret |-> x, temp |-> None]
         \/ Part(calls[c].cols)
    BY <1>1 DEF ColsOK, OpsAt, Updaters, ByLink, Ahead, PasswordOps
  <1> QED
    BY <1>1, <1>2, <1>3, <1>4, <1>5, <1>6, <1>7, <1>8, <1>9, <1>10

LEMMA WriteMoves ==
  ASSUME Typed, NEW c \in Calls, Write(c)
  PROVE  /\ calls[c].at = "write" /\ Part(calls[c].cols)
         /\ user' \in User
         /\ \A x \in Column : user'[x] = IF x \in DOMAIN calls[c].cols
                                       THEN calls[c].cols[x] ELSE user[x]
         /\ CallsShape'
         /\ \A e \in Calls :
               /\ Same(e) /\ calls'[e].new = calls[e].new /\ calls'[e].got = calls[e].got
               /\ calls'[e].cols = calls[e].cols
               /\ calls'[e].late \in BOOLEAN
               /\ calls'[e].late <=> calls[e].late /\ ~user'.active
               /\ calls'[e].at = IF e = c THEN AfterWrite(c) ELSE calls[e].at
  <1> DEFINE fresh == [d \in Calls |-> [calls[d] EXCEPT !.late = @ /\ ~user'.active]]
  <1>1. calls[c].at = "write" /\ Part(calls[c].cols) /\ user \in User
    BY WritePart DEF Write, Typed
  <1>2. /\ user' \in User
        /\ \A x \in Column : user'[x] = IF x \in DOMAIN calls[c].cols
                                      THEN calls[c].cols[x] ELSE user[x]
    BY <1>1, MergeType DEF Write
  <1>3. ASSUME NEW e \in Calls
        PROVE  /\ Slot(fresh[e]) /\ fresh[e].at = calls[e].at
               /\ \A x \in Fields \ {"late"} : fresh[e][x] = calls[e][x]
               /\ fresh[e].late \in BOOLEAN
               /\ fresh[e].late <=> calls[e].late /\ ~user'.active
    <2>1. Slot(calls[e]) /\ calls[e].late \in BOOLEAN
      BY CallType DEF CallsShape, CallOK
    <2>2. fresh[e] = [calls[e] EXCEPT !.late = calls[e].late /\ ~user'.active]
      OBVIOUS
    <2> HIDE DEF fresh
    <2> QED
      BY <2>1, <2>2 DEF Slot, Fields
  <1>4. \/ calls' = [fresh EXCEPT ![c].at = AfterWrite(c)]
        \/ /\ AfterWrite(c) = "replied"
           /\ \E answer \in {"ok", "no"} :
                 calls' = [fresh EXCEPT ![c].at = "replied", ![c].answer = answer]
    BY DEF Write
  <1>5. fresh = [d \in Calls |-> fresh[d]]
    OBVIOUS
  <1> HIDE DEF fresh
  <1>6. /\ CallsShape'
        /\ \A e \in Calls \ {c} : calls'[e] = fresh[e]
        /\ calls'[c].at = AfterWrite(c)
        /\ \A x \in Fields \ {"at", "answer"} : calls'[c][x] = fresh[c][x]
    <2>1. CASE calls' = [fresh EXCEPT ![c].at = AfterWrite(c)]
      BY <1>3, <1>5, <2>1 DEF CallsShape, Slot, Fields
    <2>2. ASSUME AfterWrite(c) = "replied", NEW answer \in {"ok", "no"},
                 calls' = [fresh EXCEPT ![c].at = "replied", ![c].answer = answer]
          PROVE  /\ CallsShape'
                 /\ \A e \in Calls \ {c} : calls'[e] = fresh[e]
                 /\ calls'[c].at = AfterWrite(c)
                 /\ \A x \in Fields \ {"at", "answer"} : calls'[c][x] = fresh[c][x]
      BY <1>3, <1>5, <2>2 DEF CallsShape, Slot, Fields
    <2> QED
      BY <1>4, <2>1, <2>2
  <1>7. \A e \in Calls :
               /\ Same(e) /\ calls'[e].new = calls[e].new /\ calls'[e].got = calls[e].got
               /\ calls'[e].cols = calls[e].cols
               /\ calls'[e].late \in BOOLEAN
               /\ calls'[e].late <=> calls[e].late /\ ~user'.active
               /\ calls'[e].at = IF e = c THEN AfterWrite(c) ELSE calls[e].at
    BY <1>3, <1>6 DEF Same, Fields
  <1> QED
    BY <1>1, <1>2, <1>6, <1>7

LEMMA SameColsOK ==
  ASSUME NEW k, NEW l, ColsOK(k),
         l.op = k.op, l.at = k.at, l.n = k.n, l.cols = k.cols
  PROVE  ColsOK(l)
  <1>1. /\ l.op \in {"reset", "resetByLink"} /\ l.at \in Ahead => l.cols = [password |-> l.n]
        /\ l.op = "update" /\ l.at \in Ahead =>
              /\ Part(l.cols) /\ DOMAIN l.cols \subseteq {"password", "email"}
              /\ "password" \in DOMAIN l.cols => l.cols.password = l.n
        /\ l.op = "verify" /\ l.at \in Ahead => l.cols = [active |-> TRUE]
        /\ l.op = "verifyByLink" /\ l.at \in Ahead => l.cols = [emailVerified |-> TRUE]
    BY DEF ColsOK
  <1>2. /\ l.op = "updateProfile" /\ l.at = "write" =>
              Part(l.cols) /\ DOMAIN l.cols \subseteq {"profile", "email"}
        /\ l.op = "updateAvatar" /\ l.at = "write" => l.cols = [profile |-> l.n]
        /\ l.op = "disableTwoFactor" /\ l.at = "write" => l.cols = SecondFactorOff
        /\ l.op = "generateSecret" /\ l.at = "write" => l.cols = [temp |-> l.n]
    BY DEF ColsOK
  <1>3. l.op = "enableTwoFactor" /\ l.at = "write" =>
              \E s \in 0..MaxCalls + 1 :
                  s # None /\ l.cols = [twoFactor |-> TRUE, secret |-> s, temp |-> None]
    BY DEF ColsOK
  <1>4. /\ l.op = "delete" /\ l.at = "diff" => l.cols \in User
        /\ l.op = "delete" /\ l.at = "write" => Part(l.cols)
    BY DEF ColsOK
  <1>5. \/ l.op = "registerBiometric" /\ l.at \in {"set", "find", "write"}
        \/ l.op = "removeBiometric" /\ l.at \in {"find", "write"}
        => \E m \in SUBSET Types : l.cols = [methods |-> m]
    BY DEF ColsOK
  <1>6. l.op = "removeBiometric" /\ l.at = "del" =>
              l.cols = <<>> \/ \E m \in SUBSET Types : l.cols = [methods |-> m]
    BY DEF ColsOK
  <1> QED
    BY <1>1, <1>2, <1>3, <1>4, <1>5, <1>6 DEF ColsOK

LEMMA WriteTyped ==
  ASSUME Typed, NEW c \in Calls, Write(c)
  PROVE  Typed'
  <1>1. begun' = begun /\ now' = now
    BY DEF Write, rest
  <1>2. CallOK(calls[c])'
    <2>1. /\ calls[c].op \in OpsAt("write") /\ calls[c].at = "write" /\ CallOK(calls[c])
      BY WriteMoves, WritePart, CallType
    <2>2. /\ AfterWrite(c) \in {"delLink", "replied", "findAgain"}
          /\ calls[c].op \in OpsAt(AfterWrite(c))
      BY <2>1 DEF AfterWrite, OpsAt, Updaters, ByLink, Ops
    <2>3. ColsOK(calls[c])'
      BY <2>2, WriteMoves DEF ColsOK, Ahead
    <2> QED
      BY <1>1, <2>1, <2>2, <2>3, WriteMoves DEF CallOK, Same
  <1>3. ASSUME NEW e \in Calls \ {c} PROVE CallOK(calls[e])'
    <2>1. CallOK(calls[e])
      BY CallType
    <2>2. /\ Same(e) /\ calls'[e].new = calls[e].new /\ calls'[e].got = calls[e].got
          /\ calls'[e].cols = calls[e].cols /\ calls'[e].late \in BOOLEAN
          /\ calls'[e].at = calls[e].at
      BY WriteMoves
    <2>3. ColsOK(calls[e])'
      <3>1. ColsOK(calls[e])
        BY <2>1 DEF CallOK
      <3>2. /\ calls'[e].op = calls[e].op /\ calls'[e].at = calls[e].at
            /\ calls'[e].n = calls[e].n /\ calls'[e].cols = calls[e].cols
        BY <2>2 DEF Same
      <3> QED
        BY <3>1, <3>2, SameColsOK
    <2> QED
      BY <1>1, <2>1, <2>2, <2>3 DEF CallOK, Same
  <1>4. CallsTyped'
    BY <1>2, <1>3, WriteMoves DEF CallsTyped
  <1>5. user' \in User
    BY WriteMoves
  <1> QED
    BY <1>1, <1>4, <1>5 DEF Typed, Write, rest

-----------------------------------------------------------------------------
(* Calls that begin, and time.                                               *)

(* What a call holds stays right while calls begin and time passes. *)
LEMMA LaterOK ==
  ASSUME Typed, NEW e \in Calls, calls'[e] = calls[e],
         begun' \in {begun, begun + 1}, now' \in {now, now + 1}
  PROVE  Slot(calls[e])' /\ CallOK(calls[e])'
  <1>1. Slot(calls[e]) /\ CallOK(calls[e]) /\ begun \in Nat /\ now \in Nat
    BY CallType, AccountsAssumption DEF CallsShape, Typed
  <1>2. \A n : /\ n \in 1..begun => n \in 1..begun'
               /\ n \in 1..now => n \in 1..now'
    BY <1>1
  <1>3. ColsOK(calls[e])'
    BY <1>1, SameColsOK DEF CallOK
  <1>4. Slot(calls[e])'
    BY <1>1 DEF Slot
  <1> QED
    BY <1>1, <1>2, <1>3, <1>4 DEF CallOK

LEMMA BeginMoves ==
  ASSUME Typed, NEW c \in Calls, NEW op, NEW arg, NEW at, NEW cols,
         Begin(c, op, arg, at, cols)
  PROVE  /\ op \in mix /\ calls[c] = Idle
         /\ begun + 1 \in 1..MaxCalls /\ begun' = begun + 1
         /\ calls' = [d \in Calls |-> calls'[d]]
         /\ \A e \in Calls \ {c} : calls'[e] = calls[e]
         /\ Slot(calls'[c])
         /\ calls'[c].op = op /\ calls'[c].n = begun + 1 /\ calls'[c].arg = arg
         /\ calls'[c].at = at /\ calls'[c].cols = cols /\ calls'[c].before = usedUp
         /\ calls'[c].late \in BOOLEAN /\ (calls'[c].late <=> ~user.active)
         /\ calls'[c].new = (IF op = "login" THEN now ELSE None)
         /\ calls'[c].got = None /\ calls'[c].answer = None
  <1> DEFINE k == [Idle EXCEPT !.op = op, !.n = begun', !.arg = arg, !.at = at, !.cols = cols,
                       !.before = usedUp, !.late = ~user.active,
                       !.new = IF op = "login" THEN now ELSE None]
  <1>1. /\ Slot(k) /\ k.op = op /\ k.n = begun' /\ k.arg = arg /\ k.at = at /\ k.cols = cols
        /\ k.before = usedUp /\ k.late \in BOOLEAN /\ (k.late <=> ~user.active)
        /\ k.new = (IF op = "login" THEN now ELSE None)
        /\ k.got = None /\ k.answer = None
    BY DEF Slot, Fields, Idle
  <1>2. calls' = [calls EXCEPT ![c] = k] /\ begun' = begun + 1 /\ begun < MaxCalls
        /\ op \in mix /\ calls[c] = Idle
    BY DEF Begin
  <1>3. begun + 1 \in 1..MaxCalls
    BY <1>2, AccountsAssumption DEF Typed
  <1> HIDE DEF k
  <1> QED
    BY <1>1, <1>2, <1>3, CallType DEF CallsShape

LEMMA BeginTyped ==
  ASSUME Typed, NEW c \in Calls, NEW op, NEW arg, NEW at, NEW cols,
         Begin(c, op, arg, at, cols),
         at # "idle", op \in OpsAt(at), at = "set" => op = "login",
         op \in BiometricOps => arg \in Types,
         ColsOK(calls[c])'
  PROVE  Typed'
  <1>1. begun' = begun + 1 /\ begun' \in 1..MaxCalls /\ begun \in Nat /\ now' = now
    <2>1. begun' = begun + 1 /\ begun + 1 \in 1..MaxCalls
      BY BeginMoves
    <2>2. begun \in Nat
      BY AccountsAssumption DEF Typed
    <2> QED
      BY <2>1, <2>2 DEF Begin
  <1>2. now \in 1..now
    BY DEF Typed
  <1>3. CallOK(calls[c])'
    <2>1. op = "login" => op \notin BiometricOps
      BY DEF BiometricOps
    <2>2. op = "registerBiometric" => op # "login"
      OBVIOUS
    <2> QED
      BY <1>1, <1>2, <2>1, <2>2, BeginMoves DEF CallOK
  <1>4. \A e \in Calls \ {c} : Slot(calls[e])' /\ CallOK(calls[e])'
    BY <1>1, BeginMoves, LaterOK
  <1>5. CallsTyped'
    BY <1>3, <1>4, BeginMoves DEF CallsTyped, CallsShape
  <1>6. raced' \in BOOLEAN
    BY DEF Begin, Typed
  <1> QED
    BY <1>1, <1>5, <1>6 DEF Typed, Begin

(* What an update gives are columns, each with the value that was asked for. *)
LEMMA GivenColumns ==
  ASSUME begun + 1 \in 1..MaxCalls, NEW e \in Emails \cup {None}
  PROVE  /\ \A cols \in Given([password |-> begun + 1, email |-> e]) :
               /\ Part(cols) /\ DOMAIN cols \subseteq {"password", "email"}
               /\ "password" \in DOMAIN cols => cols.password = begun + 1
         /\ \A cols \in Given([profile |-> begun + 1, email |-> e]) :
               Part(cols) /\ DOMAIN cols \subseteq {"profile", "email"}
  <1>1. begun + 1 \in 0..MaxCalls
    BY AccountsAssumption
  <1>2. ASSUME NEW x \in {"password", "profile", "email"}
        PROVE  /\ x \in Column
               /\ (IF x = "email" THEN e ELSE begun + 1) \in ColumnType(x)
    BY <1>1, <1>2 DEF Column, ColumnType
  <1>3. ASSUME NEW name \in {"password", "profile"}, NEW s \in SUBSET {name, "email"},
               NEW cols, cols = [x \in s |-> IF x = "email" THEN e ELSE begun + 1]
        PROVE  /\ Part(cols) /\ DOMAIN cols \subseteq {name, "email"}
               /\ name \in DOMAIN cols => cols[name] = begun + 1
    BY <1>2, <1>3 DEF Part
  <1>4. ASSUME NEW cols \in Given([password |-> begun + 1, email |-> e])
        PROVE  \E s \in SUBSET {"password", "email"} :
                  cols = [x \in s |-> IF x = "email" THEN e ELSE begun + 1]
    BY DEF Given
  <1>5. ASSUME NEW cols \in Given([profile |-> begun + 1, email |-> e])
        PROVE  \E s \in SUBSET {"profile", "email"} :
                  cols = [x \in s |-> IF x = "email" THEN e ELSE begun + 1]
    BY DEF Given
  <1> QED
    BY <1>3, <1>4, <1>5

LEMMA StartTyped ==
  ASSUME Typed, NEW c \in Calls, Start(c)
  PROVE  Typed'
  <1>1. ASSUME NEW arg, Begin(c, "register", arg, "lookup", <<>>) PROVE Typed'
    <2>1. ColsOK(calls[c])'
      BY <1>1, BeginMoves DEF ColsOK, Ahead, PasswordOps
    <2>2. "register" \in OpsAt("lookup") /\ ("register" \in BiometricOps => arg \in Types)
      BY <1>1 DEF OpsAt, BiometricOps
    <2> QED
      BY <1>1, <2>1, <2>2, BeginTyped
  <1>2. ASSUME Begin(c, "sendReset", None, "findAccount", <<>>) PROVE Typed'
    <2>1. ColsOK(calls[c])'
      BY <1>2, BeginMoves DEF ColsOK, Ahead, PasswordOps
    <2>2. "sendReset" \in OpsAt("findAccount") /\ ("sendReset" \in BiometricOps => None \in Types)
      BY <1>2 DEF OpsAt, BiometricOps
    <2> QED
      BY <1>2, <2>1, <2>2, BeginTyped
  <1>3. ASSUME NEW arg, Begin(c, "reset", arg, "get", [password |-> begun + 1]) PROVE Typed'
    <2>1. ColsOK(calls[c])'
      BY <1>3, BeginMoves DEF ColsOK, Ahead, PasswordOps
    <2>2. "reset" \in OpsAt("get") /\ ("reset" \in BiometricOps => arg \in Types)
      BY <1>3 DEF OpsAt, BiometricOps
    <2> QED
      BY <1>3, <2>1, <2>2, BeginTyped
  <1>4. ASSUME Begin(c, "verify", None, "find", [active |-> TRUE]) PROVE Typed'
    <2>1. ColsOK(calls[c])'
      BY <1>4, BeginMoves DEF ColsOK, Ahead, PasswordOps
    <2>2. "verify" \in OpsAt("find") /\ ("verify" \in BiometricOps => None \in Types)
      BY <1>4 DEF OpsAt, BiometricOps, Updaters, ByLink
    <2> QED
      BY <1>4, <2>1, <2>2, BeginTyped
  <1>5. ASSUME NEW e \in Emails \cup {None},
               NEW cols \in Given([password |-> begun + 1, email |-> e]),
               Begin(c, "update", None, "find", cols)
        PROVE  Typed'
    <2>3. /\ Part(cols) /\ DOMAIN cols \subseteq {"password", "email"}
          /\ "password" \in DOMAIN cols => cols.password = begun + 1
      BY <1>5, BeginMoves, GivenColumns
    <2>4. calls'[c].op = "update" /\ calls'[c].n = begun + 1 /\ calls'[c].cols = cols
      BY <1>5, BeginMoves
    <2>1. ColsOK(calls[c])'
      BY <2>3, <2>4 DEF ColsOK, Part
    <2>2. "update" \in OpsAt("find") /\ ("update" \in BiometricOps => None \in Types)
      BY <1>5 DEF OpsAt, BiometricOps, Updaters, ByLink
    <2> QED
      BY <1>5, <2>1, <2>2, BeginTyped
  <1>6. ASSUME Begin(c, "delete", None, "findById", <<>>) PROVE Typed'
    <2>1. ColsOK(calls[c])'
      BY <1>6, BeginMoves DEF ColsOK, Ahead, PasswordOps
    <2>2. "delete" \in OpsAt("findById") /\ ("delete" \in BiometricOps => None \in Types)
      BY <1>6 DEF OpsAt, BiometricOps, Finders
    <2> QED
      BY <1>6, <2>1, <2>2, BeginTyped
  <1>7. ASSUME Begin(c, "login", None, "set", <<>>) PROVE Typed'
    <2>1. ColsOK(calls[c])'
      BY <1>7, BeginMoves DEF ColsOK, Ahead, PasswordOps
    <2>2. "login" \in OpsAt("set") /\ ("login" \in BiometricOps => None \in Types)
      BY <1>7 DEF OpsAt, BiometricOps
    <2> QED
      BY <1>7, <2>1, <2>2, BeginTyped
  <1>8. ASSUME NEW arg, Begin(c, "refresh", arg, "get", <<>>) PROVE Typed'
    <2>1. ColsOK(calls[c])'
      BY <1>8, BeginMoves DEF ColsOK, Ahead, PasswordOps
    <2>2. "refresh" \in OpsAt("get") /\ ("refresh" \in BiometricOps => arg \in Types)
      BY <1>8 DEF OpsAt, BiometricOps
    <2> QED
      BY <1>8, <2>1, <2>2, BeginTyped
  <1>9. ASSUME Begin(c, "logout", None, "del", <<>>) PROVE Typed'
    <2>1. ColsOK(calls[c])'
      BY <1>9, BeginMoves DEF ColsOK, Ahead, PasswordOps
    <2>2. "logout" \in OpsAt("del") /\ ("logout" \in BiometricOps => None \in Types)
      BY <1>9 DEF OpsAt, BiometricOps
    <2> QED
      BY <1>9, <2>1, <2>2, BeginTyped
  <1>10. ASSUME NEW type \in Types, Begin(c, "registerBiometric", type, "findById", <<>>) PROVE Typed'
    <2>1. ColsOK(calls[c])'
      BY <1>10, BeginMoves DEF ColsOK, Ahead, PasswordOps
    <2>2. "registerBiometric" \in OpsAt("findById") /\ ("registerBiometric" \in BiometricOps => type \in Types)
      BY <1>10 DEF OpsAt, BiometricOps, Finders
    <2> QED
      BY <1>10, <2>1, <2>2, BeginTyped
  <1>11. ASSUME NEW type \in Types, Begin(c, "authenticate", type, "findById", <<>>) PROVE Typed'
    <2>1. ColsOK(calls[c])'
      BY <1>11, BeginMoves DEF ColsOK, Ahead, PasswordOps
    <2>2. "authenticate" \in OpsAt("findById") /\ ("authenticate" \in BiometricOps => type \in Types)
      BY <1>11 DEF OpsAt, BiometricOps, Finders
    <2> QED
      BY <1>11, <2>1, <2>2, BeginTyped
  <1>12. ASSUME NEW type \in Types, Begin(c, "removeBiometric", type, "findById", <<>>) PROVE Typed'
    <2>1. ColsOK(calls[c])'
      BY <1>12, BeginMoves DEF ColsOK, Ahead, PasswordOps
    <2>2. "removeBiometric" \in OpsAt("findById") /\ ("removeBiometric" \in BiometricOps => type \in Types)
      BY <1>12 DEF OpsAt, BiometricOps, Finders
    <2> QED
      BY <1>12, <2>1, <2>2, BeginTyped
  <1> QED
    BY <1>1, <1>2, <1>3, <1>4, <1>5, <1>6, <1>7, <1>8, <1>9, <1>10, <1>11, <1>12 DEF Start, Register, SendPasswordResetToken, ResetPassword, VerifyEmail,
           UpdateUser, DeleteUser, Login, RefreshToken, Logout, RegisterBiometric,
           AuthenticateWithBiometric, RemoveBiometric

LEMMA StartMoreTyped ==
  ASSUME Typed, NEW c \in Calls, StartMore(c)
  PROVE  Typed'
  <1>1. ASSUME NEW arg, Begin(c, "oauth", arg, "findFirst", <<>>) PROVE Typed'
    <2>1. ColsOK(calls[c])'
      BY <1>1, BeginMoves DEF ColsOK, Ahead, PasswordOps
    <2>2. "oauth" \in OpsAt("findFirst") /\ ("oauth" \in BiometricOps => arg \in Types)
      BY <1>1 DEF OpsAt, BiometricOps
    <2> QED
      BY <1>1, <2>1, <2>2, BeginTyped
  <1>2. ASSUME Begin(c, "requestReset", None, "findAccount", <<>>) PROVE Typed'
    <2>1. ColsOK(calls[c])'
      BY <1>2, BeginMoves DEF ColsOK, Ahead, PasswordOps
    <2>2. "requestReset" \in OpsAt("findAccount") /\ ("requestReset" \in BiometricOps => None \in Types)
      BY <1>2 DEF OpsAt, BiometricOps
    <2> QED
      BY <1>2, <2>1, <2>2, BeginTyped
  <1>3. ASSUME Begin(c, "sendVerification", None, "findById", <<>>) PROVE Typed'
    <2>1. ColsOK(calls[c])'
      BY <1>3, BeginMoves DEF ColsOK, Ahead, PasswordOps
    <2>2. "sendVerification" \in OpsAt("findById") /\ ("sendVerification" \in BiometricOps => None \in Types)
      BY <1>3 DEF OpsAt, BiometricOps, Finders
    <2> QED
      BY <1>3, <2>1, <2>2, BeginTyped
  <1>4. ASSUME NEW arg, Begin(c, "resetByLink", arg, "getLink", [password |-> begun + 1]) PROVE Typed'
    <2>1. ColsOK(calls[c])'
      BY <1>4, BeginMoves DEF ColsOK, Ahead, PasswordOps
    <2>2. "resetByLink" \in OpsAt("getLink") /\ ("resetByLink" \in BiometricOps => arg \in Types)
      BY <1>4 DEF OpsAt, BiometricOps, ByLink
    <2> QED
      BY <1>4, <2>1, <2>2, BeginTyped
  <1>5. ASSUME NEW arg, Begin(c, "verifyByLink", arg, "getLink", [emailVerified |-> TRUE]) PROVE Typed'
    <2>1. ColsOK(calls[c])'
      BY <1>5, BeginMoves DEF ColsOK, Ahead, PasswordOps
    <2>2. "verifyByLink" \in OpsAt("getLink") /\ ("verifyByLink" \in BiometricOps => arg \in Types)
      BY <1>5 DEF OpsAt, BiometricOps, ByLink
    <2> QED
      BY <1>5, <2>1, <2>2, BeginTyped
  <1>6. ASSUME NEW e \in Emails \cup {None},
               NEW cols \in Given([profile |-> begun + 1, email |-> e]),
               Begin(c, "updateProfile", None, "write", cols)
        PROVE  Typed'
    <2>3. Part(cols) /\ DOMAIN cols \subseteq {"profile", "email"}
      BY <1>6, BeginMoves, GivenColumns
    <2>4. calls'[c].op = "updateProfile" /\ calls'[c].cols = cols
      BY <1>6, BeginMoves
    <2>1. ColsOK(calls[c])'
      BY <2>3, <2>4 DEF ColsOK, Part
    <2>2. "updateProfile" \in OpsAt("write") /\ ("updateProfile" \in BiometricOps => None \in Types)
      BY <1>6 DEF OpsAt, BiometricOps
    <2> QED
      BY <1>6, <2>1, <2>2, BeginTyped
  <1>7. ASSUME Begin(c, "updateAvatar", None, "write", [profile |-> begun + 1]) PROVE Typed'
    <2>1. ColsOK(calls[c])'
      BY <1>7, BeginMoves DEF ColsOK, Ahead, PasswordOps
    <2>2. "updateAvatar" \in OpsAt("write") /\ ("updateAvatar" \in BiometricOps => None \in Types)
      BY <1>7 DEF OpsAt, BiometricOps
    <2> QED
      BY <1>7, <2>1, <2>2, BeginTyped
  <1>8. ASSUME Begin(c, "disableTwoFactor", None, "write", SecondFactorOff) PROVE Typed'
    <2>1. ColsOK(calls[c])'
      BY <1>8, BeginMoves DEF ColsOK, Ahead, PasswordOps
    <2>2. "disableTwoFactor" \in OpsAt("write") /\ ("disableTwoFactor" \in BiometricOps => None \in Types)
      BY <1>8 DEF OpsAt, BiometricOps
    <2> QED
      BY <1>8, <2>1, <2>2, BeginTyped
  <1>9. ASSUME Begin(c, "generateSecret", None, "findById", <<>>) PROVE Typed'
    <2>1. ColsOK(calls[c])'
      BY <1>9, BeginMoves DEF ColsOK, Ahead, PasswordOps
    <2>2. "generateSecret" \in OpsAt("findById") /\ ("generateSecret" \in BiometricOps => None \in Types)
      BY <1>9 DEF OpsAt, BiometricOps, Finders
    <2> QED
      BY <1>9, <2>1, <2>2, BeginTyped
  <1>10. ASSUME Begin(c, "enableTwoFactor", None, "findById", <<>>) PROVE Typed'
    <2>1. ColsOK(calls[c])'
      BY <1>10, BeginMoves DEF ColsOK, Ahead, PasswordOps
    <2>2. "enableTwoFactor" \in OpsAt("findById") /\ ("enableTwoFactor" \in BiometricOps => None \in Types)
      BY <1>10 DEF OpsAt, BiometricOps, Finders
    <2> QED
      BY <1>10, <2>1, <2>2, BeginTyped
  <1> QED
    BY <1>1, <1>2, <1>3, <1>4, <1>5, <1>6, <1>7, <1>8, <1>9, <1>10 DEF StartMore, ValidateOAuthLogin, RequestPasswordReset, SendVerificationEmail,
           ResetByLink, VerifyByLink, EmailVerified, UpdateProfile, UpdateAvatar, DisableTwoFactor,
           GenerateTwoFactorSecret, EnableTwoFactor

LEMMA LaterTyped ==
  ASSUME Typed, calls' = calls, begun' \in {begun, begun + 1}, now' \in {now, now + 1}
  PROVE  CallsTyped'
  <1>1. \A e \in Calls : Slot(calls[e])' /\ CallOK(calls[e])'
    BY LaterOK
  <1>2. calls' = [c \in Calls |-> calls'[c]]
    BY DEF Typed, CallsTyped, CallsShape
  <1> QED
    BY <1>1, <1>2 DEF CallsTyped, CallsShape

LEMMA ExpireTyped ==
  ASSUME Typed, NEW kind \in Kinds, Expire(kind)
  PROVE  Typed'
  <1>1. StoredTyped'
    BY RemovedTyped DEF Expire, rest
  <1>2. CallsTyped'
    BY LaterTyped DEF Expire, rest
  <1> QED
    BY <1>1, <1>2 DEF Typed, StoredTyped, Expire, rest

LEMMA ExpireLinkTyped ==
  ASSUME Typed, NEW link \in links, ExpireLink(link)
  PROVE  Typed'
  <1>1. CallsTyped'
    BY LaterTyped DEF ExpireLink, rest
  <1> QED
    BY <1>1 DEF Typed, ExpireLink, rest

LEMMA TickTyped ==
  ASSUME Typed, Tick
  PROVE  Typed'
  <1>1. /\ now \in Nat /\ now' = now + 1 /\ now' \in 1..MaxNow
        /\ UNCHANGED <<user, stored, links, calls, begun, usedUp, raced>>
    BY AccountsAssumption DEF Tick, Typed
  <1>2. CallsTyped'
    BY <1>1, LaterTyped
  <1>3. \A n : n \in 1..now => n \in 1..now'
    BY <1>1
  <1>4. StoredTyped'
    BY <1>1, <1>3 DEF Typed, StoredTyped
  <1> QED
    BY <1>1, <1>2, <1>4 DEF Typed, StoredTyped

LEMMA StutterTyped ==
  ASSUME Typed, UNCHANGED vars
  PROVE  Typed'
  <1>1. CallsTyped'
    BY LaterTyped DEF vars
  <1> QED
    BY <1>1 DEF Typed, vars

LEMMA InitTyped == Init => Typed
  <1> SUFFICES ASSUME Init PROVE Typed
    OBVIOUS
  <1>1. user \in User
    <2>1. PICK e \in Emails \cup {None}, two \in {FALSE, "enableTwoFactor" \in mix} :
             user = [email |-> e, password |-> 0, active |-> TRUE, methods |-> {},
                     emailVerified |-> FALSE, profile |-> 0, twoFactor |-> two,
                     secret |-> IF two THEN 0 ELSE None,
                     temp |-> IF two THEN MaxCalls + 1 ELSE None]
      BY DEF Init
    <2>2. 0 \in 0..MaxCalls /\ 0 \in 0..MaxCalls + 1 /\ MaxCalls + 1 \in 0..MaxCalls + 1
      BY AccountsAssumption
    <2>3. two \in BOOLEAN
      <3>1. ("enableTwoFactor" \in mix) \in BOOLEAN
        OBVIOUS
      <3>2. two = FALSE \/ two = ("enableTwoFactor" \in mix)
        OBVIOUS
      <3> QED
        BY <3>1, <3>2, Zenon
    <2> QED
      BY <2>1, <2>2, <2>3 DEF User
  <1>2. CallsTyped
    BY IdleOK, IdleSlot DEF Init, CallsTyped, CallsShape
  <1>3. now \in 1..MaxNow /\ begun \in 0..MaxCalls
    BY AccountsAssumption DEF Init
  <1> QED
    BY <1>1, <1>2, <1>3 DEF Init, Typed

LEMMA StepTyped ==
  ASSUME Typed, NEW c \in Calls, Step(c)
  PROVE  Typed'
  BY FindFirstTyped, LookupTyped, InsertTyped, SetLinkTyped, GetLinkTyped, DelLinkTyped,
     FindTyped, WriteTyped, FindAgainTyped, FindAccountTyped, FindByIdTyped, DiffTyped,
     GetTyped, CompareTyped, SetTyped, DelTyped, DelReusedTyped, FailTyped, FinishTyped
     DEF Step

LEMMA NextTyped ==
  ASSUME Typed, [Next]_vars
  PROVE  Typed'
  BY StartTyped, StartMoreTyped, StepTyped, ExpireTyped, ExpireLinkTyped, TickTyped,
     StutterTyped DEF Next

(* Rows, keys, links and calls have their types, every call is where its     *)
(* operation comes, and it will write the columns of its operation.          *)
THEOREM AlwaysTyped == Spec => []Typed
  BY InitTyped, NextTyped, PTL DEF Spec

(* Every variable has its type. *)
THEOREM TypeCorrect == Spec => []TypeOK
  <1>1. Typed => TypeOK
    <2> SUFFICES ASSUME Typed PROVE TypeOK
      OBVIOUS
    <2>1. ASSUME NEW c \in Calls
          PROVE  calls[c].op \in Ops \cup {None} /\ calls[c].n \in 0..MaxCalls
      <3>1. OpsAt(calls[c].at) \subseteq Ops
        BY DEF OpsAt, Ops, Finders, Updaters, ByLink
      <3> QED
        BY <3>1, CallType, AccountsAssumption DEF CallOK, Typed
    <2> QED
      BY <2>1 DEF Typed, TypeOK, AnyKey
  <1> QED
    BY <1>1, AlwaysTyped, PTL

-----------------------------------------------------------------------------
(* One row for each email.                                                   *)

LEMMA InsertKeepsEmails ==
  ASSUME OneRowPerEmail, NEW c \in Calls, Insert(c)
  PROVE  OneRowPerEmail'
  <1> DEFINE arg == calls[c].arg
             row == [n |-> calls[c].n, email |-> arg.email, phone |-> arg.phone]
  <1>1. user' = user
    BY DEF Insert
  <1>2. CASE UNCHANGED table
    BY <1>1, <1>2 DEF OneRowPerEmail
  <1>3. CASE Insertable(arg) /\ table' = table \cup {row}
    <2>1. row.email = arg.email
      OBVIOUS
    <2>2. row.email # None => row.email # user.email /\ \A t \in table : t.email # row.email
      BY <1>3, <2>1 DEF Insertable, HasEmail
    <2> HIDE DEF row
    <2>3. ASSUME NEW r \in table \cup {row}, NEW s \in table \cup {row},
                 r.email = s.email, r.email # None
          PROVE  r = s
      BY <2>2, <2>3 DEF OneRowPerEmail
    <2>4. ASSUME NEW r \in table \cup {row}, r.email = user.email PROVE r.email = None
      BY <2>2, <2>4 DEF OneRowPerEmail
    <2> QED
      BY <1>1, <1>3, <2>3, <2>4 DEF OneRowPerEmail
  <1> QED
    BY <1>2, <1>3 DEF Insert

LEMMA WriteKeepsEmails ==
  ASSUME Typed, OneRowPerEmail, NEW c \in Calls, Write(c)
  PROVE  OneRowPerEmail'
  <1>1. table' = table /\ Writable(calls[c].cols)
    BY DEF Write
  <1>2. user'.email = IF "email" \in DOMAIN calls[c].cols
                      THEN calls[c].cols.email ELSE user.email
    BY WriteMoves DEF Column
  <1>3. ASSUME NEW r \in table, r.email = user'.email PROVE r.email = None
    BY <1>1, <1>2, <1>3 DEF Writable, OneRowPerEmail
  <1> QED
    BY <1>1, <1>3 DEF OneRowPerEmail

LEMMA OnlyInsertAdds ==
  ASSUME [Next]_vars, ~(\E c \in Calls : Insert(c) \/ Write(c))
  PROVE  UNCHANGED <<table, user>>
  <1>1. ASSUME NEW c \in Calls, Start(c) \/ StartMore(c) PROVE UNCHANGED <<table, user>>
    BY <1>1 DEF Start, Register, SendPasswordResetToken, ResetPassword, VerifyEmail, UpdateUser,
       DeleteUser, Login, RefreshToken, Logout, RegisterBiometric, AuthenticateWithBiometric,
       RemoveBiometric, StartMore, ValidateOAuthLogin, RequestPasswordReset,
       SendVerificationEmail, ResetByLink, VerifyByLink, EmailVerified, UpdateProfile, UpdateAvatar,
       DisableTwoFactor, GenerateTwoFactorSecret, EnableTwoFactor, Begin
  <1>2. ASSUME NEW c \in Calls, Step(c) PROVE UNCHANGED <<table, user>>
    BY <1>2 DEF Step, FindFirst, Lookup, SetLink, Mailed, GetLink, DelLink, Find, FindAgain,
       FindAccount, FindById, Diff, Get, Compare, Set, Del, DelReused, Fail, Finish
  <1>3. CASE Tick \/ UNCHANGED vars
    BY <1>3 DEF Tick, vars
  <1>4. ASSUME NEW kind, Expire(kind) PROVE UNCHANGED <<table, user>>
    BY <1>4 DEF Expire
  <1>5. ASSUME NEW link, ExpireLink(link) PROVE UNCHANGED <<table, user>>
    BY <1>5 DEF ExpireLink
  <1> QED
    BY <1>1, <1>2, <1>3, <1>4, <1>5 DEF Next

(* Calls that found an email free do not both get it: neither two            *)
(* registrations nor a registration and an update, for only one passes the   *)
(* unique constraint.                                                        *)
THEOREM EmailsUnique == Spec => []OneRowPerEmail
  <1>1. Init => OneRowPerEmail
    BY DEF Init, OneRowPerEmail
  <1>2. Typed /\ OneRowPerEmail /\ [Next]_vars => OneRowPerEmail'
    <2> SUFFICES ASSUME Typed, OneRowPerEmail, [Next]_vars PROVE OneRowPerEmail'
      OBVIOUS
    <2>1. CASE UNCHANGED <<table, user>>
      BY <2>1 DEF OneRowPerEmail
    <2> QED
      BY <2>1, OnlyInsertAdds, InsertKeepsEmails, WriteKeepsEmails
  <1> QED
    BY <1>1, <1>2, AlwaysTyped, PTL DEF Spec

-----------------------------------------------------------------------------
(* Where a call goes that does not write: only who has seen an active user   *)
(* goes on to read the whole row or to write.                                *)
Onward(c, at, cols) ==
    /\ at = "diff" => user.active /\ cols = [user EXCEPT !.active = FALSE]
    /\ at = "write" => user.active \/ calls[c].at = "diff"
    /\ calls[c].op \in PasswordOps /\ at \in Ahead => calls[c].at \in Ahead
    /\ calls[c].op = "delete" /\ at = "write" =>
          calls[c].at = "diff" /\ \A x \in DOMAIN cols : cols[x] = calls[c].cols[x]

MovesOn(c) ==
    \E at, new, got, cols : Moves(c, at, new, got, cols) /\ Onward(c, at, cols)

LEMMA RepliesOn ==
  ASSUME NEW c \in Calls, NEW new, NEW got, NEW cols, Moves(c, "replied", new, got, cols)
  PROVE  MovesOn(c)
  BY DEF MovesOn, Onward, Ahead

LEMMA ReturnsOn ==
  ASSUME CallsShape, NEW c \in Calls, NEW got, Refuse(c) \/ Succeed(c, got) \/ Return(c, got)
  PROVE  MovesOn(c)
  BY RefuseMoves, SucceedMoves, RepliesOn DEF Return

LEMMA PlainOn ==
  ASSUME NEW c \in Calls, NEW at, NEW new, NEW got, NEW cols,
         Moves(c, at, new, got, cols), at \notin {"diff", "write"},
         calls[c].op \in PasswordOps /\ at \in Ahead => calls[c].at \in Ahead
  PROVE  MovesOn(c)
  BY DEF MovesOn, Onward

LEMMA FindByIdOn ==
  ASSUME Typed, NEW c \in Calls, FindById(c)
  PROVE  MovesOn(c)
  <1>1. CASE Refuse(c)
    BY <1>1, CallType, ReturnsOn
  <1>2. ASSUME user.active, FoundById(c) PROVE MovesOn(c)
    <2>1. CASE calls[c].op = "delete" /\ WithCols(c, "diff", [user EXCEPT !.active = FALSE])
      BY <1>2, <2>1 DEF WithCols, MovesOn, Onward, PasswordOps
    <2>2. ASSUME NEW at \in {"get", "set", "del", "setLink"}, NEW new, NEW cols,
                 Moves(c, at, new, calls[c].got, cols), calls[c].op \notin PasswordOps
          PROVE  MovesOn(c)
      BY <2>2, PlainOn
    <2>3. ASSUME NEW cols, WithCols(c, "write", cols), calls[c].op \notin PasswordOps,
                 calls[c].op # "delete"
          PROVE  MovesOn(c)
      BY <1>2, <2>3 DEF WithCols, MovesOn, Onward
    <2> QED
      BY <1>2, <2>1, <2>2, <2>3 DEF FoundById, WithCols, Stays, PasswordOps
  <1> QED
    BY <1>1, <1>2, FindByIdMoves

LEMMA DiffOn ==
  ASSUME Typed, NEW c \in Calls, Diff(c)
  PROVE  MovesOn(c)
  <1>1. CASE Succeed(c, None)
    BY <1>1, CallType, ReturnsOn
  <1>2. ASSUME NEW differ \in SUBSET Column,
               WithCols(c, "write", [x \in differ |-> calls[c].cols[x]])
        PROVE  MovesOn(c)
    <2> DEFINE cols == [x \in differ |-> calls[c].cols[x]]
    <2>1. \A x \in DOMAIN cols : cols[x] = calls[c].cols[x]
      OBVIOUS
    <2>2. calls[c].at = "diff" /\ calls[c].op \notin PasswordOps
      BY DiffMoves DEF Diff, PasswordOps
    <2>3. Moves(c, "write", calls[c].new, calls[c].got, cols)
      BY <1>2 DEF WithCols
    <2> HIDE DEF cols
    <2> QED
      BY <2>1, <2>2, <2>3 DEF MovesOn, Onward
  <1> QED
    BY <1>1, <1>2, DiffMoves

LEMMA FindOn ==
  ASSUME Typed, NEW c \in Calls, Find(c)
  PROVE  MovesOn(c)
  <1>1. CASE Refuse(c)
    BY <1>1, CallType, ReturnsOn
  <1>2. CASE user.active /\ Go(c, "write")
    <2>1. calls[c].at = "find" /\ calls[c].op # "delete"
      BY CallType DEF Find, CallOK, OpsAt, Updaters, ByLink
    <2>2. Moves(c, "write", calls[c].new, calls[c].got, calls[c].cols)
      BY <1>2, CallType, GoMoves
    <2> QED
      BY <1>2, <2>1, <2>2 DEF MovesOn, Onward, Ahead
  <1> QED
    BY <1>1, <1>2 DEF Find

LEMMA GetOn ==
  ASSUME Typed, NEW c \in Calls, Get(c) \/ GetLink(c)
  PROVE  MovesOn(c)
  <1>1. CASE Refuse(c)
    BY <1>1, CallType, ReturnsOn
  <1>2. calls[c].at \in Ahead
    BY DEF Get, GetLink, Ahead
  <1>3. ASSUME NEW at \in {"compare", "find", "findById", "delReused"}, NEW new, NEW got,
               NEW cols, Moves(c, at, new, got, cols)
        PROVE  MovesOn(c)
    BY <1>2, <1>3, PlainOn
  <1>4. CASE GotKey(c)
    BY <1>3, <1>4 DEF GotKey
  <1>5. CASE Stays(c, "delReused")
    BY <1>3, <1>5 DEF Stays
  <1> QED
    BY <1>1, <1>3, <1>4, <1>5, GetMoves, GetLinkMoves

LEMMA OthersOn ==
  ASSUME Typed, NEW c \in Calls,
         \/ FindFirst(c) \/ Lookup(c) \/ Insert(c) \/ SetLink(c) \/ DelLink(c) \/ FindAgain(c)
         \/ FindAccount(c) \/ Compare(c) \/ Set(c) \/ Del(c) \/ DelReused(c) \/ Fail(c)
  PROVE  MovesOn(c)
  <1>1. CallsShape
    BY CallType
  <1>2. ASSUME NEW got, Refuse(c) \/ Succeed(c, got) \/ Return(c, got) PROVE MovesOn(c)
    BY <1>1, <1>2, ReturnsOn
  <1>3. ASSUME NEW at \in {"lookup", "insert", "setLink", "del"}, Go(c, at) PROVE MovesOn(c)
    BY <1>1, <1>3, GoMoves, PlainOn DEF Ahead
  <1>4. ASSUME calls' = [calls EXCEPT ![c].at = "set", ![c].new = now] PROVE MovesOn(c)
    <2>1. Moves(c, "set", now, calls[c].got, calls[c].cols)
      BY <1>1, <1>4, NewMoves
    <2> QED
      BY <2>1, PlainOn DEF Ahead
  <1>5. CASE FindFirst(c)
    BY <1>2, <1>3, <1>5 DEF FindFirst
  <1>6. CASE Lookup(c) \/ Insert(c)
    BY <1>2, <1>3, <1>6 DEF Lookup, Insert
  <1>7. CASE SetLink(c) \/ DelLink(c) \/ DelReused(c) \/ Fail(c)
    BY <1>2, <1>7 DEF SetLink, Mailed, DelLink, DelReused, Fail
  <1>8. CASE FindAgain(c)
    BY <1>2, <1>3, <1>8 DEF FindAgain
  <1>9. CASE FindAccount(c)
    BY <1>3, <1>4, <1>9 DEF FindAccount
  <1>10. CASE Compare(c)
    BY <1>2, <1>4, <1>10 DEF Compare
  <1>11. CASE Set(c)
    <2>1. CASE calls[c].op = "registerBiometric" /\ Go(c, "find")
      <3>1. Moves(c, "find", calls[c].new, calls[c].got, calls[c].cols)
        BY <1>1, <2>1, GoMoves
      <3> QED
        BY <2>1, <3>1, PlainOn DEF PasswordOps
    <2> QED
      BY <1>2, <1>3, <1>11, <2>1 DEF Set
  <1>12. CASE Del(c)
    <2>1. CASE /\ calls[c].op = "removeBiometric"
               /\ Moves(c, "find", calls[c].new, Gone(c), calls[c].cols)
      BY <2>1, PlainOn DEF PasswordOps
    <2> QED
      BY <1>2, <1>12, <2>1, DelMoves
  <1> QED
    BY <1>5, <1>6, <1>7, <1>8, <1>9, <1>10, <1>11, <1>12

LEMMA StepMovesOn ==
  ASSUME Typed, NEW c \in Calls, Step(c), ~Write(c), ~Finish(c)
  PROVE  MovesOn(c) /\ UNCHANGED <<user, replaced, begun>>
  <1>1. MovesOn(c)
    BY FindByIdOn, DiffOn, FindOn, GetOn, OthersOn DEF Step
  <1>2. UNCHANGED <<user, replaced, begun>>
    BY DEF Step, FindFirst, Lookup, Insert, SetLink, Mailed, GetLink, DelLink, Find, FindAgain,
       FindAccount, FindById, Diff, Get, Compare, Set, Del, DelReused, Fail, rest
  <1> QED
    BY <1>1, <1>2

Changers == {"registerBiometric", "removeBiometric"}

(* How calls begin: none at a save, and none that writes what was read. *)
Starts(c) ==
    \E op, at, arg, cols :
        /\ op \in Ops
        /\ Begin(c, op, arg, at, cols)
        /\ at # "diff" /\ op \in OpsAt(at)
        /\ at = "write" => DOMAIN cols \subseteq Unseen /\ op # "delete"
        /\ op \in Changers => at = "findById"

LEMMA StartsOne ==
  ASSUME NEW c \in Calls, Start(c) \/ StartMore(c)
  PROVE  Starts(c)
  <1>1. ASSUME NEW op \in Ops, NEW at, NEW arg, NEW cols, Begin(c, op, arg, at, cols),
               at \notin {"diff", "write"}, op \in OpsAt(at),
               op \in Changers => at = "findById"
        PROVE  Starts(c)
    BY <1>1 DEF Starts
  <1>2. CASE Start(c)
    <2>1. /\ "register" \in Ops /\ "register" \in OpsAt("lookup")
          /\ "sendReset" \in Ops /\ "sendReset" \in OpsAt("findAccount")
          /\ "reset" \in Ops /\ "reset" \in OpsAt("get")
          /\ "verify" \in Ops /\ "verify" \in OpsAt("find")
          /\ "update" \in Ops /\ "update" \in OpsAt("find")
          /\ "delete" \in Ops /\ "delete" \in OpsAt("findById")
          /\ "login" \in Ops /\ "login" \in OpsAt("set")
          /\ "refresh" \in Ops /\ "refresh" \in OpsAt("get")
          /\ "logout" \in Ops /\ "logout" \in OpsAt("del")
          /\ "registerBiometric" \in Ops /\ "registerBiometric" \in OpsAt("findById")
          /\ "authenticate" \in Ops /\ "authenticate" \in OpsAt("findById")
          /\ "removeBiometric" \in Ops /\ "removeBiometric" \in OpsAt("findById")
      BY DEF Ops, OpsAt, Updaters, Finders
    <2>2. \A op \in {"register", "sendReset", "reset", "verify", "update", "delete", "login",
                    "refresh", "logout", "authenticate"} : op \notin Changers
      BY DEF Changers
    <2> QED
      BY <1>1, <1>2, <2>1, <2>2 DEF Start, Register, SendPasswordResetToken, ResetPassword,
         VerifyEmail, UpdateUser, DeleteUser, Login, RefreshToken, Logout, RegisterBiometric,
         AuthenticateWithBiometric, RemoveBiometric
  <1>3. CASE StartMore(c)
    <2>1. ASSUME NEW op \in {"updateProfile", "updateAvatar"}, NEW cols,
                 Begin(c, op, None, "write", cols), DOMAIN cols \subseteq {"profile", "email"}
          PROVE  Starts(c)
      <3>1. DOMAIN cols \subseteq Unseen
        BY <2>1 DEF Unseen
      <3>2. op \in Ops /\ op \in OpsAt("write") /\ op # "delete" /\ op \notin Changers
        BY DEF Ops, OpsAt, Changers
      <3> QED
        BY <2>1, <3>1, <3>2 DEF Starts
    <2>2. ASSUME Begin(c, "disableTwoFactor", None, "write", SecondFactorOff)
          PROVE  Starts(c)
      <3>1. DOMAIN SecondFactorOff \subseteq Unseen
        BY DEF Unseen, SecondFactorOff
      <3>2. /\ "disableTwoFactor" \in Ops /\ "disableTwoFactor" \in OpsAt("write")
            /\ "disableTwoFactor" \notin Changers
        BY DEF Ops, OpsAt, Changers
      <3> QED
        BY <2>2, <3>1, <3>2 DEF Starts
    <2>3. /\ "oauth" \in Ops /\ "oauth" \in OpsAt("findFirst")
          /\ "requestReset" \in Ops /\ "requestReset" \in OpsAt("findAccount")
          /\ "sendVerification" \in Ops /\ "sendVerification" \in OpsAt("findById")
          /\ "resetByLink" \in Ops /\ "resetByLink" \in OpsAt("getLink")
          /\ "verifyByLink" \in Ops /\ "verifyByLink" \in OpsAt("getLink")
          /\ "generateSecret" \in Ops /\ "generateSecret" \in OpsAt("findById")
          /\ "enableTwoFactor" \in Ops /\ "enableTwoFactor" \in OpsAt("findById")
      BY DEF Ops, OpsAt, Finders, ByLink
    <2>4. \A op \in {"oauth", "requestReset", "sendVerification", "resetByLink", "verifyByLink",
                    "generateSecret", "enableTwoFactor"} : op \notin Changers
      BY DEF Changers
    <2>5. CASE UpdateProfile(c)
      <3>1. PICK e \in Emails \cup {None} :
               \E cols \in Given([profile |-> begun + 1, email |-> e]) :
                  Begin(c, "updateProfile", None, "write", cols)
        BY <2>5 DEF UpdateProfile
      <3>2. PICK cols \in Given([profile |-> begun + 1, email |-> e]) :
               Begin(c, "updateProfile", None, "write", cols)
        BY <3>1
      <3>3. DOMAIN cols \subseteq {"profile", "email"}
        BY DEF Given
      <3> QED
        BY <2>1, <3>2, <3>3
    <2>6. CASE UpdateAvatar(c)
      <3>1. DOMAIN [profile |-> begun + 1] \subseteq {"profile", "email"}
        OBVIOUS
      <3> QED
        BY <2>1, <2>6, <3>1 DEF UpdateAvatar
    <2> QED
      BY <1>1, <1>3, <2>2, <2>3, <2>4, <2>5, <2>6 DEF StartMore, ValidateOAuthLogin, RequestPasswordReset,
         SendVerificationEmail, ResetByLink, VerifyByLink, EmailVerified,
         DisableTwoFactor, GenerateTwoFactorSecret, EnableTwoFactor
  <1> QED
    BY <1>2, <1>3

(* What no call does leaves the calls and the row alone. *)
LEMMA QuietSteps ==
  ASSUME \/ \E kind \in Kinds : Expire(kind)
         \/ \E link \in links : ExpireLink(link)
         \/ Tick
         \/ UNCHANGED vars
  PROVE  UNCHANGED <<user, replaced, begun, calls, raced, usedUp>>
  BY DEF Expire, ExpireLink, Tick, vars, rest

LEMMA Finished ==
  ASSUME Typed, NEW c \in Calls, Finish(c)
  PROVE  /\ \A e \in Calls \ {c} : calls'[e] = calls[e]
         /\ calls'[c] = Idle /\ UNCHANGED <<user, replaced, begun>>
  BY CallType DEF Finish, rest, CallsShape

-----------------------------------------------------------------------------
(* A deleted account.                                                        *)

LEMMA FrozenStep ==
  ASSUME Typed, FrozenInv, [Next]_vars
  PROVE  FrozenInv'
  <1> DEFINE Frozen(k, u) == k.late => /\ ~u.active /\ k.at # "diff"
                                       /\ k.at = "write" => DOMAIN k.cols \subseteq Unseen
  <1>1. \A e \in Calls : Frozen(calls[e], user)
    BY DEF FrozenInv
  <1>2. (\A e \in Calls : Frozen(calls'[e], user')) => FrozenInv'
    BY DEF FrozenInv
  <1>3. ASSUME UNCHANGED <<user, calls>> PROVE FrozenInv'
    BY <1>3 DEF FrozenInv
  <1>4. ASSUME NEW c \in Calls, Starts(c) PROVE FrozenInv'
    <2>1. PICK op, at, arg, cols :
             /\ Begin(c, op, arg, at, cols) /\ at # "diff"
             /\ at = "write" => DOMAIN cols \subseteq Unseen
      BY <1>4 DEF Starts
    <2>2. /\ \A e \in Calls \ {c} : calls'[e] = calls[e]
          /\ calls'[c].at = at /\ calls'[c].cols = cols /\ (calls'[c].late <=> ~user.active)
      BY <2>1, BeginMoves
    <2>3. user' = user
      BY <2>1 DEF Begin
    <2> QED
      BY <1>1, <1>2, <2>1, <2>2, <2>3
  <1>5. ASSUME NEW c \in Calls, MovesOn(c), user' = user PROVE FrozenInv'
    <2>1. PICK at, new, got, cols : Moves(c, at, new, got, cols) /\ Onward(c, at, cols)
      BY <1>5 DEF MovesOn
    <2>2. /\ \A e \in Calls \ {c} : calls'[e] = calls[e]
          /\ calls'[c].at = at /\ calls'[c].late = calls[c].late
      BY <2>1 DEF Moves
    <2>3. calls[c].late => at \notin {"diff", "write"}
      BY <1>1, <2>1 DEF Onward
    <2> QED
      BY <1>1, <1>2, <1>5, <2>2, <2>3
  <1>6. ASSUME NEW c \in Calls, Write(c) PROVE FrozenInv'
    <2>1. \A e \in Calls :
             /\ calls'[e].cols = calls[e].cols
             /\ calls'[e].late <=> calls[e].late /\ ~user'.active
             /\ calls'[e].at = IF e = c THEN AfterWrite(c) ELSE calls[e].at
      BY <1>6, WriteMoves
    <2>2. AfterWrite(c) \notin {"diff", "write"}
      BY DEF AfterWrite
    <2> QED
      BY <1>1, <1>2, <2>1, <2>2
  <1>7. ASSUME NEW c \in Calls, Finish(c) PROVE FrozenInv'
    BY <1>1, <1>2, <1>7, Finished, IdleSlot
  <1> HIDE DEF Frozen
  <1> QED
    BY <1>3, <1>4, <1>5, <1>6, <1>7, StepMovesOn, StartsOne, QuietSteps DEF Next

(* A call that begins when the account is deleted reaches no write but the   *)
(* ones that are done unseen: every other one looks at the row before.       *)
THEOREM DeletionFreezes == Spec => []DeletedIsFrozen
  <1>1. Init => FrozenInv
    BY IdleSlot DEF Init, FrozenInv
  <1>2. FrozenInv => DeletedIsFrozen
    BY DEF FrozenInv, DeletedIsFrozen, Unseen
  <1> QED
    BY <1>1, <1>2, FrozenStep, AlwaysTyped, PTL DEF Spec

-----------------------------------------------------------------------------
(* The second factor, and passwords that were replaced.                      *)

(* What the row is written with. *)
LEMMA WriteCols ==
  ASSUME Typed, NEW c \in Calls, calls[c].at = "write"
  PROVE  \/ calls[c].op = "delete"
         \/ /\ calls[c].op \in PasswordOps
            /\ DOMAIN calls[c].cols \subseteq {"password", "email"}
            /\ "password" \in DOMAIN calls[c].cols => calls[c].cols.password = calls[c].n
         \/ /\ calls[c].op = "disableTwoFactor"
            /\ DOMAIN calls[c].cols = {"twoFactor", "secret", "temp"}
            /\ ~calls[c].cols.twoFactor /\ calls[c].cols.secret = None
         \/ /\ calls[c].op = "enableTwoFactor"
            /\ DOMAIN calls[c].cols = {"twoFactor", "secret", "temp"}
            /\ calls[c].cols.twoFactor /\ calls[c].cols.secret # None
         \/ calls[c].op \in Changers /\ DOMAIN calls[c].cols = {"methods"}
         \/ /\ calls[c].op \notin PasswordOps
            /\ DOMAIN calls[c].cols \subseteq
                  {"active", "email", "emailVerified", "profile", "temp"}
            /\ "active" \in DOMAIN calls[c].cols => calls[c].cols.active
            /\ calls[c].op \notin Changers
  <1>1. calls[c].op \in OpsAt("write") /\ ColsOK(calls[c])
    BY CallType DEF CallOK
  <1>2. CASE calls[c].op = "disableTwoFactor"
    BY <1>1, <1>2 DEF ColsOK, SecondFactorOff
  <1>3. CASE calls[c].op = "enableTwoFactor"
    <2>1. PICK x \in 0..MaxCalls + 1 :
             x # None /\ calls[c].cols = [twoFactor |-> TRUE, secret |-> x, temp |-> None]
      BY <1>1, <1>3 DEF ColsOK
    <2> QED
      BY <1>3, <2>1
  <1>4. CASE calls[c].op \in PasswordOps
    <2>1. CASE calls[c].op = "update"
      BY <1>1, <1>4, <2>1 DEF ColsOK, Ahead
    <2>2. CASE calls[c].op # "update"
      <3>1. calls[c].cols = [password |-> calls[c].n]
        BY <1>1, <1>4, <2>2 DEF ColsOK, Ahead, PasswordOps
      <3> QED
        BY <1>4, <3>1
    <2> QED
      BY <2>1, <2>2
  <1>5. CASE calls[c].op \in Changers
    <2>1. PICK m \in SUBSET Types : calls[c].cols = [methods |-> m]
      BY <1>1, <1>5 DEF ColsOK, Changers
    <2> QED
      BY <1>5, <2>1
  <1>6. CASE calls[c].op \in {"verify", "verifyByLink", "updateProfile", "updateAvatar",
                              "generateSecret"}
    <2>1. \/ calls[c].cols = [active |-> TRUE]
          \/ calls[c].cols = [emailVerified |-> TRUE]
          \/ calls[c].cols = [profile |-> calls[c].n]
          \/ DOMAIN calls[c].cols \subseteq {"profile", "email"}
          \/ calls[c].cols = [temp |-> calls[c].n]
      BY <1>1, <1>6 DEF ColsOK, Ahead
    <2>2. /\ DOMAIN calls[c].cols \subseteq
                {"active", "email", "emailVerified", "profile", "temp"}
          /\ "active" \in DOMAIN calls[c].cols => calls[c].cols.active
      BY <2>1
    <2>3. calls[c].op \notin PasswordOps \cup Changers
      BY <1>6 DEF PasswordOps, Changers
    <2> QED
      BY <2>2, <2>3
  <1> QED
    BY <1>1, <1>2, <1>3, <1>4, <1>5, <1>6 DEF OpsAt, Updaters, ByLink, PasswordOps, Changers

LEMMA OnlyWriteChanges ==
  ASSUME Typed, [Next]_vars, user' # user
  PROVE  \E c \in Calls : Write(c)
  <1>1. ASSUME NEW c \in Calls, Starts(c) PROVE user' = user
    BY <1>1 DEF Starts, Begin
  <1> QED
    BY <1>1, StepMovesOn, StartsOne, QuietSteps, Finished DEF Next

(* The second factor and its secret come apart in no write but a deletion's. *)
THEOREM SecretWithFlag == Spec => SecretWhileOn
  <1>1. ASSUME Typed, [Next]_vars, user' # user, user.twoFactor <=> user.secret # None
        PROVE  \/ user'.twoFactor <=> user'.secret # None
               \/ \E c \in Calls : calls[c].op = "delete" /\ calls[c].at = "write"
    <2>1. PICK c \in Calls : Write(c)
      BY <1>1, OnlyWriteChanges
    <2>2. /\ calls[c].at = "write"
          /\ \A x \in Column : user'[x] = IF x \in DOMAIN calls[c].cols
                                        THEN calls[c].cols[x] ELSE user[x]
      BY <1>1, <2>1, WriteMoves
    <2>3. /\ user'.twoFactor = IF "twoFactor" \in DOMAIN calls[c].cols
                               THEN calls[c].cols.twoFactor ELSE user.twoFactor
          /\ user'.secret = IF "secret" \in DOMAIN calls[c].cols
                            THEN calls[c].cols.secret ELSE user.secret
      BY <2>2 DEF Column
    <2> QED
      BY <1>1, <2>2, <2>3, WriteCols
  <1>2. Typed /\ [Next]_vars =>
           [user' # user /\ (user.twoFactor <=> user.secret # None) =>
              \/ user'.twoFactor <=> user'.secret # None
              \/ \E c \in Calls : calls[c].op = "delete" /\ calls[c].at = "write"]_vars
    BY <1>1
  <1> QED
    BY <1>2, AlwaysTyped, PTL DEF Spec, SecretWhileOn

(* PasswordInv, of calls and the row as they may be next. *)
LEMMA PasswordParts ==
  ASSUME replaced' \cup {user'.password} \subseteq 0..begun',
         \A e \in Calls : ToWrite(e)' => calls'[e].n \notin replaced' \cup {user'.password},
         \A e, d \in Calls : ToWrite(e)' /\ ToWrite(d)' /\ calls'[d].n = calls'[e].n => d = e,
         \A d \in Calls : Deletes(d)' /\ "password" \in DOMAIN calls'[d].cols =>
            /\ calls'[d].cols.password \in 0..begun'
            /\ \A e \in Calls : ToWrite(e)' => calls'[d].cols.password # calls'[e].n
  PROVE  PasswordInv'
  BY DEF PasswordInv

LEMMA PasswordBegin ==
  ASSUME Typed, PasswordInv, NEW c \in Calls, Starts(c)
  PROVE  PasswordInv'
  <1>1. PICK op, at, arg, cols :
           /\ op \in Ops
           /\ Begin(c, op, arg, at, cols) /\ at # "diff"
           /\ at = "write" => op # "delete"
    BY DEF Starts
  <1>2. /\ \A e \in Calls \ {c} : calls'[e] = calls[e]
        /\ calls'[c].at = at /\ calls'[c].op = op /\ calls'[c].n = begun + 1
        /\ begun' = begun + 1 /\ UNCHANGED <<user, replaced>>
    <2>1. UNCHANGED <<user, replaced>>
      BY <1>1 DEF Begin
    <2> QED
      BY <1>1, <2>1, BeginMoves
  <1>3. begun \in Nat /\ \A n : n \in 0..begun => n \in 0..begun' /\ n # begun + 1
    BY <1>2, AccountsAssumption DEF Typed
  <1>4. \A e \in Calls : ToWrite(e) => calls[e].n \in 0..begun
    BY <1>3, CallType, AccountsAssumption DEF ToWrite, CallOK, Ahead
  <1>5. /\ \A e \in Calls \ {c} : (ToWrite(e)' <=> ToWrite(e)) /\ (Deletes(e)' <=> Deletes(e))
        /\ ~Deletes(c)'
    BY <1>1, <1>2 DEF ToWrite, Deletes
  <1>6. replaced' \cup {user'.password} \subseteq 0..begun'
    BY <1>2, <1>3 DEF PasswordInv
  <1>7. \A e \in Calls : ToWrite(e)' => calls'[e].n \notin replaced' \cup {user'.password}
    BY <1>2, <1>3, <1>5 DEF PasswordInv
  <1>8. \A e, d \in Calls : ToWrite(e)' /\ ToWrite(d)' /\ calls'[d].n = calls'[e].n => d = e
    BY <1>2, <1>3, <1>4, <1>5 DEF PasswordInv
  <1>9. ASSUME NEW d \in Calls, Deletes(d)', "password" \in DOMAIN calls'[d].cols
        PROVE  /\ calls'[d].cols.password \in 0..begun'
               /\ \A e \in Calls : ToWrite(e)' => calls'[d].cols.password # calls'[e].n
    <2>1. d # c /\ calls'[d] = calls[d] /\ Deletes(d)
      BY <1>2, <1>5, <1>9
    <2>2. /\ calls[d].cols.password \in 0..begun
          /\ \A e \in Calls : ToWrite(e) => calls[d].cols.password # calls[e].n
      BY <1>9, <2>1 DEF PasswordInv
    <2> QED
      BY <1>2, <1>3, <1>5, <2>1, <2>2
  <1> QED
    BY <1>6, <1>7, <1>8, <1>9, PasswordParts

LEMMA PasswordMove ==
  ASSUME Typed, PasswordInv, NEW c \in Calls, MovesOn(c), UNCHANGED <<user, replaced, begun>>
  PROVE  PasswordInv'
  <1>1. PICK at, new, got, cols : Moves(c, at, new, got, cols) /\ Onward(c, at, cols)
    BY DEF MovesOn
  <1>2. /\ \A e \in Calls \ {c} : calls'[e] = calls[e]
        /\ calls'[c].at = at /\ calls'[c].op = calls[c].op /\ calls'[c].n = calls[c].n
        /\ calls'[c].cols = cols
    BY <1>1 DEF Moves, Same
  <1>3. \A e \in Calls : (ToWrite(e)' => ToWrite(e)) /\ calls'[e].n = calls[e].n
    BY <1>1, <1>2 DEF ToWrite, Onward
  <1>4. \A e \in Calls : ToWrite(e)' => calls'[e].n \notin replaced' \cup {user'.password}
    BY <1>3 DEF PasswordInv
  <1>5. \A e, d \in Calls : ToWrite(e)' /\ ToWrite(d)' /\ calls'[d].n = calls'[e].n => d = e
    BY <1>3 DEF PasswordInv
  <1>6. ASSUME NEW d \in Calls, Deletes(d)', "password" \in DOMAIN calls'[d].cols
        PROVE  /\ calls'[d].cols.password \in 0..begun'
               /\ \A e \in Calls : ToWrite(e)' => calls'[d].cols.password # calls'[e].n
    <2>1. CASE d # c
      <3>1. Deletes(d) /\ calls'[d] = calls[d]
        BY <1>2, <1>6, <2>1 DEF Deletes
      <3> QED
        BY <1>3, <1>6, <3>1 DEF PasswordInv
    <2>2. CASE d = c /\ at = "diff"
      <3>1. cols = [user EXCEPT !.active = FALSE] /\ user \in User
        BY <1>1, <2>2 DEF Onward, Typed
      <3>2. cols.password = user.password
        BY <3>1 DEF User
      <3> QED
        BY <1>2, <1>3, <2>2, <3>2 DEF PasswordInv
    <2>3. CASE d = c /\ at = "write"
      <3>1. /\ calls[c].at = "diff" /\ calls[c].op = "delete"
            /\ cols.password = calls[c].cols.password
        BY <1>1, <1>2, <1>6, <2>3 DEF Onward, Deletes
      <3>2. "password" \in DOMAIN calls[c].cols
        <4>1. calls[c].cols \in User
          BY <3>1, CallType DEF CallOK, ColsOK
        <4> QED
          BY <4>1 DEF User
      <3> QED
        BY <1>2, <1>3, <2>3, <3>1, <3>2 DEF PasswordInv, Deletes
    <2> QED
      BY <1>2, <1>6, <2>1, <2>2, <2>3 DEF Deletes
  <1>7. replaced' \cup {user'.password} \subseteq 0..begun'
    BY DEF PasswordInv
  <1> QED
    BY <1>4, <1>5, <1>6, <1>7, PasswordParts

LEMMA PasswordWrite ==
  ASSUME Typed, PasswordInv, NEW c \in Calls, Write(c)
  PROVE  PasswordInv'
  <1>1. /\ calls[c].at = "write"
        /\ \A x \in Column : user'[x] = IF x \in DOMAIN calls[c].cols
                                      THEN calls[c].cols[x] ELSE user[x]
        /\ \A e \in Calls : /\ Same(e) /\ calls'[e].cols = calls[e].cols
                            /\ calls'[e].at = IF e = c THEN AfterWrite(c) ELSE calls[e].at
    BY WriteMoves
  <1>2. user'.password = IF "password" \in DOMAIN calls[c].cols
                         THEN calls[c].cols.password ELSE user.password
    BY <1>1 DEF Column
  <1>3. AfterWrite(c) \notin Ahead \cup {"diff", "write"}
    BY DEF AfterWrite, Ahead
  <1>4. \A e \in Calls : /\ (ToWrite(e)' <=> ToWrite(e) /\ e # c)
                         /\ (Deletes(e)' <=> Deletes(e) /\ e # c)
                         /\ calls'[e].n = calls[e].n
    BY <1>1, <1>3 DEF Same, ToWrite, Deletes
  <1>5. replaced' \subseteq replaced \cup {user.password} /\ begun' = begun
    BY DEF Write, rest
  <1>6. /\ user'.password \in 0..begun
        /\ \A e \in Calls \ {c} : ToWrite(e) => calls[e].n # user'.password
    <2>1. CASE "password" \notin DOMAIN calls[c].cols
      BY <1>2, <2>1 DEF PasswordInv
    <2>2. CASE calls[c].op = "delete" /\ "password" \in DOMAIN calls[c].cols
      BY <1>1, <1>2, <2>2 DEF PasswordInv, Deletes
    <2>3. CASE calls[c].op \in PasswordOps /\ "password" \in DOMAIN calls[c].cols
      <3>1. ToWrite(c) /\ user'.password = calls[c].n
        BY <1>1, <1>2, <2>3, WriteCols DEF ToWrite, Ahead, PasswordOps
      <3>2. calls[c].n \in 0..begun
        BY <1>1, CallType, AccountsAssumption DEF CallOK, Typed
      <3> QED
        BY <3>1, <3>2 DEF PasswordInv
    <2> QED
      BY <1>1, <2>1, <2>2, <2>3, WriteCols
  <1>7. replaced' \cup {user'.password} \subseteq 0..begun'
    BY <1>5, <1>6 DEF PasswordInv
  <1>8. \A e \in Calls : ToWrite(e)' => calls'[e].n \notin replaced' \cup {user'.password}
    BY <1>4, <1>5, <1>6 DEF PasswordInv
  <1>9. \A e, d \in Calls : ToWrite(e)' /\ ToWrite(d)' /\ calls'[d].n = calls'[e].n => d = e
    BY <1>4 DEF PasswordInv
  <1>10. \A d \in Calls : Deletes(d)' /\ "password" \in DOMAIN calls'[d].cols =>
            /\ calls'[d].cols.password \in 0..begun'
            /\ \A e \in Calls : ToWrite(e)' => calls'[d].cols.password # calls'[e].n
    BY <1>1, <1>4, <1>5 DEF PasswordInv
  <1> QED
    BY <1>7, <1>8, <1>9, <1>10, PasswordParts

LEMMA PasswordStep ==
  ASSUME Typed, PasswordInv, [Next]_vars
  PROVE  PasswordInv'
  <1>1. ASSUME UNCHANGED <<user, replaced, begun, calls>> PROVE PasswordInv'
    BY <1>1 DEF PasswordInv, ToWrite, Deletes
  <1>2. ASSUME NEW c \in Calls, Finish(c) PROVE PasswordInv'
    <2>1. /\ \A e \in Calls : calls'[e] = calls[e] \/ calls'[e] = Idle
          /\ UNCHANGED <<user, replaced, begun>>
      BY <1>2, Finished
    <2>2. \A e \in Calls : /\ ToWrite(e)' => ToWrite(e) /\ calls'[e] = calls[e]
                           /\ Deletes(e)' => Deletes(e) /\ calls'[e] = calls[e]
      BY <2>1, IdleSlot DEF ToWrite, Deletes, Ahead
    <2>3. /\ replaced' \cup {user'.password} \subseteq 0..begun'
          /\ \A e \in Calls : ToWrite(e)' => calls'[e].n \notin replaced' \cup {user'.password}
          /\ \A e, d \in Calls :
                ToWrite(e)' /\ ToWrite(d)' /\ calls'[d].n = calls'[e].n => d = e
          /\ \A d \in Calls : Deletes(d)' /\ "password" \in DOMAIN calls'[d].cols =>
                /\ calls'[d].cols.password \in 0..begun'
                /\ \A e \in Calls : ToWrite(e)' => calls'[d].cols.password # calls'[e].n
      BY <2>1, <2>2 DEF PasswordInv
    <2> QED
      BY <2>3, PasswordParts
  <1> QED
    BY <1>1, <1>2, PasswordBegin, PasswordMove, PasswordWrite, StepMovesOn, StartsOne,
       QuietSteps DEF Next

(* A password that was replaced comes back only by a deletion's save: what   *)
(* any other call writes was drawn for it and no one had it before.          *)
THEOREM PasswordsStayReplaced == Spec => OnlyDeletionUndoes
  <1>1. Init => PasswordInv
    <2> SUFFICES ASSUME Init PROVE PasswordInv
      OBVIOUS
    <2>1. user.password = 0 /\ replaced = {} /\ begun = 0
      BY DEF Init
    <2>2. \A c \in Calls : ~ToWrite(c) /\ ~Deletes(c)
      BY IdleSlot DEF Init, ToWrite, Deletes, Ahead
    <2> QED
      BY <2>1, <2>2 DEF PasswordInv
  <1>2. ASSUME Typed, PasswordInv, [Next]_vars,
               user'.password # user.password, user'.password \in replaced
        PROVE  \E c \in Calls : calls[c].op = "delete" /\ calls[c].at = "write"
    <2>1. PICK c \in Calls : Write(c)
      BY <1>2, OnlyWriteChanges
    <2>2. /\ calls[c].at = "write"
          /\ user'.password = IF "password" \in DOMAIN calls[c].cols
                              THEN calls[c].cols.password ELSE user.password
      BY <1>2, <2>1, WriteMoves DEF Column
    <2>3. CASE calls[c].op \in PasswordOps
      <3>1. ToWrite(c) /\ user'.password = calls[c].n
        BY <1>2, <2>2, <2>3, WriteCols DEF ToWrite, Ahead, PasswordOps
      <3> QED
        BY <1>2, <3>1 DEF PasswordInv
    <2> QED
      BY <1>2, <2>2, <2>3, WriteCols
  <1>3. Typed /\ PasswordInv /\ [Next]_vars =>
           [user'.password # user.password /\ user'.password \in replaced =>
              \E c \in Calls : calls[c].op = "delete" /\ calls[c].at = "write"]_vars
    BY <1>2
  <1> QED
    BY <1>1, <1>3, PasswordStep, AlwaysTyped, PTL DEF Spec, OnlyDeletionUndoes

-----------------------------------------------------------------------------
(* Keys that were used up.                                                   *)

(* A key that can be taken now. *)
Carried(key) ==
    \/ key \in links
    \/ \E kind \in Kinds : stored[kind] # None /\ key = Key(kind)

(* The step of a call that sets its key. *)
Sets(c) == calls[c].at \in BeforeSet /\ calls'[c].at \notin BeforeSet

(* What is stored and mailed after a step of a call was before, or is the    *)
(* key it sets.                                                              *)
StoresOwn(c) ==
    /\ \A kind \in Kinds : \/ stored'[kind] = None
                           \/ stored'[kind] = stored[kind]
                           \/ Sets(c) /\ stored'[kind].by = calls[c].n
    /\ \A link \in links' : link \in links \/ (Sets(c) /\ link.by = calls[c].n)

(* A key is used up only when it is neither stored nor mailed any more. *)
UsesUp(got) ==
    /\ got # None /\ usedUp' = usedUp \cup {got} /\ got \notin links'
    /\ \A kind \in Kinds : stored'[kind] # None => Key(kind)' # got

LEMMA KeyMove ==
  ASSUME Typed, KeyInv, NEW c \in Calls, NEW got,
         \A e \in Calls : Same(e),
         \A e \in Calls \ {c} : calls'[e].at = calls[e].at /\ calls'[e].got = calls[e].got,
         calls'[c].got = got, begun' = begun,
         got \in {None, calls[c].got} \/ Carried(got),
         calls[c].op \notin Takers => got = None,
         got # None /\ calls'[c].at # "replied" => got.kind = KindOf(c),
         calls'[c].at \in BeforeSet => calls[c].at \in BeforeSet,
         calls[c].op = "removeBiometric" /\ got # None /\ calls'[c].at \in AfterDel =>
            \A kind \in Kinds : stored'[kind] # None => got # Key(kind)',
         StoresOwn(c), usedUp' = usedUp \/ UsesUp(got)
  PROVE  KeyInv'
  <1>1. \A e \in Calls : /\ KindOf(e)' = KindOf(e) /\ calls'[e].n = calls[e].n
                         /\ calls'[e].op = calls[e].op /\ calls'[e].before = calls[e].before
    BY DEF KindOf, Same
  <1>2. \A kind \in Kinds :
           /\ stored'[kind] = stored[kind] => Key(kind)' = Key(kind)
           /\ stored[kind] # None => Key(kind).by = stored[kind].by
           /\ stored'[kind] # None => Key(kind)'.by = stored'[kind].by
    BY DEF Key
  <1>3. /\ got # None => got.by \in 1..begun
        /\ \A e \in Calls : calls[e].at \in BeforeSet /\ got # None => got.by # calls[e].n
        /\ got \notin calls[c].before
    <2>1. CASE got \in {None, calls[c].got}
      BY <2>1 DEF KeyInv, KeysNumbered, KeysFresh, KeysTaken, KeysGone
    <2>2. CASE got \in links
      BY <2>2 DEF KeyInv, KeysNumbered, KeysFresh, KeysTaken, KeysGone
    <2>3. ASSUME NEW kind \in Kinds, stored[kind] # None, got = Key(kind)
          PROVE  /\ got.by \in 1..begun
                 /\ \A e \in Calls : calls[e].at \in BeforeSet => got.by # calls[e].n
                 /\ got \notin calls[c].before
      BY <1>2, <2>3 DEF KeyInv, KeysNumbered, KeysFresh, KeysTaken, KeysGone
    <2> QED
      BY <2>1, <2>2, <2>3 DEF Carried
  <1>4. calls[c].at \in BeforeSet => calls[c].n \in 1..begun
    BY CallType DEF CallOK, BeforeSet
  <1>5. usedUp \subseteq usedUp' /\ \A key \in usedUp' : key \in usedUp \/ (key = got /\ got # None)
    BY DEF UsesUp
  <1>6. KeysNumbered'
    <2>1. \A kind \in Kinds : stored'[kind] # None => stored'[kind].by \in 1..begun
      BY <1>4 DEF StoresOwn, Sets, KeyInv, KeysNumbered
    <2>2. \A key \in usedUp' \cup links' : key.by \in 1..begun
      BY <1>3, <1>4, <1>5 DEF StoresOwn, Sets, KeyInv, KeysNumbered
    <2>3. \A d \in Calls : calls'[d].got # None => calls'[d].got.by \in 1..begun
      BY <1>3 DEF KeyInv, KeysNumbered
    <2> QED
      BY <2>1, <2>2, <2>3 DEF KeysNumbered
  <1>7. KeysFresh'
    <2> SUFFICES ASSUME NEW e \in Calls, calls'[e].at \in BeforeSet
                 PROVE  /\ \A kind \in Kinds : stored'[kind] # None => stored'[kind].by # calls'[e].n
                        /\ \A key \in usedUp' \cup links' : key.by # calls'[e].n
                        /\ \A d \in Calls : calls'[d].got # None => calls'[d].got.by # calls'[e].n
                        /\ \A d \in Calls :
                              calls'[d].at \in BeforeSet /\ calls'[d].n = calls'[e].n => d = e
      BY DEF KeysFresh
    <2>1. calls[e].at \in BeforeSet /\ calls'[e].n = calls[e].n
      BY <1>1
    <2>2. Sets(c) => calls[c].n # calls[e].n
      BY <2>1 DEF Sets, KeyInv, KeysFresh
    <2>3. \A kind \in Kinds : stored'[kind] # None => stored'[kind].by # calls[e].n
      BY <2>1, <2>2 DEF StoresOwn, KeyInv, KeysFresh
    <2>4. \A key \in usedUp' \cup links' : key.by # calls[e].n
      BY <1>3, <1>5, <2>1, <2>2 DEF StoresOwn, KeyInv, KeysFresh
    <2>5. \A d \in Calls : calls'[d].got # None => calls'[d].got.by # calls[e].n
      BY <1>3, <2>1 DEF KeyInv, KeysFresh
    <2>6. \A d \in Calls : calls'[d].at \in BeforeSet /\ calls'[d].n = calls[e].n => d = e
      BY <1>1, <2>1 DEF KeyInv, KeysFresh
    <2> QED
      BY <2>1, <2>3, <2>4, <2>5, <2>6
  <1>8. KeysTaken'
    <2> SUFFICES ASSUME NEW e \in Calls
                 PROVE  /\ calls'[e].before \subseteq usedUp'
                        /\ calls'[e].got \notin calls'[e].before
                        /\ calls'[e].op \notin Takers => calls'[e].got = None
                        /\ calls'[e].got # None /\ calls'[e].at # "replied" =>
                              calls'[e].got.kind = KindOf(e)
                        /\ /\ calls'[e].op = "removeBiometric" /\ calls'[e].got # None
                           /\ calls'[e].at \in AfterDel
                           => \A kind \in Kinds : stored'[kind] # None => calls'[e].got # Key(kind)'
      BY <1>1 DEF KeysTaken
    <2>1. calls'[e].before \subseteq usedUp'
      BY <1>1, <1>5 DEF KeyInv, KeysTaken
    <2>2. calls'[e].got \notin calls'[e].before
      BY <1>1, <1>3 DEF KeyInv, KeysTaken
    <2>3. calls'[e].op \notin Takers => calls'[e].got = None
      BY <1>1 DEF KeyInv, KeysTaken
    <2>4. calls'[e].got # None /\ calls'[e].at # "replied" => calls'[e].got.kind = KindOf(e)
      BY <1>1 DEF KeyInv, KeysTaken
    <2>5. ASSUME calls'[e].op = "removeBiometric", calls'[e].got # None, calls'[e].at \in AfterDel,
                 NEW kind \in Kinds, stored'[kind] # None
          PROVE  calls'[e].got # Key(kind)'
      <3>1. CASE e = c
        BY <1>1, <2>5, <3>1
      <3>2. CASE e # c /\ stored'[kind] = stored[kind]
        BY <1>1, <1>2, <2>5, <3>2 DEF KeyInv, KeysTaken
      <3>3. CASE e # c /\ Sets(c) /\ stored'[kind].by = calls[c].n
        <4>1. calls[e].got # None /\ calls'[e].got = calls[e].got
          BY <2>5, <3>3
        <4>2. calls[e].got.by # calls[c].n
          BY <3>3, <4>1 DEF Sets, KeyInv, KeysFresh
        <4> QED
          BY <1>2, <2>5, <3>3, <4>1, <4>2
      <3> QED
        BY <2>5, <3>1, <3>2, <3>3 DEF StoresOwn
    <2> QED
      BY <1>1, <2>1, <2>2, <2>3, <2>4, <2>5
  <1>9. KeysGone'
    <2>1. None \notin usedUp'
      BY <1>5 DEF KeyInv, KeysGone
    <2>2. ASSUME NEW kind \in Kinds, stored'[kind] # None
          PROVE  Key(kind)' \notin usedUp'
      <3>1. Key(kind)' \notin usedUp
        <4>1. CASE stored'[kind] = stored[kind]
          BY <1>2, <2>2, <4>1 DEF KeyInv, KeysGone
        <4>2. CASE Sets(c) /\ stored'[kind].by = calls[c].n
          BY <1>2, <2>2, <4>2 DEF Sets, KeyInv, KeysFresh
        <4> QED
          BY <2>2, <4>1, <4>2 DEF StoresOwn
      <3> QED
        BY <2>2, <3>1 DEF UsesUp
    <2>3. links' \cap usedUp' = {}
      <3>1. \A link \in links' : link \notin usedUp
        BY DEF StoresOwn, Sets, KeyInv, KeysGone, KeysFresh
      <3> QED
        BY <3>1 DEF UsesUp
    <2> QED
      BY <2>1, <2>2, <2>3 DEF KeysGone
  <1> QED
    BY <1>6, <1>7, <1>8, <1>9 DEF KeyInv

(* The steps of one call, by where it goes. *)
LEMMA KeyGoes ==
  ASSUME Typed, KeyInv, NEW c \in Calls, NEW at, NEW new, NEW cols,
         Moves(c, at, new, calls[c].got, cols), calls[c].at # "replied",
         at \in BeforeSet => calls[c].at \in BeforeSet,
         calls[c].op = "removeBiometric" /\ at \in AfterDel => calls[c].at \in AfterDel,
         UNCHANGED <<stored, links, usedUp, begun>>
  PROVE  KeyInv'
  <1>1. /\ \A e \in Calls : Same(e)
        /\ \A e \in Calls \ {c} : calls'[e].at = calls[e].at /\ calls'[e].got = calls[e].got
        /\ calls'[c].got = calls[c].got /\ calls'[c].at = at
    BY DEF Moves, Same
  <1>2. /\ calls[c].op \notin Takers => calls[c].got = None
        /\ calls[c].got # None => calls[c].got.kind = KindOf(c)
    BY DEF KeyInv, KeysTaken
  <1>3. calls[c].op = "removeBiometric" /\ calls[c].got # None /\ at \in AfterDel =>
           \A kind \in Kinds : stored'[kind] # None => calls[c].got # Key(kind)'
    BY DEF KeyInv, KeysTaken, Key
  <1>4. StoresOwn(c)
    BY DEF StoresOwn
  <1> QED
    BY <1>1, <1>2, <1>3, <1>4, KeyMove

LEMMA KeyRefuse ==
  ASSUME Typed, KeyInv, NEW c \in Calls, Refuse(c), StoresOwn(c), UNCHANGED <<usedUp, begun>>
  PROVE  KeyInv'
  <1>1. /\ \A e \in Calls : Same(e)
        /\ \A e \in Calls \ {c} : calls'[e].at = calls[e].at /\ calls'[e].got = calls[e].got
        /\ calls'[c].got = calls[c].got /\ calls'[c].at = "replied"
    BY CallType, RefuseMoves DEF Moves, Same
  <1>2. calls[c].op \notin Takers => calls[c].got = None
    BY DEF KeyInv, KeysTaken
  <1> QED
    BY <1>1, <1>2, KeyMove DEF BeforeSet, AfterDel

LEMMA KeySucceed ==
  ASSUME Typed, KeyInv, NEW c \in Calls, NEW got, Succeed(c, got), StoresOwn(c), begun' = begun,
         got \in {None, calls[c].got} \/ Carried(got),
         calls[c].op \notin Takers => got = None,
         got # None /\ calls[c].op # "authenticate" =>
            got \notin links' /\ \A kind \in Kinds : stored'[kind] # None => Key(kind)' # got
  PROVE  KeyInv'
  <1>1. /\ \A e \in Calls : Same(e)
        /\ \A e \in Calls \ {c} : calls'[e].at = calls[e].at /\ calls'[e].got = calls[e].got
        /\ calls'[c].got = got /\ calls'[c].at = "replied"
    BY CallType, SucceedMoves DEF Moves, Same
  <1>2. usedUp' = usedUp \/ UsesUp(got)
    BY DEF Succeed, UsesUp
  <1> QED
    BY <1>1, <1>2, KeyMove DEF BeforeSet, AfterDel

LEMMA KeyReturn ==
  ASSUME Typed, KeyInv, NEW c \in Calls, NEW got, Return(c, got), StoresOwn(c), begun' = begun,
         got \in {None, calls[c].got} \/ Carried(got),
         calls[c].op \notin Takers => got = None,
         got # None /\ calls[c].op # "authenticate" =>
            got \notin links' /\ \A kind \in Kinds : stored'[kind] # None => Key(kind)' # got
  PROVE  KeyInv'
  BY KeyRefuse, KeySucceed DEF Return

LEMMA KeepsOwn ==
  ASSUME NEW c \in Calls, UNCHANGED <<stored, links>>
  PROVE  StoresOwn(c)
  BY DEF StoresOwn

(* The calls of registration, lookups, and updates. *)
LEMMA KeyPlain ==
  ASSUME Typed, KeyInv, NEW c \in Calls,
         \/ FindFirst(c) \/ Lookup(c) \/ Insert(c) \/ Find(c) \/ FindAccount(c) \/ Compare(c)
         \/ Fail(c)
  PROVE  KeyInv'
  <1>1. UNCHANGED <<stored, links, begun>> /\ StoresOwn(c) /\ CallsShape
    BY KeepsOwn, CallType DEF FindFirst, Lookup, Insert, Find, FindAccount, Compare, Fail, rest
  <1>2. ASSUME Refuse(c), UNCHANGED usedUp PROVE KeyInv'
    BY <1>1, <1>2, KeyRefuse
  <1>3. ASSUME Succeed(c, None) \/ Return(c, None) PROVE KeyInv'
    BY <1>1, <1>3, KeySucceed, KeyReturn
  <1>4. ASSUME NEW at \in {"lookup", "insert"}, Go(c, at), UNCHANGED usedUp,
               calls[c].at # "replied"
        PROVE  KeyInv'
    BY <1>1, <1>4, GoMoves, KeyGoes DEF BeforeSet, AfterDel
  <1>5. ASSUME NEW at \in {"setLink", "set"}, UNCHANGED usedUp,
               Go(c, at) \/ calls' = [calls EXCEPT ![c].at = at, ![c].new = now],
               calls[c].at \in {"findAccount", "compare"}
        PROVE  KeyInv'
    <2>1. PICK new : Moves(c, at, new, calls[c].got, calls[c].cols)
      BY <1>1, <1>5, GoMoves, NewMoves
    <2> QED
      BY <1>1, <1>5, <2>1, KeyGoes DEF BeforeSet, AfterDel
  <1>6. ASSUME Go(c, "write"), UNCHANGED usedUp, calls[c].at = "find"
        PROVE  KeyInv'
    BY <1>1, <1>6, GoMoves, KeyGoes DEF BeforeSet, AfterDel
  <1>7. CASE FindFirst(c)
    BY <1>3, <1>4, <1>7 DEF FindFirst
  <1>8. CASE Lookup(c)
    BY <1>2, <1>4, <1>8 DEF Lookup
  <1>9. CASE Insert(c)
    BY <1>2, <1>3, <1>9 DEF Insert
  <1>10. CASE Find(c)
    BY <1>2, <1>6, <1>10 DEF Find
  <1>11. CASE FindAccount(c)
    BY <1>5, <1>11 DEF FindAccount
  <1>12. CASE Compare(c)
    BY <1>2, <1>5, <1>12 DEF Compare
  <1>13. CASE Fail(c)
    BY <1>2, <1>13 DEF Fail
  <1> QED
    BY <1>7, <1>8, <1>9, <1>10, <1>11, <1>12, <1>13

LEMMA KeyFindById ==
  ASSUME Typed, KeyInv, NEW c \in Calls, FindById(c) \/ Diff(c)
  PROVE  KeyInv'
  <1>1. /\ calls[c].at \in {"findById", "diff"} /\ UNCHANGED <<stored, links, begun>>
        /\ StoresOwn(c) /\ CallsShape
    BY KeepsOwn, CallType DEF FindById, Diff, rest
  <1>2. CASE FindById(c)
    <2>1. calls[c].at = "findById" /\ UNCHANGED usedUp
      BY <1>2 DEF FindById
    <2>2. CASE Refuse(c)
      BY <1>1, <2>1, <2>2, KeyRefuse
    <2>3. ASSUME NEW at \in {"diff", "set", "get", "del", "setLink", "write"}, NEW new, NEW cols,
                 Moves(c, at, new, calls[c].got, cols), at = "write" => calls[c].op # "removeBiometric"
          PROVE  KeyInv'
      BY <1>1, <2>1, <2>3, KeyGoes DEF BeforeSet, AfterDel
    <2>4. CASE FoundById(c)
      BY <2>3, <2>4 DEF FoundById, WithCols, Stays
    <2> QED
      BY <1>2, <2>2, <2>4, FindByIdMoves
  <1>3. CASE Diff(c)
    <2>1. CASE Succeed(c, None)
      BY <1>1, <2>1, KeySucceed
    <2>2. ASSUME NEW cols, WithCols(c, "write", cols), UNCHANGED usedUp PROVE KeyInv'
      <3>1. Moves(c, "write", calls[c].new, calls[c].got, cols)
        BY <2>2 DEF WithCols
      <3>2. calls[c].op = "delete"
        BY <1>3, DiffMoves
      <3> QED
        BY <1>1, <2>2, <3>1, <3>2, KeyGoes DEF BeforeSet, AfterDel
    <2> QED
      BY <1>3, <2>1, <2>2, DiffMoves
  <1> QED
    BY <1>2, <1>3

LEMMA KeyWrite ==
  ASSUME Typed, KeyInv, NEW c \in Calls, Write(c)
  PROVE  KeyInv'
  <1>1. UNCHANGED <<stored, links, begun, usedUp>> /\ StoresOwn(c)
    BY KeepsOwn DEF Write, rest
  <1>2. /\ \A e \in Calls : Same(e)
        /\ \A e \in Calls \ {c} : calls'[e].at = calls[e].at /\ calls'[e].got = calls[e].got
        /\ calls'[c].got = calls[c].got /\ calls'[c].at = AfterWrite(c) /\ calls[c].at = "write"
    BY WriteMoves
  <1>3. AfterWrite(c) \notin BeforeSet
    BY DEF AfterWrite, BeforeSet
  <1>4. /\ calls[c].op \notin Takers => calls[c].got = None
        /\ calls[c].got # None => calls[c].got.kind = KindOf(c)
    BY <1>2 DEF KeyInv, KeysTaken
  <1>5. calls[c].op = "removeBiometric" /\ calls[c].got # None =>
           \A kind \in Kinds : stored'[kind] # None => calls[c].got # Key(kind)'
    BY <1>1, <1>2 DEF KeyInv, KeysTaken, Key, AfterDel
  <1> QED
    BY <1>1, <1>2, <1>3, <1>4, <1>5, KeyMove

LEMMA KeyFindAgain ==
  ASSUME Typed, KeyInv, NEW c \in Calls, FindAgain(c)
  PROVE  KeyInv'
  <1>1. /\ calls[c].at = "findAgain" /\ UNCHANGED <<stored, links, begun>>
        /\ StoresOwn(c) /\ CallsShape /\ calls[c].op \in Updaters \cup {"updateProfile"}
    BY KeepsOwn, CallType DEF FindAgain, rest, CallOK, OpsAt
  <1>2. CASE Refuse(c) /\ UNCHANGED usedUp
    BY <1>1, <1>2, KeyRefuse
  <1>3. CASE calls[c].op = "reset" /\ Go(c, "del") /\ UNCHANGED usedUp
    BY <1>1, <1>3, GoMoves, KeyGoes DEF BeforeSet, AfterDel
  <1>4. CASE calls[c].op # "reset" /\ Succeed(c, calls[c].got)
    <2>1. calls[c].got # None => calls[c].op = "removeBiometric"
      BY <1>1, <1>4 DEF KeyInv, KeysTaken, Takers, Updaters, ByLink
    <2>2. calls[c].got # None => \A kind \in Kinds : stored'[kind] # None => Key(kind)' # calls[c].got
      BY <1>1, <2>1 DEF KeyInv, KeysTaken, AfterDel, Key
    <2>3. calls[c].got # None => calls[c].got \notin links'
      <3>1. calls[c].got # None => calls[c].got.kind = KindOf(c) /\ KindOf(c) \in Types
        BY <1>1, <2>1, KindType DEF KeyInv, KeysTaken, BiometricOps
      <3>2. \A link \in links : link.kind \in LinkKinds
        BY DEF Typed
      <3> QED
        BY <1>1, <3>1, <3>2, KindsApart
    <2>4. calls[c].op \notin Takers => calls[c].got = None
      BY DEF KeyInv, KeysTaken
    <2> QED
      BY <1>1, <1>4, <2>2, <2>3, <2>4, KeySucceed
  <1> QED
    BY <1>2, <1>3, <1>4 DEF FindAgain

LEMMA KeyGet ==
  ASSUME Typed, KeyInv, NEW c \in Calls, Get(c)
  PROVE  KeyInv'
  <1>1. /\ calls[c].at = "get" /\ UNCHANGED <<stored, links, begun, usedUp>>
        /\ StoresOwn(c) /\ KindOf(c) \in Kinds
    BY KeepsOwn, KindType DEF Get, rest
  <1>2. CASE Refuse(c)
    BY <1>1, <1>2, KeyRefuse
  <1>3. CASE calls[c].op = "refresh" /\ Stays(c, "delReused")
    BY <1>1, <1>3, KeyGoes DEF Stays, BeforeSet, AfterDel
  <1>4. CASE stored[KindOf(c)] # None /\ GotKey(c)
    <2>1. PICK at \in {"compare", "find", "findById"} :
             Moves(c, at, calls[c].new, Key(KindOf(c)), calls[c].cols)
      BY <1>4 DEF GotKey
    <2>2. /\ \A e \in Calls : Same(e)
          /\ \A e \in Calls \ {c} : calls'[e].at = calls[e].at /\ calls'[e].got = calls[e].got
          /\ calls'[c].got = Key(KindOf(c)) /\ calls'[c].at = at
      BY <2>1 DEF Moves, Same
    <2>3. calls[c].op \in {"reset", "refresh", "authenticate"}
      BY <1>4 DEF GotKey
    <2>4. Carried(Key(KindOf(c))) /\ Key(KindOf(c)).kind = KindOf(c)
      BY <1>1, <1>4 DEF Carried, Key
    <2> QED
      BY <1>1, <2>2, <2>3, <2>4, KeyMove DEF BeforeSet, Takers
  <1> QED
    BY <1>2, <1>3, <1>4, GetMoves

LEMMA KeySet ==
  ASSUME Typed, KeyInv, NEW c \in Calls, Set(c)
  PROVE  KeyInv'
  <1>1. /\ calls[c].at = "set" /\ UNCHANGED <<links, begun>> /\ CallsShape
        /\ calls[c].op \in {"sendReset", "registerBiometric", "authenticate", "login", "refresh"}
    BY CallType DEF Set, rest, CallOK, OpsAt
  <1>2. calls'[c].at \notin BeforeSet => StoresOwn(c)
    <2>1. \A kind \in Kinds : stored'[kind] = stored[kind] \/ stored'[kind].by = calls[c].n
      BY DEF Set, Typed
    <2> QED
      BY <1>1, <2>1 DEF StoresOwn, Sets, BeforeSet
  <1>3. calls[c].op \notin Takers => calls[c].got = None
    BY DEF KeyInv, KeysTaken
  <1>4. CASE Return(c, calls[c].got) /\ calls[c].op \in {"sendReset", "authenticate", "login"}
    <2>1. calls'[c].at \notin BeforeSet
      BY <1>1, <1>4, RefuseMoves, SucceedMoves DEF Return, Moves, BeforeSet
    <2>2. calls[c].op # "authenticate" => calls[c].got = None
      BY <1>3, <1>4 DEF Takers, ByLink
    <2> QED
      BY <1>1, <1>2, <1>3, <1>4, <2>1, <2>2, KeyReturn
  <1>5. ASSUME NEW at \in {"del", "find"}, Go(c, at), UNCHANGED usedUp,
               calls[c].op \in {"refresh", "registerBiometric"}
        PROVE  KeyInv'
    <2>1. /\ \A e \in Calls : Same(e)
          /\ \A e \in Calls \ {c} : calls'[e].at = calls[e].at /\ calls'[e].got = calls[e].got
          /\ calls'[c].got = calls[c].got /\ calls'[c].at = at
      BY <1>1, <1>5, GoMoves DEF Moves, Same
    <2>2. at \notin BeforeSet
      BY DEF BeforeSet
    <2>3. calls[c].got # None => calls[c].got.kind = KindOf(c)
      BY <1>1 DEF KeyInv, KeysTaken
    <2> QED
      BY <1>1, <1>2, <1>3, <1>5, <2>1, <2>2, <2>3, KeyMove
  <1> QED
    BY <1>1, <1>4, <1>5 DEF Set

LEMMA KeyDel ==
  ASSUME Typed, KeyInv, NEW c \in Calls, Del(c)
  PROVE  KeyInv'
  <1>1. /\ calls[c].at = "del" /\ UNCHANGED <<links, begun>> /\ KindOf(c) \in Kinds
        /\ calls[c].op \in {"reset", "removeBiometric", "refresh", "logout"}
    BY DelMoves DEF Del, rest
  <1>2. \A kind \in Kinds : /\ stored'[kind] = None \/ stored'[kind] = stored[kind]
                            /\ stored'[kind] # None => kind # KindOf(c)
    BY DelMoves
  <1>3. StoresOwn(c)
    BY <1>1, <1>2 DEF StoresOwn
  <1>4. Gone(c) \in {None, calls[c].got} \/ Carried(Gone(c))
    BY <1>1 DEF Gone, Carried, Key
  <1>5. Gone(c) # None => Gone(c).kind = KindOf(c)
    BY <1>1 DEF Gone, Key, KeyInv, KeysTaken
  <1>6. \A kind \in Kinds : stored'[kind] # None => Key(kind)'.kind # KindOf(c)
    BY <1>2 DEF Key
  <1>7. Gone(c) # None => Gone(c) \notin links'
    <2>1. \A link \in links : link.kind \in LinkKinds
      BY DEF Typed
    <2> QED
      BY <1>1, <1>5, <2>1, KindsApart
  <1>8. CASE Return(c, Gone(c))
    BY <1>1, <1>3, <1>4, <1>5, <1>6, <1>7, <1>8, KeyReturn DEF Takers
  <1>9. CASE /\ calls[c].op = "removeBiometric" /\ UNCHANGED usedUp
             /\ Moves(c, "find", calls[c].new, Gone(c), calls[c].cols)
    <2>1. /\ \A e \in Calls : Same(e)
          /\ \A e \in Calls \ {c} : calls'[e].at = calls[e].at /\ calls'[e].got = calls[e].got
          /\ calls'[c].got = Gone(c) /\ calls'[c].at = "find"
      BY <1>9 DEF Moves, Same
    <2> QED
      BY <1>1, <1>3, <1>4, <1>5, <1>6, <1>9, <2>1, KeyMove DEF Takers, BeforeSet
  <1> QED
    BY <1>8, <1>9, DelMoves

LEMMA KeyDelReused ==
  ASSUME Typed, KeyInv, NEW c \in Calls, DelReused(c)
  PROVE  KeyInv'
  <1>1. StoresOwn(c)
    BY DEF DelReused, StoresOwn, Typed
  <1> QED
    BY <1>1, KeyRefuse DEF DelReused, rest

LEMMA KeyLink ==
  ASSUME Typed, KeyInv, NEW c \in Calls, SetLink(c) \/ GetLink(c) \/ DelLink(c)
  PROVE  KeyInv'
  <1>1. CASE SetLink(c)
    <2>1. calls'[c].at = "replied"
      BY <1>1, CallType, RefuseMoves, SucceedMoves DEF SetLink, Mailed, Return, Moves
    <2>2. StoresOwn(c)
      BY <1>1, <2>1 DEF SetLink, Mailed, StoresOwn, Sets, BeforeSet
    <2> QED
      BY <1>1, <2>2, KeyReturn DEF SetLink, Mailed, rest
  <1>2. CASE GetLink(c)
    <2>1. UNCHANGED <<stored, links, begun, usedUp>> /\ StoresOwn(c)
      BY <1>2, KeepsOwn DEF GetLink, rest
    <2>2. CASE Refuse(c)
      BY <2>1, <2>2, KeyRefuse
    <2>3. ASSUME NEW link \in links, link.kind = KindOf(c),
                 Moves(c, "find", calls[c].new, link, calls[c].cols)
          PROVE  KeyInv'
      <3>1. /\ \A e \in Calls : Same(e)
            /\ \A e \in Calls \ {c} : calls'[e].at = calls[e].at /\ calls'[e].got = calls[e].got
            /\ calls'[c].got = link /\ calls'[c].at = "find"
        BY <2>3 DEF Moves, Same
      <3>2. calls[c].op \in ByLink
        BY <1>2, GetLinkMoves
      <3> QED
        BY <2>1, <2>3, <3>1, <3>2, KeyMove DEF Carried, Takers, ByLink, BeforeSet
    <2> QED
      BY <1>2, <2>2, <2>3, GetLinkMoves
  <1>3. CASE DelLink(c)
    <2>1. /\ calls[c].at = "delLink" /\ calls[c].op \in ByLink /\ KindOf(c) \in LinkKinds
          /\ UNCHANGED <<stored, begun>> /\ links' \subseteq links
      BY <1>3, CallType, KindType DEF DelLink, rest, CallOK, OpsAt
    <2>2. StoresOwn(c)
      BY <2>1 DEF StoresOwn
    <2>3. calls[c].got # None => calls[c].got.kind = KindOf(c)
      BY <2>1 DEF KeyInv, KeysTaken
    <2>4. calls[c].got # None => calls[c].got \notin links'
      BY <1>3, <2>3 DEF DelLink, Deleted
    <2>5. \A kind \in Kinds : stored'[kind] # None => Key(kind)'.kind # KindOf(c)
      BY <2>1, KindsApart DEF Key
    <2> QED
      BY <1>3, <2>1, <2>2, <2>3, <2>4, <2>5, KeyReturn DEF DelLink, Takers
  <1> QED
    BY <1>1, <1>2, <1>3

(* Calls that begin or end, and time. *)
LEMMA KeyBegin ==
  ASSUME Typed, KeyInv, NEW c \in Calls, Starts(c)
  PROVE  KeyInv'
  <1>1. PICK op, at, arg, cols : Begin(c, op, arg, at, cols) /\ op \in OpsAt(at)
    BY DEF Starts
  <1>2. /\ \A e \in Calls \ {c} : calls'[e] = calls[e]
        /\ calls'[c].at = at /\ calls'[c].got = None /\ calls'[c].before = usedUp
        /\ calls'[c].op = op /\ calls'[c].n = begun + 1 /\ begun' = begun + 1
    BY <1>1, BeginMoves
  <1>3. UNCHANGED <<stored, links, usedUp>>
    BY <1>1 DEF Begin
  <1>4. begun \in Nat /\ \A n \in 1..begun : n \in 1..begun' /\ n # begun + 1
    BY <1>2, AccountsAssumption DEF Typed
  <1>5. KeysGone'
    BY <1>3 DEF KeyInv, KeysGone, Key
  <1>6. KeysTaken'
    <2>1. ASSUME NEW e \in Calls \ {c}
          PROVE  /\ calls'[e].before \subseteq usedUp' /\ calls'[e].got \notin calls'[e].before
                 /\ calls'[e].op \notin Takers => calls'[e].got = None
                 /\ calls'[e].got # None /\ calls'[e].at # "replied" =>
                       calls'[e].got.kind = KindOf(e)'
                 /\ /\ calls'[e].op = "removeBiometric" /\ calls'[e].got # None
                    /\ calls'[e].at \in AfterDel
                    => \A kind \in Kinds : stored'[kind] # None => calls'[e].got # Key(kind)'
      <3>1. calls'[e] = calls[e] /\ KindOf(e)' = KindOf(e)
        BY <1>2 DEF KindOf
      <3> QED
        BY <1>3, <3>1 DEF KeyInv, KeysTaken, Key
    <2>2. calls'[c].got = None /\ None \notin calls'[c].before /\ calls'[c].before = usedUp'
      BY <1>2, <1>3 DEF KeyInv, KeysGone
    <2> QED
      BY <2>1, <2>2 DEF KeysTaken
  <1>7. KeysNumbered'
    BY <1>2, <1>3, <1>4 DEF KeyInv, KeysNumbered
  <1>8. KeysFresh'
    <2>1. \A e \in Calls : calls[e].at \in BeforeSet => calls[e].n \in 1..begun
      BY CallType DEF CallOK, BeforeSet
    <2>2. /\ \A kind \in Kinds : stored[kind] # None => stored[kind].by # begun + 1
          /\ \A key \in usedUp \cup links : key.by # begun + 1
          /\ \A d \in Calls : calls[d].got # None => calls[d].got.by # begun + 1
      BY <1>4 DEF KeyInv, KeysNumbered
    <2>3. ASSUME NEW e \in Calls, calls'[e].at \in BeforeSet
          PROVE  /\ \A kind \in Kinds : stored'[kind] # None => stored'[kind].by # calls'[e].n
                 /\ \A key \in usedUp' \cup links' : key.by # calls'[e].n
                 /\ \A d \in Calls : calls'[d].got # None => calls'[d].got.by # calls'[e].n
                 /\ \A d \in Calls : calls'[d].at \in BeforeSet /\ calls'[d].n = calls'[e].n => d = e
      <3>1. CASE e = c
        BY <1>2, <1>3, <1>4, <2>1, <2>2, <3>1
      <3>2. CASE e # c
        <4>1. calls'[e] = calls[e] /\ calls[e].n \in 1..begun
          BY <1>2, <2>1, <2>3, <3>2
        <4> QED
          BY <1>2, <1>3, <1>4, <2>3, <3>2, <4>1 DEF KeyInv, KeysFresh
      <3> QED
        BY <3>1, <3>2
    <2> QED
      BY <2>3 DEF KeysFresh
  <1> QED
    BY <1>5, <1>6, <1>7, <1>8 DEF KeyInv

(* Less is stored and mailed, and calls are as they were, or over. *)
LEMMA KeyQuiet ==
  ASSUME Typed, KeyInv, UNCHANGED <<usedUp, begun>>,
         \A e \in Calls : calls'[e] \in {calls[e], Idle},
         \A kind \in Kinds : stored'[kind] = None \/ stored'[kind] = stored[kind],
         links' \subseteq links
  PROVE  KeyInv'
  <1>1. \A kind \in Kinds : stored'[kind] # None => Key(kind)' = Key(kind)
    BY DEF Key
  <1>2. \A e \in Calls : calls'[e] = calls[e] => KindOf(e)' = KindOf(e)
    BY DEF KindOf
  <1>3. KeysGone'
    BY <1>1 DEF KeyInv, KeysGone
  <1>4. KeysTaken'
    <2> SUFFICES ASSUME NEW e \in Calls
                 PROVE  /\ calls'[e].before \subseteq usedUp'
                        /\ calls'[e].got \notin calls'[e].before
                        /\ calls'[e].op \notin Takers => calls'[e].got = None
                        /\ calls'[e].got # None /\ calls'[e].at # "replied" =>
                              calls'[e].got.kind = KindOf(e)'
                        /\ /\ calls'[e].op = "removeBiometric" /\ calls'[e].got # None
                           /\ calls'[e].at \in AfterDel
                           => \A kind \in Kinds : stored'[kind] # None => calls'[e].got # Key(kind)'
      BY DEF KeysTaken
    <2>1. CASE calls'[e] = calls[e]
      BY <1>1, <1>2, <2>1 DEF KeyInv, KeysTaken
    <2>2. CASE calls'[e] = Idle
      BY <2>2, IdleSlot
    <2> QED
      BY <2>1, <2>2
  <1>5. KeysNumbered'
    BY IdleSlot DEF KeyInv, KeysNumbered
  <1>6. KeysFresh'
    <2> SUFFICES ASSUME NEW e \in Calls, calls'[e].at \in BeforeSet
          PROVE  /\ \A kind \in Kinds : stored'[kind] # None => stored'[kind].by # calls'[e].n
                 /\ \A key \in usedUp' \cup links' : key.by # calls'[e].n
                 /\ \A d \in Calls : calls'[d].got # None => calls'[d].got.by # calls'[e].n
                 /\ \A d \in Calls : calls'[d].at \in BeforeSet /\ calls'[d].n = calls'[e].n => d = e
      BY DEF KeysFresh
    <2>1. \A d \in Calls : calls'[d].at \in BeforeSet => calls'[d] = calls[d]
      BY IdleSlot DEF BeforeSet
    <2>2. \A d \in Calls : calls'[d].got # None => calls'[d] = calls[d]
      BY IdleSlot
    <2> QED
      BY <2>1, <2>2 DEF KeyInv, KeysFresh
  <1> QED
    BY <1>3, <1>4, <1>5, <1>6 DEF KeyInv

LEMMA KeyStep ==
  ASSUME Typed, KeyInv, [Next]_vars
  PROVE  KeyInv'
  <1>1. ASSUME NEW c \in Calls, Step(c) PROVE KeyInv'
    <2>1. CASE Finish(c)
      BY <2>1, Finished, KeyQuiet DEF Finish, rest
    <2> QED
      BY <1>1, <2>1, KeyPlain, KeyFindById, KeyWrite, KeyFindAgain, KeyGet, KeySet, KeyDel,
         KeyDelReused, KeyLink DEF Step
  <1>2. ASSUME NEW kind \in Kinds, Expire(kind) PROVE KeyInv'
    <2>1. \A k \in Kinds : stored'[k] = None \/ stored'[k] = stored[k]
      BY <1>2 DEF Expire, Typed
    <2> QED
      BY <1>2, <2>1, KeyQuiet DEF Expire, rest
  <1>3. ASSUME NEW link \in links, ExpireLink(link) PROVE KeyInv'
    BY <1>3, KeyQuiet DEF ExpireLink, rest
  <1>4. CASE Tick \/ UNCHANGED vars
    BY <1>4, KeyQuiet DEF Tick, vars
  <1> QED
    BY <1>1, <1>2, <1>3, <1>4, KeyBegin, StartsOne DEF Next

(* A token, link or hash that a call was told is used up is accepted from no *)
(* call that begins afterwards, because a key carries the number of the call *)
(* that set it and no one else sets it again.                                *)
THEOREM UsedUpStaysRefused == Spec => []UsedUpRefused
  <1>1. Init => KeyInv
    <2> SUFFICES ASSUME Init PROVE KeyInv
      OBVIOUS
    <2>1. /\ \A c \in Calls : calls[c] = Idle
          /\ \A kind \in Kinds : stored[kind] = None
          /\ links = {} /\ usedUp = {}
      BY DEF Init
    <2>2. KeysGone /\ KeysNumbered
      BY <2>1, IdleSlot DEF KeysGone, KeysNumbered
    <2>3. KeysTaken /\ KeysFresh
      BY <2>1, IdleSlot DEF KeysTaken, KeysFresh, BeforeSet
    <2> QED
      BY <2>2, <2>3 DEF KeyInv
  <1>2. KeyInv => UsedUpRefused
    BY DEF KeyInv, KeysTaken, UsedUpRefused
  <1> QED
    BY <1>1, <1>2, KeyStep, AlwaysTyped, PTL DEF Spec

-----------------------------------------------------------------------------
(* Biometric methods and their hashes.                                       *)

LEMMA ChangesIs ==
  ASSUME NEW c \in Calls
  PROVE  /\ ChangesMethods(c) <=> calls[c].op \in Changers /\ calls[c].at \notin {"idle", "replied"}
         /\ ChangesMethods(c)' <=>
               calls'[c].op \in Changers /\ calls'[c].at \notin {"idle", "replied"}
         /\ Busy(c) <=> calls[c].at \notin {"idle", "replied"}
         /\ Busy(c)' <=> calls'[c].at \notin {"idle", "replied"}
  BY DEF ChangesMethods, Busy, Changers

LEMMA MethodsMove ==
  ASSUME Typed, MethodsInv, ~raced, NEW c \in Calls, Busy(c),
         \A e \in Calls : Same(e),
         \A e \in Calls \ {c} : calls'[e].at = calls[e].at /\ calls'[e].cols = calls[e].cols,
         user'.active,
         \/ user'.methods = user.methods
         \/ /\ calls[c].op = "registerBiometric"
            /\ user'.methods = user.methods \cup {calls[c].arg}
         \/ /\ calls[c].op = "removeBiometric"
            /\ user'.methods = user.methods \ {calls[c].arg}
            /\ stored'[calls[c].arg] = None,
         \A type \in Types :
            \/ stored'[type] = None
            \/ stored'[type] = stored[type]
            \/ calls[c].op = "registerBiometric" /\ calls[c].arg = type /\ calls'[c].at = "find",
         calls[c].op = "registerBiometric" /\ calls[c].at \in {"find", "write"} =>
            calls'[c].at \in {"find", "write"} \/ calls[c].arg \in user'.methods,
         calls[c].op \in Changers => Knows(calls[c])'
  PROVE  MethodsInv'
  <1>1. \A e \in Calls : /\ calls'[e].op = calls[e].op /\ calls'[e].arg = calls[e].arg
                         /\ ChangesMethods(e)' => ChangesMethods(e)
    BY ChangesIs DEF Same
  <1>2. \A e \in Calls : calls'[e].op = "delete" => ~Busy(e)'
    BY <1>1, ChangesIs DEF MethodsInv
  <1>3. \A e, d \in Calls : ChangesMethods(e)' /\ ChangesMethods(d)' => e = d
    BY <1>1 DEF MethodsInv
  <1>4. ASSUME NEW type \in Types, stored'[type] # None, type \notin user'.methods
        PROVE  \E e \in Calls : /\ calls'[e].op = "registerBiometric" /\ calls'[e].arg = type
                                /\ calls'[e].at \in {"find", "write"}
    <2>1. CASE calls[c].op = "registerBiometric" /\ calls[c].arg = type /\ calls'[c].at = "find"
      BY <1>1, <2>1
    <2>2. CASE stored'[type] = stored[type]
      <3>1. type \notin user.methods
        BY <1>4
      <3>2. PICK e \in Calls : /\ calls[e].op = "registerBiometric" /\ calls[e].arg = type
                               /\ calls[e].at \in {"find", "write"}
        BY <1>4, <2>2, <3>1 DEF MethodsInv
      <3>3. calls'[e].at \in {"find", "write"}
        BY <1>4, <3>2
      <3> QED
        BY <1>1, <3>2, <3>3
    <2> QED
      BY <1>4, <2>1, <2>2
  <1>5. ASSUME NEW e \in Calls PROVE Knows(calls[e])'
    <2>1. CASE calls[e].op \notin Changers
      BY <1>1, <2>1 DEF Knows, Changers
    <2>2. CASE e = c /\ calls[e].op \in Changers
      BY <2>2
    <2>3. CASE e # c /\ calls[e].op \in Changers /\ calls[e].at \in {"set", "find", "write", "del"}
      <3>1. calls[c].op \notin Changers
        BY <2>3, ChangesIs DEF MethodsInv
      <3>2. user'.methods = user.methods /\ \A type \in Types : stored'[type] \in {None, stored[type]}
        BY <3>1 DEF Changers
      <3>3. calls[e].arg \in Types
        BY <2>3, CallType DEF CallOK, Changers, BiometricOps
      <3>4. /\ calls'[e].at = calls[e].at /\ calls'[e].cols = calls[e].cols
            /\ calls'[e].op = calls[e].op /\ calls'[e].arg = calls[e].arg
        BY <1>1, <2>3
      <3>5. Knows(calls[e])
        BY DEF MethodsInv, Knows
      <3> QED
        BY <3>2, <3>3, <3>4, <3>5 DEF Knows
    <2>4. CASE e # c /\ calls[e].at \notin {"set", "find", "write", "del"}
      BY <2>4 DEF Knows
    <2> QED
      BY <2>1, <2>2, <2>3, <2>4
  <1>6. \A e \in Calls : Knows(calls[e])'
    BY <1>5
  <1> QED
    BY <1>2, <1>3, <1>4, <1>6 DEF MethodsInv, Knows

(* Steps of calls that do not change the methods. *)
LEMMA MethodsOther ==
  ASSUME Typed, MethodsInv, ~raced, NEW c \in Calls, Step(c), ~Write(c), ~Finish(c),
         calls[c].op \notin Changers
  PROVE  MethodsInv'
  <1>1. MovesOn(c) /\ user' = user
    BY StepMovesOn
  <1>2. PICK at, new, got, cols : Moves(c, at, new, got, cols)
    BY <1>1 DEF MovesOn
  <1>3. /\ \A e \in Calls : Same(e)
        /\ \A e \in Calls \ {c} : calls'[e].at = calls[e].at /\ calls'[e].cols = calls[e].cols
    BY <1>2 DEF Moves, Same
  <1>4. Busy(c)
    BY DEF Busy, Step, FindFirst, Lookup, Insert, SetLink, Mailed, GetLink, DelLink, Find, FindAgain,
       FindAccount, FindById, Diff, Get, Compare, Set, Del, DelReused, Fail
  <1>5. \A type \in Types : stored'[type] = None \/ stored'[type] = stored[type]
    <2>1. CASE Set(c)
      <3>1. calls[c].op \in {"sendReset", "registerBiometric", "authenticate", "login", "refresh"}
        BY <2>1, CallType DEF Set, CallOK, OpsAt
      <3>2. StoredUnder(c) \notin Types
        BY <3>1, KindType, KindsApart DEF StoredUnder, Changers
      <3> QED
        BY <2>1, <3>2, KindsApart DEF Set, Typed
    <2>2. CASE Del(c)
      BY <2>2, DelMoves, KindsApart
    <2>3. CASE DelReused(c)
      BY <2>3, KindsApart DEF DelReused, Typed
    <2>4. CASE UNCHANGED stored
      BY <2>4
    <2> QED
      BY <2>1, <2>2, <2>3, <2>4 DEF Step, FindFirst, Lookup, Insert, SetLink, Mailed, GetLink, DelLink,
         Find, FindAgain, FindAccount, FindById, Diff, Get, Compare, Fail
  <1>6. user.active
    BY DEF MethodsInv
  <1> QED
    BY <1>1, <1>3, <1>4, <1>5, <1>6, MethodsMove DEF Changers

LEMMA MethodsWrite ==
  ASSUME Typed, MethodsInv, ~raced, NEW c \in Calls, Write(c)
  PROVE  MethodsInv'
  <1>1. /\ calls[c].at = "write" /\ Part(calls[c].cols)
        /\ \A x \in Column : user'[x] = IF x \in DOMAIN calls[c].cols
                                      THEN calls[c].cols[x] ELSE user[x]
        /\ \A e \in Calls : Same(e)
        /\ \A e \in Calls \ {c} : calls'[e].at = calls[e].at /\ calls'[e].cols = calls[e].cols
        /\ calls'[c].at = AfterWrite(c)
    BY WriteMoves
  <1>2. Busy(c) /\ calls[c].op # "delete"
    BY <1>1 DEF Busy, MethodsInv
  <1>3. stored' = stored
    BY DEF Write
  <1>4. user'.active
    <2>1. user'.active = IF "active" \in DOMAIN calls[c].cols
                         THEN calls[c].cols.active ELSE user.active
      BY <1>1 DEF Column
    <2>2. user.active
      BY DEF MethodsInv
    <2>3. "active" \in DOMAIN calls[c].cols => calls[c].cols.active
      BY <1>1, <1>2, WriteCols
    <2> QED
      BY <2>1, <2>2, <2>3
  <1>5. user'.methods = IF "methods" \in DOMAIN calls[c].cols
                        THEN calls[c].cols.methods ELSE user.methods
    BY <1>1 DEF Column
  <1>6. CASE calls[c].op \notin Changers
    <2>1. user'.methods = user.methods
      BY <1>1, <1>2, <1>5, <1>6, WriteCols
    <2> QED
      BY <1>1, <1>2, <1>3, <1>4, <1>6, <2>1, MethodsMove DEF Changers
  <1>7. CASE calls[c].op \in Changers
    <2>1. Knows(calls[c]) /\ AfterWrite(c) = "findAgain"
      BY <1>7 DEF MethodsInv, AfterWrite, Changers
    <2>2. Knows(calls[c])'
      BY <1>1, <2>1 DEF Knows
    <2>3. CASE calls[c].op = "registerBiometric"
      <3>1. calls[c].cols = [methods |-> user.methods \cup {calls[c].arg}]
        BY <1>1, <2>1, <2>3 DEF Knows
      <3>2. user'.methods = user.methods \cup {calls[c].arg}
        BY <1>5, <3>1
      <3> QED
        BY <1>1, <1>2, <1>3, <1>4, <2>2, <2>3, <3>2, MethodsMove
    <2>4. CASE calls[c].op = "removeBiometric"
      <3>1. /\ calls[c].cols = [methods |-> user.methods \ {calls[c].arg}]
            /\ stored[calls[c].arg] = None
        BY <1>1, <2>1, <2>4 DEF Knows
      <3>2. user'.methods = user.methods \ {calls[c].arg}
        BY <1>5, <3>1
      <3> QED
        BY <1>1, <1>2, <1>3, <1>4, <2>2, <2>4, <3>1, <3>2, MethodsMove
    <2> QED
      BY <1>7, <2>3, <2>4 DEF Changers
  <1> QED
    BY <1>6, <1>7

(* Steps of calls that do. *)
LEMMA MethodsGoes ==
  ASSUME Typed, MethodsInv, ~raced, NEW c \in Calls, Busy(c), NEW at, NEW new, NEW got, NEW cols,
         Moves(c, at, new, got, cols), user' = user,
         \A type \in Types :
            \/ stored'[type] = None
            \/ stored'[type] = stored[type]
            \/ calls[c].op = "registerBiometric" /\ calls[c].arg = type /\ at = "find",
         calls[c].op = "registerBiometric" /\ calls[c].at \in {"find", "write"} =>
            at \in {"find", "write"},
         Knows(calls[c])'
  PROVE  MethodsInv'
  <1>1. /\ \A e \in Calls : Same(e)
        /\ \A e \in Calls \ {c} : calls'[e].at = calls[e].at /\ calls'[e].cols = calls[e].cols
        /\ calls'[c].at = at
    BY DEF Moves, Same
  <1>2. user.active
    BY DEF MethodsInv
  <1> QED
    BY <1>1, <1>2, MethodsMove

LEMMA MethodsReplied ==
  ASSUME Typed, MethodsInv, ~raced, NEW c \in Calls, Busy(c), NEW got,
         Refuse(c) \/ Succeed(c, got) \/ Return(c, got), user' = user,
         \A type \in Types : stored'[type] = None \/ stored'[type] = stored[type],
         calls[c].op = "registerBiometric" => calls[c].at \notin {"find", "write"}
  PROVE  MethodsInv'
  <1>1. PICK new, g, cols : Moves(c, "replied", new, g, cols)
    BY CallType, RefuseMoves, SucceedMoves DEF Return
  <1>2. Knows(calls[c])'
    BY <1>1 DEF Moves, Knows
  <1> QED
    BY <1>1, <1>2, MethodsGoes

LEMMA MethodsChanger ==
  ASSUME Typed, MethodsInv, ~raced, NEW c \in Calls, calls[c].op \in Changers,
         FindById(c) \/ Find(c) \/ FindAgain(c) \/ Set(c) \/ Del(c)
  PROVE  MethodsInv'
  <1>1. /\ Busy(c) /\ CallsShape /\ user' = user /\ user.active /\ Knows(calls[c])
        /\ calls[c].arg \in Types /\ KindOf(c) = calls[c].arg
    <2>1. Busy(c) /\ user' = user
      BY DEF Busy, FindById, Find, FindAgain, Set, Del
    <2>2. calls[c].op \in BiometricOps /\ calls[c].at # "idle"
      BY <2>1 DEF Busy, BiometricOps, Changers
    <2> QED
      BY <2>1, <2>2, CallType, KindType DEF CallOK, MethodsInv
  <1>2. CASE FindById(c)
    <2>1. calls[c].at = "findById" /\ stored' = stored
      BY <1>2 DEF FindById
    <2>2. ~Refuse(c) => FoundById(c)
      BY <1>2, FindByIdMoves
    <2>3. CASE Refuse(c)
      BY <1>1, <2>1, <2>3, MethodsReplied
    <2>4. CASE FoundById(c) /\ calls[c].op = "registerBiometric"
      <3>1. WithCols(c, "set", [methods |-> user.methods \cup {calls[c].arg}])
        BY <2>4 DEF FoundById
      <3>2. Knows(calls[c])'
        BY <1>1, <2>4, <3>1 DEF WithCols, Moves, Same, Knows
      <3> QED
        BY <1>1, <2>1, <3>1, <3>2, MethodsGoes DEF WithCols
    <2>5. CASE FoundById(c) /\ calls[c].op = "removeBiometric"
      <3>1. WithCols(c, "del", IF calls[c].arg \in user.methods
                               THEN [methods |-> user.methods \ {calls[c].arg}] ELSE <<>>)
        BY <2>5 DEF FoundById
      <3>2. Knows(calls[c])'
        BY <1>1, <2>5, <3>1 DEF WithCols, Moves, Same, Knows
      <3> QED
        BY <1>1, <2>1, <3>1, <3>2, MethodsGoes DEF WithCols
    <2> QED
      BY <2>2, <2>3, <2>4, <2>5 DEF Changers
  <1>3. CASE Find(c)
    <2>1. Go(c, "write") /\ calls[c].at = "find" /\ stored' = stored
      BY <1>1, <1>3 DEF Find
    <2>2. Moves(c, "write", calls[c].new, calls[c].got, calls[c].cols)
      BY <1>1, <2>1, GoMoves
    <2>3. Knows(calls[c])'
      BY <1>1, <2>1, <2>2 DEF Moves, Same, Knows
    <2> QED
      BY <1>1, <2>1, <2>2, <2>3, MethodsGoes
  <1>4. CASE FindAgain(c)
    <2>1. Succeed(c, calls[c].got) /\ calls[c].at = "findAgain" /\ stored' = stored
      BY <1>1, <1>4 DEF FindAgain, Changers
    <2> QED
      BY <1>1, <2>1, MethodsReplied
  <1>5. CASE Set(c)
    <2>1. calls[c].at = "set" /\ calls[c].op = "registerBiometric"
      BY <1>5, CallType DEF Set, CallOK, OpsAt, Changers
    <2>2. /\ Go(c, "find") /\ StoredUnder(c) = calls[c].arg
          /\ \A type \in Types : stored'[type] = stored[type] \/ type = calls[c].arg
      BY <1>1, <1>5, <2>1, KindsApart DEF Set, StoredUnder, Typed
    <2>3. Moves(c, "find", calls[c].new, calls[c].got, calls[c].cols)
      BY <1>1, <2>2, GoMoves
    <2>4. Knows(calls[c])'
      BY <1>1, <2>1, <2>3 DEF Moves, Same, Knows
    <2> QED
      BY <1>1, <2>1, <2>2, <2>3, <2>4, MethodsGoes
  <1>6. CASE Del(c)
    <2>1. calls[c].at = "del" /\ calls[c].op = "removeBiometric"
      BY <1>6, DelMoves DEF Changers
    <2>2. /\ \A type \in Types : stored'[type] = None \/ stored'[type] = stored[type]
          /\ stored'[calls[c].arg] = None
      BY <1>1, <1>6, DelMoves, KindsApart
    <2>3. CASE Return(c, Gone(c))
      BY <1>1, <2>1, <2>2, <2>3, MethodsReplied
    <2>4. CASE calls[c].cols # <<>> /\ Moves(c, "find", calls[c].new, Gone(c), calls[c].cols)
      <3>1. calls[c].cols = [methods |-> user.methods \ {calls[c].arg}]
        BY <1>1, <2>1, <2>4 DEF Knows
      <3>2. Knows(calls[c])'
        BY <1>1, <2>1, <2>2, <2>4, <3>1 DEF Moves, Same, Knows
      <3> QED
        BY <1>1, <2>1, <2>2, <2>4, <3>2, MethodsGoes
    <2> QED
      BY <1>6, <2>3, <2>4, DelMoves
  <1> QED
    BY <1>2, <1>3, <1>4, <1>5, <1>6

LEMMA MethodsBegin ==
  ASSUME Typed, MethodsInv, NEW c \in Calls, Starts(c)
  PROVE  MethodsInv'
  <1> SUFFICES ASSUME ~raced' PROVE MethodsInv'
    BY DEF MethodsInv
  <1>1. PICK op, at, arg, cols :
           Begin(c, op, arg, at, cols) /\ (op \in Changers => at = "findById")
    BY DEF Starts
  <1>2. /\ \A e \in Calls \ {c} : calls'[e] = calls[e]
        /\ calls'[c].at = at /\ calls'[c].op = op /\ calls[c] = Idle
    BY <1>1, BeginMoves
  <1>3. /\ ~raced /\ op # "delete" /\ UNCHANGED <<user, stored>>
        /\ op \in Changers => \A d \in Calls : ~ChangesMethods(d)
    BY <1>1 DEF Begin, Changers
  <1>4. \A e \in Calls \ {c} : /\ ChangesMethods(e)' <=> ChangesMethods(e)
                               /\ Busy(e)' <=> Busy(e)
    BY <1>2, ChangesIs
  <1>5. \A e \in Calls : calls'[e].op = "delete" => ~Busy(e)'
    BY <1>2, <1>3, <1>4 DEF MethodsInv
  <1>6. \A e, d \in Calls : ChangesMethods(e)' /\ ChangesMethods(d)' => e = d
    <2>1. ChangesMethods(c)' => \A d \in Calls : ~ChangesMethods(d)
      BY <1>2, <1>3, ChangesIs
    <2> QED
      BY <1>3, <1>4, <2>1 DEF MethodsInv
  <1>7. ASSUME NEW type \in Types, stored'[type] # None, type \notin user'.methods
        PROVE  \E e \in Calls : /\ calls'[e].op = "registerBiometric" /\ calls'[e].arg = type
                                /\ calls'[e].at \in {"find", "write"}
    <2>1. PICK e \in Calls : /\ calls[e].op = "registerBiometric" /\ calls[e].arg = type
                             /\ calls[e].at \in {"find", "write"}
      BY <1>3, <1>7 DEF MethodsInv
    <2>2. e # c
      BY <1>2, <2>1, IdleSlot
    <2> QED
      BY <1>2, <2>1, <2>2
  <1>8. \A e \in Calls : Knows(calls[e])'
    <2>1. \A e \in Calls : Knows(calls[e])
      BY <1>3 DEF MethodsInv
    <2>2. ASSUME NEW e \in Calls \ {c} PROVE Knows(calls[e])'
      BY <1>2, <1>3, <2>1 DEF Knows
    <2>3. Knows(calls[c])'
      BY <1>1, <1>2 DEF Knows, Changers
    <2> QED
      BY <2>2, <2>3
  <1> QED
    BY <1>3, <1>5, <1>6, <1>7, <1>8 DEF MethodsInv

(* Hashes that expire, and calls that are as they were, or over. *)
LEMMA MethodsQuiet ==
  ASSUME MethodsInv, UNCHANGED <<user, raced>>,
         \A e \in Calls : \/ calls'[e] = calls[e]
                          \/ calls'[e] = Idle /\ calls[e].at = "replied",
         \A type \in Types : stored'[type] = None \/ stored'[type] = stored[type],
         \A e \in Calls : calls[e].op \in BiometricOps /\ calls[e].at # "idle" => calls[e].arg \in Types
  PROVE  MethodsInv'
  <1> SUFFICES ASSUME ~raced, ~raced' PROVE MethodsInv'
    BY DEF MethodsInv
  <1>1. \A e \in Calls : /\ ChangesMethods(e)' => ChangesMethods(e)
                         /\ Busy(e)' => Busy(e) /\ calls'[e].op = calls[e].op
    BY ChangesIs, IdleSlot
  <1>2. \A e \in Calls : calls'[e].op = "delete" => ~Busy(e)'
    BY <1>1 DEF MethodsInv
  <1>3. \A e, d \in Calls : ChangesMethods(e)' /\ ChangesMethods(d)' => e = d
    BY <1>1 DEF MethodsInv
  <1>4. ASSUME NEW type \in Types, stored'[type] # None, type \notin user'.methods
        PROVE  \E e \in Calls : /\ calls'[e].op = "registerBiometric" /\ calls'[e].arg = type
                                /\ calls'[e].at \in {"find", "write"}
    <2>1. PICK e \in Calls : /\ calls[e].op = "registerBiometric" /\ calls[e].arg = type
                             /\ calls[e].at \in {"find", "write"}
      BY <1>4 DEF MethodsInv
    <2> QED
      BY <2>1
  <1>5. ASSUME NEW e \in Calls PROVE Knows(calls[e])'
    <2>1. CASE calls'[e] = Idle
      BY <2>1, IdleSlot DEF Knows
    <2>2. CASE calls'[e] = calls[e]
      <3>1. Knows(calls[e])
        BY DEF MethodsInv
      <3>2. calls[e].op = "removeBiometric" /\ calls[e].at \in {"find", "write"} =>
               calls[e].arg \in Types
        BY DEF BiometricOps
      <3> QED
        BY <2>2, <3>1, <3>2 DEF Knows
    <2> QED
      BY <2>1, <2>2
  <1>6. user'.active
    BY DEF MethodsInv
  <1> QED
    BY <1>2, <1>3, <1>4, <1>5, <1>6 DEF MethodsInv

LEMMA MethodsStep ==
  ASSUME Typed, MethodsInv, [Next]_vars
  PROVE  MethodsInv'
  <1>1. \A e \in Calls : calls[e].op \in BiometricOps /\ calls[e].at # "idle" => calls[e].arg \in Types
    BY CallType DEF CallOK
  <1>2. ASSUME NEW c \in Calls, Step(c), ~raced' PROVE MethodsInv'
    <2>1. ~raced
      BY <1>2 DEF Step, FindFirst, Lookup, Insert, SetLink, Mailed, GetLink, DelLink, Find, Write,
         FindAgain, FindAccount, FindById, Diff, Get, Compare, Set, Del, DelReused, Fail, Finish,
         rest
    <2>2. CASE Finish(c)
      BY <1>1, <2>2, Finished, MethodsQuiet DEF Finish, rest
    <2>3. CASE Write(c)
      BY <2>1, <2>3, MethodsWrite
    <2>4. CASE calls[c].op \notin Changers /\ ~Write(c) /\ ~Finish(c)
      BY <1>2, <2>1, <2>4, MethodsOther
    <2>5. CASE calls[c].op \in Changers /\ ~Write(c) /\ ~Finish(c)
      <3>1. ~Fail(c)
        BY <1>2, <2>5, ChangesIs DEF Fail, Busy
      <3>2. calls[c].at \notin {"findFirst", "lookup", "insert", "findAccount", "diff", "get",
                                "compare", "delReused", "setLink", "getLink", "delLink"}
        BY <2>5, CallType DEF CallOK, OpsAt, Changers, ByLink
      <3>3. FindById(c) \/ Find(c) \/ FindAgain(c) \/ Set(c) \/ Del(c)
        BY <1>2, <2>5, <3>1, <3>2 DEF Step, FindFirst, Lookup, Insert, SetLink, Mailed, GetLink, DelLink,
           FindAccount, Diff, Get, Compare, DelReused
      <3> QED
        BY <2>1, <2>5, <3>3, MethodsChanger
    <2> QED
      BY <2>2, <2>3, <2>4, <2>5
  <1>3. ASSUME raced' PROVE MethodsInv'
    BY <1>3 DEF MethodsInv
  <1>4. ASSUME NEW kind \in Kinds, Expire(kind) PROVE MethodsInv'
    <2>1. \A type \in Types : stored'[type] = None \/ stored'[type] = stored[type]
      BY <1>4, KindsApart DEF Expire, Typed
    <2> QED
      BY <1>1, <1>4, <2>1, MethodsQuiet DEF Expire, rest
  <1>5. CASE UNCHANGED <<user, raced, calls, stored>>
    BY <1>1, <1>5, MethodsQuiet
  <1>6. ASSUME NEW link \in links, ExpireLink(link) PROVE UNCHANGED <<user, raced, calls, stored>>
    BY <1>6 DEF ExpireLink, rest
  <1>7. Tick \/ UNCHANGED vars => UNCHANGED <<user, raced, calls, stored>>
    BY DEF Tick, vars
  <1> QED
    BY <1>2, <1>3, <1>4, <1>5, <1>6, <1>7, MethodsBegin, StartsOne DEF Next

(* Unless changes of the methods overlap, fail midway or meet a deletion, a  *)
(* hash is stored for a type that is not on the list only while the call     *)
(* that registers it has still to write the list.                            *)
THEOREM HashesListed == Spec => []HashIsListed
  <1>1. Init => MethodsInv
    <2> SUFFICES ASSUME Init PROVE MethodsInv
      OBVIOUS
    <2>1. /\ \A c \in Calls : calls[c] = Idle
          /\ \A kind \in Kinds : stored[kind] = None
      BY DEF Init
    <2>2. user.active
      BY DEF Init
    <2>3. \A c \in Calls : ~Busy(c) /\ ~ChangesMethods(c) /\ Knows(calls[c])
      BY <2>1, IdleSlot DEF Busy, ChangesMethods, Knows
    <2> QED
      BY <2>1, <2>2, <2>3, KindsApart DEF MethodsInv
  <1>2. MethodsInv => HashIsListed
    <2> SUFFICES ASSUME MethodsInv, ~raced, ~(\E c \in Calls : ChangesMethods(c)),
                        NEW type \in Types, stored[type] # None
                 PROVE  type \in user.methods
      BY DEF HashIsListed
    <2>1. \A c \in Calls : calls[c].op \in Changers => calls[c].at \notin {"find", "write"}
      BY ChangesIs
    <2> QED
      BY <2>1 DEF MethodsInv, Changers
  <1> QED
    BY <1>1, <1>2, MethodsStep, AlwaysTyped, PTL DEF Spec

=============================================================================
