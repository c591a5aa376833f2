------------------------------ MODULE Accounts ------------------------------
(***************************************************************************)
(* Registration, password reset, verification, deletion, biometric         *)
(* methods, the second factor and sessions: AuthService, UsersService and  *)
(* the three services beside them, on the table of users and on keys in    *)
(* Redis. For each account these are one reset token, one refresh token    *)
(* and one hash per biometric type; any number of links that were mailed   *)
(* have a key each. The operations are taken at the API of the services;   *)
(* whom a guard lets call them is not modelled.                            *)
(*                                                                         *)
(* Every query and command is an await. One action is one of them with the *)
(* code up to the next; hashing a password, in between, changes nothing. A *)
(* token is a JWT that tells nothing but its account and the second it was *)
(* signed in, so a token is a second. A link holds a random id, for which  *)
(* stands the call that made it.                                           *)
(***************************************************************************)
EXTENDS Naturals

CONSTANTS
    Calls,    \* slots for calls under way
    Emails,   \* email addresses, normalised
    Phones,   \* phone numbers, normalised
    Types,    \* biometric types
    None,     \* null, no key
    Mixes,    \* bound: the operations that occur together
    MaxCalls, \* bound: calls that begin
    MaxNow    \* bound: seconds

Ops == {"register", "oauth", "sendReset", "reset", "verify", "update", "delete",
        "registerBiometric", "authenticate", "removeBiometric",
        "login", "refresh", "logout",
        "requestReset", "resetByLink", "sendVerification", "verifyByLink",
        "updateProfile", "updateAvatar",
        "generateSecret", "enableTwoFactor", "disableTwoFactor"}

ASSUME AccountsAssumption ==
    /\ Mixes \subseteq SUBSET Ops
    /\ MaxCalls \in Nat /\ MaxNow \in Nat \ {0}
    /\ None \notin Emails \cup Phones \cup Types
    /\ {"reset", "refresh", "resetLink", "verificationLink"} \cap Types = {}

VARIABLES
    table,    \* rows of the other users, registered since
    user,     \* the row of one account: what the operations below change of it
    stored,   \* keys of the account in Redis, and which call stored each
    links,    \* keys of mailed links in Redis
    known,    \* tokens and links that were given away
    now,      \* the second
    calls,    \* calls
    begun,    \* number of calls so far
    usedUp,   \* history: stored keys that a call was told are used up or gone
    replaced, \* history: passwords that were replaced
    raced,    \* history: changes of methods overlapped, failed or met a deletion
    mix       \* bound: the operations of this behaviour

vars == <<table, user, stored, links, known, now, calls, begun, usedUp, replaced, raced, mix>>

\* What is neither a call nor a place where calls leave something.
rest == <<now, begun, raced, mix>>

Kinds == {"reset", "refresh"} \cup Types
LinkKinds == {"resetLink", "verificationLink"}

(* The columns of a user: "profile" stands for the profile's and the avatar; *)
(* the second factor has a secret in use and one that is being set up. The   *)
(* phone number, which need not be unique, is left out.                      *)
User == [email : Emails \cup {None}, password : 0..MaxCalls, active : BOOLEAN,
         methods : SUBSET Types, emailVerified : BOOLEAN, profile : 0..MaxCalls,
         twoFactor : BOOLEAN,
         secret : 0..MaxCalls + 1 \cup {None}, temp : 0..MaxCalls + 1 \cup {None}]

Idle == [at |-> "idle", op |-> None, n |-> 0, arg |-> None, new |-> None,
         got |-> None, cols |-> <<>>, before |-> {}, late |-> FALSE, answer |-> None]

Busy(c) == calls[c].at \notin {"idle", "replied"}

ChangesMethods(c) ==
    Busy(c) /\ calls[c].op \in {"registerBiometric", "removeBiometric"}

Go(c, at) == calls' = [calls EXCEPT ![c].at = at]

(* The call throws. *)
Refuse(c) == calls' = [calls EXCEPT ![c].at = "replied", ![c].answer = "no"]

(* The call returns; who used up or removed a key is told so. *)
Succeed(c, got) ==
    /\ calls' = [calls EXCEPT ![c].at = "replied", ![c].answer = "ok", ![c].got = got]
    /\ usedUp' = IF got # None /\ calls[c].op # "authenticate"
                 THEN usedUp \cup {got} ELSE usedUp

(* The last await is over, or its answer was lost. *)
Return(c, got) ==
    \/ Succeed(c, got)
    \/ Refuse(c) /\ UNCHANGED usedUp

(* A key as it is now: its kind and the call that stored it. *)
Key(kind) ==
    IF stored[kind] = None THEN None ELSE [kind |-> kind, by |-> stored[kind].by]

-----------------------------------------------------------------------------
(* A call begins, with the columns it will write if they are known by now. *)
Begin(c, op, arg, at, cols) ==
    /\ op \in mix /\ calls[c] = Idle
    /\ begun < MaxCalls /\ begun' = begun + 1
    /\ calls' = [calls EXCEPT ![c] =
          [Idle EXCEPT !.op = op, !.n = begun', !.arg = arg, !.at = at, !.cols = cols,
                       !.before = usedUp, !.late = ~user.active,
                       !.new = IF op = "login" THEN now ELSE None]]
    /\ raced' = \/ raced \/ op = "delete"
                \/ /\ op \in {"registerBiometric", "removeBiometric"}
                   /\ \E d \in Calls : ChangesMethods(d)
    /\ UNCHANGED <<table, user, stored, links, known, now, usedUp, replaced, mix>>

Register(c) ==
    \E e \in Emails \cup {None}, p \in Phones \cup {None} :
        /\ {e, p} # {None}
        /\ Begin(c, "register", [email |-> e, phone |-> p], "lookup", <<>>)

SendPasswordResetToken(c) == Begin(c, "sendReset", None, "findAccount", <<>>)

(* A token passes its verification if it was given away. *)
ResetPassword(c) ==
    \E t \in 1..now :
        /\ [kind |-> "reset", t |-> t] \in known
        /\ Begin(c, "reset", t, "get", [password |-> begun + 1])

EmailVerified == [emailVerified |-> TRUE]

(* The token of an email verification is signed elsewhere. *)
VerifyEmail(c) == Begin(c, "verify", None, "find", [active |-> TRUE])

(* What an update gives: some of the columns it may give, or others only. *)
Given(columns) == {[x \in s |-> columns[x]] : s \in SUBSET DOMAIN columns}

(* An email is written in lower case, by updateUser without blanks; the      *)
(* checks of the request leave none in that of updateProfile. It may be null. *)
UpdateUser(c) ==
    \E e \in Emails \cup {None} :
        \E cols \in Given([password |-> begun + 1, email |-> e]) :
            Begin(c, "update", None, "find", cols)

DeleteUser(c) == Begin(c, "delete", None, "findById", <<>>)

RegisterBiometric(c, type) == Begin(c, "registerBiometric", type, "findById", <<>>)

AuthenticateWithBiometric(c, type) == Begin(c, "authenticate", type, "findById", <<>>)

RemoveBiometric(c, type) == Begin(c, "removeBiometric", type, "findById", <<>>)

(* login signs without an await before. *)
Login(c) == Begin(c, "login", None, "set", <<>>)

(* The secret of refreshes is taken to be the one login signs with, as it is *)
(* unless JWT_REFRESH_SECRET is set: with one of its own no refresh passes.  *)
RefreshToken(c) ==
    \E t \in 1..now :
        /\ [kind |-> "refresh", t |-> t] \in known
        /\ Begin(c, "refresh", t, "get", <<>>)

Logout(c) == Begin(c, "logout", None, "del", <<>>)

(* A login through another service: the account is looked for by its email. *)
ValidateOAuthLogin(c) ==
    \E e \in Emails : Begin(c, "oauth", [email |-> e, phone |-> None], "findFirst", <<>>)

(* The links of PasswordResetService and EmailVerificationService. *)
RequestPasswordReset(c) == Begin(c, "requestReset", None, "findAccount", <<>>)

SendVerificationEmail(c) == Begin(c, "sendVerification", None, "findById", <<>>)

ResetByLink(c) ==
    \E n \in 1..MaxCalls :
        /\ [kind |-> "resetLink", t |-> n] \in known
        /\ Begin(c, "resetByLink", n, "getLink", [password |-> begun + 1])

VerifyByLink(c) ==
    \E n \in 1..MaxCalls :
        /\ [kind |-> "verificationLink", t |-> n] \in known
        /\ Begin(c, "verifyByLink", n, "getLink", EmailVerified)

(* Updates that do not look at the row before. *)
UpdateProfile(c) ==
    \E e \in Emails \cup {None} :
        \E cols \in Given([profile |-> begun + 1, email |-> e]) :
            Begin(c, "updateProfile", None, "write", cols)

UpdateAvatar(c) == Begin(c, "updateAvatar", None, "write", [profile |-> begun + 1])

(* Mutant: the secret in use stays. *)
FlagOff == [twoFactor |-> FALSE]

SecondFactorOff == [twoFactor |-> FALSE, secret |-> None, temp |-> None]

SecondFactorOn(secret) == [twoFactor |-> TRUE, secret |-> secret, temp |-> None]

TempSecret(secret) == [temp |-> secret]

DisableTwoFactor(c) == Begin(c, "disableTwoFactor", None, "write", SecondFactorOff)

GenerateTwoFactorSecret(c) == Begin(c, "generateSecret", None, "findById", <<>>)

EnableTwoFactor(c) == Begin(c, "enableTwoFactor", None, "findById", <<>>)

StartMore(c) ==
    \/ ValidateOAuthLogin(c)
    \/ RequestPasswordReset(c) \/ SendVerificationEmail(c)
    \/ ResetByLink(c) \/ VerifyByLink(c)
    \/ UpdateProfile(c) \/ UpdateAvatar(c)
    \/ DisableTwoFactor(c) \/ GenerateTwoFactorSecret(c) \/ EnableTwoFactor(c)

Start(c) ==
    \/ Register(c) \/ SendPasswordResetToken(c) \/ ResetPassword(c) \/ VerifyEmail(c)
    \/ UpdateUser(c) \/ DeleteUser(c) \/ Login(c) \/ RefreshToken(c) \/ Logout(c)
    \/ \E type \in Types :
          \/ RegisterBiometric(c, type)
          \/ AuthenticateWithBiometric(c, type)
          \/ RemoveBiometric(c, type)

-----------------------------------------------------------------------------
(* createUser looks for the email, or for the phone number if no email is    *)
(* given, ...                                                                *)
HasEmail(email) == user.email = email \/ \E r \in table : r.email = email

Taken(arg) ==
    IF arg.email # None THEN HasEmail(arg.email) ELSE \E r \in table : r.phone = arg.phone

(* validateOAuthLogin takes any account it finds, else it creates one. *)
FindFirst(c) ==
    /\ calls[c].at = "findFirst"
    /\ IF Taken(calls[c].arg) THEN Succeed(c, None)
       ELSE Go(c, "lookup") /\ UNCHANGED usedUp
    /\ UNCHANGED <<table, user, stored, links, known, replaced, rest>>

Lookup(c) ==
    /\ calls[c].at = "lookup"
    /\ IF Taken(calls[c].arg) THEN Refuse(c) ELSE Go(c, "insert")
    /\ UNCHANGED <<table, user, stored, links, known, usedUp, replaced, rest>>

(* Mutant: the column has no unique constraint. *)
InsertableAlways(arg) == TRUE

(* ... and inserts after the hash: only emails are unique in the table. The  *)
(* new user is not active, so that validateOAuthLogin fails when it wants to *)
(* make it so.                                                               *)
Insertable(arg) == arg.email # None => ~HasEmail(arg.email)

Insert(c) ==
    LET arg == calls[c].arg IN
    /\ calls[c].at = "insert"
    /\ IF Insertable(arg)
       THEN /\ table' = table \cup {[n |-> calls[c].n, email |-> arg.email,
                                     phone |-> arg.phone]}
            /\ IF calls[c].op = "oauth" THEN Refuse(c) /\ UNCHANGED usedUp
               ELSE Return(c, None)
       ELSE Refuse(c) /\ UNCHANGED <<table, usedUp>>
    /\ UNCHANGED <<user, stored, links, known, replaced, rest>>

-----------------------------------------------------------------------------
(* Mutant: updateUser goes on with a user who is not active. *)
FindAny(c) ==
    /\ calls[c].at = "find"
    /\ Go(c, "write")
    /\ UNCHANGED <<table, user, stored, links, known, usedUp, replaced, rest>>

(* updateUser: findById wants an active user, then perhaps a hash, ... *)
Find(c) ==
    /\ calls[c].at = "find"
    /\ IF user.active THEN Go(c, "write") ELSE Refuse(c)
    /\ UNCHANGED <<table, user, stored, links, known, usedUp, replaced, rest>>

AfterWrite(c) ==
    CASE calls[c].op \in {"resetByLink", "verifyByLink"} -> "delLink"
      [] calls[c].op \in {"delete", "updateAvatar", "generateSecret",
                          "enableTwoFactor", "disableTwoFactor"} -> "replied"
      [] OTHER -> "findAgain"

Updated(row, cols) == [x \in DOMAIN row |-> IF x \in DOMAIN cols THEN cols[x] ELSE row[x]]

(* An UPDATE to the email of another row fails, as any await may. *)
Writable(cols) ==
    "email" \in DOMAIN cols => cols.email = None \/ \A r \in table : r.email # cols.email

(* ... the UPDATE of the columns given, whatever the row holds by then; also *)
(* the UPDATE of deleteUser's save. A call is no longer late for an account  *)
(* that was made active again.                                               *)
Write(c) ==
    /\ calls[c].at = "write" /\ Writable(calls[c].cols)
    /\ user' = Updated(user, calls[c].cols)
    /\ replaced' = IF user'.password = user.password THEN replaced
                   ELSE replaced \cup {user.password}
    /\ LET fresh == [d \in Calls |-> [calls[d] EXCEPT !.late = @ /\ ~user'.active]] IN
       IF AfterWrite(c) # "replied"
       THEN calls' = [fresh EXCEPT ![c].at = AfterWrite(c)]
       ELSE \E answer \in {"ok", "no"} :
               calls' = [fresh EXCEPT ![c].at = "replied", ![c].answer = answer]
    /\ UNCHANGED <<table, stored, links, known, usedUp, rest>>

(* ... and findById once more. *)
FindAgain(c) ==
    /\ calls[c].at = "findAgain"
    /\ IF ~user.active THEN Refuse(c) /\ UNCHANGED usedUp
       ELSE IF calls[c].op = "reset" THEN Go(c, "del") /\ UNCHANGED usedUp
       ELSE Succeed(c, calls[c].got)
    /\ UNCHANGED <<table, user, stored, links, known, replaced, rest>>

(* sendPasswordResetToken, after its lookup, signs; requestPasswordReset     *)
(* draws a random id.                                                        *)
FindAccount(c) ==
    /\ calls[c].at = "findAccount"
    /\ IF calls[c].op = "requestReset" THEN Go(c, "setLink")
       ELSE calls' = [calls EXCEPT ![c].at = "set", ![c].new = now]
    /\ UNCHANGED <<table, user, stored, links, known, usedUp, replaced, rest>>

(* Mutant: the whole entity is written back with the new list. *)
WholeUser(c, methods) == [user EXCEPT !.methods = methods]

(* The columns that a change of the methods will write. *)
Methods(c, methods) == [methods |-> methods]

(* findById at the start of an operation: what it has read is what the       *)
(* operation goes on with.                                                   *)
FindById(c) ==
    LET type == calls[c].arg IN
    /\ calls[c].at = "findById"
    /\ \/ ~user.active /\ Refuse(c)
       \/ /\ user.active
          /\ CASE calls[c].op = "delete" ->
                    calls' = [calls EXCEPT ![c].at = "diff",
                                 ![c].cols = [user EXCEPT !.active = FALSE]]
               [] calls[c].op = "registerBiometric" ->
                    calls' = [calls EXCEPT ![c].at = "set",
                                 ![c].cols = Methods(c, user.methods \cup {type})]
               [] calls[c].op = "removeBiometric" ->
                    calls' = [calls EXCEPT ![c].at = "del", ![c].cols =
                                 IF type \in user.methods
                                 THEN Methods(c, user.methods \ {type}) ELSE <<>>]
               [] calls[c].op = "authenticate" ->
                    IF type \in user.methods THEN Go(c, "get") ELSE Refuse(c)
               [] calls[c].op = "refresh" ->
                    calls' = [calls EXCEPT ![c].at = "set", ![c].new = now]
               [] calls[c].op = "sendVerification" ->
                    IF user.emailVerified THEN Refuse(c) ELSE Go(c, "setLink")
               [] calls[c].op = "generateSecret" ->
                    calls' = [calls EXCEPT ![c].at = "write",
                                 ![c].cols = TempSecret(calls[c].n)]
               [] calls[c].op = "enableTwoFactor" ->
                    IF user.temp = None THEN Refuse(c)
                    ELSE calls' = [calls EXCEPT ![c].at = "write",
                                      ![c].cols = SecondFactorOn(user.temp)]
    /\ UNCHANGED <<table, user, stored, links, known, usedUp, replaced, rest>>

(* save of a user read earlier: the columns in which it differs from the row *)
(* as it is by now.                                                          *)
Diff(c) ==
    LET differ == {x \in DOMAIN user : calls[c].cols[x] # user[x]} IN
    /\ calls[c].at = "diff"
    /\ IF differ = {} THEN Succeed(c, None)
       ELSE /\ calls' = [calls EXCEPT ![c].at = "write",
                            ![c].cols = [x \in differ |-> calls[c].cols[x]]]
            /\ UNCHANGED usedUp
    /\ UNCHANGED <<table, user, stored, links, known, replaced, rest>>

-----------------------------------------------------------------------------
(* The key an operation is about. *)
KindOf(c) ==
    CASE calls[c].op \in {"sendReset", "reset"} -> "reset"
      [] calls[c].op \in {"requestReset", "resetByLink"} -> "resetLink"
      [] calls[c].op \in {"sendVerification", "verifyByLink"} -> "verificationLink"
      [] calls[c].op \in {"login", "refresh", "logout"} -> "refresh"
      [] OTHER -> calls[c].arg

(* GET: a token has to be the stored one. A refresh token that is not makes  *)
(* the stored one invalid.                                                   *)
Get(c) ==
    LET key == stored[KindOf(c)] IN
    /\ calls[c].at = "get"
    /\ CASE calls[c].op = "authenticate" ->
              IF key = None THEN Refuse(c)
              ELSE calls' = [calls EXCEPT ![c].got = Key(KindOf(c)), ![c].at = "compare"]
         [] key # None /\ key.t = calls[c].arg ->
              calls' = [calls EXCEPT ![c].got = Key(KindOf(c)), ![c].at =
                           IF calls[c].op = "reset" THEN "find" ELSE "findById"]
         [] OTHER ->
              IF calls[c].op = "reset" THEN Refuse(c) ELSE Go(c, "delReused")
    /\ UNCHANGED <<table, user, stored, links, known, usedUp, replaced, rest>>

(* The biometric id is the one that was hashed or not; login signs. *)
Compare(c) ==
    /\ calls[c].at = "compare"
    /\ \/ Refuse(c)
       \/ calls' = [calls EXCEPT ![c].at = "set", ![c].new = now]
    /\ UNCHANGED <<table, user, stored, links, known, usedUp, replaced, rest>>

(* Mutant: the session of a biometric login is stored under the type's key. *)
StoredUnderType(c) == KindOf(c)

(* The key it sets: with its biometric id a user gets a session. *)
StoredUnder(c) == IF calls[c].op = "authenticate" THEN "refresh" ELSE KindOf(c)

(* SET, with an expiry: a token, or a hash. *)
Set(c) ==
    LET kind == StoredUnder(c) IN
    /\ calls[c].at = "set"
    /\ stored' = [stored EXCEPT ![kind] = [t |-> calls[c].new, by |-> calls[c].n]]
    /\ known' = IF kind \in Types THEN known
                ELSE known \cup {[kind |-> kind, t |-> calls[c].new]}
    /\ CASE calls[c].op = "refresh" -> Go(c, "del") /\ UNCHANGED usedUp
         [] calls[c].op = "registerBiometric" -> Go(c, "find") /\ UNCHANGED usedUp
         [] OTHER -> Return(c, calls[c].got)
    /\ UNCHANGED <<table, user, links, replaced, rest>>

(* Mutant: the key is deleted under another name, as that of the token. *)
NoneDeleted(c) == {}

Deleted(c) == {KindOf(c)}

(* DEL: a token that was used, a session, or a hash before its type is taken *)
(* off the list.                                                             *)
Del(c) ==
    LET gone == IF calls[c].op \in {"logout", "removeBiometric"} THEN Key(KindOf(c))
                ELSE calls[c].got IN
    /\ calls[c].at = "del"
    /\ stored' = [kind \in Kinds |-> IF kind \in Deleted(c) THEN None ELSE stored[kind]]
    /\ IF calls[c].op = "removeBiometric" /\ calls[c].cols # <<>>
       THEN /\ calls' = [calls EXCEPT ![c].at = "find", ![c].got = gone]
            /\ UNCHANGED usedUp
       ELSE Return(c, gone)
    /\ UNCHANGED <<table, user, links, known, replaced, rest>>

DelReused(c) ==
    /\ calls[c].at = "delReused"
    /\ stored' = [stored EXCEPT !["refresh"] = None]
    /\ Refuse(c)
    /\ UNCHANGED <<table, user, links, known, usedUp, replaced, rest>>

(* A mail with the link, or an error, which is thrown again: then nobody     *)
(* knows the id.                                                             *)
Mailed(c) ==
    /\ Return(c, None)
    /\ \/ known' = known \cup {[kind |-> KindOf(c), t |-> calls[c].n]}
       \/ calls'[c].answer = "no" /\ UNCHANGED known

(* SET of a link's id, then the mail. *)
SetLink(c) ==
    /\ calls[c].at = "setLink"
    /\ links' = links \cup {[kind |-> KindOf(c), by |-> calls[c].n]}
    /\ Mailed(c)
    /\ UNCHANGED <<table, user, stored, replaced, rest>>

(* GET of a link's id. *)
GetLink(c) ==
    LET link == [kind |-> KindOf(c), by |-> calls[c].arg] IN
    /\ calls[c].at = "getLink"
    /\ IF link \notin links THEN Refuse(c)
       ELSE calls' = [calls EXCEPT ![c].got = link, ![c].at = "find"]
    /\ UNCHANGED <<table, user, stored, links, known, usedUp, replaced, rest>>

(* DEL of a link's id, after the UPDATE it allowed. *)
DelLink(c) ==
    /\ calls[c].at = "delLink"
    /\ links' = {link \in links : link # calls[c].got \/ link.kind \notin Deleted(c)}
    /\ Return(c, calls[c].got)
    /\ UNCHANGED <<table, user, stored, known, replaced, rest>>

(* An await fails, or the process ends, which fails all calls under way. *)
Fail(c) ==
    /\ Busy(c)
    /\ Refuse(c)
    /\ raced' = (raced \/ ChangesMethods(c))
    /\ UNCHANGED <<table, user, stored, links, known, now, begun, usedUp, replaced, mix>>

Finish(c) ==
    /\ calls[c].at = "replied"
    /\ calls' = [calls EXCEPT ![c] = Idle]
    /\ UNCHANGED <<table, user, stored, links, known, usedUp, replaced, rest>>

-----------------------------------------------------------------------------
Expire(kind) ==
    /\ stored[kind] # None
    /\ stored' = [stored EXCEPT ![kind] = None]
    /\ UNCHANGED <<table, user, links, known, calls, usedUp, replaced, rest>>

ExpireLink(link) ==
    /\ links' = links \ {link}
    /\ UNCHANGED <<table, user, stored, known, calls, usedUp, replaced, rest>>

Tick ==
    /\ now < MaxNow
    /\ now' = now + 1
    /\ UNCHANGED <<table, user, stored, links, known, calls, begun, usedUp, replaced, raced, mix>>

(* The account was registered, with an email or a phone number, and then     *)
(* made active by hand: no operation does that. It may have a second factor  *)
(* and be about to change its secret.                                        *)
Init ==
    /\ mix \in Mixes
    /\ table = {}
    /\ \E e \in Emails \cup {None}, two \in {FALSE, "enableTwoFactor" \in mix} :
          user = [email |-> e, password |-> 0, active |-> TRUE, methods |-> {},
                  emailVerified |-> FALSE, profile |-> 0, twoFactor |-> two,
                  secret |-> IF two THEN 0 ELSE None,
                  temp |-> IF two THEN MaxCalls + 1 ELSE None]
    /\ stored = [kind \in Kinds |-> None] /\ links = {} /\ known = {}
    /\ now = 1 /\ begun = 0
    /\ calls = [c \in Calls |-> Idle]
    /\ usedUp = {} /\ replaced = {} /\ raced = FALSE

Step(c) ==
    \/ FindFirst(c) \/ Lookup(c) \/ Insert(c)
    \/ SetLink(c) \/ GetLink(c) \/ DelLink(c)
    \/ Find(c) \/ Write(c) \/ FindAgain(c) \/ FindAccount(c) \/ FindById(c) \/ Diff(c)
    \/ Get(c) \/ Compare(c) \/ Set(c) \/ Del(c) \/ DelReused(c) \/ Fail(c) \/ Finish(c)

Next ==
    \/ \E c \in Calls : Start(c) \/ StartMore(c) \/ Step(c)
    \/ \E kind \in Kinds : Expire(kind)
    \/ \E link \in links : ExpireLink(link)
    \/ Tick

Spec == Init /\ [][Next]_vars

-----------------------------------------------------------------------------
(* Every variable has its type. *)
TypeOK ==
    /\ user \in User
    /\ \A kind \in Kinds : stored[kind] # None =>
          /\ stored[kind].by \in 1..MaxCalls
          /\ stored[kind].t \in (IF kind \in Types THEN {None} ELSE 1..now)
    /\ links \subseteq [kind : LinkKinds, by : 1..MaxCalls]
    /\ usedUp \subseteq [kind : Kinds \cup LinkKinds, by : 1..MaxCalls]
    /\ \A c \in Calls : calls[c].op \in Ops \cup {None} /\ calls[c].n \in 0..MaxCalls
    /\ now \in 1..MaxNow /\ begun \in 0..MaxCalls /\ raced \in BOOLEAN

(* Calls that found an email free do not both get it: no two registrations,  *)
(* no registration and an update of the account's email, which does not look *)
(* whether the email is free, nor a deletion that writes an email it read.   *)
OneRowPerEmail ==
    /\ \A r, s \in table : r.email = s.email /\ r.email # None => r = s
    /\ \A r \in table : r.email = user.email => r.email = None

(* What was used up or removed is never accepted again: once a reset, a      *)
(* verification, a refresh, a logout or a removal has been answered, no call *)
(* that begins afterwards succeeds with the token, link or hash it was       *)
(* about, although the services read, use and delete in separate steps and a *)
(* token signed in the same second looks the same.                           *)
UsedUpRefused ==
    \A c \in Calls :
        calls[c].answer = "ok" /\ calls[c].op \in {"reset", "refresh", "authenticate",
                                                  "resetByLink", "verifyByLink"}
            => calls[c].got \notin calls[c].before

(* A call that begins when the account is deleted changes no credential of   *)
(* it and does not revive it: only a call that found it active before can.   *)
(* (Profile, email, avatar and the end of the second factor are written      *)
(* unseen.)                                                                  *)
DeletedIsFrozen ==
    \A c \in Calls : calls[c].late /\ calls[c].at = "write" =>
        DOMAIN calls[c].cols \subseteq {"profile", "email", "twoFactor", "secret", "temp"}

(* The second factor is on exactly when it has a secret: they are set by     *)
(* calls that overlap, and come apart only by a deletion that read the row   *)
(* before.                                                                   *)
SecretWhileOn ==
    [][user' # user /\ (user.twoFactor <=> user.secret # None) =>
          \/ user'.twoFactor <=> user'.secret # None
          \/ \E c \in Calls : calls[c].op = "delete" /\ calls[c].at = "write"]_vars

(* A password that was replaced comes back in no way but by a deletion that  *)
(* read the row before: the other operations write their own columns only.   *)
OnlyDeletionUndoes ==
    [][user'.password # user.password /\ user'.password \in replaced =>
          \E c \in Calls : calls[c].op = "delete" /\ calls[c].at = "write"]_vars

(* As long as registering and removing biometric methods neither overlap nor *)
(* fail midway nor meet a deletion, a hash is stored only for a type on the  *)
(* list: the key and the column change apart, and agree in the end.          *)
HashIsListed ==
    ~raced /\ ~(\E c \in Calls : ChangesMethods(c)) =>
        \A type \in Types : stored[type] # None => type \in user.methods

(* "Invalidate the old refresh token immediately" (auth.service.ts:124): the *)
(* token a refresh deletes is the one it was called with.                    *)
OldTokenInvalidated ==
    [][\A c \in Calls :
          /\ calls[c].op = "refresh" /\ calls[c].at = "del"
          /\ calls'[c].answer = "ok" /\ stored["refresh"] # None
          => stored["refresh"].t = calls[c].arg]_vars

=============================================================================
